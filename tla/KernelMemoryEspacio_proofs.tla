--------------------- MODULE KernelMemoryEspacio_proofs ---------------------
(***************************************************************************)
(* More theorems about KernelMemory, on top of the inductive invariant of   *)
(* KernelMemory_proofs.                                                     *)
(*                                                                          *)
(* About its SPACE: free holes are joined, no byte of a stick and no block of*)
(* SWAP is lost, and a compaction that was found worthwhile leaves the hole it*)
(* was run for.                                                             *)
(*                                                                          *)
(* About what it promises: it implements MemoriaAbstracta.  What a process  *)
(* sees of its memory changes only when the process asks for it, wherever its*)
(* bytes are stored: every step of SpecOrdenada is a step of the abstract   *)
(* memory, or leaves what the processes see as it was.                      *)
(***************************************************************************)
EXTENDS KernelMemory_proofs

-----------------------------------------------------------------------------
(* Addresses: a hole, or a segment in RAM, as the set of its bytes. *)

En(a, base, tam) == base <= a /\ a < base + tam

Consolidados(H) == \A g, h \in H : g.base + g.tam # h.base

EnHuecos(H, a) == \E h \in H : En(a, h.base, h.tam)

EnSegmentos(t, a) ==
    \E p \in Pids : \E i \in DOMAIN t[p] :
        ~t[p][i].en_swap /\ En(a, t[p][i].direccion_base, t[p][i].limite)

\* A freed interval: the hole it makes has no neighbour left to join, and holes
\* cover what they covered and the interval.
LEMMA LiberarEspacioUne ==
    ASSUME NEW H \in SUBSET Hueco, HuecosDisj(H), Consolidados(H),
           NEW b \in Nat, NEW t \in Nat \ {0}, Lejos(H, b, t)
    PROVE  LET R == LiberarEspacio(H, b, t)
           IN  /\ Consolidados(R)
               /\ \A a \in Nat : EnHuecos(H, a) \/ En(a, b, t) => EnHuecos(R, a)
<1> DEFINE izq == {h \in H : h.base + h.tam = b}
           der == {h \in H : h.base = b + t}
           resto == H \ (izq \cup der)
           hi == CHOOSE h \in izq : TRUE
           hd == CHOOSE h \in der : TRUE
           nueva == IF izq = {} THEN b ELSE hi.base
           fin == IF der = {} THEN b + t ELSE hd.base + hd.tam
           nuevo == [base |-> nueva, tam |-> fin - nueva]
           R == LiberarEspacio(H, b, t)
<1>1. R = resto \cup {nuevo}
  BY DEF LiberarEspacio
<1>2. \A h \in H : h.base \in Nat /\ h.tam \in Nat /\ h.tam > 0
  BY DEF Hueco
<1>3. /\ izq # {} => hi \in H /\ hi.base + hi.tam = b
      /\ der # {} => hd \in H /\ hd.base = b + t
  OBVIOUS
<1>4. /\ \A h \in izq : h = hi
      /\ \A h \in der : h = hd
  <2>1. ASSUME NEW h \in izq PROVE h = hi
    BY <1>2, <1>3, <2>1 DEF HuecosDisj, Disjuntos
  <2>2. ASSUME NEW h \in der PROVE h = hd
    BY <1>2, <1>3, <2>2 DEF HuecosDisj, Disjuntos
  <2>3. QED BY <2>1, <2>2
<1>5. /\ nueva \in Nat /\ fin \in Nat
      /\ nueva <= b /\ b + t <= fin
  BY <1>2, <1>3
<1>6. nuevo.base = nueva /\ nuevo.base + nuevo.tam = fin
  BY <1>5
<1>7. ASSUME NEW h \in resto
      PROVE  fin # h.base /\ h.base + h.tam # nueva
  <2>1. h \in H /\ h.base # b + t /\ h.base + h.tam # b
    OBVIOUS
  <2>2. fin # h.base
    <3>1. CASE der = {}
      BY <2>1, <3>1
    <3>2. CASE der # {}
      BY <2>1, <3>2, <1>3 DEF Consolidados
    <3>3. QED BY <3>1, <3>2
  <2>3. h.base + h.tam # nueva
    <3>1. CASE izq = {}
      BY <2>1, <3>1
    <3>2. CASE izq # {}
      BY <2>1, <3>2, <1>3 DEF Consolidados
    <3>3. QED BY <3>1, <3>2
  <2>4. QED BY <2>2, <2>3
<1>8. ASSUME NEW a \in Nat, EnHuecos(H, a) \/ En(a, b, t)
      PROVE  EnHuecos(R, a)
  <2>1. CASE \E h \in resto : En(a, h.base, h.tam)
    BY <2>1, <1>1 DEF EnHuecos
  <2>2. CASE En(a, nueva, fin - nueva)
    <3>1. nuevo \in R /\ En(a, nuevo.base, nuevo.tam)
      BY <2>2, <1>1
    <3>2. QED BY <3>1 DEF EnHuecos
  <2>3. CASE ~(\E h \in resto : En(a, h.base, h.tam)) /\ ~En(a, nueva, fin - nueva)
    <3>1. ~En(a, b, t)
      BY <2>3, <1>5 DEF En
    <3>2. PICK h \in H : En(a, h.base, h.tam)
      BY <3>1, <1>8 DEF EnHuecos
    <3>3. h \in izq \/ h \in der
      BY <3>2, <2>3
    <3> HIDE DEF fin, nueva, hi, hd
    <3>4. CASE h \in izq
      <4>1. h.base = nueva /\ h.base + h.tam = b
        BY <3>4, <1>4 DEF nueva
      <4>2. QED BY <3>2, <4>1, <2>3, <1>5 DEF En
    <3>5. CASE h \in der
      <4>1. h.base = b + t /\ h.base + h.tam = fin
        BY <3>5, <1>4 DEF fin
      <4>2. QED BY <3>2, <4>1, <2>3, <1>5 DEF En
    <3>6. QED BY <3>3, <3>4, <3>5
  <2>4. QED BY <2>1, <2>2, <2>3
<1> HIDE DEF izq, der, resto, nueva, fin, nuevo, R
<1>9. Consolidados(R)
  <2>1. SUFFICES ASSUME NEW g \in R, NEW h \in R
                 PROVE  g.base + g.tam # h.base
    BY DEF Consolidados
  <2>2. CASE g = nuevo /\ h = nuevo
    BY <2>2, <1>5, <1>6
  <2>3. CASE g = nuevo /\ h \in resto
    BY <2>3, <1>6, <1>7
  <2>4. CASE g \in resto /\ h = nuevo
    BY <2>4, <1>6, <1>7
  <2>5. CASE g \in resto /\ h \in resto
    BY <2>5 DEF Consolidados, resto
  <2>6. QED BY <2>2, <2>3, <2>4, <2>5, <1>1
<1>10. QED
  BY <1>8, <1>9 DEF R

\* A cut hole: what is left of it ends where it ended and begins inside it; the
\* holes and the piece cover what the holes covered.
LEMMA RecortarUne ==
    ASSUME NEW H \in SUBSET Hueco, HuecosDisj(H), Consolidados(H),
           NEW h \in H, NEW t \in Nat \ {0}, t <= h.tam
    PROVE  LET R == Recortar(H, h, t)
           IN  /\ Consolidados(R)
               /\ \A a \in Nat : EnHuecos(H, a) => EnHuecos(R, a) \/ En(a, h.base, t)
<1> DEFINE R == Recortar(H, h, t)
           r == [base |-> h.base + t, tam |-> h.tam - t]
<1>1. h.base \in Nat /\ h.tam \in Nat
  BY DEF Hueco
<1>2. /\ \A g \in R : g \in H \ {h} \/ (t < h.tam /\ g = r)
      /\ \A g \in H : g # h => g \in R
      /\ t < h.tam => r \in R
  BY <1>1 DEF Recortar
<1>3. \A g \in H : g.base \in Nat /\ g.tam \in Nat /\ g.tam > 0
  BY DEF Hueco
<1>4. r.base = h.base + t /\ r.base + r.tam = h.base + h.tam
  BY <1>1
<1>5. ASSUME NEW g \in H \ {h}, t < h.tam
      PROVE  g.base + g.tam # h.base + t
  BY <1>1, <1>3, <1>5 DEF HuecosDisj, Disjuntos
<1>6. ASSUME NEW a \in Nat, EnHuecos(H, a)
      PROVE  EnHuecos(R, a) \/ En(a, h.base, t)
  <2>1. PICK g \in H : En(a, g.base, g.tam)
    BY <1>6 DEF EnHuecos
  <2>2. CASE g # h
    BY <2>1, <2>2, <1>2 DEF EnHuecos
  <2>3. CASE g = h /\ ~En(a, h.base, t)
    <3>1. t < h.tam /\ En(a, r.base, r.tam)
      BY <2>1, <2>3, <1>1 DEF En
    <3>2. QED BY <3>1, <1>2 DEF EnHuecos
  <2>4. QED BY <2>2, <2>3
<1> HIDE DEF R, r
<1>7. Consolidados(R)
  <2>1. SUFFICES ASSUME NEW f \in R, NEW g \in R
                 PROVE  f.base + f.tam # g.base
    BY DEF Consolidados
  <2>2. CASE f \in H \ {h} /\ g \in H \ {h}
    BY <2>2 DEF Consolidados
  <2>3. CASE f \in H \ {h} /\ t < h.tam /\ g = r
    BY <2>3, <1>4, <1>5
  <2>4. CASE t < h.tam /\ f = r /\ g \in H \ {h}
    BY <2>4, <1>4 DEF Consolidados
  <2>5. CASE t < h.tam /\ f = r /\ g = r
    BY <2>5, <1>1, <1>4
  <2>6. QED BY <2>2, <2>3, <2>4, <2>5, <1>2
<1>8. QED
  BY <1>6, <1>7 DEF R

-----------------------------------------------------------------------------
(* Counting: EspacioLibreTotal and FinCompactado count addresses. *)

Libres(H) == {a \in Direcciones : EnHuecos(H, a)}

\* The pairs that EspacioLibreTotal counts are the free addresses, one to one.
LEMMA LibresLema ==
    ASSUME NEW H \in SUBSET Hueco, NEW T \in Nat, T <= MemoriaMaxima,
           HuecosDisj(H), HuecosBajo(H, T)
    PROVE  /\ IsFiniteSet(Libres(H))
           /\ Cardinality({c \in H \X Direcciones : c[2] < c[1].tam}) = Cardinality(Libres(H))
<1> DEFINE C == {c \in H \X Direcciones : c[2] < c[1].tam}
           f == [c \in C |-> c[1].base + c[2]]
<1>1. MemoriaMaxima \in Nat
  BY KMAssumption DEF KMAssumption
<1>2. IsFiniteSet(Libres(H))
  <2>1. 0 \in Int /\ MemoriaMaxima - 1 \in Int
    BY <1>1
  <2>2. IsFiniteSet(Direcciones)
    BY <2>1, FS_Interval DEF Direcciones
  <2>3. Libres(H) \in SUBSET Direcciones
    BY DEF Libres
  <2>4. QED BY ONLY <2>2, <2>3, FS_Subset
<1>3. \A h \in H : /\ h.base \in Nat /\ h.tam \in Nat /\ h.tam > 0
                   /\ h.base + h.tam <= T
  BY DEF Hueco, HuecosBajo
<1>4. \A c \in C : /\ c = <<c[1], c[2]>> /\ c[1] \in H /\ c[2] \in Nat
                   /\ c[2] < c[1].tam
  BY DEF Direcciones
<1>5. ASSUME NEW c \in C PROVE c[1].base + c[2] \in Libres(H)
  <2>1. En(c[1].base + c[2], c[1].base, c[1].tam)
    BY <1>3, <1>4 DEF En
  <2>2. c[1].base + c[2] \in Direcciones
    BY <1>1, <1>3, <1>4 DEF Direcciones
  <2>3. QED BY <1>4, <2>1, <2>2 DEF Libres, EnHuecos
<1>6. f \in [C -> Libres(H)]
  BY <1>5
<1>7. ASSUME NEW c \in C, NEW d \in C, f[c] = f[d] PROVE c = d
  <2>1. c[1].base + c[2] = d[1].base + d[2]
    BY <1>7
  <2>2. c[1] = d[1]
    BY <2>1, <1>3, <1>4 DEF HuecosDisj, Disjuntos
  <2>3. QED BY <2>1, <2>2, <1>3, <1>4
<1>8. ASSUME NEW a \in Libres(H) PROVE \E c \in C : f[c] = a
  <2>1. PICK h \in H : En(a, h.base, h.tam)
    BY DEF Libres, EnHuecos
  <2>2. a \in Nat /\ a < MemoriaMaxima
    BY <1>1 DEF Libres, Direcciones
  <2>3. a - h.base \in Direcciones /\ a - h.base < h.tam /\ h.base + (a - h.base) = a
    BY <2>1, <2>2, <1>1, <1>3 DEF En, Direcciones
  <2>4. <<h, a - h.base>> \in C
    BY <2>3
  <2>5. QED BY <2>3, <2>4
<1> HIDE DEF C
<1>9. f \in Injection(C, Libres(H))
  BY <1>6, <1>7, Fun_IsInj
<1>10. f \in Surjection(C, Libres(H))
  BY <1>6, <1>8, Fun_IsSurj
<1> HIDE DEF f
<1>11. Cardinality(C) = Cardinality(Libres(H))
  BY <1>2, <1>9, <1>10, FS_Injection
<1>12. QED BY <1>2, <1>11 DEF C

\* Every address below the end of the compacted segments is in one of them: their
\* bytes go one to one to the addresses below it, and are as many.
LEMMA CompactadosLlenan ==
    ASSUME TypeOK, Acotada, MemoriaSana,
           NEW a \in 0 .. FinCompactado - 1
    PROVE  \E l \in EnRam : En(a, NuevaBase(l), Seg(l).limite)
<1> DEFINE C == Celdas(EnRam)
           B == 0 .. FinCompactado - 1
           f == [c \in C |-> NuevaBase(c[1]) + c[2]]
<1>1. /\ FinCompactado \in Nat
      /\ \A l \in EnRam : NuevaBase(l) \in Nat
      /\ \A l \in EnRam : NuevaBase(l) + Seg(l).limite <= FinCompactado
      /\ \A k, l \in EnRam : k # l =>
             Disjuntos(NuevaBase(k), Seg(k).limite, NuevaBase(l), Seg(l).limite)
  BY NuevaBaseLema DEF MemoriaSana
<1>2. \A l \in EnRam : Seg(l).limite \in Nat
  BY LugaresLema, KMAssumption DEF EnRam, KMAssumption
<1>3. \A c \in C : /\ c[1] \in EnRam /\ c[2] \in Nat /\ c[2] < Seg(c[1]).limite
                   /\ c = <<c[1], c[2]>>
  BY DEF Celdas
<1>4. Cardinality(C) = FinCompactado
  BY DEF FinCompactado
<1> HIDE DEF C
<1>5. f \in [C -> B]
  BY <1>1, <1>2, <1>3
<1>6. ASSUME NEW c \in C, NEW d \in C, f[c] = f[d] PROVE c = d
  <2>1. NuevaBase(c[1]) + c[2] = NuevaBase(d[1]) + d[2]
    BY <1>6
  <2>2. c[1] = d[1]
    BY <2>1, <1>1, <1>2, <1>3 DEF Disjuntos
  <2>3. QED BY <2>1, <2>2, <1>1, <1>3
<1>7. f \in Injection(C, B)
  BY <1>5, <1>6, Fun_IsInj
<1>8. IsFiniteSet(B) /\ Cardinality(B) = FinCompactado
  BY <1>1, FS_Interval
<1>9. f \in Surjection(C, B)
  <2> HIDE DEF f, B
  <2>1. QED BY <1>4, <1>7, <1>8, FS_Injection
<1>10. PICK c \in C : f[c] = a
  <2> HIDE DEF f
  <2>1. \A x \in B : \E c \in C : f[c] = x
    BY <1>9 DEF Surjection
  <2>2. QED BY <2>1
<1>11. En(a, NuevaBase(c[1]), Seg(c[1]).limite)
  BY <1>1, <1>2, <1>3, <1>10 DEF En
<1>12. QED BY <1>3, <1>11

\* The free bytes and the bytes of the segments are not more than memory.
LEMMA LibresCaben ==
    ASSUME TypeOK, Acotada, MemoriaSana
    PROVE  FinCompactado + EspacioLibreTotal <= memoria_total_sistema
<1> DEFINE T == memoria_total_sistema
           H == lista_huecos_libres
           t == tabla_segmentos
           B == 0 .. T - 1
           C == Celdas(EnRam)
           Ocupadas == {a \in B : EnSegmentos(t, a)}
           f == [c \in C |-> Seg(c[1]).direccion_base + c[2]]
<1>1. /\ H \in SUBSET Hueco /\ t \in Tablas /\ T \in Nat /\ T <= MemoriaMaxima
      /\ MemoriaMaxima \in Nat
  BY Hechos
<1>2. Sano(H, t, T)
  BY DEF MemoriaSana
<1>3. IsFiniteSet(B) /\ Cardinality(B) = T
  BY <1>1, FS_Interval
<1>4. \A l \in EnRam : /\ l[1] \in Pids /\ l[2] \in DOMAIN t[l[1]] /\ l = <<l[1], l[2]>>
                       /\ Seg(l) = t[l[1]][l[2]] /\ ~Seg(l).en_swap
                       /\ Seg(l).direccion_base \in Nat /\ Seg(l).limite \in Nat
                       /\ Seg(l).direccion_base + Seg(l).limite <= T
  <2>1. SUFFICES ASSUME NEW l \in EnRam
                 PROVE  /\ l[1] \in Pids /\ l[2] \in DOMAIN t[l[1]] /\ l = <<l[1], l[2]>>
                        /\ Seg(l) = t[l[1]][l[2]] /\ ~Seg(l).en_swap
                        /\ Seg(l).direccion_base \in Nat /\ Seg(l).limite \in Nat
                        /\ Seg(l).direccion_base + Seg(l).limite <= T
    OBVIOUS
  <2>2. l \in Lugares /\ ~Seg(l).en_swap
    BY DEF EnRam
  <2>3. /\ l[1] \in Pids /\ l[2] \in DOMAIN t[l[1]] /\ l = <<l[1], l[2]>>
        /\ Seg(l) = t[l[1]][l[2]]
        /\ Seg(l).direccion_base \in Nat /\ Seg(l).limite \in 1 .. SEGMENT_MAX_SIZE
    BY <2>2, LugaresLema
  <2>4. QED BY <2>2, <2>3, <1>2, KMAssumption DEF Sano, SegsBajo, KMAssumption
<1>5. \A c \in C : /\ c[1] \in EnRam /\ c[2] \in Nat /\ c[2] < Seg(c[1]).limite
                   /\ c = <<c[1], c[2]>>
  BY DEF Celdas
<1> HIDE DEF C
<1>6. ASSUME NEW c \in C PROVE f[c] \in Ocupadas
  <2>1. c[1] \in EnRam /\ c[2] \in Nat /\ c[2] < Seg(c[1]).limite
    BY <1>5
  <2>2. En(f[c], Seg(c[1]).direccion_base, Seg(c[1]).limite) /\ f[c] \in B
    BY <2>1, <1>1, <1>4 DEF En
  <2>3. EnSegmentos(t, f[c])
    BY <2>1, <2>2, <1>4 DEF EnSegmentos
  <2>4. QED BY <2>2, <2>3
<1>7. ASSUME NEW c \in C, NEW d \in C, f[c] = f[d] PROVE c = d
  <2>1. Seg(c[1]).direccion_base + c[2] = Seg(d[1]).direccion_base + d[2]
    BY <1>7
  <2>2. c[1] \in EnRam /\ d[1] \in EnRam
    BY <1>5
  <2>3. c[1] = d[1]
    <3>1. SUFFICES ASSUME c[1] # d[1] PROVE FALSE
      OBVIOUS
    <3>2. c[1][1] # d[1][1] \/ c[1][2] # d[1][2]
      BY <2>2, <3>1, <1>4
    <3>3. Disjuntos(Seg(c[1]).direccion_base, Seg(c[1]).limite,
                    Seg(d[1]).direccion_base, Seg(d[1]).limite)
      BY <2>2, <3>2, <1>2, <1>4 DEF Sano, SegsDisj
    <3>4. QED BY <2>1, <2>2, <3>3, <1>4, <1>5 DEF Disjuntos
  <2>4. QED BY <2>1, <2>2, <2>3, <1>4, <1>5
<1>8. f \in Injection(C, Ocupadas)
  <2>1. f \in [C -> Ocupadas]
    BY <1>6
  <2>2. QED BY <2>1, <1>7, Fun_IsInj
<1>9. IsFiniteSet(Ocupadas) /\ Cardinality(Ocupadas) \in Nat
  <2>1. Ocupadas \in SUBSET B
    OBVIOUS
  <2>2. QED BY ONLY <2>1, <1>3, FS_Subset, FS_CardinalityType
<1>10. FinCompactado <= Cardinality(Ocupadas)
  <2> HIDE DEF f, Ocupadas
  <2>1. QED BY <1>8, <1>9, FS_Injection DEF FinCompactado, C
<1>11. IsFiniteSet(Libres(H)) /\ EspacioLibreTotal = Cardinality(Libres(H))
  BY <1>1, <1>2, LibresLema DEF Sano, EspacioLibreTotal
<1>12. Libres(H) \cap Ocupadas = {}
  <2>1. SUFFICES ASSUME NEW a \in Libres(H), EnSegmentos(t, a) PROVE FALSE
    OBVIOUS
  <2>2. PICK h \in H : En(a, h.base, h.tam)
    BY DEF Libres, EnHuecos
  <2>3. PICK p \in Pids : \E i \in DOMAIN t[p] :
            ~t[p][i].en_swap /\ En(a, t[p][i].direccion_base, t[p][i].limite)
    BY <2>1 DEF EnSegmentos
  <2>7. PICK i \in DOMAIN t[p] :
            ~t[p][i].en_swap /\ En(a, t[p][i].direccion_base, t[p][i].limite)
    BY <2>3
  <2>4. Disjuntos(h.base, h.tam, t[p][i].direccion_base, t[p][i].limite)
    BY <2>7, <1>2 DEF Sano, Apartados, Lejos
  <2>5. /\ t[p][i].direccion_base \in Nat /\ t[p][i].limite \in Nat
        /\ h.base \in Nat /\ h.tam \in Nat /\ a \in Nat
    BY <1>1, SegmentoTipo DEF Hueco, Libres, Direcciones
  <2>6. QED BY <2>2, <2>7, <2>4, <2>5 DEF En, Disjuntos
<1>13. Libres(H) \cup Ocupadas \in SUBSET B
  <2>1. SUFFICES ASSUME NEW a \in Libres(H) PROVE a \in B
    OBVIOUS
  <2>2. PICK h \in H : En(a, h.base, h.tam)
    BY DEF Libres, EnHuecos
  <2>3. h.base \in Nat /\ h.tam \in Nat /\ a \in Nat /\ h.base + h.tam <= T
    BY <1>1, <1>2 DEF Hueco, Libres, Direcciones, Sano, HuecosBajo
  <2>4. QED BY <2>2, <2>3, <1>1 DEF En
<1> HIDE DEF Ocupadas, B, H
<1>14. Cardinality(Libres(H) \cup Ocupadas) <= T
  BY <1>3, <1>13, FS_Subset
<1>15. Cardinality(Libres(H) \cup Ocupadas)
       = Cardinality(Libres(H)) + Cardinality(Ocupadas)
  BY <1>9, <1>11, <1>12, UnionDisjunta
<1>16. FinCompactado \in Nat /\ Cardinality(Libres(H)) \in Nat
  BY <1>11, NuevaBaseLema, FS_CardinalityType DEF MemoriaSana
<1>17. QED BY <1>1, <1>9, <1>10, <1>11, <1>14, <1>15, <1>16

-----------------------------------------------------------------------------
(* Tables: which segments stay in RAM, and which blocks of SWAP are taken. *)

\* Every segment in RAM of t, but the one of p at i, is in table t2.
Queda(t, t2, p, i) ==
    \A q \in Pids : \A j \in DOMAIN t[q] :
        (q # p \/ j # i) /\ ~t[q][j].en_swap =>
            \E k \in DOMAIN t2[q] : t2[q][k] = t[q][j]

\* Block b belongs to a segment of t in SWAP.
Tomado(t, b) ==
    \E p \in Pids : \E i \in DOMAIN t[p] :
        t[p][i].en_swap /\ b \in BloquesDe(t[p][i])

BloquesDisj(t) ==
    \A p, q \in Pids : \A i \in DOMAIN t[p], j \in DOMAIN t[q] :
        /\ p # q \/ i # j
        /\ t[p][i].en_swap /\ t[q][j].en_swap
        => BloquesDe(t[p][i]) \cap BloquesDe(t[q][j]) = {}

\* B holds the blocks of the segments of t in SWAP, and no two share one.
BloquesBien(t, B) ==
    /\ \A b \in Nat : b \in B <=> Tomado(t, b)
    /\ BloquesDisj(t)

\* A table in which p has lost one segment, and the blocks of that segment.
LEMMA QuitarEspacio ==
    ASSUME NEW t \in Tablas, NEW p \in Pids, NEW i \in DOMAIN t[p],
           NEW r \in Seq(Segmento),
           DOMAIN r = 1 .. Len(t[p]) - 1,
           \A j \in 1 .. Len(t[p]) - 1 : r[j] = t[p][IF j < i THEN j ELSE j + 1],
           NEW B, BloquesBien(t, B)
    PROVE  LET t2 == [t EXCEPT ![p] = r]
               B2 == IF t[p][i].en_swap THEN B \ BloquesDe(t[p][i]) ELSE B
           IN  Queda(t, t2, p, i) /\ BloquesBien(t2, B2)
<1> DEFINE t2 == [t EXCEPT ![p] = r]
           B2 == IF t[p][i].en_swap THEN B \ BloquesDe(t[p][i]) ELSE B
           f(q, j) == IF q # p \/ j < i THEN j ELSE j + 1
<1>2. t[p] \in Seq(Segmento) /\ DOMAIN t[p] = 1 .. Len(t[p]) /\ Len(t[p]) \in Nat
  BY DEF Tablas
<1>3. ASSUME NEW q \in Pids, NEW j \in DOMAIN t2[q]
      PROVE  /\ f(q, j) \in DOMAIN t[q] /\ t2[q][j] = t[q][f(q, j)]
             /\ q # p \/ f(q, j) # i
  <2>1. CASE q = p
    <3>1. t2[q] = r /\ j \in 1 .. Len(t[p]) - 1
      BY <2>1 DEF Tablas
    <3>2. QED BY <3>1, <2>1, <1>2
  <2>2. CASE q # p
    BY <2>2 DEF Tablas
  <2>3. QED BY <2>1, <2>2
<1>4. ASSUME NEW q \in Pids, NEW j \in DOMAIN t2[q], NEW k \in DOMAIN t2[q], j # k
      PROVE  f(q, j) # f(q, k)
  <2>1. CASE q = p
    <3>1. j \in 1 .. Len(t[p]) - 1 /\ k \in 1 .. Len(t[p]) - 1
      BY <2>1 DEF Tablas
    <3>2. QED BY <3>1, <1>2, <1>4
  <2>2. CASE q # p
    BY <2>2, <1>4
  <2>3. QED BY <2>1, <2>2
<1>5. ASSUME NEW q \in Pids, NEW j \in DOMAIN t[q], q # p \/ j # i
      PROVE  \E k \in DOMAIN t2[q] : t2[q][k] = t[q][j]
  <2>1. CASE q = p
    <3>1. t2[q] = r
      BY <2>1 DEF Tablas
    <3>2. j \in 1 .. Len(t[p]) /\ j # i /\ i \in 1 .. Len(t[p])
      BY <2>1, <1>2, <1>5
    <3>3. CASE j < i
      <4>1. j \in 1 .. Len(t[p]) - 1 /\ r[j] = t[p][j]
        BY <3>2, <3>3, <1>2
      <4>2. QED BY <4>1, <3>1, <2>1
    <3>4. CASE ~(j < i)
      <4>1. /\ j - 1 \in 1 .. Len(t[p]) - 1 /\ ~(j - 1 < i) /\ (j - 1) + 1 = j
        BY <3>2, <3>4, <1>2
      <4>2. r[j - 1] = t[p][j]
        BY <4>1
      <4>3. QED BY <4>1, <4>2, <3>1, <2>1
    <3>5. QED BY <3>3, <3>4
  <2>2. CASE q # p
    BY <2>2 DEF Tablas
  <2>3. QED BY <2>1, <2>2
<1> HIDE DEF f, t2
<1>6. Queda(t, t2, p, i)
  BY <1>5 DEF Queda
<1>7. BloquesDisj(t2)
  <2>1. SUFFICES ASSUME NEW q \in Pids, NEW s \in Pids,
                        NEW j \in DOMAIN t2[q], NEW k \in DOMAIN t2[s],
                        q # s \/ j # k, t2[q][j].en_swap, t2[s][k].en_swap
                 PROVE  BloquesDe(t2[q][j]) \cap BloquesDe(t2[s][k]) = {}
    BY DEF BloquesDisj
  <2>2. q # s \/ f(q, j) # f(s, k)
    BY <2>1, <1>4
  <2>3. PICK j0 \in DOMAIN t[q] : j0 = f(q, j) /\ t2[q][j] = t[q][j0]
    BY <1>3
  <2>4. PICK k0 \in DOMAIN t[s] : k0 = f(s, k) /\ t2[s][k] = t[s][k0]
    BY <1>3
  <2>5. q # s \/ j0 # k0
    BY <2>2, <2>3, <2>4
  <2>6. t[q][j0].en_swap /\ t[s][k0].en_swap
    BY <2>1, <2>3, <2>4
  <2>7. BloquesDe(t[q][j0]) \cap BloquesDe(t[s][k0]) = {}
    BY <2>5, <2>6 DEF BloquesBien, BloquesDisj
  <2>8. QED BY <2>3, <2>4, <2>7
<1>8. ASSUME NEW b \in Nat PROVE b \in B2 <=> Tomado(t2, b)
  <2>1. ASSUME Tomado(t2, b) PROVE b \in B2
    <3>1. PICK q \in Pids : \E j \in DOMAIN t2[q] :
              t2[q][j].en_swap /\ b \in BloquesDe(t2[q][j])
      BY <2>1 DEF Tomado
    <3>2. PICK j \in DOMAIN t2[q] : t2[q][j].en_swap /\ b \in BloquesDe(t2[q][j])
      BY <3>1
    <3>3. PICK k \in DOMAIN t[q] : t[q][k] = t2[q][j] /\ (q # p \/ k # i)
      BY <1>3
    <3>4. b \in B
      BY <3>2, <3>3 DEF BloquesBien, Tomado
    <3>5. t[p][i].en_swap => b \notin BloquesDe(t[p][i])
      BY <3>2, <3>3 DEF BloquesBien, BloquesDisj
    <3>6. QED BY <3>4, <3>5
  <2>2. ASSUME b \in B2 PROVE Tomado(t2, b)
    <3>1. PICK q \in Pids : \E j \in DOMAIN t[q] :
              t[q][j].en_swap /\ b \in BloquesDe(t[q][j])
      BY <2>2 DEF BloquesBien, Tomado
    <3>2. PICK j \in DOMAIN t[q] : t[q][j].en_swap /\ b \in BloquesDe(t[q][j])
      BY <3>1
    <3>3. q # p \/ j # i
      BY <2>2, <3>2
    <3>4. PICK k \in DOMAIN t2[q] : t2[q][k] = t[q][j]
      BY <3>3, <1>5
    <3>5. QED BY <3>2, <3>4 DEF Tomado
  <2>3. QED BY <2>1, <2>2
<1>9. QED BY <1>6, <1>7, <1>8 DEF BloquesBien, t2

\* A table of the same length in which one segment changed its place: what left
\* SWAP gave its blocks back, and what went there took blocks that were free.
LEMMA CambiarEspacio ==
    ASSUME NEW t \in Tablas, NEW t2 \in Tablas, NEW p \in Pids, NEW i \in DOMAIN t[p],
           \A q \in Pids : DOMAIN t2[q] = DOMAIN t[q],
           \A q \in Pids : \A j \in DOMAIN t[q] : q # p \/ j # i => t2[q][j] = t[q][j],
           t2[p][i].en_swap # t[p][i].en_swap,
           NEW B \in SUBSET Nat, BloquesBien(t, B),
           t2[p][i].en_swap => BloquesDe(t2[p][i]) \cap B = {}
    PROVE  /\ Queda(t, t2, p, i)
           /\ BloquesBien(t2, IF t2[p][i].en_swap THEN B \cup BloquesDe(t2[p][i])
                              ELSE B \ BloquesDe(t[p][i]))
<1> DEFINE B2 == IF t2[p][i].en_swap THEN B \cup BloquesDe(t2[p][i])
                 ELSE B \ BloquesDe(t[p][i])
<1>1. Queda(t, t2, p, i)
  BY DEF Queda
<1>2. t2[p][i].en_swap \in BOOLEAN /\ t[p][i].en_swap \in BOOLEAN
  BY SegmentoTipo
<1>3. ASSUME NEW q \in Pids, NEW j \in DOMAIN t2[q], q # p \/ j # i, t2[q][j].en_swap
      PROVE  BloquesDe(t2[q][j]) \cap Nat \subseteq B
  <2>1. j \in DOMAIN t[q] /\ t2[q][j] = t[q][j]
    BY <1>3
  <2>2. QED BY <1>3, <2>1 DEF BloquesBien, Tomado
<1>4. \A q \in Pids : \A j \in DOMAIN t2[q] : BloquesDe(t2[q][j]) \subseteq Nat
  BY SegmentoTipo DEF BloquesDe
<1>5. BloquesDisj(t2)
  <2>1. SUFFICES ASSUME NEW q \in Pids, NEW s \in Pids,
                        NEW j \in DOMAIN t2[q], NEW k \in DOMAIN t2[s],
                        q # s \/ j # k, t2[q][j].en_swap, t2[s][k].en_swap
                 PROVE  BloquesDe(t2[q][j]) \cap BloquesDe(t2[s][k]) = {}
    BY DEF BloquesDisj
  <2>2. CASE q = p /\ j = i
    <3>1. s # p \/ k # i
      BY <2>1, <2>2
    <3>2. BloquesDe(t2[s][k]) \subseteq B
      BY <3>1, <2>1, <1>3, <1>4
    <3>3. QED BY <3>2, <2>1, <2>2
  <2>3. CASE s = p /\ k = i
    <3>1. q # p \/ j # i
      BY <2>1, <2>3
    <3>2. BloquesDe(t2[q][j]) \subseteq B
      BY <3>1, <2>1, <1>3, <1>4
    <3>3. QED BY <3>2, <2>1, <2>3
  <2>4. CASE (q # p \/ j # i) /\ (s # p \/ k # i)
    <3>1. /\ j \in DOMAIN t[q] /\ t2[q][j] = t[q][j]
          /\ k \in DOMAIN t[s] /\ t2[s][k] = t[s][k]
      BY <2>4
    <3>2. QED BY <3>1, <2>1 DEF BloquesBien, BloquesDisj
  <2>5. QED BY <2>2, <2>3, <2>4
<1>6. ASSUME NEW b \in Nat PROVE b \in B2 <=> Tomado(t2, b)
  <2>1. ASSUME Tomado(t2, b) PROVE b \in B2
    <3>1. PICK q \in Pids : \E j \in DOMAIN t2[q] :
              t2[q][j].en_swap /\ b \in BloquesDe(t2[q][j])
      BY <2>1 DEF Tomado
    <3>2. PICK j \in DOMAIN t2[q] : t2[q][j].en_swap /\ b \in BloquesDe(t2[q][j])
      BY <3>1
    <3>3. CASE q = p /\ j = i
      BY <3>2, <3>3
    <3>4. CASE q # p \/ j # i
      <4>1. b \in B /\ j \in DOMAIN t[q] /\ t2[q][j] = t[q][j]
        BY <3>2, <3>4, <1>3
      <4>2. t[p][i].en_swap => b \notin BloquesDe(t[p][i])
        BY <3>2, <3>4, <4>1 DEF BloquesBien, BloquesDisj
      <4>3. QED BY <4>1, <4>2, <1>2
    <3>5. QED BY <3>3, <3>4
  <2>2. ASSUME b \in B2 PROVE Tomado(t2, b)
    <3>1. CASE t2[p][i].en_swap /\ b \in BloquesDe(t2[p][i])
      BY <3>1 DEF Tomado
    <3>2. CASE b \in B /\ ~(t2[p][i].en_swap /\ b \in BloquesDe(t2[p][i]))
      <4>1. PICK q \in Pids : \E j \in DOMAIN t[q] :
                t[q][j].en_swap /\ b \in BloquesDe(t[q][j])
        BY <3>2 DEF BloquesBien, Tomado
      <4>2. PICK j \in DOMAIN t[q] : t[q][j].en_swap /\ b \in BloquesDe(t[q][j])
        BY <4>1
      <4>3. q # p \/ j # i
        BY <4>2, <2>2, <1>2
      <4>4. j \in DOMAIN t2[q] /\ t2[q][j] = t[q][j]
        BY <4>3
      <4>5. QED BY <4>2, <4>4 DEF Tomado
    <3>3. QED BY <2>2, <3>1, <3>2
  <2>3. QED BY <2>1, <2>2
<1>7. QED BY <1>1, <1>5, <1>6 DEF BloquesBien

-----------------------------------------------------------------------------
(* The invariant of space, kept on top of IInv. *)

\* Every byte of the registered sticks belongs to somebody.
Cubierta ==
    \A a \in 0 .. memoria_total_sistema - 1 :
        \/ EnHuecos(lista_huecos_libres, a)
        \/ EnSegmentos(tabla_segmentos, a)
        \/ \E m \in Conectando : En(a, ms[m].base, TamanioStick[m])

\* What the thread measured before the compaction is still there, and after the
\* compaction it is in one hole.
Alcanza ==
    /\ hilo.pc = "compactar" => hilo.tam <= EspacioLibreTotal
    /\ hilo.pc = "reelegir" => \E h \in lista_huecos_libres : h.tam >= hilo.tam

Espacio ==
    /\ Consolidados(lista_huecos_libres)
    /\ Cubierta
    /\ BloquesBien(tabla_segmentos, bitmap_swap)
    /\ Alcanza

\* A step that moves nothing.
LEMMA QuietaEspacio ==
    ASSUME Espacio,
           UNCHANGED <<ms, memoria_total_sistema, lista_huecos_libres, tabla_segmentos,
                       bitmap_swap>>,
           Alcanza'
    PROVE  Espacio'
<1>1. Consolidados(lista_huecos_libres') /\ BloquesBien(tabla_segmentos', bitmap_swap')
  BY DEF Espacio
<1>2. Cubierta'
  BY DEF Espacio, Cubierta, Conectando
<1>3. QED BY <1>1, <1>2 DEF Espacio

\* A step that gives back the bytes of a segment in RAM.
LEMMA LiberarEspacioPaso ==
    ASSUME IInv, Consolidados(lista_huecos_libres), Cubierta,
           NEW p \in Pids, NEW i \in DOMAIN tabla_segmentos[p],
           ~tabla_segmentos[p][i].en_swap,
           Queda(tabla_segmentos, tabla_segmentos', p, i),
           lista_huecos_libres' =
               LiberarEspacio(lista_huecos_libres, tabla_segmentos[p][i].direccion_base,
                              tabla_segmentos[p][i].limite),
           UNCHANGED <<ms, memoria_total_sistema>>
    PROVE  Consolidados(lista_huecos_libres') /\ Cubierta'
<1> DEFINE H == lista_huecos_libres
           t == tabla_segmentos
           b == t[p][i].direccion_base
           l == t[p][i].limite
           R == LiberarEspacio(H, b, l)
<1>1. H \in SUBSET Hueco /\ t \in Tablas /\ b \in Nat /\ l \in Nat \ {0}
  BY Hechos, SegmentoTipo DEF IInv
<1>2. HuecosDisj(H) /\ Lejos(H, b, l)
  BY DEF IInv, MemoriaSana, Sano, Apartados
<1>3. /\ Consolidados(R)
      /\ \A a \in Nat : EnHuecos(H, a) \/ En(a, b, l) => EnHuecos(R, a)
  <2> HIDE DEF H, b, l
  <2>1. Consolidados(H)
    BY DEF H
  <2>2. QED BY <1>1, <1>2, <2>1, LiberarEspacioUne
<1>4. lista_huecos_libres' = R
  OBVIOUS
<1> HIDE DEF R
<1>5. Cubierta'
  <2>1. memoria_total_sistema' = memoria_total_sistema /\ ms' = ms /\ Conectando' = Conectando
    BY DEF Conectando
  <2>2. SUFFICES ASSUME NEW a \in 0 .. memoria_total_sistema - 1
                 PROVE  \/ EnHuecos(R, a)
                        \/ EnSegmentos(tabla_segmentos', a)
                        \/ \E m \in Conectando : En(a, ms[m].base, TamanioStick[m])
    BY <1>4, <2>1 DEF Cubierta
  <2>3. a \in Nat
    OBVIOUS
  <2>4. CASE EnHuecos(H, a) \/ En(a, b, l)
    BY <2>3, <2>4, <1>3
  <2>5. CASE EnSegmentos(t, a) /\ ~En(a, b, l)
    <3>1. PICK q \in Pids : \E j \in DOMAIN t[q] :
              ~t[q][j].en_swap /\ En(a, t[q][j].direccion_base, t[q][j].limite)
      BY <2>5 DEF EnSegmentos
    <3>2. PICK j \in DOMAIN t[q] :
              ~t[q][j].en_swap /\ En(a, t[q][j].direccion_base, t[q][j].limite)
      BY <3>1
    <3>3. q # p \/ j # i
      BY <3>2, <2>5
    <3>4. PICK k \in DOMAIN tabla_segmentos'[q] : tabla_segmentos'[q][k] = t[q][j]
      BY <3>2, <3>3 DEF Queda
    <3>5. QED BY <3>2, <3>4 DEF EnSegmentos
  <2>6. CASE \E m \in Conectando : En(a, ms[m].base, TamanioStick[m])
    BY <2>6
  <2>7. QED BY <2>4, <2>5, <2>6 DEF Cubierta
<1>6. QED BY <1>3, <1>4, <1>5

\* A step that cuts a hole for one segment.
LEMMA OcuparEspacioPaso ==
    ASSUME IInv, Consolidados(lista_huecos_libres), Cubierta,
           NEW p \in Pids, NEW i \in DOMAIN tabla_segmentos'[p],
           NEW h \in lista_huecos_libres,
           tabla_segmentos' \in Tablas,
           ~tabla_segmentos'[p][i].en_swap,
           tabla_segmentos'[p][i].direccion_base = h.base,
           tabla_segmentos'[p][i].limite <= h.tam,
           \A q \in Pids : \A j \in DOMAIN tabla_segmentos[q] :
               ~tabla_segmentos[q][j].en_swap =>
                   \E k \in DOMAIN tabla_segmentos'[q] :
                       tabla_segmentos'[q][k] = tabla_segmentos[q][j],
           lista_huecos_libres' =
               Recortar(lista_huecos_libres, h, tabla_segmentos'[p][i].limite),
           UNCHANGED <<ms, memoria_total_sistema>>
    PROVE  Consolidados(lista_huecos_libres') /\ Cubierta'
<1> DEFINE H == lista_huecos_libres
           t == tabla_segmentos
           t2 == tabla_segmentos'
           l == t2[p][i].limite
           R == Recortar(H, h, l)
<1>1. H \in SUBSET Hueco /\ h \in H /\ l \in Nat \ {0} /\ l <= h.tam
  BY Hechos, SegmentoTipo DEF IInv
<1>2. HuecosDisj(H)
  BY DEF IInv, MemoriaSana, Sano
<1>3. /\ Consolidados(R)
      /\ \A a \in Nat : EnHuecos(H, a) => EnHuecos(R, a) \/ En(a, h.base, l)
  <2> HIDE DEF H, l
  <2>1. Consolidados(H)
    BY DEF H
  <2>2. QED BY <1>1, <1>2, <2>1, RecortarUne
<1>4. lista_huecos_libres' = R
  OBVIOUS
<1> HIDE DEF R
<1>5. Cubierta'
  <2>1. memoria_total_sistema' = memoria_total_sistema /\ ms' = ms /\ Conectando' = Conectando
    BY DEF Conectando
  <2>2. SUFFICES ASSUME NEW a \in 0 .. memoria_total_sistema - 1
                 PROVE  \/ EnHuecos(R, a)
                        \/ EnSegmentos(t2, a)
                        \/ \E m \in Conectando : En(a, ms[m].base, TamanioStick[m])
    BY <1>4, <2>1 DEF Cubierta
  <2>3. a \in Nat
    OBVIOUS
  <2>4. CASE EnHuecos(H, a)
    <3>1. EnHuecos(R, a) \/ En(a, h.base, l)
      BY <2>3, <2>4, <1>3
    <3>2. En(a, h.base, l) => EnSegmentos(t2, a)
      BY DEF EnSegmentos
    <3>3. QED BY <3>1, <3>2
  <2>5. CASE EnSegmentos(t, a)
    <3>1. PICK q \in Pids : \E j \in DOMAIN t[q] :
              ~t[q][j].en_swap /\ En(a, t[q][j].direccion_base, t[q][j].limite)
      BY <2>5 DEF EnSegmentos
    <3>2. PICK j \in DOMAIN t[q] :
              ~t[q][j].en_swap /\ En(a, t[q][j].direccion_base, t[q][j].limite)
      BY <3>1
    <3>3. PICK k \in DOMAIN t2[q] : t2[q][k] = t[q][j]
      BY <3>2
    <3>4. QED BY <3>2, <3>3 DEF EnSegmentos
  <2>6. CASE \E m \in Conectando : En(a, ms[m].base, TamanioStick[m])
    BY <2>6
  <2>7. QED BY <2>4, <2>5, <2>6 DEF Cubierta
<1>6. QED BY <1>3, <1>4, <1>5

-----------------------------------------------------------------------------
(* Every action keeps the invariant of space. *)

LEMMA InicioEspacio == Init => Espacio
<1> SUFFICES ASSUME Init PROVE Espacio
  OBVIOUS
<1>1. Consolidados(lista_huecos_libres)
  BY DEF Init, Consolidados
<1>2. Cubierta
  BY DEF Init, Cubierta
<1>3. BloquesBien(tabla_segmentos, bitmap_swap)
  BY DEF Init, BloquesBien, Tomado, BloquesDisj
<1>4. Alcanza
  BY DEF Init, Alcanza, Ocioso
<1>5. QED BY <1>1, <1>2, <1>3, <1>4 DEF Espacio

\* The bytes of a stick belong to the stick until its hole is added.
LEMMA ConectarEspacio ==
    ASSUME IInv, Espacio, NEW m \in Sticks, ConectarDeAUno(m)
    PROVE  Espacio'
<1> DEFINE T == memoria_total_sistema
<1>1. /\ T \in Nat /\ TamanioStick[m] \in Nat \ {0}
  BY Hechos DEF IInv
<1>2. /\ memoria_total_sistema' = T + TamanioStick[m]
      /\ ms' = [ms EXCEPT ![m] = [estado |-> "conectando", base |-> T]]
      /\ Conectando = {}
      /\ UNCHANGED <<lista_huecos_libres, tabla_segmentos, contextos, bitmap_swap,
                     memoria, swap, hilo, estado>>
  BY DEF ConectarDeAUno, ConexionMemoryStick
<1>3. ms'[m] = [estado |-> "conectando", base |-> T] /\ m \in Conectando'
  BY <1>2 DEF IInv, TypeOK, Conectando
<1>4. Cubierta'
  <2>1. ASSUME NEW a \in 0 .. memoria_total_sistema' - 1
        PROVE  \/ EnHuecos(lista_huecos_libres', a)
               \/ EnSegmentos(tabla_segmentos', a)
               \/ \E n \in Conectando' : En(a, ms'[n].base, TamanioStick[n])
    <3>1. a \in Nat /\ a < T + TamanioStick[m]
      BY <1>1, <1>2
    <3>2. CASE a < T
      <4>1. a \in 0 .. T - 1
        BY <3>1, <3>2, <1>1
      <4>2. EnHuecos(lista_huecos_libres, a) \/ EnSegmentos(tabla_segmentos, a)
        BY <4>1, <1>2 DEF Espacio, Cubierta
      <4>3. QED BY <4>2, <1>2
    <3>3. CASE T <= a
      <4>1. En(a, ms'[m].base, TamanioStick[m])
        BY <3>1, <3>3, <1>1, <1>3 DEF En
      <4>2. QED BY <4>1, <1>3
    <3>4. QED BY <3>1, <3>2, <3>3, <1>1
  <2>2. QED BY <2>1 DEF Cubierta
<1>5. Consolidados(lista_huecos_libres') /\ BloquesBien(tabla_segmentos', bitmap_swap')
  BY <1>2 DEF Espacio
<1>6. Alcanza'
  BY <1>2 DEF Espacio, Alcanza, EspacioLibreTotal
<1>7. QED BY <1>4, <1>5, <1>6 DEF Espacio

\* A hole more: what was free is free, and no hole shrank.
LEMMA AgregarEspacio ==
    ASSUME IInv, Espacio, NEW m \in Sticks, AgregarHuecoStick(m)
    PROVE  Espacio'
<1> DEFINE T == memoria_total_sistema
           H == lista_huecos_libres
           t == tabla_segmentos
           b == ms[m].base
           l == TamanioStick[m]
           R == LiberarEspacio(H, b, l)
<1>1. /\ H \in SUBSET Hueco /\ T \in Nat /\ T <= MemoriaMaxima
      /\ b \in Nat /\ l \in Nat \ {0}
  BY Hechos DEF IInv
<1>2. /\ ms[m].estado = "conectando"
      /\ ms' = [ms EXCEPT ![m].estado = "lista"]
      /\ H' = R
      /\ UNCHANGED <<memoria_total_sistema, tabla_segmentos, contextos, bitmap_swap,
                     memoria, swap, hilo, estado>>
  BY DEF AgregarHuecoStick
<1>3. m \in Conectando /\ b + l = T /\ Lejos(H, b, l) /\ \A n \in Conectando : n = m
  BY <1>2 DEF Conectando, IInv, SticksSanos, StickLejos
<1>4. HuecosDisj(H) /\ Consolidados(H) /\ HuecosBajo(H, T)
  BY DEF IInv, MemoriaSana, Sano, Espacio
<1>5. /\ Consolidados(R)
      /\ \A a \in Nat : EnHuecos(H, a) \/ En(a, b, l) => EnHuecos(R, a)
  <2> HIDE DEF H, b, l
  <2>1. QED BY <1>1, <1>3, <1>4, LiberarEspacioUne
<1>6. /\ R \in SUBSET Hueco /\ HuecosDisj(R) /\ HuecosBajo(R, T)
      /\ \A h \in H : h.base # b + l => \E r \in R : r.base = h.base /\ r.tam >= h.tam
  <2> HIDE DEF H, b, l
  <2>1. /\ R \subseteq Hueco /\ HuecosDisj(R)
        /\ \A x \in Nat : (\A h \in H : h.base + h.tam <= x) /\ b + l <= x
                          => \A h \in R : h.base + h.tam <= x
        /\ \A h \in H : h.base # b + l => \E r \in R : r.base = h.base /\ r.tam >= h.tam
    BY <1>1, <1>3, <1>4, LiberarEspacioLema
  <2> HIDE DEF R
  <2>2. QED BY <2>1, <1>1, <1>3, <1>4 DEF HuecosBajo
<1> HIDE DEF R
<1>7. Cubierta'
  <2>1. SUFFICES ASSUME NEW a \in 0 .. T - 1
                 PROVE  EnHuecos(R, a) \/ EnSegmentos(t, a)
    BY <1>2 DEF Cubierta
  <2>2. a \in Nat
    OBVIOUS
  <2>3. EnHuecos(H, a) \/ EnSegmentos(t, a) \/ En(a, b, l)
    BY <1>3 DEF Espacio, Cubierta
  <2>4. QED BY <2>2, <2>3, <1>5
<1>8. Alcanza'
  <2>1. hilo' = hilo
    BY <1>2
  <2>2. ASSUME hilo.pc = "compactar" PROVE hilo.tam <= EspacioLibreTotal'
    <3>1. /\ IsFiniteSet(Libres(H)) /\ EspacioLibreTotal = Cardinality(Libres(H))
      BY <1>1, <1>4, LibresLema DEF EspacioLibreTotal
    <3>2. Cardinality({c \in R \X Direcciones : c[2] < c[1].tam}) = Cardinality(Libres(R))
          /\ IsFiniteSet(Libres(R))
      BY <1>1, <1>6, LibresLema
    <3>3. EspacioLibreTotal' = Cardinality(Libres(R))
      BY <1>2, <3>2 DEF EspacioLibreTotal
    <3>4. Libres(H) \in SUBSET Libres(R)
      BY <1>5 DEF Libres, Direcciones
    <3>5. Cardinality(Libres(H)) <= Cardinality(Libres(R))
      BY <3>2, <3>4, FS_Subset
    <3>6. hilo.tam <= EspacioLibreTotal /\ hilo.tam \in Nat
      BY <2>2, Hechos DEF Espacio, Alcanza, IInv, HiloTipo
    <3>7. Cardinality(Libres(H)) \in Nat /\ Cardinality(Libres(R)) \in Nat
      BY <3>1, <3>2, FS_CardinalityType
    <3>8. QED BY <3>1, <3>3, <3>5, <3>6, <3>7
  <2>3. ASSUME hilo.pc = "reelegir" PROVE \E r \in R : r.tam >= hilo.tam
    <3>1. PICK h \in H : h.tam >= hilo.tam
      BY <2>3 DEF Espacio, Alcanza
    <3>2. h.base \in Nat /\ h.tam \in Nat /\ h.tam > 0 /\ h.base + h.tam <= T
      BY <1>1, <1>4 DEF Hueco, HuecosBajo
    <3>3. h.base # b + l
      BY <3>2, <1>1, <1>3
    <3>4. PICK r \in R : r.tam >= h.tam
      BY <3>3, <1>6
    <3>5. r.tam \in Nat /\ hilo.tam \in Nat
      BY <1>6, Hechos DEF IInv, Hueco, HiloTipo
    <3>6. QED BY <3>1, <3>2, <3>4, <3>5
  <2>4. QED BY <2>1, <2>2, <2>3, <1>2 DEF Alcanza
<1>9. BloquesBien(tabla_segmentos', bitmap_swap')
  BY <1>2 DEF Espacio
<1>10. QED BY <1>2, <1>5, <1>7, <1>8, <1>9 DEF Espacio

\* A process frees a segment, which is in RAM.
LEMMA EliminarEspacio ==
    ASSUME IInv, Espacio, NEW p \in Pids, NEW id \in Ids, TodoEnRam(p),
           EliminarSegmento(p, id)
    PROVE  Espacio'
<1> DEFINE t == tabla_segmentos
<1>1. PICK i \in PrimerIndice(p, id) :
        /\ t' = [t EXCEPT ![p] = QuitarIndice(@, i)]
        /\ lista_huecos_libres' =
               LiberarEspacio(lista_huecos_libres, t[p][i].direccion_base, t[p][i].limite)
  BY DEF EliminarSegmento
<1>2. i \in DOMAIN t[p] /\ ~t[p][i].en_swap /\ t \in Tablas /\ t[p] \in Seq(Segmento)
  BY Hechos DEF IInv, PrimerIndice, TodoEnRam, Tablas
<1> DEFINE r == QuitarIndice(t[p], i)
<1>3. /\ r \in Seq(Segmento)
      /\ DOMAIN r = 1 .. Len(t[p]) - 1
      /\ \A j \in 1 .. Len(t[p]) - 1 : r[j] = t[p][IF j < i THEN j ELSE j + 1]
  BY <1>2, QuitarIndiceLema
<1>4. t' = [t EXCEPT ![p] = r]
  BY <1>1
<1>5. hilo.pc = "libre" /\ UNCHANGED <<ms, memoria_total_sistema, bitmap_swap, hilo>>
  BY DEF EliminarSegmento, Libre
<1> HIDE DEF r
<1>6. BloquesBien(t, bitmap_swap) /\ Consolidados(lista_huecos_libres) /\ Cubierta
  BY DEF Espacio
<1>7. Queda(t, t', p, i) /\ BloquesBien(t', bitmap_swap)
  <2> HIDE DEF t
  <2>1. QED BY <1>2, <1>3, <1>4, <1>6, QuitarEspacio
<1>8. Consolidados(lista_huecos_libres') /\ Cubierta'
  BY <1>1, <1>2, <1>5, <1>6, <1>7, LiberarEspacioPaso
<1>9. Alcanza'
  BY <1>5 DEF Alcanza
<1>10. QED BY <1>5, <1>7, <1>8, <1>9 DEF Espacio

\* The segments of a finished process give back their bytes or their blocks.
LEMMA FinalizarEspacio ==
    ASSUME IInv, Espacio, LiberarSegmentoFinalizado
    PROVE  Espacio'
<1> DEFINE t == tabla_segmentos
           p == hilo.pid
           r == Tail(t[p])
<1>1. /\ hilo.pc = "finalizando" /\ t[p] # <<>> /\ t' = [t EXCEPT ![p] = r]
      /\ hilo' = hilo /\ UNCHANGED <<ms, memoria_total_sistema>>
  BY DEF LiberarSegmentoFinalizado
<1>2. p \in Pids /\ t \in Tablas
  BY <1>1, Hechos DEF IInv, HiloBien
<1>3. t[p] \in Seq(Segmento) /\ Len(t[p]) \in Nat /\ DOMAIN t[p] = 1 .. Len(t[p])
  BY <1>2 DEF Tablas
<1>4. 1 \in DOMAIN t[p] /\ Head(t[p]) = t[p][1]
  BY <1>1, <1>3
<1>5. /\ r \in Seq(Segmento)
      /\ DOMAIN r = 1 .. Len(t[p]) - 1
      /\ \A j \in 1 .. Len(t[p]) - 1 : r[j] = t[p][j + 1]
  BY <1>1, <1>3
<1> HIDE DEF r
<1>6. \A j \in 1 .. Len(t[p]) - 1 : r[j] = t[p][IF j < 1 THEN j ELSE j + 1]
  BY <1>5
<1>7. BloquesBien(t, bitmap_swap) /\ Consolidados(lista_huecos_libres) /\ Cubierta
  BY DEF Espacio
<1>8. /\ Queda(t, t', p, 1)
      /\ BloquesBien(t', IF t[p][1].en_swap THEN bitmap_swap \ BloquesDe(t[p][1])
                         ELSE bitmap_swap)
  <2> HIDE DEF t, p
  <2>1. QED BY <1>1, <1>2, <1>4, <1>5, <1>6, <1>7, QuitarEspacio
<1>9. Alcanza'
  BY <1>1 DEF Alcanza
<1>10. CASE t[p][1].en_swap
  <2>1. /\ lista_huecos_libres' = lista_huecos_libres
        /\ bitmap_swap' = bitmap_swap \ BloquesDe(t[p][1])
    BY <1>4, <1>10 DEF LiberarSegmentoFinalizado
  <2>2. Cubierta'
    <3>1. /\ memoria_total_sistema' = memoria_total_sistema /\ ms' = ms
          /\ Conectando' = Conectando
      BY <1>1 DEF Conectando
    <3>2. SUFFICES ASSUME NEW a \in 0 .. memoria_total_sistema - 1, EnSegmentos(t, a)
                   PROVE  EnSegmentos(t', a)
      BY <1>7, <2>1, <3>1 DEF Cubierta
    <3>3. PICK q \in Pids : \E j \in DOMAIN t[q] :
              ~t[q][j].en_swap /\ En(a, t[q][j].direccion_base, t[q][j].limite)
      BY <3>2 DEF EnSegmentos
    <3>4. PICK j \in DOMAIN t[q] :
              ~t[q][j].en_swap /\ En(a, t[q][j].direccion_base, t[q][j].limite)
      BY <3>3
    <3>5. PICK k \in DOMAIN t'[q] : t'[q][k] = t[q][j]
      BY <3>4, <1>8, <1>10 DEF Queda
    <3>6. QED BY <3>4, <3>5 DEF EnSegmentos
  <2>3. QED BY <2>1, <2>2, <1>7, <1>8, <1>9, <1>10 DEF Espacio
<1>11. CASE ~t[p][1].en_swap
  <2>1. /\ lista_huecos_libres' =
               LiberarEspacio(lista_huecos_libres, t[p][1].direccion_base, t[p][1].limite)
        /\ bitmap_swap' = bitmap_swap
    BY <1>4, <1>11 DEF LiberarSegmentoFinalizado
  <2>2. Consolidados(lista_huecos_libres') /\ Cubierta'
    BY <2>1, <1>1, <1>2, <1>4, <1>7, <1>8, <1>11, LiberarEspacioPaso
  <2>3. QED BY <2>1, <2>2, <1>8, <1>9, <1>11 DEF Espacio
<1>12. QED BY <1>10, <1>11

\* A segment goes to SWAP: its bytes to the holes, and blocks nobody has to it.
LEMMA MoverEspacio ==
    ASSUME IInv, Espacio, MoverSegmentoASwap
    PROVE  Espacio'
<1> DEFINE t == tabla_segmentos
           p == hilo.pid
           i == hilo.i
           seg == t[p][i]
           n == BloquesNecesarios(seg.limite)
           B == bitmap_swap
<1>1. /\ hilo.pc = "suspendiendo" /\ i \in DOMAIN t[p] /\ ~seg.en_swap
      /\ lista_huecos_libres' =
             LiberarEspacio(lista_huecos_libres, seg.direccion_base, seg.limite)
      /\ hilo' = [hilo EXCEPT !.i = @ + 1]
      /\ UNCHANGED <<ms, memoria_total_sistema>>
  BY DEF MoverSegmentoASwap
<1>2. PICK b \in IniciosLibres(n) :
        /\ bitmap_swap' = bitmap_swap \cup (b .. b + n - 1)
        /\ t' = [t EXCEPT ![p][i] = [seg EXCEPT !.en_swap = TRUE, !.bloque_swap = b]]
  BY DEF MoverSegmentoASwap
<1>3. p \in Pids /\ t \in Tablas /\ hilo \in HiloTipo
  BY <1>1, Hechos DEF IInv, HiloBien
<1>4. seg \in Segmento /\ seg.limite \in Nat \ {0}
  BY <1>1, <1>3, SegmentoTipo
<1>5. b \in Nat /\ (b .. b + n - 1) \cap B = {}
  BY DEF IniciosLibres, Bloques
<1> DEFINE s == [seg EXCEPT !.en_swap = TRUE, !.bloque_swap = b]
<1>6. s \in Segmento /\ s.en_swap /\ s.bloque_swap = b /\ s.limite = seg.limite
  BY <1>4, <1>5 DEF Segmento
<1>7. BloquesDe(s) = b .. b + n - 1
  BY <1>6 DEF BloquesDe
<1>8. t' = [t EXCEPT ![p][i] = s]
  BY <1>2
<1> HIDE DEF s
<1>9. /\ t' \in Tablas
      /\ \A q \in Pids : DOMAIN t'[q] = DOMAIN t[q]
      /\ \A q \in Pids : \A j \in DOMAIN t[q] : q # p \/ j # i => t'[q][j] = t[q][j]
      /\ t'[p][i] = s
  BY <1>1, <1>3, <1>6, <1>8 DEF Tablas
<1>10. /\ BloquesBien(t, B) /\ Consolidados(lista_huecos_libres) /\ Cubierta
       /\ B \in SUBSET Nat
  BY DEF Espacio, IInv, TypeOK, Bloques
<1>11. t'[p][i].en_swap # t[p][i].en_swap /\ BloquesDe(t'[p][i]) \cap B = {}
  BY <1>1, <1>5, <1>6, <1>7, <1>9
<1>12. /\ Queda(t, t', p, i)
       /\ BloquesBien(t', IF t'[p][i].en_swap THEN B \cup BloquesDe(t'[p][i])
                          ELSE B \ BloquesDe(t[p][i]))
  <2>1. i \in DOMAIN t[p]
    BY <1>1
  <2> HIDE DEF t, p, i, B
  <2>2. QED BY <2>1, <1>3, <1>9, <1>10, <1>11, CambiarEspacio
<1>13. BloquesBien(tabla_segmentos', bitmap_swap')
  BY <1>2, <1>6, <1>7, <1>9, <1>12
<1>14. Consolidados(lista_huecos_libres') /\ Cubierta'
  BY <1>1, <1>3, <1>10, <1>12, LiberarEspacioPaso
<1>15. Alcanza'
  <2>1. hilo'.pc = "suspendiendo"
    BY <1>1, <1>3 DEF HiloTipo
  <2>2. QED BY <2>1 DEF Alcanza
<1>16. QED BY <1>13, <1>14, <1>15 DEF Espacio

\* A segment comes back from SWAP: it takes bytes of a hole and leaves its blocks.
LEMMA RestaurarEspacio ==
    ASSUME IInv, Espacio, RestaurarSegmento
    PROVE  Espacio'
<1> DEFINE t == tabla_segmentos
           p == hilo.pid
           i == hilo.i
           seg == t[p][i]
           B == bitmap_swap
<1>1. /\ hilo.pc = "desuspendiendo" /\ i \in DOMAIN t[p] /\ seg.en_swap
      /\ bitmap_swap' = bitmap_swap \ BloquesDe(seg)
      /\ hilo' = [hilo EXCEPT !.i = @ + 1]
      /\ UNCHANGED <<ms, memoria_total_sistema>>
  BY DEF RestaurarSegmento
<1>2. PICK h \in HuecosElegibles(seg.limite) :
        /\ lista_huecos_libres' = Recortar(lista_huecos_libres, h, seg.limite)
        /\ t' = [t EXCEPT ![p][i] = [seg EXCEPT !.en_swap = FALSE,
                                        !.direccion_base = h.base, !.bloque_swap = 0]]
  BY DEF RestaurarSegmento
<1>3. p \in Pids /\ t \in Tablas /\ hilo \in HiloTipo
  BY <1>1, Hechos DEF IInv, HiloBien
<1>4. seg \in Segmento /\ seg.limite \in Nat \ {0}
  BY <1>1, <1>3, SegmentoTipo
<1>5. /\ h \in lista_huecos_libres /\ h \in Hueco
      /\ h.base \in Nat /\ h.tam \in Nat /\ seg.limite <= h.tam
  BY <1>4, Hechos DEF IInv, HuecosElegibles, HuecosValidos, Hueco
<1> DEFINE s == [seg EXCEPT !.en_swap = FALSE, !.direccion_base = h.base,
                            !.bloque_swap = 0]
<1>6. /\ s \in Segmento /\ s.direccion_base = h.base
      /\ s.limite = seg.limite /\ ~s.en_swap
  BY <1>4, <1>5 DEF Segmento
<1>7. t' = [t EXCEPT ![p][i] = s]
  BY <1>2
<1> HIDE DEF s
<1>8. /\ t' \in Tablas
      /\ \A q \in Pids : DOMAIN t'[q] = DOMAIN t[q]
      /\ \A q \in Pids : \A j \in DOMAIN t[q] : q # p \/ j # i => t'[q][j] = t[q][j]
      /\ t'[p][i] = s
  BY <1>1, <1>3, <1>6, <1>7 DEF Tablas
<1>9. /\ BloquesBien(t, B) /\ Consolidados(lista_huecos_libres) /\ Cubierta
      /\ B \in SUBSET Nat
  BY DEF Espacio, IInv, TypeOK, Bloques
<1>10. t'[p][i].en_swap # t[p][i].en_swap /\ ~t'[p][i].en_swap
  BY <1>1, <1>6, <1>8
<1>11. /\ Queda(t, t', p, i)
       /\ BloquesBien(t', IF t'[p][i].en_swap THEN B \cup BloquesDe(t'[p][i])
                          ELSE B \ BloquesDe(t[p][i]))
  <2>1. i \in DOMAIN t[p]
    BY <1>1
  <2> HIDE DEF t, p, i, B
  <2>2. QED BY <2>1, <1>3, <1>8, <1>9, <1>10, CambiarEspacio
<1>12. BloquesBien(tabla_segmentos', bitmap_swap')
  BY <1>1, <1>10, <1>11
<1>13. \A q \in Pids : \A j \in DOMAIN t[q] :
           ~t[q][j].en_swap => \E k \in DOMAIN t'[q] : t'[q][k] = t[q][j]
  BY <1>1, <1>8
<1>14. Consolidados(lista_huecos_libres') /\ Cubierta'
  <2>1. /\ i \in DOMAIN t'[p] /\ ~t'[p][i].en_swap /\ t'[p][i].direccion_base = h.base
        /\ t'[p][i].limite <= h.tam /\ t'[p][i].limite = seg.limite
    BY <1>1, <1>3, <1>5, <1>6, <1>8
  <2>2. lista_huecos_libres' = Recortar(lista_huecos_libres, h, t'[p][i].limite)
    BY <1>2, <2>1
  <2>3. QED BY <2>1, <2>2, <1>1, <1>3, <1>5, <1>8, <1>9, <1>13, OcuparEspacioPaso
<1>15. Alcanza'
  <2>1. hilo'.pc = "desuspendiendo"
    BY <1>1, <1>3 DEF HiloTipo
  <2>2. QED BY <2>1 DEF Alcanza
<1>16. QED BY <1>12, <1>14, <1>15 DEF Espacio

\* A new segment in the chosen hole.
LEMMA CrearSegmentoEspacio ==
    ASSUME IInv, Espacio, CrearSegmento
    PROVE  Espacio'
<1> DEFINE t == tabla_segmentos
           p == hilo.pid
           i == Len(t[p]) + 1
           s(h) == [id_segmento |-> hilo.id, direccion_base |-> h.base,
                    limite |-> hilo.tam, en_swap |-> FALSE, bloque_swap |-> 0]
<1>1. /\ hilo.pc = "elegido" /\ hilo' = Ocioso
      /\ UNCHANGED <<ms, memoria_total_sistema, bitmap_swap>>
  BY DEF CrearSegmento
<1>2. PICK h \in lista_huecos_libres :
        /\ h.base = hilo.base /\ h.tam >= hilo.tam
        /\ lista_huecos_libres' = Recortar(lista_huecos_libres, h, hilo.tam)
        /\ t' = [t EXCEPT ![p] = Append(@, s(h))]
  BY DEF CrearSegmento
<1>3. /\ p \in Pids /\ t \in Tablas /\ hilo \in HiloTipo
      /\ hilo.tam \in 1 .. SEGMENT_MAX_SIZE
  BY <1>1, Hechos DEF IInv, HiloBien
<1>4. t[p] \in Seq(Segmento) /\ Len(t[p]) \in Nat /\ DOMAIN t[p] = 1 .. Len(t[p])
  BY <1>3 DEF Tablas
<1>5. h \in Hueco
  BY Hechos DEF IInv
<1>6. /\ s(h) \in Segmento /\ s(h).direccion_base = h.base
      /\ s(h).limite = hilo.tam /\ ~s(h).en_swap
  BY <1>3, <1>5 DEF Segmento, HiloTipo, Hueco
<1> DEFINE r == Append(t[p], s(h))
<1> HIDE DEF s
<1>7. /\ r \in Seq(Segmento) /\ Len(r) = i /\ DOMAIN r = 1 .. i
      /\ r[i] = s(h) /\ \A j \in 1 .. i - 1 : r[j] = t[p][j]
  BY <1>4, <1>6
<1>8. t' = [t EXCEPT ![p] = r]
  BY <1>2
<1> HIDE DEF r
<1>9. /\ t' \in Tablas
      /\ t'[p] = r /\ \A q \in Pids : q # p => t'[q] = t[q]
  BY <1>3, <1>7, <1>8 DEF Tablas
<1>10. \A q \in Pids : \A j \in DOMAIN t[q] : j \in DOMAIN t'[q] /\ t'[q][j] = t[q][j]
  <2>1. SUFFICES ASSUME NEW q \in Pids, NEW j \in DOMAIN t[q]
                 PROVE  j \in DOMAIN t'[q] /\ t'[q][j] = t[q][j]
    OBVIOUS
  <2>2. CASE q # p
    BY <2>2, <1>9
  <2>3. CASE q = p
    <3>1. j \in 1 .. i - 1 /\ j \in 1 .. i
      BY <2>3, <1>4
    <3>2. QED BY <3>1, <2>3, <1>7, <1>9
  <2>4. QED BY <2>2, <2>3
<1>11. \A q \in Pids : \A j \in DOMAIN t'[q] : t'[q][j].en_swap =>
           j \in DOMAIN t[q] /\ t'[q][j] = t[q][j]
  <2>1. SUFFICES ASSUME NEW q \in Pids, NEW j \in DOMAIN t'[q], t'[q][j].en_swap
                 PROVE  j \in DOMAIN t[q]
    BY <1>10
  <2>2. CASE q # p
    BY <2>2, <1>9
  <2>3. CASE q = p
    <3>1. j \in 1 .. i /\ j # i
      BY <2>1, <2>3, <1>6, <1>7, <1>9
    <3>2. QED BY <3>1, <2>3, <1>4
  <2>4. QED BY <2>2, <2>3
<1>12. BloquesBien(t, bitmap_swap) /\ Consolidados(lista_huecos_libres) /\ Cubierta
  BY DEF Espacio
<1>13. BloquesBien(t', bitmap_swap')
  <2>1. \A b \in Nat : Tomado(t', b) <=> Tomado(t, b)
    BY <1>10, <1>11 DEF Tomado
  <2>2. BloquesDisj(t')
    BY <1>11, <1>12 DEF BloquesBien, BloquesDisj
  <2>3. QED BY <2>1, <2>2, <1>1, <1>12 DEF BloquesBien
<1>14. Consolidados(lista_huecos_libres') /\ Cubierta'
  <2>1. i \in DOMAIN t'[p] /\ t'[p][i] = s(h)
    BY <1>4, <1>7, <1>9
  <2>2. /\ t'[p][i].direccion_base = h.base /\ t'[p][i].limite = hilo.tam
        /\ t'[p][i].limite <= h.tam /\ ~t'[p][i].en_swap
    BY <2>1, <1>2, <1>3, <1>5, <1>6 DEF Hueco
  <2>3. \A q \in Pids : \A j \in DOMAIN t[q] :
            ~t[q][j].en_swap => \E k \in DOMAIN t'[q] : t'[q][k] = t[q][j]
    BY <1>10
  <2>4. lista_huecos_libres' = Recortar(lista_huecos_libres, h, t'[p][i].limite)
    BY <2>2, <1>2
  <2>5. UNCHANGED <<ms, memoria_total_sistema>>
    BY <1>1
  <2> HIDE DEF i
  <2>6. QED BY <2>1, <2>2, <2>3, <2>4, <2>5, <1>2, <1>3, <1>9, <1>12, OcuparEspacioPaso
<1>15. Alcanza'
  BY <1>1, OciosoTipo DEF Alcanza
<1>16. QED BY <1>13, <1>14, <1>15 DEF Espacio

\* What the compaction does to the table of a process.
LEMMA TablaCompactada ==
    ASSUME TypeOK, Acotada, MemoriaSana, Compactar, NEW p \in Pids
    PROVE  /\ DOMAIN tabla_segmentos'[p] = DOMAIN tabla_segmentos[p]
           /\ \A i \in DOMAIN tabla_segmentos[p] :
                /\ tabla_segmentos'[p][i].limite = tabla_segmentos[p][i].limite
                /\ tabla_segmentos'[p][i].en_swap = tabla_segmentos[p][i].en_swap
                /\ tabla_segmentos'[p][i].bloque_swap = tabla_segmentos[p][i].bloque_swap
                /\ <<p, i>> \in EnRam =>
                     tabla_segmentos'[p][i].direccion_base = NuevaBase(<<p, i>>)
                /\ tabla_segmentos[p][i].en_swap =>
                     tabla_segmentos'[p][i] = tabla_segmentos[p][i]
<1> DEFINE t == tabla_segmentos
           s == [i \in DOMAIN t[p] |->
                   IF <<p, i>> \in EnRam
                   THEN [t[p][i] EXCEPT !.direccion_base = NuevaBase(<<p, i>>)]
                   ELSE t[p][i]]
<1>1. t \in Tablas /\ \A l \in EnRam : NuevaBase(l) \in Nat
  BY Hechos, NuevaBaseLema DEF MemoriaSana
<1>2. t'[p] = s
  BY DEF Compactar
<1>3. ASSUME NEW i \in DOMAIN t[p]
      PROVE  /\ s[i].limite = t[p][i].limite /\ s[i].en_swap = t[p][i].en_swap
             /\ s[i].bloque_swap = t[p][i].bloque_swap
             /\ <<p, i>> \in EnRam => s[i].direccion_base = NuevaBase(<<p, i>>)
             /\ t[p][i].en_swap => s[i] = t[p][i]
  <2>1. t[p][i] \in Segmento /\ (t[p][i].en_swap => <<p, i>> \notin EnRam)
    BY <1>1, SegmentoTipo DEF EnRam, Seg
  <2>2. QED BY <2>1, <1>1 DEF Segmento
<1> HIDE DEF s
<1>4. DOMAIN s = DOMAIN t[p]
  BY DEF s
<1>5. QED BY <1>2, <1>3, <1>4

\* After the compaction the segments fill memory from its start, and one hole the
\* rest of it.
LEMMA CompactarEspacio ==
    ASSUME IInv, Espacio, CompactarSinConexion
    PROVE  Espacio'
<1> DEFINE t == tabla_segmentos
           T == memoria_total_sistema
           fin == FinCompactado
<1>1. Compactar /\ TypeOK /\ Acotada /\ MemoriaSana
  BY DEF CompactarSinConexion, IInv
<1>2. /\ hilo.pc = "compactar" /\ hilo' = [hilo EXCEPT !.pc = "reelegir"]
      /\ lista_huecos_libres' =
             IF fin < T THEN {[base |-> fin, tam |-> T - fin]} ELSE {}
      /\ UNCHANGED <<ms, memoria_total_sistema, contextos, bitmap_swap, swap, estado>>
  BY <1>1 DEF Compactar
<1>3. fin \in Nat /\ fin <= T /\ T \in Nat
  BY <1>1, NuevaBaseLema, Hechos DEF MemoriaSana
<1>4. \A p \in Pids :
        /\ DOMAIN t'[p] = DOMAIN t[p]
        /\ \A i \in DOMAIN t[p] :
             /\ t'[p][i].limite = t[p][i].limite
             /\ t'[p][i].en_swap = t[p][i].en_swap
             /\ <<p, i>> \in EnRam => t'[p][i].direccion_base = NuevaBase(<<p, i>>)
             /\ t[p][i].en_swap => t'[p][i] = t[p][i]
  BY <1>1, TablaCompactada
<1>5. Consolidados(lista_huecos_libres')
  BY <1>2, <1>3 DEF Consolidados
<1>6. Cubierta'
  <2>1. ASSUME NEW a \in 0 .. T - 1
        PROVE  EnHuecos(lista_huecos_libres', a) \/ EnSegmentos(t', a)
    <3>1. CASE a < fin
      <4>1. a \in 0 .. fin - 1
        BY <3>1, <1>3
      <4>2. PICK l \in EnRam : En(a, NuevaBase(l), Seg(l).limite)
        BY <4>1, <1>1, CompactadosLlenan
      <4>3. l \in Lugares /\ ~Seg(l).en_swap
        BY DEF EnRam
      <4>4. /\ l[1] \in Pids /\ l[2] \in DOMAIN t[l[1]] /\ l = <<l[1], l[2]>>
            /\ Seg(l) = t[l[1]][l[2]]
        BY <4>3, <1>1, LugaresLema
      <4>5. /\ l[2] \in DOMAIN t'[l[1]] /\ ~t'[l[1]][l[2]].en_swap
            /\ t'[l[1]][l[2]].direccion_base = NuevaBase(l)
            /\ t'[l[1]][l[2]].limite = Seg(l).limite
        BY <4>3, <4>4, <1>4
      <4>6. En(a, t'[l[1]][l[2]].direccion_base, t'[l[1]][l[2]].limite)
        BY <4>2, <4>5
      <4>7. QED BY <4>4, <4>5, <4>6 DEF EnSegmentos
    <3>2. CASE fin <= a
      <4>1. fin < T /\ En(a, fin, T - fin)
        BY <3>2, <1>3 DEF En
      <4>2. QED BY <4>1, <1>2 DEF EnHuecos
    <3>3. QED BY <3>1, <3>2, <1>3
  <2>2. QED BY <2>1, <1>2 DEF Cubierta
<1>7. BloquesBien(t', bitmap_swap')
  <2>1. \A p \in Pids : \A i \in DOMAIN t'[p] : t'[p][i].en_swap =>
            i \in DOMAIN t[p] /\ t[p][i].en_swap /\ t'[p][i] = t[p][i]
    BY <1>4
  <2>2. \A p \in Pids : \A i \in DOMAIN t[p] : t[p][i].en_swap =>
            i \in DOMAIN t'[p] /\ t'[p][i] = t[p][i]
    BY <1>4
  <2>3. BloquesBien(t, bitmap_swap)
    BY DEF Espacio
  <2>4. \A b \in Nat : Tomado(t', b) <=> Tomado(t, b)
    BY <2>1, <2>2 DEF Tomado
  <2>5. BloquesDisj(t')
    BY <2>1, <2>3 DEF BloquesBien, BloquesDisj
  <2>6. QED BY <2>3, <2>4, <2>5, <1>2 DEF BloquesBien
<1>8. Alcanza'
  <2>1. /\ hilo'.pc = "reelegir" /\ hilo'.tam = hilo.tam
        /\ hilo.tam \in 1 .. SEGMENT_MAX_SIZE
    BY <1>2, Hechos DEF IInv, HiloTipo, HiloBien
  <2>2. hilo.tam <= EspacioLibreTotal
    BY <1>2 DEF Espacio, Alcanza
  <2>3. fin + EspacioLibreTotal <= T
    BY <1>1, LibresCaben
  <2>4. EspacioLibreTotal \in Nat
    <3>1. IsFiniteSet(Libres(lista_huecos_libres))
          /\ EspacioLibreTotal = Cardinality(Libres(lista_huecos_libres))
      BY <1>1, Hechos, LibresLema DEF MemoriaSana, Sano, EspacioLibreTotal
    <3>2. QED BY <3>1, FS_CardinalityType
  <2>5. fin < T /\ T - fin >= hilo.tam
    BY <2>1, <2>2, <2>3, <2>4, <1>3
  <2>6. QED BY <2>1, <2>5, <1>2 DEF Alcanza
<1>9. QED BY <1>5, <1>6, <1>7, <1>8 DEF Espacio

\* The requests that begin move nothing.
LEMMA PedidoEspacio ==
    ASSUME IInv, Espacio, NEW p \in Pids, Pedido(p)
    PROVE  Espacio'
<1>1. UNCHANGED <<ms, memoria_total_sistema, lista_huecos_libres, tabla_segmentos,
                  bitmap_swap>>
  BY DEF Pedido, CrearProceso, PedirSegmento, PedirSuspension, PedirDesuspension,
         PedirFinalizacion, EscrituraMemoria
<1>2. hilo'.pc \notin {"compactar", "reelegir"}
  BY DEF Pedido, CrearProceso, PedirSegmento, PedirSuspension, PedirDesuspension,
         PedirFinalizacion, EscrituraMemoria, Libre, Elegir, Ocioso
<1>3. Alcanza'
  BY <1>2 DEF Alcanza
<1>4. QED BY <1>1, <1>3, QuietaEspacio

\* The steps of a request: those that move segments, the measure of what is free,
\* and those that move nothing.
LEMMA ContinuarEspacio ==
    ASSUME IInv, Espacio, Continuar
    PROVE  Espacio'
<1>0. hilo \in HiloTipo
  BY Hechos DEF IInv
<1>1. CASE CrearSegmento
  BY <1>1, CrearSegmentoEspacio
<1>2. CASE MoverSegmentoASwap
  BY <1>2, MoverEspacio
<1>3. CASE RestaurarSegmento
  BY <1>3, RestaurarEspacio
<1>4. CASE LiberarSegmentoFinalizado
  BY <1>4, FinalizarEspacio
<1>5. CASE MedirEspacio
  <2>1. UNCHANGED <<ms, memoria_total_sistema, lista_huecos_libres, tabla_segmentos,
                    bitmap_swap>>
    BY <1>5 DEF MedirEspacio
  <2>2. EspacioLibreTotal' = EspacioLibreTotal
    BY <2>1 DEF EspacioLibreTotal
  <2>3. CASE EspacioLibreTotal >= hilo.tam /\ hilo' = [hilo EXCEPT !.pc = "compactar"]
    <3>1. hilo'.pc = "compactar" /\ hilo'.tam = hilo.tam
      BY <2>3, <1>0 DEF HiloTipo
    <3>2. hilo.tam <= EspacioLibreTotal
      BY <2>3
    <3>3. Alcanza'
      BY <3>1, <3>2, <2>2 DEF Alcanza
    <3>4. QED BY <3>3, <2>1, QuietaEspacio
  <2>4. CASE hilo' = Ocioso
    <3>1. Alcanza'
      BY <2>4, OciosoTipo DEF Alcanza
    <3>2. QED BY <3>1, <2>1, QuietaEspacio
  <2>5. QED BY <2>3, <2>4, <1>5 DEF MedirEspacio
<1>6. CASE \/ ReelegirHueco \/ SaltearSegmento \/ TerminarSuspension \/ YaEnRam
           \/ DesuspensionFallida \/ TerminarDesuspension \/ TerminarFinalizacion
  <2>1. UNCHANGED <<ms, memoria_total_sistema, lista_huecos_libres, tabla_segmentos,
                    bitmap_swap>>
    BY <1>6 DEF ReelegirHueco, SaltearSegmento, TerminarSuspension, YaEnRam,
                DesuspensionFallida, TerminarDesuspension, TerminarFinalizacion
  <2>2. hilo'.pc \notin {"compactar", "reelegir"}
    <3>1. CASE ReelegirHueco
      BY <3>1 DEF ReelegirHueco, Elegir, Ocioso
    <3>2. CASE SaltearSegmento \/ YaEnRam
      BY <3>2, <1>0 DEF SaltearSegmento, YaEnRam, HiloTipo
    <3>3. CASE \/ TerminarSuspension \/ DesuspensionFallida \/ TerminarDesuspension
               \/ TerminarFinalizacion
      BY <3>3, OciosoTipo DEF TerminarSuspension, DesuspensionFallida,
                              TerminarDesuspension, TerminarFinalizacion
    <3>4. QED BY <3>1, <3>2, <3>3, <1>6
  <2>3. Alcanza'
    BY <2>2 DEF Alcanza
  <2>4. QED BY <2>1, <2>3, QuietaEspacio
<1>7. QED BY <1>1, <1>2, <1>3, <1>4, <1>5, <1>6 DEF Continuar

LEMMA EjecutarEspacio ==
    ASSUME IInv, Espacio, NEW p \in Pids, EjecutarEnRam(p)
    PROVE  Espacio'
<1>1. CASE \E id \in Ids : EliminarSegmento(p, id)
  BY <1>1, EliminarEspacio DEF EjecutarEnRam
<1>2. CASE \E i \in 1 .. MaxSegmentos, k \in 0 .. SEGMENT_MAX_SIZE - 1, v \in Valores :
               EscribirCPU(p, i, k, v)
  <2>1. UNCHANGED <<ms, memoria_total_sistema, lista_huecos_libres, tabla_segmentos,
                    bitmap_swap, hilo>>
    BY <1>2 DEF EscribirCPU
  <2>2. Alcanza'
    BY <2>1 DEF Espacio, Alcanza, EspacioLibreTotal
  <2>3. QED BY <2>1, <2>2, QuietaEspacio
<1>3. QED BY <1>1, <1>2 DEF EjecutarEnRam, Ejecutar

LEMMA PasoEspacio == IInv /\ Espacio /\ [NextOrdenada]_vars => Espacio'
<1> SUFFICES ASSUME IInv, Espacio, [NextOrdenada]_vars PROVE Espacio'
  OBVIOUS
<1>1. CASE \E m \in Sticks : ConectarDeAUno(m) \/ AgregarHuecoStick(m)
  BY <1>1, ConectarEspacio, AgregarEspacio
<1>2. CASE \E p \in Pids : Pedido(p) \/ EjecutarEnRam(p)
  BY <1>2, PedidoEspacio, EjecutarEspacio
<1>3. CASE Continuar
  BY <1>3, ContinuarEspacio
<1>4. CASE CompactarSinConexion
  BY <1>4, CompactarEspacio
<1>5. CASE UNCHANGED vars
  <2>1. Alcanza'
    BY <1>5 DEF vars, Espacio, Alcanza, EspacioLibreTotal
  <2>2. QED BY <1>5, <2>1, QuietaEspacio DEF vars
<1>6. QED BY <1>1, <1>2, <1>3, <1>4, <1>5 DEF NextOrdenada

-----------------------------------------------------------------------------
(* The theorems. *)

\* Both invariants hold throughout.
THEOREM EspacioInvariante == SpecOrdenada => [](IInv /\ Espacio)
<1>1. Init => Espacio
  BY InicioEspacio
<1>2. IInv /\ Espacio /\ [NextOrdenada]_vars => Espacio'
  BY PasoEspacio
<1>3. SpecOrdenada => []IInv
  BY Invariante
<1>4. QED BY <1>1, <1>2, <1>3, PTL DEF SpecOrdenada

\* Free neighbours are always joined, so a request that fits in adjacent free bytes
\* is never answered with a compaction.
THEOREM HuecosSiempreUnidos == SpecOrdenada => []HuecosConsolidados
<1>1. Espacio => HuecosConsolidados
  BY DEF Espacio, Consolidados, HuecosConsolidados
<1>2. QED BY <1>1, EspacioInvariante, PTL

\* No byte of a registered stick is ever lost: not when holes are cut and joined,
\* nor in the compaction, which builds the list of holes anew.
THEOREM NingunByteSePierde == SpecOrdenada => []SinFugas
<1>1. IInv /\ Espacio => SinFugas
  <2>1. SUFFICES ASSUME IInv, Espacio, NEW a \in 0 .. memoria_total_sistema - 1
                 PROVE
                   \/ \E h \in lista_huecos_libres : h.base <= a /\ a < h.base + h.tam
                   \/ \E l \in EnRam : /\ Seg(l).direccion_base <= a
                                       /\ a < Seg(l).direccion_base + Seg(l).limite
                   \/ \E m \in Conectando : /\ ms[m].base <= a
                                            /\ a < ms[m].base + TamanioStick[m]
    BY DEF SinFugas
  <2>2. CASE EnHuecos(lista_huecos_libres, a)
    BY <2>2 DEF EnHuecos, En
  <2>3. CASE EnSegmentos(tabla_segmentos, a)
    <3>1. PICK p \in Pids : \E i \in DOMAIN tabla_segmentos[p] :
              /\ ~tabla_segmentos[p][i].en_swap
              /\ En(a, tabla_segmentos[p][i].direccion_base, tabla_segmentos[p][i].limite)
      BY <2>3 DEF EnSegmentos
    <3>2. PICK i \in DOMAIN tabla_segmentos[p] :
              /\ ~tabla_segmentos[p][i].en_swap
              /\ En(a, tabla_segmentos[p][i].direccion_base, tabla_segmentos[p][i].limite)
      BY <3>1
    <3>3. <<p, i>> \in EnRam /\ Seg(<<p, i>>) = tabla_segmentos[p][i]
      BY <2>1, <3>2, LugaresLema DEF IInv, EnRam, Seg
    <3>4. QED BY <3>2, <3>3 DEF En
  <2>4. CASE \E m \in Conectando : En(a, ms[m].base, TamanioStick[m])
    BY <2>4 DEF En
  <2>5. QED BY <2>1, <2>2, <2>3, <2>4 DEF Espacio, Cubierta
<1>2. QED BY <1>1, EspacioInvariante, PTL

\* The bitmap of SWAP marks the blocks of the segments that are there, all of them
\* and no other, and no two segments share a block.
THEOREM BitmapSiempreExacto == SpecOrdenada => []SwapExacto
<1>1. IInv /\ Espacio => SwapExacto
  <2>1. SUFFICES ASSUME IInv, Espacio PROVE SwapExacto
    OBVIOUS
  <2>2. ASSUME NEW l \in Lugares \ EnRam
        PROVE  /\ l[1] \in Pids /\ l[2] \in DOMAIN tabla_segmentos[l[1]]
               /\ l = <<l[1], l[2]>>
               /\ Seg(l) = tabla_segmentos[l[1]][l[2]] /\ Seg(l).en_swap
    BY <2>1, LugaresLema DEF IInv, EnRam
  <2>3. ASSUME NEW p \in Pids, NEW i \in DOMAIN tabla_segmentos[p],
               tabla_segmentos[p][i].en_swap
        PROVE  <<p, i>> \in Lugares \ EnRam /\ Seg(<<p, i>>) = tabla_segmentos[p][i]
    BY <2>1, <2>3, LugaresLema DEF IInv, EnRam, Seg
  <2>4. BloquesBien(tabla_segmentos, bitmap_swap) /\ tabla_segmentos \in Tablas
        /\ bitmap_swap \subseteq Nat
    BY <2>1, Hechos DEF Espacio, IInv, TypeOK, Bloques
  <2>5. ASSUME NEW l \in Lugares \ EnRam PROVE BloquesDe(Seg(l)) \subseteq Nat
    BY <2>2, <2>4, SegmentoTipo DEF BloquesDe
  <2>6. ASSUME NEW b \in bitmap_swap
        PROVE  \E l \in Lugares \ EnRam : b \in BloquesDe(Seg(l))
    <3>1. Tomado(tabla_segmentos, b)
      BY <2>4 DEF BloquesBien
    <3>2. PICK p \in Pids : \E i \in DOMAIN tabla_segmentos[p] :
              tabla_segmentos[p][i].en_swap /\ b \in BloquesDe(tabla_segmentos[p][i])
      BY <3>1 DEF Tomado
    <3>3. PICK i \in DOMAIN tabla_segmentos[p] :
              tabla_segmentos[p][i].en_swap /\ b \in BloquesDe(tabla_segmentos[p][i])
      BY <3>2
    <3>4. QED BY <3>3, <2>3
  <2>7. ASSUME NEW l \in Lugares \ EnRam, NEW b \in BloquesDe(Seg(l))
        PROVE  b \in bitmap_swap
    <3>1. b \in Nat /\ Tomado(tabla_segmentos, b)
      BY <2>2, <2>5 DEF Tomado
    <3>2. QED BY <3>1, <2>4 DEF BloquesBien
  <2>8. bitmap_swap = UNION {BloquesDe(Seg(l)) : l \in Lugares \ EnRam}
    BY <2>6, <2>7
  <2>9. ASSUME NEW k \in Lugares \ EnRam, NEW l \in Lugares \ EnRam, k # l
        PROVE  BloquesDe(Seg(k)) \cap BloquesDe(Seg(l)) = {}
    <3>1. k[1] # l[1] \/ k[2] # l[2]
      BY <2>2, <2>9
    <3>2. QED BY <2>2, <2>4, <3>1 DEF BloquesBien, BloquesDisj
  <2>10. QED BY <2>8, <2>9 DEF SwapExacto
<1>2. QED BY <1>1, EspacioInvariante, PTL

\* When a compaction was worthwhile its second search finds a hole, whatever sticks
\* connect in between: the pointer used without a test is never null.
THEOREM CompactacionSiempreAlcanza == SpecOrdenada => []CompactarAlcanza
<1>1. Espacio => CompactarAlcanza
  BY DEF Espacio, Alcanza, CompactarAlcanza, HuecosValidos
<1>2. QED BY <1>1, EspacioInvariante, PTL

-----------------------------------------------------------------------------
(* The view of the processes, as a function of the tables and the bytes. *)

Byte(seg, k, mem, sw) ==
    IF seg.en_swap THEN sw[seg.bloque_swap * BlockSize + k - 1]
    ELSE mem[seg.direccion_base + k - 1]

Bytes(seg, mem, sw) == [k \in 1 .. seg.limite |-> Byte(seg, k, mem, sw)]

Pieza(seg, mem, sw) == [id |-> seg.id_segmento, bytes |-> Bytes(seg, mem, sw)]

Lista(s, mem, sw) == [i \in DOMAIN s |-> Pieza(s[i], mem, sw)]

Vista(t, c, mem, sw) ==
    [p \in Pids |-> IF p \in c THEN Lista(t[p], mem, sw) ELSE <<>>]

Piezas == [id : Ids, bytes : Abstracta!Contenidos]

LEMMA VistaLema ==
    /\ VistaDeProceso = Vista(tabla_segmentos, contextos, memoria, swap)
    /\ VistaDeProceso' = Vista(tabla_segmentos', contextos', memoria', swap')
  BY DEF VistaDeProceso, Vista, Lista, Pieza, Bytes, Byte, Contenido

\* A byte of a segment in SWAP is in SWAP, inside the blocks of the segment.
LEMMA ByteEnSwap ==
    ASSUME NEW l \in Nat \ {0}, NEW b \in Nat, b + BloquesNecesarios(l) <= TotalBloques,
           NEW k \in 0 .. l - 1
    PROVE  b * BlockSize + k \in BytesSwap /\ k < BloquesNecesarios(l) * BlockSize
<1> DEFINE n == BloquesNecesarios(l)
<1>1. BlockSize \in Nat /\ TotalBloques \in Nat
  BY KMAssumption DEF KMAssumption
<1>2. n \in Nat \ {0} /\ l <= n * BlockSize
  BY BloquesLema
<1> HIDE DEF n
<1>3. n * BlockSize \in Nat
  BY <1>1, <1>2
<1>4. k \in Nat /\ k < n * BlockSize
  BY <1>2, <1>3
<1>5. b + n <= TotalBloques
  BY DEF n
<1>6. PICK d \in Nat : TotalBloques = b + n + d
  <2>1. TotalBloques - (b + n) \in Nat
    BY <1>1, <1>2, <1>5
  <2>2. TotalBloques = b + n + (TotalBloques - (b + n))
    BY <1>1, <1>2
  <2>3. QED BY <2>1, <2>2
<1>7. TotalBloques * BlockSize = b * BlockSize + n * BlockSize + d * BlockSize
  BY <1>1, <1>2, <1>6, SMTT(30)
<1>8. b * BlockSize \in Nat /\ d * BlockSize \in Nat
  BY <1>1
<1>9. b * BlockSize + k \in BytesSwap
  BY <1>3, <1>4, <1>7, <1>8 DEF BytesSwap
<1>10. QED BY <1>4, <1>9 DEF n

\* Runs of blocks that share no block share no byte.
LEMMA BloquesAparte ==
    ASSUME NEW b \in Nat, NEW n \in Nat \ {0}, NEW c \in Nat, NEW m \in Nat \ {0},
           (b .. b + n - 1) \cap (c .. c + m - 1) = {},
           NEW k \in Nat, k < m * BlockSize
    PROVE  \/ c * BlockSize + k < b * BlockSize
           \/ b * BlockSize + n * BlockSize <= c * BlockSize + k
<1>1. BlockSize \in Nat
  BY KMAssumption DEF KMAssumption
<1>2. /\ b * BlockSize \in Nat /\ n * BlockSize \in Nat
      /\ c * BlockSize \in Nat /\ m * BlockSize \in Nat
  BY <1>1
<1>3. c + m <= b \/ b + n <= c
  <2>1. SUFFICES ASSUME b < c + m, c < b + n PROVE FALSE
    OBVIOUS
  <2>2. CASE b <= c
    <3>1. c \in (b .. b + n - 1) /\ c \in (c .. c + m - 1)
      BY <2>1, <2>2
    <3>2. QED BY <3>1
  <2>3. CASE c < b
    <3>1. b \in (b .. b + n - 1) /\ b \in (c .. c + m - 1)
      BY <2>1, <2>3
    <3>2. QED BY <3>1
  <2>4. QED BY <2>2, <2>3
<1>4. CASE c + m <= b
  <2>1. PICK d \in Nat : b = c + m + d
    <3>1. b - (c + m) \in Nat /\ b = c + m + (b - (c + m))
      BY <1>4
    <3>2. QED BY <3>1
  <2>2. b * BlockSize = c * BlockSize + m * BlockSize + d * BlockSize
    BY <2>1, <1>1, SMTT(30)
  <2>3. d * BlockSize \in Nat
    BY <1>1
  <2>4. QED BY <2>2, <2>3, <1>2
<1>5. CASE b + n <= c
  <2>1. PICK d \in Nat : c = b + n + d
    <3>1. c - (b + n) \in Nat /\ c = b + n + (c - (b + n))
      BY <1>5
    <3>2. QED BY <3>1
  <2>2. c * BlockSize = b * BlockSize + n * BlockSize + d * BlockSize
    BY <2>1, <1>1, SMTT(30)
  <2>3. d * BlockSize \in Nat
    BY <1>1
  <2>4. QED BY <2>2, <2>3, <1>2
<1>6. QED BY <1>3, <1>4, <1>5

\* Where the bytes of a segment are.
LEMMA ByteLugar ==
    ASSUME IInv, NEW p \in Pids, NEW i \in DOMAIN tabla_segmentos[p],
           NEW k \in 1 .. tabla_segmentos[p][i].limite
    PROVE  LET s == tabla_segmentos[p][i]
           IN  /\ s \in Segmento /\ s.limite \in Nat \ {0}
               /\ s.limite \in 1 .. SEGMENT_MAX_SIZE
               /\ s.direccion_base \in Nat /\ s.bloque_swap \in Nat
               /\ s.direccion_base + s.limite <= memoria_total_sistema
               /\ s.direccion_base + k - 1 \in Direcciones
               /\ s.en_swap => /\ s.bloque_swap * BlockSize + k - 1 \in BytesSwap
                               /\ k - 1 < BloquesNecesarios(s.limite) * BlockSize
               /\ Byte(s, k, memoria, swap) \in Valores
<1> DEFINE s == tabla_segmentos[p][i]
           T == memoria_total_sistema
<1>1. /\ tabla_segmentos \in Tablas /\ T \in Nat /\ T <= MemoriaMaxima
      /\ MemoriaMaxima \in Nat
  BY Hechos DEF IInv
<1>2. /\ s \in Segmento /\ s.limite \in Nat \ {0} /\ s.limite \in 1 .. SEGMENT_MAX_SIZE
      /\ s.direccion_base \in Nat /\ s.bloque_swap \in Nat /\ s.en_swap \in BOOLEAN
  BY <1>1, SegmentoTipo
<1>3. s.direccion_base + s.limite <= T
  BY DEF IInv, MemoriaSana, Sano, SegsBajo
<1>4. s.en_swap => s.bloque_swap + BloquesNecesarios(s.limite) <= TotalBloques
  BY DEF IInv, EnBloques
<1>5. memoria \in [Direcciones -> Valores] /\ swap \in [BytesSwap -> Valores]
  BY DEF IInv, TypeOK
<1>6. k \in 1 .. s.limite
  OBVIOUS
<1> HIDE DEF s, T
<1>7. s.direccion_base + k - 1 \in Direcciones
  BY <1>1, <1>2, <1>3, <1>6 DEF Direcciones
<1>8. ASSUME s.en_swap
      PROVE  /\ s.bloque_swap * BlockSize + k - 1 \in BytesSwap
             /\ k - 1 < BloquesNecesarios(s.limite) * BlockSize
  <2>1. k - 1 \in 0 .. s.limite - 1
    BY <1>2, <1>6
  <2>2. /\ s.bloque_swap * BlockSize + (k - 1) \in BytesSwap
        /\ k - 1 < BloquesNecesarios(s.limite) * BlockSize
    BY <2>1, <1>2, <1>4, <1>8, ByteEnSwap
  <2>3. s.bloque_swap * BlockSize \in Nat
    BY <1>2, KMAssumption DEF KMAssumption
  <2>4. s.bloque_swap * BlockSize + (k - 1) = s.bloque_swap * BlockSize + k - 1
    BY <2>3, <1>2, <1>6
  <2>5. QED BY <2>2, <2>4
<1>9. Byte(s, k, memoria, swap) \in Valores
  BY <1>5, <1>7, <1>8 DEF Byte
<1>10. QED BY <1>2, <1>3, <1>7, <1>8, <1>9 DEF s, T

\* The list of a process is a list of pieces.
LEMMA ListaTipo ==
    ASSUME IInv, NEW p \in Pids
    PROVE  LET v == Lista(tabla_segmentos[p], memoria, swap)
           IN  /\ v \in Seq(Piezas) /\ Len(v) = Len(tabla_segmentos[p])
               /\ DOMAIN v = DOMAIN tabla_segmentos[p]
               /\ \A i \in DOMAIN tabla_segmentos[p] :
                    /\ v[i] = Pieza(tabla_segmentos[p][i], memoria, swap)
                    /\ v[i].id = tabla_segmentos[p][i].id_segmento
                    /\ v[i].bytes = Bytes(tabla_segmentos[p][i], memoria, swap)
<1> DEFINE s == tabla_segmentos[p]
           v == Lista(s, memoria, swap)
<1>1. s \in Seq(Segmento) /\ DOMAIN s = 1 .. Len(s) /\ Len(s) \in Nat
  BY DEF IInv, TypeOK
<1>2. DOMAIN v = 1 .. Len(s) /\ \A i \in DOMAIN s : v[i] = Pieza(s[i], memoria, swap)
  BY <1>1 DEF Lista
<1>3. ASSUME NEW i \in DOMAIN s
      PROVE  Pieza(s[i], memoria, swap) \in Piezas
  <2> DEFINE n == s[i].limite
  <2>1. n \in 1 .. SEGMENT_MAX_SIZE /\ s[i].id_segmento \in Ids
    <3>1. s[i] \in Segmento
      BY <1>1
    <3>2. QED BY <3>1 DEF Segmento
  <2>2. \A k \in 1 .. n : Byte(s[i], k, memoria, swap) \in Valores
    BY ByteLugar
  <2>3. Bytes(s[i], memoria, swap) \in [1 .. n -> Valores]
    BY <2>2 DEF Bytes
  <2>4. Bytes(s[i], memoria, swap) \in Abstracta!Contenidos
    BY <2>1, <2>3 DEF Abstracta!Contenidos
  <2>5. QED BY <2>1, <2>4 DEF Pieza, Piezas
<1>4. v \in [1 .. Len(s) -> Piezas]
  BY <1>1, <1>2, <1>3 DEF Lista
<1> HIDE DEF v, s
<1>5. v \in Seq(Piezas) /\ Len(v) = Len(s)
  BY <1>1, <1>4
<1>6. ASSUME NEW i \in DOMAIN s
      PROVE  v[i].id = s[i].id_segmento /\ v[i].bytes = Bytes(s[i], memoria, swap)
  <2>1. v[i] = [id |-> s[i].id_segmento, bytes |-> Bytes(s[i], memoria, swap)]
    BY <1>2 DEF Pieza
  <2>2. QED BY <2>1
<1>7. QED BY <1>1, <1>2, <1>5, <1>6 DEF v, s

-----------------------------------------------------------------------------
(* What the scheduler believes of a process agrees with Kernel Memory.       *)

Acuerdo ==
    /\ contextos = {p \in Pids : estado[p] \in {"residente", "suspendido"}}
    /\ \A p \in Pids : estado[p] = "nuevo" => DOMAIN tabla_segmentos[p] = {}
    /\ hilo.pc = "libre" => hilo.pid = Nadie
    /\ hilo.pc \in {"elegido", "sin_hueco", "compactar", "reelegir"} =>
           estado[hilo.pid] = "residente"
    /\ hilo.pc \in {"suspendiendo", "desuspendiendo"} => estado[hilo.pid] = "suspendido"
    /\ hilo.pc = "finalizando" => estado[hilo.pid] = "terminado"

\* A step in which neither the thread nor the processes change of state, and no
\* table grows from nothing.
LEMMA QuietoAcuerdo ==
    ASSUME Acuerdo, UNCHANGED <<contextos, estado>>,
           hilo'.pc = hilo.pc, hilo'.pid = hilo.pid,
           \A p \in Pids : estado[p] = "nuevo" => DOMAIN tabla_segmentos'[p] = {}
    PROVE  Acuerdo'
  BY DEF Acuerdo

LEMMA PedidoAcuerdo ==
    ASSUME IInv, Acuerdo, NEW p \in Pids, Pedido(p)
    PROVE  Acuerdo'
<1>0. /\ estado \in [Pids -> Estados] /\ Nadie \notin Pids
      /\ contextos = {q \in Pids : estado[q] \in {"residente", "suspendido"}}
  BY KMAssumption DEF IInv, TypeOK, KMAssumption, Acuerdo
<1>1. CASE CrearProceso(p)
  <2>1. /\ hilo' = hilo /\ hilo.pc = "libre" /\ tabla_segmentos' = tabla_segmentos
        /\ estado' = [estado EXCEPT ![p] = "residente"]
        /\ contextos' = contextos \cup {p}
    BY <1>1 DEF CrearProceso, Libre
  <2>2. \A q \in Pids : estado'[q] = IF q = p THEN "residente" ELSE estado[q]
    BY <2>1, <1>0
  <2>3. contextos' = {q \in Pids : estado'[q] \in {"residente", "suspendido"}}
    BY <2>1, <2>2, <1>0
  <2>4. QED BY <2>1, <2>2, <2>3 DEF Acuerdo
<1>2. CASE \E id \in Ids, tam \in Tamanios : PedirSegmento(p, id, tam)
  <2>1. PICK id \in Ids, tam \in Tamanios : PedirSegmento(p, id, tam)
    BY <1>2
  <2>2. /\ hilo'.pc \in {"elegido", "sin_hueco"} /\ hilo'.pid = p
        /\ estado[p] = "residente" /\ tabla_segmentos' = tabla_segmentos
        /\ estado' = estado /\ contextos' = contextos
    BY <2>1 DEF PedirSegmento, Elegir, Ocioso
  <2>3. QED BY <2>2 DEF Acuerdo
<1>3. CASE PedirSuspension(p)
  <2>1. /\ hilo'.pc = "suspendiendo" /\ hilo'.pid = p /\ tabla_segmentos' = tabla_segmentos
        /\ estado[p] = "residente"
        /\ estado' = [estado EXCEPT ![p] = "suspendido"] /\ contextos' = contextos
    BY <1>3 DEF PedirSuspension, Ocioso
  <2>2. \A q \in Pids : estado'[q] = IF q = p THEN "suspendido" ELSE estado[q]
    BY <2>1, <1>0
  <2>3. contextos' = {q \in Pids : estado'[q] \in {"residente", "suspendido"}}
    BY <2>1, <2>2, <1>0
  <2>4. QED BY <2>1, <2>2, <2>3 DEF Acuerdo
<1>4. CASE PedirDesuspension(p)
  <2>1. /\ hilo'.pc = "desuspendiendo" /\ hilo'.pid = p
        /\ tabla_segmentos' = tabla_segmentos
        /\ estado[p] = "suspendido" /\ estado' = estado /\ contextos' = contextos
    BY <1>4 DEF PedirDesuspension, Ocioso
  <2>2. QED BY <2>1 DEF Acuerdo
<1>5. CASE PedirFinalizacion(p)
  <2>1. /\ hilo'.pc = "finalizando" /\ hilo'.pid = p /\ tabla_segmentos' = tabla_segmentos
        /\ estado[p] = "residente"
        /\ estado' = [estado EXCEPT ![p] = "terminado"] /\ contextos' = contextos \ {p}
    BY <1>5 DEF PedirFinalizacion, Ocioso
  <2>2. \A q \in Pids : estado'[q] = IF q = p THEN "terminado" ELSE estado[q]
    BY <2>1, <1>0
  <2>3. contextos' = {q \in Pids : estado'[q] \in {"residente", "suspendido"}}
    BY <2>1, <2>2, <1>0
  <2>4. QED BY <2>1, <2>2, <2>3 DEF Acuerdo
<1>6. CASE \E id \in Ids, k \in 0 .. SEGMENT_MAX_SIZE - 1, n \in 1 .. SEGMENT_MAX_SIZE,
              v \in Valores : EscrituraMemoria(p, id, k, n, v)
  <2>1. UNCHANGED <<tabla_segmentos, contextos, hilo, estado>>
    BY <1>6 DEF EscrituraMemoria
  <2>2. QED BY <2>1 DEF Acuerdo
<1>7. QED BY <1>1, <1>2, <1>3, <1>4, <1>5, <1>6 DEF Pedido

\* A table that one process loses a segment of, or in which one segment moves, grows
\* from nothing for nobody.
LEMMA ContinuarAcuerdo ==
    ASSUME IInv, Acuerdo, Continuar
    PROVE  Acuerdo'
<1>0. /\ estado \in [Pids -> Estados] /\ hilo \in HiloTipo /\ tabla_segmentos \in Tablas
      /\ contextos = {q \in Pids : estado[q] \in {"residente", "suspendido"}}
      /\ hilo.pc # "libre" => hilo.pid \in Pids
      /\ \A q \in Pids : estado[q] = "nuevo" => DOMAIN tabla_segmentos[q] = {}
  BY Hechos DEF IInv, TypeOK, Acuerdo, HiloBien
<1>1. CASE MedirEspacio \/ ReelegirHueco
  <2>1. UNCHANGED <<tabla_segmentos, contextos, estado>>
    BY <1>1 DEF MedirEspacio, ReelegirHueco
  <2>2. \/ hilo' = Ocioso
        \/ /\ hilo'.pid = hilo.pid /\ hilo'.pc \in {"compactar", "elegido"}
           /\ hilo.pc \in {"sin_hueco", "reelegir"}
    BY <1>0, <1>1, ZenonT(60) DEF MedirEspacio, ReelegirHueco, Elegir, Ocioso, HiloTipo
  <2>3. QED BY <2>1, <2>2 DEF Acuerdo, Ocioso
<1>2. CASE CrearSegmento
  <2>1. /\ hilo' = Ocioso /\ UNCHANGED <<contextos, estado>>
        /\ hilo.pc = "elegido" /\ estado[hilo.pid] = "residente"
    BY <1>2 DEF CrearSegmento, Acuerdo
  <2>2. \A q \in Pids : q # hilo.pid => tabla_segmentos'[q] = tabla_segmentos[q]
    BY <1>0, <1>2 DEF CrearSegmento, Tablas
  <2>3. \A q \in Pids : estado[q] = "nuevo" => DOMAIN tabla_segmentos'[q] = {}
    BY <2>1, <2>2, <1>0
  <2>4. QED BY <2>1, <2>3 DEF Acuerdo, Ocioso
<1>3. CASE MoverSegmentoASwap
  <2>1. /\ UNCHANGED <<contextos, estado>>
        /\ hilo'.pc = hilo.pc /\ hilo'.pid = hilo.pid
    BY <1>0, <1>3 DEF MoverSegmentoASwap, HiloTipo
  <2>2. \A q \in Pids : DOMAIN tabla_segmentos'[q] = DOMAIN tabla_segmentos[q]
    BY <1>0, <1>3 DEF MoverSegmentoASwap, Tablas
  <2>3. \A q \in Pids : estado[q] = "nuevo" => DOMAIN tabla_segmentos'[q] = {}
    BY <1>0, <2>2
  <2>4. QED BY <2>1, <2>3, QuietoAcuerdo
<1>4. CASE RestaurarSegmento
  <2>1. /\ UNCHANGED <<contextos, estado>>
        /\ hilo'.pc = hilo.pc /\ hilo'.pid = hilo.pid
    BY <1>0, <1>4 DEF RestaurarSegmento, HiloTipo
  <2>2. \A q \in Pids : DOMAIN tabla_segmentos'[q] = DOMAIN tabla_segmentos[q]
    BY <1>0, <1>4 DEF RestaurarSegmento, Tablas
  <2>3. \A q \in Pids : estado[q] = "nuevo" => DOMAIN tabla_segmentos'[q] = {}
    BY <1>0, <2>2
  <2>4. QED BY <2>1, <2>3, QuietoAcuerdo
<1>5. CASE SaltearSegmento \/ YaEnRam
  <2>1. /\ UNCHANGED <<tabla_segmentos, contextos, estado>>
        /\ hilo'.pc = hilo.pc /\ hilo'.pid = hilo.pid
    BY <1>0, <1>5 DEF SaltearSegmento, YaEnRam, HiloTipo
  <2>2. QED BY <1>0, <2>1, QuietoAcuerdo
<1>6. CASE TerminarSuspension \/ TerminarDesuspension
  <2>1. /\ hilo' = Ocioso /\ UNCHANGED <<tabla_segmentos, contextos>>
        /\ hilo.pc \in {"suspendiendo", "desuspendiendo"}
        /\ estado' = estado \/ estado' = [estado EXCEPT ![hilo.pid] = "residente"]
    BY <1>6 DEF TerminarSuspension, TerminarDesuspension
  <2>2. hilo.pid \in Pids /\ estado[hilo.pid] = "suspendido"
    BY <1>0, <2>1 DEF Acuerdo
  <2>3. CASE estado' = estado
    BY <2>1, <2>3 DEF Acuerdo, Ocioso
  <2>4. CASE estado' = [estado EXCEPT ![hilo.pid] = "residente"]
    <3>1. \A q \in Pids : estado'[q] = IF q = hilo.pid THEN "residente" ELSE estado[q]
      BY <1>0, <2>4
    <3>2. contextos' = {q \in Pids : estado'[q] \in {"residente", "suspendido"}}
      BY <3>1, <2>1, <2>2, <1>0
    <3>3. QED BY <3>1, <3>2, <2>1, <1>0 DEF Acuerdo, Ocioso
  <2>5. QED BY <2>1, <2>3, <2>4
<1>7. CASE DesuspensionFallida \/ TerminarFinalizacion
  <2>1. hilo' = Ocioso /\ UNCHANGED <<tabla_segmentos, contextos, estado>>
    BY <1>7 DEF DesuspensionFallida, TerminarFinalizacion
  <2>2. QED BY <2>1 DEF Acuerdo, Ocioso
<1>8. CASE LiberarSegmentoFinalizado
  <2>1. /\ UNCHANGED <<contextos, estado, hilo>>
        /\ hilo.pc = "finalizando" /\ estado[hilo.pid] = "terminado"
    BY <1>8 DEF LiberarSegmentoFinalizado, Acuerdo
  <2>2. \A q \in Pids : q # hilo.pid => tabla_segmentos'[q] = tabla_segmentos[q]
    BY <1>0, <1>8 DEF LiberarSegmentoFinalizado, Tablas
  <2>3. \A q \in Pids : estado[q] = "nuevo" => DOMAIN tabla_segmentos'[q] = {}
    BY <2>1, <2>2, <1>0
  <2>4. QED BY <2>1, <2>3, QuietoAcuerdo
<1>9. QED
  BY <1>1, <1>2, <1>3, <1>4, <1>5, <1>6, <1>7, <1>8 DEF Continuar

LEMMA PasoAcuerdo == IInv /\ Acuerdo /\ [NextOrdenada]_vars => Acuerdo'
<1> SUFFICES ASSUME IInv, Acuerdo, [NextOrdenada]_vars PROVE Acuerdo'
  OBVIOUS
<1>0. /\ hilo \in HiloTipo /\ tabla_segmentos \in Tablas
      /\ \A q \in Pids : estado[q] = "nuevo" => DOMAIN tabla_segmentos[q] = {}
  BY Hechos DEF IInv, Acuerdo
<1>1. CASE \E m \in Sticks : ConectarDeAUno(m) \/ AgregarHuecoStick(m)
  <2>1. UNCHANGED <<tabla_segmentos, contextos, hilo, estado>>
    BY <1>1 DEF ConectarDeAUno, ConexionMemoryStick, AgregarHuecoStick
  <2>2. QED BY <2>1, <1>0, QuietoAcuerdo
<1>2. CASE \E p \in Pids : Pedido(p)
  BY <1>2, PedidoAcuerdo
<1>3. CASE \E p \in Pids : EjecutarEnRam(p)
  <2>1. PICK p \in Pids : EjecutarEnRam(p)
    BY <1>3
  <2>2. /\ UNCHANGED <<contextos, hilo, estado>> /\ estado[p] = "residente"
        /\ \A q \in Pids : q # p => tabla_segmentos'[q] = tabla_segmentos[q]
    BY <1>0, <2>1 DEF EjecutarEnRam, Ejecutar, EliminarSegmento, EscribirCPU, Tablas
  <2>3. \A q \in Pids : estado[q] = "nuevo" => DOMAIN tabla_segmentos'[q] = {}
    BY <2>2, <1>0
  <2>4. QED BY <2>2, <2>3, QuietoAcuerdo
<1>4. CASE Continuar
  BY <1>4, ContinuarAcuerdo
<1>5. CASE CompactarSinConexion
  <2>1. /\ UNCHANGED <<contextos, estado>> /\ hilo.pc = "compactar"
        /\ hilo'.pc = "reelegir" /\ hilo'.pid = hilo.pid
    BY <1>0, <1>5 DEF CompactarSinConexion, Compactar, HiloTipo
  <2>2. \A q \in Pids : DOMAIN tabla_segmentos'[q] = DOMAIN tabla_segmentos[q]
    BY <1>5, TablaCompactada DEF CompactarSinConexion, IInv
  <2>3. QED BY <2>1, <2>2 DEF Acuerdo
<1>6. CASE UNCHANGED vars
  BY <1>6 DEF vars, Acuerdo
<1>7. QED BY <1>1, <1>2, <1>3, <1>4, <1>5, <1>6 DEF NextOrdenada

LEMMA InicioAcuerdo == Init => Acuerdo
<1> SUFFICES ASSUME Init PROVE Acuerdo
  OBVIOUS
<1>1. contextos = {p \in Pids : estado[p] \in {"residente", "suspendido"}}
  BY DEF Init
<1>2. \A p \in Pids : DOMAIN tabla_segmentos[p] = {}
  BY DEF Init
<1>3. hilo.pc = "libre" /\ hilo.pid = Nadie
  BY DEF Init, Ocioso
<1>4. QED BY <1>1, <1>2, <1>3 DEF Acuerdo

\* The allocator, the space it manages and the scheduler agree throughout.
THEOREM AcuerdoInvariante == SpecOrdenada => [](IInv /\ Espacio /\ Acuerdo)
<1>1. Init => Acuerdo
  BY InicioAcuerdo
<1>2. IInv /\ Acuerdo /\ [NextOrdenada]_vars => Acuerdo'
  BY PasoAcuerdo
<1>3. SpecOrdenada => [](IInv /\ Espacio)
  BY EspacioInvariante
<1>4. QED BY <1>1, <1>2, <1>3, PTL DEF SpecOrdenada

-----------------------------------------------------------------------------
(* Steps that the processes do not see. *)

\* Segments with the same number, the same size and the same bytes look the same,
\* wherever those bytes are.
LEMMA IgualLista ==
    ASSUME NEW s, NEW s2, NEW mem, NEW mem2, NEW sw, NEW sw2,
           DOMAIN s2 = DOMAIN s,
           \A i \in DOMAIN s :
               /\ s2[i].id_segmento = s[i].id_segmento /\ s2[i].limite = s[i].limite
               /\ \A k \in 1 .. s[i].limite :
                      Byte(s2[i], k, mem2, sw2) = Byte(s[i], k, mem, sw)
    PROVE  Lista(s2, mem2, sw2) = Lista(s, mem, sw)
<1>1. ASSUME NEW i \in DOMAIN s
      PROVE  Pieza(s2[i], mem2, sw2) = Pieza(s[i], mem, sw)
  <2>1. Bytes(s2[i], mem2, sw2) = Bytes(s[i], mem, sw)
    BY DEF Bytes
  <2>2. QED BY <2>1 DEF Pieza
<1>2. QED BY <1>1 DEF Lista

LEMMA IgualVista ==
    ASSUME contextos' = contextos,
           \A p \in contextos : Lista(tabla_segmentos'[p], memoria', swap')
                                = Lista(tabla_segmentos[p], memoria, swap)
    PROVE  VistaDeProceso' = VistaDeProceso
  BY VistaLema DEF Vista

LEMMA QuietoVista ==
    ASSUME UNCHANGED <<tabla_segmentos, contextos, memoria, swap>>
    PROVE  VistaDeProceso' = VistaDeProceso
  BY IgualVista

\* ENVIAR_PROCESO: the process is born with no segment.
LEMMA CrearProcesoVista ==
    ASSUME IInv, Acuerdo, NEW p \in Pids, CrearProceso(p)
    PROVE  VistaDeProceso' = VistaDeProceso
<1>1. /\ UNCHANGED <<tabla_segmentos, memoria, swap>> /\ contextos' = contextos \cup {p}
      /\ estado[p] = "nuevo"
  BY DEF CrearProceso
<1>2. p \notin contextos /\ DOMAIN tabla_segmentos[p] = {}
  BY <1>1 DEF Acuerdo
<1>3. Lista(tabla_segmentos[p], memoria, swap) = <<>>
  <2> DEFINE v == Lista(tabla_segmentos[p], memoria, swap)
  <2>1. v \in Seq(Piezas) /\ DOMAIN v = {}
    BY <1>2, ListaTipo
  <2> HIDE DEF v
  <2>2. Len(v) = 0
    BY <2>1
  <2>3. v = <<>>
    BY <2>1, <2>2
  <2>4. QED BY <2>3 DEF v
<1>4. \A q \in Pids :
        (IF q \in contextos' THEN Lista(tabla_segmentos[q], memoria, swap) ELSE <<>>)
        = IF q \in contextos THEN Lista(tabla_segmentos[q], memoria, swap) ELSE <<>>
  BY <1>1, <1>3
<1>5. Vista(tabla_segmentos', contextos', memoria', swap')
      = Vista(tabla_segmentos, contextos, memoria, swap)
  BY <1>1, <1>4 DEF Vista
<1>6. QED BY <1>5, VistaLema

\* The compaction moves every segment in RAM with all its bytes: the segment that a
\* new address belongs to is the only one, so what is copied there is its own byte.
LEMMA CompactarVista ==
    ASSUME IInv, CompactarSinConexion
    PROVE  VistaDeProceso' = VistaDeProceso
<1>1. TypeOK /\ Acotada /\ MemoriaSana /\ Compactar
  BY DEF IInv, CompactarSinConexion
<1>2. /\ FinCompactado \in Nat /\ FinCompactado <= memoria_total_sistema
      /\ \A l \in EnRam : NuevaBase(l) \in Nat
      /\ \A l \in EnRam : NuevaBase(l) + Seg(l).limite <= FinCompactado
      /\ \A k, l \in EnRam : k # l =>
             Disjuntos(NuevaBase(k), Seg(k).limite, NuevaBase(l), Seg(l).limite)
  BY <1>1, NuevaBaseLema DEF MemoriaSana
<1>3. contextos' = contextos /\ swap' = swap /\ contextos \subseteq Pids
  BY <1>1 DEF Compactar, TypeOK
<1>4. ASSUME NEW l \in EnRam, NEW k \in 1 .. Seg(l).limite
      PROVE  memoria'[NuevaBase(l) + k - 1] = memoria[Seg(l).direccion_base + k - 1]
  <2> DEFINE a == NuevaBase(l) + k - 1
             Aqui(m) == NuevaBase(m) <= a /\ a < NuevaBase(m) + Seg(m).limite
  <2>1. \A m \in EnRam : Seg(m).limite \in Nat /\ Seg(m).direccion_base \in Nat
    BY <1>1, LugaresLema, KMAssumption DEF EnRam, KMAssumption
  <2>2. NuevaBase(l) \in Nat /\ k \in Nat /\ k >= 1 /\ k <= Seg(l).limite
    BY <1>2, <2>1
  <2>3. a \in Direcciones
    BY <1>1, <1>2, <2>1, <2>2, Hechos DEF Direcciones
  <2>4. Aqui(l)
    BY <2>1, <2>2
  <2>5. ASSUME NEW m \in EnRam, Aqui(m) PROVE m = l
    BY <2>1, <2>2, <2>4, <2>5, <1>2 DEF Disjuntos
  <2>6. (CHOOSE m \in EnRam : Aqui(m)) = l
    BY <2>4, <2>5
  <2>7. memoria'[a] = memoria[Seg(l).direccion_base + (a - NuevaBase(l))]
    BY <1>1, <2>3, <2>4, <2>6 DEF Compactar
  <2>8. Seg(l).direccion_base + (a - NuevaBase(l)) = Seg(l).direccion_base + k - 1
    BY <2>1, <2>2
  <2>9. QED BY <2>7, <2>8
<1>5. ASSUME NEW p \in Pids
      PROVE  Lista(tabla_segmentos'[p], memoria', swap')
             = Lista(tabla_segmentos[p], memoria, swap)
  <2>1. ASSUME NEW i \in DOMAIN tabla_segmentos[p]
        PROVE  /\ tabla_segmentos'[p][i].id_segmento = tabla_segmentos[p][i].id_segmento
               /\ tabla_segmentos'[p][i].limite = tabla_segmentos[p][i].limite
               /\ \A k \in 1 .. tabla_segmentos[p][i].limite :
                      Byte(tabla_segmentos'[p][i], k, memoria', swap')
                      = Byte(tabla_segmentos[p][i], k, memoria, swap)
    <3>1. tabla_segmentos[p][i] \in Segmento
      BY <1>1, Hechos, SegmentoTipo
    <3>2. tabla_segmentos'[p][i]
          = IF <<p, i>> \in EnRam
            THEN [tabla_segmentos[p][i] EXCEPT !.direccion_base = NuevaBase(<<p, i>>)]
            ELSE tabla_segmentos[p][i]
      BY <1>1 DEF Compactar
    <3>3. CASE tabla_segmentos[p][i].en_swap
      <4>1. tabla_segmentos'[p][i] = tabla_segmentos[p][i]
        BY <3>2, <3>3 DEF EnRam, Seg
      <4>2. QED BY <4>1, <3>3, <1>3 DEF Byte
    <3>4. CASE ~tabla_segmentos[p][i].en_swap
      <4>1. <<p, i>> \in EnRam /\ Seg(<<p, i>>) = tabla_segmentos[p][i]
        BY <3>4, <1>1, LugaresLema DEF EnRam, Seg
      <4>2. /\ tabla_segmentos'[p][i].direccion_base = NuevaBase(<<p, i>>)
            /\ ~tabla_segmentos'[p][i].en_swap
            /\ tabla_segmentos'[p][i].limite = tabla_segmentos[p][i].limite
            /\ tabla_segmentos'[p][i].id_segmento = tabla_segmentos[p][i].id_segmento
        BY <3>1, <3>2, <3>4, <4>1 DEF Segmento
      <4>3. ASSUME NEW k \in 1 .. tabla_segmentos[p][i].limite
            PROVE  Byte(tabla_segmentos'[p][i], k, memoria', swap')
                   = Byte(tabla_segmentos[p][i], k, memoria, swap)
        <5>1. memoria'[NuevaBase(<<p, i>>) + k - 1]
              = memoria[tabla_segmentos[p][i].direccion_base + k - 1]
          BY <4>1, <1>4
        <5>2. QED BY <5>1, <4>2, <3>4 DEF Byte
      <4>4. QED BY <4>2, <4>3
    <3>5. QED BY <3>3, <3>4
  <2>2. DOMAIN tabla_segmentos'[p] = DOMAIN tabla_segmentos[p]
    BY <1>1, TablaCompactada
  <2>3. QED BY <2>1, <2>2, IgualLista
<1>6. QED BY <1>3, <1>5, IgualVista

\* The blocks of a segment in SWAP are taken, and no other segment shares them.
LEMMA BloquesTomados ==
    ASSUME IInv, Espacio, NEW p \in Pids, NEW i \in DOMAIN tabla_segmentos[p],
           tabla_segmentos[p][i].en_swap
    PROVE  BloquesDe(tabla_segmentos[p][i]) \subseteq bitmap_swap
<1>1. tabla_segmentos[p][i].limite \in Nat \ {0} /\ tabla_segmentos[p][i].bloque_swap \in Nat
  BY Hechos, SegmentoTipo DEF IInv
<1>2. BloquesDe(tabla_segmentos[p][i]) \subseteq Nat
  BY <1>1, BloquesLema DEF BloquesDe
<1>3. QED BY <1>2 DEF Espacio, BloquesBien, Tomado

\* A segment moves to SWAP with its bytes, into blocks that are nobody's.
LEMMA MoverVista ==
    ASSUME IInv, Espacio, MoverSegmentoASwap
    PROVE  VistaDeProceso' = VistaDeProceso
<1> DEFINE t == tabla_segmentos
           p == hilo.pid
           i == hilo.i
           seg == t[p][i]
           n == BloquesNecesarios(seg.limite)
<1>1. /\ hilo.pc = "suspendiendo" /\ i \in DOMAIN t[p] /\ ~seg.en_swap
      /\ UNCHANGED <<contextos, memoria>>
  BY DEF MoverSegmentoASwap
<1>2. PICK b \in IniciosLibres(n) :
        /\ swap' = CopiarASwap(seg, b)
        /\ t' = [t EXCEPT ![p][i] = [seg EXCEPT !.en_swap = TRUE, !.bloque_swap = b]]
  BY DEF MoverSegmentoASwap
<1>3. p \in Pids /\ t \in Tablas /\ contextos \subseteq Pids
  BY <1>1, Hechos DEF IInv, HiloBien, TypeOK
<1>4. seg \in Segmento /\ seg.limite \in Nat \ {0} /\ seg.direccion_base \in Nat
  BY <1>1, <1>3, SegmentoTipo
<1>5. b \in Nat /\ (b .. b + n - 1) \cap bitmap_swap = {} /\ b + n <= TotalBloques
  BY DEF IniciosLibres, Bloques
<1>6. /\ BlockSize \in Nat /\ n \in Nat \ {0} /\ seg.limite <= n * BlockSize
      /\ b * BlockSize \in Nat /\ n * BlockSize \in Nat
  BY <1>4, <1>5, BloquesLema, KMAssumption DEF KMAssumption
<1> DEFINE s == [seg EXCEPT !.en_swap = TRUE, !.bloque_swap = b]
<1>7. /\ s.en_swap /\ s.bloque_swap = b /\ s.limite = seg.limite
      /\ s.id_segmento = seg.id_segmento
  BY <1>4, <1>5 DEF Segmento
<1>8. t' = [t EXCEPT ![p][i] = s]
  BY <1>2
<1> HIDE DEF s
<1>9. /\ \A q \in Pids : DOMAIN t'[q] = DOMAIN t[q]
      /\ \A q \in Pids : \A j \in DOMAIN t[q] : q # p \/ j # i => t'[q][j] = t[q][j]
      /\ t'[p][i] = s
  BY <1>1, <1>3, <1>8 DEF Tablas
<1>10. ASSUME NEW x \in BytesSwap
       PROVE  /\ x < b * BlockSize \/ b * BlockSize + n * BlockSize <= x
                     => swap'[x] = swap[x]
              /\ \A k \in 0 .. seg.limite - 1 : x = b * BlockSize + k
                     => swap'[x] = memoria[seg.direccion_base + k]
  <2>1. swap'[x] = LET k == x - b * BlockSize
                   IN  CASE k < 0 \/ k >= BloquesNecesarios(seg.limite) * BlockSize -> swap[x]
                         [] k \in 0 .. seg.limite - 1 -> memoria[seg.direccion_base + k]
                         [] OTHER -> 0
    BY <1>2 DEF CopiarASwap
  <2>2. x \in Int
    BY DEF BytesSwap
  <2> DEFINE d == x - b * BlockSize
             nb == n * BlockSize
             lim == seg.limite
             bb == b * BlockSize
  <2>3. /\ d \in Int /\ nb \in Nat /\ lim \in Nat /\ bb \in Nat /\ lim <= nb /\ d = x - bb
    BY <2>2, <1>4, <1>6
  <2>4. swap'[x] = CASE d < 0 \/ d >= nb -> swap[x]
                     [] d \in 0 .. lim - 1 -> memoria[seg.direccion_base + d]
                     [] OTHER -> 0
    BY <2>1
  <2> HIDE DEF d, nb, lim, bb, t, p, i, seg, n
  <2>5. ASSUME x < bb \/ bb + nb <= x
        PROVE  swap'[x] = swap[x]
    <3>1. (d < 0 \/ d >= nb) /\ ~(d \in 0 .. lim - 1)
      BY <2>2, <2>3, <2>5
    <3>2. QED BY <3>1, <2>4
  <2>6. ASSUME NEW k \in 0 .. lim - 1, x = bb + k
        PROVE  swap'[x] = memoria[seg.direccion_base + k]
    <3>1. d = k /\ ~(d < 0 \/ d >= nb) /\ d \in 0 .. lim - 1
      BY <2>2, <2>3, <2>6
    <3>2. QED BY <3>1, <2>4
  <2>7. QED BY <2>5, <2>6 DEF nb, lim, bb
<1>11. ASSUME NEW q \in Pids, NEW j \in DOMAIN t[q], NEW k \in 1 .. t[q][j].limite
       PROVE  Byte(t'[q][j], k, memoria', swap') = Byte(t[q][j], k, memoria, swap)
  <2>1. CASE q = p /\ j = i
    <3>1. k \in 1 .. seg.limite /\ k \in Nat /\ k - 1 \in 0 .. seg.limite - 1
      BY <2>1, <1>4
    <3>2. b * BlockSize + (k - 1) \in BytesSwap
      BY <3>1, <1>4, <1>5, ByteEnSwap
    <3>3. /\ b * BlockSize + (k - 1) = b * BlockSize + k - 1
          /\ seg.direccion_base + (k - 1) = seg.direccion_base + k - 1
      BY <3>1, <1>4, <1>6
    <3>4. swap'[b * BlockSize + (k - 1)] = memoria[seg.direccion_base + (k - 1)]
      BY <3>1, <3>2, <1>10
    <3>5. swap'[b * BlockSize + k - 1] = memoria[seg.direccion_base + k - 1]
      BY <3>3, <3>4
    <3>6. QED BY <2>1, <3>5, <1>1, <1>7, <1>9 DEF Byte
  <2>2. CASE (q # p \/ j # i) /\ ~t[q][j].en_swap
    BY <2>2, <1>1, <1>9 DEF Byte
  <2>3. CASE (q # p \/ j # i) /\ t[q][j].en_swap
    <3> DEFINE o == t[q][j]
               c == o.bloque_swap
               m == BloquesNecesarios(o.limite)
    <3>1. /\ o.limite \in Nat \ {0} /\ c \in Nat
          /\ o.bloque_swap * BlockSize + k - 1 \in BytesSwap
          /\ k - 1 < BloquesNecesarios(o.limite) * BlockSize
      BY <2>3, ByteLugar
    <3>2. m \in Nat \ {0}
      BY <3>1, BloquesLema
    <3>3. BloquesDe(o) \subseteq bitmap_swap
      BY <2>3, BloquesTomados
    <3>4. (b .. b + n - 1) \cap (c .. c + m - 1) = {}
      BY <3>3, <1>5 DEF BloquesDe
    <3>5. k - 1 \in Nat /\ k - 1 < m * BlockSize
      BY <3>1
    <3>6. \/ c * BlockSize + (k - 1) < b * BlockSize
          \/ b * BlockSize + n * BlockSize <= c * BlockSize + (k - 1)
      <4> HIDE DEF o, c, m, n
      <4>1. QED BY <3>1, <3>2, <3>4, <3>5, <1>5, <1>6, BloquesAparte
    <3>7. c * BlockSize + (k - 1) = c * BlockSize + k - 1
      BY <3>1, <1>6
    <3>8. swap'[c * BlockSize + k - 1] = swap[c * BlockSize + k - 1]
      BY <3>1, <3>6, <3>7, <1>10
    <3>9. QED BY <2>3, <3>8, <1>9 DEF Byte
  <2>4. QED BY <2>1, <2>2, <2>3
<1>12. ASSUME NEW q \in Pids
       PROVE  Lista(t'[q], memoria', swap') = Lista(t[q], memoria, swap)
  <2>1. ASSUME NEW j \in DOMAIN t[q]
        PROVE  /\ t'[q][j].id_segmento = t[q][j].id_segmento
               /\ t'[q][j].limite = t[q][j].limite
    <3>1. CASE q = p /\ j = i
      BY <3>1, <1>7, <1>9
    <3>2. CASE q # p \/ j # i
      BY <3>2, <1>9
    <3>3. QED BY <3>1, <3>2
  <2>2. DOMAIN t'[q] = DOMAIN t[q]
    BY <1>9
  <2> HIDE DEF t
  <2>3. QED BY <2>1, <2>2, <1>11, IgualLista
<1>13. QED BY <1>1, <1>3, <1>12, IgualVista

\* A segment comes back from SWAP with its bytes, into a hole: no byte of another
\* segment is there.
LEMMA RestaurarVista ==
    ASSUME IInv, RestaurarSegmento
    PROVE  VistaDeProceso' = VistaDeProceso
<1> DEFINE t == tabla_segmentos
           p == hilo.pid
           i == hilo.i
           seg == t[p][i]
<1>1. /\ hilo.pc = "desuspendiendo" /\ i \in DOMAIN t[p] /\ seg.en_swap
      /\ UNCHANGED <<contextos, swap>>
  BY DEF RestaurarSegmento
<1>2. PICK h \in HuecosElegibles(seg.limite) :
        /\ memoria' = CopiarARam(seg, h.base)
        /\ t' = [t EXCEPT ![p][i] = [seg EXCEPT !.en_swap = FALSE,
                                        !.direccion_base = h.base, !.bloque_swap = 0]]
  BY DEF RestaurarSegmento
<1>3. p \in Pids /\ t \in Tablas /\ contextos \subseteq Pids
  BY <1>1, Hechos DEF IInv, HiloBien, TypeOK
<1>4. seg \in Segmento /\ seg.limite \in Nat \ {0} /\ seg.bloque_swap \in Nat
  BY <1>1, <1>3, SegmentoTipo
<1>5. /\ h \in lista_huecos_libres
      /\ h.base \in Nat /\ h.tam \in Nat /\ seg.limite <= h.tam
  BY <1>4, Hechos DEF IInv, HuecosElegibles, HuecosValidos, Hueco
<1>6. /\ Apartados(lista_huecos_libres, t)
      /\ h.base + h.tam <= memoria_total_sistema
      /\ memoria_total_sistema \in Nat /\ memoria_total_sistema <= MemoriaMaxima
      /\ MemoriaMaxima \in Nat /\ BlockSize \in Nat
  BY <1>5, Hechos, KMAssumption DEF IInv, MemoriaSana, Sano, HuecosBajo, KMAssumption
<1> DEFINE s == [seg EXCEPT !.en_swap = FALSE, !.direccion_base = h.base,
                            !.bloque_swap = 0]
<1>7. /\ s.direccion_base = h.base /\ s.id_segmento = seg.id_segmento
      /\ s.limite = seg.limite /\ ~s.en_swap
  BY <1>4, <1>5 DEF Segmento
<1>8. t' = [t EXCEPT ![p][i] = s]
  BY <1>2
<1> HIDE DEF s
<1>9. /\ \A q \in Pids : DOMAIN t'[q] = DOMAIN t[q]
      /\ \A q \in Pids : \A j \in DOMAIN t[q] : q # p \/ j # i => t'[q][j] = t[q][j]
      /\ t'[p][i] = s
  BY <1>1, <1>3, <1>8 DEF Tablas
<1>10. ASSUME NEW a \in Direcciones
       PROVE  memoria'[a] = IF a \in h.base .. h.base + seg.limite - 1
                            THEN swap[seg.bloque_swap * BlockSize + (a - h.base)]
                            ELSE memoria[a]
  BY <1>2 DEF CopiarARam
<1>11. ASSUME NEW q \in Pids, NEW j \in DOMAIN t[q], NEW k \in 1 .. t[q][j].limite
       PROVE  Byte(t'[q][j], k, memoria', swap') = Byte(t[q][j], k, memoria, swap)
  <2>1. CASE q = p /\ j = i
    <3>1. k \in Nat /\ k >= 1 /\ k <= seg.limite
      BY <2>1, <1>4
    <3>2. /\ h.base + k - 1 \in Direcciones
          /\ h.base + k - 1 \in h.base .. h.base + seg.limite - 1
      BY <3>1, <1>4, <1>5, <1>6 DEF Direcciones
    <3>3. seg.bloque_swap * BlockSize \in Nat
      BY <1>4, <1>6
    <3>4. seg.bloque_swap * BlockSize + ((h.base + k - 1) - h.base)
          = seg.bloque_swap * BlockSize + k - 1
      BY <3>1, <3>3, <1>5
    <3>5. memoria'[h.base + k - 1] = swap[seg.bloque_swap * BlockSize + k - 1]
      BY <3>2, <3>4, <1>10
    <3>6. QED BY <2>1, <3>5, <1>1, <1>7, <1>9 DEF Byte
  <2>2. CASE (q # p \/ j # i) /\ t[q][j].en_swap
    BY <2>2, <1>1, <1>9 DEF Byte
  <2>3. CASE (q # p \/ j # i) /\ ~t[q][j].en_swap
    <3> DEFINE o == t[q][j]
    <3>1. /\ o.direccion_base \in Nat /\ o.limite \in Nat
          /\ o.direccion_base + k - 1 \in Direcciones
      BY ByteLugar
    <3>2. Disjuntos(h.base, h.tam, o.direccion_base, o.limite)
      BY <2>3, <1>5, <1>6 DEF Apartados, Lejos
    <3>3. k \in 1 .. o.limite
      OBVIOUS
    <3> HIDE DEF o
    <3>4. ~(o.direccion_base + k - 1 \in h.base .. h.base + seg.limite - 1)
      BY <3>1, <3>2, <3>3, <1>4, <1>5 DEF Disjuntos
    <3>5. memoria'[o.direccion_base + k - 1] = memoria[o.direccion_base + k - 1]
      BY <3>1, <3>4, <1>10
    <3>6. QED BY <2>3, <3>5, <1>9 DEF Byte, o
  <2>4. QED BY <2>1, <2>2, <2>3
<1>12. ASSUME NEW q \in Pids
       PROVE  Lista(t'[q], memoria', swap') = Lista(t[q], memoria, swap)
  <2>1. ASSUME NEW j \in DOMAIN t[q]
        PROVE  /\ t'[q][j].id_segmento = t[q][j].id_segmento
               /\ t'[q][j].limite = t[q][j].limite
    <3>1. CASE q = p /\ j = i
      BY <3>1, <1>7, <1>9
    <3>2. CASE q # p \/ j # i
      BY <3>2, <1>9
    <3>3. QED BY <3>1, <3>2
  <2>2. DOMAIN t'[q] = DOMAIN t[q]
    BY <1>9
  <2> HIDE DEF t
  <2>3. QED BY <2>1, <2>2, <1>11, IgualLista
<1>13. QED BY <1>1, <1>3, <1>12, IgualVista

\* The segments of a process that ended are nobody's to see.
LEMMA FinalizarVista ==
    ASSUME IInv, Acuerdo, LiberarSegmentoFinalizado
    PROVE  VistaDeProceso' = VistaDeProceso
<1>1. /\ UNCHANGED <<contextos, memoria, swap>> /\ hilo.pc = "finalizando"
      /\ tabla_segmentos' = [tabla_segmentos EXCEPT ![hilo.pid] =
                                Tail(tabla_segmentos[hilo.pid])]
  BY DEF LiberarSegmentoFinalizado
<1>2. hilo.pid \notin contextos
  BY <1>1 DEF Acuerdo
<1>3. \A q \in contextos : tabla_segmentos'[q] = tabla_segmentos[q]
  BY <1>1, <1>2, Hechos DEF IInv, TypeOK, Tablas
<1>4. QED BY <1>1, <1>3, IgualVista

-----------------------------------------------------------------------------
(* Steps of the abstract memory. *)

\* Two bytes of different segments, or two bytes of one, are never the same byte of
\* a stick, nor of SWAP.
LEMMA BytesAparte ==
    ASSUME IInv, Espacio,
           NEW p \in Pids, NEW i \in DOMAIN tabla_segmentos[p],
           NEW q \in Pids, NEW j \in DOMAIN tabla_segmentos[q],
           NEW k \in 1 .. tabla_segmentos[p][i].limite,
           NEW m \in 1 .. tabla_segmentos[q][j].limite,
           p # q \/ i # j
    PROVE  LET s == tabla_segmentos[p][i]
               o == tabla_segmentos[q][j]
           IN  /\ ~s.en_swap /\ ~o.en_swap =>
                      s.direccion_base + k - 1 # o.direccion_base + m - 1
               /\ s.en_swap /\ o.en_swap =>
                      s.bloque_swap * BlockSize + k - 1 # o.bloque_swap * BlockSize + m - 1
<1> DEFINE s == tabla_segmentos[p][i]
           o == tabla_segmentos[q][j]
           n == BloquesNecesarios(s.limite)
           w == BloquesNecesarios(o.limite)
<1>1. /\ s.limite \in Nat \ {0} /\ s.direccion_base \in Nat /\ s.bloque_swap \in Nat
      /\ s.en_swap => k - 1 < n * BlockSize
  BY ByteLugar
<1>2. /\ o.limite \in Nat \ {0} /\ o.direccion_base \in Nat /\ o.bloque_swap \in Nat
      /\ o.en_swap => m - 1 < w * BlockSize
  BY ByteLugar
<1>3. k \in 1 .. s.limite /\ m \in 1 .. o.limite
  OBVIOUS
<1>4. ~s.en_swap /\ ~o.en_swap =>
          Disjuntos(s.direccion_base, s.limite, o.direccion_base, o.limite)
  BY DEF IInv, MemoriaSana, Sano, SegsDisj
<1>5. s.en_swap /\ o.en_swap => BloquesDe(s) \cap BloquesDe(o) = {}
  BY DEF Espacio, BloquesBien, BloquesDisj
<1>6. /\ n \in Nat \ {0} /\ w \in Nat \ {0} /\ BlockSize \in Nat
  BY <1>1, <1>2, BloquesLema, KMAssumption DEF KMAssumption
<1>7. BloquesDe(s) = s.bloque_swap .. s.bloque_swap + n - 1
  BY DEF BloquesDe
<1>8. BloquesDe(o) = o.bloque_swap .. o.bloque_swap + w - 1
  BY DEF BloquesDe
<1> HIDE DEF s, o, n, w
<1>9. ASSUME ~s.en_swap, ~o.en_swap
      PROVE  s.direccion_base + k - 1 # o.direccion_base + m - 1
  BY <1>1, <1>2, <1>3, <1>4, <1>9 DEF Disjuntos
<1>10. ASSUME s.en_swap, o.en_swap
       PROVE  s.bloque_swap * BlockSize + k - 1 # o.bloque_swap * BlockSize + m - 1
  <2> DEFINE b == s.bloque_swap
             c == o.bloque_swap
  <2>1. b \in Nat /\ c \in Nat /\ (b .. b + n - 1) \cap (c .. c + w - 1) = {}
    BY <1>1, <1>2, <1>5, <1>7, <1>8, <1>10
  <2>2. /\ k - 1 \in Nat /\ k - 1 < n * BlockSize
        /\ m - 1 \in Nat /\ m - 1 < w * BlockSize
    BY <1>1, <1>2, <1>3, <1>10
  <2> HIDE DEF b, c
  <2>3. \/ c * BlockSize + (m - 1) < b * BlockSize
        \/ b * BlockSize + n * BlockSize <= c * BlockSize + (m - 1)
    BY <2>1, <2>2, <1>6, BloquesAparte
  <2>4. b * BlockSize \in Nat /\ c * BlockSize \in Nat /\ n * BlockSize \in Nat
    BY <2>1, <1>6
  <2>5. b * BlockSize + k - 1 # c * BlockSize + m - 1
    <3> DEFINE bb == b * BlockSize
               cc == c * BlockSize
               nn == n * BlockSize
    <3>1. /\ bb \in Nat /\ cc \in Nat /\ nn \in Nat
          /\ k - 1 < nn
          /\ cc + (m - 1) < bb \/ bb + nn <= cc + (m - 1)
      BY <2>2, <2>3, <2>4
    <3>2. k \in Int /\ m \in Int /\ k >= 1 /\ m >= 1
      BY <1>1, <1>2, <1>3
    <3> HIDE DEF bb, cc, nn
    <3>3. bb + k - 1 # cc + m - 1
      BY <3>1, <3>2
    <3>4. QED BY <3>3 DEF bb, cc
  <2>6. QED BY <2>5 DEF b, c
<1>11. QED BY <1>9, <1>10 DEF s, o

\* MOV_OUT, COPY_MEM, STDIN: when the bytes desde .. hasta of one segment become v and
\* every other byte of every segment stays, the process has written its memory.
LEMMA EscribirVista ==
    ASSUME IInv, NEW p \in contextos, p \notin Quietos,
           NEW i \in DOMAIN tabla_segmentos[p], NEW v \in Valores,
           NEW desde \in 1 .. tabla_segmentos[p][i].limite,
           NEW hasta \in 1 .. tabla_segmentos[p][i].limite,
           UNCHANGED <<tabla_segmentos, contextos>>,
           \A q \in contextos : \A j \in DOMAIN tabla_segmentos[q] :
               \A k \in 1 .. tabla_segmentos[q][j].limite :
                   Byte(tabla_segmentos[q][j], k, memoria', swap')
                   = IF q = p /\ j = i /\ k \in desde .. hasta THEN v
                     ELSE Byte(tabla_segmentos[q][j], k, memoria, swap)
    PROVE  Abstracta!Escribir(p)
<1> DEFINE t == tabla_segmentos
           P == VistaDeProceso
           seg == t[p][i]
           W == [k \in DOMAIN P[p][i].bytes |->
                    IF k \in desde .. hasta THEN v ELSE P[p][i].bytes[k]]
<1>1. contextos \subseteq Pids /\ t \in Tablas
  BY Hechos DEF IInv, TypeOK
<1>2. /\ P = [q \in Pids |-> IF q \in contextos THEN Lista(t[q], memoria, swap) ELSE <<>>]
      /\ P' = [q \in Pids |-> IF q \in contextos THEN Lista(t[q], memoria', swap') ELSE <<>>]
  BY VistaLema DEF Vista
<1>3. P[p] = Lista(t[p], memoria, swap)
  BY <1>1, <1>2
<1>4. DOMAIN P[p] = DOMAIN t[p] /\ P[p][i] = Pieza(seg, memoria, swap)
  BY <1>3 DEF Lista
<1>5. P[p][i] = [id |-> seg.id_segmento, bytes |-> Bytes(seg, memoria, swap)]
  BY <1>4 DEF Pieza
<1>6. /\ P[p][i].bytes = Bytes(seg, memoria, swap)
      /\ DOMAIN P[p][i].bytes = 1 .. seg.limite
  BY <1>5 DEF Bytes
<1>7. Bytes(seg, memoria', swap') = W
  <2>1. \A k \in 1 .. seg.limite :
            Byte(seg, k, memoria', swap')
            = IF k \in desde .. hasta THEN v ELSE Byte(seg, k, memoria, swap)
    OBVIOUS
  <2>2. \A k \in 1 .. seg.limite : P[p][i].bytes[k] = Byte(seg, k, memoria, swap)
    BY <1>6 DEF Bytes
  <2>3. W = [k \in 1 .. seg.limite |->
                IF k \in desde .. hasta THEN v ELSE P[p][i].bytes[k]]
    BY <1>6
  <2> HIDE DEF W, P, seg
  <2>4. QED BY <2>1, <2>2, <2>3 DEF Bytes
<1>8. Pieza(seg, memoria', swap') = [P[p][i] EXCEPT !.bytes = W]
  BY <1>5, <1>7 DEF Pieza
<1>9. ASSUME NEW j \in DOMAIN t[p]
      PROVE  Lista(t[p], memoria', swap')[j]
             = IF j = i THEN [P[p][i] EXCEPT !.bytes = W] ELSE P[p][j]
  <2>1. Lista(t[p], memoria', swap')[j] = Pieza(t[p][j], memoria', swap')
    BY DEF Lista
  <2>2. CASE j = i
    BY <2>1, <2>2, <1>8
  <2>3. CASE j # i
    <3>1. Bytes(t[p][j], memoria', swap') = Bytes(t[p][j], memoria, swap)
      BY <2>3 DEF Bytes
    <3>2. P[p][j] = Pieza(t[p][j], memoria, swap)
      BY <1>3 DEF Lista
    <3>3. QED BY <2>1, <2>3, <3>1, <3>2 DEF Pieza
  <2>4. QED BY <2>2, <2>3
<1>10. Lista(t[p], memoria', swap')
       = [P[p] EXCEPT ![i] = [P[p][i] EXCEPT !.bytes = W]]
  <2> DEFINE X == [P[p][i] EXCEPT !.bytes = W]
             L == Lista(t[p], memoria', swap')
             M == P[p]
             D == DOMAIN t[p]
  <2>1. L = [j \in D |-> L[j]] /\ M = [j \in D |-> M[j]]
    BY <1>3 DEF Lista
  <2>2. \A j \in D : L[j] = IF j = i THEN X ELSE M[j]
    BY <1>9
  <2> HIDE DEF X, L, M, D
  <2>3. L = [M EXCEPT ![i] = X]
    BY <2>1, <2>2
  <2>4. QED BY <2>3 DEF X, L, M
<1>11. ASSUME NEW q \in contextos, q # p
       PROVE  Lista(t[q], memoria', swap') = Lista(t[q], memoria, swap)
  <2>1. \A j \in DOMAIN t[q] :
          /\ t[q][j].id_segmento = t[q][j].id_segmento /\ t[q][j].limite = t[q][j].limite
          /\ \A k \in 1 .. t[q][j].limite :
               Byte(t[q][j], k, memoria', swap') = Byte(t[q][j], k, memoria, swap)
    BY <1>11
  <2> HIDE DEF t
  <2>2. QED BY <2>1, IgualLista
<1>12. P' = [P EXCEPT ![p] = [P[p] EXCEPT ![i] = [P[p][i] EXCEPT !.bytes = W]]]
  <2> DEFINE N == [P[p] EXCEPT ![i] = [P[p][i] EXCEPT !.bytes = W]]
  <2>1. \A q \in Pids :
          (IF q \in contextos THEN Lista(t[q], memoria', swap') ELSE <<>>)
          = IF q = p THEN N
            ELSE IF q \in contextos THEN Lista(t[q], memoria, swap) ELSE <<>>
    BY <1>10, <1>11
  <2> HIDE DEF N, t
  <2>2. P' = [q \in Pids |-> IF q = p THEN N ELSE P[q]]
    BY <1>2, <2>1
  <2>3. P = [q \in Pids |-> P[q]] /\ p \in Pids
    BY <1>1, <1>2
  <2>4. P' = [P EXCEPT ![p] = N]
    <3> HIDE DEF P
    <3>1. QED BY <2>2, <2>3
  <2>5. QED BY <2>4 DEF N
<1>13. i \in DOMAIN P[p] /\ desde \in DOMAIN P[p][i].bytes /\ hasta \in DOMAIN P[p][i].bytes
  BY <1>4, <1>6
<1>14. P' = [P EXCEPT ![p][i].bytes =
               [k \in DOMAIN @ |-> IF k \in desde .. hasta THEN v ELSE @[k]]]
  BY <1>12
<1>15. p \notin Quietos /\ v \in Valores
  OBVIOUS
<1> DEFINE Escrito(f, u, a, z) ==
             P' = [P EXCEPT ![p][f].bytes =
                      [k \in DOMAIN @ |-> IF k \in a .. z THEN u ELSE @[k]]]
<1>16. Escrito(i, v, desde, hasta)
  BY <1>14
<1> HIDE DEF Escrito, P
<1>17. \E f \in DOMAIN P[p], u \in Valores :
         \E a, z \in DOMAIN P[p][f].bytes : Escrito(f, u, a, z)
  BY <1>13, <1>15, <1>16
<1>18. QED BY <1>15, <1>17 DEF Abstracta!Escribir, Escrito, P

\* A process writes one byte of a segment of its own, all of which are in RAM.
LEMMA EscribirCPUVista ==
    ASSUME IInv, Espacio, Acuerdo, NEW p \in Pids, TodoEnRam(p),
           NEW i \in 1 .. MaxSegmentos, NEW k \in 0 .. SEGMENT_MAX_SIZE - 1,
           NEW v \in Valores, EscribirCPU(p, i, k, v)
    PROVE  Abstracta!Escribir(p)
<1> DEFINE t == tabla_segmentos
           seg == t[p][i]
<1>1. /\ estado[p] = "residente" /\ hilo.pc # "compactar" /\ hilo.pid # p
      /\ i \in DOMAIN t[p] /\ k < seg.limite
      /\ memoria' = [memoria EXCEPT ![seg.direccion_base + k] = v]
      /\ UNCHANGED <<tabla_segmentos, contextos, swap>>
  BY DEF EscribirCPU
<1>2. p \in contextos /\ contextos \subseteq Pids
  BY <1>1 DEF Acuerdo
<1>3. p \notin Quietos
  BY <1>1 DEF Quietos
<1>4. /\ seg.limite \in Nat \ {0} /\ seg.limite \in 1 .. SEGMENT_MAX_SIZE
      /\ seg.direccion_base \in Nat /\ ~seg.en_swap
  BY <1>1, Hechos, SegmentoTipo DEF IInv, TodoEnRam
<1>5. k \in Nat /\ k + 1 \in 1 .. seg.limite
  BY <1>1, <1>4
<1>6. memoria \in [Direcciones -> Valores]
  BY DEF IInv, TypeOK
<1>7. ASSUME NEW q \in contextos, NEW j \in DOMAIN t[q], NEW m \in 1 .. t[q][j].limite
      PROVE  Byte(t[q][j], m, memoria', swap')
             = IF q = p /\ j = i /\ m \in k + 1 .. k + 1 THEN v
               ELSE Byte(t[q][j], m, memoria, swap)
  <2> DEFINE o == t[q][j]
  <2>1. CASE o.en_swap
    <3>1. ~(q = p /\ j = i)
      BY <2>1, <1>4
    <3>2. QED BY <2>1, <3>1, <1>1 DEF Byte
  <2>2. CASE ~o.en_swap
    <3>1. o.direccion_base \in Nat /\ o.direccion_base + m - 1 \in Direcciones
      BY <1>2, ByteLugar
    <3>2. Byte(o, m, memoria', swap') = memoria'[o.direccion_base + m - 1]
      BY <2>2 DEF Byte
    <3>3. Byte(o, m, memoria, swap) = memoria[o.direccion_base + m - 1]
      BY <2>2 DEF Byte
    <3>4. memoria'[o.direccion_base + m - 1]
          = IF o.direccion_base + m - 1 = seg.direccion_base + k THEN v
            ELSE memoria[o.direccion_base + m - 1]
      BY <3>1, <1>1, <1>6
    <3>5. CASE q = p /\ j = i
      <4>1. m \in Nat /\ o.direccion_base = seg.direccion_base
        BY <3>5, <1>4
      <4>2. o.direccion_base + m - 1 = seg.direccion_base + k <=> m \in k + 1 .. k + 1
        BY <4>1, <1>4, <1>5
      <4>3. QED BY <4>2, <3>2, <3>3, <3>4, <3>5
    <3>6. CASE q # p \/ j # i
      <4>1. q \in Pids
        BY <1>2
      <4>2. seg.direccion_base + (k + 1) - 1 # o.direccion_base + m - 1
        BY <4>1, <3>6, <1>1, <1>4, <1>5, <2>2, BytesAparte
      <4>3. seg.direccion_base + (k + 1) - 1 = seg.direccion_base + k
        BY <1>4, <1>5
      <4>4. QED BY <4>2, <4>3, <3>2, <3>3, <3>4, <3>6
    <3>7. QED BY <3>5, <3>6
  <2>3. QED BY <2>1, <2>2
<1> DEFINE d == k + 1
<1>8. /\ d \in 1 .. tabla_segmentos[p][i].limite
      /\ \A q \in contextos : \A j \in DOMAIN t[q] : \A m \in 1 .. t[q][j].limite :
             Byte(t[q][j], m, memoria', swap')
             = IF q = p /\ j = i /\ m \in d .. d THEN v
               ELSE Byte(t[q][j], m, memoria, swap)
  BY <1>5, <1>7
<1>9. i \in DOMAIN tabla_segmentos[p] /\ UNCHANGED <<tabla_segmentos, contextos>>
  BY <1>1
<1> HIDE DEF d
<1>10. QED
  BY <1>2, <1>3, <1>8, <1>9, EscribirVista

\* The n bytes of an STDIN from offset k on, in SWAP or in RAM.
LEMMA EscrituraMemoriaVista ==
    ASSUME IInv, Espacio, Acuerdo, NEW p \in Pids, NEW id \in Ids,
           NEW k \in 0 .. SEGMENT_MAX_SIZE - 1, NEW n \in 1 .. SEGMENT_MAX_SIZE,
           NEW v \in Valores, EscrituraMemoria(p, id, k, n, v)
    PROVE  Abstracta!Escribir(p)
<1> DEFINE t == tabla_segmentos
<1>1. /\ hilo.pc = "libre" /\ p \in contextos
      /\ UNCHANGED <<tabla_segmentos, contextos>>
  BY DEF EscrituraMemoria, Libre
<1>2. PICK i \in PrimerIndice(p, id) :
        /\ k + n <= t[p][i].limite
        /\ \/ /\ t[p][i].en_swap
              /\ swap' = [x \in BytesSwap |->
                    IF x - t[p][i].bloque_swap * BlockSize \in k .. k + n - 1
                    THEN v ELSE swap[x]]
              /\ UNCHANGED memoria
           \/ /\ ~t[p][i].en_swap
              /\ memoria' = [a \in Direcciones |->
                    IF a - t[p][i].direccion_base \in k .. k + n - 1
                    THEN v ELSE memoria[a]]
              /\ UNCHANGED swap
  BY DEF EscrituraMemoria
<1> DEFINE seg == t[p][i]
<1>3. contextos \subseteq Pids /\ p \notin Quietos
  BY <1>1, KMAssumption DEF Acuerdo, Quietos, KMAssumption
<1>4. i \in DOMAIN t[p]
  BY DEF PrimerIndice
<1>5. /\ seg.limite \in Nat \ {0} /\ seg.limite \in 1 .. SEGMENT_MAX_SIZE
      /\ seg.direccion_base \in Nat /\ seg.bloque_swap \in Nat
      /\ seg.bloque_swap * BlockSize \in Nat
  BY <1>4, Hechos, SegmentoTipo, KMAssumption DEF IInv, KMAssumption
<1>6. /\ k \in Nat /\ n \in Nat \ {0}
      /\ k + 1 \in 1 .. seg.limite /\ k + n \in 1 .. seg.limite
  BY <1>2, <1>5
<1>7. ASSUME NEW q \in contextos, NEW j \in DOMAIN t[q], NEW m \in 1 .. t[q][j].limite
      PROVE  Byte(t[q][j], m, memoria', swap')
             = IF q = p /\ j = i /\ m \in k + 1 .. k + n THEN v
               ELSE Byte(t[q][j], m, memoria, swap)
  <2> DEFINE o == t[q][j]
  <2>1. /\ q \in Pids
        /\ o.direccion_base \in Nat /\ o.direccion_base + m - 1 \in Direcciones
        /\ o.limite \in Nat /\ m \in 1 .. o.limite
        /\ o.en_swap => o.bloque_swap * BlockSize + m - 1 \in BytesSwap
    <3>1. q \in Pids
      BY <1>3
    <3>2. QED BY <3>1, ByteLugar
  <2>2. m \in Nat
    BY <2>1
  <2>3. CASE seg.en_swap
    <3>1. /\ memoria' = memoria
          /\ \A x \in BytesSwap :
               swap'[x] = IF x - seg.bloque_swap * BlockSize \in k .. k + n - 1
                          THEN v ELSE swap[x]
      BY <2>3, <1>2
    <3>2. CASE ~o.en_swap
      <4>1. ~(q = p /\ j = i)
        BY <3>2, <2>3
      <4>2. QED BY <3>1, <3>2, <4>1 DEF Byte
    <3>3. CASE o.en_swap
      <4> DEFINE x == o.bloque_swap * BlockSize + m - 1
                 bb == seg.bloque_swap * BlockSize
      <4>1. x \in BytesSwap
        BY <2>1, <3>3
      <4>2. /\ Byte(o, m, memoria', swap') = swap'[x]
            /\ Byte(o, m, memoria, swap) = swap[x]
        BY <3>3 DEF Byte
      <4>3. swap'[x] = IF x - bb \in k .. k + n - 1 THEN v ELSE swap[x]
        BY <3>1, <4>1
      <4>4. bb \in Nat /\ x \in Int
        BY <1>5, <4>1 DEF BytesSwap
      <4>5. CASE q = p /\ j = i
        <5>1. x = bb + m - 1
          BY <4>5
        <5> HIDE DEF x, bb, o, seg
        <5>2. x - bb \in k .. k + n - 1 <=> m \in k + 1 .. k + n
          BY <5>1, <4>4, <2>2, <1>6
        <5>3. QED BY <5>2, <4>2, <4>3, <4>5 DEF o
      <4>6. CASE q # p \/ j # i
        <5>1. ASSUME x - bb \in k .. k + n - 1 PROVE FALSE
          <6> DEFINE m2 == x - bb + 1
          <6>1. m2 \in 1 .. seg.limite /\ m2 \in Nat
            <7> HIDE DEF x, bb, seg
            <7>1. QED BY <5>1, <4>4, <1>2, <1>5, <1>6 DEF seg
          <6>2. bb + m2 - 1 = x
            <7> HIDE DEF x, bb
            <7>1. QED BY <4>4
          <6> HIDE DEF m2
          <6>3. seg.bloque_swap * BlockSize + m2 - 1 # o.bloque_swap * BlockSize + m - 1
            BY <6>1, <4>6, <2>1, <2>3, <3>3, <1>4, BytesAparte
          <6>4. QED BY <6>2, <6>3
        <5>2. QED BY <5>1, <4>2, <4>3, <4>6
      <4>7. QED BY <4>5, <4>6
    <3>4. QED BY <3>2, <3>3
  <2>4. CASE ~seg.en_swap
    <3>1. /\ swap' = swap
          /\ \A a \in Direcciones :
               memoria'[a] = IF a - seg.direccion_base \in k .. k + n - 1
                             THEN v ELSE memoria[a]
      BY <2>4, <1>2
    <3>2. CASE o.en_swap
      <4>1. ~(q = p /\ j = i)
        BY <3>2, <2>4
      <4>2. QED BY <3>1, <3>2, <4>1 DEF Byte
    <3>3. CASE ~o.en_swap
      <4> DEFINE a == o.direccion_base + m - 1
                 bb == seg.direccion_base
      <4>1. a \in Direcciones
        BY <2>1
      <4>2. /\ Byte(o, m, memoria', swap') = memoria'[a]
            /\ Byte(o, m, memoria, swap) = memoria[a]
        BY <3>3 DEF Byte
      <4>3. memoria'[a] = IF a - bb \in k .. k + n - 1 THEN v ELSE memoria[a]
        BY <3>1, <4>1
      <4>4. bb \in Nat /\ a \in Int
        BY <1>5, <4>1 DEF Direcciones
      <4>5. CASE q = p /\ j = i
        <5>1. a = bb + m - 1
          BY <4>5
        <5> HIDE DEF a, bb, o, seg
        <5>2. a - bb \in k .. k + n - 1 <=> m \in k + 1 .. k + n
          BY <5>1, <4>4, <2>2, <1>6
        <5>3. QED BY <5>2, <4>2, <4>3, <4>5 DEF o
      <4>6. CASE q # p \/ j # i
        <5>1. ASSUME a - bb \in k .. k + n - 1 PROVE FALSE
          <6> DEFINE m2 == a - bb + 1
          <6>1. m2 \in 1 .. seg.limite /\ m2 \in Nat
            <7> HIDE DEF a, bb, seg
            <7>1. QED BY <5>1, <4>4, <1>2, <1>5, <1>6 DEF seg
          <6>2. bb + m2 - 1 = a
            <7> HIDE DEF a, bb
            <7>1. QED BY <4>4
          <6> HIDE DEF m2
          <6>3. seg.direccion_base + m2 - 1 # o.direccion_base + m - 1
            BY <6>1, <4>6, <2>1, <2>4, <3>3, <1>4, BytesAparte
          <6>4. QED BY <6>2, <6>3
        <5>2. QED BY <5>1, <4>2, <4>3, <4>6
      <4>7. QED BY <4>5, <4>6
    <3>4. QED BY <3>2, <3>3
  <2>5. QED BY <2>3, <2>4
<1>8. QED
  BY <1>1, <1>3, <1>4, <1>6, <1>7, EscribirVista

\* EXIT: the process has no memory any more.
LEMMA FinalizacionVista ==
    ASSUME IInv, NEW p \in Pids, PedirFinalizacion(p)
    PROVE  Abstracta!Finalizar(p)
<1>1. /\ UNCHANGED <<tabla_segmentos, memoria, swap>> /\ contextos' = contextos \ {p}
  BY DEF PedirFinalizacion
<1>2. /\ VistaDeProceso
         = [q \in Pids |-> IF q \in contextos
                           THEN Lista(tabla_segmentos[q], memoria, swap) ELSE <<>>]
      /\ VistaDeProceso'
         = [q \in Pids |-> IF q \in contextos'
                           THEN Lista(tabla_segmentos[q], memoria, swap) ELSE <<>>]
  BY <1>1, VistaLema DEF Vista
<1>3. VistaDeProceso' = [VistaDeProceso EXCEPT ![p] = <<>>]
  BY <1>1, <1>2
<1>4. QED BY <1>3 DEF Abstracta!Finalizar

\* A step that changes the table of one process, and no byte, changes its list only.
LEMMA CambiarTabla ==
    ASSUME IInv, NEW p \in contextos, NEW r,
           tabla_segmentos' = [tabla_segmentos EXCEPT ![p] = r],
           UNCHANGED <<contextos, memoria, swap>>
    PROVE  /\ VistaDeProceso[p] = Lista(tabla_segmentos[p], memoria, swap)
           /\ VistaDeProceso' = [VistaDeProceso EXCEPT ![p] = Lista(r, memoria, swap)]
<1> DEFINE t == tabla_segmentos
           P == VistaDeProceso
           L == Lista(r, memoria, swap)
<1>1. p \in Pids /\ \A q \in Pids : t'[q] = IF q = p THEN r ELSE t[q]
  BY Hechos DEF IInv, TypeOK, Tablas
<1>2. P = [q \in Pids |-> IF q \in contextos THEN Lista(t[q], memoria, swap) ELSE <<>>]
  BY VistaLema DEF Vista
<1>3. P' = [q \in Pids |-> IF q \in contextos THEN Lista(t'[q], memoria, swap) ELSE <<>>]
  BY VistaLema DEF Vista
<1>4. P' = [q \in Pids |-> IF q = p THEN L ELSE P[q]]
  BY <1>1, <1>2, <1>3
<1>5. P[p] = Lista(t[p], memoria, swap)
  BY <1>1, <1>2
<1>6. P = [q \in Pids |-> P[q]]
  BY <1>2
<1> HIDE DEF P, L
<1>7. P' = [P EXCEPT ![p] = L]
  BY <1>1, <1>4, <1>6
<1>8. QED BY <1>5, <1>7 DEF P, L

\* MEM_ALLOC: the new segment goes to the end of the list.
LEMMA CrearSegmentoVista ==
    ASSUME IInv, Acuerdo, CrearSegmento
    PROVE  \E p \in Pids : Abstracta!Reservar(p)
<1> DEFINE t == tabla_segmentos
           p == hilo.pid
           n == Len(t[p])
           s(h) == [id_segmento |-> hilo.id, direccion_base |-> h.base,
                    limite |-> hilo.tam, en_swap |-> FALSE, bloque_swap |-> 0]
<1>1. hilo.pc = "elegido" /\ UNCHANGED <<contextos, memoria, swap>>
  BY DEF CrearSegmento
<1>2. PICK h \in lista_huecos_libres :
        /\ h.tam >= hilo.tam
        /\ t' = [t EXCEPT ![p] = Append(t[p], s(h))]
  BY DEF CrearSegmento
<1>3. /\ p \in Pids /\ t \in Tablas /\ hilo \in HiloTipo
      /\ hilo.tam \in 1 .. SEGMENT_MAX_SIZE /\ n < MaxSegmentos
  BY <1>1, Hechos DEF IInv, HiloBien
<1>4. t[p] \in Seq(Segmento) /\ n \in Nat /\ DOMAIN t[p] = 1 .. n
  BY <1>3 DEF Tablas
<1>5. p \in contextos
  BY <1>1, <1>3 DEF Acuerdo
<1>6. /\ h \in Hueco /\ h.base \in Nat /\ h.tam \in Nat
      /\ h.base + h.tam <= memoria_total_sistema
      /\ memoria_total_sistema \in Nat /\ memoria_total_sistema <= MemoriaMaxima
      /\ MemoriaMaxima \in Nat
  BY Hechos DEF IInv, MemoriaSana, Sano, HuecosBajo, Hueco
<1>7. /\ s(h) \in Segmento /\ s(h).id_segmento = hilo.id /\ s(h).limite = hilo.tam
      /\ s(h).direccion_base = h.base /\ ~s(h).en_swap /\ hilo.id \in Ids
  BY <1>3, <1>6 DEF Segmento, HiloTipo
<1> DEFINE x == s(h)
           r == Append(t[p], x)
           b == Bytes(x, memoria, swap)
           z == [id |-> hilo.id, bytes |-> b]
           v == Lista(t[p], memoria, swap)
           w == Append(v, z)
<1>8. \A k \in 1 .. hilo.tam : Byte(x, k, memoria, swap) \in Valores
  <2>1. SUFFICES ASSUME NEW k \in 1 .. hilo.tam
                 PROVE  Byte(x, k, memoria, swap) \in Valores
    OBVIOUS
  <2>2. Byte(x, k, memoria, swap) = memoria[h.base + k - 1]
    BY <1>7 DEF Byte
  <2>3. h.base + k - 1 \in Direcciones
    BY <1>2, <1>3, <1>6 DEF Direcciones
  <2>4. memoria \in [Direcciones -> Valores]
    BY DEF IInv, TypeOK
  <2>5. QED BY <2>2, <2>3, <2>4
<1>9. b \in [1 .. hilo.tam -> Valores]
  BY <1>7, <1>8 DEF Bytes
<1>10. b \in Abstracta!Contenidos
  BY <1>3, <1>9 DEF Abstracta!Contenidos
<1>11. z \in Piezas /\ z = Pieza(x, memoria, swap)
  BY <1>7, <1>10 DEF Piezas, Pieza
<1>12. /\ v \in Seq(Piezas) /\ Len(v) = n /\ DOMAIN v = 1 .. n
       /\ \A j \in 1 .. n : v[j] = Pieza(t[p][j], memoria, swap)
  BY <1>3, <1>4, ListaTipo
<1>13. x \in Segmento
  BY <1>7
<1> HIDE DEF x, z, v, b, s
<1>14. /\ DOMAIN r = 1 .. n + 1 /\ r[n + 1] = x
       /\ \A j \in 1 .. n : r[j] = t[p][j]
  BY <1>4, <1>13
<1>15. /\ w \in Seq(Piezas) /\ Len(w) = n + 1 /\ w[n + 1] = z
       /\ \A j \in 1 .. n : w[j] = v[j]
  BY <1>4, <1>11, <1>12
<1>16. Lista(r, memoria, swap) = w
  <2> HIDE DEF r, w, n
  <2>1. n \in Nat /\ w \in [1 .. n + 1 -> Piezas]
    BY <1>4, <1>15
  <2>2. \A j \in 1 .. n + 1 : Pieza(r[j], memoria, swap) = w[j]
    <3>1. SUFFICES ASSUME NEW j \in 1 .. n + 1 PROVE Pieza(r[j], memoria, swap) = w[j]
      OBVIOUS
    <3>2. CASE j = n + 1
      BY <3>2, <1>11, <1>14, <1>15
    <3>3. CASE j # n + 1
      <4>1. j \in 1 .. n
        BY <2>1, <3>3
      <4>2. QED BY <4>1, <1>12, <1>14, <1>15
    <3>4. QED BY <3>2, <3>3
  <2>3. Lista(r, memoria, swap) = [j \in 1 .. n + 1 |-> Pieza(r[j], memoria, swap)]
    BY <1>14 DEF Lista
  <2>4. w = [j \in 1 .. n + 1 |-> w[j]]
    BY <2>1
  <2>5. QED BY <2>2, <2>3, <2>4
<1>17. t' = [t EXCEPT ![p] = r]
  BY <1>2 DEF x
<1>18. /\ VistaDeProceso[p] = v
       /\ VistaDeProceso' = [VistaDeProceso EXCEPT ![p] = w]
  <2>1. /\ VistaDeProceso[p] = Lista(tabla_segmentos[p], memoria, swap)
        /\ VistaDeProceso' = [VistaDeProceso EXCEPT ![p] = Lista(r, memoria, swap)]
    <3> HIDE DEF r, p
    <3>1. QED BY <1>1, <1>5, <1>17, CambiarTabla
  <2>2. QED BY <2>1, <1>16 DEF v
<1>19. VistaDeProceso'
       = [VistaDeProceso EXCEPT ![p] = Append(@, [id |-> hilo.id, bytes |-> b])]
  BY <1>18 DEF z
<1>20. Len(VistaDeProceso[p]) < MaxSegmentos
  BY <1>3, <1>12, <1>18
<1>21. Abstracta!Reservar(p)
  BY <1>7, <1>10, <1>19, <1>20 DEF Abstracta!Reservar
<1>22. QED BY <1>3, <1>21

\* MEM_FREE: the first segment with that number leaves the list.
LEMMA EliminarVista ==
    ASSUME IInv, Acuerdo, NEW p \in Pids, NEW id \in Ids, EliminarSegmento(p, id)
    PROVE  Abstracta!Liberar(p)
<1> DEFINE t == tabla_segmentos
           n == Len(t[p])
           v == Lista(t[p], memoria, swap)
<1>1. /\ hilo.pc = "libre" /\ estado[p] = "residente"
      /\ UNCHANGED <<contextos, memoria, swap>>
  BY DEF EliminarSegmento, Libre
<1>2. PICK i \in PrimerIndice(p, id) :
          t' = [t EXCEPT ![p] = QuitarIndice(t[p], i)]
  BY DEF EliminarSegmento
<1>3. /\ i \in DOMAIN t[p] /\ t[p][i].id_segmento = id
      /\ \A j \in 1 .. i - 1 : t[p][j].id_segmento # id
  BY DEF PrimerIndice
<1>4. t[p] \in Seq(Segmento) /\ n \in Nat /\ DOMAIN t[p] = 1 .. n
  BY Hechos DEF IInv, Tablas
<1>5. p \in contextos /\ p \notin Quietos
  BY <1>1, KMAssumption DEF Acuerdo, Quietos, KMAssumption
<1>6. /\ v \in Seq(Piezas) /\ Len(v) = n /\ DOMAIN v = 1 .. n
      /\ \A j \in 1 .. n : /\ v[j] = Pieza(t[p][j], memoria, swap)
                           /\ v[j].id = t[p][j].id_segmento
  BY <1>4, ListaTipo
<1> DEFINE r == QuitarIndice(t[p], i)
           w == QuitarIndice(v, i)
           f(j) == IF j < i THEN j ELSE j + 1
<1>7. DOMAIN r = 1 .. n - 1 /\ \A j \in 1 .. n - 1 : r[j] = t[p][f(j)]
  BY <1>3, <1>4, QuitarIndiceLema
<1>8. /\ w \in Seq(Piezas) /\ DOMAIN w = 1 .. n - 1
      /\ \A j \in 1 .. n - 1 : w[j] = v[f(j)]
  <2> HIDE DEF v, n
  <2>1. v \in Seq(Piezas) /\ i \in DOMAIN v
    BY <1>3, <1>4, <1>6
  <2>2. /\ QuitarIndice(v, i) \in Seq(Piezas)
        /\ DOMAIN QuitarIndice(v, i) = 1 .. Len(v) - 1
        /\ \A j \in 1 .. Len(v) - 1 :
               QuitarIndice(v, i)[j] = v[IF j < i THEN j ELSE j + 1]
    BY <2>1, QuitarIndiceLema
  <2>3. QED BY <2>2, <1>6
<1>9. i \in 1 .. n /\ \A j \in 1 .. n - 1 : f(j) \in 1 .. n
  BY <1>3, <1>4
<1> HIDE DEF r, w, v, n, f
<1>10. Lista(r, memoria, swap) = w
  <2>1. \A j \in 1 .. n - 1 : Pieza(r[j], memoria, swap) = w[j]
    BY <1>6, <1>7, <1>8, <1>9
  <2>2. Lista(r, memoria, swap) = [j \in 1 .. n - 1 |-> Pieza(r[j], memoria, swap)]
    BY <1>7 DEF Lista
  <2>3. w = [j \in 1 .. n - 1 |-> w[j]]
    BY <1>8
  <2>4. QED BY <2>1, <2>2, <2>3
<1>11. t' = [t EXCEPT ![p] = r]
  BY <1>2 DEF r
<1>12. /\ VistaDeProceso[p] = v
       /\ VistaDeProceso' = [VistaDeProceso EXCEPT ![p] = w]
  <2>1. /\ VistaDeProceso[p] = Lista(tabla_segmentos[p], memoria, swap)
        /\ VistaDeProceso' = [VistaDeProceso EXCEPT ![p] = Lista(r, memoria, swap)]
    BY <1>1, <1>5, <1>11, CambiarTabla
  <2>2. QED BY <2>1, <1>10 DEF v
<1>13. /\ i \in DOMAIN VistaDeProceso[p]
       /\ \A j \in 1 .. i - 1 : VistaDeProceso[p][j].id # VistaDeProceso[p][i].id
  <2>1. \A j \in 1 .. i - 1 : j \in 1 .. n
    BY <1>4, <1>9 DEF n
  <2>2. QED BY <2>1, <1>3, <1>6, <1>9, <1>12
<1>14. VistaDeProceso' = [VistaDeProceso EXCEPT ![p] =
                             SubSeq(@, 1, i - 1) \o SubSeq(@, i + 1, Len(@))]
  BY <1>12 DEF w, QuitarIndice
<1>15. QED BY <1>5, <1>13, <1>14 DEF Abstracta!Liberar

-----------------------------------------------------------------------------
(* The refinement. *)

\* Every step is a step of the abstract memory, or one the processes do not see.
LEMMA PasoVista ==
    ASSUME IInv, Espacio, Acuerdo, [NextOrdenada]_vars
    PROVE  \/ VistaDeProceso' = VistaDeProceso
           \/ \E p \in Pids : \/ Abstracta!Reservar(p) \/ Abstracta!Liberar(p)
                              \/ Abstracta!Escribir(p) \/ Abstracta!Finalizar(p)
<1>1. CASE \E m \in Sticks : ConectarDeAUno(m) \/ AgregarHuecoStick(m)
  BY <1>1, QuietoVista DEF ConectarDeAUno, ConexionMemoryStick, AgregarHuecoStick
<1>2. ASSUME NEW p \in Pids, Pedido(p)
      PROVE  VistaDeProceso' = VistaDeProceso \/ Abstracta!Escribir(p)
                 \/ Abstracta!Finalizar(p)
  <2>1. CASE CrearProceso(p)
    BY <2>1, CrearProcesoVista
  <2>2. CASE \/ \E id \in Ids, tam \in Tamanios : PedirSegmento(p, id, tam)
             \/ PedirSuspension(p) \/ PedirDesuspension(p)
    BY <2>2, QuietoVista DEF PedirSegmento, PedirSuspension, PedirDesuspension
  <2>3. CASE PedirFinalizacion(p)
    BY <2>3, FinalizacionVista
  <2>4. CASE \E id \in Ids, k \in 0 .. SEGMENT_MAX_SIZE - 1, n \in 1 .. SEGMENT_MAX_SIZE,
                v \in Valores : EscrituraMemoria(p, id, k, n, v)
    <3>1. PICK id \in Ids, k \in 0 .. SEGMENT_MAX_SIZE - 1, n \in 1 .. SEGMENT_MAX_SIZE,
               v \in Valores : EscrituraMemoria(p, id, k, n, v)
      BY <2>4
    <3>2. QED BY <3>1, EscrituraMemoriaVista
  <2>5. QED BY <1>2, <2>1, <2>2, <2>3, <2>4 DEF Pedido
<1>3. ASSUME NEW p \in Pids, EjecutarEnRam(p)
      PROVE  Abstracta!Liberar(p) \/ Abstracta!Escribir(p)
  <2>1. CASE \E id \in Ids : EliminarSegmento(p, id)
    BY <2>1, EliminarVista
  <2>2. CASE \E i \in 1 .. MaxSegmentos, k \in 0 .. SEGMENT_MAX_SIZE - 1, v \in Valores :
                 EscribirCPU(p, i, k, v)
    <3>1. PICK i \in 1 .. MaxSegmentos, k \in 0 .. SEGMENT_MAX_SIZE - 1, v \in Valores :
                 EscribirCPU(p, i, k, v)
      BY <2>2
    <3>2. TodoEnRam(p)
      BY <1>3 DEF EjecutarEnRam
    <3>3. QED BY <3>1, <3>2, EscribirCPUVista
  <2>3. QED BY <1>3, <2>1, <2>2 DEF EjecutarEnRam, Ejecutar
<1>4. CASE Continuar
  <2>1. CASE CrearSegmento
    BY <2>1, CrearSegmentoVista
  <2>2. CASE MoverSegmentoASwap \/ RestaurarSegmento \/ LiberarSegmentoFinalizado
    BY <2>2, MoverVista, RestaurarVista, FinalizarVista
  <2>3. CASE \/ MedirEspacio \/ ReelegirHueco \/ SaltearSegmento \/ TerminarSuspension
             \/ YaEnRam \/ DesuspensionFallida \/ TerminarDesuspension
             \/ TerminarFinalizacion
    BY <2>3, QuietoVista
    DEF MedirEspacio, ReelegirHueco, SaltearSegmento, TerminarSuspension, YaEnRam,
        DesuspensionFallida, TerminarDesuspension, TerminarFinalizacion
  <2>4. QED BY <1>4, <2>1, <2>2, <2>3 DEF Continuar
<1>5. CASE CompactarSinConexion
  BY <1>5, CompactarVista
<1>6. CASE UNCHANGED vars
  BY <1>6, QuietoVista DEF vars
<1>7. QED BY <1>1, <1>2, <1>3, <1>4, <1>5, <1>6 DEF NextOrdenada

\* Kernel Memory implements the private memories of the processes: compaction,
\* suspension with its failures, restoring and the connection of sticks change
\* nothing of what a process reads, and nobody else's request does.
THEOREM ImplementaMemoria == SpecOrdenada => MemoriaPrivada
<1>1. Init => Abstracta!Init
  <2>1. SUFFICES ASSUME Init PROVE Abstracta!Init
    OBVIOUS
  <2>2. VistaDeProceso = [p \in Pids |-> <<>>]
    BY <2>1 DEF Init, VistaDeProceso
  <2>3. Quietos = {}
    BY <2>1, KMAssumption DEF Init, Ocioso, Quietos, KMAssumption
  <2>4. QED BY <2>2, <2>3 DEF Abstracta!Init
<1>2. IInv /\ Espacio /\ Acuerdo /\ [NextOrdenada]_vars
          => [Abstracta!Next]_<<VistaDeProceso, Quietos>>
  <2>1. SUFFICES ASSUME IInv, Espacio, Acuerdo, [NextOrdenada]_vars
                 PROVE  Abstracta!Next
    OBVIOUS
  <2>2. Quietos' \in SUBSET Pids
    BY DEF Quietos
  <2>3. QED BY <2>1, <2>2, PasoVista DEF Abstracta!Next
<1>3. SpecOrdenada => [](IInv /\ Espacio /\ Acuerdo)
  BY AcuerdoInvariante
<1>4. QED
  BY <1>1, <1>2, <1>3, PTL DEF SpecOrdenada, MemoriaPrivada, Abstracta!Spec

=============================================================================

------------------------ MODULE KernelMemory_proofs ------------------------
(***************************************************************************)
(* Theorems about KernelMemory under the two hypotheses of SpecOrdenada,    *)
(* for every number of processes, sticks and blocks, every size and every  *)
(* ALLOCATION_STRATEGY.                                                     *)
(***************************************************************************)
EXTENDS KernelMemory, TLAPS, FiniteSetTheorems, FunctionTheorems

-----------------------------------------------------------------------------
(* Holes: what liberar_espacio_en_huecos and the cut of a hole preserve. *)

HuecosDisj(H) == \A g, h \in H : g # h => Disjuntos(g.base, g.tam, h.base, h.tam)

\* The interval of tam bytes from base shares no byte with a hole of H.
Lejos(H, base, tam) == \A h \in H : Disjuntos(h.base, h.tam, base, tam)

\* A freed interval that no hole overlaps leaves holes that do not overlap, and
\* what was apart from the holes and from the interval stays apart; every hole
\* that does not begin at the interval's end keeps its base and does not shrink.
LEMMA LiberarEspacioLema ==
    ASSUME NEW H \in SUBSET Hueco, HuecosDisj(H),
           NEW b \in Nat, NEW t \in Nat \ {0}, Lejos(H, b, t)
    PROVE  LET R == LiberarEspacio(H, b, t)
           IN  /\ R \subseteq Hueco
               /\ HuecosDisj(R)
               /\ \A c \in Nat, u \in Nat \ {0} :
                      Lejos(H, c, u) /\ Disjuntos(b, t, c, u) => Lejos(R, c, u)
               /\ \A T \in Nat : (\A h \in H : h.base + h.tam <= T) /\ b + t <= T
                                 => \A h \in R : h.base + h.tam <= T
               /\ \A h \in H : h.base # b + t =>
                      \E r \in R : r.base = h.base /\ r.tam >= h.tam
<1> DEFINE izq == {h \in H : h.base + h.tam = b}
           der == {h \in H : h.base = b + t}
           resto == H \ (izq \cup der)
           hi == CHOOSE h \in izq : TRUE
           hd == CHOOSE h \in der : TRUE
           nueva == IF izq = {} THEN b ELSE hi.base
           fin == IF der = {} THEN b + t ELSE hd.base + hd.tam
           nuevo == [base |-> nueva, tam |-> fin - nueva]
           R == LiberarEspacio(H, b, t)
<1>1. R = resto \cup {nuevo}
  BY DEF LiberarEspacio
<1>2. \A h \in H : h.base \in Nat /\ h.tam \in Nat /\ h.tam > 0
  BY DEF Hueco
<1>3. /\ izq # {} => hi \in H /\ hi.base + hi.tam = b
      /\ der # {} => hd \in H /\ hd.base = b + t
  OBVIOUS
<1>4. /\ \A h \in izq : h = hi
      /\ \A h \in der : h = hd
  <2>1. ASSUME NEW h \in izq PROVE h = hi
    BY <1>2, <1>3, <2>1 DEF HuecosDisj, Disjuntos
  <2>2. ASSUME NEW h \in der PROVE h = hd
    BY <1>2, <1>3, <2>2 DEF HuecosDisj, Disjuntos
  <2>3. QED BY <2>1, <2>2
<1>5. /\ nueva \in Nat /\ fin \in Nat
      /\ nueva <= b /\ b + t <= fin
  BY <1>2, <1>3
<1>6. nuevo \in Hueco
  BY <1>5 DEF Hueco
<1>7. \A h \in resto : Disjuntos(h.base, h.tam, nueva, fin - nueva)
  <2>1. SUFFICES ASSUME NEW h \in resto
                 PROVE  h.base + h.tam <= nueva \/ fin <= h.base
    BY <1>2, <1>5 DEF Disjuntos
  <2>2. h.base + h.tam <= b \/ b + t <= h.base
    BY DEF Lejos, Disjuntos
  <2>3. izq # {} => h # hi /\ (h.base + h.tam <= hi.base \/ hi.base + hi.tam <= h.base)
    BY <1>3 DEF HuecosDisj, Disjuntos
  <2>4. der # {} => h # hd /\ (h.base + h.tam <= hd.base \/ hd.base + hd.tam <= h.base)
    BY <1>3 DEF HuecosDisj, Disjuntos
  <2>5. QED BY <2>2, <2>3, <2>4, <1>2, <1>3
<1>8. HuecosDisj(R)
  BY <1>1, <1>2, <1>5, <1>7, SMTT(30) DEF HuecosDisj, Disjuntos
<1>9. ASSUME NEW c \in Nat, NEW u \in Nat \ {0}, Lejos(H, c, u), Disjuntos(b, t, c, u)
      PROVE  Lejos(R, c, u)
  <2>1. izq # {} => hi.base + hi.tam <= c \/ c + u <= hi.base
    BY <1>3, <1>9 DEF Lejos, Disjuntos
  <2>2. der # {} => hd.base + hd.tam <= c \/ c + u <= hd.base
    BY <1>3, <1>9 DEF Lejos, Disjuntos
  <2>3. fin <= c \/ c + u <= nueva
    BY <2>1, <2>2, <1>2, <1>3, <1>9 DEF Disjuntos
  <2>4. Disjuntos(nuevo.base, nuevo.tam, c, u)
    BY <2>3, <1>5 DEF Disjuntos
  <2>5. QED BY <2>4, <1>1, <1>9 DEF Lejos
<1>10. ASSUME NEW T \in Nat, \A h \in H : h.base + h.tam <= T, b + t <= T
       PROVE  \A h \in R : h.base + h.tam <= T
  BY <1>1, <1>3, <1>5, <1>10
<1>11. ASSUME NEW h \in H, h.base # b + t
       PROVE  \E r \in R : r.base = h.base /\ r.tam >= h.tam
  <2>1. CASE h \in izq
    <3>1. h = hi /\ nueva = h.base
      BY <2>1, <1>4
    <3>2. fin - nueva >= h.tam
      BY <3>1, <1>2, <1>3, <1>5, <2>1
    <3>3. nuevo \in R /\ nuevo.base = h.base /\ nuevo.tam >= h.tam
      BY <3>1, <3>2, <1>1
    <3>4. QED BY <3>3
  <2>2. CASE h \notin izq
    BY <2>2, <1>1, <1>2, <1>11
  <2>3. QED BY <2>1, <2>2
<1>12. QED
  BY <1>1, <1>6, <1>8, <1>9, <1>10, <1>11

\* Cutting t bytes from a hole leaves holes that do not overlap; the cut piece is
\* apart from them, and so is whatever was apart from the holes.
LEMMA RecortarLema ==
    ASSUME NEW H \in SUBSET Hueco, HuecosDisj(H),
           NEW h \in H, NEW t \in Nat \ {0}, t <= h.tam
    PROVE  LET R == Recortar(H, h, t)
           IN  /\ R \subseteq Hueco
               /\ HuecosDisj(R)
               /\ Lejos(R, h.base, t)
               /\ \A c \in Nat, u \in Nat \ {0} :
                      Lejos(H, c, u) => Lejos(R, c, u) /\ Disjuntos(h.base, t, c, u)
               /\ \A T \in Nat : (\A g \in H : g.base + g.tam <= T)
                                 => (\A g \in R : g.base + g.tam <= T) /\ h.base + t <= T
<1> DEFINE R == Recortar(H, h, t)
           r == [base |-> h.base + t, tam |-> h.tam - t]
<1>1. h.base \in Nat /\ h.tam \in Nat
  BY DEF Hueco
<1>2. \A g \in R : g \in H \ {h} \/ (t < h.tam /\ g = r)
  BY <1>1 DEF Recortar
<1>3. \A g \in H : g.base \in Nat /\ g.tam \in Nat
  BY DEF Hueco
<1>4. t < h.tam => r \in Hueco
  BY <1>1 DEF Hueco
<1>5. R \subseteq Hueco
  BY <1>2, <1>4
<1>6. HuecosDisj(R)
  BY <1>1, <1>2, <1>3 DEF HuecosDisj, Disjuntos
<1>7. Lejos(R, h.base, t)
  BY <1>1, <1>2, <1>3 DEF HuecosDisj, Lejos, Disjuntos
<1>8. ASSUME NEW c \in Nat, NEW u \in Nat \ {0}, Lejos(H, c, u)
      PROVE  Lejos(R, c, u) /\ Disjuntos(h.base, t, c, u)
  BY <1>1, <1>2, <1>3, <1>8 DEF Lejos, Disjuntos
<1>9. ASSUME NEW T \in Nat, \A g \in H : g.base + g.tam <= T
      PROVE  (\A g \in R : g.base + g.tam <= T) /\ h.base + t <= T
  BY <1>1, <1>2, <1>3, <1>9
<1>10. QED
  BY <1>5, <1>6, <1>7, <1>8, <1>9
-----------------------------------------------------------------------------
(* Segment tables: t is a table, T the bytes of memory. *)

Tablas == [Pids -> Seq(Segmento)]

\* No segment in RAM shares a byte with another, nor with u bytes from c, nor
\* with a hole; segments and holes end below T.
SegsDisj(t) ==
    \A p, q \in Pids : \A i \in DOMAIN t[p], j \in DOMAIN t[q] :
        /\ p # q \/ i # j
        /\ ~t[p][i].en_swap /\ ~t[q][j].en_swap
        => Disjuntos(t[p][i].direccion_base, t[p][i].limite,
                     t[q][j].direccion_base, t[q][j].limite)

SegsLejos(t, c, u) ==
    \A p \in Pids : \A i \in DOMAIN t[p] :
        ~t[p][i].en_swap => Disjuntos(t[p][i].direccion_base, t[p][i].limite, c, u)

Apartados(H, t) ==
    \A p \in Pids : \A i \in DOMAIN t[p] :
        ~t[p][i].en_swap => Lejos(H, t[p][i].direccion_base, t[p][i].limite)

SegsBajo(t, T) ==
    \A p \in Pids : \A i \in DOMAIN t[p] : t[p][i].direccion_base + t[p][i].limite <= T

HuecosBajo(H, T) == \A h \in H : h.base + h.tam <= T

Sano(H, t, T) ==
    /\ HuecosDisj(H) /\ SegsDisj(t) /\ Apartados(H, t)
    /\ HuecosBajo(H, T) /\ SegsBajo(t, T)

StickLejos(H, t, c, u) == Lejos(H, c, u) /\ SegsLejos(t, c, u)

\* Every segment in RAM of table t2 is one of t.
Resto(t2, t) ==
    /\ SegsDisj(t) => SegsDisj(t2)
    /\ \A c \in Nat, u \in Nat \ {0} : SegsLejos(t, c, u) => SegsLejos(t2, c, u)
    /\ \A H \in SUBSET Hueco : Apartados(H, t) => Apartados(H, t2)
    /\ \A T \in Nat : SegsBajo(t, T) => SegsBajo(t2, T)

LEMMA SegmentoTipo ==
    ASSUME NEW t \in Tablas, NEW p \in Pids, NEW i \in DOMAIN t[p]
    PROVE  /\ t[p][i] \in Segmento
           /\ t[p][i].direccion_base \in Nat /\ t[p][i].limite \in Nat \ {0}
           /\ t[p][i].limite \in 1 .. SEGMENT_MAX_SIZE
           /\ t[p][i].en_swap \in BOOLEAN /\ t[p][i].bloque_swap \in Nat
<1>1. t[p] \in Seq(Segmento)
  BY DEF Tablas
<1>2. t[p][i] \in Segmento
  BY <1>1
<1>3. QED
  BY <1>2, KMAssumption DEF Segmento, KMAssumption

\* The lists without one of their elements.
LEMMA QuitarIndiceLema ==
    ASSUME NEW S, NEW s \in Seq(S), NEW i \in DOMAIN s
    PROVE  /\ QuitarIndice(s, i) \in Seq(S)
           /\ Len(QuitarIndice(s, i)) = Len(s) - 1
           /\ DOMAIN QuitarIndice(s, i) = 1 .. Len(s) - 1
           /\ \A j \in 1 .. Len(s) - 1 :
                  QuitarIndice(s, i)[j] = s[IF j < i THEN j ELSE j + 1]
<1>1. i \in 1 .. Len(s) /\ Len(s) \in Nat
  OBVIOUS
<1> DEFINE a == SubSeq(s, 1, i - 1)
           b == SubSeq(s, i + 1, Len(s))
<1>2. /\ a \in Seq(S) /\ Len(a) = i - 1
      /\ \A j \in 1 .. i - 1 : a[j] = s[j]
  BY <1>1
<1>3. /\ b \in Seq(S) /\ Len(b) = Len(s) - i
      /\ \A j \in 1 .. Len(s) - i : b[j] = s[i + j]
  BY <1>1
<1> HIDE DEF a, b
<1>4. /\ a \o b \in Seq(S) /\ Len(a \o b) = Len(s) - 1
      /\ DOMAIN (a \o b) = 1 .. Len(s) - 1
  BY <1>1, <1>2, <1>3
<1>5. ASSUME NEW j \in 1 .. Len(s) - 1
      PROVE  (a \o b)[j] = s[IF j < i THEN j ELSE j + 1]
  <2>1. CASE j < i
    BY <2>1, <1>1, <1>2, <1>3
  <2>2. CASE ~(j < i)
    <3>1. j - (i - 1) \in 1 .. Len(s) - i
      BY <2>2, <1>1
    <3>2. (a \o b)[j] = b[j - (i - 1)]
      BY <2>2, <1>1, <1>2, <1>3, SMTT(30)
    <3>3. b[j - (i - 1)] = s[i + (j - (i - 1))]
      BY <3>1, <1>3
    <3>4. QED BY <3>2, <3>3, <2>2, <1>1
  <2>3. QED BY <2>1, <2>2
<1>6. QED
  BY <1>4, <1>5 DEF QuitarIndice, a, b

\* A table in which p has lost one segment: what is left was there, and the bytes
\* of the lost one, if it was in RAM, are apart from what is left.
LEMMA QuitarLema ==
    ASSUME NEW t \in Tablas, NEW p \in Pids, NEW i \in DOMAIN t[p],
           NEW r \in Seq(Segmento),
           DOMAIN r = 1 .. Len(t[p]) - 1,
           \A j \in 1 .. Len(t[p]) - 1 : r[j] = t[p][IF j < i THEN j ELSE j + 1]
    PROVE  LET t2 == [t EXCEPT ![p] = r]
           IN  /\ t2 \in Tablas
               /\ Resto(t2, t)
               /\ SegsDisj(t) /\ ~t[p][i].en_swap =>
                      SegsLejos(t2, t[p][i].direccion_base, t[p][i].limite)
<1> DEFINE t2 == [t EXCEPT ![p] = r]
           f(q, j) == IF q # p \/ j < i THEN j ELSE j + 1
<1>1. t2 \in Tablas
  BY DEF Tablas
<1>2. t[p] \in Seq(Segmento) /\ DOMAIN t[p] = 1 .. Len(t[p]) /\ Len(t[p]) \in Nat
  BY DEF Tablas
<1>3. ASSUME NEW q \in Pids, NEW j \in DOMAIN t2[q]
      PROVE  /\ f(q, j) \in DOMAIN t[q] /\ t2[q][j] = t[q][f(q, j)]
             /\ q = p => f(q, j) # i
  <2>1. CASE q = p
    <3>1. t2[q] = r /\ j \in 1 .. Len(t[p]) - 1
      BY <2>1 DEF Tablas
    <3>2. QED BY <3>1, <2>1, <1>2
  <2>2. CASE q # p
    BY <2>2 DEF Tablas
  <2>3. QED BY <2>1, <2>2
<1>4. ASSUME NEW q \in Pids, NEW j \in DOMAIN t2[q], NEW k \in DOMAIN t2[q], j # k
      PROVE  f(q, j) # f(q, k)
  <2>1. CASE q = p
    <3>1. j \in 1 .. Len(t[p]) - 1 /\ k \in 1 .. Len(t[p]) - 1
      BY <2>1 DEF Tablas
    <3>2. QED BY <3>1, <1>2, <1>4
  <2>2. CASE q # p
    BY <2>2, <1>4
  <2>3. QED BY <2>1, <2>2
<1> HIDE DEF f, t2
<1>5. SegsDisj(t) => SegsDisj(t2)
  BY <1>3, <1>4 DEF SegsDisj
<1>6. ASSUME NEW c \in Nat, NEW u \in Nat \ {0}, SegsLejos(t, c, u)
      PROVE  SegsLejos(t2, c, u)
  BY <1>3, <1>6 DEF SegsLejos
<1>7. ASSUME NEW H \in SUBSET Hueco, Apartados(H, t)
      PROVE  Apartados(H, t2)
  BY <1>3, <1>7 DEF Apartados
<1>8. ASSUME NEW T \in Nat, SegsBajo(t, T)
      PROVE  SegsBajo(t2, T)
  BY <1>3, <1>8 DEF SegsBajo
<1>9. ASSUME SegsDisj(t), ~t[p][i].en_swap
      PROVE  SegsLejos(t2, t[p][i].direccion_base, t[p][i].limite)
  BY <1>3, <1>9 DEF SegsLejos, SegsDisj
<1>10. QED
  BY <1>1, <1>5, <1>6, <1>7, <1>8, <1>9 DEF Resto, t2

\* A table in which one segment of p moved to SWAP.
LEMMA MoverLema ==
    ASSUME NEW t \in Tablas, NEW p \in Pids, NEW i \in DOMAIN t[p],
           ~t[p][i].en_swap, NEW b \in Nat
    PROVE  LET t2 == [t EXCEPT ![p][i] =
                         [t[p][i] EXCEPT !.en_swap = TRUE, !.bloque_swap = b]]
           IN  /\ t2 \in Tablas
               /\ Resto(t2, t)
               /\ SegsDisj(t) => SegsLejos(t2, t[p][i].direccion_base, t[p][i].limite)
<1> DEFINE s == [t[p][i] EXCEPT !.en_swap = TRUE, !.bloque_swap = b]
           t2 == [t EXCEPT ![p][i] = s]
<1>1. /\ s \in Segmento /\ s.en_swap
      /\ s.direccion_base = t[p][i].direccion_base /\ s.limite = t[p][i].limite
  BY SegmentoTipo, ZenonT(60) DEF Segmento
<1> HIDE DEF s
<1>2. t2 \in Tablas
  BY <1>1 DEF Tablas
<1>3. ASSUME NEW q \in Pids
      PROVE  /\ DOMAIN t2[q] = DOMAIN t[q]
             /\ \A j \in DOMAIN t[q] :
                    t2[q][j] = IF q = p /\ j = i THEN s ELSE t[q][j]
  BY DEF Tablas
<1> HIDE DEF t2
<1>4. SegsDisj(t) => SegsDisj(t2)
  BY <1>1, <1>3 DEF SegsDisj
<1>5. ASSUME NEW c \in Nat, NEW u \in Nat \ {0}, SegsLejos(t, c, u)
      PROVE  SegsLejos(t2, c, u)
  BY <1>1, <1>3, <1>5 DEF SegsLejos
<1>6. ASSUME NEW H \in SUBSET Hueco, Apartados(H, t)
      PROVE  Apartados(H, t2)
  BY <1>1, <1>3, <1>6 DEF Apartados
<1>7. ASSUME NEW T \in Nat, SegsBajo(t, T)
      PROVE  SegsBajo(t2, T)
  BY <1>1, <1>3, <1>7 DEF SegsBajo
<1>8. ASSUME SegsDisj(t)
      PROVE  SegsLejos(t2, t[p][i].direccion_base, t[p][i].limite)
  BY <1>1, <1>3, <1>8 DEF SegsLejos, SegsDisj
<1>9. QED
  BY <1>2, <1>4, <1>5, <1>6, <1>7, <1>8 DEF Resto, t2, s

\* Giving l bytes from b back to the holes, when no segment of t2 holds them.
LEMMA LiberarSano ==
    ASSUME NEW H \in SUBSET Hueco, NEW t \in Tablas, NEW t2 \in Tablas, NEW T \in Nat,
           NEW b \in Nat, NEW l \in Nat \ {0},
           Sano(H, t, T), Resto(t2, t), SegsLejos(t2, b, l), Lejos(H, b, l), b + l <= T
    PROVE  LET R == LiberarEspacio(H, b, l)
           IN  /\ R \subseteq Hueco
               /\ Sano(R, t2, T)
               /\ \A c \in Nat, u \in Nat \ {0} :
                      StickLejos(H, t, c, u) /\ Disjuntos(b, l, c, u)
                      => StickLejos(R, t2, c, u)
               /\ \A h \in H : h.base # b + l =>
                      \E r \in R : r.base = h.base /\ r.tam >= h.tam
<1> DEFINE R == LiberarEspacio(H, b, l)
<1>1. /\ R \subseteq Hueco
      /\ HuecosDisj(R)
      /\ \A c \in Nat, u \in Nat \ {0} :
             Lejos(H, c, u) /\ Disjuntos(b, l, c, u) => Lejos(R, c, u)
      /\ \A x \in Nat : (\A h \in H : h.base + h.tam <= x) /\ b + l <= x
                        => \A h \in R : h.base + h.tam <= x
      /\ \A h \in H : h.base # b + l => \E r \in R : r.base = h.base /\ r.tam >= h.tam
  BY LiberarEspacioLema DEF Sano
<1> HIDE DEF R
<1>2. SegsDisj(t2) /\ Apartados(H, t2) /\ SegsBajo(t2, T)
  BY DEF Sano, Resto
<1>3. Apartados(R, t2)
  <2>1. SUFFICES ASSUME NEW p \in Pids, NEW i \in DOMAIN t2[p], ~t2[p][i].en_swap
                 PROVE  Lejos(R, t2[p][i].direccion_base, t2[p][i].limite)
    BY DEF Apartados
  <2>2. t2[p][i].direccion_base \in Nat /\ t2[p][i].limite \in Nat \ {0}
    BY SegmentoTipo
  <2>3. Lejos(H, t2[p][i].direccion_base, t2[p][i].limite)
    BY <1>2, <2>1 DEF Apartados
  <2>4. Disjuntos(b, l, t2[p][i].direccion_base, t2[p][i].limite)
    BY <2>1 DEF SegsLejos, Disjuntos
  <2>5. QED BY <1>1, <2>2, <2>3, <2>4
<1>4. HuecosBajo(R, T)
  BY <1>1 DEF HuecosBajo, Sano
<1>5. ASSUME NEW c \in Nat, NEW u \in Nat \ {0},
             StickLejos(H, t, c, u), Disjuntos(b, l, c, u)
      PROVE  StickLejos(R, t2, c, u)
  BY <1>1, <1>5 DEF StickLejos, Resto
<1>6. QED
  BY <1>1, <1>2, <1>3, <1>4, <1>5 DEF Sano, R

\* Cutting l bytes from hole h for one segment, that of p at position i in t2,
\* which t has not at all or has in SWAP.
LEMMA OcuparSano ==
    ASSUME NEW H \in SUBSET Hueco, NEW t \in Tablas, NEW t2 \in Tablas, NEW T \in Nat,
           NEW h \in H, NEW p \in Pids, NEW i \in DOMAIN t2[p],
           t2[p][i].direccion_base = h.base, t2[p][i].limite <= h.tam,
           \A q \in Pids : \A j \in DOMAIN t2[q] :
               q # p \/ j # i => j \in DOMAIN t[q] /\ t2[q][j] = t[q][j],
           Sano(H, t, T)
    PROVE  LET R == Recortar(H, h, t2[p][i].limite)
           IN  /\ R \subseteq Hueco
               /\ Sano(R, t2, T)
               /\ \A c \in Nat, u \in Nat \ {0} :
                      StickLejos(H, t, c, u) => StickLejos(R, t2, c, u)
<1> DEFINE l == t2[p][i].limite
           R == Recortar(H, h, l)
<1>0. l \in Nat \ {0} /\ h.base \in Nat /\ h.tam \in Nat
  BY SegmentoTipo DEF Hueco
<1> HIDE DEF l
<1>1. /\ R \subseteq Hueco
      /\ HuecosDisj(R)
      /\ Lejos(R, h.base, l)
      /\ \A c \in Nat, u \in Nat \ {0} :
             Lejos(H, c, u) => Lejos(R, c, u) /\ Disjuntos(h.base, l, c, u)
      /\ \A x \in Nat : (\A g \in H : g.base + g.tam <= x)
                        => (\A g \in R : g.base + g.tam <= x) /\ h.base + l <= x
  BY <1>0, RecortarLema DEF Sano, l
<1> HIDE DEF R
<1>2. ASSUME NEW q \in Pids, NEW j \in DOMAIN t2[q], q # p \/ j # i, ~t2[q][j].en_swap
      PROVE  /\ t2[q][j].direccion_base \in Nat /\ t2[q][j].limite \in Nat \ {0}
             /\ Lejos(R, t2[q][j].direccion_base, t2[q][j].limite)
             /\ Disjuntos(h.base, l, t2[q][j].direccion_base, t2[q][j].limite)
  <2>1. t2[q][j].direccion_base \in Nat /\ t2[q][j].limite \in Nat \ {0}
    BY SegmentoTipo
  <2>2. Lejos(H, t2[q][j].direccion_base, t2[q][j].limite)
    BY <1>2 DEF Sano, Apartados
  <2>3. QED BY <1>1, <2>1, <2>2
<1>3. SegsDisj(t2)
  <2>1. SUFFICES ASSUME NEW q \in Pids, NEW r \in Pids,
                        NEW j \in DOMAIN t2[q], NEW k \in DOMAIN t2[r],
                        q # r \/ j # k, ~t2[q][j].en_swap, ~t2[r][k].en_swap
                 PROVE  Disjuntos(t2[q][j].direccion_base, t2[q][j].limite,
                                  t2[r][k].direccion_base, t2[r][k].limite)
    BY DEF SegsDisj
  <2>2. CASE q = p /\ j = i
    BY <2>1, <2>2, <1>2 DEF l, Disjuntos
  <2>3. CASE r = p /\ k = i
    BY <2>1, <2>3, <1>2 DEF l, Disjuntos
  <2>4. CASE (q # p \/ j # i) /\ (r # p \/ k # i)
    BY <2>1, <2>4 DEF Sano, SegsDisj
  <2>5. QED BY <2>2, <2>3, <2>4
<1>4. Apartados(R, t2)
  BY <1>1, <1>2 DEF Apartados, l
<1>5. HuecosBajo(R, T) /\ h.base + l <= T
  BY <1>1 DEF Sano, HuecosBajo
<1>6. SegsBajo(t2, T)
  BY <1>5 DEF Sano, SegsBajo, l
<1>7. ASSUME NEW c \in Nat, NEW u \in Nat \ {0}, StickLejos(H, t, c, u)
      PROVE  StickLejos(R, t2, c, u)
  BY <1>1, <1>7 DEF StickLejos, SegsLejos, l
<1>8. QED
  BY <1>1, <1>3, <1>4, <1>5, <1>6, <1>7 DEF Sano, R, l

-----------------------------------------------------------------------------
(* Compaction: the new bases keep the segments in order and apart. *)

Acotada == \A p \in Pids : Len(tabla_segmentos[p]) <= MaxSegmentos

LEMMA LugaresLema ==
    ASSUME TypeOK, Acotada
    PROVE  /\ IsFiniteSet(EnRam)
           /\ \A p \in Pids : \A i \in DOMAIN tabla_segmentos[p] : <<p, i>> \in Lugares
           /\ \A l \in Lugares : /\ l[1] \in Pids /\ l[2] \in DOMAIN tabla_segmentos[l[1]]
                                 /\ l = <<l[1], l[2]>>
                                 /\ Seg(l) = tabla_segmentos[l[1]][l[2]]
                                 /\ Seg(l).direccion_base \in Nat
                                 /\ Seg(l).limite \in 1 .. SEGMENT_MAX_SIZE
<1>1. tabla_segmentos \in Tablas
  BY DEF TypeOK, Tablas
<1>2. IsFiniteSet(Pids \X (1 .. MaxSegmentos))
  <2>1. IsFiniteSet(1 .. MaxSegmentos)
    <3>1. 1 \in Int /\ MaxSegmentos \in Int
      BY KMAssumption DEF KMAssumption
    <3>2. QED BY ONLY <3>1, FS_Interval
  <2>2. IsFiniteSet(Pids)
    BY KMAssumption DEF KMAssumption
  <2>3. QED BY ONLY <2>1, <2>2, FS_Product
<1>3. IsFiniteSet(EnRam)
  BY <1>2, FS_Subset DEF EnRam, Lugares
<1>4. ASSUME NEW p \in Pids, NEW i \in DOMAIN tabla_segmentos[p]
      PROVE  <<p, i>> \in Lugares
  <2>1. i \in 1 .. Len(tabla_segmentos[p]) /\ Len(tabla_segmentos[p]) \in Nat
    BY <1>1 DEF Tablas
  <2>2. i \in 1 .. MaxSegmentos
    BY <2>1, KMAssumption DEF KMAssumption, Acotada
  <2>3. QED BY <2>2 DEF Lugares
<1>5. ASSUME NEW l \in Lugares
      PROVE  /\ l[1] \in Pids /\ l[2] \in DOMAIN tabla_segmentos[l[1]]
             /\ l = <<l[1], l[2]>>
             /\ Seg(l) = tabla_segmentos[l[1]][l[2]]
             /\ Seg(l).direccion_base \in Nat
             /\ Seg(l).limite \in 1 .. SEGMENT_MAX_SIZE
  <2>1. l[1] \in Pids /\ l[2] \in DOMAIN tabla_segmentos[l[1]] /\ l = <<l[1], l[2]>>
    BY DEF Lugares
  <2>2. QED BY <2>1, <1>1, SegmentoTipo DEF Seg
<1>6. QED BY <1>3, <1>4, <1>5

LEMMA UnionDisjunta ==
    ASSUME NEW A, NEW B, IsFiniteSet(A), IsFiniteSet(B), A \cap B = {}
    PROVE  Cardinality(A \cup B) = Cardinality(A) + Cardinality(B)
<1>1. Cardinality(A \cup B) = Cardinality(A) + Cardinality(B) - Cardinality(A \cap B)
  BY FS_Union
<1>2. Cardinality(A \cap B) = 0
  BY FS_EmptySet
<1>3. Cardinality(A) \in Nat /\ Cardinality(B) \in Nat
  BY FS_CardinalityType
<1>4. QED BY <1>1, <1>2, <1>3

\* The bytes of a set of segments are counted one by one.
LEMMA CeldasLema ==
    ASSUME TypeOK, Acotada
    PROVE  /\ \A S \in SUBSET EnRam :
                  IsFiniteSet(Celdas(S)) /\ Cardinality(Celdas(S)) \in Nat
           /\ \A S, U \in SUBSET EnRam : S \subseteq U =>
                  Cardinality(Celdas(S)) <= Cardinality(Celdas(U))
           /\ \A S \in SUBSET EnRam, l \in EnRam : l \notin S =>
                  Cardinality(Celdas(S \cup {l})) = Cardinality(Celdas(S)) + Seg(l).limite
<1> DEFINE Desp == 0 .. SEGMENT_MAX_SIZE - 1
<1>1. SEGMENT_MAX_SIZE \in Nat \ {0}
  BY KMAssumption DEF KMAssumption
<1>2. ASSUME NEW S \in SUBSET EnRam
      PROVE  IsFiniteSet(Celdas(S)) /\ Cardinality(Celdas(S)) \in Nat
  <2>1. IsFiniteSet(S) /\ IsFiniteSet(Desp)
    <3>1. 0 \in Int /\ SEGMENT_MAX_SIZE - 1 \in Int
      BY <1>1
    <3>2. IsFiniteSet(Desp)
      BY ONLY <3>1, FS_Interval
    <3>3. IsFiniteSet(EnRam)
      BY LugaresLema
    <3>4. QED BY ONLY <3>2, <3>3, S \in SUBSET EnRam, FS_Subset
  <2>2. IsFiniteSet(S \X Desp)
    BY <2>1, FS_Product
  <2>3. Celdas(S) \in SUBSET (S \X Desp)
    BY DEF Celdas
  <2>4. QED BY <2>2, <2>3, FS_Subset, FS_CardinalityType
<1>3. ASSUME NEW S \in SUBSET EnRam, NEW U \in SUBSET EnRam, S \subseteq U
      PROVE  Cardinality(Celdas(S)) <= Cardinality(Celdas(U))
  <2>1. Celdas(S) \in SUBSET Celdas(U)
    BY <1>3 DEF Celdas
  <2>2. QED BY <2>1, <1>2, FS_Subset
<1>4. ASSUME NEW S \in SUBSET EnRam, NEW l \in EnRam, l \notin S
      PROVE  Cardinality(Celdas(S \cup {l})) = Cardinality(Celdas(S)) + Seg(l).limite
  <2> DEFINE n == Seg(l).limite
             f == [k \in 0 .. n - 1 |-> <<l, k>>]
  <2>1. n \in 1 .. SEGMENT_MAX_SIZE
    BY LugaresLema DEF EnRam
  <2>2. Celdas({l}) = {<<l, k>> : k \in 0 .. n - 1}
    BY <2>1, <1>1 DEF Celdas
  <2>3. f \in Bijection(0 .. n - 1, Celdas({l}))
    BY <2>2, Fun_IsBij
  <2>4. Cardinality(Celdas({l})) = n /\ IsFiniteSet(Celdas({l}))
    <3>1. IsFiniteSet(0 .. n - 1) /\ Cardinality(0 .. n - 1) = n
      BY <2>1, FS_Interval
    <3>2. ExistsBijection(0 .. n - 1, Celdas({l}))
      BY <2>3 DEF ExistsBijection
    <3>3. QED BY <3>1, <3>2, FS_Bijection
  <2>5. /\ Celdas(S \cup {l}) = Celdas(S) \cup Celdas({l})
        /\ Celdas(S) \cap Celdas({l}) = {}
    BY <1>4 DEF Celdas
  <2>6. IsFiniteSet(Celdas(S)) /\ Cardinality(Celdas(S)) \in Nat
    BY <1>2
  <2>7. Cardinality(Celdas(S) \cup Celdas({l}))
        = Cardinality(Celdas(S)) + Cardinality(Celdas({l}))
    BY <2>4, <2>5, <2>6, UnionDisjunta
  <2>8. QED BY <2>4, <2>5, <2>7
<1>5. QED BY <1>2, <1>3, <1>4

LEMMA NuevaBaseLema ==
    ASSUME TypeOK, Acotada,
           Sano(lista_huecos_libres, tabla_segmentos, memoria_total_sistema)
    PROVE  /\ FinCompactado \in Nat /\ FinCompactado <= memoria_total_sistema
           /\ \A l \in EnRam : NuevaBase(l) \in Nat
           /\ \A l \in EnRam : NuevaBase(l) + Seg(l).limite <= FinCompactado
           /\ \A k, l \in EnRam : k # l =>
                  Disjuntos(NuevaBase(k), Seg(k).limite, NuevaBase(l), Seg(l).limite)
<1> DEFINE Antes(l) == {k \in EnRam : Seg(k).direccion_base < Seg(l).direccion_base}
<1>1. \A l \in EnRam : NuevaBase(l) = Cardinality(Celdas(Antes(l)))
  BY DEF NuevaBase
<1>2. \A l \in EnRam : /\ Seg(l).direccion_base \in Nat
                       /\ Seg(l).limite \in Nat \ {0}
                       /\ Seg(l).direccion_base + Seg(l).limite <= memoria_total_sistema
  <2>1. SUFFICES ASSUME NEW l \in EnRam
                 PROVE  /\ Seg(l).direccion_base \in Nat
                        /\ Seg(l).limite \in Nat \ {0}
                        /\ Seg(l).direccion_base + Seg(l).limite <= memoria_total_sistema
    OBVIOUS
  <2>2. l \in Lugares
    BY DEF EnRam
  <2>3. /\ l[1] \in Pids /\ l[2] \in DOMAIN tabla_segmentos[l[1]]
        /\ Seg(l) = tabla_segmentos[l[1]][l[2]]
        /\ Seg(l).direccion_base \in Nat /\ Seg(l).limite \in 1 .. SEGMENT_MAX_SIZE
    BY <2>2, LugaresLema
  <2>4. QED BY <2>3, KMAssumption DEF Sano, SegsBajo, KMAssumption
<1>3. \A l \in EnRam : NuevaBase(l) \in Nat
  BY <1>1, CeldasLema
<1>4. FinCompactado \in Nat
  BY CeldasLema DEF FinCompactado
<1>5. ASSUME NEW l \in EnRam
      PROVE  NuevaBase(l) + Seg(l).limite = Cardinality(Celdas(Antes(l) \cup {l}))
  <2>1. l \notin Antes(l)
    BY <1>2
  <2>2. QED BY <2>1, <1>1, CeldasLema
<1>6. \A l \in EnRam : NuevaBase(l) + Seg(l).limite <= FinCompactado
  <2>1. SUFFICES ASSUME NEW l \in EnRam
                 PROVE  Cardinality(Celdas(Antes(l) \cup {l})) <= FinCompactado
    BY <1>5
  <2>2. Antes(l) \cup {l} \in SUBSET EnRam /\ EnRam \in SUBSET EnRam
    OBVIOUS
  <2>3. QED BY <2>2, CeldasLema DEF FinCompactado
<1>7. ASSUME NEW k \in EnRam, NEW l \in EnRam,
             Seg(k).direccion_base < Seg(l).direccion_base
      PROVE  NuevaBase(k) + Seg(k).limite <= NuevaBase(l)
  <2>1. /\ Antes(k) \cup {k} \in SUBSET EnRam /\ Antes(l) \in SUBSET EnRam
        /\ Antes(k) \cup {k} \subseteq Antes(l)
    BY <1>2, <1>7
  <2>2. QED BY <2>1, <1>1, <1>5, CeldasLema
<1>8. \A k, l \in EnRam : k # l =>
          Disjuntos(Seg(k).direccion_base, Seg(k).limite,
                    Seg(l).direccion_base, Seg(l).limite)
  <2>1. SUFFICES ASSUME NEW k \in EnRam, NEW l \in EnRam, k # l
                 PROVE  Disjuntos(Seg(k).direccion_base, Seg(k).limite,
                                  Seg(l).direccion_base, Seg(l).limite)
    OBVIOUS
  <2>2. k \in Lugares /\ l \in Lugares /\ ~Seg(k).en_swap /\ ~Seg(l).en_swap
    BY DEF EnRam
  <2>3. /\ k[1] \in Pids /\ k[2] \in DOMAIN tabla_segmentos[k[1]] /\ k = <<k[1], k[2]>>
        /\ l[1] \in Pids /\ l[2] \in DOMAIN tabla_segmentos[l[1]] /\ l = <<l[1], l[2]>>
        /\ Seg(k) = tabla_segmentos[k[1]][k[2]] /\ Seg(l) = tabla_segmentos[l[1]][l[2]]
    BY <2>2, LugaresLema
  <2>4. k[1] # l[1] \/ k[2] # l[2]
    BY <2>1, <2>3
  <2>5. QED BY <2>2, <2>3, <2>4 DEF Sano, SegsDisj
<1>9. \A k, l \in EnRam : k # l =>
          Disjuntos(NuevaBase(k), Seg(k).limite, NuevaBase(l), Seg(l).limite)
  <2>1. SUFFICES ASSUME NEW k \in EnRam, NEW l \in EnRam, k # l
                 PROVE  Disjuntos(NuevaBase(k), Seg(k).limite, NuevaBase(l), Seg(l).limite)
    OBVIOUS
  <2>2. \/ Seg(k).direccion_base < Seg(l).direccion_base
        \/ Seg(l).direccion_base < Seg(k).direccion_base
    BY <2>1, <1>2, <1>8 DEF Disjuntos
  <2>3. QED BY <2>2, <1>7 DEF Disjuntos
<1>10. FinCompactado <= memoria_total_sistema
  <2> DEFINE C == Celdas(EnRam)
             B == 0 .. memoria_total_sistema - 1
             f == [c \in C |-> Seg(c[1]).direccion_base + c[2]]
  <2>1. memoria_total_sistema \in Nat
    BY DEF TypeOK
  <2>2. \A c \in C : /\ c[1] \in EnRam /\ c[2] \in Nat /\ c[2] < Seg(c[1]).limite
                     /\ c = <<c[1], c[2]>>
    BY DEF Celdas
  <2>3. f \in [C -> B]
    BY <1>2, <2>1, <2>2
  <2>4. ASSUME NEW c \in C, NEW d \in C, f[c] = f[d] PROVE c = d
    <3>1. Seg(c[1]).direccion_base + c[2] = Seg(d[1]).direccion_base + d[2]
      BY <2>4
    <3>2. c[1] = d[1]
      BY <3>1, <2>2, <1>2, <1>8 DEF Disjuntos
    <3>3. QED BY <3>1, <3>2, <2>2, <1>2
  <2>5. f \in Injection(C, B)
    BY <2>3, <2>4, Fun_IsInj
  <2>6. IsFiniteSet(B) /\ Cardinality(B) = memoria_total_sistema
    BY <2>1, FS_Interval
  <2>7. Cardinality(C) <= Cardinality(B)
    BY <2>5, <2>6, FS_Injection
  <2>8. QED BY <2>6, <2>7 DEF FinCompactado
<1>11. QED BY <1>3, <1>4, <1>6, <1>9, <1>10

-----------------------------------------------------------------------------
(* The inductive invariant. *)

\* What the thread is doing makes sense for the process it does it for.
HiloBien ==
    /\ hilo.pc # "libre" => hilo.pid \in Pids
    /\ hilo.pc \in {"elegido", "sin_hueco", "compactar", "reelegir"} =>
           /\ hilo.tam \in 1 .. SEGMENT_MAX_SIZE
           /\ Len(tabla_segmentos[hilo.pid]) < MaxSegmentos

MemoriaSana == Sano(lista_huecos_libres, tabla_segmentos, memoria_total_sistema)

\* The bytes of a stick that is connecting are the last of memory, and nothing
\* is in them; no two sticks are connecting.
SticksSanos ==
    /\ \A m, n \in Conectando : m = n
    /\ \A m \in Conectando :
           /\ ms[m].base + TamanioStick[m] = memoria_total_sistema
           /\ StickLejos(lista_huecos_libres, tabla_segmentos, ms[m].base, TamanioStick[m])

\* The blocks of a segment in SWAP exist.
EnBloques ==
    \A p \in Pids : \A i \in DOMAIN tabla_segmentos[p] :
        tabla_segmentos[p][i].en_swap =>
            tabla_segmentos[p][i].bloque_swap
                + BloquesNecesarios(tabla_segmentos[p][i].limite) <= TotalBloques

IInv ==
    /\ TypeOK /\ HiloBien /\ Acotada
    /\ MemoriaSana /\ SticksSanos /\ EnBloques /\ HuecoVigente

\* The blocks of a segment hold all its bytes.
LEMMA BloquesLema ==
    ASSUME NEW l \in Nat \ {0}
    PROVE  /\ BloquesNecesarios(l) \in Nat \ {0}
           /\ l <= BloquesNecesarios(l) * BlockSize
<1> DEFINE x == l + BlockSize - 1
           q == x \div BlockSize
<1>1. BlockSize \in Nat /\ BlockSize > 0 /\ x \in Nat
  BY KMAssumption DEF KMAssumption
<1>2. /\ q \in Int /\ x % BlockSize \in 0 .. BlockSize - 1
      /\ x = BlockSize * q + (x % BlockSize)
  BY <1>1
<1>3. l <= BlockSize * q
  BY <1>1, <1>2
<1>4. BlockSize * q = q * BlockSize
  BY <1>1, <1>2
<1>5. q > 0
  <2>1. SUFFICES ASSUME q <= 0 PROVE FALSE
    BY <1>2
  <2>2. BlockSize * q <= 0
    BY <2>1, <1>1, <1>2
  <2>3. QED BY <2>2, <1>1, <1>2, <1>3
<1>6. QED BY <1>2, <1>3, <1>4, <1>5 DEF BloquesNecesarios

\* Compaction leaves memory sound, and changes nothing of a segment but its base.
LEMMA CompactarSano ==
    ASSUME TypeOK, Acotada, MemoriaSana, EnBloques, Compactar
    PROVE  /\ lista_huecos_libres' \subseteq Hueco
           /\ tabla_segmentos' \in Tablas
           /\ memoria' \in [Direcciones -> Valores]
           /\ Acotada' /\ EnBloques' /\ MemoriaSana'
           /\ \A p \in Pids : Len(tabla_segmentos'[p]) = Len(tabla_segmentos[p])
<1> DEFINE t == tabla_segmentos
           t2 == tabla_segmentos'
           T == memoria_total_sistema
           fin == FinCompactado
<1>1. /\ fin \in Nat /\ fin <= T
      /\ \A l \in EnRam : NuevaBase(l) \in Nat
      /\ \A l \in EnRam : NuevaBase(l) + Seg(l).limite <= fin
      /\ \A k, l \in EnRam : k # l =>
             Disjuntos(NuevaBase(k), Seg(k).limite, NuevaBase(l), Seg(l).limite)
  BY NuevaBaseLema DEF MemoriaSana
<1>2. T \in Nat /\ T <= MemoriaMaxima /\ t \in Tablas
  BY KMAssumption DEF TypeOK, Tablas, KMAssumption
<1>3. ASSUME NEW p \in Pids
      PROVE  /\ t2[p] \in Seq(Segmento)
             /\ Len(t2[p]) = Len(t[p]) /\ DOMAIN t2[p] = DOMAIN t[p]
             /\ \A i \in DOMAIN t[p] :
                  /\ t2[p][i].limite = t[p][i].limite
                  /\ t2[p][i].en_swap = t[p][i].en_swap
                  /\ t2[p][i].bloque_swap = t[p][i].bloque_swap
                  /\ ~t[p][i].en_swap => /\ <<p, i>> \in EnRam
                                         /\ Seg(<<p, i>>) = t[p][i]
                                         /\ t2[p][i].direccion_base = NuevaBase(<<p, i>>)
                  /\ t[p][i].en_swap => t2[p][i] = t[p][i]
  <2> DEFINE s == [i \in DOMAIN t[p] |->
                     IF <<p, i>> \in EnRam
                     THEN [t[p][i] EXCEPT !.direccion_base = NuevaBase(<<p, i>>)]
                     ELSE t[p][i]]
  <2>1. t2[p] = s
    BY DEF Compactar
  <2>2. /\ t[p] \in Seq(Segmento) /\ DOMAIN t[p] = 1 .. Len(t[p])
        /\ Len(t[p]) \in Nat
    BY <1>2 DEF Tablas
  <2>3. ASSUME NEW i \in DOMAIN t[p]
        PROVE  /\ <<p, i>> \in EnRam <=> ~t[p][i].en_swap
               /\ Seg(<<p, i>>) = t[p][i]
               /\ t[p][i] \in Segmento
    BY <1>2, LugaresLema, SegmentoTipo DEF EnRam, Seg
  <2>4. ASSUME NEW i \in DOMAIN t[p]
        PROVE  /\ s[i] \in Segmento
               /\ s[i].limite = t[p][i].limite /\ s[i].en_swap = t[p][i].en_swap
               /\ s[i].bloque_swap = t[p][i].bloque_swap
               /\ ~t[p][i].en_swap => s[i].direccion_base = NuevaBase(<<p, i>>)
               /\ t[p][i].en_swap => s[i] = t[p][i]
    BY <2>3, <1>1 DEF Segmento
  <2>5. s \in Seq(Segmento) /\ Len(s) = Len(t[p]) /\ DOMAIN s = DOMAIN t[p]
    <3>1. s \in [1 .. Len(t[p]) -> Segmento]
      BY <2>2, <2>4
    <3> HIDE DEF s
    <3>2. QED BY <3>1, <2>2
  <2> HIDE DEF s
  <2>6. QED BY <2>1, <2>3, <2>4, <2>5
<1>4. t2 \in Tablas
  <2>1. t2 = [p \in Pids |-> t2[p]]
    BY DEF Compactar
  <2>2. QED BY <2>1, <1>3 DEF Tablas
<1>5. Acotada'
  BY <1>3 DEF Acotada
<1>6. EnBloques'
  <2>1. SUFFICES ASSUME NEW p \in Pids, NEW i \in DOMAIN t2[p], t2[p][i].en_swap
                 PROVE  t2[p][i].bloque_swap
                            + BloquesNecesarios(t2[p][i].limite) <= TotalBloques
    BY DEF EnBloques
  <2>2. i \in DOMAIN t[p] /\ t[p][i].en_swap /\ t2[p][i] = t[p][i]
    BY <2>1, <1>3
  <2>3. QED BY <2>2 DEF EnBloques
<1>7. SegsDisj(t2)
  <2>1. SUFFICES ASSUME NEW p \in Pids, NEW q \in Pids,
                        NEW i \in DOMAIN t2[p], NEW j \in DOMAIN t2[q],
                        p # q \/ i # j, ~t2[p][i].en_swap, ~t2[q][j].en_swap
                 PROVE  Disjuntos(t2[p][i].direccion_base, t2[p][i].limite,
                                  t2[q][j].direccion_base, t2[q][j].limite)
    BY DEF SegsDisj
  <2>2. <<p, i>> # <<q, j>>
    BY <2>1
  <2>3. /\ i \in DOMAIN t[p] /\ ~t[p][i].en_swap
        /\ j \in DOMAIN t[q] /\ ~t[q][j].en_swap
    BY <2>1, <1>3
  <2>4. /\ <<p, i>> \in EnRam /\ Seg(<<p, i>>) = t[p][i]
        /\ t2[p][i].direccion_base = NuevaBase(<<p, i>>)
        /\ t2[p][i].limite = t[p][i].limite
    BY <2>3, <1>3
  <2>5. /\ <<q, j>> \in EnRam /\ Seg(<<q, j>>) = t[q][j]
        /\ t2[q][j].direccion_base = NuevaBase(<<q, j>>)
        /\ t2[q][j].limite = t[q][j].limite
    BY <2>3, <1>3
  <2>6. QED BY <2>2, <2>4, <2>5, <1>1
<1>8. ASSUME NEW p \in Pids, NEW i \in DOMAIN t2[p], ~t2[p][i].en_swap
      PROVE  /\ t2[p][i].direccion_base \in Nat /\ t2[p][i].limite \in Nat
             /\ t2[p][i].direccion_base + t2[p][i].limite <= fin
  <2>1. i \in DOMAIN t[p] /\ ~t[p][i].en_swap
    BY <1>3, <1>8
  <2>2. /\ <<p, i>> \in EnRam /\ Seg(<<p, i>>) = t[p][i]
        /\ t2[p][i].direccion_base = NuevaBase(<<p, i>>)
        /\ t2[p][i].limite = t[p][i].limite
    BY <2>1, <1>3
  <2>3. t[p][i].limite \in Nat
    BY <2>1, <1>2, SegmentoTipo
  <2>4. QED BY <2>2, <2>3, <1>1
<1>9. SegsBajo(t2, T)
  <2>1. SUFFICES ASSUME NEW p \in Pids, NEW i \in DOMAIN t2[p]
                 PROVE  t2[p][i].direccion_base + t2[p][i].limite <= T
    BY DEF SegsBajo
  <2>2. CASE t2[p][i].en_swap
    BY <2>2, <1>3 DEF MemoriaSana, Sano, SegsBajo
  <2>3. CASE ~t2[p][i].en_swap
    BY <2>3, <1>8, <1>1, <1>2
  <2>4. QED BY <2>2, <2>3
<1>10. \A h \in lista_huecos_libres' : /\ h = [base |-> fin, tam |-> T - fin]
                                       /\ fin < T
  BY <1>1, <1>2 DEF Compactar
<1>11. lista_huecos_libres' \subseteq Hueco
  BY <1>1, <1>2, <1>10 DEF Hueco
<1>12. HuecosDisj(lista_huecos_libres') /\ HuecosBajo(lista_huecos_libres', T)
  BY <1>1, <1>2, <1>10 DEF HuecosDisj, HuecosBajo
<1>13. Apartados(lista_huecos_libres', t2)
  BY <1>1, <1>2, <1>8, <1>10 DEF Apartados, Lejos, Disjuntos
<1>14. MemoriaSana'
  <2>1. memoria_total_sistema' = T
    BY DEF Compactar
  <2>2. QED BY <2>1, <1>7, <1>9, <1>12, <1>13 DEF MemoriaSana, Sano
<1>15. memoria' \in [Direcciones -> Valores]
  <2>1. ASSUME NEW a \in Direcciones, NEW l \in EnRam,
               NuevaBase(l) <= a, a < NuevaBase(l) + Seg(l).limite
        PROVE  memoria[Seg(l).direccion_base + (a - NuevaBase(l))] \in Valores
    <3>1. l \in Lugares
      BY DEF EnRam
    <3>2. /\ Seg(l).direccion_base \in Nat /\ Seg(l).limite \in Nat
          /\ Seg(l).direccion_base + Seg(l).limite <= T
      BY <3>1, LugaresLema, KMAssumption DEF MemoriaSana, Sano, SegsBajo, KMAssumption
    <3>3. NuevaBase(l) \in Nat /\ a \in Nat
      BY <1>1 DEF Direcciones
    <3>4. Seg(l).direccion_base + (a - NuevaBase(l)) \in Direcciones
      BY <3>2, <3>3, <2>1, <1>2, KMAssumption DEF Direcciones, KMAssumption
    <3>5. QED BY <3>4 DEF TypeOK
  <2>2. QED
    BY <2>1 DEF Compactar, TypeOK
<1>16. QED BY <1>3, <1>4, <1>5, <1>6, <1>11, <1>14, <1>15

-----------------------------------------------------------------------------
(* The invariant holds at the start, and every step keeps it. *)

HiloTipo == [pc : Pasos, pid : Pids \cup {Nadie}, id : Ids, tam : Nat,
             base : Nat, i : Nat, exito : BOOLEAN]

\* The state of the idle thread, and of the thread that begins a request.
LEMMA OciosoTipo ==
    /\ Ocioso \in HiloTipo /\ Ocioso.pc = "libre"
    /\ \A pc \in Pasos, p \in Pids : [Ocioso EXCEPT !.pc = pc, !.pid = p] \in HiloTipo
    /\ \A pc \in Pasos, p \in Pids, i \in Nat :
           [Ocioso EXCEPT !.pc = pc, !.pid = p, !.i = i] \in HiloTipo
    /\ \A pc \in Pasos, p \in Pids, id \in Ids, tam \in Nat :
           [Ocioso EXCEPT !.pc = pc, !.pid = p, !.id = id, !.tam = tam] \in HiloTipo
    /\ \A p \in Pids, id \in Ids, tam \in Nat, b \in Nat :
           [Ocioso EXCEPT !.pc = "elegido", !.pid = p, !.id = id,
                          !.tam = tam, !.base = b] \in HiloTipo
<1>1. (CHOOSE x \in Ids : TRUE) \in Ids
  BY KMAssumption DEF KMAssumption
<1>2. QED BY <1>1, ZenonT(60) DEF Ocioso, HiloTipo, Pasos

\* What the type invariant says, in the terms of the lemmas above.
LEMMA Hechos ==
    ASSUME TypeOK
    PROVE  /\ lista_huecos_libres \in SUBSET Hueco
           /\ tabla_segmentos \in Tablas
           /\ memoria_total_sistema \in Nat /\ MemoriaMaxima \in Nat
           /\ memoria_total_sistema <= MemoriaMaxima
           /\ hilo \in HiloTipo
           /\ \A m \in Sticks : ms[m].base \in Nat /\ TamanioStick[m] \in Nat \ {0}
  BY KMAssumption DEF TypeOK, Tablas, KMAssumption, HiloTipo

\* A step that touches neither the holes, nor the tables, nor the sticks keeps the
\* invariant when it keeps the types and what is known of the thread.
LEMMA Quieta ==
    ASSUME IInv,
           UNCHANGED <<ms, memoria_total_sistema, lista_huecos_libres, tabla_segmentos>>,
           TypeOK', HiloBien', HuecoVigente'
    PROVE  IInv'
<1>1. Acotada' /\ EnBloques'
  BY DEF IInv, Acotada, EnBloques
<1>2. MemoriaSana' /\ SticksSanos'
  BY DEF IInv, MemoriaSana, SticksSanos, Conectando
<1>3. QED BY <1>1, <1>2 DEF IInv

LEMMA InicioIInv == Init => IInv
<1> SUFFICES ASSUME Init PROVE IInv
  OBVIOUS
<1>1. Ocioso \in HiloTipo
  BY OciosoTipo
<1>2. TypeOK
  BY <1>1, KMAssumption DEF Init, TypeOK, HiloTipo, KMAssumption, Estados
<1>3. HiloBien /\ HuecoVigente
  BY OciosoTipo DEF Init, HiloBien, HuecoVigente
<1>4. Acotada /\ EnBloques
  BY KMAssumption DEF Init, Acotada, EnBloques, KMAssumption
<1>5. MemoriaSana
  BY DEF Init, MemoriaSana, Sano, HuecosDisj, SegsDisj, Apartados, HuecosBajo, SegsBajo
<1>6. SticksSanos
  BY DEF Init, SticksSanos, Conectando
<1>7. QED BY <1>2, <1>3, <1>4, <1>5, <1>6 DEF IInv

\* A stick takes its place at the end of memory.
LEMMA ConectarIInv ==
    ASSUME IInv, NEW m \in Sticks, ConectarDeAUno(m)
    PROVE  IInv'
<1> DEFINE T == memoria_total_sistema
           T2 == memoria_total_sistema'
           H == lista_huecos_libres
           t == tabla_segmentos
<1>1. /\ H \in SUBSET Hueco /\ t \in Tablas /\ T \in Nat
      /\ TamanioStick[m] \in Nat \ {0}
  BY Hechos DEF IInv
<1>2. /\ T2 = T + TamanioStick[m] /\ T2 \in 0 .. MemoriaMaxima
      /\ ms' = [ms EXCEPT ![m] = [estado |-> "conectando", base |-> T]]
      /\ H' = H /\ t' = t /\ hilo' = hilo
      /\ Conectando = {}
  BY <1>1, Hechos DEF IInv, ConectarDeAUno, ConexionMemoryStick
<1>3. TypeOK'
  BY <1>1, <1>2 DEF IInv, TypeOK, ConectarDeAUno, ConexionMemoryStick
<1>4. HiloBien' /\ Acotada' /\ EnBloques' /\ HuecoVigente'
  BY <1>2 DEF IInv, HiloBien, Acotada, EnBloques, HuecoVigente
<1>5. Sano(H, t, T)
  BY DEF IInv, MemoriaSana
<1>6. MemoriaSana'
  <2>1. HuecosBajo(H, T2)
    BY <1>1, <1>2, <1>5 DEF Sano, HuecosBajo, Hueco
  <2>2. SegsBajo(t, T2)
    <3>1. \A p \in Pids : \A i \in DOMAIN t[p] :
              t[p][i].direccion_base \in Nat /\ t[p][i].limite \in Nat
      BY <1>1, SegmentoTipo
    <3>2. QED BY <1>1, <1>2, <1>5, <3>1 DEF Sano, SegsBajo
  <2>3. QED BY <1>2, <1>5, <2>1, <2>2 DEF MemoriaSana, Sano
<1>7. Conectando' = {m}
  BY <1>2, <1>3 DEF Conectando, TypeOK, IInv
<1>8. ms'[m].base = T
  BY <1>2 DEF IInv, TypeOK
<1>9. StickLejos(H, t, T, TamanioStick[m])
  <2>1. Lejos(H, T, TamanioStick[m])
    BY <1>5 DEF Sano, HuecosBajo, Lejos, Disjuntos
  <2>2. SegsLejos(t, T, TamanioStick[m])
    BY <1>5 DEF Sano, SegsBajo, SegsLejos, Disjuntos
  <2>3. QED BY <2>1, <2>2 DEF StickLejos
<1>10. SticksSanos'
  BY <1>2, <1>7, <1>8, <1>9 DEF SticksSanos
<1>11. QED BY <1>3, <1>4, <1>6, <1>10 DEF IInv

\* The hole of a stick joins the list.  A hole that was chosen keeps its base: it
\* does not begin where the stick ends, because memory ends there.
LEMMA AgregarIInv ==
    ASSUME IInv, NEW m \in Sticks, AgregarHuecoStick(m)
    PROVE  IInv'
<1> DEFINE T == memoria_total_sistema
           H == lista_huecos_libres
           t == tabla_segmentos
           b == ms[m].base
           l == TamanioStick[m]
           R == LiberarEspacio(H, b, l)
<1>1. /\ H \in SUBSET Hueco /\ t \in Tablas /\ T \in Nat
      /\ b \in Nat /\ l \in Nat \ {0}
  BY Hechos DEF IInv
<1>2. /\ ms[m].estado = "conectando"
      /\ ms' = [ms EXCEPT ![m].estado = "lista"]
      /\ H' = R /\ t' = t /\ memoria_total_sistema' = T /\ hilo' = hilo
  BY DEF AgregarHuecoStick
<1>3. m \in Conectando /\ b + l = T /\ StickLejos(H, t, b, l)
  BY <1>2 DEF Conectando, IInv, SticksSanos
<1>4. Sano(H, t, T) /\ Resto(t, t)
  BY DEF IInv, MemoriaSana, Resto
<1>5. /\ R \subseteq Hueco /\ Sano(R, t, T)
      /\ \A h \in H : h.base # b + l => \E r \in R : r.base = h.base /\ r.tam >= h.tam
  <2>1. Lejos(H, b, l) /\ SegsLejos(t, b, l) /\ b + l <= T
    BY <1>1, <1>3 DEF StickLejos
  <2> HIDE DEF H, t, T, b, l
  <2>2. QED BY <1>1, <1>4, <2>1, LiberarSano
<1> HIDE DEF R
<1>6. TypeOK'
  BY <1>2, <1>5, ZenonT(60) DEF AgregarHuecoStick, IInv, TypeOK
<1>7. HiloBien' /\ Acotada' /\ EnBloques' /\ MemoriaSana'
  BY <1>2, <1>5 DEF IInv, HiloBien, Acotada, EnBloques, MemoriaSana
<1>8. Conectando' = {}
  BY <1>2, <1>3 DEF Conectando, IInv, SticksSanos, TypeOK
<1>9. SticksSanos'
  BY <1>8 DEF SticksSanos
<1>10. HuecoVigente'
  <2>1. SUFFICES ASSUME hilo.pc = "elegido"
                 PROVE  \E r \in R : r.base = hilo.base /\ r.tam >= hilo.tam
    BY <1>2 DEF HuecoVigente
  <2>2. PICK h \in H : h.base = hilo.base /\ h.tam >= hilo.tam
    BY <2>1 DEF IInv, HuecoVigente
  <2>3. h.base # b + l
    <3>1. h.base + h.tam <= T /\ h.base \in Nat /\ h.tam \in Nat /\ h.tam > 0
      BY <1>1, <1>4 DEF Sano, HuecosBajo, Hueco
    <3>2. QED BY <3>1, <1>3, <1>1
  <2>4. PICK r \in R : r.base = h.base /\ r.tam >= h.tam
    BY <2>3, <1>5
  <2>5. r.tam \in Nat /\ h.tam \in Nat /\ hilo.tam \in Nat
    BY <1>1, <1>5, Hechos DEF IInv, Hueco, HiloTipo
  <2>6. r.base = hilo.base /\ r.tam >= hilo.tam
    BY <2>2, <2>4, <2>5
  <2>7. QED BY <2>6
<1>11. QED BY <1>6, <1>7, <1>9, <1>10 DEF IInv

\* A step that gives back the bytes of a segment in RAM, which the new tables no
\* longer have in RAM.
LEMMA LiberarIInv ==
    ASSUME IInv, NEW p \in Pids, NEW i \in DOMAIN tabla_segmentos[p],
           ~tabla_segmentos[p][i].en_swap,
           tabla_segmentos' \in Tablas, Resto(tabla_segmentos', tabla_segmentos),
           SegsLejos(tabla_segmentos', tabla_segmentos[p][i].direccion_base,
                     tabla_segmentos[p][i].limite),
           lista_huecos_libres' =
               LiberarEspacio(lista_huecos_libres, tabla_segmentos[p][i].direccion_base,
                              tabla_segmentos[p][i].limite),
           UNCHANGED <<ms, memoria_total_sistema>>
    PROVE  lista_huecos_libres' \subseteq Hueco /\ MemoriaSana' /\ SticksSanos'
<1> DEFINE T == memoria_total_sistema
           H == lista_huecos_libres
           t == tabla_segmentos
           t2 == tabla_segmentos'
           b == t[p][i].direccion_base
           l == t[p][i].limite
           R == LiberarEspacio(H, b, l)
<1>1. /\ H \in SUBSET Hueco /\ t \in Tablas /\ t2 \in Tablas /\ T \in Nat
      /\ b \in Nat /\ l \in Nat \ {0}
  BY Hechos, SegmentoTipo DEF IInv
<1>2. Sano(H, t, T)
  BY DEF IInv, MemoriaSana
<1>3. Lejos(H, b, l) /\ b + l <= T
  BY <1>2 DEF Sano, Apartados, SegsBajo
<1>4. Resto(t2, t) /\ SegsLejos(t2, b, l)
  OBVIOUS
<1>5. /\ R \subseteq Hueco
      /\ Sano(R, t2, T)
      /\ \A c \in Nat, u \in Nat \ {0} :
             StickLejos(H, t, c, u) /\ Disjuntos(b, l, c, u) => StickLejos(R, t2, c, u)
  <2> HIDE DEF H, t, t2, T, b, l
  <2>1. QED BY <1>1, <1>2, <1>3, <1>4, LiberarSano
<1>6. H' = R
  OBVIOUS
<1> HIDE DEF R
<1>7. MemoriaSana'
  BY <1>5, <1>6 DEF MemoriaSana
<1>8. ASSUME NEW m \in Conectando
      PROVE  StickLejos(R, t2, ms[m].base, TamanioStick[m])
  <2>1. StickLejos(H, t, ms[m].base, TamanioStick[m])
    BY DEF IInv, SticksSanos
  <2>2. Disjuntos(b, l, ms[m].base, TamanioStick[m])
    BY <2>1 DEF StickLejos, SegsLejos
  <2>3. ms[m].base \in Nat /\ TamanioStick[m] \in Nat \ {0}
    BY Hechos DEF IInv, Conectando
  <2>4. QED BY <2>1, <2>2, <2>3, <1>5
<1>9. SticksSanos'
  <2>1. Conectando' = Conectando
    BY DEF Conectando
  <2>2. QED BY <2>1, <1>6, <1>8 DEF SticksSanos, IInv
<1>10. QED BY <1>5, <1>6, <1>7, <1>9

\* A step that cuts a hole for one segment, which the tables had not in RAM.
LEMMA OcuparIInv ==
    ASSUME IInv, NEW p \in Pids, NEW i \in DOMAIN tabla_segmentos'[p],
           NEW h \in lista_huecos_libres,
           tabla_segmentos' \in Tablas,
           tabla_segmentos'[p][i].direccion_base = h.base,
           tabla_segmentos'[p][i].limite <= h.tam,
           \A q \in Pids : \A j \in DOMAIN tabla_segmentos'[q] :
               q # p \/ j # i => /\ j \in DOMAIN tabla_segmentos[q]
                                 /\ tabla_segmentos'[q][j] = tabla_segmentos[q][j],
           lista_huecos_libres' =
               Recortar(lista_huecos_libres, h, tabla_segmentos'[p][i].limite),
           UNCHANGED <<ms, memoria_total_sistema>>
    PROVE  lista_huecos_libres' \subseteq Hueco /\ MemoriaSana' /\ SticksSanos'
<1> DEFINE T == memoria_total_sistema
           H == lista_huecos_libres
           t == tabla_segmentos
           t2 == tabla_segmentos'
           R == Recortar(H, h, t2[p][i].limite)
<1>1. /\ H \in SUBSET Hueco /\ t \in Tablas /\ t2 \in Tablas /\ T \in Nat
      /\ h \in H /\ i \in DOMAIN t2[p]
      /\ t2[p][i].direccion_base = h.base /\ t2[p][i].limite <= h.tam
      /\ \A q \in Pids : \A j \in DOMAIN t2[q] :
             q # p \/ j # i => j \in DOMAIN t[q] /\ t2[q][j] = t[q][j]
  BY Hechos DEF IInv
<1>2. Sano(H, t, T)
  BY DEF IInv, MemoriaSana
<1>3. /\ R \subseteq Hueco
      /\ Sano(R, t2, T)
      /\ \A c \in Nat, u \in Nat \ {0} : StickLejos(H, t, c, u) => StickLejos(R, t2, c, u)
  <2> HIDE DEF H, t, t2, T
  <2>1. QED BY <1>1, <1>2, OcuparSano
<1>4. H' = R
  OBVIOUS
<1> HIDE DEF R
<1>5. MemoriaSana'
  BY <1>3, <1>4 DEF MemoriaSana
<1>6. ASSUME NEW m \in Conectando
      PROVE  StickLejos(R, t2, ms[m].base, TamanioStick[m])
  <2>1. StickLejos(H, t, ms[m].base, TamanioStick[m])
    BY DEF IInv, SticksSanos
  <2>2. ms[m].base \in Nat /\ TamanioStick[m] \in Nat \ {0}
    BY Hechos DEF IInv, Conectando
  <2>3. QED BY <2>1, <2>2, <1>3
<1>7. SticksSanos'
  <2>1. Conectando' = Conectando
    BY DEF Conectando
  <2>2. QED BY <2>1, <1>4, <1>6 DEF SticksSanos, IInv
<1>8. QED BY <1>3, <1>4, <1>5, <1>7

LEMMA EliminarIInv ==
    ASSUME IInv, NEW p \in Pids, NEW id \in Ids, TodoEnRam(p), EliminarSegmento(p, id)
    PROVE  IInv'
<1> DEFINE t == tabla_segmentos
<1>1. PICK i \in PrimerIndice(p, id) :
        /\ t' = [t EXCEPT ![p] = QuitarIndice(@, i)]
        /\ lista_huecos_libres' =
               LiberarEspacio(lista_huecos_libres, t[p][i].direccion_base, t[p][i].limite)
  BY DEF EliminarSegmento
<1>2. i \in DOMAIN t[p] /\ ~t[p][i].en_swap /\ t \in Tablas /\ t[p] \in Seq(Segmento)
  BY Hechos DEF IInv, PrimerIndice, TodoEnRam, Tablas
<1> DEFINE r == QuitarIndice(t[p], i)
<1>3. /\ r \in Seq(Segmento)
      /\ Len(r) = Len(t[p]) - 1
      /\ DOMAIN r = 1 .. Len(t[p]) - 1
      /\ \A j \in 1 .. Len(t[p]) - 1 : r[j] = t[p][IF j < i THEN j ELSE j + 1]
  BY <1>2, QuitarIndiceLema
<1>4. t' = [t EXCEPT ![p] = r]
  BY <1>1
<1> HIDE DEF r
<1>5. /\ t' \in Tablas /\ Resto(t', t)
      /\ SegsLejos(t', t[p][i].direccion_base, t[p][i].limite)
  <2>1. SegsDisj(t)
    BY DEF IInv, MemoriaSana, Sano
  <2> HIDE DEF t
  <2>2. QED BY <2>1, <1>2, <1>3, <1>4, QuitarLema
<1>6. lista_huecos_libres' \subseteq Hueco /\ MemoriaSana' /\ SticksSanos'
  <2>1. UNCHANGED <<ms, memoria_total_sistema>>
    BY DEF EliminarSegmento
  <2>2. QED BY <1>1, <1>2, <1>5, <2>1, LiberarIInv
<1>7. TypeOK'
  BY <1>5, <1>6 DEF IInv, TypeOK, EliminarSegmento, Tablas
<1>8. hilo.pc = "libre" /\ hilo' = hilo
  BY DEF EliminarSegmento, Libre
<1>9. HiloBien' /\ HuecoVigente'
  BY <1>8 DEF IInv, HiloBien, HuecoVigente
<1>10. Acotada'
  <2>1. ASSUME NEW q \in Pids PROVE Len(t'[q]) <= MaxSegmentos
    <3>1. CASE q = p
      BY <3>1, <1>2, <1>3, <1>4, KMAssumption DEF IInv, Acotada, Tablas, KMAssumption
    <3>2. CASE q # p
      BY <3>2, <1>2, <1>4 DEF IInv, Acotada, Tablas
    <3>3. QED BY <3>1, <3>2
  <2>2. QED BY <2>1 DEF Acotada
<1>11. EnBloques'
  <2>1. SUFFICES ASSUME NEW q \in Pids, NEW j \in DOMAIN t'[q], t'[q][j].en_swap
                 PROVE  t'[q][j].bloque_swap + BloquesNecesarios(t'[q][j].limite)
                            <= TotalBloques
    BY DEF EnBloques
  <2>2. PICK k \in DOMAIN t[q] : t'[q][j] = t[q][k]
    <3>1. CASE q = p
      <4>1. t'[q] = r /\ j \in 1 .. Len(t[p]) - 1
        BY <3>1, <1>2, <1>3, <1>4 DEF Tablas
      <4>2. (IF j < i THEN j ELSE j + 1) \in DOMAIN t[p]
        BY <4>1, <1>2
      <4>3. QED BY <4>1, <4>2, <3>1, <1>3
    <3>2. CASE q # p
      BY <3>2, <1>2, <1>4 DEF Tablas
    <3>3. QED BY <3>1, <3>2
  <2>3. QED BY <2>1, <2>2 DEF IInv, EnBloques
<1>12. QED BY <1>6, <1>7, <1>9, <1>10, <1>11 DEF IInv

\* The head of the table of a finished process goes; its bytes or its blocks with
\* it.
LEMMA FinalizarIInv ==
    ASSUME IInv, LiberarSegmentoFinalizado
    PROVE  IInv'
<1> DEFINE t == tabla_segmentos
           p == hilo.pid
           r == Tail(t[p])
<1>1. /\ hilo.pc = "finalizando" /\ t[p] # <<>> /\ t' = [t EXCEPT ![p] = r]
      /\ hilo' = hilo /\ UNCHANGED <<ms, memoria_total_sistema>>
  BY DEF LiberarSegmentoFinalizado
<1>2. p \in Pids /\ t \in Tablas
  BY <1>1, Hechos DEF IInv, HiloBien
<1>3. t[p] \in Seq(Segmento) /\ Len(t[p]) \in Nat /\ DOMAIN t[p] = 1 .. Len(t[p])
  BY <1>2 DEF Tablas
<1>4. 1 \in DOMAIN t[p] /\ Head(t[p]) = t[p][1]
  BY <1>1, <1>3
<1>5. /\ r \in Seq(Segmento)
      /\ Len(r) = Len(t[p]) - 1
      /\ DOMAIN r = 1 .. Len(t[p]) - 1
      /\ \A j \in 1 .. Len(t[p]) - 1 : r[j] = t[p][j + 1]
  BY <1>1, <1>3
<1> HIDE DEF r
<1>6. \A j \in 1 .. Len(t[p]) - 1 : r[j] = t[p][IF j < 1 THEN j ELSE j + 1]
  BY <1>5
<1>7. /\ t' \in Tablas /\ Resto(t', t)
      /\ ~t[p][1].en_swap => SegsLejos(t', t[p][1].direccion_base, t[p][1].limite)
  <2>1. SegsDisj(t)
    BY DEF IInv, MemoriaSana, Sano
  <2> HIDE DEF t, p
  <2>2. QED BY <2>1, <1>1, <1>2, <1>4, <1>5, <1>6, QuitarLema
<1>8. lista_huecos_libres' \subseteq Hueco /\ MemoriaSana' /\ SticksSanos'
  <2>1. CASE t[p][1].en_swap
    <3>1. lista_huecos_libres' = lista_huecos_libres
      BY <2>1, <1>4 DEF LiberarSegmentoFinalizado
    <3>2. lista_huecos_libres \in SUBSET Hueco /\ memoria_total_sistema \in Nat
      BY Hechos DEF IInv
    <3>3. MemoriaSana'
      BY <1>1, <1>7, <3>1, <3>2 DEF IInv, MemoriaSana, Sano, Resto
    <3>4. \A m \in Conectando : ms[m].base \in Nat /\ TamanioStick[m] \in Nat \ {0}
      BY Hechos DEF IInv, Conectando
    <3>5. Conectando' = Conectando
      BY <1>1 DEF Conectando
    <3>6. SticksSanos'
      BY <1>1, <1>7, <3>1, <3>4, <3>5 DEF IInv, SticksSanos, StickLejos, Resto
    <3>7. QED BY <3>1, <3>2, <3>3, <3>6
  <2>2. CASE ~t[p][1].en_swap
    <3>1. lista_huecos_libres' =
              LiberarEspacio(lista_huecos_libres, t[p][1].direccion_base, t[p][1].limite)
      BY <2>2, <1>4 DEF LiberarSegmentoFinalizado
    <3>2. QED BY <2>2, <3>1, <1>1, <1>2, <1>4, <1>7, LiberarIInv
  <2>3. QED BY <2>1, <2>2
<1>9. bitmap_swap' \subseteq bitmap_swap
  BY DEF LiberarSegmentoFinalizado
<1>10. TypeOK'
  BY <1>1, <1>7, <1>8, <1>9 DEF IInv, TypeOK, LiberarSegmentoFinalizado, Tablas
<1>11. HiloBien' /\ HuecoVigente'
  BY <1>1 DEF IInv, HiloBien, HuecoVigente
<1>12. Acotada'
  <2>1. ASSUME NEW q \in Pids PROVE Len(t'[q]) <= MaxSegmentos
    <3>1. CASE q = p
      BY <3>1, <1>1, <1>2, <1>3, <1>5, KMAssumption DEF IInv, Acotada, Tablas, KMAssumption
    <3>2. CASE q # p
      BY <3>2, <1>1, <1>2 DEF IInv, Acotada, Tablas
    <3>3. QED BY <3>1, <3>2
  <2>2. QED BY <2>1 DEF Acotada
<1>13. EnBloques'
  <2>1. SUFFICES ASSUME NEW q \in Pids, NEW j \in DOMAIN t'[q], t'[q][j].en_swap
                 PROVE  t'[q][j].bloque_swap + BloquesNecesarios(t'[q][j].limite)
                            <= TotalBloques
    BY DEF EnBloques
  <2>2. PICK k \in DOMAIN t[q] : t'[q][j] = t[q][k]
    <3>1. CASE q = p
      <4>1. t'[q] = r /\ j \in 1 .. Len(t[p]) - 1
        BY <3>1, <1>1, <1>2, <1>5 DEF Tablas
      <4>2. j + 1 \in DOMAIN t[p] /\ r[j] = t[p][j + 1]
        BY <4>1, <1>3, <1>5
      <4>3. QED BY <4>1, <4>2, <3>1
    <3>2. CASE q # p
      BY <3>2, <1>1, <1>2 DEF Tablas
    <3>3. QED BY <3>1, <3>2
  <2>3. QED BY <2>1, <2>2 DEF IInv, EnBloques
<1>14. QED BY <1>8, <1>10, <1>11, <1>12, <1>13 DEF IInv

LEMMA MoverIInv ==
    ASSUME IInv, MoverSegmentoASwap
    PROVE  IInv'
<1> DEFINE t == tabla_segmentos
           p == hilo.pid
           i == hilo.i
           seg == t[p][i]
           n == BloquesNecesarios(seg.limite)
<1>1. /\ hilo.pc = "suspendiendo" /\ i \in DOMAIN t[p] /\ ~seg.en_swap
      /\ lista_huecos_libres' =
             LiberarEspacio(lista_huecos_libres, seg.direccion_base, seg.limite)
      /\ hilo' = [hilo EXCEPT !.i = @ + 1]
      /\ UNCHANGED <<ms, memoria_total_sistema, contextos, memoria, estado>>
  BY DEF MoverSegmentoASwap
<1>2. PICK b \in IniciosLibres(n) :
        /\ bitmap_swap' = bitmap_swap \cup (b .. b + n - 1)
        /\ swap' = CopiarASwap(seg, b)
        /\ t' = [t EXCEPT ![p][i] = [seg EXCEPT !.en_swap = TRUE, !.bloque_swap = b]]
  BY DEF MoverSegmentoASwap
<1>3. p \in Pids /\ t \in Tablas /\ hilo \in HiloTipo
  BY <1>1, Hechos DEF IInv, HiloBien
<1>4. /\ seg \in Segmento /\ seg.direccion_base \in Nat /\ seg.limite \in Nat \ {0}
      /\ n \in Nat \ {0}
  BY <1>1, <1>3, SegmentoTipo, BloquesLema
<1>5. b \in Bloques /\ b \in Nat /\ b + n <= TotalBloques
  BY DEF IniciosLibres, Bloques
<1>6. /\ t' \in Tablas /\ Resto(t', t)
      /\ SegsLejos(t', seg.direccion_base, seg.limite)
  <2>1. SegsDisj(t)
    BY DEF IInv, MemoriaSana, Sano
  <2> HIDE DEF t, p, i
  <2>2. QED BY <2>1, <1>1, <1>2, <1>3, <1>5, MoverLema
<1>7. lista_huecos_libres' \subseteq Hueco /\ MemoriaSana' /\ SticksSanos'
  BY <1>1, <1>3, <1>6, LiberarIInv
<1>8. bitmap_swap' \subseteq Bloques
  BY <1>2, <1>4, <1>5, KMAssumption, SMTT(30) DEF IInv, TypeOK, Bloques, KMAssumption
<1>9. swap' \in [BytesSwap -> Valores]
  <2>1. ASSUME NEW x \in BytesSwap,
               NEW k \in 0 .. seg.limite - 1
        PROVE  memoria[seg.direccion_base + k] \in Valores
    <3>1. seg.direccion_base + seg.limite <= memoria_total_sistema
      BY <1>1, <1>3 DEF IInv, MemoriaSana, Sano, SegsBajo
    <3>2. memoria_total_sistema \in Nat /\ memoria_total_sistema <= MemoriaMaxima
          /\ MemoriaMaxima \in Nat
      BY Hechos DEF IInv
    <3>3. seg.direccion_base + k \in Direcciones
      BY <3>1, <3>2, <1>4 DEF Direcciones
    <3>4. QED BY <3>3 DEF IInv, TypeOK
  <2>2. swap \in [BytesSwap -> Valores] /\ 0 \in Valores
    BY KMAssumption DEF IInv, TypeOK, KMAssumption
  <2>3. QED BY <2>1, <2>2, <1>2 DEF CopiarASwap
<1>10. hilo' \in HiloTipo /\ hilo'.pc = "suspendiendo" /\ hilo'.pid = p
  BY <1>1, <1>3 DEF HiloTipo
<1>11. TypeOK'
  BY <1>1, <1>6, <1>7, <1>8, <1>9, <1>10 DEF IInv, TypeOK, Tablas, HiloTipo
<1>12. HiloBien' /\ HuecoVigente'
  BY <1>3, <1>10 DEF HiloBien, HuecoVigente
<1>13. ASSUME NEW q \in Pids
       PROVE  /\ Len(t'[q]) = Len(t[q]) /\ DOMAIN t'[q] = DOMAIN t[q]
              /\ \A j \in DOMAIN t[q] :
                     \/ t'[q][j] = t[q][j]
                     \/ t'[q][j].bloque_swap = b /\ t'[q][j].limite = seg.limite
  <2> DEFINE x == [seg EXCEPT !.en_swap = TRUE, !.bloque_swap = b]
  <2>1. x.bloque_swap = b /\ x.limite = seg.limite
    BY <1>4 DEF Segmento
  <2>2. t' = [t EXCEPT ![p][i] = x]
    BY <1>2
  <2>3. t \in [Pids -> Seq(Segmento)]
    BY <1>3 DEF Tablas
  <2> HIDE DEF x, t, p, i
  <2>4. CASE q = p
    <3>1. t'[q] = [t[q] EXCEPT ![i] = x]
      BY <2>2, <2>3, <2>4
    <3>2. t[q] \in Seq(Segmento)
      BY <2>3
    <3>3. Len(t'[q]) = Len(t[q]) /\ DOMAIN t'[q] = DOMAIN t[q]
      BY <3>1, <3>2
    <3>4. \A j \in DOMAIN t[q] : t'[q][j] = IF j = i THEN x ELSE t[q][j]
      BY <3>1
    <3>5. QED BY <2>1, <3>3, <3>4
  <2>5. CASE q # p
    BY <2>2, <2>3, <2>5
  <2>6. QED BY <2>4, <2>5
<1>14. Acotada'
  BY <1>13 DEF IInv, Acotada
<1>15. EnBloques'
  <2>1. SUFFICES ASSUME NEW q \in Pids, NEW j \in DOMAIN t'[q], t'[q][j].en_swap
                 PROVE  t'[q][j].bloque_swap + BloquesNecesarios(t'[q][j].limite)
                            <= TotalBloques
    BY DEF EnBloques
  <2>2. CASE t'[q][j] = t[q][j]
    BY <2>1, <2>2, <1>13 DEF IInv, EnBloques
  <2>3. CASE t'[q][j].bloque_swap = b /\ t'[q][j].limite = seg.limite
    BY <2>3, <1>5
  <2>4. QED BY <2>1, <2>2, <2>3, <1>13
<1>16. QED BY <1>7, <1>11, <1>12, <1>14, <1>15 DEF IInv

LEMMA CrearSegmentoIInv ==
    ASSUME IInv, CrearSegmento
    PROVE  IInv'
<1> DEFINE t == tabla_segmentos
           p == hilo.pid
           i == Len(t[p]) + 1
           s(h) == [id_segmento |-> hilo.id, direccion_base |-> h.base,
                    limite |-> hilo.tam, en_swap |-> FALSE, bloque_swap |-> 0]
<1>1. /\ hilo.pc = "elegido" /\ hilo' = Ocioso
      /\ UNCHANGED <<ms, memoria_total_sistema, contextos, bitmap_swap, memoria,
                     swap, estado>>
  BY DEF CrearSegmento
<1>2. PICK h \in lista_huecos_libres :
        /\ h.base = hilo.base /\ h.tam >= hilo.tam
        /\ lista_huecos_libres' = Recortar(lista_huecos_libres, h, hilo.tam)
        /\ t' = [t EXCEPT ![p] = Append(@, s(h))]
  BY DEF CrearSegmento
<1>3. /\ p \in Pids /\ t \in Tablas /\ hilo \in HiloTipo
      /\ hilo.tam \in 1 .. SEGMENT_MAX_SIZE /\ Len(t[p]) < MaxSegmentos
  BY <1>1, Hechos DEF IInv, HiloBien
<1>4. t[p] \in Seq(Segmento) /\ Len(t[p]) \in Nat /\ DOMAIN t[p] = 1 .. Len(t[p])
  BY <1>3 DEF Tablas
<1>5. h \in Hueco
  BY Hechos DEF IInv
<1>6. /\ s(h) \in Segmento /\ s(h).direccion_base = h.base
      /\ s(h).limite = hilo.tam /\ ~s(h).en_swap
  BY <1>3, <1>5 DEF Segmento, HiloTipo, Hueco
<1> DEFINE r == Append(t[p], s(h))
<1> HIDE DEF s
<1>7. /\ r \in Seq(Segmento) /\ Len(r) = i /\ DOMAIN r = 1 .. i
      /\ r[i] = s(h) /\ \A j \in 1 .. i - 1 : r[j] = t[p][j]
  BY <1>4, <1>6
<1>8. t' = [t EXCEPT ![p] = r]
  BY <1>2
<1> HIDE DEF r
<1>9. /\ t' \in Tablas
      /\ t'[p] = r /\ \A q \in Pids : q # p => t'[q] = t[q]
  BY <1>3, <1>7, <1>8 DEF Tablas
<1>10. \A q \in Pids : \A j \in DOMAIN t'[q] :
           q # p \/ j # i => j \in DOMAIN t[q] /\ t'[q][j] = t[q][j]
  <2>1. SUFFICES ASSUME NEW q \in Pids, NEW j \in DOMAIN t'[q], q # p \/ j # i
                 PROVE  j \in DOMAIN t[q] /\ t'[q][j] = t[q][j]
    OBVIOUS
  <2>2. CASE q # p
    BY <2>2, <1>9
  <2>3. CASE q = p
    <3>1. j \in 1 .. i /\ j # i
      BY <2>1, <2>3, <1>7, <1>9
    <3>2. j \in 1 .. i - 1
      BY <3>1, <1>4
    <3>3. QED BY <3>2, <2>3, <1>4, <1>7, <1>9
  <2>4. QED BY <2>2, <2>3
<1>11. lista_huecos_libres' \subseteq Hueco /\ MemoriaSana' /\ SticksSanos'
  <2>1. i \in DOMAIN t'[p] /\ t'[p][i] = s(h)
    BY <1>4, <1>7, <1>9
  <2>2. /\ t'[p][i].direccion_base = h.base /\ t'[p][i].limite = hilo.tam
        /\ t'[p][i].limite <= h.tam
    BY <2>1, <1>2, <1>3, <1>5, <1>6 DEF Hueco
  <2> HIDE DEF i
  <2>3. QED BY <2>1, <2>2, <1>1, <1>2, <1>3, <1>9, <1>10, OcuparIInv, ZenonT(60)
<1>12. TypeOK'
  BY <1>1, <1>9, <1>11, OciosoTipo DEF IInv, TypeOK, Tablas, HiloTipo
<1>13. HiloBien' /\ HuecoVigente'
  BY <1>1, OciosoTipo DEF HiloBien, HuecoVigente
<1>14. Acotada'
  BY <1>3, <1>4, <1>7, <1>9, KMAssumption DEF IInv, Acotada, KMAssumption
<1>15. EnBloques'
  <2>1. SUFFICES ASSUME NEW q \in Pids, NEW j \in DOMAIN t'[q], t'[q][j].en_swap
                 PROVE  t'[q][j].bloque_swap + BloquesNecesarios(t'[q][j].limite)
                            <= TotalBloques
    BY DEF EnBloques
  <2>2. q # p \/ j # i
    BY <2>1, <1>6, <1>7, <1>9
  <2>3. j \in DOMAIN t[q] /\ t'[q][j] = t[q][j]
    BY <2>2, <1>10
  <2>4. QED BY <2>1, <2>3 DEF IInv, EnBloques
<1>16. QED BY <1>11, <1>12, <1>13, <1>14, <1>15 DEF IInv

LEMMA RestaurarIInv ==
    ASSUME IInv, RestaurarSegmento
    PROVE  IInv'
<1> DEFINE t == tabla_segmentos
           p == hilo.pid
           i == hilo.i
           seg == t[p][i]
           n == BloquesNecesarios(seg.limite)
           s(h) == [seg EXCEPT !.en_swap = FALSE, !.direccion_base = h.base,
                               !.bloque_swap = 0]
<1>1. /\ hilo.pc = "desuspendiendo" /\ i \in DOMAIN t[p] /\ seg.en_swap
      /\ bitmap_swap' = bitmap_swap \ BloquesDe(seg)
      /\ hilo' = [hilo EXCEPT !.i = @ + 1]
      /\ UNCHANGED <<ms, memoria_total_sistema, contextos, swap, estado>>
  BY DEF RestaurarSegmento
<1>2. PICK h \in HuecosElegibles(seg.limite) :
        /\ lista_huecos_libres' = Recortar(lista_huecos_libres, h, seg.limite)
        /\ memoria' = CopiarARam(seg, h.base)
        /\ t' = [t EXCEPT ![p][i] = s(h)]
  BY DEF RestaurarSegmento
<1>3. p \in Pids /\ t \in Tablas /\ hilo \in HiloTipo
  BY <1>1, Hechos DEF IInv, HiloBien
<1>4. /\ seg \in Segmento /\ seg.limite \in Nat \ {0} /\ seg.bloque_swap \in Nat
      /\ n \in Nat \ {0} /\ seg.limite <= n * BlockSize
      /\ seg.bloque_swap + n <= TotalBloques
  BY <1>1, <1>3, SegmentoTipo, BloquesLema DEF IInv, EnBloques
<1>5. /\ h \in lista_huecos_libres /\ h \in Hueco
      /\ h.base \in Nat /\ h.tam \in Nat /\ seg.limite <= h.tam
  BY <1>4, Hechos DEF IInv, HuecosElegibles, HuecosValidos, Hueco
<1>6. /\ s(h) \in Segmento /\ s(h).direccion_base = h.base
      /\ s(h).limite = seg.limite /\ ~s(h).en_swap
  BY <1>4, <1>5 DEF Segmento
<1> HIDE DEF s
<1>7. t' \in Tablas
  BY <1>1, <1>2, <1>3, <1>6 DEF Tablas
<1>8. ASSUME NEW q \in Pids
      PROVE  /\ DOMAIN t'[q] = DOMAIN t[q] /\ Len(t'[q]) = Len(t[q])
             /\ \A j \in DOMAIN t[q] :
                    t'[q][j] = IF q = p /\ j = i THEN s(h) ELSE t[q][j]
  BY <1>2, <1>3 DEF Tablas
<1>9. lista_huecos_libres' \subseteq Hueco /\ MemoriaSana' /\ SticksSanos'
  <2>1. /\ i \in DOMAIN t'[p] /\ t'[p][i].direccion_base = h.base
        /\ t'[p][i].limite = seg.limite /\ t'[p][i].limite <= h.tam
    BY <1>1, <1>3, <1>5, <1>6, <1>8
  <2>2. \A q \in Pids : \A j \in DOMAIN t'[q] :
            q # p \/ j # i => j \in DOMAIN t[q] /\ t'[q][j] = t[q][j]
    BY <1>8
  <2>3. lista_huecos_libres' = Recortar(lista_huecos_libres, h, t'[p][i].limite)
    BY <1>2, <2>1
  <2>4. QED BY <2>1, <2>2, <2>3, <1>1, <1>3, <1>5, <1>7, OcuparIInv
<1>10. memoria' \in [Direcciones -> Valores]
  <2>1. ASSUME NEW a \in Direcciones, a \in h.base .. h.base + seg.limite - 1
        PROVE  swap[seg.bloque_swap * BlockSize + (a - h.base)] \in Valores
    <3>1. BlockSize \in Nat /\ TotalBloques \in Nat
      BY KMAssumption DEF KMAssumption
    <3>2. a - h.base \in Nat /\ a - h.base < n * BlockSize
      BY <2>1, <1>4, <1>5, <3>1 DEF Direcciones
    <3>3. PICK d \in Nat : TotalBloques = seg.bloque_swap + n + d
      <4>1. TotalBloques - (seg.bloque_swap + n) \in Nat
        BY <1>4, <3>1
      <4>2. QED BY <4>1, <1>4, <3>1, SMTT(30)
    <3>4. TotalBloques * BlockSize =
              seg.bloque_swap * BlockSize + n * BlockSize + d * BlockSize
      BY <3>1, <3>3, <1>4, SMTT(30)
    <3>5. /\ seg.bloque_swap * BlockSize \in Nat /\ n * BlockSize \in Nat
          /\ d * BlockSize \in Nat
      BY <3>1, <1>4
    <3>6. seg.bloque_swap * BlockSize + (a - h.base) \in BytesSwap
      BY <3>2, <3>4, <3>5 DEF BytesSwap
    <3>7. QED BY <3>6, <1>1 DEF IInv, TypeOK
  <2>2. memoria \in [Direcciones -> Valores]
    BY DEF IInv, TypeOK
  <2>3. QED BY <2>1, <2>2, <1>2 DEF CopiarARam
<1>11. hilo' \in HiloTipo /\ hilo'.pc = "desuspendiendo" /\ hilo'.pid = p
  BY <1>1, <1>3 DEF HiloTipo
<1>12. TypeOK'
  BY <1>1, <1>7, <1>9, <1>10, <1>11 DEF IInv, TypeOK, Tablas, HiloTipo
<1>13. HiloBien' /\ HuecoVigente'
  BY <1>3, <1>11 DEF HiloBien, HuecoVigente
<1>14. Acotada'
  BY <1>8 DEF IInv, Acotada
<1>15. EnBloques'
  BY <1>6, <1>8 DEF IInv, EnBloques
<1>16. QED BY <1>9, <1>12, <1>13, <1>14, <1>15 DEF IInv

\* No stick is connecting when memory is compacted.
LEMMA CompactarIInv ==
    ASSUME IInv, CompactarSinConexion
    PROVE  IInv'
<1>1. Compactar /\ Conectando = {}
  BY DEF CompactarSinConexion
<1>2. /\ hilo.pc = "compactar" /\ hilo' = [hilo EXCEPT !.pc = "reelegir"]
      /\ UNCHANGED <<ms, memoria_total_sistema, contextos, bitmap_swap, swap, estado>>
  BY <1>1 DEF Compactar
<1>3. /\ lista_huecos_libres' \subseteq Hueco
      /\ tabla_segmentos' \in Tablas
      /\ memoria' \in [Direcciones -> Valores]
      /\ Acotada' /\ EnBloques' /\ MemoriaSana'
      /\ \A p \in Pids : Len(tabla_segmentos'[p]) = Len(tabla_segmentos[p])
  BY <1>1, CompactarSano DEF IInv
<1>4. Conectando' = {}
  BY <1>1, <1>2 DEF Conectando
<1>5. SticksSanos'
  BY <1>4 DEF SticksSanos
<1>6. hilo \in HiloTipo
  BY Hechos DEF IInv
<1>7. /\ hilo' \in HiloTipo /\ hilo'.pc = "reelegir"
      /\ hilo'.pid = hilo.pid /\ hilo'.tam = hilo.tam
  BY <1>2, <1>6 DEF HiloTipo, Pasos
<1>8. HiloBien' /\ HuecoVigente'
  BY <1>2, <1>3, <1>7 DEF IInv, HiloBien, HuecoVigente
<1>9. TypeOK'
  BY <1>2, <1>3, <1>7 DEF IInv, TypeOK, Tablas, HiloTipo
<1>10. QED BY <1>3, <1>5, <1>8, <1>9 DEF IInv

\* The requests that begin, and the steps that change neither holes nor tables.
LEMMA PedidoIInv ==
    ASSUME IInv, NEW p \in Pids, Pedido(p)
    PROVE  IInv'
<1>0. TypeOK /\ HiloBien /\ hilo \in HiloTipo
  BY Hechos DEF IInv
<1>1. CASE CrearProceso(p)
  <2>1. TypeOK'
    BY <1>0, <1>1 DEF CrearProceso, TypeOK, Estados
  <2>2. HiloBien' /\ HuecoVigente'
    BY <1>1 DEF CrearProceso, Libre, HiloBien, HuecoVigente
  <2>3. QED BY <1>1, <2>1, <2>2, Quieta DEF CrearProceso
<1>2. CASE \E id \in Ids, tam \in Tamanios : PedirSegmento(p, id, tam)
  <2>1. PICK id \in Ids, tam \in Tamanios : PedirSegmento(p, id, tam)
    BY <1>2
  <2>2. /\ tam \in Nat /\ tam \in 1 .. SEGMENT_MAX_SIZE
        /\ Len(tabla_segmentos[p]) < MaxSegmentos
        /\ UNCHANGED <<ms, memoria_total_sistema, lista_huecos_libres, tabla_segmentos,
                       contextos, bitmap_swap, memoria, swap, estado>>
    BY <2>1, KMAssumption DEF PedirSegmento, KMAssumption
  <2>3. CASE \E h \in HuecosElegibles(tam) : Elegir(p, id, tam, h)
    <3>1. PICK h \in HuecosElegibles(tam) : Elegir(p, id, tam, h)
      BY <2>3
    <3>2. h \in lista_huecos_libres /\ h.tam >= tam /\ h.base \in Nat
      BY Hechos DEF IInv, HuecosElegibles, HuecosValidos, Hueco
    <3>3. /\ hilo' \in HiloTipo /\ hilo'.pid = p /\ hilo'.tam = tam
          /\ hilo'.base = h.base
      BY <2>2, <3>1, <3>2, OciosoTipo DEF Elegir, Ocioso
    <3>4. TypeOK'
      BY <1>0, <2>2, <3>3 DEF TypeOK, HiloTipo
    <3>5. HiloBien' /\ HuecoVigente'
      BY <2>2, <3>2, <3>3 DEF HiloBien, HuecoVigente
    <3>6. QED BY <2>2, <3>4, <3>5, Quieta
  <2>4. CASE hilo' = [Ocioso EXCEPT !.pc = "sin_hueco", !.pid = p, !.id = id, !.tam = tam]
    <3>1. /\ hilo' \in HiloTipo /\ hilo'.pid = p /\ hilo'.tam = tam
          /\ hilo'.pc = "sin_hueco"
      BY <2>2, <2>4, OciosoTipo DEF Ocioso, Pasos
    <3>2. TypeOK'
      BY <1>0, <2>2, <3>1 DEF TypeOK, HiloTipo
    <3>3. HiloBien' /\ HuecoVigente'
      BY <2>2, <3>1 DEF HiloBien, HuecoVigente
    <3>4. QED BY <2>2, <3>2, <3>3, Quieta
  <2>5. QED BY <2>1, <2>3, <2>4 DEF PedirSegmento
<1>3. CASE PedirSuspension(p)
  <2>1. /\ hilo' \in HiloTipo /\ hilo'.pc = "suspendiendo" /\ hilo'.pid = p
    BY <1>3, OciosoTipo DEF PedirSuspension, Ocioso, Pasos
  <2>2. TypeOK'
    BY <1>0, <1>3, <2>1 DEF PedirSuspension, TypeOK, HiloTipo, Estados
  <2>3. HiloBien' /\ HuecoVigente'
    BY <2>1 DEF HiloBien, HuecoVigente
  <2>4. QED BY <1>3, <2>2, <2>3, Quieta DEF PedirSuspension
<1>4. CASE PedirDesuspension(p)
  <2>1. /\ hilo' \in HiloTipo /\ hilo'.pc = "desuspendiendo" /\ hilo'.pid = p
    BY <1>4, OciosoTipo DEF PedirDesuspension, Ocioso, Pasos
  <2>2. TypeOK'
    BY <1>0, <1>4, <2>1 DEF PedirDesuspension, TypeOK, HiloTipo
  <2>3. HiloBien' /\ HuecoVigente'
    BY <2>1 DEF HiloBien, HuecoVigente
  <2>4. QED BY <1>4, <2>2, <2>3, Quieta DEF PedirDesuspension
<1>5. CASE PedirFinalizacion(p)
  <2>1. /\ hilo' \in HiloTipo /\ hilo'.pc = "finalizando" /\ hilo'.pid = p
    <3>1. [Ocioso EXCEPT !.pc = "finalizando", !.pid = p] \in HiloTipo
      BY OciosoTipo DEF Pasos
    <3>2. QED BY <1>5, <3>1 DEF PedirFinalizacion, Ocioso
  <2>2. TypeOK'
    BY <1>0, <1>5, <2>1 DEF PedirFinalizacion, TypeOK, HiloTipo, Estados
  <2>3. HiloBien' /\ HuecoVigente'
    BY <2>1 DEF HiloBien, HuecoVigente
  <2>4. QED BY <1>5, <2>2, <2>3, Quieta DEF PedirFinalizacion
<1>6. CASE \E id \in Ids, k \in 0 .. SEGMENT_MAX_SIZE - 1, n \in 1 .. SEGMENT_MAX_SIZE,
              v \in Valores : EscrituraMemoria(p, id, k, n, v)
  <2>1. PICK id \in Ids, k \in 0 .. SEGMENT_MAX_SIZE - 1, n \in 1 .. SEGMENT_MAX_SIZE,
              v \in Valores : EscrituraMemoria(p, id, k, n, v)
    BY <1>6
  <2>2. /\ memoria' \in [Direcciones -> Valores] /\ swap' \in [BytesSwap -> Valores]
        /\ UNCHANGED <<ms, memoria_total_sistema, lista_huecos_libres, tabla_segmentos,
                       contextos, bitmap_swap, hilo, estado>>
        /\ hilo.pc = "libre"
    BY <1>0, <2>1, ZenonT(60) DEF EscrituraMemoria, TypeOK, Libre
  <2>3. TypeOK'
    BY <1>0, <2>2 DEF TypeOK
  <2>4. HiloBien' /\ HuecoVigente'
    BY <2>2 DEF HiloBien, HuecoVigente
  <2>5. QED BY <2>2, <2>3, <2>4, Quieta
<1>7. QED BY <1>1, <1>2, <1>3, <1>4, <1>5, <1>6 DEF Pedido

\* The steps of a request, but for the compaction.
LEMMA ContinuarIInv ==
    ASSUME IInv, Continuar
    PROVE  IInv'
<1>0. TypeOK /\ HiloBien /\ hilo \in HiloTipo
  BY Hechos DEF IInv
<1>1. CASE MedirEspacio
  <2>1. /\ hilo.pc = "sin_hueco"
        /\ hilo' = [hilo EXCEPT !.pc = "compactar"] \/ hilo' = Ocioso
        /\ UNCHANGED <<ms, memoria_total_sistema, lista_huecos_libres, tabla_segmentos,
                       contextos, bitmap_swap, memoria, swap, estado>>
    BY <1>1 DEF MedirEspacio
  <2>2. hilo' \in HiloTipo /\ hilo'.pc # "elegido"
    <3>1. CASE hilo' = [hilo EXCEPT !.pc = "compactar"]
      BY <1>0, <3>1 DEF HiloTipo, Pasos
    <3>2. CASE hilo' = Ocioso
      BY <3>2, OciosoTipo
    <3>3. QED BY <2>1, <3>1, <3>2
  <2>3. TypeOK'
    BY <1>0, <2>1, <2>2 DEF TypeOK, HiloTipo
  <2>4. HiloBien'
    <3>1. CASE hilo' = [hilo EXCEPT !.pc = "compactar"]
      <4>1. hilo'.pc = "compactar" /\ hilo'.pid = hilo.pid /\ hilo'.tam = hilo.tam
        BY <1>0, <3>1 DEF HiloTipo
      <4>2. QED BY <1>0, <2>1, <4>1 DEF HiloBien
    <3>2. CASE hilo' = Ocioso
      BY <3>2, OciosoTipo DEF HiloBien
    <3>3. QED BY <2>1, <3>1, <3>2
  <2>5. HuecoVigente'
    BY <2>2 DEF HuecoVigente
  <2>6. QED BY <2>1, <2>3, <2>4, <2>5, Quieta
<1>2. CASE ReelegirHueco
  <2>1. /\ hilo.pc = "reelegir"
        /\ UNCHANGED <<ms, memoria_total_sistema, lista_huecos_libres, tabla_segmentos,
                       contextos, bitmap_swap, memoria, swap, estado>>
    BY <1>2 DEF ReelegirHueco
  <2>2. PICK h \in HuecosElegibles(hilo.tam) : Elegir(hilo.pid, hilo.id, hilo.tam, h)
    BY <1>2 DEF ReelegirHueco
  <2>3. h \in lista_huecos_libres /\ h.tam >= hilo.tam /\ h.base \in Nat
    BY Hechos DEF IInv, HuecosElegibles, HuecosValidos, Hueco
  <2>4. hilo.pid \in Pids /\ hilo.id \in Ids /\ hilo.tam \in Nat
    BY <1>0, <2>1 DEF HiloBien, HiloTipo
  <2>5. /\ hilo' \in HiloTipo /\ hilo'.pid = hilo.pid /\ hilo'.tam = hilo.tam
        /\ hilo'.base = h.base
    BY <2>2, <2>3, <2>4, OciosoTipo DEF Elegir, Ocioso
  <2>6. TypeOK'
    BY <1>0, <2>1, <2>5 DEF TypeOK, HiloTipo
  <2>7. HiloBien' /\ HuecoVigente'
    BY <1>0, <2>1, <2>3, <2>5 DEF HiloBien, HuecoVigente
  <2>8. QED BY <2>1, <2>6, <2>7, Quieta
<1>3. CASE CrearSegmento
  BY <1>3, CrearSegmentoIInv
<1>4. CASE MoverSegmentoASwap
  BY <1>4, MoverIInv
<1>5. CASE SaltearSegmento \/ YaEnRam
  <2> DEFINE e == hilo.exito /\ tabla_segmentos[hilo.pid][hilo.i].en_swap
  <2>1. /\ hilo.pc \in {"suspendiendo", "desuspendiendo"}
        /\ hilo.i \in DOMAIN tabla_segmentos[hilo.pid]
        /\ \/ hilo' = [hilo EXCEPT !.i = @ + 1]
           \/ hilo' = [hilo EXCEPT !.i = @ + 1, !.exito = e]
        /\ UNCHANGED <<ms, memoria_total_sistema, lista_huecos_libres, tabla_segmentos,
                       contextos, bitmap_swap, memoria, swap, estado>>
    BY <1>5 DEF SaltearSegmento, YaEnRam
  <2>6. e \in BOOLEAN
    OBVIOUS
  <2> HIDE DEF e
  <2>2. hilo' \in HiloTipo /\ hilo'.pc = hilo.pc /\ hilo'.pid = hilo.pid
    <3>1. hilo.i + 1 \in Nat
      BY <1>0 DEF HiloTipo
    <3>2. CASE hilo' = [hilo EXCEPT !.i = @ + 1]
      BY <1>0, <3>1, <3>2 DEF HiloTipo
    <3>3. CASE hilo' = [hilo EXCEPT !.i = @ + 1, !.exito = e]
      <4>1. \A x \in HiloTipo, j \in Nat, b \in BOOLEAN :
                /\ [x EXCEPT !.i = j, !.exito = b] \in HiloTipo
                /\ [x EXCEPT !.i = j, !.exito = b].pc = x.pc
                /\ [x EXCEPT !.i = j, !.exito = b].pid = x.pid
        BY Zenon DEF HiloTipo
      <4>2. QED BY <1>0, <2>6, <3>1, <3>3, <4>1
    <3>4. QED BY <2>1, <3>2, <3>3
  <2>3. TypeOK'
    BY <1>0, <2>1, <2>2 DEF TypeOK, HiloTipo
  <2>4. HiloBien' /\ HuecoVigente'
    BY <1>0, <2>1, <2>2 DEF HiloBien, HuecoVigente
  <2>5. QED BY <2>1, <2>3, <2>4, Quieta
<1>6. CASE \/ TerminarSuspension \/ DesuspensionFallida \/ TerminarDesuspension
           \/ TerminarFinalizacion
  <2>1. /\ hilo' = Ocioso
        /\ UNCHANGED <<ms, memoria_total_sistema, lista_huecos_libres, tabla_segmentos,
                       contextos, bitmap_swap, memoria, swap>>
        /\ estado' = estado \/ estado' = [estado EXCEPT ![hilo.pid] = "residente"]
    BY <1>6 DEF TerminarSuspension, DesuspensionFallida, TerminarDesuspension,
                TerminarFinalizacion
  <2>2. hilo' \in HiloTipo /\ hilo'.pc = "libre"
    BY <2>1, OciosoTipo
  <2>3. TypeOK'
    BY <1>0, <2>1, <2>2 DEF TypeOK, HiloTipo, Estados
  <2>4. HiloBien' /\ HuecoVigente'
    BY <2>2 DEF HiloBien, HuecoVigente
  <2>5. QED BY <2>1, <2>3, <2>4, Quieta
<1>7. CASE RestaurarSegmento
  BY <1>7, RestaurarIInv
<1>8. CASE LiberarSegmentoFinalizado
  BY <1>8, FinalizarIInv
<1>9. QED
  BY <1>1, <1>2, <1>3, <1>4, <1>5, <1>6, <1>7, <1>8 DEF Continuar

\* A process that runs with all its segments in RAM.
LEMMA EjecutarIInv ==
    ASSUME IInv, NEW p \in Pids, EjecutarEnRam(p)
    PROVE  IInv'
<1>1. CASE \E id \in Ids : EliminarSegmento(p, id)
  BY <1>1, EliminarIInv DEF EjecutarEnRam
<1>2. CASE \E i \in 1 .. MaxSegmentos, k \in 0 .. SEGMENT_MAX_SIZE - 1, v \in Valores :
               EscribirCPU(p, i, k, v)
  <2>1. PICK i \in 1 .. MaxSegmentos, k \in 0 .. SEGMENT_MAX_SIZE - 1, v \in Valores :
               EscribirCPU(p, i, k, v)
    BY <1>2
  <2>2. TypeOK'
    BY <2>1 DEF EscribirCPU, IInv, TypeOK
  <2>3. HiloBien' /\ HuecoVigente'
    BY <2>1 DEF EscribirCPU, IInv, HiloBien, HuecoVigente
  <2>4. QED BY <2>1, <2>2, <2>3, Quieta DEF EscribirCPU
<1>3. QED BY <1>1, <1>2 DEF EjecutarEnRam, Ejecutar

LEMMA PasoIInv == IInv /\ [NextOrdenada]_vars => IInv'
<1> SUFFICES ASSUME IInv, [NextOrdenada]_vars PROVE IInv'
  OBVIOUS
<1>1. CASE \E m \in Sticks : ConectarDeAUno(m) \/ AgregarHuecoStick(m)
  BY <1>1, ConectarIInv, AgregarIInv
<1>2. CASE \E p \in Pids : Pedido(p) \/ EjecutarEnRam(p)
  BY <1>2, PedidoIInv, EjecutarIInv
<1>3. CASE Continuar
  BY <1>3, ContinuarIInv
<1>4. CASE CompactarSinConexion
  BY <1>4, CompactarIInv
<1>5. CASE UNCHANGED vars
  <2>1. TypeOK' /\ HiloBien' /\ HuecoVigente'
    BY <1>5 DEF vars, IInv, TypeOK, HiloBien, HuecoVigente
  <2>2. QED BY <1>5, <2>1, Quieta DEF vars
<1>6. QED BY <1>1, <1>2, <1>3, <1>4, <1>5 DEF NextOrdenada

-----------------------------------------------------------------------------
(* The theorems. *)

\* The invariant of the allocator holds throughout, whatever the requests.
THEOREM Invariante == SpecOrdenada => []IInv
<1>1. Init => IInv
  BY InicioIInv
<1>2. IInv /\ [NextOrdenada]_vars => IInv'
  BY PasoIInv
<1>3. QED BY <1>1, <1>2, PTL DEF SpecOrdenada

\* Types: no block of SWAP beyond the bitmap is marked, no hole is empty, and no
\* read or write of a segment falls outside the sticks or outside SWAP.
THEOREM TiposCorrectos == SpecOrdenada => []TypeOK
<1>1. IInv => TypeOK
  BY DEF IInv
<1>2. QED BY <1>1, Invariante, PTL

\* No byte of memory has two owners, whatever is allocated, freed, compacted,
\* suspended or connected.
THEOREM MemoriaSinSolapamiento == SpecOrdenada => []SinSolapamiento
<1>1. IInv => SinSolapamiento
  <2>1. SUFFICES ASSUME IInv PROVE SinSolapamiento
    OBVIOUS
  <2>2. Sano(lista_huecos_libres, tabla_segmentos, memoria_total_sistema)
    BY <2>1 DEF IInv, MemoriaSana
  <2>3. ASSUME NEW k \in EnRam
        PROVE  /\ k[1] \in Pids /\ k[2] \in DOMAIN tabla_segmentos[k[1]]
               /\ k = <<k[1], k[2]>>
               /\ Seg(k) = tabla_segmentos[k[1]][k[2]] /\ ~Seg(k).en_swap
    BY <2>1, LugaresLema DEF IInv, EnRam
  <2>4. \A g, h \in lista_huecos_libres :
            g # h => Disjuntos(g.base, g.tam, h.base, h.tam)
    BY <2>2 DEF Sano, HuecosDisj
  <2>5. ASSUME NEW k \in EnRam, NEW l \in EnRam, k # l
        PROVE  Disjuntos(Seg(k).direccion_base, Seg(k).limite,
                         Seg(l).direccion_base, Seg(l).limite)
    <3>1. k[1] # l[1] \/ k[2] # l[2]
      BY <2>3, <2>5
    <3>2. QED BY <2>2, <2>3, <3>1 DEF Sano, SegsDisj
  <2>6. ASSUME NEW h \in lista_huecos_libres, NEW l \in EnRam
        PROVE  Disjuntos(h.base, h.tam, Seg(l).direccion_base, Seg(l).limite)
    BY <2>2, <2>3 DEF Sano, Apartados, Lejos
  <2>7. QED BY <2>4, <2>5, <2>6 DEF SinSolapamiento
<1>2. QED BY <1>1, Invariante, PTL

\* The hole that creacion_segmento chose before it released the mutex is there when
\* it is cut, although sticks connect in between.
THEOREM HuecoElegidoVigente == SpecOrdenada => []HuecoVigente
<1>1. IInv => HuecoVigente
  BY DEF IInv
<1>2. QED BY <1>1, Invariante, PTL
=============================================================================

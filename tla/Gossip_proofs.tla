---------------------------- MODULE Gossip_proofs ----------------------------
(***************************************************************************)
(* Proofs about the gossip between the memories, module Gossip.            *)
(*                                                                         *)
(* Theorem LasListasSonDeOtras, Spec => []TypeOK, needs the inductive      *)
(* invariant GossipInv: a list has each memory once because what arrives   *)
(* has each one once, and that because the list that is sent is made       *)
(* looking at each entry of the own one once, with itself before them; a   *)
(* message is for a memory that is up because who is connected to one that *)
(* fell finds the connection broken (rota).                                *)
(***************************************************************************)
EXTENDS Gossip, Secuencias_lemas

------------------------------------------------------------------------------
(* Sequences.                                                              *)

\* The set of the elements of a sequence has the two names of the library.
LEMMA ConjuntoYRango ==
  ASSUME NEW s
  PROVE  ToSet(s) = Range(s)
BY DEF ToSet, Range

\* Every number up to the size of a set of positions is the place, in order,
\* of one of them.
LEMMA PosicionesEnOrden ==
  ASSUME NEW n \in Nat, NEW I, I \subseteq 1..n
  PROVE  /\ Cardinality(I) \in Nat
         /\ \A k \in 1..Cardinality(I) : \E i \in I : Cardinality({j \in I : j <= i}) = k
<1> DEFINE A(i) == {j \in I : j <= i}
           C(i) == Cardinality(A(i))
<1>1. IsFiniteSet(1..n)
  BY FS_Interval
<1>2. \A X : X \subseteq I => IsFiniteSet(X) /\ Cardinality(X) \in Nat
  BY <1>1, FS_Subset, FS_CardinalityType
<1>3. A(0) = {} /\ A(n) = I
  <2>1. \A j \in I : j \in Int /\ 1 <= j /\ j <= n
    OBVIOUS
  <2>2. \A j \in I : ~(j <= 0)
    BY <2>1
  <2>3. A(0) = {}
    BY <2>2
  <2>4. A(n) = I
    BY <2>1
  <2> QED BY <2>3, <2>4
<1>4. C(0) = 0 /\ C(n) = Cardinality(I)
  BY <1>3, FS_EmptySet
<1>5. ASSUME NEW i \in 1..n
      PROVE  /\ C(i) \in Nat /\ C(i - 1) \in Nat
             /\ i \in I => C(i) = C(i - 1) + 1
             /\ i \notin I => C(i) = C(i - 1)
  <2>1. A(i) \subseteq I /\ A(i - 1) \subseteq I
    OBVIOUS
  <2>2. C(i) \in Nat /\ C(i - 1) \in Nat /\ IsFiniteSet(A(i - 1))
    BY <1>2, <2>1
  <2>3. CASE i \in I
    <3>1. \A j \in I : j <= i <=> j <= i - 1 \/ j = i
      OBVIOUS
    <3>2. ~(i <= i - 1)
      OBVIOUS
    <3>3. A(i) = A(i - 1) \cup {i} /\ i \notin A(i - 1)
      BY <2>3, <3>1, <3>2
    <3>4. C(i) = C(i - 1) + 1
      BY <2>2, <3>3, FS_AddElement
    <3> QED BY <2>2, <2>3, <3>4
  <2>4. CASE i \notin I
    <3>1. \A j \in I : j <= i <=> j <= i - 1
      BY <2>4
    <3>2. A(i) = A(i - 1)
      BY <3>1
    <3> QED BY <2>2, <2>4, <3>2
  <2> QED BY <2>3, <2>4
<1>6. ASSUME NEW k \in 1..Cardinality(I)
      PROVE  \E i \in I : C(i) = k
  <2> DEFINE D == {i \in 0..n : C(i) >= k}
             d == Min(D)
  <2>1. Cardinality(I) \in Nat
    BY <1>2
  <2>2. D \subseteq Nat /\ n \in D
    BY <1>4, <2>1
  <2>3. d \in D /\ \A x \in D : d <= x
    BY <2>2, HayMinimo
  <2> HIDE DEF d, C
  <2>4. d # 0
    BY <1>4, <2>3
  <2>5. d \in 1..n /\ d - 1 \in 0..n /\ d - 1 \notin D
    BY <2>3, <2>4
  <2>6. ~(C(d - 1) >= k) /\ C(d) >= k
    BY <2>3, <2>5
  <2> HIDE DEF D
  <2>7. d \in I /\ C(d) = k
    BY <1>5, <2>5, <2>6
  <2> QED BY <2>7
<1> QED BY <1>2, <1>6

\* Those elegidas are a sequence of elements of the list, each of them at one of
\* the places, and each once if each is once in the list.
LEMMA LasElegidas ==
  ASSUME NEW S, NEW lista \in Seq(S), NEW I, I \subseteq 1..Len(lista)
  PROVE  /\ Elegidas(lista, I) \in Seq(S)
         /\ ToSet(Elegidas(lista, I)) \subseteq {lista[i] : i \in I}
         /\ IsInjective(lista) => IsInjective(Elegidas(lista, I))
<1> DEFINE n == Cardinality(I)
           lugar(k) == CHOOSE i \in I : Cardinality({j \in I : j <= i}) = k
           e == [k \in 1..n |-> lista[lugar(k)]]
<1>1. n \in Nat /\ \A k \in 1..n : \E i \in I : Cardinality({j \in I : j <= i}) = k
  <2>1. Len(lista) \in Nat
    OBVIOUS
  <2> QED BY <2>1, PosicionesEnOrden
<1>2. \A k \in 1..n : lugar(k) \in I /\ Cardinality({j \in I : j <= lugar(k)}) = k
  BY <1>1
<1>3. \A k, l \in 1..n : lugar(k) = lugar(l) => k = l
  BY <1>2
<1>4. Elegidas(lista, I) = e
  BY DEF Elegidas
<1> HIDE DEF n, lugar
<1>5. e \in Seq(S) /\ DOMAIN e = 1..n
  <2>1. \A i \in I : lista[i] \in S
    OBVIOUS
  <2>2. \A k \in 1..n : lista[lugar(k)] \in S
    BY <1>2, <2>1
  <2> QED BY <1>1, <2>2
<1>6. ToSet(e) \subseteq {lista[i] : i \in I}
  BY <1>2, <1>5 DEF ToSet
<1>7. ASSUME IsInjective(lista) PROVE IsInjective(e)
  <2>1. \A i, j \in I : lista[i] = lista[j] => i = j
    BY <1>7 DEF IsInjective
  <2>2. \A k, l \in 1..n : e[k] = e[l] => k = l
    BY <1>2, <1>3, <2>1
  <2> QED BY <1>5, <2>2 DEF IsInjective
<1> QED BY <1>4, <1>5, <1>6, <1>7

\* Two lists without repetitions and without common elements make one without
\* repetitions.
LEMMA ConcatSinRepetidos ==
  ASSUME NEW S, NEW s \in Seq(S), NEW u \in Seq(S), IsInjective(s), IsInjective(u),
         ToSet(s) \cap ToSet(u) = {}
  PROVE  /\ s \o u \in Seq(S)
         /\ IsInjective(s \o u)
         /\ ToSet(s \o u) = ToSet(s) \cup ToSet(u)
         /\ \A j \in 1..Len(s) : j \in DOMAIN (s \o u) /\ (s \o u)[j] = s[j]
<1> DEFINE w == s \o u
<1>1. /\ w \in Seq(S)
      /\ Len(w) = Len(s) + Len(u)
      /\ \A i \in 1..(Len(s) + Len(u)) : w[i] = IF i <= Len(s) THEN s[i] ELSE u[i - Len(s)]
  BY ConcatProperties
<1>2. Len(s) \in Nat /\ Len(u) \in Nat /\ DOMAIN s = 1..Len(s) /\ DOMAIN u = 1..Len(u)
  OBVIOUS
<1> HIDE DEF w
<1>3. DOMAIN w = 1..(Len(s) + Len(u))
  BY <1>1, <1>2
<1>4. ASSUME NEW i \in DOMAIN w, NEW j \in DOMAIN w, w[i] = w[j]
      PROVE  i = j
  <2>1. \A a \in 1..Len(s), b \in 1..Len(u) : s[a] # u[b]
    BY <1>2 DEF ToSet
  <2>2. \A a, b \in 1..Len(s) : s[a] = s[b] => a = b
    BY <1>2 DEF IsInjective
  <2>3. \A a, b \in 1..Len(u) : u[a] = u[b] => a = b
    BY <1>2 DEF IsInjective
  <2>4. CASE i <= Len(s) /\ j <= Len(s)
    BY <1>1, <1>2, <1>3, <1>4, <2>2, <2>4
  <2>5. CASE i <= Len(s) /\ ~(j <= Len(s))
    <3>1. i \in 1..Len(s) /\ j - Len(s) \in 1..Len(u) /\ w[i] = s[i] /\ w[j] = u[j - Len(s)]
      BY <1>1, <1>2, <1>3, <1>4, <2>5
    <3> QED BY <1>4, <2>1, <3>1
  <2>6. CASE ~(i <= Len(s)) /\ j <= Len(s)
    <3>1. j \in 1..Len(s) /\ i - Len(s) \in 1..Len(u) /\ w[j] = s[j] /\ w[i] = u[i - Len(s)]
      BY <1>1, <1>2, <1>3, <1>4, <2>6
    <3> QED BY <1>4, <2>1, <3>1
  <2>7. CASE ~(i <= Len(s)) /\ ~(j <= Len(s))
    <3>1. /\ i - Len(s) \in 1..Len(u) /\ j - Len(s) \in 1..Len(u)
          /\ w[i] = u[i - Len(s)] /\ w[j] = u[j - Len(s)]
      BY <1>1, <1>2, <1>3, <1>4, <2>7
    <3>2. i - Len(s) = j - Len(s)
      BY <1>4, <2>3, <3>1
    <3> QED BY <1>2, <1>3, <3>2
  <2> QED BY <2>4, <2>5, <2>6, <2>7
<1>5. IsInjective(w)
  BY <1>4 DEF IsInjective
<1>6. ToSet(w) = ToSet(s) \cup ToSet(u)
  BY RangoDeConcatenacion, ConjuntoYRango DEF w
<1>7. \A j \in 1..Len(s) : j \in DOMAIN w /\ w[j] = s[j]
  BY <1>1, <1>2, <1>3
<1> QED BY <1>1, <1>5, <1>6, <1>7 DEF w

\* What is appended to a list without it leaves it without repetitions.
LEMMA AgregarAlFinal ==
  ASSUME NEW S, NEW s \in Seq(S), NEW e \in S, IsInjective(s), e \notin ToSet(s)
  PROVE  /\ Append(s, e) \in Seq(S)
         /\ IsInjective(Append(s, e))
         /\ ToSet(Append(s, e)) = ToSet(s) \cup {e}
BY AppendSinRepetidos, RangoDeAppend, ConjuntoYRango

\* To remove an entry of a list without repetitions.
LEMMA SacarUna ==
  ASSUME NEW S, NEW s \in Seq(S), NEW x, IsInjective(s)
  PROVE  /\ Sin(s, x) \in Seq(S)
         /\ IsInjective(Sin(s, x))
         /\ ToSet(Sin(s, x)) \subseteq ToSet(s)
BY RemoveFirstSinRepetidos, ConjuntoYRango DEF Sin

\* Those before the one that is removed stay where they were.
LEMMA SacarLaDelLugar ==
  ASSUME NEW S, NEW s \in Seq(S), NEW i \in 1..Len(s), IsInjective(s)
  PROVE  \A j \in 1..(i - 1) : j \in DOMAIN Sin(s, s[i]) /\ Sin(s, s[i])[j] = s[j]
<1>1. s[i] \in Range(s)
  BY DEF Range
<1>2. PICK k \in 1..Len(s) : s[k] = s[i] /\ RemoveFirst(s, s[i]) = RemoveAt(s, k)
  BY <1>1, LugarDeRemoveFirst
<1>3. k = i
  BY <1>2 DEF IsInjective
<1> DEFINE u == Sin(s, s[i])
<1>4. u = RemoveAt(s, i)
  BY <1>2, <1>3 DEF Sin
<1>5. /\ u \in Seq(S) /\ Len(u) = Len(s) - 1
      /\ \A j \in 1..(Len(s) - 1) : u[j] = IF j < i THEN s[j] ELSE s[j + 1]
  BY <1>4, ElementosDeRemoveAt
<1> HIDE DEF u
<1>6. DOMAIN u = 1..(Len(s) - 1) /\ Len(s) \in Nat
  BY <1>5
<1>7. \A j \in 1..(i - 1) : j \in DOMAIN u /\ u[j] = s[j]
  BY <1>5, <1>6
<1> QED BY <1>7 DEF u

\* The first of a list that is not empty, and the rest.
LEMMA PrimeraYResto ==
  ASSUME NEW S, NEW s \in Seq(S), s # <<>>
  PROVE  /\ Head(s) \in S /\ Head(s) \in ToSet(s)
         /\ Tail(s) \in Seq(S)
         /\ ToSet(Tail(s)) \subseteq ToSet(s)
<1>1. Len(s) \in Nat /\ Len(s) >= 1 /\ DOMAIN s = 1..Len(s)
  OBVIOUS
<1>2. Head(s) = s[1]
  OBVIOUS
<1>3. Tail(s) \in Seq(S) /\ Len(Tail(s)) = Len(s) - 1
  OBVIOUS
<1>4. \A i \in 1..(Len(s) - 1) : Tail(s)[i] = s[i + 1]
  OBVIOUS
<1>5. DOMAIN Tail(s) = 1..(Len(s) - 1)
  BY <1>3
<1>6. ToSet(Tail(s)) \subseteq ToSet(s)
  BY <1>1, <1>4, <1>5 DEF ToSet
<1> QED BY <1>1, <1>2, <1>3, <1>6 DEF ToSet

------------------------------------------------------------------------------
(* What the thread of gossip has.                                          *)

\* RondaInv of a round and a list that need not be those of the state.
RondaBien(m, r, lista) ==
  /\ IsInjective(r.tengo)
  /\ r.pc = "mirar" => ToSet(r.tengo) \subseteq {m} \cup {lista[j] : j \in DOMAIN lista \cap 1..(r.i - 1)}
  /\ r.pc = "eliminar" => r.faltan # <<>>
  /\ \A x \in ToSet(r.faltan) : Alcanza(m, x)
  /\ r.a # Nadie => Alcanza(m, r.a) /\ (r.rota \/ r.a \in arriba)

\* Who sleeps has nothing.
LEMMA QuienDuerme ==
  ASSUME NEW m, NEW lista
  PROVE  Duerme \in Rondas /\ RondaBien(m, Duerme, lista)
<1>1. Duerme \in Rondas
  BY DEF Duerme, Rondas
<1>2. /\ Duerme.pc = "duerme" /\ Duerme.tengo = <<>> /\ Duerme.faltan = <<>>
      /\ Duerme.a = Nadie
  BY DEF Duerme
<1>3. IsInjective(<<>>) /\ ToSet(<<>>) = {}
  BY DEF IsInjective, ToSet
<1> QED BY <1>1, <1>2, <1>3 DEF RondaBien

\* One that goes on with the next to send to.
LEMMA LaSiguiente ==
  ASSUME NEW m, NEW r \in Rondas, NEW lista, NEW otra, NEW pc \in {"seeds", "levantadas"},
         RondaBien(m, r, lista), r.faltan # <<>>,
         NEW sig \in Rondas,
         sig.pc = pc, sig.faltan = Tail(r.faltan), sig.a = Nadie, sig.tengo = r.tengo
  PROVE  RondaBien(m, sig, otra)
<1>1. r.faltan \in Seq(Memorias)
  BY DEF Rondas
<1>2. Tail(r.faltan) \in Seq(Memorias) /\ ToSet(Tail(r.faltan)) \subseteq ToSet(r.faltan)
  BY <1>1, PrimeraYResto
<1> QED BY <1>2 DEF RondaBien

LEMMA LaSiguienteDeSiguiente ==
  ASSUME NEW m, NEW r \in Rondas, NEW lista, NEW otra, r.pc \in {"seeds", "levantadas"},
         RondaBien(m, r, lista), r.faltan # <<>>
  PROVE  Siguiente(r) \in Rondas /\ RondaBien(m, Siguiente(r), otra)
<1>1. CASE r.pc = "levantadas" /\ Len(r.faltan) = 1
  <2>1. Siguiente(r) = Duerme
    BY <1>1 DEF Siguiente
  <2> QED BY <2>1, QuienDuerme
<1>2. CASE ~(r.pc = "levantadas" /\ Len(r.faltan) = 1)
  <2> DEFINE sig == Siguiente(r)
  <2>1. PICK pc \in {"seeds", "levantadas"} : pc = r.pc
    OBVIOUS
  <2>2. sig = [r EXCEPT !.faltan = Tail(@), !.a = Nadie, !.rota = FALSE]
    BY <1>2 DEF Siguiente
  <2>3. r.faltan \in Seq(Memorias)
    BY DEF Rondas
  <2>4. Tail(r.faltan) \in Seq(Memorias)
    BY <2>3, PrimeraYResto
  <2>5. /\ sig \in Rondas /\ sig.pc = pc /\ sig.faltan = Tail(r.faltan) /\ sig.a = Nadie
        /\ sig.tengo = r.tengo
    BY <2>1, <2>2, <2>4 DEF Rondas
  <2> HIDE DEF sig
  <2>6. RondaBien(m, sig, otra)
    BY <2>5, LaSiguiente
  <2> QED BY <2>5, <2>6 DEF sig
<1> QED BY <1>1, <1>2

------------------------------------------------------------------------------
(* The steps of a memory that leave the others as they were.               *)

\* What is sent is for a memory that is up, and has each memory once.
BuzonBien(b) ==
  /\ b \subseteq [de : Memorias, para : Memorias, memorias : Seq(Memorias)]
  /\ \A s \in b :
       /\ IsInjective(s.memorias)
       /\ s.para \in arriba /\ (s.para = s.de => EsSeed(s.de, s.de))

LEMMA ElBuzon ==
  ASSUME GossipInv
  PROVE  BuzonBien(buzon)
BY DEF GossipInv, TypeOK, BuzonBien

LEMMA LoDeUna ==
  ASSUME GossipInv, NEW m \in Memorias
  PROVE  /\ memoriasLevantadas[m] \in Seq(Memorias) /\ ronda[m] \in Rondas
         /\ RondaBien(m, ronda[m], memoriasLevantadas[m])
         /\ ToSet(memoriasLevantadas[m]) \subseteq Memorias \ {m}
         /\ IsInjective(memoriasLevantadas[m])
BY DEF GossipInv, TypeOK, RondaInv, RondaBien

\* A step that changes the list and the round of one that is up, and what was
\* sent.
LEMMA PasoDeUna ==
  ASSUME GossipInv, NEW m \in arriba, NEW lista \in Seq(Memorias), NEW r \in Rondas,
         memoriasLevantadas' = [memoriasLevantadas EXCEPT ![m] = lista],
         ronda' = [ronda EXCEPT ![m] = r],
         arriba' = arriba,
         BuzonBien(buzon'),
         ToSet(lista) \subseteq Memorias \ {m}, IsInjective(lista),
         RondaBien(m, r, lista)
  PROVE  GossipInv'
<1>1. /\ memoriasLevantadas \in [Memorias -> Seq(Memorias)] /\ ronda \in [Memorias -> Rondas]
      /\ m \in Memorias /\ arriba \subseteq Memorias
  BY DEF GossipInv, TypeOK
<1>2. /\ memoriasLevantadas' \in [Memorias -> Seq(Memorias)] /\ ronda' \in [Memorias -> Rondas]
      /\ memoriasLevantadas'[m] = lista /\ ronda'[m] = r
      /\ \A x \in Memorias : x # m => /\ memoriasLevantadas'[x] = memoriasLevantadas[x]
                                      /\ ronda'[x] = ronda[x]
  BY <1>1
<1>3. \A x \in Memorias : RondaInv(x)'
  <2> SUFFICES ASSUME NEW x \in Memorias PROVE RondaInv(x)'
    OBVIOUS
  <2>1. CASE x = m
    BY <1>2, <2>1 DEF RondaInv, RondaBien, Alcanza, EsSeed
  <2>2. CASE x # m
    <3>1. RondaInv(x)
      BY DEF GossipInv
    <3> QED BY <1>2, <2>2, <3>1 DEF RondaInv, Alcanza, EsSeed
  <2> QED BY <2>1, <2>2
<1>4. ASSUME NEW x \in Memorias
      PROVE  /\ ToSet(memoriasLevantadas'[x]) \subseteq Memorias \ {x}
             /\ IsInjective(memoriasLevantadas'[x])
             /\ x \notin arriba' => memoriasLevantadas'[x] = <<>> /\ ronda'[x] = Duerme
  <2>1. CASE x = m
    BY <1>2, <2>1
  <2>2. CASE x # m
    BY <1>2, <2>2 DEF GossipInv, TypeOK
  <2> QED BY <2>1, <2>2
<1>5. TypeOK'
  BY <1>1, <1>4 DEF TypeOK, BuzonBien, EsSeed
<1> QED BY <1>2, <1>3, <1>5 DEF GossipInv, BuzonBien, Rondas

\* The same when the list does not change.
LEMMA PasoDeLaRonda ==
  ASSUME GossipInv, NEW m \in arriba, NEW r \in Rondas,
         memoriasLevantadas' = memoriasLevantadas,
         ronda' = [ronda EXCEPT ![m] = r],
         arriba' = arriba,
         BuzonBien(buzon'),
         RondaBien(m, r, memoriasLevantadas[m])
  PROVE  GossipInv'
<1>1. m \in Memorias /\ memoriasLevantadas \in [Memorias -> Seq(Memorias)]
  BY DEF GossipInv, TypeOK
<1>2. PICK lista \in Seq(Memorias) : lista = memoriasLevantadas[m]
  BY <1>1
<1>3. memoriasLevantadas' = [memoriasLevantadas EXCEPT ![m] = lista]
  BY <1>1, <1>2
<1>4. ToSet(lista) \subseteq Memorias \ {m} /\ IsInjective(lista) /\ RondaBien(m, r, lista)
  BY <1>1, <1>2, LoDeUna
<1> QED BY <1>3, <1>4, PasoDeUna

------------------------------------------------------------------------------
(* hacerGossiping.                                                         *)

LEMMA PasoComenzar ==
  ASSUME GossipInv, NEW m \in arriba, Comenzar(m)
  PROVE  GossipInv'
<1> DEFINE r == [Duerme EXCEPT !.pc = "mirar", !.tengo = <<m>>]
<1>1. m \in Memorias
  BY DEF GossipInv, TypeOK
<1>2. /\ r.pc = "mirar" /\ r.tengo = <<m>> /\ r.faltan = <<>> /\ r.a = Nadie
      /\ r \in Rondas
  <2>1. <<m>> \in Seq(Memorias)
    BY <1>1
  <2>2. Duerme \in Rondas
    BY QuienDuerme
  <2>3. Duerme.faltan = <<>> /\ Duerme.a = Nadie
    BY DEF Duerme
  <2> QED BY <2>1, <2>2, <2>3 DEF Rondas
<1>3. ronda' = [ronda EXCEPT ![m] = r]
  BY DEF Comenzar
<1>4. arriba' = arriba /\ buzon' = buzon /\ memoriasLevantadas' = memoriasLevantadas
  BY DEF Comenzar, red
<1> HIDE DEF r
<1>5. IsInjective(<<m>>) /\ ToSet(<<m>>) = {m} /\ ToSet(<<>>) = {}
  BY DEF IsInjective, ToSet
<1>6. RondaBien(m, r, memoriasLevantadas[m])
  BY <1>2, <1>5 DEF RondaBien
<1>7. BuzonBien(buzon')
  BY <1>4, ElBuzon
<1> QED BY <1>2, <1>3, <1>4, <1>6, <1>7, PasoDeLaRonda

LEMMA PasoMirar ==
  ASSUME GossipInv, NEW m \in arriba, Mirar(m)
  PROVE  GossipInv'
<1>1. PICK r, lista : r = ronda[m] /\ lista = memoriasLevantadas[m]
  OBVIOUS
<1>2. /\ m \in Memorias /\ lista \in Seq(Memorias) /\ r \in Rondas
      /\ RondaBien(m, r, lista)
      /\ ToSet(lista) \subseteq Memorias \ {m} /\ IsInjective(lista)
  BY <1>1, LoDeUna DEF GossipInv, TypeOK
<1>3. PICK x : x = lista[r.i]
  OBVIOUS
<1>4. r.pc = "mirar" /\ r.i \in 1..Len(lista) /\ r.tengo \in Seq(Memorias) /\ r.i \in Nat
  BY <1>1, <1>2 DEF Mirar, Rondas
<1>5. x \in Memorias /\ x # m /\ DOMAIN lista = 1..Len(lista) /\ Len(lista) \in Nat
  BY <1>2, <1>3, <1>4 DEF ToSet
<1>6. arriba' = arriba /\ buzon' = buzon /\ BuzonBien(buzon')
  BY ElBuzon DEF Mirar, Pasa, red
<1> DEFINE antes(l) == {l[j] : j \in DOMAIN l \cap 1..(r.i - 1)}
<1>7. ToSet(r.tengo) \subseteq {m} \cup antes(lista) /\ IsInjective(r.tengo)
  BY <1>2, <1>4 DEF RondaBien
<1>8. CASE x \in arriba
  <2> DEFINE q == [r EXCEPT !.i = @ + 1, !.tengo = Append(@, x)]
  <2>1. memoriasLevantadas' = [memoriasLevantadas EXCEPT ![m] = memoriasLevantadas[m]]
    BY <1>1, <1>3, <1>8 DEF Mirar
  <2>2. memoriasLevantadas' = memoriasLevantadas
    BY <2>1 DEF GossipInv
  <2>3. ronda' = [ronda EXCEPT ![m] = q]
    BY <1>1, <1>3, <1>8 DEF Mirar, Pasa
  <2>4. x \notin antes(lista)
    BY <1>2, <1>3, <1>4, <1>5 DEF IsInjective
  <2>5. x \notin ToSet(r.tengo)
    BY <1>5, <1>7, <2>4
  <2>6. /\ Append(r.tengo, x) \in Seq(Memorias) /\ IsInjective(Append(r.tengo, x))
        /\ ToSet(Append(r.tengo, x)) = ToSet(r.tengo) \cup {x}
    BY <1>4, <1>5, <1>7, <2>5, AgregarAlFinal
  <2>7. /\ q.i = r.i + 1 /\ q.tengo = Append(r.tengo, x) /\ q.pc = r.pc /\ q.faltan = r.faltan
        /\ q.a = r.a /\ q.rota = r.rota
        /\ q \in Rondas
    <3>1. r.i + 1 \in Nat \ {0}
      BY <1>4
    <3> QED BY <1>2, <2>6, <3>1 DEF Rondas
  <2> HIDE DEF q
  <2>8. {lista[j] : j \in DOMAIN lista \cap 1..(q.i - 1)} = antes(lista) \cup {x}
    <3>1. \A j : j \in DOMAIN lista \cap 1..(q.i - 1) <=> j \in DOMAIN lista \cap 1..(r.i - 1) \/ j = r.i
      BY <1>4, <1>5, <2>7
    <3> QED BY <1>3, <3>1
  <2>9. RondaBien(m, q, lista)
    BY <1>2, <1>4, <1>7, <2>6, <2>7, <2>8 DEF RondaBien
  <2>10. RondaBien(m, q, memoriasLevantadas[m])
    BY <1>1, <2>9
  <2> QED BY <1>6, <2>2, <2>3, <2>7, <2>10, PasoDeLaRonda
<1>9. CASE x \notin arriba
  <2> DEFINE q == [r EXCEPT !.i = @ + 1, !.tengo = @]
  <2>1. PICK resto : resto = Sin(lista, x)
    OBVIOUS
  <2>2. memoriasLevantadas' = [memoriasLevantadas EXCEPT ![m] = resto]
    BY <1>1, <1>3, <1>9, <2>1 DEF Mirar
  <2>3. ronda' = [ronda EXCEPT ![m] = q]
    BY <1>1, <1>3, <1>9 DEF Mirar, Pasa
  <2>4. /\ resto \in Seq(Memorias) /\ IsInjective(resto)
        /\ ToSet(resto) \subseteq Memorias \ {m}
    BY <1>2, <2>1, SacarUna
  <2>5. \A j \in 1..(r.i - 1) : j \in DOMAIN resto /\ resto[j] = lista[j]
    BY <1>2, <1>3, <1>4, <2>1, SacarLaDelLugar
  <2>6. /\ q.i = r.i + 1 /\ q.tengo = r.tengo /\ q.pc = r.pc /\ q.faltan = r.faltan
        /\ q.a = r.a /\ q.rota = r.rota
        /\ q \in Rondas
    <3>1. r.i + 1 \in Nat \ {0}
      BY <1>4
    <3> QED BY <1>2, <3>1 DEF Rondas
  <2> HIDE DEF q
  <2>7. antes(lista) \subseteq {resto[j] : j \in DOMAIN resto \cap 1..(q.i - 1)}
    <3>1. \A j \in 1..(r.i - 1) : j \in 1..(q.i - 1)
      BY <1>4, <2>6
    <3> QED BY <2>5, <3>1
  <2>8. RondaBien(m, q, resto)
    BY <1>2, <1>4, <1>7, <2>6, <2>7 DEF RondaBien
  <2> QED BY <1>6, <2>2, <2>3, <2>4, <2>6, <2>8, PasoDeUna
<1> QED BY <1>8, <1>9

LEMMA PasoALasSeeds ==
  ASSUME GossipInv, NEW m \in arriba, ALasSeeds(m)
  PROVE  GossipInv'
<1>1. PICK r : r = ronda[m]
  OBVIOUS
<1>2. m \in Memorias /\ r \in Rondas /\ RondaBien(m, r, memoriasLevantadas[m])
  BY <1>1, LoDeUna DEF GossipInv, TypeOK
<1> DEFINE q == [r EXCEPT !.pc = "seeds", !.i = 1, !.faltan = Seeds[m]]
<1>3. ronda' = [ronda EXCEPT ![m] = q] /\ memoriasLevantadas' = memoriasLevantadas
  BY <1>1 DEF ALasSeeds, SoloRonda, Pasa
<1>4. arriba' = arriba /\ buzon' = buzon /\ BuzonBien(buzon')
  BY ElBuzon DEF ALasSeeds, SoloRonda, Pasa, red
<1>5. Seeds[m] \in Seq(Memorias)
  BY <1>2, SeedsAssumption
<1>6. /\ q.pc = "seeds" /\ q.faltan = Seeds[m] /\ q.tengo = r.tengo /\ q.a = r.a /\ q.rota = r.rota
      /\ q \in Rondas
  <2>1. 1 \in Nat \ {0}
    OBVIOUS
  <2> QED BY <1>2, <1>5, <2>1 DEF Rondas
<1> HIDE DEF q
<1>7. RondaBien(m, q, memoriasLevantadas[m])
  BY <1>2, <1>6 DEF RondaBien, Alcanza, EsSeed
<1> QED BY <1>3, <1>4, <1>6, <1>7, PasoDeLaRonda

LEMMA PasoALasDemas ==
  ASSUME GossipInv, NEW m \in arriba, ALasDemas(m)
  PROVE  GossipInv'
<1>1. PICK r, lista : r = ronda[m] /\ lista = memoriasLevantadas[m]
  OBVIOUS
<1>2. /\ m \in Memorias /\ lista \in Seq(Memorias) /\ r \in Rondas
      /\ RondaBien(m, r, lista) /\ ToSet(lista) \subseteq Memorias \ {m}
  BY <1>1, LoDeUna DEF GossipInv, TypeOK
<1>3. PICK I, demas : I = {i \in DOMAIN lista : ~EsSeed(m, lista[i])} /\ demas = Elegidas(lista, I)
  OBVIOUS
<1>4. I \subseteq 1..Len(lista)
  BY <1>2, <1>3
<1>5. demas \in Seq(Memorias) /\ ToSet(demas) \subseteq Memorias \ {m}
  <2>1. demas \in Seq(Memorias) /\ ToSet(demas) \subseteq {lista[i] : i \in I}
    BY <1>2, <1>3, <1>4, LasElegidas
  <2>2. {lista[i] : i \in I} \subseteq ToSet(lista)
    BY <1>3 DEF ToSet
  <2> QED BY <1>2, <2>1, <2>2
<1> DEFINE q == [r EXCEPT !.pc = "levantadas", !.faltan = demas]
<1>6. memoriasLevantadas' = memoriasLevantadas
  BY DEF ALasDemas, SoloRonda
<1>7. arriba' = arriba /\ buzon' = buzon /\ BuzonBien(buzon')
  BY ElBuzon DEF ALasDemas, SoloRonda, Pasa, red
<1>8. ronda' = [ronda EXCEPT ![m] = IF demas = <<>> THEN Duerme ELSE q]
  BY <1>1, <1>3 DEF ALasDemas, SoloRonda, Pasa
<1>9. CASE demas = <<>>
  <2>1. ronda' = [ronda EXCEPT ![m] = Duerme]
    BY <1>8, <1>9
  <2> QED BY <1>6, <1>7, <2>1, QuienDuerme, PasoDeLaRonda
<1>10. CASE demas # <<>>
  <2>1. ronda' = [ronda EXCEPT ![m] = q]
    BY <1>8, <1>10
  <2>2. /\ q.pc = "levantadas" /\ q.faltan = demas /\ q.tengo = r.tengo /\ q.a = r.a
        /\ q.rota = r.rota /\ q \in Rondas
    BY <1>2, <1>5 DEF Rondas
  <2> HIDE DEF q
  <2>3. RondaBien(m, q, lista)
    BY <1>2, <1>5, <2>2 DEF RondaBien, Alcanza
  <2>4. RondaBien(m, q, memoriasLevantadas[m])
    BY <1>1, <2>3
  <2> QED BY <1>6, <1>7, <2>1, <2>2, <2>4, PasoDeLaRonda
<1> QED BY <1>9, <1>10

------------------------------------------------------------------------------
(* mandarGossiping and eliminarMemoria.                                    *)

LEMMA PasoAlEliminar ==
  ASSUME GossipInv, NEW m \in arriba, NEW x, AlEliminar(m, x), Enviando(ronda[m])
  PROVE  GossipInv'
<1>1. PICK r, lista : r = ronda[m] /\ lista = memoriasLevantadas[m]
  OBVIOUS
<1>2. /\ m \in Memorias /\ lista \in Seq(Memorias) /\ r \in Rondas
      /\ RondaBien(m, r, lista)
      /\ ToSet(lista) \subseteq Memorias \ {m} /\ IsInjective(lista)
  BY <1>1, LoDeUna DEF GossipInv, TypeOK
<1>3. r.pc \in {"seeds", "levantadas"} /\ r.faltan # <<>>
  BY <1>1 DEF Enviando
<1>4. arriba' = arriba /\ buzon' = buzon /\ BuzonBien(buzon')
  BY ElBuzon DEF AlEliminar, SoloRonda, Pasa, red
<1>5. CASE r.pc = "seeds" /\ x \in ToSet(lista)
  <2> DEFINE q == [r EXCEPT !.pc = "eliminar", !.a = Nadie, !.rota = FALSE]
  <2>1. memoriasLevantadas' = memoriasLevantadas /\ ronda' = [ronda EXCEPT ![m] = q]
    BY <1>1, <1>5 DEF AlEliminar, SoloRonda, Pasa
  <2>2. /\ q.pc = "eliminar" /\ q.faltan = r.faltan /\ q.tengo = r.tengo /\ q.a = Nadie
        /\ q \in Rondas
    BY <1>2 DEF Rondas
  <2> HIDE DEF q
  <2>3. RondaBien(m, q, memoriasLevantadas[m])
    BY <1>2, <1>3, <2>2 DEF RondaBien
  <2> QED BY <1>4, <2>1, <2>2, <2>3, PasoDeLaRonda
<1>6. CASE ~(r.pc = "seeds" /\ x \in ToSet(lista))
  <2>1. PICK q, resto : q = Siguiente(r) /\ resto = Sin(lista, x)
    OBVIOUS
  <2>2. /\ memoriasLevantadas' = [memoriasLevantadas EXCEPT ![m] = resto]
        /\ ronda' = [ronda EXCEPT ![m] = q]
    BY <1>1, <1>6, <2>1 DEF AlEliminar, Pasa
  <2>3. q \in Rondas /\ RondaBien(m, q, resto)
    BY <1>2, <1>3, <2>1, LaSiguienteDeSiguiente
  <2>4. resto \in Seq(Memorias) /\ IsInjective(resto) /\ ToSet(resto) \subseteq Memorias \ {m}
    BY <1>2, <2>1, SacarUna
  <2> QED BY <1>4, <2>2, <2>3, <2>4, PasoDeUna
<1> QED BY <1>5, <1>6

LEMMA PasoEliminar ==
  ASSUME GossipInv, NEW m \in arriba, Eliminar(m)
  PROVE  GossipInv'
<1>1. PICK r, lista : r = ronda[m] /\ lista = memoriasLevantadas[m]
  OBVIOUS
<1>2. /\ m \in Memorias /\ lista \in Seq(Memorias) /\ r \in Rondas
      /\ RondaBien(m, r, lista)
      /\ ToSet(lista) \subseteq Memorias \ {m} /\ IsInjective(lista)
  BY <1>1, LoDeUna DEF GossipInv, TypeOK
<1>3. r.pc = "eliminar" /\ r.faltan # <<>> /\ r.faltan \in Seq(Memorias)
  BY <1>1, <1>2 DEF Eliminar, RondaBien, Rondas
<1>4. arriba' = arriba /\ buzon' = buzon /\ BuzonBien(buzon')
  BY ElBuzon DEF Eliminar, Pasa, red
<1>5. PICK resto : resto = Sin(lista, Head(r.faltan))
  OBVIOUS
<1> DEFINE q == [Siguiente(r) EXCEPT !.pc = "seeds"]
<1>6. /\ memoriasLevantadas' = [memoriasLevantadas EXCEPT ![m] = resto]
      /\ ronda' = [ronda EXCEPT ![m] = q]
  BY <1>1, <1>5 DEF Eliminar, Pasa
<1>7. Siguiente(r) = [r EXCEPT !.faltan = Tail(@), !.a = Nadie, !.rota = FALSE]
  BY <1>3 DEF Siguiente
<1>8. Tail(r.faltan) \in Seq(Memorias)
  BY <1>3, PrimeraYResto
<1>9. /\ q \in Rondas /\ q.pc = "seeds" /\ q.faltan = Tail(r.faltan) /\ q.a = Nadie
      /\ q.tengo = r.tengo
  BY <1>2, <1>7, <1>8 DEF Rondas
<1> HIDE DEF q
<1>10. RondaBien(m, q, resto)
  BY <1>2, <1>3, <1>9, LaSiguiente
<1>11. resto \in Seq(Memorias) /\ IsInjective(resto) /\ ToSet(resto) \subseteq Memorias \ {m}
  BY <1>2, <1>5, SacarUna
<1> QED BY <1>4, <1>6, <1>9, <1>10, <1>11, PasoDeUna

LEMMA PasoConectar ==
  ASSUME GossipInv, NEW m \in arriba, Conectar(m)
  PROVE  GossipInv'
<1>1. PICK r, x : r = ronda[m] /\ x = Head(r.faltan)
  OBVIOUS
<1>2. /\ m \in Memorias /\ r \in Rondas /\ RondaBien(m, r, memoriasLevantadas[m])
  BY <1>1, LoDeUna DEF GossipInv, TypeOK
<1>3. Enviando(ronda[m]) /\ r.faltan # <<>> /\ r.faltan \in Seq(Memorias)
  BY <1>1, <1>2 DEF Conectar, Enviando, Rondas
<1>4. x \in Memorias /\ x \in ToSet(r.faltan)
  BY <1>1, <1>3, PrimeraYResto
<1>5. CASE x \in arriba /\ SoloRonda(m, [r EXCEPT !.a = x])
  <2> DEFINE q == [r EXCEPT !.a = x]
  <2>1. memoriasLevantadas' = memoriasLevantadas /\ ronda' = [ronda EXCEPT ![m] = q]
    BY <1>5 DEF SoloRonda, Pasa
  <2>2. arriba' = arriba /\ buzon' = buzon /\ BuzonBien(buzon')
    BY <1>5, ElBuzon DEF SoloRonda, Pasa, red
  <2>3. /\ q.a = x /\ q.pc = r.pc /\ q.faltan = r.faltan /\ q.tengo = r.tengo /\ q.i = r.i
        /\ q \in Rondas
    BY <1>2, <1>4 DEF Rondas
  <2> HIDE DEF q
  <2>4. RondaBien(m, q, memoriasLevantadas[m])
    BY <1>2, <1>4, <1>5, <2>3 DEF RondaBien
  <2> QED BY <2>1, <2>2, <2>3, <2>4, PasoDeLaRonda
<1>6. CASE x \notin arriba /\ AlEliminar(m, x)
  BY <1>3, <1>6, PasoAlEliminar
<1> QED BY <1>1, <1>5, <1>6 DEF Conectar

------------------------------------------------------------------------------
(* A memory ends or starts.                                                *)

LEMMA PasoTermina ==
  ASSUME GossipInv, NEW m \in Memorias, Termina(m)
  PROVE  GossipInv'
<1> DEFINE rotaDe(x) == ronda[x].rota \/ ronda[x].a = m
<1>1. /\ memoriasLevantadas \in [Memorias -> Seq(Memorias)] /\ ronda \in [Memorias -> Rondas]
      /\ arriba \subseteq Memorias
  BY DEF GossipInv, TypeOK
<1>2. /\ arriba' = arriba \ {m}
      /\ buzon' = {s \in buzon : s.para # m}
      /\ memoriasLevantadas' = [memoriasLevantadas EXCEPT ![m] = <<>>]
      /\ ronda' = [x \in Memorias |-> IF x = m THEN Duerme ELSE [ronda[x] EXCEPT !.rota = rotaDe(x)]]
  BY DEF Termina
<1>3. /\ memoriasLevantadas' \in [Memorias -> Seq(Memorias)] /\ memoriasLevantadas'[m] = <<>>
      /\ \A x \in Memorias : x # m => memoriasLevantadas'[x] = memoriasLevantadas[x]
  <2>1. <<>> \in Seq(Memorias)
    OBVIOUS
  <2> QED BY <1>1, <1>2, <2>1
<1>4. ronda'[m] = Duerme
  BY <1>2
<1>5. ASSUME NEW x \in Memorias, x # m
      PROVE  /\ ronda'[x] \in Rondas
             /\ ronda'[x].pc = ronda[x].pc /\ ronda'[x].i = ronda[x].i
             /\ ronda'[x].tengo = ronda[x].tengo /\ ronda'[x].faltan = ronda[x].faltan
             /\ ronda'[x].a = ronda[x].a
             /\ ronda[x].rota \/ ronda[x].a = m => ronda'[x].rota
  <2>1. PICK b \in BOOLEAN : b = rotaDe(x)
    OBVIOUS
  <2>2. PICK r \in Rondas : r = ronda[x]
    BY <1>1
  <2>3. ronda'[x] = [r EXCEPT !.rota = b]
    BY <1>2, <1>5, <2>1, <2>2
  <2>4. /\ [r EXCEPT !.rota = b] \in Rondas
        /\ [r EXCEPT !.rota = b].pc = r.pc /\ [r EXCEPT !.rota = b].i = r.i
        /\ [r EXCEPT !.rota = b].tengo = r.tengo /\ [r EXCEPT !.rota = b].faltan = r.faltan
        /\ [r EXCEPT !.rota = b].a = r.a /\ [r EXCEPT !.rota = b].rota = b
    BY DEF Rondas
  <2> QED BY <2>1, <2>2, <2>3, <2>4
<1>6. ASSUME NEW x \in Memorias, x # m, x \notin arriba
      PROVE  ronda'[x] = Duerme
  <2>1. ronda[x] = Duerme
    BY <1>6 DEF GossipInv, TypeOK
  <2>2. Duerme.rota = FALSE /\ Duerme.a = Nadie
    BY DEF Duerme
  <2>3. m # Nadie
    BY NadieAssumption
  <2>4. rotaDe(x) = FALSE
    BY <2>1, <2>2, <2>3
  <2>5. ronda'[x] = [Duerme EXCEPT !.rota = FALSE]
    BY <1>2, <1>6, <2>1, <2>4
  <2>6. PICK d \in Rondas : d = Duerme
    BY QuienDuerme
  <2>7. [d EXCEPT !.rota = FALSE] = d
    BY <2>2, <2>6 DEF Rondas
  <2> QED BY <2>5, <2>6, <2>7
<1>7. ronda' \in [Memorias -> Rondas]
  <2>1. \A x \in Memorias : ronda'[x] \in Rondas
    BY <1>4, <1>5, QuienDuerme
  <2> QED BY <1>2, <2>1
<1>8. \A x \in Memorias : RondaInv(x)'
  <2> SUFFICES ASSUME NEW x \in Memorias PROVE RondaInv(x)'
    OBVIOUS
  <2>1. CASE x = m
    <3>1. RondaBien(m, Duerme, <<>>)
      BY QuienDuerme
    <3>2. Duerme.a = Nadie
      BY DEF Duerme
    <3> QED BY <1>3, <1>4, <2>1, <3>1, <3>2 DEF RondaInv, RondaBien, Alcanza, EsSeed
  <2>2. CASE x # m
    <3>1. RondaInv(x)
      BY DEF GossipInv
    <3>2. ronda[x].a # Nadie => Alcanza(x, ronda[x].a) /\ (ronda'[x].rota \/ ronda[x].a \in arriba')
      BY <1>2, <1>5, <2>2, <3>1 DEF RondaInv
    <3>3. PICK r, q, lista : r = ronda[x] /\ q = ronda'[x] /\ lista = memoriasLevantadas[x]
      OBVIOUS
    <3>4. lista = memoriasLevantadas'[x]
      BY <1>3, <2>2, <3>3
    <3>5. /\ IsInjective(q.tengo)
          /\ q.pc = "mirar" => ToSet(q.tengo) \subseteq {x} \cup {lista[j] : j \in DOMAIN lista \cap 1..(q.i - 1)}
          /\ q.pc = "eliminar" => q.faltan # <<>>
          /\ \A y \in ToSet(q.faltan) : Alcanza(x, y)
      BY <1>5, <2>2, <3>1, <3>3 DEF RondaInv
    <3>6. q.a # Nadie => Alcanza(x, q.a) /\ (q.rota \/ q.a \in arriba')
      BY <1>5, <2>2, <3>2, <3>3
    <3> QED BY <3>3, <3>4, <3>5, <3>6 DEF RondaInv, Alcanza, EsSeed
  <2> QED BY <2>1, <2>2
<1>9. ASSUME NEW x \in Memorias
      PROVE  /\ ToSet(memoriasLevantadas'[x]) \subseteq Memorias \ {x}
             /\ IsInjective(memoriasLevantadas'[x])
             /\ x \notin arriba' => memoriasLevantadas'[x] = <<>> /\ ronda'[x] = Duerme
  <2>1. CASE x = m
    <3>1. IsInjective(<<>>) /\ ToSet(<<>>) = {}
      BY DEF IsInjective, ToSet
    <3> QED BY <1>3, <1>4, <2>1, <3>1
  <2>2. CASE x # m
    BY <1>2, <1>3, <1>6, <2>2 DEF GossipInv, TypeOK
  <2> QED BY <2>1, <2>2
<1>10. TypeOK'
  <2>1. \A s \in buzon' : s.para \in arriba' /\ (s.para = s.de => EsSeed(s.de, s.de))
    BY <1>2 DEF GossipInv, TypeOK
  <2> QED BY <1>1, <1>2, <1>9, <2>1 DEF TypeOK, EsSeed
<1>11. /\ buzon' \subseteq [de : Memorias, para : Memorias, memorias : Seq(Memorias)]
       /\ \A s \in buzon' : IsInjective(s.memorias)
  BY <1>2 DEF GossipInv
<1> QED BY <1>3, <1>7, <1>8, <1>10, <1>11 DEF GossipInv, Rondas

LEMMA PasoLevantar ==
  ASSUME GossipInv, NEW m \in Memorias, Levantar(m)
  PROVE  GossipInv'
<1>1. /\ arriba' = arriba \cup {m} /\ buzon' = buzon
      /\ memoriasLevantadas' = memoriasLevantadas /\ ronda' = ronda
  BY DEF Levantar
<1>2. \A x \in Memorias : RondaInv(x)'
  <2> SUFFICES ASSUME NEW x \in Memorias PROVE RondaInv(x)'
    OBVIOUS
  <2>1. RondaInv(x)
    BY DEF GossipInv
  <2>2. ronda[x].a # Nadie => Alcanza(x, ronda[x].a) /\ (ronda[x].rota \/ ronda[x].a \in arriba')
    BY <1>1, <2>1 DEF RondaInv
  <2> QED BY <1>1, <2>1, <2>2 DEF RondaInv, Alcanza, EsSeed
<1>3. TypeOK'
  BY <1>1 DEF GossipInv, TypeOK, EsSeed
<1> QED BY <1>1, <1>2, <1>3 DEF GossipInv, Rondas

------------------------------------------------------------------------------
(* To send and to receive.                                                 *)

LEMMA PasoEnviar ==
  ASSUME GossipInv, NEW m \in arriba, Enviar(m)
  PROVE  GossipInv'
<1>1. PICK r : r = ronda[m]
  OBVIOUS
<1>2. m \in Memorias /\ r \in Rondas /\ RondaBien(m, r, memoriasLevantadas[m])
  BY <1>1, LoDeUna DEF GossipInv, TypeOK
<1>3. /\ Enviando(ronda[m]) /\ r.pc \in {"seeds", "levantadas"} /\ r.faltan # <<>>
      /\ r.a # Nadie
  BY <1>1 DEF Enviar, Enviando
<1>4. CASE /\ ~r.rota
           /\ buzon' = buzon \cup {[de |-> m, para |-> r.a, memorias |-> r.tengo]}
           /\ ronda' = [ronda EXCEPT ![m] = Siguiente(r)]
           /\ UNCHANGED <<arriba, memoriasLevantadas>>
  <2>1. PICK q : q = Siguiente(r)
    OBVIOUS
  <2>2. q \in Rondas /\ RondaBien(m, q, memoriasLevantadas[m])
    BY <1>2, <1>3, <2>1, LaSiguienteDeSiguiente
  <2>3. /\ r.a \in arriba /\ (r.a = m => EsSeed(m, m)) /\ IsInjective(r.tengo)
        /\ r.a \in Memorias /\ r.tengo \in Seq(Memorias)
    BY <1>2, <1>3, <1>4 DEF RondaBien, Alcanza, Rondas
  <2>4. PICK s : s = [de |-> m, para |-> r.a, memorias |-> r.tengo]
    OBVIOUS
  <2>5. /\ s \in [de : Memorias, para : Memorias, memorias : Seq(Memorias)]
        /\ s.de = m /\ s.para = r.a /\ s.memorias = r.tengo
    BY <1>2, <2>3, <2>4
  <2>6. BuzonBien(buzon \cup {s})
    BY <2>3, <2>5, ElBuzon DEF BuzonBien
  <2>7. BuzonBien(buzon')
    BY <1>4, <2>4, <2>6
  <2>8. /\ memoriasLevantadas' = memoriasLevantadas /\ arriba' = arriba
        /\ ronda' = [ronda EXCEPT ![m] = q]
    BY <1>4, <2>1
  <2> QED BY <2>2, <2>7, <2>8, PasoDeLaRonda
<1>5. CASE AlEliminar(m, r.a)
  BY <1>3, <1>5, PasoAlEliminar
<1>6. CASE Termina(m)
  BY <1>2, <1>6, PasoTermina
<1> QED BY <1>1, <1>4, <1>5, <1>6 DEF Enviar

LEMMA PasoRecibir ==
  ASSUME GossipInv, NEW m \in arriba, Recibir(m)
  PROVE  GossipInv'
<1>1. PICK r, lista : r = ronda[m] /\ lista = memoriasLevantadas[m]
  OBVIOUS
<1>2. /\ m \in Memorias /\ lista \in Seq(Memorias) /\ r \in Rondas
      /\ RondaBien(m, r, lista)
      /\ ToSet(lista) \subseteq Memorias \ {m} /\ IsInjective(lista)
  BY <1>1, LoDeUna DEF GossipInv, TypeOK
<1>3. PICK s \in buzon :
        \/ /\ memoriasLevantadas' = [memoriasLevantadas EXCEPT ![m] = @ \o Nuevas(m, s.memorias)]
           /\ buzon' = buzon \ {s} /\ UNCHANGED <<arriba, ronda, cuentas>>
        \/ buzon' = buzon \ {s} /\ UNCHANGED <<arriba, memoriasLevantadas, ronda, cuentas>>
        \/ Termina(m)
  BY DEF Recibir
<1>4. BuzonBien(buzon \ {s}) /\ s.memorias \in Seq(Memorias) /\ IsInjective(s.memorias)
  BY ElBuzon DEF BuzonBien
<1>5. ronda = [ronda EXCEPT ![m] = r]
  BY <1>1, <1>2 DEF GossipInv
<1>6. CASE /\ memoriasLevantadas' = [memoriasLevantadas EXCEPT ![m] = @ \o Nuevas(m, s.memorias)]
           /\ buzon' = buzon \ {s} /\ UNCHANGED <<arriba, ronda, cuentas>>
  <2>1. PICK recibidas : recibidas = s.memorias
    OBVIOUS
  <2>2. PICK I, nuevas : /\ I = {i \in DOMAIN recibidas : recibidas[i] \notin {m} \cup ToSet(lista)}
                         /\ nuevas = Elegidas(recibidas, I)
    OBVIOUS
  <2>3. Nuevas(m, recibidas) = nuevas
    BY <1>1, <2>2 DEF Nuevas
  <2>4. I \subseteq 1..Len(recibidas)
    BY <1>4, <2>1, <2>2
  <2>5. /\ nuevas \in Seq(Memorias) /\ IsInjective(nuevas)
        /\ ToSet(nuevas) \subseteq {recibidas[i] : i \in I}
    BY <1>4, <2>1, <2>2, <2>4, LasElegidas
  <2>6. \A i \in I : recibidas[i] \notin {m} \cup ToSet(lista)
    BY <2>2
  <2>7. ToSet(lista) \cap ToSet(nuevas) = {} /\ m \notin ToSet(nuevas)
    BY <2>5, <2>6
  <2>8. ToSet(nuevas) \subseteq Memorias
    BY <2>5 DEF ToSet
  <2>9. PICK larga : larga = lista \o nuevas
    OBVIOUS
  <2>10. /\ larga \in Seq(Memorias) /\ IsInjective(larga)
         /\ ToSet(larga) = ToSet(lista) \cup ToSet(nuevas)
         /\ \A j \in 1..Len(lista) : j \in DOMAIN larga /\ larga[j] = lista[j]
    BY <1>2, <2>5, <2>7, <2>9, ConcatSinRepetidos
  <2>11. ToSet(larga) \subseteq Memorias \ {m}
    BY <1>2, <2>7, <2>8, <2>10
  <2>12. memoriasLevantadas' = [memoriasLevantadas EXCEPT ![m] = larga]
    BY <1>1, <1>6, <2>1, <2>3, <2>9
  <2>13. ronda' = [ronda EXCEPT ![m] = r] /\ arriba' = arriba /\ BuzonBien(buzon')
    BY <1>4, <1>5, <1>6
  <2>14. {lista[j] : j \in DOMAIN lista \cap 1..(r.i - 1)}
           \subseteq {larga[j] : j \in DOMAIN larga \cap 1..(r.i - 1)}
    <3>1. DOMAIN lista = 1..Len(lista)
      BY <1>2
    <3> QED BY <2>10, <3>1
  <2>15. RondaBien(m, r, larga)
    BY <1>2, <2>14 DEF RondaBien
  <2> QED BY <1>2, <2>10, <2>11, <2>12, <2>13, <2>15, PasoDeUna
<1>7. CASE buzon' = buzon \ {s} /\ UNCHANGED <<arriba, memoriasLevantadas, ronda, cuentas>>
  <2>1. /\ ronda' = [ronda EXCEPT ![m] = r] /\ arriba' = arriba /\ BuzonBien(buzon')
        /\ memoriasLevantadas' = memoriasLevantadas
    BY <1>4, <1>5, <1>7
  <2>2. RondaBien(m, r, memoriasLevantadas[m])
    BY <1>1, <1>2
  <2> QED BY <1>2, <2>1, <2>2, PasoDeLaRonda
<1>8. CASE Termina(m)
  BY <1>2, <1>8, PasoTermina
<1> QED BY <1>3, <1>6, <1>7, <1>8

------------------------------------------------------------------------------
(* The specification.                                                      *)

LEMMA InitGossip ==
  ASSUME Init
  PROVE  GossipInv
<1>1. IsInjective(<<>>) /\ ToSet(<<>>) = {} /\ <<>> \in Seq(Memorias)
  BY DEF IsInjective, ToSet
<1>2. /\ memoriasLevantadas = [m \in Memorias |-> <<>>] /\ ronda = [m \in Memorias |-> Duerme]
      /\ arriba = Memorias /\ buzon = {}
  BY DEF Init
<1>3. /\ memoriasLevantadas \in [Memorias -> Seq(Memorias)] /\ ronda \in [Memorias -> Rondas]
  BY <1>1, <1>2, QuienDuerme
<1>4. \A m \in Memorias : RondaInv(m)
  <2> SUFFICES ASSUME NEW m \in Memorias PROVE RondaInv(m)
    OBVIOUS
  <2>1. RondaBien(m, Duerme, <<>>) /\ ronda[m] = Duerme /\ memoriasLevantadas[m] = <<>>
    BY <1>2, QuienDuerme
  <2> QED BY <2>1 DEF RondaInv, RondaBien
<1>5. TypeOK
  BY <1>1, <1>2 DEF TypeOK
<1> QED BY <1>2, <1>3, <1>4, <1>5 DEF GossipInv

LEMMA NextGossip ==
  ASSUME GossipInv, [Next]_vars
  PROVE  GossipInv'
<1>1. ASSUME NEW m \in Memorias, m \in arriba, Ronda(m)
      PROVE  GossipInv'
  BY <1>1, PasoComenzar, PasoMirar, PasoALasSeeds, PasoConectar, PasoEnviar, PasoEliminar,
     PasoALasDemas DEF Ronda
<1>2. ASSUME NEW m \in Memorias, m \in arriba, Recibir(m)
      PROVE  GossipInv'
  BY <1>2, PasoRecibir
<1>3. ASSUME NEW m \in Memorias, Caer(m)
      PROVE  GossipInv'
  BY <1>3, PasoTermina DEF Caer
<1>4. ASSUME NEW m \in Memorias, Levantar(m)
      PROVE  GossipInv'
  BY <1>4, PasoLevantar
<1>5. CASE UNCHANGED vars
  <2>1. /\ arriba' = arriba /\ buzon' = buzon
        /\ memoriasLevantadas' = memoriasLevantadas /\ ronda' = ronda
    BY <1>5 DEF vars, red
  <2>2. \A m \in Memorias : RondaInv(m)'
    <3> SUFFICES ASSUME NEW m \in Memorias PROVE RondaInv(m)'
      OBVIOUS
    <3>1. RondaInv(m)
      BY DEF GossipInv
    <3> QED BY <2>1, <3>1 DEF RondaInv, Alcanza, EsSeed
  <2>3. TypeOK'
    BY <2>1 DEF GossipInv, TypeOK, EsSeed
  <2> QED BY <2>1, <2>2, <2>3 DEF GossipInv, Rondas
<1> QED BY <1>1, <1>2, <1>3, <1>4, <1>5 DEF Next

LEMMA GossipSiempre ==
  Spec => []GossipInv
<1>1. Init => GossipInv
  BY InitGossip
<1>2. GossipInv /\ [Next]_vars => GossipInv'
  BY NextGossip
<1> QED BY <1>1, <1>2, PTL DEF Spec

\* Each list (memoriasLevantadas) always has other memories, each of them once;
\* a memory that fell has none, and what was sent to it went with it; and a
\* memory sends its list to itself only if it is its own seed (agregarMemorias,
\* hacerGossiping, eliminarMemoria), whatever the seeds, who falls, who starts
\* again, and whichever way the thread that removes an entry without the mutex
\* meets the one that adds.
THEOREM LasListasSonDeOtras ==
  Spec => []TypeOK
<1>1. GossipInv => TypeOK
  BY DEF GossipInv
<1> QED BY <1>1, GossipSiempre, PTL

==============================================================================

------------------------- MODULE Planificador_proofs -------------------------
(***************************************************************************)
(* Theorems about module Planificador, for every set of requests, every    *)
(* script, every level of multiprogramming and every quantum.              *)
(***************************************************************************)
EXTENDS Planificador, Secuencias_lemas, FiniteSetTheorems

------------------------------------------------------------------------------
(* Queues.                                                                 *)

\* What queue_pop does to a queue.
LEMMA ColaSinPrimero ==
  ASSUME NEW S, NEW s \in Seq(S), s # <<>>
  PROVE  /\ Tail(s) \in Seq(S)
         /\ Head(s) \in S /\ Head(s) = s[1]
         /\ Len(s) \in Nat /\ Len(s) > 0 /\ Len(Tail(s)) = Len(s) - 1
         /\ \A i \in 1..(Len(s) - 1) : Tail(s)[i] = s[i + 1]
         /\ Range(s) = {Head(s)} \cup Range(Tail(s))
<1>1. /\ Tail(s) \in Seq(S)
      /\ Head(s) \in S /\ Head(s) = s[1]
      /\ Len(s) \in Nat /\ Len(s) > 0 /\ Len(Tail(s)) = Len(s) - 1
      /\ \A i \in 1..(Len(s) - 1) : Tail(s)[i] = s[i + 1]
  BY HeadTailProperties
<1>2. Range(Tail(s)) \subseteq Range(s) /\ Head(s) \in Range(s)
  BY <1>1 DEF Range
<1>3. ASSUME NEW x \in Range(s) PROVE x = Head(s) \/ x \in Range(Tail(s))
  <2>1. PICK i \in 1..Len(s) : x = s[i]
    BY DEF Range
  <2>2. CASE i = 1
    BY <1>1, <2>1, <2>2
  <2>3. CASE i # 1
    <3>1. i - 1 \in 1..(Len(s) - 1)
      BY <1>1, <2>3
    <3>2. Tail(s)[i - 1] = x
      <4>1. Tail(s)[i - 1] = s[(i - 1) + 1]
        BY <1>1, <3>1
      <4> QED BY <2>1, <3>1, <4>1
    <3>3. i - 1 \in DOMAIN Tail(s)
      BY <1>1, <3>1
    <3> QED BY <3>2, <3>3 DEF Range
  <2> QED BY <2>2, <2>3
<1> QED BY <1>1, <1>2, <1>3

LEMMA ColaInyectivaSinPrimero ==
  ASSUME NEW S, NEW s \in Seq(S), s # <<>>, IsInjective(s)
  PROVE  IsInjective(Tail(s)) /\ Head(s) \notin Range(Tail(s))
<1>1. /\ Tail(s) \in Seq(S)
      /\ Head(s) \in S /\ Head(s) = s[1]
      /\ Len(s) \in Nat /\ Len(s) > 0 /\ Len(Tail(s)) = Len(s) - 1
      /\ \A i \in 1..(Len(s) - 1) : Tail(s)[i] = s[i + 1]
  BY ColaSinPrimero
<1>2. \A i, j \in 1..Len(s) : s[i] = s[j] => i = j
  BY DEF IsInjective
<1>3. DOMAIN Tail(s) = 1..(Len(s) - 1)
  BY <1>1
<1>4. ASSUME NEW i \in 1..(Len(s) - 1), NEW j \in 1..(Len(s) - 1),
             Tail(s)[i] = Tail(s)[j]
      PROVE  i = j
  <2>1. s[i + 1] = s[j + 1] /\ i + 1 \in 1..Len(s) /\ j + 1 \in 1..Len(s)
    BY <1>1, <1>4
  <2> QED BY <1>2, <2>1
<1>5. ASSUME NEW i \in 1..(Len(s) - 1) PROVE Tail(s)[i] # Head(s)
  <2>1. i + 1 \in 1..Len(s) /\ 1 \in 1..Len(s) /\ i + 1 # 1
    BY <1>1
  <2> QED BY <1>1, <1>2, <2>1
<1> QED BY <1>3, <1>4, <1>5 DEF IsInjective, Range

------------------------------------------------------------------------------
(* Types.                                                                  *)

EstadosDeHilo == [pc : PcDeHilo, req : Requests \cup {Nadie}, q : Nat, i : Nat]

LEMMA InitTypeOK == Init => TypeOK
BY MultiprocesamientoAssumption, QuantumsAssumption, LineasAssumption
   DEF Init, TypeOK, Libre, PcDeHilo, Estados

\* Popping ready leaves a queue, and counts.
LEMMA SacarBienTipado ==
  ASSUME TypeOK, Sacar
  PROVE  /\ ready \in Seq(Requests) /\ ready # <<>>
         /\ ready' = Tail(ready) /\ ready' \in Seq(Requests)
         /\ Head(ready) \in Requests
         /\ adelantos' \in [Requests -> [Requests -> Nat]]
<1>1. /\ ready' \in Seq(Requests) /\ Head(ready) \in Requests
      /\ ready \in Seq(Requests) /\ ready # <<>> /\ ready' = Tail(ready)
  BY ColaSinPrimero DEF TypeOK, Sacar
<1>2. \A r \in Requests, s \in Requests : adelantos[r][s] \in Nat
  BY DEF TypeOK
<1>3. adelantos' \in [Requests -> [Requests -> Nat]]
  BY <1>2 DEF Sacar
<1> QED BY <1>1, <1>3

LEMMA TypeOKNext ==
  ASSUME TypeOK, LugarInv, [Next]_vars
  PROVE  TypeOK'
<1> USE DEF colas, planificacion, PcDeHilo, Estados, EstadosDeHilo
<1>1. ASSUME NEW r \in Requests, Encolar(r) PROVE TypeOK'
  BY <1>1 DEF TypeOK, Encolar
<1>2. CASE AvisarNew
  BY <1>2 DEF TypeOK, AvisarNew
<1>3. ASSUME NEW r \in Requests, EjecutarSinPlanificar(r) PROVE TypeOK'
  BY <1>3 DEF TypeOK, EjecutarSinPlanificar
<1>4. ASSUME NEW r \in Requests, FallarDirecta(r) PROVE TypeOK'
  BY <1>4 DEF TypeOK, FallarDirecta
<1>5. ASSUME NEW r \in Requests, TerminarDirecta(r) PROVE TypeOK'
  BY <1>5 DEF TypeOK, TerminarDirecta
<1>6. CASE TomarDeNew
  <2>1. new \in Seq(Requests) /\ new # <<>>
    BY <1>6 DEF TypeOK, TomarDeNew
  <2>2. Head(new) \in Requests /\ Tail(new) \in Seq(Requests)
    BY <2>1, ColaSinPrimero
  <2> QED BY <1>6, <2>2 DEF TypeOK, TomarDeNew
<1>7. CASE Rechazar
  BY <1>7 DEF TypeOK, Rechazar
<1>8. CASE Reservar
  BY <1>8 DEF TypeOK, Reservar, Empujar
<1>9. CASE AvisarReady
  BY <1>9 DEF TypeOK, AvisarReady
<1>10. CASE EsperarReady
  BY <1>10 DEF TypeOK, EsperarReady
<1>11. CASE EsperarMulti
  BY <1>11 DEF TypeOK, EsperarMulti
<1>12. ASSUME NEW h \in Hilos, Despachar(h) PROVE TypeOK'
  <2>1. /\ ready' \in Seq(Requests) /\ Head(ready) \in Requests
        /\ adelantos' \in [Requests -> [Requests -> Nat]]
    BY <1>12, SacarBienTipado DEF Despachar
  <2>2. [Libre EXCEPT !.pc = IF Tipo[Head(ready)] = "run" THEN "empieza" ELSE "ejecuta",
                      !.req = Head(ready)]
          \in EstadosDeHilo
    BY <2>1 DEF Libre
  <2>3. hilos' \in [Hilos -> EstadosDeHilo]
    BY <1>12, <2>2 DEF TypeOK, Despachar
  <2> QED BY <1>12, <2>1, <2>3 DEF TypeOK, Despachar
<1>13. CASE FallarHilo
  <2>1. /\ ready' \in Seq(Requests) /\ Head(ready) \in Requests
        /\ adelantos' \in [Requests -> [Requests -> Nat]]
    BY <1>13, SacarBienTipado DEF FallarHilo
  <2>2. estado' \in [Requests -> Estados] /\ fallas' \in Nat
    BY <1>13, <2>1 DEF TypeOK, FallarHilo
  <2> QED BY <1>13, <2>1, <2>2 DEF TypeOK, FallarHilo
<1>14. ASSUME NEW h \in Hilos, AccionesDeHilo(h) PROVE TypeOK'
  <2>1. CASE Ejecutar(h)
    BY <2>1 DEF TypeOK, Ejecutar
  <2>2. CASE TomarQuantum(h)
    <3>1. quantum \in Nat /\ hilos[h] \in EstadosDeHilo
      BY QuantumsAssumption DEF TypeOK
    <3>2. hilos' \in [Hilos -> EstadosDeHilo]
      BY <2>2, <3>1 DEF TypeOK, TomarQuantum
    <3> QED BY <2>2, <3>2 DEF TypeOK, TomarQuantum
  <2>3. CASE EnviarLinea(h)
    BY <2>3 DEF TypeOK, EnviarLinea
  <2>4. CASE LineaExitosa(h)
    <3> DEFINE r == hilos[h].req
    <3>1. r \in Requests /\ avance[r] # Len(Lineas[r])
      BY <2>4 DEF LineaExitosa, LugarInv, Duenio, ColaVacia
    <3>2. Len(Lineas[r]) \in Nat /\ avance[r] \in Nat /\ avance[r] <= Len(Lineas[r])
      BY <3>1, LineasAssumption DEF TypeOK
    <3>3. avance' = [avance EXCEPT ![r] = avance[r] + 1]
      BY <2>4 DEF LineaExitosa
    <3>4. avance' \in [Requests -> Nat] /\ \A s \in Requests : avance'[s] <= Len(Lineas[s])
      <4>1. avance[r] + 1 \in Nat /\ avance[r] + 1 <= Len(Lineas[r])
        BY <3>1, <3>2
      <4> HIDE DEF r
      <4> QED BY <3>1, <3>3, <4>1 DEF TypeOK
    <3>5. hilos' \in [Hilos -> EstadosDeHilo]
      <4>1. hilos[h] \in EstadosDeHilo /\ hilos[h].i + 1 \in Nat
        BY DEF TypeOK
      <4>2. [hilos[h] EXCEPT !.pc = "itera", !.i = @ + 1] \in EstadosDeHilo
        BY <4>1
      <4>3. hilos' = [hilos EXCEPT ![h] = [hilos[h] EXCEPT !.pc = "itera", !.i = @ + 1]]
        BY <2>4 DEF TypeOK, LineaExitosa
      <4> QED BY <4>2, <4>3 DEF TypeOK
    <3> QED BY <2>4, <3>4, <3>5 DEF TypeOK, LineaExitosa
  <2>5. CASE LineaFallida(h)
    BY <2>5 DEF TypeOK, LineaFallida
  <2>6. CASE FinDeQuantum(h)
    <3>1. hilos[h].req \in Requests
      BY <2>6 DEF FinDeQuantum, LugarInv, Duenio
    <3>2. ready' \in Seq(Requests) /\ UNCHANGED adelantos
      BY <2>6, <3>1 DEF TypeOK, FinDeQuantum, Empujar
    <3>3. hilos' \in [Hilos -> EstadosDeHilo]
      BY <2>6 DEF TypeOK, FinDeQuantum
    <3> QED BY <2>6, <3>2, <3>3 DEF TypeOK, FinDeQuantum
  <2>7. CASE FinDeScript(h)
    BY <2>7 DEF TypeOK, FinDeScript
  <2>8. CASE VolverAReady(h)
    <3>1. hilos' \in [Hilos -> EstadosDeHilo]
      <4>1. hilos \in [Hilos -> EstadosDeHilo]
        BY DEF TypeOK
      <4>2. [hilos[h] EXCEPT !.pc = "libera"] \in EstadosDeHilo
        BY <4>1
      <4>3. hilos' = [hilos EXCEPT ![h] = [hilos[h] EXCEPT !.pc = "libera"]]
        BY <2>8, <4>1 DEF VolverAReady
      <4> QED BY <4>1, <4>2, <4>3
    <3>2. semReady' \in Nat
      BY <2>8 DEF TypeOK, VolverAReady
    <3>3. UNCHANGED <<new, semNew, ready, semMulti, consola, validador, despachador,
                      avance, quantum, directas, fallas, estado, adelantos>>
      BY <2>8 DEF VolverAReady, planificacion
    <3> QED BY <3>1, <3>2, <3>3 DEF TypeOK
  <2>9. CASE Liberar(h)
    BY <2>9 DEF TypeOK, Liberar, Libre
  <2> QED BY <1>14, <2>1, <2>2, <2>3, <2>4, <2>5, <2>6, <2>7, <2>8, <2>9
          DEF AccionesDeHilo
<1>15. ASSUME NEW q \in Quantums, CambiarQuantum(q) PROVE TypeOK'
  BY <1>15 DEF TypeOK, CambiarQuantum
<1>16. CASE UNCHANGED vars
  BY <1>16 DEF TypeOK, vars
<1> QED BY <1>1, <1>2, <1>3, <1>4, <1>5, <1>6, <1>7, <1>8, <1>9, <1>10, <1>11,
           <1>12, <1>13, <1>14, <1>15, <1>16
        DEF Next, AccionesDeValidador, AccionesDeDespachador
------------------------------------------------------------------------------
(* Where requests are.                                                     *)

LEMMA InitLugarInv == Init => LugarInv
<1> SUFFICES ASSUME Init PROVE LugarInv
  OBVIOUS
<1>1. IsInjective(<<>>) /\ Range(<<>>) = {}
  BY DEF IsInjective, Range
<1>2. new = <<>> /\ ready = <<>> /\ directas = {} /\ validador.pc = "espera"
  BY DEF Init
<1>3. \A h \in Hilos : hilos[h].pc = "libre"
  BY DEF Init, Libre
<1> QED BY <1>1, <1>2, <1>3
        DEF LugarInv, EnUnSoloLugar, EnCola, EnValidador, EnHilo, Duenio

\* A step that moves no request, nor changes what became of one.
LEMMA LugarIgual ==
  ASSUME LugarInv,
         UNCHANGED <<new, ready, validador, hilos, avance, directas, estado>>
  PROVE  LugarInv'
BY DEF LugarInv, EnUnSoloLugar, EnCola, EnValidador, EnHilo, Duenio, ColaVacia

\* A step of a thread that keeps its request.
LEMMA LugarSinSoltar ==
  ASSUME TypeOK, LugarInv, NEW h \in Hilos, Duenio(h), Duenio(h)',
         hilos' \in [Hilos -> EstadosDeHilo],
         \A g \in Hilos \ {h} : hilos'[g] = hilos[g],
         hilos'[h].req = hilos[h].req,
         hilos'[h].pc # "ejecuta",
         hilos'[h].pc = "enviada" => avance'[hilos[h].req] # Len(Lineas[hilos[h].req]),
         \A r \in Requests \ {hilos[h].req} : avance'[r] = avance[r],
         UNCHANGED <<new, ready, validador, directas, estado>>
  PROVE  LugarInv'
<1>1. \A g \in Hilos : Duenio(g)' = Duenio(g) /\ hilos'[g].req = hilos[g].req
  BY DEF Duenio
<1>2. \A r : EnHilo(r)' = EnHilo(r) /\ EnCola(r)' = EnCola(r) /\ EnValidador(r)' = EnValidador(r)
  BY <1>1 DEF EnHilo, EnCola, EnValidador
<1>3. EnUnSoloLugar'
  BY <1>1 DEF LugarInv, EnUnSoloLugar
<1>4. \A g \in Hilos :
        /\ Duenio(g)' => hilos'[g].req \in Requests
        /\ hilos'[g].pc = "ejecuta" => Tipo[hilos'[g].req] # "run"
        /\ hilos'[g].pc = "enviada" => avance'[hilos'[g].req] # Len(Lineas[hilos'[g].req])
  <2> SUFFICES ASSUME NEW g \in Hilos
               PROVE  /\ Duenio(g)' => hilos'[g].req \in Requests
                      /\ hilos'[g].pc = "ejecuta" => Tipo[hilos'[g].req] # "run"
                      /\ hilos'[g].pc = "enviada" =>
                           avance'[hilos'[g].req] # Len(Lineas[hilos'[g].req])
    OBVIOUS
  <2>1. CASE g = h
    BY <1>1, <2>1 DEF LugarInv
  <2>2. CASE g # h
    <3>1. hilos[g].pc = "enviada" => hilos[g].req # hilos[h].req /\ hilos[g].req \in Requests
      BY <2>2 DEF LugarInv, EnUnSoloLugar, Duenio
    <3> QED BY <1>1, <2>2, <3>1 DEF LugarInv, ColaVacia
  <2> QED BY <2>1, <2>2
<1> QED BY <1>2, <1>3, <1>4 DEF LugarInv, ColaVacia

\* A step of a thread that has no request left when it ends: it finishes or
\* cancels what it had, or gives it back to ready, or had nothing.
LEMMA LugarAlSoltar ==
  ASSUME TypeOK, LugarInv, NEW h \in Hilos, ~Duenio(h)',
         hilos' \in [Hilos -> EstadosDeHilo],
         \A g \in Hilos \ {h} : hilos'[g] = hilos[g],
         \/ Duenio(h) /\ ready' = Append(ready, hilos[h].req) /\ UNCHANGED estado
         \/ /\ ready' = ready
            /\ \A r \in Requests : ~(Duenio(h) /\ r = hilos[h].req) => estado'[r] = estado[r],
         UNCHANGED <<new, validador, directas, avance>>
  PROVE  LugarInv'
<1>1. \A g \in Hilos \ {h} : Duenio(g)' = Duenio(g) /\ hilos'[g].req = hilos[g].req
  BY DEF Duenio
<1>2. Duenio(h) => /\ hilos[h].req \in Requests
                   /\ hilos[h].req \notin Range(new) \cup Range(ready)
                   /\ ~EnValidador(hilos[h].req)
                   /\ \A g \in Hilos \ {h} : Duenio(g) => hilos[g].req # hilos[h].req
                   /\ estado[hilos[h].req] = "aceptada" /\ Tipo[hilos[h].req] # "directa"
  BY DEF LugarInv, EnUnSoloLugar, EnHilo
<1>3. \A r \in Requests : EnHilo(r)' => EnHilo(r) /\ ~(Duenio(h) /\ r = hilos[h].req)
  BY <1>1, <1>2 DEF EnHilo
<1>4. \A r \in Requests :
        /\ EnValidador(r)' <=> EnValidador(r)
        /\ EnValidador(r) => ~(Duenio(h) /\ r = hilos[h].req)
  BY <1>2 DEF EnValidador
<1>5. \A g \in Hilos :
        /\ Duenio(g)' => hilos'[g].req \in Requests
        /\ hilos'[g].pc = "ejecuta" => Tipo[hilos'[g].req] # "run"
        /\ hilos'[g].pc = "enviada" => avance'[hilos'[g].req] # Len(Lineas[hilos'[g].req])
  BY <1>1 DEF LugarInv, ColaVacia, Duenio
<1>6. CASE Duenio(h) /\ ready' = Append(ready, hilos[h].req) /\ UNCHANGED estado
  <2>1. Range(ready') = Range(ready) \cup {hilos[h].req} /\ IsInjective(ready')
    BY <1>2, <1>6, RangoDeAppend, AppendSinRepetidos
       DEF TypeOK, LugarInv, EnUnSoloLugar
  <2>2. EnUnSoloLugar'
    BY <1>1, <1>2, <2>1 DEF LugarInv, EnUnSoloLugar
  <2>3. \A r \in Requests : EnCola(r)' => EnCola(r) \/ r = hilos[h].req
    BY <2>1 DEF EnCola
  <2>4. \A r \in Requests : EnValidador(r)' => ~EnCola(r)' /\ ~EnHilo(r)'
    BY <1>2, <1>3, <1>4, <1>6, <2>3 DEF LugarInv
  <2>5. \A r \in Requests : EnCola(r)' \/ EnValidador(r)' \/ EnHilo(r)' =>
          estado'[r] = "aceptada" /\ Tipo[r] # "directa"
    BY <1>2, <1>3, <1>4, <1>6, <2>3 DEF LugarInv
  <2>6. \A r \in directas : estado'[r] = "aceptada" /\ Tipo[r] = "directa"
    BY <1>6 DEF LugarInv
  <2> QED BY <1>5, <2>2, <2>4, <2>5, <2>6 DEF LugarInv, ColaVacia
<1>7. CASE /\ ready' = ready
           /\ \A r \in Requests : ~(Duenio(h) /\ r = hilos[h].req) => estado'[r] = estado[r]
  <2>1. EnUnSoloLugar'
    BY <1>1, <1>7 DEF LugarInv, EnUnSoloLugar
  <2>2. \A r \in Requests : EnCola(r)' = EnCola(r)
    BY <1>7 DEF EnCola
  <2>3. \A r \in Requests : EnValidador(r)' => ~EnCola(r)' /\ ~EnHilo(r)'
    BY <1>3, <1>4, <2>2 DEF LugarInv
  <2>4. \A r \in Requests : EnCola(r)' \/ EnValidador(r)' \/ EnHilo(r)' =>
          estado'[r] = "aceptada" /\ Tipo[r] # "directa"
    <3> SUFFICES ASSUME NEW r \in Requests, EnCola(r)' \/ EnValidador(r)' \/ EnHilo(r)'
                 PROVE  estado'[r] = "aceptada" /\ Tipo[r] # "directa"
      OBVIOUS
    <3>1. EnCola(r) \/ EnValidador(r) \/ EnHilo(r)
      BY <1>3, <1>4, <2>2
    <3>2. ~(Duenio(h) /\ r = hilos[h].req)
      BY <1>2, <1>3, <1>4, <2>2 DEF EnCola
    <3> QED BY <1>7, <3>1, <3>2 DEF LugarInv
  <2>5. \A r \in directas : estado'[r] = "aceptada" /\ Tipo[r] = "directa"
    BY <1>2, <1>7 DEF LugarInv, TypeOK
  <2> QED BY <1>5, <2>1, <2>3, <2>4, <2>5 DEF LugarInv, ColaVacia
<1> QED BY <1>6, <1>7

\* The first of ready is given to the thread h, which had nothing.
LEMMA LugarAlDespachar ==
  ASSUME TypeOK, LugarInv, NEW h \in Hilos, Despachar(h)
  PROVE  LugarInv'
<1> DEFINE r == Head(ready)
<1>1. /\ ready \in Seq(Requests) /\ ready # <<>> /\ ready' = Tail(ready)
      /\ r \in Requests
  BY SacarBienTipado DEF Despachar
<1>2. /\ Range(ready) = {r} \cup Range(ready')
      /\ IsInjective(ready') /\ r \notin Range(ready')
  BY <1>1, ColaSinPrimero, ColaInyectivaSinPrimero DEF LugarInv, EnUnSoloLugar
<1>3. /\ ~EnHilo(r) /\ r \notin Range(new) /\ ~EnValidador(r)
      /\ estado[r] = "aceptada" /\ Tipo[r] # "directa"
  BY <1>1, <1>2 DEF LugarInv, EnUnSoloLugar, EnCola, EnHilo
<1>4. /\ hilos'[h].req = r /\ Duenio(h)'
      /\ hilos'[h].pc = (IF Tipo[r] = "run" THEN "empieza" ELSE "ejecuta")
      /\ \A g \in Hilos \ {h} : hilos'[g] = hilos[g]
      /\ ~Duenio(h)
      /\ UNCHANGED <<new, validador, avance, directas, estado>>
  BY DEF Despachar, PrimeroLibre, Libre, Duenio, TypeOK
<1> HIDE DEF r
<1>5. \A g \in Hilos \ {h} : Duenio(g)' = Duenio(g) /\ hilos'[g].req = hilos[g].req
  BY <1>4 DEF Duenio
<1>6. \A g \in Hilos : Duenio(g) => hilos[g].req # r
  BY <1>3 DEF EnHilo
<1>7. EnUnSoloLugar'
  <2>1. \A f, g \in Hilos :
          Duenio(f)' /\ Duenio(g)' /\ f # g => hilos'[f].req # hilos'[g].req
    BY <1>4, <1>5, <1>6 DEF LugarInv, EnUnSoloLugar
  <2>2. \A g \in Hilos : Duenio(g)' => hilos'[g].req \notin Range(new') \cup Range(ready')
    BY <1>2, <1>3, <1>4, <1>5 DEF LugarInv, EnUnSoloLugar
  <2>3. IsInjective(new') /\ Range(new') \cap Range(ready') = {}
    BY <1>2, <1>4 DEF LugarInv, EnUnSoloLugar
  <2> QED BY <1>2, <2>1, <2>2, <2>3 DEF EnUnSoloLugar
<1>8. \A s \in Requests :
        /\ EnCola(s)' => EnCola(s)
        /\ EnValidador(s)' <=> EnValidador(s)
        /\ EnHilo(s)' => EnHilo(s) \/ s = r
  BY <1>2, <1>4, <1>5 DEF EnCola, EnValidador, EnHilo
<1>9. \A s \in Requests : EnValidador(s)' => ~EnCola(s)' /\ ~EnHilo(s)'
  BY <1>3, <1>8 DEF LugarInv, EnValidador
<1>10. \A s \in Requests : EnCola(s)' \/ EnValidador(s)' \/ EnHilo(s)' =>
         estado'[s] = "aceptada" /\ Tipo[s] # "directa"
  BY <1>3, <1>4, <1>8 DEF LugarInv
<1>11. \A g \in Hilos :
        /\ Duenio(g)' => hilos'[g].req \in Requests
        /\ hilos'[g].pc = "ejecuta" => Tipo[hilos'[g].req] # "run"
        /\ hilos'[g].pc = "enviada" => avance'[hilos'[g].req] # Len(Lineas[hilos'[g].req])
  BY <1>1, <1>4, <1>5 DEF LugarInv, ColaVacia, Duenio
<1>12. \A s \in directas' : estado'[s] = "aceptada" /\ Tipo[s] = "directa"
  BY <1>4 DEF LugarInv
<1> QED BY <1>7, <1>9, <1>10, <1>11, <1>12 DEF LugarInv, ColaVacia

\* The first of ready is dropped.
LEMMA LugarAlFallar ==
  ASSUME TypeOK, LugarInv, FallarHilo
  PROVE  LugarInv'
<1> DEFINE r == Head(ready)
<1>1. /\ ready \in Seq(Requests) /\ ready # <<>> /\ ready' = Tail(ready)
      /\ r \in Requests
  BY SacarBienTipado DEF FallarHilo
<1>2. /\ Range(ready) = {r} \cup Range(ready')
      /\ IsInjective(ready') /\ r \notin Range(ready')
  BY <1>1, ColaSinPrimero, ColaInyectivaSinPrimero DEF LugarInv, EnUnSoloLugar
<1>3. /\ ~EnHilo(r) /\ r \notin Range(new) /\ ~EnValidador(r)
      /\ Tipo[r] # "directa"
  BY <1>1, <1>2 DEF LugarInv, EnUnSoloLugar, EnCola, EnHilo
<1>4. /\ UNCHANGED <<new, validador, avance, directas, hilos>>
      /\ \A s \in Requests \ {r} : estado'[s] = estado[s]
  BY DEF FallarHilo, TypeOK
<1> HIDE DEF r
<1>5. EnUnSoloLugar'
  BY <1>2, <1>4 DEF LugarInv, EnUnSoloLugar, Duenio
<1>6. \A s \in Requests :
        /\ EnCola(s)' => EnCola(s) /\ s # r
        /\ EnValidador(s)' => EnValidador(s) /\ s # r
        /\ EnHilo(s)' => EnHilo(s) /\ s # r
  BY <1>2, <1>3, <1>4 DEF EnCola, EnValidador, EnHilo, Duenio
<1>7. \A s \in directas' : estado'[s] = "aceptada" /\ Tipo[s] = "directa"
  BY <1>3, <1>4 DEF LugarInv, TypeOK
<1>8. \A g \in Hilos :
        /\ Duenio(g)' => hilos'[g].req \in Requests
        /\ hilos'[g].pc = "ejecuta" => Tipo[hilos'[g].req] # "run"
        /\ hilos'[g].pc = "enviada" => avance'[hilos'[g].req] # Len(Lineas[hilos'[g].req])
  BY <1>4 DEF LugarInv, ColaVacia, Duenio
<1> QED BY <1>4, <1>5, <1>6, <1>7, <1>8 DEF LugarInv, ColaVacia

\* A request enters new.
LEMMA LugarAlEncolar ==
  ASSUME TypeOK, LugarInv, NEW r \in Requests, Encolar(r)
  PROVE  LugarInv'
<1>1. /\ ~EnCola(r) /\ ~EnValidador(r) /\ ~EnHilo(r) /\ r \notin directas
      /\ Tipo[r] # "directa"
  BY DEF LugarInv, Encolar
<1>2. /\ Range(new') = Range(new) \cup {r} /\ IsInjective(new')
      /\ UNCHANGED <<ready, validador, avance, directas, hilos>>
      /\ estado'[r] = "aceptada"
      /\ \A s \in Requests \ {r} : estado'[s] = estado[s]
  BY <1>1, RangoDeAppend, AppendSinRepetidos
     DEF Encolar, TypeOK, LugarInv, EnUnSoloLugar, EnCola
<1>3. EnUnSoloLugar'
  BY <1>1, <1>2 DEF LugarInv, EnUnSoloLugar, Duenio, EnCola, EnHilo
<1>4. \A s \in Requests :
        /\ EnCola(s)' => EnCola(s) \/ s = r
        /\ EnValidador(s)' => EnValidador(s) /\ s # r
        /\ EnHilo(s)' => EnHilo(s) /\ s # r
  BY <1>1, <1>2 DEF EnCola, EnValidador, EnHilo, Duenio
<1>5. \A s \in directas' : estado'[s] = "aceptada" /\ Tipo[s] = "directa"
  BY <1>1, <1>2 DEF LugarInv, TypeOK
<1>6. \A g \in Hilos :
        /\ Duenio(g)' => hilos'[g].req \in Requests
        /\ hilos'[g].pc = "ejecuta" => Tipo[hilos'[g].req] # "run"
        /\ hilos'[g].pc = "enviada" => avance'[hilos'[g].req] # Len(Lineas[hilos'[g].req])
  BY <1>2 DEF LugarInv, ColaVacia, Duenio
<1> QED BY <1>1, <1>2, <1>3, <1>4, <1>5, <1>6 DEF LugarInv, ColaVacia

\* ADD and METRICS are nowhere but in directas.
LEMMA LugarDeDirectas ==
  ASSUME TypeOK, LugarInv, NEW r \in Requests,
         EjecutarSinPlanificar(r) \/ FallarDirecta(r) \/ TerminarDirecta(r)
  PROVE  LugarInv'
<1>1. /\ UNCHANGED <<new, ready, validador, hilos, avance>>
      /\ Tipo[r] = "directa"
      /\ \A s \in Requests \ {r} : estado'[s] = estado[s]
      /\ directas' \subseteq directas \cup {r}
      /\ r \in directas' => estado'[r] = "aceptada"
  BY DEF EjecutarSinPlanificar, FallarDirecta, TerminarDirecta, TypeOK, LugarInv,
         colas, planificacion
<1>2. ~EnCola(r) /\ ~EnValidador(r) /\ ~EnHilo(r)
  BY <1>1 DEF LugarInv
<1>3. \A s \in Requests :
        /\ EnCola(s)' => EnCola(s) /\ s # r
        /\ EnValidador(s)' => EnValidador(s) /\ s # r
        /\ EnHilo(s)' => EnHilo(s) /\ s # r
  BY <1>1, <1>2 DEF EnCola, EnValidador, EnHilo, Duenio
<1>4. EnUnSoloLugar'
  BY <1>1 DEF LugarInv, EnUnSoloLugar, Duenio
<1>5. \A s \in directas' : estado'[s] = "aceptada" /\ Tipo[s] = "directa"
  BY <1>1 DEF LugarInv, TypeOK
<1>6. \A g \in Hilos :
        /\ Duenio(g)' => hilos'[g].req \in Requests
        /\ hilos'[g].pc = "ejecuta" => Tipo[hilos'[g].req] # "run"
        /\ hilos'[g].pc = "enviada" => avance'[hilos'[g].req] # Len(Lineas[hilos'[g].req])
  BY <1>1 DEF LugarInv, ColaVacia, Duenio
<1> QED BY <1>1, <1>3, <1>4, <1>5, <1>6 DEF LugarInv, ColaVacia

\* The validator takes the first of new, rejects it or passes it on.
LEMMA LugarDelValidador ==
  ASSUME TypeOK, LugarInv, AccionesDeValidador
  PROVE  LugarInv'
<1>1. /\ UNCHANGED <<hilos, avance, directas>>
      /\ TypeOK
  BY DEF AccionesDeValidador, TomarDeNew, Rechazar, Reservar, AvisarReady, colas, planificacion
<1>2. \A g \in Hilos :
        /\ Duenio(g)' => hilos'[g].req \in Requests
        /\ hilos'[g].pc = "ejecuta" => Tipo[hilos'[g].req] # "run"
        /\ hilos'[g].pc = "enviada" => avance'[hilos'[g].req] # Len(Lineas[hilos'[g].req])
  BY <1>1 DEF LugarInv, ColaVacia, Duenio
<1>3. \A s : EnHilo(s)' <=> EnHilo(s)
  BY <1>1 DEF EnHilo, Duenio
<1>4. CASE TomarDeNew
  <2> DEFINE r == Head(new)
  <2>1. /\ new \in Seq(Requests) /\ new # <<>> /\ new' = Tail(new) /\ r \in Requests
        /\ UNCHANGED <<ready, estado>>
        /\ validador.pc = "espera" /\ validador' = [pc |-> "valida", req |-> r]
    BY <1>4, ColaSinPrimero DEF TomarDeNew, TypeOK
  <2>2. /\ Range(new) = {r} \cup Range(new')
        /\ IsInjective(new') /\ r \notin Range(new')
    BY <2>1, ColaSinPrimero, ColaInyectivaSinPrimero DEF LugarInv, EnUnSoloLugar
  <2> HIDE DEF r
  <2>3. r \notin Range(ready) /\ ~EnHilo(r) /\ EnCola(r)
    BY <2>2 DEF LugarInv, EnUnSoloLugar, EnHilo, EnCola
  <2>4. EnUnSoloLugar'
    BY <1>1, <2>1, <2>2 DEF LugarInv, EnUnSoloLugar, Duenio
  <2>5. \A s \in Requests :
          /\ EnCola(s)' => EnCola(s) /\ s # r
          /\ EnValidador(s)' <=> s = r
    BY <2>1, <2>2, <2>3 DEF EnCola, EnValidador
  <2> QED BY <1>1, <1>2, <1>3, <2>1, <2>3, <2>4, <2>5 DEF LugarInv, ColaVacia
<1>5. CASE Rechazar
  <2>1. /\ UNCHANGED <<new, ready>> /\ validador'.pc = "espera"
        /\ EnValidador(validador.req) /\ validador.req \in Requests
        /\ \A s \in Requests \ {validador.req} : estado'[s] = estado[s]
    BY <1>5 DEF Rechazar, TypeOK, EnValidador, colas
  <2>2. EnUnSoloLugar'
    BY <1>1, <2>1 DEF LugarInv, EnUnSoloLugar, Duenio
  <2>3. \A s \in Requests :
          /\ EnCola(s)' => EnCola(s) /\ s # validador.req
          /\ ~EnValidador(s)'
          /\ EnHilo(s)' => s # validador.req
    BY <1>3, <2>1 DEF EnCola, EnValidador, LugarInv
  <2>4. \A s \in directas' : estado'[s] = "aceptada" /\ Tipo[s] = "directa"
    BY <1>1, <2>1 DEF LugarInv, TypeOK
  <2> QED BY <1>1, <1>2, <1>3, <2>1, <2>2, <2>3, <2>4 DEF LugarInv, ColaVacia
<1>6. CASE Reservar
  <2> DEFINE r == validador.req
  <2>1. /\ EnValidador(r) /\ r \in Requests /\ validador'.pc = "avisa"
        /\ ready' = Append(ready, r) /\ UNCHANGED <<new, estado>>
    BY <1>6 DEF Reservar, Empujar, TypeOK, EnValidador
  <2>2. ~EnCola(r) /\ ~EnHilo(r)
    BY <2>1 DEF LugarInv
  <2>3. Range(ready') = Range(ready) \cup {r} /\ IsInjective(ready')
    BY <2>1, <2>2, RangoDeAppend, AppendSinRepetidos
       DEF TypeOK, LugarInv, EnUnSoloLugar, EnCola
  <2> HIDE DEF r
  <2>4. EnUnSoloLugar'
    BY <1>1, <2>1, <2>2, <2>3 DEF LugarInv, EnUnSoloLugar, Duenio, EnCola, EnHilo
  <2>5. \A s \in Requests :
          /\ EnCola(s)' => EnCola(s) \/ s = r
          /\ ~EnValidador(s)'
    BY <2>1, <2>3 DEF EnCola, EnValidador
  <2> QED BY <1>1, <1>2, <1>3, <2>1, <2>4, <2>5 DEF LugarInv, ColaVacia
<1>7. CASE AvisarReady
  <2>1. /\ UNCHANGED <<new, ready, estado>>
        /\ validador.pc # "valida" /\ validador'.pc # "valida"
    BY <1>7 DEF AvisarReady
  <2>2. EnUnSoloLugar'
    BY <1>1, <2>1 DEF LugarInv, EnUnSoloLugar, Duenio
  <2>3. \A s \in Requests : (EnCola(s)' <=> EnCola(s)) /\ ~EnValidador(s)'
    BY <2>1 DEF EnCola, EnValidador
  <2> QED BY <1>1, <1>2, <1>3, <2>1, <2>2, <2>3 DEF LugarInv, ColaVacia
<1> QED BY <1>4, <1>5, <1>6, <1>7 DEF AccionesDeValidador

LEMMA LugarDeHilos ==
  ASSUME TypeOK, TypeOK', LugarInv, NEW h \in Hilos, AccionesDeHilo(h)
  PROVE  LugarInv'
<1>1. hilos' \in [Hilos -> EstadosDeHilo]
  BY DEF TypeOK, EstadosDeHilo
<1>2. CASE TomarQuantum(h)
  <2>1. /\ Duenio(h) /\ Duenio(h)' /\ hilos'[h].pc = "itera"
        /\ hilos'[h].req = hilos[h].req
        /\ \A g \in Hilos \ {h} : hilos'[g] = hilos[g]
    BY <1>2 DEF TypeOK, TomarQuantum, Duenio
  <2>2. UNCHANGED <<new, ready, validador, avance, directas, estado>>
    BY <1>2 DEF TomarQuantum, colas, planificacion
  <2> QED BY <1>1, <2>1, <2>2, LugarSinSoltar
<1>3. CASE EnviarLinea(h)
  <2>1. /\ Duenio(h) /\ Duenio(h)' /\ hilos'[h].pc = "enviada"
        /\ hilos'[h].req = hilos[h].req
        /\ \A g \in Hilos \ {h} : hilos'[g] = hilos[g]
    BY <1>3 DEF TypeOK, EnviarLinea, Duenio
  <2>2. /\ UNCHANGED <<new, ready, validador, avance, directas, estado>>
        /\ ~ColaVacia(hilos[h].req)
    BY <1>3 DEF EnviarLinea, colas, planificacion
  <2>3. avance'[hilos'[h].req] # Len(Lineas[hilos'[h].req])
    BY <2>1, <2>2 DEF ColaVacia
  <2> QED BY <1>1, <2>1, <2>2, <2>3, LugarSinSoltar
<1>4. CASE LineaExitosa(h)
  <2>1. /\ Duenio(h) /\ Duenio(h)' /\ hilos'[h].pc = "itera"
        /\ hilos'[h].req = hilos[h].req
        /\ \A g \in Hilos \ {h} : hilos'[g] = hilos[g]
    BY <1>4 DEF TypeOK, LineaExitosa, Duenio
  <2>2. /\ \A r \in Requests \ {hilos[h].req} : avance'[r] = avance[r]
        /\ UNCHANGED <<new, ready, validador, directas, estado>>
    BY <1>4 DEF TypeOK, LineaExitosa, colas, planificacion
  <2> QED BY <1>1, <2>1, <2>2, LugarSinSoltar
<1>5. CASE Ejecutar(h) \/ LineaFallida(h) \/ FinDeScript(h)
  <2>1. /\ Duenio(h) /\ ~Duenio(h)'
        /\ \A g \in Hilos \ {h} : hilos'[g] = hilos[g]
        /\ UNCHANGED <<new, ready, validador, directas, avance>>
        /\ \A r \in Requests \ {hilos[h].req} : estado'[r] = estado[r]
    <3>1. CASE Ejecutar(h)
      BY <3>1 DEF TypeOK, Ejecutar, Duenio, colas, planificacion
    <3>2. CASE LineaFallida(h)
      BY <3>2 DEF TypeOK, LineaFallida, Duenio, colas, planificacion
    <3>3. CASE FinDeScript(h)
      BY <3>3 DEF TypeOK, FinDeScript, Duenio, colas, planificacion
    <3> QED BY <1>5, <3>1, <3>2, <3>3
  <2> QED BY <1>1, <2>1, LugarAlSoltar
<1>6. CASE FinDeQuantum(h)
  <2>1. /\ Duenio(h) /\ ~Duenio(h)'
        /\ \A g \in Hilos \ {h} : hilos'[g] = hilos[g]
        /\ ready' = Append(ready, hilos[h].req)
        /\ UNCHANGED <<new, validador, directas, avance, estado>>
    BY <1>6 DEF TypeOK, FinDeQuantum, Empujar, Duenio, planificacion
  <2> QED BY <1>1, <2>1, LugarAlSoltar
<1>7. CASE VolverAReady(h) \/ Liberar(h)
  <2>1. /\ ~Duenio(h) /\ ~Duenio(h)'
        /\ \A g \in Hilos \ {h} : hilos'[g] = hilos[g]
        /\ UNCHANGED <<new, ready, validador, directas, avance, estado>>
    BY <1>7 DEF TypeOK, VolverAReady, Liberar, Libre, Duenio, planificacion
  <2> QED BY <1>1, <2>1, LugarAlSoltar
<1> QED BY <1>2, <1>3, <1>4, <1>5, <1>6, <1>7 DEF AccionesDeHilo

LEMMA LugarInvNext ==
  ASSUME TypeOK, TypeOK', LugarInv, [Next]_vars
  PROVE  LugarInv'
<1>1. CASE \/ AvisarNew \/ EsperarReady \/ EsperarMulti \/ UNCHANGED vars
           \/ \E q \in Quantums : CambiarQuantum(q)
  <2>1. UNCHANGED <<new, ready, validador, hilos, avance, directas, estado>>
    BY <1>1 DEF AvisarNew, EsperarReady, EsperarMulti, CambiarQuantum, vars, colas,
                planificacion
  <2> QED BY <2>1, LugarIgual
<1> QED BY <1>1, LugarAlEncolar, LugarDeDirectas, LugarDelValidador, LugarAlDespachar,
           LugarAlFallar, LugarDeHilos
        DEF Next, AccionesDeDespachador

LEMMA TipoYLugar == Spec => [](TypeOK /\ LugarInv)
<1>1. Init => TypeOK /\ LugarInv
  BY InitTypeOK, InitLugarInv
<1>2. TypeOK /\ LugarInv /\ [Next]_vars => TypeOK' /\ LugarInv'
  BY TypeOKNext, LugarInvNext
<1> QED BY <1>1, <1>2, PTL DEF Spec

\* Semaphores never go below zero, no script advances beyond its last line.
THEOREM PlanificadorBienTipado == Spec => []TypeOK
BY TipoYLugar, PTL

\* A request is in one queue or with one thread (queue_push and queue_pop of
\* new and ready, procesarRun).
THEOREM CadaRequestEnUnLugar == Spec => []EnUnSoloLugar
<1>1. LugarInv => EnUnSoloLugar
  BY DEF LugarInv
<1> QED BY <1>1, TipoYLugar, PTL
------------------------------------------------------------------------------
(* Semaphores and slots.                                                   *)

LEMMA HilosSonFinitos ==
  /\ \A S \in SUBSET Hilos : IsFiniteSet(S) /\ Cardinality(S) \in Nat
  /\ \A S \in SUBSET Hilos, h \in Hilos :
       h \notin S => Cardinality(S \cup {h}) = Cardinality(S) + 1
<1>1. ASSUME NEW S \in SUBSET Hilos
      PROVE  IsFiniteSet(S) /\ Cardinality(S) \in Nat
  BY HilosAssumption, FS_Subset, FS_CardinalityType
<1>2. ASSUME NEW S \in SUBSET Hilos, NEW h \in Hilos, h \notin S
      PROVE  Cardinality(S \cup {h}) = Cardinality(S) + 1
  BY <1>1, <1>2, FS_AddElement
<1> QED BY <1>1, <1>2

\* Everything a step of a thread that moves no semaphore has to leave alone.
LEMMA SemaforosIgual ==
  ASSUME SemaforosInv, SlotsConservados, Activos' = Activos, Avisando' = Avisando,
         UNCHANGED <<colas, planificacion, fallas>>
  PROVE  SemaforosInv' /\ SlotsConservados'
BY DEF SemaforosInv, SlotsConservados, colas, planificacion

LEMMA TiposDeSemaforos ==
  ASSUME TypeOK
  PROVE  /\ semNew \in Nat /\ semReady \in Nat /\ semMulti \in Nat /\ fallas \in Nat
         /\ Len(new) \in Nat /\ Len(ready) \in Nat
         /\ Cardinality(Activos) \in Nat /\ Cardinality(Avisando) \in Nat
BY HilosSonFinitos DEF TypeOK, Activos, Avisando

LEMMA InitSemaforos == Init => SemaforosInv /\ SlotsConservados
<1> SUFFICES ASSUME Init PROVE SemaforosInv /\ SlotsConservados
  OBVIOUS
<1>1. Activos = {} /\ Avisando = {}
  BY DEF Init, Libre, Activos, Avisando
<1>2. Cardinality({}) = 0
  BY FS_EmptySet
<1> QED BY <1>1, <1>2, MultiprocesamientoAssumption DEF Init, SemaforosInv, SlotsConservados

\* The threads that do not belong to a request.
LEMMA SemaforosDeFuera ==
  ASSUME TypeOK, TypeOK', SemaforosInv, SlotsConservados, UNCHANGED hilos,
         \/ \E r \in Requests : \/ Encolar(r) \/ EjecutarSinPlanificar(r)
                                \/ FallarDirecta(r) \/ TerminarDirecta(r)
         \/ AvisarNew \/ AccionesDeValidador
         \/ EsperarReady \/ EsperarMulti \/ FallarHilo
         \/ \E q \in Quantums : CambiarQuantum(q)
         \/ UNCHANGED vars
  PROVE  SemaforosInv' /\ SlotsConservados'
<1>0. /\ semNew \in Nat /\ semReady \in Nat /\ semMulti \in Nat /\ fallas \in Nat
      /\ Len(new) \in Nat /\ Len(ready) \in Nat
      /\ Cardinality(Activos) \in Nat /\ Cardinality(Avisando) \in Nat
  BY TiposDeSemaforos
<1>1. Activos' = Activos /\ Avisando' = Avisando
  BY DEF Activos, Avisando
<1>2. CASE \/ \E r \in Requests : \/ EjecutarSinPlanificar(r) \/ FallarDirecta(r)
                                  \/ TerminarDirecta(r)
           \/ Rechazar \/ \E q \in Quantums : CambiarQuantum(q)
           \/ UNCHANGED vars
  <2>1. UNCHANGED <<colas, consola, despachador, fallas>>
        /\ (validador'.pc = "avisa" <=> validador.pc = "avisa")
    BY <1>2 DEF EjecutarSinPlanificar, FallarDirecta, TerminarDirecta, Rechazar,
                CambiarQuantum, vars, planificacion
  <2> QED BY <1>0, <1>1, <2>1 DEF SemaforosInv, SlotsConservados, colas
<1>3. ASSUME NEW r \in Requests, Encolar(r) PROVE SemaforosInv' /\ SlotsConservados'
  <2>1. /\ Len(new') = Len(new) + 1 /\ consola = "lee" /\ consola' = "avisa"
        /\ UNCHANGED <<semNew, ready, semReady, semMulti, validador, despachador, fallas>>
    BY <1>3 DEF Encolar, TypeOK
  <2> QED BY <1>0, <1>1, <2>1 DEF SemaforosInv, SlotsConservados
<1>4. CASE AvisarNew
  <2>1. /\ semNew' = semNew + 1 /\ consola = "avisa" /\ consola' = "lee"
        /\ UNCHANGED <<new, ready, semReady, semMulti, validador, despachador, fallas>>
    BY <1>4 DEF AvisarNew
  <2> QED BY <1>0, <1>1, <2>1 DEF SemaforosInv, SlotsConservados
<1>5. CASE TomarDeNew
  <2>1. /\ Len(new') = Len(new) - 1 /\ semNew' = semNew - 1
        /\ validador'.pc = "valida" /\ validador.pc = "espera"
        /\ UNCHANGED <<consola, ready, semReady, semMulti, despachador, fallas>>
    BY <1>5, ColaSinPrimero DEF TomarDeNew, TypeOK
  <2> QED BY <1>0, <1>1, <2>1 DEF SemaforosInv, SlotsConservados
<1>6. CASE Reservar
  <2>1. /\ Len(ready') = Len(ready) + 1
        /\ validador'.pc = "avisa" /\ validador.pc = "valida"
        /\ UNCHANGED <<new, semNew, semReady, semMulti, consola, despachador, fallas>>
    BY <1>6 DEF Reservar, Empujar, TypeOK
  <2>2. SlotsConservados'
    BY <1>0, <1>1, <2>1 DEF SlotsConservados
  <2>3. SemaforosInv'
    BY <1>0, <1>1, <2>1 DEF SemaforosInv
  <2> QED BY <2>2, <2>3
<1>7. CASE AvisarReady
  <2>1. /\ semReady' = semReady + 1
        /\ validador'.pc = "espera" /\ validador.pc = "avisa"
        /\ UNCHANGED <<new, semNew, ready, semMulti, consola, despachador, fallas>>
    BY <1>7 DEF AvisarReady, TypeOK
  <2> QED BY <1>0, <1>1, <2>1 DEF SemaforosInv, SlotsConservados
<1>8. CASE EsperarReady
  <2>1. /\ semReady' = semReady - 1
        /\ despachador = "esperaReady" /\ despachador' = "esperaMulti"
        /\ UNCHANGED <<new, semNew, ready, semMulti, consola, validador, fallas>>
    BY <1>8 DEF EsperarReady, TypeOK
  <2> QED BY <1>0, <1>1, <2>1 DEF SemaforosInv, SlotsConservados
<1>9. CASE EsperarMulti
  <2>1. /\ semMulti' = semMulti - 1
        /\ despachador = "esperaMulti" /\ despachador' = "saca"
        /\ UNCHANGED <<new, semNew, ready, semReady, consola, validador, fallas>>
    BY <1>9 DEF EsperarMulti, TypeOK
  <2> QED BY <1>0, <1>1, <2>1 DEF SemaforosInv, SlotsConservados
<1>10. CASE FallarHilo
  <2>1. /\ Len(ready') = Len(ready) - 1
        /\ fallas' = fallas + 1
        /\ despachador = "saca" /\ despachador' = "esperaReady"
        /\ UNCHANGED <<new, semNew, semReady, semMulti, consola, validador>>
    BY <1>10, ColaSinPrimero DEF FallarHilo, Sacar, TypeOK
  <2>2. SlotsConservados'
    BY <1>0, <1>1, <2>1 DEF SlotsConservados
  <2>3. SemaforosInv'
    BY <1>0, <1>1, <2>1 DEF SemaforosInv
  <2> QED BY <2>2, <2>3
<1> QED BY <1>2, <1>3, <1>4, <1>5, <1>6, <1>7, <1>8, <1>9, <1>10
        DEF AccionesDeValidador

LEMMA SemaforosDeDespachar ==
  ASSUME TypeOK, SemaforosInv, SlotsConservados, NEW h \in Hilos, Despachar(h)
  PROVE  SemaforosInv' /\ SlotsConservados'
<1>0. /\ semNew \in Nat /\ semReady \in Nat /\ semMulti \in Nat /\ fallas \in Nat
      /\ Len(new) \in Nat /\ Len(ready) \in Nat
      /\ Cardinality(Activos) \in Nat /\ Cardinality(Avisando) \in Nat
  BY TiposDeSemaforos
<1>1. /\ hilos[h].pc = "libre"
      /\ hilos'[h].pc # "libre" /\ hilos'[h].pc # "avisa"
      /\ \A g \in Hilos \ {h} : hilos'[g] = hilos[g]
  BY DEF Despachar, PrimeroLibre, Libre, TypeOK
<1>2. /\ Activos' = Activos \cup {h} /\ h \notin Activos
      /\ Avisando' = Avisando
  BY <1>1 DEF Activos, Avisando
<1>3. /\ Cardinality(Activos') = Cardinality(Activos) + 1
      /\ Cardinality(Activos) \in Nat /\ Cardinality(Avisando) \in Nat
  BY <1>2, HilosSonFinitos DEF Activos, Avisando
<1>4. /\ Len(ready') = Len(ready) - 1 /\ Len(ready) \in Nat /\ semReady \in Nat
      /\ fallas \in Nat /\ semMulti \in Nat
      /\ despachador = "saca" /\ despachador' = "esperaReady"
      /\ UNCHANGED <<new, semNew, semReady, semMulti, consola, validador, fallas>>
  BY ColaSinPrimero DEF Despachar, Sacar, TypeOK
<1>5. SlotsConservados'
  BY <1>0, <1>3, <1>4 DEF SlotsConservados
<1>6. SemaforosInv'
  <2>1. /\ semNew + (IF consola = "avisa" THEN 1 ELSE 0) = Len(new)
        /\ semReady + 1 + (IF validador.pc = "avisa" THEN 1 ELSE 0)
             + Cardinality(Avisando) = Len(ready)
    BY <1>4 DEF SemaforosInv
  <2>2. semReady + 0 + (IF validador.pc = "avisa" THEN 1 ELSE 0)
          + Cardinality(Avisando) = Len(ready')
    BY <1>0, <1>4, <2>1
  <2> QED BY <1>2, <1>4, <2>1, <2>2 DEF SemaforosInv
<1> QED BY <1>5, <1>6

LEMMA SemaforosDeHilos ==
  ASSUME TypeOK, SemaforosInv, SlotsConservados, NEW h \in Hilos, AccionesDeHilo(h)
  PROVE  SemaforosInv' /\ SlotsConservados'
<1>0. /\ semNew \in Nat /\ semReady \in Nat /\ semMulti \in Nat /\ fallas \in Nat
      /\ Len(new) \in Nat /\ Len(ready) \in Nat
      /\ Cardinality(Activos) \in Nat /\ Cardinality(Avisando) \in Nat
  BY TiposDeSemaforos
<1>1. /\ \A S \in SUBSET Hilos : Cardinality(S) \in Nat
      /\ Activos \in SUBSET Hilos /\ Avisando \in SUBSET Hilos
      /\ Activos' \in SUBSET Hilos /\ Avisando' \in SUBSET Hilos
  BY HilosSonFinitos DEF Activos, Avisando
<1>2. ASSUME \/ Ejecutar(h) \/ TomarQuantum(h) \/ EnviarLinea(h) \/ LineaExitosa(h)
             \/ LineaFallida(h) \/ FinDeScript(h)
      PROVE  SemaforosInv' /\ SlotsConservados'
  <2>1. /\ hilos[h].pc \notin {"libre", "avisa"} /\ hilos'[h].pc \notin {"libre", "avisa"}
        /\ \A g \in Hilos \ {h} : hilos'[g] = hilos[g]
    <3>1. CASE Ejecutar(h)
      BY <3>1 DEF TypeOK, Ejecutar
    <3>2. CASE TomarQuantum(h)
      BY <3>2 DEF TypeOK, TomarQuantum
    <3>3. CASE EnviarLinea(h)
      BY <3>3 DEF TypeOK, EnviarLinea
    <3>4. CASE LineaExitosa(h)
      BY <3>4 DEF TypeOK, LineaExitosa
    <3>5. CASE LineaFallida(h)
      BY <3>5 DEF TypeOK, LineaFallida
    <3>6. CASE FinDeScript(h)
      BY <3>6 DEF TypeOK, FinDeScript
    <3> QED BY <1>2, <3>1, <3>2, <3>3, <3>4, <3>5, <3>6
  <2>2. UNCHANGED <<colas, planificacion, fallas>>
    BY <1>2 DEF Ejecutar, TomarQuantum, EnviarLinea, LineaExitosa, LineaFallida,
                FinDeScript
  <2>3. Activos' = Activos /\ Avisando' = Avisando
    BY <2>1 DEF Activos, Avisando
  <2> QED BY <2>2, <2>3, SemaforosIgual
<1>3. CASE FinDeQuantum(h)
  <2>1. /\ hilos[h].pc = "itera" /\ hilos'[h].pc = "avisa"
        /\ \A g \in Hilos \ {h} : hilos'[g] = hilos[g]
    BY <1>3 DEF TypeOK, FinDeQuantum
  <2>2. /\ Activos' = Activos
        /\ Avisando' = Avisando \cup {h} /\ h \notin Avisando
    BY <2>1 DEF Activos, Avisando
  <2>3. Cardinality(Avisando') = Cardinality(Avisando) + 1
    BY <1>1, <2>2, HilosSonFinitos
  <2>4. /\ Len(ready') = Len(ready) + 1 /\ Len(ready) \in Nat /\ semReady \in Nat
        /\ UNCHANGED <<new, semNew, semReady, semMulti, consola, validador, despachador,
                      fallas>>
    BY <1>3 DEF FinDeQuantum, Empujar, TypeOK, planificacion
  <2>5. SlotsConservados'
    BY <2>2, <2>4 DEF SlotsConservados
  <2>6. SemaforosInv'
    BY <1>0, <1>1, <2>3, <2>4 DEF SemaforosInv
  <2> QED BY <2>5, <2>6
<1>4. CASE VolverAReady(h)
  <2>1. /\ hilos[h].pc = "avisa" /\ hilos'[h].pc = "libera"
        /\ \A g \in Hilos \ {h} : hilos'[g] = hilos[g]
    BY <1>4 DEF TypeOK, VolverAReady
  <2>2. /\ Activos' = Activos
        /\ Avisando = Avisando' \cup {h} /\ h \notin Avisando'
    BY <2>1 DEF Activos, Avisando
  <2>3. Cardinality(Avisando) = Cardinality(Avisando') + 1
    BY <1>1, <2>2, HilosSonFinitos
  <2>4. /\ Len(ready) \in Nat /\ semReady \in Nat /\ semReady' = semReady + 1
        /\ UNCHANGED <<new, semNew, ready, semMulti, consola, validador, despachador,
                      fallas>>
    BY <1>4 DEF VolverAReady, TypeOK, planificacion
  <2>5. SlotsConservados'
    BY <2>2, <2>4 DEF SlotsConservados
  <2>6. SemaforosInv'
    BY <1>0, <1>1, <2>3, <2>4 DEF SemaforosInv
  <2> QED BY <2>5, <2>6
<1>5. CASE Liberar(h)
  <2>1. /\ hilos[h].pc = "libera" /\ hilos'[h].pc = "libre"
        /\ \A g \in Hilos \ {h} : hilos'[g] = hilos[g]
    BY <1>5 DEF TypeOK, Liberar, Libre
  <2>2. /\ Activos = Activos' \cup {h} /\ h \notin Activos'
        /\ Avisando' = Avisando
    BY <2>1 DEF Activos, Avisando
  <2>3. Cardinality(Activos) = Cardinality(Activos') + 1
    BY <1>1, <2>2, HilosSonFinitos
  <2>4. /\ fallas \in Nat /\ semMulti \in Nat /\ semMulti' = semMulti + 1
        /\ UNCHANGED <<new, semNew, ready, semReady, planificacion, fallas>>
    BY <1>5 DEF Liberar, TypeOK
  <2>5. SlotsConservados'
    <3>1. Cardinality(Activos') \in Nat
      BY <1>1
    <3> QED BY <1>0, <2>3, <2>4, <3>1 DEF SlotsConservados, planificacion
  <2>6. SemaforosInv'
    BY <2>2, <2>4 DEF SemaforosInv, planificacion
  <2> QED BY <2>5, <2>6
<1> QED BY <1>2, <1>3, <1>4, <1>5 DEF AccionesDeHilo

LEMMA SemaforosNext ==
  ASSUME TypeOK, TypeOK', SemaforosInv, SlotsConservados, [Next]_vars
  PROVE  SemaforosInv' /\ SlotsConservados'
<1>1. CASE \/ \E r \in Requests : \/ Encolar(r) \/ EjecutarSinPlanificar(r)
                                  \/ FallarDirecta(r) \/ TerminarDirecta(r)
           \/ AvisarNew \/ AccionesDeValidador
           \/ EsperarReady \/ EsperarMulti \/ FallarHilo
           \/ \E q \in Quantums : CambiarQuantum(q)
           \/ UNCHANGED vars
  <2>1. UNCHANGED hilos
    BY <1>1 DEF Encolar, EjecutarSinPlanificar, FallarDirecta, TerminarDirecta,
                AvisarNew, AccionesDeValidador, TomarDeNew, Rechazar, Reservar,
                AvisarReady, EsperarReady, EsperarMulti, FallarHilo,
                CambiarQuantum, vars
  <2> QED BY <1>1, <2>1, SemaforosDeFuera
<1> QED BY <1>1, SemaforosDeDespachar, SemaforosDeHilos DEF Next, AccionesDeDespachador

\* No more threads than MULTIPROCESAMIENTO: each slot of the semaphore is free,
\* in use, with the dispatcher or lost (planificarReadyAExec, procesarRequest).
THEOREM SlotsSeConservan == Spec => []SlotsConservados
<1>1. Init => TypeOK /\ LugarInv /\ SemaforosInv /\ SlotsConservados
  BY InitTypeOK, InitLugarInv, InitSemaforos
<1>2. TypeOK /\ LugarInv /\ SemaforosInv /\ SlotsConservados /\ [Next]_vars
        => TypeOK' /\ LugarInv' /\ SemaforosInv' /\ SlotsConservados'
  <2>1. TypeOK /\ LugarInv /\ [Next]_vars => TypeOK' /\ LugarInv'
    BY TypeOKNext, LugarInvNext
  <2> QED BY <2>1, SemaforosNext
<1> QED BY <1>1, <1>2, PTL DEF Spec

\* What a semaphore has counted is queued, so that nobody takes the head of an
\* empty queue (planificarNewAReady, planificarReadyAExec).
THEOREM NadieTomaDeColaVacia == Spec => []SemaforosRespaldados
<1>1. Init => TypeOK /\ LugarInv /\ SemaforosInv /\ SlotsConservados
  BY InitTypeOK, InitLugarInv, InitSemaforos
<1>2. TypeOK /\ LugarInv /\ SemaforosInv /\ SlotsConservados /\ [Next]_vars
        => TypeOK' /\ LugarInv' /\ SemaforosInv' /\ SlotsConservados'
  <2>1. TypeOK /\ LugarInv /\ [Next]_vars => TypeOK' /\ LugarInv'
    BY TypeOKNext, LugarInvNext
  <2> QED BY <2>1, SemaforosNext
<1>3. TypeOK /\ SemaforosInv => SemaforosRespaldados
  <2> SUFFICES ASSUME TypeOK, SemaforosInv PROVE SemaforosRespaldados
    OBVIOUS
  <2>1. Cardinality(Avisando) \in Nat /\ Len(new) \in Nat /\ Len(ready) \in Nat
    BY HilosSonFinitos DEF Avisando, TypeOK
  <2> QED BY <2>1 DEF SemaforosInv, SemaforosRespaldados, TypeOK
<1> QED BY <1>1, <1>2, <1>3, PTL DEF Spec

------------------------------------------------------------------------------
(* Turns.                                                                  *)

LEMMA InitTurnos == Init => TurnosInv
<1> SUFFICES ASSUME Init PROVE TurnosInv
  OBVIOUS
<1>1. ready = <<>> /\ DOMAIN ready = {} /\ Range(ready) = {}
  BY DEF Init, Range
<1>2. \A r \in Requests, s \in Requests : adelantos[r][s] = 0
  BY DEF Init
<1> QED BY <1>1, <1>2 DEF TurnosInv, TurnosJustos

LEMMA TurnosAlEmpujar ==
  ASSUME TypeOK, TurnosInv, NEW r \in Requests, r \notin Range(ready), Empujar(r)
  PROVE  TurnosInv'
<1>1. /\ ready \in Seq(Requests) /\ ready' = Append(ready, r) /\ adelantos' = adelantos
      /\ adelantos \in [Requests -> [Requests -> Nat]]
  BY DEF Empujar, TypeOK
<1>2. /\ Range(ready') = Range(ready) \cup {r}
      /\ Range(ready) \subseteq Requests
      /\ Len(ready) \in Nat
      /\ DOMAIN ready = 1..Len(ready) /\ DOMAIN ready' = 1..(Len(ready) + 1)
      /\ \A i \in 1..Len(ready) : ready'[i] = ready[i] /\ ready[i] \in Requests
      /\ ready'[Len(ready) + 1] = r
  BY <1>1, RangoDeAppend, RangoDeSecuencia
<1>3. \A s \in Requests : adelantos[r][s] = 0
  BY DEF TurnosInv
<1>4. TurnosJustos'
  BY <1>1, <1>2, <1>3 DEF TurnosInv, TurnosJustos
<1>5. ASSUME NEW i \in DOMAIN ready', NEW j \in DOMAIN ready', i < j
      PROVE  adelantos'[ready'[j]][ready'[i]] = 0
  <2>1. i \in 1..Len(ready)
    BY <1>2, <1>5
  <2>2. CASE j = Len(ready) + 1
    BY <1>1, <1>2, <1>3, <2>1, <2>2
  <2>3. CASE j \in 1..Len(ready)
    BY <1>1, <1>2, <1>5, <2>1, <2>3 DEF TurnosInv
  <2> QED BY <1>2, <2>2, <2>3
<1> QED BY <1>1, <1>2, <1>4, <1>5 DEF TurnosInv

LEMMA TurnosAlSacar ==
  ASSUME TypeOK, TurnosInv, IsInjective(ready), Sacar
  PROVE  TurnosInv'
<1> DEFINE p == Head(ready)
<1>1. /\ ready \in Seq(Requests) /\ ready # <<>> /\ ready' = Tail(ready)
      /\ ready' \in Seq(Requests) /\ p \in Requests
      /\ Len(ready) \in Nat /\ Len(ready) > 0 /\ Len(ready') = Len(ready) - 1
      /\ ready[1] = p
      /\ \A i \in 1..(Len(ready) - 1) : ready'[i] = ready[i + 1]
      /\ Range(ready) = {p} \cup Range(ready')
      /\ p \notin Range(ready')
  BY ColaSinPrimero, ColaInyectivaSinPrimero DEF Sacar, TypeOK
<1>2. \A r \in Requests, s \in Requests :
        /\ r \notin Range(ready') => adelantos'[r][s] = 0
        /\ r \in Range(ready') /\ s = p => adelantos'[r][s] = adelantos[r][s] + 1
        /\ r \in Range(ready') /\ s # p => adelantos'[r][s] = adelantos[r][s]
  <2>1. adelantos' = [r \in Requests |-> [s \in Requests |->
          IF r \in Range(ready')
          THEN adelantos[r][s] + (IF s = p THEN 1 ELSE 0)
          ELSE 0]]
    BY <1>1 DEF Sacar
  <2> HIDE DEF p
  <2>2. SUFFICES ASSUME NEW r \in Requests, NEW s \in Requests
        PROVE  /\ r \notin Range(ready') => adelantos'[r][s] = 0
               /\ r \in Range(ready') /\ s = p => adelantos'[r][s] = adelantos[r][s] + 1
               /\ r \in Range(ready') /\ s # p => adelantos'[r][s] = adelantos[r][s]
    OBVIOUS
  <2>3. adelantos'[r][s] = IF r \in Range(ready')
                           THEN adelantos[r][s] + (IF s = p THEN 1 ELSE 0)
                           ELSE 0
    BY <2>1
  <2>4. adelantos[r][s] \in Nat
    BY DEF TypeOK
  <2> QED BY <2>3, <2>4
<1> HIDE DEF p
<1>3. /\ Range(ready') \subseteq Requests
      /\ DOMAIN ready' = 1..(Len(ready) - 1) /\ DOMAIN ready = 1..Len(ready)
      /\ \A i \in DOMAIN ready' : ready'[i] \in Range(ready')
  BY <1>1, RangoDeSecuencia DEF Range
<1>4. \A r \in Range(ready') : adelantos[r][p] = 0
  <2>1. SUFFICES ASSUME NEW r \in Range(ready') PROVE adelantos[r][p] = 0
    OBVIOUS
  <2>2. PICK k \in 1..(Len(ready) - 1) : r = ready'[k]
    BY <1>3 DEF Range
  <2>3. /\ r = ready[k + 1] /\ 1 < k + 1
        /\ 1 \in DOMAIN ready /\ k + 1 \in DOMAIN ready
    BY <1>1, <1>3, <2>2
  <2> QED BY <1>1, <2>3 DEF TurnosInv
<1>5. TurnosJustos'
  <2>1. SUFFICES ASSUME NEW r \in Range(ready'), NEW s \in Requests
                 PROVE  adelantos'[r][s] <= 1
    BY DEF TurnosJustos
  <2>2. adelantos[r][s] <= 1 /\ r \in Requests
    BY <1>1, <1>3 DEF TurnosInv, TurnosJustos
  <2> QED BY <1>2, <1>4, <2>2
<1>6. ASSUME NEW i \in DOMAIN ready', NEW j \in DOMAIN ready', i < j
      PROVE  adelantos'[ready'[j]][ready'[i]] = 0
  <2>1. /\ ready'[i] \in Range(ready') /\ ready'[j] \in Range(ready')
        /\ ready'[i] # p
        /\ ready'[i] \in Requests /\ ready'[j] \in Requests
    BY <1>1, <1>3
  <2>2. /\ ready'[i] = ready[i + 1] /\ ready'[j] = ready[j + 1] /\ i + 1 < j + 1
        /\ i + 1 \in DOMAIN ready /\ j + 1 \in DOMAIN ready
    BY <1>1, <1>3, <1>6
  <2>3. adelantos[ready[j + 1]][ready[i + 1]] = 0
    BY <2>2 DEF TurnosInv
  <2> QED BY <1>2, <2>1, <2>2, <2>3
<1> QED BY <1>2, <1>5, <1>6 DEF TurnosInv

LEMMA TurnosNext ==
  ASSUME TypeOK, LugarInv, TurnosInv, [Next]_vars
  PROVE  TurnosInv'
<1>1. CASE UNCHANGED <<ready, adelantos>>
  BY <1>1 DEF TurnosInv, TurnosJustos
<1>2. CASE Reservar
  <2>1. validador.req \in Requests /\ EnValidador(validador.req) /\ Empujar(validador.req)
    BY <1>2 DEF Reservar, EnValidador, TypeOK
  <2> QED BY <2>1, TurnosAlEmpujar DEF LugarInv, EnCola
<1>3. ASSUME NEW h \in Hilos, FinDeQuantum(h) PROVE TurnosInv'
  <2>1. Duenio(h) /\ Empujar(hilos[h].req)
    BY <1>3 DEF FinDeQuantum, Duenio
  <2> QED BY <2>1, TurnosAlEmpujar DEF LugarInv, EnUnSoloLugar
<1>4. CASE FallarHilo \/ \E h \in Hilos : Despachar(h)
  <2>1. Sacar
    BY <1>4 DEF FallarHilo, Despachar
  <2> QED BY <2>1, TurnosAlSacar DEF LugarInv, EnUnSoloLugar
<1>5. \/ UNCHANGED <<ready, adelantos>>
      \/ Reservar
      \/ \E h \in Hilos : FinDeQuantum(h)
      \/ FallarHilo \/ \E h \in Hilos : Despachar(h)
  <2>1. CASE \E h \in Hilos : AccionesDeHilo(h)
    BY <2>1 DEF AccionesDeHilo, Ejecutar, TomarQuantum, EnviarLinea, LineaExitosa,
                LineaFallida, FinDeScript, VolverAReady, Liberar, colas
  <2>2. CASE ~ \E h \in Hilos : AccionesDeHilo(h)
    BY <2>2 DEF Next, vars, colas, AccionesDeValidador, AccionesDeDespachador,
                Encolar, EjecutarSinPlanificar, FallarDirecta, TerminarDirecta,
                AvisarNew, TomarDeNew, Rechazar, AvisarReady, EsperarReady,
                EsperarMulti, CambiarQuantum
  <2> QED BY <2>1, <2>2
<1> QED BY <1>1, <1>2, <1>3, <1>4, <1>5

\* While a request waits in ready no other is given a thread twice (round robin:
\* queue_push at the end of a quantum, queue_pop in planificarReadyAExec).
THEOREM LosTurnosSonJustos == Spec => []TurnosJustos
<1>1. Init => TypeOK /\ LugarInv /\ TurnosInv
  BY InitTypeOK, InitLugarInv, InitTurnos
<1>2. TypeOK /\ LugarInv /\ TurnosInv /\ [Next]_vars => TypeOK' /\ LugarInv' /\ TurnosInv'
  BY TypeOKNext, LugarInvNext, TurnosNext
<1>3. TurnosInv => TurnosJustos
  BY DEF TurnosInv
<1> QED BY <1>1, <1>2, <1>3, PTL DEF Spec
------------------------------------------------------------------------------
(* Planificador implements PlanificadorAbstracto.                          *)

\* The abstract set of running requests, as a definition of this module.
enExec == {hilos[h].req : h \in {g \in Hilos : Duenio(g)}}

LEMMA ExecEnHilo == \A r : r \in enExec <=> EnHilo(r)
BY DEF enExec, EnHilo

LEMMA ExecIgual ==
  ASSUME \A h \in Hilos : /\ Duenio(h)' = Duenio(h)
                          /\ Duenio(h) => hilos'[h].req = hilos[h].req
  PROVE  enExec' = enExec
BY DEF enExec

\* A thread leaves its request, which no other thread has.
LEMMA ExecSinUno ==
  ASSUME LugarInv, NEW h \in Hilos, Duenio(h), ~Duenio(h)',
         \A g \in Hilos \ {h} : hilos'[g] = hilos[g]
  PROVE  enExec' = enExec \ {hilos[h].req}
<1>1. \A g \in Hilos \ {h} : Duenio(g)' = Duenio(g)
  BY DEF Duenio
<1>2. \A g \in Hilos \ {h} : Duenio(g) => hilos[g].req # hilos[h].req
  BY DEF LugarInv, EnUnSoloLugar
<1> QED BY <1>1, <1>2 DEF enExec

LEMMA ExecConUno ==
  ASSUME NEW h \in Hilos, ~Duenio(h), Duenio(h)',
         \A g \in Hilos \ {h} : hilos'[g] = hilos[g]
  PROVE  enExec' = enExec \cup {hilos'[h].req}
<1>1. \A g \in Hilos \ {h} : Duenio(g)' = Duenio(g)
  BY DEF Duenio
<1> QED BY <1>1 DEF enExec

\* The slot that the dispatcher holds is not one of a running request.
LEMMA HayLugar ==
  ASSUME TypeOK, SlotsConservados, despachador = "saca"
  PROVE  Cardinality(enExec) < Multiprocesamiento
<1> DEFINE D == {g \in Hilos : Duenio(g)}
           f == [h \in D |-> hilos[h].req]
<1>1. D \subseteq Activos /\ D \subseteq Hilos /\ Activos \subseteq Hilos
  BY DEF Duenio, Activos
<1>2. /\ IsFiniteSet(D) /\ IsFiniteSet(Activos)
      /\ Cardinality(D) \in Nat /\ Cardinality(Activos) \in Nat
  BY <1>1, HilosSonFinitos
<1>3. Cardinality(D) <= Cardinality(Activos)
  BY <1>1, <1>2, FS_Subset
<1>4. f \in Surjection(D, enExec)
  BY DEF enExec, Surjection
<1>5. IsFiniteSet(enExec) /\ Cardinality(enExec) <= Cardinality(D)
  BY <1>2, <1>4, FS_Surjection
<1>6. Cardinality(enExec) \in Nat
  BY <1>5, FS_CardinalityType
<1>7. Multiprocesamiento = semMulti + Cardinality(Activos) + fallas + 1
  BY DEF SlotsConservados
<1>8. semMulti \in Nat /\ fallas \in Nat
  BY TiposDeSemaforos
<1> HIDE DEF D
<1> QED BY <1>2, <1>3, <1>5, <1>6, <1>7, <1>8

LEMMA InitImplementa == Init => Abstracto!Init
<1> SUFFICES ASSUME Init PROVE Abstracto!Init
  OBVIOUS
<1>1. \A h \in Hilos : ~Duenio(h)
  BY DEF Init, Libre, Duenio
<1>2. enExec = {}
  BY <1>1 DEF enExec
<1> QED BY <1>2 DEF Init, Abstracto!Init, enExec

\* The abstract actions, said of the abstract state as it is defined here.
LEMMA AceptarEsAbstracta ==
  ASSUME NEW r \in Requests, enExec' = enExec, avance' = avance,
         estado[r] = "afuera", estado' = [estado EXCEPT ![r] = "aceptada"]
  PROVE  [Abstracto!Next]_(Abstracto!vars)
<1>1. Abstracto!Aceptar(r)
  BY DEF Abstracto!Aceptar, enExec
<1> QED BY <1>1 DEF Abstracto!Next

LEMMA DescartarEsAbstracta ==
  ASSUME NEW r \in Requests, enExec' = enExec, avance' = avance, r \notin enExec,
         estado[r] = IF Tipo[r] = "directa" THEN "afuera" ELSE "aceptada",
         estado' = [estado EXCEPT ![r] = "descartada"]
  PROVE  [Abstracto!Next]_(Abstracto!vars)
<1>1. Abstracto!Descartar(r)
  BY DEF Abstracto!Descartar, enExec
<1> QED BY <1>1 DEF Abstracto!Next

LEMMA AtenderEsAbstracta ==
  ASSUME NEW r \in Requests, enExec' = enExec, avance' = avance,
         estado[r] = "aceptada", Tipo[r] = "directa",
         estado' = [estado EXCEPT ![r] = "terminada"]
  PROVE  [Abstracto!Next]_(Abstracto!vars)
<1>1. Abstracto!Atender(r)
  BY DEF Abstracto!Atender, enExec
<1> QED BY <1>1 DEF Abstracto!Next

LEMMA EmpezarEsAbstracta ==
  ASSUME NEW r \in Requests, enExec' = enExec \cup {r}, avance' = avance,
         estado' = estado, estado[r] = "aceptada", Tipo[r] # "directa",
         r \notin enExec, Cardinality(enExec) < Multiprocesamiento
  PROVE  [Abstracto!Next]_(Abstracto!vars)
<1>1. Abstracto!Cardinality(enExec) = Cardinality(enExec)
  BY Zenon DEF Cardinality, Abstracto!Cardinality
<1>2. Abstracto!Empezar(r)
  BY <1>1 DEF Abstracto!Empezar, enExec
<1> QED BY <1>2 DEF Abstracto!Next

LEMMA AvanzarEsAbstracta ==
  ASSUME NEW r \in Requests, r \in enExec, enExec' = enExec, estado' = estado,
         avance[r] < Len(Lineas[r]), avance' = [avance EXCEPT ![r] = @ + 1]
  PROVE  [Abstracto!Next]_(Abstracto!vars)
<1>1. Abstracto!Avanzar(r)
  BY DEF Abstracto!Avanzar, enExec
<1> QED BY <1>1 DEF Abstracto!Next

LEMMA DejarEsAbstracta ==
  ASSUME NEW r \in Requests, r \in enExec, enExec' = enExec \ {r}, avance' = avance,
         \/ avance[r] < Len(Lineas[r]) /\ estado' = estado
         \/ avance[r] < Len(Lineas[r]) /\ estado' = [estado EXCEPT ![r] = "cancelada"]
         \/ avance[r] = Len(Lineas[r]) /\ estado' = [estado EXCEPT ![r] = "terminada"]
  PROVE  [Abstracto!Next]_(Abstracto!vars)
<1>1. Abstracto!Pausar(r) \/ Abstracto!Cancelar(r) \/ Abstracto!Terminar(r)
  BY DEF Abstracto!Pausar, Abstracto!Cancelar, Abstracto!Terminar, enExec
<1> QED BY <1>1 DEF Abstracto!Next

LEMMA NadaEsAbstracta ==
  ASSUME enExec' = enExec, UNCHANGED <<estado, avance>>
  PROVE  [Abstracto!Next]_(Abstracto!vars)
BY DEF Abstracto!vars, enExec

\* The console and the validator accept and reject requests.
LEMMA PasoDeFueraImplementa ==
  ASSUME TypeOK, LugarInv, UNCHANGED hilos,
         \/ \E r \in Requests : \/ Encolar(r) \/ EjecutarSinPlanificar(r)
                                \/ FallarDirecta(r) \/ TerminarDirecta(r)
         \/ AvisarNew \/ AccionesDeValidador
  PROVE  [Abstracto!Next]_(Abstracto!vars)
<1>1. enExec' = enExec
  BY DEF enExec, Duenio
<1>2. ASSUME NEW r \in Requests, Encolar(r) \/ EjecutarSinPlanificar(r)
      PROVE  [Abstracto!Next]_(Abstracto!vars)
  <2>1. /\ estado[r] = "afuera" /\ estado' = [estado EXCEPT ![r] = "aceptada"]
        /\ avance' = avance
    BY <1>2 DEF Encolar, EjecutarSinPlanificar
  <2> QED BY <1>1, <2>1, AceptarEsAbstracta
<1>3. ASSUME NEW r \in Requests, FallarDirecta(r)
      PROVE  [Abstracto!Next]_(Abstracto!vars)
  <2>1. /\ estado[r] = "afuera" /\ estado' = [estado EXCEPT ![r] = "descartada"]
        /\ avance' = avance /\ Tipo[r] = "directa"
    BY <1>3 DEF FallarDirecta
  <2>2. r \notin enExec
    BY <2>1, ExecEnHilo DEF LugarInv
  <2> QED BY <1>1, <2>1, <2>2, DescartarEsAbstracta
<1>4. ASSUME NEW r \in Requests, TerminarDirecta(r)
      PROVE  [Abstracto!Next]_(Abstracto!vars)
  <2>1. /\ estado[r] = "aceptada" /\ estado' = [estado EXCEPT ![r] = "terminada"]
        /\ avance' = avance /\ Tipo[r] = "directa"
    BY <1>4 DEF TerminarDirecta, LugarInv
  <2> QED BY <1>1, <2>1, AtenderEsAbstracta
<1>5. CASE Rechazar
  <2> DEFINE r == validador.req
  <2>1. /\ r \in Requests /\ EnValidador(r) /\ avance' = avance
        /\ estado' = [estado EXCEPT ![r] = "descartada"]
    BY <1>5 DEF Rechazar, EnValidador, TypeOK
  <2>2. r \notin enExec /\ estado[r] = "aceptada" /\ Tipo[r] # "directa"
    BY <2>1, ExecEnHilo DEF LugarInv
  <2> HIDE DEF r
  <2> QED BY <1>1, <2>1, <2>2, DescartarEsAbstracta
<1>6. CASE AvisarNew \/ TomarDeNew \/ Reservar \/ AvisarReady
  <2>1. UNCHANGED <<estado, avance>>
    BY <1>6 DEF AvisarNew, TomarDeNew, Reservar, AvisarReady
  <2> QED BY <1>1, <2>1, NadaEsAbstracta
<1> QED BY <1>2, <1>3, <1>4, <1>5, <1>6 DEF AccionesDeValidador

\* The dispatcher starts requests, or loses them.
LEMMA PasoDelDespachadorImplementa ==
  ASSUME TypeOK, LugarInv, SlotsConservados, AccionesDeDespachador
  PROVE  [Abstracto!Next]_(Abstracto!vars)
<1> DEFINE r == Head(ready)
<1>1. ASSUME Sacar
      PROVE  /\ r \in Requests /\ r \notin enExec
             /\ estado[r] = "aceptada" /\ Tipo[r] # "directa"
  <2>1. r \in Requests /\ r \in Range(ready)
    BY <1>1, ColaSinPrimero DEF Sacar, TypeOK
  <2>2. EnCola(r)
    BY <2>1 DEF EnCola
  <2>3. ~EnHilo(r)
    BY <2>1 DEF EnHilo, LugarInv, EnUnSoloLugar
  <2> QED BY <2>1, <2>2, <2>3, ExecEnHilo DEF LugarInv
<1>2. ASSUME NEW h \in Hilos, Despachar(h) PROVE [Abstracto!Next]_(Abstracto!vars)
  <2>1. /\ Sacar /\ despachador = "saca" /\ UNCHANGED <<estado, avance>>
    BY <1>2 DEF Despachar
  <2>2. /\ ~Duenio(h) /\ Duenio(h)' /\ hilos'[h].req = r
        /\ \A g \in Hilos \ {h} : hilos'[g] = hilos[g]
    BY <1>2 DEF Despachar, PrimeroLibre, Libre, Duenio, TypeOK
  <2>3. enExec' = enExec \cup {r}
    BY <2>2, ExecConUno
  <2>4. Cardinality(enExec) < Multiprocesamiento
    BY <2>1, HayLugar
  <2> HIDE DEF r
  <2> QED BY <1>1, <2>1, <2>3, <2>4, EmpezarEsAbstracta
<1>3. CASE FallarHilo
  <2>1. /\ Sacar /\ UNCHANGED <<hilos, avance>>
        /\ estado' = [estado EXCEPT ![r] = "descartada"]
    BY <1>3 DEF FallarHilo
  <2>2. enExec' = enExec
    BY <2>1 DEF enExec, Duenio
  <2> HIDE DEF r
  <2> QED BY <1>1, <2>1, <2>2, DescartarEsAbstracta
<1>4. CASE EsperarReady \/ EsperarMulti
  <2>1. UNCHANGED <<hilos, estado, avance>>
    BY <1>4 DEF EsperarReady, EsperarMulti
  <2>2. enExec' = enExec
    BY <2>1 DEF enExec, Duenio
  <2> QED BY <2>1, <2>2, NadaEsAbstracta
<1> QED BY <1>2, <1>3, <1>4 DEF AccionesDeDespachador

\* The threads advance, pause, finish and cancel what they run.
LEMMA PasoDeHiloImplementa ==
  ASSUME TypeOK, LugarInv, NEW h \in Hilos, AccionesDeHilo(h)
  PROVE  [Abstracto!Next]_(Abstracto!vars)
<1> DEFINE r == hilos[h].req
<1>0. hilos \in [Hilos -> EstadosDeHilo]
  BY DEF TypeOK, EstadosDeHilo
<1>1. ASSUME Duenio(h)
      PROVE  /\ r \in Requests /\ r \in enExec
             /\ avance[r] \in Nat /\ avance[r] <= Len(Lineas[r])
             /\ Len(Lineas[r]) \in Nat
  BY <1>1, LineasAssumption DEF LugarInv, enExec, TypeOK
<1>2. CASE TomarQuantum(h) \/ EnviarLinea(h) \/ VolverAReady(h) \/ Liberar(h)
  <2>1. UNCHANGED <<estado, avance>>
    BY <1>2 DEF TomarQuantum, EnviarLinea, VolverAReady, Liberar
  <2>2. \A g \in Hilos \ {h} : hilos'[g] = hilos[g]
    BY <1>0, <1>2 DEF TomarQuantum, EnviarLinea, VolverAReady, Liberar
  <2>3. Duenio(h)' = Duenio(h) /\ (Duenio(h) => hilos'[h].req = r)
    BY <1>0, <1>2 DEF TomarQuantum, EnviarLinea, VolverAReady, Liberar, Libre, Duenio,
                      EstadosDeHilo
  <2>4. enExec' = enExec
    BY <2>2, <2>3, ExecIgual DEF Duenio
  <2> QED BY <2>1, <2>4, NadaEsAbstracta
<1>3. CASE LineaExitosa(h)
  <2>1. /\ Duenio(h) /\ Duenio(h)' /\ hilos'[h].req = r
        /\ \A g \in Hilos \ {h} : hilos'[g] = hilos[g]
    BY <1>0, <1>3 DEF LineaExitosa, Duenio, EstadosDeHilo
  <2>2. enExec' = enExec
    BY <2>1, ExecIgual DEF Duenio
  <2>3. estado' = estado /\ avance' = [avance EXCEPT ![r] = @ + 1]
    BY <1>3 DEF LineaExitosa
  <2>4. avance[r] # Len(Lineas[r])
    BY <1>3 DEF LineaExitosa, LugarInv, ColaVacia
  <2>5. avance[r] < Len(Lineas[r])
    BY <1>1, <2>1, <2>4
  <2> HIDE DEF r
  <2> QED BY <1>1, <2>1, <2>2, <2>3, <2>5, AvanzarEsAbstracta
\* The rest leave the request.
<1>4. ASSUME Ejecutar(h) \/ LineaFallida(h) \/ FinDeQuantum(h) \/ FinDeScript(h)
      PROVE  Duenio(h) /\ enExec' = enExec \ {r} /\ avance' = avance
  <2>1. Duenio(h) /\ ~Duenio(h)' /\ \A g \in Hilos \ {h} : hilos'[g] = hilos[g]
    BY <1>0, <1>4 DEF Ejecutar, LineaFallida, FinDeQuantum, FinDeScript, Duenio,
                      EstadosDeHilo
  <2>2. enExec' = enExec \ {r}
    BY <2>1, ExecSinUno
  <2>3. avance' = avance
    BY <1>4 DEF Ejecutar, LineaFallida, FinDeQuantum, FinDeScript
  <2> QED BY <2>1, <2>2, <2>3
<1>5. CASE Ejecutar(h) \/ FinDeScript(h)
  <2>1. avance[r] = Len(Lineas[r])
    <3>1. CASE Ejecutar(h)
      <4>1. Tipo[r] # "run"
        BY <3>1 DEF Ejecutar, LugarInv
      <4>2. Lineas[r] = <<>>
        BY <1>1, <1>4, <3>1, <4>1, LineasAssumption
      <4> QED BY <1>1, <1>4, <3>1, <4>2
    <3>2. CASE FinDeScript(h)
      BY <3>2 DEF FinDeScript, ColaVacia
    <3> QED BY <1>5, <3>1, <3>2
  <2>2. estado' = [estado EXCEPT ![r] = "terminada"]
    BY <1>5 DEF Ejecutar, FinDeScript
  <2> HIDE DEF r
  <2> QED BY <1>1, <1>4, <1>5, <2>1, <2>2, DejarEsAbstracta
<1>6. CASE LineaFallida(h)
  <2>1. avance[r] # Len(Lineas[r]) /\ estado' = [estado EXCEPT ![r] = "cancelada"]
    BY <1>6 DEF LineaFallida, LugarInv, ColaVacia
  <2>2. avance[r] < Len(Lineas[r])
    BY <1>1, <1>4, <1>6, <2>1
  <2> HIDE DEF r
  <2> QED BY <1>1, <1>4, <1>6, <2>1, <2>2, DejarEsAbstracta
<1>7. CASE FinDeQuantum(h)
  <2>1. avance[r] # Len(Lineas[r]) /\ estado' = estado
    BY <1>7 DEF FinDeQuantum, ColaVacia
  <2>2. avance[r] < Len(Lineas[r])
    BY <1>1, <1>4, <1>7, <2>1
  <2> HIDE DEF r
  <2> QED BY <1>1, <1>4, <1>7, <2>1, <2>2, DejarEsAbstracta
<1> QED BY <1>2, <1>3, <1>5, <1>6, <1>7 DEF AccionesDeHilo

\* The threads, queues and semaphores of the kernel run requests as the
\* abstract scheduler does: at most MULTIPROCESAMIENTO at once, each by one
\* thread, its lines in order and up to the first that fails.
THEOREM PlanificadorImplementaAbstracto == Spec => ImplementaPlanificador
<1> DEFINE Inv == TypeOK /\ LugarInv /\ SemaforosInv /\ SlotsConservados
<1>1. Init => Inv
  BY InitTypeOK, InitLugarInv, InitSemaforos
<1>2. Inv /\ [Next]_vars => Inv'
  BY TypeOKNext, LugarInvNext, SemaforosNext
<1>3. Inv /\ [Next]_vars => [Abstracto!Next]_(Abstracto!vars)
  <2> SUFFICES ASSUME Inv, [Next]_vars PROVE [Abstracto!Next]_(Abstracto!vars)
    OBVIOUS
  <2>1. CASE \/ \E r \in Requests : \/ Encolar(r) \/ EjecutarSinPlanificar(r)
                                    \/ FallarDirecta(r) \/ TerminarDirecta(r)
             \/ AvisarNew \/ AccionesDeValidador
    <3>1. UNCHANGED hilos
      BY <2>1 DEF Encolar, EjecutarSinPlanificar, FallarDirecta, TerminarDirecta,
                  AvisarNew, AccionesDeValidador, TomarDeNew, Rechazar, Reservar,
                  AvisarReady
    <3> QED BY <2>1, <3>1, PasoDeFueraImplementa
  <2>2. CASE AccionesDeDespachador
    BY <2>2, PasoDelDespachadorImplementa
  <2>3. CASE \E h \in Hilos : AccionesDeHilo(h)
    BY <2>3, PasoDeHiloImplementa
  <2>4. CASE UNCHANGED vars \/ \E q \in Quantums : CambiarQuantum(q)
    <3>1. UNCHANGED <<hilos, estado, avance>>
      BY <2>4 DEF vars, CambiarQuantum
    <3>2. enExec' = enExec
      BY <3>1 DEF enExec, Duenio
    <3> QED BY <3>1, <3>2, NadaEsAbstracta
  <2> QED BY <2>1, <2>2, <2>3, <2>4 DEF Next
<1> HIDE DEF Inv
<1> QED BY <1>1, <1>2, <1>3, InitImplementa, PTL DEF Spec, ImplementaPlanificador, Abstracto!Spec
==============================================================================

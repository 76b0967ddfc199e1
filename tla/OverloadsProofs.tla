--------------------------- MODULE OverloadsProofs ---------------------------
(***************************************************************************)
(* Proofs about the types of DDP and the slice of overloads.  The          *)
(* functions of src/ddptypes recur over the constructors of a type; what   *)
(* they compute for every type is proved by the least counterexample       *)
(* (LeastNumber), and that their recursive definitions have a solution by  *)
(* RecursiveFunction.  The binary search of the slice recurs over its      *)
(* window in the same way.                                                 *)
(***************************************************************************)
EXTENDS Overloads, WellFoundedInduction, TLAPS

\* Smaller natural numbers.
LessThan == {p \in Nat \X Nat : p[1] < p[2]}

\* Every nonempty set of numbers has a least one: the induction principle the proofs about
\* the recursive definitions of ddptypes use, as a minimal counterexample.
LEMMA LeastNumber ==
  ASSUME NEW T, T \subseteq Nat, T # {}
  PROVE  \E n \in T : \A m \in T : n <= m
<1>1. IsWellFoundedOn(LessThan, Nat)
  BY NatLessThanWellFounded, Zenon DEF OpToRel, LessThan
<1>2. PICK x \in T : \A y \in T : ~ (<<y, x>> \in LessThan)
  BY <1>1, WFMin, Zenon
<1>3. \A y \in T : ~ (y < x)
  BY Zenon, <1>2 DEF LessThan
<1> QED
  BY <1>3

\* A set that contains whatever it contains all smaller elements of contains everything.
LEMMA MeasureInduction ==
  ASSUME NEW S, NEW m \in [S -> Nat], NEW P,
         \A t \in S : (\A s \in S : m[s] < m[t] => s \in P) => t \in P
  PROVE  S \subseteq P
<1> SUFFICES ASSUME NEW t0 \in S, t0 \notin P PROVE FALSE
  BY Zenon
<1> DEFINE T == {m[t] : t \in S \ P}
<1>1. T \subseteq Nat /\ T # {}
  OBVIOUS
<1>2. PICK n \in T : \A k \in T : n <= k
  <2> HIDE DEF T
  <2> QED BY Zenon, <1>1, LeastNumber
<1>3. PICK t \in S \ P : n = m[t]
  BY Zenon, <1>2
<1>4. ASSUME NEW s \in S, m[s] < m[t], s \notin P
      PROVE  FALSE
  <2>1. m[s] \in T
    BY Zenon, <1>4
  <2>2. n <= m[s] /\ n = m[t] /\ m[s] \in Nat /\ m[t] \in Nat
    BY Zenon, <1>2, <1>3, <2>1
  <2> QED
    BY <1>4, <2>2
<1> QED
  BY Zenon, <1>3, <1>4

\* f[t] is given by B, or by G from the value of f for N[t], an argument of smaller measure.
IsRecursion(S, V, C, N, m, G, B) ==
  /\ m \in [S -> Nat] /\ G \in [S \X V -> V] /\ B \in [S -> V]
  /\ \A t \in S : t \in C => N[t] \in S /\ m[N[t]] < m[t]

Solves(f, S, C, N, G, B) ==
  \A t \in S : f[t] = IF t \in C THEN G[<<t, f[N[t]]>>] ELSE B[t]

\* A function may be defined by recursion on arguments of smaller measure.
LEMMA RecursiveFunction ==
  ASSUME NEW S, NEW V, NEW C, NEW N, NEW m, NEW G, NEW B,
         IsRecursion(S, V, C, N, m, G, B)
  PROVE  \E f \in [S -> V] : Solves(f, S, C, N, G, B)
<1> USE DEF IsRecursion
<1> DEFINE Below(n) == {t \in S : m[t] < n}
           Def(f, t) == f[t] = IF t \in C THEN G[<<t, f[N[t]]>>] ELSE B[t]
           Sol(n) == {f \in [Below(n) -> V] : \A t \in Below(n) : Def(f, t)}
<1>1. ASSUME NEW n \in Nat, NEW k \in Nat, NEW f \in Sol(n), NEW g \in Sol(k)
      PROVE  \A t \in S : m[t] < n /\ m[t] < k => f[t] = g[t]
  <2> DEFINE P == {t \in S : m[t] < n /\ m[t] < k => f[t] = g[t]}
  <2>1. ASSUME NEW t \in S, \A s \in S : m[s] < m[t] => s \in P,
               m[t] < n, m[t] < k
        PROVE  f[t] = g[t]
    <3>1. t \in Below(n) /\ t \in Below(k)
      BY Zenon, <2>1
    <3>2. Def(f, t) /\ Def(g, t)
      BY Zenon, <3>1, <1>1
    <3>3. CASE t \in C
      <4>1. N[t] \in S /\ m[N[t]] < m[t] /\ m[t] \in Nat
        BY Zenon, <3>3
      <4>2. m[N[t]] \in Nat
        BY Zenon, <4>1
      <4>3. f[N[t]] = g[N[t]]
        BY <2>1, <4>1, <4>2
      <4> QED
        BY Zenon, <3>2, <3>3, <4>3
    <3> QED
      BY Zenon, <3>2, <3>3
  <2>2. \A t \in S : (\A s \in S : m[s] < m[t] => s \in P) => t \in P
    BY Zenon, <2>1
  <2>3. S \subseteq P
    <3> HIDE DEF P
    <3> QED BY <2>2, MeasureInduction
  <2> QED
    BY Zenon, <2>3
<1>2. ASSUME NEW n \in Nat, NEW f \in Sol(n)
      PROVE  Sol(n + 1) # {}
  <2> DEFINE g == [t \in Below(n + 1) |-> IF t \in C THEN G[<<t, f[N[t]]>>] ELSE B[t]]
  <2>1. \A t \in Below(n + 1) : t \in C => N[t] \in Below(n)
    OBVIOUS
  <2>2. g \in [Below(n + 1) -> V]
    BY Zenon, <1>2, <2>1
  <2>3. \A t \in Below(n) : t \in Below(n + 1) /\ g[t] = f[t]
    BY <1>2
  <2>4. \A t \in Below(n + 1) : Def(g, t)
    <3> SUFFICES ASSUME NEW t \in Below(n + 1) PROVE Def(g, t)
      BY Zenon
    <3>1. CASE t \in C
      <4>1. g[N[t]] = f[N[t]]
        BY Zenon, <2>1, <2>3, <3>1
      <4>2. g[t] = G[<<t, f[N[t]]>>]
        BY Zenon, <3>1
      <4> HIDE DEF g
      <4> QED BY Zenon, <3>1, <4>1, <4>2
    <3> QED
      BY Zenon, <3>1
  <2> HIDE DEF g
  <2>5. g \in Sol(n + 1)
    BY Zenon, <2>2, <2>4
  <2> QED
    BY Zenon, <2>5
<1>3. \A n \in Nat : Sol(n) # {}
  <2> DEFINE P == {n \in Nat : Sol(n) # {}}
             id == [n \in Nat |-> n]
  <2>1. ASSUME NEW n \in Nat, \A s \in Nat : s < n => s \in P
        PROVE  n \in P
    <3>1. CASE n = 0
      <4>1. Below(0) = {}
        OBVIOUS
      <4>2. [t \in Below(0) |-> B[t]] \in Sol(0)
        BY Zenon, <4>1
      <4> QED
        BY Zenon, <3>1, <4>2
    <3>2. CASE n # 0
      <4>1. n - 1 \in Nat /\ n - 1 < n /\ (n - 1) + 1 = n
        BY <3>2
      <4>2. n - 1 \in P
        BY Zenon, <4>1, <2>1
      <4>3. PICK f \in Sol(n - 1) : TRUE
        BY Zenon, <4>2
      <4> HIDE DEF Sol
      <4> QED
        BY Zenon, <4>1, <4>3, <1>2
    <3> QED
      BY Zenon, <3>1, <3>2
  <2>2. \A n \in Nat : (\A s \in Nat : id[s] < id[n] => s \in P) => n \in P
    <3> HIDE DEF P
    <3> QED BY Zenon, <2>1
  <2>3. Nat \subseteq P
    <3>1. id \in [Nat -> Nat]
      BY Zenon
    <3> HIDE DEF P, id
    <3> QED BY Zenon, <2>2, <3>1, MeasureInduction
  <2> QED
    BY Zenon, <2>3
<1> DEFINE F(n) == CHOOSE f \in Sol(n) : TRUE
           h == [t \in S |-> F(m[t] + 1)[t]]
<1>4. \A n \in Nat : F(n) \in Sol(n)
  <2> HIDE DEF Sol
  <2> QED BY Zenon, <1>3
<1>5. ASSUME NEW t \in S, NEW n \in Nat, m[t] < n
      PROVE  h[t] = F(n)[t]
  <2>1. m[t] + 1 \in Nat /\ m[t] < m[t] + 1
    OBVIOUS
  <2>2. F(n) \in Sol(n) /\ F(m[t] + 1) \in Sol(m[t] + 1)
    BY Zenon, <1>4, <2>1
  <2> HIDE DEF Sol, F
  <2>3. F(n)[t] = F(m[t] + 1)[t]
    BY <1>1, <1>5, <2>1, <2>2
  <2> QED
    BY Zenon, <2>3
<1>6. h \in [S -> V]
  <2> SUFFICES ASSUME NEW t \in S PROVE F(m[t] + 1)[t] \in V
    BY Zenon
  <2>1. m[t] + 1 \in Nat /\ m[t] < m[t] + 1
    OBVIOUS
  <2>2. F(m[t] + 1) \in [Below(m[t] + 1) -> V]
    <3> HIDE DEF F
    <3> QED BY Zenon, <1>4, <2>1
  <2> HIDE DEF F
  <2> QED
    BY Zenon, <2>1, <2>2
<1>7. ASSUME NEW t \in S
      PROVE  h[t] = IF t \in C THEN G[<<t, h[N[t]]>>] ELSE B[t]
  <2>1. m[t] + 1 \in Nat /\ m[t] < m[t] + 1
    OBVIOUS
  <2>2. h[t] = F(m[t] + 1)[t]
    BY Zenon, <1>7
  <2>3. Def(F(m[t] + 1), t)
    <3> HIDE DEF F
    <3> QED BY Zenon, <1>4, <2>1
  <2>4. CASE t \in C
    <3>1. N[t] \in S /\ m[N[t]] < m[t] + 1
      BY <2>4
    <3>2. h[N[t]] = F(m[t] + 1)[N[t]]
      <4> HIDE DEF h, F
      <4> QED BY Zenon, <1>5, <2>1, <3>1
    <3> HIDE DEF h, F
    <3> QED BY Zenon, <2>2, <2>3, <2>4, <3>2
  <2> HIDE DEF h, F
  <2> QED
    BY Zenon, <2>2, <2>3, <2>4
<1> HIDE DEF h
<1> QED
  BY Zenon, <1>6, <1>7 DEF Solves
-----------------------------------------------------------------------------
(***************************************************************************)
(* The recursive definitions of DDPTypes satisfy their equations.          *)
(***************************************************************************)
\* Sequences of constructors: what taking one off and putting a list around does.
LEMMA TypeSequences ==
  /\ \A t \in DDPType : t # << >> => /\ Head(t) \in Constructors /\ Tail(t) \in DDPType
                                         /\ Len(Tail(t)) < Len(t)
  /\ \A t \in DDPType : /\ ListOf(t) \in DDPType /\ ListOf(t) # << >>
                             /\ Head(ListOf(t)) = "Liste" /\ Tail(ListOf(t)) = t
                             /\ Len(ListOf(t)) = Len(t) + 1
  /\ \A t \in DDPType : t # << >> /\ Head(t) = "Liste" => t = ListOf(Tail(t))
<1>1. ASSUME NEW t \in DDPType, t # << >>
      PROVE  Head(t) \in Constructors /\ Tail(t) \in DDPType /\ Len(Tail(t)) < Len(t)
  BY <1>1 DEF DDPType
<1>2. ASSUME NEW t \in DDPType
      PROVE  /\ ListOf(t) \in DDPType /\ ListOf(t) # << >>
             /\ Head(ListOf(t)) = "Liste" /\ Tail(ListOf(t)) = t
             /\ Len(ListOf(t)) = Len(t) + 1
  <2>1. "Liste" \in Constructors
    BY Zenon DEF Constructors
  <2>2. /\ ListOf(t) \in DDPType /\ Len(ListOf(t)) = Len(t) + 1
        /\ ListOf(t)[1] = "Liste" /\ \A i \in 1..Len(t) : ListOf(t)[i + 1] = t[i]
    BY <2>1 DEF ListOf, DDPType
  <2>3. /\ ListOf(t) # << >> /\ Head(ListOf(t)) = "Liste"
        /\ Tail(ListOf(t)) \in DDPType /\ Len(Tail(ListOf(t))) = Len(t)
        /\ \A i \in 1..Len(t) : Tail(ListOf(t))[i] = t[i]
    BY <2>2 DEF DDPType
  <2>4. Tail(ListOf(t)) = t
    BY <2>3 DEF DDPType
  <2> QED
    BY Zenon, <2>2, <2>3, <2>4
<1>3. ASSUME NEW t \in DDPType, t # << >>, Head(t) = "Liste"
      PROVE  t = ListOf(Tail(t))
  BY <1>3 DEF ListOf, DDPType
<1> QED
  BY Zenon, <1>1, <1>2, <1>3

Lengths == [t \in DDPType |-> Len(t)]

\* Every type has a length, the measure of the recursions in ddptypes.
LEMMA LengthsType == Lengths \in [DDPType -> Nat]
  BY DEF Lengths, DDPType

\* GetUnderlying is the recursion over the constructors that type.go writes.
LEMMA UnderlyingDef ==
  /\ Underlying \in [DDPType -> DDPType]
  /\ \A t \in DDPType :
       Underlying[t] = IF t = << >> \/ Head(t) \notin {"Alias", "Liste"} THEN t
                       ELSE IF Head(t) = "Alias" THEN Underlying[Tail(t)]
                       ELSE ListOf(Underlying[Tail(t)])
<1> DEFINE S == DDPType
           C == {t \in S : t # << >> /\ Head(t) \in {"Alias", "Liste"}}
           N == [t \in S |-> Tail(t)]
           B == [t \in S |-> t]
           G == [p \in S \X S |-> IF Head(p[1]) = "Alias" THEN p[2] ELSE ListOf(p[2])]
           Body(f, t) == IF t = << >> \/ Head(t) \notin {"Alias", "Liste"} THEN t
                         ELSE IF Head(t) = "Alias" THEN f[Tail(t)] ELSE ListOf(f[Tail(t)])
<1>1. \A t \in S : t \in C => N[t] \in S /\ Lengths[N[t]] < Lengths[t]
  BY Zenon, TypeSequences DEF Lengths
<1>2. G \in [S \X S -> S] /\ B \in [S -> S]
  BY Zenon, TypeSequences
<1>3. PICK f \in [S -> S] : \A t \in S : f[t] = IF t \in C THEN G[<<t, f[N[t]]>>] ELSE B[t]
  <2>1. IsRecursion(S, S, C, N, Lengths, G, B)
    BY Zenon, <1>1, <1>2, LengthsType DEF IsRecursion
  <2>2. \E f \in [S -> S] : Solves(f, S, C, N, G, B)
    <3> HIDE DEF S, C, N, B, G
    <3> QED BY Zenon, <2>1, RecursiveFunction
  <2> QED
    BY Zenon, <2>2 DEF Solves
<1>4. \A t \in S : f[t] = Body(f, t)
  <2> SUFFICES ASSUME NEW t \in S PROVE f[t] = Body(f, t)
    BY Zenon
  <2>1. f[t] = IF t \in C THEN G[<<t, f[N[t]]>>] ELSE B[t]
    BY Zenon, <1>3
  <2>2. CASE t \in C
    <3>1. N[t] = Tail(t) /\ Tail(t) \in S /\ f[Tail(t)] \in S
      BY Zenon, <2>2, TypeSequences
    <3>2. G[<<t, f[Tail(t)]>>] = IF Head(t) = "Alias" THEN f[Tail(t)] ELSE ListOf(f[Tail(t)])
      BY Zenon, <3>1
    <3> QED
      BY Zenon, <2>1, <2>2, <3>1, <3>2
  <2>3. CASE t \notin C
    BY Zenon, <2>1, <2>3
  <2> QED
    BY Zenon, <2>2, <2>3
<1>5. f = [t \in S |-> Body(f, t)]
  BY Zenon, <1>4
<1>6. Underlying = [t \in S |-> Body(Underlying, t)]
  <2> HIDE DEF Body
  <2> DEFINE U == CHOOSE u : u = [t \in S |-> Body(u, t)]
  <2>1. U = [t \in S |-> Body(U, t)]
    BY Zenon, <1>5
  <2>2. Underlying = U
    BY Zenon DEF Underlying, Body
  <2> QED
    BY Zenon, <2>1, <2>2
<1>7. \A t \in S : Underlying[t] = Body(Underlying, t)
  <2> HIDE DEF Body
  <2> QED BY Zenon, <1>6
<1>8. DOMAIN Underlying = S
  <2> HIDE DEF Body
  <2> QED BY Zenon, <1>6
<1>9. \A t \in S : Underlying[t] \in S
  <2> DEFINE P == {t \in S : Underlying[t] \in S}
  <2>1. ASSUME NEW t \in S, \A s \in S : Lengths[s] < Lengths[t] => s \in P
        PROVE  t \in P
    <3>1. CASE t = << >> \/ Head(t) \notin {"Alias", "Liste"}
      BY Zenon, <1>7, <3>1
    <3>2. CASE t # << >> /\ Head(t) \in {"Alias", "Liste"}
      <4>1. Tail(t) \in S /\ Underlying[Tail(t)] \in S
        BY Zenon, <2>1, <3>2, TypeSequences DEF Lengths
      <4>2. Underlying[t] \in {Underlying[Tail(t)], ListOf(Underlying[Tail(t)])}
        BY Zenon, <1>7, <3>2
      <4> QED
        BY Zenon, <4>1, <4>2, TypeSequences
    <3> QED
      BY Zenon, <3>1, <3>2
  <2>2. S \subseteq P
    <3>1. Lengths \in [S -> Nat]
      BY Zenon, LengthsType
    <3> HIDE DEF S, P
    <3> QED BY Zenon, <2>1, <3>1, MeasureInduction
  <2> QED
    BY Zenon, <2>2
<1>10. Underlying = [t \in S |-> Underlying[t]]
  <2> HIDE DEF Body
  <2> QED BY Zenon, <1>6
<1>11. Underlying \in [S -> S]
  BY Zenon, <1>9, <1>10
<1> QED
  BY Zenon, <1>7, <1>11

\* One step of GetUnderlying, by the outermost constructor.
LEMMA UnderlyingSteps ==
  ASSUME NEW t \in DDPType, t # << >>
  PROVE  /\ Head(t) = "Alias" => Underlying[t] = Underlying[Tail(t)]
         /\ Head(t) = "Liste" => Underlying[t] = ListOf(Underlying[Tail(t)])
         /\ Head(t) \notin {"Alias", "Liste"} => Underlying[t] = t
  BY Zenon, UnderlyingDef

\* What GetUnderlying returns has no alias left before a type definition, is not longer, and
\* GetUnderlying leaves it alone.
LEMMA UnderlyingFacts ==
  ASSUME NEW t \in DDPType
  PROVE  /\ Underlying[t] \in DDPType
         /\ Len(Underlying[t]) <= Len(t)
         /\ Underlying[Underlying[t]] = Underlying[t]
         /\ Underlying[t] # << >> => Head(Underlying[t]) # "Alias"
<1> DEFINE Q(s) == /\ Len(Underlying[s]) <= Len(s)
                   /\ Underlying[Underlying[s]] = Underlying[s]
                   /\ Underlying[s] # << >> => Head(Underlying[s]) # "Alias"
           P == {s \in DDPType : Q(s)}
<1>1. ASSUME NEW s \in DDPType, \A r \in DDPType : Lengths[r] < Lengths[s] => r \in P
      PROVE  Q(s)
  <2>1. CASE s = << >>
    BY <2>1, UnderlyingDef
  <2>2. CASE s # << >>
    <3>1. /\ Tail(s) \in DDPType /\ Q(Tail(s)) /\ Len(Tail(s)) < Len(s)
          /\ Len(s) \in Nat /\ Len(Tail(s)) \in Nat
      BY Zenon, <1>1, <2>2, TypeSequences, LengthsType DEF Lengths
    <3>2. Underlying[Tail(s)] \in DDPType /\ Len(Underlying[Tail(s)]) \in Nat
      <4>1. Underlying[Tail(s)] \in DDPType
        BY Zenon, <3>1, UnderlyingDef
      <4> QED
        BY <4>1 DEF DDPType
    <3>3. CASE Head(s) = "Alias"
      BY <2>2, <3>1, <3>2, <3>3, UnderlyingSteps
    <3>4. CASE Head(s) = "Liste"
      <4> DEFINE v == Underlying[Tail(s)]
      <4>1. Underlying[s] = ListOf(v)
        BY Zenon, <2>2, <3>4, UnderlyingSteps
      <4>2. /\ ListOf(v) \in DDPType /\ ListOf(v) # << >> /\ Head(ListOf(v)) = "Liste"
            /\ Tail(ListOf(v)) = v /\ Len(ListOf(v)) = Len(v) + 1
        BY Zenon, <3>2, TypeSequences
      <4>3. Underlying[ListOf(v)] = ListOf(Underlying[v])
        <5> HIDE DEF v
        <5> QED BY Zenon, <4>2, UnderlyingSteps
      <4>4. Len(v) <= Len(Tail(s)) /\ Len(v) \in Nat /\ Underlying[v] = v
        BY Zenon, <3>1, <3>2
      <4> HIDE DEF v
      <4> QED
        BY <3>1, <4>1, <4>2, <4>3, <4>4
    <3>5. CASE Head(s) \notin {"Alias", "Liste"}
      BY <2>2, <3>1, <3>5, UnderlyingSteps
    <3> QED
      BY Zenon, <3>3, <3>4, <3>5
  <2> QED
    BY Zenon, <2>1, <2>2
<1>2. DDPType \subseteq P
  <2> HIDE DEF Q
  <2>1. \A s \in DDPType : (\A r \in DDPType : Lengths[r] < Lengths[s] => r \in P) => s \in P
    BY Zenon, <1>1
  <2> HIDE DEF P
  <2> QED
    BY <2>1, LengthsType, MeasureInduction
<1> QED
  BY Zenon, <1>2, UnderlyingDef

\* A list constructor in front of a type is not touched.
LEMMA UnderlyingOfList ==
  ASSUME NEW t \in DDPType
  PROVE  Underlying[ListOf(t)] = ListOf(Underlying[t])
  BY Zenon, TypeSequences, UnderlyingSteps

\* The element type of a list without aliases is one without aliases.
LEMMA UnderlyingOfElement ==
  ASSUME NEW t \in DDPType, Underlying[t] # << >>, Head(Underlying[t]) = "Liste"
  PROVE  /\ Tail(Underlying[t]) \in DDPType
         /\ Underlying[t] = ListOf(Tail(Underlying[t]))
         /\ Underlying[Tail(Underlying[t])] = Tail(Underlying[t])
<1> DEFINE u == Underlying[t]
           e == Tail(u)
<1>1. u \in DDPType /\ Underlying[u] = u
  BY Zenon, UnderlyingFacts
<1>2. e \in DDPType /\ u = ListOf(e)
  BY Zenon, <1>1, TypeSequences
<1>3. Underlying[ListOf(e)] = ListOf(Underlying[e]) /\ Underlying[e] \in DDPType
  <2> HIDE DEF e
  <2> QED BY Zenon, <1>2, UnderlyingOfList, UnderlyingFacts
<1>4. ListOf(Underlying[e]) = ListOf(e)
  <2> HIDE DEF e, u
  <2> QED BY Zenon, <1>1, <1>2, <1>3
<1>5. Underlying[e] = e
  <2> HIDE DEF e, u
  <2> QED BY Zenon, <1>2, <1>3, <1>4, TypeSequences
<1> QED
  BY Zenon, <1>2, <1>5

\* A type definition is taken off together with the aliases before it.
LEMMA DefinitionShrinks ==
  ASSUME NEW t \in DDPType, IsTypeDef(t) \/ IsList(t)
  PROVE  /\ Underlying[t] # << >> /\ Tail(Underlying[t]) \in DDPType
         /\ Lengths[Tail(Underlying[t])] < Lengths[t]
<1>1. Underlying[t] # << >>
  BY Zenon, NamesAssumption DEF IsTypeDef, IsList, Outermost, GetUnderlying
<1>2. Underlying[t] \in DDPType /\ Len(Underlying[t]) <= Len(t)
  BY Zenon, UnderlyingFacts
<1>3. Tail(Underlying[t]) \in DDPType /\ Len(Tail(Underlying[t])) < Len(Underlying[t])
  BY Zenon, <1>1, <1>2, TypeSequences
<1>4. /\ Len(t) \in Nat /\ Len(Underlying[t]) \in Nat
      /\ Len(Tail(Underlying[t])) \in Nat
  BY <1>2, <1>3 DEF DDPType
<1> QED
  BY <1>1, <1>2, <1>3, <1>4 DEF Lengths

\* TrueUnderlying is the recursion of typedefs.go.
LEMMA TrueUnderlyingDef ==
  \A t \in DDPType :
    TrueUnderlying[t] = IF IsTypeDef(t) THEN TrueUnderlying[Tail(Underlying[t])] ELSE Underlying[t]
<1> DEFINE S == DDPType
           C == {t \in S : IsTypeDef(t)}
           N == [t \in S |-> Tail(Underlying[t])]
           B == [t \in S |-> Underlying[t]]
           G == [p \in S \X S |-> p[2]]
           Body(f, t) == IF IsTypeDef(t) THEN f[DefinedAs(t)] ELSE GetUnderlying(t)
<1>1. \A t \in S : t \in C => N[t] \in S /\ Lengths[N[t]] < Lengths[t]
  BY Zenon, DefinitionShrinks
<1>2. G \in [S \X S -> S] /\ B \in [S -> S]
  BY Zenon, UnderlyingDef
<1>3. PICK f \in [S -> S] : \A t \in S : f[t] = IF t \in C THEN G[<<t, f[N[t]]>>] ELSE B[t]
  <2>1. IsRecursion(S, S, C, N, Lengths, G, B)
    BY Zenon, <1>1, <1>2, LengthsType DEF IsRecursion
  <2>2. \E f \in [S -> S] : Solves(f, S, C, N, G, B)
    <3> HIDE DEF S, C, N, B, G
    <3> QED BY Zenon, <2>1, RecursiveFunction
  <2> QED
    BY Zenon, <2>2 DEF Solves
<1>4. \A t \in S : f[t] = Body(f, t)
  <2> SUFFICES ASSUME NEW t \in S PROVE f[t] = Body(f, t)
    BY Zenon
  <2>1. f[t] = IF t \in C THEN G[<<t, f[N[t]]>>] ELSE B[t]
    BY Zenon, <1>3
  <2>2. CASE t \in C
    <3>1. N[t] = Tail(Underlying[t]) /\ N[t] \in S /\ f[N[t]] \in S
      BY Zenon, <1>1, <2>2
    <3> QED
      BY Zenon, <2>1, <2>2, <3>1 DEF DefinedAs, GetUnderlying
  <2>3. CASE t \notin C
    BY Zenon, <2>1, <2>3 DEF GetUnderlying
  <2> QED
    BY Zenon, <2>2, <2>3
<1>5. f = [t \in S |-> Body(f, t)]
  BY Zenon, <1>4
<1>6. TrueUnderlying = [t \in S |-> Body(TrueUnderlying, t)]
  <2> HIDE DEF Body
  <2> DEFINE U == CHOOSE u : u = [t \in S |-> Body(u, t)]
  <2>1. U = [t \in S |-> Body(U, t)]
    BY Zenon, <1>5
  <2>2. TrueUnderlying = U
    BY Zenon DEF TrueUnderlying, Body
  <2> QED
    BY Zenon, <2>1, <2>2
<1>7. \A t \in S : TrueUnderlying[t] = Body(TrueUnderlying, t)
  <2> HIDE DEF Body
  <2> QED BY Zenon, <1>6
<1> QED
  BY Zenon, <1>7 DEF DefinedAs, GetUnderlying

\* GetNestedListElementType takes off all list constructors, as list_type.go does.
LEMMA NestedElementDef ==
  \A t \in DDPType :
    GetNestedListElementType[t] = IF IsList(t) THEN GetNestedListElementType[Tail(Underlying[t])] ELSE t
<1> DEFINE S == DDPType
           C == {t \in S : IsList(t)}
           N == [t \in S |-> Tail(Underlying[t])]
           B == [t \in S |-> t]
           G == [p \in S \X S |-> p[2]]
           Body(f, t) == IF IsList(t) THEN f[Tail(GetUnderlying(t))] ELSE t
<1>1. \A t \in S : t \in C => N[t] \in S /\ Lengths[N[t]] < Lengths[t]
  BY Zenon, DefinitionShrinks
<1>2. G \in [S \X S -> S] /\ B \in [S -> S]
  BY Zenon
<1>3. PICK f \in [S -> S] : \A t \in S : f[t] = IF t \in C THEN G[<<t, f[N[t]]>>] ELSE B[t]
  <2>1. IsRecursion(S, S, C, N, Lengths, G, B)
    BY Zenon, <1>1, <1>2, LengthsType DEF IsRecursion
  <2>2. \E f \in [S -> S] : Solves(f, S, C, N, G, B)
    <3> HIDE DEF S, C, N, B, G
    <3> QED BY Zenon, <2>1, RecursiveFunction
  <2> QED
    BY Zenon, <2>2 DEF Solves
<1>4. \A t \in S : f[t] = Body(f, t)
  <2> SUFFICES ASSUME NEW t \in S PROVE f[t] = Body(f, t)
    BY Zenon
  <2>1. f[t] = IF t \in C THEN G[<<t, f[N[t]]>>] ELSE B[t]
    BY Zenon, <1>3
  <2>2. CASE t \in C
    <3>1. N[t] = Tail(Underlying[t]) /\ N[t] \in S /\ f[N[t]] \in S
      BY Zenon, <1>1, <2>2
    <3> QED
      BY Zenon, <2>1, <2>2, <3>1 DEF GetUnderlying
  <2>3. CASE t \notin C
    BY Zenon, <2>1, <2>3
  <2> QED
    BY Zenon, <2>2, <2>3
<1>5. f = [t \in S |-> Body(f, t)]
  BY Zenon, <1>4
<1>6. GetNestedListElementType = [t \in S |-> Body(GetNestedListElementType, t)]
  <2> HIDE DEF Body
  <2> DEFINE U == CHOOSE u : u = [t \in S |-> Body(u, t)]
  <2>1. U = [t \in S |-> Body(U, t)]
    BY Zenon, <1>5
  <2>2. GetNestedListElementType = U
    BY Zenon DEF GetNestedListElementType, Body
  <2> QED
    BY Zenon, <2>1, <2>2
<1>7. \A t \in S : GetNestedListElementType[t] = Body(GetNestedListElementType, t)
  <2> HIDE DEF Body
  <2> QED BY Zenon, <1>6
<1> QED
  BY Zenon, <1>7 DEF GetUnderlying
-----------------------------------------------------------------------------
(***************************************************************************)
(* The types of values.                                                    *)
(***************************************************************************)
Scalars == Basic \cup Structs

\* A type of values is a scalar or a constructor in front of a type of values.
LEMMA ValueTypeCases ==
  ASSUME NEW t \in ValueTypes
  PROVE  /\ t \in DDPType /\ t # << >>
         /\ \/ Head(t) \in Scalars /\ t = <<Head(t)>>
            \/ Head(t) \in {"Liste", "Alias"} \cup TypeDefs /\ Tail(t) \in ValueTypes
<1>1. /\ t \in DDPType /\ t # << >> /\ t[Len(t)] \in Scalars
      /\ \A i \in 1..(Len(t) - 1) : t[i] \in {"Liste", "Alias"} \cup TypeDefs
  BY Zenon DEF ValueTypes, Scalars
<1> DEFINE n == Len(t)
<1>2. n \in Nat /\ n >= 1 /\ t \in Seq(Constructors) /\ Head(t) = t[1]
  BY <1>1 DEF DDPType
<1>3. CASE Len(t) = 1
  BY <1>1, <1>2, <1>3
<1>4. CASE Len(t) > 1
  <2>1. /\ Tail(t) \in DDPType /\ Len(Tail(t)) = Len(t) - 1
        /\ \A i \in 1..(Len(t) - 1) : Tail(t)[i] = t[i + 1]
    BY <1>2, <1>4 DEF DDPType
  <2>2. Tail(t) # << >> /\ Tail(t)[Len(Tail(t))] \in Scalars
    <3>1. Len(t) - 1 \in 1..(Len(t) - 1) /\ (Len(t) - 1) + 1 = Len(t)
      BY <1>2, <1>4
    <3>2. Tail(t)[Len(t) - 1] = t[Len(t)]
      BY Zenon, <2>1, <3>1
    <3>3. Tail(t) # << >>
      <4>1. ASSUME Tail(t) = << >> PROVE FALSE
        <5>1. Len(Tail(t)) = 0
          <6>1. Len(<< >>) = 0
            BY Zenon
          <6> QED
            BY <4>1, <6>1, Zenon
        <5>2. n - 1 = 0
          BY Zenon, <2>1, <5>1
        <5>3. n > 1
          BY Zenon, <1>4
        <5> QED
          <6> HIDE DEF n
          <6> QED BY <1>2, <5>2, <5>3
      <4> QED
        BY Zenon, <4>1
    <3> QED
      BY Zenon, <1>1, <2>1, <3>2, <3>3
  <2>3. ASSUME NEW i \in 1..(Len(Tail(t)) - 1)
        PROVE  Tail(t)[i] \in {"Liste", "Alias"} \cup TypeDefs
    <3>1. i \in 1..(Len(t) - 1) /\ i + 1 \in 1..(Len(t) - 1)
      BY <1>2, <2>1
    <3> QED
      BY Zenon, <1>1, <2>1, <3>1
  <2>4. Tail(t) \in ValueTypes
    BY Zenon, <2>1, <2>2, <2>3 DEF ValueTypes, Scalars
  <2>5. t[1] \in {"Liste", "Alias"} \cup TypeDefs
    BY <1>1, <1>2, <1>4
  <2> QED
    BY Zenon, <1>1, <1>2, <2>4, <2>5
<1>5. Len(t) = 1 \/ Len(t) > 1
  <2>1. n \in Nat /\ n >= 1
    BY Zenon, <1>2
  <2>2. n = 1 \/ n > 1
    <3> HIDE DEF n
    <3> QED BY <2>1
  <2> QED
    BY Zenon, <2>2
<1> QED
  BY Zenon, <1>1, <1>3, <1>4, <1>5

\* Scalars are types of values.
LEMMA ScalarsAreValueTypes ==
  ASSUME NEW b \in Scalars
  PROVE  /\ <<b>> \in ValueTypes /\ <<b>> \in DDPType /\ Underlying[<<b>>] = <<b>>
         /\ <<b>> # << >> /\ Head(<<b>>) = b
<1>1. b \in Constructors
  BY Zenon DEF Scalars, Constructors
<1>2. /\ <<b>> \in DDPType /\ <<b>> # << >> /\ Len(<<b>>) = 1 /\ <<b>>[1] = b
      /\ Head(<<b>>) = b
  BY <1>1 DEF DDPType
<1>3. <<b>> \in ValueTypes
  BY <1>2 DEF ValueTypes, Scalars
<1>4. b \notin {"Alias", "Liste"}
  BY Zenon, NamesAssumption DEF Scalars, Basic
<1>5. Underlying[<<b>>] = <<b>>
  BY Zenon, <1>2, <1>4, UnderlyingSteps
<1> QED
  BY Zenon, <1>2, <1>3, <1>5

\* A list of values of a type is of a type of values.
LEMMA ListsAreValueTypes ==
  ASSUME NEW t \in ValueTypes
  PROVE  ListOf(t) \in ValueTypes
<1>1. /\ t \in DDPType /\ t # << >> /\ t[Len(t)] \in Scalars
      /\ \A i \in 1..(Len(t) - 1) : t[i] \in {"Liste", "Alias"} \cup TypeDefs
  BY Zenon DEF ValueTypes, Scalars
<1>2. Len(t) \in Nat /\ Len(t) >= 1 /\ t \in Seq(Constructors)
  BY <1>1 DEF DDPType
<1>3. /\ ListOf(t) \in DDPType /\ ListOf(t) # << >> /\ Len(ListOf(t)) = Len(t) + 1
      /\ Head(ListOf(t)) = "Liste" /\ Tail(ListOf(t)) = t
  BY Zenon, <1>1, TypeSequences
<1>4. ListOf(t)[1] = "Liste" /\ \A i \in 1..Len(t) : ListOf(t)[i + 1] = t[i]
  BY <1>2, <1>3 DEF DDPType
<1>5. ListOf(t)[Len(ListOf(t))] \in Scalars
  BY <1>1, <1>2, <1>3, <1>4
<1>6. ASSUME NEW i \in 1..(Len(ListOf(t)) - 1)
      PROVE  ListOf(t)[i] \in {"Liste", "Alias"} \cup TypeDefs
  <2>1. CASE i = 1
    BY Zenon, <1>4, <2>1
  <2>2. CASE i # 1
    <3>1. i - 1 \in 1..(Len(t) - 1) /\ i - 1 \in 1..Len(t) /\ (i - 1) + 1 = i
      BY <1>2, <1>3, <2>2
    <3> QED
      BY Zenon, <1>1, <1>4, <3>1
  <2> QED
    BY Zenon, <2>1, <2>2
<1> QED
  BY Zenon, <1>3, <1>5, <1>6 DEF ValueTypes, Scalars

\* GetUnderlying of a type of values is one, without an alias in front.
LEMMA UnderlyingOfValueType ==
  ASSUME NEW t \in ValueTypes
  PROVE  /\ Underlying[t] \in ValueTypes
         /\ Outermost(t) = Head(Underlying[t])
         /\ \/ Outermost(t) \in Scalars /\ Underlying[t] = <<Outermost(t)>>
            \/ /\ Outermost(t) \in {"Liste"} \cup TypeDefs
               /\ Tail(Underlying[t]) \in ValueTypes
<1> DEFINE P == {s \in DDPType : s \in ValueTypes => Underlying[s] \in ValueTypes}
<1>1. ASSUME NEW s \in DDPType, \A r \in DDPType : Lengths[r] < Lengths[s] => r \in P,
             s \in ValueTypes
      PROVE  Underlying[s] \in ValueTypes
  <2>1. s # << >> /\ Tail(s) \in DDPType /\ Lengths[Tail(s)] < Lengths[s]
    BY Zenon, <1>1, ValueTypeCases, TypeSequences DEF Lengths
  <2>2. CASE Head(s) \notin {"Alias", "Liste"}
    BY Zenon, <1>1, <2>1, <2>2, UnderlyingSteps
  <2>3. CASE Head(s) \in {"Alias", "Liste"}
    <3>1. Head(s) \notin Scalars
      BY Zenon, <2>3, NamesAssumption DEF Scalars, Basic
    <3>2. Tail(s) \in ValueTypes
      BY Zenon, <1>1, <3>1, ValueTypeCases
    <3>3. Underlying[Tail(s)] \in ValueTypes
      BY Zenon, <1>1, <2>1, <3>2
    <3> QED
      BY Zenon, <2>1, <2>3, <3>3, UnderlyingSteps, ListsAreValueTypes
  <2> QED
    BY Zenon, <2>2, <2>3
<1>2. DDPType \subseteq P
  <2>1. \A s \in DDPType : (\A r \in DDPType : Lengths[r] < Lengths[s] => r \in P) => s \in P
    BY Zenon, <1>1
  <2> HIDE DEF P
  <2> QED
    BY Zenon, <2>1, LengthsType, MeasureInduction
<1>3. t \in DDPType /\ Underlying[t] \in ValueTypes
  BY Zenon, <1>2, ValueTypeCases
<1>4. Underlying[t] # << >> /\ Head(Underlying[t]) # "Alias"
  BY Zenon, <1>3, ValueTypeCases, UnderlyingFacts
<1>5. Outermost(t) = Head(Underlying[t])
  BY Zenon, <1>4 DEF Outermost, GetUnderlying
<1> QED
  BY Zenon, <1>3, <1>4, <1>5, ValueTypeCases

\* What TrueUnderlying returns for a type of values: a scalar or a list, without aliases.
LEMMA TrueUnderlyingOfValueType ==
  ASSUME NEW t \in ValueTypes
  PROVE  /\ TrueUnderlying[t] \in ValueTypes
         /\ Underlying[TrueUnderlying[t]] = TrueUnderlying[t]
         /\ \/ /\ Head(TrueUnderlying[t]) \in Scalars
               /\ TrueUnderlying[t] = <<Head(TrueUnderlying[t])>>
            \/ /\ Head(TrueUnderlying[t]) = "Liste"
               /\ Tail(TrueUnderlying[t]) \in ValueTypes
<1> DEFINE R(u) == /\ u \in ValueTypes /\ Underlying[u] = u
                   /\ \/ Head(u) \in Scalars /\ u = <<Head(u)>>
                      \/ Head(u) = "Liste" /\ Tail(u) \in ValueTypes
           P == {s \in DDPType : s \in ValueTypes => R(TrueUnderlying[s])}
<1>1. ASSUME NEW s \in DDPType, \A r \in DDPType : Lengths[r] < Lengths[s] => r \in P,
             s \in ValueTypes
      PROVE  R(TrueUnderlying[s])
  <2>1. CASE IsTypeDef(s)
    <3>1. Tail(Underlying[s]) \in DDPType /\ Lengths[Tail(Underlying[s])] < Lengths[s]
      BY Zenon, <2>1, DefinitionShrinks
    <3>2. Tail(Underlying[s]) \in ValueTypes
      <4>1. Outermost(s) \notin Scalars
        BY Zenon, <2>1, NamesAssumption DEF IsTypeDef, Scalars
      <4> QED
        BY Zenon, <1>1, <4>1, UnderlyingOfValueType
    <3>3. R(TrueUnderlying[Tail(Underlying[s])])
      BY Zenon, <1>1, <3>1, <3>2
    <3> HIDE DEF R
    <3> QED
      BY Zenon, <2>1, <3>3, TrueUnderlyingDef
  <2>2. CASE ~ IsTypeDef(s)
    <3>1. TrueUnderlying[s] = Underlying[s]
      BY Zenon, <2>2, TrueUnderlyingDef
    <3>2. Underlying[Underlying[s]] = Underlying[s]
      BY Zenon, UnderlyingFacts
    <3>3. Outermost(s) \notin TypeDefs
      BY Zenon, <2>2 DEF IsTypeDef
    <3> QED
      BY Zenon, <1>1, <3>1, <3>2, <3>3, UnderlyingOfValueType
  <2> QED
    BY Zenon, <2>1, <2>2
<1>2. DDPType \subseteq P
  <2> HIDE DEF R
  <2>1. \A s \in DDPType : (\A r \in DDPType : Lengths[r] < Lengths[s] => r \in P) => s \in P
    BY Zenon, <1>1
  <2> HIDE DEF P
  <2> QED
    BY Zenon, <2>1, LengthsType, MeasureInduction
<1> QED
  BY Zenon, <1>2, ValueTypeCases

-----------------------------------------------------------------------------
(***************************************************************************)
(* Type parameters.                                                        *)
(***************************************************************************)
\* What is left of a generic type without its aliases: lists around the type parameter.
ListsAroundT(u) ==
  /\ u \in DDPType /\ u # << >> /\ u[Len(u)] = "T"
  /\ \A i \in 1..(Len(u) - 1) : u[i] = "Liste"

\* A generic type is the type parameter, or a list or an alias of a generic type.
LEMMA GenericTypeCases ==
  ASSUME NEW t \in GenericTypes
  PROVE  /\ t \in DDPType /\ t # << >>
         /\ \/ t = <<"T">>
            \/ Head(t) \in {"Liste", "Alias"} /\ Tail(t) \in GenericTypes
<1>1. /\ t \in DDPType /\ t # << >> /\ t[Len(t)] = "T"
      /\ \A i \in 1..(Len(t) - 1) : t[i] \in {"Liste", "Alias"}
  BY Zenon DEF GenericTypes
<1> DEFINE n == Len(t)
<1>2. n \in Nat /\ n >= 1 /\ t \in Seq(Constructors) /\ Head(t) = t[1]
  BY <1>1 DEF DDPType
<1>3. CASE Len(t) = 1
  BY <1>1, <1>2, <1>3
<1>4. CASE Len(t) > 1
  <2>1. /\ Tail(t) \in DDPType /\ Len(Tail(t)) = Len(t) - 1
        /\ \A i \in 1..(Len(t) - 1) : Tail(t)[i] = t[i + 1]
    BY <1>2, <1>4 DEF DDPType
  <2>2. Tail(t) # << >> /\ Tail(t)[Len(Tail(t))] = "T"
    <3>1. Len(t) - 1 \in 1..(Len(t) - 1) /\ (Len(t) - 1) + 1 = Len(t)
      BY <1>2, <1>4
    <3>2. Tail(t)[Len(t) - 1] = t[Len(t)]
      BY Zenon, <2>1, <3>1
    <3>3. Tail(t) # << >>
      <4>1. ASSUME Tail(t) = << >> PROVE FALSE
        <5>1. Len(Tail(t)) = 0
          <6>1. Len(<< >>) = 0
            BY Zenon
          <6> QED
            BY <4>1, <6>1, Zenon
        <5>2. n - 1 = 0
          BY Zenon, <2>1, <5>1
        <5>3. n > 1
          BY Zenon, <1>4
        <5> QED
          <6> HIDE DEF n
          <6> QED BY <1>2, <5>2, <5>3
      <4> QED
        BY Zenon, <4>1
    <3> QED
      BY Zenon, <1>1, <2>1, <3>2, <3>3
  <2>3. ASSUME NEW i \in 1..(Len(Tail(t)) - 1)
        PROVE  Tail(t)[i] \in {"Liste", "Alias"}
    <3>1. i \in 1..(Len(t) - 1) /\ i + 1 \in 1..(Len(t) - 1)
      BY <1>2, <2>1
    <3> QED
      BY Zenon, <1>1, <2>1, <3>1
  <2>4. Tail(t) \in GenericTypes
    BY Zenon, <2>1, <2>2, <2>3 DEF GenericTypes
  <2>5. t[1] \in {"Liste", "Alias"}
    BY <1>1, <1>2, <1>4
  <2> QED
    BY Zenon, <1>1, <1>2, <2>4, <2>5
<1>5. Len(t) = 1 \/ Len(t) > 1
  <2>1. n \in Nat /\ n >= 1
    BY Zenon, <1>2
  <2>2. n = 1 \/ n > 1
    <3> HIDE DEF n
    <3> QED BY <2>1
  <2> QED
    BY Zenon, <2>2
<1> QED
  BY Zenon, <1>1, <1>3, <1>4, <1>5

\* GetUnderlying of a generic type has no aliases left.
LEMMA UnderlyingOfGenericType ==
  ASSUME NEW t \in GenericTypes
  PROVE  ListsAroundT(Underlying[t])
<1>1. ASSUME NEW u, ListsAroundT(u)
      PROVE  ListsAroundT(ListOf(u))
  <2>1. /\ u \in DDPType /\ u # << >> /\ u[Len(u)] = "T"
        /\ \A i \in 1..(Len(u) - 1) : u[i] = "Liste"
    BY Zenon, <1>1 DEF ListsAroundT
  <2>2. Len(u) \in Nat /\ Len(u) >= 1 /\ u \in Seq(Constructors)
    BY <2>1 DEF DDPType
  <2>3. /\ ListOf(u) \in DDPType /\ ListOf(u) # << >> /\ Len(ListOf(u)) = Len(u) + 1
        /\ Head(ListOf(u)) = "Liste" /\ Tail(ListOf(u)) = u
    BY Zenon, <2>1, TypeSequences
  <2>4. ListOf(u)[1] = "Liste" /\ \A i \in 1..Len(u) : ListOf(u)[i + 1] = u[i]
    BY <2>2, <2>3 DEF DDPType
  <2>5. ListOf(u)[Len(ListOf(u))] = "T"
    BY <2>1, <2>2, <2>3, <2>4
  <2>6. ASSUME NEW i \in 1..(Len(ListOf(u)) - 1)
        PROVE  ListOf(u)[i] = "Liste"
    <3>1. CASE i = 1
      BY Zenon, <2>4, <3>1
    <3>2. CASE i # 1
      <4>1. i - 1 \in 1..(Len(u) - 1) /\ i - 1 \in 1..Len(u) /\ (i - 1) + 1 = i
        BY <2>2, <2>3, <3>2
      <4> QED
        BY Zenon, <2>1, <2>4, <4>1
    <3> QED
      BY Zenon, <3>1, <3>2
  <2> QED
    BY Zenon, <2>3, <2>5, <2>6 DEF ListsAroundT
<1> DEFINE P == {s \in DDPType : s \in GenericTypes => ListsAroundT(Underlying[s])}
<1>2. ASSUME NEW s \in DDPType, \A r \in DDPType : Lengths[r] < Lengths[s] => r \in P,
             s \in GenericTypes
      PROVE  ListsAroundT(Underlying[s])
  <2>1. s # << >> /\ Tail(s) \in DDPType /\ Lengths[Tail(s)] < Lengths[s]
    BY Zenon, <1>2, GenericTypeCases, TypeSequences DEF Lengths
  <2>2. CASE s = <<"T">>
    <3>1. Head(s) = "T"
      BY <2>2
    <3>2. Underlying[s] = s
      BY Zenon, <2>1, <3>1, UnderlyingSteps
    <3> QED
      BY <2>2, <3>2 DEF ListsAroundT
  <2>3. CASE Head(s) \in {"Liste", "Alias"} /\ Tail(s) \in GenericTypes
    <3>1. ListsAroundT(Underlying[Tail(s)])
      BY Zenon, <1>2, <2>1, <2>3
    <3> QED
      BY Zenon, <1>1, <2>1, <2>3, <3>1, UnderlyingSteps
  <2> QED
    BY Zenon, <1>2, <2>2, <2>3, GenericTypeCases
<1>3. DDPType \subseteq P
  <2>1. \A s \in DDPType : (\A r \in DDPType : Lengths[r] < Lengths[s] => r \in P) => s \in P
    BY Zenon, <1>2
  <2> HIDE DEF P
  <2> QED
    BY Zenon, <2>1, LengthsType, MeasureInduction
<1> QED
  BY Zenon, <1>3, GenericTypeCases

\* ListDepth is the number of lists that both types start with.
LEMMA ListDepthFacts ==
  ASSUME NEW arg \in DDPType, NEW param \in DDPType, param # << >>, param[Len(param)] # "Liste"
  PROVE  LET n == ListDepth(arg, param)
         IN /\ n \in 0..(Len(param) - 1)
            /\ \A i \in 1..n : i <= Len(arg) /\ arg[i] = "Liste" /\ param[i] = "Liste"
            /\ n + 1 > Len(arg) \/ arg[n + 1] # "Liste" \/ param[n + 1] # "Liste"
<1> DEFINE k == Len(param)
           m == Len(arg)
           Stops(n) == n + 1 > m \/ arg[n + 1] # "Liste" \/ param[n + 1] # "Liste"
           Good(n) == /\ \A i \in 1..n : i <= m /\ arg[i] = "Liste" /\ param[i] = "Liste"
                      /\ Stops(n)
           S == {n \in 0..k : Stops(n)}
<1>1. k \in Nat /\ k >= 1 /\ m \in Nat
  BY DEF DDPType
<1>2. ListDepth(arg, param) = CHOOSE n \in 0..k : Good(n)
  BY Zenon DEF ListDepth
<1>3. param[k] # "Liste"
  BY Zenon
<1> HIDE DEF k, m
<1>4. k - 1 \in S
  <2>1. k - 1 \in 0..k /\ (k - 1) + 1 = k
    BY <1>1
  <2> QED
    BY Zenon, <1>3, <2>1
<1>5. PICK n \in S : \A j \in S : n <= j
  <2>1. S \subseteq Nat
    <3> HIDE DEF Stops
    <3> QED BY <1>1
  <2> HIDE DEF S
  <2>2. S # {}
    BY Zenon, <1>4
  <2> QED
    BY Zenon, <2>1, <2>2, LeastNumber
<1>6. n \in 0..k /\ Stops(n)
  BY Zenon, <1>5
<1>7. ASSUME NEW i \in 1..n
      PROVE  i <= m /\ arg[i] = "Liste" /\ param[i] = "Liste"
  <2>1. i - 1 \in 0..k /\ i - 1 < n /\ (i - 1) + 1 = i
    BY <1>1, <1>6
  <2>2. i - 1 \notin S
    BY <1>5, <1>6, <2>1
  <2>3. ~ Stops(i - 1)
    BY Zenon, <2>1, <2>2
  <2> QED
    BY <1>1, <2>1, <2>3
<1>8. Good(n)
  BY Zenon, <1>6, <1>7
<1> DEFINE d == ListDepth(arg, param)
<1>9. d \in 0..k /\ Good(d)
  <2> HIDE DEF Good
  <2> QED BY <1>2, <1>6, <1>8, Zenon
<1> HIDE DEF d
<1>10. d # k
  <2>1. d = k => k \in 1..d
    BY <1>1
  <2> QED
    BY Zenon, <1>3, <1>9, <2>1
<1>11. d \in 0..(k - 1)
  BY <1>1, <1>9, <1>10
<1> QED
  BY Zenon, <1>9, <1>11 DEF k, m, d
-----------------------------------------------------------------------------
(***************************************************************************)
(* The slice of overloads.                                                 *)
(***************************************************************************)
\* The counts of countRefAndGenericArgs are numbers; an operator has at most three operands.
LEMMA CountIsNumber ==
  ASSUME NEW marked, NEW L \in 1..3, Len(marked) = L
  PROVE  countArgs(marked) \in Nat
<1> DEFINE b(k) == IF marked[k] THEN 1 ELSE 0
           Body(f, k) == IF k = 0 THEN 0 ELSE f[k - 1] + b(k)
           n == CHOOSE f : f = [k \in 0..L |-> Body(f, k)]
           g == [k \in 0..L |-> IF k = 0 THEN 0 ELSE IF k = 1 THEN b(1)
                                ELSE IF k = 2 THEN b(1) + b(2) ELSE b(1) + b(2) + b(3)]
<1>1. b(1) \in 0..1 /\ b(2) \in 0..1 /\ b(3) \in 0..1
  OBVIOUS
<1>2. g = [k \in 0..L |-> Body(g, k)]
  <2> SUFFICES ASSUME NEW k \in 0..L PROVE g[k] = Body(g, k)
    OBVIOUS
  <2>1. k \in {0, 1, 2, 3}
    OBVIOUS
  <2> HIDE DEF b
  <2> QED
    BY <1>1, <2>1
<1>3. n = [k \in 0..L |-> Body(n, k)]
  <2> HIDE DEF Body, g
  <2> QED BY Zenon, <1>2
<1>4. \A k \in 0..L : n[k] = Body(n, k)
  <2> HIDE DEF n
  <2> QED BY Zenon, <1>3
<1>5. n[L] \in Nat
  <2> HIDE DEF n, b
  <2> QED BY <1>1, <1>4
<1>6. countArgs(marked) = n[L]
  BY Zenon DEF countArgs
<1> QED
  BY Zenon, <1>5, <1>6

\* The comparison of two overloads never fails: both counts are numbers.
LEMMA CountsAreNumbers ==
  ASSUME NEW d \in OverloadDecls
  PROVE  Gens(d) \in Nat /\ Refs(d) \in Nat
<1>1. Len(d.params) \in 1..3
  <2>1. Len(d.params) = Arity(d.op)
    BY DeclsAssumption, Zenon
  <2> QED
    BY <2>1 DEF Arity
<1>2. /\ Len([i \in 1..Len(d.params) |-> d.params[i].ref]) = Len(d.params)
      /\ Len([i \in 1..Len(d.params) |-> CastDeeplyNestedGenerics(d.params[i].typ)]) = Len(d.params)
  BY <1>1
<1> QED
  BY Zenon, <1>1, <1>2, CountIsNumber DEF Gens, Refs

\* Fewer generics first, then more references, is a total preorder.
LEMMA CompareOrder ==
  ASSUME NEW a \in OverloadDecls, NEW b \in OverloadDecls, NEW c \in OverloadDecls
  PROVE  /\ Compare(a, a) = 0
         /\ Compare(a, b) <= 0 /\ Compare(b, c) <= 0 => Compare(a, c) <= 0
         /\ Compare(a, b) <= 0 /\ Compare(b, c) < 0 => Compare(a, c) < 0
         /\ Compare(a, b) <= 0 /\ Compare(a, c) >= 0 => Compare(b, c) >= 0
         /\ Compare(a, c) >= 0 => Compare(c, a) <= 0
         /\ ~ (Compare(a, c) < 0) => Compare(a, c) >= 0
         /\ Compare(a, c) < 0 => Compare(a, c) <= 0
  BY CountsAreNumbers DEF Compare

Sorted(o) == \A i, j \in DOMAIN o : i <= j => Compare(o[i], o[j]) <= 0

\* k splits the slice: smaller entries before, the others behind.
Splits(o, d, k) ==
  /\ k \in 0..Len(o)
  /\ \A i \in DOMAIN o : i <= k => Compare(o[i], d) < 0
  /\ \A i \in DOMAIN o : i > k => Compare(o[i], d) >= 0

\* slices.BinarySearchFunc returns the place where the slice splits.
LEMMA BinarySearchSplits ==
  ASSUME NEW o \in Seq(OverloadDecls), NEW d \in OverloadDecls, Sorted(o)
  PROVE  Splits(o, d, BinarySearchFunc(o, d))
<1> DEFINE n == Len(o)
           S == (0..n) \X (0..n)
           C == {w \in S : w[1] < w[2]}
           mid(w) == (w[1] + w[2]) \div 2
           N == [w \in S |-> IF Compare(o[mid(w) + 1], d) < 0 THEN <<mid(w) + 1, w[2]>>
                             ELSE <<w[1], mid(w)>>]
           m == [w \in S |-> IF w[1] < w[2] THEN w[2] - w[1] ELSE 0]
           B == [w \in S |-> w[1]]
           G == [p \in S \X (0..n) |-> p[2]]
           Body(f, w) == LET h == (w[1] + w[2]) \div 2
                         IN IF w[1] >= w[2] THEN w[1]
                            ELSE IF Compare(o[h + 1], d) < 0 THEN f[<<h + 1, w[2]>>]
                            ELSE f[<<w[1], h>>]
           at == CHOOSE f : f = [w \in S |-> Body(f, w)]
<1>1. n \in Nat
  OBVIOUS
<1>2. ASSUME NEW w \in S, w[1] < w[2]
      PROVE  /\ w[1] \in 0..n /\ w[2] \in 0..n /\ mid(w) \in 0..n /\ mid(w) + 1 \in 0..n
             /\ w[1] <= mid(w) /\ mid(w) < w[2]
  BY <1>1, <1>2
<1>3. \A w \in S : w \in C => N[w] \in S /\ m[N[w]] < m[w]
  <2> SUFFICES ASSUME NEW w \in S, w[1] < w[2] PROVE N[w] \in S /\ m[N[w]] < m[w]
    BY Zenon
  <2>1. N[w] \in {<<mid(w) + 1, w[2]>>, <<w[1], mid(w)>>}
    BY Zenon
  <2>2. /\ <<mid(w) + 1, w[2]>> \in S /\ <<w[1], mid(w)>> \in S
    BY Zenon, <1>2
  <2>3. /\ m[<<mid(w) + 1, w[2]>>] < m[w] /\ m[<<w[1], mid(w)>>] < m[w]
    BY <1>2, <2>2
  <2> QED
    BY Zenon, <2>1, <2>2, <2>3
<1>4. m \in [S -> Nat] /\ G \in [S \X (0..n) -> 0..n] /\ B \in [S -> 0..n]
  BY <1>1
<1>5. PICK f \in [S -> 0..n] : \A w \in S : f[w] = IF w \in C THEN G[<<w, f[N[w]]>>] ELSE B[w]
  <2>1. IsRecursion(S, 0..n, C, N, m, G, B)
    BY Zenon, <1>3, <1>4 DEF IsRecursion
  <2>2. \E f \in [S -> 0..n] : Solves(f, S, C, N, G, B)
    <3> HIDE DEF n, S, C, N, B, G, m
    <3> QED BY Zenon, <2>1, RecursiveFunction
  <2> QED
    BY Zenon, <2>2 DEF Solves
<1>6. \A w \in S : f[w] = Body(f, w)
  <2> SUFFICES ASSUME NEW w \in S PROVE f[w] = Body(f, w)
    BY Zenon
  <2>1. f[w] = IF w \in C THEN G[<<w, f[N[w]]>>] ELSE B[w]
    BY Zenon, <1>5
  <2>2. CASE w \in C
    <3>1. N[w] \in S /\ f[N[w]] \in 0..n
      BY Zenon, <1>3, <2>2
    <3>2. G[<<w, f[N[w]]>>] = f[N[w]]
      BY Zenon, <3>1
    <3>3. ~ (w[1] >= w[2])
      BY <2>2, <1>2
    <3> QED
      BY Zenon, <2>1, <2>2, <3>2, <3>3
  <2>3. CASE w \notin C
    <3>1. w[1] >= w[2]
      BY <1>1, <2>3
    <3> QED
      BY Zenon, <2>1, <2>3, <3>1
  <2> QED
    BY Zenon, <2>2, <2>3
<1>7. f = [w \in S |-> Body(f, w)]
  BY Zenon, <1>6
<1>8. at = [w \in S |-> Body(at, w)]
  <2> HIDE DEF Body
  <2> QED BY Zenon, <1>7
<1>9. ASSUME NEW w \in S
      PROVE  /\ w[1] = w[2] => at[w] = w[1]
             /\ w[1] < w[2] /\ Compare(o[mid(w) + 1], d) < 0 => at[w] = at[<<mid(w) + 1, w[2]>>]
             /\ w[1] < w[2] /\ ~ (Compare(o[mid(w) + 1], d) < 0) => at[w] = at[<<w[1], mid(w)>>]
  <2>1. at[w] = Body(at, w)
    <3> HIDE DEF Body, at
    <3> QED BY Zenon, <1>8
  <2>2. w[1] \in Nat /\ w[2] \in Nat
    BY <1>1
  <2> HIDE DEF at
  <2>3. CASE w[1] >= w[2]
    BY <2>1, <2>2, <2>3
  <2>4. CASE w[1] < w[2]
    <3>1. ~ (w[1] >= w[2]) /\ w[1] # w[2]
      BY <2>2, <2>4
    <3> QED
      BY Zenon, <2>1, <3>1
  <2> QED
    BY <2>2, <2>3, <2>4
<1>10. BinarySearchFunc(o, d) = at[<<0, n>>]
  BY Zenon DEF BinarySearchFunc
<1> HIDE DEF at
<1> DEFINE Window(w) == /\ w[1] <= w[2]
                        /\ \A i \in DOMAIN o : i <= w[1] => Compare(o[i], d) < 0
                        /\ \A i \in DOMAIN o : i > w[2] => Compare(o[i], d) >= 0
           P == {w \in S : Window(w) => Splits(o, d, at[w])}
<1>11. ASSUME NEW w \in S, \A v \in S : m[v] < m[w] => v \in P, Window(w)
       PROVE  Splits(o, d, at[w])
  <2>1. CASE w[1] = w[2]
    <3>1. at[w] = w[1]
      BY Zenon, <1>1, <1>9, <2>1
    <3> QED
      BY Zenon, <1>11, <2>1, <3>1 DEF Splits
  <2>2. CASE w[1] < w[2]
    <3> DEFINE h == mid(w)
    <3>1. /\ w[1] \in 0..n /\ w[2] \in 0..n /\ h \in 0..n /\ h + 1 \in 0..n
          /\ w[1] <= h /\ h < w[2] /\ h + 1 \in DOMAIN o
      BY <1>1, <1>2, <2>2
    <3>2. N[w] \in S /\ m[N[w]] < m[w]
      BY Zenon, <1>3, <2>2
    <3>3. CASE Compare(o[h + 1], d) < 0
      <4>1. N[w] = <<h + 1, w[2]>>
        BY Zenon, <3>3
      <4>2. at[w] = at[<<h + 1, w[2]>>]
        BY Zenon, <1>9, <2>2, <3>1, <3>3
      <4>3. ASSUME NEW i \in DOMAIN o, i <= h + 1
            PROVE  Compare(o[i], d) < 0
        <5>1. Compare(o[i], o[h + 1]) <= 0
          BY Zenon, <3>1, <4>3 DEF Sorted
        <5> QED
          BY <3>1, <3>3, <5>1, CompareOrder
      <4>4. Window(<<h + 1, w[2]>>)
        BY <1>11, <3>1, <4>3
      <4> HIDE DEF N, m, Window, S, h
      <4> QED
        BY Zenon, <1>11, <3>2, <4>1, <4>2, <4>4
    <3>4. CASE ~ (Compare(o[h + 1], d) < 0)
      <4>1. N[w] = <<w[1], h>>
        BY Zenon, <3>4
      <4>2. at[w] = at[<<w[1], h>>]
        BY Zenon, <1>9, <2>2, <3>1, <3>4
      <4>3. ASSUME NEW i \in DOMAIN o, i > h
            PROVE  Compare(o[i], d) >= 0
        <5>1. Compare(o[h + 1], o[i]) <= 0
          BY <3>1, <4>3 DEF Sorted
        <5>2. Compare(o[h + 1], d) >= 0
          BY <3>1, <3>4, CompareOrder
        <5> QED
          BY <3>1, <5>1, <5>2, CompareOrder
      <4>4. Window(<<w[1], h>>)
        BY Zenon, <1>11, <3>1, <4>3
      <4> HIDE DEF N, m, Window, S, h
      <4> QED
        BY Zenon, <1>11, <3>2, <4>1, <4>2, <4>4
    <3> QED
      BY Zenon, <3>3, <3>4
  <2> QED
    BY <1>1, <1>11, <2>1, <2>2
<1>12. S \subseteq P
  <2> HIDE DEF Window
  <2>1. \A w \in S : (\A v \in S : m[v] < m[w] => v \in P) => w \in P
    BY Zenon, <1>11
  <2> HIDE DEF P, S, m
  <2> QED
    BY Zenon, <1>4, <2>1, MeasureInduction
<1>13. <<0, n>> \in S /\ Window(<<0, n>>)
  BY <1>1
<1> HIDE DEF Window, S
<1> QED
  BY Zenon, <1>10, <1>12, <1>13

\* insertOperatorOverload keeps the slice sorted.
LEMMA InsertKeepsSorted ==
  ASSUME NEW o \in Seq(OverloadDecls), NEW d \in OverloadDecls, Sorted(o), NEW op
  PROVE  /\ insertOperatorOverload(op, o, d) \in Seq(OverloadDecls)
         /\ Sorted(insertOperatorOverload(op, o, d))
<1> DEFINE k == BinarySearchFunc(o, d)
           r == Insert(o, d)
           n == Len(o)
<1>1. Splits(o, d, k)
  BY Zenon, BinarySearchSplits
<1> HIDE DEF k
<1>2. k \in 0..n /\ n \in Nat
  BY <1>1 DEF Splits
<1>3. r = SubSeq(o, 1, k) \o <<d>> \o SubSeq(o, k + 1, n)
  BY Zenon DEF Insert, k
<1>4. /\ SubSeq(o, 1, k) \in Seq(OverloadDecls) /\ Len(SubSeq(o, 1, k)) = k
      /\ \A i \in 1..k : SubSeq(o, 1, k)[i] = o[i]
  BY <1>2
<1>5. /\ SubSeq(o, k + 1, n) \in Seq(OverloadDecls) /\ Len(SubSeq(o, k + 1, n)) = n - k
      /\ \A i \in 1..(n - k) : SubSeq(o, k + 1, n)[i] = o[k + i]
  BY <1>2
<1> DEFINE a == SubSeq(o, 1, k)
           b == SubSeq(o, k + 1, n)
<1> HIDE DEF a, b, r
<1>6. /\ r \in Seq(OverloadDecls) /\ Len(r) = n + 1 /\ DOMAIN r = 1..(n + 1)
      /\ \A i \in 1..k : r[i] = o[i]
      /\ r[k + 1] = d
      /\ \A i \in (k + 2)..(n + 1) : r[i] = o[i - 1]
  <2>1. a \in Seq(OverloadDecls) /\ Len(a) = k /\ \A i \in 1..k : a[i] = o[i]
    BY Zenon, <1>4 DEF a
  <2>2. b \in Seq(OverloadDecls) /\ Len(b) = n - k /\ \A i \in 1..(n - k) : b[i] = o[k + i]
    BY Zenon, <1>5 DEF b
  <2>3. r = (a \o <<d>>) \o b
    BY Zenon, <1>3 DEF a, b
  <2>4. /\ a \o <<d>> \in Seq(OverloadDecls) /\ Len(a \o <<d>>) = k + 1
        /\ \A i \in 1..k : (a \o <<d>>)[i] = a[i]
        /\ (a \o <<d>>)[k + 1] = d
    BY <1>2, <2>1
  <2> DEFINE c == a \o <<d>>
  <2> HIDE DEF c, n
  <2>5. /\ c \o b \in Seq(OverloadDecls) /\ Len(c \o b) = n + 1
        /\ \A i \in 1..(k + 1) : (c \o b)[i] = c[i]
        /\ \A i \in (k + 2)..(n + 1) : (c \o b)[i] = b[i - (k + 1)]
    <3>1. c \in Seq(OverloadDecls) /\ Len(c) = k + 1
      BY Zenon, <2>4 DEF c
    <3>2. b \in Seq(OverloadDecls) /\ Len(b) = n - k
      BY Zenon, <2>2
    <3>3. c \o b \in Seq(OverloadDecls) /\ Len(c \o b) = n + 1
      BY <1>2, <3>1, <3>2
    <3>4. \A i \in 1..(k + 1) : (c \o b)[i] = c[i]
      BY <1>2, <3>1, <3>2
    <3>5. \A i \in (k + 2)..(n + 1) : (c \o b)[i] = b[i - (k + 1)]
      BY <1>2, <3>1, <3>2
    <3> QED
      BY Zenon, <3>3, <3>4, <3>5
  <2>6. \A i \in (k + 2)..(n + 1) : b[i - (k + 1)] = o[i - 1]
    <3> SUFFICES ASSUME NEW i \in (k + 2)..(n + 1) PROVE b[i - (k + 1)] = o[i - 1]
      BY Zenon
    <3>1. i - (k + 1) \in 1..(n - k) /\ k + (i - (k + 1)) = i - 1
      BY <1>2
    <3> QED
      BY Zenon, <2>2, <3>1
  <2>7. \A i \in 1..k : i \in 1..(k + 1)
    BY <1>2
  <2>8. k + 1 \in 1..(k + 1)
    BY <1>2
  <2>9. c[k + 1] = d /\ \A i \in 1..k : c[i] = o[i]
    BY Zenon, <2>1, <2>4 DEF c
  <2>10. r = c \o b
    BY Zenon, <2>3 DEF c
  <2>11. r \in Seq(OverloadDecls) /\ Len(r) = n + 1
    BY Zenon, <2>5, <2>10
  <2>12. DOMAIN r = 1..(n + 1)
    BY <2>11
  <2>13. r[k + 1] = d /\ \A i \in 1..k : r[i] = o[i]
    BY Zenon, <2>5, <2>7, <2>8, <2>9, <2>10
  <2>14. \A i \in (k + 2)..(n + 1) : r[i] = o[i - 1]
    BY Zenon, <2>5, <2>6, <2>10
  <2> QED
    BY Zenon, <2>11, <2>12, <2>13, <2>14
<1>7. Sorted(r)
  <2> SUFFICES ASSUME NEW i \in 1..(n + 1), NEW j \in 1..(n + 1), i <= j
               PROVE  Compare(r[i], r[j]) <= 0
    BY Zenon, <1>6 DEF Sorted
  <2>1. DOMAIN o = 1..n /\ \A x \in 1..n : o[x] \in OverloadDecls
    OBVIOUS
  <2>2. CASE j <= k
    <3>1. i \in 1..n /\ j \in 1..n /\ r[i] = o[i] /\ r[j] = o[j]
      BY <1>2, <1>6, <2>2
    <3> QED
      BY Zenon, <2>1, <3>1 DEF Sorted
  <2>3. CASE i <= k /\ j = k + 1
    <3>1. i \in 1..n /\ r[i] = o[i] /\ r[j] = d
      BY <1>2, <1>6, <2>3
    <3>2. Compare(o[i], d) < 0
      BY Zenon, <1>1, <2>1, <2>3, <3>1 DEF Splits
    <3> QED
      BY Zenon, <2>1, <3>1, <3>2, CompareOrder
  <2>4. CASE i <= k /\ j > k + 1
    <3>1. /\ i \in 1..n /\ j - 1 \in 1..n /\ i <= j - 1
          /\ r[i] = o[i] /\ r[j] = o[j - 1]
      BY <1>2, <1>6, <2>4
    <3> QED
      BY Zenon, <2>1, <3>1 DEF Sorted
  <2>5. CASE i = k + 1 /\ j = k + 1
    BY Zenon, <1>6, <2>5, CompareOrder
  <2>6. CASE i = k + 1 /\ j > k + 1
    <3>1. j - 1 \in 1..n /\ j - 1 > k /\ r[i] = d /\ r[j] = o[j - 1]
      BY <1>2, <1>6, <2>6
    <3>2. Compare(o[j - 1], d) >= 0
      BY Zenon, <1>1, <2>1, <3>1 DEF Splits
    <3> QED
      BY Zenon, <2>1, <3>1, <3>2, CompareOrder
  <2>7. CASE i > k + 1
    <3>1. /\ i - 1 \in 1..n /\ j - 1 \in 1..n /\ i - 1 <= j - 1
          /\ r[i] = o[i - 1] /\ r[j] = o[j - 1]
      BY <1>2, <1>6, <2>7
    <3> QED
      BY Zenon, <2>1, <3>1 DEF Sorted
  <2> QED
    BY <1>2, <2>2, <2>3, <2>4, <2>5, <2>6, <2>7
<1> QED
  BY Zenon, <1>6, <1>7 DEF insertOperatorOverload, r

\* findOverload returns the first entry that can end the search, so nothing that matches is
\* before it.
LEMMA FindReturnsFirst ==
  ASSUME NEW o \in Seq(OverloadDecls), NEW operands, NEW target, NEW inst,
         findOverload(o, operands, target, inst) # 0
  PROVE  LET i == findOverload(o, operands, target, inst)
         IN /\ i \in DOMAIN o /\ Matches(o[i], operands, target)
            /\ \A j \in DOMAIN o : Matches(o[j], operands, target) => i <= j
<1> DEFINE stops == {i \in DOMAIN o :
                       \/ IsGenericDecl(o[i]) /\ ~ containsUserDefinedType(operands)
                       \/ Matches(o[i], operands, target)}
           first == CHOOSE i \in stops : \A j \in stops : i <= j
<1>1. stops # {} /\ findOverload(o, operands, target, inst) = first
  BY Zenon DEF findOverload
<1>2. stops \subseteq Nat
  OBVIOUS
<1>3. \E i \in stops : \A j \in stops : i <= j
  <2> HIDE DEF stops
  <2> QED BY Zenon, <1>1, <1>2, LeastNumber
<1>4. first \in stops /\ \A j \in stops : first <= j
  <2> HIDE DEF stops
  <2> QED BY Zenon, <1>3
<1>5. ~ (IsGenericDecl(o[first]) /\ ~ containsUserDefinedType(operands))
  BY Zenon DEF findOverload
<1> HIDE DEF first
<1>6. Matches(o[first], operands, target)
  BY Zenon, <1>4, <1>5
<1> QED
  BY Zenon, <1>1, <1>4, <1>6
=============================================================================

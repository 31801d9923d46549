---------------------------- MODULE UnleashProofs ----------------------------
(***************************************************************************)
(* Theorems of UnleashApply: its types, and that every step of a call is a *)
(* step of UnleashCall, whatever the number of attempts, of strategies and *)
(* of applies that work on the feature.                                    *)
(***************************************************************************)
EXTENDS UnleashApply, FiniteSetTheorems, TLAPS

Labels == {"idle", "get", "update", "create", "strategy", "toggle"} \cup Ended

(* What the refinement needs to know of a step: the call had not ended, it *)
(* has changed nothing in Unleash on behalf of another one, and when it    *)
(* returns normally its change has reached Unleash.                        *)
Moves(a) ==
  /\ pc[a] \notin Ended
  /\ reached' \in {reached, reached \cup {a}}
  /\ \E l \in Labels : /\ pc' = [pc EXCEPT ![a] = l]
                       /\ l = "ok" => a \in reached'

LEMMA AfterLabel ==
  ASSUME NEW a \in Applies, NEW n \in Nat
  PROVE  AfterStrategies(a, n) \in {"strategy", "toggle"}
BY DEF AfterStrategies

LEMMA ProceedMoves ==
  ASSUME TypeOK, NEW a \in Applies, Proceed(a)
  PROVE  Moves(a)
<1> USE DEF Moves, Labels, Ended, Request, Retry, Fail, server
<1>0. pc = [pc EXCEPT ![a] = pc[a]] /\ pc[a] \in Labels
  BY DEF TypeOK
<1>1. CASE GetFeature(a)
  BY <1>0, <1>1, AfterLabel DEF GetFeature, Advance
<1>2. CASE UpdateFeature(a)
  BY <1>0, <1>2, AfterLabel DEF UpdateFeature, Advance
<1>3. CASE CreateFeature(a)
  BY <1>0, <1>3, AfterLabel DEF CreateFeature, Advance
<1>4. CASE AddStrategy(a)
  <2>1. AfterStrategies(a, added[a] + 1) \in {"strategy", "toggle"}
    BY AfterLabel DEF TypeOK
  <2>2. QED
    BY <1>0, <1>4, <2>1 DEF AddStrategy, Advance
<1>5. CASE ToggleEnvironment(a)
  BY <1>0, <1>5 DEF ToggleEnvironment, Advance
<1>6. QED
  BY <1>1, <1>2, <1>3, <1>4, <1>5 DEF Proceed

-------------------------------------------------------------------------------
(* Types.                                                                  *)

Tries == 0..(Attempts - 1)

LEMMA RetryType ==
  ASSUME TypeOK, NEW a \in Applies, Retry(a)
  PROVE  tries' \in [Applies -> Tries] /\ change' = change /\ added' = added
<1>1. CASE tries[a] + 1 < Attempts
  <2>1. tries[a] + 1 \in Tries
    BY <1>1, UnleashApplyAssumption DEF TypeOK, Tries
  <2>2. QED
    BY <1>1, <2>1 DEF Retry, TypeOK, Tries
<1>2. CASE ~(tries[a] + 1 < Attempts)
  BY <1>2 DEF Retry, Fail, TypeOK, Tries
<1>3. QED
  BY <1>1, <1>2

LEMMA AdvanceType ==
  ASSUME TypeOK, NEW a \in Applies, NEW l, Advance(a, l)
  PROVE  tries' \in [Applies -> Tries] /\ change' = change
<1>1. 0 \in Tries
  BY UnleashApplyAssumption DEF Tries
<1>2. QED
  BY <1>1 DEF Advance, TypeOK, Tries

LEMMA ServerType ==
  ASSUME TypeOK, NEW a \in Applies, Proceed(a)
  PROVE  exists' \in BOOLEAN /\ copies' \in [Envs -> [Strategies -> Nat]] /\ on' \subseteq Envs
<1> USE DEF TypeOK, Request, server
<1>0. change[a].env \in Envs
  BY UnleashApplyAssumption DEF Change
<1>1. CASE GetFeature(a)
  BY <1>1 DEF GetFeature
<1>2. CASE UpdateFeature(a)
  BY <1>2 DEF UpdateFeature
<1>3. CASE CreateFeature(a)
  BY <1>3 DEF CreateFeature
<1>4. CASE AddStrategy(a)
  <2>1. /\ exists' = exists /\ on' = on
        /\ \/ copies' = copies
           \/ \E s : copies' = [copies EXCEPT ![change[a].env][s] = @ + 1]
    BY <1>4 DEF AddStrategy
  <2>2. ASSUME NEW s, copies' = [copies EXCEPT ![change[a].env][s] = @ + 1]
        PROVE  copies' \in [Envs -> [Strategies -> Nat]]
    <3> DEFINE e == change[a].env
               inner == [copies[e] EXCEPT ![s] = copies[e][s] + 1]
    <3>1. copies[e] \in [Strategies -> Nat]
      BY <1>0
    <3>2. inner \in [Strategies -> Nat]
      <4>1. s \in Strategies => copies[e][s] + 1 \in Nat
        BY <3>1
      <4> HIDE DEF e
      <4>2. QED
        BY <3>1, <4>1
    <3>3. copies' = [copies EXCEPT ![e] = inner]
      BY <2>2
    <3> HIDE DEF inner, e
    <3>4. QED
      BY <3>2, <3>3
  <2>3. QED
    BY <2>1, <2>2
<1>5. CASE ToggleEnvironment(a)
  BY <1>0, <1>5 DEF ToggleEnvironment, Toggled
<1>6. QED
  BY <1>1, <1>2, <1>3, <1>4, <1>5 DEF Proceed

LEMMA CallerType ==
  ASSUME TypeOK, NEW a \in Applies, Proceed(a)
  PROVE  /\ tries' \in [Applies -> Tries]
         /\ change' = change
         /\ added' \in [Applies -> Nat]
<1>1. CASE GetFeature(a) \/ UpdateFeature(a) \/ CreateFeature(a) \/ ToggleEnvironment(a)
  <2>1. added' = added /\ (Retry(a) \/ Fail(a) \/ \E l : Advance(a, l))
    BY <1>1 DEF GetFeature, UpdateFeature, CreateFeature, ToggleEnvironment, Request, Fail, Retry
  <2>2. QED
    BY <2>1, RetryType, AdvanceType DEF Fail, TypeOK, Tries
<1>2. CASE AddStrategy(a)
  <2>1. \/ added' = added /\ (Retry(a) \/ Fail(a))
        \/ added' = [added EXCEPT ![a] = @ + 1] /\ \E l : Advance(a, l)
    BY <1>2 DEF AddStrategy, Request, Fail, Retry
  <2>2. QED
    BY <2>1, RetryType, AdvanceType DEF Fail, TypeOK, Tries
<1>3. QED
  BY <1>1, <1>2 DEF Proceed

LEMMA ApplyTypeStep == TypeOK /\ [Next]_vars => TypeOK'
<1> SUFFICES ASSUME TypeOK, [Next]_vars
             PROVE  TypeOK'
  OBVIOUS
<1>1. CASE UNCHANGED vars
  BY <1>1 DEF vars, TypeOK
<1>2. ASSUME NEW a \in Applies, Call(a) PROVE TypeOK'
  BY <1>2 DEF Call, TypeOK, server
<1>3. ASSUME NEW a \in Applies, Proceed(a) PROVE TypeOK'
  <2>1. /\ reached' \subseteq Applies
        /\ pc' \in [Applies -> Labels]
    BY <1>3, ProceedMoves DEF Moves, TypeOK, Labels
  <2>2. QED
    BY <1>3, <2>1, ServerType, CallerType DEF TypeOK, Labels, Tries
<1>4. QED
  BY <1>1, <1>2, <1>3 DEF Next

LEMMA InitType == Init => TypeOK
<1>1. 0 \in 0..(Attempts - 1)
  BY UnleashApplyAssumption
<1>2. Init => /\ exists \in BOOLEAN
              /\ copies \in [Envs -> [Strategies -> Nat]]
              /\ on \subseteq Envs
  <2>1. Init => exists \in BOOLEAN /\ on \subseteq Envs
    BY DEF Init
  <2>2. [e \in Envs |-> [s \in Strategies |-> 0]] \in [Envs -> [Strategies -> Nat]]
    OBVIOUS
  <2>3. [Envs -> [Strategies -> 0..1]] \subseteq [Envs -> [Strategies -> Nat]]
    <3>1. [Strategies -> 0..1] \subseteq [Strategies -> Nat]
      OBVIOUS
    <3>2. QED
      BY <3>1
  <2>4. Init => copies \in [Envs -> [Strategies -> Nat]]
    BY <2>2, <2>3 DEF Init
  <2>5. QED
    BY <2>1, <2>4
<1>3. Init => /\ reached \subseteq Applies
              /\ pc \in [Applies -> Labels]
              /\ change \in [Applies -> Changes]
              /\ added \in [Applies -> Nat]
              /\ tries \in [Applies -> 0..(Attempts - 1)]
  BY <1>1 DEF Init, Labels
<1>4. QED
  BY <1>2, <1>3 DEF TypeOK, Labels

(* Every variable keeps its type; in particular no request is attempted    *)
(* more than Attempts times.                                               *)
THEOREM ApplyTypeCorrect == Spec => []TypeOK
BY InitType, ApplyTypeStep, PTL DEF Spec

-------------------------------------------------------------------------------
(* The refinement.                                                         *)

(* Seen from its caller, apply_change_request is the one step Governance   *)
(* takes it for: it ends once, and not normally before its change has      *)
(* reached Unleash.                                                        *)
THEOREM OneCallOneStep == Spec => ImplementsUnleashCall
<1> DEFINE result == [a \in Applies |-> IF pc[a] \in Ended THEN pc[a] ELSE "none"]
<1>1. Init => Abstract!Init
  BY DEF Init, Abstract!Init, Ended
<1>2. TypeOK /\ [Next]_vars => [Abstract!Next]_<< result, reached >>
  <2> SUFFICES ASSUME TypeOK, [Next]_vars
               PROVE  Abstract!Next \/ UNCHANGED << result, reached >>
    OBVIOUS
  <2>1. CASE UNCHANGED vars
    BY <2>1 DEF vars
  <2>2. ASSUME NEW a \in Applies, Call(a) PROVE UNCHANGED << result, reached >>
    BY <2>2 DEF Call, server, Ended, TypeOK
  <2>3. ASSUME NEW a \in Applies, Proceed(a) PROVE Abstract!Step(a)
    <3>1. Moves(a)
      BY <2>3, ProceedMoves
    <3>2. PICK l \in Labels : pc' = [pc EXCEPT ![a] = l] /\ (l = "ok" => a \in reached')
      BY <3>1 DEF Moves
    <3> DEFINE end == IF l \in Ended THEN l ELSE "none"
    <3>3. end \in {"none", "ok", "error"} /\ (end = "ok" => a \in reached')
      BY <3>2 DEF Ended
    <3>4. result' = [result EXCEPT ![a] = end]
      BY <3>2 DEF TypeOK
    <3>5. result[a] = "none" /\ reached' \in {reached, reached \cup {a}}
      BY <3>1 DEF Moves
    <3> HIDE DEF end
    <3>6. QED
      BY <3>3, <3>4, <3>5 DEF Abstract!Step
  <2>4. QED
    BY <2>1, <2>2, <2>3 DEF Next, Abstract!Next
<1>3. QED
  BY <1>1, <1>2, ApplyTypeCorrect, PTL DEF Spec, ImplementsUnleashCall, Abstract!Spec
-------------------------------------------------------------------------------
(***************************************************************************)
(* Sums over finite sets: SumFunctionOnSet picks the elements one by one,  *)
(* in an order of its own.  Every proof takes a smallest counterexample.   *)
(***************************************************************************)

LEMMA MinimalSubset ==
  ASSUME NEW S, IsFiniteSet(S), NEW Bad \in SUBSET SUBSET S, Bad # {}
  PROVE  \E T \in Bad : \A U \in Bad : U \subseteq T => U = T
<1>1. FiniteSubsetsOf(S) = SUBSET S
  BY FS_FiniteSubsetsOfFinite
<1>2. IsWellFoundedOn(StrictSubsetOrdering(S), SUBSET S)
  BY <1>1, FS_StrictSubsetOrderingWellFounded
<1>3. \E T \in Bad : \A U \in Bad : ~(<< U, T >> \in StrictSubsetOrdering(S))
  BY <1>2, WFMin, Zenon
<1>4. QED
  BY <1>3 DEF StrictSubsetOrdering

Pick(T) == CHOOSE x \in T : TRUE

(* g sums up w over every subset of S.                                     *)
Sums(g, w, S) ==
  g = [T \in SUBSET S |-> IF T = {} THEN 0 ELSE w[Pick(T)] + g[T \ {Pick(T)}]]

(* Two of them agree where both are defined.                               *)
LEMMA SumsAgree ==
  ASSUME NEW w, NEW A, NEW B, NEW g, NEW h, IsFiniteSet(A), B \subseteq A,
         Sums(g, w, A), Sums(h, w, B)
  PROVE  \A T \in SUBSET B : g[T] = h[T]
<1> DEFINE Bad == {T \in SUBSET A : T \subseteq B /\ g[T] # h[T]}
<1>1. SUFFICES ASSUME Bad # {} PROVE FALSE
  OBVIOUS
<1>2. PICK T \in Bad : \A U \in Bad : U \subseteq T => U = T
  <2>1. Bad \in SUBSET SUBSET A
    OBVIOUS
  <2> HIDE DEF Bad
  <2>2. QED
    BY <1>1, <2>1, MinimalSubset
<1> DEFINE U == T \ {Pick(T)}
<1>3. /\ g[T] = IF T = {} THEN 0 ELSE w[Pick(T)] + g[U]
      /\ h[T] = IF T = {} THEN 0 ELSE w[Pick(T)] + h[U]
  BY DEF Sums
<1>4. T # {} => Pick(T) \in T
  BY DEF Pick
<1>5. T # {} => g[U] = h[U]
  BY <1>2, <1>4
<1>6. QED
  BY <1>3, <1>5

(* There is one for every finite set: a smallest set without one could be  *)
(* given one that is put together from those of its subsets.               *)
LEMMA SumsExist ==
  ASSUME NEW w, NEW S, IsFiniteSet(S)
  PROVE  \E g : Sums(g, w, S)
<1> DEFINE Bad == {T \in SUBSET S : ~\E g : Sums(g, w, T)}
<1>1. SUFFICES ASSUME Bad # {} PROVE FALSE
  OBVIOUS
<1>2. PICK T \in Bad : \A U \in Bad : U \subseteq T => U = T
  <2>1. Bad \in SUBSET SUBSET S
    OBVIOUS
  <2> HIDE DEF Bad
  <2>2. QED
    BY <1>1, <2>1, MinimalSubset
<1> DEFINE Below(U) == CHOOSE g : Sums(g, w, U)
           Rest(U) == U \ {Pick(U)}
           g == [U \in SUBSET T |->
                   IF U = {} THEN 0 ELSE w[Pick(U)] + Below(Rest(U))[Rest(U)]]
<1>3. ASSUME NEW U \in SUBSET T, U # T PROVE Sums(Below(U), w, U)
  BY <1>2, <1>3
<1>4. ASSUME NEW U \in SUBSET T, U # {} PROVE Rest(U) \in SUBSET T /\ Rest(U) # T
  <2>1. Pick(U) \in U
    BY <1>4 DEF Pick
  <2>2. QED
    BY <2>1
<1>5. ASSUME NEW V \in SUBSET T, V # T PROVE g[V] = Below(V)[V]
  <2>1. Sums(Below(V), w, V)
    BY <1>3, <1>5
  <2>2. CASE V = {}
    BY <2>1, <2>2 DEF Sums
  <2>3. CASE V # {}
    <3>1. Sums(Below(Rest(V)), w, Rest(V))
      BY <1>3, <1>4, <2>3
    <3>2. IsFiniteSet(V)
      BY FS_Subset
    <3>3. Below(V)[Rest(V)] = Below(Rest(V))[Rest(V)]
      <4>1. Rest(V) \subseteq V
        OBVIOUS
      <4> HIDE DEF Below, Rest
      <4>2. QED
        BY <2>1, <3>1, <3>2, <4>1, SumsAgree
    <3>4. Below(V)[V] = w[Pick(V)] + Below(V)[Rest(V)]
      BY <2>1, <2>3 DEF Sums
    <3>5. QED
      BY <2>3, <3>3, <3>4
  <2>4. QED
    BY <2>2, <2>3
<1>6. Sums(g, w, T)
  <2>1. \A U \in SUBSET T : U # {} => g[Rest(U)] = Below(Rest(U))[Rest(U)]
    BY <1>4, <1>5
  <2>2. ASSUME NEW U \in SUBSET T
        PROVE  g[U] = IF U = {} THEN 0 ELSE w[Pick(U)] + g[U \ {Pick(U)}]
    <3>1. g[U] = IF U = {} THEN 0 ELSE w[Pick(U)] + Below(Rest(U))[Rest(U)]
      OBVIOUS
    <3>2. U # {} => g[U \ {Pick(U)}] = Below(Rest(U))[Rest(U)]
      BY <2>1
    <3> HIDE DEF g, Below, Rest
    <3>3. QED
      BY <3>1, <3>2
  <2>3. g = [U \in SUBSET T |-> g[U]]
    OBVIOUS
  <2> HIDE DEF g
  <2>4. QED
    BY <2>2, <2>3 DEF Sums
<1>7. QED
  BY <1>2, <1>6

LEMMA SumIs ==
  ASSUME NEW w, NEW S, IsFiniteSet(S)
  PROVE  \E g : Sums(g, w, S) /\ SumFunctionOnSet(w, S) = g[S]
<1> DEFINE h == CHOOSE g : Sums(g, w, S)
<1>1. Sums(h, w, S)
  BY SumsExist
<1>2. SumFunctionOnSet(w, S) = h[S]
  BY DEF SumFunctionOnSet, FoldFunctionOnSet, MapThenFoldSet, Sums, Pick
<1>3. QED
  BY <1>1, <1>2

(* The sum over a set is that over all but the picked element, and this.   *)
LEMMA SumOfRest ==
  ASSUME NEW w, NEW S, IsFiniteSet(S)
  PROVE  /\ S = {} => SumFunctionOnSet(w, S) = 0
         /\ S # {} => /\ Pick(S) \in S
                      /\ SumFunctionOnSet(w, S) =
                           w[Pick(S)] + SumFunctionOnSet(w, S \ {Pick(S)})
<1>1. PICK g : Sums(g, w, S) /\ SumFunctionOnSet(w, S) = g[S]
  BY SumIs
<1>2. CASE S = {}
  BY <1>1, <1>2 DEF Sums
<1>3. CASE S # {}
  <2> DEFINE R == S \ {Pick(S)}
  <2>1. Pick(S) \in S /\ IsFiniteSet(R)
    BY <1>3, FS_RemoveElement DEF Pick
  <2>2. PICK h : Sums(h, w, R) /\ SumFunctionOnSet(w, R) = h[R]
    BY <2>1, SumIs
  <2>3. g[R] = h[R]
    <3>1. R \subseteq S
      OBVIOUS
    <3> HIDE DEF R
    <3>2. QED
      BY <1>1, <2>2, <3>1, SumsAgree
  <2>4. g[S] = w[Pick(S)] + g[R]
    BY <1>1, <1>3 DEF Sums
  <2>5. QED
    BY <1>1, <1>3, <2>1, <2>2, <2>3, <2>4
<1>4. QED
  BY <1>2, <1>3

LEMMA SumIsNat ==
  ASSUME NEW S, IsFiniteSet(S), NEW w \in [S -> Nat], NEW T \in SUBSET S
  PROVE  SumFunctionOnSet(w, T) \in Nat
<1> DEFINE Bad == {U \in SUBSET S : SumFunctionOnSet(w, U) \notin Nat}
<1>1. SUFFICES ASSUME Bad # {} PROVE FALSE
  OBVIOUS
<1>2. PICK U \in Bad : \A V \in Bad : V \subseteq U => V = U
  <2>1. Bad \in SUBSET SUBSET S
    OBVIOUS
  <2> HIDE DEF Bad
  <2>2. QED
    BY <1>1, <2>1, MinimalSubset
<1>3. IsFiniteSet(U)
  BY FS_Subset
<1>4. U # {} /\ Pick(U) \in U
  <2>1. SumFunctionOnSet(w, U) # 0
    OBVIOUS
  <2>2. QED
    BY <1>3, <2>1, SumOfRest
<1>5. SumFunctionOnSet(w, U \ {Pick(U)}) \in Nat
  BY <1>2, <1>4
<1>6. QED
  BY <1>3, <1>4, <1>5, SumOfRest

(* The order in which the elements are picked does not matter.             *)
LEMMA SumWithElement ==
  ASSUME NEW S, IsFiniteSet(S), NEW w \in [S -> Nat], NEW T \in SUBSET S, NEW a \in T
  PROVE  SumFunctionOnSet(w, T) = w[a] + SumFunctionOnSet(w, T \ {a})
<1> DEFINE Ok(U) == \A x \in U : SumFunctionOnSet(w, U) = w[x] + SumFunctionOnSet(w, U \ {x})
           Bad == {U \in SUBSET S : ~Ok(U)}
<1>1. SUFFICES ASSUME Bad # {} PROVE FALSE
  OBVIOUS
<1>2. PICK U \in Bad : \A V \in Bad : V \subseteq U => V = U
  <2>1. Bad \in SUBSET SUBSET S
    OBVIOUS
  <2> HIDE DEF Bad
  <2>2. QED
    BY <1>1, <2>1, MinimalSubset
<1>3. PICK x \in U : SumFunctionOnSet(w, U) # w[x] + SumFunctionOnSet(w, U \ {x})
  OBVIOUS
<1> DEFINE p == Pick(U)
           R == (U \ {p}) \ {x}
<1>4. IsFiniteSet(U) /\ IsFiniteSet(U \ {x})
  BY FS_Subset
<1>5. p \in U /\ SumFunctionOnSet(w, U) = w[p] + SumFunctionOnSet(w, U \ {p})
  BY <1>4, SumOfRest
<1>6. p # x
  BY <1>3, <1>5
<1>7. SumFunctionOnSet(w, U \ {p}) = w[x] + SumFunctionOnSet(w, R)
  <2>1. Ok(U \ {p})
    BY <1>2, <1>5
  <2>2. QED
    BY <1>6, <2>1
<1>8. SumFunctionOnSet(w, U \ {x}) = w[p] + SumFunctionOnSet(w, R)
  <2>1. Ok(U \ {x})
    BY <1>2
  <2>2. (U \ {x}) \ {p} = R
    OBVIOUS
  <2>3. QED
    BY <1>5, <1>6, <2>1, <2>2
<1>9. w[p] \in Nat /\ w[x] \in Nat /\ SumFunctionOnSet(w, R) \in Nat
  <2>1. R \in SUBSET S
    OBVIOUS
  <2>2. QED
    BY <1>5, <2>1, SumIsNat
<1>10. QED
  BY <1>3, <1>5, <1>7, <1>8, <1>9

(* The sum is monotone in the summands.                                    *)
LEMMA SumOfLess ==
  ASSUME NEW S, IsFiniteSet(S), NEW v \in [S -> Nat], NEW w \in [S -> Nat],
         NEW T \in SUBSET S, \A x \in T : v[x] <= w[x]
  PROVE  SumFunctionOnSet(v, T) <= SumFunctionOnSet(w, T)
<1> DEFINE Bad == {U \in SUBSET S :
                     U \subseteq T /\ ~(SumFunctionOnSet(v, U) <= SumFunctionOnSet(w, U))}
<1>1. SUFFICES ASSUME Bad # {} PROVE FALSE
  OBVIOUS
<1>2. PICK U \in Bad : \A V \in Bad : V \subseteq U => V = U
  <2>1. Bad \in SUBSET SUBSET S
    OBVIOUS
  <2> HIDE DEF Bad
  <2>2. QED
    BY <1>1, <2>1, MinimalSubset
<1>3. IsFiniteSet(U)
  BY FS_Subset
<1>4. U # {}
  <2>1. ~(SumFunctionOnSet(v, U) = 0 /\ SumFunctionOnSet(w, U) = 0)
    OBVIOUS
  <2>2. QED
    BY <1>3, <2>1, SumOfRest
<1> DEFINE R == U \ {Pick(U)}
<1>5. /\ Pick(U) \in U
      /\ SumFunctionOnSet(v, U) = v[Pick(U)] + SumFunctionOnSet(v, R)
      /\ SumFunctionOnSet(w, U) = w[Pick(U)] + SumFunctionOnSet(w, R)
  BY <1>3, <1>4, SumOfRest
<1>6. SumFunctionOnSet(v, R) <= SumFunctionOnSet(w, R)
  BY <1>2, <1>5
<1>7. SumFunctionOnSet(v, R) \in Nat /\ SumFunctionOnSet(w, R) \in Nat
  <2>1. R \in SUBSET S
    OBVIOUS
  <2>2. QED
    BY <2>1, SumIsNat
<1>8. v[Pick(U)] \in Nat /\ w[Pick(U)] \in Nat /\ v[Pick(U)] <= w[Pick(U)]
  BY <1>5
<1>9. QED
  BY <1>5, <1>6, <1>7, <1>8

(* ... and in the set.                                                     *)
LEMMA SumOfSubset ==
  ASSUME NEW S, IsFiniteSet(S), NEW w \in [S -> Nat], NEW T \in SUBSET S
  PROVE  SumFunctionOnSet(w, T) <= SumFunctionOnSet(w, S)
<1> DEFINE Bad == {U \in SUBSET S :
                     T \subseteq U /\ ~(SumFunctionOnSet(w, T) <= SumFunctionOnSet(w, U))}
<1>1. SUFFICES ASSUME Bad # {} PROVE FALSE
  OBVIOUS
<1>2. PICK U \in Bad : \A V \in Bad : V \subseteq U => V = U
  <2>1. Bad \in SUBSET SUBSET S
    OBVIOUS
  <2> HIDE DEF Bad
  <2>2. QED
    BY <1>1, <2>1, MinimalSubset
<1>3. SumFunctionOnSet(w, T) \in Nat /\ SumFunctionOnSet(w, U) \in Nat
  BY SumIsNat
<1>4. PICK x \in U : x \notin T
  <2>1. SumFunctionOnSet(w, T) # SumFunctionOnSet(w, U)
    BY <1>3
  <2>2. T # U /\ T \subseteq U
    BY <2>1
  <2>3. QED
    BY <2>2
<1>5. SumFunctionOnSet(w, U) = w[x] + SumFunctionOnSet(w, U \ {x})
  BY SumWithElement
<1>6. SumFunctionOnSet(w, T) <= SumFunctionOnSet(w, U \ {x})
  BY <1>2, <1>4
<1>7. w[x] \in Nat /\ SumFunctionOnSet(w, U \ {x}) \in Nat
  BY SumIsNat
<1>8. QED
  BY <1>3, <1>5, <1>6, <1>7
(* Where only one summand changes, the sum changes by as much.             *)
LEMMA SumOfChanged ==
  ASSUME NEW S, IsFiniteSet(S), NEW v \in [S -> Nat], NEW w \in [S -> Nat], NEW a \in S,
         \A x \in S : x # a => v[x] = w[x]
  PROVE  /\ SumFunctionOnSet(v, S) \in Nat /\ SumFunctionOnSet(w, S) \in Nat
         /\ SumFunctionOnSet(w, S) + v[a] = SumFunctionOnSet(v, S) + w[a]
<1> DEFINE R == S \ {a}
<1>1. /\ SumFunctionOnSet(v, R) <= SumFunctionOnSet(w, R)
      /\ SumFunctionOnSet(w, R) <= SumFunctionOnSet(v, R)
  <2>1. R \in SUBSET S /\ \A x \in R : v[x] \in Nat /\ v[x] = w[x]
    OBVIOUS
  <2> HIDE DEF R
  <2>2. \A x \in R : v[x] <= w[x] /\ w[x] <= v[x]
    BY <2>1
  <2>3. QED
    BY <2>1, <2>2, SumOfLess
<1>2. /\ SumFunctionOnSet(v, S) = v[a] + SumFunctionOnSet(v, R)
      /\ SumFunctionOnSet(w, S) = w[a] + SumFunctionOnSet(w, R)
  BY SumWithElement
<1>3. /\ SumFunctionOnSet(v, R) \in Nat /\ SumFunctionOnSet(w, R) \in Nat
      /\ SumFunctionOnSet(v, S) \in Nat /\ SumFunctionOnSet(w, S) \in Nat
  <2>1. R \in SUBSET S
    OBVIOUS
  <2>2. QED
    BY <2>1, SumIsNat
<1>4. v[a] \in Nat /\ w[a] \in Nat
  OBVIOUS
<1>5. QED
  BY <1>1, <1>2, <1>3, <1>4

(* A common factor can be taken out.                                       *)
LEMMA SumOfMultiples ==
  ASSUME NEW S, IsFiniteSet(S), NEW w \in [S -> Nat], NEW k \in Nat
  PROVE  SumFunctionOnSet([x \in S |-> k * w[x]], S) = k * SumFunctionOnSet(w, S)
<1> DEFINE v == [x \in S |-> k * w[x]]
           Bad == {U \in SUBSET S : SumFunctionOnSet(v, U) # k * SumFunctionOnSet(w, U)}
<1>1. SUFFICES ASSUME Bad # {} PROVE FALSE
  OBVIOUS
<1>2. PICK U \in Bad : \A V \in Bad : V \subseteq U => V = U
  <2>1. Bad \in SUBSET SUBSET S
    OBVIOUS
  <2> HIDE DEF Bad
  <2>2. QED
    BY <1>1, <2>1, MinimalSubset
<1>3. IsFiniteSet(U)
  BY FS_Subset
<1> DEFINE x == Pick(U)
           R == U \ {x}
<1>4. U # {}
  <2>1. k * 0 = 0
    OBVIOUS
  <2>2. ~(SumFunctionOnSet(v, U) = 0 /\ SumFunctionOnSet(w, U) = 0)
    BY <2>1
  <2> HIDE DEF v
  <2>3. QED
    BY <1>3, <2>2, SumOfRest
<1>5. /\ x \in U
      /\ SumFunctionOnSet(v, U) = v[x] + SumFunctionOnSet(v, R)
      /\ SumFunctionOnSet(w, U) = w[x] + SumFunctionOnSet(w, R)
  <2> HIDE DEF v
  <2>1. QED
    BY <1>3, <1>4, SumOfRest
<1>6. SumFunctionOnSet(v, R) = k * SumFunctionOnSet(w, R)
  BY <1>2, <1>5
<1>7. v[x] = k * w[x] /\ w[x] \in Nat
  BY <1>5
<1>8. SumFunctionOnSet(w, R) \in Nat
  <2>1. R \in SUBSET S
    OBVIOUS
  <2>2. QED
    BY <2>1, SumIsNat
<1>9. \A m, n \in Nat : k * m + k * n = k * (m + n)
  OBVIOUS
<1> HIDE DEF v, x, R
<1>10. SumFunctionOnSet(v, U) = k * SumFunctionOnSet(w, U)
  BY <1>5, <1>6, <1>7, <1>8, <1>9
<1>11. QED
  BY <1>10

-------------------------------------------------------------------------------
(***************************************************************************)
(* How far an apply is, and what its requests have left in Unleash.        *)
(***************************************************************************)

(* Of the strategies of each apply, those that have been accepted.         *)
Accepted(e, s) == [a \in Applies |-> Asked(a, e, s, added[a])]

(* The most copies its requests can have made: Attempts for each accepted  *)
(* strategy, and one per attempt at the next one.                          *)
Extra(a, e, s) ==
  IF /\ change[a].env = e
     /\ added[a] < Len(change[a].strategies)
     /\ change[a].strategies[added[a] + 1] = s
  THEN CASE pc[a] = "strategy" -> tries[a]
         [] pc[a] = "error" -> Attempts
         [] OTHER -> 0
  ELSE 0

Spent(e, s) ==
  [a \in Applies |-> Attempts * Asked(a, e, s, added[a]) + Extra(a, e, s)]

Progress(a) ==
  LET n == Len(change[a].strategies)
  IN  /\ added[a] <= n
      /\ pc[a] \in {"idle", "get", "update", "create"} => added[a] = 0
      /\ pc[a] = "strategy" => added[a] < n
      /\ pc[a] \in {"toggle", "ok"} => added[a] = n
      /\ pc[a] \in {"update", "strategy", "toggle", "ok"} => exists

ProgressInv == \A a \in Applies : Progress(a)

CopiesInv ==
  \A e \in Envs, s \in Strategies :
    /\ copies[e][s] >= SumFunctionOnSet(Accepted(e, s), Applies)
    /\ copies[e][s] <= 1 + SumFunctionOnSet(Spent(e, s), Applies)

LEMMA ChangeType ==
  ASSUME TypeOK, NEW a \in Applies
  PROVE  /\ change[a].env \in Envs
         /\ change[a].strategies \in Seq(Strategies)
         /\ Len(change[a].strategies) \in Nat
         /\ change[a].enabled \in BOOLEAN
BY UnleashApplyAssumption DEF TypeOK, Change

LEMMA IndicesAreFinite ==
  ASSUME NEW n \in Nat, NEW T \in SUBSET (1..n)
  PROVE  IsFiniteSet(T) /\ Cardinality(T) \in Nat
<1>1. IsFiniteSet(1..n)
  BY FS_Interval
<1>2. QED
  BY <1>1, FS_Subset, FS_CardinalityType

LEMMA AskedType ==
  ASSUME NEW a, NEW e, NEW s, NEW n \in Nat
  PROVE  Asked(a, e, s, n) \in Nat /\ Asked(a, e, s, 0) = 0
<1>1. /\ IsFiniteSet({i \in 1..n : change[a].strategies[i] = s})
      /\ Cardinality({i \in 1..n : change[a].strategies[i] = s}) \in Nat
  BY IndicesAreFinite
<1>2. {i \in 1..0 : change[a].strategies[i] = s} = {}
  OBVIOUS
<1>3. QED
  BY <1>1, <1>2, FS_EmptySet DEF Asked

LEMMA AskedNext ==
  ASSUME NEW a, NEW e, NEW s, NEW n \in Nat
  PROVE  Asked(a, e, s, n + 1) =
           Asked(a, e, s, n) +
             IF change[a].env = e /\ change[a].strategies[n + 1] = s THEN 1 ELSE 0
<1> DEFINE I(m) == {i \in 1..m : change[a].strategies[i] = s}
<1>1. IsFiniteSet(I(n)) /\ Cardinality(I(n)) \in Nat
  BY IndicesAreFinite
<1>2. CASE change[a].strategies[n + 1] = s
  <2>1. I(n + 1) = I(n) \cup {n + 1} /\ n + 1 \notin I(n)
    BY <1>2
  <2>2. Cardinality(I(n + 1)) = Cardinality(I(n)) + 1
    <3> HIDE DEF I
    <3>1. QED
      BY <1>1, <2>1, FS_AddElement
  <2>3. QED
    BY <1>2, <2>2 DEF Asked
<1>3. CASE change[a].strategies[n + 1] # s
  <2>1. I(n + 1) = I(n)
    BY <1>3
  <2>2. QED
    BY <1>1, <1>3, <2>1 DEF Asked
<1>4. QED
  BY <1>2, <1>3

LEMMA AskedGrows ==
  ASSUME NEW a, NEW e, NEW s, NEW n \in Nat, NEW m \in Nat, n <= m
  PROVE  Asked(a, e, s, n) <= Asked(a, e, s, m)
<1> DEFINE I(k) == {i \in 1..k : change[a].strategies[i] = s}
<1>1. IsFiniteSet(I(m))
  BY IndicesAreFinite
<1>2. Cardinality(I(n)) <= Cardinality(I(m))
  <2>1. I(n) \in SUBSET I(m)
    OBVIOUS
  <2> HIDE DEF I
  <2>2. QED
    BY <1>1, <2>1, FS_Subset
<1>3. QED
  BY <1>2 DEF Asked

(* A request changes what is known of its own apply only.                  *)
LEMMA OthersStay ==
  ASSUME TypeOK, NEW a \in Applies, Proceed(a)
  PROVE  \A q \in Applies : q # a =>
           pc'[q] = pc[q] /\ added'[q] = added[q] /\ tries'[q] = tries[q]
<1>1. ASSUME \E l : pc' = [pc EXCEPT ![a] = l] PROVE \A q \in Applies : q # a => pc'[q] = pc[q]
  BY <1>1 DEF TypeOK
<1>2. \/ Retry(a) /\ added' = added
      \/ Fail(a)
      \/ \E l : Advance(a, l) /\ added' \in {added, [added EXCEPT ![a] = @ + 1]}
  BY DEF Proceed, GetFeature, UpdateFeature, CreateFeature, AddStrategy, ToggleEnvironment,
         Request, Retry, Fail
<1>3. QED
  BY <1>2 DEF Retry, Fail, Advance, TypeOK

(* Retrying leaves an apply where it is, a failure ends it.                *)
LEMMA RetryOrFail ==
  ASSUME TypeOK, NEW a \in Applies, Retry(a) \/ Fail(a)
  PROVE  /\ added' = added /\ change' = change
         /\ \/ pc' = pc /\ tries[a] + 1 < Attempts /\ tries'[a] = tries[a] + 1
            \/ pc'[a] = "error" /\ tries' = tries
BY DEF Retry, Fail, TypeOK

LEMMA ProgressStep ==
  ASSUME TypeOK, ProgressInv, NEW a \in Applies, Proceed(a)
  PROVE  ProgressInv'
<1>1. exists => exists'
  BY DEF Proceed, GetFeature, UpdateFeature, CreateFeature, AddStrategy, ToggleEnvironment,
         Request, server
<1>2. change' = change
  BY CallerType
<1>3. ASSUME NEW q \in Applies, q # a PROVE Progress(q)'
  BY <1>1, <1>2, <1>3, OthersStay DEF ProgressInv, Progress
<1>4. Progress(a)'
  <2>0. Progress(a) /\ added[a] \in Nat /\ Len(change[a].strategies) \in Nat
    BY ChangeType DEF ProgressInv, TypeOK
  <2>1. CASE Retry(a) \/ Fail(a)
    BY <1>1, <2>0, <2>1, RetryOrFail DEF Progress
  <2>2. ASSUME NEW n \in Nat, n <= Len(change[a].strategies), exists',
               Advance(a, AfterStrategies(a, n)), added'[a] = n
        PROVE  Progress(a)'
    BY <1>2, <2>0, <2>2 DEF Progress, Advance, AfterStrategies, TypeOK
  <2>3. CASE GetFeature(a) /\ ~(Retry(a) \/ Fail(a))
    <3>1. added' = added /\ exists' = exists /\ pc[a] = "get"
      BY <2>3 DEF GetFeature, Request, server
    <3>2. CASE ~exists
      BY <1>2, <2>0, <2>3, <3>1, <3>2 DEF GetFeature, Request, Advance, Progress, TypeOK
    <3>3. CASE exists /\ change[a].update
      BY <1>2, <2>0, <2>3, <3>1, <3>3 DEF GetFeature, Request, Advance, Progress, TypeOK
    <3>4. CASE exists /\ ~change[a].update
      <4>1. Advance(a, AfterStrategies(a, 0))
        BY <2>3, <3>4 DEF GetFeature, Request
      <4>2. QED
        BY <2>0, <2>2, <3>1, <3>4, <4>1 DEF Progress
    <3>5. QED
      BY <3>2, <3>3, <3>4
  <2>4. CASE (UpdateFeature(a) \/ CreateFeature(a)) /\ ~(Retry(a) \/ Fail(a))
    <3>1. Advance(a, AfterStrategies(a, 0)) /\ added' = added /\ pc[a] \in {"update", "create"}
      BY <2>4 DEF UpdateFeature, CreateFeature, Request
    <3>2. exists'
      BY <2>0, <2>4 DEF UpdateFeature, CreateFeature, Request, Progress
    <3>3. QED
      BY <2>0, <2>2, <3>1, <3>2 DEF Progress
  <2>5. CASE AddStrategy(a) /\ ~(Retry(a) \/ Fail(a))
    <3>1. /\ Advance(a, AfterStrategies(a, added[a] + 1)) /\ pc[a] = "strategy"
          /\ added' = [added EXCEPT ![a] = @ + 1]
      BY <2>5 DEF AddStrategy, Request
    <3>2. added'[a] = added[a] + 1
      BY <3>1 DEF TypeOK
    <3>3. QED
      BY <1>1, <2>0, <2>2, <3>1, <3>2 DEF Progress
  <2>6. CASE ToggleEnvironment(a) /\ ~(Retry(a) \/ Fail(a))
    <3>1. Advance(a, "ok") /\ added' = added /\ pc[a] = "toggle"
      BY <2>6 DEF ToggleEnvironment, Request
    <3>2. QED
      BY <1>1, <1>2, <2>0, <3>1 DEF Advance, Progress, TypeOK
  <2>7. QED
    BY <2>1, <2>3, <2>4, <2>5, <2>6 DEF Proceed
<1>5. QED
  BY <1>3, <1>4 DEF ProgressInv

(* One request adds at most one copy, and no more than it accounts for.    *)
LEMMA CopiesOfStep ==
  ASSUME TypeOK, ProgressInv, NEW a \in Applies, Proceed(a), NEW e \in Envs, NEW s \in Strategies
  PROVE  /\ copies'[e][s] + Asked(a, e, s, added[a]) >= copies[e][s] + Asked(a, e, s, added'[a])
         /\ copies'[e][s] + Spent(e, s)[a] <= copies[e][s] + Spent(e, s)'[a]
<1> DEFINE before == Attempts * Asked(a, e, s, added[a])
           after == Attempts * Asked(a, e, s, added'[a])
<1>1. /\ change' = change /\ added[a] \in Nat /\ Attempts \in Nat \ {0}
      /\ tries[a] \in 0..(Attempts - 1) /\ copies[e][s] \in Nat
      /\ copies' \in [Envs -> [Strategies -> Nat]]
      /\ added' \in [Applies -> Nat] /\ tries' \in [Applies -> 0..(Attempts - 1)]
  BY CallerType, ServerType, UnleashApplyAssumption DEF TypeOK, Tries
<1>2. /\ Asked(a, e, s, added[a]) \in Nat /\ Asked(a, e, s, added'[a]) \in Nat
      /\ before \in Nat /\ after \in Nat
  BY <1>1, AskedType
<1>3. /\ Spent(e, s)[a] = before + Extra(a, e, s)
      /\ Spent(e, s)'[a] = after + Extra(a, e, s)'
  BY <1>1 DEF Spent, Asked
<1>4. Extra(a, e, s)' \in Nat
  BY <1>1 DEF Extra
<1>5. CASE ~AddStrategy(a)
  <2>1. copies' = copies /\ added' = added /\ pc[a] \notin {"strategy", "error"}
    BY <1>5 DEF Proceed, GetFeature, UpdateFeature, CreateFeature, ToggleEnvironment,
       Request, Retry, Fail, Advance, server
  <2>2. Extra(a, e, s) = 0
    BY <2>1 DEF Extra
  <2>3. QED
    BY <1>1, <1>2, <1>3, <1>4, <2>1, <2>2
<1>6. CASE AddStrategy(a)
  <2> DEFINE mine == change[a].env = e /\ change[a].strategies[added[a] + 1] = s
  <2>1. pc[a] = "strategy" /\ added[a] < Len(change[a].strategies)
    BY <1>6 DEF AddStrategy, ProgressInv, Progress
  <2>2. Extra(a, e, s) = IF mine THEN tries[a] ELSE 0
    BY <2>1 DEF Extra
  <2>3. \/ copies'[e][s] = copies[e][s]
        \/ copies'[e][s] = copies[e][s] + (IF mine THEN 1 ELSE 0)
    <3>1. \/ copies' = copies
          \/ copies' = [copies EXCEPT ![change[a].env][change[a].strategies[added[a] + 1]] = @ + 1]
      BY <1>6 DEF AddStrategy, Request, server
    <3>2. QED
      BY <3>1 DEF TypeOK
  <2>4. CASE Retry(a) \/ Fail(a)
    <3>1. added' = added
      BY <2>4, RetryOrFail
    <3>2. Extra(a, e, s)' >= Extra(a, e, s) + (IF mine THEN 1 ELSE 0)
      <4>1. CASE pc' = pc /\ tries'[a] = tries[a] + 1
        BY <1>1, <2>1, <2>2, <3>1, <4>1 DEF Extra
      <4>2. CASE pc'[a] = "error"
        BY <1>1, <2>1, <2>2, <3>1, <4>2 DEF Extra
      <4>3. QED
        BY <2>4, <4>1, <4>2, RetryOrFail
    <3>3. Extra(a, e, s) \in Nat
      BY <1>1, <2>2
    <3>4. QED
      BY <1>1, <1>2, <1>3, <1>4, <2>3, <3>1, <3>2, <3>3
  <2>5. CASE ~(Retry(a) \/ Fail(a))
    <3>1. added'[a] = added[a] + 1
      BY <1>6, <2>5 DEF AddStrategy, Request, TypeOK
    <3>2. Asked(a, e, s, added'[a]) = Asked(a, e, s, added[a]) + (IF mine THEN 1 ELSE 0)
      BY <1>1, <3>1, AskedNext
    <3>3. copies'[e][s] = copies[e][s] + (IF mine THEN 1 ELSE 0)
      <4>1. copies' = [copies EXCEPT ![change[a].env][change[a].strategies[added[a] + 1]] = @ + 1]
        BY <1>6, <2>5 DEF AddStrategy, Request
      <4>2. QED
        BY <4>1 DEF TypeOK
    <3>4. after = before + (IF mine THEN Attempts ELSE 0)
      <4>1. \A n \in Nat : Attempts * (n + 1) = Attempts * n + Attempts
        BY <1>1
      <4>2. QED
        BY <1>1, <1>2, <3>2, <4>1
    <3> HIDE DEF before, after, mine
    <3>5. QED
      BY <1>1, <1>2, <1>3, <1>4, <2>2, <3>2, <3>3, <3>4
  <2>6. QED
    BY <2>4, <2>5
<1>7. QED
  BY <1>5, <1>6

LEMMA SummandsAreNat ==
  ASSUME TypeOK, NEW e \in Envs, NEW s \in Strategies
  PROVE  /\ Accepted(e, s) \in [Applies -> Nat]
         /\ Spent(e, s) \in [Applies -> Nat]
         /\ AskedInAll(e, s) \in [Applies -> Nat]
<1> SUFFICES ASSUME NEW a \in Applies
             PROVE  /\ Asked(a, e, s, added[a]) \in Nat
                    /\ Attempts * Asked(a, e, s, added[a]) + Extra(a, e, s) \in Nat
                    /\ Asked(a, e, s, Len(change[a].strategies)) \in Nat
  BY DEF Accepted, Spent, AskedInAll
<1>1. added[a] \in Nat /\ tries[a] \in Nat /\ Attempts \in Nat
  BY UnleashApplyAssumption DEF TypeOK
<1>2. Asked(a, e, s, added[a]) \in Nat /\ Asked(a, e, s, Len(change[a].strategies)) \in Nat
  BY <1>1, ChangeType, AskedType
<1>3. Extra(a, e, s) \in Nat
  BY <1>1 DEF Extra
<1>4. QED
  BY <1>1, <1>2, <1>3

LEMMA CopiesStep ==
  ASSUME TypeOK, TypeOK', ProgressInv, CopiesInv, NEW a \in Applies, Proceed(a)
  PROVE  CopiesInv'
<1> SUFFICES ASSUME NEW e \in Envs, NEW s \in Strategies
             PROVE  /\ copies'[e][s] >= SumFunctionOnSet(Accepted(e, s), Applies)'
                    /\ copies'[e][s] <= 1 + SumFunctionOnSet(Spent(e, s), Applies)'
  BY DEF CopiesInv
<1> DEFINE v == Accepted(e, s)
           w == Spent(e, s)
           x == [q \in Applies |-> Asked(q, e, s, added'[q])]
           y == w'
<1>1. v \in [Applies -> Nat] /\ w \in [Applies -> Nat]
  BY SummandsAreNat
<1>2. change' = change
  BY CallerType
<1>3. (SumFunctionOnSet(Accepted(e, s), Applies))' = SumFunctionOnSet(x, Applies)
  BY <1>2 DEF Accepted, Asked
<1>4. x \in [Applies -> Nat] /\ y \in [Applies -> Nat]
  <2>1. (TypeOK => Accepted(e, s) \in [Applies -> Nat] /\ Spent(e, s) \in [Applies -> Nat])'
    BY SummandsAreNat, PTL
  <2>2. Accepted(e, s)' = x
    BY <1>2 DEF Accepted, Asked
  <2>3. QED
    BY <2>1, <2>2
<1>5. \A q \in Applies : q # a => v[q] = x[q] /\ w[q] = y[q]
  BY <1>2, OthersStay DEF Accepted, Spent, Extra, Asked
<1>6. /\ copies'[e][s] + v[a] >= copies[e][s] + x[a]
      /\ copies'[e][s] + w[a] <= copies[e][s] + y[a]
  <2>1. v[a] = Asked(a, e, s, added[a]) /\ x[a] = Asked(a, e, s, added'[a])
    BY DEF Accepted
  <2>2. QED
    BY <2>1, CopiesOfStep
<1>7. copies[e][s] \in Nat /\ copies'[e][s] \in Nat
  BY DEF TypeOK
<1>8. /\ copies[e][s] >= SumFunctionOnSet(v, Applies)
      /\ copies[e][s] <= 1 + SumFunctionOnSet(w, Applies)
  BY DEF CopiesInv
<1>0. IsFiniteSet(Applies)
  BY UnleashApplyAssumption
<1> HIDE DEF v, w, x, y
<1>9. /\ SumFunctionOnSet(v, Applies) \in Nat /\ SumFunctionOnSet(x, Applies) \in Nat
      /\ SumFunctionOnSet(x, Applies) + v[a] = SumFunctionOnSet(v, Applies) + x[a]
  BY <1>0, <1>1, <1>4, <1>5, SumOfChanged
<1>10. /\ SumFunctionOnSet(w, Applies) \in Nat /\ SumFunctionOnSet(y, Applies) \in Nat
       /\ SumFunctionOnSet(y, Applies) + w[a] = SumFunctionOnSet(w, Applies) + y[a]
  BY <1>0, <1>1, <1>4, <1>5, SumOfChanged
<1>11. v[a] \in Nat /\ w[a] \in Nat /\ x[a] \in Nat /\ y[a] \in Nat
  BY <1>1, <1>4
<1>12. copies'[e][s] >= SumFunctionOnSet(x, Applies)
  BY <1>6, <1>7, <1>8, <1>9, <1>11
<1>13. copies'[e][s] <= 1 + SumFunctionOnSet(y, Applies)
  BY <1>6, <1>7, <1>8, <1>10, <1>11
<1>14. QED
  BY <1>3, <1>12, <1>13 DEF y, w

LEMMA InitCounts == Init => ProgressInv /\ CopiesInv
<1> SUFFICES ASSUME Init PROVE ProgressInv /\ CopiesInv
  OBVIOUS
<1>1. TypeOK
  BY InitType
<1>2. ProgressInv
  BY <1>1, ChangeType DEF Init, ProgressInv, Progress
<1>3. ASSUME NEW e \in Envs, NEW s \in Strategies
      PROVE  /\ copies[e][s] >= SumFunctionOnSet(Accepted(e, s), Applies)
             /\ copies[e][s] <= 1 + SumFunctionOnSet(Spent(e, s), Applies)
  <2>1. copies[e][s] \in 0..1
    BY DEF Init
  <2>2. SumFunctionOnSet(Spent(e, s), Applies) \in Nat
    BY <1>1, SummandsAreNat, SumIsNat, UnleashApplyAssumption
  <2>3. Accepted(e, s) = [a \in Applies |-> 0]
    BY AskedType DEF Init, Accepted
  <2>4. SumFunctionOnSet([a \in Applies |-> 0], Applies) = 0
    <3> DEFINE z == [a \in Applies |-> 0]
    <3>1. z \in [Applies -> Nat] /\ z = [a \in Applies |-> 0 * z[a]]
      OBVIOUS
    <3>2. SumFunctionOnSet([a \in Applies |-> 0 * z[a]], Applies) = 0 * SumFunctionOnSet(z, Applies)
      <4> HIDE DEF z
      <4>1. QED
        BY <3>1, SumOfMultiples, UnleashApplyAssumption
    <3>3. SumFunctionOnSet(z, Applies) \in Nat
      BY SumIsNat, UnleashApplyAssumption
    <3>4. QED
      BY <3>1, <3>2, <3>3
  <2>5. QED
    BY <2>1, <2>2, <2>3, <2>4
<1>4. QED
  BY <1>2, <1>3 DEF CopiesInv

(* How far a call has got is what it has added so far, and a strategy is   *)
(* in Unleash as often as the calls together have added it.                *)
THEOREM CopiesAreCounted == Spec => [](ProgressInv /\ CopiesInv)
<1>1. TypeOK /\ TypeOK' /\ ProgressInv /\ CopiesInv /\ [Next]_vars => (ProgressInv /\ CopiesInv)'
  <2> SUFFICES ASSUME TypeOK, TypeOK', ProgressInv, CopiesInv, [Next]_vars
               PROVE  (ProgressInv /\ CopiesInv)'
    OBVIOUS
  <2>1. CASE UNCHANGED vars
    BY <2>1 DEF vars, ProgressInv, Progress, CopiesInv, Accepted, Spent, Extra, Asked
  <2>2. ASSUME NEW a \in Applies, Call(a) PROVE (ProgressInv /\ CopiesInv)'
    <3>1. UNCHANGED << server, change, added, tries >> /\ pc[a] = "idle" /\ pc' = [pc EXCEPT ![a] = "get"]
      BY <2>2 DEF Call
    <3>2. ProgressInv'
      BY <3>1 DEF ProgressInv, Progress, TypeOK, server
    <3>3. \A e, s : \A q \in Applies : Extra(q, e, s)' = Extra(q, e, s)
      BY <3>1 DEF Extra, TypeOK
    <3>4. \A e, s : Accepted(e, s)' = Accepted(e, s) /\ Spent(e, s)' = Spent(e, s)
      BY <3>1, <3>3 DEF Accepted, Spent, Asked
    <3>5. QED
      BY <3>1, <3>2, <3>4 DEF CopiesInv, server
  <2>3. ASSUME NEW a \in Applies, Proceed(a) PROVE (ProgressInv /\ CopiesInv)'
    BY <2>3, ProgressStep, CopiesStep
  <2>4. QED
    BY <2>1, <2>2, <2>3 DEF Next
<1>2. QED
  BY <1>1, InitCounts, ApplyTypeCorrect, PTL DEF Spec

LEMMA SumsOfState ==
  ASSUME TypeOK, ProgressInv, CopiesInv, NEW e \in Envs, NEW s \in Strategies
  PROVE  /\ copies[e][s] \in Nat
         /\ \A Q \in SUBSET Applies :
              (\A q \in Q : added[q] = Len(change[q].strategies)) =>
                copies[e][s] >= SumFunctionOnSet(AskedInAll(e, s), Q)
         /\ copies[e][s] <= 1 + Attempts * SumFunctionOnSet(AskedInAll(e, s), Applies)
<1> DEFINE v == Accepted(e, s)
           w == Spent(e, s)
           x == AskedInAll(e, s)
           y == [a \in Applies |-> Attempts * x[a]]
<1>1. v \in [Applies -> Nat] /\ w \in [Applies -> Nat] /\ x \in [Applies -> Nat]
  BY SummandsAreNat
<1>2. y \in [Applies -> Nat] /\ Attempts \in Nat /\ IsFiniteSet(Applies)
  BY <1>1, UnleashApplyAssumption
<1>3. /\ copies[e][s] \in Nat
      /\ copies[e][s] >= SumFunctionOnSet(v, Applies)
      /\ copies[e][s] <= 1 + SumFunctionOnSet(w, Applies)
  BY DEF TypeOK, CopiesInv
<1>4. ASSUME NEW Q \in SUBSET Applies, \A q \in Q : added[q] = Len(change[q].strategies)
      PROVE  copies[e][s] >= SumFunctionOnSet(x, Q)
  <2>1. \A q \in Q : x[q] <= v[q]
    <3> SUFFICES ASSUME NEW q \in Q PROVE x[q] <= v[q]
      OBVIOUS
    <3>1. x[q] = v[q]
      BY <1>4 DEF Accepted, AskedInAll
    <3> HIDE DEF v, x
    <3>2. QED
      BY <1>1, <3>1
  <2> HIDE DEF v, w, x, y
  <2>2. SumFunctionOnSet(x, Q) <= SumFunctionOnSet(v, Q)
    BY <1>1, <1>2, <2>1, SumOfLess
  <2>3. SumFunctionOnSet(v, Q) <= SumFunctionOnSet(v, Applies)
    BY <1>1, <1>2, SumOfSubset
  <2>4. /\ SumFunctionOnSet(x, Q) \in Nat /\ SumFunctionOnSet(v, Q) \in Nat
        /\ SumFunctionOnSet(v, Applies) \in Nat
    BY <1>1, <1>2, SumIsNat
  <2>5. QED
    BY <1>3, <2>2, <2>3, <2>4
<1>5. ASSUME NEW a \in Applies PROVE w[a] <= y[a]
  <2> DEFINE n == Asked(a, e, s, added[a])
             m == Asked(a, e, s, Len(change[a].strategies))
  <2>1. added[a] \in Nat /\ Len(change[a].strategies) \in Nat /\ added[a] <= Len(change[a].strategies)
    BY ChangeType DEF TypeOK, ProgressInv, Progress
  <2>2. n \in Nat /\ m \in Nat /\ n <= m
    BY <2>1, AskedType, AskedGrows
  <2>3. w[a] = Attempts * n + Extra(a, e, s) /\ y[a] = Attempts * m
    BY DEF Spent, AskedInAll
  <2>4. CASE Extra(a, e, s) = 0
    <3> HIDE DEF n, m, w, y
    <3>1. Attempts * n <= Attempts * m
      BY <1>2, <2>2
    <3>2. QED
      BY <1>2, <2>2, <2>3, <2>4, <3>1
  <2>5. CASE Extra(a, e, s) # 0
    <3>1. /\ change[a].env = e /\ added[a] < Len(change[a].strategies)
          /\ change[a].strategies[added[a] + 1] = s
      BY <2>5 DEF Extra
    <3>2. tries[a] \in 0..(Attempts - 1)
      BY DEF TypeOK
    <3>3. Extra(a, e, s) \in Nat /\ Extra(a, e, s) <= Attempts
      BY <1>2, <3>2 DEF Extra
    <3>4. n + 1 <= m
      <4>1. Asked(a, e, s, added[a] + 1) = n + 1
        BY <2>1, <3>1, AskedNext
      <4>2. Asked(a, e, s, added[a] + 1) <= m
        BY <2>1, <3>1, AskedGrows
      <4>3. QED
        BY <4>1, <4>2
    <3> HIDE DEF n, m, w, y
    <3>5. Attempts * (n + 1) <= Attempts * m
      BY <1>2, <2>2, <3>4
    <3>6. Attempts * (n + 1) = Attempts * n + Attempts
      BY <1>2, <2>2
    <3>7. QED
      BY <1>2, <2>2, <2>3, <3>3, <3>5, <3>6
  <2>6. QED
    BY <2>4, <2>5
<1>6. copies[e][s] <= 1 + Attempts * SumFunctionOnSet(x, Applies)
  <2>1. SumFunctionOnSet(y, Applies) = Attempts * SumFunctionOnSet(x, Applies)
    <3> HIDE DEF x
    <3>1. QED
      BY <1>1, <1>2, SumOfMultiples
  <2> HIDE DEF v, w, x, y
  <2>2. SumFunctionOnSet(w, Applies) <= SumFunctionOnSet(y, Applies)
    BY <1>1, <1>2, <1>5, SumOfLess
  <2>3. SumFunctionOnSet(w, Applies) \in Nat /\ SumFunctionOnSet(y, Applies) \in Nat
    BY <1>1, <1>2, SumIsNat
  <2>4. QED
    BY <1>3, <2>1, <2>2, <2>3
<1>7. QED
  BY <1>3, <1>4, <1>6

(* Nothing that was accepted is lost, whatever runs at the same time: what *)
(* an apply that has returned asked for is there, once for each apply that *)
(* asked for it.                                                           *)
THEOREM OkMeansApplied == Spec => []OkIsApplied
<1>1. TypeOK /\ ProgressInv /\ CopiesInv => OkIsApplied
  <2> SUFFICES ASSUME TypeOK, ProgressInv, CopiesInv, NEW a \in Applies, pc[a] = "ok"
               PROVE  /\ exists
                      /\ \A s \in Strategies :
                           copies[change[a].env][s] >=
                             SumFunctionOnSet(AskedInAll(change[a].env, s),
                                              {q \in Applies : pc[q] = "ok"})
    BY DEF OkIsApplied
  <2>1. exists
    BY DEF ProgressInv, Progress
  <2>2. \A q \in {q \in Applies : pc[q] = "ok"} : added[q] = Len(change[q].strategies)
    BY DEF ProgressInv, Progress
  <2>3. change[a].env \in Envs
    BY ChangeType
  <2>4. QED
    BY <2>1, <2>2, <2>3, SumsOfState
<1>2. QED
  BY <1>1, ApplyTypeCorrect, CopiesAreCounted, PTL

(* Retries duplicate a strategy at most Attempts times.                    *)
THEOREM FewDuplicates == Spec => []DuplicatesAreBounded
<1>1. TypeOK /\ ProgressInv /\ CopiesInv => DuplicatesAreBounded
  BY SumsOfState DEF DuplicatesAreBounded
<1>2. QED
  BY <1>1, ApplyTypeCorrect, CopiesAreCounted, PTL

-------------------------------------------------------------------------------
(* Switching on.                                                           *)

LEMMA OnStep ==
  ASSUME TypeOK, NEW a \in Applies, Proceed(a), on' # on
  PROVE  pc[a] = "toggle" /\ on' = Toggled(a)
BY DEF Proceed, GetFeature, UpdateFeature, CreateFeature, AddStrategy, ToggleEnvironment,
       Request, server

(* An apply at its toggle stays there or ends; it ends well only when the  *)
(* environment is as it asked.                                             *)
LEMMA ToggleLast ==
  ASSUME TypeOK, NEW a \in Applies, Proceed(a)
  PROVE  /\ pc[a] \in {"toggle"} \cup Ended => pc'[a] \in {"toggle"} \cup Ended
         /\ pc'[a] = "ok" => on' = Toggled(a)
<1> USE DEF Request, Retry, Fail, Advance, Ended, TypeOK
<1>1. CASE GetFeature(a) \/ UpdateFeature(a) \/ CreateFeature(a)
  BY <1>1 DEF GetFeature, UpdateFeature, CreateFeature, AfterStrategies
<1>2. CASE AddStrategy(a)
  BY <1>2 DEF AddStrategy, AfterStrategies
<1>3. CASE ToggleEnvironment(a)
  BY <1>3 DEF ToggleEnvironment
<1>4. QED
  BY <1>1, <1>2, <1>3 DEF Proceed

(* No environment is enabled before the strategies that were to limit the  *)
(* feature there are in place.                                             *)
THEOREM NotOnTooEarly == Spec => OnOnlyWithStrategies
<1> DEFINE A == \A e \in on' \ on : \E a \in Applies :
                  /\ change[a].env = e /\ change[a].enabled
                  /\ \A s \in Strategies : copies[e][s] >= AskedInAll(e, s)[a]
<1>1. ASSUME TypeOK, ProgressInv, CopiesInv, Next PROVE A
  <2> SUFFICES ASSUME NEW e \in on', e \notin on
               PROVE  \E a \in Applies :
                        /\ change[a].env = e /\ change[a].enabled
                        /\ \A s \in Strategies : copies[e][s] >= AskedInAll(e, s)[a]
    OBVIOUS
  <2>1. PICK a \in Applies : Proceed(a)
    BY <1>1 DEF Next, Call, server
  <2>2. pc[a] = "toggle" /\ change[a].env = e /\ change[a].enabled
    BY <1>1, <2>1, OnStep DEF Toggled
  <2>3. e \in Envs
    BY <1>1, <2>2, ChangeType
  <2>4. ASSUME NEW s \in Strategies PROVE copies[e][s] >= AskedInAll(e, s)[a]
    <3> DEFINE x == AskedInAll(e, s)
    <3>1. added[a] = Len(change[a].strategies)
      BY <1>1, <2>2 DEF ProgressInv, Progress
    <3>2. copies[e][s] \in Nat /\ copies[e][s] >= SumFunctionOnSet(x, {a})
      BY <1>1, <2>3, <3>1, SumsOfState
    <3>3. x \in [Applies -> Nat]
      BY <1>1, <2>3, SummandsAreNat
    <3> HIDE DEF x
    <3>4. /\ SumFunctionOnSet(x, {a}) = x[a] + SumFunctionOnSet(x, {a} \ {a})
          /\ SumFunctionOnSet(x, {a} \ {a}) \in Nat
      BY <3>3, SumWithElement, SumIsNat, UnleashApplyAssumption
    <3>5. x[a] \in Nat
      BY <3>3
    <3>6. copies[e][s] >= x[a]
      BY <3>2, <3>4, <3>5
    <3>7. QED
      BY <3>6 DEF x
  <2>5. QED
    BY <2>2, <2>4
<1>2. TypeOK /\ ProgressInv /\ CopiesInv /\ [Next]_vars => [A]_vars
  BY <1>1
<1>3. QED
  BY <1>2, ApplyTypeCorrect, CopiesAreCounted, PTL DEF Spec, OnOnlyWithStrategies

(* After an apply has returned, its environment is as it asked, unless an  *)
(* apply that wants the opposite has got as far as its own toggle.         *)
THEOREM AsAsked == Spec => []OnAsAsked
<1>1. Init => OnAsAsked
  BY DEF Init, OnAsAsked
<1>2. TypeOK /\ OnAsAsked /\ [Next]_vars => OnAsAsked'
  <2> SUFFICES ASSUME TypeOK, OnAsAsked, [Next]_vars, NEW a \in Applies, pc'[a] = "ok",
                      (change'[a].env \in on') # change'[a].enabled
               PROVE  \E q \in Applies :
                        /\ change'[q].env = change'[a].env
                        /\ change'[q].enabled # change'[a].enabled
                        /\ pc'[q] \in {"toggle"} \cup Ended
    BY DEF OnAsAsked
  <2>1. CASE UNCHANGED vars
    BY <2>1 DEF vars, OnAsAsked
  <2>2. ASSUME NEW b \in Applies, Call(b)
        PROVE  \E q \in Applies :
                 /\ change'[q].env = change'[a].env
                 /\ change'[q].enabled # change'[a].enabled
                 /\ pc'[q] \in {"toggle"} \cup Ended
    BY <2>2 DEF Call, server, TypeOK, OnAsAsked, Ended
  <2>3. ASSUME NEW b \in Applies, Proceed(b)
        PROVE  \E q \in Applies :
                 /\ change'[q].env = change'[a].env
                 /\ change'[q].enabled # change'[a].enabled
                 /\ pc'[q] \in {"toggle"} \cup Ended
    <3>1. change' = change /\ \A q \in Applies : q # b => pc'[q] = pc[q]
      BY <2>3, CallerType, OthersStay
    <3>2. \A q \in Applies : pc[q] \in {"toggle"} \cup Ended => pc'[q] \in {"toggle"} \cup Ended
      BY <2>3, <3>1, ToggleLast
    <3>3. a # b /\ pc[a] = "ok"
      <4>1. change[a].enabled \in BOOLEAN
        BY ChangeType
      <4>2. a # b
        BY <2>3, <3>1, <4>1, ToggleLast DEF Toggled
      <4>3. QED
        BY <3>1, <4>2
    <3>4. CASE (change[a].env \in on) # change[a].enabled
      BY <3>1, <3>2, <3>3, <3>4 DEF OnAsAsked
    <3>5. CASE (change[a].env \in on) = change[a].enabled
      <4>1. pc[b] = "toggle" /\ on' = Toggled(b)
        BY <2>3, <3>1, <3>5, OnStep
      <4>2. change[b].enabled \in BOOLEAN /\ change[a].enabled \in BOOLEAN
        BY ChangeType
      <4>3. change[b].env = change[a].env /\ change[b].enabled # change[a].enabled
        BY <3>1, <3>5, <4>1, <4>2 DEF Toggled
      <4>4. QED
        BY <3>1, <3>2, <4>1, <4>3
    <3>6. QED
      BY <3>4, <3>5
  <2>4. QED
    BY <2>1, <2>2, <2>3 DEF Next
<1>3. QED
  BY <1>1, <1>2, ApplyTypeCorrect, PTL DEF Spec

==============================================================================

--------------------------- MODULE HouseholdProofs ---------------------------
(***************************************************************************)
(* Proofs about what a household keeps: the plan builder's budget          *)
(* (PlanBuilder), the four ways to buy a basket (BasketOptimizer), the     *)
(* pantry's log (Pantry), what the pantry leaves to buy (Baskets), what    *)
(* the assistant is shown (Assistant), what is planned to be eaten         *)
(* (MealPlans), what is forecast, summed up and recommended (Insights):    *)
(* for any pool of candidates, days, meals and budget, any stores, offers  *)
(* and requirements, any items, recipes, names and chats, any dishes,      *)
(* prices and plans, any histories and purchases.                          *)
(*                                                                         *)
(* Sums and choices over finite sets have no induction rule that can be    *)
(* instantiated here; an argument by induction is one about the least      *)
(* counterexample instead (LeastSubset, LeastNat).                         *)
(***************************************************************************)
EXTENDS PlanBuilder, BasketOptimizer, Assistant, MealPlans, Insights,
        FiniteSetTheorems, SequenceTheorems, WellFoundedInduction, TLAPS

-----------------------------------------------------------------------------
\* The plan builder.

\* The draft is what a builder may be called with, and cheapest is the least
\* cost of its pool.
DraftOK ==
    /\ Opts.days \in Nat /\ Opts.meals \in 1..4 /\ Opts.budget \in Nat \cup {NoLimit}
    /\ \A k \in DOMAIN Pool : Pool[k].cost \in Nat
    /\ cheapest \in Nat
    /\ SlotsLeft # 0 => \E k \in DOMAIN Pool : Pool[k].cost = cheapest
    /\ \A k \in DOMAIN Pool : cheapest <= Pool[k].cost

CountsOK ==
    /\ filled \in Seq(DOMAIN Pool) /\ SlotsLeft \in Nat
    /\ spent \in Nat /\ overruns \in Nat

\* A budget that the cheapest plan meets can still be met with what is left.
RoomLeft ==
    Opts.budget # NoLimit /\ TotalSlots * cheapest <= Opts.budget =>
       /\ spent + SlotsLeft * cheapest <= Opts.budget
       /\ overruns = 0

PlanInv == DraftOK /\ CountsOK /\ RoomLeft

\* What the options are.
LEMMA OptsOK ==
    DraftOK => /\ Opts.days \in Nat /\ Opts.meals \in 1..4
               /\ Opts.budget \in Nat \cup {NoLimit}
               /\ TotalSlots \in Nat
               /\ \A k \in DOMAIN Pool : Pool[k].cost \in Nat
BY DEF DraftOK, TotalSlots

\* Before the first call.
LEMMA InitPlanInv == BuilderInit => PlanInv
<1> SUFFICES ASSUME BuilderInit PROVE PlanInv
    OBVIOUS
<1>1. Pool = <<>> /\ Opts = Idle.opts /\ TotalSlots = 0 /\ filled = <<>>
    BY DEF BuilderInit, Idle, Pool, Opts, TotalSlots
<1>2. Len(filled) = 0 /\ SlotsLeft = 0
    <2>1. filled = <<>>
        BY <1>1
    <2>2. Len(filled) = 0
        BY <2>1
    <2>3. TotalSlots = 0
        BY <1>1
    <2> QED  BY <2>2, <2>3 DEF SlotsLeft
<1>3. DraftOK
    BY <1>1, <1>2 DEF DraftOK, BuilderInit, Idle
<1>4. CountsOK
    BY <1>1, <1>2 DEF CountsOK, BuilderInit
<1>5. RoomLeft
    BY <1>1 DEF RoomLeft, Idle
<1> QED  BY <1>3, <1>4, <1>5 DEF PlanInv

\* A call starts with nothing spent.
LEMMA BeginKeepsPlanInv ==
    ASSUME NEW pool, \A k \in DOMAIN pool : pool[k].cost \in Nat,
           NEW opts, opts.days \in Nat, opts.meals \in 1..4, opts.budget \in Nat \cup {NoLimit},
           Begin(pool, opts)
    PROVE  PlanInv'
<1>1. draft' = [pool |-> pool, opts |-> opts] /\ filled' = <<>> /\ spent' = 0 /\ overruns' = 0
    BY DEF Begin
<1>2. Pool' = pool /\ Opts' = opts
    BY <1>1 DEF Pool, Opts
<1>3. opts.days \in Nat /\ opts.meals \in 1..4 /\ opts.budget \in Nat \cup {NoLimit}
    OBVIOUS
<1>4. TotalSlots' = opts.days * opts.meals /\ TotalSlots' \in Nat
    BY <1>2, <1>3 DEF TotalSlots
<1>5. SlotsLeft' = TotalSlots'
    BY <1>1, <1>4 DEF SlotsLeft
<1>6. PICK k \in DOMAIN pool : /\ \A l \in DOMAIN pool : pool[k].cost <= pool[l].cost
                               /\ cheapest' = pool[k].cost
    BY DEF Begin
<1>7. DraftOK'
    BY <1>2, <1>3, <1>6 DEF DraftOK
<1>8. CountsOK'
    BY <1>1, <1>2, <1>4, <1>5 DEF CountsOK
<1>9. cheapest' \in Nat
    BY <1>6
<1>10. RoomLeft'
    BY <1>1, <1>4, <1>5, <1>9 DEF RoomLeft
<1> QED  BY <1>7, <1>8, <1>10 DEF PlanInv

\* One slot more: the room left is what Affordable keeps back, and while there is
\* room the cheapest candidate is affordable.
LEMMA PickKeepsPlanInv == PlanInv /\ PickSlot => PlanInv'
<1> SUFFICES ASSUME PlanInv, PickSlot PROVE PlanInv'
    OBVIOUS
<1>1. /\ Opts.budget \in Nat \cup {NoLimit} /\ TotalSlots \in Nat
      /\ \A k \in DOMAIN Pool : Pool[k].cost \in Nat
    BY OptsOK DEF PlanInv
<1>2. Pool' = Pool /\ Opts' = Opts /\ TotalSlots' = TotalSlots /\ cheapest' = cheapest
    BY DEF PickSlot, Pool, Opts, TotalSlots
<1>3. PICK k \in DOMAIN Pool : /\ IsBest(k)
                               /\ filled' = Append(filled, k)
                               /\ spent' = spent + Pool[k].cost
    BY DEF PickSlot
<1>4. /\ filled \in Seq(DOMAIN Pool) /\ SlotsLeft \in Nat /\ spent \in Nat /\ overruns \in Nat
      /\ cheapest \in Nat
    BY DEF PlanInv, CountsOK, DraftOK
<1>5. filled' \in Seq(DOMAIN Pool) /\ Len(filled') = Len(filled) + 1
    BY <1>3, <1>4
<1>6. SlotsLeft > 0 /\ SlotsLeft' = SlotsLeft - 1
    BY <1>1, <1>2, <1>4, <1>5 DEF SlotsLeft, PickSlot
<1>7. overruns' \in Nat /\ (AffordableOnes # {} => overruns' = overruns)
    BY <1>4 DEF PickSlot
<1>8. DraftOK'
    <2>1. \E l \in DOMAIN Pool : Pool[l].cost = cheapest
        BY <1>6 DEF PlanInv, DraftOK
    <2> QED  BY <1>2, <2>1 DEF PlanInv, DraftOK
<1>9. CountsOK'
    BY <1>1, <1>2, <1>3, <1>4, <1>5, <1>6, <1>7 DEF CountsOK
<1>10. RoomLeft'
    <2> SUFFICES ASSUME Opts.budget # NoLimit, TotalSlots * cheapest <= Opts.budget
                 PROVE  spent' + SlotsLeft' * cheapest <= Opts.budget /\ overruns' = 0
        BY <1>2 DEF RoomLeft
    <2>1. spent + SlotsLeft * cheapest <= Opts.budget /\ overruns = 0
        BY DEF PlanInv, RoomLeft
    <2>2. PICK l \in DOMAIN Pool : Pool[l].cost = cheapest
        BY <1>6 DEF PlanInv, DraftOK
    <2>3. SlotsLeft * cheapest = (SlotsLeft - 1) * cheapest + cheapest
        BY <1>4, <1>6
    <2>4. (SlotsLeft - 1) * cheapest \in Nat /\ Opts.budget \in Nat
        BY <1>1, <1>4, <1>6
    <2>5. Affordable(l)
        <3>1. spent + Pool[l].cost + (SlotsLeft - 1) * cheapest <= Opts.budget
            BY <1>4, <2>1, <2>2, <2>3, <2>4
        <3> QED  BY <3>1 DEF Affordable
    <2>6. AffordableOnes # {}
        BY <2>5 DEF AffordableOnes
    <2>7. Affordable(k)
        BY <1>3, <2>6 DEF IsBest, Choosable, AffordableOnes
    <2>8. spent + Pool[k].cost + (SlotsLeft - 1) * cheapest <= Opts.budget
        BY <2>7 DEF Affordable
    <2> QED  BY <1>3, <1>6, <1>7, <2>1, <2>6, <2>8
<1> QED  BY <1>8, <1>9, <1>10 DEF PlanInv

\* Every slot that is filled keeps the invariant.
LEMMA NextPlanInv == PlanInv /\ [BuilderNext]_builderVars => PlanInv'
<1> SUFFICES ASSUME PlanInv, [BuilderNext]_builderVars PROVE PlanInv'
    OBVIOUS
<1>1. CASE PickSlot
    BY <1>1, PickKeepsPlanInv
<1>2. ASSUME NEW pool \in Pools, NEW opts \in Options, Begin(pool, opts) PROVE PlanInv'
    <2>1. /\ \A k \in DOMAIN pool : pool[k].cost \in Nat
          /\ opts.days \in Nat /\ opts.meals \in 1..4 /\ opts.budget \in Nat \cup {NoLimit}
        BY PlanBuilderAssumption
    <2> QED  BY <1>2, <2>1, BeginKeepsPlanInv
<1>3. CASE UNCHANGED builderVars
    <2>1. /\ draft' = draft /\ cheapest' = cheapest /\ filled' = filled
          /\ spent' = spent /\ overruns' = overruns
        BY <1>3 DEF builderVars
    <2> QED  BY <2>1 DEF PlanInv, DraftOK, CountsOK, RoomLeft, Pool, Opts, TotalSlots, SlotsLeft
<1> QED  BY <1>1, <1>2, <1>3 DEF BuilderNext

\* The builder's numbers are natural and it never fills more slots than asked.
THEOREM BuilderTyped == BuilderSpec => []BuilderTypeOK
<1>1. PlanInv => BuilderTypeOK
    BY DEF PlanInv, DraftOK, CountsOK, BuilderTypeOK
<1> QED  BY <1>1, InitPlanInv, NextPlanInv, PTL DEF BuilderSpec

\* plan-builder.ts:104, for every pool and every budget: a plan that can be within
\* its budget is, while it is being built and when it is done.
THEOREM PlansKeepWithinBudget == BuilderSpec => []WithinBudget
<1>1. PlanInv => WithinBudget
    <2> SUFFICES ASSUME PlanInv, Opts.budget # NoLimit, TotalSlots * cheapest <= Opts.budget
                 PROVE  spent <= Opts.budget /\ overruns = 0
        BY DEF WithinBudget
    <2>1. spent + SlotsLeft * cheapest <= Opts.budget /\ overruns = 0
        BY DEF PlanInv, RoomLeft
    <2>2. /\ spent \in Nat /\ SlotsLeft \in Nat /\ cheapest \in Nat
          /\ Opts.budget \in Nat
        BY OptsOK DEF PlanInv, CountsOK, DraftOK
    <2>3. SlotsLeft * cheapest \in Nat
        BY <2>2
    <2> QED  BY <2>1, <2>2, <2>3
<1> QED  BY <1>1, InitPlanInv, NextPlanInv, PTL DEF BuilderSpec

-----------------------------------------------------------------------------
\* Subsets.

\* Among subsets of a finite set one contains no other strictly.
LEMMA LeastSubset ==
    ASSUME NEW S, IsFiniteSet(S), NEW Family, Family \subseteq SUBSET S, Family # {}
    PROVE  \E A \in Family : \A B \in Family : B \subseteq A => B = A
<1>1. PICK A \in Family : \A B \in Family : <<B, A>> \notin StrictSubsetOrdering(S)
      <2>1. IsWellFoundedOn(StrictSubsetOrdering(S), FiniteSubsetsOf(S))
            BY FS_StrictSubsetOrderingWellFounded
      <2>2. Family \subseteq FiniteSubsetsOf(S)
            BY FS_Subset DEF FiniteSubsetsOf
      <2> QED BY <2>1, <2>2, WFMin
<1> QED BY <1>1 DEF StrictSubsetOrdering

-----------------------------------------------------------------------------
\* Sums over finite sets.

\* The element of a set that is taken out first.
AnyOf(T) == CHOOSE x \in T : TRUE
Added(f, g, T) == IF T = {} THEN 0 ELSE f[AnyOf(T)] + g[T \ {AnyOf(T)}]

\* g[T] is the sum of f over T, for every subset T of S.
Summing(g, f, S) == g = [T \in SUBSET S |-> Added(f, g, T)]

Sum(f, S) == (CHOOSE g : Summing(g, f, S))[S]

\* A nonempty set has the element that is taken out of it.
LEMMA SomeIn == \A T : T # {} => AnyOf(T) \in T
BY DEF AnyOf

\* Two functions that sum over the same set agree on it.
LEMMA SummingUnique ==
    ASSUME NEW f, NEW A, NEW B, NEW g, Summing(g, f, A), NEW h, Summing(h, f, B),
           NEW T, T \subseteq A, T \subseteq B, IsFiniteSet(T)
    PROVE  g[T] = h[T]
<1> DEFINE Bad == {U \in SUBSET T : g[U] # h[U]}
<1> SUFFICES ASSUME Bad # {} PROVE FALSE
    OBVIOUS
<1>1. PICK U \in Bad : \A V \in Bad : V \subseteq U => V = U
      <2>1. Bad \subseteq SUBSET T
            OBVIOUS
      <2> HIDE DEF Bad
      <2> QED BY <2>1, LeastSubset
<1>2. g[U] = Added(f, g, U) /\ h[U] = Added(f, h, U)
      BY DEF Summing
<1>3. CASE U = {}
      BY <1>2, <1>3 DEF Added
<1>4. CASE U # {}
      <2>1. g[U \ {AnyOf(U)}] = h[U \ {AnyOf(U)}]
            BY <1>1, <1>4, SomeIn
      <2> QED BY <1>2, <1>4, <2>1 DEF Added
<1> QED BY <1>3, <1>4

\* There is a sum over every finite set.
LEMMA SummingExists ==
    ASSUME NEW f, NEW S, IsFiniteSet(S)
    PROVE  \E g : Summing(g, f, S)
<1> DEFINE Has(T) == \E g : Summing(g, f, T)
           Bad == {T \in SUBSET S : ~Has(T)}
<1> SUFFICES ASSUME Bad # {} PROVE FALSE
    BY DEF Bad
<1>1. PICK T \in Bad : \A U \in Bad : U \subseteq T => U = T
      <2>1. Bad \subseteq SUBSET S
            OBVIOUS
      <2> HIDE DEF Bad
      <2> QED BY <2>1, LeastSubset
<1>2. \A U : U \subseteq T /\ U # T => Has(U)
      BY <1>1
<1> DEFINE Of(U) == CHOOSE g : Summing(g, f, U)
           g == [U \in SUBSET T |-> IF U = {} THEN 0 ELSE f[AnyOf(U)] + Of(U \ {AnyOf(U)})[U \ {AnyOf(U)}]]
<1>3. \A U : U \subseteq T /\ U # T => Summing(Of(U), f, U)
      BY <1>2
<1>4. ASSUME NEW V, V \subseteq T, V # T PROVE Of(V)[V] = g[V]
      <2>1. Of(V)[V] = Added(f, Of(V), V)
            <3>1. Summing(Of(V), f, V)
                  BY <1>3, <1>4
            <3> HIDE DEF Of
            <3> QED BY <3>1 DEF Summing
      <2>2. CASE V = {}
            BY <2>1, <2>2 DEF Added
      <2>3. CASE V # {}
            <3> DEFINE W == V \ {AnyOf(V)}
            <3>1. W \subseteq V /\ W # T /\ IsFiniteSet(W)
                  BY <1>4, <2>3, SomeIn, FS_Subset
            <3>2. Summing(Of(V), f, V) /\ Summing(Of(W), f, W)
                  BY <1>3, <1>4, <3>1
            <3>3. Of(V)[W] = Of(W)[W]
                  <4> HIDE DEF Of, W
                  <4> QED BY <3>1, <3>2, SummingUnique
            <3>4. g[V] = f[AnyOf(V)] + Of(W)[W]
                  BY <1>4, <2>3
            <3> HIDE DEF Of, g
            <3> QED BY <2>1, <2>3, <3>3, <3>4 DEF Added
      <2> QED BY <2>2, <2>3
<1>5. Summing(g, f, T)
      <2>1. ASSUME NEW U \in SUBSET T PROVE g[U] = Added(f, g, U)
            <3>1. CASE U = {}
                  BY <3>1 DEF Added
            <3>2. CASE U # {}
                  <4>1. U \ {AnyOf(U)} \subseteq T /\ U \ {AnyOf(U)} # T
                        BY <3>2, SomeIn
                  <4>2. g[U] = f[AnyOf(U)] + Of(U \ {AnyOf(U)})[U \ {AnyOf(U)}]
                        BY <3>2
                  <4> HIDE DEF Of, g
                  <4> QED BY <1>4, <3>2, <4>1, <4>2 DEF Added
            <3> QED BY <3>1, <3>2
      <2>2. g = [U \in SUBSET T |-> g[U]]
            OBVIOUS
      <2> HIDE DEF g
      <2> QED BY <2>1, <2>2 DEF Summing
<1> QED BY <1>1, <1>5

\* The sums of the community modules are these.
LEMMA SumOnSetIs ==
    ASSUME NEW f, NEW S, IsFiniteSet(S)
    PROVE  SumFunctionOnSet(f, S) = Sum(f, S)
<1> DEFINE P(g) == g = [T \in SUBSET S |-> IF T = {} THEN 0 ELSE f[AnyOf(T)] + g[T \ {AnyOf(T)}]]
           G == CHOOSE g : P(g)
           H == CHOOSE h : Summing(h, f, S)
<1>1. SumFunctionOnSet(f, S) = G[S]
      BY DEF SumFunctionOnSet, FoldFunctionOnSet, MapThenFoldSet, AnyOf
<1>2. Sum(f, S) = H[S]
      BY DEF Sum
<1>3. ASSUME NEW g PROVE P(g) <=> Summing(g, f, S)
      BY DEF Summing, Added
<1>4. Summing(H, f, S)
      BY SummingExists
<1>5. Summing(G, f, S)
      <2>1. P(H)
            BY <1>3, <1>4
      <2>2. P(G)
            BY <2>1
      <2> QED BY <1>3, <2>2
<1> HIDE DEF G, H, P
<1> QED BY <1>1, <1>2, <1>4, <1>5, SummingUnique

LEMMA SumFunctionIs ==
    ASSUME NEW f, IsFiniteSet(DOMAIN f)
    PROVE  SumFunction(f) = Sum(f, DOMAIN f)
BY SumOnSetIs DEF SumFunction

\* The sum, with one element taken out.
LEMMA SumStep ==
    ASSUME NEW f, NEW S, IsFiniteSet(S)
    PROVE  /\ S = {} => Sum(f, S) = 0
           /\ S # {} => AnyOf(S) \in S /\ Sum(f, S) = f[AnyOf(S)] + Sum(f, S \ {AnyOf(S)})
<1> DEFINE Of(U) == CHOOSE g : Summing(g, f, U)
<1>1. Summing(Of(S), f, S) /\ Summing(Of(S \ {AnyOf(S)}), f, S \ {AnyOf(S)})
      BY SummingExists, FS_Subset
<1>2. Sum(f, S) = Of(S)[S] /\ Sum(f, S \ {AnyOf(S)}) = Of(S \ {AnyOf(S)})[S \ {AnyOf(S)}]
      BY DEF Sum
<1> HIDE DEF Of
<1>3. Of(S)[S] = Added(f, Of(S), S)
      BY <1>1 DEF Summing
<1>4. Of(S)[S \ {AnyOf(S)}] = Of(S \ {AnyOf(S)})[S \ {AnyOf(S)}]
      <2> DEFINE T == S \ {AnyOf(S)}
      <2>1. T \subseteq S /\ T \subseteq T /\ IsFiniteSet(T)
            BY FS_Subset
      <2> HIDE DEF T
      <2> QED BY <1>1, <2>1, SummingUnique DEF T
<1> QED BY <1>2, <1>3, <1>4, SomeIn DEF Added

\* The sum of integers is one, and not negative when they are not.
LEMMA SumType ==
    ASSUME NEW f, NEW S, IsFiniteSet(S), \A x \in S : f[x] \in Int
    PROVE  /\ Sum(f, S) \in Int /\ ((\A x \in S : f[x] >= 0) => Sum(f, S) >= 0)
           /\ (\A x \in S : f[x] = 0) => Sum(f, S) = 0
<1> DEFINE Good(T) == /\ Sum(f, T) \in Int /\ ((\A x \in S : f[x] >= 0) => Sum(f, T) >= 0)
                      /\ (\A x \in S : f[x] = 0) => Sum(f, T) = 0
           Bad == {T \in SUBSET S : ~Good(T)}
<1> SUFFICES ASSUME Bad # {} PROVE FALSE
    BY DEF Bad
<1>1. PICK T \in Bad : \A U \in Bad : U \subseteq T => U = T
      <2>1. Bad \subseteq SUBSET S
            OBVIOUS
      <2> HIDE DEF Bad
      <2> QED BY <2>1, LeastSubset
<1>2. IsFiniteSet(T)
      BY FS_Subset
<1>3. CASE T = {}
      <2>1. Sum(f, T) = 0
            BY <1>2, <1>3, SumStep
      <2>2. Good(T)
            BY <2>1
      <2> QED BY <1>1, <2>2
<1>4. CASE T # {}
      <2>1. Good(T \ {AnyOf(T)})
            BY <1>1, <1>4, SomeIn
      <2>2. AnyOf(T) \in T /\ Sum(f, T) = f[AnyOf(T)] + Sum(f, T \ {AnyOf(T)})
            BY <1>2, <1>4, SumStep
      <2> QED BY <1>1, <2>1, <2>2
<1> QED BY <1>3, <1>4

\* Whichever element is taken out first.
LEMMA SumTakes ==
    ASSUME NEW f, NEW S, IsFiniteSet(S), \A x \in S : f[x] \in Int, NEW e \in S
    PROVE  Sum(f, S) = f[e] + Sum(f, S \ {e})
<1> DEFINE Good(T) == \A d \in T : Sum(f, T) = f[d] + Sum(f, T \ {d})
           Bad == {T \in SUBSET S : ~Good(T)}
<1> SUFFICES ASSUME Bad # {} PROVE FALSE
    BY DEF Bad
<1>1. PICK T \in Bad : \A U \in Bad : U \subseteq T => U = T
      <2>1. Bad \subseteq SUBSET S
            OBVIOUS
      <2> HIDE DEF Bad
      <2> QED BY <2>1, LeastSubset
<1>2. PICK d \in T : Sum(f, T) # f[d] + Sum(f, T \ {d})
      BY <1>1
<1> DEFINE c == AnyOf(T)
<1>3. c \in T /\ Sum(f, T) = f[c] + Sum(f, T \ {c})
      <2>1. IsFiniteSet(T)
            BY FS_Subset
      <2> QED BY <1>2, <2>1, SumStep
<1> HIDE DEF c
<1>4. c # d
      BY <1>2, <1>3
<1>5. Sum(f, T \ {c}) = f[d] + Sum(f, (T \ {c}) \ {d})
      <2>1. Good(T \ {c}) /\ d \in T \ {c}
            BY <1>1, <1>3, <1>4
      <2> QED BY <2>1
<1>6. Sum(f, T \ {d}) = f[c] + Sum(f, (T \ {d}) \ {c})
      <2>1. Good(T \ {d}) /\ c \in T \ {d}
            BY <1>1, <1>3, <1>4
      <2> QED BY <2>1
<1>7. (T \ {c}) \ {d} = (T \ {d}) \ {c}
      OBVIOUS
<1>8. Sum(f, (T \ {c}) \ {d}) \in Int /\ f[c] \in Int /\ f[d] \in Int
      <2>1. (T \ {c}) \ {d} \subseteq S
            OBVIOUS
      <2>2. IsFiniteSet((T \ {c}) \ {d})
            BY <2>1, FS_Subset
      <2> QED BY <1>3, <2>1, <2>2, SumType
<1> DEFINE r == Sum(f, (T \ {d}) \ {c})
<1>9. r \in Int /\ Sum(f, T \ {c}) = f[d] + r /\ Sum(f, T \ {d}) = f[c] + r
      BY <1>5, <1>6, <1>7, <1>8
<1> HIDE DEF r
<1>10. Sum(f, T) = f[c] + (f[d] + r) /\ Sum(f, T) # f[d] + (f[c] + r)
      BY <1>2, <1>3, <1>9
<1> QED BY <1>8, <1>9, <1>10

\* Only what is summed matters.
LEMMA SumSame ==
    ASSUME NEW f, NEW h, NEW S, IsFiniteSet(S), \A x \in S : f[x] = h[x]
    PROVE  Sum(f, S) = Sum(h, S)
<1>1. PICK g : Summing(g, f, S)
      BY SummingExists
<1>2. ASSUME NEW k PROVE Summing(k, f, S) <=> Summing(k, h, S)
      <2>1. \A T \in SUBSET S : Added(f, k, T) = Added(h, k, T)
            BY SomeIn DEF Added
      <2> QED BY <2>1 DEF Summing
<1>3. Summing(CHOOSE k : Summing(k, f, S), f, S) /\ Summing(CHOOSE k : Summing(k, h, S), h, S)
      <2>1. Summing(g, h, S)
            BY <1>1, <1>2
      <2> QED BY <1>1, <2>1
<1> DEFINE F == CHOOSE k : Summing(k, f, S)
           H == CHOOSE k : Summing(k, h, S)
<1>4. Sum(f, S) = F[S] /\ Sum(h, S) = H[S]
      BY DEF Sum
<1>5. Summing(F, f, S) /\ Summing(H, f, S)
      BY <1>2, <1>3
<1> HIDE DEF F, H
<1> QED BY <1>4, <1>5, SummingUnique

\* The sum over two parts, which have nothing in common.
LEMMA SumParts ==
    ASSUME NEW f, NEW A, NEW B, IsFiniteSet(A), IsFiniteSet(B), A \cap B = {},
           \A x \in A \cup B : f[x] \in Int
    PROVE  Sum(f, A \cup B) = Sum(f, A) + Sum(f, B)
<1> DEFINE Good(T) == Sum(f, A \cup T) = Sum(f, A) + Sum(f, T)
           Bad == {T \in SUBSET B : ~Good(T)}
<1> SUFFICES ASSUME Bad # {} PROVE FALSE
    BY DEF Bad
<1>1. PICK T \in Bad : \A U \in Bad : U \subseteq T => U = T
      <2>1. Bad \subseteq SUBSET B
            OBVIOUS
      <2> HIDE DEF Bad
      <2> QED BY <2>1, LeastSubset
<1>2. IsFiniteSet(T) /\ IsFiniteSet(A \cup T) /\ Sum(f, A) \in Int
      <2>1. IsFiniteSet(T)
            BY FS_Subset
      <2> QED BY <2>1, FS_Union, SumType
<1>3. CASE T = {}
      <2>1. Sum(f, T) = 0 /\ A \cup T = A
            BY <1>2, <1>3, SumStep
      <2>2. Sum(f, A \cup T) = Sum(f, A)
            BY <2>1
      <2>3. Good(T)
            BY <1>2, <2>1, <2>2
      <2> QED BY <1>1, <2>3
<1>4. CASE T # {}
      <2> DEFINE c == AnyOf(T)
                 U == T \ {c}
      <2>1. c \in T /\ Sum(f, T) = f[c] + Sum(f, U)
            BY <1>2, <1>4, SumStep
      <2>2. Good(U)
            BY <1>1, <2>1
      <2>3. (A \cup T) \ {c} = A \cup U
            BY <2>1
      <2>4. Sum(f, A \cup T) = f[c] + Sum(f, A \cup U)
            BY <1>2, <2>1, <2>3, SumTakes
      <2>5. Sum(f, U) \in Int /\ f[c] \in Int
            <3>1. IsFiniteSet(U) /\ U \subseteq B
                  BY <1>2, FS_Subset
            <3> QED BY <2>1, <3>1, SumType
      <2> HIDE DEF c, U
      <2> QED BY <1>1, <1>2, <2>1, <2>2, <2>4, <2>5
<1> QED BY <1>3, <1>4

-----------------------------------------------------------------------------
\* Least keys.

\* A nonempty set of naturals has a least one.
LEMMA LeastNat ==
    ASSUME NEW S, S \subseteq Nat, S # {}
    PROVE  \E i \in S : \A j \in S : i <= j
<1>1. IsWellFoundedOn(OpToRel(<, Nat), Nat)
      BY NatLessThanWellFounded
<1>2. PICK i \in S : \A j \in S : <<j, i>> \notin OpToRel(<, Nat)
      BY <1>1, WFMin
<1>3. \A j \in S : ~(j < i)
      BY <1>2 DEF OpToRel
<1> QED BY <1>3

\* And Min is that.
LEMMA MinIs ==
    ASSUME NEW S, S \subseteq Nat, S # {}
    PROVE  Min(S) \in S /\ \A j \in S : Min(S) <= j
BY LeastNat DEF Min

\* Keys of one length are ordered, one way or the other.
LEMMA OrderTotal ==
    ASSUME NEW n \in Nat, NEW x \in [1..n -> Int], NEW y \in [1..n -> Int]
    PROVE  NotAfter(x, y) \/ NotAfter(y, x)
<1> DEFINE D == {i \in 1..n : x[i] # y[i]}
<1>1. CASE D = {}
      <2>1. x = y
            BY <1>1
      <2> QED BY <2>1 DEF NotAfter
<1>2. CASE D # {}
      <2>1. PICK i \in D : \A j \in D : i <= j
            <3>1. D \subseteq Nat
                  OBVIOUS
            <3> HIDE DEF D
            <3> QED BY <1>2, <3>1, LeastNat
      <2>2. i \in 1..n /\ (x[i] < y[i] \/ y[i] < x[i])
            OBVIOUS
      <2>3. \A j \in 1..(i - 1) : x[j] = y[j]
            BY <2>1
      <2> QED BY <2>2, <2>3 DEF NotAfter
<1> QED BY <1>1, <1>2

\* And the order is transitive.
LEMMA OrderTransitive ==
    ASSUME NEW n \in Nat, NEW x \in [1..n -> Int], NEW y \in [1..n -> Int], NEW z \in [1..n -> Int],
           NotAfter(x, y), NotAfter(y, z)
    PROVE  NotAfter(x, z)
<1>1. CASE x = y \/ y = z
      BY <1>1
<1>2. CASE x # y /\ y # z
      <2>1. PICK i \in 1..n : x[i] < y[i] /\ \A j \in 1..(i - 1) : x[j] = y[j]
            BY <1>2 DEF NotAfter
      <2>2. PICK k \in 1..n : y[k] < z[k] /\ \A j \in 1..(k - 1) : y[j] = z[j]
            BY <1>2 DEF NotAfter
      <2>3. PICK l \in 1..n : l = IF i <= k THEN i ELSE k
            OBVIOUS
      <2>4. x[l] < z[l]
            BY <2>1, <2>2, <2>3
      <2>5. \A j \in 1..(l - 1) : x[j] = z[j]
            BY <2>1, <2>2, <2>3
      <2> QED BY <2>4, <2>5 DEF NotAfter
<1> QED BY <1>1, <1>2

\* So the least key of a finite set is one of it and after none of it.
LEMMA LeastIs ==
    ASSUME NEW D, IsFiniteSet(D), D # {}, NEW n \in Nat, NEW key \in [D -> [1..n -> Int]]
    PROVE  Least(key) \in D /\ \A y \in D : NotAfter(key[Least(key)], key[y])
<1> DEFINE Has(T) == \E x \in T : \A y \in T : NotAfter(key[x], key[y])
           Bad == {T \in SUBSET D : T # {} /\ ~Has(T)}
<1>1. ASSUME Bad # {} PROVE FALSE
      <2>1. PICK T \in Bad : \A U \in Bad : U \subseteq T => U = T
            <3>1. Bad \subseteq SUBSET D
                  OBVIOUS
            <3> HIDE DEF Bad
            <3> QED BY <1>1, <3>1, LeastSubset
      <2>2. PICK c \in T : TRUE
            BY <2>1
      <2>3. CASE T = {c}
            <3>1. NotAfter(key[c], key[c])
                  BY DEF NotAfter
            <3> QED BY <2>1, <2>3, <3>1
      <2>4. CASE T # {c}
            <3>1. PICK e \in T \ {c} : \A y \in T \ {c} : NotAfter(key[e], key[y])
                  <4>1. T \ {c} # {} /\ T \ {c} \in SUBSET D /\ T \ {c} # T
                        BY <2>2, <2>4
                  <4>2. Has(T \ {c})
                        BY <2>1, <4>1
                  <4> QED BY <4>2
            <3>2. c \in D /\ e \in D /\ T \subseteq D
                  OBVIOUS
            <3>3. CASE NotAfter(key[e], key[c])
                  BY <2>1, <3>1, <3>3
            <3>4. CASE NotAfter(key[c], key[e])
                  <4>1. key[c] \in [1..n -> Int] /\ key[e] \in [1..n -> Int]
                        BY <3>2
                  <4>2. ASSUME NEW y \in T \ {c} PROVE NotAfter(key[c], key[y])
                        <5>1. NotAfter(key[e], key[y])
                              BY <3>1
                        <5>2. key[y] \in [1..n -> Int]
                              BY <3>2
                        <5> QED BY <3>4, <4>1, <5>1, <5>2, OrderTransitive
                  <4>3. NotAfter(key[c], key[c])
                        BY DEF NotAfter
                  <4>4. \A y \in T : NotAfter(key[c], key[y])
                        BY <4>2, <4>3
                  <4> QED BY <2>1, <2>2, <4>4
            <3> QED BY <3>2, <3>3, <3>4, OrderTotal
      <2> QED BY <2>3, <2>4
<1>2. Has(D)
      BY <1>1
<1> QED BY <1>2 DEF Least

\* Keys are compared by their first part, and by their second when that is the same.
LEMMA OrderOfParts ==
    ASSUME NEW n \in Nat, n >= 1, NEW x \in [1..n -> Int], NEW y \in [1..n -> Int], NotAfter(x, y)
    PROVE  x[1] <= y[1] /\ (n >= 2 /\ x[1] = y[1] => x[2] <= y[2])
BY DEF NotAfter

-----------------------------------------------------------------------------
\* The requirements, offers and terms are what they should be.
SettingOK ==
    /\ quantity \in [Requirements -> Nat]
    /\ offersByReq \in [Requirements -> Seq(Offer)]
    /\ delivery \in [Stores -> [fee : Nat, freeFrom : Nat]]

\* Packs round up.
LEMMA PacksRoundUp ==
    ASSUME NEW q \in Nat, NEW p \in Nat, q > 0, p > 0
    PROVE  /\ (q + p - 1) \div p \in Nat \ {0}
           /\ ((q + p - 1) \div p) * p >= q
           /\ ((q + p - 1) \div p - 1) * p < q
<1> DEFINE n == (q + p - 1) \div p
           m == (q + p - 1) % p
<1>1. n \in Int /\ m \in 0..(p - 1) /\ q + p - 1 = p * n + m
      OBVIOUS
<1> HIDE DEF n, m
<1>2. n * p = p * n
      BY <1>1
<1>3. (n - 1) * p = n * p - p
      BY <1>1
<1>4. n > 0
      <2>1. n <= 0 => p * n <= 0
            BY <1>1
      <2>2. p * n \in Int /\ p * n > 0
            BY <1>1
      <2> QED BY <1>1, <2>1, <2>2
<1>5. p * n \in Int
      BY <1>1
<1> QED BY <1>1, <1>2, <1>3, <1>4, <1>5 DEF n

\* The packs needed are at least one and just enough; a cost is a number of cents.
LEMMA CostIs ==
    ASSUME SettingOK, NEW r \in Requirements, NEW offer \in Offer
    PROVE  /\ PacksNeeded(r, offer) \in Nat \ {0}
           /\ Cost(r, offer) \in Nat
           /\ quantity[r] > 0 /\ offer.pack > 0 =>
                 /\ PacksNeeded(r, offer) * offer.pack >= quantity[r]
                 /\ (PacksNeeded(r, offer) - 1) * offer.pack < quantity[r]
<1>1. quantity[r] \in Nat /\ offer.pack \in Nat /\ offer.price \in Nat
      BY DEF SettingOK, Offer
<1>2. PacksNeeded(r, offer) \in Nat \ {0}
      <2>1. CASE quantity[r] > 0 /\ offer.pack > 0
            <3>1. (quantity[r] + offer.pack - 1) \div offer.pack \in Nat \ {0}
                  BY <1>1, <2>1, PacksRoundUp
            <3> QED BY <2>1, <3>1 DEF PacksNeeded
      <2>2. CASE ~(quantity[r] > 0 /\ offer.pack > 0)
            BY <2>2 DEF PacksNeeded
      <2> QED BY <2>1, <2>2
<1>3. \A a \in Nat, b \in Nat : a * b \in Nat
      OBVIOUS
<1> QED BY <1>1, <1>2, <1>3, PacksRoundUp DEF PacksNeeded, Cost

\* Offers are typed.
LEMMA OfferAt ==
    ASSUME SettingOK, NEW r \in Requirements, NEW k \in DOMAIN offersByReq[r]
    PROVE  /\ k \in Nat \ {0}
           /\ offersByReq[r][k] \in Offer
           /\ offersByReq[r] # <<>>
<1>1. offersByReq[r] \in Seq(Offer)
      BY DEF SettingOK
<1> QED BY <1>1

\* The offers at some stores are finitely many of a requirement's.
LEMMA WithinFinite ==
    ASSUME SettingOK, NEW r \in Requirements, NEW stores
    PROVE  IsFiniteSet(Within(r, stores)) /\ Within(r, stores) \subseteq DOMAIN offersByReq[r]
<1>1. offersByReq[r] \in Seq(Offer)
      BY DEF SettingOK
<1>2. DOMAIN offersByReq[r] = 1..Len(offersByReq[r]) /\ Len(offersByReq[r]) \in Nat
      BY <1>1
<1>3. IsFiniteSet(1..Len(offersByReq[r]))
      BY <1>2, FS_Interval
<1>4. Within(r, stores) \subseteq DOMAIN offersByReq[r]
      BY DEF Within
<1> QED BY <1>2, <1>3, <1>4, FS_Subset

\* The cheapest offer of the given stores is bought.
LEMMA CheapestIs ==
    ASSUME SettingOK, NEW r \in Requirements, NEW stores, Within(r, stores) # {}
    PROVE  \E k \in Within(r, stores) :
              /\ Cheapest(r, stores) = Assignment(r, offersByReq[r][k])
              /\ \A j \in Within(r, stores) : Cost(r, offersByReq[r][k]) <= Cost(r, offersByReq[r][j])
<1> DEFINE D == Within(r, stores)
           key == [k \in D |-> <<Cost(r, offersByReq[r][k]), k>>]
<1>1. IsFiniteSet(D) /\ D # {} /\ D \subseteq DOMAIN offersByReq[r]
      BY WithinFinite
<1>2. ASSUME NEW k \in D
      PROVE  Cost(r, offersByReq[r][k]) \in Int /\ k \in Int
      BY <1>1, OfferAt, CostIs
<1>3. ASSUME NEW k \in D
      PROVE  <<Cost(r, offersByReq[r][k]), k>> \in [1..2 -> Int]
      BY <1>2
<1>4. key \in [D -> [1..2 -> Int]]
      BY <1>3
<1>5. Cheapest(r, stores) = Assignment(r, offersByReq[r][Least(key)])
      BY DEF Cheapest
<1>6. \A k \in D : key[k] = <<Cost(r, offersByReq[r][k]), k>>
      OBVIOUS
<1> HIDE DEF key, D
<1>7. Least(key) \in D /\ \A y \in D : NotAfter(key[Least(key)], key[y])
      BY <1>1, <1>4, LeastIs
<1>8. ASSUME NEW j \in D PROVE Cost(r, offersByReq[r][Least(key)]) <= Cost(r, offersByReq[r][j])
      <2>1. key[Least(key)] \in [1..2 -> Int] /\ key[j] \in [1..2 -> Int]
            BY <1>4, <1>7
      <2>2. key[Least(key)][1] <= key[j][1]
            <3>1. 2 \in Nat /\ 2 >= 1 /\ NotAfter(key[Least(key)], key[j])
                  BY <1>7
            <3> QED BY <2>1, <3>1, OrderOfParts
      <2> QED BY <1>6, <1>7, <2>2
<1> QED BY <1>5, <1>7, <1>8 DEF D

\* A sequence that is not empty has a length.
LEMMA NonemptyLen ==
    ASSUME NEW S, NEW seq \in Seq(S), seq # <<>>
    PROVE  Len(seq) # 0
OBVIOUS

\* What is assigned is offered.
FromOffers(assigned) ==
    \A r \in DOMAIN assigned :
        /\ r \in Requirements
        /\ \E k \in DOMAIN offersByReq[r] : assigned[r] = Assignment(r, offersByReq[r][k])

\* What the cheapest assignment buys is on offer.
LEMMA CheapestOffered ==
    ASSUME SettingOK, NEW stores
    PROVE  FromOffers(AssignCheapest(stores))
<1>1. ASSUME NEW r \in Requirements, Within(r, stores) # {}
      PROVE  \E k \in DOMAIN offersByReq[r] : Cheapest(r, stores) = Assignment(r, offersByReq[r][k])
      BY <1>1, CheapestIs, WithinFinite
<1> QED BY <1>1 DEF FromOffers, AssignCheapest

\* So is what a store and its complement supply.
LEMMA FilledOffered ==
    ASSUME SettingOK, NEW p
    PROVE  FromOffers(Filled(p))
<1>1. FromOffers(AtStore(p))
      BY CheapestOffered DEF AtStore
<1>2. ASSUME NEW s, NEW rs PROVE FromOffers(Adds(s, rs))
      <2>1. FromOffers(AtStore(s))
            BY CheapestOffered DEF AtStore
      <2> QED BY <2>1 DEF FromOffers, Adds, Only
<1>3. ASSUME NEW f, FromOffers(f), NEW g, FromOffers(g) PROVE FromOffers(Merge(f, g))
      BY <1>3 DEF FromOffers, Merge
<1> QED BY <1>1, <1>2, <1>3 DEF Filled

\* So is the choice by quality.
LEMMA QualityOffered ==
    ASSUME SettingOK, NEW r \in Matched, StoreQuality \in [Stores -> Nat]
    PROVE  \E k \in DOMAIN offersByReq[r] : Quality[r] = Assignment(r, offersByReq[r][k])
<1> DEFINE D == DOMAIN offersByReq[r]
           key == [k \in D |-> <<-Score(offersByReq[r][k]), Cost(r, offersByReq[r][k]), k>>]
<1>1. r \in Requirements /\ offersByReq[r] # <<>> /\ offersByReq[r] \in Seq(Offer)
      BY DEF Matched, SettingOK
<1>2. D = 1..Len(offersByReq[r]) /\ Len(offersByReq[r]) \in Nat /\ D # {}
      <2>1. Len(offersByReq[r]) # 0
            BY <1>1, NonemptyLen
      <2>2. D = 1..Len(offersByReq[r]) /\ Len(offersByReq[r]) \in Nat
            BY <1>1
      <2> HIDE DEF D
      <2>3. 1 \in 1..Len(offersByReq[r])
            BY <2>1, <2>2
      <2> QED BY <2>2, <2>3
<1>3. IsFiniteSet(D)
      BY <1>2, FS_Interval
<1>4. ASSUME NEW k \in D
      PROVE  -Score(offersByReq[r][k]) \in Int /\ Cost(r, offersByReq[r][k]) \in Int /\ k \in Int
      <2>1. offersByReq[r][k] \in Offer /\ k \in Int
            BY <1>1, OfferAt
      <2>2. Score(offersByReq[r][k]) \in Int
            BY <2>1 DEF Score, Offer
      <2> QED BY <1>1, <2>1, <2>2, CostIs
<1>5. ASSUME NEW k \in D
      PROVE  <<-Score(offersByReq[r][k]), Cost(r, offersByReq[r][k]), k>> \in [1..3 -> Int]
      BY <1>4
<1>6. key \in [D -> [1..3 -> Int]]
      BY <1>5
<1>7. Quality[r] = Assignment(r, offersByReq[r][Least(key)])
      BY DEF Quality
<1> HIDE DEF key, D
<1>8. Least(key) \in D
      BY <1>2, <1>3, <1>6, LeastIs
<1> QED BY <1>7, <1>8 DEF D

\* So is what each strategy buys.
LEMMA AssignOffered ==
    ASSUME SettingOK, StoreQuality \in [Stores -> Nat], NEW s \in Strategies
    PROVE  FromOffers(Assign(s))
<1>1. CASE s = "CHEAPEST"
      BY <1>1, CheapestOffered DEF Assign
<1>2. CASE s = "CONVENIENCE"
      BY <1>2, CheapestOffered DEF Assign, Convenience
<1>3. CASE s = "DELIVERY"
      BY <1>3, CheapestOffered, FilledOffered DEF Assign, Delivery
<1>4. CASE s = "QUALITY"
      <2>1. DOMAIN Quality = Matched /\ Matched \subseteq Requirements
            BY DEF Quality, Matched
      <2>2. FromOffers(Quality)
            BY <2>1, QualityOffered DEF FromOffers
      <2> QED BY <1>4, <2>2 DEF Assign
<1> QED BY <1>1, <1>2, <1>3, <1>4 DEF Strategies

-----------------------------------------------------------------------------

\* What optimizeAll() answers.
Answer == [s \in Strategies |-> Result(Assign(s))]

\* The items of an answer are the strategy's assignment.
LEMMA AnswerItems == \A s \in Strategies : Answer[s].items = Assign(s)
BY DEF Answer, Result

\* CHEAPEST pays no more for a requirement than any strategy, and every one
\* buys packs enough and none too many.
LEMMA CheapestAnswer ==
    ASSUME SettingOK, NEW s \in Strategies, NEW r \in DOMAIN Answer[s].items
    PROVE  LET purchase == Answer[s].items[r] IN
            /\ purchase.cost >= Answer["CHEAPEST"].items[r].cost
            /\ quantity[r] > 0 /\ purchase.offer.pack > 0 =>
                  /\ purchase.packs * purchase.offer.pack >= quantity[r]
                  /\ (purchase.packs - 1) * purchase.offer.pack < quantity[r]
<1>1. FromOffers(Assign(s)) /\ Answer[s].items = Assign(s)
      BY AnswerItems, AssignOffered, ConstantsAssumption
<1>2. r \in Requirements
      BY <1>1 DEF FromOffers
<1>3. PICK k \in DOMAIN offersByReq[r] : Assign(s)[r] = Assignment(r, offersByReq[r][k])
      BY <1>1 DEF FromOffers
<1>4. offersByReq[r][k] \in Offer
      BY <1>2, OfferAt
<1>5. Within(r, Stores) = DOMAIN offersByReq[r]
      <2>1. \A j \in DOMAIN offersByReq[r] : offersByReq[r][j].store \in Stores
            BY <1>2, OfferAt DEF Offer
      <2> QED BY <2>1 DEF Within
<1>6. Answer["CHEAPEST"].items = AssignCheapest(Stores)
      BY AnswerItems DEF Strategies, Assign
<1>7. AssignCheapest(Stores)[r] = Cheapest(r, Stores)
      BY <1>2, <1>3, <1>5 DEF AssignCheapest
<1>8. Within(r, Stores) # {}
      BY <1>3, <1>5
<1>9. PICK c \in Within(r, Stores) :
              /\ Cheapest(r, Stores) = Assignment(r, offersByReq[r][c])
              /\ \A j \in Within(r, Stores) : Cost(r, offersByReq[r][c]) <= Cost(r, offersByReq[r][j])
      BY <1>2, <1>8, CheapestIs
<1> DEFINE purchase == Assign(s)[r]
           o == offersByReq[r][k]
<1>10. purchase.offer = o /\ purchase.packs = PacksNeeded(r, o) /\ purchase.cost = Cost(r, o)
       BY <1>3 DEF Assignment
<1>11. Answer["CHEAPEST"].items[r].cost = Cost(r, offersByReq[r][c])
       BY <1>6, <1>7, <1>9 DEF Assignment
<1>12. Cost(r, offersByReq[r][c]) <= Cost(r, o) /\ Cost(r, o) \in Nat /\ Cost(r, offersByReq[r][c]) \in Nat
       BY <1>2, <1>3, <1>4, <1>5, <1>9, CostIs, OfferAt
<1>13. quantity[r] > 0 /\ o.pack > 0 =>
                 /\ PacksNeeded(r, o) * o.pack >= quantity[r]
                 /\ (PacksNeeded(r, o) - 1) * o.pack < quantity[r]
       BY <1>2, <1>4, CostIs
<1> HIDE DEF purchase, o
<1> QED BY <1>1, <1>10, <1>11, <1>12, <1>13 DEF purchase

\* At every point, whatever the requirements, offers and packs: enough packs are
\* bought and none too many, and CHEAPEST pays the least before delivery.
THEOREM CheapestIsCheapest == Spec => []CheapestIsLeast
<1> DEFINE Inv == SettingOK /\ CheapestIsLeast
<1>1. Init => Inv
      BY ConstantsAssumption DEF Init, SettingOK, CheapestIsLeast
<1>2. Inv /\ [Next]_vars => Inv'
      <2> SUFFICES ASSUME Inv, [Next]_vars PROVE Inv'
          OBVIOUS
      <2>1. quantity' = quantity /\ offersByReq' = offersByReq /\ delivery' = delivery
            BY DEF Next, OptimizeAll, vars
      <2>2. SettingOK'
            BY <2>1 DEF SettingOK
      <2>3. CASE OptimizeAll
            <3>1. results' = Answer
                  BY <2>3 DEF OptimizeAll, Answer
            <3>2. CheapestIsLeast'
                  BY <2>1, <3>1, CheapestAnswer DEF CheapestIsLeast
            <3> QED BY <2>2, <3>2
      <2>4. CASE UNCHANGED vars
            BY <2>2, <2>4 DEF vars, CheapestIsLeast
      <2> QED BY <2>3, <2>4 DEF Next
<1> QED BY <1>1, <1>2, PTL DEF Spec

-----------------------------------------------------------------------------
\* Totals are sums.
Costs(assigned) == [r \in DOMAIN assigned |-> assigned[r].cost]

Fees(assigned) == [s \in StoresOf(assigned) |-> Fee(s, Subtotal(assigned, s))]

\* The total of an assignment is the sum of its costs.
LEMMA TotalIs ==
    ASSUME NEW assigned, IsFiniteSet(DOMAIN assigned)
    PROVE  Total(assigned) = Sum(Costs(assigned), DOMAIN assigned)
<1> DEFINE D == DOMAIN assigned
           f == Costs(assigned)
           P(g) == g = [T \in SUBSET D |-> IF T = {} THEN 0
                                           ELSE assigned[AnyOf(T)].cost + g[T \ {AnyOf(T)}]]
           G == CHOOSE g : P(g)
           H == CHOOSE h : Summing(h, f, D)
<1>1. Total(assigned) = G[D]
      BY DEF Total, MapThenSumSet, MapThenFoldSet, AnyOf
<1>2. Sum(f, D) = H[D]
      BY DEF Sum
<1>3. \A T \in SUBSET D : T # {} => assigned[AnyOf(T)].cost = f[AnyOf(T)]
      BY SomeIn DEF Costs
<1>4. ASSUME NEW g PROVE P(g) <=> Summing(g, f, D)
      BY <1>3 DEF Summing, Added
<1>5. Summing(H, f, D)
      BY SummingExists
<1>6. Summing(G, f, D)
      <2>1. P(H)
            BY <1>4, <1>5
      <2>2. P(G)
            BY <2>1
      <2> QED BY <1>4, <2>2
<1> HIDE DEF G, H, f, P
<1>7. G[D] = H[D]
      BY <1>5, <1>6, SummingUnique
<1> QED BY <1>1, <1>2, <1>7 DEF f

\* What delivery costs is the sum of the stores' fees.
LEMMA DeliveryIs ==
    ASSUME NEW assigned, IsFiniteSet(StoresOf(assigned))
    PROVE  DeliveryTotal(assigned) = Sum(Fees(assigned), StoresOf(assigned))
<1> DEFINE D == StoresOf(assigned)
           f == Fees(assigned)
           P(g) == g = [T \in SUBSET D |-> IF T = {} THEN 0
                                           ELSE Fee(AnyOf(T), Subtotal(assigned, AnyOf(T))) + g[T \ {AnyOf(T)}]]
           G == CHOOSE g : P(g)
           H == CHOOSE h : Summing(h, f, D)
<1>1. DeliveryTotal(assigned) = G[D]
      BY DEF DeliveryTotal, MapThenSumSet, MapThenFoldSet, AnyOf
<1>2. Sum(f, D) = H[D]
      BY DEF Sum
<1>3. \A T \in SUBSET D : T # {} => Fee(AnyOf(T), Subtotal(assigned, AnyOf(T))) = f[AnyOf(T)]
      BY SomeIn DEF Fees
<1>4. ASSUME NEW g PROVE P(g) <=> Summing(g, f, D)
      BY <1>3 DEF Summing, Added
<1>5. Summing(H, f, D)
      BY SummingExists
<1>6. Summing(G, f, D)
      <2>1. P(H)
            BY <1>4, <1>5
      <2>2. P(G)
            BY <2>1
      <2> QED BY <1>4, <2>2
<1> HIDE DEF G, H, f, P
<1>7. G[D] = H[D]
      BY <1>5, <1>6, SummingUnique
<1> QED BY <1>1, <1>2, <1>7 DEF f

\* Requirements are finitely many, and so are stores.
LEMMA RequirementsFinite == \A rs : rs \subseteq Requirements => IsFiniteSet(rs)
BY ConstantsAssumption, FS_Subset

\* Stores are finitely many.
LEMMA StoresFinite == \A st : st \subseteq Stores => IsFiniteSet(st) /\ Cardinality(st) \in Nat
BY ConstantsAssumption, FS_Subset, FS_CardinalityType

\* An assignment as a bill: a cost and a store for each requirement of it.
Bill(assigned) ==
    /\ DOMAIN assigned \subseteq Requirements
    /\ \A r \in DOMAIN assigned : assigned[r].cost \in Nat /\ assigned[r].offer.store \in Stores

\* What is on offer has a cost and a store.
LEMMA OffersAreBills ==
    ASSUME SettingOK, NEW assigned, FromOffers(assigned)
    PROVE  Bill(assigned)
<1>1. ASSUME NEW r \in DOMAIN assigned
      PROVE  r \in Requirements /\ assigned[r].cost \in Nat /\ assigned[r].offer.store \in Stores
      <2>1. PICK k \in DOMAIN offersByReq[r] :
                    r \in Requirements /\ assigned[r] = Assignment(r, offersByReq[r][k])
            BY DEF FromOffers
      <2>2. offersByReq[r][k] \in Offer
            BY <2>1, OfferAt
      <2>3. Cost(r, offersByReq[r][k]) \in Nat
            BY <2>1, <2>2, CostIs
      <2> QED BY <2>1, <2>2, <2>3 DEF Assignment, Offer
<1> QED BY <1>1 DEF Bill

\* Totals are numbers of cents, delivery included.
LEMMA TotalType ==
    ASSUME NEW assigned, Bill(assigned)
    PROVE  Total(assigned) \in Nat
<1>1. IsFiniteSet(DOMAIN assigned)
      BY RequirementsFinite DEF Bill
<1>2. \A r \in DOMAIN assigned : Costs(assigned)[r] \in Int /\ Costs(assigned)[r] >= 0
      BY DEF Costs, Bill
<1> QED BY <1>1, <1>2, TotalIs, SumType

\* What a purchase costs in all is a number.
LEMMA GrandType ==
    ASSUME SettingOK, NEW assigned, Bill(assigned)
    PROVE  /\ DeliveryTotal(assigned) \in Nat
           /\ GrandTotal(assigned) \in Nat
           /\ StoresOf(assigned) \subseteq Stores
           /\ \A s \in StoresOf(assigned) : Fees(assigned)[s] \in Nat
<1>1. StoresOf(assigned) \subseteq Stores
      BY DEF StoresOf, Bill
<1>2. ASSUME NEW s \in Stores PROVE Fee(s, Subtotal(assigned, s)) \in Nat
      <2>1. delivery[s].fee \in Nat
            BY DEF SettingOK
      <2> QED BY <2>1 DEF Fee
<1>3. \A s \in StoresOf(assigned) : Fees(assigned)[s] \in Nat
      BY <1>1, <1>2 DEF Fees
<1>4. DeliveryTotal(assigned) \in Nat
      <2>1. Sum(Fees(assigned), StoresOf(assigned)) \in Nat
            BY <1>1, <1>3, StoresFinite, SumType
      <2> QED BY <1>1, <2>1, StoresFinite, DeliveryIs
<1> QED BY <1>1, <1>3, <1>4, TotalType DEF GrandTotal

\* Keys of stores.
LEMMA PositionType ==
    ASSUME SettingOK, NEW s \in Carrying
    PROVE  \E a, b \in Nat : Position(s) = <<a, b>>
<1> DEFINE R == {r \in Requirements : Within(r, {s}) # {}}
           first == Min(R)
<1>1. R # {} /\ R \subseteq Nat
      <2>1. Cardinality(Requirements) \in Nat /\ Requirements = 1..Cardinality(Requirements)
            BY ConstantsAssumption, FS_CardinalityType
      <2>2. Requirements \subseteq Nat
            BY <2>1
      <2> QED BY <2>2 DEF Carrying
<1>2. first \in R
      <2> HIDE DEF R
      <2> QED BY <1>1, MinIs
<1>3. Within(first, {s}) # {} /\ first \in Requirements
      BY <1>2
<1>4. Within(first, {s}) \subseteq Nat
      BY <1>3, WithinFinite, OfferAt
<1>5. Min(Within(first, {s})) \in Nat
      <2> HIDE DEF first
      <2> QED BY <1>3, <1>4, MinIs
<1>6. Position(s) = <<first, Min(Within(first, {s}))>>
      BY DEF Position
<1> HIDE DEF first, R
<1> QED BY <1>1, <1>2, <1>5, <1>6

\* A sequence as a function, and a key made of two parts.
LEMMA AsFunction ==
    ASSUME NEW seq \in Seq(Int)
    PROVE  seq \in [1..Len(seq) -> Int]
OBVIOUS

\* A key with two entries more behind it.
LEMMA JoinedKeys ==
    ASSUME NEW u \in Seq(Int), NEW v \in Seq(Int), Len(v) = 2
    PROVE  /\ u \o v \in [1..(Len(u) + 2) -> Int]
           /\ \A i \in 1..Len(u) : (u \o v)[i] = u[i]
<1>1. u \o v \in Seq(Int) /\ Len(u \o v) = Len(u) + 2
      <2>1. u \o v \in Seq(Int) /\ Len(u \o v) = Len(u) + Len(v)
            BY ConcatProperties
      <2> QED BY <2>1
<1>2. \A i \in 1..Len(u) : (u \o v)[i] = u[i]
      BY ConcatProperties
<1> QED BY <1>1, <1>2, AsFunction

\* Keys with a store's position as their last part.
KeyedBy(key, D, a, b) ==
    /\ D \subseteq Carrying /\ D # {}
    /\ a \in [D -> Int] /\ b \in [D -> Int]
    /\ key = [s \in D |-> <<a[s], b[s]>> \o Position(s)]

\* The first of the keys (a, b, position) is least in a and then in b.
LEMMA LeastByTwo ==
    ASSUME SettingOK, NEW D, NEW a, NEW b, NEW key, KeyedBy(key, D, a, b)
    PROVE  /\ Least(key) \in D
           /\ \A s \in D : /\ a[Least(key)] <= a[s]
                           /\ a[Least(key)] = a[s] => b[Least(key)] <= b[s]
<1>0. /\ D \subseteq Carrying /\ D # {} /\ a \in [D -> Int] /\ b \in [D -> Int]
      /\ key = [s \in D |-> <<a[s], b[s]>> \o Position(s)]
      BY DEF KeyedBy
<1>1. IsFiniteSet(D)
      BY <1>0, StoresFinite DEF Carrying
<1>2. ASSUME NEW s \in D
      PROVE  key[s] \in [1..4 -> Int] /\ key[s][1] = a[s] /\ key[s][2] = b[s]
      <2> DEFINE u == <<a[s], b[s]>>
                 v == Position(s)
      <2>1. u \in Seq(Int) /\ Len(u) = 2 /\ u[1] = a[s] /\ u[2] = b[s]
            BY <1>0
      <2>2. v \in Seq(Int) /\ Len(v) = 2
            <3>1. PICK c, d \in Nat : v = <<c, d>>
                  BY <1>0, PositionType
            <3> HIDE DEF v
            <3> QED BY <3>1
      <2>3. key[s] = u \o v
            BY <1>0
      <2> HIDE DEF u, v
      <2>4. u \o v \in [1..(Len(u) + 2) -> Int] /\ \A i \in 1..Len(u) : (u \o v)[i] = u[i]
            BY <2>1, <2>2, JoinedKeys
      <2>5. u \o v \in [1..4 -> Int] /\ (u \o v)[1] = u[1] /\ (u \o v)[2] = u[2]
            BY <2>1, <2>4
      <2> QED BY <2>1, <2>3, <2>5
<1>3. key \in [D -> [1..4 -> Int]]
      BY <1>0, <1>2
<1>4. 4 \in Nat /\ 4 >= 1 /\ 4 >= 2
      OBVIOUS
<1> DEFINE L == Least(key)
<1>5. L \in D /\ \A s \in D : NotAfter(key[L], key[s])
      BY <1>0, <1>1, <1>3, <1>4, LeastIs
<1> HIDE DEF L
<1>6. ASSUME NEW s \in D PROVE a[L] <= a[s] /\ (a[L] = a[s] => b[L] <= b[s])
      <2>1. key[L] \in [1..4 -> Int] /\ key[s] \in [1..4 -> Int] /\ NotAfter(key[L], key[s])
            BY <1>2, <1>5
      <2>2. key[L][1] <= key[s][1] /\ (key[L][1] = key[s][1] => key[L][2] <= key[s][2])
            BY <1>4, <2>1, OrderOfParts
      <2> QED BY <1>2, <1>5, <2>2
<1> QED BY <1>5, <1>6 DEF L

\* The first of the keys (a, position) is least in a.
LEMMA LeastByOne ==
    ASSUME SettingOK, NEW D, D \subseteq Carrying, D # {}, NEW a \in [D -> Int],
           NEW key, key = [s \in D |-> <<a[s]>> \o Position(s)]
    PROVE  Least(key) \in D /\ \A s \in D : a[Least(key)] <= a[s]
<1>1. IsFiniteSet(D)
      BY StoresFinite DEF Carrying
<1>2. ASSUME NEW s \in D
      PROVE  key[s] \in [1..3 -> Int] /\ key[s][1] = a[s]
      <2> DEFINE u == <<a[s]>>
                 v == Position(s)
      <2>1. u \in Seq(Int) /\ Len(u) = 1 /\ u[1] = a[s]
            OBVIOUS
      <2>2. v \in Seq(Int) /\ Len(v) = 2
            <3>1. PICK c, d \in Nat : v = <<c, d>>
                  BY PositionType
            <3> HIDE DEF v
            <3> QED BY <3>1
      <2>3. key[s] = u \o v
            OBVIOUS
      <2> HIDE DEF u, v
      <2>4. u \o v \in [1..(Len(u) + 2) -> Int] /\ \A i \in 1..Len(u) : (u \o v)[i] = u[i]
            BY <2>1, <2>2, JoinedKeys
      <2>5. u \o v \in [1..3 -> Int] /\ (u \o v)[1] = u[1]
            BY <2>1, <2>4
      <2> QED BY <2>1, <2>3, <2>5
<1>3. key \in [D -> [1..3 -> Int]]
      BY <1>2
<1>4. 3 \in Nat /\ 3 >= 1
      OBVIOUS
<1> DEFINE L == Least(key)
<1>5. L \in D /\ \A s \in D : NotAfter(key[L], key[s])
      BY <1>1, <1>3, <1>4, LeastIs
<1> HIDE DEF L
<1>6. ASSUME NEW s \in D PROVE a[L] <= a[s]
      <2>1. key[L] \in [1..3 -> Int] /\ key[s] \in [1..3 -> Int] /\ NotAfter(key[L], key[s])
            BY <1>2, <1>5
      <2>2. key[L][1] <= key[s][1]
            BY <1>4, <2>1, OrderOfParts
      <2> QED BY <1>2, <1>5, <2>2
<1> QED BY <1>5, <1>6 DEF L

\* What a store adds.
LEMMA AddsAre ==
    ASSUME SettingOK, NEW s, NEW rs
    PROVE  /\ FromOffers(Adds(s, rs)) /\ Bill(Adds(s, rs))
           /\ DOMAIN Adds(s, rs) = {r \in Requirements : Within(r, {s}) # {}} \cap rs
           /\ Cardinality(DOMAIN Adds(s, rs)) \in Nat
           /\ Total(Adds(s, rs)) \in Nat
<1>1. FromOffers(AtStore(s))
      BY CheapestOffered DEF AtStore
<1>2. FromOffers(Adds(s, rs))
      BY <1>1 DEF FromOffers, Adds, Only
<1>3. DOMAIN Adds(s, rs) = {r \in Requirements : Within(r, {s}) # {}} \cap rs
      BY DEF Adds, Only, AtStore, AssignCheapest
<1>4. Bill(Adds(s, rs))
      BY <1>2, OffersAreBills
<1>5. Cardinality(DOMAIN Adds(s, rs)) \in Nat
      BY <1>3, RequirementsFinite, FS_CardinalityType
<1> QED BY <1>2, <1>3, <1>4, <1>5, TotalType

\* The store picked adds most, and of those that do costs least.
LEMMA PickIs ==
    ASSUME SettingOK, NEW stores, stores \subseteq Carrying, stores # {}, NEW uncovered,
           NEW n, n = [s \in stores |-> Cardinality(DOMAIN Adds(s, uncovered))],
           NEW best, best = Pick(stores, uncovered)
    PROVE  /\ best \in stores
           /\ \A s \in stores :
                 /\ n[best] >= n[s]
                 /\ n[best] = n[s] => Total(Adds(best, uncovered)) <= Total(Adds(s, uncovered))
<1> DEFINE a == [s \in stores |-> -Cardinality(DOMAIN Adds(s, uncovered))]
           b == [s \in stores |-> Total(Adds(s, uncovered))]
           key == [s \in stores |-> <<-Cardinality(DOMAIN Adds(s, uncovered)),
                                      Total(Adds(s, uncovered))>> \o Position(s)]
<1>1. a \in [stores -> Int] /\ b \in [stores -> Int]
      <2>1. \A s \in stores : Cardinality(DOMAIN Adds(s, uncovered)) \in Nat
                              /\ Total(Adds(s, uncovered)) \in Nat
            BY AddsAre
      <2> QED BY <2>1
<1>2. key = [s \in stores |-> <<a[s], b[s]>> \o Position(s)]
      OBVIOUS
<1>3. best = Least(key)
      BY DEF Pick
<1>4. ASSUME NEW s \in stores
      PROVE  a[s] = -n[s] /\ b[s] = Total(Adds(s, uncovered)) /\ n[s] \in Nat /\ b[s] \in Nat
      <2>1. Cardinality(DOMAIN Adds(s, uncovered)) \in Nat /\ Total(Adds(s, uncovered)) \in Nat
            BY AddsAre
      <2> QED BY <2>1
<1> HIDE DEF a, b, key
<1>5. best \in stores /\ \A s \in stores : a[best] <= a[s] /\ (a[best] = a[s] => b[best] <= b[s])
      <2>1. KeyedBy(key, stores, a, b)
            BY <1>1, <1>2 DEF KeyedBy
      <2> QED BY <1>3, <2>1, LeastByTwo
<1> QED BY <1>4, <1>5

-----------------------------------------------------------------------------
\* Greedy cover.
CarriedBy(s) == {r \in Requirements : Within(r, {s}) # {}}

Useful(chosen) ==
    {s \in Carrying \ chosen : DOMAIN Adds(s, Matched \ DOMAIN AssignCheapest(chosen)) # {}}

Round(chosen) ==
    IF Useful(chosen) = {} THEN chosen
    ELSE chosen \cup {Pick(Useful(chosen), Matched \ DOMAIN AssignCheapest(chosen))}

\* g[k] is what F makes of x0 in k steps.
Iterates(g, N, X, x0, F) ==
    /\ g \in [0..N -> X]
    /\ \A k \in 0..N : g[k] = IF k = 0 THEN x0 ELSE F[g[k - 1]]

\* A step can be repeated any number of times.
LEMMA IterExists ==
    ASSUME NEW N \in Nat, NEW X, NEW x0 \in X, NEW F \in [X -> X]
    PROVE  \E g : Iterates(g, N, X, x0, F)
<1> DEFINE Is(g, n) == /\ g \in [0..n -> X]
                       /\ \A k \in 0..n : g[k] = IF k = 0 THEN x0 ELSE F[g[k - 1]]
           Bad == {n \in 0..N : ~\E g : Is(g, n)}
<1> SUFFICES ASSUME Bad # {} PROVE FALSE
    BY DEF Bad, Iterates
<1>1. PICK n \in Bad : \A m \in Bad : n <= m
      <2>1. Bad \subseteq Nat
            OBVIOUS
      <2> HIDE DEF Bad
      <2> QED BY <2>1, LeastNat
<1>2. CASE n = 0
      <2>1. Is([k \in 0..0 |-> x0], 0)
            OBVIOUS
      <2> QED BY <1>2, <2>1
<1>3. CASE n # 0
      <2>1. n \in 0..N
            OBVIOUS
      <2>2a. n - 1 \in 0..N /\ n - 1 \notin Bad /\ n \in Nat \ {0}
            <3> HIDE DEF Bad
            <3> QED BY <1>1, <1>3, <2>1
      <2>2. PICK g : Is(g, n - 1)
            BY <2>2a
      <2> DEFINE h == [k \in 0..n |-> IF k = n THEN F[g[n - 1]] ELSE g[k]]
      <2>3. \A k \in 0..(n - 1) : g[k] = IF k = 0 THEN x0 ELSE F[g[k - 1]]
            BY <2>2
      <2>4. \A k \in 0..n : h[k] = IF k = 0 THEN x0 ELSE F[h[k - 1]]
            BY <2>2a, <2>3
      <2>5. h \in [0..n -> X]
            <3>1. g \in [0..(n - 1) -> X]
                  BY <2>2
            <3>2. \A k \in 0..n : k # n => k \in 0..(n - 1)
                  BY <2>2a
            <3>3. n - 1 \in 0..(n - 1)
                  BY <2>2a
            <3> QED BY <3>1, <3>2, <3>3
      <2>6. Is(h, n)
            <3> HIDE DEF h
            <3> QED BY <2>4, <2>5
      <2> QED BY <2>6
<1> QED BY <1>2, <1>3

\* A round adds one store, when one is of use.
LEMMA RoundIs ==
    ASSUME SettingOK, NEW chosen \in SUBSET Stores
    PROVE  /\ Round(chosen) \in SUBSET Stores
           /\ Useful(chosen) # {} =>
                 \E s \in Useful(chosen) :
                    /\ s = Pick(Useful(chosen), Matched \ DOMAIN AssignCheapest(chosen))
                    /\ Round(chosen) = chosen \cup {s}
<1>1. Useful(chosen) \subseteq Carrying /\ Carrying \subseteq Stores
      BY DEF Useful, Carrying
<1>2. CASE Useful(chosen) = {}
      BY <1>2 DEF Round
<1>3. CASE Useful(chosen) # {}
      <2> DEFINE un == Matched \ DOMAIN AssignCheapest(chosen)
                 s == Pick(Useful(chosen), un)
      <2>1. s \in Useful(chosen)
            BY <1>1, <1>3, PickIs
      <2> QED BY <1>1, <1>3, <2>1 DEF Round
<1> QED BY <1>2, <1>3

\* The stores selected after each round.
LEMMA SelectedIs ==
    ASSUME SettingOK
    PROVE  /\ Selected[0] = {}
           /\ \A k \in 1..Cardinality(Stores) : Selected[k] = Round(Selected[k - 1])
           /\ \A k \in 0..Cardinality(Stores) : Selected[k] \in SUBSET Stores
<1> DEFINE N == Cardinality(Stores)
           P(g) == g = [k \in 0..N |->
                IF k = 0 THEN {}
                ELSE LET chosen == g[k - 1]
                         uncovered == Matched \ DOMAIN AssignCheapest(chosen)
                         useful == {s \in Carrying \ chosen : DOMAIN Adds(s, uncovered) # {}}
                     IN  IF useful = {} THEN chosen ELSE chosen \cup {Pick(useful, uncovered)}]
           Q(g) == g = [k \in 0..N |-> IF k = 0 THEN {} ELSE Round(g[k - 1])]
           F == [c \in SUBSET Stores |-> Round(c)]
<1>1. N \in Nat
      BY StoresFinite
<1>2. Selected = CHOOSE g : P(g)
      BY DEF Selected
<1>3. ASSUME NEW g PROVE P(g) <=> Q(g)
      BY DEF Round, Useful
<1>4. ASSUME NEW g,
             \A k \in 0..N : /\ k = 0 => g[k] = {}
                             /\ k # 0 /\ g[k - 1] \in SUBSET Stores => g[k] = Round(g[k - 1])
      PROVE  \A k \in 0..N : g[k] \in SUBSET Stores
      <2> DEFINE Bad == {k \in 0..N : g[k] \notin SUBSET Stores}
      <2> SUFFICES ASSUME Bad # {} PROVE FALSE
          OBVIOUS
      <2>1. PICK k \in Bad : \A m \in Bad : k <= m
            <3>1. Bad \subseteq Nat
                  OBVIOUS
            <3> HIDE DEF Bad
            <3> QED BY <3>1, LeastNat
      <2>a. k \in 0..N /\ g[k] \notin SUBSET Stores
            OBVIOUS
      <2> HIDE DEF Bad, N
      <2>2. k # 0
            <3>1. k = 0 => g[k] = {}
                  BY <1>4, <2>a
            <3> QED BY <3>1, <2>a
      <2>3. k - 1 \in 0..N /\ g[k - 1] \in SUBSET Stores
            <3>1. k - 1 \in 0..N /\ k - 1 \notin Bad
                  BY <1>1, <2>1, <2>2, <2>a
            <3> QED BY <3>1 DEF Bad
      <2>4. g[k] = Round(g[k - 1])
            BY <1>1, <1>4, <2>2, <2>3, <2>a
      <2> QED BY <2>3, <2>4, <2>a, RoundIs
<1>5. \E g : Q(g)
      <2>1. PICK g \in [0..N -> SUBSET Stores] :
                      \A k \in 0..N : g[k] = IF k = 0 THEN {} ELSE F[g[k - 1]]
            <3> DEFINE X == SUBSET Stores
                       none == {}
            <3>1. F \in [X -> X] /\ none \in X
                  BY RoundIs
            <3> HIDE DEF F, N, X, none
            <3>2. \E g : Iterates(g, N, X, none, F)
                  BY <1>1, <3>1, IterExists
            <3> QED BY <3>2 DEF X, none, Iterates
      <2>2. \A k \in 0..N : g[k] = IF k = 0 THEN {} ELSE F[g[k - 1]]
            BY <2>1
      <2>3. \A k \in 0..N : g[k] \in SUBSET Stores
            OBVIOUS
      <2>4. \A k \in 0..N : k # 0 => k - 1 \in 0..N
            BY <1>1
      <2>5. \A k \in 0..N : g[k] = IF k = 0 THEN {} ELSE Round(g[k - 1])
            BY <2>2, <2>3, <2>4
      <2>6. Q(g)
            BY <2>1, <2>5
      <2> QED BY <2>6
<1>6. Q(Selected)
      <2>1. PICK g : P(g)
            <3> HIDE DEF P, Q
            <3> QED BY <1>3, <1>5
      <2>2. P(CHOOSE h : P(h))
            <3> HIDE DEF P
            <3> QED BY <2>1
      <2> HIDE DEF P, Q
      <2> QED BY <1>2, <1>3, <2>2
<1>7. \A k \in 0..N : Selected[k] = IF k = 0 THEN {} ELSE Round(Selected[k - 1])
      BY <1>6
<1>8. \A k \in 0..N : Selected[k] \in SUBSET Stores
      BY <1>4, <1>7
<1> QED BY <1>1, <1>7, <1>8

\* The stores chosen have everything.
Covers(chosen) == Matched \subseteq DOMAIN AssignCheapest(chosen)

\* A round changes nothing once everything is covered, and adds a store before.
LEMMA CoverStep ==
    ASSUME SettingOK, NEW chosen \in SUBSET Stores
    PROVE  /\ Covers(chosen) => Round(chosen) = chosen
           /\ ~Covers(chosen) => \E s \in Stores \ chosen : Round(chosen) = chosen \cup {s}
<1> DEFINE un == Matched \ DOMAIN AssignCheapest(chosen)
<1>1. \A s : DOMAIN Adds(s, un) = CarriedBy(s) \cap un
      BY AddsAre DEF CarriedBy
<1>2. CASE Covers(chosen)
      <2>1. un = {}
            BY <1>2 DEF Covers
      <2>2. Useful(chosen) = {}
            BY <1>1, <2>1 DEF Useful
      <2> QED BY <1>2, <2>2 DEF Round
<1>3. CASE ~Covers(chosen)
      <2>1. PICK r \in Matched : r \notin DOMAIN AssignCheapest(chosen)
            BY <1>3 DEF Covers
      <2>2. r \in Requirements /\ offersByReq[r] # <<>> /\ Within(r, chosen) = {}
            BY <2>1 DEF Matched, AssignCheapest
      <2>3. PICK k \in DOMAIN offersByReq[r] : TRUE
            <3>1. offersByReq[r] \in Seq(Offer)
                  BY <2>2 DEF SettingOK
            <3>2. Len(offersByReq[r]) # 0
                  BY <2>2, <3>1, NonemptyLen
            <3>3. 1 \in DOMAIN offersByReq[r]
                  BY <3>1, <3>2
            <3> QED BY <3>3
      <2> DEFINE s == offersByReq[r][k].store
      <2>4. s \in Stores
            BY <2>2, OfferAt DEF Offer
      <2>5. k \in Within(r, {s})
            BY DEF Within
      <2>6. s \notin chosen
            BY <2>2 DEF Within
      <2>7. r \in CarriedBy(s) \cap un /\ s \in Carrying
            BY <2>1, <2>2, <2>4, <2>5 DEF CarriedBy, Carrying
      <2>8. Useful(chosen) # {}
            <3> HIDE DEF s
            <3> QED BY <1>1, <2>6, <2>7 DEF Useful
      <2>9. Useful(chosen) \subseteq Stores \ chosen
            BY DEF Useful, Carrying
      <2> QED BY <1>3, <2>8, <2>9, RoundIs
<1> QED BY <1>2, <1>3

\* All stores together offer what any store offers.
LEMMA AllIsMatched ==
    ASSUME SettingOK
    PROVE  DOMAIN AssignCheapest(Stores) = Matched
<1>1. ASSUME NEW r \in Requirements PROVE Within(r, Stores) # {} <=> offersByReq[r] # <<>>
      <2>1. offersByReq[r] \in Seq(Offer)
            BY DEF SettingOK
      <2>2. Within(r, Stores) = DOMAIN offersByReq[r]
            <3>1. \A j \in DOMAIN offersByReq[r] : offersByReq[r][j].store \in Stores
                  BY OfferAt DEF Offer
            <3> QED BY <3>1 DEF Within
      <2>3. CASE offersByReq[r] # <<>>
            <3>1. Len(offersByReq[r]) # 0
                  BY <2>1, <2>3, NonemptyLen
            <3>2. 1 \in DOMAIN offersByReq[r]
                  BY <2>1, <3>1
            <3> QED BY <2>2, <2>3, <3>2
      <2>4. CASE offersByReq[r] = <<>>
            BY <2>2, <2>4
      <2> QED BY <2>3, <2>4
<1> QED BY <1>1 DEF AssignCheapest, Matched

\* No choice of stores offers more.
LEMMA AtMostMatched ==
    ASSUME SettingOK, NEW stores
    PROVE  DOMAIN AssignCheapest(stores) \subseteq Matched
<1>1. ASSUME NEW r \in Requirements, Within(r, stores) # {} PROVE offersByReq[r] # <<>>
      BY <1>1 DEF Within
<1> QED BY <1>1 DEF AssignCheapest, Matched

\* The greedy cover ends with everything on offer.
LEMMA ConvenienceCovers ==
    ASSUME SettingOK
    PROVE  DOMAIN Convenience = Matched
<1> DEFINE N == Cardinality(Stores)
           Good(k) == Covers(Selected[k]) \/ Cardinality(Selected[k]) >= k
           Bad == {k \in 0..N : ~Good(k)}
<1>1. N \in Nat /\ IsFiniteSet(Stores)
      BY StoresFinite
<1>2. ASSUME Bad # {} PROVE FALSE
      <2>1. PICK k \in Bad : \A m \in Bad : k <= m
            <3>1. Bad \subseteq Nat
                  OBVIOUS
            <3> HIDE DEF Bad
            <3> QED BY <1>2, <3>1, LeastNat
      <2>2. k \in 0..N /\ ~Good(k)
            OBVIOUS
      <2> HIDE DEF Bad, N
      <2>3. k # 0
            <3>1. Selected[0] = {}
                  BY SelectedIs
            <3>2. Cardinality({}) = 0
                  BY FS_EmptySet
            <3> QED BY <2>2, <3>1, <3>2
      <2> DEFINE S == Selected[k - 1]
      <2>4. k - 1 \in 0..N /\ k - 1 \notin Bad /\ k \in 1..N
            BY <1>1, <2>1, <2>2, <2>3
      <2>5. Good(k - 1)
            BY <2>4 DEF Bad
      <2>6. S \in SUBSET Stores /\ Selected[k] = Round(S)
            BY <2>4, SelectedIs DEF N
      <2>7. CASE Covers(S)
            <3> HIDE DEF S
            <3>1. Selected[k] = S
                  BY <2>6, <2>7, CoverStep
            <3> QED BY <2>2, <2>7, <3>1
      <2>8. CASE ~Covers(S)
            <3>1. Cardinality(S) >= k - 1
                  BY <2>5, <2>8
            <3> HIDE DEF S
            <3>2. PICK s \in Stores \ S : Selected[k] = S \cup {s}
                  BY <2>6, <2>8, CoverStep
            <3>3. IsFiniteSet(S) /\ Cardinality(S) \in Nat
                  BY <2>6, StoresFinite
            <3>4. Cardinality(S \cup {s}) = Cardinality(S) + 1
                  BY <3>2, <3>3, FS_AddElement
            <3> QED BY <2>2, <2>4, <3>1, <3>2, <3>3, <3>4
      <2> QED BY <2>7, <2>8
<1>3. Good(N)
      BY <1>1, <1>2
<1> DEFINE T == Selected[N]
<1>4. T \in SUBSET Stores
      BY <1>1, SelectedIs
<1>5. Convenience = AssignCheapest(T)
      BY DEF Convenience
<1>6. CASE Covers(T)
      <2> HIDE DEF T
      <2> QED BY <1>5, <1>6, AtMostMatched DEF Covers
<1>7. CASE ~Covers(T)
      <2>1. Cardinality(T) >= N
            BY <1>3, <1>7
      <2> HIDE DEF T
      <2>2. T = Stores
            BY <1>1, <1>4, <2>1, FS_Subset, FS_CardinalityType
      <2> QED BY <1>5, <2>2, AllIsMatched
<1> QED BY <1>6, <1>7

-----------------------------------------------------------------------------
\* What DELIVERY fills up.
LEMMA FilledIs ==
    ASSUME SettingOK, NEW p
    PROVE  /\ DOMAIN AtStore(p) \subseteq DOMAIN Filled(p)
           /\ Bill(Filled(p)) /\ Bill(AtStore(p))
           /\ DOMAIN Filled(p) \subseteq Requirements
<1>1. FromOffers(Filled(p)) /\ FromOffers(AtStore(p))
      BY FilledOffered, CheapestOffered DEF AtStore
<1>2. DOMAIN AtStore(p) \subseteq DOMAIN Filled(p)
      BY DEF Filled, Merge
<1> QED BY <1>1, <1>2, OffersAreBills DEF Bill

\* DELIVERY takes the candidate that costs least, with what fills it up.
LEMMA BestIs ==
    ASSUME SettingOK, Candidates # {}
    PROVE  \E p \in Candidates :
              /\ Delivery = Filled(p)
              /\ \A s \in Candidates : GrandTotal(Filled(p)) <= GrandTotal(Filled(s))
<1> DEFINE a == [s \in Candidates |-> GrandTotal(Filled(s))]
           key == [s \in Candidates |-> <<GrandTotal(Filled(s))>> \o Position(s)]
<1>1. a \in [Candidates -> Int]
      <2>1. \A s \in Candidates : GrandTotal(Filled(s)) \in Nat
            BY FilledIs, GrandType
      <2> QED BY <2>1
<1>2. key = [s \in Candidates |-> <<a[s]>> \o Position(s)]
      OBVIOUS
<1>3. Candidates \subseteq Carrying
      BY DEF Candidates
<1>4. Delivery = Filled(Least(key))
      BY DEF Delivery
<1>5. \A s \in Candidates : a[s] = GrandTotal(Filled(s))
      OBVIOUS
<1> HIDE DEF a, key
<1>6. Least(key) \in Candidates /\ \A s \in Candidates : a[Least(key)] <= a[s]
      BY <1>1, <1>2, <1>3, LeastByOne
<1> QED BY <1>4, <1>5, <1>6

\* The threshold of 60 percent rounds up.
LEMMA SixtyPercent ==
    ASSUME NEW m \in Nat, NEW c \in Nat, c >= (3 * m + 4) \div 5
    PROVE  5 * c >= 3 * m
OBVIOUS

\* What the answers leave out.
LEMMA MatchedAnswer ==
    ASSUME SettingOK
    PROVE  /\ \A s \in Strategies \ {"DELIVERY"} :
                 Answer[s].unmatched = Requirements \ Matched
           /\ 5 * Cardinality(DOMAIN Answer["DELIVERY"].items) >= 3 * Cardinality(Matched)
<1>1. \A s \in Strategies : /\ Answer[s].items = Assign(s)
                            /\ Answer[s].unmatched = Requirements \ DOMAIN Assign(s)
      BY DEF Answer, Result
<1>2. \A s \in Strategies \ {"DELIVERY"} : DOMAIN Assign(s) = Matched
      <2>1. DOMAIN Assign("CHEAPEST") = Matched
            BY AllIsMatched DEF Assign
      <2>2. DOMAIN Assign("CONVENIENCE") = Matched
            BY ConvenienceCovers DEF Assign
      <2>3. DOMAIN Assign("QUALITY") = Matched
            BY DEF Assign, Quality
      <2> QED BY <2>1, <2>2, <2>3 DEF Strategies
<1>3. Answer["DELIVERY"].items = Delivery
      BY <1>1 DEF Strategies, Assign
<1>4. Matched \subseteq Requirements /\ Cardinality(Matched) \in Nat
      BY RequirementsFinite, FS_CardinalityType DEF Matched
<1>5. 5 * Cardinality(DOMAIN Delivery) >= 3 * Cardinality(Matched)
      <2>1. CASE Candidates = {}
            <3>1. DOMAIN Delivery = Matched
                  BY <2>1, AllIsMatched DEF Delivery
            <3> QED BY <1>4, <3>1
      <2>2. CASE Candidates # {}
            <3>1. PICK p \in Candidates : Delivery = Filled(p)
                  BY <2>2, BestIs
            <3> DEFINE own == DOMAIN AtStore(p)
                       all == DOMAIN Filled(p)
            <3>2. own \subseteq all /\ IsFiniteSet(all) /\ IsFiniteSet(own)
                  BY FilledIs, RequirementsFinite
            <3>3. Cardinality(own) >= (3 * Cardinality(Matched) + 4) \div 5
                  BY DEF Candidates
            <3>4. Cardinality(own) \in Nat /\ Cardinality(all) \in Nat
                  BY <3>2, FS_CardinalityType
            <3>5. Cardinality(own) <= Cardinality(all)
                  <4> HIDE DEF own, all
                  <4> QED BY <3>2, FS_Subset
            <3>6. 5 * Cardinality(own) >= 3 * Cardinality(Matched)
                  <4> HIDE DEF own
                  <4> QED BY <1>4, <3>3, <3>4, SixtyPercent
            <3> HIDE DEF own, all
            <3>7. 5 * Cardinality(all) >= 3 * Cardinality(Matched)
                  BY <1>4, <3>4, <3>5, <3>6
            <3> QED BY <3>1, <3>7 DEF all
      <2> QED BY <2>1, <2>2
<1> QED BY <1>1, <1>2, <1>3, <1>5

\* Everything on offer is bought, by DELIVERY 60 percent of it: the greedy cover
\* reaches every requirement within as many rounds as there are stores.
THEOREM EverythingIsBought == Spec => []MatchedAreBought
<1> DEFINE Inv == SettingOK /\ MatchedAreBought
<1>1. Init => Inv
      BY ConstantsAssumption DEF Init, SettingOK, MatchedAreBought
<1>2. Inv /\ [Next]_vars => Inv'
      <2> SUFFICES ASSUME Inv, [Next]_vars PROVE Inv'
          OBVIOUS
      <2>1. quantity' = quantity /\ offersByReq' = offersByReq /\ delivery' = delivery
            BY DEF Next, OptimizeAll, vars
      <2>2. SettingOK' /\ Matched' = Matched
            BY <2>1 DEF SettingOK, Matched
      <2>3. CASE OptimizeAll
            <3>1. results' = Answer
                  BY <2>3 DEF OptimizeAll, Answer
            <3>2. MatchedAreBought'
                  BY <2>2, <3>1, MatchedAnswer DEF MatchedAreBought
            <3> QED BY <2>2, <3>2
      <2>4. CASE UNCHANGED vars
            BY <2>2, <2>4 DEF vars, MatchedAreBought
      <2> QED BY <2>3, <2>4 DEF Next
<1> QED BY <1>1, <1>2, PTL DEF Spec

-----------------------------------------------------------------------------
\* Division by a positive number keeps the order.
LEMMA DivMonotone ==
    ASSUME NEW a \in Int, NEW b \in Int, NEW d \in Nat, d > 0, a <= b
    PROVE  a \div d \in Int /\ b \div d \in Int /\ a \div d <= b \div d
<1> DEFINE x == a \div d
           y == b \div d
           u == a % d
           v == b % d
<1>1. x \in Int /\ y \in Int /\ u \in 0..(d - 1) /\ v \in 0..(d - 1) /\ a = d * x + u /\ b = d * y + v
      OBVIOUS
<1> HIDE DEF x, y, u, v
<1>2. ASSUME x > y PROVE FALSE
      <2>1. x - y \in Int /\ x - y >= 1
            BY <1>1, <1>2
      <2>2. d * (x - y) >= d
            <3>1. \A n \in Int : n >= 1 => d * n >= d
                  OBVIOUS
            <3> QED BY <2>1, <3>1
      <2>3. d * (x - y) = d * x - d * y
            BY <1>1
      <2>4. d * x \in Int /\ d * y \in Int
            BY <1>1
      <2> QED BY <1>1, <2>2, <2>3, <2>4
<1> QED BY <1>1, <1>2 DEF x, y

\* The greater of zero and a number.
LEMMA MaxZero ==
    ASSUME NEW x \in Int
    PROVE  Max({0, x}) = IF x >= 0 THEN x ELSE 0
<1>1. \E m \in {0, x} : \A y \in {0, x} : m >= y
      BY x >= 0 \/ x < 0
<1>2. Max({0, x}) \in {0, x} /\ \A y \in {0, x} : Max({0, x}) >= y
      BY <1>1 DEF Max
<1> QED BY <1>2

\* What each candidate costs by itself.
OwnTotals == [s \in Candidates |-> GrandTotal(AtStore(s))]

\* The sum that savings start from.
LEMMA SavingsSum ==
    ASSUME SettingOK
    PROVE  MapThenSumSet(LAMBDA s : GrandTotal(AtStore(s)), Candidates) \in Int
<1> DEFINE D == Candidates
           f == OwnTotals
           P(g) == g = [T \in SUBSET D |-> IF T = {} THEN 0
                                           ELSE GrandTotal(AtStore(AnyOf(T))) + g[T \ {AnyOf(T)}]]
           G == CHOOSE g : P(g)
           H == CHOOSE h : Summing(h, f, D)
<1>1. MapThenSumSet(LAMBDA s : GrandTotal(AtStore(s)), D) = G[D]
      BY DEF MapThenSumSet, MapThenFoldSet, AnyOf
<1>2. Sum(f, D) = H[D]
      BY DEF Sum
<1>3. \A T \in SUBSET D : T # {} => GrandTotal(AtStore(AnyOf(T))) = f[AnyOf(T)]
      BY SomeIn DEF OwnTotals
<1>4. ASSUME NEW g PROVE P(g) <=> Summing(g, f, D)
      BY <1>3 DEF Summing, Added
<1>5. IsFiniteSet(D)
      BY StoresFinite DEF Candidates, Carrying
<1>6. Summing(H, f, D)
      BY <1>5, SummingExists
<1>7. Summing(G, f, D)
      <2>1. P(H)
            BY <1>4, <1>6
      <2>2. P(G)
            BY <2>1
      <2> QED BY <1>4, <2>2
<1>8. \A s \in D : f[s] \in Int
      BY FilledIs, GrandType DEF OwnTotals
<1> HIDE DEF G, H, f, P, D
<1>9. G[D] = H[D]
      BY <1>5, <1>6, <1>7, SummingUnique
<1>10. Sum(f, D) \in Int
       BY <1>5, <1>8, SumType
<1> QED BY <1>1, <1>2, <1>9, <1>10 DEF D

\* The less is paid, the more is saved.
LEMMA SavingsMonotone ==
    ASSUME SettingOK, NEW a \in Nat, NEW b \in Nat, a <= b
    PROVE  Savings(a) >= Savings(b)
<1> DEFINE n == Cardinality(Candidates)
           sum == MapThenSumSet(LAMBDA s : GrandTotal(AtStore(s)), Candidates)
           x(g) == (2 * (sum - n * g) + n) \div (2 * n)
<1>1. n \in Nat /\ sum \in Int
      BY SavingsSum, StoresFinite DEF Candidates, Carrying
<1>2. \A g : Savings(g) = IF n = 0 \/ Matched = {} THEN 0 ELSE Max({0, x(g)})
      BY DEF Savings
<1>3. CASE n = 0 \/ Matched = {}
      <2> HIDE DEF n, sum, x
      <2>1. Savings(a) = 0 /\ Savings(b) = 0
            BY <1>2, <1>3
      <2> QED BY <2>1
<1>4. CASE n # 0 /\ Matched # {}
      <2> HIDE DEF n, sum
      <2>1. n * a \in Int /\ n * b \in Int /\ n * a <= n * b
            BY <1>1
      <2>2. x(a) \in Int /\ x(b) \in Int /\ x(b) <= x(a)
            <3>1. 2 * (sum - n * b) + n <= 2 * (sum - n * a) + n /\ 2 * n \in Nat /\ 2 * n > 0
                  BY <1>1, <1>4, <2>1
            <3>2. 2 * (sum - n * b) + n \in Int /\ 2 * (sum - n * a) + n \in Int
                  BY <1>1, <2>1
            <3> QED BY <3>1, <3>2, DivMonotone
      <2> HIDE DEF x
      <2>3. Savings(a) = Max({0, x(a)}) /\ Savings(b) = Max({0, x(b)})
            BY <1>2, <1>4
      <2>4. Max({0, x(a)}) = IF x(a) >= 0 THEN x(a) ELSE 0
            BY <2>2, MaxZero
      <2>5. Max({0, x(b)}) = IF x(b) >= 0 THEN x(b) ELSE 0
            BY <2>2, MaxZero
      <2> QED BY <2>2, <2>3, <2>4, <2>5
<1> QED BY <1>3, <1>4

-----------------------------------------------------------------------------
\* One store with everything.

\* What one store supplies.
LEMMA AtStoreIs ==
    ASSUME SettingOK, NEW s
    PROVE  /\ DOMAIN AtStore(s) = CarriedBy(s)
           /\ \A r \in DOMAIN AtStore(s) : AtStore(s)[r].offer.store = s
           /\ DOMAIN AtStore(s) \subseteq Matched
           /\ AtStore(s) = [r \in DOMAIN AtStore(s) |-> AtStore(s)[r]]
<1>1. DOMAIN AtStore(s) = CarriedBy(s)
      BY DEF AtStore, AssignCheapest, CarriedBy
<1>2. ASSUME NEW r \in DOMAIN AtStore(s) PROVE AtStore(s)[r].offer.store = s
      <2>1. r \in Requirements /\ Within(r, {s}) # {} /\ AtStore(s)[r] = Cheapest(r, {s})
            BY DEF AtStore, AssignCheapest
      <2>2. PICK k \in Within(r, {s}) : Cheapest(r, {s}) = Assignment(r, offersByReq[r][k])
            BY <2>1, CheapestIs
      <2>3. offersByReq[r][k].store = s
            BY <2>2 DEF Within
      <2> QED BY <2>1, <2>2, <2>3 DEF Assignment
<1>3. DOMAIN AtStore(s) \subseteq Matched
      BY AtMostMatched DEF AtStore
<1>4. AtStore(s) = [r \in DOMAIN AtStore(s) |-> AtStore(s)[r]]
      BY DEF AtStore, AssignCheapest
<1> QED BY <1>1, <1>2, <1>3, <1>4

\* To nothing, a store adds all it has.
LEMMA AddsAll ==
    ASSUME SettingOK, NEW s
    PROVE  Adds(s, Matched) = AtStore(s)
<1>1. DOMAIN AtStore(s) \cap Matched = DOMAIN AtStore(s)
      BY AtStoreIs
<1>2. Adds(s, Matched) = [r \in DOMAIN AtStore(s) \cap Matched |-> AtStore(s)[r]]
      BY DEF Adds, Only
<1> QED BY <1>1, <1>2, AtStoreIs

\* When a store has everything the first round picks the cheapest such store,
\* and the later ones add nothing to it.
LEMMA OneStopStore ==
    ASSUME SettingOK, NEW s0 \in Stores, HasAll(s0)
    PROVE  \E p \in Stores : /\ HasAll(p) /\ Convenience = AtStore(p)
                             /\ \A s \in Stores : HasAll(s) => Total(AtStore(p)) <= Total(AtStore(s))
<1> DEFINE U == Useful({})
           p == Pick(U, Matched)
           N == Cardinality(Stores)
           n == [s \in U |-> Cardinality(DOMAIN Adds(s, Matched))]
<1>1. DOMAIN AssignCheapest({}) = {}
      BY DEF AssignCheapest, Within
<1>2. U = {s \in Carrying : DOMAIN AtStore(s) # {}} /\ Matched \ DOMAIN AssignCheapest({}) = Matched
      BY <1>1, AddsAll DEF Useful
<1>3. ASSUME NEW s \in Stores, HasAll(s)
      PROVE  s \in U /\ DOMAIN AtStore(s) = Matched
      <2>1. DOMAIN AtStore(s) = Matched /\ Matched # {}
            BY <1>3, AtStoreIs DEF HasAll
      <2>2. s \in Carrying
            BY <2>1, AtStoreIs DEF Carrying, CarriedBy
      <2> QED BY <1>2, <2>1, <2>2
<1>4. U # {} /\ U \subseteq Carrying /\ Carrying \subseteq Stores
      BY <1>2, <1>3 DEF Carrying
<1>5. /\ p \in U
      /\ \A s \in U : /\ n[p] >= n[s]
                      /\ n[p] = n[s] => Total(Adds(p, Matched)) <= Total(Adds(s, Matched))
      <2> HIDE DEF U
      <2> QED BY <1>4, PickIs
<1>6. Matched \subseteq Requirements /\ IsFiniteSet(Matched) /\ Cardinality(Matched) \in Nat
      BY RequirementsFinite, FS_CardinalityType DEF Matched
<1>7. \A s \in U : n[s] = Cardinality(DOMAIN AtStore(s))
      BY AddsAll
<1> HIDE DEF n, U
<1>8. HasAll(p)
      <2>1. Cardinality(DOMAIN AtStore(p)) >= Cardinality(Matched)
            BY <1>3, <1>5, <1>7
      <2>2. DOMAIN AtStore(p) \subseteq Matched
            BY AtStoreIs
      <2> DEFINE D == DOMAIN AtStore(p)
      <2> HIDE DEF D, p
      <2>3. D = Matched
            BY <1>6, <2>1, <2>2, FS_Subset, FS_CardinalityType DEF D
      <2> QED BY <2>3 DEF D, HasAll
<1>9. \A s \in Stores : HasAll(s) => Total(AtStore(p)) <= Total(AtStore(s))
      <2>1. ASSUME NEW s \in Stores, HasAll(s) PROVE Total(AtStore(p)) <= Total(AtStore(s))
            <3>1. s \in U /\ DOMAIN AtStore(s) = Matched /\ DOMAIN AtStore(p) = Matched
                  BY <1>3, <1>4, <1>5, <1>8, <2>1
            <3>2. n[p] = n[s]
                  BY <1>5, <1>7, <3>1
            <3>3. Total(Adds(p, Matched)) <= Total(Adds(s, Matched))
                  BY <1>5, <3>1, <3>2
            <3> QED BY <3>3, AddsAll
      <2> QED BY <2>1
<1>10. p \in Stores
       BY <1>4, <1>5
<1>11. Round({}) = {p}
       BY <1>2, <1>4 DEF Round, U
<1>12. Round({p}) = {p}
       <2>1. Covers({p})
             BY <1>8 DEF Covers, HasAll, AtStore
       <2> HIDE DEF p
       <2>2. {p} \in SUBSET Stores
             BY <1>10
       <2> QED BY <2>1, <2>2, CoverStep
<1>13. N \in Nat \ {0}
       <2>1. N \in Nat /\ IsFiniteSet(Stores)
             BY StoresFinite
       <2>2. N # 0
             BY <2>1, FS_EmptySet
       <2> QED BY <2>1, <2>2
<1>14. ASSUME NEW k \in 1..N PROVE Selected[k] = {p}
       <2> DEFINE Bad == {m \in 1..N : Selected[m] # {p}}
       <2> SUFFICES ASSUME Bad # {} PROVE FALSE
           OBVIOUS
       <2>1. PICK m \in Bad : \A l \in Bad : m <= l
             <3>1. Bad \subseteq Nat
                   OBVIOUS
             <3> HIDE DEF Bad
             <3> QED BY <3>1, LeastNat
       <2>2. m \in 1..N /\ Selected[m] # {p}
             OBVIOUS
       <2> HIDE DEF Bad, N, p
       <2>3. Selected[m] = Round(Selected[m - 1])
             BY <2>2, SelectedIs DEF N
       <2>4. CASE m = 1
             <3>1. m - 1 = 0
                   BY <2>4
             <3>2. Selected[m - 1] = {}
                   BY <3>1, SelectedIs
             <3> QED BY <1>11, <2>2, <2>3, <3>2
       <2>5. CASE m # 1
             <3>1. m - 1 \in 1..N /\ m - 1 \notin Bad
                   BY <1>13, <2>1, <2>2, <2>5
             <3>2. Selected[m - 1] = {p}
                   BY <3>1 DEF Bad
             <3> QED BY <1>12, <2>2, <2>3, <3>2
       <2> QED BY <2>4, <2>5
<1>15. Convenience = AtStore(p)
       <2>1. Selected[N] = {p}
             BY <1>13, <1>14
       <2> QED BY <2>1 DEF Convenience, AtStore
<1> QED BY <1>8, <1>9, <1>10, <1>15

\* The answers when a store has everything.
LEMMA OneStopAnswer ==
    ASSUME SettingOK, NEW s0 \in Stores, HasAll(s0)
    PROVE  /\ Cardinality(Answer["CONVENIENCE"].stores) = 1
           /\ \A s \in Stores : HasAll(s) =>
                 Answer["CONVENIENCE"].totalCents <= Total(AtStore(s))
           /\ Answer["DELIVERY"].grandTotalCents <= Answer["CONVENIENCE"].grandTotalCents
           /\ Answer["DELIVERY"].savingsCents >= Answer["CONVENIENCE"].savingsCents
<1>1. PICK p \in Stores : /\ HasAll(p) /\ Convenience = AtStore(p)
                          /\ \A s \in Stores : HasAll(s) => Total(AtStore(p)) <= Total(AtStore(s))
      BY OneStopStore
<1>2. Answer["CONVENIENCE"] = Result(AtStore(p)) /\ Answer["DELIVERY"] = Result(Delivery)
      BY <1>1 DEF Answer, Assign, Strategies
<1>3. DOMAIN AtStore(p) = Matched /\ Matched # {}
      BY <1>1, AtStoreIs DEF HasAll
<1>4. StoresOf(AtStore(p)) = {p}
      BY <1>3, AtStoreIs DEF StoresOf
<1>5. Filled(p) = AtStore(p)
      <2>1. Matched \ DOMAIN AtStore(p) = {}
            BY <1>3
      <2>2. \A s : DOMAIN Adds(s, {}) = {}
            BY DEF Adds, Only
      <2> QED BY <2>1, <2>2 DEF Filled
<1>6. p \in Candidates
      <2>1. Cardinality(Matched) \in Nat \ {0}
            <3>1. Matched \subseteq Requirements
                  BY DEF Matched
            <3>2. IsFiniteSet(Matched)
                  BY <3>1, RequirementsFinite
            <3> QED BY <1>3, <3>2, FS_CardinalityType, FS_EmptySet
      <2>2. \A m \in Nat \ {0} : m >= (3 * m + 4) \div 5
            OBVIOUS
      <2>3. p \in Carrying
            BY <1>3, AtStoreIs DEF Carrying, CarriedBy
      <2> QED BY <1>3, <2>1, <2>2, <2>3 DEF Candidates
<1>7. GrandTotal(Delivery) <= GrandTotal(AtStore(p))
      BY <1>5, <1>6, BestIs
<1>8. GrandTotal(AtStore(p)) \in Nat /\ GrandTotal(Delivery) \in Nat
      <2>1. PICK q \in Candidates : Delivery = Filled(q)
            BY <1>6, BestIs
      <2> QED BY <2>1, FilledIs, GrandType
<1>9. Savings(GrandTotal(Delivery)) >= Savings(GrandTotal(AtStore(p)))
      BY <1>7, <1>8, SavingsMonotone
<1>10. Cardinality({p}) = 1
       BY FS_Singleton
<1> QED BY <1>1, <1>2, <1>4, <1>7, <1>9, <1>10 DEF Result

-----------------------------------------------------------------------------
\* An offer and its setting unchanged, everything computed from it is.
SettingStays ==
    quantity' = quantity /\ offersByReq' = offersByReq /\ delivery' = delivery

\* DeliveryIs for every assignment, to be used of the next state.
LEMMA DeliveryIsSum ==
    \A assigned : IsFiniteSet(StoresOf(assigned)) =>
        DeliveryTotal(assigned) = Sum(Fees(assigned), StoresOf(assigned))
BY DeliveryIs

\* While the setting stays, so does everything computed from it.
LEMMA ComputedStays ==
    ASSUME SettingStays
    PROVE  /\ Matched' = Matched /\ Carrying' = Carrying
           /\ \A s : AtStore(s)' = AtStore(s)
           /\ \A s, rs : Adds(s, rs)' = Adds(s, rs)
           /\ \A assigned : IsFiniteSet(StoresOf(assigned)) => GrandTotal(assigned)' = GrandTotal(assigned)
           /\ Candidates' = Candidates
<1>1. Matched' = Matched
      BY DEF SettingStays, Matched
<1>2. \A r, stores : Within(r, stores)' = Within(r, stores)
      BY DEF SettingStays, Within
<1>3. \A r, offer : PacksNeeded(r, offer)' = PacksNeeded(r, offer)
      BY DEF SettingStays, PacksNeeded
<1>4. \A r, offer : Cost(r, offer)' = Cost(r, offer)
      BY <1>3 DEF Cost
<1>5. \A r, offer : Assignment(r, offer)' = Assignment(r, offer)
      BY <1>3, <1>4 DEF Assignment
<1>6. ASSUME NEW r, NEW stores PROVE Cheapest(r, stores)' = Cheapest(r, stores)
      <2> DEFINE key == [k \in Within(r, stores) |-> <<Cost(r, offersByReq[r][k]), k>>]
      <2>1. key' = key
            BY <1>2, <1>4 DEF SettingStays
      <2>2. Cheapest(r, stores) = Assignment(r, offersByReq[r][Least(key)])
            BY DEF Cheapest
      <2>3. Cheapest(r, stores)' = Assignment(r, offersByReq[r][Least(key)])'
            BY DEF Cheapest
      <2> HIDE DEF key
      <2>4. (offersByReq[r][Least(key)])' = offersByReq[r][Least(key)]
            BY <2>1 DEF SettingStays
      <2> QED BY <1>5, <2>2, <2>3, <2>4
<1>7. \A stores : AssignCheapest(stores)' = AssignCheapest(stores)
      BY <1>2, <1>6 DEF AssignCheapest
<1>8. \A s : AtStore(s)' = AtStore(s)
      BY <1>7 DEF AtStore
<1>9. Carrying' = Carrying
      BY <1>2 DEF Carrying
<1>10. \A s, rs : Adds(s, rs)' = Adds(s, rs)
       BY <1>8 DEF Adds
<1>11. \A s, c : Fee(s, c)' = Fee(s, c)
       BY DEF SettingStays, Fee
<1>12. \A assigned : Fees(assigned)' = Fees(assigned)
       BY <1>11 DEF Fees
<1>13. (\A assigned : IsFiniteSet(StoresOf(assigned)) =>
           DeliveryTotal(assigned) = Sum(Fees(assigned), StoresOf(assigned)))'
       BY DeliveryIsSum, PTL
<1>14. ASSUME NEW assigned, IsFiniteSet(StoresOf(assigned))
       PROVE  GrandTotal(assigned)' = GrandTotal(assigned)
       <2>1. DeliveryTotal(assigned)' = DeliveryTotal(assigned)
             BY <1>12, <1>13, <1>14, DeliveryIsSum
       <2> QED BY <2>1 DEF GrandTotal
<1>15. Candidates' = Candidates
       BY <1>1, <1>8, <1>9 DEF Candidates
<1> QED BY <1>1, <1>8, <1>9, <1>10, <1>14, <1>15

\* When a store has everything the greedy cover is the cheapest such store alone,
\* and DELIVERY, which tries that store too, costs no more and saves no less.
THEOREM OneStopIsFound == Spec => []OneStop
<1> DEFINE Inv == SettingOK /\ OneStop
<1>1. Init => Inv
      BY ConstantsAssumption DEF Init, SettingOK, OneStop
<1>2. Inv /\ [Next]_vars => Inv'
      <2> SUFFICES ASSUME Inv, [Next]_vars PROVE Inv'
          OBVIOUS
      <2>1. SettingStays
            BY DEF Next, OptimizeAll, vars, SettingStays
      <2>2. SettingOK'
            BY <2>1 DEF SettingOK, SettingStays
      <2>3. /\ \A s : HasAll(s)' <=> HasAll(s)
            /\ \A s : Total(AtStore(s))' = Total(AtStore(s))
            BY <2>1, ComputedStays DEF HasAll
      <2>4. CASE OptimizeAll
            <3>1. results' = Answer
                  BY <2>4 DEF OptimizeAll, Answer
            <3>2. OneStop'
                  BY <2>3, <3>1, OneStopAnswer DEF OneStop
            <3> QED BY <2>2, <3>2
      <2>5. CASE UNCHANGED vars
            <3>1. results' = results
                  BY <2>5 DEF vars
            <3> QED BY <2>2, <2>3, <3>1 DEF OneStop
      <2> QED BY <2>4, <2>5 DEF Next
<1> QED BY <1>1, <1>2, PTL DEF Spec

-----------------------------------------------------------------------------
\* Two stores.

\* The total of two assignments with nothing in common.
LEMMA TotalMerged ==
    ASSUME NEW f, Bill(f), NEW g, Bill(g), DOMAIN f \cap DOMAIN g = {}
    PROVE  /\ Bill(Merge(f, g)) /\ DOMAIN Merge(f, g) = DOMAIN f \cup DOMAIN g
           /\ Total(Merge(f, g)) = Total(f) + Total(g)
<1> DEFINE A == DOMAIN f
           B == DOMAIN g
           m == Merge(f, g)
<1>1. DOMAIN m = A \cup B /\ (\A r \in A : m[r] = f[r]) /\ (\A r \in B : m[r] = g[r])
      BY DEF Merge
<1>2. Bill(m)
      BY <1>1 DEF Bill
<1>3. IsFiniteSet(A) /\ IsFiniteSet(B) /\ IsFiniteSet(A \cup B)
      BY RequirementsFinite, FS_Union DEF Bill
<1>4. /\ \A r \in A : Costs(m)[r] = Costs(f)[r] /\ Costs(m)[r] \in Int
      /\ \A r \in B : Costs(m)[r] = Costs(g)[r] /\ Costs(m)[r] \in Int
      BY <1>1 DEF Costs, Bill
<1>5. Total(m) = Sum(Costs(m), A \cup B) /\ Total(f) = Sum(Costs(f), A) /\ Total(g) = Sum(Costs(g), B)
      BY <1>1, <1>3, TotalIs
<1>6. A \cap B = {} /\ \A r \in A \cup B : Costs(m)[r] \in Int
      BY <1>4
<1> HIDE DEF A, B, m
<1>7. Sum(Costs(m), A \cup B) = Sum(Costs(m), A) + Sum(Costs(m), B)
      BY <1>3, <1>6, SumParts
<1>8. Sum(Costs(m), A) = Sum(Costs(f), A) /\ Sum(Costs(m), B) = Sum(Costs(g), B)
      BY <1>3, <1>4, SumSame
<1> QED BY <1>1, <1>2, <1>5, <1>7, <1>8 DEF A, B, m

\* All from one store: what is bought and its delivery.
FromStore(f, s) ==
    /\ DOMAIN f # {}
    /\ f = [r \in DOMAIN f |-> f[r]]
    /\ \A r \in DOMAIN f : f[r].offer.store = s

\* What is bought at one store costs its total and one fee.
LEMMA OneBill ==
    ASSUME SettingOK, NEW f, Bill(f), NEW s, FromStore(f, s)
    PROVE  StoresOf(f) = {s} /\ GrandTotal(f) = Total(f) + Fee(s, Total(f))
<1>1. StoresOf(f) = {s}
      BY DEF StoresOf, FromStore
<1>2. Subtotal(f, s) = Total(f)
      <2>1. Only(f, {r \in DOMAIN f : f[r].offer.store = s}) = f
            BY DEF Only, FromStore
      <2> QED BY <2>1 DEF Subtotal
<1>3. DeliveryTotal(f) = Sum(Fees(f), {s}) /\ IsFiniteSet({s})
      <2>1. IsFiniteSet({s})
            BY FS_Singleton
      <2>2. IsFiniteSet(StoresOf(f))
            BY <1>1, <2>1
      <2> QED BY <1>1, <2>1, <2>2, DeliveryIsSum
<1>4. Fees(f)[s] = Fee(s, Total(f)) /\ Fees(f)[s] \in Nat
      BY <1>1, <1>2, GrandType DEF Fees
<1>5. Sum(Fees(f), {s}) = Fees(f)[s] + Sum(Fees(f), {})
      <2>1. {s} \ {s} = {}
            OBVIOUS
      <2>2. \A x \in {s} : Fees(f)[x] \in Int
            BY <1>4
      <2> QED BY <1>3, <2>1, <2>2, SumTakes
<1>6. Sum(Fees(f), {}) = 0
      BY FS_EmptySet, SumStep
<1> QED BY <1>1, <1>3, <1>4, <1>5, <1>6 DEF GrandTotal

\* What is bought at two stores costs both totals and two fees.
LEMMA TwoBills ==
    ASSUME SettingOK, NEW f, Bill(f), NEW p, FromStore(f, p),
           NEW g, Bill(g), NEW q, FromStore(g, q), p # q, DOMAIN f \cap DOMAIN g = {}
    PROVE  /\ StoresOf(Merge(f, g)) = {p, q}
           /\ GrandTotal(Merge(f, g)) = GrandTotal(f) + (Total(g) + Fee(q, Total(g)))
<1> DEFINE m == Merge(f, g)
<1>1. DOMAIN m = DOMAIN f \cup DOMAIN g /\ Bill(m) /\ Total(m) = Total(f) + Total(g)
      BY TotalMerged
<1>2. (\A r \in DOMAIN f : m[r] = f[r]) /\ (\A r \in DOMAIN g : m[r] = g[r])
      BY DEF Merge
<1> HIDE DEF m
<1>3. StoresOf(m) = {p, q}
      BY <1>1, <1>2 DEF StoresOf, FromStore
<1>4. Subtotal(m, p) = Total(f)
      <2>1. {r \in DOMAIN m : m[r].offer.store = p} = DOMAIN f
            <3>1. \A r \in DOMAIN f : m[r].offer.store = p
                  BY <1>2 DEF FromStore
            <3>2. \A r \in DOMAIN g : m[r].offer.store = q
                  BY <1>2 DEF FromStore
            <3> QED BY <1>1, <3>1, <3>2
      <2>2. Only(m, DOMAIN f) = f
            BY <1>1, <1>2 DEF Only, FromStore
      <2> QED BY <2>1, <2>2 DEF Subtotal
<1>5. Subtotal(m, q) = Total(g)
      <2>1. {r \in DOMAIN m : m[r].offer.store = q} = DOMAIN g
            <3>1. \A r \in DOMAIN f : m[r].offer.store = p
                  BY <1>2 DEF FromStore
            <3>2. \A r \in DOMAIN g : m[r].offer.store = q
                  BY <1>2 DEF FromStore
            <3> QED BY <1>1, <3>1, <3>2
      <2>2. Only(m, DOMAIN g) = g
            BY <1>1, <1>2 DEF Only, FromStore
      <2> QED BY <2>1, <2>2 DEF Subtotal
<1>6. Fees(m)[p] = Fee(p, Total(f)) /\ Fees(m)[q] = Fee(q, Total(g))
      BY <1>3, <1>4, <1>5 DEF Fees
<1>7. Fees(m)[p] \in Nat /\ Fees(m)[q] \in Nat
      BY <1>1, <1>3, GrandType
<1>8. IsFiniteSet({p, q}) /\ IsFiniteSet({q}) /\ IsFiniteSet({})
      <2>1. IsFiniteSet({p}) /\ IsFiniteSet({q}) /\ IsFiniteSet({})
            BY FS_Singleton, FS_EmptySet
      <2>2. {p} \cup {q} = {p, q}
            OBVIOUS
      <2> QED BY <2>1, <2>2, FS_Union
<1>9. DeliveryTotal(m) = Fees(m)[p] + Fees(m)[q]
      <2>1. DeliveryTotal(m) = Sum(Fees(m), {p, q})
            BY <1>3, <1>8, DeliveryIs
      <2>2. Sum(Fees(m), {p, q}) = Fees(m)[p] + Sum(Fees(m), {q})
            <3>1. {p, q} \ {p} = {q} /\ \A x \in {p, q} : Fees(m)[x] \in Int
                  BY <1>7
            <3> QED BY <1>8, <3>1, SumTakes
      <2>3. Sum(Fees(m), {q}) = Fees(m)[q] + Sum(Fees(m), {})
            <3>1. {q} \ {q} = {} /\ \A x \in {q} : Fees(m)[x] \in Int
                  BY <1>7
            <3> QED BY <1>8, <3>1, SumTakes
      <2>4. Sum(Fees(m), {}) = 0
            BY <1>8, SumStep
      <2> QED BY <1>7, <2>1, <2>2, <2>3, <2>4
<1>10. GrandTotal(f) = Total(f) + Fee(p, Total(f))
       BY OneBill
<1>11. Total(f) \in Nat /\ Total(g) \in Nat
       BY TotalType
<1>12. GrandTotal(m) = (Total(f) + Total(g)) + (Fees(m)[p] + Fees(m)[q])
       BY <1>1, <1>9 DEF GrandTotal
<1> QED BY <1>3, <1>6, <1>7, <1>10, <1>11, <1>12 DEF m

\* What a store adds comes from it.
LEMMA AddsFrom ==
    ASSUME SettingOK, NEW s, NEW rs, DOMAIN Adds(s, rs) # {}
    PROVE  FromStore(Adds(s, rs), s)
<1>1. \A r \in DOMAIN Adds(s, rs) : Adds(s, rs)[r] = AtStore(s)[r] /\ r \in DOMAIN AtStore(s)
      BY DEF Adds, Only
<1>2. Adds(s, rs) = [r \in DOMAIN Adds(s, rs) |-> Adds(s, rs)[r]]
      BY DEF Adds, Only
<1> QED BY <1>1, <1>2, AtStoreIs DEF FromStore

\* The second store adds most of what is missing, at the least cost.
Seconds(p, missing) == {t \in Carrying \ {p} : DOMAIN Adds(t, missing) # {}}

\* The second store supplies as much of the rest as any.
LEMMA ComplementIs ==
    ASSUME SettingOK, NEW p, NEW missing, Seconds(p, missing) # {},
           NEW c, c = Complement(p, missing)
    PROVE  /\ c \in Seconds(p, missing)
           /\ \A s \in Seconds(p, missing) :
                 /\ Cardinality(DOMAIN Adds(c, missing)) >= Cardinality(DOMAIN Adds(s, missing))
                 /\ Cardinality(DOMAIN Adds(c, missing)) = Cardinality(DOMAIN Adds(s, missing))
                       => Total(Adds(c, missing)) + Fee(c, Total(Adds(c, missing)))
                             <= Total(Adds(s, missing)) + Fee(s, Total(Adds(s, missing)))
<1> DEFINE D == Seconds(p, missing)
           n == [s \in D |-> Cardinality(DOMAIN Adds(s, missing))]
           b == [s \in D |-> Total(Adds(s, missing)) + Fee(s, Total(Adds(s, missing)))]
           a == [s \in D |-> -Cardinality(DOMAIN Adds(s, missing))]
           key == [s \in D |-> <<-Cardinality(DOMAIN Adds(s, missing)),
                       Total(Adds(s, missing)) + Fee(s, Total(Adds(s, missing)))>> \o Position(s)]
<1>1. ASSUME NEW s \in D
      PROVE  Cardinality(DOMAIN Adds(s, missing)) \in Nat
             /\ Total(Adds(s, missing)) + Fee(s, Total(Adds(s, missing))) \in Nat
      <2>1. Cardinality(DOMAIN Adds(s, missing)) \in Nat /\ Total(Adds(s, missing)) \in Nat
            BY AddsAre
      <2>2. delivery[s].fee \in Nat
            BY DEF SettingOK, Seconds, Carrying
      <2>3. Fee(s, Total(Adds(s, missing))) \in Nat
            BY <2>2 DEF Fee
      <2> QED BY <2>1, <2>3
<1>2. a \in [D -> Int] /\ b \in [D -> Int]
      BY <1>1
<1>3. key = [s \in D |-> <<a[s], b[s]>> \o Position(s)]
      OBVIOUS
<1>4. c = Least(key)
      BY DEF Complement, Seconds
<1>5. \A s \in D : /\ a[s] = -n[s] /\ n[s] \in Nat
                   /\ n[s] = Cardinality(DOMAIN Adds(s, missing))
                   /\ b[s] = Total(Adds(s, missing)) + Fee(s, Total(Adds(s, missing)))
      BY <1>1
<1>6. D \subseteq Carrying /\ D # {}
      BY DEF Seconds
<1> HIDE DEF a, b, n, key, D
<1>7. c \in D /\ \A s \in D : a[c] <= a[s] /\ (a[c] = a[s] => b[c] <= b[s])
      <2>1. KeyedBy(key, D, a, b)
            BY <1>2, <1>3, <1>6 DEF KeyedBy
      <2> QED BY <1>4, <2>1, LeastByTwo
<1>8. c \in D /\ \A s \in D : n[c] >= n[s] /\ (n[c] = n[s] => b[c] <= b[s])
      BY <1>5, <1>7
<1> QED BY <1>5, <1>8 DEF D

\* No second store that supplies as much of what is missing costs less than the
\* complement, and the two are two stores at most.
LEMMA FilledIsBest ==
    ASSUME SettingOK, NEW p \in Candidates
    PROVE  /\ Cardinality(StoresOf(Filled(p))) <= 2
           /\ \A q \in Stores :
                 LET missing == Matched \ DOMAIN AtStore(p) IN
                 (p # q /\ \A t \in Stores \ {p} :
                     Cardinality(DOMAIN Adds(t, missing)) <= Cardinality(DOMAIN Adds(q, missing)))
                 => GrandTotal(Filled(p)) <= GrandTotal(Merge(AtStore(p), Adds(q, missing)))
<1> DEFINE own == AtStore(p)
           missing == Matched \ DOMAIN own
           D == Seconds(p, missing)
           n == [s \in D |-> Cardinality(DOMAIN Adds(s, missing))]
           b == [s \in D |-> Total(Adds(s, missing)) + Fee(s, Total(Adds(s, missing)))]
<1>1. Bill(own) /\ p \in Stores /\ FromStore(own, p) /\ GrandTotal(own) \in Nat
      <2>1. Bill(own) /\ p \in Carrying
            BY FilledIs DEF Candidates
      <2>2. DOMAIN own # {} /\ p \in Stores
            BY <2>1, AtStoreIs DEF Carrying, CarriedBy
      <2> QED BY <2>1, <2>2, AtStoreIs, GrandType DEF FromStore
<1>2. ASSUME NEW s
      PROVE  /\ Bill(Adds(s, missing)) /\ DOMAIN own \cap DOMAIN Adds(s, missing) = {}
             /\ Cardinality(DOMAIN Adds(s, missing)) \in Nat /\ IsFiniteSet(DOMAIN Adds(s, missing))
             /\ DOMAIN Adds(s, missing) = CarriedBy(s) \cap missing
      <2>1. Bill(Adds(s, missing)) /\ Cardinality(DOMAIN Adds(s, missing)) \in Nat
             /\ DOMAIN Adds(s, missing) = CarriedBy(s) \cap missing
            BY AddsAre DEF CarriedBy
      <2>2. IsFiniteSet(DOMAIN Adds(s, missing))
            BY <2>1, RequirementsFinite DEF Bill
      <2> QED BY <2>1, <2>2
<1>3. ASSUME NEW s \in Stores, s # p, DOMAIN Adds(s, missing) # {}
      PROVE  /\ s \in D
             /\ StoresOf(Merge(own, Adds(s, missing))) = {p, s}
             /\ GrandTotal(Merge(own, Adds(s, missing))) = GrandTotal(own) + b[s]
      <2>1. s \in D
            BY <1>2, <1>3 DEF Seconds, Carrying, CarriedBy
      <2>2. FromStore(Adds(s, missing), s)
            BY <1>3, AddsFrom
      <2>3. b[s] = Total(Adds(s, missing)) + Fee(s, Total(Adds(s, missing)))
            BY <2>1
      <2> DEFINE g == Adds(s, missing)
      <2>4. Bill(g) /\ DOMAIN own \cap DOMAIN g = {} /\ FromStore(g, s)
            BY <1>2, <2>2
      <2> HIDE DEF own, g
      <2>5. StoresOf(Merge(own, g)) = {p, s}
              /\ GrandTotal(Merge(own, g)) = GrandTotal(own) + (Total(g) + Fee(s, Total(g)))
            BY <1>1, <1>3, <2>4, TwoBills
      <2> HIDE DEF b, D
      <2> QED BY <2>1, <2>3, <2>5 DEF g
<1>4. ASSUME NEW s, DOMAIN Adds(s, missing) = {}
      PROVE  Merge(own, Adds(s, missing)) = own
      <2>1. own = [r \in DOMAIN own |-> own[r]]
            BY <1>1 DEF FromStore
      <2> HIDE DEF own, missing
      <2> QED BY <1>4, <2>1 DEF Merge
<1>5. CASE D = {}
      <2>1. Filled(p) = own
            BY <1>5 DEF Filled, Seconds
      <2>2. StoresOf(own) = {p} /\ Cardinality({p}) = 1
            BY <1>1, OneBill, FS_Singleton
      <2>3. ASSUME NEW q \in Stores, p # q PROVE Merge(own, Adds(q, missing)) = own
            <3>1. DOMAIN Adds(q, missing) = {}
                  BY <1>3, <1>5, <2>3
            <3> QED BY <1>4, <3>1
      <2> HIDE DEF own
      <2> QED BY <1>1, <2>1, <2>2, <2>3 DEF own
<1>6. CASE D # {}
      <2> DEFINE c == Complement(p, missing)
      <2>1. c \in D /\ \A s \in D : n[c] >= n[s] /\ (n[c] = n[s] => b[c] <= b[s])
            BY <1>6, ComplementIs
      <2>2. Filled(p) = Merge(own, Adds(c, missing))
            BY <1>6 DEF Filled, Seconds
      <2>3. c \in Stores /\ c # p /\ DOMAIN Adds(c, missing) # {}
            BY <2>1 DEF Seconds, Carrying
      <2>4. StoresOf(Filled(p)) = {p, c} /\ GrandTotal(Filled(p)) = GrandTotal(own) + b[c]
            BY <1>3, <2>2, <2>3
      <2>5. Cardinality({p, c}) = 2
            <3>1. {p} \cup {c} = {p, c} /\ IsFiniteSet({p}) /\ Cardinality({p}) = 1
                  BY FS_Singleton
            <3> HIDE DEF c
            <3>2. Cardinality({p} \cup {c}) = Cardinality({p}) + 1
                  BY <2>3, <3>1, FS_AddElement
            <3> QED BY <3>1, <3>2
      <2>6. ASSUME NEW q \in Stores, p # q,
                   \A t \in Stores \ {p} :
                      Cardinality(DOMAIN Adds(t, missing)) <= Cardinality(DOMAIN Adds(q, missing))
            PROVE  GrandTotal(Filled(p)) <= GrandTotal(Merge(own, Adds(q, missing)))
            <3>1. Cardinality(DOMAIN Adds(c, missing)) <= Cardinality(DOMAIN Adds(q, missing))
                  BY <2>3, <2>6
            <3> DEFINE x == DOMAIN Adds(c, missing)
                       y == DOMAIN Adds(q, missing)
            <3>2. /\ IsFiniteSet(x) /\ Cardinality(x) \in Nat /\ x # {}
                  /\ IsFiniteSet(y) /\ Cardinality(y) \in Nat
                  BY <1>2, <2>3
            <3>3. DOMAIN Adds(q, missing) # {}
                  <4>1. Cardinality(x) <= Cardinality(y)
                        BY <3>1
                  <4> HIDE DEF x, y
                  <4>2. y # {}
                        BY <3>2, <4>1, FS_EmptySet
                  <4> QED BY <4>2 DEF y
            <3>4. q \in D /\ GrandTotal(Merge(own, Adds(q, missing))) = GrandTotal(own) + b[q]
                  BY <1>3, <2>6, <3>3
            <3>5. n[c] = Cardinality(DOMAIN Adds(c, missing)) /\ n[q] = Cardinality(DOMAIN Adds(q, missing))
                  BY <2>1, <3>4
            <3>6. n[c] = n[q]
                  <4>1. n[c] >= n[q] /\ n[c] = Cardinality(x) /\ n[q] = Cardinality(y)
                          /\ Cardinality(x) <= Cardinality(y)
                        BY <2>1, <3>1, <3>4, <3>5
                  <4> HIDE DEF n, x, y, c
                  <4> QED BY <3>2, <4>1
            <3>7. b[c] <= b[q]
                  BY <2>1, <3>4, <3>6
            <3>8. b[c] \in Int /\ b[q] \in Int
                  <4>1. ASSUME NEW s \in Stores PROVE Total(Adds(s, missing)) + Fee(s, Total(Adds(s, missing))) \in Int
                        <5>1. Total(Adds(s, missing)) \in Nat /\ delivery[s].fee \in Nat
                              BY AddsAre DEF SettingOK
                        <5> QED BY <5>1 DEF Fee
                  <4> QED BY <2>1, <2>3, <3>4, <4>1
            <3> HIDE DEF b, n, own, missing, c, D
            <3> QED BY <1>1, <2>4, <3>4, <3>7, <3>8
      <2> HIDE DEF b, n, c, D
      <2> QED BY <2>4, <2>5, <2>6
<1> QED BY <1>5, <1>6

\* The second store supplies as much of what the first misses as any.
MostMissing(p, q) ==
    LET missing == Matched \ DOMAIN AtStore(p) IN
    /\ p # q
    /\ \A t \in Stores \ {p} :
          Cardinality(DOMAIN Adds(t, missing)) <= Cardinality(DOMAIN Adds(q, missing))

Both(p, q) == Merge(AtStore(p), Adds(q, Matched \ DOMAIN AtStore(p)))

\* What two stores supply has costs and stores.
LEMMA BothBill ==
    ASSUME SettingOK, NEW p, NEW q
    PROVE  Bill(Both(p, q)) /\ IsFiniteSet(StoresOf(Both(p, q)))
<1>1. Bill(AtStore(p)) /\ Bill(Adds(q, Matched \ DOMAIN AtStore(p)))
      BY FilledIs, AddsAre
<1>2. ASSUME NEW f, Bill(f), NEW g, Bill(g) PROVE Bill(Merge(f, g))
      BY <1>2 DEF Bill, Merge
<1>3. Bill(Both(p, q))
      BY <1>1, <1>2 DEF Both
<1>4. StoresOf(Both(p, q)) \subseteq Stores
      BY <1>3 DEF StoresOf, Bill
<1> QED BY <1>3, <1>4, StoresFinite

\* The answer of DELIVERY when a store has 60 percent.
LEMMA DeliveryAnswer ==
    ASSUME SettingOK, Candidates # {}
    PROVE  /\ Cardinality(Answer["DELIVERY"].stores) <= 2
           /\ \A p \in Candidates, q \in Stores :
                 MostMissing(p, q) => Answer["DELIVERY"].grandTotalCents <= GrandTotal(Both(p, q))
<1>1. PICK best \in Candidates :
              /\ Delivery = Filled(best)
              /\ \A s \in Candidates : GrandTotal(Filled(best)) <= GrandTotal(Filled(s))
      BY BestIs
<1>2. Answer["DELIVERY"].stores = StoresOf(Filled(best))
        /\ Answer["DELIVERY"].grandTotalCents = GrandTotal(Filled(best))
      BY <1>1 DEF Answer, Strategies, Assign, Result
<1>3. ASSUME NEW p \in Candidates, NEW q \in Stores, MostMissing(p, q)
      PROVE  GrandTotal(Filled(best)) <= GrandTotal(Both(p, q))
      <2>1. GrandTotal(Filled(p)) <= GrandTotal(Both(p, q))
            BY <1>3, FilledIsBest DEF MostMissing, Both
      <2>2. GrandTotal(Filled(best)) <= GrandTotal(Filled(p))
            BY <1>1
      <2>3. GrandTotal(Filled(best)) \in Nat /\ GrandTotal(Filled(p)) \in Nat
             /\ GrandTotal(Both(p, q)) \in Nat
            BY FilledIs, BothBill, GrandType
      <2> QED BY <2>1, <2>2, <2>3
<1> QED BY <1>2, <1>3, FilledIsBest

\* No store of 60 percent, with a second that supplies as much of the rest as
\* any, costs less with delivery than what DELIVERY chose.
THEOREM DeliveryIsLeast == Spec => []DeliveryIsBest
<1> DEFINE Inv == SettingOK /\ DeliveryIsBest
<1>1. Init => Inv
      BY ConstantsAssumption DEF Init, SettingOK, DeliveryIsBest
<1>2. Inv /\ [Next]_vars => Inv'
      <2> SUFFICES ASSUME Inv, [Next]_vars PROVE Inv'
          OBVIOUS
      <2>1. SettingStays
            BY DEF Next, OptimizeAll, vars, SettingStays
      <2>2. SettingOK'
            BY <2>1 DEF SettingOK, SettingStays
      <2>3. Candidates' = Candidates /\ (\A p, q : MostMissing(p, q)' <=> MostMissing(p, q))
            BY <2>1, ComputedStays DEF MostMissing
      <2>4. ASSUME NEW p, NEW q PROVE GrandTotal(Both(p, q))' = GrandTotal(Both(p, q))
            <3> DEFINE x == Both(p, q)
            <3>1. x' = x
                  BY <2>1, ComputedStays DEF Both
            <3>2. IsFiniteSet(StoresOf(x))
                  BY BothBill
            <3> HIDE DEF x
            <3>3. \A y : IsFiniteSet(StoresOf(y)) => GrandTotal(y)' = GrandTotal(y)
                  BY <2>1, ComputedStays
            <3>4. GrandTotal(x)' = GrandTotal(x)
                  BY <3>1, <3>2, <3>3
            <3> QED BY <3>4 DEF x
      <2>5. DeliveryIsBest' <=>
              (results' # <<>> /\ Candidates' # {} =>
                 /\ Cardinality(results'["DELIVERY"].stores) <= 2
                 /\ \A p \in Candidates', q \in Stores :
                       MostMissing(p, q)' => results'["DELIVERY"].grandTotalCents <= GrandTotal(Both(p, q))')
            BY DEF DeliveryIsBest, MostMissing, Both
      <2>6. CASE OptimizeAll
            <3>1. results' = Answer
                  BY <2>6 DEF OptimizeAll, Answer
            <3>2. DeliveryIsBest'
                  BY <2>3, <2>4, <2>5, <3>1, DeliveryAnswer
            <3> QED BY <2>2, <3>2
      <2>7. CASE UNCHANGED vars
            <3>1. results' = results
                  BY <2>7 DEF vars
            <3>2. DeliveryIsBest <=>
              (results # <<>> /\ Candidates # {} =>
                 /\ Cardinality(results["DELIVERY"].stores) <= 2
                 /\ \A p \in Candidates, q \in Stores :
                       MostMissing(p, q) => results["DELIVERY"].grandTotalCents <= GrandTotal(Both(p, q)))
                  BY DEF DeliveryIsBest, MostMissing, Both
            <3>3. DeliveryIsBest'
                  BY <2>3, <2>4, <2>5, <3>1, <3>2
            <3> QED BY <2>2, <3>3
      <2> QED BY <2>6, <2>7 DEF Next
<1> QED BY <1>1, <1>2, PTL DEF Spec

-----------------------------------------------------------------------------
\* The pantry: what a usage log says.

Actions == {"adjusted", "consumed", "wasted"}
LogEntry == [action : Actions, delta : Int]

\* What a log says: the sum of its adjustments, and how often it ends.
Positions(log, action) == {k \in DOMAIN log : log[k].action = action}
Deltas(log) == [k \in DOMAIN log |-> log[k].delta]
Adjustments(log) == Sum(Deltas(log), Positions(log, "adjusted"))
Times(log, action) == Cardinality(Positions(log, action))

\* A log has finitely many entries, and what it sums is a number.
LEMMA PositionsFinite ==
    ASSUME NEW log \in Seq(LogEntry), NEW action
    PROVE  /\ IsFiniteSet(Positions(log, action)) /\ Times(log, action) \in Nat
           /\ \A k \in DOMAIN log : Deltas(log)[k] \in Int
           /\ Adjustments(log) \in Int
<1>1. DOMAIN log = 1..Len(log) /\ Len(log) \in Nat /\ \A k \in DOMAIN log : log[k] \in LogEntry
      OBVIOUS
<1>2. IsFiniteSet(DOMAIN log)
      BY <1>1, FS_Interval
<1>3. \A a : IsFiniteSet(Positions(log, a))
      BY <1>2, FS_Subset DEF Positions
<1>4. \A k \in DOMAIN log : Deltas(log)[k] \in Int
      BY <1>1 DEF Deltas, LogEntry
<1>5. Adjustments(log) \in Int
      <2>1. \A k \in Positions(log, "adjusted") : Deltas(log)[k] \in Int
            BY <1>4 DEF Positions
      <2> QED BY <1>3, <2>1, SumType DEF Adjustments
<1> QED BY <1>3, <1>4, <1>5, FS_CardinalityType DEF Times

\* One more entry.
LEMMA LogGrows ==
    ASSUME NEW log \in Seq(LogEntry), NEW e \in LogEntry
    PROVE  /\ Append(log, e) \in Seq(LogEntry)
           /\ Adjustments(Append(log, e)) =
                 Adjustments(log) + (IF e.action = "adjusted" THEN e.delta ELSE 0)
           /\ \A a \in Actions : Times(Append(log, e), a) =
                 Times(log, a) + (IF e.action = a THEN 1 ELSE 0)
<1> DEFINE n == Len(log) + 1
           more == Append(log, e)
<1>1. /\ more \in Seq(LogEntry) /\ DOMAIN more = DOMAIN log \cup {n} /\ n \notin DOMAIN log
      /\ more[n] = e /\ \A k \in DOMAIN log : more[k] = log[k]
      OBVIOUS
<1> HIDE DEF more, n
<1>2. \A a : Positions(more, a) = Positions(log, a) \cup (IF e.action = a THEN {n} ELSE {})
      BY <1>1 DEF Positions
<1>3. \A a : n \notin Positions(log, a)
      BY <1>1 DEF Positions
<1>4. ASSUME NEW a \in Actions PROVE Times(more, a) = Times(log, a) + (IF e.action = a THEN 1 ELSE 0)
      <2>1. IsFiniteSet(Positions(log, a)) /\ Times(log, a) \in Nat
            BY PositionsFinite
      <2>2. CASE e.action = a
            <3>1. Cardinality(Positions(log, a) \cup {n}) = Cardinality(Positions(log, a)) + 1
                  BY <1>3, <2>1, FS_AddElement
            <3> QED BY <1>2, <2>2, <3>1 DEF Times
      <2>3. CASE e.action # a
            <3>1. Positions(more, a) = Positions(log, a)
                  BY <1>2, <2>3
            <3> QED BY <2>1, <2>3, <3>1 DEF Times
      <2> QED BY <2>2, <2>3
<1>5. Adjustments(more) = Adjustments(log) + (IF e.action = "adjusted" THEN e.delta ELSE 0)
      <2> DEFINE P == Positions(log, "adjusted")
      <2>1. IsFiniteSet(P) /\ P \subseteq DOMAIN log /\ Adjustments(log) \in Int
            BY PositionsFinite DEF Positions
      <2>2. \A k \in P : Deltas(more)[k] = Deltas(log)[k]
            BY <1>1, <2>1 DEF Deltas
      <2>3. Sum(Deltas(more), P) = Adjustments(log)
            <3>1. Adjustments(log) = Sum(Deltas(log), P)
                  BY DEF Adjustments
            <3> HIDE DEF P
            <3> QED BY <2>1, <2>2, <3>1, SumSame
      <2>4. CASE e.action = "adjusted"
            <3>1. Positions(more, "adjusted") = P \cup {n}
                  BY <1>2, <2>4
            <3>2. IsFiniteSet(P \cup {n}) /\ (P \cup {n}) \ {n} = P
                  BY <1>3, <2>1, FS_AddElement
            <3>3. \A k \in P \cup {n} : Deltas(more)[k] \in Int
                  BY <1>1, <2>1, PositionsFinite
            <3>4. Deltas(more)[n] = e.delta
                  BY <1>1 DEF Deltas
            <3> HIDE DEF P
            <3>5. Sum(Deltas(more), P \cup {n}) = Deltas(more)[n] + Sum(Deltas(more), P)
                  BY <3>2, <3>3, SumTakes
            <3>6. e.delta \in Int
                  BY DEF LogEntry
            <3>7. Adjustments(more) = Sum(Deltas(more), P \cup {n})
                  BY <3>1 DEF Adjustments
            <3> QED BY <2>1, <2>3, <2>4, <3>4, <3>5, <3>6, <3>7
      <2>5. CASE e.action # "adjusted"
            <3>1. Positions(more, "adjusted") = P
                  BY <1>2, <2>5
            <3> HIDE DEF P
            <3> QED BY <2>1, <2>3, <2>5, <3>1 DEF Adjustments
      <2> QED BY <2>4, <2>5
<1> QED BY <1>1, <1>4, <1>5 DEF more

\* A log that has just begun says nothing.
LEMMA LogStart ==
    <<>> \in Seq(LogEntry) /\ Adjustments(<<>>) = 0 /\ \A a : Times(<<>>, a) = 0
<1>1. \A a : Positions(<<>>, a) = {}
      BY DEF Positions
<1>2. IsFiniteSet({}) /\ Cardinality({}) = 0
      BY FS_EmptySet
<1>3. \A f : Sum(f, {}) = 0
      BY <1>2, SumStep
<1>4. Adjustments(<<>>) = 0
      BY <1>1, <1>3 DEF Adjustments
<1>5. \A a : Times(<<>>, a) = 0
      BY <1>1, <1>2 DEF Times
<1> QED BY <1>4, <1>5

-----------------------------------------------------------------------------
\* A row with its columns.
IsRow(row) ==
    /\ row = [owner |-> row.owner, ingredient |-> row.ingredient, qty |-> row.qty,
              unit |-> row.unit, consumed |-> row.consumed, wasted |-> row.wasted,
              source |-> row.source]
    /\ row.qty \in Nat /\ row.consumed \in BOOLEAN /\ row.wasted \in BOOLEAN

\* What a log says of a row that began with the quantity first.
LogFits(row, first, log) ==
    /\ row.qty = first + Adjustments(log)
    /\ Times(log, "wasted") = (IF row.wasted THEN 1 ELSE 0)
    /\ Times(log, "consumed") <= (IF row.consumed THEN 1 ELSE 0)

PantryTypes ==
    /\ larder = [i \in Items |-> larder[i]]
    /\ usage \in [Items -> Seq(LogEntry)] /\ started \in [Items -> Int]
    /\ edit = [h \in Handlers |-> edit[h]] /\ scanning = [h \in Handlers |-> scanning[h]]
    /\ \A i \in Present : IsRow(larder[i])

\* An update holds the row as it is now, unless its item was overlapped on.
EditsHeld ==
    \A h \in Handlers : edit[h].on # Nothing =>
        /\ edit[h].on \in Items /\ edit[h].asks \in Changes /\ IsRow(edit[h].read)
        /\ edit[h].on \in Present \ crossed => edit[h].read = larder[edit[h].on]

\* Two updates of one item are recorded as having overlapped.
Apart ==
    \A g, h \in Handlers :
        g # h /\ edit[g].on # Nothing /\ edit[g].on = edit[h].on => edit[g].on \in crossed

\* A scan under way holds an answer and some of its positions.
ScansHeld ==
    \A h \in Handlers : scanning[h] # Nothing =>
        \E answer \in ScanAnswers : \E left \in SUBSET DOMAIN answer :
           left # {} /\ \E u : scanning[h] = [user |-> u, seen |-> answer, left |-> left]

\* The log fits the row, for every item no two updates overlapped on.
LogsFit == \A i \in Present \ crossed : LogFits(larder[i], started[i], usage[i])

PantryInv == PantryTypes /\ EditsHeld /\ Apart /\ ScansHeld /\ LogsFit

\* The invariant holds at first.
LEMMA PantryInvInit == PantryInit => PantryInv
BY DEF PantryInit, PantryInv, PantryTypes, EditsHeld, Apart, ScansHeld, LogsFit, Present, NoEdit, LogEntry

\* A row as it is created, with an empty log.
LEMMA NewRow ==
    ASSUME NEW u, NEW e, IsEntry(e), e.qty >= 0, NEW source
    PROVE  /\ IsRow(Row(u, e, source)) /\ Row(u, e, source).qty \in Nat
           /\ LogFits(Row(u, e, source), Row(u, e, source).qty, <<>>)
<1>1. IsRow(Row(u, e, source)) /\ Row(u, e, source).qty \in Nat
      BY DEF Row, IsRow, IsEntry
<1>2. ~Row(u, e, source).wasted /\ ~Row(u, e, source).consumed
      BY DEF Row
<1> QED BY <1>1, <1>2, LogStart DEF LogFits

\* What an update adds to the log.
LEMMA LogOf ==
    ASSUME NEW read, IsRow(read), NEW ask \in Changes, NEW log \in Seq(LogEntry)
    PROVE  LET a == Adjusted(ask, read)
               e == Ended(ask, read)
               more == log \o a \o e
               changed == ask.qty # Nothing /\ ask.qty # read.qty
               ends == IF ask.wasted /\ ~read.wasted THEN "wasted"
                       ELSE IF ask.consumed /\ ~read.consumed THEN "consumed" ELSE "none"
           IN  /\ more \in Seq(LogEntry)
               /\ a # <<>> <=> changed
               /\ changed => ask.qty \in Nat
               /\ e # <<>> <=> ends # "none"
               /\ e # <<>> => e[1].action = ends
               /\ Adjustments(more) = Adjustments(log) + (IF changed THEN ask.qty - read.qty ELSE 0)
               /\ \A x \in {"wasted", "consumed"} :
                     Times(more, x) = Times(log, x) + (IF ends = x THEN 1 ELSE 0)
<1> DEFINE a == Adjusted(ask, read)
           e == Ended(ask, read)
           changed == ask.qty # Nothing /\ ask.qty # read.qty
           ends == IF ask.wasted /\ ~read.wasted THEN "wasted"
                   ELSE IF ask.consumed /\ ~read.consumed THEN "consumed" ELSE "none"
           adjusted == [action |-> "adjusted", delta |-> ask.qty - read.qty]
           ended == [action |-> ends, delta |-> -read.qty]
           mid == log \o a
           more == mid \o e
<1>1. /\ ask.qty \in Nat \cup {Nothing} /\ ask.wasted \in BOOLEAN /\ ask.consumed \in BOOLEAN
      /\ read.qty \in Nat
      BY PantryAssumption DEF IsRow
<1>2. a = IF changed THEN <<adjusted>> ELSE <<>>
      BY DEF Adjusted
<1>3. e = IF ends # "none" THEN <<ended>> ELSE <<>>
      BY DEF Ended
<1>4. changed => ask.qty \in Nat /\ adjusted \in LogEntry
      BY <1>1 DEF LogEntry, Actions
<1>5. ends \in {"wasted", "consumed", "none"} /\ (ends # "none" => ended \in LogEntry)
      BY <1>1 DEF LogEntry, Actions
<1>6. adjusted.action = "adjusted" /\ adjusted.delta = ask.qty - read.qty /\ ended.action = ends
      OBVIOUS
<1> HIDE DEF a, e, changed, ends, adjusted, ended
<1>7. /\ mid \in Seq(LogEntry)
      /\ Adjustments(mid) = Adjustments(log) + (IF changed THEN ask.qty - read.qty ELSE 0)
      /\ Times(mid, "wasted") = Times(log, "wasted")
      /\ Times(mid, "consumed") = Times(log, "consumed")
      <2>1. CASE changed
            <3>1. mid = Append(log, adjusted)
                  BY <1>2, <1>4, <2>1
            <3>2. Times(log, "wasted") \in Nat /\ Times(log, "consumed") \in Nat
                  BY PositionsFinite
            <3> QED BY <1>4, <1>6, <2>1, <3>1, <3>2, LogGrows DEF Actions
      <2>2. CASE ~changed
            <3>1. mid = log
                  BY <1>2, <2>2
            <3>2. Adjustments(log) \in Int
                  BY PositionsFinite
            <3> QED BY <2>2, <3>1, <3>2
      <2> QED BY <2>1, <2>2
<1> HIDE DEF mid
<1>8. /\ more \in Seq(LogEntry) /\ Adjustments(more) = Adjustments(mid)
      /\ \A x \in {"wasted", "consumed"} :
            Times(more, x) = Times(mid, x) + (IF ends = x THEN 1 ELSE 0)
      <2>1. CASE ends # "none"
            <3>1. more = Append(mid, ended)
                  BY <1>3, <1>5, <1>7, <2>1
            <3>2. Adjustments(mid) \in Int
                  BY <1>7, PositionsFinite
            <3>3. ends # "adjusted"
                  BY <1>5
            <3> QED BY <1>5, <1>6, <1>7, <2>1, <3>1, <3>2, <3>3, LogGrows DEF Actions
      <2>2. CASE ends = "none"
            <3>1. more = mid
                  BY <1>3, <1>7, <2>2
            <3>2. Times(mid, "wasted") \in Nat /\ Times(mid, "consumed") \in Nat
                  BY <1>7, PositionsFinite
            <3> QED BY <1>7, <2>2, <3>1, <3>2
      <2> QED BY <2>1, <2>2
<1>9. (a # <<>> <=> changed) /\ (e # <<>> <=> ends # "none") /\ (e # <<>> => e[1].action = ends)
      BY <1>2, <1>3, <1>6
<1> QED BY <1>4, <1>7, <1>8, <1>9 DEF a, e, changed, ends, mid

\* A new row under an id no update is about.
LEMMA PutKeeps ==
    ASSUME PantryInv, NEW i \in Items, FreeId(i), NEW row, IsRow(row),
           LogFits(row, row.qty, <<>>), Put(i, row), edit' = edit,
           scanning' = [h \in Handlers |-> scanning'[h]]
    PROVE  PantryTypes' /\ EditsHeld' /\ Apart' /\ LogsFit'
<1>1. larder' = [j \in Items |-> IF j = i THEN row ELSE larder[j]]
      BY DEF Put, PantryInv, PantryTypes
<1>2. Present' \subseteq Present \cup {i} /\ \A j \in Present' \ {i} : larder'[j] = larder[j]
      BY <1>1 DEF Present
<1>3. crossed' = crossed \ {i} /\ started' = [started EXCEPT ![i] = row.qty]
      /\ usage' = [usage EXCEPT ![i] = <<>>]
      BY DEF Put
<1>4. \A h \in Handlers : edit[h].on # i
      BY DEF FreeId
<1>5. usage' \in [Items -> Seq(LogEntry)] /\ started' \in [Items -> Int]
      BY <1>3, LogStart DEF PantryInv, PantryTypes, IsRow
<1>6. \A j \in Present' : IsRow(larder'[j])
      BY <1>1, <1>2 DEF PantryInv, PantryTypes
<1>7. edit' = [h \in Handlers |-> edit'[h]]
      BY DEF PantryInv, PantryTypes
<1>8. EditsHeld'
      BY <1>2, <1>3, <1>4 DEF PantryInv, EditsHeld
<1>9. Apart'
      BY <1>3, <1>4 DEF PantryInv, Apart
<1>10. LogsFit'
       <2>1. ASSUME NEW j \in Present' \ crossed' PROVE LogFits(larder'[j], started'[j], usage'[j])
             <3>1. CASE j = i
                   BY <1>1, <1>3, <3>1 DEF PantryInv, PantryTypes
             <3>2. CASE j # i
                   <4>1. j \in Present \ crossed /\ larder'[j] = larder[j]
                         BY <1>2, <1>3, <2>1, <3>2
                   <4>2. started'[j] = started[j] /\ usage'[j] = usage[j]
                         BY <1>3, <3>2, <4>1 DEF PantryInv, PantryTypes, Present
                   <4> QED BY <4>1, <4>2 DEF PantryInv, LogsFit
             <3> QED BY <3>1, <3>2
       <2> QED BY <2>1 DEF LogsFit
<1> HIDE DEF PantryInv
<1>11. larder' = [j \in Items |-> larder'[j]]
       BY <1>1
<1>12. scanning' = [h \in Handlers |-> scanning'[h]] => PantryTypes'
       BY <1>5, <1>6, <1>7, <1>11 DEF PantryTypes
<1> QED BY <1>8, <1>9, <1>10, <1>12

\* An entry and a row with some fields replaced.
LEMMA EntryChanged ==
    ASSUME NEW e, e = [name |-> e.name, qty |-> e.qty, unit |-> e.unit], NEW q, NEW u
    PROVE  [e EXCEPT !.qty = q, !.unit = u] = [name |-> e.name, qty |-> q, unit |-> u]
<1> DEFINE n == e.name
           b == e.qty
           c == e.unit
<1>1. e = [name |-> n, qty |-> b, unit |-> c]
      OBVIOUS
<1> HIDE DEF n, b, c
<1>2. [e EXCEPT !.qty = q] = [[name |-> n, qty |-> b, unit |-> c] EXCEPT !.qty = q]
      BY <1>1, Zenon
<1>3. [[name |-> n, qty |-> b, unit |-> c] EXCEPT !.qty = q] = [name |-> n, qty |-> q, unit |-> c]
      OBVIOUS
<1>4. [[e EXCEPT !.qty = q] EXCEPT !.unit = u] = [[name |-> n, qty |-> q, unit |-> c] EXCEPT !.unit = u]
      BY <1>2, <1>3, Zenon
<1>5. [[name |-> n, qty |-> q, unit |-> c] EXCEPT !.unit = u] = [name |-> n, qty |-> q, unit |-> u]
      OBVIOUS
<1> QED BY <1>4, <1>5, Zenon DEF n

\* What an update writes, as a row.
LEMMA RowChanged ==
    ASSUME NEW row, IsRow(row), NEW ask, NEW read
    PROVE  LET a == Adjusted(ask, read)
               e == Ended(ask, read)
           IN  Written(row, ask, read) =
                  [owner |-> row.owner, ingredient |-> row.ingredient,
                   qty |-> IF a # <<>> THEN ask.qty ELSE row.qty, unit |-> row.unit,
                   consumed |-> row.consumed \/ e # <<>>,
                   wasted |-> row.wasted \/ (e # <<>> /\ e[1].action = "wasted"),
                   source |-> row.source]
<1> DEFINE q == IF Adjusted(ask, read) # <<>> THEN ask.qty ELSE row.qty
           c == row.consumed \/ Ended(ask, read) # <<>>
           w == row.wasted \/ (Ended(ask, read) # <<>> /\ Ended(ask, read)[1].action = "wasted")
           o == row.owner
           g == row.ingredient
           p == row.qty
           u == row.unit
           d == row.consumed
           v == row.wasted
           s == row.source
           R(x, y, z) == [owner |-> o, ingredient |-> g, qty |-> x, unit |-> u,
                          consumed |-> y, wasted |-> z, source |-> s]
<1>1. row = R(p, d, v)
      BY DEF IsRow
<1>0. Written(row, ask, read) = [row EXCEPT !.qty = q, !.consumed = c, !.wasted = w]
      BY Zenon DEF Written
<1> HIDE DEF o, g, p, u, d, v, s, q, c, w
<1>2. [row EXCEPT !.qty = q] = [R(p, d, v) EXCEPT !.qty = q]
      BY <1>1, Zenon
<1>3. [R(p, d, v) EXCEPT !.qty = q] = R(q, d, v)
      OBVIOUS
<1>4. [[row EXCEPT !.qty = q] EXCEPT !.consumed = c] = [R(q, d, v) EXCEPT !.consumed = c]
      BY <1>2, <1>3, Zenon
<1>5. [R(q, d, v) EXCEPT !.consumed = c] = R(q, c, v)
      OBVIOUS
<1>6. [[[row EXCEPT !.qty = q] EXCEPT !.consumed = c] EXCEPT !.wasted = w]
         = [R(q, c, v) EXCEPT !.wasted = w]
      BY <1>4, <1>5, Zenon
<1>7. [R(q, c, v) EXCEPT !.wasted = w] = R(q, c, w)
      OBVIOUS
<1>8. Written(row, ask, read) = R(q, c, w)
      BY <1>0, <1>6, <1>7, Zenon
<1> QED BY <1>8, Zenon DEF o, g, u, s, q, c, w

\* The entry that a scan creates next.
LEMMA NextScanned ==
    ASSUME PantryInv, NEW h \in Handlers, scanning[h] # Nothing
    PROVE  LET s == scanning[h]
               entry == Guessed(s.seen[Min(s.left)])
               rest == s.left \ {Min(s.left)}
           IN  /\ IsEntry(entry) /\ entry.qty >= 0
               /\ rest # {} => \E answer \in ScanAnswers : \E left \in SUBSET DOMAIN answer :
                     left # {} /\ \E u : [s EXCEPT !.left = rest]
                                            = [user |-> u, seen |-> answer, left |-> left]
<1>0. PICK answer \in ScanAnswers : \E left \in SUBSET DOMAIN answer : \E u :
         left # {} /\ scanning[h] = [user |-> u, seen |-> answer, left |-> left]
      BY DEF PantryInv, ScansHeld
<1>00. PICK left \in SUBSET DOMAIN answer : \E u :
         left # {} /\ scanning[h] = [user |-> u, seen |-> answer, left |-> left]
      BY <1>0
<1>1. PICK u : left # {} /\ scanning[h] = [user |-> u, seen |-> answer, left |-> left]
      BY <1>00
<1>2. Min(left) \in left
      <2>1. left \subseteq Nat
            BY PantryAssumption
      <2> QED BY <1>1, <2>1, MinIs
<1>3. IsEntry(answer[Min(left)].guess)
      BY <1>2, PantryAssumption
<1>4. IsEntry(Guessed(answer[Min(left)])) /\ Guessed(answer[Min(left)]).qty >= 0
      <2> DEFINE e == answer[Min(left)].guess
      <2>1. e = [name |-> e.name, qty |-> e.qty, unit |-> e.unit] /\ e.name \in DOMAIN NamesOf
            /\ e.qty \in Int
            BY <1>3 DEF IsEntry
      <2>1a. Guessed(answer[Min(left)]) =
               [e EXCEPT !.qty = IF e.qty > 0 THEN e.qty ELSE 1,
                         !.unit = IF e.unit = Nothing THEN "piece" ELSE e.unit]
            BY DEF Guessed
      <2>2. Guessed(answer[Min(left)]) =
               [name |-> e.name, qty |-> IF e.qty > 0 THEN e.qty ELSE 1,
                unit |-> IF e.unit = Nothing THEN "piece" ELSE e.unit]
            BY <2>1, <2>1a, EntryChanged
      <2> HIDE DEF e
      <2> QED BY <2>1, <2>2 DEF IsEntry
<1>5. scanning[h].left = left /\ scanning[h].seen = answer
      BY <1>1
<1>6. [scanning[h] EXCEPT !.left = left \ {Min(left)}]
         = [user |-> u, seen |-> answer, left |-> left \ {Min(left)}]
      BY <1>1
<1>7. left \ {Min(left)} \in SUBSET DOMAIN answer
      BY <1>1
<1>8. Guessed(scanning[h].seen[Min(scanning[h].left)]) = Guessed(answer[Min(left)])
      BY <1>5
<1>9. IsEntry(Guessed(scanning[h].seen[Min(scanning[h].left)]))
      /\ Guessed(scanning[h].seen[Min(scanning[h].left)]).qty >= 0
      BY <1>4, <1>8
<1> DEFINE rest == scanning[h].left \ {Min(scanning[h].left)}
<1>10. ASSUME rest # {}
       PROVE  \E a \in ScanAnswers : \E l \in SUBSET DOMAIN a :
                 l # {} /\ \E v : [scanning[h] EXCEPT !.left = rest] = [user |-> v, seen |-> a, left |-> l]
       <2>1. rest = left \ {Min(left)}
             BY <1>5
       <2> HIDE DEF rest
       <2>2. [scanning[h] EXCEPT !.left = rest] = [user |-> u, seen |-> answer, left |-> rest]
             BY <1>6, <2>1, Zenon
       <2>3. rest \in SUBSET DOMAIN answer
             BY <1>7, <2>1
       <2> QED BY <1>10, <2>2, <2>3, Zenon
<1> QED BY <1>9, <1>10, Zenon

\* The transaction of an update writes a row and a log that fit, if what it read
\* did.
LEMMA UpdateKeeps ==
    ASSUME PantryInv, NEW h \in Handlers, CommitUpdate(h)
    PROVE  PantryInv'
<1> DEFINE i == edit[h].on
           ask == edit[h].asks
           read == edit[h].read
           a == Adjusted(ask, read)
           e == Ended(ask, read)
           row == Written(larder[i], ask, read)
<1>1. /\ i \in Items /\ ask \in Changes /\ IsRow(read)
      /\ i \in Present \ crossed => read = larder[i]
      BY DEF PantryInv, EditsHeld, CommitUpdate
<1>2. /\ edit' = [edit EXCEPT ![h] = NoEdit]
      /\ started' = started /\ scanning' = scanning /\ crossed' = crossed
      BY DEF CommitUpdate
<1>3. CASE i \notin Present
      <2>1. larder' = larder /\ usage' = usage
            BY <1>3 DEF CommitUpdate
      <2>2. Present' = Present
            BY <2>1 DEF Present
      <2>3. PantryTypes' /\ LogsFit' /\ ScansHeld'
            BY <1>2, <2>1, <2>2 DEF PantryInv, PantryTypes, LogsFit, ScansHeld
      <2>4. EditsHeld' /\ Apart'
            BY <1>2, <2>1, <2>2 DEF PantryInv, PantryTypes, EditsHeld, Apart, NoEdit
      <2> QED BY <2>3, <2>4 DEF PantryInv
<1>4. CASE i \in Present
      <2>1. larder' = [larder EXCEPT ![i] = row] /\ usage' = [usage EXCEPT ![i] = usage[i] \o a \o e]
            BY <1>4 DEF CommitUpdate
      <2>2. IsRow(larder[i]) /\ usage[i] \in Seq(LogEntry)
            BY <1>1, <1>4 DEF PantryInv, PantryTypes
      <2>3. /\ usage[i] \o a \o e \in Seq(LogEntry)
            /\ a # <<>> <=> ask.qty # Nothing /\ ask.qty # read.qty
            /\ a # <<>> => ask.qty \in Nat
            BY <1>1, <2>2, LogOf
      <2>4. row = [owner |-> larder[i].owner, ingredient |-> larder[i].ingredient,
                   qty |-> IF a # <<>> THEN ask.qty ELSE larder[i].qty, unit |-> larder[i].unit,
                   consumed |-> larder[i].consumed \/ e # <<>>,
                   wasted |-> larder[i].wasted \/ (e # <<>> /\ e[1].action = "wasted"),
                   source |-> larder[i].source]
            BY <2>2, RowChanged
      <2> HIDE DEF i, ask, read, a, e, row
      <2>5. /\ row.qty = (IF a # <<>> THEN ask.qty ELSE larder[i].qty)
            /\ row.consumed = (larder[i].consumed \/ e # <<>>)
            /\ row.wasted = (larder[i].wasted \/ (e # <<>> /\ e[1].action = "wasted"))
            BY <2>4
      <2>6. IsRow(row)
            <3>1. row.qty \in Nat
                  BY <2>2, <2>3, <2>5 DEF IsRow
            <3>2. row.consumed \in BOOLEAN /\ row.wasted \in BOOLEAN
                  BY <2>5
            <3>3. row = [owner |-> row.owner, ingredient |-> row.ingredient, qty |-> row.qty,
                         unit |-> row.unit, consumed |-> row.consumed, wasted |-> row.wasted,
                         source |-> row.source]
                  BY <2>4
            <3> QED BY <3>1, <3>2, <3>3 DEF IsRow
      <2>7. /\ larder' = [j \in Items |-> IF j = i THEN row ELSE larder[j]]
            /\ Present' \subseteq Present
            /\ \A j \in Items : larder'[j] = IF j = i THEN row ELSE larder[j]
            <3>1. larder' = [j \in Items |-> IF j = i THEN row ELSE larder[j]]
                  BY <2>1 DEF PantryInv, PantryTypes
            <3> QED BY <1>4, <3>1 DEF Present
      <2>8. PantryTypes'
            <3>1. larder' = [j \in Items |-> larder'[j]]
                  BY <2>7
            <3>2. \A j \in Present' : IsRow(larder'[j])
                  BY <2>6, <2>7 DEF PantryInv, PantryTypes, Present
            <3>3. usage' \in [Items -> Seq(LogEntry)] /\ started' \in [Items -> Int]
                  BY <1>2, <2>1, <2>3 DEF PantryInv, PantryTypes
            <3>4. edit' = [g \in Handlers |-> edit'[g]] /\ scanning' = [g \in Handlers |-> scanning'[g]]
                  BY <1>2 DEF PantryInv, PantryTypes
            <3> QED BY <3>1, <3>2, <3>3, <3>4 DEF PantryTypes
      <2>9. EditsHeld' /\ Apart'
            <3>1. /\ edit'[h] = NoEdit /\ NoEdit.on = Nothing
                  /\ \A g \in Handlers \ {h} : edit'[g] = edit[g]
                  BY <1>2 DEF PantryInv, PantryTypes, NoEdit
            <3>2. edit[h].on = i /\ i # Nothing
                  BY <1>1, PantryAssumption DEF i
            <3>3. \A g \in Handlers \ {h} : edit[g].on = i => i \in crossed
                  BY <3>2 DEF PantryInv, Apart
            <3>4. \A g \in Handlers \ {h} : edit[g].on # Nothing /\ edit[g].on \in Present' \ crossed'
                       => edit[g].read = larder'[edit[g].on]
                  BY <1>2, <2>7, <3>3 DEF PantryInv, EditsHeld
            <3>5. EditsHeld'
                  BY <3>1, <3>4 DEF PantryInv, EditsHeld
            <3>6. Apart'
                  BY <1>2, <3>1 DEF PantryInv, Apart
            <3> QED BY <3>5, <3>6
      <2>10. ScansHeld'
             BY <1>2 DEF PantryInv, ScansHeld
      <2>11. LogsFit'
             <3>1. ASSUME NEW j \in Present' \ crossed', j # i
                   PROVE  LogFits(larder'[j], started'[j], usage'[j])
                   <4>1. j \in Present \ crossed /\ larder'[j] = larder[j] /\ started'[j] = started[j]
                         BY <1>2, <2>7, <3>1 DEF Present
                   <4>2. usage'[j] = usage[j]
                         BY <2>1, <3>1, <4>1 DEF PantryInv, PantryTypes, Present
                   <4> QED BY <4>1, <4>2 DEF PantryInv, LogsFit
             <3>2. ASSUME i \notin crossed PROVE LogFits(row, started[i], usage[i] \o a \o e)
                   <4> DEFINE changed == ask.qty # Nothing /\ ask.qty # read.qty
                              ends == IF ask.wasted /\ ~read.wasted THEN "wasted"
                                      ELSE IF ask.consumed /\ ~read.consumed THEN "consumed"
                                      ELSE "none"
                              log == usage[i]
                              more == log \o a \o e
                   <4>1. read = larder[i] /\ LogFits(read, started[i], log) /\ log \in Seq(LogEntry)
                         BY <1>1, <1>4, <2>2, <3>2 DEF PantryInv, LogsFit
                   <4>2. /\ a # <<>> <=> changed
                         /\ changed => ask.qty \in Nat
                         /\ e # <<>> <=> ends # "none"
                         /\ e # <<>> => e[1].action = ends
                         /\ Adjustments(more) = Adjustments(log) + (IF changed THEN ask.qty - read.qty ELSE 0)
                         /\ Times(more, "wasted") = Times(log, "wasted") + (IF ends = "wasted" THEN 1 ELSE 0)
                         /\ Times(more, "consumed") = Times(log, "consumed") + (IF ends = "consumed" THEN 1 ELSE 0)
                         BY <1>1, <4>1, LogOf DEF a, e
                   <4>3. /\ Adjustments(log) \in Int /\ Times(log, "wasted") \in Nat
                         /\ Times(log, "consumed") \in Nat /\ started[i] \in Int
                         BY <1>1, <4>1, PositionsFinite DEF PantryInv, PantryTypes
                   <4>4. read.wasted \in BOOLEAN /\ read.consumed \in BOOLEAN /\ read.qty \in Int
                         BY <1>1 DEF IsRow
                   <4>5. ends = "wasted" => ~read.wasted
                         OBVIOUS
                   <4>6. ends = "consumed" => ~read.consumed
                         OBVIOUS
                   <4>7. ends \in {"wasted", "consumed", "none"}
                         OBVIOUS
                   <4>8. read.qty = started[i] + Adjustments(log)
                         /\ Times(log, "wasted") = (IF read.wasted THEN 1 ELSE 0)
                         /\ Times(log, "consumed") <= (IF read.consumed THEN 1 ELSE 0)
                         BY <4>1 DEF LogFits
                   <4> HIDE DEF changed, ends, log, more
                   <4>9. row.qty = started[i] + Adjustments(more)
                         BY <2>5, <4>1, <4>2, <4>3, <4>4, <4>8
                   <4>9a. /\ row.wasted <=> read.wasted \/ ends = "wasted"
                          /\ row.consumed <=> read.consumed \/ ends # "none"
                          BY <2>5, <4>1, <4>2
                   <4>10. Times(more, "wasted") = (IF row.wasted THEN 1 ELSE 0)
                           BY <4>2, <4>3, <4>5, <4>8, <4>9a
                   <4>11. Times(more, "consumed") <= (IF row.consumed THEN 1 ELSE 0)
                          BY <4>2, <4>3, <4>4, <4>6, <4>7, <4>8, <4>9a
                   <4> QED BY <4>9, <4>10, <4>11 DEF LogFits, more, log
             <3>3. larder'[i] = row /\ started'[i] = started[i] /\ usage'[i] = usage[i] \o a \o e
                   BY <1>1, <1>2, <2>1, <2>7 DEF PantryInv, PantryTypes
             <3> QED BY <1>2, <3>1, <3>2, <3>3 DEF LogsFit
      <2> QED BY <2>8, <2>9, <2>10, <2>11 DEF PantryInv
<1> QED BY <1>3, <1>4

\* Every step keeps the invariant.
LEMMA PantryInvNext == PantryInv /\ [PantryNext]_pantryVars => PantryInv'
<1> SUFFICES ASSUME PantryInv, [PantryNext]_pantryVars PROVE PantryInv'
    OBVIOUS
<1>1. ASSUME NEW u \in Users, NEW e \in Entries, CreateItem(u, e) PROVE PantryInv'
      <2>1. PICK i \in Items : FreeId(i) /\ Put(i, Row(u, e, "manual"))
            BY <1>1 DEF CreateItem
      <2>2. edit' = edit /\ scanning' = scanning
            BY <1>1 DEF CreateItem
      <2>3. scanning' = [h \in Handlers |-> scanning'[h]]
            BY <2>2 DEF PantryInv, PantryTypes
      <2>4. IsEntry(e) /\ e.qty >= 0
            BY PantryAssumption
      <2>5. PantryTypes' /\ EditsHeld' /\ Apart' /\ LogsFit'
            BY <2>1, <2>2, <2>3, <2>4, NewRow, PutKeeps
      <2>6. ScansHeld'
            BY <2>2 DEF PantryInv, ScansHeld
      <2> QED BY <2>5, <2>6 DEF PantryInv
<1>2. ASSUME NEW u \in Users, NEW i \in Items, RemoveItem(u, i) PROVE PantryInv'
      <2>1. /\ larder' = [larder EXCEPT ![i] = Nothing] /\ usage' = usage /\ started' = started
            /\ edit' = edit /\ scanning' = scanning /\ crossed' = crossed
            BY <1>2 DEF RemoveItem
      <2>2. Present' = Present \ {i} /\ \A j \in Present' : larder'[j] = larder[j]
            BY <2>1 DEF PantryInv, PantryTypes, Present
      <2>3. larder' = [j \in Items |-> larder'[j]]
            BY <2>1 DEF PantryInv, PantryTypes
      <2>4. PantryTypes'
            BY <2>1, <2>2, <2>3 DEF PantryInv, PantryTypes
      <2>6. ScansHeld'
            BY <2>1 DEF PantryInv, ScansHeld
      <2>5. EditsHeld' /\ Apart' /\ LogsFit'
            BY <2>1, <2>2 DEF PantryInv, EditsHeld, Apart, LogsFit
      <2> QED BY <2>4, <2>5, <2>6 DEF PantryInv
<1>3. ASSUME NEW u \in Users, NEW i \in Items, NEW h \in Handlers, NEW ask \in Changes,
             ReadItem(h, u, i, ask)
      PROVE  PantryInv'
      <2>1. /\ larder' = larder /\ usage' = usage /\ started' = started /\ scanning' = scanning
            /\ edit' = [edit EXCEPT ![h] = [on |-> i, read |-> larder[i], asks |-> ask]]
            /\ crossed' = IF \E g \in Handlers : edit[g].on = i THEN crossed \cup {i} ELSE crossed
            /\ i \in Present
            BY <1>3 DEF ReadItem
      <2>2. Present' = Present
            BY <2>1 DEF Present
      <2>3. edit' = [g \in Handlers |-> edit'[g]]
            BY <2>1 DEF PantryInv, PantryTypes
      <2>4. PantryTypes' /\ LogsFit'
            BY <2>1, <2>2, <2>3 DEF PantryInv, PantryTypes, LogsFit
      <2>10. ScansHeld'
            BY <2>1 DEF PantryInv, ScansHeld
      <2>5. /\ edit'[h].on = i /\ edit'[h].read = larder[i] /\ edit'[h].asks = ask
            /\ \A g \in Handlers \ {h} : edit'[g] = edit[g]
            BY <2>1 DEF PantryInv, PantryTypes
      <2>6. IsRow(larder[i])
            BY <2>1 DEF PantryInv, PantryTypes
      <2>7. crossed \subseteq crossed' /\ ((\E g \in Handlers : edit[g].on = i) => i \in crossed')
            BY <2>1
      <2>8. EditsHeld'
            BY <2>1, <2>2, <2>5, <2>6, <2>7 DEF PantryInv, EditsHeld
      <2>9. Apart'
            BY <2>5, <2>7 DEF PantryInv, Apart
      <2> QED BY <2>4, <2>8, <2>9, <2>10 DEF PantryInv
<1>4. ASSUME NEW h \in Handlers, UpdateLost(h) PROVE PantryInv'
      <2>1. /\ larder' = larder /\ usage' = usage /\ started' = started /\ scanning' = scanning
            /\ edit' = [edit EXCEPT ![h] = NoEdit] /\ crossed' = crossed
            BY <1>4 DEF UpdateLost
      <2>2. Present' = Present
            BY <2>1 DEF Present
      <2>3. /\ edit' = [g \in Handlers |-> edit'[g]] /\ edit'[h].on = Nothing
            /\ \A g \in Handlers \ {h} : edit'[g] = edit[g]
            BY <2>1 DEF PantryInv, PantryTypes, NoEdit
      <2>4. PantryTypes' /\ LogsFit'
            BY <2>1, <2>2, <2>3 DEF PantryInv, PantryTypes, LogsFit
      <2>5. EditsHeld' /\ Apart'
            BY <2>1, <2>2, <2>3 DEF PantryInv, EditsHeld, Apart
      <2>6. ScansHeld'
            BY <2>1 DEF PantryInv, ScansHeld
      <2> QED BY <2>4, <2>5, <2>6 DEF PantryInv
<1>5. ASSUME NEW h \in Handlers, CreateScanned(h) PROVE PantryInv'
      <2> DEFINE s == scanning[h]
                 entry == Guessed(s.seen[Min(s.left)])
                 rest == s.left \ {Min(s.left)}
      <2>1. PICK i \in Items : FreeId(i) /\ Put(i, Row(s.user, entry, "scan"))
            BY <1>5 DEF CreateScanned
      <2>2. /\ edit' = edit
            /\ scanning' = [scanning EXCEPT ![h] = IF rest = {} THEN Nothing
                                                   ELSE [s EXCEPT !.left = rest]]
            BY <1>5 DEF CreateScanned
      <2>3. /\ IsEntry(entry) /\ entry.qty >= 0
            /\ rest # {} => \E answer \in ScanAnswers : \E left \in SUBSET DOMAIN answer :
                  left # {} /\ \E u : [s EXCEPT !.left = rest]
                                         = [user |-> u, seen |-> answer, left |-> left]
            BY <1>5, NextScanned DEF CreateScanned
      <2> DEFINE next == [s EXCEPT !.left = rest]
      <2> HIDE DEF next, s, entry, rest
      <2>4. /\ scanning' = [g \in Handlers |-> scanning'[g]]
            /\ scanning'[h] = (IF rest = {} THEN Nothing ELSE next)
            /\ \A g \in Handlers \ {h} : scanning'[g] = scanning[g]
            <3>1. scanning' = [scanning EXCEPT ![h] = IF rest = {} THEN Nothing ELSE next]
                  BY <2>2, Zenon DEF next
            <3> QED BY <3>1 DEF PantryInv, PantryTypes
      <2>5. PantryTypes' /\ EditsHeld' /\ Apart' /\ LogsFit'
            BY <2>1, <2>2, <2>3, <2>4, NewRow, PutKeeps
      <2>6. rest # {} => \E answer \in ScanAnswers : \E left \in SUBSET DOMAIN answer :
                  left # {} /\ \E u : next = [user |-> u, seen |-> answer, left |-> left]
            BY <2>3, Zenon DEF next
      <2>7. ScansHeld'
            <3>1. ASSUME NEW g \in Handlers \ {h}, scanning'[g] # Nothing
                  PROVE  \E answer \in ScanAnswers : \E left \in SUBSET DOMAIN answer :
                            left # {} /\ \E u : scanning'[g] = [user |-> u, seen |-> answer, left |-> left]
                  <4>1. scanning'[g] = scanning[g]
                        BY <2>4
                  <4>2. scanning[g] # Nothing
                        BY <3>1, <4>1
                  <4>3. \E answer \in ScanAnswers : \E left \in SUBSET DOMAIN answer :
                           left # {} /\ \E u : scanning[g] = [user |-> u, seen |-> answer, left |-> left]
                        BY <4>2, Zenon DEF PantryInv, ScansHeld
                  <4> QED BY <4>1, <4>3, Zenon
            <3>2. scanning'[h] # Nothing =>
                     \E answer \in ScanAnswers : \E left \in SUBSET DOMAIN answer :
                        left # {} /\ \E u : scanning'[h] = [user |-> u, seen |-> answer, left |-> left]
                  BY <2>4, <2>6, Zenon
            <3> QED BY <3>1, <3>2, Zenon DEF ScansHeld
      <2> QED BY <2>5, <2>7 DEF PantryInv
<1>6. ASSUME NEW h \in Handlers, ScanBreaksOff(h) PROVE PantryInv'
      <2>1. /\ larder' = larder /\ usage' = usage /\ started' = started /\ edit' = edit
            /\ crossed' = crossed /\ scanning' = [scanning EXCEPT ![h] = Nothing]
            BY <1>6 DEF ScanBreaksOff
      <2>2. Present' = Present
            BY <2>1 DEF Present
      <2>3. PantryTypes' /\ EditsHeld' /\ Apart' /\ LogsFit'
            BY <2>1, <2>2 DEF PantryInv, PantryTypes, EditsHeld, Apart, LogsFit
      <2>4. ScansHeld'
            BY <2>1 DEF PantryInv, PantryTypes, ScansHeld
      <2> QED BY <2>3, <2>4 DEF PantryInv
<1>7. ASSUME NEW h \in Handlers, NEW u \in Users, ScanPhoto(h, u) PROVE PantryInv'
      <2>1. PICK answer \in ScanAnswers :
               /\ Recognized(answer) # {}
               /\ scanning' = [scanning EXCEPT ![h] =
                                   [user |-> u, seen |-> answer, left |-> Recognized(answer)]]
            BY <1>7 DEF ScanPhoto
      <2>2. /\ larder' = larder /\ usage' = usage /\ started' = started /\ edit' = edit
            /\ crossed' = crossed
            BY <1>7 DEF ScanPhoto
      <2>3. Present' = Present
            BY <2>2 DEF Present
      <2>4. PantryTypes' /\ EditsHeld' /\ Apart' /\ LogsFit'
            BY <2>1, <2>2, <2>3 DEF PantryInv, PantryTypes, EditsHeld, Apart, LogsFit
      <2>5. Recognized(answer) \in SUBSET DOMAIN answer
            BY DEF Recognized
      <2>6. ScansHeld'
            BY <2>1, <2>5 DEF PantryInv, PantryTypes, ScansHeld
      <2> QED BY <2>4, <2>6 DEF PantryInv
<1>8. CASE UNCHANGED pantryVars
      <2>1. larder' = larder /\ usage' = usage /\ started' = started /\ edit' = edit
            /\ scanning' = scanning /\ crossed' = crossed
            BY <1>8 DEF pantryVars
      <2>2. Present' = Present
            BY <2>1 DEF Present
      <2>3. PantryTypes' /\ EditsHeld' /\ Apart' /\ LogsFit'
            BY <2>1, <2>2 DEF PantryInv, PantryTypes, EditsHeld, Apart, LogsFit
      <2>4. ScansHeld'
            BY <2>1 DEF PantryInv, ScansHeld
      <2> QED BY <2>3, <2>4 DEF PantryInv
<1> QED BY <1>1, <1>2, <1>3, <1>4, <1>5, <1>6, <1>7, <1>8, UpdateKeeps DEF PantryNext

\* The community fold over the adjustments is their sum.
LEMMA AdjustmentsAre ==
    ASSUME NEW i \in Items, usage[i] \in Seq(LogEntry)
    PROVE  LET Delta(k) == usage[i][k].delta
           IN  MapThenSumSet(Delta, Logged(i, "adjusted")) = Adjustments(usage[i])
<1> DEFINE Delta(k) == usage[i][k].delta
           D == Logged(i, "adjusted")
           f == Deltas(usage[i])
           P(g) == g = [T \in SUBSET D |-> IF T = {} THEN 0 ELSE Delta(AnyOf(T)) + g[T \ {AnyOf(T)}]]
           G == CHOOSE g : P(g)
           H == CHOOSE h : Summing(h, f, D)
<1>1. MapThenSumSet(Delta, D) = G[D]
      BY DEF MapThenSumSet, MapThenFoldSet, AnyOf
<1>2. D = Positions(usage[i], "adjusted")
      BY DEF Logged, Positions
<1>3. Adjustments(usage[i]) = H[D]
      BY <1>2 DEF Sum, Adjustments
<1>4. \A T \in SUBSET D : T # {} => Delta(AnyOf(T)) = f[AnyOf(T)]
      BY SomeIn DEF Deltas, Logged
<1>5. ASSUME NEW g PROVE P(g) <=> Summing(g, f, D)
      BY <1>4 DEF Summing, Added
<1>6. IsFiniteSet(D)
      BY <1>2, PositionsFinite
<1>7. Summing(H, f, D)
      BY <1>6, SummingExists
<1>8. Summing(G, f, D)
      <2>1. P(H)
            BY <1>5, <1>7
      <2>2. P(G)
            BY <2>1
      <2> QED BY <1>5, <2>2
<1> HIDE DEF G, H, f, P, D
<1>9. G[D] = H[D]
      BY <1>6, <1>7, <1>8, SummingUnique
<1> QED BY <1>1, <1>3, <1>9 DEF D

\* pantry.service.ts:133: the usage log is the history of every item no two
\* updates overlapped on, for any entries, changes and answers of the model.
THEOREM UsageIsComplete == PantrySpec => []UsageAddsUp
<1>1. PantryInv => UsageAddsUp
      <2> SUFFICES ASSUME PantryInv, NEW i \in Present \ crossed
                   PROVE  LET Delta(k) == usage[i][k].delta IN
                          /\ larder[i].qty = started[i] + MapThenSumSet(Delta, Logged(i, "adjusted"))
                          /\ Cardinality(Logged(i, "wasted")) = (IF larder[i].wasted THEN 1 ELSE 0)
                          /\ Cardinality(Logged(i, "consumed")) <= (IF larder[i].consumed THEN 1 ELSE 0)
          BY DEF UsageAddsUp
      <2>1. i \in Items /\ usage[i] \in Seq(LogEntry) /\ LogFits(larder[i], started[i], usage[i])
            BY DEF PantryInv, PantryTypes, LogsFit, Present
      <2>2. \A a : Logged(i, a) = Positions(usage[i], a)
            BY DEF Logged, Positions
      <2>3. \A a : Cardinality(Logged(i, a)) = Times(usage[i], a)
            BY <2>2 DEF Times
      <2> QED BY <2>1, <2>3, AdjustmentsAre DEF LogFits
<1> QED BY <1>1, PantryInvInit, PantryInvNext, PTL DEF PantrySpec

-----------------------------------------------------------------------------
\* Baskets: what the pantry leaves to buy.

\* A quantity in canonical units is not negative.
LEMMA CanonicalIs ==
    ASSUME NEW q \in Nat, NEW u, NEW d \in Int, NEW p \in Int
    PROVE  ToCanonical(q, u, d, p).value \in Nat
<1>1. ASSUME IsMassUnit(u) PROVE ToCanonical(q, u, d, p).value \in Nat
      <2>1. MassToGrams[u] \in Nat
            BY <1>1 DEF IsMassUnit, MassToGrams
      <2>2. ~IsVolumeUnit(u) /\ ~IsCountUnit(u)
            BY <1>1 DEF IsMassUnit, IsVolumeUnit, IsCountUnit, MassToGrams, VolumeToMl, CountUnits
      <2>3. ToCanonical(q, u, d, p) = [value |-> q * MassToGrams[u], unit |-> "g"]
            BY <1>1, <2>2 DEF ToCanonical
      <2> QED BY <2>1, <2>3
<1>2. ASSUME IsVolumeUnit(u) PROVE ToCanonical(q, u, d, p).value \in Nat
      <2>1. VolumeToMl[u] \in Nat
            BY <1>2 DEF IsVolumeUnit, VolumeToMl
      <2>2. ~IsMassUnit(u) /\ ~IsCountUnit(u)
            BY <1>2 DEF IsMassUnit, IsVolumeUnit, IsCountUnit, MassToGrams, VolumeToMl, CountUnits
      <2>3. CASE d > 0
            <3>1. ToCanonical(q, u, d, p) = [value |-> (q * VolumeToMl[u] * d) \div 10, unit |-> "g"]
                  BY <1>2, <2>2, <2>3 DEF ToCanonical
            <3>2. q * VolumeToMl[u] \in Nat
                  BY <2>1
            <3>3. q * VolumeToMl[u] * d \in Nat
                  BY <2>3, <3>2
            <3> QED BY <3>1, <3>3
      <2>4. CASE ~(d > 0)
            <3>1. ToCanonical(q, u, d, p) = [value |-> q * VolumeToMl[u], unit |-> "ml"]
                  BY <1>2, <2>2, <2>4 DEF ToCanonical
            <3> QED BY <2>1, <3>1
      <2> QED BY <2>3, <2>4
<1>3. ASSUME ~IsMassUnit(u), ~IsVolumeUnit(u) PROVE ToCanonical(q, u, d, p).value \in Nat
      <2>1. PerPiece(u, p) \in Int
            <3>1. u \in DOMAIN CountUnitDefaultGrams => CountUnitDefaultGrams[u] \in Int
                  BY DEF CountUnitDefaultGrams
            <3>2. CASE p # Nothing0
                  BY <3>2 DEF PerPiece
            <3>3. CASE p = Nothing0 /\ u \in DOMAIN CountUnitDefaultGrams
                  BY <3>1, <3>3 DEF PerPiece
            <3>4. CASE p = Nothing0 /\ u \notin DOMAIN CountUnitDefaultGrams
                  BY <3>4 DEF PerPiece
            <3> QED BY <3>2, <3>3, <3>4
      <2>2. CASE IsCountUnit(u) /\ PerPiece(u, p) > 0
            <3>1. ToCanonical(q, u, d, p) = [value |-> q * PerPiece(u, p), unit |-> "g"]
                  BY <1>3, <2>2 DEF ToCanonical
            <3>2. q * PerPiece(u, p) \in Nat
                  BY <2>1, <2>2
            <3> QED BY <3>1, <3>2
      <2>3. CASE ~(IsCountUnit(u) /\ PerPiece(u, p) > 0)
            <3>1. ToCanonical(q, u, d, p) = [value |-> q * 1000, unit |-> "piece"]
                  BY <1>3, <2>3 DEF ToCanonical
            <3> QED BY <3>1
      <2> QED BY <2>2, <2>3
<1> QED BY <1>1, <1>2, <1>3

\* What is in the pantry of an ingredient, and what each item of it weighs.
StockOf(u, g) == {i \in Active(u) : larder[i].ingredient = g}
Canonical(i, g) == ToCanonical(larder[i].qty, larder[i].unit, Density[g], GramsPerPiece[g])
Weighed(u, g) == {i \in StockOf(u, g) : Canonical(i, g).unit \in {"g", "ml"}}
Mass(u, g) == [i \in StockOf(u, g) |-> IF i \in Weighed(u, g) THEN Canonical(i, g).value ELSE 0]

\* The items are finitely many and weigh nothing less than nothing.
LEMMA MassIs ==
    ASSUME PantryTypes, NEW u, NEW g \in Ingredients
    PROVE  /\ IsFiniteSet(StockOf(u, g)) /\ IsFiniteSet(Weighed(u, g))
           /\ \A i \in StockOf(u, g) : Mass(u, g)[i] \in Nat
<1>1. StockOf(u, g) \subseteq Items /\ Weighed(u, g) \subseteq Items
      BY DEF StockOf, Weighed, Active, Present
<1>2. IsFiniteSet(StockOf(u, g)) /\ IsFiniteSet(Weighed(u, g))
      BY <1>1, BasketsAssumption, FS_Subset
<1>3. ASSUME NEW i \in StockOf(u, g) PROVE Canonical(i, g).value \in Nat
      <2>1. larder[i].qty \in Nat
            BY DEF StockOf, Active, PantryTypes, IsRow
      <2>2. Density[g] \in Int /\ GramsPerPiece[g] \in Int
            BY BasketsAssumption
      <2> QED BY <2>1, <2>2, CanonicalIs DEF Canonical
<1> QED BY <1>2, <1>3 DEF Mass

\* pantry.util.ts: what has no weight counts as nothing.
LEMMA CoverageIs ==
    ASSUME PantryTypes, NEW u, NEW g \in Ingredients
    PROVE  Coverage(u)[g] = Sum(Mass(u, g), StockOf(u, g))
<1> DEFINE D == StockOf(u, g)
           f == Mass(u, g)
           P(x) == x = [T \in SUBSET D |-> IF T = {} THEN 0 ELSE Grams(AnyOf(T)) + x[T \ {AnyOf(T)}]]
           G == CHOOSE x : P(x)
           H == CHOOSE h : Summing(h, f, D)
<1>1. Coverage(u)[g] = MapThenSumSet(Grams, D)
      BY DEF Coverage, StockOf
<1>2. MapThenSumSet(Grams, D) = G[D]
      BY DEF MapThenSumSet, MapThenFoldSet, AnyOf
<1>3. Sum(f, D) = H[D]
      BY DEF Sum
<1>4. \A i \in D : Grams(i) = f[i]
      <2>1. ASSUME NEW i \in D PROVE Grams(i) = f[i]
            <3>1. larder[i].ingredient = g
                  BY DEF StockOf
            <3>2. Grams(i) = IF Canonical(i, g).unit \in {"g", "ml"} THEN Canonical(i, g).value ELSE 0
                  BY <3>1 DEF Grams, Canonical
            <3> QED BY <3>2 DEF Mass, Weighed
      <2> QED BY <2>1
<1>5. \A T \in SUBSET D : T # {} => Grams(AnyOf(T)) = f[AnyOf(T)]
      BY <1>4, SomeIn
<1>6. ASSUME NEW x PROVE P(x) <=> Summing(x, f, D)
      BY <1>5 DEF Summing, Added
<1>7. IsFiniteSet(D)
      BY MassIs
<1>8. Summing(H, f, D)
      BY <1>7, SummingExists
<1>9. Summing(G, f, D)
      <2>1. P(H)
            BY <1>6, <1>8
      <2>2. P(G)
            BY <2>1
      <2> QED BY <1>6, <2>2
<1> HIDE DEF G, H, f, P, D
<1>10. G[D] = H[D]
       BY <1>7, <1>8, <1>9, SummingUnique
<1> QED BY <1>1, <1>2, <1>3, <1>10 DEF D, f

\* baskets.service.ts: what has no weight is left out.
LEMMA PantryGramsAre ==
    ASSUME PantryTypes, NEW u, NEW g \in Ingredients
    PROVE  PantryGrams(u, g) = Sum(Mass(u, g), Weighed(u, g))
<1> DEFINE D == Weighed(u, g)
           f == Mass(u, g)
           P(x) == x = [T \in SUBSET D |-> IF T = {} THEN 0
                                           ELSE Canonical(AnyOf(T), g).value + x[T \ {AnyOf(T)}]]
           G == CHOOSE x : P(x)
           H == CHOOSE h : Summing(h, f, D)
<1>1. PantryGrams(u, g) = MapThenSumSet(LAMBDA i : Canonical(i, g).value, D)
      BY DEF PantryGrams, Weighed, StockOf, Canonical
<1>2. MapThenSumSet(LAMBDA i : Canonical(i, g).value, D) = G[D]
      BY DEF MapThenSumSet, MapThenFoldSet, AnyOf
<1>3. Sum(f, D) = H[D]
      BY DEF Sum
<1>4. \A i \in D : Canonical(i, g).value = f[i]
      BY DEF Mass, Weighed
<1>5. \A T \in SUBSET D : T # {} => Canonical(AnyOf(T), g).value = f[AnyOf(T)]
      BY <1>4, SomeIn
<1>6. ASSUME NEW x PROVE P(x) <=> Summing(x, f, D)
      BY <1>5 DEF Summing, Added
<1>7. IsFiniteSet(D)
      BY MassIs
<1>8. Summing(H, f, D)
      BY <1>7, SummingExists
<1>9. Summing(G, f, D)
      <2>1. P(H)
            BY <1>6, <1>8
      <2>2. P(G)
            BY <2>1
      <2> QED BY <1>6, <2>2
<1> HIDE DEF G, H, f, P, D
<1>10. G[D] = H[D]
       BY <1>7, <1>8, <1>9, SummingUnique
<1> QED BY <1>1, <1>2, <1>3, <1>10 DEF D, f

\* The two counts of the pantry agree.
LEMMA CountsAgree ==
    ASSUME PantryTypes, NEW u, NEW g \in Ingredients
    PROVE  Coverage(u)[g] = PantryGrams(u, g) /\ PantryGrams(u, g) \in Nat
<1> DEFINE A == Weighed(u, g)
           B == StockOf(u, g) \ A
           f == Mass(u, g)
<1>1. IsFiniteSet(A) /\ IsFiniteSet(B) /\ A \cup B = StockOf(u, g) /\ A \cap B = {}
      <2>1. A \subseteq StockOf(u, g)
            BY DEF Weighed
      <2> QED BY <2>1, MassIs, FS_Subset
<1>2. (\A i \in A \cup B : f[i] \in Nat) /\ \A i \in B : f[i] = 0
      BY <1>1, MassIs DEF Mass
<1>3. (\A i \in A : f[i] \in Int /\ f[i] >= 0) /\ \A i \in B : f[i] \in Int
      BY <1>2
<1> HIDE DEF A, B, f
<1>4. Sum(f, B) = 0
      BY <1>1, <1>2, <1>3, SumType
<1>5. Sum(f, A) \in Nat
      BY <1>1, <1>3, SumType
<1>6. Sum(f, A \cup B) = Sum(f, A) + Sum(f, B)
      BY <1>1, <1>2, SumParts
<1>7. Coverage(u)[g] = Sum(f, A \cup B)
      BY <1>1, CoverageIs DEF f
<1>8. PantryGrams(u, g) = Sum(f, A)
      BY PantryGramsAre DEF f, A
<1> QED BY <1>4, <1>5, <1>6, <1>7, <1>8

-----------------------------------------------------------------------------
\* One requirement for a key, about an ingredient or a text.
IsRequirement(req) ==
    /\ req = [key |-> req.key, linked |-> req.linked, qty |-> req.qty]
    /\ req.linked \in BOOLEAN /\ (req.linked => req.key \in Ingredients)
    /\ req.qty \in Nat \cup {Nothing}

AskedOK(reqs) ==
    /\ \A req \in reqs : IsRequirement(req)
    /\ \A req, other \in reqs : req.key = other.key => req = other

\* The lines of a recipe with one key, and those of them with a quantity.
LinesOf(r, k) == {n \in DOMAIN Cookbook[r].lines : KeyOf(Cookbook[r].lines[n]) = k}
KnownLines(r, k) ==
    {n \in LinesOf(r, k) : Cookbook[r].lines[n].qty # Nothing /\ Cookbook[r].lines[n].qty > 0}
Amounts(r, k, servings) == [n \in KnownLines(r, k) |-> Cookbook[r].lines[n].qty * servings]

\* The community fold over the quantities of a key is a natural number.
LEMMA AmountIs ==
    ASSUME NEW r \in DOMAIN Cookbook, NEW k, NEW servings \in Nat
    PROVE  MapThenSumSet(LAMBDA n : Cookbook[r].lines[n].qty * servings, KnownLines(r, k)) \in Nat
<1> DEFINE D == KnownLines(r, k)
           F(n) == Cookbook[r].lines[n].qty * servings
           f == Amounts(r, k, servings)
           P(x) == x = [T \in SUBSET D |-> IF T = {} THEN 0 ELSE F(AnyOf(T)) + x[T \ {AnyOf(T)}]]
           G == CHOOSE x : P(x)
           H == CHOOSE h : Summing(h, f, D)
<1>1. MapThenSumSet(LAMBDA n : Cookbook[r].lines[n].qty * servings, D) = G[D]
      BY DEF MapThenSumSet, MapThenFoldSet, AnyOf
<1>2. Sum(f, D) = H[D]
      BY DEF Sum
<1>3. \A T \in SUBSET D : T # {} => F(AnyOf(T)) = f[AnyOf(T)]
      BY SomeIn DEF Amounts
<1>4. ASSUME NEW x PROVE P(x) <=> Summing(x, f, D)
      BY <1>3 DEF Summing, Added
<1>5. IsFiniteSet(D) /\ \A n \in D : f[n] \in Int /\ f[n] >= 0
      <2>1. D \subseteq DOMAIN Cookbook[r].lines /\ IsFiniteSet(DOMAIN Cookbook[r].lines)
            BY BasketsAssumption DEF KnownLines, LinesOf
      <2>2. ASSUME NEW n \in D PROVE f[n] \in Int /\ f[n] >= 0
            <3>1. Cookbook[r].lines[n].qty \in Int /\ Cookbook[r].lines[n].qty > 0
                  BY <2>1, BasketsAssumption DEF KnownLines
            <3>2. Cookbook[r].lines[n].qty * servings \in Nat
                  BY <3>1
            <3> QED BY <3>2 DEF Amounts
      <2> QED BY <2>1, <2>2, FS_Subset
<1>6. Summing(H, f, D)
      BY <1>5, SummingExists
<1>7. Summing(G, f, D)
      <2>1. P(H)
            BY <1>4, <1>6
      <2>2. P(G)
            BY <2>1
      <2> QED BY <1>4, <2>2
<1> HIDE DEF G, H, f, P, D, F
<1>8. G[D] = H[D]
      BY <1>5, <1>6, <1>7, SummingUnique
<1>9. Sum(f, D) \in Nat
      BY <1>5, SumType
<1> QED BY <1>1, <1>2, <1>8, <1>9 DEF D

\* A recipe asks for each key once.
LEMMA RecipeAsks ==
    ASSUME NEW r \in DOMAIN Cookbook, NEW servings \in Nat
    PROVE  AskedOK(RecipeRequirements(r, servings))
<1> DEFINE lines == Cookbook[r].lines
           Req(k) == [key |-> k, linked |-> \E n \in LinesOf(r, k) : lines[n].ingredient # Nothing,
                      qty |-> IF KnownLines(r, k) = {} THEN Nothing
                              ELSE MapThenSumSet(LAMBDA n : lines[n].qty * servings, KnownLines(r, k))]
<1>1. RecipeRequirements(r, servings) = {Req(k) : k \in {KeyOf(lines[n]) : n \in DOMAIN lines}}
      BY DEF RecipeRequirements, LinesOf, KnownLines
<1>2. ASSUME NEW k PROVE IsRequirement(Req(k)) /\ Req(k).key = k
      <2>1. Req(k).qty \in Nat \cup {Nothing}
            BY AmountIs
      <2>2. ASSUME NEW n \in LinesOf(r, k), lines[n].ingredient # Nothing PROVE k \in Ingredients
            BY <2>2, BasketsAssumption DEF LinesOf, KeyOf
      <2>3. Req(k).key = k /\ Req(k).linked \in BOOLEAN /\ (Req(k).linked => k \in Ingredients)
            BY <2>2
      <2>4. Req(k) = [key |-> Req(k).key, linked |-> Req(k).linked, qty |-> Req(k).qty]
            OBVIOUS
      <2> HIDE DEF Req
      <2> QED BY <2>1, <2>3, <2>4 DEF IsRequirement
<1> HIDE DEF Req, lines
<1> QED BY <1>1, <1>2 DEF AskedOK

\* Names add only keys that are not asked for yet.
LEMMA NamesAsk ==
    ASSUME NEW names, names \subseteq DOMAIN NamesOf, NEW reqs, AskedOK(reqs)
    PROVE  AskedOK(reqs \cup NamedRequirements(names, reqs))
<1> DEFINE Key(n) == IF NamesOf[n] # Nothing THEN NamesOf[n] ELSE n
           Req(n) == [key |-> Key(n), linked |-> NamesOf[n] # Nothing, qty |-> Nothing]
           fresh == {m \in names : \A req \in reqs : req.key # Key(m)}
<1>1. NamedRequirements(names, reqs) = {Req(n) : n \in fresh}
      BY DEF NamedRequirements
<1>2. ASSUME NEW n \in names
      PROVE  /\ IsRequirement(Req(n)) /\ Req(n).key = Key(n)
             /\ Req(n).linked <=> Key(n) \in Ingredients
      BY BasketsAssumption DEF IsRequirement
<1>3. ASSUME NEW m \in names, NEW n \in names, Key(m) = Key(n) PROVE Req(m) = Req(n)
      BY <1>2, <1>3, BasketsAssumption
<1>4. \A n \in fresh : n \in names /\ \A req \in reqs : req.key # Key(n)
      OBVIOUS
<1> HIDE DEF Key, Req, fresh
<1> QED BY <1>1, <1>2, <1>3, <1>4 DEF AskedOK

-----------------------------------------------------------------------------
\* What BasketAndPantryCover says of one request.
Covered(w) ==
    \A req \in w.asked :
       LET left == {k \in w.kept : k.key = req.key} IN
       IF ~req.linked \/ req.qty = Nothing THEN left = {req}
       ELSE LET buys == IF left = {} THEN 0 ELSE (CHOOSE k \in left : TRUE).qty
                has == w.had[req.key]
            IN /\ buys + has >= req.qty - HalfGram
               /\ buys <= req.qty /\ (has > 0 /\ buys > 0 => buys + has = req.qty)
               /\ Cardinality(left) <= 1

\* The rest of a requirement.
LEMMA RestIs ==
    ASSUME NEW req, req = [key |-> req.key, linked |-> req.linked, qty |-> req.qty], NEW q
    PROVE  [req EXCEPT !.qty = q] = [key |-> req.key, linked |-> req.linked, qty |-> q]
<1> DEFINE k == req.key
           l == req.linked
           b == req.qty
<1>1. req = [key |-> k, linked |-> l, qty |-> b]
      OBVIOUS
<1> HIDE DEF k, l, b
<1>2. [req EXCEPT !.qty = q] = [[key |-> k, linked |-> l, qty |-> b] EXCEPT !.qty = q]
      BY <1>1, Zenon
<1>3. [[key |-> k, linked |-> l, qty |-> b] EXCEPT !.qty = q] = [key |-> k, linked |-> l, qty |-> q]
      OBVIOUS
<1> QED BY <1>2, <1>3, Zenon DEF k, l

\* What is left of a requirement keeps its key.
LEMMA NeededIs ==
    ASSUME NEW req, IsRequirement(req), NEW had
    PROVE  /\ \A k \in Needed(req, had) : k.key = req.key
           /\ ~req.linked \/ req.qty = Nothing => Needed(req, had) = {req}
           /\ req.linked /\ req.qty # Nothing /\ had[req.key] \in Nat =>
                 \/ had[req.key] = 0 /\ Needed(req, had) = {req}
                 \/ had[req.key] > 0 /\ Needed(req, had) = {} /\ had[req.key] >= req.qty - HalfGram
                 \/ /\ had[req.key] > 0 /\ req.qty - had[req.key] > HalfGram
                    /\ \E k : Needed(req, had) = {k} /\ k.qty = req.qty - had[req.key]
<1> DEFINE rest == [key |-> req.key, linked |-> req.linked, qty |-> req.qty - had[req.key]]
<1>1. /\ req = [key |-> req.key, linked |-> req.linked, qty |-> req.qty]
      /\ req.linked \in BOOLEAN /\ req.qty \in Nat \cup {Nothing}
      BY DEF IsRequirement
<1>2. [req EXCEPT !.qty = req.qty - had[req.key]] = rest
      BY <1>1, RestIs
<1>3. Needed(req, had) =
         IF ~req.linked \/ req.qty = Nothing \/ had[req.key] <= 0 THEN {req}
         ELSE IF req.qty - had[req.key] > HalfGram THEN {rest} ELSE {}
      BY <1>2, Zenon DEF Needed
<1>4. rest.key = req.key /\ rest.qty = req.qty - had[req.key]
      OBVIOUS
<1> HIDE DEF rest
<1>5. \A k \in Needed(req, had) : k.key = req.key
      BY <1>3, <1>4
<1>6. ~req.linked \/ req.qty = Nothing => Needed(req, had) = {req}
      BY <1>3
<1>7. ASSUME req.linked, req.qty # Nothing, had[req.key] \in Nat
      PROVE  \/ had[req.key] = 0 /\ Needed(req, had) = {req}
             \/ had[req.key] > 0 /\ Needed(req, had) = {} /\ had[req.key] >= req.qty - HalfGram
             \/ /\ had[req.key] > 0 /\ req.qty - had[req.key] > HalfGram
                /\ \E k : Needed(req, had) = {k} /\ k.qty = req.qty - had[req.key]
      <2>1. CASE had[req.key] = 0
            BY <1>3, <1>7, <2>1
      <2>2. CASE had[req.key] > 0 /\ req.qty - had[req.key] > HalfGram
            <3>1. Needed(req, had) = {rest}
                  BY <1>3, <1>7, <2>2
            <3> QED BY <1>4, <2>2, <3>1
      <2>3. CASE had[req.key] > 0 /\ ~(req.qty - had[req.key] > HalfGram)
            BY <1>1, <1>3, <1>7, <2>3 DEF HalfGram
      <2> QED BY <1>7, <2>1, <2>2, <2>3
<1> QED BY <1>5, <1>6, <1>7

\* Whatever the pantry has, once for both counts.
LEMMA TakenOff ==
    ASSUME NEW w, AskedOK(w.asked), NEW had, \A g \in Ingredients : had[g] \in Nat,
           w.kept = SubtractPantry(w.asked, had), \A g \in Ingredients : w.had[g] = had[g]
    PROVE  Covered(w)
<1> DEFINE left(req) == {k \in w.kept : k.key = req.key}
           buys(req) == IF left(req) = {} THEN 0 ELSE (CHOOSE k \in left(req) : TRUE).qty
<1>1. ASSUME NEW req \in w.asked PROVE IsRequirement(req) /\ left(req) = Needed(req, had)
      <2>1. /\ \A r \in w.asked : IsRequirement(r)
            /\ \A r \in w.asked : r.key = req.key => r = req
            BY DEF AskedOK
      <2>2. \A r \in w.asked : \A k \in Needed(r, had) : k.key = r.key
            BY <2>1, NeededIs
      <2>3. w.kept = UNION {Needed(r, had) : r \in w.asked}
            BY DEF SubtractPantry
      <2> QED BY <2>1, <2>2, <2>3
<1>2. ASSUME NEW req \in w.asked, ~(~req.linked \/ req.qty = Nothing)
      PROVE  /\ buys(req) + w.had[req.key] >= req.qty - HalfGram
             /\ buys(req) <= req.qty
             /\ w.had[req.key] > 0 /\ buys(req) > 0 => buys(req) + w.had[req.key] = req.qty
             /\ Cardinality(left(req)) <= 1
      <2> DEFINE n == had[req.key]
                 L == left(req)
                 b == buys(req)
      <2>1. n \in Nat /\ w.had[req.key] = n /\ req.qty \in Nat
            BY <1>1, <1>2 DEF IsRequirement
      <2>2. \/ n = 0 /\ L = {req}
            \/ n > 0 /\ L = {} /\ n >= req.qty - HalfGram
            \/ n > 0 /\ req.qty - n > HalfGram /\ \E k : L = {k} /\ k.qty = req.qty - n
            BY <1>1, <1>2, <2>1, NeededIs
      <2>3. b = IF L = {} THEN 0 ELSE (CHOOSE k \in L : TRUE).qty
            OBVIOUS
      <2>4. Cardinality({}) = 0 /\ \A k : Cardinality({k}) = 1
            BY FS_EmptySet, FS_Singleton
      <2>5. \A k : L = {k} => b = k.qty
            BY <2>3
      <2>6. L = {} => b = 0
            BY <2>3
      <2> HIDE DEF n, L, b
      <2>7. Cardinality(L) <= 1
            <3>1. L = {} \/ \E k : L = {k}
                  BY <2>2
            <3>2. ASSUME NEW k, L = {k} PROVE Cardinality(L) = 1
                  BY <2>4, <3>2, Zenon
            <3>3. ASSUME L = {} PROVE Cardinality(L) = 0
                  BY <2>4, <3>3, Zenon
            <3> QED BY <3>1, <3>2, <3>3
      <2>8. /\ b + n >= req.qty - HalfGram /\ b <= req.qty /\ (n > 0 /\ b > 0 => b + n = req.qty)
            <3>1. CASE n = 0 /\ L = {req}
                  BY <2>1, <2>5, <3>1 DEF HalfGram
            <3>2. CASE n > 0 /\ L = {} /\ n >= req.qty - HalfGram
                  BY <2>1, <2>6, <3>2 DEF HalfGram
            <3>3. CASE n > 0 /\ req.qty - n > HalfGram /\ \E k : L = {k} /\ k.qty = req.qty - n
                  <4>1. b = req.qty - n
                        BY <2>5, <3>3
                  <4> QED BY <2>1, <3>3, <4>1 DEF HalfGram
            <3> QED BY <2>2, <3>1, <3>2, <3>3
      <2> QED BY <2>1, <2>7, <2>8 DEF L, b
<1>3. ASSUME NEW req \in w.asked, ~req.linked \/ req.qty = Nothing PROVE left(req) = {req}
      BY <1>1, <1>3, NeededIs
<1> QED BY <1>2, <1>3, Zenon DEF Covered

\* What a request holds at each step.
WishHeld ==
    /\ wish = [h \in Handlers |-> wish[h]]
    /\ \A h \in Handlers :
          /\ wish[h].at \in {"idle", "pantry", "answered"}
          /\ wish[h].at = "pantry" => AskedOK(wish[h].asked) /\ wish[h].body \in Wishes
          /\ wish[h].at = "answered" => Covered(wish[h])

\* One request goes on with a record of its own.
LEMMA WishKept ==
    ASSUME WishHeld, NEW h \in Handlers, NEW w, wish' = [wish EXCEPT ![h] = w],
           w.at \in {"idle", "pantry", "answered"},
           w.at = "pantry" => AskedOK(w.asked) /\ w.body \in Wishes,
           w.at = "answered" => Covered(w)
    PROVE  WishHeld'
<1>1. wish' = [g \in Handlers |-> wish'[g]]
      BY DEF WishHeld
<1>2. wish'[h] = w /\ \A g \in Handlers \ {h} : wish'[g] = wish[g]
      BY DEF WishHeld
<1>3. ASSUME NEW g \in Handlers
      PROVE  /\ wish'[g].at \in {"idle", "pantry", "answered"}
             /\ wish'[g].at = "pantry" => AskedOK(wish'[g].asked) /\ wish'[g].body \in Wishes
             /\ wish'[g].at = "answered" => Covered(wish'[g])
      <2>1. CASE g = h
            BY <1>2, <2>1
      <2>2. CASE g # h
            <3>1. wish'[g] = wish[g]
                  BY <1>2, <2>2
            <3> QED BY <3>1 DEF WishHeld
      <2> QED BY <2>1, <2>2
<1> QED BY <1>1, <1>3 DEF WishHeld

\* Reading the pantry answers the request.
LEMMA ReadKeeps ==
    ASSUME PantryTypes, WishHeld, NEW h \in Handlers, ReadPantry(h)
    PROVE  WishHeld'
<1> DEFINE w == wish[h]
           none == [g \in Ingredients |-> 0]
           stock == [g \in Ingredients |-> PantryGrams(w.user, g)]
           Reply(had, kept) == [at |-> "answered", user |-> w.user, body |-> w.body,
                                 asked |-> w.asked, had |-> had, kept |-> kept]
           full == Reply(Coverage(w.user), SubtractPantry(w.asked, stock))
           bare == Reply(none, w.asked)
<1>1. AskedOK(w.asked) /\ wish' = [wish EXCEPT ![h] = IF w.body.usePantry THEN full ELSE bare]
      BY DEF ReadPantry, WishHeld
<1>2. \A g \in Ingredients : Coverage(w.user)[g] = stock[g] /\ stock[g] \in Nat
      BY CountsAgree
<1>3. /\ full.at = "answered" /\ full.asked = w.asked /\ full.kept = SubtractPantry(w.asked, stock)
      /\ full.had = Coverage(w.user)
      /\ bare.at = "answered" /\ bare.asked = w.asked /\ bare.kept = w.asked /\ bare.had = none
      OBVIOUS
<1>4. SubtractPantry(w.asked, none) = w.asked
      <2>1. \A req \in w.asked : ~req.linked \/ req.qty = Nothing \/ none[req.key] <= 0
            BY <1>1 DEF AskedOK, IsRequirement
      <2> HIDE DEF none
      <2>2. \A req \in w.asked : Needed(req, none) = {req}
            BY <2>1, Zenon DEF Needed
      <2> QED BY <2>2 DEF SubtractPantry
<1> HIDE DEF full, bare, none, stock, w
<1>5. Covered(full)
      BY <1>1, <1>2, <1>3, TakenOff
<1>6. Covered(bare)
      <2>1. \A g \in Ingredients : none[g] \in Nat
            BY DEF none
      <2> QED BY <1>1, <1>3, <1>4, <2>1, TakenOff
<1>7. CASE w.body.usePantry
      <2>1. wish' = [wish EXCEPT ![h] = full]
            BY <1>1, <1>7
      <2> QED BY <1>3, <1>5, <2>1, WishKept
<1>8. CASE ~w.body.usePantry
      <2>1. wish' = [wish EXCEPT ![h] = bare]
            BY <1>1, <1>8
      <2> QED BY <1>3, <1>6, <2>1, WishKept
<1> QED BY <1>7, <1>8

\* Every step of the baskets keeps what requests hold.
LEMMA BasketInvNext ==
    PantryInv /\ WishHeld /\ BasketNext /\ UNCHANGED pantryVars => WishHeld'
<1> SUFFICES ASSUME PantryInv, WishHeld, BasketNext, UNCHANGED pantryVars PROVE WishHeld'
    OBVIOUS
<1>1. NoWish.at = "idle"
      BY DEF NoWish
<1>2. ASSUME NEW h \in Handlers, NEW u \in Users, NEW body \in Wishes,
             PrepareRequirements(h, u, body)
      PROVE  WishHeld'
      <2> DEFINE fromRecipe == IF body.recipe = Nothing THEN {}
                               ELSE RecipeRequirements(body.recipe, body.servings)
                 all == fromRecipe \cup NamedRequirements(body.names, fromRecipe)
                 w == [at |-> "pantry", user |-> u, body |-> body, asked |-> all,
                       had |-> Nothing, kept |-> {}]
      <2>1. wish' = [wish EXCEPT ![h] = w]
            BY <1>2 DEF PrepareRequirements
      <2>2. AskedOK(fromRecipe)
            <3>1. AskedOK({})
                  BY DEF AskedOK
            <3> QED BY <3>1, RecipeAsks, BasketsAssumption
      <2>3. AskedOK(all)
            BY <2>2, NamesAsk, BasketsAssumption
      <2>4. w.at = "pantry" /\ w.asked = all /\ w.body = body
            OBVIOUS
      <2> HIDE DEF w, all, fromRecipe
      <2> QED BY <2>1, <2>3, <2>4, WishKept
<1>3. ASSUME NEW h \in Handlers, DropWish(h) PROVE WishHeld'
      BY <1>1, <1>3, WishKept DEF DropWish
<1>4. ASSUME NEW h \in Handlers, NEW b \in Baskets, SaveBasket(h, b) PROVE WishHeld'
      BY <1>1, <1>4, WishKept DEF SaveBasket
<1>5. ASSUME NEW h \in Handlers, ReadPantry(h) PROVE WishHeld'
      BY <1>5, ReadKeeps DEF PantryInv
<1>6. ASSUME wish' = wish PROVE WishHeld'
      BY <1>6 DEF WishHeld
<1>7. ASSUME NEW h \in Handlers, NEW u \in Users, NEW b \in Baskets, NEW change,
             RequireOwn(h, u, b, change)
      PROVE  WishHeld'
      BY <1>6, <1>7 DEF RequireOwn
<1>8. ASSUME NEW h \in Handlers, ChangeBasket(h) PROVE WishHeld'
      BY <1>6, <1>8 DEF ChangeBasket
<1> QED BY <1>2, <1>3, <1>4, <1>5, <1>7, <1>8 DEF BasketNext

\* baskets.service.ts:175: what is left to buy and what the pantry has make up
\* what was asked for, whatever is in the pantry, the recipe and the names.
THEOREM NothingIsMissed == BasketSpec => []BasketAndPantryCover
<1>1. PantryInit /\ BasketInit => PantryInv /\ WishHeld
      <2>1. BasketInit => WishHeld
            BY DEF BasketInit, WishHeld, NoWish
      <2> QED BY <2>1, PantryInvInit
<1> DEFINE Step == \/ PantryNext /\ UNCHANGED basketVars
                   \/ BasketNext /\ UNCHANGED pantryVars
<1>2. PantryInv /\ WishHeld /\ [Step]_<<pantryVars, basketVars>> => PantryInv' /\ WishHeld'
      <2>1. UNCHANGED basketVars /\ WishHeld => WishHeld'
            BY DEF basketVars, WishHeld
      <2> QED BY <2>1, PantryInvNext, BasketInvNext
<1>3. WishHeld => BasketAndPantryCover
      BY DEF WishHeld, Covered, BasketAndPantryCover
<1> QED BY <1>1, <1>2, <1>3, PTL DEF BasketSpec

-----------------------------------------------------------------------------
\* Assistant: what a chat is given and what it leaves.

\* A turn with its fields.
IsTurn(t) ==
    t = [at |-> t.at, user |-> t.user, session |-> t.session, n |-> t.n, context |-> t.context,
         round |-> t.round, results |-> t.results, missed |-> t.missed]

\* The k-th message of a log is the n-th question.
IsQuestion(log, k, n) == log[k] = [role |-> "user", n |-> n]
HasQuestion(log, n) == \E k \in DOMAIN log : IsQuestion(log, k, n)

\* What the model is given has the question at its place (ModelSeesQuestion).
SeesQuestion(t) ==
    t.context # <<>> =>
       LET c == t.context
           own == {k \in DOMAIN c : c[k] = [role |-> "user", n |-> t.n]}
       IN /\ t.missed < Context => own # {}
          /\ own # {} => \A k \in own : k = Len(c) - t.missed

\* A turn under way beside these sessions, when so many messages were sent.
HoldsIn(t, chats, count) ==
    LET c == chats[t.session]
        there == c # Nothing
    IN  /\ t.user \in Users /\ t.n \in 1..count
        /\ \A r \in t.results : r.owner \in {t.user, Nothing}
        /\ t.at = "session" => t.session \in Chats \cup {Nothing}
        /\ t.at # "session" => t.session \in Chats /\ (there => c.owner = t.user)
        /\ t.at \in {"session", "ask"} =>
              /\ t.missed = 0
              /\ \A s \in Chats : chats[s] # Nothing => ~HasQuestion(chats[s].log, t.n)
        /\ t.at = "history" /\ there =>
              t.missed < Len(c.log) /\ IsQuestion(c.log, Len(c.log) - t.missed, t.n)
        /\ t.at \in {"history", "model", "reply"} /\ there => HasQuestion(c.log, t.n)
        /\ t.at = "model" => SeesQuestion(t)

Stages == {"session", "ask", "history", "model", "reply", "touch"}
GoodTurn(t, chats, count) ==
    /\ IsTurn(t) /\ t.missed \in Nat
    /\ t.at # "idle" => t.at \in Stages /\ HoldsIn(t, chats, count)

\* A log has each question once, and replies behind their questions.
GoodLog(log, count) ==
    /\ log \in Seq([role : {"user", "assistant"}, n : 1..count])
    /\ \A j, k \in DOMAIN log :
          log[j].role = "user" /\ log[k].role = "user" /\ log[j].n = log[k].n => j = k
    /\ \A k \in DOMAIN log : log[k].role = "assistant" =>
          \E j \in 1..(k - 1) : IsQuestion(log, j, log[k].n)

GoodChat(c, count) == c = [owner |-> c.owner, log |-> c.log] /\ GoodLog(c.log, count)

ChatTypes ==
    /\ asked \in Nat /\ spentChats \in [Users -> Nat]
    /\ chat = [s \in Chats |-> chat[s]] /\ turn = [h \in Handlers |-> turn[h]]

SessionsGood == \A s \in Chats : chat[s] # Nothing => GoodChat(chat[s], asked)
TurnsGood == \A h \in Handlers : GoodTurn(turn[h], chat, asked)

\* Turns under way have numbers of their own.
Numbered ==
    \A h, k \in Handlers : h # k /\ turn[h].at # "idle" /\ turn[k].at # "idle" => turn[h].n # turn[k].n

\* Turns whose question is paid for and not stored yet.
Waiting(u) == {h \in Handlers : turn[h].at \in {"session", "ask"} /\ turn[h].user = u}

Paid ==
    \A u \in Users :
       /\ IsFiniteSet(QuestionsOf(u)) /\ IsFiniteSet(Waiting(u))
       /\ Cardinality(QuestionsOf(u)) + Cardinality(Waiting(u)) <= spentChats[u]

AssistantInv == ChatTypes /\ SessionsGood /\ TurnsGood /\ Numbered /\ Paid

-----------------------------------------------------------------------------
\* A turn that sets out.
LEMMA TurnIs ==
    ASSUME NEW at, NEW user, NEW session, NEW n
    PROVE  LET t == Turn(at, user, session, n)
           IN  /\ IsTurn(t) /\ t.at = at /\ t.user = user /\ t.session = session /\ t.n = n
               /\ t.context = <<>> /\ t.results = {} /\ t.missed = 0
BY DEF Turn, IsTurn

\* What changes of a turn and what does not.
LEMMA MovedIs ==
    ASSUME NEW t, IsTurn(t), NEW at
    PROVE  LET m == Moved(t, at)
           IN  /\ IsTurn(m) /\ m.at = at /\ m.user = t.user /\ m.session = t.session /\ m.n = t.n
               /\ m.context = t.context /\ m.results = t.results /\ m.missed = t.missed
BY DEF Moved, IsTurn

\* A turn that another message overtook.
LEMMA OvertakenIs ==
    ASSUME NEW t, IsTurn(t)
    PROVE  LET m == Overtaken(t)
           IN  /\ IsTurn(m) /\ m.at = t.at /\ m.user = t.user /\ m.session = t.session /\ m.n = t.n
               /\ m.context = t.context /\ m.results = t.results /\ m.missed = t.missed + 1
BY DEF Overtaken, IsTurn

\* A turn that was given the talk.
LEMMA InformedIs ==
    ASSUME NEW t, IsTurn(t)
    PROVE  LET m == Informed(t)
           IN  /\ IsTurn(m) /\ m.at = "model" /\ m.user = t.user /\ m.session = t.session /\ m.n = t.n
               /\ m.context = Shown(t) /\ m.results = t.results /\ m.missed = t.missed
BY MovedIs DEF Informed, IsTurn

\* A turn that was handed rows.
LEMMA HandedIs ==
    ASSUME NEW t, IsTurn(t), NEW new
    PROVE  LET m == Handed(t, new)
           IN  /\ IsTurn(m) /\ m.at = t.at /\ m.user = t.user /\ m.session = t.session /\ m.n = t.n
               /\ m.context = t.context /\ m.results = t.results \cup new /\ m.missed = t.missed
<1> DEFINE f == [t EXCEPT !.round = @ + 1]
<1>1. /\ IsTurn(f) /\ f.at = t.at /\ f.user = t.user /\ f.session = t.session /\ f.n = t.n
      /\ f.context = t.context /\ f.results = t.results /\ f.missed = t.missed
      BY DEF IsTurn
<1>2. Handed(t, new) = [f EXCEPT !.results = @ \cup new]
      BY DEF Handed
<1> HIDE DEF f
<1> QED BY <1>1, <1>2 DEF IsTurn

\* Whatever is called, its rows are public or the user's.
LEMMA ToolsKeepApart ==
    ASSUME NEW u, NEW call
    PROVE  \A r \in ExecuteTool(u, call) : r.owner \in {u, Nothing}
<1>1. \A new : \A r \in Public(new) : r.owner = Nothing
      BY DEF Public
<1>2. \A r \in ToolSearchProducts(call) : r.owner = Nothing
      BY <1>1 DEF ToolSearchProducts
<1>3. \A r \in ToolComparePrices(call) : r.owner = Nothing
      BY <1>1 DEF ToolComparePrices
<1>4. \A r \in ToolSubstitutions(call) : r.owner = Nothing
      BY <1>1 DEF ToolSubstitutions
<1>5. \A r \in ToolGetPantry(u) : r.owner = u
      BY DEF ToolGetPantry, Active, Present
<1>6. \A r \in ToolBudgetStatus(u) : r.owner = u
      BY DEF ToolBudgetStatus
<1>7. \A r \in ToolGetRecipes(u, call) : r.owner \in {u, Nothing}
      <2>1. \A K, n : FirstOf(K, n) \subseteq K
            BY DEF FirstOf
      <2>2. FirstOf(WithinCost(u, call), 5) \subseteq MenuOf(u)
            <3>1. WithinCost(u, call) \subseteq FirstOf(MenuOf(u), 25)
                  BY DEF WithinCost
            <3> QED BY <2>1, <3>1
      <2>3. \A k \in FirstOf(WithinCost(u, call), 5) : Menu[k].public \/ Menu[k].owner = u
            BY <2>2 DEF MenuOf
      <2> QED BY <2>3 DEF ToolGetRecipes
<1> HIDE DEF ToolSearchProducts, ToolComparePrices
<1> QED BY <1>2, <1>3, <1>4, <1>5, <1>6, <1>7 DEF ExecuteTool

-----------------------------------------------------------------------------
\* A turn goes on beside sessions that go or stay and get no question of its
\* number.
LEMMA StaysGood ==
    ASSUME NEW t, NEW chats, NEW count \in Nat, GoodTurn(t, chats, count),
           NEW chats2, NEW count2 \in Nat, count <= count2,
           t.session \in Chats => chats2[t.session] \in {Nothing, chats[t.session]},
           \A s \in Chats : chats2[s] # Nothing /\ HasQuestion(chats2[s].log, t.n) =>
                               chats[s] # Nothing /\ HasQuestion(chats[s].log, t.n)
    PROVE  GoodTurn(t, chats2, count2)
<1>1. IsTurn(t) /\ t.missed \in Nat /\ (t.at # "idle" => t.at \in Stages)
      BY DEF GoodTurn
<1>2. ASSUME t.at # "idle" PROVE HoldsIn(t, chats2, count2)
      <2>0. HoldsIn(t, chats, count) /\ t.at \in Stages
            BY <1>2 DEF GoodTurn
      <2>1. t.user \in Users /\ t.n \in 1..count2 /\ \A r \in t.results : r.owner \in {t.user, Nothing}
            BY <2>0 DEF HoldsIn
      <2>2. t.at = "session" => t.session \in Chats \cup {Nothing}
            BY <2>0 DEF HoldsIn
      <2>3. t.at # "session" => t.session \in Chats
            BY <2>0 DEF HoldsIn
      <2>4. t.at \in {"session", "ask"} =>
              /\ t.missed = 0
              /\ \A s \in Chats : chats2[s] # Nothing => ~HasQuestion(chats2[s].log, t.n)
            BY <2>0 DEF HoldsIn
      <2>5. CASE t.at = "session"
            BY <2>1, <2>2, <2>4, <2>5 DEF HoldsIn
      <2>6. CASE t.at # "session" /\ chats2[t.session] = Nothing
            BY <2>0, <2>1, <2>3, <2>4, <2>6 DEF HoldsIn
      <2>7. CASE t.at # "session" /\ chats2[t.session] = chats[t.session]
            BY <2>0, <2>1, <2>3, <2>4, <2>7 DEF HoldsIn
      <2> QED BY <2>3, <2>5, <2>6, <2>7
<1> QED BY <1>1, <1>2 DEF GoodTurn

\* What a message more makes of a log.
LEMMA LongerIs ==
    ASSUME NEW c, NEW count, GoodChat(c, count), NEW m
    PROVE  LET d == Longer(c, m)
           IN  /\ d.owner = c.owner /\ d = [owner |-> d.owner, log |-> d.log]
               /\ Len(c.log) \in Nat /\ DOMAIN c.log = 1..Len(c.log)
               /\ Len(d.log) = Len(c.log) + 1 /\ DOMAIN d.log = 1..(Len(c.log) + 1)
               /\ \A k \in 1..Len(c.log) : d.log[k] = c.log[k]
               /\ d.log[Len(c.log) + 1] = m
<1> DEFINE S == {"a"} \cup {c.log[k] : k \in 1..Len(c.log)} \cup {m}
<1>1. c.log \in Seq([role : {"user", "assistant"}, n : 1..count])
      BY DEF GoodChat, GoodLog
<1>2. Len(c.log) \in Nat /\ DOMAIN c.log = 1..Len(c.log) /\ c.log \in [1..Len(c.log) -> S]
      BY <1>1
<1>3. c.log \in Seq(S) /\ m \in S
      BY <1>2
<1>4. /\ Len(Append(c.log, m)) = Len(c.log) + 1
      /\ DOMAIN Append(c.log, m) = 1..(Len(c.log) + 1)
      /\ \A k \in 1..Len(c.log) : Append(c.log, m)[k] = c.log[k]
      /\ Append(c.log, m)[Len(c.log) + 1] = m
      <2> HIDE DEF S
      <2> QED BY <1>2, <1>3
<1>5. Longer(c, m).owner = c.owner /\ Longer(c, m).log = Append(c.log, m)
      /\ Longer(c, m) = [owner |-> Longer(c, m).owner, log |-> Longer(c, m).log]
      BY DEF Longer
<1> QED BY <1>2, <1>4, <1>5

\* A message of another number asks no question of this one.
LEMMA SameQuestions ==
    ASSUME NEW c, NEW count, GoodChat(c, count), NEW m, NEW n, m.n # n
    PROVE  HasQuestion(Longer(c, m).log, n) <=> HasQuestion(c.log, n)
<1> DEFINE log == c.log
           new == Longer(c, m).log
<1>1. /\ Len(log) \in Nat /\ DOMAIN log = 1..Len(log) /\ DOMAIN new = 1..(Len(log) + 1)
      /\ \A k \in 1..Len(log) : new[k] = log[k]
      /\ new[Len(log) + 1] = m
      BY LongerIs
<1>2. ~IsQuestion(new, Len(log) + 1, n)
      BY <1>1 DEF IsQuestion
<1>3. \A k \in 1..Len(log) : IsQuestion(new, k, n) <=> IsQuestion(log, k, n)
      BY <1>1 DEF IsQuestion
<1> HIDE DEF log, new
<1>4. HasQuestion(new, n) <=> HasQuestion(log, n)
      BY <1>1, <1>2, <1>3 DEF HasQuestion
<1> QED BY <1>4 DEF log, new

\* A turn goes on in a session where another message was stored.
LEMMA GrownGood ==
    ASSUME NEW t, NEW chats, NEW count \in Nat, GoodTurn(t, chats, count),
           NEW s \in Chats, t.session = s, chats[s] # Nothing, GoodChat(chats[s], count),
           NEW m, m.n # t.n, NEW chats2, chats2[s] = Longer(chats[s], m),
           \A x \in Chats \ {s} : chats2[x] = chats[x]
    PROVE  /\ t.at # "history" => GoodTurn(t, chats2, count)
           /\ t.at = "history" => GoodTurn(Overtaken(t), chats2, count)
<1> DEFINE log == chats[s].log
           new == chats2[s].log
           o == Overtaken(t)
<1>1. /\ chats2[s].owner = chats[s].owner /\ Len(log) \in Nat /\ DOMAIN log = 1..Len(log)
      /\ Len(new) = Len(log) + 1 /\ DOMAIN new = 1..(Len(log) + 1)
      /\ \A k \in 1..Len(log) : new[k] = log[k]
      /\ new[Len(log) + 1] = m
      BY LongerIs
<1>2. IsTurn(t) /\ t.missed \in Nat /\ (t.at # "idle" => t.at \in Stages)
      BY DEF GoodTurn
<1>3. HasQuestion(new, t.n) <=> HasQuestion(log, t.n)
      BY SameQuestions
<1>4. \A x \in Chats : chats2[x] # Nothing /\ HasQuestion(chats2[x].log, t.n) =>
                         chats[x] # Nothing /\ HasQuestion(chats[x].log, t.n)
      BY <1>3
<1>5. ASSUME t.at # "idle", t.at # "history" PROVE HoldsIn(t, chats2, count)
      <2>1. HoldsIn(t, chats, count)
            BY <1>5 DEF GoodTurn
      <2> QED BY <1>1, <1>3, <1>4, <1>5, <2>1 DEF HoldsIn
<1>6. ASSUME t.at = "history" PROVE GoodTurn(Overtaken(t), chats2, count)
      <2>1. HoldsIn(t, chats, count)
            BY <1>6 DEF GoodTurn
      <2>2. /\ IsTurn(o) /\ o.at = "history" /\ o.user = t.user /\ o.session = s /\ o.n = t.n
            /\ o.results = t.results /\ o.missed = t.missed + 1
            BY <1>2, <1>6, OvertakenIs
      <2>3. /\ t.missed < Len(log) /\ IsQuestion(log, Len(log) - t.missed, t.n)
            /\ HasQuestion(log, t.n) /\ chats[s].owner = t.user
            /\ t.user \in Users /\ t.n \in 1..count
            /\ \A r \in t.results : r.owner \in {t.user, Nothing}
            BY <1>6, <2>1 DEF HoldsIn
      <2>4. o.missed < Len(new) /\ IsQuestion(new, Len(new) - o.missed, o.n)
            <3>1. Len(new) - o.missed = Len(log) - t.missed /\ Len(log) - t.missed \in 1..Len(log)
                  <4>1. /\ Len(log) \in Nat /\ t.missed \in Nat /\ t.missed < Len(log)
                        /\ Len(new) = Len(log) + 1 /\ o.missed = t.missed + 1
                        BY <1>1, <1>2, <2>2, <2>3
                  <4> HIDE DEF log, new, o
                  <4> QED BY <4>1
            <3>2. new[Len(new) - o.missed] = log[Len(log) - t.missed]
                  BY <1>1, <3>1
            <3> QED BY <1>1, <1>2, <2>2, <2>3, <3>2 DEF IsQuestion
      <2> HIDE DEF o
      <2>5. HoldsIn(o, chats2, count)
            BY <1>1, <1>3, <2>2, <2>3, <2>4 DEF HoldsIn
      <2>6. o.missed \in Nat /\ o.at \in Stages
            BY <1>2, <2>2 DEF Stages
      <2>7. GoodTurn(o, chats2, count)
            BY <2>2, <2>5, <2>6 DEF GoodTurn
      <2> QED BY <2>7 DEF o
<1> QED BY <1>2, <1>5, <1>6 DEF GoodTurn

\* A question or a reply more keeps a log good, of one whose turn it is.
LEMMA LogStaysGood ==
    ASSUME NEW c, NEW count \in Nat, GoodChat(c, count), NEW n \in 1..count, NEW role,
           \/ role = "user" /\ ~HasQuestion(c.log, n)
           \/ role = "assistant" /\ HasQuestion(c.log, n)
    PROVE  GoodChat(Longer(c, [role |-> role, n |-> n]), count)
<1> DEFINE m == [role |-> role, n |-> n]
           d == Longer(c, m)
<1>0. m.role = role /\ m.n = n /\ m \in [role : {"user", "assistant"}, n : 1..count]
      OBVIOUS
<1> HIDE DEF m
<1>1. /\ d = [owner |-> d.owner, log |-> d.log]
      /\ Len(c.log) \in Nat /\ DOMAIN c.log = 1..Len(c.log)
      /\ Len(d.log) = Len(c.log) + 1 /\ DOMAIN d.log = 1..(Len(c.log) + 1)
      /\ \A k \in 1..Len(c.log) : d.log[k] = c.log[k]
      /\ d.log[Len(c.log) + 1] = m
      BY LongerIs
<1>2. d.log \in Seq([role : {"user", "assistant"}, n : 1..count])
      <2>1. d.log = Append(c.log, m)
            BY DEF Longer
      <2>2. c.log \in Seq([role : {"user", "assistant"}, n : 1..count])
            BY DEF GoodChat, GoodLog
      <2> HIDE DEF d
      <2> QED BY <1>0, <2>1, <2>2
<1> HIDE DEF d
<1>3. /\ \A k \in 1..Len(c.log) : c.log[k] = [role |-> c.log[k].role, n |-> c.log[k].n]
      /\ \A k \in 1..Len(c.log) : c.log[k].role \in {"user", "assistant"}
      <2>1. \A k \in 1..Len(c.log) : c.log[k] \in [role : {"user", "assistant"}, n : 1..count]
            <3>1. c.log \in Seq([role : {"user", "assistant"}, n : 1..count])
                  BY DEF GoodChat, GoodLog
            <3> QED BY <3>1, ElementOfSeq
      <2> QED BY <2>1
<1>4. ASSUME NEW j \in 1..(Len(c.log) + 1), NEW k \in 1..(Len(c.log) + 1),
             d.log[j].role = "user", d.log[k].role = "user", d.log[j].n = d.log[k].n
      PROVE  j = k
      <2>1. \A i \in 1..Len(c.log) : role = "user" /\ c.log[i].role = "user" => c.log[i].n # n
            BY <1>1, <1>3 DEF HasQuestion, IsQuestion
      <2>2. CASE j \in 1..Len(c.log) /\ k \in 1..Len(c.log)
            BY <1>1, <1>4, <2>2 DEF GoodChat, GoodLog
      <2>3. CASE j = Len(c.log) + 1 /\ k \in 1..Len(c.log)
            BY <1>0, <1>1, <1>4, <2>1, <2>3
      <2>4. CASE k = Len(c.log) + 1 /\ j \in 1..Len(c.log)
            BY <1>0, <1>1, <1>4, <2>1, <2>4
      <2> QED BY <1>1, <2>2, <2>3, <2>4
<1>5. ASSUME NEW k \in 1..(Len(c.log) + 1), d.log[k].role = "assistant"
      PROVE  \E j \in 1..(k - 1) : IsQuestion(d.log, j, d.log[k].n)
      <2>1. CASE k \in 1..Len(c.log)
            <3>1. PICK j \in 1..(k - 1) : IsQuestion(c.log, j, c.log[k].n)
                  BY <1>1, <1>5, <2>1 DEF GoodChat, GoodLog
            <3>2. d.log[j] = c.log[j] /\ d.log[k] = c.log[k]
                  BY <1>1, <2>1
            <3> QED BY <3>1, <3>2 DEF IsQuestion
      <2>2. CASE k = Len(c.log) + 1
            <3>1. HasQuestion(c.log, n)
                  BY <1>0, <1>1, <1>5, <2>2
            <3>2. PICK j \in 1..Len(c.log) : IsQuestion(c.log, j, n)
                  BY <1>1, <3>1 DEF HasQuestion
            <3>3. d.log[j] = c.log[j] /\ d.log[k].n = n /\ j \in 1..(k - 1)
                  BY <1>0, <1>1, <2>2
            <3> QED BY <3>2, <3>3 DEF IsQuestion
      <2> QED BY <1>1, <2>1, <2>2
<1>6. GoodLog(d.log, count)
      BY <1>1, <1>2, <1>4, <1>5 DEF GoodLog
<1> QED BY <1>1, <1>6 DEF GoodChat, d, m

\* The question is stored: it is the last of its session.
LEMMA AskedGood ==
    ASSUME NEW t, NEW chats, NEW count \in Nat, GoodTurn(t, chats, count), t.at = "ask",
           chats[t.session] # Nothing, GoodChat(chats[t.session], count),
           NEW chats2, chats2[t.session] = Longer(chats[t.session], [role |-> "user", n |-> t.n])
    PROVE  GoodTurn(Moved(t, "history"), chats2, count)
<1> DEFINE m == Moved(t, "history")
           q == [role |-> "user", n |-> t.n]
           log == chats[t.session].log
           new == chats2[t.session].log
<1>1. /\ chats2[t.session].owner = chats[t.session].owner /\ Len(log) \in Nat
      /\ Len(new) = Len(log) + 1 /\ DOMAIN new = 1..(Len(log) + 1) /\ new[Len(log) + 1] = q
      BY LongerIs
<1>2. HoldsIn(t, chats, count) /\ IsTurn(t)
      BY DEF GoodTurn
<1>3. /\ t.user \in Users /\ t.n \in 1..count /\ \A r \in t.results : r.owner \in {t.user, Nothing}
      /\ t.session \in Chats /\ chats[t.session].owner = t.user /\ t.missed = 0
      BY <1>2 DEF HoldsIn
<1>4. /\ IsTurn(m) /\ m.at = "history" /\ m.user = t.user /\ m.session = t.session /\ m.n = t.n
      /\ m.results = t.results /\ m.missed = t.missed
      BY <1>2, MovedIs
<1>5. IsQuestion(new, Len(new), t.n) /\ HasQuestion(new, t.n) /\ Len(new) \in Nat /\ 0 < Len(new)
      BY <1>1 DEF HasQuestion, IsQuestion
<1> HIDE DEF m, q, log, new
<1>6. Len(new) - m.missed = Len(new) /\ m.missed < Len(new)
      BY <1>3, <1>4, <1>5
<1>7. HoldsIn(m, chats2, count)
      BY <1>1, <1>3, <1>4, <1>5, <1>6 DEF HoldsIn, new, log
<1>8. GoodTurn(m, chats2, count)
      BY <1>3, <1>4, <1>7 DEF GoodTurn, Stages
<1> QED BY <1>8 DEF m

\* The reply is stored: the session is still the user's.
LEMMA RepliedGood ==
    ASSUME NEW t, NEW chats, NEW count \in Nat, GoodTurn(t, chats, count), t.at = "reply",
           chats[t.session] # Nothing, NEW chats2,
           chats2[t.session].owner = chats[t.session].owner
    PROVE  GoodTurn(Moved(t, "touch"), chats2, count)
<1> DEFINE m == Moved(t, "touch")
<1>1. HoldsIn(t, chats, count) /\ IsTurn(t) /\ t.missed \in Nat
      BY DEF GoodTurn
<1>2. /\ IsTurn(m) /\ m.at = "touch" /\ m.user = t.user /\ m.session = t.session /\ m.n = t.n
      /\ m.results = t.results /\ m.missed = t.missed
      BY <1>1, MovedIs
<1> HIDE DEF m
<1>3. HoldsIn(m, chats2, count)
      BY <1>1, <1>2 DEF HoldsIn
<1>4. GoodTurn(m, chats2, count)
      BY <1>1, <1>2, <1>3 DEF GoodTurn, Stages
<1> QED BY <1>4 DEF m

\* The end of a log, position by position.
LEMMA LastOfIs ==
    ASSUME NEW S, NEW log \in Seq(S), NEW n \in Nat \ {0}
    PROVE  LET c == LastOf(log, n)
           IN  /\ Len(c) \in Nat /\ DOMAIN c = 1..Len(c) /\ Len(c) <= Len(log)
               /\ Len(c) = Len(log) \/ Len(c) = n
               /\ \A k \in 1..Len(c) : c[k] = log[Len(log) - Len(c) + k]
<1>1. Len(log) \in Nat /\ DOMAIN log = 1..Len(log)
      OBVIOUS
<1>2. CASE Len(log) <= n
      <2>1. LastOf(log, n) = log /\ \A k \in 1..Len(log) : Len(log) - Len(log) + k = k
            BY <1>1, <1>2 DEF LastOf
      <2> QED BY <1>1, <2>1
<1>3. CASE ~(Len(log) <= n)
      <2> DEFINE m == Len(log) - n + 1
                 c == SubSeq(log, m, Len(log))
      <2>1. m \in 1..(Len(log) + 1) /\ Len(log) - m + 1 = n
            BY <1>1, <1>3
      <2>2. c \in Seq(S) /\ Len(c) = n /\ \A k \in 1..n : c[k] = log[m + k - 1]
            <3> HIDE DEF m
            <3>1. m \in 1..Len(log) + 1 /\ Len(log) \in m - 1..Len(log)
                  BY <1>1, <2>1
            <3> QED BY <1>1, <2>1, <3>1, SubSeqProperties
      <2>3. LastOf(log, n) = c
            BY <1>3 DEF LastOf
      <2>4. DOMAIN c = 1..Len(c)
            <3> HIDE DEF c
            <3> QED BY <2>2
      <2>5. /\ \A k \in 1..n : m + k - 1 = Len(log) - n + k
            /\ n <= Len(log) /\ n \in Nat
            BY <1>1, <1>3
      <2> HIDE DEF c, m
      <2>6. \A k \in 1..n : c[k] = log[Len(log) - n + k]
            BY <2>2, <2>5
      <2> QED BY <2>2, <2>3, <2>4, <2>5, <2>6
<1> QED BY <1>2, <1>3

\* Counted back from the end, a place of the log is a place of what is shown.
LEMMA CountedBack ==
    \A c, l, k, m \in Int :
       0 <= m /\ m < k /\ m < l /\ (c = l \/ c = k) => c - m \in 1..c /\ l - c + (c - m) = l - m
OBVIOUS

\* What the model is given has the question where it must be.
LEMMA InformedGood ==
    ASSUME AssistantAssumption, SessionsGood, asked \in Nat, NEW t, GoodTurn(t, chat, asked), t.at = "history"
    PROVE  GoodTurn(Informed(t), chat, asked)
<1> DEFINE m == Informed(t)
           c == Shown(t)
           log == chat[t.session].log
<1>1. HoldsIn(t, chat, asked) /\ IsTurn(t) /\ t.missed \in Nat
      BY DEF GoodTurn
<1>2. /\ IsTurn(m) /\ m.at = "model" /\ m.user = t.user /\ m.session = t.session /\ m.n = t.n
      /\ m.results = t.results /\ m.missed = t.missed /\ m.context = c
      BY <1>1, InformedIs
<1> DEFINE own == {k \in DOMAIN c : c[k] = [role |-> "user", n |-> t.n]}
<1>3. c # <<>> => /\ t.missed < Context => own # {}
                  /\ \A k \in own : k = Len(c) - t.missed
      <2>1. CASE chat[t.session] = Nothing
            BY <2>1 DEF Shown
      <2>2. CASE chat[t.session] # Nothing
            <3>1. /\ t.session \in Chats /\ t.missed < Len(log)
                  /\ IsQuestion(log, Len(log) - t.missed, t.n)
                  BY <1>1, <2>2 DEF HoldsIn
            <3>2. GoodLog(log, asked)
                  BY <2>2, <3>1 DEF SessionsGood, GoodChat
            <3>3. log \in Seq([role : {"user", "assistant"}, n : 1..asked])
                  BY <3>2 DEF GoodLog
            <3>4. c = LastOf(log, Context) /\ Context \in Nat \ {0}
                  BY <2>2 DEF Shown, ContextOf, AssistantAssumption
            <3> HIDE DEF log, c
            <3>5. /\ Len(c) \in Nat /\ DOMAIN c = 1..Len(c) /\ Len(c) <= Len(log) /\ Len(log) \in Nat
                  /\ Len(c) = Len(log) \/ Len(c) = Context
                  /\ \A k \in 1..Len(c) : c[k] = log[Len(log) - Len(c) + k]
                  BY <3>3, <3>4, LastOfIs
            <3>7. Len(c) \in Int /\ Len(log) \in Int /\ Len(c) <= Len(log) /\ t.missed \in Nat
                  <4>1. Len(c) \in Nat /\ Len(log) \in Nat /\ Len(c) <= Len(log)
                        BY <3>5, Zenon
                  <4> QED BY <1>1, <4>1
            <3>6. ASSUME NEW k \in own PROVE k = Len(c) - t.missed
                  <4> DEFINE j == Len(log) - Len(c) + k
                             i == Len(log) - t.missed
                  <4>1. k \in 1..Len(c) /\ j \in 1..Len(log) /\ i \in 1..Len(log)
                        <5>1. k \in 1..Len(c)
                              BY <3>5, <3>6
                        <5>2. j \in 1..Len(log)
                              BY <5>1, <3>7
                        <5>3. i \in 1..Len(log)
                              BY <1>1, <3>1, <3>7
                        <5> QED BY <5>1, <5>2, <5>3
                  <4>2. log[j] = [role |-> "user", n |-> t.n] /\ log[i] = [role |-> "user", n |-> t.n]
                        BY <3>1, <3>5, <4>1 DEF IsQuestion
                  <4>3. DOMAIN log = 1..Len(log)
                        BY <3>3
                  <4>4. j = i
                        <5> HIDE DEF i, j
                        <5>1. log[j].role = "user" /\ log[i].role = "user" /\ log[j].n = log[i].n
                              BY <4>2
                        <5> QED BY <3>2, <4>1, <4>3, <5>1 DEF GoodLog
                  <4> HIDE DEF own
                  <4> QED BY <1>1, <3>7, <4>1, <4>4
            <3>8. ASSUME t.missed < Context PROVE own # {}
                  <4> DEFINE k == Len(c) - t.missed
                  <4>1. k \in 1..Len(c) /\ Len(log) - Len(c) + k = Len(log) - t.missed
                        <5>1. t.missed \in Nat /\ t.missed < Context /\ t.missed < Len(log) /\ Context \in Nat
                              BY <1>1, <3>1, <3>4, <3>8, Zenon
                        <5>2. Len(c) = Len(log) \/ Len(c) = Context
                              BY <3>5, Zenon
                        <5> QED BY <5>1, <5>2, <3>7, CountedBack
                  <4>2. c[k] = [role |-> "user", n |-> t.n]
                        <5> HIDE DEF k
                        <5> QED BY <3>1, <3>5, <4>1 DEF IsQuestion
                  <4> HIDE DEF k
                  <4> QED BY <3>5, <4>1, <4>2
            <3> QED BY <3>6, <3>8
      <2> QED BY <2>1, <2>2
<1>4. SeesQuestion(m)
      <2> HIDE DEF m, c
      <2> QED BY <1>2, <1>3 DEF SeesQuestion
<1> HIDE DEF m
<1>5. HoldsIn(m, chat, asked)
      BY <1>1, <1>2, <1>4 DEF HoldsIn
<1>6. GoodTurn(m, chat, asked)
      BY <1>1, <1>2, <1>5 DEF GoodTurn, Stages
<1> QED BY <1>6 DEF m

-----------------------------------------------------------------------------
\* A finite set with an element more at most.
LEMMA OneMore ==
    ASSUME NEW A, IsFiniteSet(A), NEW x, NEW B, B \subseteq A \cup {x}
    PROVE  IsFiniteSet(B) /\ Cardinality(B) <= Cardinality(A) + 1
           /\ Cardinality(A) \in Nat /\ Cardinality(B) \in Nat
<1>1. IsFiniteSet(A \cup {x}) /\ Cardinality(A \cup {x}) <= Cardinality(A) + 1
      <2>1. /\ IsFiniteSet(A \cup {x}) /\ Cardinality(A) \in Nat
            /\ Cardinality(A \cup {x}) = IF x \in A THEN Cardinality(A) ELSE Cardinality(A) + 1
            BY FS_AddElement, FS_CardinalityType
      <2> QED BY <2>1
<1>2. IsFiniteSet(B) /\ Cardinality(B) <= Cardinality(A \cup {x})
      BY <1>1, FS_Subset
<1>3. Cardinality(A) \in Nat /\ Cardinality(B) \in Nat /\ Cardinality(A \cup {x}) \in Nat
      BY <1>1, <1>2, FS_CardinalityType
<1> QED BY <1>1, <1>2, <1>3

\* Without one of its elements at least.
LEMMA OneLess ==
    ASSUME NEW A, IsFiniteSet(A), NEW x \in A, NEW B, B \subseteq A \ {x}
    PROVE  IsFiniteSet(B) /\ Cardinality(B) + 1 <= Cardinality(A)
           /\ Cardinality(A) \in Nat /\ Cardinality(B) \in Nat
<1>1. /\ IsFiniteSet(A \ {x}) /\ Cardinality(A) \in Nat
      /\ Cardinality(A \ {x}) = Cardinality(A) - 1
      <2>1. /\ IsFiniteSet(A \ {x}) /\ Cardinality(A) \in Nat
            /\ Cardinality(A \ {x}) = IF x \in A THEN Cardinality(A) - 1 ELSE Cardinality(A)
            BY FS_RemoveElement, FS_CardinalityType
      <2> QED BY <2>1
<1>2. IsFiniteSet(B) /\ Cardinality(B) <= Cardinality(A \ {x}) /\ Cardinality(B) \in Nat
      BY <1>1, FS_Subset, FS_CardinalityType
<1> QED BY <1>1, <1>2

\* A part of it.
LEMMA NoMore ==
    ASSUME NEW A, IsFiniteSet(A), NEW B, B \subseteq A
    PROVE  IsFiniteSet(B) /\ Cardinality(B) <= Cardinality(A)
           /\ Cardinality(A) \in Nat /\ Cardinality(B) \in Nat
BY FS_Subset, FS_CardinalityType

\* Nothing is asked and nothing paid.
LEMMA PaidQuietly ==
    ASSUME Paid, ChatTypes, spentChats' = spentChats,
           \A u \in Users : QuestionsOf(u)' \subseteq QuestionsOf(u) /\ Waiting(u)' \subseteq Waiting(u)
    PROVE  Paid'
<1> SUFFICES ASSUME NEW u \in Users
             PROVE  /\ IsFiniteSet(QuestionsOf(u)') /\ IsFiniteSet(Waiting(u)')
                    /\ Cardinality(QuestionsOf(u)') + Cardinality(Waiting(u)') <= spentChats[u]
    BY DEF Paid
<1>1. /\ IsFiniteSet(QuestionsOf(u)) /\ IsFiniteSet(Waiting(u))
      /\ Cardinality(QuestionsOf(u)) + Cardinality(Waiting(u)) <= spentChats[u]
      /\ spentChats[u] \in Nat
      BY DEF Paid, ChatTypes
<1>2. /\ IsFiniteSet(QuestionsOf(u)') /\ Cardinality(QuestionsOf(u)') <= Cardinality(QuestionsOf(u))
      /\ Cardinality(QuestionsOf(u)) \in Nat /\ Cardinality(QuestionsOf(u)') \in Nat
      BY <1>1, NoMore
<1>3. /\ IsFiniteSet(Waiting(u)') /\ Cardinality(Waiting(u)') <= Cardinality(Waiting(u))
      /\ Cardinality(Waiting(u)) \in Nat /\ Cardinality(Waiting(u)') \in Nat
      BY <1>1, NoMore
<1> QED BY <1>1, <1>2, <1>3

\* One question of a user is paid for.
LEMMA PaidFor ==
    ASSUME Paid, ChatTypes, NEW u \in Users, NEW h,
           spentChats' = [spentChats EXCEPT ![u] = @ + 1],
           \A v \in Users : /\ QuestionsOf(v)' \subseteq QuestionsOf(v)
                            /\ Waiting(v)' \subseteq Waiting(v) \cup (IF v = u THEN {h} ELSE {})
    PROVE  Paid'
<1> SUFFICES ASSUME NEW v \in Users
             PROVE  /\ IsFiniteSet(QuestionsOf(v)') /\ IsFiniteSet(Waiting(v)')
                    /\ Cardinality(QuestionsOf(v)') + Cardinality(Waiting(v)') <= spentChats'[v]
    BY DEF Paid
<1>1. /\ IsFiniteSet(QuestionsOf(v)) /\ IsFiniteSet(Waiting(v))
      /\ Cardinality(QuestionsOf(v)) + Cardinality(Waiting(v)) <= spentChats[v]
      /\ spentChats[v] \in Nat
      /\ spentChats'[v] = IF v = u THEN spentChats[v] + 1 ELSE spentChats[v]
      BY DEF Paid, ChatTypes
<1>2. /\ IsFiniteSet(QuestionsOf(v)') /\ Cardinality(QuestionsOf(v)') <= Cardinality(QuestionsOf(v))
      /\ Cardinality(QuestionsOf(v)) \in Nat /\ Cardinality(QuestionsOf(v)') \in Nat
      BY <1>1, NoMore
<1>3. CASE v = u
      <2>1. /\ IsFiniteSet(Waiting(v)') /\ Cardinality(Waiting(v)') <= Cardinality(Waiting(v)) + 1
            /\ Cardinality(Waiting(v)) \in Nat /\ Cardinality(Waiting(v)') \in Nat
            <3>1. Waiting(v)' \subseteq Waiting(v) \cup {h}
                  BY <1>3
            <3> QED BY <1>1, <3>1, OneMore
      <2> QED BY <1>1, <1>2, <1>3, <2>1
<1>4. CASE v # u
      <2>1. /\ IsFiniteSet(Waiting(v)') /\ Cardinality(Waiting(v)') <= Cardinality(Waiting(v))
            /\ Cardinality(Waiting(v)) \in Nat /\ Cardinality(Waiting(v)') \in Nat
            <3>1. Waiting(v)' \subseteq Waiting(v)
                  BY <1>4
            <3> QED BY <1>1, <3>1, NoMore
      <2> QED BY <1>1, <1>2, <1>4, <2>1
<1> QED BY <1>3, <1>4

\* One question that was paid for is stored.
LEMMA PaidBefore ==
    ASSUME Paid, ChatTypes, NEW u \in Users, NEW h \in Waiting(u), NEW p, spentChats' = spentChats,
           \A v \in Users : /\ QuestionsOf(v)' \subseteq QuestionsOf(v) \cup (IF v = u THEN {p} ELSE {})
                            /\ Waiting(v)' \subseteq Waiting(v) \ {h}
    PROVE  Paid'
<1> SUFFICES ASSUME NEW v \in Users
             PROVE  /\ IsFiniteSet(QuestionsOf(v)') /\ IsFiniteSet(Waiting(v)')
                    /\ Cardinality(QuestionsOf(v)') + Cardinality(Waiting(v)') <= spentChats[v]
    BY DEF Paid
<1>1. /\ IsFiniteSet(QuestionsOf(v)) /\ IsFiniteSet(Waiting(v))
      /\ Cardinality(QuestionsOf(v)) + Cardinality(Waiting(v)) <= spentChats[v]
      /\ spentChats[v] \in Nat
      BY DEF Paid, ChatTypes
<1>2. CASE v = u
      <2>1. /\ IsFiniteSet(QuestionsOf(v)')
            /\ Cardinality(QuestionsOf(v)') <= Cardinality(QuestionsOf(v)) + 1
            /\ Cardinality(QuestionsOf(v)) \in Nat /\ Cardinality(QuestionsOf(v)') \in Nat
            <3>1. QuestionsOf(v)' \subseteq QuestionsOf(v) \cup {p}
                  BY <1>2
            <3> QED BY <1>1, <3>1, OneMore
      <2>2. /\ IsFiniteSet(Waiting(v)') /\ Cardinality(Waiting(v)') + 1 <= Cardinality(Waiting(v))
            /\ Cardinality(Waiting(v)) \in Nat /\ Cardinality(Waiting(v)') \in Nat
            <3>1. h \in Waiting(v) /\ Waiting(v)' \subseteq Waiting(v) \ {h}
                  BY <1>2
            <3> QED BY <1>1, <3>1, OneLess
      <2> QED BY <1>1, <2>1, <2>2
<1>3. CASE v # u
      <2>1. /\ IsFiniteSet(QuestionsOf(v)') /\ Cardinality(QuestionsOf(v)') <= Cardinality(QuestionsOf(v))
            /\ Cardinality(QuestionsOf(v)) \in Nat /\ Cardinality(QuestionsOf(v)') \in Nat
            <3>1. QuestionsOf(v)' \subseteq QuestionsOf(v)
                  BY <1>3
            <3> QED BY <1>1, <3>1, NoMore
      <2>2. /\ IsFiniteSet(Waiting(v)') /\ Cardinality(Waiting(v)') <= Cardinality(Waiting(v))
            /\ Cardinality(Waiting(v)) \in Nat /\ Cardinality(Waiting(v)') \in Nat
            <3>1. Waiting(v)' \subseteq Waiting(v)
                  OBVIOUS
            <3> QED BY <1>1, <3>1, NoMore
      <2> QED BY <1>1, <2>1, <2>2
<1> QED BY <1>2, <1>3

-----------------------------------------------------------------------------
\* One turn goes on while the sessions stay: what its step has to show.
LEMMA OneMoves ==
    ASSUME AssistantInv, NEW h \in Handlers, NEW t, turn' = [turn EXCEPT ![h] = t],
           chat' = chat, asked' \in Nat, asked <= asked', spentChats' \in [Users -> Nat],
           GoodTurn(t, chat, asked'),
           t.at # "idle" => \/ t.n = asked' /\ asked < asked'
                            \/ turn[h].at # "idle" /\ t.n = turn[h].n
    PROVE  /\ ChatTypes' /\ SessionsGood' /\ TurnsGood' /\ Numbered'
           /\ \A u : QuestionsOf(u)' = QuestionsOf(u)
           /\ \A k \in Handlers : turn'[k] = IF k = h THEN t ELSE turn[k]
<1>0. /\ ChatTypes /\ SessionsGood /\ TurnsGood /\ Numbered
      BY DEF AssistantInv
<1>1. \A k \in Handlers : turn'[k] = IF k = h THEN t ELSE turn[k]
      BY <1>0 DEF ChatTypes
<1>2. ChatTypes'
      BY <1>0 DEF ChatTypes
<1>3. ASSUME NEW s \in Chats, chat[s] # Nothing PROVE GoodChat(chat[s], asked')
      <2>1. GoodChat(chat[s], asked) /\ asked \in Nat
            BY <1>0, <1>3 DEF SessionsGood, ChatTypes
      <2>2. chat[s].log \in Seq([role : {"user", "assistant"}, n : 1..asked'])
            <3>1. chat[s].log \in Seq([role : {"user", "assistant"}, n : 1..asked])
                  BY <2>1 DEF GoodChat, GoodLog
            <3>2. [role : {"user", "assistant"}, n : 1..asked] \subseteq [role : {"user", "assistant"}, n : 1..asked']
                  BY <2>1
            <3> QED BY <3>1, <3>2, SeqMonotonic
      <2> QED BY <2>1, <2>2 DEF GoodChat, GoodLog
<1>4. SessionsGood'
      BY <1>3 DEF SessionsGood
<1>5. ASSUME NEW k \in Handlers, k # h PROVE GoodTurn(turn[k], chat, asked')
      BY <1>0, StaysGood DEF TurnsGood, ChatTypes
<1>6. TurnsGood'
      BY <1>1, <1>5 DEF TurnsGood
<1>7. Numbered'
      <2>1. \A k \in Handlers : turn[k].at # "idle" => turn[k].n \in 1..asked
            BY <1>0 DEF TurnsGood, GoodTurn, HoldsIn
      <2>2. \A k \in Handlers \ {h} : turn[k].at # "idle" /\ t.at # "idle" => turn[k].n # t.n
            BY <1>0, <2>1 DEF Numbered, ChatTypes
      <2> QED BY <1>0, <1>1, <2>2 DEF Numbered
<1>8. \A u : QuestionsOf(u)' = QuestionsOf(u)
      BY DEF QuestionsOf
<1> QED BY <1>1, <1>2, <1>4, <1>6, <1>7, <1>8

\* A turn is over, however.
LEMMA DropKeeps ==
    ASSUME AssistantInv, NEW h \in Handlers, Drop(h), UNCHANGED <<chat, spentChats, asked>>
    PROVE  AssistantInv'
<1>0. /\ ChatTypes /\ SessionsGood /\ TurnsGood /\ Numbered /\ Paid
      BY DEF AssistantInv
<1>1. IsTurn(NoTurn) /\ NoTurn.at = "idle" /\ NoTurn.missed = 0
      BY TurnIs DEF NoTurn
<1>2. GoodTurn(NoTurn, chat, asked)
      BY <1>1 DEF GoodTurn
<1>3. turn' = [turn EXCEPT ![h] = NoTurn] /\ asked' \in Nat /\ asked <= asked'
      /\ spentChats' \in [Users -> Nat] /\ chat' = chat /\ spentChats' = spentChats /\ asked' = asked
      BY <1>0 DEF Drop, ChatTypes
<1> HIDE DEF NoTurn
<1>4. /\ ChatTypes' /\ SessionsGood' /\ TurnsGood' /\ Numbered'
      /\ \A u : QuestionsOf(u)' = QuestionsOf(u)
      /\ \A k \in Handlers : turn'[k] = IF k = h THEN NoTurn ELSE turn[k]
      BY <1>1, <1>2, <1>3, OneMoves
<1>5. \A u \in Users : Waiting(u)' \subseteq Waiting(u)
      BY <1>1, <1>4 DEF Waiting
<1>6. Paid'
      BY <1>0, <1>3, <1>4, <1>5, PaidQuietly
<1> QED BY <1>4, <1>6 DEF AssistantInv

\* A turn goes on without a message.
LEMMA GoesOnKeeps ==
    ASSUME AssistantInv, NEW h \in Handlers, NEW t, turn' = [turn EXCEPT ![h] = t],
           UNCHANGED <<chat, spentChats, asked>>, GoodTurn(t, chat, asked),
           turn[h].at # "idle", t.n = turn[h].n, t.user = turn[h].user,
           t.at \in {"session", "ask"} => turn[h].at \in {"session", "ask"}
    PROVE  AssistantInv'
<1>0. /\ ChatTypes /\ SessionsGood /\ TurnsGood /\ Numbered /\ Paid
      BY DEF AssistantInv
<1>3. asked' \in Nat /\ asked <= asked' /\ spentChats' \in [Users -> Nat] /\ chat' = chat
      /\ spentChats' = spentChats /\ asked' = asked
      BY <1>0 DEF ChatTypes
<1>4. /\ ChatTypes' /\ SessionsGood' /\ TurnsGood' /\ Numbered'
      /\ \A u : QuestionsOf(u)' = QuestionsOf(u)
      /\ \A k \in Handlers : turn'[k] = IF k = h THEN t ELSE turn[k]
      BY <1>3, OneMoves
<1>5. \A u \in Users : Waiting(u)' \subseteq Waiting(u)
      BY <1>4 DEF Waiting
<1>6. Paid'
      BY <1>0, <1>3, <1>4, <1>5, PaidQuietly
<1> QED BY <1>4, <1>6 DEF AssistantInv

\* chat: the message has a number of its own and is paid for.
LEMMA ChatKeeps ==
    ASSUME AssistantInv, AssistantAssumption, NEW h \in Handlers, NEW u \in Users,
           NEW s \in Chats \cup {Nothing}, Chat(h, u, s)
    PROVE  AssistantInv'
<1> DEFINE t == Turn("session", u, s, asked + 1)
<1>0. /\ ChatTypes /\ SessionsGood /\ TurnsGood /\ Numbered /\ Paid /\ asked \in Nat
      BY DEF AssistantInv, ChatTypes
<1>1. /\ IsTurn(t) /\ t.at = "session" /\ t.user = u /\ t.session = s /\ t.n = asked + 1
      /\ t.results = {} /\ t.missed = 0
      BY TurnIs
<1>2. /\ turn' = [turn EXCEPT ![h] = t] /\ chat' = chat /\ asked' = asked + 1
      /\ spentChats' = [spentChats EXCEPT ![u] = @ + 1]
      BY DEF Chat
<1> HIDE DEF t
<1>3. ASSUME NEW x \in Chats, chat[x] # Nothing PROVE ~HasQuestion(chat[x].log, asked + 1)
      <2>1. chat[x].log \in Seq([role : {"user", "assistant"}, n : 1..asked])
            BY <1>0, <1>3 DEF SessionsGood, GoodChat, GoodLog
      <2>2. \A k \in DOMAIN chat[x].log : chat[x].log[k].n \in 1..asked
            <3>1. DOMAIN chat[x].log = 1..Len(chat[x].log)
                  BY <2>1
            <3>2. \A k \in 1..Len(chat[x].log) :
                     chat[x].log[k] \in [role : {"user", "assistant"}, n : 1..asked]
                  BY <2>1, ElementOfSeq
            <3> QED BY <3>1, <3>2
      <2>3. ASSUME NEW k \in DOMAIN chat[x].log, IsQuestion(chat[x].log, k, asked + 1) PROVE FALSE
            <3>1. chat[x].log[k].n = asked + 1
                  BY <2>3 DEF IsQuestion
            <3> QED BY <1>0, <2>2, <3>1
      <2> QED BY <2>3 DEF HasQuestion
<1>4. HoldsIn(t, chat, asked + 1)
      BY <1>0, <1>1, <1>3 DEF HoldsIn
<1>5. GoodTurn(t, chat, asked')
      BY <1>1, <1>2, <1>4 DEF GoodTurn, Stages
<1>6. asked' \in Nat /\ asked < asked' /\ asked <= asked' /\ spentChats' \in [Users -> Nat]
      BY <1>0, <1>2 DEF ChatTypes
<1>7. /\ ChatTypes' /\ SessionsGood' /\ TurnsGood' /\ Numbered'
      /\ \A v : QuestionsOf(v)' = QuestionsOf(v)
      /\ \A k \in Handlers : turn'[k] = IF k = h THEN t ELSE turn[k]
      BY <1>1, <1>2, <1>5, <1>6, OneMoves
<1>8. \A v \in Users : Waiting(v)' \subseteq Waiting(v) \cup (IF v = u THEN {h} ELSE {})
      BY <1>1, <1>7 DEF Waiting
<1>9. Paid'
      BY <1>0, <1>2, <1>7, <1>8, PaidFor
<1> QED BY <1>7, <1>9 DEF AssistantInv

\* findOrCreateSession: the session is the user's.
LEMMA FindOrCreateKeeps ==
    ASSUME AssistantInv, AssistantAssumption, NEW h \in Handlers, FindOrCreateSession(h)
    PROVE  AssistantInv'
<1> DEFINE t == turn[h]
<1>0. /\ ChatTypes /\ SessionsGood /\ TurnsGood /\ Numbered /\ Paid /\ asked \in Nat
      BY DEF AssistantInv, ChatTypes
<1>1. /\ t.at = "session" /\ UNCHANGED <<spentChats, asked>> /\ GoodTurn(t, chat, asked)
      /\ IsTurn(t) /\ HoldsIn(t, chat, asked)
      BY <1>0 DEF FindOrCreateSession, TurnsGood, GoodTurn
<1>2. /\ t.user \in Users /\ t.n \in 1..asked /\ (\A r \in t.results : r.owner \in {t.user, Nothing})
      /\ t.session \in Chats \cup {Nothing} /\ t.missed = 0
      /\ \A x \in Chats : chat[x] # Nothing => ~HasQuestion(chat[x].log, t.n)
      BY <1>1 DEF HoldsIn
<1>3. CASE t.session # Nothing
      <2>1. UNCHANGED chat
            BY <1>3 DEF FindOrCreateSession
      <2>2. CASE chat[t.session] # Nothing /\ chat[t.session].owner = t.user
            <3> DEFINE m == Moved(t, "ask")
            <3>1. turn' = [turn EXCEPT ![h] = m]
                  BY <1>3, <2>2 DEF FindOrCreateSession, Proceed
            <3>2. /\ IsTurn(m) /\ m.at = "ask" /\ m.user = t.user /\ m.session = t.session /\ m.n = t.n
                  /\ m.results = t.results /\ m.missed = t.missed
                  BY <1>1, MovedIs
            <3> HIDE DEF m, t
            <3>3. HoldsIn(m, chat, asked)
                  BY <1>2, <1>3, <2>2, <3>2 DEF HoldsIn
            <3>4. GoodTurn(m, chat, asked)
                  BY <1>2, <3>2, <3>3 DEF GoodTurn, Stages
            <3> QED BY <1>1, <2>1, <3>1, <3>2, <3>4, GoesOnKeeps DEF t
      <2>3. CASE ~(chat[t.session] # Nothing /\ chat[t.session].owner = t.user)
            <3>1. Drop(h)
                  BY <1>3, <2>3 DEF FindOrCreateSession
            <3> QED BY <1>1, <2>1, <3>1, DropKeeps
      <2> QED BY <2>2, <2>3
<1>4. CASE t.session = Nothing
      <2>1. PICK s \in Chats : /\ chat[s] = Nothing /\ \A k \in Handlers : turn[k].session # s
                               /\ chat' = [chat EXCEPT ![s] = [owner |-> t.user, log |-> <<>>]]
                               /\ turn' = [turn EXCEPT ![h] = Turn("ask", t.user, s, t.n)]
            BY <1>4 DEF FindOrCreateSession
      <2> DEFINE m == Turn("ask", t.user, s, t.n)
                 c == [owner |-> t.user, log |-> <<>>]
      <2>2. /\ IsTurn(m) /\ m.at = "ask" /\ m.user = t.user /\ m.session = s /\ m.n = t.n
            /\ m.results = {} /\ m.missed = 0
            BY TurnIs
      <2>3. /\ \A k \in Handlers : turn'[k] = IF k = h THEN m ELSE turn[k]
            /\ \A x \in Chats : chat'[x] = IF x = s THEN c ELSE chat[x]
            /\ ChatTypes'
            BY <1>0, <1>1, <2>1 DEF ChatTypes
      <2>4. c.owner = t.user /\ c.log = <<>> /\ GoodChat(c, asked)
            <3>1. <<>> \in Seq([role : {"user", "assistant"}, n : 1..asked]) /\ DOMAIN <<>> = {}
                  OBVIOUS
            <3>2. GoodLog(<<>>, asked)
                  BY <3>1 DEF GoodLog
            <3> QED BY <3>2 DEF GoodChat
      <2>5. \A n : ~HasQuestion(c.log, n)
            BY <2>4 DEF HasQuestion
      <2> HIDE DEF m, c, t
      <2>6. SessionsGood'
            BY <1>0, <1>1, <2>3, <2>4 DEF SessionsGood
      <2>7. HoldsIn(m, chat', asked)
            BY <1>2, <2>2, <2>3, <2>4, <2>5 DEF HoldsIn
      <2>8. GoodTurn(m, chat', asked)
            BY <2>2, <2>7 DEF GoodTurn, Stages
      <2>9. ASSUME NEW k \in Handlers PROVE GoodTurn(turn[k], chat', asked)
            <3>1. GoodTurn(turn[k], chat, asked) /\ turn[k].session # s
                  BY <1>0, <2>1 DEF TurnsGood
            <3>2. turn[k].session \in Chats => chat'[turn[k].session] \in {Nothing, chat[turn[k].session]}
                  BY <2>3, <3>1
            <3>3. \A x \in Chats : chat'[x] # Nothing /\ HasQuestion(chat'[x].log, turn[k].n) =>
                                      chat[x] # Nothing /\ HasQuestion(chat[x].log, turn[k].n)
                  BY <2>3, <2>5
            <3> QED BY <1>0, <3>1, <3>2, <3>3, StaysGood
      <2>10. TurnsGood'
            BY <1>1, <2>3, <2>8, <2>9 DEF TurnsGood
      <2>11. Numbered'
            BY <1>0, <1>1, <2>2, <2>3 DEF Numbered, t
      <2>12. \A u \in Users : QuestionsOf(u)' \subseteq QuestionsOf(u) /\ Waiting(u)' \subseteq Waiting(u)
            <3>1. ASSUME NEW u, NEW p \in QuestionsOf(u)' PROVE p \in QuestionsOf(u)
                  <4>1. /\ p \in Chats \X (1..(2 * MaxQuestions))
                        /\ chat'[p[1]] # Nothing /\ chat'[p[1]].owner = u /\ p[2] \in DOMAIN chat'[p[1]].log
                        /\ chat'[p[1]].log[p[2]].role = "user"
                        BY <3>1 DEF QuestionsOf
                  <4>2. p[1] \in Chats /\ p[1] # s
                        BY <2>3, <2>4, <4>1
                  <4>3. chat'[p[1]] = chat[p[1]]
                        BY <2>3, <4>2
                  <4> QED BY <4>1, <4>3 DEF QuestionsOf
            <3>2. \A u \in Users : Waiting(u)' \subseteq Waiting(u)
                  BY <1>1, <2>2, <2>3 DEF Waiting, t
            <3> QED BY <3>1, <3>2
      <2>13. Paid'
            BY <1>0, <1>1, <2>12, PaidQuietly
      <2> QED BY <2>3, <2>6, <2>10, <2>11, <2>13 DEF AssistantInv
<1> QED BY <1>3, <1>4

\* deleteSession: turns in it go on with nothing there.
LEMMA DeleteKeeps ==
    ASSUME AssistantInv, NEW u \in Users, NEW s \in Chats, DeleteSession(u, s)
    PROVE  AssistantInv'
<1>0. /\ ChatTypes /\ SessionsGood /\ TurnsGood /\ Numbered /\ Paid /\ asked \in Nat
      BY DEF AssistantInv, ChatTypes
<1>1. /\ UNCHANGED <<turn, spentChats, asked>>
      /\ \A x \in Chats : chat'[x] = IF x = s THEN Nothing ELSE chat[x]
      /\ ChatTypes'
      BY <1>0 DEF DeleteSession, ChatTypes
<1>2. SessionsGood'
      BY <1>0, <1>1 DEF SessionsGood
<1>3. ASSUME NEW k \in Handlers PROVE GoodTurn(turn[k], chat', asked)
      <2>1. GoodTurn(turn[k], chat, asked)
            BY <1>0 DEF TurnsGood
      <2> QED BY <1>0, <1>1, <2>1, StaysGood
<1>4. TurnsGood' /\ Numbered'
      BY <1>0, <1>1, <1>3 DEF TurnsGood, Numbered
<1>5. \A v \in Users : QuestionsOf(v)' \subseteq QuestionsOf(v) /\ Waiting(v)' \subseteq Waiting(v)
      <2>1. ASSUME NEW v, NEW p \in QuestionsOf(v)' PROVE p \in QuestionsOf(v)
            <3>1. /\ p \in Chats \X (1..(2 * MaxQuestions))
                  /\ chat'[p[1]] # Nothing /\ chat'[p[1]].owner = v /\ p[2] \in DOMAIN chat'[p[1]].log
                  /\ chat'[p[1]].log[p[2]].role = "user"
                  BY <2>1 DEF QuestionsOf
            <3>2. chat'[p[1]] = chat[p[1]]
                  BY <1>1, <3>1
            <3> QED BY <3>1, <3>2 DEF QuestionsOf
      <2> QED BY <1>1, <2>1 DEF Waiting
<1>6. Paid'
      BY <1>0, <1>1, <1>5, PaidQuietly
<1> QED BY <1>1, <1>2, <1>4, <1>6 DEF AssistantInv

\* A message is stored: of the user who asks, or of the assistant behind it.
LEMMA StoreKeeps ==
    ASSUME AssistantInv, AssistantAssumption, NEW h \in Handlers, NEW role, NEW next,
           \/ role = "user" /\ turn[h].at = "ask" /\ next = "history"
           \/ role = "assistant" /\ turn[h].at = "reply" /\ next = "touch",
           Store(h, role, next)
    PROVE  AssistantInv'
<1> DEFINE t == turn[h]
           s == t.session
           q == [role |-> role, n |-> t.n]
           c == chat[s]
           new == Longer(c, q)
           m == Moved(t, next)
<1>0. /\ ChatTypes /\ SessionsGood /\ TurnsGood /\ Numbered /\ Paid /\ asked \in Nat
      BY DEF AssistantInv, ChatTypes
<1>1. /\ t.at \in {"ask", "reply"} /\ UNCHANGED <<spentChats, asked>> /\ GoodTurn(t, chat, asked)
      /\ IsTurn(t) /\ HoldsIn(t, chat, asked)
      BY <1>0 DEF Store, TurnsGood, GoodTurn
<1>2. /\ t.user \in Users /\ t.n \in 1..asked /\ s \in Chats /\ (c # Nothing => c.owner = t.user)
      /\ t.at = "ask" => \A x \in Chats : chat[x] # Nothing => ~HasQuestion(chat[x].log, t.n)
      /\ t.at = "reply" /\ c # Nothing => HasQuestion(c.log, t.n)
      BY <1>1 DEF HoldsIn
<1>3. CASE c = Nothing
      BY <1>1, <1>3, DropKeeps DEF Store
<1>4. CASE c # Nothing
      <2>1. /\ chat' = [chat EXCEPT ![s] = new]
            /\ turn' = [k \in Handlers |->
                  IF k = h THEN m
                  ELSE IF turn[k].session = s /\ turn[k].at = "history"
                  THEN Overtaken(turn[k]) ELSE turn[k]]
            BY <1>4 DEF Store
      <2>2. GoodChat(c, asked)
            BY <1>0, <1>2, <1>4 DEF SessionsGood
      <2>3. GoodChat(new, asked)
            <3>1. \/ role = "user" /\ ~HasQuestion(c.log, t.n)
                  \/ role = "assistant" /\ HasQuestion(c.log, t.n)
                  BY <1>2, <1>4
            <3> HIDE DEF t, c
            <3> QED BY <1>0, <1>2, <2>2, <3>1, LogStaysGood
      <2>4. /\ chat'[s] = new /\ (\A x \in Chats \ {s} : chat'[x] = chat[x])
            /\ chat' = [x \in Chats |-> chat'[x]] /\ turn' = [k \in Handlers |-> turn'[k]]
            /\ turn'[h] = m
            /\ \A k \in Handlers \ {h} :
                  turn'[k] = IF turn[k].session = s /\ turn[k].at = "history"
                             THEN Overtaken(turn[k]) ELSE turn[k]
            <3> HIDE DEF s, new, m
            <3> QED BY <1>0, <1>2, <2>1 DEF ChatTypes
      <2>5. /\ new.owner = c.owner /\ Len(c.log) \in Nat /\ DOMAIN c.log = 1..Len(c.log)
            /\ DOMAIN new.log = 1..(Len(c.log) + 1)
            /\ \A k \in 1..Len(c.log) : new.log[k] = c.log[k]
            /\ new.log[Len(c.log) + 1] = q
            <3> HIDE DEF c, q
            <3> QED BY <2>2, LongerIs
      <2>6. q.n = t.n /\ q.role = role
            OBVIOUS
      <2>7. /\ IsTurn(m) /\ m.at = next /\ m.user = t.user /\ m.n = t.n /\ m.at # "ask" /\ m.at # "session"
            BY <1>1, MovedIs
      <2>8. GoodTurn(m, chat', asked)
            <3>1. CASE role = "user"
                  <4>1. t.at = "ask" /\ next = "history" /\ q = [role |-> "user", n |-> t.n]
                        BY <3>1
                  <4> HIDE DEF t
                  <4> QED BY <1>0, <1>1, <1>4, <2>2, <2>4, <4>1, AskedGood
            <3>2. CASE role = "assistant"
                  <4>1. t.at = "reply" /\ next = "touch"
                        BY <3>2
                  <4> HIDE DEF t
                  <4> QED BY <1>0, <1>1, <1>4, <2>4, <2>5, <4>1, RepliedGood
            <3> QED BY <3>1, <3>2
      <2> HIDE DEF new, m, q, c, t, s
      <2>9. ASSUME NEW k \in Handlers \ {h} PROVE GoodTurn(turn'[k], chat', asked)
            <3>1. GoodTurn(turn[k], chat, asked) /\ IsTurn(turn[k]) /\ turn[k].missed \in Nat
                  BY <1>0 DEF TurnsGood, GoodTurn
            <3>2. CASE turn[k].at = "idle"
                  BY <2>4, <3>1, <3>2 DEF GoodTurn
            <3>3. CASE turn[k].at # "idle"
                  <4>1. q.n # turn[k].n
                        <5>1. turn[k].n # t.n
                              BY <1>0, <1>1, <3>3 DEF Numbered, t
                        <5> QED BY <2>6, <5>1
                  <4>2. CASE turn[k].session = s
                        <5>1. /\ turn[k].at # "history" => GoodTurn(turn[k], chat', asked)
                              /\ turn[k].at = "history" => GoodTurn(Overtaken(turn[k]), chat', asked)
                              BY <1>0, <1>2, <1>4, <2>2, <2>4, <3>1, <4>1, <4>2, GrownGood DEF c, new
                        <5> QED BY <2>4, <4>2, <5>1
                  <4>3. CASE turn[k].session # s
                        <5>1. turn'[k] = turn[k]
                              BY <2>4, <4>3
                        <5>2. turn[k].session \in Chats => chat'[turn[k].session] = chat[turn[k].session]
                              BY <2>4, <4>3
                        <5>3. HasQuestion(new.log, turn[k].n) <=> HasQuestion(c.log, turn[k].n)
                              BY <2>2, <4>1, SameQuestions DEF new
                        <5>4. \A x \in Chats : chat'[x] # Nothing /\ HasQuestion(chat'[x].log, turn[k].n) =>
                                                  chat[x] # Nothing /\ HasQuestion(chat[x].log, turn[k].n)
                              BY <1>4, <2>4, <5>3 DEF c
                        <5> QED BY <1>0, <3>1, <5>1, <5>2, <5>4, StaysGood
                  <4> QED BY <4>2, <4>3
            <3> QED BY <3>2, <3>3
      <2>10. TurnsGood'
            BY <1>1, <2>4, <2>8, <2>9 DEF TurnsGood
      <2>11. \A k \in Handlers \ {h} : /\ turn'[k].at = turn[k].at /\ turn'[k].user = turn[k].user
                                       /\ turn'[k].n = turn[k].n
            <3>1. \A k \in Handlers : IsTurn(turn[k])
                  BY <1>0 DEF TurnsGood, GoodTurn
            <3>2. \A k \in Handlers : /\ Overtaken(turn[k]).at = turn[k].at
                                      /\ Overtaken(turn[k]).user = turn[k].user
                                      /\ Overtaken(turn[k]).n = turn[k].n
                  BY <3>1, OvertakenIs
            <3> QED BY <2>4, <3>2
      <2>12. Numbered'
            <3>1. t.at # "idle"
                  BY <1>1
            <3> QED BY <1>0, <2>4, <2>7, <2>11, <3>1 DEF Numbered, t
      <2>13. SessionsGood' /\ ChatTypes'
            BY <1>0, <1>1, <2>3, <2>4 DEF SessionsGood, ChatTypes
      <2>14. ASSUME NEW v, NEW p \in QuestionsOf(v)'
             PROVE  \/ p \in QuestionsOf(v)
                    \/ p = <<s, Len(c.log) + 1>> /\ role = "user" /\ v = t.user
            <3>1. /\ p \in Chats \X (1..(2 * MaxQuestions))
                  /\ chat'[p[1]] # Nothing /\ chat'[p[1]].owner = v /\ p[2] \in DOMAIN chat'[p[1]].log
                  /\ chat'[p[1]].log[p[2]].role = "user"
                  BY <2>14 DEF QuestionsOf
            <3>2. CASE p[1] # s
                  <4>1. chat'[p[1]] = chat[p[1]]
                        BY <2>4, <3>1, <3>2
                  <4>2. p \in QuestionsOf(v)
                        BY <3>1, <4>1 DEF QuestionsOf
                  <4> QED BY <4>2
            <3>3. CASE p[1] = s
                  <4>1. /\ c.owner = v /\ v = t.user /\ p[2] \in 1..(Len(c.log) + 1)
                        /\ new.log[p[2]].role = "user"
                        BY <1>2, <1>4, <2>4, <2>5, <3>1, <3>3
                  <4>2. CASE p[2] \in 1..Len(c.log)
                        <5>1. c.log[p[2]].role = "user" /\ p[2] \in DOMAIN c.log
                              BY <2>5, <4>1, <4>2
                        <5>2. chat[p[1]] = c
                              BY <3>3 DEF c
                        <5>3. p \in QuestionsOf(v)
                              BY <1>4, <3>1, <4>1, <5>1, <5>2 DEF QuestionsOf
                        <5> QED BY <5>3
                  <4>3. CASE p[2] = Len(c.log) + 1
                        <5>1. p = <<s, Len(c.log) + 1>>
                              BY <3>1, <3>3, <4>3
                        <5>2. role = "user"
                              BY <2>5, <2>6, <4>1, <4>3
                        <5> QED BY <4>1, <5>1, <5>2
                  <4> QED BY <2>5, <4>1, <4>2, <4>3
            <3> QED BY <3>2, <3>3
      <2>15. \A v : Waiting(v)' \subseteq Waiting(v) \ {h}
            BY <2>4, <2>7, <2>11 DEF Waiting
      <2>16. CASE role = "user"
            <3>1. h \in Waiting(t.user)
                  BY <2>16 DEF Waiting, t
            <3>2. \A v \in Users :
                     /\ QuestionsOf(v)' \subseteq QuestionsOf(v) \cup (IF v = t.user THEN {<<s, Len(c.log) + 1>>} ELSE {})
                     /\ Waiting(v)' \subseteq Waiting(v) \ {h}
                  BY <2>14, <2>15
            <3>3. Paid'
                  BY <1>0, <1>1, <1>2, <3>1, <3>2, PaidBefore
            <3> QED BY <2>10, <2>12, <2>13, <3>3 DEF AssistantInv
      <2>17. CASE role # "user"
            <3>1. \A v \in Users : QuestionsOf(v)' \subseteq QuestionsOf(v) /\ Waiting(v)' \subseteq Waiting(v)
                  BY <2>14, <2>15, <2>17
            <3>2. Paid'
                  BY <1>0, <1>1, <3>1, PaidQuietly
            <3> QED BY <2>10, <2>12, <2>13, <3>2 DEF AssistantInv
      <2> QED BY <2>16, <2>17
<1> QED BY <1>3, <1>4

\* The model is given the talk, or rows, or replies.
LEMMA LoopKeeps ==
    ASSUME AssistantInv, AssistantAssumption, NEW h \in Handlers,
           \/ ReadHistory(h) \/ ModelReplies(h) \/ \E call \in ToolCalls : ModelCallsTool(h, call)
    PROVE  AssistantInv'
<1> DEFINE t == turn[h]
<1>0. /\ ChatTypes /\ SessionsGood /\ TurnsGood /\ asked \in Nat
      BY DEF AssistantInv, ChatTypes
<1>1. /\ GoodTurn(t, chat, asked) /\ IsTurn(t) /\ t.at \in {"history", "model"}
      BY <1>0 DEF ReadHistory, ModelReplies, ModelCallsTool, TurnsGood, GoodTurn
<1>2. CASE ReadHistory(h)
      <2>1. /\ turn' = [turn EXCEPT ![h] = Informed(t)] /\ t.at = "history"
            /\ UNCHANGED <<chat, spentChats, asked>>
            BY <1>2 DEF ReadHistory
      <2>2. Informed(t).at = "model" /\ Informed(t).n = t.n /\ Informed(t).user = t.user
            BY <1>1, InformedIs
      <2>3. GoodTurn(Informed(t), chat, asked)
            BY <1>0, <1>1, <2>1, InformedGood
      <2> QED BY <2>1, <2>2, <2>3, GoesOnKeeps
<1>3. CASE ModelReplies(h)
      <2> DEFINE m == Moved(t, "reply")
      <2>1. /\ turn' = [turn EXCEPT ![h] = m] /\ t.at = "model"
            /\ UNCHANGED <<chat, spentChats, asked>>
            BY <1>3 DEF ModelReplies, Proceed
      <2>2. /\ IsTurn(m) /\ m.at = "reply" /\ m.user = t.user /\ m.session = t.session /\ m.n = t.n
            /\ m.results = t.results /\ m.missed = t.missed
            BY <1>1, MovedIs
      <2>3. HoldsIn(t, chat, asked) /\ t.missed \in Nat
            BY <1>1, <2>1 DEF GoodTurn
      <2> HIDE DEF m, t
      <2>4. HoldsIn(m, chat, asked)
            BY <2>1, <2>2, <2>3 DEF HoldsIn
      <2>5. GoodTurn(m, chat, asked)
            BY <2>2, <2>3, <2>4 DEF GoodTurn, Stages
      <2> QED BY <2>1, <2>2, <2>5, GoesOnKeeps DEF t
<1>4. ASSUME NEW call \in ToolCalls, ModelCallsTool(h, call) PROVE AssistantInv'
      <2> DEFINE new == ExecuteTool(t.user, call)
                 m == Handed(t, new)
      <2>1. /\ turn' = [turn EXCEPT ![h] = m] /\ t.at = "model"
            /\ UNCHANGED <<chat, spentChats, asked>>
            BY <1>4 DEF ModelCallsTool
      <2>2. \A r \in new : r.owner \in {t.user, Nothing}
            BY ToolsKeepApart
      <2> HIDE DEF new
      <2>3. /\ IsTurn(m) /\ m.at = "model" /\ m.user = t.user /\ m.session = t.session /\ m.n = t.n
            /\ m.results = t.results \cup new /\ m.missed = t.missed /\ m.context = t.context
            BY <1>1, <2>1, HandedIs
      <2>4. HoldsIn(t, chat, asked) /\ t.missed \in Nat
            BY <1>1, <2>1 DEF GoodTurn
      <2> HIDE DEF m, t
      <2>5. SeesQuestion(m)
            BY <2>1, <2>3, <2>4 DEF HoldsIn, SeesQuestion
      <2>6. HoldsIn(m, chat, asked)
            BY <2>1, <2>2, <2>3, <2>4, <2>5 DEF HoldsIn
      <2>7. GoodTurn(m, chat, asked)
            BY <2>3, <2>4, <2>6 DEF GoodTurn, Stages
      <2> QED BY <2>1, <2>3, <2>7, GoesOnKeeps DEF t
<1> QED BY <1>2, <1>3, <1>4

\* The invariant holds at first.
LEMMA AssistantInvInit == AssistantAssumption /\ AssistantInit => AssistantInv
<1> SUFFICES ASSUME AssistantAssumption, AssistantInit PROVE AssistantInv
    OBVIOUS
<1>1. IsTurn(NoTurn) /\ NoTurn.at = "idle" /\ NoTurn.missed = 0
      BY TurnIs DEF NoTurn
<1> HIDE DEF NoTurn
<1>2. /\ asked = 0 /\ spentChats = [u \in Users |-> 0] /\ chat = [s \in Chats |-> Nothing]
      /\ turn = [h \in Handlers |-> NoTurn]
      BY DEF AssistantInit
<1>3. ChatTypes /\ SessionsGood
      BY <1>2 DEF ChatTypes, SessionsGood
<1>4. TurnsGood /\ Numbered
      BY <1>1, <1>2 DEF TurnsGood, GoodTurn, Numbered
<1>5. \A u \in Users : QuestionsOf(u) = {} /\ Waiting(u) = {} /\ spentChats[u] = 0
      BY <1>1, <1>2 DEF QuestionsOf, Waiting
<1>6. Paid
      <2>1. IsFiniteSet({}) /\ Cardinality({}) = 0 /\ 0 + 0 <= 0
            BY FS_EmptySet
      <2> QED BY <1>5, <2>1, Zenon DEF Paid
<1> QED BY <1>3, <1>4, <1>6 DEF AssistantInv

\* Every step of the assistant keeps the invariant.
LEMMA AssistantInvNext ==
    ASSUME AssistantInv, AssistantAssumption, AssistantNext
    PROVE  AssistantInv'
<1>1. ASSUME NEW h \in Handlers, NEW u \in Users, NEW s \in Chats \cup {Nothing}, Chat(h, u, s)
      PROVE  AssistantInv'
      BY <1>1, ChatKeeps
<1>2. ASSUME NEW h \in Handlers, FindOrCreateSession(h) PROVE AssistantInv'
      BY <1>2, FindOrCreateKeeps
<1>3. ASSUME NEW h \in Handlers, AskQuestion(h) \/ StoreReply(h) PROVE AssistantInv'
      BY <1>3, StoreKeeps DEF AskQuestion, StoreReply
<1>4. ASSUME NEW h \in Handlers,
             ReadHistory(h) \/ ModelReplies(h) \/ \E call \in ToolCalls : ModelCallsTool(h, call)
      PROVE  AssistantInv'
      BY <1>4, LoopKeeps
<1>5. ASSUME NEW h \in Handlers, TouchSession(h) \/ ChatFails(h) PROVE AssistantInv'
      BY <1>5, DropKeeps DEF TouchSession, ChatFails
<1>6. ASSUME NEW u \in Users, NEW s \in Chats, DeleteSession(u, s) PROVE AssistantInv'
      BY <1>6, DeleteKeeps
<1> QED BY <1>1, <1>2, <1>3, <1>4, <1>5, <1>6 DEF AssistantNext

\* The invariant is as strong as what is promised.
LEMMA AssistantInvSafe == AssistantInv => AnswersAreGrounded
<1> SUFFICES ASSUME AssistantInv PROVE AnswersAreGrounded
    OBVIOUS
<1>0. /\ SessionsGood /\ Paid /\ spentChats \in [Users -> Nat]
      /\ \A h \in Handlers : turn[h].at # "idle" => HoldsIn(turn[h], chat, asked)
      BY DEF AssistantInv, ChatTypes, TurnsGood, GoodTurn
<1>1. ModelSeesQuestion
      <2>1. \A h \in Handlers : turn[h].at = "model" => SeesQuestion(turn[h])
            BY <1>0 DEF HoldsIn
      <2> QED BY <2>1 DEF ModelSeesQuestion, SeesQuestion
<1>2. GroundedInOwnData
      BY <1>0 DEF GroundedInOwnData, HoldsIn
<1>3. ASSUME NEW s \in Chats, chat[s] # Nothing, NEW k \in DOMAIN chat[s].log,
             chat[s].log[k].role = "assistant"
      PROVE  \E j \in 1..(k - 1) : chat[s].log[j] = [role |-> "user", n |-> chat[s].log[k].n]
      BY <1>0, <1>3 DEF SessionsGood, GoodChat, GoodLog, IsQuestion
<1>4. ASSUME NEW u \in Users PROVE Cardinality(QuestionsOf(u)) <= spentChats[u]
      <2>1. /\ IsFiniteSet(QuestionsOf(u)) /\ IsFiniteSet(Waiting(u)) /\ spentChats[u] \in Nat
            /\ Cardinality(QuestionsOf(u)) + Cardinality(Waiting(u)) <= spentChats[u]
            BY <1>0 DEF Paid
      <2>2. Cardinality(QuestionsOf(u)) \in Nat /\ Cardinality(Waiting(u)) \in Nat
            BY <2>1, FS_CardinalityType
      <2> QED BY <2>1, <2>2
<1>5. RepliesArePaid
      BY <1>3, <1>4 DEF RepliesArePaid
<1> QED BY <1>1, <1>2, <1>5 DEF AnswersAreGrounded

\* assistant.service.ts:91: whatever chats overlap, break off or lose their
\* session, whatever the tools are asked and the pantry and baskets hold: the
\* model sees the question it answers, what it is handed is the user's own or
\* public, and a reply stands behind a question that was paid for.
THEOREM AnswersGrounded == AssistantSpec => []AnswersAreGrounded
<1>1. AssistantInit => AssistantInv
      BY AssistantInvInit, AssistantAssumption
<1>2. AssistantInv /\ AssistantNext => AssistantInv'
      BY AssistantInvNext, AssistantAssumption
<1>3. AssistantInv /\ UNCHANGED assistantVars => AssistantInv'
      BY DEF assistantVars, AssistantInv, ChatTypes, SessionsGood, TurnsGood, Numbered, Paid,
             QuestionsOf, Waiting
<1> DEFINE step == \/ PantryNext /\ UNCHANGED <<basketVars, assistantVars>>
                   \/ BasketNext /\ UNCHANGED <<pantryVars, assistantVars>>
                   \/ AssistantNext /\ UNCHANGED <<pantryVars, basketVars>>
           all == <<pantryVars, basketVars, assistantVars>>
<1>4. AssistantInv /\ [step]_all => AssistantInv'
      <2> HIDE DEF AssistantInv
      <2> SUFFICES ASSUME AssistantInv, [step]_all PROVE AssistantInv'
          OBVIOUS
      <2>1. CASE AssistantNext
            BY <1>2, <2>1
      <2>2. CASE UNCHANGED assistantVars
            BY <1>3, <2>2
      <2> QED BY <2>1, <2>2
<1> QED BY <1>1, <1>4, AssistantInvSafe, PTL DEF AssistantSpec

-----------------------------------------------------------------------------
\* Meal plans: what a plan is said to cost and what may be on it.

DishIds == UNION {{d.id : d \in Dishes[n]} : n \in DOMAIN Dishes}
MealSlot == [dish : DishIds, servings : Nat]

\* What slots cost by some recipes and prices.
SlotCosts(slots, m, c) ==
    [s \in DOMAIN slots |-> CostPerServing(DishIn(m, slots[s].dish), c) * slots[s].servings]
Worth(slots, m, c) == Sum(SlotCosts(slots, m, c), DOMAIN slots)

\* What the slots that are filled cost.
FilledCosts == [s \in DOMAIN filled |-> Pool[filled[s]].cost]

IsPlan(p) ==
    /\ p = [owner |-> p.owner, slots |-> p.slots, estimate |-> p.estimate]
    /\ p.slots \in Seq(MealSlot)

\* What is known of a plan in the making: its recipes, what the builder works on,
\* what it made of them.
Dish(g, k) == g.menu[g.found[k]]

Gathered(g) ==
    /\ g.body \in PlanBodies /\ g.menu \in Menus
    /\ \A k \in DOMAIN g.found : /\ g.found[k] \in DOMAIN Dishes /\ MayUse(g.user, Dish(g, k))
                                 /\ IsRecipeAllowed(Dish(g, k), Restrictions(g.body))

UnderWay(g) ==
    /\ g.costs \in CostTables
    /\ Opts = g.body.opts /\ DOMAIN Pool = DOMAIN g.found
    /\ \A k \in DOMAIN Pool : /\ Pool[k].id = Dish(g, k).id
                              /\ Pool[k].cost = CostPerServing(Dish(g, k), g.costs)

Meals(g) == g.body.opts.days * g.body.opts.meals
Permitted(g) ==
    \A s \in DOMAIN g.built : \E k \in DOMAIN g.found :
       /\ g.built[s].dish = Dish(g, k).id /\ MayUse(g.user, Dish(g, k))
       /\ \A r \in Restrictions(g.body) : ~Violates(Dish(g, k), r)
InBudget(g) ==
    g.body.opts.budget # NoLimit
    /\ (\E k \in DOMAIN g.found :
           Meals(g) * CostPerServing(Dish(g, k), g.costs) <= g.body.opts.budget)
       => g.total <= g.body.opts.budget

Built(g) ==
    /\ g.costs \in CostTables /\ g.menu \in Menus /\ g.built \in Seq(MealSlot)
    /\ g.total = Worth(g.built, g.menu, g.costs)
    /\ Len(g.built) = Meals(g) /\ Permitted(g) /\ InBudget(g)

HasFields(g) ==
    g = [at |-> g.at, user |-> g.user, body |-> g.body, menu |-> g.menu, found |-> g.found,
         built |-> g.built, total |-> g.total, costs |-> g.costs]

IsPlanning(g) ==
    /\ HasFields(g)
    /\ g.at \in {"costs", "build"} => Gathered(g)
    /\ g.at = "build" => UnderWay(g)
    /\ g.at = "name" => Built(g)

\* The builder, whoever it works for.
BuilderAdds == PlanInv /\ spent = Sum(FilledCosts, DOMAIN filled)

PlanningInv ==
    /\ DOMAIN generating = Handlers
    /\ \A h \in Handlers : IsPlanning(generating[h])
    /\ \A h, k \in Handlers : generating[h].at = "build" /\ generating[k].at = "build" => h = k
    /\ BuilderAdds

\* What recipes and prices there have been, and that plans are made from them.
Sourced(g) ==
    /\ g.at \in {"costs", "build", "name"} => g.menu \in past.menus
    /\ g.at \in {"build", "name"} => g.costs \in past.costs

PastInv ==
    /\ past = [costs |-> past.costs, menus |-> past.menus]
    /\ past.costs \subseteq CostTables /\ past.menus \subseteq Menus
    /\ costs \in past.costs /\ menu \in past.menus

SourcesInv ==
    /\ PastInv
    /\ \A h \in Handlers : Sourced(generating[h])

\* A change of a slot, as far as it is.
IsSwap(w) ==
    /\ w = [at |-> w.at, plan |-> w.plan, slot |-> w.slot, dish |-> w.dish,
            servings |-> w.servings, read |-> w.read, menu |-> w.menu, costs |-> w.costs]
    /\ w.at = "idle" => w.plan = Nothing
    /\ w.at # "idle" => w.plan \in Plans /\ w.dish \in {0} \cup DishIds /\ w.servings \in Nat
    /\ w.at \in {"price", "sum"} => w.read \in Seq(MealSlot)

\* What a change knows is true of some moment.
Knows(w) ==
    /\ w.at \in {"price", "sum"} =>
          /\ w.menu \in past.menus
          /\ plan[w.plan] # Nothing => w.read \in slotsHad[w.plan]
    /\ w.at = "sum" => w.costs \in past.costs

\* A change is the only one of its plan and has read the slots that are there.
Steady(h) ==
    LET w == swap[h] IN
    w.plan # Nothing /\ w.plan \notin adrift =>
       /\ \A k \in Handlers \ {h} : swap[k].plan # w.plan
       /\ w.at \in {"price", "sum"} /\ plan[w.plan] # Nothing => w.read = plan[w.plan].slots

Sound(h) == IsSwap(swap[h]) /\ Knows(swap[h]) /\ Steady(h)

\* A plan whose last change ended well, with none under way.
Quiet(p) == p \notin adrift /\ \A h \in Handlers : swap[h].plan # p

WasWorth(slots, e) == \E m \in past.menus, c \in past.costs : e = Worth(slots, m, c)
Explained(p) ==
    \E slots \in slotsHad[p] : slots \in Seq(MealSlot) /\ WasWorth(slots, plan[p].estimate)

Fine(p) ==
    plan[p] # Nothing =>
       /\ IsPlan(plan[p]) /\ plan[p].slots \in slotsHad[p] /\ Explained(p)
       /\ Quiet(p) => WasWorth(plan[p].slots, plan[p].estimate)
       /\ Quiet(p) /\ p \notin outdated => plan[p].estimate = Worth(plan[p].slots, menu, costs)

PlansInv ==
    /\ DOMAIN plan = Plans /\ DOMAIN slotsHad = Plans /\ DOMAIN swap = Handlers
    /\ \A p \in Plans : Fine(p)
    /\ \A h \in Handlers : Sound(h)

MealInv == PlanningInv /\ SourcesInv /\ PlansInv

\* What a recipe costs is a natural number.
LEMMA RecipeCost ==
    ASSUME NEW recipe, NEW c, recipe.servings \in Nat, IsFiniteSet(DOMAIN recipe.lines),
           \A l \in DOMAIN recipe.lines : recipe.lines[l].qty \in Nat,
           \A g \in DOMAIN c : {c[g].pack, c[g].perKg} \subseteq Nat \cup {Unknown}
    PROVE  CostPerServing(recipe, c) \in Nat
<1> DEFINE lines == recipe.lines
           D == DOMAIN lines
           f == [l \in D |-> LineCost(lines[l], c)]
<1>1. ASSUME NEW l \in D PROVE f[l] \in Nat
      <2>1. lines[l].qty \in Nat
            OBVIOUS
      <2>2. \A g \in DOMAIN c : /\ c[g].pack # Unknown => c[g].pack \in Nat
                                /\ c[g].perKg # Unknown => c[g].perKg \in Nat
            OBVIOUS
      <2>3. \A g \in DOMAIN c : c[g].perKg # Unknown =>
               (2 * (c[g].perKg * lines[l].qty) + 1000) \div (2 * 1000) \in Nat
            <3>1. \A a \in Nat : (2 * a + 1000) \div (2 * 1000) \in Nat
                  OBVIOUS
            <3>2. \A a, b \in Nat : a * b \in Nat
                  OBVIOUS
            <3> HIDE DEF lines
            <3> QED BY <2>1, <2>2, <3>1, <3>2
      <2> HIDE DEF lines
      <2>4. LineCost(lines[l], c) \in Nat
            BY <2>2, <2>3 DEF LineCost, Priced, RoundDiv
      <2> QED BY <2>4
<1>2. EstimateRecipeCost(lines, c) \in Nat
      <2>1. EstimateRecipeCost(lines, c) = SumFunction(f) /\ DOMAIN f = D
            BY DEF EstimateRecipeCost
      <2> HIDE DEF f
      <2>2. EstimateRecipeCost(lines, c) = Sum(f, D)
            BY <2>1, SumFunctionIs
      <2> HIDE DEF D
      <2>3. \A l \in D : f[l] \in Int /\ f[l] >= 0
            BY <1>1
      <2>4. Sum(f, D) \in Int /\ Sum(f, D) >= 0
            BY <2>3, SumType DEF D
      <2> QED BY <2>2, <2>4
<1>3. \A a \in Nat : \A b \in Nat \ {0} : (2 * a + b) \div (2 * b) \in Nat
      OBVIOUS
<1> HIDE DEF lines
<1>4. \A a \in Nat : RoundDiv(a, IF recipe.servings < 1 THEN 1 ELSE recipe.servings) \in Nat
      BY <1>3 DEF RoundDiv
<1> QED BY <1>2, <1>4 DEF CostPerServing, lines

LEMMA DishCost ==
    ASSUME NEW n \in DOMAIN Dishes, NEW d \in Dishes[n], NEW c \in CostTables
    PROVE  CostPerServing(d, c) \in Nat
BY RecipeCost, MealPlansAssumption

\* The recipe of an identity is found by it.
LEMMA DishIs ==
    ASSUME NEW m \in Menus, NEW n \in DOMAIN Dishes, NEW id, id \in {d.id : d \in Dishes[n]}
    PROVE  m[n] \in Dishes[n] /\ m[n].id = id /\ DishIn(m, id) = m[n]
<1>1. DOMAIN m = DOMAIN Dishes /\ \A k \in DOMAIN Dishes : m[k] \in Dishes[k]
      BY DEF Menus
<1>2. \A k \in DOMAIN Dishes : m[k].id = id <=> k = n
      <2>1. PICK d \in Dishes[n] : id = d.id
            OBVIOUS
      <2> QED BY <1>1, <2>1, MealPlansAssumption
<1> DEFINE x == CHOOSE k \in DOMAIN m : m[k].id = id
<1>3. x \in DOMAIN m /\ m[x].id = id
      BY <1>1, <1>2
<1> HIDE DEF x
<1>4. x = n
      BY <1>1, <1>2, <1>3
<1> QED BY <1>1, <1>2, <1>4 DEF DishIn, x

LEMMA DishAt ==
    ASSUME NEW m \in Menus, NEW n \in DOMAIN Dishes
    PROVE  m[n] \in Dishes[n] /\ m[n].id \in DishIds /\ DishIn(m, m[n].id) = m[n]
<1>1. m[n] \in Dishes[n]
      BY DEF Menus
<1> QED BY <1>1, DishIs DEF DishIds

\* What a slot costs is a whole number.
LEMMA SlotCost ==
    ASSUME NEW slots \in Seq(MealSlot), NEW m \in Menus, NEW c \in CostTables, NEW s \in DOMAIN slots
    PROVE  /\ CostPerServing(DishIn(m, slots[s].dish), c) \in Int /\ slots[s].servings \in Nat
           /\ SlotCosts(slots, m, c)[s] \in Int
<1>1. slots[s] \in MealSlot
      BY ElementOfSeq
<1>2. PICK n \in DOMAIN Dishes : slots[s].dish \in {d.id : d \in Dishes[n]}
      BY <1>1 DEF MealSlot, DishIds
<1>3. CostPerServing(DishIn(m, slots[s].dish), c) \in Int
      <2>1. m[n] \in Dishes[n] /\ DishIn(m, slots[s].dish) = m[n]
            BY <1>2, DishIs
      <2>2. CostPerServing(m[n], c) \in Nat
            BY <2>1, DishCost
      <2> QED BY <2>1, <2>2
<1>4. slots[s].servings \in Nat
      BY <1>1 DEF MealSlot
<1>5. \A a \in Int : \A b \in Nat : a * b \in Int
      OBVIOUS
<1> QED BY <1>3, <1>4, <1>5 DEF SlotCosts

\* The community fold over the slots is what they are worth.
LEMMA ReestimatedIs ==
    ASSUME NEW slots \in Seq(MealSlot), NEW m, NEW c
    PROVE  Reestimated(slots, m, c) = Worth(slots, m, c)
<1> DEFINE D == DOMAIN slots
           F(s) == CostPerServing(DishIn(m, slots[s].dish), c) * slots[s].servings
           f == SlotCosts(slots, m, c)
           P(x) == x = [T \in SUBSET D |-> IF T = {} THEN 0 ELSE F(AnyOf(T)) + x[T \ {AnyOf(T)}]]
           G == CHOOSE x : P(x)
           H == CHOOSE h : Summing(h, f, D)
<1>1. Reestimated(slots, m, c) = G[D]
      BY DEF Reestimated, MapThenSumSet, MapThenFoldSet, AnyOf
<1>2. Worth(slots, m, c) = H[D]
      BY DEF Worth, Sum
<1>3. \A T \in SUBSET D : T # {} => F(AnyOf(T)) = f[AnyOf(T)]
      BY SomeIn DEF SlotCosts
<1>4. ASSUME NEW x PROVE P(x) <=> Summing(x, f, D)
      BY <1>3 DEF Summing, Added
<1>5. IsFiniteSet(D)
      <2>1. D = 1..Len(slots) /\ Len(slots) \in Nat
            OBVIOUS
      <2> QED BY <2>1, FS_Interval
<1>6. Summing(H, f, D)
      BY <1>5, SummingExists
<1>7. Summing(G, f, D)
      <2>1. P(H)
            BY <1>4, <1>6
      <2>2. P(G)
            BY <2>1
      <2> QED BY <1>4, <2>2
<1> HIDE DEF G, H, f, P, D
<1>8. G[D] = H[D]
      BY <1>5, <1>6, <1>7, SummingUnique
<1> QED BY <1>1, <1>2, <1>8

\* So is the sum the property takes.
LEMMA CostOfIs ==
    ASSUME NEW slots \in Seq(MealSlot), NEW m \in Menus, NEW c \in CostTables
    PROVE  CostOf(slots, m, c) = Worth(slots, m, c)
<1> DEFINE D == DOMAIN slots
           F(s) == slots[s].servings * CostPerServing(DishIn(m, slots[s].dish), c)
           f == SlotCosts(slots, m, c)
           P(x) == x = [T \in SUBSET D |-> IF T = {} THEN 0 ELSE F(AnyOf(T)) + x[T \ {AnyOf(T)}]]
           G == CHOOSE x : P(x)
           H == CHOOSE h : Summing(h, f, D)
<1>1. CostOf(slots, m, c) = G[D]
      BY DEF CostOf, MapThenSumSet, MapThenFoldSet, AnyOf
<1>2. Worth(slots, m, c) = H[D]
      BY DEF Worth, Sum
<1>3. \A s \in D : F(s) = f[s]
      <2>1. \A a \in Int : \A b \in Nat : a * b = b * a
            OBVIOUS
      <2> QED BY <2>1, SlotCost DEF SlotCosts
<1>4. \A T \in SUBSET D : T # {} => F(AnyOf(T)) = f[AnyOf(T)]
      BY <1>3, SomeIn
<1>5. ASSUME NEW x PROVE P(x) <=> Summing(x, f, D)
      BY <1>4 DEF Summing, Added
<1>6. IsFiniteSet(D)
      <2>1. D = 1..Len(slots) /\ Len(slots) \in Nat
            OBVIOUS
      <2> QED BY <2>1, FS_Interval
<1>7. Summing(H, f, D)
      BY <1>6, SummingExists
<1>8. Summing(G, f, D)
      <2>1. P(H)
            BY <1>5, <1>7
      <2>2. P(G)
            BY <2>1
      <2> QED BY <1>5, <2>2
<1> HIDE DEF G, H, f, P, D
<1>9. G[D] = H[D]
      BY <1>6, <1>7, <1>8, SummingUnique
<1> QED BY <1>1, <1>2, <1>9

\* The builder goes by its own variables.
LEMMA BuilderStays == ASSUME BuilderAdds, UNCHANGED builderVars PROVE BuilderAdds'
<1>1. /\ draft' = draft /\ cheapest' = cheapest /\ filled' = filled
      /\ spent' = spent /\ overruns' = overruns
      BY DEF builderVars
<1>2. PlanInv'
      BY NextPlanInv DEF BuilderAdds
<1>3. FilledCosts' = FilledCosts
      BY <1>1 DEF FilledCosts, Pool
<1> HIDE DEF FilledCosts
<1> QED BY <1>1, <1>2, <1>3 DEF BuilderAdds

\* A plan in the making goes on to a step that is not the building.
LEMMA PlanningMoves ==
    ASSUME PlanningInv, NEW h \in Handlers, NEW g, IsPlanning(g), g.at # "build",
           generating' = [generating EXCEPT ![h] = g], UNCHANGED builderVars
    PROVE  PlanningInv'
<1>1. DOMAIN generating' = Handlers
      BY DEF PlanningInv
<1>2. \A k \in Handlers : generating'[k] = IF k = h THEN g ELSE generating[k]
      BY DEF PlanningInv
<1>3. BuilderAdds'
      BY BuilderStays DEF PlanningInv
<1>4. Pool' = Pool /\ Opts' = Opts
      BY DEF Pool, Opts, builderVars
<1>5. ASSUME NEW k \in Handlers PROVE IsPlanning(generating[k])'
      <2>1. IsPlanning(generating'[k])
            BY <1>2 DEF PlanningInv
      <2> QED BY <1>4, <2>1 DEF IsPlanning, UnderWay
<1>6. \A k, l \in Handlers : generating'[k].at = "build" /\ generating'[l].at = "build" => k = l
      BY <1>2 DEF PlanningInv
<1> QED BY <1>1, <1>3, <1>5, <1>6 DEF PlanningInv

\* Nothing of the making of plans changes.
LEMMA PlanningStays ==
    ASSUME PlanningInv, generating' = generating, UNCHANGED builderVars
    PROVE  PlanningInv'
<1>1. BuilderAdds'
      BY BuilderStays DEF PlanningInv
<1>2. Pool' = Pool /\ Opts' = Opts
      BY DEF Pool, Opts, builderVars
<1>3. ASSUME NEW k \in Handlers PROVE IsPlanning(generating[k])'
      <2>1. IsPlanning(generating[k])
            BY DEF PlanningInv
      <2> QED BY <1>2, <2>1 DEF IsPlanning, UnderWay
<1> QED BY <1>1, <1>3 DEF PlanningInv

\* A plan in the making the builder is given.
SameDishes(b, g) ==
    b.user = g.user /\ b.body = g.body /\ b.menu = g.menu /\ b.found = g.found

LEMMA BegunIs ==
    ASSUME NEW g, HasFields(g), NEW c
    PROVE  LET b == [g EXCEPT !.at = "build", !.costs = c]
           IN  HasFields(b) /\ b.at = "build" /\ SameDishes(b, g) /\ b.costs = c
<1> DEFINE f == [g EXCEPT !.at = "build"]
<1>1. HasFields(f) /\ f.at = "build" /\ SameDishes(f, g)
      BY DEF HasFields, SameDishes
<1> HIDE DEF f
<1>2. LET b == [f EXCEPT !.costs = c]
      IN  HasFields(b) /\ b.at = "build" /\ SameDishes(b, g) /\ b.costs = c
      BY <1>1 DEF HasFields, SameDishes
<1> QED BY <1>2 DEF f

\* A plan in the making the builder is done with.
Handover(g, total, built) == [g EXCEPT !.at = "name", !.total = total, !.built = built]

LEMMA DoneIs ==
    ASSUME NEW g, HasFields(g), NEW total, NEW built
    PROVE  LET b == Handover(g, total, built)
           IN  /\ HasFields(b) /\ b.at = "name" /\ SameDishes(b, g) /\ b.costs = g.costs
               /\ b.total = total /\ b.built = built
<1> DEFINE e == [g EXCEPT !.at = "name"]
           f == [e EXCEPT !.total = total]
<1>1. HasFields(e) /\ e.at = "name" /\ SameDishes(e, g) /\ e.costs = g.costs
      BY DEF HasFields, SameDishes
<1> HIDE DEF e
<1>2. /\ HasFields(f) /\ f.at = "name" /\ SameDishes(f, g) /\ f.costs = g.costs
      /\ f.total = total
      BY <1>1 DEF HasFields, SameDishes
<1> HIDE DEF f
<1>3. LET b == [f EXCEPT !.built = built]
      IN  /\ HasFields(b) /\ b.at = "name" /\ SameDishes(b, g) /\ b.costs = g.costs
          /\ b.total = total /\ b.built = built
      BY <1>2 DEF HasFields, SameDishes
<1> QED BY <1>3 DEF Handover, e, f

\* What is gathered is the user's to use and what the diet allows.
LEMMA GatherKeeps ==
    ASSUME PlanningInv, menu \in Menus, NEW h \in Handlers, NEW u, NEW body \in PlanBodies,
           GatherDishes(h, u, body)
    PROVE  PlanningInv'
<1>1. PICK found \in [1..Cardinality(Suitable(u, body)) -> Suitable(u, body)] :
         generating' = [generating EXCEPT ![h] = Planning("costs", u, body, menu, found)]
      BY DEF GatherDishes
<1> DEFINE g == Planning("costs", u, body, menu, found)
<1>2. \A k \in DOMAIN found : /\ found[k] \in DOMAIN Dishes /\ MayUse(u, menu[found[k]])
                              /\ IsRecipeAllowed(menu[found[k]], Restrictions(body))
      BY DEF Suitable, Menus
<1>3. /\ HasFields(g) /\ g.at = "costs" /\ g.user = u /\ g.body = body /\ g.menu = menu
      /\ g.found = found
      BY DEF HasFields, Planning
<1> HIDE DEF g
<1>4. IsPlanning(g) /\ g.at # "build"
      BY <1>2, <1>3 DEF IsPlanning, Gathered, Dish
<1>5. UNCHANGED builderVars
      BY DEF GatherDishes
<1> QED BY <1>1, <1>4, <1>5, PlanningMoves DEF g

\* The builder begins on the recipes that were gathered.
LEMMA StartKeeps ==
    ASSUME PlanningInv, costs \in CostTables, NEW h \in Handlers, StartBuilding(h)
    PROVE  PlanningInv'
<1> DEFINE g == generating[h]
           pool == [n \in DOMAIN g.found |-> Candidate(g.menu[g.found[n]], g.body)]
           b == [g EXCEPT !.at = "build", !.costs = costs]
<1>1. IsPlanning(g) /\ g.at = "costs" /\ \A k \in Handlers : generating[k].at # "build"
      BY DEF PlanningInv, StartBuilding
<1>2. Gathered(g)
      BY <1>1 DEF IsPlanning
<1>3. Begin(pool, g.body.opts)
      BY DEF StartBuilding
<1>4. generating' = [generating EXCEPT ![h] = b]
      BY DEF StartBuilding
<1>5. Pool' = pool /\ Opts' = g.body.opts /\ filled' = <<>> /\ spent' = 0
      <2>1. draft' = [pool |-> pool, opts |-> g.body.opts] /\ filled' = <<>> /\ spent' = 0
            BY <1>3 DEF Begin
      <2> QED BY <2>1 DEF Pool, Opts
<1>6. /\ DOMAIN pool = DOMAIN g.found
      /\ \A k \in DOMAIN pool : /\ pool[k].id = Dish(g, k).id
                                /\ pool[k].cost = CostPerServing(Dish(g, k), costs)
      BY DEF Candidate, Dish
<1>7. HasFields(b) /\ b.at = "build" /\ SameDishes(b, g) /\ b.costs = costs
      BY <1>1, BegunIs DEF IsPlanning
<1>8. \A k \in DOMAIN pool : pool[k].cost \in Nat
      <2> SUFFICES ASSUME NEW k \in DOMAIN g.found PROVE CostPerServing(Dish(g, k), costs) \in Nat
          BY <1>6
      <2>1. g.menu \in Menus /\ g.found[k] \in DOMAIN Dishes
            BY <1>2 DEF Gathered
      <2>2. Dish(g, k) \in Dishes[g.found[k]]
            BY <2>1, DishAt DEF Dish
      <2> QED BY <2>1, <2>2, DishCost
<1> HIDE DEF pool, b
<1>9. BuilderAdds'
      <2>1. /\ g.body.opts.days \in Nat /\ g.body.opts.meals \in 1..4
            /\ g.body.opts.budget \in Nat \cup {NoLimit}
            BY <1>2, MealPlansAssumption DEF Gathered
      <2>2. PlanInv'
            BY <1>3, <1>8, <2>1, BeginKeepsPlanInv
      <2>3. spent' = Sum(FilledCosts, DOMAIN filled)'
            <3>1. DOMAIN filled' = {}
                  BY <1>5
            <3>2. Sum(FilledCosts', {}) = 0
                  BY SumStep, FS_EmptySet
            <3> QED BY <1>5, <3>1, <3>2
      <2> QED BY <2>2, <2>3 DEF BuilderAdds
<1>10. ASSUME NEW k \in Handlers PROVE IsPlanning(generating[k])'
      <2>1. CASE k = h
            <3>1. generating'[k] = b
                  BY <1>4, <2>1 DEF PlanningInv
            <3>2. Gathered(b) /\ \A i \in DOMAIN g.found : Dish(b, i) = Dish(g, i)
                  BY <1>2, <1>7 DEF Gathered, Dish, SameDishes
            <3>3. UnderWay(generating[k])'
                  <4>1. /\ b.costs \in CostTables
                        /\ Opts' = b.body.opts /\ DOMAIN Pool' = DOMAIN b.found
                        /\ \A i \in DOMAIN Pool' : /\ Pool'[i].id = Dish(b, i).id
                                                   /\ Pool'[i].cost = CostPerServing(Dish(b, i), b.costs)
                        BY <1>5, <1>6, <1>7, <3>2 DEF SameDishes
                  <4> QED BY <3>1, <4>1 DEF UnderWay
            <3>4. (generating[k])'.at = "build" /\ Gathered(generating'[k]) /\ HasFields(generating'[k])
                  BY <1>7, <3>1, <3>2
            <3> QED BY <3>3, <3>4 DEF IsPlanning
      <2>2. CASE k # h
            <3>1. generating'[k] = generating[k] /\ IsPlanning(generating[k])
                  BY <1>4, <2>2 DEF PlanningInv
            <3>2. generating[k].at # "build"
                  BY <1>1
            <3> QED BY <3>1, <3>2 DEF IsPlanning
      <2> QED BY <2>1, <2>2
<1>11. \A k, l \in Handlers : generating'[k].at = "build" /\ generating'[l].at = "build" => k = l
      BY <1>1, <1>4 DEF PlanningInv
<1>12. DOMAIN generating' = Handlers
       BY <1>4 DEF PlanningInv
<1> QED BY <1>9, <1>10, <1>11, <1>12 DEF PlanningInv

\* One slot more costs what its candidate costs.
LEMMA BuildOnKeeps == ASSUME PlanningInv, BuildOn PROVE PlanningInv'
<1>1. PICK k \in DOMAIN Pool : filled' = Append(filled, k) /\ spent' = spent + Pool[k].cost
      BY DEF BuildOn, PickSlot
<1>2. draft' = draft /\ generating' = generating
      BY DEF BuildOn, PickSlot, mealVars
<1>3. Pool' = Pool /\ Opts' = Opts
      BY <1>2 DEF Pool, Opts
<1>4. /\ PlanInv /\ filled \in Seq(DOMAIN Pool)
      /\ \A c \in DOMAIN Pool : Pool[c].cost \in Int
      /\ spent = Sum(FilledCosts, DOMAIN filled)
      BY DEF PlanningInv, BuilderAdds, PlanInv, DraftOK, CountsOK
<1> DEFINE n == Len(filled)
<1>5. /\ n \in Nat /\ DOMAIN filled = 1..n /\ DOMAIN filled' = 1..(n + 1)
      /\ filled'[n + 1] = k /\ \A s \in 1..n : filled'[s] = filled[s]
      /\ \A s \in 1..(n + 1) : filled'[s] \in DOMAIN Pool
      BY <1>1, <1>4
<1> HIDE DEF n
<1> DEFINE f == FilledCosts
           h == [s \in DOMAIN filled' |-> Pool[filled'[s]].cost]
<1>6. \A s \in 1..n : f[s] = h[s]
      BY <1>5 DEF FilledCosts
<1>7. h[n + 1] = Pool[k].cost /\ \A s \in 1..(n + 1) : h[s] \in Int
      BY <1>4, <1>5
<1>8. FilledCosts' = h
      BY <1>3 DEF FilledCosts
<1> HIDE DEF f, h
<1>9. Sum(h, 1..(n + 1)) = Sum(f, 1..n) + Pool[k].cost
      <2>1. IsFiniteSet(1..n) /\ IsFiniteSet(1..(n + 1))
            BY <1>5, FS_Interval
      <2>2. n + 1 \in 1..(n + 1) /\ (1..(n + 1)) \ {n + 1} = 1..n
            BY <1>5
      <2>3. Sum(h, 1..(n + 1)) = h[n + 1] + Sum(h, 1..n)
            <3>1. \A s \in 1..(n + 1) : h[s] \in Int
                  BY <1>7
            <3>2. Sum(h, 1..(n + 1)) = h[n + 1] + Sum(h, (1..(n + 1)) \ {n + 1})
                  BY <2>1, <2>2, <3>1, SumTakes
            <3> QED BY <2>2, <3>2
      <2>4. Sum(h, 1..n) = Sum(f, 1..n)
            BY <1>6, <2>1, SumSame
      <2>5. Sum(h, 1..n) \in Int
            <3>1. \A s \in 1..n : h[s] \in Int
                  BY <1>5, <1>7
            <3> QED BY <2>1, <3>1, SumType
      <2>6. Pool[k].cost \in Int
            BY <1>4
      <2>7. \A x, y \in Int : x + y = y + x
            OBVIOUS
      <2> QED BY <1>7, <2>3, <2>4, <2>5, <2>6, <2>7
<1>10. spent' = Sum(FilledCosts, DOMAIN filled)'
      <2>1. spent = Sum(f, 1..n)
            BY <1>4, <1>5 DEF f
      <2> QED BY <1>1, <1>5, <1>8, <1>9, <2>1
<1>11. BuilderAdds'
      <2>1. PlanInv'
            BY <1>4, PickKeepsPlanInv DEF BuildOn
      <2> QED BY <1>10, <2>1 DEF BuilderAdds
<1>12. ASSUME NEW l \in Handlers PROVE IsPlanning(generating[l])'
      <2>1. IsPlanning(generating[l])
            BY DEF PlanningInv
      <2> QED BY <1>2, <1>3, <2>1 DEF IsPlanning, UnderWay
<1> QED BY <1>2, <1>11, <1>12 DEF PlanningInv

\* The slots are worth what was spent on them, hold what the diet allows and keep
\* within the budget.
LEMMA FinishKeeps ==
    ASSUME PlanningInv, NEW h \in Handlers, FinishBuilding(h)
    PROVE  PlanningInv'
<1> DEFINE g == generating[h]
           built == [s \in DOMAIN filled |-> [dish |-> Pool[filled[s]].id, servings |-> 1]]
           b == Handover(g, spent, built)
<1>1. IsPlanning(g) /\ g.at = "build" /\ SlotsLeft = 0
      BY DEF PlanningInv, FinishBuilding
<1>2. Gathered(g) /\ UnderWay(g)
      BY <1>1 DEF IsPlanning
<1>3. generating' = [generating EXCEPT ![h] = b]
      BY DEF FinishBuilding, Handover
<1>4. /\ PlanInv /\ filled \in Seq(DOMAIN Pool)
      /\ Opts.days \in Nat /\ Opts.meals \in Nat /\ TotalSlots \in Nat
      /\ \A k \in DOMAIN Pool : Pool[k].cost \in Nat
      /\ spent = Sum(FilledCosts, DOMAIN filled)
      BY OptsOK DEF PlanningInv, BuilderAdds, PlanInv, DraftOK, CountsOK
<1> DEFINE n == Len(filled)
<1>5. n \in Nat /\ DOMAIN filled = 1..n /\ \A s \in 1..n : filled[s] \in DOMAIN Pool
      BY <1>4
<1> HIDE DEF n
<1>finite. IsFiniteSet(1..n)
      <2>1. n \in Int
            BY <1>5
      <2> QED BY <2>1, FS_Interval
<1>6. ASSUME NEW s \in 1..n
      PROVE  /\ filled[s] \in DOMAIN g.found
             /\ Pool[filled[s]].id = Dish(g, filled[s]).id
             /\ Pool[filled[s]].id \in DishIds
             /\ Pool[filled[s]].cost = CostPerServing(DishIn(g.menu, Pool[filled[s]].id), g.costs)
      <2> DEFINE k == filled[s]
      <2>1. k \in DOMAIN g.found /\ Pool[k].id = Dish(g, k).id
            /\ Pool[k].cost = CostPerServing(Dish(g, k), g.costs)
            BY <1>2, <1>5 DEF UnderWay
      <2>2. g.menu \in Menus /\ g.found[k] \in DOMAIN Dishes
            BY <1>2, <2>1 DEF Gathered
      <2> HIDE DEF g, k
      <2>3. Dish(g, k).id \in DishIds /\ DishIn(g.menu, Dish(g, k).id) = Dish(g, k)
            BY <2>2, DishAt DEF Dish
      <2> QED BY <2>1, <2>3 DEF k
<1>7. built \in Seq(MealSlot) /\ Len(built) = n /\ DOMAIN built = 1..n
      <2>1. \A s \in 1..n : built[s] \in MealSlot
            BY <1>5, <1>6 DEF MealSlot
      <2>2. built = [s \in 1..n |-> built[s]]
            BY <1>5
      <2> HIDE DEF built
      <2>3. built \in [1..n -> MealSlot]
            BY <2>1, <2>2
      <2> QED BY <1>5, <2>3, LenProperties, SeqDef
<1>8. spent = Worth(built, g.menu, g.costs)
      <2> DEFINE f == FilledCosts
                 w == SlotCosts(built, g.menu, g.costs)
      <2>1. \A s \in 1..n : f[s] = w[s]
            <3>1. ASSUME NEW s \in 1..n PROVE f[s] = w[s]
                  <4>1. f[s] = Pool[filled[s]].cost /\ Pool[filled[s]].cost \in Int
                        BY <1>4, <1>5 DEF FilledCosts
                  <4>2. w[s] = CostPerServing(DishIn(g.menu, built[s].dish), g.costs) * built[s].servings
                        BY <1>5 DEF SlotCosts
                  <4>3. built[s].dish = Pool[filled[s]].id /\ built[s].servings = 1
                        BY <1>5
                  <4>4. \A x \in Int : x * 1 = x
                        OBVIOUS
                  <4> HIDE DEF f, w, built, g
                  <4> QED BY <1>6, <4>1, <4>2, <4>3, <4>4
            <3> QED BY <3>1
      <2>2. Sum(f, 1..n) = Sum(w, 1..n)
            <3> HIDE DEF f, w
            <3> QED BY <1>finite, <2>1, SumSame
      <2> HIDE DEF built, g
      <2> QED BY <1>4, <1>5, <1>7, <2>2 DEF Worth
<1>9. ASSUME NEW s \in DOMAIN built
      PROVE  \E k \in DOMAIN g.found :
                /\ built[s].dish = Dish(g, k).id /\ MayUse(g.user, Dish(g, k))
                /\ \A r \in Restrictions(g.body) : ~Violates(Dish(g, k), r)
      <2>1. s \in 1..n /\ built[s].dish = Pool[filled[s]].id
            BY <1>5, <1>7
      <2>2. filled[s] \in DOMAIN g.found /\ built[s].dish = Dish(g, filled[s]).id
            BY <1>6, <2>1
      <2> HIDE DEF built, g
      <2> QED BY <1>2, <2>2 DEF Gathered, IsRecipeAllowed
<1>10. Len(built) = Meals(g) /\ TotalSlots = Meals(g)
      <2>1. g.body.opts = Opts
            BY <1>2 DEF UnderWay
      <2>2. TotalSlots = n
            BY <1>1, <1>4, <1>5 DEF SlotsLeft, n
      <2> HIDE DEF g
      <2> QED BY <1>7, <2>1, <2>2 DEF TotalSlots, Meals
<1>11. ASSUME g.body.opts.budget # NoLimit, NEW k \in DOMAIN g.found,
              Meals(g) * CostPerServing(Dish(g, k), g.costs) <= g.body.opts.budget
       PROVE  spent <= g.body.opts.budget
      <2>1. /\ g.body.opts = Opts /\ k \in DOMAIN Pool
            /\ Pool[k].cost = CostPerServing(Dish(g, k), g.costs)
            BY <1>2 DEF UnderWay
      <2> DEFINE c == Pool[k].cost
      <2>2. /\ cheapest \in Nat /\ c \in Nat /\ cheapest <= c /\ Opts.budget \in Nat
            /\ spent \in Nat /\ Opts.budget # NoLimit
            BY <1>4, <1>11, <2>1, OptsOK DEF PlanInv, DraftOK, CountsOK
      <2>3. TotalSlots * c <= Opts.budget
            <3> HIDE DEF g
            <3> QED BY <1>10, <1>11, <2>1
      <2> HIDE DEF c
      <2>4. TotalSlots * cheapest <= TotalSlots * c
            <3>1. \A t, x, y \in Nat : x <= y => t * x <= t * y
                  OBVIOUS
            <3> QED BY <1>4, <2>2, <3>1
      <2>5. TotalSlots * cheapest <= Opts.budget
            <3>1. TotalSlots * cheapest \in Nat /\ TotalSlots * c \in Nat
                  <4>1. \A x, y \in Nat : x * y \in Nat
                        OBVIOUS
                  <4> QED BY <1>4, <2>2, <4>1
            <3> QED BY <2>2, <2>3, <2>4, <3>1
      <2>6. spent + SlotsLeft * cheapest <= Opts.budget
            BY <1>4, <2>2, <2>5 DEF PlanInv, RoomLeft
      <2>7. spent <= Opts.budget
            <3>1. 0 * cheapest = 0
                  BY <2>2
            <3> QED BY <1>1, <2>2, <2>6, <3>1
      <2> QED BY <2>1, <2>7
<1>12. g.costs \in CostTables /\ g.menu \in Menus
      BY <1>2 DEF UnderWay, Gathered
<1>13. /\ HasFields(b) /\ b.at = "name" /\ SameDishes(b, g) /\ b.costs = g.costs
       /\ b.total = spent /\ b.built = built
      <2>1. HasFields(g)
            BY <1>1 DEF IsPlanning
      <2> HIDE DEF built, g
      <2> QED BY <2>1, DoneIs
<1> HIDE DEF built, g, b
<1>14. /\ Meals(b) = Meals(g) /\ b.found = g.found /\ b.body = g.body /\ b.user = g.user
       /\ b.menu = g.menu /\ \A k \in DOMAIN g.found : Dish(b, k) = Dish(g, k)
      BY <1>13 DEF SameDishes, Meals, Dish
<1>15. Permitted(b)
      BY <1>9, <1>13, <1>14 DEF Permitted
<1>16. InBudget(b)
      BY <1>11, <1>13, <1>14 DEF InBudget
<1>17. IsPlanning(b) /\ b.at # "build"
      BY <1>7, <1>8, <1>10, <1>12, <1>13, <1>14, <1>15, <1>16 DEF IsPlanning, Built
<1>18. UNCHANGED builderVars
      BY DEF FinishBuilding
<1> QED BY <1>3, <1>17, <1>18, PlanningMoves

\* A plan that was not made is none.
LEMMA DroppedIs == IsPlanning(NoPlanning) /\ NoPlanning.at = "idle"
BY DEF NoPlanning, Planning, IsPlanning, HasFields

\* Every step keeps what is known of the plans in the making.
LEMMA PlanningStep ==
    PlanningInv /\ SourcesInv /\ [MealNext]_<<mealVars, builderVars>> => PlanningInv'
<1> SUFFICES ASSUME PlanningInv, SourcesInv, [MealNext]_<<mealVars, builderVars>>
             PROVE  PlanningInv'
    OBVIOUS
<1>1. ASSUME generating' = generating, UNCHANGED builderVars PROVE PlanningInv'
      BY <1>1, PlanningStays
<1>2. ASSUME NEW h \in Handlers, generating' = [generating EXCEPT ![h] = NoPlanning],
             UNCHANGED builderVars
      PROVE  PlanningInv'
      <2>1. NoPlanning.at # "build"
            BY DroppedIs
      <2> QED BY <1>2, <2>1, DroppedIs, PlanningMoves
<1>3. menu \in Menus /\ costs \in CostTables
      BY DEF SourcesInv, PastInv
<1>4. ASSUME NEW h \in Handlers, NEW u \in Users, NEW body \in PlanBodies, GatherDishes(h, u, body)
      PROVE  PlanningInv'
      BY <1>3, <1>4, GatherKeeps
<1>5. ASSUME NEW h \in Handlers, NEW u, NEW p, NEW s, NEW dish, NEW servings,
             CheckSlot(h, u, p, s, dish, servings)
      PROVE  PlanningInv'
      BY <1>1, <1>5 DEF CheckSlot
<1>6. ASSUME NEW h \in Handlers, StartBuilding(h) PROVE PlanningInv'
      BY <1>3, <1>6, StartKeeps
<1>7. ASSUME NEW h \in Handlers, FinishBuilding(h) PROVE PlanningInv'
      BY <1>7, FinishKeeps
<1>8. ASSUME NEW h \in Handlers, CreatePlan(h) \/ GenerateFails(h) PROVE PlanningInv'
      BY <1>2, <1>8 DEF CreatePlan, GenerateFails
<1>9. ASSUME NEW h \in Handlers, \/ WriteSlot(h) \/ ReadSlots(h) \/ PriceSlots(h)
                                 \/ WriteEstimate(h) \/ UpdateSlotFails(h)
      PROVE  PlanningInv'
      BY <1>1, <1>9 DEF WriteSlot, ReadSlots, PriceSlots, WriteEstimate, UpdateSlotFails
<1>10. CASE BuildOn
      BY <1>10, BuildOnKeeps
<1>11. ASSUME NEW n, PricesChange \/ EditDish(n) PROVE PlanningInv'
      BY <1>1, <1>11 DEF PricesChange, EditDish
<1>12. ASSUME NEW u, NEW p, RemovePlan(u, p) PROVE PlanningInv'
      BY <1>1, <1>12 DEF RemovePlan
<1>13. CASE UNCHANGED <<mealVars, builderVars>>
      BY <1>1, <1>13 DEF mealVars
<1> QED BY <1>4, <1>5, <1>6, <1>7, <1>8, <1>9, <1>10, <1>11, <1>12, <1>13 DEF MealNext

\* Recipes and prices there have been are remembered.
PastGrows == past.menus \subseteq past'.menus /\ past.costs \subseteq past'.costs

LEMMA DropIsSourced == Sourced(NoPlanning)
BY DEF Sourced, NoPlanning, Planning

LEMMA PastStep ==
    PastInv /\ [MealNext]_<<mealVars, builderVars>> => PastGrows /\ PastInv'
<1> SUFFICES ASSUME PastInv, [MealNext]_<<mealVars, builderVars>> PROVE PastGrows /\ PastInv'
    OBVIOUS
<1>1. ASSUME past' = past, costs' = costs, menu' = menu PROVE PastGrows /\ PastInv'
      BY <1>1 DEF PastInv, PastGrows
<1>2. CASE PricesChange
      <2>1. costs' \in CostTables /\ menu' = menu /\ past' = [past EXCEPT !.costs = @ \cup {costs'}]
            BY <1>2 DEF PricesChange
      <2>2. past'.costs = past.costs \cup {costs'} /\ past'.menus = past.menus
            BY <2>1 DEF PastInv
      <2>3. past' = [costs |-> past'.costs, menus |-> past'.menus]
            BY <2>1 DEF PastInv
      <2> QED BY <2>1, <2>2, <2>3 DEF PastInv, PastGrows
<1>3. ASSUME NEW n \in DOMAIN Dishes, EditDish(n) PROVE PastGrows /\ PastInv'
      <2>1. PICK d \in Dishes[n] : menu' = [menu EXCEPT ![n] = d]
            BY <1>3 DEF EditDish
      <2>2. costs' = costs /\ past' = [past EXCEPT !.menus = @ \cup {menu'}]
            BY <1>3 DEF EditDish
      <2>3. past'.menus = past.menus \cup {menu'} /\ past'.costs = past.costs
            BY <2>2 DEF PastInv
      <2>4. past' = [costs |-> past'.costs, menus |-> past'.menus]
            BY <2>2 DEF PastInv
      <2>5. menu' \in Menus
            <3>1. menu \in Menus
                  BY DEF PastInv
            <3>2. d \in UNION Range(Dishes)
                  <4>1. Dishes[n] \in Range(Dishes)
                        BY DEF Range
                  <4> QED BY <4>1
            <3> QED BY <2>1, <3>1, <3>2 DEF Menus
      <2> QED BY <2>2, <2>3, <2>4, <2>5 DEF PastInv, PastGrows
<1>4. ASSUME NEW h \in Handlers,
             \/ StartBuilding(h) \/ FinishBuilding(h) \/ CreatePlan(h) \/ GenerateFails(h)
             \/ WriteSlot(h) \/ ReadSlots(h) \/ PriceSlots(h) \/ WriteEstimate(h)
             \/ UpdateSlotFails(h)
      PROVE  PastGrows /\ PastInv'
      <2>1. past' = past /\ costs' = costs /\ menu' = menu
            BY <1>4 DEF StartBuilding, FinishBuilding, CreatePlan, GenerateFails, WriteSlot,
                        ReadSlots, PriceSlots, WriteEstimate, UpdateSlotFails
      <2> QED BY <1>1, <2>1
<1>7. ASSUME NEW h \in Handlers, NEW u \in Users, NEW body \in PlanBodies, GatherDishes(h, u, body)
      PROVE  PastGrows /\ PastInv'
      BY <1>1, <1>7 DEF GatherDishes
<1>8. ASSUME NEW h \in Handlers, NEW u \in Users, NEW p, NEW s, NEW dish, NEW servings,
             CheckSlot(h, u, p, s, dish, servings)
      PROVE  PastGrows /\ PastInv'
      BY <1>1, <1>8 DEF CheckSlot
<1>9. ASSUME NEW u \in Users, NEW p \in Plans, RemovePlan(u, p) PROVE PastGrows /\ PastInv'
      BY <1>1, <1>9 DEF RemovePlan
<1>5. CASE BuildOn \/ UNCHANGED <<mealVars, builderVars>>
      <2>1. past' = past /\ costs' = costs /\ menu' = menu
            BY <1>5 DEF BuildOn, mealVars
      <2> QED BY <1>1, <2>1
<1> QED BY <1>2, <1>3, <1>4, <1>5, <1>7, <1>8, <1>9 DEF MealNext

\* Plans go on being made from what there has been.
LEMMA SourcesStep ==
    PlanningInv /\ SourcesInv /\ [MealNext]_<<mealVars, builderVars>> => SourcesInv'
<1> SUFFICES ASSUME PlanningInv, SourcesInv, [MealNext]_<<mealVars, builderVars>>
             PROVE  SourcesInv'
    OBVIOUS
<1>1. PastGrows /\ PastInv'
      BY PastStep DEF SourcesInv
<1> SUFFICES ASSUME NEW k \in Handlers PROVE Sourced(generating[k])'
    BY <1>1 DEF SourcesInv, PastInv
<1>2. DOMAIN generating = Handlers /\ HasFields(generating[k])
      BY DEF PlanningInv, IsPlanning
<1>3. Sourced(generating[k]) /\ menu \in past.menus /\ costs \in past.costs
      BY DEF SourcesInv, PastInv
<1>4. ASSUME Sourced(generating'[k]) PROVE Sourced(generating[k])'
      BY <1>1, <1>4 DEF Sourced, PastGrows
<1>5. ASSUME generating' = generating PROVE Sourced(generating'[k])
      BY <1>3, <1>5
<1>6. ASSUME NEW h \in Handlers, NEW g, generating' = [generating EXCEPT ![h] = g], Sourced(g)
      PROVE  Sourced(generating'[k])
      BY <1>2, <1>3, <1>6
<1>7. Sourced(NoPlanning)
      BY DropIsSourced
<1>8. ASSUME NEW h \in Handlers, NEW u, NEW body, GatherDishes(h, u, body)
      PROVE  Sourced(generating'[k])
      <2>1. PICK found : generating' = [generating EXCEPT ![h] = Planning("costs", u, body, menu, found)]
            BY <1>8 DEF GatherDishes
      <2>2. Sourced(Planning("costs", u, body, menu, found))
            BY <1>3 DEF Sourced, Planning
      <2> QED BY <1>6, <2>1, <2>2
<1>9. ASSUME NEW h \in Handlers, StartBuilding(h) PROVE Sourced(generating'[k])
      <2> DEFINE g == generating[h]
                 b == [g EXCEPT !.at = "build", !.costs = costs]
      <2>1. g.at = "costs" /\ generating' = [generating EXCEPT ![h] = b]
            BY <1>9 DEF StartBuilding
      <2>2. HasFields(g) /\ Sourced(g)
            BY DEF PlanningInv, IsPlanning, SourcesInv
      <2>3. b.at = "build" /\ b.menu = g.menu /\ b.costs = costs
            BY <2>2, BegunIs DEF SameDishes
      <2>4. Sourced(b)
            BY <1>3, <2>1, <2>2, <2>3 DEF Sourced
      <2> HIDE DEF b
      <2> QED BY <1>6, <2>1, <2>4
<1>10. ASSUME NEW h \in Handlers, FinishBuilding(h) PROVE Sourced(generating'[k])
      <2> DEFINE g == generating[h]
                 built == [s \in DOMAIN filled |-> [dish |-> Pool[filled[s]].id, servings |-> 1]]
                 b == Handover(g, spent, built)
      <2>1. g.at = "build" /\ generating' = [generating EXCEPT ![h] = b]
            BY <1>10 DEF FinishBuilding, Handover
      <2>2. HasFields(g) /\ Sourced(g)
            BY DEF PlanningInv, IsPlanning, SourcesInv
      <2> HIDE DEF built
      <2>3. b.at = "name" /\ b.menu = g.menu /\ b.costs = g.costs
            BY <2>2, DoneIs DEF SameDishes
      <2>4. Sourced(b)
            BY <2>1, <2>2, <2>3 DEF Sourced
      <2> HIDE DEF b
      <2> QED BY <1>6, <2>1, <2>4
<1>11. ASSUME NEW h \in Handlers, CreatePlan(h) \/ GenerateFails(h) PROVE Sourced(generating'[k])
      BY <1>6, <1>7, <1>11 DEF CreatePlan, GenerateFails
<1>12. ASSUME NEW h, NEW u, NEW p, NEW s, NEW dish, NEW servings,
              \/ CheckSlot(h, u, p, s, dish, servings) \/ WriteSlot(h) \/ ReadSlots(h)
              \/ PriceSlots(h) \/ WriteEstimate(h) \/ UpdateSlotFails(h) \/ RemovePlan(u, p)
              \/ PricesChange \/ EditDish(s) \/ BuildOn \/ UNCHANGED <<mealVars, builderVars>>
       PROVE  Sourced(generating'[k])
      <2>1. generating' = generating
            BY <1>12 DEF CheckSlot, WriteSlot, ReadSlots, PriceSlots, WriteEstimate,
                         UpdateSlotFails, RemovePlan, PricesChange, EditDish, BuildOn, mealVars
      <2> QED BY <1>5, <2>1
<1>13. Sourced(generating'[k])
      BY <1>8, <1>9, <1>10, <1>11, <1>12 DEF MealNext
<1> QED BY <1>4, <1>13

\* A plan nothing is done to.
LEMMA FineStays ==
    ASSUME NEW p \in Plans, Fine(p), PastGrows, plan'[p] = plan[p], slotsHad'[p] = slotsHad[p],
           Quiet(p)' => Quiet(p),
           plan[p] # Nothing /\ p \notin outdated' =>
              /\ p \notin outdated
              /\ Worth(plan[p].slots, menu', costs') = Worth(plan[p].slots, menu, costs)
    PROVE  Fine(p)'
<1> SUFFICES ASSUME plan[p] # Nothing PROVE Fine(p)'
    BY DEF Fine
<1> DEFINE slots == plan[p].slots
           e == plan[p].estimate
<1>1. \A s : WasWorth(s, e) => (\E m \in past'.menus, c \in past'.costs : e = Worth(s, m, c))
      BY DEF WasWorth, PastGrows
<1>2. Explained(p)'
      BY <1>1 DEF Fine, Explained, WasWorth
<1>3. Quiet(p)' => WasWorth(slots, e)'
      BY <1>1 DEF Fine, WasWorth
<1>4. Quiet(p)' /\ p \notin outdated' => e = Worth(slots, menu', costs')
      BY DEF Fine
<1>5. IsPlan(plan[p]) /\ slots \in slotsHad[p]
      BY DEF Fine
<1> QED BY <1>2, <1>3, <1>4, <1>5 DEF Fine, IsPlan

\* A change nothing is done to, nor to its plan unless another change has it too.
LEMMA SoundStays ==
    ASSUME NEW h \in Handlers, Sound(h), PastGrows, swap'[h] = swap[h],
           LET p == swap[h].plan IN
           p # Nothing =>
              /\ \/ plan'[p] = Nothing
                 \/ plan[p] # Nothing /\ (plan'[p].slots = plan[p].slots \/ p \in adrift')
              /\ slotsHad[p] \subseteq slotsHad'[p]
              /\ p \notin adrift' => p \notin adrift
              /\ p \notin adrift' =>
                    \A k \in Handlers \ {h} : swap'[k].plan = p => swap[k].plan = p
    PROVE  Sound(h)'
<1> DEFINE w == swap[h]
           p == w.plan
<1>1. IsSwap(w) /\ Knows(w) /\ Steady(h)
      BY DEF Sound
<1>2. w.at # "idle" => p # Nothing
      BY <1>1, MealPlansAssumption DEF IsSwap
<1>3. IsSwap(swap[h])'
      BY <1>1 DEF IsSwap
<1>4. Knows(swap[h])'
      <2>1. w.at \in {"price", "sum"} => /\ w.menu \in past'.menus
                                         /\ plan'[p] # Nothing => w.read \in slotsHad'[p]
            BY <1>1, <1>2 DEF Knows, PastGrows
      <2>2. w.at = "sum" => w.costs \in past'.costs
            BY <1>1 DEF Knows, PastGrows
      <2> HIDE DEF w
      <2>3. swap'[h] = w
            BY DEF w
      <2> QED BY <2>1, <2>2, <2>3 DEF Knows
<1>5. Steady(h)'
      <2>1. p # Nothing /\ p \notin adrift' =>
               /\ \A k \in Handlers \ {h} : swap'[k].plan # p
               /\ w.at \in {"price", "sum"} /\ plan'[p] # Nothing => w.read = plan'[p].slots
            BY <1>1 DEF Steady
      <2> QED BY <2>1 DEF Steady
<1> QED BY <1>3, <1>4, <1>5 DEF Sound

\* Nothing is done to the plans or to what changes them.
LEMMA PlansStay ==
    ASSUME PlansInv, PastGrows, plan' = plan, slotsHad' = slotsHad, swap' = swap, adrift' = adrift,
           \A p \in Plans : plan[p] # Nothing /\ p \notin outdated' =>
              /\ p \notin outdated
              /\ Worth(plan[p].slots, menu', costs') = Worth(plan[p].slots, menu, costs)
    PROVE  PlansInv'
<1>1. ASSUME NEW p \in Plans PROVE Fine(p)'
      <2>1. Fine(p) /\ (Quiet(p)' => Quiet(p))
            BY DEF PlansInv, Quiet
      <2> QED BY <2>1, FineStays
<1>2. ASSUME NEW h \in Handlers PROVE Sound(h)'
      <2>1. Sound(h)
            BY DEF PlansInv
      <2> QED BY <2>1, SoundStays
<1> QED BY <1>1, <1>2 DEF PlansInv

\* A plan that is there and not being changed is another than before, or gone.
LEMMA PlanReplaced ==
    ASSUME PlansInv, NEW p \in Plans, DOMAIN plan' = Plans, DOMAIN slotsHad' = Plans,
           \A r \in Plans \ {p} : plan'[r] = plan[r] /\ slotsHad'[r] = slotsHad[r],
           UNCHANGED <<menu, costs, swap, past>>,
           adrift' \ {p} = adrift \ {p}, outdated' \ {p} = outdated \ {p}, Fine(p)',
           \/ \A k \in Handlers : swap[k].plan # p
           \/ plan'[p] = Nothing /\ slotsHad' = slotsHad /\ adrift' = adrift
    PROVE  PlansInv'
<1>1. DOMAIN swap' = Handlers
      BY DEF PlansInv
<1>2. PastGrows
      BY DEF PastGrows
<1>3. ASSUME NEW r \in Plans PROVE Fine(r)'
      <2>1. CASE r = p
            BY <2>1
      <2>2. CASE r # p
            <3>1. Fine(r) /\ (Quiet(r)' => Quiet(r)) /\ (r \notin outdated' => r \notin outdated)
                  BY <2>2 DEF PlansInv, Quiet
            <3> QED BY <1>1, <1>2, <2>2, <3>1, FineStays
      <2> QED BY <2>1, <2>2
<1>4. ASSUME NEW h \in Handlers PROVE Sound(h)'
      <2>1. Sound(h) /\ swap'[h] = swap[h]
            BY DEF PlansInv
      <2>2. swap[h].plan # Nothing => swap[h].plan \in Plans
            BY <2>1 DEF Sound, IsSwap
      <2>3. CASE swap[h].plan = p
            BY <1>2, <2>1, <2>3, SoundStays
      <2>4. CASE swap[h].plan # p
            <3>1. LET r == swap[h].plan IN
                  r # Nothing => /\ plan'[r] = plan[r] /\ slotsHad'[r] = slotsHad[r]
                                 /\ r \notin adrift' => r \notin adrift
                  BY <1>1, <2>2, <2>4
            <3> QED BY <1>2, <2>1, <3>1, SoundStays
      <2> QED BY <2>3, <2>4
<1> QED BY <1>1, <1>3, <1>4 DEF PlansInv

\* One change moves, and with it perhaps its plan.
LEMMA SwapMoves ==
    ASSUME PlansInv, NEW h \in Handlers, NEW p \in Plans, NEW w,
           swap' = [swap EXCEPT ![h] = w], w.plan \in {p, Nothing}, swap[h].plan \in {p, Nothing},
           DOMAIN plan' = Plans, DOMAIN slotsHad' = Plans,
           \A r \in Plans \ {p} : plan'[r] = plan[r] /\ slotsHad'[r] = slotsHad[r],
           UNCHANGED <<menu, costs, past>>,
           adrift' \ {p} = adrift \ {p}, outdated' \ {p} = outdated \ {p},
           p \in adrift => p \in adrift' \/ \A k \in Handlers \ {h} : swap[k].plan # p,
           w.plan = p /\ p \notin adrift' => \A k \in Handlers \ {h} : swap[k].plan # p,
           plan'[p] = plan[p] \/ swap[h].plan = p, plan[p] = Nothing => plan'[p] = Nothing,
           slotsHad[p] \subseteq slotsHad'[p], Fine(p)', Sound(h)'
    PROVE  PlansInv'
<1>1. DOMAIN swap' = Handlers /\ \A k \in Handlers : swap'[k] = IF k = h THEN w ELSE swap[k]
      BY DEF PlansInv
<1>2. PastGrows /\ Nothing \notin Plans
      BY MealPlansAssumption DEF PastGrows
<1>3. ASSUME NEW r \in Plans PROVE Fine(r)'
      <2>1. CASE r = p
            BY <2>1
      <2>2. CASE r # p
            <3>1. Fine(r) /\ (r \notin outdated' => r \notin outdated)
                  BY <2>2 DEF PlansInv
            <3>2. Quiet(r)' => Quiet(r)
                  <4>1. r \notin adrift' => r \notin adrift
                        BY <2>2
                  <4>2. \A k \in Handlers : swap'[k].plan # r => swap[k].plan # r
                        BY <1>1, <1>2, <2>2
                  <4> QED BY <4>1, <4>2 DEF Quiet
            <3> QED BY <1>2, <2>2, <3>1, <3>2, FineStays
      <2> QED BY <2>1, <2>2
<1>4. ASSUME NEW k \in Handlers PROVE Sound(k)'
      <2>1. CASE k = h
            BY <2>1
      <2>2. CASE k # h
            <3>1. Sound(k) /\ swap'[k] = swap[k]
                  BY <1>1, <2>2 DEF PlansInv
            <3>2. swap[k].plan # Nothing => swap[k].plan \in Plans
                  BY <3>1 DEF Sound, IsSwap
            <3>3. CASE swap[k].plan = p
                  <4>1. Steady(k) /\ p # Nothing
                        BY <1>2, <3>1 DEF Sound
                  <4>2. swap[h].plan = p => p \in adrift
                        BY <2>2, <3>3, <4>1 DEF Steady
                  <4>3. p \in adrift => p \in adrift'
                        BY <2>2, <3>3
                  <4>4. plan'[p] = plan[p] \/ p \in adrift'
                        BY <4>2, <4>3
                  <4>5. p \notin adrift' => w.plan # p
                        BY <2>2, <3>3
                  <4>6. p \notin adrift' =>
                           \A l \in Handlers \ {k} : swap'[l].plan = p => swap[l].plan = p
                        BY <1>1, <4>5
                  <4>7. \/ plan'[p] = Nothing
                        \/ plan[p] # Nothing /\ (plan'[p].slots = plan[p].slots \/ p \in adrift')
                        BY <4>4
                  <4> QED BY <1>2, <3>1, <3>3, <4>3, <4>6, <4>7, SoundStays
            <3>4. CASE swap[k].plan # p
                  <4>1. LET r == swap[k].plan IN
                        r # Nothing => /\ plan'[r] = plan[r] /\ slotsHad'[r] = slotsHad[r]
                                       /\ r \notin adrift' => r \notin adrift
                                       /\ \A l \in Handlers : swap'[l].plan = r => swap[l].plan = r
                        BY <1>1, <3>2, <3>4
                  <4> QED BY <1>2, <3>1, <4>1, SoundStays
            <3> QED BY <3>3, <3>4
      <2> QED BY <2>1, <2>2
<1> QED BY <1>1, <1>3, <1>4 DEF PlansInv

\* A change that is over is sound.
LEMMA IdleIsSound ==
    ASSUME NEW h, swap'[h] = NoSwap PROVE Sound(h)'
<1>1. NoSwap.plan = Nothing /\ NoSwap.at = "idle" /\ IsSwap(NoSwap)
      BY DEF NoSwap, Swap, IsSwap
<1>2. IsSwap(swap[h])'
      BY <1>1 DEF IsSwap
<1>3. Knows(swap[h])' /\ Steady(h)'
      BY <1>1 DEF Knows, Steady
<1> QED BY <1>2, <1>3 DEF Sound

\* A plan that is as it was and was not quiet, or is not now.
LEMMA FineUnderWay ==
    ASSUME NEW p \in Plans, Fine(p), UNCHANGED <<menu, costs, past>>,
           plan'[p] = plan[p], slotsHad'[p] = slotsHad[p], ~Quiet(p)'
    PROVE  Fine(p)'
<1>1. PastGrows
      BY DEF PastGrows
<1> SUFFICES ASSUME plan[p] # Nothing PROVE Fine(p)'
    BY DEF Fine
<1>2. IsPlan(plan[p]) /\ plan[p].slots \in slotsHad[p] /\ Explained(p)
      BY DEF Fine
<1>3. Explained(p)'
      BY <1>2 DEF Explained, WasWorth
<1> QED BY <1>2, <1>3 DEF Fine, IsPlan

\* A change that goes on, and the plan it writes.
LEMMA SwapAt ==
    ASSUME NEW w, IsSwap(w), w.at # "idle", NEW at, at \in {"write", "read"}
    PROVE  LET v == [w EXCEPT !.at = at]
           IN  IsSwap(v) /\ v.at = at /\ v.plan = w.plan
BY DEF IsSwap

\* A change that has read the slots.
Reading(w, slots, m) == [w EXCEPT !.at = "price", !.menu = m, !.read = slots]

LEMMA SwapReads ==
    ASSUME NEW w, IsSwap(w), w.at # "idle", NEW slots \in Seq(MealSlot), NEW m
    PROVE  LET v == Reading(w, slots, m)
           IN  IsSwap(v) /\ v.at = "price" /\ v.plan = w.plan /\ v.read = slots /\ v.menu = m
<1> DEFINE f == [w EXCEPT !.at = "read"]
<1>1. IsSwap(f) /\ f.at = "read" /\ f.plan = w.plan
      BY SwapAt
<1> HIDE DEF f
<1> DEFINE e == [f EXCEPT !.read = slots]
<1>2. IsSwap(e) /\ e.at = "read" /\ e.plan = w.plan /\ e.read = slots
      BY <1>1 DEF IsSwap
<1> HIDE DEF e
<1> DEFINE d == [e EXCEPT !.menu = m]
<1>3. IsSwap(d) /\ d.at = "read" /\ d.plan = w.plan /\ d.read = slots /\ d.menu = m
      BY <1>2 DEF IsSwap
<1> HIDE DEF d
<1>4. LET v == [d EXCEPT !.at = "price"]
      IN  IsSwap(v) /\ v.at = "price" /\ v.plan = w.plan /\ v.read = slots /\ v.menu = m
      BY <1>3 DEF IsSwap
<1>5. Reading(w, slots, m) = [d EXCEPT !.at = "price"]
      BY DEF d, e, f, IsSwap, Reading
<1> QED BY <1>4, <1>5

\* A change that has asked the prices.
LEMMA SwapPrices ==
    ASSUME NEW w, IsSwap(w), w.at = "price", NEW c
    PROVE  LET v == [w EXCEPT !.at = "sum", !.costs = c]
           IN  /\ IsSwap(v) /\ v.at = "sum" /\ v.plan = w.plan /\ v.read = w.read
               /\ v.menu = w.menu /\ v.costs = c
<1> DEFINE e == [w EXCEPT !.costs = c]
<1>1. /\ IsSwap(e) /\ e.at = "price" /\ e.plan = w.plan /\ e.read = w.read
      /\ e.menu = w.menu /\ e.costs = c
      BY DEF IsSwap
<1> HIDE DEF e
<1>2. LET v == [e EXCEPT !.at = "sum"]
      IN  /\ IsSwap(v) /\ v.at = "sum" /\ v.plan = w.plan /\ v.read = w.read
          /\ v.menu = w.menu /\ v.costs = c
      BY <1>1 DEF IsSwap
<1>3. [w EXCEPT !.at = "sum", !.costs = c] = [e EXCEPT !.at = "sum"]
      BY DEF e, IsSwap
<1> QED BY <1>2, <1>3

\* A slot that is written is a slot.
LEMMA SlotWritten ==
    ASSUME NEW p, IsPlan(p), NEW w, IsSwap(w), w.at # "idle", NEW s
    PROVE  LET q == [p EXCEPT !.slots[s] = Given(@, w)]
           IN  IsPlan(q) /\ q.estimate = p.estimate
<1> DEFINE slots == p.slots
           new == [slots EXCEPT ![s] = Given(@, w)]
<1>1. slots \in Seq(MealSlot)
      BY DEF IsPlan
<1>2. s \in DOMAIN slots => Given(slots[s], w) \in MealSlot
      <2>1. s \in DOMAIN slots => slots[s] \in MealSlot
            BY <1>1, ElementOfSeq
      <2>2. w.dish \in {0} \cup DishIds /\ w.servings \in Nat
            BY DEF IsSwap
      <2> QED BY <2>1, <2>2 DEF Given, MealSlot
<1> HIDE DEF slots
<1>3. new \in Seq(MealSlot)
      <2> DEFINE v == Given(slots[s], w)
      <2>1. new = [slots EXCEPT ![s] = v]
            OBVIOUS
      <2> HIDE DEF v, new
      <2>2. CASE s \in DOMAIN slots
            BY <1>1, <1>2, <2>1, <2>2, ExceptSeq DEF v
      <2>3. CASE s \notin DOMAIN slots
            <3>1. new = slots
                  BY <1>1, <2>1, <2>3
            <3> QED BY <1>1, <3>1
      <2> QED BY <2>2, <2>3
<1>4. [p EXCEPT !.slots[s] = Given(@, w)] = [p EXCEPT !.slots = new]
      BY DEF slots
<1> HIDE DEF new
<1> DEFINE q == [p EXCEPT !.slots = new]
<1>5. q.slots = new /\ q.owner = p.owner /\ q.estimate = p.estimate
      BY DEF IsPlan
<1>6. q = [owner |-> q.owner, slots |-> q.slots, estimate |-> q.estimate]
      BY DEF IsPlan
<1> HIDE DEF q
<1>7. IsPlan(q)
      BY <1>3, <1>5, <1>6 DEF IsPlan
<1> QED BY <1>4, <1>5, <1>7 DEF q

\* The plan that is created is worth what was built.
LEMMA CreateKeeps ==
    ASSUME MealInv, NEW h \in Handlers, CreatePlan(h)
    PROVE  PlansInv'
<1>0. PICK g : g = generating[h]
      OBVIOUS
<1> DEFINE q == [owner |-> g.user, slots |-> g.built, estimate |-> g.total]
<1>1. Built(g) /\ g.menu \in past.menus /\ g.costs \in past.costs
      BY <1>0 DEF CreatePlan, MealInv, PlanningInv, IsPlanning, SourcesInv, PastInv, Sourced
<1>2. PICK p \in Plans :
         /\ \A k \in Handlers : swap[k].plan # p
         /\ plan' = [plan EXCEPT ![p] = q] /\ slotsHad' = [slotsHad EXCEPT ![p] = {g.built}]
         /\ adrift' = adrift \ {p}
         /\ outdated' = IF g.costs = costs /\ g.menu = menu THEN outdated \ {p} ELSE outdated \cup {p}
      BY <1>0 DEF CreatePlan
<1>3. UNCHANGED <<menu, costs, swap, past>>
      BY DEF CreatePlan
<1>4. /\ IsPlan(q) /\ q.slots = g.built /\ q.estimate = g.total
      /\ g.built \in Seq(MealSlot) /\ g.total = Worth(g.built, g.menu, g.costs)
      BY <1>1 DEF IsPlan, Built
<1>5. plan'[p] = q /\ slotsHad'[p] = {g.built}
      BY <1>2 DEF MealInv, PlansInv
<1> HIDE DEF q
<1>6. WasWorth(g.built, g.total)'
      BY <1>1, <1>3, <1>4 DEF WasWorth
<1>7. p \notin outdated' => g.total = Worth(g.built, menu', costs')
      BY <1>2, <1>3, <1>4
<1>8. Fine(p)'
      <2>1. Explained(p)'
            BY <1>4, <1>5, <1>6 DEF Explained
      <2>2. IsPlan(plan'[p]) /\ plan'[p].slots \in slotsHad'[p]
            BY <1>4, <1>5
      <2>3. WasWorth(plan[p].slots, plan[p].estimate)'
            BY <1>4, <1>5, <1>6
      <2>4. p \notin outdated' => plan'[p].estimate = Worth(plan'[p].slots, menu', costs')
            BY <1>4, <1>5, <1>7
      <2> QED BY <2>1, <2>2, <2>3, <2>4 DEF Fine, IsPlan
<1>9. /\ DOMAIN plan' = Plans /\ DOMAIN slotsHad' = Plans
      /\ \A r \in Plans \ {p} : plan'[r] = plan[r] /\ slotsHad'[r] = slotsHad[r]
      /\ adrift' \ {p} = adrift \ {p} /\ outdated' \ {p} = outdated \ {p}
      BY <1>2 DEF MealInv, PlansInv
<1> QED BY <1>2, <1>3, <1>8, <1>9, PlanReplaced DEF MealInv

\* A change that begins is alone with its plan, or the plan adrift.
LEMMA CheckKeeps ==
    ASSUME PlansInv, NEW h \in Handlers, NEW u, NEW p \in Plans, NEW s, NEW dish \in {0} \cup DishIds,
           NEW servings \in Nat, CheckSlot(h, u, p, s, dish, servings)
    PROVE  PlansInv'
<1> DEFINE w == Swap("write", p, s, dish, servings)
<1>1. /\ swap[h].at = "idle" /\ plan[p] # Nothing /\ swap' = [swap EXCEPT ![h] = w]
      /\ UNCHANGED <<plan, slotsHad, menu, costs, past, outdated>>
      /\ adrift' = IF \E k \in Handlers : swap[k].plan = p THEN adrift \cup {p} ELSE adrift \ {p}
      BY DEF CheckSlot, Free
<1>2. IsSwap(w) /\ w.plan = p /\ w.at = "write"
      BY DEF IsSwap, Swap
<1>3. swap[h].plan = Nothing
      BY <1>1 DEF PlansInv, Sound, IsSwap
<1> HIDE DEF w
<1>4. DOMAIN swap = Handlers /\ swap'[h] = w /\ \A k \in Handlers \ {h} : swap'[k] = swap[k]
      BY <1>1 DEF PlansInv
<1>5. p \notin adrift' => \A k \in Handlers : swap[k].plan # p
      BY <1>1
<1>6. Sound(h)'
      <2>1. IsSwap(swap[h])'
            BY <1>2, <1>4 DEF IsSwap
      <2>2. Knows(swap[h])'
            BY <1>2, <1>4 DEF Knows
      <2>3. Steady(h)'
            BY <1>2, <1>4, <1>5 DEF Steady
      <2> QED BY <2>1, <2>2, <2>3 DEF Sound
<1>7. Fine(p)'
      <2>1. Fine(p) /\ ~Quiet(p)'
            BY <1>2, <1>4 DEF PlansInv, Quiet
      <2> QED BY <1>1, <2>1, FineUnderWay
<1>8. /\ adrift' \ {p} = adrift \ {p} /\ outdated' \ {p} = outdated \ {p}
      /\ DOMAIN plan' = Plans /\ DOMAIN slotsHad' = Plans
      /\ \A r \in Plans \ {p} : plan'[r] = plan[r] /\ slotsHad'[r] = slotsHad[r]
      BY <1>1 DEF PlansInv
<1>9. /\ w.plan \in {p, Nothing} /\ swap[h].plan \in {p, Nothing}
      /\ p \in adrift => p \in adrift' \/ \A k \in Handlers \ {h} : swap[k].plan # p
      /\ w.plan = p /\ p \notin adrift' => \A k \in Handlers \ {h} : swap[k].plan # p
      /\ plan'[p] = plan[p] /\ (plan[p] = Nothing => plan'[p] = Nothing)
      /\ slotsHad[p] \subseteq slotsHad'[p] /\ UNCHANGED <<menu, costs, past>>
      BY <1>1, <1>2, <1>3, <1>5
<1> QED BY <1>1, <1>6, <1>7, <1>8, <1>9, SwapMoves

\* A change that goes on with the plan it has, which it may write.
LEMMA SwapGoesOn ==
    ASSUME PlansInv, NEW h \in Handlers, NEW p \in Plans, swap[h].plan = p, NEW w,
           swap' = [swap EXCEPT ![h] = w], w.plan \in {p, Nothing},
           DOMAIN plan' = Plans, DOMAIN slotsHad' = Plans,
           \A r \in Plans \ {p} : plan'[r] = plan[r] /\ slotsHad'[r] = slotsHad[r],
           UNCHANGED <<menu, costs, past>>, adrift \subseteq adrift',
           adrift' \ {p} = adrift \ {p}, outdated' \ {p} = outdated \ {p},
           plan[p] = Nothing => plan'[p] = Nothing,
           slotsHad[p] \subseteq slotsHad'[p], Fine(p)',
           w = NoSwap \/ (IsSwap(w) /\ Knows(w)'),
           w # NoSwap /\ p \notin adrift /\ w.at \in {"price", "sum"} /\ plan'[p] # Nothing =>
              w.read = plan'[p].slots
    PROVE  PlansInv'
<1>1. DOMAIN swap = Handlers /\ swap'[h] = w /\ \A k \in Handlers \ {h} : swap'[k] = swap[k]
      BY DEF PlansInv
<1>2. p \notin adrift' => p \notin adrift /\ \A k \in Handlers \ {h} : swap[k].plan # p
      <2>1. Steady(h) /\ p # Nothing
            BY MealPlansAssumption DEF PlansInv, Sound
      <2> QED BY <2>1 DEF Steady
<1>3. Sound(h)'
      <2>1. CASE w = NoSwap
            BY <1>1, <2>1, IdleIsSound
      <2>2. CASE w # NoSwap
            <3>1. IsSwap(swap[h])'
                  BY <1>1, <2>2 DEF IsSwap
            <3>2. Knows(swap[h])'
                  BY <1>1, <2>2 DEF Knows
            <3>3. Steady(h)'
                  BY <1>1, <1>2, <2>2 DEF Steady
            <3> QED BY <3>1, <3>2, <3>3 DEF Sound
      <2> QED BY <2>1, <2>2
<1>4. /\ p \in adrift => p \in adrift' \/ \A k \in Handlers \ {h} : swap[k].plan # p
      /\ w.plan = p /\ p \notin adrift' => \A k \in Handlers \ {h} : swap[k].plan # p
      /\ plan'[p] = plan[p] \/ swap[h].plan = p
      /\ swap[h].plan \in {p, Nothing}
      BY <1>2
<1> QED BY <1>3, <1>4, SwapMoves

\* The slot is written; the estimate is of the slots before it.
LEMMA WriteKeeps ==
    ASSUME PlansInv, NEW h \in Handlers, WriteSlot(h)
    PROVE  PlansInv'
<1>0. PICK w : w = swap[h]
      OBVIOUS
<1> DEFINE p == w.plan
           v == [w EXCEPT !.at = "read"]
           q == [plan[p] EXCEPT !.slots[w.slot] = Given(@, w)]
<1>1. w.at = "write" /\ adrift' = adrift /\ UNCHANGED <<menu, costs, past, outdated>>
      BY <1>0 DEF WriteSlot
<1>2. /\ IsSwap(w) /\ p \in Plans /\ DOMAIN plan = Plans /\ DOMAIN slotsHad = Plans
      /\ DOMAIN swap = Handlers /\ Fine(p)
      BY <1>0, <1>1 DEF PlansInv, Sound, IsSwap
<1>3. NoSwap.plan = Nothing
      BY DEF NoSwap, Swap
<1>4. CASE plan[p] = Nothing
      <2>1. swap' = [swap EXCEPT ![h] = NoSwap] /\ plan' = plan /\ slotsHad' = slotsHad
            BY <1>0, <1>4 DEF WriteSlot
      <2>2. Fine(p)'
            BY <1>4, <2>1 DEF Fine
      <2>3. swap[h].plan = p
            BY <1>0
      <2> HIDE DEF p
      <2> QED BY <1>1, <1>2, <1>3, <1>4, <2>1, <2>2, <2>3, SwapGoesOn
<1>5. CASE plan[p] # Nothing
      <2>1. /\ swap' = [swap EXCEPT ![h] = v] /\ plan' = [plan EXCEPT ![p] = q]
            /\ slotsHad' = [slotsHad EXCEPT ![p] = @ \cup {plan'[p].slots}]
            BY <1>0, <1>5 DEF WriteSlot, AtSwap
      <2>2. IsSwap(v) /\ v.at = "read" /\ v.plan = p
            BY <1>1, <1>2, SwapAt
      <2>3. IsPlan(q) /\ q.estimate = plan[p].estimate
            <3>1. IsPlan(plan[p]) /\ w.at # "idle"
                  BY <1>1, <1>2, <1>5 DEF Fine
            <3> QED BY <1>2, <3>1, SlotWritten
      <2> HIDE DEF q, v
      <2>4. /\ DOMAIN plan' = Plans /\ DOMAIN slotsHad' = Plans /\ plan'[p] = q
            /\ slotsHad'[p] = slotsHad[p] \cup {q.slots}
            /\ \A r \in Plans \ {p} : plan'[r] = plan[r] /\ slotsHad'[r] = slotsHad[r]
            BY <1>2, <2>1
      <2>5. swap'[h] = v
            BY <1>2, <2>1
      <2>6. Fine(p)'
            <3>1. ~Quiet(p)'
                  BY <2>2, <2>5 DEF Quiet
            <3>2. Explained(p)'
                  BY <1>1, <1>2, <1>5, <2>3, <2>4 DEF Fine, Explained, WasWorth
            <3> QED BY <2>3, <2>4, <3>1, <3>2 DEF Fine, IsPlan
      <2>7. Knows(v)' /\ v # NoSwap
            BY <1>3, <2>2, <1>2, MealPlansAssumption DEF Knows
      <2>8. v.at \notin {"price", "sum"} /\ slotsHad[p] \subseteq slotsHad'[p]
            BY <2>2, <2>4
      <2>9. swap[h].plan = p
            BY <1>0
      <2> HIDE DEF p
      <2> QED BY <1>1, <1>2, <1>5, <2>1, <2>2, <2>4, <2>6, <2>7, <2>8, <2>9, SwapGoesOn
<1> QED BY <1>4, <1>5

\* A change only of what it knows itself.
LEMMA SwapLearns ==
    ASSUME PlansInv, NEW h \in Handlers, NEW p \in Plans, swap[h].plan = p, NEW w,
           swap' = [swap EXCEPT ![h] = w], w.plan = p, IsSwap(w), Knows(w),
           UNCHANGED <<plan, slotsHad, menu, costs, past, adrift, outdated>>,
           p \notin adrift /\ w.at \in {"price", "sum"} /\ plan[p] # Nothing => w.read = plan[p].slots
    PROVE  PlansInv'
<1>1. Fine(p) /\ DOMAIN swap = Handlers /\ DOMAIN plan = Plans /\ DOMAIN slotsHad = Plans
      BY DEF PlansInv
<1>2. ~Quiet(p)'
      <2>1. swap'[h].plan = p
            BY <1>1
      <2> QED BY <2>1 DEF Quiet
<1>3. Fine(p)'
      BY <1>1, <1>2, FineUnderWay
<1>4. Knows(w)'
      BY DEF Knows
<1> QED BY <1>1, <1>3, <1>4, SwapGoesOn

\* What is read is what is there.
LEMMA ReadSlotsKeeps ==
    ASSUME PlansInv, SourcesInv, NEW h \in Handlers, ReadSlots(h)
    PROVE  PlansInv'
<1>0. PICK w : w = swap[h]
      OBVIOUS
<1> DEFINE p == w.plan
           slots == IF plan[p] = Nothing THEN <<>> ELSE plan[p].slots
           v == Reading(w, slots, menu)
<1>1. /\ w.at = "read" /\ swap' = [swap EXCEPT ![h] = v]
      /\ UNCHANGED <<plan, slotsHad, menu, costs, past, adrift, outdated>>
      BY <1>0 DEF ReadSlots, Reading
<1>2. IsSwap(w) /\ p \in Plans /\ Fine(p)
      BY <1>0, <1>1 DEF PlansInv, Sound, IsSwap
<1>3. plan[p] # Nothing => plan[p].slots \in Seq(MealSlot) /\ plan[p].slots \in slotsHad[p]
      BY <1>2 DEF Fine, IsPlan
<1>4. slots \in Seq(MealSlot)
      <2>1. <<>> \in Seq(MealSlot)
            OBVIOUS
      <2> QED BY <1>3, <2>1
<1>5. w.at # "idle" /\ (plan[p] # Nothing => slots = plan[p].slots)
      BY <1>1
<1> HIDE DEF slots
<1>6. IsSwap(v) /\ v.at = "price" /\ v.plan = p /\ v.read = slots /\ v.menu = menu
      BY <1>2, <1>4, <1>5, SwapReads
<1> HIDE DEF v
<1>7. Knows(v)
      <2>1. menu \in past.menus
            BY DEF SourcesInv, PastInv
      <2> QED BY <1>3, <1>5, <1>6, <2>1 DEF Knows
<1>8. swap[h].plan = p
      BY <1>0
<1> HIDE DEF p
<1> QED BY <1>1, <1>2, <1>5, <1>6, <1>7, <1>8, SwapLearns

\* The prices that are asked are those of now.
LEMMA PriceSlotsKeeps ==
    ASSUME PlansInv, SourcesInv, NEW h \in Handlers, PriceSlots(h)
    PROVE  PlansInv'
<1>0. PICK w : w = swap[h]
      OBVIOUS
<1> DEFINE p == w.plan
           v == [w EXCEPT !.at = "sum", !.costs = costs]
<1>1. /\ w.at = "price" /\ swap' = [swap EXCEPT ![h] = v]
      /\ UNCHANGED <<plan, slotsHad, menu, costs, past, adrift, outdated>>
      BY <1>0 DEF PriceSlots
<1>2. IsSwap(w) /\ p \in Plans /\ Knows(w) /\ Steady(h)
      BY <1>0, <1>1 DEF PlansInv, Sound, IsSwap
<1>3. /\ IsSwap(v) /\ v.at = "sum" /\ v.plan = p /\ v.read = w.read
      /\ v.menu = w.menu /\ v.costs = costs
      <2> QED BY <1>1, <1>2, SwapPrices DEF p
<1>4. p \notin adrift /\ plan[p] # Nothing => w.read = plan[p].slots
      <2>1. p # Nothing
            BY <1>2, MealPlansAssumption
      <2> QED BY <1>0, <1>1, <1>2, <2>1 DEF Steady
<1> HIDE DEF v
<1>5. Knows(v)
      <2>1. costs \in past.costs
            BY DEF SourcesInv, PastInv
      <2> QED BY <1>1, <1>2, <1>3, <2>1 DEF Knows
<1>6. swap[h].plan = p /\ (p \notin adrift /\ plan[p] # Nothing => v.read = plan[p].slots)
      BY <1>0, <1>3, <1>4
<1> HIDE DEF p
<1> QED BY <1>1, <1>2, <1>3, <1>5, <1>6, SwapLearns

\* The estimate that is written is what slots of the plan were worth; the slots it
\* has, when the change had it to itself.
LEMMA EstimateKeeps ==
    ASSUME PlansInv, NEW h \in Handlers, WriteEstimate(h)
    PROVE  PlansInv'
<1>0. PICK w : w = swap[h]
      OBVIOUS
<1> DEFINE p == w.plan
           total == Reestimated(w.read, w.menu, w.costs)
           q == [plan[p] EXCEPT !.estimate = total]
<1>1. /\ w.at = "sum" /\ swap' = [swap EXCEPT ![h] = NoSwap]
      /\ UNCHANGED <<slotsHad, menu, costs, past, adrift>>
      /\ plan' = IF plan[p] = Nothing THEN plan ELSE [plan EXCEPT ![p] = q]
      /\ outdated' = IF w.costs = costs /\ w.menu = menu THEN outdated \ {p} ELSE outdated \cup {p}
      BY <1>0 DEF WriteEstimate
<1>2. /\ IsSwap(w) /\ p \in Plans /\ Knows(w) /\ Steady(h) /\ Fine(p)
      /\ DOMAIN plan = Plans /\ DOMAIN slotsHad = Plans /\ w.read \in Seq(MealSlot)
      BY <1>0, <1>1 DEF PlansInv, Sound, IsSwap
<1>3. total = Worth(w.read, w.menu, w.costs)
      <2> QED BY <1>2, ReestimatedIs DEF total
<1>4. /\ w.menu \in past.menus /\ w.costs \in past.costs
      /\ plan[p] # Nothing => w.read \in slotsHad[p]
      BY <1>1, <1>2 DEF Knows
<1>5. p \notin adrift /\ plan[p] # Nothing => w.read = plan[p].slots
      <2>1. p # Nothing
            BY <1>2, MealPlansAssumption
      <2> QED BY <1>0, <1>1, <1>2, <2>1 DEF Steady
<1>6. NoSwap.plan = Nothing /\ swap[h].plan = p
      BY <1>0 DEF NoSwap, Swap
<1> HIDE DEF total, p
<1>7. DOMAIN plan' = Plans /\ \A r \in Plans \ {p} : plan'[r] = plan[r]
      BY <1>1, <1>2
<1>8. Fine(p)'
      <2>1. CASE plan[p] = Nothing
            BY <1>1, <2>1 DEF Fine
      <2>2. CASE plan[p] # Nothing
            <3>1. plan'[p] = q
                  BY <1>1, <1>2, <2>2
            <3>2. IsPlan(plan[p]) /\ plan[p].slots \in slotsHad[p]
                  BY <1>2, <2>2 DEF Fine
            <3>3. IsPlan(q) /\ q.slots = plan[p].slots /\ q.estimate = total
                  <4> DEFINE x == plan[p]
                  <4> HIDE DEF x
                  <4>1. LET y == [x EXCEPT !.estimate = total]
                        IN  IsPlan(x) => IsPlan(y) /\ y.slots = x.slots /\ y.estimate = total
                        BY DEF IsPlan
                  <4> QED BY <3>2, <4>1 DEF x
            <3> HIDE DEF q
            <3>4. WasWorth(w.read, total)'
                  BY <1>1, <1>3, <1>4 DEF WasWorth
            <3>5. Explained(p)'
                  BY <1>1, <1>2, <1>4, <2>2, <3>1, <3>3, <3>4 DEF Explained
            <3>6. Quiet(p)' => w.read = q.slots
                  BY <1>1, <1>5, <2>2, <3>3 DEF Quiet
            <3>7. p \notin outdated' => w.costs = costs' /\ w.menu = menu'
                  BY <1>1
            <3>8. /\ Quiet(p)' => WasWorth(plan[p].slots, plan[p].estimate)'
                  /\ Quiet(p)' /\ p \notin outdated' =>
                        plan'[p].estimate = Worth(plan'[p].slots, menu', costs')
                  BY <1>3, <3>1, <3>3, <3>4, <3>6, <3>7
            <3>9. IsPlan(plan'[p]) /\ plan'[p].slots \in slotsHad'[p]
                  BY <1>1, <3>1, <3>2, <3>3
            <3> QED BY <3>5, <3>8, <3>9 DEF Fine, IsPlan
      <2> QED BY <2>1, <2>2
<1>9. /\ outdated' \ {p} = outdated \ {p} /\ adrift' \ {p} = adrift \ {p} /\ adrift \subseteq adrift'
      /\ plan[p] = Nothing => plan'[p] = Nothing
      /\ slotsHad[p] \subseteq slotsHad'[p] /\ DOMAIN slotsHad' = Plans
      /\ UNCHANGED <<menu, costs, past>>
      /\ \A r \in Plans \ {p} : plan'[r] = plan[r] /\ slotsHad'[r] = slotsHad[r]
      BY <1>1, <1>2, <1>7
<1> HIDE DEF q
<1> QED BY <1>1, <1>2, <1>6, <1>7, <1>8, <1>9, SwapGoesOn

\* A change that breaks off leaves its plan adrift.
LEMMA FailsKeeps ==
    ASSUME PlansInv, NEW h \in Handlers, UpdateSlotFails(h)
    PROVE  PlansInv'
<1>0. PICK p : p = swap[h].plan
      OBVIOUS
<1>1. /\ swap[h].at # "idle" /\ swap' = [swap EXCEPT ![h] = NoSwap] /\ adrift' = adrift \cup {p}
      /\ UNCHANGED <<plan, slotsHad, menu, costs, past, outdated>>
      BY <1>0 DEF UpdateSlotFails
<1>2. p \in Plans /\ Fine(p) /\ DOMAIN plan = Plans /\ DOMAIN slotsHad = Plans
      BY <1>0, <1>1 DEF PlansInv, Sound, IsSwap
<1>3. Fine(p)'
      <2>1. ~Quiet(p)'
            BY <1>1 DEF Quiet
      <2> QED BY <1>1, <1>2, <2>1, FineUnderWay
<1>4. NoSwap.plan = Nothing /\ swap[h].plan = p
      BY <1>0 DEF NoSwap, Swap
<1>5. adrift' \ {p} = adrift \ {p} /\ adrift \subseteq adrift' /\ UNCHANGED <<menu, costs, past>>
      BY <1>1
<1> QED BY <1>1, <1>2, <1>3, <1>4, <1>5, SwapGoesOn

\* An edit leaves what plans without the recipe are worth.
LEMMA EditKeeps ==
    ASSUME PlansInv, SourcesInv, SourcesInv', PastGrows, NEW n \in DOMAIN Dishes, EditDish(n)
    PROVE  PlansInv'
<1>1. PICK d \in Dishes[n] : menu' = [menu EXCEPT ![n] = d]
      BY DEF EditDish
<1>2. /\ UNCHANGED <<plan, costs, swap, adrift, slotsHad>> /\ menu \in Menus /\ menu' \in Menus
      /\ outdated' = outdated \cup
            {p \in Plans : plan[p] # Nothing /\ \E s \in DOMAIN plan[p].slots :
                              plan[p].slots[s].dish = menu[n].id}
      BY DEF EditDish, SourcesInv, PastInv
<1>3. ASSUME NEW p \in Plans, plan[p] # Nothing, p \notin outdated'
      PROVE  p \notin outdated /\ Worth(plan[p].slots, menu', costs') = Worth(plan[p].slots, menu, costs)
      <2> DEFINE slots == plan[p].slots
                 D == DOMAIN slots
                 f == SlotCosts(slots, menu', costs)
                 w == SlotCosts(slots, menu, costs)
      <2>1. slots \in Seq(MealSlot)
            BY <1>3 DEF PlansInv, Fine, IsPlan
      <2>2. ASSUME NEW s \in D PROVE DishIn(menu', slots[s].dish) = DishIn(menu, slots[s].dish)
            <3> DEFINE id == slots[s].dish
            <3>1. slots[s] \in MealSlot
                  BY <2>1, ElementOfSeq
            <3>2. PICK k \in DOMAIN Dishes : id \in {e.id : e \in Dishes[k]}
                  BY <3>1 DEF MealSlot, DishIds
            <3>3. id # menu[n].id
                  BY <1>2, <1>3
            <3> HIDE DEF id
            <3>4. /\ DishIn(menu, id) = menu[k] /\ menu[k].id = id /\ DishIn(menu', id) = menu'[k]
                  BY <1>2, <3>2, DishIs
            <3>5. menu'[k] = menu[k]
                  <4>1. k # n
                        BY <3>3, <3>4
                  <4>2. DOMAIN menu = DOMAIN Dishes
                        BY <1>2 DEF Menus
                  <4> QED BY <1>1, <4>1, <4>2
            <3> QED BY <3>4, <3>5 DEF id
      <2> HIDE DEF slots
      <2>3. \A s \in D : f[s] = w[s]
            BY <2>2 DEF SlotCosts
      <2>4. IsFiniteSet(D)
            <3>1. D = 1..Len(slots) /\ Len(slots) \in Nat
                  BY <2>1
            <3> QED BY <3>1, FS_Interval
      <2> HIDE DEF f, w, D
      <2>5. Sum(f, D) = Sum(w, D)
            BY <2>3, <2>4, SumSame
      <2>6. Worth(slots, menu', costs) = Worth(slots, menu, costs)
            BY <2>5 DEF Worth, f, w, D
      <2> QED BY <1>2, <1>3, <2>6 DEF slots
<1> QED BY <1>2, <1>3, PlansStay

\* Every step keeps what is known of the plans.
LEMMA PlansStep ==
    MealInv /\ SourcesInv' /\ [MealNext]_<<mealVars, builderVars>> => PlansInv'
<1> SUFFICES ASSUME MealInv, SourcesInv', [MealNext]_<<mealVars, builderVars>> PROVE PlansInv'
    OBVIOUS
<1>1. PlansInv /\ SourcesInv
      BY DEF MealInv
<1>2. PastGrows
      BY <1>1, PastStep DEF SourcesInv
<1>3. ASSUME UNCHANGED <<plan, slotsHad, swap, adrift, outdated, menu, costs>> PROVE PlansInv'
      BY <1>1, <1>2, <1>3, PlansStay
<1>4. ASSUME NEW h \in Handlers, NEW u, NEW body,
             \/ GatherDishes(h, u, body) \/ StartBuilding(h) \/ FinishBuilding(h)
             \/ GenerateFails(h)
      PROVE  PlansInv'
      <2>1. UNCHANGED <<plan, slotsHad, swap, adrift, outdated, menu, costs>>
            BY <1>4 DEF GatherDishes, StartBuilding, FinishBuilding, GenerateFails
      <2> QED BY <1>3, <2>1
<1>5. CASE BuildOn \/ UNCHANGED <<mealVars, builderVars>>
      <2>1. UNCHANGED <<plan, slotsHad, swap, adrift, outdated, menu, costs>>
            BY <1>5 DEF BuildOn, mealVars
      <2> QED BY <1>3, <2>1
<1>6. ASSUME NEW h \in Handlers, NEW u, NEW p \in Plans, NEW s,
             NEW dish \in {0} \cup {menu[n].id : n \in DOMAIN menu}, NEW servings \in {0, 2},
             CheckSlot(h, u, p, s, dish, servings)
      PROVE  PlansInv'
      <2>1. dish \in {0} \cup DishIds /\ servings \in Nat
            <3>1. menu \in Menus
                  BY <1>1 DEF SourcesInv, PastInv
            <3>2. \A n \in DOMAIN menu : menu[n].id \in DishIds
                  BY <3>1, DishAt DEF Menus
            <3> QED BY <3>2
      <2> QED BY <1>1, <1>6, <2>1, CheckKeeps
<1>7. ASSUME NEW h \in Handlers, CreatePlan(h) PROVE PlansInv'
      BY <1>7, CreateKeeps
<1>8. ASSUME NEW h \in Handlers, \/ WriteSlot(h) \/ ReadSlots(h) \/ PriceSlots(h)
                                 \/ WriteEstimate(h) \/ UpdateSlotFails(h)
      PROVE  PlansInv'
      BY <1>1, <1>8, WriteKeeps, ReadSlotsKeeps, PriceSlotsKeeps, EstimateKeeps, FailsKeeps
<1>9. CASE PricesChange
      <2>1. UNCHANGED <<plan, slotsHad, swap, adrift>> /\ outdated' = Plans
            BY <1>9 DEF PricesChange
      <2> QED BY <1>1, <1>2, <2>1, PlansStay
<1>10. ASSUME NEW n \in DOMAIN Dishes, EditDish(n) PROVE PlansInv'
      BY <1>1, <1>2, <1>10, EditKeeps
<1>11. ASSUME NEW u, NEW p \in Plans, RemovePlan(u, p) PROVE PlansInv'
      <2>1. /\ plan' = [plan EXCEPT ![p] = Nothing]
            /\ UNCHANGED <<slotsHad, menu, costs, swap, past, adrift, outdated>>
            BY <1>11 DEF RemovePlan
      <2>2. plan'[p] = Nothing /\ DOMAIN plan' = Plans /\ \A r \in Plans \ {p} : plan'[r] = plan[r]
            BY <1>1, <2>1 DEF PlansInv
      <2>3. DOMAIN slotsHad' = Plans /\ \A r \in Plans : slotsHad'[r] = slotsHad[r]
            BY <1>1, <2>1 DEF PlansInv
      <2>4. Fine(p)'
            BY <2>2 DEF Fine
      <2> QED BY <1>1, <2>1, <2>2, <2>3, <2>4, PlanReplaced
<1> QED BY <1>4, <1>5, <1>6, <1>7, <1>8, <1>9, <1>10, <1>11 DEF MealNext

\* At first there is no plan and none in the making.
LEMMA MealInvInit == MealInit => MealInv
<1> SUFFICES ASSUME MealInit PROVE MealInv
    OBVIOUS
<1>1. BuilderAdds
      <2>1. PlanInv
            BY InitPlanInv DEF MealInit
      <2>2. filled = <<>> /\ spent = 0 /\ DOMAIN filled = {}
            BY DEF MealInit, BuilderInit
      <2>3. Sum(FilledCosts, {}) = 0
            BY SumStep, FS_EmptySet
      <2> QED BY <2>1, <2>2, <2>3 DEF BuilderAdds
<1>2. DOMAIN generating = Handlers /\ \A h \in Handlers : generating[h] = NoPlanning
      BY DEF MealInit
<1>3. PlanningInv
      BY <1>1, <1>2, DroppedIs DEF PlanningInv
<1>4. SourcesInv
      <2>1. /\ costs \in CostTables /\ menu \in Menus
            /\ past = [costs |-> {costs}, menus |-> {menu}]
            BY DEF MealInit
      <2>2. \A h \in Handlers : Sourced(generating[h])
            BY <1>2, DropIsSourced
      <2> QED BY <2>1, <2>2 DEF SourcesInv, PastInv
<1>5. PlansInv
      <2>1. IsSwap(NoSwap) /\ NoSwap.plan = Nothing /\ NoSwap.at = "idle"
            BY DEF IsSwap, NoSwap, Swap
      <2>2. DOMAIN swap = Handlers /\ \A h \in Handlers : swap[h] = NoSwap
            BY DEF MealInit
      <2>3. DOMAIN plan = Plans /\ DOMAIN slotsHad = Plans /\ \A p \in Plans : plan[p] = Nothing
            BY DEF MealInit
      <2>4. \A h \in Handlers : Sound(h)
            BY <2>1, <2>2 DEF Sound, Steady, Knows
      <2>5. \A p \in Plans : Fine(p)
            BY <2>3 DEF Fine
      <2> QED BY <2>2, <2>3, <2>4, <2>5 DEF PlansInv
<1> QED BY <1>3, <1>4, <1>5 DEF MealInv

\* meal-plans.service.ts:303, plan-builder.ts:104 and diet-filter.ts:137: for any
\* recipes, prices, requests and number of changes at once, edits of recipes and
\* moves of prices among them, what is generated fills every meal, obeys the diet
\* and keeps the budget; the estimate of a plan is what slots it has had cost at
\* some time; and where changes neither overlapped nor broke off, what its slots
\* cost, as of the last time that prices or its recipes moved.
THEOREM PlansSound == MealSpec => []PlansAreSound
<1>1. MealInv => PlansAreSound
      <2> SUFFICES ASSUME MealInv PROVE PlansAreSound
          OBVIOUS
      <2>1. /\ past.costs \subseteq CostTables /\ past.menus \subseteq Menus
            /\ costs \in CostTables /\ menu \in Menus
            BY DEF MealInv, SourcesInv, PastInv
      <2>2. ASSUME NEW slots \in Seq(MealSlot), NEW m \in Menus, NEW c \in CostTables
            PROVE  CostOf(slots, m, c) = Worth(slots, m, c)
            BY <2>2, CostOfIs
      <2>3. ASSUME NEW p \in Plans, plan[p] # Nothing
            PROVE  /\ \E past_slots \in slotsHad[p], m \in past.menus, c \in past.costs :
                         /\ plan[p].estimate = CostOf(past_slots, m, c)
                         /\ Quiet(p) => past_slots = plan[p].slots
                   /\ Quiet(p) /\ p \notin outdated =>
                         plan[p].estimate = CostOf(plan[p].slots, menu, costs)
            <3>1. /\ plan[p].slots \in slotsHad[p] /\ plan[p].slots \in Seq(MealSlot)
                  /\ Explained(p)
                  /\ Quiet(p) => WasWorth(plan[p].slots, plan[p].estimate)
                  /\ Quiet(p) /\ p \notin outdated =>
                        plan[p].estimate = Worth(plan[p].slots, menu, costs)
                  BY <2>3 DEF MealInv, PlansInv, Fine, IsPlan
            <3>2. CASE Quiet(p)
                  <4>1. PICK m \in past.menus, c \in past.costs :
                           plan[p].estimate = Worth(plan[p].slots, m, c)
                        BY <3>1, <3>2 DEF WasWorth
                  <4>2. plan[p].estimate = CostOf(plan[p].slots, m, c)
                        BY <2>1, <2>2, <3>1, <4>1
                  <4>3. p \notin outdated => plan[p].estimate = CostOf(plan[p].slots, menu, costs)
                        BY <2>1, <2>2, <3>1, <3>2
                  <4> QED BY <3>1, <4>1, <4>2, <4>3
            <3>3. CASE ~Quiet(p)
                  <4>1. PICK slots \in slotsHad[p] :
                           slots \in Seq(MealSlot) /\ WasWorth(slots, plan[p].estimate)
                        BY <3>1 DEF Explained
                  <4>2. PICK m \in past.menus, c \in past.costs : plan[p].estimate = Worth(slots, m, c)
                        BY <4>1 DEF WasWorth
                  <4>3. plan[p].estimate = CostOf(slots, m, c)
                        BY <2>1, <2>2, <4>1, <4>2
                  <4> QED BY <3>3, <4>1, <4>2, <4>3
            <3> QED BY <3>2, <3>3
      <2>4. EstimateFollowsSlots
            BY <2>3 DEF EstimateFollowsSlots, Quiet
      <2>5. PlanIsAllowed
            <3>1. ASSUME NEW h \in Handlers, generating[h].at = "name"
                  PROVE  LET g == generating[h] IN Len(g.built) = Meals(g) /\ Permitted(g) /\ InBudget(g)
                  BY <3>1 DEF MealInv, PlanningInv, IsPlanning, Built
            <3> QED BY <3>1 DEF PlanIsAllowed, Permitted, InBudget, Meals, Dish
      <2> QED BY <2>4, <2>5 DEF PlansAreSound
<1>2. MealInv /\ [MealNext]_<<mealVars, builderVars>> => MealInv'
      <2>1. MealInv => PlanningInv /\ SourcesInv
            BY DEF MealInv
      <2>2. PlanningInv' /\ SourcesInv' /\ PlansInv' => MealInv'
            BY DEF MealInv
      <2> QED BY <2>1, <2>2, PlanningStep, SourcesStep, PlansStep
<1> QED BY <1>1, <1>2, MealInvInit, PTL DEF MealSpec

-----------------------------------------------------------------------------
\* The summary and its cache.

\* The sum of a part is not more.
LEMMA SumMore ==
    ASSUME NEW f, NEW B, IsFiniteSet(B), NEW A \in SUBSET B, \A x \in B : f[x] \in Nat
    PROVE  Sum(f, A) \in Nat /\ Sum(f, B) \in Nat /\ Sum(f, A) <= Sum(f, B)
<1>1. IsFiniteSet(A) /\ IsFiniteSet(B \ A)
      BY FS_Subset
<1>2. \A x \in B : f[x] \in Int /\ f[x] >= 0
      OBVIOUS
<1>3. /\ Sum(f, A) \in Int /\ Sum(f, A) >= 0
      /\ Sum(f, B \ A) \in Int /\ Sum(f, B \ A) >= 0
      BY <1>1, <1>2, SumType
<1>4. Sum(f, A \cup (B \ A)) = Sum(f, A) + Sum(f, B \ A)
      BY <1>1, <1>2, SumParts
<1>5. A \cup (B \ A) = B
      OBVIOUS
<1>6. Sum(f, B) = Sum(f, A) + Sum(f, B \ A)
      BY <1>4, <1>5
<1> QED BY <1>3, <1>6

\* A trend that stood at a time, or later.
StoodAt(s, trend, t) ==
    \E k \in DOMAIN s : /\ trend = [m \in DOMAIN trend |-> s[k].trend[m]]
                        /\ k < Len(s) => s[k + 1].from >= t

Shows(s, says, t) == says # <<>> => StoodAt(s, says[1].spendTrend, t)

\* What is added later was not there before: what stood at a time still did.
LEMMA StillStood ==
    ASSUME NEW s, s \in Seq(Range(s)), NEW e, NEW c \in Nat, e.from = c,
           NEW t \in 0..c, NEW trend, StoodAt(s, trend, t)
    PROVE  StoodAt(Append(s, e), trend, t)
<1> DEFINE q == Append(s, e)
<1>1. /\ Len(s) \in Nat /\ DOMAIN s = 1..Len(s) /\ DOMAIN q = 1..(Len(s) + 1) /\ Len(q) = Len(s) + 1
      /\ q[Len(s) + 1] = e /\ \A k \in 1..Len(s) : q[k] = s[k]
      <2>1. s \in Seq(Range(s) \cup {e}) /\ e \in Range(s) \cup {e}
            <3>1. Range(s) \subseteq Range(s) \cup {e}
                  OBVIOUS
            <3> QED BY <3>1
      <2> QED BY <2>1
<1>2. PICK k \in DOMAIN s : /\ trend = [m \in DOMAIN trend |-> s[k].trend[m]]
                            /\ k < Len(s) => s[k + 1].from >= t
      BY DEF StoodAt
<1> HIDE DEF q
<1>3. k \in DOMAIN q /\ q[k] = s[k] /\ k \in Nat /\ k <= Len(s)
      BY <1>1, <1>2
<1>4. ASSUME k < Len(q) PROVE q[k + 1].from >= t
      <2>1. CASE k = Len(s)
            <3>1. q[k + 1].from = c
                  BY <1>1, <2>1
            <3> QED BY <3>1
      <2>2. CASE k < Len(s)
            <3>1. k + 1 \in 1..Len(s)
                  BY <1>1, <1>3, <2>2
            <3> QED BY <1>1, <1>2, <2>2, <3>1
      <2> QED BY <1>1, <1>3, <2>1, <2>2
<1>5. StoodAt(q, trend, t)
      BY <1>2, <1>3, <1>4 DEF StoodAt
<1> QED BY <1>5 DEF q

\* Some of the months of a trend.
LEMMA TrendPart ==
    ASSUME NEW b, NEW L \in SUBSET Months
    PROVE  LET trend == SpendTrend(b, L)
           IN trend = [m \in DOMAIN trend |-> SpendTrend(b, Months)[m]]
<1> DEFINE ofMonth(m) == {k \in DOMAIN b : b[k].status = "PURCHASED" /\ MonthOf[b[k].on] = m}
           row(m) == [total |-> SumFunctionOnSet(Cents(b), ofMonth(m)),
                      saved |-> SumFunctionOnSet(Saved(b), ofMonth(m))]
<1>1. SpendTrend(b, L) = [m \in L |-> row(m)] /\ SpendTrend(b, Months) = [m \in Months |-> row(m)]
      BY DEF SpendTrend
<1> HIDE DEF row
<1>2. DOMAIN SpendTrend(b, L) = L /\ \A m \in L : SpendTrend(b, Months)[m] = row(m)
      BY <1>1
<1> QED BY <1>1, <1>2

\* What a request has at hand, and what it was given, is as recent as it may be.
IsReader(r) == r = [now |-> r.now, says |-> r.says, gave |-> r.gave]

GoodReader(r, s, c) ==
    /\ IsReader(r)
    /\ r.now = Never => r.says = <<>>
    /\ r.now # Never => r.now \in 0..c /\ Shows(s, r.says, r.now)
    /\ r.gave # <<>> => \E t \in 0..c : c < t + Ttl /\ Shows(s, r.gave, t)

GoodEntry(e, s, c) == e.at # Never => e.at \in 0..c /\ Shows(s, e.says, e.at)

\* The last trend is the one that stands.
Latest(s, b) ==
    /\ s \in Seq(Range(s)) /\ s # <<>>
    /\ s[Len(s)].trend = SpendTrend(b, Months)
    /\ \A k \in DOMAIN s : s[k].from \in Nat

SummaryInv ==
    /\ clock \in Nat
    /\ Latest(stood, bought)
    /\ GoodEntry(summary, stood, clock)
    /\ DOMAIN reader = Readers /\ \A r \in Readers : GoodReader(reader[r], stood, clock)

LEMMA SummaryStarts == InsightInit => SummaryInv
<1> SUFFICES ASSUME InsightInit PROVE SummaryInv
    OBVIOUS
<1> DEFINE trend == SpendTrend(bought, Months)
           first == [from |-> 0, trend |-> trend]
<1>1. clock = 0 /\ stood = <<first>> /\ summary = NoSummary /\ reader = [r \in Readers |-> NoReader]
      BY DEF InsightInit
<1> HIDE DEF trend
<1>2. first.from = 0 /\ first.trend = trend
      OBVIOUS
<1> HIDE DEF first
<1>3. /\ Len(stood) = 1 /\ stood[1] = first /\ DOMAIN stood = 1..1 /\ stood # <<>>
      /\ stood \in Seq({first}) /\ Range(stood) = {first}
      BY <1>1 DEF Range
<1>4. Latest(stood, bought)
      BY <1>2, <1>3 DEF Latest, trend
<1>5. GoodReader(NoReader, stood, clock)
      BY DEF GoodReader, IsReader, NoReader
<1> QED BY <1>1, <1>4, <1>5 DEF SummaryInv, GoodEntry, NoSummary

\* A trend more leaves what requests and the entry hold as recent as it was.
LEMMA TrendMore ==
    ASSUME NEW s, s \in Seq(Range(s)), NEW e, NEW c \in Nat, e.from = c
    PROVE  /\ \A r : GoodReader(r, s, c) => GoodReader(r, Append(s, e), c)
           /\ \A x : GoodEntry(x, s, c) => GoodEntry(x, Append(s, e), c)
<1>1. \A t \in 0..c : \A says : Shows(s, says, t) => Shows(Append(s, e), says, t)
      BY StillStood DEF Shows
<1>2. ASSUME NEW r, GoodReader(r, s, c) PROVE GoodReader(r, Append(s, e), c)
      BY <1>1, <1>2 DEF GoodReader
<1>3. ASSUME NEW x, GoodEntry(x, s, c) PROVE GoodEntry(x, Append(s, e), c)
      BY <1>1, <1>3 DEF GoodEntry
<1> QED BY <1>2, <1>3

\* With time, what is at hand stays; what was given is looked at no more.
LEMMA TimeMore ==
    ASSUME NEW s, NEW c \in Nat
    PROVE  /\ \A r : GoodReader(r, s, c) => GoodReader([r EXCEPT !.gave = <<>>], s, c + 1)
           /\ \A x : GoodEntry(x, s, c) => GoodEntry(x, s, c + 1)
<1>1. \A t \in 0..c : t \in 0..(c + 1)
      OBVIOUS
<1>2. ASSUME NEW r, GoodReader(r, s, c) PROVE GoodReader([r EXCEPT !.gave = <<>>], s, c + 1)
      <2> DEFINE q == [r EXCEPT !.gave = <<>>]
      <2>1. q = [now |-> r.now, says |-> r.says, gave |-> <<>>]
            BY <1>2 DEF GoodReader, IsReader
      <2>2. IsReader(q) /\ q.now = r.now /\ q.says = r.says /\ q.gave = <<>>
            BY <2>1 DEF IsReader
      <2> HIDE DEF q
      <2>3. GoodReader(q, s, c + 1)
            BY <1>1, <1>2, <2>2 DEF GoodReader
      <2> QED BY <2>3 DEF q
<1>3. ASSUME NEW x, GoodEntry(x, s, c) PROVE GoodEntry(x, s, c + 1)
      BY <1>1, <1>3 DEF GoodEntry
<1> QED BY <1>2, <1>3

LEMMA SummaryStep == SummaryInv /\ [InsightNext]_insightVars => SummaryInv'
<1> SUFFICES ASSUME SummaryInv, [InsightNext]_insightVars PROVE SummaryInv'
    OBVIOUS
<1>1. /\ clock \in Nat /\ Latest(stood, bought)
      /\ GoodEntry(summary, stood, clock)
      /\ DOMAIN reader = Readers /\ \A r \in Readers : GoodReader(reader[r], stood, clock)
      BY DEF SummaryInv
\* One request moves on.
<1>2. ASSUME NEW r \in Readers, NEW q, GoodReader(q, stood, clock), reader' = [reader EXCEPT ![r] = q],
             GoodEntry(summary', stood, clock), UNCHANGED <<clock, bought, stood>>
      PROVE  SummaryInv'
      <2>1. DOMAIN reader' = Readers /\ reader'[r] = q /\ \A p \in Readers \ {r} : reader'[p] = reader[p]
            BY <1>1, <1>2
      <2>2. \A p \in Readers : GoodReader(reader'[p], stood', clock')
            BY <1>1, <1>2, <2>1
      <2>3. Latest(stood', bought')
            BY <1>1, <1>2
      <2> QED BY <1>1, <1>2, <2>1, <2>2, <2>3 DEF SummaryInv
<1>3. GoodReader(NoReader, stood, clock)
      BY DEF GoodReader, IsReader, NoReader
<1>4. ASSUME NEW r \in Readers, AskSummary(r) PROVE SummaryInv'
      <2>1. reader[r].now = Never /\ UNCHANGED <<clock, bought, stood, summary>>
            BY <1>4 DEF AskSummary
      <2>2. CASE Fresh(clock)
            <3> DEFINE q == [NoReader EXCEPT !.gave = summary.says]
            <3>1. reader' = [reader EXCEPT ![r] = q]
                  BY <1>4, <2>2 DEF AskSummary
            <3>2. q = [now |-> Never, says |-> <<>>, gave |-> summary.says]
                  BY DEF NoReader
            <3>3. summary.at # Never /\ clock - summary.at < Ttl
                  BY <2>2 DEF Fresh
            <3>4. summary.at \in 0..clock /\ Shows(stood, summary.says, summary.at)
                  BY <1>1, <3>3 DEF GoodEntry
            <3>5. clock < summary.at + Ttl
                  <4>1. clock \in Nat /\ summary.at \in Nat
                        BY <1>1, <3>4
                  <4>2. Ttl \in Nat
                        BY InsightsAssumption
                  <4> QED BY <3>3, <4>1, <4>2
            <3>6. q.now = Never /\ q.says = <<>> /\ q.gave = summary.says /\ IsReader(q)
                  BY <3>2 DEF IsReader
            <3> HIDE DEF q
            <3>7. GoodReader(q, stood, clock)
                  BY <3>4, <3>5, <3>6 DEF GoodReader
            <3> QED BY <1>1, <1>2, <2>1, <3>1, <3>7
      <2>3. CASE ~Fresh(clock)
            <3> DEFINE q == [NoReader EXCEPT !.now = clock]
            <3>1. reader' = [reader EXCEPT ![r] = q]
                  BY <1>4, <2>3 DEF AskSummary
            <3>2. q = [now |-> clock, says |-> <<>>, gave |-> <<>>]
                  BY DEF NoReader
            <3>3. q.now = clock /\ q.says = <<>> /\ q.gave = <<>> /\ IsReader(q)
                  BY <3>2 DEF IsReader
            <3> HIDE DEF q
            <3>4. clock # Never /\ clock \in 0..clock
                  BY <1>1 DEF Never
            <3>5. GoodReader(q, stood, clock)
                  BY <3>3, <3>4 DEF GoodReader, Shows
            <3> QED BY <1>1, <1>2, <2>1, <3>1, <3>5
      <2> QED BY <2>2, <2>3
<1>5. ASSUME NEW r \in Readers, ComputeSummary(r) PROVE SummaryInv'
      <2>1. /\ reader[r].now # Never /\ reader[r].says = <<>>
            /\ UNCHANGED <<clock, bought, stood, summary>>
            BY <1>5 DEF ComputeSummary
      <2>2. PICK trend : trend = SpendTrend(bought, LastMonths(reader[r].now))
            OBVIOUS
      <2>3. PICK ended \in Spent :
               reader' = [reader EXCEPT ![r].says =
                  <<[spendTrend |-> trend, inflationTrend |-> InflationTrend(history),
                     wasteRate |-> WasteRate(ended)]>>]
            BY <1>5, <2>2 DEF ComputeSummary
      <2> DEFINE says == <<[spendTrend |-> trend, inflationTrend |-> InflationTrend(history),
                            wasteRate |-> WasteRate(ended)]>>
                 q == [reader[r] EXCEPT !.says = says]
      <2>4. says[1].spendTrend = trend
            OBVIOUS
      <2>5. reader' = [reader EXCEPT ![r] = q]
            BY <2>3
      <2> HIDE DEF says
      <2>6. IsReader(reader[r]) /\ GoodReader(reader[r], stood, clock)
            BY <1>1 DEF GoodReader
      <2>7. q = [now |-> reader[r].now, says |-> says, gave |-> reader[r].gave]
            BY <2>6 DEF IsReader
      <2>8. q.now = reader[r].now /\ q.says = says /\ q.gave = reader[r].gave /\ IsReader(q)
            BY <2>7 DEF IsReader
      <2> HIDE DEF q
      <2>9. trend = [m \in DOMAIN trend |-> SpendTrend(bought, Months)[m]]
            <3>1. LastMonths(reader[r].now) \in SUBSET Months
                  BY DEF LastMonths
            <3> QED BY <2>2, <3>1, TrendPart
      <2>10. StoodAt(stood, trend, reader[r].now)
            <3>1. /\ Len(stood) \in DOMAIN stood /\ Len(stood) \in Nat
                  /\ stood[Len(stood)].trend = SpendTrend(bought, Months)
                  BY <1>1 DEF Latest
            <3>2. ~(Len(stood) < Len(stood))
                  BY <3>1
            <3> QED BY <2>9, <3>1, <3>2 DEF StoodAt
      <2>11. Shows(stood, says, reader[r].now)
             BY <2>4, <2>10 DEF Shows
      <2>12. GoodReader(q, stood, clock)
             BY <2>1, <2>6, <2>8, <2>11 DEF GoodReader
      <2> QED BY <1>1, <1>2, <2>1, <2>5, <2>12
<1>6. ASSUME NEW r \in Readers, KeepSummary(r) PROVE SummaryInv'
      <2>1. /\ reader[r].says # <<>> /\ summary' = [at |-> reader[r].now, says |-> reader[r].says]
            /\ reader' = [reader EXCEPT ![r] = NoReader] /\ UNCHANGED <<clock, bought, stood>>
            BY <1>6 DEF KeepSummary, EntryTime
      <2>2. summary'.at = reader[r].now /\ summary'.says = reader[r].says
            BY <2>1
      <2>3. GoodEntry(summary', stood, clock)
            BY <1>1, <2>2 DEF GoodEntry, GoodReader
      <2> QED BY <1>2, <1>3, <2>1, <2>3
<1>7. ASSUME NEW r \in Readers, SummaryFails(r) PROVE SummaryInv'
      <2>1. reader' = [reader EXCEPT ![r] = NoReader] /\ UNCHANGED <<clock, bought, stood, summary>>
            BY <1>7 DEF SummaryFails
      <2> QED BY <1>1, <1>2, <1>3, <2>1
<1>8. ASSUME NEW k, NEW row, Becomes(k, row) PROVE SummaryInv'
      <2>1. PICK e : e = [from |-> clock, trend |-> SpendTrend(bought', Months)]
            OBVIOUS
      <2>2. stood' = Append(stood, e) /\ UNCHANGED <<clock, summary, reader>>
            BY <1>8, <2>1 DEF Becomes
      <2>3. PICK trend : trend = SpendTrend(bought', Months)
            OBVIOUS
      <2>4. e.from = clock /\ e.trend = trend
            BY <2>1, <2>3
      <2>5. stood \in Seq(Range(stood)) /\ \A j \in DOMAIN stood : stood[j].from \in Nat
            BY <1>1 DEF Latest
      <2>6. /\ \A r : GoodReader(r, stood, clock) => GoodReader(r, stood', clock)
            /\ GoodEntry(summary, stood', clock)
            BY <1>1, <2>2, <2>4, <2>5, TrendMore
      <2>7. /\ Len(stood') = Len(stood) + 1 /\ DOMAIN stood' = 1..(Len(stood) + 1)
            /\ stood'[Len(stood) + 1] = e /\ \A j \in 1..Len(stood) : stood'[j] = stood[j]
            /\ Len(stood) \in Nat /\ DOMAIN stood = 1..Len(stood)
            /\ stood' \in Seq(Range(stood) \cup {e})
            <3>1. stood \in Seq(Range(stood) \cup {e}) /\ e \in Range(stood) \cup {e}
                  <4>1. Range(stood) \subseteq Range(stood) \cup {e}
                        OBVIOUS
                  <4> QED BY <2>5, <4>1
            <3> QED BY <2>2, <3>1
      <2>8. stood' \in Seq(Range(stood'))
            <3>1. \A j \in 1..Len(stood') : stood'[j] \in Range(stood')
                  BY <2>7 DEF Range
            <3> QED BY <2>7, <3>1
      <2>9. Latest(stood', bought')
            <3>1. \A j \in DOMAIN stood' : stood'[j].from \in Nat
                  BY <1>1, <2>4, <2>5, <2>7
            <3>2. stood' # <<>> /\ stood'[Len(stood')].trend = trend
                  BY <2>4, <2>7
            <3> QED BY <2>3, <2>8, <3>1, <3>2 DEF Latest
      <2> QED BY <1>1, <2>2, <2>6, <2>9 DEF SummaryInv
<1>9. CASE ClockTicks
      <2>1. /\ clock' = clock + 1 /\ UNCHANGED <<bought, stood, summary>>
            /\ reader' = [r \in Readers |-> [reader[r] EXCEPT !.gave = <<>>]]
            BY <1>9 DEF ClockTicks
      <2>2. \A r \in Readers : GoodReader([reader[r] EXCEPT !.gave = <<>>], stood, clock + 1)
            BY <1>1, TimeMore
      <2>3. GoodEntry(summary, stood, clock + 1)
            BY <1>1, TimeMore
      <2>4. DOMAIN reader' = Readers /\ \A r \in Readers : GoodReader(reader'[r], stood', clock')
            BY <2>1, <2>2
      <2>5. Latest(stood', bought')
            BY <1>1, <2>1
      <2> QED BY <1>1, <2>1, <2>3, <2>4, <2>5 DEF SummaryInv
<1>10. CASE UNCHANGED summaryVars
      <2>1. UNCHANGED <<clock, bought, stood, summary, reader>>
            BY <1>10 DEF summaryVars
      <2>2. Latest(stood', bought')
            BY <1>1, <2>1
      <2> QED BY <1>1, <2>1, <2>2 DEF SummaryInv
<1>11. ForecastNext \/ RecommendRecipes \/ UNCHANGED insightVars => UNCHANGED summaryVars
      BY DEF ForecastNext, ReadPriceHistory, WriteForecast, ForecastBreaksOff, NextPrice, DayPasses,
             RecommendRecipes, insightVars
<1>12. ASSUME NEW k,
              \/ \E b \in Purchases : Buy(k, b)
              \/ \E status \in {"PURCHASED", "ARCHIVED"} : UpdateStatus(k, status)
              \/ DeleteBasket(k)
       PROVE  \E row : Becomes(k, row)
       BY <1>12 DEF Buy, UpdateStatus, DeleteBasket
<1>13. SummaryNext =>
          \/ \E r \in Readers : AskSummary(r) \/ ComputeSummary(r) \/ KeepSummary(r) \/ SummaryFails(r)
          \/ \E k, row : Becomes(k, row)
          \/ ClockTicks
       BY <1>12 DEF SummaryNext
<1> QED BY <1>4, <1>5, <1>6, <1>7, <1>8, <1>9, <1>10, <1>11, <1>13 DEF InsightNext

\* The trend of a summary from the cache is one that stood at some time within
\* the last lifetime of the cache, whichever requests overlap and however long
\* they take, and whatever is bought, archived, marked again and deleted
\* (analytics.service.ts:31).
THEOREM SummariesRecent == InsightSpec => []SummariesAreRecent
<1>1. SummaryInv => SummariesAreRecent
      <2> SUFFICES ASSUME SummaryInv, NEW r \in Readers, reader[r].gave # <<>>
                   PROVE  LET trend == reader[r].gave[1].spendTrend
                          IN \E k \in DOMAIN stood :
                                /\ trend = [m \in DOMAIN trend |-> stood[k].trend[m]]
                                /\ k < Len(stood) => stood[k + 1].from + Ttl > clock
          BY DEF SummariesAreRecent
      <2>1. clock \in Nat /\ Latest(stood, bought) /\ GoodReader(reader[r], stood, clock)
            BY DEF SummaryInv
      <2>2. PICK t \in 0..clock : clock < t + Ttl /\ Shows(stood, reader[r].gave, t)
            BY <2>1 DEF GoodReader
      <2>3. PICK trend : trend = reader[r].gave[1].spendTrend
            OBVIOUS
      <2>4. PICK k \in DOMAIN stood : /\ trend = [m \in DOMAIN trend |-> stood[k].trend[m]]
                                      /\ k < Len(stood) => stood[k + 1].from >= t
            BY <2>2, <2>3 DEF Shows, StoodAt
      <2>5. ASSUME k < Len(stood) PROVE stood[k + 1].from + Ttl > clock
            <3>1. k + 1 \in DOMAIN stood
                  BY <2>1, <2>4, <2>5 DEF Latest
            <3>2. stood[k + 1].from \in Nat /\ stood[k + 1].from >= t
                  BY <2>1, <2>4, <2>5, <3>1 DEF Latest
            <3>3. Ttl \in Nat
                  BY InsightsAssumption
            <3> QED BY <2>1, <2>2, <3>2, <3>3
      <2> QED BY <2>3, <2>4, <2>5
<1> QED BY <1>1, SummaryStarts, SummaryStep, PTL DEF InsightSpec

-----------------------------------------------------------------------------
\* Places in an order.

\* The elements of S that R has before x.
Preceding(S, R, x) == {y \in S : <<y, x>> \in R}

Orders(R, S) ==
    /\ \A x \in S : <<x, x>> \notin R
    /\ \A x, y, z \in S : <<x, y>> \in R /\ <<y, z>> \in R => <<x, z>> \in R
    /\ \A x, y \in S : x = y \/ <<x, y>> \in R \/ <<y, x>> \in R

\* What comes later has more before it.
LEMMA RankIs ==
    ASSUME NEW S, IsFiniteSet(S), NEW R, Orders(R, S), NEW x \in S
    PROVE  /\ Cardinality(Preceding(S, R, x)) \in 0..(Cardinality(S) - 1)
           /\ \A y \in S : <<x, y>> \in R =>
                 Cardinality(Preceding(S, R, x)) < Cardinality(Preceding(S, R, y))
<1>1. \A y \in S : IsFiniteSet(Preceding(S, R, y)) /\ Cardinality(Preceding(S, R, y)) \in Nat
      BY FS_Subset, FS_CardinalityType DEF Preceding
<1>2. Cardinality(Preceding(S, R, x)) <= Cardinality(S) - 1 /\ Cardinality(S) \in Nat
      <2>1. Preceding(S, R, x) \subseteq S \ {x}
            BY DEF Orders, Preceding
      <2>2. IsFiniteSet(S \ {x}) /\ Cardinality(S \ {x}) = Cardinality(S) - 1
            BY FS_RemoveElement
      <2>3. Cardinality(Preceding(S, R, x)) <= Cardinality(S \ {x})
            BY <2>1, <2>2, FS_Subset
      <2> QED BY <2>2, <2>3, FS_CardinalityType
<1>3. ASSUME NEW y \in S, <<x, y>> \in R
      PROVE  Cardinality(Preceding(S, R, x)) < Cardinality(Preceding(S, R, y))
      <2> DEFINE A == Preceding(S, R, x)
                 B == Preceding(S, R, y)
      <2>1. A \subseteq B \ {x} /\ x \in B
            BY <1>3 DEF Orders, Preceding
      <2>2. IsFiniteSet(B) /\ Cardinality(A) \in Nat /\ Cardinality(B) \in Nat
            BY <1>1
      <2> HIDE DEF A, B
      <2>3. IsFiniteSet(B \ {x}) /\ Cardinality(B \ {x}) = Cardinality(B) - 1
            BY <2>1, <2>2, FS_RemoveElement
      <2>4. Cardinality(A) <= Cardinality(B \ {x})
            BY <2>1, <2>3, FS_Subset
      <2>5. Cardinality(A) < Cardinality(B)
            BY <2>2, <2>3, <2>4
      <2> QED BY <2>5 DEF A, B
<1> QED BY <1>1, <1>2, <1>3

\* Some of the elements there are has none of them before it.
LEMMA SomeFirst ==
    ASSUME NEW S, IsFiniteSet(S), NEW R, Orders(R, S), NEW T \in SUBSET S, T # {}
    PROVE  \E x \in T : \A y \in T : y = x \/ <<x, y>> \in R
<1> DEFINE Rank(x) == Cardinality(Preceding(S, R, x))
           Ranks == {Rank(x) : x \in T}
<1>1. Ranks \subseteq Nat /\ Ranks # {}
      <2>1. \A x \in T : Rank(x) \in Nat
            <3> SUFFICES ASSUME NEW x \in T PROVE Rank(x) \in Nat
                OBVIOUS
            <3>1. Cardinality(Preceding(S, R, x)) \in 0..(Cardinality(S) - 1)
                  BY RankIs
            <3> QED BY <3>1, FS_CardinalityType
      <2> QED BY <2>1
<1>2. PICK k \in Ranks : \A j \in Ranks : k <= j
      <2> HIDE DEF Ranks
      <2> QED BY <1>1, LeastNat
<1>3. PICK x \in T : Rank(x) = k
      BY <1>2
<1>4. ASSUME NEW y \in T, y # x, <<x, y>> \notin R PROVE FALSE
      <2>1. <<y, x>> \in R
            BY <1>4 DEF Orders
      <2>2. Rank(y) < Rank(x)
            BY <2>1, RankIs
      <2>3. Rank(y) \in Ranks /\ Rank(x) \in Ranks
            OBVIOUS
      <2>4. Rank(y) \in Nat /\ k \in Nat /\ k <= Rank(y)
            <3> HIDE DEF Rank, Ranks
            <3> QED BY <1>1, <1>2, <2>3
      <2> HIDE DEF Rank
      <2> QED BY <1>3, <2>2, <2>4
<1> QED BY <1>3, <1>4

\* Every place has an element.
LEMMA PlaceTaken ==
    ASSUME NEW S, IsFiniteSet(S), NEW R, Orders(R, S), NEW k \in 1..Cardinality(S)
    PROVE  \E x \in S : Cardinality(Preceding(S, R, x)) = k - 1
<1> DEFINE n == Cardinality(S)
           Rank(x) == Cardinality(Preceding(S, R, x))
           Gaps == {i \in Nat : i < n /\ ~\E x \in S : Rank(x) = i}
<1>1. n \in Nat
      BY FS_CardinalityType
<1>2. Gaps = {}
      <2> SUFFICES ASSUME Gaps # {} PROVE FALSE
          OBVIOUS
      <2>1. PICK i \in Gaps : \A j \in Gaps : i <= j
            <3>1. Gaps \subseteq Nat
                  OBVIOUS
            <3> HIDE DEF Gaps
            <3> QED BY <3>1, LeastNat
      <2>2. i \in Nat /\ i < n /\ \A x \in S : Rank(x) # i
            BY <2>1
      <2>3. \A j \in Nat : j < i => \E x \in S : Rank(x) = j
            BY <1>1, <2>1
      <2> HIDE DEF Gaps
      <2>4. CASE i = 0
            <3>1. S # {}
                  BY <2>2, <2>4, FS_EmptySet
            <3>2. PICK x \in S : \A y \in S : y = x \/ <<x, y>> \in R
                  BY <3>1, SomeFirst
            <3>3. Preceding(S, R, x) = {}
                  BY <3>2 DEF Preceding, Orders
            <3> QED BY <2>2, <2>4, <3>3, FS_EmptySet
      <2>5. CASE i > 0
            <3>1. PICK x \in S : Rank(x) = i - 1
                  BY <2>2, <2>3, <2>5
            <3> DEFINE T == {y \in S : <<x, y>> \in R}
                       A == Preceding(S, R, x)
            <3>2. IsFiniteSet(A) /\ x \notin A
                  BY FS_Subset DEF Preceding, Orders
            <3>3. IsFiniteSet(A \cup {x}) /\ Cardinality(A \cup {x}) = i
                  <4>1. IsFiniteSet(A \cup {x}) /\ Cardinality(A \cup {x}) = Cardinality(A) + 1
                        <5> HIDE DEF A
                        <5> QED BY <3>2, FS_AddElement
                  <4> QED BY <2>2, <3>1, <4>1
            <3>4. T # {}
                  <4> SUFFICES ASSUME T = {} PROVE FALSE
                      OBVIOUS
                  <4>1. S = A \cup {x}
                        BY DEF Preceding, Orders
                  <4> QED BY <2>2, <3>3, <4>1
            <3>5. PICK y \in T : \A z \in T : z = y \/ <<y, z>> \in R
                  <4>1. T \in SUBSET S
                        OBVIOUS
                  <4> HIDE DEF T
                  <4> QED BY <3>4, <4>1, SomeFirst
            <3>6. Preceding(S, R, y) = A \cup {x}
                  BY <3>5 DEF Preceding, Orders
            <3> QED BY <2>2, <3>3, <3>5, <3>6
      <2> QED BY <2>2, <2>4, <2>5
<1>3. k - 1 \in Nat /\ k - 1 < n
      BY <1>1
<1> HIDE DEF n
<1> QED BY <1>2, <1>3

\* One element only.
LEMMA PlaceIs ==
    ASSUME NEW S, IsFiniteSet(S), NEW R, Orders(R, S), NEW x \in S, NEW y \in S,
           Cardinality(Preceding(S, R, x)) = Cardinality(Preceding(S, R, y))
    PROVE  x = y
<1>1. /\ Cardinality(Preceding(S, R, x)) \in Int /\ Cardinality(Preceding(S, R, y)) \in Int
      BY RankIs
<1>2. /\ <<x, y>> \in R => Cardinality(Preceding(S, R, x)) < Cardinality(Preceding(S, R, y))
      /\ <<y, x>> \in R => Cardinality(Preceding(S, R, y)) < Cardinality(Preceding(S, R, x))
      BY RankIs
<1> QED BY <1>1, <1>2 DEF Orders

-----------------------------------------------------------------------------
\* Forecasts.

Quote == [day : Nat, cents : Nat \ {0}, promo : BOOLEAN]

LEMMA HistoryIs ==
    ASSUME NEW h \in Seq(Quote)
    PROVE  /\ IsFiniteSet(DOMAIN h) /\ DOMAIN h = 1..Len(h) /\ Len(h) \in Nat
           /\ Cardinality(DOMAIN h) = Len(h)
           /\ DOMAIN Days(h) = DOMAIN h /\ DOMAIN Cents(h) = DOMAIN h
           /\ \A k \in DOMAIN h : /\ h[k].day \in Nat /\ Days(h)[k] = h[k].day
                                  /\ h[k].cents \in Nat /\ h[k].cents > 0 /\ Cents(h)[k] = h[k].cents
<1>1. DOMAIN h = 1..Len(h) /\ Len(h) \in Nat /\ \A k \in DOMAIN h : h[k] \in Quote
      OBVIOUS
<1>2. IsFiniteSet(DOMAIN h) /\ Cardinality(DOMAIN h) = Len(h)
      <2>1. /\ IsFiniteSet(1..Len(h))
            /\ Cardinality(1..Len(h)) = IF 1 <= Len(h) THEN Len(h) - 1 + 1 ELSE 0
            BY <1>1, FS_Interval
      <2> QED BY <1>1, <2>1
<1>3. \A k \in DOMAIN h : h[k].day \in Nat /\ h[k].cents \in Nat \ {0}
      BY <1>1 DEF Quote
<1> QED BY <1>1, <1>2, <1>3 DEF Days, Cents

\* The k-th of the prices is one of them.
LEMMA SortedIs ==
    ASSUME NEW h \in Seq(Quote), NEW k \in 1..Len(h)
    PROVE  \E j \in DOMAIN h : Sorted(h, k) = h[j].cents
<1> DEFINE S == DOMAIN h
           Lower(i, j) == h[i].cents < h[j].cents \/ (h[i].cents = h[j].cents /\ i < j)
           R == {p \in S \X S : Lower(p[1], p[2])}
           P(q) == /\ Cardinality({j \in DOMAIN h : h[j].cents < q}) < k
                   /\ Cardinality({j \in DOMAIN h : h[j].cents <= q}) >= k
<1>1. IsFiniteSet(S) /\ k \in 1..Cardinality(S) /\ S \subseteq Nat /\ \A j \in S : h[j].cents \in Nat
      BY HistoryIs
<1>2. \A i, j \in S : <<i, j>> \in R <=> Lower(i, j)
      <2> HIDE DEF Lower, S
      <2> QED OBVIOUS
<1> HIDE DEF R
<1>3. Orders(R, S)
      <2>1. \A i \in S : ~Lower(i, i)
            BY <1>1
      <2>2. \A i, j, l \in S : Lower(i, j) /\ Lower(j, l) => Lower(i, l)
            BY <1>1
      <2>3. \A i, j \in S : i = j \/ Lower(i, j) \/ Lower(j, i)
            BY <1>1
      <2> HIDE DEF Lower, S
      <2> QED BY <1>2, <2>1, <2>2, <2>3 DEF Orders
<1>4. PICK x \in S : Cardinality(Preceding(S, R, x)) = k - 1
      <2> HIDE DEF S, R
      <2> QED BY <1>1, <1>3, PlaceTaken
<1> DEFINE p == h[x].cents
           below == {j \in S : h[j].cents < p}
           upto == {j \in S : h[j].cents <= p}
           A == Preceding(S, R, x)
<1>5. below \subseteq A /\ A \cup {x} \subseteq upto /\ x \notin A
      <2>1. \A j \in S : h[j].cents < p => j \in A
            BY <1>1, <1>2, <1>4 DEF Preceding
      <2>2. \A j \in A : j \in S /\ h[j].cents <= p /\ j # x
            BY <1>1, <1>2, <1>4 DEF Preceding
      <2>3. x \in upto
            BY <1>1, <1>4
      <2> QED BY <2>1, <2>2, <2>3
<1>6. IsFiniteSet(A) /\ IsFiniteSet(upto)
      BY <1>1, FS_Subset DEF Preceding
<1>7. IsFiniteSet(A \cup {x}) /\ Cardinality(A \cup {x}) = Cardinality(A) + 1
      <2> HIDE DEF A
      <2> QED BY <1>5, <1>6, FS_AddElement
<1>8. /\ IsFiniteSet(below) /\ Cardinality(below) <= Cardinality(A)
      /\ Cardinality(A \cup {x}) <= Cardinality(upto)
      <2> HIDE DEF A, below, upto
      <2> QED BY <1>5, <1>6, FS_Subset
<1>9. Cardinality(below) \in Nat /\ Cardinality(upto) \in Nat
      BY <1>6, <1>8, FS_CardinalityType
<1>10. Cardinality(below) < k /\ Cardinality(upto) >= k
      <2> HIDE DEF A, below, upto
      <2> QED BY <1>1, <1>4, <1>7, <1>8, <1>9 DEF A
<1>11. P(p) /\ p \in Range(Cents(h))
      <2>1. p \in Range(Cents(h))
            BY <1>4, HistoryIs DEF Range
      <2> QED BY <1>10, <2>1
<1>12. Sorted(h, k) = CHOOSE q \in Range(Cents(h)) : P(q)
      BY DEF Sorted
<1>13. Sorted(h, k) \in Range(Cents(h))
      <2> HIDE DEF P, p
      <2> QED BY <1>11, <1>12
<1> QED BY <1>13, HistoryIs DEF Range

\* The median is halfway between two prices.
LEMMA MedianIs ==
    ASSUME NEW h \in Seq(Quote), h # <<>>
    PROVE  \E i, j \in DOMAIN h : Median2(h) = h[i].cents + h[j].cents
<1> DEFINE mid == Len(h) \div 2
<1>1. Len(h) \in Nat /\ Len(h) > 0
      OBVIOUS
<1>3. Len(h) % 2 = 0 => mid \in 1..Len(h) /\ mid + 1 \in 1..Len(h)
      <2>1. \A n \in Nat \ {0} : n % 2 = 0 => n \div 2 \in 1..n /\ (n \div 2) + 1 \in 1..n
            OBVIOUS
      <2> QED BY <1>1, <2>1
<1>4. mid + 1 \in 1..Len(h)
      <2>1. \A n \in Nat \ {0} : (n \div 2) + 1 \in 1..n
            OBVIOUS
      <2> QED BY <1>1, <2>1
<1> HIDE DEF mid
<1>5. CASE Len(h) % 2 = 0
      <2>1. Median2(h) = Sorted(h, mid) + Sorted(h, mid + 1)
            BY <1>5 DEF Median2, mid
      <2> QED BY <1>3, <1>5, <2>1, SortedIs
<1>6. CASE Len(h) % 2 # 0
      <2>1. Median2(h) = 2 * Sorted(h, mid + 1)
            BY <1>6 DEF Median2, mid
      <2>2. PICK j \in DOMAIN h : Sorted(h, mid + 1) = h[j].cents
            BY <1>4, SortedIs
      <2>3. h[j].cents \in Nat
            BY HistoryIs
      <2>4. Median2(h) = h[j].cents + h[j].cents
            BY <2>1, <2>2, <2>3
      <2> QED BY <2>4
<1> QED BY <1>5, <1>6

\* The squares of the distances from a number, added up.
LEMMA SquareIs == \A x \in Int : x * x \in Int /\ x * x >= 0
OBVIOUS

LEMMA DistanceMore ==
    \A q, l, n, c, a \in Int :
       (a * a + q) - 2 * c * (a + l) + (n + 1) * (c * c) = (q - 2 * c * l + n * (c * c)) + (a - c) * (a - c)
OBVIOUS

LEMMA SpreadMore ==
    \A q, l, n, a \in Int :
       (n + 1) * (a * a + q) - (a + l) * (a + l) = (n * q - l * l) + (q - 2 * a * l + n * (a * a))
OBVIOUS

LEMMA ProductIs == \A x, y \in Int : x * y \in Int
OBVIOUS

\* Numbers are spread by nothing at least.
LEMMA SpreadIs ==
    ASSUME NEW f, NEW g, NEW S, IsFiniteSet(S),
           \A x \in S : f[x] \in Int /\ g[x] = f[x] * f[x]
    PROVE  Cardinality(S) * Sum(g, S) - Sum(f, S) * Sum(f, S) \in Nat
<1> DEFINE Q(T) == Sum(g, T)
           L(T) == Sum(f, T)
           N(T) == Cardinality(T)
           Far(T) == \A c \in Int : Q(T) - 2 * c * L(T) + N(T) * (c * c) >= 0
           Wide(T) == N(T) * Q(T) - L(T) * L(T) >= 0
           Bad == {T \in SUBSET S : ~(Far(T) /\ Wide(T))}
<1>1. \A x \in S : g[x] \in Int
      BY ProductIs
<1>2. ASSUME NEW T \in SUBSET S
      PROVE  IsFiniteSet(T) /\ Q(T) \in Int /\ L(T) \in Int /\ N(T) \in Int
      <2>1. IsFiniteSet(T) /\ N(T) \in Int
            BY FS_Subset, FS_CardinalityType
      <2> QED BY <1>1, <2>1, SumType
<1>3. Bad = {}
      <2> SUFFICES ASSUME Bad # {} PROVE FALSE
          OBVIOUS
      <2>1. PICK T \in Bad : \A U \in Bad : U \subseteq T => U = T
            <3>1. Bad \subseteq SUBSET S
                  OBVIOUS
            <3> HIDE DEF Bad
            <3> QED BY <3>1, LeastSubset
      <2>2. T \in SUBSET S /\ ~(Far(T) /\ Wide(T))
            BY <2>1
      <2>3. CASE T = {}
            <3>1. Q(T) = 0 /\ L(T) = 0 /\ N(T) = 0
                  BY <1>2, <2>2, <2>3, SumStep, FS_EmptySet
            <3>2. \A c \in Int : 0 - 2 * c * 0 + 0 * (c * c) >= 0
                  BY SquareIs
            <3>3. Far(T) /\ Wide(T)
                  <4> HIDE DEF Q, L, N
                  <4> QED BY <3>1, <3>2
            <3> QED BY <2>2, <3>3
      <2>4. CASE T # {}
            <3> DEFINE e == AnyOf(T)
                       U == T \ {e}
            <3>1. e \in T /\ Q(T) = g[e] + Q(U) /\ L(T) = f[e] + L(U)
                  BY <1>2, <2>2, <2>4, SumStep
            <3>2. N(T) = N(U) + 1
                  <4>1. IsFiniteSet(T) /\ e \in T
                        BY <1>2, <2>2, <3>1
                  <4> HIDE DEF e
                  <4>2. Cardinality(T \ {e}) = Cardinality(T) - 1
                        BY <4>1, FS_RemoveElement
                  <4>3. Cardinality(T) \in Nat
                        BY <4>1, FS_CardinalityType
                  <4> QED BY <4>2, <4>3
            <3>3. U \in SUBSET S /\ U \notin Bad
                  BY <2>1, <2>2, <3>1
            <3>4. Far(U) /\ Wide(U)
                  BY <3>3
            <3>5. f[e] \in Int /\ g[e] = f[e] * f[e]
                  BY <2>2, <3>1
            <3>6. Q(U) \in Int /\ L(U) \in Int /\ N(U) \in Int
                  BY <1>2, <3>3
            <3> HIDE DEF e, U, Q, L, N, Bad
            <3>7. ASSUME NEW c \in Int PROVE Q(T) - 2 * c * L(T) + N(T) * (c * c) >= 0
                  <4>1. Q(T) - 2 * c * L(T) + N(T) * (c * c)
                           = (Q(U) - 2 * c * L(U) + N(U) * (c * c)) + (f[e] - c) * (f[e] - c)
                        BY <3>1, <3>2, <3>5, <3>6, DistanceMore
                  <4>2. (f[e] - c) * (f[e] - c) \in Int /\ (f[e] - c) * (f[e] - c) >= 0
                        BY <3>5, SquareIs
                  <4>3. Q(U) - 2 * c * L(U) + N(U) * (c * c) >= 0
                        BY <3>4
                  <4>4. Q(U) - 2 * c * L(U) + N(U) * (c * c) \in Int
                        BY <3>6, ProductIs
                  <4> DEFINE a == Q(U) - 2 * c * L(U) + N(U) * (c * c)
                             b == (f[e] - c) * (f[e] - c)
                  <4>5. a \in Int /\ b \in Int /\ a >= 0 /\ b >= 0
                        BY <4>2, <4>3, <4>4
                  <4>6. Q(T) - 2 * c * L(T) + N(T) * (c * c) = a + b
                        BY <4>1
                  <4> HIDE DEF a, b
                  <4>7. a + b >= 0
                        BY <4>5
                  <4> QED BY <4>6, <4>7
            <3>8. N(T) * Q(T) - L(T) * L(T) >= 0
                  <4>1. N(T) * Q(T) - L(T) * L(T)
                           = (N(U) * Q(U) - L(U) * L(U)) + (Q(U) - 2 * f[e] * L(U) + N(U) * (f[e] * f[e]))
                        <5>1. /\ N(T) = N(U) + 1 /\ Q(T) = f[e] * f[e] + Q(U) /\ L(T) = f[e] + L(U)
                              BY <3>1, <3>2, <3>5
                        <5>2. (N(U) + 1) * (f[e] * f[e] + Q(U)) - (f[e] + L(U)) * (f[e] + L(U))
                                 = (N(U) * Q(U) - L(U) * L(U)) + (Q(U) - 2 * f[e] * L(U) + N(U) * (f[e] * f[e]))
                              <6> DEFINE q == Q(U)
                                         l == L(U)
                                         n == N(U)
                                         a == f[e]
                              <6>1. q \in Int /\ l \in Int /\ n \in Int /\ a \in Int
                                    BY <3>5, <3>6
                              <6> HIDE DEF q, l, n, a
                              <6>2. (n + 1) * (a * a + q) - (a + l) * (a + l) = (n * q - l * l) + (q - 2 * a * l + n * (a * a))
                                    BY <6>1, SpreadMore
                              <6> QED BY <6>2 DEF q, l, n, a
                        <5> QED BY <5>1, <5>2, Zenon
                  <4> DEFINE a == N(U) * Q(U) - L(U) * L(U)
                             b == Q(U) - 2 * f[e] * L(U) + N(U) * (f[e] * f[e])
                  <4>2. a >= 0 /\ b >= 0
                        BY <3>4, <3>5
                  <4>3. a \in Int /\ b \in Int
                        BY <3>5, <3>6, ProductIs
                  <4>4. N(T) * Q(T) - L(T) * L(T) = a + b
                        BY <4>1
                  <4> HIDE DEF a, b
                  <4>5. a + b >= 0
                        BY <4>2, <4>3
                  <4> QED BY <4>4, <4>5
            <3>9. Far(T) /\ Wide(T)
                  BY <3>7, <3>8
            <3> QED BY <2>2, <3>9
      <2> QED BY <2>3, <2>4
<1>4. Wide(S)
      BY <1>3
<1>5. N(S) \in Int /\ Q(S) \in Int /\ L(S) \in Int
      BY <1>2
<1> HIDE DEF N, Q, L
<1>6. N(S) * Q(S) \in Int /\ L(S) * L(S) \in Int
      BY <1>5, ProductIs
<1>7. N(S) * Q(S) - L(S) * L(S) \in Nat
      BY <1>4, <1>6
<1> QED BY <1>7 DEF N, Q, L

\* The covariance of whole numbers is one; with themselves, not negative.
LEMMA CovarianceIs ==
    ASSUME NEW x, NEW y, IsFiniteSet(DOMAIN x), DOMAIN y = DOMAIN x,
           \A k \in DOMAIN x : x[k] \in Int /\ y[k] \in Int
    PROVE  Covariance(x, y) \in Int /\ Covariance(x, x) \in Nat /\ SumFunction(x) \in Int
<1> DEFINE S == DOMAIN x
           xy == [k \in S |-> x[k] * y[k]]
           xx == [k \in S |-> x[k] * x[k]]
<1>1. \A k \in S : xy[k] \in Int /\ xx[k] \in Int /\ xx[k] = x[k] * x[k]
      BY ProductIs
<1>2. DOMAIN xy = S /\ DOMAIN xx = S
      OBVIOUS
<1>3. /\ Covariance(x, y) = Cardinality(S) * SumFunction(xy) - SumFunction(x) * SumFunction(y)
      /\ Covariance(x, x) = Cardinality(S) * SumFunction(xx) - SumFunction(x) * SumFunction(x)
      BY DEF Covariance
<1> HIDE DEF xy, xx
<1>4. /\ SumFunction(xy) = Sum(xy, S) /\ SumFunction(xx) = Sum(xx, S)
      /\ SumFunction(x) = Sum(x, S) /\ SumFunction(y) = Sum(y, S)
      BY <1>2, SumFunctionIs
<1>5. /\ Sum(xy, S) \in Int /\ Sum(x, S) \in Int /\ Sum(y, S) \in Int
      /\ Cardinality(S) \in Int
      BY <1>1, SumType, FS_CardinalityType
<1>6. Cardinality(S) * Sum(xx, S) - Sum(x, S) * Sum(x, S) \in Nat
      BY <1>1, SpreadIs
<1>7. Cardinality(S) * Sum(xy, S) - Sum(x, S) * Sum(y, S) \in Int
      <2>1. Cardinality(S) * Sum(xy, S) \in Int /\ Sum(x, S) * Sum(y, S) \in Int
            BY <1>5, ProductIs
      <2> QED BY <2>1
<1> HIDE DEF S
<1> QED BY <1>3, <1>4, <1>5, <1>6, <1>7

LEMMA DivIs == \A a \in Int, b \in Nat \ {0} : a \div b \in Int /\ (a >= 0 => a \div b >= 0)
OBVIOUS

\* What the regression is made of.
LEMMA RegressionIs ==
    ASSUME NEW h \in Seq(Quote), h # <<>>
    PROVE  /\ Sx(h) \in Int /\ Sy(h) \in Int /\ Slope(h) \in Int
           /\ Spread(h) \in Nat /\ Wobble(h) \in Nat
           /\ \A day \in Int : LineAt(h, day) \in Int
           /\ R2(h) \in Nat
<1>1. /\ IsFiniteSet(DOMAIN Days(h)) /\ DOMAIN Cents(h) = DOMAIN Days(h)
      /\ \A k \in DOMAIN Days(h) : Days(h)[k] \in Int /\ Cents(h)[k] \in Int
      BY HistoryIs
<1>2. /\ Covariance(Days(h), Cents(h)) \in Int /\ Covariance(Days(h), Days(h)) \in Nat
      /\ SumFunction(Days(h)) \in Int
      BY <1>1, CovarianceIs
<1>3. Covariance(Cents(h), Cents(h)) \in Nat /\ SumFunction(Cents(h)) \in Int
      BY <1>1, CovarianceIs
<1>4. /\ Sx(h) \in Int /\ Sy(h) \in Int /\ Slope(h) \in Int
      /\ Spread(h) \in Nat /\ Wobble(h) \in Nat
      BY <1>2, <1>3 DEF Sx, Sy, Slope, Spread, Wobble
<1>5. Len(h) \in Nat \ {0}
      OBVIOUS
<1>6. ASSUME NEW day \in Int PROVE LineAt(h, day) \in Int
      <2> DEFINE n == Len(h)
                 D == Spread(h)
                 a == Sy(h) * D + Slope(h) * (n * day - Sx(h))
      <2>1. CASE D = 0
            <3>1. LineAt(h, day) = (2 * Sy(h) + n) \div (2 * n)
                  BY <2>1 DEF LineAt, RoundDiv
            <3>2. 2 * Sy(h) + n \in Int /\ 2 * n \in Nat \ {0}
                  BY <1>4, <1>5
            <3> QED BY <3>1, <3>2, DivIs
      <2>2. CASE D # 0
            <3>1. LineAt(h, day) = (2 * a + n * D) \div (2 * n * D)
                  BY <2>2 DEF LineAt
            <3>2. a \in Int
                  <4>1. n * day - Sx(h) \in Int /\ Sy(h) * D \in Int
                        BY <1>4, <1>5, ProductIs
                  <4>2. Slope(h) * (n * day - Sx(h)) \in Int
                        BY <1>4, <4>1, ProductIs
                  <4> QED BY <4>1, <4>2
            <3>3. n * D \in Nat \ {0} /\ 2 * n * D \in Nat \ {0}
                  <4>1. \A p, q \in Nat \ {0} : p * q \in Nat \ {0} /\ 2 * p * q \in Nat \ {0}
                        OBVIOUS
                  <4> QED BY <1>4, <1>5, <2>2, <4>1
            <3> HIDE DEF a, n, D
            <3>4. 2 * a + n * D \in Int
                  BY <3>2, <3>3
            <3> QED BY <3>1, <3>3, <3>4, DivIs
      <2> QED BY <2>1, <2>2
<1>7. R2(h) \in Nat
      <2>1. CASE Spread(h) = 0 \/ Wobble(h) = 0
            BY <2>1 DEF R2
      <2>2. CASE Spread(h) # 0 /\ Wobble(h) # 0
            <3>1. R2(h) = (100 * Slope(h) * Slope(h)) \div (Spread(h) * Wobble(h))
                  BY <2>2 DEF R2
            <3>2. Spread(h) * Wobble(h) \in Nat \ {0}
                  <4>1. \A p, q \in Nat \ {0} : p * q \in Nat \ {0}
                        OBVIOUS
                  <4> QED BY <1>4, <2>2, <4>1
            <3>3. 100 * Slope(h) * Slope(h) \in Int /\ 100 * Slope(h) * Slope(h) >= 0
                  <4>1. \A p \in Int : 100 * p * p \in Int /\ 100 * p * p >= 0
                        OBVIOUS
                  <4> QED BY <1>4, <4>1
            <3> DEFINE a == 100 * Slope(h) * Slope(h)
                       b == Spread(h) * Wobble(h)
            <3>4. a \in Int /\ a >= 0 /\ b \in Nat \ {0}
                  BY <3>2, <3>3
            <3> HIDE DEF a, b
            <3>5. a \div b \in Int /\ a \div b >= 0
                  BY <3>4, DivIs
            <3>6. a \div b \in Nat
                  BY <3>5
            <3> QED BY <3>1, <3>6 DEF a, b
      <2> QED BY <2>1, <2>2
<1> QED BY <1>4, <1>6, <1>7

\* The prediction is between half and twice the prices.
LEMMA HalfToTwice ==
    \A p, q \in Nat : \A v \in Int :
       LET c == Clamp(v, RoundDiv(p + q, 4), p + q)
       IN /\ c \in Int
          /\ 2 * c + 1 >= p \/ 2 * c + 1 >= q
          /\ c <= 2 * p \/ c <= 2 * q
<1> SUFFICES ASSUME NEW p \in Nat, NEW q \in Nat, NEW v \in Int
             PROVE  LET c == Clamp(v, RoundDiv(p + q, 4), p + q)
                    IN /\ c \in Int
                       /\ 2 * c + 1 >= p \/ 2 * c + 1 >= q
                       /\ c <= 2 * p \/ c <= 2 * q
    OBVIOUS
<1> DEFINE lo == (2 * (p + q) + 4) \div (2 * 4)
           c == Clamp(v, lo, p + q)
<1>1. lo \in Int /\ 8 * lo <= 2 * (p + q) + 4 /\ 8 * lo + 8 > 2 * (p + q) + 4
      <2>1. \A m \in Nat : m \div (2 * 4) \in Int /\ 8 * (m \div (2 * 4)) <= m /\ 8 * (m \div (2 * 4)) + 8 > m
            OBVIOUS
      <2>2. 2 * (p + q) + 4 \in Nat
            OBVIOUS
      <2> QED BY <2>1, <2>2
<1> HIDE DEF lo
<1>2. c \in Int /\ (c = p + q \/ (c >= lo /\ c <= p + q) \/ c = lo)
      BY <1>1 DEF Clamp
<1> HIDE DEF c
<1>3. lo <= p + q \/ (p = 0 /\ q = 0)
      BY <1>1
<1>4. /\ 2 * c + 1 >= p \/ 2 * c + 1 >= q
      /\ c <= 2 * p \/ c <= 2 * q
      BY <1>1, <1>2, <1>3
<1> QED BY <1>2, <1>4 DEF c, lo, RoundDiv

\* The share of the promotions is one.
LEMMA PromotionsAreSome ==
    ASSUME NEW h \in Seq(Quote), h # <<>>, NEW now
    PROVE  PromoLikelihood(h, now) \in 0..100
<1> DEFINE w == [k \in DOMAIN h |-> IF now - h[k].day <= Recent THEN 2 ELSE 1]
           promos == {k \in DOMAIN h : h[k].promo}
<1>1. DOMAIN w = DOMAIN h /\ \A k \in DOMAIN h : w[k] \in Nat /\ w[k] >= 1
      OBVIOUS
<1>2. PromoLikelihood(h, now) = (100 * SumFunctionOnSet(w, promos)) \div SumFunction(w)
      BY DEF PromoLikelihood
<1>3. IsFiniteSet(DOMAIN h) /\ promos \in SUBSET DOMAIN h /\ IsFiniteSet(promos)
      BY HistoryIs, FS_Subset
<1>4. 1 \in DOMAIN h
      <2>1. Len(h) \in Nat /\ Len(h) > 0 /\ DOMAIN h = 1..Len(h)
            OBVIOUS
      <2> QED BY <2>1
<1> HIDE DEF w, promos
<1>5. SumFunctionOnSet(w, promos) = Sum(w, promos) /\ SumFunction(w) = Sum(w, DOMAIN h)
      BY <1>1, <1>3, SumOnSetIs, SumFunctionIs
<1>6. Sum(w, promos) \in Nat /\ Sum(w, DOMAIN h) \in Nat /\ Sum(w, promos) <= Sum(w, DOMAIN h)
      BY <1>1, <1>3, SumMore
<1>7. Sum(w, DOMAIN h) > 0
      <2>1. Sum(w, DOMAIN h) = w[1] + Sum(w, DOMAIN h \ {1})
            BY <1>1, <1>3, <1>4, SumTakes
      <2>2. Sum(w, DOMAIN h \ {1}) \in Nat
            BY <1>1, <1>3, SumMore
      <2> QED BY <1>1, <1>4, <2>1, <2>2
<1>8. \A a, b \in Nat : a <= b /\ b > 0 => (100 * a) \div b \in 0..100
      <2> SUFFICES ASSUME NEW a \in Nat, NEW b \in Nat, a <= b, b > 0 PROVE (100 * a) \div b \in 0..100
          OBVIOUS
      <2> DEFINE d == (100 * a) \div b
      <2>1. d \in Int /\ d >= 0 /\ b * d <= 100 * a
            <3>1. \A m \in Nat : m \div b \in Int /\ m \div b >= 0 /\ b * (m \div b) <= m
                  OBVIOUS
            <3>2. 100 * a \in Nat
                  OBVIOUS
            <3> QED BY <3>1, <3>2
      <2> HIDE DEF d
      <2>2. d <= 100
            <3> SUFFICES ASSUME d >= 101 PROVE FALSE
                BY <2>1
            <3>1. b * d >= b * 101
                  BY <2>1
            <3>2. b * d \in Int
                  BY <2>1, ProductIs
            <3> QED BY <2>1, <3>1, <3>2
      <2> QED BY <2>1, <2>2 DEF d
<1> QED BY <1>2, <1>5, <1>6, <1>7, <1>8

LEMMA ConfidenceIs ==
    ASSUME NEW h \in Seq(Quote), h # <<>>
    PROVE  Confidence(h) \in 30..90
<1> DEFINE r == (40 * R2(h)) \div 100
           n == Len(h)
<1>1. r \in Nat
      <2>1. \A m \in Nat : (40 * m) \div 100 \in Nat
            OBVIOUS
      <2> QED BY <2>1, RegressionIs
<1>2. n \in Nat
      OBVIOUS
<1>3. Confidence(h) = IF 30 + n + r > 90 THEN 90 ELSE 30 + n + r
      BY DEF Confidence
<1> HIDE DEF r, n
<1>4. CASE 30 + n + r > 90
      BY <1>3, <1>4
<1>5. CASE ~(30 + n + r > 90)
      <2>1. Confidence(h) = 30 + n + r
            BY <1>3, <1>5
      <2>2. 30 + n + r \in 30..90
            BY <1>1, <1>2, <1>5
      <2> QED BY <2>1, <2>2
<1> QED BY <1>4, <1>5

\* A row's direction is that of its price.
LEMMA DirectionIs ==
    \A cur \in Nat, new \in Int : cur > 0 =>
       /\ PriceDirection(cur, new) = "UP" => new > cur
       /\ PriceDirection(cur, new) = "DOWN" => new < cur
       /\ PriceDirection(cur, new) = "STABLE" => 50 * AbsDiff(new, cur) <= cur
<1> SUFFICES ASSUME NEW cur \in Nat, NEW new \in Int, cur > 0
             PROVE  /\ PriceDirection(cur, new) = "UP" => new > cur
                    /\ PriceDirection(cur, new) = "DOWN" => new < cur
                    /\ PriceDirection(cur, new) = "STABLE" => 50 * AbsDiff(new, cur) <= cur
    OBVIOUS
<1>1. CASE 50 * AbsDiff(new, cur) <= cur
      BY <1>1 DEF PriceDirection
<1>2. CASE ~(50 * AbsDiff(new, cur) <= cur) /\ 50 * (new - cur) > cur
      <2>1. PriceDirection(cur, new) = "UP"
            BY <1>2 DEF PriceDirection
      <2> QED BY <1>2, <2>1
<1>3. CASE ~(50 * AbsDiff(new, cur) <= cur) /\ ~(50 * (new - cur) > cur)
      <2>1. PriceDirection(cur, new) = "DOWN"
            BY <1>3 DEF PriceDirection
      <2>2. new < cur
            BY <1>3 DEF AbsDiff
      <2> QED BY <2>1, <2>2
<1> QED BY <1>1, <1>2, <1>3

\* The last price of a day closes it.
LEMMA ClosingIs ==
    ASSUME NEW h \in Seq(Quote), h # <<>>
    PROVE  Closing(h)[h[Len(h)].day] = h[Len(h)].cents
<1> DEFINE n == Len(h)
           d == h[n].day
           P(k) == h[k].day = d /\ \A j \in DOMAIN h : h[j].day = d => j <= k
<1>1. n \in DOMAIN h /\ DOMAIN h = 1..n /\ n \in Nat
      OBVIOUS
<1>2. Closing(h)[d] = h[CHOOSE k \in DOMAIN h : P(k)].cents
      BY <1>1 DEF Closing
<1>3. P(n)
      BY <1>1
<1>4. \A k \in DOMAIN h : P(k) => k = n
      BY <1>1, <1>3
<1>5. (CHOOSE k \in DOMAIN h : P(k)) = n
      <2> HIDE DEF P, n
      <2> QED BY <1>1, <1>3, <1>4
<1> QED BY <1>2, <1>5

\* What a row says of the prices it was made from.
GoodRow(f) ==
    LET last == f.from[Len(f.from)]
        prices == {f.from[k].cents : k \in DOMAIN f.from}
    IN /\ \E p \in prices : 2 * f.cents + 1 >= p
       /\ \E p \in prices : f.cents <= 2 * p
       /\ f.direction = "UP" => f.cents > last.cents
       /\ f.direction = "DOWN" => f.cents < last.cents
       /\ f.direction = "STABLE" => 50 * AbsDiff(f.cents, last.cents) <= last.cents
       /\ f.confidence \in 30..90 /\ f.promoLikelihood \in 0..100
       /\ Closing(f.from)[last.day] = last.cents

LEMMA PredictIs ==
    ASSUME NEW h \in Seq(Quote), h # <<>>, NEW d \in Nat, NEW now, NEW upto
    PROVE  LET f == Predict(h, d, now, upto) IN f.from = h /\ f.upto = upto /\ GoodRow(f)
<1> DEFINE last == h[Len(h)]
           v == LineAt(h, last.day + d)
           c == Clamp(v, Lo(h), Hi(h))
           f == Predict(h, d, now, upto)
<1>1. /\ f.cents = c /\ f.direction = PriceDirection(last.cents, c) /\ f.from = h
      /\ f.upto = upto /\ f.confidence = Confidence(h) /\ f.promoLikelihood = PromoLikelihood(h, now)
      BY DEF Predict
<1>2. Len(h) \in DOMAIN h /\ last.day \in Nat /\ last.cents \in Nat /\ last.cents > 0
      <2>1. Len(h) \in DOMAIN h
            OBVIOUS
      <2> QED BY <2>1, HistoryIs
<1>3. v \in Int
      <2>1. last.day + d \in Int
            BY <1>2
      <2> HIDE DEF last
      <2> QED BY <2>1, RegressionIs
<1>4. PICK i \in DOMAIN h, j \in DOMAIN h : Median2(h) = h[i].cents + h[j].cents
      BY MedianIs
<1>5. h[i].cents \in Nat /\ h[j].cents \in Nat
      BY HistoryIs
<1>6. c = Clamp(v, RoundDiv(h[i].cents + h[j].cents, 4), h[i].cents + h[j].cents)
      BY <1>4 DEF Lo, Hi
<1> HIDE DEF c, v, f, last
<1>7. /\ c \in Int
      /\ 2 * c + 1 >= h[i].cents \/ 2 * c + 1 >= h[j].cents
      /\ c <= 2 * h[i].cents \/ c <= 2 * h[j].cents
      BY <1>3, <1>5, <1>6, HalfToTwice
<1>8. /\ PriceDirection(last.cents, c) = "UP" => c > last.cents
      /\ PriceDirection(last.cents, c) = "DOWN" => c < last.cents
      /\ PriceDirection(last.cents, c) = "STABLE" => 50 * AbsDiff(c, last.cents) <= last.cents
      BY <1>2, <1>7, DirectionIs
<1>9. Confidence(h) \in 30..90 /\ PromoLikelihood(h, now) \in 0..100
      BY ConfidenceIs, PromotionsAreSome
<1>10. Closing(h)[last.day] = last.cents
      BY ClosingIs DEF last
<1>11. last = f.from[Len(f.from)]
      BY <1>1 DEF last
<1>12. /\ \E p \in {h[k].cents : k \in DOMAIN h} : 2 * c + 1 >= p
       /\ \E p \in {h[k].cents : k \in DOMAIN h} : c <= 2 * p
      BY <1>4, <1>7
<1>13. GoodRow(f)
      BY <1>1, <1>8, <1>9, <1>10, <1>11, <1>12 DEF GoodRow
<1> QED BY <1>1, <1>13 DEF f

\* Prices the product had one after the other.
PartOf(from, upto, h) == upto \in 0..Len(h) /\ \E first \in 1..upto : from = SubSeq(h, first, upto)

\* A price more leaves them where they were.
LEMMA PartGrows ==
    ASSUME NEW g \in Seq(Quote), NEW h \in Seq(Quote), Len(h) = Len(g) + 1, SubSeq(h, 1, Len(g)) = g,
           NEW from, NEW upto, PartOf(from, upto, g)
    PROVE  PartOf(from, upto, h)
<1>1. Len(g) \in Nat /\ Len(h) \in Nat /\ upto \in 0..Len(g) /\ upto \in 0..Len(h)
      BY DEF PartOf
<1>2. \A k \in 1..Len(g) : g[k] = h[k]
      <2>1. \A k \in 1..Len(g) : SubSeq(h, 1, Len(g))[k] = h[k]
            BY <1>1
      <2> QED BY <2>1
<1>3. PICK first \in 1..upto : from = SubSeq(g, first, upto)
      BY DEF PartOf
<1> DEFINE a == SubSeq(g, first, upto)
           b == SubSeq(h, first, upto)
<1>4. /\ a \in Seq(Quote) /\ Len(a) = upto - first + 1
      /\ \A k \in 1..(upto - first + 1) : a[k] = g[first + k - 1]
      BY <1>1, <1>3
<1>5. /\ b \in Seq(Quote) /\ Len(b) = upto - first + 1
      /\ \A k \in 1..(upto - first + 1) : b[k] = h[first + k - 1]
      BY <1>1, <1>3
<1>6. \A k \in 1..(upto - first + 1) : a[k] = b[k]
      <2>1. \A k \in 1..(upto - first + 1) : first + k - 1 \in 1..Len(g)
            BY <1>1, <1>3
      <2> HIDE DEF a, b
      <2> QED BY <1>2, <1>4, <1>5, <2>1
<1> HIDE DEF a, b
<1>7. a = b
      BY <1>4, <1>5, <1>6
<1> QED BY <1>1, <1>3, <1>7 DEF PartOf, a, b

\* The last prices are enough of them.
LEMMA SinceIs ==
    ASSUME NEW h \in Seq(Quote), NEW now, Len(Since(h, now)) >= MinPoints
    PROVE  Since(h, now) \in Seq(Quote) /\ Since(h, now) # <<>> /\ PartOf(Since(h, now), Len(h), h)
<1> DEFINE old == {k \in DOMAIN h : h[k].day + HistoryDays < now}
           first == 1 + Cardinality(old)
           s == SubSeq(h, first, Len(h))
<1>1. Since(h, now) = s
      BY DEF Since
<1>2. first \in Nat /\ first >= 1
      <2>1. IsFiniteSet(old)
            BY HistoryIs, FS_Subset
      <2> HIDE DEF old
      <2> QED BY <2>1, FS_CardinalityType
<1> HIDE DEF first
<1>3. Len(h) \in Nat /\ s \in Seq(Quote)
      <2>1. Len(h) \in Nat
            OBVIOUS
      <2>2. \A k \in first..Len(h) : h[k] \in Quote
            BY <1>2, <2>1
      <2> QED BY <1>2, <2>1, <2>2
<1>4. MinPoints \in Nat \ {0} /\ Len(s) >= MinPoints
      BY <1>1, InsightsAssumption
<1>5. first <= Len(h)
      <2> SUFFICES ASSUME first > Len(h) PROVE FALSE
          BY <1>2, <1>3
      <2>1. Len(s) = 0
            BY <1>2, <1>3
      <2> QED BY <1>4, <2>1
<1>6. s # <<>>
      <2> HIDE DEF s
      <2>1. Len(<<>>) = 0
            OBVIOUS
      <2> QED BY <1>3, <1>4, <2>1
<1>7. first \in 1..Len(h) /\ Len(h) \in 0..Len(h)
      BY <1>2, <1>3, <1>5
<1> QED BY <1>1, <1>3, <1>6, <1>7 DEF PartOf

\* A row is of prices the product had, and so are those that are being written.
RowOK(f, h) ==
    f.upto \in 0..Len(h) /\ (f.from # <<>> => PartOf(f.from, f.upto, h) /\ GoodRow(f))

RunOK(F, h) ==
    /\ F = [left |-> F.left, from |-> F.from, upto |-> F.upto, on |-> F.on]
    /\ F.left \subseteq Horizons
    /\ F.left # {} => F.from \in Seq(Quote) /\ F.from # <<>> /\ PartOf(F.from, F.upto, h)

\* No row is newer than the prices a run has read, and it has written the rows
\* of the nearer horizons.
WrittenBy(rows, F) ==
    /\ \A d \in Horizons : rows[d].upto <= F.upto
    /\ \A d \in Horizons \ F.left : rows[d].upto = F.upto /\ \A e \in F.left : d < e

InOrder(rows) == \A d, e \in Horizons : e < d => rows[e].upto >= rows[d].upto

\* A run that is alone has the rows to itself; where none overlapped, every run
\* is, and the rows are in order.
Unmixed(runs, rows, own, mixed) ==
    /\ \A f \in Forecasters : runs[f].left # {} /\ f \in own =>
          /\ \A g \in Forecasters \ {f} : runs[g].left = {}
          /\ WrittenBy(rows, runs[f])
    /\ ~mixed => InOrder(rows) /\ \A f \in Forecasters : runs[f].left # {} => f \in own

ForecastInv ==
    /\ history \in Histories
    /\ DOMAIN forecast = Horizons /\ \A d \in Horizons : RowOK(forecast[d], history)
    /\ DOMAIN forecasting = Forecasters /\ \A f \in Forecasters : RunOK(forecasting[f], history)
    /\ Unmixed(forecasting, forecast, alone, overlapped)

LEMMA HistoryGood == \A h \in Histories : h \in Seq(Quote)
BY HistoriesAssumption DEF Quote

LEMMA ForecastStarts == InsightInit => ForecastInv
<1> SUFFICES ASSUME InsightInit PROVE ForecastInv
    OBVIOUS
<1>1. /\ history \in Histories /\ forecast = [d \in Horizons |-> NotForecast]
      /\ forecasting = [f \in Forecasters |-> NotForecasting] /\ alone = {}
      BY DEF InsightInit
<1>2. NotForecast.from = <<>> /\ NotForecast.upto = 0
      BY DEF NotForecast
<1>3. Len(history) \in Nat
      BY <1>1, HistoryGood
<1>4. RowOK(NotForecast, history)
      BY <1>2, <1>3 DEF RowOK
<1>5. NotForecasting.left = {} /\ RunOK(NotForecasting, history)
      BY DEF NotForecasting, RunOK
<1>6. /\ \A d \in Horizons : forecast[d].upto = 0
      /\ \A f \in Forecasters : forecasting[f].left = {}
      BY <1>1, <1>2, <1>5
<1>7. Unmixed(forecasting, forecast, alone, overlapped)
      BY <1>6 DEF Unmixed, InOrder
<1>8. \A d \in Horizons : forecast[d] = NotForecast
      BY <1>1
<1>9. \A f \in Forecasters : forecasting[f] = NotForecasting
      BY <1>1
<1> QED BY <1>1, <1>4, <1>5, <1>7, <1>8, <1>9 DEF ForecastInv

LEMMA ForecastStep == ForecastInv /\ [InsightNext]_insightVars => ForecastInv'
<1> SUFFICES ASSUME ForecastInv, [InsightNext]_insightVars PROVE ForecastInv'
    OBVIOUS
<1>1. /\ history \in Histories /\ history \in Seq(Quote) /\ Len(history) \in Nat
      /\ DOMAIN forecast = Horizons /\ \A d \in Horizons : RowOK(forecast[d], history)
      /\ DOMAIN forecasting = Forecasters /\ \A f \in Forecasters : RunOK(forecasting[f], history)
      /\ Unmixed(forecasting, forecast, alone, overlapped)
      <2>1. history \in Histories
            BY DEF ForecastInv
      <2>2. history \in Seq(Quote)
            BY <2>1, HistoryGood
      <2>3. Len(history) \in Nat
            BY <2>2
      <2> QED BY <2>1, <2>2, <2>3 DEF ForecastInv
<1>2. ASSUME NEW f \in Forecasters, ReadPriceHistory(f) PROVE ForecastInv'
      <2>1. PICK from : from = Since(history, today)
            OBVIOUS
      <2>2. PICK F : F = [left |-> Horizons, from |-> from, upto |-> Len(history), on |-> today]
            OBVIOUS
      <2>3. PICK quiet \in BOOLEAN : quiet <=> \A g \in Forecasters : forecasting[g].left = {}
            OBVIOUS
      <2>4. /\ forecasting' = [forecasting EXCEPT ![f] = F] /\ Len(from) >= MinPoints
            /\ UNCHANGED <<history, forecast>>
            BY <1>2, <2>1, <2>2 DEF ReadPriceHistory
      <2>5. /\ alone' = (IF quiet THEN {f} ELSE {})
            /\ overlapped' <=> (overlapped \/ ~quiet)
            BY <1>2, <2>3 DEF ReadPriceHistory
      <2>6. /\ F.left = Horizons /\ F.from = from /\ F.upto = Len(history)
            /\ F = [left |-> F.left, from |-> F.from, upto |-> F.upto, on |-> F.on]
            BY <2>2
      <2>7. from \in Seq(Quote) /\ from # <<>> /\ PartOf(from, Len(history), history)
            BY <1>1, <2>1, <2>4, SinceIs
      <2>8. RunOK(F, history)
            BY <2>6, <2>7 DEF RunOK
      <2>9. /\ DOMAIN forecasting' = Forecasters /\ forecasting'[f] = F
            /\ \A g \in Forecasters \ {f} : forecasting'[g] = forecasting[g]
            BY <1>1, <2>4
      <2>10. \A g \in Forecasters : RunOK(forecasting'[g], history')
             BY <1>1, <2>4, <2>8, <2>9
      <2>11. WrittenBy(forecast', F)
             BY <1>1, <2>4, <2>6 DEF WrittenBy, RowOK
      <2>12. Unmixed(forecasting', forecast', alone', overlapped')
             <3>1. CASE quiet
                   <4>1. \A g \in Forecasters \ {f} : forecasting'[g].left = {}
                         BY <2>3, <2>9, <3>1
                   <4>2. alone' = {f} /\ (overlapped' <=> overlapped)
                         BY <2>5, <3>1
                   <4> QED BY <1>1, <2>4, <2>9, <2>11, <4>1, <4>2 DEF Unmixed
             <3>2. CASE ~quiet
                   <4>1. alone' = {} /\ overlapped'
                         BY <2>5, <3>2
                   <4> QED BY <4>1 DEF Unmixed
             <3> QED BY <3>1, <3>2
      <2>13. \A d \in Horizons : RowOK(forecast'[d], history')
             BY <1>1, <2>4
      <2> QED BY <1>1, <2>4, <2>9, <2>10, <2>12, <2>13 DEF ForecastInv
<1>3. ASSUME NEW f \in Forecasters, WriteForecast(f) PROVE ForecastInv'
      <2>1. PICK F : F = forecasting[f]
            OBVIOUS
      <2>2. PICK d : d = CHOOSE x \in F.left : \A y \in F.left : x <= y
            OBVIOUS
      <2>3. PICK row : row = Predict(F.from, d, F.on, F.upto)
            OBVIOUS
      <2>4. /\ F.left # {} /\ forecast' = [forecast EXCEPT ![d] = row]
            /\ forecasting' = [forecasting EXCEPT ![f].left = @ \ {d}]
            /\ history' = history /\ alone' = alone
            /\ overlapped' <=> (overlapped /\ ~(f \in alone /\ F.left = {d}))
            BY <1>3, <2>1, <2>2, <2>3 DEF WriteForecast
      <2>5. /\ RunOK(F, history) /\ F.left \subseteq Horizons /\ F.from \in Seq(Quote) /\ F.from # <<>>
            /\ PartOf(F.from, F.upto, history)
            /\ F = [left |-> F.left, from |-> F.from, upto |-> F.upto, on |-> F.on]
            BY <1>1, <2>1, <2>4 DEF RunOK
      <2>6. d \in F.left /\ \A y \in F.left : d <= y
            <3>1. F.left \subseteq Nat
                  BY <2>5, InsightsAssumption
            <3>2. \E x \in F.left : \A y \in F.left : x <= y
                  BY <2>4, <3>1, LeastNat
            <3> QED BY <2>2, <3>2
      <2>7. d \in Horizons /\ d \in Nat /\ Horizons \subseteq Nat
            BY <2>5, <2>6, InsightsAssumption
      <2>8. row.from = F.from /\ row.upto = F.upto /\ GoodRow(row)
            BY <2>3, <2>5, <2>7, PredictIs
      <2>9. RowOK(row, history) /\ F.upto \in Nat
            <3>1. F.upto \in 0..Len(history)
                  BY <2>5 DEF PartOf
            <3>2. F.upto \in Nat
                  BY <1>1, <3>1
            <3>3. PartOf(row.from, row.upto, history) /\ row.upto \in 0..Len(history)
                  BY <2>5, <2>8, <3>1
            <3> QED BY <2>8, <3>2, <3>3 DEF RowOK
      <2>10. /\ DOMAIN forecast' = Horizons /\ forecast'[d] = row
             /\ \A e \in Horizons \ {d} : forecast'[e] = forecast[e]
             BY <1>1, <2>4, <2>7
      <2>11. PICK G : G = [left |-> F.left \ {d}, from |-> F.from, upto |-> F.upto, on |-> F.on]
             OBVIOUS
      <2>12. /\ G.left = F.left \ {d} /\ G.from = F.from /\ G.upto = F.upto
             /\ G = [left |-> G.left, from |-> G.from, upto |-> G.upto, on |-> G.on]
             BY <2>11
      <2>13. RunOK(G, history)
             BY <2>5, <2>12 DEF RunOK
      <2>14. /\ DOMAIN forecasting' = Forecasters /\ forecasting'[f] = G
             /\ \A g \in Forecasters \ {f} : forecasting'[g] = forecasting[g]
             <3>1. [F EXCEPT !.left = @ \ {d}] = G
                   <4>1. PICK l, p, u, o : F = [left |-> l, from |-> p, upto |-> u, on |-> o]
                         BY <2>5
                   <4>2. F.left = l /\ F.from = p /\ F.upto = u /\ F.on = o
                         BY <4>1
                   <4>3. [F EXCEPT !.left = @ \ {d}] = [left |-> l \ {d}, from |-> p, upto |-> u, on |-> o]
                         BY <4>1
                   <4>4. G = [left |-> l \ {d}, from |-> p, upto |-> u, on |-> o]
                         BY <2>11, <4>2
                   <4> QED BY <4>3, <4>4
             <3>2. forecasting' = [forecasting EXCEPT ![f] = G]
                   BY <2>1, <2>4, <3>1
             <3> QED BY <1>1, <3>2
      <2>15. \A g \in Forecasters : RunOK(forecasting'[g], history')
             BY <1>1, <2>4, <2>13, <2>14
      <2>16. \A e \in Horizons : RowOK(forecast'[e], history')
             BY <1>1, <2>4, <2>9, <2>10
      <2>17. \A e \in Horizons : forecast[e].upto \in Nat /\ forecast'[e].upto \in Nat
             BY <1>1, <2>4, <2>16 DEF RowOK
      \* A run that has the rows to itself.
      <2>18. ASSUME f \in alone
             PROVE  /\ \A g \in Forecasters \ {f} : forecasting'[g].left = {}
                    /\ WrittenBy(forecast, F) /\ WrittenBy(forecast', G)
             <3>1. WrittenBy(forecast, F) /\ \A g \in Forecasters \ {f} : forecasting[g].left = {}
                   BY <1>1, <2>1, <2>4, <2>18 DEF Unmixed
             <3>2. \A e \in Horizons : forecast'[e].upto <= G.upto
                   BY <2>8, <2>9, <2>10, <2>12, <3>1 DEF WrittenBy
             <3>3. ASSUME NEW e \in Horizons \ G.left
                   PROVE  forecast'[e].upto = G.upto /\ \A g \in G.left : e < g
                   <4>1. CASE e = d
                         <5>1. \A g \in G.left : g \in Nat /\ d <= g /\ g # d
                               BY <2>5, <2>6, <2>7, <2>12
                         <5> QED BY <2>7, <2>8, <2>10, <2>12, <4>1, <5>1
                   <4>2. CASE e # d
                         <5>1. e \in Horizons \ F.left
                               BY <2>12, <3>3, <4>2
                         <5> QED BY <2>10, <2>12, <3>1, <4>2, <5>1 DEF WrittenBy
                   <4> QED BY <4>1, <4>2
             <3>4. WrittenBy(forecast', G)
                   BY <3>2, <3>3 DEF WrittenBy
             <3> QED BY <2>14, <3>1, <3>4
      <2>19. ASSUME ~overlapped' PROVE f \in alone /\ InOrder(forecast')
             <3>1. f \in alone
                   BY <1>1, <2>1, <2>4, <2>19 DEF Unmixed
             <3>2. WrittenBy(forecast', G)
                   BY <2>18, <3>1
             <3>3. ASSUME NEW e \in Horizons, NEW g \in Horizons, e < g
                   PROVE  forecast'[e].upto >= forecast'[g].upto
                   <4>1. CASE e \notin G.left
                         <5>1. forecast'[e].upto = G.upto /\ forecast'[g].upto <= G.upto
                               BY <3>2, <4>1 DEF WrittenBy
                         <5> QED BY <2>17, <5>1
                   <4>2. CASE e \in G.left
                         <5>1. e \in F.left /\ e # d /\ d < e
                               BY <2>5, <2>6, <2>7, <2>12, <4>2
                         <5>2. g # d /\ ~overlapped
                               BY <2>4, <2>7, <2>19, <3>3, <5>1
                         <5>3. forecast[e].upto >= forecast[g].upto
                               BY <1>1, <3>3, <5>2 DEF Unmixed, InOrder
                         <5> QED BY <2>10, <5>1, <5>2, <5>3
                   <4> QED BY <4>1, <4>2
             <3> QED BY <3>1, <3>3 DEF InOrder
      <2>20. ASSUME NEW g \in Forecasters, forecasting'[g].left # {}, g \in alone, g # f PROVE FALSE
             <3>1. forecasting[g].left # {}
                   BY <2>14, <2>20
             <3>2. forecasting[f].left = {}
                   BY <1>1, <2>20, <3>1 DEF Unmixed
             <3> QED BY <2>1, <2>4, <3>2
      <2>21. ASSUME NEW g \in Forecasters, forecasting'[g].left # {}, ~overlapped' PROVE g \in alone
             <3>1. f \in alone
                   BY <2>19, <2>21
             <3>2. g = f
                   BY <2>18, <2>21, <3>1
             <3> QED BY <3>1, <3>2
      <2>22. Unmixed(forecasting', forecast', alone', overlapped')
             <3>1. ASSUME NEW g \in Forecasters, forecasting'[g].left # {}, g \in alone
                   PROVE  /\ \A k \in Forecasters \ {g} : forecasting'[k].left = {}
                          /\ WrittenBy(forecast', forecasting'[g])
                   <4>1. g = f
                         BY <2>20, <3>1
                   <4> QED BY <2>14, <2>18, <3>1, <4>1
             <3>2. ~overlapped' => /\ InOrder(forecast')
                                   /\ \A g \in Forecasters : forecasting'[g].left # {} => g \in alone
                   BY <2>19, <2>21
             <3> QED BY <2>4, <3>1, <3>2 DEF Unmixed
      <2> QED BY <1>1, <2>4, <2>10, <2>14, <2>15, <2>16, <2>22 DEF ForecastInv
<1>4. ASSUME NEW f \in Forecasters, ForecastBreaksOff(f) PROVE ForecastInv'
      <2>1. /\ forecasting' = [forecasting EXCEPT ![f] = NotForecasting]
            /\ UNCHANGED <<history, forecast, alone, overlapped>>
            BY <1>4 DEF ForecastBreaksOff
      <2>2. NotForecasting.left = {} /\ RunOK(NotForecasting, history)
            BY DEF NotForecasting, RunOK
      <2>3. /\ DOMAIN forecasting' = Forecasters /\ forecasting'[f] = NotForecasting
            /\ \A g \in Forecasters \ {f} : forecasting'[g] = forecasting[g]
            BY <1>1, <2>1
      <2>4. \A g \in Forecasters : RunOK(forecasting'[g], history')
            BY <1>1, <2>1, <2>2, <2>3
      <2>5. \A g \in Forecasters : forecasting'[g].left # {} =>
               g # f /\ forecasting'[g] = forecasting[g]
            BY <2>2, <2>3
      <2>6. \A g \in Forecasters : forecasting[g].left = {} => forecasting'[g].left = {}
            BY <2>2, <2>3
      <2>7. Unmixed(forecasting', forecast', alone', overlapped')
            BY <1>1, <2>1, <2>5, <2>6 DEF Unmixed
      <2>8. \A d \in Horizons : RowOK(forecast'[d], history')
            BY <1>1, <2>1
      <2> QED BY <1>1, <2>1, <2>3, <2>4, <2>7, <2>8 DEF ForecastInv
<1>5. CASE NextPrice
      <2>1. PICK h \in Histories :
               /\ Len(h) = Len(history) + 1 /\ SubSeq(h, 1, Len(history)) = history /\ history' = h
            BY <1>5 DEF NextPrice
      <2>2. UNCHANGED <<forecast, forecasting, alone, overlapped>>
            BY <1>5 DEF NextPrice
      <2>3. h \in Seq(Quote) /\ Len(h) \in Nat
            <3>1. h \in Seq(Quote)
                  BY HistoryGood
            <3> QED BY <3>1
      <2>4. \A from, upto : PartOf(from, upto, history) => PartOf(from, upto, h)
            BY <1>1, <2>1, <2>3, PartGrows
      <2>5. \A f : RowOK(f, history) => RowOK(f, h)
            BY <1>1, <2>1, <2>3, <2>4 DEF RowOK
      <2>6. \A F : RunOK(F, history) => RunOK(F, h)
            BY <2>4 DEF RunOK
      <2>7. Unmixed(forecasting', forecast', alone', overlapped')
            BY <1>1, <2>2
      <2> QED BY <1>1, <2>1, <2>2, <2>5, <2>6, <2>7 DEF ForecastInv
<1>6. CASE UNCHANGED <<history, forecast, forecasting, alone, overlapped>>
      BY <1>6 DEF ForecastInv
<1>7. DayPasses \/ SummaryNext \/ RecommendRecipes \/ UNCHANGED insightVars =>
         UNCHANGED <<history, forecast, forecasting, alone, overlapped>>
      BY DEF DayPasses, SummaryNext, AskSummary, ComputeSummary, KeepSummary, SummaryFails, Buy, UpdateStatus,
             DeleteBasket, Becomes, ClockTicks, RecommendRecipes, forecastVars, insightVars
<1> QED BY <1>2, <1>3, <1>4, <1>5, <1>6, <1>7 DEF InsightNext, ForecastNext

LEMMA ForecastsGood == ForecastInv => ForecastsAreBounded
<1> SUFFICES ASSUME ForecastInv, NEW d \in Horizons, forecast[d].from # <<>>
             PROVE  /\ GoodRow(forecast[d])
                    /\ ~overlapped => \A e \in Horizons : e < d => forecast[e].upto >= forecast[d].upto
                    /\ \E first \in 1..forecast[d].upto :
                          forecast[d].from = SubSeq(history, first, forecast[d].upto)
    BY DEF ForecastsAreBounded, GoodRow
<1>1. RowOK(forecast[d], history) /\ Unmixed(forecasting, forecast, alone, overlapped)
      BY DEF ForecastInv
<1>2. GoodRow(forecast[d]) /\ PartOf(forecast[d].from, forecast[d].upto, history)
      BY <1>1 DEF RowOK
<1> QED BY <1>1, <1>2 DEF Unmixed, InOrder, PartOf

-----------------------------------------------------------------------------
\* Recommendations.

LEMMA QuotientIs == \A a \in Int, b \in Nat \ {0} : RoundDiv(a, b) \in Int
<1> SUFFICES ASSUME NEW a \in Int, NEW b \in Nat \ {0} PROVE RoundDiv(a, b) \in Int
    OBVIOUS
<1>1. 2 * a + b \in Int /\ 2 * b \in Nat \ {0}
      OBVIOUS
<1>2. (2 * a + b) \div (2 * b) \in Int
      BY <1>1, DivIs
<1> QED BY <1>2 DEF RoundDiv

LEMMA BudgetFitIs == \A c, b \in Int : BudgetFit(c, b) \in Int
<1> SUFFICES ASSUME NEW c \in Int, NEW b \in Int, b > 0 PROVE Clamp01(One - (c * One) \div b) \in Int
    BY DEF BudgetFit
<1>1. c * One \in Int /\ b \in Nat \ {0}
      BY DEF One
<1>2. (c * One) \div b \in Int
      BY <1>1, DivIs
<1> QED BY <1>2 DEF Clamp01, One

LEMMA ClosenessIs == \A a, d, m \in Int : Closeness(a, d, m) \in Int
<1> SUFFICES ASSUME NEW a \in Int, NEW d \in Int, NEW m \in Int PROVE Closeness(a, d, m) \in Int
    OBVIOUS
<1>1. CASE d <= 0
      <2>1. One \div 2 \in Int
            BY DEF One
      <2> QED BY <1>1, <2>1 DEF Closeness
<1>2. CASE d > 0
      <2>1. a * m \in Int
            BY ProductIs
      <2>2. AbsDiff(a * m, d) * One \in Int /\ d \in Nat \ {0}
            BY <1>2, <2>1 DEF AbsDiff, One
      <2>3. (AbsDiff(a * m, d) * One) \div d \in Int
            BY <2>2, DivIs
      <2>4. AtLeast0(One - (AbsDiff(a * m, d) * One) \div d) \in Int
            BY <2>3 DEF AtLeast0, One
      <2> QED BY <1>2, <2>4 DEF Closeness
<1> QED BY <1>1, <1>2

LEMMA NutritionFitIs ==
    ASSUME NEW nutrition, nutrition.calories \in Int, nutrition.protein \in Int, nutrition.health \in Int,
           NEW goals, goals.calories \in Int, goals.protein \in Int
    PROVE  NutritionFit(nutrition, goals, 3) \in Int
<1> DEFINE calories == Closeness(nutrition.calories, goals.calories, 3)
           protein == Closeness(nutrition.protein, goals.protein, 3)
<1>1. calories \in Int /\ protein \in Int
      <2>1. \A a, d \in Int : Closeness(a, d, 3) \in Int
            BY ClosenessIs
      <2> QED BY <2>1
<1>2. NutritionFit(nutrition, goals, 3) =
         CASE nutrition.health = Unknown -> One \div 2
           [] nutrition.health # Unknown /\ goals.calories > 0 /\ goals.protein > 0 ->
                 (calories + protein) \div 2
           [] nutrition.health # Unknown /\ goals.calories > 0 /\ goals.protein <= 0 -> calories
           [] nutrition.health # Unknown /\ goals.calories <= 0 /\ goals.protein > 0 -> protein
           [] OTHER -> Clamp01(nutrition.health * 100)
      BY DEF NutritionFit
<1>3. One \div 2 \in Int /\ (calories + protein) \div 2 \in Int /\ Clamp01(nutrition.health * 100) \in Int
      <2> HIDE DEF calories, protein
      <2> QED BY <1>1 DEF One, Clamp01
<1> HIDE DEF calories, protein
<1> QED BY <1>1, <1>2, <1>3

\* Every amount is known that a pantry is compared with.
AmountsKnown(lines, stock) ==
    /\ IsFiniteSet(DOMAIN lines)
    /\ \A l \in DOMAIN lines : /\ lines[l].qty \in Nat
                               /\ lines[l].ingredient # "" => stock[lines[l].ingredient] \in Nat

LEMMA StockCovers ==
    ASSUME NEW lines, NEW stock, AmountsKnown(lines, stock)
    PROVE  PantryCoverage(lines, stock) \in Int
<1> DEFINE C == Coverable(lines)
           qty == [n \in C |-> lines[n].qty]
           least == [n \in C |-> IF stock[lines[n].ingredient] < lines[n].qty
                                 THEN stock[lines[n].ingredient] ELSE lines[n].qty]
<1>1. C \subseteq DOMAIN lines /\ IsFiniteSet(C)
      BY FS_Subset DEF AmountsKnown, Coverable
<1>2. \A n \in C : qty[n] \in Nat /\ least[n] \in Nat
      BY DEF AmountsKnown, Coverable
<1>3. DOMAIN qty = C /\ DOMAIN least = C
      OBVIOUS
<1>4. /\ Need(lines) = SumFunction(qty)
      /\ Need(lines) # 0 => PantryCoverage(lines, stock) = (SumFunction(least) * One) \div Need(lines)
      /\ Need(lines) = 0 => PantryCoverage(lines, stock) = 0
      BY DEF Need, PantryCoverage
<1> HIDE DEF C, qty, least
<1>5. SumFunction(qty) \in Nat /\ SumFunction(least) \in Nat
      <2>1. SumFunction(qty) = Sum(qty, C) /\ SumFunction(least) = Sum(least, C)
            BY <1>1, <1>3, SumFunctionIs
      <2>2. Sum(qty, C) \in Nat /\ Sum(least, C) \in Nat
            <3>1. \A n \in C : qty[n] \in Nat
                  BY <1>2
            <3>2. \A n \in C : least[n] \in Nat
                  BY <1>2
            <3>3. Sum(qty, C) \in Nat
                  BY <1>1, <3>1, SumMore
            <3>4. Sum(least, C) \in Nat
                  BY <1>1, <3>2, SumMore
            <3> QED BY <3>3, <3>4
      <2> QED BY <2>1, <2>2
<1>6. SumFunction(least) * One \in Int
      <2>1. \A v \in Nat : v * One \in Int
            BY DEF One
      <2> QED BY <1>5, <2>1
<1>7. CASE Need(lines) = 0
      <2>1. PantryCoverage(lines, stock) = 0
            BY <1>4, <1>7
      <2> QED BY <2>1
<1>8. CASE Need(lines) # 0
      <2>1. Need(lines) \in Nat \ {0}
            BY <1>4, <1>5, <1>8
      <2> QED BY <1>4, <1>6, <1>8, <2>1, DivIs
<1> QED BY <1>7, <1>8

LEMMA NutritionIs ==
    ASSUME NEW recipe, recipe.servings \in Nat, IsFiniteSet(DOMAIN recipe.lines),
           \A l \in DOMAIN recipe.lines :
              /\ recipe.lines[l].qty \in Nat
              /\ recipe.lines[l].per100 # <<>> => \A k \in 1..6 : recipe.lines[l].per100[k] \in Nat
    PROVE  /\ Nutrition(recipe).calories \in Int /\ Nutrition(recipe).protein \in Int
           /\ Nutrition(recipe).health \in Int
<1>1. ASSUME NEW n \in 1..6 PROVE PerServing(recipe, n) \in Int
      <2> DEFINE C == Counted(recipe.lines)
                 part == [k \in C |-> recipe.lines[k].per100[n] * recipe.lines[k].qty]
                 servings == IF recipe.servings < 1 THEN 1 ELSE recipe.servings
      <2>1. PerServing(recipe, n) = RoundDiv(SumFunction(part), 10 * servings)
            BY DEF PerServing
      <2>2. 10 * servings \in Nat \ {0}
            OBVIOUS
      <2>3. C \subseteq DOMAIN recipe.lines /\ IsFiniteSet(C)
            BY FS_Subset DEF Counted
      <2>4. \A k \in C : part[k] \in Int
            <3>1. \A k \in C : recipe.lines[k].per100[n] \in Int /\ recipe.lines[k].qty \in Int
                  BY DEF Counted
            <3> QED BY <3>1, ProductIs
      <2>5. DOMAIN part = C
            OBVIOUS
      <2> HIDE DEF C, part, servings
      <2>6. SumFunction(part) = Sum(part, C) /\ Sum(part, C) \in Int
            BY <2>3, <2>4, <2>5, SumFunctionIs, SumType
      <2> QED BY <2>1, <2>2, <2>6, QuotientIs
<1>2. HealthScore(recipe) \in Int
      <2> DEFINE p(n) == PerServing(recipe, n)
      <2>1. p(2) \in Int /\ p(3) \in Int /\ p(4) \in Int /\ p(5) \in Int /\ p(6) \in Int
            BY <1>1
      <2>2. HealthScore(recipe) =
               AtLeast0(AtMost(700 + AtMost(p(2) \div 2, 200) + AtMost(2 * p(3), 100)
                                 - AtMost(p(4) \div 80, 250) - AtMost((3 * AtLeast0(p(5) - 100)) \div 2, 150)
                                 - AtMost(AtLeast0(p(6) - 250), 150), 1000))
            BY DEF HealthScore
      <2> HIDE DEF p
      <2>3. /\ AtMost(p(2) \div 2, 200) \in Int /\ AtMost(2 * p(3), 100) \in Int
            /\ AtMost(p(4) \div 80, 250) \in Int
            BY <2>1 DEF AtMost
      <2>4. AtMost((3 * AtLeast0(p(5) - 100)) \div 2, 150) \in Int
            <3>1. 3 * AtLeast0(p(5) - 100) \in Int
                  BY <2>1 DEF AtLeast0
            <3>2. (3 * AtLeast0(p(5) - 100)) \div 2 \in Int
                  BY <3>1
            <3> QED BY <3>2 DEF AtMost
      <2>5. AtMost(AtLeast0(p(6) - 250), 150) \in Int
            BY <2>1 DEF AtMost, AtLeast0
      <2>6. \A v \in Int : AtLeast0(AtMost(v, 1000)) \in Int
            BY DEF AtLeast0, AtMost
      <2> DEFINE v == 700 + AtMost(p(2) \div 2, 200) + AtMost(2 * p(3), 100)
                      - AtMost(p(4) \div 80, 250) - AtMost((3 * AtLeast0(p(5) - 100)) \div 2, 150)
                      - AtMost(AtLeast0(p(6) - 250), 150)
      <2>7. v \in Int
            <3> DEFINE a == AtMost(p(2) \div 2, 200)
                       b == AtMost(2 * p(3), 100)
                       c == AtMost(p(4) \div 80, 250)
                       d == AtMost((3 * AtLeast0(p(5) - 100)) \div 2, 150)
                       e == AtMost(AtLeast0(p(6) - 250), 150)
            <3>1. a \in Int /\ b \in Int /\ c \in Int /\ d \in Int /\ e \in Int
                  BY <2>3, <2>4, <2>5
            <3>2. v = 700 + a + b - c - d - e
                  OBVIOUS
            <3> HIDE DEF a, b, c, d, e, v
            <3> QED BY <3>1, <3>2
      <2>8. HealthScore(recipe) = AtLeast0(AtMost(v, 1000))
            BY <2>2
      <2> HIDE DEF v
      <2> QED BY <2>6, <2>7, <2>8
<1>3. \A v \in Int : v \div 10 \in Int
      OBVIOUS
<1>4. PerServing(recipe, 1) \in Int /\ PerServing(recipe, 2) \in Int
      BY <1>1
<1> QED BY <1>2, <1>3, <1>4 DEF Nutrition

LEMMA SuppersFinite == DOMAIN Suppers \subseteq Nat /\ IsFiniteSet(DOMAIN Suppers)
<1>1. Suppers \in Seq(Range(Suppers))
      BY SuppersAssumption, Zenon
<1>2. DOMAIN Suppers = 1..Len(Suppers) /\ Len(Suppers) \in Nat
      BY <1>1
<1>3. IsFiniteSet(1..Len(Suppers)) /\ 1..Len(Suppers) \subseteq Nat
      BY <1>2, FS_Interval
<1> QED BY <1>2, <1>3

\* Every score is a number.
LEMMA ScoreIs ==
    ASSUME NEW n \in DOMAIN Suppers, NEW want \in Wanted
    PROVE  ScoreOf(Suppers[n], want) \in Int
<1> DEFINE dish == Suppers[n]
           lines == dish.lines
<1>1. /\ dish.servings \in Nat /\ IsFiniteSet(DOMAIN lines)
      /\ \A l \in DOMAIN lines :
            /\ lines[l].qty \in Nat
            /\ lines[l].per100 # <<>> => \A k \in 1..6 : lines[l].per100[k] \in Nat
            /\ lines[l].ingredient # "" => want.stock[lines[l].ingredient] \in Nat
      <2>1. dish.servings \in Nat /\ IsFiniteSet(DOMAIN lines)
            BY SuppersAssumption, Zenon
      <2>2. \A l \in DOMAIN lines :
               LET line == Suppers[n].lines[l]
               IN /\ line.qty \in Nat
                  /\ line.per100 # <<>> => \A k \in 1..6 : line.per100[k] \in Nat
                  /\ \A w \in Wanted : line.ingredient # "" => w.stock[line.ingredient] \in Nat
            BY SuppersAssumption, Zenon
      <2> QED BY <2>1, <2>2
<1>2. /\ \A i \in DOMAIN want.costs :
            {want.costs[i].pack, want.costs[i].perKg} \subseteq Nat \cup {Unknown}
      /\ want.budget \in Nat \cup {Unknown}
      /\ want.goals.calories \in Nat /\ want.goals.protein \in Nat
      BY SuppersAssumption, Zenon
<1> HIDE DEF dish
<1>3. PantryCoverage(dish.lines, want.stock) \in Int
      BY <1>1, StockCovers DEF AmountsKnown
<1>4. CostPerServing(dish, want.costs) \in Int
      <2>1. CostPerServing(dish, want.costs) \in Nat
            BY <1>1, <1>2, RecipeCost
      <2> QED BY <2>1
<1> DEFINE budget == IF want.budget = Unknown THEN DefaultMaxBudget ELSE want.budget
           coverage == PantryCoverage(dish.lines, want.stock)
           cost == CostPerServing(dish, want.costs)
           fit == BudgetFit(cost, budget)
           food == NutritionFit(Nutrition(dish), want.goals, 3)
<1>5. budget \in Int
      BY <1>2 DEF DefaultMaxBudget
<1>6. fit \in Int
      <2> HIDE DEF budget, cost
      <2>1. cost \in Int
            BY <1>4 DEF cost
      <2> QED BY <1>5, <2>1, BudgetFitIs
<1>7. food \in Int
      <2>1. /\ Nutrition(dish).calories \in Int /\ Nutrition(dish).protein \in Int
            /\ Nutrition(dish).health \in Int
            BY <1>1, NutritionIs
      <2>2. want.goals.calories \in Int /\ want.goals.protein \in Int
            BY <1>2
      <2> QED BY <2>1, <2>2, NutritionFitIs
<1>8. ScoreOf(dish, want) = (5 * Clamp01(coverage) + 3 * fit + 2 * food) \div 10
      BY DEF ScoreOf, RecommendationScore
<1>9. Clamp01(coverage) \in Int
      BY <1>3 DEF Clamp01, One
<1> HIDE DEF coverage, fit, food
<1>10. (5 * Clamp01(coverage) + 3 * fit + 2 * food) \div 10 \in Int
       BY <1>6, <1>7, <1>9
<1> QED BY <1>8, <1>10 DEF dish

\* Recommendations are in an order, the same in which they are ranked.
Aheads(want, S) == {p \in S \X S : Ahead(p[1], p[2], want)}

LEMMA AheadOrders ==
    ASSUME NEW want \in Wanted, NEW S \in SUBSET DOMAIN Suppers
    PROVE  /\ Orders(Aheads(want, S), S)
           /\ \A x \in S : Preceding(S, Aheads(want, S), x) = {y \in S : Ahead(y, x, want)}
<1> DEFINE Of(x) == ScoreOf(Suppers[x], want)
<1>1. \A x \in S : x \in Nat /\ Of(x) \in Int
      <2>1. DOMAIN Suppers \subseteq Nat
            BY SuppersFinite
      <2>2. \A x \in S : Of(x) \in Int
            BY ScoreIs
      <2> QED BY <2>1, <2>2
<1>2. \A x, y \in S : <<x, y>> \in Aheads(want, S) <=> Ahead(x, y, want)
      BY DEF Aheads
<1>3. \A x, y \in S : Ahead(x, y, want) <=> Of(x) > Of(y) \/ (Of(x) = Of(y) /\ x < y)
      BY DEF Ahead
<1> HIDE DEF Of
<1>4. \A x \in S : ~Ahead(x, x, want)
      BY <1>1, <1>3
<1>5. \A x, y, z \in S : Ahead(x, y, want) /\ Ahead(y, z, want) => Ahead(x, z, want)
      BY <1>1, <1>3
<1>6. \A x, y \in S : x = y \/ Ahead(x, y, want) \/ Ahead(y, x, want)
      BY <1>1, <1>3
<1>7. Orders(Aheads(want, S), S)
      BY <1>2, <1>4, <1>5, <1>6 DEF Orders
<1>8. \A x \in S : Preceding(S, Aheads(want, S), x) = {y \in S : Ahead(y, x, want)}
      BY <1>2 DEF Preceding
<1> QED BY <1>7, <1>8

\* What is recommended is ranked: its k-th has k - 1 ahead of it.
LEMMA BestRanked ==
    ASSUME NEW want \in Wanted, NEW S, S = Suggested(want)
    PROVE  /\ IsFiniteSet(S) /\ S \subseteq DOMAIN Suppers
           /\ Len(Best(want)) = AtMost(Cardinality(S), want.limit)
           /\ Len(Best(want)) \in 0..Cardinality(S) /\ Len(Best(want)) <= want.limit
           /\ DOMAIN Best(want) = 1..Len(Best(want))
           /\ \A k \in DOMAIN Best(want) :
                 /\ Best(want)[k] \in S
                 /\ Cardinality(Preceding(S, Aheads(want, S), Best(want)[k])) = k - 1
<1> DEFINE N == AtMost(Cardinality(S), want.limit)
           R == Aheads(want, S)
           At(n) == CHOOSE k \in S : Cardinality({j \in S : Ahead(j, k, want)}) = n - 1
           d == [n \in 1..N |-> At(n)]
<1>1. S \subseteq DOMAIN Suppers
      BY DEF Suggested, Newest, Visible
<1>2. IsFiniteSet(S) /\ Cardinality(S) \in Nat
      BY <1>1, SuppersFinite, FS_Subset, FS_CardinalityType
<1>3. want.limit \in Nat
      BY SuppersAssumption, Zenon
<1>4. N \in Nat /\ N <= Cardinality(S) /\ N <= want.limit
      BY <1>2, <1>3 DEF AtMost
<1>5. Best(want) = d
      BY DEF Best, Ranked
<1>6. Orders(R, S) /\ \A x \in S : Preceding(S, R, x) = {y \in S : Ahead(y, x, want)}
      BY <1>1, AheadOrders
<1>7. ASSUME NEW k \in 1..N PROVE At(k) \in S /\ Cardinality(Preceding(S, R, At(k))) = k - 1
      <2> HIDE DEF R, N
      <2>1. k \in 1..Cardinality(S)
            BY <1>2, <1>4
      <2>2. PICK x \in S : Cardinality(Preceding(S, R, x)) = k - 1
            BY <1>2, <1>6, <2>1, PlaceTaken
      <2>3. Cardinality({j \in S : Ahead(j, x, want)}) = k - 1
            BY <1>6, <2>2
      <2>4. At(k) \in S /\ Cardinality({j \in S : Ahead(j, At(k), want)}) = k - 1
            BY <2>3
      <2> HIDE DEF At
      <2> QED BY <1>6, <2>4
<1> HIDE DEF N, At, R
<1>8. Len(d) = N /\ DOMAIN d = 1..N /\ \A k \in 1..N : d[k] = At(k)
      <2>1. d \in Seq(S)
            BY <1>4, <1>7
      <2> QED BY <1>4, <2>1
<1> HIDE DEF d
<1>9. \A k \in 1..N : d[k] \in S /\ Cardinality(Preceding(S, R, d[k])) = k - 1
      BY <1>7, <1>8
<1>10. N \in 0..Cardinality(S)
       BY <1>2, <1>4
<1> QED BY <1>1, <1>2, <1>4, <1>5, <1>8, <1>9, <1>10 DEF N, R

\* What was recommended was the best of some request.
AdviceInv ==
    advised = <<>> \/ \E want \in Wanted : advised = <<[want |-> want, dishes |-> Best(want)]>>

LEMMA AdviceStep == AdviceInv /\ [InsightNext]_insightVars => AdviceInv'
<1>1. RecommendRecipes => AdviceInv'
      BY DEF RecommendRecipes, AdviceInv
<1>2. ForecastNext \/ SummaryNext \/ UNCHANGED insightVars => UNCHANGED advised
      BY DEF ForecastNext, ReadPriceHistory, WriteForecast, ForecastBreaksOff, NextPrice, DayPasses,
             SummaryNext, AskSummary, ComputeSummary, KeepSummary, SummaryFails, Buy, UpdateStatus, DeleteBasket,
             Becomes, ClockTicks, insightVars
<1>3. AdviceInv /\ UNCHANGED advised => AdviceInv'
      BY DEF AdviceInv
<1> QED BY <1>1, <1>2, <1>3 DEF InsightNext

LEMMA AdviceGood == AdviceInv => RecommendedAreBest
<1> SUFFICES ASSUME AdviceInv, advised # <<>> PROVE RecommendedAreBest
    BY DEF RecommendedAreBest
<1>1. PICK want \in Wanted : advised = <<[want |-> want, dishes |-> Best(want)]>>
      BY DEF AdviceInv
<1>2. advised[1] = [want |-> want, dishes |-> Best(want)]
      BY <1>1
<1>3. advised[1].want = want /\ advised[1].dishes = Best(want)
      BY <1>2
<1> DEFINE S == Suggested(want)
           R == Aheads(want, S)
           B == Best(want)
           Rank(x) == Cardinality(Preceding(S, R, x))
           Of(x) == ScoreOf(Suppers[x], want)
<1>4. /\ IsFiniteSet(S) /\ S \subseteq DOMAIN Suppers
      /\ Len(B) = AtMost(Cardinality(S), want.limit)
      /\ Len(B) \in 0..Cardinality(S) /\ Len(B) <= want.limit
      /\ DOMAIN B = 1..Len(B)
      /\ \A k \in DOMAIN B : B[k] \in S /\ Rank(B[k]) = k - 1
      BY BestRanked
<1> DEFINE Fits(n) == n \in Visible(want) /\ IsRecipeAllowed(Suppers[n], want.diets)
           Newer(n) == {j \in Visible(want) : j < n}
<1>5. \A n \in DOMAIN Suppers : n \in S <=> Fits(n) /\ Cardinality(Newer(n)) < PoolSize
      BY DEF Suggested, Newest, Visible
<1>6. Orders(R, S)
      BY <1>4, AheadOrders
<1>7. \A x, y \in S : <<x, y>> \in R <=> Ahead(x, y, want)
      BY DEF Aheads
<1>8. \A x \in S : Of(x) \in Int
      BY <1>4, ScoreIs
<1>9. want.limit \in Nat /\ Cardinality(S) \in Nat
      <2>1. want.limit \in Nat
            BY SuppersAssumption, Zenon
      <2> QED BY <1>4, <2>1, FS_CardinalityType
<1>10. \A x \in S : Rank(x) \in 0..(Cardinality(S) - 1)
       BY <1>4, <1>6, RankIs
\* A lower score has more ahead of it.
<1>11. ASSUME NEW x \in S, NEW y \in S, Rank(x) < Rank(y) PROVE Of(x) >= Of(y)
       <2>1. ~Ahead(y, x, want)
             <3> SUFFICES ASSUME Ahead(y, x, want) PROVE FALSE
                 OBVIOUS
             <3>1. Rank(y) < Rank(x)
                   BY <1>4, <1>6, <1>7, RankIs
             <3>2. Rank(x) \in Int /\ Rank(y) \in Int
                   BY <1>10
             <3> HIDE DEF Rank
             <3> QED BY <1>11, <3>1, <3>2
       <2>2. ~(Of(y) > Of(x))
             BY <2>1 DEF Ahead
       <2>3. Of(x) \in Int /\ Of(y) \in Int
             BY <1>8
       <2> HIDE DEF Of
       <2> QED BY <2>2, <2>3
<1>12. \A n \in DOMAIN Suppers : ScoreOf(Suppers[n], want) = Of(n)
       OBVIOUS
<1> HIDE DEF S, R, Rank, Of, B, Fits, Newer
<1>13. \A k \in DOMAIN B : Fits(B[k])
       BY <1>4, <1>5
<1>14. \A k \in 1..(Len(B) - 1) : Of(B[k]) >= Of(B[k + 1])
       <2> SUFFICES ASSUME NEW k \in 1..(Len(B) - 1) PROVE Of(B[k]) >= Of(B[k + 1])
           OBVIOUS
       <2>1. k \in 1..Len(B) /\ k + 1 \in 1..Len(B) /\ k - 1 < (k + 1) - 1
             BY <1>4, <1>9
       <2>2. /\ B[k] \in S /\ B[k + 1] \in S
             /\ Rank(B[k]) = k - 1 /\ Rank(B[k + 1]) = (k + 1) - 1
             BY <1>4, <2>1
       <2> QED BY <1>11, <2>1, <2>2
<1>15. ASSUME NEW n \in DOMAIN Suppers \ {B[k] : k \in DOMAIN B}, Fits(n), Cardinality(Newer(n)) < PoolSize
       PROVE  /\ Len(B) = want.limit
              /\ \A k \in DOMAIN B : Of(B[k]) >= Of(n)
       <2>1. n \in S /\ Rank(n) \in 0..(Cardinality(S) - 1)
             BY <1>5, <1>10, <1>15
       <2>2. Rank(n) >= Len(B)
             <3> SUFFICES ASSUME Rank(n) < Len(B) PROVE FALSE
                 BY <1>4, <1>9, <2>1
             <3> DEFINE k == Rank(n) + 1
             <3>1. k \in 1..Len(B) /\ k - 1 = Rank(n)
                   BY <1>4, <1>9, <2>1
             <3>2. B[k] \in S /\ Rank(B[k]) = k - 1
                   BY <1>4, <3>1
             <3>3. Rank(B[k]) = Rank(n)
                   BY <3>1, <3>2
             <3> HIDE DEF k
             <3>4. B[k] = n
                   BY <1>4, <1>6, <2>1, <3>2, <3>3, PlaceIs DEF Rank
             <3>5. k \in DOMAIN B
                   BY <1>4, <3>1
             <3> QED BY <3>4, <3>5
       <2>3. Len(B) = want.limit
             BY <1>4, <1>9, <2>1, <2>2 DEF AtMost
       <2>4. ASSUME NEW k \in DOMAIN B PROVE Of(B[k]) >= Of(n)
             <3>1. B[k] \in S /\ Rank(B[k]) = k - 1 /\ k \in 1..Len(B)
                   BY <1>4
             <3>2. Rank(B[k]) < Rank(n)
                   BY <1>4, <1>9, <2>1, <2>2, <3>1
             <3> QED BY <1>11, <2>1, <3>1, <3>2
       <2> QED BY <2>3, <2>4
<1>16. \A k \in DOMAIN B : ScoreOf(Suppers[B[k]], want) = Of(B[k])
       BY <1>4, <1>12
<1>17. \A k \in 1..(Len(B) - 1) : k \in DOMAIN B /\ k + 1 \in DOMAIN B
       BY <1>4, <1>9
<1>18. \A k \in 1..(Len(B) - 1) :
           ScoreOf(Suppers[B[k]], want) >= ScoreOf(Suppers[B[k + 1]], want)
       BY <1>14, <1>16, <1>17
<1> DEFINE shown == {B[k] : k \in DOMAIN B}
<1>19. \A n \in DOMAIN Suppers \ shown :
           Fits(n) /\ Cardinality(Newer(n)) < PoolSize =>
              /\ Len(B) = want.limit
              /\ \A m \in shown : ScoreOf(Suppers[m], want) >= ScoreOf(Suppers[n], want)
       BY <1>12, <1>15, <1>16
<1>20. \A n \in shown : Fits(n)
       BY <1>13
<1>21. advised[1].dishes = B
       BY <1>3 DEF B
<1> HIDE DEF shown
<1> QED BY <1>3, <1>18, <1>19, <1>20, <1>21 DEF RecommendedAreBest, shown, Fits, Newer

\* Each row of a forecast predicts between half and twice the prices it was
\* made from, which the product had one after the other; the rows of nearer
\* horizons are never older, unless forecasts overlapped and none was made alone
\* since (price-forecast.service.ts:78).  The recipes recommended are the best the
\* reader may eat of the newest PoolSize he may see (recommendations.service.ts:183).
THEOREM AdviceSound == InsightSpec => []AdviceIsSound
<1>1. InsightInit => ForecastInv /\ AdviceInv
      BY ForecastStarts DEF InsightInit, AdviceInv
<1>2. ForecastInv /\ AdviceInv /\ [InsightNext]_insightVars => (ForecastInv /\ AdviceInv)'
      BY ForecastStep, AdviceStep
<1>3. ForecastInv /\ AdviceInv => AdviceIsSound
      BY ForecastsGood, AdviceGood DEF AdviceIsSound
<1> QED BY <1>1, <1>2, <1>3, PTL DEF InsightSpec
=============================================================================

---------------------------- MODULE PlanBuilder ----------------------------
(***************************************************************************)
(* The greedy builder of meal plans: buildPlanSlots of plan-builder.ts.    *)
(* One step is one turn of the loop over the slots; nothing else runs      *)
(* meanwhile.  Scores are in ten-thousandths.                              *)
(***************************************************************************)
EXTENDS Integers, Sequences

CONSTANTS Pools,      \* what it may be called with: sequences of candidates,
                      \* [id, calories, cost, base], none of them empty
          Options     \* [days, meals, calories, budget]; NoLimit where null

NoLimit == -1

ASSUME PlanBuilderAssumption ==
    /\ \A pool \in Pools : \A k \in DOMAIN pool : pool[k].cost \in Nat
    /\ \A o \in Options : /\ o.days \in Nat /\ o.meals \in 1..4
                          /\ o.budget \in Nat \cup {NoLimit}

VARIABLES
    draft,       \* the candidates and the options, or the idle draft
    cheapest,    \* minCostCents
    filled,      \* slots filled, as indices of candidates
    spent,       \* totalCostCents
    dayCalories, \* of the day that is being filled
    overruns     \* slots the budget was exceeded for

builderVars == <<draft, cheapest, filled, spent, dayCalories, overruns>>

Idle == [pool |-> <<>>, opts |-> [days |-> 0, meals |-> 1, calories |-> NoLimit, budget |-> NoLimit]]

Pool == draft.pool
Opts == draft.opts
TotalSlots == Opts.days * Opts.meals
SlotsLeft == TotalSlots - Len(filled)
DayOf(slot) == (slot - 1) \div Opts.meals      \* of the slot-th slot, from 1

BuilderInit ==
    /\ draft = Idle /\ cheapest = 0
    /\ filled = <<>> /\ spent = 0 /\ dayCalories = 0 /\ overruns = 0

Begin(pool, opts) ==
    /\ SlotsLeft = 0
    /\ draft' = [pool |-> pool, opts |-> opts]
    /\ \E k \in DOMAIN pool : /\ \A l \in DOMAIN pool : pool[k].cost <= pool[l].cost
                              /\ cheapest' = pool[k].cost
    /\ filled' = <<>> /\ spent' = 0 /\ dayCalories' = 0 /\ overruns' = 0

\* Mutant: what the remaining slots will cost at least is not kept back.
AffordableNow(k) == Opts.budget # NoLimit => spent + Pool[k].cost <= Opts.budget

\* After k the rest can still be filled with the cheapest.
Affordable(k) ==
    Opts.budget # NoLimit => spent + Pool[k].cost + (SlotsLeft - 1) * cheapest <= Opts.budget

AffordableOnes == {k \in DOMAIN Pool : Affordable(k)}

\* The first of the cheapest, when none is affordable.
Fallback == CHOOSE k \in DOMAIN Pool :
               /\ Pool[k].cost = cheapest
               /\ \A l \in DOMAIN Pool : Pool[l].cost = cheapest => k <= l

Choosable == IF AffordableOnes = {} THEN {Fallback} ELSE AffordableOnes

-----------------------------------------------------------------------------
\* Utilities.  The target of a slot is a fraction, what is left of the day's
\* calories by the slots left of it; utilities are taken times its numerator.
DayTarget == IF Opts.calories > dayCalories THEN Opts.calories - dayCalories ELSE 0
SlotsOfDay == Opts.meals - (Len(filled) % Opts.meals)
Weight == IF Opts.calories = NoLimit \/ DayTarget = 0 THEN 1 ELSE DayTarget

CalorieFit(k) ==
    IF Opts.calories = NoLimit \/ DayTarget = 0 THEN 5000
    ELSE LET diff == Pool[k].calories * SlotsOfDay - DayTarget
             off == IF diff < 0 THEN -diff ELSE diff
         IN IF off >= DayTarget THEN 0 ELSE 10000 * (DayTarget - off)

\* Used less than three days ago, in a pool that could do without.
UsedLately(k) ==
    \E slot \in DOMAIN filled :
       /\ Pool[filled[slot]].id = Pool[k].id
       /\ DayOf(Len(filled) + 1) - DayOf(slot) < 3

RepeatPenalty(k) == IF Len(Pool) >= 2 * Opts.meals /\ UsedLately(k) THEN 7500 ELSE 0

Utility(k) == (Pool[k].base - RepeatPenalty(k)) * Weight + CalorieFit(k)

\* The first of the best.
IsBest(k) == /\ k \in Choosable
             /\ \A l \in Choosable : Utility(l) < Utility(k) \/ (Utility(l) = Utility(k) /\ k <= l)

PickSlot ==
    /\ SlotsLeft > 0
    /\ \E k \in DOMAIN Pool :
          /\ IsBest(k)
          /\ filled' = Append(filled, k)
          /\ spent' = spent + Pool[k].cost
          /\ dayCalories' = IF (Len(filled) + 1) % Opts.meals = 0 THEN 0
                            ELSE dayCalories + Pool[k].calories
    /\ overruns' = IF AffordableOnes = {} THEN overruns + 1 ELSE overruns
    /\ UNCHANGED <<draft, cheapest>>

BuilderNext == PickSlot \/ \E pool \in Pools, opts \in Options : Begin(pool, opts)

BuilderSpec == BuilderInit /\ [][BuilderNext]_builderVars

-----------------------------------------------------------------------------
BuilderTypeOK ==
    /\ spent \in Nat /\ cheapest \in Nat /\ overruns \in Nat
    /\ filled \in Seq(DOMAIN Pool) /\ SlotsLeft >= 0

\* plan-builder.ts:104: a plan is within its budget, and warns of nothing,
\* whenever a plan within the budget exists at all: one of the cheapest
\* candidate only.
WithinBudget ==
    Opts.budget # NoLimit /\ TotalSlots * cheapest <= Opts.budget =>
       spent <= Opts.budget /\ overruns = 0
=============================================================================

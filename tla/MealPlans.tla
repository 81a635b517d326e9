----------------------------- MODULE MealPlans -----------------------------
(***************************************************************************)
(* Meal plans: meal-plans.service.ts, with the builder of PlanBuilder.     *)
(* generate reads profile and recipes, then prices, builds without a pause *)
(* and creates the plan after asking for a name; a change of a slot is     *)
(* four statements before the plan's estimate is written again.  Prices    *)
(* and recipes move meanwhile: owners edit and delete their recipes        *)
(* (recipes.service.ts), which no plan is told of.                         *)
(***************************************************************************)
EXTENDS Platform, PlanBuilder, DietFilter, Scoring

CONSTANTS Plans,
          Dishes,        \* the recipes, newest first and fewer than take: 300: Dishes[n] is
                         \* what the n-th may say, [id, owner, public, ready, tags, lines,
                         \* servings, nutrition], one id and owner
          CostTables,    \* what prices may be: [ingredient -> [pack, perKg]]
          PlanBodies,    \* bodies of generate: [opts, protein, restrictions]
          ProfileDiet,   \* dietaryRestrictions and goals of the profile
          ProfileGoals,
          MaxPlanCalls   \* requests, edits and price changes

Menus == {m \in [DOMAIN Dishes -> UNION Range(Dishes)] : \A n \in DOMAIN m : m[n] \in Dishes[n]}

ASSUME MealPlansAssumption ==
    /\ MaxPlanCalls \in Nat /\ Nothing \notin Plans
    /\ \A n \in DOMAIN Dishes : \A d \in Dishes[n] :
          /\ d.servings \in Nat /\ IsFiniteSet(DOMAIN d.lines)
          /\ \A l \in DOMAIN d.lines : d.lines[l].qty \in Nat
          /\ \A m \in DOMAIN Dishes : \A e \in Dishes[m] : e.id = d.id <=> m = n
    /\ \A c \in CostTables : \A g \in DOMAIN c : {c[g].pack, c[g].perKg} \subseteq Nat \cup {Unknown}
    /\ \A b \in PlanBodies : /\ b.opts.days \in Nat /\ b.opts.meals \in 1..4
                             /\ b.opts.budget \in Nat \cup {NoLimit}

VARIABLES
    plan,        \* plan[p]: [owner, slots, estimate], slots of [dish, servings], or Nothing
    costs,       \* the cheapest prices of the ingredients, now
    menu,        \* the recipes, now
    generating,  \* generating[h]: [at, user, body, menu, found, built, total, costs]
    swap,        \* swap[h]: a change of a slot, [at, plan, slot, dish, servings, read, menu, costs]
    planCalls,
    adrift,      \* history: plans whose last change broke off or overlapped with another
    outdated,    \* history: plans whose prices or recipes moved since the estimate was made
    slotsHad,    \* history: slotsHad[p], the slots plan p has had
    past         \* history: the prices and recipes there have been, [costs, menus]

mealVars ==
    <<plan, costs, menu, generating, swap, planCalls, adrift, outdated, slotsHad, past>>

Planning(at, user, body, m, found) ==
    [at |-> at, user |-> user, body |-> body, menu |-> m, found |-> found, built |-> <<>>,
     total |-> 0, costs |-> Nothing]
NoPlanning == Planning("idle", Nothing, Nothing, Nothing, <<>>)
Swap(at, p, s, dish, servings) ==
    [at |-> at, plan |-> p, slot |-> s, dish |-> dish, servings |-> servings, read |-> <<>>,
     menu |-> Nothing, costs |-> Nothing]
NoSwap == Swap("idle", Nothing, 0, 0, 0)

MealInit ==
    /\ BuilderInit
    /\ plan = [p \in Plans |-> Nothing]
    /\ costs \in CostTables /\ menu \in Menus
    /\ generating = [h \in Handlers |-> NoPlanning]
    /\ swap = [h \in Handlers |-> NoSwap]
    /\ planCalls = 0 /\ adrift = {} /\ outdated = {}
    /\ slotsHad = [p \in Plans |-> {}] /\ past = [costs |-> {costs}, menus |-> {menu}]

Call == planCalls < MaxPlanCalls /\ planCalls' = planCalls + 1
Free(h) == generating[h].at = "idle" /\ swap[h].at = "idle"

\* Ready, not deleted, and the user's own or public.
MayUse(u, d) == d.ready /\ (d.public \/ d.owner = u)

\* The request's restrictions win over the profile's.
Restrictions(body) == IF body.restrictions # {} THEN body.restrictions ELSE ProfileDiet

\* What a request may be answered with, by the positions in the menu.
Suitable(u, body) ==
    {n \in DOMAIN menu : MayUse(u, menu[n]) /\ IsRecipeAllowed(menu[n], Restrictions(body))}

Increasing(f) == \A m, n \in DOMAIN f : m < n => f[m] < f[n]

\* generate, after assertPremium: profile and recipes, in their order; no recipe
\* left is an error.
GatherDishes(h, u, body) ==
    /\ Free(h) /\ Suitable(u, body) # {} /\ Call
    /\ \E found \in [1..Cardinality(Suitable(u, body)) -> Suitable(u, body)] :
          /\ Increasing(found)
          /\ generating' = [generating EXCEPT ![h] = Planning("costs", u, body, menu, found)]
    /\ UNCHANGED <<plan, costs, menu, swap, adrift, outdated, slotsHad, past, builderVars>>

\* The goals of the request, or else of the profile.
Goals(body) ==
    IF body.opts.calories = NoLimit /\ body.protein = NoLimit THEN ProfileGoals
    ELSE [calories |-> body.opts.calories, protein |-> body.protein]

Candidate(dish, body) ==
    [id |-> dish.id, calories |-> dish.nutrition.calories, cost |-> CostPerServing(dish, costs),
     base |-> (6 * NutritionFit(dish.nutrition, Goals(body), body.opts.meals)
                 + 4 * BudgetFit(CostPerServing(dish, costs), DefaultMaxBudget)) \div 10]

\* Prices are read; the building starts and nothing comes between its steps.
StartBuilding(h) ==
    LET g == generating[h] IN
    /\ g.at = "costs" /\ \A k \in Handlers : generating[k].at # "build"
    /\ Begin([n \in DOMAIN g.found |-> Candidate(g.menu[g.found[n]], g.body)], g.body.opts)
    /\ generating' = [generating EXCEPT ![h] = [@ EXCEPT !.at = "build", !.costs = costs]]
    /\ UNCHANGED <<plan, costs, menu, swap, planCalls, adrift, outdated, slotsHad, past>>

BuildOn == PickSlot /\ UNCHANGED mealVars

FinishBuilding(h) ==
    /\ generating[h].at = "build" /\ SlotsLeft = 0
    /\ generating' = [generating EXCEPT ![h] =
          [@ EXCEPT !.at = "name", !.total = spent,
                    !.built = [s \in DOMAIN filled |-> [dish |-> Pool[filled[s]].id, servings |-> 1]]]]
    /\ UNCHANGED <<plan, costs, menu, swap, planCalls, adrift, outdated, slotsHad, past, builderVars>>

\* After the model has named it or failed to: the plan and its slots at once.
CreatePlan(h) ==
    LET g == generating[h] IN
    /\ g.at = "name"
    /\ \E p \in {q \in Plans : plan[q] = Nothing /\ \A k \in Handlers : swap[k].plan # q} :
          /\ plan' = [plan EXCEPT ![p] = [owner |-> g.user, slots |-> g.built, estimate |-> g.total]]
          /\ slotsHad' = [slotsHad EXCEPT ![p] = {g.built}]
          /\ adrift' = adrift \ {p}
          /\ outdated' = IF g.costs = costs /\ g.menu = menu THEN outdated \ {p} ELSE outdated \cup {p}
    /\ generating' = [generating EXCEPT ![h] = NoPlanning]
    /\ UNCHANGED <<costs, menu, swap, planCalls, past, builderVars>>

GenerateFails(h) ==
    /\ generating[h].at \in {"costs", "name"}
    /\ generating' = [generating EXCEPT ![h] = NoPlanning]
    /\ UNCHANGED <<plan, costs, menu, swap, planCalls, adrift, outdated, slotsHad, past, builderVars>>

RemovePlan(u, p) ==
    /\ plan[p] # Nothing /\ plan[p].owner = u
    /\ plan' = [plan EXCEPT ![p] = Nothing]
    /\ UNCHANGED <<costs, menu, generating, swap, planCalls, adrift, outdated, slotsHad, past, builderVars>>

-----------------------------------------------------------------------------
\* The recipe of an id.
DishIn(m, id) == m[CHOOSE n \in DOMAIN m : m[n].id = id]

\* updateSlot: plan, slot and recipe are found and allowed.  The diet of the
\* plan is not asked again.
CheckSlot(h, u, p, s, dish, servings) ==
    /\ Free(h) /\ Call
    /\ plan[p] # Nothing /\ plan[p].owner = u /\ s \in DOMAIN plan[p].slots
    /\ dish # 0 => MayUse(u, DishIn(menu, dish))
    /\ swap' = [swap EXCEPT ![h] = Swap("write", p, s, dish, servings)]
    /\ adrift' = IF \E k \in Handlers : swap[k].plan = p THEN adrift \cup {p} ELSE adrift \ {p}
    /\ UNCHANGED <<plan, costs, menu, generating, outdated, slotsHad, past, builderVars>>

AtSwap(h, at) == swap' = [swap EXCEPT ![h].at = at]

\* Only what was given is changed.
Given(slot, w) ==
    [dish |-> IF w.dish = 0 THEN slot.dish ELSE w.dish,
     servings |-> IF w.servings = 0 THEN slot.servings ELSE w.servings]

WriteSlot(h) ==
    LET w == swap[h] IN
    /\ w.at = "write"
    /\ IF plan[w.plan] = Nothing THEN /\ swap' = [swap EXCEPT ![h] = NoSwap]
                                      /\ UNCHANGED <<plan, slotsHad>>
       ELSE /\ plan' = [plan EXCEPT ![w.plan].slots[w.slot] = Given(@, w)]
            /\ slotsHad' = [slotsHad EXCEPT ![w.plan] = @ \cup {plan'[w.plan].slots}]
            /\ AtSwap(h, "read")
    /\ UNCHANGED <<costs, menu, generating, planCalls, adrift, outdated, past, builderVars>>

\* recomputeEstimatedCost: the slots with their recipes, then the prices, then
\* the sum.
ReadSlots(h) ==
    LET w == swap[h] IN
    /\ w.at = "read"
    /\ swap' = [swap EXCEPT ![h] = [@ EXCEPT !.at = "price", !.menu = menu,
                   !.read = IF plan[w.plan] = Nothing THEN <<>> ELSE plan[w.plan].slots]]
    /\ UNCHANGED <<plan, costs, menu, generating, planCalls, adrift, outdated, slotsHad, past, builderVars>>

PriceSlots(h) ==
    /\ swap[h].at = "price"
    /\ swap' = [swap EXCEPT ![h] = [@ EXCEPT !.at = "sum", !.costs = costs]]
    /\ UNCHANGED <<plan, costs, menu, generating, planCalls, adrift, outdated, slotsHad, past, builderVars>>

\* Mutant: the estimate counts every slot as one serving.
TotalOf(slots, m, c) ==
    LET Cost(s) == CostPerServing(DishIn(m, slots[s].dish), c)
    IN MapThenSumSet(Cost, DOMAIN slots)

Reestimated(slots, m, c) ==
    LET Cost(s) == CostPerServing(DishIn(m, slots[s].dish), c) * slots[s].servings
    IN MapThenSumSet(Cost, DOMAIN slots)

WriteEstimate(h) ==
    LET w == swap[h] IN
    /\ w.at = "sum"
    /\ plan' = IF plan[w.plan] = Nothing THEN plan
               ELSE [plan EXCEPT ![w.plan].estimate = Reestimated(w.read, w.menu, w.costs)]
    /\ outdated' = IF w.costs = costs /\ w.menu = menu THEN outdated \ {w.plan}
                   ELSE outdated \cup {w.plan}
    /\ swap' = [swap EXCEPT ![h] = NoSwap]
    /\ UNCHANGED <<costs, menu, generating, planCalls, adrift, slotsHad, past, builderVars>>

\* A statement fails or the process ends: the slot may be changed, the estimate
\* is not.
UpdateSlotFails(h) ==
    /\ swap[h].at # "idle"
    /\ adrift' = adrift \cup {swap[h].plan}
    /\ swap' = [swap EXCEPT ![h] = NoSwap]
    /\ UNCHANGED <<plan, costs, menu, generating, planCalls, outdated, slotsHad, past, builderVars>>

-----------------------------------------------------------------------------
\* Prices change under the plans that are there or being made.
PricesChange ==
    /\ Call
    /\ costs' \in CostTables \ {costs}
    /\ outdated' = Plans
    /\ past' = [past EXCEPT !.costs = @ \cup {costs'}]
    /\ UNCHANGED <<plan, menu, generating, swap, adrift, slotsHad, builderVars>>

\* A statement of a recipe's update, which replaces its lines one by one, of its
\* deletion or of its processing.  The plans that hold the recipe stay.
EditDish(n) ==
    /\ Call
    /\ \E d \in Dishes[n] \ {menu[n]} : menu' = [menu EXCEPT ![n] = d]
    /\ outdated' = outdated \cup
          {p \in Plans : plan[p] # Nothing /\ \E s \in DOMAIN plan[p].slots :
                            plan[p].slots[s].dish = menu[n].id}
    /\ past' = [past EXCEPT !.menus = @ \cup {menu'}]
    /\ UNCHANGED <<plan, costs, generating, swap, adrift, slotsHad, builderVars>>

MealNext ==
    \/ \E h \in Handlers, u \in Users :
          \/ \E body \in PlanBodies : GatherDishes(h, u, body)
          \/ \E p \in Plans, s \in 1..2, dish \in {0} \cup {menu[n].id : n \in DOMAIN menu},
                servings \in {0, 2} : CheckSlot(h, u, p, s, dish, servings)
    \/ \E h \in Handlers : \/ StartBuilding(h) \/ FinishBuilding(h) \/ CreatePlan(h)
                           \/ GenerateFails(h) \/ WriteSlot(h) \/ ReadSlots(h) \/ PriceSlots(h)
                           \/ WriteEstimate(h) \/ UpdateSlotFails(h)
    \/ BuildOn \/ PricesChange
    \/ \E n \in DOMAIN Dishes : EditDish(n)
    \/ \E u \in Users, p \in Plans : RemovePlan(u, p)

MealSpec == MealInit /\ [][MealNext]_<<mealVars, builderVars>>

-----------------------------------------------------------------------------
\* What slots cost, by some recipes and prices.
CostOf(slots, m, c) ==
    LET Cost(s) == slots[s].servings * CostPerServing(DishIn(m, slots[s].dish), c)
    IN MapThenSumSet(Cost, DOMAIN slots)

\* meal-plans.service.ts:303: whatever changes overlap or break off, the
\* estimate a plan shows is what slots it has had cost by recipes and prices
\* there have been, never a mixture of slots it never had.  Once the last change
\* of it has ended, alone and well, they are the slots it has; and unless prices
\* moved since, or a recipe it holds was edited, the estimate is what it costs.
EstimateFollowsSlots ==
    \A p \in Plans : plan[p] # Nothing =>
       LET slots == plan[p].slots
           quiet == p \notin adrift /\ \A h \in Handlers : swap[h].plan # p
       IN /\ \E past_slots \in slotsHad[p], m \in past.menus, c \in past.costs :
                /\ plan[p].estimate = CostOf(past_slots, m, c)
                /\ quiet => past_slots = slots
          /\ quiet /\ p \notin outdated => plan[p].estimate = CostOf(slots, menu, costs)

\* plan-builder.ts:104 with diet-filter.ts:137: every meal of what is about to
\* be created is a recipe that, when it was read, was the user's to use and kept
\* to the restrictions in force; and the whole is within the budget whenever a
\* plan within it exists, one of a single recipe.
PlanIsAllowed ==
    \A h \in Handlers : generating[h].at = "name" =>
       LET g == generating[h]
           meals == g.body.opts.days * g.body.opts.meals
           Read(k) == g.menu[g.found[k]]
       IN /\ Len(g.built) = meals
          /\ \A s \in DOMAIN g.built : \E k \in DOMAIN g.found :
                /\ g.built[s].dish = Read(k).id /\ MayUse(g.user, Read(k))
                /\ \A r \in Restrictions(g.body) : ~Violates(Read(k), r)
          /\ g.body.opts.budget # NoLimit
             /\ (\E k \in DOMAIN g.found :
                    meals * CostPerServing(Read(k), g.costs) <= g.body.opts.budget)
                => g.total <= g.body.opts.budget

\* What a plan shows its owner: its dishes and what they cost.
PlansAreSound == EstimateFollowsSlots /\ PlanIsAllowed
=============================================================================

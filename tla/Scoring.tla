------------------------------ MODULE Scoring ------------------------------
(***************************************************************************)
(* What a recipe costs and how well it fits: scoring.ts, recipe-cost.util  *)
(* .ts and the pantry coverage of recommendations.service.ts.  Scores are  *)
(* in ten-thousandths (the code rounds there); grams and cents are whole.  *)
(* Divisions are floored where the code has a fraction and rounds later.   *)
(***************************************************************************)
EXTENDS Integers, FiniteSets, FiniteSetsExt, Sequences

Unknown == -1     \* null
One == 10000      \* 1.0
DefaultMaxBudget == 800

AbsDiff(a, b) == IF a < b THEN b - a ELSE a - b
AtLeast0(v) == IF v < 0 THEN 0 ELSE v
Clamp01(v) == IF v < 0 THEN 0 ELSE IF v > One THEN One ELSE v

\* Math.round(a / b) of non-negative numbers.
RoundDiv(a, b) == (2 * a + b) \div (2 * b)

BudgetFit(costPerServing, maxBudget) ==
    IF maxBudget <= 0 THEN 0 ELSE Clamp01(One - (costPerServing * One) \div maxBudget)

\* One at the target, down to zero at twice the target.  The target is
\* daily / meals.
Closeness(actual, daily, meals) ==
    IF daily <= 0 THEN One \div 2
    ELSE AtLeast0(One - (AbsDiff(actual * meals, daily) * One) \div daily)

\* The mean of the goals that are set, the health score without any, a neutral
\* half without nutrition.
NutritionFit(nutrition, goals, mealsPerDay) ==
    LET meals == IF mealsPerDay < 1 THEN 1 ELSE mealsPerDay
        calories == Closeness(nutrition.calories, goals.calories, meals)
        protein == Closeness(nutrition.protein, goals.protein, meals)
    IN CASE nutrition.health = Unknown -> One \div 2
         [] nutrition.health # Unknown /\ goals.calories > 0 /\ goals.protein > 0 ->
               (calories + protein) \div 2
         [] nutrition.health # Unknown /\ goals.calories > 0 /\ goals.protein <= 0 -> calories
         [] nutrition.health # Unknown /\ goals.calories <= 0 /\ goals.protein > 0 -> protein
         [] OTHER -> Clamp01(nutrition.health * 100)

RecommendationScore(coverage, costPerServing, maxBudget, nutrition, goals) ==
    (5 * Clamp01(coverage) + 3 * BudgetFit(costPerServing, maxBudget)
       + 2 * NutritionFit(nutrition, goals, 3)) \div 10

-----------------------------------------------------------------------------
\* The cost of a line: per kilogram where grams and a price per kilogram are
\* known, one pack otherwise; nothing when the ingredient has no price.
Priced(line, costs) ==
    /\ ~line.optional /\ line.ingredient \in DOMAIN costs
    /\ \/ costs[line.ingredient].perKg # Unknown /\ line.qty > 0
       \/ costs[line.ingredient].pack # Unknown

LineCost(line, costs) ==
    IF ~Priced(line, costs) THEN 0
    ELSE LET c == costs[line.ingredient]
         IN IF c.perKg # Unknown /\ line.qty > 0 THEN RoundDiv(c.perKg * line.qty, 1000) ELSE c.pack

EstimateRecipeCost(lines, costs) ==
    SumFunction([n \in DOMAIN lines |-> LineCost(lines[n], costs)])

CostPerServing(recipe, costs) ==
    RoundDiv(EstimateRecipeCost(recipe.lines, costs),
             IF recipe.servings < 1 THEN 1 ELSE recipe.servings)

-----------------------------------------------------------------------------
\* The lines a pantry could cover: required, linked and in grams.
Coverable(lines) ==
    {n \in DOMAIN lines : ~lines[n].optional /\ lines[n].ingredient # "" /\ lines[n].qty > 0}

Need(lines) == SumFunction([n \in Coverable(lines) |-> lines[n].qty])

\* Each line is compared with all that is at hand of its ingredient.
PantryCoverage(lines, stock) ==
    LET least == [n \in Coverable(lines) |-> IF stock[lines[n].ingredient] < lines[n].qty
                                             THEN stock[lines[n].ingredient] ELSE lines[n].qty]
    IN IF Need(lines) = 0 THEN 0 ELSE (SumFunction(least) * One) \div Need(lines)

Missing(lines, stock) ==
    {n \in DOMAIN lines : /\ ~lines[n].optional
                          /\ n \in Coverable(lines) => stock[lines[n].ingredient] < lines[n].qty}
=============================================================================

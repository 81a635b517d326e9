---------------------------- MODULE MCHousehold ----------------------------
(* What a user works with: pantry, baskets, the assistant that reads both, *)
(* meal plans, the account itself.  Each behaviour is about one of them    *)
(* (focus): pantry, baskets over a changing pantry, chats over a pantry    *)
(* and a basket, plans, the plan builder on pools of its own, accounts;   *)
(* or it is about one of the engines of MCAlgorithms.                      *)
EXTENDS Assistant, MealPlans, Accounts, MCAlgorithms, TLC

CONSTANTS i1, i2, rice, r1, b1

\* One ingredient, a name that is it and one that is nothing.
RiceOnly == [n \in {"rice", "junk"} |-> IF n = "rice" THEN rice ELSE Nothing]
NotKnown == [g \in Ingredients |-> Nothing0]

Entry(q, unit) == [name |-> "rice", qty |-> q, unit |-> unit]
SomeEntries == {Entry(2, "kg"), Entry(1, "piece"), Entry(1, "cup")}
Ask(q, consumed, wasted) == [qty |-> q, consumed |-> consumed, wasted |-> wasted]
SomeChanges == {Ask(1, FALSE, FALSE), Ask(5, TRUE, FALSE), Ask(Nothing, FALSE, TRUE)}
Junk == [name |-> "junk", qty |-> 0, unit |-> Nothing]
SomeScans ==
    {<<[named |-> FALSE, guess |-> Junk]>>,
     <<[named |-> TRUE, guess |-> Junk], [named |-> TRUE, guess |-> Entry(1, "kg")]>>}

\* A recipe with two lines of one ingredient and one of none.
BookLine(g, text, qty) == [ingredient |-> g, text |-> text, qty |-> qty]
OneRecipe ==
    [r \in {r1} |-> [owner |-> 1, public |-> FALSE,
        lines |-> <<BookLine(rice, "a", 1000000), BookLine(rice, "b", 1250000),
                    BookLine(Nothing, "c", Nothing)>>]]
Body(r, exclude) ==
    [recipe |-> r, servings |-> 1, names |-> {"rice", "junk"}, usePantry |-> TRUE,
     exclude |-> exclude]
SomeWishes == {Body(r1, {}), Body(Nothing, {"GIANT"})}
OneOffer ==
    {[ingredient |-> rice, sim |-> 60, store |-> "GIANT", live |-> TRUE, priceCents |-> 300,
      pack |-> 1, unit |-> "piece", count |-> 1]}

Tool(name) ==
    [tool |-> name, about |-> "rice", limit |-> IF name = "search_products" THEN "GIANT" ELSE 100]
SomeCalls == {Tool(n) : n \in {"get_recipes", "get_pantry", "get_budget_status",
                               "compare_ingredient_prices", "search_products"}}
MenuLine(g, qty) == [ingredient |-> g, qty |-> qty, optional |-> FALSE]
OneDish ==
    <<[id |-> 1, owner |-> 1, public |-> FALSE, ready |-> TRUE, lines |-> <<MenuLine(rice, 10)>>,
       servings |-> 1]>>
FiftyAPack == [g \in {rice} |-> [pack |-> 50, perKg |-> Unknown]]
FiveHundred == [u \in Users |-> 500]
Fifty == [b \in Baskets |-> 50]
MatchedRice == [g \in {rice} |-> <<[store |-> "GIANT", priceCents |-> 300, live |-> TRUE, sim |-> 60],
                                   [store |-> "GIANT", priceCents |-> 200, live |-> TRUE, sim |-> 50]>>]
RiceOnShelf == <<[store |-> "GIANT", live |-> TRUE, sim |-> 60]>>
NoSubstitutes == [g \in {rice} |-> <<>>]

\* Three dishes, one a diet forbids: the first may lose a line and be for fewer,
\* the second be deleted.  Prices that move; two requests, one with a calorie
\* goal, one with a goal of protein.
DishLine(g, qty, words) ==
    [ingredient |-> g, qty |-> qty, optional |-> FALSE, words |-> words, category |-> "OTHER"]
Dish(id, owner, tags, lines, servings, calories) ==
    [id |-> id, owner |-> owner, public |-> owner = 2, ready |-> TRUE, tags |-> tags, lines |-> lines,
     servings |-> servings,
     nutrition |-> [calories |-> calories, protein |-> 20, health |-> IF id = 3 THEN Unknown ELSE 50]]
Noodles(lines) == Dish(1, 1, {"noodles"}, lines, Len(lines), 500)
Stew == Dish(2, 2, {}, <<DishLine("a", 1000, {}), DishLine("b", 0, {})>>, 2, 900)
ThreeDishes ==
    <<{Noodles(<<DishLine("b", 0, {}), DishLine("a", 500, {"noodle"})>>), Noodles(<<DishLine("b", 0, {})>>)},
      {Stew, [Stew EXCEPT !.ready = FALSE]},
      {Dish(3, 2, {}, <<DishLine("b", 0, {})>>, 1, 500)}>>
FirstMenu ==
    [n \in 1..3 |-> CHOOSE d \in ThreeDishes[n] : d.ready /\ \A e \in ThreeDishes[n] : e.servings <= d.servings]
Table(perKg) ==
    [g \in {"a", "b"} |-> IF g = "a" THEN [pack |-> 100, perKg |-> perKg]
                          ELSE [pack |-> 200, perKg |-> Unknown]]
TwoTables == {Table(400), Table(600)}
Asks(calories, budget) == [days |-> 1, meals |-> 2, calories |-> calories, budget |-> budget]
SomeBodies ==
    {[opts |-> Asks(1500, 400), protein |-> Unknown, restrictions |-> {"glutenFree", "halal"}],
     [opts |-> Asks(Unknown, 350), protein |-> 60, restrictions |-> {}]}
NoDiet == {}
NoGoals == [calories |-> 0, protein |-> 0]

\* Pools of three candidates over two days of two meals.
Candidate3(a, b, c) ==
    <<[id |-> 1, cost |-> a, calories |-> 400, base |-> 5000],
      [id |-> 2, cost |-> b, calories |-> 600, base |-> 4000],
      [id |-> 3, cost |-> c, calories |-> 900, base |-> 6000]>>
SomePools == {Candidate3(a, b, c) : a, b, c \in {1, 2, 4}}
SomeOptions ==
    {[days |-> 2, meals |-> 2, calories |-> c, budget |-> b] :
        c \in {NoLimit, 1000}, b \in {NoLimit, 4, 7}}

-----------------------------------------------------------------------------
HouseholdInit ==
    /\ focus \in {"pantry", "basket", "chat", "plan", "builder", "account"} \cup Engines
    /\ IF focus = "chat"
       THEN /\ larder = [i \in Items |-> IF i = i1 THEN Row(1, Entry(2, "kg"), "manual") ELSE Nothing]
            /\ basket = [b \in Baskets |-> [owner |-> 1, status |-> "PURCHASED", lines |-> {rice},
                                            unmatched |-> {}, checked |-> {}]]
       ELSE larder = [i \in Items |-> Nothing] /\ basket = [b \in Baskets |-> Nothing]
    /\ usage = [i \in Items |-> <<>>]
    /\ started = [i \in Items |-> IF larder[i] = Nothing THEN 0 ELSE larder[i].qty]
    /\ edit = [h \in Handlers |-> NoEdit] /\ scanning = [h \in Handlers |-> Nothing]
    /\ updates = 0 /\ crossed = {}
    /\ wish = [h \in Handlers |-> NoWish] /\ touch = [h \in Handlers |-> Nothing] /\ wishes = 0
    /\ AssistantInit /\ MealInit /\ AccountInit
    /\ menu = FirstMenu /\ costs = Table(400)
    /\ AlgorithmsInit

\* Beside a basket the pantry is changed in the simplest ways, once.
SimplePantry ==
    \/ \E e \in Entries : CreateItem(1, e)
    \/ \E h \in Handlers, i \in Items, ask \in Changes : updates = 0 /\ ReadItem(h, 1, i, ask)
    \/ \E h \in Handlers : CommitUpdate(h)

\* The last call about a plan changes servings, after others of it have ended.
LastCall ==
    \/ planCalls = MaxPlanCalls
    \/ \E h \in Handlers : /\ swap'[h].at = "write" /\ swap'[h].dish = 0 /\ swap'[h].servings # 0
                            /\ \A k \in Handlers : swap[k].at = "idle" /\ generating[k].at = "idle"

HouseholdNext ==
    /\ UNCHANGED focus
    /\ \/ /\ focus = "pantry" /\ PantryNext
          /\ \A i \in Items : larder'[i] # Nothing => larder'[i].unit # "cup"
          /\ UNCHANGED <<basketVars, assistantVars, mealVars, builderVars, accountVars, algorithmVars>>
       \/ /\ focus = "basket"
          /\ \/ SimplePantry /\ UNCHANGED basketVars
             \/ BasketNext /\ UNCHANGED pantryVars
          /\ UNCHANGED <<assistantVars, mealVars, builderVars, accountVars, algorithmVars>>
       \/ /\ focus = "chat" /\ AssistantNext
          /\ UNCHANGED <<pantryVars, basketVars, mealVars, builderVars, accountVars, algorithmVars>>
       \/ /\ focus = "plan" /\ MealNext /\ (planCalls' = MaxPlanCalls => LastCall)
          /\ UNCHANGED <<pantryVars, basketVars, assistantVars, accountVars, algorithmVars>>
       \/ /\ focus = "builder" /\ BuilderNext
          /\ UNCHANGED <<pantryVars, basketVars, assistantVars, mealVars, accountVars, algorithmVars>>
       \/ /\ focus = "account" /\ AccountNext
          /\ UNCHANGED <<pantryVars, basketVars, assistantVars, mealVars, builderVars, algorithmVars>>
       \/ /\ AlgorithmsNext
          /\ UNCHANGED <<pantryVars, basketVars, assistantVars, mealVars, builderVars, accountVars>>

HouseholdSpec ==
    HouseholdInit
      /\ [][HouseholdNext]_<<focus, pantryVars, basketVars, assistantVars, mealVars, builderVars,
                             accountVars, algorithmVars>>

\* Requests are told apart by nothing but their names.
Symmetry == Permutations(Handlers)
=============================================================================

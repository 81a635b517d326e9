----------------------------- MODULE DietFilter -----------------------------
(***************************************************************************)
(* Which recipes a diet allows: diet-filter.ts.  What the patterns find in *)
(* an ingredient's name is a set of word classes (one per pattern, or per  *)
(* part of a pattern that a rule tells apart); a word may belong to        *)
(* several.  The soft restrictions and unknown ones have no rule.          *)
(***************************************************************************)
EXTENDS Naturals

\* The sauces are among MEAT_NAMES; "bacon" stands for the pork of
\* HALAL_FORBIDDEN that MEAT_NAMES has too.
Meat == {"chicken", "bacon", "sauces"}
Seafood == {"fish", "prawn"}
Gluten == {"wheat", "noodle", "kway teow"}
GlutenExceptions == {"rice noodle", "kway teow", "tamari"}
HalalForbidden == {"bacon", "wine"}

Rule(categories, names, exceptions, tags, tagExceptions) ==
    [forbiddenCategories |-> categories, forbiddenNames |-> names, nameExceptions |-> exceptions,
     forbiddenTags |-> tags, tagExceptions |-> tagExceptions]

Rules ==
    [vegetarian |-> Rule({"MEAT", "SEAFOOD"}, Meat \cup Seafood, {"mock"},
                         {"meat", "seafood", "pork", "chicken"}, {}),
     vegan |-> Rule({"MEAT", "SEAFOOD", "DAIRY", "EGGS"},
                    Meat \cup Seafood \cup {"milk", "egg", "honey"},
                    {"plant milk", "mock", "eggplant"}, {"meat", "seafood", "dairy", "egg"}, {}),
     pescatarian |-> Rule({"MEAT"}, Meat, {"sauces"}, {"meat", "pork", "chicken"}, {}),
     halal |-> Rule({}, HalalForbidden, {"halal"}, {"pork", "alcohol"}, {}),
     glutenFree |-> Rule({}, Gluten, GlutenExceptions, {"noodles", "bread"}, GlutenExceptions),
     dairyFree |-> Rule({"DAIRY"}, {"milk"}, {"plant milk"}, {"dairy"}, {}),
     nutFree |-> Rule({}, {"peanut"}, {"coconut"}, {"nuts", "satay"}, {}),
     lowCarb |-> Rule({"GRAINS", "BAKERY", "NOODLES_PASTA"}, {"rice", "noodle", "sugar"},
                      {"shirataki"}, {"dessert", "noodles", "bread"}, {})]

NameViolates(words, rule) ==
    words \cap rule.nameExceptions = {} /\ words \cap rule.forbiddenNames # {}

\* A forbidden tag is forgiven when some ingredient is one of its exceptions.
TagViolates(recipe, rule) ==
    /\ recipe.tags \cap rule.forbiddenTags # {}
    /\ \A n \in DOMAIN recipe.lines : recipe.lines[n].words \cap rule.tagExceptions = {}

Violates(recipe, restriction) ==
    /\ restriction \in DOMAIN Rules
    /\ LET rule == Rules[restriction] IN
       \/ \E n \in DOMAIN recipe.lines : \/ recipe.lines[n].category \in rule.forbiddenCategories
                                         \/ NameViolates(recipe.lines[n].words, rule)
       \/ TagViolates(recipe, rule)

IsRecipeAllowed(recipe, restrictions) == \A r \in restrictions : ~Violates(recipe, r)

FilterRecipesByDiet(recipes, restrictions) ==
    {r \in recipes : IsRecipeAllowed(r, restrictions)}
=============================================================================

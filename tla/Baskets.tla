------------------------------ MODULE Baskets ------------------------------
(***************************************************************************)
(* Baskets: baskets.service.ts.  A request to optimise collects what a     *)
(* recipe and a list of names need, takes off what the pantry has (see     *)
(* Pantry) and gathers the offers for the rest; the optimizer (see         *)
(* BasketOptimizer) works on those.  The client saves a result as a        *)
(* basket, and later checks lines, changes the status or deletes it, each  *)
(* after a statement that looks the basket up for its owner.               *)
(*                                                                         *)
(* Quantities are milligrams; half a gram left over is nothing.            *)
(***************************************************************************)
EXTENDS Pantry

CONSTANTS Cookbook,       \* Cookbook[r]: [owner, public, lines], lines of [ingredient, text, qty]
          Wishes,         \* bodies of optimise: [recipe, servings, names, usePantry, exclude]
          Offered,        \* product matches: [ingredient, sim, store, live, priceCents, pack,
                          \* unit, count]
          Baskets,
          MaxWishes

\* The key of a text is no ingredient's id: baskets.service.ts puts "raw:" before
\* it.
ASSUME BasketsAssumption ==
    /\ MaxWishes \in Nat /\ Nothing \notin Baskets
    /\ IsFiniteSet(Items) /\ Nothing \notin Ingredients
    /\ Density \in [Ingredients -> Int] /\ GramsPerPiece \in [Ingredients -> Int]
    /\ \A n \in DOMAIN NamesOf : n \notin Ingredients /\ NamesOf[n] \in Ingredients \cup {Nothing}
    /\ \A r \in DOMAIN Cookbook :
          LET lines == Cookbook[r].lines
          IN  /\ IsFiniteSet(DOMAIN lines)
              /\ \A n \in DOMAIN lines : /\ lines[n].ingredient \in Ingredients \cup {Nothing}
                                         /\ lines[n].text \notin Ingredients
                                         /\ lines[n].qty \in Int \cup {Nothing}
    /\ \A body \in Wishes : /\ body.recipe \in DOMAIN Cookbook \cup {Nothing}
                            /\ body.servings \in Nat /\ body.names \subseteq DOMAIN NamesOf
                            /\ body.usePantry \in BOOLEAN

VARIABLES
    wish,       \* wish[h]: an optimise request, [at, user, body, asked, had, kept]
    basket,     \* basket[b]: [owner, status, lines, unmatched, checked], or Nothing
    touch,      \* touch[h]: a basket looked up, about to be changed
    wishes      \* requests begun

basketVars == <<wish, basket, touch, wishes>>

NoWish == [at |-> "idle", user |-> Nothing, body |-> Nothing, asked |-> {}, had |-> Nothing,
           kept |-> {}]

BasketInit ==
    /\ wish = [h \in Handlers |-> NoWish]
    /\ basket = [b \in Baskets |-> Nothing]
    /\ touch = [h \in Handlers |-> Nothing]
    /\ wishes = 0

-----------------------------------------------------------------------------
\* Requirements.

\* One requirement per ingredient, or per text where none is linked.
KeyOf(line) == IF line.ingredient # Nothing THEN line.ingredient ELSE line.text

\* addRecipeRequirements: the quantities of lines with the same key add up;
\* one that is not known or not positive adds nothing.
RecipeRequirements(r, servings) ==
    LET lines == Cookbook[r].lines
        Of(k) == {n \in DOMAIN lines : KeyOf(lines[n]) = k}
        Known(k) == {n \in Of(k) : lines[n].qty # Nothing /\ lines[n].qty > 0}
        Qty(n) == lines[n].qty * servings
    IN {[key |-> k,
         linked |-> \E n \in Of(k) : lines[n].ingredient # Nothing,
         qty |-> IF Known(k) = {} THEN Nothing ELSE MapThenSumSet(Qty, Known(k))] :
           k \in {KeyOf(lines[n]) : n \in DOMAIN lines}}

\* addNamedRequirements: the ingredient the name resolves to, if the recipe does
\* not need it already, without a quantity.
NamedRequirements(names, reqs) ==
    LET Key(n) == IF NamesOf[n] # Nothing THEN NamesOf[n] ELSE n
    IN {[key |-> Key(n), linked |-> NamesOf[n] # Nothing, qty |-> Nothing] :
           n \in {m \in names : \A req \in reqs : req.key # Key(m)}}

\* subtractPantry adds the pantry up by itself.
PantryGrams(u, g) ==
    LET stock == {i \in Active(u) : larder[i].ingredient = g}
        Canonical(i) == ToCanonical(larder[i].qty, larder[i].unit, Density[g], GramsPerPiece[g])
        Value(i) == Canonical(i).value
    IN MapThenSumSet(Value, {i \in stock : Canonical(i).unit \in {"g", "ml"}})

HalfGram == 500

\* Mutant: what the pantry has of an ingredient covers it.
NeededIfAbsent(req, had) ==
    IF ~req.linked \/ req.qty = Nothing \/ had[req.key] <= 0 THEN {req} ELSE {}

\* What is left to buy of a requirement: all, the rest, or nothing.
Needed(req, had) ==
    IF ~req.linked \/ req.qty = Nothing \/ had[req.key] <= 0 THEN {req}
    ELSE IF req.qty - had[req.key] > HalfGram THEN {[req EXCEPT !.qty = @ - had[req.key]]}
    ELSE {}

SubtractPantry(reqs, had) == UNION {Needed(req, had) : req \in reqs}

\* buildOffers: available products of active stores that were not excluded,
\* similar enough and with a price.
Eligible(req, exclude) ==
    {o \in Offered : /\ req.linked /\ o.ingredient = req.key
                     /\ o.sim >= 45 /\ o.live /\ o.priceCents # Nothing
                     /\ o.store \notin exclude}

\* toOffer: a pack's grams, or of pieces by the ingredient's weight if known.
ToOffer(o) ==
    LET canonical == PackSizeToCanonical(o.pack, o.unit, o.count)
        pieces == canonical.unit = "piece"
    IN [store |-> o.store, priceCents |-> o.priceCents, packIsPiece |-> pieces,
        packQty |-> IF ~pieces THEN canonical.value
                    ELSE IF GramsPerPiece[o.ingredient] > 0
                         THEN canonical.value * GramsPerPiece[o.ingredient]
                         ELSE Nothing]

OffersFor(req, exclude) == {ToOffer(o) : o \in Eligible(req, exclude)}

-----------------------------------------------------------------------------
\* optimise, after the quota: recipe and names are read.
PrepareRequirements(h, u, body) ==
    LET fromRecipe == IF body.recipe = Nothing THEN {}
                      ELSE RecipeRequirements(body.recipe, body.servings)
        all == fromRecipe \cup NamedRequirements(body.names, fromRecipe)
    IN /\ wish[h].at = "idle" /\ wishes < MaxWishes
       /\ body.recipe # Nothing \/ body.names # {}
       /\ body.recipe # Nothing =>
             Cookbook[body.recipe].owner = u \/ Cookbook[body.recipe].public
       /\ wish' = [wish EXCEPT ![h] = [at |-> "pantry", user |-> u, body |-> body, asked |-> all,
                                       had |-> Nothing, kept |-> {}]]
       /\ wishes' = wishes + 1
       /\ UNCHANGED <<basket, touch>>

\* The pantry is read now; without it nothing is taken off.
ReadPantry(h) ==
    LET w == wish[h]
        none == [g \in Ingredients |-> 0]
        stock == [g \in Ingredients |-> PantryGrams(w.user, g)]
        Answer(had, kept) == [at |-> "answered", user |-> w.user, body |-> w.body,
                              asked |-> w.asked, had |-> had, kept |-> kept]
    IN /\ w.at = "pantry"
       /\ wish' = [wish EXCEPT ![h] =
             IF w.body.usePantry THEN Answer(Coverage(w.user), SubtractPantry(w.asked, stock))
             ELSE Answer(none, w.asked)]
       /\ UNCHANGED <<basket, touch, wishes>>

\* The client goes away, or a statement fails.
DropWish(h) ==
    /\ wish[h].at # "idle"
    /\ wish' = [wish EXCEPT ![h] = NoWish]
    /\ UNCHANGED <<basket, touch, wishes>>

\* A result of the optimizer: a line for each requirement, unmatched where it
\* had no offer.
SaveBasket(h, b) ==
    /\ wish[h].at = "answered" /\ basket[b] = Nothing
    /\ basket' = [basket EXCEPT ![b] =
          [owner |-> wish[h].user, status |-> "OPTIMIZED",
           lines |-> {req.key : req \in wish[h].kept},
           unmatched |-> {req.key : req \in {k \in wish[h].kept :
                                              OffersFor(k, wish[h].body.exclude) = {}}},
           checked |-> {}]]
    /\ wish' = [wish EXCEPT ![h] = NoWish]
    /\ UNCHANGED <<touch, wishes>>

\* requireOwn, before every change.
RequireOwn(h, u, b, change) ==
    /\ touch[h] = Nothing
    /\ basket[b] # Nothing /\ basket[b].owner = u
    /\ touch' = [touch EXCEPT ![h] = [basket |-> b, change |-> change]]
    /\ UNCHANGED <<wish, basket, wishes>>

Change(b, change) ==
    CASE change.kind = "delete" -> Nothing
      [] change.kind = "status" -> [basket[b] EXCEPT !.status = change.status]
      [] change.kind = "check" -> [basket[b] EXCEPT !.checked = @ \cup {change.line}]
      [] change.kind = "uncheck" -> [basket[b] EXCEPT !.checked = @ \ {change.line}]

\* The change itself; a basket deleted meanwhile makes it an error, a line that
\* is not the basket's is not found.
ChangeBasket(h) ==
    LET t == touch[h] IN
    /\ t # Nothing
    /\ basket' = IF \/ basket[t.basket] = Nothing
                    \/ t.change.kind \in {"check", "uncheck"}
                          /\ t.change.line \notin basket[t.basket].lines
                 THEN basket
                 ELSE [basket EXCEPT ![t.basket] = Change(t.basket, t.change)]
    /\ touch' = [touch EXCEPT ![h] = Nothing]
    /\ UNCHANGED <<wish, wishes>>

BasketChanges ==
    {[kind |-> "delete", status |-> "", line |-> Nothing]}
      \cup {[kind |-> "status", status |-> s, line |-> Nothing] : s \in {"PURCHASED", "ARCHIVED"}}
      \cup {[kind |-> k, status |-> "", line |-> g] : k \in {"check", "uncheck"}, g \in Ingredients}

BasketNext ==
    \/ \E h \in Handlers, u \in Users :
          \/ \E body \in Wishes : PrepareRequirements(h, u, body)
          \/ \E b \in Baskets, change \in BasketChanges : RequireOwn(h, u, b, change)
    \/ \E h \in Handlers : \/ ReadPantry(h) \/ DropWish(h) \/ ChangeBasket(h)
                           \/ \E b \in Baskets : SaveBasket(h, b)

\* Baskets beside a pantry that changes.
BasketSpec ==
    /\ PantryInit /\ BasketInit
    /\ [][\/ PantryNext /\ UNCHANGED basketVars
          \/ BasketNext /\ UNCHANGED pantryVars]_<<pantryVars, basketVars>>

-----------------------------------------------------------------------------
\* baskets.service.ts:175: what an answer leaves to buy and what the pantry had
\* when it was read make up what was asked for, up to half a gram; what cannot
\* be compared is bought.  (The pantry's own count, pantry.util.ts:21, is the
\* measure: subtractPantry has one of its own.)
BasketAndPantryCover ==
    \A h \in Handlers : wish[h].at = "answered" =>
       \A req \in wish[h].asked :
          LET left == {k \in wish[h].kept : k.key = req.key} IN
          IF ~req.linked \/ req.qty = Nothing THEN left = {req}
          ELSE LET buys == IF left = {} THEN 0 ELSE (CHOOSE k \in left : TRUE).qty
                   has == wish[h].had[req.key]
               IN /\ buys + has >= req.qty - HalfGram
                  /\ buys <= req.qty /\ (has > 0 /\ buys > 0 => buys + has = req.qty)
                  /\ Cardinality(left) <= 1
=============================================================================

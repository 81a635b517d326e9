---------------------------- MODULE MCAlgorithms ----------------------------
(* The engines that work on what they are given: the basket optimizer, the *)
(* readers of foreign data, forecasts, the summary and recommendations.    *)
(* They share no state, so each behaviour is about one of them (focus),    *)
(* with the others left at one state of theirs.  MCHousehold adds what the *)
(* engines work for.                                                       *)
EXTENDS BasketOptimizer, ForeignData, Insights

CONSTANTS s1, s2, s3

VARIABLE focus

\* Three requirements, one of unknown quantity, and three stores: two that may
\* list a small and a large pack of each, and one with a single offer.
TwoOrThree == {<<2, 3, 0>>}

\* A pack of one, a pack of three at a discount, and a piece of another tier.
Small(s) == [store |-> s, pack |-> 1, price |-> 3, tier |-> 2]
Large(s) == [store |-> s, pack |-> 3, price |-> IF s = s1 THEN 7 ELSE 8, tier |-> 1]
Piece(s) == [store |-> s, pack |-> 0, price |-> 5, tier |-> 3]

StoreShelf(s) == CASE s = s1 -> {<<>>, <<Small(s)>>, <<Small(s), Large(s)>>}
              [] s = s2 -> {<<>>, <<Small(s)>>, <<Large(s)>>, <<Small(s), Large(s)>>}
              [] s = s3 -> {<<>>, <<Piece(s)>>}

Shelves == {a \o b \o c : a \in StoreShelf(s1), b \in StoreShelf(s2), c \in StoreShelf(s3)}

\* What is asked for in no known quantity has one pack of a store at most.
PlainShelves == {shelf \in Shelves : \A j, k \in DOMAIN shelf : shelf[j].store = shelf[k].store => j = k}

AllShelves == {<<a, b, c>> : a, b \in Shelves, c \in PlainShelves}

Terms(f1, f2, f3, free) ==
    [s \in Stores |-> [fee |-> CASE s = s1 -> f1 [] s = s2 -> f2 [] s = s3 -> f3,
                       freeFrom |-> IF s = s1 THEN free ELSE 0]]

SomeTerms == {Terms(4, 2, 1, 10), Terms(3, 0, 6, 7)}

Tenths == [s \in Stores |-> IF s = s1 THEN 38 ELSE 43]

-----------------------------------------------------------------------------
\* Records with any of the price, promotion, size, unit and count columns.
Cell(n) == [NoCell EXCEPT !.num = n]
Word(t) == [NoCell EXCEPT !.text = t]
Size(c, s, u) == [NoCell EXCEPT !.size = <<c, s, u>>]
With(f, cells) == {<<>>} \cup {[n \in {f} |-> c] : c \in cells}

Cells(sets) ==
    LET Both(fs, gs) == {Merge(f, g) : f \in fs, g \in gs}
    IN FoldLeft(Both, {[n \in {"product"} |-> Word("rice")]}, sets)

Promotions == UNION {With("was_price", {Cell(600)}), With("promo_price", {Cell(200), Cell(900)}),
                     With("promo", {[NoCell EXCEPT !.yes = 1]})}

Records ==
    Cells(<<With("price", {Cell(500), Cell(0), Cell(250)}), With("cents", {Cell(30000)}), Promotions,
            With("size", {Cell(200), Size(200, 25000, "g"), Size(-1, 0, "g"), Size(-1, 100, "barrel")}),
            With("uom", {Word("kg"), Word("each"), Word("barrel")}), With("count", {Cell(300), Cell(30)})>>)

Other == [n \in {"title", "cents", "weight"} |->
             CASE n = "title" -> Word("x") [] n = "cents" -> Cell(10000)
               [] n = "weight" -> Size(100, 30000, "g")]

SomeFiles ==
    {[kind |-> "csv", wrapped |-> FALSE, records |-> <<r, Other>>] : r \in Records}
      \cup {[kind |-> "api", wrapped |-> w, records |-> <<Other>>] : w \in BOOLEAN}

Token(i, w) == [is |-> i, n |-> 0, w |-> w]
Number(v) == [is |-> "num", n |-> v, w |-> "1"]
Tokens == {Number(2000), Token("unit", "cup"), Token("unit", "egg"), Token("word", "rice"),
           Token("desc", "fresh"), Token("comma", ","), Token("of", "of"), Token("note", "optional"),
           Token("optional", "optional")}
SomeLines ==
    UNION {[1..n -> Tokens] : n \in 1..4}
      \cup {<<Token("marker", "-"), Number(2000), Token("to", "-"), Number(3000),
              Token("unit", "cup"), Token("of", "of"), Token("word", "rice")>>}

Boil == [is |-> "step", text |-> TRUE, items |-> <<"boil">>]
Section == [is |-> "section", text |-> FALSE, items |-> <<Boil, Boil>>]
Node(isRecipe, lines, inside) ==
    [recipe |-> isRecipe, title |-> "",
     yield |-> <<[n |-> 12000, text |-> TRUE], [n |-> 400, text |-> FALSE]>>,
     steps |-> <<Boil, Section>>, lines |-> lines, inside |-> inside]
Inner == {Node(r, l, <<>>) : r \in BOOLEAN, l \in {<<>>, <<"">>, <<"2 eggs", "">>}}
Outer == {Node(r, l, <<n>>) : r \in BOOLEAN, l \in {<<>>, <<"">>, <<"2 eggs", "">>}, n \in Inner}

SomeNodes == Inner \cup Outer
SomePages == {<< <<n>>, <<>> >> : n \in Outer}

SomeNeeds == {0, 1000, 250000, 1000001}

-----------------------------------------------------------------------------
\* Four prices, two of one day, the first soon too old; the month turns once.
Price(d, c, p) == [day |-> d, cents |-> c, promo |-> p]
Longest == {<<Price(0, a, FALSE), Price(1, b, TRUE), Price(1, c, FALSE), Price(3, d, FALSE)>> :
               a, d \in {4, 9, 20}, b, c \in {4, 20}}
SomeHistories == {SubSeq(h, 1, n) : h \in Longest, n \in 2..4}
Flat == <<Price(0, 4, FALSE), Price(1, 4, TRUE), Price(1, 4, FALSE), Price(3, 4, FALSE)>>

SomePurchases == {[cents |-> 5, saved |-> 1]}
TurnOfMonth == [t \in 0..MaxTicks |-> IF t < 2 THEN 1 ELSE 2]
SomeSpent == {[wasted |-> 1, consumed |-> 2]}

Line(i, qty, words, per) ==
    [ingredient |-> i, qty |-> qty, optional |-> FALSE, words |-> words, category |-> "OTHER",
     per100 |-> per]
Per == <<100, 10, 1, 2, 3, 4>>
Supper(o, public, lines) ==
    [owner |-> o, public |-> public, tags |-> {}, lines |-> lines, servings |-> 1]
FiveSuppers ==
    <<Supper(1, FALSE, <<Line("a", 500, {"noodle"}, Per)>>),
      Supper(2, TRUE, <<Line("a", 100, {}, Per), Line("b", 0, {}, <<>>)>>),
      Supper(2, FALSE, <<Line("b", 10, {}, Per)>>),
      Supper(1, TRUE, <<Line("", 0, {}, Per)>>),
      Supper(2, TRUE, <<Line("b", 200, {}, <<800, 5, 1, 2000, 30, 40>>), Line("a", 100, {}, Per)>>)>>

Costs == [i \in {"a", "b"} |-> IF i = "a" THEN [pack |-> 100, perKg |-> 400]
                               ELSE [pack |-> 200, perKg |-> Unknown]]
SomeWanted ==
    {[user |-> 1, diets |-> d, stock |-> [i \in {"a", "b"} |-> IF i = "a" THEN s ELSE 150],
      costs |-> Costs, budget |-> b, goals |-> [calories |-> c, protein |-> 0], limit |-> n] :
        d \in {{}, {"glutenFree"}}, s \in {0, 50}, b \in {Unknown, 300}, c \in {0, 1500},
        n \in {1, 2, 20}}

-----------------------------------------------------------------------------
Engines == {"optimizer", "reading", "forecast", "summary", "advice"}

AlgorithmsInit ==
    /\ IF focus = "optimizer" THEN Init
       ELSE /\ quantity = <<2, 3, 0>> /\ offersByReq = [r \in Requirements |-> <<>>]
            /\ delivery = Terms(4, 2, 1, 10) /\ results = <<>>
    /\ IF focus = "reading" THEN ForeignInit
       ELSE paper = [kind |-> "line", body |-> <<Number(2000)>>] /\ reading = Unread
    /\ IF focus = "forecast" THEN TRUE ELSE history = Flat
    /\ InsightInit

\* Baskets are told apart by nothing but their numbers: the first is bought first.
InTurn ==
    \A k \in 2..MaxBought :
        bought[k].status = "NONE" /\ bought'[k].status # "NONE" => bought[k - 1].status # "NONE"

AlgorithmsNext ==
    \/ focus = "optimizer" /\ Next /\ UNCHANGED <<foreignVars, insightVars>>
    \/ focus = "reading" /\ ForeignNext /\ UNCHANGED <<vars, insightVars>>
    \/ focus = "forecast" /\ ForecastNext /\ UNCHANGED <<vars, foreignVars>>
    \/ focus = "summary" /\ SummaryNext /\ InTurn /\ UNCHANGED <<vars, foreignVars>>
    \/ focus = "advice" /\ RecommendRecipes /\ UNCHANGED <<vars, foreignVars>>

algorithmVars == <<vars, foreignVars, insightVars>>
=============================================================================

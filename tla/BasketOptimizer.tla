-------------------------- MODULE BasketOptimizer --------------------------
(***************************************************************************)
(* basket-optimizer.service.ts: four ways to buy a list of requirements    *)
(* from the offers of several stores.                                      *)
(*                                                                         *)
(* Requirements are numbered in their order; offersByReq[r] lists the      *)
(* offers of r in the order the query returned them.  The engine walks     *)
(* maps and keeps the first of equals, so order decides ties: each choice  *)
(* below is the least of a key whose last part is the position.  Money is  *)
(* in cents, quantities are in grams and 0 stands for null.                *)
(***************************************************************************)
EXTENDS Integers, Sequences, FiniteSets, FiniteSetsExt

CONSTANTS Stores,
          Requirements,   \* 1..n
          Quantities,     \* possible required quantities, by requirement
          Catalogues,     \* possible offers, by requirement
          Deliveries,     \* possible delivery conditions, by store
          StoreQuality    \* qualityScore in tenths, by store

Offer == [store : Stores, price : Nat, pack : Nat, tier : Nat]

ASSUME ConstantsAssumption ==
    /\ IsFiniteSet(Requirements) /\ Requirements = 1..Cardinality(Requirements)
    /\ IsFiniteSet(Stores) /\ StoreQuality \in [Stores -> Nat]
    /\ \A f \in Deliveries : f \in [Stores -> [fee : Nat, freeFrom : Nat]]
    /\ \A q \in Quantities : q \in [Requirements -> Nat]
    /\ \A c \in Catalogues : c \in [Requirements -> Seq(Offer)]

VARIABLES
    quantity,      \* quantity[r]: requiredQtyG
    offersByReq,
    delivery,      \* delivery[s]: fee and freeDeliveryMinCents of a store
    results        \* by strategy, empty before optimizeAll()

vars == <<quantity, offersByReq, delivery, results>>

-----------------------------------------------------------------------------
Strategies == {"CHEAPEST", "CONVENIENCE", "DELIVERY", "QUALITY"}

\* The one whose key is least, part by part.
NotAfter(x, y) ==
    x = y \/ \E i \in DOMAIN x : x[i] < y[i] /\ \A j \in 1..(i - 1) : x[j] = y[j]

Least(key) == CHOOSE x \in DOMAIN key : \A y \in DOMAIN key : NotAfter(key[x], key[y])

PacksNeeded(r, offer) ==
    IF quantity[r] > 0 /\ offer.pack > 0
    THEN (quantity[r] + offer.pack - 1) \div offer.pack   \* at least 1
    ELSE 1

Cost(r, offer) == PacksNeeded(r, offer) * offer.price

Assignment(r, offer) ==
    [offer |-> offer, packs |-> PacksNeeded(r, offer), cost |-> Cost(r, offer)]

Offers(r) == {offersByReq[r][k] : k \in DOMAIN offersByReq[r]}

Matched == {r \in Requirements : offersByReq[r] # <<>>}

\* Positions of the offers of r at the given stores.
Within(r, stores) == {k \in DOMAIN offersByReq[r] : offersByReq[r][k].store \in stores}

\* Mutant: the price of one pack is compared.
CheapestPack(r, stores) ==
    Assignment(r, offersByReq[r][Least([k \in Within(r, stores) |->
                                        <<offersByReq[r][k].price, k>>])])

Cheapest(r, stores) ==
    Assignment(r, offersByReq[r][Least([k \in Within(r, stores) |->
                                        <<Cost(r, offersByReq[r][k]), k>>])])

\* A requirement without an offer stays out.
AssignCheapest(stores) ==
    [r \in {q \in Requirements : Within(q, stores) # {}} |-> Cheapest(r, stores)]

\* cheapestPerStore(), one store of it.
AtStore(s) == AssignCheapest({s})

Total(assigned) == MapThenSumSet(LAMBDA r : assigned[r].cost, DOMAIN assigned)

\* Where a store first appears, which orders the maps of stores.
Position(s) ==
    LET first == Min({r \in Requirements : Within(r, {s}) # {}})
    IN  <<first, Min(Within(first, {s}))>>

Carrying == {s \in Stores : \E r \in Requirements : Within(r, {s}) # {}}

Only(assigned, rs) == [r \in DOMAIN assigned \cap rs |-> assigned[r]]

-----------------------------------------------------------------------------
(* CONVENIENCE.                                                            *)

\* What a store would add.
Adds(s, uncovered) == Only(AtStore(s), uncovered)

\* Mutant: the cheapest addition first.
PickCheap(stores, uncovered) ==
    Least([s \in stores |-> <<Total(Adds(s, uncovered)),
                              -Cardinality(DOMAIN Adds(s, uncovered))>> \o Position(s)])

Pick(stores, uncovered) ==
    Least([s \in stores |-> <<-Cardinality(DOMAIN Adds(s, uncovered)),
                              Total(Adds(s, uncovered))>> \o Position(s)])

\* Stores selected after k rounds of the greedy set cover.
Selected ==
    LET after[k \in 0..Cardinality(Stores)] ==
            IF k = 0 THEN {}
            ELSE LET chosen == after[k - 1]
                     uncovered == Matched \ DOMAIN AssignCheapest(chosen)
                     useful == {s \in Carrying \ chosen : DOMAIN Adds(s, uncovered) # {}}
                 IN  IF useful = {} THEN chosen ELSE chosen \cup {Pick(useful, uncovered)}
    IN  after

\* Mutant: two stores at most.
ConvenienceOfTwo == AssignCheapest(Selected[2])

Convenience == AssignCheapest(Selected[Cardinality(Stores)])

-----------------------------------------------------------------------------
(* DELIVERY.                                                               *)

Fee(s, subtotal) ==
    IF delivery[s].freeFrom > 0 /\ subtotal >= delivery[s].freeFrom
    THEN 0 ELSE delivery[s].fee

StoresOf(assigned) == {assigned[r].offer.store : r \in DOMAIN assigned}

Subtotal(assigned, s) ==
    Total(Only(assigned, {r \in DOMAIN assigned : assigned[r].offer.store = s}))

DeliveryTotal(assigned) ==
    MapThenSumSet(LAMBDA s : Fee(s, Subtotal(assigned, s)), StoresOf(assigned))

GrandTotal(assigned) == Total(assigned) + DeliveryTotal(assigned)

\* Stores that cover at least 60 percent of the matched requirements.
Candidates ==
    {s \in Carrying :
        Cardinality(DOMAIN AtStore(s)) >= (3 * Cardinality(Matched) + 4) \div 5}

\* Mutant: the complementary store's delivery is free.
ComplementFree(primary, missing) ==
    Least([s \in {t \in Carrying \ {primary} : DOMAIN Adds(t, missing) # {}} |->
           <<-Cardinality(DOMAIN Adds(s, missing)), Total(Adds(s, missing))>> \o Position(s)])

\* The store that adds most of what is missing, then the cheaper one.
Complement(primary, missing) ==
    Least([s \in {t \in Carrying \ {primary} : DOMAIN Adds(t, missing) # {}} |->
           <<-Cardinality(DOMAIN Adds(s, missing)),
             Total(Adds(s, missing)) + Fee(s, Total(Adds(s, missing)))>> \o Position(s)])

Merge(f, g) == [r \in DOMAIN f \cup DOMAIN g |-> IF r \in DOMAIN f THEN f[r] ELSE g[r]]

Filled(primary) ==
    LET own == AtStore(primary)
        missing == Matched \ DOMAIN own
    IN  IF \E s \in Carrying \ {primary} : DOMAIN Adds(s, missing) # {}
        THEN Merge(own, Adds(Complement(primary, missing), missing)) ELSE own

Delivery ==
    IF Candidates = {} THEN AssignCheapest(Stores)
    ELSE Filled(Least([s \in Candidates |-> <<GrandTotal(Filled(s))>> \o Position(s)]))

-----------------------------------------------------------------------------
(* QUALITY and the results.                                                *)

Score(offer) == 20 * offer.tier + StoreQuality[offer.store]

Quality ==
    [r \in Matched |->
        Assignment(r, offersByReq[r][Least([k \in DOMAIN offersByReq[r] |->
            <<-Score(offersByReq[r][k]), Cost(r, offersByReq[r][k]), k>>])])]

Assign(strategy) ==
    CASE strategy = "CHEAPEST" -> AssignCheapest(Stores)
      [] strategy = "CONVENIENCE" -> Convenience
      [] strategy = "DELIVERY" -> Delivery
      [] strategy = "QUALITY" -> Quality

\* The mean of the candidates' own totals less the grand total, rounded.
Savings(grand) ==
    LET n == Cardinality(Candidates)
        sum == MapThenSumSet(LAMBDA s : GrandTotal(AtStore(s)), Candidates)
    IN  IF n = 0 \/ Matched = {} THEN 0
        ELSE Max({0, (2 * (sum - n * grand) + n) \div (2 * n)})

Result(assigned) ==
    [items |-> assigned, totalCents |-> Total(assigned),
     deliveryCents |-> DeliveryTotal(assigned), grandTotalCents |-> GrandTotal(assigned),
     stores |-> StoresOf(assigned), savingsCents |-> Savings(GrandTotal(assigned)),
     unmatched |-> Requirements \ DOMAIN assigned]

Init ==
    /\ quantity \in Quantities
    /\ offersByReq \in Catalogues
    /\ delivery \in Deliveries
    /\ results = <<>>

OptimizeAll ==
    /\ results = <<>>
    /\ results' = [s \in Strategies |-> Result(Assign(s))]
    /\ UNCHANGED <<quantity, offersByReq, delivery>>

Next == OptimizeAll

Spec == Init /\ [][Next]_vars

-----------------------------------------------------------------------------
(* Properties.                                                             *)

\* Enough packs are bought and not one too many, and whatever another
\* strategy buys, CHEAPEST paid no more for it before delivery.
CheapestIsLeast ==
    results # <<>> =>
        \A s \in Strategies : \A r \in DOMAIN results[s].items :
            LET bought == results[s].items[r] IN
            /\ bought.cost >= results["CHEAPEST"].items[r].cost
            /\ quantity[r] > 0 /\ bought.offer.pack > 0 =>
                  /\ bought.packs * bought.offer.pack >= quantity[r]
                  /\ (bought.packs - 1) * bought.offer.pack < quantity[r]

HasAll(s) == Matched # {} /\ Matched \subseteq DOMAIN AtStore(s)

\* When some store has everything, the greedy cover finds the cheapest such
\* store and no other, and DELIVERY costs no more and saves no less.
OneStop ==
    results # <<>> /\ (\E s \in Stores : HasAll(s)) =>
        /\ Cardinality(results["CONVENIENCE"].stores) = 1
        /\ \A s \in Stores : HasAll(s) =>
              results["CONVENIENCE"].totalCents <= Total(AtStore(s))
        /\ results["DELIVERY"].grandTotalCents <= results["CONVENIENCE"].grandTotalCents
        /\ results["DELIVERY"].savingsCents >= results["CONVENIENCE"].savingsCents

\* With delivery, no store of 60 percent together with a second that supplies
\* as much of the rest as any costs less than what DELIVERY chose, and that
\* is from two stores at most.
DeliveryIsBest ==
    results # <<>> /\ Candidates # {} =>
        /\ Cardinality(results["DELIVERY"].stores) <= 2
        /\ \A p \in Candidates, q \in Stores :
              LET missing == Matched \ DOMAIN AtStore(p) IN
              (p # q /\ \A t \in Stores \ {p} :
                           Cardinality(DOMAIN Adds(t, missing))
                              <= Cardinality(DOMAIN Adds(q, missing)))
              => results["DELIVERY"].grandTotalCents
                    <= GrandTotal(Merge(AtStore(p), Adds(q, missing)))

\* Nothing on offer is forgotten, except by DELIVERY, which still buys 60
\* percent of it.
MatchedAreBought ==
    results # <<>> =>
        /\ \A s \in Strategies \ {"DELIVERY"} : results[s].unmatched = Requirements \ Matched
        /\ 5 * Cardinality(DOMAIN results["DELIVERY"].items) >= 3 * Cardinality(Matched)
=============================================================================

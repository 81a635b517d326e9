---------------------------- MODULE Submissions ----------------------------
(***************************************************************************)
(* price-submissions.service.ts: price submissions of one store and their  *)
(* approval by consensus.                                                  *)
(*                                                                         *)
(* A request inserts its row, reads the group of similar rows, approves    *)
(* those that agree and records one price: four statements, and other      *)
(* requests run between them.  Rows are numbered as they are created.  The *)
(* product a price is recorded for is the ingestion service's business;    *)
(* here a price point is what was recorded for which rows.                 *)
(*                                                                         *)
(* Similar abstracts PostgreSQL's trigram similarity, which is reflexive   *)
(* and symmetric but not transitive.                                       *)
(***************************************************************************)
EXTENDS Integers, Sequences, FiniteSets

CONSTANTS Handlers,
          Names,        \* product names
          Similar,      \* pairs of names similar enough
          Prices,       \* cents
          MaxRows       \* bound: rows created

ASSUME ConstantsAssumption ==
    /\ Names # {}
    /\ Similar \subseteq Names \X Names
    /\ \A n \in Names : <<n, n>> \in Similar
    /\ \A n, m \in Names : <<n, m>> \in Similar => <<m, n>> \in Similar
    /\ Prices \subseteq Nat \ {0}
    /\ MaxRows \in Nat

VARIABLES
    rows,       \* the table: rows[i] is the i-th submission
    old,        \* rows created more than 14 days ago
    points,     \* the CROWDSOURCED prices recorded, in order
    run,        \* run[h]: where handler h stands
    raced,      \* history: rows that two handlers had in hand at once
    lost        \* history: rows in the hands of a handler that failed

vars == <<rows, old, points, run, raced, lost>>

-----------------------------------------------------------------------------
ConsensusMin == 3            \* CONSENSUS_MIN_SUBMISSIONS
Tolerance == 15              \* CONSENSUS_PRICE_TOLERANCE, in percent

Ids == 1..Len(rows)

\* fromReceipt: whether receiptId is set.
Row == [name : Names, price : Prices, status : {"PENDING", "AUTO_APPROVED"},
        fromReceipt : BOOLEAN]
Run == [at : {"idle", "group", "approve", "apply"},
        own : 0..MaxRows, ids : SUBSET (1..MaxRows), price : Nat]
Point == [ids : SUBSET (1..MaxRows), price : Nat]

At(h, step) == run[h].at = step

\* The name submitted.
NameOf(h) == rows[run[h].own].name

\* The handler goes on with these rows and this price in hand.
Go(h, step, ids, price) ==
    run' = [run EXCEPT ![h] = [at |-> step, own |-> run[h].own, ids |-> ids,
                               price |-> price]]

Idle == [at |-> "idle", own |-> 0, ids |-> {}, price |-> 0]

Rest(h) == run' = [run EXCEPT ![h] = Idle]

\* Mutant: what was approved before is counted again.
GroupOfAny(name) == {i \in Ids \ old : <<rows[i].name, name>> \in Similar}

\* The query: pending, recent and similar to the name.
GroupOf(name) ==
    {i \in Ids \ old : /\ rows[i].status = "PENDING"
                       /\ <<rows[i].name, name>> \in Similar}

\* prices[k] of the group's sorted prices.
Ranked(group, k) ==
    CHOOSE p \in {rows[i].price : i \in group} :
        /\ Cardinality({i \in group : rows[i].price < p}) <= k
        /\ Cardinality({i \in group : rows[i].price <= p}) > k

\* Math.round rounds a half up.
Median(group) ==
    LET n == Cardinality(group)
        mid == n \div 2
    IN  IF n % 2 = 0 THEN (Ranked(group, mid - 1) + Ranked(group, mid) + 1) \div 2
                     ELSE Ranked(group, mid)

Agrees(price, median) ==
    /\ 100 * (price - median) <= Tolerance * median
    /\ 100 * (median - price) <= Tolerance * median

\* Mutant: no price is an outlier.
ConsensusAll(group) == group

Consensus(group) == {i \in group : Agrees(rows[i].price, Median(group))}

\* Both early returns of tryAutoApprove().
Enough(group) ==
    /\ Cardinality(group) >= ConsensusMin
    /\ Cardinality(Consensus(group)) >= ConsensusMin

Init ==
    /\ rows = <<>>
    /\ old = {}
    /\ points = <<>>
    /\ run = [h \in Handlers |-> Idle]
    /\ raced = {}
    /\ lost = {}

-----------------------------------------------------------------------------
Insert(name, price, fromReceipt) ==
    /\ Len(rows) < MaxRows
    /\ rows' = Append(rows, [name |-> name, price |-> price, status |-> "PENDING",
                             fromReceipt |-> fromReceipt])

\* createSubmission(): the row is there before the group is read.
Create(h, name, price) ==
    /\ At(h, "idle")
    /\ Insert(name, price, FALSE)
    /\ run' = [run EXCEPT ![h] = [at |-> "group", own |-> Len(rows) + 1, ids |-> {},
                                  price |-> 0]]
    /\ UNCHANGED <<old, points, raced, lost>>

\* The receipt processor's createMany: nobody looks for a consensus.
AddReceiptLine(name, price) ==
    /\ Insert(name, price, TRUE)
    /\ UNCHANGED <<old, points, run, raced, lost>>

InOtherHands(h) == UNION {run[g].ids : g \in Handlers \ {h}}

TooFew(h, group) ==
    /\ ~Enough(group)
    /\ Rest(h)
    /\ raced' = raced

Found(h, group) ==
    /\ Enough(group)
    /\ Go(h, "approve", Consensus(group), Median(group))
    /\ raced' = raced \cup (Consensus(group) \cap InOtherHands(h))

\* Mutant: the newest row is not in the group yet.
ReadGroupStale(h) ==
    LET group == GroupOf(NameOf(h)) \ {run[h].own} IN
    /\ At(h, "group")
    /\ TooFew(h, group) \/ Found(h, group)
    /\ UNCHANGED <<rows, old, points, lost>>

\* The query, and the two early returns or what follows from it.
ReadGroup(h) ==
    LET group == GroupOf(NameOf(h)) IN
    /\ At(h, "group")
    /\ TooFew(h, group) \/ Found(h, group)
    /\ UNCHANGED <<rows, old, points, lost>>

Approved(i) == [name |-> rows[i].name, price |-> rows[i].price,
                status |-> "AUTO_APPROVED", fromReceipt |-> rows[i].fromReceipt]

\* Mutant: every similar row is approved, the outliers as well.
ApproveSimilar(h) ==
    /\ At(h, "approve")
    /\ rows' = [i \in Ids |-> IF i \in GroupOf(NameOf(h)) THEN Approved(i) ELSE rows[i]]
    /\ Go(h, "apply", run[h].ids, run[h].price)
    /\ UNCHANGED <<old, points, raced, lost>>

\* updateMany by id, whatever the status is by now.
Approve(h) ==
    /\ At(h, "approve")
    /\ rows' = [i \in Ids |-> IF i \in run[h].ids THEN Approved(i) ELSE rows[i]]
    /\ Go(h, "apply", run[h].ids, run[h].price)
    /\ UNCHANGED <<old, points, raced, lost>>

\* ingestion.applySubmission(): one price of the median.
Apply(h) ==
    /\ At(h, "apply")
    /\ points' = Append(points, [ids |-> run[h].ids, price |-> run[h].price])
    /\ Rest(h)
    /\ UNCHANGED <<rows, old, raced, lost>>

\* An error on the way is logged only; the row stays.
Fail(h) ==
    /\ ~At(h, "idle")
    /\ lost' = lost \cup run[h].ids \cup {run[h].own}
    /\ Rest(h)
    /\ UNCHANGED <<rows, old, points, raced>>

\* Fourteen days pass: the oldest rows leave the window first.
Age ==
    /\ \E i \in Ids \ old : /\ \A j \in 1..(i - 1) : j \in old
                            /\ old' = old \cup {i}
    /\ UNCHANGED <<rows, points, run, raced, lost>>

Step(h) ==
    \/ \E n \in Names, p \in Prices : Create(h, n, p)
    \/ ReadGroup(h) \/ Approve(h) \/ Apply(h) \/ Fail(h)

Next ==
    \/ \E h \in Handlers : Step(h)
    \/ \E n \in Names, p \in Prices : AddReceiptLine(n, p)
    \/ Age

Spec == Init /\ [][Next]_vars

-----------------------------------------------------------------------------
(* Properties.                                                             *)

\* Rows, handlers and prices have the shapes the code uses.
TypeOK ==
    /\ rows \in Seq(Row) /\ Len(rows) <= MaxRows
    /\ old \subseteq Ids
    /\ points \in Seq(Point)
    /\ run \in [Handlers -> Run]
    /\ raced \subseteq Ids
    /\ lost \subseteq Ids

\* However requests overlap, a crowdsourced price rests on at least three
\* rows, all approved and each within 15 percent of it.
PricesAreBacked ==
    \A k \in 1..Len(points) :
        /\ points[k].ids \subseteq Ids
        /\ Cardinality(points[k].ids) >= ConsensusMin
        /\ \A i \in points[k].ids : /\ rows[i].status = "AUTO_APPROVED"
                                    /\ Agrees(rows[i].price, points[k].price)

\* No row counts for two prices, unless two handlers had it at once.
CountedOnceAlone ==
    \A k, l \in 1..Len(points) : k # l => points[k].ids \cap points[l].ids \subseteq raced

\* An approval is not forgotten: its price is recorded, or about to be, or the
\* handler failed in between.
ApprovedIsPriced ==
    \A i \in Ids \ lost : rows[i].status = "AUTO_APPROVED" =>
        \/ \E k \in 1..Len(points) : i \in points[k].ids
        \/ \E h \in Handlers : At(h, "apply") /\ i \in run[h].ids

\* Of requests that overlap, the last to read sees every row: if all prices
\* are the same and the newest row was submitted by hand, then once all is quiet
\* no consensus on its name is left pending, unless a handler failed.
ConsensusIsApproved ==
    LET newest == rows[Len(rows)] IN
    (/\ \A h \in Handlers : At(h, "idle")
     /\ rows # <<>>
     /\ ~newest.fromReceipt
     /\ \A i \in Ids : rows[i].price = newest.price
     /\ lost = {})
    => Cardinality(GroupOf(newest.name)) < ConsensusMin
=============================================================================

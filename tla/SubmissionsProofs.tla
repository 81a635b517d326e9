------------------------- MODULE SubmissionsProofs -------------------------
(***************************************************************************)
(* Theorems about what comes from outside: the prices that users submit    *)
(* (Submissions), for any number of handlers, names and rows and any       *)
(* similarity that is reflexive and symmetric; and the files of prices,    *)
(* the recipe lines and the pages that are read (ForeignData), for any     *)
(* files, lines and pages.                                                 *)
(***************************************************************************)
EXTENDS Submissions, ForeignData, FiniteSetTheorems, SequenceTheorems, WellFoundedInduction, TLAPS

\* Among subsets of a finite set one contains no other strictly.
LEMMA LeastSubset ==
    ASSUME NEW S, IsFiniteSet(S), NEW Family, Family \subseteq SUBSET S, Family # {}
    PROVE  \E A \in Family : \A B \in Family : B \subseteq A => B = A
<1>1. PICK A \in Family : \A B \in Family : <<B, A>> \notin StrictSubsetOrdering(S)
      <2>1. IsWellFoundedOn(StrictSubsetOrdering(S), FiniteSubsetsOf(S))
            BY FS_StrictSubsetOrderingWellFounded
      <2>2. Family \subseteq FiniteSubsetsOf(S)
            BY FS_Subset DEF FiniteSubsetsOf
      <2> QED BY <2>1, <2>2, WFMin
<1> QED BY <1>1 DEF StrictSubsetOrdering

\* A finite set of rows has one with the highest price.
LEMMA Highest ==
    ASSUME NEW group, IsFiniteSet(group), group # {},
           NEW price, \A i \in group : price[i] \in Nat
    PROVE  \E i \in group : \A j \in group : price[j] <= price[i]
<1> DEFINE Above(i) == {j \in group : price[j] > price[i]}
           Family == {Above(i) : i \in group}
<1>1. PICK A \in Family : \A B \in Family : B \subseteq A => B = A
      <2>1. Family \subseteq SUBSET group /\ Family # {}
            OBVIOUS
      <2> HIDE DEF Family
      <2> QED BY <2>1, LeastSubset
<1>2. PICK i \in group : A = Above(i)
      BY <1>1
<1>3. ASSUME NEW j \in group, price[j] > price[i] PROVE FALSE
      <2>1. Above(j) \subseteq Above(i)
            BY <1>3
      <2>2. j \in Above(i) /\ j \notin Above(j)
            BY <1>3
      <2> QED BY <1>1, <1>2, <2>1, <2>2
<1> QED BY <1>3

\* Some price of the group is prices[k] of its sorted prices.
HasRank(group, price, k) ==
    \E p \in {price[i] : i \in group} :
        /\ Cardinality({i \in group : price[i] < p}) <= k
        /\ Cardinality({i \in group : price[i] <= p}) > k

\* There is one for every k below the number of rows.
LEMMA RankExists ==
    ASSUME NEW group, IsFiniteSet(group),
           NEW price, \A i \in group : price[i] \in Nat,
           NEW k \in Nat, k < Cardinality(group)
    PROVE  HasRank(group, price, k)
<1> DEFINE Upto(i) == {j \in group : price[j] <= price[i]}
           Below(i) == {j \in group : price[j] < price[i]}
           Candidates == {i \in group : Cardinality(Upto(i)) > k}
           Family == {Upto(i) : i \in Candidates}
<1>1. group # {}
      BY FS_EmptySet
<1>2. Candidates # {}
      <2>1. PICK i \in group : \A j \in group : price[j] <= price[i]
            BY <1>1, Highest
      <2>2. Upto(i) = group
            BY <2>1
      <2> QED BY <2>2
<1>3. PICK i \in Candidates : \A j \in Candidates : Upto(j) \subseteq Upto(i) => Upto(j) = Upto(i)
      <2>1. Family \subseteq SUBSET group /\ Family # {}
            BY <1>2
      <2>2. PICK A \in Family : \A B \in Family : B \subseteq A => B = A
            <3> HIDE DEF Family
            <3> QED BY <2>1, LeastSubset
      <2>3. PICK i \in Candidates : A = Upto(i)
            BY <2>2
      <2>4. ASSUME NEW j \in Candidates, Upto(j) \subseteq Upto(i) PROVE Upto(j) = Upto(i)
            <3>1. Upto(j) \in Family
                  OBVIOUS
            <3> HIDE DEF Family, Upto
            <3> QED BY <2>2, <2>3, <2>4, <3>1
      <2> QED BY <2>4
<1>4. Cardinality(Below(i)) <= k
      <2>1. Below(i) \subseteq group
            OBVIOUS
      <2>2. IsFiniteSet(Below(i)) /\ Cardinality(Below(i)) \in Nat
            BY <2>1, FS_Subset, FS_CardinalityType
      <2>3. ASSUME Cardinality(Below(i)) > k PROVE FALSE
            <3>1. Below(i) # {}
                  BY <2>2, <2>3, FS_EmptySet
            <3>2. PICK j \in Below(i) : \A l \in Below(i) : price[l] <= price[j]
                  <4>1. \A l \in Below(i) : price[l] \in Nat
                        OBVIOUS
                  <4> HIDE DEF Below
                  <4> QED BY <2>2, <3>1, <4>1, Highest
            <3>3. Upto(j) = Below(i)
                  BY <3>2
            <3>4. j \in Candidates
                  BY <2>3, <3>3
            <3>5. Upto(j) \subseteq Upto(i) /\ i \in Upto(i) /\ i \notin Upto(j)
                  BY <3>3
            <3> QED BY <1>3, <3>4, <3>5
      <2> QED BY <2>2, <2>3
<1> QED BY <1>3, <1>4 DEF HasRank

\* The price a handler takes from a group is one, or between two, of its rows'.
LEMMA MedianIsNat ==
    ASSUME TypeOK, NEW group, group \subseteq Ids, Cardinality(group) >= ConsensusMin
    PROVE  Median(group) \in Nat
<1> DEFINE price == [i \in Ids |-> rows[i].price]
<1>1. Len(rows) \in Nat /\ \A i \in Ids : rows[i] \in Row
      BY DEF TypeOK, Ids
<1>2. IsFiniteSet(group) /\ Cardinality(group) \in Nat
      <2>1. IsFiniteSet(Ids)
            BY <1>1, FS_Interval DEF Ids
      <2> QED BY <2>1, FS_Subset, FS_CardinalityType
<1>3. \A i \in Ids : price[i] = rows[i].price /\ rows[i].price \in Nat
      BY <1>1, ConstantsAssumption DEF Row
<1>4. ASSUME NEW k \in Nat, k < Cardinality(group) PROVE Ranked(group, k) \in Nat
      <2>1. \A i \in group : price[i] \in Nat
            BY <1>3
      <2>2. \E p \in {price[i] : i \in group} :
               /\ Cardinality({i \in group : price[i] < p}) <= k
               /\ Cardinality({i \in group : price[i] <= p}) > k
            <3> HIDE DEF price
            <3>1. HasRank(group, price, k)
                  BY <1>2, <1>4, <2>1, RankExists
            <3> QED BY <3>1 DEF HasRank
      <2>3. {price[i] : i \in group} = {rows[i].price : i \in group}
            BY <1>3
      <2>4. \A p : {i \in group : price[i] < p} = {i \in group : rows[i].price < p}
            BY <1>3
      <2>5. \A p : {i \in group : price[i] <= p} = {i \in group : rows[i].price <= p}
            BY <1>3
      <2>6. \E p \in {rows[i].price : i \in group} :
               /\ Cardinality({i \in group : rows[i].price < p}) <= k
               /\ Cardinality({i \in group : rows[i].price <= p}) > k
            <3> HIDE DEF price
            <3> QED BY <2>2, <2>3, <2>4, <2>5
      <2>7. Ranked(group, k) \in {rows[i].price : i \in group}
            BY <2>6 DEF Ranked
      <2> QED BY <1>3, <2>7
<1> DEFINE n == Cardinality(group)
           mid == n \div 2
<1>5. mid \in Nat /\ mid < n /\ mid - 1 \in Nat /\ mid - 1 < n
      BY <1>2, Z3 DEF ConsensusMin
<1>6. Ranked(group, mid) \in Nat /\ Ranked(group, mid - 1) \in Nat
      <2> HIDE DEF mid
      <2> QED BY <1>4, <1>5
<1>7. (Ranked(group, mid - 1) + Ranked(group, mid) + 1) \div 2 \in Nat
      <2> HIDE DEF mid
      <2> QED BY <1>6
<1> QED BY <1>6, <1>7 DEF Median

-----------------------------------------------------------------------------
\* What a handler holds at each step.
Hands ==
    \A h \in Handlers :
        /\ run[h].ids \subseteq Ids
        /\ run[h].at # "idle" => run[h].own \in Ids
        /\ run[h].at \in {"idle", "group"} => run[h].ids = {}
        /\ run[h].at \in {"approve", "apply"} =>
              /\ Cardinality(run[h].ids) >= ConsensusMin
              /\ \A i \in run[h].ids : Agrees(rows[i].price, run[h].price)
        /\ run[h].at = "apply" => \A i \in run[h].ids : rows[i].status = "AUTO_APPROVED"

\* Only raced rows are in two places at once.
Apart ==
    /\ \A k \in 1..Len(points), h \in Handlers : points[k].ids \cap run[h].ids \subseteq raced
    /\ \A h, g \in Handlers : h # g => run[h].ids \cap run[g].ids \subseteq raced

ConsensusInv == TypeOK /\ Hands /\ Apart /\ PricesAreBacked /\ CountedOnceAlone /\ ApprovedIsPriced

LEMMA ConsensusInit == Init => ConsensusInv
BY ConstantsAssumption
   DEF Init, ConsensusInv, TypeOK, Hands, Apart, PricesAreBacked, CountedOnceAlone,
       ApprovedIsPriced, Run, Row, Point, Ids, Idle

\* A new row disturbs nothing.
LEMMA InsertKeeps ==
    ASSUME ConsensusInv, NEW n \in Names, NEW p \in Prices, NEW r \in BOOLEAN, Insert(n, p, r)
    PROVE  /\ rows' \in Seq(Row) /\ Len(rows') <= MaxRows
           /\ Len(rows') = Len(rows) + 1 /\ Ids' = Ids \cup {Len(rows) + 1}
           /\ \A i \in Ids : rows'[i] = rows[i]
           /\ rows'[Len(rows) + 1].status = "PENDING"
BY ConstantsAssumption DEF Insert, ConsensusInv, TypeOK, Row, Ids

LEMMA ConsensusStep == ConsensusInv /\ [Next]_vars => ConsensusInv'
<1> USE ConstantsAssumption
<1> SUFFICES ASSUME ConsensusInv, [Next]_vars PROVE ConsensusInv'
    OBVIOUS
<1>0. /\ TypeOK /\ Len(rows) \in Nat /\ Len(points) \in Nat
      /\ \A i \in Ids : rows[i] \in Row
      /\ \A k \in 1..Len(points) : points[k] \in Point
      BY DEF ConsensusInv, TypeOK, Ids
<1>1. ASSUME NEW h \in Handlers, NEW n \in Names, NEW p \in Prices, Create(h, n, p)
      PROVE  ConsensusInv'
      <2> DEFINE next == [at |-> "group", own |-> Len(rows) + 1, ids |-> {},
                          price |-> 0]
      <2>0. /\ rows' \in Seq(Row) /\ Len(rows') <= MaxRows
            /\ Len(rows') = Len(rows) + 1 /\ Ids' = Ids \cup {Len(rows) + 1}
            /\ \A i \in Ids : rows'[i] = rows[i]
            /\ rows'[Len(rows) + 1].status = "PENDING"
            BY <1>1, InsertKeeps DEF Create
      <2>1. /\ UNCHANGED <<old, points, raced, lost>> /\ run[h].at = "idle"
            /\ run' \in [Handlers -> Run] /\ run'[h] = next
            /\ \A g \in Handlers \ {h} : run'[g] = run[g]
            BY <1>0, <1>1, <2>0 DEF Create, At, TypeOK, Run, Ids
      <2>2. TypeOK'
            BY <1>0, <2>0, <2>1 DEF TypeOK
      <2>3. Hands'
            BY <2>0, <2>1 DEF ConsensusInv, Hands
      <2>4. Apart' /\ CountedOnceAlone'
            BY <2>1 DEF ConsensusInv, Apart, CountedOnceAlone
      <2>5. PricesAreBacked'
            <3>1. \A k \in 1..Len(points) : \A i \in points[k].ids : i \in Ids
                  BY DEF ConsensusInv, PricesAreBacked
            <3> QED BY <2>0, <2>1, <3>1 DEF ConsensusInv, PricesAreBacked
      <2>6. ApprovedIsPriced'
            BY <2>0, <2>1 DEF ConsensusInv, ApprovedIsPriced, At
      <2> QED BY <2>2, <2>3, <2>4, <2>5, <2>6 DEF ConsensusInv
<1>2. ASSUME NEW n \in Names, NEW p \in Prices, AddReceiptLine(n, p) PROVE ConsensusInv'
      <2>0. /\ rows' \in Seq(Row) /\ Len(rows') <= MaxRows
            /\ Len(rows') = Len(rows) + 1 /\ Ids' = Ids \cup {Len(rows) + 1}
            /\ \A i \in Ids : rows'[i] = rows[i]
            /\ rows'[Len(rows) + 1].status = "PENDING"
            BY <1>2, InsertKeeps DEF AddReceiptLine
      <2>1. UNCHANGED <<old, points, run, raced, lost>>
            BY <1>2 DEF AddReceiptLine
      <2>2. TypeOK'
            BY <1>0, <2>0, <2>1 DEF TypeOK
      <2>3. Hands'
            BY <2>0, <2>1 DEF ConsensusInv, Hands
      <2>4. Apart' /\ CountedOnceAlone'
            BY <2>1 DEF ConsensusInv, Apart, CountedOnceAlone
      <2>5. PricesAreBacked'
            <3>1. \A k \in 1..Len(points) : \A i \in points[k].ids : i \in Ids
                  BY DEF ConsensusInv, PricesAreBacked
            <3> QED BY <2>0, <2>1, <3>1 DEF ConsensusInv, PricesAreBacked
      <2>6. ApprovedIsPriced'
            BY <2>0, <2>1 DEF ConsensusInv, ApprovedIsPriced, At
      <2> QED BY <2>2, <2>3, <2>4, <2>5, <2>6 DEF ConsensusInv
<1>3. ASSUME NEW h \in Handlers, ReadGroup(h) PROVE ConsensusInv'
      <2> DEFINE group == GroupOf(NameOf(h))
                 next == [at |-> "approve", own |-> run[h].own,
                          ids |-> Consensus(group), price |-> Median(group)]
      <2>1. CASE TooFew(h, group)
            <3> DEFINE rest == [at |-> "idle", own |-> 0, ids |-> {}, price |-> 0]
            <3>1. /\ UNCHANGED <<rows, old, points, raced, lost>> /\ run[h].at = "group"
                  /\ run' = [run EXCEPT ![h] = rest]
                  BY <1>3, <2>1 DEF ReadGroup, TooFew, Rest, Idle, At
            <3>2. rest \in Run /\ run' \in [Handlers -> Run] /\ run'[h] = rest
                  /\ \A g \in Handlers \ {h} : run'[g] = run[g]
                  BY <1>0, <3>1 DEF TypeOK, Run
            <3>3. Ids' = Ids
                  BY <3>1 DEF Ids
            <3>4. TypeOK' /\ Hands'
                  BY <1>0, <3>1, <3>2, <3>3 DEF ConsensusInv, TypeOK, Hands
            <3>5. Apart' /\ CountedOnceAlone' /\ PricesAreBacked'
                  BY <3>1, <3>2, <3>3 DEF ConsensusInv, Apart, CountedOnceAlone, PricesAreBacked
            <3>6. ApprovedIsPriced'
                  BY <3>1, <3>2, <3>3 DEF ConsensusInv, ApprovedIsPriced, At
            <3> QED BY <3>4, <3>5, <3>6 DEF ConsensusInv
      <2>2. CASE Found(h, group)
            <3>1. /\ group \subseteq Ids /\ Consensus(group) \subseteq Ids
                  /\ \A i \in group : rows[i].status = "PENDING"
                  /\ Consensus(group) \subseteq group
                  /\ \A i \in Consensus(group) : Agrees(rows[i].price, Median(group))
                  /\ Cardinality(Consensus(group)) >= ConsensusMin
                  BY <2>2 DEF Found, Enough, GroupOf, Consensus
            <3>2. Median(group) \in Nat
                  <4> HIDE DEF group
                  <4> QED BY <1>0, <2>2, <3>1, MedianIsNat DEF Found, Enough
            <3>3. /\ UNCHANGED <<rows, old, points, lost>> /\ run[h].at = "group"
                  /\ run' = [run EXCEPT ![h] = next]
                  /\ raced' = raced \cup (Consensus(group) \cap InOtherHands(h))
                  BY <1>3, <2>2 DEF ReadGroup, Found, Go, At
            <3>4. next \in Run /\ run' \in [Handlers -> Run] /\ run'[h] = next
                  /\ \A g \in Handlers \ {h} : run'[g] = run[g]
                  BY <1>0, <3>1, <3>2, <3>3 DEF TypeOK, Run, Ids
            <3> HIDE DEF group
            <3>5. TypeOK'
                  BY <1>0, <3>1, <3>3, <3>4 DEF TypeOK, Ids
            <3>6. Hands'
                  BY <1>0, <3>1, <3>3, <3>4 DEF ConsensusInv, Hands, Ids
            <3>7. \A k \in 1..Len(points) : points[k].ids \cap Consensus(group) = {}
                  BY <3>1 DEF ConsensusInv, PricesAreBacked
            <3>8. \A g \in Handlers \ {h} : run[g].ids \cap Consensus(group) \subseteq raced'
                  BY <3>3 DEF InOtherHands
            <3>9. Apart'
                  BY <3>3, <3>4, <3>7, <3>8 DEF ConsensusInv, Apart
            <3>10. PricesAreBacked' /\ CountedOnceAlone'
                  BY <3>3 DEF ConsensusInv, PricesAreBacked, CountedOnceAlone, Ids
            <3>11. ApprovedIsPriced'
                  BY <3>3, <3>4 DEF ConsensusInv, ApprovedIsPriced, Ids, At
            <3> QED BY <3>5, <3>6, <3>9, <3>10, <3>11 DEF ConsensusInv
      <2> QED BY <1>3, <2>1, <2>2 DEF ReadGroup
<1>4. ASSUME NEW h \in Handlers, Approve(h) PROVE ConsensusInv'
      <2> DEFINE next == [at |-> "apply", own |-> run[h].own,
                          ids |-> run[h].ids, price |-> run[h].price]
      <2>1. /\ UNCHANGED <<old, points, raced, lost>> /\ run[h].at = "approve"
            /\ run' = [run EXCEPT ![h] = next]
            BY <1>4 DEF Approve, Go, At
      <2>2. next \in Run /\ run' \in [Handlers -> Run] /\ run'[h] = next
            /\ \A g \in Handlers \ {h} : run'[g] = run[g]
            BY <1>0, <2>1 DEF TypeOK, Run
      <2>3. \A i \in Ids : Approved(i) \in Row /\ Approved(i).price = rows[i].price
                            /\ Approved(i).status = "AUTO_APPROVED"
            BY <1>0 DEF Approved, Row
      <2>4. rows' = [i \in 1..Len(rows) |-> IF i \in run[h].ids THEN Approved(i) ELSE rows[i]]
            BY <1>4 DEF Approve, Ids
      <2>5. rows' \in Seq(Row) /\ Len(rows') = Len(rows)
            <3>1. \A i \in 1..Len(rows) :
                     (IF i \in run[h].ids THEN Approved(i) ELSE rows[i]) \in Row
                  BY <1>0, <2>3 DEF Ids
            <3> QED BY <1>0, <2>4, <3>1
      <2>6. Ids' = Ids /\ \A i \in Ids : /\ rows'[i].price = rows[i].price
                                         /\ i \in run[h].ids => rows'[i].status = "AUTO_APPROVED"
                                         /\ i \notin run[h].ids => rows'[i] = rows[i]
            BY <2>3, <2>4, <2>5 DEF Ids
      <2>7. TypeOK'
            BY <1>0, <2>1, <2>2, <2>5, <2>6 DEF TypeOK
      <2>8. Hands'
            BY <2>1, <2>2, <2>6 DEF ConsensusInv, Hands
      <2>9. Apart' /\ CountedOnceAlone'
            BY <2>1, <2>2 DEF ConsensusInv, Apart, CountedOnceAlone
      <2>10. PricesAreBacked'
            BY <2>1, <2>6 DEF ConsensusInv, PricesAreBacked
      <2>11. ApprovedIsPriced'
            BY <2>1, <2>2, <2>6 DEF ConsensusInv, ApprovedIsPriced, At
      <2> QED BY <2>7, <2>8, <2>9, <2>10, <2>11 DEF ConsensusInv
<1>5. ASSUME NEW h \in Handlers, Apply(h) PROVE ConsensusInv'
      <2> DEFINE point == [ids |-> run[h].ids, price |-> run[h].price]
                 next == [at |-> "idle", own |-> 0, ids |-> {}, price |-> 0]
      <2>1. /\ UNCHANGED <<rows, old, raced, lost>> /\ run[h].at = "apply"
            /\ run' = [run EXCEPT ![h] = next]
            /\ points' = Append(points, point)
            BY <1>5 DEF Apply, Rest, Idle, At
      <2>2. next \in Run /\ run' \in [Handlers -> Run] /\ run'[h] = next
            /\ \A g \in Handlers \ {h} : run'[g] = run[g]
            BY <1>0, <2>1 DEF TypeOK, Run
      <2>3. point \in Point
            BY <1>0 DEF TypeOK, Run, Point
      <2>4. /\ points' \in Seq(Point) /\ Len(points') = Len(points) + 1
            /\ \A k \in 1..Len(points) : points'[k] = points[k]
            /\ points'[Len(points) + 1] = point
            BY <1>0, <2>1, <2>3 DEF TypeOK
      <2>5. Ids' = Ids
            BY <2>1 DEF Ids
      <2>6. TypeOK'
            BY <1>0, <2>1, <2>2, <2>4, <2>5 DEF TypeOK
      <2>7. Hands'
            BY <2>1, <2>2, <2>5 DEF ConsensusInv, Hands
      <2>8. Apart'
            BY <1>0, <2>1, <2>2, <2>4 DEF ConsensusInv, Apart
      <2>9. CountedOnceAlone'
            BY <1>0, <2>1, <2>2, <2>4 DEF ConsensusInv, Apart, CountedOnceAlone
      <2>10. PricesAreBacked'
            BY <1>0, <2>1, <2>4, <2>5 DEF ConsensusInv, Hands, PricesAreBacked
      <2>11. ASSUME NEW i \in Ids \ lost, rows[i].status = "AUTO_APPROVED"
             PROVE  \/ \E k \in 1..Len(points') : i \in points'[k].ids
                    \/ \E g \in Handlers : run'[g].at = "apply" /\ i \in run'[g].ids
            <3>1. CASE \E k \in 1..Len(points) : i \in points[k].ids
                  BY <1>0, <2>4, <3>1
            <3>2. CASE i \in run[h].ids
                  BY <1>0, <2>4, <3>2
            <3>3. CASE \E g \in Handlers \ {h} : run[g].at = "apply" /\ i \in run[g].ids
                  BY <2>2, <3>3
            <3> QED BY <2>11, <3>1, <3>2, <3>3 DEF ConsensusInv, ApprovedIsPriced, At
      <2>12. ApprovedIsPriced'
            BY <2>1, <2>5, <2>11 DEF ApprovedIsPriced, At
      <2> QED BY <2>6, <2>7, <2>8, <2>9, <2>10, <2>12 DEF ConsensusInv
<1>6. ASSUME NEW h \in Handlers, Fail(h) PROVE ConsensusInv'
      <2> DEFINE next == [at |-> "idle", own |-> 0, ids |-> {}, price |-> 0]
      <2>1. /\ UNCHANGED <<rows, old, points, raced>> /\ run[h].at # "idle"
            /\ run' = [run EXCEPT ![h] = next]
            /\ lost' = lost \cup run[h].ids \cup {run[h].own}
            BY <1>6 DEF Fail, Rest, Idle, At
      <2>2. next \in Run /\ run' \in [Handlers -> Run] /\ run'[h] = next
            /\ \A g \in Handlers \ {h} : run'[g] = run[g]
            BY <1>0, <2>1 DEF TypeOK, Run
      <2>3. Ids' = Ids
            BY <2>1 DEF Ids
      <2>4. TypeOK'
            <3>1. lost' \subseteq Ids
                  BY <1>0, <2>1 DEF ConsensusInv, TypeOK, Hands
            <3> QED BY <1>0, <2>1, <2>2, <2>3, <3>1 DEF TypeOK
      <2>5. Hands'
            BY <2>1, <2>2, <2>3 DEF ConsensusInv, Hands
      <2>6. Apart' /\ CountedOnceAlone'
            BY <2>1, <2>2 DEF ConsensusInv, Apart, CountedOnceAlone
      <2>7. PricesAreBacked'
            BY <2>1, <2>3 DEF ConsensusInv, PricesAreBacked
      <2>8. ApprovedIsPriced'
            BY <2>1, <2>2, <2>3 DEF ConsensusInv, ApprovedIsPriced, At
      <2> QED BY <2>4, <2>5, <2>6, <2>7, <2>8 DEF ConsensusInv
<1>7. ASSUME Age PROVE ConsensusInv'
      <2>1. TypeOK'
            BY <1>0, <1>7 DEF Age, ConsensusInv, TypeOK, At, Ids
      <2>2. Hands'
            BY <1>0, <1>7 DEF Age, ConsensusInv, Hands, At, Ids
      <2>3. Apart'
            BY <1>0, <1>7 DEF Age, ConsensusInv, Apart, At, Ids
      <2>4. PricesAreBacked'
            BY <1>0, <1>7 DEF Age, ConsensusInv, PricesAreBacked,
               At, Ids
      <2>5. CountedOnceAlone'
            BY <1>0, <1>7 DEF Age, ConsensusInv, CountedOnceAlone,
               At, Ids
      <2>6. ApprovedIsPriced'
            BY <1>0, <1>7 DEF Age, ConsensusInv, ApprovedIsPriced,
               At, Ids
      <2> QED BY <2>1, <2>2, <2>3, <2>4, <2>5, <2>6 DEF ConsensusInv
<1>8. CASE UNCHANGED vars
      BY <1>8 DEF vars, Ids, At, InOtherHands, ConsensusInv, TypeOK, Hands, Apart,
             PricesAreBacked, CountedOnceAlone, ApprovedIsPriced
<1> QED
    BY <1>1, <1>2, <1>3, <1>4, <1>5, <1>6, <1>7, <1>8 DEF Next, Step

\* Every reachable state of rows, price points and handlers is well typed: the
\* median of a group is a price.
THEOREM TypeCorrect == Spec => []TypeOK
<1>1. ConsensusInv => TypeOK
      BY DEF ConsensusInv
<1> QED BY <1>1, ConsensusInit, ConsensusStep, PTL DEF Spec

\* However many requests overlap, whatever prices and names they bring, a
\* crowdsourced price rests on three approved rows that agree with it.
THEOREM PricesBacked == Spec => []PricesAreBacked
<1>1. ConsensusInv => PricesAreBacked
      BY DEF ConsensusInv
<1> QED BY <1>1, ConsensusInit, ConsensusStep, PTL DEF Spec

\* A row counts twice only if two handlers had it in hand at once.
THEOREM CountedOnceUnlessRaced == Spec => []CountedOnceAlone
<1>1. ConsensusInv => CountedOnceAlone
      BY DEF ConsensusInv
<1> QED BY <1>1, ConsensusInit, ConsensusStep, PTL DEF Spec

\* An approved row has its price, unless a handler failed on the way.
THEOREM ApprovedGetsPriced == Spec => []ApprovedIsPriced
<1>1. ConsensusInv => ApprovedIsPriced
      BY DEF ConsensusInv
<1> QED BY <1>1, ConsensusInit, ConsensusStep, PTL DEF Spec

-----------------------------------------------------------------------------
\* All rows cost the same, the newest was submitted by hand and nobody failed.
OnePrice ==
    /\ rows # <<>>
    /\ ~rows[Len(rows)].fromReceipt
    /\ \A i \in Ids : rows[i].price = rows[Len(rows)].price
    /\ lost = {}

\* The rows the newest one would be counted with.
Newest == GroupOf(rows[Len(rows)].name)

\* Then whoever submitted the newest row has yet to read the group, or has
\* all of it in hand, or it is too small for a consensus.
NewestInv ==
    OnePrice =>
        \/ \E h \in Handlers : run[h].at = "group" /\ run[h].own = Len(rows)
        \/ \E h \in Handlers : run[h].at = "approve" /\ Newest \subseteq run[h].ids
        \/ Cardinality(Newest) < ConsensusMin

\* What any rows of one price agree on is that price.
LEMMA MedianOfOne ==
    ASSUME TypeOK, NEW group, group \subseteq Ids, Cardinality(group) >= ConsensusMin,
           NEW p \in Nat, \A i \in group : rows[i].price = p
    PROVE  Median(group) = p /\ Consensus(group) = group
<1>1. Len(rows) \in Nat /\ IsFiniteSet(group) /\ Cardinality(group) \in Nat
      <2>1. Len(rows) \in Nat /\ IsFiniteSet(Ids)
            BY FS_Interval DEF TypeOK, Ids
      <2> QED BY <2>1, FS_Subset, FS_CardinalityType
<1>2. group # {}
      BY FS_EmptySet DEF ConsensusMin
<1>3. {rows[i].price : i \in group} = {p}
      BY <1>2
<1>4. {i \in group : rows[i].price < p} = {} /\ {i \in group : rows[i].price <= p} = group
      OBVIOUS
<1>5. ASSUME NEW k \in Nat, k < Cardinality(group) PROVE Ranked(group, k) = p
      <2>1. /\ Cardinality({i \in group : rows[i].price < p}) <= k
            /\ Cardinality({i \in group : rows[i].price <= p}) > k
            <3>1. Cardinality({}) = 0
                  BY FS_EmptySet
            <3>2. /\ Cardinality({i \in group : rows[i].price < p}) = 0
                  /\ Cardinality({i \in group : rows[i].price <= p}) = Cardinality(group)
                  BY <1>4, <3>1, Zenon
            <3> QED BY <1>1, <1>5, <3>2
      <2> QED BY <1>3, <2>1 DEF Ranked
<1> DEFINE n == Cardinality(group)
           mid == n \div 2
<1>6. mid \in Nat /\ mid < n /\ mid - 1 \in Nat /\ mid - 1 < n
      BY <1>1, Z3 DEF ConsensusMin
<1>7. Ranked(group, mid) = p /\ Ranked(group, mid - 1) = p
      <2> HIDE DEF mid
      <2> QED BY <1>5, <1>6
<1>8. (p + p + 1) \div 2 = p
      BY Z3
<1>9. Median(group) = p
      BY <1>7, <1>8 DEF Median
<1> QED BY <1>9 DEF Consensus, Agrees, Tolerance

\* Where no row is added, OnePrice held before and the group has no new row.
LEMMA NothingNew ==
    ASSUME TypeOK, OnePrice', Len(rows') = Len(rows), old \subseteq old', lost \subseteq lost',
           \A i \in Ids : /\ rows'[i].name = rows[i].name /\ rows'[i].price = rows[i].price
                          /\ rows'[i].fromReceipt = rows[i].fromReceipt
                          /\ rows'[i].status = "PENDING" => rows[i].status = "PENDING"
    PROVE  /\ OnePrice /\ Newest' \subseteq Newest
           /\ Cardinality(Newest) < ConsensusMin => Cardinality(Newest') < ConsensusMin
<1>1. Len(rows) \in Nat /\ Ids' = Ids
      BY DEF TypeOK, Ids
<1>2. rows # <<>> /\ rows' # <<>> /\ Len(rows) \in Ids
      <2>1. rows' # <<>>
            BY DEF OnePrice
      <2>2. Len(rows) # 0
            BY <1>1, <2>1 DEF OnePrice, TypeOK
      <2> QED BY <1>1, <2>1, <2>2 DEF TypeOK, Ids
<1>3. OnePrice
      BY <1>1, <1>2 DEF OnePrice
<1>4. Newest' \subseteq Newest
      BY <1>1, <1>2 DEF Newest, GroupOf
<1>5. IsFiniteSet(Newest)
      <2>1. Newest \subseteq Ids /\ IsFiniteSet(Ids)
            BY <1>1, FS_Interval DEF Newest, GroupOf, Ids
      <2> QED BY <2>1, FS_Subset
<1>6. Cardinality(Newest') <= Cardinality(Newest) /\ Cardinality(Newest) \in Nat
      /\ Cardinality(Newest') \in Nat
      BY <1>4, <1>5, FS_Subset, FS_CardinalityType
<1> QED BY <1>3, <1>4, <1>6 DEF ConsensusMin

\* Every step keeps it: without failures a group that is read is approved.
LEMMA NewestStep == ConsensusInv /\ NewestInv /\ [Next]_vars => NewestInv'
<1> USE ConstantsAssumption
<1> SUFFICES ASSUME ConsensusInv, NewestInv, [Next]_vars, OnePrice' PROVE NewestInv'
    BY DEF NewestInv
<1>0. /\ TypeOK /\ Len(rows) \in Nat /\ \A i \in Ids : rows[i] \in Row
      /\ run \in [Handlers -> Run] /\ Hands
      /\ IsFiniteSet(Ids)
      <2>1. /\ TypeOK /\ Len(rows) \in Nat /\ \A i \in Ids : rows[i] \in Row
            /\ run \in [Handlers -> Run] /\ Hands
            BY DEF ConsensusInv, TypeOK, Ids
      <2> QED BY <2>1, FS_Interval DEF Ids
<1>1. ASSUME NEW h \in Handlers, NEW n \in Names, NEW p \in Prices, Create(h, n, p)
      PROVE  NewestInv'
      <2>1. Len(rows') = Len(rows) + 1
            BY <1>0, <1>1 DEF Create, Insert
      <2>2. run'[h].at = "group" /\ run'[h].own = Len(rows) + 1
            BY <1>0, <1>1 DEF Create
      <2> QED BY <2>1, <2>2 DEF NewestInv
<1>2. ASSUME NEW n \in Names, NEW p \in Prices, AddReceiptLine(n, p) PROVE FALSE
      <2>1. rows'[Len(rows')].fromReceipt
            BY <1>0, <1>2 DEF AddReceiptLine, Insert, TypeOK
      <2> QED BY <2>1 DEF OnePrice
<1>3. ASSUME NEW h \in Handlers, ReadGroup(h) PROVE NewestInv'
      <2> DEFINE group == GroupOf(NameOf(h))
      <2>1. /\ UNCHANGED <<rows, old, points, lost>> /\ run[h].at = "group"
            /\ \A g \in Handlers \ {h} : run'[g] = run[g]
            BY <1>0, <1>3 DEF ReadGroup, TooFew, Found, Rest, Go, At
      <2>2. OnePrice /\ Newest' = Newest
            BY <2>1 DEF OnePrice, Newest, GroupOf, Ids
      <2>3. CASE run[h].own = Len(rows)
            <3>1. group = Newest
                  BY <2>3 DEF NameOf, Newest
            <3>2. CASE Cardinality(Newest) < ConsensusMin
                  BY <2>2, <3>2 DEF NewestInv
            <3>3. CASE ~(Cardinality(Newest) < ConsensusMin)
                  <4>1. Newest \subseteq Ids /\ rows[Len(rows)].price \in Nat
                        <5>1. Len(rows) \in Ids
                              BY <1>0, <2>2 DEF OnePrice, TypeOK, Ids
                        <5>2. rows[Len(rows)].price \in Prices
                              BY <1>0, <5>1 DEF Row
                        <5> QED BY <5>2 DEF Newest, GroupOf
                  <4>2. Cardinality(Newest) >= ConsensusMin
                        <5>1. IsFiniteSet(Newest)
                              BY <1>0, <4>1, FS_Subset
                        <5> QED BY <3>3, <5>1, FS_CardinalityType DEF ConsensusMin
                  <4>3. Consensus(Newest) = Newest
                        BY <1>0, <2>2, <4>1, <4>2, MedianOfOne DEF OnePrice
                  <4>4. Enough(Newest)
                        BY <4>2, <4>3 DEF Enough
                  <4>5. Found(h, Newest)
                        BY <1>3, <3>1, <4>4 DEF ReadGroup, TooFew
                  <4>6. run'[h].at = "approve" /\ run'[h].ids = Newest
                        BY <1>0, <4>3, <4>5 DEF Found, Go
                  <4> QED BY <2>2, <4>6 DEF NewestInv
            <3> QED BY <3>2, <3>3
      <2>4. CASE run[h].own # Len(rows)
            <3> HIDE DEF group
            <3> QED BY <2>1, <2>2, <2>4 DEF NewestInv
      <2> QED BY <2>3, <2>4
<1>4. ASSUME NEW h \in Handlers, Approve(h) PROVE NewestInv'
      <2>1. /\ UNCHANGED <<old, lost>> /\ run[h].at = "approve"
            /\ Len(rows') = Len(rows) /\ Ids' = Ids /\ run'[h].at = "apply"
            /\ \A g \in Handlers \ {h} : run'[g] = run[g]
            /\ \A i \in Ids : rows'[i] = IF i \in run[h].ids THEN Approved(i) ELSE rows[i]
            BY <1>0, <1>4 DEF Approve, Go, At, Ids
      <2>2. /\ OnePrice /\ Newest' \subseteq Newest
            /\ Cardinality(Newest) < ConsensusMin => Cardinality(Newest') < ConsensusMin
            <3>1. \A i \in Ids :
                     /\ rows'[i].name = rows[i].name /\ rows'[i].price = rows[i].price
                     /\ rows'[i].fromReceipt = rows[i].fromReceipt
                     /\ rows'[i].status = "PENDING" => rows[i].status = "PENDING"
                  <4>1. \A i \in Ids :
                           /\ Approved(i).name = rows[i].name /\ Approved(i).price = rows[i].price
                           /\ Approved(i).fromReceipt = rows[i].fromReceipt
                           /\ Approved(i).status # "PENDING"
                        BY DEF Approved
                  <4> QED BY <2>1, <4>1
            <3> QED BY <1>0, <2>1, <3>1, NothingNew
      <2>3. CASE Newest \subseteq run[h].ids
            <3>1. \A i \in run[h].ids : rows'[i].status # "PENDING"
                  <4>1. \A i \in Ids : Approved(i).status # "PENDING"
                        BY DEF Approved
                  <4>2. run[h].ids \subseteq Ids
                        BY <1>0 DEF Hands
                  <4> QED BY <2>1, <4>1, <4>2
            <3>2. \A i \in Newest' : rows'[i].status = "PENDING"
                  BY DEF Newest, GroupOf
            <3>3. Newest' = {}
                  BY <2>2, <2>3, <3>1, <3>2
            <3> QED BY <3>3, FS_EmptySet DEF NewestInv, ConsensusMin
      <2>4. CASE ~(Newest \subseteq run[h].ids)
            BY <2>1, <2>2, <2>4 DEF NewestInv
      <2> QED BY <2>3, <2>4
<1>5. ASSUME NEW h \in Handlers, Apply(h) PROVE NewestInv'
      <2>1. /\ UNCHANGED <<rows, old, lost>> /\ run[h].at = "apply"
            /\ \A g \in Handlers \ {h} : run'[g] = run[g]
            BY <1>0, <1>5 DEF Apply, Rest, At
      <2>2. OnePrice /\ Newest' = Newest
            BY <2>1 DEF OnePrice, Newest, GroupOf, Ids
      <2> QED BY <2>1, <2>2 DEF NewestInv
<1>6. ASSUME NEW h \in Handlers, Fail(h) PROVE FALSE
      BY <1>6 DEF Fail, OnePrice
<1>7. ASSUME Age PROVE NewestInv'
      <2>1. UNCHANGED <<rows, run, lost>> /\ old \subseteq old'
            BY <1>7 DEF Age
      <2>2. /\ OnePrice /\ Newest' \subseteq Newest
            /\ Cardinality(Newest) < ConsensusMin => Cardinality(Newest') < ConsensusMin
            BY <1>0, <2>1, NothingNew
      <2> QED BY <2>1, <2>2 DEF NewestInv
<1>8. CASE UNCHANGED vars
      BY <1>8 DEF vars, NewestInv, OnePrice, Newest, GroupOf, Ids
<1> QED BY <1>1, <1>2, <1>3, <1>4, <1>5, <1>6, <1>7, <1>8 DEF Next, Step

\* price-submissions.service.ts:79: of requests that overlap the last to read sees
\* every row, so that no consensus of one price is left pending.
THEOREM ConsensusFound == Spec => []ConsensusIsApproved
<1>1. Init => NewestInv
      BY DEF Init, NewestInv, OnePrice
<1>2. NewestInv => ConsensusIsApproved
      BY DEF NewestInv, OnePrice, Newest, ConsensusIsApproved, At
<1> QED BY <1>1, <1>2, ConsensusInit, ConsensusStep, NewestStep, PTL DEF Spec

-----------------------------------------------------------------------------
\* Iterations, places in an order, packs.

\* A nonempty set of naturals has a least one.
LEMMA LeastNat ==
    ASSUME NEW S, S \subseteq Nat, S # {}
    PROVE  \E i \in S : \A j \in S : i <= j
<1>1. IsWellFoundedOn(OpToRel(<, Nat), Nat)
      BY NatLessThanWellFounded
<1>2. PICK i \in S : \A j \in S : <<j, i>> \notin OpToRel(<, Nat)
      BY <1>1, WFMin
<1>3. \A j \in S : ~(j < i)
      BY <1>2 DEF OpToRel
<1> QED BY <1>3

\* g[k] is what F makes of x0 in k steps.
Iterates(g, N, X, x0, F) ==
    /\ g \in [0..N -> X]
    /\ \A k \in 0..N : g[k] = IF k = 0 THEN x0 ELSE F[g[k - 1]]

\* A step can be repeated any number of times.
LEMMA IterExists ==
    ASSUME NEW N \in Nat, NEW X, NEW x0 \in X, NEW F \in [X -> X]
    PROVE  \E g : Iterates(g, N, X, x0, F)
<1> DEFINE Is(g, n) == /\ g \in [0..n -> X]
                       /\ \A k \in 0..n : g[k] = IF k = 0 THEN x0 ELSE F[g[k - 1]]
           Bad == {n \in 0..N : ~\E g : Is(g, n)}
<1> SUFFICES ASSUME Bad # {} PROVE FALSE
    BY DEF Bad, Iterates
<1>1. PICK n \in Bad : \A m \in Bad : n <= m
      <2>1. Bad \subseteq Nat
            OBVIOUS
      <2> HIDE DEF Bad
      <2> QED BY <2>1, LeastNat
<1>2. CASE n = 0
      <2>1. Is([k \in 0..0 |-> x0], 0)
            OBVIOUS
      <2> QED BY <1>2, <2>1
<1>3. CASE n # 0
      <2>1. n \in 0..N
            OBVIOUS
      <2>2a. n - 1 \in 0..N /\ n - 1 \notin Bad /\ n \in Nat \ {0}
            <3> HIDE DEF Bad
            <3> QED BY <1>1, <1>3, <2>1
      <2>2. PICK g : Is(g, n - 1)
            BY <2>2a
      <2> DEFINE h == [k \in 0..n |-> IF k = n THEN F[g[n - 1]] ELSE g[k]]
      <2>3. \A k \in 0..(n - 1) : g[k] = IF k = 0 THEN x0 ELSE F[g[k - 1]]
            BY <2>2
      <2>4. \A k \in 0..n : h[k] = IF k = 0 THEN x0 ELSE F[h[k - 1]]
            BY <2>2a, <2>3
      <2>5. h \in [0..n -> X]
            <3>1. g \in [0..(n - 1) -> X]
                  BY <2>2
            <3>2. \A k \in 0..n : k # n => k \in 0..(n - 1)
                  BY <2>2a
            <3>3. n - 1 \in 0..(n - 1)
                  BY <2>2a
            <3> QED BY <3>1, <3>2, <3>3
      <2>6. Is(h, n)
            <3> HIDE DEF h
            <3> QED BY <2>4, <2>5
      <2> QED BY <2>6
<1> QED BY <1>2, <1>3

\* Packs round up.
LEMMA PacksRoundUp ==
    ASSUME NEW q \in Nat, NEW p \in Nat, q > 0, p > 0
    PROVE  /\ (q + p - 1) \div p \in Nat \ {0}
           /\ ((q + p - 1) \div p) * p >= q
           /\ ((q + p - 1) \div p - 1) * p < q
<1> DEFINE n == (q + p - 1) \div p
           m == (q + p - 1) % p
<1>1. n \in Int /\ m \in 0..(p - 1) /\ q + p - 1 = p * n + m
      OBVIOUS
<1> HIDE DEF n, m
<1>2. n * p = p * n
      BY <1>1
<1>3. (n - 1) * p = n * p - p
      BY <1>1
<1>4. n > 0
      <2>1. n <= 0 => p * n <= 0
            BY <1>1
      <2>2. p * n \in Int /\ p * n > 0
            BY <1>1
      <2> QED BY <1>1, <2>1, <2>2
<1>5. p * n \in Int
      BY <1>1
<1> QED BY <1>1, <1>2, <1>3, <1>4, <1>5 DEF n

\* The elements of S that R has before x.
Preceding(S, R, x) == {y \in S : <<y, x>> \in R}

Orders(R, S) ==
    /\ \A x \in S : <<x, x>> \notin R
    /\ \A x, y, z \in S : <<x, y>> \in R /\ <<y, z>> \in R => <<x, z>> \in R
    /\ \A x, y \in S : x = y \/ <<x, y>> \in R \/ <<y, x>> \in R

\* What comes later has more before it.
LEMMA RankIs ==
    ASSUME NEW S, IsFiniteSet(S), NEW R, Orders(R, S), NEW x \in S
    PROVE  /\ Cardinality(Preceding(S, R, x)) \in 0..(Cardinality(S) - 1)
           /\ \A y \in S : <<x, y>> \in R =>
                 Cardinality(Preceding(S, R, x)) < Cardinality(Preceding(S, R, y))
<1>1. \A y \in S : IsFiniteSet(Preceding(S, R, y)) /\ Cardinality(Preceding(S, R, y)) \in Nat
      BY FS_Subset, FS_CardinalityType DEF Preceding
<1>2. Cardinality(Preceding(S, R, x)) <= Cardinality(S) - 1 /\ Cardinality(S) \in Nat
      <2>1. Preceding(S, R, x) \subseteq S \ {x}
            BY DEF Orders, Preceding
      <2>2. IsFiniteSet(S \ {x}) /\ Cardinality(S \ {x}) = Cardinality(S) - 1
            BY FS_RemoveElement
      <2>3. Cardinality(Preceding(S, R, x)) <= Cardinality(S \ {x})
            BY <2>1, <2>2, FS_Subset
      <2> QED BY <2>2, <2>3, FS_CardinalityType
<1>3. ASSUME NEW y \in S, <<x, y>> \in R
      PROVE  Cardinality(Preceding(S, R, x)) < Cardinality(Preceding(S, R, y))
      <2> DEFINE A == Preceding(S, R, x)
                 B == Preceding(S, R, y)
      <2>1. A \subseteq B \ {x} /\ x \in B
            BY <1>3 DEF Orders, Preceding
      <2>2. IsFiniteSet(B) /\ Cardinality(A) \in Nat /\ Cardinality(B) \in Nat
            BY <1>1
      <2> HIDE DEF A, B
      <2>3. IsFiniteSet(B \ {x}) /\ Cardinality(B \ {x}) = Cardinality(B) - 1
            BY <2>1, <2>2, FS_RemoveElement
      <2>4. Cardinality(A) <= Cardinality(B \ {x})
            BY <2>1, <2>3, FS_Subset
      <2>5. Cardinality(A) < Cardinality(B)
            BY <2>2, <2>3, <2>4
      <2> QED BY <2>5 DEF A, B
<1> QED BY <1>1, <1>2, <1>3

\* Some of the elements there are has none of them before it.
LEMMA SomeFirst ==
    ASSUME NEW S, IsFiniteSet(S), NEW R, Orders(R, S), NEW T \in SUBSET S, T # {}
    PROVE  \E x \in T : \A y \in T : y = x \/ <<x, y>> \in R
<1> DEFINE Rank(x) == Cardinality(Preceding(S, R, x))
           Ranks == {Rank(x) : x \in T}
<1>1. Ranks \subseteq Nat /\ Ranks # {}
      <2>1. \A x \in T : Rank(x) \in Nat
            <3> SUFFICES ASSUME NEW x \in T PROVE Rank(x) \in Nat
                OBVIOUS
            <3>1. Cardinality(Preceding(S, R, x)) \in 0..(Cardinality(S) - 1)
                  BY RankIs
            <3> QED BY <3>1, FS_CardinalityType
      <2> QED BY <2>1
<1>2. PICK k \in Ranks : \A j \in Ranks : k <= j
      <2> HIDE DEF Ranks
      <2> QED BY <1>1, LeastNat
<1>3. PICK x \in T : Rank(x) = k
      BY <1>2
<1>4. ASSUME NEW y \in T, y # x, <<x, y>> \notin R PROVE FALSE
      <2>1. <<y, x>> \in R
            BY <1>4 DEF Orders
      <2>2. Rank(y) < Rank(x)
            BY <2>1, RankIs
      <2>3. Rank(y) \in Ranks /\ Rank(x) \in Ranks
            OBVIOUS
      <2>4. Rank(y) \in Nat /\ k \in Nat /\ k <= Rank(y)
            <3> HIDE DEF Rank, Ranks
            <3> QED BY <1>1, <1>2, <2>3
      <2> HIDE DEF Rank
      <2> QED BY <1>3, <2>2, <2>4
<1> QED BY <1>3, <1>4

\* Every place has an element.
LEMMA PlaceTaken ==
    ASSUME NEW S, IsFiniteSet(S), NEW R, Orders(R, S), NEW k \in 1..Cardinality(S)
    PROVE  \E x \in S : Cardinality(Preceding(S, R, x)) = k - 1
<1> DEFINE n == Cardinality(S)
           Rank(x) == Cardinality(Preceding(S, R, x))
           Gaps == {i \in Nat : i < n /\ ~\E x \in S : Rank(x) = i}
<1>1. n \in Nat
      BY FS_CardinalityType
<1>2. Gaps = {}
      <2> SUFFICES ASSUME Gaps # {} PROVE FALSE
          OBVIOUS
      <2>1. PICK i \in Gaps : \A j \in Gaps : i <= j
            <3>1. Gaps \subseteq Nat
                  OBVIOUS
            <3> HIDE DEF Gaps
            <3> QED BY <3>1, LeastNat
      <2>2. i \in Nat /\ i < n /\ \A x \in S : Rank(x) # i
            BY <2>1
      <2>3. \A j \in Nat : j < i => \E x \in S : Rank(x) = j
            BY <1>1, <2>1
      <2> HIDE DEF Gaps
      <2>4. CASE i = 0
            <3>1. S # {}
                  BY <2>2, <2>4, FS_EmptySet
            <3>2. PICK x \in S : \A y \in S : y = x \/ <<x, y>> \in R
                  BY <3>1, SomeFirst
            <3>3. Preceding(S, R, x) = {}
                  BY <3>2 DEF Preceding, Orders
            <3> QED BY <2>2, <2>4, <3>3, FS_EmptySet
      <2>5. CASE i > 0
            <3>1. PICK x \in S : Rank(x) = i - 1
                  BY <2>2, <2>3, <2>5
            <3> DEFINE T == {y \in S : <<x, y>> \in R}
                       A == Preceding(S, R, x)
            <3>2. IsFiniteSet(A) /\ x \notin A
                  BY FS_Subset DEF Preceding, Orders
            <3>3. IsFiniteSet(A \cup {x}) /\ Cardinality(A \cup {x}) = i
                  <4>1. IsFiniteSet(A \cup {x}) /\ Cardinality(A \cup {x}) = Cardinality(A) + 1
                        <5> HIDE DEF A
                        <5> QED BY <3>2, FS_AddElement
                  <4> QED BY <2>2, <3>1, <4>1
            <3>4. T # {}
                  <4> SUFFICES ASSUME T = {} PROVE FALSE
                      OBVIOUS
                  <4>1. S = A \cup {x}
                        BY DEF Preceding, Orders
                  <4> QED BY <2>2, <3>3, <4>1
            <3>5. PICK y \in T : \A z \in T : z = y \/ <<y, z>> \in R
                  <4>1. T \in SUBSET S
                        OBVIOUS
                  <4> HIDE DEF T
                  <4> QED BY <3>4, <4>1, SomeFirst
            <3>6. Preceding(S, R, y) = A \cup {x}
                  BY <3>5 DEF Preceding, Orders
            <3> QED BY <2>2, <3>3, <3>5, <3>6
      <2> QED BY <2>2, <2>4, <2>5
<1>3. k - 1 \in Nat /\ k - 1 < n
      BY <1>1
<1> HIDE DEF n
<1> QED BY <1>2, <1>3

\* One element only.
LEMMA PlaceIs ==
    ASSUME NEW S, IsFiniteSet(S), NEW R, Orders(R, S), NEW x \in S, NEW y \in S,
           Cardinality(Preceding(S, R, x)) = Cardinality(Preceding(S, R, y))
    PROVE  x = y
<1>1. /\ Cardinality(Preceding(S, R, x)) \in Int /\ Cardinality(Preceding(S, R, y)) \in Int
      BY RankIs
<1>2. /\ <<x, y>> \in R => Cardinality(Preceding(S, R, x)) < Cardinality(Preceding(S, R, y))
      /\ <<y, x>> \in R => Cardinality(Preceding(S, R, y)) < Cardinality(Preceding(S, R, x))
      BY RankIs
<1> QED BY <1>1, <1>2 DEF Orders

LEMMA ProductIs == \A x, y \in Int : x * y \in Int
OBVIOUS

LEMMA DivIs == \A a \in Int, b \in Nat \ {0} : a \div b \in Int /\ (a >= 0 => a \div b >= 0)
OBVIOUS

-----------------------------------------------------------------------------
\* Prices, lines and pages from outside.

\* P has the elements of s at the places K, each once.
HasPlaces(P, s, K) ==
    /\ Cardinality(K) \in Nat
    /\ DOMAIN P = 1..Cardinality(K)
    /\ \A n \in 1..Cardinality(K) : \E k \in K : P[n] = s[k]
    /\ \A k \in K : \E n \in 1..Cardinality(K) : P[n] = s[k]

\* Those are the elements that are picked.
LEMMA PickedAre ==
    ASSUME NEW s, NEW K, K \subseteq Nat, IsFiniteSet(K)
    PROVE  HasPlaces(Picked(s, K), s, K)
<1> DEFINE R == {p \in K \X K : p[1] < p[2]}
           Rank(k) == Cardinality({j \in K : j < k})
           P == Picked(s, K)
           Of(n) == CHOOSE k \in K : Rank(k) = n - 1
<1>1. Orders(R, K)
      BY DEF Orders
<1>2. \A k \in K : {j \in K : j < k} = Preceding(K, R, k)
      BY DEF Preceding
<1>3. Cardinality(K) \in Nat
      BY FS_CardinalityType
<1>4. P = [n \in 1..Cardinality(K) |-> s[Of(n)]]
      BY DEF Picked
<1>5. ASSUME NEW n \in 1..Cardinality(K) PROVE Of(n) \in K /\ Rank(Of(n)) = n - 1
      <2>1. PICK k \in K : Cardinality(Preceding(K, R, k)) = n - 1
            BY <1>1, PlaceTaken
      <2>2. Rank(k) = n - 1
            BY <1>2, <2>1
      <2> HIDE DEF Rank
      <2> QED BY <2>2
<1>6. ASSUME NEW k \in K PROVE Rank(k) + 1 \in 1..Cardinality(K) /\ Of(Rank(k) + 1) = k
      <2>1. Rank(k) \in 0..(Cardinality(K) - 1)
            BY <1>1, <1>2, RankIs
      <2> DEFINE n == Rank(k) + 1
      <2>2. n \in 1..Cardinality(K) /\ n - 1 = Rank(k)
            <3> HIDE DEF Rank
            <3> QED BY <1>3, <2>1
      <2>3. Of(n) \in K /\ Rank(Of(n)) = n - 1
            <3> HIDE DEF n, Rank
            <3> QED BY <1>5, <2>2
      <2>4. Cardinality(Preceding(K, R, Of(n))) = Cardinality(Preceding(K, R, k))
            <3> HIDE DEF Of, n
            <3> QED BY <1>2, <2>2, <2>3
      <2>5. Of(n) = k
            <3> HIDE DEF Of, n
            <3> QED BY <1>1, <2>3, <2>4, PlaceIs
      <2> QED BY <2>2, <2>5
<1> HIDE DEF Of, Rank, P
<1>7. \A n \in 1..Cardinality(K) : \E k \in K : P[n] = s[k]
      BY <1>4, <1>5
<1>8. \A k \in K : \E n \in 1..Cardinality(K) : P[n] = s[k]
      BY <1>4, <1>6
<1>9. DOMAIN P = 1..Cardinality(K)
      BY <1>4
<1> QED BY <1>3, <1>7, <1>8, <1>9 DEF P, HasPlaces

\* So what is picked from a sequence is one of its elements.
LEMMA PickedFrom ==
    ASSUME NEW X, NEW s \in Seq(X), NEW K, K \subseteq DOMAIN s
    PROVE  /\ K \subseteq Nat /\ IsFiniteSet(K)
           /\ Picked(s, K) \in Seq(X)
           /\ \A n \in DOMAIN Picked(s, K) : \E k \in K : Picked(s, K)[n] = s[k]
           /\ \A k \in K : \E n \in DOMAIN Picked(s, K) : Picked(s, K)[n] = s[k]
<1>1. DOMAIN s = 1..Len(s) /\ Len(s) \in Nat /\ \A k \in DOMAIN s : s[k] \in X
      BY ElementOfSeq, LenProperties
<1>2. IsFiniteSet(1..Len(s)) /\ K \subseteq 1..Len(s)
      BY <1>1, FS_Interval
<1>3. IsFiniteSet(K) /\ K \subseteq Nat
      BY <1>1, <1>2, FS_Subset
<1> DEFINE P == Picked(s, K)
           c == Cardinality(K)
<1>4. /\ c \in Nat /\ DOMAIN P = 1..c
      /\ \A n \in 1..c : \E k \in K : P[n] = s[k]
      /\ \A k \in K : \E n \in 1..c : P[n] = s[k]
      <2>1. HasPlaces(Picked(s, K), s, K)
            BY <1>3, PickedAre
      <2> QED BY <2>1 DEF HasPlaces
<1>5. P = [n \in 1..c |-> P[n]]
      <2>1. P = [n \in 1..c |-> s[CHOOSE k \in K : Cardinality({j \in K : j < k}) = n - 1]]
            BY DEF Picked
      <2> HIDE DEF P
      <2> QED BY <2>1
<1> HIDE DEF P, c
<1>6. \A n \in 1..c : P[n] \in X
      BY <1>1, <1>4
<1>7. P \in Seq(X)
      BY <1>4, <1>5, <1>6
<1> QED BY <1>3, <1>4, <1>7 DEF P

LEMMA PickedHas ==
    ASSUME NEW X, NEW s \in Seq(X), NEW K, K \subseteq DOMAIN s, NEW k \in K
    PROVE  \E n \in DOMAIN Picked(s, K) : Picked(s, K)[n] = s[k]
BY PickedFrom

Amounted(ts) == \A n \in DOMAIN ts : ts[n].n \in Int
CommaFree(ts) == \A n \in DOMAIN ts : ts[n].is # "comma"

\* Lines are read token by token.
LEMMA LineTokens ==
    ASSUME NEW l \in WrittenLines
    PROVE  /\ SkipNotes(l) \in Seq(Range(l))
           /\ \A n \in DOMAIN SkipNotes(l) : \E k \in DOMAIN l : SkipNotes(l)[n] = l[k]
           /\ \A k \in DOMAIN l : l[k].is = "word" => \E n \in DOMAIN SkipNotes(l) : SkipNotes(l)[n] = l[k]
           /\ Amounted(SkipNotes(l))
<1> DEFINE K == {k \in DOMAIN l : l[k].is \notin {"note", "marker"}}
           ts == SkipNotes(l)
<1>1. l \in Seq(Range(l)) /\ \A k \in DOMAIN l : l[k].n \in Int
      BY LinesAssumption
<1>2. K \subseteq DOMAIN l /\ ts = Picked(l, K)
      BY DEF SkipNotes
<1>3. \A k \in DOMAIN l : l[k].is = "word" => k \in K
      OBVIOUS
<1> HIDE DEF K, ts
<1>4. /\ Picked(l, K) \in Seq(Range(l))
      /\ \A n \in DOMAIN Picked(l, K) : \E k \in K : Picked(l, K)[n] = l[k]
      /\ \A k \in K : \E n \in DOMAIN Picked(l, K) : Picked(l, K)[n] = l[k]
      BY <1>1, <1>2, PickedFrom
<1>5. \A n \in DOMAIN ts : \E k \in DOMAIN l : ts[n] = l[k]
      BY <1>2, <1>4
<1>6. Amounted(ts)
      BY <1>1, <1>5 DEF Amounted
<1> QED BY <1>1, <1>2, <1>3, <1>4, <1>5, <1>6 DEF ts

LEMMA QuantityIs ==
    ASSUME NEW X, NEW ts \in Seq(X), Amounted(ts)
    PROVE  /\ Quantity(ts) \in Int
           /\ AfterQuantity(ts) \in 1..(Len(ts) + 1)
           /\ \A n \in 1..(AfterQuantity(ts) - 1) : ts[n].is \in {"num", "to"}
<1>1. DOMAIN ts = 1..Len(ts) /\ Len(ts) \in Nat
      BY LenProperties
<1>2. CASE IsRange(ts)
      <2>1. 1 \in DOMAIN ts /\ 2 \in DOMAIN ts /\ 3 \in DOMAIN ts
            BY <1>2 DEF IsRange, Reads
      <2>2. ts[1].is = "num" /\ ts[2].is = "to" /\ ts[3].is = "num"
            BY <1>2 DEF IsRange, Reads
      <2>3. ts[1].n \in Int /\ ts[3].n \in Int
            BY <2>1 DEF Amounted
      <2>4. Quantity(ts) = (ts[1].n + ts[3].n) \div 2 /\ AfterQuantity(ts) = 4
            BY <1>2 DEF Quantity, AfterQuantity
      <2>5. (ts[1].n + ts[3].n) \div 2 \in Int
            BY <2>3
      <2>6. \A n \in 1..3 : n = 1 \/ n = 2 \/ n = 3
            OBVIOUS
      <2> QED BY <1>1, <2>1, <2>2, <2>4, <2>5, <2>6
<1>3. CASE ~IsRange(ts) /\ Reads(ts, 1, {"num"})
      <2>1. 1 \in DOMAIN ts /\ ts[1].is = "num"
            BY <1>3 DEF Reads
      <2>2. Quantity(ts) = ts[1].n /\ AfterQuantity(ts) = 2
            BY <1>3 DEF Quantity, AfterQuantity
      <2> QED BY <1>1, <2>1, <2>2 DEF Amounted
<1>4. CASE ~IsRange(ts) /\ ~Reads(ts, 1, {"num"})
      BY <1>1, <1>4 DEF Quantity, AfterQuantity, None
<1> QED BY <1>2, <1>3, <1>4

\* A word is in the name, if nothing before it ends the name.
LEMMA WordKept ==
    ASSUME NEW X, NEW ts \in Seq(X), Amounted(ts), CommaFree(ts)
    PROVE  \A n \in DOMAIN ts : ts[n].is = "word" =>
              \E j \in DOMAIN NameTokens(ts) : NameTokens(ts)[j] = ts[n]
<1> DEFINE afterUnit == AfterQuantity(ts) + (IF UnitOf(ts) # "" THEN 1 ELSE 0)
           from == IF Quantity(ts) # None /\ Reads(ts, afterUnit, {"of"}) THEN afterUnit + 1
                   ELSE afterUnit
           rest == SubSeq(ts, from, Len(ts))
           J == {k \in DOMAIN rest : /\ rest[k].is \notin {"desc", "optional"}
                                     /\ \A j \in {i \in DOMAIN rest : rest[i].is = "comma"} : k < j}
<1>1. DOMAIN ts = 1..Len(ts) /\ Len(ts) \in Nat
      BY LenProperties
<1>2. NameTokens(ts) = Picked(rest, J)
      BY DEF NameTokens
<1>3. /\ AfterQuantity(ts) \in 1..(Len(ts) + 1)
      /\ \A m \in 1..(AfterQuantity(ts) - 1) : ts[m].is \in {"num", "to"}
      BY QuantityIs
<1>4. /\ afterUnit \in 1..(Len(ts) + 1)
      /\ \A m \in 1..(afterUnit - 1) : ts[m].is \in {"num", "to", "unit"}
      <2>1. CASE UnitOf(ts) = ""
            <3>1. afterUnit = AfterQuantity(ts)
                  <4>1. (IF UnitOf(ts) # "" THEN 1 ELSE 0) = 0
                        BY <2>1
                  <4>2. AfterQuantity(ts) + 0 = AfterQuantity(ts)
                        BY <1>1, <1>3
                  <4> QED BY <4>1, <4>2
            <3> HIDE DEF afterUnit
            <3> QED BY <1>3, <3>1
      <2>2. CASE UnitOf(ts) # ""
            <3>1. Reads(ts, AfterQuantity(ts), {"unit"})
                  BY <2>2 DEF UnitOf
            <3>2. AfterQuantity(ts) \in 1..Len(ts) /\ ts[AfterQuantity(ts)].is = "unit"
                  BY <1>1, <3>1 DEF Reads
            <3>3. afterUnit = AfterQuantity(ts) + 1
                  BY <2>2
            <3> HIDE DEF afterUnit
            <3>4. \A m \in 1..(afterUnit - 1) : m \in 1..(AfterQuantity(ts) - 1) \/ m = AfterQuantity(ts)
                  BY <1>3, <3>3
            <3> QED BY <1>1, <1>3, <3>2, <3>3, <3>4
      <2> QED BY <2>1, <2>2
<1> HIDE DEF afterUnit
<1>5. /\ from \in 1..(Len(ts) + 1)
      /\ \A m \in 1..(from - 1) : ts[m].is \in {"num", "to", "unit", "of"}
      <2>1. CASE Reads(ts, afterUnit, {"of"}) /\ from = afterUnit + 1
            <3>1. afterUnit \in 1..Len(ts) /\ ts[afterUnit].is = "of"
                  BY <1>1, <2>1 DEF Reads
            <3> HIDE DEF from
            <3>2. \A m \in 1..(from - 1) : m \in 1..(afterUnit - 1) \/ m = afterUnit
                  BY <1>4, <2>1
            <3> QED BY <1>1, <1>4, <2>1, <3>1, <3>2
      <2>2. CASE from = afterUnit
            <3> HIDE DEF from
            <3> QED BY <1>4, <2>2
      <2> QED BY <2>1, <2>2
<1> HIDE DEF from
<1>7. /\ rest \in Seq(X) /\ Len(rest) = Len(ts) - from + 1 /\ DOMAIN rest = 1..Len(rest)
      /\ \A i \in 1..(Len(ts) - from + 1) : rest[i] = ts[from + i - 1]
      <2>1. Len(ts) \in (from - 1)..Len(ts)
            BY <1>1, <1>5
      <2>2. /\ rest \in Seq(X) /\ Len(rest) = Len(ts) - from + 1
            /\ \A i \in 1..(Len(ts) - from + 1) : rest[i] = ts[from + i - 1]
            BY <1>1, <1>5, <2>1, SubSeqProperties
      <2> HIDE DEF rest
      <2> QED BY <2>2, LenProperties
<1> HIDE DEF rest
<1>9. \A i \in DOMAIN rest : rest[i].is # "comma"
      <2> SUFFICES ASSUME NEW i \in DOMAIN rest PROVE rest[i].is # "comma"
          OBVIOUS
      <2>1. i \in 1..(Len(ts) - from + 1) /\ from + i - 1 \in DOMAIN ts
            BY <1>1, <1>5, <1>7
      <2> QED BY <1>7, <2>1 DEF CommaFree
<1>11. J \subseteq DOMAIN rest
       OBVIOUS
<1>12. \A i \in J : \E j \in DOMAIN Picked(rest, J) : Picked(rest, J)[j] = rest[i]
       <2> HIDE DEF J
       <2>1. rest \in Seq(X)
             BY <1>7
       <2> QED BY <1>11, <2>1, PickedHas
<1> SUFFICES ASSUME NEW n \in DOMAIN ts, ts[n].is = "word"
             PROVE  \E j \in DOMAIN NameTokens(ts) : NameTokens(ts)[j] = ts[n]
    OBVIOUS
<1>6. n >= from
      <2> SUFFICES ASSUME n < from PROVE FALSE
          BY <1>1, <1>5
      <2>1. n \in 1..(from - 1)
            BY <1>1, <1>5
      <2> QED BY <1>5, <2>1
<1>8. n - from + 1 \in DOMAIN rest /\ rest[n - from + 1] = ts[n]
      <2>1. n - from + 1 \in 1..(Len(ts) - from + 1) /\ from + (n - from + 1) - 1 = n
            BY <1>1, <1>5, <1>6
      <2> QED BY <1>7, <2>1
<1>10. n - from + 1 \in J
       BY <1>8, <1>9
<1> HIDE DEF J
<1> QED BY <1>2, <1>8, <1>10, <1>12

\* What an ingredient line is read as.
LineGood(line, l) ==
    /\ line.name # <<>>
    /\ line.unit # "" => line.quantity # None
    /\ ToCanonicalQty(line, None, 50) # None => line.quantity > 0
    /\ ~(\E k \in DOMAIN l : l[k].is = "comma") =>
          \A k \in {i \in DOMAIN l : l[i].is = "word"} :
             \E j \in DOMAIN line.name : line.name[j] = l[k].w

LEMMA LineIsGood == \A l \in WrittenLines : LineGood(NormalizeLine(l), l)
<1> SUFFICES ASSUME NEW l \in WrittenLines PROVE LineGood(NormalizeLine(l), l)
    OBVIOUS
<1> DEFINE ts == SkipNotes(l)
           line == NormalizeLine(l)
           own == NameTokens(ts)
           name == [k \in DOMAIN own |-> own[k].w]
           all == [k \in DOMAIN l |-> l[k].w]
<1>1. l \in Seq(Range(l)) /\ l # <<>>
      BY LinesAssumption
<1>2. /\ ts \in Seq(Range(l))
      /\ \A n \in DOMAIN ts : \E k \in DOMAIN l : ts[n] = l[k]
      /\ \A k \in DOMAIN l : l[k].is = "word" => \E n \in DOMAIN ts : ts[n] = l[k]
      /\ Amounted(ts)
      BY LineTokens
<1>3. /\ line.quantity = Quantity(ts)
      /\ line.unit = IF name = <<>> /\ UnitOf(ts) # "" /\ IsCountUnit(UnitOf(ts)) THEN "piece"
                     ELSE UnitOf(ts)
      /\ line.name = IF name # <<>> THEN name ELSE IF UnitOf(ts) # "" THEN <<UnitOf(ts)>> ELSE all
      BY DEF NormalizeLine
<1>4. UnitOf(ts) # "" => Quantity(ts) # None
      BY DEF UnitOf
<1> HIDE DEF ts, line
<1>5. Quantity(ts) \in Int
      BY <1>2, QuantityIs
<1>6. all # <<>>
      <2>1. DOMAIN l = 1..Len(l) /\ Len(l) \in Nat
            BY <1>1, LenProperties
      <2>2. DOMAIN all = DOMAIN l
            OBVIOUS
      <2>3. Len(l) # 0
            BY <1>1, EmptySeq
      <2>4. 1 \in DOMAIN all
            BY <2>1, <2>2, <2>3
      <2> HIDE DEF all
      <2>5. \A i : i \notin DOMAIN << >>
            OBVIOUS
      <2> QED BY <2>4, <2>5
<1>7. line.name # <<>>
      <2>1. <<UnitOf(ts)>> # <<>>
            OBVIOUS
      <2> HIDE DEF all, name
      <2> QED BY <1>3, <1>6, <2>1
<1>8. line.unit # "" => line.quantity # None
      <2> HIDE DEF name
      <2> QED BY <1>3, <1>4
<1>9. ToCanonicalQty(line, None, 50) # None => line.quantity > 0
      <2>1. line.quantity \in Int
            BY <1>3, <1>5
      <2>2. line.quantity <= 0 => ToCanonicalQty(line, None, 50) = None
            BY DEF ToCanonicalQty
      <2> QED BY <2>1, <2>2
<1>10. ASSUME ~(\E k \in DOMAIN l : l[k].is = "comma"), NEW k \in DOMAIN l, l[k].is = "word"
       PROVE  \E j \in DOMAIN line.name : line.name[j] = l[k].w
       <2>1. PICK n \in DOMAIN ts : ts[n] = l[k]
             BY <1>2, <1>10
       <2>2. CommaFree(ts)
             BY <1>2, <1>10 DEF CommaFree
       <2>3. PICK j \in DOMAIN own : own[j] = ts[n]
             BY <1>2, <1>10, <2>1, <2>2, WordKept
       <2>4. j \in DOMAIN name /\ name[j] = l[k].w
             BY <2>1, <2>3
       <2> HIDE DEF name, own
       <2>5. name # <<>>
             <3>1. \A i : i \notin DOMAIN << >>
                   OBVIOUS
             <3> QED BY <2>4, <3>1
       <2>6. line.name = name
             BY <1>3, <2>5
       <2> QED BY <2>4, <2>6
<1> QED BY <1>7, <1>8, <1>9, <1>10 DEF LineGood, line

\* What pages give: nothing, or a node that has ingredients.
Recipes == {<<>>} \cup {<<MapRecipeNode(n)>> : n \in {m \in PageNodes : Usable(m)}}

RecipeGood(r) == r.lines # <<>> /\ Len(r.instructions) <= 50

LEMMA UpToIs == ASSUME NEW s, NEW n \in Nat PROVE Len(UpTo(s, n)) <= n
<1>1. CASE Len(s) <= n
      BY <1>1 DEF UpTo
<1>2. CASE ~(Len(s) <= n)
      <2> DEFINE t == [k \in 1..n |-> s[k]]
      <2>1. t \in Seq({s[k] : k \in 1..n})
            OBVIOUS
      <2>2. DOMAIN t = 1..n
            OBVIOUS
      <2> HIDE DEF t
      <2>3. Len(t) \in Nat /\ DOMAIN t = 1..Len(t)
            BY <2>1, LenProperties
      <2>4. Len(t) = n
            BY <2>2, <2>3
      <2> QED BY <1>2, <2>4 DEF UpTo, t
<1> QED BY <1>1, <1>2

LEMMA FirstFoundIs ==
    ASSUME NEW f, DOMAIN f \subseteq Nat
    PROVE  FirstFound(f) = <<>> \/ \E k \in DOMAIN f : FirstFound(f) = f[k]
<1> DEFINE some == {k \in DOMAIN f : f[k] # <<>>}
           k0 == CHOOSE k \in some : \A j \in some : k <= j
<1>1. CASE some = {}
      BY <1>1 DEF FirstFound
<1>2. CASE some # {}
      <2>1. some \subseteq Nat
            OBVIOUS
      <2>2. FirstFound(f) = f[k0]
            BY <1>2 DEF FirstFound
      <2>3. k0 \in some
            <3> HIDE DEF some
            <3>1. \E k \in some : \A j \in some : k <= j
                  BY <1>2, <2>1, LeastNat
            <3> QED BY <3>1
      <2> HIDE DEF k0
      <2> QED BY <2>2, <2>3
<1> QED BY <1>1, <1>2

\* A search one level deeper, given what the level below gives.
Deeper(h) ==
    [node \in PageNodes |->
        IF Usable(node) THEN <<MapRecipeNode(node)>>
        ELSE FirstFound([k \in DOMAIN node.inside |-> h[node.inside[k]]])]
Shallow == [node \in PageNodes |-> IF Usable(node) THEN <<MapRecipeNode(node)>> ELSE <<>>]

LEMMA DeeperIs ==
    /\ Shallow \in [PageNodes -> Recipes]
    /\ \A h \in [PageNodes -> Recipes] : Deeper(h) \in [PageNodes -> Recipes]
<1>1. \A node \in PageNodes : Usable(node) => <<MapRecipeNode(node)>> \in Recipes
      BY DEF Recipes
<1>2. <<>> \in Recipes
      BY DEF Recipes
<1>3. Shallow \in [PageNodes -> Recipes]
      BY <1>1, <1>2 DEF Shallow
<1>4. ASSUME NEW h \in [PageNodes -> Recipes], NEW node \in PageNodes
      PROVE  FirstFound([k \in DOMAIN node.inside |-> h[node.inside[k]]]) \in Recipes
      <2> DEFINE f == [k \in DOMAIN node.inside |-> h[node.inside[k]]]
      <2>1. node.inside \in Seq(PageNodes)
            BY PagesAssumption
      <2>2. DOMAIN node.inside \subseteq Nat /\ \A k \in DOMAIN node.inside : node.inside[k] \in PageNodes
            BY <2>1, LenProperties, ElementOfSeq
      <2>3. DOMAIN f \subseteq Nat /\ \A k \in DOMAIN f : f[k] \in Recipes
            BY <2>2
      <2> HIDE DEF f
      <2>4. FirstFound(f) = <<>> \/ \E k \in DOMAIN f : FirstFound(f) = f[k]
            BY <2>3, FirstFoundIs
      <2> QED BY <1>2, <2>3, <2>4 DEF f
<1>5. ASSUME NEW h \in [PageNodes -> Recipes] PROVE Deeper(h) \in [PageNodes -> Recipes]
      BY <1>1, <1>4 DEF Deeper
<1> QED BY <1>3, <1>5

\* The recursion has a solution, and all of it is recipes.
LEMMA RecipeInIs == \A d \in 0..Nesting : RecipeIn[d] \in [PageNodes -> Recipes]
<1> DEFINE X == [PageNodes -> Recipes]
           F == [h \in X |-> Deeper(h)]
           Solves(f) == f = [d \in 0..Nesting |->
               [node \in PageNodes |->
                   IF Usable(node) THEN <<MapRecipeNode(node)>>
                   ELSE IF d = 0 THEN <<>>
                   ELSE FirstFound([k \in DOMAIN node.inside |-> f[d - 1][node.inside[k]]])]]
           Level(f, d) == [node \in PageNodes |->
                   IF Usable(node) THEN <<MapRecipeNode(node)>>
                   ELSE IF d = 0 THEN <<>>
                   ELSE FirstFound([k \in DOMAIN node.inside |-> f[d - 1][node.inside[k]]])]
<1>1. Nesting \in Nat
      BY PagesAssumption
<1>2. \A f, d : Level(f, d) = IF d = 0 THEN Shallow ELSE Deeper(f[d - 1])
      BY DEF Shallow, Deeper
<1>3. \A f : Solves(f) <=> f = [d \in 0..Nesting |-> Level(f, d)]
      OBVIOUS
<1>4. RecipeIn = CHOOSE f : Solves(f)
      BY DEF RecipeIn
<1> HIDE DEF Solves, Level
<1>5. \E f : Solves(f)
      <2>1. Shallow \in X /\ F \in [X -> X] /\ \A h \in X : F[h] = Deeper(h)
            BY DeeperIs
      <2> HIDE DEF X, F
      <2>2. PICK g : Iterates(g, Nesting, X, Shallow, F)
            BY <1>1, <2>1, IterExists
      <2>3. g \in [0..Nesting -> X]
            BY <2>2 DEF Iterates
      <2>4. \A d \in 0..Nesting : g[d] = Level(g, d)
            <3> SUFFICES ASSUME NEW d \in 0..Nesting PROVE g[d] = Level(g, d)
                OBVIOUS
            <3>1. CASE d = 0
                  BY <1>2, <2>2, <3>1 DEF Iterates
            <3>2. CASE d # 0
                  <4>1. d - 1 \in 0..Nesting
                        BY <1>1, <3>2
                  <4>2. g[d - 1] \in X
                        BY <2>3, <4>1
                  <4>3. g[d] = F[g[d - 1]]
                        BY <2>2, <3>2 DEF Iterates
                  <4>4. g[d] = Deeper(g[d - 1])
                        BY <2>1, <4>2, <4>3
                  <4> QED BY <1>2, <3>2, <4>4
            <3> QED BY <3>1, <3>2
      <2>5. g = [d \in 0..Nesting |-> Level(g, d)]
            BY <2>3, <2>4
      <2> QED BY <1>3, <2>5
<1>6. Solves(RecipeIn)
      BY <1>4, <1>5
<1>7. \A d \in 0..Nesting : RecipeIn[d] = Level(RecipeIn, d)
      BY <1>3, <1>6
<1> DEFINE Bad == {d \in 0..Nesting : RecipeIn[d] \notin X}
<1>8. Bad = {}
      <2> SUFFICES ASSUME Bad # {} PROVE FALSE
          OBVIOUS
      <2>1. PICK d \in Bad : \A e \in Bad : d <= e
            <3>1. Bad \subseteq Nat
                  OBVIOUS
            <3> HIDE DEF Bad
            <3> QED BY <3>1, LeastNat
      <2>2. d \in 0..Nesting /\ RecipeIn[d] \notin X
            OBVIOUS
      <2>3. CASE d = 0
            BY <1>2, <1>7, <2>2, <2>3, DeeperIs
      <2>4. CASE d # 0
            <3>1. d - 1 \in 0..Nesting /\ ~(d <= d - 1)
                  BY <1>1, <2>2, <2>4
            <3>2. RecipeIn[d - 1] \in X
                  BY <2>1, <3>1
            <3>3. RecipeIn[d] = Deeper(RecipeIn[d - 1])
                  BY <1>2, <1>7, <2>2, <2>4
            <3> QED BY <2>2, <3>2, <3>3, DeeperIs
      <2> QED BY <2>3, <2>4
<1> QED BY <1>8

LEMMA PageIsGood ==
    \A p \in Pages : \A n \in DOMAIN ExtractRecipe(p) : RecipeGood(ExtractRecipe(p)[n])
<1> SUFFICES ASSUME NEW p \in Pages
             PROVE  \A n \in DOMAIN ExtractRecipe(p) : RecipeGood(ExtractRecipe(p)[n])
    OBVIOUS
<1> DEFINE In(k) == [j \in DOMAIN p[k] |-> RecipeIn[Nesting][p[k][j]]]
           all == [k \in DOMAIN p |-> FirstFound(In(k))]
<1>1. p \in Seq(Seq(PageNodes)) /\ Nesting \in 0..Nesting
      BY PagesAssumption
<1>2. RecipeIn[Nesting] \in [PageNodes -> Recipes]
      BY <1>1, RecipeInIs
<1>3. DOMAIN p \subseteq Nat /\ \A k \in DOMAIN p : p[k] \in Seq(PageNodes)
      BY <1>1, LenProperties, ElementOfSeq
<1>4. <<>> \in Recipes
      BY DEF Recipes
<1>5. ASSUME NEW k \in DOMAIN p PROVE FirstFound(In(k)) \in Recipes
      <2>1. p[k] \in Seq(PageNodes)
            BY <1>3
      <2>2. DOMAIN p[k] \subseteq Nat /\ \A j \in DOMAIN p[k] : p[k][j] \in PageNodes
            BY <2>1, LenProperties, ElementOfSeq
      <2>3. DOMAIN In(k) \subseteq Nat /\ \A j \in DOMAIN In(k) : In(k)[j] \in Recipes
            BY <1>2, <2>2
      <2> HIDE DEF In
      <2>4. FirstFound(In(k)) = <<>> \/ \E j \in DOMAIN In(k) : FirstFound(In(k)) = In(k)[j]
            BY <2>3, FirstFoundIs
      <2> QED BY <1>4, <2>3, <2>4
<1>6. DOMAIN all \subseteq Nat /\ \A k \in DOMAIN all : all[k] \in Recipes
      <2> HIDE DEF In
      <2> QED BY <1>3, <1>5
<1>7. ExtractRecipe(p) = FirstFound(all)
      BY DEF ExtractRecipe
<1> HIDE DEF all, In
<1>8. ExtractRecipe(p) \in Recipes
      <2>1. FirstFound(all) = <<>> \/ \E k \in DOMAIN all : FirstFound(all) = all[k]
            BY <1>6, FirstFoundIs
      <2> QED BY <1>4, <1>6, <1>7, <2>1
<1>9. ASSUME NEW m \in PageNodes, Usable(m) PROVE RecipeGood(MapRecipeNode(m))
      <2>1. MapRecipeNode(m).lines # <<>>
            BY <1>9 DEF Usable
      <2>2. MapRecipeNode(m).instructions = UpTo(WalkSteps(m.steps), 50)
            BY DEF MapRecipeNode
      <2>3. Len(UpTo(WalkSteps(m.steps), 50)) <= 50
            BY UpToIs
      <2> QED BY <2>1, <2>2, <2>3 DEF RecipeGood
<1>10. CASE ExtractRecipe(p) = <<>>
       BY <1>10
<1>11. CASE ExtractRecipe(p) # <<>>
       <2>1. PICK m \in PageNodes : Usable(m) /\ ExtractRecipe(p) = <<MapRecipeNode(m)>>
             BY <1>8, <1>11 DEF Recipes
       <2>2. RecipeGood(MapRecipeNode(m))
             BY <1>9, <2>1
       <2> HIDE DEF MapRecipeNode
       <2> QED BY <2>1, <2>2
<1> QED BY <1>10, <1>11

\* Cells of a file, and what a row is made of.
CellTyped(cell) ==
    /\ cell.num \in Int
    /\ cell.size # <<>> => cell.size[1] \in Int /\ cell.size[2] \in Nat

RecordTyped(record) == \A c \in DOMAIN record : CellTyped(record[c])

PackUnits == {"g", "kg", "ml", "l", "piece", "pack"}
PackGood(pack) == pack.size \in Nat /\ pack.count \in Int /\ pack.unit \in PackUnits

RowGood(row) ==
    /\ row.priceCents \in Nat \ {0}
    /\ row.wasPriceCents > row.priceCents => row.isPromo
    /\ PackGood(row.pack)

LEMMA FilesTyped ==
    \A f \in Files : /\ f.records \in Seq(Range(f.records))
                     /\ \A k \in DOMAIN f.records : RecordTyped(f.records[k])
BY FilesAssumption DEF RecordTyped, CellTyped

LEMMA CellIs ==
    ASSUME NEW record, RecordTyped(record), NEW field, DOMAIN Aliases[field] \subseteq Nat
    PROVE  CellTyped(CellOf(record, field))
<1> DEFINE names == Aliases[field]
           found == {k \in DOMAIN names : names[k] \in DOMAIN record}
           k0 == CHOOSE k \in found : \A j \in found : k <= j
<1>1. CASE found = {}
      BY <1>1 DEF CellOf, NoCell, None, CellTyped
<1>2. CASE found # {}
      <2>1. found \subseteq Nat
            OBVIOUS
      <2>2. CellOf(record, field) = record[names[k0]]
            BY <1>2 DEF CellOf
      <2>3. k0 \in found
            <3> HIDE DEF found
            <3>1. \E k \in found : \A j \in found : k <= j
                  BY <1>2, <2>1, LeastNat
            <3> QED BY <3>1
      <2> HIDE DEF k0
      <2> QED BY <2>2, <2>3 DEF RecordTyped
<1> QED BY <1>1, <1>2

LEMMA AliasPlaces ==
    /\ DOMAIN Aliases["priceDollars"] \subseteq Nat
    /\ DOMAIN Aliases["priceCents"] \subseteq Nat
    /\ DOMAIN Aliases["promoPriceDollars"] \subseteq Nat
    /\ DOMAIN Aliases["packSize"] \subseteq Nat
    /\ DOMAIN Aliases["unitCount"] \subseteq Nat
BY DEF Aliases

LEMMA HalfIs ==
    ASSUME NEW a \in Int, NEW b \in Nat \ {0}
    PROVE  Half(a, b) \in Int /\ (a >= 0 => Half(a, b) >= 0)
<1>1. 2 * a + b \in Int /\ 2 * b \in Nat \ {0} /\ (a >= 0 => 2 * a + b >= 0)
      OBVIOUS
<1> QED BY <1>1, DivIs DEF Half

\* What a record costs, and what its row costs.
LEMMA PriceIs ==
    ASSUME NEW record, RecordTyped(record)
    PROVE  LET listed == CentsOf(record, "priceCents", "priceDollars")
               row == MapRecordToRow(record)
           IN /\ listed \in Int /\ row.priceCents \in Int
              /\ row.priceCents <= listed
              /\ listed > 0 => row.priceCents > 0
              /\ row.wasPriceCents > row.priceCents => row.isPromo
<1> DEFINE listed == CentsOf(record, "priceCents", "priceDollars")
           promo == CellOf(record, "promoPriceDollars").num
           row == MapRecordToRow(record)
           cents == CellOf(record, "priceCents").num
           dollars == CellOf(record, "priceDollars").num
<1>1. cents \in Int /\ dollars \in Int /\ promo \in Int
      <2>1. /\ CellTyped(CellOf(record, "priceCents"))
            /\ CellTyped(CellOf(record, "priceDollars"))
            /\ CellTyped(CellOf(record, "promoPriceDollars"))
            BY AliasPlaces, CellIs
      <2> QED BY <2>1 DEF CellTyped
<1>2. listed \in Int
      <2>1. listed = IF cents # None THEN Half(cents, 100) ELSE dollars
            BY DEF CentsOf
      <2>2. Half(cents, 100) \in Int
            BY <1>1, HalfIs
      <2> QED BY <1>1, <2>1, <2>2
<1>3. /\ row.priceCents = IF Discounted(promo, listed) THEN promo ELSE listed
      /\ row.isPromo = \/ CellOf(record, "isPromo").yes = 1 \/ Discounted(promo, listed)
                       \/ row.wasPriceCents > row.priceCents
      BY DEF MapRecordToRow
<1> HIDE DEF listed, promo, row
<1>4. CASE Discounted(promo, listed)
      <2>1. promo > 0 /\ promo < listed /\ row.priceCents = promo
            BY <1>3, <1>4 DEF Discounted
      <2>2. row.isPromo
            BY <1>3, <1>4, Zenon
      <2> QED BY <1>1, <1>2, <2>1, <2>2 DEF listed, row
<1>5. CASE ~Discounted(promo, listed)
      <2>1. row.priceCents = listed
            BY <1>3, <1>5
      <2>2. row.wasPriceCents > row.priceCents => row.isPromo
            BY <1>3, Zenon
      <2> QED BY <1>2, <2>1, <2>2 DEF listed, row
<1> QED BY <1>4, <1>5

LEMMA UnitKnown == \A token : MapPackUnit(token) \in PackUnits \cup {""}
<1>1. \A token \in DOMAIN UnitMap : UnitMap[token] \in PackUnits
      <2>1. DOMAIN UnitMap = {"g", "gram", "kg", "ml", "ltr", "pc", "each", "pkt"}
            BY DEF UnitMap
      <2>2. /\ UnitMap["g"] = "g" /\ UnitMap["gram"] = "g" /\ UnitMap["kg"] = "kg"
            /\ UnitMap["ml"] = "ml" /\ UnitMap["ltr"] = "l" /\ UnitMap["pc"] = "piece"
            /\ UnitMap["each"] = "piece" /\ UnitMap["pkt"] = "pack"
            BY DEF UnitMap
      <2> QED BY <2>1, <2>2 DEF PackUnits
<1> QED BY <1>1 DEF MapPackUnit

LEMMA PackIs ==
    ASSUME NEW record, RecordTyped(record)
    PROVE  PackGood(PackOf(record))
<1> DEFINE size == CellOf(record, "packSize")
           unit == MapPackUnit(CellOf(record, "packUnit").text)
           count == CellOf(record, "unitCount").num
           parsed == ParseSizeString(size)
           a == [size |-> size.num, unit |-> unit, count |-> count]
           b == [size |-> parsed[2], unit |-> MapPackUnit(parsed[3]),
                 count |-> IF count = None THEN parsed[1] ELSE count]
           c == [size |-> size.num, unit |-> "piece", count |-> count]
           d == [size |-> 100, unit |-> unit, count |-> count]
           e == [size |-> 100, unit |-> "piece", count |-> count]
<1>1. CellTyped(size) /\ count \in Int
      <2>1. CellTyped(CellOf(record, "packSize")) /\ CellTyped(CellOf(record, "unitCount"))
            BY AliasPlaces, CellIs
      <2> QED BY <2>1 DEF CellTyped
<1>2. unit \in PackUnits \cup {""}
      BY UnitKnown
<1>3. parsed # <<>> => parsed = size.size /\ MapPackUnit(parsed[3]) # ""
      BY DEF ParseSizeString
<1>4. PackOf(record) =
         CASE size.num > 0 /\ unit # "" -> a
           [] ~(size.num > 0 /\ unit # "") /\ parsed # <<>> -> b
           [] parsed = <<>> /\ size.num > 0 /\ unit = "" -> c
           [] parsed = <<>> /\ size = NoCell /\ unit # "" -> d
           [] OTHER -> e
      BY DEF PackOf
<1> HIDE DEF size, unit, count, parsed
<1>5. size.num > 0 /\ unit # "" => PackGood(a)
      <2>1. size.num > 0 => size.num \in Nat
            BY <1>1 DEF CellTyped
      <2> QED BY <1>1, <1>2, <2>1 DEF PackGood
<1>6. parsed # <<>> => PackGood(b)
      <2> SUFFICES ASSUME parsed # <<>> PROVE PackGood(b)
          OBVIOUS
      <2>1. parsed[1] \in Int /\ parsed[2] \in Nat
            BY <1>1, <1>3 DEF CellTyped
      <2>2. MapPackUnit(parsed[3]) \in PackUnits
            BY <1>3, UnitKnown
      <2> QED BY <1>1, <2>1, <2>2 DEF PackGood
<1>7. size.num > 0 => PackGood(c)
      BY <1>1 DEF PackGood, PackUnits, CellTyped
<1>8. unit # "" => PackGood(d)
      BY <1>1, <1>2 DEF PackGood
<1>9. PackGood(e)
      BY <1>1 DEF PackGood, PackUnits
<1> DEFINE pack == PackOf(record)
<1>10. \/ size.num > 0 /\ unit # "" /\ pack = a
       \/ parsed # <<>> /\ pack = b
       \/ size.num > 0 /\ pack = c
       \/ unit # "" /\ pack = d
       \/ pack = e
       <2> HIDE DEF a, b, c, d, e
       <2> QED BY <1>4
<1> HIDE DEF pack, a, b, c, d, e
<1> QED BY <1>5, <1>6, <1>7, <1>8, <1>9, <1>10 DEF pack

LEMMA RowIsGood ==
    ASSUME NEW record, RecordTyped(record), IsMapped(record)
    PROVE  RowGood(MapRecordToRow(record))
<1> DEFINE row == MapRecordToRow(record)
           listed == CentsOf(record, "priceCents", "priceDollars")
<1>1. row.pack = PackOf(record)
      BY DEF MapRecordToRow
<1>2. listed > 0
      BY DEF IsMapped
<1>3. /\ listed \in Int /\ row.priceCents \in Int /\ (listed > 0 => row.priceCents > 0)
      /\ row.wasPriceCents > row.priceCents => row.isPromo
      BY PriceIs
<1>4. PackGood(row.pack)
      BY <1>1, PackIs
<1> HIDE DEF row, listed
<1> QED BY <1>2, <1>3, <1>4 DEF RowGood, row

\* Whatever its unit, a pack that has a size has a weight, a volume or pieces.
LEMMA PackUnitsIn ==
    ASSUME NEW q \in Nat, NEW u \in PackUnits
    PROVE  LET c == ToCanonical(q, u, Nothing0, Nothing0)
           IN \E m \in {1000, 200000, 1000000} :
                 c.value = q * m /\ c.unit \in {"g", "ml", "piece"}
<1> DEFINE c == ToCanonical(q, u, Nothing0, Nothing0)
<1>1. ~(Nothing0 > 0) /\ Nothing0 <= 0
      BY DEF Nothing0
<1>2. DOMAIN MassToGrams = {"g", "kg", "mg", "oz", "catty"}
      BY DEF MassToGrams
<1>3. DOMAIN VolumeToMl = {"ml", "l", "cup", "pinch"}
      BY DEF VolumeToMl
<1>4. MassToGrams["g"] = 1000 /\ MassToGrams["kg"] = 1000000
      BY DEF MassToGrams
<1>5. VolumeToMl["ml"] = 1000 /\ VolumeToMl["l"] = 1000000
      BY DEF VolumeToMl
<1>6. PerPiece("pack", Nothing0) = 200000 /\ PerPiece("piece", Nothing0) = 0
      BY DEF PerPiece, CountUnitDefaultGrams
<1>7. CASE u \in {"g", "kg"}
      <2>1. IsMassUnit(u)
            BY <1>2, <1>7 DEF IsMassUnit
      <2>2. c = [value |-> q * MassToGrams[u], unit |-> "g"]
            BY <2>1, <1>2, <1>3, <1>7 DEF ToCanonical, IsVolumeUnit, IsCountUnit, CountUnits
      <2>3. c.value = q * MassToGrams[u] /\ c.unit = "g"
            BY <2>2
      <2> HIDE DEF c
      <2> QED BY <1>4, <1>7, <2>3 DEF c
<1>8. CASE u \in {"ml", "l"}
      <2>1. ~IsMassUnit(u) /\ IsVolumeUnit(u) /\ ~IsCountUnit(u)
            BY <1>2, <1>3, <1>8 DEF IsMassUnit, IsVolumeUnit, IsCountUnit, CountUnits
      <2>2. c = [value |-> q * VolumeToMl[u], unit |-> "ml"]
            BY <1>1, <2>1 DEF ToCanonical
      <2>3. c.value = q * VolumeToMl[u] /\ c.unit = "ml"
            BY <2>2
      <2> HIDE DEF c
      <2> QED BY <1>5, <1>8, <2>3 DEF c
<1>9. CASE u = "pack"
      <2>1. ~IsMassUnit(u) /\ ~IsVolumeUnit(u) /\ IsCountUnit(u)
            BY <1>2, <1>3, <1>9 DEF IsMassUnit, IsVolumeUnit, IsCountUnit, CountUnits
      <2>2. PerPiece(u, Nothing0) = 200000
            BY <1>6, <1>9
      <2>3. c = [value |-> q * 200000, unit |-> "g"]
            BY <2>1, <2>2 DEF ToCanonical
      <2>4. c.value = q * 200000 /\ c.unit = "g"
            BY <2>3
      <2> HIDE DEF c
      <2> QED BY <2>4 DEF c
<1>10. CASE u = "piece"
      <2>1. ~IsMassUnit(u) /\ ~IsVolumeUnit(u) /\ IsCountUnit(u)
            BY <1>2, <1>3, <1>10 DEF IsMassUnit, IsVolumeUnit, IsCountUnit, CountUnits
      <2>2. PerPiece(u, Nothing0) = 0
            BY <1>6, <1>10
      <2>3. c = [value |-> q * 1000, unit |-> "piece"]
            BY <2>1, <2>2 DEF ToCanonical
      <2>4. c.value = q * 1000 /\ c.unit = "piece"
            BY <2>3
      <2> HIDE DEF c
      <2> QED BY <2>4 DEF c
<1> QED BY <1>7, <1>8, <1>9, <1>10 DEF PackUnits

LEMMA TimesIs ==
    ASSUME NEW x \in Nat, NEW y \in Nat
    PROVE  x * y \in Nat /\ (x > 0 => y * x >= y) /\ (x > 0 => x * y >= y)
OBVIOUS

LEMMA HundredthIs ==
    ASSUME NEW x \in Nat
    PROVE  x \div 100 \in Nat /\ (x >= 1000 => x \div 100 > 0)
OBVIOUS

LEMMA CanonicalPackIs ==
    ASSUME NEW row, PackGood(row.pack), NEW count \in Nat
    PROVE  LET c == CanonicalPack(row, count)
           IN /\ c.value \in Nat /\ c.unit \in {"g", "ml", "piece"}
              /\ row.pack.size > 0 /\ count > 0 => c.value > 0
<1> DEFINE q == row.pack.size
           u == row.pack.unit
           c == CanonicalPack(row, count)
           one == ToCanonical(q, u, Nothing0, Nothing0)
<1>1. q \in Nat /\ u \in PackUnits
      BY DEF PackGood
<1> HIDE DEF q, u
<1>2. PICK m \in {1000, 200000, 1000000} :
         one.value = q * m /\ one.unit \in {"g", "ml", "piece"}
      BY <1>1, PackUnitsIn
<1>3. c = [value |-> (one.value * count) \div 100, unit |-> one.unit]
      BY DEF CanonicalPack, PackSizeToCanonical, q, u
<1>4. c.value = (one.value * count) \div 100 /\ c.unit = one.unit
      BY <1>3
<1> HIDE DEF one, c
<1>5. one.value \in Nat /\ (q > 0 => one.value >= 1000)
      BY <1>1, <1>2
<1>6. one.value * count \in Nat /\ (q > 0 /\ count > 0 => one.value * count >= 1000)
      <2> DEFINE v == one.value
      <2>1. v \in Nat /\ (q > 0 => v >= 1000)
            BY <1>5
      <2> HIDE DEF v
      <2>2. v * count \in Nat /\ (count > 0 => v * count >= v)
            BY <2>1, TimesIs
      <2>3. v * count \in Nat /\ (q > 0 /\ count > 0 => v * count >= 1000)
            <3> DEFINE w == v * count
            <3>1. w \in Nat /\ (count > 0 => w >= v)
                  BY <2>2
            <3> HIDE DEF w
            <3> QED BY <2>1, <3>1, <1>1 DEF w
      <2> QED BY <2>3 DEF v
<1> DEFINE w == one.value * count
<1>7. w \in Nat /\ (q > 0 /\ count > 0 => w >= 1000) /\ c.value = w \div 100
      BY <1>4, <1>6
<1> HIDE DEF w
<1>8. w \div 100 \in Nat /\ (w >= 1000 => w \div 100 > 0)
      BY <1>7, HundredthIs
<1>9. c.value \in Nat /\ (q > 0 /\ count > 0 => c.value > 0)
      BY <1>7, <1>8
<1> QED BY <1>2, <1>4, <1>9 DEF c, q

LEMMA StoredCountIs ==
    ASSUME NEW row, PackGood(row.pack)
    PROVE  StoredCount(row) \in Nat
<1>1. row.pack.count \in Int
      BY DEF PackGood
<1>2. Half(row.pack.count, 100) \in Int /\ (row.pack.count >= 0 => Half(row.pack.count, 100) >= 0)
      BY <1>1, HalfIs
<1> QED BY <1>1, <1>2 DEF StoredCount

\* A price per kilogram, litre or piece.
LEMMA NormalizedIs ==
    ASSUME NEW row, RowGood(row)
    PROVE  NormalizePrice(row).cents >= 0 \/ row.pack.size = 0
<1> DEFINE n == IF StoredCount(row) > 0 THEN StoredCount(row) ELSE 1
           c == CanonicalPack(row, n)
           a == Half(row.priceCents * 1000, c.value)
           b == Half(row.priceCents * 1000000, c.value)
<1>1. PackGood(row.pack) /\ row.priceCents \in Nat
      BY DEF RowGood
<1>2. n \in Nat /\ n > 0
      BY <1>1, StoredCountIs
<1>3. NormalizePrice(row) =
         IF row.pack.size <= 0 \/ c.value <= 0 THEN [of |-> "", cents |-> None]
         ELSE IF c.unit = "piece" THEN [of |-> "piece", cents |-> a]
         ELSE [of |-> c.unit, cents |-> b]
      BY DEF NormalizePrice
<1> HIDE DEF n
<1>4. c.value \in Nat /\ (row.pack.size > 0 => c.value > 0) /\ row.pack.size \in Nat
      <2>1. row.pack.size \in Nat
            BY <1>1 DEF PackGood
      <2> QED BY <1>1, <1>2, <2>1, CanonicalPackIs
<1> HIDE DEF c
<1>5. SUFFICES ASSUME row.pack.size # 0 PROVE NormalizePrice(row).cents >= 0
      OBVIOUS
<1>6. c.value \in Nat \ {0} /\ ~(row.pack.size <= 0 \/ c.value <= 0)
      BY <1>4, <1>5
<1>7. row.priceCents * 1000 \in Nat /\ row.priceCents * 1000000 \in Nat
      BY <1>1
<1>8. a >= 0 /\ b >= 0
      <2> DEFINE x == row.priceCents * 1000
                 y == row.priceCents * 1000000
                 v == c.value
      <2>1. x \in Int /\ x >= 0 /\ y \in Int /\ y >= 0 /\ v \in Nat \ {0}
            BY <1>6, <1>7
      <2> HIDE DEF x, y, v
      <2>2. Half(x, v) >= 0 /\ Half(y, v) >= 0
            BY <2>1, HalfIs
      <2> QED BY <2>2 DEF x, y, v
<1> HIDE DEF a, b
<1>9. NormalizePrice(row).cents = a \/ NormalizePrice(row).cents = b
      BY <1>3, <1>6
<1> QED BY <1>8, <1>9

\* Packs enough for what is needed, and no more.
LEMMA PacksForIs ==
    ASSUME NEW row, RowGood(row), NEW need \in Int, NEW grams \in {None, 50}
    PROVE  LET packs == PacksFor(row, need, grams)
               pack == PackGrams(row, grams)
           IN /\ packs \in Nat
              /\ pack > 0 => /\ packs * pack >= need
                             /\ (packs - 1) * pack < need \/ packs = 1
<1> DEFINE pack == PackGrams(row, grams)
           packs == PacksFor(row, need, grams)
           c == CanonicalPack(row, StoredCount(row))
<1>1. PackGood(row.pack)
      BY DEF RowGood
<1>2. c.value \in Nat
      BY <1>1, StoredCountIs, CanonicalPackIs
<1>3. pack = IF c.unit \in {"g", "ml"} THEN c.value
             ELSE IF grams > 0 THEN c.value * grams ELSE None
      BY DEF PackGrams
<1> HIDE DEF c
<1>4. pack \in Int
      <2> HIDE DEF pack
      <2>1. grams > 0 => c.value * grams \in Int
            BY <1>2, ProductIs DEF None
      <2> QED BY <1>2, <1>3, <2>1 DEF None
<1>5. packs = IF need <= 0 \/ pack <= 0 THEN 1 ELSE (need + pack - 1) \div pack
      BY DEF PacksFor
<1> HIDE DEF pack, packs
<1>6. CASE need <= 0 \/ pack <= 0
      <2>1. packs = 1
            BY <1>5, <1>6
      <2>2. pack > 0 => 1 * pack >= need
            BY <1>4, <1>6
      <2> QED BY <2>1, <2>2 DEF pack, packs
<1>7. CASE ~(need <= 0 \/ pack <= 0)
      <2>1. need \in Nat /\ pack \in Nat /\ need > 0 /\ pack > 0
            BY <1>4, <1>7
      <2>2. packs = (need + pack - 1) \div pack
            BY <1>5, <1>7
      <2>3. packs \in Nat \ {0} /\ packs * pack >= need /\ (packs - 1) * pack < need
            BY <2>1, <2>2, PacksRoundUp
      <2> QED BY <2>3 DEF pack, packs
<1> QED BY <1>6, <1>7

LEMMA EffectiveCostIs ==
    ASSUME NEW row, RowGood(row), NEW need \in Int
    PROVE  EffectiveCostCents(row, need, 50) \in Int
<1>1. PacksFor(row, need, 50) \in Int
      BY PacksForIs
<1>2. row.priceCents \in Int
      BY DEF RowGood
<1> QED BY <1>1, <1>2, ProductIs DEF EffectiveCostCents

RowsGood(offers) == \A k \in DOMAIN offers : RowGood(offers[k])

\* The cheapest come first.
LEMMA ComparedIs ==
    ASSUME NEW X, NEW offers \in Seq(X), RowsGood(offers), NEW need \in Int
    PROVE  \A i, j \in DOMAIN CompareRows(offers, need, 50) : i < j =>
              EffectiveCostCents(CompareRows(offers, need, 50)[i], need, 50)
                 <= EffectiveCostCents(CompareRows(offers, need, 50)[j], need, 50)
<1> DEFINE all == DOMAIN offers
           cost(k) == EffectiveCostCents(offers[k], need, 50)
           R == {p \in all \X all : cost(p[1]) < cost(p[2]) \/ (cost(p[1]) = cost(p[2]) /\ p[1] < p[2])}
           Rank(k) == Cardinality(Preceding(all, R, k))
           Along(n) == CHOOSE k \in all : Rank(k) = n - 1
<1>1. all = 1..Len(offers) /\ Len(offers) \in Nat /\ IsFiniteSet(all) /\ Cardinality(all) = Len(offers)
      <2>1. all = 1..Len(offers) /\ Len(offers) \in Nat
            BY LenProperties
      <2> DEFINE n == Len(offers)
      <2>2. n \in Nat /\ 1 \in Int /\ n \in Int
            BY <2>1
      <2> HIDE DEF n
      <2>3. IsFiniteSet(1..n) /\ Cardinality(1..n) = IF 1 > n THEN 0 ELSE n - 1 + 1
            BY <2>2, FS_Interval
      <2>4. Cardinality(1..n) = n
            BY <2>2, <2>3
      <2> HIDE DEF all
      <2> QED BY <2>1, <2>3, <2>4 DEF n
<1>2. \A k \in all : cost(k) \in Int
      BY EffectiveCostIs DEF RowsGood
<1> HIDE DEF cost
<1>3. Orders(R, all)
      <2>1. all \subseteq Int
            BY <1>1
      <2> HIDE DEF all
      <2> QED BY <1>2, <2>1 DEF Orders
<1>4. \A k \in all : {m \in all : Cheaper(offers, m, k, need, 50)} = Preceding(all, R, k)
      BY DEF Preceding, Cheaper, cost
<1>5. CompareRows(offers, need, 50) =
         [n \in {m \in 1..6 : m <= Len(offers)} |->
            offers[CHOOSE k \in all : Cardinality({m \in all : Cheaper(offers, m, k, need, 50)}) = n - 1]]
      BY DEF CompareRows
<1> HIDE DEF all, R
<1>6. \A n : (CHOOSE k \in all : Cardinality({m \in all : Cheaper(offers, m, k, need, 50)}) = n - 1)
               = Along(n)
      BY <1>4
<1>7. CompareRows(offers, need, 50) = [n \in {m \in 1..6 : m <= Len(offers)} |-> offers[Along(n)]]
      BY <1>5, <1>6
<1>9. ASSUME NEW n \in 1..Cardinality(all) PROVE Along(n) \in all /\ Rank(Along(n)) = n - 1
      <2>1. \E k \in all : Rank(k) = n - 1
            BY <1>1, <1>3, PlaceTaken
      <2> HIDE DEF Rank
      <2> QED BY <2>1
<1> SUFFICES ASSUME NEW i \in DOMAIN CompareRows(offers, need, 50),
                    NEW j \in DOMAIN CompareRows(offers, need, 50), i < j
             PROVE  EffectiveCostCents(CompareRows(offers, need, 50)[i], need, 50)
                       <= EffectiveCostCents(CompareRows(offers, need, 50)[j], need, 50)
    OBVIOUS
<1>8. i \in 1..Cardinality(all) /\ j \in 1..Cardinality(all)
      BY <1>1, <1>7
<1> HIDE DEF Along
<1>10. CompareRows(offers, need, 50)[i] = offers[Along(i)] /\ CompareRows(offers, need, 50)[j] = offers[Along(j)]
       BY <1>7
<1>11. /\ Along(i) \in all /\ Rank(Along(i)) = i - 1 /\ Along(j) \in all /\ Rank(Along(j)) = j - 1
       BY <1>8, <1>9
<1>12. ASSUME cost(Along(j)) < cost(Along(i)) PROVE FALSE
       <2>1. <<Along(j), Along(i)>> \in R
             BY <1>11, <1>12 DEF R
       <2>2. Rank(Along(j)) < Rank(Along(i))
             BY <1>1, <1>3, <1>11, <2>1, RankIs
       <2> HIDE DEF Rank
       <2> QED BY <1>8, <1>11, <2>2
<1>13. cost(Along(i)) <= cost(Along(j))
       <2>1. cost(Along(i)) \in Int /\ cost(Along(j)) \in Int
             BY <1>2, <1>11
       <2> QED BY <1>12, <2>1
<1> QED BY <1>10, <1>13 DEF cost

\* What has come in, and what each kind of it is read as.
ForeignInv ==
    \/ reading = Unread
    \/ /\ paper.kind = "file" /\ paper.body \in Files
       /\ reading = [Unread EXCEPT !.rows = ParseFile(paper.body), !.done = TRUE]
    \/ /\ paper.kind = "line" /\ paper.body \in WrittenLines
       /\ reading = [Unread EXCEPT !.lines = <<NormalizeLine(paper.body)>>, !.done = TRUE]
    \/ /\ paper.kind = "page" /\ paper.body \in Pages
       /\ reading = [Unread EXCEPT !.recipes = ExtractRecipe(paper.body), !.done = TRUE]

PaperInv ==
    \/ paper.kind = "file" /\ paper.body \in Files
    \/ paper.kind = "line" /\ paper.body \in WrittenLines
    \/ paper.kind = "page" /\ paper.body \in Pages

LEMMA ForeignInvStarts == ForeignInit => PaperInv /\ ForeignInv
BY DEF ForeignInit, PaperInv, ForeignInv

LEMMA ForeignInvStep ==
    PaperInv /\ ForeignInv /\ [ForeignNext]_foreignVars => (PaperInv /\ ForeignInv)'
<1> SUFFICES ASSUME PaperInv, ForeignInv, [ForeignNext]_foreignVars
             PROVE  PaperInv' /\ ForeignInv'
    OBVIOUS
<1>1. CASE ReadFileRows
      <2>1. paper.body \in Files
            BY <1>1 DEF PaperInv, ReadFileRows
      <2> QED BY <1>1, <2>1 DEF PaperInv, ForeignInv, ReadFileRows
<1>2. CASE ReadLine
      <2>1. paper.body \in WrittenLines
            BY <1>2 DEF PaperInv, ReadLine
      <2> QED BY <1>2, <2>1 DEF PaperInv, ForeignInv, ReadLine
<1>3. CASE ReadPage
      <2>1. paper.body \in Pages
            BY <1>3 DEF PaperInv, ReadPage
      <2> QED BY <1>3, <2>1 DEF PaperInv, ForeignInv, ReadPage
<1>4. CASE UNCHANGED foreignVars
      BY <1>4 DEF PaperInv, ForeignInv, foreignVars
<1> QED BY <1>1, <1>2, <1>3, <1>4 DEF ForeignNext

\* A file is read as good rows.
LEMMA ParsedAre ==
    ASSUME NEW f \in Files
    PROVE  /\ ParseFile(f) \in Seq(Range(ParseFile(f)))
           /\ RowsGood(ParseFile(f))
<1> DEFINE records == f.records
           K == {k \in DOMAIN records : IsMapped(records[k])}
           kept == Picked(records, K)
           offers == [k \in DOMAIN kept |-> MapRecordToRow(kept[k])]
<1>1. records \in Seq(Range(records)) /\ \A k \in DOMAIN records : RecordTyped(records[k])
      BY FilesTyped
<1>2. K \subseteq DOMAIN records
      OBVIOUS
<1>3. \A k \in K : k \in DOMAIN records /\ IsMapped(records[k])
      OBVIOUS
<1> HIDE DEF records, K
<1>4. kept \in Seq(Range(records)) /\ \A n \in DOMAIN kept : \E k \in K : kept[n] = records[k]
      BY <1>1, <1>2, PickedFrom
<1> HIDE DEF kept
<1>5. \A n \in DOMAIN kept : RecordTyped(kept[n]) /\ IsMapped(kept[n])
      BY <1>1, <1>3, <1>4
<1>6. RowsGood(offers)
      BY <1>5, RowIsGood DEF RowsGood
<1>7. offers \in Seq(Range(offers))
      <2>1. DOMAIN kept = 1..Len(kept) /\ Len(kept) \in Nat
            BY <1>4, LenProperties
      <2>2. offers = [k \in 1..Len(kept) |-> offers[k]] /\ \A k \in 1..Len(kept) : offers[k] \in Range(offers)
            BY <2>1 DEF Range
      <2> HIDE DEF offers
      <2> QED BY <2>1, <2>2
<1>8. CASE f.kind = "api" /\ ~f.wrapped
      <2>1. ParseFile(f) = <<>>
            BY <1>8 DEF ParseFile
      <2>2. <<>> \in Seq(Range(<<>>)) /\ DOMAIN << >> = {}
            OBVIOUS
      <2> QED BY <2>1, <2>2 DEF RowsGood
<1>9. CASE ~(f.kind = "api" /\ ~f.wrapped)
      <2>1. ParseFile(f) = offers
            BY <1>9 DEF ParseFile, records, K, kept
      <2> HIDE DEF offers
      <2> QED BY <1>6, <1>7, <2>1
<1> QED BY <1>8, <1>9

LEMMA FileIsComparable ==
    ASSUME paper.body \in Files, reading.rows = ParseFile(paper.body)
    PROVE  RowsAreComparable
<1> DEFINE offers == reading.rows
           f == paper.body
<1>1. offers \in Seq(Range(offers)) /\ RowsGood(offers)
      BY ParsedAre
<1>2. Needs \subseteq Int /\ \A j \in DOMAIN f.records : RecordTyped(f.records[j])
      BY FilesAssumption, FilesTyped
<1>3. ASSUME NEW k \in DOMAIN offers
      PROVE  /\ offers[k].priceCents > 0 /\ (offers[k].wasPriceCents > offers[k].priceCents => offers[k].isPromo)
             /\ NormalizePrice(offers[k]).cents >= 0 \/ offers[k].pack.size = 0
      <2>1. RowGood(offers[k])
            BY <1>1 DEF RowsGood
      <2>2. NormalizePrice(offers[k]).cents >= 0 \/ offers[k].pack.size = 0
            BY <2>1, NormalizedIs
      <2>3. /\ offers[k].priceCents \in Nat \ {0}
            /\ offers[k].wasPriceCents > offers[k].priceCents => offers[k].isPromo
            BY <2>1 DEF RowGood
      <2> QED BY <2>2, <2>3
<1>4. ASSUME NEW k \in DOMAIN offers, NEW record \in {f.records[j] : j \in DOMAIN f.records},
             MapRecordToRow(record) = offers[k]
      PROVE  offers[k].priceCents <= CentsOf(record, "priceCents", "priceDollars")
      <2>1. RecordTyped(record)
            BY <1>2
      <2> QED BY <1>4, <2>1, PriceIs
<1>5. ASSUME NEW k \in DOMAIN offers, NEW need \in Needs, NEW grams \in {None, 50}
      PROVE  LET packs == PacksFor(offers[k], need, grams)
                 pack == PackGrams(offers[k], grams)
             IN pack > 0 => /\ packs * pack >= need
                            /\ (packs - 1) * pack < need \/ packs = 1
      <2>1. RowGood(offers[k]) /\ need \in Int
            BY <1>1, <1>2 DEF RowsGood
      <2> QED BY <2>1, PacksForIs
<1>6. ASSUME NEW need \in Needs
      PROVE  \A i, j \in DOMAIN CompareRows(offers, need, 50) : i < j =>
                EffectiveCostCents(CompareRows(offers, need, 50)[i], need, 50)
                   <= EffectiveCostCents(CompareRows(offers, need, 50)[j], need, 50)
      <2>1. need \in Int
            BY <1>2
      <2> HIDE DEF offers
      <2> QED BY <1>1, <2>1, ComparedIs
<1> QED BY <1>3, <1>4, <1>5, <1>6 DEF RowsAreComparable

LEMMA ForeignInvUsable == ForeignInv => ForeignDataIsUsable
<1> SUFFICES ASSUME ForeignInv PROVE ForeignDataIsUsable
    OBVIOUS
<1>0. DOMAIN << >> = {}
      OBVIOUS
<1>1. CASE reading = Unread
      <2>1. reading.rows = <<>> /\ reading.lines = <<>> /\ reading.recipes = <<>>
            BY <1>1 DEF Unread
      <2> QED BY <1>0, <2>1 DEF ForeignDataIsUsable, RowsAreComparable, ForeignTextIsRead
<1>2. CASE /\ paper.kind = "file" /\ paper.body \in Files
           /\ reading = [Unread EXCEPT !.rows = ParseFile(paper.body), !.done = TRUE]
      <2>1. reading.rows = ParseFile(paper.body) /\ reading.lines = <<>> /\ reading.recipes = <<>>
            BY <1>2 DEF Unread
      <2>2. RowsAreComparable
            BY <1>2, <2>1, FileIsComparable
      <2>3. ForeignTextIsRead
            BY <1>0, <2>1 DEF ForeignTextIsRead
      <2> QED BY <2>2, <2>3 DEF ForeignDataIsUsable
<1>3. CASE /\ paper.kind = "line" /\ paper.body \in WrittenLines
           /\ reading = [Unread EXCEPT !.lines = <<NormalizeLine(paper.body)>>, !.done = TRUE]
      <2> DEFINE line == NormalizeLine(paper.body)
      <2>1. reading.rows = <<>> /\ reading.lines = <<line>> /\ reading.recipes = <<>>
            BY <1>3 DEF Unread
      <2>2. LineGood(line, paper.body)
            BY <1>3, LineIsGood
      <2> HIDE DEF line
      <2>3. RowsAreComparable
            BY <1>0, <2>1 DEF RowsAreComparable
      <2>4. \A n \in DOMAIN reading.lines : reading.lines[n] = line
            BY <2>1
      <2>5. ForeignTextIsRead
            BY <1>0, <2>1, <2>2, <2>4 DEF ForeignTextIsRead, LineGood
      <2> QED BY <2>3, <2>5 DEF ForeignDataIsUsable
<1>4. CASE /\ paper.kind = "page" /\ paper.body \in Pages
           /\ reading = [Unread EXCEPT !.recipes = ExtractRecipe(paper.body), !.done = TRUE]
      <2>1. reading.rows = <<>> /\ reading.lines = <<>> /\ reading.recipes = ExtractRecipe(paper.body)
            BY <1>4 DEF Unread
      <2>2. \A n \in DOMAIN reading.recipes : RecipeGood(reading.recipes[n])
            BY <1>4, <2>1, PageIsGood
      <2>3. RowsAreComparable
            BY <1>0, <2>1 DEF RowsAreComparable
      <2>4. ForeignTextIsRead
            BY <1>0, <2>1, <2>2 DEF ForeignTextIsRead, RecipeGood
      <2> QED BY <2>3, <2>4 DEF ForeignDataIsUsable
<1> QED BY <1>1, <1>2, <1>3, <1>4 DEF ForeignInv

\* Whatever columns a file has, an accepted row costs something, is a promotion
\* when a higher price is known, has one price per unit, and is compared by
\* packs enough and not one more (row-mapper.ts:153, price-comparison); a line
\* loses no word and has no unit without a number (normalization.service.ts:199);
\* and a page gives a recipe only if it has ingredients
\* (recipe-extraction.ts:217).
THEOREM ForeignDataRead == ForeignSpec => []ForeignDataIsUsable
<1>1. ForeignInit => PaperInv /\ ForeignInv
      BY ForeignInvStarts
<1>2. PaperInv /\ ForeignInv /\ [ForeignNext]_foreignVars => (PaperInv /\ ForeignInv)'
      BY ForeignInvStep
<1>3. ForeignInv => ForeignDataIsUsable
      BY ForeignInvUsable
<1> QED BY <1>1, <1>2, <1>3, PTL DEF ForeignSpec
=============================================================================

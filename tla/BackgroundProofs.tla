-------------------------- MODULE BackgroundProofs --------------------------
(***************************************************************************)
(* Proofs about the work of the queues: the scheduled scans and what they  *)
(* send (AlertScans), the receipts that are read and bring in prices       *)
(* (Receipts), imports and approvals and what follows them (Catalogue);    *)
(* and about who signs in to which account (Accounts).  For any number of  *)
(* users, processes, products, receipts and imports, any files, any batch  *)
(* size and any number of attempts, stalls and outages, any number of      *)
(* accounts, links and requests.                                           *)
(***************************************************************************)
EXTENDS AlertScans, Catalogue, Receipts, Accounts, FiniteSetTheorems, WellFoundedInduction, TLAPS

-----------------------------------------------------------------------------
\* The rows of a page.

LEMMA LowestIs ==
    ASSUME NEW S \in SUBSET Nat, S # {}
    PROVE  Lowest(S) \in S /\ \A v \in S : Lowest(S) <= v
<1> DEFINE T == {0..u : u \in S}
           R == StrictSubsetOrdering(Nat)
<1>1. T \subseteq FiniteSubsetsOf(Nat) /\ T # {}
      <2>1. \A u \in S : 0..u \in SUBSET Nat /\ IsFiniteSet(0..u)
            BY FS_Interval
      <2> QED BY <2>1 DEF FiniteSubsetsOf
<1>2. PICK x \in T : \A y \in T : <<y, x>> \notin R
      BY <1>1, FS_StrictSubsetOrderingWellFounded, WFMin
<1>3. PICK u \in S : x = 0..u
      OBVIOUS
<1>4. ASSUME NEW v \in S, v < u PROVE FALSE
      <2>1. 0..v \in T /\ 0..v \subseteq 0..u /\ 0..v # 0..u
            BY <1>4
      <2>2. <<0..v, 0..u>> \in R
            BY <2>1 DEF StrictSubsetOrdering
      <2> QED BY <1>2, <1>3, <2>1, <2>2
<1>5. \A v \in S : u <= v
      BY <1>4
<1> QED BY <1>5 DEF Lowest

LEMMA HighestIs ==
    ASSUME NEW S \in SUBSET Nat, S # {}, NEW b \in Nat, \A v \in S : v <= b
    PROVE  Highest(S) \in S /\ \A v \in S : v <= Highest(S)
<1> DEFINE T == {n \in Nat : \A v \in S : v <= n}
<1>1. T # {} /\ T \in SUBSET Nat
      OBVIOUS
<1>2. PICK m \in T : \A n \in T : m <= n
      BY <1>1, LowestIs
<1>3. ASSUME m \notin S PROVE FALSE
      <2>1. \A v \in S : v <= m - 1 /\ m - 1 \in Nat
            BY <1>3
      <2>2. m - 1 \in T
            BY <2>1
      <2> QED BY <1>2, <2>2
<1>4. \E u \in S : \A v \in S : v <= u
      BY <1>3
<1> QED BY <1>4 DEF Highest

Below(S, u) == {v \in S : v < u}

LEMMA FirstIs ==
    ASSUME NEW S \in SUBSET Nat, NEW b \in Nat, \A v \in S : v <= b, NEW n \in Nat \ {0}
    PROVE  /\ First(S, n) \subseteq S
           /\ \A u \in S \ First(S, n), v \in First(S, n) : v < u
           /\ S # {} => Lowest(S) \in First(S, n)
           /\ S # First(S, n) => Cardinality(First(S, n)) = n
<1> DEFINE F == First(S, n)
<1>1. /\ IsFiniteSet(S)
      /\ \A u \in S : IsFiniteSet(Below(S, u)) /\ Cardinality(Below(S, u)) \in Nat
      /\ IsFiniteSet(F) /\ Cardinality(F) \in Nat /\ F \subseteq S
      <2>1. IsFiniteSet(S)
            BY FS_BoundedSetOfNaturals
      <2>2. F \subseteq S /\ \A u \in S : Below(S, u) \subseteq S
            BY DEF First, Below
      <2> QED BY <2>1, <2>2, FS_Subset, FS_CardinalityType
<1>2. \A u \in S : u \in F <=> Cardinality(Below(S, u)) < n
      BY DEF First, Below
<1> HIDE DEF F
<1>3. ASSUME NEW u \in S \ F, NEW v \in F PROVE v < u
      <2>0. u \in Nat /\ v \in Nat /\ u # v
            BY <1>1
      <2>1. SUFFICES ASSUME u < v PROVE FALSE
            BY <2>0
      <2>2. Below(S, u) \in SUBSET Below(S, v)
            <3>1. \A w \in Nat : w < u => w < v
                  BY <2>0, <2>1
            <3> QED BY <3>1 DEF Below
      <2>3. Cardinality(Below(S, u)) <= Cardinality(Below(S, v))
            BY <1>1, <2>2, FS_Subset
      <2> QED BY <1>1, <1>2, <2>3
<1>4. ASSUME S # {} PROVE Lowest(S) \in F
      <2>1. PICK l \in S : l = Lowest(S) /\ \A v \in S : l <= v
            BY <1>4, LowestIs
      <2>2. \A v \in S : ~(v < l)
            BY <2>1
      <2>3. Below(S, l) = {}
            BY <2>2 DEF Below
      <2>4. Cardinality(Below(S, l)) = 0
            BY <2>3, FS_EmptySet
      <2> QED BY <1>2, <2>1, <2>4
<1>5. ASSUME S # F PROVE Cardinality(F) = n
      <2> DEFINE G == S \ F
      <2>1. G # {} /\ G \in SUBSET Nat
            BY <1>1, <1>5
      <2>2. PICK u \in G : \A v \in G : u <= v
            <3> HIDE DEF G
            <3> QED BY <2>1, LowestIs
      <2>3. Below(S, u) \in SUBSET F
            <3>1. \A v \in S : v < u => v \in F
                  BY <2>2
            <3> QED BY <3>1 DEF Below
      <2>4. Cardinality(Below(S, u)) >= n
            BY <1>1, <1>2
      <2>5. Cardinality(F) >= n
            <3>1. Cardinality(Below(S, u)) <= Cardinality(F)
                  BY <1>1, <2>3, FS_Subset
            <3> QED BY <1>1, <2>4, <3>1
      <2>6. F # {}
            BY <2>5, FS_EmptySet
      <2>7. PICK x \in F : \A v \in F : v <= x
            <3>1. F \in SUBSET Nat /\ \A v \in F : v <= b
                  BY <1>1
            <3> QED BY <2>6, <3>1, HighestIs
      <2>8. F \in SUBSET (Below(S, x) \cup {x})
            BY <1>1, <2>7 DEF Below
      <2>9. Cardinality(F) <= Cardinality(Below(S, x)) + 1
            <3>1. x \notin Below(S, x) /\ IsFiniteSet(Below(S, x))
                  BY <1>1 DEF Below
            <3>2. IsFiniteSet(Below(S, x) \cup {x}) /\ Cardinality(Below(S, x) \cup {x}) = Cardinality(Below(S, x)) + 1
                  BY <3>1, FS_AddElement
            <3>3. Cardinality(F) <= Cardinality(Below(S, x) \cup {x})
                  BY <2>8, <3>2, FS_Subset
            <3> QED BY <3>2, <3>3
      <2> QED BY <1>1, <1>2, <2>5, <2>7, <2>9
<1> QED BY <1>1, <1>3, <1>4, <1>5 DEF F

\* Users enabled whose id comes after the cursor.
Behind(k, cursor) == {u \in rules[k] : u > cursor}

\* A page holds rows behind the cursor; if the cursor's row is still there, it
\* holds the first of them.
LEMMA PageIs ==
    ASSUME NEW k, NEW cursor \in Nat, rules[k] \subseteq Users, PlatformAssumption, AlertsAssumption,
           NEW b \in Nat, \A u \in rules[k] : u <= b
    PROVE  /\ Page(k, cursor) \subseteq Behind(k, cursor)
           /\ cursor = 0 \/ cursor \in rules[k] =>
                 Page(k, cursor) = First(Behind(k, cursor), BatchSize)
<1> DEFINE from == {u \in rules[k] : u >= cursor}
<1>1. /\ rules[k] \in SUBSET Nat /\ 0 \notin rules[k]
      /\ BatchSize \in Nat \ {0}
      BY DEF PlatformAssumption, AlertsAssumption
<1>2. CASE cursor = 0
      <2>1. Behind(k, cursor) = rules[k]
            BY <1>1, <1>2 DEF Behind
      <2>2. Page(k, cursor) = First(rules[k], BatchSize)
            BY <1>2 DEF Page
      <2> QED BY <2>1, <2>2 DEF First
<1>3. CASE cursor # 0
      <2>1. Page(k, cursor) = First(from \ First(from, 1), BatchSize)
            BY <1>3 DEF Page
      <2>2. from \in SUBSET Nat /\ \A u \in from : u <= b /\ cursor <= u /\ u \in rules[k]
            BY <1>1
      <2>3. cursor \in rules[k] => cursor \in from
            OBVIOUS
      <2>4. Behind(k, cursor) \subseteq from /\ \A u \in from : u # cursor => u \in Behind(k, cursor)
            BY <1>1 DEF Behind
      <2> HIDE DEF from
      <2>5. /\ First(from, 1) \subseteq from
            /\ from # {} => Lowest(from) \in First(from, 1)
            /\ \A u \in from \ First(from, 1), v \in First(from, 1) : v < u
            <3>1. 1 \in Nat \ {0} /\ \A u \in from : u <= b
                  BY <2>2
            <3> QED BY <2>2, <3>1, FirstIs
      <2>6. ASSUME NEW u \in from \ First(from, 1) PROVE u # cursor
            <3>1. PICK l \in First(from, 1) : l = Lowest(from)
                  BY <2>5
            <3>2. l < u /\ l >= cursor /\ l \in Nat /\ u \in Nat
                  BY <2>2, <2>5
            <3> QED BY <3>2
      <2>7. from \ First(from, 1) \subseteq Behind(k, cursor)
            BY <2>4, <2>6
      <2>8. First(from \ First(from, 1), BatchSize) \subseteq from \ First(from, 1)
            BY DEF First
      <2>9. ASSUME cursor \in rules[k] PROVE from \ First(from, 1) = Behind(k, cursor)
            <3>1. ASSUME NEW u \in First(from, 1) PROVE u \notin Behind(k, cursor)
                  <4>1. SUFFICES ASSUME u > cursor PROVE FALSE
                        BY DEF Behind
                  <4>2. cursor \in from /\ u \in from
                        BY <2>3, <2>5, <2>9
                  <4>3. cursor \in {v \in from : v < u} /\ {v \in from : v < u} \in SUBSET from
                        BY <4>1, <4>2
                  <4>4. IsFiniteSet({v \in from : v < u})
                        BY <2>2, <4>3, FS_BoundedSetOfNaturals, FS_Subset
                  <4>5. Cardinality({v \in from : v < u}) # 0 /\ Cardinality({v \in from : v < u}) \in Nat
                        BY <4>3, <4>4, FS_EmptySet, FS_CardinalityType
                  <4>6. Cardinality({v \in from : v < u}) < 1
                        BY DEF First
                  <4> QED BY <4>5, <4>6
            <3> QED BY <2>4, <2>7, <3>1
      <2> QED BY <1>3, <2>1, <2>7, <2>8, <2>9
<1> QED BY <1>2, <1>3

-----------------------------------------------------------------------------
Visiting == {"product", "duplicate", "digest", "notify"}
JobId1 == Kinds \X Nat
ScanRow ==
    [at : {"idle", "batch", "visit", "done"} \cup Visiting, id : JobId1 \cup {Nothing},
     kind : Kinds \cup {Nothing}, start : Nat, cursor : Nat, batch : SUBSET Users, full : BOOLEAN,
     user : Nat, left : SUBSET Products, product : Products \cup {Nothing},
     alone : BOOLEAN, again : BOOLEAN, cut : BOOLEAN]
NoticeRow ==
    [user : Users, kind : Kinds, product : Products \cup {Nothing}, at : Nat, job : JobId1,
     read : BOOLEAN, alone : BOOLEAN, again : BOOLEAN]

AlertTypes ==
    /\ hour \in Nat
    /\ rules \in [Kinds -> SUBSET Users]
    /\ \A k \in Kinds : \E b \in Nat : \A u \in rules[k] : u <= b
    /\ notices \in Seq(NoticeRow)
    /\ jobs \subseteq JobRow
    /\ scan \in [Workers -> ScanRow]
    /\ owed \in [Workers -> SUBSET Users]

On(w) == scan[w].at # "idle"

\* A job that has been started at least once.
Begun(id) == \E j \in jobs : j.id = id /\ (j.state = "waiting" => j.stalls > 0)

JobsOnce == \A i, j \in jobs : i.id[1] = i.kind /\ (i.id = j.id => i = j)

\* A scan belongs to a job that was started, and the first start of a job is one scan's.
ScanOK(w) ==
    On(w) => /\ scan[w].kind \in Kinds /\ scan[w].id \in JobId1 /\ scan[w].id[1] = scan[w].kind
             /\ Begun(scan[w].id) /\ scan[w].start <= hour

FirstStarts ==
    \A v, w \in Workers :
       On(v) /\ On(w) /\ scan[v].id = scan[w].id /\ ~scan[v].again /\ ~scan[w].again => v = w

NoticeOK(i) ==
    /\ notices[i].job[1] = notices[i].kind /\ Begun(notices[i].job)

\* The rows a scan has still to visit come after the one it is at.
OrderOK(w) ==
    /\ \A u \in scan[w].batch : u <= scan[w].cursor
    /\ scan[w].at = "visit" => scan[w].batch # {}
    /\ scan[w].at \in {"product", "duplicate"} => scan[w].kind = "price-drop"
    /\ scan[w].at = "digest" => scan[w].kind # "price-drop"
    /\ scan[w].at \in Visiting =>
          /\ scan[w].user \in Users /\ scan[w].user <= scan[w].cursor
          /\ \A u \in scan[w].batch : scan[w].user < u

QueueInv ==
    /\ AlertTypes /\ JobsOnce /\ FirstStarts
    /\ \A w \in Workers : ScanOK(w) /\ OrderOK(w)
    /\ \A i \in DOMAIN notices : NoticeOK(i)

\* What the first start of a digest has sent is for users it has passed.
Sent(w, i) == notices[i].job = scan[w].id /\ ~notices[i].again
SentOK(w) ==
    On(w) /\ ~scan[w].again /\ scan[w].kind # "price-drop" =>
       \A i \in DOMAIN notices : Sent(w, i) =>
          /\ notices[i].user <= scan[w].cursor
          /\ \A u \in scan[w].batch : notices[i].user < u
          /\ scan[w].at \in Visiting => notices[i].user < scan[w].user

\* A scan that is alone has no other of its kind beside it, and what it is
\* about to send was not sent within a day of its start.
AloneOK ==
    \A v, w \in Workers : v # w /\ Busy(v) /\ Busy(w) /\ scan[v].kind = scan[w].kind => ~scan[v].alone
DropOK(w) ==
    scan[w].at = "notify" /\ scan[w].kind = "price-drop" /\ scan[w].alone =>
       \A i \in DOMAIN notices :
          notices[i].user = scan[w].user /\ notices[i].product = scan[w].product
          /\ notices[i].kind = "price-drop" => notices[i].at < scan[w].start - Day

NoticeInv ==
    /\ QueueInv /\ AloneOK /\ NotifiedOnce
    /\ \A w \in Workers : SentOK(w) /\ DropOK(w)

\* A scan whose cursor's row was there at every batch misses nothing behind it.
OwedOK(w) ==
    /\ scan[w].at = "idle" => owed[w] = {}
    /\ On(w) => owed[w] \subseteq rules[scan[w].kind]
    /\ ~scan[w].cut =>
          /\ scan[w].at = "done" => owed[w] = {}
          /\ scan[w].at = "batch" => \A u \in owed[w] : u > scan[w].cursor
          /\ scan[w].at \in Visiting \cup {"visit"} =>
                \A u \in owed[w] : u \in scan[w].batch \/ (scan[w].full /\ u > scan[w].cursor)

OwedInv == QueueInv /\ \A w \in Workers : OwedOK(w)

-----------------------------------------------------------------------------
\* Steps of a scan.

LEMMA ScanMoves ==
    ASSUME AlertTypes, NEW w \in Workers, NEW v \in ScanRow, scan' = [scan EXCEPT ![w] = v]
    PROVE  /\ scan' \in [Workers -> ScanRow] /\ scan'[w] = v
           /\ \A x \in Workers \ {w} : scan'[x] = scan[x]
BY DEF AlertTypes

\* What a start of another scan leaves as it is.
SameAt(v) ==
    /\ scan'[v].id = scan[v].id /\ scan'[v].kind = scan[v].kind /\ scan'[v].start = scan[v].start
    /\ scan'[v].again = scan[v].again /\ (scan'[v].alone => scan[v].alone)
    /\ scan'[v].at = scan[v].at /\ scan'[v].user = scan[v].user /\ scan'[v].product = scan[v].product
    /\ scan'[v].batch = scan[v].batch /\ scan'[v].full = scan[v].full
    /\ scan'[v].cursor = scan[v].cursor /\ scan'[v].cut = scan[v].cut

\* The scan of w goes on.
SameScan(w) ==
    /\ scan'[w].id = scan[w].id /\ scan'[w].kind = scan[w].kind /\ scan'[w].start = scan[w].start
    /\ scan'[w].again = scan[w].again /\ scan'[w].alone = scan[w].alone
Moved(w) ==
    /\ scan' \in [Workers -> ScanRow] /\ \A x \in Workers \ {w} : scan'[x] = scan[x]
    /\ SameScan(w) /\ scan[w].at \notin {"idle", "done"} /\ scan'[w].at # "idle"

\* The row w has when it goes on with the next row.
Next1(w, v) ==
    /\ v.at = IF scan[w].batch # {} THEN "visit" ELSE IF scan[w].full THEN "batch" ELSE "done"
    /\ v.batch = scan[w].batch /\ v.full = scan[w].full /\ v.cursor = scan[w].cursor
    /\ v.cut = scan[w].cut

LEMMA GoOnIs ==
    ASSUME AlertTypes, NEW w \in Workers, NEW failed, scan[w].at \notin {"idle", "done"},
           scan' = [scan EXCEPT ![w] = GoOn(w, failed)]
    PROVE  Moved(w) /\ Next1(w, scan'[w])
<1> DEFINE at == IF scan[w].batch # {} THEN "visit" ELSE IF scan[w].full THEN "batch" ELSE "done"
           v == [scan[w] EXCEPT !.at = at, !.user = 0, !.left = {}, !.product = Nothing]
<1>1. GoOn(w, failed) = v
      BY DEF GoOn
<1>2. scan[w] \in ScanRow /\ at \in {"visit", "batch", "done"}
      BY DEF AlertTypes
<1> HIDE DEF at
<1>3. v \in ScanRow
      BY <1>2 DEF ScanRow
<1>4. /\ v.at = at /\ v.batch = scan[w].batch /\ v.full = scan[w].full /\ v.cursor = scan[w].cursor
      /\ v.id = scan[w].id /\ v.kind = scan[w].kind /\ v.start = scan[w].start
      /\ v.again = scan[w].again /\ v.alone = scan[w].alone /\ v.cut = scan[w].cut
      BY <1>2 DEF ScanRow
<1> HIDE DEF v
<1>5. scan' \in [Workers -> ScanRow] /\ scan'[w] = v /\ \A x \in Workers \ {w} : scan'[x] = scan[x]
      BY <1>1, <1>3, ScanMoves
<1> QED BY <1>2, <1>4, <1>5 DEF Moved, SameScan, Next1, at

LEMMA ReadBatchIs ==
    ASSUME AlertTypes, NEW w \in Workers, ReadBatch(w), scan[w].kind \in Kinds,
           PlatformAssumption, AlertsAssumption
    PROVE  /\ Moved(w) /\ scan[w].at = "batch"
           /\ scan'[w].batch = Page(scan[w].kind, scan[w].cursor)
           /\ scan'[w].at = IF scan'[w].batch = {} THEN "done" ELSE "visit"
           /\ scan'[w].full = (Cardinality(scan'[w].batch) = BatchSize)
           /\ ~scan'[w].cut => ~scan[w].cut /\ (scan[w].cursor = 0 \/ scan[w].cursor \in rules[scan[w].kind])
           /\ IF scan'[w].batch = {} THEN scan'[w].cursor = scan[w].cursor
              ELSE scan'[w].cursor \in scan'[w].batch
           /\ \A u \in scan'[w].batch : u <= scan'[w].cursor /\ u > scan[w].cursor
<1> DEFINE k == scan[w].kind
           c == scan[w].cursor
           page == Page(k, c)
           at == IF page = {} THEN "done" ELSE "visit"
           full == Cardinality(page) = BatchSize
           cut == scan[w].cut \/ (c # 0 /\ c \notin rules[k])
           cursor == IF page = {} THEN c ELSE Highest(page)
           v == [scan[w] EXCEPT !.at = at, !.batch = page, !.full = full, !.cut = cut, !.cursor = cursor]
<1>1. scan[w].at = "batch" /\ scan' = [scan EXCEPT ![w] = v]
      BY DEF ReadBatch
<1>2. scan[w] \in ScanRow /\ c \in Nat /\ k \in Kinds /\ rules[k] \subseteq Users
      BY DEF AlertTypes, ScanRow
<1>3. PICK b \in Nat : \A u \in rules[k] : u <= b
      BY DEF AlertTypes
<1>4. page \subseteq Behind(k, c)
      BY <1>2, <1>3, PageIs
<1>5. page \in SUBSET Users /\ page \in SUBSET Nat /\ \A u \in page : u <= b /\ u > c
      BY <1>2, <1>3, <1>4 DEF Behind, PlatformAssumption
<1> HIDE DEF page
<1>6. page # {} => Highest(page) \in page /\ \A u \in page : u <= Highest(page)
      BY <1>5, HighestIs
<1>7. /\ cursor \in Nat /\ at \in {"done", "visit"} /\ full \in BOOLEAN /\ cut \in BOOLEAN
      /\ IF page = {} THEN cursor = c ELSE cursor \in page
      /\ \A u \in page : u <= cursor
      BY <1>2, <1>5, <1>6
<1>8. ~cut => ~scan[w].cut /\ (c = 0 \/ c \in rules[k])
      OBVIOUS
<1> HIDE DEF cursor, full, cut, at
<1>9. v \in ScanRow
      BY <1>2, <1>5, <1>7 DEF ScanRow
<1>10. /\ v.at = at /\ v.batch = page /\ v.full = full /\ v.cursor = cursor
       /\ v.id = scan[w].id /\ v.kind = scan[w].kind /\ v.start = scan[w].start
       /\ v.again = scan[w].again /\ v.alone = scan[w].alone /\ v.cut = cut
       BY <1>2 DEF ScanRow
<1> HIDE DEF v
<1>11. scan' \in [Workers -> ScanRow] /\ scan'[w] = v /\ \A x \in Workers \ {w} : scan'[x] = scan[x]
      BY <1>1, <1>9, ScanMoves
<1>12. Moved(w)
      BY <1>1, <1>7, <1>10, <1>11 DEF Moved, SameScan
<1>13. scan'[w].at = IF scan'[w].batch = {} THEN "done" ELSE "visit"
      BY <1>10, <1>11 DEF at
<1>14. scan'[w].full = (Cardinality(scan'[w].batch) = BatchSize)
      BY <1>10, <1>11 DEF full
<1>15. scan'[w].batch = Page(scan[w].kind, scan[w].cursor)
      BY <1>10, <1>11 DEF page
<1> QED BY <1>1, <1>5, <1>7, <1>8, <1>10, <1>11, <1>12, <1>13, <1>14, <1>15

LEMMA VisitIs ==
    ASSUME AlertTypes, NEW w \in Workers, Visit(w), scan[w].batch # {}, PlatformAssumption
    PROVE  /\ Moved(w) /\ scan[w].at = "visit"
           /\ scan'[w].user \in scan[w].batch /\ \A u \in scan[w].batch : scan'[w].user <= u
           /\ scan'[w].batch = scan[w].batch \ {scan'[w].user}
           /\ owed' = [owed EXCEPT ![w] = @ \ {scan'[w].user}]
           /\ scan'[w].at = IF scan[w].kind = "price-drop" THEN "product" ELSE "digest"
           /\ scan'[w].cursor = scan[w].cursor /\ scan'[w].full = scan[w].full
           /\ scan'[w].cut = scan[w].cut
<1> DEFINE u == Lowest(scan[w].batch)
           mine == {p \in Products : <<u, p>> \in watches}
           drop == scan[w].kind = "price-drop"
           v == IF drop THEN [scan[w] EXCEPT !.batch = @ \ {u}, !.user = u, !.at = "product", !.left = mine]
                ELSE [scan[w] EXCEPT !.batch = @ \ {u}, !.user = u, !.at = "digest"]
<1>1. scan[w].at = "visit" /\ scan' = [scan EXCEPT ![w] = v] /\ owed' = [owed EXCEPT ![w] = @ \ {u}]
      <2>1. scan[w] = [scan[w] EXCEPT !.at = scan[w].at] /\ scan[w] \in ScanRow
            BY DEF AlertTypes, ScanRow
      <2> QED BY <2>1 DEF Visit, ScanRow
<1>2. scan[w] \in ScanRow /\ scan[w].batch \in SUBSET Users /\ scan[w].batch \in SUBSET Nat
      BY DEF AlertTypes, ScanRow, PlatformAssumption
<1>3. u \in scan[w].batch /\ \A x \in scan[w].batch : u <= x
      BY <1>2, LowestIs
<1>4. u \in Nat /\ mine \in SUBSET Products
      BY <1>2, <1>3
<1> HIDE DEF u, mine
<1>5. v \in ScanRow
      <2>1. CASE drop
            <3>1. v = [scan[w] EXCEPT !.batch = @ \ {u}, !.user = u, !.at = "product", !.left = mine]
                  BY <2>1
            <3> QED BY <3>1, <1>2, <1>4 DEF ScanRow, Visiting
      <2>2. CASE ~drop
            <3>1. v = [scan[w] EXCEPT !.batch = @ \ {u}, !.user = u, !.at = "digest"]
                  BY <2>2
            <3> QED BY <3>1, <1>2, <1>4 DEF ScanRow, Visiting
      <2> QED BY <2>1, <2>2
<1>6. /\ v.at = (IF drop THEN "product" ELSE "digest") /\ v.batch = scan[w].batch \ {u} /\ v.user = u
      /\ v.full = scan[w].full /\ v.cursor = scan[w].cursor
      /\ v.id = scan[w].id /\ v.kind = scan[w].kind /\ v.start = scan[w].start
      /\ v.again = scan[w].again /\ v.alone = scan[w].alone /\ v.cut = scan[w].cut
      BY <1>2 DEF ScanRow
<1> HIDE DEF v
<1>7. scan' \in [Workers -> ScanRow] /\ scan'[w] = v /\ \A x \in Workers \ {w} : scan'[x] = scan[x]
      BY <1>1, <1>5, ScanMoves
<1>8. Moved(w)
      BY <1>1, <1>6, <1>7 DEF Moved, SameScan
<1> QED BY <1>1, <1>3, <1>6, <1>7, <1>8

\* w stays with the row it visits.
Inside(w) ==
    /\ scan'[w].at \in Visiting /\ scan'[w].user = scan[w].user
    /\ scan'[w].batch = scan[w].batch /\ scan'[w].full = scan[w].full
    /\ scan'[w].cursor = scan[w].cursor /\ scan'[w].cut = scan[w].cut

LEMMA StaysInside ==
    ASSUME AlertTypes, NEW w \in Workers, scan[w].at \in Visiting, NEW at \in Visiting,
           NEW left \in SUBSET Products, NEW p \in Products \cup {Nothing},
           scan' = [scan EXCEPT ![w] = [scan[w] EXCEPT !.left = left, !.product = p, !.at = at]]
    PROVE  Moved(w) /\ Inside(w) /\ scan'[w].at = at /\ scan'[w].product = p
<1> DEFINE v == [scan[w] EXCEPT !.left = left, !.product = p, !.at = at]
<1>1. scan[w] \in ScanRow
      BY DEF AlertTypes
<1>2. v \in ScanRow
      BY <1>1 DEF ScanRow, Visiting
<1>3. /\ v.at = at /\ v.batch = scan[w].batch /\ v.user = scan[w].user /\ v.product = p
      /\ v.full = scan[w].full /\ v.cursor = scan[w].cursor
      /\ v.id = scan[w].id /\ v.kind = scan[w].kind /\ v.start = scan[w].start
      /\ v.again = scan[w].again /\ v.alone = scan[w].alone /\ v.cut = scan[w].cut
      BY <1>1 DEF ScanRow
<1> HIDE DEF v
<1>4. scan' \in [Workers -> ScanRow] /\ scan'[w] = v /\ \A x \in Workers \ {w} : scan'[x] = scan[x]
      BY <1>2, ScanMoves DEF v
<1> QED BY <1>3, <1>4 DEF Moved, SameScan, Inside, Visiting

\* Only .at changes.
LEMMA AtIs ==
    ASSUME AlertTypes, NEW w \in Workers, scan[w].at \in Visiting, NEW at \in Visiting,
           scan' = [scan EXCEPT ![w].at = at]
    PROVE  Moved(w) /\ Inside(w) /\ scan'[w].at = at /\ scan'[w].product = scan[w].product
<1>1. scan[w] \in ScanRow
      BY DEF AlertTypes
<1> DEFINE v == [scan[w] EXCEPT !.at = at]
<1>2. v \in ScanRow
      BY <1>1 DEF ScanRow, Visiting
<1>3. /\ v.at = at /\ v.batch = scan[w].batch /\ v.user = scan[w].user /\ v.product = scan[w].product
      /\ v.full = scan[w].full /\ v.cursor = scan[w].cursor
      /\ v.id = scan[w].id /\ v.kind = scan[w].kind /\ v.start = scan[w].start
      /\ v.again = scan[w].again /\ v.alone = scan[w].alone /\ v.cut = scan[w].cut
      BY <1>1 DEF ScanRow
<1>4. scan' = [scan EXCEPT ![w] = v]
      OBVIOUS
<1> HIDE DEF v
<1>5. scan' \in [Workers -> ScanRow] /\ scan'[w] = v /\ \A x \in Workers \ {w} : scan'[x] = scan[x]
      BY <1>2, <1>4, ScanMoves
<1> QED BY <1>3, <1>5 DEF Moved, SameScan, Inside, Visiting

LEMMA EvaluateIs ==
    ASSUME AlertTypes, NEW w \in Workers, Evaluate(w)
    PROVE  /\ Moved(w) /\ scan[w].at = "product"
           /\ Next1(w, scan'[w]) \/ (Inside(w) /\ scan'[w].at \in {"duplicate", "product"})
<1>1. scan[w].at = "product" /\ scan[w] \in ScanRow
      BY DEF Evaluate, AlertTypes
<1>2. CASE scan' = [scan EXCEPT ![w] = GoOn(w, FALSE)]
      BY <1>1, <1>2, GoOnIs
<1>3. ASSUME NEW p \in scan[w].left, NEW at \in {"duplicate", "product"},
             scan' = [scan EXCEPT ![w] = [scan[w] EXCEPT !.left = @ \ {p}, !.product = p, !.at = at]]
      PROVE  Moved(w) /\ Inside(w) /\ scan'[w].at = at
      <2>1. p \in Products \cup {Nothing} /\ scan[w].left \ {p} \in SUBSET Products
            BY <1>1 DEF ScanRow
      <2> QED BY <1>1, <1>3, <2>1, StaysInside DEF Visiting
<1>4. \/ scan' = [scan EXCEPT ![w] = GoOn(w, FALSE)]
      \/ \E p \in scan[w].left : \E at \in {"duplicate", "product"} :
             scan' = [scan EXCEPT ![w] = [scan[w] EXCEPT !.left = @ \ {p}, !.product = p, !.at = at]]
      BY DEF Evaluate
<1> QED BY <1>1, <1>2, <1>3, <1>4

LEMMA CheckDuplicateIs ==
    ASSUME AlertTypes, NEW w \in Workers, CheckDuplicate(w)
    PROVE  /\ Moved(w) /\ scan[w].at = "duplicate" /\ Inside(w)
           /\ scan'[w].at \in {"product", "notify"} /\ scan'[w].product = scan[w].product
           /\ scan'[w].at = "notify" => ~Notified(w)
<1> DEFINE at == IF Notified(w) THEN "product" ELSE "notify"
<1>1. scan[w].at = "duplicate" /\ scan' = [scan EXCEPT ![w].at = at]
      BY DEF CheckDuplicate
<1>2. at \in {"product", "notify"} /\ (at = "notify" => ~Notified(w))
      OBVIOUS
<1> HIDE DEF at
<1> QED BY <1>1, <1>2, AtIs DEF Visiting

LEMMA ReadDigestIs ==
    ASSUME AlertTypes, NEW w \in Workers, ReadDigest(w)
    PROVE  /\ Moved(w) /\ scan[w].at = "digest"
           /\ Next1(w, scan'[w]) \/ (Inside(w) /\ scan'[w].at = "notify")
<1>1. scan[w].at = "digest" /\ scan[w] \in ScanRow
      BY DEF ReadDigest, AlertTypes
<1>2. CASE scan' = [scan EXCEPT ![w] = GoOn(w, FALSE)]
      BY <1>1, <1>2, GoOnIs
<1>3. CASE scan' = [scan EXCEPT ![w].at = "notify"]
      BY <1>1, <1>3, AtIs DEF Visiting
<1>4. \/ scan' = [scan EXCEPT ![w] = GoOn(w, FALSE)]
      \/ scan' = [scan EXCEPT ![w].at = "notify"]
      BY DEF ReadDigest
<1> QED BY <1>1, <1>2, <1>3, <1>4

LEMMA VisitFailsIs ==
    ASSUME AlertTypes, NEW w \in Workers, VisitFails(w)
    PROVE  Moved(w) /\ scan[w].at \in Visiting /\ Next1(w, scan'[w])
<1>1. /\ scan[w].at \in Visiting /\ scan' = [scan EXCEPT ![w] = GoOn(w, TRUE)]
      BY DEF VisitFails, Visiting
<1> QED BY <1>1, GoOnIs DEF Visiting

\* The notice w sends.
Notice(w) ==
    [user |-> scan[w].user, kind |-> scan[w].kind, product |-> scan[w].product,
     at |-> hour, job |-> scan[w].id, read |-> FALSE,
     alone |-> scan[w].alone, again |-> scan[w].again]

LEMMA NotifyIs ==
    ASSUME AlertTypes, NEW w \in Workers, Notify(w), scan[w].user \in Users,
           scan[w].kind \in Kinds, scan[w].id \in JobId1
    PROVE  /\ Moved(w) /\ scan[w].at = "notify"
           /\ IF scan[w].kind = "price-drop" THEN Inside(w) /\ scan'[w].at = "product"
              ELSE Next1(w, scan'[w])
           /\ notices' \in Seq(NoticeRow)
           /\ DOMAIN notices' = 1..Len(notices) + 1 /\ DOMAIN notices = 1..Len(notices) /\ Len(notices) \in Nat
           /\ notices'[Len(notices) + 1] = Notice(w)
           /\ \A i \in DOMAIN notices : notices'[i] = notices[i]
<1>1. /\ scan[w].at = "notify" /\ scan[w] \in ScanRow /\ hour \in Nat
      /\ notices' = Append(notices, Notice(w)) /\ notices \in Seq(NoticeRow)
      /\ scan' = [scan EXCEPT ![w] =
              IF scan[w].kind = "price-drop" THEN [@ EXCEPT !.at = "product"] ELSE GoOn(w, FALSE)]
      BY DEF Notify, AlertTypes, Notice
<1>2. ASSUME scan[w].kind = "price-drop"
      PROVE  Moved(w) /\ Inside(w) /\ scan'[w].at = "product"
      <2>1. scan' = [scan EXCEPT ![w].at = "product"]
            BY <1>1, <1>2
      <2> QED BY <1>1, <1>2, <2>1, AtIs DEF Visiting
<1>3. ASSUME scan[w].kind # "price-drop" PROVE Moved(w) /\ Next1(w, scan'[w])
      <2>1. scan' = [scan EXCEPT ![w] = GoOn(w, FALSE)]
            BY <1>1, <1>3
      <2> QED BY <1>1, <1>3, <2>1, GoOnIs
<1>4. Notice(w) \in NoticeRow
      BY <1>1 DEF Notice, NoticeRow, ScanRow
<1>5. /\ notices' \in Seq(NoticeRow)
      /\ DOMAIN notices' = 1..Len(notices) + 1 /\ DOMAIN notices = 1..Len(notices) /\ Len(notices) \in Nat
      /\ notices'[Len(notices) + 1] = Notice(w)
      /\ \A i \in DOMAIN notices : notices'[i] = notices[i]
      <2> DEFINE n == Notice(w)
      <2>1. notices' = Append(notices, n) /\ n \in NoticeRow
            BY <1>1, <1>4
      <2> HIDE DEF n
      <2>2. notices \in Seq(NoticeRow)
            BY <1>1
      <2>3. /\ notices' \in Seq(NoticeRow)
            /\ DOMAIN notices' = 1..Len(notices) + 1 /\ DOMAIN notices = 1..Len(notices) /\ Len(notices) \in Nat
            /\ notices'[Len(notices) + 1] = n
            /\ \A i \in DOMAIN notices : notices'[i] = notices[i]
            BY <2>1, <2>2
      <2> QED BY <2>3 DEF n
<1> QED BY <1>1, <1>2, <1>3, <1>5

-----------------------------------------------------------------------------
\* The queue.

\* Jobs stay apart, and one that was started stays so.
Started(j) == j.state = "waiting" => j.stalls > 0
JobsFollow ==
    /\ jobs' \subseteq JobRow
    /\ \A i, j \in jobs' : i.id[1] = i.kind /\ (i.id = j.id => i = j)
    /\ \A j \in jobs : \E i \in jobs' : i.id = j.id /\ (Started(j) => Started(i))

LEMMA JobReplaced ==
    ASSUME QueueInv, NEW j \in jobs, NEW i \in JobRow, i.id = j.id, i.kind = j.kind, Started(i),
           jobs' = (jobs \ {j}) \cup {i}
    PROVE  JobsFollow /\ i \in jobs'
BY DEF JobsFollow, QueueInv, AlertTypes, JobsOnce

LEMMA Requeued ==
    ASSUME QueueInv, AlertsAssumption, NEW w \in Workers, Requeue(w)
    PROVE  JobsFollow
<1>1. PICK j \in jobs :
          /\ j.state = "active" /\ j.owner = w
          /\ jobs' = (jobs \ {j}) \cup
                {IF j.stalls < MaxStalls
                 THEN [j EXCEPT !.state = "waiting", !.owner = Nothing, !.stalls = @ + 1]
                 ELSE [j EXCEPT !.state = "ended", !.owner = Nothing]}
      BY DEF Requeue
<1>2. j \in JobRow /\ MaxStalls \in Nat /\ j.stalls \in 0..MaxStalls
      BY DEF QueueInv, AlertTypes, JobRow, AlertsAssumption
<1>3. CASE j.stalls < MaxStalls
      <2> DEFINE i == [j EXCEPT !.state = "waiting", !.owner = Nothing, !.stalls = @ + 1]
      <2>0. j.stalls + 1 \in 0..MaxStalls /\ j.stalls + 1 > 0
            BY <1>2, <1>3
      <2>1. i \in JobRow /\ i.id = j.id /\ i.kind = j.kind /\ Started(i)
            BY <1>2, <2>0 DEF JobRow, Started
      <2>2. jobs' = (jobs \ {j}) \cup {i}
            BY <1>1, <1>3
      <2> HIDE DEF i
      <2> QED BY <2>1, <2>2, JobReplaced
<1>4. CASE ~(j.stalls < MaxStalls)
      <2> DEFINE i == [j EXCEPT !.state = "ended", !.owner = Nothing]
      <2>1. i \in JobRow /\ i.id = j.id /\ i.kind = j.kind /\ Started(i)
            BY <1>2 DEF JobRow, Started
      <2>2. jobs' = (jobs \ {j}) \cup {i}
            BY <1>1, <1>4
      <2> HIDE DEF i
      <2> QED BY <2>1, <2>2, JobReplaced
<1> QED BY <1>3, <1>4

LEMMA JobsEnd ==
    ASSUME QueueInv, NEW w \in Workers,
           jobs' = {IF j.owner = w THEN [j EXCEPT !.state = "ended", !.owner = Nothing] ELSE j : j \in jobs}
    PROVE  JobsFollow
<1> DEFINE End(j) == IF j.owner = w THEN [j EXCEPT !.state = "ended", !.owner = Nothing] ELSE j
<1>1. ASSUME NEW j \in jobs
      PROVE  End(j) \in JobRow /\ End(j).id = j.id /\ End(j).kind = j.kind /\ (Started(j) => Started(End(j)))
      <2>1. j \in JobRow
            BY DEF QueueInv, AlertTypes
      <2> QED BY <2>1 DEF JobRow, Started
<1>2. jobs' = {End(j) : j \in jobs}
      OBVIOUS
<1> HIDE DEF End
<1>3. \A i, j \in jobs : i.id[1] = i.kind /\ (i.id = j.id => i = j)
      BY DEF QueueInv, JobsOnce
<1>4. jobs' \subseteq JobRow /\ \A j \in jobs : End(j) \in jobs'
      BY <1>1, <1>2
<1>5. ASSUME NEW i \in jobs', NEW j \in jobs' PROVE i.id[1] = i.kind /\ (i.id = j.id => i = j)
      <2>1. PICK x \in jobs, y \in jobs : i = End(x) /\ j = End(y)
            BY <1>2
      <2>2. /\ End(x).id = x.id /\ End(x).kind = x.kind /\ End(y).id = y.id /\ x.id[1] = x.kind
            /\ x.id = y.id => x = y
            BY <1>1, <1>3
      <2> QED BY <2>1, <2>2
<1> QED BY <1>1, <1>4, <1>5 DEF JobsFollow

LEMMA JobAdded ==
    ASSUME QueueInv, AlertsAssumption, NEW k \in Kinds, NEW w, Enqueue(k, w)
    PROVE  JobsFollow
<1> DEFINE i == [id |-> JobId(k, w), kind |-> k, owner |-> Nothing, state |-> "waiting", stalls |-> 0]
<1>1. jobs' = jobs \cup {i} /\ \A j \in jobs : j.id # i.id
      BY DEF Enqueue
<1>2. Stamp(k) \in Nat
      BY DEF Stamp, Hourly, QueueInv, AlertTypes, AlertsAssumption
<1>3. i \in JobRow /\ i.id[1] = i.kind
      BY <1>2 DEF JobRow, JobId, AlertsAssumption
<1> HIDE DEF i
<1> QED BY <1>1, <1>3 DEF JobsFollow, QueueInv, AlertTypes, JobsOnce

LEMMA JobsStay == ASSUME QueueInv, UNCHANGED jobs PROVE JobsFollow
BY DEF JobsFollow, QueueInv, AlertTypes, JobsOnce

LEMMA StaysBegun ==
    ASSUME JobsFollow, NEW id, Begun(id) PROVE \E j \in jobs' : j.id = id /\ Started(j)
BY DEF JobsFollow, Begun, Started

\* Steps that start no scan.
LEMMA QueueGoesOn ==
    ASSUME QueueInv, AlertTypes', JobsFollow, hour' >= hour, \A w \in Workers : OrderOK(w)',
           \A v \in Workers : scan'[v].at # "idle" => scan[v].at # "idle" /\ SameScan(v),
           \A i \in DOMAIN notices' :
              \/ i \in DOMAIN notices /\ notices'[i].job = notices[i].job
                 /\ notices'[i].kind = notices[i].kind
              \/ \E v \in Workers : scan[v].at # "idle" /\ notices'[i].job = scan[v].id
                 /\ notices'[i].kind = scan[v].kind
    PROVE  QueueInv'
<1>1. JobsOnce'
      BY DEF JobsFollow, JobsOnce
<1>2. FirstStarts'
      BY DEF QueueInv, FirstStarts, On, SameScan
<1>3. ASSUME NEW w \in Workers, scan'[w].at # "idle" PROVE ScanOK(w)'
      <2>1. /\ scan[w].kind \in Kinds /\ scan[w].id \in JobId1 /\ scan[w].id[1] = scan[w].kind
            /\ Begun(scan[w].id) /\ scan[w].start <= hour
            BY <1>3 DEF QueueInv, ScanOK, On
      <2>2. \E j \in jobs' : j.id = scan[w].id /\ Started(j)
            BY <2>1, StaysBegun
      <2>3. scan[w].start \in Nat /\ hour \in Nat /\ hour' \in Nat
            BY DEF QueueInv, AlertTypes, ScanRow
      <2>4. scan'[w].start <= hour'
            BY <1>3, <2>1, <2>3 DEF SameScan
      <2>5. /\ scan'[w].kind = scan[w].kind /\ scan'[w].id = scan[w].id
            BY <1>3 DEF SameScan
      <2> QED BY <2>1, <2>2, <2>4, <2>5 DEF ScanOK, Begun, Started
<1>4. ASSUME NEW i \in DOMAIN notices' PROVE NoticeOK(i)'
      <2>1. PICK id : notices'[i].job = id /\ id[1] = notices'[i].kind /\ Begun(id)
            BY <1>4 DEF QueueInv, NoticeOK, ScanOK, On
      <2>2. \E j \in jobs' : j.id = id /\ Started(j)
            BY <2>1, StaysBegun
      <2> QED BY <2>1, <2>2 DEF NoticeOK, Begun, Started
<1>5. ASSUME NEW w \in Workers PROVE ScanOK(w)'
      BY <1>3 DEF ScanOK, On
<1> QED BY <1>1, <1>2, <1>4, <1>5 DEF QueueInv

\* A scan starts.
LEMMA TakeIs ==
    ASSUME QueueInv, AlertsAssumption, PlatformAssumption, NEW w \in Workers, Take(w)
    PROVE  \E j \in jobs :
              /\ j.state = "waiting" /\ scan[w].at = "idle" /\ JobsFollow
              /\ \E i \in jobs' : i.id = j.id /\ Started(i)
              /\ scan' \in [Workers -> ScanRow]
              /\ scan'[w].at = "batch" /\ scan'[w].id = j.id /\ scan'[w].kind = j.kind
              /\ scan'[w].start = hour /\ scan'[w].cursor = 0 /\ scan'[w].batch = {}
              /\ ~scan'[w].again => j.stalls = 0
              /\ \A v \in Workers \ {w} : /\ SameAt(v)
                                          /\ scan[v].at \notin {"idle", "done"} /\ scan[v].kind = j.kind
                                             => ~scan'[v].alone /\ ~scan'[w].alone
              /\ owed' = [owed EXCEPT ![w] = rules[j.kind]] /\ j.kind \in Kinds
<1> DEFINE Others(j) == {v \in Workers \ {w} : Busy(v) /\ scan[v].kind = j.kind}
           Row(j) == [NoScan EXCEPT !.at = "batch", !.id = j.id, !.kind = j.kind, !.start = hour,
                                    !.alone = (Others(j) = {}), !.again = (j.stalls > 0)]
<1>1. PICK j \in jobs :
          /\ j.state = "waiting" /\ scan[w].at = "idle"
          /\ jobs' = (jobs \ {j}) \cup {[j EXCEPT !.state = "active", !.owner = w]}
          /\ scan' = [v \in Workers |-> IF v = w THEN Row(j)
                                       ELSE IF v \in Others(j) THEN [scan[v] EXCEPT !.alone = FALSE]
                                       ELSE scan[v]]
          /\ owed' = [owed EXCEPT ![w] = rules[j.kind]]
      BY DEF Take
<1>2. j \in JobRow /\ j.id \in JobId1 /\ j.kind \in Kinds /\ hour \in Nat /\ j.stalls \in Nat
      BY DEF QueueInv, AlertTypes, JobRow, JobId1, AlertsAssumption
<1>3. \A v \in Workers : scan[v] \in ScanRow
      BY DEF QueueInv, AlertTypes
<1>4. JobsFollow /\ \E i \in jobs' : i.id = j.id /\ Started(i)
      <2> DEFINE i == [j EXCEPT !.state = "active", !.owner = w]
      <2>1. i \in JobRow /\ i.id = j.id /\ i.kind = j.kind /\ Started(i)
            BY <1>2 DEF JobRow, Started
      <2>2. jobs' = (jobs \ {j}) \cup {i}
            BY <1>1
      <2> HIDE DEF i
      <2> QED BY <2>1, <2>2, JobReplaced
<1>5. /\ Row(j) \in ScanRow /\ Row(j).at = "batch" /\ Row(j).id = j.id /\ Row(j).kind = j.kind
      /\ Row(j).start = hour /\ Row(j).cursor = 0 /\ Row(j).batch = {}
      /\ ~Row(j).again => j.stalls = 0
      /\ Others(j) # {} => ~Row(j).alone
      <2> DEFINE alone == Others(j) = {}
                 again == j.stalls > 0
      <2>1. Row(j) = [NoScan EXCEPT !.at = "batch", !.id = j.id, !.kind = j.kind, !.start = hour,
                                    !.alone = alone, !.again = again]
            OBVIOUS
      <2>2. /\ alone \in BOOLEAN /\ again \in BOOLEAN /\ (Others(j) # {} => ~alone)
            /\ ~again => j.stalls = 0
            BY <1>2
      <2> HIDE DEF alone, again, Others, Row
      <2>3. Row(j) = [at |-> "batch", id |-> j.id, kind |-> j.kind, start |-> hour, cursor |-> 0,
                      batch |-> {}, full |-> FALSE, user |-> 0, left |-> {}, product |-> Nothing,
                      alone |-> alone, again |-> again, cut |-> FALSE]
            BY <2>1 DEF NoScan
      <2>4. Row(j) \in ScanRow
            BY <1>2, <2>2, <2>3 DEF ScanRow
      <2> QED BY <2>2, <2>3, <2>4
<1>6. ASSUME NEW v \in Workers \ {w}
      PROVE  /\ scan'[v] \in ScanRow /\ SameAt(v)
             /\ scan[v].at \notin {"idle", "done"} /\ scan[v].kind = j.kind
                => ~scan'[v].alone /\ v \in Others(j)
      <2>1. CASE v \in Others(j)
            <3>1. scan'[v] = [scan[v] EXCEPT !.alone = FALSE]
                  BY <1>1, <2>1
            <3>2. scan[v] \in ScanRow
                  BY <1>3
            <3>3. /\ [scan[v] EXCEPT !.alone = FALSE] \in ScanRow
                  BY <3>2 DEF ScanRow
            <3> QED BY <2>1, <3>1, <3>2, <3>3 DEF SameAt, ScanRow
      <2>2. CASE v \notin Others(j)
            <3>1. scan'[v] = scan[v]
                  BY <1>1, <2>2
            <3>2. ~(scan[v].at \notin {"idle", "done"} /\ scan[v].kind = j.kind)
                  BY <2>2 DEF Busy
            <3> QED BY <1>3, <3>1, <3>2 DEF SameAt
      <2> QED BY <2>1, <2>2
<1>7. scan'[w] = Row(j) /\ scan' \in [Workers -> ScanRow]
      <2>1. scan'[w] = Row(j)
            BY <1>1
      <2>2. \A v \in Workers : scan'[v] \in ScanRow
            BY <1>5, <1>6, <2>1
      <2>3. scan' = [v \in Workers |-> scan'[v]]
            BY <1>1
      <2> QED BY <2>1, <2>2, <2>3
<1> HIDE DEF Others, Row
<1> QED BY <1>1, <1>2, <1>4, <1>5, <1>6, <1>7

\* What is read leaves a notification as it is otherwise.
SameNotice(i) ==
    /\ notices'[i].user = notices[i].user /\ notices'[i].kind = notices[i].kind
    /\ notices'[i].product = notices[i].product /\ notices'[i].at = notices[i].at
    /\ notices'[i].job = notices[i].job /\ notices'[i].alone = notices[i].alone
    /\ notices'[i].again = notices[i].again
SameNotices ==
    /\ notices' \in Seq(NoticeRow) /\ DOMAIN notices' = DOMAIN notices
    /\ \A i \in DOMAIN notices : SameNotice(i)

LEMMA ReadIs ==
    ASSUME AlertTypes,
           (\E i \in DOMAIN notices : MarkRead(i)) \/ (\E u \in Users : MarkAllRead(u)) \/ UNCHANGED notices
    PROVE  SameNotices
<1>1. notices \in Seq(NoticeRow) /\ \A i \in DOMAIN notices : notices[i] \in NoticeRow
      BY DEF AlertTypes
<1>2. ASSUME NEW i \in DOMAIN notices, MarkRead(i) PROVE SameNotices
      <2>1. [notices[i] EXCEPT !.read = TRUE] \in NoticeRow
            BY <1>1 DEF NoticeRow
      <2>2. /\ notices' = [notices EXCEPT ![i] = [notices[i] EXCEPT !.read = TRUE]]
            BY <1>2 DEF MarkRead
      <2>3. notices' \in Seq(NoticeRow) /\ DOMAIN notices' = DOMAIN notices
            BY <1>1, <2>1, <2>2
      <2>4. ASSUME NEW n \in DOMAIN notices PROVE SameNotice(n)
            <3>1. notices[n] \in NoticeRow
                  BY <1>1
            <3>2. notices'[n] = [notices[n] EXCEPT !.read = TRUE] \/ notices'[n] = notices[n]
                  BY <2>2
            <3> QED BY <3>1, <3>2 DEF SameNotice, NoticeRow
      <2> QED BY <2>3, <2>4 DEF SameNotices
<1>3. ASSUME NEW u \in Users, MarkAllRead(u) PROVE SameNotices
      <2> DEFINE read(i) == notices[i].read \/ notices[i].user = u
                 row(i) == [notices[i] EXCEPT !.read = read(i)]
      <2>1. notices' = [i \in DOMAIN notices |-> row(i)]
            BY <1>3 DEF MarkAllRead
      <2>2. ASSUME NEW i \in DOMAIN notices
            PROVE  /\ row(i) \in NoticeRow
                   /\ row(i).user = notices[i].user /\ row(i).kind = notices[i].kind
                   /\ row(i).product = notices[i].product /\ row(i).at = notices[i].at
                   /\ row(i).job = notices[i].job /\ row(i).alone = notices[i].alone
                   /\ row(i).again = notices[i].again
            <3>1. notices[i] \in NoticeRow /\ read(i) \in BOOLEAN
                  BY <1>1 DEF NoticeRow
            <3> HIDE DEF read
            <3> QED BY <3>1 DEF NoticeRow
      <2> HIDE DEF row
      <2>3. /\ DOMAIN notices' = DOMAIN notices /\ DOMAIN notices = 1..Len(notices) /\ Len(notices) \in Nat
            /\ \A i \in DOMAIN notices : notices'[i] = row(i)
            BY <1>1, <2>1
      <2>4. notices' \in [1..Len(notices) -> NoticeRow]
            BY <2>1, <2>2, <2>3
      <2>5. notices' \in Seq(NoticeRow)
            BY <2>3, <2>4
      <2> QED BY <2>2, <2>3, <2>5 DEF SameNotices, SameNotice
<1>4. CASE UNCHANGED notices
      BY <1>1, <1>4 DEF SameNotices, SameNotice
<1> QED BY <1>2, <1>3, <1>4

LEMMA LeavesScan ==
    ASSUME AlertTypes, NEW w \in Workers, scan' = [scan EXCEPT ![w] = NoScan]
    PROVE  /\ scan' \in [Workers -> ScanRow] /\ scan'[w] = NoScan
           /\ \A x \in Workers \ {w} : scan'[x] = scan[x]
<1>1. NoScan \in ScanRow
      BY DEF NoScan, ScanRow
<1> QED BY <1>1, ScanMoves

LEMMA QueueStarts == AlertInit /\ PlatformAssumption /\ AlertsAssumption => QueueInv
<1> SUFFICES ASSUME AlertInit PROVE QueueInv
    OBVIOUS
<1>1. NoScan \in ScanRow /\ NoScan.at = "idle"
      BY DEF NoScan, ScanRow
<1>2. \A w \in Workers : scan[w] = NoScan /\ scan \in [Workers -> ScanRow]
      BY <1>1 DEF AlertInit
<1>3. AlertTypes
      <2>1. scan \in [Workers -> ScanRow]
            BY <1>1 DEF AlertInit
      <2>2. \A k \in Kinds : rules[k] = {}
            BY DEF AlertInit
      <2>3. \A k \in Kinds : \E b \in Nat : \A u \in rules[k] : u <= b
            BY <2>2
      <2> QED BY <2>1, <2>3 DEF AlertInit, AlertTypes
<1>4. JobsOnce /\ FirstStarts
      BY <1>1, <1>2 DEF AlertInit, JobsOnce, FirstStarts, On
<1>5. \A w \in Workers : ScanOK(w) /\ OrderOK(w)
      BY <1>1, <1>2 DEF ScanOK, OrderOK, On, NoScan, Visiting
<1>6. DOMAIN notices = {}
      BY DEF AlertInit
<1> QED BY <1>3, <1>4, <1>5, <1>6 DEF QueueInv

\* The steps of a scan that send nothing.
Silent(w) ==
    ReadBatch(w) \/ Visit(w) \/ Evaluate(w) \/ CheckDuplicate(w) \/ ReadDigest(w) \/ VisitFails(w)
\* The steps that end one.
Leaves(w) == WorkerDies(w) \/ BatchFails(w) \/ EndScan(w)
\* Requests that neither a scan nor the queue notices.
Request ==
    \/ \E u \in Users, p \in Products : CreatePriceWatch(u, p) \/ DeletePriceWatch(u, p)
    \/ \E i \in DOMAIN notices : MarkRead(i)
    \/ \E u \in Users : MarkAllRead(u)
    \/ \E p \in Products : Reprice(p)
    \/ Tick
    \/ UNCHANGED alertVars

\* The rows still to visit stay in order.
LEMMA OrderGoesOn ==
    ASSUME QueueInv, AlertsAssumption, PlatformAssumption, NEW w \in Workers, Silent(w) \/ Notify(w)
    PROVE  Moved(w) /\ OrderOK(w)'
<1> USE AlertsAssumption, PlatformAssumption
<1>1. AlertTypes /\ OrderOK(w) /\ ScanOK(w) /\ scan[w] \in ScanRow
      BY DEF QueueInv, AlertTypes
<1>2. /\ scan[w].batch \in SUBSET Users /\ scan[w].cursor \in Nat /\ Users \subseteq Nat
      /\ scan[w].at # "idle" => scan[w].kind \in Kinds /\ scan[w].id \in JobId1
      BY <1>1 DEF ScanRow, PlatformAssumption, ScanOK, On
<1>3. ASSUME Moved(w), Next1(w, scan'[w]) PROVE OrderOK(w)'
      BY <1>1, <1>3 DEF OrderOK, Next1, Visiting
<1>4. ASSUME Moved(w), Inside(w), scan[w].at \in Visiting,
             scan'[w].at # "digest",
             scan'[w].at \in {"product", "duplicate"} => scan[w].kind = "price-drop"
      PROVE  OrderOK(w)'
      BY <1>1, <1>4 DEF OrderOK, Inside, Moved, SameScan, Visiting
<1>5. CASE ReadBatch(w)
      <2>1. /\ Moved(w) /\ scan'[w].at = (IF scan'[w].batch = {} THEN "done" ELSE "visit")
            /\ \A u \in scan'[w].batch : u <= scan'[w].cursor
            BY <1>1, <1>2, <1>5, ReadBatchIs DEF ReadBatch
      <2> QED BY <2>1 DEF OrderOK, Visiting
<1>6. CASE Visit(w)
      <2>1. scan[w].at = "visit" /\ scan[w].batch # {} /\ \A u \in scan[w].batch : u <= scan[w].cursor
            BY <1>1, <1>6 DEF OrderOK, Visit
      <2>2. /\ Moved(w)
            /\ scan'[w].user \in scan[w].batch /\ \A u \in scan[w].batch : scan'[w].user <= u
            /\ scan'[w].batch = scan[w].batch \ {scan'[w].user}
            /\ scan'[w].at = (IF scan[w].kind = "price-drop" THEN "product" ELSE "digest")
            /\ scan'[w].cursor = scan[w].cursor
            BY <1>1, <1>6, <2>1, VisitIs
      <2>3. \A u \in scan'[w].batch : scan'[w].user < u /\ u <= scan'[w].cursor
            <3>1. PICK x \in scan[w].batch : x = scan'[w].user
                  BY <2>2
            <3>2. ASSUME NEW u \in scan[w].batch \ {x} PROVE x < u /\ u <= scan[w].cursor
                  <4>1. x \in Nat /\ u \in Nat /\ x <= u /\ u <= scan[w].cursor /\ x # u
                        BY <1>2, <2>1, <2>2, <3>1
                  <4> QED BY <4>1
            <3> QED BY <2>2, <3>1, <3>2
      <2>4. scan'[w].user \in Users /\ scan'[w].user <= scan'[w].cursor
            BY <1>2, <2>1, <2>2
      <2>5. scan'[w].kind = scan[w].kind
            BY <2>2 DEF Moved, SameScan
      <2> QED BY <2>2, <2>3, <2>4, <2>5 DEF OrderOK, Visiting
<1>7. CASE Evaluate(w)
      <2>1. /\ Moved(w) /\ scan[w].at = "product"
            /\ Next1(w, scan'[w]) \/ (Inside(w) /\ scan'[w].at \in {"duplicate", "product"})
            BY <1>1, <1>7, EvaluateIs
      <2> QED BY <1>1, <1>3, <1>4, <2>1 DEF OrderOK, Visiting
<1>8. CASE CheckDuplicate(w)
      <2>1. Moved(w) /\ scan[w].at = "duplicate" /\ Inside(w) /\ scan'[w].at \in {"product", "notify"}
            BY <1>1, <1>8, CheckDuplicateIs
      <2> QED BY <1>1, <1>4, <2>1 DEF OrderOK, Visiting
<1>9. CASE ReadDigest(w)
      <2>1. /\ Moved(w) /\ scan[w].at = "digest"
            /\ Next1(w, scan'[w]) \/ (Inside(w) /\ scan'[w].at = "notify")
            BY <1>1, <1>9, ReadDigestIs
      <2> QED BY <1>3, <1>4, <2>1 DEF Visiting
<1>10. CASE VisitFails(w)
      BY <1>1, <1>3, <1>10, VisitFailsIs
<1>11. CASE Notify(w)
      <2>1. scan[w].at = "notify" /\ scan[w].user \in Users
            BY <1>1, <1>11 DEF OrderOK, Notify, Visiting
      <2>2. /\ Moved(w)
            /\ IF scan[w].kind = "price-drop" THEN Inside(w) /\ scan'[w].at = "product"
               ELSE Next1(w, scan'[w])
            BY <1>1, <1>2, <1>11, <2>1, NotifyIs
      <2> QED BY <1>3, <1>4, <2>1, <2>2 DEF Visiting
<1> QED BY <1>5, <1>6, <1>7, <1>8, <1>9, <1>10, <1>11 DEF Silent

\* The invariant of the queue is kept.
LEMMA QueueStep ==
    QueueInv /\ [AlertNext]_alertVars /\ PlatformAssumption /\ AlertsAssumption => QueueInv'
<1> SUFFICES ASSUME QueueInv, [AlertNext]_alertVars, PlatformAssumption, AlertsAssumption
             PROVE  QueueInv'
    OBVIOUS
<1>1. /\ AlertTypes /\ \A w \in Workers : ScanOK(w) /\ OrderOK(w)
      /\ \A w \in Workers : scan[w] \in ScanRow
      /\ Users \subseteq Nat
      BY DEF QueueInv, AlertTypes, PlatformAssumption
\* A scan that is where it was is in order.
<1>2. ASSUME NEW w \in Workers, scan'[w] = scan[w] PROVE OrderOK(w)'
      BY <1>1, <1>2 DEF OrderOK
<1>3. ASSUME Request PROVE QueueInv'
      <2>1. /\ UNCHANGED <<rules, jobs, scan, owed>> /\ hour' \in Nat /\ hour' >= hour
            <3>1. UNCHANGED <<rules, jobs, scan, owed>> /\ hour' \in {hour, hour + 1}
                  BY <1>3 DEF Request, CreatePriceWatch, DeletePriceWatch, MarkRead, MarkAllRead, Reprice, Tick,
                              alertVars
            <3>2. hour \in Nat
                  BY <1>1 DEF AlertTypes
            <3> QED BY <3>1, <3>2
      <2>2. SameNotices
            BY <1>1, <1>3, ReadIs DEF Request, CreatePriceWatch, DeletePriceWatch, Reprice, Tick, alertVars
      <2>3. AlertTypes'
            BY <1>1, <2>1, <2>2 DEF AlertTypes, SameNotices
      <2>4. \A w \in Workers : OrderOK(w)' /\ (scan'[w].at # "idle" => scan[w].at # "idle" /\ SameScan(w))
            BY <1>2, <2>1 DEF SameScan
      <2> QED BY <2>1, <2>2, <2>3, <2>4, JobsStay, QueueGoesOn DEF SameNotices, SameNotice
<1>4. ASSUME NEW u \in Users, NEW k \in Kinds, Enable(u, k) \/ Disable(u, k) PROVE QueueInv'
      <2>1. /\ \/ rules' = [rules EXCEPT ![k] = @ \cup {u}] /\ owed' = owed
               \/ /\ rules' = [rules EXCEPT ![k] = @ \ {u}]
                  /\ owed' = [w \in Workers |-> IF scan[w].kind = k THEN owed[w] \ {u} ELSE owed[w]]
            /\ UNCHANGED <<hour, notices, jobs, scan>>
            BY <1>4 DEF Enable, Disable
      <2>2. rules' \in [Kinds -> SUBSET Users] /\ owed' \in [Workers -> SUBSET Users]
            BY <1>1, <2>1 DEF AlertTypes
      <2>3. ASSUME NEW l \in Kinds PROVE \E b \in Nat : \A x \in rules'[l] : x <= b
            <3>1. PICK b \in Nat : \A x \in rules[l] : x <= b
                  BY <1>1 DEF AlertTypes
            <3>2. rules'[l] \subseteq rules[l] \cup {u}
                  BY <1>1, <2>1 DEF AlertTypes
            <3>3. b + u \in Nat /\ u <= b + u /\ b <= b + u
                  BY <1>1
            <3>4. ASSUME NEW x \in rules'[l] PROVE x <= b + u
                  <4>1. x \in Nat /\ (x <= b \/ x = u) /\ u \in Nat
                        BY <1>1, <2>2, <3>1, <3>2
                  <4> QED BY <3>3, <4>1
            <3> QED BY <3>3, <3>4
      <2>4. AlertTypes'
            BY <1>1, <2>1, <2>2, <2>3 DEF AlertTypes
      <2>5. \A w \in Workers : OrderOK(w)' /\ (scan'[w].at # "idle" => scan[w].at # "idle" /\ SameScan(w))
            BY <1>2, <2>1 DEF SameScan
      <2>6. hour' >= hour
            BY <1>1, <2>1 DEF AlertTypes
      <2> QED BY <2>1, <2>4, <2>5, <2>6, JobsStay, QueueGoesOn
<1>5. ASSUME NEW k \in Kinds, NEW w \in Workers, Enqueue(k, w) PROVE QueueInv'
      <2>1. UNCHANGED <<hour, rules, notices, scan, owed>> /\ JobsFollow
            BY <1>5, JobAdded DEF Enqueue
      <2>2. AlertTypes'
            BY <1>1, <2>1 DEF AlertTypes, JobsFollow
      <2>3. \A v \in Workers : OrderOK(v)' /\ (scan'[v].at # "idle" => scan[v].at # "idle" /\ SameScan(v))
            BY <1>2, <2>1 DEF SameScan
      <2>4. hour' >= hour
            BY <1>1, <2>1 DEF AlertTypes
      <2> QED BY <2>1, <2>2, <2>3, <2>4, QueueGoesOn
<1>6. ASSUME NEW w \in Workers, Stalled(w) PROVE QueueInv'
      <2>1. UNCHANGED <<hour, rules, notices, scan, owed>> /\ JobsFollow
            BY <1>6, Requeued DEF Stalled
      <2>2. AlertTypes'
            BY <1>1, <2>1 DEF AlertTypes, JobsFollow
      <2>3. \A v \in Workers : OrderOK(v)' /\ (scan'[v].at # "idle" => scan[v].at # "idle" /\ SameScan(v))
            BY <1>2, <2>1 DEF SameScan
      <2>4. hour' >= hour
            BY <1>1, <2>1 DEF AlertTypes
      <2> QED BY <2>1, <2>2, <2>3, <2>4, QueueGoesOn
<1>7. ASSUME NEW w \in Workers, Leaves(w) PROVE QueueInv'
      <2>1. /\ UNCHANGED <<hour, rules, notices>> /\ scan' = [scan EXCEPT ![w] = NoScan]
            /\ owed' = [owed EXCEPT ![w] = {}]
            BY <1>7 DEF Leaves, WorkerDies, BatchFails, EndScan
      <2>2. JobsFollow
            BY <1>7, Requeued, JobsEnd, JobsStay DEF Leaves, WorkerDies, BatchFails, EndScan
      <2>3. /\ scan' \in [Workers -> ScanRow] /\ scan'[w] = NoScan
            /\ \A x \in Workers \ {w} : scan'[x] = scan[x]
            BY <1>1, <2>1, LeavesScan
      <2>4. AlertTypes'
            BY <1>1, <2>1, <2>2, <2>3 DEF AlertTypes, JobsFollow
      <2>5. OrderOK(w)'
            BY <2>3 DEF OrderOK, NoScan, Visiting
      <2>6. \A v \in Workers : OrderOK(v)' /\ (scan'[v].at # "idle" => scan[v].at # "idle" /\ SameScan(v))
            BY <1>2, <2>3, <2>5 DEF SameScan, NoScan
      <2>7. hour' >= hour
            BY <1>1, <2>1 DEF AlertTypes
      <2> QED BY <2>1, <2>2, <2>4, <2>6, <2>7, QueueGoesOn
<1>8. ASSUME NEW w \in Workers, Silent(w) PROVE QueueInv'
      <2>1. Moved(w) /\ OrderOK(w)'
            BY <1>8, OrderGoesOn
      <2>2. UNCHANGED <<hour, rules, notices, jobs>> /\ (owed' = owed \/ \E u : owed' = [owed EXCEPT ![w] = @ \ {u}])
            BY <1>8 DEF Silent, ReadBatch, Visit, Evaluate, CheckDuplicate, ReadDigest, VisitFails
      <2>3. owed' \in [Workers -> SUBSET Users]
            BY <1>1, <2>2 DEF AlertTypes
      <2>4. AlertTypes'
            BY <1>1, <2>1, <2>2, <2>3 DEF AlertTypes, Moved
      <2>5. \A v \in Workers : OrderOK(v)' /\ (scan'[v].at # "idle" => scan[v].at # "idle" /\ SameScan(v))
            BY <1>2, <2>1 DEF Moved, SameScan
      <2>6. hour' >= hour
            BY <1>1, <2>2 DEF AlertTypes
      <2> QED BY <2>2, <2>4, <2>5, <2>6, JobsStay, QueueGoesOn
<1>9. ASSUME NEW w \in Workers, Notify(w) PROVE QueueInv'
      <2>1. Moved(w) /\ OrderOK(w)'
            BY <1>9, OrderGoesOn
      <2>2. scan[w].at = "notify" /\ UNCHANGED <<hour, rules, jobs, owed>>
            BY <1>9 DEF Notify
      <2>3. scan[w].user \in Users /\ scan[w].kind \in Kinds /\ scan[w].id \in JobId1
            BY <1>1, <2>2 DEF OrderOK, ScanOK, On, Visiting
      <2>4. /\ notices' \in Seq(NoticeRow)
            /\ DOMAIN notices' = 1..Len(notices) + 1 /\ DOMAIN notices = 1..Len(notices) /\ Len(notices) \in Nat
            /\ notices'[Len(notices) + 1] = Notice(w)
            /\ \A i \in DOMAIN notices : notices'[i] = notices[i]
            BY <1>1, <1>9, <2>3, NotifyIs
      <2>5. AlertTypes'
            BY <1>1, <2>1, <2>2, <2>4 DEF AlertTypes, Moved
      <2>6. \A v \in Workers : OrderOK(v)' /\ (scan'[v].at # "idle" => scan[v].at # "idle" /\ SameScan(v))
            BY <1>2, <2>1 DEF Moved, SameScan
      <2>7. Notice(w).job = scan[w].id /\ Notice(w).kind = scan[w].kind
            BY DEF Notice
      <2>8. \A i \in DOMAIN notices' : i \in DOMAIN notices \/ i = Len(notices) + 1
            BY <2>4
      <2>9. hour' >= hour
            BY <1>1, <2>2 DEF AlertTypes
      <2> QED BY <2>2, <2>4, <2>5, <2>6, <2>7, <2>8, <2>9, JobsStay, QueueGoesOn
<1>10. ASSUME NEW w \in Workers, Take(w) PROVE QueueInv'
      <2>1. PICK j \in jobs :
              /\ j.state = "waiting" /\ scan[w].at = "idle" /\ JobsFollow
              /\ \E i \in jobs' : i.id = j.id /\ Started(i)
              /\ scan' \in [Workers -> ScanRow]
              /\ scan'[w].at = "batch" /\ scan'[w].id = j.id /\ scan'[w].kind = j.kind
              /\ scan'[w].start = hour /\ scan'[w].batch = {}
              /\ ~scan'[w].again => j.stalls = 0
              /\ \A v \in Workers \ {w} : SameAt(v)
              /\ owed' = [owed EXCEPT ![w] = rules[j.kind]] /\ j.kind \in Kinds
            BY <1>10, TakeIs
      <2>2. UNCHANGED <<hour, rules, watches, latest, notices>>
            BY <1>10 DEF Take
      <2>3. AlertTypes'
            <3>1. owed' \in [Workers -> SUBSET Users]
                  BY <1>1, <2>1 DEF AlertTypes
            <3> QED BY <1>1, <2>1, <2>2, <3>1 DEF AlertTypes, JobsFollow
      <2>4. JobsOnce'
            BY <2>1 DEF JobsFollow, JobsOnce
      <2>5. j \in JobRow /\ j.id \in JobId1 /\ j.id[1] = j.kind
            BY <1>1 DEF QueueInv, AlertTypes, JobsOnce, JobRow, JobId1
      <2>6. ASSUME NEW v \in Workers PROVE ScanOK(v)' /\ OrderOK(v)'
            <3>1. CASE v = w
                  <4>1. scan'[w].start <= hour'
                        BY <1>1, <2>1, <2>2 DEF AlertTypes
                  <4> QED BY <2>1, <2>5, <3>1, <4>1 DEF ScanOK, OrderOK, Begun, Started, Visiting
            <3>2. CASE v # w
                  <4>1. SameAt(v)
                        BY <2>1, <3>2
                  <4>2. OrderOK(v)'
                        BY <1>1, <4>1 DEF OrderOK, SameAt
                  <4>3. ASSUME scan'[v].at # "idle" PROVE ScanOK(v)'
                        <5>1. /\ scan[v].kind \in Kinds /\ scan[v].id \in JobId1 /\ scan[v].id[1] = scan[v].kind
                              /\ Begun(scan[v].id) /\ scan[v].start <= hour
                              BY <1>1, <4>1, <4>3 DEF ScanOK, On, SameAt
                        <5>2. \E i \in jobs' : i.id = scan[v].id /\ Started(i)
                              BY <2>1, <5>1, StaysBegun
                        <5> QED BY <2>2, <4>1, <5>1, <5>2 DEF ScanOK, SameAt, Begun, Started
                  <4> QED BY <4>2, <4>3 DEF ScanOK, On
            <3> QED BY <3>1, <3>2
      <2>7. ASSUME NEW i \in DOMAIN notices' PROVE NoticeOK(i)'
            <3>1. i \in DOMAIN notices /\ notices[i].job[1] = notices[i].kind /\ Begun(notices[i].job)
                  BY <2>2 DEF QueueInv, NoticeOK
            <3>2. \E l \in jobs' : l.id = notices[i].job /\ Started(l)
                  BY <2>1, <3>1, StaysBegun
            <3> QED BY <2>2, <3>1, <3>2 DEF NoticeOK, Begun, Started
      <2>8. FirstStarts'
            <3>1. ASSUME NEW v \in Workers \ {w}, scan'[v].at # "idle", scan'[v].id = j.id PROVE j.stalls # 0
                  <4>1. Begun(j.id)
                        BY <1>1, <2>1, <3>1 DEF ScanOK, On, SameAt
                  <4>2. PICK l \in jobs : l.id = j.id /\ (l.state = "waiting" => l.stalls > 0)
                        BY <4>1 DEF Begun
                  <4>3. l = j
                        BY <4>2 DEF QueueInv, JobsOnce
                  <4>4. j.stalls > 0 /\ j.stalls \in Nat
                        BY <2>1, <2>5, <4>2, <4>3 DEF JobRow, AlertsAssumption
                  <4> QED BY <4>4
            <3>2. ASSUME NEW u \in Workers \ {w}, NEW v \in Workers \ {w},
                         scan'[u].at # "idle", scan'[v].at # "idle", scan'[u].id = scan'[v].id,
                         ~scan'[u].again, ~scan'[v].again
                  PROVE  u = v
                  BY <2>1, <3>2 DEF QueueInv, FirstStarts, On, SameAt
            <3> QED BY <2>1, <3>1, <3>2 DEF FirstStarts, On
      <2> QED BY <2>3, <2>4, <2>6, <2>7, <2>8 DEF QueueInv
<1> QED BY <1>3, <1>4, <1>5, <1>6, <1>7, <1>8, <1>9, <1>10 DEF AlertNext, Request, Silent, Leaves

\* What is owed is kept.

\* A scan that stays where it is, while rules are only added.
LEMMA OwedStays ==
    ASSUME NEW w, OwedOK(w), owed'[w] = owed[w],
           scan'[w].at = scan[w].at, scan'[w].kind = scan[w].kind, scan'[w].cursor = scan[w].cursor,
           scan'[w].batch = scan[w].batch, scan'[w].full = scan[w].full, scan'[w].cut = scan[w].cut,
           scan[w].at # "idle" => rules[scan[w].kind] \subseteq rules'[scan[w].kind]
    PROVE  OwedOK(w)'
<1>1. scan'[w].at # "idle" => owed'[w] \subseteq rules'[scan'[w].kind]
      BY DEF OwedOK, On
<1> QED BY <1>1 DEF OwedOK, On, Visiting

LEMMA OwedMoves ==
    ASSUME QueueInv, AlertsAssumption, PlatformAssumption, NEW w \in Workers, OwedOK(w),
           Silent(w) \/ Notify(w)
    PROVE  OwedOK(w)'
<1> USE AlertsAssumption, PlatformAssumption
<1>1. AlertTypes /\ OrderOK(w) /\ ScanOK(w) /\ scan[w] \in ScanRow /\ Moved(w)
      BY OrderGoesOn DEF QueueInv, AlertTypes
<1>2. /\ scan[w].batch \in SUBSET Users /\ scan[w].cursor \in Nat /\ Users \subseteq Nat
      /\ scan[w].at # "idle" /\ scan[w].kind \in Kinds /\ scan[w].id \in JobId1
      /\ owed[w] \subseteq rules[scan[w].kind] /\ rules[scan[w].kind] \subseteq Users
      BY <1>1 DEF ScanRow, PlatformAssumption, ScanOK, On, Moved, OwedOK, AlertTypes
<1>3. rules' = rules /\ scan'[w].kind = scan[w].kind /\ scan'[w].at # "idle"
      BY <1>1 DEF Silent, Notify, ReadBatch, Visit, Evaluate, CheckDuplicate, ReadDigest, VisitFails,
                  Moved, SameScan
<1>4. ASSUME scan[w].at \in Visiting, owed' = owed, Next1(w, scan'[w]) \/ Inside(w) PROVE OwedOK(w)'
      <2>1. owed'[w] \subseteq rules'[scan'[w].kind]
            BY <1>2, <1>3, <1>4
      <2>2. ~scan[w].cut => \A u \in owed[w] : u \in scan[w].batch \/ (scan[w].full /\ u > scan[w].cursor)
            BY <1>4 DEF OwedOK
      <2>3. CASE Inside(w)
            BY <1>3, <1>4, <2>1, <2>2, <2>3 DEF OwedOK, Inside, Visiting
      <2>4. CASE Next1(w, scan'[w])
            BY <1>3, <1>4, <2>1, <2>2, <2>4 DEF OwedOK, Next1, Visiting
      <2> QED BY <1>4, <2>3, <2>4
<1>5. CASE ReadBatch(w)
      <2> DEFINE k == scan[w].kind
                 c == scan[w].cursor
                 R == Behind(k, c)
                 P == scan'[w].batch
      <2>1. /\ scan[w].at = "batch" /\ P = Page(k, c)
            /\ scan'[w].at = (IF P = {} THEN "done" ELSE "visit")
            /\ scan'[w].full = (Cardinality(P) = BatchSize)
            /\ ~scan'[w].cut => ~scan[w].cut /\ (c = 0 \/ c \in rules[k])
            /\ P # {} => scan'[w].cursor \in P
            BY <1>1, <1>2, <1>5, ReadBatchIs
      <2>2. owed' = owed
            BY <1>5 DEF ReadBatch
      <2>3. owed'[w] \subseteq rules'[scan'[w].kind]
            BY <1>2, <1>3, <2>2
      <2>4. ASSUME ~scan'[w].cut
            PROVE  /\ P = {} => owed[w] = {}
                   /\ P # {} => \A u \in owed[w] : u \in P \/ (scan'[w].full /\ u > scan'[w].cursor)
            <3>1. PICK b \in Nat : \A u \in rules[k] : u <= b
                  BY <1>1, <1>2 DEF AlertTypes
            <3>2. P = First(R, BatchSize)
                  BY <1>2, <2>1, <2>4, <3>1, PageIs
            <3>3. \A u \in owed[w] : u > c
                  BY <1>1, <2>1, <2>4 DEF OwedOK
            <3>4. owed[w] \subseteq R
                  BY <1>2, <3>3 DEF Behind
            <3>5. R \in SUBSET Nat /\ (\A u \in R : u <= b) /\ BatchSize \in Nat \ {0}
                  BY <1>2, <3>1 DEF Behind, AlertsAssumption
            <3> HIDE DEF R, P
            <3>6. /\ P \subseteq R
                  /\ \A u \in R \ P, v \in P : v < u
                  /\ R # {} => Lowest(R) \in P
                  /\ R # P => Cardinality(P) = BatchSize
                  BY <3>2, <3>5, FirstIs
            <3>7. P = {} => owed[w] = {}
                  BY <3>4, <3>6
            <3>8. ASSUME P # {}, NEW u \in owed[w], u \notin P PROVE scan'[w].full /\ u > scan'[w].cursor
                  <4>1. scan'[w].cursor \in P
                        BY <2>1, <3>8
                  <4>2. u \in R \ P /\ R # P
                        BY <3>4, <3>8
                  <4>3. scan'[w].cursor < u /\ u \in Nat /\ scan'[w].cursor \in Nat
                        BY <3>5, <3>6, <4>1, <4>2
                  <4> QED BY <2>1, <3>6, <4>2, <4>3
            <3> QED BY <3>7, <3>8
      <2> HIDE DEF P
      <2>5. scan'[w].batch = P
            BY DEF P
      <2> QED BY <1>3, <2>1, <2>2, <2>3, <2>4, <2>5 DEF OwedOK, Visiting
<1>6. CASE Visit(w)
      <2>1. scan[w].at = "visit" /\ scan[w].batch # {}
            BY <1>1, <1>6 DEF OrderOK, Visit
      <2>2. /\ scan'[w].user \in scan[w].batch
            /\ scan'[w].batch = scan[w].batch \ {scan'[w].user}
            /\ owed' = [owed EXCEPT ![w] = @ \ {scan'[w].user}]
            /\ scan'[w].at = (IF scan[w].kind = "price-drop" THEN "product" ELSE "digest")
            /\ scan'[w].cursor = scan[w].cursor /\ scan'[w].full = scan[w].full /\ scan'[w].cut = scan[w].cut
            BY <1>1, <1>6, <2>1, VisitIs
      <2>3. owed'[w] = owed[w] \ {scan'[w].user}
            BY <1>1, <2>2 DEF AlertTypes
      <2>4. owed'[w] \subseteq rules'[scan'[w].kind]
            BY <1>2, <1>3, <2>3
      <2>5. ~scan[w].cut => \A u \in owed[w] : u \in scan[w].batch \/ (scan[w].full /\ u > scan[w].cursor)
            BY <2>1 DEF OwedOK
      <2>6. ~scan'[w].cut => \A u \in owed'[w] : u \in scan'[w].batch \/ (scan'[w].full /\ u > scan'[w].cursor)
            BY <2>2, <2>3, <2>5
      <2>7. scan'[w].at \in Visiting
            BY <2>2 DEF Visiting
      <2> QED BY <1>3, <2>4, <2>6, <2>7 DEF OwedOK, Visiting
<1>7. CASE Evaluate(w)
      <2>1. scan[w].at = "product" /\ (Next1(w, scan'[w]) \/ Inside(w)) /\ owed' = owed
            BY <1>1, <1>7, EvaluateIs DEF Evaluate
      <2> QED BY <1>4, <2>1 DEF Visiting
<1>8. CASE CheckDuplicate(w)
      <2>1. scan[w].at = "duplicate" /\ Inside(w) /\ owed' = owed
            BY <1>1, <1>8, CheckDuplicateIs DEF CheckDuplicate
      <2> QED BY <1>4, <2>1 DEF Visiting
<1>9. CASE ReadDigest(w)
      <2>1. scan[w].at = "digest" /\ (Next1(w, scan'[w]) \/ Inside(w)) /\ owed' = owed
            BY <1>1, <1>9, ReadDigestIs DEF ReadDigest
      <2> QED BY <1>4, <2>1 DEF Visiting
<1>10. CASE VisitFails(w)
      BY <1>1, <1>4, <1>10, VisitFailsIs DEF VisitFails
<1>11. CASE Notify(w)
      <2>1. scan[w].at = "notify" /\ scan[w].user \in Users /\ owed' = owed
            BY <1>1, <1>11 DEF OrderOK, Notify, Visiting
      <2>2. Next1(w, scan'[w]) \/ Inside(w)
            BY <1>1, <1>2, <1>11, <2>1, NotifyIs
      <2> QED BY <1>4, <2>1, <2>2 DEF Visiting
<1> QED BY <1>5, <1>6, <1>7, <1>8, <1>9, <1>10, <1>11 DEF Silent

LEMMA OwedStep ==
    OwedInv /\ [AlertNext]_alertVars /\ PlatformAssumption /\ AlertsAssumption => OwedInv'
<1> SUFFICES ASSUME OwedInv, [AlertNext]_alertVars, PlatformAssumption, AlertsAssumption
             PROVE  OwedInv'
    OBVIOUS
<1>1. /\ QueueInv /\ AlertTypes /\ \A w \in Workers : OwedOK(w)
      /\ \A w \in Workers : scan[w].at # "idle" => scan[w].kind \in Kinds
      BY DEF OwedInv, QueueInv, ScanOK, On
<1>2. QueueInv'
      BY <1>1, QueueStep
<1>3. ASSUME UNCHANGED <<scan, owed>>, \A k \in Kinds : rules[k] \subseteq rules'[k] PROVE OwedInv'
      BY <1>1, <1>2, <1>3, OwedStays DEF OwedInv
<1>4. ASSUME NEW w \in Workers, OwedOK(w)', UNCHANGED rules,
             \A v \in Workers \ {w} : scan'[v] = scan[v] /\ owed'[v] = owed[v]
      PROVE  OwedInv'
      BY <1>1, <1>2, <1>4, OwedStays DEF OwedInv
<1>5. ASSUME Request \/ (\E k \in Kinds, w \in Workers : Enqueue(k, w)) \/ (\E w \in Workers : Stalled(w))
      PROVE  OwedInv'
      <2>1. UNCHANGED <<rules, scan, owed>>
            BY <1>5 DEF Request, CreatePriceWatch, DeletePriceWatch, MarkRead, MarkAllRead, Reprice, Tick,
                        alertVars, Enqueue, Stalled
      <2> QED BY <1>3, <2>1
<1>6. ASSUME NEW u \in Users, NEW k \in Kinds, Enable(u, k) PROVE OwedInv'
      <2>1. rules' = [rules EXCEPT ![k] = @ \cup {u}] /\ UNCHANGED <<scan, owed>>
            BY <1>6 DEF Enable
      <2>2. \A l \in Kinds : rules[l] \subseteq rules'[l]
            BY <1>1, <2>1 DEF AlertTypes
      <2> QED BY <1>3, <2>1, <2>2
<1>7. ASSUME NEW u \in Users, NEW k \in Kinds, Disable(u, k) PROVE OwedInv'
      <2>1. /\ rules' = [rules EXCEPT ![k] = @ \ {u}] /\ scan' = scan
            /\ owed' = [w \in Workers |-> IF scan[w].kind = k THEN owed[w] \ {u} ELSE owed[w]]
            BY <1>7 DEF Disable
      <2>2. ASSUME NEW w \in Workers PROVE OwedOK(w)'
            <3>1. OwedOK(w) /\ (scan[w].at # "idle" => scan[w].kind \in Kinds)
                  BY <1>1
            <3>2. owed'[w] \subseteq owed[w] /\ (scan[w].kind = k => owed'[w] = owed[w] \ {u})
                  BY <2>1
            <3>3. scan[w].at # "idle" => owed'[w] \subseteq rules'[scan[w].kind]
                  BY <1>1, <2>1, <3>1, <3>2 DEF OwedOK, On, AlertTypes
            <3> QED BY <2>1, <3>1, <3>2, <3>3 DEF OwedOK, On
      <2> QED BY <1>2, <2>2 DEF OwedInv
<1>8. ASSUME NEW w \in Workers, Leaves(w) PROVE OwedInv'
      <2>1. /\ UNCHANGED rules /\ scan' = [scan EXCEPT ![w] = NoScan] /\ owed' = [owed EXCEPT ![w] = {}]
            BY <1>8 DEF Leaves, WorkerDies, BatchFails, EndScan
      <2>2. /\ scan'[w] = NoScan /\ \A x \in Workers \ {w} : scan'[x] = scan[x]
            BY <1>1, <2>1, LeavesScan
      <2>3. owed'[w] = {} /\ \A x \in Workers \ {w} : owed'[x] = owed[x]
            BY <1>1, <2>1 DEF AlertTypes
      <2>4. OwedOK(w)'
            BY <2>2, <2>3 DEF OwedOK, On, NoScan, Visiting
      <2> QED BY <1>4, <2>1, <2>2, <2>3, <2>4
<1>9. ASSUME NEW w \in Workers, Silent(w) \/ Notify(w) PROVE OwedInv'
      <2>1. Moved(w) /\ OwedOK(w)'
            BY <1>1, <1>9, OrderGoesOn, OwedMoves
      <2>2. rules' = rules /\ (owed' = owed \/ \E u : owed' = [owed EXCEPT ![w] = @ \ {u}])
            BY <1>9 DEF Silent, Notify, ReadBatch, Visit, Evaluate, CheckDuplicate, ReadDigest, VisitFails
      <2>3. \A x \in Workers \ {w} : owed'[x] = owed[x]
            BY <1>1, <2>2 DEF AlertTypes
      <2> QED BY <1>4, <2>1, <2>2, <2>3 DEF Moved
<1>10. ASSUME NEW w \in Workers, Take(w) PROVE OwedInv'
      <2>1. PICK j \in jobs :
              /\ scan'[w].at = "batch" /\ scan'[w].kind = j.kind /\ scan'[w].cursor = 0
              /\ \A v \in Workers \ {w} : SameAt(v)
              /\ owed' = [owed EXCEPT ![w] = rules[j.kind]] /\ j.kind \in Kinds
            BY <1>1, <1>10, TakeIs
      <2>2. rules' = rules
            BY <1>10 DEF Take
      <2>3. owed'[w] = rules[j.kind] /\ \A x \in Workers \ {w} : owed'[x] = owed[x]
            BY <1>1, <2>1 DEF AlertTypes
      <2>4. \A u \in rules[j.kind] : u > 0
            <3>1. rules[j.kind] \subseteq Users
                  BY <1>1, <2>1 DEF AlertTypes
            <3>2. \A u \in Users : u > 0
                  <4>1. \A u \in Nat : u # 0 => u > 0
                        OBVIOUS
                  <4>2. \A u \in Users : u \in Nat /\ u # 0
                        BY DEF PlatformAssumption
                  <4> QED BY <4>1, <4>2
            <3> QED BY <3>1, <3>2
      <2>5. OwedOK(w)'
            BY <2>1, <2>2, <2>3, <2>4 DEF OwedOK, On, Visiting
      <2>6. \A v \in Workers \ {w} : OwedOK(v)'
            BY <1>1, <2>1, <2>2, <2>3, OwedStays DEF SameAt
      <2> QED BY <1>2, <2>5, <2>6 DEF OwedInv
<1> QED BY <1>5, <1>6, <1>7, <1>8, <1>9, <1>10 DEF AlertNext, Request, Silent, Leaves

\* alert-scan.service.ts, the batches of a scan: one that reaches its end has
\* visited every rule enabled all along, whatever failed and whatever rules came
\* and went, unless the row of its cursor was disabled; for every batch size.
THEOREM AllVisited == AlertSpec => []EnabledAreVisited
<1> USE PlatformAssumption, AlertsAssumption
<1>1. AlertInit => OwedInv
      <2> SUFFICES ASSUME AlertInit PROVE OwedInv
          OBVIOUS
      <2>1. \A w \in Workers : scan[w].at = "idle" /\ owed[w] = {}
            BY DEF AlertInit, NoScan
      <2> QED BY <2>1, QueueStarts DEF OwedInv, OwedOK, On, Visiting
<1>2. OwedInv => EnabledAreVisited
      BY DEF OwedInv, OwedOK, EnabledAreVisited
<1> QED BY <1>1, <1>2, OwedStep, PTL DEF AlertSpec
\* What was sent is kept.

\* Notifications that stay as they are, and a scan that does.
LEMMA SentStays ==
    ASSUME SameNotices, NEW w \in Workers, SentOK(w), SameAt(w)
    PROVE  SentOK(w)'
BY DEF SameNotices, SameNotice, SentOK, SameAt, Sent, On

LEMMA DropStays ==
    ASSUME SameNotices, NEW w \in Workers, DropOK(w), SameAt(w)
    PROVE  DropOK(w)'
BY DEF SameNotices, SameNotice, DropOK, SameAt

LEMMA OnceStays == ASSUME SameNotices, NotifiedOnce PROVE NotifiedOnce'
<1> SUFFICES ASSUME NEW i \in DOMAIN notices, NEW j \in DOMAIN notices, i < j,
                    notices[i].user = notices[j].user, notices[i].kind = notices[j].kind
             PROVE  IF notices'[j].kind = "price-drop"
                    THEN notices'[i].product = notices'[j].product /\ notices'[j].at - notices'[i].at <= Day
                         => ~notices'[j].alone
                    ELSE notices'[i].job[2] = notices'[j].job[2] => notices'[i].again \/ notices'[j].again
    BY DEF NotifiedOnce, SameNotices, SameNotice
<1>1. SameNotice(i) /\ SameNotice(j)
      BY DEF SameNotices
<1>2. IF notices[j].kind = "price-drop"
      THEN notices[i].product = notices[j].product /\ notices[j].at - notices[i].at <= Day
           => ~notices[j].alone
      ELSE notices[i].job[2] = notices[j].job[2] => notices[i].again \/ notices[j].again
      BY DEF NotifiedOnce
<1> QED BY <1>1, <1>2 DEF SameNotice

LEMMA AloneStays ==
    ASSUME AloneOK,
           \A v \in Workers : Busy(v)' => Busy(v) /\ scan'[v].kind = scan[v].kind
                                        /\ (scan'[v].alone => scan[v].alone)
    PROVE  AloneOK'
BY DEF AloneOK

\* What a step of w that sends nothing keeps.
LEMMA SilentKeeps ==
    ASSUME NoticeInv, AlertsAssumption, PlatformAssumption, NEW w \in Workers, Silent(w)
    PROVE  SentOK(w)' /\ DropOK(w)'
<1> USE AlertsAssumption, PlatformAssumption
<1>1. /\ QueueInv /\ AlertTypes /\ OrderOK(w) /\ ScanOK(w) /\ SentOK(w) /\ DropOK(w)
      /\ scan[w] \in ScanRow /\ Moved(w) /\ notices' = notices
      /\ \A i \in DOMAIN notices : notices[i].user \in Users /\ notices[i].at \in Nat
      <2>1. QueueInv /\ SentOK(w) /\ DropOK(w)
            BY DEF NoticeInv
      <2>2. AlertTypes /\ OrderOK(w) /\ ScanOK(w)
            BY <2>1 DEF QueueInv
      <2>3. Moved(w)
            BY <2>1, OrderGoesOn
      <2>4. notices' = notices
            BY DEF Silent, ReadBatch, Visit, Evaluate, CheckDuplicate, ReadDigest, VisitFails
      <2>5. \A i \in DOMAIN notices : notices[i] \in NoticeRow
            BY <2>2 DEF AlertTypes
      <2>6. scan[w] \in ScanRow
            BY <2>2 DEF AlertTypes
      <2> QED BY <2>1, <2>2, <2>3, <2>4, <2>5, <2>6 DEF NoticeRow
<1>2. /\ scan[w].batch \in SUBSET Users /\ scan[w].cursor \in Nat /\ Users \subseteq Nat
      /\ scan[w].at # "idle" /\ scan[w].kind \in Kinds
      BY <1>1 DEF ScanRow, PlatformAssumption, ScanOK, On, Moved
<1>3. SameScan(w) /\ scan'[w].at # "idle"
      BY <1>1 DEF Moved
\* What w's scan sent of late.
<1>4. ASSUME NEW i \in DOMAIN notices, notices[i].job = scan[w].id, ~notices[i].again,
             ~scan[w].again, scan[w].kind # "price-drop"
      PROVE  /\ notices[i].user <= scan[w].cursor
             /\ \A u \in scan[w].batch : notices[i].user < u
             /\ scan[w].at \in Visiting => notices[i].user < scan[w].user
      BY <1>1, <1>2, <1>4 DEF SentOK, Sent, On
<1>5. ASSUME scan'[w].cursor = scan[w].cursor, scan'[w].batch \subseteq scan[w].batch,
             scan'[w].at \in Visiting =>
                \/ (scan[w].at \in Visiting /\ scan'[w].user = scan[w].user)
                \/ scan'[w].user \in scan[w].batch
      PROVE  SentOK(w)'
      BY <1>1, <1>3, <1>4, <1>5 DEF SentOK, Sent, On, SameScan
<1>6. ASSUME scan'[w].at # "notify" \/ scan[w].kind # "price-drop" PROVE DropOK(w)'
      BY <1>3, <1>6 DEF DropOK, SameScan
<1>7. ASSUME Next1(w, scan'[w]) PROVE SentOK(w)' /\ DropOK(w)'
      <2>1. scan'[w].at \notin Visiting /\ scan'[w].at # "notify"
            BY <1>7 DEF Next1, Visiting
      <2> QED BY <1>5, <1>6, <1>7, <2>1 DEF Next1
<1>8. ASSUME Inside(w), scan[w].at \in Visiting PROVE SentOK(w)'
      BY <1>5, <1>8 DEF Inside
<1>9. CASE ReadBatch(w)
      <2>1. /\ scan[w].at = "batch"
            /\ scan'[w].at = (IF scan'[w].batch = {} THEN "done" ELSE "visit")
            /\ IF scan'[w].batch = {} THEN scan'[w].cursor = scan[w].cursor
               ELSE scan'[w].cursor \in scan'[w].batch
            /\ \A u \in scan'[w].batch : u <= scan'[w].cursor /\ u > scan[w].cursor
            BY <1>1, <1>2, <1>9, ReadBatchIs
      <2>2. scan'[w].at \notin Visiting
            BY <2>1 DEF Visiting
      <2>3. scan'[w].batch \in SUBSET Users /\ scan'[w].cursor \in Nat
            BY <1>1 DEF Moved, ScanRow
      <2>4. ASSUME NEW i \in DOMAIN notices, notices[i].user <= scan[w].cursor
            PROVE  notices[i].user <= scan'[w].cursor /\ \A u \in scan'[w].batch : notices[i].user < u
            <3>1. notices[i].user \in Nat /\ \A u \in scan'[w].batch : u \in Nat
                  BY <1>1, <1>2, <2>3
            <3> QED BY <1>2, <2>1, <2>3, <2>4, <3>1
      <2>5. SentOK(w)'
            BY <1>1, <1>3, <1>4, <2>2, <2>4 DEF SentOK, Sent, On, SameScan
      <2> QED BY <1>6, <2>2, <2>5 DEF Visiting
<1>10. CASE Visit(w)
      <2>1. scan[w].at = "visit" /\ scan[w].batch # {}
            BY <1>1, <1>10 DEF OrderOK, Visit
      <2>2. /\ scan'[w].user \in scan[w].batch
            /\ scan'[w].batch = scan[w].batch \ {scan'[w].user}
            /\ scan'[w].at = (IF scan[w].kind = "price-drop" THEN "product" ELSE "digest")
            /\ scan'[w].cursor = scan[w].cursor
            BY <1>1, <1>10, <2>1, VisitIs
      <2> QED BY <1>5, <1>6, <2>2
<1>11. CASE Evaluate(w)
      <2>1. /\ scan[w].at = "product"
            /\ Next1(w, scan'[w]) \/ (Inside(w) /\ scan'[w].at \in {"duplicate", "product"})
            BY <1>1, <1>11, EvaluateIs
      <2> QED BY <1>6, <1>7, <1>8, <2>1 DEF Visiting
<1>12. CASE CheckDuplicate(w)
      <2>1. /\ scan[w].at = "duplicate" /\ Inside(w)
            /\ scan'[w].at \in {"product", "notify"} /\ scan'[w].product = scan[w].product
            /\ scan'[w].at = "notify" => ~Notified(w)
            BY <1>1, <1>12, CheckDuplicateIs
      <2>2. SentOK(w)'
            BY <1>8, <2>1 DEF Visiting
      <2>3. DropOK(w)'
            <3>1. SUFFICES ASSUME scan'[w].at = "notify", NEW i \in DOMAIN notices,
                                  notices[i].user = scan[w].user, notices[i].product = scan[w].product,
                                  notices[i].kind = "price-drop"
                           PROVE  notices[i].at < scan[w].start - Day
                  BY <1>1, <1>3, <2>1 DEF DropOK, Inside, SameScan
            <3>2. ~(notices[i].at >= scan[w].start - Day)
                  BY <2>1, <3>1 DEF Notified
            <3>3. notices[i].at \in Nat /\ scan[w].start \in Nat /\ Day \in Nat
                  BY <1>1 DEF ScanRow, AlertsAssumption
            <3> QED BY <3>2, <3>3
      <2> QED BY <2>2, <2>3
<1>13. CASE ReadDigest(w)
      <2>1. /\ scan[w].at = "digest" /\ scan[w].kind # "price-drop"
            /\ Next1(w, scan'[w]) \/ (Inside(w) /\ scan'[w].at = "notify")
            BY <1>1, <1>13, ReadDigestIs DEF OrderOK
      <2> QED BY <1>6, <1>7, <1>8, <2>1 DEF Visiting
<1>14. CASE VisitFails(w)
      BY <1>1, <1>7, <1>14, VisitFailsIs
<1> QED BY <1>9, <1>10, <1>11, <1>12, <1>13, <1>14 DEF Silent


LEMMA NoticeStep ==
    NoticeInv /\ [AlertNext]_alertVars /\ PlatformAssumption /\ AlertsAssumption => NoticeInv'
<1> SUFFICES ASSUME NoticeInv, [AlertNext]_alertVars, PlatformAssumption, AlertsAssumption
             PROVE  NoticeInv'
    OBVIOUS
<1>1. /\ QueueInv /\ AlertTypes /\ AloneOK /\ NotifiedOnce /\ FirstStarts
      /\ \A w \in Workers : SentOK(w) /\ DropOK(w) /\ ScanOK(w) /\ OrderOK(w)
      /\ \A w \in Workers : scan[w] \in ScanRow
      /\ \A i \in DOMAIN notices : NoticeOK(i)
      BY DEF NoticeInv, QueueInv, AlertTypes
<1>2. QueueInv'
      BY <1>1, QueueStep
<1>3. \A v \in Workers : scan'[v] = scan[v] => SameAt(v)
      BY DEF SameAt
<1>4. notices' = notices => SameNotices
      BY <1>1, ReadIs
\* Steps that leave every scan, and what was sent, as they are.
<1>5. ASSUME UNCHANGED scan, SameNotices PROVE NoticeInv'
      <2>1. \A w \in Workers : SentOK(w)' /\ DropOK(w)'
            BY <1>1, <1>3, <1>5, SentStays, DropStays
      <2>2. AloneOK'
            BY <1>1, <1>5, AloneStays DEF Busy
      <2> QED BY <1>1, <1>2, <1>5, <2>1, <2>2, OnceStays DEF NoticeInv
<1>6. ASSUME Request PROVE NoticeInv'
      <2>1. UNCHANGED scan
            BY <1>6 DEF Request, CreatePriceWatch, DeletePriceWatch, MarkRead, MarkAllRead, Reprice, Tick, alertVars
      <2>2. SameNotices
            BY <1>1, <1>6, ReadIs DEF Request, CreatePriceWatch, DeletePriceWatch, Reprice, Tick, alertVars
      <2> QED BY <1>5, <2>1, <2>2
<1>7. ASSUME \/ \E u \in Users, k \in Kinds : Enable(u, k) \/ Disable(u, k)
             \/ \E k \in Kinds, w \in Workers : Enqueue(k, w)
             \/ \E w \in Workers : Stalled(w)
      PROVE  NoticeInv'
      <2>1. UNCHANGED <<scan, notices>>
            BY <1>7 DEF Enable, Disable, Enqueue, Stalled
      <2> QED BY <1>4, <1>5, <2>1
<1>8. ASSUME NEW w \in Workers, Leaves(w) PROVE NoticeInv'
      <2>1. notices' = notices /\ scan' = [scan EXCEPT ![w] = NoScan]
            BY <1>8 DEF Leaves, WorkerDies, BatchFails, EndScan
      <2>2. scan'[w] = NoScan /\ \A x \in Workers \ {w} : scan'[x] = scan[x]
            BY <1>1, <2>1, LeavesScan
      <2>3. scan'[w].at = "idle"
            BY <2>2 DEF NoScan
      <2>4. SentOK(w)' /\ DropOK(w)'
            BY <2>3 DEF SentOK, DropOK, On
      <2>5. \A v \in Workers \ {w} : SentOK(v)' /\ DropOK(v)'
            BY <1>1, <1>3, <1>4, <2>1, <2>2, SentStays, DropStays
      <2>6. AloneOK'
            BY <1>1, <2>2, <2>3, AloneStays DEF Busy
      <2> QED BY <1>1, <1>2, <1>4, <2>1, <2>4, <2>5, <2>6, OnceStays DEF NoticeInv
<1>9. ASSUME NEW w \in Workers, Silent(w) PROVE NoticeInv'
      <2>1. Moved(w) /\ SentOK(w)' /\ DropOK(w)'
            BY <1>1, <1>9, OrderGoesOn, SilentKeeps
      <2>2. notices' = notices
            BY <1>9 DEF Silent, ReadBatch, Visit, Evaluate, CheckDuplicate, ReadDigest, VisitFails
      <2>3. \A v \in Workers \ {w} : SentOK(v)' /\ DropOK(v)'
            BY <1>1, <1>3, <1>4, <2>1, <2>2, SentStays, DropStays DEF Moved
      <2>4. AloneOK'
            BY <1>1, <2>1, AloneStays DEF Busy, Moved, SameScan
      <2> QED BY <1>1, <1>2, <1>4, <2>1, <2>2, <2>3, <2>4, OnceStays DEF NoticeInv
<1>10. ASSUME NEW w \in Workers, Take(w) PROVE NoticeInv'
      <2>1. PICK j \in jobs :
              /\ j.state = "waiting" /\ scan[w].at = "idle"
              /\ scan'[w].at = "batch" /\ scan'[w].id = j.id /\ scan'[w].kind = j.kind
              /\ ~scan'[w].again => j.stalls = 0
              /\ \A v \in Workers \ {w} : /\ SameAt(v)
                                          /\ scan[v].at \notin {"idle", "done"} /\ scan[v].kind = j.kind
                                             => ~scan'[v].alone /\ ~scan'[w].alone
            BY <1>1, <1>10, TakeIs
      <2>2. notices' = notices
            BY <1>10 DEF Take
      <2>3. SentOK(w)'
            <3>1. SUFFICES ASSUME j.stalls = 0, NEW i \in DOMAIN notices, notices[i].job = j.id PROVE FALSE
                  BY <2>1, <2>2 DEF SentOK, Sent
            <3>2. PICK l \in jobs : l.id = j.id /\ (l.state = "waiting" => l.stalls > 0)
                  BY <1>1, <3>1 DEF NoticeOK, Begun
            <3>3. l = j
                  BY <1>1, <3>2 DEF QueueInv, JobsOnce
            <3> QED BY <2>1, <3>1, <3>2, <3>3
      <2>4. DropOK(w)'
            BY <2>1 DEF DropOK
      <2>5. \A v \in Workers \ {w} : SentOK(v)' /\ DropOK(v)'
            BY <1>1, <1>4, <2>1, <2>2, SentStays, DropStays
      <2>6. AloneOK'
            BY <1>1, <2>1 DEF AloneOK, Busy, SameAt
      <2> QED BY <1>1, <1>2, <1>4, <2>2, <2>3, <2>4, <2>5, <2>6, OnceStays DEF NoticeInv
<1>11. ASSUME NEW w \in Workers, Notify(w) PROVE NoticeInv'
      <2> DEFINE n == Len(notices) + 1
      <2>1. /\ scan[w].at = "notify" /\ scan[w].user \in Users /\ scan[w].user <= scan[w].cursor
            /\ scan[w].kind \in Kinds /\ scan[w].id \in JobId1 /\ scan[w].id[1] = scan[w].kind
            /\ scan[w].start <= hour
            /\ \A u \in scan[w].batch : scan[w].user < u
            BY <1>1, <1>11 DEF Notify, OrderOK, ScanOK, On, Visiting
      <2>2. /\ Moved(w)
            /\ IF scan[w].kind = "price-drop" THEN Inside(w) /\ scan'[w].at = "product"
               ELSE Next1(w, scan'[w])
            /\ DOMAIN notices' = 1..n /\ DOMAIN notices = 1..Len(notices) /\ Len(notices) \in Nat
            /\ notices'[n] = Notice(w)
            /\ \A i \in DOMAIN notices : notices'[i] = notices[i]
            BY <1>1, <1>11, <2>1, NotifyIs
      <2>3. /\ notices'[n].user = scan[w].user /\ notices'[n].kind = scan[w].kind
            /\ notices'[n].product = scan[w].product /\ notices'[n].at = hour
            /\ notices'[n].job = scan[w].id /\ notices'[n].alone = scan[w].alone
            /\ notices'[n].again = scan[w].again
            BY <2>2 DEF Notice
      <2>4. n \in Nat /\ \A i \in DOMAIN notices' : i = n \/ i \in DOMAIN notices
            BY <2>2
      <2>5. \A i \in DOMAIN notices : i \in Nat /\ i < n /\ notices[i] \in NoticeRow
            BY <1>1, <2>2 DEF AlertTypes
      <2> HIDE DEF n
      <2>6. \A v \in Workers : scan[v].at # "idle" => scan'[v].at # "idle" /\ SameScan(v)
            BY <2>2 DEF Moved, SameScan
      <2>7. /\ scan[w].user \in Nat /\ hour \in Nat /\ scan[w].start \in Nat /\ Day \in Nat
            /\ \A i \in DOMAIN notices : notices[i].user \in Nat /\ notices[i].at \in Nat
            BY <1>1, <2>5 DEF AlertTypes, ScanRow, NoticeRow, AlertsAssumption, PlatformAssumption
\* Nothing sent before is sent again.
      <2>8. ASSUME NEW i \in DOMAIN notices, notices[i].user = scan[w].user, notices[i].kind = scan[w].kind
            PROVE  IF scan[w].kind = "price-drop"
                   THEN notices[i].product = scan[w].product /\ hour - notices[i].at <= Day => ~scan[w].alone
                   ELSE notices[i].job[2] = scan[w].id[2] => notices[i].again \/ scan[w].again
            <3>1. ASSUME scan[w].kind = "price-drop", notices[i].product = scan[w].product, scan[w].alone
                  PROVE  ~(hour - notices[i].at <= Day)
                  <4>1. notices[i].at < scan[w].start - Day
                        BY <1>1, <2>1, <2>8, <3>1 DEF DropOK
                  <4> QED BY <2>1, <2>7, <4>1
            <3>2. ASSUME scan[w].kind # "price-drop", notices[i].job[2] = scan[w].id[2],
                         ~notices[i].again, ~scan[w].again
                  PROVE  FALSE
                  <4>1. notices[i].job \in JobId1 /\ notices[i].job[1] = notices[i].kind
                        BY <1>1, <2>5 DEF NoticeOK, NoticeRow
                  <4>2. notices[i].job = scan[w].id
                        BY <2>1, <2>8, <3>2, <4>1 DEF JobId1
                  <4>3. notices[i].user < scan[w].user
                        BY <1>1, <2>1, <3>2, <4>2 DEF SentOK, Sent, On, Visiting
                  <4> QED BY <2>7, <2>8, <4>3
            <3>3. scan[w].alone \in BOOLEAN /\ scan[w].again \in BOOLEAN /\ notices[i].again \in BOOLEAN
                  BY <1>1, <2>5 DEF ScanRow, NoticeRow
            <3> QED BY <3>1, <3>2, <3>3
      <2>9. NotifiedOnce'
            <3>1. ASSUME NEW i \in DOMAIN notices, NEW j \in DOMAIN notices, i < j,
                         notices[i].user = notices[j].user, notices[i].kind = notices[j].kind
                  PROVE  IF notices[j].kind = "price-drop"
                         THEN notices[i].product = notices[j].product /\ notices[j].at - notices[i].at <= Day
                              => ~notices[j].alone
                         ELSE notices[i].job[2] = notices[j].job[2] => notices[i].again \/ notices[j].again
                  BY <1>1, <3>1 DEF NotifiedOnce
            <3>2. ASSUME NEW i \in DOMAIN notices', NEW j \in DOMAIN notices', i < j
                  PROVE  i \in DOMAIN notices /\ (j = n \/ j \in DOMAIN notices)
                  BY <2>4, <2>5, <3>2
            <3>3. SUFFICES ASSUME NEW i \in DOMAIN notices', NEW j \in DOMAIN notices', i < j,
                                  notices'[i].user = notices'[j].user, notices'[i].kind = notices'[j].kind
                           PROVE  IF notices'[j].kind = "price-drop"
                                  THEN notices'[i].product = notices'[j].product
                                       /\ notices'[j].at - notices'[i].at <= Day => ~notices'[j].alone
                                  ELSE notices'[i].job[2] = notices'[j].job[2]
                                       => notices'[i].again \/ notices'[j].again
                  BY DEF NotifiedOnce
            <3>4. i \in DOMAIN notices /\ notices'[i] = notices[i]
                  BY <2>2, <3>2, <3>3
            <3>5. CASE j = n
                  BY <2>3, <2>8, <3>3, <3>4, <3>5
            <3>6. CASE j \in DOMAIN notices
                  <4>1. notices'[j] = notices[j]
                        BY <2>2, <3>6
                  <4> QED BY <3>1, <3>3, <3>4, <3>6, <4>1
            <3> QED BY <3>2, <3>3, <3>5, <3>6
      <2>10. SentOK(w)'
            <3>1. SUFFICES ASSUME ~scan[w].again, scan[w].kind # "price-drop", NEW i \in DOMAIN notices',
                                  notices'[i].job = scan[w].id, ~notices'[i].again
                           PROVE  /\ notices'[i].user <= scan'[w].cursor
                                  /\ \A u \in scan'[w].batch : notices'[i].user < u
                                  /\ scan'[w].at \in Visiting => notices'[i].user < scan'[w].user
                  BY <2>2 DEF SentOK, Sent, Moved, SameScan
            <3>2. scan'[w].cursor = scan[w].cursor /\ scan'[w].batch = scan[w].batch /\ scan'[w].at \notin Visiting
                  BY <2>2, <3>1 DEF Next1, Visiting
            <3>3. CASE i = n
                  BY <2>1, <2>3, <3>2, <3>3
            <3>4. CASE i \in DOMAIN notices
                  <4>1. notices'[i] = notices[i]
                        BY <2>2, <3>4
                  <4> QED BY <1>1, <2>1, <3>1, <3>2, <3>4, <4>1 DEF SentOK, Sent, On
            <3> QED BY <2>4, <3>3, <3>4
      <2>11. DropOK(w)'
            BY <2>2 DEF DropOK, Next1
      <2>12. ASSUME NEW v \in Workers, v # w PROVE SentOK(v)' /\ DropOK(v)'
            <3>1. scan'[v] = scan[v]
                  BY <2>2, <2>12 DEF Moved
            <3>2. SentOK(v)'
                  <4>1. SUFFICES ASSUME scan[v].at # "idle", ~scan[v].again, scan[v].kind # "price-drop",
                                        NEW i \in DOMAIN notices', notices'[i].job = scan[v].id,
                                        ~notices'[i].again
                                 PROVE  /\ notices'[i].user <= scan[v].cursor
                                        /\ \A u \in scan[v].batch : notices'[i].user < u
                                        /\ scan[v].at \in Visiting => notices'[i].user < scan[v].user
                        BY <3>1 DEF SentOK, Sent, On
                  <4>2. i # n
                        BY <1>1, <2>1, <2>3, <2>12, <4>1 DEF FirstStarts, On
                  <4>3. i \in DOMAIN notices /\ notices'[i] = notices[i]
                        BY <2>2, <2>4, <4>2
                  <4> QED BY <1>1, <4>1, <4>3 DEF SentOK, Sent, On
            <3>3. DropOK(v)'
                  <4>1. SUFFICES ASSUME scan[v].at = "notify", scan[v].kind = "price-drop", scan[v].alone,
                                        NEW i \in DOMAIN notices', notices'[i].user = scan[v].user,
                                        notices'[i].product = scan[v].product, notices'[i].kind = "price-drop"
                                 PROVE  notices'[i].at < scan[v].start - Day
                        BY <3>1 DEF DropOK
                  <4>2. i # n
                        BY <1>1, <2>1, <2>3, <2>12, <4>1 DEF AloneOK, Busy
                  <4>3. i \in DOMAIN notices /\ notices'[i] = notices[i]
                        BY <2>2, <2>4, <4>2
                  <4> QED BY <1>1, <4>1, <4>3 DEF DropOK
            <3> QED BY <3>2, <3>3
      <2>13. AloneOK'
            BY <1>1, <2>2, AloneStays DEF Busy, Moved, SameScan
      <2> QED BY <1>2, <2>9, <2>10, <2>11, <2>12, <2>13 DEF NoticeInv
<1> QED BY <1>6, <1>7, <1>8, <1>9, <1>10, <1>11 DEF AlertNext, Request, Silent, Leaves

\* alerts.scheduler.ts and alert-scan.service.ts: two notifications of one price
\* drop within a day come from scans that ran at once, and two digests of one day
\* from a scan that was started over; for any number of replicas and workers.
THEOREM SentOnce == AlertSpec => []NotifiedOnce
<1> USE PlatformAssumption, AlertsAssumption
<1>1. AlertInit => NoticeInv
      <2> SUFFICES ASSUME AlertInit PROVE NoticeInv
          OBVIOUS
      <2>1. \A w \in Workers : scan[w].at = "idle"
            BY DEF AlertInit, NoScan
      <2>2. notices = <<>>
            BY DEF AlertInit
      <2> QED BY <2>1, <2>2, QueueStarts
              DEF NoticeInv, NotifiedOnce, AloneOK, Busy, SentOK, DropOK, On
<1>2. NoticeInv => NotifiedOnce
      BY DEF NoticeInv
<1> QED BY <1>1, <1>2, NoticeStep, PTL DEF AlertSpec

-----------------------------------------------------------------------------
Read == UNION {Extractions(text) : text \in Texts}
Parsed == Read \cup {Nothing}
ReceiptRow == [status : {"none", "UPLOADED", "PROCESSING", "COMPLETED", "FAILED"}, parsed : Parsed]
ReceiptJob ==
    [state : {"none", "waiting", "active", "ended"}, made : Nat, stalls : Nat,
     owner : Workers \cup {Nothing}]
Trying == {"mark", "extract", "complete", "submit", "give up", "throw", "end"}
WorkRow == [at : Trying \cup {"idle"}, on : Receipts \cup {Nothing}, parsed : Parsed]

ReceiptTypes ==
    /\ receipt \in [Receipts -> ReceiptRow]
    /\ submitted = [r \in Receipts |-> submitted[r]]
    /\ upload \in [Handlers -> Receipts \cup {Nothing}]
    /\ queued \in [Receipts -> ReceiptJob]
    /\ work \in [Workers -> WorkRow]
    /\ \A w \in Workers : work[w].at = "idle" <=> work[w].on = Nothing

\* A receipt has one upload, then one job.
UploadOK(r) ==
    /\ receipt[r].status = "none" => queued[r].state = "none" /\ \A h \in Handlers : upload[h] # r
    /\ \A h \in Handlers : upload[h] = r => queued[r].state = "none"
    /\ \A h, i \in Handlers : upload[h] = r /\ upload[i] = r => h = i

\* The worker on it owns the job, and knows what became of the row.
WorkOK(w, r) ==
    /\ queued[r].owner = w /\ queued[r].state = "active"
    /\ work[w].at # "end" => submitted[r] = <<>>
    /\ work[w].at \in {"submit", "end"} =>
          receipt[r].status = "COMPLETED" /\ receipt[r].parsed = work[w].parsed
    /\ work[w].at = "end" =>
          submitted[r] = IF Worthwhile(work[w].parsed) THEN <<Rows(work[w].parsed)>> ELSE <<>>
    /\ work[w].at = "throw" => ~IsFinal(r) \/ receipt[r].status = "FAILED"

Settled(r) ==
    \/ /\ receipt[r].status = "COMPLETED"
       /\ submitted[r] = IF Worthwhile(receipt[r].parsed) THEN <<Rows(receipt[r].parsed)>> ELSE <<>>
    \/ receipt[r].status = "FAILED" /\ submitted[r] = <<>>

ReceiptOK(r) ==
    /\ UploadOK(r)
    /\ \A w \in Workers : work[w].on = r => WorkOK(w, r)
    /\ queued[r].state \in {"none", "waiting"} => submitted[r] = <<>>
    /\ queued[r].state = "ended" => Settled(r)

ReceiptInv == ReceiptTypes /\ \A r \in Receipts \ hurt : ReceiptOK(r)

LEMMA NothingParsed == Nothing \in Parsed
BY DEF Parsed

\* Steps of a worker.
LEMMA WorkMoves ==
    ASSUME ReceiptTypes, NEW w \in Workers, NEW v \in WorkRow, work' = [work EXCEPT ![w] = v]
    PROVE  /\ work' \in [Workers -> WorkRow]
           /\ work'[w] = v
           /\ \A x \in Workers \ {w} : work'[x] = work[x]
BY DEF ReceiptTypes

LEMMA WorkGoesOn ==
    ASSUME ReceiptTypes, NEW w \in Workers, NEW at \in Trying, Step(w, at)
    PROVE  /\ work' \in [Workers -> WorkRow]
           /\ work'[w].at = at /\ work'[w].on = work[w].on /\ work'[w].parsed = work[w].parsed
           /\ \A x \in Workers \ {w} : work'[x] = work[x]
<1> DEFINE v == [work[w] EXCEPT !.at = at]
<1>1. work[w] \in WorkRow
      BY DEF ReceiptTypes
<1>2. /\ v \in WorkRow /\ v.at = at /\ v.on = work[w].on /\ v.parsed = work[w].parsed
      BY <1>1 DEF WorkRow
<1>3. work' = [work EXCEPT ![w] = v]
      BY DEF Step
<1> HIDE DEF v
<1> QED BY <1>2, <1>3, WorkMoves

LEMMA WorkLeaves ==
    ASSUME ReceiptTypes, NEW w \in Workers, Leave(w)
    PROVE  /\ work' \in [Workers -> WorkRow]
           /\ work'[w].at = "idle" /\ work'[w].on = Nothing
           /\ \A x \in Workers \ {w} : work'[x] = work[x]
<1>1. Off \in WorkRow /\ Off.at = "idle" /\ Off.on = Nothing
      BY NothingParsed DEF Off, WorkRow
<1> QED BY <1>1, WorkMoves DEF Leave

\* A row, a job and a set of lines written.
LEMMA RowIs ==
    ASSUME ReceiptTypes, NEW r \in Receipts, NEW row \in ReceiptRow, receipt' = [receipt EXCEPT ![r] = row]
    PROVE  /\ receipt' \in [Receipts -> ReceiptRow] /\ receipt'[r] = row
           /\ \A q \in Receipts \ {r} : receipt'[q] = receipt[q]
BY DEF ReceiptTypes

LEMMA JobIs ==
    ASSUME ReceiptTypes, NEW r \in Receipts, NEW j \in ReceiptJob, queued' = [queued EXCEPT ![r] = j]
    PROVE  /\ queued' \in [Receipts -> ReceiptJob] /\ queued'[r] = j
           /\ \A q \in Receipts \ {r} : queued'[q] = queued[q]
BY DEF ReceiptTypes

LEMMA StatusIs ==
    ASSUME ReceiptTypes, NEW r \in Receipts,
           NEW s \in {"UPLOADED", "PROCESSING", "FAILED"}, receipt' = [receipt EXCEPT ![r].status = s]
    PROVE  /\ receipt' \in [Receipts -> ReceiptRow]
           /\ receipt'[r].status = s
           /\ \A q \in Receipts \ {r} : receipt'[q] = receipt[q]
<1> DEFINE row == [receipt[r] EXCEPT !.status = s]
<1>1. row \in ReceiptRow /\ row.status = s
      BY DEF ReceiptTypes, ReceiptRow
<1>2. receipt' = [receipt EXCEPT ![r] = row]
      OBVIOUS
<1> HIDE DEF row
<1> QED BY <1>1, <1>2, RowIs

LEMMA ReceiptStarts == ReceiptInit => ReceiptInv
<1> SUFFICES ASSUME ReceiptInit PROVE ReceiptInv
    OBVIOUS
<1>1. /\ NoRow \in ReceiptRow /\ NoRow.status = "none"
      /\ NoJob \in ReceiptJob /\ NoJob.state = "none"
      /\ Off \in WorkRow /\ Off.at = "idle" /\ Off.on = Nothing
      BY NothingParsed DEF NoRow, NoJob, Off, ReceiptRow, ReceiptJob, WorkRow
<1>2. /\ \A r \in Receipts : receipt[r] = NoRow /\ queued[r] = NoJob /\ submitted[r] = <<>>
      /\ \A w \in Workers : work[w] = Off
      /\ \A h \in Handlers : upload[h] = Nothing
      BY DEF ReceiptInit
<1>3. ReceiptTypes
      BY <1>1, <1>2 DEF ReceiptInit, ReceiptTypes
<1> QED BY <1>1, <1>2, <1>3, ReceiptsAssumption DEF ReceiptInv, ReceiptOK, UploadOK

\* What a step does not touch stays in order.
LEMMA Untouched ==
    ASSUME ReceiptInv, NEW r \in Receipts \ hurt,
           receipt'[r] = receipt[r], submitted'[r] = submitted[r], queued'[r] = queued[r],
           \A h \in Handlers : upload'[h] = r => upload[h] = r,
           \A w \in Workers : work'[w].on = r => work'[w] = work[w]
    PROVE  ReceiptOK(r)'
BY DEF ReceiptInv, ReceiptOK, UploadOK, WorkOK, Settled, IsFinal

LEMMA ReceiptStep == ReceiptInv /\ [ReceiptNext]_receiptVars => ReceiptInv'
<1> USE ReceiptsAssumption, PlatformAssumption
<1> SUFFICES ASSUME ReceiptInv, [ReceiptNext]_receiptVars PROVE ReceiptInv'
    OBVIOUS
<1>0. /\ ReceiptTypes /\ \A r \in Receipts \ hurt : ReceiptOK(r)
      /\ \A r \in Receipts : receipt[r] \in ReceiptRow /\ queued[r] \in ReceiptJob
      /\ \A w \in Workers : work[w] \in WorkRow /\ (work[w].at # "idle" => work[w].on \in Receipts)
      BY DEF ReceiptInv, ReceiptTypes, WorkRow
<1>1. ASSUME NEW h \in Handlers, NEW r \in Receipts, CreateReceipt(h, r)
      PROVE  ReceiptInv'
      <2>1. /\ receipt[r].status = "none" /\ upload[h] = Nothing
            /\ receipt' = [receipt EXCEPT ![r].status = "UPLOADED"]
            /\ upload' = [upload EXCEPT ![h] = r] /\ UNCHANGED <<submitted, queued, work, hurt>>
            BY <1>1 DEF CreateReceipt
      <2>2. /\ receipt' \in [Receipts -> ReceiptRow] /\ receipt'[r].status = "UPLOADED"
            /\ \A q \in Receipts \ {r} : receipt'[q] = receipt[q]
            BY <1>0, <2>1, StatusIs
      <2>3. /\ upload' \in [Handlers -> Receipts \cup {Nothing}] /\ upload'[h] = r
            /\ \A i \in Handlers \ {h} : upload'[i] = upload[i]
            BY <1>0, <2>1 DEF ReceiptTypes
      <2>4. ReceiptTypes'
            BY <1>0, <2>1, <2>2, <2>3 DEF ReceiptTypes
      <2>5. ASSUME NEW q \in Receipts \ hurt, q # r PROVE ReceiptOK(q)'
            BY <2>1, <2>2, <2>3, <2>5, Untouched
      <2>6. ASSUME r \notin hurt PROVE ReceiptOK(r)'
            <3>1. /\ ReceiptOK(r) /\ queued[r].state = "none" /\ submitted[r] = <<>>
                  /\ \A i \in Handlers : upload[i] # r
                  BY <1>0, <2>1, <2>6 DEF ReceiptOK, UploadOK
            <3>2. \A w \in Workers : work[w].on # r
                  BY <3>1 DEF ReceiptOK, WorkOK
            <3> QED BY <2>1, <2>2, <2>3, <3>1, <3>2 DEF ReceiptOK, UploadOK
      <2> QED BY <2>1, <2>4, <2>5, <2>6 DEF ReceiptInv
<1>2. ASSUME NEW h \in Handlers, AddReceiptJob(h) PROVE ReceiptInv'
      <2> DEFINE j == [NoJob EXCEPT !.state = "waiting"]
      <2>0. PICK r \in Receipts : r = upload[h]
            BY <1>0, <1>2 DEF AddReceiptJob, ReceiptTypes
      <2>1. /\ queued' = [queued EXCEPT ![r] = j]
            /\ upload' = [upload EXCEPT ![h] = Nothing] /\ UNCHANGED <<receipt, submitted, work, hurt>>
            BY <1>2, <2>0 DEF AddReceiptJob
      <2>2. j \in ReceiptJob /\ j.state = "waiting"
            BY DEF NoJob, ReceiptJob
      <2>3. /\ upload' \in [Handlers -> Receipts \cup {Nothing}] /\ upload'[h] = Nothing
            /\ \A i \in Handlers \ {h} : upload'[i] = upload[i]
            BY <1>0, <2>1 DEF ReceiptTypes
      <2> HIDE DEF j
      <2>5. /\ queued' \in [Receipts -> ReceiptJob] /\ queued'[r] = j
            /\ \A q \in Receipts \ {r} : queued'[q] = queued[q]
            BY <1>0, <2>1, <2>2, JobIs
      <2>6. ReceiptTypes'
            BY <1>0, <2>1, <2>3, <2>5 DEF ReceiptTypes
      <2>7. ASSUME NEW q \in Receipts \ hurt, q # r PROVE ReceiptOK(q)'
            BY <2>1, <2>3, <2>5, <2>7, Untouched
      <2>8. ASSUME r \notin hurt PROVE ReceiptOK(r)'
            <3>1. /\ ReceiptOK(r) /\ queued[r].state = "none" /\ submitted[r] = <<>>
                  /\ receipt[r].status # "none" /\ \A i \in Handlers \ {h} : upload[i] # r
                  BY <1>0, <2>0, <2>1, <2>8 DEF ReceiptOK, UploadOK
            <3>2. \A w \in Workers : work[w].on # r
                  BY <3>1 DEF ReceiptOK, WorkOK
            <3>3. \A i \in Handlers : upload'[i] # r
                  BY <2>1, <2>3, <3>1
            <3>4. /\ queued'[r].state = "waiting" /\ submitted' = submitted
                  /\ receipt' = receipt /\ work' = work
                  BY <2>1, <2>2, <2>5
            <3> QED BY <3>1, <3>2, <3>3, <3>4 DEF ReceiptOK, UploadOK
      <2> QED BY <2>1, <2>6, <2>7, <2>8 DEF ReceiptInv
<1>3. ASSUME NEW h \in Handlers, UploadFails(h) PROVE ReceiptInv'
      <2>1. /\ upload' = [upload EXCEPT ![h] = Nothing] /\ hurt' = hurt \cup {upload[h]}
            /\ UNCHANGED <<receipt, submitted, queued, work>>
            BY <1>3 DEF UploadFails
      <2>2. ReceiptTypes'
            BY <1>0, <2>1 DEF ReceiptTypes
      <2>3. ASSUME NEW q \in Receipts \ hurt' PROVE ReceiptOK(q)'
            BY <1>0, <2>1, <2>3, Untouched DEF ReceiptTypes
      <2> QED BY <2>2, <2>3 DEF ReceiptInv
<1>4. ASSUME NEW w \in Workers, NEW r \in Receipts, StartReceipt(w, r) PROVE ReceiptInv'
      <2> DEFINE v == [at |-> "mark", on |-> r, parsed |-> Nothing]
                 j == [queued[r] EXCEPT !.state = "active", !.owner = w]
      <2>1. /\ work[w].at = "idle" /\ queued[r].state = "waiting"
            /\ queued' = [queued EXCEPT ![r] = j]
            /\ work' = [work EXCEPT ![w] = v] /\ UNCHANGED <<receipt, submitted, upload, hurt>>
            BY <1>4 DEF StartReceipt
      <2>2. v \in WorkRow /\ v.at = "mark" /\ v.on = r
            BY NothingParsed DEF WorkRow, Trying
      <2>3. j \in ReceiptJob /\ j.state = "active" /\ j.owner = w
            BY <1>0 DEF ReceiptJob
      <2> HIDE DEF v, j
      <2>4. /\ queued' \in [Receipts -> ReceiptJob] /\ queued'[r] = j
            /\ \A q \in Receipts \ {r} : queued'[q] = queued[q]
            BY <1>0, <2>1, <2>3, JobIs
      <2>5. /\ work' \in [Workers -> WorkRow] /\ work'[w] = v
            /\ \A x \in Workers \ {w} : work'[x] = work[x]
            BY <1>0, <2>1, <2>2, WorkMoves
      <2>6. ReceiptTypes'
            BY <1>0, <2>1, <2>2, <2>4, <2>5 DEF ReceiptTypes
      <2>7. ASSUME NEW q \in Receipts \ hurt, q # r PROVE ReceiptOK(q)'
            BY <2>1, <2>2, <2>4, <2>5, <2>7, Untouched
      <2>8. ASSUME r \notin hurt PROVE ReceiptOK(r)'
            <3>1. /\ ReceiptOK(r) /\ submitted[r] = <<>> /\ receipt[r].status # "none"
                  /\ \A i \in Handlers : upload[i] # r
                  BY <1>0, <2>1, <2>8 DEF ReceiptOK, UploadOK
            <3>2. \A x \in Workers : work[x].on # r
                  BY <2>1, <3>1 DEF ReceiptOK, WorkOK
            <3>3. \A x \in Workers : work'[x].on = r => x = w
                  BY <2>5, <3>2
            <3>4. WorkOK(w, r)'
                  BY <2>1, <2>2, <2>3, <2>4, <2>5, <3>1 DEF WorkOK
            <3> QED BY <2>1, <2>3, <2>4, <3>1, <3>3, <3>4 DEF ReceiptOK, UploadOK
      <2> QED BY <2>1, <2>6, <2>7, <2>8 DEF ReceiptInv
\* A worker that goes on with its receipt and leaves the job alone.
<1>w. ASSUME NEW w \in Workers, NEW r \in Receipts, work[w].on = r, UNCHANGED <<upload, queued>>,
             ReceiptTypes', hurt \subseteq hurt', work'[w].on = r,
             \A x \in Workers \ {w} : work'[x] = work[x],
             \A q \in Receipts \ {r} : receipt'[q] = receipt[q] /\ submitted'[q] = submitted[q],
             r \notin hurt' => receipt'[r].status # "none" /\ WorkOK(w, r)'
      PROVE  ReceiptInv'
      <2>1. ASSUME NEW q \in Receipts \ hurt', q # r PROVE ReceiptOK(q)'
            <3>1. \A x \in Workers : work'[x].on = q => work'[x] = work[x]
                  BY <1>w, <2>1
            <3> QED BY <1>w, <2>1, <3>1, Untouched
      <2>2. ASSUME r \notin hurt' PROVE ReceiptOK(r)'
            <3>1. /\ ReceiptOK(r) /\ WorkOK(w, r)
                  BY <1>0, <1>w, <2>2 DEF ReceiptOK
            <3>2. \A x \in Workers : work'[x].on = r => x = w
                  BY <1>w, <3>1 DEF ReceiptOK, WorkOK
            <3> QED BY <1>w, <2>2, <3>1, <3>2 DEF ReceiptOK, UploadOK, WorkOK
      <2> QED BY <1>w, <2>1, <2>2 DEF ReceiptInv
<1>5. ASSUME NEW w \in Workers, MarkProcessing(w) PROVE ReceiptInv'
      <2>0. PICK r \in Receipts : r = work[w].on
            BY <1>0, <1>5 DEF MarkProcessing
      <2>1. /\ work[w].at = "mark"
            /\ receipt' = [receipt EXCEPT ![r].status = "PROCESSING"]
            /\ Step(w, "extract") /\ UNCHANGED <<submitted, upload, queued, hurt>>
            BY <1>5, <2>0 DEF MarkProcessing
      <2>2. /\ work' \in [Workers -> WorkRow]
            /\ work'[w].at = "extract" /\ work'[w].on = r
            /\ \A x \in Workers \ {w} : work'[x] = work[x]
            BY <1>0, <2>0, <2>1, WorkGoesOn DEF Trying
      <2>3. /\ receipt' \in [Receipts -> ReceiptRow] /\ receipt'[r].status = "PROCESSING"
            /\ \A q \in Receipts \ {r} : receipt'[q] = receipt[q]
            BY <1>0, <2>1, StatusIs
      <2>4. ReceiptTypes'
            BY <1>0, <2>0, <2>1, <2>2, <2>3 DEF ReceiptTypes
      <2>5. r \notin hurt => WorkOK(w, r)'
            BY <1>0, <2>0, <2>1, <2>2, <2>3 DEF ReceiptOK, WorkOK
      <2> QED BY <1>w, <2>0, <2>1, <2>2, <2>3, <2>4, <2>5
<1>6. ASSUME NEW w \in Workers, Extract(w) PROVE ReceiptInv'
      <2>0. PICK r \in Receipts : r = work[w].on
            BY <1>0, <1>6 DEF Extract
      <2>1. PICK parsed \in Parsed : work' = [work EXCEPT ![w] = [@ EXCEPT !.at = "complete", !.parsed = parsed]]
            BY <1>6 DEF Extract, Parsed, Read
      <2> DEFINE v == [work[w] EXCEPT !.at = "complete", !.parsed = parsed]
      <2>2. work[w].at = "extract" /\ UNCHANGED <<receipt, submitted, upload, queued, hurt>>
            BY <1>6 DEF Extract
      <2>3. v \in WorkRow /\ v.at = "complete" /\ v.on = r
            BY <1>0, <2>0 DEF WorkRow, Trying
      <2>4. work' = [work EXCEPT ![w] = v]
            BY <2>1
      <2> HIDE DEF v
      <2>5. /\ work' \in [Workers -> WorkRow] /\ work'[w] = v
            /\ \A x \in Workers \ {w} : work'[x] = work[x]
            BY <1>0, <2>3, <2>4, WorkMoves
      <2>6. ReceiptTypes'
            BY <1>0, <2>0, <2>2, <2>3, <2>5 DEF ReceiptTypes
      <2>7. r \notin hurt => WorkOK(w, r)' /\ receipt[r].status # "none"
            BY <1>0, <2>0, <2>2, <2>3, <2>5 DEF ReceiptOK, UploadOK, WorkOK
      <2> QED BY <1>w, <2>0, <2>2, <2>3, <2>5, <2>6, <2>7
<1>7. ASSUME NEW w \in Workers, Complete(w) PROVE ReceiptInv'
      <2>0. PICK r \in Receipts : r = work[w].on
            BY <1>0, <1>7 DEF Complete
      <2> DEFINE row == [status |-> "COMPLETED", parsed |-> work[w].parsed]
      <2>1. /\ work[w].at = "complete" /\ receipt' = [receipt EXCEPT ![r] = row]
            /\ Step(w, "submit") /\ UNCHANGED <<submitted, upload, queued, hurt>>
            BY <1>7, <2>0 DEF Complete
      <2>2. row \in ReceiptRow /\ row.status = "COMPLETED" /\ row.parsed = work[w].parsed
            BY <1>0 DEF ReceiptRow, WorkRow
      <2> HIDE DEF row
      <2>3. /\ work' \in [Workers -> WorkRow]
            /\ work'[w].at = "submit" /\ work'[w].on = r /\ work'[w].parsed = work[w].parsed
            /\ \A x \in Workers \ {w} : work'[x] = work[x]
            BY <1>0, <2>0, <2>1, WorkGoesOn DEF Trying
      <2>4. /\ receipt' \in [Receipts -> ReceiptRow] /\ receipt'[r] = row
            /\ \A q \in Receipts \ {r} : receipt'[q] = receipt[q]
            BY <1>0, <2>1, <2>2, RowIs
      <2>5. ReceiptTypes'
            BY <1>0, <2>0, <2>1, <2>3, <2>4 DEF ReceiptTypes
      <2>6. ASSUME r \notin hurt PROVE WorkOK(w, r)'
            <3>1. WorkOK(w, r)
                  BY <1>0, <2>0, <2>6 DEF ReceiptOK
            <3>2. /\ queued'[r].owner = w /\ queued'[r].state = "active" /\ submitted'[r] = <<>>
                  /\ receipt'[r].status = "COMPLETED" /\ receipt'[r].parsed = work'[w].parsed
                  BY <2>1, <2>2, <2>3, <2>4, <3>1 DEF WorkOK
            <3> QED BY <2>3, <3>2 DEF WorkOK
      <2> QED BY <1>w, <2>0, <2>1, <2>2, <2>3, <2>4, <2>5, <2>6
<1>8. ASSUME NEW w \in Workers, Submit(w) PROVE ReceiptInv'
      <2>0. PICK r \in Receipts : r = work[w].on
            BY <1>0, <1>8 DEF Submit
      <2> DEFINE lines == IF Worthwhile(work[w].parsed) THEN Append(submitted[r], Rows(work[w].parsed))
                          ELSE submitted[r]
      <2>1. /\ work[w].at = "submit" /\ submitted' = [submitted EXCEPT ![r] = lines]
            /\ Step(w, "end") /\ UNCHANGED <<receipt, upload, queued, hurt>>
            BY <1>0, <1>8, <2>0 DEF Submit, ReceiptTypes
      <2>2. submitted[r] = <<>> =>
               lines = IF Worthwhile(work[w].parsed) THEN <<Rows(work[w].parsed)>> ELSE <<>>
            OBVIOUS
      <2> HIDE DEF lines
      <2>3. /\ work' \in [Workers -> WorkRow]
            /\ work'[w].at = "end" /\ work'[w].on = r /\ work'[w].parsed = work[w].parsed
            /\ \A x \in Workers \ {w} : work'[x] = work[x]
            BY <1>0, <2>0, <2>1, WorkGoesOn DEF Trying
      <2>4. /\ submitted' = [q \in Receipts |-> submitted'[q]] /\ submitted'[r] = lines
            /\ \A q \in Receipts \ {r} : submitted'[q] = submitted[q]
            BY <1>0, <2>1 DEF ReceiptTypes
      <2>5. ReceiptTypes'
            BY <1>0, <2>0, <2>1, <2>3, <2>4 DEF ReceiptTypes
      <2>6. r \notin hurt => WorkOK(w, r)' /\ receipt[r].status # "none"
            BY <1>0, <2>0, <2>1, <2>2, <2>3, <2>4 DEF ReceiptOK, UploadOK, WorkOK
      <2> QED BY <1>w, <2>0, <2>1, <2>3, <2>4, <2>5, <2>6
<1>9. ASSUME NEW w \in Workers, ProcessFails(w) PROVE ReceiptInv'
      <2>0. PICK r \in Receipts : r = work[w].on
            BY <1>0, <1>9 DEF ProcessFails
      <2>1. PICK at \in {"give up", "throw"} :
                /\ work[w].at \in {"mark", "extract", "complete", "submit"}
                /\ at = "throw" => ~IsFinal(r)
                /\ Step(w, at) /\ UNCHANGED <<receipt, submitted, upload, queued, hurt>>
            BY <1>9, <2>0 DEF ProcessFails
      <2>3. /\ work' \in [Workers -> WorkRow]
            /\ work'[w].at = at /\ work'[w].on = r
            /\ \A x \in Workers \ {w} : work'[x] = work[x]
            BY <1>0, <2>0, <2>1, WorkGoesOn DEF Trying
      <2>5. ReceiptTypes'
            BY <1>0, <2>0, <2>1, <2>3 DEF ReceiptTypes
      <2>6. r \notin hurt => WorkOK(w, r)' /\ receipt[r].status # "none"
            BY <1>0, <2>0, <2>1, <2>3 DEF ReceiptOK, UploadOK, WorkOK, IsFinal
      <2> QED BY <1>w, <2>0, <2>1, <2>3, <2>5, <2>6
<1>10. ASSUME NEW w \in Workers, MarkFailed(w) PROVE ReceiptInv'
      <2>0. PICK r \in Receipts : r = work[w].on
            BY <1>0, <1>10 DEF MarkFailed
      <2>1. /\ work[w].at = "give up"
            /\ receipt' = [receipt EXCEPT ![r].status = "FAILED"]
            /\ Step(w, "throw") /\ UNCHANGED <<submitted, upload, queued, hurt>>
            BY <1>10, <2>0 DEF MarkFailed
      <2>2. /\ work' \in [Workers -> WorkRow]
            /\ work'[w].at = "throw" /\ work'[w].on = r
            /\ \A x \in Workers \ {w} : work'[x] = work[x]
            BY <1>0, <2>0, <2>1, WorkGoesOn DEF Trying
      <2>3. /\ receipt' \in [Receipts -> ReceiptRow] /\ receipt'[r].status = "FAILED"
            /\ \A q \in Receipts \ {r} : receipt'[q] = receipt[q]
            BY <1>0, <2>1, StatusIs
      <2>4. ReceiptTypes'
            <3>1. \A x \in Workers : work'[x].at = "idle" <=> work'[x].on = Nothing
                  BY <1>0, <2>0, <2>1, <2>2 DEF ReceiptTypes
            <3> QED BY <1>0, <2>1, <2>2, <2>3, <3>1 DEF ReceiptTypes
      <2>5. r \notin hurt => WorkOK(w, r)'
            BY <1>0, <2>0, <2>1, <2>2, <2>3 DEF ReceiptOK, WorkOK
      <2> QED BY <1>w, <2>0, <2>1, <2>2, <2>3, <2>4, <2>5
<1>11. ASSUME NEW w \in Workers, MarkFailedFails(w) PROVE ReceiptInv'
      <2>0. PICK r \in Receipts : r = work[w].on
            BY <1>0, <1>11 DEF MarkFailedFails
      <2>1. /\ hurt' = hurt \cup {r} /\ work[w].at = "give up"
            /\ Step(w, "throw") /\ UNCHANGED <<receipt, submitted, upload, queued>>
            BY <1>11, <2>0 DEF MarkFailedFails
      <2>3. /\ work' \in [Workers -> WorkRow]
            /\ work'[w].at = "throw" /\ work'[w].on = r
            /\ \A x \in Workers \ {w} : work'[x] = work[x]
            BY <1>0, <2>0, <2>1, WorkGoesOn DEF Trying
      <2>5. ReceiptTypes'
            BY <1>0, <2>0, <2>1, <2>3 DEF ReceiptTypes
      <2> QED BY <1>w, <2>0, <2>1, <2>3, <2>5
<1>12. ASSUME NEW w \in Workers, Outcome(w) PROVE ReceiptInv'
      <2>0. PICK r \in Receipts : r = work[w].on
            BY <1>0, <1>12 DEF Outcome
      <2> DEFINE again == work[w].at = "throw" /\ queued[r].made + 1 < Attempts
                 state == IF again THEN "waiting" ELSE "ended"
                 made == IF again THEN queued[r].made + 1 ELSE queued[r].made
                 k == [queued[r] EXCEPT !.state = state, !.made = made, !.owner = Nothing]
                 j == IF queued[r].owner = w THEN k ELSE queued[r]
      <2>a. /\ work[w].at \in {"end", "throw"}
            /\ queued' = IF queued[r].owner # w THEN queued ELSE [queued EXCEPT ![r] = k]
            /\ Leave(w) /\ UNCHANGED <<receipt, submitted, upload, hurt>>
            BY <1>12, <2>0 DEF Outcome
      <2>2. k \in ReceiptJob /\ k.state = state
            <3>1. queued[r] \in ReceiptJob /\ state \in {"waiting", "ended"} /\ made \in Nat
                  BY <1>0 DEF ReceiptJob
            <3> HIDE DEF state, made, again
            <3> QED BY <3>1 DEF ReceiptJob
      <2>3. queued[r].owner = w => j.state = IF again THEN "waiting" ELSE "ended"
            BY <2>2
      <2>b. queued = [queued EXCEPT ![r] = queued[r]]
            BY <1>0 DEF ReceiptTypes
      <2>1. /\ work[w].at \in {"end", "throw"} /\ queued' = [queued EXCEPT ![r] = j]
            /\ Leave(w) /\ UNCHANGED <<receipt, submitted, upload, hurt>>
            <3> HIDE DEF k
            <3> QED BY <2>a, <2>b
      <2>4. j \in ReceiptJob
            BY <1>0, <2>2
      <2>5. ~again => work[w].at = "end" \/ IsFinal(r)
            BY <1>0, <2>1 DEF IsFinal, ReceiptJob
      <2>6. again => work[w].at = "throw"
            OBVIOUS
      <2> HIDE DEF j, k, again
      <2>7. /\ queued' \in [Receipts -> ReceiptJob] /\ queued'[r] = j
            /\ \A q \in Receipts \ {r} : queued'[q] = queued[q]
            BY <1>0, <2>1, <2>4, JobIs
      <2>8. /\ work' \in [Workers -> WorkRow]
            /\ work'[w].at = "idle" /\ work'[w].on = Nothing
            /\ \A x \in Workers \ {w} : work'[x] = work[x]
            BY <1>0, <2>1, WorkLeaves
      <2>9. ReceiptTypes'
            BY <1>0, <2>1, <2>7, <2>8 DEF ReceiptTypes
      <2>10. ASSUME NEW q \in Receipts \ hurt, q # r PROVE ReceiptOK(q)'
            <3>1. \A x \in Workers : work'[x].on = q => work'[x] = work[x]
                  BY <2>8
            <3> QED BY <2>1, <2>7, <2>10, <3>1, Untouched
      <2>11. ASSUME r \notin hurt PROVE ReceiptOK(r)'
            <3>a. ReceiptOK(r) /\ WorkOK(w, r)
                  BY <1>0, <2>0, <2>11 DEF ReceiptOK
            <3>1. /\ UploadOK(r) /\ WorkOK(w, r) /\ receipt[r].status # "none"
                  /\ \A h \in Handlers : upload[h] # r
                  /\ \A x \in Workers : work[x].on = r => x = w
                  BY <3>a DEF ReceiptOK, UploadOK, WorkOK
            <3>2. \A x \in Workers : work'[x].on # r
                  BY <2>8, <3>1
            <3>3. again => submitted[r] = <<>>
                  BY <2>6, <3>1 DEF WorkOK
            <3>4. ~again => Settled(r)
                  BY <2>1, <2>5, <3>1 DEF WorkOK, Settled
            <3>5. queued'[r].state = IF again THEN "waiting" ELSE "ended"
                  BY <2>3, <2>7, <3>1 DEF WorkOK
            <3>6. UNCHANGED <<receipt, submitted, upload>>
                  BY <2>1
            <3> QED BY <3>1, <3>2, <3>3, <3>4, <3>5, <3>6 DEF ReceiptOK, UploadOK, Settled
      <2> QED BY <2>1, <2>9, <2>10, <2>11 DEF ReceiptInv
<1>13. ASSUME NEW w \in Workers, NEW dead \in BOOLEAN, LockLost(w, dead) PROVE ReceiptInv'
      <2>0. PICK r \in Receipts : r = work[w].on
            BY <1>0, <1>13 DEF LockLost
      <2> DEFINE state == IF queued[r].state = "active" /\ queued[r].stalls < ReceiptStalls
                          THEN "waiting" ELSE "ended"
                 stalls == IF queued[r].stalls < ReceiptStalls THEN queued[r].stalls + 1
                           ELSE queued[r].stalls
                 k == [queued[r] EXCEPT !.state = state, !.stalls = stalls, !.owner = Nothing]
                 j == IF queued[r].owner = w THEN k ELSE queued[r]
      <2>a. /\ queued' = IF queued[r].owner # w THEN queued ELSE [queued EXCEPT ![r] = k]
            /\ hurt' = hurt \cup {r}
            /\ Leave(w) \/ UNCHANGED work
            /\ UNCHANGED <<receipt, submitted, upload>>
            BY <1>13, <2>0 DEF LockLost
      <2>b. queued = [queued EXCEPT ![r] = queued[r]]
            BY <1>0 DEF ReceiptTypes
      <2>1. /\ queued' = [queued EXCEPT ![r] = j] /\ hurt' = hurt \cup {r}
            /\ Leave(w) \/ UNCHANGED work
            /\ UNCHANGED <<receipt, submitted, upload>>
            <3> HIDE DEF k
            <3> QED BY <2>a, <2>b
      <2>2. k \in ReceiptJob
            <3>1. queued[r] \in ReceiptJob /\ state \in {"waiting", "ended"} /\ stalls \in Nat
                  BY <1>0 DEF ReceiptJob
            <3> HIDE DEF state, stalls
            <3> QED BY <3>1 DEF ReceiptJob
      <2>3. j \in ReceiptJob
            BY <1>0, <2>2
      <2> HIDE DEF j, k
      <2>4. /\ queued' \in [Receipts -> ReceiptJob] /\ queued'[r] = j
            /\ \A q \in Receipts \ {r} : queued'[q] = queued[q]
            BY <1>0, <2>1, <2>3, JobIs
      <2>5. /\ work' \in [Workers -> WorkRow]
            /\ \A x \in Workers : work'[x].at = "idle" <=> work'[x].on = Nothing
            /\ work'[w].on \in {r, Nothing}
            /\ \A x \in Workers \ {w} : work'[x] = work[x]
            <3>1. CASE Leave(w)
                  BY <1>0, <3>1, WorkLeaves DEF ReceiptTypes
            <3>2. CASE UNCHANGED work
                  BY <1>0, <2>0, <3>2 DEF ReceiptTypes
            <3> QED BY <2>1, <3>1, <3>2
      <2>6. ReceiptTypes'
            BY <1>0, <2>1, <2>4, <2>5 DEF ReceiptTypes
      <2>7. ASSUME NEW q \in Receipts \ hurt' PROVE ReceiptOK(q)'
            <3>1. q # r /\ q \notin hurt
                  BY <2>1
            <3>2. \A x \in Workers : work'[x].on = q => work'[x] = work[x]
                  BY <2>5, <3>1
            <3> QED BY <2>1, <2>4, <3>1, <3>2, Untouched
      <2> QED BY <2>6, <2>7 DEF ReceiptInv
<1>14. CASE UNCHANGED receiptVars
      <2>1. UNCHANGED <<receipt, submitted, upload, queued, work, hurt>>
            BY <1>14 DEF receiptVars
      <2>2. ReceiptTypes'
            BY <1>0, <2>1 DEF ReceiptTypes
      <2>3. ASSUME NEW q \in Receipts \ hurt' PROVE ReceiptOK(q)'
            BY <2>1, Untouched
      <2> QED BY <2>2, <2>3 DEF ReceiptInv
<1> QED
    BY <1>1, <1>2, <1>3, <1>4, <1>5, <1>6, <1>7, <1>8, <1>9, <1>10, <1>11, <1>12, <1>13, <1>14
    DEF ReceiptNext

\* receipts.processor.ts: unless its upload or a worker broke off, the attempts of
\* a receipt's job end with its lines submitted once and the row COMPLETED, or
\* none and FAILED; for any number of attempts.
THEOREM LinesOnce == ReceiptSpec => []LinesCountOnce
<1>1. ReceiptInv => LinesCountOnce
      BY DEF ReceiptInv, ReceiptOK, Settled, Worthwhile, LinesCountOnce
<1> QED BY <1>1, ReceiptStarts, ReceiptStep, PTL DEF ReceiptSpec

-----------------------------------------------------------------------------
\* The catalogue's types, and what a step of an import or an approval does.

\* The rows of files and approvals, and their prices.
FileRow == UNION {{FileRows[r][i] : i \in DOMAIN FileRows[r]} : r \in Imports}
CatalogueRow == FileRow \cup Approvals
Cost == {row.price : row \in CatalogueRow}

RowSteps == {"find", "write", "record", "index", "ask"}
TaskRow ==
    [at : {"idle", "enqueue", "read", "finish"} \cup RowSteps, run : Imports \cup {Nothing},
     rows : Seq(CatalogueRow), found : Products \cup {Nothing}, ask : BOOLEAN, ok : Nat, bad : Nat]
RunRow ==
    [status : {"none", "PENDING", "RUNNING", "COMPLETED", "PARTIAL", "FAILED"},
     total : Nat, ok : Nat, bad : Nat]

CatalogueTypes ==
    /\ product = [p \in Products |-> product[p]]
    /\ prices \in [Products -> Seq(Cost)]
    /\ doc = [p \in Products |-> doc[p]]
    /\ matches = [p \in Products |-> matches[p]]
    /\ embedding = [p \in Products |-> embedding[p]]
    /\ importRun \in [Imports -> RunRow]
    /\ task \in [Importers -> TaskRow]
    /\ search \in [available : BOOLEAN, timer : BOOLEAN, syncing : BOOLEAN]
    /\ sync \in [left : SUBSET Products, of : Products \cup {Nothing}, priced : Cost \cup {Nothing}]

\* What an import or approval has in its hands at each step.
TaskOK(k) ==
    /\ task[k].at \in {"record", "index", "ask"} => task[k].found \in Products
    /\ task[k].at \in RowSteps => task[k].rows # <<>>
    /\ task[k].at \notin {"record", "index", "ask"} => ~task[k].ask
    /\ k \in Workers /\ task[k].at # "idle" => task[k].run \in Imports
    /\ task[k].at = "read" => task[k].ok = 0 /\ task[k].bad = 0

\* Rows of a file whose price is recorded, and how far an import has come.
Recorded(r) ==
    {i \in DOMAIN FileRows[r] : \E p \in Products : \E n \in DOMAIN prices[p] :
                                   prices[p][n] = FileRows[r][i].price}
\* The rows left are the end of the file, and the counters true of the ones done.
Counts(rows, ok, bad, r, recorded) ==
    LET done == Len(FileRows[r]) - Len(rows) IN
    /\ done \in Nat
    /\ \A i \in 1..Len(rows) : rows[i] = FileRows[r][done + i]
    /\ ok <= Cardinality(recorded \cap 1..done)
    /\ bad = 0 => 1..done \subseteq recorded

CountOK(w) ==
    \A r \in Imports : task[w].at \in RowSteps \cup {"finish"} /\ task[w].run = r =>
       /\ Counts(task[w].rows, task[w].ok, task[w].bad, r, Recorded(r))
       /\ task[w].at = "finish" => task[w].rows = <<>>
       /\ task[w].at \in {"index", "ask"} =>
             Len(FileRows[r]) - Len(task[w].rows) + 1 \in Recorded(r)

RunOK(r) ==
    importRun[r].status \in {"COMPLETED", "PARTIAL", "FAILED"} =>
       /\ importRun[r].ok <= Cardinality(Recorded(r))
       /\ importRun[r].status = "COMPLETED" => Recorded(r) = DOMAIN FileRows[r]

CatalogueInv == CatalogueTypes /\ \A k \in Importers : TaskOK(k)

CountInv ==
    /\ CatalogueInv
    /\ \A w \in Workers : CountOK(w)
    /\ \A r \in Imports : RunOK(r)

\* Of an unstained product there is one price under way to the index, the latest.
IndexOK(p) ==
    p \notin stained =>
       /\ \A k, l \in Writers(p) : k = l
       /\ \A k \in Importers : task[k].at = "index" /\ task[k].found = p => RowAt(k).price = LatestPrice(p)
       /\ sync.of = p => sync.priced = LatestPrice(p)
       /\ doc[p] # Nothing /\ Writers(p) = {} => doc[p].priced = LatestPrice(p)

IndexInv ==
    /\ CatalogueInv
    /\ sync.of # Nothing \/ sync.left # {} => search.syncing
    /\ \A p \in Products : IndexOK(p)


\* The task of k moves on, and no other.
TaskMoved(k) ==
    task' \in [Importers -> TaskRow] /\ (\A l \in Importers \ {k} : task'[l] = task[l]) /\ TaskOK(k)'

LEMMA TaskIs ==
    ASSUME CatalogueInv, NEW k \in Importers, NEW v \in TaskRow, task' = [task EXCEPT ![k] = v]
    PROVE  /\ task' \in [Importers -> TaskRow] /\ task'[k] = v
           /\ \A l \in Importers \ {k} : task'[l] = task[l]
BY DEF CatalogueInv, CatalogueTypes

LEMMA RestingIs == Resting \in TaskRow /\ Resting.at = "idle" /\ ~Resting.ask /\ Resting.found = Nothing
BY DEF Resting, TaskRow

LEMMA Rests ==
    ASSUME CatalogueInv, NEW k \in Importers, task' = [task EXCEPT ![k] = Resting]
    PROVE  TaskMoved(k) /\ task'[k].at = "idle" /\ ~task'[k].ask /\ task'[k].found = Nothing
<1>1. task' \in [Importers -> TaskRow] /\ task'[k] = Resting /\ \A l \in Importers \ {k} : task'[l] = task[l]
      BY RestingIs, TaskIs
<1> QED BY <1>1, RestingIs DEF TaskMoved, TaskOK, RowSteps

\* The row is done with.
LEMMA NextRowIs ==
    ASSUME CatalogueInv, PlatformAssumption, NEW k \in Importers, NEW ok \in Nat, NEW bad \in Nat,
           task[k].at \in RowSteps, NextRow(k, ok, bad)
    PROVE  /\ TaskMoved(k) /\ ~task'[k].ask /\ task'[k].at \notin RowSteps \ {"find"}
           /\ k \in Handlers => task'[k].at = "idle"
           /\ k \in Workers =>
                 /\ task'[k].at = IF Tail(task[k].rows) = <<>> THEN "finish" ELSE "find"
                 /\ task'[k].rows = Tail(task[k].rows) /\ task'[k].run = task[k].run
                 /\ task'[k].ok = task[k].ok + ok /\ task'[k].bad = task[k].bad + bad
<1>1. CASE k \in Handlers
      <2>1. task' = [task EXCEPT ![k] = Resting]
            BY <1>1 DEF NextRow
      <2>2. k \notin Workers
            BY <1>1 DEF PlatformAssumption
      <2> QED BY <2>1, <2>2, <1>1, Rests DEF RowSteps
<1>2. CASE k \notin Handlers
      <2> DEFINE at == IF Tail(task[k].rows) = <<>> THEN "finish" ELSE "find"
                 rest == Tail(task[k].rows)
                 good == task[k].ok + ok
                 lost == task[k].bad + bad
                 v == [task[k] EXCEPT !.at = at, !.rows = rest, !.found = Nothing, !.ask = FALSE,
                                      !.ok = good, !.bad = lost]
      <2>0. task[k] \in TaskRow
            BY DEF CatalogueInv, CatalogueTypes
      <2>1. task' = [task EXCEPT ![k] = v]
            BY <1>2, <2>0 DEF NextRow, TaskRow
      <2>2. task[k] \in TaskRow /\ task[k].rows \in Seq(CatalogueRow) /\ task[k].rows # <<>>
            BY DEF CatalogueInv, CatalogueTypes, TaskOK, TaskRow
      <2>3. rest \in Seq(CatalogueRow) /\ good \in Nat /\ lost \in Nat
            BY <2>2 DEF TaskRow
      <2>4. at \in {"finish", "find"} /\ (Tail(task[k].rows) = <<>> <=> at = "finish")
            OBVIOUS
      <2> HIDE DEF at, rest, good, lost
      <2>5. /\ v \in TaskRow /\ v.at = at /\ v.rows = rest /\ v.run = task[k].run
            /\ ~v.ask /\ v.ok = good /\ v.bad = lost
            BY <2>2, <2>3, <2>4 DEF TaskRow, RowSteps
      <2> HIDE DEF v
      <2>6. task' \in [Importers -> TaskRow] /\ task'[k] = v /\ \A l \in Importers \ {k} : task'[l] = task[l]
            BY <2>1, <2>5, TaskIs
      <2>7. k \in Workers => task[k].run \in Imports
            BY DEF CatalogueInv, TaskOK, RowSteps
      <2>8. TaskOK(k)'
            BY <2>4, <2>5, <2>6, <2>7 DEF TaskOK, RowSteps, rest
      <2> QED BY <1>2, <2>4, <2>5, <2>6, <2>8 DEF TaskMoved, RowSteps, at, rest, good, lost
<1> QED BY <1>1, <1>2

LEMMA GotoIs ==
    ASSUME CatalogueInv, NEW k \in Importers, NEW at \in {"index", "ask"}, task[k].at \in {"record", "index"},
           Goto(k, at)
    PROVE  /\ TaskMoved(k) /\ task'[k].at = at /\ task'[k].found = task[k].found
           /\ task'[k].rows = task[k].rows /\ task'[k].run = task[k].run /\ task'[k].ask = task[k].ask
           /\ task'[k].ok = task[k].ok /\ task'[k].bad = task[k].bad
<1> DEFINE v == [task[k] EXCEPT !.at = at]
<1>1. task' = [task EXCEPT ![k] = v]
      BY DEF Goto, CatalogueInv, CatalogueTypes
<1>2. task[k] \in TaskRow
      BY DEF CatalogueInv, CatalogueTypes
<1>3. /\ v \in TaskRow /\ v.at = at /\ v.found = task[k].found /\ v.rows = task[k].rows
      /\ v.run = task[k].run /\ v.ask = task[k].ask /\ v.ok = task[k].ok /\ v.bad = task[k].bad
      BY <1>2 DEF TaskRow, RowSteps
<1> HIDE DEF v
<1>4. task' \in [Importers -> TaskRow] /\ task'[k] = v /\ \A l \in Importers \ {k} : task'[l] = task[l]
      BY <1>1, <1>3, TaskIs
<1>5. TaskOK(k)'
      BY <1>3, <1>4 DEF TaskOK, CatalogueInv, RowSteps
<1> QED BY <1>3, <1>4, <1>5 DEF TaskMoved

\* What the steps of a row do to its task.
LEMMA FindProductIs ==
    ASSUME CatalogueInv, NEW k \in Importers, FindProduct(k)
    PROVE  /\ TaskMoved(k) /\ task[k].at = "find" /\ task'[k].at \in {"write", "record"}
           /\ task'[k].rows = task[k].rows /\ task'[k].run = task[k].run /\ ~task'[k].ask /\ ~task[k].ask
           /\ task'[k].ok = task[k].ok /\ task'[k].bad = task[k].bad
<1>1. PICK p \in Products \cup {Nothing}, at \in {"write", "record"} :
         /\ task' = [task EXCEPT ![k] = [task[k] EXCEPT !.at = at, !.found = p]]
         /\ at = "record" => p \in Products
      <2>1. CASE task' = [task EXCEPT ![k] = [@ EXCEPT !.at = "write", !.found = Nothing]]
            BY <2>1
      <2>2. CASE \E p \in Lookup(RowAt(k)) :
                    task' = [task EXCEPT ![k] =
                               [@ EXCEPT !.at = IF k \in Handlers THEN "record" ELSE "write", !.found = p]]
            BY <2>2 DEF Lookup, Known
      <2> QED BY <2>1, <2>2 DEF FindProduct
<1> DEFINE v == [task[k] EXCEPT !.at = at, !.found = p]
<1>2. task[k] \in TaskRow /\ task[k].at = "find"
      BY DEF CatalogueInv, CatalogueTypes, FindProduct
<1>3. /\ v \in TaskRow /\ v.at = at /\ v.found = p /\ v.rows = task[k].rows
      /\ v.run = task[k].run /\ v.ask = task[k].ask /\ v.ok = task[k].ok /\ v.bad = task[k].bad
      BY <1>2 DEF TaskRow, RowSteps
<1>4. task' = [task EXCEPT ![k] = v]
      BY <1>1
<1> HIDE DEF v
<1>5. task' \in [Importers -> TaskRow] /\ task'[k] = v /\ \A l \in Importers \ {k} : task'[l] = task[l]
      BY <1>3, <1>4, TaskIs
<1>6. TaskOK(k)' /\ ~task[k].ask
      BY <1>1, <1>2, <1>3, <1>5 DEF TaskOK, CatalogueInv, RowSteps
<1> QED BY <1>1, <1>2, <1>3, <1>5, <1>6 DEF TaskMoved

LEMMA UpsertProductIs ==
    ASSUME CatalogueInv, PlatformAssumption, NEW k \in Importers, UpsertProduct(k)
    PROVE  \E p \in Products :
              /\ TaskMoved(k) /\ task[k].at = "write" /\ ~task[k].ask
              /\ task'[k].at = IF k \in Handlers THEN "ask" ELSE "record"
              /\ task'[k].found = p /\ task'[k].ask = NeedsMatching(product[p], RowAt(k).name)
              /\ task'[k].rows = task[k].rows /\ task'[k].run = task[k].run
              /\ task'[k].ok = task[k].ok /\ task'[k].bad = task[k].bad
              /\ product' = [q \in Products |-> product'[q]]
              /\ product'[p].name = RowAt(k).name
              /\ \A q \in Products \ {p} : product'[q] = product[q]
<1> DEFINE row == RowAt(k)
           at == IF k \in Handlers THEN "ask" ELSE "record"
<1>0. PICK p \in Products : \E x :
         /\ product' = [product EXCEPT ![p] = [name |-> row.name, ext |-> x]]
         /\ task' = [task EXCEPT ![k] = [task[k] EXCEPT !.at = at, !.found = p,
                                                        !.ask = NeedsMatching(product[p], row.name)]]
      BY DEF UpsertProduct, CatalogueInv, CatalogueTypes, TaskRow
<1>1. PICK x :
         /\ product' = [product EXCEPT ![p] = [name |-> row.name, ext |-> x]]
         /\ task' = [task EXCEPT ![k] = [task[k] EXCEPT !.at = at, !.found = p,
                                                        !.ask = NeedsMatching(product[p], row.name)]]
      BY <1>0
<1> DEFINE ask == NeedsMatching(product[p], row.name)
           v == [task[k] EXCEPT !.at = at, !.found = p, !.ask = ask]
<1>2. task[k] \in TaskRow /\ task[k].at = "write" /\ at \in {"ask", "record"} /\ ask \in BOOLEAN
      BY DEF CatalogueInv, CatalogueTypes, UpsertProduct, NeedsMatching
<1>3. task' = [task EXCEPT ![k] = v]
      BY <1>1
<1>4. /\ product' = [q \in Products |-> product'[q]] /\ product'[p].name = row.name
      /\ \A q \in Products \ {p} : product'[q] = product[q]
      BY <1>1 DEF CatalogueInv, CatalogueTypes
<1> HIDE DEF at, ask, row
<1>5. /\ v \in TaskRow /\ v.at = at /\ v.found = p /\ v.rows = task[k].rows
      /\ v.run = task[k].run /\ v.ask = ask /\ v.ok = task[k].ok /\ v.bad = task[k].bad
      BY <1>2 DEF TaskRow, RowSteps
<1> HIDE DEF v
<1>6. task' \in [Importers -> TaskRow] /\ task'[k] = v /\ \A l \in Importers \ {k} : task'[l] = task[l]
      BY <1>3, <1>5, TaskIs
<1>7. TaskOK(k)' /\ ~task[k].ask
      BY <1>2, <1>5, <1>6 DEF TaskOK, CatalogueInv, RowSteps
<1> QED BY <1>2, <1>4, <1>5, <1>6, <1>7 DEF TaskMoved, at, ask, row

LEMMA RecordPriceIs ==
    ASSUME CatalogueInv, NEW k \in Importers, RecordPrice(k)
    PROVE  /\ TaskMoved(k) /\ task[k].at = "record" /\ task'[k].at = "index"
           /\ task[k].found \in Products /\ task'[k].found = task[k].found
           /\ task'[k].rows = task[k].rows /\ task'[k].run = task[k].run /\ task'[k].ask = task[k].ask
           /\ task'[k].ok = task[k].ok /\ task'[k].bad = task[k].bad
           /\ prices' \in [Products -> Seq(Cost)]
           /\ \A p \in Products \ {task[k].found} : prices'[p] = prices[p]
           /\ prices'[task[k].found] = Append(prices[task[k].found], RowAt(k).price)
           /\ RowAt(k).price \in Cost /\ prices[task[k].found] \in Seq(Cost)
<1> DEFINE p == task[k].found
           c == RowAt(k).price
<1>1. task[k] \in TaskRow /\ task[k].at = "record" /\ p \in Products /\ task[k].rows # <<>>
      BY DEF CatalogueInv, CatalogueTypes, TaskOK, RecordPrice, RowSteps
<1>2. c \in Cost
      <2>1. task[k].rows \in Seq(CatalogueRow)
            BY <1>1 DEF TaskRow
      <2>2. Head(task[k].rows) \in CatalogueRow
            BY <1>1, <2>1
      <2> QED BY <2>2 DEF Cost, RowAt
<1>3. prices' = [prices EXCEPT ![p] = Append(prices[p], c)] /\ prices \in [Products -> Seq(Cost)]
      BY DEF RecordPrice, CatalogueInv, CatalogueTypes
<1>4. Goto(k, "index")
      BY DEF RecordPrice
<1>5. /\ TaskMoved(k) /\ task'[k].at = "index" /\ task'[k].found = task[k].found
      /\ task'[k].rows = task[k].rows /\ task'[k].run = task[k].run /\ task'[k].ask = task[k].ask
      /\ task'[k].ok = task[k].ok /\ task'[k].bad = task[k].bad
      BY <1>1, <1>4, GotoIs
<1> HIDE DEF p, c
<1>6. /\ prices' \in [Products -> Seq(Cost)] /\ prices'[p] = Append(prices[p], c)
      /\ \A q \in Products \ {p} : prices'[q] = prices[q]
      BY <1>1, <1>2, <1>3
<1> QED BY <1>1, <1>2, <1>3, <1>5, <1>6 DEF p, c

\* A document is written or refused, or Elasticsearch is found to be down.
LEMMA IndexDocIs ==
    ASSUME CatalogueInv, NEW p \in Products, NEW priced, NEW lost \in BOOLEAN, IndexDoc(p, priced, lost)
    PROVE  /\ doc' = [q \in Products |-> doc'[q]]
           /\ search' \in [available : BOOLEAN, timer : BOOLEAN, syncing : BOOLEAN]
           /\ search'.syncing = search.syncing
           /\ \A q \in Products \ {p} : doc'[q] = doc[q]
           /\ ~lost => doc'[p].priced = priced
<1>1. /\ doc = [q \in Products |-> doc[q]]
      /\ search \in [available : BOOLEAN, timer : BOOLEAN, syncing : BOOLEAN]
      BY DEF CatalogueInv, CatalogueTypes
<1>2. CASE ~lost
      <2>1. doc' = [doc EXCEPT ![p] = [priced |-> priced]] /\ search' = search
            BY <1>2 DEF IndexDoc
      <2> QED BY <1>1, <1>2, <2>1
<1>3. CASE lost
      <2>1. doc' = doc /\ (search' = search \/ search' = [search EXCEPT !.available = FALSE, !.timer = TRUE])
            BY <1>3 DEF IndexDoc
      <2> QED BY <1>1, <1>3, <2>1
<1> QED BY <1>2, <1>3

LEMMA IndexPriceIs ==
    ASSUME CatalogueInv, PlatformAssumption, NEW k \in Importers, IndexPrice(k)
    PROVE  /\ TaskMoved(k) /\ task[k].at = "index" /\ task'[k].at # "index" /\ task[k].found \in Products
           /\ IF task[k].ask THEN Goto(k, "ask") ELSE NextRow(k, 1, 0)
           /\ \/ task[k].ask /\ task'[k].ask /\ task'[k].found = task[k].found
              \/ ~task[k].ask /\ ~task'[k].ask
<1>1. task[k].at = "index" /\ IF task[k].ask THEN Goto(k, "ask") ELSE NextRow(k, 1, 0)
      BY DEF IndexPrice
<1>2. task[k].found \in Products
      BY <1>1 DEF CatalogueInv, TaskOK
<1>3. CASE task[k].ask
      BY <1>1, <1>2, <1>3, GotoIs
<1>4. CASE ~task[k].ask
      <2>1. /\ TaskMoved(k) /\ ~task'[k].ask /\ task'[k].at \notin RowSteps \ {"find"}
            BY <1>1, <1>4, NextRowIs DEF RowSteps
      <2> QED BY <1>1, <1>2, <1>4, <2>1 DEF RowSteps
<1> QED BY <1>3, <1>4

LEMMA AskMatchingIs ==
    ASSUME CatalogueInv, PlatformAssumption, NEW k \in Importers, AskMatching(k)
    PROVE  /\ TaskMoved(k) /\ task[k].at = "ask" /\ ~task'[k].ask /\ task'[k].at # "index"
           /\ task[k].found \in Products
           /\ k \in Workers => NextRow(k, 1, 0)
<1>1. task[k].at = "ask" /\ task[k] \in TaskRow /\ task[k].rows # <<>> /\ task[k].found \in Products
      BY DEF AskMatching, CatalogueInv, CatalogueTypes, TaskOK, RowSteps
<1>2. CASE k \in Handlers
      <2> DEFINE v == [task[k] EXCEPT !.at = "record", !.ask = FALSE]
      <2>1. task' = [task EXCEPT ![k] = v] /\ k \notin Workers
            BY <1>2 DEF AskMatching, PlatformAssumption
      <2>2. v \in TaskRow /\ v.at = "record" /\ ~v.ask /\ v.found = task[k].found /\ v.rows = task[k].rows
            BY <1>1 DEF TaskRow, RowSteps
      <2> HIDE DEF v
      <2>3. task' \in [Importers -> TaskRow] /\ task'[k] = v /\ \A l \in Importers \ {k} : task'[l] = task[l]
            BY <2>1, <2>2, TaskIs
      <2>4. TaskOK(k)'
            BY <1>1, <2>1, <2>2, <2>3 DEF TaskOK, RowSteps
      <2> QED BY <1>1, <2>1, <2>2, <2>3, <2>4 DEF TaskMoved
<1>3. CASE k \notin Handlers
      <2>1. NextRow(k, 1, 0)
            BY <1>3 DEF AskMatching
      <2>2. /\ TaskMoved(k) /\ ~task'[k].ask /\ task'[k].at \notin RowSteps \ {"find"}
            BY <1>1, <2>1, NextRowIs DEF RowSteps
      <2> QED BY <1>1, <2>1, <2>2 DEF RowSteps
<1> QED BY <1>2, <1>3

LEMMA RowFailsIs ==
    ASSUME CatalogueInv, PlatformAssumption, NEW k \in Importers, RowFails(k)
    PROVE  /\ TaskMoved(k) /\ ~task'[k].ask /\ task'[k].at # "index"
           /\ task[k].at \in RowSteps \ {"index"} /\ NextRow(k, 0, 1)
<1>1. task[k].at \in RowSteps \ {"index"} /\ NextRow(k, 0, 1)
      BY DEF RowFails, SkipRow, RowSteps
<1>2. TaskMoved(k) /\ ~task'[k].ask /\ task'[k].at \notin RowSteps \ {"find"}
      BY <1>1, NextRowIs
<1> QED BY <1>1, <1>2 DEF RowSteps

Starting(at, r) == [Resting EXCEPT !.at = at, !.run = r]

LEMMA StartingIs ==
    ASSUME NEW at \in {"enqueue", "read"}, NEW r \in Imports
    PROVE  /\ Starting(at, r) \in TaskRow /\ Starting(at, r).at = at /\ ~Starting(at, r).ask
           /\ Starting(at, r).run = r /\ Starting(at, r).ok = 0 /\ Starting(at, r).bad = 0
<1>1. Resting.ok = 0 /\ Resting.bad = 0
      BY DEF Resting
<1>2. at \in {"idle", "enqueue", "read", "finish"} \cup RowSteps /\ r \in Imports \cup {Nothing}
      OBVIOUS
<1>3. Resting \in TaskRow /\ ~Resting.ask
      BY RestingIs
<1>4. [Resting EXCEPT !.at = at, !.run = r] \in TaskRow
      BY <1>2, <1>3 DEF TaskRow
<1> QED BY <1>1, <1>3, <1>4 DEF TaskRow, Starting

\* What begins and ends an import.
LEMMA BeginsIs ==
    ASSUME CatalogueInv, CatalogueAssumption, PlatformAssumption, NEW k \in Importers, NEW r \in Imports,
           \/ k \in Handlers /\ CreatePendingRun(k, r)
           \/ k \in Workers /\ StartImport(k, r)
    PROVE  /\ TaskMoved(k) /\ ~task'[k].ask /\ task'[k].at \in {"enqueue", "read"} /\ task[k].at = "idle"
           /\ importRun' \in [Imports -> RunRow]
           /\ importRun'[r].status \in {"PENDING", "RUNNING"}
           /\ \A q \in Imports \ {r} : importRun'[q] = importRun[q]
<1>1. PICK at \in {"enqueue", "read"}, st \in {"PENDING", "RUNNING"} :
         /\ task' = [task EXCEPT ![k] = Starting(at, r)] /\ task[k].at = "idle"
         /\ importRun' = [importRun EXCEPT ![r].status = st]
      BY DEF CreatePendingRun, StartImport, Starting
<1> DEFINE v == Starting(at, r)
           x == [importRun[r] EXCEPT !.status = st]
<1>2. v \in TaskRow /\ v.at = at /\ ~v.ask /\ v.run = r /\ v.ok = 0 /\ v.bad = 0
      BY StartingIs
<1>3. importRun \in [Imports -> RunRow] /\ importRun[r] \in RunRow
      BY DEF CatalogueInv, CatalogueTypes
<1>4. x \in RunRow /\ x.status = st
      BY <1>3 DEF RunRow
<1>5. importRun' = [importRun EXCEPT ![r] = x] /\ task' = [task EXCEPT ![k] = v]
      BY <1>1, <1>3
<1> HIDE DEF v, x
<1>6. task' \in [Importers -> TaskRow] /\ task'[k] = v /\ \A l \in Importers \ {k} : task'[l] = task[l]
      BY <1>2, <1>5, TaskIs
<1>7. TaskOK(k)'
      BY <1>2, <1>6 DEF TaskOK, RowSteps
<1>8. importRun' \in [Imports -> RunRow] /\ importRun'[r] = x /\ \A q \in Imports \ {r} : importRun'[q] = importRun[q]
      BY <1>3, <1>4, <1>5
<1> QED BY <1>1, <1>2, <1>4, <1>6, <1>7, <1>8 DEF TaskMoved

LEMMA ReadFileIs ==
    ASSUME CatalogueInv, CatalogueAssumption, PlatformAssumption, NEW w \in Workers, ReadFile(w)
    PROVE  /\ TaskMoved(w) /\ ~task'[w].ask /\ task[w].at = "read"
           /\ task'[w].at = IF FileRows[task[w].run] = <<>> THEN "finish" ELSE "find"
           /\ task'[w].run = task[w].run /\ task[w].run \in Imports
           /\ task'[w].rows = FileRows[task[w].run] /\ task'[w].ok = 0 /\ task'[w].bad = 0
           /\ task'[w].rows \in Seq(CatalogueRow)
<1> DEFINE F == FileRows[task[w].run]
           at == IF F = <<>> THEN "finish" ELSE "find"
           v == [task[w] EXCEPT !.at = at, !.rows = F]
<1>0. w \in Importers
      BY DEF Importers
<1>1. /\ task[w].at = "read" /\ task[w] \in TaskRow /\ ~task[w].ask /\ task[w].run \in Imports
      /\ task[w].ok = 0 /\ task[w].bad = 0
      BY <1>0 DEF ReadFile, CatalogueInv, CatalogueTypes, TaskOK
<1>2. task' = [task EXCEPT ![w] = v]
      BY DEF ReadFile
<1>3. F \in Seq(CatalogueRow) /\ at \in {"find", "finish"} /\ (F = <<>> => at = "finish")
      <2> DEFINE R == {FileRows[task[w].run][i] : i \in DOMAIN FileRows[task[w].run]}
      <2>1. F \in Seq(R)
            BY <1>1 DEF CatalogueAssumption
      <2>2. R \subseteq CatalogueRow
            BY <1>1 DEF CatalogueRow, FileRow
      <2> HIDE DEF R, F
      <2> QED BY <2>1, <2>2
<1> HIDE DEF F, at
<1>4. v \in TaskRow /\ v.at = at /\ v.rows = F /\ v.run = task[w].run /\ ~v.ask /\ v.ok = 0 /\ v.bad = 0
      BY <1>1, <1>3 DEF TaskRow, RowSteps
<1> HIDE DEF v
<1>5. task' \in [Importers -> TaskRow] /\ task'[w] = v /\ \A l \in Importers \ {w} : task'[l] = task[l]
      BY <1>0, <1>2, <1>4, TaskIs
<1>6. TaskOK(w)'
      BY <1>1, <1>3, <1>4, <1>5 DEF TaskOK, RowSteps
<1> QED BY <1>1, <1>3, <1>4, <1>5, <1>6 DEF TaskMoved, F, at

LEMMA CloseRunIs ==
    ASSUME CatalogueInv, CatalogueAssumption, NEW w \in Workers, NEW status \in {"COMPLETED", "PARTIAL", "FAILED"},
           NEW total \in Nat, task[w].at \in {"read", "finish"}, CloseRun(w, status, total)
    PROVE  /\ TaskMoved(w) /\ ~task'[w].ask /\ task'[w].at = "idle" /\ task[w].run \in Imports
           /\ importRun' \in [Imports -> RunRow]
           /\ importRun'[task[w].run].status = status /\ importRun'[task[w].run].ok = task[w].ok
           /\ \A q \in Imports \ {task[w].run} : importRun'[q] = importRun[q]
<1> DEFINE x == [status |-> status, total |-> total, ok |-> task[w].ok, bad |-> task[w].bad]
<1>0. w \in Importers
      BY DEF Importers
<1>1. task[w] \in TaskRow /\ task[w].run \in Imports /\ importRun \in [Imports -> RunRow]
      BY <1>0 DEF CatalogueInv, CatalogueTypes, TaskOK
<1>2. x \in RunRow /\ x.status = status /\ x.ok = task[w].ok
      BY <1>1 DEF RunRow, TaskRow
<1>3. importRun' = [importRun EXCEPT ![task[w].run] = x] /\ task' = [task EXCEPT ![w] = Resting]
      BY DEF CloseRun
<1> HIDE DEF x
<1>4. /\ importRun' \in [Imports -> RunRow] /\ importRun'[task[w].run] = x
      /\ \A q \in Imports \ {task[w].run} : importRun'[q] = importRun[q]
      BY <1>1, <1>2, <1>3
<1>5. TaskMoved(w) /\ task'[w].at = "idle" /\ ~task'[w].ask
      BY <1>0, <1>3, Rests
<1> QED BY <1>1, <1>2, <1>4, <1>5

LEMMA ApplyIs ==
    ASSUME CatalogueInv, PlatformAssumption, NEW h \in Handlers, NEW row \in Approvals, ApplySubmission(h, row)
    PROVE  TaskMoved(h) /\ ~task'[h].ask /\ task'[h].at = "find" /\ task[h].at = "idle"
<1> DEFINE v == [Resting EXCEPT !.at = "find", !.rows = <<row>>]
<1>0. h \in Importers /\ h \notin Workers
      BY DEF Importers, PlatformAssumption
<1>1. task' = [task EXCEPT ![h] = v] /\ task[h].at = "idle"
      BY DEF ApplySubmission
<1>2. <<row>> \in Seq(CatalogueRow) /\ <<row>> # <<>>
      BY DEF CatalogueRow
<1>3. v \in TaskRow /\ v.at = "find" /\ ~v.ask /\ v.rows = <<row>>
      BY <1>2 DEF Resting, TaskRow, RowSteps
<1> HIDE DEF v
<1>4. task' \in [Importers -> TaskRow] /\ task'[h] = v /\ \A l \in Importers \ {h} : task'[l] = task[l]
      BY <1>0, <1>1, <1>3, TaskIs
<1>5. TaskOK(h)'
      BY <1>0, <1>2, <1>3, <1>4 DEF TaskOK, RowSteps
<1> QED BY <1>1, <1>3, <1>4, <1>5 DEF TaskMoved

\* The steps of a row; of an import; of matching and of the search service.
RowStep(k) ==
    FindProduct(k) \/ UpsertProduct(k) \/ RecordPrice(k) \/ IndexPrice(k) \/ AskMatching(k) \/ RowFails(k)
Begins(k) ==
    \E r \in Imports : \/ k \in Handlers /\ CreatePendingRun(k, r)
                       \/ k \in Workers /\ StartImport(k, r)
Ends(k) == k \in Workers /\ (FinishImport(k) \/ FailImport(k))
Drops(k) == ImporterDies(k) \/ (k \in Handlers /\ AddImportJob(k))
Matching == \E p \in Products : MatchProduct(p) \/ MatchingGivenUp(p)

LEMMA CatalogueSteps ==
    CatalogueNext =>
       \/ \E k \in Importers : \/ Begins(k) \/ Ends(k) \/ Drops(k) \/ RowStep(k)
                               \/ k \in Workers /\ ReadFile(k)
                               \/ k \in Handlers /\ \E row \in Approvals : ApplySubmission(k, row)
       \/ Matching \/ SearchNext
BY DEF CatalogueNext, ImportNext, RowStep, Begins, Ends, Drops, Matching, Importers

\* How a run ends.
LEMMA EndsIs ==
    ASSUME CatalogueInv, CatalogueAssumption, NEW w \in Importers, Ends(w)
    PROVE  \E status \in {"COMPLETED", "PARTIAL", "FAILED"}, total \in Nat :
              /\ task[w].at \in {"read", "finish"} /\ CloseRun(w, status, total)
              /\ status = "COMPLETED" => task[w].at = "finish" /\ task[w].bad = 0
<1> DEFINE n == Len(FileRows[task[w].run])
<1>1. w \in Workers
      BY DEF Ends
<1>2. CASE FinishImport(w)
      <2>1. task[w].at = "finish" /\ CloseRun(w, RunStatus(task[w].ok, task[w].bad), n)
            BY <1>2 DEF FinishImport
      <2>2. n \in Nat
            BY <1>1, <2>1 DEF CatalogueInv, TaskOK, CatalogueAssumption
      <2> QED BY <2>1, <2>2 DEF RunStatus
<1>3. CASE FailImport(w)
      <2>1. /\ task[w].at \in {"read", "finish"}
            /\ CloseRun(w, "FAILED", IF task[w].at = "read" THEN 0 ELSE n)
            BY <1>3 DEF FailImport
      <2>2. n \in Nat
            BY <1>1, <2>1 DEF CatalogueInv, TaskOK, CatalogueAssumption
      <2> QED BY <2>1, <2>2
<1> QED BY <1>2, <1>3 DEF Ends

LEMMA SearchStays ==
    ASSUME CatalogueInv, SearchNext
    PROVE  /\ UNCHANGED <<product, prices, matches, embedding, importRun, matchJobs, task, unasked>>
           /\ doc' = [q \in Products |-> doc'[q]]
           /\ search' \in [available : BOOLEAN, timer : BOOLEAN, syncing : BOOLEAN]
           /\ sync' \in [left : SUBSET Products, of : Products \cup {Nothing}, priced : Cost \cup {Nothing}]
<1>1. /\ doc = [q \in Products |-> doc[q]]
      /\ search \in [available : BOOLEAN, timer : BOOLEAN, syncing : BOOLEAN]
      /\ sync \in [left : SUBSET Products, of : Products \cup {Nothing}, priced : Cost \cup {Nothing}]
      BY DEF CatalogueInv, CatalogueTypes
<1>2. CASE (\E wiped \in BOOLEAN : ElasticGoesDown(wiped)) \/ ElasticComesBack \/ SearchProducts
      BY <1>1, <1>2 DEF ElasticGoesDown, ElasticComesBack, SearchProducts, rowVars
<1>3. CASE EnsureIndices
      <2>1. /\ UNCHANGED <<rowVars, importRun, task>>
            /\ \/ search' = [available |-> TRUE, timer |-> FALSE, syncing |-> TRUE]
               \/ search' = [search EXCEPT !.available = FALSE]
            /\ sync' = sync \/ sync' = [SyncIdle EXCEPT !.left = Known]
            BY <1>3 DEF EnsureIndices
      <2>2. Known \subseteq Products
            BY DEF Known
      <2>3. [SyncIdle EXCEPT !.left = Known] = [left |-> Known, of |-> Nothing, priced |-> Nothing]
            BY DEF SyncIdle
      <2>4. sync' \in [left : SUBSET Products, of : Products \cup {Nothing}, priced : Cost \cup {Nothing}]
            BY <1>1, <2>1, <2>2, <2>3
      <2>5. search' \in [available : BOOLEAN, timer : BOOLEAN, syncing : BOOLEAN]
            <3>1. CASE search' = [available |-> TRUE, timer |-> FALSE, syncing |-> TRUE]
                  BY <3>1
            <3>2. CASE search' = [search EXCEPT !.available = FALSE]
                  BY <1>1, <3>2
            <3> QED BY <2>1, <3>1, <3>2
      <2>6. UNCHANGED <<product, prices, matches, embedding, importRun, matchJobs, task, unasked>> /\ doc' = doc
            BY <2>1 DEF rowVars
      <2> QED BY <1>1, <2>4, <2>5, <2>6
<1>4. ASSUME NEW p \in Products, SyncRead(p)
      PROVE  /\ UNCHANGED <<product, prices, matches, embedding, importRun, matchJobs, task, unasked, doc, search>>
             /\ sync' \in [left : SUBSET Products, of : Products \cup {Nothing}, priced : Cost \cup {Nothing}]
      <2>1. LatestPrice(p) \in Cost \cup {Nothing}
            <3>1. prices[p] \in Seq(Cost)
                  BY DEF CatalogueInv, CatalogueTypes
            <3> QED BY <3>1 DEF LatestPrice
      <2>2. sync' = [left |-> sync.left \ {p}, of |-> p, priced |-> LatestPrice(p)]
            BY <1>4 DEF SyncRead
      <2> QED BY <1>1, <1>4, <2>1, <2>2 DEF SyncRead
<1>5. CASE SyncIndex
      <2>1. PICK lost \in BOOLEAN : IndexDoc(sync.of, sync.priced, lost)
            BY <1>5 DEF SyncIndex
      <2>2. sync.of \in Products
            BY <1>1, <1>5 DEF SyncIndex
      <2>3. /\ UNCHANGED <<product, prices, matches, embedding, importRun, matchJobs, task, unasked>>
            /\ sync' = [sync EXCEPT !.of = Nothing]
            BY <1>5 DEF SyncIndex
      <2>4. sync' \in [left : SUBSET Products, of : Products \cup {Nothing}, priced : Cost \cup {Nothing}]
            BY <1>1, <2>3
      <2> QED BY <2>1, <2>2, <2>3, <2>4, IndexDocIs
<1>6. CASE SyncEnds
      BY <1>1, <1>6 DEF SyncEnds, SyncIdle, rowVars
<1> QED BY <1>1, <1>2, <1>3, <1>4, <1>5, <1>6 DEF SearchNext

LEMMA CatalogueStep ==
    CatalogueInv /\ [CatalogueNext]_catalogueVars /\ CatalogueAssumption /\ PlatformAssumption => CatalogueInv'
<1> SUFFICES ASSUME CatalogueInv, [CatalogueNext]_catalogueVars, CatalogueAssumption, PlatformAssumption
             PROVE  CatalogueInv'
    OBVIOUS
<1>1. CatalogueTypes /\ \A k \in Importers : TaskOK(k)
      BY DEF CatalogueInv
<1>2. ASSUME NEW k \in Importers, TaskMoved(k),
             UNCHANGED <<product, doc, matches, embedding, search, sync>>,
             prices' \in [Products -> Seq(Cost)], importRun' \in [Imports -> RunRow]
      PROVE  CatalogueInv'
      <2>1. CatalogueTypes'
            BY <1>1, <1>2 DEF CatalogueTypes, TaskMoved
      <2>2. \A l \in Importers \ {k} : TaskOK(l)'
            BY <1>1, <1>2 DEF TaskMoved, TaskOK
      <2>3. TaskOK(k)'
            BY <1>2 DEF TaskMoved
      <2>4. \A l \in Importers : TaskOK(l)'
            BY <2>2, <2>3
      <2> QED BY <2>1, <2>4 DEF CatalogueInv
<1>3. prices \in [Products -> Seq(Cost)] /\ importRun \in [Imports -> RunRow]
      BY <1>1 DEF CatalogueTypes
<1>4. ASSUME NEW k \in Importers, Begins(k) PROVE CatalogueInv'
      <2>1. TaskMoved(k) /\ importRun' \in [Imports -> RunRow]
            BY <1>4, BeginsIs DEF Begins
      <2>2. UNCHANGED <<product, doc, matches, embedding, search, sync, prices>>
            BY <1>4 DEF Begins, CreatePendingRun, StartImport, rowVars, searchVars
      <2> QED BY <1>2, <1>3, <2>1, <2>2
<1>5. ASSUME NEW k \in Importers, Ends(k) PROVE CatalogueInv'
      <2>1. PICK status \in {"COMPLETED", "PARTIAL", "FAILED"}, total \in Nat :
              task[k].at \in {"read", "finish"} /\ CloseRun(k, status, total)
            BY <1>5, EndsIs
      <2>2. k \in Workers
            BY <1>5 DEF Ends
      <2>3. TaskMoved(k) /\ importRun' \in [Imports -> RunRow]
            BY <2>1, <2>2, CloseRunIs
      <2>4. UNCHANGED <<product, doc, matches, embedding, search, sync, prices>>
            BY <2>1 DEF CloseRun, rowVars, searchVars
      <2> QED BY <1>2, <1>3, <2>3, <2>4
<1>6. ASSUME NEW k \in Importers, Drops(k) PROVE CatalogueInv'
      <2>1. /\ task' = [task EXCEPT ![k] = Resting]
            /\ UNCHANGED <<product, doc, matches, embedding, search, sync, prices, importRun>>
            BY <1>6 DEF Drops, ImporterDies, AddImportJob, rowVars, searchVars
      <2> QED BY <1>2, <1>3, <2>1, Rests
<1>7. ASSUME NEW k \in Importers, k \in Workers, ReadFile(k) PROVE CatalogueInv'
      <2>1. UNCHANGED <<product, doc, matches, embedding, search, sync, prices, importRun>>
            BY <1>7 DEF ReadFile, rowVars, searchVars
      <2> QED BY <1>2, <1>3, <1>7, <2>1, ReadFileIs
<1>8. ASSUME NEW k \in Importers, k \in Handlers, NEW row \in Approvals, ApplySubmission(k, row) PROVE CatalogueInv'
      <2>1. UNCHANGED <<product, doc, matches, embedding, search, sync, prices, importRun>>
            BY <1>8 DEF ApplySubmission, rowVars, searchVars
      <2> QED BY <1>2, <1>3, <1>8, <2>1, ApplyIs
<1>9. ASSUME NEW k \in Importers, FindProduct(k) \/ AskMatching(k) \/ RowFails(k) PROVE CatalogueInv'
      <2>1. UNCHANGED <<product, doc, matches, embedding, search, sync, prices, importRun>>
            BY <1>9 DEF FindProduct, AskMatching, RowFails, rowVars, searchVars
      <2> QED BY <1>2, <1>3, <1>9, <2>1, FindProductIs, AskMatchingIs, RowFailsIs
<1>10. ASSUME NEW k \in Importers, UpsertProduct(k) PROVE CatalogueInv'
      <2>1. UNCHANGED <<doc, matches, embedding, search, sync, prices, importRun>>
            BY <1>10 DEF UpsertProduct, searchVars
      <2>2. TaskMoved(k) /\ product' = [q \in Products |-> product'[q]]
            BY <1>10, UpsertProductIs
      <2> QED BY <1>1, <2>1, <2>2 DEF CatalogueInv, CatalogueTypes, TaskMoved, TaskOK
<1>11. ASSUME NEW k \in Importers, RecordPrice(k) PROVE CatalogueInv'
      <2>1. UNCHANGED <<product, doc, matches, embedding, search, sync, importRun>>
            BY <1>11 DEF RecordPrice, searchVars
      <2> QED BY <1>2, <1>3, <1>11, <2>1, RecordPriceIs
<1>12. ASSUME NEW k \in Importers, IndexPrice(k) PROVE CatalogueInv'
      <2>1. /\ UNCHANGED <<product, prices, matches, embedding, sync, importRun>>
            /\ \E lost \in BOOLEAN : IndexDoc(task[k].found, RowAt(k).price, lost)
            BY <1>12 DEF IndexPrice
      <2>2. TaskMoved(k) /\ task[k].found \in Products
            BY <1>12, IndexPriceIs
      <2>3. /\ doc' = [q \in Products |-> doc'[q]]
            /\ search' \in [available : BOOLEAN, timer : BOOLEAN, syncing : BOOLEAN]
            BY <2>1, <2>2, IndexDocIs
      <2>4. CatalogueTypes'
            BY <1>1, <2>1, <2>2, <2>3 DEF CatalogueTypes, TaskMoved
      <2>5. \A l \in Importers : TaskOK(l)'
            BY <1>1, <2>2 DEF TaskMoved, TaskOK
      <2> QED BY <2>4, <2>5 DEF CatalogueInv
<1>13. CASE Matching
      <2>1. /\ UNCHANGED <<product, prices, doc, importRun, task, search, sync>>
            /\ matches' = [p \in Products |-> matches'[p]] /\ embedding' = [p \in Products |-> embedding'[p]]
            BY <1>1, <1>13 DEF Matching, MatchProduct, MatchingGivenUp, searchVars, CatalogueTypes
      <2> QED BY <1>1, <2>1 DEF CatalogueInv, CatalogueTypes, TaskOK
<1>14. CASE SearchNext
      BY <1>1, <1>14, SearchStays DEF CatalogueInv, CatalogueTypes, TaskOK
<1>15. CASE UNCHANGED catalogueVars
      BY <1>1, <1>15 DEF CatalogueInv, CatalogueTypes, TaskOK, catalogueVars
<1> QED BY <1>4, <1>5, <1>6, <1>7, <1>8, <1>9, <1>10, <1>11, <1>12, <1>13, <1>14, <1>15, CatalogueSteps DEF RowStep

LEMMA CatalogueStarts == CatalogueInit /\ CatalogueAssumption => CatalogueInv
<1> SUFFICES ASSUME CatalogueInit PROVE CatalogueInv
    OBVIOUS
<1>1. \A k \in Importers : task[k] = Resting
      BY DEF CatalogueInit
<1>2. CatalogueTypes
      <2>1. task \in [Importers -> TaskRow]
            BY RestingIs DEF CatalogueInit
      <2>2. importRun \in [Imports -> RunRow]
            BY DEF CatalogueInit, NoImport, RunRow
      <2>3. prices \in [Products -> Seq(Cost)]
            BY DEF CatalogueInit
      <2>4. sync \in [left : SUBSET Products, of : Products \cup {Nothing}, priced : Cost \cup {Nothing}]
            BY DEF CatalogueInit, SyncIdle
      <2> QED BY <2>1, <2>2, <2>3, <2>4 DEF CatalogueInit, CatalogueTypes
<1>3. \A k \in Importers : TaskOK(k)
      BY <1>1, RestingIs DEF TaskOK, RowSteps
<1> QED BY <1>2, <1>3 DEF CatalogueInv

\* What is recorded stays recorded.
Grows == \A r \in Imports : Recorded(r) \subseteq Recorded(r)'

LEMMA FileIs ==
    ASSUME CatalogueAssumption, NEW r \in Imports
    PROVE  /\ Len(FileRows[r]) \in Nat /\ DOMAIN FileRows[r] = 1..Len(FileRows[r])
           /\ \E R : FileRows[r] \in Seq(R)
<1> DEFINE R == {FileRows[r][i] : i \in DOMAIN FileRows[r]}
<1>1. FileRows[r] \in Seq(R)
      BY DEF CatalogueAssumption
<1> HIDE DEF R
<1> QED BY <1>1

LEMMA CountsMore ==
    ASSUME NEW r, NEW rows, NEW ok \in Nat, NEW bad, NEW known, NEW recorded, known \subseteq recorded,
           Counts(rows, ok, bad, r, known)
    PROVE  Counts(rows, ok, bad, r, recorded)
<1> DEFINE done == Len(FileRows[r]) - Len(rows)
<1>1. done \in Nat /\ IsFiniteSet(1..done)
      BY FS_Interval DEF Counts
<1> HIDE DEF done
<1>2. IsFiniteSet(recorded \cap 1..done)
      BY <1>1, FS_Subset
<1>3. /\ Cardinality(known \cap 1..done) <= Cardinality(recorded \cap 1..done)
      /\ Cardinality(known \cap 1..done) \in Nat /\ Cardinality(recorded \cap 1..done) \in Nat
      <2>1. known \cap 1..done \subseteq recorded \cap 1..done
            OBVIOUS
      <2>2. IsFiniteSet(known \cap 1..done)
            BY <1>1, FS_Subset
      <2> QED BY <1>2, <2>1, <2>2, FS_Subset, FS_CardinalityType
<1>4. /\ \A i \in 1..Len(rows) : rows[i] = FileRows[r][done + i]
      /\ ok <= Cardinality(known \cap 1..done)
      /\ bad = 0 => 1..done \subseteq known
      BY DEF Counts, done
<1>5. ok <= Cardinality(recorded \cap 1..done)
      BY <1>3, <1>4
<1> QED BY <1>1, <1>4, <1>5 DEF Counts, done

\* From the top of the file.
LEMMA CountsAtFirst ==
    ASSUME CatalogueAssumption, NEW r \in Imports, NEW recorded
    PROVE  Counts(FileRows[r], 0, 0, r, recorded)
<1>1. Len(FileRows[r]) \in Nat
      BY FileIs
<1> DEFINE n == Len(FileRows[r])
<1> HIDE DEF n
<1>2. n - n = 0 /\ 1..0 = {} /\ \A i \in 1..n : 0 + i = i
      BY <1>1 DEF n
<1>3. recorded \cap {} = {} /\ Cardinality({}) = 0
      BY FS_EmptySet
<1> QED BY <1>1, <1>2, <1>3 DEF Counts, n

\* The row at the head is done with, recorded or counted as bad.
LEMMA CountsNext ==
    ASSUME CatalogueAssumption, NEW r \in Imports, NEW R, NEW rows \in Seq(R), rows # <<>>,
           NEW ok \in Nat, NEW bad \in Nat, NEW more \in {0, 1}, NEW worse \in {0, 1}, more + worse = 1,
           NEW recorded,
           Counts(rows, ok, bad, r, recorded),
           more = 1 => Len(FileRows[r]) - Len(rows) + 1 \in recorded
    PROVE  Counts(Tail(rows), ok + more, bad + worse, r, recorded)
<1> DEFINE done == Len(FileRows[r]) - Len(rows)
           file == FileRows[r]
           rest == Tail(rows)
<1>1. Len(file) \in Nat /\ Len(rows) \in Nat \ {0} /\ Len(rest) = Len(rows) - 1 /\ done \in Nat
      BY FileIs DEF Counts
<1>2. \A i \in 1..Len(rest) : rest[i] = rows[i + 1] /\ i + 1 \in 1..Len(rows)
      BY <1>1
<1>3. /\ \A i \in 1..Len(rows) : rows[i] = file[done + i]
      /\ ok <= Cardinality(recorded \cap 1..done)
      /\ bad = 0 => 1..done \subseteq recorded
      /\ more = 1 => done + 1 \in recorded
      BY DEF Counts
<1>4. Len(file) - Len(rest) = done + 1
      BY <1>1
<1>5. \A i \in 1..Len(rest) : rest[i] = file[(done + 1) + i]
      <2> HIDE DEF done, file, rest
      <2>1. \A i \in 1..Len(rest) : done + (i + 1) = (done + 1) + i
            BY <1>1
      <2> QED BY <1>2, <1>3, <2>1
<1> HIDE DEF done, rest
<1>6. /\ 1..(done + 1) = 1..done \cup {done + 1} /\ done + 1 \notin 1..done
      BY <1>1
<1>7. IsFiniteSet(recorded \cap 1..done) /\ IsFiniteSet(recorded \cap 1..(done + 1))
      <2>1. IsFiniteSet(1..done) /\ IsFiniteSet(1..(done + 1))
            <3>1. \A n \in Nat : IsFiniteSet(1..n)
                  BY FS_Interval
            <3>2. done \in Nat /\ done + 1 \in Nat
                  BY <1>1
            <3> QED BY <3>1, <3>2
      <2> QED BY <2>1, FS_Subset
<1>8. /\ Cardinality(recorded \cap 1..done) \in Nat /\ Cardinality(recorded \cap 1..(done + 1)) \in Nat
      /\ Cardinality(recorded \cap 1..done) <= Cardinality(recorded \cap 1..(done + 1))
      <2>1. recorded \cap 1..done \subseteq recorded \cap 1..(done + 1)
            BY <1>6
      <2> QED BY <1>7, <2>1, FS_Subset, FS_CardinalityType
<1>9. more = 1 => Cardinality(recorded \cap 1..(done + 1)) = Cardinality(recorded \cap 1..done) + 1
      <2>1. more = 1 => recorded \cap 1..(done + 1) = (recorded \cap 1..done) \cup {done + 1}
            BY <1>3, <1>6
      <2>2. done + 1 \notin recorded \cap 1..done
            BY <1>6
      <2>3. Cardinality((recorded \cap 1..done) \cup {done + 1}) = Cardinality(recorded \cap 1..done) + 1
            BY <1>7, <2>2, FS_AddElement
      <2> QED BY <2>1, <2>3
<1>10. ok + more <= Cardinality(recorded \cap 1..(done + 1))
      BY <1>3, <1>8, <1>9
<1>11. bad + worse = 0 => 1..(done + 1) \subseteq recorded
      BY <1>3, <1>6
<1> HIDE DEF file
<1>12. /\ Len(file) - Len(rest) \in Nat
       /\ \A i \in 1..Len(rest) : rest[i] = file[(Len(file) - Len(rest)) + i]
       /\ ok + more <= Cardinality(recorded \cap 1..(Len(file) - Len(rest)))
       /\ bad + worse = 0 => 1..(Len(file) - Len(rest)) \subseteq recorded
       <2>1. Len(file) - Len(rest) \in Nat
             BY <1>1, <1>4
       <2>2. \A i \in 1..Len(rest) : rest[i] = file[(Len(file) - Len(rest)) + i]
             BY <1>4, <1>5, Zenon
       <2>3. ok + more <= Cardinality(recorded \cap 1..(Len(file) - Len(rest)))
             BY <1>4, <1>10, Zenon
       <2>4. bad + worse = 0 => 1..(Len(file) - Len(rest)) \subseteq recorded
             BY <1>4, <1>11, Zenon
       <2> QED BY <2>1, <2>2, <2>3, <2>4
<1> QED BY <1>12 DEF Counts, rest, file

LEMMA TaskTypes ==
    ASSUME CatalogueInv, NEW w \in Importers
    PROVE  /\ task[w] \in TaskRow /\ task[w].ok \in Nat /\ task[w].bad \in Nat
           /\ task[w].rows \in Seq(CatalogueRow)
           /\ w \in Workers /\ task[w].at # "idle" => task[w].run \in Imports
           /\ task[w].at \in RowSteps => task[w].rows # <<>>
<1>1. task[w] \in TaskRow /\ TaskOK(w)
      BY DEF CatalogueInv, CatalogueTypes
<1> QED BY <1>1 DEF TaskRow, TaskOK

LEMMA RecordedIs ==
    ASSUME CatalogueAssumption, NEW r \in Imports
    PROVE  /\ Recorded(r) \subseteq 1..Len(FileRows[r]) /\ IsFiniteSet(Recorded(r))
           /\ Cardinality(Recorded(r)) \in Nat
<1>1. Recorded(r) \subseteq 1..Len(FileRows[r])
      BY FileIs DEF Recorded
<1>2. IsFiniteSet(1..Len(FileRows[r]))
      BY FileIs, FS_Interval
<1>3. IsFiniteSet(Recorded(r))
      BY <1>1, <1>2, FS_Subset
<1> QED BY <1>1, <1>3, FS_CardinalityType

\* The counters of those who do not move, and of the runs that do not change.
LEMMA CountStays ==
    ASSUME CatalogueInv, CatalogueAssumption, Grows, NEW w \in Workers, CountOK(w), task'[w] = task[w]
    PROVE  CountOK(w)'
<1> SUFFICES ASSUME NEW r \in Imports, task[w].at \in RowSteps \cup {"finish"}, task[w].run = r
             PROVE  /\ Counts(task[w].rows, task[w].ok, task[w].bad, r, Recorded(r)')
                    /\ task[w].at = "finish" => task[w].rows = <<>>
                    /\ task[w].at \in {"index", "ask"} =>
                          Len(FileRows[r]) - Len(task[w].rows) + 1 \in Recorded(r)'
    BY DEF CountOK
<1>1. w \in Importers
      BY DEF Importers
<1>2. task[w].ok \in Nat /\ Recorded(r) \subseteq Recorded(r)'
      BY <1>1, TaskTypes DEF Grows
<1>3. Counts(task[w].rows, task[w].ok, task[w].bad, r, Recorded(r))
      BY DEF CountOK
<1>4. Counts(task[w].rows, task[w].ok, task[w].bad, r, Recorded(r)')
      BY <1>2, <1>3, CountsMore
<1> QED BY <1>2, <1>4 DEF CountOK

LEMMA RunStays ==
    ASSUME CatalogueInv, CatalogueAssumption, Grows, NEW r \in Imports, RunOK(r), importRun'[r] = importRun[r]
    PROVE  RunOK(r)'
<1> DEFINE a == Recorded(r)
           b == Recorded(r)'
<1>1. a \subseteq b /\ IsFiniteSet(a) /\ Cardinality(a) \in Nat
      BY RecordedIs DEF Grows
<1>2. b \subseteq 1..Len(FileRows[r])
      BY FileIs DEF Recorded
<1>3. IsFiniteSet(b) /\ Cardinality(b) \in Nat
      <2> HIDE DEF a, b
      <2>1. IsFiniteSet(1..Len(FileRows[r]))
            BY FileIs, FS_Interval
      <2> QED BY <1>2, <2>1, FS_Subset, FS_CardinalityType
<1>4. importRun[r].ok \in Nat
      BY DEF CatalogueInv, CatalogueTypes, RunRow
<1>5. importRun[r].status \in {"COMPLETED", "PARTIAL", "FAILED"} =>
         /\ importRun[r].ok <= Cardinality(a)
         /\ importRun[r].status = "COMPLETED" => a = DOMAIN FileRows[r]
      BY DEF RunOK
<1> HIDE DEF a, b
<1>6. Cardinality(a) <= Cardinality(b)
      BY <1>1, <1>3, FS_Subset
<1>7. importRun[r].status \in {"COMPLETED", "PARTIAL", "FAILED"} =>
         /\ importRun[r].ok <= Cardinality(b)
         /\ importRun[r].status = "COMPLETED" => b = DOMAIN FileRows[r]
      <2>1. a = DOMAIN FileRows[r] => b = DOMAIN FileRows[r]
            BY <1>1, <1>2, FileIs
      <2>2. importRun[r].ok <= Cardinality(a) => importRun[r].ok <= Cardinality(b)
            BY <1>1, <1>3, <1>4, <1>6
      <2> QED BY <1>5, <2>1, <2>2
<1> QED BY <1>7 DEF RunOK, b

LEMMA CountMoves ==
    ASSUME CountInv, CatalogueInv', CatalogueAssumption, Grows, NEW k \in Importers,
           \A l \in Importers \ {k} : task'[l] = task[l],
           k \in Workers => CountOK(k)',
           \A r \in Imports : importRun'[r] = importRun[r] \/ RunOK(r)'
    PROVE  CountInv'
<1>1. \A w \in Workers : CountOK(w)'
      BY CountStays DEF CountInv, Importers
<1>2. \A r \in Imports : RunOK(r)'
      BY RunStays DEF CountInv
<1> QED BY <1>1, <1>2 DEF CountInv

LEMMA PricesStay ==
    ASSUME prices' = prices
    PROVE  Grows /\ \A r \in Imports : Recorded(r)' = Recorded(r)
BY DEF Grows, Recorded

\* The worker's row is done with.
LEMMA CountsNextRow ==
    ASSUME CountInv, CatalogueAssumption, PlatformAssumption, NEW w \in Workers, task[w].at \in RowSteps,
           prices' = prices, NEW ok \in {0, 1}, NEW bad \in {0, 1}, ok + bad = 1, NextRow(w, ok, bad),
           ok = 1 => task[w].at \in {"index", "ask"}
    PROVE  CountOK(w)'
<1>1. CatalogueInv /\ w \in Importers /\ CountOK(w)
      BY DEF CountInv, Importers
<1>2. /\ task[w].ok \in Nat /\ task[w].bad \in Nat /\ task[w].rows \in Seq(CatalogueRow)
      /\ task[w].rows # <<>> /\ task[w].run \in Imports
      BY <1>1, TaskTypes DEF RowSteps
<1>3. /\ task'[w].at = IF Tail(task[w].rows) = <<>> THEN "finish" ELSE "find"
      /\ task'[w].rows = Tail(task[w].rows) /\ task'[w].run = task[w].run
      /\ task'[w].ok = task[w].ok + ok /\ task'[w].bad = task[w].bad + bad
      <2>1. ok \in Nat /\ bad \in Nat
            OBVIOUS
      <2> QED BY <1>1, <2>1, NextRowIs
<1> SUFFICES ASSUME NEW r \in Imports, task[w].run = r
             PROVE  Counts(Tail(task[w].rows), task[w].ok + ok, task[w].bad + bad, r, Recorded(r))
    BY <1>3, PricesStay DEF CountOK
<1>4. /\ Counts(task[w].rows, task[w].ok, task[w].bad, r, Recorded(r))
      /\ ok = 1 => Len(FileRows[r]) - Len(task[w].rows) + 1 \in Recorded(r)
      BY <1>1 DEF CountOK, RowSteps
<1> QED BY <1>2, <1>4, CountsNext

LEMMA CountsSame ==
    ASSUME CountInv, NEW w \in Workers, prices' = prices, task[w].at \in RowSteps, task'[w].at # "finish",
           task'[w].at \in {"index", "ask"} => task[w].at \in {"index", "ask"},
           task'[w].rows = task[w].rows, task'[w].run = task[w].run,
           task'[w].ok = task[w].ok, task'[w].bad = task[w].bad
    PROVE  CountOK(w)'
<1>1. CountOK(w) /\ \A r \in Imports : Recorded(r)' = Recorded(r)
      BY PricesStay DEF CountInv
<1> QED BY <1>1 DEF CountOK

LEMMA CountsIdle ==
    ASSUME NEW w \in Workers, task'[w].at \notin RowSteps \cup {"finish"}
    PROVE  CountOK(w)'
BY DEF CountOK

\* The price of the row is recorded, and none is lost.
LEMMA CountsRecordPrice ==
    ASSUME CountInv, CatalogueAssumption, NEW k \in Importers, RecordPrice(k)
    PROVE  Grows /\ (k \in Workers => CountOK(k)')
<1> DEFINE p == task[k].found
           c == RowAt(k).price
<1>0. CatalogueInv
      BY DEF CountInv
<1>1. /\ task[k].at = "record" /\ task'[k].at = "index" /\ p \in Products
      /\ task'[k].rows = task[k].rows /\ task'[k].run = task[k].run
      /\ task'[k].ok = task[k].ok /\ task'[k].bad = task[k].bad
      /\ \A q \in Products \ {p} : prices'[q] = prices[q]
      /\ prices'[p] = Append(prices[p], c) /\ prices[p] \in Seq(Cost)
      BY <1>0, RecordPriceIs
<1>2. /\ \A n \in DOMAIN prices[p] : n \in DOMAIN prices'[p] /\ prices'[p][n] = prices[p][n]
      /\ Len(prices[p]) + 1 \in DOMAIN prices'[p] /\ prices'[p][Len(prices[p]) + 1] = c
      <2> HIDE DEF p, c
      <2> QED BY <1>1
<1>3. \A q \in Products : \A n \in DOMAIN prices[q] : n \in DOMAIN prices'[q] /\ prices'[q][n] = prices[q][n]
      <2> HIDE DEF p
      <2> QED BY <1>1, <1>2
<1>4. Grows
      BY <1>3 DEF Grows, Recorded
<1>5. ASSUME k \in Workers, NEW r \in Imports, task[k].run = r
      PROVE  /\ Counts(task[k].rows, task[k].ok, task[k].bad, r, Recorded(r)')
             /\ Len(FileRows[r]) - Len(task[k].rows) + 1 \in Recorded(r)'
      <2> DEFINE rows == task[k].rows
                 done == Len(FileRows[r]) - Len(rows)
      <2>1. /\ Counts(rows, task[k].ok, task[k].bad, r, Recorded(r))
            /\ rows \in Seq(CatalogueRow) /\ rows # <<>> /\ task[k].ok \in Nat
            BY <1>0, <1>1, <1>5, TaskTypes DEF CountInv, CountOK, RowSteps
      <2>2. Counts(rows, task[k].ok, task[k].bad, r, Recorded(r)')
            BY <2>1, <1>4, CountsMore DEF Grows
      <2>3. done \in Nat /\ \A i \in 1..Len(rows) : rows[i] = FileRows[r][done + i]
            BY <2>1 DEF Counts
      <2>4. c = rows[1].price /\ 1 \in 1..Len(rows) /\ Len(rows) \in Nat \ {0}
            BY <2>1 DEF RowAt
      <2>5. c = FileRows[r][done + 1].price
            <3> HIDE DEF rows, done, c
            <3> QED BY <2>3, <2>4
      <2>6. done + 1 \in DOMAIN FileRows[r]
            <3> HIDE DEF rows
            <3> QED BY <2>3, <2>4, FileIs
      <2>7. \E q \in Products : \E n \in DOMAIN prices'[q] : prices'[q][n] = FileRows[r][done + 1].price
            <3> HIDE DEF p, c, done, rows
            <3> QED BY <1>1, <1>2, <2>5
      <2> HIDE DEF rows, done
      <2>8. done + 1 \in Recorded(r)'
            BY <2>6, <2>7 DEF Recorded
      <2> QED BY <2>2, <2>8 DEF rows, done
<1>6. k \in Workers => CountOK(k)'
      BY <1>1, <1>5 DEF CountOK
<1> QED BY <1>4, <1>6

\* What the row of a run that ends says.
LEMMA CountsCloseRun ==
    ASSUME CountInv, CatalogueAssumption, NEW w \in Workers, NEW status \in {"COMPLETED", "PARTIAL", "FAILED"},
           NEW total \in Nat, task[w].at \in {"read", "finish"}, CloseRun(w, status, total),
           status = "COMPLETED" => task[w].at = "finish" /\ task[w].bad = 0
    PROVE  \E r \in Imports : r = task[w].run /\ RunOK(r)'
<1>0. CatalogueInv /\ w \in Importers
      BY DEF CountInv, Importers
<1>1. PICK r \in Imports : r = task[w].run
      BY <1>0, CloseRunIs
<1>2. /\ importRun'[r].status = status /\ importRun'[r].ok = task[w].ok /\ prices' = prices
      BY <1>0, <1>1, CloseRunIs DEF CloseRun, rowVars
<1>3. /\ task[w].ok <= Cardinality(Recorded(r))
      /\ task[w].at = "finish" /\ task[w].bad = 0 => Recorded(r) = 1..Len(FileRows[r])
      <2>1. CASE task[w].at = "read"
            <3>1. task[w].ok = 0
                  BY <1>0, <2>1 DEF CatalogueInv, TaskOK
            <3>2. Cardinality(Recorded(r)) \in Nat
                  BY RecordedIs
            <3> QED BY <2>1, <3>1, <3>2
      <2>2. CASE task[w].at = "finish"
            <3> DEFINE n == Len(FileRows[r])
            <3>1. Counts(<<>>, task[w].ok, task[w].bad, r, Recorded(r))
                  BY <1>1, <2>2 DEF CountInv, CountOK
            <3>2. n - Len(<<>>) = n
                  BY FileIs
            <3>3. /\ task[w].ok <= Cardinality(Recorded(r) \cap 1..n)
                  /\ task[w].bad = 0 => 1..n \subseteq Recorded(r)
                  BY <3>1, <3>2 DEF Counts
            <3>4. Recorded(r) \subseteq 1..n
                  BY RecordedIs
            <3>5. Recorded(r) \cap 1..n = Recorded(r)
                  BY <3>4
            <3> QED BY <3>3, <3>4, <3>5
      <2> QED BY <2>1, <2>2
<1>4. Recorded(r)' = Recorded(r)
      BY <1>2, PricesStay
<1>5. RunOK(r)'
      BY <1>2, <1>3, <1>4, FileIs DEF RunOK
<1> QED BY <1>1, <1>5

LEMMA CountStep ==
    CountInv /\ [CatalogueNext]_catalogueVars /\ CatalogueAssumption /\ PlatformAssumption => CountInv'
<1> SUFFICES ASSUME CountInv, [CatalogueNext]_catalogueVars, CatalogueAssumption, PlatformAssumption
             PROVE  CountInv'
    OBVIOUS
<1>1. CatalogueInv /\ CatalogueInv'
      BY CatalogueStep DEF CountInv
<1>2. ASSUME NEW k \in Importers, TaskMoved(k), prices' = prices, importRun' = importRun,
             k \in Workers => CountOK(k)'
      PROVE  CountInv'
      BY <1>1, <1>2, PricesStay, CountMoves DEF TaskMoved
<1>3. ASSUME NEW k \in Importers, Begins(k) PROVE CountInv'
      <2>1. PICK r \in Imports : \/ k \in Handlers /\ CreatePendingRun(k, r)
                                 \/ k \in Workers /\ StartImport(k, r)
            BY <1>3 DEF Begins
      <2>2. /\ TaskMoved(k) /\ task'[k].at \in {"enqueue", "read"}
            /\ importRun'[r].status \in {"PENDING", "RUNNING"}
            /\ \A q \in Imports \ {r} : importRun'[q] = importRun[q]
            BY <1>1, <2>1, BeginsIs
      <2>3. prices' = prices
            BY <2>1 DEF CreatePendingRun, StartImport, rowVars
      <2>4. k \in Workers => CountOK(k)'
            BY <2>2, CountsIdle DEF RowSteps
      <2>5. RunOK(r)'
            BY <2>2 DEF RunOK
      <2>6. \A q \in Imports : importRun'[q] = importRun[q] \/ RunOK(q)'
            BY <2>2, <2>5
      <2> QED BY <1>1, <2>2, <2>3, <2>4, <2>6, PricesStay, CountMoves DEF TaskMoved
<1>4. ASSUME NEW k \in Importers, Ends(k) PROVE CountInv'
      <2>1. PICK status \in {"COMPLETED", "PARTIAL", "FAILED"}, total \in Nat :
              /\ task[k].at \in {"read", "finish"} /\ CloseRun(k, status, total)
              /\ status = "COMPLETED" => task[k].at = "finish" /\ task[k].bad = 0
            BY <1>1, <1>4, EndsIs
      <2>2. k \in Workers
            BY <1>4 DEF Ends
      <2>3. /\ TaskMoved(k) /\ task'[k].at = "idle"
            /\ \A q \in Imports \ {task[k].run} : importRun'[q] = importRun[q]
            BY <1>1, <2>1, <2>2, CloseRunIs
      <2>4. prices' = prices
            BY <2>1 DEF CloseRun, rowVars
      <2>5. CountOK(k)'
            BY <2>2, <2>3, CountsIdle DEF RowSteps
      <2>6. PICK r \in Imports : r = task[k].run /\ RunOK(r)'
            BY <2>1, <2>2, CountsCloseRun
      <2>7. \A q \in Imports : importRun'[q] = importRun[q] \/ RunOK(q)'
            BY <2>3, <2>6
      <2> QED BY <1>1, <2>3, <2>4, <2>5, <2>7, PricesStay, CountMoves DEF TaskMoved
<1>5. ASSUME NEW k \in Importers, Drops(k) PROVE CountInv'
      <2>1. task' = [task EXCEPT ![k] = Resting] /\ prices' = prices /\ importRun' = importRun
            BY <1>5 DEF Drops, ImporterDies, AddImportJob, rowVars, searchVars
      <2>2. TaskMoved(k) /\ task'[k].at = "idle"
            BY <1>1, <2>1, Rests
      <2>3. k \in Workers => CountOK(k)'
            BY <2>2, CountsIdle DEF RowSteps
      <2> QED BY <1>2, <2>1, <2>2, <2>3
<1>6. ASSUME NEW k \in Importers, k \in Workers, ReadFile(k) PROVE CountInv'
      <2>1. prices' = prices /\ importRun' = importRun
            BY <1>6 DEF ReadFile, rowVars, searchVars
      <2>2. /\ TaskMoved(k) /\ task'[k].at = (IF FileRows[task[k].run] = <<>> THEN "finish" ELSE "find")
            /\ task'[k].run = task[k].run
            /\ task'[k].rows = FileRows[task[k].run] /\ task'[k].ok = 0 /\ task'[k].bad = 0
            BY <1>1, <1>6, ReadFileIs
      <2>3. \A r \in Imports : Counts(FileRows[r], 0, 0, r, Recorded(r)')
            BY CountsAtFirst
      <2>4. CountOK(k)'
            BY <2>2, <2>3 DEF CountOK
      <2> QED BY <1>2, <2>1, <2>2, <2>4
<1>7. ASSUME NEW k \in Importers, k \in Handlers, NEW row \in Approvals, ApplySubmission(k, row) PROVE CountInv'
      <2>1. prices' = prices /\ importRun' = importRun
            BY <1>7 DEF ApplySubmission, rowVars, searchVars
      <2>2. k \notin Workers
            BY <1>7 DEF PlatformAssumption
      <2> QED BY <1>1, <1>2, <1>7, <2>1, <2>2, ApplyIs
<1>8. ASSUME NEW k \in Importers, FindProduct(k) \/ UpsertProduct(k) PROVE CountInv'
      <2>1. prices' = prices /\ importRun' = importRun
            BY <1>8 DEF FindProduct, UpsertProduct, rowVars, searchVars
      <2>2. /\ TaskMoved(k) /\ task[k].at \in RowSteps /\ task'[k].at # "finish"
            /\ k \in Workers => task'[k].at \notin {"index", "ask"}
            /\ task'[k].rows = task[k].rows /\ task'[k].run = task[k].run
            /\ task'[k].ok = task[k].ok /\ task'[k].bad = task[k].bad
            BY <1>1, <1>8, FindProductIs, UpsertProductIs DEF RowSteps, PlatformAssumption
      <2>3. k \in Workers => CountOK(k)'
            BY <2>1, <2>2, CountsSame
      <2> QED BY <1>2, <2>1, <2>2, <2>3
<1>9. ASSUME NEW k \in Importers, RecordPrice(k) PROVE CountInv'
      <2>1. importRun' = importRun
            BY <1>9 DEF RecordPrice
      <2>2. TaskMoved(k)
            BY <1>1, <1>9, RecordPriceIs
      <2>3. Grows /\ (k \in Workers => CountOK(k)')
            BY <1>9, CountsRecordPrice
      <2> QED BY <1>1, <2>1, <2>2, <2>3, CountMoves DEF TaskMoved
<1>10. ASSUME NEW k \in Importers, IndexPrice(k) PROVE CountInv'
      <2>1. prices' = prices /\ importRun' = importRun
            BY <1>10 DEF IndexPrice
      <2>2. /\ TaskMoved(k) /\ task[k].at = "index" /\ task[k].at \in RowSteps
            /\ IF task[k].ask THEN Goto(k, "ask") ELSE NextRow(k, 1, 0)
            BY <1>1, <1>10, IndexPriceIs DEF RowSteps
      <2>3. ASSUME k \in Workers, task[k].ask PROVE CountOK(k)'
            <3>1. /\ task'[k].at = "ask" /\ task'[k].rows = task[k].rows /\ task'[k].run = task[k].run
                  /\ task'[k].ok = task[k].ok /\ task'[k].bad = task[k].bad
                  BY <1>1, <2>2, <2>3, GotoIs
            <3> QED BY <2>1, <2>2, <2>3, <3>1, CountsSame
      <2>4. ASSUME k \in Workers, ~task[k].ask PROVE CountOK(k)'
            <3>1. NextRow(k, 1, 0) /\ 1 + 0 = 1
                  BY <2>2, <2>4
            <3> QED BY <2>1, <2>2, <2>4, <3>1, CountsNextRow
      <2> QED BY <1>2, <2>1, <2>2, <2>3, <2>4
<1>11. ASSUME NEW k \in Importers, AskMatching(k) PROVE CountInv'
      <2>1. prices' = prices /\ importRun' = importRun
            BY <1>11 DEF AskMatching
      <2>2. /\ TaskMoved(k) /\ task[k].at = "ask" /\ task[k].at \in RowSteps
            /\ k \in Workers => NextRow(k, 1, 0)
            BY <1>1, <1>11, AskMatchingIs DEF RowSteps
      <2>3. k \in Workers => CountOK(k)'
            <3>1. 1 + 0 = 1
                  OBVIOUS
            <3> QED BY <2>1, <2>2, <3>1, CountsNextRow
      <2> QED BY <1>2, <2>1, <2>2, <2>3
<1>12. ASSUME NEW k \in Importers, RowFails(k) PROVE CountInv'
      <2>1. prices' = prices /\ importRun' = importRun
            BY <1>12 DEF RowFails
      <2>2. TaskMoved(k) /\ task[k].at \in RowSteps /\ NextRow(k, 0, 1)
            BY <1>1, <1>12, RowFailsIs
      <2>3. k \in Workers => CountOK(k)'
            <3>1. 0 + 1 = 1 /\ 0 \in {0, 1} /\ 1 \in {0, 1} /\ 0 # 1
                  OBVIOUS
            <3> QED BY <2>1, <2>2, <3>1, CountsNextRow
      <2> QED BY <1>2, <2>1, <2>2, <2>3
<1>13. ASSUME task' = task, prices' = prices, importRun' = importRun PROVE CountInv'
      <2>1. \A r \in Imports : Recorded(r)' = Recorded(r)
            BY <1>13, PricesStay
      <2>2. \A w \in Workers : CountOK(w)'
            <3>1. ASSUME NEW w \in Workers PROVE CountOK(w)'
                  <4>1. CountOK(w) /\ task'[w] = task[w]
                        BY <1>13 DEF CountInv
                  <4> QED BY <2>1, <4>1 DEF CountOK
            <3> QED BY <3>1
      <2>3. \A r \in Imports : RunOK(r)'
            BY <1>13, <2>1 DEF CountInv, RunOK
      <2> QED BY <1>1, <2>2, <2>3 DEF CountInv
<1>14. CASE Matching
      BY <1>13, <1>14 DEF Matching, MatchProduct, MatchingGivenUp
<1>15. CASE SearchNext
      BY <1>1, <1>13, <1>15, SearchStays
<1>16. CASE UNCHANGED catalogueVars
      BY <1>13, <1>16 DEF catalogueVars
<1> QED BY <1>3, <1>4, <1>5, <1>6, <1>7, <1>8, <1>9, <1>10, <1>11, <1>12, <1>14, <1>15, <1>16,
           CatalogueSteps DEF RowStep

\* ingestion.service.ts:154, for every number of runs, rows, workers and
\* approvals: the counters of a run that ended are true of the recorded prices.
THEOREM CountsTrue == CatalogueSpec => []CountsAreRecorded
<1> USE CatalogueAssumption, PlatformAssumption
<1>1. CatalogueInit => CountInv
      <2> SUFFICES ASSUME CatalogueInit PROVE CountInv
          OBVIOUS
      <2>1. CatalogueInv
            BY CatalogueStarts
      <2>2. \A k \in Importers : task[k].at = "idle"
            BY RestingIs DEF CatalogueInit
      <2>3. \A w \in Workers : CountOK(w)
            BY <2>2 DEF CountOK, Importers, RowSteps
      <2>4. \A r \in Imports : RunOK(r)
            BY DEF CatalogueInit, NoImport, RunOK
      <2> QED BY <2>1, <2>3, <2>4 DEF CountInv
<1>2. CountInv /\ [CatalogueNext]_catalogueVars => CountInv'
      BY CountStep
<1>3. CountInv => CountsAreRecorded
      <2> SUFFICES ASSUME CountInv, NEW r \in Imports,
                          importRun[r].status \in {"COMPLETED", "PARTIAL", "FAILED"}
                   PROVE  LET wanted == {FileRows[r][i] : i \in DOMAIN FileRows[r]}
                              present == {row \in wanted : \E p \in Products : \E i \in DOMAIN prices[p] :
                                                               prices[p][i] = row.price}
                          IN /\ importRun[r].ok <=
                                   Cardinality({i \in DOMAIN FileRows[r] : FileRows[r][i] \in present})
                             /\ importRun[r].status = "COMPLETED" => present = wanted
          BY DEF CountsAreRecorded
      <2> DEFINE wanted == {FileRows[r][i] : i \in DOMAIN FileRows[r]}
                 present == {row \in wanted : \E p \in Products : \E i \in DOMAIN prices[p] :
                                                  prices[p][i] = row.price}
      <2>1. {i \in DOMAIN FileRows[r] : FileRows[r][i] \in present} = Recorded(r)
            BY DEF Recorded
      <2>2. Recorded(r) = DOMAIN FileRows[r] => present = wanted
            BY DEF Recorded
      <2>3. /\ importRun[r].ok <= Cardinality(Recorded(r))
            /\ importRun[r].status = "COMPLETED" => Recorded(r) = DOMAIN FileRows[r]
            BY DEF CountInv, RunOK
      <2> HIDE DEF wanted, present
      <2>4. /\ importRun[r].ok <= Cardinality({i \in DOMAIN FileRows[r] : FileRows[r][i] \in present})
            /\ importRun[r].status = "COMPLETED" => present = wanted
            BY <2>1, <2>2, <2>3
      <2> QED BY <2>4 DEF wanted, present
<1> QED BY <1>1, <1>2, <1>3, PTL DEF CatalogueSpec

-----------------------------------------------------------------------------
\* Matching follows names.

Asked(p) == \E k \in Importers : task[k].found = p /\ task[k].ask

NamedOK(p) ==
    product[p] # Nothing /\ p \notin matchJobs \cup unasked =>
       Asked(p) \/ Accepted(product[p].name, embedding[p]) \subseteq matches[p]

NamesInv == CatalogueInv /\ \A p \in Products : NamedOK(p)

LEMMA NamesIs == NamesInv => NamesAreMatched
BY DEF NamesInv, NamedOK, NamesAreMatched, Known, Asked

LEMMA NamesInit == CatalogueInit /\ CatalogueAssumption => NamesInv
<1> SUFFICES ASSUME CatalogueInit, CatalogueAssumption PROVE NamesInv
    OBVIOUS
<1>1. CatalogueInv
      BY CatalogueStarts
<1>2. \A p \in Products : product[p] = Nothing
      BY DEF CatalogueInit
<1> QED BY <1>1, <1>2 DEF NamesInv, NamedOK

\* The one who asks moves on and still asks, or the product is among those broken off.
LEMMA NamesMove ==
    ASSUME NamesInv, CatalogueInv', NEW k \in Importers, \A l \in Importers \ {k} : task'[l] = task[l],
           UNCHANGED <<product, embedding, matches, matchJobs>>, unasked \subseteq unasked',
           task[k].ask => (task'[k].ask /\ task'[k].found = task[k].found) \/ task[k].found \in unasked'
    PROVE  NamesInv'
<1>1. ASSUME NEW p \in Products PROVE NamedOK(p)'
      <2>1. NamedOK(p)
            BY DEF NamesInv
      <2>2. Asked(p) => Asked(p)' \/ p \in unasked'
            BY DEF Asked
      <2> QED BY <2>1, <2>2 DEF NamedOK
<1> QED BY <1>1 DEF NamesInv

LEMMA NamesUpsert ==
    ASSUME NamesInv, CatalogueInv', PlatformAssumption, NEW k \in Importers, UpsertProduct(k)
    PROVE  NamesInv'
<1>1. CatalogueInv
      BY DEF NamesInv
<1>2. PICK p \in Products :
         /\ TaskMoved(k) /\ ~task[k].ask
         /\ task'[k].found = p /\ task'[k].ask = NeedsMatching(product[p], RowAt(k).name)
         /\ product'[p].name = RowAt(k).name
         /\ \A q \in Products \ {p} : product'[q] = product[q]
      BY <1>1, UpsertProductIs
<1>3. UNCHANGED <<embedding, matches, matchJobs, unasked>>
      BY DEF UpsertProduct
<1>4. \A q \in Products : Asked(q) => Asked(q)'
      BY <1>2 DEF Asked, TaskMoved
<1>5. ASSUME NEW q \in Products PROVE NamedOK(q)'
      <2>1. NamedOK(q)
            BY DEF NamesInv
      <2>2. CASE q # p
            BY <1>2, <1>3, <1>4, <2>1, <2>2 DEF NamedOK
      <2>3. CASE q = p /\ task'[k].ask
            BY <1>2, <2>3 DEF NamedOK, Asked
      <2>4. CASE q = p /\ ~task'[k].ask
            <3>1. product[p] # Nothing /\ product[p].name = product'[p].name
                  BY <1>2, <2>4 DEF NeedsMatching
            <3> QED BY <1>3, <1>4, <2>1, <2>4, <3>1 DEF NamedOK
      <2> QED BY <2>2, <2>3, <2>4
<1> QED BY <1>5 DEF NamesInv

LEMMA NamesMatch ==
    ASSUME NamesInv, CatalogueInv', Matching
    PROVE  NamesInv'
<1>1. CatalogueTypes /\ \A p \in Products : NamedOK(p)
      BY DEF NamesInv, CatalogueInv
<1>2. PICK p \in Products : MatchProduct(p) \/ MatchingGivenUp(p)
      BY DEF Matching
<1>3. UNCHANGED <<task, product>>
      BY <1>2 DEF MatchProduct, MatchingGivenUp
<1>4. \A q \in Products : Asked(q)' <=> Asked(q)
      BY <1>3 DEF Asked
<1>5. ASSUME MatchProduct(p), NEW q \in Products PROVE NamedOK(q)'
      <2>1. /\ matches' = [matches EXCEPT ![p] = matches[p] \cup Accepted(product[p].name, embedding'[p])]
            /\ matchJobs' = matchJobs \ {p} /\ unasked' = unasked
            /\ \A r \in Products \ {p} : embedding'[r] = embedding[r]
            BY <1>1, <1>5 DEF MatchProduct, CatalogueTypes
      <2>2. CASE q = p
            <3>1. Accepted(product[p].name, embedding'[p]) \subseteq matches'[p]
                  BY <1>1, <2>1 DEF CatalogueTypes
            <3> QED BY <1>3, <2>2, <3>1 DEF NamedOK
      <2>3. CASE q # p
            <3>1. matches'[q] = matches[q] /\ embedding'[q] = embedding[q]
                  BY <1>1, <2>1, <2>3 DEF CatalogueTypes
            <3>2. NamedOK(q)
                  BY <1>1
            <3> QED BY <1>3, <1>4, <2>1, <2>3, <3>1, <3>2 DEF NamedOK
      <2> QED BY <2>2, <2>3
<1>6. ASSUME MatchingGivenUp(p), NEW q \in Products PROVE NamedOK(q)'
      BY <1>1, <1>4, <1>6 DEF MatchingGivenUp, NamedOK
<1> QED BY <1>2, <1>5, <1>6 DEF NamesInv

LEMMA NamesStep ==
    NamesInv /\ [CatalogueNext]_catalogueVars /\ CatalogueAssumption /\ PlatformAssumption => NamesInv'
<1> SUFFICES ASSUME NamesInv, [CatalogueNext]_catalogueVars, CatalogueAssumption, PlatformAssumption
             PROVE  NamesInv'
    OBVIOUS
<1>1. CatalogueInv /\ CatalogueInv'
      BY CatalogueStep DEF NamesInv
<1>2. ASSUME NEW k \in Importers, task[k].at \notin {"record", "index", "ask"} PROVE ~task[k].ask
      BY <1>1, <1>2 DEF CatalogueInv, TaskOK
<1>3. ASSUME NEW k \in Importers, TaskMoved(k), ~task[k].ask, unasked \subseteq unasked',
             UNCHANGED <<product, embedding, matches, matchJobs>>
      PROVE  NamesInv'
      BY <1>1, <1>3, NamesMove DEF TaskMoved
<1>4. ASSUME NEW k \in Importers, Begins(k) \/ (k \in Workers /\ ReadFile(k))
                                   \/ (k \in Handlers /\ \E row \in Approvals : ApplySubmission(k, row))
      PROVE  NamesInv'
      <2>1. UNCHANGED <<product, embedding, matches, matchJobs, unasked>>
            BY <1>4 DEF Begins, ReadFile, ApplySubmission, CreatePendingRun, StartImport, rowVars
      <2>2. TaskMoved(k) /\ task[k].at \notin {"record", "index", "ask"}
            BY <1>1, <1>4, BeginsIs, ReadFileIs, ApplyIs DEF Begins
      <2> QED BY <1>2, <1>3, <2>1, <2>2
<1>5. ASSUME NEW k \in Importers, Ends(k) PROVE NamesInv'
      <2>1. PICK status \in {"COMPLETED", "PARTIAL", "FAILED"}, total \in Nat :
              task[k].at \in {"read", "finish"} /\ CloseRun(k, status, total)
            BY <1>1, <1>5, EndsIs
      <2>2. TaskMoved(k)
            BY <1>1, <1>5, <2>1, CloseRunIs DEF Ends
      <2>3. UNCHANGED <<product, embedding, matches, matchJobs, unasked>>
            BY <2>1 DEF CloseRun, rowVars
      <2> QED BY <1>2, <1>3, <2>1, <2>2, <2>3
<1>6. ASSUME NEW k \in Importers, Drops(k) PROVE NamesInv'
      <2>1. task' = [task EXCEPT ![k] = Resting] /\ UNCHANGED <<product, embedding, matches, matchJobs>>
            BY <1>6 DEF Drops, ImporterDies, AddImportJob, rowVars
      <2>2. unasked \subseteq unasked' /\ (task[k].ask => task[k].found \in unasked')
            <3>1. CASE ImporterDies(k)
                  BY <3>1 DEF ImporterDies, BrokenOff
            <3>2. CASE AddImportJob(k)
                  BY <1>2, <3>2 DEF AddImportJob, rowVars
            <3> QED BY <1>6, <3>1, <3>2 DEF Drops
      <2>3. TaskMoved(k)
            BY <1>1, <2>1, Rests
      <2> QED BY <1>1, <2>1, <2>2, <2>3, NamesMove DEF TaskMoved
<1>7. ASSUME NEW k \in Importers, FindProduct(k) PROVE NamesInv'
      <2>1. UNCHANGED <<product, embedding, matches, matchJobs, unasked>>
            BY <1>7 DEF FindProduct, rowVars
      <2> QED BY <1>1, <1>3, <1>7, <2>1, FindProductIs
<1>8. ASSUME NEW k \in Importers, UpsertProduct(k) PROVE NamesInv'
      BY <1>1, <1>8, NamesUpsert
<1>9. ASSUME NEW k \in Importers, RecordPrice(k) \/ IndexPrice(k) PROVE NamesInv'
      <2>1. UNCHANGED <<product, embedding, matches, matchJobs, unasked>>
            BY <1>9 DEF RecordPrice, IndexPrice
      <2>2. TaskMoved(k) /\ (task[k].ask => task'[k].ask /\ task'[k].found = task[k].found)
            BY <1>1, <1>9, RecordPriceIs, IndexPriceIs
      <2> QED BY <1>1, <2>1, <2>2, NamesMove DEF TaskMoved
<1>10. ASSUME NEW k \in Importers, AskMatching(k) PROVE NamesInv'
      <2>1. /\ UNCHANGED <<product, embedding, matches>>
            /\ matchJobs' = matchJobs \cup {task[k].found} /\ unasked' = unasked \ {task[k].found}
            BY <1>10 DEF AskMatching
      <2>2. TaskMoved(k)
            BY <1>1, <1>10, AskMatchingIs
      <2>3. ASSUME NEW p \in Products PROVE NamedOK(p)'
            <3>1. NamedOK(p)
                  BY DEF NamesInv
            <3>2. p # task[k].found /\ Asked(p) => Asked(p)'
                  BY <2>2 DEF Asked, TaskMoved
            <3> QED BY <2>1, <3>1, <3>2 DEF NamedOK
      <2> QED BY <1>1, <2>3 DEF NamesInv
<1>11. ASSUME NEW k \in Importers, RowFails(k) PROVE NamesInv'
      <2>1. UNCHANGED <<product, embedding, matches, matchJobs>>
            BY <1>11 DEF RowFails
      <2>2. unasked \subseteq unasked' /\ (task[k].ask => task[k].found \in unasked')
            BY <1>11 DEF RowFails, BrokenOff
      <2>3. TaskMoved(k)
            BY <1>1, <1>11, RowFailsIs
      <2> QED BY <1>1, <2>1, <2>2, <2>3, NamesMove DEF TaskMoved
<1>12. CASE Matching
      BY <1>1, <1>12, NamesMatch
<1>13. ASSUME UNCHANGED <<product, matches, embedding, matchJobs, task, unasked>> PROVE NamesInv'
      BY <1>1, <1>13 DEF NamesInv, NamedOK, Asked
<1>14. CASE SearchNext
      BY <1>1, <1>13, <1>14, SearchStays
<1>15. CASE UNCHANGED catalogueVars
      BY <1>13, <1>15 DEF catalogueVars
<1> QED BY <1>4, <1>5, <1>6, <1>7, <1>8, <1>9, <1>10, <1>11, <1>12, <1>14, <1>15, CatalogueSteps DEF RowStep

-----------------------------------------------------------------------------
\* The index follows the prices.

\* k is about to index p.
Indexes(k, p) == task[k].at = "index" /\ task[k].found = p

LEMMA WritersAre ==
    /\ \A p \in Products, k \in Importers : Indexes(k, p) => k \in Writers(p)
    /\ \A p \in Products : sync.of = p => "sync" \in Writers(p)
    /\ \A p \in Products : \A k \in Writers(p) :
          (k \in Importers /\ Indexes(k, p)) \/ (k = "sync" /\ sync.of = p)
BY DEF Writers, Indexes

LEMMA IndexIs == IndexInv => IndexFollowsPrices
<1> SUFFICES ASSUME IndexInv, NEW p \in Products \ stained, doc[p] # Nothing, Writers(p) = {}
             PROVE  IF prices[p] = <<>> THEN doc[p].priced = Nothing
                    ELSE doc[p].priced = prices[p][Len(prices[p])]
    BY DEF IndexFollowsPrices
<1>1. doc[p].priced = LatestPrice(p)
      BY DEF IndexInv, IndexOK
<1> QED BY <1>1 DEF LatestPrice

LEMMA IndexInit == CatalogueInit /\ CatalogueAssumption /\ PlatformAssumption => IndexInv
<1> SUFFICES ASSUME CatalogueInit, CatalogueAssumption, PlatformAssumption PROVE IndexInv
    OBVIOUS
<1>1. CatalogueInv
      BY CatalogueStarts
<1>2. sync.of = Nothing /\ sync.left = {}
      BY DEF CatalogueInit, SyncIdle
<1>3. \A k \in Importers : task[k].at = "idle"
      BY RestingIs DEF CatalogueInit
<1>4. ASSUME NEW p \in Products PROVE IndexOK(p)
      <2>1. \A k \in Importers : ~Indexes(k, p)
            BY <1>3 DEF Indexes
      <2>2. sync.of # p
            BY <1>2 DEF PlatformAssumption
      <2>3. Writers(p) = {}
            BY <2>1, <2>2, WritersAre
      <2>4. doc[p] = Nothing
            BY DEF CatalogueInit
      <2> QED BY <2>1, <2>2, <2>3, <2>4 DEF IndexOK, Indexes
<1> QED BY <1>1, <1>2, <1>4 DEF IndexInv

\* Nothing happens to p but, maybe, the loss of its document.
LEMMA IndexStays ==
    ASSUME IndexInv, NEW p \in Products, prices'[p] = prices[p], doc'[p] = doc[p] \/ doc'[p] = Nothing,
           stained \subseteq stained',
           \A k \in Importers : Indexes(k, p)' <=> Indexes(k, p),
           \A k \in Importers : Indexes(k, p) => task'[k].rows = task[k].rows,
           sync'.of = p <=> sync.of = p, sync'.of = p => sync'.priced = sync.priced
    PROVE  IndexOK(p)'
<1> SUFFICES ASSUME p \notin stained'
             PROVE  /\ \A k, l \in Writers(p)' : k = l
                    /\ \A k \in Importers : Indexes(k, p)' => RowAt(k)'.price = LatestPrice(p)'
                    /\ sync'.of = p => sync'.priced = LatestPrice(p)'
                    /\ doc'[p] # Nothing /\ Writers(p)' = {} => doc'[p].priced = LatestPrice(p)'
    BY DEF IndexOK, Indexes
<1>1. Writers(p)' = Writers(p)
      BY DEF Writers, Indexes
<1>2. LatestPrice(p)' = LatestPrice(p)
      BY DEF LatestPrice
<1>3. /\ \A k, l \in Writers(p) : k = l
      /\ \A k \in Importers : Indexes(k, p) => RowAt(k).price = LatestPrice(p)
      /\ sync.of = p => sync.priced = LatestPrice(p)
      /\ doc[p] # Nothing /\ Writers(p) = {} => doc[p].priced = LatestPrice(p)
      BY DEF IndexInv, IndexOK, Indexes
<1>4. \A k \in Importers : Indexes(k, p) => RowAt(k)' = RowAt(k)
      BY DEF RowAt
<1> QED BY <1>1, <1>2, <1>3, <1>4

\* The first and only one to have a price of p at hand, the latest.
LEMMA IndexTaken ==
    ASSUME NEW p \in Products, NEW k \in Importers \cup {"sync"}, "sync" \notin Importers,
           p \notin stained' => Writers(p) \ {k} = {} /\ Writers(p)' = {k},
           k \in Importers => RowAt(k)'.price = LatestPrice(p)' /\ sync'.of # p,
           k = "sync" => sync'.priced = LatestPrice(p)'
    PROVE  IndexOK(p)'
<1> SUFFICES ASSUME p \notin stained'
             PROVE  /\ \A i, j \in Writers(p)' : i = j
                    /\ \A l \in Importers : Indexes(l, p)' => RowAt(l)'.price = LatestPrice(p)'
                    /\ sync'.of = p => sync'.priced = LatestPrice(p)'
                    /\ doc'[p] # Nothing /\ Writers(p)' = {} => doc'[p].priced = LatestPrice(p)'
    BY DEF IndexOK, Indexes
<1>1. Writers(p)' = {k}
      OBVIOUS
<1>2. \A l \in Importers : Indexes(l, p)' => l = k
      BY <1>1 DEF Writers, Indexes
<1> QED BY <1>1, <1>2

\* The one who had the price of p at hand has written it, or p is stained.
LEMMA IndexWritten ==
    ASSUME NEW p \in Products,
           p \notin stained' => Writers(p)' = {} /\ doc'[p].priced = LatestPrice(p)'
    PROVE  IndexOK(p)'
<1> SUFFICES ASSUME p \notin stained'
             PROVE  /\ \A i, j \in Writers(p)' : i = j
                    /\ \A l \in Importers : Indexes(l, p)' => RowAt(l)'.price = LatestPrice(p)'
                    /\ sync'.of = p => sync'.priced = LatestPrice(p)'
                    /\ doc'[p] # Nothing /\ Writers(p)' = {} => doc'[p].priced = LatestPrice(p)'
    BY DEF IndexOK, Indexes
<1>1. Writers(p)' = {} /\ doc'[p].priced = LatestPrice(p)'
      OBVIOUS
<1>2. sync'.of # p /\ \A l \in Importers : ~Indexes(l, p)'
      BY <1>1 DEF Writers, Indexes
<1> QED BY <1>1, <1>2

\* k moves, and has no price at hand or drops the one it has, of a stained product.
LEMMA IndexMoves ==
    ASSUME IndexInv, CatalogueInv', NEW k \in Importers, \A l \in Importers \ {k} : task'[l] = task[l],
           task[k].at = "index" => task[k].found \in stained', task'[k].at # "index",
           UNCHANGED <<prices, doc, search, sync>>, stained \subseteq stained'
    PROVE  IndexInv'
<1>1. ASSUME NEW p \in Products PROVE IndexOK(p)'
      <2>1. CASE p \in stained'
            BY <2>1 DEF IndexOK
      <2>2. CASE p \notin stained'
            <3>1. \A l \in Importers : Indexes(l, p)' <=> Indexes(l, p)
                  BY <2>2 DEF Indexes
            <3>2. \A l \in Importers : Indexes(l, p) => task'[l].rows = task[l].rows
                  BY <2>2 DEF Indexes
            <3> QED BY <3>1, <3>2, IndexStays
      <2> QED BY <2>1, <2>2
<1> QED BY <1>1 DEF IndexInv

LEMMA IndexRecordPrice ==
    ASSUME IndexInv, CatalogueInv', CatalogueAssumption, NEW k \in Importers, RecordPrice(k)
    PROVE  IndexInv'
<1> DEFINE p == task[k].found
           c == RowAt(k).price
<1>1. CatalogueInv /\ "sync" \notin Importers /\ k # "sync"
      BY DEF IndexInv, CatalogueAssumption, Importers
<1>2. PICK q \in Products : q = p
      BY <1>1, RecordPriceIs
<1>3. /\ task[k].at = "record" /\ task'[k].at = "index" /\ task[k].found = q /\ task'[k].found = q
      /\ task'[k].rows = task[k].rows /\ \A l \in Importers \ {k} : task'[l] = task[l]
      /\ \A r \in Products \ {q} : prices'[r] = prices[r]
      /\ prices'[q] = Append(prices[q], c) /\ c \in Cost /\ prices[q] \in Seq(Cost)
      BY <1>1, <1>2, RecordPriceIs DEF TaskMoved
<1>4. /\ UNCHANGED <<doc, search, sync>>
      /\ stained' = IF Writers(q) \ {k} # {} THEN stained \cup {q} ELSE stained
      BY <1>2 DEF RecordPrice, Stain, searchVars
<1>5. IndexOK(q)'
      <2>1. q \notin stained' => Writers(q) = {}
            <3>1. k \notin Writers(q)
                  BY <1>1, <1>3 DEF Writers
            <3> QED BY <1>4, <3>1
      <2>2. Writers(q) = {} => sync.of # q /\ \A l \in Importers : ~Indexes(l, q)
            BY DEF Writers, Indexes
      <2>3. Writers(q) = {} => Writers(q)' = {k}
            <3>1. \A l \in Importers \ {k} : Indexes(l, q)' <=> Indexes(l, q)
                  BY <1>3 DEF Indexes
            <3>2. Indexes(k, q)'
                  BY <1>3 DEF Indexes
            <3> QED BY <1>4, <2>2, <3>1, <3>2 DEF Writers, Indexes
      <2>4. LatestPrice(q)' = c
            <3>1. Append(prices[q], c) # <<>> /\ Append(prices[q], c)[Len(Append(prices[q], c))] = c
                  <4> HIDE DEF c
                  <4> QED BY <1>3
            <3> HIDE DEF c
            <3> QED BY <1>3, <3>1 DEF LatestPrice
      <2>5. RowAt(k)'.price = c
            BY <1>3 DEF RowAt
      <2>6. CASE q \in stained'
            BY <2>6 DEF IndexOK
      <2>7. CASE q \notin stained'
            <3> HIDE DEF c, p
            <3> QED BY <1>1, <1>4, <2>1, <2>2, <2>3, <2>4, <2>5, <2>7, IndexTaken
      <2> QED BY <2>6, <2>7
<1>6. ASSUME NEW r \in Products \ {q} PROVE IndexOK(r)'
      <2>1. \A l \in Importers : Indexes(l, r)' <=> Indexes(l, r)
            BY <1>3, <1>6 DEF Indexes
      <2>2. \A l \in Importers : Indexes(l, r) => task'[l].rows = task[l].rows
            BY <1>3 DEF Indexes
      <2>3. prices'[r] = prices[r] /\ doc'[r] = doc[r] /\ stained \subseteq stained'
            BY <1>3, <1>4
      <2> QED BY <1>4, <2>1, <2>2, <2>3, IndexStays
<1> QED BY <1>4, <1>5, <1>6 DEF IndexInv

LEMMA IndexIndexPrice ==
    ASSUME IndexInv, CatalogueInv', CatalogueAssumption, PlatformAssumption, NEW k \in Importers, IndexPrice(k)
    PROVE  IndexInv'
<1>1. CatalogueInv /\ "sync" \notin Importers
      BY DEF IndexInv, CatalogueAssumption, Importers
<1>2. PICK q \in Products : q = task[k].found
      BY <1>1, IndexPriceIs
<1>3. /\ task[k].at = "index" /\ task'[k].at # "index" /\ \A l \in Importers \ {k} : task'[l] = task[l]
      BY <1>1, IndexPriceIs DEF TaskMoved
<1>4. PICK lost \in BOOLEAN :
         /\ IndexDoc(q, RowAt(k).price, lost)
         /\ stained' = IF lost THEN stained \cup {q} ELSE stained
      BY <1>2 DEF IndexPrice
<1>5. UNCHANGED <<prices, sync>>
      BY DEF IndexPrice
<1>6. /\ search'.syncing = search.syncing /\ \A r \in Products \ {q} : doc'[r] = doc[r]
      /\ ~lost => doc'[q].priced = RowAt(k).price
      BY <1>1, <1>4, IndexDocIs
<1>7. IndexOK(q)'
      <2>1. Indexes(k, q) /\ k \in Writers(q)
            BY <1>2, <1>3 DEF Indexes, Writers
      <2>2. ASSUME q \notin stained' PROVE Writers(q)' = {} /\ doc'[q].priced = LatestPrice(q)'
            <3>1. q \notin stained /\ ~lost
                  BY <1>4, <2>2
            <3>2. /\ \A i, j \in Writers(q) : i = j
                  /\ RowAt(k).price = LatestPrice(q)
                  BY <2>1, <3>1 DEF IndexInv, IndexOK, Indexes
            <3>3. \A l \in Importers \ {k} : ~Indexes(l, q)
                  BY <2>1, <3>2, WritersAre
            <3>4. sync.of # q
                  BY <1>1, <2>1, <3>2, WritersAre
            <3>5. \A l \in Importers : ~Indexes(l, q)'
                  BY <1>3, <3>3 DEF Indexes
            <3>6. Writers(q)' = {}
                  BY <1>5, <3>4, <3>5 DEF Writers, Indexes
            <3>7. LatestPrice(q)' = LatestPrice(q)
                  BY <1>5 DEF LatestPrice
            <3> QED BY <1>6, <3>1, <3>2, <3>6, <3>7
      <2> QED BY <2>2, IndexWritten
<1>8. ASSUME NEW r \in Products \ {q} PROVE IndexOK(r)'
      <2>1. \A l \in Importers : Indexes(l, r)' <=> Indexes(l, r)
            BY <1>2, <1>3, <1>8 DEF Indexes
      <2>2. \A l \in Importers : Indexes(l, r) => task'[l].rows = task[l].rows
            BY <1>2, <1>3, <1>8 DEF Indexes
      <2>3. prices'[r] = prices[r] /\ doc'[r] = doc[r] /\ stained \subseteq stained'
            BY <1>4, <1>5, <1>6
      <2> QED BY <1>5, <2>1, <2>2, <2>3, IndexStays
<1> QED BY <1>5, <1>6, <1>7, <1>8 DEF IndexInv

LEMMA IndexSyncRead ==
    ASSUME IndexInv, CatalogueInv', CatalogueAssumption, PlatformAssumption, NEW p \in Products, SyncRead(p)
    PROVE  IndexInv'
<1>1. "sync" \notin Importers /\ p # Nothing
      BY DEF CatalogueAssumption, PlatformAssumption, Importers
<1>2. /\ sync.of = Nothing /\ p \in sync.left
      /\ sync' = [left |-> sync.left \ {p}, of |-> p, priced |-> LatestPrice(p)]
      /\ stained' = IF Writers(p) \ {"sync"} # {} THEN stained \cup {p} ELSE stained
      /\ UNCHANGED <<prices, doc, task, search>>
      BY DEF SyncRead, Stain
<1>3. IndexOK(p)'
      <2>1. LatestPrice(p)' = LatestPrice(p)
            BY <1>2 DEF LatestPrice
      <2>2. sync'.of = p /\ sync'.priced = LatestPrice(p)'
            BY <1>2, <2>1
      <2>3. p \notin stained' => Writers(p) \ {"sync"} = {} /\ Writers(p)' = {"sync"}
            BY <1>1, <1>2, <2>2 DEF Writers
      <2> QED BY <1>1, <2>2, <2>3, IndexTaken
<1>4. ASSUME NEW r \in Products \ {p} PROVE IndexOK(r)'
      <2>1. \A l \in Importers : Indexes(l, r)' <=> Indexes(l, r)
            BY <1>2 DEF Indexes
      <2>2. sync.of # r /\ sync'.of # r
            BY <1>2, <1>4 DEF PlatformAssumption
      <2> QED BY <1>2, <2>1, <2>2, IndexStays
<1>5. search'.syncing
      BY <1>2 DEF IndexInv
<1> QED BY <1>3, <1>4, <1>5 DEF IndexInv

LEMMA IndexSyncIndex ==
    ASSUME IndexInv, CatalogueInv', CatalogueAssumption, PlatformAssumption, SyncIndex
    PROVE  IndexInv'
<1>1. CatalogueInv /\ "sync" \notin Importers
      BY DEF IndexInv, CatalogueAssumption, Importers
<1>2. sync \in [left : SUBSET Products, of : Products \cup {Nothing}, priced : Cost \cup {Nothing}]
      BY <1>1 DEF CatalogueInv, CatalogueTypes
<1>3. PICK q \in Products : q = sync.of
      BY <1>2 DEF SyncIndex
<1>4. PICK lost \in BOOLEAN :
         /\ IndexDoc(q, sync.priced, lost)
         /\ stained' = IF lost THEN stained \cup {q} ELSE stained
      BY <1>3 DEF SyncIndex
<1>5. /\ UNCHANGED <<prices, task>> /\ sync'.of = Nothing /\ sync'.left = sync.left
      BY <1>2 DEF SyncIndex
<1>6. /\ search'.syncing = search.syncing /\ \A r \in Products \ {q} : doc'[r] = doc[r]
      /\ ~lost => doc'[q].priced = sync.priced
      BY <1>1, <1>4, IndexDocIs
<1>7. IndexOK(q)'
      <2>1. "sync" \in Writers(q)
            BY <1>3 DEF Writers
      <2>2. ASSUME q \notin stained' PROVE Writers(q)' = {} /\ doc'[q].priced = LatestPrice(q)'
            <3>1. q \notin stained /\ ~lost
                  BY <1>4, <2>2
            <3>2. /\ \A i, j \in Writers(q) : i = j
                  /\ sync.priced = LatestPrice(q)
                  BY <1>3, <3>1 DEF IndexInv, IndexOK
            <3>3. \A l \in Importers : ~Indexes(l, q)
                  BY <1>1, <2>1, <3>2, WritersAre
            <3>4. sync'.of # q
                  BY <1>5 DEF PlatformAssumption
            <3>5. \A l \in Importers : ~Indexes(l, q)'
                  BY <1>5, <3>3 DEF Indexes
            <3>6. Writers(q)' = {}
                  BY <3>4, <3>5 DEF Writers, Indexes
            <3>7. LatestPrice(q)' = LatestPrice(q)
                  BY <1>5 DEF LatestPrice
            <3> QED BY <1>6, <3>1, <3>2, <3>6, <3>7
      <2> QED BY <2>2, IndexWritten
<1>8. ASSUME NEW r \in Products \ {q} PROVE IndexOK(r)'
      <2>1. \A l \in Importers : Indexes(l, r)' <=> Indexes(l, r)
            BY <1>5 DEF Indexes
      <2>2. sync.of # r /\ sync'.of # r
            BY <1>3, <1>5, <1>8 DEF PlatformAssumption
      <2>3. prices'[r] = prices[r] /\ doc'[r] = doc[r] /\ stained \subseteq stained'
            BY <1>4, <1>5, <1>6
      <2> QED BY <1>5, <2>1, <2>2, <2>3, IndexStays
<1> QED BY <1>5, <1>6, <1>7, <1>8 DEF IndexInv

\* Nobody takes a price or drops one.
LEMMA IndexQuiet ==
    ASSUME IndexInv, CatalogueInv', PlatformAssumption, UNCHANGED <<prices, task>>, stained \subseteq stained',
           \A p \in Products : doc'[p] = doc[p] \/ doc'[p] = Nothing,
           sync' = sync \/ (sync.of = Nothing /\ sync'.of = Nothing),
           sync'.of # Nothing \/ sync'.left # {} => search'.syncing
    PROVE  IndexInv'
<1>1. ASSUME NEW p \in Products PROVE IndexOK(p)'
      <2>1. \A l \in Importers : Indexes(l, p)' <=> Indexes(l, p)
            BY DEF Indexes
      <2>2. (sync'.of = p <=> sync.of = p) /\ (sync'.of = p => sync'.priced = sync.priced)
            BY DEF PlatformAssumption
      <2>3. \A k \in Importers : Indexes(k, p) => task'[k].rows = task[k].rows
            OBVIOUS
      <2> QED BY <2>1, <2>2, <2>3, IndexStays
<1> QED BY <1>1 DEF IndexInv

LEMMA IndexSearch ==
    ASSUME IndexInv, CatalogueInv', CatalogueAssumption, PlatformAssumption, SearchNext
    PROVE  IndexInv'
<1>1. /\ CatalogueTypes /\ (sync.of # Nothing \/ sync.left # {} => search.syncing)
      /\ search \in [available : BOOLEAN, timer : BOOLEAN, syncing : BOOLEAN]
      BY DEF IndexInv, CatalogueInv, CatalogueTypes
<1>2. ASSUME NEW wiped \in BOOLEAN, ElasticGoesDown(wiped) PROVE IndexInv'
      <2>1. UNCHANGED <<prices, task, stained, search, sync>>
            BY <1>2 DEF ElasticGoesDown
      <2>2. \A p \in Products : doc'[p] = doc[p] \/ doc'[p] = Nothing
            BY <1>2 DEF ElasticGoesDown
      <2> QED BY <1>1, <2>1, <2>2, IndexQuiet
<1>3. CASE ElasticComesBack \/ SearchProducts
      <2>1. /\ UNCHANGED <<prices, task, stained, doc, sync>>
            /\ search'.syncing = search.syncing
            BY <1>1, <1>3 DEF ElasticComesBack, SearchProducts, rowVars
      <2> QED BY <1>1, <2>1, IndexQuiet
<1>4. CASE EnsureIndices
      <2>1. UNCHANGED <<prices, task, stained, doc>>
            BY <1>4 DEF EnsureIndices, rowVars
      <2>2. /\ elastic.up => search'.syncing
            /\ ~elastic.up => search'.syncing = search.syncing /\ sync' = sync
            BY <1>1, <1>4 DEF EnsureIndices
      <2>3. sync' = sync \/ (~search.syncing /\ sync' = [SyncIdle EXCEPT !.left = Known])
            BY <1>4 DEF EnsureIndices
      <2>4. sync' = sync \/ (sync.of = Nothing /\ sync'.of = Nothing)
            <3>1. [SyncIdle EXCEPT !.left = Known].of = Nothing
                  BY DEF SyncIdle
            <3> QED BY <1>1, <2>3, <3>1
      <2> QED BY <1>1, <2>1, <2>2, <2>4, IndexQuiet
<1>5. CASE SyncEnds
      <2>1. /\ UNCHANGED <<prices, task, stained, doc>> /\ sync.of = Nothing
            /\ sync'.of = Nothing /\ sync'.left = {}
            BY <1>5 DEF SyncEnds, SyncIdle, rowVars
      <2> QED BY <2>1, IndexQuiet
<1>6. ASSUME NEW p \in Products, SyncRead(p) PROVE IndexInv'
      BY <1>6, IndexSyncRead
<1>7. CASE SyncIndex
      BY <1>7, IndexSyncIndex
<1> QED BY <1>2, <1>3, <1>4, <1>5, <1>6, <1>7 DEF SearchNext

LEMMA IndexStep ==
    IndexInv /\ [CatalogueNext]_catalogueVars /\ CatalogueAssumption /\ PlatformAssumption => IndexInv'
<1> SUFFICES ASSUME IndexInv, [CatalogueNext]_catalogueVars, CatalogueAssumption, PlatformAssumption
             PROVE  IndexInv'
    OBVIOUS
<1>1. CatalogueInv /\ CatalogueInv'
      BY CatalogueStep DEF IndexInv
<1>2. ASSUME NEW k \in Importers, TaskMoved(k), task[k].at # "index", task'[k].at # "index",
             UNCHANGED <<prices, doc, search, sync, stained>>
      PROVE  IndexInv'
      BY <1>1, <1>2, IndexMoves DEF TaskMoved
<1>3. ASSUME NEW k \in Importers, Begins(k) \/ (k \in Workers /\ ReadFile(k))
                                   \/ (k \in Handlers /\ \E row \in Approvals : ApplySubmission(k, row))
      PROVE  IndexInv'
      <2>1. UNCHANGED <<prices, doc, search, sync, stained>>
            BY <1>3 DEF Begins, ReadFile, ApplySubmission, CreatePendingRun, StartImport, rowVars, searchVars
      <2>2. TaskMoved(k) /\ task[k].at # "index" /\ task'[k].at # "index"
            BY <1>1, <1>3, BeginsIs, ReadFileIs, ApplyIs DEF Begins
      <2> QED BY <1>2, <2>1, <2>2
<1>4. ASSUME NEW k \in Importers, Ends(k) PROVE IndexInv'
      <2>1. PICK status \in {"COMPLETED", "PARTIAL", "FAILED"}, total \in Nat :
              task[k].at \in {"read", "finish"} /\ CloseRun(k, status, total)
            BY <1>1, <1>4, EndsIs
      <2>2. TaskMoved(k) /\ task'[k].at = "idle"
            BY <1>1, <1>4, <2>1, CloseRunIs DEF Ends
      <2>3. UNCHANGED <<prices, doc, search, sync, stained>>
            BY <2>1 DEF CloseRun, rowVars, searchVars
      <2> QED BY <1>2, <2>1, <2>2, <2>3
<1>5. ASSUME NEW k \in Importers, Drops(k) PROVE IndexInv'
      <2>1. task' = [task EXCEPT ![k] = Resting] /\ UNCHANGED <<prices, doc, search, sync>>
            BY <1>5 DEF Drops, ImporterDies, AddImportJob, rowVars, searchVars
      <2>2. stained \subseteq stained' /\ (task[k].at = "index" => task[k].found \in stained')
            BY <1>5 DEF Drops, ImporterDies, AddImportJob, rowVars
      <2>3. TaskMoved(k) /\ task'[k].at = "idle"
            BY <1>1, <2>1, Rests
      <2> QED BY <1>1, <2>1, <2>2, <2>3, IndexMoves DEF TaskMoved
<1>6. ASSUME NEW k \in Importers, FindProduct(k) \/ UpsertProduct(k) \/ AskMatching(k) \/ RowFails(k)
      PROVE  IndexInv'
      <2>1. UNCHANGED <<prices, doc, search, sync, stained>>
            BY <1>6 DEF FindProduct, UpsertProduct, AskMatching, RowFails, rowVars, searchVars
      <2>2. TaskMoved(k) /\ task[k].at # "index" /\ task'[k].at # "index"
            BY <1>1, <1>6, FindProductIs, UpsertProductIs, AskMatchingIs, RowFailsIs
      <2> QED BY <1>2, <2>1, <2>2
<1>7. ASSUME NEW k \in Importers, RecordPrice(k) PROVE IndexInv'
      BY <1>1, <1>7, IndexRecordPrice
<1>8. ASSUME NEW k \in Importers, IndexPrice(k) PROVE IndexInv'
      BY <1>1, <1>8, IndexIndexPrice
<1>9. ASSUME UNCHANGED <<prices, doc, task, search, sync, stained>> PROVE IndexInv'
      <2>1. sync.of # Nothing \/ sync.left # {} => search.syncing
            BY DEF IndexInv
      <2> QED BY <1>1, <1>9, <2>1, IndexQuiet
<1>10. CASE Matching
      BY <1>9, <1>10 DEF Matching, MatchProduct, MatchingGivenUp, searchVars
<1>11. CASE SearchNext
      BY <1>1, <1>11, IndexSearch
<1>12. CASE UNCHANGED catalogueVars
      BY <1>9, <1>12 DEF catalogueVars
<1> QED BY <1>3, <1>4, <1>5, <1>6, <1>7, <1>8, <1>10, <1>11, <1>12, CatalogueSteps DEF RowStep

\* ingestion.service.ts:223, prices.service.ts:49 and search.service.ts:72, for
\* every number of imports, approvals and products: whatever rows fail and
\* processes end, what matching and the index say follows names and prices.
THEOREM CatalogueFollowed == CatalogueSpec => []CatalogueIsFollowed
<1> USE CatalogueAssumption, PlatformAssumption
<1>1. CatalogueInit => NamesInv /\ IndexInv
      BY NamesInit, IndexInit
<1>2. NamesInv /\ IndexInv /\ [CatalogueNext]_catalogueVars => NamesInv' /\ IndexInv'
      BY NamesStep, IndexStep
<1>3. NamesInv /\ IndexInv => CatalogueIsFollowed
      BY NamesIs, IndexIs DEF CatalogueIsFollowed
<1> QED BY <1>1, <1>2, <1>3, PTL DEF CatalogueSpec

-----------------------------------------------------------------------------
\* Accounts.

SignSteps ==
    {"idle", "insert", "mint", "byEmail", "link", "create", "use", "verify", "invalidate"}
SignIn == [at : SignSteps, email : Emails \cup {Nothing}, google : GoogleIds \cup {Nothing},
           acct : Accts \cup {Nothing}, link : Links \cup {Nothing}]

AccountTypes ==
    /\ acct \in [Accts -> AccountRow \cup {Nothing}]
    /\ link \in [Links -> LinkRow \cup {Nothing}]
    /\ sign \in [Handlers -> SignIn]
    /\ uses \in [Links -> Nat]

\* What a request knows at each step; a row it found stays a row, for none is
\* ever taken out of the table.
SignHeld ==
    \A h \in Handlers :
        /\ sign[h].at \in {"insert", "byEmail", "create", "link"} => sign[h].email \in Emails
        /\ sign[h].at \in {"byEmail", "create", "link"} => sign[h].google \in GoogleIds
        /\ sign[h].at \in {"mint", "invalidate", "link", "use", "verify"}
              => sign[h].acct \in AccountRows
        /\ sign[h].at = "use" => sign[h].link \in Links /\ link[sign[h].link] # Nothing

LinksAreOwned == \A k \in Links : link[k] # Nothing => link[k].acct \in AccountRows

\* One request at a time sends a link to an account, and the one about to mint
\* it has put the earlier ones out of use.
OneSender ==
    \A a \in AccountRows \ racing :
        /\ \A h, i \in Minting(a) : h = i
        /\ \A h \in Handlers : sign[h].at = "mint" /\ sign[h].acct = a => Outstanding(a) = {}
        /\ \A k, l \in Outstanding(a) : k = l

\* What a link has been through is what its row says.
UsesCounted ==
    \A k \in Links : uses[k] = IF link[k] # Nothing THEN IF link[k].used THEN 1 ELSE 0 ELSE 0

\* Where a proof of an address is on its way to the account it is for.
ProofHeld ==
    \A h \in Handlers :
        /\ sign[h].at = "use" => link[sign[h].link].acct = sign[h].acct
        /\ sign[h].at = "verify" => sign[h].acct \in proven
        /\ sign[h].at = "link" /\ ~acct[sign[h].acct].deleted
              => acct[sign[h].acct].email = sign[h].email

AccountInv ==
    /\ AccountTypes /\ SignHeld /\ LinksAreOwned /\ OneSender /\ DeletedIsUnlinked
    /\ UsesCounted /\ ProofHeld /\ AddressIsProven

\* Before the first request.
LEMMA AccountInvInit == AccountInit => AccountInv
BY AccountsAssumption
   DEF AccountInit, AccountInv, AccountTypes, SignHeld, LinksAreOwned, OneSender,
       DeletedIsUnlinked, UsesCounted, ProofHeld, AddressIsProven, NoSign, SignIn, SignSteps,
       AccountRows

\* A row written leaves the table typed and takes none out.
LEMMA RowWritten ==
    ASSUME AccountTypes, NEW a \in Accts, NEW row \in AccountRow,
           acct' = [acct EXCEPT ![a] = row]
    PROVE  /\ acct' \in [Accts -> AccountRow \cup {Nothing}]
           /\ AccountRows' = AccountRows \cup {a}
           /\ \A b \in Accts \ {a} : acct'[b] = acct[b]
           /\ acct'[a] = row
BY AccountsAssumption DEF AccountTypes, AccountRows

\* A request that goes on with a row it found or created.
LEMMA FoundRow ==
    ASSUME AccountTypes, NEW h \in Handlers, NEW a \in Accts, NEW at \in SignSteps,
           sign' = [sign EXCEPT ![h].at = at, ![h].acct = a]
    PROVE  /\ sign' \in [Handlers -> SignIn]
           /\ \A i \in Handlers \ {h} : sign'[i] = sign[i]
           /\ sign'[h].at = at /\ sign'[h].acct = a
           /\ sign'[h].email = sign[h].email /\ sign'[h].google = sign[h].google
<1> DEFINE s == [sign[h] EXCEPT !.at = at, !.acct = a]
<1>1. sign[h] \in SignIn
      BY DEF AccountTypes
<1>2. /\ s \in SignIn /\ s.at = at /\ s.acct = a
      /\ s.email = sign[h].email /\ s.google = sign[h].google
      BY <1>1 DEF SignIn
<1>3. sign' = [sign EXCEPT ![h] = s]
      BY <1>1 DEF AccountTypes, SignIn
<1> HIDE DEF s
<1> QED BY <1>2, <1>3 DEF AccountTypes

\* What a table holds is a row.
LEMMA RowsTyped ==
    AccountTypes => /\ \A a \in AccountRows : acct[a] \in AccountRow /\ a \in Accts
                    /\ \A k \in Links : link[k] # Nothing => link[k] \in LinkRow
BY DEF AccountTypes, AccountRows

\* Every step keeps the invariant.
LEMMA AccountInvStep == AccountInv /\ [AccountNext]_accountVars => AccountInv'
<1> USE AccountsAssumption
<1> SUFFICES ASSUME AccountInv, [AccountNext]_accountVars PROVE AccountInv'
    OBVIOUS
<1> USE DEF AccountInv, AccountTypes, SignIn, SignSteps, AccountRow, LinkRow, AccountRows,
            NoSign, Enters, Goes, Done
<1>1. ASSUME NEW h \in Handlers, NEW e \in Emails, RegisterRead(h, e)
      PROVE  AccountInv'
      <2>1. AccountTypes'
            BY <1>1 DEF RegisterRead, SignHeld, Outstanding, ByEmail
      <2>2. SignHeld'
            BY <1>1 DEF RegisterRead, SignHeld, Outstanding, ByEmail, LinksAreOwned
      <2>3. LinksAreOwned'
            BY <1>1 DEF RegisterRead, SignHeld, Outstanding, LinksAreOwned
      <2>4. OneSender'
            BY <1>1 DEF RegisterRead, SignHeld, OneSender, Minting, Outstanding, LinksAreOwned
      <2>5. DeletedIsUnlinked'
            BY <1>1 DEF RegisterRead, SignHeld, DeletedIsUnlinked
      <2>6. UsesCounted'
            BY <1>1 DEF RegisterRead, SignHeld, UsesCounted
      <2>7. ProofHeld'
            BY <1>1 DEF RegisterRead, SignHeld, ProofHeld, LinksAreOwned
      <2>8. AddressIsProven'
            BY <1>1 DEF RegisterRead, SignHeld, AddressIsProven
      <2> QED BY <2>1, <2>2, <2>3, <2>4, <2>5, <2>6, <2>7, <2>8
<1>2. ASSUME NEW h \in Handlers, RegisterInsert(h)
      PROVE  AccountInv'
      <2>1. CASE ByEmail(sign[h].email) # {}
            <3>1. Done(h) /\ UNCHANGED <<acct, link, racing, relinked, proven, uses>>
                  BY <1>2, <2>1 DEF RegisterInsert
            <3>2. AccountTypes'
                  BY <3>1
            <3>3. SignHeld'
                  BY <3>1 DEF SignHeld
            <3>4. LinksAreOwned'
                  BY <3>1 DEF LinksAreOwned, SignHeld
            <3>5. OneSender'
                  BY <3>1 DEF OneSender, Minting, Outstanding, LinksAreOwned, SignHeld
            <3>6. DeletedIsUnlinked'
                  BY <3>1 DEF DeletedIsUnlinked
            <3>7. UsesCounted'
                  BY <3>1 DEF UsesCounted, SignHeld
            <3>8. ProofHeld'
                  BY <3>1 DEF ProofHeld, SignHeld, LinksAreOwned
            <3>9. AddressIsProven'
                  BY <3>1 DEF AddressIsProven
            <3> QED BY <3>2, <3>3, <3>4, <3>5, <3>6, <3>7, <3>8, <3>9
      <2>2. CASE ByEmail(sign[h].email) = {}
            <3> DEFINE row == [email |-> sign[h].email, google |-> Nothing, password |-> TRUE,
                               verified |-> FALSE, deleted |-> FALSE]
            <3>0. sign[h].at = "insert"
                  BY <1>2 DEF RegisterInsert
            <3>1. PICK a \in Accts \ AccountRows :
                     /\ acct' = [acct EXCEPT ![a] = row]
                     /\ sign' = [sign EXCEPT ![h].at = "mint", ![h].acct = a]
                  BY <1>2, <2>2 DEF RegisterInsert
            <3>2. row \in AccountRow
                  BY <1>2 DEF RegisterInsert, SignHeld
            <3>3. /\ row.deleted = FALSE /\ row.verified = FALSE /\ row.google = Nothing
                  /\ UNCHANGED <<link, racing, relinked, proven, uses>>
                  BY <1>2 DEF RegisterInsert
            <3>4. /\ acct' \in [Accts -> AccountRow \cup {Nothing}]
                  /\ AccountRows' = AccountRows \cup {a}
                  /\ \A b \in Accts \ {a} : acct'[b] = acct[b]
                  /\ acct'[a] = row
                  BY <3>1, <3>2, RowWritten
            <3>5. /\ sign' \in [Handlers -> SignIn]
                  /\ \A i \in Handlers \ {h} : sign'[i] = sign[i]
                  /\ sign'[h].at = "mint" /\ sign'[h].acct = a
                  /\ sign'[h].email = sign[h].email /\ sign'[h].google = sign[h].google
                  BY <3>1, FoundRow
            <3> HIDE DEF row
            <3>6. AccountTypes'
                  BY <3>2, <3>3, <3>4, <3>5
            <3>7. SignHeld'
                  BY <3>2, <3>3, <3>4, <3>5 DEF SignHeld
            <3>8. LinksAreOwned'
                  BY <3>2, <3>3, <3>4, <3>5 DEF LinksAreOwned, SignHeld
            <3>9. OneSender'
                  <4>1. Minting(a)' = {h} /\ Outstanding(a)' = {}
                        BY <3>3, <3>4, <3>5 DEF Minting, Outstanding, LinksAreOwned, SignHeld
                  <4>2. ASSUME NEW b \in AccountRows
                        PROVE  Minting(b)' = Minting(b) /\ Outstanding(b)' = Outstanding(b)
                        <5>1. \A i \in Handlers : i \in Minting(b)' <=> i \in Minting(b)
                              BY <3>0, <3>5 DEF Minting
                        <5>2. Minting(b)' = Minting(b)
                              BY <5>1 DEF Minting
                        <5>3. Outstanding(b)' = Outstanding(b)
                              BY <3>3 DEF Outstanding
                        <5> QED BY <5>2, <5>3
                  <4>3. \A i \in Handlers : sign'[i].at = "mint" /\ sign'[i].acct # a
                                           => sign[i].at = "mint" /\ sign'[i] = sign[i]
                        BY <3>5
                  <4> QED BY <3>3, <3>4, <4>1, <4>2, <4>3 DEF OneSender
            <3>10. DeletedIsUnlinked'
                  BY <3>2, <3>3, <3>4, <3>5 DEF DeletedIsUnlinked
            <3>11. UsesCounted'
                  BY <3>2, <3>3, <3>4, <3>5 DEF UsesCounted, SignHeld
            <3>12. ProofHeld'
                  BY <3>2, <3>3, <3>4, <3>5 DEF ProofHeld, SignHeld, LinksAreOwned
            <3>13. AddressIsProven'
                  BY <3>2, <3>3, <3>4, <3>5 DEF AddressIsProven
            <3> QED BY <3>6, <3>7, <3>8, <3>9, <3>10, <3>11, <3>12, <3>13
      <2> QED BY <2>1, <2>2
<1>3. ASSUME NEW h \in Handlers, MintLink(h)
      PROVE  AccountInv'
      <2>1. AccountTypes'
            BY <1>3 DEF MintLink, SignHeld, Outstanding, ByEmail
      <2>2. SignHeld'
            BY <1>3 DEF MintLink, SignHeld, Outstanding, ByEmail, LinksAreOwned
      <2>3. LinksAreOwned'
            BY <1>3 DEF MintLink, SignHeld, Outstanding, LinksAreOwned
      <2>4. OneSender'
            BY <1>3 DEF MintLink, SignHeld, OneSender, Minting, Outstanding, LinksAreOwned
      <2>5. DeletedIsUnlinked'
            BY <1>3 DEF MintLink, SignHeld, DeletedIsUnlinked
      <2>6. UsesCounted'
            BY <1>3 DEF MintLink, SignHeld, UsesCounted
      <2>7. ProofHeld'
            BY <1>3 DEF MintLink, SignHeld, ProofHeld, LinksAreOwned
      <2>8. AddressIsProven'
            BY <1>3 DEF MintLink, SignHeld, AddressIsProven
      <2> QED BY <2>1, <2>2, <2>3, <2>4, <2>5, <2>6, <2>7, <2>8
<1>4. ASSUME NEW h \in Handlers, NEW g \in GoogleIds, NEW e \in Emails, GoogleRead(h, g, e)
      PROVE  AccountInv'
      <2>1. AccountTypes'
            BY <1>4 DEF GoogleRead, SignHeld, Outstanding, ByEmail
      <2>2. SignHeld'
            BY <1>4 DEF GoogleRead, SignHeld, Outstanding, ByEmail, LinksAreOwned
      <2>3. LinksAreOwned'
            BY <1>4 DEF GoogleRead, SignHeld, Outstanding, LinksAreOwned
      <2>4. OneSender'
            BY <1>4 DEF GoogleRead, SignHeld, OneSender, Minting, Outstanding, LinksAreOwned
      <2>5. DeletedIsUnlinked'
            BY <1>4 DEF GoogleRead, SignHeld, DeletedIsUnlinked
      <2>6. UsesCounted'
            BY <1>4 DEF GoogleRead, SignHeld, UsesCounted
      <2>7. ProofHeld'
            BY <1>4 DEF GoogleRead, SignHeld, ProofHeld, LinksAreOwned
      <2>8. AddressIsProven'
            BY <1>4 DEF GoogleRead, SignHeld, AddressIsProven
      <2> QED BY <2>1, <2>2, <2>3, <2>4, <2>5, <2>6, <2>7, <2>8
<1>5. ASSUME NEW h \in Handlers, GoogleByEmail(h)
      PROVE  AccountInv'
      <2>1. UNCHANGED <<acct, link, racing, relinked, proven, uses>>
            BY <1>5 DEF GoogleByEmail
      <2>2. CASE Done(h)
            <3>1. AccountTypes'
                  BY <2>1, <2>2
            <3>2. SignHeld'
                  BY <2>1, <2>2 DEF SignHeld
            <3>3. LinksAreOwned'
                  BY <2>1, <2>2 DEF LinksAreOwned, SignHeld
            <3>4. OneSender'
                  BY <2>1, <2>2 DEF OneSender, Minting, Outstanding, LinksAreOwned, SignHeld
            <3>5. DeletedIsUnlinked'
                  BY <2>1, <2>2 DEF DeletedIsUnlinked
            <3>6. UsesCounted'
                  BY <2>1, <2>2 DEF UsesCounted, SignHeld
            <3>7. ProofHeld'
                  BY <2>1, <2>2 DEF ProofHeld, SignHeld, LinksAreOwned
            <3>8. AddressIsProven'
                  BY <2>1, <2>2 DEF AddressIsProven
            <3> QED BY <3>1, <3>2, <3>3, <3>4, <3>5, <3>6, <3>7, <3>8
      <2>3. CASE Goes(h, "create")
            <3>0. sign[h].at = "byEmail"
                  BY <1>5 DEF GoogleByEmail
            <3>1. AccountTypes'
                  BY <2>1, <2>3, <3>0
            <3>2. SignHeld'
                  BY <2>1, <2>3, <3>0 DEF SignHeld
            <3>3. LinksAreOwned'
                  BY <2>1, <2>3, <3>0 DEF LinksAreOwned, SignHeld
            <3>4. OneSender'
                  BY <2>1, <2>3, <3>0 DEF OneSender, Minting, Outstanding, LinksAreOwned, SignHeld
            <3>5. DeletedIsUnlinked'
                  BY <2>1, <2>3, <3>0 DEF DeletedIsUnlinked
            <3>6. UsesCounted'
                  BY <2>1, <2>3, <3>0 DEF UsesCounted, SignHeld
            <3>7. ProofHeld'
                  BY <2>1, <2>3, <3>0 DEF ProofHeld, SignHeld, LinksAreOwned
            <3>8. AddressIsProven'
                  BY <2>1, <2>3, <3>0 DEF AddressIsProven
            <3> QED BY <3>1, <3>2, <3>3, <3>4, <3>5, <3>6, <3>7, <3>8
      <2>4. ASSUME NEW a \in AccountRows, sign' = [sign EXCEPT ![h].at = "link", ![h].acct = a],
                   acct[a].email = sign[h].email
            PROVE  AccountInv'
            <3>0. sign[h].at = "byEmail"
                  BY <1>5 DEF GoogleByEmail
            <3>1. /\ sign' \in [Handlers -> SignIn]
                  /\ \A i \in Handlers \ {h} : sign'[i] = sign[i]
                  /\ sign'[h].at = "link" /\ sign'[h].acct = a
                  /\ sign'[h].email = sign[h].email /\ sign'[h].google = sign[h].google
                  BY <2>4, FoundRow
            <3>2. AccountTypes'
                  BY <2>1, <3>0, <3>1
            <3>3. SignHeld'
                  BY <2>1, <3>0, <3>1 DEF SignHeld
            <3>4. LinksAreOwned'
                  BY <2>1, <3>0, <3>1 DEF LinksAreOwned, SignHeld
            <3>5. OneSender'
                  <4>1. \A b \in Accts : Minting(b)' = Minting(b) /\ Outstanding(b)' = Outstanding(b)
                        BY <2>1, <3>0, <3>1 DEF Minting, Outstanding
                  <4>2. \A i \in Handlers : sign'[i].at = "mint" => sign'[i] = sign[i]
                        BY <3>1
                  <4> QED BY <2>1, <4>1, <4>2 DEF OneSender
            <3>6. DeletedIsUnlinked'
                  BY <2>1, <3>0, <3>1 DEF DeletedIsUnlinked
            <3>7. UsesCounted'
                  BY <2>1, <3>0, <3>1 DEF UsesCounted, SignHeld
            <3>8. ProofHeld'
                  BY <2>1, <2>4, <3>0, <3>1 DEF ProofHeld, SignHeld, LinksAreOwned
            <3>9. AddressIsProven'
                  BY <2>1, <3>0, <3>1 DEF AddressIsProven
            <3> QED BY <3>2, <3>3, <3>4, <3>5, <3>6, <3>7, <3>8, <3>9
      <2> QED BY <1>5, <2>2, <2>3, <2>4 DEF GoogleByEmail, ByEmail
<1>6. ASSUME NEW h \in Handlers, GoogleLink(h)
      PROVE  AccountInv'
      <2>1. CASE ByGoogle(sign[h].google) \ {sign[h].acct} # {}
            <3>1. Done(h) /\ UNCHANGED <<acct, link, racing, relinked, proven, uses>>
                  BY <1>6, <2>1 DEF GoogleLink
            <3>2. AccountTypes'
                  BY <3>1
            <3>3. SignHeld'
                  BY <3>1 DEF SignHeld
            <3>4. LinksAreOwned'
                  BY <3>1 DEF LinksAreOwned, SignHeld
            <3>5. OneSender'
                  BY <3>1 DEF OneSender, Minting, Outstanding, LinksAreOwned, SignHeld
            <3>6. DeletedIsUnlinked'
                  BY <3>1 DEF DeletedIsUnlinked
            <3>7. UsesCounted'
                  BY <3>1 DEF UsesCounted, SignHeld
            <3>8. ProofHeld'
                  BY <3>1 DEF ProofHeld, SignHeld, LinksAreOwned
            <3>9. AddressIsProven'
                  BY <3>1 DEF AddressIsProven
            <3> QED BY <3>2, <3>3, <3>4, <3>5, <3>6, <3>7, <3>8, <3>9
      <2>2. CASE ByGoogle(sign[h].google) \ {sign[h].acct} = {}
            <3> DEFINE a == sign[h].acct
                       row == [acct[a] EXCEPT !.google = sign[h].google, !.verified = TRUE]
            <3>1. acct' = [acct EXCEPT ![a] = row] /\ Done(h) /\ UNCHANGED <<link, racing, uses>>
                  BY <1>6, <2>2 DEF GoogleLink
            <3>2. /\ relinked' = IF acct[a].deleted THEN relinked \cup {a} ELSE relinked
                  /\ proven \subseteq proven' /\ proven' \subseteq proven \cup {a}
                  /\ ~acct[a].deleted => a \in proven'
                  BY <1>6, <2>2 DEF GoogleLink, ProofHeld
            <3>3. /\ a \in AccountRows /\ row \in AccountRow
                  /\ row.deleted = acct[a].deleted /\ row.email = acct[a].email
                  <4>1. a \in AccountRows /\ sign[h].google \in GoogleIds
                        BY <1>6 DEF GoogleLink, SignHeld
                  <4>2. acct[a] \in AccountRow
                        BY <4>1, RowsTyped
                  <4> QED BY <4>1, <4>2
            <3> HIDE DEF row, a
            <3>4. /\ acct' \in [Accts -> AccountRow \cup {Nothing}]
                  /\ AccountRows' = AccountRows \cup {a}
                  /\ \A b \in Accts \ {a} : acct'[b] = acct[b]
                  /\ acct'[a] = row
                  <4>1. a \in Accts
                        BY <3>3
                  <4> QED BY <3>1, <3>3, <4>1, RowWritten
            <3>5. AccountTypes'
                  BY <3>1, <3>2, <3>3, <3>4
            <3>6. SignHeld'
                  BY <3>1, <3>2, <3>3, <3>4 DEF SignHeld
            <3>7. LinksAreOwned'
                  BY <3>1, <3>2, <3>3, <3>4 DEF LinksAreOwned, SignHeld
            <3>8. OneSender'
                  BY <3>1, <3>2, <3>3, <3>4 DEF OneSender, Minting, Outstanding, LinksAreOwned, SignHeld
            <3>9. DeletedIsUnlinked'
                  BY <3>1, <3>2, <3>3, <3>4 DEF DeletedIsUnlinked
            <3>10. UsesCounted'
                  BY <3>1, <3>2, <3>3, <3>4 DEF UsesCounted, SignHeld
            <3>11. ProofHeld'
                  BY <3>1, <3>2, <3>3, <3>4 DEF ProofHeld, SignHeld, LinksAreOwned
            <3>12. AddressIsProven'
                  BY <3>1, <3>2, <3>3, <3>4 DEF AddressIsProven
            <3> QED BY <3>5, <3>6, <3>7, <3>8, <3>9, <3>10, <3>11, <3>12
      <2> QED BY <2>1, <2>2
<1>7. ASSUME NEW h \in Handlers, GoogleCreate(h)
      PROVE  AccountInv'
      <2>1. Done(h) /\ UNCHANGED <<link, racing, relinked, uses>>
            BY <1>7 DEF GoogleCreate
      <2>2. CASE acct' = acct /\ proven' = proven
            <3>1. AccountTypes'
                  BY <2>1, <2>2
            <3>2. SignHeld'
                  BY <2>1, <2>2 DEF SignHeld
            <3>3. LinksAreOwned'
                  BY <2>1, <2>2 DEF LinksAreOwned, SignHeld
            <3>4. OneSender'
                  BY <2>1, <2>2 DEF OneSender, Minting, Outstanding, LinksAreOwned, SignHeld
            <3>5. DeletedIsUnlinked'
                  BY <2>1, <2>2 DEF DeletedIsUnlinked
            <3>6. UsesCounted'
                  BY <2>1, <2>2 DEF UsesCounted, SignHeld
            <3>7. ProofHeld'
                  BY <2>1, <2>2 DEF ProofHeld, SignHeld, LinksAreOwned
            <3>8. AddressIsProven'
                  BY <2>1, <2>2 DEF AddressIsProven
            <3> QED BY <3>1, <3>2, <3>3, <3>4, <3>5, <3>6, <3>7, <3>8
      <2>3. CASE ~(acct' = acct /\ proven' = proven)
            <3> DEFINE row == [email |-> sign[h].email, google |-> sign[h].google,
                               password |-> FALSE, verified |-> TRUE, deleted |-> FALSE]
            <3>1. PICK a \in Accts \ AccountRows :
                     acct' = [acct EXCEPT ![a] = row] /\ proven' = proven \cup {a}
                  BY <1>7, <2>3 DEF GoogleCreate
            <3>2. row \in AccountRow /\ row.deleted = FALSE
                  BY <1>7 DEF GoogleCreate, SignHeld
            <3>3. /\ acct' \in [Accts -> AccountRow \cup {Nothing}]
                  /\ AccountRows' = AccountRows \cup {a}
                  /\ \A b \in Accts \ {a} : acct'[b] = acct[b]
                  /\ acct'[a] = row
                  BY <3>1, <3>2, RowWritten
            <3> HIDE DEF row
            <3>4. AccountTypes'
                  BY <2>1, <3>1, <3>2, <3>3
            <3>5. SignHeld'
                  BY <2>1, <3>1, <3>2, <3>3 DEF SignHeld
            <3>6. LinksAreOwned'
                  BY <2>1, <3>1, <3>2, <3>3 DEF LinksAreOwned, SignHeld
            <3>7. OneSender'
                  BY <2>1, <3>1, <3>2, <3>3 DEF OneSender, Minting, Outstanding, LinksAreOwned, SignHeld
            <3>8. DeletedIsUnlinked'
                  BY <2>1, <3>1, <3>2, <3>3 DEF DeletedIsUnlinked
            <3>9. UsesCounted'
                  BY <2>1, <3>1, <3>2, <3>3 DEF UsesCounted, SignHeld
            <3>10. ProofHeld'
                  BY <2>1, <3>1, <3>2, <3>3 DEF ProofHeld, SignHeld, LinksAreOwned
            <3>11. AddressIsProven'
                  BY <2>1, <3>1, <3>2, <3>3 DEF AddressIsProven
            <3> QED BY <3>4, <3>5, <3>6, <3>7, <3>8, <3>9, <3>10, <3>11
      <2> QED BY <2>2, <2>3
<1>8. ASSUME NEW h \in Handlers, NEW k \in Links, VerifyRead(h, k)
      PROVE  AccountInv'
      <2>1. AccountTypes'
            BY <1>8 DEF VerifyRead, SignHeld, Outstanding, ByEmail
      <2>2. SignHeld'
            BY <1>8 DEF VerifyRead, SignHeld, Outstanding, ByEmail, LinksAreOwned
      <2>3. LinksAreOwned'
            BY <1>8 DEF VerifyRead, SignHeld, Outstanding, LinksAreOwned
      <2>4. OneSender'
            BY <1>8 DEF VerifyRead, SignHeld, OneSender, Minting, Outstanding, LinksAreOwned
      <2>5. DeletedIsUnlinked'
            BY <1>8 DEF VerifyRead, SignHeld, DeletedIsUnlinked
      <2>6. UsesCounted'
            BY <1>8 DEF VerifyRead, SignHeld, UsesCounted
      <2>7. ProofHeld'
            BY <1>8 DEF VerifyRead, SignHeld, ProofHeld, LinksAreOwned
      <2>8. AddressIsProven'
            BY <1>8 DEF VerifyRead, SignHeld, AddressIsProven
      <2> QED BY <2>1, <2>2, <2>3, <2>4, <2>5, <2>6, <2>7, <2>8
<1>9. ASSUME NEW h \in Handlers, VerifyUse(h)
      PROVE  AccountInv'
      <2>1. UNCHANGED <<acct, racing, relinked>> /\ sign[h].at = "use"
            BY <1>9 DEF VerifyUse, UsesUp
      <2>2. CASE link[sign[h].link].used
            <3>1. Done(h) /\ UNCHANGED <<link, proven, uses>>
                  BY <1>9, <2>2 DEF VerifyUse
            <3>2. AccountTypes'
                  BY <2>1, <3>1
            <3>3. SignHeld'
                  BY <2>1, <3>1 DEF SignHeld
            <3>4. LinksAreOwned'
                  BY <2>1, <3>1 DEF LinksAreOwned, SignHeld
            <3>5. OneSender'
                  BY <2>1, <3>1 DEF OneSender, Minting, Outstanding, LinksAreOwned, SignHeld
            <3>6. DeletedIsUnlinked'
                  BY <2>1, <3>1 DEF DeletedIsUnlinked
            <3>7. UsesCounted'
                  BY <2>1, <3>1 DEF UsesCounted, SignHeld
            <3>8. ProofHeld'
                  BY <2>1, <3>1 DEF ProofHeld, SignHeld, LinksAreOwned
            <3>9. AddressIsProven'
                  BY <2>1, <3>1 DEF AddressIsProven
            <3> QED BY <3>2, <3>3, <3>4, <3>5, <3>6, <3>7, <3>8, <3>9
      <2>3. CASE ~link[sign[h].link].used
            <3> DEFINE k == sign[h].link
            <3>1. /\ Goes(h, "verify") /\ link' = [link EXCEPT ![k].used = TRUE]
                  /\ proven' = proven \cup {link[k].acct} /\ uses' = [uses EXCEPT ![k] = @ + 1]
                  BY <1>9, <2>3 DEF VerifyUse, UsesUp
            <3>2. /\ k \in Links /\ link[k] \in LinkRow
                  /\ link[k].acct = sign[h].acct /\ uses[k] = 0
                  BY <2>1, <2>3, RowsTyped DEF SignHeld, ProofHeld, UsesCounted
            <3>3. /\ link' \in [Links -> LinkRow \cup {Nothing}]
                  /\ \A l \in Links \ {k} : link'[l] = link[l] /\ uses'[l] = uses[l]
                  /\ link'[k].used /\ link'[k].acct = link[k].acct /\ link'[k] # Nothing
                  /\ uses' \in [Links -> Nat] /\ uses'[k] = 1
                  /\ sign[h].acct \in proven' /\ proven \subseteq proven'
                  <4> HIDE DEF k
                  <4>1. /\ link' \in [Links -> LinkRow \cup {Nothing}]
                        /\ \A l \in Links \ {k} : link'[l] = link[l]
                        /\ link'[k].used /\ link'[k].acct = link[k].acct /\ link'[k] # Nothing
                        BY <3>1, <3>2
                  <4>2. /\ uses' \in [Links -> Nat] /\ uses'[k] = 1
                        /\ \A l \in Links \ {k} : uses'[l] = uses[l]
                        BY <3>1, <3>2
                  <4>3. sign[h].acct \in proven' /\ proven \subseteq proven'
                        BY <3>1, <3>2
                  <4> QED BY <4>1, <4>2, <4>3
            <3> HIDE DEF k
            <3>4. AccountTypes'
                  BY <2>1, <3>1, <3>2, <3>3
            <3>5. SignHeld'
                  BY <2>1, <3>1, <3>2, <3>3 DEF SignHeld
            <3>6. LinksAreOwned'
                  BY <2>1, <3>1, <3>2, <3>3 DEF LinksAreOwned, SignHeld
            <3>7. OneSender'
                  BY <2>1, <3>1, <3>2, <3>3 DEF OneSender, Minting, Outstanding, LinksAreOwned, SignHeld
            <3>8. DeletedIsUnlinked'
                  BY <2>1, <3>1, <3>2, <3>3 DEF DeletedIsUnlinked
            <3>9. UsesCounted'
                  BY <2>1, <3>1, <3>2, <3>3 DEF UsesCounted, SignHeld
            <3>10. ProofHeld'
                  BY <2>1, <3>1, <3>2, <3>3 DEF ProofHeld, SignHeld, LinksAreOwned
            <3>11. AddressIsProven'
                  BY <2>1, <3>1, <3>2, <3>3 DEF AddressIsProven
            <3> QED BY <3>4, <3>5, <3>6, <3>7, <3>8, <3>9, <3>10, <3>11
      <2> QED BY <2>2, <2>3
<1>10. ASSUME NEW h \in Handlers, VerifyMark(h)
      PROVE  AccountInv'
      <2> DEFINE a == sign[h].acct
                 row == [acct[a] EXCEPT !.verified = TRUE]
      <2>1. /\ acct' = [acct EXCEPT ![a] = row] /\ Done(h)
            /\ UNCHANGED <<link, racing, relinked, proven, uses>>
            BY <1>10 DEF VerifyMark
      <2>2. /\ a \in AccountRows /\ row \in AccountRow /\ a \in proven
            /\ row.deleted = acct[a].deleted /\ row.google = acct[a].google
            /\ row.email = acct[a].email
            <3>1. a \in AccountRows /\ a \in proven
                  BY <1>10 DEF VerifyMark, SignHeld, ProofHeld
            <3>2. acct[a] \in AccountRow
                  BY <3>1, RowsTyped
            <3> QED BY <3>1, <3>2
      <2>3. /\ acct' \in [Accts -> AccountRow \cup {Nothing}]
            /\ AccountRows' = AccountRows \cup {a}
            /\ \A b \in Accts \ {a} : acct'[b] = acct[b]
            /\ acct'[a] = row
            BY <2>1, <2>2, RowWritten
      <2> HIDE DEF row
      <2>4. AccountTypes'
            BY <2>1, <2>2, <2>3
      <2>5. SignHeld'
            BY <2>1, <2>2, <2>3 DEF SignHeld
      <2>6. LinksAreOwned'
            BY <2>1, <2>2, <2>3 DEF LinksAreOwned, SignHeld
      <2>7. OneSender'
            BY <2>1, <2>2, <2>3 DEF OneSender, Minting, Outstanding, LinksAreOwned, SignHeld
      <2>8. DeletedIsUnlinked'
            BY <2>1, <2>2, <2>3 DEF DeletedIsUnlinked
      <2>9. UsesCounted'
            BY <2>1, <2>2, <2>3 DEF UsesCounted, SignHeld
      <2>10. ProofHeld'
            BY <2>1, <2>2, <2>3 DEF ProofHeld, SignHeld, LinksAreOwned
      <2>11. AddressIsProven'
            BY <2>1, <2>2, <2>3 DEF AddressIsProven
      <2> QED BY <2>4, <2>5, <2>6, <2>7, <2>8, <2>9, <2>10, <2>11
<1>11. ASSUME NEW h \in Handlers, NEW a \in Accts, ResendRead(h, a)
      PROVE  AccountInv'
      <2>1. AccountTypes'
            BY <1>11 DEF ResendRead, SignHeld, Outstanding, ByEmail
      <2>2. SignHeld'
            BY <1>11 DEF ResendRead, SignHeld, Outstanding, ByEmail, LinksAreOwned
      <2>3. LinksAreOwned'
            BY <1>11 DEF ResendRead, SignHeld, Outstanding, LinksAreOwned
      <2>4. OneSender'
            BY <1>11 DEF ResendRead, SignHeld, OneSender, Minting, Outstanding, LinksAreOwned
      <2>5. DeletedIsUnlinked'
            BY <1>11 DEF ResendRead, SignHeld, DeletedIsUnlinked
      <2>6. UsesCounted'
            BY <1>11 DEF ResendRead, SignHeld, UsesCounted
      <2>7. ProofHeld'
            BY <1>11 DEF ResendRead, SignHeld, ProofHeld, LinksAreOwned
      <2>8. AddressIsProven'
            BY <1>11 DEF ResendRead, SignHeld, AddressIsProven
      <2> QED BY <2>1, <2>2, <2>3, <2>4, <2>5, <2>6, <2>7, <2>8
<1>12. ASSUME NEW h \in Handlers, InvalidateLinks(h)
      PROVE  AccountInv'
      <2> DEFINE a == sign[h].acct
      <2>1. /\ Goes(h, "mint") /\ UNCHANGED <<acct, relinked, proven>> /\ sign[h].at = "invalidate"
            /\ racing' = IF Minting(a) = {h} THEN racing \ {a} ELSE racing
            BY <1>12 DEF InvalidateLinks
      <2>2. link' = [k \in Links |-> IF k \in Outstanding(a) THEN [link[k] EXCEPT !.used = TRUE]
                                     ELSE link[k]]
            BY <1>12 DEF InvalidateLinks
      <2>0. /\ uses' \in [Links -> Nat]
            /\ \A k \in Links : uses'[k] = IF k \in Outstanding(a) THEN uses[k] + 1 ELSE uses[k]
            BY <1>12 DEF InvalidateLinks
      <2>3. /\ link' \in [Links -> LinkRow \cup {Nothing}]
            /\ \A k \in Links : link[k] # Nothing => link'[k] # Nothing /\ link'[k].acct = link[k].acct
            /\ \A k \in Links : link[k] = Nothing <=> link'[k] = Nothing
            /\ \A k \in Links : k \in Outstanding(a) => link'[k].used
            /\ \A k \in Links : k \notin Outstanding(a) => link'[k] = link[k]
            <3>1. \A k \in Links : link[k] # Nothing => link[k] \in LinkRow
                  BY RowsTyped
            <3>2. \A k \in Links : k \in Outstanding(a) =>
                     /\ link[k] \in LinkRow /\ link'[k] \in LinkRow
                     /\ link'[k].used /\ link'[k].acct = a
                  BY <2>2, <3>1 DEF Outstanding
            <3>3. \A k \in Links : k \notin Outstanding(a) => link'[k] = link[k]
                  BY <2>2
            <3>4. link' \in [Links -> LinkRow \cup {Nothing}]
                  BY <2>2, <3>2
            <3>5. \A k \in Links : link[k] # Nothing => link'[k] # Nothing /\ link'[k].acct = link[k].acct
                  BY <3>2, <3>3 DEF Outstanding
            <3>6. \A k \in Links : link[k] = Nothing <=> link'[k] = Nothing
                  BY <3>2, <3>3 DEF Outstanding
            <3> QED BY <3>2, <3>3, <3>4, <3>5, <3>6
      <2>4. AccountTypes'
            BY <2>0, <2>1, <2>3
      <2>5. SignHeld'
            BY <2>1, <2>3 DEF SignHeld
      <2>6. LinksAreOwned'
            BY <2>1, <2>3 DEF LinksAreOwned, SignHeld
      <2>7. OneSender'
            <3>1. ASSUME NEW b \in AccountRows
                  PROVE  Minting(b)' = Minting(b) /\ Outstanding(b)' \subseteq Outstanding(b)
                  BY <2>1, <2>3 DEF Minting, Outstanding
            <3>2. \A k \in Links : link'[k] # Nothing /\ link'[k].acct = a => link'[k].used
                  BY <2>3 DEF Outstanding
            <3>3. \A i \in Handlers : sign'[i].at = "mint" => i = h \/ sign'[i] = sign[i]
                  BY <2>1
            <3>4. sign'[h].acct = a
                  BY <2>1
            <3>6. \A b \in AccountRows \ racing' : b \in racing => b = a /\ Minting(a) = {h}
                  BY <2>1
            <3>7. /\ a \in AccountRows
                  /\ \A b \in AccountRows : b = a => Outstanding(b)' = {}
                  BY <2>1, <3>2 DEF Outstanding, SignHeld
            <3> HIDE DEF a
            <3>5. ASSUME NEW b \in AccountRows \ racing', NEW i \in Handlers,
                         sign'[i].at = "mint", sign'[i].acct = b
                  PROVE  Outstanding(b)' = {}
                  <4>1. CASE b = a
                        BY <3>5, <3>7, <4>1
                  <4>2. CASE b # a
                        <5>1. b \in AccountRows \ racing /\ i # h
                              BY <3>4, <3>5, <3>6, <4>2
                        <5> QED BY <3>1, <3>3, <3>5, <5>1 DEF OneSender
                  <4> QED BY <4>1, <4>2
            <3>8. ASSUME NEW b \in AccountRows \ racing'
                  PROVE  /\ \A i, k \in Minting(b)' : i = k
                         /\ \A k, l \in Outstanding(b)' : k = l
                  <4>1. CASE b = a
                        <5>1. \A i, k \in Minting(b)' : i = k
                              BY <3>1, <3>6, <3>8, <4>1 DEF OneSender
                        <5> QED BY <3>7, <3>8, <4>1, <5>1
                  <4>2. CASE b # a
                        <5>1. b \in AccountRows \ racing
                              BY <3>6, <3>8, <4>2
                        <5> QED BY <3>1, <5>1 DEF OneSender
                  <4> QED BY <4>1, <4>2
            <3>9. AccountRows' = AccountRows
                  BY <2>1
            <3> QED BY <3>5, <3>8, <3>9 DEF OneSender
      <2>8. DeletedIsUnlinked'
            BY <2>1, <2>3 DEF DeletedIsUnlinked
      <2>9. UsesCounted'
            BY <2>0, <2>3 DEF UsesCounted, Outstanding
      <2>10. ProofHeld'
            BY <2>1, <2>3 DEF ProofHeld, SignHeld, LinksAreOwned
      <2>11. AddressIsProven'
            BY <2>1, <2>3 DEF AddressIsProven
      <2> QED BY <2>4, <2>5, <2>6, <2>7, <2>8, <2>9, <2>10, <2>11
<1>13. ASSUME NEW a \in Accts, Anonymize(a)
      PROVE  AccountInv'
      <2> DEFINE row == [acct[a] EXCEPT !.deleted = TRUE, !.email = Nothing,
                                        !.google = Nothing, !.password = FALSE]
      <2>1. acct' = [acct EXCEPT ![a] = row] /\ UNCHANGED <<link, sign, racing, relinked, proven, uses>>
            BY <1>13 DEF Anonymize
      <2>2. /\ a \in AccountRows /\ row \in AccountRow
            /\ row.google = Nothing /\ row.deleted
            <3>1. a \in AccountRows
                  BY <1>13 DEF Anonymize
            <3>2. acct[a] \in AccountRow
                  BY <3>1, RowsTyped
            <3> QED BY <3>1, <3>2
      <2> HIDE DEF row
      <2>3. /\ acct' \in [Accts -> AccountRow \cup {Nothing}]
            /\ AccountRows' = AccountRows \cup {a}
            /\ \A b \in Accts \ {a} : acct'[b] = acct[b]
            /\ acct'[a] = row
            BY <2>1, <2>2, RowWritten
      <2>4. AccountTypes'
            BY <2>1, <2>2, <2>3
      <2>5. SignHeld'
            BY <2>1, <2>2, <2>3 DEF SignHeld
      <2>6. LinksAreOwned'
            BY <2>1, <2>2, <2>3 DEF LinksAreOwned, SignHeld
      <2>7. OneSender'
            BY <2>1, <2>2, <2>3 DEF OneSender, Minting, Outstanding, LinksAreOwned, SignHeld
      <2>8. DeletedIsUnlinked'
            BY <2>1, <2>2, <2>3 DEF DeletedIsUnlinked
      <2>9. UsesCounted'
            BY <2>1, <2>2, <2>3 DEF UsesCounted, SignHeld
      <2>10. ProofHeld'
            BY <2>1, <2>2, <2>3 DEF ProofHeld, SignHeld, LinksAreOwned
      <2>11. AddressIsProven'
            BY <2>1, <2>2, <2>3 DEF AddressIsProven
      <2> QED BY <2>4, <2>5, <2>6, <2>7, <2>8, <2>9, <2>10, <2>11
<1>14. ASSUME NEW h \in Handlers, SignInFails(h)
      PROVE  AccountInv'
      <2>1. AccountTypes'
            BY <1>14 DEF SignInFails, SignHeld, Outstanding, ByEmail
      <2>2. SignHeld'
            BY <1>14 DEF SignInFails, SignHeld, Outstanding, ByEmail, LinksAreOwned
      <2>3. LinksAreOwned'
            BY <1>14 DEF SignInFails, SignHeld, Outstanding, LinksAreOwned
      <2>4. OneSender'
            BY <1>14 DEF SignInFails, SignHeld, OneSender, Minting, Outstanding, LinksAreOwned
      <2>5. DeletedIsUnlinked'
            BY <1>14 DEF SignInFails, SignHeld, DeletedIsUnlinked
      <2>6. UsesCounted'
            BY <1>14 DEF SignInFails, SignHeld, UsesCounted
      <2>7. ProofHeld'
            BY <1>14 DEF SignInFails, SignHeld, ProofHeld, LinksAreOwned
      <2>8. AddressIsProven'
            BY <1>14 DEF SignInFails, SignHeld, AddressIsProven
      <2> QED BY <2>1, <2>2, <2>3, <2>4, <2>5, <2>6, <2>7, <2>8
<1>15. CASE UNCHANGED accountVars
      BY <1>15 DEF accountVars, SignHeld, LinksAreOwned, OneSender, Minting, Outstanding,
                   DeletedIsUnlinked, UsesCounted, ProofHeld, AddressIsProven
<1> QED
    BY <1>1, <1>2, <1>3, <1>4, <1>5, <1>6, <1>7, <1>8, <1>9, <1>10, <1>11, <1>12, <1>13,
       <1>14, <1>15 DEF AccountNext
\* At most one element: the elements of a set are all the same.
LEMMA AtMostOne ==
    ASSUME NEW S, \A x, y \in S : x = y
    PROVE  Cardinality(S) <= 1
<1>1. CASE S = {}
      BY <1>1, FS_EmptySet
<1>2. ASSUME NEW x \in S PROVE Cardinality(S) <= 1
      <2>1. S = {x}
            BY <1>2
      <2> QED BY <2>1, FS_Singleton
<1> QED BY <1>1, <1>2

\* auth.service.ts: accounts, links and the requests under way are well typed,
\* however requests overlap.
THEOREM AccountTypesOK == AccountSpec => []AccountTypes
<1>1. AccountInv => AccountTypes
      BY DEF AccountInv
<1> QED BY <1>1, AccountInvInit, AccountInvStep, PTL DEF AccountSpec

\* auth.service.ts and users.service.ts: an account has one good verification
\* link at most, and a deleted one keeps no Google identity.
THEOREM IdentitiesOwned == AccountSpec => []IdentitiesAreOwn
<1>1. AccountInv => IdentitiesAreOwn
      <2>1. ASSUME AccountInv PROVE OneLinkOutstanding
            BY <2>1, AtMostOne DEF AccountInv, OneSender, OneLinkOutstanding
      <2>2. AccountInv => LinksServeOnce
            BY DEF AccountInv, UsesCounted, LinksServeOnce
      <2> QED BY <2>1, <2>2 DEF AccountInv, IdentitiesAreOwn
<1> QED BY <1>1, AccountInvInit, AccountInvStep, PTL DEF AccountSpec
=============================================================================

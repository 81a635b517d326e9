----------------------------- MODULE AlertScans -----------------------------
(***************************************************************************)
(* Alert rules, price watches, the scheduled scans over them and the       *)
(* notifications they leave: alerts.service.ts, alerts.scheduler.ts,       *)
(* alerts.processor.ts, alert-scan.service.ts, notifications.service.ts.   *)
(*                                                                         *)
(* Every replica's cron adds a job; a worker runs one job at a time and    *)
(* visits the enabled rules of its kind in batches, one statement at a     *)
(* time.  The in-process lock of runScan is held exactly while the only    *)
(* job of that process runs, so scan[w] stands for both.                   *)
(*                                                                         *)
(* External: BullMQ keeps one job per id and starts a job over whose       *)
(* worker went silent, at most MaxStalls times; Prisma's cursor.           *)
(***************************************************************************)
EXTENDS Platform, Integers, Sequences, FiniteSets

CONSTANTS Kinds,       \* which scans are scheduled, of ScanNames
          BatchSize,   \* USER_BATCH_SIZE
          Day,         \* hours of a day
          WeekAgo,     \* WeekAgo[p]: price a week ago, or Nothing
          LivePrices,  \* prices a product may take
          Target,      \* targetPriceCents of the watches, or Nothing
          Threshold,   \* percent
          MaxStalls,   \* BullMQ's maxStalledCount
          LastHour,    \* bound on time
          MaxNotices   \* bound on notifications

ScanNames == {"price-drop", "expiring", "promotions", "budget-overrun"}

ASSUME AlertsAssumption ==
    /\ Kinds \subseteq ScanNames
    /\ BatchSize \in Nat \ {0}
    /\ Day \in Nat \ {0}
    /\ Threshold \in Nat
    /\ MaxStalls \in Nat

VARIABLES
    hour,       \* the time
    rules,      \* rules[k]: users whose alert of kind k is enabled
    watches,    \* rows of price_watches: pairs of user and product
    latest,     \* latest[p]: the newest price
    notices,    \* rows of notifications, in the order of their creation
    jobs,       \* jobs of the "alerts" queue, ended ones included
    scan,       \* scan[w]: where worker w stands
    owed        \* history: owed[w]: enabled since before w's scan, not yet visited

alertVars == <<hour, rules, watches, latest, notices, jobs, scan, owed>>

-----------------------------------------------------------------------------
JobRow == [id : Kinds \X Nat, kind : Kinds, owner : Workers \cup {Nothing},
           state : {"waiting", "active", "ended"}, stalls : 0..MaxStalls]
NoScan == [at |-> "idle", id |-> Nothing, kind |-> Nothing, start |-> 0, cursor |-> 0,
           batch |-> {}, full |-> FALSE, user |-> 0, left |-> {}, product |-> Nothing,
           alone |-> TRUE, again |-> FALSE, cut |-> FALSE]
Busy(w) == scan[w].at \notin {"idle", "done"}

\* The n first rows of a result ordered by id.
First(S, n) == {u \in S : Cardinality({v \in S : v < u}) < n}
Lowest(S) == CHOOSE u \in S : \A v \in S : u <= v
Highest(S) == CHOOSE u \in S : \A v \in S : v <= u

EvaluatePriceDrop(now, ago, target, threshold) ==
    \/ target # Nothing /\ now <= target
    \/ ago # Nothing /\ threshold > 0 /\ ago > now /\ (ago - now) * 100 >= threshold * ago

AlertInit ==
    /\ hour = 0
    /\ rules = [k \in Kinds |-> {}]
    /\ watches = {}
    /\ latest \in [Products -> LivePrices]
    /\ notices = <<>>
    /\ jobs = {}
    /\ scan = [w \in Workers |-> NoScan]
    /\ owed = [w \in Workers |-> {}]

-----------------------------------------------------------------------------
\* Requests.

Enable(u, k) ==
    /\ rules' = [rules EXCEPT ![k] = @ \cup {u}]
    /\ UNCHANGED <<hour, watches, latest, notices, jobs, scan, owed>>

Disable(u, k) ==
    /\ rules' = [rules EXCEPT ![k] = @ \ {u}]
    /\ owed' = [w \in Workers |-> IF scan[w].kind = k THEN owed[w] \ {u} ELSE owed[w]]
    /\ UNCHANGED <<hour, watches, latest, notices, jobs, scan>>

\* The unique columns refuse a second watch of the product.
CreatePriceWatch(u, p) ==
    /\ <<u, p>> \notin watches
    /\ watches' = watches \cup {<<u, p>>}
    /\ UNCHANGED <<hour, rules, latest, notices, jobs, scan, owed>>

DeletePriceWatch(u, p) ==
    /\ <<u, p>> \in watches
    /\ watches' = watches \ {<<u, p>>}
    /\ UNCHANGED <<hour, rules, latest, notices, jobs, scan, owed>>

MarkRead(i) ==
    /\ ~notices[i].read
    /\ notices' = [notices EXCEPT ![i].read = TRUE]
    /\ UNCHANGED <<hour, rules, watches, latest, jobs, scan, owed>>

Unread(u) == {i \in DOMAIN notices : notices[i].user = u /\ ~notices[i].read}

MarkAllRead(u) ==
    /\ Unread(u) # {}
    /\ notices' = [i \in DOMAIN notices |->
                      [notices[i] EXCEPT !.read = @ \/ notices[i].user = u]]
    /\ UNCHANGED <<hour, rules, watches, latest, jobs, scan, owed>>

\* A new price is recorded for p.
Reprice(p) ==
    /\ \E c \in LivePrices : latest' = [latest EXCEPT ![p] = c]
    /\ UNCHANGED <<hour, rules, watches, notices, jobs, scan, owed>>

Tick ==
    /\ hour < LastHour
    /\ hour' = hour + 1
    /\ UNCHANGED <<rules, watches, latest, notices, jobs, scan, owed>>

-----------------------------------------------------------------------------
\* The schedule and the queue.

Hourly(k) == k = "price-drop"
Stamp(k) == IF Hourly(k) THEN hour ELSE hour \div Day

\* Mutant: every replica adds a job of its own.
JobIdPerReplica(k, w) == <<k, Stamp(k), w>>

\* The id of the job that replica w's cron adds.
JobId(k, w) == <<k, Stamp(k)>>

\* The cron of replica w fires; an id that is known already is ignored.
Enqueue(k, w) ==
    /\ Hourly(k) \/ hour % Day = 0
    /\ \A j \in jobs : j.id # JobId(k, w)
    /\ jobs' = jobs \cup {[id |-> JobId(k, w), kind |-> k, owner |-> Nothing,
                           state |-> "waiting", stalls |-> 0]}
    /\ UNCHANGED <<hour, rules, watches, latest, notices, scan, owed>>

Take(w) ==
    /\ scan[w].at = "idle"
    /\ \E j \in jobs :
          /\ j.state = "waiting"
          /\ jobs' = (jobs \ {j}) \cup {[j EXCEPT !.state = "active", !.owner = w]}
          /\ LET others == {v \in Workers \ {w} : Busy(v) /\ scan[v].kind = j.kind}
             IN scan' = [v \in Workers |->
                   IF v = w
                   THEN [NoScan EXCEPT !.at = "batch", !.id = j.id, !.kind = j.kind,
                                       !.start = hour, !.alone = (others = {}),
                                       !.again = (j.stalls > 0)]
                   ELSE IF v \in others THEN [scan[v] EXCEPT !.alone = FALSE] ELSE scan[v]]
          /\ owed' = [owed EXCEPT ![w] = rules[j.kind]]
    /\ UNCHANGED <<hour, rules, watches, latest, notices>>

\* The queue hears nothing of w's job for too long and gives it to whoever is free.
Requeue(w) ==
    \E j \in jobs :
       /\ j.state = "active" /\ j.owner = w
       /\ jobs' = (jobs \ {j}) \cup
             {IF j.stalls < MaxStalls
              THEN [j EXCEPT !.state = "waiting", !.owner = Nothing, !.stalls = @ + 1]
              ELSE [j EXCEPT !.state = "ended", !.owner = Nothing]}

\* The process of w dies in the middle of its scan.
WorkerDies(w) ==
    /\ Busy(w)
    /\ IF \E j \in jobs : j.owner = w THEN Requeue(w) ELSE UNCHANGED jobs
    /\ scan' = [scan EXCEPT ![w] = NoScan]
    /\ owed' = [owed EXCEPT ![w] = {}]
    /\ UNCHANGED <<hour, rules, watches, latest, notices>>

\* w is slow, not dead: it goes on beside the new start of its job.
Stalled(w) ==
    /\ Busy(w)
    /\ Requeue(w)
    /\ UNCHANGED <<hour, rules, watches, latest, notices, scan, owed>>

-----------------------------------------------------------------------------
\* A scan.

\* Prisma's cursor starts at the cursor row and skips one row: if the cursor row
\* is disabled by then, the row skipped is the one behind it.
Page(k, cursor) ==
    LET from == {u \in rules[k] : u >= cursor}
    IN IF cursor = 0 THEN First(rules[k], BatchSize)
                     ELSE First(from \ First(from, 1), BatchSize)

\* Mutant: the failure of one user's visit ends the scan.
GoOnUnlessFailed(w, failed) ==
    IF scan[w].batch # {} /\ ~failed
    THEN [scan[w] EXCEPT !.at = "visit", !.user = 0, !.left = {}, !.product = Nothing]
    ELSE [scan[w] EXCEPT !.at = IF scan[w].full /\ ~failed THEN "batch" ELSE "done",
                         !.user = 0, !.left = {}, !.product = Nothing]

\* After a rule was visited, whether or not its visit failed: the next one of
\* the batch, the next batch, or the end.
GoOn(w, failed) ==
    IF scan[w].batch # {}
    THEN [scan[w] EXCEPT !.at = "visit", !.user = 0, !.left = {}, !.product = Nothing]
    ELSE [scan[w] EXCEPT !.at = IF scan[w].full THEN "batch" ELSE "done",
                         !.user = 0, !.left = {}, !.product = Nothing]

ReadBatch(w) ==
    /\ scan[w].at = "batch"
    /\ LET k == scan[w].kind
           page == Page(k, scan[w].cursor)
       IN scan' = [scan EXCEPT ![w] =
             [scan[w] EXCEPT !.at = IF page = {} THEN "done" ELSE "visit",
                             !.batch = page,
                             !.full = (Cardinality(page) = BatchSize),
                             !.cut = @ \/ (scan[w].cursor # 0 /\ scan[w].cursor \notin rules[k]),
                             !.cursor = IF page = {} THEN @ ELSE Highest(page)]]
    /\ UNCHANGED <<hour, rules, watches, latest, notices, jobs, owed>>

\* The first query for the next rule of the batch.
Visit(w) ==
    /\ scan[w].at = "visit"
    /\ LET u == Lowest(scan[w].batch)
           mine == {p \in Products : <<u, p>> \in watches}
           next == [scan[w] EXCEPT !.batch = @ \ {u}, !.user = u]
       IN /\ owed' = [owed EXCEPT ![w] = @ \ {u}]
          /\ scan' = [scan EXCEPT ![w] =
                IF scan[w].kind = "price-drop"
                THEN [next EXCEPT !.at = "product", !.left = mine]
                ELSE [next EXCEPT !.at = "digest"]]
    /\ UNCHANGED <<hour, rules, watches, latest, notices, jobs>>

\* The newest and the week-old price of the next watched product.
Evaluate(w) ==
    /\ scan[w].at = "product"
    /\ \/ /\ scan[w].left = {}
          /\ scan' = [scan EXCEPT ![w] = GoOn(w, FALSE)]
       \/ \E p \in scan[w].left :
             scan' = [scan EXCEPT ![w] =
                [scan[w] EXCEPT !.left = @ \ {p}, !.product = p,
                                !.at = IF EvaluatePriceDrop(latest[p], WeekAgo[p], Target, Threshold)
                                       THEN "duplicate" ELSE "product"]]
    /\ UNCHANGED <<hour, rules, watches, latest, notices, jobs, owed>>

\* A notification of this product since a day before the scan began.
Notified(w) ==
    \E i \in DOMAIN notices :
       /\ notices[i].user = scan[w].user /\ notices[i].product = scan[w].product
       /\ notices[i].kind = "price-drop" /\ notices[i].at >= scan[w].start - Day

CheckDuplicate(w) ==
    /\ scan[w].at = "duplicate"
    /\ scan' = [scan EXCEPT ![w].at = IF Notified(w) THEN "product" ELSE "notify"]
    /\ UNCHANGED <<hour, rules, watches, latest, notices, jobs, owed>>

\* Pantry items, each with the days until it expires, that are worth a reminder.
Expiring(items, days) ==
    {i \in items : ~i.consumed /\ ~i.wasted /\ i.expires # Nothing /\ i.expires \in 0..days}

\* Watched products and those matching the user's recipes, as far as on promotion.
Promoted(watched, matched, promos) == (watched \cup matched) \cap promos

Overspent(budget, spent) == budget # Nothing /\ budget > 0 /\ spent > budget

\* Whether a digest of kind k has something to tell, for the data it may find.
Findings(k) ==
    CASE k = "expiring" ->
           {Expiring({[consumed |-> c, wasted |-> g, expires |-> e]}, 3) # {} :
               c \in BOOLEAN, g \in BOOLEAN, e \in {0, 4}}
      [] k = "promotions" ->
           {Promoted(a, b, c) # {} : a, b, c \in SUBSET Products}
      [] k = "budget-overrun" ->
           {Overspent(b, s) : b \in {Nothing, 10}, s \in {10, 11}}

\* What is expiring, on promotion or overspent for this user is read; with
\* nothing to tell the visit ends.
ReadDigest(w) ==
    /\ scan[w].at = "digest"
    /\ \E found \in Findings(scan[w].kind) :
          scan' = [scan EXCEPT ![w] = IF found THEN [@ EXCEPT !.at = "notify"]
                                      ELSE GoOn(w, FALSE)]
    /\ UNCHANGED <<hour, rules, watches, latest, notices, jobs, owed>>

\* The row is created; the mail after it never throws.
Notify(w) ==
    /\ scan[w].at = "notify"
    /\ Len(notices) < MaxNotices
    /\ notices' = Append(notices,
          [user |-> scan[w].user, kind |-> scan[w].kind, product |-> scan[w].product,
           at |-> hour, job |-> scan[w].id, read |-> FALSE,
           alone |-> scan[w].alone, again |-> scan[w].again])
    /\ scan' = [scan EXCEPT ![w] =
          IF scan[w].kind = "price-drop" THEN [@ EXCEPT !.at = "product"] ELSE GoOn(w, FALSE)]
    /\ UNCHANGED <<hour, rules, watches, latest, jobs, owed>>

\* A statement of the visit fails: it is logged and counted.
VisitFails(w) ==
    /\ scan[w].at \in {"product", "duplicate", "digest", "notify"}
    /\ scan' = [scan EXCEPT ![w] = GoOn(w, TRUE)]
    /\ UNCHANGED <<hour, rules, watches, latest, notices, jobs, owed>>

\* The query for a batch fails: with one attempt, so does the job.
BatchFails(w) ==
    /\ scan[w].at = "batch"
    /\ scan' = [scan EXCEPT ![w] = NoScan]
    /\ owed' = [owed EXCEPT ![w] = {}]
    /\ jobs' = {IF j.owner = w THEN [j EXCEPT !.state = "ended", !.owner = Nothing] ELSE j :
                   j \in jobs}
    /\ UNCHANGED <<hour, rules, watches, latest, notices>>

EndScan(w) ==
    /\ scan[w].at = "done"
    /\ scan' = [scan EXCEPT ![w] = NoScan]
    /\ owed' = [owed EXCEPT ![w] = {}]
    /\ jobs' = {IF j.owner = w THEN [j EXCEPT !.state = "ended", !.owner = Nothing] ELSE j :
                   j \in jobs}
    /\ UNCHANGED <<hour, rules, watches, latest, notices>>

AlertNext ==
    \/ \E u \in Users, k \in Kinds : Enable(u, k) \/ Disable(u, k)
    \/ \E u \in Users, p \in Products : CreatePriceWatch(u, p) \/ DeletePriceWatch(u, p)
    \/ \E i \in DOMAIN notices : MarkRead(i)
    \/ \E u \in Users : MarkAllRead(u)
    \/ \E p \in Products : Reprice(p)
    \/ Tick
    \/ \E k \in Kinds, w \in Workers : Enqueue(k, w)
    \/ \E w \in Workers :
          \/ Take(w) \/ WorkerDies(w) \/ Stalled(w)
          \/ ReadBatch(w) \/ Visit(w) \/ Evaluate(w) \/ CheckDuplicate(w) \/ ReadDigest(w)
          \/ Notify(w) \/ VisitFails(w) \/ BatchFails(w) \/ EndScan(w)

AlertSpec == AlertInit /\ [][AlertNext]_alertVars

-----------------------------------------------------------------------------
\* alert-scan.service.ts:102 "skip when this product was already notified within
\* 24h": two notifications of one drop within a day come from scans that ran at
\* the same time.  And alerts.scheduler.ts:10: whatever the number of replicas,
\* a user gets one digest of a kind for each day, unless its scan was started over.
NotifiedOnce ==
    \A i, j \in DOMAIN notices :
       /\ i < j /\ notices[i].user = notices[j].user /\ notices[i].kind = notices[j].kind
       => IF notices[j].kind = "price-drop"
          THEN notices[i].product = notices[j].product /\ notices[j].at - notices[i].at <= Day
               => ~notices[j].alone
          ELSE notices[i].job[2] = notices[j].job[2] => notices[i].again \/ notices[j].again

\* alert-scan.service.ts:287: a scan that reaches its end has visited every rule
\* that was enabled all along, whatever failed on the way and whatever rules
\* came and went, except where the row of its cursor was disabled between two batches.
EnabledAreVisited ==
    \A w \in Workers : scan[w].at = "done" /\ ~scan[w].cut => owed[w] = {}
=============================================================================

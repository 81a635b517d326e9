----------------------------- MODULE PagesProofs -----------------------------
(* Theorems about the quotas, for any users, kinds, limits and requests: the *)
(* counters bound what they grant and refuse nothing that is left.  Theorems *)
(* about the pages of the web client, for any group of pages (all of them    *)
(* included) and any number of mutations, visits, forms and fetches: what a  *)
(* page shows once nothing is under way, and which forms are closed.         *)
EXTENDS Quota, WebClient, FiniteSetTheorems, TLAPS

LEMMA DivBound == \A m \in Nat, n \in Nat \ {0} : m \div n \in 0..m
BY SMT

LEMMA PeriodKeyType ==
    ASSUME TypeOK, NEW kind \in Kinds
    PROVE  PeriodKey(kind) \in {"day", "month"} \X (0..LastDay)
<1> USE ConstantsAssumption
<1>1. day \in Nat /\ day <= LastDay
      BY DEF TypeOK
<1>2. day \div DaysPerMonth \in 0..LastDay
      BY <1>1, DivBound
<1> QED BY <1>1, <1>2 DEF PeriodKey

LEMMA LimitType == ASSUME NEW c \in Counter PROVE LimitOf(c) \in Nat
BY ConstantsAssumption DEF LimitOf, Counter

\* A call past its first step is about a counter.
Busy == \A r \in Requests : req[r].at # "idle" => req[r].on \in Counter

TypeInv == TypeOK /\ Busy

LEMMA TypeInit == Init => TypeInv
BY ConstantsAssumption DEF Init, TypeInv, TypeOK, Busy, Call, Idle

LEMMA TypeStep == TypeInv /\ [Next]_vars => TypeInv'
<1> USE ConstantsAssumption
<1> SUFFICES ASSUME TypeInv, [Next]_vars PROVE TypeInv'
    OBVIOUS
<1> USE DEF TypeInv, Busy
<1>1. ASSUME NEW r \in Requests, NEW u \in Users, NEW kind \in Kinds,
             NEW tier \in {"FREE", "PREMIUM"}, Start(r, u, kind, tier)
      PROVE  TypeInv'
      <2>1. <<u, kind, PeriodKey(kind)>> \in Counter
            BY PeriodKeyType DEF Counter
      <2> QED BY <1>1, <2>1 DEF Start, TypeOK, Call, history
<1>2. ASSUME NEW r \in Requests, Upsert(r) PROVE TypeInv'
      BY <1>2 DEF Upsert, TypeOK, Call, history
<1>3. ASSUME NEW r \in Requests, Grant(r) PROVE TypeInv'
      BY <1>3 DEF Grant, TypeOK, Call, Idle
<1>4. ASSUME NEW r \in Requests, Refuse(r) PROVE TypeInv'
      BY <1>4 DEF Refuse, TypeOK, Call, Idle
<1>5. ASSUME NEW r \in Requests, Fail(r) PROVE TypeInv'
      BY <1>5 DEF Fail, TypeOK, Call, Idle
<1>6. CASE NextDay
      BY <1>6 DEF NextDay, TypeOK, history
<1>7. CASE UNCHANGED vars
      BY <1>7 DEF vars, TypeOK
<1> QED BY <1>1, <1>2, <1>3, <1>4, <1>5, <1>6, <1>7 DEF Next

\* Every reachable state is well typed.
THEOREM TypeCorrect == Spec => []TypeOK
<1>1. TypeInv => TypeOK
      BY DEF TypeInv
<1> QED BY <1>1, TypeInit, TypeStep, PTL DEF Spec

LEMMA Typed == Spec => []TypeInv
BY TypeInit, TypeStep, PTL DEF Spec

-----------------------------------------------------------------------------
\* The counts up to count[c] are accounted for: each was handed to a granted
\* call, or lost, or refused, or waits for its comparison in one request.
Accounted(c) ==
    /\ handed[c] \subseteq 1..LimitOf(c)
    /\ \A n \in handed[c] \cup lost[c] : n <= count[c]
    /\ granted[c] = Cardinality(handed[c])
    /\ \A n \in 1..count[c] :
          n \in handed[c] \cup lost[c] \cup Pending(c) \/ n > LimitOf(c)
    /\ c \in refused => count[c] > LimitOf(c)

\* A count that waits for its comparison is nobody else's.
Exclusive ==
    \A r \in Requests : req[r].at = "compare" =>
        LET c == req[r].on n == req[r].seen IN
        /\ n \in 1..count[c]
        /\ n \notin handed[c]
        /\ \A s \in Requests \ {r} :
              req[s].at = "compare" /\ req[s].on = c => req[s].seen # n

QuotaInv == (\A c \in Counter : Accounted(c)) /\ Exclusive

LEMMA QuotaInit == Init => QuotaInv
<1> SUFFICES ASSUME Init PROVE QuotaInv
    OBVIOUS
<1>1. Cardinality({}) = 0
      BY FS_EmptySet
<1>2. ASSUME NEW c \in Counter PROVE Accounted(c)
      BY <1>1, LimitType DEF Init, Accounted, Counter
<1>3. Exclusive
      BY DEF Init, Exclusive, Idle
<1> QED BY <1>2, <1>3 DEF QuotaInv

LEMMA QuotaStep == TypeInv /\ QuotaInv /\ [Next]_vars => QuotaInv'
<1> USE ConstantsAssumption
<1> SUFFICES ASSUME TypeInv, QuotaInv, [Next]_vars PROVE QuotaInv'
    OBVIOUS
<1> USE DEF TypeInv, Busy, TypeOK, Call, Idle, history
<1>0. \A c \in Counter : LimitOf(c) \in Nat
      BY LimitType
<1>1. ASSUME NEW r \in Requests, NEW u \in Users, NEW kind \in Kinds,
             NEW tier \in {"FREE", "PREMIUM"}, Start(r, u, kind, tier)
      PROVE  QuotaInv'
      <2>1. Exclusive'
            BY <1>1 DEF Start, QuotaInv, Exclusive
      <2>2. ASSUME NEW c \in Counter PROVE Accounted(c)'
            <3>1. Pending(c)' = Pending(c)
                  BY <1>1 DEF Start, Pending
            <3> QED BY <1>1, <3>1 DEF Start, QuotaInv, Accounted, LimitOf
      <2> QED BY <2>1, <2>2 DEF QuotaInv
<1>2. ASSUME NEW r \in Requests, Upsert(r) PROVE QuotaInv'
      <2>1. Exclusive'
            BY <1>0, <1>2 DEF Upsert, QuotaInv, Exclusive, Accounted
      <2>2. ASSUME NEW c \in Counter PROVE Accounted(c)'
            <3>1. Pending(c) \subseteq Pending(c)'
                  BY <1>2 DEF Upsert, Pending
            <3>2. count'[c] # count[c] => /\ count'[c] = count[c] + 1
                                          /\ count'[c] \in Pending(c)'
                  BY <1>2 DEF Upsert, Pending
            <3>3. Accounted(c)
                  BY DEF QuotaInv
            <3> QED BY <1>0, <1>2, <3>1, <3>2, <3>3 DEF Upsert, Accounted, LimitOf
      <2> QED BY <2>1, <2>2 DEF QuotaInv
<1>3. ASSUME NEW r \in Requests, Grant(r) PROVE QuotaInv'
      <2> DEFINE c0 == req[r].on
                 n0 == req[r].seen
      <2>1. /\ c0 \in Counter /\ n0 \in 1..count[c0] /\ n0 \notin handed[c0]
            /\ n0 <= LimitOf(c0)
            BY <1>3 DEF Grant, QuotaInv, Exclusive
      <2>2. Exclusive'
            BY <1>3, <2>1 DEF Grant, QuotaInv, Exclusive
      <2>3. ASSUME NEW c \in Counter PROVE Accounted(c)'
            <3>1. Pending(c) \subseteq Pending(c)' \cup (IF c = c0 THEN {n0} ELSE {})
                  BY <1>3 DEF Grant, Pending
            <3>2. Accounted(c)
                  BY DEF QuotaInv
            <3>3. granted'[c] = Cardinality(handed'[c])
                  <4>1. CASE c # c0
                        BY <1>3, <3>2, <4>1 DEF Grant, Accounted
                  <4>2. CASE c = c0
                        <5>1. IsFiniteSet(handed[c])
                              <6>1. IsFiniteSet(1..LimitOf(c))
                                    BY <1>0, FS_Interval
                              <6>2. handed[c] \in SUBSET (1..LimitOf(c))
                                    BY <3>2 DEF Accounted
                              <6> QED BY <6>1, <6>2, FS_Subset
                        <5>2. Cardinality(handed[c] \cup {n0}) = Cardinality(handed[c]) + 1
                              BY <2>1, <4>2, <5>1, FS_AddElement
                        <5> QED BY <1>3, <3>2, <4>2, <5>2 DEF Grant, Accounted
                  <4> QED BY <4>1, <4>2
            <3>4. handed'[c] \subseteq 1..LimitOf(c)
                  BY <1>0, <1>3, <2>1, <3>2 DEF Grant, Accounted
            <3>5. \A n \in handed'[c] \cup lost'[c] : n <= count'[c]
                  BY <1>3, <2>1, <3>2 DEF Grant, Accounted
            <3>6. \A n \in 1..count'[c] :
                     n \in handed'[c] \cup lost'[c] \cup Pending(c)' \/ n > LimitOf(c)
                  BY <1>3, <2>1, <3>1, <3>2 DEF Grant, Accounted
            <3>7. c \in refused' => count'[c] > LimitOf(c)
                  BY <1>3, <3>2 DEF Grant, Accounted
            <3> QED BY <3>3, <3>4, <3>5, <3>6, <3>7 DEF Accounted, LimitOf
      <2> QED BY <2>2, <2>3 DEF QuotaInv
<1>4. ASSUME NEW r \in Requests, Refuse(r) PROVE QuotaInv'
      <2> DEFINE c0 == req[r].on
                 n0 == req[r].seen
      <2>1. c0 \in Counter /\ n0 \in 1..count[c0] /\ n0 > LimitOf(c0)
            BY <1>4 DEF Refuse, QuotaInv, Exclusive
      <2>2. Exclusive'
            BY <1>4 DEF Refuse, QuotaInv, Exclusive
      <2>3. ASSUME NEW c \in Counter PROVE Accounted(c)'
            <3>1. Pending(c) \subseteq Pending(c)' \cup (IF c = c0 THEN {n0} ELSE {})
                  BY <1>4 DEF Refuse, Pending
            <3>2. Accounted(c)
                  BY DEF QuotaInv
            <3> QED BY <1>0, <1>4, <2>1, <3>1, <3>2 DEF Refuse, Accounted, LimitOf
      <2> QED BY <2>2, <2>3 DEF QuotaInv
<1>5. ASSUME NEW r \in Requests, Fail(r) PROVE QuotaInv'
      <2>2. Exclusive'
            BY <1>5 DEF Fail, QuotaInv, Exclusive
      <2>3. ASSUME NEW c \in Counter PROVE Accounted(c)'
            <3>1. lost[c] \cup Pending(c) \subseteq lost'[c] \cup Pending(c)'
                  BY <1>5 DEF Fail, Pending
            <3>2. Accounted(c)
                  BY DEF QuotaInv
            <3>3. \A n \in lost'[c] : n <= count[c]
                  BY <1>5, <3>2 DEF Fail, Accounted, QuotaInv, Exclusive
            <3> QED BY <1>0, <1>5, <3>1, <3>2, <3>3 DEF Fail, Accounted, LimitOf
      <2> QED BY <2>2, <2>3 DEF QuotaInv
<1>6. CASE NextDay
      <2>1. \A c \in Counter : Pending(c)' = Pending(c)
            BY <1>6 DEF NextDay, Pending
      <2> QED BY <1>6, <2>1 DEF NextDay, QuotaInv, Accounted, Exclusive, LimitOf
<1>7. CASE UNCHANGED vars
      <2>1. \A c \in Counter : Pending(c)' = Pending(c)
            BY <1>7 DEF vars, Pending
      <2> QED BY <1>7, <2>1 DEF vars, QuotaInv, Accounted, Exclusive, LimitOf
<1> QED BY <1>1, <1>2, <1>3, <1>4, <1>5, <1>6, <1>7 DEF Next

LEMMA Counted == Spec => []QuotaInv
BY Typed, QuotaInit, QuotaStep, PTL DEF Spec

-----------------------------------------------------------------------------
LEMMA WithinLimit ==
    ASSUME TypeInv, QuotaInv, NEW c \in Counter
    PROVE  granted[c] <= LimitOf(c)
<1>1. LimitOf(c) \in Nat
      BY LimitType
<1>2. handed[c] \subseteq 1..LimitOf(c) /\ granted[c] = Cardinality(handed[c])
      BY DEF QuotaInv, Accounted
<1>3. IsFiniteSet(1..LimitOf(c)) /\ Cardinality(1..LimitOf(c)) = LimitOf(c)
      BY <1>1, FS_Interval
<1>4. Cardinality(handed[c]) <= Cardinality(1..LimitOf(c))
      BY <1>2, <1>3, FS_Subset
<1> QED BY <1>2, <1>3, <1>4

LEMMA BoundStep == (TypeInv /\ QuotaInv => GrantedWithinLimit)'
<1>1. TypeInv /\ QuotaInv => GrantedWithinLimit
      BY WithinLimit DEF GrantedWithinLimit
<1> QED BY <1>1, PTL

\* No overlap of requests, no midnight and no crash makes a counter grant more
\* calls than the free tier has.
THEOREM GrantsBounded == Spec => []GrantedWithinLimit
<1>1. TypeInv /\ QuotaInv => GrantedWithinLimit
      BY WithinLimit DEF GrantedWithinLimit
<1> QED BY <1>1, Typed, Counted, PTL

\* Counting refused calls as well never makes a free use unavailable.
THEOREM RefusalsJustified == Spec => []RefusedOnlyWhenSpent
<1>1. TypeInv /\ QuotaInv => RefusedOnlyWhenSpent
      <2> SUFFICES ASSUME TypeInv, QuotaInv, NEW c \in refused, NEW n \in 1..LimitOf(c)
                   PROVE  n \in handed[c] \cup lost[c] \cup Pending(c)
          BY DEF RefusedOnlyWhenSpent
      <2>1. c \in Counter
            BY DEF TypeInv, TypeOK
      <2>2. LimitOf(c) \in Nat /\ count[c] \in Nat
            BY <2>1, LimitType DEF TypeInv, TypeOK
      <2> QED BY <2>1, <2>2 DEF QuotaInv, Accounted
<1> QED BY <1>1, Typed, Counted, PTL

-----------------------------------------------------------------------------
\* Every step of the quota service is a grant of the meter or leaves it alone.
THEOREM Implements == Spec => ImplementsMeter
<1>1. Init => MeterOf!Init
      BY DEF Init, MeterOf!Init
<1>2. TypeInv /\ QuotaInv /\ (TypeInv /\ QuotaInv)' /\ [Next]_vars
         => [MeterOf!Next]_granted
      <2> SUFFICES ASSUME TypeInv, QuotaInv, TypeInv', QuotaInv', [Next]_vars
                   PROVE  [MeterOf!Next]_granted
          OBVIOUS
      <2>1. ASSUME NEW r \in Requests, Grant(r) PROVE MeterOf!Next
            <3> DEFINE c == req[r].on
            <3>1. c \in Counter
                  BY <2>1 DEF Grant, TypeInv, Busy
            <3>2. granted' = [granted EXCEPT ![c] = @ + 1]
                  BY <2>1 DEF Grant
            <3>3. granted[c] \in Nat /\ LimitOf(c) \in Nat
                  BY <3>1, LimitType DEF TypeInv, TypeOK
            <3>4. granted'[c] = granted[c] + 1
                  BY <3>1, <3>2 DEF TypeInv, TypeOK
            <3>5. granted'[c] <= LimitOf(c)
                  <4>1. GrantedWithinLimit'
                        BY BoundStep
                  <4> QED BY <3>1, <4>1 DEF GrantedWithinLimit, LimitOf
            <3>6. MeterOf!Grant(c)
                  BY <3>1, <3>2, <3>3, <3>4, <3>5 DEF MeterOf!Grant
            <3> QED BY <3>1, <3>6 DEF MeterOf!Next
      <2> QED BY <2>1 DEF Next, Start, Upsert, Refuse, Fail, NextDay, vars, history
<1> QED BY <1>1, <1>2, Typed, Counted, PTL DEF Spec, ImplementsMeter, MeterOf!Spec

-----------------------------------------------------------------------------
\* The pages.

\* The page itself sees to k when m succeeds: asks again, or has just written it.
Covers(m, k) ==
    \/ \E p \in m.invalidates : IsPrefix(p, k)
    \/ m.makes /\ k \in Pages[m.leads] \ Topbar
    \/ m.via = "answer" /\ k \in Conversation

\* What the one optimistic mutation shows ahead of the API.
Ticked == <<"basket", "id">>

\* A row of the table does its part: what it changes is covered on its own page,
\* unless that is left for good, and on the page it leads to.
Sound(m) ==
    /\ m.leads \in DOMAIN Pages \cup {"outside", Absent}
    /\ m.leads = Absent \/ m.makes => \A k \in m.writes \cap AskedBy(m.on) : Covers(m, k)
    /\ m.leads \in DOMAIN Pages => \A k \in m.writes \cap AskedBy(m.leads) : Covers(m, k)
    /\ m.leads = "outside" => m.writes = {}
    /\ m.makes => m.leads \in DOMAIN Pages
    /\ m.via = "optimistic" => /\ m.on = "basket" /\ m.invalidates = {Ticked} /\ m.onError = {Ticked}
                             /\ Ticked \in m.writes /\ ~m.makes
    /\ m.via = "answer" => <<"chat-session", "id">> \in m.writes /\ m.on = "assistant" /\ ~m.makes
    /\ \A k \in m.writes : IsPrefix(Ticked, k) => k = Ticked
    /\ m.closes # "settled" /\ (m.closes = "start" => m.via = "answer")

TableSound == \A n \in DOMAIN Mutations : Sound(Mutations[n])

Entry == [shows : (SUBSET Writes) \cup {Absent}, stale : BOOLEAN,
          fetch : {"none", "asked", "answered"}, answer : SUBSET Writes]
Sending == [kind : DOMAIN Mutations \cup {Absent},
            at : {"none", "starting", "sent", "applied", "failed", "done"}, visit : Nat,
            before : (SUBSET Writes) \cup {Absent}, since : Nat, read : SUBSET Writes]

FormRow == [name : DOMAIN Forms, id : Nat \ {0}, filled : BOOLEAN]

\* The types of what the pages hold; a mutation under way belongs to the site.
ClientTypes ==
    /\ site \in Sites /\ page \in (site \cap DOMAIN Pages) \cup {"outside"}
    /\ cache \in [Keys -> Entry]
    /\ server \in [Keys -> SUBSET Writes] /\ due \in [Keys -> SUBSET Writes]
    /\ sent \in [Writes -> Sending]
    /\ \A w \in Writes : Underway(w) => sent[w].kind \in DOMAIN Mutations /\ Of(w).on \in site
    /\ \A w \in Writes : sent[w].at = "starting" => Of(w).via = "optimistic"
    /\ visits \in Nat /\ forms \in Nat
    /\ form \in FormRow \cup {Absent}

\* What is shown ahead of the API.
AheadKeys ==
    {k \in Keys : \E w \in Writes :
        Underway(w) /\ Of(w).via = "optimistic" /\ k \in Under(Of(w).invalidates)}

\* An entry for k on a page that sees the keys seen, when d is due and the API
\* has s; but for what an older answer overtook, and what is lost or ahead.
Fine(e, k, seen, d, s, over, doubt) ==
    /\ e.fetch = "answered" => e.answer \subseteq s /\ (k \notin over => d \subseteq e.answer)
    /\ /\ e.fetch = "none" /\ e.shows # Absent
       /\ k \notin over /\ k \notin doubt
       /\ k \in seen \/ ~e.stale
       => d \subseteq e.shows /\ e.shows \subseteq s

\* What the API did for w is in its answers, and a reply is no newer than them.
Applied(w) ==
    sent[w].at = "applied" =>
       /\ \A k \in Keys \cap Of(w).writes : w \in server[k]
       /\ Of(w).via = "answer" => w \in sent[w].read /\ sent[w].read \subseteq server[<<"chat-session", "id">>]

\* The inductive invariant behind OutcomeIsShown.
CacheInv ==
    /\ \A k \in Keys : /\ due[k] \subseteq server[k]
                       /\ Fine(cache[k], k, Watched, due[k], server[k], overtaken, failed \cup AheadKeys)
    /\ \A w \in Writes : Applied(w)

\* The form open is the newest, and a mutation knows of none newer.
FormInv ==
    /\ form # Absent => form.id = forms
    /\ \A w \in Writes : sent[w].since <= forms
    /\ FormsAreKept

-----------------------------------------------------------------------------
\* The table of pages and mutations.

LEMMA Asking ==
    /\ AskedBy("pantry") = PantryPage \cup NotificationsList
    /\ AskedBy("recipes") = RecipesPage \cup NotificationsList
    /\ AskedBy("recipe") = RecipePage \cup NotificationsList \cup Substitutions
    /\ AskedBy("new") = {} \cup NotificationsList
    /\ AskedBy("optimize") = OptimizePage \cup NotificationsList \cup RecipePicker
    /\ AskedBy("baskets") = BasketsPage \cup NotificationsList
    /\ AskedBy("basket") = BasketPage \cup NotificationsList
    /\ AskedBy("plans") = MealPlansPage \cup NotificationsList
    /\ AskedBy("plan") = MealPlanPage \cup NotificationsList \cup SwapDialog
    /\ AskedBy("assistant") = AssistantPage \cup NotificationsList \cup Conversation
    /\ AskedBy("settings") = SettingsPage \cup NotificationsList
    /\ AskedBy("product") = ProductPage \cup NotificationsList \cup Forecast
    /\ AskedBy("products") = ProductsPage \cup NotificationsList
    /\ AskedBy("dashboard") = DashboardPage \cup NotificationsList
    /\ AskedBy("analytics") = AnalyticsPage \cup NotificationsList
    /\ AskedBy("topbar") = Topbar \cup NotificationsList
BY DEF AskedBy, Pages, Opens

LEMMA PageNames ==
    DOMAIN Pages = {"pantry", "recipes", "recipe", "new", "optimize", "baskets", "basket", "plans", "plan",
                    "assistant", "settings", "product", "products", "dashboard", "analytics"}
BY DEF Pages

LEMMA PrefixFacts ==
    /\ IsPrefix(<<"recipes">>, <<"recipes", "list">>)
    /\ IsPrefix(<<"recipes">>, <<"recipes", "picker">>)
    /\ IsPrefix(<<"recipes">>, <<"recipes", "swap">>)
    /\ IsPrefix(<<"notifications">>, <<"notifications", "list">>)
    /\ IsPrefix(<<"notifications">>, <<"notifications", "unread-count">>)
<1>1. IsPrefix(<<"recipes">>, <<"recipes", "list">>)
      BY DEF IsPrefix
<1>2. IsPrefix(<<"recipes">>, <<"recipes", "picker">>)
      BY DEF IsPrefix
<1>3. IsPrefix(<<"recipes">>, <<"recipes", "swap">>)
      BY DEF IsPrefix
<1>4. IsPrefix(<<"notifications">>, <<"notifications", "list">>)
      BY DEF IsPrefix
<1>5. IsPrefix(<<"notifications">>, <<"notifications", "unread-count">>)
      BY DEF IsPrefix
<1> QED BY <1>1, <1>2, <1>3, <1>4, <1>5

\* What each mutation leaves, and where it leads, is asked for again or new.
LEMMA TableIsSound == TableSound
<1> USE DEF Sound, Covers, Ticked, Mutation, Submitted, Leading, Making, IsPrefix, Stock, Usage, Cookbooks,
        Notices, PantryPage, RecipesPage, RecipePage, OptimizePage, BasketsPage, BasketPage, MealPlansPage,
        MealPlanPage, AssistantPage, SettingsPage, ProductPage, ProductsPage, DashboardPage, AnalyticsPage,
        Topbar, Substitutions, RecipePicker, SwapDialog, Conversation, Forecast, NotificationsList, Pages
<1>1. Sound(SaveItem)
      BY Asking, PageNames, WebClientAssumption DEF SaveItem
<1>2. Sound(ItemAction)
      BY Asking, PageNames, WebClientAssumption DEF ItemAction
<1>3. Sound(Scan)
      BY Asking, PageNames, WebClientAssumption DEF Scan
<1>4. Sound(UploadReceipt)
      BY Asking, PageNames, WebClientAssumption DEF UploadReceipt
<1>5. Sound(ReprocessListed)
      <2>1. \A k \in ReprocessListed.writes : IsPrefix(Ticked, k) => k = Ticked
            BY DEF ReprocessListed
      <2> HIDE DEF IsPrefix
      <2> QED BY <2>1, Asking, PageNames, WebClientAssumption, PrefixFacts DEF ReprocessListed
<1>6. Sound(Reprocess)
      BY Asking, PageNames, WebClientAssumption DEF Reprocess
<1>7. Sound(UpdateRecipe)
      BY Asking, PageNames, WebClientAssumption DEF UpdateRecipe
<1>8. Sound(RemoveRecipe)
      <2>1. \A k \in RemoveRecipe.writes : IsPrefix(Ticked, k) => k = Ticked
            BY DEF RemoveRecipe
      <2> HIDE DEF IsPrefix
      <2> QED BY <2>1, Asking, PageNames, WebClientAssumption, PrefixFacts DEF RemoveRecipe
<1>9. Sound(UploadRecipe)
      BY Asking, PageNames, WebClientAssumption DEF UploadRecipe
<1>10. Sound(ImportUrl)
      BY Asking, PageNames, WebClientAssumption DEF ImportUrl
<1>11. Sound(PasteRecipe)
      BY Asking, PageNames, WebClientAssumption DEF PasteRecipe
<1>12. Sound(CreateRecipe)
      BY Asking, PageNames, WebClientAssumption DEF CreateRecipe
<1>13. Sound(OptimizeBasket)
      BY Asking, PageNames, WebClientAssumption DEF OptimizeBasket
<1>14. Sound(SaveBasket)
      BY Asking, PageNames, WebClientAssumption DEF SaveBasket
<1>15. Sound(ToggleItem)
      BY Asking, PageNames, WebClientAssumption DEF ToggleItem
<1>16. Sound(MarkPurchased)
      BY Asking, PageNames, WebClientAssumption DEF MarkPurchased
<1>17. Sound(RemoveBasket)
      BY Asking, PageNames, WebClientAssumption DEF RemoveBasket
<1>18. Sound(GeneratePlan)
      BY Asking, PageNames, WebClientAssumption DEF GeneratePlan
<1>19. Sound(RemoveListedPlan)
      BY Asking, PageNames, WebClientAssumption DEF RemoveListedPlan
<1>20. Sound(RemovePlan)
      BY Asking, PageNames, WebClientAssumption DEF RemovePlan
<1>21. Sound(Swap)
      BY Asking, PageNames, WebClientAssumption DEF Swap
<1>22. Sound(Send)
      BY Asking, PageNames, WebClientAssumption DEF Send
<1>23. Sound(RemoveSession)
      BY Asking, PageNames, WebClientAssumption DEF RemoveSession
<1>24. Sound(SaveProfile)
      BY Asking, PageNames, WebClientAssumption DEF SaveProfile
<1>25. Sound(UpdateAlert)
      BY Asking, PageNames, WebClientAssumption DEF UpdateAlert
<1>26. Sound(OpenPortal)
      BY Asking, PageNames, WebClientAssumption DEF OpenPortal
<1>27. Sound(RemoveAccount)
      BY Asking, PageNames, WebClientAssumption DEF RemoveAccount
<1>28. Sound(CreateWatch)
      BY Asking, PageNames, WebClientAssumption DEF CreateWatch
<1>29. Sound(ReportPrice)
      BY Asking, PageNames, WebClientAssumption DEF ReportPrice
<1>30. Sound(MarkRead)
      <2>1. \A k \in MarkRead.writes : IsPrefix(Ticked, k) => k = Ticked
            BY DEF MarkRead
      <2> HIDE DEF IsPrefix
      <2> QED BY <2>1, Asking, PageNames, WebClientAssumption, PrefixFacts DEF MarkRead
<1>31. Sound(MarkAllRead)
      <2>1. \A k \in MarkAllRead.writes : IsPrefix(Ticked, k) => k = Ticked
            BY DEF MarkAllRead
      <2> HIDE DEF IsPrefix
      <2> QED BY <2>1, Asking, PageNames, WebClientAssumption, PrefixFacts DEF MarkAllRead
<1>32. Sound(Checkout)
      BY Asking, PageNames, WebClientAssumption DEF Checkout
<1>33. Sound(SendSuggestion)
      <2>1. SendSuggestion.writes = Send.writes /\ SendSuggestion.invalidates = Send.invalidates
            BY DEF Send, SendSuggestion
      <2> QED BY Asking, PageNames, WebClientAssumption DEF Send, SendSuggestion
<1> HIDE DEF Sound
<1> QED BY <1>1, <1>2, <1>3, <1>4, <1>5, <1>6, <1>7, <1>8, <1>9, <1>10, <1>11, <1>12, <1>13, <1>14,
           <1>15, <1>16, <1>17, <1>18, <1>19, <1>20, <1>21, <1>22, <1>23, <1>24, <1>25, <1>26, <1>27,
           <1>28, <1>29, <1>30, <1>31, <1>32, <1>33 DEF TableSound, Mutations

LEMMA SoundRow == ASSUME NEW n \in DOMAIN Mutations PROVE Sound(Mutations[n])
BY TableIsSound DEF TableSound

-----------------------------------------------------------------------------
\* Entries.

LEMMA Entries ==
    /\ Empty \in Entry
    /\ \A e \in Entry : Asked(e) \in Entry /\ Observed(e) \in Entry
    /\ \A e \in Entry : Asked(e).fetch = "asked"
<1>1. Empty \in Entry
      BY DEF Entry, Empty
<1>2. \A e \in Entry : Asked(e) \in Entry /\ Asked(e).fetch = "asked"
      BY DEF Entry, Asked
<1> QED BY <1>1, <1>2 DEF Observed

LEMMA OpenedEntries ==
    ASSUME NEW c \in [Keys -> Entry], NEW p PROVE Opened(c, p) \in [Keys -> Entry]
BY Entries DEF Opened

LEMMA InvalidatedEntries ==
    ASSUME NEW c \in [Keys -> Entry], NEW ks, NEW active
    PROVE  /\ Invalidated(c, ks, active) \in [Keys -> Entry]
           /\ \A k \in Keys \ Under(ks) : Invalidated(c, ks, active)[k] = c[k]
           /\ \A k \in Under(ks) \cap active : Invalidated(c, ks, active)[k].fetch = "asked"
           /\ \A k \in Under(ks) \ active :
                 /\ Invalidated(c, ks, active)[k].fetch = c[k].fetch
                 /\ Invalidated(c, ks, active)[k].answer = c[k].answer
                 /\ Invalidated(c, ks, active)[k].shows = c[k].shows
                 /\ c[k].shows # Absent => Invalidated(c, ks, active)[k].stale
<1>1. Under(ks) \subseteq Keys
      BY DEF Under
<1>2. \A k \in Keys : /\ [c[k] EXCEPT !.stale = TRUE] \in Entry
                      /\ [c[k] EXCEPT !.stale = c[k].shows # Absent] \in Entry
      BY DEF Entry
<1> DEFINE I == Invalidated(c, ks, active)
<1>3. ASSUME NEW k \in Keys \ Under(ks) PROVE I[k] = c[k]
      BY <1>3 DEF Invalidated
<1>4. ASSUME NEW k \in Under(ks) \cap active PROVE I[k] \in Entry /\ I[k].fetch = "asked"
      <2>1. I[k] = Asked([c[k] EXCEPT !.stale = TRUE])
            BY <1>1 DEF Invalidated
      <2> QED BY <1>1, <1>2, <2>1, Entries
<1>5. ASSUME NEW k \in Under(ks) \ active
      PROVE  /\ I[k] \in Entry /\ I[k].fetch = c[k].fetch /\ I[k].answer = c[k].answer
             /\ I[k].shows = c[k].shows /\ (c[k].shows # Absent => I[k].stale)
      <2>1. I[k] = [c[k] EXCEPT !.stale = c[k].shows # Absent] /\ k \in Keys
            BY <1>1 DEF Invalidated
      <2> QED BY <1>2, <2>1 DEF Entry
<1>6. I = [k \in Keys |-> I[k]]
      BY DEF Invalidated
<1> HIDE DEF I
<1>7. I \in [Keys -> Entry]
      BY <1>3, <1>4, <1>5, <1>6
<1> QED BY <1>3, <1>4, <1>5, <1>7 DEF I

\* An entry stays fine when less is seen, and more is had, overtaken or in doubt.
LEMMA FineGrows ==
    ASSUME NEW e, NEW k, NEW seen, NEW d, NEW s, NEW over, NEW doubt, Fine(e, k, seen, d, s, over, doubt),
           NEW seen2, NEW s2, NEW over2, NEW doubt2,
           k \in seen2 => k \in seen, s \subseteq s2, k \in over => k \in over2, k \in doubt => k \in doubt2
    PROVE  Fine(e, k, seen2, d, s2, over2, doubt2)
BY DEF Fine

LEMMA FineAsked ==
    ASSUME NEW e, e.fetch = "asked", NEW k, NEW seen, NEW d, NEW s, NEW over, NEW doubt
    PROVE  Fine(e, k, seen, d, s, over, doubt)
BY DEF Fine

LEMMA FineObserved ==
    ASSUME NEW e \in Entry, NEW k, NEW seen, NEW d, NEW s, NEW over, NEW doubt, k \notin seen,
           Fine(e, k, seen, d, s, over, doubt), NEW seen2
    PROVE  Fine(Observed(e), k, seen2, d, s, over, doubt)
BY DEF Fine, Observed, Asked, Entry

-----------------------------------------------------------------------------
\* Types.

LEMMA ClientTypesStart == ClientInit => ClientTypes
<1> SUFFICES ASSUME ClientInit PROVE ClientTypes
    OBVIOUS
<1>1. [Empty EXCEPT !.fetch = "asked"] \in Entry /\ Empty \in Entry
      BY Entries DEF Asked
<1>2. NotSent \in Sending /\ NotSent.at = "none"
      BY DEF Sending, NotSent
<1>3. cache \in [Keys -> Entry] /\ sent \in [Writes -> Sending]
      BY <1>1, <1>2 DEF ClientInit
<1> QED BY <1>2, <1>3 DEF ClientInit, ClientTypes, Underway

LEMMA SameKeys ==
    ASSUME site' = site
    PROVE  /\ Keys' = Keys /\ (\A p : Shown(p)' = Shown(p)) /\ (\A ks : Under(ks)' = Under(ks))
BY DEF Keys, Shown, Under

\* What a mutation of the site changes and a page of it asks for is followed.
LEMMA KeysAre ==
    ASSUME site \in Sites, NEW p \in site, NEW k, k \in AskedBy(p),
           NEW n \in DOMAIN Mutations, Mutations[n].on \in site, k \in Mutations[n].writes
    PROVE  k \in Keys
<1>1. k \in UNION {AskedBy(q) : q \in site}
      OBVIOUS
<1> QED BY <1>1 DEF Keys, KeysOf

\* A mutation under way is one of the table, and what it touches is followed.
LEMMA TickedIsKept ==
    ASSUME ClientTypes, NEW w \in Writes, Underway(w)
    PROVE  /\ Sound(Of(w)) /\ Of(w).on \in site
           /\ Of(w).via = "optimistic" => Ticked \in Keys /\ Ticked \in Under(Of(w).invalidates)
           /\ Of(w).via = "answer" => <<"chat-session", "id">> \in Keys
<1> DEFINE n == sent[w].kind
<1>1. n \in DOMAIN Mutations /\ Of(w) = Mutations[n] /\ Mutations[n].on \in site
      BY DEF ClientTypes, Of
<1>2. Sound(Mutations[n])
      BY <1>1, SoundRow
<1>3. ASSUME NEW k, k \in Mutations[n].writes, k \in AskedBy(Mutations[n].on) PROVE k \in Keys
      BY <1>1, <1>3, KeysAre DEF ClientTypes
<1>4. CASE Mutations[n].via = "optimistic"
      <2>1. Ticked \in Keys
            BY <1>2, <1>3, <1>4, Asking DEF Sound, Ticked, BasketPage
      <2>2. IsPrefix(Ticked, Ticked)
            BY DEF IsPrefix, Ticked
      <2> QED BY <1>1, <1>2, <1>4, <2>1, <2>2 DEF Sound, Under
<1>5. CASE Mutations[n].via = "answer"
      BY <1>1, <1>2, <1>3, <1>5, Asking DEF Sound, Conversation
<1> QED BY <1>1, <1>2, <1>4, <1>5

\* A mutation is under way for a page of the site.
SentTypes ==
    /\ sent \in [Writes -> Sending]
    /\ \A w \in Writes : Underway(w) => sent[w].kind \in DOMAIN Mutations /\ Of(w).on \in site
    /\ \A w \in Writes : sent[w].at = "starting" => Of(w).via = "optimistic"

\* What is sent of w goes on, or ends.
LEMMA SentMoves ==
    ASSUME ClientTypes, site' = site, NEW w \in Writes,
           sent'[w] \in Sending, sent' = [sent EXCEPT ![w] = sent'[w]], sent'[w].kind = sent[w].kind,
           Underway(w) \/ sent'[w].at = "done", sent'[w].at # "starting"
    PROVE  SentTypes'
<1>1. \A v \in Writes \ {w} : sent'[v] = sent[v]
      BY DEF ClientTypes
<1> QED BY <1>1 DEF ClientTypes, SentTypes, Underway, Of

LEMMA MutateTypes ==
    ASSUME ClientTypes, NEW w \in Writes, NEW kind \in Pressable, Mutate(w, kind)
    PROVE  ClientTypes'
<1> DEFINE m == Mutations[kind]
<1>1. kind \in DOMAIN Mutations /\ m.on \in site
      <2>1. PICK p \in {page} \cup (site \cap {"topbar"}) : kind \in KindsOn[p]
            BY DEF Pressable
      <2>2. page # "outside"
            BY DEF Pressable
      <2>3. p \in site /\ p \in DOMAIN Pages \cup {"topbar"}
            BY <2>2 DEF ClientTypes
      <2> QED BY <2>1, <2>3 DEF KindsOn
<1>2. PICK at \in {"starting", "sent"}, id \in Nat :
         /\ sent' = [sent EXCEPT ![w] = [NotSent EXCEPT !.kind = kind, !.visit = visits, !.at = at, !.since = id]]
         /\ at = "starting" => m.via = "optimistic"
      <2>1. forms \in Nat
            BY DEF ClientTypes
      <2> QED BY <2>1 DEF Mutate
<1>3. [NotSent EXCEPT !.kind = kind, !.visit = visits, !.at = at, !.since = id] \in Sending
      BY <1>1 DEF NotSent, Sending, ClientTypes
<1>4. /\ sent' \in [Writes -> Sending] /\ sent'[w].kind = kind /\ sent'[w].at = at
      /\ \A v \in Writes \ {w} : sent'[v] = sent[v]
      BY <1>2, <1>3 DEF ClientTypes, NotSent
<1>5. SentTypes'
      <2>1. site' = site
            BY DEF Mutate
      <2>2. \A v \in Writes \ {w} : Underway(v)' = Underway(v) /\ Of(v)' = Of(v)
            BY <1>4 DEF Underway, Of
      <2>3. Of(w)' = m
            BY <1>4 DEF Of
      <2> HIDE DEF m
      <2> QED BY <1>1, <1>2, <1>4, <2>1, <2>2, <2>3 DEF SentTypes, ClientTypes
<1>6. cache' \in [Keys -> Entry]
      <2>1. \A k \in Keys : [cache[k] EXCEPT !.fetch = "none", !.answer = {}] \in Entry
            BY DEF ClientTypes, Entry
      <2> QED BY <2>1 DEF Mutate, ClientTypes
<1>7. form' \in FormRow \cup {Absent}
      BY DEF Mutate, ClientTypes
<1> QED BY <1>5, <1>6, <1>7, SameKeys DEF ClientTypes, SentTypes, Mutate

\* An optimistic mutation has one key.
LEMMA ShowAheadIs ==
    ASSUME ClientTypes, NEW w \in Writes, ShowAhead(w)
    PROVE  /\ Underway(w) /\ Of(w).via = "optimistic" /\ Ticked \in Keys /\ Ticked \in Under(Of(w).invalidates)
           /\ sent' = [sent EXCEPT ![w] = [sent[w] EXCEPT !.at = "sent", !.before = cache[Ticked].shows]]
           /\ cache[Ticked].shows = Absent => cache' = cache
           /\ cache[Ticked].shows # Absent =>
                 cache' = [cache EXCEPT ![Ticked] = [cache[Ticked] EXCEPT !.shows = cache[Ticked].shows \cup {w},
                                                                          !.stale = FALSE]]
<1>1. Underway(w) /\ Of(w).via = "optimistic"
      BY DEF ShowAhead, ClientTypes, Underway
<1>2. Of(w).invalidates = {Ticked}
      BY <1>1, TickedIsKept DEF Sound
<1>3. (CHOOSE key \in Of(w).invalidates : TRUE) = Ticked
      BY <1>2
<1> DEFINE k == CHOOSE key \in Of(w).invalidates : TRUE
<1>4. /\ sent' = [sent EXCEPT ![w].at = "sent", ![w].before = cache[k].shows]
      /\ cache' = IF cache[k].shows = Absent THEN cache
                  ELSE [cache EXCEPT ![k].shows = @ \cup {w}, ![k].stale = FALSE]
      BY Zenon DEF ShowAhead
<1> HIDE DEF k
<1>5. k = Ticked
      BY <1>3 DEF k
<1>6. sent' = [sent EXCEPT ![w] = [sent[w] EXCEPT !.at = "sent", !.before = cache[Ticked].shows]]
      BY <1>4, <1>5 DEF ClientTypes
<1>7. cache[Ticked].shows # Absent =>
         cache' = [cache EXCEPT ![Ticked] = [cache[Ticked] EXCEPT !.shows = cache[Ticked].shows \cup {w},
                                                                  !.stale = FALSE]]
      BY <1>1, <1>4, <1>5, TickedIsKept DEF ClientTypes
<1>8. cache[Ticked].shows = Absent => cache' = cache
      BY <1>4, <1>5
<1> QED BY <1>1, <1>6, <1>7, <1>8, TickedIsKept

LEMMA ShowAheadDoes ==
    ASSUME ClientTypes, NEW w \in Writes, ShowAhead(w)
    PROVE  /\ sent'[w].at = "sent" /\ sent'[w].kind = sent[w].kind
           /\ cache'[Ticked].fetch = cache[Ticked].fetch /\ cache'[Ticked].answer = cache[Ticked].answer
           /\ \A k \in Keys \ {Ticked} : cache'[k] = cache[k]
<1>1. /\ cache[Ticked] \in Entry /\ cache[Ticked].shows \in (SUBSET Writes) \cup {Absent}
      /\ sent[w] \in Sending /\ Ticked \in Keys
      BY ShowAheadIs DEF ClientTypes, Entry
<1> DEFINE r == [sent[w] EXCEPT !.at = "sent", !.before = cache[Ticked].shows]
           e == [cache[Ticked] EXCEPT !.shows = cache[Ticked].shows \cup {w}, !.stale = FALSE]
<1>2. r.at = "sent" /\ r.kind = sent[w].kind
      BY <1>1 DEF Sending
<1>3. e.fetch = cache[Ticked].fetch /\ e.answer = cache[Ticked].answer
      BY <1>1 DEF Entry
<1>4. sent' = [sent EXCEPT ![w] = r] /\ (cache' = cache \/ cache' = [cache EXCEPT ![Ticked] = e])
      BY ShowAheadIs
<1> HIDE DEF r, e
<1> QED BY <1>1, <1>2, <1>3, <1>4 DEF ClientTypes

LEMMA ShowAheadTypes ==
    ASSUME ClientTypes, NEW w \in Writes, ShowAhead(w)
    PROVE  ClientTypes'
<1>0. cache[Ticked] \in Entry /\ cache[Ticked].shows \in (SUBSET Writes) \cup {Absent} /\ sent[w] \in Sending
      BY ShowAheadIs DEF ClientTypes, Entry
<1>1. [sent[w] EXCEPT !.at = "sent", !.before = cache[Ticked].shows] \in Sending
      BY <1>0 DEF Sending
<1>2. sent' = [sent EXCEPT ![w] = sent'[w]] /\ sent'[w] \in Sending /\ sent'[w].kind = sent[w].kind
      /\ sent'[w].at = "sent"
      <2> DEFINE r == [sent[w] EXCEPT !.at = "sent", !.before = cache[Ticked].shows]
      <2>1. r \in Sending /\ r.kind = sent[w].kind /\ r.at = "sent"
            BY <1>0, <1>1 DEF Sending
      <2> HIDE DEF r
      <2>2. sent' = [sent EXCEPT ![w] = r]
            BY ShowAheadIs DEF r
      <2> QED BY <2>1, <2>2 DEF ClientTypes
<1>3. SentTypes'
      BY <1>2, ShowAheadIs, SentMoves DEF ShowAhead
<1>4. cache' \in [Keys -> Entry]
      <2>1. CASE cache[Ticked].shows = Absent
            BY <2>1, ShowAheadIs DEF ClientTypes
      <2>2. CASE cache[Ticked].shows # Absent
            <3>1. [cache[Ticked] EXCEPT !.shows = cache[Ticked].shows \cup {w}, !.stale = FALSE] \in Entry
                  BY <1>0, <2>2 DEF Entry
            <3> QED BY <2>2, <3>1, ShowAheadIs DEF ClientTypes
      <2> QED BY <2>1, <2>2
<1> QED BY <1>3, <1>4, SameKeys DEF ClientTypes, SentTypes, ShowAhead, formVars

LEMMA AppliedTypes ==
    ASSUME ClientTypes, NEW w \in Writes, Apply(w)
    PROVE  ClientTypes'
<1> DEFINE read == IF Of(w).via = "answer" THEN server[<<"chat-session", "id">>] \cup {w} ELSE {}
           r == [sent[w] EXCEPT !.at = "applied", !.read = read]
<1>1. Underway(w) /\ sent[w].at = "sent"
      BY DEF Apply, Underway
<1>2. read \in SUBSET Writes
      BY <1>1, TickedIsKept DEF ClientTypes
<1>3. sent' = [sent EXCEPT ![w] = r]
      <2>1. sent' = [sent EXCEPT ![w].at = "applied", ![w].read = read]
            BY Zenon DEF Apply
      <2> HIDE DEF read
      <2> QED BY <2>1 DEF ClientTypes
<1> HIDE DEF read
<1>4. r \in Sending /\ r.kind = sent[w].kind /\ r.at = "applied"
      <2>1. sent[w] \in Sending
            BY DEF ClientTypes
      <2> QED BY <1>2, <2>1 DEF Sending
<1> HIDE DEF r
<1>5. SentTypes'
      <2>1. sent'[w] = r
            BY <1>3 DEF ClientTypes
      <2> QED BY <1>1, <1>3, <1>4, <2>1, SentMoves DEF Apply
<1>6. server' \in [Keys -> SUBSET Writes]
      BY DEF Apply, ClientTypes
<1> QED BY <1>5, <1>6, SameKeys DEF ClientTypes, SentTypes, Apply, formVars

LEMMA FailTypes ==
    ASSUME ClientTypes, NEW w \in Writes, MutationFails(w)
    PROVE  ClientTypes'
<1> DEFINE r == [sent[w] EXCEPT !.at = "failed"]
<1>1. Underway(w) /\ sent' = [sent EXCEPT ![w] = r]
      BY DEF MutationFails, Underway, ClientTypes
<1>2. r \in Sending /\ r.kind = sent[w].kind /\ r.at = "failed"
      BY DEF Sending, ClientTypes
<1> HIDE DEF r
<1>3. SentTypes'
      <2>1. sent'[w] = r
            BY <1>1 DEF ClientTypes
      <2> QED BY <1>1, <1>2, <2>1, SentMoves DEF MutationFails
<1> QED BY <1>3, SameKeys DEF ClientTypes, SentTypes, MutationFails, formVars

LEMMA LoadTypes ==
    ASSUME ClientTypes, NEW p \in site \cap DOMAIN Pages, Load(p)
    PROVE  ClientTypes'
<1>1. [NotSent EXCEPT !.at = "done"] \in Sending
      BY DEF NotSent, Sending
<1>2. sent' \in [Writes -> Sending] /\ \A w \in Writes : ~Underway(w)' /\ sent'[w].at # "starting"
      BY <1>1 DEF Load, ClientTypes, Underway, NotSent
<1>3. cache' \in [Keys -> Entry]
      BY Entries DEF Load
<1> QED BY <1>2, <1>3, SameKeys DEF ClientTypes, Load, formVars

LEMMA FetchTypes ==
    ASSUME ClientTypes, NEW k \in Keys, Peek(k) \/ Answer(k) \/ Arrive(k) \/ FetchFails(k) \/ Age(k)
    PROVE  ClientTypes'
<1>1. \E e \in Entry : cache' = [cache EXCEPT ![k] = e]
      <2>1. CASE Peek(k)
            BY <2>1, Entries DEF Peek, ClientTypes
      <2>2. CASE Answer(k)
            <3>1. [cache[k] EXCEPT !.fetch = "answered", !.answer = server[k]] \in Entry
                  BY DEF ClientTypes, Entry
            <3> QED BY <2>2, <3>1 DEF Answer, ClientTypes
      <2>3. CASE Arrive(k)
            <3>1. [Empty EXCEPT !.shows = cache[k].answer] \in Entry
                  BY DEF ClientTypes, Entry, Empty
            <3> QED BY <2>3, <3>1 DEF Arrive
      <2>4. CASE FetchFails(k)
            <3>1. [cache[k] EXCEPT !.fetch = "none", !.answer = {}] \in Entry
                  BY DEF ClientTypes, Entry
            <3> QED BY <2>4, <3>1 DEF FetchFails, ClientTypes
      <2>5. CASE Age(k)
            <3>1. [cache[k] EXCEPT !.stale = TRUE] \in Entry
                  BY DEF ClientTypes, Entry
            <3> QED BY <2>5, <3>1, Entries DEF Age, ClientTypes
      <2> QED BY <2>1, <2>2, <2>3, <2>4, <2>5
<1>2. cache' \in [Keys -> Entry]
      BY <1>1 DEF ClientTypes
<1>3. UNCHANGED <<site, page, server, due, sent, visits, form, forms>>
      BY DEF Peek, Answer, Arrive, FetchFails, Age, formVars
<1> QED BY <1>2, <1>3, SameKeys DEF ClientTypes, Underway, Of

\* The cache before what is invalidated: what w brings, or what it makes anew.
Own(w, ok) ==
    IF Of(w).via = "answer" /\ ok
    THEN [cache EXCEPT ![<<"chat-session", "id">>] =
            [cache[<<"chat-session", "id">>] EXCEPT !.shows = sent[w].read, !.stale = FALSE]]
    ELSE IF Of(w).via = "optimistic" /\ ~ok /\ sent[w].before # Absent
    THEN [cache EXCEPT ![Ticked] = [cache[Ticked] EXCEPT !.shows = sent[w].before, !.stale = FALSE]]
    ELSE cache
Made(w, ok) ==
    IF Of(w).makes /\ ok
    THEN [k \in Keys |-> IF k \in Shown(Of(w).leads) \ Topbar THEN Empty ELSE Own(w, ok)[k]] ELSE Own(w, ok)

Ends(w) == w \in Writes /\ sent[w].at \in {"applied", "failed"}

LEMMA MadeIs ==
    ASSUME ClientTypes, NEW w, Ends(w), NEW ok \in BOOLEAN
    PROVE  /\ Made(w, ok) \in [Keys -> Entry]
           /\ \A k \in Keys :
                 IF Of(w).makes /\ ok /\ k \in Shown(Of(w).leads) \ Topbar THEN Made(w, ok)[k] = Empty
                 ELSE IF Of(w).via = "answer" /\ ok /\ k = <<"chat-session", "id">>
                 THEN Made(w, ok)[k] = [cache[k] EXCEPT !.shows = sent[w].read, !.stale = FALSE]
                 ELSE IF Of(w).via = "optimistic" /\ ~ok /\ k = Ticked
                 THEN Made(w, ok)[k].fetch = cache[k].fetch /\ Made(w, ok)[k].answer = cache[k].answer
                 ELSE Made(w, ok)[k] = cache[k]
<1>1. Underway(w) /\ w \in Writes /\ sent[w] \in Sending
      BY DEF Ends, Underway, ClientTypes
<1>2. /\ Of(w).via = "optimistic" => Ticked \in Keys
      /\ Of(w).via = "answer" => <<"chat-session", "id">> \in Keys
      /\ Of(w).via = "answer" => ~Of(w).makes
      BY <1>1, TickedIsKept DEF Sound
<1>3. sent[w].read \in SUBSET Writes /\ sent[w].before \in (SUBSET Writes) \cup {Absent}
      BY <1>1 DEF Sending
<1>4. CASE Of(w).via = "answer" /\ ok
      <2> DEFINE k == <<"chat-session", "id">>
                 e == [cache[k] EXCEPT !.shows = sent[w].read, !.stale = FALSE]
      <2>1. cache[k] \in Entry /\ k \in Keys
            BY <1>2, <1>4 DEF ClientTypes
      <2>2. e \in Entry
            BY <1>3, <2>1 DEF Entry
      <2>3. Made(w, ok) = [cache EXCEPT ![k] = e]
            BY <1>2, <1>4 DEF Made, Own
      <2> HIDE DEF e, k
      <2>4. Made(w, ok) \in [Keys -> Entry] /\ Made(w, ok)[k] = e
            /\ \A l \in Keys \ {k} : Made(w, ok)[l] = cache[l]
            BY <2>1, <2>2, <2>3 DEF ClientTypes
      <2>5. ~(Of(w).makes /\ ok)
            BY <1>2, <1>4
      <2> QED BY <1>4, <2>4, <2>5 DEF k, e
<1>5. CASE Of(w).via = "optimistic" /\ ~ok /\ sent[w].before # Absent
      <2> DEFINE e == [cache[Ticked] EXCEPT !.shows = sent[w].before, !.stale = FALSE]
      <2>1. cache[Ticked] \in Entry /\ Ticked \in Keys
            BY <1>2, <1>5 DEF ClientTypes
      <2>2. e \in Entry /\ e.fetch = cache[Ticked].fetch /\ e.answer = cache[Ticked].answer
            BY <1>3, <1>5, <2>1 DEF Entry
      <2>3. Made(w, ok) = [cache EXCEPT ![Ticked] = e]
            BY <1>5 DEF Made, Own
      <2> HIDE DEF e
      <2>4. Made(w, ok) \in [Keys -> Entry] /\ Made(w, ok)[Ticked] = e
            /\ \A l \in Keys \ {Ticked} : Made(w, ok)[l] = cache[l]
            BY <2>1, <2>2, <2>3 DEF ClientTypes
      <2> QED BY <1>5, <2>2, <2>4
<1>6. CASE ~(Of(w).via = "answer" /\ ok) /\ ~(Of(w).via = "optimistic" /\ ~ok /\ sent[w].before # Absent)
      <2>1. Own(w, ok) = cache
            BY <1>6 DEF Own
      <2> QED BY <1>6, <2>1, Entries DEF Made, ClientTypes
<1> QED BY <1>4, <1>5, <1>6

\* The same for one key.
LEMMA MadeFor ==
    ASSUME ClientTypes, NEW w, Ends(w), NEW ok \in BOOLEAN, NEW k \in Keys
    PROVE  \/ Of(w).makes /\ ok /\ k \in Shown(Of(w).leads) \ Topbar /\ Made(w, ok)[k] = Empty
           \/ /\ ~(Of(w).makes /\ ok /\ k \in Shown(Of(w).leads) \ Topbar)
              /\ Made(w, ok)[k].fetch = cache[k].fetch /\ Made(w, ok)[k].answer = cache[k].answer
              /\ \/ /\ Of(w).via = "answer" /\ ok /\ k = <<"chat-session", "id">>
                    /\ Made(w, ok)[k].shows = sent[w].read
                 \/ Of(w).via = "optimistic" /\ ~ok /\ k = Ticked
                 \/ /\ ~(Of(w).via = "answer" /\ ok /\ k = <<"chat-session", "id">>)
                    /\ Made(w, ok)[k] = cache[k]
<1>1. cache[k] \in Entry
      BY DEF ClientTypes
<1> DEFINE e == [cache[k] EXCEPT !.shows = sent[w].read, !.stale = FALSE]
<1>2. e.fetch = cache[k].fetch /\ e.answer = cache[k].answer /\ e.shows = sent[w].read
      BY <1>1 DEF Entry
<1>3. IF Of(w).makes /\ ok /\ k \in Shown(Of(w).leads) \ Topbar THEN Made(w, ok)[k] = Empty
      ELSE IF Of(w).via = "answer" /\ ok /\ k = <<"chat-session", "id">> THEN Made(w, ok)[k] = e
      ELSE IF Of(w).via = "optimistic" /\ ~ok /\ k = Ticked
      THEN Made(w, ok)[k].fetch = cache[k].fetch /\ Made(w, ok)[k].answer = cache[k].answer
      ELSE Made(w, ok)[k] = cache[k]
      BY MadeIs
<1> HIDE DEF e
<1> QED BY <1>2, <1>3

LEMMA SettledIs ==
    ASSUME ClientTypes, NEW w, Ends(w), NEW ok \in BOOLEAN
    PROVE  Settled(w, ok) =
              Invalidated(Made(w, ok), IF ok THEN Of(w).invalidates ELSE Of(w).onError, Watched)
<1>1. w \in Writes /\ Underway(w)
      BY DEF Ends, Underway
<1>2. /\ Of(w).via = "optimistic" => Ticked \in Keys
      /\ Of(w).via = "answer" => <<"chat-session", "id">> \in Keys
      BY <1>1, TickedIsKept
<1> DEFINE c == <<"chat-session", "id">>
           own == CASE Of(w).via = "answer" /\ ok ->
                         [cache EXCEPT ![c].shows = sent[w].read, ![c].stale = FALSE]
                    [] Of(w).via = "optimistic" /\ ~ok /\ sent[w].before # Absent ->
                         [cache EXCEPT ![<<"basket", "id">>].shows = sent[w].before,
                                       ![<<"basket", "id">>].stale = FALSE]
                    [] OTHER -> cache
<1>3. own = Own(w, ok)
      <2>1. CASE Of(w).via = "answer" /\ ok
            BY <1>2, <2>1 DEF Own, ClientTypes
      <2>2. CASE Of(w).via = "optimistic" /\ ~ok /\ sent[w].before # Absent
            BY <1>2, <2>2 DEF Own, ClientTypes, Ticked
      <2>3. CASE ~(Of(w).via = "answer" /\ ok) /\ ~(Of(w).via = "optimistic" /\ ~ok /\ sent[w].before # Absent)
            BY <2>3 DEF Own
      <2> QED BY <2>1, <2>2, <2>3
<1>4. Settled(w, ok) =
         Invalidated(IF Of(w).makes /\ ok
                     THEN [k \in Keys |-> IF k \in Shown(Of(w).leads) \ Topbar THEN Empty ELSE own[k]] ELSE own,
                     IF ok THEN Of(w).invalidates ELSE Of(w).onError, Watched)
      BY Zenon DEF Settled
<1> HIDE DEF own
<1> QED BY <1>3, <1>4 DEF Made

LEMMA SettleTypes ==
    ASSUME ClientTypes, NEW w \in Writes, Settle(w)
    PROVE  ClientTypes'
<1> DEFINE ok == sent[w].at = "applied"
           m == Of(w)
           r == [sent[w] EXCEPT !.at = "done", !.before = Absent, !.read = {}]
<1>1. Ends(w) /\ Underway(w) /\ ok \in BOOLEAN
      BY DEF Settle, Ends, Underway
<1>2. r \in Sending /\ r.kind = sent[w].kind /\ r.at = "done"
      <2>1. sent[w] \in Sending
            BY DEF ClientTypes
      <2> QED BY <2>1 DEF Sending
<1>3. sent' = [sent EXCEPT ![w] = r]
      BY DEF Settle, ClientTypes
<1> HIDE DEF r
<1>4. SentTypes'
      <2>1. sent'[w] = r
            BY <1>3 DEF ClientTypes
      <2> QED BY <1>1, <1>2, <1>3, <2>1, SentMoves DEF Settle
<1>5. cache' \in [Keys -> Entry]
      <2>1. Settled(w, ok) \in [Keys -> Entry]
            <3>1. Made(w, ok) \in [Keys -> Entry]
                  BY <1>1, MadeIs
            <3>2. PICK ks : Settled(w, ok) = Invalidated(Made(w, ok), ks, Watched)
                  BY <1>1, SettledIs
            <3> QED BY <3>1, <3>2, InvalidatedEntries
      <2>2. cache' = Settled(w, ok) \/ \E p : cache' = Opened(Settled(w, ok), p)
            BY DEF Settle
      <2> QED BY <2>1, <2>2, OpenedEntries
<1>6. page' \in (site \cap DOMAIN Pages) \cup {"outside"}
      <2>1. page' = page \/ (m.leads # Absent /\ page' = m.leads)
            BY DEF Settle, Leaving
      <2>2. m.leads \in DOMAIN Pages \cup {"outside", Absent} /\ m.on \in site
            BY <1>1, TickedIsKept DEF Sound
      <2>3. m.leads \in site \cup {Absent, "outside"}
            BY <1>1, <2>2, WebClientAssumption DEF ClientTypes, Of
      <2> QED BY <2>1, <2>2, <2>3 DEF ClientTypes
<1>7. due' \in [Keys -> SUBSET Writes]
      BY DEF Settle, ClientTypes
<1>8. form' \in FormRow \cup {Absent} /\ forms' = forms /\ visits' \in Nat /\ site' = site /\ server' = server
      BY DEF Settle, SettleForm, ClientTypes
<1> QED BY <1>4, <1>5, <1>6, <1>7, <1>8, SameKeys DEF ClientTypes, SentTypes

LEMMA ClientTypesStep == ClientTypes /\ [ClientNext]_clientVars => ClientTypes'
<1> SUFFICES ASSUME ClientTypes, [ClientNext]_clientVars PROVE ClientTypes'
    OBVIOUS
<1>1. ASSUME NEW p \in site \cap DOMAIN Pages, Visit(p) PROVE ClientTypes'
      <2>1. cache' \in [Keys -> Entry]
            BY <1>1, OpenedEntries DEF Visit, ClientTypes
      <2> QED BY <1>1, <2>1, SameKeys DEF Visit, ClientTypes, Underway, Of
<1>2. ASSUME NEW f \in DOMAIN Forms, OpenForm(f) \/ FillForm \/ CloseForm PROVE ClientTypes'
      <2>1. UNCHANGED <<site, page, cache, server, due, sent, visits>> /\ forms' \in Nat
            BY <1>2 DEF OpenForm, FillForm, CloseForm, ClientTypes
      <2>2. form' \in FormRow \cup {Absent}
            <3>1. CASE OpenForm(f)
                  <4>1. forms + 1 \in Nat \ {0} /\ (~Forms[f].needs) \in BOOLEAN
                        BY DEF ClientTypes
                  <4> QED BY <3>1, <4>1 DEF OpenForm, FormRow
            <3>2. CASE FillForm
                  <4>1. form \in FormRow
                        BY <3>2 DEF FillForm, ClientTypes
                  <4>2. [form EXCEPT !.filled = TRUE] \in FormRow
                        BY <4>1 DEF FormRow
                  <4> QED BY <3>2, <4>2 DEF FillForm
            <3>3. CASE CloseForm
                  BY <3>3 DEF CloseForm
            <3> QED BY <1>2, <3>1, <3>2, <3>3
      <2> QED BY <2>1, <2>2, SameKeys DEF ClientTypes, Underway, Of
<1>3. CASE UNCHANGED clientVars
      BY <1>3, SameKeys DEF clientVars, ClientTypes, Underway, Of
<1>4. ASSUME NEW w \in Writes, ShowAhead(w) \/ Apply(w) \/ MutationFails(w) \/ Settle(w) PROVE ClientTypes'
      BY <1>4, ShowAheadTypes, AppliedTypes, FailTypes, SettleTypes
<1>5. FillForm \/ CloseForm => ClientTypes'
      <2>1. "item" \in DOMAIN Forms
            BY DEF Forms
      <2> QED BY <1>2, <2>1
<1> QED BY <1>1, <1>2, <1>3, <1>4, <1>5, LoadTypes, FetchTypes, MutateTypes DEF ClientNext

-----------------------------------------------------------------------------
\* What a page shows.

FineKey(k) ==
    /\ due[k] \subseteq server[k]
    /\ Fine(cache[k], k, Watched, due[k], server[k], overtaken, failed \cup AheadKeys)

LEMMA CacheStart == ClientInit => CacheInv
<1> SUFFICES ASSUME ClientInit PROVE CacheInv
    OBVIOUS
<1>1. ASSUME NEW k \in Keys PROVE FineKey(k)
      <2>1. cache[k].fetch # "answered" /\ cache[k].shows = Absent
            BY DEF ClientInit, Empty
      <2>2. due[k] = {} /\ server[k] = {}
            BY DEF ClientInit
      <2> QED BY <2>1, <2>2 DEF FineKey, Fine
<1>2. ASSUME NEW w \in Writes PROVE Applied(w)
      BY DEF ClientInit, Applied, NotSent
<1> QED BY <1>1, <1>2 DEF CacheInv, FineKey

\* What is sent, and with it what is ahead, stays as it is.
LEMMA SameSent ==
    ASSUME UNCHANGED <<site, sent, server>>
    PROVE  AheadKeys' = AheadKeys /\ (\A w \in Writes : Applied(w) => Applied(w)') /\ Keys' = Keys
<1>1. /\ \A w : Underway(w)' = Underway(w) /\ Of(w)' = Of(w)
      BY DEF Underway, Of
<1>2. Keys' = Keys /\ \A ks : Under(ks)' = Under(ks)
      BY SameKeys
<1>3. AheadKeys' = AheadKeys
      BY <1>1, <1>2 DEF AheadKeys
<1>4. \A w \in Writes : Applied(w) => Applied(w)'
      BY <1>1, <1>2 DEF Applied
<1> QED BY <1>2, <1>3, <1>4

\* A page opens.
LEMMA OpenedFine ==
    ASSUME NEW c \in [Keys -> Entry], NEW p, NEW k \in Keys, NEW seen, NEW d, NEW s, NEW over, NEW doubt,
           Fine(c[k], k, seen, d, s, over, doubt)
    PROVE  Fine(Opened(c, p)[k], k, Shown(p), d, s, over, doubt)
<1>1. CASE p = "outside"
      BY <1>1 DEF Opened, Fine, Empty
<1>2. CASE p # "outside" /\ k \in Shown(p)
      <2>1. Opened(c, p)[k] = Observed(c[k])
            BY <1>2 DEF Opened
      <2>2. Fine(c[k], k, {}, d, s, over, doubt)
            BY DEF Fine
      <2> QED BY <2>1, <2>2, FineObserved
<1>3. CASE p # "outside" /\ k \notin Shown(p)
      <2>1. Opened(c, p)[k] = c[k]
            BY <1>3 DEF Opened
      <2> QED BY <1>3, <2>1, FineGrows
<1> QED BY <1>1, <1>2, <1>3

LEMMA FineKeys ==
    ASSUME CacheInv, NEW k \in Keys PROVE FineKey(k)
BY DEF CacheInv, FineKey

LEMMA CacheHolds ==
    ASSUME Keys' = Keys, \A k \in Keys : FineKey(k)', \A w \in Writes : Applied(w)'
    PROVE  CacheInv'
BY DEF CacheInv, FineKey

LEMMA VisitFine ==
    ASSUME ClientTypes, CacheInv, NEW p, Visit(p) PROVE CacheInv'
<1>1. /\ AheadKeys' = AheadKeys /\ Keys' = Keys /\ \A w \in Writes : Applied(w)'
      BY SameSent DEF Visit, CacheInv
<1>2. Watched' = Shown(p)
      <2>1. Shown(p)' = Shown(p) /\ page' = p /\ peeked' = {}
            BY SameKeys DEF Visit
      <2> QED BY <2>1 DEF Watched, Shown
<1>3. ASSUME NEW k \in Keys PROVE FineKey(k)'
      <2>1. FineKey(k)
            BY FineKeys
      <2>2. Fine(cache'[k], k, Shown(p), due[k], server[k], overtaken, failed \cup AheadKeys)
            BY <2>1, OpenedFine DEF FineKey, Visit, ClientTypes
      <2>3. UNCHANGED <<due, server, overtaken, failed>>
            BY DEF Visit
      <2> QED BY <1>1, <1>2, <2>1, <2>2, <2>3 DEF FineKey
<1> QED BY <1>1, <1>3, CacheHolds

\* A fetch: what it changes is one entry.
LEMMA EntryFine ==
    ASSUME ClientTypes, CacheInv, NEW k \in Keys, NEW e, cache' = [cache EXCEPT ![k] = e],
           UNCHANGED <<site, page, server, sent, due>>,
           \A l \in Keys \ {k} : /\ l \in peeked' => l \in peeked
                                 /\ l \in overtaken => l \in overtaken'
                                 /\ l \in failed => l \in failed',
           Fine(e, k, Watched', due[k], server[k], overtaken', failed' \cup AheadKeys)
    PROVE  CacheInv'
<1>1. /\ AheadKeys' = AheadKeys /\ Keys' = Keys /\ \A w \in Writes : Applied(w)'
      BY SameSent DEF CacheInv
<1>2. Watched' = Shown(page) \cup peeked'
      BY SameKeys DEF Watched, Shown
<1>3. ASSUME NEW l \in Keys PROVE FineKey(l)'
      <2>1. FineKey(l)
            BY FineKeys
      <2>2. CASE l = k
            <3>1. cache'[l] = e
                  BY <2>2 DEF ClientTypes
            <3> QED BY <1>1, <2>1, <2>2, <3>1 DEF FineKey
      <2>3. CASE l # k
            <3>1. cache'[l] = cache[l]
                  BY <2>3 DEF ClientTypes
            <3>2. l \in Watched' => l \in Watched
                  BY <1>2, <2>3 DEF Watched
            <3>3. /\ l \in overtaken => l \in overtaken'
                  /\ l \in failed \cup AheadKeys => l \in failed' \cup AheadKeys
                  BY <2>3
            <3>4. Fine(cache[l], l, Watched', due[l], server[l], overtaken', failed' \cup AheadKeys)
                  BY <2>1, <3>2, <3>3, FineGrows DEF FineKey
            <3> QED BY <1>1, <2>1, <3>1, <3>4 DEF FineKey
      <2> QED BY <2>2, <2>3
<1> QED BY <1>1, <1>3, CacheHolds

LEMMA FetchFine ==
    ASSUME ClientTypes, CacheInv, NEW k \in Keys, Peek(k) \/ Answer(k) \/ Arrive(k) \/ FetchFails(k) \/ Age(k)
    PROVE  CacheInv'
<1> DEFINE doubt == failed \cup AheadKeys
<1>1. /\ FineKey(k) /\ cache[k] \in Entry
      BY FineKeys DEF ClientTypes
<1>2. Watched' = Shown(page) \cup peeked' /\ UNCHANGED <<site, page, server, sent, due>>
      <2>1. UNCHANGED <<site, page, server, sent, due>>
            BY DEF Peek, Answer, Arrive, FetchFails, Age
      <2> QED BY <2>1, SameKeys DEF Watched, Shown
<1>3. CASE Peek(k)
      <2>1. cache' = [cache EXCEPT ![k] = Observed(cache[k])]
            BY <1>3 DEF Peek
      <2>2. peeked' = peeked \cup {k} /\ UNCHANGED <<overtaken, failed>>
            BY <1>3 DEF Peek
      <2>3. Fine(cache[k], k, {}, due[k], server[k], overtaken, doubt)
            BY <1>1, FineGrows DEF FineKey
      <2>4. Fine(Observed(cache[k]), k, Watched', due[k], server[k], overtaken, doubt)
            BY <1>1, <2>3, FineObserved
      <2> QED BY <1>2, <2>1, <2>2, <2>4, EntryFine
<1>4. CASE Answer(k)
      <2> DEFINE e == [cache[k] EXCEPT !.fetch = "answered", !.answer = server[k]]
      <2>1. cache' = [cache EXCEPT ![k] = e] /\ peeked' = peeked
            /\ overtaken' = overtaken \ {k} /\ failed' = failed \ {k}
            BY <1>4 DEF Answer, ClientTypes
      <2>2. e.fetch = "answered" /\ e.answer = server[k]
            BY <1>1 DEF Entry
      <2> HIDE DEF e
      <2>3. Fine(e, k, Watched', due[k], server[k], overtaken', failed' \cup AheadKeys)
            BY <1>1, <2>2 DEF Fine, FineKey
      <2> QED BY <1>2, <2>1, <2>3, EntryFine
<1>5. CASE Arrive(k)
      <2> DEFINE e == [Empty EXCEPT !.shows = cache[k].answer]
      <2>1. cache' = [cache EXCEPT ![k] = e] /\ UNCHANGED <<peeked, overtaken, failed>>
            BY <1>5 DEF Arrive
      <2>2. e.fetch = "none" /\ e.shows = cache[k].answer
            BY DEF Empty
      <2>3. cache[k].fetch = "answered"
            BY <1>5 DEF Arrive
      <2> HIDE DEF e
      <2>4. Fine(e, k, Watched', due[k], server[k], overtaken', failed' \cup AheadKeys)
            BY <1>1, <2>1, <2>2, <2>3 DEF Fine, FineKey
      <2> QED BY <1>2, <2>1, <2>4, EntryFine
<1>6. CASE FetchFails(k)
      <2> DEFINE e == [cache[k] EXCEPT !.fetch = "none", !.answer = {}]
      <2>1. cache' = [cache EXCEPT ![k] = e] /\ UNCHANGED <<peeked, overtaken>> /\ failed' = failed \cup {k}
            BY <1>6 DEF FetchFails, ClientTypes
      <2>2. e.fetch = "none"
            BY <1>1 DEF Entry
      <2> HIDE DEF e
      <2>3. Fine(e, k, Watched', due[k], server[k], overtaken', failed' \cup AheadKeys)
            BY <2>1, <2>2 DEF Fine
      <2> QED BY <1>2, <2>1, <2>3, EntryFine
<1>7. CASE Age(k)
      <2> DEFINE e == [cache[k] EXCEPT !.stale = TRUE]
      <2>1. UNCHANGED <<peeked, overtaken, failed>> /\ Watched' = Watched
            BY <1>2, <1>7 DEF Age, Watched
      <2>2. CASE cache' = [cache EXCEPT ![k] = Asked(cache[k])]
            <3>1. Fine(Asked(cache[k]), k, Watched', due[k], server[k], overtaken', failed' \cup AheadKeys)
                  BY <1>1, Entries, FineAsked
            <3> QED BY <1>2, <2>1, <2>2, <3>1, EntryFine
      <2>3. CASE cache' = [cache EXCEPT ![k] = e]
            <3>1. /\ e.fetch = cache[k].fetch /\ e.shows = cache[k].shows /\ e.stale
                  /\ cache[k].fetch = "none" /\ ~cache[k].stale
                  BY <1>1, <1>7 DEF Entry, Age
            <3> HIDE DEF e
            <3>2. Fine(e, k, Watched', due[k], server[k], overtaken', failed' \cup AheadKeys)
                  BY <1>1, <2>1, <3>1 DEF Fine, FineKey
            <3> QED BY <1>2, <2>1, <2>3, <3>2, EntryFine
      <2>4. cache' = [cache EXCEPT ![k] = Asked(cache[k])] \/ cache' = [cache EXCEPT ![k] = e]
            BY <1>7 DEF Age, ClientTypes
      <2> QED BY <2>2, <2>3, <2>4
<1> QED BY <1>3, <1>4, <1>5, <1>6, <1>7

\* What is ahead stays so, but for what w had ahead when w ends.
LEMMA AheadMoves ==
    ASSUME site' = site, NEW w \in Writes, \A v \in Writes \ {w} : sent'[v] = sent[v]
    PROVE  /\ Keys' = Keys /\ \A v \in Writes \ {w} : Underway(v)' = Underway(v) /\ Of(v)' = Of(v)
           /\ \A k \in AheadKeys :
                 \/ k \in AheadKeys'
                 \/ /\ Underway(w) /\ Of(w).via = "optimistic" /\ k \in Under(Of(w).invalidates)
                    /\ ~(Underway(w)' /\ Of(w)' = Of(w))
<1>1. \A v \in Writes \ {w} : Underway(v)' = Underway(v) /\ Of(v)' = Of(v)
      BY DEF Underway, Of
<1>2. Keys' = Keys /\ \A ks : Under(ks)' = Under(ks)
      BY SameKeys
<1>3. ASSUME NEW k \in AheadKeys, NEW v \in Writes, Underway(v), Of(v).via = "optimistic",
             k \in Under(Of(v).invalidates), Underway(v)', Of(v)' = Of(v)
      PROVE  k \in AheadKeys'
      <2>1. k \in Keys'
            BY <1>2 DEF AheadKeys
      <2>2. PICK n : n = Of(v)
            OBVIOUS
      <2>3. Of(v)' = n /\ n.via = "optimistic" /\ k \in Under(n.invalidates)'
            BY <1>2, <1>3, <2>2
      <2> QED BY <1>3, <2>1, <2>3 DEF AheadKeys
<1>4. ASSUME NEW k \in AheadKeys
      PROVE  \/ k \in AheadKeys'
             \/ /\ Underway(w) /\ Of(w).via = "optimistic" /\ k \in Under(Of(w).invalidates)
                /\ ~(Underway(w)' /\ Of(w)' = Of(w))
      <2>1. PICK v \in Writes : Underway(v) /\ Of(v).via = "optimistic" /\ k \in Under(Of(v).invalidates)
            BY DEF AheadKeys
      <2> QED BY <1>1, <1>3, <2>1
<1> QED BY <1>1, <1>2, <1>4

LEMMA AppliedStays ==
    ASSUME ClientTypes, CacheInv, site' = site, NEW v \in Writes, sent'[v] = sent[v],
           \A k \in Keys : server[k] \subseteq server'[k]
    PROVE  Applied(v)'
<1> SUFFICES ASSUME sent[v].at = "applied" PROVE Applied(v)'
    BY DEF Applied
<1>1. Underway(v) /\ Of(v)' = Of(v) /\ Keys' = Keys /\ Applied(v)
      BY SameKeys DEF Underway, Of, CacheInv
<1>2. Of(v).via = "answer" => <<"chat-session", "id">> \in Keys
      BY <1>1, TickedIsKept
<1> QED BY <1>1, <1>2 DEF Applied

LEMMA MutateFine ==
    ASSUME ClientTypes, CacheInv, NEW w \in Writes, NEW kind \in Pressable, Mutate(w, kind)
    PROVE  CacheInv'
<1> DEFINE m == Mutations[kind]
<1>1. /\ site' = site /\ UNCHANGED <<server, due, overtaken, failed, page, peeked>>
      /\ \A v \in Writes \ {w} : sent'[v] = sent[v]
      BY DEF Mutate, ClientTypes
<1>2. ~Underway(w)
      <2>1. sent[w] = NotSent
            BY DEF Mutate
      <2> QED BY <2>1 DEF NotSent, Underway
<1>3. /\ sent'[w].kind = kind /\ sent'[w].at \in {"starting", "sent"}
      BY DEF Mutate, NotSent, ClientTypes
<1>4. Keys' = Keys /\ (\A k \in AheadKeys : k \in AheadKeys') /\ Watched' = Watched
      BY <1>1, <1>2, AheadMoves, SameKeys DEF Watched, Shown
<1>5. m.via = "optimistic" => \A k \in Under(m.invalidates) : k \in AheadKeys'
      <2>1. Underway(w)' /\ Of(w)' = m
            BY <1>3 DEF Underway, Of
      <2>2. Under(m.invalidates)' = Under(m.invalidates) /\ Under(m.invalidates) \subseteq Keys
            BY <1>1, SameKeys DEF Under
      <2> HIDE DEF m
      <2> QED BY <1>4, <2>1, <2>2 DEF AheadKeys
<1>6. ASSUME NEW k \in Keys PROVE FineKey(k)'
      <2>1. FineKey(k) /\ cache[k] \in Entry
            BY FineKeys DEF ClientTypes
      <2>2. CASE m.via = "optimistic" /\ k \in Under(m.invalidates)
            <3>1. cache'[k].fetch = "none"
                  BY <2>1, <2>2 DEF Mutate, Entry
            <3>2. Fine(cache'[k], k, Watched, due[k], server[k], overtaken, failed \cup AheadKeys')
                  BY <1>5, <2>2, <3>1 DEF Fine
            <3> QED BY <1>1, <1>4, <2>1, <3>2 DEF FineKey
      <2>3. CASE ~(m.via = "optimistic" /\ k \in Under(m.invalidates))
            <3>1. cache'[k] = cache[k]
                  BY <2>3 DEF Mutate
            <3>2. Fine(cache[k], k, Watched, due[k], server[k], overtaken, failed \cup AheadKeys')
                  BY <1>4, <2>1, FineGrows DEF FineKey
            <3> QED BY <1>1, <1>4, <2>1, <3>1, <3>2 DEF FineKey
      <2> QED BY <2>2, <2>3
<1>7. ASSUME NEW v \in Writes PROVE Applied(v)'
      <2>1. CASE v = w
            BY <1>3, <2>1 DEF Applied
      <2>2. CASE v # w
            BY <1>1, <2>2, AppliedStays
      <2> QED BY <2>1, <2>2
<1> QED BY <1>4, <1>6, <1>7, CacheHolds

\* A mutation goes on, and what is ahead with it.
LEMMA OnFine ==
    ASSUME ClientTypes, CacheInv, NEW w \in Writes, ShowAhead(w) \/ Apply(w) \/ MutationFails(w)
    PROVE  CacheInv'
<1>1. /\ site' = site /\ UNCHANGED <<due, overtaken, failed, page, peeked>>
      /\ \A v \in Writes \ {w} : sent'[v] = sent[v]
      BY DEF ShowAhead, Apply, MutationFails, ClientTypes
<1>2. Underway(w)' /\ Of(w)' = Of(w) /\ Underway(w)
      <2>1. sent[w].at \in {"starting", "sent", "applied"} /\ sent[w] \in Sending
            BY DEF ShowAhead, Apply, MutationFails, ClientTypes
      <2>2. sent'[w].at \in {"sent", "applied", "failed"} /\ sent'[w].kind = sent[w].kind
            <3>1. CASE ShowAhead(w)
                  BY <3>1, ShowAheadDoes
            <3>2. CASE Apply(w) \/ MutationFails(w)
                  BY <2>1, <3>2 DEF Apply, MutationFails, ClientTypes, Sending
            <3> QED BY <3>1, <3>2
      <2> QED BY <2>1, <2>2 DEF Underway, Of
<1>3. Keys' = Keys /\ (\A k \in AheadKeys : k \in AheadKeys') /\ Watched' = Watched
      BY <1>1, <1>2, AheadMoves, SameKeys DEF Watched, Shown
<1>4. ASSUME NEW k \in Keys PROVE server[k] \subseteq server'[k]
      BY DEF ShowAhead, Apply, MutationFails, ClientTypes
<1>5. ASSUME NEW k \in Keys PROVE FineKey(k)'
      <2>1. FineKey(k) /\ cache[k] \in Entry
            BY FineKeys DEF ClientTypes
      <2>2. CASE cache'[k] = cache[k]
            <3>1. Fine(cache[k], k, Watched, due[k], server'[k], overtaken, failed \cup AheadKeys')
                  BY <1>3, <1>4, <2>1, FineGrows DEF FineKey
            <3> QED BY <1>1, <1>3, <1>4, <2>1, <2>2, <3>1 DEF FineKey
      <2>3. CASE cache'[k] # cache[k]
            <3>1. ShowAhead(w)
                  BY <2>3 DEF Apply, MutationFails
            <3>2. /\ k = Ticked /\ k \in AheadKeys /\ server' = server
                  /\ cache'[k].fetch = cache[k].fetch /\ cache'[k].answer = cache[k].answer
                  <4>1. server' = server
                        BY <3>1 DEF ShowAhead
                  <4>2. Ticked \in AheadKeys
                        BY <3>1, ShowAheadIs DEF AheadKeys
                  <4> QED BY <2>3, <3>1, <4>1, <4>2, ShowAheadDoes
            <3>3. Fine(cache'[k], k, Watched, due[k], server[k], overtaken, failed \cup AheadKeys')
                  BY <1>3, <2>1, <3>2 DEF Fine, FineKey
            <3> QED BY <1>1, <1>3, <2>1, <3>2, <3>3 DEF FineKey
      <2> QED BY <2>2, <2>3
<1>6. ASSUME NEW v \in Writes PROVE Applied(v)'
      <2>1. CASE v # w
            BY <1>1, <1>4, <2>1, AppliedStays
      <2>2. CASE v = w /\ ~Apply(w)
            <3>1. sent'[w].at # "applied"
                  <4>1. CASE ShowAhead(w)
                        BY <4>1, ShowAheadDoes
                  <4>2. CASE MutationFails(w)
                        BY <4>2 DEF MutationFails, ClientTypes, Sending
                  <4> QED BY <2>2, <4>1, <4>2
            <3> QED BY <2>2, <3>1 DEF Applied
      <2>3. CASE v = w /\ Apply(w)
            <3> DEFINE c == <<"chat-session", "id">>
            <3>1. \A k \in Keys \cap Of(w).writes : server'[k] = server[k] \cup {w}
                  BY <2>3 DEF Apply
            <3>2. Of(w).via = "answer" => c \in Keys \cap Of(w).writes
                  BY <1>2, TickedIsKept DEF Sound
            <3>3. Of(w).via = "answer" => sent'[w].read = server[c] \cup {w}
                  BY <2>3 DEF Apply, ClientTypes, Sending
            <3> HIDE DEF c
            <3> QED BY <1>2, <1>3, <2>3, <3>1, <3>2, <3>3 DEF Applied, c
      <2> QED BY <2>1, <2>2, <2>3
<1> QED BY <1>3, <1>5, <1>6, CacheHolds

LEMMA LoadFine ==
    ASSUME ClientTypes, CacheInv, NEW p, Load(p) PROVE CacheInv'
<1>1. site' = site /\ UNCHANGED <<server, due>> /\ Keys' = Keys
      BY SameKeys DEF Load
<1>2. ASSUME NEW k \in Keys PROVE FineKey(k)'
      <2>1. cache'[k].fetch # "answered" /\ cache'[k].shows = Absent
            BY DEF Load, Asked, Empty
      <2>2. due[k] \subseteq server[k]
            BY DEF CacheInv
      <2> QED BY <1>1, <2>1, <2>2 DEF FineKey, Fine
<1>3. ASSUME NEW w \in Writes PROVE Applied(w)'
      BY DEF Load, Applied, NotSent, Underway
<1> QED BY <1>1, <1>2, <1>3, CacheHolds

\* What the end of w adds to what k must reflect.
LEMMA DueIs ==
    ASSUME ClientTypes, CacheInv, NEW w \in Writes, Settle(w), NEW k \in Keys
    PROVE  LET m == Of(w)
               ok == sent[w].at = "applied"
           IN /\ due'[k] \subseteq server[k]
              /\ \/ due'[k] = due[k]
                 \/ ok /\ (\/ k \in Under(m.invalidates)
                           \/ m.makes /\ k \in Shown(m.leads) \ Topbar
                           \/ m.via = "answer" /\ k = <<"chat-session", "id">>)
<1> DEFINE m == Of(w)
           ok == sent[w].at = "applied"
           known == (IF Leaving(m, ok) /\ ~m.makes THEN {} ELSE AskedBy(m.on))
                       \cup (IF Leaving(m, ok) /\ m.leads # "outside" THEN AskedBy(m.leads) ELSE {})
<1>1. due'[k] = IF ok /\ k \in m.writes \cap known THEN due[k] \cup {w} ELSE due[k]
      BY DEF Settle
<1>2. Underway(w) /\ Applied(w)
      BY DEF Settle, Underway, CacheInv
<1>3. Sound(m)
      BY <1>2, TickedIsKept
<1>4. due'[k] \subseteq server[k]
      <2>1. ok /\ k \in m.writes => w \in server[k]
            BY <1>2 DEF Applied
      <2>2. due[k] \subseteq server[k]
            BY DEF CacheInv
      <2> HIDE DEF known, m
      <2> QED BY <1>1, <2>1, <2>2
<1>5. ASSUME ok, k \in m.writes \cap known PROVE Covers(m, k)
      <2>1. (m.leads = Absent \/ m.makes) /\ k \in AskedBy(m.on) => Covers(m, k)
            BY <1>3, <1>5 DEF Sound
      <2>2. m.leads \in DOMAIN Pages /\ k \in AskedBy(m.leads) => Covers(m, k)
            BY <1>3, <1>5 DEF Sound
      <2>3. m.leads \in DOMAIN Pages \cup {"outside", Absent}
            BY <1>3 DEF Sound
      <2>4. \/ k \in AskedBy(m.on) /\ (m.leads = Absent \/ m.makes)
            \/ k \in AskedBy(m.leads) /\ m.leads # Absent /\ m.leads # "outside"
            BY <1>5 DEF Leaving
      <2> QED BY <2>1, <2>2, <2>3, <2>4
<1>6. Covers(m, k) => \/ k \in Under(m.invalidates)
                      \/ m.makes /\ k \in Shown(m.leads) \ Topbar
                      \/ m.via = "answer" /\ k = <<"chat-session", "id">>
      <2>1. m.makes => m.leads \in DOMAIN Pages /\ m.leads # "outside"
            BY <1>3, PageNames DEF Sound
      <2> HIDE DEF m
      <2> QED BY <2>1 DEF Covers, Under, Shown, Conversation
<1> HIDE DEF known
<1> QED BY <1>1, <1>4, <1>5, <1>6

\* The entries after what w brings and invalidates, before the page changes.
LEMMA SettledFine ==
    ASSUME ClientTypes, CacheInv, NEW w \in Writes, Settle(w), NEW ok \in BOOLEAN,
           ok <=> sent[w].at = "applied", NEW k \in Keys
    PROVE  Fine(Settled(w, ok)[k], k, Watched, due'[k], server[k], overtaken', failed \cup AheadKeys')
<1> DEFINE m == Of(w)
           ks == IF ok THEN m.invalidates ELSE m.onError
           M == Made(w, ok)
           S == Settled(w, ok)
           doubt == failed \cup AheadKeys'
<1>1. Ends(w) /\ Underway(w) /\ Applied(w) /\ Sound(m) /\ FineKey(k) /\ cache[k] \in Entry
      BY TickedIsKept, FineKeys DEF Settle, Ends, Underway, CacheInv, ClientTypes
<1>2. overtaken' = overtaken \cup Overtakes(w, ok)
      BY DEF Settle
<1>3. M \in [Keys -> Entry] /\ S = Invalidated(M, ks, Watched)
      BY <1>1, MadeIs, SettledIs
<1>4. /\ due'[k] \subseteq server[k]
      /\ \/ due'[k] = due[k]
         \/ ok /\ (\/ k \in Under(m.invalidates)
                   \/ m.makes /\ k \in Shown(m.leads) \ Topbar
                   \/ m.via = "answer" /\ k = <<"chat-session", "id">>)
      BY DueIs
<1>5. \/ m.makes /\ ok /\ k \in Shown(m.leads) \ Topbar /\ M[k] = Empty
      \/ /\ ~(m.makes /\ ok /\ k \in Shown(m.leads) \ Topbar)
         /\ M[k].fetch = cache[k].fetch /\ M[k].answer = cache[k].answer
         /\ \/ /\ m.via = "answer" /\ ok /\ k = <<"chat-session", "id">>
               /\ M[k].shows = sent[w].read
            \/ m.via = "optimistic" /\ ~ok /\ k = Ticked
            \/ /\ ~(m.via = "answer" /\ ok /\ k = <<"chat-session", "id">>)
               /\ M[k] = cache[k]
      BY <1>1, MadeFor
<1>6. M[k] = Empty \/ (M[k].fetch = cache[k].fetch /\ M[k].answer = cache[k].answer)
      BY <1>1, <1>5 DEF Entry
<1>7. cache[k].fetch = "answered" => cache[k].answer \subseteq server[k]
      BY <1>1 DEF FineKey, Fine
<1>8. k \in AheadKeys => k \in AheadKeys' \/ (m.via = "optimistic" /\ k \in Under(ks))
      <2>1. site' = site /\ \A v \in Writes \ {w} : sent'[v] = sent[v]
            BY DEF Settle, ClientTypes
      <2>2. m.via = "optimistic" => m.invalidates = ks
            BY <1>1 DEF Sound
      <2>3. k \in AheadKeys => k \in AheadKeys' \/ (m.via = "optimistic" /\ k \in Under(m.invalidates))
            BY <2>1, AheadMoves
      <2> HIDE DEF m, ks
      <2> QED BY <2>2, <2>3
<1>9. Empty.fetch = "none" /\ Empty.shows = Absent
      BY DEF Empty
<1> HIDE DEF M, S
<1>10. CASE k \in Under(ks) /\ k \in Watched
      <2>1. S[k].fetch = "asked"
            BY <1>3, <1>10, InvalidatedEntries
      <2> QED BY <2>1, FineAsked DEF S
<1>11. CASE k \in Under(ks) /\ k \notin Watched
      <2>1. /\ S[k].fetch = M[k].fetch /\ S[k].answer = M[k].answer /\ S[k].shows = M[k].shows
            /\ M[k].shows # Absent => S[k].stale
            BY <1>3, <1>11, InvalidatedEntries
      <2>2. cache[k].fetch = "answered" => k \in overtaken'
            BY <1>2, <1>11 DEF Overtakes
      <2> QED BY <1>6, <1>7, <1>9, <1>11, <2>1, <2>2 DEF Fine, S
<1>12. CASE k \notin Under(ks)
      <2>1. S[k] = M[k]
            BY <1>3, <1>12, InvalidatedEntries
      <2>2. CASE m.makes /\ ok /\ k \in Shown(m.leads) \ Topbar
            BY <1>5, <1>9, <2>1, <2>2 DEF Fine, S
      <2>3. CASE m.via = "answer" /\ ok /\ k = <<"chat-session", "id">> /\ ~m.makes
            <3>1. S[k].fetch = cache[k].fetch /\ S[k].answer = cache[k].answer /\ S[k].shows = sent[w].read
                  <4>1. m.via # "optimistic"
                        BY <2>3
                  <4> HIDE DEF m
                  <4> QED BY <1>5, <2>1, <2>3, <4>1
            <3>2. sent[w].read \subseteq server[k]
                  BY <1>1, <2>3 DEF Applied
            <3>3. k \notin overtaken' => cache[k].fetch = "none" /\ server[k] \subseteq sent[w].read
                  BY <1>2, <2>3 DEF Overtakes, Conversation
            <3> QED BY <1>4, <1>7, <3>1, <3>2, <3>3 DEF Fine, S
      <2>4. CASE /\ ~(m.makes /\ ok /\ k \in Shown(m.leads) \ Topbar)
                 /\ ~(m.via = "answer" /\ ok /\ k = <<"chat-session", "id">>)
            <3>1. ~(m.via = "optimistic" /\ ~ok /\ k = Ticked)
                  <4>1. IsPrefix(Ticked, Ticked)
                        BY DEF IsPrefix, Ticked
                  <4> QED BY <1>1, <1>12, <4>1 DEF Sound, Under
            <3>2. S[k] = cache[k]
                  BY <1>5, <2>1, <2>4, <3>1
            <3>3. due'[k] = due[k]
                  BY <1>4, <1>12, <2>4
            <3>4. (k \in overtaken => k \in overtaken') /\ (k \in failed \cup AheadKeys => k \in doubt)
                  BY <1>2, <1>8, <1>12
            <3>5. Fine(cache[k], k, Watched, due[k], server[k], overtaken', doubt)
                  BY <1>1, <3>4, FineGrows DEF FineKey
            <3> QED BY <3>2, <3>3, <3>5 DEF S
      <2> QED BY <1>1, <2>2, <2>3, <2>4 DEF Sound
<1> QED BY <1>10, <1>11, <1>12

\* w ends, on its page or leading to another.
LEMMA SettleFine ==
    ASSUME ClientTypes, CacheInv, NEW w \in Writes, Settle(w) PROVE CacheInv'
<1> DEFINE ok == sent[w].at = "applied"
           next == IF Leaving(Of(w), ok) THEN Of(w).leads ELSE page
           S == Settled(w, ok)
           doubt == failed \cup AheadKeys'
<1>1. /\ UNCHANGED <<site, server, failed>> /\ page' = next
      /\ \A v \in Writes \ {w} : sent'[v] = sent[v]
      BY DEF Settle, ClientTypes
<1>2. sent'[w].at = "done"
      <2>1. sent[w] \in Sending
            BY DEF ClientTypes
      <2> DEFINE r == [sent[w] EXCEPT !.at = "done", !.before = Absent, !.read = {}]
      <2>2. r.at = "done"
            BY <2>1 DEF Sending
      <2>3. sent' = [sent EXCEPT ![w] = r]
            BY DEF Settle
      <2> HIDE DEF r
      <2> QED BY <2>2, <2>3 DEF ClientTypes
<1>3. Keys' = Keys /\ \A p : Shown(p)' = Shown(p)
      BY <1>1, SameKeys
<1>4. S \in [Keys -> Entry]
      <2>1. Ends(w) /\ ok \in BOOLEAN
            BY DEF Settle, Ends
      <2>2. Made(w, ok) \in [Keys -> Entry]
            BY <2>1, MadeIs
      <2>3. PICK ks : S = Invalidated(Made(w, ok), ks, Watched)
            BY <2>1, SettledIs
      <2> QED BY <2>2, <2>3, InvalidatedEntries
<1>5. /\ next = page => cache' = S /\ peeked' \subseteq peeked
      /\ next # page => cache' = Opened(S, next) /\ peeked' = {}
      BY DEF Settle
<1>6. ASSUME NEW k \in Keys PROVE FineKey(k)'
      <2>1. Fine(S[k], k, Watched, due'[k], server[k], overtaken', doubt)
            <3>1. ok \in BOOLEAN /\ (ok <=> sent[w].at = "applied")
                  OBVIOUS
            <3> HIDE DEF ok
            <3> QED BY <3>1, SettledFine
      <2>2. due'[k] \subseteq server[k]
            BY DueIs
      <2> HIDE DEF S, doubt
      <2>3. CASE next = page
            <3>1. k \in Watched' => k \in Watched
                  BY <1>1, <1>3, <1>5, <2>3 DEF Watched, Shown
            <3>2. Fine(S[k], k, Watched', due'[k], server[k], overtaken', doubt)
                  BY <2>1, <3>1, FineGrows
            <3> HIDE DEF next
            <3> QED BY <1>1, <1>5, <2>2, <2>3, <3>2 DEF FineKey, doubt
      <2>4. CASE next # page
            <3>1. Watched' = Shown(next)
                  <4> HIDE DEF next
                  <4> QED BY <1>1, <1>3, <1>5, <2>4 DEF Watched, Shown
            <3> HIDE DEF next
            <3>2. Fine(Opened(S, next)[k], k, Shown(next), due'[k], server[k], overtaken', doubt)
                  BY <1>4, <2>1, OpenedFine
            <3> QED BY <1>1, <1>5, <2>2, <2>4, <3>1, <3>2 DEF FineKey, doubt
      <2> QED BY <2>3, <2>4
<1>7. ASSUME NEW v \in Writes PROVE Applied(v)'
      <2>1. CASE v = w
            BY <1>2, <2>1 DEF Applied
      <2>2. CASE v # w
            BY <1>1, <2>2, AppliedStays
      <2> QED BY <2>1, <2>2
<1> QED BY <1>3, <1>6, <1>7, CacheHolds

LEMMA CacheStep == ClientTypes /\ CacheInv /\ [ClientNext]_clientVars => CacheInv'
<1> SUFFICES ASSUME ClientTypes, CacheInv, [ClientNext]_clientVars PROVE CacheInv'
    OBVIOUS
<1>1. ASSUME UNCHANGED <<site, page, peeked, cache, server, sent, due, overtaken, failed>> PROVE CacheInv'
      <2>1. /\ AheadKeys' = AheadKeys /\ Keys' = Keys /\ \A w \in Writes : Applied(w)'
            BY <1>1, SameSent DEF CacheInv
      <2>2. Watched' = Watched
            BY <1>1, SameKeys DEF Watched, Shown
      <2>3. ASSUME NEW k \in Keys PROVE FineKey(k)'
            BY <1>1, <2>1, <2>2, FineKeys DEF FineKey
      <2> QED BY <2>1, <2>3, CacheHolds
<1>2. CASE UNCHANGED clientVars
      BY <1>1, <1>2 DEF clientVars
<1>3. ASSUME NEW f \in DOMAIN Forms, OpenForm(f) PROVE CacheInv'
      BY <1>1, <1>3 DEF OpenForm
<1>4. CASE FillForm \/ CloseForm
      BY <1>1, <1>4 DEF FillForm, CloseForm
<1> QED BY <1>2, <1>3, <1>4, VisitFine, LoadFine, FetchFine, OnFine, MutateFine, SettleFine DEF ClientNext

LEMMA PeekedStep == peeked \subseteq Keys /\ [ClientNext]_clientVars => (peeked \subseteq Keys)'
<1> SUFFICES ASSUME peeked \subseteq Keys, [ClientNext]_clientVars PROVE (peeked \subseteq Keys)'
    OBVIOUS
<1>1. site' = site
      BY DEF ClientNext, Visit, Load, Peek, Answer, Arrive, FetchFails, Age, OpenForm, FillForm, CloseForm,
             ShowAhead, Apply, MutationFails, Settle, Mutate, clientVars
<1>2. peeked' \subseteq peeked \/ \E k \in Keys : peeked' = peeked \cup {k}
      BY DEF ClientNext, Visit, Load, Peek, Answer, Arrive, FetchFails, Age, OpenForm, FillForm, CloseForm,
             ShowAhead, Apply, MutationFails, Settle, Mutate, clientVars
<1> QED BY <1>1, <1>2, SameKeys

\* What is followed is changed by some mutation; of what lies under the ticked
\* basket that is the basket itself.
LEMMA CacheShows == ClientTypes /\ peeked \subseteq Keys /\ CacheInv => OutcomeIsShown
<1> SUFFICES ASSUME ClientTypes, peeked \subseteq Keys, CacheInv, NEW k \in Watched \ (overtaken \cup failed),
                    cache[k].fetch = "none", cache[k].shows # Absent,
                    \A w \in Writes : ~(Underway(w) /\ k \in Of(w).writes)
             PROVE  due[k] \subseteq cache[k].shows /\ cache[k].shows \subseteq server[k]
    BY DEF OutcomeIsShown
<1>1. k \in Keys
      BY DEF Watched, Shown
<1>2. k \notin AheadKeys
      <2> SUFFICES ASSUME NEW w \in Writes, Underway(w), Of(w).via = "optimistic", k \in Under(Of(w).invalidates)
                   PROVE  FALSE
          BY DEF AheadKeys
      <2>1. Sound(Of(w))
            BY TickedIsKept
      <2>2. IsPrefix(Ticked, k) /\ Ticked \in Of(w).writes
            BY <2>1 DEF Sound, Under
      <2>3. PICK n \in DOMAIN Mutations : k \in Mutations[n].writes
            BY <1>1 DEF Keys, KeysOf, ClientTypes
      <2>4. k = Ticked
            BY <2>2, <2>3, SoundRow DEF Sound
      <2> QED BY <2>2, <2>4
<1> QED BY <1>1, <1>2, FineKeys DEF FineKey, Fine

\* Every reachable state of the pages is well typed, and whatever is pressed
\* belongs to the pages this user keeps to.
THEOREM ClientTyped == ClientSpec => []ClientTypes
BY ClientTypesStart, ClientTypesStep, PTL DEF ClientSpec

\* Once nothing is under way for it, an answer on the page has every change made
\* there, and nothing the API does not have: every mutation of the table is
\* invalidated, written or settled for, whatever it overlaps or crosses.
THEOREM OutcomeShown == ClientSpec => []OutcomeIsShown
<1>1. ClientInit => peeked \subseteq Keys
      BY DEF ClientInit
<1> QED BY <1>1, ClientTyped, CacheStart, CacheStep, PeekedStep, CacheShows, PTL DEF ClientSpec

-----------------------------------------------------------------------------
\* Forms.

LEMMA FormStart == ClientInit => FormInv
BY DEF ClientInit, FormInv, FormsAreKept, Underway, NotSent

\* A form that ends is the one filed, or was opened after w was sent, or left.
LEMMA SettleKeeps ==
    ASSUME ClientTypes, FormInv, NEW w \in Writes, Settle(w) PROVE FormsAreKept'
<1> DEFINE m == Of(w)
           ok == sent[w].at = "applied"
           ends == form # Absent /\ (Closing(w, ok) \/ Leaving(m, ok))
           since == sent[w].since
<1>1. Sound(m)
      <2>1. Underway(w)
            BY DEF Settle, Underway
      <2> QED BY <2>1, TickedIsKept
<1>2. /\ filed' = IF ok /\ m.form # Absent THEN filed \cup {since} ELSE filed
      /\ dropped' = IF ends THEN dropped \cup {form.id} ELSE dropped
      /\ intruded' = IF ends /\ form.id > since THEN intruded \cup {form.id} ELSE intruded
      /\ deserted' = IF ends /\ form.id <= since /\ m.form = Absent
                     THEN deserted \cup {form.id} ELSE deserted
      /\ emptied' = emptied
      BY DEF Settle, SettleForm
<1>3. ends => ok
      BY <1>1 DEF Closing, Leaving, Sound
<1>4. ends => form.id \in Nat /\ since \in Nat /\ since <= form.id
      BY DEF ClientTypes, FormRow, Sending, FormInv
<1>5. dropped \subseteq filed \cup intruded \cup deserted \cup emptied
      BY DEF FormInv, FormsAreKept
<1> HIDE DEF ok, m, ends, since
<1>6. ends => form.id > since \/ form.id = since
      BY <1>4
<1>7. ends => form.id \in filed' \cup intruded' \cup deserted'
      <2>1. CASE ends /\ form.id > since
            BY <1>2, <2>1
      <2>2. CASE ends /\ form.id = since
            BY <1>2, <1>3, <1>4, <2>2
      <2> QED BY <1>6, <2>1, <2>2
<1>8. /\ filed \subseteq filed' /\ intruded \subseteq intruded'
      /\ deserted \subseteq deserted' /\ emptied' = emptied
      BY <1>2
<1> QED BY <1>2, <1>5, <1>7, <1>8 DEF FormsAreKept

\* What stays as it is keeps FormInv.
LEMMA FormStays ==
    ASSUME FormInv, ClientTypes, forms' = forms, form' = form \/ form' = Absent,
           \A w \in Writes : sent'[w].since <= forms, FormsAreKept'
    PROVE  FormInv'
BY DEF FormInv

LEMMA FormStep == ClientTypes /\ FormInv /\ [ClientNext]_clientVars => FormInv'
<1> SUFFICES ASSUME ClientTypes, FormInv, [ClientNext]_clientVars PROVE FormInv'
    OBVIOUS
<1>1. forms \in Nat /\ \A v \in Writes : sent[v] \in Sending /\ sent[v].since <= forms
      BY DEF ClientTypes, FormInv
<1>2. ASSUME UNCHANGED closings PROVE FormsAreKept'
      BY <1>2 DEF FormInv, FormsAreKept, closings
<1>3. ASSUME UNCHANGED <<sent, forms, closings>>, form' = form \/ form' = Absent PROVE FormInv'
      BY <1>1, <1>2, <1>3, FormStays
<1>4. CASE UNCHANGED clientVars
      BY <1>3, <1>4 DEF clientVars, closings
<1>5. ASSUME NEW p, Visit(p) PROVE FormInv'
      BY <1>3, <1>5 DEF Visit
<1>6. ASSUME NEW p, Load(p) PROVE FormInv'
      <2>1. UNCHANGED <<forms, form, closings>>
            BY <1>6 DEF Load, formVars
      <2>2. [NotSent EXCEPT !.at = "done"].since = 0
            BY DEF NotSent
      <2>3. ASSUME NEW v \in Writes PROVE sent'[v].since <= forms
            <3>1. sent'[v] = IF Underway(v) THEN [NotSent EXCEPT !.at = "done"] ELSE sent[v]
                  BY <1>6 DEF Load
            <3> QED BY <1>1, <2>2, <3>1
      <2> QED BY <1>2, <2>1, <2>3, FormStays
<1>7. ASSUME NEW k, Peek(k) \/ Answer(k) \/ Arrive(k) \/ FetchFails(k) \/ Age(k) PROVE FormInv'
      BY <1>3, <1>7 DEF Peek, Answer, Arrive, FetchFails, Age, formVars
<1>8. ASSUME NEW f, OpenForm(f) PROVE FormInv'
      <2>1. /\ form' = [name |-> f, id |-> forms + 1, filled |-> ~Forms[f].needs] /\ forms' = forms + 1
            /\ UNCHANGED <<sent, closings>>
            BY <1>8 DEF OpenForm
      <2>2. form'.id = forms'
            BY <2>1
      <2>3. \A v \in Writes : sent[v].since <= forms'
            BY <1>1, <2>1 DEF Sending
      <2> QED BY <1>2, <2>1, <2>2, <2>3 DEF FormInv
<1>9. CASE FillForm
      <2>1. /\ form' = [form EXCEPT !.filled = TRUE] /\ form # Absent
            /\ UNCHANGED <<sent, forms, closings>>
            BY <1>9 DEF FillForm
      <2>2. form'.id = forms'
            BY <2>1 DEF ClientTypes, FormRow, FormInv
      <2> QED BY <1>1, <1>2, <2>1, <2>2 DEF FormInv
<1>13. CASE CloseForm
      BY <1>3, <1>13 DEF CloseForm
<1>10. ASSUME NEW w \in Writes, ShowAhead(w) \/ Apply(w) \/ MutationFails(w) PROVE FormInv'
      <2>1. UNCHANGED <<forms, form, closings>> /\ \A v \in Writes \ {w} : sent'[v] = sent[v]
            BY <1>10 DEF ShowAhead, Apply, MutationFails, formVars, ClientTypes
      <2>2. sent'[w].since = sent[w].since
            <3>1. CASE ShowAhead(w)
                  <4> DEFINE r == [sent[w] EXCEPT !.at = "sent", !.before = cache[Ticked].shows]
                  <4>1. r.since = sent[w].since
                        BY <1>1 DEF Sending
                  <4>2. sent' = [sent EXCEPT ![w] = r]
                        BY <3>1, ShowAheadIs
                  <4> HIDE DEF r
                  <4> QED BY <4>1, <4>2 DEF ClientTypes
            <3>2. CASE Apply(w) \/ MutationFails(w)
                  BY <1>1, <3>2 DEF Apply, MutationFails, ClientTypes, Sending
            <3> QED BY <1>10, <3>1, <3>2
      <2> QED BY <1>1, <1>2, <2>1, <2>2, FormStays
<1>11. ASSUME NEW w \in Writes, NEW kind \in Pressable, Mutate(w, kind) PROVE FormInv'
      <2> DEFINE r == [NotSent EXCEPT !.kind = kind, !.visit = visits,
                          !.at = IF Mutations[kind].via = "optimistic" THEN "starting" ELSE "sent",
                          !.since = forms]
                 takes == form # Absent /\ Mutations[kind].closes = "start"
      <2>1. r.since = forms
            BY DEF NotSent
      <2>2. sent' = [sent EXCEPT ![w] = r] /\ forms' = forms /\ (form' = form \/ form' = Absent)
            BY <1>11 DEF Mutate
      <2> HIDE DEF r
      <2>3. sent'[w] = r /\ \A v \in Writes \ {w} : sent'[v] = sent[v]
            BY <2>2 DEF ClientTypes
      <2>4. \A v \in Writes : sent'[v].since <= forms
            BY <1>1, <2>1, <2>3
      <2>5. /\ dropped' = IF takes THEN dropped \cup {form.id} ELSE dropped
            /\ emptied' = IF takes /\ Mutations[kind].via = "answer" THEN emptied \cup {form.id} ELSE emptied
            /\ UNCHANGED <<filed, intruded, deserted>>
            BY <1>11 DEF Mutate
      <2>6. takes => Mutations[kind].via = "answer"
            <3>1. kind \in DOMAIN Mutations
                  BY DEF Pressable, KindsOn, ClientTypes
            <3> QED BY <3>1, SoundRow DEF Sound
      <2> HIDE DEF takes
      <2>7. FormsAreKept'
            BY <2>5, <2>6 DEF FormInv, FormsAreKept
      <2> QED BY <2>2, <2>4, <2>7, FormStays
<1>12. ASSUME NEW w \in Writes, Settle(w) PROVE FormInv'
      <2> DEFINE r == [sent[w] EXCEPT !.at = "done", !.before = Absent, !.read = {}]
      <2>1. r.since = sent[w].since
            BY <1>1 DEF Sending
      <2>2. sent' = [sent EXCEPT ![w] = r] /\ forms' = forms /\ (form' = form \/ form' = Absent)
            BY <1>12 DEF Settle, SettleForm
      <2> HIDE DEF r
      <2>3. sent'[w] = r /\ \A v \in Writes \ {w} : sent'[v] = sent[v]
            BY <2>2 DEF ClientTypes
      <2> QED BY <1>1, <1>12, <2>1, <2>2, <2>3, SettleKeeps, FormStays
<1> QED BY <1>4, <1>5, <1>6, <1>7, <1>8, <1>9, <1>10, <1>11, <1>12, <1>13 DEF ClientNext

\* The client closes a form by itself only after it was filed, or for a mutation
\* sent before it was opened, or for what led elsewhere when it was pressed
\* beside it; the assistant's input alone is emptied before anything came of it.
THEOREM FormsKept == ClientSpec => []FormsAreKept
<1>1. FormInv => FormsAreKept
      BY DEF FormInv
<1> QED BY <1>1, ClientTyped, FormStart, FormStep, PTL DEF ClientSpec
=============================================================================

------------------------------- MODULE Quota -------------------------------
(***************************************************************************)
(* Free-tier quotas: QuotaService.assertAndConsume over the usage records, *)
(* one counter per user, kind and SGT period.                              *)
(*                                                                         *)
(* The period key is computed before the upsert and the count is compared  *)
(* after it, so that the period may roll over, other requests may count    *)
(* and the process may die in between.  A refused request has counted too, *)
(* and nothing is given back when the work that follows fails.             *)
(***************************************************************************)
EXTENDS Naturals, FiniteSets

CONSTANTS Users,
          DailyKinds,    \* BASKET_OPTIMIZATION, AI_CHAT_MESSAGE
          MonthlyKinds,  \* RECIPE_SCAN, OCR_UPLOAD
          Limit,         \* Limit[kind]: free uses per period
          Enforced,      \* FREEMIUM_ENFORCED
          DaysPerMonth,
          LastDay,       \* bound on the days that pass
          Requests,      \* requests consuming quota at once
          MaxCount,      \* bound on the uses of one counter
          Nothing        \* what an idle request is about

Kinds == DailyKinds \cup MonthlyKinds

ASSUME ConstantsAssumption ==
    /\ DailyKinds \cap MonthlyKinds = {}
    /\ Limit \in [Kinds -> Nat]
    /\ Enforced \in BOOLEAN
    /\ DaysPerMonth \in Nat \ {0}
    /\ LastDay \in Nat
    /\ MaxCount \in Nat

VARIABLES
    day,        \* the current SGT day
    count,      \* count[c]: usage_records.count, 0 when there is no row
    req,        \* req[r]: the call to assertAndConsume in flight as r
    granted,    \* history: granted[c], calls on c that returned
    handed,     \* history: handed[c], the counts those calls got
    lost,       \* history: lost[c], counts whose call died before its answer
    refused     \* history: counters on which a call threw QUOTA_EXCEEDED

vars == <<day, count, req, granted, handed, lost, refused>>
history == <<granted, handed, lost, refused>>

-----------------------------------------------------------------------------
Period == {"day", "month"} \X Nat

\* periodKey(): the prefix of the SGT date that the kind's rule asks for.
PeriodKey(kind) ==
    IF kind \in MonthlyKinds THEN <<"month", day \div DaysPerMonth>>
                             ELSE <<"day", day>>

\* The unique key of a usage record.
Counter == Users \X Kinds \X ({"day", "month"} \X (0..LastDay))

Call == [at : {"idle", "upsert", "compare"}, on : Counter \cup {Nothing}, seen : Nat]
Idle == [at |-> "idle", on |-> Nothing, seen |-> 0]

IsUnlimited(tier) == tier = "PREMIUM" \/ ~Enforced

LimitOf(c) == Limit[c[2]]

Init ==
    /\ day = 0
    /\ count = [c \in Counter |-> 0]
    /\ req = [r \in Requests |-> Idle]
    /\ granted = [c \in Counter |-> 0]
    /\ handed = [c \in Counter |-> {}]
    /\ lost = [c \in Counter |-> {}]
    /\ refused = {}

\* Free-tier calls only: an unlimited one returns at once, counting nothing.
\* The tier is the one cached with the user, possibly outdated.
Start(r, u, kind, tier) ==
    /\ req[r].at = "idle"
    /\ ~IsUnlimited(tier)
    /\ req' = [req EXCEPT ![r] = [at |-> "upsert", seen |-> 0,
                                  on |-> <<u, kind, PeriodKey(kind)>>]]
    /\ UNCHANGED <<day, count, history>>

\* The atomic upsert-and-increment, which returns the new count.
Upsert(r) ==
    LET c == req[r].on IN
    /\ req[r].at = "upsert"
    /\ count[c] < MaxCount
    /\ count' = [count EXCEPT ![c] = @ + 1]
    /\ req' = [req EXCEPT ![r] = [at |-> "compare", on |-> c, seen |-> count[c] + 1]]
    /\ UNCHANGED <<day, history>>

\* Mutant: one use too many passes.
GrantOneMore(r) ==
    LET c == req[r].on IN
    /\ req[r].at = "compare"
    /\ req[r].seen <= LimitOf(c) + 1
    /\ granted' = [granted EXCEPT ![c] = @ + 1]
    /\ handed' = [handed EXCEPT ![c] = @ \cup {req[r].seen}]
    /\ req' = [req EXCEPT ![r] = Idle]
    /\ UNCHANGED <<day, count, lost, refused>>

Grant(r) ==
    LET c == req[r].on IN
    /\ req[r].at = "compare"
    /\ req[r].seen <= LimitOf(c)
    /\ granted' = [granted EXCEPT ![c] = @ + 1]
    /\ handed' = [handed EXCEPT ![c] = @ \cup {req[r].seen}]
    /\ req' = [req EXCEPT ![r] = Idle]
    /\ UNCHANGED <<day, count, lost, refused>>

\* Mutant: the last free use is refused.
RefuseLast(r) ==
    /\ req[r].at = "compare"
    /\ req[r].seen >= LimitOf(req[r].on)
    /\ refused' = refused \cup {req[r].on}
    /\ req' = [req EXCEPT ![r] = Idle]
    /\ UNCHANGED <<day, count, granted, handed, lost>>

Refuse(r) ==
    /\ req[r].at = "compare"
    /\ req[r].seen > LimitOf(req[r].on)
    /\ refused' = refused \cup {req[r].on}
    /\ req' = [req EXCEPT ![r] = Idle]
    /\ UNCHANGED <<day, count, granted, handed, lost>>

\* The call dies: before the upsert without a trace, after it as a lost use.
Fail(r) ==
    /\ req[r].at # "idle"
    /\ lost' = IF req[r].at = "compare"
               THEN [lost EXCEPT ![req[r].on] = @ \cup {req[r].seen}] ELSE lost
    /\ req' = [req EXCEPT ![r] = Idle]
    /\ UNCHANGED <<day, count, granted, handed, refused>>

\* Midnight in Singapore.
NextDay ==
    /\ day < LastDay
    /\ day' = day + 1
    /\ UNCHANGED <<count, req, history>>

Next ==
    \/ \E r \in Requests :
          \/ \E u \in Users, kind \in Kinds, tier \in {"FREE", "PREMIUM"} :
                Start(r, u, kind, tier)
          \/ Upsert(r) \/ Grant(r) \/ Refuse(r) \/ Fail(r)
    \/ NextDay

Spec == Init /\ [][Next]_vars

-----------------------------------------------------------------------------
(* Properties.                                                             *)

\* Counters, calls in flight and histories have the shapes the code uses.
TypeOK ==
    /\ day \in 0..LastDay
    /\ count \in [Counter -> 0..MaxCount]
    /\ req \in [Requests -> Call]
    /\ granted \in [Counter -> Nat]
    /\ handed \in [Counter -> SUBSET Nat]
    /\ lost \in [Counter -> SUBSET Nat]
    /\ refused \subseteq Counter

\* Counting before comparing makes the quota hold under any overlap of
\* requests, across midnight and whatever dies: no counter grants more calls
\* than the free tier has.
GrantedWithinLimit == \A c \in Counter : granted[c] <= LimitOf(c)

Pending(c) == {req[r].seen : r \in {r \in Requests : req[r].at = "compare" /\ req[r].on = c}}

\* Counting refused calls as well costs nobody a use: a call is refused only
\* when every use of the period was granted, is being granted, or died after
\* it was counted.
RefusedOnlyWhenSpent ==
    \A c \in refused : 1..LimitOf(c) \subseteq handed[c] \cup lost[c] \cup Pending(c)

\* The usage records implement a meter per user, kind and period.
MeterOf == INSTANCE Meter WITH Counters <- Counter, Limit <- [c \in Counter |-> LimitOf(c)]

ImplementsMeter == MeterOf!Spec
=============================================================================

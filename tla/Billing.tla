------------------------------ MODULE Billing ------------------------------
(***************************************************************************)
(* billing.service.ts: checkout and the Stripe webhooks that keep the      *)
(* subscription row of a user in step with Stripe.                         *)
(*                                                                         *)
(* Handlers are request or webhook handlers, one action per statement or   *)
(* call to Stripe.  A row exists from registration on.  Price, period end  *)
(* and cancelAtPeriodEnd follow the status and are left out; so is the     *)
(* cache invalidation, which AuthCache models.                             *)
(*                                                                         *)
(* External: Stripe.  It keeps customers and subscriptions, reports every  *)
(* change as an event and sends an event until it is acknowledged.         *)
(* The variable delivery says how: "ordered" is one at a time, in order    *)
(* and once, "replayed" the same with acknowledged events sent again, and  *)
(* "any" also overlapping and in another order.                            *)
(***************************************************************************)
EXTENDS Naturals, Sequences

CONSTANTS Users, Customers, Subscriptions, Handlers,
          MaxEvents,    \* bound: events Stripe emits
          Deliveries,   \* the ways Stripe may send events: see above
          Nothing

ASSUME ConstantsAssumption ==
    /\ MaxEvents \in Nat
    /\ Deliveries \subseteq {"ordered", "replayed", "any"}
    /\ Nothing \notin Users \cup Customers \cup Subscriptions

VARIABLES
    row,        \* row[u]: the subscription row of user u
    owner,      \* Stripe: the user a customer was made for
    stripe,     \* Stripe: its subscriptions
    sessions,   \* Stripe: checkout sessions not yet completed
    events,     \* Stripe: what happened, in order
    acked,      \* Stripe: events answered with 200
    delivery,   \* Stripe: how it sends events, one of Deliveries throughout
    run,        \* run[h]: where handler h stands
    paid        \* history: subscriptions that once deserved PREMIUM

vars == <<row, owner, stripe, sessions, events, acked, delivery, run, paid>>
account == <<owner, stripe, sessions, paid>>
feed == <<events, acked, delivery>>

-----------------------------------------------------------------------------
StripeStatuses == {"incomplete", "incomplete_expired", "trialing", "active",
                   "past_due", "unpaid", "paused", "canceled"}

\* STRIPE_STATUS_MAP
StatusOf ==
    [st \in StripeStatuses |->
        CASE st = "active" -> "ACTIVE"
          [] st = "trialing" -> "TRIALING"
          [] st \in {"past_due", "unpaid"} -> "PAST_DUE"
          [] st \in {"canceled", "paused"} -> "CANCELED"
          [] OTHER -> "INCOMPLETE"]

\* PREMIUM_STRIPE_STATUSES
PremiumStatuses == {"active", "trialing", "past_due"}

\* Stripe's life cycle of a subscription.
Follows(st) ==
    CASE st = "incomplete" -> {"active", "incomplete_expired"}
      [] st = "trialing"   -> {"active", "past_due", "paused", "canceled"}
      [] st = "active"     -> {"past_due", "canceled"}
      [] st = "past_due"   -> {"active", "unpaid", "canceled"}
      [] st \in {"unpaid", "paused"} -> {"active", "canceled"}
      [] OTHER -> {}

Row == [tier : {"FREE", "PREMIUM"},
        status : {"ACTIVE", "TRIALING", "PAST_DUE", "CANCELED", "INCOMPLETE"},
        customer : Customers \cup {Nothing},
        sub : Subscriptions \cup {Nothing}]
StripeSub == [status : StripeStatuses \cup {"none"},
              customer : Customers \cup {Nothing}, user : Users \cup {Nothing}]
Event == [type : {"completed", "changed", "failed"},
          sub : Subscriptions, status : StripeStatuses]
Run == [at : {"idle", "create", "upsert", "session", "retrieve", "bySub",
              "byCustomer", "byUser", "sync", "failed", "pastDue"},
        user : Users \cup {Nothing},
        customer : Customers \cup {Nothing},
        sub : Subscriptions \cup {Nothing},
        status : StripeStatuses \cup {"none"},
        event : 0..MaxEvents]

Resting == [at |-> "idle", user |-> Nothing, customer |-> Nothing,
            sub |-> Nothing, status |-> "none", event |-> 0]

At(h, step) == run[h].at = step

\* The handler goes on with another user, customer or status in hand.
Proceed(h, step, u, c, st) ==
    run' = [run EXCEPT ![h] = [at |-> step, user |-> u, customer |-> c,
                               sub |-> run[h].sub, status |-> st,
                               event |-> run[h].event]]

Move(h, step) == Proceed(h, step, run[h].user, run[h].customer, run[h].status)

MoveWith(h, step, u) == Proceed(h, step, u, run[h].customer, run[h].status)

Rest(h) == run' = [run EXCEPT ![h] = Resting]

Exists(s) == stripe[s].status # "none"

Init ==
    /\ row = [u \in Users |-> [tier |-> "FREE", status |-> "ACTIVE",
                               customer |-> Nothing, sub |-> Nothing]]
    /\ owner = [c \in Customers |-> Nothing]
    /\ stripe = [s \in Subscriptions |->
                    [status |-> "none", customer |-> Nothing, user |-> Nothing]]
    /\ sessions = {}
    /\ events = <<>>
    /\ acked = {}
    /\ delivery \in Deliveries
    /\ run = [h \in Handlers |-> Resting]
    /\ paid = {}

-----------------------------------------------------------------------------
(* createCheckoutSession() and getOrCreateCustomer().                      *)

\* The lookup decides whether a customer has to be made first.
Checkout(h, u) ==
    /\ At(h, "idle")
    /\ LET c == row[u].customer IN
       Proceed(h, IF c = Nothing THEN "create" ELSE "session", u, c, "none")
    /\ UNCHANGED <<row, account, feed>>

CreateCustomer(h, c) ==
    /\ At(h, "create")
    /\ owner[c] = Nothing
    /\ owner' = [owner EXCEPT ![c] = run[h].user]
    /\ Proceed(h, "upsert", run[h].user, c, "none")
    /\ UNCHANGED <<row, stripe, sessions, paid, feed>>

\* The upsert's update branch: the row exists.
UpsertCustomer(h) ==
    /\ At(h, "upsert")
    /\ row' = [row EXCEPT ![run[h].user] = [row[run[h].user] EXCEPT !.customer = run[h].customer]]
    /\ Move(h, "session")
    /\ UNCHANGED <<account, feed>>

OpenSession(h) ==
    /\ At(h, "session")
    /\ sessions' = sessions \cup {<<run[h].user, run[h].customer>>}
    /\ Rest(h)
    /\ UNCHANGED <<row, owner, stripe, paid, feed>>

-----------------------------------------------------------------------------
(* Stripe.                                                                 *)

Emit(type, s, st) ==
    /\ Len(events) < MaxEvents
    /\ events' = Append(events, [type |-> type, sub |-> s, status |-> st])
    /\ UNCHANGED <<acked, delivery>>

Reaches(s, st) == paid' = IF st \in PremiumStatuses THEN paid \cup {s} ELSE paid

\* The user finishes a checkout; the user's id is in the metadata.
Complete(u, c, s, st) ==
    /\ <<u, c>> \in sessions
    /\ ~Exists(s)
    /\ st \in {"active", "trialing", "incomplete"}
    /\ sessions' = sessions \ {<<u, c>>}
    /\ stripe' = [stripe EXCEPT ![s] = [status |-> st, customer |-> c, user |-> u]]
    /\ Reaches(s, st)
    /\ Emit("completed", s, st)
    /\ UNCHANGED <<row, owner, run>>

Change(s, st) ==
    /\ Exists(s)
    /\ st \in Follows(stripe[s].status)
    /\ stripe' = [stripe EXCEPT ![s] = [stripe[s] EXCEPT !.status = st]]
    /\ Reaches(s, st)
    /\ Emit("changed", s, st)
    /\ UNCHANGED <<row, owner, sessions, run>>

PaymentFails(s) ==
    /\ stripe[s].status \in {"incomplete", "active", "past_due"}
    /\ Emit("failed", s, stripe[s].status)
    /\ UNCHANGED <<row, account, run>>

-----------------------------------------------------------------------------
(* handleWebhook().                                                        *)

\* Stripe's side of the delivery.
Deliverable(e) ==
    \/ delivery = "any"
    \/ /\ e \in acked => delivery = "replayed"
       /\ \A d \in 1..(e - 1) : d \in acked
       /\ \A h \in Handlers : run[h].event = 0

Ack(h) ==
    /\ acked' = acked \cup {run[h].event}
    /\ UNCHANGED <<events, delivery>>
    /\ Rest(h)

\* The switch over event.type; the event itself carries subscription and status.
Receive(h, e) ==
    /\ At(h, "idle")
    /\ Deliverable(e)
    /\ run' = [run EXCEPT ![h] =
                  [at |-> CASE events[e].type = "completed" -> "retrieve"
                            [] events[e].type = "changed" -> "bySub"
                            [] events[e].type = "failed" -> "failed",
                   user |-> Nothing, customer |-> stripe[events[e].sub].customer,
                   sub |-> events[e].sub, status |-> events[e].status, event |-> e]]
    /\ UNCHANGED <<row, account, feed>>

\* subscriptions.retrieve: the state of now, not of the event.
Retrieve(h) ==
    /\ At(h, "retrieve")
    /\ Proceed(h, "bySub", Nothing, run[h].customer, stripe[run[h].sub].status)
    /\ UNCHANGED <<row, account, feed>>

\* findSubscriptionRow(): three lookups, the first that succeeds.
BySub(h) ==
    /\ At(h, "bySub")
    /\ \/ \E u \in Users : row[u].sub = run[h].sub /\ MoveWith(h, "sync", u)
       \/ (\A u \in Users : row[u].sub # run[h].sub) /\ Move(h, "byCustomer")
    /\ UNCHANGED <<row, account, feed>>

ByCustomer(h) ==
    /\ At(h, "byCustomer")
    /\ \/ \E u \in Users : row[u].customer = run[h].customer /\ MoveWith(h, "sync", u)
       \/ (\A u \in Users : row[u].customer # run[h].customer) /\ Move(h, "byUser")
    /\ UNCHANGED <<row, account, feed>>

\* Mutant: some row that has no customer yet is taken.
ByUserAny(h) ==
    /\ At(h, "byUser")
    /\ \E u \in Users : MoveWith(h, "sync", u)
    /\ UNCHANGED <<row, account, feed>>

\* The user id in the metadata.
ByUser(h) ==
    /\ At(h, "byUser")
    /\ MoveWith(h, "sync", stripe[run[h].sub].user)
    /\ UNCHANGED <<row, account, feed>>

\* syncSubscription(): the update.  The unique columns hold it back when
\* another row has the customer or the subscription; it throws then.
Sync(h) ==
    LET u == run[h].user IN
    /\ At(h, "sync")
    /\ \A v \in Users \ {u} : row[v].customer # run[h].customer /\ row[v].sub # run[h].sub
    /\ row' = [row EXCEPT ![u] =
                  [tier |-> IF run[h].status \in PremiumStatuses THEN "PREMIUM" ELSE "FREE",
                   status |-> StatusOf[run[h].status],
                   customer |-> run[h].customer, sub |-> run[h].sub]]
    /\ Ack(h)
    /\ UNCHANGED account

\* markPastDue(): the lookup; an unknown customer is acknowledged.
FindFailed(h) ==
    /\ At(h, "failed")
    /\ \/ \E u \in Users : /\ row[u].customer = run[h].customer
                           /\ MoveWith(h, "pastDue", u)
                           /\ UNCHANGED feed
       \/ (\A u \in Users : row[u].customer # run[h].customer) /\ Ack(h)
    /\ UNCHANGED <<row, account>>

\* Mutant: the grace period is spelled out.
MarkPastDueGrace(h) ==
    /\ At(h, "pastDue")
    /\ row' = [row EXCEPT ![run[h].user] = [@ EXCEPT !.status = "PAST_DUE", !.tier = "PREMIUM"]]
    /\ Ack(h)
    /\ UNCHANGED account

\* Mutant: there is no grace period.
MarkPastDueStrict(h) ==
    /\ At(h, "pastDue")
    /\ row' = [row EXCEPT ![run[h].user] = [@ EXCEPT !.status = "PAST_DUE", !.tier = "FREE"]]
    /\ Ack(h)
    /\ UNCHANGED account

MarkPastDue(h) ==
    /\ At(h, "pastDue")
    /\ row' = [row EXCEPT ![run[h].user] = [row[run[h].user] EXCEPT !.status = "PAST_DUE"]]
    /\ Ack(h)
    /\ UNCHANGED account

\* An error from the database or Stripe, or the end of the process.
Fail(h) ==
    /\ ~At(h, "idle")
    /\ Rest(h)
    /\ UNCHANGED <<row, account, feed>>

-----------------------------------------------------------------------------
Step(h) ==
    \/ \E u \in Users : Checkout(h, u)
    \/ \E c \in Customers : CreateCustomer(h, c)
    \/ UpsertCustomer(h) \/ OpenSession(h)
    \/ \E e \in 1..Len(events) : Receive(h, e)
    \/ Retrieve(h) \/ BySub(h) \/ ByCustomer(h) \/ ByUser(h) \/ Sync(h)
    \/ FindFailed(h) \/ MarkPastDue(h)
    \/ Fail(h)

Next ==
    \/ \E h \in Handlers : Step(h)
    \/ \E u \in Users, c \in Customers, s \in Subscriptions, st \in StripeStatuses :
          Complete(u, c, s, st)
    \/ \E s \in Subscriptions : PaymentFails(s) \/ \E st \in StripeStatuses : Change(s, st)

Spec == Init /\ [][Next]_vars

-----------------------------------------------------------------------------
(* Properties.                                                             *)

\* Rows, Stripe's objects and handlers have the shapes the code uses.
TypeOK ==
    /\ row \in [Users -> Row]
    /\ owner \in [Customers -> Users \cup {Nothing}]
    /\ stripe \in [Subscriptions -> StripeSub]
    /\ sessions \subseteq Users \X Customers
    /\ events \in Seq(Event)
    /\ Len(events) <= MaxEvents
    /\ acked \subseteq 1..Len(events)
    /\ delivery \in Deliveries
    /\ run \in [Handlers -> Run]
    /\ paid \subseteq Subscriptions

\* However events overtake each other and whichever of the three lookups
\* finds the row: a row only ever names customers and subscriptions that were
\* made for its own user.
RowsAreOwn ==
    \A u \in Users :
        /\ row[u].customer # Nothing => owner[row[u].customer] = u
        /\ row[u].sub # Nothing => stripe[row[u].sub].user = u

\* Late, repeated and reordered events upgrade nobody whose subscription never
\* reached a status that deserves it.
PremiumWasPaid ==
    \A u \in Users : row[u].tier = "PREMIUM" => row[u].sub \in paid

\* Stripe has been told that everything about s arrived.
Settled(s) ==
    /\ Exists(s)
    /\ \A e \in 1..Len(events) : events[e].sub = s => e \in acked
    /\ \A h \in Handlers : run[h].sub # s

\* Whoever pays has PREMIUM, and nobody keeps it after the subscription ended.
TierIsStripes ==
    /\ \A s \in Subscriptions : Settled(s) /\ stripe[s].status \in PremiumStatuses =>
          row[stripe[s].user].tier = "PREMIUM"
    /\ \A u \in Users : row[u].tier = "PREMIUM" /\ Settled(row[u].sub) =>
          stripe[row[u].sub].status \in PremiumStatuses

\* Nothing stops a subscriber from a second checkout.
OneSubscriptionEach ==
    \A s, t \in Subscriptions : Exists(s) /\ Exists(t) /\ stripe[s].user = stripe[t].user => s = t

\* Every lookup that misses, every handler that fails and is sent the event
\* again: when Stripe delivers in order, the tier is what the subscription
\* deserves as soon as all that happened to it is acknowledged.  Of a user with
\* two subscriptions, the event handled last decides.
TierFollowsStripe == delivery = "ordered" /\ OneSubscriptionEach => TierIsStripes

\* What billing.service.ts says of webhooks, that the same event applied twice
\* converges to the same state.
ReplayConverges == TierIsStripes
=============================================================================

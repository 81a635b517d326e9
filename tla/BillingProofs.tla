--------------------------- MODULE BillingProofs ---------------------------
(* Theorems about subscription rows, for any number of users, customers,   *)
(* subscriptions and handlers and for every way Stripe may deliver events. *)
EXTENDS Billing, TLAPS

LEMMA StatusMapped ==
    \A st \in StripeStatuses :
        StatusOf[st] \in {"ACTIVE", "TRIALING", "PAST_DUE", "CANCELED", "INCOMPLETE"}
BY DEF StripeStatuses, StatusOf

WebhookSteps == {"retrieve", "bySub", "byCustomer", "byUser", "sync"}

\* What a handler holds at each step.
Hands ==
    \A h \in Handlers :
        /\ run[h].at \in {"create", "upsert", "session", "sync", "pastDue"}
              => run[h].user \in Users
        /\ run[h].at \in {"upsert", "session"} => run[h].customer \in Customers
        /\ run[h].at \in {"retrieve", "bySub", "byCustomer", "byUser", "sync",
                          "failed", "pastDue"}
              => /\ run[h].sub \in Subscriptions
                 /\ run[h].customer \in Customers
                 /\ run[h].status \in StripeStatuses
                 /\ run[h].event \in 1..Len(events)
        /\ run[h].at \in {"retrieve", "bySub", "byCustomer", "byUser", "sync"}
              => /\ stripe[run[h].sub].status \in StripeStatuses
                 /\ run[h].customer = stripe[run[h].sub].customer

\* Stripe's own records and its events name what exists.
Records ==
    /\ \A s \in Subscriptions : Exists(s) => /\ stripe[s].user \in Users
                                             /\ stripe[s].customer \in Customers
    /\ \A e \in 1..Len(events) : /\ events[e] \in Event
                                 /\ Exists(events[e].sub)

TypeInv == TypeOK /\ Hands /\ Records

LEMMA TypeInit == Init => TypeInv
BY ConstantsAssumption
   DEF Init, TypeInv, TypeOK, Hands, Records, Exists, Run, Resting, Row, StripeSub, Event

LEMMA TypeStep == TypeInv /\ [Next]_vars => TypeInv'
<1> USE ConstantsAssumption
<1> SUFFICES ASSUME TypeInv, [Next]_vars PROVE TypeInv'
    OBVIOUS
<1>1. ASSUME NEW h \in Handlers, NEW u \in Users, Checkout(h, u) PROVE TypeInv'
      <2>1. run' \in [Handlers -> Run]
            BY <1>1 DEF Checkout, Proceed, TypeInv, TypeOK, Hands, Records, account,
               feed, At, Exists, Run, Resting, Row, StripeSub, Event
      <2>2. TypeOK'
            BY <1>1, <2>1, StatusMapped DEF Checkout, Proceed, TypeInv, TypeOK, Hands,
               Records, account, feed, At, Exists, Run, Resting, Row, StripeSub, Event
      <2>3. Hands'
            BY <1>1 DEF Checkout, Proceed, TypeInv, TypeOK, Hands, Records, account,
               feed, At, Exists, Run, Resting, Row, StripeSub, Event
      <2>4. Records'
            BY <1>1 DEF Checkout, Proceed, TypeInv, TypeOK, Hands, Records, account,
               feed, At, Exists, Run, Resting, Row, StripeSub, Event
      <2> QED BY <2>2, <2>3, <2>4 DEF TypeInv
<1>2. ASSUME NEW h \in Handlers, NEW c \in Customers, CreateCustomer(h, c) PROVE TypeInv'
      <2>1. run' \in [Handlers -> Run]
            BY <1>2 DEF CreateCustomer, Proceed, TypeInv, TypeOK, Hands, Records,
               account, feed, At, Exists, Run, Resting, Row, StripeSub, Event
      <2>2. TypeOK'
            BY <1>2, <2>1, StatusMapped DEF CreateCustomer, Proceed, TypeInv, TypeOK,
               Hands, Records, account, feed, At, Exists, Run, Resting, Row, StripeSub,
               Event
      <2>3. Hands'
            BY <1>2 DEF CreateCustomer, Proceed, TypeInv, TypeOK, Hands, Records,
               account, feed, At, Exists, Run, Resting, Row, StripeSub, Event
      <2>4. Records'
            BY <1>2 DEF CreateCustomer, Proceed, TypeInv, TypeOK, Hands, Records,
               account, feed, At, Exists, Run, Resting, Row, StripeSub, Event
      <2> QED BY <2>2, <2>3, <2>4 DEF TypeInv
<1>3. ASSUME NEW h \in Handlers, UpsertCustomer(h) PROVE TypeInv'
      <2>1. run' \in [Handlers -> Run]
            BY <1>3 DEF UpsertCustomer, Move, Proceed, TypeInv, TypeOK, Hands, Records,
               account, feed, At, Exists, Run, Resting, Row, StripeSub, Event
      <2>2. TypeOK'
            <3> DEFINE u == run[h].user
            <3>1. u \in Users /\ row[u] \in Row
                  BY <1>3 DEF UpsertCustomer, TypeInv, TypeOK, Hands, At
            <3>2. [row[u] EXCEPT !.customer = run[h].customer] \in Row
                  BY <1>3, <3>1 DEF UpsertCustomer, TypeInv, TypeOK, Hands, At, Row
            <3>3. row' \in [Users -> Row]
                  BY <1>3, <3>1, <3>2 DEF UpsertCustomer, TypeInv, TypeOK
            <3> QED
                  BY <1>3, <2>1, <3>3 DEF UpsertCustomer, Move, Proceed, TypeInv,
                     TypeOK, Hands, account, feed, At
      <2>3. Hands'
            BY <1>3 DEF UpsertCustomer, Move, Proceed, TypeInv, TypeOK, Hands, Records,
               account, feed, At, Exists, Run, Resting, Row, StripeSub, Event
      <2>4. Records'
            BY <1>3 DEF UpsertCustomer, Move, Proceed, TypeInv, TypeOK, Hands, Records,
               account, feed, At, Exists, Run, Resting, Row, StripeSub, Event
      <2> QED BY <2>2, <2>3, <2>4 DEF TypeInv
<1>4. ASSUME NEW h \in Handlers, OpenSession(h) PROVE TypeInv'
      <2>1. run' \in [Handlers -> Run]
            BY <1>4 DEF OpenSession, Rest, TypeInv, TypeOK, Hands, Records, account,
               feed, At, Exists, Run, Resting, Row, StripeSub, Event
      <2>2. TypeOK'
            BY <1>4, <2>1, StatusMapped DEF OpenSession, Rest, TypeInv, TypeOK, Hands,
               Records, account, feed, At, Exists, Run, Resting, Row, StripeSub, Event
      <2>3. Hands'
            BY <1>4 DEF OpenSession, Rest, TypeInv, TypeOK, Hands, Records, account,
               feed, At, Exists, Run, Resting, Row, StripeSub, Event
      <2>4. Records'
            BY <1>4 DEF OpenSession, Rest, TypeInv, TypeOK, Hands, Records, account,
               feed, At, Exists, Run, Resting, Row, StripeSub, Event
      <2> QED BY <2>2, <2>3, <2>4 DEF TypeInv
<1>5. ASSUME NEW h \in Handlers, NEW e \in 1..Len(events), Receive(h, e) PROVE TypeInv'
      <2>1. run' \in [Handlers -> Run]
            BY <1>5 DEF Receive, Deliverable, TypeInv, TypeOK, Hands, Records, account,
               feed, At, Exists, Run, Resting, Row, StripeSub, Event
      <2>2. TypeOK'
            BY <1>5, <2>1, StatusMapped DEF Receive, Deliverable, TypeInv, TypeOK,
               Hands, Records, account, feed, At, Exists, Run, Resting, Row, StripeSub,
               Event
      <2>3. Hands'
            BY <1>5 DEF Receive, Deliverable, TypeInv, TypeOK, Hands, Records, account,
               feed, At, Exists, Run, Resting, Row, StripeSub, Event
      <2>4. Records'
            BY <1>5 DEF Receive, Deliverable, TypeInv, TypeOK, Hands, Records, account,
               feed, At, Exists, Run, Resting, Row, StripeSub, Event
      <2> QED BY <2>2, <2>3, <2>4 DEF TypeInv
<1>6. ASSUME NEW h \in Handlers, Retrieve(h) PROVE TypeInv'
      <2>1. run' \in [Handlers -> Run]
            BY <1>6 DEF Retrieve, Proceed, TypeInv, TypeOK, Hands, Records, account,
               feed, At, Exists, Run, Resting, Row, StripeSub, Event
      <2>2. TypeOK'
            BY <1>6, <2>1, StatusMapped DEF Retrieve, Proceed, TypeInv, TypeOK, Hands,
               Records, account, feed, At, Exists, Run, Resting, Row, StripeSub, Event
      <2>3. Hands'
            BY <1>6 DEF Retrieve, Proceed, TypeInv, TypeOK, Hands, Records, account,
               feed, At, Exists, Run, Resting, Row, StripeSub, Event
      <2>4. Records'
            BY <1>6 DEF Retrieve, Proceed, TypeInv, TypeOK, Hands, Records, account,
               feed, At, Exists, Run, Resting, Row, StripeSub, Event
      <2> QED BY <2>2, <2>3, <2>4 DEF TypeInv
<1>7. ASSUME NEW h \in Handlers, BySub(h) PROVE TypeInv'
      <2>1. run' \in [Handlers -> Run]
            <3>1. ASSUME NEW u \in Users, MoveWith(h, "sync", u)
                  PROVE  run' \in [Handlers -> Run]
                  BY <3>1 DEF MoveWith, Proceed, TypeInv, TypeOK, Run
            <3>2. ASSUME Move(h, "byCustomer") PROVE run' \in [Handlers -> Run]
                  BY <3>2 DEF Move, Proceed, TypeInv, TypeOK, Run
            <3> QED BY <1>7, <3>1, <3>2 DEF BySub
      <2>2. TypeOK'
            BY <1>7, <2>1, StatusMapped DEF BySub, MoveWith, Move, Proceed, TypeInv,
               TypeOK, Hands, Records, account, feed, At, Exists, Run, Resting, Row,
               StripeSub, Event
      <2>3. Hands'
            <3>1. ASSUME NEW u \in Users, row[u].sub = run[h].sub, MoveWith(h, "sync", u)
                 PROVE  Hands'
                  BY <1>7, <3>1 DEF BySub, MoveWith, Proceed, TypeInv, TypeOK, Hands,
                     Records, account, feed, At, Exists, Run, Resting, Row, StripeSub,
                     Event
            <3>2. ASSUME \A u \in Users : row[u].sub # run[h].sub, Move(h, "byCustomer")
                 PROVE  Hands'
                  BY <1>7, <3>2 DEF BySub, Move, Proceed, TypeInv, TypeOK, Hands,
                     Records, account, feed, At, Exists, Run, Resting, Row, StripeSub,
                     Event
            <3> QED BY <1>7, <3>1, <3>2 DEF BySub
      <2>4. Records'
            BY <1>7 DEF BySub, MoveWith, Move, Proceed, TypeInv, TypeOK, Hands, Records,
               account, feed, At, Exists, Run, Resting, Row, StripeSub, Event
      <2> QED BY <2>2, <2>3, <2>4 DEF TypeInv
<1>8. ASSUME NEW h \in Handlers, ByCustomer(h) PROVE TypeInv'
      <2>1. run' \in [Handlers -> Run]
            <3>1. ASSUME NEW u \in Users, MoveWith(h, "sync", u)
                  PROVE  run' \in [Handlers -> Run]
                  BY <3>1 DEF MoveWith, Proceed, TypeInv, TypeOK, Run
            <3>2. ASSUME Move(h, "byUser") PROVE run' \in [Handlers -> Run]
                  BY <3>2 DEF Move, Proceed, TypeInv, TypeOK, Run
            <3> QED BY <1>8, <3>1, <3>2 DEF ByCustomer
      <2>2. TypeOK'
            BY <1>8, <2>1, StatusMapped DEF ByCustomer, MoveWith, Move, Proceed,
               TypeInv, TypeOK, Hands, Records, account, feed, At, Exists, Run, Resting,
               Row, StripeSub, Event
      <2>3. Hands'
            <3>1. ASSUME NEW u \in Users, row[u].customer = run[h].customer, MoveWith(h, "sync", u)
                 PROVE  Hands'
                  BY <1>8, <3>1 DEF ByCustomer, MoveWith, Proceed, TypeInv, TypeOK,
                     Hands, Records, account, feed, At, Exists, Run, Resting, Row,
                     StripeSub, Event
            <3>2. ASSUME \A u \in Users : row[u].customer # run[h].customer, Move(h, "byUser")
                 PROVE  Hands'
                  BY <1>8, <3>2 DEF ByCustomer, Move, Proceed, TypeInv, TypeOK, Hands,
                     Records, account, feed, At, Exists, Run, Resting, Row, StripeSub,
                     Event
            <3> QED BY <1>8, <3>1, <3>2 DEF ByCustomer
      <2>4. Records'
            BY <1>8 DEF ByCustomer, MoveWith, Move, Proceed, TypeInv, TypeOK, Hands,
               Records, account, feed, At, Exists, Run, Resting, Row, StripeSub, Event
      <2> QED BY <2>2, <2>3, <2>4 DEF TypeInv
<1>9. ASSUME NEW h \in Handlers, ByUser(h) PROVE TypeInv'
      <2>1. run' \in [Handlers -> Run]
            BY <1>9 DEF ByUser, MoveWith, Proceed, TypeInv, TypeOK, Hands, Records,
               account, feed, At, Exists, Run, Resting, Row, StripeSub, Event
      <2>2. TypeOK'
            BY <1>9, <2>1, StatusMapped DEF ByUser, MoveWith, Proceed, TypeInv, TypeOK,
               Hands, Records, account, feed, At, Exists, Run, Resting, Row, StripeSub,
               Event
      <2>3. Hands'
            <3> DEFINE u == stripe[run[h].sub].user
            <3>1. u \in Users
                  BY <1>9 DEF ByUser, TypeInv, TypeOK, Hands, Records, Exists, At, StripeStatuses
            <3> QED
                  BY <1>9, <3>1 DEF ByUser, MoveWith, Proceed, TypeInv, TypeOK, Hands,
                     account, feed, At, Exists, Run, Event
      <2>4. Records'
            BY <1>9 DEF ByUser, MoveWith, Proceed, TypeInv, TypeOK, Hands, Records,
               account, feed, At, Exists, Run, Resting, Row, StripeSub, Event
      <2> QED BY <2>2, <2>3, <2>4 DEF TypeInv
<1>10. ASSUME NEW h \in Handlers, Sync(h) PROVE TypeInv'
      <2>1. run' \in [Handlers -> Run]
            BY <1>10 DEF Sync, Ack, Rest, TypeInv, TypeOK, Hands, Records, account,
               feed, At, Exists, Run, Resting, Row, StripeSub, Event
      <2>2. TypeOK'
            <3>1. row' \in [Users -> Row]
                  BY <1>10, StatusMapped DEF Sync, TypeInv, TypeOK, Hands, At, Row
            <3> QED
                  BY <1>10, <2>1, <3>1 DEF Sync, Ack, Rest, TypeInv, TypeOK, Hands,
                     account, feed, At
      <2>3. Hands'
            BY <1>10 DEF Sync, Ack, Rest, TypeInv, TypeOK, Hands, Records, account,
               feed, At, Exists, Run, Resting, Row, StripeSub, Event
      <2>4. Records'
            BY <1>10 DEF Sync, Ack, Rest, TypeInv, TypeOK, Hands, Records, account,
               feed, At, Exists, Run, Resting, Row, StripeSub, Event
      <2> QED BY <2>2, <2>3, <2>4 DEF TypeInv
<1>11. ASSUME NEW h \in Handlers, FindFailed(h) PROVE TypeInv'
      <2>1. ASSUME NEW u \in Users, row[u].customer = run[h].customer,
                   MoveWith(h, "pastDue", u), UNCHANGED feed
            PROVE  TypeInv'
            <3>1. run' \in [Handlers -> Run]
                  BY <1>11, <2>1 DEF FindFailed, MoveWith, Proceed, TypeInv, TypeOK,
                     Hands, Records, account, feed, At, Exists, Run, Resting, Row,
                     StripeSub, Event
            <3>2. TypeOK' /\ Records'
                  BY <1>11, <2>1, <3>1 DEF FindFailed, TypeInv, TypeOK, Hands, Records,
                     account, feed, At, Exists
            <3>3. Hands'
                  BY <1>11, <2>1, <3>1 DEF FindFailed, MoveWith, Proceed, TypeInv,
                     TypeOK, Hands, Records, account, feed, At, Exists
            <3> QED BY <3>2, <3>3 DEF TypeInv
      <2>2. ASSUME Ack(h) PROVE TypeInv'
            <3>1. run' \in [Handlers -> Run]
                  BY <1>11, <2>2 DEF FindFailed, Ack, Rest, TypeInv, TypeOK, Hands,
                     Records, account, feed, At, Exists, Run, Resting, Row, StripeSub,
                     Event
            <3>2. TypeOK' /\ Records'
                  BY <1>11, <2>2, <3>1 DEF FindFailed, Ack, TypeInv, TypeOK, Hands,
                     Records, account, feed, At, Exists
            <3>3. Hands'
                  BY <1>11, <2>2, <3>1 DEF FindFailed, Ack, Rest, Resting, TypeInv,
                     TypeOK, Hands, Records, account, feed, At, Exists
            <3> QED BY <3>2, <3>3 DEF TypeInv
      <2> QED BY <1>11, <2>1, <2>2 DEF FindFailed
<1>12. ASSUME NEW h \in Handlers, MarkPastDue(h) PROVE TypeInv'
      <2>1. run' \in [Handlers -> Run]
            BY <1>12 DEF MarkPastDue, Ack, Rest, TypeInv, TypeOK, Hands, Records,
               account, feed, At, Exists, Run, Resting, Row, StripeSub, Event
      <2>2. TypeOK'
            <3> DEFINE u == run[h].user
            <3>1. u \in Users /\ row[u] \in Row
                  BY <1>12 DEF MarkPastDue, TypeInv, TypeOK, Hands, At
            <3>2. [row[u] EXCEPT !.status = "PAST_DUE"] \in Row
                  BY <1>12, <3>1 DEF MarkPastDue, TypeInv, TypeOK, Hands, At, Row
            <3>3. row' \in [Users -> Row]
                  BY <1>12, <3>1, <3>2 DEF MarkPastDue, TypeInv, TypeOK
            <3> QED
                  BY <1>12, <2>1, <3>3 DEF MarkPastDue, Ack, Rest, TypeInv, TypeOK,
                     Hands, account, feed, At
      <2>3. Hands'
            BY <1>12 DEF MarkPastDue, Ack, Rest, TypeInv, TypeOK, Hands, Records,
               account, feed, At, Exists, Run, Resting, Row, StripeSub, Event
      <2>4. Records'
            BY <1>12 DEF MarkPastDue, Ack, Rest, TypeInv, TypeOK, Hands, Records,
               account, feed, At, Exists, Run, Resting, Row, StripeSub, Event
      <2> QED BY <2>2, <2>3, <2>4 DEF TypeInv
<1>13. ASSUME NEW h \in Handlers, Fail(h) PROVE TypeInv'
      <2>1. run' \in [Handlers -> Run]
            BY <1>13 DEF Fail, Rest, TypeInv, TypeOK, Hands, Records, account, feed, At,
               Exists, Run, Resting, Row, StripeSub, Event
      <2>2. TypeOK'
            BY <1>13, <2>1, StatusMapped DEF Fail, Rest, TypeInv, TypeOK, Hands,
               Records, account, feed, At, Exists, Run, Resting, Row, StripeSub, Event
      <2>3. Hands'
            BY <1>13 DEF Fail, Rest, TypeInv, TypeOK, Hands, Records, account, feed, At,
               Exists, Run, Resting, Row, StripeSub, Event
      <2>4. Records'
            BY <1>13 DEF Fail, Rest, TypeInv, TypeOK, Hands, Records, account, feed, At,
               Exists, Run, Resting, Row, StripeSub, Event
      <2> QED BY <2>2, <2>3, <2>4 DEF TypeInv
<1>14. ASSUME NEW u \in Users, NEW c \in Customers, NEW s \in Subscriptions, NEW st \in StripeStatuses,
             Complete(u, c, s, st)
      PROVE  TypeInv'
      <2>0. /\ Len(events') = Len(events) + 1
            /\ events' \in Seq(Event)
            /\ \A e \in 1..Len(events) : events'[e] = events[e]
            /\ events'[Len(events')] = [type |-> "completed", sub |-> s, status |-> st]
            BY <1>14 DEF Complete, Emit, TypeInv, TypeOK, Event
      <2>1. run' \in [Handlers -> Run]
            BY <1>14 DEF Complete, Emit, Reaches, TypeInv, TypeOK, Hands, Records,
               account, feed, At, Exists, Run, Resting, Row, StripeSub, Event
      <2>2. TypeOK'
            BY <1>14, <2>1, StatusMapped DEF Complete, Emit, Reaches, TypeInv, TypeOK,
               Hands, Records, account, feed, At, Exists, Run, Resting, Row, StripeSub,
               Event
      <2>3. Hands'
            BY <1>14, <2>0 DEF Complete, Exists, TypeInv, TypeOK, Hands, StripeSub,
               StripeStatuses
      <2>4. Records'
            BY <1>14 DEF Complete, Emit, Reaches, TypeInv, TypeOK, Hands, Records,
               account, feed, At, Exists, Run, Resting, Row, StripeSub, Event
      <2> QED BY <2>2, <2>3, <2>4 DEF TypeInv
<1>15. ASSUME NEW s \in Subscriptions, NEW st \in StripeStatuses,
             Change(s, st)
      PROVE  TypeInv'
      <2>0. /\ Len(events') = Len(events) + 1
            /\ events' \in Seq(Event)
            /\ \A e \in 1..Len(events) : events'[e] = events[e]
            /\ events'[Len(events')] = [type |-> "changed", sub |-> s, status |-> st]
            BY <1>15 DEF Change, Emit, TypeInv, TypeOK, Event
      <2>5. /\ stripe' \in [Subscriptions -> StripeSub]
            /\ \A r \in Subscriptions : stripe'[r].user = stripe[r].user
            /\ \A r \in Subscriptions : stripe'[r].customer = stripe[r].customer
            /\ \A r \in Subscriptions : stripe'[r].status # "none" <=> stripe[r].status # "none"
            <3>1. [stripe[s] EXCEPT !.status = st] = [status |-> st, customer |-> stripe[s].customer, user |-> stripe[s].user]
                  BY DEF TypeInv, TypeOK, StripeSub
            <3>2. st # "none" /\ stripe[s].status # "none"
                  BY <1>15 DEF Change, Exists, StripeStatuses
            <3> QED BY <1>15, <3>1, <3>2 DEF Change, TypeInv, TypeOK, StripeSub
      <2>1. run' \in [Handlers -> Run]
            BY <1>15 DEF Change, Emit, Reaches, TypeInv, TypeOK, Hands, Records,
               account, feed, At, Exists, Run, Resting, Row, StripeSub, Event
      <2>2. TypeOK'
            BY <1>15, <2>0, <2>1, <2>5 DEF Change, Emit, Reaches, TypeInv, TypeOK
      <2>3. Hands'
            BY <1>15, <2>0, <2>1, <2>5 DEF Change, TypeInv, TypeOK, Hands, StripeSub
      <2>4. Records'
            <3>1. events'[Len(events')] \in Event /\ Exists(s)
                  BY <1>15, <2>0 DEF Change, Event
            <3>2. \A e \in 1..Len(events') : e \in 1..Len(events) \/ e = Len(events')
                  BY <2>0 DEF TypeInv, TypeOK
            <3>3. \A e \in 1..Len(events) :
                     events'[e] \in Event /\ stripe'[events'[e].sub].status # "none"
                  BY <2>0, <2>5 DEF TypeInv, Records, Event, Exists
            <3>4. stripe'[events'[Len(events')].sub].status # "none"
                  BY <2>0, <2>5, <3>1 DEF Exists
            <3>5. ASSUME NEW r \in Subscriptions, stripe'[r].status # "none"
                  PROVE  stripe'[r].user \in Users /\ stripe'[r].customer \in Customers
                  <4>1. stripe[r].status # "none"
                        BY <2>5, <3>5
                  <4>2. stripe[r].user \in Users /\ stripe[r].customer \in Customers
                        BY <4>1 DEF TypeInv, Records, Exists
                  <4> QED BY <2>5, <4>2
            <3> QED BY <3>1, <3>2, <3>3, <3>4, <3>5 DEF Records, Exists
      <2> QED BY <2>2, <2>3, <2>4 DEF TypeInv
<1>16. ASSUME NEW s \in Subscriptions, PaymentFails(s) PROVE TypeInv'
      <2>1. run' \in [Handlers -> Run]
            BY <1>16 DEF PaymentFails, Emit, TypeInv, TypeOK, Hands, Records, account,
               feed, At, Exists, Run, Resting, Row, StripeSub, Event
      <2>2. TypeOK'
            BY <1>16, <2>1, StatusMapped DEF PaymentFails, Emit, TypeInv, TypeOK, Hands,
               Records, account, feed, At, Exists, Run, Resting, Row, StripeSub, Event
      <2>3. Hands'
            BY <1>16 DEF PaymentFails, Emit, TypeInv, TypeOK, Hands, Records, account,
               feed, At, Exists, Run, Resting, Row, StripeSub, Event
      <2>4. Records'
            BY <1>16 DEF PaymentFails, Emit, TypeInv, TypeOK, Hands, Records, account,
               feed, At, Exists, Run, Resting, Row, StripeSub, Event
      <2> QED BY <2>2, <2>3, <2>4 DEF TypeInv
<1>17. CASE UNCHANGED vars
      BY <1>17 DEF vars, TypeInv, TypeOK, Hands, Records, account, feed, At, Exists
<1> QED
    BY <1>1, <1>2, <1>3, <1>4, <1>5, <1>6, <1>7, <1>8, <1>9, <1>10, <1>11,
       <1>12, <1>13, <1>14, <1>15, <1>16, <1>17
    DEF Next, Step

\* Every reachable state is well typed, for every order of events.
THEOREM TypeCorrect == Spec => []TypeOK
<1>1. TypeInv => TypeOK
      BY DEF TypeInv
<1> QED BY <1>1, TypeInit, TypeStep, PTL DEF Spec

LEMMA Typed == Spec => []TypeInv
BY TypeInit, TypeStep, PTL DEF Spec

-----------------------------------------------------------------------------
\* A row, a customer, a session and a handler's find all belong to one user,
\* and a premium status in anybody's hands is one the subscription had.
OwnRows ==
    /\ RowsAreOwn
    /\ PremiumWasPaid
    /\ \A u \in Users : row[u].sub # Nothing => Exists(row[u].sub)

OwnRecords ==
    /\ \A s \in Subscriptions : Exists(s) =>
          /\ owner[stripe[s].customer] = stripe[s].user
          /\ stripe[s].status \in PremiumStatuses => s \in paid
    /\ \A u \in Users, c \in Customers : <<u, c>> \in sessions => owner[c] = u
    /\ \A e \in 1..Len(events) :
          events[e].status \in PremiumStatuses => events[e].sub \in paid

OwnHands ==
    \A h \in Handlers :
        /\ run[h].at \in {"upsert", "session"} => owner[run[h].customer] = run[h].user
        /\ run[h].at \in WebhookSteps \ {"retrieve"} =>
              (run[h].status \in PremiumStatuses => run[h].sub \in paid)
        /\ At(h, "sync") => run[h].user = stripe[run[h].sub].user

Own == OwnRows /\ OwnRecords /\ OwnHands

LEMMA OwnInit == Init => Own
BY ConstantsAssumption
   DEF Init, Own, OwnRows, OwnRecords, OwnHands, RowsAreOwn, PremiumWasPaid, Exists, At, Resting, WebhookSteps

LEMMA OwnStep == TypeInv /\ Own /\ [Next]_vars => Own'
<1> USE ConstantsAssumption
<1> SUFFICES ASSUME TypeInv, Own, [Next]_vars PROVE Own'
    OBVIOUS
<1>1. ASSUME NEW h \in Handlers, NEW u \in Users, Checkout(h, u) PROVE Own'
      BY <1>1 DEF Checkout, Proceed, TypeInv, TypeOK, Hands, Records, account, feed, At,
         Exists, Run, Resting, Row, StripeSub, Event, Own, OwnRows, OwnRecords,
         OwnHands, RowsAreOwn, PremiumWasPaid, WebhookSteps
<1>2. ASSUME NEW h \in Handlers, NEW c \in Customers, CreateCustomer(h, c) PROVE Own'
      BY <1>2 DEF CreateCustomer, Proceed, TypeInv, TypeOK, Hands, Records, account,
         feed, At, Exists, Run, Resting, Row, StripeSub, Event, Own, OwnRows,
         OwnRecords, OwnHands, RowsAreOwn, PremiumWasPaid, WebhookSteps
<1>3. ASSUME NEW h \in Handlers, UpsertCustomer(h) PROVE Own'
      BY <1>3 DEF UpsertCustomer, Move, Proceed, TypeInv, TypeOK, Hands, Records,
         account, feed, At, Exists, Run, Resting, Row, StripeSub, Event, Own, OwnRows,
         OwnRecords, OwnHands, RowsAreOwn, PremiumWasPaid, WebhookSteps
<1>4. ASSUME NEW h \in Handlers, OpenSession(h) PROVE Own'
      BY <1>4 DEF OpenSession, Rest, TypeInv, TypeOK, Hands, Records, account, feed, At,
         Exists, Run, Resting, Row, StripeSub, Event, Own, OwnRows, OwnRecords,
         OwnHands, RowsAreOwn, PremiumWasPaid, WebhookSteps
<1>5. ASSUME NEW h \in Handlers, NEW e \in 1..Len(events), Receive(h, e) PROVE Own'
      BY <1>5 DEF Receive, Deliverable, TypeInv, TypeOK, Hands, Records, account, feed,
         At, Exists, Run, Resting, Row, StripeSub, Event, Own, OwnRows, OwnRecords,
         OwnHands, RowsAreOwn, PremiumWasPaid, WebhookSteps
<1>6. ASSUME NEW h \in Handlers, Retrieve(h) PROVE Own'
      <2>1. OwnRows'
            BY <1>6 DEF Retrieve, Proceed, TypeInv, TypeOK, Hands, Records, account,
               feed, At, Exists, Run, Resting, Row, StripeSub, Event, Own, OwnRows,
               OwnRecords, OwnHands, RowsAreOwn, PremiumWasPaid, WebhookSteps
      <2>2. OwnRecords'
            BY <1>6 DEF Retrieve, Proceed, TypeInv, TypeOK, Hands, Records, account,
               feed, At, Exists, Run, Resting, Row, StripeSub, Event, Own, OwnRows,
               OwnRecords, OwnHands, RowsAreOwn, PremiumWasPaid, WebhookSteps
      <2>3. OwnHands'
            <3> DEFINE s == run[h].sub
            <3>1. s \in Subscriptions /\ Exists(s)
                  BY <1>6 DEF Retrieve, At, TypeInv, Hands, Exists, StripeStatuses
            <3>2. stripe[s].status \in PremiumStatuses => s \in paid
                  BY <3>1 DEF Own, OwnRecords
            <3> QED
                  BY <1>6, <3>2 DEF Retrieve, Proceed, account, feed, TypeInv, TypeOK,
                     At, WebhookSteps, Own, OwnHands
      <2> QED BY <2>1, <2>2, <2>3 DEF Own
<1>7. ASSUME NEW h \in Handlers, BySub(h) PROVE Own'
      <2>1. OwnRows'
            BY <1>7 DEF BySub, MoveWith, Move, Proceed, TypeInv, TypeOK, Hands, Records,
               account, feed, At, Exists, Run, Resting, Row, StripeSub, Event, Own,
               OwnRows, OwnRecords, OwnHands, RowsAreOwn, PremiumWasPaid, WebhookSteps
      <2>2. OwnRecords'
            BY <1>7 DEF BySub, MoveWith, Move, Proceed, TypeInv, TypeOK, Hands, Records,
               account, feed, At, Exists, Run, Resting, Row, StripeSub, Event, Own,
               OwnRows, OwnRecords, OwnHands, RowsAreOwn, PremiumWasPaid, WebhookSteps
      <2>3. OwnHands'
            <3>1. ASSUME NEW u \in Users, row[u].sub = run[h].sub, MoveWith(h, "sync", u)
                 PROVE  OwnHands'
                  BY <1>7, <3>1 DEF BySub, MoveWith, Proceed, TypeInv, TypeOK, Hands,
                     Records, account, feed, At, Exists, Run, Resting, Row, StripeSub,
                     Event, Own, OwnRows, OwnRecords, OwnHands, RowsAreOwn,
                     PremiumWasPaid, WebhookSteps
            <3>2. ASSUME \A u \in Users : row[u].sub # run[h].sub, Move(h, "byCustomer")
                 PROVE  OwnHands'
                  BY <1>7, <3>2 DEF BySub, Move, Proceed, TypeInv, TypeOK, Hands,
                     Records, account, feed, At, Exists, Run, Resting, Row, StripeSub,
                     Event, Own, OwnRows, OwnRecords, OwnHands, RowsAreOwn,
                     PremiumWasPaid, WebhookSteps
            <3> QED BY <1>7, <3>1, <3>2 DEF BySub
      <2> QED BY <2>1, <2>2, <2>3 DEF Own
<1>8. ASSUME NEW h \in Handlers, ByCustomer(h) PROVE Own'
      <2>1. OwnRows'
            BY <1>8 DEF ByCustomer, MoveWith, Move, Proceed, TypeInv, TypeOK, Hands,
               Records, account, feed, At, Exists, Run, Resting, Row, StripeSub, Event,
               Own, OwnRows, OwnRecords, OwnHands, RowsAreOwn, PremiumWasPaid,
               WebhookSteps
      <2>2. OwnRecords'
            BY <1>8 DEF ByCustomer, MoveWith, Move, Proceed, TypeInv, TypeOK, Hands,
               Records, account, feed, At, Exists, Run, Resting, Row, StripeSub, Event,
               Own, OwnRows, OwnRecords, OwnHands, RowsAreOwn, PremiumWasPaid,
               WebhookSteps
      <2>3. OwnHands'
            <3>1. ASSUME NEW u \in Users, row[u].customer = run[h].customer, MoveWith(h, "sync", u)
                  PROVE  OwnHands'
                  <4>1. /\ run[h].sub \in Subscriptions /\ Exists(run[h].sub)
                        /\ run[h].customer = stripe[run[h].sub].customer
                        /\ run[h].customer \in Customers
                        BY <1>8 DEF ByCustomer, At, TypeInv, Hands, Exists, StripeStatuses
                  <4>2. u = stripe[run[h].sub].user
                        BY <3>1, <4>1, ConstantsAssumption DEF Own, OwnRows, OwnRecords, RowsAreOwn
                  <4> QED
                        BY <1>8, <3>1, <4>2 DEF ByCustomer, MoveWith, Proceed, account,
                           TypeInv, TypeOK, At, WebhookSteps, Own, OwnHands
            <3>2. ASSUME Move(h, "byUser") PROVE OwnHands'
                  BY <1>8, <3>2 DEF ByCustomer, Move, Proceed, account, TypeInv, TypeOK,
                     At, WebhookSteps, Own, OwnHands
            <3> QED BY <1>8, <3>1, <3>2 DEF ByCustomer
      <2> QED BY <2>1, <2>2, <2>3 DEF Own
<1>9. ASSUME NEW h \in Handlers, ByUser(h) PROVE Own'
      BY <1>9 DEF ByUser, MoveWith, Proceed, TypeInv, TypeOK, Hands, Records, account,
         feed, At, Exists, Run, Resting, Row, StripeSub, Event, Own, OwnRows,
         OwnRecords, OwnHands, RowsAreOwn, PremiumWasPaid, WebhookSteps
<1>10. ASSUME NEW h \in Handlers, Sync(h) PROVE Own'
      <2>1. OwnRows'
            <3> DEFINE u == run[h].user
                       s == run[h].sub
            <3>1. /\ u \in Users /\ s \in Subscriptions /\ Exists(s)
                  /\ stripe[s].user = u /\ run[h].customer = stripe[s].customer
                  BY <1>10 DEF Sync, At, TypeInv, Hands, Own, OwnHands, Exists, StripeStatuses
            <3>2. owner[run[h].customer] = u
                  BY <3>1 DEF Own, OwnRecords
            <3>3. run[h].status \in PremiumStatuses => s \in paid
                  BY <1>10 DEF Sync, At, Own, OwnHands, WebhookSteps
            <3>4. row'[u].tier = "PREMIUM" => run[h].status \in PremiumStatuses
                  BY <1>10, <3>1 DEF Sync, TypeInv, TypeOK
            <3>5. /\ row'[u].customer = run[h].customer /\ row'[u].sub = s
                  /\ \A v \in Users \ {u} : row'[v] = row[v]
                  BY <1>10, <3>1 DEF Sync, TypeInv, TypeOK
            <3> QED
                  BY <1>10, <3>1, <3>2, <3>3, <3>4, <3>5 DEF Sync, account, Own,
                     OwnRows, RowsAreOwn, PremiumWasPaid, Exists
      <2>2. OwnRecords'
            BY <1>10 DEF Sync, Ack, account, feed, Own, OwnRecords, Exists
      <2>3. OwnHands'
            BY <1>10 DEF Sync, Ack, Rest, Resting, account, TypeInv, TypeOK, At,
               WebhookSteps, Own, OwnHands
      <2> QED BY <2>1, <2>2, <2>3 DEF Own
<1>11. ASSUME NEW h \in Handlers, FindFailed(h) PROVE Own'
      <2>1. OwnRows'
            BY <1>11 DEF FindFailed, account, Own, OwnRows, RowsAreOwn, PremiumWasPaid,
               Exists
      <2>2. OwnRecords'
            BY <1>11 DEF FindFailed, Ack, account, feed, Own, OwnRecords, Exists
      <2>3. OwnHands'
            <3>1. ASSUME NEW u \in Users, MoveWith(h, "pastDue", u) PROVE OwnHands'
                  BY <1>11, <3>1 DEF FindFailed, MoveWith, Proceed, account, TypeInv,
                     TypeOK, At, WebhookSteps, Own, OwnHands
            <3>2. ASSUME Ack(h) PROVE OwnHands'
                  BY <1>11, <3>2 DEF FindFailed, Ack, Rest, Resting, account, TypeInv,
                     TypeOK, At, WebhookSteps, Own, OwnHands
            <3> QED BY <1>11, <3>1, <3>2 DEF FindFailed
      <2> QED BY <2>1, <2>2, <2>3 DEF Own
<1>12. ASSUME NEW h \in Handlers, MarkPastDue(h) PROVE Own'
      BY <1>12 DEF MarkPastDue, Ack, Rest, TypeInv, TypeOK, Hands, Records, account,
         feed, At, Exists, Run, Resting, Row, StripeSub, Event, Own, OwnRows,
         OwnRecords, OwnHands, RowsAreOwn, PremiumWasPaid, WebhookSteps
<1>13. ASSUME NEW h \in Handlers, Fail(h) PROVE Own'
      BY <1>13 DEF Fail, Rest, TypeInv, TypeOK, Hands, Records, account, feed, At,
         Exists, Run, Resting, Row, StripeSub, Event, Own, OwnRows, OwnRecords,
         OwnHands, RowsAreOwn, PremiumWasPaid, WebhookSteps
<1>14. ASSUME NEW u \in Users, NEW c \in Customers, NEW s \in Subscriptions, NEW st \in StripeStatuses,
             Complete(u, c, s, st)
      PROVE  Own'
      <2>0. /\ Len(events') = Len(events) + 1
            /\ \A e \in 1..Len(events) : events'[e] = events[e]
            /\ events'[Len(events')] = [type |-> "completed", sub |-> s, status |-> st]
            /\ paid \subseteq paid' /\ (st \in PremiumStatuses => s \in paid')
            BY <1>14 DEF Complete, Emit, Reaches, TypeInv, TypeOK, Event
      <2>1. OwnRows'
            BY <1>14, <2>0 DEF Complete, TypeInv, TypeOK, Row, Own, OwnRows, RowsAreOwn,
               PremiumWasPaid, Exists
      <2>2. OwnRecords'
            <3>1. \A r \in Subscriptions : Exists(r)' =>
                     /\ owner'[stripe'[r].customer] = stripe'[r].user
                     /\ stripe'[r].status \in PremiumStatuses => r \in paid'
                  BY <1>14, <2>0 DEF Complete, TypeInv, TypeOK, Exists, Own, OwnRecords
            <3>2. \A v \in Users, d \in Customers : <<v, d>> \in sessions' => owner'[d] = v
                  BY <1>14 DEF Complete, Own, OwnRecords
            <3>3. \A e \in 1..Len(events) :
                     events'[e].status \in PremiumStatuses => events'[e].sub \in paid'
                  BY <2>0 DEF Own, OwnRecords
            <3>4. \A e \in 1..Len(events') : e \in 1..Len(events) \/ e = Len(events')
                  BY <2>0 DEF TypeInv, TypeOK
            <3>5. \A e \in 1..Len(events') :
                     events'[e].status \in PremiumStatuses => events'[e].sub \in paid'
                  BY <2>0, <3>3, <3>4
            <3> QED BY <3>1, <3>2, <3>5 DEF OwnRecords
      <2>3. OwnHands'
            BY <1>14, <2>0 DEF Complete, TypeInv, TypeOK, Hands, WebhookSteps, At,
               StripeStatuses, Exists, Own, OwnHands
      <2> QED BY <2>1, <2>2, <2>3 DEF Own
<1>15. ASSUME NEW s \in Subscriptions, NEW st \in StripeStatuses, Change(s, st) PROVE Own'
      <2>0. /\ Len(events') = Len(events) + 1
            /\ \A e \in 1..Len(events) : events'[e] = events[e]
            /\ events'[Len(events')] = [type |-> "changed", sub |-> s, status |-> st]
            /\ paid \subseteq paid' /\ (st \in PremiumStatuses => s \in paid')
            BY <1>15 DEF Change, Emit, Reaches, TypeInv, TypeOK, Event
      <2>5. /\ \A r \in Subscriptions : stripe'[r].user = stripe[r].user
            /\ \A r \in Subscriptions : stripe'[r].customer = stripe[r].customer
            /\ \A r \in Subscriptions : stripe'[r].status # "none" <=> stripe[r].status # "none"
            /\ \A r \in Subscriptions \ {s} : stripe'[r] = stripe[r]
            /\ stripe'[s].status = st
            <3>1. [stripe[s] EXCEPT !.status = st] = [status |-> st, customer |-> stripe[s].customer, user |-> stripe[s].user]
                  BY DEF TypeInv, TypeOK, StripeSub
            <3>2. st # "none" /\ stripe[s].status # "none"
                  BY <1>15 DEF Change, Exists, StripeStatuses
            <3> QED BY <1>15, <3>1, <3>2 DEF Change, TypeInv, TypeOK, StripeSub
      <2>1. OwnRows'
            BY <1>15, <2>0, <2>5 DEF Change, TypeInv, TypeOK, Row, Own, OwnRows,
               RowsAreOwn, PremiumWasPaid, Exists
      <2>2. OwnRecords'
            <3>1. \A r \in Subscriptions : Exists(r)' =>
                     /\ owner'[stripe'[r].customer] = stripe'[r].user
                     /\ stripe'[r].status \in PremiumStatuses => r \in paid'
                  BY <1>15, <2>0, <2>5 DEF Change, account, TypeInv, TypeOK, Exists,
                     Own, OwnRecords
            <3>2. \A v \in Users, d \in Customers : <<v, d>> \in sessions' => owner'[d] = v
                  BY <1>15 DEF Change, account, Own, OwnRecords
            <3>3. \A e \in 1..Len(events) :
                     events'[e].status \in PremiumStatuses => events'[e].sub \in paid'
                  BY <2>0 DEF Own, OwnRecords
            <3>4. \A e \in 1..Len(events') : e \in 1..Len(events) \/ e = Len(events')
                  BY <2>0 DEF TypeInv, TypeOK
            <3>5. \A e \in 1..Len(events') :
                     events'[e].status \in PremiumStatuses => events'[e].sub \in paid'
                  BY <2>0, <3>3, <3>4
            <3> QED BY <3>1, <3>2, <3>5 DEF OwnRecords
      <2>3. OwnHands'
            BY <1>15, <2>0, <2>5 DEF Change, TypeInv, TypeOK, Hands, WebhookSteps, At,
               Own, OwnHands
      <2> QED BY <2>1, <2>2, <2>3 DEF Own
<1>16. ASSUME NEW s \in Subscriptions, PaymentFails(s) PROVE Own'
      BY <1>16 DEF PaymentFails, Emit, TypeInv, TypeOK, Hands, Records, account, feed,
         At, Exists, Run, Resting, Row, StripeSub, Event, Own, OwnRows, OwnRecords,
         OwnHands, RowsAreOwn, PremiumWasPaid, WebhookSteps
<1>17. CASE UNCHANGED vars
      BY <1>17 DEF vars, TypeInv, TypeOK, Hands, Records, account, feed, At, Exists,
         Run, Resting, Row, StripeSub, Event, Own, OwnRows, OwnRecords, OwnHands,
         RowsAreOwn, PremiumWasPaid, WebhookSteps
<1> QED
    BY <1>1, <1>2, <1>3, <1>4, <1>5, <1>6, <1>7, <1>8, <1>9, <1>10, <1>11,
       <1>12, <1>13, <1>14, <1>15, <1>16, <1>17
    DEF Next, Step

\* Overlapping checkouts, webhooks in any order and replays never put one
\* user's customer or subscription into the row of another.
THEOREM RowsStayOwn == Spec => []RowsAreOwn
<1>1. Own => RowsAreOwn
      BY DEF Own, OwnRows
<1> QED BY <1>1, OwnInit, OwnStep, Typed, PTL DEF Spec

\* No order of events gives PREMIUM for a subscription that never earned it.
THEOREM PremiumEarned == Spec => []PremiumWasPaid
<1>1. Own => PremiumWasPaid
      BY DEF Own, OwnRows
<1> QED BY <1>1, OwnInit, OwnStep, Typed, PTL DEF Spec
-----------------------------------------------------------------------------
\* Sent in order, an event is handled once those before it are acknowledged.

\* Events that say what became of s and are not acknowledged.
Pending(s) ==
    {e \in 1..Len(events) : events[e].sub = s /\ events[e].type # "failed" /\ e \notin acked}

\* One handler has an event, the first that is not acknowledged.
InOrder ==
    /\ \A h \in Handlers : run[h].event # 0 =>
          /\ run[h].event \in 1..Len(events) /\ run[h].event \notin acked
          /\ events[run[h].event].sub = run[h].sub
          /\ \A d \in 1..(run[h].event - 1) : d \in acked
    /\ \A h, i \in Handlers : run[h].event # 0 /\ run[i].event # 0 => h = i
    /\ \A h \in Handlers :
          /\ run[h].at \in WebhookSteps => run[h].event # 0 /\ events[run[h].event].type # "failed"
          /\ run[h].at \in {"failed", "pastDue"} => run[h].event # 0 /\ events[run[h].event].type = "failed"

\* The newest event of a subscription tells its status, and so does the handler
\* of the last one.
Newest ==
    \A s \in Subscriptions : \A e \in Pending(s) :
       (\A d \in Pending(s) : d <= e) => events[e].status = stripe[s].status
HandNewest ==
    \A h \in Handlers : run[h].at \in WebhookSteps \ {"retrieve"} =>
       ((\A d \in Pending(run[h].sub) : d = run[h].event) => run[h].status = stripe[run[h].sub].status)

Deserved ==
    OneSubscriptionEach =>
       \A s \in Subscriptions : Exists(s) /\ Pending(s) = {} =>
          (row[stripe[s].user].tier = "PREMIUM" <=> stripe[s].status \in PremiumStatuses)

TierInv == delivery = "ordered" => InOrder /\ Newest /\ HandNewest /\ Deserved

\* The handler h goes on, or rests; what was sent and answered stays as it is.
LEMMA KeepsOrder ==
    ASSUME InOrder, NEW h \in Handlers, UNCHANGED feed,
           \A i \in Handlers \ {h} : run'[i] = run[i],
           \/ run'[h] = Resting
           \/ /\ run'[h].event = run[h].event /\ run'[h].sub = run[h].sub
              /\ run'[h].at \in WebhookSteps => run[h].at \in WebhookSteps
              /\ run'[h].at \in {"failed", "pastDue"} => run[h].at \in {"failed", "pastDue"}
    PROVE  InOrder'
<1>1. CASE run'[h] = Resting
      <2>1. run'[h].event = 0 /\ run'[h].at \notin WebhookSteps \cup {"failed", "pastDue"}
            BY <1>1 DEF Resting, WebhookSteps
      <2> QED BY <2>1 DEF InOrder, feed
<1>2. CASE run'[h] # Resting
      BY <1>2 DEF InOrder, feed
<1> QED BY <1>1, <1>2

LEMMA KeepsPending ==
    ASSUME UNCHANGED feed PROVE \A s \in Subscriptions : Pending(s)' = Pending(s)
BY DEF feed, Pending

\* An acknowledgement takes the first of the pending events.
LEMMA Acks ==
    ASSUME TypeInv, InOrder, NEW h \in Handlers, run[h].event # 0, Ack(h)
    PROVE  /\ InOrder'
           /\ \A s \in Subscriptions : Pending(s)' = Pending(s) \ {run[h].event}
           /\ run'[h] = Resting /\ \A i \in Handlers \ {h} : run'[i] = run[i]
           /\ \A s \in Subscriptions : \A d \in Pending(s) : run[h].event <= d
<1>1. /\ acked' = acked \cup {run[h].event} /\ events' = events
      /\ run'[h] = Resting /\ \A i \in Handlers \ {h} : run'[i] = run[i]
      BY DEF Ack, Rest, TypeInv, TypeOK
<1>2. run'[h].event = 0 /\ run'[h].at \notin WebhookSteps \cup {"failed", "pastDue"}
      BY <1>1 DEF Resting, WebhookSteps
<1>3. \A i \in Handlers \ {h} : run'[i].event = 0 /\ run'[i].at \notin WebhookSteps \cup {"failed", "pastDue"}
      BY <1>1 DEF InOrder
<1>4. InOrder'
      BY <1>2, <1>3 DEF InOrder
<1>5. \A s \in Subscriptions : Pending(s)' = Pending(s) \ {run[h].event}
      BY <1>1 DEF Pending
<1>6. ASSUME NEW s \in Subscriptions, NEW d \in Pending(s) PROVE run[h].event <= d
      <2>1. d \in 1..Len(events) /\ d \notin acked
            BY DEF Pending
      <2>2. run[h].event \in Nat /\ d \notin 1..(run[h].event - 1)
            BY <2>1 DEF InOrder
      <2> QED BY <2>1, <2>2
<1> QED BY <1>1, <1>4, <1>5, <1>6

LEMMA AcksNewest ==
    ASSUME TypeInv, InOrder, Newest, HandNewest, NEW h \in Handlers, run[h].event # 0, Ack(h),
           stripe' = stripe
    PROVE  Newest' /\ HandNewest'
<1>1. /\ \A s \in Subscriptions : Pending(s)' = Pending(s) \ {run[h].event}
      /\ run'[h] = Resting /\ \A i \in Handlers \ {h} : run'[i] = run[i]
      /\ \A s \in Subscriptions : \A d \in Pending(s) : run[h].event <= d
      /\ events' = events
      BY Acks DEF Ack
<1>2. ASSUME NEW s \in Subscriptions, NEW e \in Pending(s)', \A d \in Pending(s)' : d <= e
      PROVE  events'[e].status = stripe'[s].status
      <2>1. e \in Pending(s) /\ run[h].event <= e
            BY <1>1, <1>2
      <2>2. \A d \in Pending(s) : d <= e
            BY <1>1, <1>2, <2>1
      <2> QED BY <1>1, <2>1, <2>2 DEF Newest
<1>3. \A i \in Handlers : run'[i].at \notin WebhookSteps
      <2>1. run'[h].at \notin WebhookSteps
            BY <1>1 DEF Resting, WebhookSteps
      <2>2. \A i \in Handlers \ {h} : run[i].at \notin WebhookSteps
            BY DEF InOrder
      <2> QED BY <1>1, <2>1, <2>2
<1> QED BY <1>2, <1>3 DEF Newest, HandNewest

\* A new event of s, the last of all.
LEMMA Emits ==
    ASSUME TypeInv, InOrder, NEW type, NEW s \in Subscriptions, NEW st, Emit(type, s, st), UNCHANGED run
    PROVE  /\ InOrder' /\ Len(events) \in Nat
           /\ Len(events') = Len(events) + 1 /\ acked' = acked
           /\ \A e \in 1..Len(events) : events'[e] = events[e]
           /\ events'[Len(events) + 1] = [type |-> type, sub |-> s, status |-> st]
           /\ \A t \in Subscriptions : t # s => Pending(t)' = Pending(t)
           /\ Pending(s)' = IF type = "failed" THEN Pending(s) ELSE Pending(s) \cup {Len(events) + 1}
           /\ \A t \in Subscriptions : \A d \in Pending(t) : d \in Nat /\ d <= Len(events)
<1> DEFINE n == Len(events) + 1
<1>1. /\ Len(events) \in Nat /\ Len(events') = n /\ acked' = acked
      /\ \A e \in 1..Len(events) : events'[e] = events[e]
      /\ events'[n] = [type |-> type, sub |-> s, status |-> st]
      /\ acked \subseteq 1..Len(events)
      BY DEF Emit, TypeInv, TypeOK
<1>2. n \notin acked /\ n \notin 1..Len(events) /\ 1..n = 1..Len(events) \cup {n}
      BY <1>1
<1> HIDE DEF n
<1>3. InOrder'
      BY <1>1, <1>2 DEF InOrder
<1>4. \A t \in Subscriptions : t # s => Pending(t)' = Pending(t)
      BY <1>1, <1>2 DEF Pending
<1>5. Pending(s)' = IF type = "failed" THEN Pending(s) ELSE Pending(s) \cup {n}
      BY <1>1, <1>2 DEF Pending
<1>6. \A t \in Subscriptions : \A d \in Pending(t) : d \in Nat /\ d <= Len(events)
      BY <1>1 DEF Pending
<1> QED BY <1>1, <1>3, <1>4, <1>5, <1>6 DEF n

\* Rows whose tier, subscriptions and pending events stay as they are.
LEMMA KeepsDeserved ==
    ASSUME Deserved, \A s \in Subscriptions : Pending(s)' = Pending(s), stripe' = stripe,
           \A u \in Users : row'[u].tier = row[u].tier, Records
    PROVE  Deserved'
BY DEF Deserved, OneSubscriptionEach, Exists, Records

LEMMA TierStep == TypeInv /\ Own /\ TierInv /\ [Next]_vars => TierInv'
<1> SUFFICES ASSUME TypeInv, Own, TierInv, [Next]_vars, delivery' = "ordered" PROVE TierInv'
    BY DEF TierInv
<1>1. delivery = "ordered" /\ InOrder /\ Newest /\ HandNewest /\ Deserved
      <2>1. delivery' = delivery
            BY DEF Next, Step, vars, feed, Checkout, CreateCustomer, UpsertCustomer, OpenSession, Emit, Complete,
                   Change, PaymentFails, Ack, Receive, Retrieve, BySub, ByCustomer, ByUser, Sync, FindFailed,
                   MarkPastDue, Fail
      <2> QED BY <2>1 DEF TierInv
<1>2. /\ run \in [Handlers -> Run] /\ Records /\ Hands
      /\ row \in [Users -> Row] /\ stripe \in [Subscriptions -> StripeSub]
      BY DEF TypeInv, TypeOK
\* A handler whose step neither acknowledges nor sets a tier.
<1>3. ASSUME NEW h \in Handlers, UNCHANGED feed, stripe' = stripe,
             \A u \in Users : row'[u].tier = row[u].tier,
             \A i \in Handlers \ {h} : run'[i] = run[i],
             \/ run'[h] = Resting
             \/ /\ run'[h].event = run[h].event /\ run'[h].sub = run[h].sub
                /\ run'[h].at \in WebhookSteps => run[h].at \in WebhookSteps
                /\ run'[h].at \in {"failed", "pastDue"} => run[h].at \in {"failed", "pastDue"}
                /\ run'[h].at \in WebhookSteps \ {"retrieve"} =>
                     \/ run[h].at # "retrieve" /\ run'[h].status = run[h].status
                     \/ run'[h].status = stripe[run[h].sub].status
      PROVE  TierInv'
      <2>1. \A s \in Subscriptions : Pending(s)' = Pending(s)
            BY <1>3, KeepsPending
      <2>2. InOrder'
            BY <1>1, <1>3, KeepsOrder
      <2>3. Deserved'
            BY <1>1, <1>2, <1>3, <2>1, KeepsDeserved
      <2>4. Newest'
            BY <1>1, <1>3, <2>1 DEF Newest, feed
      <2>5. ASSUME NEW i \in Handlers, run'[i].at \in WebhookSteps \ {"retrieve"},
                   \A d \in Pending(run[i].sub)' : d = run'[i].event
            PROVE  run'[i].status = stripe'[run'[i].sub].status
            <3>1. run'[i].sub = run[i].sub /\ run'[i].event = run[i].event /\ run[i].at \in WebhookSteps
                  BY <1>3, <2>5 DEF Resting, WebhookSteps
            <3>2. run[i].sub \in Subscriptions
                  BY <1>2, <3>1 DEF Hands, WebhookSteps
            <3>3. \A d \in Pending(run[i].sub) : d = run[i].event
                  BY <2>1, <2>5, <3>1, <3>2
            <3>4. \/ run[i].at # "retrieve" /\ run'[i].status = run[i].status
                  \/ run'[i].status = stripe[run[i].sub].status
                  BY <1>3, <2>5 DEF Resting, WebhookSteps
            <3> QED BY <1>1, <1>3, <3>1, <3>3, <3>4 DEF HandNewest
      <2>6. HandNewest'
            <3>1. \A i \in Handlers : run'[i].at \in WebhookSteps => run'[i].sub = run[i].sub
                  BY <1>3 DEF Resting, WebhookSteps
            <3> QED BY <2>5, <3>1 DEF HandNewest
      <2> QED BY <2>2, <2>3, <2>4, <2>6 DEF TierInv
<1>4. ASSUME NEW h \in Handlers,
             \/ \E u \in Users : Checkout(h, u)
             \/ \E c \in Customers : CreateCustomer(h, c)
             \/ UpsertCustomer(h) \/ OpenSession(h) \/ Fail(h)
      PROVE  TierInv'
      <2>1. UNCHANGED feed /\ stripe' = stripe
            BY <1>4 DEF Checkout, CreateCustomer, UpsertCustomer, OpenSession, Fail, account
      <2>2. \A u \in Users : row'[u].tier = row[u].tier
            <3>1. CASE UpsertCustomer(h)
                  <4>1. row' = [row EXCEPT ![run[h].user] = [row[run[h].user] EXCEPT !.customer = run[h].customer]]
                        BY <3>1 DEF UpsertCustomer
                  <4>2. run[h].user \in Users
                        BY <1>2, <3>1 DEF Hands, UpsertCustomer, At
                  <4> QED BY <1>2, <4>1, <4>2 DEF Row
            <3>2. CASE row' = row
                  BY <3>2
            <3> QED BY <1>4, <3>1, <3>2 DEF Checkout, CreateCustomer, OpenSession, Fail
      <2>3. /\ \A i \in Handlers \ {h} : run'[i] = run[i]
            /\ \/ run'[h] = Resting
               \/ /\ run'[h].event = run[h].event /\ run'[h].sub = run[h].sub
                  /\ run'[h].at \in {"create", "upsert", "session"}
            BY <1>2, <1>4 DEF Checkout, CreateCustomer, UpsertCustomer, OpenSession, Fail, Proceed, Move, Rest
      <2> QED BY <1>3, <2>1, <2>2, <2>3 DEF WebhookSteps
<1>5. ASSUME NEW h \in Handlers,
             \/ Retrieve(h) \/ BySub(h) \/ ByCustomer(h) \/ ByUser(h)
             \/ FindFailed(h) /\ ~Ack(h)
      PROVE  TierInv'
      <2>1. UNCHANGED <<feed, stripe, row>>
            BY <1>5 DEF Retrieve, BySub, ByCustomer, ByUser, FindFailed, account
      <2>2. PICK at, u, c, st :
               /\ Proceed(h, at, u, c, st)
               /\ \/ run[h].at = "failed" /\ at = "pastDue"
                  \/ /\ run[h].at \in WebhookSteps /\ at \in WebhookSteps \ {"retrieve"}
                     /\ \/ run[h].at # "retrieve" /\ st = run[h].status
                        \/ st = stripe[run[h].sub].status
            <3>1. CASE Retrieve(h)
                  BY <3>1 DEF Retrieve, At, WebhookSteps
            <3>2. CASE BySub(h) \/ ByCustomer(h) \/ ByUser(h)
                  BY <3>2 DEF BySub, ByCustomer, ByUser, Move, MoveWith, At, WebhookSteps
            <3>3. CASE FindFailed(h) /\ ~Ack(h)
                  BY <3>3 DEF FindFailed, MoveWith, At
            <3> QED BY <1>5, <3>1, <3>2, <3>3
      <2>3. /\ \A i \in Handlers \ {h} : run'[i] = run[i]
            /\ run'[h].event = run[h].event /\ run'[h].sub = run[h].sub
            /\ run'[h].at = at /\ run'[h].status = st
            BY <1>2, <2>2 DEF Proceed
      <2> QED BY <1>3, <2>1, <2>2, <2>3 DEF WebhookSteps
<1>6. ASSUME NEW h \in Handlers, NEW e \in 1..Len(events), Receive(h, e) PROVE TierInv'
      <2>1. /\ UNCHANGED feed /\ UNCHANGED <<row, stripe>>
            /\ e \notin acked /\ (\A d \in 1..(e - 1) : d \in acked) /\ \A i \in Handlers : run[i].event = 0
            BY <1>1, <1>6 DEF Receive, Deliverable, account
      <2>2. /\ \A i \in Handlers \ {h} : run'[i] = run[i]
            /\ run'[h].event = e /\ run'[h].sub = events[e].sub /\ run'[h].status = events[e].status
            /\ run'[h].at = CASE events[e].type = "completed" -> "retrieve"
                              [] events[e].type = "changed" -> "bySub"
                              [] events[e].type = "failed" -> "failed"
            BY <1>2, <1>6 DEF Receive
      <2>3. events[e] \in Event /\ e # 0 /\ e \in Nat
            BY <1>2 DEF Records
      <2>4. /\ run'[h].at \in WebhookSteps => events[e].type # "failed"
            /\ run'[h].at \in {"failed", "pastDue"} => events[e].type = "failed"
            BY <2>2, <2>3 DEF Event, WebhookSteps
      <2>5. InOrder'
            BY <1>1, <2>1, <2>2, <2>3, <2>4 DEF InOrder, feed
      <2>6. \A s \in Subscriptions : Pending(s)' = Pending(s)
            BY <2>1, KeepsPending
      <2>7. Deserved' /\ Newest'
            BY <1>1, <1>2, <2>1, <2>6, KeepsDeserved DEF Newest, feed
      <2>8. ASSUME run'[h].at \in WebhookSteps, \A d \in Pending(events[e].sub) : d = e
            PROVE  events[e].status = stripe[events[e].sub].status
            <3>1. e \in Pending(events[e].sub) /\ events[e].sub \in Subscriptions
                  BY <2>1, <2>3, <2>4, <2>8 DEF Pending, Event
            <3> QED BY <1>1, <2>3, <2>8, <3>1 DEF Newest
      <2>9. HandNewest'
            <3>1. \A i \in Handlers \ {h} : run[i].at \notin WebhookSteps
                  BY <1>1, <2>1 DEF InOrder
            <3>2. events[e].sub \in Subscriptions
                  BY <2>3 DEF Event
            <3>3. ASSUME NEW i \in Handlers, run'[i].at \in WebhookSteps \ {"retrieve"},
                         \A d \in Pending(run[i].sub)' : d = run'[i].event
                  PROVE  run'[i].status = stripe'[run'[i].sub].status
                  <4>1. i = h /\ run'[i].sub = events[e].sub /\ run'[i].event = e
                        BY <2>2, <3>1, <3>3
                  <4>2. \A d \in Pending(events[e].sub) : d = e
                        BY <2>6, <3>2, <3>3, <4>1
                  <4>3. events[e].status = stripe[events[e].sub].status
                        BY <2>8, <3>3, <4>1, <4>2
                  <4> QED BY <2>1, <2>2, <4>1, <4>3
            <3> QED BY <3>3 DEF HandNewest
      <2> QED BY <2>5, <2>7, <2>9 DEF TierInv
<1>7. ASSUME NEW h \in Handlers, Sync(h) PROVE TierInv'
      <2> DEFINE s == run[h].sub
                 u == run[h].user
      <2>1. /\ run[h].at = "sync" /\ Ack(h) /\ UNCHANGED account /\ stripe' = stripe
            BY <1>7 DEF Sync, At, account
      <2>2. /\ s \in Subscriptions /\ u \in Users /\ stripe[s].user = u /\ Exists(s)
            /\ run[h].event # 0
            BY <1>1, <1>2, <2>1 DEF Hands, At, InOrder, WebhookSteps, Own, OwnHands, Exists, StripeStatuses
      <2>3. /\ row'[u].tier = (IF run[h].status \in PremiumStatuses THEN "PREMIUM" ELSE "FREE")
            /\ \A v \in Users \ {u} : row'[v] = row[v]
            BY <1>2, <1>7, <2>2 DEF Sync
      <2> HIDE DEF s, u
      <2>4. /\ InOrder' /\ Newest' /\ HandNewest'
            /\ \A t \in Subscriptions : Pending(t)' = Pending(t) \ {run[h].event}
            BY <1>1, <2>1, <2>2, Acks, AcksNewest
      <2>5. ASSUME NEW t \in Subscriptions, OneSubscriptionEach, Exists(t), Pending(t)' = {}
            PROVE  row'[stripe[t].user].tier = "PREMIUM" <=> stripe[t].status \in PremiumStatuses
            <3>1. CASE t = s
                  <4>1. \A d \in Pending(s) : d = run[h].event
                        BY <2>4, <2>5, <3>1
                  <4>2. run[h].status = stripe[s].status
                        BY <1>1, <2>1, <4>1 DEF HandNewest, WebhookSteps, s
                  <4> QED BY <2>2, <2>3, <3>1, <4>2
            <3>2. CASE t # s
                  <4>1. stripe[t].user # u /\ stripe[t].user \in Users
                        BY <1>2, <2>2, <2>5, <3>2 DEF OneSubscriptionEach, Records
                  <4>2. Pending(t) = {}
                        <5>1. events[run[h].event].sub = s
                              BY <1>1, <2>2 DEF InOrder, s
                        <5>2. run[h].event \notin Pending(t)
                              BY <3>2, <5>1 DEF Pending
                        <5> QED BY <2>4, <2>5, <5>2
                  <4> QED BY <1>1, <2>3, <2>5, <4>1, <4>2 DEF Deserved
            <3> QED BY <3>1, <3>2
      <2>6. Deserved'
            BY <2>1, <2>5 DEF Deserved, OneSubscriptionEach, Exists
      <2> QED BY <2>4, <2>6 DEF TierInv
<1>8. ASSUME NEW h \in Handlers, MarkPastDue(h) \/ (FindFailed(h) /\ Ack(h)) PROVE TierInv'
      <2>1. Ack(h) /\ run[h].at \in {"failed", "pastDue"} /\ stripe' = stripe
            BY <1>8 DEF MarkPastDue, FindFailed, At, account
      <2>2. run[h].event # 0 /\ events[run[h].event].type = "failed"
            BY <1>1, <2>1 DEF InOrder
      <2>3. /\ InOrder' /\ Newest' /\ HandNewest'
            /\ \A t \in Subscriptions : Pending(t)' = Pending(t) \ {run[h].event}
            BY <1>1, <2>1, <2>2, Acks, AcksNewest
      <2>4. \A t \in Subscriptions : Pending(t)' = Pending(t)
            <3>1. \A t \in Subscriptions : run[h].event \notin Pending(t)
                  BY <2>2 DEF Pending
            <3> QED BY <2>3, <3>1
      <2>5. \A v \in Users : row'[v].tier = row[v].tier
            <3>1. CASE MarkPastDue(h)
                  <4>1. /\ row' = [row EXCEPT ![run[h].user] = [row[run[h].user] EXCEPT !.status = "PAST_DUE"]]
                        /\ run[h].user \in Users
                        BY <1>2, <3>1 DEF MarkPastDue, Hands, At
                  <4> QED BY <1>2, <4>1 DEF Row
            <3>2. CASE FindFailed(h)
                  BY <3>2 DEF FindFailed
            <3> QED BY <1>8, <3>1, <3>2
      <2>6. Deserved'
            BY <1>1, <1>2, <2>1, <2>4, <2>5, KeepsDeserved
      <2> QED BY <2>3, <2>6 DEF TierInv
\* A subscription comes to be or changes, and the event that says so is sent.
<1>9. ASSUME NEW s \in Subscriptions, NEW type \in {"completed", "changed"}, NEW st, Emit(type, s, st),
             UNCHANGED <<row, run>>, stripe'[s].status = st,
             \A t \in Subscriptions \ {s} : stripe'[t] = stripe[t],
             Exists(s) => stripe'[s].user = stripe[s].user, st # "none"
      PROVE  TierInv'
      <2> DEFINE n == Len(events) + 1
      <2>1. /\ InOrder' /\ Len(events) \in Nat
            /\ \A e \in 1..Len(events) : events'[e] = events[e]
            /\ events'[n].status = st
            /\ \A t \in Subscriptions : t # s => Pending(t)' = Pending(t)
            /\ Pending(s)' = Pending(s) \cup {n}
            /\ \A t \in Subscriptions : \A d \in Pending(t) : d \in Nat /\ d <= Len(events)
            <3> HIDE DEF n
            <3>1. InOrder /\ Emit(type, s, st) /\ UNCHANGED run /\ type # "failed"
                  BY <1>1, <1>9
            <3>2. /\ InOrder' /\ Len(events) \in Nat
                  /\ \A e \in 1..Len(events) : events'[e] = events[e]
                  /\ events'[Len(events) + 1] = [type |-> type, sub |-> s, status |-> st]
                  /\ \A t \in Subscriptions : t # s => Pending(t)' = Pending(t)
                  /\ Pending(s)' = Pending(s) \cup {Len(events) + 1}
                  /\ \A t \in Subscriptions : \A d \in Pending(t) : d \in Nat /\ d <= Len(events)
                  BY <3>1, Emits
            <3> QED BY <3>2 DEF n
      <2>2. n \in Nat /\ n > Len(events)
            BY <2>1
      <2> HIDE DEF n
      <2>3. Newest'
            <3>1. ASSUME NEW t \in Subscriptions, NEW e \in Pending(t)', \A d \in Pending(t)' : d <= e
                  PROVE  events'[e].status = stripe'[t].status
                  <4>1. CASE t # s
                        <5>1. e \in Pending(t) /\ \A d \in Pending(t) : d <= e
                              BY <2>1, <3>1, <4>1
                        <5>2. e \in 1..Len(events)
                              BY <5>1 DEF Pending
                        <5> QED BY <1>1, <1>9, <2>1, <4>1, <5>1, <5>2 DEF Newest
                  <4>2. CASE t = s
                        <5>1. e = n
                              BY <2>1, <2>2, <3>1, <4>2
                        <5> QED BY <1>9, <2>1, <4>2, <5>1
                  <4> QED BY <4>1, <4>2
            <3> QED BY <3>1 DEF Newest
      <2>4. HandNewest'
            <3>1. run' = run
                  BY <1>9
            <3>2. ASSUME NEW h \in Handlers, run[h].at \in WebhookSteps \ {"retrieve"},
                         \A d \in Pending(run[h].sub)' : d = run[h].event
                  PROVE  run[h].status = stripe'[run[h].sub].status
                  <4>1. run[h].sub \in Subscriptions /\ run[h].event \in 1..Len(events)
                        BY <1>2, <3>2 DEF Hands, WebhookSteps
                  <4>2. run[h].sub # s
                        <5>1. ASSUME run[h].sub = s PROVE FALSE
                              <6>1. n \in Pending(run[h].sub)'
                                    BY <2>1, <3>1, <5>1
                              <6>2. n = run[h].event
                                    BY <3>2, <6>1
                              <6> QED BY <2>1, <2>2, <4>1, <6>2
                        <5> QED BY <5>1
                  <4>3. \A d \in Pending(run[h].sub) : d = run[h].event
                        BY <2>1, <3>2, <3>1, <4>1, <4>2
                  <4> QED BY <1>1, <1>9, <3>2, <4>1, <4>2, <4>3 DEF HandNewest
            <3> QED BY <3>1, <3>2 DEF HandNewest
      <2>5. Deserved'
            <3>1. OneSubscriptionEach' => OneSubscriptionEach
                  BY <1>9 DEF OneSubscriptionEach, Exists
            <3>2. Pending(s)' # {}
                  BY <2>1
            <3> QED BY <1>1, <1>9, <2>1, <3>1, <3>2 DEF Deserved, Exists
      <2> QED BY <2>1, <2>3, <2>4, <2>5 DEF TierInv
<1>10. ASSUME NEW u \in Users, NEW c \in Customers, NEW s \in Subscriptions, NEW st \in StripeStatuses,
              Complete(u, c, s, st)
       PROVE  TierInv'
      <2>1. /\ Emit("completed", s, st) /\ UNCHANGED <<row, run>>
            /\ stripe' = [stripe EXCEPT ![s] = [status |-> st, customer |-> c, user |-> u]] /\ ~Exists(s)
            BY <1>10 DEF Complete
      <2>2. stripe'[s].status = st /\ \A t \in Subscriptions \ {s} : stripe'[t] = stripe[t]
            BY <1>2, <2>1
      <2>3. st # "none"
            BY DEF StripeStatuses
      <2> QED BY <1>9, <2>1, <2>2, <2>3
<1>11. ASSUME NEW s \in Subscriptions, NEW st \in StripeStatuses, Change(s, st) PROVE TierInv'
      <2>1. /\ Emit("changed", s, st) /\ UNCHANGED <<row, run>>
            /\ stripe' = [stripe EXCEPT ![s] = [stripe[s] EXCEPT !.status = st]]
            BY <1>11 DEF Change
      <2>2. /\ stripe'[s].status = st /\ stripe'[s].user = stripe[s].user
            /\ \A t \in Subscriptions \ {s} : stripe'[t] = stripe[t]
            BY <1>2, <2>1 DEF StripeSub
      <2>3. st # "none"
            BY DEF StripeStatuses
      <2> QED BY <1>9, <2>1, <2>2, <2>3
<1>12. ASSUME NEW s \in Subscriptions, PaymentFails(s) PROVE TierInv'
      <2>1. Emit("failed", s, stripe[s].status) /\ UNCHANGED <<row, run, stripe>>
            BY <1>12 DEF PaymentFails, account
      <2>2. /\ InOrder' /\ \A e \in 1..Len(events) : events'[e] = events[e]
            /\ \A t \in Subscriptions : Pending(t)' = Pending(t)
            BY <1>1, <2>1, Emits
      <2>3. Newest'
            <3>1. \A t \in Subscriptions : \A e \in Pending(t) : events'[e] = events[e]
                  BY <2>2 DEF Pending
            <3> QED BY <1>1, <2>1, <2>2, <3>1 DEF Newest
      <2>4. HandNewest'
            <3>1. \A h \in Handlers : run[h].at \in WebhookSteps => run[h].sub \in Subscriptions
                  BY <1>2 DEF Hands, WebhookSteps
            <3> QED BY <1>1, <2>1, <2>2, <3>1 DEF HandNewest
      <2>5. Deserved'
            BY <1>1, <1>2, <2>1, <2>2, KeepsDeserved
      <2> QED BY <2>2, <2>3, <2>4, <2>5 DEF TierInv
<1>13. CASE UNCHANGED vars
      <2>1. UNCHANGED <<row, stripe, events, acked, delivery, run>> /\ UNCHANGED feed
            BY <1>13 DEF vars, feed
      <2>2. \A s \in Subscriptions : Pending(s)' = Pending(s)
            BY <2>1, KeepsPending
      <2>3. \A h \in Handlers : run[h].at \in WebhookSteps => run[h].sub \in Subscriptions
            BY <1>2 DEF Hands, WebhookSteps
      <2>4. InOrder' /\ Newest'
            BY <1>1, <2>1, <2>2 DEF InOrder, Newest
      <2>5. HandNewest'
            BY <1>1, <2>1, <2>2, <2>3 DEF HandNewest
      <2> QED BY <1>1, <1>2, <2>1, <2>2, <2>4, <2>5, KeepsDeserved DEF TierInv
<1> QED BY <1>4, <1>5, <1>6, <1>7, <1>8, <1>10, <1>11, <1>12, <1>13 DEF Next, Step

\* billing.service.ts, handleWebhook(): when Stripe sends its events in order and
\* each user has one subscription, the tier is what that subscription deserves as
\* soon as all that happened to it is acknowledged, whichever lookup found the row
\* and however often a handler failed and was sent the event again.
THEOREM TierFollows == Spec => []TierFollowsStripe
<1>1. Init => TierInv
      <2> SUFFICES ASSUME Init PROVE TierInv
          OBVIOUS
      <2>1. \A h \in Handlers : run[h].event = 0 /\ run[h].at = "idle"
            BY DEF Init, Resting
      <2>2. \A s \in Subscriptions : Pending(s) = {} /\ ~Exists(s)
            BY DEF Init, Pending, Exists
      <2> QED BY <2>1, <2>2 DEF TierInv, InOrder, Newest, HandNewest, Deserved, WebhookSteps
<1>2. TypeInv /\ Own /\ TierInv => TierFollowsStripe
      <2> SUFFICES ASSUME TypeInv, Own, Deserved, OneSubscriptionEach PROVE TierIsStripes
          BY DEF TierInv, TierFollowsStripe
      <2>1. ASSUME NEW s \in Subscriptions, Settled(s)
            PROVE  /\ stripe[s].user \in Users
                   /\ row[stripe[s].user].tier = "PREMIUM" <=> stripe[s].status \in PremiumStatuses
            <3>1. Pending(s) = {} /\ Exists(s)
                  BY <2>1 DEF Settled, Pending
            <3> QED BY <3>1 DEF Deserved, TypeInv, Records
      <2>2. ASSUME NEW u \in Users, row[u].tier = "PREMIUM", Settled(row[u].sub)
            PROVE  stripe[row[u].sub].status \in PremiumStatuses
            <3>1. row[u].sub \in Subscriptions
                  BY <2>2 DEF Own, OwnRows, PremiumWasPaid, TypeInv, TypeOK
            <3>2. stripe[row[u].sub].user = u
                  BY <3>1, ConstantsAssumption DEF Own, OwnRows, RowsAreOwn
            <3> QED BY <2>1, <2>2, <3>1, <3>2
      <2> QED BY <2>1, <2>2 DEF TierIsStripes
<1> QED BY <1>1, <1>2, TierStep, OwnInit, OwnStep, Typed, PTL DEF Spec
=============================================================================

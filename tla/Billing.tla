------------------------------ MODULE Billing -------------------------------
(***************************************************************************)
(* One school's subscription: the row that the webhook keeps and what      *)
(* Stripe sends (api/app/routers/billing.py).  Stripe is external: it      *)
(* makes an event of every change and delivers each one at least once, in  *)
(* any order and more than once, until it is answered 200.  A status of    *)
(* a subscription is the number of the event that set it: that tells apart *)
(* all that the statuses, periods and prices could.  (A column that has    *)
(* the value already is not written; the model writes it, which only       *)
(* requests that overlap can tell.)                                        *)
(***************************************************************************)
EXTENDS Integers, Sequences

CONSTANTS
  Hooks,      \* webhook requests at work at the same time
  MaxEvents,  \* bound: changes at Stripe
  MaxSubs,    \* bound: subscriptions the school has paid for, one after another
  MaxAgain,   \* bound: deliveries of an event that was answered before
  NoRow

BillingAssumption ==
  {MaxEvents, MaxSubs, MaxAgain} \subseteq Nat /\ NoRow \notin [sub : Nat, status : Nat]

VARIABLES
  events,    \* what happened at Stripe: kind, subscription
  row,       \* the subscriptions row: stripe_subscription_id and status
  hook,      \* each webhook request: where it is, its event, what it read
  answered,  \* events answered 200
  again,     \* events delivered again
  overlap    \* history: two webhook requests were at work at the same time

vars == <<events, row, hook, answered, again, overlap>>

Idle == [at |-> "idle", event |-> 0, seen |-> NoRow, status |-> 0]

Init ==
  /\ events = <<>> /\ row = NoRow /\ answered = {} /\ again = 0 /\ overlap = FALSE
  /\ hook = [h \in Hooks |-> Idle]

Of(s) == {e \in DOMAIN events : events[e].sub = s}
Ended(s) == \E e \in Of(s) : events[e].kind = "deleted"
LastOf(s) == CHOOSE e \in Of(s) : \A f \in Of(s) : f <= e
Subs == {events[e].sub : e \in DOMAIN events}

Happens(kind, s) ==
  /\ Len(events) < MaxEvents
  /\ events' = Append(events, [kind |-> kind, sub |-> s])
  /\ UNCHANGED <<row, hook, answered, again, overlap>>

\* create_checkout, and the customer pays; a subscription is updated, in its
\* status or period, and ends, at Stripe or through create_portal.
Checkout == \E s \in 1 .. MaxSubs : Subs = 1 .. s - 1 /\ Happens("completed", s)
Update == \E s \in Subs : ~Ended(s) /\ Happens("updated", s)
Delete == \E s \in Subs : ~Ended(s) /\ Happens("deleted", s)

\* Variant: a row of another subscription is found too.
Finds_any(e) == row # NoRow

\* The row is looked for by the school for a checkout, else by subscription.
Finds(e) == row # NoRow /\ (events[e].kind = "completed" \/ row.sub = events[e].sub)

\* stripe_webhook, up to its query; without a row to change it is done.
Receive(h, e) ==
  /\ hook[h] = Idle
  /\ IF e \in answered THEN again < MaxAgain /\ again' = again + 1 ELSE UNCHANGED again
  /\ LET seen == IF Finds(e) THEN row ELSE NoRow
         at == IF events[e].kind = "completed" THEN "retrieve" ELSE IF Finds(e) THEN "commit" ELSE "done" IN
     hook' = [hook EXCEPT ![h] = [at |-> at, event |-> e, seen |-> seen, status |-> e]]
  /\ overlap' = (overlap \/ \E g \in Hooks : hook[g] # Idle)
  /\ UNCHANGED <<events, row, answered>>

\* A checkout asks Stripe for the subscription as it is now.
Retrieve(h) ==
  /\ hook[h].at = "retrieve"
  /\ hook' = [hook EXCEPT ![h].at = "commit", ![h].status = LastOf(events[hook[h].event].sub)]
  /\ UNCHANGED <<events, row, answered, again, overlap>>

SubOf(c) == IF events[c.event].kind = "completed" THEN events[c.event].sub ELSE row.sub

\* A checkout that read no row inserts one: school_id is unique.
Commit(h) ==
  LET c == hook[h] IN
  /\ c.at = "commit"
  /\ IF c.seen = NoRow /\ row # NoRow
     THEN hook' = [hook EXCEPT ![h] = Idle] /\ UNCHANGED row
     ELSE /\ row' = [sub |-> SubOf(c), status |-> c.status]
          /\ hook' = [hook EXCEPT ![h].at = "done"]
  /\ UNCHANGED <<events, answered, again, overlap>>

Answer(h) ==
  /\ hook[h].at = "done"
  /\ answered' = answered \cup {hook[h].event}
  /\ hook' = [hook EXCEPT ![h] = Idle]
  /\ UNCHANGED <<events, row, again, overlap>>

\* The process stops before it answers.
Stop(h) ==
  /\ hook[h] # Idle
  /\ hook' = [hook EXCEPT ![h] = Idle]
  /\ UNCHANGED <<events, row, answered, again, overlap>>

Next ==
  \/ Checkout \/ Update \/ Delete
  \/ \E h \in Hooks :
       \/ Retrieve(h) \/ Commit(h) \/ Answer(h) \/ Stop(h)
       \/ \E e \in DOMAIN events : Receive(h, e)

Spec == Init /\ [][Next]_vars

-----------------------------------------------------------------------------
TypeOK ==
  /\ events \in Seq([kind : {"completed", "updated", "deleted"}, sub : 1 .. MaxSubs])
  /\ row = NoRow \/ row \in [sub : 1 .. MaxSubs, status : 1 .. MaxEvents]
  /\ answered \subseteq DOMAIN events /\ again \in 0 .. MaxAgain /\ overlap \in BOOLEAN
  /\ hook \in [Hooks -> [at : {"idle", "retrieve", "commit", "done"}, event : 0 .. MaxEvents,
                         seen : {NoRow} \cup [sub : 1 .. MaxSubs, status : 1 .. MaxEvents],
                         status : 0 .. MaxEvents]]

\* However late, often and out of order events arrive, the status that is
\* stored is one that the stored subscription has had, never that of another
\* subscription of the school: only requests that overlap mix two.
StatusOfItsSubscription ==
  row # NoRow /\ ~overlap => events[row.status].sub = row.sub

\* Once every event has been answered, a school that paid has a row: no order
\* of delivery, no stop and no collision of two inserts loses it.
PaidIsStored ==
  events # <<>> /\ answered = DOMAIN events => row # NoRow

\* The stored subscription is one that was paid for, with a status it had.
SubscriptionKept == StatusOfItsSubscription /\ PaidIsStored
=============================================================================

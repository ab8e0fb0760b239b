----------------------------- MODULE MCAutomation -----------------------------
(* The worker's loops and the shop for TLC, each in parts of its own: the   *)
(* modules share no state.  Outside its part nothing of a module is due, so *)
(* that its fairness asks for no step.                                      *)
EXTENDS Recurring, Shop, FieldService, Reminders, TLC

VARIABLE part

MCRhythms == {<<"MONTHLY", 1>>, <<"WEEKLY", 2>>}
MCFirstDates == {<<0, 31>>}
MCEndDates == {Never, <<2, 31>>}
MCCalendar == << <<0, 20>>, <<0, 31>>, <<2, 31>>, <<4, 31>> >>

MCInit ==
    /\ RecurringInit /\ ShopInit /\ FieldInit /\ RemindersInit
    /\ part \in {"recurring", "loops", "cart", "order", "maintenance", "reminder", "reminders"}
    /\ \A p \in Products : priceOf[p] = 1
    /\ part # "maintenance" => \A a \in Assets : asset[a] = "ACTIVE"
    /\ \A b \in Bills : due[b] = 1
    /\ part # "reminder" => settings = [enabled |-> TRUE, after |-> 0, every |-> 2, max |-> 2]
    /\ CASE part = "reminder"  -> \E b \in Bills : open = {b}
         [] part = "reminders" -> open = Bills
         [] OTHER              -> open = {}

RestUnchanged == UNCHANGED <<recurringVars, fieldVars>>

\* One worker of the recurring invoices with users around it; then two of them.
Works(w) == part = "loops" \/ w = CHOOSE v \in RecurringWorkers : TRUE

\* Carts in full, one of them of one piece; then one small order with the team at
\* work on it. Maintenance with one change while the clocks
\* differ, as they may on the first days. Reminders of one
\* invoice with everything around them, then of two.
MCNext ==
    /\ UNCHANGED part
    /\ \/ /\ part = "recurring" /\ RecurringNext /\ UNCHANGED <<shopVars, fieldVars, reminderVars>>
          /\ \A w \in RecurringWorkers : ~Works(w) => worker'[w] = Idle
       \/ /\ part = "loops" /\ RecurringNext /\ UNCHANGED <<shopVars, fieldVars, reminderVars>>
          /\ toggles' = 0 /\ day' <= 3
          /\ \A s \in Schedules : LET r == schedule'[s] IN r.state # "gone" /\ r.end = Never /\ r.rhythm[1] = "MONTHLY" /\ ~r.finalize
       \/ /\ part = "cart" /\ ShopNext /\ RestUnchanged /\ UNCHANGED reminderVars
          /\ clerk' = clerk /\ \A v \in Visitors : order'[v].status \in {"none", "NEW"}
          /\ \A v \in Visitors : salesOrder'[v].status \in {"none", "DRAFT"} /\ edited' = {}
          /\ Cardinality({v \in Visitors : \E l \in visitor'[v].lines : visitor'[v].lines # {l} \/ l.qty # 1}) <= 1
       \/ /\ part = "order" /\ ShopNext /\ RestUnchanged /\ UNCHANGED reminderVars
          /\ UNCHANGED <<enabled, published, priceOf>>
          /\ \A v \in Visitors, l \in Line : l \in salesOrder'[v].lines => l.qty = 1 /\ l.price = 1
          /\ Cardinality({v \in Visitors : visitor'[v].at # "away"}) <= 1
          /\ \A v \in Visitors : Cardinality(visitor'[v].lines) <= 1
          /\ \A v \in Visitors : \A l \in visitor'[v].lines : l.qty = 1 /\ l.product = CHOOSE q \in Products : TRUE
       \/ /\ part = "maintenance" /\ FieldNext /\ UNCHANGED <<recurringVars, shopVars, reminderVars>>
          /\ \A i, j \in DOMAIN incident' : incident'[i].plan = Manual /\ incident'[j].plan = Manual => i = j
          /\ utc' # date' => changes' <= 1 /\ date' <= 2
       \/ /\ part = "reminder" /\ RemindersNext /\ RestUnchanged /\ UNCHANGED shopVars
          /\ losses' + saved' <= 1
          /\ \A i \in DOMAIN links' : i > 1 => ~links'[i].revoked /\ links'[i].views = 0
       \/ /\ part = "reminders" /\ RemindersNext /\ RestUnchanged /\ UNCHANGED shopVars
          /\ settings' = settings /\ losses' + Cardinality(Bills \ open') <= 1
          /\ \A i \in DOMAIN links' : ~links'[i].revoked /\ links'[i].views = 0

MCSpec ==
    /\ MCInit /\ [][MCNext]_<<recurringVars, shopVars, fieldVars, reminderVars, part>>
    /\ \A w \in RecurringWorkers : WF_recurringVars(Works(w) /\ RunStep(w))
    /\ FieldFairness /\ RemindersFairness

\* What the loops owe is done in the end: invoices, maintenance, reminders.
EventuallyDone == EventuallyInvoiced /\ EventuallyMoved /\ EventuallyReminded
=============================================================================

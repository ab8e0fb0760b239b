------------------------------- MODULE Webhooks -------------------------------
(***************************************************************************)
(* Webhooks: internal/modules/webhooks, fed by the events of EInvoice.     *)
(*                                                                         *)
(* Two hops over the outbox (service.go:1-20).  The handler of a source    *)
(* event queues one delivery per subscribed endpoint; the handler of a     *)
(* delivery posts it, writes a log row and succeeds, fails, or gives up.   *)
(* The log row and the poller's mark commit together after the post, so a  *)
(* worker that dies in between has posted without trace.                   *)
(***************************************************************************)
EXTENDS EInvoice

CONSTANTS
    Endpoints,      \* webhook_endpoints that may be registered
    NoDelivery,
    MaxAttempts,    \* maxDeliveryAttempts (8 in the code)
    MaxDown         \* bound: how often a receiver fails

ASSUME WebhooksAssumption ==
    /\ MaxAttempts \in Nat \ {0} /\ MaxDown \in Nat
    /\ NoDelivery \notin (Outcomes \X Docs) \X Endpoints

VARIABLES
    endpoint,   \* webhook_endpoints: is_active, subscribed_events
    fanned,     \* source events whose handler is done
    delivery,   \* outbox rows of type webhook.delivery, by <<source, endpoint>>
    attempts,   \* their attempts column, counted at the claim
    logged,     \* webhook_deliveries: rows that say succeeded, and that do not
    sending,    \* what each worker delivers, and whether the receiver said 2xx
    received,   \* external: posts that reached the receiver
    down        \* history: posts that failed

hookVars == <<endpoint, fanned, delivery, attempts, logged, sending, received, down>>
filingVars == <<irnVars, hookVars>>

Sources == Outcomes \X Docs
Deliveries == Sources \X Endpoints
NoSend == [of |-> NoDelivery, ok |-> "unsent"]

WebhooksTypeOK ==
    /\ endpoint \in [Endpoints -> [state : {"none", "active", "inactive"},
                                   events : SUBSET Outcomes]]
    /\ fanned \subseteq announced
    /\ delivery \in [Deliveries -> {"absent", "open", "stuck", "done", "dead"}]
    /\ attempts \in [Deliveries -> 0..MaxAttempts]
    /\ logged \in [Deliveries -> [good : Nat, bad : Nat]]
    /\ sending \in [IrnWorkers -> [of : Deliveries \cup {NoDelivery}, ok : {"unsent", "yes", "no"}]]
    /\ received \in [Deliveries -> Nat]
    /\ down \in 0..MaxDown

WebhooksInit ==
    /\ endpoint = [e \in Endpoints |-> [state |-> "none", events |-> {}]]
    /\ fanned = {}
    /\ delivery = [x \in Deliveries |-> "absent"]
    /\ attempts = [x \in Deliveries |-> 0]
    /\ logged = [x \in Deliveries |-> [good |-> 0, bad |-> 0]]
    /\ sending = [w \in IrnWorkers |-> NoSend]
    /\ received = [x \in Deliveries |-> 0]
    /\ down = 0

-----------------------------------------------------------------------------
(* Endpoints *)

RegisterEndpoint(e, types) ==
    /\ endpoint[e].state = "none" /\ types # {}
    /\ endpoint' = [endpoint EXCEPT ![e] = [state |-> "active", events |-> types]]
    /\ UNCHANGED <<fanned, delivery, attempts, logged, sending, received, down>>

DeactivateEndpoint(e) ==
    /\ endpoint[e].state = "active"
    /\ endpoint' = [endpoint EXCEPT ![e].state = "inactive"]
    /\ UNCHANGED <<fanned, delivery, attempts, logged, sending, received, down>>

-----------------------------------------------------------------------------
(* Fan-out *)

\* Variant: every active endpoint gets every event.
ListAll(type) == {e \in Endpoints : endpoint[e].state = "active"}

ListSubscribed(type) ==
    {e \in Endpoints : endpoint[e].state = "active" /\ type \in endpoint[e].events}

\* HandlerForSourceEvent: all deliveries, and the source's DONE, in one commit.
FanOut(s) ==
    /\ s \in announced \ fanned
    /\ fanned' = fanned \cup {s}
    /\ delivery' = [x \in Deliveries |->
         IF x[1] = s /\ x[2] \in ListSubscribed(s[1]) /\ delivery[x] = "absent"
         THEN "open" ELSE delivery[x]]
    /\ UNCHANGED <<endpoint, attempts, logged, sending, received, down>>

-----------------------------------------------------------------------------
(* Delivery *)

\* Variant: what failed once is not claimed again.
StartFirst(w, x) ==
    /\ call[w].pc = "idle" /\ sending[w] = NoSend
    /\ delivery[x] = "open" /\ attempts[x] = 0
    /\ \A v \in IrnWorkers : sending[v].of # x
    /\ attempts' = [attempts EXCEPT ![x] = @ + 1]
    /\ sending' = [sending EXCEPT ![w] = [of |-> x, ok |-> "unsent"]]
    /\ UNCHANGED <<endpoint, fanned, delivery, logged, received, down>>

\* The claim counts the attempt; the endpoint is loaded by id, active or not.
StartDelivery(w, x) ==
    /\ call[w].pc = "idle" /\ sending[w] = NoSend
    /\ delivery[x] = "open"
    /\ \A v \in IrnWorkers : sending[v].of # x
    /\ attempts' = [attempts EXCEPT ![x] = @ + 1]
    /\ sending' = [sending EXCEPT ![w] = [of |-> x, ok |-> "unsent"]]
    /\ UNCHANGED <<endpoint, fanned, delivery, logged, received, down>>

\* post: the receiver gets it and answers 2xx.
PostArrives(w) ==
    /\ sending[w].of # NoDelivery /\ sending[w].ok = "unsent"
    /\ received' = [received EXCEPT ![sending[w].of] = @ + 1]
    /\ sending' = [sending EXCEPT ![w].ok = "yes"]
    /\ UNCHANGED <<endpoint, fanned, delivery, attempts, logged, down>>

\* post: refused, timed out before it arrived, or arrived without an answer.
PostFails(w) ==
    LET x == sending[w].of IN
    /\ x # NoDelivery /\ sending[w].ok = "unsent"
    /\ down < MaxDown
    /\ down' = down + 1
    /\ received' \in {received, [received EXCEPT ![x] = @ + 1]}
    /\ sending' = [sending EXCEPT ![w].ok = "no"]
    /\ UNCHANGED <<endpoint, fanned, delivery, attempts, logged>>

\* Variant: a log row that says succeeded does not end the delivery.
OutcomeLogged(x, ok) ==
    IF ok = "yes" /\ logged[x].bad = 0 THEN "done"
    ELSE IF attempts[x] >= MaxAttempts THEN "dead" ELSE "open"

\* DeliverHandler's answer: nil, a Permanent error, or an error.
Outcome(x, ok) ==
    IF ok = "yes" THEN "done" ELSE IF attempts[x] >= MaxAttempts THEN "dead" ELSE "open"

\* The log row and the poller's mark.
LogDelivery(w) ==
    LET x == sending[w].of  ok == sending[w].ok IN
    /\ x # NoDelivery /\ ok # "unsent"
    /\ logged' = IF ok = "yes" THEN [logged EXCEPT ![x].good = @ + 1]
                               ELSE [logged EXCEPT ![x].bad = @ + 1]
    /\ delivery' = [delivery EXCEPT ![x] = Outcome(x, ok)]
    /\ sending' = [sending EXCEPT ![w] = NoSend]
    /\ UNCHANGED <<endpoint, fanned, attempts, received, down>>

\* The worker dies with the delivery claimed: the row stays PROCESSING.
LoseDelivery(w) ==
    /\ sending[w].of # NoDelivery
    /\ cut < MaxCut
    /\ cut' = cut + 1
    /\ delivery' = [delivery EXCEPT ![sending[w].of] = "stuck"]
    /\ sending' = [sending EXCEPT ![w] = NoSend]
    /\ UNCHANGED <<endpoint, fanned, attempts, logged, received, down>>
    /\ UNCHANGED <<entity, irn, irnJob, call, registered, announced, trouble>>

HookWork(w) ==
    \/ \E s \in Sources : FanOut(s)
    \/ \E x \in Deliveries : StartDelivery(w, x)
    \/ PostArrives(w)
    \/ LogDelivery(w)

HookNext ==
    \/ \E e \in Endpoints :
         \/ \E types \in SUBSET Outcomes : RegisterEndpoint(e, types)
         \/ DeactivateEndpoint(e)
    \/ \E w \in IrnWorkers : HookWork(w) \/ PostFails(w)

FilingInit == EInvoiceInit /\ WebhooksInit

\* A worker that delivers runs no other handler: it has one transaction at a time.
FilingNext ==
    \/ /\ EInvoiceNext
       /\ \A w \in IrnWorkers : sending[w] # NoSend => UNCHANGED call[w]
       /\ UNCHANGED hookVars
    \/ HookNext /\ UNCHANGED irnVars
    \/ \E w \in IrnWorkers : LoseDelivery(w)

\* The workers never stop polling, and an event in its backoff leaves them to
\* the others: no delivery is passed over for ever (SF).
WebhooksFairness ==
    \A w \in IrnWorkers : SF_filingVars(HookWork(w) /\ UNCHANGED irnVars)
-----------------------------------------------------------------------------
(* Properties *)

\* What the log says of a delivery (service.go:192-213): it is done exactly
\* when one row says succeeded, rows never outnumber attempts, and the receiver
\* was reached at least as often as the log says, at most as often as tried.
DeliveredAsLogged ==
    \A x \in Deliveries :
        /\ logged[x].good = IF delivery[x] = "done" THEN 1 ELSE 0
        /\ logged[x].good <= received[x] /\ received[x] <= attempts[x]
        /\ logged[x].good + logged[x].bad <= attempts[x]
        /\ delivery[x] = "dead" => logged[x].bad = MaxAttempts

\* A subscriber hears what it subscribed to and nothing else: no delivery exists
\* for an endpoint that did not ask for the event's type, and none before the
\* event was announced.
OnlySubscribersHear ==
    \A x \in Deliveries :
        delivery[x] # "absent" => x[1] \in fanned /\ x[1][1] \in endpoint[x[2]].events

\* Every announced event is delivered to the endpoints that were queued for it,
\* or given up after MaxAttempts, unless a worker died with it.
EventuallyDelivered ==
    \A x \in Deliveries : delivery[x] = "open" ~> delivery[x] \in {"done", "dead", "stuck"}

\* Every outcome is announced as it is, and the subscribers hear what they asked
\* for, as the log has it.
ToldAsItIs ==
    /\ EInvoiceTypeOK /\ OutcomeAnnounced
    /\ WebhooksTypeOK /\ DeliveredAsLogged /\ OnlySubscribersHear

\* The queue of einvoice and the one it feeds both come to an end.
EventuallyTold == EventuallyFiled /\ EventuallyDelivered
=============================================================================

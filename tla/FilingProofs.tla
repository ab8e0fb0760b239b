---------------------------- MODULE FilingProofs ----------------------------
(***************************************************************************)
(* Theorems about what is filed with the authorities: EInvoice and the     *)
(* Webhooks it feeds, VerifactuChain and EWayBill, for every set of        *)
(* documents, requests, workers and endpoints and every bound.             *)
(***************************************************************************)
EXTENDS Webhooks, VerifactuChain, EWayBill, SumsProofs

USE IrnAssumption DEF Processes, Outcomes

(* EInvoice *)

\* A process in the middle of an attempt works on a document, an idle one on
\* none; an IRN that it was given is registered.
CallsAreSound ==
    \A p \in Processes :
        /\ call[p].pc = "idle" => call[p] = Idle
        /\ call[p].pc # "idle" => call[p].doc \in Docs
        /\ call[p].pc = "answered" /\ call[p].answer = "irn" => call[p].doc \in registered

\* A record with a final status has been announced as that status says.
StatusTold ==
    \A d \in Docs :
        /\ irn[d].status = "GENERATED" => irn[d].number
        /\ irn[d].status = "FAILED_FINAL" => <<"einvoice.failed", d>> \in announced

Calls == [pc : {"idle", "read", "asking", "answered"}, doc : Docs \cup {NoDoc},
          provider : {"none", "default", "nic"}, answer : {"none", "irn", "error"}]

IrnInv == EInvoiceTypeOK /\ CallsAreSound /\ StatusTold /\ OutcomeAnnounced

\* An answer moves a process on, to a call of the same type.
LEMMA AnsweredTyped ==
    ASSUME EInvoiceTypeOK, NEW p \in Processes, NEW a \in {"irn", "error"}, Answered(p, a)
    PROVE  call' \in [Processes -> Calls]
<1> DEFINE answered == [call[p] EXCEPT !.pc = "answered", !.answer = a]
<1>1. call \in [Processes -> Calls]
  BY DEF EInvoiceTypeOK, Calls
<1>2. answered \in Calls
  BY <1>1 DEF Calls
<1>3. call' = [call EXCEPT ![p] = answered]
  BY DEF Answered
<1> QED BY <1>1, <1>2, <1>3

\* Nothing is announced and every event is open.
LEMMA EInvoiceInitInv == EInvoiceInit => IrnInv
BY DEF EInvoiceInit, IrnInv, EInvoiceTypeOK, CallsAreSound, StatusTold, OutcomeAnnounced, Idle

\* The four steps that end an attempt write one record and free the process.
LEMMA SettleInv ==
    ASSUME IrnInv, NEW p \in Processes,
           BuildFails(p) \/ ResolveFails(p) \/ RecordRefusal(p) \/ RecordIRN(p)
    PROVE  IrnInv'
<1> DEFINE d == call[p].doc
<1> USE DEF IrnInv
<1>1. call[p].pc # "idle" /\ d \in Docs /\ Idle.pc = "idle"
  BY DEF BuildFails, ResolveFails, RecordRefusal, RecordIRN, CallsAreSound, Idle
<1>2. /\ call' = [call EXCEPT ![p] = Idle]
      /\ UNCHANGED <<entity, registered, trouble, cut>>
  BY DEF BuildFails, ResolveFails, RecordRefusal, RecordIRN
<1>3. CallsAreSound'
  BY <1>1, <1>2 DEF CallsAreSound, EInvoiceTypeOK
<1>4. CASE BuildFails(p)
  <2>1. /\ irn' = UpdateStatus(d, "FAILED_FINAL", FALSE)
        /\ announced' = announced \cup {<<"einvoice.failed", d>>}
        /\ irnJob' = IF p \in IrnWorkers THEN [irnJob EXCEPT ![d] = "dead"] ELSE irnJob
    BY <1>4 DEF BuildFails, EnqueueWebhookEvent, Mark
  <2>2. EInvoiceTypeOK'
    BY <1>1, <1>2, <2>1 DEF EInvoiceTypeOK, UpdateStatus, Idle
  <2>3. StatusTold' /\ OutcomeAnnounced'
    BY <1>1, <1>2, <2>1 DEF EInvoiceTypeOK, UpdateStatus, StatusTold, OutcomeAnnounced
  <2> QED BY <1>3, <2>2, <2>3
<1>5. CASE ResolveFails(p) \/ RecordRefusal(p)
  <2>1. /\ irn' = UpdateStatus(d, "FAILED_RETRYABLE", FALSE)
        /\ UNCHANGED <<announced, irnJob>>
    BY <1>5 DEF ResolveFails, RecordRefusal
  <2>2. EInvoiceTypeOK'
    BY <1>1, <1>2, <2>1 DEF EInvoiceTypeOK, UpdateStatus, Idle
  <2>3. StatusTold' /\ OutcomeAnnounced'
    BY <1>1, <1>2, <2>1 DEF EInvoiceTypeOK, UpdateStatus, StatusTold, OutcomeAnnounced
  <2> QED BY <1>3, <2>2, <2>3
<1>6. CASE RecordIRN(p)
  <2>1. /\ irn' = UpdateStatus(d, "GENERATED", TRUE)
        /\ announced' = announced \cup {<<"einvoice.generated", d>>}
        /\ irnJob' = IF p \in IrnWorkers THEN [irnJob EXCEPT ![d] = "done"] ELSE irnJob
        /\ d \in registered
    BY <1>6 DEF RecordIRN, EnqueueWebhookEvent, Mark, CallsAreSound
  <2>2. EInvoiceTypeOK'
    BY <1>1, <1>2, <2>1 DEF EInvoiceTypeOK, UpdateStatus, Idle
  <2>3. StatusTold' /\ OutcomeAnnounced'
    BY <1>1, <1>2, <2>1 DEF EInvoiceTypeOK, UpdateStatus, StatusTold, OutcomeAnnounced
  <2> QED BY <1>3, <2>2, <2>3
<1> QED BY <1>4, <1>5, <1>6

\* The steps of an attempt before its end only move the process on.
LEMMA AskInv ==
    ASSUME IrnInv, NEW p \in Processes, Submit(p) \/ GenerateIRN(p) \/ ProviderFails(p) \/ CutOff(p)
    PROVE  IrnInv'
<1> DEFINE d == call[p].doc
<1> USE DEF IrnInv
<1>1. call[p].pc # "idle" /\ d \in Docs /\ Idle.pc = "idle"
  BY DEF Submit, GenerateIRN, ProviderFails, CutOff, CallsAreSound, Idle
<1> call[p] \in Calls /\ call \in [Processes -> Calls]
  BY DEF EInvoiceTypeOK, Calls
<1>2. CASE Submit(p)
  <2> DEFINE asking == [call[p] EXCEPT !.pc = "asking", !.provider = ResolveProvider]
  <2>3. asking \in Calls
    BY DEF ResolveProvider, Calls
  <2>4. call' = [call EXCEPT ![p] = asking]
    BY <1>2 DEF Submit
  <2>5. call' \in [Processes -> Calls]
    BY <2>3, <2>4
  <2>1. EInvoiceTypeOK'
    BY <1>2, <2>5 DEF Submit, EInvoiceTypeOK, Calls
  <2>2. CallsAreSound'
    BY <1>1, <1>2 DEF Submit, EInvoiceTypeOK, CallsAreSound
  <2> QED BY <1>2, <2>1, <2>2 DEF Submit, StatusTold, OutcomeAnnounced
<1>3. CASE GenerateIRN(p)
  <2>1. EInvoiceTypeOK'
    BY <1>1, <1>3, AnsweredTyped DEF GenerateIRN, EInvoiceTypeOK, Calls
  <2>2. CallsAreSound'
    BY <1>1, <1>3 DEF GenerateIRN, Answered, EInvoiceTypeOK, CallsAreSound
  <2> QED BY <1>3, <2>1, <2>2 DEF GenerateIRN, StatusTold, OutcomeAnnounced
<1>4. CASE ProviderFails(p)
  <2>1. EInvoiceTypeOK'
    BY <1>1, <1>4, AnsweredTyped DEF ProviderFails, EInvoiceTypeOK, Calls
  <2>2. CallsAreSound'
    BY <1>1, <1>4 DEF ProviderFails, Answered, EInvoiceTypeOK, CallsAreSound
  <2> QED BY <1>4, <2>1, <2>2 DEF ProviderFails, StatusTold, OutcomeAnnounced
<1>5. CASE CutOff(p)
  <2>1. EInvoiceTypeOK'
    BY <1>1, <1>5 DEF CutOff, Mark, Idle, EInvoiceTypeOK
  <2>2. CallsAreSound'
    BY <1>1, <1>5 DEF CutOff, Idle, EInvoiceTypeOK, CallsAreSound
  <2>3. StatusTold' /\ OutcomeAnnounced'
    BY <1>1, <1>5 DEF CutOff, Mark, StatusTold, OutcomeAnnounced, EInvoiceTypeOK
  <2> QED BY <2>1, <2>2, <2>3
<1> QED BY <1>2, <1>3, <1>4, <1>5

\* Every step of the module keeps the invariant.
LEMMA EInvoiceNextInv ==
    ASSUME IrnInv, EInvoiceNext
    PROVE  IrnInv'
<1> USE DEF IrnInv
<1>1. CASE SetGSTIN \/ SaveSandboxCredentials \/ DeleteCredentials \/ RotateKey
  <2>1. UNCHANGED <<irn, irnJob, call, registered, announced, cut>>
    BY <1>1 DEF SetGSTIN, SaveSandboxCredentials, DeleteCredentials, RotateKey
  <2>3. entity' \in [gstin : BOOLEAN, credentials : {"none", "stored", "unreadable"}]
    BY <1>1 DEF SetGSTIN, SaveSandboxCredentials, DeleteCredentials, RotateKey, EInvoiceTypeOK
  <2>4. trouble' \in 0..MaxTrouble
    BY <1>1 DEF SetGSTIN, SaveSandboxCredentials, DeleteCredentials, RotateKey, EInvoiceTypeOK
  <2>2. EInvoiceTypeOK'
    BY <2>1, <2>3, <2>4 DEF EInvoiceTypeOK
  <2> QED BY <2>1, <2>2 DEF CallsAreSound, StatusTold, OutcomeAnnounced
<1>2. ASSUME NEW w \in IrnWorkers, NEW d \in Docs, SkipHandled(w, d)
      PROVE  IrnInv'
  BY <1>2 DEF SkipHandled, Terminal, EInvoiceTypeOK, CallsAreSound, StatusTold, OutcomeAnnounced
<1>3. ASSUME NEW p \in Processes, NEW d \in Docs, Read(p, d),
             UNCHANGED <<entity, irn, irnJob, registered, announced, trouble, cut>>
      PROVE  IrnInv'
  BY <1>3 DEF Read, Idle, EInvoiceTypeOK, CallsAreSound, StatusTold, OutcomeAnnounced
<1>4. CASE \E w \in IrnWorkers : Handle(w)
  BY <1>2, <1>3, <1>4 DEF Handle, GenerateForDocument
<1>5. CASE \E u \in Users, d \in Docs : RetryDocument(u, d)
  BY <1>3, <1>5 DEF RetryDocument
<1>6. CASE \E p \in Processes : Attempt(p) \/ ProviderFails(p) \/ CutOff(p)
  BY <1>6, SettleInv, AskInv DEF Attempt
<1> QED BY <1>1, <1>4, <1>5, <1>6 DEF EInvoiceNext

\* What the portal gave is never taken from the record: the COALESCE of
\* UpdateStatus keeps it, whichever of two attempts writes last (pg.go).
THEOREM IrnsAreKept == EInvoiceInit /\ [][EInvoiceNext]_irnVars => IrnIsKept
<1>1. IrnInv /\ [EInvoiceNext]_irnVars => IrnInv'
  BY EInvoiceNextInv
     DEF irnVars, IrnInv, EInvoiceTypeOK, CallsAreSound, StatusTold, OutcomeAnnounced
<1>2. IrnInv /\ [EInvoiceNext]_irnVars
        => [\A d \in Docs : irn[d].number => irn'[d].number]_irnVars
  <2> SUFFICES ASSUME IrnInv, EInvoiceNext, NEW d \in Docs, irn[d].number
               PROVE  irn'[d].number
    BY DEF irnVars
  <2>1. ASSUME NEW p \in Processes, Attempt(p) PROVE irn'[d].number
    <3>1. irn' = irn \/ \E e \in Docs, s \in {"GENERATED", "FAILED_RETRYABLE", "FAILED_FINAL"},
                            number \in BOOLEAN : irn' = UpdateStatus(e, s, number)
      BY <2>1 DEF Attempt, BuildFails, ResolveFails, Submit, GenerateIRN, RecordRefusal, RecordIRN,
                  IrnInv, CallsAreSound
    <3> QED BY <3>1 DEF UpdateStatus, IrnInv, EInvoiceTypeOK
  <2>2. ASSUME UNCHANGED irn PROVE irn'[d].number
    BY <2>2
  <2> QED BY <2>1, <2>2
          DEF EInvoiceNext, SetGSTIN, SaveSandboxCredentials, DeleteCredentials, RotateKey, Handle,
              SkipHandled, GenerateForDocument, RetryDocument, ProviderFails, CutOff
<1> QED BY EInvoiceInitInv, <1>1, <1>2, PTL DEF IrnIsKept
-----------------------------------------------------------------------------
(* Webhooks *)

\* One worker at a time delivers a row, and the row is open meanwhile.
SendingIsOpen ==
    /\ \A w \in IrnWorkers :
         IF sending[w].of = NoDelivery THEN sending[w] = NoSend
         ELSE sending[w].of \in Deliveries /\ delivery[sending[w].of] = "open"
    /\ \A v, w \in IrnWorkers :
         sending[v].of = sending[w].of => v = w \/ sending[v].of = NoDelivery

InFlight(x) == \E w \in IrnWorkers : sending[w].of = x

\* The claims of a row that its log does not show: the one of the worker that is
\* delivering it, and, when a worker died, that worker's.
AttemptsAreLogged ==
    \A x \in Deliveries :
        /\ delivery[x] = "absent" => attempts[x] = 0
        /\ delivery[x] \in {"absent", "done", "dead"} \/ (delivery[x] = "open" /\ ~InFlight(x))
             => logged[x].good + logged[x].bad = attempts[x]
        /\ delivery[x] = "stuck" \/ InFlight(x) => logged[x].good + logged[x].bad + 1 = attempts[x]
        /\ delivery[x] = "open" /\ ~InFlight(x) => attempts[x] < MaxAttempts
        /\ delivery[x] = "dead" => attempts[x] = MaxAttempts
        /\ logged[x].good = IF delivery[x] = "done" THEN 1 ELSE 0

\* The receiver is reached once by a claim at most, and by every good one.
PostsAreClaimed ==
    /\ \A x \in Deliveries : logged[x].good <= received[x] /\ received[x] <= attempts[x]
    /\ \A w \in IrnWorkers :
         LET x == sending[w].of IN
         x # NoDelivery => /\ sending[w].ok = "unsent" => received[x] < attempts[x]
                           /\ sending[w].ok = "yes" => received[x] > 0

\* An endpoint that was never registered subscribes to nothing.
EndpointsAreSound ==
    \A e \in Endpoints : endpoint[e].state = "none" => endpoint[e].events = {}

HookInv ==
    /\ WebhooksTypeOK /\ SendingIsOpen /\ AttemptsAreLogged /\ PostsAreClaimed
    /\ EndpointsAreSound /\ OnlySubscribersHear

FilingInv == IrnInv /\ HookInv

\* What the log says follows from how the attempts were counted.
LEMMA LoggedSoundly == HookInv => DeliveredAsLogged
BY WebhooksAssumption
   DEF HookInv, WebhooksTypeOK, AttemptsAreLogged, PostsAreClaimed, DeliveredAsLogged

\* No endpoint, no delivery.
LEMMA WebhooksInitInv == WebhooksInit => HookInv
BY WebhooksAssumption
   DEF WebhooksInit, HookInv, WebhooksTypeOK, SendingIsOpen, AttemptsAreLogged, PostsAreClaimed,
       EndpointsAreSound, OnlySubscribersHear, InFlight, NoSend, Deliveries, Sources

\* Registering, deactivating and fanning out leave the deliveries under way alone.
LEMMA QueueInv ==
    ASSUME IrnInv, HookInv,
           \/ \E e \in Endpoints : \/ \E types \in SUBSET Outcomes : RegisterEndpoint(e, types)
                                   \/ DeactivateEndpoint(e)
           \/ \E s \in Sources : FanOut(s),
           UNCHANGED irnVars
    PROVE  HookInv'
<1> USE DEF HookInv
<1>1. CASE \E e \in Endpoints : \/ \E types \in SUBSET Outcomes : RegisterEndpoint(e, types)
                                \/ DeactivateEndpoint(e)
  <2>1. PICK e \in Endpoints : \/ \E types \in SUBSET Outcomes : RegisterEndpoint(e, types)
                               \/ DeactivateEndpoint(e)
    BY <1>1
  <2>2. UNCHANGED <<fanned, delivery, attempts, logged, sending, received, down, announced>>
    BY <2>1 DEF RegisterEndpoint, DeactivateEndpoint, irnVars
  <2>3. SendingIsOpen' /\ AttemptsAreLogged' /\ PostsAreClaimed'
    BY <2>2 DEF SendingIsOpen, AttemptsAreLogged, PostsAreClaimed, InFlight
  <2>4. endpoint' \in [Endpoints -> [state : {"none", "active", "inactive"}, events : SUBSET Outcomes]]
    BY <2>1 DEF RegisterEndpoint, DeactivateEndpoint, WebhooksTypeOK
  <2>5. /\ endpoint'[e].state # "none"
        /\ endpoint[e].events \subseteq endpoint'[e].events
        /\ \A o \in Endpoints : o # e => endpoint'[o] = endpoint[o]
    BY <2>1 DEF RegisterEndpoint, DeactivateEndpoint, WebhooksTypeOK, EndpointsAreSound
  <2>6. EndpointsAreSound'
    BY <2>5 DEF EndpointsAreSound
  <2>7. OnlySubscribersHear'
    BY <2>2, <2>5 DEF OnlySubscribersHear, Deliveries
  <2> QED BY <2>2, <2>3, <2>4, <2>6, <2>7 DEF WebhooksTypeOK
<1>2. CASE \E s \in Sources : FanOut(s)
  <2>1. PICK s \in Sources : FanOut(s)
    BY <1>2
  <2>2. /\ UNCHANGED <<endpoint, attempts, logged, sending, received, down, announced>>
        /\ fanned' = fanned \cup {s} /\ s \in announced
    BY <2>1 DEF FanOut, irnVars
  <2>3. /\ delivery' \in [Deliveries -> {"absent", "open", "stuck", "done", "dead"}]
        /\ \A x \in Deliveries :
             \/ delivery'[x] = delivery[x]
             \/ /\ delivery[x] = "absent" /\ delivery'[x] = "open"
                /\ x[1] = s /\ x[2] \in Endpoints /\ s[1] \in endpoint[x[2]].events
    BY <2>1 DEF FanOut, ListSubscribed, WebhooksTypeOK, Deliveries, Sources
  <2>4. WebhooksTypeOK'
    BY <2>2, <2>3 DEF WebhooksTypeOK
  <2>5. \A x \in Deliveries : delivery[x] = "absent" => ~InFlight(x)
    BY WebhooksAssumption DEF SendingIsOpen, InFlight, Deliveries, Sources
  <2>6. SendingIsOpen'
    BY <2>2, <2>3 DEF SendingIsOpen
  <2>7. AttemptsAreLogged'
    <3> SUFFICES ASSUME NEW x \in Deliveries PROVE AttemptsAreLogged!(x)'
      BY DEF AttemptsAreLogged
    <3>1. InFlight(x)' = InFlight(x)
      BY <2>2 DEF InFlight
    <3> QED BY <2>2, <2>3, <2>5, <3>1, WebhooksAssumption DEF AttemptsAreLogged, WebhooksTypeOK
  <2>8. PostsAreClaimed' /\ EndpointsAreSound' /\ OnlySubscribersHear'
    BY <2>2, <2>3 DEF PostsAreClaimed, EndpointsAreSound, OnlySubscribersHear
  <2> QED BY <2>4, <2>6, <2>7, <2>8
<1> QED BY <1>1, <1>2

\* A claim counts the attempt that the worker is about to make.
LEMMA StartDeliveryInv ==
    ASSUME IrnInv, HookInv, NEW w \in IrnWorkers, NEW x \in Deliveries, StartDelivery(w, x),
           UNCHANGED irnVars
    PROVE  HookInv'
<1> USE WebhooksAssumption DEF HookInv
<1>1. /\ delivery[x] = "open" /\ ~InFlight(x) /\ x # NoDelivery
      /\ sending[w].of = NoDelivery
      /\ attempts' = [attempts EXCEPT ![x] = @ + 1]
      /\ sending' = [sending EXCEPT ![w] = [of |-> x, ok |-> "unsent"]]
      /\ UNCHANGED <<endpoint, fanned, delivery, logged, received, down, announced>>
  BY DEF StartDelivery, InFlight, NoSend, irnVars, Deliveries, Sources
<1>2. attempts[x] < MaxAttempts /\ logged[x].good + logged[x].bad = attempts[x]
  BY <1>1 DEF AttemptsAreLogged
<1>3. WebhooksTypeOK'
  BY <1>1, <1>2 DEF WebhooksTypeOK
<1>4. SendingIsOpen'
  BY <1>1 DEF SendingIsOpen, WebhooksTypeOK, InFlight
<1>5. AttemptsAreLogged'
  <2> SUFFICES ASSUME NEW y \in Deliveries PROVE AttemptsAreLogged!(y)'
    BY DEF AttemptsAreLogged
  <2>1. CASE y = x
    <3>1. InFlight(x)'
      BY <1>1 DEF InFlight, WebhooksTypeOK
    <3> QED BY <1>1, <1>2, <2>1, <3>1 DEF AttemptsAreLogged, WebhooksTypeOK
  <2>2. CASE y # x
    <3>1. InFlight(y)' = InFlight(y)
      BY <1>1, <2>2 DEF InFlight, WebhooksTypeOK, Deliveries, Sources
    <3> QED BY <1>1, <2>2, <3>1 DEF AttemptsAreLogged, WebhooksTypeOK
  <2> QED BY <2>1, <2>2
<1>6. PostsAreClaimed'
  <2>1. \A v \in IrnWorkers : v # w => sending'[v] = sending[v] /\ sending[v].of # x
    BY <1>1 DEF InFlight, WebhooksTypeOK
  <2>2. sending'[w] = [of |-> x, ok |-> "unsent"]
    BY <1>1 DEF WebhooksTypeOK
  <2>3. \A y \in Deliveries : y # x => attempts'[y] = attempts[y]
    BY <1>1 DEF WebhooksTypeOK
  <2>4. attempts'[x] = attempts[x] + 1 /\ received[x] <= attempts[x]
    BY <1>1 DEF WebhooksTypeOK, PostsAreClaimed
  <2> QED BY <1>1, <2>1, <2>2, <2>3, <2>4 DEF PostsAreClaimed, WebhooksTypeOK, SendingIsOpen
<1> QED BY <1>1, <1>3, <1>4, <1>5, <1>6 DEF EndpointsAreSound, OnlySubscribersHear

\* A post may reach the receiver once more, and only moves its worker on.
LEMMA PostInv ==
    ASSUME IrnInv, HookInv, NEW w \in IrnWorkers, PostArrives(w) \/ PostFails(w),
           UNCHANGED irnVars
    PROVE  HookInv'
<1> USE WebhooksAssumption DEF HookInv
<1>0. PICK x \in Deliveries : x = sending[w].of
  BY DEF PostArrives, PostFails, WebhooksTypeOK
<1>1. x # NoDelivery /\ sending[w].ok = "unsent" /\ received[x] < attempts[x]
  BY <1>0 DEF PostArrives, PostFails, PostsAreClaimed, WebhooksTypeOK
<1>2. /\ UNCHANGED <<endpoint, fanned, delivery, attempts, logged, announced>>
      /\ down' \in 0..MaxDown
  BY DEF PostArrives, PostFails, WebhooksTypeOK, irnVars
<1>3. PICK ok \in {"yes", "no"} :
        /\ sending' = [sending EXCEPT ![w].ok = ok]
        /\ \/ received' = [received EXCEPT ![x] = @ + 1]
           \/ ok = "no" /\ received' = received
  BY <1>0 DEF PostArrives, PostFails
<1>4. /\ sending'[w].of = x /\ sending'[w].ok = ok
      /\ \A v \in IrnWorkers : sending'[v].of = sending[v].of
      /\ \A v \in IrnWorkers : v # w => sending'[v] = sending[v]
      /\ sending' \in [IrnWorkers -> [of : Deliveries \cup {NoDelivery}, ok : {"unsent", "yes", "no"}]]
  BY <1>0, <1>3 DEF WebhooksTypeOK
<1>5. /\ received' \in [Deliveries -> Nat]
      /\ \A y \in Deliveries : y # x => received'[y] = received[y]
      /\ received'[x] \in {received[x], received[x] + 1} /\ (ok = "yes" => received'[x] > 0)
  BY <1>1, <1>3 DEF WebhooksTypeOK
<1>6. WebhooksTypeOK' /\ EndpointsAreSound' /\ OnlySubscribersHear'
  BY <1>2, <1>4, <1>5 DEF WebhooksTypeOK, EndpointsAreSound, OnlySubscribersHear
<1>7. SendingIsOpen'
  BY <1>0, <1>1, <1>2, <1>4 DEF SendingIsOpen
<1>8. AttemptsAreLogged'
  <2>1. \A y \in Deliveries : InFlight(y)' = InFlight(y)
    BY <1>4 DEF InFlight
  <2> QED BY <1>2, <2>1 DEF AttemptsAreLogged
<1>9. PostsAreClaimed'
  <2>1. \A v \in IrnWorkers : v # w => sending[v].of # x
    BY <1>0, <1>1 DEF SendingIsOpen
  <2>2. \A y \in Deliveries : logged[y].good <= received'[y] /\ received'[y] <= attempts[y]
    BY <1>1, <1>5 DEF PostsAreClaimed, WebhooksTypeOK
  <2>3. ASSUME NEW v \in IrnWorkers, sending'[v].of # NoDelivery
        PROVE  /\ sending'[v].ok = "unsent" => received'[sending'[v].of] < attempts[sending'[v].of]
               /\ sending'[v].ok = "yes" => received'[sending'[v].of] > 0
    <3>1. CASE v = w
      BY <1>4, <1>5, <3>1
    <3>2. CASE v # w
      <4>1. sending[v].of \in Deliveries /\ sending[v].of # x
        BY <1>4, <2>1, <2>3, <3>2 DEF WebhooksTypeOK
      <4> QED BY <1>4, <1>5, <2>3, <3>2, <4>1 DEF PostsAreClaimed
    <3> QED BY <3>1, <3>2
  <2> QED BY <1>2, <2>2, <2>3 DEF PostsAreClaimed
<1> QED BY <1>6, <1>7, <1>8, <1>9

\* The log row and the poller's mark, or the worker's death, end a delivery.
LEMMA EndDeliveryInv ==
    ASSUME IrnInv, HookInv, NEW w \in IrnWorkers,
           (LogDelivery(w) /\ UNCHANGED irnVars) \/ LoseDelivery(w)
    PROVE  HookInv'
<1> USE WebhooksAssumption DEF HookInv
<1>0. PICK x \in Deliveries : x = sending[w].of
  BY DEF LogDelivery, LoseDelivery, WebhooksTypeOK
<1>1. /\ x # NoDelivery /\ delivery[x] = "open" /\ InFlight(x)
      /\ sending' = [sending EXCEPT ![w] = NoSend]
      /\ UNCHANGED <<endpoint, fanned, attempts, received, down, announced>>
  BY <1>0 DEF LogDelivery, LoseDelivery, WebhooksTypeOK, SendingIsOpen, InFlight, irnVars
<1>2. /\ \A v \in IrnWorkers : v # w => sending'[v] = sending[v] /\ sending[v].of # x
      /\ sending'[w] = NoSend /\ NoSend.of = NoDelivery
      /\ sending' \in [IrnWorkers -> [of : Deliveries \cup {NoDelivery}, ok : {"unsent", "yes", "no"}]]
  BY <1>0, <1>1 DEF WebhooksTypeOK, SendingIsOpen, NoSend
<1>3. /\ ~InFlight(x)'
      /\ \A y \in Deliveries : y # x => InFlight(y)' = InFlight(y)
  <2>1. ~InFlight(x)'
    BY <1>1, <1>2 DEF InFlight
  <2>2. ASSUME NEW y \in Deliveries, y # x PROVE InFlight(y)' = InFlight(y)
    <3>1. \A v \in IrnWorkers : sending'[v].of = y <=> sending[v].of = y
      BY <1>0, <1>2, <2>2 DEF Deliveries, Sources
    <3> QED BY <3>1 DEF InFlight
  <2> QED BY <2>1, <2>2
<1>4. logged[x].good = 0 /\ logged[x].bad + 1 = attempts[x] /\ logged[x] \in [good : Nat, bad : Nat]
  BY <1>1 DEF AttemptsAreLogged, WebhooksTypeOK
<1> DEFINE Settled(st, good, bad) ==
        /\ st = "stuck" => good = 0 /\ bad + 1 = attempts[x]
        /\ st # "stuck" => good + bad = attempts[x]
        /\ good = IF st = "done" THEN 1 ELSE 0
        /\ st = "open" => attempts[x] < MaxAttempts
        /\ st = "dead" => attempts[x] = MaxAttempts
        /\ st = "done" => sending[w].ok = "yes"
<1>5. /\ delivery' \in [Deliveries -> {"absent", "open", "stuck", "done", "dead"}]
      /\ logged' \in [Deliveries -> [good : Nat, bad : Nat]]
      /\ \A y \in Deliveries : y # x => delivery'[y] = delivery[y] /\ logged'[y] = logged[y]
      /\ delivery'[x] # "absent"
      /\ Settled(delivery'[x], logged'[x].good, logged'[x].bad)
  <2>1. CASE LoseDelivery(w)
    BY <1>0, <1>4, <2>1 DEF LoseDelivery, WebhooksTypeOK
  <2>2. CASE LogDelivery(w)
    <3>1. delivery' = [delivery EXCEPT ![x] = Outcome(x, sending[w].ok)]
      BY <1>0, <2>2 DEF LogDelivery
    <3>2. attempts[x] \in Nat /\ attempts[x] <= MaxAttempts
      BY <1>1 DEF WebhooksTypeOK
    <3>3. CASE sending[w].ok = "yes"
      <4>1. logged' = [logged EXCEPT ![x].good = @ + 1] /\ Outcome(x, sending[w].ok) = "done"
        BY <1>0, <2>2, <3>3 DEF LogDelivery, Outcome
      <4> QED BY <1>4, <3>1, <3>3, <4>1 DEF WebhooksTypeOK
    <3>4. CASE sending[w].ok # "yes"
      <4>1. logged' = [logged EXCEPT ![x].bad = @ + 1]
        BY <1>0, <2>2, <3>4 DEF LogDelivery
      <4>2. Outcome(x, sending[w].ok) = IF attempts[x] >= MaxAttempts THEN "dead" ELSE "open"
        BY <3>4 DEF Outcome
      <4> QED BY <1>4, <3>1, <3>2, <3>4, <4>1, <4>2 DEF WebhooksTypeOK
    <3> QED BY <3>3, <3>4
  <2> QED BY <2>1, <2>2
<1>7. WebhooksTypeOK'
  BY <1>1, <1>2, <1>5 DEF WebhooksTypeOK
<1>8. SendingIsOpen'
  BY <1>1, <1>2, <1>5 DEF SendingIsOpen
<1>9. AttemptsAreLogged'
  <2> SUFFICES ASSUME NEW y \in Deliveries PROVE AttemptsAreLogged!(y)'
    BY DEF AttemptsAreLogged
  <2>1. CASE y = x
    BY <1>1, <1>3, <1>5, <2>1 DEF WebhooksTypeOK
  <2>2. CASE y # x
    BY <1>1, <1>3, <1>5, <2>2 DEF AttemptsAreLogged
  <2> QED BY <2>1, <2>2
<1>10. PostsAreClaimed'
  BY <1>0, <1>1, <1>2, <1>4, <1>5 DEF PostsAreClaimed, WebhooksTypeOK
<1>11. EndpointsAreSound' /\ OnlySubscribersHear'
  BY <1>1, <1>5 DEF EndpointsAreSound, OnlySubscribersHear
<1> QED BY <1>7, <1>8, <1>9, <1>10, <1>11

\* einvoice only adds to what has been announced.
LEMMA AnnouncedGrows ==
    ASSUME IrnInv, EInvoiceNext
    PROVE  announced \subseteq announced'
<1>1. ASSUME NEW p \in Processes, Attempt(p) PROVE announced \subseteq announced'
  BY <1>1 DEF Attempt, BuildFails, ResolveFails, Submit, GenerateIRN, RecordRefusal, RecordIRN,
              EnqueueWebhookEvent
<1> QED BY <1>1 DEF EInvoiceNext, SetGSTIN, SaveSandboxCredentials, DeleteCredentials, RotateKey, Handle,
                    SkipHandled, GenerateForDocument, RetryDocument, ProviderFails, CutOff

\* Every step of the two modules together keeps the invariant of both.
LEMMA FilingNextInv == FilingInv /\ [FilingNext]_filingVars => FilingInv'
<1> SUFFICES ASSUME FilingInv, [FilingNext]_filingVars PROVE FilingInv'
  OBVIOUS
<1> USE DEF FilingInv
<1>1. CASE UNCHANGED filingVars
  BY <1>1 DEF filingVars, irnVars, hookVars, IrnInv, HookInv, EInvoiceTypeOK, CallsAreSound, StatusTold,
              OutcomeAnnounced, WebhooksTypeOK, SendingIsOpen, AttemptsAreLogged, PostsAreClaimed,
              EndpointsAreSound, OnlySubscribersHear, InFlight
<1>2. CASE EInvoiceNext /\ UNCHANGED hookVars
  <2>1. IrnInv' /\ announced \subseteq announced'
    BY <1>2, EInvoiceNextInv, AnnouncedGrows
  <2>2. HookInv'
    BY <1>2, <2>1 DEF hookVars, HookInv, WebhooksTypeOK, SendingIsOpen, AttemptsAreLogged,
                      PostsAreClaimed, EndpointsAreSound, OnlySubscribersHear, InFlight
  <2> QED BY <2>1, <2>2
<1>3. CASE HookNext /\ UNCHANGED irnVars
  <2>1. IrnInv'
    BY <1>3 DEF irnVars, IrnInv, EInvoiceTypeOK, CallsAreSound, StatusTold, OutcomeAnnounced
  <2>2. HookInv'
    BY <1>3, QueueInv, StartDeliveryInv, PostInv, EndDeliveryInv DEF HookNext, HookWork
  <2> QED BY <2>1, <2>2
<1>4. CASE \E w \in IrnWorkers : LoseDelivery(w)
  <2>1. UNCHANGED <<entity, irn, irnJob, call, registered, announced, trouble>> /\ cut' \in 0..MaxCut
    BY <1>4 DEF LoseDelivery, IrnInv, EInvoiceTypeOK
  <2>2. IrnInv'
    BY <2>1 DEF IrnInv, EInvoiceTypeOK, CallsAreSound, StatusTold, OutcomeAnnounced
  <2> QED BY <1>4, <2>2, EndDeliveryInv
<1> QED BY <1>1, <1>2, <1>3, <1>4 DEF FilingNext

\* The tax portal's outcome reaches the record, the outcome's event the outbox,
\* and the event its subscribers, as the delivery log says: in every
\* interleaving of workers and retries, with lost answers and dead workers.
THEOREM OutcomesAreTold == FilingInit /\ [][FilingNext]_filingVars => []ToldAsItIs
<1>1. FilingInit => FilingInv
  BY EInvoiceInitInv, WebhooksInitInv DEF FilingInit, FilingInv
<1>2. FilingInv => ToldAsItIs
  BY LoggedSoundly DEF FilingInv, IrnInv, HookInv, ToldAsItIs
<1> QED BY <1>1, <1>2, FilingNextInv, PTL
-----------------------------------------------------------------------------
HIDE IrnAssumption DEF Processes, Outcomes

(* VerifactuChain *)

USE ChainAssumption

(* Sequences and prefixes *)

IsSeq(s) == \E S : s \in Seq(S)

\* A sequence grows by one element at its end and keeps the others.
LEMMA AppendFacts ==
    ASSUME NEW s, IsSeq(s), NEW e
    PROVE  /\ IsSeq(Append(s, e))
           /\ Len(s) \in Nat /\ Len(Append(s, e)) = Len(s) + 1
           /\ \A i \in 1..Len(s) : Append(s, e)[i] = s[i]
           /\ Append(s, e)[Len(s) + 1] = e
<1>1. PICK S : s \in Seq(S)
  BY DEF IsSeq
<1>2. s \in Seq(S \cup {e}) /\ e \in S \cup {e}
  BY <1>1, SeqMonotonic
<1>3. Append(s, e) \in Seq(S \cup {e})
  BY <1>2
<1> HIDE <1>1
<1> QED BY <1>2, <1>3 DEF IsSeq

\* A function on the positions of a sequence is a sequence as long.
LEMMA SameLength ==
    ASSUME NEW n \in Nat, NEW s, NEW S, s \in [1..n -> S]
    PROVE  IsSeq(s) /\ Len(s) = n
<1>1. s \in Seq(S)
  OBVIOUS
<1> QED BY <1>1 DEF IsSeq

\* A sequence is a function on its positions.
LEMMA SeqIsFunction ==
    ASSUME NEW s, IsSeq(s), NEW T, \A i \in 1..Len(s) : s[i] \in T
    PROVE  Len(s) \in Nat /\ s \in [1..Len(s) -> T]
<1>1. PICK S : s \in Seq(S)
  BY DEF IsSeq
<1>2. Len(s) \in Nat /\ s \in [1..Len(s) -> S]
  BY <1>1, LenProperties
<1> QED BY <1>2

\* What is sent next is the beginning of what is unsent.
LEMMA DueIsPrefix ==
    ASSUME Len(chain) \in Nat, NEW i \in Due, NEW j \in Unsent, j < i
    PROVE  j \in Due
<1> DEFINE Before(k) == {m \in Unsent : m < k}
<1>1. i \in Unsent /\ Cardinality(Before(i)) < BatchSize
  BY DEF Due
<1>2. Unsent \subseteq 1..Len(chain) /\ \A k \in Unsent : k \in Nat
  BY DEF Unsent, Positions
<1>3. IsFiniteSet(1..Len(chain))
  BY FS_Interval
<1>4. IsFiniteSet(Before(i))
  BY <1>2, <1>3, FS_Subset
<1>5. Before(j) \in SUBSET Before(i)
  <2> SUFFICES ASSUME NEW m \in Unsent, m < j PROVE m < i
    OBVIOUS
  <2>1. m \in Nat /\ j \in Nat /\ i \in Nat
    BY <1>1, <1>2
  <2> QED BY <2>1
<1>6. IsFiniteSet(Before(j)) /\ Cardinality(Before(j)) <= Cardinality(Before(i))
  BY <1>4, <1>5, FS_Subset
<1>7. Cardinality(Before(i)) \in Nat /\ Cardinality(Before(j)) \in Nat
  BY <1>4, <1>6, FS_CardinalityType
<1>8. Cardinality(Before(j)) < BatchSize
  BY <1>1, <1>6, <1>7
<1> QED BY <1>8 DEF Due
-----------------------------------------------------------------------------
(* The invariant *)

\* The types: the chain, its submissions and their events grow together.
Typed ==
    /\ VerifactuTypeOK
    /\ IsSeq(chain) /\ IsSeq(sub) /\ IsSeq(event)
    /\ \A i \in Positions : chain[i].at \in Nat
    /\ DOMAIN sender = Senders /\ sender = [s \in Senders |-> sender[s]]
    /\ \A s \in Senders : sender[s] = [pc |-> sender[s].pc, batch |-> sender[s].batch,
                                       answer |-> sender[s].answer, for |-> sender[s].for]
    /\ sent \subseteq Positions
    /\ raced \subseteq Invoices
    /\ faults \in Nat

\* One request at a time holds the head's lock, and the time it took under the
\* lock is not before that of any record.
HeadIsLocked ==
    /\ \A c, o \in Clerks : clerk[c].pc = "locked" /\ clerk[o].pc = "locked" => c = o
    /\ \A i \in Positions : chain[i].at <= now
    /\ \A c \in Clerks : clerk[c].pc = "locked" =>
         /\ clerk[c].at <= now
         /\ \A i \in Positions : chain[i].at <= clerk[c].at

\* A request works on an invoice, and appends one of two kinds of record.
ClerksAreSound ==
    \A c \in Clerks :
        /\ clerk[c].pc = "idle" => clerk[c] = Free
        /\ clerk[c].pc # "idle" => clerk[c].doc \in Invoices /\ clerk[c].type # "none"
        /\ clerk[c].pc = "locked" => clerk[c].type \in {"ALTA", "ANULACION"}

\* Two requests work on an invoice at once only if the history says so.
RacesAreSeen ==
    \A c, o \in Clerks : clerk[c].doc = clerk[o].doc =>
         c = o \/ clerk[c].doc = NoInvoice \/ clerk[c].doc \in raced

\* What a request has read of an invoice that no other request works on is still
\* so when it commits.
ReadIsCurrent ==
    \A c \in Clerks, d \in Invoices \ raced : clerk[c].doc = d =>
        /\ clerk[c].type = "ALTA" => invoice[d] = "DRAFT"
        /\ clerk[c].type = "ANULACION" =>
             invoice[d] = "FINALIZED" /\ AltaForDocument(d) /\ ~HasCancellation(d)

\* A record that was never sent is still to be sent; a record that is being sent
\* was still to be sent, unless two senders have it.
SendersAreSound ==
    /\ \A i \in Positions \ sent : i \in Unsent
    /\ \A s \in Senders :
         /\ sender[s].pc = "idle" => sender[s] = Quiet
         /\ sender[s].pc = "answered" =>
              sender[s].answer \in [sender[s].batch -> {"ACCEPTED", "REJECTED", "ERROR"}]
         /\ sender[s].batch \subseteq sent
         /\ \A i \in sender[s].batch : i \in Unsent \/ i \in doubled
         /\ s = Poller /\ sender[s].pc # "idle" => sender[s].for \in Positions
    /\ \A s, o \in Senders : s # o => sender[s].batch \cap sender[o].batch \subseteq doubled

RegisterInv ==
    /\ Typed /\ HeadIsLocked /\ ClerksAreSound /\ RacesAreSeen /\ ReadIsCurrent
    /\ SendersAreSound
    /\ ChainInOrder /\ RecordedOnce /\ SentInChainOrder /\ UnsentIsQueued

\* An empty register is sound.
LEMMA InitInv == VerifactuInit => RegisterInv
<1> SUFFICES ASSUME VerifactuInit PROVE RegisterInv
  OBVIOUS
<1>1. Len(<<>>) = 0 /\ Positions = {} /\ Unsent = {}
  BY DEF VerifactuInit, Positions, Unsent
<1>2. IsSeq(<<>>)
  BY EmptySeq DEF IsSeq
<1>3. Typed
  BY <1>1, <1>2 DEF VerifactuInit, Typed, VerifactuTypeOK, Free, Quiet
<1>4. HeadIsLocked /\ ClerksAreSound /\ RacesAreSeen /\ ReadIsCurrent /\ SendersAreSound
  BY <1>1 DEF VerifactuInit, HeadIsLocked, ClerksAreSound, RacesAreSeen, ReadIsCurrent, SendersAreSound,
              Free, Quiet
<1>5. \A d \in Invoices : ~AltaForDocument(d) /\ ~HasCancellation(d)
  BY <1>1 DEF AltaForDocument, HasCancellation, Of
<1>6. ChainInOrder /\ RecordedOnce /\ SentInChainOrder /\ UnsentIsQueued
  BY <1>1, <1>5 DEF VerifactuInit, ChainInOrder, VerifyChain, RecordedOnce, SentInChainOrder, UnsentIsQueued
<1> QED BY <1>3, <1>4, <1>6 DEF RegisterInv

\* What the properties of the chain's content depend on.
ChainPart == <<chain, head, clerk, now, invoice, raced, unchained>>

\* What the properties of the submission depend on.
SubmissionPart == <<chain, sub, event, sender, sent, doubled, ignored>>

\* A step that leaves the chain alone keeps what it says of each invoice.
LEMMA RecordsKept ==
    ASSUME UNCHANGED chain
    PROVE  \A d : /\ \A t : Of(d, t)' = Of(d, t)
                  /\ AltaForDocument(d)' = AltaForDocument(d)
                  /\ HasCancellation(d)' = HasCancellation(d)
<1>1. \A d, t : Of(d, t)' = Of(d, t)
  BY DEF Of, Positions
<1> QED BY <1>1 DEF AltaForDocument, HasCancellation

\* A step that leaves the chain's part alone keeps what is said of it.
LEMMA ChainPartKept ==
    ASSUME RegisterInv, UNCHANGED ChainPart
    PROVE  HeadIsLocked' /\ ClerksAreSound' /\ RacesAreSeen' /\ ReadIsCurrent' /\ ChainInOrder' /\ RecordedOnce'
<1> USE DEF RegisterInv, ChainPart
<1>1. HeadIsLocked' /\ ClerksAreSound' /\ RacesAreSeen'
  BY DEF HeadIsLocked, ClerksAreSound, RacesAreSeen, Positions
<1>2. ReadIsCurrent'
  BY RecordsKept DEF ReadIsCurrent
<1>3. ChainInOrder'
  BY DEF ChainInOrder, VerifyChain, Positions
<1>4. RecordedOnce'
  BY RecordsKept DEF RecordedOnce
<1> QED BY <1>1, <1>2, <1>3, <1>4

\* A step that leaves the submission's part alone keeps what is said of it.
LEMMA SubmissionPartKept ==
    ASSUME RegisterInv, UNCHANGED SubmissionPart
    PROVE  SendersAreSound' /\ SentInChainOrder' /\ UnsentIsQueued'
BY DEF RegisterInv, SubmissionPart, SendersAreSound, SentInChainOrder, UnsentIsQueued, Unsent, Positions

\* Typed speaks of the chain, its submissions and events through their lengths.
LEMMA TypedKept ==
    ASSUME Typed, UNCHANGED <<chain, sub, event, sender, sent, agency>>,
           settings' \in [enabled : BOOLEAN, cert : BOOLEAN], now' \in 0..MaxTime, faults' \in 0..MaxFaults,
           invoice' \in [Invoices -> {"DRAFT", "FINALIZED", "CANCELLED"}], raced' \subseteq Invoices,
           clerk' \in [Clerks -> [pc : {"idle", "read", "locked"}, doc : Invoices \cup {NoInvoice},
                                  type : {"none", "ALTA", "ANULACION", "skip"}, at : 0..MaxTime]]
    PROVE  Typed'
<1>1. VerifactuTypeOK'
  BY DEF Typed, VerifactuTypeOK, Positions
<1> QED BY <1>1 DEF Typed, Positions

\* The settings and the clock.
LEMMA SettingsInv ==
    ASSUME RegisterInv, SaveSettings \/ UploadCertificate \/ Tick
    PROVE  RegisterInv'
<1> USE DEF RegisterInv
<1>1. UNCHANGED SubmissionPart /\ UNCHANGED <<chain, head, clerk, invoice, raced, unchained, agency>>
  BY DEF SaveSettings, UploadCertificate, Tick, SubmissionPart, chainHistory
<1>2. now' \in 0..MaxTime /\ now <= now' /\ now \in Nat
  BY DEF SaveSettings, UploadCertificate, Tick, Typed, VerifactuTypeOK
<1>3. faults' \in 0..MaxFaults
  BY DEF SaveSettings, UploadCertificate, Tick, Typed, VerifactuTypeOK, chainHistory
<1>4. settings' \in [enabled : BOOLEAN, cert : BOOLEAN]
  <2>1. settings \in [enabled : BOOLEAN, cert : BOOLEAN]
    BY DEF Typed, VerifactuTypeOK
  <2>2. CASE SaveSettings
    BY <2>1, <2>2 DEF SaveSettings
  <2>3. CASE UploadCertificate
    BY <2>1, <2>3 DEF UploadCertificate
  <2>4. CASE Tick
    BY <2>1, <2>4 DEF Tick
  <2> QED BY <2>2, <2>3, <2>4
<1>5. Typed'
  BY <1>1, <1>2, <1>3, <1>4, TypedKept DEF Typed, VerifactuTypeOK, SubmissionPart
<1>6. HeadIsLocked'
  <2>1. \A c \in Clerks : clerk[c].at \in Nat
    BY DEF Typed, VerifactuTypeOK
  <2> QED BY <1>1, <1>2, <2>1 DEF HeadIsLocked, Typed, Positions
<1>7. ClerksAreSound' /\ RacesAreSeen'
  BY <1>1 DEF ClerksAreSound, RacesAreSeen
<1>8. ReadIsCurrent' /\ RecordedOnce'
  BY <1>1, RecordsKept DEF ReadIsCurrent, RecordedOnce
<1>9. ChainInOrder'
  BY <1>1 DEF ChainInOrder, VerifyChain, Positions
<1> QED BY <1>1, <1>5, <1>6, <1>7, <1>8, <1>9, SubmissionPartKept

Clerk == [pc : {"idle", "read", "locked"}, doc : Invoices \cup {NoInvoice},
          type : {"none", "ALTA", "ANULACION", "skip"}, at : 0..MaxTime]

\* A request begins to work on an invoice.
LEMMA BeginInv ==
    ASSUME RegisterInv, NEW c \in Clerks, NEW d \in Invoices, NEW t \in {"ALTA", "ANULACION", "skip"},
           BeginAs(c, d, t, 0),
           t = "ALTA" => invoice[d] = "DRAFT",
           t = "ANULACION" => invoice[d] = "FINALIZED" /\ AltaForDocument(d) /\ ~HasCancellation(d)
    PROVE  RegisterInv'
<1> USE DEF RegisterInv
<1> DEFINE new == [pc |-> "read", doc |-> d, type |-> t, at |-> 0]
<1>1. /\ UNCHANGED SubmissionPart
      /\ UNCHANGED <<chain, head, now, settings, agency, faults, invoice, unchained>>
      /\ clerk' = [clerk EXCEPT ![c] = new] /\ new \in Clerk
      /\ raced' = IF \E o \in Clerks : clerk[o].doc = d THEN raced \cup {d} ELSE raced
  BY DEF BeginAs, SubmissionPart, Clerk
<1>2. /\ clerk \in [Clerks -> Clerk]
      /\ clerk'[c] = new /\ \A o \in Clerks : o # c => clerk'[o] = clerk[o]
  BY <1>1 DEF Typed, VerifactuTypeOK, Clerk
<1>3. raced \subseteq raced' /\ raced' \subseteq Invoices
  BY <1>1 DEF Typed
<1>4. Typed'
  BY <1>1, <1>2, <1>3, TypedKept DEF Typed, VerifactuTypeOK, Clerk, SubmissionPart
<1>5. HeadIsLocked'
  BY <1>1, <1>2 DEF HeadIsLocked, Positions
<1>6. ClerksAreSound'
  BY <1>2 DEF ClerksAreSound
<1>7. RacesAreSeen'
  BY <1>1, <1>2, <1>3 DEF RacesAreSeen
<1>8. ReadIsCurrent'
  <2> SUFFICES ASSUME NEW o \in Clerks, NEW e \in Invoices \ raced', clerk'[o].doc = e
               PROVE  /\ clerk'[o].type = "ALTA" => invoice'[e] = "DRAFT"
                      /\ clerk'[o].type = "ANULACION" =>
                           invoice'[e] = "FINALIZED" /\ AltaForDocument(e)' /\ ~HasCancellation(e)'
    BY DEF ReadIsCurrent
  <2> QED BY <1>1, <1>2, <1>3, RecordsKept DEF ReadIsCurrent
<1>9. ChainInOrder'
  BY <1>1 DEF ChainInOrder, VerifyChain, Positions
<1>10. RecordedOnce'
  BY <1>1, <1>3, RecordsKept DEF RecordedOnce
<1> QED BY <1>1, <1>4, <1>5, <1>6, <1>7, <1>8, <1>9, <1>10, SubmissionPartKept

\* A request takes the lock of the chain's head and then looks at the clock.
LEMMA LockHeadInv ==
    ASSUME RegisterInv, NEW c \in Clerks, LockHead(c)
    PROVE  RegisterInv'
<1> USE DEF RegisterInv
<1> DEFINE new == [clerk[c] EXCEPT !.pc = "locked", !.at = now]
<1>1. /\ UNCHANGED SubmissionPart
      /\ UNCHANGED <<chain, head, now, settings, agency, faults, invoice, unchained, raced>>
      /\ clerk' = [clerk EXCEPT ![c] = new]
      /\ clerk[c].pc = "read" /\ clerk[c].type # "skip" /\ \A o \in Clerks : clerk[o].pc # "locked"
  BY DEF LockHead, SubmissionPart, chainHistory
<1>2. clerk \in [Clerks -> Clerk] /\ clerk[c] \in Clerk /\ now \in 0..MaxTime
  BY DEF Typed, VerifactuTypeOK, Clerk
<1>3. new \in Clerk
  BY <1>2 DEF Clerk
<1>4. /\ clerk'[c].pc = "locked" /\ clerk'[c].at = now
      /\ clerk'[c].doc = clerk[c].doc /\ clerk'[c].type = clerk[c].type
      /\ \A o \in Clerks : o # c => clerk'[o] = clerk[o]
  BY <1>1, <1>2 DEF Clerk
<1>5. Typed'
  BY <1>1, <1>2, <1>3, TypedKept DEF Typed, VerifactuTypeOK, Clerk, SubmissionPart
<1>6. HeadIsLocked'
  BY <1>1, <1>2, <1>4 DEF HeadIsLocked, Positions
<1>7. ClerksAreSound'
  <2>1. clerk[c].type \in {"ALTA", "ANULACION"}
    BY <1>1, <1>2 DEF ClerksAreSound, Clerk
  <2> QED BY <1>1, <1>4, <2>1 DEF ClerksAreSound
<1>8. RacesAreSeen'
  BY <1>1, <1>4 DEF RacesAreSeen
<1>9. ReadIsCurrent'
  <2> SUFFICES ASSUME NEW o \in Clerks, NEW e \in Invoices \ raced', clerk'[o].doc = e
               PROVE  /\ clerk'[o].type = "ALTA" => invoice'[e] = "DRAFT"
                      /\ clerk'[o].type = "ANULACION" =>
                           invoice'[e] = "FINALIZED" /\ AltaForDocument(e)' /\ ~HasCancellation(e)'
    BY DEF ReadIsCurrent
  <2>1. clerk[o].doc = e /\ clerk[o].type = clerk'[o].type
    BY <1>4
  <2> QED BY <1>1, <2>1, RecordsKept DEF ReadIsCurrent
<1>10. ChainInOrder'
  BY <1>1 DEF ChainInOrder, VerifyChain, Positions
<1>11. RecordedOnce'
  BY <1>1, RecordsKept DEF RecordedOnce
<1> QED BY <1>1, <1>5, <1>6, <1>7, <1>8, <1>9, <1>10, <1>11, SubmissionPartKept

\* A request that ends frees its invoice and the lock.
LEMMA ClerkEnds ==
    ASSUME RegisterInv, NEW c \in Clerks, clerk' = [clerk EXCEPT ![c] = Free],
           UNCHANGED raced
    PROVE  /\ clerk' \in [Clerks -> Clerk] /\ clerk'[c] = Free /\ Free.doc = NoInvoice /\ Free.pc = "idle"
           /\ \A o \in Clerks : o # c => clerk'[o] = clerk[o]
           /\ ClerksAreSound' /\ RacesAreSeen'
           /\ \A o \in Clerks, e \in Invoices \ raced : clerk'[o].doc = e =>
                o # c /\ clerk'[o] = clerk[o] /\ clerk[c].doc # e
<1>1. clerk \in [Clerks -> Clerk] /\ Free \in Clerk /\ Free.pc = "idle" /\ Free.doc = NoInvoice
  BY DEF RegisterInv, Typed, VerifactuTypeOK, Clerk, Free
<1>2. clerk' \in [Clerks -> Clerk] /\ clerk'[c] = Free /\ \A o \in Clerks : o # c => clerk'[o] = clerk[o]
  BY <1>1
<1>3. ClerksAreSound' /\ RacesAreSeen'
  BY <1>1, <1>2 DEF RegisterInv, ClerksAreSound, RacesAreSeen
<1>4. ASSUME NEW o \in Clerks, NEW e \in Invoices \ raced, clerk'[o].doc = e
      PROVE  o # c /\ clerk'[o] = clerk[o] /\ clerk[c].doc # e
  BY <1>1, <1>2, <1>4 DEF RegisterInv, RacesAreSeen
<1> QED BY <1>1, <1>2, <1>3, <1>4

\* A request ends without a record, and the document with it or as it was.
LEMMA UnrecordedInv ==
    ASSUME RegisterInv, NEW c \in Clerks, CommitUnrecorded(c) \/ Abandon(c)
    PROVE  RegisterInv'
<1> USE DEF RegisterInv
<1>1. /\ UNCHANGED SubmissionPart /\ UNCHANGED <<chain, head, now, settings, agency, faults, raced>>
      /\ clerk' = [clerk EXCEPT ![c] = Free] /\ clerk[c].pc # "idle"
  BY DEF CommitUnrecorded, Abandon, SubmissionPart, chainHistory
<1>2. PICK d \in Invoices : d = clerk[c].doc
  BY <1>1 DEF ClerksAreSound
<1>3. invoice \in [Invoices -> {"DRAFT", "FINALIZED", "CANCELLED"}]
  BY DEF Typed, VerifactuTypeOK
<1>4. \/ invoice' = invoice /\ unchained' = unchained
      \/ /\ unchained' = unchained \cup {d}
         /\ invoice' = [invoice EXCEPT ![d] = IF @ = "DRAFT" THEN "FINALIZED" ELSE "CANCELLED"]
  BY <1>2 DEF CommitUnrecorded, Abandon, chainHistory
<1>5. /\ invoice' \in [Invoices -> {"DRAFT", "FINALIZED", "CANCELLED"}]
      /\ \A e \in Invoices \ {d} : invoice'[e] = invoice[e]
  BY <1>3, <1>4
<1>6. Typed'
  BY <1>1, <1>5, ClerkEnds, TypedKept DEF Typed, VerifactuTypeOK, Clerk, SubmissionPart
<1>7. HeadIsLocked'
  BY <1>1, ClerkEnds DEF HeadIsLocked, Positions
<1>8. ReadIsCurrent'
  <2> SUFFICES ASSUME NEW o \in Clerks, NEW e \in Invoices \ raced, clerk'[o].doc = e
               PROVE  /\ clerk'[o].type = "ALTA" => invoice'[e] = "DRAFT"
                      /\ clerk'[o].type = "ANULACION" =>
                           invoice'[e] = "FINALIZED" /\ AltaForDocument(e)' /\ ~HasCancellation(e)'
    BY <1>1 DEF ReadIsCurrent
  <2>1. clerk[o].doc = e /\ clerk'[o] = clerk[o] /\ e # d
    BY <1>1, <1>2, ClerkEnds
  <2> QED BY <1>1, <1>5, <2>1, RecordsKept DEF ReadIsCurrent
<1>9. ChainInOrder'
  BY <1>1 DEF ChainInOrder, VerifyChain, Positions
<1>10. RecordedOnce'
  <2> SUFFICES ASSUME NEW e \in Invoices \ raced PROVE RecordedOnce!(e)'
    BY <1>1 DEF RecordedOnce
  <2>1. /\ \A t : Of(e, t)' = Of(e, t)
        /\ AltaForDocument(e)' = AltaForDocument(e) /\ HasCancellation(e)' = HasCancellation(e)
    BY <1>1, RecordsKept
  <2>2. RecordedOnce!(e)
    BY DEF RecordedOnce
  <2>3. CASE e = d
    BY <1>3, <1>4, <2>1, <2>2, <2>3
  <2>4. CASE e # d
    BY <1>4, <1>5, <2>1, <2>2, <2>4
  <2> QED BY <2>3, <2>4
<1> QED BY <1>1, <1>6, <1>7, <1>8, <1>9, <1>10, ClerkEnds, SubmissionPartKept

\* The commit of a request that has its record: the record continues the chain.
LEMMA AppendInv ==
    ASSUME RegisterInv, NEW c \in Clerks, AppendRecord(c)
    PROVE  RegisterInv'
<1> USE DEF RegisterInv
<1> DEFINE n == Len(chain)
<1>0. PICK d \in Invoices, t \in {"ALTA", "ANULACION"} : d = clerk[c].doc /\ t = clerk[c].type
  BY DEF AppendRecord, ClerksAreSound
<1>1. PICK r : r = Record(d, t, clerk[c].at, head.hash)
  OBVIOUS
<1>2. /\ clerk[c].pc = "locked" /\ n < MaxRecords
      /\ chain' = Append(chain, r)
      /\ sub' = Append(sub, [status |-> "PENDING", due |-> "now"])
      /\ event' = Append(event, "open")
      /\ head' = [seq |-> head.seq + 1, hash |-> Hash(r)]
      /\ invoice' = [invoice EXCEPT ![d] = IF @ = "DRAFT" THEN "FINALIZED"
                                           ELSE IF t = "ANULACION" THEN "CANCELLED" ELSE @]
      /\ clerk' = [clerk EXCEPT ![c] = Free]
      /\ UNCHANGED <<settings, now, sender, agency, sent, doubled, raced, unchained, ignored, faults>>
  BY <1>0, <1>1 DEF AppendRecord, Becomes, chainHistory
<1>3. /\ r.doc = d /\ r.type = t /\ r.at = clerk[c].at /\ r.prev = head.hash
  BY <1>1 DEF Record
<1>4. /\ n \in Nat /\ Len(chain') = n + 1 /\ IsSeq(chain')
      /\ \A i \in 1..n : chain'[i] = chain[i]
      /\ chain'[n + 1] = r
  BY <1>2, AppendFacts DEF Typed
<1>5. /\ Len(sub) = n /\ Len(sub') = n + 1 /\ IsSeq(sub')
      /\ \A i \in 1..n : sub'[i] = sub[i]
      /\ sub'[n + 1] = [status |-> "PENDING", due |-> "now"]
  <2>1. Len(sub) = n /\ IsSeq(sub)
    BY DEF Typed, VerifactuTypeOK
  <2> HIDE DEF RegisterInv
  <2> QED BY <1>2, <2>1, AppendFacts
<1>6. /\ Len(event) = n /\ Len(event') = n + 1 /\ IsSeq(event')
      /\ \A i \in 1..n : event'[i] = event[i]
      /\ event'[n + 1] = "open"
  <2>1. Len(event) = n /\ IsSeq(event)
    BY DEF Typed, VerifactuTypeOK
  <2> HIDE DEF RegisterInv
  <2> QED BY <1>2, <2>1, AppendFacts
<1>7. Positions = 1..n /\ Positions' = 1..(n + 1)
  BY <1>4 DEF Positions
<1>8. head.seq = n /\ head.hash = (IF chain = <<>> THEN <<>> ELSE Hash(chain[n]))
  BY DEF ChainInOrder, VerifyChain
<1>9. clerk[c].at \in Nat /\ clerk[c].at <= now /\ \A i \in 1..n : chain[i].at <= clerk[c].at
  BY <1>2, <1>7 DEF HeadIsLocked, Typed, VerifactuTypeOK
<1>10. Typed'
  <2>1. invoice' \in [Invoices -> {"DRAFT", "FINALIZED", "CANCELLED"}]
    BY <1>2 DEF Typed, VerifactuTypeOK
  <2>2. clerk' \in [Clerks -> Clerk]
    BY <1>2, ClerkEnds
  <2>3. \A i \in 1..(n + 1) : i \in 1..n \/ i = n + 1
    BY <1>4
  <2>4. \A i \in Positions' :
          /\ sub'[i] \in [status : {"PENDING", "ACCEPTED", "REJECTED", "ERROR"}, due : {"now", "later"}]
          /\ event'[i] \in {"open", "stuck", "done"}
          /\ chain'[i].at \in Nat
    BY <1>3, <1>4, <1>5, <1>6, <1>7, <1>9, <2>3 DEF Typed, VerifactuTypeOK
  <2>5. Positions \subseteq Positions'
    BY <1>4, <1>7
  <2>6. /\ Len(chain') = Len(sub') /\ Len(chain') = Len(event') /\ Len(chain') <= MaxRecords
    BY <1>2, <1>4, <1>5, <1>6
  <2>7. \A s \in Senders : sender'[s].pc \in {"idle", "sending", "answered"} /\ sender'[s].batch \subseteq Positions'
    BY <1>2, <2>5 DEF Typed, VerifactuTypeOK
  <2>8. agency' \subseteq Positions' /\ sent' \subseteq Positions'
    BY <1>2, <2>5 DEF Typed, VerifactuTypeOK
  <2>9. VerifactuTypeOK'
    BY <1>2, <2>1, <2>2, <2>4, <2>6, <2>7, <2>8 DEF Typed, VerifactuTypeOK, Clerk
  <2>10. \A i \in Positions' : chain'[i].at \in Nat
    BY <2>4
  <2>11. /\ DOMAIN sender' = Senders /\ sender' = [s \in Senders |-> sender'[s]]
         /\ \A s \in Senders : sender'[s] = [pc |-> sender'[s].pc, batch |-> sender'[s].batch,
                                             answer |-> sender'[s].answer, for |-> sender'[s].for]
         /\ raced' \subseteq Invoices /\ faults' \in Nat
    BY <1>2 DEF Typed
  <2> QED BY <1>4, <1>5, <1>6, <2>8, <2>9, <2>10, <2>11 DEF Typed
<1>11. HeadIsLocked'
  <2>1. \A o \in Clerks : clerk'[o].pc # "locked"
    BY <1>2, ClerkEnds DEF HeadIsLocked
  <2>2. \A i \in 1..(n + 1) : chain'[i].at <= now
    <3> SUFFICES ASSUME NEW i \in 1..(n + 1) PROVE chain'[i].at <= now
      OBVIOUS
    <3>1. CASE i = n + 1
      BY <1>3, <1>4, <1>9, <3>1
    <3>2. CASE i \in 1..n
      BY <1>4, <1>7, <3>2 DEF HeadIsLocked
    <3> QED BY <1>4, <3>1, <3>2
  <2> QED BY <1>2, <1>7, <2>1, <2>2 DEF HeadIsLocked
<1>12. ChainInOrder'
  <2>1. chain' # <<>> /\ (chain = <<>> <=> n = 0)
    BY <1>4, EmptySeq DEF Typed, IsSeq
  <2>2. ASSUME NEW i \in 1..(n + 1) PROVE chain'[i].prev = IF i = 1 THEN <<>> ELSE Hash(chain'[i - 1])
    <3>1. CASE i = n + 1 /\ n = 0
      BY <1>3, <1>4, <1>8, <2>1, <3>1
    <3>2. CASE i = n + 1 /\ n # 0
      BY <1>3, <1>4, <1>8, <2>1, <3>2
    <3>3. CASE i \in 1..n
      <4>1. i # 1 => i - 1 \in 1..n
        BY <1>4, <3>3
      <4> QED BY <1>4, <1>7, <3>3, <4>1 DEF ChainInOrder, VerifyChain
    <3> QED BY <1>4, <3>1, <3>2, <3>3
  <2>3. head' = [seq |-> Len(chain'), hash |-> IF chain' = <<>> THEN <<>> ELSE Hash(chain'[Len(chain')])]
    BY <1>2, <1>4, <1>8, <2>1
  <2>4. ASSUME NEW i \in 1..(n + 1), NEW j \in 1..(n + 1), i < j PROVE chain'[i].at <= chain'[j].at
    <3>1. i \in 1..n
      BY <1>4, <2>4
    <3>2. CASE j = n + 1
      BY <1>3, <1>4, <1>9, <3>1, <3>2
    <3>3. CASE j \in 1..n
      BY <1>4, <1>7, <2>4, <3>1, <3>3 DEF ChainInOrder
    <3> QED BY <1>4, <3>2, <3>3
  <2> QED BY <1>7, <2>2, <2>3, <2>4 DEF ChainInOrder, VerifyChain
<1>13. \A e, u : Of(e, u)' = IF e = d /\ u = t THEN Of(e, u) \cup {n + 1} ELSE Of(e, u)
  BY <1>3, <1>4, <1>7 DEF Of
<1>14. \A e, u : Of(e, u) \subseteq 1..n
  BY <1>7 DEF Of
<1>15. /\ \A e : e # d => /\ AltaForDocument(e)' = AltaForDocument(e)
                          /\ HasCancellation(e)' = HasCancellation(e)
                          /\ \A u : Of(e, u)' = Of(e, u)
       /\ t = "ALTA" => HasCancellation(d)' = HasCancellation(d) /\ AltaForDocument(d)'
       /\ t = "ANULACION" => AltaForDocument(d)' = AltaForDocument(d) /\ HasCancellation(d)'
  BY <1>13 DEF AltaForDocument, HasCancellation
<1>16. invoice \in [Invoices -> {"DRAFT", "FINALIZED", "CANCELLED"}]
  BY DEF Typed, VerifactuTypeOK
<1>17. ReadIsCurrent'
  <2> SUFFICES ASSUME NEW o \in Clerks, NEW e \in Invoices \ raced, clerk'[o].doc = e
               PROVE  /\ clerk'[o].type = "ALTA" => invoice'[e] = "DRAFT"
                      /\ clerk'[o].type = "ANULACION" =>
                           invoice'[e] = "FINALIZED" /\ AltaForDocument(e)' /\ ~HasCancellation(e)'
    BY <1>2 DEF ReadIsCurrent
  <2>1. clerk[o].doc = e /\ clerk'[o] = clerk[o] /\ e # d
    BY <1>0, <1>2, ClerkEnds
  <2> QED BY <1>2, <1>15, <1>16, <2>1 DEF ReadIsCurrent
<1>18. RecordedOnce'
  <2> SUFFICES ASSUME NEW e \in Invoices \ raced PROVE RecordedOnce!(e)'
    BY <1>2 DEF RecordedOnce
  <2>1. RecordedOnce!(e)
    BY DEF RecordedOnce
  <2>2. CASE e # d
    BY <1>2, <1>15, <1>16, <2>1, <2>2
  <2>3. CASE e = d /\ t = "ALTA"
    <3>1. invoice[e] = "DRAFT" /\ invoice'[e] = "FINALIZED"
      BY <1>0, <1>2, <1>16, <2>3 DEF ReadIsCurrent
    <3>2. Of(e, "ALTA") = {} /\ ~HasCancellation(e)
      BY <2>1, <3>1 DEF AltaForDocument
    <3>3. Of(e, "ALTA")' = {n + 1}
      BY <1>13, <2>3, <3>2
    <3>4. Cardinality(Of(e, "ALTA")') = 1
      BY <3>3, FS_Singleton
    <3> QED BY <1>15, <2>3, <3>1, <3>2, <3>4
  <2>4. CASE e = d /\ t = "ANULACION"
    <3>1. /\ invoice[e] = "FINALIZED" /\ invoice'[e] = "CANCELLED"
          /\ AltaForDocument(e) /\ ~HasCancellation(e)
      BY <1>0, <1>2, <1>16, <2>4 DEF ReadIsCurrent
    <3>2. Of(e, "ANULACION")' = {n + 1} /\ Of(e, "ALTA")' = Of(e, "ALTA")
      BY <1>13, <2>4, <3>1 DEF HasCancellation
    <3>3. Cardinality(Of(e, "ANULACION")') = 1
      BY <3>2, FS_Singleton
    <3>4. \A i \in Of(e, "ALTA")', j \in Of(e, "ANULACION")' : i < j
      BY <1>4, <1>14, <3>2
    <3> QED BY <1>15, <2>1, <2>4, <3>1, <3>2, <3>3, <3>4
  <2> QED BY <2>2, <2>3, <2>4
<1>19. Unsent' = Unsent \cup {n + 1}
  BY <1>4, <1>5, <1>7 DEF Unsent
<1>20. SendersAreSound' /\ SentInChainOrder'
  <2>1. ASSUME NEW i \in Positions' \ sent' PROVE i \in Positions \ sent \/ i = n + 1
    BY <1>2, <1>4, <1>7
  <2>2. Positions \subseteq Positions'
    BY <1>4, <1>7
  <2> QED BY <1>2, <1>19, <2>1, <2>2 DEF SendersAreSound, SentInChainOrder
<1>21. UnsentIsQueued'
  <2>1. n + 1 \in Positions' /\ event'[n + 1] \in {"open", "stuck"}
    BY <1>4, <1>6, <1>7
  <2> QED BY <2>1 DEF UnsentIsQueued
<1> QED BY <1>2, <1>10, <1>11, <1>12, <1>17, <1>18, <1>20, <1>21, ClerkEnds
-----------------------------------------------------------------------------
(* Submission *)

Submission == [status : {"PENDING", "ACCEPTED", "REJECTED", "ERROR"}, due : {"now", "later"}]
Call(pc, batch, answer, for) == [pc |-> pc, batch |-> batch, answer |-> answer, for |-> for]

\* The lengths and elements of the sequences that a sender may change.
LEMMA Lengths ==
    ASSUME RegisterInv
    PROVE  /\ Len(chain) \in Nat /\ Positions = 1..Len(chain)
           /\ sub \in [Positions -> Submission]
           /\ event \in [Positions -> {"open", "stuck", "done"}]
           /\ agency \subseteq Positions /\ sent \subseteq Positions /\ faults \in 0..MaxFaults
           /\ \A s \in Senders : sender[s].batch \subseteq Positions
<1>1. Len(chain) \in Nat /\ Positions = 1..Len(chain)
  BY AppendFacts DEF RegisterInv, Typed, Positions
<1>2. /\ IsSeq(sub) /\ Len(sub) = Len(chain) /\ \A i \in 1..Len(sub) : sub[i] \in Submission
      /\ IsSeq(event) /\ Len(event) = Len(chain)
      /\ \A i \in 1..Len(event) : event[i] \in {"open", "stuck", "done"}
  BY <1>1 DEF RegisterInv, Typed, VerifactuTypeOK, Submission
<1>3. sub \in [1..Len(sub) -> Submission] /\ event \in [1..Len(event) -> {"open", "stuck", "done"}]
  BY <1>2, SeqIsFunction
<1> QED BY <1>1, <1>2, <1>3 DEF RegisterInv, Typed, VerifactuTypeOK

\* Nothing that a sender does touches the chain or its requests.
LEMMA SubmissionTyped ==
    ASSUME RegisterInv, UNCHANGED <<chain, clerk, invoice, now, settings, raced>>,
           sub' \in [Positions -> Submission], event' \in [Positions -> {"open", "stuck", "done"}],
           agency' \subseteq Positions, sent' \subseteq Positions, faults' \in 0..MaxFaults,
           NEW s \in Senders, NEW pc \in {"idle", "sending", "answered"},
           NEW batch \in SUBSET Positions, NEW answer, NEW for,
           sender' = sender \/ sender' = [sender EXCEPT ![s] = Call(pc, batch, answer, for)]
    PROVE  Typed'
<1>0. Len(chain) \in Nat /\ Positions = 1..Len(chain)
  BY Lengths
<1>9. IsSeq(sub') /\ Len(sub') = Len(chain) /\ IsSeq(event') /\ Len(event') = Len(chain)
  BY <1>0, SameLength
<1>1. Positions' = Positions
  BY DEF Positions
<1>2. \A o \in Senders : \/ sender'[o] = sender[o]
                         \/ sender'[o] = Call(pc, batch, answer, for)
  BY DEF RegisterInv, Typed
<1>3. /\ DOMAIN sender' = Senders /\ sender' = [o \in Senders |-> sender'[o]]
      /\ \A o \in Senders : sender'[o] = [pc |-> sender'[o].pc, batch |-> sender'[o].batch,
                                          answer |-> sender'[o].answer, for |-> sender'[o].for]
  BY <1>2 DEF RegisterInv, Typed, Call
<1>4. \A o \in Senders : sender'[o].pc \in {"idle", "sending", "answered"} /\ sender'[o].batch \subseteq Positions
  BY <1>2 DEF RegisterInv, Typed, VerifactuTypeOK, Call
<1>5. VerifactuTypeOK'
  BY <1>1, <1>4, <1>9 DEF RegisterInv, Typed, VerifactuTypeOK, Submission
<1>6. \A i \in Positions' : chain'[i].at \in Nat
  BY <1>1 DEF RegisterInv, Typed
<1>7. raced' \subseteq Invoices /\ faults' \in Nat
  BY DEF RegisterInv, Typed
<1>8. IsSeq(chain)'
  BY DEF RegisterInv, Typed
<1> QED BY <1>1, <1>3, <1>5, <1>6, <1>7, <1>8, <1>9 DEF Typed

\* A sender takes the oldest unsent records, whoever else is sending them.
LEMMA SendInv ==
    ASSUME RegisterInv, NEW s \in Senders, NEW i, s = Poller => i \in Positions,
           sender[s].pc = "idle", Send(s, i)
    PROVE  RegisterInv'
<1> USE DEF RegisterInv
<1>1. /\ sender' = [sender EXCEPT ![s] = Call("sending", Due, <<>>, i)]
      /\ sent' = sent \cup Due
      /\ doubled' = doubled \cup {j \in Due : \E o \in Senders : j \in sender[o].batch}
      /\ UNCHANGED <<settings, invoice, chain, head, clerk, now, sub, event, agency, raced, unchained,
                     ignored, faults>>
  BY DEF Send, Call
<1>2. Due \subseteq Unsent /\ Unsent \subseteq Positions
  BY DEF Due, Unsent
<1>3. Unsent' = Unsent /\ Positions' = Positions
  BY <1>1 DEF Unsent, Positions
<1>4. Typed'
  <2>1. Due \in SUBSET Positions /\ sent' \subseteq Positions
    BY <1>1, <1>2, Lengths
  <2> HIDE DEF RegisterInv
  <2> QED BY <1>1, <2>1, Lengths, SubmissionTyped
<1>5. /\ sender'[s].pc = "sending" /\ sender'[s].batch = Due /\ sender'[s].for = i
      /\ \A o \in Senders : o # s => sender'[o] = sender[o]
  BY <1>1 DEF Typed, Call
<1>6. SendersAreSound'
  <2>1. ASSUME NEW o \in Senders
        PROVE  /\ sender'[o].pc = "idle" => sender'[o] = Quiet
               /\ sender'[o].pc = "answered" =>
                    sender'[o].answer \in [sender'[o].batch -> {"ACCEPTED", "REJECTED", "ERROR"}]
               /\ sender'[o].batch \subseteq sent'
               /\ \A j \in sender'[o].batch : j \in Unsent' \/ j \in doubled'
               /\ o = Poller /\ sender'[o].pc # "idle" => sender'[o].for \in Positions'
    BY <1>1, <1>2, <1>3, <1>5 DEF SendersAreSound
  <2>2. ASSUME NEW o \in Senders, NEW q \in Senders, o # q
        PROVE  sender'[o].batch \cap sender'[q].batch \subseteq doubled'
    BY <1>1, <1>5, <2>2 DEF SendersAreSound
  <2>3. \A j \in Positions' \ sent' : j \in Unsent'
    BY <1>1, <1>3 DEF SendersAreSound
  <2> QED BY <2>1, <2>2, <2>3 DEF SendersAreSound
<1>7. SentInChainOrder'
  <2> SUFFICES ASSUME NEW j \in sent', NEW k \in 1..(j - 1) PROVE k \in sent'
    BY DEF SentInChainOrder
  <2>1. Len(chain) \in Nat /\ sent' \subseteq Positions /\ Positions = 1..Len(chain)
    BY <1>1, <1>2, Lengths
  <2>2. k \in Positions /\ k < j
    BY <2>1
  <2>3. CASE j \in sent
    BY <1>1, <2>3 DEF SentInChainOrder
  <2>4. CASE j \in Due
    <3>1. CASE k \in Unsent
      BY <1>1, <2>1, <2>2, <2>4, <3>1, DueIsPrefix
    <3>2. CASE k \notin Unsent
      BY <1>1, <2>2, <3>2 DEF SendersAreSound
    <3> QED BY <3>1, <3>2
  <2> QED BY <1>1, <2>3, <2>4
<1>8. UnsentIsQueued'
  BY <1>1, <1>3 DEF UnsentIsQueued
<1>9. UNCHANGED ChainPart
  BY <1>1 DEF ChainPart
<1> QED BY <1>4, <1>6, <1>7, <1>8, <1>9, ChainPartKept

\* Handling an event that leaves nothing to send, or while the register is off.
LEMMA HandleNothingInv ==
    ASSUME RegisterInv, NEW i, HandleNothing(i)
    PROVE  RegisterInv'
<1> USE DEF RegisterInv
<1>1. /\ i \in Positions /\ (~settings.enabled \/ Unsent = {})
      /\ event' = [event EXCEPT ![i] = "done"]
      /\ ignored' = IF settings.enabled THEN ignored ELSE ignored \cup {i}
      /\ UNCHANGED <<settings, invoice, chain, head, clerk, now, sub, sender, agency,
                     sent, doubled, raced, unchained, faults>>
  BY DEF HandleNothing, Handles
<1>2. Unsent' = Unsent /\ Positions' = Positions
  BY <1>1 DEF Unsent, Positions
<1>3. event' \in [Positions -> {"open", "stuck", "done"}]
  BY <1>1, Lengths
<1>4. Typed'
  <2>1. {} \in SUBSET Positions
    OBVIOUS
  <2>2. Poller \in Senders
    OBVIOUS
  <2> HIDE DEF RegisterInv
  <2> QED BY <1>1, <1>3, <2>1, <2>2, Lengths, SubmissionTyped
<1>5. SendersAreSound' /\ SentInChainOrder'
  BY <1>1, <1>2 DEF SendersAreSound, SentInChainOrder
<1>6. UnsentIsQueued'
  BY <1>1, <1>2 DEF UnsentIsQueued
<1>7. UNCHANGED ChainPart
  BY <1>1 DEF ChainPart
<1> QED BY <1>4, <1>5, <1>6, <1>7, ChainPartKept

\* A waiting time ends, by itself or because a user asks for it.
LEMMA WaitInv ==
    ASSUME RegisterInv, (\E s \in Senders : RetryNow(s)) \/ (\E i \in 1..MaxRecords : WaitOver(i))
    PROVE  RegisterInv'
<1> USE DEF RegisterInv
<1>1. UNCHANGED <<settings, invoice, chain, head, clerk, now, event, sender, agency, chainHistory>>
  BY DEF RetryNow, WaitOver
<1>2. sub' \in [Positions -> Submission] /\ \A i \in Positions : sub'[i].status = sub[i].status
  <2>1. CASE \E s \in Senders : RetryNow(s)
    <3>1. sub' = [i \in Positions |-> IF i \in Unsent THEN [sub[i] EXCEPT !.due = "now"] ELSE sub[i]]
      BY <2>1 DEF RetryNow
    <3>2. \A i \in Positions : sub'[i] \in Submission /\ sub'[i].status = sub[i].status
      BY <3>1, Lengths DEF Submission
    <3> QED BY <3>1, <3>2
  <2>2. CASE \E i \in 1..MaxRecords : WaitOver(i)
    <3>1. PICK i \in Unsent : sub' = [sub EXCEPT ![i].due = "now"]
      BY <2>2 DEF WaitOver
    <3>2. i \in Positions
      BY <3>1 DEF Unsent
    <3> QED BY <3>1, <3>2, Lengths DEF Submission
  <2> QED BY <2>1, <2>2
<1>3. Unsent' = Unsent /\ Positions' = Positions
  BY <1>1, <1>2 DEF Unsent, Positions
<1>4. Typed'
  <2>1. {} \in SUBSET Positions /\ Poller \in Senders
    OBVIOUS
  <2>2. sent' \subseteq Positions /\ agency' \subseteq Positions /\ faults' \in 0..MaxFaults /\ raced' = raced
    BY <1>1, Lengths DEF chainHistory
  <2> HIDE DEF RegisterInv
  <2> QED BY <1>1, <1>2, <2>1, <2>2, Lengths, SubmissionTyped
<1>5. SendersAreSound' /\ SentInChainOrder' /\ UnsentIsQueued'
  BY <1>1, <1>3 DEF SendersAreSound, SentInChainOrder, UnsentIsQueued, chainHistory
<1>6. UNCHANGED ChainPart
  BY <1>1 DEF ChainPart, chainHistory
<1> QED BY <1>4, <1>5, <1>6, ChainPartKept

\* The agency's answer, or the failure of the call, gives every record a verdict.
LEMMA AnswerInv ==
    ASSUME RegisterInv, NEW s \in Senders, AgencyAnswers(s) \/ CallFails(s) \/ AnswerIsShort(s)
    PROVE  RegisterInv'
<1> USE DEF RegisterInv
<1>1. /\ sender[s].pc = "sending"
      /\ UNCHANGED <<settings, invoice, chain, head, clerk, now, sub, event, sent, doubled, raced,
                     unchained, ignored>>
  BY DEF AgencyAnswers, CallFails, AnswerIsShort, chainHistory
<1>2. PICK a \in [sender[s].batch -> {"ACCEPTED", "REJECTED", "ERROR"}] :
        sender' = [sender EXCEPT ![s] = [@ EXCEPT !.pc = "answered", !.answer = a]]
  BY DEF AgencyAnswers, CallFails, AnswerIsShort
<1>3. sender' = [sender EXCEPT ![s] = Call("answered", sender[s].batch, a, sender[s].for)]
  <2>1. PICK old : old = sender[s] /\ old = [pc |-> old.pc, batch |-> old.batch, answer |-> old.answer, for |-> old.for]
    BY DEF Typed
  <2>2. PICK new : new = [old EXCEPT !.pc = "answered", !.answer = a]
    OBVIOUS
  <2>3. new = [pc |-> "answered", batch |-> old.batch, answer |-> a, for |-> old.for]
    BY <2>1, <2>2
  <2> QED BY <1>2, <2>1, <2>2, <2>3 DEF Call
<1>4. agency' \subseteq Positions /\ faults' \in 0..MaxFaults
  <2>1. agency \subseteq Positions /\ sender[s].batch \subseteq Positions /\ faults \in 0..MaxFaults
    BY Lengths
  <2>2. CASE AgencyAnswers(s)
    BY <2>1, <2>2 DEF AgencyAnswers, chainHistory
  <2>3. CASE CallFails(s)
    BY <2>1, <2>3 DEF CallFails
  <2>4. CASE AnswerIsShort(s)
    <3>1. \E kept, heard : kept \subseteq sender[s].batch /\ heard \subseteq sender[s].batch /\ agency' = agency \cup kept \cup heard
      BY <2>4, Zenon DEF AnswerIsShort
    <3>2. faults < MaxFaults /\ faults' = faults + 1
      BY <2>4 DEF AnswerIsShort
    <3>3. agency' \subseteq Positions
      BY <2>1, <3>1
    <3> QED BY <2>1, <3>2, <3>3, ChainAssumption
  <2> QED BY <2>2, <2>3, <2>4
<1>5. Typed'
  <2>1. sender[s].batch \in SUBSET Positions
    BY Lengths
  <2> HIDE DEF RegisterInv
  <2> QED BY <1>1, <1>3, <1>4, <2>1, Lengths, SubmissionTyped
<1>6. /\ sender'[s].pc = "answered" /\ sender'[s].batch = sender[s].batch
      /\ sender'[s].answer = a /\ sender'[s].for = sender[s].for
      /\ \A o \in Senders : o # s => sender'[o] = sender[o]
  BY <1>3 DEF Typed, Call
<1>7. Unsent' = Unsent /\ Positions' = Positions
  BY <1>1 DEF Unsent, Positions
<1>8. SendersAreSound'
  <2>1. \A o \in Senders : sender'[o].batch = sender[o].batch
    BY <1>6
  <2> QED BY <1>1, <1>2, <1>6, <1>7, <2>1 DEF SendersAreSound
<1>9. SentInChainOrder' /\ UnsentIsQueued'
  BY <1>1, <1>7 DEF SentInChainOrder, UnsentIsQueued
<1>10. UNCHANGED ChainPart
  BY <1>1 DEF ChainPart
<1> QED BY <1>5, <1>8, <1>9, <1>10, ChainPartKept

\* The answers are written for the whole batch, whatever became of it since.
LEMMA CommitOutcomeInv ==
    ASSUME RegisterInv, NEW s \in Senders, CommitOutcome(s)
    PROVE  RegisterInv'
<1> USE DEF RegisterInv
<1>1. /\ sender[s].pc = "answered"
      /\ sub' = SetOutcome(s) /\ event' = MarkEvent(s, sub')
      /\ sender' = [sender EXCEPT ![s] = Call("idle", {}, <<>>, 0)]
      /\ UNCHANGED <<settings, invoice, chain, head, clerk, now, agency, sent, doubled, raced,
                     unchained, ignored, faults>>
  BY DEF CommitOutcome, chainHistory, Quiet, Call
<1>2. Positions' = Positions
  BY <1>1 DEF Positions
<1>3. /\ sender[s].answer \in [sender[s].batch -> {"ACCEPTED", "REJECTED", "ERROR"}]
      /\ sender[s].batch \subseteq sent /\ sender[s].batch \subseteq Positions
      /\ s = Poller => sender[s].for \in Positions
  BY <1>1, Lengths DEF SendersAreSound
<1>4. /\ sub' \in [Positions -> Submission]
      /\ \A i \in Positions \ sender[s].batch : sub'[i].status = sub[i].status
  <2>1. \A i \in Positions : sub'[i] =
           IF i \in sender[s].batch THEN [status |-> sender[s].answer[i], due |-> "later"]
           ELSE IF s # Poller /\ i \in Unsent THEN [sub[i] EXCEPT !.due = "now"] ELSE sub[i]
    BY <1>1 DEF SetOutcome
  <2>2. DOMAIN sub' = Positions /\ sub' = [i \in Positions |-> sub'[i]]
    BY <1>1 DEF SetOutcome
  <2>3. ASSUME NEW i \in Positions PROVE sub'[i] \in Submission
    <3>1. CASE i \in sender[s].batch
      <4>1. sender[s].answer[i] \in {"ACCEPTED", "REJECTED", "ERROR"}
        BY <1>3, <3>1
      <4>2. sub'[i] = [status |-> sender[s].answer[i], due |-> "later"]
        BY <2>1, <3>1
      <4>3. \A x \in {"ACCEPTED", "REJECTED", "ERROR"} : [status |-> x, due |-> "later"] \in Submission
        BY DEF Submission
      <4> HIDE DEF RegisterInv
      <4> QED BY <4>1, <4>2, <4>3
    <3>2. CASE i \notin sender[s].batch
      BY <2>1, <3>2, Lengths DEF Submission
    <3> QED BY <3>1, <3>2
  <2>4. ASSUME NEW i \in Positions \ sender[s].batch PROVE sub'[i].status = sub[i].status
    BY <2>1, Lengths DEF Submission
  <2> QED BY <2>2, <2>3, <2>4
<1>5. \/ event' = event
      \/ /\ event' = [event EXCEPT ![sender[s].for] = "done"] /\ s = Poller
         /\ \A i \in Positions : sub'[i].status \notin {"PENDING", "ERROR"}
  BY <1>1 DEF MarkEvent
<1>6. event' \in [Positions -> {"open", "stuck", "done"}]
  BY <1>3, <1>5, Lengths
<1>7. Typed'
  <2>1. {} \in SUBSET Positions
    OBVIOUS
  <2> HIDE DEF RegisterInv
  <2> QED BY <1>1, <1>4, <1>6, <2>1, Lengths, SubmissionTyped
<1>8. /\ sender'[s] = Quiet /\ Quiet.batch = {} /\ Quiet.pc = "idle"
      /\ \A o \in Senders : o # s => sender'[o] = sender[o]
  BY <1>1 DEF Typed, Call, Quiet
<1>9. \A i \in Positions \ sender[s].batch : i \in Unsent' <=> i \in Unsent
  BY <1>2, <1>4 DEF Unsent
<1>10. SendersAreSound'
  <2>1. \A i \in Positions' \ sent' : i \in Unsent'
    BY <1>1, <1>2, <1>3, <1>9 DEF SendersAreSound
  <2>2. ASSUME NEW o \in Senders, NEW i \in sender'[o].batch PROVE i \in Unsent' \/ i \in doubled'
    <3>1. o # s /\ i \in sender[o].batch /\ i \in Positions
      BY <1>8, <2>2, Lengths
    <3>2. CASE i \in sender[s].batch
      BY <1>1, <3>1, <3>2 DEF SendersAreSound
    <3>3. CASE i \notin sender[s].batch
      BY <1>1, <1>9, <3>1, <3>3 DEF SendersAreSound
    <3> QED BY <3>2, <3>3
  <2>3. ASSUME NEW o \in Senders
        PROVE  /\ sender'[o].pc = "idle" => sender'[o] = Quiet
               /\ sender'[o].pc = "answered" =>
                    sender'[o].answer \in [sender'[o].batch -> {"ACCEPTED", "REJECTED", "ERROR"}]
               /\ sender'[o].batch \subseteq sent'
               /\ o = Poller /\ sender'[o].pc # "idle" => sender'[o].for \in Positions'
    BY <1>1, <1>2, <1>8 DEF SendersAreSound
  <2>4. ASSUME NEW o \in Senders, NEW q \in Senders, o # q
        PROVE  sender'[o].batch \cap sender'[q].batch \subseteq doubled'
    BY <1>1, <1>8, <2>4 DEF SendersAreSound
  <2> QED BY <2>1, <2>2, <2>3, <2>4 DEF SendersAreSound
<1>11. SentInChainOrder'
  BY <1>1 DEF SentInChainOrder
<1>12. UnsentIsQueued'
  <2> SUFFICES ASSUME NEW i \in Unsent', i \notin doubled
               PROVE  (\E j \in Positions : event'[j] \in {"open", "stuck"}) \/ ignored # {}
    BY <1>1, <1>2 DEF UnsentIsQueued
  <2>1. i \in Positions /\ sub'[i].status \in {"PENDING", "ERROR"}
    BY <1>2 DEF Unsent
  <2>2. event' = event
    BY <1>5, <2>1
  <2>3. i \in Unsent
    <3>1. CASE i \in sender[s].batch
      BY <3>1 DEF SendersAreSound
    <3>2. CASE i \notin sender[s].batch
      BY <1>9, <2>1, <3>2
    <3> QED BY <3>1, <3>2
  <2> QED BY <2>2, <2>3 DEF UnsentIsQueued
<1>13. UNCHANGED ChainPart
  BY <1>1 DEF ChainPart
<1> QED BY <1>7, <1>10, <1>11, <1>12, <1>13, ChainPartKept

\* A sender that dies leaves the records as they were; the poller's event is stuck.
LEMMA LoseSenderInv ==
    ASSUME RegisterInv, NEW s \in Senders, LoseSender(s)
    PROVE  RegisterInv'
<1> USE DEF RegisterInv
<1>1. /\ sender[s].pc # "idle" /\ faults' \in 0..MaxFaults
      /\ event' = IF s = Poller THEN [event EXCEPT ![sender[s].for] = "stuck"] ELSE event
      /\ sender' = [sender EXCEPT ![s] = Call("idle", {}, <<>>, 0)]
      /\ UNCHANGED <<settings, invoice, chain, head, clerk, now, sub, agency, sent, doubled, raced,
                     unchained, ignored>>
  BY Lengths DEF LoseSender, Quiet, Call
<1>2. Unsent' = Unsent /\ Positions' = Positions
  BY <1>1 DEF Unsent, Positions
<1>3. s = Poller => sender[s].for \in Positions
  BY <1>1 DEF SendersAreSound
<1>4. event' \in [Positions -> {"open", "stuck", "done"}]
  BY <1>1, <1>3, Lengths
<1>5. Typed'
  <2>1. {} \in SUBSET Positions
    OBVIOUS
  <2> HIDE DEF RegisterInv
  <2> QED BY <1>1, <1>4, <2>1, Lengths, SubmissionTyped
<1>6. /\ sender'[s] = Quiet /\ Quiet.batch = {} /\ Quiet.pc = "idle"
      /\ \A o \in Senders : o # s => sender'[o] = sender[o]
  BY <1>1 DEF Typed, Call, Quiet
<1>7. SendersAreSound'
  <2>1. \A o \in Senders : \A i \in sender'[o].batch : o # s /\ i \in sender[o].batch
    BY <1>6
  <2>2. ASSUME NEW o \in Senders
        PROVE  /\ sender'[o].pc = "idle" => sender'[o] = Quiet
               /\ sender'[o].pc = "answered" =>
                    sender'[o].answer \in [sender'[o].batch -> {"ACCEPTED", "REJECTED", "ERROR"}]
               /\ sender'[o].batch \subseteq sent'
               /\ o = Poller /\ sender'[o].pc # "idle" => sender'[o].for \in Positions'
    BY <1>1, <1>2, <1>6 DEF SendersAreSound
  <2> QED BY <1>1, <1>2, <2>1, <2>2 DEF SendersAreSound
<1>8. SentInChainOrder'
  BY <1>1 DEF SentInChainOrder
<1>9. UnsentIsQueued'
  <2>1. CASE s = Poller
    BY <1>1, <1>2, <1>3, <2>1, Lengths DEF UnsentIsQueued
  <2>2. CASE s # Poller
    BY <1>1, <1>2, <2>2 DEF UnsentIsQueued
  <2> QED BY <2>1, <2>2
<1>10. UNCHANGED ChainPart
  BY <1>1 DEF ChainPart
<1> QED BY <1>5, <1>7, <1>8, <1>9, <1>10, ChainPartKept

\* Every step of the module keeps the invariant.
LEMMA NextInv == RegisterInv /\ [VerifactuNext]_verifactuVars => RegisterInv'
<1> SUFFICES ASSUME RegisterInv, [VerifactuNext]_verifactuVars PROVE RegisterInv'
  OBVIOUS
<1>1. CASE UNCHANGED verifactuVars
  <2>1. UNCHANGED ChainPart /\ UNCHANGED SubmissionPart /\ UNCHANGED <<agency, faults, settings>>
    BY <1>1 DEF verifactuVars, chainVars, chainHistory, ChainPart, SubmissionPart
  <2>2. Typed'
    BY <2>1, TypedKept DEF RegisterInv, Typed, VerifactuTypeOK, ChainPart, SubmissionPart
  <2> QED BY <2>1, <2>2, ChainPartKept, SubmissionPartKept DEF RegisterInv
<1>2. CASE \E c \in Clerks :
             \/ \E d \in Invoices : RecordIssued(c, d) \/ RecordCancelled(c, d)
             \/ LockHead(c) \/ AppendRecord(c) \/ CommitUnrecorded(c) \/ Abandon(c)
  <2>1. ASSUME NEW c \in Clerks, NEW d \in Invoices, RecordIssued(c, d) \/ RecordCancelled(c, d)
        PROVE  RegisterInv'
    BY <2>1, BeginInv DEF RecordIssued, RecordCancelled
  <2> QED BY <1>2, <2>1, LockHeadInv, AppendInv, UnrecordedInv
<1>3. CASE Poll
  <2>1. ASSUME NEW i, SubmitPending(i) PROVE RegisterInv'
    BY <2>1, SendInv DEF SubmitPending, Handles
  <2> QED BY <1>3, <2>1, HandleNothingInv DEF Poll
<1>4. CASE \E s \in Senders : SendNow(s) \/ RetryNow(s) \/ Conclude(s) \/ CallFails(s) \/ AnswerIsShort(s) \/ LoseSender(s)
  <2>1. ASSUME NEW s \in Senders, SendNow(s) PROVE RegisterInv'
    BY <2>1, SendInv DEF SendNow
  <2> QED BY <1>4, <2>1, WaitInv, AnswerInv, CommitOutcomeInv, LoseSenderInv DEF Conclude
<1> QED BY <1>1, <1>2, <1>3, <1>4, SettingsInv, WaitInv DEF VerifactuNext

\* The Spanish register is sound, whoever finalises, cancels and sends at the
\* same time: one chain in order of time, each invoice in it once, sent in its
\* order, and an event left for what is unsent (verifactu service.go, pg.go).
THEOREM RegisterStaysSound == VerifactuInit /\ [][VerifactuNext]_verifactuVars => []RegisterIsSound
<1>1. RegisterInv => RegisterIsSound
  BY DEF RegisterInv, Typed, RegisterIsSound
<1> QED BY <1>1, InitInv, NextInv, PTL
-----------------------------------------------------------------------------
HIDE ChainAssumption

(* EWayBill *)

USE EWayAssumption

BillRows == [status : Waiting \cup {"ABSENT", "GENERATED", "CANCELLED"},
             seller : BOOLEAN, filled : SUBSET Details, number : BOOLEAN]
Trips == [op : {"none", "status", "prepare", "batch", "patch", "result", "cancel"},
          rec : 0..MaxBills, seen : BillRows]

There(row) == row.status # "ABSENT"
Whole(row) == row.status = "AWAITING_PORTAL_COMPLETION" => row.seller /\ row.filled = Details

\* A request at work has read a record that is there or that it will make, and a
\* number that was read, or that is to be recorded, has been generated.
TripsAreSound ==
    /\ trip \in [Carriers -> Trips]
    /\ \A c \in Carriers :
          /\ trip[c].op = "none" => trip[c] = Resting
          /\ trip[c] # Resting => trip[c].rec \in Bills /\ There(trip[c].seen)
          /\ trip[c].seen.number \/ trip[c].op = "result" => ewb

\* As long as no two requests met there is at most one record, it is as the one
\* request at work has read it, and complete if it waits at the portal.
OneByOne ==
    /\ \A c, o \in Carriers : trip[c] # Resting /\ trip[o] # Resting => c = o
    /\ \A q, r \in Bills : There(bill[q]) /\ There(bill[r]) => q = r
    /\ \A c \in Carriers : trip[c] # Resting =>
          \/ bill[trip[c].rec] = trip[c].seen
          \/ trip[c].seen.status = "NOT_REQUIRED" /\ \A r \in Bills : ~There(bill[r])
    /\ \A r \in Bills : Whole(bill[r])

\* What records took from the company stays.
SellersKept == \A r \in Bills : There(bill[r]) => bill'[r].seller = bill[r].seller

BillsInv == EWayBillTypeOK /\ TripsAreSound /\ (~crossed => OneByOne)

\* The latest of the records that are there, or none.
LEMMA LatestFacts ==
    ASSUME NEW b
    PROVE  /\ Latest(b) \in 0..MaxBills
           /\ Latest(b) # 0 => There(b[Latest(b)])
           /\ \A q \in Bills : There(b[q]) => q <= Latest(b)
<1> DEFINE Is(r) == /\ r = 0 \/ b[r].status # "ABSENT"
                    /\ \A q \in Bills : b[q].status # "ABSENT" => q <= r
           Left == {MaxBills - q : q \in {p \in Bills : b[p].status # "ABSENT"}}
<1>1. \E r \in 0..MaxBills : Is(r)
  <2>1. CASE Left = {}
    <3>1. \A q \in Bills : b[q].status = "ABSENT"
      BY <2>1
    <3> QED BY <3>1
  <2>2. CASE Left # {}
    <3>1. Left \subseteq Nat
      BY DEF Bills
    <3>2. PICK m \in Left : \A n \in Left : m <= n
      BY <2>2, <3>1, LeastNat
    <3>3. PICK r \in Bills : b[r].status # "ABSENT" /\ m = MaxBills - r
      BY <3>2
    <3>4. ASSUME NEW q \in Bills, b[q].status # "ABSENT" PROVE q <= r
      <4>1. MaxBills - q \in Left
        BY <3>4
      <4>2. MaxBills - r <= MaxBills - q
        BY <3>2, <3>3, <4>1
      <4> QED BY <3>3, <4>2 DEF Bills
    <3> QED BY <3>3, <3>4 DEF Bills
  <2> QED BY <2>1, <2>2
<1>2. Latest(b) = CHOOSE r \in 0..MaxBills : Is(r)
  BY DEF Latest
<1>3. Latest(b) \in 0..MaxBills /\ Is(Latest(b))
  <2> HIDE DEF Is
  <2> QED BY <1>1, <1>2
<1> QED BY <1>3 DEF There

\* Initially there is no record and no request.
LEMMA BillsInit == EWayBillInit => BillsInv
<1> SUFFICES ASSUME EWayBillInit PROVE BillsInv
  OBVIOUS
<1>1. Absent \in BillRows /\ ~There(Absent) /\ Absent.number = FALSE /\ Whole(Absent)
  BY DEF Absent, BillRows, Waiting, There, Whole
<1>2. Resting \in Trips /\ Resting.seen = Absent /\ Resting.op = "none"
  BY <1>1 DEF Resting, Trips
<1>3. /\ \A r \in Bills : bill[r] = Absent
      /\ \A c \in Carriers : trip[c] = Resting
  BY DEF EWayBillInit
<1>4. EWayBillTypeOK
  <2>1. bill \in [Bills -> BillRows]
    BY <1>1 DEF EWayBillInit
  <2>2. \A c \in Carriers : trip[c].rec \in 0..MaxBills
    BY <1>2, <1>3 DEF Trips
  <2>3. \A r \in Bills : bill[r].number => ewb
    BY <1>1, <1>3
  <2>4. company \in [seller : BOOLEAN, required : BOOLEAN] /\ ewb = FALSE /\ crossed = FALSE
    BY Zenon DEF EWayBillInit
  <2>5. begun \in 0..MaxBills /\ edits \in 0..MaxEdits
    BY DEF EWayBillInit
  <2> QED BY <2>1, <2>2, <2>3, <2>4, <2>5 DEF EWayBillTypeOK, BillRows
<1>5. TripsAreSound
  <2>1. trip \in [Carriers -> Trips]
    BY <1>2 DEF EWayBillInit
  <2> QED BY <1>1, <1>2, <1>3, <2>1 DEF TripsAreSound
<1>6. OneByOne
  BY <1>1, <1>3 DEF OneByOne
<1> QED BY <1>4, <1>5, <1>6 DEF BillsInv

\* A request begins with the record it has read, or makes the invoice's first.
LEMMA StartKeeps ==
    ASSUME BillsInv, NEW c \in Carriers, trip[c] = Resting,
           NEW op \in {"status", "prepare", "batch", "patch", "result", "cancel"},
           op = "result" => ewb,
           NEW r \in Bills, NEW seen \in BillRows, There(seen), seen.number => ewb,
           \/ seen = bill[r]
           \/ seen.status = "NOT_REQUIRED" /\ \A q \in Bills : ~There(bill[q]),
           begun' \in 0..MaxBills, Start(c, op, r, seen)
    PROVE  BillsInv' /\ SellersKept
<1> DEFINE new == [op |-> op, rec |-> r, seen |-> seen]
<1>1. new \in Trips /\ new.op # "none" /\ new # Resting
  BY DEF Trips, Bills, Resting
<1>2. /\ trip \in [Carriers -> Trips] /\ trip' = [trip EXCEPT ![c] = new]
      /\ UNCHANGED <<company, bill, ewb, edits>>
      /\ crossed' = (crossed \/ \E o \in Carriers : trip[o] # Resting)
  BY DEF BillsInv, TripsAreSound, Start
<1>3. trip' \in [Carriers -> Trips] /\ trip'[c] = new /\ \A o \in Carriers : o # c => trip'[o] = trip[o]
  BY <1>1, <1>2
<1>4. EWayBillTypeOK'
  <2>1. \A o \in Carriers : trip'[o].rec \in 0..MaxBills
    BY <1>3 DEF Trips
  <2>2. crossed' \in BOOLEAN
    BY <1>2
  <2> QED BY <1>2, <2>1, <2>2 DEF BillsInv, EWayBillTypeOK
<1>5. TripsAreSound'
  <2>1. \A o \in Carriers :
           /\ trip'[o].op = "none" => trip'[o] = Resting
           /\ trip'[o] # Resting => trip'[o].rec \in Bills /\ There(trip'[o].seen)
           /\ trip'[o].seen.number \/ trip'[o].op = "result" => ewb
    <3> SUFFICES ASSUME NEW o \in Carriers
                 PROVE  /\ trip'[o].op = "none" => trip'[o] = Resting
                        /\ trip'[o] # Resting => trip'[o].rec \in Bills /\ There(trip'[o].seen)
                        /\ trip'[o].seen.number \/ trip'[o].op = "result" => ewb
      OBVIOUS
    <3>1. CASE o = c
      BY <1>1, <1>3, <3>1
    <3>2. CASE o # c
      BY <1>3, <3>2 DEF BillsInv, TripsAreSound
    <3> QED BY <3>1, <3>2
  <2> QED BY <1>2, <1>3, <2>1 DEF TripsAreSound
<1>6. ASSUME ~crossed' PROVE OneByOne'
  <2>1. OneByOne /\ \A o \in Carriers : trip[o] = Resting
    BY <1>2, <1>6 DEF BillsInv
  <2>2. \A o \in Carriers : trip'[o] # Resting => o = c
    BY <1>3, <2>1
  <2>3. \/ bill[trip'[c].rec] = trip'[c].seen
        \/ trip'[c].seen.status = "NOT_REQUIRED" /\ \A q \in Bills : ~There(bill[q])
    BY <1>3
  <2> QED BY <1>2, <2>1, <2>2, <2>3 DEF OneByOne
<1>7. SellersKept
  BY <1>2 DEF SellersKept
<1> QED BY <1>4, <1>5, <1>6, <1>7 DEF BillsInv

\* A request that ends writes typed rows; if none met it, at most its own, which
\* is then complete if it waits at the portal.
LEMMA CommitKeeps ==
    ASSUME BillsInv, NEW c \in Carriers, trip[c] # Resting,
           NEW b \in [Bills -> BillRows], \A r \in Bills : b[r].number => ewb,
           ~crossed => /\ \A r \in Bills : r # trip[c].rec => b[r] = bill[r]
                       /\ Whole(b[trip[c].rec])
                       /\ There(bill[trip[c].rec]) => b[trip[c].rec].seller = bill[trip[c].rec].seller,
           Commit(c, b), edits' \in 0..MaxEdits
    PROVE  BillsInv' /\ (~crossed' => SellersKept)
<1>1. /\ bill' = b /\ trip' = [trip EXCEPT ![c] = Resting]
      /\ UNCHANGED <<company, ewb, begun, crossed>>
      /\ trip \in [Carriers -> Trips]
  BY DEF Commit, BillsInv, TripsAreSound
<1>2. Resting \in Trips /\ ~Resting.seen.number /\ Resting.op = "none"
  BY DEF Resting, Absent, Trips, BillRows, Waiting
<1>3. trip' \in [Carriers -> Trips] /\ trip'[c] = Resting /\ \A o \in Carriers : o # c => trip'[o] = trip[o]
  BY <1>1, <1>2
<1>4. EWayBillTypeOK'
  <2>1. \A o \in Carriers : trip'[o].rec \in 0..MaxBills
    BY <1>3 DEF Trips
  <2> QED BY <1>1, <2>1 DEF BillsInv, EWayBillTypeOK, BillRows
<1>5. TripsAreSound'
  <2>1. ASSUME NEW o \in Carriers
        PROVE  /\ trip'[o].op = "none" => trip'[o] = Resting
               /\ trip'[o] # Resting => trip'[o].rec \in Bills /\ There(trip'[o].seen)
               /\ trip'[o].seen.number \/ trip'[o].op = "result" => ewb
    <3>1. CASE o = c
      BY <1>2, <1>3, <3>1
    <3>2. CASE o # c
      BY <1>3, <3>2 DEF BillsInv, TripsAreSound
    <3> QED BY <3>1, <3>2
  <2> QED BY <1>1, <1>3, <2>1 DEF TripsAreSound
<1>6. ASSUME ~crossed' PROVE OneByOne'
  <2>1. OneByOne
    BY <1>1, <1>6 DEF BillsInv
  <2>2. trip[c].rec \in Bills /\ There(trip[c].seen)
    BY DEF BillsInv, TripsAreSound
  <2>3. \A r \in Bills : r # trip[c].rec => b[r] = bill[r] /\ ~There(b[r])
    BY <1>1, <1>6, <2>1, <2>2 DEF OneByOne
  <2>4. \A o \in Carriers : trip'[o] = Resting
    BY <1>3, <2>1 DEF OneByOne
  <2>5. \A r \in Bills : Whole(b[r])
    BY <1>1, <1>6, <2>3 DEF Whole, There
  <2> QED BY <1>1, <2>3, <2>4, <2>5 DEF OneByOne
<1>7. ~crossed' => SellersKept
  BY <1>1 DEF SellersKept
<1> QED BY <1>4, <1>5, <1>6, <1>7 DEF BillsInv

\* The record a request writes to is as it was read, and no other is there.
AsRead(c) ==
    /\ Mine(c) = trip[c].seen
    /\ There(bill[trip[c].rec]) => bill[trip[c].rec] = trip[c].seen
    /\ \A r \in Bills : r # trip[c].rec => ~There(bill[r])

\* What an action of a request at work may rest on: its rows are typed, the one
\* it writes to is there or is as it was read.
LEMMA AtWork ==
    ASSUME BillsInv, NEW c \in Carriers, trip[c].op # "none"
    PROVE  /\ trip[c] # Resting /\ trip[c].rec \in Bills
           /\ trip[c].seen \in BillRows /\ There(trip[c].seen)
           /\ Mine(c) \in BillRows /\ There(Mine(c)) /\ (Mine(c).number => ewb)
           /\ bill \in [Bills -> BillRows]
           /\ \A r \in Bills : bill[r].number => ewb
           /\ ~crossed => AsRead(c)
<1>1. trip[c] # Resting
  BY DEF Resting
<1>2. trip[c] \in Trips /\ trip[c].rec \in Bills /\ There(trip[c].seen) /\ (trip[c].seen.number => ewb)
  BY <1>1 DEF BillsInv, TripsAreSound
<1>3. bill \in [Bills -> BillRows] /\ \A r \in Bills : bill[r].number => ewb
  BY DEF BillsInv, EWayBillTypeOK, BillRows
<1>4. trip[c].seen \in BillRows /\ bill[trip[c].rec] \in BillRows
  BY <1>2, <1>3 DEF Trips
<1>5. Mine(c) \in BillRows /\ There(Mine(c)) /\ (Mine(c).number => ewb)
  BY <1>2, <1>3, <1>4 DEF Mine, There
<1>6. ~crossed => AsRead(c)
  BY <1>1, <1>2 DEF BillsInv, OneByOne, Mine, There, AsRead
<1> QED BY <1>1, <1>2, <1>3, <1>4, <1>5, <1>6

\* The verdict on a record leaves its data as they were, and does not send it to
\* the portal.
LEMMA EvaluatedRow ==
    ASSUME NEW row \in BillRows, NEW seen \in BillRows, BillsInv
    PROVE  /\ Evaluated(row, seen) \in BillRows
           /\ There(row) => There(Evaluated(row, seen))
           /\ Evaluated(row, seen).number = row.number
           /\ Evaluated(row, seen).seller = row.seller
           /\ Evaluated(row, seen).filled = row.filled
           /\ row = seen => Whole(Evaluated(row, seen))
<1>1. Evaluate(seen) \in {"NOT_REQUIRED", "READY", "NEEDS_INFORMATION"}
  BY DEF Evaluate
<1> QED BY <1>1 DEF Evaluated, BillRows, There, Whole, Waiting, TerminalBill

\* A record of its own, or the latest: what OpenRecord and ReadRecord begin.
LEMMA BeginKeeps ==
    ASSUME BillsInv, NEW c \in Carriers,
           NEW op \in {"status", "prepare", "batch", "patch", "result", "cancel"},
           \/ op \in {"status", "prepare", "batch"} /\ OpenRecord(c, op)
           \/ (op = "result" => ewb) /\ ReadRecord(c, op)
    PROVE  BillsInv' /\ SellersKept
<1> DEFINE l == Latest(bill)
<1>1. l \in 0..MaxBills /\ (l # 0 => There(bill[l])) /\ \A q \in Bills : There(bill[q]) => q <= l
  BY LatestFacts
<1>2. trip[c] = Resting /\ begun \in 0..MaxBills
  BY DEF OpenRecord, ReadRecord, BillsInv, EWayBillTypeOK
<1> HIDE DEF l
<1>3. CASE l # 0
  <2>1. /\ begun' = begun /\ Start(c, op, l, bill[l])
        /\ op = "result" => ewb
    BY <1>3 DEF OpenRecord, ReadRecord, l
  <2>2. l \in Bills /\ bill[l] \in BillRows /\ (bill[l].number => ewb)
    BY <1>1, <1>3 DEF Bills, BillsInv, EWayBillTypeOK, BillRows
  <2> QED BY <1>1, <1>2, <1>3, <2>1, <2>2, StartKeeps
<1>4. CASE l = 0
  <2>0. PICK f \in SUBSET AtHand : Start(c, op, begun + 1, Capture(f))
    BY <1>4 DEF OpenRecord, ReadRecord, l
  <2>1. begun < MaxBills /\ begun' = begun + 1 /\ op # "result"
    BY <1>4 DEF OpenRecord, ReadRecord, l
  <2>2. begun + 1 \in Bills /\ begun' \in 0..MaxBills
    BY <1>2, <2>1 DEF Bills
  <2>3. /\ Capture(f) \in BillRows /\ There(Capture(f)) /\ ~Capture(f).number
        /\ Capture(f).status = "NOT_REQUIRED"
    BY DEF Capture, Absent, BillRows, There, Waiting, BillsInv, EWayBillTypeOK
  <2>4. \A q \in Bills : ~There(bill[q])
    BY <1>1, <1>4 DEF Bills
  <2> QED BY <1>2, <2>0, <2>1, <2>2, <2>3, <2>4, StartKeeps
<1> QED BY <1>3, <1>4

\* The record's row and nothing else is written.
LEMMA SaveKeeps ==
    ASSUME BillsInv, NEW c \in Carriers, trip[c].op # "none",
           NEW row \in BillRows, row.number => ewb,
           ~crossed => Whole(row) /\ row.seller = Mine(c).seller,
           Save(c, row), edits' \in 0..MaxEdits
    PROVE  BillsInv' /\ (~crossed' => SellersKept)
<1> DEFINE b == [bill EXCEPT ![trip[c].rec] = row]
<1>1. trip[c] # Resting /\ trip[c].rec \in Bills /\ bill \in [Bills -> BillRows] /\ \A r \in Bills : bill[r].number => ewb
  BY AtWork
<1>2. ~crossed => Mine(c) = trip[c].seen /\ (There(bill[trip[c].rec]) => bill[trip[c].rec] = trip[c].seen)
  BY AtWork DEF AsRead
<1>3. b \in [Bills -> BillRows] /\ b[trip[c].rec] = row /\ \A r \in Bills : r # trip[c].rec => b[r] = bill[r]
  BY <1>1
<1>4. \A r \in Bills : b[r].number => ewb
  BY <1>1, <1>3
<1>5. Commit(c, b)
  BY DEF Save
<1> HIDE DEF b
<1> QED BY <1>1, <1>2, <1>3, <1>4, <1>5, CommitKeeps

\* Preparing marks the latest record, which is the request's own if none met it.
LEMMA PrepareKeeps ==
    ASSUME BillsInv, NEW c \in Carriers, CommitPrepare(c)
    PROVE  BillsInv' /\ (~crossed' => SellersKept)
<1> DEFINE seen == trip[c].seen
           row == Evaluated(Mine(c), seen)
           e == [bill EXCEPT ![trip[c].rec] = row]
           l == Latest(e)
           b(st) == [e EXCEPT ![l].status = st]
<1>1. trip[c].op # "none" /\ edits' \in 0..MaxEdits
  BY DEF CommitPrepare, BillsInv, EWayBillTypeOK
<1>2. /\ trip[c] # Resting /\ trip[c].rec \in Bills
      /\ seen \in BillRows /\ Mine(c) \in BillRows /\ There(Mine(c)) /\ (Mine(c).number => ewb)
      /\ bill \in [Bills -> BillRows] /\ \A r \in Bills : bill[r].number => ewb
      /\ ~crossed => /\ Mine(c) = seen
                     /\ There(bill[trip[c].rec]) => bill[trip[c].rec] = seen
                     /\ \A r \in Bills : r # trip[c].rec => ~There(bill[r])
  BY <1>1, AtWork DEF AsRead
<1>3. /\ row \in BillRows /\ There(row) /\ row.number = Mine(c).number /\ row.seller = Mine(c).seller
      /\ row.filled = Mine(c).filled
      /\ Mine(c) = seen => Whole(row)
  BY <1>2, EvaluatedRow
<1>4. \/ Evaluate(seen) = "READY" /\ \E st \in {"AWAITING_PORTAL_COMPLETION", "NEEDS_INFORMATION"} : Commit(c, b(st))
      \/ Save(c, row)
      \/ Commit(c, bill)
  BY DEF CommitPrepare, Save
<1> HIDE DEF row
<1>5. ASSUME Evaluate(seen) = "READY", NEW st \in {"AWAITING_PORTAL_COMPLETION", "NEEDS_INFORMATION"}, Commit(c, b(st))
      PROVE  BillsInv' /\ (~crossed' => SellersKept)
  <2>1. e \in [Bills -> BillRows] /\ e[trip[c].rec] = row /\ \A r \in Bills : r # trip[c].rec => e[r] = bill[r]
    BY <1>2, <1>3
  <2> HIDE DEF e
  <2>2. l \in 0..MaxBills /\ (l # 0 => There(e[l])) /\ \A q \in Bills : There(e[q]) => q <= l
    BY LatestFacts
  <2> HIDE DEF l
  <2>3. l \in Bills
    BY <1>2, <1>3, <2>1, <2>2 DEF Bills
  <2>4. [e[l] EXCEPT !.status = st] \in BillRows
    BY <2>1, <2>3 DEF BillRows, Waiting
  <2> DEFINE m == b(st)
  <2>5. /\ m \in [Bills -> BillRows] /\ m[l] = [e[l] EXCEPT !.status = st]
        /\ \A r \in Bills : r # l => m[r] = e[r]
    BY <2>1, <2>3, <2>4
  <2>8. Commit(c, m)
    BY <1>5
  <2> HIDE DEF m
  <2>6. \A r \in Bills : m[r].number => ewb
    <3>1. \A r \in Bills : e[r].number => ewb
      BY <1>2, <1>3, <2>1
    <3>2. m[l].number = e[l].number
      BY <2>1, <2>3, <2>5 DEF BillRows
    <3> QED BY <3>1, <3>2, <2>3, <2>5
  <2>7. ASSUME ~crossed
        PROVE  /\ \A r \in Bills : r # trip[c].rec => m[r] = bill[r]
               /\ Whole(m[trip[c].rec])
               /\ There(bill[trip[c].rec]) => m[trip[c].rec].seller = bill[trip[c].rec].seller
    <3>1. l = trip[c].rec
      <4>1. There(e[l]) /\ l \in Bills
        BY <2>2, <2>3 DEF Bills
      <4>2. \A r \in Bills : r # trip[c].rec => ~There(e[r])
        BY <1>2, <2>1, <2>7
      <4> QED BY <4>1, <4>2
    <3>2. seen.seller /\ seen.filled = Details
      BY <1>5 DEF Evaluate
    <3>3. row.seller = seen.seller /\ row.filled = seen.filled
      BY <1>2, <1>3, <2>7
    <3>4. m[l] = [row EXCEPT !.status = st]
      BY <2>1, <2>5, <3>1
    <3>5. m[l].seller = row.seller /\ m[l].filled = row.filled
      BY <1>3, <3>4 DEF BillRows
    <3> QED BY <1>2, <2>1, <2>5, <2>7, <3>1, <3>2, <3>3, <3>5 DEF Whole
  <2> QED BY <1>1, <1>2, <2>5, <2>6, <2>7, <2>8, CommitKeeps
<1>6. ASSUME Save(c, row) PROVE BillsInv' /\ (~crossed' => SellersKept)
  BY <1>1, <1>2, <1>3, <1>6, SaveKeeps
<1>7. ASSUME Commit(c, bill) PROVE BillsInv' /\ (~crossed' => SellersKept)
  BY <1>1, <1>2, <1>7, CommitKeeps DEF BillsInv, OneByOne
<1> QED BY <1>4, <1>5, <1>6, <1>7

\* A patch writes back what was read, and judges the latest record anew.
LEMMA PatchKeeps ==
    ASSUME BillsInv, NEW c \in Carriers, CommitPatch(c)
    PROVE  BillsInv' /\ (~crossed' => SellersKept)
<1> DEFINE rec == trip[c].rec
           seen == trip[c].seen
           p(f) == [bill[rec] EXCEPT !.status = seen.status, !.seller = seen.seller, !.filled = f]
           a(f) == [bill EXCEPT ![rec] = p(f)]
<1>1. trip[c].op # "none" /\ edits' \in 0..MaxEdits
  BY DEF CommitPatch, BillsInv, EWayBillTypeOK
<1>2. /\ trip[c] # Resting /\ rec \in Bills /\ seen \in BillRows /\ There(seen)
      /\ bill \in [Bills -> BillRows] /\ \A r \in Bills : bill[r].number => ewb
      /\ ~crossed => AsRead(c)
  BY <1>1, AtWork
<1>3. PICK f \in SUBSET Details : Commit(c, [a(f) EXCEPT ![Latest(a(f))] = Evaluated(@, @)])
  BY <1>2 DEF CommitPatch
<1> DEFINE row == p(f)
           e == a(f)
           l == Latest(e)
           b == [e EXCEPT ![l] = Evaluated(@, @)]
<1>4. /\ row \in BillRows /\ There(row) /\ row.number = bill[rec].number /\ row.seller = seen.seller
  <2>1. bill[rec] \in BillRows
    BY <1>2
  <2> QED BY <1>2, <2>1 DEF BillRows, There
<1> HIDE DEF row
<1>5. e = [bill EXCEPT ![rec] = row] /\ Commit(c, b)
  BY <1>3 DEF row
<1>6. /\ e \in [Bills -> BillRows] /\ e[rec] = row
      /\ \A r \in Bills : r # rec => e[r] = bill[r]
  BY <1>2, <1>4, <1>5
<1> HIDE DEF e, a, p
<1>7. l \in 0..MaxBills /\ (l # 0 => There(e[l])) /\ \A q \in Bills : There(e[q]) => q <= l
  BY LatestFacts
<1> HIDE DEF l
<1>8. l \in Bills /\ e[l] \in BillRows /\ There(e[l])
  BY <1>2, <1>4, <1>6, <1>7 DEF Bills
<1>9. /\ Evaluated(e[l], e[l]) \in BillRows
      /\ Evaluated(e[l], e[l]).number = e[l].number
      /\ Evaluated(e[l], e[l]).seller = e[l].seller
      /\ Whole(Evaluated(e[l], e[l]))
  BY <1>8, EvaluatedRow
<1>10. /\ b \in [Bills -> BillRows] /\ b[l] = Evaluated(e[l], e[l])
       /\ \A r \in Bills : r # l => b[r] = e[r]
  BY <1>6, <1>8, <1>9
<1> HIDE DEF b
<1>11. \A r \in Bills : b[r].number => ewb
  <2>1. \A r \in Bills : e[r].number => ewb
    BY <1>2, <1>4, <1>6
  <2> QED BY <1>8, <1>9, <1>10, <2>1
<1>12. ASSUME ~crossed
       PROVE  /\ \A r \in Bills : r # rec => b[r] = bill[r]
              /\ Whole(b[rec])
              /\ There(bill[rec]) => b[rec].seller = bill[rec].seller
  <2>1. \A r \in Bills : r # rec => ~There(e[r])
    BY <1>2, <1>6, <1>12 DEF AsRead
  <2>2. l = rec
    BY <1>8, <2>1
  <2>3. There(bill[rec]) => bill[rec] = seen
    BY <1>2, <1>12 DEF AsRead
  <2> QED BY <1>4, <1>6, <1>9, <1>10, <2>2, <2>3
<1> QED BY <1>1, <1>2, <1>5, <1>10, <1>11, <1>12, CommitKeeps

\* A step keeps the invariant, and what a record took from the company unless
\* two requests met.
LEMMA BillsStep == BillsInv /\ [EWayBillNext]_ewayVars => BillsInv' /\ (~crossed' => SellersKept)
<1> SUFFICES ASSUME BillsInv, [EWayBillNext]_ewayVars PROVE BillsInv' /\ (~crossed' => SellersKept)
  OBVIOUS
<1> USE DEF EWayBillNext
<1>1. CASE ChangeCompany
  <2>1. company' \in [seller : BOOLEAN, required : BOOLEAN] /\ edits' \in 0..MaxEdits
    BY <1>1 DEF ChangeCompany, BillsInv, EWayBillTypeOK
  <2>2. UNCHANGED <<bill, trip, ewb, begun, crossed>>
    BY <1>1 DEF ChangeCompany
  <2> QED BY <2>1, <2>2 DEF BillsInv, EWayBillTypeOK, TripsAreSound, OneByOne, SellersKept
<1>2. CASE PortalGenerates
  <2>1. ewb' = TRUE /\ UNCHANGED <<company, bill, trip, begun, crossed, edits>>
    BY <1>2 DEF PortalGenerates
  <2>2. EWayBillTypeOK'
    BY <2>1 DEF BillsInv, EWayBillTypeOK
  <2>3. TripsAreSound'
    BY <2>1 DEF BillsInv, TripsAreSound
  <2> QED BY <2>1, <2>2, <2>3 DEF BillsInv, OneByOne, SellersKept
<1>3. ASSUME NEW c \in Carriers, GetStatus(c) \/ Prepare(c) \/ PrepareBatch(c)
      PROVE  BillsInv' /\ SellersKept
  BY <1>3, BeginKeeps DEF GetStatus, Prepare, PrepareBatch
<1>4. ASSUME NEW c \in Carriers, UpdateTransportInfo(c) \/ RecordManualResult(c) \/ Cancel(c)
      PROVE  BillsInv' /\ SellersKept
  BY <1>4, BeginKeeps DEF UpdateTransportInfo, RecordManualResult, Cancel
<1>5. ASSUME NEW c \in Carriers, CommitStatus(c)
      PROVE  BillsInv' /\ (~crossed' => SellersKept)
  <2>1. trip[c].op # "none" /\ Save(c, Evaluated(Mine(c), trip[c].seen)) /\ edits' \in 0..MaxEdits
    BY <1>5 DEF CommitStatus, BillsInv, EWayBillTypeOK
  <2>2. /\ trip[c].seen \in BillRows /\ Mine(c) \in BillRows /\ (Mine(c).number => ewb)
        /\ ~crossed => Mine(c) = trip[c].seen
    BY <2>1, AtWork DEF AsRead
  <2> QED BY <2>1, <2>2, EvaluatedRow, SaveKeeps
<1>6. ASSUME NEW c \in Carriers, CommitPrepare(c)
      PROVE  BillsInv' /\ (~crossed' => SellersKept)
  BY <1>6, PrepareKeeps
<1>7. ASSUME NEW c \in Carriers, CommitPatch(c)
      PROVE  BillsInv' /\ (~crossed' => SellersKept)
  BY <1>7, PatchKeeps
<1>8. ASSUME NEW c \in Carriers, CommitResult(c)
      PROVE  BillsInv' /\ (~crossed' => SellersKept)
  <2> DEFINE row == [Mine(c) EXCEPT !.status = "GENERATED", !.number = TRUE]
  <2>1. trip[c].op = "result" /\ Save(c, row) /\ edits' \in 0..MaxEdits
    BY <1>8 DEF CommitResult, BillsInv, EWayBillTypeOK
  <2>2. Mine(c) \in BillRows /\ ewb
    BY <2>1, AtWork DEF BillsInv, TripsAreSound
  <2>3. row \in BillRows /\ Whole(row) /\ row.seller = Mine(c).seller
    BY <2>2 DEF BillRows, Whole
  <2> HIDE DEF row
  <2> QED BY <2>1, <2>2, <2>3, SaveKeeps
<1>9. ASSUME NEW c \in Carriers, CommitCancel(c)
      PROVE  BillsInv' /\ (~crossed' => SellersKept)
  <2> DEFINE row == [Mine(c) EXCEPT !.status = "CANCELLED"]
  <2>1. trip[c].op = "cancel" /\ Save(c, row) /\ edits' \in 0..MaxEdits
    BY <1>9 DEF CommitCancel, BillsInv, EWayBillTypeOK
  <2>2. Mine(c) \in BillRows /\ (Mine(c).number => ewb)
    BY <2>1, AtWork
  <2>3. row \in BillRows /\ Whole(row) /\ row.seller = Mine(c).seller /\ row.number = Mine(c).number
    BY <2>2 DEF BillRows, Whole
  <2> HIDE DEF row
  <2> QED BY <2>1, <2>2, <2>3, SaveKeeps
<1>10. ASSUME NEW c \in Carriers, AbortTrip(c)
       PROVE  BillsInv' /\ (~crossed' => SellersKept)
  <2>1. trip[c] # Resting /\ Commit(c, bill) /\ edits' \in 0..MaxEdits
    BY <1>10 DEF AbortTrip, BillsInv, EWayBillTypeOK
  <2>2. /\ bill \in [Bills -> BillRows] /\ \A r \in Bills : bill[r].number => ewb
        /\ trip[c].rec \in Bills /\ (~crossed => \A r \in Bills : Whole(bill[r]))
    BY <2>1 DEF BillsInv, EWayBillTypeOK, BillRows, OneByOne, TripsAreSound
  <2> QED BY <2>1, <2>2, CommitKeeps DEF BillsInv, TripsAreSound
<1>11. CASE UNCHANGED ewayVars
  BY <1>11 DEF ewayVars, BillsInv, EWayBillTypeOK, TripsAreSound, OneByOne, SellersKept
<1> QED BY <1>1, <1>2, <1>3, <1>4, <1>5, <1>6, <1>7, <1>8, <1>9, <1>10, <1>11

\* A record that waits at the portal has the seller and every detail asked
\* for in its snapshot, however often it was patched, judged and prepared, unless two
\* requests were at work on the invoice at once: for any number of requests,
\* records and changes of the company.
THEOREM BillsStayComplete == EWayBillSpec => []BillsAreComplete
<1>1. BillsInv => BillsAreComplete
  BY DEF BillsInv, BillsAreComplete, PreparedIsComplete, OneByOne, Whole
<1> QED BY <1>1, BillsInit, BillsStep, PTL DEF EWayBillSpec

\* While requests come one at a time an invoice has one record, and what the
\* record took from the company is never taken again.
THEOREM BillsCapturedForGood == EWayBillSpec => CapturedForGood
<1> DEFINE Captured ==
              ~crossed' => \A r \in Bills :
                 /\ bill'[r].status # "ABSENT" => r = Latest(bill') /\ \A q \in Bills \ {r} : bill'[q].status = "ABSENT"
                 /\ bill[r].status # "ABSENT" => bill'[r].seller = bill[r].seller
<1>1. BillsInv /\ [EWayBillNext]_ewayVars => [Captured]_ewayVars
  <2> SUFFICES ASSUME BillsInv, [EWayBillNext]_ewayVars, ~crossed' PROVE Captured
    OBVIOUS
  <2>1. BillsInv' /\ SellersKept
    BY BillsStep
  <2>2. \A q, r \in Bills : There(bill'[q]) /\ There(bill'[r]) => q = r
    BY <2>1 DEF BillsInv, OneByOne
  <2>3. /\ Latest(bill') \in 0..MaxBills /\ (Latest(bill') # 0 => There(bill'[Latest(bill')]))
        /\ \A q \in Bills : There(bill'[q]) => q <= Latest(bill')
    BY LatestFacts
  <2>4. ASSUME NEW r \in Bills, bill'[r].status # "ABSENT"
        PROVE  r = Latest(bill') /\ \A q \in Bills \ {r} : bill'[q].status = "ABSENT"
    <3>1. Latest(bill') \in Bills /\ There(bill'[Latest(bill')])
      BY <2>3, <2>4 DEF There, Bills
    <3> QED BY <2>2, <2>4, <3>1 DEF There
  <2> QED BY <2>1, <2>4 DEF SellersKept, There
<1> QED BY <1>1, BillsInit, BillsStep, PTL DEF EWayBillSpec, CapturedForGood
=============================================================================

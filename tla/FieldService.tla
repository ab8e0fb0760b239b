----------------------------- MODULE FieldService -----------------------------
(***************************************************************************)
(* Customer assets, maintenance plans and incidents:                       *)
(* internal/modules/fieldservice.  Users change single rows; the worker's  *)
(* loop raises the incidents that are due in one transaction per           *)
(* organisation, holding the rows of the plans it found.  What is due is   *)
(* asked of the database, by the date of its time zone; how far a plan     *)
(* moves on is counted by the process, by the date in UTC.                 *)
(*                                                                         *)
(* Abstractions: customers, places, priorities and the work log's texts    *)
(* are left out; a manual incident is an incident without a plan.          *)
(***************************************************************************)
EXTENDS Integers, Sequences, FiniteSets, SequencesExt

CONSTANTS
    Assets,
    Plans,
    Keepers,        \* worker processes that run the loop
    Rests,          \* every_days of a plan
    LastDay,        \* bound: days
    MaxIncidents,   \* bound: incidents
    MaxChanges,     \* bound: changes of assets, plans and incidents
    Manual

ASSUME FieldAssumption ==
    /\ Assets # {} /\ IsFiniteSet(Plans) /\ Manual \notin Plans
    /\ Rests \subseteq Nat \ {0} /\ LastDay \in Nat \ {0}

VARIABLES
    date,       \* today, of the database: current_date
    utc,        \* today, of the worker's process: a day before or after it at most
    asset,      \* customer_assets: status
    plan,       \* maintenance_plans
    incident,   \* incidents, by number
    nextNumber, \* incident_counters
    keeper,     \* RunMaintenance of each worker: the rows it holds
    ahead,      \* history: incidents raised while the database's date was ahead
    changes

fieldVars == <<date, utc, asset, plan, incident, nextNumber, keeper, ahead, changes>>
clocks == <<date, utc>>

Days == 1..LastDay
IncidentStatuses == {"OPEN", "IN_PROGRESS", "ON_HOLD", "RESOLVED", "CLOSED"}
Over == {"RESOLVED", "CLOSED"}

NoPlan == [state |-> "none", asset |-> CHOOSE a \in Assets : TRUE, every |-> 1, first |-> 1, due |-> 1, active |-> FALSE]
NoHold == [plans |-> {}, alive |-> {}]

FieldTypeOK ==
    /\ date \in Days /\ utc \in Days /\ utc - date \in {-1, 0, 1} /\ asset \in [Assets -> {"ACTIVE", "RETIRED"}]
    /\ \A p \in Plans : plan[p].state \in {"none", "live", "gone"} /\ plan[p].every \in Rests \cup {1}
    /\ nextNumber = Len(incident) + 1
    /\ \A i \in DOMAIN incident :
         /\ incident[i].number = i
         /\ incident[i].status \in IncidentStatuses
         /\ incident[i].resolved # 0 <=> incident[i].status \in Over
         /\ incident[i].resolved # 0 => incident[i].resolved \in incident[i].day..date

FieldInit ==
    /\ date = 1 /\ utc = 1
    /\ asset \in [Assets -> {"ACTIVE", "RETIRED"}]
    /\ plan = [p \in Plans |-> NoPlan]
    /\ incident = <<>> /\ nextNumber = 1
    /\ keeper = [w \in Keepers |-> NoHold]
    /\ ahead = {} /\ changes = 0

Held == UNION {keeper[w].plans : w \in Keepers}

Change == changes < MaxChanges /\ changes' = changes + 1

-----------------------------------------------------------------------------
(* Users *)

UpdateAsset(a) ==
    /\ Change
    /\ asset' = [asset EXCEPT ![a] = IF @ = "ACTIVE" THEN "RETIRED" ELSE "ACTIVE"]
    /\ UNCHANGED <<clocks, plan, incident, nextNumber, keeper, ahead>>

CreatePlan(p) ==
    /\ plan[p].state = "none"
    /\ \E a \in Assets, e \in Rests, d \in Days :
         /\ asset[a] = "ACTIVE"
         /\ plan' = [plan EXCEPT ![p] = [state |-> "live", asset |-> a, every |-> e, first |-> d, due |-> d, active |-> TRUE]]
    /\ UNCHANGED <<clocks, asset, incident, nextNumber, keeper, ahead, changes>>

\* A row the worker holds makes the others wait.
SetPlanActive(p) ==
    /\ plan[p].state = "live" /\ p \notin Held /\ Change
    /\ plan' = [plan EXCEPT ![p].active = ~@]
    /\ UNCHANGED <<clocks, asset, incident, nextNumber, keeper, ahead>>

DeletePlan(p) ==
    /\ plan[p].state = "live" /\ p \notin Held /\ Change
    /\ plan' = [plan EXCEPT ![p].state = "gone"]
    /\ UNCHANGED <<clocks, asset, incident, nextNumber, keeper, ahead>>

\* nextNumber: the counter's row is locked to the commit.
Numbered(i) == nextNumber + i - 1

Incident(number, p, due) ==
    [number |-> number, plan |-> p, due |-> due, day |-> date, status |-> "OPEN", resolved |-> 0]

CreateIncident ==
    /\ Len(incident) < MaxIncidents
    /\ incident' = Append(incident, Incident(Numbered(1), Manual, 0))
    /\ nextNumber' = nextNumber + 1
    /\ UNCHANGED <<clocks, asset, plan, keeper, ahead, changes>>

\* Resolving stamps the day, once; reopening clears it.
Stamp(i, status) ==
    IF status \notin Over THEN 0 ELSE IF incident[i].resolved # 0 THEN incident[i].resolved ELSE date

SetStatus(i, status) ==
    /\ Change
    /\ incident' = [incident EXCEPT ![i] = [@ EXCEPT !.status = status, !.resolved = Stamp(i, status)]]
    /\ UNCHANGED <<clocks, asset, plan, nextNumber, keeper, ahead>>

TimeOnly == UNCHANGED <<asset, plan, incident, nextNumber, keeper, ahead, changes>>

\* The day changes in the database's time zone, and in UTC.
Midnight ==
    /\ date < LastDay /\ date <= utc /\ date' = date + 1
    /\ TimeOnly /\ UNCHANGED utc

UtcMidnight ==
    /\ utc < LastDay /\ utc <= date /\ utc' = utc + 1
    /\ TimeOnly /\ UNCHANGED date

-----------------------------------------------------------------------------
(* RunMaintenance *)

DuePlans == {p \in Plans : plan[p].state = "live" /\ plan[p].active /\ plan[p].due <= date}

\* Variant: the rows are read without FOR UPDATE.
FindDueUnlocked(w) ==
    /\ keeper[w] = NoHold /\ DuePlans # {}
    /\ keeper' = [keeper EXCEPT ![w] = [plans |-> DuePlans, alive |-> {a \in Assets : asset[a] = "ACTIVE"}]]
    /\ UNCHANGED <<clocks, asset, plan, incident, nextNumber, ahead, changes>>

\* FOR UPDATE OF m: a second worker waits here, and then finds the rows moved.
FindDue(w) ==
    /\ keeper[w] = NoHold /\ DuePlans # {} /\ DuePlans \cap Held = {}
    /\ keeper' = [keeper EXCEPT ![w] = [plans |-> DuePlans, alive |-> {a \in Assets : asset[a] = "ACTIVE"}]]
    /\ UNCHANGED <<clocks, asset, plan, incident, nextNumber, ahead, changes>>

\* Forward from the due date, past today in UTC; a date that is past it already stays.
NextDue(p) ==
    IF plan[p].due > utc THEN plan[p].due
    ELSE plan[p].due + plan[p].every * ((utc - plan[p].due) \div plan[p].every + 1)

Serviced(w) == {p \in keeper[w].plans : plan[p].asset \in keeper[w].alive}

\* Variant: the plans of retired assets are passed by.
MovedServiced(w) == Serviced(w)

\* A retired asset has no incident, but its plan moves on.
MovedPlans(w) == keeper[w].plans

InOrderOfDue(raised) == \A i, j \in DOMAIN raised : i < j => plan[raised[i]].due <= plan[raised[j]].due

RaiseDue(w) ==
    /\ keeper[w].plans # {} /\ Len(incident) + Cardinality(Serviced(w)) <= MaxIncidents
    /\ \E raised \in {s \in SetToSeqs(Serviced(w)) : InOrderOfDue(s)} :
         incident' = incident \o [i \in DOMAIN raised |-> Incident(Numbered(i), raised[i], plan[raised[i]].due)]
    /\ nextNumber' = nextNumber + Cardinality(Serviced(w))
    /\ ahead' = IF date > utc THEN ahead \cup Len(incident) + 1 .. Len(incident) + Cardinality(Serviced(w)) ELSE ahead
    /\ plan' = [p \in Plans |-> IF p \in MovedPlans(w) THEN [plan[p] EXCEPT !.due = NextDue(p)] ELSE plan[p]]
    /\ keeper' = [keeper EXCEPT ![w] = NoHold]
    /\ UNCHANGED <<clocks, asset, changes>>

\* The transaction is lost: nothing of it stays.
RaiseFails(w) ==
    /\ keeper[w].plans # {} /\ Change
    /\ keeper' = [keeper EXCEPT ![w] = NoHold]
    /\ UNCHANGED <<clocks, asset, plan, incident, nextNumber, ahead>>

FieldNext ==
    \/ \E a \in Assets : UpdateAsset(a)
    \/ \E p \in Plans : CreatePlan(p) \/ SetPlanActive(p) \/ DeletePlan(p)
    \/ CreateIncident \/ Midnight \/ UtcMidnight
    \/ \E i \in DOMAIN incident, status \in IncidentStatuses : SetStatus(i, status)
    \/ \E w \in Keepers : FindDue(w) \/ RaiseDue(w) \/ RaiseFails(w)

\* The loop comes round for ever, and the process's day follows the database's; a lost
\* transaction needs a change of the bound.
FieldFairness ==
    /\ \A w \in Keepers : WF_fieldVars(FindDue(w)) /\ WF_fieldVars(RaiseDue(w))
    /\ WF_fieldVars(utc < date /\ UtcMidnight)

FieldSpec == FieldInit /\ [][FieldNext]_fieldVars
FieldFairSpec == FieldSpec /\ FieldFairness
-----------------------------------------------------------------------------
(* Properties *)

\* However far a plan is behind and however many workers run, it raises one
\* incident a day at most: "one incident, not a backlog" (fieldservice.go:600),
\* and none twice for one due date; unless the first was raised while the
\* database's date was ahead of the process's (fieldservice.go:608, 632), when
\* the plan may not have moved past the database's today.
OneNotABacklog ==
    \A i, j \in DOMAIN incident : i < j /\ incident[i].plan = incident[j].plan /\ incident[i].plan # Manual =>
        (incident[i].day # incident[j].day /\ incident[i].due # incident[j].due) \/ i \in ahead

\* What is due is moved on in the end, retired assets included, while the plan is
\* active and there is room for its incident, whichever of the two clocks leads.
EventuallyMoved ==
    \A p \in Plans : p \in DuePlans ~> (p \notin DuePlans \/ Len(incident) > MaxIncidents - Cardinality(Plans))

\* Assets are serviced when due, and once.
ServicedOnce == FieldTypeOK /\ OneNotABacklog
=============================================================================

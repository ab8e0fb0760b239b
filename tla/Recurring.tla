------------------------------ MODULE Recurring -------------------------------
(***************************************************************************)
(* Recurring invoices: internal/modules/recurring.  The worker's loop      *)
(* loads what is due and, schedule by schedule and period by period,       *)
(* converts, finalises, records and advances, each in a transaction of its *)
(* own, while users pause, resume and delete schedules.                    *)
(*                                                                         *)
(* A date is <<month, day>>, months counted from a January.  The source    *)
(* document is taken as finalised, and one request pauses or deletes at a  *)
(* time.                                                                   *)
(***************************************************************************)
EXTENDS Integers, Sequences, FiniteSets

CONSTANTS
    Schedules,
    RecurringWorkers,  \* worker processes that run the loop
    Rhythms,      \* <<frequency, interval_count>> in use
    FirstDates,   \* first run dates users ask for
    EndDates,     \* end dates in use; Never: none
    Calendar,     \* the days on which anything happens, in order
    MaxCatchUp,   \* maxCatchUp: periods one run makes up for
    MaxCuts,      \* bound: failures and crashes
    MaxToggles,   \* bound: pauses and resumptions
    Never

Frequencies == {"WEEKLY", "MONTHLY", "QUARTERLY", "YEARLY"}

VARIABLES
    day,        \* index of today in Calendar
    schedule,   \* recurring_schedules
    run,        \* recurring_runs: status by period
    invoices,   \* history: invoices made of a schedule's period
    worker,     \* RunOnce of each worker: its place and the rows it loaded
    wish,       \* history: what the user last asked of a schedule
    late,       \* history: asked while a worker had the row in hand
    doubled,    \* history: schedules two workers had in hand at once
    cut,        \* history: periods whose run failed or was cut short
    cuts, toggles

recurringVars == <<day, schedule, run, invoices, worker, wish, late, doubled, cut, cuts, toggles>>

-----------------------------------------------------------------------------
(* Dates *)

MonthLength(m) ==
    IF m % 12 = 1 THEN (IF (m \div 12) % 4 = 0 THEN 29 ELSE 28)
    ELSE IF m % 12 \in {3, 5, 8, 10} THEN 30 ELSE 31

\* The days there are.
Dates == {d \in Nat \X (1..31) : d[2] <= MonthLength(d[1])}

ASSUME RecurringAssumption ==
    /\ IsFiniteSet(Schedules)
    /\ Rhythms \subseteq Frequencies \X (1..24)
    /\ FirstDates \subseteq Dates
    /\ Calendar \in Seq(Dates) /\ Calendar # <<>>
    /\ MaxCatchUp \in Nat \ {0} /\ MaxCuts \in Nat /\ MaxToggles \in Nat

Before(d, e) == d[1] < e[1] \/ (d[1] = e[1] /\ d[2] < e[2])

\* AddDate(0, 0, n): the days beyond a month's end are carried over.
Carry[d \in Nat \X Nat] ==
    IF d[2] <= MonthLength(d[1]) THEN d ELSE Carry[<<d[1] + 1, d[2] - MonthLength(d[1])>>]

\* Month steps clamp to the last day of a short month.
AddMonths(d, n) ==
    LET m == d[1] + n IN <<m, IF d[2] > MonthLength(m) THEN MonthLength(m) ELSE d[2]>>

Nth(anchor, rhythm, k) ==
    LET n == rhythm[2] * k IN
    CASE rhythm[1] = "WEEKLY"    -> Carry[<<anchor[1], anchor[2] + 7 * n>>]
      [] rhythm[1] = "MONTHLY"   -> AddMonths(anchor, n)
      [] rhythm[1] = "QUARTERLY" -> AddMonths(anchor, 3 * n)
      [] rhythm[1] = "YEARLY"    -> AddMonths(anchor, 12 * n)

Today == Calendar[day]

\* Not after the end date, when there is one.
WithinEnd(d, end) == end = Never \/ ~Before(end, d)

-----------------------------------------------------------------------------
NoSchedule == [state |-> "none", rhythm |-> <<"MONTHLY", 1>>, anchor |-> <<0, 1>>, next |-> <<0, 1>>,
               end |-> Never, finalize |-> FALSE, active |-> FALSE, done |-> 0]

Idle == [at |-> "idle", rows |-> <<>>, ok |-> TRUE]

RecurringTypeOK ==
    /\ day \in DOMAIN Calendar
    /\ \A s \in Schedules :
         /\ schedule[s].state \in {"none", "live", "gone"}
         /\ schedule[s].state = "live" =>
              schedule[s].next = Nth(schedule[s].anchor, schedule[s].rhythm, schedule[s].done)
         /\ \A d \in DOMAIN run[s] : run[s][d] \in {"CREATED", "FINALIZED", "FAILED"}
    /\ \A w \in RecurringWorkers :
         /\ worker[w].at \in {"idle", "convert", "finalize", "record", "advance"}
         /\ worker[w].at = "idle" <=> worker[w].rows = <<>>
         /\ \A i \in DOMAIN worker[w].rows : worker[w].rows[i].tries < MaxCatchUp
    /\ doubled \subseteq Schedules

RecurringInit ==
    /\ day = 1
    /\ schedule = [s \in Schedules |-> NoSchedule]
    /\ run = [s \in Schedules |-> << >>]
    /\ invoices = [s \in Schedules |-> << >>]
    /\ worker = [w \in RecurringWorkers |-> Idle]
    /\ wish = [s \in Schedules |-> FALSE]
    /\ late = {} /\ doubled = {} /\ cut = {} /\ cuts = 0 /\ toggles = 0

\* The value of a function at x, changed by Op, which starts from zero.
Put(f, x, v) == [y \in DOMAIN f \cup {x} |-> IF y = x THEN v ELSE f[y]]
MadeFor(s, d) == IF d \in DOMAIN invoices[s] THEN invoices[s][d] ELSE 0

-----------------------------------------------------------------------------
(* Users *)

Create(s) ==
    /\ schedule[s].state = "none"
    /\ \E r \in Rhythms, first \in FirstDates, end \in EndDates, f \in BOOLEAN :
         /\ ~Before(first, Today)
         /\ end # Never => ~Before(end, first)
         /\ schedule' = [schedule EXCEPT ![s] = [state |-> "live", rhythm |-> r, anchor |-> first, next |-> first,
                                                   end |-> end, finalize |-> f, active |-> TRUE, done |-> 0]]
    /\ wish' = [wish EXCEPT ![s] = TRUE]
    /\ UNCHANGED <<day, run, invoices, worker, late, doubled, cut, cuts, toggles>>

InHand(s) == \E w \in RecurringWorkers : \E i \in DOMAIN worker[w].rows : worker[w].rows[i].id = s

SetActive(s, on) ==
    /\ schedule[s].state = "live" /\ toggles < MaxToggles
    /\ schedule' = [schedule EXCEPT ![s].active = on]
    /\ wish' = [wish EXCEPT ![s] = on]
    /\ late' = IF InHand(s) THEN late \cup {s} ELSE late \ {s}
    /\ toggles' = toggles + 1
    /\ UNCHANGED <<day, run, invoices, worker, doubled, cut, cuts>>

\* The runs go with the schedule (ON DELETE CASCADE); its invoices stay.
Delete(s) ==
    /\ schedule[s].state = "live"
    /\ schedule' = [schedule EXCEPT ![s].state = "gone"]
    /\ run' = [run EXCEPT ![s] = << >>]
    /\ UNCHANGED <<day, invoices, worker, wish, late, doubled, cut, cuts, toggles>>

Tick ==
    /\ day < Len(Calendar)
    /\ day' = day + 1
    /\ UNCHANGED <<schedule, run, invoices, worker, wish, late, doubled, cut, cuts, toggles>>

-----------------------------------------------------------------------------
(* RunOnce *)

\* Variant: what is due today waits for tomorrow.
DueEarlier == {s \in Schedules : schedule[s].state = "live" /\ schedule[s].active /\ Before(schedule[s].next, Today)}

\* Variant: paused schedules are loaded too.
DuePaused == {s \in Schedules : schedule[s].state = "live" /\ ~Before(Today, schedule[s].next)}

Due == {s \in Schedules : schedule[s].state = "live" /\ schedule[s].active /\ ~Before(Today, schedule[s].next)}

Row(s) == [id |-> s, rhythm |-> schedule[s].rhythm, anchor |-> schedule[s].anchor, next |-> schedule[s].next,
           end |-> schedule[s].end, finalize |-> schedule[s].finalize, done |-> schedule[s].done, tries |-> 0]

\* The inner loop goes on with its row.
Continues(r) == r.tries < MaxCatchUp /\ ~Before(Today, r.next) /\ WithinEnd(r.next, r.end)

\* A row whose loop is over is left behind.
Ahead(r, rest) == IF Continues(r) THEN <<r>> \o rest ELSE rest

\* The orders ORDER BY next_run_date allows.
Listings(rows) ==
    {list \in [1..Cardinality(rows) -> rows] :
        \A i, j \in DOMAIN list : i < j => list[i] # list[j] /\ ~Before(list[j].next, list[i].next)}

At(w, place, rows, ok) ==
    worker' = [worker EXCEPT ![w] = IF rows = <<>> THEN Idle ELSE [at |-> place, rows |-> rows, ok |-> ok]]

\* A loaded row stays due; one beyond its end is skipped. Nothing keeps a second
\* worker from the rows.
Load(w) ==
    /\ worker[w] = Idle
    /\ Due # {}
    /\ \E rows \in Listings({r \in {Row(s) : s \in Due} : Continues(r)}) : At(w, "convert", rows, TRUE)
    /\ doubled' = doubled \cup {s \in Due : InHand(s)}
    /\ UNCHANGED <<day, schedule, run, invoices, wish, late, cut, cuts, toggles>>

Current(w) == worker[w].rows[1]

CountInvoice(w) ==
    invoices' = [invoices EXCEPT ![Current(w).id] = Put(@, Current(w).next, MadeFor(Current(w).id, Current(w).next) + 1)]

Excuse(w) == cut' = cut \cup {<<Current(w).id, Current(w).next>>}

\* ConvertDocument makes the invoice; when it fails its draft may be left.
Convert(w) ==
    /\ worker[w].at = "convert"
    /\ \/ /\ CountInvoice(w)
          /\ At(w, IF Current(w).finalize THEN "finalize" ELSE "record", worker[w].rows, TRUE)
          /\ UNCHANGED <<cut, cuts>>
       \/ /\ cuts < MaxCuts /\ cuts' = cuts + 1
          /\ CountInvoice(w) \/ UNCHANGED invoices
          /\ At(w, "record", worker[w].rows, FALSE)
          /\ Excuse(w)
    /\ UNCHANGED <<day, schedule, run, wish, late, doubled, toggles>>

\* A refused finalisation leaves the draft.
Finalize(w) ==
    /\ worker[w].at = "finalize"
    /\ \/ At(w, "record", worker[w].rows, TRUE) /\ UNCHANGED <<cut, cuts>>
       \/ /\ cuts < MaxCuts /\ cuts' = cuts + 1
          /\ At(w, "record", worker[w].rows, FALSE)
          /\ Excuse(w)
    /\ UNCHANGED <<day, schedule, run, invoices, wish, late, doubled, toggles>>

Status(w) == IF ~worker[w].ok THEN "FAILED" ELSE IF Current(w).finalize THEN "FINALIZED" ELSE "CREATED"

\* The upsert of the run; a run that failed is not advanced past.
Record(w) ==
    LET r == Current(w) IN
    /\ worker[w].at = "record" /\ schedule[r.id].state = "live"
    /\ run' = [run EXCEPT ![r.id] = Put(@, r.next, Status(w))]
    /\ IF worker[w].ok THEN At(w, "advance", worker[w].rows, TRUE)
                       ELSE At(w, "convert", Tail(worker[w].rows), TRUE)
    /\ UNCHANGED <<day, schedule, invoices, wish, late, doubled, cut, cuts, toggles>>

\* The schedule has been deleted: its run cannot be inserted and RunOnce ends.
RecordOrphan(w) ==
    /\ worker[w].at = "record" /\ schedule[Current(w).id].state = "gone"
    /\ At(w, "idle", <<>>, TRUE)
    /\ UNCHANGED <<day, schedule, run, invoices, wish, late, doubled, cut, cuts, toggles>>

\* Variant: the next date is counted from the last one.
StepOn(r) == [r EXCEPT !.done = @ + 1, !.tries = @ + 1, !.next = Nth(r.next, r.rhythm, 1)]

Step(r) == [r EXCEPT !.done = @ + 1, !.tries = @ + 1, !.next = Nth(r.anchor, r.rhythm, r.done + 1)]

\* Variant: the next date is not written.
AdvanceDateless(w) ==
    LET r == Step(Current(w)) IN
    /\ worker[w].at = "advance"
    /\ schedule' = IF schedule[r.id].state = "live"
                   THEN [schedule EXCEPT ![r.id].active = WithinEnd(r.next, r.end)] ELSE schedule
    /\ At(w, "convert", Ahead(r, Tail(worker[w].rows)), TRUE)
    /\ UNCHANGED <<day, run, invoices, wish, late, doubled, cut, cuts, toggles>>

\* The update goes by id: no row if the schedule is gone; a pause is overwritten.
Advance(w) ==
    LET r == Step(Current(w)) IN
    /\ worker[w].at = "advance"
    /\ schedule' = IF schedule[r.id].state = "live"
                   THEN [schedule EXCEPT ![r.id].next = r.next, ![r.id].done = r.done,
                                         ![r.id].active = WithinEnd(r.next, r.end)]
                   ELSE schedule
    /\ At(w, "convert", Ahead(r, Tail(worker[w].rows)), TRUE)
    /\ UNCHANGED <<day, run, invoices, wish, late, doubled, cut, cuts, toggles>>

\* A statement fails or the process dies: RunOnce ends where it is.
CutShort(w) ==
    /\ worker[w] # Idle /\ cuts < MaxCuts
    /\ cuts' = cuts + 1
    /\ IF worker[w].at = "convert" THEN UNCHANGED cut ELSE Excuse(w)
    /\ At(w, "idle", <<>>, TRUE)
    /\ UNCHANGED <<day, schedule, run, invoices, wish, late, doubled, toggles>>

RunStep(w) ==
    \/ Load(w) \/ Convert(w) \/ Finalize(w) \/ Record(w) \/ RecordOrphan(w) \/ Advance(w)

RecurringNext ==
    \/ \E s \in Schedules : \/ Create(s) \/ Delete(s)
                            \/ \E on \in BOOLEAN : SetActive(s, on)
    \/ \E w \in RecurringWorkers : RunStep(w) \/ CutShort(w)
    \/ Tick

\* The worker's loop comes round every interval for ever; users and the clock owe
\* nothing.
RecurringFairness == \A w \in RecurringWorkers : WF_recurringVars(RunStep(w))

RecurringSpec == RecurringInit /\ [][RecurringNext]_recurringVars
RecurringFairSpec == RecurringSpec /\ RecurringFairness
-----------------------------------------------------------------------------
(* Properties *)

\* A period has one invoice, unless a run of it failed or was cut short: the
\* conversion is committed by then and the next loop converts again
\* (recurring.go:301, createOne and advance in transactions of their own), or two
\* workers had the schedule in hand (RunOnce takes no lock).
OneInvoicePerPeriod ==
    \A s \in Schedules : \A d \in DOMAIN invoices[s] :
        invoices[s][d] = 1 \/ <<s, d>> \in cut \/ s \in doubled

\* A schedule never advances past a period without an invoice whose run is
\* recorded as made (recurring.go:306, "do not advance past a failure"); of two
\* workers the slower one can record its failure over the other's success.
NonePassedOver ==
    \A s \in Schedules : schedule[s].state = "live" =>
        \A k \in 0..(schedule[s].done - 1) :
            LET d == Nth(schedule[s].anchor, schedule[s].rhythm, k)
            IN  MadeFor(s, d) > 0 /\ d \in DOMAIN run[s] /\ (run[s][d] # "FAILED" \/ s \in doubled)

\* Invoices of a schedule that counts in months fall on its first date's day of
\* the month, or on the last day of a month that is too short, also after such
\* a month (recurring.go:55, counting from the anchor), and never past its end.
OnTheFirstDatesDay ==
    \A s \in Schedules : \A d \in DOMAIN invoices[s] :
        /\ WithinEnd(d, schedule[s].end)
        /\ schedule[s].rhythm[1] # "WEEKLY" =>
             \/ d[2] = schedule[s].anchor[2]
             \/ d[2] < schedule[s].anchor[2] /\ d[2] = MonthLength(d[1])

\* A pause holds, unless it came while a run had already loaded the schedule:
\* advance writes active back (recurring.go:361).
PauseHolds ==
    \A s \in Schedules :
        schedule[s].state = "live" /\ schedule[s].active => wish[s] \/ s \in late

Owed(s) ==
    LET r == schedule[s] IN
    r.state = "live" /\ r.active /\ ~Before(Today, r.next) /\ WithinEnd(r.next, r.end)

\* What is due is invoiced in the end, whatever failed before, unless the
\* schedule is paused or deleted.
EventuallyInvoiced == \A s \in Schedules : Owed(s) ~> ~Owed(s)

\* What a schedule promises its customer: an invoice a period, on its day, none
\* passed over and none in a pause.
InvoicedAsScheduled == RecurringTypeOK /\ OneInvoicePerPeriod /\ NonePassedOver /\ OnTheFirstDatesDay /\ PauseHolds
=============================================================================

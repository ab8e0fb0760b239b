------------------------------ MODULE Reminders -------------------------------
(***************************************************************************)
(* Payment reminders and share links: internal/modules/reminders and       *)
(* internal/modules/notifications.  The worker's loop reads what is        *)
(* overdue in one transaction; for each invoice it then makes a share      *)
(* link, queues the e-mail and writes the log, each in a transaction of    *)
(* its own.  A queued e-mail is an outbox event.                           *)
(*                                                                         *)
(* Abstractions: every customer has an address; the texts are left out;    *)
(* an invoice's due date is fixed and its balance is paid in one piece.    *)
(***************************************************************************)
EXTENDS Integers, Sequences, FiniteSetsExt, SequencesExt

CONSTANTS
    Bills,          \* finalised invoices
    Loops,          \* worker processes that run the loop
    After,          \* days_after_due in use
    Every,          \* repeat_every_days in use
    Limits,         \* max_reminders in use
    LinkDays,       \* shareLinkTTL
    LastDate,       \* bound: days
    MaxLosses,      \* bound: failed transactions and crashes
    MaxSettings     \* bound: changes of the settings

ASSUME RemindersAssumption ==
    /\ IsFiniteSet(Bills) /\ LinkDays \in Nat /\ LastDate \in Nat \ {0}
    /\ After \subseteq Nat /\ Every \subseteq Nat \ {0} /\ Limits \subseteq Nat \ {0}

VARIABLES
    now,        \* today
    settings,   \* reminder_settings
    due,        \* due date of an invoice
    open,       \* invoices with something outstanding
    paidOn,     \* history: the day an invoice was paid; 0: open
    sentLog,    \* reminder_log
    links,      \* share_links
    mails,      \* e-mails queued in the outbox
    loop,       \* RunOnce of each worker
    loosest,    \* history: the highest limit and the shortest interval so far
    excused,    \* history: invoices whose reminder was queued and not logged, or
                \* that two workers had in hand at once
    losses, saved

reminderVars == <<now, settings, due, open, paidOn, sentLog, links, mails, loop, loosest, excused, losses, saved>>

Resting == [at |-> "rest", items |-> <<>>, on |-> 0, link |-> 0]

RemindersTypeOK ==
    /\ now \in 1..LastDate
    /\ settings \in [enabled : BOOLEAN, after : After, every : Every, max : Limits]
    /\ \A w \in Loops : /\ loop[w].at \in {"rest", "link", "queue", "log"}
                        /\ loop[w].at = "rest" <=> loop[w].items = <<>>
    /\ \A i \in DOMAIN mails : links[mails[i].link].bill = mails[i].bill
    /\ \A i \in DOMAIN links : links[i].seen <= links[i].expires /\ (links[i].seen = 0 <=> links[i].views = 0)

RemindersInit ==
    /\ now = 1
    /\ settings \in [enabled : BOOLEAN, after : After, every : Every, max : Limits]
    /\ due \in [Bills -> 1..2]
    /\ open \in SUBSET Bills /\ paidOn = [b \in Bills |-> 0]
    /\ sentLog = <<>> /\ links = <<>> /\ mails = <<>>
    /\ loop = [w \in Loops |-> Resting]
    /\ loosest = [max |-> settings.max, every |-> settings.every]
    /\ excused = {} /\ losses = 0 /\ saved = 0

Lose == losses < MaxLosses /\ losses' = losses + 1

-----------------------------------------------------------------------------
(* Users and the clock *)

\* An upsert of the whole row.
SaveReminders ==
    /\ saved < MaxSettings /\ saved' = saved + 1
    /\ settings' \in [enabled : BOOLEAN, after : After, every : Every, max : Limits]
    /\ loosest' = [max |-> Max({loosest.max, settings'.max}), every |-> Min({loosest.every, settings'.every})]
    /\ UNCHANGED <<now, due, open, paidOn, sentLog, links, mails, loop, excused, losses>>

\* A receipt or a credit note brings the balance to zero.
Pay(b) ==
    /\ b \in open
    /\ open' = open \ {b} /\ paidOn' = [paidOn EXCEPT ![b] = now]
    /\ UNCHANGED <<now, settings, due, sentLog, links, mails, loop, loosest, excused, losses, saved>>

NextDay ==
    /\ now < LastDate /\ now' = now + 1
    /\ UNCHANGED <<settings, due, open, paidOn, sentLog, links, mails, loop, loosest, excused, losses, saved>>

-----------------------------------------------------------------------------
(* Share links *)

NewLink(b) == [bill |-> b, expires |-> now + LinkDays, revoked |-> FALSE, views |-> 0, seen |-> 0]

RevokeShareLink(i) ==
    /\ ~links[i].revoked
    /\ links' = [links EXCEPT ![i].revoked = TRUE]
    /\ UNCHANGED <<now, settings, due, open, paidOn, sentLog, mails, loop, loosest, excused, losses, saved>>

Usable(i) == ~links[i].revoked /\ now <= links[i].expires

\* RedeemShareLink, then RecordView.
Redeem(i) ==
    /\ Usable(i) /\ links[i].views = 0
    /\ links' = [links EXCEPT ![i] = [@ EXCEPT !.views = 1, !.seen = now]]
    /\ UNCHANGED <<now, settings, due, open, paidOn, sentLog, mails, loop, loosest, excused, losses, saved>>

-----------------------------------------------------------------------------
(* RunOnce *)

Logged(b) == {i \in DOMAIN sentLog : sentLog[i].bill = b}

\* Variant: any reminder of today only keeps the next one back.
RecentlyToday(b) == \E i \in Logged(b) : sentLog[i].on = now

Recently(b) == \E i \in Logged(b) : sentLog[i].on > now - settings.every

BelowLimit(b) == Cardinality(Logged(b)) < settings.max

\* Variant: paid invoices too.
OverdueAll == {b \in Bills : due[b] + settings.after <= now /\ ~Recently(b) /\ BelowLimit(b)}

Overdue == {b \in open : due[b] + settings.after <= now /\ ~Recently(b) /\ BelowLimit(b)}

OldestFirst(items) == \A i, j \in DOMAIN items : i < j => due[items[i]] <= due[items[j]]

ReadOverdue(w) ==
    /\ loop[w] = Resting /\ settings.enabled /\ Overdue # {}
    /\ \E items \in {s \in SetToSeqs(Overdue) : OldestFirst(s)} :
         loop' = [loop EXCEPT ![w] = [at |-> "link", on |-> now, link |-> 0, items |-> items]]
    /\ excused' = excused \cup {b \in Overdue : \E o \in Loops : \E i \in DOMAIN loop[o].items : loop[o].items[i] = b}
    /\ UNCHANGED <<now, settings, due, open, paidOn, sentLog, links, mails, loosest, losses, saved>>

Item(w) == loop[w].items[1]
NextItem(r) == IF Len(r.items) = 1 THEN Resting ELSE [r EXCEPT !.at = "link", !.items = Tail(r.items)]
GoOn(w) == loop' = [loop EXCEPT ![w] = NextItem(loop[w])]

\* EmailDocument, first transaction.
CreateShareLink(w) ==
    /\ loop[w].at = "link"
    /\ \/ /\ links' = Append(links, NewLink(Item(w))) /\ UNCHANGED losses
          /\ loop' = [loop EXCEPT ![w] = [@ EXCEPT !.at = "queue", !.link = Len(links) + 1]]
       \/ Lose /\ GoOn(w) /\ UNCHANGED links
    /\ UNCHANGED <<now, settings, due, open, paidOn, sentLog, mails, loosest, excused, saved>>

Mail(w, link) == [bill |-> Item(w), on |-> now, read |-> loop[w].on, link |-> link]

\* EmailDocument, second transaction: without it the link stays, for nobody, and
\* the loop goes on.
QueueSend(w) ==
    /\ loop[w].at = "queue"
    /\ \/ /\ mails' = Append(mails, Mail(w, loop[w].link))
          /\ loop' = [loop EXCEPT ![w].at = "log"] /\ UNCHANGED losses
       \/ Lose /\ GoOn(w) /\ UNCHANGED mails
    /\ UNCHANGED <<now, settings, due, open, paidOn, sentLog, links, loosest, excused, saved>>

\* A log that cannot be written ends the run.
LogReminder(w) ==
    /\ loop[w].at = "log"
    /\ \/ sentLog' = Append(sentLog, [bill |-> Item(w), on |-> now]) /\ GoOn(w) /\ UNCHANGED <<excused, losses>>
       \/ Lose /\ excused' = excused \cup {Item(w)} /\ loop' = [loop EXCEPT ![w] = Resting] /\ UNCHANGED sentLog
    /\ UNCHANGED <<now, settings, due, open, paidOn, links, mails, loosest, saved>>

\* The worker dies.
LoopDies(w) ==
    /\ loop[w] # Resting /\ Lose
    /\ excused' = IF loop[w].at = "log" THEN excused \cup {Item(w)} ELSE excused
    /\ loop' = [loop EXCEPT ![w] = Resting]
    /\ UNCHANGED <<now, settings, due, open, paidOn, sentLog, links, mails, loosest, saved>>

LoopStep(w) == ReadOverdue(w) \/ CreateShareLink(w) \/ QueueSend(w) \/ LogReminder(w)

RemindersNext ==
    \/ SaveReminders \/ NextDay \/ \E b \in Bills : Pay(b)
    \/ \E i \in DOMAIN links : RevokeShareLink(i) \/ Redeem(i)
    \/ \E w \in Loops : LoopStep(w) \/ LoopDies(w)

\* The loop comes round every interval for ever.
RemindersFairness == \A w \in Loops : WF_reminderVars(LoopStep(w))

RemindersSpec == RemindersInit /\ [][RemindersNext]_reminderVars
RemindersFairSpec == RemindersSpec /\ RemindersFairness
-----------------------------------------------------------------------------
(* Properties *)

Reminders(b) == {i \in DOMAIN mails : mails[i].bill = b}

\* "An invoice is only reminded again after repeat_every_days, and never more
\* than max_reminders times" (reminders.go:160), unless a reminder was queued
\* and its log not written, or two workers ran at once.
RemindedAsConfigured ==
    \A b \in Bills \ excused :
        /\ Cardinality(Reminders(b)) <= loosest.max
        /\ \A i, j \in Reminders(b) : i < j => mails[j].read - mails[i].on >= loosest.every

\* A customer who has paid is not reminded, unless the payment came after the
\* run had read the invoice as open.
NoReminderAfterPayment ==
    \A i \in DOMAIN mails : LET p == paidOn[mails[i].bill] IN p = 0 \/ p >= mails[i].read

\* What is overdue is reminded of in the end, unless it is paid or reminders are
\* switched off or changed.
EventuallyReminded ==
    \A b \in Bills : (b \in open /\ settings.enabled /\ due[b] + settings.after <= now /\ Reminders(b) = {})
        ~> (Reminders(b) # {} \/ b \notin open \/ ~settings.enabled \/ due[b] + settings.after > now)

\* Customers are reminded as configured, and not of what they have paid.
RemindedRightly == RemindersTypeOK /\ RemindedAsConfigured /\ NoReminderAfterPayment
=============================================================================

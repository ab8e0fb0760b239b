------------------------------- MODULE DataSync -------------------------------
(***************************************************************************)
(* Two installs kept alike: internal/modules/datasync over migration 0062. *)
(*                                                                         *)
(* Desktop installs and one server, each with a database of its own.  A    *)
(* trigger logs every change to a synced row, with a sequence number taken *)
(* before the transaction commits: a reader of the log sees a later number *)
(* before an earlier one when the later commits first.  A round pushes a   *)
(* device's own changes and then pulls the others'; a request whose answer *)
(* is lost was still carried out.                                          *)
(*                                                                         *)
(* Abstractions: a row is the time it was last written (updated_at), so    *)
(* that a write that keeps it (SetStatus) shows in the log and in apart    *)
(* only; its unique value and its parent never change; the clocks of the   *)
(* sites agree and no two other writes have one time; the server applies a *)
(* push in one step, so that only edits are seen to commit out of order    *)
(* there; keys, addresses, permissions and the settings page are left out. *)
(***************************************************************************)
EXTENDS Integers, SequencesExt

CONSTANTS
    Devices,    \* desktop installs
    Server,
    Rows,       \* records of the synced tables, by their id
    Dated,      \* those of tables with an updated_at; the others never change
    Parent,     \* the row a row refers to, or NoRow
    Rivals,     \* pairs of rows with the same unique value
    Runners,    \* rounds at a time: the background loop and a user's SyncNow
    InstallOf,  \* the device a runner belongs to
    Page,       \* changes in one request
    MaxClock,   \* a bound on the edits
    MaxLinks,   \* a bound on linking again
    MaxLost,    \* a bound on lost answers and stopped rounds
    NoRow

ASSUME SyncAssumption ==
    /\ Server \notin Devices /\ Dated \subseteq Rows /\ NoRow \notin Rows
    /\ Parent \in [Rows -> Rows \cup {NoRow}] /\ Rivals \subseteq SUBSET Rows
    /\ InstallOf \in [Runners -> Devices]
    /\ Page \in Nat \ {0} /\ {MaxClock, MaxLinks, MaxLost} \subseteq Nat

VARIABLES
    clock,      \* the time, moved on by edits
    born,       \* rows created so far: an id is used once
    table,      \* each site's rows, 0 where absent
    log,        \* each site's sync_changes, in the order of their numbers
    links,      \* each device's sync_links row, and how often it was linked
    round,      \* each runner's round
    lost,       \* answers lost so far
    seen,       \* rows a site has had, to tell an insert from a resurrection
    apart       \* rows something happened to that the design lets go apart

syncVars == <<clock, born, table, log, links, round, lost, seen, apart>>

Sites == Devices \cup {Server}
Moments == 0 .. MaxClock

\* "at" is 0 for a delete; "by" wrote it, "origin" is the device id it was pushed
\* under, its generation of the link with it.
Change == [row : Rows, at : Moments, by : Sites,
           origin : {<<>>} \cup (Devices \X (1 .. MaxLinks)), state : {"open", "done", "void"}]

Round == [pc : {"idle", "push", "send", "sent", "pull", "apply", "applied"}, gen : 0 .. MaxLinks,
          pushed : Nat, pulled : Nat, batch : Seq(Change), top : Nat, more : BOOLEAN]
Quiet == [pc |-> "idle", gen |-> 0, pushed |-> 0, pulled |-> 0, batch |-> <<>>, top |-> 0, more |-> FALSE]

SyncTypeOK ==
    /\ clock \in Moments /\ born \in SUBSET Rows
    /\ table \in [Sites -> [Rows -> Moments]]
    /\ log \in [Sites -> Seq(Change)]
    /\ links \in [Devices -> [on : BOOLEAN, gen : 0 .. MaxLinks, pushed : Nat, pulled : Nat]]
    /\ round \in [Runners -> Round]
    /\ \A w \in Runners :
          round[w].pushed <= Len(log[InstallOf[w]]) /\ round[w].pulled <= Len(log[Server])
    /\ lost \in 0 .. MaxLost /\ apart \in SUBSET Rows /\ seen \in [Sites -> SUBSET Rows]

SyncInit ==
    /\ clock = 0 /\ born = {} /\ lost = 0 /\ apart = {}
    /\ table = [s \in Sites |-> [r \in Rows |-> 0]]
    /\ log = [s \in Sites |-> <<>>] /\ seen = [s \in Sites |-> {}]
    /\ links = [d \in Devices |-> [on |-> FALSE, gen |-> 0, pushed |-> 0, pulled |-> 0]]
    /\ round = [w \in Runners |-> Quiet]

-----------------------------------------------------------------------------
(* What users do to the rows of a site *)

Children(r) == {c \in Rows : Parent[c] = r}
RivalsOf(r) == UNION {p \in Rivals : r \in p} \ {r}

\* Two transactions on rows that are one, that refer to each other or that have
\* one unique value wait for each other.
Meets(r, q) == r = q \/ q \in RivalsOf(r) \/ Parent[r] = q \/ Parent[q] = r

Busy(s, rows) ==
    \E i \in DOMAIN log[s] : log[s][i].state = "open" /\ \E r \in rows : Meets(r, log[s][i].row)

LogEntry(r, at, by, origin, state) ==
    [row |-> r, at |-> at, by |-> by, origin |-> origin, state |-> state]

\* The constraints of the tables, which the services have the database check.
HasParent(t, r) == Parent[r] # NoRow => t[Parent[r]] > 0
MayCreate(t, r) == HasParent(t, r) /\ \A q \in RivalsOf(r) : t[q] = 0
MayDelete(t, r) == \A c \in Children(r) : t[c] = 0

\* A service of the catalogue or the contacts writes a row; the trigger logs it
\* and takes the next number.
Edit(s, r) ==
    /\ clock < MaxClock
    /\ ~Busy(s, {r})
    /\ clock' = clock + 1
    /\ \/ r \notin born /\ MayCreate(table[s], r) /\ born' = born \cup {r}
          /\ log' = [log EXCEPT ![s] = Append(@, LogEntry(r, clock + 1, s, <<>>, "open"))]
       \/ table[s][r] > 0 /\ r \in Dated /\ born' = born
          /\ log' = [log EXCEPT ![s] = Append(@, LogEntry(r, clock + 1, s, <<>>, "open"))]
       \/ table[s][r] > 0 /\ MayDelete(table[s], r) /\ born' = born
          /\ log' = [log EXCEPT ![s] = Append(@, LogEntry(r, 0, s, <<>>, "open"))]
    /\ UNCHANGED <<table, links, round, lost, seen, apart>>

\* Archiving a product, or bringing it back, keeps its updated_at: it is logged,
\* but the other sites take it for what they have and drop it, so the row goes apart.
SetStatus(s, r) ==
    /\ clock < MaxClock
    /\ ~Busy(s, {r})
    /\ table[s][r] > 0 /\ r \in Dated
    /\ clock' = clock + 1
    /\ log' = [log EXCEPT ![s] = Append(@, LogEntry(r, table[s][r], s, <<>>, "open"))]
    /\ apart' = apart \cup {r}
    /\ UNCHANGED <<born, table, links, round, lost, seen>>

\* Somebody has read the log of s past its entry i already.
Passed(s, i) ==
    \/ s \in Devices /\ links[s].pushed >= i
    \/ s = Server /\ \E d \in Devices : links[d].pulled >= i
    \/ \E w \in Runners :
          \/ InstallOf[w] = s /\ round[w].pushed >= i
          \/ InstallOf[w] = s /\ round[w].pc \in {"send", "sent"} /\ round[w].top >= i
          \/ s = Server /\ round[w].pulled >= i
          \/ s = Server /\ round[w].pc \in {"apply", "applied"} /\ round[w].top >= i

CommitEdit(s, i) ==
    /\ log[s][i].state = "open"
    /\ table' = [table EXCEPT ![s][log[s][i].row] = log[s][i].at]
    /\ log' = [log EXCEPT ![s][i].state = "done"]
    /\ seen' = [seen EXCEPT ![s] = @ \cup {log[s][i].row}]
    /\ apart' = IF Passed(s, i) THEN apart \cup {log[s][i].row} ELSE apart
    /\ UNCHANGED <<clock, born, links, round, lost>>

AbortEdit(s, i) ==
    /\ log[s][i].state = "open"
    /\ log' = [log EXCEPT ![s][i].state = "void"]
    /\ UNCHANGED <<clock, born, table, links, round, lost, seen, apart>>

-----------------------------------------------------------------------------
(* Applying changes: the newer write wins, a delete always does *)

\* Variant: the sender's row wins whatever its age.
NewerAlways(r, at, mine) == TRUE
Newer(r, at, mine) == r \in Dated /\ at > mine

\* What a row's change comes to on table t.
Outcome(t, c) ==
    IF c.at = 0 THEN IF MayDelete(t, c.row) THEN "applied" ELSE "retry"
    ELSE IF t[c.row] > 0 THEN IF Newer(c.row, c.at, t[c.row]) THEN "applied" ELSE "stale"
    ELSE IF \E q \in RivalsOf(c.row) : t[q] > 0 THEN "conflict"
    ELSE IF HasParent(t, c.row) THEN "applied" ELSE "retry"

\* applyOne on a batch's state: the table, the rows there have been, what the
\* trigger logged, the changes kept for a second pass, and the rows that may now
\* differ: one refused, one brought back, one deleted before it came.
ApplyOne(b, c, origin) ==
    LET outcome == Outcome(b.table, c)
        applied == outcome = "applied"
        before == b.table[c.row]
        odd == outcome = "conflict" \/ (before = 0 /\ (c.at > 0 <=> c.row \in b.had)) IN
    [table  |-> IF applied THEN [b.table EXCEPT ![c.row] = c.at] ELSE b.table,
     had    |-> IF applied /\ c.at > 0 THEN b.had \cup {c.row} ELSE b.had,
     logged |-> IF applied /\ (c.at > 0 \/ before > 0)
                THEN Append(b.logged, LogEntry(c.row, c.at, c.by, origin, "done"))
                ELSE b.logged,
     retry  |-> IF outcome = "retry" THEN Append(b.retry, c) ELSE b.retry,
     apart  |-> IF odd THEN b.apart \cup {c.row} ELSE b.apart]

InOrder(start, batch, origin) ==
    LET b[k \in 0 .. Len(batch)] == IF k = 0 THEN start ELSE ApplyOne(b[k - 1], batch[k], origin)
    IN b[Len(batch)]

\* applyBatch: in order, then those that missed a parent or had a child once more.
ApplyBatch(s, batch, origin) ==
    LET start == [table |-> table[s], had |-> seen[s], logged |-> <<>>, retry |-> <<>>, apart |-> apart]
        first == InOrder(start, batch, origin)
        second == InOrder([first EXCEPT !.retry = <<>>], first.retry, origin) IN
    [second EXCEPT !.apart = @ \cup {second.retry[i].row : i \in DOMAIN second.retry}]

-----------------------------------------------------------------------------
(* The link *)

Link(d) ==
    /\ ~links[d].on /\ links[d].gen < MaxLinks
    /\ links' = [links EXCEPT ![d].on = TRUE, ![d].gen = @ + 1]
    /\ UNCHANGED <<clock, born, table, log, round, lost, seen, apart>>

\* The row goes, with its cursors and the device's id.
Unlink(d) ==
    /\ links[d].on
    /\ links' = [links EXCEPT ![d].on = FALSE, ![d].pushed = 0, ![d].pulled = 0]
    /\ UNCHANGED <<clock, born, table, log, round, lost, seen, apart>>

-----------------------------------------------------------------------------
(* A round *)

Proceeds(w, record) == round' = [round EXCEPT ![w] = record]

LoadLink(w) ==
    LET l == links[InstallOf[w]] IN
    /\ round[w].pc = "idle" /\ l.on
    /\ Proceeds(w, [Quiet EXCEPT !.pc = "push", !.gen = l.gen, !.pushed = l.pushed, !.pulled = l.pulled])
    /\ UNCHANGED <<clock, born, table, log, links, lost, seen, apart>>

\* The committed changes after a place of a log, and their first page.
After(s, place) == {i \in DOMAIN log[s] : i > place /\ log[s][i].state = "done"}
PageOf(places) == {i \in places : Cardinality({j \in places : j <= i}) <= Page}
Own(s, places) == {i \in places : log[s][i].origin = <<>>}

\* In the order of their numbers.
Changes(s, places) ==
    LET upTo[i \in 0 .. Len(log[s])] ==
            IF i = 0 THEN <<>>
            ELSE IF i \in places THEN Append(upTo[i - 1], log[s][i])
            ELSE upTo[i - 1]
    IN upTo[Len(log[s])]

ReadLog(w) ==
    LET dev == InstallOf[w]
        page == PageOf(Own(dev, After(dev, round[w].pushed))) IN
    /\ round[w].pc = "push"
    /\ IF page = {}
       THEN Proceeds(w, [round[w] EXCEPT !.pc = "pull"])
       ELSE Proceeds(w, [round[w] EXCEPT !.pc = "send", !.batch = Changes(dev, page), !.top = Max(page)])
    /\ UNCHANGED <<clock, born, table, log, links, lost, seen, apart>>

\* A batch lands in a site's table and, unless the trigger is off, in its log.
Lands(s, batch, origin, logs) ==
    LET b == ApplyBatch(s, batch, origin) IN
    /\ ~Busy(s, {batch[i].row : i \in DOMAIN batch})
    /\ table' = [table EXCEPT ![s] = b.table]
    /\ log' = IF logs THEN [log EXCEPT ![s] = @ \o b.logged] ELSE log
    /\ seen' = [seen EXCEPT ![s] = b.had]
    /\ apart' = b.apart

\* The server carries a push out; its answer may not arrive.
Push(w) ==
    /\ round[w].pc = "send"
    /\ Lands(Server, round[w].batch, <<InstallOf[w], round[w].gen>>, TRUE)
    /\ \/ Proceeds(w, [round[w] EXCEPT !.pc = "sent"]) /\ lost' = lost
       \/ lost < MaxLost /\ lost' = lost + 1 /\ Proceeds(w, Quiet)
    /\ UNCHANGED <<clock, born, links>>

\* The cursor moves to the last change sent, whatever became of it.
SavePushed(w) ==
    LET dev == InstallOf[w] IN
    /\ round[w].pc = "sent"
    /\ links' = IF links[dev].on THEN [links EXCEPT ![dev].pushed = round[w].top] ELSE links
    /\ Proceeds(w, [round[w] EXCEPT !.pc = "push", !.pushed = round[w].top, !.batch = <<>>, !.top = 0])
    /\ UNCHANGED <<clock, born, table, log, lost, seen, apart>>

\* Variant: the last change handed out is where the page ends.
CursorOfHanded(s, page, handed, place) == IF handed = {} THEN place ELSE Max(handed)
\* The last change examined is.
Cursor(s, page, handed, place) == IF page = {} THEN place ELSE Max(page)

\* Variant: everybody's changes.
OthersAll(w, page) == page
Others(w, page) == {i \in page : log[Server][i].origin # <<InstallOf[w], round[w].gen>>}

Pull(w) ==
    LET found == After(Server, round[w].pulled)
        page == PageOf(found)
        others == Others(w, page) IN
    /\ round[w].pc = "pull"
    /\ Proceeds(w, [round[w] EXCEPT !.pc = IF others = {} THEN "applied" ELSE "apply",
                                !.batch = Changes(Server, others),
                                !.top = Cursor(Server, page, others, round[w].pulled),
                                !.more = Cardinality(found) > Page])
    /\ UNCHANGED <<clock, born, table, log, links, lost, seen, apart>>

ApplyPulled(w) ==
    /\ round[w].pc = "apply"
    /\ Lands(InstallOf[w], round[w].batch, <<>>, FALSE)
    /\ Proceeds(w, [round[w] EXCEPT !.pc = "applied"])
    /\ UNCHANGED <<clock, born, links, lost>>

SavePulled(w) ==
    LET dev == InstallOf[w] IN
    /\ round[w].pc = "applied"
    /\ links' = IF links[dev].on THEN [links EXCEPT ![dev].pulled = round[w].top] ELSE links
    /\ Proceeds(w, IF round[w].more
               THEN [round[w] EXCEPT !.pc = "pull", !.pulled = round[w].top, !.batch = <<>>, !.top = 0, !.more = FALSE]
               ELSE Quiet)
    /\ UNCHANGED <<clock, born, table, log, lost, seen, apart>>

\* The server cannot be reached, or the install is shut down.
StopRound(w) ==
    /\ round[w].pc # "idle"
    /\ lost < MaxLost
    /\ lost' = lost + 1
    /\ Proceeds(w, Quiet)
    /\ UNCHANGED <<clock, born, table, log, links, seen, apart>>

Step(w) == LoadLink(w) \/ ReadLog(w) \/ Push(w) \/ SavePushed(w) \/ Pull(w) \/ ApplyPulled(w) \/ SavePulled(w)

SyncNext ==
    \/ \E s \in Sites, r \in Rows : Edit(s, r) \/ SetStatus(s, r)
    \/ \E s \in Sites : \E i \in DOMAIN log[s] : CommitEdit(s, i) \/ AbortEdit(s, i)
    \/ \E dev \in Devices : Link(dev) \/ Unlink(dev)
    \/ \E w \in Runners : Step(w) \/ StopRound(w)

SyncSpec == SyncInit /\ [][SyncNext]_syncVars

-----------------------------------------------------------------------------
(* What the sync promises *)

\* Nothing of a site's committed log is still before a device's cursor.
CaughtUp(d) ==
    /\ Own(d, After(d, links[d].pushed)) = {}
    /\ After(Server, links[d].pulled) = {}

\* A device and the server that have caught up hold the same row, except a row
\* one of whose changes committed behind a cursor, was refused, met a delete or
\* kept its updated_at (datasync.go, applyIn and Pull; client.go, round; the
\* catalogue's SetStatus).
AlikeUnlessApart ==
    \A d \in Devices : links[d].on /\ CaughtUp(d) =>
        \A r \in Rows \ apart : table[d][r] = table[Server][r]

\* A device logs nobody's writes but its own, and is handed none of its own
\* until it is linked again, under a new id (migration 0062, sync_capture; Pull).
NoEcho ==
    /\ \A d \in Devices : \A i \in DOMAIN log[d] : log[d][i].by = d
    /\ \A w \in Runners : \A i \in DOMAIN round[w].batch :
          round[w].pc = "apply" /\ round[w].batch[i].by = InstallOf[w] => links[InstallOf[w]].gen > 1

\* A write reaches the log of a site once, unless its row went apart: sending a
\* batch again, or by two rounds, does not log it again (Push).
LoggedOnce ==
    \A s \in Sites : \A i, j \in DOMAIN log[s] :
        log[s][i].row = log[s][j].row /\ log[s][i].at = log[s][j].at /\ log[s][i].at > 0
            /\ log[s][i].row \notin apart => i = j

\* Every further page of a round lies beyond the one before, also one that holds
\* nothing for this device: a round comes to an end (client.go, round; Pull).
RoundAdvances ==
    [][\A w \in Runners :
          /\ round[w].pc = "sent" /\ round'[w].pc = "push" => round'[w].pushed > round[w].pushed
          /\ round[w].pc = "applied" /\ round'[w].pc = "pull" => round'[w].pulled > round[w].pulled]_syncVars

\* No write travels twice, neither back to where it was made nor into a log.
NothingTwice == SyncTypeOK /\ NoEcho /\ LoggedOnce

\* The installs hold one set of rows, each once, but for what is apart by its timing.
InstallsAgree == AlikeUnlessApart /\ NothingTwice
=============================================================================

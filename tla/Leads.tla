--------------------------------- MODULE Leads ---------------------------------
(***************************************************************************)
(* The sales pipeline: leads, their stages and activities, and how a lead  *)
(* becomes a customer.  internal/modules/crm, with the parties of          *)
(* internal/modules/contacts (LegacyImport).                               *)
(*                                                                         *)
(* Making a customer of a lead is a read, a transaction of contacts and a  *)
(* transaction of its own; importing a file is a read and then one or two  *)
(* transactions for each row.                                              *)
(*                                                                         *)
(* Abstractions: a title stands for title and company, a phone for its     *)
(* last ten digits, an e-mail address for its lower case; amounts, dates   *)
(* and sources are left out, and so are rows with a malformed field.       *)
(***************************************************************************)
EXTENDS LegacyImport

CONSTANTS
    Drafts,         \* leads a user enters: [title, phone, email]
    LeadFiles,      \* sequences of [title, phone, email, stage, owner]
    Stages,         \* [names -> {"OPEN", "WON", "LOST"}]: the pipeline's stages
    FirstStage,     \* the open stage with the least sort_order
    Sellers,        \* users of the organisation
    Agents,         \* requests
    NoParty, NoEmail, NoSeller,
    MaxLeads,       \* bound: leads ever made
    MaxActivities,  \* bound
    MaxRuns,        \* bound: imports
    MaxHitches      \* bound: requests that stop, answers lost

ASSUME LeadsAssumption ==
    /\ FirstStage \in DOMAIN Stages /\ Stages[FirstStage] = "OPEN" /\ Agents # {}
    /\ NoSeller \notin Sellers /\ NoParty \notin Nat
    /\ \A file \in LeadFiles : file \in Seq({file[i] : i \in DOMAIN file})

VARIABLES
    staged,         \* crm_stages has been seeded
    lead,           \* crm_opportunities, in the order they were made
    activity,       \* crm_activities: id |-> row
    sellers,        \* users whose status is ACTIVE
    agent,          \* what each request is doing
    madeFor,        \* history: [party |-> lead] for the customers made of leads
    contested,      \* history: leads two requests made a customer of, or whose request stopped
    relinked,       \* history: leads whose party a form overwrote
    runs, hitches

leadVars == <<staged, lead, activity, sellers, agent, madeFor, contested, relinked, runs, hitches>>

LeadIds == DOMAIN lead
Present(l) == l \in LeadIds /\ ~lead[l].gone
Unengaged == [doing |-> "none", of |-> 0, party |-> NoParty, stage |-> FirstStage, run |-> 0, rows |-> <<>>, seen |-> {}, sellers |-> {}, since |-> 0]

LeadsTypeOK ==
    /\ sellers \subseteq Sellers
    /\ \A l \in LeadIds : /\ lead[l].stage \in DOMAIN Stages /\ lead[l].party \in PartyIds \cup {NoParty}
                          /\ lead[l].owner \in Sellers \cup {NoSeller}
    /\ \A a \in DOMAIN activity : activity[a].of \in LeadIds
    /\ \A c \in Agents : agent[c].doing \in {"none", "customer", "link", "rows", "move"}
    /\ lead # <<>> => staged

LeadsInit ==
    /\ staged = FALSE /\ lead = <<>> /\ activity = <<>> /\ sellers = Sellers
    /\ agent = [c \in Agents |-> Unengaged]
    /\ madeFor = [p \in {} |-> 0] /\ contested = {} /\ relinked = {} /\ runs = 0 /\ hitches = 0

OthersKept == UNCHANGED legacyVars
HistoryKept == UNCHANGED <<madeFor, contested, relinked, hitches>>

-----------------------------------------------------------------------------
(* Leads *)

\* ensureStages: the six stages, when there is none.
EnsureStages == staged' = TRUE

NewLead(d, owner, party, run, since) ==
    [title |-> d.title, phone |-> d.phone, email |-> d.email, owner |-> owner, party |-> party, stage |-> FirstStage,
     closed |-> FALSE, gone |-> FALSE, edited |-> FALSE, run |-> run, since |-> since]

SeedStages ==
    /\ ~staged /\ EnsureStages
    /\ UNCHANGED <<lead, activity, sellers, agent, runs>> /\ HistoryKept /\ OthersKept

\* validateReferences: an active owner and a party of the organisation, or none.
CreateLead(d, owner, party) ==
    /\ Len(lead) < MaxLeads /\ owner \in sellers \cup {NoSeller}
    /\ EnsureStages
    /\ lead' = Append(lead, NewLead(d, owner, party, 0, 0))
    /\ UNCHANGED <<activity, sellers, agent, runs>> /\ HistoryKept /\ OthersKept

\* The form is written whole: whatever customer it was loaded with is put back.
UpdateLead(l, d, party) ==
    /\ Present(l)
    /\ lead' = [lead EXCEPT ![l] = [@ EXCEPT !.title = d.title, !.phone = d.phone, !.email = d.email, !.party = party,
                                         !.edited = TRUE]]
    /\ relinked' = IF party # lead[l].party THEN relinked \cup {l} ELSE relinked
    /\ UNCHANGED <<staged, activity, sellers, agent, madeFor, contested, runs, hitches>> /\ OthersKept

AssignLead(l, owner) ==
    /\ Present(l) /\ owner \in sellers \cup {NoSeller}
    /\ lead' = [lead EXCEPT ![l].owner = owner]
    /\ UNCHANGED <<staged, activity, sellers, agent, runs>> /\ HistoryKept /\ OthersKept

\* Variant: a lead that is moved back stays closed.
MovedForGood(x, stage) == [x EXCEPT !.stage = stage, !.closed = @ \/ Stages[stage] # "OPEN"]

\* closed_at is set in a Won or Lost stage and cleared in an open one.
Moved(x, stage) == [x EXCEPT !.stage = stage, !.closed = Stages[stage] # "OPEN"]

Move(l, stage) ==
    /\ Present(l)
    /\ lead' = [lead EXCEPT ![l] = Moved(@, stage)]
    /\ UNCHANGED <<staged, activity, sellers, agent, runs>> /\ HistoryKept /\ OthersKept

\* Its activities go with it (ON DELETE CASCADE).
DeleteLead(l) ==
    /\ Present(l)
    /\ lead' = [lead EXCEPT ![l].gone = TRUE]
    /\ activity' = [a \in {x \in DOMAIN activity : activity[x].of # l} |-> activity[a]]
    /\ UNCHANGED <<staged, sellers, agent, runs>> /\ HistoryKept /\ OthersKept

\* A call, a meeting, a note is done when it is written down; a task is not.
AddActivity(l, kind) ==
    /\ Present(l)
    /\ \E a \in 1..MaxActivities \ DOMAIN activity :
         activity' = [x \in DOMAIN activity \cup {a} |->
                        IF x = a THEN [of |-> l, kind |-> kind, done |-> kind # "TASK"] ELSE activity[x]]
    /\ UNCHANGED <<staged, lead, sellers, agent, runs>> /\ HistoryKept /\ OthersKept

CompleteActivity(a, done) ==
    /\ activity[a].kind = "TASK"
    /\ activity' = [activity EXCEPT ![a].done = done]
    /\ UNCHANGED <<staged, lead, sellers, agent, runs>> /\ HistoryKept /\ OthersKept

\* The users' module.
SuspendSeller(u) ==
    /\ u \in sellers /\ sellers' = sellers \ {u}
    /\ UNCHANGED <<staged, lead, activity, agent, runs>> /\ HistoryKept /\ OthersKept

-----------------------------------------------------------------------------
(* MakeCustomer *)

\* Variant: a lead that has its customer is given another.
MakeAnother(c, l) ==
    /\ agent[c] = Unengaged /\ Present(l)
    /\ agent' = [agent EXCEPT ![c] = [Unengaged EXCEPT !.doing = "customer", !.of = l]]
    /\ contested' = IF \E o \in Agents : agent[o].of = l /\ agent[o].doing # "move"
                    THEN contested \cup {l} ELSE contested
    /\ UNCHANGED <<staged, lead, activity, sellers, madeFor, relinked, runs, hitches>> /\ OthersKept

\* A lead with a customer is answered as it is; else what it says is read, unlocked.
MakeCustomer(c, l) == Present(l) /\ lead[l].party = NoParty /\ MakeAnother(c, l)

\* contacts.CreateParty, in a transaction of its own: a phone somebody has refuses it.
CreateCustomer(c) ==
    LET l == lead[agent[c].of]
        new == [type |-> "CUSTOMER", name |-> l.title, phone |-> l.phone, file |-> FALSE]
    IN  /\ agent[c].doing = "customer" /\ Len(parties) < MaxParties
        /\ IF new.phone \in PhonesOf(parties)
           THEN agent' = [agent EXCEPT ![c] = Unengaged] /\ UNCHANGED <<parties, madeFor>>
           ELSE /\ parties' = Append(parties, new)
                /\ madeFor' = [p \in DOMAIN madeFor \cup {Len(parties')} |-> IF p \in DOMAIN madeFor THEN madeFor[p] ELSE agent[c].of]
                /\ agent' = [agent EXCEPT ![c] = [@ EXCEPT !.doing = "link", !.party = Len(parties')]]
        /\ UNCHANGED <<staged, lead, activity, sellers, contested, relinked, runs, hitches,
                       openings, register, charted, closed, caller, reported, mixed, unsure, imports, breaks>>

\* The lead is written whatever it says by now; one that is gone is not found.
LinkCustomer(c) ==
    /\ agent[c].doing = "link"
    /\ lead' = IF Present(agent[c].of) THEN [lead EXCEPT ![agent[c].of].party = agent[c].party] ELSE lead
    /\ agent' = [agent EXCEPT ![c] = Unengaged]
    /\ UNCHANGED <<staged, activity, sellers, runs>> /\ HistoryKept /\ OthersKept

-----------------------------------------------------------------------------
(* Import *)

\* markSeen: the title, and the phone and address when there are any.
Keys(d) == {<<"n", d.title>>} \cup (IF d.phone = NoPhone THEN {} ELSE {<<"p", d.phone>>})
                              \cup (IF d.email = NoEmail THEN {} ELSE {<<"e", d.email>>})

\* One transaction reads the stages, the owners and all the leads there are.
ImportLeads(c, file) ==
    /\ agent[c] = Unengaged /\ runs < MaxRuns /\ runs' = runs + 1
    /\ EnsureStages
    /\ agent' = [agent EXCEPT ![c] = [Unengaged EXCEPT !.doing = "rows", !.rows = file, !.sellers = sellers, !.run = runs + 1,
                    !.since = Len(lead), !.seen = UNION {Keys(lead[l]) : l \in {x \in LeadIds : Present(x)}}]]
    /\ UNCHANGED <<lead, activity, sellers>> /\ HistoryKept /\ OthersKept

AtLead(c) == agent[c].doing = "rows" /\ agent[c].rows # <<>>
Row1(c) == Head(agent[c].rows)

\* matchSeen: any key that was seen.
MatchSeen(c) == Keys(Row1(c)) \cap agent[c].seen # {}

\* An owner who was not active, or a stage that is not there; a duplicate.
SkipLead(c) ==
    /\ AtLead(c)
    /\ Row1(c).owner \notin agent[c].sellers \cup {NoSeller} \/ Row1(c).stage \notin DOMAIN Stages \/ MatchSeen(c)
    /\ agent' = [agent EXCEPT ![c].rows = Tail(@)]
    /\ UNCHANGED <<staged, lead, activity, sellers, runs>> /\ HistoryKept /\ OthersKept

Savable(c) ==
    /\ AtLead(c) /\ ~MatchSeen(c) /\ Len(lead) < MaxLeads
    /\ Row1(c).owner \in agent[c].sellers \cup {NoSeller} /\ Row1(c).stage \in DOMAIN Stages

\* An owner suspended since then refuses the row.
RefuseLead(c) ==
    /\ Savable(c) /\ Row1(c).owner \notin sellers \cup {NoSeller}
    /\ agent' = [agent EXCEPT ![c].rows = Tail(@)]
    /\ UNCHANGED <<staged, lead, activity, sellers, runs>> /\ HistoryKept /\ OthersKept

\* Variant: a row is marked only when it needed no move.
SavedUnmarked(x, row) ==
    IF row.stage = FirstStage THEN [x EXCEPT !.rows = Tail(@), !.seen = @ \cup Keys(row)]
    ELSE [x EXCEPT !.doing = "move", !.rows = Tail(@)]

\* The row is marked whether or not the move succeeds.
Saved(x, row) ==
    [x EXCEPT !.rows = Tail(@), !.seen = @ \cup Keys(row), !.doing = IF row.stage = FirstStage THEN "rows" ELSE "move"]

SaveLead(c) ==
    /\ Savable(c) /\ Row1(c).owner \in sellers \cup {NoSeller}
    /\ lead' = Append(lead, NewLead(Row1(c), Row1(c).owner, NoParty, agent[c].run, agent[c].since))
    /\ agent' = [agent EXCEPT ![c] = [Saved(@, Row1(c)) EXCEPT !.of = Len(lead'), !.stage = Row1(c).stage]]
    /\ UNCHANGED <<staged, activity, sellers, runs>> /\ HistoryKept /\ OthersKept

\* The lead is saved but reading it back fails: reported as an error, not marked.
SaveUnheard(c) ==
    /\ Savable(c) /\ Row1(c).owner \in sellers \cup {NoSeller}
    /\ hitches < MaxHitches /\ hitches' = hitches + 1
    /\ lead' = Append(lead, NewLead(Row1(c), Row1(c).owner, NoParty, 0, 0))
    /\ agent' = [agent EXCEPT ![c].rows = Tail(@)]
    /\ UNCHANGED <<staged, activity, sellers, madeFor, contested, relinked, runs>> /\ OthersKept

\* A second transaction; a lead deleted meanwhile leaves a note in the report.
MoveImported(c) ==
    /\ agent[c].doing = "move"
    /\ lead' = IF Present(agent[c].of) THEN [lead EXCEPT ![agent[c].of] = Moved(@, agent[c].stage)] ELSE lead
    /\ agent' = [agent EXCEPT ![c] = [@ EXCEPT !.doing = "rows", !.of = 0, !.stage = FirstStage]]
    /\ UNCHANGED <<staged, activity, sellers, runs>> /\ HistoryKept /\ OthersKept

EndImport(c) ==
    /\ agent[c].doing = "rows" /\ agent[c].rows = <<>>
    /\ agent' = [agent EXCEPT ![c] = Unengaged]
    /\ UNCHANGED <<staged, lead, activity, sellers, runs>> /\ HistoryKept /\ OthersKept

\* The server stops, or a transaction is refused: what was committed stays.
StopAgent(c) ==
    /\ agent[c] # Unengaged /\ hitches < MaxHitches /\ hitches' = hitches + 1
    /\ contested' = IF agent[c].doing = "link" THEN contested \cup {agent[c].of} ELSE contested
    /\ agent' = [agent EXCEPT ![c] = Unengaged]
    /\ UNCHANGED <<staged, lead, activity, sellers, madeFor, relinked, runs>> /\ OthersKept

LeadsNext ==
    \/ SeedStages
    \/ \E d \in Drafts, party \in PartyIds \cup {NoParty} :
          \/ \E u \in Sellers \cup {NoSeller} : CreateLead(d, u, party)
          \/ \E l \in LeadIds : UpdateLead(l, d, party)
    \/ \E l \in LeadIds :
          \/ \E u \in Sellers \cup {NoSeller} : AssignLead(l, u)
          \/ \E stage \in DOMAIN Stages : Move(l, stage)
          \/ DeleteLead(l)
          \/ \E kind \in {"NOTE", "TASK"} : AddActivity(l, kind)
          \/ \E c \in Agents : MakeCustomer(c, l)
    \/ \E a \in DOMAIN activity, done \in BOOLEAN : CompleteActivity(a, done)
    \/ \E u \in Sellers : SuspendSeller(u)
    \/ \E c \in Agents :
          \/ CreateCustomer(c) \/ LinkCustomer(c) \/ StopAgent(c)
          \/ \E file \in LeadFiles : ImportLeads(c, file)
          \/ SkipLead(c) \/ RefuseLead(c) \/ SaveLead(c) \/ SaveUnheard(c) \/ MoveImported(c) \/ EndImport(c)

-----------------------------------------------------------------------------
(* Properties *)

CustomersOf(l) == {p \in DOMAIN madeFor : madeFor[p] = l}
Converting(l) == \E c \in Agents : agent[c].doing = "link" /\ agent[c].of = l

\* MakeCustomer makes one customer of a lead, which the lead then names for ever,
\* unless two requests worked on it, one stopped between the two transactions, or a
\* form put back the customer it was loaded with.
OneCustomerPerLead ==
    \A l \in LeadIds \ (contested \cup relinked) :
        /\ Cardinality(CustomersOf(l)) <= 1
        /\ ~lead[l].gone /\ ~Converting(l) => CustomersOf(l) \subseteq {lead[l].party}

\* Import can be re-run: it makes no lead with the phone, the address or the title of
\* one that was there when it began or that it made itself (but for forms saved since); a lead is closed exactly
\* in a Won or Lost stage, and only tasks are ever open.
PipelineIsSound ==
    /\ \A i, j \in LeadIds :
          (/\ i < j /\ lead[j].run # 0 /\ (lead[i].run = lead[j].run \/ i <= lead[j].since)
           /\ \A l \in {i, j} : ~lead[l].gone /\ ~lead[l].edited)
            => Keys(lead[i]) \cap Keys(lead[j]) = {}
    /\ \A l \in LeadIds : lead[l].closed <=> Stages[lead[l].stage] # "OPEN"
    /\ \A a \in DOMAIN activity : /\ activity[a].kind # "TASK" => activity[a].done
                                  /\ Present(activity[a].of)

\* The pipeline keeps its leads apart, closes them rightly, and makes one customer of each.
LeadsAreSound == LeadsTypeOK /\ OneCustomerPerLead /\ PipelineIsSound
=============================================================================

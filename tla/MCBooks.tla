------------------------------- MODULE MCBooks -------------------------------
(***************************************************************************)
(* Books and Collections on small instances, one part at a time: "books"   *)
(* is what a user does, from the first set-up of the accounts; "links" and *)
(* "debits" are one payment link and two direct-debit batches, and the     *)
(* reversals of their receipts; "ageing" is a customer's ledger, growing.  *)
(***************************************************************************)
EXTENDS Collections, Ageing, TLC

CONSTANTS d1, p1

VARIABLE part

MCTotal == (d1 :> 2)

\* Two periods that both cover day 0 when there are two: nothing forbids it.
MCCovers == [p \in Periods |-> IF p = p1 THEN {0} ELSE {0, 1}]

\* By hand: a customer's debt written off, a journal out of balance, a line alone.
MCEntries ==
    {<<Debit("expense", None, 1), Credit("receivable", d1, 1)>>,
     <<Debit("expense", None, 2), Credit("cash", None, 1)>>,
     <<Debit("expense", None, 1)>>}

\* Ages on both sides of each band.
MCLines == [day : {0, 31, 62, 92}, debit : {2}, credit : {0}]
           \cup [day : {0, 62, 92}, debit : {0}, credit : {1, 3}]

MCInit ==
    /\ Init /\ AgeingInit
    /\ part \in {"books", "links", "debits", "ageing"}
    /\ chart = (part # "books")
    /\ part # "books" => today = 0

\* Of two requests at a time, one at most is of this kind.
AtMostOne(ops) == Cardinality({c \in Calls : call'[c].op \in ops}) <= 1

Begins(c) == call[c].op = "none" /\ call'[c].op # "none"

\* To keep it small: with as many journals as there may be nobody begins anything ("books"),
\* and once a debit was booked twice whoever begins does so alone ("debits").
BeginsWithRoom == Len(journals) = MaxJournals => \A c \in Calls : ~Begins(c)
BeginsAlone == doubled # {} => \A c \in Calls : Begins(c) => \A o \in Calls : call[o].op = "none"

MCBooksNext ==
    /\ \/ \E c \in Calls : BooksSteps(c) /\ NoteBooking(c)
       \/ BooksEvents /\ UNCHANGED bookedFor
    /\ AtMostOne({"payment", "manual"}) /\ AtMostOne({"lock", "unlock"}) /\ BeginsWithRoom
    /\ UNCHANGED <<collectVars, banks>>

MCCollectNext ==
    /\ Next
    /\ UNCHANGED <<today, locked>>
    /\ \A c \in Calls : call'[c].op \in {"none", "reverse", "link", "capture", "debit"}
    /\ BeginsAlone
    /\ part = "links" => UNCHANGED <<batch, debit, mandate>>
    /\ part = "debits" => UNCHANGED <<links, holder, money>>

MCNext ==
    /\ UNCHANGED part
    /\ \/ part = "books" /\ MCBooksNext /\ UNCHANGED ledger
       \/ part \in {"links", "debits"} /\ MCCollectNext /\ UNCHANGED ledger
       \/ part = "ageing" /\ AgeingNext /\ UNCHANGED vars

MCSpec == MCInit /\ [][MCNext]_<<vars, ledger, part>>

MCSymmetry == Permutations(Calls)
=============================================================================

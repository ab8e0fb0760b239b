------------------------------- MODULE EWayBill -------------------------------
(***************************************************************************)
(* e-way bills by the free portal: internal/modules/ewaybill.              *)
(*                                                                         *)
(* Every request is one transaction: it reads the document's latest record *)
(* and its snapshot, and then writes.  From its first write to the commit  *)
(* it holds the record's row, so the rest of it is one step; between its   *)
(* reading and that write another request may commit.                      *)
(*                                                                         *)
(* Abstractions: one invoice; its snapshot says what eligibility.Evaluate  *)
(* asks of it: the seller's own data (taken once, from the company), and   *)
(* the details a patch can fill in and take out again (the vehicle, the    *)
(* distance, the ship-to state).  Everything else it asks is in order.     *)
(***************************************************************************)
EXTENDS Naturals, FiniteSets

CONSTANTS
    Carriers,       \* requests
    MaxBills,       \* bound: records of the invoice
    MaxEdits,       \* bound: changes of settings, and patches
    Details,        \* what UpdateTransportInfo patches of what is asked for
    AtHand          \* details the invoice itself may bring along

ASSUME EWayAssumption == MaxBills \in Nat \ {0} /\ MaxEdits \in Nat /\ AtHand \subseteq Details

VARIABLES
    company,    \* the seller's GSTIN and PIN are there; the invoice reaches the threshold
    bill,       \* ewaybill_records of the invoice, in the order their transactions began
    trip,       \* what each request has read
    ewb,        \* external: the government has generated the number
    begun,      \* transactions that have begun a record so far
    crossed,    \* history: two requests were at work at the same time
    edits

ewayVars == <<company, bill, trip, ewb, begun, crossed, edits>>

Bills == 1..MaxBills
Absent == [status |-> "ABSENT", seller |-> FALSE, filled |-> {}, number |-> FALSE]
Resting == [op |-> "none", rec |-> 0, seen |-> Absent]

Waiting == {"NOT_REQUIRED", "NEEDS_INFORMATION", "READY", "AWAITING_PORTAL_COMPLETION"}
TerminalBill(s) == s \in {"GENERATED", "CANCELLED", "NOT_REQUIRED"}

\* ORDER BY created_at DESC LIMIT 1; created_at is when the transaction began.
Latest(b) == CHOOSE r \in 0..MaxBills :
    /\ r = 0 \/ b[r].status # "ABSENT"
    /\ \A q \in Bills : b[q].status # "ABSENT" => q <= r

EWayBillTypeOK ==
    /\ company \in [seller : BOOLEAN, required : BOOLEAN]
    /\ bill \in [Bills -> [status : Waiting \cup {"ABSENT", "GENERATED", "CANCELLED"},
                           seller : BOOLEAN, filled : SUBSET Details, number : BOOLEAN]]
    /\ \A c \in Carriers : trip[c].rec \in 0..MaxBills
    /\ ewb \in BOOLEAN /\ crossed \in BOOLEAN
    /\ begun \in 0..MaxBills /\ edits \in 0..MaxEdits
    /\ \A r \in Bills : bill[r].number => ewb

EWayBillInit ==
    /\ company \in [seller : BOOLEAN, required : BOOLEAN]
    /\ bill = [r \in Bills |-> Absent]
    /\ trip = [c \in Carriers |-> Resting]
    /\ ewb = FALSE /\ begun = 0 /\ crossed = FALSE /\ edits = 0

-----------------------------------------------------------------------------

\* The legal entity or the organisation's threshold override is changed.
ChangeCompany ==
    /\ edits < MaxEdits
    /\ edits' = edits + 1
    /\ company' \in [seller : BOOLEAN, required : BOOLEAN] \ {company}
    /\ UNCHANGED <<bill, trip, ewb, begun, crossed>>

\* eligibility.Evaluate: the threshold, then everything the portal asks for.
Evaluate(b) ==
    IF ~company.required THEN "NOT_REQUIRED"
    ELSE IF b.seller /\ b.filled = Details THEN "READY" ELSE "NEEDS_INFORMATION"

Start(c, op, r, seen) ==
    /\ trip' = [trip EXCEPT ![c] = [op |-> op, rec |-> r, seen |-> seen]]
    /\ crossed' = (crossed \/ \E o \in Carriers : trip[o] # Resting)
    /\ UNCHANGED <<company, bill, ewb, edits>>

\* buildCanonicalFromLiveData: the details the invoice has, never a distance.
Capture(f) == [Absent EXCEPT !.status = "NOT_REQUIRED", !.seller = company.seller, !.filled = f]

\* Variant: the snapshot is built again whenever the record is looked at.
OpenRecordAfresh(c, op) ==
    /\ trip[c] = Resting /\ begun < MaxBills
    /\ begun' = begun + 1
    /\ \E f \in SUBSET AtHand : Start(c, op, begun + 1, Capture(f))

\* getOrCreateFreePortalRecord: the latest record, or a new one in this
\* transaction, which nobody else sees yet.
OpenRecord(c, op) ==
    /\ trip[c] = Resting
    /\ IF Latest(bill) = 0
       THEN /\ begun < MaxBills /\ begun' = begun + 1
            /\ \E f \in SUBSET AtHand : Start(c, op, begun + 1, Capture(f))
       ELSE begun' = begun /\ Start(c, op, Latest(bill), bill[Latest(bill)])

\* UpdateTransportInfo and the results want a record that is there.
ReadRecord(c, op) ==
    /\ trip[c] = Resting /\ Latest(bill) # 0
    /\ begun' = begun
    /\ Start(c, op, Latest(bill), bill[Latest(bill)])

GetStatus(c) == OpenRecord(c, "status")
Prepare(c) == OpenRecord(c, "prepare")
PrepareBatch(c) == OpenRecord(c, "batch")
UpdateTransportInfo(c) == edits < MaxEdits /\ ReadRecord(c, "patch")
RecordManualResult(c) == ewb /\ ReadRecord(c, "result")
Cancel(c) == ReadRecord(c, "cancel")

\* The row as this transaction finds it when it writes.
Mine(c) == IF bill[trip[c].rec].status = "ABSENT" THEN trip[c].seen ELSE bill[trip[c].rec]

\* Variant: a record that was prepared is left as it is.
EvaluatedOnce(b, seen) == IF seen.status = "AWAITING_PORTAL_COMPLETION" THEN b
                          ELSE [b EXCEPT !.status = Evaluate(seen)]

\* EvaluateEligibility judges the snapshot that was read; a record that was read
\* terminal keeps its status, unless it was only not required.
Evaluated(b, seen) ==
    IF TerminalBill(seen.status) /\ seen.status # "NOT_REQUIRED" THEN b
    ELSE [b EXCEPT !.status = Evaluate(seen)]

Commit(c, b) ==
    /\ bill' = b
    /\ trip' = [trip EXCEPT ![c] = Resting]
    /\ UNCHANGED <<company, ewb, begun, crossed>>

Save(c, row) == Commit(c, [bill EXCEPT ![trip[c].rec] = row])

CommitStatus(c) ==
    /\ trip[c].op = "status"
    /\ Save(c, Evaluated(Mine(c), trip[c].seen))
    /\ UNCHANGED edits

\* PrepareFreePortalUpload marks the record that is the latest by now, with the
\* snapshot that is in it, whatever its status.  A single request that finds
\* information missing, or whose export fails, rolls all of it back; a batch
\* keeps what it wrote and goes on.
CommitPrepare(c) ==
    LET evaluated == [bill EXCEPT ![trip[c].rec] = Evaluated(Mine(c), trip[c].seen)]
        marked(status) == [evaluated EXCEPT ![Latest(evaluated)].status = status]
        ready == Evaluate(trip[c].seen) = "READY"
    IN
    /\ trip[c].op \in {"prepare", "batch"}
    /\ \/ ready /\ Commit(c, marked("AWAITING_PORTAL_COMPLETION"))
       \/ ready /\ trip[c].op = "batch" /\ Commit(c, marked("NEEDS_INFORMATION"))
       \/ ~ready /\ trip[c].op = "batch" /\ Commit(c, evaluated)
       \/ trip[c].op = "prepare" /\ Commit(c, bill)
    /\ UNCHANGED edits

\* The snapshot that was read is written back, each detail as it was or as it was
\* sent, a number, a blank or zero; EvaluateEligibility then judges the latest
\* record, as it is then.
CommitPatch(c) ==
    /\ trip[c].op = "patch"
    /\ edits < MaxEdits
    /\ edits' = edits + 1
    /\ \E f \in SUBSET Details :
         LET seen == trip[c].seen
             patched == [bill EXCEPT ![trip[c].rec] =
                           [@ EXCEPT !.status = seen.status, !.seller = seen.seller, !.filled = f]]
         IN  Commit(c, [patched EXCEPT ![Latest(patched)] = Evaluated(@, @)])

\* RecordManualResult, ImportAndVerifyResult: GENERATED from any status.
CommitResult(c) ==
    /\ trip[c].op = "result"
    /\ Save(c, [Mine(c) EXCEPT !.status = "GENERATED", !.number = TRUE])
    /\ UNCHANGED edits

CommitCancel(c) ==
    /\ trip[c].op = "cancel"
    /\ trip[c].seen.status = "GENERATED" /\ trip[c].seen.number
    /\ Save(c, [Mine(c) EXCEPT !.status = "CANCELLED"])
    /\ UNCHANGED edits

\* The request is refused, fails, or loses its connection.
AbortTrip(c) ==
    /\ trip[c] # Resting
    /\ Commit(c, bill)
    /\ UNCHANGED edits

\* The government generates a number, from an uploaded file or typed in there.
PortalGenerates ==
    /\ ~ewb
    /\ ewb' = TRUE
    /\ UNCHANGED <<company, bill, trip, begun, crossed, edits>>

EWayBillNext ==
    \/ ChangeCompany \/ PortalGenerates
    \/ \E c \in Carriers :
         \/ GetStatus(c) \/ Prepare(c) \/ PrepareBatch(c)
         \/ UpdateTransportInfo(c) \/ RecordManualResult(c) \/ Cancel(c)
         \/ CommitStatus(c) \/ CommitPrepare(c) \/ CommitPatch(c) \/ CommitResult(c) \/ CommitCancel(c)
         \/ AbortTrip(c)

EWayBillSpec == EWayBillInit /\ [][EWayBillNext]_ewayVars
-----------------------------------------------------------------------------
(* Properties *)

\* What waits at the portal is complete: a record whose file was prepared has the
\* seller and every detail in its snapshot, also after a patch that took one out
\* (service.go:273), unless two requests were at work at once (service.go:366,
\* read again and not judged again; 284, written back whole).
PreparedIsComplete ==
    \A r \in Bills :
        bill[r].status = "AWAITING_PORTAL_COMPLETION" =>
            (bill[r].seller /\ bill[r].filled = Details) \/ crossed

\* The first capture stands: while requests come one at a time the invoice has
\* one record, and what it took from the company is never read again.
CapturedForGood ==
    [][~crossed' => \A r \in Bills :
          /\ bill'[r].status # "ABSENT" => r = Latest(bill') /\ \A q \in Bills \ {r} : bill'[q].status = "ABSENT"
          /\ bill[r].status # "ABSENT" => bill'[r].seller = bill[r].seller]_ewayVars

\* Bills are what they should be, and complete when they wait at the portal.
BillsAreComplete == EWayBillTypeOK /\ PreparedIsComplete
=============================================================================

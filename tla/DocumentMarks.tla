----------------------------- MODULE DocumentMarks -----------------------------
(***************************************************************************)
(* What is put on a sales document from outside: electronic signatures     *)
(* (internal/modules/esign, with the renderer of apps/server) and the      *)
(* organisation's own labels (internal/modules/docstatus).                 *)
(*                                                                         *)
(* A signature request freezes the fingerprint of what the document        *)
(* prints; signing reads the request, and then in one transaction takes    *)
(* the fingerprint again and writes the row if it is still open.  Nothing  *)
(* locks the document.                                                     *)
(*                                                                         *)
(* Abstractions: a document's printed content is a value, its fingerprint  *)
(* is the content; tokens, names and drawings are left out.                *)
(***************************************************************************)
EXTENDS Naturals, Sequences, FiniteSets

CONSTANTS
    Papers,         \* sales documents
    Prints,         \* what a document may print
    FirstPrint,
    Visitors,       \* signers' requests
    Staff,          \* users' requests
    Labels,         \* document_statuses
    NoLabel, NoPaper,
    MaxSignatures,  \* bound: signature requests
    MaxRevisions    \* bound: changes of what is printed

ASSUME MarksAssumption == FirstPrint \in Prints /\ NoLabel \notin Labels /\ NoPaper \notin Papers

VARIABLES
    print,          \* what each document prints now
    request,        \* document_signatures: status, document_hash, whether it has expired
    visitor,        \* what each signer's request has read
    staff,          \* what each user's request has read
    label,          \* document_statuses: "none", "on" or "off"
    marked,         \* sales_document_statuses
    answers,        \* history: the answers each request was given that took effect
    torn,           \* history: requests whose document changed while a signature was being written
    overdue,        \* history: requests that were late before a signer's request read them
    revisions

marksVars == <<print, request, visitor, staff, label, marked, answers, torn, overdue, revisions>>

Requests == DOMAIN request
Away == [at |-> "idle", of |-> 0]
OffDuty == [at |-> "idle", paper |-> NoPaper, hash |-> FirstPrint, label |-> NoLabel]
Open(i) == request[i].status = "PENDING"

MarksTypeOK ==
    /\ print \in [Papers -> Prints]
    /\ \A i \in Requests : request[i].status \in {"PENDING", "SIGNED", "DECLINED", "REVOKED"}
    /\ \A v \in Visitors : visitor[v].at \in {"idle", "agree", "decline", "same"} /\ visitor[v].of \in Requests \cup {0}
    /\ marked \in [Papers -> Labels \cup {NoLabel}] /\ label \in [Labels -> {"none", "on", "off"}]

MarksInit ==
    /\ print = [d \in Papers |-> FirstPrint] /\ request = <<>>
    /\ visitor = [v \in Visitors |-> Away] /\ staff = [s \in Staff |-> OffDuty]
    /\ label = [l \in Labels |-> "none"] /\ marked = [d \in Papers |-> NoLabel]
    /\ answers = <<>> /\ torn = {} /\ overdue = {} /\ revisions = 0

SigningKept == UNCHANGED <<request, visitor, answers, torn, overdue>>
PapersKept == UNCHANGED <<print, revisions>>
LabelsKept == UNCHANGED <<label, marked>>

-----------------------------------------------------------------------------
(* Signatures *)

\* The document, its customer or the organisation's details are changed.
Reprint(d, p) ==
    /\ print[d] # p /\ revisions < MaxRevisions /\ revisions' = revisions + 1
    /\ print' = [print EXCEPT ![d] = p]
    /\ torn' = torn \cup {i \in Requests : request[i].paper = d /\ \E v \in Visitors : visitor[v] = [at |-> "same", of |-> i]}
    /\ UNCHANGED <<request, visitor, staff, answers, overdue>> /\ LabelsKept

\* Create takes the fingerprint, and opens the request in a transaction of its own.
Fingerprint(s, d) ==
    /\ staff[s] = OffDuty
    /\ staff' = [staff EXCEPT ![s] = [OffDuty EXCEPT !.at = "open", !.paper = d, !.hash = print[d]]]
    /\ SigningKept /\ PapersKept /\ LabelsKept

OpenRequest(s) ==
    /\ staff[s].at = "open" /\ Len(request) < MaxSignatures
    /\ request' = Append(request, [paper |-> staff[s].paper, status |-> "PENDING", hash |-> staff[s].hash, late |-> FALSE, signed |-> NoPaper])
    /\ answers' = Append(answers, 0)
    /\ staff' = [staff EXCEPT ![s] = OffDuty]
    /\ UNCHANGED <<visitor, torn, overdue>> /\ PapersKept /\ LabelsKept

Expire(i) ==
    /\ ~request[i].late
    /\ request' = [request EXCEPT ![i].late = TRUE]
    /\ overdue' = IF Open(i) /\ \A v \in Visitors : visitor[v].of # i THEN overdue \cup {i} ELSE overdue
    /\ UNCHANGED <<visitor, staff, answers, torn>> /\ PapersKept /\ LabelsKept

Revoke(i) ==
    /\ Open(i)
    /\ request' = [request EXCEPT ![i].status = "REVOKED"]
    /\ answers' = [answers EXCEPT ![i] = @ + 1]
    /\ UNCHANGED <<visitor, staff, torn, overdue>> /\ PapersKept /\ LabelsKept

\* Submit reads the row: one that is not open, or has expired, is refused.
Submit(v, i, answer) ==
    /\ visitor[v] = Away /\ Open(i) /\ ~request[i].late
    /\ visitor' = [visitor EXCEPT ![v] = [at |-> answer, of |-> i]]
    /\ UNCHANGED <<request, staff, answers, torn, overdue>> /\ PapersKept /\ LabelsKept

Leaves(v) == visitor' = [visitor EXCEPT ![v] = Away]

\* WHERE status = 'PENDING'; a request answered meanwhile is left as it is.
Decline(v) ==
    LET i == visitor[v].of IN
    /\ visitor[v].at = "decline"
    /\ request' = IF Open(i) THEN [request EXCEPT ![i].status = "DECLINED"] ELSE request
    /\ answers' = IF Open(i) THEN [answers EXCEPT ![i] = @ + 1] ELSE answers
    /\ Leaves(v)
    /\ UNCHANGED <<staff, torn, overdue>> /\ PapersKept /\ LabelsKept

\* Variant: the fingerprint is not taken again.
TakeItAsRead(v) ==
    /\ visitor[v].at = "agree"
    /\ visitor' = [visitor EXCEPT ![v].at = "same"]
    /\ UNCHANGED <<request, staff, answers, torn, overdue>> /\ PapersKept /\ LabelsKept

\* A document that changed since the request was made is refused.
CompareFingerprint(v) ==
    LET i == visitor[v].of IN
    /\ visitor[v].at = "agree"
    /\ IF print[request[i].paper] = request[i].hash THEN visitor' = [visitor EXCEPT ![v].at = "same"] ELSE Leaves(v)
    /\ UNCHANGED <<request, staff, answers, torn, overdue>> /\ PapersKept /\ LabelsKept

\* Variant: the row is written whatever its status is by now.
SignRegardless(v) ==
    LET i == visitor[v].of IN
    /\ visitor[v].at = "same"
    /\ request' = [request EXCEPT ![i] = [@ EXCEPT !.status = "SIGNED", !.signed = print[request[i].paper]]]
    /\ answers' = [answers EXCEPT ![i] = @ + 1]
    /\ Leaves(v)
    /\ UNCHANGED <<staff, torn, overdue>> /\ PapersKept /\ LabelsKept

\* WHERE status = 'PENDING'; no row means the link is no longer valid.
Sign(v) ==
    LET i == visitor[v].of IN
    /\ visitor[v].at = "same"
    /\ request' = IF Open(i) THEN [request EXCEPT ![i] = [@ EXCEPT !.status = "SIGNED", !.signed = print[request[i].paper]]] ELSE request
    /\ answers' = IF Open(i) THEN [answers EXCEPT ![i] = @ + 1] ELSE answers
    /\ Leaves(v)
    /\ UNCHANGED <<staff, torn, overdue>> /\ PapersKept /\ LabelsKept

\* The transaction fails or the server stops.
Withdraw(v) ==
    /\ visitor[v] # Away /\ Leaves(v)
    /\ UNCHANGED <<request, staff, answers, torn, overdue>> /\ PapersKept /\ LabelsKept

-----------------------------------------------------------------------------
(* Labels *)

CreateLabel(l) ==
    /\ label[l] = "none" /\ label' = [label EXCEPT ![l] = "on"]
    /\ UNCHANGED <<staff, marked>> /\ SigningKept /\ PapersKept

UpdateLabel(l, active) ==
    /\ label[l] # "none" /\ label' = [label EXCEPT ![l] = IF active THEN "on" ELSE "off"]
    /\ UNCHANGED <<staff, marked>> /\ SigningKept /\ PapersKept

InUse(l) == \E d \in Papers : marked[d] = l

\* Delete counts the documents that use the label...
CountUses(s, l) ==
    /\ staff[s] = OffDuty /\ label[l] # "none" /\ ~InUse(l)
    /\ staff' = [staff EXCEPT ![s] = [OffDuty EXCEPT !.at = "delete", !.label = l]]
    /\ SigningKept /\ PapersKept /\ LabelsKept

\* Variant: the count is all that is asked.
DeleteCounted(s) ==
    /\ staff[s].at = "delete"
    /\ label' = [label EXCEPT ![staff[s].label] = "none"]
    /\ staff' = [staff EXCEPT ![s] = OffDuty]
    /\ UNCHANGED marked /\ SigningKept /\ PapersKept

\* ... and the foreign key refuses the deletion if one was added since.
DeleteLabel(s) ==
    /\ staff[s].at = "delete"
    /\ label' = IF InUse(staff[s].label) THEN label ELSE [label EXCEPT ![staff[s].label] = "none"]
    /\ staff' = [staff EXCEPT ![s] = OffDuty]
    /\ UNCHANGED marked /\ SigningKept /\ PapersKept

\* Assign reads that the label is there and switched on, and then writes it.
ReadLabel(s, d, l) ==
    /\ staff[s] = OffDuty /\ label[l] = "on"
    /\ staff' = [staff EXCEPT ![s] = [OffDuty EXCEPT !.at = "assign", !.paper = d, !.label = l]]
    /\ SigningKept /\ PapersKept /\ LabelsKept

AssignLabel(s) ==
    /\ staff[s].at = "assign"
    /\ marked' = IF label[staff[s].label] = "none" THEN marked ELSE [marked EXCEPT ![staff[s].paper] = staff[s].label]
    /\ staff' = [staff EXCEPT ![s] = OffDuty]
    /\ UNCHANGED label /\ SigningKept /\ PapersKept

ClearLabel(d) ==
    /\ marked[d] # NoLabel /\ marked' = [marked EXCEPT ![d] = NoLabel]
    /\ UNCHANGED <<staff, label>> /\ SigningKept /\ PapersKept

GiveUp(s) ==
    /\ staff[s] # OffDuty /\ staff' = [staff EXCEPT ![s] = OffDuty]
    /\ SigningKept /\ PapersKept /\ LabelsKept

MarksNext ==
    \/ \E d \in Papers : \/ \E p \in Prints : Reprint(d, p)
                         \/ ClearLabel(d)
    \/ \E i \in Requests : Expire(i) \/ Revoke(i)
    \/ \E v \in Visitors : \/ \E i \in Requests, answer \in {"agree", "decline"} : Submit(v, i, answer)
                           \/ Decline(v) \/ CompareFingerprint(v) \/ Sign(v) \/ Withdraw(v)
    \/ \E l \in Labels : \/ CreateLabel(l)
                         \/ \E active \in BOOLEAN : UpdateLabel(l, active)
    \/ \E s \in Staff : \/ \E d \in Papers : \/ Fingerprint(s, d)
                                             \/ \E l \in Labels : ReadLabel(s, d, l)
                        \/ \E l \in Labels : CountUses(s, l)
                        \/ OpenRequest(s) \/ DeleteLabel(s) \/ AssignLabel(s) \/ GiveUp(s)

-----------------------------------------------------------------------------
(* Properties *)

\* A signature is on what the document printed when the request was made (Submit), also
\* if it was changed and changed back, unless it changed while the signature was being
\* written; a request is answered once, by one signer or by its revocation, and not
\* after it expired; and a label on a document is one there is (Delete, Assign).
MarksHold ==
    /\ MarksTypeOK
    /\ \A i \in Requests : /\ request[i].status = "SIGNED" /\ i \notin torn => request[i].signed = request[i].hash
                           /\ answers[i] = (IF Open(i) THEN 0 ELSE 1)
                           /\ i \in overdue => request[i].status \in {"PENDING", "REVOKED"}
    /\ \A d \in Papers : marked[d] # NoLabel => label[marked[d]] # "none"
=============================================================================

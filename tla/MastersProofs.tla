---------------------------- MODULE MastersProofs ----------------------------
(***************************************************************************)
(* Theorems about the records everything else refers to, for every set of  *)
(* users, requests, documents and files: the signatures and labels of      *)
(* DocumentMarks, the parties, balances and invoices of LegacyImport, the  *)
(* pipeline of Leads with the parties it makes, the files of Backups.      *)
(***************************************************************************)
EXTENDS Catalogue, Leads, DocumentMarks, Backups, SumsProofs

-----------------------------------------------------------------------------
(* Signatures and labels *)

Row == [paper : Papers, status : {"PENDING", "SIGNED", "DECLINED", "REVOKED"}, hash : Prints,
        late : BOOLEAN, signed : Prints \cup {NoPaper}]
Visit == [at : {"idle", "agree", "decline", "same"}, of : Nat]
Duty == [at : {"idle", "open", "delete", "assign"}, paper : Papers \cup {NoPaper}, hash : Prints,
         label : Labels \cup {NoLabel}]

MarksTyped ==
    /\ print \in [Papers -> Prints] /\ request \in Seq(Row)
    /\ answers \in Seq(Nat) /\ Len(answers) = Len(request)
    /\ visitor \in [Visitors -> Visit] /\ staff \in [Staff -> Duty]
    /\ marked \in [Papers -> Labels \cup {NoLabel}] /\ label \in [Labels -> {"none", "on", "off"}]

\* What a request has in hand is there: rows are never deleted.
InHand ==
    /\ \A v \in Visitors : visitor[v].of \in Requests \cup {0} /\ (visitor[v].at # "idle" => visitor[v].of \in Requests)
    /\ \A s \in Staff : /\ staff[s].at \in {"open", "assign"} => staff[s].paper \in Papers
                        /\ staff[s].at \in {"delete", "assign"} => staff[s].label \in Labels

\* A signer who has compared the fingerprints signs what the request froze.
StillTheSame ==
    \A i \in Requests : \A v \in Visitors :
        visitor[v].at = "same" /\ visitor[v].of = i /\ i \notin torn => print[request[i].paper] = request[i].hash

\* Nobody has in hand a request that was late before it was read.
NobodyIsLate == overdue \subseteq Requests /\ \A i \in overdue : request[i].late /\ \A v \in Visitors : visitor[v].of # i

AnsweredOnce ==
    \A i \in Requests : /\ request[i].status = "SIGNED" /\ i \notin torn => request[i].signed = request[i].hash
                        /\ answers[i] = (IF Open(i) THEN 0 ELSE 1)
                        /\ i \in overdue => request[i].status \in {"PENDING", "REVOKED"}

LabelsThere == \A d \in Papers : marked[d] # NoLabel => label[marked[d]] # "none"

MarksInv == MarksTyped /\ InHand /\ StillTheSame /\ NobodyIsLate /\ AnsweredOnce /\ LabelsThere

LEMMA MarksInvHolds == MarksInv => MarksHold
<1> SUFFICES ASSUME MarksInv PROVE MarksHold
  OBVIOUS
<1>1. \A i \in Requests : request[i] \in Row
  BY DEF MarksInv, MarksTyped, Requests
<1>2. MarksTypeOK
  BY <1>1 DEF MarksTypeOK, MarksInv, MarksTyped, InHand, Row, Visit
<1> QED BY <1>2 DEF MarksHold, MarksInv, AnsweredOnce, LabelsThere

LEMMA MarksInitInv == MarksInit => MarksInv
<1> SUFFICES ASSUME MarksInit PROVE MarksInv
  OBVIOUS
<1> USE MarksAssumption
<1>1. /\ request = <<>> /\ answers = <<>> /\ Requests = {}
      /\ <<>> \in Seq(Row) /\ <<>> \in Seq(Nat)
  BY DEF MarksInit, Requests
<1>2. MarksTyped
  BY <1>1 DEF MarksInit, MarksTyped, Visit, Duty, Away, OffDuty
<1>3. InHand /\ StillTheSame /\ NobodyIsLate /\ AnsweredOnce /\ LabelsThere
  BY <1>1 DEF MarksInit, InHand, StillTheSame, NobodyIsLate, AnsweredOnce, LabelsThere, Away, OffDuty
<1> QED BY <1>2, <1>3 DEF MarksInv

Rewritten(i, r, n) == request' = [request EXCEPT ![i] = r] /\ answers' = [answers EXCEPT ![i] = n]

RowsAre(i, r, n) ==
    /\ request' \in Seq(Row) /\ answers' \in Seq(Nat) /\ Len(answers') = Len(request')
    /\ Requests' = Requests
    /\ \A j \in Requests : /\ request'[j] = IF j = i THEN r ELSE request[j]
                           /\ answers'[j] = IF j = i THEN n ELSE answers[j]

\* A row of a signature request is rewritten, and its answers with it.
LEMMA RowRewritten ==
    ASSUME MarksTyped, NEW i \in Requests, NEW r \in Row, NEW n \in Nat, Rewritten(i, r, n)
    PROVE  RowsAre(i, r, n)
<1> USE DEF Rewritten, RowsAre
<1>1. request \in Seq(Row) /\ answers \in Seq(Nat) /\ i \in DOMAIN request /\ DOMAIN answers = DOMAIN request
  BY LenProperties DEF MarksTyped, Requests
<1>2. /\ request \in [DOMAIN request -> Row] /\ answers \in [DOMAIN answers -> Nat]
  BY <1>1, LenProperties
<1>3. /\ request' \in [DOMAIN request -> Row] /\ answers' \in [DOMAIN answers -> Nat]
      /\ \A j \in Requests : /\ request'[j] = IF j = i THEN r ELSE request[j]
                             /\ answers'[j] = IF j = i THEN n ELSE answers[j]
  BY <1>1, <1>2 DEF Requests
<1>4. /\ request' \in Seq(Row) /\ Len(request') = Len(request) /\ DOMAIN request' = DOMAIN request
      /\ answers' \in Seq(Nat) /\ Len(answers') = Len(answers)
  BY <1>1, <1>3, SamePositions
<1> QED BY <1>3, <1>4 DEF MarksTyped, Requests

\* Rows that keep their document and their fingerprint stay as comparable as they were.
LEMMA RewrittenSame ==
    ASSUME StillTheSame, UNCHANGED <<print, torn>>, NEW i \in Requests, NEW r, NEW n, RowsAre(i, r, n),
           r.paper = request[i].paper, r.hash = request[i].hash,
           \A u \in Visitors : visitor'[u].at = "same" => visitor'[u] = visitor[u]
    PROVE  StillTheSame'
<1> SUFFICES ASSUME NEW j \in Requests, NEW v \in Visitors, visitor'[v].at = "same", visitor'[v].of = j, j \notin torn
             PROVE  print[request'[j].paper] = request'[j].hash
  BY DEF StillTheSame, RowsAre
<1>1. request'[j].paper = request[j].paper /\ request'[j].hash = request[j].hash
  BY DEF RowsAre
<1>2. print[request[j].paper] = request[j].hash
  BY DEF StillTheSame
<1> QED BY <1>1, <1>2

\* What the rows and the readers are.
LEMMA MarksElements ==
    ASSUME MarksTyped
    PROVE  /\ \A i \in Requests : request[i] \in Row /\ answers[i] \in Nat /\ i \in Nat /\ i # 0
           /\ \A v \in Visitors : visitor[v] \in Visit
           /\ \A s \in Staff : staff[s] \in Duty
           /\ Requests = 1..Len(request) /\ Len(request) \in Nat
<1>1. /\ Requests = 1..Len(request) /\ Len(request) \in Nat /\ DOMAIN answers = 1..Len(request)
      /\ \A i \in DOMAIN request : request[i] \in Row
      /\ \A i \in DOMAIN answers : answers[i] \in Nat
  BY LenProperties, ElementOfSeq DEF MarksTyped, Requests
<1> QED BY <1>1 DEF MarksTyped, Requests

\* Work on the labels leaves the signatures alone.
LEMMA LabelWorkInv ==
    ASSUME MarksInv, SigningKept, PapersKept, NEW s \in Staff, NEW duty \in Duty,
           staff' = staff \/ staff' = [staff EXCEPT ![s] = duty],
           duty.at \in {"open", "assign"} => duty.paper \in Papers,
           duty.at \in {"delete", "assign"} => duty.label \in Labels,
           marked' \in [Papers -> Labels \cup {NoLabel}], label' \in [Labels -> {"none", "on", "off"}],
           LabelsThere'
    PROVE  MarksInv'
<1> USE DEF MarksInv, SigningKept, PapersKept
<1>1. MarksTyped'
  BY DEF MarksTyped
<1>2. InHand'
  BY DEF MarksTyped, InHand, Requests
<1>3. StillTheSame' /\ NobodyIsLate' /\ AnsweredOnce'
  BY DEF StillTheSame, NobodyIsLate, AnsweredOnce, Requests, Open
<1> QED BY <1>1, <1>2, <1>3

\* What the team does.
LEMMA StaffInv ==
    ASSUME MarksInv, NEW s \in Staff,
           \/ \E d \in Papers : Fingerprint(s, d) \/ \E l \in Labels : ReadLabel(s, d, l)
           \/ \E l \in Labels : CountUses(s, l)
           \/ DeleteLabel(s) \/ AssignLabel(s) \/ GiveUp(s)
    PROVE  MarksInv'
<1> USE MarksAssumption
<1> DEFINE Fits1(d) == /\ d \in Duty /\ (d.at \in {"open", "assign"} => d.paper \in Papers)
                       /\ (d.at \in {"delete", "assign"} => d.label \in Labels)
<1>1. ASSUME NEW duty, Fits1(duty), staff' = [staff EXCEPT ![s] = duty], SigningKept, PapersKept,
             marked' \in [Papers -> Labels \cup {NoLabel}], label' \in [Labels -> {"none", "on", "off"}],
             LabelsThere'
      PROVE  MarksInv'
  BY <1>1, LabelWorkInv
<1>2. Fits1(OffDuty)
  BY DEF OffDuty, Duty
<1>3. /\ marked \in [Papers -> Labels \cup {NoLabel}] /\ label \in [Labels -> {"none", "on", "off"}]
      /\ print \in [Papers -> Prints] /\ staff[s] \in Duty
      /\ LabelsKept => LabelsThere' /\ marked' = marked /\ label' = label
  BY DEF MarksInv, MarksTyped, LabelsKept, LabelsThere
<1>4. CASE \E d \in Papers : Fingerprint(s, d)
  <2>1. PICK d \in Papers : Fingerprint(s, d)
    BY <1>4
  <2>2. Fits1([OffDuty EXCEPT !.at = "open", !.paper = d, !.hash = print[d]])
    BY <1>3 DEF OffDuty, Duty
  <2> QED BY <1>1, <1>3, <2>1, <2>2 DEF Fingerprint
<1>5. CASE \E d \in Papers : \E l \in Labels : ReadLabel(s, d, l)
  <2>1. PICK d \in Papers, l \in Labels : ReadLabel(s, d, l)
    BY <1>5
  <2>2. Fits1([OffDuty EXCEPT !.at = "assign", !.paper = d, !.label = l])
    BY DEF OffDuty, Duty
  <2> QED BY <1>1, <1>3, <2>1, <2>2 DEF ReadLabel
<1>6. CASE \E l \in Labels : CountUses(s, l)
  <2>1. PICK l \in Labels : CountUses(s, l)
    BY <1>6
  <2>2. Fits1([OffDuty EXCEPT !.at = "delete", !.label = l])
    BY DEF OffDuty, Duty
  <2> QED BY <1>1, <1>3, <2>1, <2>2 DEF CountUses
<1>7. CASE DeleteLabel(s)
  <2>1. label' \in [Labels -> {"none", "on", "off"}] /\ marked' = marked /\ LabelsThere'
    <3>1. staff[s].label \in Labels
      BY <1>7 DEF DeleteLabel, MarksInv, InHand
    <3> QED BY <1>3, <1>7, <3>1 DEF DeleteLabel, InUse, MarksInv, LabelsThere
  <2> QED BY <1>1, <1>2, <1>3, <1>7, <2>1 DEF DeleteLabel
<1>8. CASE AssignLabel(s)
  <2>1. marked' \in [Papers -> Labels \cup {NoLabel}] /\ label' = label /\ LabelsThere'
    <3>1. staff[s].label \in Labels /\ staff[s].paper \in Papers
      BY <1>8 DEF AssignLabel, MarksInv, InHand
    <3> QED BY <1>3, <1>8, <3>1 DEF AssignLabel, MarksInv, LabelsThere
  <2> QED BY <1>1, <1>2, <1>3, <1>8, <2>1 DEF AssignLabel
<1>9. CASE GiveUp(s)
  BY <1>1, <1>2, <1>3, <1>9 DEF GiveUp
<1> QED BY <1>4, <1>5, <1>6, <1>7, <1>8, <1>9

\* Labels are made, switched on and off, and taken off documents.
LEMMA LabelsInv ==
    ASSUME MarksInv,
           \/ \E l \in Labels : CreateLabel(l) \/ \E active \in BOOLEAN : UpdateLabel(l, active)
           \/ \E d \in Papers : ClearLabel(d)
    PROVE  MarksInv'
<1> USE MarksAssumption DEF MarksInv
<1>1. /\ SigningKept /\ PapersKept /\ staff' = staff
      /\ marked' \in [Papers -> Labels \cup {NoLabel}] /\ label' \in [Labels -> {"none", "on", "off"}]
      /\ LabelsThere'
  <2>1. CASE \E l \in Labels : CreateLabel(l)
    BY <2>1 DEF CreateLabel, MarksTyped, LabelsThere
  <2>2. CASE \E l \in Labels : \E active \in BOOLEAN : UpdateLabel(l, active)
    BY <2>2 DEF UpdateLabel, MarksTyped, LabelsThere
  <2>3. CASE \E d \in Papers : ClearLabel(d)
    BY <2>3 DEF ClearLabel, MarksTyped, LabelsThere
  <2> QED BY <2>1, <2>2, <2>3
<1>2. MarksTyped' /\ InHand'
  BY <1>1 DEF MarksTyped, InHand, Requests, SigningKept, PapersKept
<1>3. StillTheSame' /\ NobodyIsLate' /\ AnsweredOnce'
  BY <1>1 DEF StillTheSame, NobodyIsLate, AnsweredOnce, Requests, Open, SigningKept, PapersKept
<1> QED BY <1>1, <1>2, <1>3

\* A document is changed: whoever is signing it then is torn.
LEMMA ReprintInv ==
    ASSUME MarksInv, NEW d \in Papers, NEW p \in Prints, Reprint(d, p)
    PROVE  MarksInv'
<1> USE DEF MarksInv
<1>1. MarksTyped' /\ InHand' /\ LabelsThere' /\ NobodyIsLate'
  BY DEF Reprint, LabelsKept, MarksTyped, InHand, Requests, LabelsThere, NobodyIsLate
<1>2. AnsweredOnce'
  BY DEF Reprint, AnsweredOnce, Requests, Open
<1>3. StillTheSame'
  <2> SUFFICES ASSUME NEW i \in Requests, NEW v \in Visitors, visitor[v].at = "same", visitor[v].of = i, i \notin torn'
               PROVE  print'[request[i].paper] = request[i].hash
    BY DEF Reprint, StillTheSame, Requests
  <2>1. visitor[v] = [at |-> "same", of |-> i] /\ request[i] \in Row /\ print \in [Papers -> Prints]
    BY MarksElements DEF Visit, MarksTyped
  <2>2. request[i].paper # d /\ i \notin torn
    BY <2>1 DEF Reprint
  <2>3. print'[request[i].paper] = print[request[i].paper]
    BY <2>1, <2>2 DEF Reprint, Row
  <2> QED BY <2>2, <2>3 DEF StillTheSame
<1> QED BY <1>1, <1>2, <1>3

\* A new request has nobody at it yet.
LEMMA OpenRequestInv ==
    ASSUME MarksInv, NEW s \in Staff, OpenRequest(s)
    PROVE  MarksInv'
<1> USE MarksAssumption
<1> USE DEF MarksInv
<1>1. PICK r : r = [paper |-> staff[s].paper, status |-> "PENDING", hash |-> staff[s].hash, late |-> FALSE, signed |-> NoPaper]
  OBVIOUS
<1>2. /\ r \in Row /\ r.status = "PENDING"
      /\ request' = Append(request, r) /\ answers' = Append(answers, 0)
      /\ staff' = [staff EXCEPT ![s] = OffDuty]
      /\ UNCHANGED <<visitor, torn, overdue, print, label, marked>>
  BY <1>1, MarksElements DEF OpenRequest, Row, Duty, InHand, PapersKept, LabelsKept
<1>3. /\ request' \in Seq(Row) /\ answers' \in Seq(Nat) /\ Len(answers') = Len(request')
      /\ Requests' = Requests \cup {Len(request) + 1} /\ Len(request) + 1 \notin Requests
      /\ \A i \in Requests : request'[i] = request[i] /\ answers'[i] = answers[i]
      /\ request'[Len(request) + 1] = r /\ answers'[Len(request) + 1] = 0
  <2>1. request \in Seq(Row) /\ answers \in Seq(Nat) /\ Len(answers) = Len(request) /\ 0 \in Nat
    BY DEF MarksTyped
  <2>2. DOMAIN answers = DOMAIN request
    BY <2>1, LenProperties
  <2> QED BY <1>2, <2>1, <2>2, AddAtEnd DEF Requests
<1>4. MarksTyped' /\ InHand' /\ LabelsThere'
  <2>1. OffDuty \in Duty /\ OffDuty.at = "idle"
    BY DEF OffDuty, Duty
  <2> QED BY <1>2, <1>3, <2>1 DEF MarksTyped, InHand, LabelsThere
<1>5. NobodyIsLate' /\ StillTheSame'
  BY <1>2, <1>3, MarksElements DEF NobodyIsLate, StillTheSame, InHand
<1>6. AnsweredOnce'
  <2>1. ASSUME NEW i \in Requests
        PROVE  /\ request'[i].status = "SIGNED" /\ i \notin torn => request'[i].signed = request'[i].hash
               /\ answers'[i] = (IF request'[i].status = "PENDING" THEN 0 ELSE 1)
               /\ i \in overdue => request'[i].status \in {"PENDING", "REVOKED"}
    BY <1>3 DEF AnsweredOnce, Open
  <2>2. Len(request) + 1 \notin overdue
    BY <1>3 DEF NobodyIsLate
  <2> QED BY <1>2, <1>3, <2>1, <2>2 DEF AnsweredOnce, Open
<1> QED BY <1>4, <1>5, <1>6

\* A request expires, or is taken back.
LEMMA ExpireOrRevokeInv ==
    ASSUME MarksInv, NEW i \in Requests, Expire(i) \/ Revoke(i)
    PROVE  MarksInv'
<1> USE DEF MarksInv
<1>1. /\ UNCHANGED <<visitor, staff, torn, print, label, marked>>
      /\ request[i] \in Row /\ answers[i] \in Nat
  BY MarksElements DEF Expire, Revoke, LabelsKept, PapersKept
<1>2. CASE Expire(i)
  <2>1. PICK r : r = [request[i] EXCEPT !.late = TRUE]
    OBVIOUS
  <2>2. /\ r \in Row /\ r.late /\ r.paper = request[i].paper /\ r.status = request[i].status
        /\ r.hash = request[i].hash /\ r.signed = request[i].signed
    BY <1>1, <2>1 DEF Row
  <2>3. Rewritten(i, r, answers[i])
    BY <1>2, <2>1 DEF Expire, MarksTyped, Rewritten
  <2>4. RowsAre(i, r, answers[i])
    BY <1>1, <2>2, <2>3, RowRewritten
  <2>5. MarksTyped' /\ InHand' /\ LabelsThere' /\ StillTheSame'
    <3>1. StillTheSame'
      BY <1>1, <2>2, <2>4, RewrittenSame
    <3> QED BY <1>1, <2>2, <2>4, <3>1 DEF MarksTyped, InHand, LabelsThere, RowsAre
  <2>6. overdue' = overdue \/ (overdue' = overdue \cup {i} /\ Open(i) /\ \A v \in Visitors : visitor[v].of # i)
    BY <1>2 DEF Expire
  <2>7. NobodyIsLate' /\ AnsweredOnce'
    BY <1>1, <2>2, <2>4, <2>6 DEF NobodyIsLate, AnsweredOnce, Open, RowsAre
  <2> QED BY <2>5, <2>7
<1>3. CASE Revoke(i)
  <2>1. PICK r : r = [request[i] EXCEPT !.status = "REVOKED"]
    OBVIOUS
  <2>2. /\ r \in Row /\ r.late = request[i].late /\ r.paper = request[i].paper /\ r.status = "REVOKED"
        /\ r.hash = request[i].hash /\ r.signed = request[i].signed
    BY <1>1, <2>1 DEF Row
  <2>3. Rewritten(i, r, answers[i] + 1) /\ Open(i) /\ overdue' = overdue /\ answers[i] = 0 /\ answers[i] + 1 \in Nat
    BY <1>1, <1>3, <2>1 DEF Revoke, AnsweredOnce, Rewritten
  <2>4. RowsAre(i, r, answers[i] + 1)
    BY <1>1, <2>2, <2>3, RowRewritten
  <2>5. MarksTyped' /\ InHand' /\ LabelsThere' /\ StillTheSame' /\ NobodyIsLate'
    <3>1. StillTheSame'
      BY <1>1, <2>2, <2>4, RewrittenSame
    <3> QED BY <1>1, <2>2, <2>3, <2>4, <3>1 DEF MarksTyped, InHand, LabelsThere, NobodyIsLate, RowsAre
  <2>6. AnsweredOnce'
    BY <1>1, <2>2, <2>3, <2>4 DEF AnsweredOnce, Open, RowsAre
  <2> QED BY <2>5, <2>6
<1> QED BY <1>2, <1>3

\* A signer reads a request, goes away, or compares: only what they have in hand changes.
LEMMA ReaderInv ==
    ASSUME MarksInv, NEW v \in Visitors, NEW x \in Visit, visitor' = [visitor EXCEPT ![v] = x],
           UNCHANGED <<request, staff, answers, torn, overdue, print, label, marked>>,
           x.of \in Requests \cup {0}, x.at # "idle" => x.of \in Requests,
           x.of = visitor[v].of \/ x.of = 0 \/ ~request[x.of].late,
           x.at = "same" => print[request[x.of].paper] = request[x.of].hash
    PROVE  MarksInv'
<1> USE DEF MarksInv
<1>1. \A u \in Visitors : visitor'[u] = IF u = v THEN x ELSE visitor[u]
  BY DEF MarksTyped
<1>2. MarksTyped' /\ InHand'
  BY <1>1 DEF MarksTyped, InHand, Requests
<1>3. NobodyIsLate'
  BY <1>1, MarksElements DEF NobodyIsLate, Requests
<1>4. StillTheSame' /\ AnsweredOnce' /\ LabelsThere'
  BY <1>1 DEF StillTheSame, AnsweredOnce, LabelsThere, Requests, Open
<1> QED BY <1>2, <1>3, <1>4

\* A signature or a refusal is written, and the signer leaves.
LEMMA AnswerInv ==
    ASSUME MarksInv, NEW v \in Visitors, NEW i \in Requests, visitor[v].of = i, Leaves(v), NEW r \in Row,
           UNCHANGED <<staff, torn, overdue, print, label, marked>>,
           \/ request' = request /\ answers' = answers
           \/ /\ Open(i) /\ Rewritten(i, r, answers[i] + 1)
              /\ r.paper = request[i].paper /\ r.hash = request[i].hash /\ r.late = request[i].late
              /\ r.status \in {"SIGNED", "DECLINED"}
              /\ r.status = "SIGNED" /\ i \notin torn => r.signed = r.hash
    PROVE  MarksInv'
<1> USE DEF MarksInv
<1>1. /\ \A u \in Visitors : visitor'[u] = IF u = v THEN Away ELSE visitor[u]
      /\ Away \in Visit /\ Away.of = 0 /\ Away.at = "idle" /\ visitor' \in [Visitors -> Visit]
  BY DEF MarksTyped, Leaves, Away, Visit
<1>2. CASE request' = request /\ answers' = answers
  <2>1. 0 \in Requests \cup {0} /\ Away.of = 0 /\ visitor' = [visitor EXCEPT ![v] = Away]
    BY <1>1 DEF Leaves
  <2> QED BY <1>1, <1>2, <2>1, ReaderInv
<1>3. CASE Open(i) /\ Rewritten(i, r, answers[i] + 1)
  <2>1. answers[i] = 0 /\ answers[i] + 1 \in Nat /\ request[i].status = "PENDING"
    BY <1>3 DEF AnsweredOnce, Open
  <2>2. RowsAre(i, r, answers[i] + 1)
    BY <1>3, <2>1, RowRewritten
  <2>3. MarksTyped' /\ InHand' /\ LabelsThere'
    BY <1>1, <2>2 DEF MarksTyped, InHand, LabelsThere, RowsAre
  <2>4. /\ r.paper = request[i].paper /\ r.hash = request[i].hash /\ r.late = request[i].late
        /\ r.status \in {"SIGNED", "DECLINED"}
        /\ r.status = "SIGNED" /\ i \notin torn => r.signed = r.hash
    <3>1. request # request'
      BY <2>1, <2>2, LenProperties, ElementOfSeq DEF MarksTyped, Requests, RowsAre
    <3> QED BY <3>1
  <2>5. StillTheSame' /\ NobodyIsLate'
    <3>1. \A j \in Requests : /\ request'[j].paper = request[j].paper /\ request'[j].hash = request[j].hash
                             /\ request'[j].late = request[j].late
      BY <2>2, <2>4 DEF RowsAre
    <3>2. \A u \in Visitors : visitor'[u].at = "same" => visitor'[u] = visitor[u]
      BY <1>1
    <3>3. StillTheSame'
      BY <2>2, <2>4, <3>2, RewrittenSame
    <3>4. overdue \subseteq Requests /\ \A j \in overdue : request[j].late /\ \A u \in Visitors : visitor[u].of # j
      BY DEF NobodyIsLate
    <3>5. 0 \notin Requests /\ Requests' = Requests
      BY <2>2, MarksElements DEF RowsAre
    <3>6. \A j \in overdue : request'[j].late /\ \A u \in Visitors : visitor'[u].of # j
      BY <1>1, <3>1, <3>4, <3>5
    <3> QED BY <3>3, <3>4, <3>5, <3>6 DEF NobodyIsLate
  <2>6. i \notin overdue
    BY DEF NobodyIsLate
  <2>7. AnsweredOnce'
    BY <2>1, <2>2, <2>4, <2>6 DEF AnsweredOnce, Open, RowsAre
  <2> QED BY <2>3, <2>5, <2>7
<1> QED BY <1>2, <1>3

\* What signers do.
LEMMA VisitorInv ==
    ASSUME MarksInv, NEW v \in Visitors,
           \/ \E i \in Requests, answer \in {"agree", "decline"} : Submit(v, i, answer)
           \/ Decline(v) \/ CompareFingerprint(v) \/ Sign(v) \/ Withdraw(v)
    PROVE  MarksInv'
<1> USE DEF MarksInv
<1>1. /\ Away \in Visit /\ Away.of = 0 /\ Away.at = "idle" /\ visitor[v] \in Visit
      /\ visitor[v].at # "idle" => visitor[v].of \in Requests
  BY MarksElements DEF Away, Visit, InHand
<1>2. CASE \E i \in Requests, answer \in {"agree", "decline"} : Submit(v, i, answer)
  <2>1. PICK i \in Requests, answer \in {"agree", "decline"} : Submit(v, i, answer)
    BY <1>2
  <2>2. PICK x : x = [at |-> answer, of |-> i]
    OBVIOUS
  <2>3. x \in Visit /\ x.of = i /\ x.at # "same" /\ ~request[i].late
    BY <2>1, <2>2, MarksElements DEF Visit, Submit
  <2>4. /\ visitor' = [visitor EXCEPT ![v] = x]
        /\ UNCHANGED <<request, staff, answers, torn, overdue, print, label, marked>>
    BY <2>1, <2>2 DEF Submit, PapersKept, LabelsKept
  <2> QED BY <2>3, <2>4, ReaderInv
<1>3. CASE Withdraw(v)
  <2>1. /\ visitor' = [visitor EXCEPT ![v] = Away]
        /\ UNCHANGED <<request, staff, answers, torn, overdue, print, label, marked>>
    BY <1>3 DEF Withdraw, Leaves, PapersKept, LabelsKept
  <2> QED BY <1>1, <2>1, ReaderInv
<1>4. CASE CompareFingerprint(v)
  <2>1. PICK x : x = IF print[request[visitor[v].of].paper] = request[visitor[v].of].hash
                     THEN [visitor[v] EXCEPT !.at = "same"] ELSE Away
    OBVIOUS
  <2>2. /\ visitor' = [visitor EXCEPT ![v] = x] /\ visitor[v].of \in Requests
        /\ UNCHANGED <<request, staff, answers, torn, overdue, print, label, marked>>
    BY <1>1, <1>4, <2>1 DEF CompareFingerprint, Leaves, PapersKept, LabelsKept
  <2>3. /\ x \in Visit /\ x.of \in {visitor[v].of, 0} /\ (x.at # "idle" => x.of = visitor[v].of)
        /\ x.at = "same" => print[request[visitor[v].of].paper] = request[visitor[v].of].hash
    BY <1>1, <2>1 DEF Visit
  <2> QED BY <2>2, <2>3, ReaderInv
<1>5. CASE Decline(v) \/ Sign(v)
  <2>1. PICK i : i = visitor[v].of /\ i \in Requests
    BY <1>1, <1>5 DEF Decline, Sign
  <2>2. request[i] \in Row /\ print[request[i].paper] \in Prints
    BY <2>1, MarksElements DEF MarksTyped, Row
  <2>3. PICK r : r = IF Sign(v) THEN [request[i] EXCEPT !.status = "SIGNED", !.signed = print[request[i].paper]]
                     ELSE [request[i] EXCEPT !.status = "DECLINED"]
    OBVIOUS
  <2>4. /\ r \in Row /\ r.paper = request[i].paper /\ r.hash = request[i].hash /\ r.late = request[i].late
        /\ r.status = IF Sign(v) THEN "SIGNED" ELSE "DECLINED"
        /\ Sign(v) => r.signed = print[request[i].paper]
    BY <2>2, <2>3 DEF Row
  <2>5. Sign(v) /\ i \notin torn => print[request[i].paper] = request[i].hash
    BY <2>1 DEF Sign, StillTheSame
  <2>6. /\ Leaves(v) /\ UNCHANGED <<staff, torn, overdue, print, label, marked>>
        /\ \/ request' = request /\ answers' = answers
           \/ Open(i) /\ Rewritten(i, r, answers[i] + 1)
    <3>1. CASE Sign(v)
      BY <2>1, <2>3, <3>1 DEF Sign, Rewritten, PapersKept, LabelsKept
    <3>2. CASE ~Sign(v)
      BY <1>5, <2>1, <2>3, <3>2 DEF Decline, Rewritten, PapersKept, LabelsKept
    <3> QED BY <3>1, <3>2
  <2> QED BY <2>1, <2>4, <2>5, <2>6, AnswerInv
<1> QED BY <1>2, <1>3, <1>4, <1>5

LEMMA MarksNextInv == MarksInv /\ [MarksNext]_marksVars => MarksInv'
<1> SUFFICES ASSUME MarksInv, [MarksNext]_marksVars PROVE MarksInv'
  OBVIOUS
<1>1. CASE UNCHANGED marksVars
  BY <1>1 DEF marksVars, MarksInv, MarksTyped, InHand, StillTheSame, NobodyIsLate, AnsweredOnce, LabelsThere,
              Requests, Open
<1>2. CASE MarksNext
  <2>1. CASE \E d \in Papers : \E p \in Prints : Reprint(d, p)
    BY <2>1, ReprintInv
  <2>2. CASE \E i \in Requests : Expire(i) \/ Revoke(i)
    BY <2>2, ExpireOrRevokeInv
  <2>3. CASE \E s \in Staff : OpenRequest(s)
    BY <2>3, OpenRequestInv
  <2> QED BY <1>2, <2>1, <2>2, <2>3, VisitorInv, LabelsInv, StaffInv DEF MarksNext
<1> QED BY <1>1, <1>2

\* A signature is on what the document printed when the request was made, a request is
\* answered once and not after it expired, and a label on a document is one there is.
THEOREM MarksStay == MarksInit /\ [][MarksNext]_marksVars => []MarksHold
<1> QED BY MarksInitInv, MarksNextInv, MarksInvHolds, PTL

-----------------------------------------------------------------------------
(* A business brought over *)

NewcomerOf(x, file) == [type |-> x.type, name |-> x.name, phone |-> x.phone, file |-> file]
FilePeople == UNION {RowsOf(file) : file \in PartyFiles}

\* The parties there can be.
PartyRec == {NewcomerOf(x, FALSE) : x \in NewParties} \cup {NewcomerOf(x, TRUE) : x \in FilePeople}

KeyOf(p) == <<p.type, p.name>>

\* What a party is.
LEMMA PartyFields ==
    ASSUME NEW p \in PartyRec
    PROVE  p.type \in PartyTypes /\ p = NewcomerOf(p, p.file) /\ p.file \in BOOLEAN
<1>1. CASE \E x \in NewParties : p = NewcomerOf(x, FALSE)
  <2>1. PICK x \in NewParties : p = NewcomerOf(x, FALSE)
    BY <1>1
  <2>2. x.type \in PartyTypes
    BY LegacyAssumption
  <2> QED BY <2>1, <2>2 DEF NewcomerOf
<1>2. CASE \E x \in FilePeople : p = NewcomerOf(x, TRUE)
  <2>1. \A x \in FilePeople : x.type \in PartyTypes
    BY LegacyAssumption DEF FilePeople
  <2> QED BY <1>2, <2>1 DEF NewcomerOf
<1> QED BY <1>1, <1>2 DEF PartyRec

\* What an import has made of the rows so far: parties with keys nobody had before, and
\* neither a key nor a phone twice.
PartiesFine(s, known) ==
    /\ s.made \in Seq(PartyRec)
    /\ known \subseteq s.names
    /\ \A k \in DOMAIN s.made : /\ KeyOf(s.made[k]) \in s.names \ known
                                /\ s.made[k].phone \in s.phones \cup {NoPhone}
    /\ \A k, l \in DOMAIN s.made : KeyOf(s.made[k]) = KeyOf(s.made[l]) => k = l
    /\ \A k, l \in DOMAIN s.made : s.made[k].phone = s.made[l].phone => k = l \/ s.made[k].phone = NoPhone

\* One row more of a file of parties.
LEMMA PartyRowFine ==
    ASSUME NEW s, NEW known, PartiesFine(s, known), NEW row \in FilePeople
    PROVE  PartiesFine(PartyRow(s, row), known)
<1> DEFINE new == NewcomerOf(row, TRUE)
<1>1. CASE row.phone \in s.phones \/ <<row.type, row.name>> \in s.names
  BY <1>1 DEF PartyRow
<1>2. CASE ~(row.phone \in s.phones \/ <<row.type, row.name>> \in s.names)
  <2>1. PICK t : t = PartyRow(s, row)
    OBVIOUS
  <2>2. /\ t.made = Append(s.made, new)
        /\ t.names = s.names \cup {<<row.type, row.name>>} /\ t.phones = s.phones \cup ({row.phone} \ {NoPhone})
    BY <1>2, <2>1 DEF PartyRow, NewcomerOf
  <2>3. new \in PartyRec /\ KeyOf(new) = <<row.type, row.name>> /\ new.phone = row.phone
    BY DEF PartyRec, KeyOf, NewcomerOf
  <2>4. PICK m, e : m = s.made /\ e = new
    OBVIOUS
  <2>5. m \in Seq(PartyRec) /\ e \in PartyRec
    BY <2>3, <2>4 DEF PartiesFine
  <2>6. /\ t.made \in Seq(PartyRec)
        /\ DOMAIN t.made = DOMAIN m \cup {Len(m) + 1} /\ Len(m) + 1 \notin DOMAIN m
        /\ \A j \in DOMAIN m : t.made[j] = m[j]
        /\ t.made[Len(m) + 1] = e
    <3>1. t.made = Append(m, e)
      BY <2>2, <2>4
    <3>2. PICK w : w = Append(m, e)
      OBVIOUS
    <3>3. /\ w \in Seq(PartyRec) /\ DOMAIN w = DOMAIN m \cup {Len(m) + 1} /\ Len(m) + 1 \notin DOMAIN m
          /\ \A j \in DOMAIN m : w[j] = m[j]
          /\ w[Len(m) + 1] = e
      BY <2>5, <3>2, AddAtEnd
    <3> QED BY <3>1, <3>2, <3>3
  <2>7. KeyOf(e) \notin s.names /\ e.phone \notin s.phones /\ KeyOf(e) \in t.names /\ e.phone \in t.phones \cup {NoPhone}
    BY <1>2, <2>2, <2>3, <2>4
  <2>8. known \subseteq s.names /\ known \subseteq t.names
    BY <2>2 DEF PartiesFine
  <2>9. \A k \in DOMAIN m : /\ KeyOf(m[k]) \in s.names \ known /\ KeyOf(m[k]) \in t.names
                            /\ m[k].phone \in s.phones \cup {NoPhone} /\ m[k].phone \in t.phones \cup {NoPhone}
    BY <2>2, <2>4 DEF PartiesFine
  <2>10. \A k \in DOMAIN t.made : (k \in DOMAIN m /\ t.made[k] = m[k]) \/ (k = Len(m) + 1 /\ t.made[k] = e)
    <3> HIDE DEF new
    <3>1. PICK g, n : g = t.made /\ n = Len(m) + 1
      OBVIOUS
    <3>2. /\ DOMAIN g = DOMAIN m \cup {n} /\ g[n] = e
          /\ \A j \in DOMAIN m : g[j] = m[j]
      BY <2>6, <3>1
    <3>3. \A k \in DOMAIN g : (k \in DOMAIN m /\ g[k] = m[k]) \/ (k = n /\ g[k] = e)
      <4> TAKE k \in DOMAIN g
      <4>1. CASE k \in DOMAIN m
        BY <3>2, <4>1
      <4>2. CASE k = n
        BY <3>2, <4>2
      <4>3. k \in DOMAIN m \/ k = n
        BY <3>2
      <4> QED BY <4>1, <4>2, <4>3
    <3> QED BY <3>1, <3>3
  <2>11. \A k \in DOMAIN t.made : KeyOf(t.made[k]) \in t.names \ known /\ t.made[k].phone \in t.phones \cup {NoPhone}
    BY <2>7, <2>8, <2>9, <2>10
  <2>12. \A k, l \in DOMAIN t.made : KeyOf(t.made[k]) = KeyOf(t.made[l]) => k = l
    BY <2>4, <2>7, <2>9, <2>10 DEF PartiesFine
  <2>13. \A k, l \in DOMAIN t.made : t.made[k].phone = t.made[l].phone => k = l \/ t.made[k].phone = NoPhone
    BY <2>4, <2>7, <2>9, <2>10 DEF PartiesFine
  <2> QED BY <2>1, <2>6, <2>8, <2>11, <2>12, <2>13 DEF PartiesFine
<1> QED BY <1>1, <1>2

\* The recursion of PartyRows, as one function of the rows done.
AfterParties(rows, s) ==
    CHOOSE f : f = [i \in 0..Len(rows) |-> IF i = 0 THEN s ELSE PartyRow(f[i - 1], rows[i])]

\* PartyRows is the last value of its recursion.
LEMMA PartyRowsIsLast == \A rows, s : PartyRows(rows, s) = AfterParties(rows, s)[Len(rows)]
BY DEF PartyRows, AfterParties

\* Some function satisfies it: by the number of rows.
LEMMA AfterPartiesIs ==
    ASSUME NEW rows, NEW s, Len(rows) \in Nat
    PROVE  AfterParties(rows, s)
             = [i \in 0..Len(rows) |-> IF i = 0 THEN s ELSE PartyRow(AfterParties(rows, s)[i - 1], rows[i])]
<1> DEFINE Next1(x, i) == PartyRow(x, rows[i])
<1> HIDE DEF Next1
<1> DEFINE Upto(n) == \E f : f = [i \in 0..n |-> IF i = 0 THEN s ELSE Next1(f[i - 1], i)]
           B == {n \in Nat : ~Upto(n)}
<1>1. B = {}
  <2> SUFFICES ASSUME B # {} PROVE FALSE
    OBVIOUS
  <2>1. PICK m \in B : \A n \in B : m <= n
    <3>1. B \subseteq Nat
      OBVIOUS
    <3> HIDE DEF B
    <3> QED BY <3>1, LeastNat
  <2>2. m # 0
    <3>1. PICK f : f = [i \in 0..0 |-> s]
      OBVIOUS
    <3>2. f = [i \in 0..0 |-> IF i = 0 THEN s ELSE Next1(f[i - 1], i)]
      BY <3>1
    <3>3. Upto(0)
      BY <3>2
    <3> QED BY <2>1, <3>3
  <2>3. m - 1 \in Nat /\ Upto(m - 1)
    <3>1. m - 1 \in Nat /\ ~(m <= m - 1)
      BY <2>1, <2>2
    <3>2. m - 1 \notin B
      BY <2>1, <3>1
    <3> HIDE DEF Upto
    <3> QED BY <3>1, <3>2
  <2>4. PICK f : f = [i \in 0..(m - 1) |-> IF i = 0 THEN s ELSE Next1(f[i - 1], i)]
    BY <2>3
  <2>5. PICK h : h = [i \in 0..m |-> IF i = 0 THEN s ELSE Next1(f[i - 1], i)]
    OBVIOUS
  <2>6. \A i \in 0..m : i # 0 => i - 1 \in 0..(m - 1) /\ i - 1 \in 0..m
    BY <2>1
  <2>7. \A i \in 0..(m - 1) : h[i] = f[i]
    BY <2>1, <2>2, <2>4, <2>5
  <2>8. \A i \in 0..m : i # 0 => h[i - 1] = f[i - 1]
    BY <2>6, <2>7
  <2>9. h = [i \in 0..m |-> IF i = 0 THEN s ELSE Next1(h[i - 1], i)]
    BY <2>5, <2>8
  <2> QED BY <2>1, <2>9
<1>2. Upto(Len(rows))
  BY <1>1
<1>3. \E f : f = [i \in 0..Len(rows) |-> IF i = 0 THEN s ELSE PartyRow(f[i - 1], rows[i])]
  BY <1>2 DEF Next1
<1> QED BY <1>3 DEF AfterParties

\* A whole file.
LEMMA PartyRowsFine ==
    ASSUME NEW file \in PartyFiles, NEW s, NEW known, PartiesFine(s, known)
    PROVE  PartiesFine(PartyRows(file, s), known)
<1>1. Len(file) \in Nat /\ \A i \in 1..Len(file) : file[i] \in FilePeople
  <2>1. file \in Seq(RowsOf(file))
    BY LegacyAssumption
  <2>2. DOMAIN file = 1..Len(file) /\ Len(file) \in Nat
    BY <2>1, LenProperties
  <2> QED BY <2>2 DEF FilePeople, RowsOf
<1>2. PICK f : f = AfterParties(file, s)
  OBVIOUS
<1>3. f = [i \in 0..Len(file) |-> IF i = 0 THEN s ELSE PartyRow(f[i - 1], file[i])]
  BY <1>1, <1>2, AfterPartiesIs
<1> DEFINE B == {i \in 0..Len(file) : ~PartiesFine(f[i], known)}
<1>4. B = {}
  <2> SUFFICES ASSUME B # {} PROVE FALSE
    OBVIOUS
  <2>1. PICK m \in B : \A n \in B : m <= n
    <3>1. B \subseteq Nat
      BY <1>1
    <3> HIDE DEF B
    <3> QED BY <3>1, LeastNat
  <2>2. m \in 0..Len(file) /\ ~PartiesFine(f[m], known)
    OBVIOUS
  <2>3. m # 0
    BY <1>1, <1>3, <2>2
  <2>4. m - 1 \in 0..Len(file) /\ m \in 1..Len(file) /\ ~(m <= m - 1)
    BY <1>1, <2>2, <2>3
  <2>5. m - 1 \notin B
    BY <2>1, <2>4
  <2>6. PartiesFine(f[m - 1], known)
    BY <2>4, <2>5
  <2>7. f[m] = PartyRow(f[m - 1], file[m])
    BY <1>3, <2>2, <2>3
  <2> QED BY <1>1, <2>2, <2>4, <2>6, <2>7, PartyRowFine
<1>5. Len(file) \in 0..Len(file)
  BY <1>1
<1>6. PartiesFine(f[Len(file)], known)
  BY <1>4, <1>5
<1> QED BY <1>2, <1>6, PartyRowsIsLast
\* resolveParty finds the one party that matches, or none.
LEMMA OnlyMatch ==
    ASSUME NEW known, IsFiniteSet(known), NEW name, NEW allowed
    PROVE  \/ ResolveParty(known, name, allowed) = {}
           \/ \E p \in known : /\ ResolveParty(known, name, allowed) = {p} /\ Matches(known, name, allowed) = {p}
                               /\ parties[p].name = name /\ parties[p].type \in allowed
<1> DEFINE M == Matches(known, name, allowed)
<1>1. M \subseteq known /\ \A p \in M : parties[p].name = name /\ parties[p].type \in allowed
  BY DEF Matches
<1>2. CASE Cardinality(M) = 1
  <2>1. IsFiniteSet(M)
    BY <1>1, FS_Subset
  <2>2. PICK p : M = {p}
    BY <1>2, <2>1, FS_Singleton
  <2> QED BY <1>1, <1>2, <2>2 DEF ResolveParty
<1>3. CASE Cardinality(M) # 1
  BY <1>3 DEF ResolveParty
<1> QED BY <1>2, <1>3

Called(r) == {p \in r.knew : parties[p].name = r.row.name}

\* What the rows of an import of invoices have come to so far.
InvoicesFine(c, s) ==
    /\ \A h \in s.made : /\ h.kind = caller[c].kind /\ h.party \in caller[c].knew
                         /\ parties[h.party].type \in AllowedFor(h.kind) /\ h.paid <= h.total
    /\ caller[c].has \subseteq s.seen
    /\ \A n \in s.seen : n \in caller[c].has \/ \E h \in s.made : h.number = n
    /\ \A r \in s.said :
         /\ r.kind = caller[c].kind /\ r.knew = caller[c].knew
         /\ r.outcome \in {"COMMITTED", "DUPLICATE", "ERROR"} /\ (r.outcome # "COMMITTED" => r.left = {})
         /\ r.outcome = "COMMITTED" =>
              \E h \in s.made : /\ r.left = {h} /\ h.number = r.row.number /\ h.party \in Called(r)
                                /\ \A p \in Called(r) \ {h.party} : parties[p].type \notin AllowedFor(r.kind)
         /\ r.outcome = "DUPLICATE" => r.row.number \in s.seen

\* One row more of a file of invoices.
LEMMA InvoiceRowFine ==
    ASSUME NEW c, IsFiniteSet(caller[c].knew), NEW s, s = [made |-> s.made, seen |-> s.seen, said |-> s.said],
           InvoicesFine(c, s), NEW row, row.paid \in Int, row.total \in Int
    PROVE  LET t == InvoiceRow(c, s, row) IN t = [made |-> t.made, seen |-> t.seen, said |-> t.said] /\ InvoicesFine(c, t)
<1> DEFINE who == ResolveParty(caller[c].knew, row.name, AllowedFor(caller[c].kind))
           entry(outcome, left) == [kind |-> caller[c].kind, row |-> row, knew |-> caller[c].knew, outcome |-> outcome, left |-> left]
           new == {[kind |-> caller[c].kind, number |-> row.number, party |-> p, total |-> row.total, paid |-> row.paid] : p \in who}
<1>1. PICK t : t = InvoiceRow(c, s, row)
  OBVIOUS
<1>2. CASE row.paid > row.total \/ who = {}
  <2>1. PICK e : e = entry("ERROR", {})
    OBVIOUS
  <2>2. e.kind = caller[c].kind /\ e.knew = caller[c].knew /\ e.outcome = "ERROR" /\ e.left = {}
    BY <2>1
  <2>3. t = [s EXCEPT !.said = s.said \cup {e}]
    <3>1. CASE row.paid > row.total
      BY <1>1, <2>1, <3>1 DEF InvoiceRow
    <3>2. CASE ~(row.paid > row.total) /\ who = {}
      BY <1>1, <2>1, <3>2 DEF InvoiceRow
    <3> QED BY <1>2, <3>1, <3>2
  <2>4. t.made = s.made /\ t.seen = s.seen /\ t.said = s.said \cup {e} /\ t = [made |-> t.made, seen |-> t.seen, said |-> t.said]
    BY <2>3
  <2>5. InvoicesFine(c, t)
    BY <2>2, <2>4 DEF InvoicesFine
  <2> QED BY <1>1, <2>4, <2>5
<1>3. CASE ~(row.paid > row.total \/ who = {}) /\ row.number \in s.seen
  <2>1. PICK e : e = entry("DUPLICATE", {})
    OBVIOUS
  <2>2. e.kind = caller[c].kind /\ e.knew = caller[c].knew /\ e.outcome = "DUPLICATE" /\ e.row = row /\ e.left = {}
    BY <2>1
  <2>3. t = [s EXCEPT !.said = s.said \cup {e}]
    BY <1>1, <1>3, <2>1 DEF InvoiceRow
  <2>4. t.made = s.made /\ t.seen = s.seen /\ t.said = s.said \cup {e} /\ t = [made |-> t.made, seen |-> t.seen, said |-> t.said]
    BY <2>3
  <2>5. InvoicesFine(c, t)
    BY <1>3, <2>2, <2>4 DEF InvoicesFine
  <2> QED BY <1>1, <2>4, <2>5
<1>4. CASE ~(row.paid > row.total \/ who = {}) /\ row.number \notin s.seen
  <2>1. PICK e : e = entry("COMMITTED", new)
    OBVIOUS
  <2>2. e.kind = caller[c].kind /\ e.knew = caller[c].knew /\ e.outcome = "COMMITTED" /\ e.row = row /\ e.left = new
    BY <2>1
  <2>3. PICK p \in caller[c].knew : /\ who = {p} /\ Matches(caller[c].knew, row.name, AllowedFor(caller[c].kind)) = {p}
                                    /\ parties[p].name = row.name /\ parties[p].type \in AllowedFor(caller[c].kind)
    BY <1>4, OnlyMatch
  <2>5. PICK h : h = [kind |-> caller[c].kind, number |-> row.number, party |-> p, total |-> row.total, paid |-> row.paid]
    OBVIOUS
  <2>6. h.kind = caller[c].kind /\ h.number = row.number /\ h.party = p /\ h.total = row.total /\ h.paid = row.paid
    BY <2>5
  <2>4. new = {h}
    BY <2>3, <2>5
  <2>7. t = [seen |-> s.seen \cup {row.number}, said |-> s.said \cup {e}, made |-> s.made \cup {h}]
    <3>1. t = [seen |-> s.seen \cup {row.number}, said |-> s.said \cup {e}, made |-> s.made \cup new]
      BY <1>1, <1>4, <2>1 DEF InvoiceRow
    <3> QED BY <2>4, <3>1
  <2>8. /\ t.made = s.made \cup {h} /\ t.seen = s.seen \cup {row.number} /\ t.said = s.said \cup {e}
        /\ t = [made |-> t.made, seen |-> t.seen, said |-> t.said]
    BY <2>7
  <2>9. p \in Called(e) /\ \A q \in Called(e) \ {p} : parties[q].type \notin AllowedFor(e.kind)
    BY <2>2, <2>3 DEF Called, Matches
  <2>10. h.paid <= h.total
    BY <1>4, <2>6
  <2>11. \A x \in t.made : /\ x.kind = caller[c].kind /\ x.party \in caller[c].knew
                           /\ parties[x.party].type \in AllowedFor(x.kind) /\ x.paid <= x.total
    BY <2>3, <2>6, <2>8, <2>10 DEF InvoicesFine
  <2>12. caller[c].has \subseteq t.seen /\ \A n \in t.seen : n \in caller[c].has \/ \E x \in t.made : x.number = n
    BY <2>6, <2>8 DEF InvoicesFine
  <2>13. ASSUME NEW r \in t.said
         PROVE  /\ r.kind = caller[c].kind /\ r.knew = caller[c].knew
                /\ r.outcome \in {"COMMITTED", "DUPLICATE", "ERROR"} /\ (r.outcome # "COMMITTED" => r.left = {})
                /\ r.outcome = "COMMITTED" =>
                     \E x \in t.made : /\ r.left = {x} /\ x.number = r.row.number /\ x.party \in Called(r)
                                       /\ \A q \in Called(r) \ {x.party} : parties[q].type \notin AllowedFor(r.kind)
                /\ r.outcome = "DUPLICATE" => r.row.number \in t.seen
    <3>1. CASE r \in s.said
      BY <2>8, <3>1 DEF InvoicesFine
    <3>2. CASE r = e
      BY <2>2, <2>4, <2>6, <2>8, <2>9, <3>2
    <3> QED BY <2>8, <3>1, <3>2
  <2>14. InvoicesFine(c, t)
    BY <2>11, <2>12, <2>13 DEF InvoicesFine
  <2> QED BY <1>1, <2>8, <2>14
<1> QED BY <1>2, <1>3, <1>4

\* The recursion of InvoiceRows, as one function of the rows done.
AfterInvoices(c, s) ==
    CHOOSE f : f = [i \in 0..Len(caller[c].rows) |-> IF i = 0 THEN s ELSE InvoiceRow(c, f[i - 1], caller[c].rows[i])]

\* InvoiceRows is the last value of its recursion.
LEMMA InvoiceRowsIsLast == \A c, s : InvoiceRows(c, s) = AfterInvoices(c, s)[Len(caller[c].rows)]
BY DEF InvoiceRows, AfterInvoices

\* Some function satisfies it: by the number of rows.
LEMMA AfterInvoicesIs ==
    ASSUME NEW c, NEW s, Len(caller[c].rows) \in Nat
    PROVE  AfterInvoices(c, s)
             = [i \in 0..Len(caller[c].rows) |-> IF i = 0 THEN s ELSE InvoiceRow(c, AfterInvoices(c, s)[i - 1], caller[c].rows[i])]
<1> DEFINE Next1(x, i) == InvoiceRow(c, x, caller[c].rows[i])
<1> HIDE DEF Next1
<1> DEFINE Upto(n) == \E f : f = [i \in 0..n |-> IF i = 0 THEN s ELSE Next1(f[i - 1], i)]
           B == {n \in Nat : ~Upto(n)}
<1>1. B = {}
  <2> SUFFICES ASSUME B # {} PROVE FALSE
    OBVIOUS
  <2>1. PICK m \in B : \A n \in B : m <= n
    <3>1. B \subseteq Nat
      OBVIOUS
    <3> HIDE DEF B
    <3> QED BY <3>1, LeastNat
  <2>2. m # 0
    <3>1. PICK f : f = [i \in 0..0 |-> s]
      OBVIOUS
    <3>2. f = [i \in 0..0 |-> IF i = 0 THEN s ELSE Next1(f[i - 1], i)]
      BY <3>1
    <3>3. Upto(0)
      BY <3>2
    <3> QED BY <2>1, <3>3
  <2>3. m - 1 \in Nat /\ Upto(m - 1)
    <3>1. m - 1 \in Nat /\ ~(m <= m - 1)
      BY <2>1, <2>2
    <3>2. m - 1 \notin B
      BY <2>1, <3>1
    <3> HIDE DEF Upto
    <3> QED BY <3>1, <3>2
  <2>4. PICK f : f = [i \in 0..(m - 1) |-> IF i = 0 THEN s ELSE Next1(f[i - 1], i)]
    BY <2>3
  <2>5. PICK h : h = [i \in 0..m |-> IF i = 0 THEN s ELSE Next1(f[i - 1], i)]
    OBVIOUS
  <2>6. \A i \in 0..m : i # 0 => i - 1 \in 0..(m - 1) /\ i - 1 \in 0..m
    BY <2>1
  <2>7. \A i \in 0..(m - 1) : h[i] = f[i]
    BY <2>1, <2>2, <2>4, <2>5
  <2>8. \A i \in 0..m : i # 0 => h[i - 1] = f[i - 1]
    BY <2>6, <2>7
  <2>9. h = [i \in 0..m |-> IF i = 0 THEN s ELSE Next1(h[i - 1], i)]
    BY <2>5, <2>8
  <2> QED BY <2>1, <2>9
<1>2. Upto(Len(caller[c].rows))
  BY <1>1
<1>3. \E f : f = [i \in 0..Len(caller[c].rows) |-> IF i = 0 THEN s ELSE InvoiceRow(c, f[i - 1], caller[c].rows[i])]
  BY <1>2 DEF Next1
<1> QED BY <1>3 DEF AfterInvoices


\* A whole file.
LEMMA InvoiceRowsFine ==
    ASSUME NEW c, IsFiniteSet(caller[c].knew), NEW s, s = [made |-> s.made, seen |-> s.seen, said |-> s.said],
           InvoicesFine(c, s), NEW file \in InvoiceFiles, caller[c].rows = file.rows
    PROVE  InvoicesFine(c, InvoiceRows(c, s))
<1>1. PICK rows : rows = caller[c].rows
  OBVIOUS
<1>2. Len(rows) \in Nat /\ \A i \in 1..Len(rows) : rows[i].paid \in Int /\ rows[i].total \in Int
  <2>1. rows \in Seq(RowsOf(rows)) /\ \A row \in RowsOf(rows) : row.paid \in Int /\ row.total \in Int
    BY <1>1, LegacyAssumption
  <2>2. DOMAIN rows = 1..Len(rows) /\ Len(rows) \in Nat
    BY <2>1, LenProperties
  <2> QED BY <2>1, <2>2 DEF RowsOf
<1>3. PICK f : f = AfterInvoices(c, s)
  OBVIOUS
<1>4. f = [i \in 0..Len(rows) |-> IF i = 0 THEN s ELSE InvoiceRow(c, f[i - 1], rows[i])]
  BY <1>1, <1>2, <1>3, AfterInvoicesIs
<1> DEFINE Fine(t) == t = [made |-> t.made, seen |-> t.seen, said |-> t.said] /\ InvoicesFine(c, t)
           B == {i \in 0..Len(rows) : ~Fine(f[i])}
<1>5. \A t, i : Fine(t) /\ i \in 1..Len(rows) => Fine(InvoiceRow(c, t, rows[i]))
  BY <1>2, InvoiceRowFine
<1>6. Fine(s)
  OBVIOUS
<1> HIDE DEF Fine
<1>7. B = {}
  <2> SUFFICES ASSUME B # {} PROVE FALSE
    OBVIOUS
  <2>1. PICK m \in B : \A n \in B : m <= n
    <3>1. B \subseteq Nat
      BY <1>2
    <3> HIDE DEF B
    <3> QED BY <3>1, LeastNat
  <2>2. m \in 0..Len(rows) /\ ~Fine(f[m])
    OBVIOUS
  <2>3. m # 0
    BY <1>2, <1>4, <1>6, <2>2
  <2>4. m - 1 \in 0..Len(rows) /\ m \in 1..Len(rows) /\ ~(m <= m - 1)
    BY <1>2, <2>2, <2>3
  <2>5. m - 1 \notin B
    BY <2>1, <2>4
  <2>6. Fine(f[m - 1])
    BY <2>4, <2>5
  <2>7. f[m] = InvoiceRow(c, f[m - 1], rows[m])
    BY <1>4, <2>2, <2>3
  <2> QED BY <1>5, <2>2, <2>4, <2>6, <2>7
<1>8. Len(rows) \in 0..Len(rows)
  BY <1>2
<1>9. Fine(f[Len(rows)])
  BY <1>7, <1>8
<1> QED BY <1>1, <1>3, <1>9, InvoiceRowsIsLast DEF Fine


BalanceRows == UNION {RowsOf(file) : file \in BalanceFiles}
Opening == [party : Nat, side : Sides, amount : {row.amount : row \in BalanceRows}]

Extends(s, t) == DOMAIN s \subseteq DOMAIN t /\ \A i \in DOMAIN s : t[i] = s[i]

\* BroughtOverOnce and the types, of parties ps, journals os and invoices reg.
BooksSound(ps, os, reg, uns, mix) ==
    /\ ps \in Seq(PartyRec) /\ os \in Seq(Opening)
    /\ \A i \in DOMAIN os : os[i].party \in DOMAIN ps /\ Fits(os[i].side, ps[os[i].party].type)
    /\ \A i, j \in DOMAIN os : os[i].party = os[j].party => i = j \/ mix \/ os[i].party \in uns
    /\ \A h \in reg : /\ h.party \in DOMAIN ps /\ h.kind \in {"SALE", "PURCHASE"} /\ h.paid <= h.total
                      /\ ps[h.party].type \in AllowedFor(h.kind)
    /\ \A p, q \in DOMAIN ps : ps[p].phone = ps[q].phone => p = q \/ ps[p].phone = NoPhone
    /\ \A p, q \in DOMAIN ps : ps[p].file /\ ps[q].file /\ KeyOf(ps[p]) = KeyOf(ps[q]) => p = q \/ mix

\* SaidIsSo of one entry of a report.
Told(r, ps, os, reg, uns) ==
    LET who == {p \in r.knew : ps[p].name = r.row.name} IN
    /\ r.knew \subseteq DOMAIN ps /\ r.outcome \in {"COMMITTED", "DUPLICATE", "ERROR"}
    /\ r.kind = "OPENING" /\ r.outcome = "COMMITTED" =>
          \E i \in DOMAIN os : /\ r.left = {i} /\ who = {os[i].party} /\ os[i].amount = r.row.amount
                               /\ r.row.side \in {NoSide, os[i].side}
    /\ r.kind = "OPENING" /\ r.outcome = "DUPLICATE" => r.left = {} /\ \E i \in DOMAIN os : os[i].party \in who
    /\ r.kind = "OPENING" /\ r.outcome = "ERROR" => r.left \subseteq DOMAIN os /\ \A i \in r.left : os[i].party \in uns
    /\ r.kind # "OPENING" /\ r.outcome # "COMMITTED" => r.left = {}
    /\ r.kind # "OPENING" /\ r.outcome = "COMMITTED" =>
          \E h \in reg : /\ r.left = {h} /\ h.kind = r.kind /\ h.number = r.row.number /\ h.party \in who
                         /\ \A p \in who \ {h.party} : ps[p].type \notin AllowedFor(r.kind)
    /\ r.kind # "OPENING" /\ r.outcome = "DUPLICATE" => \E h \in reg : h.kind = r.kind /\ h.number = r.row.number

Shaped(x) == x = [doing |-> x.doing, rows |-> x.rows, at |-> x.at, kind |-> x.kind, knew |-> x.knew, has |-> x.has, said |-> x.said]

RowReport(x, s) == [kind |-> "OPENING", row |-> x.rows[s[1]], knew |-> x.knew, outcome |-> s[2], left |-> s[3]]

\* What an import has read is still there, and while imports of a kind do not overlap
\* it is all there is.
CallSound(x, ps, os, reg, uns, mix) ==
    /\ Shaped(x) /\ x.doing \in {"none", "parties", "balances", "invoices"}
    /\ x.doing = "parties" =>
         /\ x.rows \in PartyFiles
         /\ ~mix => \A p \in DOMAIN ps : ps[p].file => KeyOf(ps[p]) \in x.knew
    /\ x.doing = "balances" =>
         /\ x.rows \in BalanceFiles /\ x.at \in Nat /\ x.knew \subseteq DOMAIN ps
         /\ \A p \in x.has : \E i \in DOMAIN os : os[i].party = p
         /\ ~mix => \A i \in DOMAIN os : os[i].party \in x.has \cup uns
         /\ \A s \in x.said : s[1] \in DOMAIN x.rows /\ Told(RowReport(x, s), ps, os, reg, uns)
    /\ x.doing = "invoices" =>
         /\ \E file \in InvoiceFiles : x.rows = file.rows /\ x.kind = file.kind
         /\ x.knew \subseteq DOMAIN ps /\ \A n \in x.has : \E h \in reg : h.kind = x.kind /\ h.number = n

CallsSound ==
    /\ caller = [c \in Callers |-> caller[c]]
    /\ \A c \in Callers : CallSound(caller[c], parties, openings, register, unsure, mixed)

OneImport == ~mixed => \A c, d \in Callers : caller[c].doing = caller[d].doing /\ caller[c].doing # "none" => c = d

LegacyInv ==
    /\ BooksSound(parties, openings, register, unsure, mixed)
    /\ CallsSound /\ OneImport
    /\ \A r \in reported : Told(r, parties, openings, register, unsure)

\* Two parties have one key if type and name agree.
LEMMA KeysAre ==
    ASSUME NEW p, NEW q
    PROVE  KeyOf(p) = KeyOf(q) <=> p.type = q.type /\ p.name = q.name
BY DEF KeyOf

\* The invariant implies the property.
LEMMA LegacyInvHolds == LegacyInv => BroughtOver
<1> SUFFICES ASSUME LegacyInv PROVE BroughtOver
  OBVIOUS
<1>1. /\ BooksSound(parties, openings, register, unsure, mixed)
      /\ \A r \in reported : Told(r, parties, openings, register, unsure)
  BY DEF LegacyInv
<1>2. \A c \in Callers : caller[c].doing \in {"none", "parties", "balances", "invoices"}
  BY DEF LegacyInv, CallsSound, CallSound
<1>3. \A p \in PartyIds : parties[p] \in PartyRec /\ parties[p].type \in PartyTypes
  BY <1>1, PartyFields DEF BooksSound, PartyIds
<1>4. \A i \in DOMAIN openings : openings[i].side \in Sides
  <2>1. \A i \in DOMAIN openings : openings[i] \in Opening
    BY <1>1 DEF BooksSound
  <2> QED BY <2>1 DEF Opening
<1>5. LegacyTypeOK
  BY <1>1, <1>2, <1>3, <1>4 DEF LegacyTypeOK, BooksSound, PartyIds
<1>6. BroughtOverOnce
  <2>1. \A p, q \in PartyIds : parties[p].file /\ parties[q].file /\ parties[p].name = parties[q].name
            => p = q \/ parties[p].type # parties[q].type \/ mixed
    BY <1>1, KeysAre DEF BooksSound, PartyIds
  <2> QED BY <1>1, <2>1 DEF BroughtOverOnce, BooksSound, PartyIds
<1>7. SaidIsSo
  <2> SUFFICES ASSUME NEW r \in reported
               PROVE  LET who == {p \in r.knew : parties[p].name = r.row.name} IN
                      CASE r.kind = "OPENING" /\ r.outcome = "COMMITTED" ->
                              \E i \in DOMAIN openings : /\ r.left = {i} /\ who = {openings[i].party}
                                                         /\ openings[i].amount = r.row.amount
                                                         /\ r.row.side \in {NoSide, openings[i].side}
                        [] r.kind = "OPENING" /\ r.outcome = "DUPLICATE" -> r.left = {} /\ who \cap Opened # {}
                        [] r.kind = "OPENING" /\ r.outcome = "ERROR" -> \A i \in r.left : openings[i].party \in unsure
                        [] r.kind # "OPENING" /\ r.outcome = "COMMITTED" ->
                              \E h \in register : /\ r.left = {h} /\ h.kind = r.kind /\ h.number = r.row.number /\ h.party \in who
                                                  /\ \A p \in who \ {h.party} : parties[p].type \notin AllowedFor(r.kind)
                        [] r.kind # "OPENING" /\ r.outcome = "DUPLICATE" -> r.left = {} /\ r.row.number \in NumbersOf(r.kind)
                        [] OTHER -> r.left = {}
    BY DEF SaidIsSo
  <2>1. Told(r, parties, openings, register, unsure)
    BY <1>1
  <2> QED BY <2>1 DEF Told, Opened, NumbersOf
<1> QED BY <1>5, <1>6, <1>7 DEF BroughtOver

\* What was said stays so: nothing is taken back.
LEMMA ToldStays ==
    ASSUME NEW r, NEW ps, NEW os, NEW reg, NEW uns, Told(r, ps, os, reg, uns),
           NEW ps2, Extends(ps, ps2), NEW os2, Extends(os, os2), NEW reg2, reg \subseteq reg2, NEW uns2, uns \subseteq uns2
    PROVE  Told(r, ps2, os2, reg2, uns2)
<1> DEFINE who == {p \in r.knew : ps[p].name = r.row.name}
           who2 == {p \in r.knew : ps2[p].name = r.row.name}
<1>1. r.knew \subseteq DOMAIN ps /\ \A p \in r.knew : ps2[p] = ps[p] /\ p \in DOMAIN ps2
  BY DEF Told, Extends
<1>2. who2 = who
  BY <1>1
<1>3. \A i \in DOMAIN os : i \in DOMAIN os2 /\ os2[i] = os[i]
  BY DEF Extends
<1>4. ASSUME r.kind = "OPENING", r.outcome = "COMMITTED"
      PROVE  \E i \in DOMAIN os2 : /\ r.left = {i} /\ who2 = {os2[i].party} /\ os2[i].amount = r.row.amount
                                   /\ r.row.side \in {NoSide, os2[i].side}
  <2>1. PICK i \in DOMAIN os : /\ r.left = {i} /\ who = {os[i].party} /\ os[i].amount = r.row.amount
                               /\ r.row.side \in {NoSide, os[i].side}
    BY <1>4 DEF Told
  <2> QED BY <1>2, <1>3, <2>1
<1>5. ASSUME r.kind = "OPENING", r.outcome = "DUPLICATE" PROVE r.left = {} /\ \E i \in DOMAIN os2 : os2[i].party \in who2
  BY <1>2, <1>3, <1>5 DEF Told
<1>6. ASSUME r.kind # "OPENING", r.outcome = "COMMITTED"
      PROVE  \E h \in reg2 : /\ r.left = {h} /\ h.kind = r.kind /\ h.number = r.row.number /\ h.party \in who2
                             /\ \A p \in who2 \ {h.party} : ps2[p].type \notin AllowedFor(r.kind)
  <2>1. PICK h \in reg : /\ r.left = {h} /\ h.kind = r.kind /\ h.number = r.row.number /\ h.party \in who
                         /\ \A p \in who \ {h.party} : ps[p].type \notin AllowedFor(r.kind)
    BY <1>6 DEF Told
  <2>2. \A p \in who : ps2[p] = ps[p]
    BY <1>1
  <2> QED BY <1>2, <2>1, <2>2
<1>7. ASSUME r.kind # "OPENING", r.outcome = "DUPLICATE" PROVE \E h \in reg2 : h.kind = r.kind /\ h.number = r.row.number
  BY <1>7 DEF Told
<1>8. r.knew \subseteq DOMAIN ps2 /\ r.outcome \in {"COMMITTED", "DUPLICATE", "ERROR"}
  BY <1>1 DEF Told
<1>9. ASSUME r.kind = "OPENING", r.outcome = "ERROR"
      PROVE  r.left \subseteq DOMAIN os2 /\ \A i \in r.left : os2[i].party \in uns2
  <2>1. r.left \subseteq DOMAIN os /\ \A i \in r.left : os[i].party \in uns
    BY <1>9 DEF Told
  <2> QED BY <1>3, <2>1
<1>10. r.kind # "OPENING" /\ r.outcome # "COMMITTED" => r.left = {}
  BY DEF Told
<1> QED BY <1>4, <1>5, <1>6, <1>7, <1>8, <1>9, <1>10 DEF Told

\* What an import has read stays so while others add.
LEMMA CallStays ==
    ASSUME NEW x, NEW ps, NEW os, NEW reg, NEW uns, NEW mix, CallSound(x, ps, os, reg, uns, mix),
           NEW ps2, Extends(ps, ps2), NEW os2, Extends(os, os2), NEW reg2, reg \subseteq reg2,
           NEW uns2, uns \subseteq uns2, NEW mix2, mix => mix2,
           x.doing = "parties" /\ ~mix2 => \A p \in DOMAIN ps2 : p \in DOMAIN ps \/ ~ps2[p].file,
           x.doing = "balances" /\ ~mix2 => \A i \in DOMAIN os2 : i \in DOMAIN os \/ os2[i].party \in uns2
    PROVE  CallSound(x, ps2, os2, reg2, uns2, mix2)
<1>1. Shaped(x) /\ x.doing \in {"none", "parties", "balances", "invoices"}
  BY DEF CallSound
<1>2. ASSUME x.doing = "parties"
      PROVE  x.rows \in PartyFiles /\ (~mix2 => \A p \in DOMAIN ps2 : ps2[p].file => KeyOf(ps2[p]) \in x.knew)
  BY <1>2 DEF CallSound, Extends
<1>3. ASSUME x.doing = "balances"
      PROVE  /\ x.rows \in BalanceFiles /\ x.at \in Nat /\ x.knew \subseteq DOMAIN ps2
             /\ \A p \in x.has : \E i \in DOMAIN os2 : os2[i].party = p
             /\ ~mix2 => \A i \in DOMAIN os2 : os2[i].party \in x.has \cup uns2
             /\ \A s \in x.said : s[1] \in DOMAIN x.rows /\ Told(RowReport(x, s), ps2, os2, reg2, uns2)
  <2>1. x.rows \in BalanceFiles /\ x.at \in Nat /\ x.knew \subseteq DOMAIN ps2
    BY <1>3 DEF CallSound, Extends
  <2>2. \A p \in x.has : \E i \in DOMAIN os2 : os2[i].party = p
    BY <1>3 DEF CallSound, Extends
  <2>3. ~mix2 => \A i \in DOMAIN os2 : os2[i].party \in x.has \cup uns2
    BY <1>3 DEF CallSound, Extends
  <2>4. \A s \in x.said : s[1] \in DOMAIN x.rows /\ Told(RowReport(x, s), ps, os, reg, uns)
    BY <1>3 DEF CallSound
  <2>5. \A s \in x.said : s[1] \in DOMAIN x.rows /\ Told(RowReport(x, s), ps2, os2, reg2, uns2)
    BY <2>4, ToldStays
  <2> QED BY <2>1, <2>2, <2>3, <2>5
<1>4. ASSUME x.doing = "invoices"
      PROVE  /\ \E file \in InvoiceFiles : x.rows = file.rows /\ x.kind = file.kind
             /\ x.knew \subseteq DOMAIN ps2 /\ \A n \in x.has : \E h \in reg2 : h.kind = x.kind /\ h.number = n
  BY <1>4 DEF CallSound, Extends
<1> QED BY <1>1, <1>2, <1>3, <1>4 DEF CallSound

\* A step of one request: what the others have read stays.
LEMMA LegacyStepInv ==
    ASSUME LegacyInv, NEW c \in Callers, NEW x, caller' = [caller EXCEPT ![c] = x],
           BooksSound(parties', openings', register', unsure', mixed'),
           CallSound(x, parties', openings', register', unsure', mixed'),
           Extends(parties, parties'), Extends(openings, openings'), register \subseteq register',
           unsure \subseteq unsure', mixed => mixed',
           ~mixed' /\ x.doing # "none" => \A d \in Callers : d # c => caller[d].doing # x.doing,
           (\A p \in DOMAIN parties' : p \in DOMAIN parties \/ ~parties'[p].file) \/ caller[c].doing = "parties",
           (\A i \in DOMAIN openings' : i \in DOMAIN openings \/ openings'[i].party \in unsure') \/ caller[c].doing = "balances",
           \A r \in reported' : r \in reported \/ Told(r, parties', openings', register', unsure')
    PROVE  LegacyInv'
<1>1. /\ caller' = [d \in Callers |-> caller'[d]] /\ caller'[c] = x
      /\ \A d \in Callers : d # c => caller'[d] = caller[d]
  BY DEF LegacyInv, CallsSound
<1>2. ASSUME NEW d \in Callers, d # c
      PROVE  CallSound(caller[d], parties', openings', register', unsure', mixed')
  <2>1. PICK y : y = caller[d]
    OBVIOUS
  <2>2. CallSound(y, parties, openings, register, unsure, mixed)
    BY <2>1 DEF LegacyInv, CallsSound
  <2>3. y.doing = "parties" /\ ~mixed' => \A p \in DOMAIN parties' : p \in DOMAIN parties \/ ~parties'[p].file
    BY <1>2, <2>1 DEF LegacyInv, OneImport
  <2>4. y.doing = "balances" /\ ~mixed' => \A i \in DOMAIN openings' : i \in DOMAIN openings \/ openings'[i].party \in unsure'
    BY <1>2, <2>1 DEF LegacyInv, OneImport
  <2>5. PICK ps2, os2, reg2, uns2, mix2 : ps2 = parties' /\ os2 = openings' /\ reg2 = register' /\ uns2 = unsure' /\ mix2 = mixed'
    OBVIOUS
  <2>6. CallSound(y, ps2, os2, reg2, uns2, mix2)
    BY <2>2, <2>3, <2>4, <2>5, CallStays
  <2> QED BY <2>1, <2>5, <2>6
<1>3. CallsSound'
  BY <1>1, <1>2 DEF CallsSound
<1>4. OneImport'
  BY <1>1 DEF OneImport, LegacyInv
<1>5. ASSUME NEW r \in reported' PROVE Told(r, parties', openings', register', unsure')
  <2>1. CASE r \in reported
    <3>1. Told(r, parties, openings, register, unsure)
      BY <2>1 DEF LegacyInv
    <3>2. PICK ps2, os2, reg2 : ps2 = parties' /\ os2 = openings' /\ reg2 = register'
      OBVIOUS
    <3> QED BY <3>1, <3>2, ToldStays
  <2> QED BY <2>1
<1> QED BY <1>3, <1>4, <1>5 DEF LegacyInv


\* Nothing is brought over yet.
LEMMA LegacyStart == LegacyInit => LegacyInv
<1> SUFFICES ASSUME LegacyInit PROVE LegacyInv
  OBVIOUS
<1>1. /\ parties = <<>> /\ openings = <<>> /\ register = {} /\ reported = {}
      /\ <<>> \in Seq(PartyRec) /\ <<>> \in Seq(Opening) /\ DOMAIN parties = {} /\ DOMAIN openings = {}
  BY DEF LegacyInit
<1>2. BooksSound(parties, openings, register, unsure, mixed)
  BY <1>1 DEF BooksSound
<1>3. caller = [c \in Callers |-> Waiting] /\ Shaped(Waiting) /\ Waiting.doing = "none"
  BY DEF LegacyInit, Waiting, Shaped
<1>4. CallSound(Waiting, parties, openings, register, unsure, mixed)
  BY <1>3 DEF CallSound
<1>5. CallsSound /\ OneImport
  BY <1>3, <1>4 DEF CallsSound, OneImport
<1> QED BY <1>1, <1>2, <1>5 DEF LegacyInv

\* What the parts of the books are, and that a request that ends is sound.
LEMMA LegacyParts ==
    ASSUME LegacyInv
    PROVE  /\ parties \in Seq(PartyRec) /\ openings \in Seq(Opening)
           /\ PartyIds = 1..Len(parties) /\ Len(parties) \in Nat /\ IsFiniteSet(PartyIds)
           /\ DOMAIN openings = 1..Len(openings) /\ Len(openings) \in Nat
           /\ \A p \in PartyIds : parties[p] \in PartyRec /\ parties[p].type \in PartyTypes /\ p \in Nat
           /\ Waiting.doing = "none" /\ \A ps, os, reg, uns, mix : CallSound(Waiting, ps, os, reg, uns, mix)
           /\ caller = [c \in Callers |-> caller[c]]
           /\ \A c \in Callers : CallSound(caller[c], parties, openings, register, unsure, mixed)
<1>1. parties \in Seq(PartyRec) /\ openings \in Seq(Opening)
  BY DEF LegacyInv, BooksSound
<1>2. PartyIds = 1..Len(parties) /\ Len(parties) \in Nat /\ DOMAIN openings = 1..Len(openings) /\ Len(openings) \in Nat
  BY <1>1, LenProperties DEF PartyIds
<1>3. IsFiniteSet(PartyIds)
  BY <1>2, FS_Interval
<1>4. \A p \in PartyIds : parties[p] \in PartyRec /\ p \in Nat
  BY <1>1, <1>2 DEF PartyIds
<1>5. \A p \in PartyIds : parties[p].type \in PartyTypes
  BY <1>4, PartyFields
<1>6. Waiting.doing = "none" /\ Shaped(Waiting)
  BY DEF Waiting, Shaped
<1>7. \A ps, os, reg, uns, mix : CallSound(Waiting, ps, os, reg, uns, mix)
  BY <1>6 DEF CallSound
<1>8. caller = [c \in Callers |-> caller[c]] /\ \A c \in Callers : CallSound(caller[c], parties, openings, register, unsure, mixed)
  BY DEF LegacyInv, CallsSound
<1> QED BY <1>1, <1>2, <1>3, <1>4, <1>5, <1>6, <1>7, <1>8

\* Parties are added to parties.
LEMMA PartiesAdded ==
    ASSUME NEW ps, NEW os, NEW reg, NEW uns, NEW mix, BooksSound(ps, os, reg, uns, mix),
           NEW ps2 \in Seq(PartyRec), Extends(ps, ps2),
           \A p, q \in DOMAIN ps2 : ps2[p].phone = ps2[q].phone => p = q \/ ps2[p].phone = NoPhone,
           \A p, q \in DOMAIN ps2 : ps2[p].file /\ ps2[q].file /\ KeyOf(ps2[p]) = KeyOf(ps2[q]) => p = q \/ mix
    PROVE  BooksSound(ps2, os, reg, uns, mix)
BY DEF BooksSound, Extends

\* A journal is added to the openings.
LEMMA OpeningAdded ==
    ASSUME NEW ps, NEW os, NEW reg, NEW uns, NEW mix, BooksSound(ps, os, reg, uns, mix),
           NEW o \in Opening, o.party \in DOMAIN ps, Fits(o.side, ps[o.party].type),
           NEW uns2, uns \subseteq uns2,
           \A i \in DOMAIN os : os[i].party = o.party => mix \/ o.party \in uns2
    PROVE  BooksSound(ps, Append(os, o), reg, uns2, mix) /\ Extends(os, Append(os, o))
<1>1. PICK os2, n : os2 = Append(os, o) /\ n = Len(os) + 1
  OBVIOUS
<1>2. os \in Seq(Opening)
  BY DEF BooksSound
<1>3. /\ os2 \in Seq(Opening) /\ DOMAIN os2 = DOMAIN os \cup {n} /\ n \notin DOMAIN os
      /\ \A j \in DOMAIN os : os2[j] = os[j]
      /\ os2[n] = o
  BY <1>1, <1>2, AddAtEnd
<1>4. Extends(os, os2)
  BY <1>3 DEF Extends
<1>5. \A i \in DOMAIN os2 : os2[i].party \in DOMAIN ps /\ Fits(os2[i].side, ps[os2[i].party].type)
  <2> SUFFICES ASSUME NEW i \in DOMAIN os2 PROVE os2[i].party \in DOMAIN ps /\ Fits(os2[i].side, ps[os2[i].party].type)
    OBVIOUS
  <2>1. CASE i \in DOMAIN os
    BY <1>3, <2>1 DEF BooksSound
  <2>2. CASE i = n
    BY <1>3, <2>2
  <2> QED BY <1>3, <2>1, <2>2
<1>6. ASSUME NEW i \in DOMAIN os2, NEW j \in DOMAIN os2, os2[i].party = os2[j].party
      PROVE  i = j \/ mix \/ os2[i].party \in uns2
  <2>1. CASE i \in DOMAIN os /\ j \in DOMAIN os
    BY <1>3, <1>6, <2>1 DEF BooksSound
  <2>2. CASE i = n /\ j \in DOMAIN os
    BY <1>3, <1>6, <2>2
  <2>3. CASE i \in DOMAIN os /\ j = n
    BY <1>3, <1>6, <2>3
  <2>4. CASE i = n /\ j = n
    BY <2>4
  <2> QED BY <1>3, <2>1, <2>2, <2>3, <2>4
<1>7. BooksSound(ps, os2, reg, uns2, mix)
  BY <1>3, <1>5, <1>6 DEF BooksSound
<1> QED BY <1>1, <1>4, <1>7

\* An import begins: what it reads is what there is.
LEMMA BeginInv ==
    ASSUME LegacyInv, NEW c \in Callers, NEW what \in {"parties", "balances", "invoices"}, NEW first, Begin(c, what, first),
           first.doing = what, CallSound(first, parties, openings, register, unsure, mixed),
           UNCHANGED <<parties, openings, register, unsure, reported>>
    PROVE  LegacyInv'
<1>1. caller' = [caller EXCEPT ![c] = first] /\ mixed' = (mixed \/ \E d \in Callers : caller[d].doing = what)
  BY DEF Begin
<1>2. PICK ps, os, reg, uns, mix, mix2 :
        /\ ps = parties /\ os = openings /\ reg = register /\ uns = unsure /\ mix = mixed /\ mix2 = mixed'
        /\ ps = parties' /\ os = openings' /\ reg = register' /\ uns = unsure'
  OBVIOUS
<1>3. mix => mix2
  BY <1>1, <1>2
<1>4. Extends(ps, ps) /\ Extends(os, os)
  BY DEF Extends
<1>5. CallSound(first, ps, os, reg, uns, mix2)
  BY <1>2, <1>3, <1>4, CallStays
<1>6. BooksSound(ps, os, reg, uns, mix2)
  BY <1>2, <1>3 DEF BooksSound, LegacyInv
<1>7. ~mixed' => \A d \in Callers : d # c => caller[d].doing # first.doing
  BY <1>1
<1> QED BY <1>1, <1>2, <1>3, <1>4, <1>5, <1>6, <1>7, LegacyStepInv

LEMMA ImportPartiesInv == \A c \in Callers, file \in PartyFiles : LegacyInv /\ ImportParties(c, file) => LegacyInv'
<1> SUFFICES ASSUME NEW c \in Callers, NEW file \in PartyFiles, LegacyInv, ImportParties(c, file) PROVE LegacyInv'
  OBVIOUS
<1>1. PICK x : x = [Waiting EXCEPT !.doing = "parties", !.rows = file,
                                   !.knew = {<<parties[p].type, parties[p].name>> : p \in PartyIds},
                                   !.has = PhonesOf(parties)]
  OBVIOUS
<1>2. x.doing = "parties" /\ x.rows = file /\ Shaped(x) /\ x.knew = {<<parties[p].type, parties[p].name>> : p \in PartyIds}
  BY <1>1 DEF Waiting, Shaped
<1>3. \A p \in DOMAIN parties : KeyOf(parties[p]) \in x.knew
  BY <1>2 DEF KeyOf, PartyIds
<1>4. CallSound(x, parties, openings, register, unsure, mixed)
  BY <1>2, <1>3 DEF CallSound
<1>5. Begin(c, "parties", x) /\ UNCHANGED <<parties, openings, register, unsure, reported>>
  BY <1>1 DEF ImportParties, BooksKept, SaidKept
<1> QED BY <1>2, <1>4, <1>5, BeginInv

LEMMA ImportOpeningBalancesInv == \A c \in Callers, file \in BalanceFiles : LegacyInv /\ ImportOpeningBalances(c, file) => LegacyInv'
<1> SUFFICES ASSUME NEW c \in Callers, NEW file \in BalanceFiles, LegacyInv, ImportOpeningBalances(c, file) PROVE LegacyInv'
  OBVIOUS
<1>1. PICK x : x = [Waiting EXCEPT !.doing = "balances", !.rows = file, !.at = 1, !.knew = PartyIds, !.has = Opened]
  OBVIOUS
<1>2. x.doing = "balances" /\ x.rows = file /\ x.at = 1 /\ Shaped(x) /\ x.knew = PartyIds /\ x.has = Opened /\ x.said = {}
  BY <1>1 DEF Waiting, Shaped
<1>3. CallSound(x, parties, openings, register, unsure, mixed)
  BY <1>2 DEF CallSound, Opened, PartyIds
<1>4. Begin(c, "balances", x) /\ UNCHANGED <<parties, openings, register, unsure, reported>>
  BY <1>1 DEF ImportOpeningBalances, BooksKept, SaidKept
<1> QED BY <1>2, <1>3, <1>4, BeginInv

LEMMA ImportHistoricalInvoicesInv ==
    \A c \in Callers, file \in InvoiceFiles : LegacyInv /\ ImportHistoricalInvoices(c, file) => LegacyInv'
<1> SUFFICES ASSUME NEW c \in Callers, NEW file \in InvoiceFiles, LegacyInv, ImportHistoricalInvoices(c, file) PROVE LegacyInv'
  OBVIOUS
<1>1. PICK x : x = [Waiting EXCEPT !.doing = "invoices", !.rows = file.rows, !.kind = file.kind,
                                   !.knew = PartyIds, !.has = NumbersOf(file.kind)]
  OBVIOUS
<1>2. /\ x.doing = "invoices" /\ x.rows = file.rows /\ x.kind = file.kind /\ Shaped(x)
      /\ x.knew = PartyIds /\ x.has = NumbersOf(x.kind)
  BY <1>1 DEF Waiting, Shaped
<1>3. \A n \in x.has : \E h \in register : h.kind = x.kind /\ h.number = n
  BY <1>2 DEF NumbersOf
<1>4. CallSound(x, parties, openings, register, unsure, mixed)
  BY <1>2, <1>3 DEF CallSound, PartyIds
<1>5. Begin(c, "invoices", x) /\ UNCHANGED <<parties, openings, register, unsure, reported>>
  BY <1>1 DEF ImportHistoricalInvoices, BooksKept, SaidKept
<1> QED BY <1>2, <1>4, <1>5, BeginInv

\* A request ends, or is carried on, and the books are as they were.
LEMMA OnlyCallInv ==
    ASSUME LegacyInv, NEW c \in Callers, NEW x, caller' = [caller EXCEPT ![c] = x],
           CallSound(x, parties, openings, register, unsure, mixed), x.doing \in {"none", caller[c].doing},
           UNCHANGED <<parties, openings, register, unsure, mixed>>,
           \A r \in reported' : r \in reported \/ Told(r, parties, openings, register, unsure)
    PROVE  LegacyInv'
<1>1. PICK ps, os, reg, uns, mix :
        /\ ps = parties /\ os = openings /\ reg = register /\ uns = unsure /\ mix = mixed
        /\ ps = parties' /\ os = openings' /\ reg = register' /\ uns = unsure' /\ mix = mixed'
  OBVIOUS
<1>2. Extends(ps, ps) /\ Extends(os, os)
  BY DEF Extends
<1>3. BooksSound(ps, os, reg, uns, mix)
  BY <1>1 DEF LegacyInv
<1>4. ~mixed' /\ x.doing # "none" => \A d \in Callers : d # c => caller[d].doing # x.doing
  BY <1>1 DEF LegacyInv, OneImport
<1>5. CallSound(x, ps, os, reg, uns, mix) /\ \A r \in reported' : r \in reported \/ Told(r, ps, os, reg, uns)
  BY <1>1
<1>6. (\A p \in DOMAIN ps : p \in DOMAIN ps \/ ~ps[p].file) /\ (\A i \in DOMAIN os : i \in DOMAIN os \/ os[i].party \in uns)
  OBVIOUS
<1> QED BY <1>1, <1>2, <1>3, <1>4, <1>5, <1>6, LegacyStepInv

LEMMA StopImportInv == \A c \in Callers : LegacyInv /\ StopImport(c) => LegacyInv'
<1> SUFFICES ASSUME NEW c \in Callers, LegacyInv, StopImport(c) PROVE LegacyInv'
  OBVIOUS
<1>1. caller' = [caller EXCEPT ![c] = Waiting] /\ UNCHANGED <<parties, openings, register, unsure, mixed, reported>>
  BY DEF StopImport, BooksKept
<1>2. Waiting.doing = "none" /\ CallSound(Waiting, parties, openings, register, unsure, mixed)
  BY LegacyParts
<1> QED BY <1>1, <1>2, OnlyCallInv

LEMMA ReportBalancesInv == \A c \in Callers : LegacyInv /\ ReportBalances(c) => LegacyInv'
<1> SUFFICES ASSUME NEW c \in Callers, LegacyInv, ReportBalances(c) PROVE LegacyInv'
  OBVIOUS
<1>1. /\ caller' = [caller EXCEPT ![c] = Waiting] /\ UNCHANGED <<parties, openings, register, unsure, mixed>>
      /\ caller[c].doing = "balances"
      /\ reported' = reported \cup {RowReport(caller[c], s) : s \in caller[c].said}
  BY DEF ReportBalances, BooksKept, RowReport
<1>2. Waiting.doing = "none" /\ CallSound(Waiting, parties, openings, register, unsure, mixed)
  BY LegacyParts
<1>3. CallSound(caller[c], parties, openings, register, unsure, mixed)
  BY LegacyParts
<1>4. \A s \in caller[c].said : Told(RowReport(caller[c], s), parties, openings, register, unsure)
  BY <1>1, <1>3 DEF CallSound
<1>5. \A r \in reported' : r \in reported \/ Told(r, parties, openings, register, unsure)
  BY <1>1, <1>4
<1> QED BY <1>1, <1>2, <1>5, OnlyCallInv

\* What no request does.
LEMMA LegacySettingsInv == LegacyInv /\ (EnsureDefaultChartOfAccounts \/ SetOpeningPeriodLock) => LegacyInv'
<1> SUFFICES ASSUME LegacyInv, EnsureDefaultChartOfAccounts \/ SetOpeningPeriodLock PROVE LegacyInv'
  OBVIOUS
<1>1. UNCHANGED <<parties, openings, register, caller, mixed, reported, unsure>>
  BY DEF EnsureDefaultChartOfAccounts, SetOpeningPeriodLock, SaidKept
<1> QED BY <1>1 DEF LegacyInv, CallsSound, OneImport


LEMMA CreatePartyInv == \A new \in NewParties : LegacyInv /\ CreateParty(new) => LegacyInv'
<1> SUFFICES ASSUME NEW new \in NewParties, LegacyInv, CreateParty(new) PROVE LegacyInv'
  OBVIOUS
<1>1. PICK e, n : e = NewcomerOf(new, FALSE) /\ n = Len(parties) + 1
  OBVIOUS
<1>2. e \in PartyRec /\ e.phone = new.phone /\ e.file = FALSE
  BY <1>1 DEF PartyRec, NewcomerOf
<1>3. PICK ps2 : ps2 = Append(parties, e)
  OBVIOUS
<1>4. /\ parties' = ps2 /\ new.phone \notin PhonesOf(parties)
      /\ UNCHANGED <<openings, register, caller, mixed, reported, unsure>>
  BY <1>1, <1>3 DEF CreateParty, BooksKept, SaidKept, NewcomerOf
<1>5. /\ ps2 \in Seq(PartyRec) /\ DOMAIN ps2 = DOMAIN parties \cup {n} /\ n \notin DOMAIN parties
      /\ \A j \in DOMAIN parties : ps2[j] = parties[j]
      /\ ps2[n] = e
  <2>1. parties \in Seq(PartyRec)
    BY LegacyParts
  <2>2. PICK m : m = parties
    OBVIOUS
  <2>3. /\ Append(m, e) \in Seq(PartyRec)
        /\ DOMAIN Append(m, e) = DOMAIN m \cup {Len(m) + 1} /\ Len(m) + 1 \notin DOMAIN m
        /\ \A j \in DOMAIN m : Append(m, e)[j] = m[j]
        /\ Append(m, e)[Len(m) + 1] = e
    BY <1>2, <2>1, <2>2, AddAtEnd
  <2>4. ps2 = Append(m, e) /\ n = Len(m) + 1
    BY <1>1, <1>3, <2>2
  <2> QED BY <2>2, <2>3, <2>4
<1>6. BooksSound(parties, openings, register, unsure, mixed)
  BY DEF LegacyInv
<1>7. Extends(parties, ps2)
  BY <1>5 DEF Extends
<1>8. \A p \in DOMAIN parties : parties[p].phone = e.phone => e.phone = NoPhone
  BY <1>2, <1>4 DEF PhonesOf
<1>9. ASSUME NEW p \in DOMAIN ps2, NEW q \in DOMAIN ps2, ps2[p].phone = ps2[q].phone PROVE p = q \/ ps2[p].phone = NoPhone
  <2>1. CASE p \in DOMAIN parties /\ q \in DOMAIN parties
    BY <1>5, <1>6, <1>9, <2>1 DEF BooksSound
  <2>2. CASE p = n \/ q = n
    BY <1>5, <1>8, <1>9, <2>2
  <2> QED BY <1>5, <2>1, <2>2
<1>10. ASSUME NEW p \in DOMAIN ps2, NEW q \in DOMAIN ps2, ps2[p].file, ps2[q].file, KeyOf(ps2[p]) = KeyOf(ps2[q]) PROVE p = q \/ mixed
  <2>1. p \in DOMAIN parties /\ q \in DOMAIN parties
    BY <1>2, <1>5, <1>10
  <2> QED BY <1>5, <1>6, <1>10, <2>1 DEF BooksSound
<1>11. BooksSound(ps2, openings, register, unsure, mixed)
  BY <1>5, <1>6, <1>7, <1>9, <1>10, PartiesAdded
<1>12. Extends(openings, openings)
  BY DEF Extends
<1>13. \A p \in DOMAIN ps2 : p \in DOMAIN parties \/ ~ps2[p].file
  BY <1>2, <1>5
<1>14. \A c \in Callers : CallSound(caller[c], ps2, openings, register, unsure, mixed)
  <2> SUFFICES ASSUME NEW c \in Callers PROVE CallSound(caller[c], ps2, openings, register, unsure, mixed)
    OBVIOUS
  <2>1. PICK x : x = caller[c]
    OBVIOUS
  <2>2. CallSound(x, parties, openings, register, unsure, mixed)
    BY <2>1 DEF LegacyInv, CallsSound
  <2>3. \A i \in DOMAIN openings : i \in DOMAIN openings \/ openings[i].party \in unsure
    OBVIOUS
  <2> QED BY <1>7, <1>12, <1>13, <2>1, <2>2, <2>3, CallStays
<1>15. \A r \in reported : Told(r, ps2, openings, register, unsure)
  BY <1>7, <1>12, ToldStays DEF LegacyInv
<1> QED BY <1>4, <1>11, <1>14, <1>15 DEF LegacyInv, CallsSound, OneImport

\* One sequence after another.
LEMMA Joined ==
    ASSUME NEW S, NEW s \in Seq(S), NEW t \in Seq(S)
    PROVE  /\ s \o t \in Seq(S) /\ Extends(s, s \o t)
           /\ \A p \in DOMAIN (s \o t) : p \in DOMAIN s \/ (p - Len(s) \in DOMAIN t /\ (s \o t)[p] = t[p - Len(s)] /\ p \in Int)
           /\ Len(s) \in Nat
<1>1. PICK u, m, n : u = s \o t /\ m = Len(s) /\ n = Len(t)
  OBVIOUS
<1>2. m \in Nat /\ n \in Nat /\ DOMAIN s = 1..m /\ DOMAIN t = 1..n
  BY <1>1, LenProperties
<1>3. u \in Seq(S) /\ Len(u) = m + n /\ \A i \in 1..(m + n) : u[i] = IF i <= m THEN s[i] ELSE t[i - m]
  BY <1>1, ConcatProperties
<1>4. DOMAIN u = 1..(m + n)
  BY <1>3, LenProperties
<1>5. Extends(s, u)
  BY <1>2, <1>3, <1>4 DEF Extends
<1>6. \A p \in DOMAIN u : p \in DOMAIN s \/ (p - m \in DOMAIN t /\ u[p] = t[p - m] /\ p \in Int)
  BY <1>2, <1>3, <1>4
<1> QED BY <1>1, <1>2, <1>3, <1>5, <1>6

\* The parties made of a file come after those there are.
LEMMA FileAdded ==
    ASSUME NEW ps, NEW os, NEW reg, NEW uns, NEW mix, BooksSound(ps, os, reg, uns, mix),
           NEW end, NEW known, PartiesFine(end, known), PhonesOf(end.made) \cap PhonesOf(ps) = {},
           ~mix => \A p \in DOMAIN ps : ps[p].file => KeyOf(ps[p]) \in known
    PROVE  BooksSound(ps \o end.made, os, reg, uns, mix) /\ Extends(ps, ps \o end.made)
<1>1. PICK made, ps2, n : made = end.made /\ ps2 = ps \o end.made /\ n = Len(ps)
  OBVIOUS
<1>2. /\ ps \in Seq(PartyRec) /\ made \in Seq(PartyRec)
      /\ \A k \in DOMAIN made : KeyOf(made[k]) \notin known
      /\ \A k, l \in DOMAIN made : KeyOf(made[k]) = KeyOf(made[l]) => k = l
      /\ \A k, l \in DOMAIN made : made[k].phone = made[l].phone => k = l \/ made[k].phone = NoPhone
  BY <1>1 DEF BooksSound, PartiesFine
<1>3. /\ ps2 \in Seq(PartyRec) /\ Extends(ps, ps2) /\ n \in Nat
      /\ \A p \in DOMAIN ps2 : p \in DOMAIN ps \/ (p - n \in DOMAIN made /\ ps2[p] = made[p - n] /\ p \in Int)
  BY <1>1, <1>2, Joined
<1>4. \A p \in DOMAIN ps : p \in DOMAIN ps2 /\ ps2[p] = ps[p]
  BY <1>3 DEF Extends
<1>5. \A p \in DOMAIN ps, k \in DOMAIN made : ps[p].phone = made[k].phone => ps[p].phone = NoPhone
  BY <1>1 DEF PhonesOf
<1>6. ASSUME NEW p \in DOMAIN ps2, NEW q \in DOMAIN ps2, ps2[p].phone = ps2[q].phone PROVE p = q \/ ps2[p].phone = NoPhone
  <2>1. CASE p \in DOMAIN ps /\ q \in DOMAIN ps
    BY <1>4, <1>6, <2>1 DEF BooksSound
  <2>2. CASE p \in DOMAIN ps /\ q \notin DOMAIN ps
    BY <1>3, <1>4, <1>5, <1>6, <2>2
  <2>3. CASE p \notin DOMAIN ps /\ q \in DOMAIN ps
    BY <1>3, <1>4, <1>5, <1>6, <2>3
  <2>4. CASE p \notin DOMAIN ps /\ q \notin DOMAIN ps
    <3>1. p - n = q - n \/ made[p - n].phone = NoPhone
      BY <1>2, <1>3, <1>6, <2>4
    <3> QED BY <1>3, <2>4, <3>1
  <2> QED BY <2>1, <2>2, <2>3, <2>4
<1>7. ASSUME NEW p \in DOMAIN ps2, NEW q \in DOMAIN ps2, ps2[p].file, ps2[q].file, KeyOf(ps2[p]) = KeyOf(ps2[q]) PROVE p = q \/ mix
  <2>1. CASE p \in DOMAIN ps /\ q \in DOMAIN ps
    BY <1>4, <1>7, <2>1 DEF BooksSound
  <2>2. CASE p \in DOMAIN ps /\ q \notin DOMAIN ps
    BY <1>2, <1>3, <1>4, <1>7, <2>2
  <2>3. CASE p \notin DOMAIN ps /\ q \in DOMAIN ps
    BY <1>2, <1>3, <1>4, <1>7, <2>3
  <2>4. CASE p \notin DOMAIN ps /\ q \notin DOMAIN ps
    <3>1. p - n = q - n
      BY <1>2, <1>3, <1>7, <2>4
    <3> QED BY <1>3, <2>4, <3>1
  <2> QED BY <2>1, <2>2, <2>3, <2>4
<1>8. BooksSound(ps2, os, reg, uns, mix)
  BY <1>3, <1>6, <1>7, PartiesAdded
<1> QED BY <1>1, <1>3, <1>8

LEMMA CommitPartiesInv == \A c \in Callers : LegacyInv /\ CommitParties(c) => LegacyInv'
<1> SUFFICES ASSUME NEW c \in Callers, LegacyInv, CommitParties(c) PROVE LegacyInv'
  OBVIOUS
<1>1. PICK first, end : /\ first = [made |-> <<>>, names |-> caller[c].knew, phones |-> caller[c].has]
                        /\ end = PartyRows(caller[c].rows, first)
  OBVIOUS
<1>2. /\ caller[c].doing = "parties" /\ caller' = [caller EXCEPT ![c] = Waiting]
      /\ parties' = (IF PhonesOf(end.made) \cap PhonesOf(parties) # {} THEN parties ELSE parties \o end.made)
      /\ UNCHANGED <<openings, register, mixed, reported, unsure>>
  BY <1>1 DEF CommitParties, BooksKept, SaidKept
<1>3. /\ caller[c].rows \in PartyFiles
      /\ ~mixed => \A p \in DOMAIN parties : parties[p].file => KeyOf(parties[p]) \in caller[c].knew
  BY <1>2 DEF LegacyInv, CallsSound, CallSound
<1>4. PartiesFine(first, caller[c].knew)
  <2>1. first.made = <<>> /\ first.names = caller[c].knew /\ DOMAIN first.made = {} /\ first.made \in Seq(PartyRec)
    BY <1>1
  <2> QED BY <2>1 DEF PartiesFine
<1>5. PartiesFine(end, caller[c].knew)
  BY <1>1, <1>3, <1>4, PartyRowsFine
<1>6. /\ Waiting.doing = "none" /\ \A ps, os, reg, uns, mix : CallSound(Waiting, ps, os, reg, uns, mix)
      /\ BooksSound(parties, openings, register, unsure, mixed)
  BY LegacyParts DEF LegacyInv
<1>7. CASE PhonesOf(end.made) \cap PhonesOf(parties) # {}
  BY <1>2, <1>6, <1>7, OnlyCallInv
<1>8. CASE PhonesOf(end.made) \cap PhonesOf(parties) = {}
  <2>1. parties' = parties \o end.made
    BY <1>2, <1>8
  <2>2. PICK ps2, os, reg, uns, mix :
          ps2 = parties' /\ os = openings /\ reg = register /\ uns = unsure /\ mix = mixed
    OBVIOUS
  <2>3. BooksSound(parties \o end.made, openings, register, unsure, mixed) /\ Extends(parties, parties \o end.made)
    BY <1>3, <1>5, <1>6, <1>8, FileAdded
  <2>4. /\ BooksSound(parties', openings', register', unsure', mixed') /\ Extends(parties, parties')
        /\ Extends(openings, openings') /\ CallSound(Waiting, parties', openings', register', unsure', mixed')
    <3>1. BooksSound(ps2, os, reg, uns, mix) /\ Extends(parties, ps2)
      BY <2>1, <2>2, <2>3
    <3>2. os = openings' /\ reg = register' /\ uns = unsure' /\ mix = mixed'
      BY <1>2, <2>2
    <3> QED BY <1>6, <2>2, <3>1, <3>2 DEF Extends
  <2>5. \A i \in DOMAIN openings' : i \in DOMAIN openings
    BY <1>2
  <2> QED BY <1>2, <1>6, <2>4, <2>5, LegacyStepInv
<1> QED BY <1>7, <1>8


\* What an import of balances remembers after a row it has reported.
Advanced(x, outcome, more, left) ==
    [doing |-> x.doing, rows |-> x.rows, at |-> x.at + 1, kind |-> x.kind, knew |-> x.knew, has |-> x.has \cup more,
     said |-> x.said \cup {<<x.at, outcome, left>>}]

\* A row is reported, and the next is up.
LEMMA SayIs ==
    ASSUME LegacyInv, NEW c \in Callers, NEW outcome, Say(c, outcome)
    PROVE  caller' = [caller EXCEPT ![c] = Advanced(caller[c], outcome, {}, Left)]
<1>1. caller = [d \in Callers |-> caller[d]] /\ Shaped(caller[c])
  BY DEF LegacyInv, CallsSound, CallSound
<1>2. PICK x, left : x = caller[c] /\ left = Left
  OBVIOUS
<1>3. [x EXCEPT !.at = x.at + 1, !.said = x.said \cup {<<x.at, outcome, left>>}] = Advanced(x, outcome, {}, left)
  <2>1. x = [doing |-> x.doing, rows |-> x.rows, at |-> x.at, kind |-> x.kind, knew |-> x.knew, has |-> x.has, said |-> x.said]
    BY <1>1, <1>2 DEF Shaped
  <2>2. PICK n, t : n = x.at + 1 /\ t = x.said \cup {<<x.at, outcome, left>>}
    OBVIOUS
  <2>3. [x EXCEPT !.at = n, !.said = t]
          = [doing |-> x.doing, rows |-> x.rows, at |-> n, kind |-> x.kind, knew |-> x.knew, has |-> x.has, said |-> t]
    <3>1. PICK y : y = [x EXCEPT !.at = n]
      OBVIOUS
    <3>2. y = [doing |-> x.doing, rows |-> x.rows, at |-> n, kind |-> x.kind, knew |-> x.knew, has |-> x.has, said |-> x.said]
      BY <2>1, <3>1
    <3>3. [y EXCEPT !.said = t]
            = [doing |-> x.doing, rows |-> x.rows, at |-> n, kind |-> x.kind, knew |-> x.knew, has |-> x.has, said |-> t]
      BY <3>2
    <3> QED BY <3>1, <3>3
  <2>4. x.has \cup {} = x.has
    OBVIOUS
  <2> QED BY <2>2, <2>3, <2>4 DEF Advanced
<1>4. caller' = [caller EXCEPT ![c] = [x EXCEPT !.at = x.at + 1, !.said = x.said \cup {<<x.at, outcome, left>>}]]
  BY <1>1, <1>2 DEF Say
<1> QED BY <1>2, <1>3, <1>4

\* And its party is marked.
LEMMA MarkIs ==
    ASSUME LegacyInv, NEW c \in Callers, NEW p
    PROVE  MarkPosted(c, p) = Advanced(caller[c], "COMMITTED", {p}, Left)
<1>1. PICK x, left : x = caller[c] /\ left = Left
  OBVIOUS
<1>2. Shaped(x)
  BY <1>1 DEF LegacyInv, CallsSound, CallSound
<1>3. [x EXCEPT !.at = x.at + 1, !.said = x.said \cup {<<x.at, "COMMITTED", left>>}, !.has = x.has \cup {p}] = Advanced(x, "COMMITTED", {p}, left)
  <2>1. x = [doing |-> x.doing, rows |-> x.rows, at |-> x.at, kind |-> x.kind, knew |-> x.knew, has |-> x.has, said |-> x.said]
    BY <1>2 DEF Shaped
  <2>2. PICK n, t, u : n = x.at + 1 /\ t = x.said \cup {<<x.at, "COMMITTED", left>>} /\ u = x.has \cup {p}
    OBVIOUS
  <2>3. [x EXCEPT !.at = n, !.said = t, !.has = u]
          = [doing |-> x.doing, rows |-> x.rows, at |-> n, kind |-> x.kind, knew |-> x.knew, has |-> u, said |-> t]
    <3>1. PICK y, z : y = [x EXCEPT !.at = n] /\ z = [y EXCEPT !.said = t]
      OBVIOUS
    <3>2. y = [doing |-> x.doing, rows |-> x.rows, at |-> n, kind |-> x.kind, knew |-> x.knew, has |-> x.has, said |-> x.said]
      BY <2>1, <3>1
    <3>3. z = [doing |-> x.doing, rows |-> x.rows, at |-> n, kind |-> x.kind, knew |-> x.knew, has |-> x.has, said |-> t]
      BY <3>1, <3>2
    <3>4. [z EXCEPT !.has = u]
            = [doing |-> x.doing, rows |-> x.rows, at |-> n, kind |-> x.kind, knew |-> x.knew, has |-> u, said |-> t]
      BY <3>3
    <3> QED BY <3>1, <3>4
  <2> QED BY <2>2, <2>3 DEF Advanced
<1> QED BY <1>1, <1>3 DEF MarkPosted

\* A row more is reported.
LEMMA AdvancedSound ==
    ASSUME NEW x, NEW ps, NEW os, NEW reg, NEW uns, NEW mix, CallSound(x, ps, os, reg, uns, mix),
           x.doing = "balances", x.at \in DOMAIN x.rows, NEW outcome, NEW more, NEW left,
           \A p \in more : \E i \in DOMAIN os : os[i].party = p,
           Told(RowReport(x, <<x.at, outcome, left>>), ps, os, reg, uns)
    PROVE  CallSound(Advanced(x, outcome, more, left), ps, os, reg, uns, mix) /\ Advanced(x, outcome, more, left).doing = x.doing
<1>1. PICK y : y = Advanced(x, outcome, more, left)
  OBVIOUS
<1>2. /\ Shaped(y) /\ y.doing = x.doing /\ y.rows = x.rows /\ y.at = x.at + 1 /\ y.knew = x.knew
      /\ y.has = x.has \cup more /\ y.said = x.said \cup {<<x.at, outcome, left>>}
  BY <1>1 DEF Advanced, Shaped
<1>3. /\ x.rows \in BalanceFiles /\ x.at \in Nat /\ x.knew \subseteq DOMAIN ps
      /\ \A p \in x.has : \E i \in DOMAIN os : os[i].party = p
      /\ ~mix => \A i \in DOMAIN os : os[i].party \in x.has \cup uns
      /\ \A s \in x.said : s[1] \in DOMAIN x.rows /\ Told(RowReport(x, s), ps, os, reg, uns)
  BY DEF CallSound
<1>4. \A s : RowReport(y, s) = RowReport(x, s)
  BY <1>2 DEF RowReport
<1>5. \A s \in y.said : s[1] \in DOMAIN y.rows /\ Told(RowReport(y, s), ps, os, reg, uns)
  <2>1. <<x.at, outcome, left>>[1] = x.at
    OBVIOUS
  <2> QED BY <1>2, <1>3, <1>4, <2>1
<1>6. CallSound(y, ps, os, reg, uns, mix)
  BY <1>2, <1>3, <1>5 DEF CallSound
<1> QED BY <1>1, <1>2, <1>6

Named(known, name) == {p \in known : parties[p].name = name}

\* A row can be posted for the one party of its name, on a side that fits it.
LEMMA FittingIs ==
    ASSUME LegacyInv, NEW known, known \subseteq PartyIds, NEW row, row.side \in Sides \cup {NoSide},
           NEW p, p \in Fitting(known, row)
    PROVE  /\ p \in known /\ Fitting(known, row) = {p}
           /\ Named(known, row.name) = {p}
           /\ Fits(SideOf(row, parties[p].type), parties[p].type)
           /\ SideOf(row, parties[p].type) \in Sides
           /\ row.side \in {NoSide, SideOf(row, parties[p].type)}
<1>1. IsFiniteSet(known) /\ \A q \in known : parties[q].type \in PartyTypes
  BY LegacyParts, FS_Subset
<1>2. /\ p \in ResolveParty(known, row.name, PartyTypes) /\ Fitting(known, row) \subseteq ResolveParty(known, row.name, PartyTypes)
      /\ Fits(SideOf(row, parties[p].type), parties[p].type)
  BY DEF Fitting
<1>3. PICK q \in known : ResolveParty(known, row.name, PartyTypes) = {q} /\ Matches(known, row.name, PartyTypes) = {q}
  <2>1. PICK name : name = row.name
    OBVIOUS
  <2>2. \/ ResolveParty(known, name, PartyTypes) = {}
        \/ \E q \in known : /\ ResolveParty(known, name, PartyTypes) = {q} /\ Matches(known, name, PartyTypes) = {q}
                            /\ parties[q].name = name /\ parties[q].type \in PartyTypes
    <3>1. IsFiniteSet(known)
      BY <1>1
    <3> QED BY <3>1, OnlyMatch
  <2>3. ResolveParty(known, name, PartyTypes) # {}
    BY <1>2, <2>1
  <2>4. \E q \in known : ResolveParty(known, name, PartyTypes) = {q} /\ Matches(known, name, PartyTypes) = {q}
    BY <2>2, <2>3
  <2> QED BY <2>1, <2>4
<1>4. q = p
  BY <1>2, <1>3
<1>5. Named(known, row.name) = Matches(known, row.name, PartyTypes)
  BY <1>1 DEF Matches, Named
<1>6. SideOf(row, parties[p].type) \in Sides \cup {NoSide} /\ row.side \in {NoSide, SideOf(row, parties[p].type)}
  BY DEF SideOf, Sides
<1>7. SideOf(row, parties[p].type) # NoSide
  BY <1>2 DEF Fits
<1> QED BY <1>2, <1>3, <1>4, <1>5, <1>6, <1>7

\* The row an import of balances is at.
LEMMA AtRowIs ==
    ASSUME LegacyInv, NEW c \in Callers, AtRow(c)
    PROVE  LET x == caller[c]
               row == caller[c].rows[caller[c].at]
           IN  /\ CallSound(x, parties, openings, register, unsure, mixed) /\ x.doing = "balances" /\ x.at \in DOMAIN x.rows
               /\ x.knew \subseteq PartyIds /\ row \in BalanceRows /\ row.side \in Sides \cup {NoSide}
               /\ \A o, l : RowReport(x, <<x.at, o, l>>) = [kind |-> "OPENING", row |-> row, knew |-> x.knew, outcome |-> o, left |-> l]
<1>1. PICK x : x = caller[c]
  OBVIOUS
<1>2. CallSound(x, parties, openings, register, unsure, mixed) /\ x.doing = "balances" /\ x.at \in DOMAIN x.rows
  BY <1>1 DEF LegacyInv, CallsSound, AtRow
<1>3. x.rows \in BalanceFiles /\ x.knew \subseteq PartyIds
  BY <1>2 DEF CallSound, PartyIds
<1>4. x.rows[x.at] \in RowsOf(x.rows)
  BY <1>2 DEF RowsOf
<1>5. x.rows[x.at].side \in Sides \cup {NoSide} /\ x.rows[x.at] \in BalanceRows
  BY <1>3, <1>4, LegacyAssumption DEF BalanceRows
<1>6. \A o, l : RowReport(x, <<x.at, o, l>>) = [kind |-> "OPENING", row |-> x.rows[x.at], knew |-> x.knew, outcome |-> o, left |-> l]
  BY DEF RowReport
<1> QED BY <1>1, <1>2, <1>3, <1>5, <1>6

\* A row posted, by a request that ends up as x.
LEMMA PostedInv ==
    ASSUME LegacyInv, NEW c \in Callers, AtRow(c),
           NEW p \in Fitting(caller[c].knew, caller[c].rows[caller[c].at]), p \notin caller[c].has,
           PostOpening(p, caller[c].rows[caller[c].at]),
           \/ unsure' = unsure \cup {p} /\ caller' = [caller EXCEPT ![c] = Advanced(caller[c], "ERROR", {}, Left)]
           \/ unsure' = unsure /\ caller' = [caller EXCEPT ![c] = Advanced(caller[c], "COMMITTED", {p}, Left)],
           UNCHANGED <<parties, register, mixed, reported>>
    PROVE  LegacyInv'
<1>1. PICK x, row : x = caller[c] /\ row = x.rows[x.at]
  OBVIOUS
<1>2. /\ CallSound(x, parties, openings, register, unsure, mixed) /\ x.doing = "balances" /\ x.at \in DOMAIN x.rows
      /\ x.knew \subseteq PartyIds /\ row \in BalanceRows /\ row.side \in Sides \cup {NoSide}
      /\ \A o, l : RowReport(x, <<x.at, o, l>>) = [kind |-> "OPENING", row |-> row, knew |-> x.knew, outcome |-> o, left |-> l]
  BY <1>1, AtRowIs
<1>3. PICK side : side = SideOf(row, parties[p].type)
  OBVIOUS
<1>4. /\ p \in x.knew /\ Named(x.knew, row.name) = {p}
      /\ Fits(side, parties[p].type) /\ side \in Sides /\ row.side \in {NoSide, side}
  <2>1. PICK known : known = x.knew
    OBVIOUS
  <2>2. known \subseteq PartyIds /\ p \in Fitting(known, row)
    BY <1>1, <1>2, <2>1
  <2>3. /\ p \in known /\ Named(known, row.name) = {p}
        /\ Fits(SideOf(row, parties[p].type), parties[p].type)
        /\ SideOf(row, parties[p].type) \in Sides
        /\ row.side \in {NoSide, SideOf(row, parties[p].type)}
    <3>1. row.side \in Sides \cup {NoSide}
      BY <1>2
    <3> QED BY <2>2, <3>1, FittingIs
  <2> QED BY <1>3, <2>1, <2>3
<1>5. PICK o : o = [party |-> p, side |-> side, amount |-> row.amount]
  OBVIOUS
<1>6. o.party = p /\ o.side = side /\ o.amount = row.amount /\ o \in Opening
  BY <1>2, <1>4, <1>5, LegacyParts DEF Opening
<1>7. openings' = Append(openings, o)
  BY <1>1, <1>3, <1>5 DEF PostOpening
<1>8. BooksSound(parties, openings, register, unsure, mixed)
  BY DEF LegacyInv
<1>9. \A i \in DOMAIN openings : openings[i].party = p => mixed \/ p \in unsure
  BY <1>1, <1>2 DEF CallSound
<1>10. unsure \subseteq unsure'
  OBVIOUS
<1>11. PICK os2, uns2 : os2 = openings' /\ uns2 = unsure'
  OBVIOUS
<1>12. BooksSound(parties, os2, register, uns2, mixed) /\ Extends(openings, os2)
  <2>1. \A i \in DOMAIN openings : openings[i].party = o.party => mixed \/ o.party \in uns2
    BY <1>6, <1>9, <1>10, <1>11
  <2>2. p \in DOMAIN parties
    BY <1>2, <1>4 DEF PartyIds
  <2>3. BooksSound(parties, Append(openings, o), register, uns2, mixed) /\ Extends(openings, Append(openings, o))
    <3>1. o.party \in DOMAIN parties /\ Fits(o.side, parties[o.party].type)
      BY <1>4, <1>6, <2>2
    <3>2. unsure \subseteq uns2
      BY <1>10, <1>11
    <3> QED BY <1>6, <1>8, <2>1, <3>1, <3>2, OpeningAdded
  <2> QED BY <1>7, <1>11, <2>3
<1>13. PICK n : n = Len(openings) + 1
  OBVIOUS
<1>14. n \in DOMAIN os2 /\ os2[n] = o /\ \A i \in DOMAIN os2 : i \in DOMAIN openings \/ i = n
  <2>1. PICK m : m = openings
    OBVIOUS
  <2>2. m \in Seq(Opening)
    BY <2>1, LegacyParts
  <2>3. /\ DOMAIN Append(m, o) = DOMAIN m \cup {Len(m) + 1}
        /\ Append(m, o)[Len(m) + 1] = o
    BY <1>6, <2>2, AddAtEnd
  <2>4. os2 = Append(m, o) /\ n = Len(m) + 1
    BY <1>7, <1>11, <1>13, <2>1
  <2> QED BY <2>1, <2>3, <2>4
<1>18. PICK left : left = Left
  OBVIOUS
<1>19. left = {n}
  <2>1. n \notin DOMAIN openings
    BY <1>13, LegacyParts, LenProperties
  <2>2. DOMAIN os2 = DOMAIN openings \cup {n}
    BY <1>12, <1>14 DEF Extends
  <2>3. left = DOMAIN os2 \ DOMAIN openings
    BY <1>11, <1>18 DEF Left
  <2> QED BY <2>1, <2>2, <2>3
<1>15. Extends(parties, parties)
  BY DEF Extends
<1>16. CASE unsure' = unsure \cup {p} /\ caller' = [caller EXCEPT ![c] = Advanced(caller[c], "ERROR", {}, Left)]
  <2>1. \A i \in DOMAIN os2 : i \in DOMAIN openings \/ os2[i].party \in uns2
    BY <1>6, <1>11, <1>14, <1>16
  <2>2. CallSound(x, parties, os2, register, uns2, mixed)
    <3>1. \A q \in DOMAIN parties : q \in DOMAIN parties \/ ~parties[q].file
      OBVIOUS
    <3>2. unsure \subseteq uns2 /\ Extends(openings, os2) /\ register \subseteq register /\ (mixed => mixed)
      BY <1>10, <1>11, <1>12
    <3>3. PICK ps, os, reg, uns, mix : ps = parties /\ os = openings /\ reg = register /\ uns = unsure /\ mix = mixed
      OBVIOUS
    <3>4. CallSound(x, ps, os, reg, uns, mix) /\ Extends(ps, ps) /\ Extends(os, os2) /\ uns \subseteq uns2
      BY <1>2, <1>15, <3>2, <3>3
    <3>5. \A i \in DOMAIN os2 : i \in DOMAIN os \/ os2[i].party \in uns2
      BY <2>1, <3>3
    <3>6. CallSound(x, ps, os2, reg, uns2, mix)
      BY <3>4, <3>5, CallStays
    <3> QED BY <3>3, <3>6
  <2>3. Told(RowReport(x, <<x.at, "ERROR", left>>), parties, os2, register, uns2)
    <3>1. PICK r : r = [kind |-> "OPENING", row |-> row, knew |-> x.knew, outcome |-> "ERROR", left |-> left]
      OBVIOUS
    <3>2. r.kind = "OPENING" /\ r.outcome = "ERROR" /\ r.knew = x.knew /\ r.left = {n}
      BY <1>19, <3>1
    <3>4. n \in DOMAIN os2 /\ os2[n].party \in uns2
      BY <1>6, <1>11, <1>14, <1>16
    <3>3. Told(r, parties, os2, register, uns2)
      BY <1>2, <3>2, <3>4 DEF Told, PartyIds
    <3> QED BY <1>2, <3>1, <3>3
  <2>4. PICK y : y = Advanced(x, "ERROR", {}, left)
    OBVIOUS
  <2>5. CallSound(y, parties, os2, register, uns2, mixed) /\ y.doing = x.doing
    <3>1. \A q \in {} : \E i \in DOMAIN os2 : os2[i].party = q
      OBVIOUS
    <3>2. PICK ps, reg, mix : ps = parties /\ reg = register /\ mix = mixed
      OBVIOUS
    <3>3. CallSound(x, ps, os2, reg, uns2, mix) /\ Told(RowReport(x, <<x.at, "ERROR", left>>), ps, os2, reg, uns2)
      BY <2>2, <2>3, <3>2
    <3>4. x.doing = "balances" /\ x.at \in DOMAIN x.rows
      BY <1>2
    <3>5. CallSound(y, ps, os2, reg, uns2, mix) /\ y.doing = x.doing
      BY <2>4, <3>1, <3>3, <3>4, AdvancedSound
    <3> QED BY <3>2, <3>5
  <2>6. caller' = [caller EXCEPT ![c] = y]
    BY <1>1, <1>16, <1>18, <2>4
  <2>7. ~mixed' /\ y.doing # "none" => \A d \in Callers : d # c => caller[d].doing # y.doing
    BY <1>1, <2>5 DEF LegacyInv, OneImport
  <2>8. /\ BooksSound(parties', openings', register', unsure', mixed') /\ CallSound(y, parties', openings', register', unsure', mixed')
        /\ Extends(parties, parties') /\ Extends(openings, openings')
    BY <1>11, <1>12, <1>15, <2>5
  <2>9. (\A q \in DOMAIN parties' : q \in DOMAIN parties) /\ caller[c].doing = "balances"
    BY <1>1, <1>2
  <2> QED BY <1>10, <2>6, <2>7, <2>8, <2>9, LegacyStepInv
<1>17. CASE unsure' = unsure /\ caller' = [caller EXCEPT ![c] = Advanced(caller[c], "COMMITTED", {p}, Left)]
  <2>1. PICK y : y = Advanced(x, "COMMITTED", {p}, left)
    OBVIOUS
  <2>2. /\ Shaped(y) /\ y.doing = x.doing /\ y.rows = x.rows /\ y.at = x.at + 1 /\ y.knew = x.knew
        /\ y.has = x.has \cup {p} /\ y.said = x.said \cup {<<x.at, "COMMITTED", left>>}
    BY <2>1 DEF Advanced, Shaped
  <2>3. /\ x.rows \in BalanceFiles /\ x.at \in Nat /\ x.knew \subseteq DOMAIN parties
        /\ \A q \in x.has : \E i \in DOMAIN openings : openings[i].party = q
        /\ ~mixed => \A i \in DOMAIN openings : openings[i].party \in x.has \cup unsure
        /\ \A s \in x.said : s[1] \in DOMAIN x.rows /\ Told(RowReport(x, s), parties, openings, register, unsure)
    BY <1>2 DEF CallSound
  <2>4. \A q \in y.has : \E i \in DOMAIN os2 : os2[i].party = q
    BY <1>6, <1>12, <1>14, <2>2, <2>3 DEF Extends
  <2>5. ~mixed => \A i \in DOMAIN os2 : os2[i].party \in y.has \cup uns2
    BY <1>6, <1>11, <1>12, <1>14, <1>17, <2>2, <2>3 DEF Extends
  <2>6. Told(RowReport(x, <<x.at, "COMMITTED", left>>), parties, os2, register, uns2)
    <3>1. PICK r : r = [kind |-> "OPENING", row |-> row, knew |-> x.knew, outcome |-> "COMMITTED", left |-> left]
      OBVIOUS
    <3>2. r.kind = "OPENING" /\ r.outcome = "COMMITTED" /\ r.row = row /\ r.knew = x.knew /\ r.left = {n}
      BY <1>19, <3>1
    <3>3. {q \in r.knew : parties[q].name = r.row.name} = {p}
      BY <1>4, <3>2 DEF Named
    <3>4. /\ os2[n].party \in {q \in r.knew : parties[q].name = r.row.name} /\ os2[n].amount = r.row.amount
          /\ r.row.side \in {NoSide, os2[n].side} /\ {q \in r.knew : parties[q].name = r.row.name} = {os2[n].party}
      BY <1>4, <1>6, <1>14, <3>2, <3>3
    <3>5. Told(r, parties, os2, register, uns2)
      BY <1>14, <2>3, <3>2, <3>4 DEF Told
    <3> QED BY <1>2, <3>1, <3>5
  <2>7. \A s \in y.said : s[1] \in DOMAIN y.rows /\ Told(RowReport(y, s), parties, os2, register, uns2)
    <3>1. \A s : RowReport(y, s) = RowReport(x, s)
      BY <2>2 DEF RowReport
    <3>2. \A s \in x.said : Told(RowReport(x, s), parties, os2, register, uns2)
      BY <1>10, <1>11, <1>12, <1>15, <2>3, ToldStays
    <3>3. <<x.at, "COMMITTED", left>>[1] = x.at
      OBVIOUS
    <3> QED BY <1>2, <2>2, <2>3, <2>6, <3>1, <3>2, <3>3
  <2>8. CallSound(y, parties, os2, register, uns2, mixed)
    <3>1. y.doing = "balances" /\ Shaped(y)
      BY <1>2, <2>2
    <3>2. y.rows \in BalanceFiles /\ y.at \in Nat /\ y.knew \subseteq DOMAIN parties
      BY <2>2, <2>3
    <3> HIDE <2>1
    <3> QED BY <2>4, <2>5, <2>7, <3>1, <3>2 DEF CallSound
  <2>9. caller' = [caller EXCEPT ![c] = y]
    BY <1>1, <1>17, <1>18, <2>1
  <2>10. ~mixed' /\ y.doing # "none" => \A d \in Callers : d # c => caller[d].doing # y.doing
    BY <1>1, <2>2 DEF LegacyInv, OneImport
  <2>11. /\ BooksSound(parties', openings', register', unsure', mixed') /\ CallSound(y, parties', openings', register', unsure', mixed')
         /\ Extends(parties, parties') /\ Extends(openings, openings')
    BY <1>11, <1>12, <1>15, <2>8
  <2>12. (\A q \in DOMAIN parties' : q \in DOMAIN parties) /\ caller[c].doing = "balances"
    BY <1>1, <1>2
  <2> QED BY <1>10, <2>9, <2>10, <2>11, <2>12, LegacyStepInv
<1> QED BY <1>16, <1>17


\* A row that is not posted.
LEMMA SaidInv ==
    ASSUME LegacyInv, NEW c \in Callers, AtRow(c), NEW outcome, Say(c, outcome),
           Told(RowReport(caller[c], <<caller[c].at, outcome, Left>>), parties, openings, register, unsure),
           UNCHANGED <<parties, openings, register, mixed, reported, unsure>>
    PROVE  LegacyInv'
<1>1. PICK x, y, left : x = caller[c] /\ left = Left /\ y = Advanced(x, outcome, {}, left)
  OBVIOUS
<1>2. CallSound(x, parties, openings, register, unsure, mixed) /\ x.doing = "balances" /\ x.at \in DOMAIN x.rows
  BY <1>1, AtRowIs
<1>3. PICK ps, os, reg, uns, mix : ps = parties /\ os = openings /\ reg = register /\ uns = unsure /\ mix = mixed
  OBVIOUS
<1>4. CallSound(x, ps, os, reg, uns, mix) /\ Told(RowReport(x, <<x.at, outcome, left>>), ps, os, reg, uns)
  BY <1>1, <1>2, <1>3
<1>5. \A p \in {} : \E i \in DOMAIN os : os[i].party = p
  OBVIOUS
<1>6. CallSound(y, ps, os, reg, uns, mix) /\ y.doing = x.doing
  BY <1>1, <1>2, <1>4, <1>5, AdvancedSound
<1>7. caller' = [caller EXCEPT ![c] = y]
  BY <1>1, SayIs
<1>8. CallSound(y, parties, openings, register, unsure, mixed) /\ y.doing \in {"none", caller[c].doing}
  BY <1>1, <1>3, <1>6
<1> QED BY <1>7, <1>8, OnlyCallInv

\* What is said of a row that is refused, or is in already.
LEMMA RefusalIsTold ==
    ASSUME LegacyInv, NEW c \in Callers, AtRow(c)
    PROVE  /\ Told(RowReport(caller[c], <<caller[c].at, "ERROR", {}>>), parties, openings, register, unsure)
           /\ \A p \in Fitting(caller[c].knew, caller[c].rows[caller[c].at]) \cap caller[c].has :
                Told(RowReport(caller[c], <<caller[c].at, "DUPLICATE", {}>>), parties, openings, register, unsure)
<1>1. PICK x, row : x = caller[c] /\ row = x.rows[x.at]
  OBVIOUS
<1>2. /\ CallSound(x, parties, openings, register, unsure, mixed) /\ x.doing = "balances"
      /\ x.knew \subseteq PartyIds /\ row.side \in Sides \cup {NoSide}
      /\ \A o, l : RowReport(x, <<x.at, o, l>>) = [kind |-> "OPENING", row |-> row, knew |-> x.knew, outcome |-> o, left |-> l]
  BY <1>1, AtRowIs
<1>3. Told(RowReport(x, <<x.at, "ERROR", {}>>), parties, openings, register, unsure)
  <2>1. PICK r : r = [kind |-> "OPENING", row |-> row, knew |-> x.knew, outcome |-> "ERROR", left |-> {}]
    OBVIOUS
  <2>2. r.kind = "OPENING" /\ r.outcome = "ERROR" /\ r.knew = x.knew /\ r.left = {}
    BY <2>1
  <2>3. Told(r, parties, openings, register, unsure)
    BY <1>2, <2>2 DEF Told, PartyIds
  <2> QED BY <1>2, <2>1, <2>3
<1>4. ASSUME NEW p \in Fitting(x.knew, row) \cap x.has
      PROVE  Told(RowReport(x, <<x.at, "DUPLICATE", {}>>), parties, openings, register, unsure)
  <2>1. PICK r : r = [kind |-> "OPENING", row |-> row, knew |-> x.knew, outcome |-> "DUPLICATE", left |-> {}]
    OBVIOUS
  <2>2. r.kind = "OPENING" /\ r.outcome = "DUPLICATE" /\ r.knew = x.knew /\ r.row = row /\ r.left = {}
    BY <2>1
  <2>3. PICK known : known = x.knew
    OBVIOUS
  <2>4. known \subseteq PartyIds /\ p \in Fitting(known, row) /\ row.side \in Sides \cup {NoSide}
    BY <1>2, <2>3
  <2>5. Named(known, row.name) = {p}
    BY <2>4, FittingIs
  <2>6. PICK i \in DOMAIN openings : openings[i].party = p
    BY <1>2, <1>4 DEF CallSound
  <2>7. {q \in r.knew : parties[q].name = r.row.name} = {p}
    BY <2>2, <2>3, <2>5 DEF Named
  <2>8. r.knew \subseteq DOMAIN parties
    BY <1>2, <2>2 DEF PartyIds
  <2>9. Told(r, parties, openings, register, unsure)
    BY <2>2, <2>6, <2>7, <2>8 DEF Told
  <2> QED BY <1>2, <2>1, <2>9
<1> QED BY <1>1, <1>3, <1>4

LEMMA OpeningRowInv == \A c \in Callers : LegacyInv /\ OpeningRow(c) => LegacyInv'
<1> SUFFICES ASSUME NEW c \in Callers, LegacyInv, OpeningRow(c) PROVE LegacyInv'
  OBVIOUS
<1>1. PICK row, fit : row = caller[c].rows[caller[c].at] /\ fit = Fitting(caller[c].knew, row)
  OBVIOUS
<1>2. AtRow(c) /\ UNCHANGED <<parties, register, mixed, reported, unsure>>
  BY DEF OpeningRow, SaidKept
<1>3. \/ Say(c, "ERROR") /\ UNCHANGED openings
      \/ fit # {} /\ fit \subseteq caller[c].has /\ Say(c, "DUPLICATE") /\ UNCHANGED openings
      \/ fit \cap caller[c].has = {} /\ \E p \in fit : PostOpening(p, row) /\ caller' = [caller EXCEPT ![c] = MarkPosted(c, p)]
  BY <1>1 DEF OpeningRow, PostingRefused
<1>7. UNCHANGED openings => Left = {}
  BY DEF Left
<1>4. CASE Say(c, "ERROR") /\ UNCHANGED openings
  <2>1. Told(RowReport(caller[c], <<caller[c].at, "ERROR", Left>>), parties, openings, register, unsure)
    BY <1>2, <1>4, <1>7, RefusalIsTold
  <2> QED BY <1>2, <1>4, <2>1, SaidInv
<1>5. CASE fit # {} /\ fit \subseteq caller[c].has /\ Say(c, "DUPLICATE") /\ UNCHANGED openings
  <2>1. PICK p \in fit : p \in caller[c].has
    BY <1>5
  <2>2. Told(RowReport(caller[c], <<caller[c].at, "DUPLICATE", Left>>), parties, openings, register, unsure)
    BY <1>1, <1>2, <1>5, <1>7, <2>1, RefusalIsTold
  <2> QED BY <1>2, <1>5, <2>2, SaidInv
<1>6. CASE fit \cap caller[c].has = {} /\ \E p \in fit : PostOpening(p, row) /\ caller' = [caller EXCEPT ![c] = MarkPosted(c, p)]
  <2>1. PICK p \in fit : PostOpening(p, row) /\ caller' = [caller EXCEPT ![c] = MarkPosted(c, p)]
    BY <1>6
  <2>2. caller' = [caller EXCEPT ![c] = Advanced(caller[c], "COMMITTED", {p}, Left)]
    BY <2>1, MarkIs
  <2>3. p \notin caller[c].has /\ PostOpening(p, caller[c].rows[caller[c].at]) /\ p \in Fitting(caller[c].knew, caller[c].rows[caller[c].at])
    BY <1>1, <1>6, <2>1
  <2> QED BY <1>2, <2>2, <2>3, PostedInv
<1> QED BY <1>3, <1>4, <1>5, <1>6

LEMMA OpeningUnheardInv == \A c \in Callers : LegacyInv /\ OpeningUnheard(c) => LegacyInv'
<1> SUFFICES ASSUME NEW c \in Callers, LegacyInv, OpeningUnheard(c) PROVE LegacyInv'
  OBVIOUS
<1>1. /\ AtRow(c) /\ UNCHANGED <<parties, register, mixed, reported>> /\ Say(c, "ERROR")
      /\ \E p \in Fitting(caller[c].knew, caller[c].rows[caller[c].at]) \ caller[c].has :
            PostOpening(p, caller[c].rows[caller[c].at]) /\ unsure' = unsure \cup {p}
  BY DEF OpeningUnheard
<1>2. PICK p \in Fitting(caller[c].knew, caller[c].rows[caller[c].at]) \ caller[c].has :
        PostOpening(p, caller[c].rows[caller[c].at]) /\ unsure' = unsure \cup {p}
  BY <1>1
<1>3. caller' = [caller EXCEPT ![c] = Advanced(caller[c], "ERROR", {}, Left)]
  BY <1>1, SayIs
<1> QED BY <1>1, <1>2, <1>3, PostedInv

LEMMA CommitInvoicesInv == \A c \in Callers : LegacyInv /\ CommitInvoices(c) => LegacyInv'
<1> SUFFICES ASSUME NEW c \in Callers, LegacyInv, CommitInvoices(c) PROVE LegacyInv'
  OBVIOUS
<1>1. PICK first, end : first = [made |-> {}, seen |-> caller[c].has, said |-> {}] /\ end = InvoiceRows(c, first)
  OBVIOUS
<1>2. /\ caller[c].doing = "invoices" /\ caller' = [caller EXCEPT ![c] = Waiting]
      /\ UNCHANGED <<parties, mixed, unsure, openings>>
      /\ \/ UNCHANGED <<register, reported>>
         \/ register' = register \cup end.made /\ reported' = reported \cup end.said
  BY <1>1 DEF CommitInvoices, BooksKept
<1>3. CallSound(caller[c], parties, openings, register, unsure, mixed)
  BY LegacyParts
<1>4. PICK file \in InvoiceFiles : caller[c].rows = file.rows /\ caller[c].kind = file.kind
  BY <1>2, <1>3 DEF CallSound
<1>5. caller[c].knew \subseteq PartyIds /\ \A n \in caller[c].has : \E h \in register : h.kind = caller[c].kind /\ h.number = n
  BY <1>2, <1>3 DEF CallSound, PartyIds
<1>6. IsFiniteSet(caller[c].knew)
  BY <1>5, LegacyParts, FS_Subset
<1>7. InvoicesFine(c, end)
  <2>1. first.made = {} /\ first.seen = caller[c].has /\ first.said = {} /\ first = [made |-> first.made, seen |-> first.seen, said |-> first.said]
    BY <1>1
  <2>2. InvoicesFine(c, first)
    BY <2>1 DEF InvoicesFine
  <2>3. InvoicesFine(c, InvoiceRows(c, first))
    BY <1>4, <1>6, <2>1, <2>2, InvoiceRowsFine
  <2> QED BY <1>1, <2>3
<1>8. /\ Waiting.doing = "none" /\ \A ps, os, reg, uns, mix : CallSound(Waiting, ps, os, reg, uns, mix)
      /\ BooksSound(parties, openings, register, unsure, mixed)
  BY LegacyParts DEF LegacyInv
<1>9. CASE UNCHANGED <<register, reported>>
  BY <1>2, <1>8, <1>9, OnlyCallInv
<1>10. CASE register' = register \cup end.made /\ reported' = reported \cup end.said
  <2>1. PICK reg : reg = register \cup end.made
    OBVIOUS
  <2>2. file.kind \in {"SALE", "PURCHASE"}
    BY LegacyAssumption
  <2>3. \A h \in end.made : /\ h.kind = caller[c].kind /\ h.party \in PartyIds /\ h.paid <= h.total
                            /\ parties[h.party].type \in AllowedFor(h.kind)
    BY <1>5, <1>7 DEF InvoicesFine
  <2>4. BooksSound(parties, openings, reg, unsure, mixed)
    BY <1>4, <1>8, <2>1, <2>2, <2>3 DEF BooksSound, PartyIds
  <2>5. ASSUME NEW r \in end.said PROVE Told(r, parties, openings, reg, unsure)
    <3>1. /\ r.kind = caller[c].kind /\ r.knew = caller[c].knew
          /\ r.outcome \in {"COMMITTED", "DUPLICATE", "ERROR"} /\ (r.outcome # "COMMITTED" => r.left = {})
          /\ r.outcome = "COMMITTED" =>
               \E h \in end.made : /\ r.left = {h} /\ h.number = r.row.number /\ h.party \in Called(r)
                                   /\ \A p \in Called(r) \ {h.party} : parties[p].type \notin AllowedFor(r.kind)
          /\ r.outcome = "DUPLICATE" => r.row.number \in end.seen
      BY <1>7 DEF InvoicesFine
    <3>2. r.kind # "OPENING" /\ r.knew \subseteq DOMAIN parties
      BY <1>4, <1>5, <2>2, <3>1 DEF PartyIds
    <3>3. ASSUME r.outcome = "COMMITTED"
          PROVE  \E h \in reg : /\ r.left = {h} /\ h.kind = r.kind /\ h.number = r.row.number /\ h.party \in {p \in r.knew : parties[p].name = r.row.name}
                                /\ \A p \in {p \in r.knew : parties[p].name = r.row.name} \ {h.party} : parties[p].type \notin AllowedFor(r.kind)
      BY <2>1, <2>3, <3>1, <3>3 DEF Called
    <3>4. ASSUME r.outcome = "DUPLICATE" PROVE \E h \in reg : h.kind = r.kind /\ h.number = r.row.number
      <4>1. r.row.number \in caller[c].has \/ \E h \in end.made : h.number = r.row.number
        BY <1>7, <3>1, <3>4 DEF InvoicesFine
      <4>2. CASE r.row.number \in caller[c].has
        BY <1>5, <2>1, <3>1, <4>2
      <4>3. CASE \E h \in end.made : h.number = r.row.number
        BY <2>1, <2>3, <3>1, <4>3
      <4> QED BY <4>1, <4>2, <4>3
    <3> QED BY <3>1, <3>2, <3>3, <3>4 DEF Told
  <2>6. Extends(parties, parties) /\ Extends(openings, openings)
    BY DEF Extends
  <2>7. /\ BooksSound(parties', openings', register', unsure', mixed') /\ CallSound(Waiting, parties', openings', register', unsure', mixed')
        /\ Extends(parties, parties') /\ Extends(openings, openings') /\ register \subseteq register'
        /\ \A r \in reported' : r \in reported \/ Told(r, parties', openings', register', unsure')
    <3>1. register' = reg /\ register \subseteq reg
      BY <1>10, <2>1
    <3> QED BY <1>2, <1>8, <1>10, <2>4, <2>5, <2>6, <3>1
  <2>8. (\A p \in DOMAIN parties' : p \in DOMAIN parties) /\ (\A i \in DOMAIN openings' : i \in DOMAIN openings)
    BY <1>2
  <2>9. unsure \subseteq unsure' /\ (mixed => mixed') /\ caller' = [caller EXCEPT ![c] = Waiting]
    BY <1>2
  <2> QED BY <1>8, <2>7, <2>8, <2>9, LegacyStepInv
<1> QED BY <1>2, <1>9, <1>10

LEMMA LegacyNextInv == LegacyInv /\ [LegacyNext]_legacyVars => LegacyInv'
<1> SUFFICES ASSUME LegacyInv, [LegacyNext]_legacyVars PROVE LegacyInv'
  OBVIOUS
<1>1. CASE LegacyNext
  <2>1. CASE \E new \in NewParties : CreateParty(new)
    BY <2>1, CreatePartyInv
  <2>2. CASE EnsureDefaultChartOfAccounts \/ SetOpeningPeriodLock
    BY <2>2, LegacySettingsInv
  <2>3. ASSUME NEW c \in Callers,
               \/ \E file \in PartyFiles : ImportParties(c, file)
               \/ \E file \in BalanceFiles : ImportOpeningBalances(c, file)
               \/ \E file \in InvoiceFiles : ImportHistoricalInvoices(c, file)
        PROVE  LegacyInv'
    BY <2>3, ImportPartiesInv, ImportOpeningBalancesInv, ImportHistoricalInvoicesInv
  <2>4. ASSUME NEW c \in Callers, CommitParties(c) \/ OpeningRow(c) \/ OpeningUnheard(c)
        PROVE  LegacyInv'
    BY <2>4, CommitPartiesInv, OpeningRowInv, OpeningUnheardInv
  <2>5. ASSUME NEW c \in Callers, ReportBalances(c) \/ CommitInvoices(c) \/ StopImport(c)
        PROVE  LegacyInv'
    BY <2>5, ReportBalancesInv, CommitInvoicesInv, StopImportInv
  <2> QED BY <1>1, <2>1, <2>2, <2>3, <2>4, <2>5 DEF LegacyNext
<1>2. CASE UNCHANGED legacyVars
  BY <1>2 DEF legacyVars, LegacyInv, CallsSound, OneImport
<1> QED BY <1>1, <1>2

\* Whatever files are brought over, in whatever order, however often and by however many
\* requests: each party's opening balance and each party of a file is there once unless
\* imports overlapped or an answer was lost, past invoices stand with a party of their
\* kind, and the reports are true (ImportOpeningBalances, ImportHistoricalInvoices,
\* ImportParties).
THEOREM BroughtOverAlways == LegacySpec => []BroughtOver
<1>1. LegacyInit => LegacyInv
  BY LegacyStart
<1>2. LegacyInv /\ [LegacyNext]_legacyVars => LegacyInv'
  BY LegacyNextInv
<1>3. LegacyInv => BroughtOver
  BY LegacyInvHolds
<1> QED BY <1>1, <1>2, <1>3, PTL DEF LegacySpec

-----------------------------------------------------------------------------
(* Leads *)

\* What is written in a lead, by a user or in a file.
FileRows == UNION {{file[i] : i \in DOMAIN file} : file \in LeadFiles}
Words == UNION {{d.title, d.phone, d.email} : d \in Drafts \cup FileRows}

LeadRow ==
    [title : Words, phone : Words, email : Words, owner : Sellers \cup {NoSeller}, party : Nat \cup {NoParty},
     stage : DOMAIN Stages, closed : BOOLEAN, gone : BOOLEAN, edited : BOOLEAN, run : Nat, since : Nat]
ActivityRow == [of : Nat, kind : {"NOTE", "TASK"}, done : BOOLEAN]
Engaged ==
    [doing : {"none", "customer", "link", "rows", "move"}, of : Nat, party : Nat \cup {NoParty}, stage : DOMAIN Stages,
     run : Nat, rows : Seq(FileRows), seen : SUBSET ({"n", "p", "e"} \X Words), sellers : SUBSET Sellers, since : Nat]

LeadsTyped ==
    /\ PartyIds = 1..Len(parties) /\ Len(parties) \in Nat /\ \E S : parties \in Seq(S)
    /\ lead \in Seq(LeadRow) /\ (lead # <<>> => staged)
    /\ agent \in [Agents -> Engaged] /\ sellers \subseteq Sellers /\ runs \in Nat

\* What a lead and a request refer to is there.
LeadsRefer ==
    /\ \A l \in LeadIds : lead[l].party \in PartyIds \cup {NoParty}
    /\ \A c \in Agents : /\ agent[c].of \in LeadIds \cup {0}
                         /\ agent[c].doing \in {"customer", "link", "move"} => agent[c].of \in LeadIds
                         /\ agent[c].doing = "link" => agent[c].party \in PartyIds

ActivitiesSound ==
    \A a \in DOMAIN activity : /\ activity[a] \in ActivityRow /\ activity[a].of \in LeadIds
                               /\ ~lead[activity[a].of].gone
                               /\ activity[a].kind # "TASK" => activity[a].done

Making(c, l) == agent[c].doing \in {"customer", "link"} /\ agent[c].of = l

\* A lead that is being made a customer of has none yet, or the one that it is to name.
OneMaker ==
    /\ DOMAIN madeFor \subseteq PartyIds /\ \A p \in DOMAIN madeFor : madeFor[p] \in LeadIds
    /\ \A l \in LeadIds \ (contested \cup relinked) :
         /\ \A c, o \in Agents : Making(c, l) /\ Making(o, l) => c = o
         /\ \A c \in Agents : Making(c, l) =>
              CustomersOf(l) = IF agent[c].doing = "customer" THEN {} ELSE {agent[c].party}
         /\ \E p : CustomersOf(l) \subseteq {p}
         /\ ~lead[l].gone /\ ~Converting(l) => CustomersOf(l) \subseteq {lead[l].party}

Importing(c) == agent[c].doing \in {"rows", "move"}
Comparable(x, l, run, since) == (x.run = run \/ l <= since) /\ ~x.gone /\ ~x.edited

\* An import has seen every lead that was there when it began and every one it made,
\* but for those deleted or edited since.
ImportsSee ==
    /\ \A l \in LeadIds : lead[l].run <= runs
    /\ \A c \in Agents : Importing(c) => staged
    /\ \A c \in Agents : Importing(c) =>
         /\ agent[c].run \in 1..runs /\ agent[c].since <= Len(lead)
         /\ \A l \in LeadIds : Comparable(lead[l], l, agent[c].run, agent[c].since) => Keys(lead[l]) \subseteq agent[c].seen
    /\ \A c, o \in Agents : Importing(c) /\ Importing(o) /\ agent[c].run = agent[o].run => c = o

LeadsApart ==
    \A i, j \in LeadIds :
        i < j /\ lead[j].run # 0 /\ Comparable(lead[i], i, lead[j].run, lead[j].since) /\ ~lead[j].gone /\ ~lead[j].edited
          => Keys(lead[i]) \cap Keys(lead[j]) = {}

ClosedRightly == \A l \in LeadIds : lead[l].closed <=> Stages[lead[l].stage] # "OPEN"

LeadsInv ==
    LeadsTyped /\ LeadsRefer /\ ActivitiesSound /\ OneMaker /\ ImportsSee /\ LeadsApart /\ ClosedRightly

\* What leads, parties and requests are.
LEMMA LeadElements ==
    ASSUME LeadsTyped
    PROVE  /\ LeadIds = 1..Len(lead) /\ Len(lead) \in Nat /\ lead \in [LeadIds -> LeadRow]
           /\ \A l \in LeadIds : lead[l] \in LeadRow /\ l \in Nat /\ l # 0
           /\ \A c \in Agents : agent[c] \in Engaged
           /\ \A p \in PartyIds : p \in Nat /\ p # NoParty
           /\ Unengaged \in Engaged /\ ~(Unengaged.doing \in {"customer", "link", "rows", "move"}) /\ Unengaged.of = 0
<1>1. LeadIds = 1..Len(lead) /\ Len(lead) \in Nat /\ lead \in [LeadIds -> LeadRow]
  BY LenProperties DEF LeadsTyped, LeadIds
<1>2. Unengaged \in Engaged /\ ~(Unengaged.doing \in {"customer", "link", "rows", "move"}) /\ Unengaged.of = 0
  BY LeadsAssumption DEF Unengaged, Engaged
<1> QED BY <1>1, <1>2, LeadsAssumption DEF LeadsTyped

LEMMA LeadsInvHolds == LeadsInv => LeadsAreSound
<1> SUFFICES ASSUME LeadsInv PROVE LeadsAreSound
  OBVIOUS
<1> USE DEF LeadsInv
<1>1. LeadsTypeOK
  BY LeadElements DEF LeadsTypeOK, LeadsTyped, LeadsRefer, ActivitiesSound, LeadRow, Engaged
<1>2. OneCustomerPerLead
  <2> SUFFICES ASSUME NEW l \in LeadIds \ (contested \cup relinked)
               PROVE  /\ Cardinality(CustomersOf(l)) <= 1
                      /\ ~lead[l].gone /\ ~Converting(l) => CustomersOf(l) \subseteq {lead[l].party}
    BY DEF OneCustomerPerLead
  <2>1. PICK p : CustomersOf(l) \subseteq {p}
    BY DEF OneMaker
  <2>2. CustomersOf(l) = {} \/ CustomersOf(l) = {p}
    BY <2>1
  <2>3. Cardinality(CustomersOf(l)) <= 1
    <3>1. Cardinality({p}) = 1
      BY FS_Singleton
    <3>2. Cardinality({}) = 0
      BY FS_EmptySet
    <3> QED BY <2>2, <3>1, <3>2
  <2> QED BY <2>3 DEF OneMaker
<1>3. PipelineIsSound
  <2>1. ASSUME NEW i \in LeadIds, NEW j \in LeadIds, i < j, lead[j].run # 0,
               lead[i].run = lead[j].run \/ i <= lead[j].since, \A l \in {i, j} : ~lead[l].gone /\ ~lead[l].edited
        PROVE  Keys(lead[i]) \cap Keys(lead[j]) = {}
    BY <2>1 DEF LeadsApart, Comparable
  <2>2. \A a \in DOMAIN activity : (activity[a].kind # "TASK" => activity[a].done) /\ Present(activity[a].of)
    BY DEF ActivitiesSound, Present
  <2> QED BY <2>1, <2>2 DEF PipelineIsSound, ClosedRightly
<1> QED BY <1>1, <1>2, <1>3 DEF LeadsAreSound

LEMMA LeadsInitInv == LeadsInit /\ LegacyInit => LeadsInv
<1> SUFFICES ASSUME LeadsInit, LegacyInit PROVE LeadsInv
  OBVIOUS
<1>1. /\ lead = <<>> /\ parties = <<>> /\ LeadIds = {} /\ PartyIds = {} /\ DOMAIN activity = {}
      /\ <<>> \in Seq(LeadRow) /\ Len(parties) = 0 /\ DOMAIN madeFor = {}
  BY DEF LeadsInit, LegacyInit, LeadIds, PartyIds
<1>2. /\ Unengaged \in Engaged /\ Unengaged.doing = "none" /\ Unengaged.of = 0
      /\ agent = [c \in Agents |-> Unengaged]
  BY LeadsAssumption DEF Unengaged, Engaged, LeadsInit
<1>3. LeadsTyped
  BY <1>1, <1>2 DEF LeadsTyped, LeadsInit
<1>4. LeadsRefer /\ ActivitiesSound /\ OneMaker /\ ImportsSee /\ LeadsApart /\ ClosedRightly
  BY <1>1, <1>2 DEF LeadsRefer, ActivitiesSound, OneMaker, ImportsSee, Importing, LeadsApart, ClosedRightly
<1> QED BY <1>3, <1>4 DEF LeadsInv

\* What may become of a lead: it stays of its import, and is not brought back.
Advances(old, new) ==
    /\ new.run = old.run /\ new.since = old.since
    /\ (old.gone => new.gone) /\ (old.edited => new.edited)
    /\ new.edited \/ Keys(new) = Keys(old)
    /\ new.closed <=> Stages[new.stage] # "OPEN"

\* The leads there are, and at most one request, change; no customer is made.
Changed(c, x) ==
    /\ LeadIds' = LeadIds /\ lead' \in Seq(LeadRow) /\ Len(lead') = Len(lead) /\ staged' = staged
    /\ \A l \in LeadIds : /\ Advances(lead[l], lead'[l]) /\ lead'[l].party \in PartyIds \cup {NoParty}
                          /\ \/ lead'[l].party = lead[l].party \/ l \in relinked'
                             \/ Making(c, l) /\ agent[c].doing = "link" /\ lead'[l].party = agent[c].party
    /\ x \in Engaged /\ agent' = [agent EXCEPT ![c] = x]
    /\ sellers' \subseteq Sellers /\ runs' = runs /\ parties' = parties /\ madeFor' = madeFor
    /\ contested \subseteq contested' /\ relinked \subseteq relinked'
    /\ x.of \in LeadIds \cup {0} /\ (x.doing = "move" => x.of \in LeadIds)
    /\ x = agent[c] \/ ~(x.doing \in {"customer", "link"})
    /\ x.doing \in {"rows", "move"} =>
         /\ Importing(c) /\ x.run = agent[c].run /\ x.since = agent[c].since /\ agent[c].seen \subseteq x.seen
    /\ (x # agent[c] /\ agent[c].doing = "link") =>
         \/ agent[c].of \in contested'
         \/ lead'[agent[c].of].gone
         \/ lead'[agent[c].of].party = agent[c].party

LEMMA ChangedInv ==
    ASSUME LeadsInv, NEW c \in Agents, NEW x, Changed(c, x), ActivitiesSound'
    PROVE  LeadsInv'
<1> USE DEF LeadsInv
<1> USE DEF Changed
<1>1. /\ \A o \in Agents : agent'[o] = IF o = c THEN x ELSE agent[o]
      /\ agent' \in [Agents -> Engaged]
      /\ PartyIds' = PartyIds
  BY DEF LeadsTyped, PartyIds
<1>2. LeadsTyped'
  <2>1. lead' # <<>> => lead # <<>>
    BY LeadElements DEF LeadsTyped
  <2> QED BY <1>1, <2>1 DEF LeadsTyped
<1>3. LeadsRefer'
  BY <1>1 DEF LeadsRefer
<1>4. /\ \A o \in Agents : \A l : Making(o, l)' <=> Making(o, l) /\ (o = c => x = agent[c])
      /\ \A l : CustomersOf(l)' = CustomersOf(l)
  BY <1>1 DEF Making, CustomersOf
<1>5. OneMaker'
  <2> SUFFICES ASSUME NEW l \in LeadIds, l \notin contested', l \notin relinked'
               PROVE  /\ \A o, p \in Agents : Making(o, l)' /\ Making(p, l)' => o = p
                      /\ \A o \in Agents : Making(o, l)' =>
                           CustomersOf(l) = IF agent'[o].doing = "customer" THEN {} ELSE {agent'[o].party}
                      /\ \E p : CustomersOf(l) \subseteq {p}
                      /\ ~lead'[l].gone /\ ~(Converting(l)') => CustomersOf(l) \subseteq {lead'[l].party}
    BY <1>1, <1>4 DEF OneMaker
  <2>1. /\ \A o, p \in Agents : Making(o, l) /\ Making(p, l) => o = p
        /\ \A o \in Agents : Making(o, l) =>
             CustomersOf(l) = IF agent[o].doing = "customer" THEN {} ELSE {agent[o].party}
        /\ \E p : CustomersOf(l) \subseteq {p}
        /\ ~lead[l].gone /\ ~Converting(l) => CustomersOf(l) \subseteq {lead[l].party}
    BY DEF OneMaker
  <2>2. ASSUME NEW o \in Agents, Making(o, l)'
        PROVE  CustomersOf(l) = IF agent'[o].doing = "customer" THEN {} ELSE {agent'[o].party}
    <3>1. Making(o, l) /\ agent'[o] = agent[o]
      BY <1>1, <1>4, <2>2
    <3> QED BY <2>1, <3>1
  <2>3. ASSUME ~lead'[l].gone, ~(Converting(l)')
        PROVE  CustomersOf(l) \subseteq {lead'[l].party}
    <3>1. ~lead[l].gone
      BY <2>3 DEF Advances
    <3>2. CASE Converting(l)
      <4>1. PICK o \in Agents : agent[o].doing = "link" /\ agent[o].of = l
        BY <3>2 DEF Converting
      <4>2. o = c /\ x # agent[c]
        BY <1>1, <2>3, <4>1 DEF Converting
      <4>3. CustomersOf(l) = {agent[c].party}
        BY <2>1, <4>1, <4>2 DEF Making
      <4> QED BY <2>3, <4>1, <4>2, <4>3
    <3>3. CASE ~Converting(l)
      <4>1. ~(Making(c, l) /\ agent[c].doing = "link")
        BY <3>3 DEF Converting, Making
      <4>2. lead'[l].party = lead[l].party
        BY <4>1
      <4> QED BY <2>1, <3>1, <3>3, <4>2
    <3> QED BY <3>2, <3>3
  <2> QED BY <1>4, <2>1, <2>2, <2>3
<1>6. \A l \in LeadIds : \A run, since : Comparable(lead'[l], l, run, since) => Comparable(lead[l], l, run, since) /\ Keys(lead'[l]) = Keys(lead[l])
  BY DEF Comparable, Advances
<1>7. ImportsSee'
  <2>1. \A o \in Agents : Importing(o)' =>
           /\ Importing(o) /\ agent'[o].run = agent[o].run /\ agent'[o].since = agent[o].since
           /\ agent[o].seen \subseteq agent'[o].seen
    BY <1>1 DEF Importing
  <2>2. \A l \in LeadIds : lead'[l].run <= runs'
    BY DEF ImportsSee, Advances
  <2>3. ASSUME NEW o \in Agents, Importing(o)'
        PROVE  /\ agent'[o].run \in 1..runs' /\ agent'[o].since <= Len(lead')
               /\ \A l \in LeadIds : Comparable(lead'[l], l, agent'[o].run, agent'[o].since) => Keys(lead'[l]) \subseteq agent'[o].seen
    BY <1>6, <2>1, <2>3 DEF ImportsSee
  <2> QED BY <2>1, <2>2, <2>3 DEF ImportsSee, Comparable
<1>8. LeadsApart'
  <2> SUFFICES ASSUME NEW i \in LeadIds, NEW j \in LeadIds, i < j, lead'[j].run # 0,
                      lead'[i].run = lead'[j].run \/ i <= lead'[j].since, ~lead'[i].gone, ~lead'[i].edited,
                      ~lead'[j].gone, ~lead'[j].edited
               PROVE  Keys(lead'[i]) \cap Keys(lead'[j]) = {}
    BY DEF LeadsApart, Comparable
  <2>1. \A l \in {i, j} : /\ lead'[l].run = lead[l].run /\ lead'[l].since = lead[l].since
                          /\ ~lead[l].gone /\ ~lead[l].edited /\ Keys(lead'[l]) = Keys(lead[l])
    BY DEF Advances
  <2> QED BY <2>1 DEF LeadsApart, Comparable
<1>9. ClosedRightly'
  BY DEF ClosedRightly, Advances
<1> QED BY <1>2, <1>3, <1>5, <1>7, <1>8, <1>9

\* A lead is added, by a user or by the import of request c.
Grown(c, x, r) ==
    /\ r \in LeadRow /\ r.party \in PartyIds \cup {NoParty} /\ ~r.gone /\ ~r.edited
    /\ r.closed <=> Stages[r.stage] # "OPEN"
    /\ lead' = Append(lead, r) /\ staged'
    /\ UNCHANGED <<parties, madeFor, contested, relinked, runs, sellers, activity>>
    /\ x \in Engaged /\ agent' = [agent EXCEPT ![c] = x]
    /\ x = agent[c] \/ /\ Importing(c) /\ x.doing \in {"rows", "move"} /\ x.of \in LeadIds \cup {0, Len(lead')}
                       /\ x.doing = "move" => x.of # 0
                       /\ x.run = agent[c].run /\ x.since = agent[c].since /\ agent[c].seen \subseteq x.seen
    /\ r.run # 0 => /\ Importing(c) /\ r.run = agent[c].run /\ r.since = agent[c].since
                    /\ Keys(r) \cap agent[c].seen = {} /\ Keys(r) \subseteq x.seen

LEMMA GrownInv ==
    ASSUME LeadsInv, NEW c \in Agents, NEW x, NEW r, Grown(c, x, r)
    PROVE  LeadsInv'
<1> USE DEF LeadsInv
<1> USE DEF Grown
<1> DEFINE n == Len(lead) + 1
<1>1. /\ \A o \in Agents : agent'[o] = IF o = c THEN x ELSE agent[o]
      /\ agent' \in [Agents -> Engaged]
      /\ PartyIds' = PartyIds /\ Len(parties) \in Nat
  BY DEF LeadsTyped, PartyIds
<1>2. /\ lead' \in Seq(LeadRow) /\ Len(lead') = n /\ LeadIds' = LeadIds \cup {n} /\ n \notin LeadIds
      /\ \A l \in LeadIds : lead'[l] = lead[l]
      /\ lead'[n] = r
  BY AddAtEnd DEF LeadsTyped, LeadIds
<1>3. LeadIds = 1..Len(lead) /\ Len(lead) \in Nat /\ n \in Nat /\ n # 0 /\ \A l \in LeadIds : lead[l] \in LeadRow
  BY LeadElements
<1> HIDE DEF n
<1>4. LeadsTyped'
  BY <1>1, <1>2 DEF LeadsTyped
<1>5. LeadsRefer'
  BY <1>1, <1>2, <1>3 DEF LeadsRefer
<1>6. ActivitiesSound'
  BY <1>2 DEF ActivitiesSound
<1>7. /\ \A o \in Agents : \A l : Making(o, l)' <=> Making(o, l)
      /\ \A o \in Agents : \A l : Making(o, l) => agent'[o] = agent[o]
      /\ \A l : CustomersOf(l)' = CustomersOf(l) /\ (Converting(l)' <=> Converting(l))
  BY <1>1 DEF Making, CustomersOf, Converting, Importing
<1>8. OneMaker'
  <2>1. CustomersOf(n) = {} /\ \A o \in Agents : ~Making(o, n)
    BY <1>2 DEF OneMaker, CustomersOf, LeadsRefer, Making
  <2>2. \A l \in LeadIds' \ (contested' \cup relinked') :
           l = n \/ (l \in LeadIds \ (contested \cup relinked) /\ lead'[l] = lead[l])
    BY <1>2
  <2>3. DOMAIN madeFor' \subseteq PartyIds' /\ \A p \in DOMAIN madeFor' : madeFor'[p] \in LeadIds'
    BY <1>1, <1>2 DEF OneMaker
  <2>4. ASSUME NEW l \in LeadIds' \ (contested' \cup relinked')
        PROVE  /\ \A o, p \in Agents : Making(o, l) /\ Making(p, l) => o = p
               /\ \A o \in Agents : Making(o, l) =>
                    CustomersOf(l) = IF agent'[o].doing = "customer" THEN {} ELSE {agent'[o].party}
               /\ \E p : CustomersOf(l) \subseteq {p}
               /\ ~lead'[l].gone /\ ~Converting(l) => CustomersOf(l) \subseteq {lead'[l].party}
    <3>1. CASE l = n
      BY <1>7, <2>1, <3>1
    <3>2. CASE l # n
      <4>1. l \in LeadIds \ (contested \cup relinked) /\ lead'[l] = lead[l]
        BY <2>2, <3>2
      <4>2. \A o \in Agents : Making(o, l) => agent'[o] = agent[o]
        BY <1>7
      <4>3. /\ \A o, p \in Agents : Making(o, l) /\ Making(p, l) => o = p
            /\ \A o \in Agents : Making(o, l) =>
                 CustomersOf(l) = IF agent[o].doing = "customer" THEN {} ELSE {agent[o].party}
            /\ \E p : CustomersOf(l) \subseteq {p}
            /\ ~lead[l].gone /\ ~Converting(l) => CustomersOf(l) \subseteq {lead[l].party}
        BY <4>1 DEF OneMaker
      <4>4. ASSUME NEW o \in Agents, Making(o, l)
            PROVE  CustomersOf(l) = IF agent'[o].doing = "customer" THEN {} ELSE {agent'[o].party}
        <5>1. agent'[o] = agent[o]
          BY <4>2, <4>4
        <5> QED BY <4>3, <4>4, <5>1
      <4>5. ~lead'[l].gone /\ ~Converting(l) => CustomersOf(l) \subseteq {lead'[l].party}
        BY <4>1, <4>3
      <4> HIDE DEF Grown
      <4> QED BY <4>3, <4>4, <4>5
    <3> QED BY <3>1, <3>2
  <2> QED BY <1>7, <2>3, <2>4 DEF OneMaker
<1>9. ImportsSee'
  <2>1. \A o \in Agents : Importing(o)' =>
           /\ Importing(o) /\ agent'[o].run = agent[o].run /\ agent'[o].since = agent[o].since
           /\ agent[o].seen \subseteq agent'[o].seen
    BY <1>1 DEF Importing
  <2>2. \A o \in Agents : Importing(o) => agent[o].run \in 1..runs /\ agent[o].since <= Len(lead) /\ agent[o].since \in Nat
    BY LeadElements DEF ImportsSee, Engaged
  <2>3. \A l \in LeadIds' : lead'[l].run <= runs
    BY <1>2, <1>3, <2>2 DEF ImportsSee, LeadsTyped
  <2>4. ASSUME NEW o \in Agents, Importing(o)'
        PROVE  /\ agent'[o].run \in 1..runs /\ agent'[o].since <= Len(lead')
               /\ \A l \in LeadIds' : Comparable(lead'[l], l, agent'[o].run, agent'[o].since) => Keys(lead'[l]) \subseteq agent'[o].seen
    <3>1. Importing(o) /\ agent'[o].run = agent[o].run /\ agent'[o].since = agent[o].since /\ agent[o].seen \subseteq agent'[o].seen
      BY <2>1, <2>4
    <3>2. agent'[o].run \in 1..runs /\ agent'[o].since <= Len(lead')
      BY <1>2, <1>3, <2>2, <3>1 DEF n
    <3>3. ASSUME NEW l \in LeadIds, Comparable(lead'[l], l, agent'[o].run, agent'[o].since)
          PROVE  Keys(lead'[l]) \subseteq agent'[o].seen
      BY <1>2, <3>1, <3>3 DEF ImportsSee
    <3>4. ASSUME Comparable(r, n, agent'[o].run, agent'[o].since)
          PROVE  Keys(r) \subseteq agent'[o].seen
      <4>1. ~(n <= agent[o].since)
        BY <1>3, <2>2, <3>1 DEF n
      <4>2. r.run = agent[o].run /\ r.run # 0
        BY <2>2, <3>1, <3>4, <4>1 DEF Comparable
      <4>3. o = c
        BY <3>1, <4>2 DEF ImportsSee
      <4> QED BY <1>1, <4>2, <4>3
    <3> QED BY <1>2, <3>2, <3>3, <3>4
  <2>5. \A o, p \in Agents : Importing(o)' /\ Importing(p)' /\ agent'[o].run = agent'[p].run => o = p
    BY <2>1 DEF ImportsSee
  <2> QED BY <2>3, <2>4, <2>5 DEF ImportsSee
<1>10. LeadsApart'
  <2> SUFFICES ASSUME NEW i \in LeadIds', NEW j \in LeadIds', i < j, lead'[j].run # 0,
                      Comparable(lead'[i], i, lead'[j].run, lead'[j].since), ~lead'[j].gone, ~lead'[j].edited
               PROVE  Keys(lead'[i]) \cap Keys(lead'[j]) = {}
    BY DEF LeadsApart
  <2>1. CASE j \in LeadIds
    <3>1. i \in LeadIds
      BY <1>2, <1>3, <2>1 DEF n
    <3> QED BY <1>2, <2>1, <3>1 DEF LeadsApart
  <2>2. CASE j = n
    <3>1. i \in LeadIds
      BY <1>2, <1>3, <2>2
    <3>2. /\ r.run # 0 /\ Comparable(lead[i], i, agent[c].run, agent[c].since)
          /\ Keys(r) \cap agent[c].seen = {} /\ Importing(c)
      BY <1>2, <2>2, <3>1
    <3>3. Keys(lead[i]) \subseteq agent[c].seen
      BY <3>1, <3>2 DEF ImportsSee
    <3> QED BY <1>2, <2>2, <3>1, <3>2, <3>3
  <2> QED BY <1>2, <2>1, <2>2
<1>11. ClosedRightly'
  <2>1. \A l \in LeadIds : lead'[l].closed <=> Stages[lead'[l].stage] # "OPEN"
    BY <1>2 DEF ClosedRightly
  <2>2. lead'[n].closed <=> Stages[lead'[n].stage] # "OPEN"
    BY <1>2
  <2> QED BY <1>2, <2>1, <2>2 DEF ClosedRightly
<1> QED BY <1>4, <1>5, <1>6, <1>8, <1>9, <1>10, <1>11

LeadIsNow(l, r) == lead' = [lead EXCEPT ![l] = r]

LEMMA OneLeadChanged ==
    ASSUME LeadsInv, NEW l \in LeadIds, NEW r \in LeadRow, LeadIsNow(l, r), Advances(lead[l], r)
    PROVE  /\ LeadIds' = LeadIds /\ lead' \in Seq(LeadRow) /\ Len(lead') = Len(lead)
           /\ \A m \in LeadIds : lead'[m] = IF m = l THEN r ELSE lead[m]
           /\ \A m \in LeadIds : Advances(lead[m], lead'[m])
<1> USE DEF LeadsInv
<1>1. lead \in [LeadIds -> LeadRow] /\ lead \in Seq(LeadRow)
  BY LeadElements DEF LeadsTyped
<1>2. lead' \in [DOMAIN lead -> LeadRow] /\ \A m \in LeadIds : lead'[m] = IF m = l THEN r ELSE lead[m]
  BY <1>1 DEF LeadIsNow, LeadIds
<1>3. lead' \in Seq(LeadRow) /\ Len(lead') = Len(lead) /\ DOMAIN lead' = DOMAIN lead
  BY <1>1, <1>2, SamePositions
<1>4. \A m \in LeadIds : Advances(lead[m], lead[m])
  BY DEF Advances, ClosedRightly
<1>5. \A m \in LeadIds : Advances(lead[m], lead'[m])
  BY <1>2, <1>4
<1> QED BY <1>2, <1>3, <1>5 DEF LeadIds

\* No lead changes.
LEMMA NoLeadChanged ==
    ASSUME LeadsInv, lead' = lead
    PROVE  /\ LeadIds' = LeadIds /\ lead' \in Seq(LeadRow) /\ Len(lead') = Len(lead)
           /\ \A m \in LeadIds : Advances(lead[m], lead'[m])
BY DEF LeadsInv, LeadIds, LeadsTyped, Advances, ClosedRightly

\* A user works on a lead: the form, the owner, the stage, its deletion.
LEMMA LeadWorkInv ==
    ASSUME LeadsInv, NEW l \in LeadIds,
           \/ \E d \in Drafts, party \in PartyIds \cup {NoParty} : UpdateLead(l, d, party)
           \/ \E u \in Sellers \cup {NoSeller} : AssignLead(l, u)
           \/ \E stage \in DOMAIN Stages : Move(l, stage)
           \/ DeleteLead(l)
    PROVE  LeadsInv'
<1> USE DEF LeadsInv
<1>1. PICK c \in Agents : TRUE
  BY LeadsAssumption
<1>2. /\ lead[l] \in LeadRow /\ agent[c] \in Engaged
      /\ agent = [agent EXCEPT ![c] = agent[c]]
      /\ agent[c].of \in LeadIds \cup {0} /\ (agent[c].doing = "move" => agent[c].of \in LeadIds)
      /\ agent[c].doing \in {"rows", "move"} => Importing(c)
  BY LeadElements DEF LeadsRefer, Importing, LeadsTyped
<1>3. ASSUME NEW r \in LeadRow, LeadIsNow(l, r), Advances(lead[l], r), r.party \in PartyIds \cup {NoParty},
             r.party = lead[l].party \/ l \in relinked', relinked \subseteq relinked',
             UNCHANGED <<staged, agent, sellers, runs, parties, madeFor, contested>>,
             ActivitiesSound'
      PROVE  LeadsInv'
  <2>1. /\ LeadIds' = LeadIds /\ lead' \in Seq(LeadRow) /\ Len(lead') = Len(lead)
        /\ \A m \in LeadIds : lead'[m] = IF m = l THEN r ELSE lead[m]
        /\ \A m \in LeadIds : Advances(lead[m], lead'[m])
    BY <1>3, OneLeadChanged
  <2>2. \A m \in LeadIds : /\ lead'[m].party \in PartyIds \cup {NoParty}
                           /\ lead'[m].party = lead[m].party \/ m \in relinked'
    BY <1>3, <2>1 DEF LeadsRefer
  <2>3. Changed(c, agent[c])
    BY <1>2, <1>3, <2>1, <2>2 DEF Changed, LeadsTyped
  <2> QED BY <1>3, <2>3, ChangedInv
<1>4. ASSUME NEW r, LeadIsNow(l, r), r.gone = lead[l].gone, activity' = activity
      PROVE  ActivitiesSound'
  <2>1. /\ LeadIds' = LeadIds /\ \A m \in LeadIds : lead'[m] = IF m = l THEN r ELSE lead[m]
    BY <1>4, LeadElements DEF LeadIds, LeadIsNow
  <2> QED BY <1>4, <2>1 DEF ActivitiesSound
<1>5. CASE \E d \in Drafts, party \in PartyIds \cup {NoParty} : UpdateLead(l, d, party)
  <2>1. PICK d \in Drafts, party \in PartyIds \cup {NoParty} : UpdateLead(l, d, party)
    BY <1>5
  <2>2. PICK r : r = [lead[l] EXCEPT !.title = d.title, !.phone = d.phone, !.email = d.email, !.party = party, !.edited = TRUE]
    OBVIOUS
  <2>3. /\ r \in LeadRow /\ r.party = party /\ r.gone = lead[l].gone /\ r.edited
        /\ r.run = lead[l].run /\ r.since = lead[l].since /\ r.stage = lead[l].stage /\ r.closed = lead[l].closed
    <3>1. d.title \in Words /\ d.phone \in Words /\ d.email \in Words
      BY DEF Words
    <3>2. party \in Nat \cup {NoParty}
      BY LeadElements
    <3> QED BY <1>2, <2>2, <3>1, <3>2 DEF LeadRow
  <2>4. LeadIsNow(l, r) /\ Advances(lead[l], r)
    BY <2>1, <2>2, <2>3 DEF UpdateLead, LeadIsNow, Advances, ClosedRightly
  <2>5. /\ UNCHANGED <<staged, activity, agent, sellers, runs, parties, madeFor, contested>>
        /\ (r.party = lead[l].party \/ l \in relinked')
        /\ relinked \subseteq relinked'
    BY <2>1, <2>3 DEF UpdateLead, OthersKept, legacyVars
  <2> QED BY <1>3, <1>4, <2>3, <2>4, <2>5
<1>6. CASE \E u \in Sellers \cup {NoSeller} : AssignLead(l, u)
  <2>1. PICK u \in Sellers \cup {NoSeller} : AssignLead(l, u)
    BY <1>6
  <2>2. PICK r : r = [lead[l] EXCEPT !.owner = u]
    OBVIOUS
  <2>3. /\ r \in LeadRow /\ r.party = lead[l].party /\ r.gone = lead[l].gone /\ r.edited = lead[l].edited
        /\ r.run = lead[l].run /\ r.since = lead[l].since /\ r.stage = lead[l].stage /\ r.closed = lead[l].closed
        /\ Keys(r) = Keys(lead[l])
    BY <1>2, <2>2 DEF LeadRow, Keys
  <2>4. LeadIsNow(l, r) /\ Advances(lead[l], r)
    BY <2>1, <2>2, <2>3 DEF AssignLead, LeadIsNow, Advances, ClosedRightly
  <2>5. UNCHANGED <<staged, activity, agent, sellers, runs, parties, madeFor, contested, relinked>>
    BY <2>1 DEF AssignLead, OthersKept, legacyVars, HistoryKept
  <2> QED BY <1>3, <1>4, <2>3, <2>4, <2>5 DEF LeadsRefer
<1>7. CASE \E stage \in DOMAIN Stages : Move(l, stage)
  <2>1. PICK stage \in DOMAIN Stages : Move(l, stage)
    BY <1>7
  <2>2. PICK r : r = Moved(lead[l], stage)
    OBVIOUS
  <2>3. /\ r \in LeadRow /\ r.party = lead[l].party /\ r.gone = lead[l].gone /\ r.edited = lead[l].edited
        /\ r.run = lead[l].run /\ r.since = lead[l].since /\ r.stage = stage /\ r.closed = (Stages[stage] # "OPEN")
        /\ Keys(r) = Keys(lead[l])
    BY <1>2, <2>2 DEF LeadRow, Keys, Moved
  <2>4. LeadIsNow(l, r) /\ Advances(lead[l], r)
    BY <2>1, <2>2, <2>3 DEF Move, LeadIsNow, Advances
  <2>5. UNCHANGED <<staged, activity, agent, sellers, runs, parties, madeFor, contested, relinked>>
    BY <2>1 DEF Move, OthersKept, legacyVars, HistoryKept
  <2> QED BY <1>3, <1>4, <2>3, <2>4, <2>5 DEF LeadsRefer
<1>8. CASE DeleteLead(l)
  <2>1. PICK r : r = [lead[l] EXCEPT !.gone = TRUE]
    OBVIOUS
  <2>2. /\ r \in LeadRow /\ r.party = lead[l].party /\ r.gone /\ r.edited = lead[l].edited
        /\ r.run = lead[l].run /\ r.since = lead[l].since /\ r.stage = lead[l].stage /\ r.closed = lead[l].closed
        /\ Keys(r) = Keys(lead[l])
    BY <1>2, <2>1 DEF LeadRow, Keys
  <2>3. LeadIsNow(l, r) /\ Advances(lead[l], r)
    BY <1>8, <2>1, <2>2 DEF DeleteLead, LeadIsNow, Advances, ClosedRightly
  <2>4. UNCHANGED <<staged, agent, sellers, runs, parties, madeFor, contested, relinked>>
    BY <1>8 DEF DeleteLead, OthersKept, legacyVars, HistoryKept
  <2>5. ActivitiesSound'
    <3>1. /\ LeadIds' = LeadIds /\ \A m \in LeadIds : lead'[m] = IF m = l THEN r ELSE lead[m]
      BY <2>3, LeadElements DEF LeadIds, LeadIsNow
    <3>2. \A a \in DOMAIN activity' : a \in DOMAIN activity /\ activity'[a] = activity[a] /\ activity[a].of # l
      BY <1>8 DEF DeleteLead
    <3> QED BY <3>1, <3>2 DEF ActivitiesSound
  <2> QED BY <1>3, <2>2, <2>3, <2>4, <2>5 DEF LeadsRefer
<1> QED BY <1>5, <1>6, <1>7, <1>8

\* Activities, the team and the stages change; the leads do not.
LEMMA LeadMattersInv ==
    ASSUME LeadsInv,
           \/ SeedStages
           \/ \E l \in LeadIds, kind \in {"NOTE", "TASK"} : AddActivity(l, kind)
           \/ \E a \in DOMAIN activity, done \in BOOLEAN : CompleteActivity(a, done)
           \/ \E u \in Sellers : SuspendSeller(u)
    PROVE  LeadsInv'
<1> USE DEF LeadsInv
<1>1. /\ UNCHANGED <<lead, agent, runs, parties, madeFor, contested, relinked>>
      /\ sellers' \subseteq Sellers /\ (staged' = staged \/ staged')
  BY DEF SeedStages, EnsureStages, AddActivity, CompleteActivity, SuspendSeller, LeadsTyped, OthersKept,
         legacyVars, HistoryKept
<1>2. ActivitiesSound'
  <2>1. CASE activity' = activity
    BY <1>1, <2>1 DEF ActivitiesSound, LeadIds
  <2>2. ASSUME NEW l \in LeadIds, NEW kind \in {"NOTE", "TASK"}, AddActivity(l, kind)
        PROVE  ActivitiesSound'
    <3>1. PICK a : activity' = [x \in DOMAIN activity \cup {a} |->
                      IF x = a THEN [of |-> l, kind |-> kind, done |-> kind # "TASK"] ELSE activity[x]]
      BY <2>2 DEF AddActivity
    <3>2. l \in Nat /\ ~lead[l].gone
      BY <2>2, LeadElements DEF AddActivity, Present
    <3> QED BY <1>1, <3>1, <3>2 DEF ActivitiesSound, ActivityRow, LeadIds
  <2>3. ASSUME NEW a \in DOMAIN activity, NEW done \in BOOLEAN, CompleteActivity(a, done)
        PROVE  ActivitiesSound'
    <3>1. PICK x : x = [activity[a] EXCEPT !.done = done]
      OBVIOUS
    <3>2. activity[a] \in ActivityRow /\ activity[a].kind = "TASK"
      BY <2>3 DEF CompleteActivity, ActivitiesSound
    <3>3. x \in ActivityRow /\ x.of = activity[a].of /\ x.kind = "TASK"
      BY <3>1, <3>2 DEF ActivityRow
    <3>4. activity' = [activity EXCEPT ![a] = x]
      BY <2>3, <3>1 DEF CompleteActivity
    <3>5. DOMAIN activity' = DOMAIN activity /\ \A b \in DOMAIN activity : activity'[b] = IF b = a THEN x ELSE activity[b]
      BY <3>4
    <3> QED BY <1>1, <3>3, <3>5 DEF ActivitiesSound, LeadIds
  <2>4. (SeedStages \/ \E u \in Sellers : SuspendSeller(u)) => activity' = activity
    BY DEF SeedStages, SuspendSeller
  <2> QED BY <2>1, <2>2, <2>3, <2>4
<1>3. LeadsTyped' /\ LeadsRefer'
  BY <1>1 DEF LeadsTyped, LeadsRefer, LeadIds, PartyIds
<1>4. OneMaker'
  BY <1>1 DEF OneMaker, Making, CustomersOf, Converting, LeadIds, PartyIds
<1>5. ImportsSee' /\ LeadsApart' /\ ClosedRightly'
  BY <1>1 DEF ImportsSee, Importing, LeadsApart, ClosedRightly, LeadIds
<1> QED BY <1>2, <1>3, <1>4, <1>5

\* A party is added by the contacts; or none is, and no lead changes.
LEMMA PartyAddedInv ==
    ASSUME LeadsInv, NEW new \in NewParties, CreateParty(new), UNCHANGED leadVars
    PROVE  LeadsInv'
<1> USE DEF LeadsInv
<1>1. UNCHANGED <<staged, lead, activity, sellers, agent, madeFor, contested, relinked, runs>>
  BY DEF leadVars
<1>2. PICK S : parties \in Seq(S)
  BY DEF LeadsTyped
<1>3. PICK e : parties' = Append(parties, e)
  BY DEF CreateParty
<1>4. parties \in Seq(S \cup {e}) /\ e \in S \cup {e}
  BY <1>2, SeqMonotonic
<1>5. /\ parties' \in Seq(S \cup {e}) /\ Len(parties') = Len(parties) + 1
      /\ PartyIds' = PartyIds \cup {Len(parties) + 1}
  BY <1>3, <1>4, AddAtEnd DEF PartyIds
<1>6. PartyIds' = 1..Len(parties') /\ Len(parties') \in Nat /\ PartyIds \subseteq PartyIds'
  <2>1. PartyIds = 1..Len(parties) /\ Len(parties) \in Nat
    BY DEF LeadsTyped
  <2> QED BY <1>5, <2>1
<1>7. LeadsTyped' /\ LeadsRefer'
  BY <1>1, <1>5, <1>6 DEF LeadsTyped, LeadsRefer, LeadIds
<1>8. OneMaker'
  <2>1. DOMAIN madeFor \subseteq PartyIds'
    BY <1>6 DEF OneMaker
  <2>2. UNCHANGED <<LeadIds, Agents>>
    BY <1>1 DEF LeadIds
  <2>3. /\ \A c \in Agents : \A l : Making(c, l)' <=> Making(c, l)
        /\ \A l : CustomersOf(l)' = CustomersOf(l) /\ (Converting(l)' <=> Converting(l))
    BY <1>1 DEF Making, CustomersOf, Converting
  <2> QED BY <1>1, <2>1, <2>2, <2>3 DEF OneMaker
<1>9. ActivitiesSound' /\ ImportsSee' /\ LeadsApart' /\ ClosedRightly'
  BY <1>1 DEF ActivitiesSound, ImportsSee, Importing, LeadsApart, ClosedRightly, LeadIds
<1> QED BY <1>7, <1>8, <1>9

\* Only request c changes: it reads a lead that has no customer.
LEMMA MakeCustomerInv ==
    ASSUME LeadsInv, NEW c \in Agents, NEW l \in LeadIds, MakeCustomer(c, l)
    PROVE  LeadsInv'
<1> USE DEF LeadsInv
<1>1. PICK x : x = [Unengaged EXCEPT !.doing = "customer", !.of = l]
  OBVIOUS
<1>2. /\ x \in Engaged /\ x.doing = "customer" /\ x.of = l
      /\ agent[c] = Unengaged /\ ~(Unengaged.doing \in {"customer", "link", "rows", "move"})
  BY <1>1, LeadElements DEF Unengaged, Engaged, MakeCustomer, MakeAnother
<1>3. /\ ~lead[l].gone /\ lead[l].party = NoParty
      /\ agent' = [agent EXCEPT ![c] = x]
      /\ UNCHANGED <<staged, lead, activity, sellers, madeFor, relinked, runs, parties>>
      /\ contested' = IF \E o \in Agents : agent[o].of = l /\ agent[o].doing # "move"
                      THEN contested \cup {l} ELSE contested
  BY <1>1 DEF MakeCustomer, MakeAnother, Present, OthersKept, legacyVars
<1>4. \A o \in Agents : agent'[o] = IF o = c THEN x ELSE agent[o]
  BY <1>3 DEF LeadsTyped
<1>5. LeadsTyped' /\ LeadsRefer' /\ ActivitiesSound'
  BY <1>2, <1>3, <1>4 DEF LeadsTyped, LeadsRefer, ActivitiesSound, LeadIds, PartyIds
<1>6. ImportsSee' /\ LeadsApart' /\ ClosedRightly'
  <2>1. \A o \in Agents : Importing(o)' => Importing(o) /\ agent'[o] = agent[o]
    BY <1>2, <1>4 DEF Importing
  <2> QED BY <1>3, <2>1 DEF ImportsSee, LeadsApart, ClosedRightly, LeadIds
<1>7. OneMaker'
  <2>1. /\ \A o \in Agents : \A m : Making(o, m)' <=> Making(o, m) \/ (o = c /\ m = l)
        /\ ~Making(c, l) /\ \A o \in Agents : \A m : Making(o, m) => agent'[o] = agent[o]
        /\ \A m : CustomersOf(m)' = CustomersOf(m) /\ (Converting(m)' <=> Converting(m))
    BY <1>2, <1>3, <1>4 DEF Making, CustomersOf, Converting
  <2>2. DOMAIN madeFor' \subseteq PartyIds' /\ \A p \in DOMAIN madeFor' : madeFor'[p] \in LeadIds'
    BY <1>3 DEF OneMaker, LeadIds, PartyIds
  <2>3. ASSUME NEW m \in LeadIds \ (contested' \cup relinked)
        PROVE  /\ \A o \in Agents : Making(o, m) => m # l
               /\ \A o, p \in Agents : Making(o, m) /\ Making(p, m) => o = p
               /\ \A o \in Agents : Making(o, m) =>
                    CustomersOf(m) = IF agent[o].doing = "customer" THEN {} ELSE {agent[o].party}
               /\ \E p : CustomersOf(m) \subseteq {p}
               /\ ~lead[m].gone /\ ~Converting(m) => CustomersOf(m) \subseteq {lead[m].party}
    <3>1. m \in LeadIds \ (contested \cup relinked)
      BY <1>3, <2>3
    <3>2. \A o \in Agents : Making(o, m) => m # l
      BY <1>3, <2>3 DEF Making
    <3> QED BY <3>1, <3>2 DEF OneMaker
  <2>4. ASSUME l \notin contested', l \notin relinked
        PROVE  CustomersOf(l) = {}
    <3>1. ~Converting(l)
      BY <1>3, <2>4 DEF Converting
    <3>2. CustomersOf(l) \subseteq {NoParty}
      BY <1>3, <2>3, <2>4, <3>1
    <3>3. CustomersOf(l) \subseteq PartyIds
      BY DEF CustomersOf, OneMaker
    <3> QED BY <3>2, <3>3, LeadElements
  <2>5. ASSUME NEW m \in LeadIds \ (contested' \cup relinked), NEW o \in Agents, Making(o, m)'
        PROVE  CustomersOf(m) = IF agent'[o].doing = "customer" THEN {} ELSE {agent'[o].party}
    <3>1. CASE o = c /\ m = l
      BY <1>2, <1>4, <2>4, <2>5, <3>1
    <3>2. CASE Making(o, m)
      <4>1. agent'[o] = agent[o]
        BY <2>1, <3>2
      <4> QED BY <2>3, <3>2, <4>1
    <3> QED BY <2>1, <2>5, <3>1, <3>2
  <2>6. ASSUME NEW m \in LeadIds \ (contested' \cup relinked), NEW o \in Agents, NEW p \in Agents, Making(o, m)', Making(p, m)'
        PROVE  o = p
    BY <2>1, <2>3, <2>6
  <2>7. /\ LeadIds' = LeadIds /\ lead' = lead /\ relinked' = relinked
    BY <1>3 DEF LeadIds
  <2> QED BY <2>1, <2>2, <2>3, <2>5, <2>6, <2>7 DEF OneMaker
<1> QED BY <1>5, <1>6, <1>7

\* The customer of a lead is made, or its phone is somebody's.
LEMMA CreateCustomerInv ==
    ASSUME LeadsInv, NEW c \in Agents, CreateCustomer(c)
    PROVE  LeadsInv'
<1> USE DEF LeadsInv
<1>1. PICK l : l = agent[c].of /\ l \in LeadIds /\ agent[c].doing = "customer"
  BY DEF CreateCustomer, LeadsRefer
<1>2. UNCHANGED <<staged, lead, activity, sellers, contested, relinked, runs>>
  BY DEF CreateCustomer
<1>3. CASE agent' = [agent EXCEPT ![c] = Unengaged] /\ parties' = parties /\ madeFor' = madeFor
  <2>1. Changed(c, Unengaged)
    BY <1>1, <1>2, <1>3, NoLeadChanged, LeadElements DEF Changed, LeadsTyped, LeadsRefer, LeadIds
  <2>2. ActivitiesSound'
    BY <1>2 DEF ActivitiesSound, LeadIds
  <2> QED BY <2>1, <2>2, ChangedInv
<1>4. CASE \E e : /\ parties' = Append(parties, e)
                  /\ madeFor' = [p \in DOMAIN madeFor \cup {Len(parties')} |-> IF p \in DOMAIN madeFor THEN madeFor[p] ELSE l]
                  /\ agent' = [agent EXCEPT ![c] = [@ EXCEPT !.doing = "link", !.party = Len(parties')]]
  <2>1. PICK e : /\ parties' = Append(parties, e)
                 /\ madeFor' = [p \in DOMAIN madeFor \cup {Len(parties')} |-> IF p \in DOMAIN madeFor THEN madeFor[p] ELSE l]
                 /\ agent' = [agent EXCEPT ![c] = [@ EXCEPT !.doing = "link", !.party = Len(parties')]]
    BY <1>4
  <2>2. PICK n : n = Len(parties')
    OBVIOUS
  <2>3. /\ n \in Nat /\ n \notin PartyIds /\ PartyIds' = PartyIds \cup {n}
        /\ PartyIds' = 1..Len(parties') /\ Len(parties') \in Nat /\ \E S : parties' \in Seq(S)
    <3>1. PICK S : parties \in Seq(S)
      BY DEF LeadsTyped
    <3>2. parties \in Seq(S \cup {e}) /\ e \in S \cup {e}
      BY <3>1, SeqMonotonic
    <3>3. /\ parties' \in Seq(S \cup {e}) /\ Len(parties') = Len(parties) + 1
          /\ PartyIds' = PartyIds \cup {Len(parties) + 1} /\ Len(parties) + 1 \notin PartyIds
      BY <2>1, <3>2, AddAtEnd DEF PartyIds
    <3>4. PartyIds = 1..Len(parties) /\ Len(parties) \in Nat
      BY DEF LeadsTyped
    <3> QED BY <2>2, <3>3, <3>4
  <2>4. PICK x : x = [agent[c] EXCEPT !.doing = "link", !.party = n]
    OBVIOUS
  <2>5. /\ x \in Engaged /\ x.doing = "link" /\ x.party = n /\ x.of = l
        /\ \A o \in Agents : agent'[o] = IF o = c THEN x ELSE agent[o]
        /\ agent' \in [Agents -> Engaged]
    <3>1. agent[c] \in Engaged
      BY LeadElements
    <3>2. x \in Engaged /\ x.doing = "link" /\ x.party = n /\ x.of = l
      BY <1>1, <2>3, <2>4, <3>1 DEF Engaged
    <3>3. agent' = [agent EXCEPT ![c] = x]
      BY <2>1, <2>2, <2>4
    <3> QED BY <3>2, <3>3 DEF LeadsTyped
  <2>6. LeadsTyped' /\ LeadsRefer' /\ ActivitiesSound'
    BY <1>1, <1>2, <2>3, <2>5 DEF LeadsTyped, LeadsRefer, ActivitiesSound, LeadIds
  <2>7. ImportsSee' /\ LeadsApart' /\ ClosedRightly'
    <3>1. \A o \in Agents : Importing(o)' => Importing(o) /\ agent'[o] = agent[o]
      BY <2>5 DEF Importing
    <3> QED BY <1>2, <3>1 DEF ImportsSee, LeadsApart, ClosedRightly, LeadIds
  <2>8. /\ DOMAIN madeFor' = DOMAIN madeFor \cup {n} /\ n \notin DOMAIN madeFor
        /\ \A p \in DOMAIN madeFor : madeFor'[p] = madeFor[p]
        /\ madeFor'[n] = l
    BY <2>1, <2>2, <2>3 DEF OneMaker
  <2>9. /\ \A o \in Agents : \A m : Making(o, m)' <=> Making(o, m)
        /\ \A o \in Agents : \A m : Making(o, m) /\ o # c => agent'[o] = agent[o]
        /\ \A m : m # l => CustomersOf(m)' = CustomersOf(m) /\ (Converting(m)' <=> Converting(m))
        /\ CustomersOf(l)' = CustomersOf(l) \cup {n} /\ Converting(l)' /\ Making(c, l)
    BY <1>1, <2>5, <2>8 DEF Making, CustomersOf, Converting
  <2>10. OneMaker'
    <3>1. DOMAIN madeFor' \subseteq PartyIds' /\ \A p \in DOMAIN madeFor' : madeFor'[p] \in LeadIds
      BY <1>1, <2>3, <2>8 DEF OneMaker
    <3>2. \A m \in LeadIds \ (contested \cup relinked) : \A o, p \in Agents : Making(o, m)' /\ Making(p, m)' => o = p
      BY <2>9 DEF OneMaker
    <3>3. ASSUME NEW m \in LeadIds \ (contested \cup relinked), m # l
          PROVE  /\ \A o \in Agents : Making(o, m)' =>
                      CustomersOf(m)' = IF agent'[o].doing = "customer" THEN {} ELSE {agent'[o].party}
                 /\ \E p : CustomersOf(m)' \subseteq {p}
                 /\ ~lead[m].gone /\ ~(Converting(m)') => CustomersOf(m)' \subseteq {lead[m].party}
      <4>1. \A o \in Agents : Making(o, m) => o # c
        BY <1>1, <3>3 DEF Making
      <4>2. CustomersOf(m)' = CustomersOf(m) /\ (Converting(m)' <=> Converting(m))
        BY <2>9, <3>3
      <4>3. ASSUME NEW o \in Agents, Making(o, m)'
            PROVE  CustomersOf(m) = IF agent'[o].doing = "customer" THEN {} ELSE {agent'[o].party}
        <5>1. Making(o, m) /\ agent'[o] = agent[o]
          BY <2>9, <4>1, <4>3
        <5> QED BY <5>1 DEF OneMaker
      <4> QED BY <4>2, <4>3 DEF OneMaker
    <3>4. ASSUME l \in LeadIds \ (contested \cup relinked)
          PROVE  /\ \A o \in Agents : Making(o, l)' =>
                      CustomersOf(l)' = IF agent'[o].doing = "customer" THEN {} ELSE {agent'[o].party}
                 /\ \E p : CustomersOf(l)' \subseteq {p}
      <4>1. CustomersOf(l) = {}
        BY <1>1, <2>9, <3>4 DEF OneMaker
      <4>2. CustomersOf(l)' = {n}
        BY <2>9, <4>1
      <4>3. \A o \in Agents : Making(o, l)' => o = c
        BY <2>9, <3>4 DEF OneMaker
      <4>4. agent'[c].doing = "link" /\ agent'[c].party = n
        BY <2>5
      <4> QED BY <4>2, <4>3, <4>4
    <3>5. LeadIds' = LeadIds /\ contested' = contested /\ relinked' = relinked /\ lead' = lead
      BY <1>2 DEF LeadIds
    <3>6. ASSUME NEW m \in LeadIds \ (contested \cup relinked)
          PROVE  /\ \A o \in Agents : Making(o, m)' =>
                      CustomersOf(m)' = IF agent'[o].doing = "customer" THEN {} ELSE {agent'[o].party}
                 /\ \E p : CustomersOf(m)' \subseteq {p}
                 /\ ~lead[m].gone /\ ~(Converting(m)') => CustomersOf(m)' \subseteq {lead[m].party}
      <4>1. CASE m = l
        BY <2>9, <3>4, <4>1
      <4>2. CASE m # l
        BY <3>3, <4>2
      <4> QED BY <4>1, <4>2
    <3>7. \A m \in LeadIds' \ (contested' \cup relinked') : m \in LeadIds \ (contested \cup relinked)
      BY <3>5
    <3> QED BY <3>1, <3>2, <3>5, <3>6, <3>7 DEF OneMaker
  <2> QED BY <2>6, <2>7, <2>10
<1> QED BY <1>1, <1>3, <1>4 DEF CreateCustomer

\* Activities are of leads that are there, whatever else is written in these.
LEMMA ActivitiesKept ==
    ASSUME LeadsInv, LeadIds' = LeadIds, activity' = activity, \A l \in LeadIds : lead'[l].gone = lead[l].gone
    PROVE  ActivitiesSound'
BY DEF LeadsInv, ActivitiesSound

\* One request goes on and no lead changes.
LEMMA RequestInv ==
    ASSUME LeadsInv, NEW c \in Agents, NEW x \in Engaged, agent' = [agent EXCEPT ![c] = x],
           UNCHANGED <<staged, lead, activity, sellers, runs, parties, madeFor, relinked>>, contested \subseteq contested',
           x.of \in LeadIds \cup {0}, x.doing = "move" => x.of \in LeadIds, ~(x.doing \in {"customer", "link"}),
           x.doing \in {"rows", "move"} =>
             Importing(c) /\ x.run = agent[c].run /\ x.since = agent[c].since /\ agent[c].seen \subseteq x.seen,
           agent[c].doing = "link" => agent[c].of \in contested'
    PROVE  LeadsInv'
<1>1. /\ LeadIds' = LeadIds /\ lead' \in Seq(LeadRow) /\ Len(lead') = Len(lead)
      /\ \A m \in LeadIds : Advances(lead[m], lead'[m])
  BY NoLeadChanged
<1>2. \A m \in LeadIds : lead'[m].party \in PartyIds \cup {NoParty} /\ lead'[m].party = lead[m].party
  BY DEF LeadsInv, LeadsRefer
<1>3. Changed(c, x)
  BY <1>1, <1>2 DEF Changed, LeadsInv, LeadsTyped
<1>4. ActivitiesSound'
  BY <1>1, ActivitiesKept
<1> QED BY <1>3, <1>4, ChangedInv

\* The lead names its customer, if it is still there.
LEMMA LinkCustomerInv ==
    ASSUME LeadsInv, NEW c \in Agents, LinkCustomer(c)
    PROVE  LeadsInv'
<1> USE DEF LeadsInv
<1>1. PICK l : l = agent[c].of /\ l \in LeadIds /\ agent[c].doing = "link" /\ agent[c].party \in PartyIds
  BY DEF LinkCustomer, LeadsRefer
<1>2. /\ UNCHANGED <<staged, activity, sellers, runs, madeFor, contested, relinked, parties>>
      /\ agent' = [agent EXCEPT ![c] = Unengaged]
  BY DEF LinkCustomer, HistoryKept, OthersKept, legacyVars
<1>3. CASE Present(l)
  <2>1. lead[l] \in LeadRow /\ agent[c].party \in Nat
    BY <1>1, LeadElements
  <2>2. PICK r : r = [lead[l] EXCEPT !.party = agent[c].party]
    OBVIOUS
  <2>3. /\ r \in LeadRow /\ r.party = agent[c].party /\ r.gone = lead[l].gone /\ r.edited = lead[l].edited
        /\ r.run = lead[l].run /\ r.since = lead[l].since /\ r.stage = lead[l].stage /\ r.closed = lead[l].closed
        /\ Keys(r) = Keys(lead[l])
    BY <2>1, <2>2 DEF LeadRow, Keys
  <2>4. LeadIsNow(l, r) /\ Advances(lead[l], r)
    BY <1>1, <1>3, <2>2, <2>3 DEF LinkCustomer, LeadIsNow, Advances, ClosedRightly
  <2>5. /\ LeadIds' = LeadIds /\ lead' \in Seq(LeadRow) /\ Len(lead') = Len(lead)
        /\ \A m \in LeadIds : lead'[m] = IF m = l THEN r ELSE lead[m]
        /\ \A m \in LeadIds : Advances(lead[m], lead'[m])
    BY <1>1, <2>3, <2>4, OneLeadChanged
  <2>6. \A m \in LeadIds : /\ lead'[m].party \in PartyIds \cup {NoParty}
                           /\ lead'[m].party = lead[m].party \/ (Making(c, m) /\ lead'[m].party = agent[c].party)
    BY <1>1, <2>3, <2>5 DEF LeadsRefer, Making
  <2>7. Changed(c, Unengaged)
    BY <1>1, <1>2, <2>3, <2>5, <2>6, LeadElements DEF Changed, LeadsTyped
  <2>8. ActivitiesSound'
    BY <1>2, <2>3, <2>5, ActivitiesKept
  <2> QED BY <2>7, <2>8, ChangedInv
<1>4. CASE ~Present(l)
  <2>1. lead' = lead /\ lead[l].gone
    BY <1>1, <1>4 DEF LinkCustomer, Present
  <2>2. \A m \in LeadIds : lead'[m].party \in PartyIds \cup {NoParty} /\ lead'[m].party = lead[m].party
    BY <2>1 DEF LeadsRefer
  <2>3. Changed(c, Unengaged)
    BY <1>1, <1>2, <2>1, <2>2, NoLeadChanged, LeadElements DEF Changed, LeadsTyped
  <2>4. ActivitiesSound'
    BY <1>2, <2>1, NoLeadChanged, ActivitiesKept
  <2> QED BY <2>3, <2>4, ChangedInv
<1> QED BY <1>3, <1>4

\* A row of the file is passed over, the import ends, or a request stops.
LEMMA RequestEndsInv ==
    ASSUME LeadsInv, NEW c \in Agents, SkipLead(c) \/ RefuseLead(c) \/ EndImport(c) \/ StopAgent(c)
    PROVE  LeadsInv'
<1>1. agent[c] \in Engaged
  BY LeadElements DEF LeadsInv
<1>2. UNCHANGED <<staged, lead, activity, sellers, runs, parties, madeFor, relinked>> /\ contested \subseteq contested'
  BY DEF SkipLead, RefuseLead, EndImport, StopAgent, HistoryKept, OthersKept, legacyVars
<1>3. CASE SkipLead(c) \/ RefuseLead(c)
  <2>1. agent[c].doing = "rows" /\ agent[c].rows # <<>>
    BY <1>3 DEF SkipLead, RefuseLead, Savable, AtLead
  <2>2. Tail(agent[c].rows) \in Seq(FileRows)
    BY <1>1, <2>1, HeadTailProperties DEF Engaged
  <2>3. PICK x : x = [agent[c] EXCEPT !.rows = Tail(agent[c].rows)]
    OBVIOUS
  <2>4. /\ x \in Engaged /\ x.doing = "rows" /\ x.of = agent[c].of /\ x.run = agent[c].run
        /\ x.since = agent[c].since /\ x.seen = agent[c].seen
    BY <1>1, <2>1, <2>2, <2>3 DEF Engaged
  <2>5. agent' = [agent EXCEPT ![c] = x]
    BY <1>3, <2>3 DEF SkipLead, RefuseLead
  <2> QED BY <1>2, <2>1, <2>4, <2>5, RequestInv DEF LeadsInv, LeadsRefer, Importing
<1>4. CASE EndImport(c) \/ StopAgent(c)
  <2>1. agent' = [agent EXCEPT ![c] = Unengaged]
    BY <1>4 DEF EndImport, StopAgent
  <2>2. agent[c].doing = "link" => agent[c].of \in contested'
    BY <1>4 DEF EndImport, StopAgent
  <2> QED BY <1>2, <2>1, <2>2, RequestInv, LeadElements DEF LeadsInv
<1> QED BY <1>3, <1>4

\* The second transaction of an imported row: the lead is moved, if it is still there.
LEMMA MoveImportedInv ==
    ASSUME LeadsInv, NEW c \in Agents, MoveImported(c)
    PROVE  LeadsInv'
<1> USE DEF LeadsInv
<1>1. PICK l : l = agent[c].of /\ l \in LeadIds /\ agent[c].doing = "move" /\ Importing(c)
  BY DEF MoveImported, LeadsRefer, Importing
<1>2. PICK x : x = [agent[c] EXCEPT !.doing = "rows", !.of = 0, !.stage = FirstStage]
  OBVIOUS
<1>3. /\ x \in Engaged /\ x.doing = "rows" /\ x.of = 0 /\ x.run = agent[c].run
      /\ x.since = agent[c].since /\ x.seen = agent[c].seen
  BY <1>2, LeadElements, LeadsAssumption DEF Engaged
<1>4. /\ UNCHANGED <<staged, activity, sellers, runs, madeFor, contested, relinked, parties>>
      /\ agent' = [agent EXCEPT ![c] = x]
  BY <1>2 DEF MoveImported, HistoryKept, OthersKept, legacyVars
<1>5. CASE ~Present(l)
  <2>1. lead' = lead
    BY <1>1, <1>5 DEF MoveImported
  <2> QED BY <1>1, <1>3, <1>4, <2>1, RequestInv
<1>6. CASE Present(l)
  <2>1. lead[l] \in LeadRow /\ agent[c].stage \in DOMAIN Stages
    BY <1>1, LeadElements DEF Engaged
  <2>2. PICK r : r = Moved(lead[l], agent[c].stage)
    OBVIOUS
  <2>3. /\ r \in LeadRow /\ r.party = lead[l].party /\ r.gone = lead[l].gone /\ r.edited = lead[l].edited
        /\ r.run = lead[l].run /\ r.since = lead[l].since
        /\ r.stage = agent[c].stage /\ r.closed = (Stages[agent[c].stage] # "OPEN")
        /\ Keys(r) = Keys(lead[l])
    BY <2>1, <2>2 DEF LeadRow, Keys, Moved
  <2>4. LeadIsNow(l, r) /\ Advances(lead[l], r)
    BY <1>1, <1>6, <2>2, <2>3 DEF MoveImported, LeadIsNow, Advances
  <2>5. /\ LeadIds' = LeadIds /\ lead' \in Seq(LeadRow) /\ Len(lead') = Len(lead)
        /\ \A m \in LeadIds : lead'[m] = IF m = l THEN r ELSE lead[m]
        /\ \A m \in LeadIds : Advances(lead[m], lead'[m])
    BY <1>1, <2>3, <2>4, OneLeadChanged
  <2>6. \A m \in LeadIds : lead'[m].party \in PartyIds \cup {NoParty} /\ lead'[m].party = lead[m].party
    BY <2>3, <2>5 DEF LeadsRefer
  <2>7. Changed(c, x)
    BY <1>1, <1>3, <1>4, <2>5, <2>6 DEF Changed, LeadsTyped
  <2>8. ActivitiesSound'
    BY <1>4, <2>3, <2>5, ActivitiesKept
  <2> QED BY <2>7, <2>8, ChangedInv
<1> QED BY <1>5, <1>6

\* What a row or a form says.
LEMMA WordsWritten ==
    ASSUME NEW d \in Drafts \cup FileRows
    PROVE  /\ d.title \in Words /\ d.phone \in Words /\ d.email \in Words
           /\ Keys(d) \subseteq {"n", "p", "e"} \X Words
BY DEF Words, Keys

\* The row an import has reached.
LEMMA RowReached ==
    ASSUME NEW x \in Engaged, x.rows # <<>>
    PROVE  Head(x.rows) \in FileRows /\ Tail(x.rows) \in Seq(FileRows)
BY HeadTailProperties DEF Engaged

\* The lead of a row is saved, and so is what it says of itself.
LEMMA SaveLeadInv ==
    ASSUME LeadsInv, NEW c \in Agents, SaveLead(c)
    PROVE  LeadsInv'
<1> USE DEF LeadsInv
<1>1. /\ agent[c] \in Engaged /\ agent[c].doing = "rows" /\ agent[c].rows # <<>> /\ Importing(c)
      /\ Keys(Row1(c)) \cap agent[c].seen = {}
      /\ Row1(c).owner \in Sellers \cup {NoSeller} /\ Row1(c).stage \in DOMAIN Stages
  BY LeadElements DEF SaveLead, Savable, AtLead, MatchSeen, Importing, Engaged
<1>2. PICK row : row = Row1(c)
  OBVIOUS
<1>3. PICK n : n = Len(lead')
  OBVIOUS
<1>4. row \in FileRows /\ Tail(agent[c].rows) \in Seq(FileRows)
  BY <1>1, <1>2, RowReached DEF Row1
<1>5. PICK r : r = NewLead(row, row.owner, NoParty, agent[c].run, agent[c].since)
  OBVIOUS
<1>6. /\ r \in LeadRow /\ r.party = NoParty /\ ~r.gone /\ ~r.edited /\ (r.closed <=> Stages[r.stage] # "OPEN")
      /\ r.run = agent[c].run /\ r.since = agent[c].since
      /\ Keys(r) = Keys(row)
  BY <1>1, <1>2, <1>4, <1>5, WordsWritten, LeadsAssumption DEF NewLead, LeadRow, Engaged, Keys
<1>7. lead' = Append(lead, r)
  BY <1>2, <1>5 DEF SaveLead
<1>8. n = Len(lead) + 1 /\ n \in Nat /\ n # 0
  BY <1>3, <1>6, <1>7, AddAtEnd, LeadElements DEF LeadsTyped
<1>9. PICK x : x = [Saved(agent[c], row) EXCEPT !.of = n, !.stage = row.stage]
  OBVIOUS
<1>10. /\ x \in Engaged /\ x.doing \in {"rows", "move"} /\ x.of = n /\ x.run = agent[c].run
       /\ x.since = agent[c].since /\ x.seen = agent[c].seen \cup Keys(row)
  <2>1. Keys(row) \subseteq {"n", "p", "e"} \X Words
    BY <1>4, WordsWritten
  <2>2. PICK y : y = Saved(agent[c], row)
    OBVIOUS
  <2>3. /\ y \in Engaged /\ y.doing \in {"rows", "move"} /\ y.run = agent[c].run
        /\ y.since = agent[c].since /\ y.seen = agent[c].seen \cup Keys(row)
    BY <1>1, <1>4, <2>1, <2>2 DEF Saved, Engaged
  <2> QED BY <1>1, <1>2, <1>8, <1>9, <2>2, <2>3 DEF Engaged
<1>11. agent' = [agent EXCEPT ![c] = x]
  BY <1>2, <1>3, <1>9 DEF SaveLead
<1>12. UNCHANGED <<staged, parties, madeFor, contested, relinked, runs, sellers, activity>> /\ staged
  BY <1>1 DEF SaveLead, HistoryKept, OthersKept, legacyVars, ImportsSee
<1>13. Grown(c, x, r)
  BY <1>1, <1>2, <1>3, <1>6, <1>7, <1>8, <1>10, <1>11, <1>12 DEF Grown
<1> QED BY <1>13, GrownInv

\* The lead of a row is saved, and the import does not know.
LEMMA SaveUnheardInv ==
    ASSUME LeadsInv, NEW c \in Agents, SaveUnheard(c)
    PROVE  LeadsInv'
<1> USE DEF LeadsInv
<1>1. /\ agent[c] \in Engaged /\ agent[c].doing = "rows" /\ agent[c].rows # <<>> /\ Importing(c)
      /\ Row1(c).owner \in Sellers \cup {NoSeller}
  BY LeadElements DEF SaveUnheard, Savable, AtLead, MatchSeen, Importing, Engaged
<1>2. PICK row : row = Row1(c)
  OBVIOUS
<1>3. row \in FileRows /\ Tail(agent[c].rows) \in Seq(FileRows)
  BY <1>1, <1>2, RowReached DEF Row1
<1>4. PICK r : r = NewLead(row, row.owner, NoParty, 0, 0)
  OBVIOUS
<1>5. /\ r \in LeadRow /\ r.party = NoParty /\ ~r.gone /\ ~r.edited /\ (r.closed <=> Stages[r.stage] # "OPEN")
      /\ r.run = 0
  BY <1>1, <1>2, <1>3, <1>4, WordsWritten, LeadsAssumption DEF NewLead, LeadRow
<1>6. PICK x : x = [agent[c] EXCEPT !.rows = Tail(agent[c].rows)]
  OBVIOUS
<1>7. /\ x \in Engaged /\ x.doing = "rows" /\ x.of = agent[c].of /\ x.run = agent[c].run
      /\ x.since = agent[c].since /\ x.seen = agent[c].seen
  BY <1>1, <1>3, <1>6 DEF Engaged
<1>8. /\ lead' = Append(lead, r) /\ agent' = [agent EXCEPT ![c] = x]
      /\ UNCHANGED <<staged, parties, madeFor, contested, relinked, runs, sellers, activity>> /\ staged
  BY <1>1, <1>2, <1>4, <1>6 DEF SaveUnheard, OthersKept, legacyVars, ImportsSee
<1>9. Grown(c, x, r)
  BY <1>1, <1>5, <1>7, <1>8 DEF Grown, LeadsRefer
<1> QED BY <1>9, GrownInv

\* A user enters a lead.
LEMMA CreateLeadInv ==
    ASSUME LeadsInv, NEW d \in Drafts, NEW u \in Sellers \cup {NoSeller}, NEW p \in PartyIds \cup {NoParty},
           CreateLead(d, u, p)
    PROVE  LeadsInv'
<1> USE DEF LeadsInv
<1>1. PICK c \in Agents : TRUE
  BY LeadsAssumption
<1>2. PICK r : r = NewLead(d, u, p, 0, 0)
  OBVIOUS
<1>3. /\ r \in LeadRow /\ r.party = p /\ ~r.gone /\ ~r.edited /\ (r.closed <=> Stages[r.stage] # "OPEN")
      /\ r.run = 0
  BY <1>2, WordsWritten, LeadElements, LeadsAssumption DEF NewLead, LeadRow
<1>4. /\ lead' = Append(lead, r) /\ agent' = [agent EXCEPT ![c] = agent[c]] /\ agent[c] \in Engaged
      /\ UNCHANGED <<parties, madeFor, contested, relinked, runs, sellers, activity>> /\ staged'
  BY <1>2, LeadElements DEF CreateLead, OthersKept, HistoryKept, legacyVars, EnsureStages, LeadsTyped
<1>5. Grown(c, agent[c], r)
  BY <1>3, <1>4 DEF Grown
<1> QED BY <1>5, GrownInv

\* An import begins: it reads the leads there are, the owners and the stages.
LEMMA ImportLeadsInv ==
    ASSUME LeadsInv, NEW c \in Agents, NEW file \in LeadFiles, ImportLeads(c, file)
    PROVE  LeadsInv'
<1> USE DEF LeadsInv
<1>1. /\ runs \in Nat /\ runs' = runs + 1 /\ staged'
      /\ UNCHANGED <<lead, activity, sellers, madeFor, contested, relinked, parties>>
      /\ agent[c] = Unengaged
  BY DEF ImportLeads, EnsureStages, HistoryKept, OthersKept, legacyVars, LeadsTyped
<1>2. PICK seen : seen = UNION {Keys(lead[l]) : l \in {m \in LeadIds : Present(m)}}
  OBVIOUS
<1>3. /\ seen \in SUBSET ({"n", "p", "e"} \X Words)
      /\ \A l \in LeadIds : ~lead[l].gone => Keys(lead[l]) \subseteq seen
  <2>1. \A l \in LeadIds : Keys(lead[l]) \subseteq {"n", "p", "e"} \X Words
    <3> SUFFICES ASSUME NEW l \in LeadIds PROVE Keys(lead[l]) \subseteq {"n", "p", "e"} \X Words
      OBVIOUS
    <3>1. lead[l].title \in Words /\ lead[l].phone \in Words /\ lead[l].email \in Words
      BY LeadElements DEF LeadRow
    <3> QED BY <3>1 DEF Keys
  <2> QED BY <1>2, <2>1 DEF Present
<1>4. file \in Seq(FileRows)
  <2>1. file \in Seq({file[i] : i \in DOMAIN file})
    BY LeadsAssumption
  <2>2. {file[i] : i \in DOMAIN file} \subseteq FileRows
    BY DEF FileRows
  <2> QED BY <2>1, <2>2, SeqMonotonic
<1>5. PICK x : x = [Unengaged EXCEPT !.doing = "rows", !.rows = file, !.sellers = sellers, !.run = runs + 1,
                      !.since = Len(lead), !.seen = seen]
  OBVIOUS
<1>6. /\ x \in Engaged /\ x.doing = "rows" /\ x.of = 0 /\ x.run = runs + 1 /\ x.since = Len(lead) /\ x.seen = seen
      /\ Unengaged.doing = "none"
  <2>1. sellers \in SUBSET Sellers /\ runs + 1 \in Nat /\ Len(lead) \in Nat
    BY <1>1, LeadElements DEF LeadsTyped
  <2>2. Unengaged \in Engaged /\ Unengaged.doing = "none" /\ Unengaged.of = 0
    BY LeadElements DEF Unengaged
  <2> QED BY <1>3, <1>4, <1>5, <2>1, <2>2 DEF Engaged
<1>7. agent' = [agent EXCEPT ![c] = x]
  BY <1>2, <1>5 DEF ImportLeads
<1>8. \A o \in Agents : agent'[o] = IF o = c THEN x ELSE agent[o]
  BY <1>7 DEF LeadsTyped
<1>9. LeadsTyped'
  BY <1>1, <1>6, <1>7 DEF LeadsTyped, PartyIds
<1>10. LeadsRefer' /\ ActivitiesSound' /\ ClosedRightly' /\ LeadsApart'
  BY <1>1, <1>6, <1>8 DEF LeadsRefer, ActivitiesSound, ClosedRightly, LeadsApart, LeadIds, PartyIds
<1>11. OneMaker'
  <2>1. /\ \A o \in Agents : \A l : Making(o, l)' <=> Making(o, l)
        /\ \A o \in Agents : \A l : Making(o, l) => agent'[o] = agent[o]
        /\ \A l : CustomersOf(l)' = CustomersOf(l) /\ (Converting(l)' <=> Converting(l))
    BY <1>1, <1>6, <1>8 DEF Making, CustomersOf, Converting
  <2>2. LeadIds' = LeadIds /\ PartyIds' = PartyIds
    BY <1>1 DEF LeadIds, PartyIds
  <2> QED BY <1>1, <2>1, <2>2 DEF OneMaker
<1>12. ImportsSee'
  <2>1. \A o \in Agents : Importing(o)' =>
           (o = c /\ agent'[o] = x) \/ (o # c /\ Importing(o) /\ agent'[o] = agent[o])
    BY <1>8 DEF Importing
  <2>2. \A o \in Agents : Importing(o) => agent[o].run \in 1..runs /\ agent[o].since <= Len(lead)
    BY DEF ImportsSee
  <2>3. \A l \in LeadIds : lead[l].run <= runs /\ lead[l].run \in Nat
    BY LeadElements DEF ImportsSee, LeadRow
  <2>4. ASSUME NEW o \in Agents, Importing(o)'
        PROVE  /\ agent'[o].run \in 1..runs' /\ agent'[o].since <= Len(lead')
               /\ \A l \in LeadIds : Comparable(lead[l], l, agent'[o].run, agent'[o].since) => Keys(lead[l]) \subseteq agent'[o].seen
    <3>1. CASE agent'[o] = x
      <4>1. runs + 1 \in 1..runs' /\ Len(lead) <= Len(lead')
        BY <1>1, LeadElements
      <4> QED BY <1>3, <1>6, <3>1, <4>1 DEF Comparable
    <3>2. CASE Importing(o) /\ agent'[o] = agent[o]
      BY <1>1, <2>2, <3>2 DEF ImportsSee
    <3> QED BY <2>1, <2>4, <3>1, <3>2
  <2>5. ASSUME NEW o \in Agents, NEW p \in Agents, Importing(o)', Importing(p)', agent'[o].run = agent'[p].run
        PROVE  o = p
    BY <1>1, <1>6, <2>1, <2>2, <2>5 DEF ImportsSee
  <2>6. \A l \in LeadIds' : l \in LeadIds /\ lead'[l] = lead[l] /\ lead'[l].run <= runs'
    BY <1>1, <2>3 DEF LeadIds
  <2> QED BY <1>1, <2>4, <2>5, <2>6 DEF ImportsSee
<1> QED BY <1>9, <1>10, <1>11, <1>12

\* The pipeline's steps, and those of the contacts that leave it alone.
PipelineNext == LeadsNext \/ ((\E new \in NewParties : CreateParty(new)) /\ UNCHANGED leadVars)
pipelineVars == <<leadVars, legacyVars>>

LEMMA PipelineNextInv == LeadsInv /\ [PipelineNext]_pipelineVars => LeadsInv'
<1> SUFFICES ASSUME LeadsInv, [PipelineNext]_pipelineVars PROVE LeadsInv'
  OBVIOUS
<1>1. CASE UNCHANGED pipelineVars
  <2>1. UNCHANGED <<staged, lead, activity, sellers, agent, madeFor, contested, relinked, runs, parties>>
    BY <1>1 DEF pipelineVars, leadVars, legacyVars
  <2>2. LeadsTyped' /\ LeadsRefer' /\ ActivitiesSound'
    BY <2>1 DEF LeadsInv, LeadsTyped, LeadsRefer, ActivitiesSound, LeadIds, PartyIds
  <2>3. OneMaker'
    BY <2>1 DEF LeadsInv, OneMaker, Making, CustomersOf, Converting, LeadIds, PartyIds
  <2>4. ImportsSee' /\ LeadsApart' /\ ClosedRightly'
    BY <2>1 DEF LeadsInv, ImportsSee, Importing, LeadsApart, ClosedRightly, LeadIds
  <2> QED BY <2>2, <2>3, <2>4 DEF LeadsInv
<1>2. CASE LeadsNext
  <2>1. CASE \E d \in Drafts, p \in PartyIds \cup {NoParty} :
               \/ \E u \in Sellers \cup {NoSeller} : CreateLead(d, u, p)
               \/ \E l \in LeadIds : UpdateLead(l, d, p)
    BY <2>1, CreateLeadInv, LeadWorkInv
  <2>2. CASE \E l \in LeadIds :
               \/ \E u \in Sellers \cup {NoSeller} : AssignLead(l, u)
               \/ \E stage \in DOMAIN Stages : Move(l, stage)
               \/ DeleteLead(l)
               \/ \E kind \in {"NOTE", "TASK"} : AddActivity(l, kind)
               \/ \E c \in Agents : MakeCustomer(c, l)
    BY <2>2, LeadWorkInv, LeadMattersInv, MakeCustomerInv
  <2>3. CASE \E c \in Agents :
               \/ CreateCustomer(c) \/ LinkCustomer(c) \/ StopAgent(c)
               \/ \E file \in LeadFiles : ImportLeads(c, file)
               \/ SkipLead(c) \/ RefuseLead(c) \/ SaveLead(c) \/ SaveUnheard(c) \/ MoveImported(c) \/ EndImport(c)
    BY <2>3, CreateCustomerInv, LinkCustomerInv, RequestEndsInv, ImportLeadsInv, SaveLeadInv, SaveUnheardInv,
       MoveImportedInv
  <2> QED BY <1>2, <2>1, <2>2, <2>3, LeadMattersInv DEF LeadsNext
<1>3. CASE (\E new \in NewParties : CreateParty(new)) /\ UNCHANGED leadVars
  BY <1>3, PartyAddedInv
<1> QED BY <1>1, <1>2, <1>3 DEF PipelineNext

\* MakeCustomer makes one customer of a lead and the lead names it, an import that is run
\* again makes no lead twice, a lead is closed exactly in a Won or Lost stage, and only
\* tasks stay open, for any number of requests at work together.
THEOREM PipelineStays == LeadsInit /\ LegacyInit /\ [][PipelineNext]_pipelineVars => []LeadsAreSound
<1> QED BY LeadsInitInv, PipelineNextInv, LeadsInvHolds, PTL

-----------------------------------------------------------------------------
(* Backups *)

Seconds == 0..LastSecond
Job == [at : {"idle", "verified", "written", "prune"}, name : Seconds, of : Content, doomed : SUBSET Seconds]

BackupsTyped ==
    /\ db \in Content /\ second \in Seconds /\ due \in BOOLEAN
    /\ DOMAIN kept \subseteq Seconds /\ \A n \in DOMAIN kept : kept[n] \in Content
    /\ partials \subseteq Seconds
    /\ backup \in Job /\ (backup.at = "idle" => backup = Resting)
    /\ backup.doomed \subseteq DOMAIN kept /\ (backup.doomed # {} => backup.at = "prune")
    /\ restore.at \in {"idle", "restoring"} /\ restore.of \in Content
    /\ recent \in Seq(Seconds) /\ troubles \in Nat

\* Only a restore that is under way leaves half a database.
NoHalves ==
    halved \/ /\ db = Half => restore.at = "restoring"
              /\ \A n \in DOMAIN kept : kept[n] # Half
              /\ backup.at \in {"verified", "written"} => backup.of # Half
              /\ restore.at = "restoring" => restore.of # Half

Newer(n) == {m \in DOMAIN kept : m > n}
Before(k) == {recent[j] : j \in 1..(k - 1)}

\* The k-th last backup is there, is not to be pruned, and no more than k - 1 are newer.
LastOnesStay ==
    setBack \/ /\ \A n \in DOMAIN kept : n <= second /\ (backup.at \in {"verified", "written"} => n <= backup.name)
               /\ backup.name <= second
               /\ Len(recent) <= Keep
               /\ \A k \in 1..Len(recent) : /\ recent[k] \in DOMAIN kept \ backup.doomed
                                            /\ Newer(recent[k]) \subseteq Before(k)

\* A run adds one file; what its pruning leaves is within the retention count.
FewAreKept ==
    setBack \/ /\ Cardinality(DOMAIN kept) <= Keep + troubles + (IF backup.at = "prune" THEN 1 ELSE 0)
               /\ backup.doomed # {} => Cardinality(DOMAIN kept \ backup.doomed) <= Keep

BackupsInv == BackupsTyped /\ NoHalves /\ LastOnesStay /\ FewAreKept

\* Names are numbers, and there are finitely many of them.
LEMMA NamesFinite ==
    ASSUME NEW S, S \subseteq Seconds
    PROVE  S \subseteq Nat /\ IsFiniteSet(S) /\ Cardinality(S) \in Nat
<1>1. IsFiniteSet(Seconds)
  BY FS_Interval, BackupsAssumption DEF Seconds
<1>2. Seconds \subseteq Nat
  BY BackupsAssumption DEF Seconds
<1> QED BY <1>1, <1>2, FS_Subset, FS_CardinalityType

LEMMA RestingIsJob == Resting \in Job /\ Resting.at = "idle" /\ Resting.name = 0 /\ Resting.of = 0 /\ Resting.doomed = {}
BY BackupsAssumption DEF Resting, Job, Seconds, Content

\* No more than n names have fewer than n newer ones.
LEMMA NewestAreFew ==
    ASSUME NEW S, S \subseteq Seconds, NEW n \in Nat
    PROVE  Newest(S, n) \subseteq S /\ Cardinality(Newest(S, n)) <= n
<1> DEFINE N == Newest(S, n)
<1>1. N \subseteq S /\ N \subseteq Seconds
  BY DEF Newest
<1>2. CASE N = {}
  BY <1>1, <1>2, FS_EmptySet
<1>3. CASE N # {}
  <2>1. PICK x \in N : \A y \in N : x <= y
    BY <1>1, <1>3, NamesFinite, LeastNat
  <2>2. Cardinality({y \in S : y > x}) < n
    BY <2>1 DEF Newest
  <2>3. N \ {x} \subseteq {y \in S : y > x}
    BY <1>1, <2>1, NamesFinite
  <2>4. IsFiniteSet({y \in S : y > x}) /\ Cardinality({y \in S : y > x}) \in Nat
    BY NamesFinite
  <2>5. Cardinality(N \ {x}) <= Cardinality({y \in S : y > x})
    BY <2>3, <2>4, FS_Subset
  <2>6. IsFiniteSet(N) /\ Cardinality(N) \in Nat
    BY <1>1, NamesFinite
  <2>7. Cardinality(N \ {x}) = Cardinality(N) - 1
    BY <2>1, <2>6, FS_RemoveElement
  <2> QED BY <1>1, <2>2, <2>4, <2>5, <2>6, <2>7
<1> QED BY <1>2, <1>3

\* Fewer than k backups were made after the k-th last.
LEMMA BeforeAreFew ==
    ASSUME NEW k \in Nat \ {0}
    PROVE  IsFiniteSet(Before(k)) /\ Cardinality(Before(k)) \in Nat /\ Cardinality(Before(k)) <= k - 1
<1>1. PICK f : f = [j \in 1..(k - 1) |-> recent[j]]
  OBVIOUS
<1>2. f \in Surjection(1..(k - 1), Before(k))
  BY <1>1 DEF Before, Surjection
<1>3. IsFiniteSet(1..(k - 1)) /\ Cardinality(1..(k - 1)) = k - 1
  BY FS_Interval
<1>4. IsFiniteSet(Before(k)) /\ Cardinality(Before(k)) <= k - 1
  BY <1>2, <1>3, FS_Surjection
<1> QED BY <1>4, FS_CardinalityType

LEMMA BackupsInvHolds == BackupsInv => BackupsAreKept
<1> SUFFICES ASSUME BackupsInv PROVE BackupsAreKept
  OBVIOUS
<1> USE DEF BackupsInv
<1>1. BackupsTypeOK
  BY DEF BackupsTyped, BackupsTypeOK, Seconds, Job
<1>2. \A n \in DOMAIN kept : kept[n] # Cut
  <2>1. Cut \notin Content
    BY BackupsAssumption DEF Cut, Content, Half
  <2> QED BY <2>1 DEF BackupsTyped
<1>3. setBack \/ LastMade \subseteq DOMAIN kept
  <2>1. DOMAIN recent = 1..Len(recent)
    BY LenProperties DEF BackupsTyped
  <2> QED BY <2>1 DEF LastOnesStay, LastMade
<1>4. setBack \/ Cardinality(DOMAIN kept) <= Keep + 1 + troubles
  <2>1. Cardinality(DOMAIN kept) \in Nat
    BY NamesFinite DEF BackupsTyped
  <2> QED BY <2>1, BackupsAssumption DEF FewAreKept, BackupsTyped
<1> QED BY <1>1, <1>2, <1>3, <1>4 DEF BackupsAreKept, NoHalves

LEMMA BackupsInitInv == BackupsInit => BackupsInv
<1> SUFFICES ASSUME BackupsInit PROVE BackupsInv
  OBVIOUS
<1>1. /\ DOMAIN kept = {} /\ recent = <<>> /\ Len(recent) = 0 /\ recent \in Seq(Seconds)
      /\ db = 0 /\ second = 0 /\ 0 \in Seconds /\ 0 \in Content /\ 0 # Half
  BY BackupsAssumption DEF BackupsInit, Seconds, Content, Half
<1>2. /\ backup = Resting /\ restore = Resting /\ Resting \in Job
      /\ Resting.at = "idle" /\ Resting.name = 0 /\ Resting.of = 0 /\ Resting.doomed = {}
  BY RestingIsJob DEF BackupsInit
<1>3. BackupsTyped
  BY <1>1, <1>2 DEF BackupsInit, BackupsTyped
<1>4. Cardinality(DOMAIN kept) = 0
  BY <1>1, FS_EmptySet
<1>5. NoHalves /\ LastOnesStay /\ FewAreKept
  BY <1>1, <1>2, <1>4, BackupsAssumption DEF NoHalves, LastOnesStay, FewAreKept, BackupsInit
<1> QED BY <1>3, <1>5 DEF BackupsInv

\* The database or the clock changes, a run begins or writes its file, a restore begins or
\* ends: no file is added or pruned.
LEMMA NoFileChangesInv ==
    ASSUME BackupsInv,
           \/ Change \/ TimePasses \/ ClockSetBack \/ BuildBackup \/ WritePartial
           \/ (\E n \in DOMAIN kept : BeginRestore(n)) \/ EndRestore \/ CutRestore
    PROVE  BackupsInv'
<1> USE DEF BackupsInv
<1>1. kept' = kept /\ recent' = recent /\ (setBack' = setBack \/ setBack') /\ troubles' \in {troubles, troubles + 1}
  BY DEF Change, TimePasses, ClockSetBack, BuildBackup, WritePartial, BeginRestore, EndRestore, CutRestore
<1>2. /\ \A n : Newer(n)' = Newer(n)
      /\ \A k : Before(k)' = Before(k)
  BY <1>1 DEF Newer, Before
<1>3. /\ backup' \in Job /\ (backup'.at = "idle" => backup' = Resting)
      /\ backup'.doomed = backup.doomed /\ (backup'.at = "prune" <=> backup.at = "prune")
      /\ \/ backup'.name = backup.name /\ backup'.of = backup.of
            /\ (backup'.at \in {"verified", "written"} <=> backup.at \in {"verified", "written"})
         \/ BuildBackup /\ backup'.name = second /\ backup'.of = db /\ backup'.at = "verified"
  <2>1. CASE BuildBackup
    <3>1. PICK b : b = [Resting EXCEPT !.at = "verified", !.name = second, !.of = db]
      OBVIOUS
    <3>2. b \in Job /\ b.at = "verified" /\ b.name = second /\ b.of = db /\ b.doomed = {}
      BY <3>1 DEF Resting, Job, BackupsTyped
    <3>3. backup.doomed = {} /\ backup.at = "idle"
      BY <2>1, RestingIsJob DEF BuildBackup
    <3> QED BY <2>1, <3>1, <3>2, <3>3 DEF BuildBackup
  <2>2. CASE WritePartial
    <3>1. PICK b : b = [backup EXCEPT !.at = "written"]
      OBVIOUS
    <3>2. b \in Job /\ b.at = "written" /\ b.name = backup.name /\ b.of = backup.of /\ b.doomed = backup.doomed
      BY <3>1 DEF Job, BackupsTyped
    <3> QED BY <2>2, <3>1, <3>2 DEF WritePartial
  <2>3. CASE ~BuildBackup /\ ~WritePartial
    <3>1. backup' = backup
      BY <2>3 DEF Change, TimePasses, ClockSetBack, BeginRestore, EndRestore, CutRestore
    <3> QED BY <3>1 DEF BackupsTyped
  <2> QED BY <2>1, <2>2, <2>3
<1>4. second' \in Seconds /\ (setBack' \/ second <= second')
  <2>1. second \in 0..LastSecond /\ second \in Nat
    BY BackupsAssumption DEF BackupsTyped, Seconds
  <2>2. CASE TimePasses
    BY <2>1, <2>2, BackupsAssumption DEF TimePasses, Seconds
  <2>3. CASE ClockSetBack
    BY <2>1, <2>3, BackupsAssumption DEF ClockSetBack, Seconds
  <2>4. CASE second' = second
    BY <2>1, <2>4 DEF Seconds
  <2> QED BY <2>2, <2>3, <2>4 DEF Change, BuildBackup, WritePartial, BeginRestore, EndRestore, CutRestore
<1>5. db' \in Content /\ due' \in BOOLEAN
  <2>1. CASE Change
    <3>1. db \in {Half} \cup 0..MaxChanges /\ db # Half /\ db < MaxChanges /\ db' = db + 1 /\ due' = due
      BY <2>1 DEF Change, BackupsTyped, Content
    <3>2. db + 1 \in 0..MaxChanges
      BY <3>1, BackupsAssumption
    <3> QED BY <3>1, <3>2 DEF Content, BackupsTyped
  <2>2. CASE EndRestore \/ \E n \in DOMAIN kept : BeginRestore(n)
    BY <2>2 DEF EndRestore, BeginRestore, BackupsTyped, Content
  <2>3. CASE TimePasses \/ ClockSetBack \/ BuildBackup \/ WritePartial \/ CutRestore
    BY <2>3 DEF TimePasses, ClockSetBack, BuildBackup, WritePartial, CutRestore, BackupsTyped
  <2> QED BY <2>1, <2>2, <2>3
<1>6. restore'.at \in {"idle", "restoring"} /\ restore'.of \in Content
  <2>1. ASSUME NEW n \in DOMAIN kept, BeginRestore(n) PROVE restore'.at = "restoring" /\ restore'.of = kept[n]
    BY <2>1 DEF BeginRestore, Resting
  <2> QED BY <2>1, RestingIsJob DEF Change, TimePasses, ClockSetBack, BuildBackup, WritePartial, EndRestore, CutRestore,
             BackupsTyped, Job
<1>7. partials' \subseteq Seconds
  BY DEF Change, TimePasses, ClockSetBack, BuildBackup, WritePartial, BeginRestore, EndRestore, CutRestore,
     BackupsTyped, Job
<1>8. BackupsTyped'
  BY <1>1, <1>3, <1>4, <1>5, <1>6, <1>7 DEF BackupsTyped
<1>9. NoHalves'
  <2>1. CASE Change
    <3>1. db' # Half
      BY <2>1, BackupsAssumption DEF Change, BackupsTyped, Content, Half
    <3> QED BY <1>1, <2>1, <3>1 DEF Change, NoHalves
  <2>2. CASE TimePasses \/ ClockSetBack
    BY <2>2 DEF TimePasses, ClockSetBack, NoHalves
  <2>3. CASE BuildBackup \/ WritePartial
    <3>1. UNCHANGED <<db, kept, restore>>
      BY <2>3 DEF BuildBackup, WritePartial
    <3>2. CASE BuildBackup
      <4>1. halved' = (halved \/ db = Half)
        BY <3>2 DEF BuildBackup
      <4>2. backup'.at \in {"verified", "written"} =>
              (backup'.of = db \/ (backup'.of = backup.of /\ backup.at \in {"verified", "written"}))
        BY <1>3
      <4> QED BY <3>1, <4>1, <4>2 DEF NoHalves
    <3>3. CASE WritePartial
      <4>1. halved' = halved /\ backup.at = "verified"
        BY <3>3 DEF WritePartial
      <4>2. backup'.of = backup.of
        <5>1. ~BuildBackup
          BY <4>1, RestingIsJob DEF BuildBackup
        <5> QED BY <1>3, <5>1
      <4> QED BY <3>1, <4>1, <4>2 DEF NoHalves
    <3> QED BY <2>3, <3>2, <3>3
  <2>4. ASSUME NEW n \in DOMAIN kept, BeginRestore(n) PROVE NoHalves'
    <3>1. restore'.at = "restoring" /\ restore'.of = kept[n] /\ UNCHANGED <<kept, backup, halved>>
      BY <2>4 DEF BeginRestore, Resting
    <3> QED BY <3>1 DEF NoHalves
  <2>5. CASE EndRestore
    <3>1. restore'.at = "idle" /\ db' = restore.of /\ restore.at = "restoring" /\ UNCHANGED <<kept, backup, halved>>
      BY <2>5, RestingIsJob DEF EndRestore
    <3> QED BY <3>1 DEF NoHalves
  <2>6. CASE CutRestore
    BY <2>6 DEF CutRestore, NoHalves
  <2> QED BY <2>1, <2>2, <2>3, <2>4, <2>5, <2>6
<1>10. LastOnesStay'
  <2> SUFFICES ASSUME ~setBack' PROVE LastOnesStay'
    BY DEF LastOnesStay
  <2>1. ~setBack /\ second <= second'
    BY <1>1, <1>4
  <2>2. second \in Nat /\ second' \in Nat /\ DOMAIN kept \subseteq Nat /\ backup.name \in Nat
    BY <1>4, BackupsAssumption DEF BackupsTyped, Seconds, Job
  <2>3. \A n \in DOMAIN kept : n <= second' /\ (backup'.at \in {"verified", "written"} => n <= backup'.name)
    BY <1>3, <2>1, <2>2 DEF LastOnesStay
  <2>4. backup'.name <= second'
    BY <1>3, <2>1, <2>2 DEF LastOnesStay
  <2> QED BY <1>1, <1>2, <1>3, <2>1, <2>3, <2>4 DEF LastOnesStay
<1>11. FewAreKept'
  <2>1. Cardinality(DOMAIN kept) \in Nat
    BY NamesFinite DEF BackupsTyped
  <2> QED BY <1>1, <1>3, <2>1, BackupsAssumption DEF FewAreKept, BackupsTyped
<1> QED BY <1>8, <1>9, <1>10, <1>11

\* The rename: the file is there under its name, and it is the last one made.
LEMMA FinishFileInv == BackupsInv /\ FinishFile => BackupsInv'
<1> SUFFICES ASSUME BackupsInv, FinishFile PROVE BackupsInv'
  OBVIOUS
<1> USE DEF BackupsInv
<1>1. PICK n : n = backup.name
  OBVIOUS
<1>2. /\ n \in Seconds /\ backup.of \in Content /\ backup.at = "written" /\ backup.doomed = {}
      /\ DOMAIN kept' = DOMAIN kept \cup {n}
      /\ \A m \in DOMAIN kept' : kept'[m] = IF m = n THEN backup.of ELSE kept[m]
      /\ UNCHANGED <<db, second, due, restore, halved, troubles>>
      /\ partials' \subseteq Seconds
  BY <1>1 DEF FinishFile, Entry, BackupsTyped, Job
<1>3. PICK b : b = [backup EXCEPT !.at = "prune"]
  OBVIOUS
<1>4. b \in Job /\ b.at = "prune" /\ b.doomed = {} /\ b.name = n /\ backup' = b
  BY <1>1, <1>2, <1>3 DEF FinishFile, BackupsTyped, Job
<1>5. PICK s : s = <<n>> \o recent
  OBVIOUS
<1>6. /\ s \in Seq(Seconds) /\ Len(s) = Len(recent) + 1 /\ s[1] = n /\ Len(recent) \in Nat
      /\ \A k \in 1..Len(recent) : s[k + 1] = recent[k]
  <2>1. recent \in Seq(Seconds) /\ Len(recent) \in Nat
    BY LenProperties DEF BackupsTyped
  <2>2. <<n>> \in Seq(Seconds) /\ Len(<<n>>) = 1 /\ <<n>>[1] = n
    BY <1>2
  <2> QED BY <1>5, <2>1, <2>2, ConcatProperties
<1>7. PICK m : m = Least(Keep, Len(recent) + 1)
  OBVIOUS
<1>8. m \in 1..Len(s) /\ m <= Keep
  BY <1>6, <1>7, BackupsAssumption DEF Least
<1>9. /\ recent' \in Seq(Seconds) /\ Len(recent') = m /\ \A k \in 1..m : recent'[k] = s[k]
  <2>1. recent' = SubSeq(s, 1, m)
    BY <1>1, <1>5, <1>7 DEF FinishFile
  <2> QED BY <1>6, <1>8, <2>1, SubSeqProperties
<1>10. BackupsTyped'
  BY <1>2, <1>4, <1>9 DEF BackupsTyped
<1>11. NoHalves'
  BY <1>2, <1>4 DEF NoHalves
<1>12. LastOnesStay'
  <2> SUFFICES ASSUME ~setBack' PROVE LastOnesStay'
    BY DEF LastOnesStay
  <2>1. ~setBack /\ n \notin DOMAIN kept
    BY <1>1 DEF FinishFile
  <2>2. /\ \A k \in DOMAIN kept : k <= second /\ k < n
        /\ n <= second
    <3>1. \A k \in DOMAIN kept : k <= second /\ k <= n /\ k \in Nat /\ n \in Nat
      BY <1>1, <1>2, <2>1, BackupsAssumption DEF LastOnesStay, BackupsTyped, Seconds
    <3> QED BY <1>1, <2>1, <3>1 DEF LastOnesStay
  <2>3. \A k \in 1..Len(recent) : recent[k] \in DOMAIN kept /\ Newer(recent[k]) \subseteq Before(k)
    BY <2>1 DEF LastOnesStay
  <2>4. ASSUME NEW k \in 1..Len(recent')
        PROVE  /\ recent'[k] \in DOMAIN kept'
               /\ {x \in DOMAIN kept' : x > recent'[k]} \subseteq {recent'[j] : j \in 1..(k - 1)}
    <3>1. k \in 1..m /\ k \in 1..Len(s) /\ recent'[k] = s[k] /\ k \in Nat
      BY <1>6, <1>8, <1>9, <2>4
    <3>2. CASE k = 1
      <4>1. recent'[k] = n
        BY <1>6, <3>1, <3>2
      <4>2. \A x \in DOMAIN kept' : ~(x > n)
        <5>1. n \in Nat /\ DOMAIN kept \subseteq Nat
          BY <1>2, BackupsAssumption DEF BackupsTyped, Seconds
        <5> QED BY <1>2, <2>2, <5>1
      <4> QED BY <1>2, <4>1, <4>2
    <3>3. CASE k # 1
      <4>1. k - 1 \in 1..Len(recent) /\ (k - 1) + 1 = k
        BY <1>6, <3>1, <3>3
      <4>2. recent'[k] = recent[k - 1]
        BY <1>6, <3>1, <4>1
      <4>3. ASSUME NEW x \in DOMAIN kept', x > recent'[k]
            PROVE  x \in {recent'[j] : j \in 1..(k - 1)}
        <5>1. CASE x = n
          <6>1. recent'[1] = n /\ 1 \in 1..(k - 1)
            BY <1>6, <1>8, <1>9, <3>1, <3>3
          <6> QED BY <5>1, <6>1
        <5>2. CASE x # n
          <6>1. x \in Newer(recent[k - 1])
            BY <1>2, <4>2, <4>3, <5>2 DEF Newer
          <6>2. PICK j \in 1..((k - 1) - 1) : x = recent[j]
            BY <2>3, <4>1, <6>1 DEF Before
          <6>3. /\ j \in 1..Len(recent) /\ j + 1 \in 1..(k - 1) /\ j + 1 \in 1..m
            BY <1>6, <1>8, <3>1, <4>1
          <6>4. recent'[j + 1] = x
            BY <1>6, <1>9, <6>2, <6>3
          <6> QED BY <6>3, <6>4
        <5> QED BY <5>1, <5>2
      <4> QED BY <1>2, <2>3, <4>1, <4>2, <4>3
    <3> QED BY <3>2, <3>3
  <2>5. \A k \in DOMAIN kept' : k <= second'
    BY <1>2, <2>2
  <2>6. Len(recent') <= Keep /\ backup'.name <= second'
    BY <1>2, <1>4, <1>8, <1>9, <2>2
  <2> QED BY <1>4, <2>4, <2>5, <2>6 DEF LastOnesStay, Newer, Before
<1>13. FewAreKept'
  <2>1. Cardinality(DOMAIN kept \cup {n}) <= Cardinality(DOMAIN kept) + 1 /\ Cardinality(DOMAIN kept) \in Nat
    <3>1. IsFiniteSet(DOMAIN kept) /\ Cardinality(DOMAIN kept) \in Nat
      BY NamesFinite DEF BackupsTyped
    <3>2. Cardinality(DOMAIN kept \cup {n}) = IF n \in DOMAIN kept THEN Cardinality(DOMAIN kept) ELSE Cardinality(DOMAIN kept) + 1
      BY <3>1, FS_AddElement
    <3> QED BY <3>1, <3>2
  <2>2. setBack \/ Cardinality(DOMAIN kept) <= Keep + troubles
    BY <1>2, BackupsAssumption DEF FewAreKept, BackupsTyped
  <2>3. Cardinality(DOMAIN kept') \in Nat /\ Cardinality(DOMAIN kept') <= Cardinality(DOMAIN kept) + 1
    <3>1. Cardinality(DOMAIN kept') \in Nat
      BY <1>10, NamesFinite DEF BackupsTyped
    <3> QED BY <1>2, <2>1, <3>1
  <2>4. setBack => setBack'
    BY DEF FinishFile
  <2>5. backup'.doomed = {} /\ backup'.at = "prune" /\ troubles' = troubles /\ troubles \in Nat
    BY <1>2, <1>4 DEF BackupsTyped
  <2> QED BY <2>1, <2>2, <2>3, <2>4, <2>5, BackupsAssumption DEF FewAreKept
<1> QED BY <1>10, <1>11, <1>12, <1>13

\* The names are read: the last Keep backups are not among those to be pruned.
LEMMA ReadNamesInv == BackupsInv /\ ReadNames => BackupsInv'
<1> SUFFICES ASSUME BackupsInv, ReadNames PROVE BackupsInv'
  OBVIOUS
<1> USE DEF BackupsInv
<1>1. UNCHANGED <<db, second, due, kept, partials, restore, recent, setBack, halved, troubles>>
  BY DEF ReadNames
<1>2. /\ Newest(DOMAIN kept, Keep) \subseteq DOMAIN kept /\ Cardinality(Newest(DOMAIN kept, Keep)) <= Keep
      /\ Cardinality(DOMAIN kept) \in Nat
  BY NewestAreFew, NamesFinite, BackupsAssumption DEF BackupsTyped
<1>3. DOMAIN kept \ Excess = Newest(DOMAIN kept, Keep) /\ Excess \subseteq DOMAIN kept
  BY <1>2 DEF Excess
<1>4. \/ Excess = {} /\ backup' = Resting
      \/ Excess # {} /\ backup' = [backup EXCEPT !.doomed = Excess]
  BY DEF ReadNames
<1>5. /\ backup' \in Job /\ (backup'.at = "idle" => backup' = Resting)
      /\ backup'.doomed = Excess /\ (backup'.doomed # {} => backup'.at = "prune")
      /\ ~(backup'.at \in {"verified", "written"}) /\ backup'.name \in {0, backup.name}
      /\ backup.at = "prune"
  <2>1. Excess \in SUBSET Seconds /\ backup \in Job /\ backup.at = "prune"
    BY <1>3 DEF BackupsTyped, ReadNames
  <2>2. CASE Excess = {}
    BY <1>4, <2>1, <2>2, RestingIsJob
  <2>3. CASE Excess # {}
    <3>1. PICK b : b = [backup EXCEPT !.doomed = Excess]
      OBVIOUS
    <3>2. b \in Job /\ b.at = "prune" /\ b.doomed = Excess /\ b.name = backup.name
      BY <2>1, <3>1 DEF Job
    <3> QED BY <1>4, <2>1, <2>3, <3>1, <3>2
  <2> QED BY <2>2, <2>3
<1>6. BackupsTyped' /\ NoHalves'
  BY <1>1, <1>3, <1>5 DEF BackupsTyped, NoHalves
<1>7. LastOnesStay'
  <2> SUFFICES ASSUME ~setBack PROVE LastOnesStay'
    BY <1>1 DEF LastOnesStay
  <2>1. ASSUME NEW k \in 1..Len(recent) PROVE recent[k] \in DOMAIN kept \ Excess
    <3>1. recent[k] \in DOMAIN kept /\ Newer(recent[k]) \subseteq Before(k) /\ k <= Keep /\ k \in Nat \ {0}
      BY BackupsAssumption, LenProperties DEF LastOnesStay, BackupsTyped
    <3>2. Cardinality(Newer(recent[k])) <= Cardinality(Before(k)) /\ Cardinality(Before(k)) \in Nat /\ Cardinality(Before(k)) <= k - 1
      BY <3>1, BeforeAreFew, FS_Subset
    <3>3. Cardinality(Newer(recent[k])) \in Nat
      <4>1. Newer(recent[k]) \subseteq Seconds
        BY DEF Newer, BackupsTyped
      <4> QED BY <4>1, NamesFinite
    <3>4. Cardinality({y \in DOMAIN kept : y > recent[k]}) < Keep
      BY <3>1, <3>2, <3>3, BackupsAssumption DEF Newer
    <3>5. recent[k] \in Newest(DOMAIN kept, Keep)
      BY <3>1, <3>4 DEF Newest
    <3> QED BY <1>3, <3>5
  <2>2. 0 <= second
    BY BackupsAssumption DEF BackupsTyped, Seconds
  <2> QED BY <1>1, <1>5, <2>1, <2>2 DEF LastOnesStay, Newer, Before
<1>8. FewAreKept'
  <2>1. CASE Excess # {}
    BY <1>1, <1>2, <1>3, <1>4, <1>5, <2>1, BackupsAssumption DEF FewAreKept, BackupsTyped
  <2>2. CASE Excess = {}
    <3>1. DOMAIN kept = Newest(DOMAIN kept, Keep)
      BY <1>3, <2>2
    <3> QED BY <1>1, <1>2, <1>5, <2>2, <3>1, BackupsAssumption DEF FewAreKept, BackupsTyped
  <2> QED BY <2>1, <2>2
<1> QED BY <1>6, <1>7, <1>8

\* The oldest of the files to be pruned is deleted.
LEMMA PruneInv == BackupsInv /\ Prune => BackupsInv'
<1> SUFFICES ASSUME BackupsInv, Prune PROVE BackupsInv'
  OBVIOUS
<1> USE DEF BackupsInv
<1>1. PICK o : o = CHOOSE n \in backup.doomed : \A m \in backup.doomed : n <= m
  OBVIOUS
<1>2. o \in backup.doomed /\ o \in DOMAIN kept /\ backup.at = "prune" /\ backup \in Job
  <2>1. backup.doomed # {} /\ backup.doomed \subseteq Nat
    BY NamesFinite DEF Prune, BackupsTyped
  <2>2. \E n \in backup.doomed : \A m \in backup.doomed : n <= m
    BY <2>1, LeastNat
  <2> QED BY <1>1, <2>1, <2>2 DEF BackupsTyped
<1>3. /\ DOMAIN kept' = DOMAIN kept \ {o} /\ \A n \in DOMAIN kept' : kept'[n] = kept[n]
      /\ UNCHANGED <<db, second, due, partials, restore, recent, setBack, halved, troubles>>
      /\ \/ backup.doomed = {o} /\ backup' = Resting
         \/ backup.doomed # {o} /\ backup' = [backup EXCEPT !.doomed = backup.doomed \ {o}]
  BY <1>1 DEF Prune
<1>4. /\ backup' \in Job /\ (backup'.at = "idle" => backup' = Resting)
      /\ backup'.doomed = backup.doomed \ {o} /\ (backup'.doomed # {} => backup'.at = "prune")
      /\ ~(backup'.at \in {"verified", "written"}) /\ backup'.name \in {0, backup.name}
  <2>1. CASE backup.doomed = {o}
    BY <1>3, <2>1, RestingIsJob
  <2>2. CASE backup.doomed # {o}
    <3>1. PICK b : b = [backup EXCEPT !.doomed = backup.doomed \ {o}]
      OBVIOUS
    <3>2. b \in Job /\ b.at = "prune" /\ b.doomed = backup.doomed \ {o} /\ b.name = backup.name
      BY <1>2, <3>1 DEF Job
    <3> QED BY <1>3, <2>2, <3>1, <3>2
  <2> QED BY <2>1, <2>2
<1>5. BackupsTyped' /\ NoHalves'
  <2>1. backup'.doomed \subseteq DOMAIN kept'
    BY <1>3, <1>4 DEF BackupsTyped
  <2> QED BY <1>3, <1>4, <2>1 DEF BackupsTyped, NoHalves
<1>6. LastOnesStay'
  <2> SUFFICES ASSUME ~setBack PROVE LastOnesStay'
    BY <1>3 DEF LastOnesStay
  <2>1. ASSUME NEW k \in 1..Len(recent)
        PROVE  /\ recent[k] \in DOMAIN kept' \ backup'.doomed
               /\ {m \in DOMAIN kept' : m > recent[k]} \subseteq Before(k)
    BY <1>2, <1>3, <1>4 DEF LastOnesStay, Newer
  <2>2. 0 <= second
    BY BackupsAssumption DEF BackupsTyped, Seconds
  <2> QED BY <1>3, <1>4, <2>1, <2>2 DEF LastOnesStay, Newer, Before
<1>7. FewAreKept'
  <2> SUFFICES ASSUME ~setBack PROVE FewAreKept'
    BY <1>3 DEF FewAreKept
  <2>1. /\ IsFiniteSet(DOMAIN kept) /\ Cardinality(DOMAIN kept) \in Nat
        /\ Cardinality(DOMAIN kept') = Cardinality(DOMAIN kept) - 1
    <3>1. IsFiniteSet(DOMAIN kept) /\ Cardinality(DOMAIN kept) \in Nat
      BY NamesFinite DEF BackupsTyped
    <3>2. Cardinality(DOMAIN kept \ {o}) = Cardinality(DOMAIN kept) - 1
      BY <1>2, <3>1, FS_RemoveElement
    <3> QED BY <1>3, <3>1, <3>2
  <2>2. DOMAIN kept' \ backup'.doomed = DOMAIN kept \ backup.doomed
    BY <1>2, <1>3, <1>4 DEF BackupsTyped
  <2>3. Cardinality(DOMAIN kept \ backup.doomed) <= Keep
    BY <1>2 DEF FewAreKept
  <2>4. Cardinality(DOMAIN kept) <= Keep + troubles + 1
    BY <1>2 DEF FewAreKept
  <2>5. backup'.at # "prune" => Cardinality(DOMAIN kept') <= Keep
    <3>1. backup'.at # "prune" => DOMAIN kept' = DOMAIN kept' \ backup'.doomed
      BY <1>4
    <3> QED BY <2>2, <2>3, <3>1
  <2>6. /\ Cardinality(DOMAIN kept') \in Int /\ Cardinality(DOMAIN kept') <= Keep + troubles
        /\ troubles' = troubles /\ troubles \in Nat
    BY <1>3, <2>1, <2>4, BackupsAssumption DEF BackupsTyped
  <2>7. Cardinality(DOMAIN kept') <= Keep + troubles' + (IF backup'.at = "prune" THEN 1 ELSE 0)
    BY <2>6, BackupsAssumption
  <2> QED BY <2>2, <2>3, <2>7 DEF FewAreKept
<1> QED BY <1>5, <1>6, <1>7

\* The run is cut short, or a file is put there by hand.
LEMMA RunEndsInv == BackupsInv /\ (RunEnds \/ ExportInto) => BackupsInv'
<1> SUFFICES ASSUME BackupsInv, RunEnds \/ ExportInto PROVE BackupsInv'
  OBVIOUS
<1> USE DEF BackupsInv
<1>1. CASE RunEnds
  <2>1. /\ UNCHANGED <<db, second, due, kept, restore, recent, setBack, halved>>
        /\ backup' = Resting /\ troubles' = troubles + 1
        /\ partials' \subseteq Seconds
    BY <1>1 DEF RunEnds, BackupsTyped, Job
  <2>2. BackupsTyped' /\ NoHalves'
    BY <2>1, RestingIsJob DEF BackupsTyped, NoHalves
  <2>3. LastOnesStay'
    <3>1. 0 <= second
      BY BackupsAssumption DEF BackupsTyped, Seconds
    <3> QED BY <2>1, <3>1, RestingIsJob DEF LastOnesStay, Newer, Before
  <2>4. FewAreKept'
    <3>1. Cardinality(DOMAIN kept) \in Nat
      BY NamesFinite DEF BackupsTyped
    <3> QED BY <2>1, <3>1, RestingIsJob, BackupsAssumption DEF FewAreKept, BackupsTyped
  <2> QED BY <2>2, <2>3, <2>4
<1>2. CASE ExportInto
  <2>1. /\ UNCHANGED <<db, second, due, partials, backup, restore, recent, halved, troubles>> /\ setBack'
        /\ DOMAIN kept' = DOMAIN kept \cup {second}
        /\ \A n \in DOMAIN kept' : kept'[n] = IF n = second THEN db ELSE kept[n]
        /\ restore = Resting
    BY <1>2 DEF ExportInto, Entry
  <2>2. BackupsTyped'
    BY <2>1 DEF BackupsTyped
  <2>3. NoHalves'
    BY <2>1, RestingIsJob DEF NoHalves
  <2> QED BY <2>1, <2>2, <2>3 DEF LastOnesStay, FewAreKept
<1> QED BY <1>1, <1>2

LEMMA BackupsNextInv == BackupsInv /\ [BackupsNext]_backupVars => BackupsInv'
<1> SUFFICES ASSUME BackupsInv, [BackupsNext]_backupVars PROVE BackupsInv'
  OBVIOUS
<1>1. CASE UNCHANGED backupVars
  BY <1>1 DEF backupVars, BackupsInv, BackupsTyped, NoHalves, LastOnesStay, FewAreKept, Newer, Before
<1>2. CASE BackupsNext
  BY <1>2, NoFileChangesInv, FinishFileInv, ReadNamesInv, PruneInv, RunEndsInv DEF BackupsNext
<1> QED BY <1>1, <1>2

\* Wherever the worker stops, every file with a backup's name is whole, the last backups it
\* made are there up to the retention count, few more are, and none holds half a database,
\* unless the clock, a file put there by hand or a restore cut short made it so.
THEOREM BackupsStay == BackupsInit /\ [][BackupsNext]_backupVars => []BackupsAreKept
<1> QED BY BackupsInitInv, BackupsNextInv, BackupsInvHolds, PTL


\* A product has its fields; a barcode is a variant's, and an imported product has one.
ProductFine(x) ==
    /\ x = [name |-> x.name, row |-> x.row, unit |-> x.unit, status |-> x.status, variant |-> x.variant,
            sku |-> x.sku, barcode |-> x.barcode]
    /\ x.status \in {"ACTIVE", "INACTIVE", "GONE"} /\ x.name \in Names /\ x.unit \in Units
    /\ x.barcode # Empty => x.variant
    /\ x.row # Empty /\ x.status # "GONE" => x.variant

\* Products are whole and under units there can be.
ShelfFine(ps, us) == us \subseteq Units /\ ps \in Seq(Range(ps)) /\ \A i \in DOMAIN ps : ProductFine(ps[i])

\* The products some list has a price of.
PricedIn(pr) == {k[2] : k \in DOMAIN pr}

\* What refers to a product refers to one there is, and nothing refers to a deleted one.
Referred(ps, ls, pr, us, sh, ev, td) ==
    /\ ls \in Seq([default : BOOLEAN, onDemand : BOOLEAN])
    /\ \A k \in DOMAIN pr : k[1] \in DOMAIN ls /\ k[2] \in DOMAIN ps
    /\ us \cup sh \cup ev \cup td \subseteq DOMAIN ps
    /\ \A i \in DOMAIN ps : ps[i].status = "GONE" => i \notin PricedIn(pr) \cup us \cup sh

\* The hooks an import has left are for products it made, each with one opening stock.
HooksFine(c, ps) ==
    /\ c.made \subseteq DOMAIN ps /\ c.todo \in Seq(Range(c.todo))
    /\ \A k \in DOMAIN c.todo : /\ c.todo[k].id \in c.made /\ c.todo[k].row.stock \in Int
                                /\ ps[c.todo[k].id].row # Empty => c.todo[k].row = ps[c.todo[k].id].row
    /\ \A k, l \in DOMAIN c.todo :
          c.todo[k].id = c.todo[l].id /\ c.todo[k].hook = "stock" /\ c.todo[l].hook = "stock" => k = l

\* A deletion goes on only with a product without history; a list is made or a price
\* set for a price that is asked for.
PlaceFine(c, ps, ls) ==
    \/ c = Free
    \/ /\ c.op = "delete" /\ c.at \in {"check", "deactivate", "list", "prices", "remove"}
       /\ c.ids \in Seq(DOMAIN ps) /\ c.ids # <<>> /\ c.todo = <<>> /\ c.made = {}
       /\ c.at \in {"list", "prices", "remove"} => ~c.dirty
    \/ /\ c.op = "import" /\ c.at \in {"rows", "hooks", "newlist", "setprice"} /\ c.sheet \in Sheets
       /\ c.at = "rows" => c.todo = <<>> /\ c.made = {} /\ c.noted = {}
       /\ c.at \in {"newlist", "setprice"} => c.todo # <<>> /\ Head(c.todo).hook = "price"
       /\ c.at = "setprice" => c.list \in DOMAIN ls
    \/ c.op = "ensure" /\ c.at = "newlist" /\ c.todo = <<>> /\ c.made = {}

\* What a request has read and has left to do.
CallFine(c, ps, ls) ==
    /\ c = [op |-> c.op, at |-> c.at, sheet |-> c.sheet, ids |-> c.ids, names |-> c.names, units |-> c.units, made |-> c.made,
            todo |-> c.todo, list |-> c.list, noted |-> c.noted, variant |-> c.variant, dirty |-> c.dirty]
    /\ c.units \subseteq Units
    /\ HooksFine(c, ps) /\ PlaceFine(c, ps, ls)

\* Every request is fine.
CallsFine(ps, ls, mgr) == mgr = [m \in Managers |-> mgr[m]] /\ \A m \in Managers : CallFine(mgr[m], ps, ls)

\* A product that has lost its price is about to be removed.
PricesKept(ps, pr, ev, ex, mgr) ==
    \A i \in ev \ ex : \/ ps[i].status = "GONE" \/ i \in PricedIn(pr)
                       \/ \E m \in Managers : mgr[m].at = "remove" /\ Head(mgr[m].ids) = i

\* A product there is, made of a row of a file.
Imported(ps, i) == ps[i].row # Empty /\ ps[i].status # "GONE"

\* While requests do not overlap, an import knows the names imported so far, and whoever
\* makes a default list makes the first.
OneByOneSheets(ps, ls, mgr, ov) ==
    \/ ov
    \/ /\ \A m, n \in Managers : mgr[m].at \in {"rows", "newlist"} /\ mgr[n].at \in {"rows", "newlist"} => m = n
       /\ \A m \in Managers : mgr[m].at = "rows" => \A i \in DOMAIN ps : Imported(ps, i) => ps[i].name \in mgr[m].names
       /\ \A m \in Managers : mgr[m].at = "newlist" => \A l \in DOMAIN ls : ~ls[l].onDemand
       /\ \A i, j \in DOMAIN ps : Imported(ps, i) /\ Imported(ps, j) /\ ps[i].name = ps[j].name => i = j
       /\ \A k, l \in DOMAIN ls : ls[k].onDemand /\ ls[l].onDemand => k = l

\* A hook that is still to come.
Pending(c, i, hook) == \E k \in DOMAIN c.todo : c.todo[k].id = i /\ c.todo[k].hook = hook

\* What an import made has its price and its stock, or they are still to come, or noted.
AsSaid(row, priced1, stock1, c, i) ==
    /\ Pending(c, i, "stock") => stock1 = 0
    /\ i \notin c.noted => /\ row.price # 0 => priced1 \/ Pending(c, i, "price")
                           /\ stock1 = row.stock \/ Pending(c, i, "stock")

\* So it is for all an import has made.
MadeAsSaid(ps, st, ev, c) == \A i \in c.made : ps[i].row # Empty => AsSaid(ps[i].row, i \in ev, st[i], c, i)

\* A product has no stock but its opening stock, once; what was reported done is.
Stocked(ps, st, ev, td, mgr) ==
    /\ DOMAIN st = DOMAIN ps
    /\ \A i \in DOMAIN ps : ps[i].row # Empty => st[i] \in {0, ps[i].row.stock}
    /\ \A m \in Managers : MadeAsSaid(ps, st, ev, mgr[m]) /\ mgr[m].made \cap td = {}
    /\ \A m, n \in Managers : m # n => mgr[m].made \cap mgr[n].made = {}
    /\ \A i \in td : ps[i].row # Empty => (ps[i].row.price # 0 => i \in ev) /\ st[i] = ps[i].row.stock

\* Products changed one by one: none comes back, none unused is deleted, and the row a product
\* was made of is kept with its name or forgotten.
Reshelved(ps, ps2, st, st2, unused) ==
    /\ ps2 \in Seq(Range(ps2)) /\ DOMAIN ps \subseteq DOMAIN ps2 /\ DOMAIN st2 = DOMAIN ps2
    /\ \A i \in DOMAIN ps2 : ProductFine(ps2[i])
    /\ \A i \in DOMAIN ps : /\ ps[i].status = "GONE" => ps2[i].status = "GONE"
                            /\ ps2[i].status = "GONE" => ps[i].status = "GONE" \/ i \in unused
                            /\ ps2[i].row \in {ps[i].row, Empty} /\ (ps2[i].row # Empty => ps2[i].name = ps[i].name)
                            /\ st2[i] = st[i]
    /\ \A i \in DOMAIN ps2 \ DOMAIN ps : ps2[i].row = Empty /\ ps2[i].status # "GONE"

\* A sequence over a set is one over a larger set.
LEMMA WiderSeq ==
    ASSUME NEW D, NEW E, D \subseteq E, NEW s \in Seq(D)
    PROVE  s \in Seq(E)
<1> QED BY SeqDef

\* Products that change keep what refers to them.
LEMMA ReshelvedReferred ==
    ASSUME NEW ps, NEW ps2, NEW st, NEW st2, NEW unused, Reshelved(ps, ps2, st, st2, unused),
           NEW ls, NEW pr, NEW us, NEW sh, NEW ev, NEW td, Referred(ps, ls, pr, us, sh, ev, td),
           unused \cap (PricedIn(pr) \cup us \cup sh) = {}
    PROVE  Referred(ps2, ls, pr, us, sh, ev, td)
<1>1. DOMAIN ps \subseteq DOMAIN ps2
  BY DEF Reshelved
<1>2. ls \in Seq([default : BOOLEAN, onDemand : BOOLEAN]) /\ \A k \in DOMAIN pr : k[1] \in DOMAIN ls /\ k[2] \in DOMAIN ps2
  BY <1>1 DEF Referred
<1>3. us \cup sh \cup ev \cup td \subseteq DOMAIN ps2
  BY <1>1 DEF Referred
<1>4. ASSUME NEW i \in DOMAIN ps2, ps2[i].status = "GONE" PROVE i \notin PricedIn(pr) \cup us \cup sh
  <2>1. i \in DOMAIN ps
    BY <1>4 DEF Reshelved
  <2>2. ps[i].status = "GONE" \/ i \in unused
    BY <1>4, <2>1 DEF Reshelved
  <2> QED BY <2>1, <2>2 DEF Referred
<1> QED BY <1>2, <1>3, <1>4 DEF Referred

\* The same for what requests have in hand.
LEMMA ReshelvedCalls ==
    ASSUME NEW ps, NEW ps2, NEW st, NEW st2, NEW unused, Reshelved(ps, ps2, st, st2, unused),
           NEW ls, NEW mgr, CallsFine(ps, ls, mgr)
    PROVE  CallsFine(ps2, ls, mgr)
<1>1. DOMAIN ps \subseteq DOMAIN ps2 /\ \A i \in DOMAIN ps : ps2[i].row \in {ps[i].row, Empty}
  BY DEF Reshelved
<1>2. ASSUME NEW c, CallFine(c, ps, ls) PROVE CallFine(c, ps2, ls)
  <2>1. HooksFine(c, ps2)
    <3>1. HooksFine(c, ps)
      BY <1>2 DEF CallFine
    <3>2. \A k \in DOMAIN c.todo : c.todo[k].id \in DOMAIN ps
      BY <3>1 DEF HooksFine
    <3> QED BY <1>1, <3>1, <3>2 DEF HooksFine
  <2>2. PlaceFine(c, ps2, ls)
    <3>1. PlaceFine(c, ps, ls)
      BY <1>2 DEF CallFine
    <3>2. c.ids \in Seq(DOMAIN ps) => c.ids \in Seq(DOMAIN ps2)
      <4>1. PICK D, E : D = DOMAIN ps /\ E = DOMAIN ps2
        OBVIOUS
      <4> QED BY <1>1, <4>1, WiderSeq
    <3> QED BY <3>1, <3>2 DEF PlaceFine
  <2> QED BY <1>2, <2>1, <2>2 DEF CallFine
<1> QED BY <1>2 DEF CallsFine

\* The same for prices.
LEMMA ReshelvedPrices ==
    ASSUME NEW ps, NEW ps2, NEW st, NEW st2, NEW unused, Reshelved(ps, ps2, st, st2, unused),
           NEW pr, NEW ev, ev \subseteq DOMAIN ps, NEW ex, NEW mgr, PricesKept(ps, pr, ev, ex, mgr)
    PROVE  PricesKept(ps2, pr, ev, ex, mgr)
<1>1. \A i \in DOMAIN ps : ps[i].status = "GONE" => ps2[i].status = "GONE"
  BY DEF Reshelved
<1> QED BY <1>1 DEF PricesKept

\* The same for what imports know.
LEMMA ReshelvedSheets ==
    ASSUME NEW ps, NEW ps2, NEW st, NEW st2, NEW unused, Reshelved(ps, ps2, st, st2, unused),
           NEW ls, NEW mgr, NEW ov, OneByOneSheets(ps, ls, mgr, ov)
    PROVE  OneByOneSheets(ps2, ls, mgr, ov)
<1>1. ASSUME NEW i \in DOMAIN ps2, Imported(ps2, i) PROVE i \in DOMAIN ps /\ Imported(ps, i) /\ ps2[i].name = ps[i].name
  <2>1. i \in DOMAIN ps
    BY <1>1 DEF Reshelved, Imported
  <2>2. ps[i].row # Empty /\ ps2[i].name = ps[i].name /\ ps[i].status # "GONE"
    BY <1>1, <2>1 DEF Reshelved, Imported
  <2> QED BY <2>1, <2>2 DEF Imported
<1>2. CASE ov
  BY <1>2 DEF OneByOneSheets
<1>3. CASE ~ov
  <2>1. \A m \in Managers : mgr[m].at = "rows" => \A i \in DOMAIN ps2 : Imported(ps2, i) => ps2[i].name \in mgr[m].names
    BY <1>1, <1>3 DEF OneByOneSheets
  <2>2. \A i, j \in DOMAIN ps2 : Imported(ps2, i) /\ Imported(ps2, j) /\ ps2[i].name = ps2[j].name => i = j
    BY <1>1, <1>3 DEF OneByOneSheets
  <2> QED BY <1>3, <2>1, <2>2 DEF OneByOneSheets
<1> QED BY <1>2, <1>3

\* The same for stocks and reports.
LEMMA ReshelvedStocked ==
    ASSUME NEW ps, NEW ps2, NEW st, NEW st2, NEW unused, Reshelved(ps, ps2, st, st2, unused),
           NEW ev, NEW td, td \subseteq DOMAIN ps, NEW mgr, NEW ls, CallsFine(ps, ls, mgr), Stocked(ps, st, ev, td, mgr)
    PROVE  Stocked(ps2, st2, ev, td, mgr)
<1>1. \A i \in DOMAIN ps : ps2[i].row # Empty => ps2[i].row = ps[i].row /\ ps[i].row # Empty /\ st2[i] = st[i]
  BY DEF Reshelved
<1>2. \A i \in DOMAIN ps2 : ps2[i].row # Empty => i \in DOMAIN ps
  BY DEF Reshelved
<1>3. DOMAIN st2 = DOMAIN ps2
  BY DEF Reshelved
<1>4. \A i \in DOMAIN ps2 : ps2[i].row # Empty => st2[i] \in {0, ps2[i].row.stock}
  BY <1>1, <1>2 DEF Stocked
<1>5. ASSUME NEW m \in Managers PROVE MadeAsSaid(ps2, st2, ev, mgr[m])
  <2>1. mgr[m].made \subseteq DOMAIN ps
    BY DEF CallsFine, CallFine, HooksFine
  <2>2. MadeAsSaid(ps, st, ev, mgr[m])
    BY DEF Stocked
  <2> QED BY <1>1, <2>1, <2>2 DEF MadeAsSaid
<1>6. \A i \in td : ps2[i].row # Empty => (ps2[i].row.price # 0 => i \in ev) /\ st2[i] = ps2[i].row.stock
  BY <1>1 DEF Stocked
<1>7. /\ \A m \in Managers : mgr[m].made \cap td = {}
      /\ \A m, n \in Managers : m # n => mgr[m].made \cap mgr[n].made = {}
  BY DEF Stocked
<1> QED BY <1>3, <1>4, <1>5, <1>6, <1>7 DEF Stocked

\* One request goes on, the others stay where they are.
Other(mgr, m, c2) == [mgr EXCEPT ![m] = c2]

\* What that changes.
LEMMA OtherIs ==
    ASSUME NEW mgr, mgr = [x \in Managers |-> mgr[x]], NEW m \in Managers, NEW c2
    PROVE  /\ Other(mgr, m, c2) = [x \in Managers |-> Other(mgr, m, c2)[x]]
           /\ Other(mgr, m, c2)[m] = c2 /\ \A n \in Managers : n # m => Other(mgr, m, c2)[n] = mgr[n]
<1> QED BY DEF Other

\* The requests stay fine when the one that goes on is.
LEMMA OtherCalls ==
    ASSUME NEW ps, NEW ls, NEW mgr, CallsFine(ps, ls, mgr), NEW m \in Managers, NEW c2, CallFine(c2, ps, ls)
    PROVE  CallsFine(ps, ls, Other(mgr, m, c2))
<1>1. mgr = [x \in Managers |-> mgr[x]] /\ \A n \in Managers : CallFine(mgr[n], ps, ls)
  BY DEF CallsFine
<1>2. PICK mgr2 : mgr2 = Other(mgr, m, c2)
  OBVIOUS
<1>3. mgr2 = [x \in Managers |-> mgr2[x]] /\ mgr2[m] = c2 /\ \A n \in Managers : n # m => mgr2[n] = mgr[n]
  BY <1>1, <1>2, OtherIs
<1>4. \A n \in Managers : CallFine(mgr2[n], ps, ls)
  BY <1>1, <1>3
<1> QED BY <1>2, <1>3, <1>4 DEF CallsFine

\* A request that reads nothing knows nothing it must keep.
LEMMA OtherSheets ==
    ASSUME NEW ps, NEW ls, NEW mgr, CallsFine(ps, ls, mgr), NEW m \in Managers, NEW c2, NEW ov,
           OneByOneSheets(ps, ls, mgr, ov), c2.at \notin {"rows", "newlist"}
    PROVE  OneByOneSheets(ps, ls, Other(mgr, m, c2), ov)
<1>1. PICK mgr2 : mgr2 = Other(mgr, m, c2)
  OBVIOUS
<1>2. mgr2[m] = c2 /\ \A n \in Managers : n # m => mgr2[n] = mgr[n]
  BY <1>1, OtherIs DEF CallsFine
<1>3. \A n \in Managers : mgr2[n].at \in {"rows", "newlist"} => n # m /\ mgr2[n] = mgr[n]
  BY <1>2
<1>4. CASE ov
  BY <1>1, <1>4 DEF OneByOneSheets
<1>5. CASE ~ov
  <2>1. \A n, k \in Managers : mgr2[n].at \in {"rows", "newlist"} /\ mgr2[k].at \in {"rows", "newlist"} => n = k
    BY <1>3, <1>5 DEF OneByOneSheets
  <2>2. \A n \in Managers : mgr2[n].at = "rows" => \A i \in DOMAIN ps : Imported(ps, i) => ps[i].name \in mgr2[n].names
    BY <1>3, <1>5 DEF OneByOneSheets
  <2>3. \A n \in Managers : mgr2[n].at = "newlist" => \A l \in DOMAIN ls : ~ls[l].onDemand
    BY <1>3, <1>5 DEF OneByOneSheets
  <2> QED BY <1>1, <1>5, <2>1, <2>2, <2>3 DEF OneByOneSheets
<1> QED BY <1>4, <1>5

\* A price that is missing stays excused.
LEMMA OtherPrices ==
    ASSUME NEW ps, NEW ls, NEW mgr, CallsFine(ps, ls, mgr), NEW m \in Managers, NEW c2, NEW pr, NEW ev, NEW ex, NEW ex2,
           PricesKept(ps, pr, ev, ex, mgr), ex \subseteq ex2,
           mgr[m].at = "remove" => Head(mgr[m].ids) \in ex2 \/ ps[Head(mgr[m].ids)].status = "GONE"
    PROVE  PricesKept(ps, pr, ev, ex2, Other(mgr, m, c2))
<1>1. PICK mgr2 : mgr2 = Other(mgr, m, c2)
  OBVIOUS
<1>2. mgr2[m] = c2 /\ \A n \in Managers : n # m => mgr2[n] = mgr[n]
  BY <1>1, OtherIs DEF CallsFine
<1>3. ASSUME NEW i \in ev \ ex2
      PROVE  \/ ps[i].status = "GONE" \/ i \in PricedIn(pr)
             \/ \E n \in Managers : mgr2[n].at = "remove" /\ Head(mgr2[n].ids) = i
  <2>1. CASE \E n \in Managers : mgr[n].at = "remove" /\ Head(mgr[n].ids) = i
    <3>1. PICK n \in Managers : mgr[n].at = "remove" /\ Head(mgr[n].ids) = i
      BY <2>1
    <3> QED BY <1>2, <3>1
  <2> QED BY <2>1 DEF PricesKept
<1> QED BY <1>1, <1>3 DEF PricesKept

\* A call that keeps its hooks, or drops them all.
LEMMA OtherStocked ==
    ASSUME NEW ps, NEW st, NEW ls, NEW mgr, CallsFine(ps, ls, mgr), NEW m \in Managers, NEW c2, NEW ev, NEW td,
           Stocked(ps, st, ev, td, mgr),
           c2.made = {} \/ (c2.todo = mgr[m].todo /\ c2.made = mgr[m].made /\ c2.noted = mgr[m].noted)
    PROVE  Stocked(ps, st, ev, td, Other(mgr, m, c2))
<1>1. PICK mgr2 : mgr2 = Other(mgr, m, c2)
  OBVIOUS
<1>2. mgr2[m] = c2 /\ \A n \in Managers : n # m => mgr2[n] = mgr[n]
  BY <1>1, OtherIs DEF CallsFine
<1>3. MadeAsSaid(ps, st, ev, mgr[m])
  BY DEF Stocked
<1>4. MadeAsSaid(ps, st, ev, c2)
  BY <1>3 DEF MadeAsSaid, AsSaid, Pending
<1>5. c2.made \subseteq mgr[m].made
  OBVIOUS
<1>6. \A n \in Managers : MadeAsSaid(ps, st, ev, mgr2[n]) /\ mgr2[n].made \subseteq mgr[n].made
  BY <1>2, <1>4, <1>5 DEF Stocked
<1>7. /\ \A n \in Managers : mgr2[n].made \cap td = {}
      /\ \A n, k \in Managers : n # k => mgr2[n].made \cap mgr2[k].made = {}
  BY <1>6 DEF Stocked
<1> QED BY <1>1, <1>6, <1>7 DEF Stocked

\* The first of a sequence and what follows it.
LEMMA FirstAndRest ==
    ASSUME NEW s, s \in Seq(Range(s)), s # <<>>
    PROVE  /\ 1 \in DOMAIN s /\ Head(s) = s[1] /\ Tail(s) \in Seq(Range(Tail(s)))
           /\ \A k \in DOMAIN Tail(s) : k + 1 \in DOMAIN s /\ k + 1 # 1 /\ Tail(s)[k] = s[k + 1] /\ k \in Int
           /\ \A k \in DOMAIN s : k = 1 \/ (k - 1 \in DOMAIN Tail(s) /\ Tail(s)[k - 1] = s[k])
<1>1. PICK t, n, R : t = Tail(s) /\ n = Len(s) /\ R = Range(s)
  OBVIOUS
<1>2. n \in Nat /\ DOMAIN s = 1..n
  BY <1>1, LenProperties
<1>3. n # 0
  BY <1>1, <1>2, EmptySeq
<1>4. Head(s) = s[1] /\ t \in Seq(R) /\ Len(t) = n - 1 /\ \A k \in 1..(n - 1) : t[k] = s[k + 1]
  <2>1. t \in Seq(R) /\ Len(t) = n - 1 /\ \A k \in 1..Len(t) : t[k] = s[k + 1]
    BY <1>1, HeadTailProperties
  <2>2. Head(s) = s[1]
    OBVIOUS
  <2> QED BY <2>1, <2>2
<1>5. DOMAIN t = 1..(n - 1)
  BY <1>4, LenProperties
<1>6. t \in Seq(Range(t))
  BY <1>4, SeqOfRange
<1> QED BY <1>1, <1>2, <1>3, <1>4, <1>5, <1>6

\* What a hook leaves behind: a note, a price, or a stock.
HookDone(h, noted, ev, st, st2) ==
    \/ h.id \in noted /\ st2 = st
    \/ h.hook = "price" /\ h.id \in ev /\ st2 = st
    \/ h.hook = "rate" /\ st2 = st
    \/ h.hook = "stock" /\ st2 = [st EXCEPT ![h.id] = @ + h.row.stock]

\* The first hook of an import done: it is no longer to come and has left its trace.
LEMMA HookDoneStocked ==
    ASSUME NEW ps, NEW st, NEW st2, NEW ls, NEW mgr, CallsFine(ps, ls, mgr), NEW m \in Managers, NEW c, c = mgr[m], NEW c2,
           NEW ev, NEW ev2, NEW td, td \subseteq DOMAIN ps, Stocked(ps, st, ev, td, mgr),
           c.todo # <<>>, c2.todo = Tail(c.todo), c2.made = c.made, c.noted \subseteq c2.noted, ev \subseteq ev2,
           NEW h, h = Head(c.todo), HookDone(h, c2.noted, ev2, st, st2)
    PROVE  Stocked(ps, st2, ev2, td, Other(mgr, m, c2))
<1>0. \/ h.id \in c2.noted /\ st2 = st
      \/ h.hook = "price" /\ h.id \in ev2 /\ st2 = st
      \/ h.hook = "rate" /\ st2 = st
      \/ h.hook = "stock" /\ st2 = [st EXCEPT ![h.id] = @ + h.row.stock]
  BY DEF HookDone
<1>1. PICK mgr2 : mgr2 = Other(mgr, m, c2)
  OBVIOUS
<1>2. mgr2[m] = c2 /\ \A n \in Managers : n # m => mgr2[n] = mgr[n]
  BY <1>1, OtherIs DEF CallsFine
<1>3. HooksFine(c, ps) /\ MadeAsSaid(ps, st, ev, c)
  BY DEF Stocked, CallsFine, CallFine
<1>4. PICK todo, rest : todo = c.todo /\ rest = c2.todo /\ rest = Tail(todo)
  OBVIOUS
<1>4a. todo \in Seq(Range(todo)) /\ todo # <<>> /\ h = Head(todo)
  BY <1>3, <1>4 DEF HooksFine
<1>5. /\ 1 \in DOMAIN todo /\ h = todo[1]
      /\ \A k \in DOMAIN rest : k + 1 \in DOMAIN todo /\ k + 1 # 1 /\ rest[k] = todo[k + 1]
      /\ \A k \in DOMAIN todo : k = 1 \/ (k - 1 \in DOMAIN rest /\ rest[k - 1] = todo[k])
  BY <1>4, <1>4a, FirstAndRest
<1>6. h.id \in c.made /\ c.made \subseteq DOMAIN ps /\ h.row.stock \in Int /\ (ps[h.id].row # Empty => h.row = ps[h.id].row)
  BY <1>3, <1>4, <1>5 DEF HooksFine
<1>7. DOMAIN st = DOMAIN ps /\ DOMAIN st2 = DOMAIN ps /\ \A i \in DOMAIN ps : i # h.id => st2[i] = st[i]
  BY <1>0, <1>6 DEF Stocked
<1>8. h.hook = "stock" /\ ps[h.id].row # Empty => st[h.id] = 0
  BY <1>3, <1>4, <1>5, <1>6 DEF MadeAsSaid, AsSaid, Pending
<1>9. h.hook = "stock" => ~Pending(c2, h.id, "stock")
  <2> SUFFICES ASSUME h.hook = "stock", NEW k \in DOMAIN rest, rest[k].id = h.id, rest[k].hook = "stock" PROVE FALSE
    BY <1>4 DEF Pending
  <2>1. k + 1 \in DOMAIN todo /\ k + 1 # 1 /\ todo[k + 1].id = todo[1].id /\ todo[k + 1].hook = "stock" /\ todo[1].hook = "stock"
    BY <1>5
  <2> QED BY <1>3, <1>4, <1>5, <2>1 DEF HooksFine
<1>10. \A i, hook : Pending(c2, i, hook) => Pending(c, i, hook)
  BY <1>4, <1>5 DEF Pending
<1>11. ASSUME NEW i, NEW hook, Pending(c, i, hook) PROVE Pending(c2, i, hook) \/ (i = h.id /\ hook = h.hook)
  <2>1. PICK k \in DOMAIN todo : todo[k].id = i /\ todo[k].hook = hook
    BY <1>4, <1>11 DEF Pending
  <2>2. CASE k = 1
    BY <1>5, <2>1, <2>2
  <2>3. CASE k - 1 \in DOMAIN rest /\ rest[k - 1] = todo[k]
    BY <1>4, <2>1, <2>3 DEF Pending
  <2> QED BY <1>5, <2>2, <2>3
<1>12. st2 = st \/ (h.hook = "stock" /\ st2[h.id] = st[h.id] + h.row.stock)
  BY <1>0, <1>6, <1>7
<1>13. \A i \in DOMAIN ps : ps[i].row # Empty => st2[i] = st[i] \/ (i = h.id /\ h.hook = "stock" /\ st[i] = 0 /\ st2[i] = ps[i].row.stock)
  BY <1>6, <1>7, <1>8, <1>12
<1>14. \A i \in DOMAIN ps : ps[i].row # Empty => st2[i] \in {0, ps[i].row.stock}
  BY <1>13 DEF Stocked
<1>15. \A i \in DOMAIN ps : i \notin c.made => st2[i] = st[i]
  BY <1>6, <1>7
<1>16. MadeAsSaid(ps, st2, ev2, c2)
  <2> SUFFICES ASSUME NEW i \in c2.made, ps[i].row # Empty PROVE AsSaid(ps[i].row, i \in ev2, st2[i], c2, i)
    BY DEF MadeAsSaid
  <2>0. i \in c.made
    OBVIOUS
  <2>1. i \in DOMAIN ps
    BY <1>6, <2>0
  <2>2. /\ Pending(c, i, "stock") => st[i] = 0
        /\ i \notin c.noted => /\ ps[i].row.price # 0 => i \in ev \/ Pending(c, i, "price")
                               /\ st[i] = ps[i].row.stock \/ Pending(c, i, "stock")
    BY <1>3, <2>0 DEF MadeAsSaid, AsSaid
  <2>3. Pending(c2, i, "stock") => st2[i] = 0
    BY <1>9, <1>10, <1>13, <2>1, <2>2
  <2>4. ASSUME i \notin c2.noted, ps[i].row.price # 0 PROVE i \in ev2 \/ Pending(c2, i, "price")
    <3>1. i \notin c.noted /\ (i = h.id /\ h.hook = "price" => i \in ev2)
      BY <1>0, <2>4
    <3>2. Pending(c, i, "price") => Pending(c2, i, "price") \/ (i = h.id /\ h.hook = "price")
      BY <1>11
    <3>3. i \in ev \/ Pending(c, i, "price")
      BY <2>2, <2>4, <3>1
    <3>4. i \in ev => i \in ev2
      OBVIOUS
    <3> QED BY <3>1, <3>2, <3>3, <3>4
  <2>5. ASSUME i \notin c2.noted PROVE st2[i] = ps[i].row.stock \/ Pending(c2, i, "stock")
    <3>1. CASE i = h.id /\ h.hook = "stock"
      <4>1. st2[i] = st[i] + h.row.stock
        BY <1>0, <1>6, <1>7, <2>1, <2>5, <3>1
      <4>2. st[i] = 0 /\ h.row = ps[i].row /\ h.row.stock \in Int
        BY <1>6, <1>8, <3>1
      <4> QED BY <4>1, <4>2
    <3>2. CASE ~(i = h.id /\ h.hook = "stock")
      <4>1. st2[i] = st[i]
        BY <1>13, <2>1, <3>2
      <4>2. i \notin c.noted
        BY <2>5
      <4>3. Pending(c, i, "stock") => Pending(c2, i, "stock")
        BY <1>11, <3>2
      <4> QED BY <2>2, <4>1, <4>2, <4>3
    <3> QED BY <3>1, <3>2
  <2> QED BY <2>3, <2>4, <2>5 DEF AsSaid
<1>17. \A n \in Managers : mgr2[n].made = mgr[n].made
  BY <1>2
<1>18. /\ \A n \in Managers : mgr2[n].made \cap td = {}
       /\ \A n, k \in Managers : n # k => mgr2[n].made \cap mgr2[k].made = {}
  BY <1>17 DEF Stocked
<1>19. ASSUME NEW n \in Managers PROVE MadeAsSaid(ps, st2, ev2, mgr2[n])
  <2>1. CASE n = m
    BY <1>2, <1>16, <2>1
  <2>2. CASE n # m
    <3>1. MadeAsSaid(ps, st, ev, mgr[n]) /\ mgr2[n] = mgr[n]
      BY <1>2, <2>2 DEF Stocked
    <3>2. \A i \in mgr[n].made : i \in DOMAIN ps /\ i \notin c.made
      BY <2>2 DEF Stocked, CallsFine, CallFine, HooksFine
    <3>3. \A i \in mgr[n].made : st2[i] = st[i]
      BY <1>15, <3>2
    <3>4. \A i \in mgr[n].made : ps[i].row # Empty => AsSaid(ps[i].row, i \in ev, st[i], mgr[n], i)
      BY <3>1 DEF MadeAsSaid
    <3>5. ASSUME NEW i \in mgr[n].made, ps[i].row # Empty PROVE AsSaid(ps[i].row, i \in ev2, st2[i], mgr[n], i)
      <4>1. st2[i] = st[i] /\ AsSaid(ps[i].row, i \in ev, st[i], mgr[n], i)
        BY <3>3, <3>4, <3>5
      <4> QED BY <4>1 DEF AsSaid
    <3> QED BY <3>1, <3>5 DEF MadeAsSaid
  <2> QED BY <2>1, <2>2
<1>20. \A i \in td : st2[i] = st[i]
  <2>1. c.made \cap td = {}
    BY DEF Stocked
  <2> QED BY <1>15, <2>1
<1>21. \A i \in td : ps[i].row # Empty => (ps[i].row.price # 0 => i \in ev2) /\ st2[i] = ps[i].row.stock
  BY <1>20 DEF Stocked
<1> QED BY <1>1, <1>7, <1>14, <1>18, <1>19, <1>21 DEF Stocked

\* The inductive invariant, of any products, lists, prices and requests.
Whole(us, ps, ls, pr, st, usd, shn, mgr, ev, td, ov, ex) ==
    /\ ShelfFine(ps, us)
    /\ Referred(ps, ls, pr, usd, shn, ev, td)
    /\ CallsFine(ps, ls, mgr)
    /\ PricesKept(ps, pr, ev, ex, mgr)
    /\ OneByOneSheets(ps, ls, mgr, ov)
    /\ Stocked(ps, st, ev, td, mgr)

\* The inductive invariant of the state.
CatalogueInv == Whole(units, product, lists, priced, stock, used, shown, manager, everPriced, told, overlap, excused)

\* The invariant when products change.
LEMMA WholeReshelved ==
    ASSUME NEW us, NEW ps, NEW ls, NEW pr, NEW st, NEW usd, NEW shn, NEW mgr, NEW ev, NEW td, NEW ov, NEW ex,
           Whole(us, ps, ls, pr, st, usd, shn, mgr, ev, td, ov, ex),
           NEW ps2, NEW st2, NEW unused, Reshelved(ps, ps2, st, st2, unused), unused \cap (PricedIn(pr) \cup usd \cup shn) = {}
    PROVE  Whole(us, ps2, ls, pr, st2, usd, shn, mgr, ev, td, ov, ex)
<1>1. /\ ShelfFine(ps, us) /\ Referred(ps, ls, pr, usd, shn, ev, td) /\ CallsFine(ps, ls, mgr)
      /\ PricesKept(ps, pr, ev, ex, mgr) /\ OneByOneSheets(ps, ls, mgr, ov) /\ Stocked(ps, st, ev, td, mgr)
  BY DEF Whole
<1>2. ev \subseteq DOMAIN ps /\ td \subseteq DOMAIN ps
  BY <1>1 DEF Referred
<1>3. ShelfFine(ps2, us)
  BY <1>1 DEF ShelfFine, Reshelved
<1>4. Referred(ps2, ls, pr, usd, shn, ev, td)
  BY <1>1, ReshelvedReferred
<1>5. CallsFine(ps2, ls, mgr)
  BY <1>1, ReshelvedCalls
<1>6. PricesKept(ps2, pr, ev, ex, mgr)
  BY <1>1, <1>2, ReshelvedPrices
<1>7. OneByOneSheets(ps2, ls, mgr, ov)
  BY <1>1, ReshelvedSheets
<1>8. Stocked(ps2, st2, ev, td, mgr)
  BY <1>1, <1>2, ReshelvedStocked
<1> QED BY <1>3, <1>4, <1>5, <1>6, <1>7, <1>8 DEF Whole

\* The invariant when a request goes on.
LEMMA WholeOther ==
    ASSUME NEW us, NEW ps, NEW ls, NEW pr, NEW st, NEW usd, NEW shn, NEW mgr, NEW ev, NEW td, NEW ov, NEW ex,
           Whole(us, ps, ls, pr, st, usd, shn, mgr, ev, td, ov, ex),
           NEW m \in Managers, NEW c2, CallFine(c2, ps, ls), c2.at \notin {"rows", "newlist"},
           c2.made = {} \/ (c2.todo = mgr[m].todo /\ c2.made = mgr[m].made /\ c2.noted = mgr[m].noted),
           NEW ex2, ex \subseteq ex2, mgr[m].at = "remove" => Head(mgr[m].ids) \in ex2 \/ ps[Head(mgr[m].ids)].status = "GONE"
    PROVE  Whole(us, ps, ls, pr, st, usd, shn, Other(mgr, m, c2), ev, td, ov, ex2)
<1>1. /\ ShelfFine(ps, us) /\ Referred(ps, ls, pr, usd, shn, ev, td) /\ CallsFine(ps, ls, mgr)
      /\ PricesKept(ps, pr, ev, ex, mgr) /\ OneByOneSheets(ps, ls, mgr, ov) /\ Stocked(ps, st, ev, td, mgr)
  BY DEF Whole
<1>2. CallsFine(ps, ls, Other(mgr, m, c2))
  BY <1>1, OtherCalls
<1>3. PricesKept(ps, pr, ev, ex2, Other(mgr, m, c2))
  BY <1>1, OtherPrices
<1>4. OneByOneSheets(ps, ls, Other(mgr, m, c2), ov)
  BY <1>1, OtherSheets
<1>5. Stocked(ps, st, ev, td, Other(mgr, m, c2))
  BY <1>1, OtherStocked
<1> QED BY <1>1, <1>2, <1>3, <1>4, <1>5 DEF Whole

\* One more price changes no stock and makes no report false.
LEMMA MorePriced ==
    ASSUME NEW ps, NEW st, NEW ev, NEW td, NEW mgr, Stocked(ps, st, ev, td, mgr), NEW i
    PROVE  Stocked(ps, st, ev \cup {i}, td, mgr)
<1>1. ASSUME NEW m \in Managers PROVE MadeAsSaid(ps, st, ev \cup {i}, mgr[m])
  <2>1. MadeAsSaid(ps, st, ev, mgr[m])
    BY DEF Stocked
  <2>2. ASSUME NEW j \in mgr[m].made, ps[j].row # Empty PROVE AsSaid(ps[j].row, j \in ev \cup {i}, st[j], mgr[m], j)
    <3>1. AsSaid(ps[j].row, j \in ev, st[j], mgr[m], j)
      BY <2>1, <2>2 DEF MadeAsSaid
    <3> QED BY <3>1 DEF AsSaid
  <2> QED BY <2>2 DEF MadeAsSaid
<1>2. \A j \in td : ps[j].row # Empty => (ps[j].row.price # 0 => j \in ev \cup {i}) /\ st[j] = ps[j].row.stock
  BY DEF Stocked
<1> QED BY <1>1, <1>2 DEF Stocked

\* The invariant when a product is given a price.
LEMMA WholePriced ==
    ASSUME NEW us, NEW ps, NEW ls, NEW pr, NEW st, NEW usd, NEW shn, NEW mgr, NEW ev, NEW td, NEW ov, NEW ex,
           Whole(us, ps, ls, pr, st, usd, shn, mgr, ev, td, ov, ex),
           NEW l \in DOMAIN ls, NEW i \in DOMAIN ps, ps[i].status # "GONE", NEW pr2, DOMAIN pr2 = DOMAIN pr \cup {<<l, i>>}
    PROVE  Whole(us, ps, ls, pr2, st, usd, shn, mgr, ev \cup {i}, td, ov, ex)
<1>1. /\ ShelfFine(ps, us) /\ Referred(ps, ls, pr, usd, shn, ev, td) /\ CallsFine(ps, ls, mgr)
      /\ PricesKept(ps, pr, ev, ex, mgr) /\ OneByOneSheets(ps, ls, mgr, ov) /\ Stocked(ps, st, ev, td, mgr)
  BY DEF Whole
<1>2. PricedIn(pr2) = PricedIn(pr) \cup {i}
  <2>1. \A k \in DOMAIN pr2 : k \in DOMAIN pr \/ k[2] = i
    OBVIOUS
  <2>2. i \in PricedIn(pr2)
    <3>1. <<l, i>> \in DOMAIN pr2 /\ <<l, i>>[2] = i
      OBVIOUS
    <3> QED BY <3>1 DEF PricedIn
  <2>3. \A j \in PricedIn(pr) : j \in PricedIn(pr2)
    BY DEF PricedIn
  <2>4. \A j \in PricedIn(pr2) : j \in PricedIn(pr) \cup {i}
    BY <2>1 DEF PricedIn
  <2> QED BY <2>2, <2>3, <2>4
<1>3. Referred(ps, ls, pr2, usd, shn, ev \cup {i}, td)
  <2>1. \A k \in DOMAIN pr2 : k[1] \in DOMAIN ls /\ k[2] \in DOMAIN ps
    BY <1>1 DEF Referred
  <2> QED BY <1>1, <1>2, <2>1 DEF Referred
<1>4. PricesKept(ps, pr2, ev \cup {i}, ex, mgr)
  BY <1>1, <1>2 DEF PricesKept
<1>5. Stocked(ps, st, ev \cup {i}, td, mgr)
  BY <1>1, MorePriced
<1> QED BY <1>1, <1>3, <1>4, <1>5 DEF Whole

\* The invariant when something comes to refer to a product.
LEMMA WholeUsed ==
    ASSUME NEW us, NEW ps, NEW ls, NEW pr, NEW st, NEW usd, NEW shn, NEW mgr, NEW ev, NEW td, NEW ov, NEW ex,
           Whole(us, ps, ls, pr, st, usd, shn, mgr, ev, td, ov, ex),
           NEW usd2, NEW shn2, usd2 \cup shn2 \subseteq DOMAIN ps,
           \A i \in (usd2 \cup shn2) \ (usd \cup shn) : ps[i].status # "GONE"
    PROVE  Whole(us, ps, ls, pr, st, usd2, shn2, mgr, ev, td, ov, ex)
<1> QED BY DEF Whole, Referred

\* The invariant when a list is added: a second one made on demand needs an overlap.
LEMMA WholeListed ==
    ASSUME NEW us, NEW ps, NEW ls, NEW pr, NEW st, NEW usd, NEW shn, NEW mgr, NEW ev, NEW td, NEW ov, NEW ex,
           Whole(us, ps, ls, pr, st, usd, shn, mgr, ev, td, ov, ex),
           NEW r \in [default : BOOLEAN, onDemand : BOOLEAN],
           r.onDemand => \/ ov
                         \/ /\ \A l \in DOMAIN ls : ~ls[l].onDemand
                            /\ \A m \in Managers : mgr[m].at # "newlist"
    PROVE  Whole(us, ps, Append(ls, r), pr, st, usd, shn, mgr, ev, td, ov, ex)
<1>1. /\ ShelfFine(ps, us) /\ Referred(ps, ls, pr, usd, shn, ev, td) /\ CallsFine(ps, ls, mgr)
      /\ PricesKept(ps, pr, ev, ex, mgr) /\ OneByOneSheets(ps, ls, mgr, ov) /\ Stocked(ps, st, ev, td, mgr)
  BY DEF Whole
<1>2. PICK ls2, n : ls2 = Append(ls, r) /\ n = Len(ls) + 1
  OBVIOUS
<1>3. ls \in Seq([default : BOOLEAN, onDemand : BOOLEAN])
  BY <1>1 DEF Referred
<1>4. /\ ls2 \in Seq([default : BOOLEAN, onDemand : BOOLEAN]) /\ DOMAIN ls2 = DOMAIN ls \cup {n} /\ n \notin DOMAIN ls
      /\ (\A l \in DOMAIN ls : ls2[l] = ls[l]) /\ ls2[n] = r
  BY <1>2, <1>3, AddAtEnd
<1>5. Referred(ps, ls2, pr, usd, shn, ev, td)
  BY <1>1, <1>4 DEF Referred
<1>6. CallsFine(ps, ls2, mgr)
  BY <1>1, <1>4 DEF CallsFine, CallFine, PlaceFine
<1>7. OneByOneSheets(ps, ls2, mgr, ov)
  BY <1>1, <1>4 DEF OneByOneSheets
<1> QED BY <1>1, <1>2, <1>5, <1>6, <1>7 DEF Whole

\* A sequence whose entries are replaced is a sequence.
LEMMA SameLength ==
    ASSUME NEW ps, ps \in Seq(Range(ps)), NEW ps2, ps2 = [i \in DOMAIN ps |-> ps2[i]]
    PROVE  ps2 \in Seq(Range(ps2))
<1>1. PICK n \in Nat : DOMAIN ps = 1..n
  BY LenProperties
<1>2. PICK R : R = Range(ps2)
  OBVIOUS
<1>3. ps2 \in [1..n -> R]
  BY <1>1, <1>2 DEF Range
<1>4. ps2 \in Seq(R)
  BY <1>3
<1> QED BY <1>2, <1>4

\* The invariant when one product is replaced.
LEMMA WholeOne ==
    ASSUME NEW us, NEW ps, NEW ls, NEW pr, NEW st, NEW usd, NEW shn, NEW mgr, NEW ev, NEW td, NEW ov, NEW ex,
           Whole(us, ps, ls, pr, st, usd, shn, mgr, ev, td, ov, ex),
           NEW i \in DOMAIN ps, ps[i].status # "GONE", NEW x, ProductFine(x), x.row \in {ps[i].row, Empty},
           x.row # Empty => x.name = ps[i].name, x.status # "GONE" \/ i \notin PricedIn(pr) \cup usd \cup shn
    PROVE  Whole(us, [ps EXCEPT ![i] = x], ls, pr, st, usd, shn, mgr, ev, td, ov, ex)
<1>1. ps \in Seq(Range(ps)) /\ \A j \in DOMAIN ps : ProductFine(ps[j])
  BY DEF Whole, ShelfFine
<1>2. PICK ps2 : ps2 = [ps EXCEPT ![i] = x]
  OBVIOUS
<1>3. PICK n \in Nat : DOMAIN ps = 1..n /\ ps \in [1..n -> Range(ps)]
  BY <1>1, LenProperties
<1>4. ps2 = [j \in DOMAIN ps |-> ps2[j]] /\ ps2[i] = x /\ \A j \in DOMAIN ps : j # i => ps2[j] = ps[j]
  BY <1>2, <1>3
<1>5. ps2 \in Seq(Range(ps2)) /\ DOMAIN ps2 = DOMAIN ps
  BY <1>1, <1>4, SameLength
<1>6. DOMAIN st = DOMAIN ps
  BY DEF Whole, Stocked
<1>7. PICK unused : unused = IF x.status = "GONE" THEN {i} ELSE {}
  OBVIOUS
<1>8. Reshelved(ps, ps2, st, st, unused)
  BY <1>1, <1>4, <1>5, <1>6, <1>7 DEF Reshelved
<1> QED BY <1>2, <1>7, <1>8, WholeReshelved

\* The primed state, when all but what a lemma names stays as it is.
LEMMA UnitsPass ==
    ASSUME CatalogueInv, CatalogueAssumption,
           EnsureDefaultUnits \/ \E u \in Units : CreateUnitOfMeasure(u)
    PROVE  CatalogueInv'
<1>1. /\ UNCHANGED <<product, lists, priced, stock, used, shown, manager, everPriced, told, overlap, excused>>
      /\ (units \subseteq Units => units' \subseteq Units)
  BY DEF EnsureDefaultUnits, CreateUnitOfMeasure, Pricing, Trade, NoRequest, Histories
<1> QED BY <1>1 DEF CatalogueInv, Whole, ShelfFine

\* A product made by hand has no row and no stock.
LEMMA CreateProductPasses ==
    ASSUME CatalogueInv, NEW n \in Names, NEW u \in Units, CreateProduct(n, u)
    PROVE  CatalogueInv'
<1>1. UNCHANGED <<lists, priced, used, shown, manager, everPriced, told, overlap, excused, units>>
  BY DEF CreateProduct, Pricing, NoRequest, Histories
<1>2. PICK x, ps2, st2 : /\ x = NewProduct(n, u) /\ ps2 = Append(product, x) /\ ps2 = product' /\ st2 = stock'
                         /\ st2 = [i \in DOMAIN ps2 |-> IF i \in DOMAIN product THEN stock[i] ELSE 0]
  BY DEF CreateProduct, Ids
<1>3. x.row = Empty /\ x.status = "ACTIVE" /\ ProductFine(x)
  BY <1>2 DEF NewProduct, ProductFine
<1>4. product \in Seq(Range(product)) /\ \A i \in DOMAIN product : ProductFine(product[i])
  BY DEF CatalogueInv, Whole, ShelfFine
<1>5. PICK S : S = Range(product) \cup {x}
  OBVIOUS
<1>6. product \in Seq(S) /\ x \in S
  BY <1>4, <1>5, WiderSeq
<1>7. PICK k, ps : k = Len(product) + 1 /\ ps = product
  OBVIOUS
<1>8. /\ ps2 \in Seq(S) /\ DOMAIN ps2 = DOMAIN ps \cup {k} /\ k \notin DOMAIN ps
      /\ (\A i \in DOMAIN ps : ps2[i] = ps[i]) /\ ps2[k] = x
  <2>1. ps \in Seq(S) /\ ps2 = Append(ps, x) /\ k = Len(ps) + 1
    BY <1>2, <1>6, <1>7
  <2> QED BY <1>6, <2>1, AddAtEnd
<1>9. ps2 \in Seq(Range(ps2))
  BY <1>8, SeqOfRange
<1>10. Reshelved(product, ps2, stock, st2, {})
  BY <1>2, <1>3, <1>4, <1>7, <1>8, <1>9 DEF Reshelved
<1>11. Whole(units, ps2, lists, priced, st2, used, shown, manager, everPriced, told, overlap, excused)
  BY <1>10, WholeReshelved DEF CatalogueInv
<1> QED BY <1>1, <1>2, <1>11 DEF CatalogueInv

\* A step that replaces one product and nothing else.
LEMMA OnePass ==
    ASSUME CatalogueInv, NEW i \in Ids, Kept(i), NEW x, ProductFine(x), x.row \in {product[i].row, Empty},
           x.row # Empty => x.name = product[i].name, x.status # "GONE", product' = [product EXCEPT ![i] = x],
           UNCHANGED <<units, lists, priced, stock, used, shown, manager, everPriced, told, overlap, excused>>
    PROVE  CatalogueInv'
<1>1. i \in DOMAIN product /\ product[i].status # "GONE"
  BY DEF Ids, Kept
<1>2. Whole(units, [product EXCEPT ![i] = x], lists, priced, stock, used, shown, manager, everPriced, told, overlap, excused)
  BY <1>1, WholeOne DEF CatalogueInv
<1> QED BY <1>2 DEF CatalogueInv

\* Renaming forgets the row.
LEMMA UpdateProductPasses ==
    ASSUME CatalogueInv, NEW i \in Ids, NEW n \in Names, UpdateProduct(i, n)
    PROVE  CatalogueInv'
<1>1. PICK p, x : p = product[i] /\ x = [name |-> n, row |-> Empty, unit |-> p.unit, status |-> p.status, variant |-> p.variant,
                                         sku |-> p.sku, barcode |-> p.barcode]
  OBVIOUS
<1>2. ProductFine(p)
  BY <1>1 DEF CatalogueInv, Whole, ShelfFine, Ids
<1>3. product' = [product EXCEPT ![i] = x]
  <2>1. [[p EXCEPT !.name = n] EXCEPT !.row = Empty] = x
    <3>1. PICK y : y = [p EXCEPT !.name = n]
      OBVIOUS
    <3>2. y = [name |-> n, row |-> p.row, unit |-> p.unit, status |-> p.status, variant |-> p.variant, sku |-> p.sku,
               barcode |-> p.barcode]
      BY <1>2, <3>1 DEF ProductFine
    <3>3. [y EXCEPT !.row = Empty] = x
      BY <1>1, <3>2
    <3> QED BY <3>1, <3>3
  <2>2. product' = [product EXCEPT ![i] = [[product[i] EXCEPT !.name = n] EXCEPT !.row = Empty]]
    BY DEF UpdateProduct
  <2> QED BY <1>1, <2>1, <2>2
<1>4. ProductFine(x) /\ x.row = Empty /\ x.status = p.status
  BY <1>1, <1>2 DEF ProductFine
<1>5. Kept(i) /\ UNCHANGED <<units, lists, priced, stock, used, shown, manager, everPriced, told, overlap, excused>>
  BY DEF UpdateProduct, Pricing, Trade, NoRequest, Histories
<1>6. x.status # "GONE"
  BY <1>1, <1>4, <1>5 DEF Kept
<1> QED BY <1>3, <1>4, <1>5, <1>6, OnePass

\* A variant does no harm.
LEMMA CreateVariantPasses ==
    ASSUME CatalogueInv, NEW i \in Ids, CreateVariant(i)
    PROVE  CatalogueInv'
<1>0. PICK sku, yes : sku = <<SkuOf[product[i].name], 1>> /\ yes = TRUE
  OBVIOUS
<1>1. PICK p, x : p = product[i]
                  /\ x = [name |-> p.name, row |-> p.row, unit |-> p.unit, status |-> p.status, variant |-> yes,
                          sku |-> sku, barcode |-> p.barcode]
  OBVIOUS
<1>2. ProductFine(p)
  BY <1>1 DEF CatalogueInv, Whole, ShelfFine, Ids
<1>3. product' = [product EXCEPT ![i] = x]
  <2>1. [[p EXCEPT !.variant = yes] EXCEPT !.sku = sku] = x
    <3>1. PICK y : y = [p EXCEPT !.variant = yes]
      OBVIOUS
    <3>2. y = [name |-> p.name, row |-> p.row, unit |-> p.unit, status |-> p.status, variant |-> yes, sku |-> p.sku,
               barcode |-> p.barcode]
      BY <1>2, <3>1 DEF ProductFine
    <3>3. [y EXCEPT !.sku = sku] = x
      BY <1>1, <3>2
    <3> QED BY <3>1, <3>3
  <2>2. product' = [product EXCEPT ![i] = [[product[i] EXCEPT !.variant = yes] EXCEPT !.sku = sku]]
    BY <1>0 DEF CreateVariant
  <2> QED BY <1>1, <2>1, <2>2
<1>4. ProductFine(x) /\ x.row = p.row /\ x.status = p.status /\ x.name = p.name
  BY <1>0, <1>1, <1>2 DEF ProductFine
<1>5. Kept(i) /\ UNCHANGED <<units, lists, priced, stock, used, shown, manager, everPriced, told, overlap, excused>>
  BY DEF CreateVariant, Pricing, Trade, NoRequest, Histories
<1>6. x.status # "GONE"
  BY <1>1, <1>4, <1>5 DEF Kept
<1> QED BY <1>1, <1>3, <1>4, <1>5, <1>6, OnePass

\* A barcode goes to a product with a variant.
LEMMA AddBarcodePasses ==
    ASSUME CatalogueInv, NEW i \in Ids, NEW c \in Barcodes, AddBarcode(i, c)
    PROVE  CatalogueInv'
<1>1. PICK p, x : p = product[i]
                  /\ x = [name |-> p.name, row |-> p.row, unit |-> p.unit, status |-> p.status, variant |-> p.variant,
                          sku |-> p.sku, barcode |-> c]
  OBVIOUS
<1>2. ProductFine(p)
  BY <1>1 DEF CatalogueInv, Whole, ShelfFine, Ids
<1>3. product' = [product EXCEPT ![i] = x] /\ p.variant
  <2>1. [p EXCEPT !.barcode = c] = x
    BY <1>1, <1>2 DEF ProductFine
  <2>2. product' = [product EXCEPT ![i] = [product[i] EXCEPT !.barcode = c]] /\ p.variant
    BY <1>1 DEF AddBarcode
  <2> QED BY <1>1, <2>1, <2>2
<1>4. ProductFine(x) /\ x.row = p.row /\ x.status = p.status /\ x.name = p.name
  BY <1>1, <1>2, <1>3 DEF ProductFine
<1>5. Kept(i) /\ UNCHANGED <<units, lists, priced, stock, used, shown, manager, everPriced, told, overlap, excused>>
  BY DEF AddBarcode, Pricing, Trade, NoRequest, Histories
<1>6. x.status # "GONE"
  BY <1>1, <1>4, <1>5 DEF Kept
<1> QED BY <1>1, <1>3, <1>4, <1>5, <1>6, OnePass

\* A status set in bulk brings no product back.
LEMMA BulkSetPasses ==
    ASSUME CatalogueInv, NEW chosen \in SUBSET Ids, NEW s \in {"ACTIVE", "INACTIVE"}, BulkSetProductStatus(chosen, s)
    PROVE  CatalogueInv'
<1>1. UNCHANGED <<units, lists, priced, stock, used, shown, manager, everPriced, told, overlap, excused>>
  BY DEF BulkSetProductStatus, Pricing, Trade, NoRequest, Histories
<1>2. product \in Seq(Range(product)) /\ \A i \in DOMAIN product : ProductFine(product[i])
  BY DEF CatalogueInv, Whole, ShelfFine
<1>3. PICK ps2 : ps2 = product'
                 /\ ps2 = [i \in DOMAIN product |-> IF i \in chosen THEN [product[i] EXCEPT !.status = s] ELSE product[i]]
  BY DEF BulkSetProductStatus, Ids
<1>4. ps2 = [i \in DOMAIN product |-> ps2[i]]
  BY <1>3
<1>5. ps2 \in Seq(Range(ps2))
  BY <1>2, <1>4, SameLength
<1>6. ASSUME NEW i \in DOMAIN product
      PROVE  /\ ProductFine(ps2[i]) /\ ps2[i].row = product[i].row /\ ps2[i].name = product[i].name
             /\ ps2[i].status = "GONE" <=> product[i].status = "GONE"
  <2>1. CASE i \in chosen
    <3>1. ps2[i] = [product[i] EXCEPT !.status = s] /\ product[i].status # "GONE"
      BY <1>3, <2>1 DEF BulkSetProductStatus, Kept
    <3>2. ProductFine(product[i])
      BY <1>2
    <3>3. PICK p, x : p = product[i] /\ x = ps2[i]
      OBVIOUS
    <3>4. x = [name |-> p.name, row |-> p.row, unit |-> p.unit, status |-> s, variant |-> p.variant, sku |-> p.sku,
               barcode |-> p.barcode]
      BY <3>1, <3>2, <3>3 DEF ProductFine
    <3> QED BY <3>1, <3>2, <3>3, <3>4 DEF ProductFine
  <2>2. CASE i \notin chosen
    <3>1. ps2[i] = product[i]
      BY <1>3, <2>2
    <3> QED BY <1>2, <3>1
  <2> QED BY <2>1, <2>2
<1>7. DOMAIN stock = DOMAIN product /\ DOMAIN ps2 = DOMAIN product
  BY <1>4 DEF CatalogueInv, Whole, Stocked
<1>8. Reshelved(product, ps2, stock, stock, {})
  BY <1>5, <1>6, <1>7 DEF Reshelved
<1>9. Whole(units, ps2, lists, priced, stock, used, shown, manager, everPriced, told, overlap, excused)
  BY <1>8, WholeReshelved DEF CatalogueInv
<1> QED BY <1>1, <1>3, <1>9 DEF CatalogueInv

\* A list made by hand is not one made on demand.
LEMMA CreatePriceListPasses ==
    ASSUME CatalogueInv, NEW default \in BOOLEAN, CreatePriceList(default)
    PROVE  CatalogueInv'
<1>1. PICK r : r = [default |-> default, onDemand |-> FALSE]
  OBVIOUS
<1>2. r \in [default : BOOLEAN, onDemand : BOOLEAN] /\ ~r.onDemand
  BY <1>1
<1>3. Whole(units, product, Append(lists, r), priced, stock, used, shown, manager, everPriced, told, overlap, excused)
  BY <1>2, WholeListed DEF CatalogueInv
<1>4. /\ lists' = Append(lists, r)
      /\ UNCHANGED <<units, product, priced, stock, used, shown, manager, everPriced, told, overlap, excused>>
  BY <1>1 DEF CreatePriceList, Trade, NoRequest, Histories
<1> QED BY <1>3, <1>4 DEF CatalogueInv

\* A price is set for a product there is.
LEMMA SetPricePasses ==
    ASSUME CatalogueInv, NEW l \in DOMAIN lists, NEW i \in Ids, SetPrice(l, i, 1)
    PROVE  CatalogueInv'
<1>1. PICK pr2 : pr2 = priced' /\ DOMAIN pr2 = DOMAIN priced \cup {<<l, i>>}
  BY DEF SetPrice, Upsert
<1>2. i \in DOMAIN product /\ product[i].status # "GONE"
  BY DEF SetPrice, Kept, Ids
<1>3. Whole(units, product, lists, pr2, stock, used, shown, manager, everPriced \cup {i}, told, overlap, excused)
  BY <1>1, <1>2, WholePriced DEF CatalogueInv
<1>4. /\ everPriced' = everPriced \cup {i}
      /\ UNCHANGED <<units, product, lists, stock, used, shown, manager, told, overlap, excused>>
  BY DEF SetPrice, Trade, NoRequest
<1> QED BY <1>1, <1>3, <1>4 DEF CatalogueInv

\* Lines, movements and the shop refer to products there are.
LEMMA UsePasses ==
    ASSUME CatalogueInv, NEW i \in Ids, Use(i) \/ Publish(i)
    PROVE  CatalogueInv'
<1>1. i \in DOMAIN product /\ product[i].status # "GONE"
  BY DEF Use, Publish, Kept, Ids
<1>2. /\ UNCHANGED <<units, product, lists, priced, stock, manager, everPriced, told, overlap, excused>>
      /\ used' \cup shown' = used \cup shown \cup {i}
  BY DEF Use, Publish, Pricing, NoRequest, Histories
<1>3. used \cup shown \subseteq DOMAIN product
  BY DEF CatalogueInv, Whole, Referred
<1>4. Whole(units, product, lists, priced, stock, used', shown', manager, everPriced, told, overlap, excused)
  BY <1>1, <1>2, <1>3, WholeUsed DEF CatalogueInv
<1> QED BY <1>2, <1>4 DEF CatalogueInv

\* A request that does nothing is fine.
LEMMA FreeFine ==
    ASSUME NEW ps, NEW ls
    PROVE  CallFine(Free, ps, ls) /\ Free.made = {} /\ Free.at = "idle"
<1>1. PICK c : c = Free
  OBVIOUS
<1>2. /\ c.todo = <<>> /\ c.made = {} /\ c.units = {} /\ c.at = "idle"
      /\ c = [op |-> c.op, at |-> c.at, sheet |-> c.sheet, ids |-> c.ids, names |-> c.names, units |-> c.units, made |-> c.made,
              todo |-> c.todo, list |-> c.list, noted |-> c.noted, variant |-> c.variant, dirty |-> c.dirty]
  BY <1>1 DEF Free
<1>3. HooksFine(c, ps)
  BY <1>2 DEF HooksFine
<1>4. PlaceFine(c, ps, ls)
  BY <1>1 DEF PlaceFine
<1> QED BY <1>1, <1>2, <1>3, <1>4 DEF CallFine

\* A request that is done or stops.
LEMMA AbandonPasses ==
    ASSUME NEW us, NEW ps, NEW ls, NEW pr, NEW st, NEW usd, NEW shn, NEW mgr, NEW ev, NEW td, NEW ov, NEW ex,
           Whole(us, ps, ls, pr, st, usd, shn, mgr, ev, td, ov, ex),
           NEW m \in Managers, NEW ex2, ex \subseteq ex2,
           mgr[m].at = "remove" => Head(mgr[m].ids) \in ex2 \/ ps[Head(mgr[m].ids)].status = "GONE"
    PROVE  Whole(us, ps, ls, pr, st, usd, shn, Other(mgr, m, Free), ev, td, ov, ex2)
<1>1. PICK c : c = Free
  OBVIOUS
<1>2. CallFine(c, ps, ls) /\ c.made = {} /\ c.at \notin {"rows", "newlist"}
  BY <1>1, FreeFine
<1>3. Whole(us, ps, ls, pr, st, usd, shn, Other(mgr, m, c), ev, td, ov, ex2)
  BY <1>2, WholeOther
<1> QED BY <1>1, <1>3

\* A call that goes on elsewhere with what it has read and made.
GoesTo(c, at, ids, list, variant, dirty) ==
    [op |-> c.op, at |-> at, sheet |-> c.sheet, ids |-> ids, names |-> c.names, units |-> c.units, made |-> c.made,
     todo |-> c.todo, list |-> list, noted |-> c.noted, variant |-> variant, dirty |-> dirty]

\* A call that goes on keeps its hooks.
LEMMA GoesOn ==
    ASSUME NEW ps, NEW ls, NEW c, CallFine(c, ps, ls), NEW at, NEW ids, NEW list, NEW variant, NEW dirty,
           NEW c2, c2 = GoesTo(c, at, ids, list, variant, dirty), PlaceFine(c2, ps, ls)
    PROVE  CallFine(c2, ps, ls) /\ c2.made = c.made /\ c2.todo = c.todo /\ c2.noted = c.noted /\ c2.at = at /\ c2.ids = ids
<1>1. /\ c2.made = c.made /\ c2.todo = c.todo /\ c2.noted = c.noted /\ c2.at = at /\ c2.ids = ids /\ c2.units = c.units
      /\ c2 = [op |-> c2.op, at |-> c2.at, sheet |-> c2.sheet, ids |-> c2.ids, names |-> c2.names, units |-> c2.units,
               made |-> c2.made, todo |-> c2.todo, list |-> c2.list, noted |-> c2.noted, variant |-> c2.variant,
               dirty |-> c2.dirty]
  BY DEF GoesTo
<1>2. HooksFine(c2, ps)
  BY <1>1 DEF CallFine, HooksFine
<1> QED BY <1>1, <1>2 DEF CallFine

\* A call that is deleting is at one of five places.
LEMMA WhoDeletes ==
    ASSUME CatalogueInv, NEW m \in Managers, manager[m].at \in {"check", "deactivate", "list", "prices", "remove"}
    PROVE  /\ CallFine(manager[m], product, lists) /\ manager[m].op = "delete"
           /\ manager[m].ids \in Seq(DOMAIN product) /\ manager[m].ids # <<>> /\ Head(manager[m].ids) \in DOMAIN product
           /\ manager[m].todo = <<>> /\ manager[m].made = {}
           /\ manager[m].at \in {"list", "prices", "remove"} => ~manager[m].dirty
<1>1. PICK c : c = manager[m]
  OBVIOUS
<1>2. CallFine(c, product, lists)
  BY <1>1 DEF CatalogueInv, Whole, CallsFine
<1>3. c # Free
  BY <1>1 DEF Free
<1>4. /\ c.op = "delete" /\ c.ids \in Seq(DOMAIN product) /\ c.ids # <<>> /\ c.todo = <<>> /\ c.made = {}
      /\ c.at \in {"list", "prices", "remove"} => ~c.dirty
  BY <1>1, <1>2, <1>3 DEF CallFine, PlaceFine
<1>5. PICK ids, D : ids = c.ids /\ D = DOMAIN product
  OBVIOUS
<1>6. Head(ids) \in D
  BY <1>4, <1>5, HeadTailProperties
<1> QED BY <1>1, <1>2, <1>4, <1>5, <1>6

\* A deletion begins.
LEMMA DeleteProductsPasses ==
    ASSUME CatalogueInv, NEW m \in Managers, NEW ids \in Seq(DOMAIN product), ids # <<>>, DeleteProducts(m, ids)
    PROVE  CatalogueInv'
<1>1. PICK f, c : f = Free /\ c = GoesTo(f, "check", ids, 0, FALSE, FALSE)
  OBVIOUS
<1>2. PICK g : g = [[[f EXCEPT !.op = "delete"] EXCEPT !.at = "check"] EXCEPT !.ids = ids]
  OBVIOUS
<1>3. manager' = Other(manager, m, g)
  BY <1>1, <1>2 DEF DeleteProducts, Other
<1>4. g = [op |-> "delete", at |-> "check", sheet |-> <<>>, ids |-> ids, names |-> {}, units |-> {}, made |-> {},
           todo |-> <<>>, list |-> 0, noted |-> {}, variant |-> FALSE, dirty |-> FALSE]
  BY <1>1, <1>2 DEF Free
<1>5. CallFine(g, product, lists)
  BY <1>4 DEF CallFine, PlaceFine, HooksFine
<1>6. g.made = {} /\ g.at = "check" /\ manager[m].at = "idle"
  BY <1>4 DEF DeleteProducts, Free
<1>7. Whole(units, product, lists, priced, stock, used, shown, Other(manager, m, g), everPriced, told, overlap, excused)
  BY <1>5, <1>6, WholeOther DEF CatalogueInv
<1>8. UNCHANGED <<units, product, lists, priced, stock, used, shown, everPriced, told, overlap, excused>>
  BY DEF DeleteProducts, Pricing, Trade, Histories
<1> QED BY <1>3, <1>7, <1>8 DEF CatalogueInv

\* A product without history goes on to be deleted, one with history to be deactivated.
LEMMA CheckHistoryPasses ==
    ASSUME CatalogueInv, NEW m \in Managers, CheckHistory(m)
    PROVE  CatalogueInv'
<1>1. PICK c, at, d : /\ c = manager[m] /\ d = (Target(m) \in used)
                      /\ at = IF HasTransactionHistory(Target(m)) THEN "deactivate" ELSE "list"
  OBVIOUS
<1>2. PICK c2 : c2 = GoesTo(c, at, c.ids, c.list, c.variant, d)
  OBVIOUS
<1>3. c.at = "check"
  BY <1>1 DEF CheckHistory
<1>4. /\ CallFine(c, product, lists) /\ c.op = "delete" /\ c.ids \in Seq(DOMAIN product) /\ c.ids # <<>> /\ c.todo = <<>>
      /\ c.made = {}
  BY <1>1, <1>3, WhoDeletes
<1>5. at = "deactivate" \/ (at = "list" /\ ~d)
  BY <1>1 DEF HasTransactionHistory
<1>6. PlaceFine(c2, product, lists)
  BY <1>2, <1>4, <1>5 DEF PlaceFine, GoesTo
<1>7. CallFine(c2, product, lists) /\ c2.made = c.made /\ c2.at = at
  BY <1>2, <1>4, <1>6, GoesOn
<1>8. manager' = Other(manager, m, c2)
  <2>1. manager' = [manager EXCEPT ![m] = [[manager[m] EXCEPT !.at = at] EXCEPT !.dirty = d]]
    BY <1>1 DEF CheckHistory
  <2>2. PICK y : y = [c EXCEPT !.at = at]
    OBVIOUS
  <2>3. y = GoesTo(c, at, c.ids, c.list, c.variant, c.dirty)
    BY <1>4, <2>2 DEF CallFine, GoesTo
  <2>4. [y EXCEPT !.dirty = d] = c2
    BY <1>2, <2>3 DEF GoesTo
  <2> QED BY <1>1, <2>1, <2>2, <2>4 DEF Other
<1>9. Whole(units, product, lists, priced, stock, used, shown, Other(manager, m, c2), everPriced, told, overlap, excused)
  BY <1>1, <1>3, <1>4, <1>5, <1>7, WholeOther DEF CatalogueInv
<1>10. UNCHANGED <<units, product, lists, priced, stock, used, shown, everPriced, told, overlap, excused>>
  BY DEF CheckHistory, Pricing, Trade, Histories
<1> QED BY <1>8, <1>9, <1>10 DEF CatalogueInv

\* The variants are read.
LEMMA ListVariantsPasses ==
    ASSUME CatalogueInv, NEW m \in Managers, ListVariants(m)
    PROVE  CatalogueInv'
<1>1. PICK c, v : c = manager[m] /\ v = product[Target(m)].variant
  OBVIOUS
<1>2. PICK c2 : c2 = GoesTo(c, "prices", c.ids, c.list, v, c.dirty)
  OBVIOUS
<1>3. c.at = "list"
  BY <1>1 DEF ListVariants
<1>4. /\ CallFine(c, product, lists) /\ c.op = "delete" /\ c.ids \in Seq(DOMAIN product) /\ c.ids # <<>> /\ c.todo = <<>>
      /\ c.made = {} /\ ~c.dirty
  BY <1>1, <1>3, WhoDeletes
<1>6. PlaceFine(c2, product, lists)
  BY <1>2, <1>4 DEF PlaceFine, GoesTo
<1>7. CallFine(c2, product, lists) /\ c2.made = c.made /\ c2.at = "prices"
  BY <1>2, <1>4, <1>6, GoesOn
<1>8. manager' = Other(manager, m, c2)
  <2>1. manager' = [manager EXCEPT ![m] = [[manager[m] EXCEPT !.at = "prices"] EXCEPT !.variant = v]]
    BY <1>1 DEF ListVariants
  <2>2. PICK y : y = [c EXCEPT !.at = "prices"]
    OBVIOUS
  <2>3. y = GoesTo(c, "prices", c.ids, c.list, c.variant, c.dirty)
    BY <1>4, <2>2 DEF CallFine, GoesTo
  <2>4. [y EXCEPT !.variant = v] = c2
    BY <1>2, <2>3 DEF GoesTo
  <2> QED BY <1>1, <2>1, <2>2, <2>4 DEF Other
<1>9. Whole(units, product, lists, priced, stock, used, shown, Other(manager, m, c2), everPriced, told, overlap, excused)
  BY <1>1, <1>3, <1>4, <1>7, WholeOther DEF CatalogueInv
<1>10. UNCHANGED <<units, product, lists, priced, stock, used, shown, everPriced, told, overlap, excused>>
  BY DEF ListVariants, Pricing, Trade, Histories
<1> QED BY <1>8, <1>9, <1>10 DEF CatalogueInv

\* The next product of a deletion, or its end.
NextTarget(c) == IF Len(c.ids) = 1 THEN Free ELSE GoesTo(c, "check", Tail(c.ids), c.list, FALSE, c.dirty)

\* Onward takes a deletion there.
LEMMA OnwardIs ==
    ASSUME NEW m \in Managers, NEW ps, NEW ls, CallFine(manager[m], ps, ls), Onward(m)
    PROVE  manager' = Other(manager, m, NextTarget(manager[m]))
<1>1. PICK c, t : c = manager[m] /\ t = Tail(c.ids)
  OBVIOUS
<1>2. CASE Len(c.ids) = 1
  <2>1. manager' = [manager EXCEPT ![m] = Free]
    BY <1>1, <1>2 DEF Onward
  <2> QED BY <1>1, <1>2, <2>1 DEF Other, NextTarget
<1>3. CASE Len(c.ids) # 1
  <2>1. PICK x, no : no = FALSE /\ x = [c EXCEPT !.at = "check", !.ids = Tail(@), !.variant = no]
    OBVIOUS
  <2>2. manager' = [manager EXCEPT ![m] = x]
    <3>1. manager' = [manager EXCEPT ![m] = IF Len(c.ids) = 1 THEN Free ELSE x]
      BY <1>1, <2>1 DEF Onward
    <3> QED BY <1>3, <3>1
  <2>3. PICK y, z : y = [c EXCEPT !.at = "check"] /\ z = [y EXCEPT !.ids = t]
    OBVIOUS
  <2>4. y = GoesTo(c, "check", c.ids, c.list, c.variant, c.dirty)
    BY <1>1, <2>3 DEF CallFine, GoesTo
  <2>5. z = GoesTo(c, "check", t, c.list, c.variant, c.dirty)
    BY <2>3, <2>4 DEF GoesTo
  <2>6. [z EXCEPT !.variant = no] = GoesTo(c, "check", t, c.list, no, c.dirty)
    BY <2>5 DEF GoesTo
  <2>7. x = [z EXCEPT !.variant = no]
    BY <1>1, <2>1, <2>3
  <2>8. NextTarget(c) = GoesTo(c, "check", t, c.list, no, c.dirty)
    BY <1>1, <1>3, <2>1 DEF NextTarget
  <2> QED BY <1>1, <2>2, <2>6, <2>7, <2>8 DEF Other
<1> QED BY <1>2, <1>3

\* The invariant when a deletion has done with a product.
LEMMA WholeOnward ==
    ASSUME NEW us, NEW ps, NEW ls, NEW pr, NEW st, NEW usd, NEW shn, NEW mgr, NEW ev, NEW td, NEW ov, NEW ex,
           Whole(us, ps, ls, pr, st, usd, shn, mgr, ev, td, ov, ex),
           NEW m \in Managers, mgr[m].at \in {"deactivate", "remove"},
           mgr[m].at = "remove" => Head(mgr[m].ids) \in ex \/ ps[Head(mgr[m].ids)].status = "GONE"
    PROVE  Whole(us, ps, ls, pr, st, usd, shn, Other(mgr, m, NextTarget(mgr[m])), ev, td, ov, ex)
<1>1. PICK c, t, c2 : c = mgr[m] /\ t = Tail(c.ids) /\ c2 = NextTarget(c)
  OBVIOUS
<1>2. CallFine(c, ps, ls)
  BY <1>1 DEF Whole, CallsFine
<1>3. c # Free
  BY <1>1 DEF Free
<1>4. c.op = "delete" /\ c.ids \in Seq(DOMAIN ps) /\ c.ids # <<>> /\ c.todo = <<>> /\ c.made = {}
  BY <1>1, <1>2, <1>3 DEF CallFine, PlaceFine
<1>5. CASE Len(c.ids) = 1
  <2>1. c2 = Free
    BY <1>1, <1>5 DEF NextTarget
  <2> QED BY <1>1, <2>1, AbandonPasses
<1>6. CASE Len(c.ids) # 1
  <2>1. t \in Seq(DOMAIN ps) /\ t # <<>>
    <3>1. PICK ids, D : ids = c.ids /\ D = DOMAIN ps
      OBVIOUS
    <3>2. ids \in Seq(D) /\ ids # <<>> /\ Len(ids) # 1
      BY <1>4, <1>6, <3>1
    <3>3. Tail(ids) \in Seq(D) /\ Len(Tail(ids)) = Len(ids) - 1 /\ Len(ids) \in Nat
      BY <3>2, HeadTailProperties, LenProperties
    <3>4. Len(Tail(ids)) # 0
      BY <3>2, <3>3
    <3>5. Tail(ids) # <<>>
      BY <3>4, EmptySeq
    <3> QED BY <1>1, <3>1, <3>3, <3>5
  <2>2. c2 = GoesTo(c, "check", t, c.list, FALSE, c.dirty)
    BY <1>1, <1>6 DEF NextTarget
  <2>3. PlaceFine(c2, ps, ls)
    BY <1>4, <2>1, <2>2 DEF PlaceFine, GoesTo
  <2>4. CallFine(c2, ps, ls) /\ c2.made = c.made /\ c2.at = "check"
    <3>1. PICK no : no = FALSE
      OBVIOUS
    <3>2. c2 = GoesTo(c, "check", t, c.list, no, c.dirty)
      BY <2>2, <3>1
    <3> QED BY <1>2, <2>3, <3>2, GoesOn
  <2> QED BY <1>1, <1>4, <2>4, WholeOther
<1> QED BY <1>5, <1>6

\* A product is deactivated, or was deleted meanwhile.
LEMMA DeactivatePasses ==
    ASSUME CatalogueInv, NEW m \in Managers, Deactivate(m)
    PROVE  CatalogueInv'
<1>1. PICK c, i : c = manager[m] /\ i = Head(c.ids)
  OBVIOUS
<1>2. c.at = "deactivate" /\ i = Target(m)
  BY <1>1 DEF Deactivate, Target
<1>3. CallFine(c, product, lists) /\ i \in DOMAIN product
  BY <1>1, <1>2, WhoDeletes
<1>4. UNCHANGED <<units, lists, priced, stock, used, shown, everPriced, told, overlap, excused>>
  BY DEF Deactivate, Pricing, Trade, Histories
<1>5. CASE Kept(i)
  <2>1. PICK p, x : p = product[i]
                    /\ x = [name |-> p.name, row |-> p.row, unit |-> p.unit, status |-> "INACTIVE", variant |-> p.variant,
                            sku |-> p.sku, barcode |-> p.barcode]
    OBVIOUS
  <2>2. ProductFine(p) /\ p.status # "GONE"
    BY <1>3, <1>5, <2>1 DEF CatalogueInv, Whole, ShelfFine, Kept
  <2>3. product' = [product EXCEPT ![i] = x]
    <3>1. [p EXCEPT !.status = "INACTIVE"] = x
      BY <2>1, <2>2 DEF ProductFine
    <3>2. product' = [product EXCEPT ![i] = [product[i] EXCEPT !.status = "INACTIVE"]]
      BY <1>2, <1>5 DEF Deactivate
    <3> QED BY <2>1, <3>1, <3>2
  <2>4. ProductFine(x) /\ x.row = p.row /\ x.status = "INACTIVE" /\ x.name = p.name
    BY <2>1, <2>2 DEF ProductFine
  <2>5. PICK ps2 : ps2 = [product EXCEPT ![i] = x]
    OBVIOUS
  <2>6. Whole(units, ps2, lists, priced, stock, used, shown, manager, everPriced, told, overlap, excused)
    BY <1>3, <2>1, <2>2, <2>4, <2>5, WholeOne DEF CatalogueInv
  <2>7. Whole(units, ps2, lists, priced, stock, used, shown, Other(manager, m, NextTarget(manager[m])), everPriced, told, overlap, excused)
    BY <1>1, <1>2, <2>6, WholeOnward
  <2>8. manager' = Other(manager, m, NextTarget(manager[m]))
    BY <1>1, <1>2, <1>3, <1>5, OnwardIs DEF Deactivate
  <2> QED BY <1>4, <2>3, <2>5, <2>7, <2>8 DEF CatalogueInv
<1>6. CASE ~Kept(i)
  <2>1. manager' = Other(manager, m, Free) /\ UNCHANGED product
    BY <1>2, <1>6 DEF Deactivate, Abandon, Other
  <2>2. Whole(units, product, lists, priced, stock, used, shown, Other(manager, m, Free), everPriced, told, overlap, excused)
    BY <1>1, <1>2, AbandonPasses DEF CatalogueInv
  <2> QED BY <1>4, <2>1, <2>2 DEF CatalogueInv
<1> QED BY <1>5, <1>6

\* The prices go first: whoever removed them is about to remove the product.
LEMMA DeletePricesPasses ==
    ASSUME CatalogueInv, NEW m \in Managers, DeletePrices(m)
    PROVE  CatalogueInv'
<1>1. PICK c, i, pr2, c2 : c = manager[m] /\ i = Head(c.ids) /\ pr2 = priced'
                           /\ c2 = GoesTo(c, "remove", c.ids, c.list, c.variant, c.dirty)
  OBVIOUS
<1>2. c.at = "prices" /\ i = Target(m)
  BY <1>1 DEF DeletePrices, Target
<1>3. /\ CallFine(c, product, lists) /\ i \in DOMAIN product /\ c.op = "delete" /\ c.ids \in Seq(DOMAIN product) /\ c.ids # <<>>
      /\ c.todo = <<>> /\ c.made = {} /\ ~c.dirty
  BY <1>1, <1>2, WhoDeletes
<1>4. UNCHANGED <<units, product, lists, stock, used, shown, everPriced, told, overlap, excused>>
  BY DEF DeletePrices, Trade, Histories
<1>5. PlaceFine(c2, product, lists)
  BY <1>1, <1>3 DEF PlaceFine, GoesTo
<1>6. CallFine(c2, product, lists) /\ c2.made = c.made /\ c2.at = "remove" /\ c2.ids = c.ids
  BY <1>1, <1>3, <1>5, GoesOn
<1>7. manager' = Other(manager, m, c2)
  <2>1. manager' = [manager EXCEPT ![m] = [manager[m] EXCEPT !.at = "remove"]]
    BY DEF DeletePrices
  <2>2. [c EXCEPT !.at = "remove"] = c2
    <3>1. PICK y : y = [c EXCEPT !.at = "remove"]
      OBVIOUS
    <3>2. y = GoesTo(c, "remove", c.ids, c.list, c.variant, c.dirty)
      BY <1>3, <3>1 DEF CallFine, GoesTo
    <3> QED BY <1>1, <3>1, <3>2
  <2> QED BY <1>1, <2>1, <2>2 DEF Other
<1>8. \A k \in DOMAIN priced : k \in DOMAIN pr2 \/ k[2] = i
  BY <1>1, <1>2 DEF DeletePrices
<1>9. \A k \in DOMAIN pr2 : k \in DOMAIN priced
  BY <1>1 DEF DeletePrices
<1>10. Whole(units, product, lists, priced, stock, used, shown, Other(manager, m, c2), everPriced, told, overlap, excused)
  BY <1>1, <1>2, <1>3, <1>6, WholeOther DEF CatalogueInv
<1>11. (\A j \in PricedIn(pr2) : j \in PricedIn(priced)) /\ \A j \in PricedIn(priced) : j \in PricedIn(pr2) \/ j = i
  BY <1>8, <1>9 DEF PricedIn
<1>12. Referred(product, lists, pr2, used, shown, everPriced, told)
  BY <1>9, <1>10, <1>11 DEF Whole, Referred
<1>13. PricesKept(product, pr2, everPriced, excused, Other(manager, m, c2))
  <2>1. PICK mgr2 : mgr2 = Other(manager, m, c2)
    OBVIOUS
  <2>2. mgr2[m] = c2
    BY <2>1, OtherIs DEF CatalogueInv, Whole, CallsFine
  <2>3. PricesKept(product, priced, everPriced, excused, mgr2)
    BY <1>10, <2>1 DEF Whole
  <2>4. PricesKept(product, pr2, everPriced, excused, mgr2)
    BY <1>1, <1>6, <1>11, <2>2, <2>3 DEF PricesKept
  <2> QED BY <2>1, <2>4
<1>14. Whole(units, product, lists, pr2, stock, used, shown, Other(manager, m, c2), everPriced, told, overlap, excused)
  BY <1>10, <1>12, <1>13 DEF Whole
<1> QED BY <1>1, <1>4, <1>7, <1>14 DEF CatalogueInv

\* A product is removed only when nothing refers to it; one that stays without its price is excused.
LEMMA RemoveProductPasses ==
    ASSUME CatalogueInv, NEW m \in Managers, RemoveProduct(m)
    PROVE  CatalogueInv'
<1>1. PICK c, i : c = manager[m] /\ i = Head(c.ids)
  OBVIOUS
<1>2. c.at = "remove" /\ i = Target(m)
  BY <1>1 DEF RemoveProduct, Target
<1>3. CallFine(c, product, lists) /\ i \in DOMAIN product /\ ~c.dirty
  BY <1>1, <1>2, WhoDeletes
<1>4. UNCHANGED <<units, lists, priced, stock, used, shown, everPriced, told, overlap>>
  BY DEF RemoveProduct, Pricing, Trade
<1>5. CASE Removable(m)
  <2>0. PICK no : no = FALSE
    OBVIOUS
  <2>1. PICK p, x : p = product[i]
                    /\ x = [name |-> p.name, row |-> p.row, unit |-> p.unit, status |-> "GONE", variant |-> no,
                            sku |-> Empty, barcode |-> Empty]
    OBVIOUS
  <2>2. ProductFine(p) /\ p.status # "GONE" /\ i \notin PricedIn(priced) \cup used \cup shown
    BY <1>2, <1>3, <1>5, <2>1 DEF CatalogueInv, Whole, ShelfFine, Kept, Removable, Priced, PricedIn
  <2>3. product' = [product EXCEPT ![i] = x]
    <3>1. PICK y : y = [p EXCEPT !.status = "GONE"]
      OBVIOUS
    <3>2. y = [name |-> p.name, row |-> p.row, unit |-> p.unit, status |-> "GONE", variant |-> p.variant,
               sku |-> p.sku, barcode |-> p.barcode]
      BY <2>2, <3>1 DEF ProductFine
    <3>3. PICK z : z = [y EXCEPT !.variant = no]
      OBVIOUS
    <3>4. z = [name |-> p.name, row |-> p.row, unit |-> p.unit, status |-> "GONE", variant |-> no,
               sku |-> p.sku, barcode |-> p.barcode]
      BY <3>2, <3>3
    <3>5. PICK w : w = [z EXCEPT !.sku = Empty]
      OBVIOUS
    <3>6. w = [name |-> p.name, row |-> p.row, unit |-> p.unit, status |-> "GONE", variant |-> no,
               sku |-> Empty, barcode |-> p.barcode]
      BY <3>4, <3>5
    <3>7. [w EXCEPT !.barcode = Empty] = x
      BY <2>1, <3>6
    <3>8. product' = [product EXCEPT ![i] = [[[[product[i] EXCEPT !.status = "GONE"] EXCEPT !.variant = no] EXCEPT !.sku = Empty] EXCEPT !.barcode = Empty]]
      BY <1>2, <1>5, <2>0 DEF RemoveProduct
    <3> QED BY <2>1, <3>1, <3>3, <3>5, <3>7, <3>8
  <2>4. ProductFine(x) /\ x.row = p.row /\ x.status = "GONE" /\ x.name = p.name
    BY <2>0, <2>1, <2>2 DEF ProductFine
  <2>5. PICK ps2 : ps2 = [product EXCEPT ![i] = x]
    OBVIOUS
  <2>6. Whole(units, ps2, lists, priced, stock, used, shown, manager, everPriced, told, overlap, excused)
    BY <1>3, <2>1, <2>2, <2>4, <2>5, WholeOne DEF CatalogueInv
  <2>7. ps2[i].status = "GONE"
    BY <1>3, <2>4, <2>5
  <2>8. Whole(units, ps2, lists, priced, stock, used, shown, Other(manager, m, NextTarget(manager[m])), everPriced, told, overlap, excused)
    BY <1>1, <1>2, <2>6, <2>7, WholeOnward
  <2>9. manager' = Other(manager, m, NextTarget(manager[m])) /\ UNCHANGED excused
    BY <1>1, <1>2, <1>3, <1>5, OnwardIs DEF RemoveProduct
  <2> QED BY <1>4, <2>3, <2>5, <2>8, <2>9 DEF CatalogueInv
<1>6. CASE ~Removable(m)
  <2>1. manager' = Other(manager, m, Free) /\ UNCHANGED product /\ excused' = excused \cup {i}
    BY <1>1, <1>2, <1>3, <1>6 DEF RemoveProduct, Abandon, Other
  <2>2. Whole(units, product, lists, priced, stock, used, shown, Other(manager, m, Free), everPriced, told, overlap, excused \cup {i})
    BY <1>1, AbandonPasses DEF CatalogueInv
  <2> QED BY <1>4, <2>1, <2>2 DEF CatalogueInv
<1> QED BY <1>5, <1>6

\* A request that stops on the brink of removing a product excuses it.
LEMMA StopRequestPasses ==
    ASSUME CatalogueInv, NEW m \in Managers, StopRequest(m)
    PROVE  CatalogueInv'
<1>1. /\ manager' = Other(manager, m, Free) /\ excused \subseteq excused'
      /\ manager[m].at = "remove" => Head(manager[m].ids) \in excused'
      /\ UNCHANGED <<units, product, lists, priced, stock, used, shown, everPriced, told, overlap>>
  BY DEF StopRequest, Abandon, Other, Target, Pricing, Trade
<1>2. Whole(units, product, lists, priced, stock, used, shown, Other(manager, m, Free), everPriced, told, overlap, excused')
  BY <1>1, AbandonPasses DEF CatalogueInv
<1> QED BY <1>1, <1>2 DEF CatalogueInv

\* An import that goes on with its hooks.
Proceeds(c, todo, noted) ==
    [op |-> c.op, at |-> "hooks", sheet |-> c.sheet, ids |-> c.ids, names |-> c.names, units |-> c.units, made |-> c.made,
     todo |-> todo, list |-> c.list, noted |-> noted, variant |-> c.variant, dirty |-> c.dirty]

\* The invariant when an import has done its next hook.
LEMMA WholeHooked ==
    ASSUME NEW us, NEW ps, NEW ls, NEW pr, NEW st, NEW usd, NEW shn, NEW mgr, NEW ev, NEW td, NEW ov, NEW ex,
           Whole(us, ps, ls, pr, st, usd, shn, mgr, ev, td, ov, ex),
           NEW m \in Managers, NEW c, c = mgr[m], c.at \in {"hooks", "setprice", "newlist"}, c.todo # <<>>,
           NEW noted, c.noted \subseteq noted, NEW c2, c2 = Proceeds(c, Tail(c.todo), noted),
           NEW h, h = Head(c.todo), NEW st2, HookDone(h, noted, ev, st, st2)
    PROVE  Whole(us, ps, ls, pr, st2, usd, shn, Other(mgr, m, c2), ev, td, ov, ex)
<1>1. /\ ShelfFine(ps, us) /\ Referred(ps, ls, pr, usd, shn, ev, td) /\ CallsFine(ps, ls, mgr)
      /\ PricesKept(ps, pr, ev, ex, mgr) /\ OneByOneSheets(ps, ls, mgr, ov) /\ Stocked(ps, st, ev, td, mgr)
  BY DEF Whole
<1>2. CallFine(c, ps, ls)
  BY <1>1 DEF CallsFine
<1>3. c # Free
  BY DEF Free
<1>4. c.op = "import" /\ c.sheet \in Sheets
  BY <1>2, <1>3 DEF CallFine, PlaceFine
<1>5. HooksFine(c, ps)
  BY <1>2 DEF CallFine
<1>6. PICK todo, rest : todo = c.todo /\ rest = Tail(todo)
  OBVIOUS
<1>7. /\ rest \in Seq(Range(rest))
      /\ \A k \in DOMAIN rest : k + 1 \in DOMAIN todo /\ rest[k] = todo[k + 1] /\ k \in Int
  <2>1. todo \in Seq(Range(todo)) /\ todo # <<>>
    BY <1>5, <1>6 DEF HooksFine
  <2>2. /\ Tail(todo) \in Seq(Range(Tail(todo)))
        /\ \A k \in DOMAIN Tail(todo) : k + 1 \in DOMAIN todo /\ k + 1 # 1 /\ Tail(todo)[k] = todo[k + 1] /\ k \in Int
    BY <2>1, FirstAndRest
  <2> QED BY <1>6, <2>2
<1>7a. /\ c.made \subseteq DOMAIN ps
       /\ \A k \in DOMAIN todo : /\ todo[k].id \in c.made /\ todo[k].row.stock \in Int
                                 /\ ps[todo[k].id].row # Empty => todo[k].row = ps[todo[k].id].row
       /\ \A k, l \in DOMAIN todo : todo[k].id = todo[l].id /\ todo[k].hook = "stock" /\ todo[l].hook = "stock" => k = l
  BY <1>5, <1>6 DEF HooksFine
<1>8. /\ c2.todo = rest /\ c2.made = c.made /\ c2.noted = noted /\ c2.at = "hooks" /\ c2.op = c.op /\ c2.units = c.units
      /\ c2.sheet = c.sheet
      /\ c2 = [op |-> c2.op, at |-> c2.at, sheet |-> c2.sheet, ids |-> c2.ids, names |-> c2.names, units |-> c2.units,
               made |-> c2.made, todo |-> c2.todo, list |-> c2.list, noted |-> c2.noted, variant |-> c2.variant,
               dirty |-> c2.dirty]
  BY <1>6 DEF Proceeds
<1>9. HooksFine(c2, ps)
  <2>1. \A k \in DOMAIN rest : /\ rest[k].id \in c.made /\ rest[k].row.stock \in Int
                               /\ ps[rest[k].id].row # Empty => rest[k].row = ps[rest[k].id].row
    BY <1>7, <1>7a
  <2>2. ASSUME NEW k \in DOMAIN rest, NEW l \in DOMAIN rest, rest[k].id = rest[l].id, rest[k].hook = "stock", rest[l].hook = "stock"
        PROVE  k = l
    <3>1. k + 1 = l + 1
      <4>1. /\ k + 1 \in DOMAIN todo /\ l + 1 \in DOMAIN todo /\ todo[k + 1].id = todo[l + 1].id
            /\ todo[k + 1].hook = "stock" /\ todo[l + 1].hook = "stock"
        BY <1>7, <2>2
      <4> QED BY <1>7a, <4>1
    <3> QED BY <1>7, <3>1
  <2>3. \A k, l \in DOMAIN rest : rest[k].id = rest[l].id /\ rest[k].hook = "stock" /\ rest[l].hook = "stock" => k = l
    BY <2>2
  <2>4. c2.made \subseteq DOMAIN ps /\ c2.todo \in Seq(Range(c2.todo))
    BY <1>7, <1>7a, <1>8
  <2>5. \A k \in DOMAIN c2.todo : /\ c2.todo[k].id \in c2.made /\ c2.todo[k].row.stock \in Int
                                  /\ ps[c2.todo[k].id].row # Empty => c2.todo[k].row = ps[c2.todo[k].id].row
    BY <1>8, <2>1
  <2>6. \A k, l \in DOMAIN c2.todo :
           c2.todo[k].id = c2.todo[l].id /\ c2.todo[k].hook = "stock" /\ c2.todo[l].hook = "stock" => k = l
    BY <1>8, <2>3
  <2> QED BY <2>4, <2>5, <2>6 DEF HooksFine
<1>10. PlaceFine(c2, ps, ls)
  BY <1>4, <1>8 DEF PlaceFine
<1>11. CallFine(c2, ps, ls)
  BY <1>2, <1>8, <1>9, <1>10 DEF CallFine
<1>12. CallsFine(ps, ls, Other(mgr, m, c2))
  BY <1>1, <1>11, OtherCalls
<1>13. PricesKept(ps, pr, ev, ex, Other(mgr, m, c2))
  BY <1>1, OtherPrices
<1>14. OneByOneSheets(ps, ls, Other(mgr, m, c2), ov)
  BY <1>1, <1>8, OtherSheets
<1>15. td \subseteq DOMAIN ps
  BY <1>1 DEF Referred
<1>16. c2.todo = Tail(c.todo)
  BY <1>6, <1>8
<1>17. Stocked(ps, st2, ev, td, Other(mgr, m, c2))
  <2>1. c.noted \subseteq c2.noted /\ c2.made = c.made
    BY <1>8
  <2>2. HookDone(h, c2.noted, ev, st, st2)
    BY <1>8
  <2>3. PICK ev2 : ev2 = ev /\ ev \subseteq ev2
    OBVIOUS
  <2>4. Stocked(ps, st2, ev2, td, Other(mgr, m, c2))
    BY <1>1, <1>15, <1>16, <2>1, <2>2, <2>3, HookDoneStocked
  <2> QED BY <2>3, <2>4
<1> QED BY <1>1, <1>12, <1>13, <1>14, <1>17 DEF Whole

\* What the next hook is, of an import at work on its hooks.
LEMMA NextHook ==
    ASSUME CatalogueInv, NEW m \in Managers, manager[m].at \in {"hooks", "setprice", "newlist"}, manager[m].todo # <<>>
    PROVE  /\ CallFine(manager[m], product, lists) /\ manager[m].op = "import"
           /\ Head(manager[m].todo).id \in DOMAIN product
           /\ manager[m].at = "setprice" => Head(manager[m].todo).hook = "price" /\ manager[m].list \in DOMAIN lists
<1>1. PICK c : c = manager[m]
  OBVIOUS
<1>2. CallFine(c, product, lists) /\ c # Free
  BY <1>1 DEF CatalogueInv, Whole, CallsFine, Free
<1>3. c.op = "import" /\ (c.at = "setprice" => Head(c.todo).hook = "price" /\ c.list \in DOMAIN lists)
  BY <1>1, <1>2 DEF CallFine, PlaceFine
<1>4. HooksFine(c, product)
  BY <1>2 DEF CallFine
<1>5. PICK todo : todo = c.todo
  OBVIOUS
<1>6. todo \in Seq(Range(todo)) /\ todo # <<>>
  BY <1>1, <1>4, <1>5 DEF HooksFine
<1>7. Head(todo) = todo[1] /\ 1 \in DOMAIN todo
  BY <1>6, FirstAndRest
<1>8. todo[1].id \in DOMAIN product
  BY <1>4, <1>5, <1>7 DEF HooksFine
<1> QED BY <1>1, <1>2, <1>3, <1>5, <1>7, <1>8

\* Noted and Done take an import there.
LEMMA NotedIs ==
    ASSUME CatalogueInv, NEW m \in Managers, manager[m].at \in {"hooks", "setprice", "newlist"}, manager[m].todo # <<>>,
           NEW c, c = manager[m]
    PROVE  /\ Noted(m) => manager' = Other(manager, m, Proceeds(c, Tail(c.todo), c.noted \cup {Head(c.todo).id}))
           /\ Done(m) => manager' = Other(manager, m, Proceeds(c, Tail(c.todo), c.noted))
<1>1. CallFine(c, product, lists)
  BY NextHook
<1>0. PICK t, n : t = Tail(c.todo) /\ n = c.noted \cup {Head(c.todo).id}
  OBVIOUS
<1>2a. PICK y : y = [c EXCEPT !.at = "hooks"]
  OBVIOUS
<1>2b. PICK z : z = [y EXCEPT !.todo = t]
  OBVIOUS
<1>3. y = GoesTo(c, "hooks", c.ids, c.list, c.variant, c.dirty)
  BY <1>1, <1>2a DEF CallFine, GoesTo
<1>4. z = Proceeds(c, t, c.noted)
  BY <1>2b, <1>3 DEF GoesTo, Proceeds
<1>5. [z EXCEPT !.noted = n] = Proceeds(c, t, n)
  BY <1>4 DEF Proceeds
<1>6. ASSUME Done(m) PROVE manager' = Other(manager, m, z)
  <2>1. manager' = [manager EXCEPT ![m] = [[manager[m] EXCEPT !.at = "hooks"] EXCEPT !.todo = Tail(manager[m].todo)]]
    BY <1>6 DEF Done
  <2> QED BY <1>0, <1>2a, <1>2b, <2>1 DEF Other
<1>7. ASSUME Noted(m) PROVE manager' = Other(manager, m, [z EXCEPT !.noted = n])
  <2>1. manager' = [manager EXCEPT ![m] = [[[manager[m] EXCEPT !.at = "hooks"] EXCEPT !.todo = Tail(manager[m].todo)]
                                                EXCEPT !.noted = manager[m].noted \cup {Head(manager[m].todo).id}]]
    BY <1>7 DEF Noted, Step
  <2> QED BY <1>0, <1>2a, <1>2b, <2>1 DEF Other
<1> QED BY <1>0, <1>4, <1>5, <1>6, <1>7

\* A hook that fails is noted.
LEMMA HookFailsPasses ==
    ASSUME CatalogueInv, NEW m \in Managers, HookFails(m)
    PROVE  CatalogueInv'
<1>1. PICK c, h, n, c2 : c = manager[m] /\ h = Head(c.todo) /\ n = c.noted \cup {h.id} /\ c2 = Proceeds(c, Tail(c.todo), n)
  OBVIOUS
<1>2. c.at \in {"hooks", "setprice", "newlist"} /\ c.todo # <<>>
  BY <1>1 DEF HookFails
<1>3. manager' = Other(manager, m, c2)
  BY <1>1, <1>2, NotedIs DEF HookFails
<1>4. Whole(units, product, lists, priced, stock, used, shown, Other(manager, m, c2), everPriced, told, overlap, excused)
  <2>1. HookDone(h, n, everPriced, stock, stock) /\ c.noted \subseteq n /\ c2 = Proceeds(c, Tail(c.todo), n)
    BY <1>1 DEF HookDone
  <2> QED BY <1>1, <1>2, <2>1, WholeHooked DEF CatalogueInv
<1>5. UNCHANGED <<units, product, lists, priced, stock, used, shown, everPriced, told, overlap, excused>>
  BY DEF HookFails, Pricing, Trade, Histories
<1> QED BY <1>3, <1>4, <1>5 DEF CatalogueInv

\* A tax rate leaves no trace on a product.
LEMMA TaxRateHookPasses ==
    ASSUME CatalogueInv, NEW m \in Managers, TaxRateHook(m)
    PROVE  CatalogueInv'
<1>1. PICK c, h, n, c2 : c = manager[m] /\ h = Head(c.todo) /\ n = c.noted /\ c2 = Proceeds(c, Tail(c.todo), n)
  OBVIOUS
<1>2. c.at = "hooks" /\ c.todo # <<>> /\ h.hook = "rate"
  BY <1>1 DEF TaxRateHook, Hooking, Step
<1>3. manager' = Other(manager, m, c2)
  BY <1>1, <1>2, NotedIs DEF TaxRateHook
<1>4. Whole(units, product, lists, priced, stock, used, shown, Other(manager, m, c2), everPriced, told, overlap, excused)
  <2>1. HookDone(h, n, everPriced, stock, stock) /\ c.noted \subseteq n /\ c2 = Proceeds(c, Tail(c.todo), n)
    BY <1>1, <1>2 DEF HookDone
  <2> QED BY <1>1, <1>2, <2>1, WholeHooked DEF CatalogueInv
<1>5. UNCHANGED <<units, product, lists, priced, stock, used, shown, everPriced, told, overlap, excused>>
  BY DEF TaxRateHook, Pricing, Histories
<1> QED BY <1>3, <1>4, <1>5 DEF CatalogueInv

\* The opening stock is added, once, or the product was deleted and that is noted.
LEMMA OpeningStockHookPasses ==
    ASSUME CatalogueInv, NEW m \in Managers, OpeningStockHook(m)
    PROVE  CatalogueInv'
<1>1. PICK c, h : c = manager[m] /\ h = Head(c.todo)
  OBVIOUS
<1>2. c.at = "hooks" /\ c.todo # <<>> /\ h.hook = "stock" /\ h = Step(m)
  BY <1>1 DEF OpeningStockHook, Hooking, Step
<1>3. UNCHANGED <<units, product, lists, priced, shown, everPriced, told, overlap, excused>>
  BY DEF OpeningStockHook, Pricing, Histories
<1>4. CASE Kept(h.id)
  <2>1. PICK st2, used2 : st2 = [stock EXCEPT ![h.id] = @ + h.row.stock] /\ used2 = used \cup {h.id}
    OBVIOUS
  <2>2. stock' = st2 /\ used' = used2 /\ Done(m)
    BY <1>2, <1>4, <2>1 DEF OpeningStockHook
  <2>3. h.id \in DOMAIN product /\ product[h.id].status # "GONE"
    BY <1>1, <1>2, <1>4, NextHook DEF Kept
  <2>4. used \cup shown \subseteq DOMAIN product
    BY DEF CatalogueInv, Whole, Referred
  <2>5. Whole(units, product, lists, priced, stock, used2, shown, manager, everPriced, told, overlap, excused)
    <3>1. used2 \cup shown \subseteq DOMAIN product /\ \A i \in (used2 \cup shown) \ (used \cup shown) : product[i].status # "GONE"
      BY <2>1, <2>3, <2>4
    <3> QED BY <3>1, WholeUsed DEF CatalogueInv
  <2>6. PICK n, c2 : n = c.noted /\ c2 = Proceeds(c, Tail(c.todo), n)
    OBVIOUS
  <2>7. manager' = Other(manager, m, c2)
    BY <1>1, <1>2, <2>2, <2>6, NotedIs
  <2>8. Whole(units, product, lists, priced, st2, used2, shown, Other(manager, m, c2), everPriced, told, overlap, excused)
    <3>1. HookDone(h, n, everPriced, stock, st2) /\ c.noted \subseteq n /\ c2 = Proceeds(c, Tail(c.todo), n)
      BY <1>2, <2>1, <2>6 DEF HookDone
    <3> QED BY <1>1, <1>2, <2>5, <3>1, WholeHooked
  <2> QED BY <1>3, <2>2, <2>7, <2>8 DEF CatalogueInv
<1>5. CASE ~Kept(h.id)
  <2>1. Noted(m) /\ UNCHANGED <<stock, used>>
    BY <1>2, <1>5 DEF OpeningStockHook
  <2>2. PICK n, c2 : n = c.noted \cup {h.id} /\ c2 = Proceeds(c, Tail(c.todo), n)
    OBVIOUS
  <2>3. manager' = Other(manager, m, c2)
    BY <1>1, <1>2, <2>1, <2>2, NotedIs
  <2>4. Whole(units, product, lists, priced, stock, used, shown, Other(manager, m, c2), everPriced, told, overlap, excused)
    <3>1. HookDone(h, n, everPriced, stock, stock) /\ c.noted \subseteq n /\ c2 = Proceeds(c, Tail(c.todo), n)
      BY <2>2 DEF HookDone
    <3> QED BY <1>1, <1>2, <3>1, WholeHooked DEF CatalogueInv
  <2> QED BY <1>3, <2>1, <2>3, <2>4 DEF CatalogueInv
<1> QED BY <1>4, <1>5

\* The price is set, or the product was deleted and that is noted.
LEMMA PriceHookPasses ==
    ASSUME CatalogueInv, NEW m \in Managers, PriceHook(m), manager[m].todo # <<>>
    PROVE  CatalogueInv'
<1>1. PICK c, h : c = manager[m] /\ h = Head(c.todo)
  OBVIOUS
<1>2. c.at = "setprice" /\ c.todo # <<>> /\ h = Step(m)
  BY <1>1 DEF PriceHook, Step
<1>3. UNCHANGED <<units, product, lists, stock, used, shown, told, overlap, excused>>
  BY DEF PriceHook, Trade
<1>4. h.id \in DOMAIN product /\ h.hook = "price" /\ c.list \in DOMAIN lists
  BY <1>1, <1>2, NextHook
<1>5. CASE Kept(h.id)
  <2>1. PICK pr2, ev2 : pr2 = priced' /\ ev2 = everPriced \cup {h.id}
    OBVIOUS
  <2>2. everPriced' = ev2 /\ Done(m) /\ DOMAIN pr2 = DOMAIN priced \cup {<<c.list, h.id>>}
    BY <1>1, <1>2, <1>5, <2>1 DEF PriceHook, Upsert
  <2>3. Whole(units, product, lists, pr2, stock, used, shown, manager, ev2, told, overlap, excused)
    BY <1>4, <1>5, <2>1, <2>2, WholePriced DEF CatalogueInv, Kept
  <2>4. PICK n, c2 : n = c.noted /\ c2 = Proceeds(c, Tail(c.todo), n)
    OBVIOUS
  <2>5. manager' = Other(manager, m, c2)
    BY <1>1, <1>2, <2>2, <2>4, NotedIs
  <2>6. Whole(units, product, lists, pr2, stock, used, shown, Other(manager, m, c2), ev2, told, overlap, excused)
    <3>1. HookDone(h, n, ev2, stock, stock) /\ c.noted \subseteq n /\ c2 = Proceeds(c, Tail(c.todo), n)
      BY <1>4, <2>1, <2>4 DEF HookDone
    <3> QED BY <1>1, <1>2, <2>3, <3>1, WholeHooked
  <2> QED BY <1>3, <2>1, <2>2, <2>5, <2>6 DEF CatalogueInv
<1>6. CASE ~Kept(h.id)
  <2>1. Noted(m) /\ UNCHANGED <<priced, everPriced>>
    BY <1>2, <1>6 DEF PriceHook
  <2>2. PICK n, c2 : n = c.noted \cup {h.id} /\ c2 = Proceeds(c, Tail(c.todo), n)
    OBVIOUS
  <2>3. manager' = Other(manager, m, c2)
    BY <1>1, <1>2, <2>1, <2>2, NotedIs
  <2>4. Whole(units, product, lists, priced, stock, used, shown, Other(manager, m, c2), everPriced, told, overlap, excused)
    <3>1. HookDone(h, n, everPriced, stock, stock) /\ c.noted \subseteq n /\ c2 = Proceeds(c, Tail(c.todo), n)
      BY <2>2 DEF HookDone
    <3> QED BY <1>1, <1>2, <3>1, WholeHooked DEF CatalogueInv
  <2> QED BY <1>3, <2>1, <2>3, <2>4 DEF CatalogueInv
<1> QED BY <1>5, <1>6

\* A request that begins to read what it will add to.
LEMMA WholeBegins ==
    ASSUME NEW us, NEW ps, NEW ls, NEW pr, NEW st, NEW usd, NEW shn, NEW mgr, NEW ev, NEW td, NEW ov, NEW ex,
           Whole(us, ps, ls, pr, st, usd, shn, mgr, ev, td, ov, ex),
           NEW m \in Managers, NEW c2, CallFine(c2, ps, ls), mgr[m].at # "remove",
           c2.made = {} \/ (c2.todo = mgr[m].todo /\ c2.made = mgr[m].made /\ c2.noted = mgr[m].noted),
           c2.at = "rows" => \A i \in DOMAIN ps : Imported(ps, i) => ps[i].name \in c2.names,
           c2.at = "newlist" => \A l \in DOMAIN ls : ~ls[l].onDemand,
           NEW ov2, ov => ov2, (\E n \in Managers : mgr[n].at \in {"rows", "newlist"}) => ov2
    PROVE  Whole(us, ps, ls, pr, st, usd, shn, Other(mgr, m, c2), ev, td, ov2, ex)
<1>1. /\ ShelfFine(ps, us) /\ Referred(ps, ls, pr, usd, shn, ev, td) /\ CallsFine(ps, ls, mgr)
      /\ PricesKept(ps, pr, ev, ex, mgr) /\ OneByOneSheets(ps, ls, mgr, ov) /\ Stocked(ps, st, ev, td, mgr)
  BY DEF Whole
<1>2. CallsFine(ps, ls, Other(mgr, m, c2))
  BY <1>1, OtherCalls
<1>3. PricesKept(ps, pr, ev, ex, Other(mgr, m, c2))
  BY <1>1, OtherPrices
<1>4. Stocked(ps, st, ev, td, Other(mgr, m, c2))
  BY <1>1, OtherStocked
<1>5. OneByOneSheets(ps, ls, Other(mgr, m, c2), ov2)
  <2>1. PICK mgr2 : mgr2 = Other(mgr, m, c2)
    OBVIOUS
  <2>2. mgr2[m] = c2 /\ \A n \in Managers : n # m => mgr2[n] = mgr[n]
    BY <1>1, <2>1, OtherIs DEF CallsFine
  <2>3. CASE ov2
    BY <2>1, <2>3 DEF OneByOneSheets
  <2>4. CASE ~ov2
    <3>1. ~ov /\ \A n \in Managers : mgr[n].at \notin {"rows", "newlist"}
      BY <2>4
    <3>2. \A n \in Managers : mgr2[n].at \in {"rows", "newlist"} => n = m /\ mgr2[n] = c2
      BY <2>2, <3>1
    <3>3. \A n, k \in Managers : mgr2[n].at \in {"rows", "newlist"} /\ mgr2[k].at \in {"rows", "newlist"} => n = k
      BY <3>2
    <3>4. \A n \in Managers : mgr2[n].at = "rows" => \A i \in DOMAIN ps : Imported(ps, i) => ps[i].name \in mgr2[n].names
      BY <3>2
    <3>5. \A n \in Managers : mgr2[n].at = "newlist" => \A l \in DOMAIN ls : ~ls[l].onDemand
      BY <3>2
    <3> QED BY <1>1, <2>1, <3>1, <3>3, <3>4, <3>5 DEF OneByOneSheets
  <2> QED BY <2>3, <2>4
<1> QED BY <1>1, <1>2, <1>3, <1>4, <1>5 DEF Whole

\* An import reads the names of all products; another one reading overlaps.
LEMMA ImportProductsPasses ==
    ASSUME CatalogueInv, NEW m \in Managers, NEW sheet \in Sheets, ImportProducts(m, sheet)
    PROVE  CatalogueInv'
<1>1. PICK f, known : f = Free /\ known = {product[i].name : i \in Living}
  OBVIOUS
<1>2. PICK g : g = [[[[[f EXCEPT !.op = "import"] EXCEPT !.at = "rows"] EXCEPT !.sheet = sheet] EXCEPT !.units = units] EXCEPT !.names = known]
  OBVIOUS
<1>3. manager' = Other(manager, m, g)
  BY <1>1, <1>2 DEF ImportProducts, Other
<1>4. g = [op |-> "import", at |-> "rows", sheet |-> sheet, ids |-> <<>>, names |-> known, units |-> units, made |-> {},
           todo |-> <<>>, list |-> 0, noted |-> {}, variant |-> FALSE, dirty |-> FALSE]
  BY <1>1, <1>2 DEF Free
<1>5. units \subseteq Units
  BY DEF CatalogueInv, Whole, ShelfFine
<1>6. CallFine(g, product, lists)
  BY <1>4, <1>5 DEF CallFine, PlaceFine, HooksFine
<1>7. g.made = {} /\ g.at = "rows" /\ g.names = known /\ manager[m].at = "idle"
  BY <1>4 DEF ImportProducts, Free
<1>8. \A i \in DOMAIN product : Imported(product, i) => product[i].name \in known
  BY <1>1 DEF Imported, Living, Kept, Ids
<1>9. (overlap => overlap') /\ ((\E n \in Managers : manager[n].at \in {"rows", "newlist"}) => overlap')
  BY DEF ImportProducts, Reading
<1>10. Whole(units, product, lists, priced, stock, used, shown, Other(manager, m, g), everPriced, told, overlap', excused)
  BY <1>6, <1>7, <1>8, <1>9, WholeBegins DEF CatalogueInv
<1>11. UNCHANGED <<units, product, lists, priced, stock, used, shown, everPriced, told, excused>>
  BY DEF ImportProducts, Pricing, Trade
<1> QED BY <1>3, <1>10, <1>11 DEF CatalogueInv

\* A list is found, or is about to be made: two that are overlap.
LEMMA EnsureDefaultPriceListPasses ==
    ASSUME CatalogueInv, NEW m \in Managers, EnsureDefaultPriceList(m)
    PROVE  CatalogueInv'
<1>1. PICK c : c = manager[m]
  OBVIOUS
<1>2. CallFine(c, product, lists)
  BY <1>1 DEF CatalogueInv, Whole, CallsFine
<1>3. c = Free \/ (c.at = "hooks" /\ c.todo # <<>> /\ Head(c.todo).hook = "price" /\ c # Free)
  BY <1>1 DEF EnsureDefaultPriceList, Hooking, Step
<1>4. UNCHANGED <<units, product, lists, priced, stock, used, shown, everPriced, told, excused>>
  BY DEF EnsureDefaultPriceList, Pricing, Trade
<1>5. c.at # "remove" /\ c.at \notin {"rows", "newlist"}
  BY <1>3 DEF Free
<1>6. c # Free => c.op = "import" /\ c.sheet \in Sheets
  BY <1>2, <1>3 DEF CallFine, PlaceFine
<1>7. CASE lists = <<>>
  <2>1. (overlap => overlap') /\ ((\E n \in Managers : manager[n].at \in {"rows", "newlist"}) => overlap')
    BY <1>7 DEF EnsureDefaultPriceList, Reading
  <2>2. \A l \in DOMAIN lists : ~lists[l].onDemand
    BY <1>7
  <2>3. CASE c = Free
    <3>1. PICK f, g : f = Free /\ g = [[f EXCEPT !.op = "ensure"] EXCEPT !.at = "newlist"]
      OBVIOUS
    <3>2. manager' = Other(manager, m, g)
      BY <1>1, <1>7, <2>3, <3>1 DEF EnsureDefaultPriceList, Other
    <3>3. g = [op |-> "ensure", at |-> "newlist", sheet |-> <<>>, ids |-> <<>>, names |-> {}, units |-> {}, made |-> {},
               todo |-> <<>>, list |-> 0, noted |-> {}, variant |-> FALSE, dirty |-> FALSE]
      BY <3>1 DEF Free
    <3>4. CallFine(g, product, lists)
      BY <3>3 DEF CallFine, PlaceFine, HooksFine
    <3>5. g.made = {} /\ g.at = "newlist"
      BY <3>3
    <3>6. Whole(units, product, lists, priced, stock, used, shown, Other(manager, m, g), everPriced, told, overlap', excused)
      BY <1>1, <1>5, <2>1, <2>2, <3>4, <3>5, WholeBegins DEF CatalogueInv
    <3> QED BY <1>4, <3>2, <3>6 DEF CatalogueInv
  <2>4. CASE c # Free
    <3>1. PICK g : g = [c EXCEPT !.at = "newlist"]
      OBVIOUS
    <3>2. manager' = Other(manager, m, g)
      BY <1>1, <1>7, <2>4, <3>1 DEF EnsureDefaultPriceList, Other
    <3>3. g = GoesTo(c, "newlist", c.ids, c.list, c.variant, c.dirty)
      BY <1>2, <3>1 DEF CallFine, GoesTo
    <3>4. PlaceFine(g, product, lists)
      BY <1>3, <1>6, <2>4, <3>3 DEF PlaceFine, GoesTo
    <3>5. CallFine(g, product, lists) /\ g.made = c.made /\ g.todo = c.todo /\ g.noted = c.noted /\ g.at = "newlist"
      BY <1>2, <3>3, <3>4, GoesOn
    <3>6. Whole(units, product, lists, priced, stock, used, shown, Other(manager, m, g), everPriced, told, overlap', excused)
      BY <1>1, <1>5, <2>1, <2>2, <3>5, WholeBegins DEF CatalogueInv
    <3> QED BY <1>4, <3>2, <3>6 DEF CatalogueInv
  <2> QED BY <2>3, <2>4
<1>8. CASE lists # <<>>
  <2>1. c # Free /\ UNCHANGED overlap
    BY <1>1, <1>8 DEF EnsureDefaultPriceList
  <2>2. PICK l \in Defaults : manager' = [manager EXCEPT ![m] = [[manager[m] EXCEPT !.at = "setprice"] EXCEPT !.list = l]]
    BY <1>8 DEF EnsureDefaultPriceList
  <2>3. l \in DOMAIN lists
    BY DEF Defaults
  <2>4. PICK y, g : y = [c EXCEPT !.at = "setprice"] /\ g = [y EXCEPT !.list = l]
    OBVIOUS
  <2>5. manager' = Other(manager, m, g)
    BY <1>1, <2>2, <2>4 DEF Other
  <2>6. y = GoesTo(c, "setprice", c.ids, c.list, c.variant, c.dirty)
    BY <1>2, <2>4 DEF CallFine, GoesTo
  <2>7. g = GoesTo(c, "setprice", c.ids, l, c.variant, c.dirty)
    BY <2>4, <2>6 DEF GoesTo
  <2>8. PlaceFine(g, product, lists)
    BY <1>3, <1>6, <2>1, <2>3, <2>7 DEF PlaceFine, GoesTo
  <2>9. CallFine(g, product, lists) /\ g.made = c.made /\ g.todo = c.todo /\ g.noted = c.noted /\ g.at = "setprice"
    BY <1>2, <2>7, <2>8, GoesOn
  <2>10. Whole(units, product, lists, priced, stock, used, shown, Other(manager, m, g), everPriced, told, overlap, excused)
    BY <1>1, <1>5, <2>9, WholeOther DEF CatalogueInv
  <2> QED BY <1>4, <2>1, <2>5, <2>10 DEF CatalogueInv
<1> QED BY <1>7, <1>8

\* The list is made: it is the first, or requests have overlapped.
LEMMA MakeDefaultPriceListPasses ==
    ASSUME CatalogueInv, NEW m \in Managers, MakeDefaultPriceList(m)
    PROVE  CatalogueInv'
<1>1. PICK c : c = manager[m]
  OBVIOUS
<1>2. CallFine(c, product, lists) /\ c.at = "newlist" /\ c # Free
  BY <1>1 DEF CatalogueInv, Whole, CallsFine, MakeDefaultPriceList, Free
<1>3. \/ c.op = "import" /\ c.sheet \in Sheets /\ c.todo # <<>> /\ Head(c.todo).hook = "price"
      \/ c.op = "ensure" /\ c.todo = <<>> /\ c.made = {}
  BY <1>2 DEF CallFine, PlaceFine
<1>4. UNCHANGED <<units, product, priced, stock, used, shown, everPriced, told, overlap, excused>>
  BY DEF MakeDefaultPriceList, Trade, Histories
<1>5. PICK yes, no : yes = TRUE /\ no = FALSE
  OBVIOUS
<1>6. PICK r, ls2 : r = [default |-> yes, onDemand |-> yes] /\ ls2 = Append(lists, r)
  OBVIOUS
<1>7. lists' = ls2 /\ r \in [default : BOOLEAN, onDemand : BOOLEAN]
  BY <1>5, <1>6 DEF MakeDefaultPriceList
<1>8. PICK f, mgr1 : f = Free /\ mgr1 = Other(manager, m, f)
  OBVIOUS
<1>9. manager = [x \in Managers |-> manager[x]]
  BY DEF CatalogueInv, Whole, CallsFine
<1>10. mgr1[m] = f /\ \A n \in Managers : n # m => mgr1[n] = manager[n]
  BY <1>8, <1>9, OtherIs
<1>11. overlap \/ /\ \A l \in DOMAIN lists : ~lists[l].onDemand
                  /\ \A n \in Managers : mgr1[n].at # "newlist"
  <2>1. f.at = "idle"
    BY <1>8 DEF Free
  <2>2. ~overlap => /\ \A l \in DOMAIN lists : ~lists[l].onDemand
                    /\ \A n \in Managers : n # m => manager[n].at # "newlist"
    BY <1>1, <1>2 DEF CatalogueInv, Whole, OneByOneSheets
  <2> QED BY <1>10, <2>1, <2>2
<1>12. CASE c.op = "ensure"
  <2>1. manager' = mgr1
    BY <1>1, <1>8, <1>12 DEF MakeDefaultPriceList, Other
  <2>2. Whole(units, product, lists, priced, stock, used, shown, mgr1, everPriced, told, overlap, excused)
    BY <1>1, <1>2, <1>8, AbandonPasses DEF CatalogueInv
  <2>3. Whole(units, product, ls2, priced, stock, used, shown, mgr1, everPriced, told, overlap, excused)
    BY <1>6, <1>7, <1>11, <2>2, WholeListed
  <2> QED BY <1>4, <1>7, <2>1, <2>3 DEF CatalogueInv
<1>13. CASE c.op # "ensure"
  <2>1. c.op = "import" /\ c.sheet \in Sheets /\ c.todo # <<>> /\ Head(c.todo).hook = "price"
    BY <1>3, <1>13
  <2>2. PICK h, mgr2 : h = GoesTo(c, "hooks", c.ids, c.list, c.variant, c.dirty) /\ mgr2 = Other(manager, m, h)
    OBVIOUS
  <2>3. PlaceFine(h, product, lists)
    BY <2>1, <2>2 DEF PlaceFine, GoesTo
  <2>4. CallFine(h, product, lists) /\ h.made = c.made /\ h.todo = c.todo /\ h.noted = c.noted /\ h.at = "hooks" /\ h.ids = c.ids
    BY <1>2, <2>2, <2>3, GoesOn
  <2>5. Whole(units, product, lists, priced, stock, used, shown, mgr2, everPriced, told, overlap, excused)
    BY <1>1, <1>2, <2>2, <2>4, WholeOther DEF CatalogueInv
  <2>6. mgr2[m] = h /\ \A n \in Managers : n # m => mgr2[n] = manager[n]
    BY <1>9, <2>2, OtherIs
  <2>7. overlap \/ /\ \A l \in DOMAIN lists : ~lists[l].onDemand
                   /\ \A n \in Managers : mgr2[n].at # "newlist"
    <3>1. \A n \in Managers : n # m => (mgr1[n].at # "newlist" => mgr2[n].at # "newlist")
      BY <1>10, <2>6
    <3> QED BY <1>11, <2>4, <2>6, <3>1
  <2>8. Whole(units, product, ls2, priced, stock, used, shown, mgr2, everPriced, told, overlap, excused)
    BY <1>6, <1>7, <2>5, <2>7, WholeListed
  <2>9. PICK n, g : n = Len(ls2) /\ g = GoesTo(h, "setprice", h.ids, n, h.variant, h.dirty)
    OBVIOUS
  <2>10. n \in DOMAIN ls2
    <3>1. lists \in Seq([default : BOOLEAN, onDemand : BOOLEAN])
      BY DEF CatalogueInv, Whole, Referred
    <3>2. ls2 \in Seq([default : BOOLEAN, onDemand : BOOLEAN]) /\ Len(ls2) = Len(lists) + 1 /\ Len(lists) \in Nat
      BY <1>6, <1>7, <3>1, AppendProperties, LenProperties
    <3> QED BY <2>9, <3>2, LenProperties
  <2>11. CallFine(h, product, ls2)
    BY <2>6, <2>8 DEF Whole, CallsFine
  <2>12. PlaceFine(g, product, ls2)
    BY <2>1, <2>2, <2>9, <2>10 DEF PlaceFine, GoesTo
  <2>13. CallFine(g, product, ls2) /\ g.made = h.made /\ g.todo = h.todo /\ g.noted = h.noted /\ g.at = "setprice"
    BY <2>9, <2>11, <2>12, GoesOn
  <2>14. Whole(units, product, ls2, priced, stock, used, shown, Other(mgr2, m, g), everPriced, told, overlap, excused)
    BY <2>4, <2>6, <2>8, <2>13, WholeOther
  <2>15. Other(mgr2, m, g) = Other(manager, m, g)
    BY <1>9, <2>2 DEF Other
  <2>16. manager' = Other(manager, m, g)
    <3>1. manager' = [manager EXCEPT ![m] = [[manager[m] EXCEPT !.at = "setprice"] EXCEPT !.list = Len(lists')]]
      BY <1>1, <1>13 DEF MakeDefaultPriceList
    <3>2. PICK y : y = [c EXCEPT !.at = "setprice"]
      OBVIOUS
    <3>3. y = GoesTo(c, "setprice", c.ids, c.list, c.variant, c.dirty)
      BY <1>2, <3>2 DEF CallFine, GoesTo
    <3>4. [y EXCEPT !.list = n] = g
      BY <2>2, <2>9, <3>3 DEF GoesTo
    <3> QED BY <1>1, <1>7, <2>9, <3>1, <3>2, <3>4 DEF Other
  <2> QED BY <1>4, <1>7, <2>14, <2>15, <2>16 DEF CatalogueInv
<1> QED BY <1>12, <1>13

\* The report: what has no note has its price and its stock.
LEMMA ImportReportPasses ==
    ASSUME CatalogueInv, NEW m \in Managers, ImportReport(m)
    PROVE  CatalogueInv'
<1>1. PICK c, td2 : c = manager[m] /\ td2 = told \cup (c.made \ c.noted)
  OBVIOUS
<1>2. /\ c.at = "hooks" /\ c.todo = <<>> /\ told' = td2 /\ manager' = Other(manager, m, Free)
      /\ UNCHANGED <<units, product, lists, priced, stock, used, shown, everPriced, overlap, excused>>
  BY <1>1 DEF ImportReport, Abandon, Other, Pricing, Trade
<1>3. c.made \subseteq DOMAIN product
  BY <1>1 DEF CatalogueInv, Whole, CallsFine, CallFine, HooksFine
<1>4. Whole(units, product, lists, priced, stock, used, shown, Other(manager, m, Free), everPriced, told, overlap, excused)
  BY <1>1, <1>2, AbandonPasses DEF CatalogueInv
<1>5. PICK mgr2, f : mgr2 = Other(manager, m, f) /\ f = Free
  OBVIOUS
<1>6. mgr2[m] = f /\ f.made = {} /\ \A n \in Managers : n # m => mgr2[n] = manager[n]
  BY <1>5, OtherIs DEF CatalogueInv, Whole, CallsFine, Free
<1>7. \A i \in c.made \ c.noted : product[i].row # Empty =>
         (product[i].row.price # 0 => i \in everPriced) /\ stock[i] = product[i].row.stock
  <2>1. MadeAsSaid(product, stock, everPriced, c)
    BY <1>1 DEF CatalogueInv, Whole, Stocked
  <2>2. \A i, hook : ~Pending(c, i, hook)
    BY <1>2 DEF Pending
  <2> QED BY <2>1, <2>2 DEF MadeAsSaid, AsSaid
<1>8. \A n \in Managers : mgr2[n].made \cap td2 = {}
  <2>1. \A n \in Managers : n # m => manager[n].made \cap c.made = {} /\ manager[n].made \cap told = {}
    BY <1>1 DEF CatalogueInv, Whole, Stocked
  <2> QED BY <1>1, <1>6, <2>1
<1>9. Stocked(product, stock, everPriced, told, mgr2)
  BY <1>4, <1>5 DEF Whole
<1>10. Stocked(product, stock, everPriced, td2, mgr2)
  BY <1>1, <1>7, <1>8, <1>9 DEF Stocked
<1>11. Referred(product, lists, priced, used, shown, everPriced, td2)
  BY <1>1, <1>3 DEF CatalogueInv, Whole, Referred
<1>12. Whole(units, product, lists, priced, stock, used, shown, mgr2, everPriced, td2, overlap, excused)
  BY <1>4, <1>5, <1>10, <1>11 DEF Whole
<1> QED BY <1>2, <1>5, <1>12 DEF CatalogueInv

\* Hooks in a sequence, each for a product of ids, and no two opening stocks of one product.
HooksAre(t, ids) ==
    /\ t \in Seq(Range(t))
    /\ \A k \in DOMAIN t : t[k].id \in ids
    /\ \A k, l \in DOMAIN t : t[k].id = t[l].id /\ t[k].hook = "stock" /\ t[l].hook = "stock" => k = l

\* One sequence after another.
Joins(s, t, u) == u = s \o t

\* What is in two sequences joined.
LEMMA RangeJoined ==
    ASSUME NEW s, s \in Seq(Range(s)), NEW t, t \in Seq(Range(t)), NEW u, Joins(s, t, u)
    PROVE  /\ u \in Seq(Range(u)) /\ Len(s) \in Nat
           /\ \A k \in DOMAIN s : k \in DOMAIN u /\ u[k] = s[k]
           /\ \A k \in DOMAIN t : k + Len(s) \in DOMAIN u /\ u[k + Len(s)] = t[k]
           /\ \A k \in DOMAIN u : \/ k \in DOMAIN s /\ u[k] = s[k]
                                  \/ k - Len(s) \in DOMAIN t /\ u[k] = t[k - Len(s)] /\ k \in Int
<1>1. PICK S, m, n : S = Range(s) \cup Range(t) /\ m = Len(s) /\ n = Len(t)
  OBVIOUS
<1>2. s \in Seq(S) /\ t \in Seq(S)
  <2>1. PICK A, B : A = Range(s) /\ B = Range(t) /\ A \subseteq S /\ B \subseteq S
    BY <1>1
  <2> QED BY <2>1, WiderSeq
<1>3. m \in Nat /\ n \in Nat /\ DOMAIN s = 1..m /\ DOMAIN t = 1..n
  BY <1>1, <1>2, LenProperties
<1>4. u \in Seq(S) /\ Len(u) = m + n /\ \A i \in 1..(m + n) : u[i] = IF i <= m THEN s[i] ELSE t[i - m]
  BY <1>1, <1>2, ConcatProperties DEF Joins
<1>5. DOMAIN u = 1..(m + n)
  BY <1>4, LenProperties
<1>6. u \in Seq(Range(u))
  BY <1>4, SeqOfRange
<1>7. /\ \A k \in DOMAIN s : k \in DOMAIN u /\ u[k] = s[k]
      /\ \A k \in DOMAIN t : k + m \in DOMAIN u /\ u[k + m] = t[k]
      /\ \A k \in DOMAIN u : \/ k \in DOMAIN s /\ u[k] = s[k]
                             \/ k - m \in DOMAIN t /\ u[k] = t[k - m] /\ k \in Int
  <2>1. \A k \in DOMAIN s : k \in DOMAIN u /\ u[k] = s[k]
    BY <1>3, <1>4, <1>5
  <2>2. \A k \in DOMAIN t : k + m \in DOMAIN u /\ u[k + m] = t[k]
    <3>1. \A k \in 1..n : k + m \in 1..(m + n) /\ ~(k + m <= m) /\ (k + m) - m = k
      BY <1>3
    <3> QED BY <1>3, <1>4, <1>5, <3>1
  <2>3. \A k \in DOMAIN u : \/ k \in DOMAIN s /\ u[k] = s[k]
                            \/ k - m \in DOMAIN t /\ u[k] = t[k - m] /\ k \in Int
    <3>1. \A k \in 1..(m + n) : k \in Int /\ (k <= m => k \in 1..m) /\ (~(k <= m) => k - m \in 1..n)
      BY <1>3
    <3> QED BY <1>3, <1>4, <1>5, <3>1
  <2> QED BY <2>1, <2>2, <2>3
<1> QED BY <1>1, <1>3, <1>6, <1>7

\* Hooks joined.
LEMMA HooksJoined ==
    ASSUME NEW s, NEW t, NEW u, Joins(s, t, u), NEW A, NEW B, HooksAre(s, A), HooksAre(t, B),
           \A k \in DOMAIN s, l \in DOMAIN t : s[k].id = t[l].id => ~(s[k].hook = "stock" /\ t[l].hook = "stock")
    PROVE  HooksAre(u, A \cup B)
<1>1. s \in Seq(Range(s)) /\ t \in Seq(Range(t))
  BY DEF HooksAre
<1>2. PICK n : n = Len(s)
  OBVIOUS
<1>3. /\ u \in Seq(Range(u)) /\ n \in Nat
      /\ \A k \in DOMAIN u : \/ k \in DOMAIN s /\ u[k] = s[k]
                             \/ k - n \in DOMAIN t /\ u[k] = t[k - n] /\ k \in Int
  <2>1. /\ u \in Seq(Range(u)) /\ Len(s) \in Nat
        /\ \A k \in DOMAIN s : k \in DOMAIN u /\ u[k] = s[k]
        /\ \A k \in DOMAIN t : k + Len(s) \in DOMAIN u /\ u[k + Len(s)] = t[k]
        /\ \A k \in DOMAIN u : \/ k \in DOMAIN s /\ u[k] = s[k]
                               \/ k - Len(s) \in DOMAIN t /\ u[k] = t[k - Len(s)] /\ k \in Int
    BY <1>1, RangeJoined
  <2> QED BY <1>2, <2>1
<1>4. \A k \in DOMAIN u : u[k].id \in A \cup B
  BY <1>3 DEF HooksAre
<1>5. ASSUME NEW k \in DOMAIN u, NEW l \in DOMAIN u, u[k].id = u[l].id, u[k].hook = "stock", u[l].hook = "stock"
      PROVE  k = l
  <2>1. CASE k \in DOMAIN s /\ u[k] = s[k] /\ l \in DOMAIN s /\ u[l] = s[l]
    BY <1>5, <2>1 DEF HooksAre
  <2>2. CASE k - n \in DOMAIN t /\ u[k] = t[k - n] /\ k \in Int /\ l - n \in DOMAIN t /\ u[l] = t[l - n] /\ l \in Int
    <3>1. k - n = l - n
      BY <1>5, <2>2 DEF HooksAre
    <3> QED BY <1>3, <2>2, <3>1
  <2>3. CASE k \in DOMAIN s /\ u[k] = s[k] /\ l - n \in DOMAIN t /\ u[l] = t[l - n]
    BY <1>5, <2>3
  <2>4. CASE l \in DOMAIN s /\ u[l] = s[l] /\ k - n \in DOMAIN t /\ u[k] = t[k - n]
    BY <1>5, <2>4
  <2> QED BY <1>3, <2>1, <2>2, <2>3, <2>4
<1> QED BY <1>3, <1>4, <1>5 DEF HooksAre

\* Some hook of a sequence is this one.
Asks(t, id, row, hook) == \E k \in DOMAIN t : t[k].id = id /\ t[k].row = row /\ t[k].hook = hook

\* What one of two sequences asks for, both together do.
LEMMA AsksJoined ==
    ASSUME NEW s, s \in Seq(Range(s)), NEW t, t \in Seq(Range(t)), NEW u, Joins(s, t, u), NEW id, NEW row, NEW hook,
           Asks(s, id, row, hook) \/ Asks(t, id, row, hook)
    PROVE  Asks(u, id, row, hook)
<1>1. PICK n : n = Len(s)
  OBVIOUS
<1>2. /\ \A k \in DOMAIN s : k \in DOMAIN u /\ u[k] = s[k]
      /\ \A k \in DOMAIN t : k + n \in DOMAIN u /\ u[k + n] = t[k]
  BY <1>1, RangeJoined
<1>3. CASE Asks(s, id, row, hook)
  BY <1>2, <1>3 DEF Asks
<1>4. CASE Asks(t, id, row, hook)
  <2>1. PICK k \in DOMAIN t : t[k].id = id /\ t[k].row = row /\ t[k].hook = hook
    BY <1>4 DEF Asks
  <2> QED BY <1>2, <2>1 DEF Asks
<1> QED BY <1>3, <1>4

\* The hook of a row, if it is asked for.
OneHook(t, id, row, hook, asked) ==
    /\ HooksAre(t, {id}) /\ \A k \in DOMAIN t : t[k].row = row /\ t[k].hook = hook
    /\ asked # 0 => Asks(t, id, row, hook)

\* Hook makes that.
LEMMA HookIs ==
    ASSUME NEW id, NEW row, NEW hook, NEW asked
    PROVE  OneHook(Hook(id, row, hook, asked), id, row, hook, asked)
<1>0. PICK t : t = Hook(id, row, hook, asked)
  OBVIOUS
<1>1. ASSUME asked = 0 PROVE OneHook(t, id, row, hook, asked)
  <2>1. t = <<>>
    BY <1>0, <1>1 DEF Hook
  <2>2. DOMAIN t = {} /\ t \in Seq(Range(t))
    <3>1. t \in Seq({})
      BY <2>1
    <3> QED BY <2>1, <3>1, SeqOfRange
  <2> QED BY <1>1, <2>1, <2>2 DEF HooksAre, Asks, OneHook
<1>2. ASSUME asked # 0 PROVE OneHook(t, id, row, hook, asked)
  <2>1. PICK h : h = [id |-> id, row |-> row, hook |-> hook]
    OBVIOUS
  <2>2. t = <<h>>
    BY <1>0, <1>2, <2>1 DEF Hook
  <2>3. DOMAIN t = {1} /\ t[1] = h /\ t \in Seq({h})
    BY <2>2
  <2>4. t \in Seq(Range(t))
    BY <2>3, SeqOfRange
  <2> QED BY <2>1, <2>3, <2>4 DEF HooksAre, Asks, OneHook
<1>3. OneHook(t, id, row, hook, asked)
  BY <1>1, <1>2
<1> QED BY <1>0, <1>3

\* The hooks of a row: at most one opening stock, and what the row asks for is among them.
StepsFine(t, id, row) ==
    /\ HooksAre(t, {id}) /\ \A k \in DOMAIN t : t[k].row = row
    /\ row.price # 0 => Asks(t, id, row, "price")
    /\ row.stock # 0 => Asks(t, id, row, "stock")

\* Steps makes them.
LEMMA StepsAre ==
    ASSUME NEW id, NEW row
    PROVE  StepsFine(Steps(id, row), id, row)
<1>0. PICK t : t = Steps(id, row)
  OBVIOUS
<1>1. PICK p, r, q, a, b, c, d : /\ p = row.price /\ r = row.rate /\ q = row.stock
                               /\ a = Hook(id, row, "price", p) /\ b = Hook(id, row, "rate", r) /\ c = Hook(id, row, "stock", q)
                               /\ Joins(a, b, d)
  BY DEF Joins
<1>2. Joins(d, c, t)
  BY <1>0, <1>1 DEF Steps, Joins
<1>3. /\ HooksAre(a, {id}) /\ (\A l \in DOMAIN a : a[l].row = row /\ a[l].hook = "price")
      /\ p # 0 => Asks(a, id, row, "price")
  <2>1. OneHook(a, id, row, "price", p)
    BY <1>1, HookIs
  <2> QED BY <2>1 DEF OneHook
<1>4. HooksAre(b, {id}) /\ (\A l \in DOMAIN b : b[l].row = row /\ b[l].hook = "rate")
  <2>1. OneHook(b, id, row, "rate", r)
    BY <1>1, HookIs
  <2> QED BY <2>1 DEF OneHook
<1>5. /\ HooksAre(c, {id}) /\ (\A l \in DOMAIN c : c[l].row = row /\ c[l].hook = "stock")
      /\ q # 0 => Asks(c, id, row, "stock")
  <2>1. OneHook(c, id, row, "stock", q)
    BY <1>1, HookIs
  <2> QED BY <2>1 DEF OneHook
<1>6. HooksAre(d, {id} \cup {id})
  BY <1>1, <1>3, <1>4, HooksJoined
<1>7. PICK n : n = Len(a)
  OBVIOUS
<1>8. \A i \in DOMAIN d : d[i].row = row /\ d[i].hook # "stock"
  <2>1. a \in Seq(Range(a)) /\ b \in Seq(Range(b))
    BY <1>3, <1>4 DEF HooksAre
  <2>2. \A i \in DOMAIN d : \/ i \in DOMAIN a /\ d[i] = a[i]
                            \/ i - n \in DOMAIN b /\ d[i] = b[i - n] /\ i \in Int
    BY <1>1, <1>7, <2>1, RangeJoined
  <2> QED BY <1>3, <1>4, <2>2
<1>9. HooksAre(t, ({id} \cup {id}) \cup {id})
  BY <1>2, <1>5, <1>6, <1>8, HooksJoined
<1>10. HooksAre(t, {id})
  BY <1>9 DEF HooksAre
<1>11. a \in Seq(Range(a)) /\ b \in Seq(Range(b)) /\ c \in Seq(Range(c)) /\ d \in Seq(Range(d))
  BY <1>3, <1>4, <1>5, <1>6 DEF HooksAre
<1>12. \A i \in DOMAIN t : t[i].row = row
  <2>1. PICK l : l = Len(d)
    OBVIOUS
  <2>2. \A i \in DOMAIN t : \/ i \in DOMAIN d /\ t[i] = d[i]
                            \/ i - l \in DOMAIN c /\ t[i] = c[i - l] /\ i \in Int
    BY <1>2, <1>11, <2>1, RangeJoined
  <2> QED BY <1>5, <1>8, <2>2
<1>13. row.price # 0 => Asks(t, id, row, "price")
  <2>1. row.price # 0 => Asks(d, id, row, "price")
    BY <1>1, <1>3, <1>11, AsksJoined
  <2> QED BY <1>2, <1>11, <2>1, AsksJoined
<1>14. row.stock # 0 => Asks(t, id, row, "stock")
  BY <1>1, <1>2, <1>5, <1>11, AsksJoined
<1> QED BY <1>0, <1>1, <1>10, <1>12, <1>13, <1>14 DEF StepsFine

\* What the rows of a file have made so far: whole products under names that were not
\* there, with the hooks their rows ask for.
RowsFine(s, old, known, rows) ==
    /\ s = [product |-> s.product, found |-> s.found, names |-> s.names, skus |-> s.skus, codes |-> s.codes, units |-> s.units,
            todo |-> s.todo, made |-> s.made]
    /\ s.product \in Seq(Range(s.product)) /\ DOMAIN old \subseteq DOMAIN s.product
    /\ \A i \in DOMAIN old : s.product[i] = old[i]
    /\ s.made = DOMAIN s.product \ DOMAIN old
    /\ known \subseteq s.names /\ s.units \subseteq Units
    /\ \A i \in s.made : /\ ProductFine(s.product[i]) /\ s.product[i].status = "ACTIVE" /\ s.product[i].row \in rows
                         /\ s.product[i].name \in s.names \ known
    /\ \A i, j \in s.made : s.product[i].name = s.product[j].name => i = j
    /\ HooksAre(s.todo, s.made)
    /\ \A k \in DOMAIN s.todo : s.todo[k].row = s.product[s.todo[k].id].row
    /\ \A i \in s.made : /\ s.product[i].row.price # 0 => Asks(s.todo, i, s.product[i].row, "price")
                         /\ s.product[i].row.stock # 0 => Asks(s.todo, i, s.product[i].row, "stock")

\* The product made of a row.
NewRow(s, row, sku) ==
    [name |-> row.name, row |-> row, unit |-> row.unit, status |-> "ACTIVE", variant |-> TRUE, sku |-> sku, barcode |-> row.barcode]

\* One row: skipped, or a product, its name and its hooks.
RowMade(s, row, s2) ==
    /\ row.name \notin s.names
    /\ \E sku, skus, codes :
          s2 = [product |-> Append(s.product, NewRow(s, row, sku)), found |-> s.found, names |-> s.names \cup {row.name},
                skus |-> skus, codes |-> codes, units |-> s.units \cup {row.unit},
                todo |-> s.todo \o Steps(Len(s.product) + 1, row), made |-> s.made \cup {Len(s.product) + 1}]

\* A row does nothing or that.
LEMMA ImportRowIs ==
    ASSUME NEW s, NEW row,
           s = [product |-> s.product, found |-> s.found, names |-> s.names, skus |-> s.skus, codes |-> s.codes, units |-> s.units,
                todo |-> s.todo, made |-> s.made]
    PROVE  ImportRow(s, row) = s \/ RowMade(s, row, ImportRow(s, row))
<1>1. CASE row.name \in s.names \/ row.barcode \in s.codes
  BY <1>1 DEF ImportRow
<1>2. CASE ~(row.name \in s.names \/ row.barcode \in s.codes)
  <2>1. PICK id, sku, yes : id = Len(s.product) + 1 /\ sku = FreeSku(row.base, s.skus) /\ yes = TRUE
    OBVIOUS
  <2>2. PICK w : w = NewProduct(row.name, row.unit)
    OBVIOUS
  <2>3. PICK x : x = [[[[w EXCEPT !.row = row] EXCEPT !.variant = yes] EXCEPT !.barcode = row.barcode] EXCEPT !.sku = sku]
    OBVIOUS
  <2>4. x = NewRow(s, row, sku) /\ x.sku = sku
    BY <2>1, <2>2, <2>3 DEF NewProduct, NewRow
  <2>5. PICK ps, ns, ks, cs, us, td, md :
            /\ ps = Append(s.product, x) /\ ns = s.names \cup {row.name} /\ ks = s.skus \cup {x.sku}
            /\ cs = s.codes \cup ({row.barcode} \ {Empty}) /\ us = s.units \cup {row.unit}
            /\ td = s.todo \o Steps(id, row) /\ md = s.made \cup {id}
    OBVIOUS
  <2>6. ImportRow(s, row) = [[[[[[[s EXCEPT !.product = ps] EXCEPT !.names = ns] EXCEPT !.skus = ks] EXCEPT !.codes = cs]
                                  EXCEPT !.units = us] EXCEPT !.todo = td] EXCEPT !.made = md]
    BY <1>2, <2>1, <2>2, <2>3, <2>5 DEF ImportRow, AddRow
  <2>7. ImportRow(s, row) = [product |-> ps, found |-> s.found, names |-> ns, skus |-> ks, codes |-> cs, units |-> us,
                             todo |-> td, made |-> md]
    BY <2>6
  <2> QED BY <1>2, <2>1, <2>4, <2>5, <2>7 DEF RowMade
<1> QED BY <1>1, <1>2

\* A row a file can have.
RowOK(row) == row # Empty /\ row.name \in Names /\ row.unit \in Units /\ row.stock \in Int

\* A product made of a row is whole.
LEMMA NewRowFine ==
    ASSUME NEW s, NEW row, RowOK(row), NEW sku, NEW x, x = NewRow(s, row, sku)
    PROVE  ProductFine(x) /\ x.status = "ACTIVE" /\ x.row = row /\ x.name = row.name
<1>1. PICK yes : yes = TRUE
  OBVIOUS
<1>2. x = [name |-> row.name, row |-> row, unit |-> row.unit, status |-> "ACTIVE", variant |-> yes, sku |-> sku, barcode |-> row.barcode]
  BY <1>1 DEF NewRow
<1>3. /\ x.name = row.name /\ x.row = row /\ x.unit = row.unit /\ x.status = "ACTIVE" /\ x.variant = yes
      /\ x = [name |-> x.name, row |-> x.row, unit |-> x.unit, status |-> x.status, variant |-> x.variant, sku |-> x.sku, barcode |-> x.barcode]
  BY <1>2
<1> QED BY <1>1, <1>3 DEF ProductFine, RowOK

\* A row keeps what the rows before it have made, and adds to it.
LEMMA ImportRowFine ==
    ASSUME NEW s, NEW old, NEW known, NEW rows, RowsFine(s, old, known, rows), NEW row \in rows, RowOK(row)
    PROVE  RowsFine(ImportRow(s, row), old, known, rows)
<1>1. s = [product |-> s.product, found |-> s.found, names |-> s.names, skus |-> s.skus, codes |-> s.codes, units |-> s.units,
           todo |-> s.todo, made |-> s.made]
  BY DEF RowsFine
<1>2. PICK s2 : s2 = ImportRow(s, row)
  OBVIOUS
<1>3. CASE s2 = s
  BY <1>2, <1>3
<1>4. CASE s2 # s
  <2>0. RowMade(s, row, s2)
    BY <1>1, <1>2, <1>4, ImportRowIs
  <2>1. row.name \notin s.names
    BY <2>0 DEF RowMade
  <2>2. PICK sku, skus, codes :
            s2 = [product |-> Append(s.product, NewRow(s, row, sku)), found |-> s.found,
                  names |-> s.names \cup {row.name}, skus |-> skus, codes |-> codes,
                  units |-> s.units \cup {row.unit}, todo |-> s.todo \o Steps(Len(s.product) + 1, row),
                  made |-> s.made \cup {Len(s.product) + 1}]
    BY <2>0 DEF RowMade
  <2>3. PICK ps, id, x, t, st, td : /\ ps = s.product /\ id = Len(ps) + 1 /\ x = NewRow(s, row, sku) /\ t = s.todo
                                    /\ st = Steps(id, row) /\ td = t \o st
    OBVIOUS
  <2>4. PICK ps2 : ps2 = Append(ps, x)
    OBVIOUS
  <2>5. s2 = [product |-> ps2, found |-> s.found, names |-> s.names \cup {row.name}, skus |-> skus, codes |-> codes,
              units |-> s.units \cup {row.unit}, todo |-> td, made |-> s.made \cup {id}]
    BY <2>2, <2>3, <2>4
  <2>6. /\ s2.product = ps2 /\ s2.names = s.names \cup {row.name} /\ s2.units = s.units \cup {row.unit} /\ s2.todo = td
        /\ s2.made = s.made \cup {id}
        /\ s2 = [product |-> s2.product, found |-> s2.found, names |-> s2.names, skus |-> s2.skus, codes |-> s2.codes,
                 units |-> s2.units, todo |-> s2.todo, made |-> s2.made]
    BY <2>5
  <2>7. ProductFine(x) /\ x.status = "ACTIVE" /\ x.row = row /\ x.name = row.name
    BY <2>3, NewRowFine
  <2>8. ps \in Seq(Range(ps)) /\ DOMAIN old \subseteq DOMAIN ps /\ (\A i \in DOMAIN old : ps[i] = old[i]) /\ s.made = DOMAIN ps \ DOMAIN old
    BY <2>3 DEF RowsFine
  <2>9. PICK S : S = Range(ps) \cup {x}
    OBVIOUS
  <2>10. ps \in Seq(S) /\ x \in S
    <3>1. PICK A : A = Range(ps) /\ A \subseteq S
      BY <2>9
    <3> QED BY <2>8, <2>9, <3>1, WiderSeq
  <2>11. /\ ps2 \in Seq(S) /\ DOMAIN ps2 = DOMAIN ps \cup {id} /\ id \notin DOMAIN ps
         /\ (\A l \in DOMAIN ps : ps2[l] = ps[l]) /\ ps2[id] = x
    BY <2>3, <2>4, <2>10, AddAtEnd
  <2>12. ps2 \in Seq(Range(ps2))
    BY <2>11, SeqOfRange
  <2>13. DOMAIN old \subseteq DOMAIN ps2 /\ (\A i \in DOMAIN old : ps2[i] = old[i]) /\ s2.made = DOMAIN ps2 \ DOMAIN old
    BY <2>6, <2>8, <2>11
  <2>14. \A i \in s.made : i \in DOMAIN ps /\ ps2[i] = ps[i] /\ i # id
    BY <2>8, <2>11
  <2>15. \A i \in s.made : /\ ProductFine(ps2[i]) /\ ps2[i].status = "ACTIVE" /\ ps2[i].row \in rows
                           /\ ps2[i].name \in s.names \ known
    BY <2>3, <2>14 DEF RowsFine
  <2>16. known \subseteq s.names /\ s.units \subseteq Units
    BY DEF RowsFine
  <2>17. \A i \in s2.made : /\ ProductFine(ps2[i]) /\ ps2[i].status = "ACTIVE" /\ ps2[i].row \in rows
                            /\ ps2[i].name \in s2.names \ known
    BY <2>1, <2>6, <2>7, <2>11, <2>15, <2>16
  <2>18. \A i, j \in s2.made : ps2[i].name = ps2[j].name => i = j
    <3>1. \A i, j \in s.made : ps2[i].name = ps2[j].name => i = j
      BY <2>3, <2>14 DEF RowsFine
    <3>2. \A i \in s.made : ps2[i].name # ps2[id].name
      BY <2>1, <2>7, <2>11, <2>15
    <3> QED BY <2>6, <3>1, <3>2
  <2>19. HooksAre(t, s.made) /\ (\A k \in DOMAIN t : t[k].row = ps[t[k].id].row)
    BY <2>3 DEF RowsFine
  <2>20. /\ HooksAre(st, {id}) /\ (\A k \in DOMAIN st : st[k].row = row)
         /\ row.price # 0 => Asks(st, id, row, "price")
         /\ row.stock # 0 => Asks(st, id, row, "stock")
    <3>1. StepsFine(st, id, row)
      BY <2>3, StepsAre
    <3> QED BY <3>1 DEF StepsFine
  <2>21. Joins(t, st, td)
    BY <2>3 DEF Joins
  <2>22. (\A k \in DOMAIN t : t[k].id \in s.made) /\ (\A l \in DOMAIN st : st[l].id = id)
    BY <2>19, <2>20 DEF HooksAre
  <2>23. HooksAre(td, s.made \cup {id})
    <3>1. \A k \in DOMAIN t, l \in DOMAIN st : t[k].id = st[l].id => ~(t[k].hook = "stock" /\ st[l].hook = "stock")
      BY <2>14, <2>22
    <3> QED BY <2>19, <2>20, <2>21, <3>1, HooksJoined
  <2>24. t \in Seq(Range(t)) /\ st \in Seq(Range(st))
    BY <2>19, <2>20 DEF HooksAre
  <2>25. \A k \in DOMAIN td : td[k].row = ps2[td[k].id].row
    <3>1. PICK n : n = Len(t)
      OBVIOUS
    <3>2. \A k \in DOMAIN td : \/ k \in DOMAIN t /\ td[k] = t[k]
                               \/ k - n \in DOMAIN st /\ td[k] = st[k - n] /\ k \in Int
      BY <2>21, <2>24, <3>1, RangeJoined
    <3>3. \A k \in DOMAIN t : t[k].row = ps2[t[k].id].row
      BY <2>14, <2>19, <2>22
    <3>4. \A l \in DOMAIN st : st[l].row = ps2[st[l].id].row
      BY <2>7, <2>11, <2>20, <2>22
    <3> QED BY <3>2, <3>3, <3>4
  <2>26. ASSUME NEW i \in s2.made
         PROVE  /\ ps2[i].row.price # 0 => Asks(td, i, ps2[i].row, "price")
                /\ ps2[i].row.stock # 0 => Asks(td, i, ps2[i].row, "stock")
    <3>1. CASE i \in s.made
      <4>1. PICK r : r = ps2[i].row
        OBVIOUS
      <4>2. (r.price # 0 => Asks(t, i, r, "price")) /\ (r.stock # 0 => Asks(t, i, r, "stock"))
        BY <2>3, <2>14, <3>1, <4>1 DEF RowsFine
      <4>3. \A hook : Asks(t, i, r, hook) => Asks(td, i, r, hook)
        BY <2>21, <2>24, AsksJoined
      <4> QED BY <4>1, <4>2, <4>3
    <3>2. CASE i = id
      <4>1. ps2[i].row = row
        BY <2>7, <2>11, <3>2
      <4>2. \A hook : Asks(st, id, row, hook) => Asks(td, id, row, hook)
        BY <2>21, <2>24, AsksJoined
      <4> QED BY <2>20, <3>2, <4>1, <4>2
    <3> QED BY <2>6, <3>1, <3>2
  <2>27. known \subseteq s2.names /\ s2.units \subseteq Units
    BY <2>6, <2>16 DEF RowOK
  <2>28. RowsFine(s2, old, known, rows)
    BY <2>6, <2>12, <2>13, <2>17, <2>18, <2>23, <2>25, <2>26, <2>27 DEF RowsFine
  <2> QED BY <1>2, <2>28
<1> QED BY <1>3, <1>4

\* What is there after each row of a file, and after them all.
LEMMA SheetRowsAre ==
    ASSUME NEW sheet, NEW s, Len(sheet) \in Nat
    PROVE  \E f : /\ f = [k \in 0..Len(sheet) |-> IF k = 0 THEN s ELSE ImportRow(f[k - 1], sheet[k])]
                  /\ SheetRows(sheet, s) = f[Len(sheet)]
<1> DEFINE Next1(x, i) == ImportRow(x, sheet[i])
<1> HIDE DEF Next1
<1> DEFINE Upto(n) == \E f : f = [i \in 0..n |-> IF i = 0 THEN s ELSE Next1(f[i - 1], i)]
           B == {n \in Nat : ~Upto(n)}
<1>1. B = {}
  <2> SUFFICES ASSUME B # {} PROVE FALSE
    OBVIOUS
  <2>1. PICK m \in B : \A n \in B : m <= n
    <3>1. B \subseteq Nat
      OBVIOUS
    <3> HIDE DEF B
    <3> QED BY <3>1, LeastNat
  <2>2. m # 0
    <3>1. PICK f : f = [i \in 0..0 |-> s]
      OBVIOUS
    <3>2. f = [i \in 0..0 |-> IF i = 0 THEN s ELSE Next1(f[i - 1], i)]
      BY <3>1
    <3>3. Upto(0)
      BY <3>2
    <3> QED BY <2>1, <3>3
  <2>3. m - 1 \in Nat /\ Upto(m - 1)
    <3>1. m - 1 \in Nat /\ ~(m <= m - 1)
      BY <2>1, <2>2
    <3>2. m - 1 \notin B
      BY <2>1, <3>1
    <3> HIDE DEF Upto
    <3> QED BY <3>1, <3>2
  <2>4. PICK f : f = [i \in 0..(m - 1) |-> IF i = 0 THEN s ELSE Next1(f[i - 1], i)]
    BY <2>3
  <2>5. PICK h : h = [i \in 0..m |-> IF i = 0 THEN s ELSE Next1(f[i - 1], i)]
    OBVIOUS
  <2>6. \A i \in 0..m : i # 0 => i - 1 \in 0..(m - 1) /\ i - 1 \in 0..m
    BY <2>1
  <2>7. \A i \in 0..(m - 1) : h[i] = f[i]
    BY <2>1, <2>2, <2>4, <2>5
  <2>8. \A i \in 0..m : i # 0 => h[i - 1] = f[i - 1]
    BY <2>6, <2>7
  <2>9. h = [i \in 0..m |-> IF i = 0 THEN s ELSE Next1(h[i - 1], i)]
    BY <2>5, <2>8
  <2> QED BY <2>1, <2>9
<1>2. Upto(Len(sheet))
  BY <1>1
<1>3. PICK g : g = CHOOSE f : f = [k \in 0..Len(sheet) |-> IF k = 0 THEN s ELSE Next1(f[k - 1], k)]
  OBVIOUS
<1>4. g = [k \in 0..Len(sheet) |-> IF k = 0 THEN s ELSE Next1(g[k - 1], k)]
  BY <1>2, <1>3
<1>5. SheetRows(sheet, s) = g[Len(sheet)]
  BY <1>3 DEF SheetRows, Next1
<1> QED BY <1>4, <1>5 DEF Next1

\* What the rows of a file make is whole, to the last row.
LEMMA SheetRowsFine ==
    ASSUME NEW sheet, Len(sheet) \in Nat, NEW s, NEW old, NEW known, NEW rows, RowsFine(s, old, known, rows),
           \A k \in 1..Len(sheet) : sheet[k] \in rows /\ RowOK(sheet[k])
    PROVE  RowsFine(SheetRows(sheet, s), old, known, rows)
<1>1. PICK f : /\ f = [k \in 0..Len(sheet) |-> IF k = 0 THEN s ELSE ImportRow(f[k - 1], sheet[k])]
               /\ SheetRows(sheet, s) = f[Len(sheet)]
  BY SheetRowsAre
<1>2. f[0] = s /\ \A k \in 1..Len(sheet) : f[k] = ImportRow(f[k - 1], sheet[k])
  <2>1. 0 \in 0..Len(sheet) /\ \A k \in 1..Len(sheet) : k \in 0..Len(sheet) /\ k # 0
    OBVIOUS
  <2>2. \A k \in 0..Len(sheet) : f[k] = IF k = 0 THEN s ELSE ImportRow(f[k - 1], sheet[k])
    BY <1>1
  <2> QED BY <2>1, <2>2
<1> DEFINE B == {k \in 0..Len(sheet) : ~RowsFine(f[k], old, known, rows)}
<1>3. B = {}
  <2> SUFFICES ASSUME B # {} PROVE FALSE
    OBVIOUS
  <2>1. PICK m \in B : \A n \in B : m <= n
    <3>1. B \subseteq Nat
      OBVIOUS
    <3> HIDE DEF B
    <3> QED BY <3>1, LeastNat
  <2>2. m \in 0..Len(sheet) /\ ~RowsFine(f[m], old, known, rows)
    OBVIOUS
  <2>3. m # 0
    BY <1>2, <2>2
  <2>4. m - 1 \in 0..Len(sheet) /\ m \in 1..Len(sheet) /\ ~(m <= m - 1)
    BY <2>2, <2>3
  <2>5. m - 1 \notin B
    BY <2>1, <2>4
  <2>6. RowsFine(f[m - 1], old, known, rows)
    BY <2>4, <2>5
  <2>7. f[m] = ImportRow(f[m - 1], sheet[m])
    BY <1>2, <2>4
  <2> QED BY <2>2, <2>4, <2>6, <2>7, ImportRowFine
<1>4. Len(sheet) \in 0..Len(sheet)
  OBVIOUS
<1>5. RowsFine(f[Len(sheet)], old, known, rows)
  BY <1>3, <1>4
<1> QED BY <1>1, <1>5

\* An import that has committed its rows and begins with their hooks.
AtHooks(c, e) ==
    [op |-> c.op, at |-> "hooks", sheet |-> c.sheet, ids |-> c.ids, names |-> c.names, units |-> c.units, made |-> e.made,
     todo |-> e.todo, list |-> c.list, noted |-> c.noted, variant |-> c.variant, dirty |-> c.dirty]

\* The stock of the products there were, and none of the new ones.
WithNew(st, ps, ps2) == [i \in DOMAIN ps2 |-> IF i \in DOMAIN ps THEN st[i] ELSE 0]

\* The rows of a file, committed.
LEMMA WholeImported ==
    ASSUME NEW us, NEW ps, NEW ls, NEW pr, NEW st, NEW usd, NEW shn, NEW mgr, NEW ev, NEW td, NEW ov, NEW ex,
           Whole(us, ps, ls, pr, st, usd, shn, mgr, ev, td, ov, ex),
           NEW m \in Managers, NEW c, c = mgr[m], c.at = "rows",
           NEW rows, \A row \in rows : RowOK(row), NEW e, RowsFine(e, ps, c.names, rows), NEW us2, us2 = us \cup e.units,
           NEW ps2, ps2 = e.product, NEW st2, st2 = WithNew(st, ps, ps2),
           NEW c2, c2 = AtHooks(c, e)
    PROVE  Whole(us2, ps2, ls, pr, st2, usd, shn, Other(mgr, m, c2), ev, td, ov, ex)
<1>1. /\ ShelfFine(ps, us) /\ Referred(ps, ls, pr, usd, shn, ev, td) /\ CallsFine(ps, ls, mgr)
      /\ PricesKept(ps, pr, ev, ex, mgr) /\ OneByOneSheets(ps, ls, mgr, ov) /\ Stocked(ps, st, ev, td, mgr)
  BY DEF Whole
<1>2. CallFine(c, ps, ls) /\ c # Free
  BY <1>1 DEF CallsFine, Free
<1>3. c.op = "import" /\ c.sheet \in Sheets /\ c.noted = {} /\ c.made = {}
  BY <1>2 DEF CallFine, PlaceFine
<1>4. PICK mgr2, made, todo, known : mgr2 = Other(mgr, m, c2) /\ made = e.made /\ todo = e.todo /\ known = c.names
  OBVIOUS
<1>5. /\ c2.op = "import" /\ c2.at = "hooks" /\ c2.sheet \in Sheets /\ c2.made = made /\ c2.todo = todo /\ c2.noted = {}
      /\ c2.units = c.units
      /\ c2 = [op |-> c2.op, at |-> c2.at, sheet |-> c2.sheet, ids |-> c2.ids, names |-> c2.names, units |-> c2.units,
               made |-> c2.made, todo |-> c2.todo, list |-> c2.list, noted |-> c2.noted, variant |-> c2.variant,
               dirty |-> c2.dirty]
  BY <1>3, <1>4 DEF AtHooks
<1>6. mgr2[m] = c2 /\ \A n \in Managers : n # m => mgr2[n] = mgr[n]
  BY <1>1, <1>4, OtherIs DEF CallsFine
<1>7. /\ ps2 \in Seq(Range(ps2)) /\ DOMAIN ps \subseteq DOMAIN ps2 /\ (\A i \in DOMAIN ps : ps2[i] = ps[i])
      /\ made = DOMAIN ps2 \ DOMAIN ps /\ e.units \subseteq Units
  BY <1>4 DEF RowsFine
<1>8. \A i \in made : /\ ProductFine(ps2[i]) /\ ps2[i].status = "ACTIVE" /\ ps2[i].row \in rows /\ ps2[i].name \notin known
  BY <1>4 DEF RowsFine
<1>9. \A i, j \in made : ps2[i].name = ps2[j].name => i = j
  BY <1>4 DEF RowsFine
<1>10. HooksAre(todo, made) /\ (\A k \in DOMAIN todo : todo[k].row = ps2[todo[k].id].row)
  BY <1>4 DEF RowsFine
<1>11. \A i \in made : /\ ps2[i].row.price # 0 => Asks(todo, i, ps2[i].row, "price")
                       /\ ps2[i].row.stock # 0 => Asks(todo, i, ps2[i].row, "stock")
  BY <1>4 DEF RowsFine
<1>12. DOMAIN st = DOMAIN ps /\ DOMAIN st2 = DOMAIN ps2 /\ (\A i \in DOMAIN ps : st2[i] = st[i]) /\ \A i \in made : st2[i] = 0
  BY <1>1, <1>7 DEF Stocked, WithNew
<1>13. \A i \in DOMAIN ps2 : i \in DOMAIN ps \/ i \in made
  BY <1>7
<1>14. ShelfFine(ps2, us2)
  <2>1. us2 \subseteq Units
    BY <1>1, <1>7 DEF ShelfFine
  <2>2. \A i \in DOMAIN ps2 : ProductFine(ps2[i])
    BY <1>1, <1>7, <1>8, <1>13 DEF ShelfFine
  <2> QED BY <1>7, <2>1, <2>2 DEF ShelfFine
<1>15. Referred(ps2, ls, pr, usd, shn, ev, td)
  <2>1. \A i \in DOMAIN ps2 : ps2[i].status = "GONE" => i \notin PricedIn(pr) \cup usd \cup shn
    BY <1>1, <1>7, <1>8, <1>13 DEF Referred
  <2>2. \A k \in DOMAIN pr : k[1] \in DOMAIN ls /\ k[2] \in DOMAIN ps2
    BY <1>1, <1>7 DEF Referred
  <2> QED BY <1>1, <1>7, <2>1, <2>2 DEF Referred
<1>16. ASSUME NEW d, CallFine(d, ps, ls) PROVE CallFine(d, ps2, ls)
  <2>1. HooksFine(d, ps2)
    <3>1. HooksFine(d, ps)
      BY <1>16 DEF CallFine
    <3>2. \A k \in DOMAIN d.todo : d.todo[k].id \in DOMAIN ps
      BY <3>1 DEF HooksFine
    <3> QED BY <1>7, <3>1, <3>2 DEF HooksFine
  <2>2. PlaceFine(d, ps2, ls)
    <3>1. PlaceFine(d, ps, ls)
      BY <1>16 DEF CallFine
    <3>2. d.ids \in Seq(DOMAIN ps) => d.ids \in Seq(DOMAIN ps2)
      <4>1. PICK D, E : D = DOMAIN ps /\ E = DOMAIN ps2
        OBVIOUS
      <4> QED BY <1>7, <4>1, WiderSeq
    <3> QED BY <3>1, <3>2 DEF PlaceFine
  <2> QED BY <1>16, <2>1, <2>2 DEF CallFine
<1>17. HooksFine(c2, ps2)
  <2>1. todo \in Seq(Range(todo)) /\ made \subseteq DOMAIN ps2
    BY <1>7, <1>10 DEF HooksAre
  <2>2. \A k \in DOMAIN todo : todo[k].id \in made /\ todo[k].row = ps2[todo[k].id].row
    BY <1>10 DEF HooksAre
  <2>3. \A k \in DOMAIN todo : todo[k].row.stock \in Int
    BY <1>8, <2>2 DEF RowOK
  <2>4. \A k, l \in DOMAIN todo : todo[k].id = todo[l].id /\ todo[k].hook = "stock" /\ todo[l].hook = "stock" => k = l
    BY <1>10 DEF HooksAre
  <2> QED BY <1>5, <2>1, <2>2, <2>3, <2>4 DEF HooksFine
<1>18. CallFine(c2, ps2, ls)
  <2>1. PlaceFine(c2, ps2, ls)
    BY <1>5 DEF PlaceFine
  <2> QED BY <1>2, <1>5, <1>17, <2>1 DEF CallFine
<1>19. CallsFine(ps2, ls, mgr2)
  <2>1. CallsFine(ps2, ls, mgr)
    BY <1>1, <1>16 DEF CallsFine
  <2> QED BY <1>4, <1>18, <2>1, OtherCalls
<1>20. PricesKept(ps2, pr, ev, ex, mgr2)
  <2>1. PricesKept(ps, pr, ev, ex, mgr2)
    BY <1>1, <1>4, OtherPrices
  <2>2. ev \subseteq DOMAIN ps
    BY <1>1 DEF Referred
  <2> QED BY <1>7, <2>1, <2>2 DEF PricesKept
<1>21. OneByOneSheets(ps2, ls, mgr2, ov)
  <2>1. CASE ov
    BY <2>1 DEF OneByOneSheets
  <2>2. CASE ~ov
    <3>1. \A n \in Managers : mgr[n].at \in {"rows", "newlist"} => n = m
      BY <1>1, <2>2 DEF OneByOneSheets
    <3>2. \A n \in Managers : mgr2[n].at \notin {"rows", "newlist"}
      BY <1>5, <1>6, <3>1
    <3>3. \A i \in DOMAIN ps : Imported(ps, i) => ps[i].name \in known
      BY <1>1, <1>4, <2>2 DEF OneByOneSheets
    <3>4. \A i \in DOMAIN ps : Imported(ps2, i) => Imported(ps, i) /\ ps2[i].name = ps[i].name
      BY <1>7 DEF Imported
    <3>5. ASSUME NEW i \in DOMAIN ps2, NEW j \in DOMAIN ps2, Imported(ps2, i), Imported(ps2, j), ps2[i].name = ps2[j].name
          PROVE  i = j
      <4>1. CASE i \in made /\ j \in made
        BY <1>9, <3>5, <4>1
      <4>2. CASE i \in DOMAIN ps /\ j \in made
        BY <1>8, <3>3, <3>4, <3>5, <4>2
      <4>3. CASE i \in made /\ j \in DOMAIN ps
        BY <1>8, <3>3, <3>4, <3>5, <4>3
      <4>4. CASE i \in DOMAIN ps /\ j \in DOMAIN ps
        <5>1. Imported(ps, i) /\ Imported(ps, j) /\ ps[i].name = ps[j].name
          BY <3>4, <3>5, <4>4
        <5> QED BY <1>1, <2>2, <4>4, <5>1 DEF OneByOneSheets
      <4> QED BY <1>13, <4>1, <4>2, <4>3, <4>4
    <3>6. \A k, l \in DOMAIN ls : ls[k].onDemand /\ ls[l].onDemand => k = l
      BY <1>1, <2>2 DEF OneByOneSheets
    <3> QED BY <3>2, <3>5, <3>6 DEF OneByOneSheets
  <2> QED BY <2>1, <2>2
<1>22. MadeAsSaid(ps2, st2, ev, c2)
  <2> SUFFICES ASSUME NEW i \in made PROVE AsSaid(ps2[i].row, i \in ev, st2[i], c2, i)
    BY <1>5 DEF MadeAsSaid
  <2>1. \A hook : Asks(todo, i, ps2[i].row, hook) => Pending(c2, i, hook)
    BY <1>5 DEF Asks, Pending
  <2>2. st2[i] = 0
    BY <1>12
  <2>3. ps2[i].row.price # 0 => Pending(c2, i, "price")
    BY <1>11, <2>1
  <2>4. ps2[i].row.stock # 0 => Pending(c2, i, "stock")
    BY <1>11, <2>1
  <2> QED BY <2>2, <2>3, <2>4 DEF AsSaid
<1>23. Stocked(ps2, st2, ev, td, mgr2)
  <2>1. \A i \in DOMAIN ps2 : ps2[i].row # Empty => st2[i] \in {0, ps2[i].row.stock}
    BY <1>1, <1>7, <1>12, <1>13 DEF Stocked
  <2>2. \A n \in Managers : mgr[n].made \subseteq DOMAIN ps
    BY <1>1 DEF CallsFine, CallFine, HooksFine
  <2>3. td \subseteq DOMAIN ps
    BY <1>1 DEF Referred
  <2>4. \A n \in Managers : n # m => mgr2[n] = mgr[n] /\ mgr[n].made \cap made = {}
    BY <1>6, <1>7, <2>2
  <2>5. /\ \A n \in Managers : mgr2[n].made \cap td = {}
        /\ \A n, k \in Managers : n # k => mgr2[n].made \cap mgr2[k].made = {}
    <3>1. made \cap td = {}
      BY <1>7, <2>3
    <3>2. \A n \in Managers : n # m => mgr2[n].made \cap td = {}
      BY <1>1, <1>6 DEF Stocked
    <3>3. \A n, k \in Managers : n # m /\ k # m /\ n # k => mgr2[n].made \cap mgr2[k].made = {}
      BY <1>1, <1>6 DEF Stocked
    <3> QED BY <1>5, <1>6, <2>4, <3>1, <3>2, <3>3
  <2>6. ASSUME NEW n \in Managers PROVE MadeAsSaid(ps2, st2, ev, mgr2[n])
    <3>1. CASE n = m
      BY <1>6, <1>22, <3>1
    <3>2. CASE n # m
      <4>1. MadeAsSaid(ps, st, ev, mgr[n]) /\ mgr2[n] = mgr[n] /\ mgr[n].made \subseteq DOMAIN ps
        BY <1>1, <1>6, <2>2, <3>2 DEF Stocked
      <4>2. \A i \in mgr[n].made : ps2[i] = ps[i] /\ st2[i] = st[i]
        BY <1>7, <1>12, <4>1
      <4> QED BY <4>1, <4>2 DEF MadeAsSaid
    <3> QED BY <3>1, <3>2
  <2>7. \A i \in td : ps2[i].row # Empty => (ps2[i].row.price # 0 => i \in ev) /\ st2[i] = ps2[i].row.stock
    <3>1. \A i \in td : ps2[i] = ps[i] /\ st2[i] = st[i]
      BY <1>7, <1>12, <2>3
    <3> QED BY <1>1, <3>1 DEF Stocked
  <2> QED BY <1>12, <2>1, <2>5, <2>6, <2>7 DEF Stocked
<1> QED BY <1>4, <1>14, <1>15, <1>19, <1>20, <1>21, <1>23 DEF Whole

\* The rows are committed together, or the file is refused.
LEMMA ImportRowsPasses ==
    ASSUME CatalogueInv, CatalogueAssumption, NEW m \in Managers, ImportRows(m)
    PROVE  CatalogueInv'
<1>1. PICK c, e : c = manager[m] /\ e = Rows(m)
  OBVIOUS
<1>2. CallFine(c, product, lists) /\ c.at = "rows" /\ c # Free
  BY <1>1 DEF CatalogueInv, Whole, CallsFine, ImportRows, Free
<1>3. c.sheet \in Sheets
  BY <1>2 DEF CallFine, PlaceFine
<1>4. UNCHANGED <<lists, priced, used, shown, everPriced, told, overlap, excused>>
  BY DEF ImportRows, Pricing, Histories
<1>5. CASE (e.units \ c.units) \cap units # {}
  <2>1. manager' = Other(manager, m, Free) /\ UNCHANGED <<units, product, stock>>
    BY <1>1, <1>5 DEF ImportRows, Abandon, Other
  <2>2. Whole(units, product, lists, priced, stock, used, shown, Other(manager, m, Free), everPriced, told, overlap, excused)
    BY <1>1, <1>2, AbandonPasses DEF CatalogueInv
  <2> QED BY <1>4, <2>1, <2>2 DEF CatalogueInv
<1>6. CASE (e.units \ c.units) \cap units = {}
  <2>1. PICK sheet, rows : sheet = c.sheet /\ rows = Range(sheet)
    OBVIOUS
  <2>2. sheet \in Seq(rows) /\ \A row \in rows : RowOK(row)
    BY <1>3, <2>1 DEF CatalogueAssumption, RowOK
  <2>3. Len(sheet) \in Nat /\ \A k \in 1..Len(sheet) : sheet[k] \in rows
    BY <2>2, LenProperties, ElementOfSeq
  <2>4. PICK s : s = [product |-> product, found |-> c.names, names |-> c.names, skus |-> Skus, codes |-> CodesInUse,
                      units |-> c.units, todo |-> <<>>, made |-> {}]
    OBVIOUS
  <2>5. e = SheetRows(sheet, s)
    BY <1>1, <2>1, <2>4 DEF Rows
  <2>6. RowsFine(s, product, c.names, rows)
    <3>1. product \in Seq(Range(product)) /\ c.units \subseteq Units
      BY <1>2 DEF CatalogueInv, Whole, ShelfFine, CallFine
    <3>2. PICK none : none = <<>>
      OBVIOUS
    <3>3. HooksAre(none, {}) /\ DOMAIN none = {}
      <4>1. DOMAIN none = {} /\ none \in Seq({})
        BY <3>2
      <4>2. none \in Seq(Range(none))
        BY <4>1, SeqOfRange
      <4> QED BY <4>1, <4>2 DEF HooksAre
    <3>4. /\ s.product = product /\ s.names = c.names /\ s.units = c.units /\ s.todo = none /\ s.made = {}
          /\ s = [product |-> s.product, found |-> s.found, names |-> s.names, skus |-> s.skus, codes |-> s.codes,
                  units |-> s.units, todo |-> s.todo, made |-> s.made]
      BY <2>4, <3>2
    <3> QED BY <3>1, <3>3, <3>4 DEF RowsFine
  <2>7. RowsFine(e, product, c.names, rows)
    BY <2>2, <2>3, <2>5, <2>6, SheetRowsFine
  <2>8. PICK us2, ps2, st2 : /\ us2 = units \cup e.units /\ ps2 = e.product
                             /\ st2 = WithNew(stock, product, ps2)
    OBVIOUS
  <2>9. units' = us2 /\ product' = ps2 /\ stock' = st2
    BY <1>1, <1>6, <2>8 DEF ImportRows, Ids, WithNew
  <2>10. PICK c2 : c2 = AtHooks(c, e)
    OBVIOUS
  <2>11. manager' = Other(manager, m, c2)
    <3>1. PICK t, d : t = e.todo /\ d = e.made
      OBVIOUS
    <3>2. manager' = [manager EXCEPT ![m] = [[[manager[m] EXCEPT !.at = "hooks"] EXCEPT !.todo = t] EXCEPT !.made = d]]
      BY <1>1, <1>6, <3>1 DEF ImportRows
    <3>3. PICK y, z : y = [c EXCEPT !.at = "hooks"] /\ z = [y EXCEPT !.todo = t]
      OBVIOUS
    <3>4. y = GoesTo(c, "hooks", c.ids, c.list, c.variant, c.dirty)
      BY <1>2, <3>3 DEF CallFine, GoesTo
    <3>5. z = Proceeds(c, t, c.noted)
      BY <3>3, <3>4 DEF GoesTo, Proceeds
    <3>6. [z EXCEPT !.made = d] = c2
      BY <2>10, <3>1, <3>5 DEF Proceeds, AtHooks
    <3> QED BY <1>1, <3>2, <3>3, <3>6 DEF Other
  <2>12. Whole(us2, ps2, lists, priced, st2, used, shown, Other(manager, m, c2), everPriced, told, overlap, excused)
    <3>1. Whole(units, product, lists, priced, stock, used, shown, manager, everPriced, told, overlap, excused)
      BY DEF CatalogueInv
    <3> QED BY <1>1, <1>2, <2>2, <2>7, <2>8, <2>10, <3>1, WholeImported
  <2> QED BY <1>4, <2>9, <2>11, <2>12 DEF CatalogueInv
<1> QED BY <1>5, <1>6

\* A price is set by a request that has a hook to do.
LEMMA PriceToSet ==
    ASSUME CatalogueInv, NEW m \in Managers, manager[m].at = "setprice"
    PROVE  manager[m].todo # <<>>
<1>1. PICK c : c = manager[m]
  OBVIOUS
<1>2. CallFine(c, product, lists) /\ c # Free
  BY <1>1 DEF CatalogueInv, Whole, CallsFine, Free
<1> QED BY <1>1, <1>2 DEF CallFine, PlaceFine

\* An empty catalogue has the invariant.
LEMMA CatalogueStarts == ASSUME CatalogueInit PROVE CatalogueInv
<1>1. PICK ps, st, pr, f : ps = product /\ st = stock /\ pr = priced /\ f = Free
  OBVIOUS
<1>2. /\ ps = <<>> /\ lists = <<>> /\ DOMAIN pr = {} /\ DOMAIN st = {} /\ units = {} /\ used = {} /\ shown = {} /\ everPriced = {}
      /\ told = {} /\ manager = [m \in Managers |-> f]
  BY <1>1 DEF CatalogueInit
<1>3. DOMAIN ps = {} /\ ps \in Seq(Range(ps)) /\ DOMAIN lists = {} /\ lists \in Seq([default : BOOLEAN, onDemand : BOOLEAN])
  <2>1. ps \in Seq({})
    BY <1>2
  <2>2. ps \in Seq(Range(ps))
    BY <2>1, SeqOfRange
  <2> QED BY <1>2, <2>2
<1>4. CallFine(f, product, lists) /\ f.made = {} /\ f.at = "idle"
  BY <1>1, FreeFine
<1>5. \A m \in Managers : manager[m] = f
  BY <1>2
<1>6. CallsFine(product, lists, manager)
  BY <1>2, <1>4, <1>5 DEF CallsFine
<1>7. Stocked(ps, st, everPriced, told, manager)
  BY <1>2, <1>3, <1>4, <1>5 DEF Stocked, MadeAsSaid
<1>8. OneByOneSheets(ps, lists, manager, overlap)
  BY <1>3, <1>4, <1>5 DEF OneByOneSheets
<1>9. ShelfFine(ps, units) /\ Referred(ps, lists, pr, used, shown, everPriced, told) /\ PricesKept(ps, pr, everPriced, excused, manager)
  BY <1>2, <1>3 DEF ShelfFine, Referred, PricesKept, PricedIn
<1> QED BY <1>1, <1>6, <1>7, <1>8, <1>9 DEF CatalogueInv, Whole

\* Every step of every request keeps it.
LEMMA CatalogueSteps ==
    ASSUME CatalogueInv, CatalogueAssumption, CatalogueNext
    PROVE  CatalogueInv'
<1>1. ASSUME NEW u \in Units, CreateUnitOfMeasure(u) \/ \E n \in Names : CreateProduct(n, u) PROVE CatalogueInv'
  BY <1>1, UnitsPass, CreateProductPasses
<1>2. CASE EnsureDefaultUnits
  BY <1>2, UnitsPass
<1>3. ASSUME NEW i \in Ids,
             \/ \E n \in Names : UpdateProduct(i, n)
             \/ CreateVariant(i) \/ Use(i) \/ Publish(i)
             \/ \E c \in Barcodes : AddBarcode(i, c)
             \/ \E l \in DOMAIN lists : SetPrice(l, i, 1)
      PROVE  CatalogueInv'
  BY <1>3, UpdateProductPasses, CreateVariantPasses, UsePasses, AddBarcodePasses, SetPricePasses
<1>4. ASSUME NEW chosen \in SUBSET Ids \ {{}}, NEW s \in {"ACTIVE", "INACTIVE"}, BulkSetProductStatus(chosen, s) PROVE CatalogueInv'
  BY <1>4, BulkSetPasses
<1>5. ASSUME NEW default \in BOOLEAN, CreatePriceList(default) PROVE CatalogueInv'
  BY <1>5, CreatePriceListPasses
<1>6. ASSUME NEW m \in Managers, NEW i \in Ids, DeleteProducts(m, <<i>>) \/ \E j \in Ids \ {i} : DeleteProducts(m, <<i, j>>)
      PROVE  CatalogueInv'
  <2>1. CASE DeleteProducts(m, <<i>>)
    <3>1. PICK ids : ids = <<i>>
      OBVIOUS
    <3>2. ids \in Seq(DOMAIN product) /\ ids # <<>>
      BY <3>1 DEF Ids
    <3> QED BY <2>1, <3>1, <3>2, DeleteProductsPasses
  <2>2. ASSUME NEW j \in Ids, DeleteProducts(m, <<i, j>>) PROVE CatalogueInv'
    <3>1. PICK ids : ids = <<i, j>>
      OBVIOUS
    <3>2. ids \in Seq(DOMAIN product) /\ ids # <<>>
      BY <3>1 DEF Ids
    <3> QED BY <2>2, <3>1, <3>2, DeleteProductsPasses
  <2> QED BY <1>6, <2>1, <2>2
<1>7. ASSUME NEW m \in Managers, CheckHistory(m) \/ Deactivate(m) \/ ListVariants(m) \/ DeletePrices(m) \/ RemoveProduct(m)
      PROVE  CatalogueInv'
  BY <1>7, CheckHistoryPasses, DeactivatePasses, ListVariantsPasses, DeletePricesPasses, RemoveProductPasses
<1>8. ASSUME NEW m \in Managers, (\E sheet \in Sheets : ImportProducts(m, sheet)) \/ ImportRows(m) PROVE CatalogueInv'
  BY <1>8, ImportProductsPasses, ImportRowsPasses
<1>9. ASSUME NEW m \in Managers, EnsureDefaultPriceList(m) \/ MakeDefaultPriceList(m) \/ PriceHook(m) PROVE CatalogueInv'
  <2>1. PriceHook(m) => manager[m].todo # <<>>
    BY PriceToSet DEF PriceHook
  <2> QED BY <1>9, <2>1, EnsureDefaultPriceListPasses, MakeDefaultPriceListPasses, PriceHookPasses
<1>10. ASSUME NEW m \in Managers, TaxRateHook(m) \/ OpeningStockHook(m) \/ HookFails(m) \/ ImportReport(m) \/ StopRequest(m)
       PROVE  CatalogueInv'
  BY <1>10, TaxRateHookPasses, OpeningStockHookPasses, HookFailsPasses, ImportReportPasses, StopRequestPasses
<1> QED BY <1>1, <1>2, <1>3, <1>4, <1>5, <1>6, <1>7, <1>8, <1>9, <1>10 DEF CatalogueNext

\* And so does none.
LEMMA CatalogueStutters ==
    ASSUME CatalogueInv, UNCHANGED catalogueVars
    PROVE  CatalogueInv'
<1> QED BY DEF CatalogueInv, catalogueVars

\* What it says of a state.
LEMMA CatalogueFollows == ASSUME CatalogueInv PROVE CatalogueIsSound
<1>1. /\ ShelfFine(product, units) /\ Referred(product, lists, priced, used, shown, everPriced, told)
      /\ CallsFine(product, lists, manager) /\ PricesKept(product, priced, everPriced, excused, manager)
      /\ OneByOneSheets(product, lists, manager, overlap) /\ Stocked(product, stock, everPriced, told, manager)
  BY DEF CatalogueInv, Whole
<1>2. Priced = PricedIn(priced) /\ Ids = DOMAIN product
  BY DEF Priced, PricedIn, Ids
<1>3. CatalogueTypeOK
  <2>1. \A m \in Managers : manager[m].op \in {"none", "delete", "import", "ensure"}
    <3> SUFFICES ASSUME NEW m \in Managers PROVE manager[m].op \in {"none", "delete", "import", "ensure"}
      OBVIOUS
    <3>1. PICK c : c = manager[m]
      OBVIOUS
    <3>2. PlaceFine(c, product, lists)
      BY <1>1, <3>1 DEF CallsFine, CallFine
    <3>3. Free.op = "none"
      BY DEF Free
    <3> QED BY <3>1, <3>2, <3>3 DEF PlaceFine
  <2>2. \A i \in Ids : /\ product[i].status \in {"ACTIVE", "INACTIVE", "GONE"}
                       /\ product[i].name \in Names /\ product[i].unit \in Units
                       /\ product[i].barcode # Empty => product[i].variant
    BY <1>1, <1>2 DEF ShelfFine, ProductFine
  <2> QED BY <1>1, <1>2, <2>1, <2>2 DEF CatalogueTypeOK, ShelfFine, Referred
<1>4. DeletedOrWhole
  <2> SUFFICES ASSUME NEW i \in everPriced, i \notin Deleting \cup excused
               PROVE  IF Kept(i) THEN i \in Priced ELSE i \notin Priced \cup used \cup shown
    BY DEF DeletedOrWhole
  <2>1. i \in DOMAIN product
    BY <1>1 DEF Referred
  <2>2. CASE ~Kept(i)
    BY <1>1, <1>2, <2>1, <2>2 DEF Kept, Referred
  <2>3. CASE Kept(i)
    <3>1. \/ i \in PricedIn(priced) \/ \E m \in Managers : manager[m].at = "remove" /\ Head(manager[m].ids) = i
      BY <1>1, <2>3 DEF PricesKept, Kept
    <3>2. ASSUME NEW m \in Managers, manager[m].at = "remove", Head(manager[m].ids) = i PROVE FALSE
      <4>1. manager[m].op = "delete"
        BY <3>2, WhoDeletes
      <4> QED BY <3>2, <4>1 DEF Deleting, Target
    <3> QED BY <1>2, <2>3, <3>1, <3>2
  <2> QED BY <2>2, <2>3
<1>5. ImportedOnce
  <2>1. PICK imported : imported = {i \in Living : product[i].row # Empty}
    OBVIOUS
  <2>2. \A i \in imported : i \in DOMAIN product /\ Imported(product, i)
    BY <2>1 DEF Living, Kept, Ids, Imported
  <2>3. overlap \/ \A i, j \in imported : product[i].name = product[j].name => i = j
    BY <1>1, <2>2 DEF OneByOneSheets
  <2>4. \A i \in imported : product[i].variant /\ stock[i] \in {0, product[i].row.stock}
    BY <1>1, <2>2 DEF ShelfFine, ProductFine, Imported, Stocked
  <2>5. overlap \/ Cardinality({l \in DOMAIN lists : lists[l].onDemand}) <= 1
    <3>1. PICK L : L = {l \in DOMAIN lists : lists[l].onDemand}
      OBVIOUS
    <3>2. overlap \/ \A k, l \in L : k = l
      BY <1>1, <3>1 DEF OneByOneSheets
    <3>3. CASE L = {}
      BY <3>1, <3>3, FS_EmptySet
    <3>4. ASSUME L # {}, ~overlap PROVE Cardinality(L) <= 1
      <4>1. PICK l : L = {l}
        BY <3>2, <3>4
      <4> QED BY <4>1, FS_Singleton
    <3> QED BY <3>1, <3>3, <3>4
  <2> QED BY <2>1, <2>3, <2>4, <2>5 DEF ImportedOnce
<1>6. ReportIsTrue
  BY <1>1 DEF ReportIsTrue, Stocked
<1> QED BY <1>3, <1>4, <1>5, <1>6 DEF CatalogueIsSound, ImportHolds

\* The catalogue stays sound however requests of any number interleave, stop or fail: a
\* product that was given a price keeps one or is deleted with all that referred to it,
\* an imported row makes one whole product with one opening stock, and what the report
\* calls done is there (DeleteProductsIfUnused, ImportProducts, EnsureDefaultPriceList).
THEOREM CatalogueStays == CatalogueSpec => []CatalogueIsSound
<1>1. CatalogueInit => CatalogueInv
  BY CatalogueStarts
<1>2. CatalogueInv /\ [CatalogueNext]_catalogueVars => CatalogueInv'
  BY CatalogueAssumption, CatalogueSteps, CatalogueStutters
<1>3. CatalogueInv => CatalogueIsSound
  BY CatalogueFollows
<1> QED BY <1>1, <1>2, <1>3, PTL DEF CatalogueSpec
=============================================================================

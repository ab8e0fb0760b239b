----------------------------- MODULE BooksProofs -----------------------------
(***************************************************************************)
(* Theorems about Books and Collections, for every set of requests,        *)
(* invoices, references, days and periods and every bound: receipts and    *)
(* journals go together, a reference books its money once, and what comes  *)
(* through a payment link or a direct debit is booked once and kept.  And  *)
(* about Ageing, for every ledger.                                         *)
(***************************************************************************)
EXTENDS Collections, Ageing, SumsProofs

(* Books *)

Receiving == {"receipt", "link", "debit"}

\* A request knows its invoice and, before it posts, has the lines of its receipt or
\* payment, dated no later than today; the receipt it is answered with is the one it
\* asked for.
SoundCall(r) ==
    /\ r.op \in Receiving => r.doc \in Docs
    /\ r.pc \in {"asked", "duplicate"} => r.op \in Receiving
    /\ r.pc = "posting" => r.op \in Receiving \cup {"reverse", "payment", "manual"}
    /\ r.pc \in {"capture", "claim", "asked", "posting"} => r.day \in 0..today
    /\ r.pc = "posting" /\ r.op \in Receiving => r.lines = ReceiptLines(r)
    /\ r.pc = "posting" /\ r.op = "payment" => r.lines = PaymentLines(r)
    /\ r.op = "reverse" =>
         r.found \in 1..Len(receipts) /\ r.lines = Swapped(journals[receipts[r.found].journal].lines)
    /\ r.pc = "booked" =>
         /\ r.op \in Receiving /\ r.found \in 1..Len(receipts)
         /\ receipts[r.found].doc = r.doc /\ receipts[r.found].amount = r.amount
         /\ receipts[r.found].ref = r.ref

UniqueRefs ==
    \A i, k \in 1..Len(receipts) : receipts[i].ref # None /\ receipts[i].ref = receipts[k].ref => i = k

BooksInv ==
    /\ BooksTypeOK /\ ReceiptsMatchJournals /\ UniqueRefs
    /\ \A c \in Calls : SoundCall(call[c])

\* Journals and receipts are kept and time goes on; of a receipt only the reversal changes.
Grown ==
    /\ today \in Nat /\ today' \in Nat /\ today' >= today
    /\ Len(receipts) \in Nat /\ Len(journals) \in Nat
    /\ Len(receipts') \in Nat /\ Len(receipts') >= Len(receipts)
    /\ Len(journals') \in Nat /\ Len(journals') >= Len(journals)
    /\ \A j \in 1..Len(journals) : journals'[j] = journals[j]
    /\ \A i \in 1..Len(receipts) :
          /\ receipts[i].journal \in 1..Len(journals)
          /\ receipts'[i].doc = receipts[i].doc /\ receipts'[i].amount = receipts[i].amount
          /\ receipts'[i].ref = receipts[i].ref /\ receipts'[i].journal = receipts[i].journal

LEMMA IdleIsCall == Idle \in Call /\ SoundCall(Idle)
<1>1. (CHOOSE d \in Days : TRUE) \in Days
  BY DaysAssumption
<1>2. <<>> \in Seq(Line)
  OBVIOUS
<1> QED BY <1>1, <1>2 DEF Idle, Call, SoundCall, Receiving

\* What a request has read stays so while journals and receipts grow.
LEMMA SoundStays ==
    ASSUME Grown, NEW r, SoundCall(r)
    PROVE  SoundCall(r)'
<1>1. CASE r.op = "reverse"
  <2>1. r.found \in 1..Len(receipts) /\ r.lines = Swapped(journals[receipts[r.found].journal].lines)
    BY <1>1 DEF SoundCall
  <2>2. r.found \in 1..Len(receipts') /\ receipts'[r.found].journal = receipts[r.found].journal
    BY <2>1 DEF Grown
  <2>3. journals'[receipts[r.found].journal] = journals[receipts[r.found].journal]
    BY <2>1 DEF Grown
  <2>4. r.lines = Swapped(journals'[receipts'[r.found].journal].lines)
    BY <2>1, <2>2, <2>3
  <2>5. r.pc \in {"capture", "claim", "asked", "posting"} => r.day \in 0..today'
    BY DEF SoundCall, Grown
  <2> QED BY <1>1, <2>2, <2>4, <2>5 DEF SoundCall, Receiving, ReceiptLines, PaymentLines
<1>2. CASE r.op # "reverse"
  <2>0. r.pc \in {"capture", "claim", "asked", "posting"} => r.day \in 0..today'
    BY DEF SoundCall, Grown
  <2>1. r.pc = "booked" => r.found \in 1..Len(receipts') /\ receipts'[r.found].doc = r.doc
                           /\ receipts'[r.found].amount = r.amount /\ receipts'[r.found].ref = r.ref
    BY <1>2 DEF SoundCall, Grown
  <2> QED BY <1>2, <2>0, <2>1 DEF SoundCall, ReceiptLines, PaymentLines
<1> QED BY <1>1, <1>2

\* One request moves on, the others are as sound as they were.
LEMMA OneCallMoves ==
    ASSUME BooksInv, Grown, NEW c \in Calls, NEW r \in Call, Becomes(c, r), SoundCall(r)'
    PROVE  call' \in [Calls -> Call] /\ \A o \in Calls : SoundCall(call[o])'
<1>1. call \in [Calls -> Call] /\ call' = [call EXCEPT ![c] = r]
  BY DEF BooksInv, BooksTypeOK, Becomes
<1>2. call' \in [Calls -> Call] /\ call'[c] = r /\ \A o \in Calls : o # c => call'[o] = call[o]
  BY <1>1
<1>3. ASSUME NEW o \in Calls PROVE SoundCall(call[o])'
  <2>1. PICK a : a = call[o]
    OBVIOUS
  <2>2. PICK b : b = call'[o]
    OBVIOUS
  <2>3. CASE o = c
    <3>1. b = r
      BY <1>2, <2>2, <2>3
    <3>2. call'[o] = r
      BY <2>2, <3>1
    <3> QED BY <3>2 DEF SoundCall, ReceiptLines
  <2>4. CASE o # c
    <3>1. SoundCall(a)
      BY <2>1 DEF BooksInv
    <3>2. SoundCall(a)'
      BY <3>1, SoundStays
    <3>3. call'[o] = a
      BY <1>2, <2>1, <2>4
    <3> QED BY <3>2, <3>3 DEF SoundCall, ReceiptLines
  <2> QED BY <2>3, <2>4
<1> QED BY <1>2, <1>3

\* Nothing stored changes: receipts and journals stay as they are.
LEMMA NothingStored == BooksInv /\ UNCHANGED booksRest => Grown
<1> SUFFICES ASSUME BooksInv, UNCHANGED booksRest PROVE Grown
  OBVIOUS
<1>1. Len(receipts) \in Nat /\ Len(journals) \in Nat
  BY LenProperties DEF BooksInv, BooksTypeOK
<1>2. today \in Nat /\ today' = today
  BY DaysAssumption DEF BooksInv, BooksTypeOK, booksRest
<1> QED BY <1>1, <1>2 DEF BooksInv, ReceiptsMatchJournals, Grown, booksRest

\* A request reads or is refused.
LEMMA CallMoves ==
    ASSUME BooksInv, UNCHANGED booksRest, NEW c \in Calls, NEW r \in Call, Becomes(c, r), SoundCall(r)
    PROVE  BooksInv' /\ Grown
<1>1. Grown
  BY NothingStored
<1>2. SoundCall(r)'
  BY <1>1, SoundStays
<1>3. call' \in [Calls -> Call] /\ \A o \in Calls : SoundCall(call[o])'
  BY <1>1, <1>2, OneCallMoves
<1>4. BooksTypeOK' /\ ReceiptsMatchJournals' /\ UniqueRefs'
  BY <1>3 DEF BooksInv, BooksTypeOK, ReceiptsMatchJournals, UniqueRefs, booksRest
<1> QED BY <1>1, <1>3, <1>4 DEF BooksInv

LEMMA EndsKeeps ==
    ASSUME BooksInv, UNCHANGED booksRest, NEW c \in Calls, Ends(c)
    PROVE  BooksInv' /\ Grown
BY IdleIsCall, CallMoves DEF Ends

\* A refused link goes on, any other request ends.
LEMMA RefuseKeeps ==
    ASSUME BooksInv, UNCHANGED booksRest, NEW c \in Calls, Refuse(c)
    PROVE  BooksInv' /\ Grown
<1>1. CASE call[c].op = "link"
  <2>1. PICK r : r = [call[c] EXCEPT !.pc = "refused"]
    OBVIOUS
  <2>2. call[c] \in Call /\ SoundCall(call[c])
    BY DEF BooksInv, BooksTypeOK
  <2>3. r \in Call /\ r.op = "link" /\ r.pc = "refused" /\ r.doc = call[c].doc
    BY <1>1, <2>1, <2>2 DEF Call
  <2>4. SoundCall(r)
    BY <1>1, <2>2, <2>3 DEF SoundCall, Receiving
  <2>5. Becomes(c, r)
    BY <1>1, <2>1 DEF Refuse, Goes, Becomes
  <2> QED BY <2>3, <2>4, <2>5, CallMoves
<1>2. CASE call[c].op # "link"
  BY <1>2, EndsKeeps DEF Refuse
<1> QED BY <1>1, <1>2

\* PostTx is asked with the lines of what is to be booked.
LEMMA TryPostKeeps ==
    ASSUME BooksInv, UNCHANGED booksRest, NEW c \in Calls, NEW r \in Call, TryPost(c, r),
           r.op \in Receiving \cup {"reverse", "payment", "manual"},
           r.op \in Receiving => r.doc \in Docs /\ r.lines = ReceiptLines(r),
           r.op = "reverse" =>
             r.found \in 1..Len(receipts) /\ r.lines = Swapped(journals[receipts[r.found].journal].lines),
           r.op = "payment" => r.lines = PaymentLines(r),
           r.day <= today
    PROVE  BooksInv' /\ Grown
<1>1. CASE Becomes(c, [r EXCEPT !.pc = "posting"])
  <2>1. PICK q : q = [r EXCEPT !.pc = "posting"]
    OBVIOUS
  <2>2. /\ q \in Call /\ q.pc = "posting" /\ q.op = r.op /\ q.doc = r.doc /\ q.lines = r.lines
        /\ q.found = r.found /\ q.amount = r.amount /\ q.bank = r.bank /\ q.day = r.day
    BY <2>1 DEF Call
  <2>3. ReceiptLines(q) = ReceiptLines(r) /\ PaymentLines(q) = PaymentLines(r)
    BY <2>2 DEF ReceiptLines, PaymentLines
  <2>4. q.day \in 0..today
    <3>1. r.day \in Nat /\ today \in Nat
      BY DaysAssumption DEF Call, BooksInv, BooksTypeOK
    <3> QED BY <2>2, <3>1
  <2>5. SoundCall(q)
    BY <2>2, <2>3, <2>4 DEF SoundCall, Receiving
  <2> QED BY <1>1, <2>1, <2>2, <2>5, CallMoves
<1>2. CASE Refuse(c)
  BY <1>2, RefuseKeeps
<1> QED BY <1>1, <1>2 DEF TryPost

\* The answer to a reference is its receipt.
LEMMA AnswersKeeps ==
    ASSUME BooksInv, UNCHANGED booksRest, NEW c \in Calls, NEW r \in Call,
           r.op \in Receiving, r.doc \in Docs, NEW i \in ByClientRef(r.ref), Answers(c, r, i)
    PROVE  BooksInv' /\ Grown
<1>1. i \in 1..Len(receipts) /\ receipts[i].ref = r.ref /\ i \in Nat
  BY DEF ByClientRef
<1>2. CASE receipts[i].doc = r.doc /\ receipts[i].amount = r.amount
  <2>1. PICK q : q = [r EXCEPT !.pc = "booked", !.found = i]
    OBVIOUS
  <2>2. /\ q \in Call /\ q.pc = "booked" /\ q.op = r.op /\ q.doc = r.doc /\ q.found = i
        /\ q.amount = r.amount /\ q.ref = r.ref
    BY <1>1, <2>1 DEF Call
  <2>3. SoundCall(q)
    BY <1>1, <1>2, <2>2 DEF SoundCall, Receiving
  <2>4. Becomes(c, q)
    BY <1>2, <2>1 DEF Answers
  <2> QED BY <2>2, <2>3, <2>4, CallMoves
<1>3. CASE ~(receipts[i].doc = r.doc /\ receipts[i].amount = r.amount)
  BY <1>3, RefuseKeeps DEF Answers
<1> QED BY <1>2, <1>3

-----------------------------------------------------------------------------
(* Journals are posted *)

\* A journal is added, with what goes along with it: whatever is not a receipt.
LEMMA JournalAdded ==
    ASSUME BooksInv, NEW e \in Journal, journals' = Append(journals, e), UNCHANGED <<receipts, today>>,
           e.source \notin {"receipt", "receipt_reversal"}
    PROVE  journals' \in Seq(Journal) /\ ReceiptsMatchJournals' /\ UniqueRefs' /\ Grown
<1>1. /\ journals \in Seq(Journal) /\ receipts \in Seq(Receipt)
      /\ Len(receipts) \in Nat /\ Len(journals) \in Nat
  BY LenProperties DEF BooksInv, BooksTypeOK
<1>2. /\ journals' \in Seq(Journal) /\ Len(journals') = Len(journals) + 1
      /\ \A j \in 1..Len(journals) : journals'[j] = journals[j]
      /\ journals'[Len(journals) + 1] = e
  BY <1>1, AppendProperties
<1>3. Grown
  <2>1. today \in Nat
    BY DaysAssumption DEF BooksInv, BooksTypeOK
  <2> QED BY <1>1, <1>2, <2>1 DEF Grown, BooksInv, ReceiptsMatchJournals
<1>4. ReceiptsMatchJournals'
  <2>1. ASSUME NEW i \in 1..Len(receipts)
        PROVE  LET r == receipts[i] IN
               /\ r.journal \in 1..Len(journals')
               /\ journals'[r.journal].source = "receipt"
               /\ journals'[r.journal].lines[2] = Credit("receivable", r.doc, r.amount)
               /\ r.reversal # 0 =>
                    /\ r.reversal \in 1..Len(journals')
                    /\ journals'[r.reversal].source = "receipt_reversal"
                    /\ journals'[r.reversal].reverses = r.journal
                    /\ journals'[r.reversal].lines = Swapped(journals'[r.journal].lines)
    <3>1. \A j \in 1..Len(journals) : j \in 1..Len(journals') /\ journals'[j] = journals[j]
      BY <1>1, <1>2
    <3> QED BY <3>1 DEF BooksInv, ReceiptsMatchJournals
  <2>2. ASSUME NEW j \in 1..Len(journals')
        PROVE  /\ journals'[j].source = "receipt" => \E i \in 1..Len(receipts) : receipts[i].journal = j
               /\ journals'[j].source = "receipt_reversal" => \E i \in 1..Len(receipts) : receipts[i].reversal = j
    <3>1. CASE j \in 1..Len(journals)
      BY <1>2, <3>1 DEF BooksInv, ReceiptsMatchJournals
    <3>2. CASE j = Len(journals) + 1
      BY <1>2, <3>2
    <3> QED BY <1>1, <1>2, <3>1, <3>2
  <2> QED BY <2>1, <2>2 DEF ReceiptsMatchJournals
<1> QED BY <1>2, <1>3, <1>4 DEF BooksInv, UniqueRefs

\* A step keeps the books when it keeps receipts and journals in step and moves
\* one request on soundly.
LEMMA BooksKept ==
    ASSUME BooksInv, Grown, NEW c \in Calls, NEW r \in Call, Becomes(c, r), SoundCall(r)',
           journals' \in Seq(Journal), receipts' \in Seq(Receipt), payments' \in Seq(Payment),
           UNCHANGED <<chart, issued, banks, locked, today>>,
           ReceiptsMatchJournals', UniqueRefs'
    PROVE  BooksInv'
<1>1. call' \in [Calls -> Call] /\ \A o \in Calls : SoundCall(call[o])'
  BY OneCallMoves
<1> QED BY <1>1 DEF BooksInv, BooksTypeOK

\* A receipt is booked with its journal, if its reference is not taken.
LEMMA BookReceiptKeeps ==
    ASSUME BooksInv, NEW c \in Calls, BookReceipt(c)
    PROVE  /\ BooksInv' /\ Grown
           /\ \/ /\ ByClientRef(call[c].ref) # {} /\ UNCHANGED <<journals, receipts>> /\ Goes(c, "duplicate")
              \/ /\ Len(receipts') = Len(receipts) + 1
                 /\ Becomes(c, [call[c] EXCEPT !.pc = "booked", !.found = Len(receipts) + 1])
<1> PICK r : r = call[c]
  OBVIOUS
<1>1. /\ r \in Call /\ SoundCall(r) /\ r.pc = "posting" /\ r.op \in Receiving /\ r.doc \in Docs
      /\ r.lines = ReceiptLines(r)
  BY DEF BooksInv, BooksTypeOK, BookReceipt, SoundCall, Receiving
<1>2. CASE ByClientRef(r.ref) # {}
  <2>1. /\ UNCHANGED <<journals, receipts>> /\ UNCHANGED booksRest /\ Goes(c, "duplicate")
    BY <1>2 DEF BookReceipt, booksRest
  <2>2. PICK q : q = [r EXCEPT !.pc = "duplicate"]
    OBVIOUS
  <2>3. q \in Call /\ q.pc = "duplicate" /\ q.op = r.op /\ q.doc = r.doc
    BY <1>1, <2>2 DEF Call
  <2>4. SoundCall(q)
    BY <1>1, <2>3 DEF SoundCall, Receiving
  <2>5. Becomes(c, q)
    BY <2>1, <2>2 DEF Goes, Becomes
  <2> QED BY <1>2, <2>1, <2>3, <2>4, <2>5, CallMoves
<1>3. CASE ByClientRef(r.ref) = {}
  <2> DEFINE n == Len(journals) + 1
             m == Len(receipts) + 1
             e == Entry("receipt", r.day, r.lines, 0)
             row == [doc |-> r.doc, amount |-> r.amount, ref |-> r.ref, journal |-> n, reversal |-> 0]
  <2>1. /\ journals' = Append(journals, e) /\ receipts' = Append(receipts, row)
        /\ Becomes(c, [r EXCEPT !.pc = "booked", !.found = m])
        /\ UNCHANGED <<chart, issued, banks, locked, today, payments>>
    BY <1>3 DEF BookReceipt
  <2>2. /\ journals \in Seq(Journal) /\ receipts \in Seq(Receipt) /\ payments \in Seq(Payment)
        /\ Len(receipts) \in Nat /\ Len(journals) \in Nat /\ today \in Nat
    BY LenProperties, DaysAssumption DEF BooksInv, BooksTypeOK
  <2>3. e \in Journal /\ e.source = "receipt" /\ e.lines = r.lines
    BY <1>1 DEF Entry, Journal, Call, Sources
  <2>4. row \in Receipt
    BY <1>1, <2>2 DEF Receipt, Call
  <2>5. /\ journals' \in Seq(Journal) /\ Len(journals') = n
        /\ \A j \in 1..Len(journals) : journals'[j] = journals[j]
        /\ journals'[n] = e
    BY <2>1, <2>2, <2>3, AppendProperties
  <2>6. /\ receipts' \in Seq(Receipt) /\ Len(receipts') = m
        /\ \A i \in 1..Len(receipts) : receipts'[i] = receipts[i]
        /\ receipts'[m] = row
    BY <2>1, <2>2, <2>4, AppendProperties
  <2>7. e.lines[2] = Credit("receivable", row.doc, row.amount)
    BY <1>1, <2>3 DEF ReceiptLines
  <2>8. /\ row.journal = n /\ row.reversal = 0 /\ row.doc = r.doc /\ row.amount = r.amount /\ row.ref = r.ref
    OBVIOUS
  <2> HIDE DEF e, row
  <2>9. Grown
    BY <2>1, <2>2, <2>5, <2>6 DEF Grown, BooksInv, ReceiptsMatchJournals
  <2>10. ReceiptsMatchJournals'
    <3>1. \A j \in 1..Len(journals) : j \in 1..Len(journals') /\ journals'[j] = journals[j]
      BY <2>2, <2>5
    <3>2. ASSUME NEW i \in 1..Len(receipts')
          PROVE  LET q == receipts'[i] IN
                 /\ q.journal \in 1..Len(journals')
                 /\ journals'[q.journal].source = "receipt"
                 /\ journals'[q.journal].lines[2] = Credit("receivable", q.doc, q.amount)
                 /\ q.reversal # 0 =>
                      /\ q.reversal \in 1..Len(journals')
                      /\ journals'[q.reversal].source = "receipt_reversal"
                      /\ journals'[q.reversal].reverses = q.journal
                      /\ journals'[q.reversal].lines = Swapped(journals'[q.journal].lines)
      <4>1. CASE i \in 1..Len(receipts)
        <5>1. PICK q : q = receipts[i]
          OBVIOUS
        <5>2. receipts'[i] = q
          BY <2>6, <4>1, <5>1
        <5>3. /\ q.journal \in 1..Len(journals)
              /\ journals[q.journal].source = "receipt"
              /\ journals[q.journal].lines[2] = Credit("receivable", q.doc, q.amount)
              /\ q.reversal # 0 =>
                   /\ q.reversal \in 1..Len(journals)
                   /\ journals[q.reversal].source = "receipt_reversal"
                   /\ journals[q.reversal].reverses = q.journal
                   /\ journals[q.reversal].lines = Swapped(journals[q.journal].lines)
          BY <4>1, <5>1 DEF BooksInv, ReceiptsMatchJournals
        <5> QED BY <3>1, <5>2, <5>3
      <4>2. CASE i = m
        BY <2>2, <2>3, <2>5, <2>6, <2>7, <2>8, <4>2
      <4> QED BY <2>2, <2>6, <4>1, <4>2
    <3>3. ASSUME NEW j \in 1..Len(journals')
          PROVE  /\ journals'[j].source = "receipt" => \E i \in 1..Len(receipts') : receipts'[i].journal = j
                 /\ journals'[j].source = "receipt_reversal" =>
                      \E i \in 1..Len(receipts') : receipts'[i].reversal = j
      <4>0. \A i \in 1..Len(receipts) : i \in 1..Len(receipts') /\ receipts'[i] = receipts[i]
        BY <2>2, <2>6
      <4>1. CASE j \in 1..Len(journals)
        <5>1. journals'[j] = journals[j]
          BY <3>1, <4>1
        <5>2. /\ journals[j].source = "receipt" => \E i \in 1..Len(receipts) : receipts[i].journal = j
              /\ journals[j].source = "receipt_reversal" => \E i \in 1..Len(receipts) : receipts[i].reversal = j
          BY <4>1 DEF BooksInv, ReceiptsMatchJournals
        <5>3. /\ (\E i \in 1..Len(receipts) : receipts[i].journal = j) =>
                   \E i \in 1..Len(receipts') : receipts'[i].journal = j
              /\ (\E i \in 1..Len(receipts) : receipts[i].reversal = j) =>
                   \E i \in 1..Len(receipts') : receipts'[i].reversal = j
          BY <4>0
        <5> QED BY <5>1, <5>2, <5>3
      <4>2. CASE j = n
        <5>1. m \in 1..Len(receipts') /\ receipts'[m].journal = j
          BY <2>2, <2>6, <2>8, <4>2
        <5>2. journals'[j].source = "receipt"
          BY <2>3, <2>5, <4>2
        <5> QED BY <5>1, <5>2
      <4>3. j \in 1..Len(journals) \/ j = n
        BY <2>2, <2>5
      <4> QED BY <4>1, <4>2, <4>3
    <3> QED BY <3>2, <3>3 DEF ReceiptsMatchJournals
  <2>11. UniqueRefs'
    <3>1. \A i \in 1..Len(receipts) : r.ref = None \/ receipts[i].ref # r.ref
      BY <1>3 DEF ByClientRef
    <3>2. ASSUME NEW i \in 1..Len(receipts'), NEW k \in 1..Len(receipts'),
                 receipts'[i].ref # None, receipts'[i].ref = receipts'[k].ref
          PROVE  i = k
      <4>1. \A h \in 1..Len(receipts') : h = m \/ (h \in 1..Len(receipts) /\ receipts'[h] = receipts[h])
        BY <2>2, <2>6
      <4> QED BY <2>6, <2>8, <3>1, <3>2, <4>1 DEF BooksInv, UniqueRefs
    <3> QED BY <3>2 DEF UniqueRefs
  <2>12. PICK q : q = [r EXCEPT !.pc = "booked", !.found = m]
    OBVIOUS
  <2>13. /\ q \in Call /\ q.pc = "booked" /\ q.found = m /\ q.op = r.op /\ q.doc = r.doc
         /\ q.amount = r.amount /\ q.ref = r.ref
    <3>1. m \in Nat
      BY <2>2
    <3> HIDE DEF m
    <3> QED BY <1>1, <2>12, <3>1 DEF Call
  <2>14. SoundCall(q)'
    BY <1>1, <2>2, <2>6, <2>8, <2>13 DEF SoundCall, Receiving
  <2>15. BooksInv'
    BY <2>1, <2>2, <2>5, <2>6, <2>9, <2>10, <2>11, <2>12, <2>13, <2>14, BooksKept
  <2> QED BY <2>1, <2>6, <2>9, <2>15
<1> QED BY <1>2, <1>3

\* A receipt is reversed once, with a journal of its lines exchanged.
LEMMA MarkReversedKeeps ==
    ASSUME BooksInv, NEW c \in Calls, MarkReversed(c)
    PROVE  BooksInv' /\ Grown /\ Len(receipts') = Len(receipts)
<1> PICK r : r = call[c]
  OBVIOUS
<1> DEFINE f == r.found
<1>1. /\ r \in Call /\ r.op = "reverse" /\ f \in 1..Len(receipts)
      /\ r.lines = Swapped(journals[receipts[f].journal].lines)
  BY DEF BooksInv, BooksTypeOK, MarkReversed, SoundCall
<1>2. CASE receipts[f].reversal # 0
  BY <1>2, RefuseKeeps DEF MarkReversed, booksRest
<1>3. CASE receipts[f].reversal = 0
  <2> DEFINE n == Len(journals) + 1
             e == Entry("receipt_reversal", r.day, r.lines, receipts[f].journal)
  <2>1. /\ journals' = Append(journals, e) /\ receipts' = [receipts EXCEPT ![f].reversal = n]
        /\ Ends(c) /\ UNCHANGED <<chart, issued, banks, locked, today, payments>>
    BY <1>3 DEF MarkReversed
  <2>2. /\ journals \in Seq(Journal) /\ receipts \in Seq(Receipt) /\ payments \in Seq(Payment)
        /\ Len(receipts) \in Nat /\ Len(journals) \in Nat /\ today \in Nat
        /\ \A i \in 1..Len(receipts) : receipts[i] \in Receipt /\ receipts[i].journal \in 1..Len(journals)
    BY LenProperties, ElementOfSeq, DaysAssumption DEF BooksInv, BooksTypeOK, ReceiptsMatchJournals
  <2>3. /\ e \in Journal /\ e.source = "receipt_reversal" /\ e.lines = r.lines
        /\ e.reverses = receipts[f].journal
    BY <1>1, <2>2 DEF Entry, Journal, Call, Sources, Receipt
  <2>4. PICK row : row = [receipts[f] EXCEPT !.reversal = n]
    OBVIOUS
  <2>5. /\ row \in Receipt /\ row.reversal = n /\ row.doc = receipts[f].doc /\ row.amount = receipts[f].amount
        /\ row.ref = receipts[f].ref /\ row.journal = receipts[f].journal
    <3>1. receipts[f] \in Receipt /\ n \in Nat
      BY <1>1, <2>2
    <3>2. PICK g : g = receipts[f]
      OBVIOUS
    <3> HIDE DEF n
    <3>3. g \in Receipt /\ row = [g EXCEPT !.reversal = n]
      BY <2>4, <3>1, <3>2
    <3> QED BY <3>1, <3>2, <3>3 DEF Receipt
  <2>6. /\ journals' \in Seq(Journal) /\ Len(journals') = n
        /\ \A j \in 1..Len(journals) : journals'[j] = journals[j]
        /\ journals'[n] = e
    BY <2>1, <2>2, <2>3, AppendProperties
  <2>7. /\ receipts' \in Seq(Receipt) /\ Len(receipts') = Len(receipts)
        /\ \A i \in 1..Len(receipts) : i # f => receipts'[i] = receipts[i]
        /\ receipts'[f] = row
    <3>1. receipts' = [receipts EXCEPT ![f] = row]
      BY <2>1, <2>4
    <3> HIDE DEF f
    <3> QED BY <1>1, <2>2, <2>5, <3>1, ExceptSeq
  <2> HIDE DEF e, f
  <2>8. Grown
    BY <1>1, <2>1, <2>2, <2>5, <2>6, <2>7 DEF Grown
  <2>9. \A j \in 1..Len(journals) : j \in 1..Len(journals') /\ journals'[j] = journals[j]
    BY <2>2, <2>6
  <2>10. ReceiptsMatchJournals'
    <3>1. ASSUME NEW i \in 1..Len(receipts')
          PROVE  LET q == receipts'[i] IN
                 /\ q.journal \in 1..Len(journals')
                 /\ journals'[q.journal].source = "receipt"
                 /\ journals'[q.journal].lines[2] = Credit("receivable", q.doc, q.amount)
                 /\ q.reversal # 0 =>
                      /\ q.reversal \in 1..Len(journals')
                      /\ journals'[q.reversal].source = "receipt_reversal"
                      /\ journals'[q.reversal].reverses = q.journal
                      /\ journals'[q.reversal].lines = Swapped(journals'[q.journal].lines)
      <4>1. PICK q : q = receipts[i]
        OBVIOUS
      <4>2. /\ q.journal \in 1..Len(journals)
            /\ journals[q.journal].source = "receipt"
            /\ journals[q.journal].lines[2] = Credit("receivable", q.doc, q.amount)
            /\ q.reversal # 0 =>
                 /\ q.reversal \in 1..Len(journals)
                 /\ journals[q.reversal].source = "receipt_reversal"
                 /\ journals[q.reversal].reverses = q.journal
                 /\ journals[q.reversal].lines = Swapped(journals[q.journal].lines)
        BY <2>7, <4>1 DEF BooksInv, ReceiptsMatchJournals
      <4>3. CASE i # f
        <5>1. receipts'[i] = q
          BY <2>7, <4>1, <4>3
        <5> QED BY <2>9, <4>2, <5>1
      <4>4. CASE i = f
        <5>1. /\ receipts'[i] = row /\ row.doc = q.doc /\ row.amount = q.amount /\ row.journal = q.journal
              /\ journals'[q.journal] = journals[q.journal]
          BY <2>5, <2>7, <2>9, <4>1, <4>2, <4>4
        <5>2. n \in 1..Len(journals') /\ row.reversal = n /\ journals'[n] = e
          BY <2>2, <2>5, <2>6
        <5>3. e.source = "receipt_reversal" /\ e.reverses = q.journal /\ e.lines = Swapped(journals[q.journal].lines)
          BY <1>1, <2>3, <4>1, <4>4
        <5>4. q.journal \in 1..Len(journals')
          BY <2>9, <4>2
        <5> QED BY <4>2, <5>1, <5>2, <5>3, <5>4
      <4> QED BY <4>3, <4>4
    <3>2. ASSUME NEW j \in 1..Len(journals')
          PROVE  /\ journals'[j].source = "receipt" => \E i \in 1..Len(receipts') : receipts'[i].journal = j
                 /\ journals'[j].source = "receipt_reversal" =>
                      \E i \in 1..Len(receipts') : receipts'[i].reversal = j
      <4>1. CASE j \in 1..Len(journals)
        <5>1. journals'[j] = journals[j]
          BY <2>9, <4>1
        <5>2. /\ journals[j].source = "receipt" => \E i \in 1..Len(receipts) : receipts[i].journal = j
              /\ journals[j].source = "receipt_reversal" => \E i \in 1..Len(receipts) : receipts[i].reversal = j
          BY <4>1 DEF BooksInv, ReceiptsMatchJournals
        <5>3. \A i \in 1..Len(receipts) : /\ i \in 1..Len(receipts')
                                          /\ receipts'[i].journal = receipts[i].journal
          BY <2>5, <2>7
        <5>4. \A i \in 1..Len(receipts) : receipts[i].reversal = j => receipts'[i].reversal = j
          <6>1. j # 0
            BY <2>2, <4>1
          <6> QED BY <1>3, <2>7, <6>1 DEF f
        <5> QED BY <5>1, <5>2, <5>3, <5>4
      <4>2. CASE j = n
        <5>1. f \in 1..Len(receipts') /\ receipts'[f].reversal = j
          BY <1>1, <2>5, <2>7, <4>2
        <5>2. journals'[j].source = "receipt_reversal"
          BY <2>3, <2>6, <4>2
        <5> QED BY <5>1, <5>2
      <4> QED BY <2>2, <2>6, <4>1, <4>2
    <3> QED BY <3>1, <3>2 DEF ReceiptsMatchJournals
  <2>11. UniqueRefs'
    <3>1. \A i \in 1..Len(receipts) : receipts'[i].ref = receipts[i].ref
      BY <2>5, <2>7
    <3> QED BY <2>7, <3>1 DEF BooksInv, UniqueRefs
  <2>12. PICK q : q = Idle
    OBVIOUS
  <2>13. q \in Call /\ SoundCall(q)' /\ Becomes(c, q)
    BY <2>1, <2>8, <2>12, IdleIsCall, SoundStays DEF Ends
  <2>14. BooksInv'
    BY <2>1, <2>2, <2>6, <2>7, <2>8, <2>10, <2>11, <2>13, BooksKept
  <2> QED BY <2>7, <2>8, <2>14
<1> QED BY <1>2, <1>3

-----------------------------------------------------------------------------
(* The other steps of a request *)

LEMMA CountAccountsKeeps ==
    ASSUME BooksInv, NEW c \in Calls, CountAccounts(c)
    PROVE  BooksInv' /\ Grown
<1>1. UNCHANGED booksRest
  BY DEF CountAccounts
<1>2. CASE chart
  BY <1>1, <1>2, EndsKeeps DEF CountAccounts
<1>3. CASE ~chart
  <2>1. PICK r : r = [Idle EXCEPT !.op = "chart", !.pc = "counted"]
    OBVIOUS
  <2>2. r \in Call /\ r.op = "chart" /\ r.pc = "counted"
    BY <2>1, IdleIsCall DEF Call
  <2>3. SoundCall(r)
    BY <2>2 DEF SoundCall, Receiving
  <2> QED BY <1>1, <1>3, <2>1, <2>2, <2>3, CallMoves DEF CountAccounts
<1> QED BY <1>2, <1>3

LEMMA ReadPeriodLockKeeps ==
    ASSUME BooksInv, NEW c \in Calls, ReadPeriodLock(c)
    PROVE  BooksInv' /\ Grown
<1>1. UNCHANGED booksRest
  BY DEF ReadPeriodLock
<1>2. PICK p \in Periods, op \in {"lock", "unlock"} :
         Ends(c) \/ Becomes(c, [Idle EXCEPT !.op = op, !.period = p, !.pc = "read"])
  <2>1. PICK p \in Periods, lock \in BOOLEAN, override \in BOOLEAN :
           \/ Ends(c)
           \/ Becomes(c, [Idle EXCEPT !.op = IF lock THEN "lock" ELSE "unlock", !.period = p, !.pc = "read"])
    BY DEF ReadPeriodLock
  <2>2. CASE lock
    BY <2>1, <2>2
  <2>3. CASE ~lock
    BY <2>1, <2>3
  <2> QED BY <2>2, <2>3
<1>3. CASE Ends(c)
  BY <1>1, <1>3, EndsKeeps
<1>4. CASE Becomes(c, [Idle EXCEPT !.op = op, !.period = p, !.pc = "read"])
  <2>1. PICK r : r = [Idle EXCEPT !.op = op, !.period = p, !.pc = "read"]
    OBVIOUS
  <2>2. r \in Call /\ r.op = op /\ r.pc = "read"
    BY <2>1, IdleIsCall DEF Call
  <2>3. SoundCall(r)
    BY <2>2 DEF SoundCall, Receiving
  <2> QED BY <1>1, <1>4, <2>1, <2>2, <2>3, CallMoves
<1> QED BY <1>2, <1>3, <1>4

\* Only a period's lock, or the chart, is written; receipts and journals stay.
LEMMA WriteKeeps ==
    ASSUME BooksInv, NEW c \in Calls, Ends(c),
           chart' \in BOOLEAN, locked' \in [Periods -> {"none", "open", "locked"}],
           UNCHANGED <<issued, banks, today, journals, receipts, payments>>
    PROVE  BooksInv' /\ Grown
<1>1. Len(receipts) \in Nat /\ Len(journals) \in Nat /\ today \in Nat
  BY LenProperties, DaysAssumption DEF BooksInv, BooksTypeOK
<1>2. Grown
  BY <1>1 DEF Grown, BooksInv, ReceiptsMatchJournals
<1>3. PICK r : r = Idle
  OBVIOUS
<1>4. r \in Call /\ SoundCall(r)' /\ Becomes(c, r)
  BY <1>2, <1>3, IdleIsCall, SoundStays DEF Ends
<1>5. call' \in [Calls -> Call] /\ \A o \in Calls : SoundCall(call[o])'
  BY <1>2, <1>4, OneCallMoves
<1> QED BY <1>2, <1>5 DEF BooksInv, BooksTypeOK, ReceiptsMatchJournals, UniqueRefs

LEMMA SeedAccountsKeeps ==
    ASSUME BooksInv, NEW c \in Calls, SeedAccounts(c)
    PROVE  BooksInv' /\ Grown
BY WriteKeeps DEF SeedAccounts, BooksInv, BooksTypeOK

LEMMA SetPeriodLockKeeps ==
    ASSUME BooksInv, NEW c \in Calls, SetPeriodLock(c)
    PROVE  BooksInv' /\ Grown
<1>1. locked' \in [Periods -> {"none", "open", "locked"}]
  BY DEF SetPeriodLock, BooksInv, BooksTypeOK
<1> QED BY <1>1, WriteKeeps DEF SetPeriodLock, BooksInv, BooksTypeOK

\* A receipt is asked for: a reference that is known is answered at once.
LEMMA AskKeeps ==
    ASSUME BooksInv, NEW c \in Calls, NEW r \in Call, r.op \in Receiving, r.doc \in Docs, r.day <= today, Ask(c, r)
    PROVE  BooksInv' /\ Grown
<1>1. UNCHANGED booksRest
  BY DEF Ask
<1>2. CASE \E i \in ByClientRef(r.ref) : Answers(c, r, i)
  BY <1>1, <1>2, AnswersKeeps
<1>3. CASE Becomes(c, [r EXCEPT !.pc = "asked"])
  <2>1. PICK q : q = [r EXCEPT !.pc = "asked"]
    OBVIOUS
  <2>2. q \in Call /\ q.op = r.op /\ q.pc = "asked" /\ q.doc = r.doc /\ q.day = r.day
    BY <2>1 DEF Call
  <2>3. q.day \in 0..today
    <3>1. r.day \in Nat /\ today \in Nat
      BY DaysAssumption DEF Call, BooksInv, BooksTypeOK
    <3> QED BY <2>2, <3>1
  <2>4. SoundCall(q)
    BY <2>2, <2>3 DEF SoundCall, Receiving
  <2> QED BY <1>1, <1>3, <2>1, <2>2, <2>4, CallMoves
<1> QED BY <1>2, <1>3 DEF Ask

LEMMA RecordReceiptKeeps ==
    ASSUME BooksInv, NEW c \in Calls, RecordReceipt(c)
    PROVE  BooksInv' /\ Grown
<1>1. PICK d \in issued, n \in Amounts, ref \in Refs \cup {None}, bank \in banks \cup {None},
           day \in {e \in Days : e <= today}, override \in BOOLEAN :
        Ask(c, [Idle EXCEPT !.op = "receipt", !.doc = d, !.amount = n, !.ref = ref,
                            !.bank = bank, !.day = day, !.override = override])
  BY DEF RecordReceipt
<1>2. d \in Docs /\ n \in Nat /\ bank \in {None, "BANK", "CASH"} /\ day \in Days
  BY AmountsAssumption DEF BooksInv, BooksTypeOK
<1>3. PICK r : r = [Idle EXCEPT !.op = "receipt", !.doc = d, !.amount = n, !.ref = ref,
                               !.bank = bank, !.day = day, !.override = override]
  OBVIOUS
<1>4. r \in Call /\ r.op = "receipt" /\ r.doc = d /\ r.day = day
  BY <1>2, <1>3, IdleIsCall DEF Call
<1> QED BY <1>1, <1>2, <1>3, <1>4, AskKeeps DEF Receiving

\* The lines of a receipt or a payment.
LEMMA LinesTyped ==
    ASSUME NEW r, r.amount \in Nat, r.doc \in Docs \cup {None}
    PROVE  ReceiptLines(r) \in Seq(Line) /\ PaymentLines(r) \in Seq(Line)
<1>1. \A p \in Docs \cup {None}, a \in Accounts : Debit(a, p, r.amount) \in Line /\ Credit(a, p, r.amount) \in Line
  BY DEF Debit, Credit, Line
<1>2. Through(r.bank) \in Accounts /\ "receivable" \in Accounts /\ "payable" \in Accounts
  BY DEF Through, Accounts
<1>3. /\ Debit(Through(r.bank), None, r.amount) \in Line /\ Credit("receivable", r.doc, r.amount) \in Line
      /\ Debit("payable", None, r.amount) \in Line /\ Credit(Through(r.bank), None, r.amount) \in Line
  BY <1>1, <1>2
<1> QED BY <1>3 DEF ReceiptLines, PaymentLines

LEMMA PostReceiptKeeps ==
    ASSUME BooksInv, NEW c \in Calls, PostReceipt(c)
    PROVE  BooksInv' /\ Grown
<1>1. PICK k : k = call[c]
  OBVIOUS
<1>2. k \in Call /\ k.op \in Receiving /\ k.doc \in Docs /\ k.day \in 0..today /\ today \in Nat
  BY <1>1, DaysAssumption DEF BooksInv, BooksTypeOK, PostReceipt, SoundCall
<1>3. PICK r : r = [k EXCEPT !.lines = ReceiptLines(k)]
  OBVIOUS
<1>4. ReceiptLines(k) \in Seq(Line)
  BY <1>2, LinesTyped DEF Call
<1>5. /\ r \in Call /\ r.op = k.op /\ r.doc = k.doc /\ r.lines = ReceiptLines(k)
      /\ r.amount = k.amount /\ r.bank = k.bank /\ r.day = k.day
  BY <1>2, <1>3, <1>4 DEF Call
<1>6. r.lines = ReceiptLines(r)
  BY <1>5 DEF ReceiptLines
<1>7. TryPost(c, r) /\ UNCHANGED booksRest
  BY <1>1, <1>3 DEF PostReceipt
<1>8. r.op # "reverse" /\ r.op # "payment" /\ r.day <= today
  BY <1>2, <1>5 DEF Receiving
<1> QED BY <1>2, <1>5, <1>6, <1>7, <1>8, TryPostKeeps

LEMMA ReadWinnerKeeps ==
    ASSUME BooksInv, NEW c \in Calls, ReadWinner(c)
    PROVE  BooksInv' /\ Grown
<1>1. call[c] \in Call /\ call[c].op \in Receiving /\ call[c].doc \in Docs
  BY DEF BooksInv, BooksTypeOK, ReadWinner, SoundCall
<1>2. PICK r : r = call[c]
  OBVIOUS
<1>3. UNCHANGED booksRest /\ \E i \in ByClientRef(r.ref) : Answers(c, r, i)
  BY <1>2 DEF ReadWinner
<1> QED BY <1>1, <1>2, <1>3, AnswersKeeps

LEMMA SwappedTyped == ASSUME NEW lines \in Seq(Line) PROVE Swapped(lines) \in Seq(Line)
<1>1. Len(lines) \in Nat /\ \A i \in 1..Len(lines) : lines[i] \in Line
  BY LenProperties, ElementOfSeq
<1>2. \A l \in Line : [l EXCEPT !.debit = l.credit, !.credit = l.debit] \in Line
  BY DEF Line
<1>3. Swapped(lines) \in [1..Len(lines) -> Line]
  BY <1>1, <1>2 DEF Swapped
<1> QED BY <1>1, <1>3

LEMMA ReverseReceiptKeeps ==
    ASSUME BooksInv, NEW c \in Calls, ReverseReceipt(c)
    PROVE  BooksInv' /\ Grown
<1>1. PICK i \in 1..Len(receipts), override \in BOOLEAN :
         /\ UNCHANGED booksRest
         /\ \/ Refuse(c)
            \/ TryPost(c, [Idle EXCEPT !.op = "reverse", !.found = i, !.day = today, !.override = override,
                                       !.lines = Swapped(journals[receipts[i].journal].lines)])
  BY DEF ReverseReceipt
<1>2. CASE Refuse(c)
  BY <1>1, <1>2, RefuseKeeps
<1>3. CASE ~Refuse(c)
  <2> DEFINE lines == Swapped(journals[receipts[i].journal].lines)
  <2>1. receipts[i].journal \in 1..Len(journals) /\ journals \in Seq(Journal) /\ today \in Days /\ i \in Nat
    BY DEF BooksInv, BooksTypeOK, ReceiptsMatchJournals
  <2>2. journals[receipts[i].journal] \in Journal
    BY <2>1, ElementOfSeq
  <2>3. lines \in Seq(Line)
    BY <2>2, SwappedTyped DEF Journal
  <2>4. PICK r : r = [Idle EXCEPT !.op = "reverse", !.found = i, !.day = today, !.override = override,
                                  !.lines = lines]
    OBVIOUS
  <2>5. TryPost(c, r)
    BY <1>1, <1>3, <2>4
  <2> HIDE DEF lines
  <2>6. r \in Call /\ r.op = "reverse" /\ r.found = i /\ r.lines = lines /\ r.day = today
    BY <2>1, <2>3, <2>4, IdleIsCall DEF Call
  <2>7. r.day <= today
    BY <2>1, <2>6, DaysAssumption
  <2> QED BY <1>1, <2>5, <2>6, <2>7, TryPostKeeps DEF Receiving, lines
<1> QED BY <1>2, <1>3

LEMMA RecordPaymentKeeps ==
    ASSUME BooksInv, NEW c \in Calls, RecordPayment(c)
    PROVE  BooksInv' /\ Grown
<1>1. PICK n \in Amounts, bank \in banks \cup {None}, day \in {e \in Days : e <= today}, override \in BOOLEAN :
        LET k == [Idle EXCEPT !.op = "payment", !.amount = n, !.bank = bank, !.day = day, !.override = override] IN
        TryPost(c, [k EXCEPT !.lines = PaymentLines(k)]) /\ UNCHANGED booksRest
  BY DEF RecordPayment
<1>2. n \in Nat /\ bank \in {None, "BANK", "CASH"} /\ day \in Days
  BY AmountsAssumption DEF BooksInv, BooksTypeOK
<1>3. PICK k : k = [Idle EXCEPT !.op = "payment", !.amount = n, !.bank = bank, !.day = day,
                               !.override = override]
  OBVIOUS
<1>4. k \in Call /\ k.op = "payment" /\ k.day = day
  BY <1>2, <1>3, IdleIsCall DEF Call
<1>5. PICK lines : lines = PaymentLines(k)
  OBVIOUS
<1>6. lines \in Seq(Line)
  BY <1>4, <1>5, LinesTyped DEF Call
<1>7. PICK r : r = [k EXCEPT !.lines = lines]
  OBVIOUS
<1>8. r \in Call /\ r.op = "payment" /\ r.lines = PaymentLines(r) /\ r.day = day
  BY <1>4, <1>5, <1>6, <1>7 DEF Call, PaymentLines
<1>9. TryPost(c, r) /\ UNCHANGED booksRest
  BY <1>1, <1>3, <1>5, <1>7
<1> QED BY <1>8, <1>9, TryPostKeeps DEF Receiving

LEMMA PostKeeps ==
    ASSUME BooksInv, NEW c \in Calls, Post(c)
    PROVE  BooksInv' /\ Grown
<1>1. PICK lines \in Entries, day \in {e \in Days : e <= today}, override \in BOOLEAN :
         /\ TryPost(c, [Idle EXCEPT !.op = "manual", !.lines = lines, !.day = day, !.override = override])
         /\ UNCHANGED booksRest
  BY DEF Post
<1>2. lines \in Seq(Line) /\ day \in Days
  BY EntriesAssumption
<1>3. PICK r : r = [Idle EXCEPT !.op = "manual", !.lines = lines, !.day = day, !.override = override]
  OBVIOUS
<1>4. r \in Call /\ r.op = "manual" /\ r.day = day
  BY <1>2, <1>3, IdleIsCall DEF Call
<1>5. TryPost(c, r) /\ UNCHANGED booksRest
  BY <1>1, <1>3
<1> QED BY <1>4, <1>5, TryPostKeeps DEF Receiving

\* A payment's journal, or one entered by hand, is committed and the request ends.
LEMMA EntryKeeps ==
    ASSUME BooksInv, NEW c \in Calls, NEW source \in {"payment", "manual"},
           journals' = Append(journals, Entry(source, call[c].day, call[c].lines, 0)),
           Ends(c), payments' \in Seq(Payment),
           UNCHANGED <<chart, issued, banks, locked, today, receipts>>
    PROVE  BooksInv' /\ Grown
<1>1. PICK e : e = Entry(source, call[c].day, call[c].lines, 0)
  OBVIOUS
<1>2. call[c] \in Call /\ receipts \in Seq(Receipt)
  BY DEF BooksInv, BooksTypeOK
<1>3. e \in Journal /\ e.source \notin {"receipt", "receipt_reversal"}
  BY <1>1, <1>2 DEF Entry, Journal, Call, Sources
<1>4. journals' \in Seq(Journal) /\ ReceiptsMatchJournals' /\ UniqueRefs' /\ Grown
  BY <1>1, <1>3, JournalAdded
<1>5. PICK r : r = Idle
  OBVIOUS
<1>6. r \in Call /\ SoundCall(r)' /\ Becomes(c, r)
  BY <1>4, <1>5, IdleIsCall, SoundStays DEF Ends
<1>7. BooksInv'
  BY <1>2, <1>4, <1>6, BooksKept
<1> QED BY <1>4, <1>7

LEMMA BookPaymentKeeps ==
    ASSUME BooksInv, NEW c \in Calls, BookPayment(c)
    PROVE  BooksInv' /\ Grown
<1>1. call[c] \in Call /\ payments \in Seq(Payment) /\ Len(journals) \in Nat
  BY LenProperties DEF BooksInv, BooksTypeOK
<1>2. [amount |-> call[c].amount, journal |-> Len(journals) + 1] \in Payment
  BY <1>1 DEF Payment, Call
<1>3. payments' \in Seq(Payment)
  BY <1>1, <1>2, AppendProperties DEF BookPayment
<1> QED BY <1>3, EntryKeeps DEF BookPayment

LEMMA BookEntryKeeps ==
    ASSUME BooksInv, NEW c \in Calls, BookEntry(c)
    PROVE  BooksInv' /\ Grown
BY EntryKeeps DEF BookEntry, BooksInv, BooksTypeOK

\* What is not a request: an invoice's sale, a bank account, a period, a day.
LEMMA EventsKeep ==
    ASSUME BooksInv, BooksEvents
    PROVE  BooksInv' /\ Grown /\ UNCHANGED <<call, receipts>>
<1>1. /\ Len(receipts) \in Nat /\ Len(journals) \in Nat /\ receipts \in Seq(Receipt) /\ journals \in Seq(Journal)
      /\ today \in Nat
  BY LenProperties, DaysAssumption DEF BooksInv, BooksTypeOK
<1>2. ASSUME Grown, ReceiptsMatchJournals', UniqueRefs', UNCHANGED call, journals' \in Seq(Journal),
             UNCHANGED <<receipts, payments>>,
             chart' \in BOOLEAN, issued' \in SUBSET Docs, banks' \in SUBSET {"BANK", "CASH"}, today' \in Days,
             locked' \in [Periods -> {"none", "open", "locked"}]
      PROVE  BooksInv' /\ Grown /\ UNCHANGED <<call, receipts>>
  <2>1. ASSUME NEW o \in Calls PROVE SoundCall(call[o])'
    <3>1. PICK a : a = call[o]
      OBVIOUS
    <3>2. SoundCall(a)
      BY <3>1 DEF BooksInv
    <3>3. SoundCall(a)'
      BY <1>2, <3>2, SoundStays
    <3>4. call'[o] = a
      BY <1>2, <3>1
    <3> QED BY <3>3, <3>4 DEF SoundCall, ReceiptLines
  <2> QED BY <1>2, <2>1 DEF BooksInv, BooksTypeOK
<1>3. ASSUME NEW kind \in BankKinds, CreateBankAccount(kind)
      PROVE  BooksInv' /\ Grown /\ UNCHANGED <<call, receipts>>
  <2>1. Grown /\ ReceiptsMatchJournals' /\ UniqueRefs'
    BY <1>1, <1>3 DEF CreateBankAccount, Grown, BooksInv, ReceiptsMatchJournals, UniqueRefs
  <2>2. banks' \in SUBSET {"BANK", "CASH"}
    BY <1>3, BoundAssumption DEF CreateBankAccount, BooksInv, BooksTypeOK
  <2> QED BY <1>1, <1>2, <1>3, <2>1, <2>2 DEF CreateBankAccount, BooksInv, BooksTypeOK
<1>4. ASSUME NEW p \in Periods, CreateFiscalPeriod(p)
      PROVE  BooksInv' /\ Grown /\ UNCHANGED <<call, receipts>>
  <2>1. Grown /\ ReceiptsMatchJournals' /\ UniqueRefs'
    BY <1>1, <1>4 DEF CreateFiscalPeriod, Grown, BooksInv, ReceiptsMatchJournals, UniqueRefs
  <2>2. locked' \in [Periods -> {"none", "open", "locked"}]
    BY <1>4 DEF CreateFiscalPeriod, BooksInv, BooksTypeOK
  <2> QED BY <1>1, <1>2, <1>4, <2>1, <2>2 DEF CreateFiscalPeriod, BooksInv, BooksTypeOK
<1>5. ASSUME NEW d \in Docs, PostSale(d)
      PROVE  BooksInv' /\ Grown /\ UNCHANGED <<call, receipts>>
  <2>1. PICK e : e = Entry("sales_document", today, SaleLines(d), 0)
    OBVIOUS
  <2>2. SaleLines(d) \in Seq(Line)
    <3>1. Total[d] \in Nat
      BY DocsAssumption
    <3>2. Debit("receivable", d, Total[d]) \in Line /\ Credit("sales", None, Total[d]) \in Line
      BY <3>1 DEF Debit, Credit, Line, Accounts
    <3> QED BY <3>2 DEF SaleLines
  <2>3. e \in Journal /\ e.source \notin {"receipt", "receipt_reversal"}
    BY <2>1, <2>2 DEF Entry, Journal, Sources, BooksInv, BooksTypeOK
  <2>4. journals' \in Seq(Journal) /\ ReceiptsMatchJournals' /\ UniqueRefs' /\ Grown
    BY <1>5, <2>1, <2>3, JournalAdded DEF PostSale
  <2> QED BY <1>2, <1>5, <2>4 DEF PostSale, BooksInv, BooksTypeOK
<1>6. ASSUME NextDay
      PROVE  BooksInv' /\ Grown /\ UNCHANGED <<call, receipts>>
  <2>1. Grown /\ ReceiptsMatchJournals' /\ UniqueRefs'
    BY <1>1, <1>6 DEF NextDay, Grown, BooksInv, ReceiptsMatchJournals, UniqueRefs
  <2> QED BY <1>1, <1>2, <1>6, <2>1 DEF NextDay, BooksInv, BooksTypeOK
<1> QED BY <1>3, <1>4, <1>5, <1>6 DEF BooksEvents

\* Any step of a request.
LEMMA StepsKeep ==
    ASSUME BooksInv, NEW c \in Calls, BooksSteps(c)
    PROVE  BooksInv' /\ Grown
<1>1. CASE Answered(c)
  BY <1>1, EndsKeeps DEF Answered
<1>2. CASE Fail(c)
  BY <1>2, RefuseKeeps DEF Fail
<1>3. CASE ~Answered(c) /\ ~Fail(c)
  BY <1>3, CountAccountsKeeps, SeedAccountsKeeps, ReadPeriodLockKeeps, SetPeriodLockKeeps,
     RecordReceiptKeeps, PostReceiptKeeps, BookReceiptKeeps, ReadWinnerKeeps, ReverseReceiptKeeps,
     MarkReversedKeeps, RecordPaymentKeeps, BookPaymentKeeps, PostKeeps, BookEntryKeeps DEF BooksSteps
<1> QED BY <1>1, <1>2, <1>3

LEMMA BooksStart == BooksInit => BooksInv
<1> SUFFICES ASSUME BooksInit PROVE BooksInv
  OBVIOUS
<1>1. BooksTypeOK
  BY IdleIsCall, BoundAssumption DEF BooksInit, BooksTypeOK
<1>2. ReceiptsMatchJournals /\ UniqueRefs
  BY DEF BooksInit, ReceiptsMatchJournals, UniqueRefs
<1>3. \A c \in Calls : SoundCall(call[c])
  BY IdleIsCall DEF BooksInit
<1> QED BY <1>1, <1>2, <1>3 DEF BooksInv

\* For the whole life of the books: every receipt has its journal and every reversal
\* the journal with the lines exchanged, no journal of a refused or losing request
\* stays, and a reference is booked once and answered with that receipt.
THEOREM ReceiptsStaySound == BooksSpec => [](BooksTypeOK /\ ReceiptsMatchJournals /\ BookedOncePerReference)
<1>1. BooksInit => BooksInv
  BY BooksStart
<1>2. BooksInv /\ [BooksNext]_booksVars => BooksInv'
  <2> SUFFICES ASSUME BooksInv, [BooksNext]_booksVars PROVE BooksInv'
    OBVIOUS
  <2>1. CASE BooksNext
    BY <2>1, StepsKeep, EventsKeep DEF BooksNext
  <2>2. CASE UNCHANGED booksVars
    <3>1. UNCHANGED <<booksRest, call>>
      BY <2>2 DEF booksVars
    <3>2. \A c \in Calls : SoundCall(call[c])'
      BY <3>1 DEF BooksInv, SoundCall, ReceiptLines, booksRest
    <3> QED BY <3>1, <3>2 DEF BooksInv, BooksTypeOK, ReceiptsMatchJournals, UniqueRefs, booksRest
  <2> QED BY <2>1, <2>2
<1>3. BooksInv => BooksTypeOK /\ ReceiptsMatchJournals /\ BookedOncePerReference
  BY DEF BooksInv, UniqueRefs, SoundCall, BookedOncePerReference
<1> QED BY <1>1, <1>2, <1>3, PTL DEF BooksSpec

-----------------------------------------------------------------------------
(* Collections *)

Holding == {"asked", "posting", "booked", "refused"}
Booking == [op : {"receipt", "link", "debit"}, item : Nat]

\* A call about a link is about its invoice and amount, without a reference; from
\* markPaid's update on it holds the link, and once booked it has the link's receipt.
LinkCall(c, r) ==
    /\ r.pc \in {"capture", "claim"} => r.op = "link"
    /\ r.op = "link" =>
        /\ r.pc \in {"capture", "claim"} \cup Holding /\ r.ref = None
        /\ r.item \in 1..Len(links) /\ r.doc = links[r.item].doc /\ r.amount = links[r.item].amount
        /\ r.pc \in Holding => holder[r.item] = c
        /\ r.pc = "booked" => r.found \in BookedFor(r.item)

\* A call about a collection is about a batch that was sent, and about its amount
\* for as long as the batch is there.
DebitCall(r) ==
    r.op = "debit" =>
        /\ r.pc \in {"asked", "posting", "booked", "reject"} /\ r.ref = None
        /\ r.item \in Batches /\ batch[r.item].status \in {"SENT", "gone"}
        /\ debit[r.item][r.doc].status # "none" => debit[r.item][r.doc].amount = r.amount

\* A link is held by one call that is about it, and only while it is pending.
HeldWhilePending ==
    \A l \in 1..Len(links) : holder[l] # None =>
        /\ links[l].status = "PENDING"
        /\ call[holder[l]].op = "link" /\ call[holder[l]].item = l /\ call[holder[l]].pc \in Holding

\* Only a committed batch has debits with an answer, and one that is gone has none.
BatchesSound ==
    \A b \in Batches :
        /\ batch[b].status \in {"none", "gone"} => \A d \in Docs : debit[b][d].status = "none"
        /\ batch[b].status = "building" => \A d \in Docs : debit[b][d].status \in {"none", "PENDING"}
        /\ batch[b].discarding => batch[b].status \in {"DRAFT", "SENT"}

OneOpen == \A d \in Docs : \A a, b \in OpenDebits(d) : a = b

\* A link that may not book again: it is paid, or the call that holds it has booked.
Spent(l) == links[l].status = "PAID" \/ (holder[l] # None /\ call[holder[l]].pc = "booked")

NotedLinks ==
    /\ bookedFor \in Seq(Booking) /\ Len(bookedFor) = Len(receipts)
    /\ \A i \in 1..Len(bookedFor) : bookedFor[i].op = "link" => bookedFor[i].item \in 1..Len(links)

\* Every receipt of a link beyond the one of its payment took a call that died.
CountedOnce ==
    \A l \in 1..Len(links) : Cardinality(BookedFor(l)) <= (IF Spent(l) THEN cuts + 1 ELSE cuts)

CollectInv ==
    /\ BooksInv /\ TypeOK /\ NotedLinks
    /\ \A c \in Calls : LinkCall(c, call[c]) /\ DebitCall(call[c])
    /\ HeldWhilePending /\ CountedOnce /\ PaidLinkIsBookedOrNoted
    /\ BatchesSound /\ OneOpen /\ CollectedIsBooked

Collecting == {"link", "debit"}

\* What a step of Books does to a request r of the collections, k before it.
Passes(k, r) ==
    \/ /\ k.op # "link" /\ (k.op = "debit" => k.pc \in {"asked", "posting"})
       /\ r.op \notin Collecting /\ r.pc \notin {"capture", "claim"}
    \/ /\ k.op \in Collecting /\ k.pc \in {"asked", "posting"}
       /\ r.op = k.op /\ r.item = k.item /\ r.doc = k.doc /\ r.amount = k.amount /\ r.ref = k.ref
       /\ r.pc = "posting" \/ (r.op = "link" /\ r.pc = "refused")

LEMMA BecomesIt ==
    ASSUME call \in [Calls -> Call], NEW c \in Calls, NEW r, Becomes(c, r)
    PROVE  call'[c] = r /\ \A o \in Calls : o # c => call'[o] = call[o]
BY DEF Becomes

LEMMA RefusePasses ==
    ASSUME call \in [Calls -> Call], NEW c \in Calls, Refuse(c),
           call[c].op \in Collecting => call[c].pc \in {"asked", "posting"}
    PROVE  Passes(call[c], call'[c]) /\ \A o \in Calls : o # c => call'[o] = call[o]
<1>1. PICK k : k = call[c]
  OBVIOUS
<1>2. k \in Call
  BY <1>1
<1>3. CASE k.op = "link"
  <2>1. PICK r : r = [k EXCEPT !.pc = "refused"]
    OBVIOUS
  <2>2. Becomes(c, r)
    BY <1>1, <1>3, <2>1 DEF Refuse, Goes, Becomes
  <2>3. /\ r.op = k.op /\ r.item = k.item /\ r.doc = k.doc /\ r.amount = k.amount /\ r.ref = k.ref
        /\ r.pc = "refused"
    BY <1>2, <2>1 DEF Call
  <2>4. Passes(k, r)
    BY <1>1, <1>3, <2>3 DEF Passes, Collecting
  <2> QED BY <1>1, <2>2, <2>4, BecomesIt
<1>4. CASE k.op # "link"
  <2>1. Becomes(c, Idle)
    BY <1>1, <1>4 DEF Refuse, Ends
  <2>2. Idle.op \notin Collecting /\ Idle.pc \notin {"capture", "claim"}
    BY DEF Idle, Collecting
  <2>3. Passes(k, Idle)
    BY <1>1, <1>4, <2>2 DEF Passes, Collecting
  <2> QED BY <1>1, <2>1, <2>3, BecomesIt
<1> QED BY <1>3, <1>4

LEMMA TryPostPasses ==
    ASSUME call \in [Calls -> Call], NEW c \in Calls, NEW r \in Call, TryPost(c, r),
           \/ call[c].op \notin Collecting /\ r.op \notin Collecting
           \/ /\ call[c].op \in Collecting /\ call[c].pc \in {"asked", "posting"}
              /\ r.op = call[c].op /\ r.item = call[c].item /\ r.doc = call[c].doc
              /\ r.amount = call[c].amount /\ r.ref = call[c].ref
    PROVE  Passes(call[c], call'[c]) /\ \A o \in Calls : o # c => call'[o] = call[o]
<1>1. CASE Becomes(c, [r EXCEPT !.pc = "posting"])
  <2>1. PICK q : q = [r EXCEPT !.pc = "posting"]
    OBVIOUS
  <2>2. /\ q.op = r.op /\ q.item = r.item /\ q.doc = r.doc /\ q.amount = r.amount /\ q.ref = r.ref
        /\ q.pc = "posting"
    BY <2>1 DEF Call
  <2>3. Becomes(c, q)
    BY <1>1, <2>1
  <2>4. Passes(call[c], q)
    BY <2>2 DEF Passes, Collecting
  <2> QED BY <2>3, <2>4, BecomesIt
<1>2. CASE Refuse(c)
  BY <1>2, RefusePasses
<1> QED BY <1>1, <1>2 DEF TryPost

\* A request that is asked for does not become one of the collections'.
LEMMA AskedPasses ==
    ASSUME call \in [Calls -> Call], NEW c \in Calls, call[c].op \notin Collecting,
           NEW r \in Call, r.op \notin Collecting,
           \/ Becomes(c, r) /\ r.pc \notin {"capture", "claim"}
           \/ Ends(c) \/ Refuse(c) \/ TryPost(c, r)
           \/ Becomes(c, [r EXCEPT !.pc = "asked"])
           \/ \E i \in Nat : Answers(c, r, i)
    PROVE  Passes(call[c], call'[c]) /\ \A o \in Calls : o # c => call'[o] = call[o]
<1>1. CASE Becomes(c, r) /\ r.pc \notin {"capture", "claim"}
  BY <1>1, BecomesIt DEF Passes, Collecting
<1>2. CASE Refuse(c)
  BY <1>2, RefusePasses
<1>3. CASE TryPost(c, r)
  BY <1>3, TryPostPasses
<1>4. CASE Becomes(c, [r EXCEPT !.pc = "asked"])
  <2>1. PICK q : q = [r EXCEPT !.pc = "asked"]
    OBVIOUS
  <2>2. q.op = r.op /\ q.pc = "asked" /\ Becomes(c, q)
    BY <1>4, <2>1 DEF Call
  <2> QED BY <2>2, BecomesIt DEF Passes, Collecting
<1>5. CASE \E i \in Nat : Answers(c, r, i)
  <2>1. PICK i \in Nat : Answers(c, r, i)
    BY <1>5
  <2>2. PICK q : q = [r EXCEPT !.pc = "booked", !.found = i]
    OBVIOUS
  <2>3. q.op = r.op /\ q.pc = "booked" /\ (Becomes(c, q) \/ Refuse(c))
    BY <2>1, <2>2 DEF Call, Answers
  <2> QED BY <1>2, <2>3, BecomesIt DEF Passes, Collecting
<1>6. CASE Ends(c)
  BY <1>6, BecomesIt DEF Ends, Idle, Passes, Collecting
<1> QED BY <1>1, <1>2, <1>3, <1>4, <1>5, <1>6

\* A step of Books seen from the collections: their requests post, are refused or
\* are booked, and no other request becomes one of theirs.
BookedNow(c) ==
    /\ call[c].pc = "posting" /\ call[c].op \in Receiving /\ Len(receipts') = Len(receipts) + 1
    /\ Becomes(c, [call[c] EXCEPT !.pc = "booked", !.found = Len(receipts) + 1])
PassedNow(c) ==
    /\ Passes(call[c], call'[c]) /\ Len(receipts') = Len(receipts)
    /\ \A o \in Calls : o # c => call'[o] = call[o]

LEMMA IdlePasses ==
    ASSUME BooksInv, NEW c \in Calls, call[c].op \notin Collecting,
           CountAccounts(c) \/ ReadPeriodLock(c) \/ RecordReceipt(c) \/ ReverseReceipt(c)
           \/ RecordPayment(c) \/ Post(c)
    PROVE  PassedNow(c)
<1>0. UNCHANGED booksRest
  <2>1. CountAccounts(c) => UNCHANGED booksRest
    BY DEF CountAccounts
  <2>2. ReadPeriodLock(c) => UNCHANGED booksRest
    BY DEF ReadPeriodLock
  <2>3. RecordReceipt(c) => UNCHANGED booksRest
    <3>1. \A r : Ask(c, r) => UNCHANGED booksRest
      BY DEF Ask
    <3> QED BY <3>1 DEF RecordReceipt
  <2>4. ReverseReceipt(c) => UNCHANGED booksRest
    BY DEF ReverseReceipt
  <2>5. RecordPayment(c) => UNCHANGED booksRest
    BY DEF RecordPayment
  <2>6. Post(c) => UNCHANGED booksRest
    BY DEF Post
  <2> QED BY <2>1, <2>2, <2>3, <2>4, <2>5, <2>6
<1>1. call \in [Calls -> Call] /\ UNCHANGED booksRest /\ receipts \in Seq(Receipt) /\ today \in Days
  BY <1>0 DEF BooksInv, BooksTypeOK
<1>2. receipts' = receipts
  BY <1>1 DEF booksRest
<1> SUFFICES Passes(call[c], call'[c]) /\ \A o \in Calls : o # c => call'[o] = call[o]
  BY <1>2 DEF PassedNow
<1>3. Idle \in Call /\ Idle.op \notin Collecting
  BY IdleIsCall DEF Idle, Collecting
<1>4. CASE CountAccounts(c)
  <2>1. PICK r : r = [Idle EXCEPT !.op = "chart", !.pc = "counted"]
    OBVIOUS
  <2>2. r \in Call /\ r.op \notin Collecting /\ r.pc = "counted"
    BY <1>3, <2>1 DEF Call, Collecting
  <2> QED BY <1>1, <1>4, <2>1, <2>2, AskedPasses DEF CountAccounts
<1>5. CASE ReadPeriodLock(c)
  <2>1. PICK p \in Periods, lock \in BOOLEAN :
           \/ Ends(c)
           \/ Becomes(c, [Idle EXCEPT !.op = IF lock THEN "lock" ELSE "unlock", !.period = p, !.pc = "read"])
    BY <1>5 DEF ReadPeriodLock
  <2>2. PICK r : r = [Idle EXCEPT !.op = IF lock THEN "lock" ELSE "unlock", !.period = p, !.pc = "read"]
    OBVIOUS
  <2>3. r \in Call /\ r.op \in {"lock", "unlock"} /\ r.pc = "read"
    BY <1>3, <2>1, <2>2 DEF Call
  <2>4. r.op \notin Collecting
    BY <2>3 DEF Collecting
  <2> QED BY <1>1, <2>1, <2>2, <2>3, <2>4, AskedPasses
<1>6. CASE RecordReceipt(c)
  <2>1. PICK d \in issued, n \in Amounts, ref \in Refs \cup {None}, bank \in banks \cup {None},
             day \in {e \in Days : e <= today}, override \in BOOLEAN :
          Ask(c, [Idle EXCEPT !.op = "receipt", !.doc = d, !.amount = n, !.ref = ref,
                              !.bank = bank, !.day = day, !.override = override])
    BY <1>6 DEF RecordReceipt
  <2>2. d \in Docs /\ n \in Nat /\ bank \in {None, "BANK", "CASH"} /\ day \in Days
    BY AmountsAssumption DEF BooksInv, BooksTypeOK
  <2>3. PICK r : r = [Idle EXCEPT !.op = "receipt", !.doc = d, !.amount = n, !.ref = ref,
                                 !.bank = bank, !.day = day, !.override = override]
    OBVIOUS
  <2>4. r \in Call /\ r.op \notin Collecting
    BY <1>3, <2>2, <2>3 DEF Call, Collecting
  <2>5. \/ \E i \in Nat : Answers(c, r, i)
        \/ Becomes(c, [r EXCEPT !.pc = "asked"])
    BY <2>1, <2>3 DEF Ask, ByClientRef
  <2> QED BY <1>1, <2>4, <2>5, AskedPasses
<1>7. CASE ReverseReceipt(c)
  <2>0. PICK i \in 1..Len(receipts), override \in BOOLEAN :
           \/ Refuse(c)
           \/ TryPost(c, [Idle EXCEPT !.op = "reverse", !.found = i, !.day = today, !.override = override,
                                      !.lines = Swapped(journals[receipts[i].journal].lines)])
    BY <1>7 DEF ReverseReceipt
  <2>1. PICK lines : lines = Swapped(journals[receipts[i].journal].lines)
    OBVIOUS
  <2>2. lines \in Seq(Line) /\ i \in Nat
    <3>1. receipts[i].journal \in 1..Len(journals) /\ journals \in Seq(Journal)
      BY DEF BooksInv, BooksTypeOK, ReceiptsMatchJournals
    <3>2. journals[receipts[i].journal] \in Journal
      BY <3>1, ElementOfSeq
    <3> QED BY <2>1, <3>2, SwappedTyped DEF Journal
  <2>3. PICK r : r = [Idle EXCEPT !.op = "reverse", !.found = i, !.day = today, !.override = override,
                                 !.lines = lines]
    OBVIOUS
  <2>4. r \in Call /\ r.op \notin Collecting
    BY <1>1, <1>3, <2>2, <2>3 DEF Call, Collecting
  <2>5. Refuse(c) \/ TryPost(c, r)
    BY <2>0, <2>1, <2>3
  <2> QED BY <1>1, <2>4, <2>5, AskedPasses
<1>8. CASE RecordPayment(c)
  <2>1. PICK n \in Amounts, bank \in banks \cup {None}, day \in {e \in Days : e <= today}, override \in BOOLEAN :
          LET k == [Idle EXCEPT !.op = "payment", !.amount = n, !.bank = bank, !.day = day, !.override = override] IN
          TryPost(c, [k EXCEPT !.lines = PaymentLines(k)])
    BY <1>8 DEF RecordPayment
  <2>2. n \in Nat /\ bank \in {None, "BANK", "CASH"} /\ day \in Days
    BY AmountsAssumption DEF BooksInv, BooksTypeOK
  <2>3. PICK k : k = [Idle EXCEPT !.op = "payment", !.amount = n, !.bank = bank, !.day = day,
                                 !.override = override]
    OBVIOUS
  <2>4. k \in Call /\ k.op = "payment"
    BY <1>3, <2>2, <2>3 DEF Call
  <2>5. PICK lines : lines = PaymentLines(k)
    OBVIOUS
  <2>6. lines \in Seq(Line)
    BY <2>4, <2>5, LinesTyped DEF Call
  <2>7. PICK r : r = [k EXCEPT !.lines = lines]
    OBVIOUS
  <2>8. r \in Call /\ r.op \notin Collecting
    BY <2>4, <2>6, <2>7 DEF Call, Collecting
  <2>9. TryPost(c, r)
    BY <2>1, <2>3, <2>5, <2>7
  <2> QED BY <1>1, <2>8, <2>9, AskedPasses
<1>9. CASE Post(c)
  <2>1. PICK lines \in Entries, day \in {e \in Days : e <= today}, override \in BOOLEAN :
           TryPost(c, [Idle EXCEPT !.op = "manual", !.lines = lines, !.day = day, !.override = override])
    BY <1>9 DEF Post
  <2>2. PICK r : r = [Idle EXCEPT !.op = "manual", !.lines = lines, !.day = day, !.override = override]
    OBVIOUS
  <2>3. r \in Call /\ r.op \notin Collecting
    BY <1>3, <2>1, <2>2, EntriesAssumption DEF Call, Collecting
  <2> QED BY <1>1, <2>1, <2>2, <2>3, AskedPasses
<1> QED BY <1>4, <1>5, <1>6, <1>7, <1>8, <1>9

LEMMA BooksPasses ==
    ASSUME CollectInv, NEW c \in Calls, BooksSteps(c)
    PROVE  PassedNow(c) \/ BookedNow(c)
<1> PICK k : k = call[c]
  OBVIOUS
<1>1. /\ call \in [Calls -> Call] /\ receipts \in Seq(Receipt) /\ today \in Days /\ k \in Call
      /\ SoundCall(k) /\ LinkCall(c, k) /\ DebitCall(k) /\ BooksInv
  BY DEF CollectInv, BooksInv, BooksTypeOK
<1>2. k.op \in Collecting => k.pc # "idle" /\ k.ref = None
  BY <1>1 DEF LinkCall, DebitCall, Collecting, Holding
<1>3. k.pc \in {"asked", "posting", "duplicate", "counted", "read"} /\ k.op \in Collecting => k.pc \in {"asked", "posting"}
  BY <1>1 DEF LinkCall, DebitCall, Collecting, Holding
<1>4. Idle \in Call /\ Idle.op \notin Collecting
  BY IdleIsCall DEF Idle, Collecting
<1>5. CASE CountAccounts(c) \/ ReadPeriodLock(c) \/ RecordReceipt(c) \/ ReverseReceipt(c)
           \/ RecordPayment(c) \/ Post(c)
  <2>1. k.pc = "idle"
    BY <1>5 DEF CountAccounts, ReadPeriodLock, RecordReceipt, ReverseReceipt, RecordPayment, Post
  <2> QED BY <1>1, <1>2, <1>5, <2>1, IdlePasses
<1>6. CASE PostReceipt(c)
  <2>1. k.pc = "asked" /\ k.op \in Receiving /\ receipts' = receipts
    BY <1>1, <1>6 DEF PostReceipt, SoundCall, booksRest
  <2>2. PICK lines : lines = ReceiptLines(k)
    OBVIOUS
  <2>3. lines \in Seq(Line)
    BY <1>1, <2>2, LinesTyped DEF Call
  <2>4. PICK r : r = [k EXCEPT !.lines = lines]
    OBVIOUS
  <2>5. /\ r \in Call /\ r.op = k.op /\ r.item = k.item /\ r.doc = k.doc /\ r.amount = k.amount /\ r.ref = k.ref
    BY <1>1, <2>3, <2>4 DEF Call
  <2>6. TryPost(c, r)
    BY <1>6, <2>2, <2>4 DEF PostReceipt
  <2> QED BY <1>1, <2>1, <2>5, <2>6, TryPostPasses DEF PassedNow
<1>7. CASE BookReceipt(c)
  <2>1. CASE Len(receipts') = Len(receipts) + 1 /\ Becomes(c, [k EXCEPT !.pc = "booked", !.found = Len(receipts) + 1])
    BY <1>1, <1>7, <2>1 DEF BookReceipt, SoundCall, Receiving, BookedNow
  <2>2. CASE ByClientRef(k.ref) # {} /\ UNCHANGED <<journals, receipts>> /\ Goes(c, "duplicate")
    <3>1. k.op \notin Collecting
      BY <1>2, <2>2 DEF ByClientRef
    <3>2. PICK r : r = [k EXCEPT !.pc = "duplicate"]
      OBVIOUS
    <3>3. r \in Call /\ r.op = k.op /\ r.pc = "duplicate"
      BY <1>1, <3>2 DEF Call
    <3>4. Becomes(c, r)
      BY <2>2, <3>2 DEF Goes, Becomes
    <3> QED BY <1>1, <2>2, <3>1, <3>3, <3>4, AskedPasses DEF PassedNow
  <2> QED BY <1>1, <1>7, <2>1, <2>2, BookReceiptKeeps
<1>8. CASE ReadWinner(c)
  <2>1. k.op \notin Collecting /\ receipts' = receipts
    BY <1>3, <1>8 DEF ReadWinner, booksRest
  <2>2. \E i \in Nat : Answers(c, k, i)
    BY <1>8 DEF ReadWinner, ByClientRef
  <2> QED BY <1>1, <2>1, <2>2, AskedPasses DEF PassedNow
<1>9. CASE MarkReversed(c)
  <2>1. k.op \notin Collecting /\ (Refuse(c) \/ Ends(c))
    BY <1>9 DEF MarkReversed, Collecting
  <2>2. Len(receipts') = Len(receipts)
    BY <1>1, <1>9, MarkReversedKeeps
  <2> QED BY <1>1, <1>4, <2>1, <2>2, AskedPasses DEF PassedNow
<1>10. CASE SeedAccounts(c) \/ SetPeriodLock(c) \/ BookPayment(c) \/ BookEntry(c) \/ Answered(c)
  <2>1. k.op \notin Collecting /\ Ends(c) /\ receipts' = receipts
    BY <1>10 DEF SeedAccounts, SetPeriodLock, BookPayment, BookEntry, Answered, Collecting, booksRest
  <2> QED BY <1>1, <1>4, <2>1, AskedPasses DEF PassedNow
<1>11. CASE Fail(c)
  <2>1. receipts' = receipts /\ Refuse(c) /\ k.pc \in {"asked", "counted", "read", "posting"}
    BY <1>11 DEF Fail, booksRest
  <2>2. k.op \in Collecting => k.pc \in {"asked", "posting"}
    BY <1>3, <2>1
  <2> QED BY <1>1, <2>1, <2>2, RefusePasses DEF PassedNow
<1> QED BY <1>5, <1>6, <1>7, <1>8, <1>9, <1>10, <1>11 DEF BooksSteps

\* What BookedFor and the types need to know of the note.
LEMMA BookedForIs ==
    ASSUME NotedLinks, NEW l
    PROVE  /\ Len(bookedFor) \in Nat /\ BookedFor(l) \subseteq 1..Len(bookedFor)
           /\ IsFiniteSet(BookedFor(l)) /\ Cardinality(BookedFor(l)) \in Nat
<1>1. Len(bookedFor) \in Nat
  BY LenProperties DEF NotedLinks
<1>2. BookedFor(l) \subseteq 1..Len(bookedFor)
  BY DEF BookedFor
<1>3. IsFiniteSet(1..Len(bookedFor))
  BY <1>1, FS_Interval
<1> QED BY <1>1, <1>2, <1>3, FS_Subset, FS_CardinalityType

\* The collections' own state, with its types, as long as nothing of it changes.
Same == UNCHANGED <<links, holder, batch, debit, cuts>>

\* Request o, k before the step and r after it, holds what it held.
Steady(o, k, r) ==
    /\ LinkCall(o, r) /\ DebitCall(r)
    /\ \A l \in 1..Len(links) : holder[l] = o =>
          /\ r.op = "link" /\ r.item = l /\ r.pc \in Holding
          /\ r.pc = "booked" <=> k.pc = "booked"

\* Requests move on, nothing is booked and nobody takes or lets go of a link.
LEMMA RequestMoves ==
    ASSUME CollectInv, BooksInv', Grown, Same, UNCHANGED bookedFor, Len(receipts') = Len(receipts),
           doubled' \subseteq Batches \X Docs,
           money' \in [1..Len(links) -> {"unpaid", "paid", "captured"}],
           mandate' \in [Docs -> [status : {"none", "ACTIVE", "REVOKED"}, used : BOOLEAN]],
           \A o \in Calls : call'[o] = call[o] \/ Steady(o, call[o], call'[o])
    PROVE  CollectInv'
<1>1. TypeOK'
  BY DEF CollectInv, TypeOK, Same, BooksInv
<1>2. NotedLinks'
  BY DEF CollectInv, NotedLinks, Same
<1>3. ASSUME NEW o \in Calls PROVE LinkCall(o, call[o])' /\ DebitCall(call[o])'
  <2>1. PICK r : r = call'[o]
    OBVIOUS
  <2>2. LinkCall(o, r) /\ DebitCall(r)
    BY <2>1 DEF CollectInv, Steady
  <2>3. call'[o] = r
    BY <2>1
  <2> QED BY <2>2, <2>3 DEF LinkCall, DebitCall, Same, BookedFor
<1>4. HeldWhilePending'
  <2>1. ASSUME NEW l \in 1..Len(links), holder[l] # None
        PROVE  /\ links[l].status = "PENDING"
               /\ call'[holder[l]].op = "link" /\ call'[holder[l]].item = l /\ call'[holder[l]].pc \in Holding
    <3>1. holder[l] \in Calls
      BY <2>1 DEF CollectInv, TypeOK
    <3>2. CASE call'[holder[l]] = call[holder[l]]
      BY <2>1, <3>2 DEF CollectInv, HeldWhilePending
    <3>3. CASE Steady(holder[l], call[holder[l]], call'[holder[l]])
      BY <2>1, <3>3 DEF CollectInv, HeldWhilePending, Steady
    <3> QED BY <3>1, <3>2, <3>3
  <2> QED BY <2>1 DEF HeldWhilePending, Same
<1>5. CountedOnce'
  <2>1. ASSUME NEW l \in 1..Len(links) PROVE Spent(l)' <=> Spent(l)
    <3>1. holder[l] # None => holder[l] \in Calls
      BY DEF CollectInv, TypeOK
    <3> QED BY <3>1 DEF Spent, Same, Steady
  <2> QED BY <2>1 DEF CollectInv, CountedOnce, BookedFor, Same
<1>6. PaidLinkIsBookedOrNoted'
  <2>1. ASSUME NEW l \in 1..Len(links), links[l].status = "PAID"
        PROVE  IF links[l].note THEN links[l].receipt = 0
               ELSE /\ links[l].receipt \in BookedFor(l)
                    /\ receipts'[links[l].receipt].doc = links[l].doc
                    /\ receipts'[links[l].receipt].amount = links[l].amount
    <3>1. BookedFor(l) \subseteq 1..Len(receipts)
      BY DEF CollectInv, NotedLinks, BookedFor
    <3>2. IF links[l].note THEN links[l].receipt = 0
          ELSE /\ links[l].receipt \in BookedFor(l)
               /\ receipts[links[l].receipt].doc = links[l].doc
               /\ receipts[links[l].receipt].amount = links[l].amount
      BY <2>1 DEF CollectInv, PaidLinkIsBookedOrNoted
    <3>3. \A i \in 1..Len(receipts) : receipts'[i].doc = receipts[i].doc /\ receipts'[i].amount = receipts[i].amount
      BY DEF Grown
    <3> QED BY <3>1, <3>2, <3>3
  <2> QED BY <2>1 DEF PaidLinkIsBookedOrNoted, Same, BookedFor
<1>7. BatchesSound' /\ OneOpen'
  BY DEF CollectInv, BatchesSound, OneOpen, OpenDebits, Committed, Same
<1>8. CollectedIsBooked'
  <2>1. \A i \in 1..Len(receipts) : /\ i \in 1..Len(receipts')
                                    /\ receipts'[i].doc = receipts[i].doc /\ receipts'[i].amount = receipts[i].amount
    BY DEF Grown
  <2>2. CollectedIsBooked
    BY DEF CollectInv
  <2> QED BY <2>1, <2>2 DEF CollectedIsBooked, Committed, Same
<1> QED BY <1>1, <1>2, <1>3, <1>4, <1>5, <1>6, <1>7, <1>8 DEF CollectInv

LEMMA PassedKeeps ==
    ASSUME CollectInv, BooksInv', Grown, UNCHANGED collectVars, NEW c \in Calls, NoteBooking(c), PassedNow(c)
    PROVE  CollectInv'
<1> PICK k : k = call[c]
  OBVIOUS
<1> PICK r : r = call'[c]
  OBVIOUS
<1>1. LinkCall(c, k) /\ DebitCall(k) /\ Passes(k, r) /\ HeldWhilePending
  BY DEF CollectInv, PassedNow
<1>2. LinkCall(c, r)
  BY <1>1 DEF LinkCall, Passes, Collecting, Holding
<1>3. DebitCall(r)
  BY <1>1 DEF DebitCall, Passes, Collecting
<1>4. ASSUME NEW l \in 1..Len(links), holder[l] = c
      PROVE  r.op = "link" /\ r.item = l /\ r.pc \in Holding /\ (r.pc = "booked" <=> k.pc = "booked")
  <2>1. k.op = "link" /\ k.item = l
    BY <1>1, <1>4, NoneAssumption DEF HeldWhilePending
  <2> QED BY <1>1, <2>1 DEF Passes, Collecting, Holding
<1>5. Steady(c, k, r)
  BY <1>2, <1>3, <1>4 DEF Steady
<1>6. \A o \in Calls : call'[o] = call[o] \/ Steady(o, call[o], call'[o])
  BY <1>5 DEF PassedNow
<1>7. Same /\ UNCHANGED bookedFor /\ Len(receipts') = Len(receipts) /\ UNCHANGED <<money, mandate, doubled>>
  BY DEF Same, collectVars, NoteBooking, PassedNow
<1> QED BY <1>6, <1>7, RequestMoves DEF CollectInv, TypeOK

\* A receipt is booked: it is noted for the request that books it.
LEMMA BookedKeeps ==
    ASSUME CollectInv, BooksInv', Grown, UNCHANGED collectVars, NEW c \in Calls, NoteBooking(c), BookedNow(c)
    PROVE  CollectInv'
<1> PICK k : k = call[c]
  OBVIOUS
<1> DEFINE m == Len(receipts) + 1
<1> PICK r : r = [k EXCEPT !.pc = "booked", !.found = m]
  OBVIOUS
<1> PICK note : note = [op |-> k.op, item |-> k.item]
  OBVIOUS
<1>1. /\ call \in [Calls -> Call] /\ k \in Call /\ Len(receipts) \in Nat /\ bookedFor \in Seq(Booking)
      /\ Len(bookedFor) = Len(receipts)
  BY LenProperties DEF CollectInv, BooksInv, BooksTypeOK, NotedLinks
<1>2. /\ LinkCall(c, k) /\ DebitCall(k) /\ HeldWhilePending /\ k.pc = "posting" /\ k.op \in Receiving
      /\ Becomes(c, r) /\ Len(receipts') = m
  BY DEF CollectInv, BookedNow
<1>3. call'[c] = r /\ \A o \in Calls : o # c => call'[o] = call[o]
  BY <1>1, <1>2, BecomesIt
<1>4. /\ r.op = k.op /\ r.item = k.item /\ r.doc = k.doc /\ r.amount = k.amount /\ r.ref = k.ref
      /\ r.pc = "booked" /\ r.found = m
  <2> HIDE DEF m
  <2> QED BY <1>1 DEF Call
<1>5. note \in Booking /\ note.op = k.op /\ note.item = k.item
  BY <1>1, <1>2 DEF Booking, Receiving, Call
<1>6. bookedFor' = Append(bookedFor, note)
  BY <1>1, <1>2 DEF NoteBooking
<1>7. /\ bookedFor' \in Seq(Booking) /\ Len(bookedFor') = m
      /\ \A i \in 1..Len(bookedFor) : bookedFor'[i] = bookedFor[i]
      /\ bookedFor'[m] = note
  BY <1>1, <1>5, <1>6, AppendProperties
<1>8. ASSUME NEW l
      PROVE  BookedFor(l)' = BookedFor(l) \cup (IF note = [op |-> "link", item |-> l] THEN {m} ELSE {})
  <2>1. \A i \in 1..m : i \in 1..Len(bookedFor) \/ i = m
    BY <1>1
  <2>2. \A i \in 1..Len(bookedFor) : i \in 1..m /\ i # m
    BY <1>1
  <2>3. m \in 1..m
    BY <1>1
  <2> HIDE DEF m
  <2> QED BY <1>7, <2>1, <2>2, <2>3 DEF BookedFor
<1>9. TypeOK'
  BY <1>2, <1>7 DEF CollectInv, TypeOK, BooksInv, collectVars
<1>10. NotedLinks'
  <2>1. \A i \in 1..m : i = m \/ i \in 1..Len(bookedFor)
    BY <1>1
  <2>2. \A i \in 1..Len(bookedFor) : bookedFor[i].op = "link" => bookedFor[i].item \in 1..Len(links)
    BY DEF CollectInv, NotedLinks
  <2>3. note.op = "link" => note.item \in 1..Len(links)
    BY <1>2, <1>5 DEF LinkCall
  <2>4. \A i \in 1..m : bookedFor'[i].op = "link" => bookedFor'[i].item \in 1..Len(links)
    BY <1>7, <2>1, <2>2, <2>3
  <2>5. links' = links /\ Len(bookedFor') = m /\ Len(receipts') = m
    BY <1>2, <1>7 DEF collectVars
  <2> HIDE DEF m
  <2> QED BY <1>7, <2>4, <2>5 DEF NotedLinks
<1>11. ASSUME NEW o \in Calls PROVE LinkCall(o, call[o])' /\ DebitCall(call[o])'
  <2>1. CASE o = c
    <3>1. r.op = "link" => m \in BookedFor(r.item)'
      BY <1>4, <1>8
    <3>2. r.op = "link" =>
             /\ r.ref = None /\ r.item \in 1..Len(links) /\ r.doc = links[r.item].doc
             /\ r.amount = links[r.item].amount /\ holder[r.item] = c
      BY <1>2, <1>4 DEF LinkCall, Holding
    <3>3. LinkCall(o, call[o])'
      BY <1>3, <1>4, <2>1, <3>1, <3>2 DEF LinkCall, Holding, collectVars
    <3>4. DebitCall(r)
      BY <1>2, <1>4 DEF DebitCall
    <3>5. call'[o] = r
      BY <1>3, <2>1
    <3>6. DebitCall(call[o])'
      BY <3>4, <3>5 DEF DebitCall, collectVars
    <3> QED BY <3>3, <3>6
  <2>2. CASE o # c
    <3>1. PICK q : q = call[o]
      OBVIOUS
    <3>2. LinkCall(o, q) /\ DebitCall(q) /\ call'[o] = q
      BY <1>3, <2>2, <3>1 DEF CollectInv
    <3>3. q.op = "link" => BookedFor(q.item) \subseteq BookedFor(q.item)'
      BY <1>8
    <3>4. LinkCall(o, call[o])'
      BY <3>2, <3>3 DEF LinkCall, collectVars
    <3>5. DebitCall(call[o])'
      BY <3>2 DEF DebitCall, collectVars
    <3> QED BY <3>4, <3>5
  <2> QED BY <2>1, <2>2
<1>12. HeldWhilePending'
  <2>1. ASSUME NEW l \in 1..Len(links), holder[l] # None
        PROVE  /\ links[l].status = "PENDING"
               /\ call'[holder[l]].op = "link" /\ call'[holder[l]].item = l /\ call'[holder[l]].pc \in Holding
    <3>1. holder[l] \in Calls
      BY <2>1 DEF CollectInv, TypeOK
    <3>2. CASE holder[l] = c
      BY <1>2, <1>3, <1>4, <2>1, <3>2 DEF HeldWhilePending, Holding
    <3>3. CASE holder[l] # c
      BY <1>2, <1>3, <2>1, <3>1, <3>3 DEF HeldWhilePending
    <3> QED BY <3>2, <3>3
  <2> QED BY <2>1 DEF HeldWhilePending, collectVars
<1>13. CountedOnce'
  <2>1. ASSUME NEW l \in 1..Len(links)
        PROVE  Cardinality(BookedFor(l)') <= IF Spent(l)' THEN cuts + 1 ELSE cuts
    <3>1. /\ Cardinality(BookedFor(l)) <= (IF Spent(l) THEN cuts + 1 ELSE cuts)
          /\ IsFiniteSet(BookedFor(l)) /\ Cardinality(BookedFor(l)) \in Nat /\ BookedFor(l) \subseteq 1..Len(bookedFor)
      BY BookedForIs DEF CollectInv, CountedOnce
    <3>2. holder[l] # None => holder[l] \in Calls
      BY DEF CollectInv, TypeOK
    <3>3. CASE note = [op |-> "link", item |-> l]
      <4>1. k.op = "link" /\ k.item = l /\ holder[l] = c /\ links[l].status = "PENDING" /\ c # None
        BY <1>2, <1>5, <3>3, NoneAssumption DEF LinkCall, Holding, HeldWhilePending
      <4>2. ~Spent(l) /\ Spent(l)'
        <5>0. call[c].pc = "posting" /\ call'[c].pc = "booked"
          BY <1>2, <1>3, <1>4
        <5>1. call[holder[l]].pc = "posting" /\ call'[holder[l]].pc = "booked"
          BY <4>1, <5>0
        <5> QED BY <4>1, <5>1 DEF Spent, collectVars
      <4>3. m \notin BookedFor(l)
        BY <1>1, <3>1
      <4>4. Cardinality(BookedFor(l)') = Cardinality(BookedFor(l)) + 1
        BY <1>8, <3>1, <3>3, <4>3, FS_AddElement
      <4>5. cuts \in Nat
        BY DEF CollectInv, TypeOK
      <4> QED BY <3>1, <4>2, <4>4, <4>5
    <3>4. CASE note # [op |-> "link", item |-> l]
      <4>1. BookedFor(l)' = BookedFor(l)
        BY <1>8, <3>4
      <4>2. holder[l] # c
        <5>1. holder[l] = c => k.op = "link" /\ k.item = l
          BY <1>2, NoneAssumption DEF HeldWhilePending
        <5> QED BY <3>4, <5>1
      <4>3. Spent(l)' <=> Spent(l)
        BY <1>3, <3>2, <4>2 DEF Spent, collectVars
      <4> QED BY <3>1, <4>1, <4>3
    <3> QED BY <3>3, <3>4
  <2> QED BY <2>1 DEF CountedOnce, collectVars
<1>14. \A i \in 1..Len(receipts) : /\ i \in 1..Len(receipts')
                                   /\ receipts'[i].doc = receipts[i].doc /\ receipts'[i].amount = receipts[i].amount
  BY DEF Grown
<1>15. PaidLinkIsBookedOrNoted'
  <2>1. ASSUME NEW l \in 1..Len(links), links[l].status = "PAID"
        PROVE  IF links[l].note THEN links[l].receipt = 0
               ELSE /\ links[l].receipt \in BookedFor(l)'
                    /\ receipts'[links[l].receipt].doc = links[l].doc
                    /\ receipts'[links[l].receipt].amount = links[l].amount
    <3>1. BookedFor(l) \subseteq 1..Len(receipts) /\ BookedFor(l) \subseteq BookedFor(l)'
      BY <1>1, <1>8 DEF BookedFor
    <3>2. IF links[l].note THEN links[l].receipt = 0
          ELSE /\ links[l].receipt \in BookedFor(l)
               /\ receipts[links[l].receipt].doc = links[l].doc
               /\ receipts[links[l].receipt].amount = links[l].amount
      BY <2>1 DEF CollectInv, PaidLinkIsBookedOrNoted
    <3> QED BY <1>14, <3>1, <3>2
  <2> QED BY <2>1 DEF PaidLinkIsBookedOrNoted, collectVars
<1>16. BatchesSound' /\ OneOpen'
  BY DEF CollectInv, BatchesSound, OneOpen, OpenDebits, Committed, collectVars
<1>17. CollectedIsBooked'
  <2>1. CollectedIsBooked
    BY DEF CollectInv
  <2> QED BY <1>14, <2>1 DEF CollectedIsBooked, Committed, collectVars
<1> QED BY <1>9, <1>10, <1>11, <1>12, <1>13, <1>15, <1>16, <1>17 DEF CollectInv

LEMMA EventsPass ==
    ASSUME CollectInv, BooksEvents, UNCHANGED <<collectVars, bookedFor>>
    PROVE  CollectInv'
<1>1. BooksInv' /\ Grown /\ UNCHANGED <<call, receipts>>
  BY EventsKeep DEF CollectInv
<1>2. Same /\ UNCHANGED <<bookedFor, money, mandate, doubled>> /\ Len(receipts') = Len(receipts)
  BY <1>1 DEF Same, collectVars
<1>3. \A o \in Calls : call'[o] = call[o]
  BY <1>1
<1> QED BY <1>1, <1>2, <1>3, RequestMoves DEF CollectInv, TypeOK

\* A request of the collections starts, or goes on without taking or booking anything.
LEMMA RequestPasses ==
    ASSUME CollectInv, NEW c \in Calls, NEW r \in Call, Becomes(c, r), SoundCall(r),
           UNCHANGED <<booksRest, links, holder, batch, debit, cuts, bookedFor>>, doubled' \subseteq Batches \X Docs,
           money' \in [1..Len(links) -> {"unpaid", "paid", "captured"}],
           mandate' \in [Docs -> [status : {"none", "ACTIVE", "REVOKED"}, used : BOOLEAN]],
           LinkCall(c, r), DebitCall(r),
           \A l \in 1..Len(links) : holder[l] # c
    PROVE  CollectInv'
<1>1. BooksInv /\ call \in [Calls -> Call]
  BY DEF CollectInv, BooksInv, BooksTypeOK
<1>2. BooksInv' /\ Grown
  BY <1>1, CallMoves DEF booksRest
<1>3. call'[c] = r /\ \A o \in Calls : o # c => call'[o] = call[o]
  BY <1>1, BecomesIt
<1>4. Steady(c, call[c], r)
  BY DEF Steady
<1>5. \A o \in Calls : call'[o] = call[o] \/ Steady(o, call[o], call'[o])
  BY <1>3, <1>4
<1>6. Same /\ Len(receipts') = Len(receipts)
  BY DEF Same, booksRest
<1> QED BY <1>2, <1>5, <1>6, RequestMoves

LEMMA HoldsNothing ==
    ASSUME CollectInv, NEW c \in Calls, call[c].op # "link" \/ call[c].pc \notin Holding
    PROVE  \A l \in 1..Len(links) : holder[l] # c
BY NoneAssumption DEF CollectInv, HeldWhilePending

\* An ended request is nobody's.
LEMMA EndedPasses == ASSUME NEW c PROVE Idle \in Call /\ SoundCall(Idle) /\ LinkCall(c, Idle) /\ DebitCall(Idle)
BY IdleIsCall DEF Idle, LinkCall, DebitCall

LEMMA AboutPasses ==
    ASSUME CollectInv, NEW c \in Calls, call[c].pc = "idle", NEW l \in 1..Len(links), NEW pc \in {"capture", "claim"},
           About(c, l, pc), UNCHANGED <<booksRest, collectVars, bookedFor>>
    PROVE  CollectInv'
<1>1. links \in Seq(Link) /\ today \in Days /\ money \in [1..Len(links) -> {"unpaid", "paid", "captured"}]
      /\ mandate \in [Docs -> [status : {"none", "ACTIVE", "REVOKED"}, used : BOOLEAN]] /\ l \in Nat
      /\ doubled \subseteq Batches \X Docs
  BY DEF CollectInv, TypeOK, BooksTypeOK
<1>2. PICK link : link = links[l]
  OBVIOUS
<1>3. link \in Link
  BY <1>1, <1>2, ElementOfSeq
<1>4. PICK r : r = [Idle EXCEPT !.op = "link", !.pc = pc, !.item = l, !.doc = link.doc,
                               !.amount = link.amount, !.day = today]
  OBVIOUS
<1>5. /\ r \in Call /\ r.op = "link" /\ r.pc = pc /\ r.item = l /\ r.doc = link.doc /\ r.amount = link.amount
      /\ r.ref = Idle.ref /\ r.doc \in Docs /\ r.day = today
  BY <1>1, <1>3, <1>4, IdleIsCall DEF Call, Link
<1>6. r.ref = None /\ r.day \in 0..today
  BY <1>1, <1>5, DaysAssumption DEF Idle
<1>7. Becomes(c, r)
  BY <1>2, <1>4 DEF About
<1>8. SoundCall(r) /\ LinkCall(c, r) /\ DebitCall(r)
  BY <1>2, <1>5, <1>6 DEF SoundCall, Receiving, LinkCall, DebitCall, Holding
<1>9. \A n \in 1..Len(links) : holder[n] # c
  BY HoldsNothing DEF Holding
<1> QED BY <1>1, <1>5, <1>7, <1>8, <1>9, RequestPasses DEF collectVars

LEMMA AskedAboutLinks ==
    ASSUME CollectInv, NEW c \in Calls, NEW l \in 1..Len(links), HandleStripeWebhook(c, l) \/ CompletePayPal(c, l)
    PROVE  CollectInv'
<1>1. UNCHANGED <<booksRest, collectVars, bookedFor>> /\ call[c].pc = "idle"
      /\ (Ends(c) \/ \E pc \in {"capture", "claim"} : About(c, l, pc))
  BY DEF HandleStripeWebhook, CompletePayPal
<1>2. CASE Ends(c)
  <2>1. \A n \in 1..Len(links) : holder[n] # c
    BY <1>1, HoldsNothing DEF Holding
  <2> QED BY <1>1, <1>2, <2>1, EndedPasses, RequestPasses DEF Ends, collectVars, CollectInv, TypeOK
<1>3. CASE \E pc \in {"capture", "claim"} : About(c, l, pc)
  BY <1>1, <1>3, AboutPasses
<1> QED BY <1>1, <1>2, <1>3

LEMMA CapturePasses ==
    ASSUME CollectInv, NEW c \in Calls, Capture(c)
    PROVE  CollectInv'
<1>1. PICK k : k = call[c]
  OBVIOUS
<1>2. k \in Call /\ SoundCall(k) /\ LinkCall(c, k) /\ DebitCall(k) /\ k.pc = "capture"
  BY <1>1 DEF CollectInv, BooksInv, BooksTypeOK, Capture
<1>3. /\ UNCHANGED <<booksRest, links, holder, batch, debit, mandate, bookedFor, cuts, doubled>>
      /\ Ends(c) \/ Goes(c, "claim")
      /\ money' = [money EXCEPT ![k.item] = "captured"]
  BY <1>1 DEF Capture
<1>4. money' \in [1..Len(links) -> {"unpaid", "paid", "captured"}]
  BY <1>3 DEF CollectInv, TypeOK
<1>5. /\ mandate' \in [Docs -> [status : {"none", "ACTIVE", "REVOKED"}, used : BOOLEAN]]
      /\ doubled' \subseteq Batches \X Docs
  BY <1>3 DEF CollectInv, TypeOK
<1>6. \A l \in 1..Len(links) : holder[l] # c
  BY <1>1, <1>2, HoldsNothing DEF Holding
<1>7. CASE Ends(c)
  BY <1>3, <1>4, <1>5, <1>6, <1>7, EndedPasses, RequestPasses DEF Ends
<1>8. CASE Goes(c, "claim")
  <2>1. PICK r : r = [k EXCEPT !.pc = "claim"]
    OBVIOUS
  <2>2. /\ r \in Call /\ r.op = k.op /\ r.item = k.item /\ r.doc = k.doc /\ r.amount = k.amount /\ r.ref = k.ref
        /\ r.pc = "claim" /\ r.found = k.found /\ r.lines = k.lines /\ r.day = k.day
    BY <1>2, <2>1 DEF Call
  <2>3. SoundCall(r) /\ LinkCall(c, r) /\ DebitCall(r)
    BY <1>2, <2>2 DEF SoundCall, LinkCall, DebitCall, Holding, Receiving
  <2>4. Becomes(c, r)
    BY <1>1, <1>8, <2>1 DEF Goes, Becomes
  <2> QED BY <1>3, <1>4, <1>5, <1>6, <2>2, <2>3, <2>4, RequestPasses
<1> QED BY <1>3, <1>7, <1>8

LEMMA ResultPasses ==
    ASSUME CollectInv, NEW c \in Calls, NEW b \in Batches, NEW d \in Docs, NEW collected \in BOOLEAN,
           Result(c, b, d, collected)
    PROVE  CollectInv'
<1>1. /\ today \in Days /\ money \in [1..Len(links) -> {"unpaid", "paid", "captured"}]
      /\ mandate \in [Docs -> [status : {"none", "ACTIVE", "REVOKED"}, used : BOOLEAN]]
      /\ b \in Nat /\ debit[b][d] \in DebitRow
  BY BoundsAssumption DEF CollectInv, TypeOK, BooksTypeOK, Batches
<1>2. PICK row : row = debit[b][d]
  OBVIOUS
<1>3. row.amount \in Nat
  BY <1>1, <1>2 DEF DebitRow
<1>4. PICK pc \in {"asked", "reject"} : pc = IF collected THEN "asked" ELSE "reject"
  OBVIOUS
<1>5. PICK r : r = [Idle EXCEPT !.op = "debit", !.item = b, !.doc = d, !.day = today,
                               !.amount = row.amount, !.bank = "BANK", !.pc = pc]
  OBVIOUS
<1>6. /\ r \in Call /\ r.op = "debit" /\ r.pc = pc /\ r.item = b /\ r.doc = d /\ r.amount = row.amount
      /\ r.ref = Idle.ref /\ r.day = today
  BY <1>1, <1>3, <1>5, IdleIsCall DEF Call
<1>7. r.ref = None /\ r.day \in 0..today
  BY <1>1, <1>6, DaysAssumption DEF Idle
<1>8. Becomes(c, r)
  BY <1>2, <1>4, <1>5 DEF Result
<1>9. SoundCall(r) /\ LinkCall(c, r) /\ DebitCall(r)
  BY <1>2, <1>6, <1>7 DEF Result, SoundCall, Receiving, LinkCall, DebitCall
<1>10. \A n \in 1..Len(links) : holder[n] # c
  BY HoldsNothing DEF Result, Holding
<1>11. doubled' \subseteq Batches \X Docs
  BY DEF Result, CollectInv, TypeOK
<1>12. UNCHANGED <<booksRest, links, holder, money, batch, debit, mandate, bookedFor, cuts>>
  BY DEF Result
<1> QED BY <1>1, <1>6, <1>8, <1>9, <1>10, <1>11, <1>12, RequestPasses

\* A request takes link l, lets go of it or closes it; the other links and requests
\* are as they were.
LEMMA LinkTurns ==
    ASSUME CollectInv, NEW c \in Calls, NEW r \in Call, Becomes(c, r), SoundCall(r),
           UNCHANGED <<booksRest, money, batch, debit, mandate, bookedFor, doubled>>,
           cuts' \in Nat, cuts' >= cuts,
           links' \in Seq(Link), Len(links') = Len(links), holder' \in [1..Len(links) -> Calls \cup {None}],
           \A n \in 1..Len(links) : links'[n].doc = links[n].doc /\ links'[n].amount = links[n].amount,
           NEW l,
           \A n \in 1..Len(links) : n # l => links'[n] = links[n] /\ holder'[n] = holder[n] /\ holder[n] # c,
           l \in 1..Len(links) =>
              /\ holder[l] \in {c, None}
              /\ \/ holder'[l] = None
                 \/ /\ holder'[l] = c /\ links'[l].status = "PENDING"
                    /\ r.op = "link" /\ r.item = l /\ r.pc \in Holding
              /\ links'[l].status = "PAID" =>
                    IF links'[l].note THEN links'[l].receipt = 0
                    ELSE /\ links'[l].receipt \in BookedFor(l)
                         /\ receipts[links'[l].receipt].doc = links'[l].doc
                         /\ receipts[links'[l].receipt].amount = links'[l].amount
              /\ Cardinality(BookedFor(l)) <= IF links'[l].status = "PAID" \/ (holder'[l] = c /\ r.pc = "booked")
                                                THEN cuts' + 1 ELSE cuts',
           LinkCall(c, r)', DebitCall(r)
    PROVE  CollectInv'
<1>1. BooksInv /\ call \in [Calls -> Call] /\ Len(links) \in Nat /\ TypeOK /\ cuts \in Nat
  BY LenProperties DEF CollectInv, TypeOK, BooksTypeOK
<1>2. BooksInv' /\ Grown
  BY <1>1, CallMoves DEF booksRest
<1>3. call'[c] = r /\ \A o \in Calls : o # c => call'[o] = call[o]
  BY <1>1, BecomesIt
<1>4. receipts' = receipts /\ \A n : BookedFor(n)' = BookedFor(n)
  BY DEF booksRest, BookedFor
<1>5. TypeOK'
  BY <1>1, <1>2, <1>4 DEF TypeOK, BooksInv
<1>6. NotedLinks'
  BY <1>4 DEF CollectInv, NotedLinks
<1>7. ASSUME NEW o \in Calls PROVE LinkCall(o, call[o])' /\ DebitCall(call[o])'
  <2>1. CASE o = c
    <3>1. call'[o] = r
      BY <1>3, <2>1
    <3> QED BY <2>1, <3>1 DEF LinkCall, DebitCall
  <2>2. CASE o # c
    <3>1. PICK q : q = call[o]
      OBVIOUS
    <3>2. LinkCall(o, q) /\ DebitCall(q) /\ call'[o] = q
      BY <1>3, <2>2, <3>1 DEF CollectInv
    <3>3. q.op = "link" /\ q.pc \in Holding => q.item # l
      BY <2>2, <3>2, NoneAssumption DEF LinkCall
    <3>4. LinkCall(o, q)'
      BY <1>4, <3>2, <3>3 DEF LinkCall
    <3>5. LinkCall(o, call[o])'
      BY <3>2, <3>4 DEF LinkCall
    <3>6. DebitCall(call[o])'
      BY <3>2 DEF DebitCall
    <3> QED BY <3>5, <3>6
  <2> QED BY <2>1, <2>2
<1>8. HeldWhilePending'
  <2>1. ASSUME NEW n \in 1..Len(links), holder'[n] # None
        PROVE  /\ links'[n].status = "PENDING"
               /\ call'[holder'[n]].op = "link" /\ call'[holder'[n]].item = n /\ call'[holder'[n]].pc \in Holding
    <3>1. CASE n = l
      BY <1>3, <2>1, <3>1
    <3>2. CASE n # l
      <4>1. holder[n] \in Calls /\ holder[n] # c /\ holder'[n] = holder[n] /\ links'[n] = links[n]
        BY <1>1, <2>1, <3>2 DEF TypeOK
      <4> QED BY <1>3, <2>1, <4>1 DEF CollectInv, HeldWhilePending
    <3> QED BY <3>1, <3>2
  <2> QED BY <2>1 DEF HeldWhilePending
<1>9. CountedOnce'
  <2>1. ASSUME NEW n \in 1..Len(links)
        PROVE  Cardinality(BookedFor(n)) <= IF Spent(n)' THEN cuts' + 1 ELSE cuts'
    <3>1. CASE n = l
      <4>1. Spent(n)' <=> (links'[l].status = "PAID" \/ (holder'[l] = c /\ r.pc = "booked"))
        BY <1>3, <3>1, NoneAssumption DEF Spent
      <4> QED BY <3>1, <4>1
    <3>2. CASE n # l
      <4>1. (holder[n] = None \/ holder[n] \in Calls) /\ holder[n] # c /\ holder'[n] = holder[n] /\ links'[n] = links[n]
        BY <1>1, <3>2 DEF TypeOK
      <4>2. Spent(n)' <=> Spent(n)
        BY <1>3, <4>1 DEF Spent
      <4>3. /\ Cardinality(BookedFor(n)) <= (IF Spent(n) THEN cuts + 1 ELSE cuts)
            /\ Cardinality(BookedFor(n)) \in Nat
        BY BookedForIs DEF CollectInv, CountedOnce
      <4> QED BY <1>1, <4>2, <4>3
    <3> QED BY <3>1, <3>2
  <2> QED BY <1>4, <2>1 DEF CountedOnce
<1>10. PaidLinkIsBookedOrNoted'
  <2>1. ASSUME NEW n \in 1..Len(links), links'[n].status = "PAID"
        PROVE  IF links'[n].note THEN links'[n].receipt = 0
               ELSE /\ links'[n].receipt \in BookedFor(n)
                    /\ receipts[links'[n].receipt].doc = links'[n].doc
                    /\ receipts[links'[n].receipt].amount = links'[n].amount
    <3>1. CASE n = l
      BY <2>1, <3>1
    <3>2. CASE n # l
      BY <2>1, <3>2 DEF CollectInv, PaidLinkIsBookedOrNoted
    <3> QED BY <3>1, <3>2
  <2> QED BY <1>4, <2>1 DEF PaidLinkIsBookedOrNoted
<1>11. BatchesSound' /\ OneOpen'
  BY DEF CollectInv, BatchesSound, OneOpen, OpenDebits, Committed
<1>12. CollectedIsBooked'
  BY <1>4 DEF CollectInv, CollectedIsBooked, Committed
<1> QED BY <1>2, <1>5, <1>6, <1>7, <1>8, <1>9, <1>10, <1>11, <1>12 DEF CollectInv

LEMMA MarkPaidPasses ==
    ASSUME CollectInv, NEW c \in Calls, MarkPaid(c)
    PROVE  CollectInv'
<1>1. PICK k : k = call[c]
  OBVIOUS
<1>2. PICK l : l = k.item
  OBVIOUS
<1>3. /\ k \in Call /\ SoundCall(k) /\ LinkCall(c, k) /\ DebitCall(k) /\ k.pc = "claim" /\ k.op = "link"
      /\ l \in 1..Len(links) /\ holder[l] = None /\ TypeOK
  BY <1>1, <1>2 DEF CollectInv, BooksInv, BooksTypeOK, MarkPaid, LinkCall
<1>4. \A n \in 1..Len(links) : holder[n] # c
  BY <1>1, <1>3, HoldsNothing DEF Holding
<1>5. UNCHANGED <<booksRest, links, money, batch, debit, mandate, bookedFor, cuts, doubled>>
  BY DEF MarkPaid
<1>6. CASE links[l].status # "PENDING"
  <2>1. Ends(c) /\ UNCHANGED holder
    BY <1>1, <1>2, <1>6 DEF MarkPaid
  <2> QED BY <1>3, <1>4, <1>5, <2>1, EndedPasses, RequestPasses DEF Ends, TypeOK
<1>7. CASE links[l].status = "PENDING"
  <2>1. PICK pc \in {"asked", "refused"} : Goes(c, pc) /\ holder' = [holder EXCEPT ![l] = c]
    BY <1>1, <1>2, <1>7 DEF MarkPaid
  <2>2. PICK r : r = [k EXCEPT !.pc = pc]
    OBVIOUS
  <2>3. /\ r \in Call /\ r.op = "link" /\ r.item = l /\ r.doc = k.doc /\ r.amount = k.amount /\ r.ref = k.ref
        /\ r.pc = pc /\ r.day = k.day
    BY <1>2, <1>3, <2>2 DEF Call
  <2>4. Becomes(c, r)
    BY <1>1, <2>1, <2>2 DEF Goes, Becomes
  <2>5. SoundCall(r) /\ DebitCall(r)
    BY <1>3, <2>3 DEF SoundCall, DebitCall, Receiving
  <2>6. /\ holder' \in [1..Len(links) -> Calls \cup {None}] /\ holder'[l] = c
        /\ \A n \in 1..Len(links) : n # l => holder'[n] = holder[n]
    BY <1>3, <2>1 DEF TypeOK
  <2>7. LinkCall(c, r)'
    BY <1>2, <1>3, <1>5, <2>3, <2>6 DEF LinkCall, Holding
  <2>8. Cardinality(BookedFor(l)) <= cuts
    BY <1>3, <1>7 DEF CollectInv, CountedOnce, Spent
  <2>9. /\ cuts' = cuts /\ links' = links /\ links \in Seq(Link) /\ cuts \in Nat /\ r.pc # "booked"
        /\ r.pc \in Holding
    BY <1>3, <1>5, <2>3 DEF TypeOK, Holding
  <2>10. \A n \in 1..Len(links) : n # l => links'[n] = links[n] /\ holder'[n] = holder[n] /\ holder[n] # c
    BY <1>4, <2>6, <2>9
  <2>11. /\ holder[l] \in {c, None} /\ holder'[l] = c /\ links'[l].status = "PENDING"
         /\ Cardinality(BookedFor(l)) <= cuts'
    BY <1>3, <1>7, <2>6, <2>8, <2>9
  <2>12. UNCHANGED <<booksRest, money, batch, debit, mandate, bookedFor, doubled>>
    BY <1>5
  <2> QED BY <1>3, <2>3, <2>4, <2>5, <2>6, <2>7, <2>9, <2>10, <2>11, <2>12, LinkTurns
<1> QED BY <1>6, <1>7

LEMMA CloseLinkPasses ==
    ASSUME CollectInv, NEW c \in Calls, CloseLink(c)
    PROVE  CollectInv'
<1>1. PICK k : k = call[c]
  OBVIOUS
<1>2. PICK l : l = k.item
  OBVIOUS
<1>3. /\ k \in Call /\ SoundCall(k) /\ LinkCall(c, k) /\ k.op = "link" /\ k.pc \in {"booked", "refused"}
      /\ TypeOK
  BY <1>1 DEF CollectInv, BooksInv, BooksTypeOK, CloseLink
<1>4. /\ l \in 1..Len(links) /\ holder[l] = c /\ k.doc = links[l].doc /\ k.amount = links[l].amount
      /\ k.pc = "booked" => k.found \in BookedFor(l)
  BY <1>2, <1>3 DEF LinkCall, Holding
<1>5. /\ UNCHANGED <<booksRest, money, batch, debit, mandate, bookedFor, cuts, doubled>>
      /\ holder' = [holder EXCEPT ![l] = None] /\ Becomes(c, Idle)
  BY <1>1, <1>2 DEF CloseLink, Ends
<1>6. PICK found \in Nat : found = IF k.pc = "booked" THEN k.found ELSE 0
  BY <1>3 DEF Call
<1>7. PICK note \in BOOLEAN : note = (k.pc = "refused")
  OBVIOUS
<1>8. PICK row : row = [links[l] EXCEPT !.status = "PAID", !.receipt = found, !.note = note]
  OBVIOUS
<1>9. links' = [links EXCEPT ![l] = row]
  BY <1>1, <1>2, <1>6, <1>7, <1>8 DEF CloseLink
<1>10. links \in Seq(Link) /\ links[l] \in Link
  BY <1>3, <1>4, ElementOfSeq DEF TypeOK
<1>11. /\ row \in Link /\ row.status = "PAID" /\ row.receipt = found /\ row.note = note
       /\ row.doc = links[l].doc /\ row.amount = links[l].amount
  <2>1. PICK g : g = links[l]
    OBVIOUS
  <2> QED BY <1>8, <1>10, <2>1 DEF Link
<1>12. /\ links' \in Seq(Link) /\ Len(links') = Len(links) /\ links'[l] = row
       /\ \A n \in 1..Len(links) : n # l => links'[n] = links[n]
  BY <1>4, <1>9, <1>10, <1>11, ExceptSeq
<1>13. /\ holder' \in [1..Len(links) -> Calls \cup {None}] /\ holder'[l] = None
       /\ \A n \in 1..Len(links) : n # l => holder'[n] = holder[n]
  BY <1>3, <1>4, <1>5 DEF TypeOK
<1>14. \A n \in 1..Len(links) : n # l => holder[n] # c
  BY <1>1, <1>2, NoneAssumption DEF CollectInv, HeldWhilePending
<1>15. \A n \in 1..Len(links) : links'[n].doc = links[n].doc /\ links'[n].amount = links[n].amount
  BY <1>11, <1>12
<1>16. IF row.note THEN row.receipt = 0
       ELSE /\ row.receipt \in BookedFor(l)
            /\ receipts[row.receipt].doc = row.doc
            /\ receipts[row.receipt].amount = row.amount
  <2>1. CASE k.pc = "booked"
    BY <1>3, <1>4, <1>6, <1>7, <1>11, <2>1 DEF SoundCall
  <2>2. CASE k.pc = "refused"
    BY <1>6, <1>7, <1>11, <2>2
  <2> QED BY <1>3, <2>1, <2>2
<1>17. Cardinality(BookedFor(l)) <= cuts + 1 /\ cuts \in Nat
  <2>1. /\ Cardinality(BookedFor(l)) <= (IF Spent(l) THEN cuts + 1 ELSE cuts)
        /\ Cardinality(BookedFor(l)) \in Nat
    BY <1>4, BookedForIs DEF CollectInv, CountedOnce
  <2> QED BY <1>3, <2>1 DEF TypeOK
<1>18. LinkCall(c, Idle)' /\ DebitCall(Idle) /\ Idle \in Call /\ SoundCall(Idle)
  BY EndedPasses DEF LinkCall, Idle
<1>19. PICK r : r = Idle
  OBVIOUS
<1>20. LinkCall(c, r)'
  BY <1>18, <1>19 DEF LinkCall
<1>21. cuts' = cuts /\ cuts \in Nat /\ r \in Call /\ SoundCall(r) /\ DebitCall(r) /\ Becomes(c, r)
  BY <1>5, <1>17, <1>18, <1>19
<1>22. \A n \in 1..Len(links) : n # l => links'[n] = links[n] /\ holder'[n] = holder[n] /\ holder[n] # c
  BY <1>12, <1>13, <1>14
<1>23. /\ holder[l] = c /\ holder'[l] = None /\ Cardinality(BookedFor(l)) <= cuts' + 1
       /\ links'[l].status = "PAID"
       /\ IF links'[l].note THEN links'[l].receipt = 0
          ELSE /\ links'[l].receipt \in BookedFor(l)
               /\ receipts[links'[l].receipt].doc = links'[l].doc
               /\ receipts[links'[l].receipt].amount = links'[l].amount
  BY <1>4, <1>11, <1>12, <1>13, <1>16, <1>17, <1>21
<1>24. UNCHANGED <<booksRest, money, batch, debit, mandate, bookedFor, doubled>>
  BY <1>5
<1> QED BY <1>12, <1>13, <1>15, <1>20, <1>21, <1>22, <1>23, <1>24, LinkTurns

LEMMA CutPasses ==
    ASSUME CollectInv, NEW c \in Calls, Cut(c)
    PROVE  CollectInv'
<1>1. PICK k : k = call[c]
  OBVIOUS
<1>2. PICK l : l = IF k.op = "link" /\ k.pc \in Holding THEN k.item ELSE 0
  OBVIOUS
<1>3. TypeOK /\ LinkCall(c, k) /\ k.op \in Collecting
  BY <1>1 DEF CollectInv, Cut, Collecting
<1>4. /\ UNCHANGED <<booksRest, links, money, batch, debit, mandate, bookedFor, doubled>> /\ cuts' = cuts + 1
      /\ holder' = [n \in 1..Len(links) |-> IF holder[n] = c THEN None ELSE holder[n]] /\ Becomes(c, Idle)
  BY DEF Cut, Ends
<1>5. ASSUME NEW n \in 1..Len(links), n # l PROVE holder[n] # c /\ holder'[n] = holder[n]
  <2>1. holder[n] # c
    BY <1>1, <1>2, <1>5, NoneAssumption DEF CollectInv, HeldWhilePending
  <2> QED BY <1>4, <2>1
<1>6. ASSUME l \in 1..Len(links)
      PROVE  /\ holder[l] \in {c, None} /\ holder'[l] = None
             /\ links[l].status = "PAID" =>
                   IF links[l].note THEN links[l].receipt = 0
                   ELSE /\ links[l].receipt \in BookedFor(l)
                        /\ receipts[links[l].receipt].doc = links[l].doc
                        /\ receipts[links[l].receipt].amount = links[l].amount
             /\ Cardinality(BookedFor(l)) <= cuts + 1
  <2>1. /\ Cardinality(BookedFor(l)) <= (IF Spent(l) THEN cuts + 1 ELSE cuts)
        /\ Cardinality(BookedFor(l)) \in Nat /\ cuts \in Nat
    BY <1>3, <1>6, BookedForIs DEF CollectInv, CountedOnce, TypeOK
  <2>2. holder[l] = c /\ holder'[l] = None
    BY <1>2, <1>3, <1>4, <1>6 DEF LinkCall
  <2>3. links[l].status = "PAID" =>
           IF links[l].note THEN links[l].receipt = 0
           ELSE /\ links[l].receipt \in BookedFor(l)
                /\ receipts[links[l].receipt].doc = links[l].doc
                /\ receipts[links[l].receipt].amount = links[l].amount
    BY <1>6 DEF CollectInv, PaidLinkIsBookedOrNoted
  <2> QED BY <2>1, <2>2, <2>3
<1>7. /\ cuts' \in Nat /\ cuts' >= cuts /\ links' \in Seq(Link) /\ Len(links') = Len(links)
      /\ holder' \in [1..Len(links) -> Calls \cup {None}]
      /\ \A n \in 1..Len(links) : links'[n].doc = links[n].doc /\ links'[n].amount = links[n].amount
  BY <1>3, <1>4 DEF TypeOK
<1>8. PICK r : r = Idle
  OBVIOUS
<1>9. LinkCall(c, r)' /\ DebitCall(r) /\ r \in Call /\ SoundCall(r) /\ Becomes(c, r)
  <2>1. LinkCall(c, Idle)'
    BY DEF LinkCall, Idle
  <2>2. LinkCall(c, r)'
    BY <1>8, <2>1 DEF LinkCall
  <2> QED BY <1>4, <1>8, <2>2, EndedPasses
<1>10. l \in 1..Len(links) =>
          /\ holder[l] \in {c, None}
          /\ holder'[l] = None
          /\ links'[l].status = "PAID" =>
                IF links'[l].note THEN links'[l].receipt = 0
                ELSE /\ links'[l].receipt \in BookedFor(l)
                     /\ receipts[links'[l].receipt].doc = links'[l].doc
                     /\ receipts[links'[l].receipt].amount = links'[l].amount
          /\ Cardinality(BookedFor(l)) <= cuts'
  BY <1>4, <1>6
<1>11. l \in 1..Len(links) =>
          Cardinality(BookedFor(l)) <= IF links'[l].status = "PAID" \/ (holder'[l] = c /\ r.pc = "booked")
                                         THEN cuts' + 1 ELSE cuts'
  <2>1. cuts' \in Nat /\ Cardinality(BookedFor(l)) \in Nat
    BY <1>7, BookedForIs DEF CollectInv
  <2> QED BY <1>10, <2>1
<1>12. UNCHANGED <<booksRest, money, batch, debit, mandate, bookedFor, doubled>>
  BY <1>4
<1>13. \A n \in 1..Len(links) : n # l => links'[n] = links[n] /\ holder'[n] = holder[n] /\ holder[n] # c
  BY <1>4, <1>5
<1> QED BY <1>7, <1>9, <1>10, <1>11, <1>12, <1>13, LinkTurns

-----------------------------------------------------------------------------
(* Direct debits, and what is outstanding *)

\* The receipts of an invoice add up to a number, and so does what is outstanding.
LEMMA OutstandingIsInt ==
    ASSUME BooksTypeOK, NEW d \in Docs
    PROVE  Received(d) \in Int /\ Outstanding(d) \in Int
<1> DEFINE f == [i \in DOMAIN receipts |->
                   IF receipts[i].doc = d /\ receipts[i].reversal = 0 THEN receipts[i].amount ELSE 0]
<1>1. /\ DOMAIN receipts = 1..Len(receipts) /\ Len(receipts) \in Nat
      /\ \A i \in DOMAIN receipts : receipts[i].amount \in Int
  <2>1. receipts \in Seq(Receipt) /\ \A r \in Receipt : r.amount \in Int
    BY DEF BooksTypeOK, Receipt
  <2> QED BY <2>1, LenProperties, ElementOfSeq
<1>2. Summable(f)
  BY <1>1, FS_Interval DEF Summable
<1>3. Received(d) \in Int
  BY <1>2, SumIsInt DEF Received
<1> QED BY <1>3, DocsAssumption DEF Outstanding

\* Only batches and their debits change, or a call about one of them ends.
LEMMA DebitsTurn ==
    ASSUME CollectInv, BooksInv', Grown, UNCHANGED <<links, holder, money, bookedFor, cuts, doubled, receipts>>,
           batch' \in [Batches -> [status : BatchStatuses, discarding : BOOLEAN]],
           debit' \in [Batches -> [Docs -> DebitRow]],
           mandate' \in [Docs -> [status : {"none", "ACTIVE", "REVOKED"}, used : BOOLEAN]],
           \A o \in Calls : call'[o] = call[o] \/ (call[o].op # "link" /\ call'[o] = Idle),
           \A o \in Calls : call[o].op = "debit" => DebitCall(call[o])',
           BatchesSound', OneOpen', CollectedIsBooked'
    PROVE  CollectInv'
<1>1. TypeOK'
  BY DEF CollectInv, TypeOK, BooksInv
<1>2. NotedLinks'
  BY DEF CollectInv, NotedLinks
<1>3. ASSUME NEW o \in Calls PROVE LinkCall(o, call[o])' /\ DebitCall(call[o])'
  <2>1. CASE call'[o] = Idle
    <3>1. call'[o].op = "none" /\ call'[o].pc = "idle"
      BY <2>1 DEF Idle
    <3> QED BY <3>1 DEF LinkCall, DebitCall
  <2>2. CASE call'[o] = call[o]
    <3>1. LinkCall(o, call[o])
      BY DEF CollectInv
    <3>2. LinkCall(o, call[o])'
      BY <2>2, <3>1 DEF LinkCall, BookedFor
    <3>3. DebitCall(call[o])'
      BY <2>2 DEF DebitCall
    <3> QED BY <3>2, <3>3
  <2> QED BY <2>1, <2>2
<1>4. \A l \in 1..Len(links) : holder[l] # None =>
         holder[l] \in Calls /\ call[holder[l]].op = "link" /\ call'[holder[l]] = call[holder[l]]
  <2>1. ASSUME NEW l \in 1..Len(links), holder[l] # None
        PROVE  holder[l] \in Calls /\ call[holder[l]].op = "link"
    BY <2>1 DEF CollectInv, TypeOK, HeldWhilePending
  <2> QED BY <2>1
<1>5. HeldWhilePending'
  BY <1>4 DEF CollectInv, HeldWhilePending
<1>6. CountedOnce'
  <2>1. \A l \in 1..Len(links) : Spent(l)' <=> Spent(l)
    BY <1>4 DEF Spent
  <2> QED BY <2>1 DEF CollectInv, CountedOnce, BookedFor
<1>7. PaidLinkIsBookedOrNoted'
  BY DEF CollectInv, PaidLinkIsBookedOrNoted, BookedFor
<1> QED BY <1>1, <1>2, <1>3, <1>5, <1>6, <1>7 DEF CollectInv

LEMMA NothingBooked == BooksInv /\ UNCHANGED booksVars => BooksInv' /\ Grown /\ UNCHANGED <<call, receipts>>
<1> SUFFICES ASSUME BooksInv, UNCHANGED booksVars PROVE BooksInv' /\ Grown /\ UNCHANGED <<call, receipts>>
  OBVIOUS
<1>1. UNCHANGED <<booksRest, call>>
  BY DEF booksVars
<1>2. \A c \in Calls : SoundCall(call[c])'
  BY <1>1 DEF BooksInv, SoundCall, ReceiptLines, booksRest
<1> QED BY <1>1, <1>2, NothingStored DEF BooksInv, BooksTypeOK, ReceiptsMatchJournals, UniqueRefs, booksRest

\* A batch's state changes, its debits do not.
LEMMA BatchTurns ==
    ASSUME CollectInv, UNCHANGED <<booksVars, links, holder, money, debit, bookedFor, cuts, doubled>>,
           mandate' \in [Docs -> [status : {"none", "ACTIVE", "REVOKED"}, used : BOOLEAN]],
           NEW b \in Batches, NEW now \in BatchStatuses, NEW discarding \in BOOLEAN,
           batch' = [batch EXCEPT ![b] = [status |-> now, discarding |-> discarding]],
           batch[b].status \in {"SENT", "gone"} => now = batch[b].status,
           now \notin {"none", "gone", "building"} \/ now = batch[b].status,
           discarding => now \in {"DRAFT", "SENT"},
           now \in {"DRAFT", "SENT"} =>
              \/ batch[b].status \in {"DRAFT", "SENT"}
              \/ batch[b].status = "building" /\ \A d \in Docs : debit[b][d].status # "PENDING" \/ OpenDebits(d) = {}
    PROVE  CollectInv'
<1>1. BooksInv' /\ Grown /\ UNCHANGED <<call, receipts>>
  BY NothingBooked DEF CollectInv
<1>2. batch \in [Batches -> [status : BatchStatuses, discarding : BOOLEAN]] /\ debit \in [Batches -> [Docs -> DebitRow]]
  BY DEF CollectInv, TypeOK
<1>3. /\ batch' \in [Batches -> [status : BatchStatuses, discarding : BOOLEAN]]
      /\ batch'[b].status = now /\ batch'[b].discarding = discarding
      /\ \A a \in Batches : a # b => batch'[a] = batch[a]
  BY <1>2
<1>4. \A o \in Calls : call[o].op = "debit" => DebitCall(call[o])'
  BY <1>1, <1>3 DEF CollectInv, DebitCall
<1>5. BatchesSound'
  BY <1>3 DEF CollectInv, BatchesSound
<1>6. \A a \in Batches : a \in Committed' => a \in Committed \/ (a = b /\ batch[b].status = "building")
  BY <1>3 DEF Committed
<1>7. batch[b].status = "building" => \A d \in Docs : debit[b][d].status \in {"none", "PENDING"}
  BY DEF CollectInv, BatchesSound
<1>8. OneOpen'
  <2>1. ASSUME NEW d \in Docs, NEW a \in OpenDebits(d)', NEW e \in OpenDebits(d)' PROVE a = e
    <3>1. \A x \in OpenDebits(d)' :
             \/ x \in OpenDebits(d)
             \/ x = b /\ batch[b].status = "building" /\ debit[b][d].status = "PENDING" /\ now \in {"DRAFT", "SENT"}
      BY <1>3, <1>6, <1>7 DEF OpenDebits, Committed
    <3>2. OpenDebits(d) = {} \/ \A x \in OpenDebits(d)' : x \in OpenDebits(d)
      BY <3>1
    <3>3. \A x, y \in OpenDebits(d) : x = y
      BY DEF CollectInv, OneOpen
    <3> QED BY <3>1, <3>2, <3>3
  <2> QED BY <2>1 DEF OneOpen
<1>9. CollectedIsBooked'
  <2>1. ASSUME NEW a \in Committed', NEW d \in Docs, debit[a][d].status = "COLLECTED"
        PROVE  /\ debit[a][d].receipt \in 1..Len(receipts)
               /\ receipts[debit[a][d].receipt].doc = d
               /\ receipts[debit[a][d].receipt].amount = debit[a][d].amount
    <3>1. a \in Batches
      BY DEF Committed
    <3>2. a \in Committed
      BY <1>6, <1>7, <2>1, <3>1
    <3> QED BY <2>1, <3>2 DEF CollectInv, CollectedIsBooked
  <2> QED BY <1>1, <2>1 DEF CollectedIsBooked
<1> QED BY <1>1, <1>2, <1>3, <1>4, <1>5, <1>8, <1>9, DebitsTurn

LEMMA CommitBatchPasses ==
    ASSUME CollectInv, NEW b \in Batches, CommitBatch(b) \/ MarkSent(b) \/ ReadToDiscard(b)
    PROVE  CollectInv'
<1>1. /\ batch \in [Batches -> [status : BatchStatuses, discarding : BOOLEAN]]
      /\ mandate \in [Docs -> [status : {"none", "ACTIVE", "REVOKED"}, used : BOOLEAN]]
      /\ batch[b].discarding => batch[b].status \in {"DRAFT", "SENT"}
  BY DEF CollectInv, TypeOK, BatchesSound
<1>2. PICK row \in [status : BatchStatuses, discarding : BOOLEAN] : row = batch[b]
  BY <1>1
<1>3. \A s \in BatchStatuses : [row EXCEPT !.status = s] = [status |-> s, discarding |-> row.discarding]
  OBVIOUS
<1>4. [row EXCEPT !.discarding = TRUE] = [status |-> row.status, discarding |-> TRUE]
  <2>1. PICK q : q = [row EXCEPT !.discarding = TRUE]
    OBVIOUS
  <2>2. q \in [status : BatchStatuses, discarding : BOOLEAN] /\ q.status = row.status /\ q.discarding = TRUE
    BY <2>1
  <2> QED BY <2>1, <2>2
<1>5. CASE CommitBatch(b)
  <2>1. PICK now \in {"failed", "DRAFT"} :
           /\ batch' = [batch EXCEPT ![b].status = now]
           /\ now = "DRAFT" => \A d \in Docs : debit[b][d].status # "PENDING" \/ OpenDebits(d) = {}
    <3>1. CASE \E d \in Docs : debit[b][d].status = "PENDING" /\ OpenDebits(d) # {}
      BY <1>5, <3>1 DEF CommitBatch
    <3>2. CASE ~\E d \in Docs : debit[b][d].status = "PENDING" /\ OpenDebits(d) # {}
      BY <1>5, <3>2 DEF CommitBatch
    <3> QED BY <3>1, <3>2
  <2>2. batch' = [batch EXCEPT ![b] = [status |-> now, discarding |-> row.discarding]]
    <3>1. batch' = [batch EXCEPT ![b] = [row EXCEPT !.status = now]] /\ now \in BatchStatuses
      BY <1>2, <2>1 DEF BatchStatuses
    <3> QED BY <1>3, <3>1
  <2>3. row.status = "building" /\ ~row.discarding /\ now \in BatchStatuses
    BY <1>1, <1>2, <1>5, <2>1 DEF CommitBatch, BatchStatuses
  <2> QED BY <1>1, <1>2, <1>5, <2>1, <2>2, <2>3, BatchTurns DEF CommitBatch
<1>6. CASE MarkSent(b)
  <2>1. batch' = [batch EXCEPT ![b] = [status |-> "SENT", discarding |-> row.discarding]] /\ "SENT" \in BatchStatuses
    <3>1. batch' = [batch EXCEPT ![b] = [row EXCEPT !.status = "SENT"]] /\ "SENT" \in BatchStatuses
      BY <1>2, <1>6 DEF MarkSent, BatchStatuses
    <3> QED BY <1>3, <3>1
  <2>2. row.status = "DRAFT"
    BY <1>2, <1>6 DEF MarkSent
  <2>3. mandate' \in [Docs -> [status : {"none", "ACTIVE", "REVOKED"}, used : BOOLEAN]]
    BY <1>1, <1>6 DEF MarkSent
  <2>4. row.status \notin {"SENT", "gone"} /\ row.discarding \in BOOLEAN
    BY <1>2, <2>2
  <2>5. UNCHANGED <<booksVars, links, holder, money, debit, bookedFor, cuts, doubled>>
    BY <1>6 DEF MarkSent
  <2> QED BY <1>2, <2>1, <2>2, <2>3, <2>4, <2>5, BatchTurns
<1>7. CASE ReadToDiscard(b)
  <2>1. batch' = [batch EXCEPT ![b] = [status |-> row.status, discarding |-> TRUE]]
    <3>1. batch' = [batch EXCEPT ![b] = [row EXCEPT !.discarding = TRUE]]
      BY <1>2, <1>7 DEF ReadToDiscard
    <3> QED BY <1>4, <3>1
  <2>2. row.status = "DRAFT"
    BY <1>2, <1>7 DEF ReadToDiscard
  <2> QED BY <1>1, <1>2, <1>7, <2>1, <2>2, BatchTurns DEF ReadToDiscard
<1> QED BY <1>5, <1>6, <1>7

LEMMA DiscardPasses ==
    ASSUME CollectInv, NEW b \in Batches, Discard(b)
    PROVE  CollectInv'
<1>1. BooksInv' /\ Grown /\ UNCHANGED <<call, receipts>>
  BY NothingBooked DEF CollectInv, Discard
<1> PICK none : none = [d \in Docs |-> NoDebit]
  OBVIOUS
<1>2. none \in [Docs -> DebitRow] /\ none = [d \in Docs |-> NoDebit] /\ \A d \in Docs : none[d].status = "none"
  <2>1. NoDebit \in DebitRow /\ NoDebit.status = "none"
    BY DEF NoDebit, DebitRow
  <2> QED BY <2>1
<1>3. /\ batch \in [Batches -> [status : BatchStatuses, discarding : BOOLEAN]] /\ debit \in [Batches -> [Docs -> DebitRow]]
      /\ batch' = [batch EXCEPT ![b] = [status |-> "gone", discarding |-> FALSE]]
      /\ debit' = [debit EXCEPT ![b] = none] /\ batch[b].status \in {"DRAFT", "SENT"}
      /\ UNCHANGED <<links, holder, money, mandate, bookedFor, cuts, doubled>>
  BY <1>2 DEF CollectInv, TypeOK, BatchesSound, Discard
<1>4. /\ batch' \in [Batches -> [status : BatchStatuses, discarding : BOOLEAN]] /\ debit' \in [Batches -> [Docs -> DebitRow]]
      /\ batch'[b].status = "gone" /\ ~batch'[b].discarding /\ debit'[b] = none
      /\ \A a \in Batches : a # b => batch'[a] = batch[a] /\ debit'[a] = debit[a]
  <2>1. /\ batch' \in [Batches -> [status : BatchStatuses, discarding : BOOLEAN]]
        /\ batch'[b].status = "gone" /\ ~batch'[b].discarding
        /\ \A a \in Batches : a # b => batch'[a] = batch[a]
    BY <1>3 DEF BatchStatuses
  <2>2. /\ debit' \in [Batches -> [Docs -> DebitRow]] /\ debit'[b] = none
        /\ \A a \in Batches : a # b => debit'[a] = debit[a]
    BY <1>2, <1>3
  <2> QED BY <2>1, <2>2
<1>5. \A o \in Calls : call[o].op = "debit" => DebitCall(call[o])'
  <2>1. ASSUME NEW o \in Calls, call[o].op = "debit" PROVE DebitCall(call[o])'
    <3>1. PICK q : q = call[o]
      OBVIOUS
    <3>2. DebitCall(q) /\ SoundCall(q) /\ q.op = "debit" /\ q.doc \in Docs
      BY <2>1, <3>1 DEF CollectInv, BooksInv, SoundCall, Receiving
    <3>3. call'[o] = q
      BY <1>1, <3>1
    <3>4. q.item \in Batches /\ (q.item = b \/ (batch'[q.item] = batch[q.item] /\ debit'[q.item] = debit[q.item]))
      BY <1>4, <3>2 DEF DebitCall
    <3> QED BY <1>2, <1>4, <3>2, <3>3, <3>4 DEF DebitCall
  <2> QED BY <2>1
<1>6. BatchesSound'
  BY <1>2, <1>4 DEF CollectInv, BatchesSound
<1>7. \A a \in Batches : a \in Committed' => a # b /\ a \in Committed
  BY <1>4 DEF Committed
<1>8. \A d \in Docs : \A a \in OpenDebits(d)' : a \in OpenDebits(d)
  BY <1>4, <1>7 DEF OpenDebits, Committed
<1>9. OneOpen'
  BY <1>8 DEF CollectInv, OneOpen
<1>10. CollectedIsBooked'
  <2>1. ASSUME NEW a \in Committed' PROVE a \in Committed /\ debit'[a] = debit[a]
    BY <1>4, <1>7 DEF Committed
  <2> QED BY <1>1, <2>1 DEF CollectInv, CollectedIsBooked
<1> QED BY <1>1, <1>3, <1>4, <1>5, <1>6, <1>9, <1>10, DebitsTurn DEF CollectInv, TypeOK

LEMMA BuildBatchPasses ==
    ASSUME CollectInv, NEW b \in Batches, NEW docs \in SUBSET Docs, BuildBatch(b, docs)
    PROVE  CollectInv'
<1>1. BooksInv' /\ Grown /\ UNCHANGED <<call, receipts>>
  BY NothingBooked DEF CollectInv, BuildBatch
<1>2. PICK rows : rows = [d \in Docs |-> IF d \in docs
                            THEN [status |-> "PENDING", amount |-> Outstanding(d), receipt |-> 0,
                                  seq |-> IF mandate[d].used THEN "RCUR" ELSE "FRST"]
                            ELSE NoDebit]
  OBVIOUS
<1>3. \A d \in Docs : rows[d] \in DebitRow /\ rows[d].status \in {"none", "PENDING"}
  <2>1. ASSUME NEW d \in docs PROVE Outstanding(d) \in Nat
    <3>1. Outstanding(d) > 0 /\ Outstanding(d) \in Int
      BY <2>1, OutstandingIsInt DEF BuildBatch, CollectInv, BooksInv
    <3> QED BY <3>1
  <2> QED BY <1>2, <2>1 DEF DebitRow, NoDebit
<1>4. rows \in [Docs -> DebitRow]
  BY <1>2, <1>3
<1>5. /\ batch \in [Batches -> [status : BatchStatuses, discarding : BOOLEAN]] /\ debit \in [Batches -> [Docs -> DebitRow]]
      /\ batch' = [batch EXCEPT ![b].status = "building"]
      /\ debit' = [debit EXCEPT ![b] = rows] /\ batch[b].status = "none" /\ ~batch[b].discarding
      /\ UNCHANGED <<links, holder, money, mandate, bookedFor, cuts, doubled>>
  BY <1>2 DEF CollectInv, TypeOK, BatchesSound, BuildBatch
<1>6. /\ batch' \in [Batches -> [status : BatchStatuses, discarding : BOOLEAN]] /\ debit' \in [Batches -> [Docs -> DebitRow]]
      /\ batch'[b].status = "building" /\ ~batch'[b].discarding /\ debit'[b] = rows
      /\ \A a \in Batches : a # b => batch'[a] = batch[a] /\ debit'[a] = debit[a]
  BY <1>4, <1>5 DEF BatchStatuses
<1>7. \A o \in Calls : call[o].op = "debit" => DebitCall(call[o])'
  <2>1. ASSUME NEW o \in Calls, call[o].op = "debit" PROVE DebitCall(call[o])'
    <3>1. PICK q : q = call[o]
      OBVIOUS
    <3>2. DebitCall(q) /\ q.op = "debit" /\ q.item \in Batches /\ q.item # b
      BY <1>5, <2>1, <3>1 DEF CollectInv, DebitCall
    <3>3. call'[o] = q /\ batch'[q.item] = batch[q.item] /\ debit'[q.item] = debit[q.item]
      BY <1>1, <1>6, <3>1, <3>2
    <3> QED BY <3>2, <3>3 DEF DebitCall
  <2> QED BY <2>1
<1>8. BatchesSound'
  BY <1>3, <1>6 DEF CollectInv, BatchesSound
<1>9. \A a \in Batches : a \in Committed' => a # b /\ a \in Committed
  BY <1>6 DEF Committed
<1>10. \A d \in Docs : \A a \in OpenDebits(d)' : a \in OpenDebits(d)
  BY <1>6, <1>9 DEF OpenDebits, Committed
<1>11. OneOpen'
  BY <1>10 DEF CollectInv, OneOpen
<1>12. CollectedIsBooked'
  <2>1. ASSUME NEW a \in Committed' PROVE a \in Committed /\ debit'[a] = debit[a]
    BY <1>6, <1>9 DEF Committed
  <2> QED BY <1>1, <2>1 DEF CollectInv, CollectedIsBooked
<1> QED BY <1>1, <1>5, <1>6, <1>7, <1>8, <1>11, <1>12, DebitsTurn DEF CollectInv, TypeOK

\* The bank's answer is written: a collected debit has the receipt the call booked.
LEMMA CloseDebitPasses ==
    ASSUME CollectInv, NEW c \in Calls, CloseDebit(c)
    PROVE  CollectInv'
<1>1. PICK k : k = call[c]
  OBVIOUS
<1>2. PICK b : b = k.item
  OBVIOUS
<1>3. PICK d : d = k.doc
  OBVIOUS
<1>4. /\ k \in Call /\ SoundCall(k) /\ DebitCall(k) /\ k.op = "debit" /\ k.pc \in {"booked", "reject"}
      /\ b \in Batches /\ d \in Docs /\ batch[b].status \in {"SENT", "gone"}
      /\ debit[b][d].status # "none" => debit[b][d].amount = k.amount
      /\ call \in [Calls -> Call] /\ debit \in [Batches -> [Docs -> DebitRow]]
  BY <1>1, <1>2, <1>3 DEF CollectInv, TypeOK, BooksInv, BooksTypeOK, CloseDebit, SoundCall, Receiving, DebitCall
<1>5. UNCHANGED <<booksRest, links, holder, money, batch, mandate, bookedFor, cuts, doubled>> /\ Ends(c)
  BY DEF CloseDebit
<1>6. BooksInv' /\ Grown /\ receipts' = receipts
  BY <1>5, EndsKeeps DEF CollectInv, booksRest
<1>7. \A o \in Calls : call'[o] = call[o] \/ (call[o].op # "link" /\ call'[o] = Idle)
  <2>1. Becomes(c, Idle)
    BY <1>5 DEF Ends
  <2> QED BY <1>1, <1>4, <2>1, BecomesIt
<1>8. CASE debit' = debit
  <2>1. \A o \in Calls : call[o].op = "debit" => DebitCall(call[o])'
    <3>1. ASSUME NEW o \in Calls, call[o].op = "debit" PROVE DebitCall(call[o])'
      <4>1. CASE call'[o] = Idle
        BY <4>1 DEF Idle, DebitCall
      <4>2. CASE call'[o] = call[o]
        BY <1>5, <1>8, <4>2 DEF CollectInv, DebitCall
      <4> QED BY <1>7, <4>1, <4>2
    <3> QED BY <3>1
  <2>2. BatchesSound' /\ OneOpen'
    BY <1>5, <1>8 DEF CollectInv, BatchesSound, OneOpen, OpenDebits, Committed
  <2>3. CollectedIsBooked'
    BY <1>5, <1>6, <1>8 DEF CollectInv, CollectedIsBooked, Committed
  <2> QED BY <1>4, <1>5, <1>6, <1>7, <1>8, <2>1, <2>2, <2>3, DebitsTurn DEF CollectInv, TypeOK
<1>9. CASE debit' # debit
  <2>1. PICK g : g = debit[b][d]
    OBVIOUS
  <2>2. g \in DebitRow /\ k.found \in Nat
    BY <1>4, <2>1 DEF Call
  <2>3. PICK row : row = IF k.pc = "booked" THEN [g EXCEPT !.status = "COLLECTED", !.receipt = k.found]
                         ELSE [g EXCEPT !.status = "REJECTED"]
    OBVIOUS
  <2>4. /\ g.status # "none" /\ (k.pc = "booked" => OpenDebits(d) \subseteq {b})
        /\ debit' = [debit EXCEPT ![b][d] = row]
    BY <1>1, <1>2, <1>3, <1>9, <2>1, <2>3 DEF CloseDebit
  <2>5. /\ row \in DebitRow /\ row.amount = g.amount
        /\ k.pc = "booked" => row.status = "COLLECTED" /\ row.receipt = k.found
        /\ k.pc # "booked" => row.status = "REJECTED"
    <3>1. CASE k.pc = "booked"
      BY <2>2, <2>3, <3>1 DEF DebitRow
    <3>2. CASE k.pc # "booked"
      BY <2>2, <2>3, <3>2 DEF DebitRow
    <3> QED BY <3>1, <3>2
  <2>6. /\ debit' \in [Batches -> [Docs -> DebitRow]] /\ debit'[b][d] = row
        /\ \A x \in Batches, y \in Docs : x # b \/ y # d => debit'[x][y] = debit[x][y]
    BY <1>4, <2>4, <2>5
  <2>7. batch[b].status = "SENT"
    BY <1>4, <2>1, <2>4 DEF CollectInv, BatchesSound
  <2>8. \A o \in Calls : call[o].op = "debit" => DebitCall(call[o])'
    <3>1. ASSUME NEW o \in Calls, call[o].op = "debit" PROVE DebitCall(call[o])'
      <4>1. CASE call'[o] = Idle
        BY <4>1 DEF Idle, DebitCall
      <4>2. CASE call'[o] = call[o]
        <5>1. PICK q : q = call[o]
          OBVIOUS
        <5>2. DebitCall(q) /\ q.item \in Batches /\ q.doc \in Docs /\ call'[o] = q
          BY <3>1, <4>2, <5>1 DEF CollectInv, BooksInv, SoundCall, Receiving, DebitCall
        <5>3. debit'[q.item][q.doc].status # "none" =>
                 debit[q.item][q.doc].status # "none" /\ debit'[q.item][q.doc].amount = debit[q.item][q.doc].amount
          BY <2>1, <2>4, <2>5, <2>6, <5>2
        <5> QED BY <1>5, <5>2, <5>3 DEF DebitCall
      <4> QED BY <1>7, <4>1, <4>2
    <3> QED BY <3>1
  <2>9. BatchesSound'
    BY <1>4, <1>5, <2>6, <2>7 DEF CollectInv, BatchesSound
  <2>10. Committed' = Committed
    BY <1>5 DEF Committed
  <2>11. OneOpen'
    <3>1. ASSUME NEW e \in Docs, NEW x \in OpenDebits(e)', NEW y \in OpenDebits(e)' PROVE x = y
      <4>1. \A z \in OpenDebits(e)' : z \in OpenDebits(e) \/ (z = b /\ e = d /\ k.pc = "booked")
        BY <1>4, <2>5, <2>6, <2>10 DEF OpenDebits, Committed
      <4>2. CASE e = d /\ k.pc = "booked"
        BY <2>4, <4>1, <4>2
      <4>3. CASE ~(e = d /\ k.pc = "booked")
        BY <4>1, <4>3 DEF CollectInv, OneOpen
      <4> QED BY <4>2, <4>3
    <3> QED BY <3>1 DEF OneOpen
  <2>12. CollectedIsBooked'
    <3>1. ASSUME NEW a \in Committed, NEW e \in Docs, debit'[a][e].status = "COLLECTED"
          PROVE  /\ debit'[a][e].receipt \in 1..Len(receipts)
                 /\ receipts[debit'[a][e].receipt].doc = e
                 /\ receipts[debit'[a][e].receipt].amount = debit'[a][e].amount
      <4>1. a \in Batches
        BY DEF Committed
      <4>2. CASE a = b /\ e = d
        <5>1. row.status = "COLLECTED" /\ debit'[a][e] = row
          BY <2>6, <3>1, <4>2
        <5>2. k.pc = "booked" /\ row.receipt = k.found /\ row.amount = k.amount
          BY <1>4, <2>1, <2>4, <2>5, <5>1
        <5>3. k.found \in 1..Len(receipts) /\ receipts[k.found].doc = k.doc /\ receipts[k.found].amount = k.amount
          BY <1>4, <5>2 DEF SoundCall
        <5> QED BY <1>3, <4>2, <5>1, <5>2, <5>3
      <4>3. CASE a # b \/ e # d
        <5>1. debit'[a][e] = debit[a][e]
          BY <2>6, <4>1, <4>3
        <5> QED BY <3>1, <5>1 DEF CollectInv, CollectedIsBooked
      <4> QED BY <4>2, <4>3
    <3> QED BY <1>6, <2>10, <3>1 DEF CollectedIsBooked
  <2> QED BY <1>4, <1>5, <1>6, <1>7, <2>6, <2>8, <2>9, <2>11, <2>12, DebitsTurn DEF CollectInv, TypeOK
<1> QED BY <1>8, <1>9

\* Money, a mandate: nothing that a receipt, a link or a debit rests on.
LEMMA AsidePasses ==
    ASSUME CollectInv, (\E l \in 1..Len(links) : Pay(l)) \/ (\E d \in Docs : CreateMandate(d) \/ RevokeMandate(d))
    PROVE  CollectInv'
<1>1. UNCHANGED <<booksVars, links, holder, batch, debit, bookedFor, cuts, doubled>>
  BY DEF Pay, CreateMandate, RevokeMandate
<1>2. BooksInv' /\ Grown /\ UNCHANGED <<call, receipts>>
  BY <1>1, NothingBooked DEF CollectInv
<1>3. /\ money \in [1..Len(links) -> {"unpaid", "paid", "captured"}]
      /\ mandate \in [Docs -> [status : {"none", "ACTIVE", "REVOKED"}, used : BOOLEAN]]
  BY DEF CollectInv, TypeOK
<1>4. money' \in [1..Len(links) -> {"unpaid", "paid", "captured"}]
  BY <1>3 DEF Pay, CreateMandate, RevokeMandate
<1>5. mandate' \in [Docs -> [status : {"none", "ACTIVE", "REVOKED"}, used : BOOLEAN]]
  <2>1. CASE \E l \in 1..Len(links) : Pay(l)
    BY <1>3, <2>1 DEF Pay
  <2>2. CASE \E d \in Docs : CreateMandate(d)
    BY <1>3, <2>2 DEF CreateMandate
  <2>3. CASE \E d \in Docs : RevokeMandate(d)
    <3>1. PICK d \in Docs : RevokeMandate(d)
      BY <2>3
    <3>2. PICK m : m = mandate[d]
      OBVIOUS
    <3>3. PICK r : r = [m EXCEPT !.status = "REVOKED"]
      OBVIOUS
    <3>4. r \in [status : {"none", "ACTIVE", "REVOKED"}, used : BOOLEAN]
      BY <1>3, <3>2, <3>3
    <3>5. mandate' = [mandate EXCEPT ![d] = r]
      BY <3>1, <3>2, <3>3 DEF RevokeMandate
    <3> QED BY <1>3, <3>4, <3>5
  <2> QED BY <2>1, <2>2, <2>3
<1>6. doubled' \subseteq Batches \X Docs
  BY <1>1 DEF CollectInv, TypeOK
<1> QED BY <1>1, <1>2, <1>4, <1>5, <1>6, RequestMoves DEF Same

LEMMA FcnIsSeq ==
    ASSUME NEW n \in Nat, NEW S, NEW f \in [1..n -> S]
    PROVE  f \in Seq(S) /\ Len(f) = n
OBVIOUS

\* A new link: nothing is booked for it yet.
LEMMA CreateLinkPasses ==
    ASSUME CollectInv, NEW d \in Docs, NEW provider \in {"STRIPE", "PAYPAL"}, NEW mayPost \in BOOLEAN,
           CreateLink(d, provider, mayPost)
    PROVE  CollectInv'
<1>1. BooksInv' /\ Grown /\ UNCHANGED <<call, receipts>> /\ UNCHANGED <<batch, debit, mandate, bookedFor, cuts, doubled>>
  BY NothingBooked DEF CollectInv, CreateLink
<1> DEFINE m == Len(links) + 1
<1> PICK row : row = [doc |-> d, provider |-> provider, amount |-> Outstanding(d), mayPost |-> mayPost,
                      status |-> "PENDING", receipt |-> 0, note |-> FALSE]
  OBVIOUS
<1>2. row \in Link /\ row.status = "PENDING"
  <2>1. Outstanding(d) \in Nat
    <3>1. Outstanding(d) > 0 /\ Outstanding(d) \in Int
      BY OutstandingIsInt DEF CreateLink, CollectInv, BooksInv
    <3> QED BY <3>1
  <2> QED BY <2>1 DEF Link
<1>3. TypeOK /\ links \in Seq(Link) /\ Len(links) \in Nat /\ links' = Append(links, row)
  BY LenProperties DEF CollectInv, TypeOK, CreateLink
<1>4. /\ links' \in Seq(Link) /\ Len(links') = m /\ links'[m] = row
      /\ \A l \in 1..Len(links) : links'[l] = links[l]
  BY <1>2, <1>3, AppendProperties
<1>5. \A l \in 1..m : l = m \/ l \in 1..Len(links)
  BY <1>3
<1>6. \A l \in 1..Len(links) : l \in 1..m /\ l # m
  BY <1>3
<1>7. /\ holder' \in [1..m -> Calls \cup {None}] /\ holder'[m] = None
      /\ \A l \in 1..Len(links) : holder'[l] = holder[l]
  <2>1. holder \in [1..Len(links) -> Calls \cup {None}] /\ holder' = Append(holder, None)
    BY <1>3 DEF TypeOK, CreateLink
  <2>2. holder \in Seq(Calls \cup {None}) /\ Len(holder) = Len(links)
    BY <1>3, <2>1, FcnIsSeq
  <2>3. /\ holder' \in Seq(Calls \cup {None}) /\ Len(holder') = m /\ holder'[m] = None
        /\ \A l \in 1..Len(links) : holder'[l] = holder[l]
    BY <1>3, <2>1, <2>2, AppendProperties
  <2> QED BY <2>3
<1>8. money' \in [1..m -> {"unpaid", "paid", "captured"}]
  <2>1. money \in [1..Len(links) -> {"unpaid", "paid", "captured"}] /\ money' = Append(money, "unpaid")
    BY <1>3 DEF TypeOK, CreateLink
  <2>2. money \in Seq({"unpaid", "paid", "captured"}) /\ Len(money) = Len(links)
    BY <1>3, <2>1, FcnIsSeq
  <2>3. money' \in Seq({"unpaid", "paid", "captured"}) /\ Len(money') = m
    BY <2>1, <2>2, AppendProperties
  <2> QED BY <2>3
<1>9. TypeOK'
  BY <1>1, <1>3, <1>4, <1>7, <1>8 DEF TypeOK, BooksInv
<1>10. BookedFor(m) = {} /\ \A l : BookedFor(l)' = BookedFor(l)
  <2>1. \A i \in 1..Len(bookedFor) : bookedFor[i].op = "link" => bookedFor[i].item # m
    BY <1>6 DEF CollectInv, NotedLinks
  <2> HIDE DEF m
  <2> QED BY <1>1, <2>1 DEF BookedFor
<1> HIDE DEF m
<1>11. NotedLinks'
  BY <1>1, <1>4, <1>6 DEF CollectInv, NotedLinks
<1>12. ASSUME NEW o \in Calls PROVE LinkCall(o, call[o])' /\ DebitCall(call[o])'
  <2>1. PICK q : q = call[o]
    OBVIOUS
  <2>2. LinkCall(o, q) /\ DebitCall(q) /\ call'[o] = q
    BY <1>1, <2>1 DEF CollectInv
  <2>3. LinkCall(o, call[o])'
    BY <1>4, <1>6, <1>7, <1>10, <2>2 DEF LinkCall
  <2>4. DebitCall(call[o])'
    BY <1>1, <2>2 DEF DebitCall
  <2> QED BY <2>3, <2>4
<1>13. HeldWhilePending'
  BY <1>1, <1>4, <1>5, <1>7 DEF CollectInv, HeldWhilePending
<1>14. CountedOnce'
  <2>1. ASSUME NEW l \in 1..m PROVE Cardinality(BookedFor(l)) <= IF Spent(l)' THEN cuts + 1 ELSE cuts
    <3>1. CASE l = m
      <4>1. Cardinality(BookedFor(l)) = 0 /\ cuts \in Nat
        BY <1>3, <1>10, <3>1, FS_EmptySet DEF TypeOK
      <4> QED BY <4>1
    <3>2. CASE l \in 1..Len(links)
      <4>1. Spent(l)' <=> Spent(l)
        BY <1>1, <1>4, <1>7, <3>2 DEF Spent
      <4> QED BY <3>2, <4>1 DEF CollectInv, CountedOnce
    <3> QED BY <1>5, <3>1, <3>2
  <2> QED BY <1>1, <1>4, <1>10, <2>1 DEF CountedOnce
<1>15. PaidLinkIsBookedOrNoted'
  <2>1. ASSUME NEW l \in 1..m, links'[l].status = "PAID"
        PROVE  IF links'[l].note THEN links'[l].receipt = 0
               ELSE /\ links'[l].receipt \in BookedFor(l)
                    /\ receipts[links'[l].receipt].doc = links'[l].doc
                    /\ receipts[links'[l].receipt].amount = links'[l].amount
    <3>1. l \in 1..Len(links) /\ links'[l] = links[l]
      BY <1>2, <1>4, <1>5, <2>1
    <3> QED BY <2>1, <3>1 DEF CollectInv, PaidLinkIsBookedOrNoted
  <2> QED BY <1>1, <1>4, <1>10, <2>1 DEF PaidLinkIsBookedOrNoted
<1>16. BatchesSound' /\ OneOpen'
  BY <1>1 DEF CollectInv, BatchesSound, OneOpen, OpenDebits, Committed
<1>17. CollectedIsBooked'
  BY <1>1 DEF CollectInv, CollectedIsBooked, Committed
<1> QED BY <1>1, <1>9, <1>11, <1>12, <1>13, <1>14, <1>15, <1>16, <1>17 DEF CollectInv

LEMMA CollectStarts == Init => CollectInv
<1> SUFFICES ASSUME Init PROVE CollectInv
  OBVIOUS
<1>1. BooksInv /\ receipts = <<>> /\ call = [c \in Calls |-> Idle] /\ links = <<>> /\ bookedFor = <<>>
  BY BooksStart DEF Init, BooksInit
<1>2. NoDebit \in DebitRow /\ NoDebit.status = "none"
  BY DEF NoDebit, DebitRow
<1>3. TypeOK
  BY <1>1, <1>2 DEF Init, TypeOK, BooksInv, BatchStatuses
<1>4. NotedLinks
  BY <1>1 DEF NotedLinks
<1>5. \A c \in Calls : LinkCall(c, call[c]) /\ DebitCall(call[c])
  BY <1>1, EndedPasses
<1>6. HeldWhilePending /\ CountedOnce /\ PaidLinkIsBookedOrNoted
  BY <1>1 DEF HeldWhilePending, CountedOnce, PaidLinkIsBookedOrNoted
<1>7. BatchesSound
  BY <1>2 DEF Init, BatchesSound
<1>8. Committed = {}
  BY DEF Init, Committed
<1>9. OneOpen /\ CollectedIsBooked
  BY <1>8 DEF OneOpen, OpenDebits, CollectedIsBooked
<1> QED BY <1>1, <1>3, <1>4, <1>5, <1>6, <1>7, <1>9 DEF CollectInv

LEMMA CollectGoesOn ==
    ASSUME CollectInv, [Next]_vars
    PROVE  CollectInv'
<1>1. ASSUME NEW c \in Calls, BooksSteps(c), NoteBooking(c), UNCHANGED collectVars
      PROVE  CollectInv'
  <2>1. BooksInv' /\ Grown
    BY <1>1, StepsKeep DEF CollectInv
  <2>2. PassedNow(c) \/ BookedNow(c)
    BY <1>1, BooksPasses
  <2> QED BY <1>1, <2>1, <2>2, PassedKeeps, BookedKeeps
<1>2. CASE BooksEvents /\ UNCHANGED <<collectVars, bookedFor>>
  BY <1>2, EventsPass
<1>3. ASSUME NEW c \in Calls, CollectSteps(c) PROVE CollectInv'
  BY <1>3, AskedAboutLinks, CapturePasses, MarkPaidPasses, CloseLinkPasses, ResultPasses, CloseDebitPasses,
     CutPasses DEF CollectSteps
<1>4. ASSUME NEW d \in Docs, NEW provider \in {"STRIPE", "PAYPAL"}, NEW mayPost \in BOOLEAN,
             CreateLink(d, provider, mayPost)
      PROVE  CollectInv'
  BY <1>4, CreateLinkPasses
<1>5. ASSUME NEW b \in Batches, NEW docs \in SUBSET Docs \ {{}}, BuildBatch(b, docs) PROVE CollectInv'
  BY <1>5, BuildBatchPasses
<1>6. ASSUME NEW b \in Batches, CommitBatch(b) \/ MarkSent(b) \/ ReadToDiscard(b) \/ Discard(b) PROVE CollectInv'
  BY <1>6, CommitBatchPasses, DiscardPasses
<1>7. CASE UNCHANGED vars
  <2>1. UNCHANGED <<booksVars, links, holder, money, batch, debit, mandate, bookedFor, cuts, doubled>>
    BY <1>7 DEF vars, collectVars
  <2>2. BooksInv' /\ Grown /\ UNCHANGED <<call, receipts>>
    BY <2>1, NothingBooked DEF CollectInv
  <2> QED BY <2>1, <2>2, RequestMoves DEF CollectInv, TypeOK, Same
<1> QED BY <1>1, <1>2, <1>3, <1>4, <1>5, <1>6, <1>7, AsidePasses DEF Next

-----------------------------------------------------------------------------
(* Debits answered one at a time *)

Alone(b, d) == \A c, o \in Calls : Collects(c, b, d) /\ Collects(o, b, d) => c = o

\* A debit that may not book again: the request that collects it has booked, or it
\* has its answer and nobody collects it any more.
Over(b, d) ==
    \/ \E c \in Calls : Collects(c, b, d) /\ call[c].pc = "booked"
    \/ debit[b][d].status # "PENDING" /\ \A c \in Calls : ~Collects(c, b, d)

\* Nothing is booked before the batch was sent; and unless two requests answered the
\* debit at once, one request collects it at a time, and every receipt of it beyond
\* the one took a call that died.
DebitOnce(b, d) ==
    /\ batch[b].status \notin {"SENT", "gone"} => DebitReceipts(b, d) = {}
    /\ <<b, d>> \notin doubled =>
         Alone(b, d) /\ Cardinality(DebitReceipts(b, d)) <= (IF Over(b, d) THEN cuts + 1 ELSE cuts)

DebitsOnce == \A b \in Batches, d \in Docs : DebitOnce(b, d)

LEMMA DebitReceiptsAre ==
    ASSUME NotedLinks, NEW b, NEW d
    PROVE  /\ Len(bookedFor) \in Nat /\ DebitReceipts(b, d) \subseteq 1..Len(bookedFor)
           /\ IsFiniteSet(DebitReceipts(b, d)) /\ Cardinality(DebitReceipts(b, d)) \in Nat
<1>1. Len(bookedFor) \in Nat
  BY LenProperties DEF NotedLinks
<1>2. DebitReceipts(b, d) \subseteq 1..Len(bookedFor)
  BY DEF DebitReceipts
<1>3. IsFiniteSet(1..Len(bookedFor))
  BY <1>1, FS_Interval
<1> QED BY <1>1, <1>2, <1>3, FS_Subset, FS_CardinalityType

LEMMA DebitReceiptsStay ==
    ASSUME CollectInv, Grown, UNCHANGED bookedFor
    PROVE  \A b, d : DebitReceipts(b, d)' = DebitReceipts(b, d)
<1>1. Len(bookedFor) = Len(receipts)
  BY DEF CollectInv, NotedLinks
<1>2. \A i \in 1..Len(bookedFor) : receipts'[i].doc = receipts[i].doc
  BY <1>1 DEF Grown
<1> QED BY <1>2 DEF DebitReceipts

\* Nothing is booked for a debit, nobody starts to collect it and it is not opened again.
LEMMA DebitStays ==
    ASSUME CollectInv, NEW b, NEW d, DebitOnce(b, d),
           DebitReceipts(b, d)' = DebitReceipts(b, d), doubled \subseteq doubled',
           batch'[b].status \in {"SENT", "gone"} \/ batch[b].status \notin {"SENT", "gone"},
           \A c \in Calls : Collects(c, b, d)' => Collects(c, b, d),
           \/ cuts' = cuts + 1
           \/ cuts' = cuts /\ (Over(b, d) => Over(b, d)')
    PROVE  DebitOnce(b, d)'
<1>1. cuts \in Nat /\ Cardinality(DebitReceipts(b, d)) \in Nat
  BY DebitReceiptsAre DEF CollectInv, TypeOK
<1>2. Alone(b, d) => Alone(b, d)'
  BY DEF Alone
<1>3. ASSUME Cardinality(DebitReceipts(b, d)) <= (IF Over(b, d) THEN cuts + 1 ELSE cuts)
      PROVE  Cardinality(DebitReceipts(b, d)) <= (IF Over(b, d)' THEN cuts' + 1 ELSE cuts')
  BY <1>1, <1>3
<1> QED BY <1>2, <1>3 DEF DebitOnce

\* The requests move on and none of them starts to collect or ends collecting.
LEMMA DebitsAside ==
    ASSUME CollectInv, DebitsOnce, Grown, UNCHANGED <<batch, debit, bookedFor, cuts, doubled>>,
           NEW c, \A o \in Calls : o # c => call'[o] = call[o],
           c \in Calls => call'[c] = call[c] \/ (call[c].op # "debit" /\ call'[c].op # "debit")
    PROVE  DebitsOnce'
<1>1. ASSUME NEW b \in Batches, NEW d \in Docs PROVE DebitOnce(b, d)'
  <2>1. \A o \in Calls : Collects(o, b, d)' <=> Collects(o, b, d)
    BY DEF Collects
  <2>2. \A o \in Calls : Collects(o, b, d) => call'[o] = call[o]
    BY DEF Collects
  <2>3. Over(b, d) => Over(b, d)'
    BY <2>1, <2>2 DEF Over
  <2> QED BY <2>1, <2>3, DebitReceiptsStay, DebitStays DEF DebitsOnce
<1> QED BY <1>1 DEF DebitsOnce

LEMMA PassedDebits ==
    ASSUME CollectInv, DebitsOnce, Grown, UNCHANGED collectVars, NEW c \in Calls, NoteBooking(c), PassedNow(c)
    PROVE  DebitsOnce'
<1>1. UNCHANGED <<batch, debit, bookedFor, cuts, doubled>>
  BY DEF collectVars, NoteBooking, PassedNow
<1>2. Passes(call[c], call'[c]) /\ \A o \in Calls : o # c => call'[o] = call[o]
  BY DEF PassedNow
<1>3. ASSUME NEW b \in Batches, NEW d \in Docs PROVE DebitOnce(b, d)'
  <2>1. Collects(c, b, d)' => Collects(c, b, d)
    BY <1>2 DEF Collects, Passes, Collecting
  <2>2. Collects(c, b, d) => call[c].pc # "booked"
    BY <1>2 DEF Collects, Passes, Collecting
  <2>3. \A o \in Calls : Collects(o, b, d)' => Collects(o, b, d)
    BY <1>2, <2>1 DEF Collects
  <2>4. Over(b, d) => Over(b, d)'
    BY <1>1, <1>2, <2>2, <2>3 DEF Over, Collects
  <2> QED BY <1>1, <2>3, <2>4, DebitReceiptsStay, DebitStays DEF DebitsOnce
<1> QED BY <1>3 DEF DebitsOnce

LEMMA BookedDebits ==
    ASSUME CollectInv, DebitsOnce, BooksInv', Grown, UNCHANGED collectVars, NEW c \in Calls, NoteBooking(c),
           BookedNow(c)
    PROVE  DebitsOnce'
<1> DEFINE m == Len(receipts) + 1
<1>1. PICK k : k = call[c]
  OBVIOUS
<1>2. PICK r : r = [k EXCEPT !.pc = "booked", !.found = m]
  OBVIOUS
<1>3. PICK note : note = [op |-> k.op, item |-> k.item]
  OBVIOUS
<1>4. /\ call \in [Calls -> Call] /\ k \in Call /\ Len(receipts) \in Nat /\ bookedFor \in Seq(Booking)
      /\ Len(bookedFor) = Len(receipts) /\ cuts \in Nat
  BY <1>1, LenProperties DEF CollectInv, BooksInv, BooksTypeOK, NotedLinks, TypeOK
<1>5. /\ DebitCall(k) /\ k.pc = "posting" /\ k.op \in Receiving /\ Becomes(c, r) /\ Len(receipts') = m
  BY <1>1, <1>2 DEF CollectInv, BookedNow
<1>6. call'[c] = r /\ \A o \in Calls : o # c => call'[o] = call[o]
  BY <1>4, <1>5, BecomesIt
<1>7. r.op = k.op /\ r.item = k.item /\ r.doc = k.doc /\ r.pc = "booked" /\ r.found = m
  <2> HIDE DEF m
  <2> QED BY <1>2, <1>4 DEF Call
<1>8. bookedFor' = Append(bookedFor, note) /\ note \in Booking
  BY <1>1, <1>3, <1>4, <1>5 DEF NoteBooking, Booking, Receiving, Call
<1>9. Len(bookedFor') = m /\ bookedFor'[m] = note /\ \A i \in 1..Len(bookedFor) : bookedFor'[i] = bookedFor[i]
  BY <1>4, <1>8, AppendProperties
<1>10. receipts'[m].doc = k.doc
  <2>1. SoundCall(r)'
    BY <1>6 DEF BooksInv, SoundCall, ReceiptLines
  <2> HIDE DEF m
  <2> QED BY <1>7, <2>1 DEF SoundCall
<1>11. \A i \in 1..Len(bookedFor) : receipts'[i].doc = receipts[i].doc
  BY <1>4 DEF Grown
<1>12. ASSUME NEW b \in Batches, NEW d \in Docs PROVE DebitOnce(b, d)'
  <2>1. DebitReceipts(b, d)' = DebitReceipts(b, d) \cup
           (IF note = [op |-> "debit", item |-> b] /\ k.doc = d THEN {m} ELSE {})
    <3>1. \A i : i \in 1..m <=> i \in 1..Len(bookedFor) \/ i = m
      BY <1>4
    <3>2. DebitReceipts(b, d)' = {i \in 1..m : bookedFor'[i] = [op |-> "debit", item |-> b] /\ receipts'[i].doc = d}
      BY <1>9 DEF DebitReceipts
    <3> HIDE DEF m
    <3> QED BY <1>9, <1>10, <1>11, <3>1, <3>2 DEF DebitReceipts
  <2>2. \A o \in Calls : Collects(o, b, d)' <=> Collects(o, b, d)
    BY <1>1, <1>5, <1>6, <1>7 DEF Collects
  <2>3. Over(b, d) => Over(b, d)'
    <3>1. debit' = debit
      BY DEF collectVars
    <3>2. ASSUME NEW o \in Calls, Collects(o, b, d), call[o].pc = "booked" PROVE call'[o].pc = "booked"
      BY <1>1, <1>5, <1>6, <3>2
    <3> QED BY <2>2, <3>1, <3>2 DEF Over
  <2>4. CASE ~(note = [op |-> "debit", item |-> b] /\ k.doc = d)
    <3>1. UNCHANGED <<batch, cuts, doubled>> /\ DebitReceipts(b, d)' = DebitReceipts(b, d)
      BY <2>1, <2>4 DEF collectVars
    <3> QED BY <2>2, <2>3, <3>1, DebitStays DEF DebitsOnce
  <2>5. CASE note = [op |-> "debit", item |-> b] /\ k.doc = d
    <3>1. k.op = "debit" /\ k.item = b /\ Collects(c, b, d) /\ Collects(c, b, d)' /\ batch[b].status \in {"SENT", "gone"}
      BY <1>1, <1>3, <1>5, <2>2, <2>5 DEF Collects, DebitCall
    <3>2. Over(b, d)'
      BY <1>6, <1>7, <3>1 DEF Over
    <3>3. UNCHANGED <<batch, debit, cuts, doubled>>
      BY DEF collectVars
    <3>4. ASSUME <<b, d>> \notin doubled
          PROVE  Alone(b, d)' /\ Cardinality(DebitReceipts(b, d)') <= cuts + 1
      <4>1. Alone(b, d) /\ Cardinality(DebitReceipts(b, d)) <= (IF Over(b, d) THEN cuts + 1 ELSE cuts)
        BY <3>4 DEF DebitsOnce, DebitOnce
      <4>2. ~Over(b, d)
        BY <1>1, <1>5, <3>1, <4>1 DEF Over, Alone
      <4>3. DebitReceipts(b, d) \subseteq 1..Len(bookedFor) /\ IsFiniteSet(DebitReceipts(b, d))
            /\ Cardinality(DebitReceipts(b, d)) \in Nat
        BY DebitReceiptsAre DEF CollectInv
      <4>4. m \notin DebitReceipts(b, d)
        BY <1>4, <4>3
      <4>5. Cardinality(DebitReceipts(b, d)') = Cardinality(DebitReceipts(b, d)) + 1
        BY <2>1, <2>5, <4>3, <4>4, FS_AddElement
      <4>6. Alone(b, d)'
        BY <2>2, <4>1 DEF Alone
      <4> QED BY <1>4, <4>1, <4>2, <4>3, <4>5, <4>6
    <3> QED BY <3>1, <3>2, <3>3, <3>4 DEF DebitOnce
  <2> QED BY <2>4, <2>5
<1> QED BY <1>12 DEF DebitsOnce

\* A second request that answers a debit as collected leaves a note of it.
LEMMA ResultDebits ==
    ASSUME CollectInv, DebitsOnce, Grown, NEW c \in Calls, NEW b \in Batches, NEW d \in Docs, NEW collected \in BOOLEAN,
           Result(c, b, d, collected)
    PROVE  DebitsOnce'
<1>1. /\ UNCHANGED <<batch, debit, bookedFor, cuts>> /\ doubled \subseteq doubled'
      /\ call[c].pc = "idle" /\ batch[b].status = "SENT" /\ debit[b][d].status = "PENDING"
      /\ collected /\ (\E o \in Calls : Collects(o, b, d)) => <<b, d>> \in doubled'
  BY DEF Result
<1>2. PICK r : r = [Idle EXCEPT !.op = "debit", !.item = b, !.doc = d, !.day = today,
                               !.amount = debit[b][d].amount, !.bank = "BANK",
                               !.pc = IF collected THEN "asked" ELSE "reject"]
  OBVIOUS
<1>3. r.op = "debit" /\ r.item = b /\ r.doc = d /\ r.pc = IF collected THEN "asked" ELSE "reject"
  BY <1>2 DEF Idle
<1>4. call \in [Calls -> Call] /\ Becomes(c, r)
  BY <1>2 DEF Result, CollectInv, BooksInv, BooksTypeOK
<1>5. call'[c] = r /\ \A o \in Calls : o # c => call'[o] = call[o]
  BY <1>4, BecomesIt
<1>6. \A a, e : ~Collects(c, a, e)
  BY <1>1 DEF CollectInv, DebitCall, Collects
<1>7. ASSUME NEW a \in Batches, NEW e \in Docs PROVE DebitOnce(a, e)'
  <2>1. \A o \in Calls : o # c => (Collects(o, a, e)' <=> Collects(o, a, e))
    BY <1>5 DEF Collects
  <2>2. DebitReceipts(a, e)' = DebitReceipts(a, e) /\ cuts \in Nat
        /\ Cardinality(DebitReceipts(a, e)) \in Nat
    BY <1>1, DebitReceiptsStay, DebitReceiptsAre DEF CollectInv, TypeOK
  <2>3. CASE ~(collected /\ a = b /\ e = d)
    <3>1. ~Collects(c, a, e)'
      BY <1>3, <1>5, <2>3 DEF Collects
    <3>2. \A o \in Calls : Collects(o, a, e)' <=> Collects(o, a, e)
      BY <1>6, <2>1, <3>1
    <3>3. Over(a, e) => Over(a, e)'
      BY <1>1, <1>5, <1>6, <3>2 DEF Over
    <3> QED BY <1>1, <2>2, <3>2, <3>3, DebitStays DEF DebitsOnce
  <2>4. CASE collected /\ a = b /\ e = d
    <3>1. ASSUME <<b, d>> \notin doubled'
          PROVE  Alone(b, d)' /\ Cardinality(DebitReceipts(b, d)) <= cuts
      <4>1. \A o \in Calls : ~Collects(o, b, d)
        BY <1>1, <2>4, <3>1
      <4>2. <<b, d>> \notin doubled /\ ~Over(b, d)
        BY <1>1, <3>1, <4>1 DEF Over
      <4>3. Alone(b, d)'
        BY <2>1, <2>4, <4>1 DEF Alone
      <4> QED BY <4>2, <4>3 DEF DebitsOnce, DebitOnce
    <3> QED BY <1>1, <2>2, <2>4, <3>1 DEF DebitOnce
  <2> QED BY <2>3, <2>4
<1> QED BY <1>7 DEF DebitsOnce

\* Once an answer is written the debit is not pending, or it was refused the second
\* place in an open batch and is not there any more.
LEMMA CloseDebits ==
    ASSUME CollectInv, DebitsOnce, Grown, NEW c \in Calls, CloseDebit(c)
    PROVE  DebitsOnce'
<1>1. PICK k : k = call[c]
  OBVIOUS
<1>2. PICK b : b = k.item
  OBVIOUS
<1>3. PICK d : d = k.doc
  OBVIOUS
<1>4. /\ k \in Call /\ DebitCall(k) /\ k.op = "debit" /\ k.pc \in {"booked", "reject"}
      /\ b \in Batches /\ d \in Docs /\ batch[b].status \in {"SENT", "gone"}
      /\ call \in [Calls -> Call] /\ debit \in [Batches -> [Docs -> DebitRow]]
  BY <1>1, <1>2, <1>3 DEF CollectInv, TypeOK, BooksInv, BooksTypeOK, CloseDebit, SoundCall, Receiving, DebitCall
<1>5. UNCHANGED <<batch, bookedFor, cuts, doubled>> /\ Becomes(c, Idle)
  BY DEF CloseDebit, Ends
<1>6. call'[c] = Idle /\ \A o \in Calls : o # c => call'[o] = call[o]
  BY <1>4, <1>5, BecomesIt
<1>7. \A a, e : ~Collects(c, a, e)'
  BY <1>6 DEF Collects, Idle
<1>8. PICK g : g = debit[b][d]
  OBVIOUS
<1>9. PICK row : row = IF k.pc = "booked" THEN [g EXCEPT !.status = "COLLECTED", !.receipt = k.found]
                       ELSE [g EXCEPT !.status = "REJECTED"]
  OBVIOUS
<1>10. row.status # "PENDING" /\ row.status # "none"
  BY <1>4, <1>8, <1>9 DEF DebitRow
<1>11. \/ debit' = [debit EXCEPT ![b][d] = row]
       \/ debit' = debit /\ (g.status = "none" \/ (k.pc = "booked" /\ ~(OpenDebits(d) \subseteq {b})))
  BY <1>1, <1>2, <1>3, <1>8, <1>9 DEF CloseDebit
<1>12. debit'[b][d].status # "PENDING"
  <2>1. CASE debit' = [debit EXCEPT ![b][d] = row]
    BY <1>4, <1>10, <2>1
  <2>2. CASE debit' = debit /\ g.status = "none"
    BY <1>8, <2>2
  <2>3. CASE debit' = debit /\ ~(OpenDebits(d) \subseteq {b}) /\ g.status = "PENDING"
    <3>1. batch[b].status = "SENT"
      BY <1>4, <1>8, <2>3 DEF CollectInv, BatchesSound
    <3>2. b \in OpenDebits(d)
      BY <1>4, <1>8, <2>3, <3>1 DEF OpenDebits, Committed
    <3> QED BY <1>4, <2>3, <3>2 DEF CollectInv, OneOpen
  <2> QED BY <1>8, <1>11, <2>1, <2>2, <2>3
<1>13. \A a \in Batches, e \in Docs : a # b \/ e # d => debit'[a][e] = debit[a][e]
  BY <1>4, <1>11
<1>14. ASSUME NEW a \in Batches, NEW e \in Docs PROVE DebitOnce(a, e)'
  <2>1. \A o \in Calls : Collects(o, a, e)' => Collects(o, a, e)
    BY <1>6, <1>7 DEF Collects
  <2>2. CASE a # b \/ e # d
    <3>1. ~Collects(c, a, e)
      BY <1>1, <1>2, <1>3, <2>2 DEF Collects
    <3>2. Over(a, e) => Over(a, e)'
      BY <1>6, <1>13, <2>1, <2>2, <3>1 DEF Over, Collects
    <3> QED BY <1>5, <2>1, <3>2, DebitReceiptsStay, DebitStays DEF DebitsOnce
  <2>3. CASE a = b /\ e = d
    <3>1. ASSUME Alone(b, d), Over(b, d) PROVE Over(b, d)'
      <4>1. CASE Collects(c, b, d)
        BY <1>12, <2>1, <2>3, <1>7, <3>1, <4>1 DEF Over, Alone
      <4>2. CASE ~Collects(c, b, d) /\ \E o \in Calls : Collects(o, b, d) /\ call[o].pc = "booked"
        BY <1>6, <4>2 DEF Over, Collects
      <4>3. CASE \A o \in Calls : ~Collects(o, b, d)
        BY <1>12, <2>1, <2>3, <4>3 DEF Over
      <4> QED BY <3>1, <4>1, <4>2, <4>3 DEF Over
    <3>2. CASE <<b, d>> \in doubled
      <4>1. DebitReceipts(b, d)' = DebitReceipts(b, d)
        BY <1>5, DebitReceiptsStay
      <4> QED BY <1>4, <1>5, <2>3, <3>2 DEF DebitOnce
    <3>3. CASE <<b, d>> \notin doubled
      <4>1. Alone(b, d)
        BY <1>4, <3>3 DEF DebitsOnce, DebitOnce
      <4> QED BY <1>4, <1>5, <2>1, <2>3, <3>1, <4>1, DebitReceiptsStay, DebitStays DEF DebitsOnce
    <3> QED BY <3>2, <3>3
  <2> QED BY <2>2, <2>3
<1> QED BY <1>14 DEF DebitsOnce

LEMMA CutDebits ==
    ASSUME CollectInv, DebitsOnce, Grown, NEW c \in Calls, Cut(c)
    PROVE  DebitsOnce'
<1>1. UNCHANGED <<batch, debit, bookedFor, doubled>> /\ cuts' = cuts + 1 /\ Becomes(c, Idle)
  BY DEF Cut, Ends
<1>2. call \in [Calls -> Call]
  BY DEF CollectInv, BooksInv, BooksTypeOK
<1>3. call'[c] = Idle /\ \A o \in Calls : o # c => call'[o] = call[o]
  BY <1>1, <1>2, BecomesIt
<1>4. ASSUME NEW b \in Batches, NEW d \in Docs PROVE DebitOnce(b, d)'
  <2>1. \A o \in Calls : Collects(o, b, d)' => Collects(o, b, d)
    BY <1>3 DEF Collects, Idle
  <2> QED BY <1>1, <2>1, DebitReceiptsStay, DebitStays DEF DebitsOnce
<1> QED BY <1>4 DEF DebitsOnce

LEMMA LinkDebits ==
    ASSUME CollectInv, DebitsOnce, Grown, NEW c \in Calls,
           \/ \E l \in 1..Len(links) : HandleStripeWebhook(c, l) \/ CompletePayPal(c, l)
           \/ Capture(c) \/ MarkPaid(c) \/ CloseLink(c)
    PROVE  DebitsOnce'
<1>1. UNCHANGED <<batch, debit, bookedFor, cuts, doubled>>
  BY DEF HandleStripeWebhook, CompletePayPal, Capture, MarkPaid, CloseLink, collectVars
<1>2. call \in [Calls -> Call] /\ LinkCall(c, call[c]) /\ DebitCall(call[c])
  BY DEF CollectInv, BooksInv, BooksTypeOK
<1>3. call[c].op # "debit"
  <2>1. call[c].pc \in {"idle", "capture", "claim"} \/ call[c].op = "link"
    BY DEF HandleStripeWebhook, CompletePayPal, Capture, MarkPaid, CloseLink
  <2> QED BY <1>2, <2>1 DEF LinkCall, DebitCall
<1>4. \/ \E l, pc : About(c, l, pc)
      \/ Ends(c) \/ \E pc : Goes(c, pc)
  BY DEF HandleStripeWebhook, CompletePayPal, Capture, MarkPaid, CloseLink
<1>5. PICK r : Becomes(c, r) /\ r.op # "debit"
  <2>1. CASE \E l, pc : About(c, l, pc)
    <3>1. PICK l, pc : About(c, l, pc)
      BY <2>1
    <3>2. PICK r : r = [Idle EXCEPT !.op = "link", !.pc = pc, !.item = l, !.doc = links[l].doc,
                           !.amount = links[l].amount, !.day = today]
      OBVIOUS
    <3>3. r.op = "link" /\ Becomes(c, r)
      BY <3>1, <3>2 DEF Idle, About
    <3> QED BY <3>3
  <2>2. CASE Ends(c)
    BY <2>2 DEF Ends, Idle
  <2>3. CASE \E pc : Goes(c, pc)
    <3>1. PICK pc : Goes(c, pc)
      BY <2>3
    <3>2. PICK r : r = [call[c] EXCEPT !.pc = pc]
      OBVIOUS
    <3>3. r.op = call[c].op
      BY <1>2, <3>2 DEF Call
    <3>4. Becomes(c, r)
      BY <3>1, <3>2 DEF Goes, Becomes
    <3> QED BY <1>3, <3>3, <3>4
  <2> QED BY <1>4, <2>1, <2>2, <2>3
<1>6. call'[c] = r /\ \A o \in Calls : o # c => call'[o] = call[o]
  BY <1>2, <1>5, BecomesIt
<1> QED BY <1>1, <1>3, <1>5, <1>6, DebitsAside

LEMMA BatchDebits ==
    ASSUME CollectInv, DebitsOnce, NEW b \in Batches, CommitBatch(b) \/ MarkSent(b) \/ ReadToDiscard(b) \/ Discard(b)
    PROVE  DebitsOnce'
<1>1. UNCHANGED <<booksVars, bookedFor, cuts, doubled>>
  BY DEF CommitBatch, MarkSent, ReadToDiscard, Discard
<1>2. BooksInv' /\ Grown /\ UNCHANGED call
  BY <1>1, NothingBooked DEF CollectInv
<1>3. batch \in [Batches -> [status : BatchStatuses, discarding : BOOLEAN]] /\ debit \in [Batches -> [Docs -> DebitRow]]
  BY DEF CollectInv, TypeOK
<1>4. ASSUME NEW a \in Batches, NEW d \in Docs PROVE DebitOnce(a, d)'
  <2>1. \A o \in Calls : Collects(o, a, d)' <=> Collects(o, a, d)
    BY <1>2 DEF Collects
  <2>2. batch'[a].status \in {"SENT", "gone"} \/ batch[a].status \notin {"SENT", "gone"}
    <3>1. CASE CommitBatch(b)
      <4>1. \/ a # b /\ batch'[a] = batch[a]
            \/ batch[a].status = "building"
        BY <1>3, <3>1 DEF CommitBatch
      <4> QED BY <4>1
    <3>2. CASE MarkSent(b)
      BY <1>3, <3>2 DEF MarkSent
    <3>3. CASE ReadToDiscard(b)
      BY <1>3, <3>3 DEF ReadToDiscard
    <3>4. CASE Discard(b)
      BY <1>3, <3>4 DEF Discard
    <3> QED BY <3>1, <3>2, <3>3, <3>4
  <2>3. debit'[a][d].status = debit[a][d].status \/ debit'[a][d].status = "none"
    BY <1>3 DEF CommitBatch, MarkSent, ReadToDiscard, Discard, NoDebit
  <2>4. Over(a, d) => Over(a, d)'
    BY <1>2, <2>1, <2>3 DEF Over
  <2> QED BY <1>1, <1>2, <2>1, <2>2, <2>4, DebitReceiptsStay, DebitStays DEF DebitsOnce
<1> QED BY <1>4 DEF DebitsOnce

LEMMA BuildDebits ==
    ASSUME CollectInv, DebitsOnce, NEW b \in Batches, NEW docs \in SUBSET Docs, BuildBatch(b, docs)
    PROVE  DebitsOnce'
<1>1. UNCHANGED <<booksVars, bookedFor, cuts, doubled>> /\ batch[b].status = "none"
  BY DEF BuildBatch
<1>2. BooksInv' /\ Grown /\ UNCHANGED call
  BY <1>1, NothingBooked DEF CollectInv
<1>3. PICK rows : debit' = [debit EXCEPT ![b] = rows]
  BY DEF BuildBatch
<1>4. batch' = [batch EXCEPT ![b].status = "building"]
  BY DEF BuildBatch
<1>5. batch \in [Batches -> [status : BatchStatuses, discarding : BOOLEAN]] /\ debit \in [Batches -> [Docs -> DebitRow]]
  BY DEF CollectInv, TypeOK
<1>6. ASSUME NEW a \in Batches, NEW d \in Docs PROVE DebitOnce(a, d)'
  <2>1. \A o \in Calls : Collects(o, a, d)' <=> Collects(o, a, d)
    BY <1>2 DEF Collects
  <2>2. DebitReceipts(a, d)' = DebitReceipts(a, d)
    BY <1>1, <1>2, DebitReceiptsStay
  <2>3. CASE a # b
    <3>1. debit'[a] = debit[a] /\ batch'[a] = batch[a]
      BY <1>3, <1>4, <1>5, <2>3
    <3>2. Over(a, d) => Over(a, d)'
      BY <1>2, <2>1, <3>1 DEF Over
    <3> QED BY <1>1, <2>1, <2>2, <3>1, <3>2, DebitStays DEF DebitsOnce
  <2>4. CASE a = b
    <3>1. DebitReceipts(b, d) = {} /\ (<<b, d>> \notin doubled => Alone(b, d))
      BY <1>1 DEF DebitsOnce, DebitOnce
    <3>2. Cardinality(DebitReceipts(b, d)) = 0 /\ cuts \in Nat
      BY <3>1, FS_EmptySet DEF CollectInv, TypeOK
    <3>3. Alone(b, d) => Alone(b, d)'
      BY <2>1, <2>4 DEF Alone
    <3> QED BY <1>1, <2>2, <2>4, <3>1, <3>2, <3>3 DEF DebitOnce
  <2> QED BY <2>3, <2>4
<1> QED BY <1>6 DEF DebitsOnce

LEMMA DebitsGoOn ==
    ASSUME CollectInv, DebitsOnce, [Next]_vars
    PROVE  DebitsOnce'
<1>1. ASSUME NEW c \in Calls, BooksSteps(c), NoteBooking(c), UNCHANGED collectVars
      PROVE  DebitsOnce'
  <2>1. BooksInv' /\ Grown
    BY <1>1, StepsKeep DEF CollectInv
  <2>2. PassedNow(c) \/ BookedNow(c)
    BY <1>1, BooksPasses
  <2> QED BY <1>1, <2>1, <2>2, PassedDebits, BookedDebits
<1>2. ASSUME Grown, UNCHANGED <<call, batch, debit, bookedFor, cuts, doubled>> PROVE DebitsOnce'
  <2>1. PICK c : c \notin Calls
    BY NoneAssumption
  <2> QED BY <1>2, <2>1, DebitsAside
<1>3. CASE BooksEvents /\ UNCHANGED <<collectVars, bookedFor>>
  <2>1. Grown /\ UNCHANGED call
    BY <1>3, EventsKeep DEF CollectInv
  <2> QED BY <1>2, <1>3, <2>1 DEF collectVars
<1>4. ASSUME NEW c \in Calls, CollectSteps(c) PROVE DebitsOnce'
  <2>1. Grown
    <3>1. UNCHANGED booksRest
      BY <1>4 DEF CollectSteps, HandleStripeWebhook, CompletePayPal, Capture, MarkPaid, CloseLink, Result,
                  CloseDebit, Cut
    <3> QED BY <3>1, NothingStored DEF CollectInv
  <2> QED BY <1>4, <2>1, LinkDebits, ResultDebits, CloseDebits, CutDebits DEF CollectSteps
<1>5. CASE \/ \E d \in Docs, provider \in {"STRIPE", "PAYPAL"}, mayPost \in BOOLEAN : CreateLink(d, provider, mayPost)
           \/ \E l \in 1..Len(links) : Pay(l)
           \/ \E d \in Docs : CreateMandate(d) \/ RevokeMandate(d)
           \/ UNCHANGED vars
  <2>1. UNCHANGED <<booksVars, batch, debit, bookedFor, cuts, doubled>>
    BY <1>5 DEF CreateLink, Pay, CreateMandate, RevokeMandate, vars, collectVars
  <2>2. Grown /\ UNCHANGED call
    BY <2>1, NothingBooked DEF CollectInv
  <2> QED BY <1>2, <2>1, <2>2
<1>6. ASSUME NEW b \in Batches, NEW docs \in SUBSET Docs \ {{}}, BuildBatch(b, docs) PROVE DebitsOnce'
  BY <1>6, BuildDebits
<1>7. ASSUME NEW b \in Batches, CommitBatch(b) \/ MarkSent(b) \/ ReadToDiscard(b) \/ Discard(b) PROVE DebitsOnce'
  BY <1>7, BatchDebits
<1> QED BY <1>1, <1>3, <1>4, <1>5, <1>6, <1>7 DEF Next

LEMMA DebitsStart == Init => DebitsOnce
<1> SUFFICES ASSUME Init PROVE DebitsOnce
  OBVIOUS
<1>1. bookedFor = <<>> /\ cuts = 0 /\ call = [c \in Calls |-> Idle]
  BY DEF Init, BooksInit
<1>2. ASSUME NEW b \in Batches, NEW d \in Docs PROVE DebitOnce(b, d)
  <2>1. DebitReceipts(b, d) = {}
    BY <1>1 DEF DebitReceipts
  <2>2. \A c \in Calls : ~Collects(c, b, d)
    BY <1>1 DEF Collects, Idle
  <2>3. Cardinality(DebitReceipts(b, d)) = 0
    BY <2>1, FS_EmptySet
  <2> QED BY <1>1, <2>1, <2>2, <2>3 DEF DebitOnce, Alone
<1> QED BY <1>2 DEF DebitsOnce

LEMMA CollectInvMeans == CollectInv /\ DebitsOnce => CollectedOnce
<1> SUFFICES ASSUME CollectInv, DebitsOnce PROVE CollectedOnce
  OBVIOUS
<1>1. BookedOnceUnlessCut
  <2>1. ASSUME NEW l \in 1..Len(links) PROVE Cardinality(BookedFor(l)) <= 1 + cuts
    <3>1. /\ Cardinality(BookedFor(l)) <= (IF Spent(l) THEN cuts + 1 ELSE cuts)
          /\ Cardinality(BookedFor(l)) \in Nat /\ cuts \in Nat
      BY BookedForIs DEF CollectInv, CountedOnce, TypeOK
    <3> QED BY <3>1
  <2>2. ASSUME NEW b \in Batches, NEW d \in Docs, <<b, d>> \notin doubled
        PROVE  Cardinality(DebitReceipts(b, d)) <= 1 + cuts
    <3>1. /\ Cardinality(DebitReceipts(b, d)) <= (IF Over(b, d) THEN cuts + 1 ELSE cuts)
          /\ Cardinality(DebitReceipts(b, d)) \in Nat /\ cuts \in Nat
      BY <2>2, DebitReceiptsAre DEF CollectInv, DebitsOnce, DebitOnce, TypeOK
    <3> QED BY <3>1
  <2> QED BY <2>1, <2>2 DEF BookedOnceUnlessCut
<1>2. InOneDirectDebit
  <2>1. ASSUME NEW d \in Docs PROVE Cardinality(OpenDebits(d)) <= 1
    <3>1. CASE OpenDebits(d) = {}
      BY <3>1, FS_EmptySet
    <3>2. CASE OpenDebits(d) # {}
      <4>1. \A a, e \in OpenDebits(d) : a = e
        BY DEF CollectInv, OneOpen
      <4>2. PICK b : OpenDebits(d) = {b}
        BY <3>2, <4>1
      <4> QED BY <4>2, FS_Singleton
    <3> QED BY <3>1, <3>2
  <2> QED BY <2>1 DEF InOneDirectDebit
<1> QED BY <1>1, <1>2 DEF CollectInv, CollectedOnce

\* Money that came through a payment link or a direct debit is booked once, unless a
\* call died on the way or two requests answered the debit at once, every paid link
\* has its receipt or its note and every collected debit its receipt, and an invoice
\* is in one open direct debit.
THEOREM CollectedOnceAlways == Spec => []CollectedOnce
<1>1. Init => CollectInv /\ DebitsOnce
  BY CollectStarts, DebitsStart
<1>2. CollectInv /\ DebitsOnce /\ [Next]_vars => CollectInv' /\ DebitsOnce'
  BY CollectGoesOn, DebitsGoOn
<1>3. CollectInv /\ DebitsOnce => CollectedOnce
  BY CollectInvMeans
<1> QED BY <1>1, <1>2, <1>3, PTL DEF Spec


-----------------------------------------------------------------------------
(* The customer's ledger *)

\* What a line does to what customer d owes.
One(l, d) == IF l.party = d THEN l.debit - l.credit ELSE 0

LEMMA EffectIsInt ==
    ASSUME NEW lines \in Seq(Line), NEW d
    PROVE  Effect(lines, d) \in Int
<1>1. Len(lines) \in Nat /\ DOMAIN lines = 1..Len(lines) /\ \A i \in 1..Len(lines) : lines[i] \in Line
  BY LenProperties, ElementOfSeq
<1> DEFINE f == [i \in DOMAIN lines |-> One(lines[i], d)]
<1>2. \A l \in Line : One(l, d) \in Int
  BY DEF One, Line
<1>3. Summable(f)
  BY <1>1, <1>2, FS_Interval DEF Summable
<1>4. Effect(lines, d) = SumOver(f)
  BY DEF Effect, One
<1> QED BY <1>3, <1>4, SumIsInt

LEMMA EffectOfTwo ==
    ASSUME NEW a \in Line, NEW b \in Line, NEW d
    PROVE  Effect(<<a, b>>, d) = One(a, d) + One(b, d)
<1> PICK f : f = [i \in {1, 2} |-> IF i = 1 THEN One(a, d) ELSE One(b, d)]
  OBVIOUS
<1> PICK g : g = Part(f, {2})
  OBVIOUS
<1> PICK h : h = Part(g, {})
  OBVIOUS
<1>1. One(a, d) \in Int /\ One(b, d) \in Int
  BY DEF One, Line
<1>2. Summable(f) /\ DOMAIN f = {1, 2} /\ f[1] = One(a, d) /\ f[2] = One(b, d)
  <2>1. IsFiniteSet({1} \cup {2})
    BY FS_Singleton, FS_AddElement
  <2>2. {1} \cup {2} = {1, 2}
    OBVIOUS
  <2> QED BY <1>1, <2>1, <2>2 DEF Summable
<1>3. Effect(<<a, b>>, d) = SumOver(f)
  <2>1. [i \in DOMAIN <<a, b>> |-> IF <<a, b>>[i].party = d THEN <<a, b>>[i].debit - <<a, b>>[i].credit ELSE 0] = f
    BY DEF One
  <2> QED BY <2>1 DEF Effect
<1>4. Summable(g) /\ DOMAIN g = {2} /\ g[2] = f[2]
  <2>1. {2} \in SUBSET (DOMAIN f)
    BY <1>2
  <2>2. Summable(g)
    BY <1>2, <2>1, PartSummable
  <2> QED BY <2>2 DEF Part
<1>5. Summable(h) /\ DOMAIN h = {}
  <2>1. {} \in SUBSET (DOMAIN g)
    OBVIOUS
  <2>2. Summable(h)
    BY <1>4, <2>1, PartSummable
  <2> QED BY <2>2 DEF Part
<1>6. SumOver(f) = f[1] + SumOver(g)
  <2>1. DOMAIN f \ {1} = {2} /\ 1 \in DOMAIN f
    BY <1>2
  <2> QED BY <1>2, <2>1, SumWithout
<1>7. SumOver(g) = g[2] + SumOver(h)
  <2>1. DOMAIN g \ {2} = {} /\ 2 \in DOMAIN g
    BY <1>4
  <2> QED BY <1>4, <2>1, SumWithout
<1>8. SumOver(h) = 0
  BY <1>5, SumIsInt
<1> QED BY <1>1, <1>2, <1>3, <1>4, <1>6, <1>7, <1>8

LEMMA OneIs ==
    ASSUME NEW d \in Docs, NEW x \in Docs \cup {None}, NEW n \in Nat, NEW a \in Accounts
    PROVE  /\ Debit(a, x, n) \in Line /\ Credit(a, x, n) \in Line
           /\ One(Debit(a, x, n), d) = (IF x = d THEN n ELSE 0)
           /\ One(Credit(a, x, n), d) = (IF x = d THEN 0 - n ELSE 0)
           /\ One(Debit(a, None, n), d) = 0 /\ One(Credit(a, None, n), d) = 0
BY NoneAssumption DEF Debit, Credit, Line, One

\* The lines of a sale, of a receipt or a payment, and of a receipt's reversal.
LEMMA EffectOfDebit ==
    ASSUME NEW d \in Docs, NEW x \in Docs \cup {None}, NEW n \in Nat, NEW a \in Accounts, NEW b \in Accounts,
           NEW lines, lines = <<Debit(a, x, n), Credit(b, None, n)>>
    PROVE  Effect(lines, d) = (IF x = d THEN n ELSE 0)
<1>1. Debit(a, x, n) \in Line /\ One(Debit(a, x, n), d) = (IF x = d THEN n ELSE 0)
  BY OneIs
<1>2. Credit(b, None, n) \in Line /\ One(Credit(b, None, n), d) = 0
  BY OneIs
<1>3. Effect(lines, d) = One(Debit(a, x, n), d) + One(Credit(b, None, n), d)
  BY <1>1, <1>2, EffectOfTwo
<1> QED BY <1>1, <1>2, <1>3

LEMMA EffectOfCredit ==
    ASSUME NEW d \in Docs, NEW x \in Docs \cup {None}, NEW n \in Nat, NEW a \in Accounts, NEW b \in Accounts,
           NEW lines, lines = <<Debit(a, None, n), Credit(b, x, n)>>
    PROVE  Effect(lines, d) = (IF x = d THEN 0 - n ELSE 0)
<1>1. Debit(a, None, n) \in Line /\ One(Debit(a, None, n), d) = 0
  BY OneIs
<1>2. Credit(b, x, n) \in Line /\ One(Credit(b, x, n), d) = (IF x = d THEN 0 - n ELSE 0)
  BY OneIs
<1>3. Effect(lines, d) = One(Debit(a, None, n), d) + One(Credit(b, x, n), d)
  BY <1>1, <1>2, EffectOfTwo
<1> QED BY <1>1, <1>2, <1>3

LEMMA EffectOfSwapped ==
    ASSUME NEW d \in Docs, NEW x \in Docs \cup {None}, NEW n \in Nat, NEW a \in Accounts, NEW b \in Accounts,
           NEW lines, lines = <<Debit(a, None, n), Credit(b, x, n)>>
    PROVE  Effect(Swapped(lines), d) = (IF x = d THEN n ELSE 0)
<1>1. Credit(a, None, n) \in Line /\ One(Credit(a, None, n), d) = 0
  BY OneIs
<1>2. Debit(b, x, n) \in Line /\ One(Debit(b, x, n), d) = (IF x = d THEN n ELSE 0)
  BY OneIs
<1>3. Swapped(lines) = <<Credit(a, None, n), Debit(b, x, n)>>
  <2>1. \A l \in Line : LET m == [l EXCEPT !.debit = l.credit, !.credit = l.debit] IN
           m \in Line /\ m.account = l.account /\ m.party = l.party /\ m.debit = l.credit /\ m.credit = l.debit
    BY DEF Line
  <2>2. ASSUME NEW l \in Line, NEW k \in Line, k.account = l.account, k.party = l.party,
               k.debit = l.credit, k.credit = l.debit
        PROVE  [l EXCEPT !.debit = l.credit, !.credit = l.debit] = k
    <3>1. PICK m : m = [l EXCEPT !.debit = l.credit, !.credit = l.debit]
      OBVIOUS
    <3>2. m \in Line /\ m.account = k.account /\ m.party = k.party /\ m.debit = k.debit /\ m.credit = k.credit
      BY <2>1, <2>2, <3>1
    <3>3. m = k
      BY <3>2 DEF Line
    <3> QED BY <3>1, <3>3
  <2>y. PICK y : y = Debit(a, None, n)
    OBVIOUS
  <2>z. PICK z : z = Credit(b, x, n)
    OBVIOUS
  <2>3. Len(lines) = 2 /\ lines[1] = y /\ lines[2] = z
    BY <2>y, <2>z
  <2>4. [y EXCEPT !.debit = y.credit, !.credit = y.debit] = Credit(a, None, n)
    <3>1. y \in Line
      BY <2>y, OneIs
    <3> QED BY <1>1, <2>2, <2>y, <3>1 DEF Debit, Credit
  <2>5. [z EXCEPT !.debit = z.credit, !.credit = z.debit] = Debit(b, x, n)
    <3>1. z \in Line
      BY <2>z, OneIs
    <3> QED BY <1>2, <2>2, <2>z, <3>1 DEF Debit, Credit
  <2>6. \A i \in 1..2 : [lines[i] EXCEPT !.debit = lines[i].credit, !.credit = lines[i].debit] =
                        (IF i = 1 THEN Credit(a, None, n) ELSE Debit(b, x, n))
    <3>1. \A i \in 1..2 : i = 1 \/ i = 2
      OBVIOUS
    <3> QED BY <2>3, <2>4, <2>5, <3>1
  <2>7. Swapped(lines) = [i \in 1..2 |-> IF i = 1 THEN Credit(a, None, n) ELSE Debit(b, x, n)]
    BY <2>3, <2>6 DEF Swapped
  <2> QED BY <2>7
<1>4. Effect(Swapped(lines), d) = One(Credit(a, None, n), d) + One(Debit(b, x, n), d)
  BY <1>1, <1>2, <1>3, EffectOfTwo
<1> QED BY <1>1, <1>2, <1>4

\* The rows of customer d in journals js, those entered by hand, and his receipts in rs
\* that stand.
AllRows(js, d) == [j \in DOMAIN js |-> Effect(js[j].lines, d)]
HandRows(js, d) == [j \in DOMAIN js |-> IF js[j].source = "manual" THEN Effect(js[j].lines, d) ELSE 0]
Standing(rs, d) == [i \in DOMAIN rs |-> IF rs[i].doc = d /\ rs[i].reversal = 0 THEN rs[i].amount ELSE 0]
Owed(d) == IF d \in issued THEN Total[d] ELSE 0

\* The journal of receipt i has its two lines.
TwoLines(i) ==
    /\ receipts[i].doc \in Docs
    /\ \E a \in Accounts :
          journals[receipts[i].journal].lines =
             <<Debit(a, None, receipts[i].amount), Credit("receivable", receipts[i].doc, receipts[i].amount)>>

\* The customer's rows come to what he was invoiced and what was entered by hand, less
\* the receipts that stand.
Settled(d) ==
    SumOver(AllRows(journals, d)) = Owed(d) + SumOver(HandRows(journals, d)) - SumOver(Standing(receipts, d))

\* No journal is dated later than today.
LedgerInv ==
    /\ \A j \in 1..Len(journals) : journals[j].day <= today
    /\ \A i \in 1..Len(receipts) : TwoLines(i)
    /\ \A d \in Docs : Settled(d)

LEMMA RowsSummable ==
    ASSUME NEW js \in Seq(Journal), NEW d
    PROVE  /\ Summable(AllRows(js, d)) /\ Summable(HandRows(js, d))
           /\ SumOver(AllRows(js, d)) \in Int /\ SumOver(HandRows(js, d)) \in Int
<1>1. Len(js) \in Nat /\ DOMAIN js = 1..Len(js) /\ \A j \in 1..Len(js) : js[j] \in Journal
  BY LenProperties, ElementOfSeq
<1>2. IsFiniteSet(DOMAIN js)
  BY <1>1, FS_Interval
<1>3. \A j \in 1..Len(js) : Effect(js[j].lines, d) \in Int
  BY <1>1, EffectIsInt DEF Journal
<1>4. Summable(AllRows(js, d))
  BY <1>1, <1>2, <1>3 DEF Summable, AllRows
<1>5. Summable(HandRows(js, d))
  BY <1>1, <1>2, <1>3 DEF Summable, HandRows
<1> QED BY <1>4, <1>5, SumIsInt

LEMMA StandingSummable ==
    ASSUME NEW rs \in Seq(Receipt), NEW d
    PROVE  Summable(Standing(rs, d)) /\ SumOver(Standing(rs, d)) \in Int
<1>1. Len(rs) \in Nat /\ DOMAIN rs = 1..Len(rs) /\ \A i \in 1..Len(rs) : rs[i] \in Receipt
  BY LenProperties, ElementOfSeq
<1>2. IsFiniteSet(DOMAIN rs)
  BY <1>1, FS_Interval
<1>3. Summable(Standing(rs, d))
  BY <1>1, <1>2 DEF Summable, Standing, Receipt
<1> QED BY <1>3, SumIsInt

\* A journal more, and its row.
LEMMA RowAdded ==
    ASSUME NEW js \in Seq(Journal), NEW e \in Journal, NEW d
    PROVE  /\ SumOver(AllRows(Append(js, e), d)) = SumOver(AllRows(js, d)) + Effect(e.lines, d)
           /\ SumOver(HandRows(Append(js, e), d)) =
                SumOver(HandRows(js, d)) + (IF e.source = "manual" THEN Effect(e.lines, d) ELSE 0)
           /\ Effect(e.lines, d) \in Int
<1> PICK m : m = Append(js, e)
  OBVIOUS
<1> PICK n : n = Len(js) + 1
  OBVIOUS
<1>1. /\ Len(js) \in Nat /\ DOMAIN js = 1..Len(js) /\ m \in Seq(Journal)
      /\ DOMAIN m = 1..n /\ m[n] = e
      /\ \A j \in 1..Len(js) : m[j] = js[j]
  BY LenProperties, AppendProperties
<1>2. n \notin DOMAIN js /\ DOMAIN m = DOMAIN js \cup {n}
  BY <1>1
<1>3. Summable(AllRows(js, d)) /\ Summable(HandRows(js, d)) /\ Summable(AllRows(m, d)) /\ Summable(HandRows(m, d))
  BY <1>1, RowsSummable
<1>4. SumOver(AllRows(m, d)) = SumOver(AllRows(js, d)) + Effect(e.lines, d)
  <2>1. /\ DOMAIN AllRows(js, d) = DOMAIN js /\ DOMAIN AllRows(m, d) = DOMAIN m
        /\ \A j \in DOMAIN js : AllRows(m, d)[j] = AllRows(js, d)[j]
        /\ AllRows(m, d)[n] = Effect(e.lines, d)
    BY <1>1, <1>2 DEF AllRows
  <2>f. PICK f : f = AllRows(js, d)
    OBVIOUS
  <2>g. PICK g : g = AllRows(m, d)
    OBVIOUS
  <2>2. /\ Summable(f) /\ Summable(g) /\ n \notin DOMAIN f /\ DOMAIN g = DOMAIN f \cup {n}
        /\ \A j \in DOMAIN f : g[j] = f[j]
    BY <1>2, <1>3, <2>1, <2>f, <2>g
  <2>3. SumOver(g) = SumOver(f) + g[n]
    BY <2>2, SumGrow
  <2> QED BY <2>1, <2>3, <2>f, <2>g
<1>5. SumOver(HandRows(m, d)) = SumOver(HandRows(js, d)) + (IF e.source = "manual" THEN Effect(e.lines, d) ELSE 0)
  <2>1. /\ DOMAIN HandRows(js, d) = DOMAIN js /\ DOMAIN HandRows(m, d) = DOMAIN m
        /\ \A j \in DOMAIN js : HandRows(m, d)[j] = HandRows(js, d)[j]
        /\ HandRows(m, d)[n] = IF e.source = "manual" THEN Effect(e.lines, d) ELSE 0
    BY <1>1, <1>2 DEF HandRows
  <2>f. PICK f : f = HandRows(js, d)
    OBVIOUS
  <2>g. PICK g : g = HandRows(m, d)
    OBVIOUS
  <2>2. /\ Summable(f) /\ Summable(g) /\ n \notin DOMAIN f /\ DOMAIN g = DOMAIN f \cup {n}
        /\ \A j \in DOMAIN f : g[j] = f[j]
    BY <1>2, <1>3, <2>1, <2>f, <2>g
  <2>3. SumOver(g) = SumOver(f) + g[n]
    BY <2>2, SumGrow
  <2> QED BY <2>1, <2>3, <2>f, <2>g
<1>6. Effect(e.lines, d) \in Int
  BY EffectIsInt DEF Journal
<1> QED BY <1>4, <1>5, <1>6

\* A receipt more, and one that is reversed.
LEMMA StandingGrows ==
    ASSUME NEW rs \in Seq(Receipt), NEW d, NEW row \in Receipt
    PROVE  SumOver(Standing(Append(rs, row), d)) =
              SumOver(Standing(rs, d)) + (IF row.doc = d /\ row.reversal = 0 THEN row.amount ELSE 0)
<1>1. Len(rs) \in Nat /\ DOMAIN rs = 1..Len(rs) /\ \A i \in 1..Len(rs) : rs[i] \in Receipt
  BY LenProperties, ElementOfSeq
<1>2. Summable(Standing(rs, d))
  BY StandingSummable
<1>f. PICK f : f = Standing(rs, d)
  OBVIOUS
<1>m. PICK m : m = Append(rs, row)
  OBVIOUS
<1>n. PICK n : n = Len(rs) + 1
  OBVIOUS
<1>3. /\ m \in Seq(Receipt) /\ DOMAIN m = 1..n /\ m[n] = row /\ \A j \in 1..Len(rs) : m[j] = rs[j]
      /\ n \notin DOMAIN rs /\ DOMAIN m = DOMAIN rs \cup {n}
  BY <1>1, <1>m, <1>n, LenProperties, AppendProperties
<1>g. PICK g : g = Standing(m, d)
  OBVIOUS
<1>4. Summable(g)
  BY <1>3, <1>g, StandingSummable
<1>5. /\ DOMAIN f = DOMAIN rs /\ DOMAIN g = DOMAIN m /\ \A j \in DOMAIN rs : g[j] = f[j]
      /\ g[n] = IF row.doc = d /\ row.reversal = 0 THEN row.amount ELSE 0
  BY <1>1, <1>f, <1>3, <1>g DEF Standing
<1>6. /\ Summable(f) /\ Summable(g) /\ n \notin DOMAIN f /\ DOMAIN g = DOMAIN f \cup {n}
      /\ \A j \in DOMAIN f : g[j] = f[j]
  BY <1>2, <1>f, <1>3, <1>4, <1>5
<1>7. SumOver(g) = SumOver(f) + g[n]
  BY <1>6, SumGrow
<1> QED BY <1>f, <1>5, <1>7, <1>m, <1>g

LEMMA StandingShrinks ==
    ASSUME NEW rs \in Seq(Receipt), NEW d, NEW i \in 1..Len(rs), NEW row \in Receipt,
           rs[i].reversal = 0, row.reversal # 0, NEW m, DOMAIN m = DOMAIN rs, m[i] = row,
           \A j \in DOMAIN rs : j # i => m[j] = rs[j]
    PROVE  SumOver(Standing(m, d)) = SumOver(Standing(rs, d)) - (IF rs[i].doc = d THEN rs[i].amount ELSE 0)
<1>1. Len(rs) \in Nat /\ DOMAIN rs = 1..Len(rs) /\ \A j \in 1..Len(rs) : rs[j] \in Receipt
  BY LenProperties, ElementOfSeq
<1>2. Summable(Standing(rs, d))
  BY StandingSummable
<1>f. PICK f : f = Standing(rs, d)
  OBVIOUS
<1>4. Standing(m, d) = [f EXCEPT ![i] = 0]
  BY <1>1, <1>f DEF Standing
<1>5. i \in DOMAIN f /\ Summable(f) /\ f[i] = IF rs[i].doc = d THEN rs[i].amount ELSE 0
  BY <1>1, <1>2, <1>f DEF Standing
<1>6. SumOver([f EXCEPT ![i] = 0]) = SumOver(f) - f[i] + 0
  BY <1>5, SumChange
<1>7. SumOver(f) \in Int /\ f[i] \in Int
  BY <1>5, SumIsInt DEF Summable
<1>8. SumOver(Standing(m, d)) = SumOver(f) - f[i]
  BY <1>4, <1>6, <1>7
<1> QED BY <1>5, <1>8, <1>f

LEMMA TwoLinesStay ==
    ASSUME Grown, NEW i \in 1..Len(receipts), TwoLines(i)
    PROVE  TwoLines(i)'
<1>1. /\ receipts'[i].doc = receipts[i].doc /\ receipts'[i].amount = receipts[i].amount
      /\ receipts'[i].journal = receipts[i].journal
      /\ journals'[receipts[i].journal] = journals[receipts[i].journal]
  BY DEF Grown
<1> QED BY <1>1 DEF TwoLines

LEMMA LedgerStays ==
    ASSUME BooksInv, Grown, LedgerInv, UNCHANGED <<journals, receipts, issued>>
    PROVE  LedgerInv'
<1>1. \A j \in 1..Len(journals) : journals[j].day \in Nat /\ journals[j].day <= today
  <2>1. \A j \in 1..Len(journals) : journals[j] \in Journal
    BY ElementOfSeq DEF BooksInv, BooksTypeOK
  <2> QED BY <2>1, DaysAssumption DEF LedgerInv, Journal
<1>2. \A j \in 1..Len(journals') : journals'[j].day <= today'
  BY <1>1 DEF Grown
<1>3. \A i \in 1..Len(receipts') : TwoLines(i)'
  BY TwoLinesStay DEF LedgerInv
<1>4. \A d \in Docs : Settled(d)'
  BY DEF LedgerInv, Settled, Owed
<1> QED BY <1>2, <1>3, <1>4 DEF LedgerInv

\* A journal is added, and what it does to each customer's rows is what else was done.
LEMMA LedgerMoves ==
    ASSUME BooksInv, Grown, LedgerInv, NEW e \in Journal, journals' = Append(journals, e), e.day <= today,
           UNCHANGED today, receipts' \in Seq(Receipt),
           \A i \in 1..Len(receipts') : i \in 1..Len(receipts) \/ TwoLines(i)',
           \A d \in Docs : Effect(e.lines, d) =
              (Owed(d)' - Owed(d)) + (IF e.source = "manual" THEN Effect(e.lines, d) ELSE 0)
              - (SumOver(Standing(receipts, d))' - SumOver(Standing(receipts, d)))
    PROVE  LedgerInv'
<1>1. /\ journals \in Seq(Journal) /\ receipts \in Seq(Receipt) /\ Len(journals) \in Nat
      /\ Len(journals') = Len(journals) + 1 /\ journals'[Len(journals) + 1] = e
      /\ \A j \in 1..Len(journals) : journals'[j] = journals[j]
  BY LenProperties, AppendProperties DEF BooksInv, BooksTypeOK
<1>2. \A j \in 1..Len(journals') : journals'[j].day <= today'
  <2>1. \A j \in 1..Len(journals') : j \in 1..Len(journals) \/ j = Len(journals) + 1
    BY <1>1
  <2> QED BY <1>1, <2>1 DEF LedgerInv
<1>3. \A i \in 1..Len(receipts') : TwoLines(i)'
  BY TwoLinesStay DEF LedgerInv
<1>4. ASSUME NEW d \in Docs PROVE Settled(d)'
  <2>1. /\ SumOver(AllRows(journals', d)) = SumOver(AllRows(journals, d)) + Effect(e.lines, d)
        /\ SumOver(HandRows(journals', d)) =
             SumOver(HandRows(journals, d)) + (IF e.source = "manual" THEN Effect(e.lines, d) ELSE 0)
        /\ Effect(e.lines, d) \in Int
    BY <1>1, RowAdded
  <2>2. /\ SumOver(AllRows(journals, d)) \in Int /\ SumOver(HandRows(journals, d)) \in Int
        /\ SumOver(Standing(receipts, d)) \in Int /\ SumOver(Standing(receipts', d)) \in Int
    BY <1>1, RowsSummable, StandingSummable
  <2>3. Owed(d) \in Int /\ Owed(d)' \in Int
    BY DocsAssumption DEF Owed
  <2>4. SumOver(AllRows(journals, d)) =
           Owed(d) + SumOver(HandRows(journals, d)) - SumOver(Standing(receipts, d))
    BY DEF LedgerInv, Settled
  <2>5. Effect(e.lines, d) =
           (Owed(d)' - Owed(d)) + (IF e.source = "manual" THEN Effect(e.lines, d) ELSE 0)
           - (SumOver(Standing(receipts', d)) - SumOver(Standing(receipts, d)))
    OBVIOUS
  <2>6. SumOver(AllRows(journals', d)) =
           Owed(d)' + SumOver(HandRows(journals', d)) - SumOver(Standing(receipts', d))
    <3>h. PICK h \in Int : h = IF e.source = "manual" THEN Effect(e.lines, d) ELSE 0
      BY <2>1
    <3>s. PICK s \in Int : s = SumOver(Standing(receipts, d))
      BY <2>2
    <3>t. PICK t \in Int : t = SumOver(Standing(receipts', d))
      BY <2>2
    <3>o. PICK o \in Int : o = Owed(d)
      BY <2>3
    <3>p. PICK p \in Int : p = Owed(d)'
      BY <2>3
    <3>r. PICK r \in Int : r = SumOver(HandRows(journals, d))
      BY <2>2
    <3>1. Effect(e.lines, d) = (p - o) + h - (t - s)
      BY <2>5, <3>h, <3>s, <3>t, <3>o, <3>p
    <3>2. SumOver(AllRows(journals', d)) = (o + r - s) + ((p - o) + h - (t - s))
      BY <2>1, <2>4, <3>1, <3>s, <3>o, <3>r
    <3>3. (o + r - s) + ((p - o) + h - (t - s)) = p + (r + h) - t
      OBVIOUS
    <3>4. SumOver(HandRows(journals', d)) = r + h
      BY <2>1, <3>h, <3>r
    <3> QED BY <3>2, <3>3, <3>4, <3>t, <3>p
  <2> QED BY <2>6 DEF Settled
<1> QED BY <1>2, <1>3, <1>4 DEF LedgerInv

LEMMA BookReceiptFollows ==
    ASSUME BooksInv, Grown, LedgerInv, NEW c \in Calls, BookReceipt(c)
    PROVE  LedgerInv'
<1>r. PICK r : r = call[c]
  OBVIOUS
<1>1. /\ r \in Call /\ SoundCall(r) /\ r.pc = "posting" /\ r.op \in Receiving /\ r.doc \in Docs
      /\ r.lines = ReceiptLines(r) /\ r.day \in 0..today
  BY <1>r DEF BooksInv, BooksTypeOK, BookReceipt, SoundCall, Receiving
<1>2. CASE ByClientRef(r.ref) # {}
  BY <1>2, <1>r, LedgerStays DEF BookReceipt
<1>3. CASE ByClientRef(r.ref) = {}
  <2>e. PICK e : e = Entry("receipt", r.day, r.lines, 0)
    OBVIOUS
  <2>n. PICK n : n = Len(journals) + 1
    OBVIOUS
  <2>w. PICK row : row = [doc |-> r.doc, amount |-> r.amount, ref |-> r.ref, journal |-> n, reversal |-> 0]
    OBVIOUS
  <2>1. /\ journals' = Append(journals, e) /\ receipts' = Append(receipts, row)
        /\ UNCHANGED <<today, issued>>
    BY <1>3, <1>r, <2>e, <2>n, <2>w DEF BookReceipt
  <2>2. /\ journals \in Seq(Journal) /\ receipts \in Seq(Receipt)
        /\ Len(receipts) \in Nat /\ Len(journals) \in Nat
    BY LenProperties DEF BooksInv, BooksTypeOK
  <2>3. e \in Journal /\ e.source = "receipt" /\ e.lines = r.lines /\ e.day <= today
    BY <1>1, <2>e, DaysAssumption DEF Entry, Journal, Call, Sources
  <2>4. row \in Receipt /\ row.doc = r.doc /\ row.amount = r.amount /\ row.journal = n /\ row.reversal = 0
    BY <1>1, <2>2, <2>n, <2>w DEF Receipt, Call
  <2>5. receipts' \in Seq(Receipt) /\ Len(receipts') = Len(receipts) + 1 /\ receipts'[Len(receipts) + 1] = row
    BY <2>1, <2>2, <2>4, AppendProperties
  <2>6. journals'[n] = e
    BY <2>1, <2>2, <2>3, <2>n, AppendProperties
  <2>a. PICK a \in Accounts : a = Through(r.bank)
    BY DEF Through, Accounts
  <2>7. e.lines = <<Debit(a, None, r.amount), Credit("receivable", r.doc, r.amount)>>
    BY <1>1, <2>3, <2>a DEF ReceiptLines
  <2>8. ASSUME NEW i \in 1..Len(receipts') PROVE i \in 1..Len(receipts) \/ TwoLines(i)'
    <3>1. i \in 1..Len(receipts) \/ i = Len(receipts) + 1
      BY <2>2, <2>5
    <3>2. ASSUME i = Len(receipts) + 1 PROVE TwoLines(i)'
      <4>1. receipts'[i] = row /\ journals'[receipts'[i].journal] = e
        BY <2>4, <2>5, <2>6, <3>2
      <4>2. \E b \in Accounts : e.lines = <<Debit(b, None, row.amount), Credit("receivable", row.doc, row.amount)>>
        BY <2>4, <2>7
      <4> QED BY <1>1, <2>4, <4>1, <4>2 DEF TwoLines
    <3> QED BY <3>1, <3>2
  <2>9. ASSUME NEW d \in Docs
        PROVE  Effect(e.lines, d) = (Owed(d)' - Owed(d)) + (IF e.source = "manual" THEN Effect(e.lines, d) ELSE 0)
                  - (SumOver(Standing(receipts, d))' - SumOver(Standing(receipts, d)))
    <3>1. "receivable" \in Accounts /\ r.amount \in Nat
      BY <1>1 DEF Accounts, Call
    <3>2. Effect(e.lines, d) = (IF r.doc = d THEN 0 - r.amount ELSE 0)
      <4>1. r.doc \in Docs \cup {None}
        BY <1>1
      <4> QED BY <2>7, <3>1, <4>1, EffectOfCredit
    <3>3. SumOver(Standing(receipts', d)) = SumOver(Standing(receipts, d)) + (IF r.doc = d THEN r.amount ELSE 0)
      BY <2>1, <2>2, <2>4, StandingGrows
    <3>4. SumOver(Standing(receipts, d)) \in Int
      BY <2>2, StandingSummable
    <3>5. Owed(d) \in Int /\ Owed(d)' = Owed(d)
      BY <2>1, DocsAssumption DEF Owed
    <3>6. Effect(e.lines, d) = (Owed(d)' - Owed(d)) + 0 - (SumOver(Standing(receipts', d)) - SumOver(Standing(receipts, d)))
      BY <3>1, <3>2, <3>3, <3>4, <3>5
    <3> QED BY <2>3, <3>6
  <2> QED BY <2>1, <2>3, <2>5, <2>8, <2>9, LedgerMoves
<1> QED BY <1>2, <1>3

LEMMA MarkReversedFollows ==
    ASSUME BooksInv, Grown, LedgerInv, NEW c \in Calls, MarkReversed(c)
    PROVE  LedgerInv'
<1>r. PICK r : r = call[c]
  OBVIOUS
<1>f. PICK f : f = r.found
  OBVIOUS
<1>1. /\ r \in Call /\ r.op = "reverse" /\ f \in 1..Len(receipts) /\ r.day \in 0..today
      /\ r.lines = Swapped(journals[receipts[f].journal].lines)
  BY <1>r, <1>f DEF BooksInv, BooksTypeOK, MarkReversed, SoundCall
<1>2. CASE receipts[f].reversal # 0
  BY <1>2, <1>r, <1>f, LedgerStays DEF MarkReversed
<1>3. CASE receipts[f].reversal = 0
  <2>n. PICK n : n = Len(journals) + 1
    OBVIOUS
  <2>e. PICK e : e = Entry("receipt_reversal", r.day, r.lines, receipts[f].journal)
    OBVIOUS
  <2>1. /\ journals' = Append(journals, e) /\ receipts' = [receipts EXCEPT ![f].reversal = n]
        /\ UNCHANGED <<today, issued>>
    BY <1>3, <1>r, <1>f, <2>e, <2>n DEF MarkReversed
  <2>2. /\ journals \in Seq(Journal) /\ receipts \in Seq(Receipt) /\ n \in Nat \ {0}
        /\ Len(receipts) \in Nat /\ Len(journals) \in Nat
        /\ receipts[f] \in Receipt
    BY <1>1, <2>n, LenProperties, ElementOfSeq DEF BooksInv, BooksTypeOK
  <2>3. e \in Journal /\ e.source = "receipt_reversal" /\ e.lines = r.lines /\ e.day <= today
    BY <1>1, <2>2, <2>e, DaysAssumption DEF Entry, Journal, Call, Sources, Receipt
  <2>w. PICK row : row = [receipts[f] EXCEPT !.reversal = n]
    OBVIOUS
  <2>r. row \in Receipt /\ row.reversal # 0 /\ receipts' = [receipts EXCEPT ![f] = row]
    BY <2>1, <2>2, <2>w DEF Receipt
  <2>4. receipts' \in Seq(Receipt) /\ Len(receipts') = Len(receipts)
    BY <1>1, <2>2, <2>r, ExceptSeq
  <2>a. PICK a \in Accounts : journals[receipts[f].journal].lines =
              <<Debit(a, None, receipts[f].amount), Credit("receivable", receipts[f].doc, receipts[f].amount)>>
    BY <1>1 DEF LedgerInv, TwoLines
  <2>5. ASSUME NEW d \in Docs
        PROVE  Effect(e.lines, d) = (Owed(d)' - Owed(d)) + (IF e.source = "manual" THEN Effect(e.lines, d) ELSE 0)
                  - (SumOver(Standing(receipts, d))' - SumOver(Standing(receipts, d)))
    <3>1. "receivable" \in Accounts /\ receipts[f].amount \in Nat /\ receipts[f].doc \in Docs \cup {None}
      BY <2>2 DEF Accounts, Receipt, LedgerInv, TwoLines
    <3>x. PICK x \in Docs \cup {None} : x = receipts[f].doc
      BY <3>1
    <3>m. PICK m \in Nat : m = receipts[f].amount
      BY <3>1
    <3>2. Effect(e.lines, d) = (IF x = d THEN m ELSE 0)
      <4>1. PICK lines : lines = journals[receipts[f].journal].lines
        OBVIOUS
      <4>2. lines = <<Debit(a, None, m), Credit("receivable", x, m)>>
        BY <2>a, <3>x, <3>m, <4>1
      <4>3. Effect(Swapped(lines), d) = (IF x = d THEN m ELSE 0)
        BY <3>1, <4>2, EffectOfSwapped
      <4> QED BY <1>1, <2>3, <4>1, <4>3
    <3>3. SumOver(Standing(receipts', d)) = SumOver(Standing(receipts, d)) - (IF x = d THEN m ELSE 0)
      <4>1. PICK q : q = receipts'
        OBVIOUS
      <4>2. DOMAIN q = DOMAIN receipts /\ q[f] = row /\ \A j \in DOMAIN receipts : j # f => q[j] = receipts[j]
        BY <1>1, <2>2, <2>r, <4>1
      <4>3. SumOver(Standing(q, d)) = SumOver(Standing(receipts, d)) - (IF receipts[f].doc = d THEN receipts[f].amount ELSE 0)
        BY <1>1, <1>3, <2>2, <2>r, <4>2, StandingShrinks
      <4> QED BY <3>x, <3>m, <4>1, <4>3
    <3>4. SumOver(Standing(receipts, d)) \in Int
      BY <2>2, StandingSummable
    <3>5. Owed(d) \in Int /\ Owed(d)' = Owed(d)
      BY <2>1, DocsAssumption DEF Owed
    <3>6. Effect(e.lines, d) = (Owed(d)' - Owed(d)) + 0 - (SumOver(Standing(receipts', d)) - SumOver(Standing(receipts, d)))
      BY <3>2, <3>3, <3>4, <3>5
    <3> QED BY <2>3, <3>6
  <2> QED BY <2>1, <2>3, <2>4, <2>5, LedgerMoves
<1> QED BY <1>2, <1>3

\* A payment touches no customer; what is entered by hand is its own reason.
LEMMA EntryFollows ==
    ASSUME BooksInv, Grown, LedgerInv, NEW c \in Calls, BookPayment(c) \/ BookEntry(c)
    PROVE  LedgerInv'
<1>r. PICK r : r = call[c]
  OBVIOUS
<1>s. PICK source : source = IF BookPayment(c) THEN "payment" ELSE "manual"
  OBVIOUS
<1>1. /\ r \in Call /\ SoundCall(r) /\ r.pc = "posting" /\ r.day \in 0..today
      /\ source \in {"payment", "manual"} /\ (source = "payment" => r.lines = PaymentLines(r))
  BY <1>r, <1>s DEF BooksInv, BooksTypeOK, BookPayment, BookEntry, SoundCall
<1>e. PICK e : e = Entry(source, r.day, r.lines, 0)
  OBVIOUS
<1>2. journals' = Append(journals, e) /\ UNCHANGED <<receipts, today, issued>>
  BY <1>r, <1>s, <1>e DEF BookPayment, BookEntry
<1>3. receipts \in Seq(Receipt)
  BY DEF BooksInv, BooksTypeOK
<1>4. e \in Journal /\ e.source = source /\ e.lines = r.lines /\ e.day <= today
  BY <1>1, <1>e, DaysAssumption DEF Entry, Journal, Call, Sources
<1>5. ASSUME NEW d \in Docs
      PROVE  Effect(e.lines, d) = (Owed(d)' - Owed(d)) + (IF e.source = "manual" THEN Effect(e.lines, d) ELSE 0)
                - (SumOver(Standing(receipts, d))' - SumOver(Standing(receipts, d)))
  <2>1. Owed(d) \in Int /\ Owed(d)' = Owed(d)
    BY <1>2, DocsAssumption DEF Owed
  <2>2. SumOver(Standing(receipts, d)) \in Int /\ SumOver(Standing(receipts, d))' = SumOver(Standing(receipts, d))
    BY <1>2, <1>3, StandingSummable
  <2>3. Effect(e.lines, d) \in Int
    BY <1>4, EffectIsInt DEF Journal
  <2>4. ASSUME e.source = "payment" PROVE Effect(e.lines, d) = 0
    <3>1. Through(r.bank) \in Accounts /\ "payable" \in Accounts /\ r.amount \in Nat
      BY <1>1 DEF Through, Accounts, Call
    <3>2. e.lines = <<Debit("payable", None, r.amount), Credit(Through(r.bank), None, r.amount)>>
      BY <1>1, <1>4, <2>4 DEF PaymentLines
    <3>3. None # d
      BY NoneAssumption
    <3>4. None \in Docs \cup {None}
      OBVIOUS
    <3> QED BY <3>1, <3>2, <3>3, <3>4, EffectOfCredit
  <2> QED BY <1>1, <1>4, <2>1, <2>2, <2>3, <2>4
<1> QED BY <1>2, <1>3, <1>4, <1>5, LedgerMoves

LEMMA PostSaleFollows ==
    ASSUME BooksInv, Grown, LedgerInv, NEW x \in Docs, PostSale(x)
    PROVE  LedgerInv'
<1>e. PICK e : e = Entry("sales_document", today, SaleLines(x), 0)
  OBVIOUS
<1>1. /\ journals' = Append(journals, e) /\ UNCHANGED <<receipts, today>>
      /\ x \notin issued /\ issued' = issued \cup {x}
  BY <1>e DEF PostSale
<1>2. receipts \in Seq(Receipt) /\ today \in Days /\ today \in Nat
  BY DaysAssumption DEF BooksInv, BooksTypeOK
<1>3. Total[x] \in Nat /\ "receivable" \in Accounts /\ "sales" \in Accounts
  BY DocsAssumption DEF Accounts
<1>4. SaleLines(x) \in Seq(Line)
  <2>1. Debit("receivable", x, Total[x]) \in Line /\ Credit("sales", None, Total[x]) \in Line
    BY <1>3 DEF Debit, Credit, Line
  <2> QED BY <2>1 DEF SaleLines
<1>5. e \in Journal /\ e.source = "sales_document" /\ e.lines = SaleLines(x) /\ e.day <= today
  BY <1>2, <1>4, <1>e DEF Entry, Journal, Sources
<1>6. ASSUME NEW d \in Docs
      PROVE  Effect(e.lines, d) = (Owed(d)' - Owed(d)) + (IF e.source = "manual" THEN Effect(e.lines, d) ELSE 0)
                - (SumOver(Standing(receipts, d))' - SumOver(Standing(receipts, d)))
  <2>1. Effect(e.lines, d) = (IF x = d THEN Total[x] ELSE 0)
    <3>1. e.lines = <<Debit("receivable", x, Total[x]), Credit("sales", None, Total[x])>>
      BY <1>5 DEF SaleLines
    <3>2. x \in Docs \cup {None}
      OBVIOUS
    <3> QED BY <1>3, <3>1, <3>2, EffectOfDebit
  <2>2. Owed(d)' - Owed(d) = (IF x = d THEN Total[x] ELSE 0)
    BY <1>1, <1>3, DocsAssumption DEF Owed
  <2>3. SumOver(Standing(receipts, d)) \in Int /\ SumOver(Standing(receipts, d))' = SumOver(Standing(receipts, d))
    BY <1>1, <1>2, StandingSummable
  <2> QED BY <1>3, <1>5, <2>1, <2>2, <2>3
<1> QED BY <1>1, <1>2, <1>5, <1>6, LedgerMoves

\* Any other step of a request posts nothing.
LEMMA StepsFollow ==
    ASSUME BooksInv, Grown, LedgerInv, NEW c \in Calls, BooksSteps(c)
    PROVE  LedgerInv'
<1>1. CASE BookReceipt(c)
  BY <1>1, BookReceiptFollows
<1>2. CASE MarkReversed(c)
  BY <1>2, MarkReversedFollows
<1>3. CASE BookPayment(c) \/ BookEntry(c)
  BY <1>3, EntryFollows
<1>4. CASE CountAccounts(c) \/ SeedAccounts(c) \/ ReadPeriodLock(c) \/ SetPeriodLock(c)
  <2>1. UNCHANGED <<journals, receipts, issued>>
    BY <1>4 DEF CountAccounts, SeedAccounts, ReadPeriodLock, SetPeriodLock, booksRest
  <2> QED BY <2>1, LedgerStays
<1>5. CASE RecordReceipt(c) \/ PostReceipt(c) \/ ReadWinner(c) \/ Answered(c)
  <2>1. UNCHANGED <<journals, receipts, issued>>
    <3>1. RecordReceipt(c) => UNCHANGED booksRest
      BY DEF RecordReceipt, Ask
    <3>2. PostReceipt(c) \/ ReadWinner(c) \/ Answered(c) => UNCHANGED booksRest
      BY DEF PostReceipt, ReadWinner, Answered
    <3> QED BY <1>5, <3>1, <3>2 DEF booksRest
  <2> QED BY <2>1, LedgerStays
<1>6. CASE ReverseReceipt(c) \/ RecordPayment(c) \/ Post(c) \/ Fail(c)
  <2>1. UNCHANGED <<journals, receipts, issued>>
    BY <1>6 DEF ReverseReceipt, RecordPayment, Post, Fail, booksRest
  <2> QED BY <2>1, LedgerStays
<1> QED BY <1>1, <1>2, <1>3, <1>4, <1>5, <1>6 DEF BooksSteps

LEMMA EventsFollow ==
    ASSUME BooksInv, Grown, LedgerInv, BooksEvents
    PROVE  LedgerInv'
<1>1. CASE \E d \in Docs : PostSale(d)
  BY <1>1, PostSaleFollows
<1>2. CASE \/ \E kind \in BankKinds : CreateBankAccount(kind)
           \/ \E p \in Periods : CreateFiscalPeriod(p)
           \/ NextDay
  <2>1. UNCHANGED <<journals, receipts, issued>>
    BY <1>2 DEF CreateBankAccount, CreateFiscalPeriod, NextDay
  <2> QED BY <2>1, LedgerStays
<1> QED BY <1>1, <1>2 DEF BooksEvents

LEMMA LedgerStarts == BooksInit => LedgerInv
<1> SUFFICES ASSUME BooksInit PROVE LedgerInv
  OBVIOUS
<1>1. journals = <<>> /\ receipts = <<>> /\ issued = {}
  BY DEF BooksInit
<1>2. ASSUME NEW d \in Docs PROVE Settled(d)
  <2>1. <<>> \in Seq(Journal) /\ <<>> \in Seq(Receipt)
    OBVIOUS
  <2>2. Summable(AllRows(<<>>, d)) /\ Summable(HandRows(<<>>, d)) /\ Summable(Standing(<<>>, d))
    BY <2>1, RowsSummable, StandingSummable
  <2>3. DOMAIN AllRows(<<>>, d) = {} /\ DOMAIN HandRows(<<>>, d) = {} /\ DOMAIN Standing(<<>>, d) = {}
    BY DEF AllRows, HandRows, Standing
  <2>4. SumOver(AllRows(<<>>, d)) = 0 /\ SumOver(HandRows(<<>>, d)) = 0 /\ SumOver(Standing(<<>>, d)) = 0
    BY <2>2, <2>3, SumIsInt
  <2> QED BY <1>1, <2>4 DEF Settled, Owed
<1> QED BY <1>1, <1>2 DEF LedgerInv

\* What the invariants say of the books.
LEMMA LedgerInvMeans == BooksInv /\ LedgerInv => ReceiptsAreSound
<1> SUFFICES ASSUME BooksInv, LedgerInv PROVE ReceiptsAreSound
  OBVIOUS
<1>1. ReceiptsMatchJournals /\ BookedOncePerReference
  BY DEF BooksInv, UniqueRefs, SoundCall, BookedOncePerReference
<1>2. ASSUME NEW d \in Docs
      PROVE  PartyBalance(d, today) = (IF d \in issued THEN Total[d] ELSE 0) + ByHand(d) - Received(d)
  <2>1. LedgerRows(d, today) = AllRows(journals, d)
    <3>1. \A j \in DOMAIN journals : journals[j].day <= today
      BY LenProperties DEF BooksInv, BooksTypeOK, LedgerInv
    <3> QED BY <3>1 DEF LedgerRows, AllRows
  <2>2. PartyBalance(d, today) = SumOver(AllRows(journals, d))
    BY <2>1 DEF PartyBalance
  <2>3. ByHand(d) = SumOver(HandRows(journals, d)) /\ Received(d) = SumOver(Standing(receipts, d))
    BY DEF ByHand, HandRows, Received, Standing
  <2> QED BY <2>2, <2>3 DEF LedgerInv, Settled, Owed
<1> QED BY <1>1, <1>2 DEF ReceiptsAreSound, LedgerFollowsReceipts, ReceivableFollowsReceipts

\* For the whole life of the books: what a customer owes by his ledger is his invoice,
\* less the receipts that stand, and what an accountant entered by hand, through races
\* of reversals and retries; receipts and journals go together and a reference is
\* booked once.
THEOREM LedgerFollowsAlways == BooksSpec => []ReceiptsAreSound
<1>1. BooksInit => BooksInv /\ LedgerInv
  BY BooksStart, LedgerStarts
<1>2. BooksInv /\ LedgerInv /\ [BooksNext]_booksVars => BooksInv' /\ LedgerInv'
  <2> SUFFICES ASSUME BooksInv, LedgerInv, [BooksNext]_booksVars PROVE BooksInv' /\ LedgerInv'
    OBVIOUS
  <2>1. CASE BooksNext
    <3>1. BooksInv' /\ Grown
      BY <2>1, StepsKeep, EventsKeep DEF BooksNext
    <3> QED BY <2>1, <3>1, StepsFollow, EventsFollow DEF BooksNext
  <2>2. CASE UNCHANGED booksVars
    <3>1. BooksInv' /\ Grown /\ UNCHANGED <<journals, receipts, issued>>
      BY <2>2, NothingBooked DEF booksVars, booksRest
    <3> QED BY <3>1, LedgerStays
  <2> QED BY <2>1, <2>2
<1>3. BooksInv /\ LedgerInv => ReceiptsAreSound
  BY LedgerInvMeans
<1> QED BY <1>1, <1>2, <1>3, PTL DEF BooksSpec

\* The same while payment links are paid and direct debits collected beside the books.
THEOREM LedgerFollowsCollections == Spec => []ReceiptsAreSound
<1>1. Init => CollectInv /\ LedgerInv
  BY CollectStarts, LedgerStarts DEF Init
<1>2. CollectInv /\ LedgerInv /\ [Next]_vars => CollectInv' /\ LedgerInv'
  <2> SUFFICES ASSUME CollectInv, LedgerInv, [Next]_vars PROVE CollectInv' /\ LedgerInv'
    OBVIOUS
  <2>1. CollectInv'
    BY CollectGoesOn
  <2>2. BooksInv
    BY DEF CollectInv
  <2>3. ASSUME NEW c \in Calls, BooksSteps(c) PROVE LedgerInv'
    BY <2>2, <2>3, StepsKeep, StepsFollow
  <2>4. ASSUME BooksEvents PROVE LedgerInv'
    <3>1. Grown
      BY <2>2, <2>4, EventsKeep
    <3> QED BY <2>2, <2>4, <3>1, EventsFollow
  <2>5. ASSUME UNCHANGED booksRest PROVE LedgerInv'
    <3>1. Grown /\ UNCHANGED <<journals, receipts, issued>>
      BY <2>2, <2>5, NothingStored DEF booksRest
    <3>2. LedgerInv
      OBVIOUS
    <3> QED BY <2>2, <3>1, <3>2, LedgerStays
  <2>6. (\E c \in Calls : BooksSteps(c)) \/ BooksEvents \/ UNCHANGED booksRest
    BY DEF Next, vars, booksVars, CollectSteps, HandleStripeWebhook, CompletePayPal, Capture, MarkPaid,
       CloseLink, Result, CloseDebit, Cut, CreateLink, Pay, CreateMandate, RevokeMandate, BuildBatch,
       CommitBatch, MarkSent, ReadToDiscard, Discard
  <2> QED BY <2>1, <2>3, <2>4, <2>5, <2>6
<1>3. CollectInv /\ LedgerInv => ReceiptsAreSound
  BY LedgerInvMeans DEF CollectInv
<1> QED BY <1>1, <1>2, <1>3, PTL DEF Spec

-----------------------------------------------------------------------------
(* Ageing *)

\* What is left of a credit, row by row.
LEMMA CreditLeftIs ==
    ASSUME NEW open \in Seq(Nat), NEW credit \in Nat
    PROVE  /\ CreditLeft(open, credit) \in [0 .. Len(open) -> Nat]
           /\ CreditLeft(open, credit)[0] = credit
           /\ \A i \in 1 .. Len(open) : CreditLeft(open, credit)[i] =
                 CreditLeft(open, credit)[i - 1] - Lesser(open[i], CreditLeft(open, credit)[i - 1])
<1> DEFINE n == Len(open)
           Whole(g) == [i \in 0 .. n |-> IF i = 0 THEN credit ELSE g[i - 1] - Lesser(open[i], g[i - 1])]
<1>1. n \in Nat /\ \A i \in 1 .. n : open[i] \in Nat
  BY LenProperties, ElementOfSeq
<1>2. PICK step : step = [i \in 1 .. n |-> [left \in Nat |-> left - Lesser(open[i], left)]]
  OBVIOUS
<1>3. step \in [1 .. n -> [Nat -> Nat]]
  BY <1>1, <1>2 DEF Lesser
<1>4. PICK g \in [0 .. n -> Nat] : g[0] = credit /\ \A i \in 1 .. n : g[i] = step[i][g[i - 1]]
  <2>1. PICK N : N = Nat
    OBVIOUS
  <2>2. n \in Nat /\ credit \in N /\ step \in [1 .. n -> [N -> N]]
    BY <1>1, <1>3, <2>1
  <2> HIDE DEF n
  <2>3. \E g \in [0 .. n -> N] : Follows(g, n, credit, step)
    BY <2>2, RecursionHasSolution
  <2> QED BY <2>1, <2>3 DEF Follows
<1>5. \A i \in 1 .. n : g[i - 1] \in Nat /\ g[i] = g[i - 1] - Lesser(open[i], g[i - 1])
  <2> SUFFICES ASSUME NEW i \in 1 .. n
               PROVE  g[i - 1] \in Nat /\ g[i] = g[i - 1] - Lesser(open[i], g[i - 1])
    OBVIOUS
  <2>1. g[i - 1] \in Nat
    <3>1. i - 1 \in 0 .. n
      BY <1>1
    <3> HIDE DEF n
    <3> QED BY <1>4, <3>1
  <2>2. step[i][g[i - 1]] = g[i - 1] - Lesser(open[i], g[i - 1])
    BY <1>2, <2>1
  <2> QED BY <1>4, <2>1, <2>2
<1>6. g = Whole(g)
  <2>1. ASSUME NEW i \in 0 .. n PROVE g[i] = Whole(g)[i]
    <3>1. CASE i = 0
      BY <1>4, <3>1
    <3>2. CASE i # 0
      <4>1. i \in 1 .. n
        BY <1>1, <3>2
      <4> QED BY <1>5, <3>2, <4>1
    <3> QED BY <3>1, <3>2
  <2> QED BY <1>4, <2>1
<1>7. CreditLeft(open, credit) = CHOOSE h : h = Whole(h)
  BY DEF CreditLeft
<1>8. PICK left : left = CreditLeft(open, credit)
  OBVIOUS
<1>9. left = Whole(left)
  BY <1>6, <1>7, <1>8
<1>10. left[0] = credit /\ \A i \in 1 .. n : left[i] = left[i - 1] - Lesser(open[i], left[i - 1])
  <2>1. 0 \in 0 .. n /\ \A i \in 1 .. n : i \in 0 .. n /\ i # 0
    BY <1>1
  <2> QED BY <1>9, <2>1
<1>11. \A i \in 0 .. n : left[i] \in Nat
  <2> DEFINE B == {i \in 0 .. n : left[i] \notin Nat}
  <2>1. ASSUME B # {} PROVE FALSE
    <3>1. PICK m \in B : \A k \in B : m <= k
      <4>1. B \subseteq Nat
        OBVIOUS
      <4> HIDE DEF B
      <4> QED BY <2>1, <4>1, LeastNat
    <3>2. m # 0
      BY <1>10, <3>1
    <3>3. m \in 1 .. n /\ m - 1 \in 0 .. n /\ m - 1 \notin B
      BY <3>1, <3>2
    <3>4. left[m - 1] \in Nat /\ open[m] \in Nat
      BY <1>1, <3>3
    <3>5. left[m] = left[m - 1] - Lesser(open[m], left[m - 1])
      BY <1>10, <3>3
    <3> QED BY <3>1, <3>4, <3>5 DEF Lesser
  <2> QED BY <2>1
<1>12. left \in [0 .. n -> Nat]
  BY <1>9, <1>11
<1> QED BY <1>8, <1>10, <1>12

\* A settlement keeps the rows.
LEMMA SettleIsTyped ==
    ASSUME NEW open \in Seq(Nat), NEW credit \in Nat
    PROVE  Settle(open, credit) \in Seq(Nat) /\ Len(Settle(open, credit)) = Len(open)
<1>1. PICK s : s = Settle(open, credit)
  OBVIOUS
<1>2. PICK left \in [0 .. Len(open) -> Nat] : left = CreditLeft(open, credit)
  BY CreditLeftIs
<1>3. s = [i \in 1 .. Len(open) |-> open[i] - Lesser(open[i], left[i - 1])]
  BY <1>1, <1>2 DEF Settle
<1>4. DOMAIN open = 1 .. Len(open) /\ Len(open) \in Nat /\ \A i \in 1 .. Len(open) : open[i] \in Nat
  BY LenProperties, ElementOfSeq
<1>5. \A i \in 1 .. Len(open) : open[i] - Lesser(open[i], left[i - 1]) \in Nat
  <2> SUFFICES ASSUME NEW i \in 1 .. Len(open) PROVE open[i] - Lesser(open[i], left[i - 1]) \in Nat
    OBVIOUS
  <2>1. open[i] \in Nat /\ left[i - 1] \in Nat
    BY <1>2, <1>4
  <2> QED BY <2>1 DEF Lesser
<1>6. s \in [DOMAIN open -> Nat]
  BY <1>3, <1>4, <1>5
<1> QED BY <1>1, <1>6, SamePositions

\* The loop over the rows, row by row.
LEMMA OpenAfterIs ==
    ASSUME NEW rows \in Seq(LedgerLines)
    PROVE  /\ \A k \in 0 .. Len(rows) : OpenAfter(rows)[k] \in Seq(Nat) /\ Len(OpenAfter(rows)[k]) = k
           /\ \A k \in 1 .. Len(rows) : OpenAfter(rows)[k] =
                 IF rows[k].debit > 0 THEN Append(OpenAfter(rows)[k - 1], rows[k].debit)
                 ELSE Append(Settle(OpenAfter(rows)[k - 1], rows[k].credit), 0)
<1> DEFINE n == Len(rows)
           After(k, s) == IF rows[k].debit > 0 THEN Append(s, rows[k].debit)
                          ELSE Append(Settle(s, rows[k].credit), 0)
           Whole(g) == [k \in 0 .. n |-> IF k = 0 THEN <<>> ELSE After(k, g[k - 1])]
<1>1. n \in Nat /\ \A k \in 1 .. n : rows[k].debit \in Nat /\ rows[k].credit \in Nat
  <2>1. n \in Nat /\ \A k \in 1 .. n : rows[k] \in LedgerLines
    BY LenProperties, ElementOfSeq
  <2> QED BY <2>1, LedgerAssumption
<1>2. ASSUME NEW k \in 1 .. n, NEW s \in Seq(Nat)
      PROVE  After(k, s) \in Seq(Nat) /\ Len(After(k, s)) = Len(s) + 1
  <2>1. rows[k].debit \in Nat /\ rows[k].credit \in Nat /\ 0 \in Nat
    BY <1>1
  <2>2. CASE rows[k].debit > 0
    <3>1. PICK a \in Nat : a = rows[k].debit
      BY <2>1
    <3>2. PICK t : t = Append(s, a)
      OBVIOUS
    <3>3. t \in Seq(Nat) /\ Len(t) = Len(s) + 1
      BY <3>2, AddAtEnd
    <3>4. After(k, s) = t
      BY <2>2, <3>1, <3>2
    <3> HIDE DEF After
    <3> QED BY <3>3, <3>4
  <2>3. CASE ~(rows[k].debit > 0)
    <3>1. PICK t : t = Settle(s, rows[k].credit)
      OBVIOUS
    <3>2. t \in Seq(Nat) /\ Len(t) = Len(s)
      BY <2>1, <3>1, SettleIsTyped
    <3>3. PICK a \in Nat : a = 0
      OBVIOUS
    <3>4. PICK u : u = Append(t, a)
      OBVIOUS
    <3>5. u \in Seq(Nat) /\ Len(u) = Len(s) + 1
      <4>1. Append(t, a) \in Seq(Nat) /\ Len(Append(t, a)) = Len(t) + 1
        BY <3>2, AddAtEnd
      <4> QED BY <3>2, <3>4, <4>1
    <3>6. After(k, s) = u
      BY <2>3, <3>1, <3>3, <3>4
    <3> HIDE DEF After
    <3> QED BY <3>5, <3>6
  <2> QED BY <2>2, <2>3
<1>3. PICK step : step = [k \in 1 .. n |-> [s \in Seq(Nat) |-> After(k, s)]]
  OBVIOUS
<1>4. PICK X : X = Seq(Nat)
  OBVIOUS
<1>5. step \in [1 .. n -> [X -> X]] /\ <<>> \in X
  <2> HIDE DEF After, n
  <2> QED BY <1>2, <1>3, <1>4
<1>6. PICK g \in [0 .. n -> X] : Follows(g, n, <<>>, step)
  <2>1. n \in Nat
    BY <1>1
  <2> HIDE DEF n
  <2> QED BY <1>5, <2>1, RecursionHasSolution
<1>7. g = Whole(g)
  <2>1. ASSUME NEW k \in 0 .. n PROVE g[k] = Whole(g)[k]
    <3>1. CASE k = 0
      BY <1>6, <3>1 DEF Follows
    <3>2. CASE k # 0
      <4>1. k \in 1 .. n /\ k - 1 \in 0 .. n
        BY <1>1, <3>2
      <4>2. g[k - 1] \in Seq(Nat)
        BY <1>4, <1>6, <4>1
      <4>3. g[k] = step[k][g[k - 1]]
        BY <1>6, <4>1 DEF Follows
      <4>4. step[k][g[k - 1]] = After(k, g[k - 1])
        <5> HIDE DEF After, n
        <5> QED BY <1>3, <4>1, <4>2
      <4>5. Whole(g)[k] = After(k, g[k - 1])
        <5> HIDE DEF After, n
        <5> QED BY <3>2
      <4> QED BY <4>3, <4>4, <4>5
    <3> QED BY <3>1, <3>2
  <2>2. g = [k \in 0 .. n |-> g[k]]
    BY <1>6
  <2> HIDE DEF After
  <2> QED BY <2>1, <2>2
<1>8. OpenAfter(rows) = CHOOSE h : h = Whole(h)
  BY DEF OpenAfter
<1>9. PICK open : open = OpenAfter(rows)
  OBVIOUS
<1>10. open = Whole(open)
  <2> HIDE DEF Whole
  <2> QED BY <1>7, <1>8, <1>9
<1>11. open[0] = <<>> /\ \A k \in 1 .. n : open[k] = After(k, open[k - 1])
  <2>1. 0 \in 0 .. n /\ \A k \in 1 .. n : k \in 0 .. n /\ k # 0
    BY <1>1
  <2> HIDE DEF After, n
  <2> QED BY <1>10, <2>1
<1>12. \A k \in 0 .. n : open[k] \in Seq(Nat) /\ Len(open[k]) = k
  <2> DEFINE B == {k \in 0 .. n : ~(open[k] \in Seq(Nat) /\ Len(open[k]) = k)}
  <2>1. ASSUME B # {} PROVE FALSE
    <3>1. PICK m \in B : \A k \in B : m <= k
      <4>1. B \subseteq Nat
        OBVIOUS
      <4> HIDE DEF B
      <4> QED BY <2>1, <4>1, LeastNat
    <3>2. m # 0
      <4>1. <<>> \in Seq(Nat) /\ Len(<<>>) = 0
        OBVIOUS
      <4> QED BY <1>11, <3>1, <4>1
    <3>3. m \in 1 .. n /\ m - 1 \in 0 .. n /\ m - 1 \notin B
      <4>1. m \in 0 .. n
        OBVIOUS
      <4>2. m \in 1 .. n /\ m - 1 \in 0 .. n /\ ~(m <= m - 1)
        BY <1>1, <3>2, <4>1
      <4> HIDE DEF B
      <4> QED BY <3>1, <4>2
    <3>4. open[m - 1] \in Seq(Nat) /\ Len(open[m - 1]) = m - 1
      BY <3>3
    <3>5. PICK s : s = open[m - 1]
      OBVIOUS
    <3>6. s \in Seq(Nat) /\ Len(s) = m - 1 /\ open[m] = After(m, s)
      BY <1>11, <3>3, <3>4, <3>5
    <3>7. After(m, s) \in Seq(Nat) /\ Len(After(m, s)) = Len(s) + 1
      BY <1>2, <3>3, <3>6
    <3>8. open[m] \in Seq(Nat) /\ Len(open[m]) = m
      <4> HIDE DEF After
      <4> QED BY <3>3, <3>6, <3>7
    <3> QED BY <3>8
  <2> QED BY <2>1
<1> QED BY <1>9, <1>11, <1>12

-----------------------------------------------------------------------------
\* What of b is beyond c.
Beyond(b, c) == IF b <= c THEN 0 ELSE b - c

\* Debits adding up to bill, from the oldest on.
Adds(bill, n) ==
    /\ n \in Nat /\ bill \in [0 .. n -> Nat] /\ bill[0] = 0
    /\ \A i \in 1 .. n : bill[i - 1] <= bill[i]

\* What is open of each row when c has been credited.
Shares(open, bill, c) ==
    \A i \in 1 .. Len(open) : open[i] = Beyond(bill[i], c) - Beyond(bill[i - 1], c)

\* A credit goes to the oldest rows first.
LEMMA LeftByTotals ==
    ASSUME NEW open \in Seq(Nat), NEW credit \in Nat, NEW c \in Nat, NEW n, NEW bill, Adds(bill, n),
           Len(open) <= n, Shares(open, bill, c)
    PROVE  \A i \in 0 .. Len(open) : CreditLeft(open, credit)[i] = Beyond(credit, Beyond(bill[i], c))
<1>1. PICK left \in [0 .. Len(open) -> Nat] : left = CreditLeft(open, credit)
  BY CreditLeftIs
<1>2. left[0] = credit /\ \A i \in 1 .. Len(open) : left[i] = left[i - 1] - Lesser(open[i], left[i - 1])
  BY <1>1, CreditLeftIs
<1>3. Len(open) \in Nat
  BY LenProperties
<1> DEFINE B == {i \in 0 .. Len(open) : left[i] # Beyond(credit, Beyond(bill[i], c))}
<1>4. ASSUME B # {} PROVE FALSE
  <2>1. PICK m \in B : \A k \in B : m <= k
    <3>1. B \subseteq Nat
      OBVIOUS
    <3> HIDE DEF B
    <3> QED BY <1>4, <3>1, LeastNat
  <2>2. m # 0
    BY <1>2, <2>1 DEF Adds, Beyond
  <2>3. m \in 1 .. Len(open) /\ m - 1 \in 0 .. Len(open) /\ m - 1 \notin B
    <3>1. m \in 0 .. Len(open)
      OBVIOUS
    <3>2. m \in 1 .. Len(open) /\ m - 1 \in 0 .. Len(open) /\ ~(m <= m - 1)
      BY <1>3, <2>2, <3>1
    <3> HIDE DEF B
    <3> QED BY <2>1, <3>2
  <2>4. left[m - 1] = Beyond(credit, Beyond(bill[m - 1], c))
    BY <2>3
  <2>5. left[m] = left[m - 1] - Lesser(open[m], left[m - 1])
    BY <1>2, <2>3
  <2>6. open[m] = Beyond(bill[m], c) - Beyond(bill[m - 1], c)
    BY <2>3 DEF Shares
  <2>7. bill[m] \in Nat /\ bill[m - 1] \in Nat /\ bill[m - 1] <= bill[m]
    <3>1. m \in 1 .. n /\ m \in 0 .. n /\ m - 1 \in 0 .. n
      BY <1>3, <2>3 DEF Adds
    <3> QED BY <3>1 DEF Adds
  <2>8. left[m] = Beyond(credit, Beyond(bill[m], c))
    <3>1. PICK b \in Nat, p \in Nat : b = bill[m] /\ p = bill[m - 1]
      BY <2>7
    <3>2. PICK x, y : x = left[m] /\ y = left[m - 1]
      OBVIOUS
    <3>3. y = Beyond(credit, Beyond(p, c)) /\ x = y - Lesser(Beyond(b, c) - Beyond(p, c), y) /\ p <= b
      BY <2>4, <2>5, <2>6, <2>7, <3>1, <3>2
    <3>4. x = Beyond(credit, Beyond(b, c))
      BY <3>3 DEF Beyond, Lesser
    <3> QED BY <3>1, <3>2, <3>4
  <2> QED BY <2>1, <2>8
<1> QED BY <1>1, <1>4

\* A row's share, less what a further credit takes of it.
ShareLess(b, p, c, credit) ==
    (Beyond(b, c) - Beyond(p, c)) - Lesser(Beyond(b, c) - Beyond(p, c), Beyond(credit, Beyond(p, c)))

\* What a row with that share loses to what is left of a credit.
LEMMA Consumed ==
    ASSUME NEW b \in Nat, NEW p \in Nat, NEW c \in Nat, NEW credit \in Nat, p <= b
    PROVE  ShareLess(b, p, c, credit) = Beyond(b, c + credit) - Beyond(p, c + credit)
<1>1. CASE p <= c
  <2>1. Beyond(p, c) = 0 /\ Beyond(credit, 0) = credit /\ Beyond(p, c + credit) = 0
    BY <1>1 DEF Beyond
  <2>2. Beyond(b, c) - Lesser(Beyond(b, c), credit) = Beyond(b, c + credit)
    BY DEF Beyond, Lesser
  <2>3. Beyond(b, c) \in Nat /\ Beyond(b, c + credit) \in Nat
    BY DEF Beyond
  <2> QED BY <2>1, <2>2, <2>3 DEF ShareLess
<1>2. CASE ~(p <= c)
  <2>1. Beyond(p, c) = p - c /\ Beyond(b, c) = b - c /\ (b - c) - (p - c) = b - p
    BY <1>2 DEF Beyond
  <2>2. Beyond(credit, p - c) = IF credit + c <= p THEN 0 ELSE credit + c - p
    BY <1>2 DEF Beyond
  <2>3. (b - p) - Lesser(b - p, Beyond(credit, p - c)) = Beyond(b, c + credit) - Beyond(p, c + credit)
    <3>1. CASE credit + c <= p
      BY <1>2, <2>2, <3>1 DEF Beyond, Lesser
    <3>2. CASE ~(credit + c <= p)
      BY <1>2, <2>2, <3>2 DEF Beyond, Lesser
    <3> QED BY <3>1, <3>2
  <2> QED BY <2>1, <2>3 DEF ShareLess
<1> QED BY <1>1, <1>2

\* A settlement leaves of every row its share of what more is credited.
LEMMA SettleShares ==
    ASSUME NEW open \in Seq(Nat), NEW credit \in Nat, NEW c \in Nat, NEW n, NEW bill, Adds(bill, n),
           Len(open) <= n, Shares(open, bill, c)
    PROVE  Shares(Settle(open, credit), bill, c + credit)
<1>1. PICK s : s = Settle(open, credit)
  OBVIOUS
<1>2. Len(s) = Len(open) /\ Len(open) \in Nat
  BY <1>1, SettleIsTyped, LenProperties
<1>3. ASSUME NEW i \in 1 .. Len(open)
      PROVE  s[i] = Beyond(bill[i], c + credit) - Beyond(bill[i - 1], c + credit)
  <2>1. s[i] = open[i] - Lesser(open[i], CreditLeft(open, credit)[i - 1])
    BY <1>1 DEF Settle
  <2>2. CreditLeft(open, credit)[i - 1] = Beyond(credit, Beyond(bill[i - 1], c))
    <3>1. i - 1 \in 0 .. Len(open)
      BY <1>2
    <3> QED BY <3>1, LeftByTotals
  <2>3. open[i] = Beyond(bill[i], c) - Beyond(bill[i - 1], c)
    BY DEF Shares
  <2>4. bill[i] \in Nat /\ bill[i - 1] \in Nat /\ bill[i - 1] <= bill[i]
    <3>1. i \in 1 .. n /\ i \in 0 .. n /\ i - 1 \in 0 .. n
      BY <1>2 DEF Adds
    <3> QED BY <3>1 DEF Adds
  <2>5. PICK b \in Nat, p \in Nat : b = bill[i] /\ p = bill[i - 1] /\ p <= b
    BY <2>4
  <2>6. s[i] = (Beyond(b, c) - Beyond(p, c)) - Lesser(Beyond(b, c) - Beyond(p, c), Beyond(credit, Beyond(p, c)))
    BY <2>1, <2>2, <2>3, <2>5
  <2>7. s[i] = Beyond(b, c + credit) - Beyond(p, c + credit)
    <3>1. ShareLess(b, p, c, credit) = Beyond(b, c + credit) - Beyond(p, c + credit)
      <4>1. p <= b
        BY <2>5
      <4> QED BY <4>1, Consumed
    <3> QED BY <2>6, <3>1 DEF ShareLess
  <2> QED BY <2>5, <2>7
<1>4. Shares(s, bill, c + credit)
  BY <1>2, <1>3 DEF Shares
<1> QED BY <1>1, <1>4

-----------------------------------------------------------------------------
(* The totals of a ledger *)

\* A total grows by the row's value; there is nothing before the first row.
LEMMA TotalsGrow ==
    ASSUME NEW n \in Nat, NEW value \in [1 .. n -> Nat]
    PROVE  /\ SumOver([k \in 1 .. 0 |-> value[k]]) = 0
           /\ \A i \in 0 .. n : SumOver([k \in 1 .. i |-> value[k]]) \in Nat
           /\ \A i \in 1 .. n : SumOver([k \in 1 .. i |-> value[k]]) = SumOver([k \in 1 .. i - 1 |-> value[k]]) + value[i]
<1>1. ASSUME NEW i \in 0 .. n, NEW f, f = [k \in 1 .. i |-> value[k]]
      PROVE  /\ Summable(f) /\ DOMAIN f = 1 .. i /\ (\A k \in 1 .. i : f[k] = value[k])
             /\ SumOver(f) \in Nat /\ (i = 0 => SumOver(f) = 0)
  <2>1. DOMAIN f = 1 .. i /\ \A k \in 1 .. i : f[k] = value[k] /\ value[k] \in Nat
    BY <1>1
  <2>2. IsFiniteSet(1 .. i)
    BY FS_Interval
  <2>3. Summable(f)
    BY <1>1, <2>1, <2>2 DEF Summable
  <2>4. SumOver(f) \in Int /\ (DOMAIN f = {} => SumOver(f) = 0)
    BY <2>3, SumIsInt
  <2>5. SumOver(f) >= 0
    BY <2>1, <2>3, SumOfPositive
  <2> QED BY <2>1, <2>3, <2>4, <2>5
<1>2. SumOver([k \in 1 .. 0 |-> value[k]]) = 0
  <2>1. PICK i \in 0 .. n : i = 0
    OBVIOUS
  <2>2. PICK f : f = [k \in 1 .. i |-> value[k]]
    OBVIOUS
  <2>3. SumOver(f) = 0
    BY <1>1, <2>1, <2>2
  <2> QED BY <2>1, <2>2, <2>3
<1>3. ASSUME NEW i \in 0 .. n PROVE SumOver([k \in 1 .. i |-> value[k]]) \in Nat
  <2>1. PICK f : f = [k \in 1 .. i |-> value[k]]
    OBVIOUS
  <2>2. SumOver(f) \in Nat
    BY <1>1, <2>1
  <2> QED BY <2>1, <2>2
<1>4. ASSUME NEW i \in 1 .. n
      PROVE  SumOver([k \in 1 .. i |-> value[k]]) = SumOver([k \in 1 .. i - 1 |-> value[k]]) + value[i]
  <2>1. PICK h : h = [k \in 1 .. i |-> value[k]]
    OBVIOUS
  <2>2. PICK f : f = [k \in 1 .. i - 1 |-> value[k]]
    OBVIOUS
  <2>3. i \in 0 .. n /\ i - 1 \in 0 .. n
    OBVIOUS
  <2>4. Summable(h) /\ DOMAIN h = 1 .. i /\ \A k \in 1 .. i : h[k] = value[k]
    BY <1>1, <2>1, <2>3
  <2>5. Summable(f) /\ DOMAIN f = 1 .. i - 1 /\ \A k \in 1 .. i - 1 : f[k] = value[k]
    BY <1>1, <2>2, <2>3
  <2>6. i \notin DOMAIN f /\ DOMAIN h = DOMAIN f \cup {i} /\ h[i] = value[i] /\ \A k \in DOMAIN f : h[k] = f[k]
    BY <2>4, <2>5
  <2>7. SumOver(h) = SumOver(f) + h[i]
    BY <2>4, <2>5, <2>6, SumGrow
  <2> QED BY <2>1, <2>2, <2>6, <2>7
<1> QED BY <1>2, <1>3, <1>4

\* What the customer has been billed and has paid, after each row.
LEMMA LedgerTotals ==
    ASSUME NEW rows \in Seq(LedgerLines)
    PROVE  /\ Len(rows) \in Nat
           /\ Billed(rows, 0) = 0 /\ Credited(rows, 0) = 0
           /\ \A i \in 0 .. Len(rows) : Billed(rows, i) \in Nat /\ Credited(rows, i) \in Nat
           /\ \A i \in 1 .. Len(rows) :
                 /\ rows[i].debit \in Nat /\ rows[i].credit \in Nat /\ (rows[i].debit = 0 \/ rows[i].credit = 0)
                 /\ Billed(rows, i) = Billed(rows, i - 1) + rows[i].debit
                 /\ Credited(rows, i) = Credited(rows, i - 1) + rows[i].credit
<1>1. PICK n : n = Len(rows)
  OBVIOUS
<1>2. n \in Nat /\ \A i \in 1 .. n : rows[i].debit \in Nat /\ rows[i].credit \in Nat
                               /\ (rows[i].debit = 0 \/ rows[i].credit = 0)
  <2>1. n \in Nat /\ \A i \in 1 .. n : rows[i] \in LedgerLines
    BY <1>1, LenProperties, ElementOfSeq
  <2> QED BY <2>1, LedgerAssumption
<1>3. PICK billed : billed = [k \in 1 .. n |-> rows[k].debit]
  OBVIOUS
<1>4. PICK paid : paid = [k \in 1 .. n |-> rows[k].credit]
  OBVIOUS
<1>5. billed \in [1 .. n -> Nat] /\ paid \in [1 .. n -> Nat]
  BY <1>2, <1>3, <1>4
<1>6. ASSUME NEW i \in 0 .. n
      PROVE  /\ Billed(rows, i) = SumOver([k \in 1 .. i |-> billed[k]])
             /\ Credited(rows, i) = SumOver([k \in 1 .. i |-> paid[k]])
  <2>1. [k \in 1 .. i |-> rows[k].debit] = [k \in 1 .. i |-> billed[k]]
    BY <1>2, <1>3
  <2>2. [k \in 1 .. i |-> rows[k].credit] = [k \in 1 .. i |-> paid[k]]
    BY <1>2, <1>4
  <2> QED BY <2>1, <2>2 DEF Billed, Credited
<1>7. 0 \in 0 .. n /\ \A i \in 1 .. n : i \in 0 .. n /\ i - 1 \in 0 .. n
  BY <1>2
<1>8. /\ Billed(rows, 0) = 0 /\ \A i \in 0 .. n : Billed(rows, i) \in Nat
      /\ \A i \in 1 .. n : Billed(rows, i) = Billed(rows, i - 1) + rows[i].debit
  <2>1. /\ SumOver([k \in 1 .. 0 |-> billed[k]]) = 0
        /\ \A i \in 0 .. n : SumOver([k \in 1 .. i |-> billed[k]]) \in Nat
        /\ \A i \in 1 .. n : SumOver([k \in 1 .. i |-> billed[k]]) = SumOver([k \in 1 .. i - 1 |-> billed[k]]) + billed[i]
    BY <1>2, <1>5, TotalsGrow
  <2>2. \A i \in 1 .. n : billed[i] = rows[i].debit
    BY <1>3
  <2>3. ASSUME NEW i \in 1 .. n PROVE Billed(rows, i) = Billed(rows, i - 1) + rows[i].debit
    BY <1>6, <1>7, <2>1, <2>2
  <2> QED BY <1>6, <1>7, <2>1, <2>3
<1>9. /\ Credited(rows, 0) = 0 /\ \A i \in 0 .. n : Credited(rows, i) \in Nat
      /\ \A i \in 1 .. n : Credited(rows, i) = Credited(rows, i - 1) + rows[i].credit
  <2>1. /\ SumOver([k \in 1 .. 0 |-> paid[k]]) = 0
        /\ \A i \in 0 .. n : SumOver([k \in 1 .. i |-> paid[k]]) \in Nat
        /\ \A i \in 1 .. n : SumOver([k \in 1 .. i |-> paid[k]]) = SumOver([k \in 1 .. i - 1 |-> paid[k]]) + paid[i]
    BY <1>2, <1>5, TotalsGrow
  <2>2. \A i \in 1 .. n : paid[i] = rows[i].credit
    BY <1>4
  <2>3. ASSUME NEW i \in 1 .. n PROVE Credited(rows, i) = Credited(rows, i - 1) + rows[i].credit
    BY <1>6, <1>7, <2>1, <2>2
  <2> QED BY <1>6, <1>7, <2>1, <2>3
<1> QED BY <1>1, <1>2, <1>8, <1>9

-----------------------------------------------------------------------------
\* After every row, what is open of each is its share of what has been credited.
LEMMA OpenIsShared ==
    ASSUME NEW rows \in Seq(LedgerLines), NeverAhead(rows), NEW bill, bill = [i \in 0 .. Len(rows) |-> Billed(rows, i)]
    PROVE  /\ Adds(bill, Len(rows))
           /\ \A k \in 0 .. Len(rows) : Shares(OpenAfter(rows)[k], bill, Credited(rows, k))
<1>1. PICK n : n = Len(rows)
  OBVIOUS
<1>2. PICK open : open = OpenAfter(rows)
  OBVIOUS
<1>3. /\ n \in Nat
      /\ Billed(rows, 0) = 0 /\ Credited(rows, 0) = 0
      /\ \A i \in 0 .. n : Billed(rows, i) \in Nat /\ Credited(rows, i) \in Nat
      /\ \A i \in 1 .. n :
            /\ rows[i].debit \in Nat /\ rows[i].credit \in Nat /\ (rows[i].debit = 0 \/ rows[i].credit = 0)
            /\ Billed(rows, i) = Billed(rows, i - 1) + rows[i].debit
            /\ Credited(rows, i) = Credited(rows, i - 1) + rows[i].credit
  BY <1>1, LedgerTotals
<1>4. 0 \in 0 .. n /\ \A i \in 1 .. n : i \in 0 .. n /\ i - 1 \in 0 .. n
  BY <1>3
<1>5. \A i \in 0 .. n : bill[i] = Billed(rows, i)
  BY <1>1
<1>6. Adds(bill, n)
  <2>1. bill \in [0 .. n -> Nat] /\ bill[0] = 0
    BY <1>1, <1>3, <1>4, <1>5
  <2>2. ASSUME NEW i \in 1 .. n PROVE bill[i - 1] <= bill[i]
    <3>1. Billed(rows, i - 1) \in Nat /\ rows[i].debit \in Nat /\ Billed(rows, i) = Billed(rows, i - 1) + rows[i].debit
      BY <1>3, <1>4
    <3>2. Billed(rows, i - 1) <= Billed(rows, i)
      BY <3>1
    <3> QED BY <1>4, <1>5, <3>2
  <2> QED BY <1>3, <2>1, <2>2 DEF Adds
<1>7. /\ \A k \in 0 .. n : open[k] \in Seq(Nat) /\ Len(open[k]) = k
      /\ \A k \in 1 .. n : open[k] = IF rows[k].debit > 0 THEN Append(open[k - 1], rows[k].debit)
                                     ELSE Append(Settle(open[k - 1], rows[k].credit), 0)
  BY <1>1, <1>2, OpenAfterIs
<1>8. ASSUME NEW k \in 1 .. n, Shares(open[k - 1], bill, Credited(rows, k - 1))
      PROVE  Shares(open[k], bill, Credited(rows, k))
  <2>1. PICK s : s = open[k - 1]
    OBVIOUS
  <2>2. PICK d \in Nat, e \in Nat : d = rows[k].debit /\ e = rows[k].credit
    BY <1>3
  <2>3. PICK c \in Nat : c = Credited(rows, k - 1)
    BY <1>3, <1>4
  <2>4. PICK b \in Nat, p \in Nat : b = bill[k] /\ p = bill[k - 1]
    BY <1>3, <1>4, <1>5
  <2>5. b = p + d /\ Credited(rows, k) = c + e /\ (d = 0 \/ e = 0)
    BY <1>3, <1>4, <1>5, <2>2, <2>3, <2>4
  <2>6. p >= c
    <3>1. CASE k = 1
      BY <1>3, <2>3, <2>4, <3>1
    <3>2. CASE k # 1
      <4>1. k - 1 \in 1 .. n
        BY <1>3, <3>2
      <4>2. Billed(rows, k - 1) >= Credited(rows, k - 1)
        BY <1>1, <4>1 DEF NeverAhead
      <4> QED BY <1>4, <1>5, <2>3, <2>4, <4>2
    <3> QED BY <3>1, <3>2
  <2>7. s \in Seq(Nat) /\ Len(s) = k - 1 /\ Shares(s, bill, c)
    BY <1>4, <1>7, <1>8, <2>1, <2>3
  <2>8. PICK t \in Seq(Nat), a \in Nat :
            open[k] = Append(t, a) /\ Len(t) = k - 1 /\ Shares(t, bill, c + e) /\ a = Beyond(b, c + e) - Beyond(p, c + e)
    <3>1. CASE d > 0
      <4>1. open[k] = Append(s, d)
        BY <1>7, <2>1, <2>2, <3>1
      <4>2. e = 0 /\ c + e = c
        BY <2>5, <3>1
      <4>3. d = Beyond(b, c) - Beyond(p, c)
        BY <2>5, <2>6 DEF Beyond
      <4> QED BY <2>7, <4>1, <4>2, <4>3
    <3>2. CASE ~(d > 0)
      <4>1. PICK t : t = Settle(s, e)
        OBVIOUS
      <4>2. open[k] = Append(t, 0)
        BY <1>7, <2>1, <2>2, <3>2, <4>1
      <4>3. t \in Seq(Nat) /\ Len(t) = k - 1
        BY <2>7, <4>1, SettleIsTyped
      <4>4. Shares(t, bill, c + e)
        <5>1. Len(s) <= n
          BY <1>3, <2>7
        <5> QED BY <1>6, <2>7, <4>1, <5>1, SettleShares
      <4>5. 0 = Beyond(b, c + e) - Beyond(p, c + e) /\ 0 \in Nat
        <5>1. b = p
          BY <2>5, <3>2
        <5> QED BY <5>1 DEF Beyond
      <4> QED BY <4>2, <4>3, <4>4, <4>5
    <3> QED BY <3>1, <3>2
  <2>9. PICK u : u = Append(t, a)
    OBVIOUS
  <2>10. Len(u) = k /\ (\A j \in 1 .. k - 1 : u[j] = t[j]) /\ u[k] = a
    <3>1. DOMAIN t = 1 .. k - 1
      BY <2>8, LenProperties
    <3>2. /\ Len(Append(t, a)) = Len(t) + 1
          /\ \A j \in DOMAIN t : Append(t, a)[j] = t[j]
          /\ Append(t, a)[Len(t) + 1] = a
      BY AddAtEnd
    <3>3. Len(t) = k - 1 /\ (k - 1) + 1 = k
      BY <2>8
    <3> QED BY <2>9, <3>1, <3>2, <3>3
  <2>11. ASSUME NEW j \in 1 .. k PROVE u[j] = Beyond(bill[j], c + e) - Beyond(bill[j - 1], c + e)
    <3>1. CASE j = k
      BY <2>4, <2>8, <2>10, <3>1
    <3>2. CASE j # k
      <4>1. j \in 1 .. k - 1
        BY <3>2
      <4> QED BY <2>8, <2>10, <4>1 DEF Shares
    <3> QED BY <3>1, <3>2
  <2>12. Shares(u, bill, c + e)
    BY <2>10, <2>11 DEF Shares
  <2> QED BY <2>5, <2>8, <2>9, <2>12
<1>9. Shares(open[0], bill, Credited(rows, 0))
  <2>1. Len(open[0]) = 0
    BY <1>4, <1>7
  <2> QED BY <2>1 DEF Shares
<1>10. \A k \in 0 .. n : Shares(open[k], bill, Credited(rows, k))
  <2> DEFINE B == {k \in 0 .. n : ~Shares(open[k], bill, Credited(rows, k))}
  <2>1. ASSUME B # {} PROVE FALSE
    <3>1. PICK m \in B : \A k \in B : m <= k
      <4>1. B \subseteq Nat
        OBVIOUS
      <4> HIDE DEF B
      <4> QED BY <2>1, <4>1, LeastNat
    <3>2. m # 0
      BY <1>9, <3>1
    <3>3. m \in 1 .. n /\ m - 1 \in 0 .. n /\ m - 1 \notin B
      <4>1. m \in 0 .. n
        OBVIOUS
      <4>2. m \in 1 .. n /\ m - 1 \in 0 .. n /\ ~(m <= m - 1)
        BY <1>3, <3>2, <4>1
      <4> HIDE DEF B
      <4> QED BY <3>1, <4>2
    <3>4. Shares(open[m - 1], bill, Credited(rows, m - 1))
      BY <3>3
    <3> QED BY <1>8, <3>1, <3>3, <3>4
  <2> QED BY <2>1
<1> QED BY <1>1, <1>2, <1>6, <1>10

\* What the loops leave open of a row is what the totals say.
LEMMA OpenByTotalsIs ==
    ASSUME NEW rows \in Seq(LedgerLines), NeverAhead(rows)
    PROVE  /\ OpenAmounts(rows) \in Seq(Nat) /\ Len(OpenAmounts(rows)) = Len(rows)
           /\ \A i \in 1 .. Len(rows) :
                 /\ OpenAmounts(rows)[i] = OpenByTotals(rows, i)
                 /\ OpenAmounts(rows)[i] = Beyond(Billed(rows, i), Credited(rows, Len(rows)))
                                            - Beyond(Billed(rows, i - 1), Credited(rows, Len(rows)))
<1>1. PICK n : n = Len(rows)
  OBVIOUS
<1>2. PICK bill : bill = [i \in 0 .. n |-> Billed(rows, i)]
  OBVIOUS
<1>3. PICK s : s = OpenAmounts(rows)
  OBVIOUS
<1>4. /\ n \in Nat
      /\ \A i \in 0 .. n : Billed(rows, i) \in Nat /\ Credited(rows, i) \in Nat
      /\ \A i \in 1 .. n : rows[i].debit \in Nat /\ Billed(rows, i) = Billed(rows, i - 1) + rows[i].debit
  BY <1>1, LedgerTotals
<1>5. n \in 0 .. n /\ \A i \in 1 .. n : i \in 0 .. n /\ i - 1 \in 0 .. n
  BY <1>4
<1>6. s = OpenAfter(rows)[n] /\ s \in Seq(Nat) /\ Len(s) = n
  BY <1>1, <1>3, <1>5, OpenAfterIs DEF OpenAmounts
<1>7. Shares(s, bill, Credited(rows, n))
  BY <1>1, <1>2, <1>5, <1>6, OpenIsShared
<1>8. ASSUME NEW i \in 1 .. n
      PROVE  /\ s[i] = OpenByTotals(rows, i)
             /\ s[i] = Beyond(Billed(rows, i), Credited(rows, n)) - Beyond(Billed(rows, i - 1), Credited(rows, n))
  <2>1. PICK b \in Nat, p \in Nat, d \in Nat, c \in Nat :
            b = Billed(rows, i) /\ p = Billed(rows, i - 1) /\ d = rows[i].debit /\ c = Credited(rows, n)
    BY <1>4, <1>5
  <2>2. b = p + d
    BY <1>4, <2>1
  <2>3. bill[i] = b /\ bill[i - 1] = p
    BY <1>2, <1>5, <2>1
  <2>4. s[i] = Beyond(b, c) - Beyond(p, c)
    BY <1>6, <1>7, <2>1, <2>3 DEF Shares
  <2>5. OpenByTotals(rows, i) = IF b - c <= 0 THEN 0 ELSE IF b - c >= d THEN d ELSE b - c
    BY <1>1, <2>1 DEF OpenByTotals
  <2>6. Beyond(b, c) - Beyond(p, c) = IF b - c <= 0 THEN 0 ELSE IF b - c >= d THEN d ELSE b - c
    BY <2>2 DEF Beyond
  <2> QED BY <2>1, <2>4, <2>5, <2>6
<1> QED BY <1>1, <1>3, <1>6, <1>8

-----------------------------------------------------------------------------
(* Sums by class *)

\* Nothing adds up to nothing.
LEMMA SumOfNothing ==
    ASSUME NEW S, IsFiniteSet(S)
    PROVE  Summable([x \in S |-> 0]) /\ SumOver([x \in S |-> 0]) = 0
<1> DEFINE Nil(T) == [x \in T |-> 0]
           B == {T \in SUBSET S : SumOver(Nil(T)) # 0}
<1>1. ASSUME NEW T \in SUBSET S PROVE Summable(Nil(T)) /\ DOMAIN Nil(T) = T
  BY FS_Subset DEF Summable
<1>2. ASSUME B # {} PROVE FALSE
  <2>1. PICK T \in B : \A U \in B : U \subseteq T => U = T
    <3>1. B \subseteq SUBSET S
      OBVIOUS
    <3> HIDE DEF B
    <3> QED BY <1>2, <3>1, LeastSet
  <2>2. T \in SUBSET S /\ SumOver(Nil(T)) # 0
    OBVIOUS
  <2>3. T # {}
    <3>1. PICK f : f = Nil(T)
      OBVIOUS
    <3>2. Summable(f) /\ DOMAIN f = T /\ SumOver(f) # 0
      BY <1>1, <2>2, <3>1
    <3>3. DOMAIN f # {}
      BY <3>2, SumIsInt
    <3> QED BY <3>2, <3>3
  <2>4. PICK x \in T : TRUE
    BY <2>3
  <2>5. T \ {x} \in SUBSET S /\ T \ {x} \notin B
    <3>1. T \ {x} \in SUBSET S /\ T \ {x} \subseteq T /\ T \ {x} # T
      BY <2>2, <2>4
    <3> HIDE DEF B
    <3> QED BY <2>1, <3>1
  <2>6. PICK f : f = Nil(T \ {x})
    OBVIOUS
  <2>7. PICK h : h = Nil(T)
    OBVIOUS
  <2>8. SumOver(f) = 0 /\ Summable(f) /\ Summable(h)
    <3>1. SumOver(Nil(T \ {x})) = 0
      BY <2>5
    <3> HIDE DEF Nil
    <3> QED BY <1>1, <2>2, <2>5, <2>6, <2>7, <3>1
  <2>9. x \notin DOMAIN f /\ DOMAIN h = DOMAIN f \cup {x} /\ h[x] = 0 /\ \A y \in DOMAIN f : h[y] = f[y]
    BY <2>4, <2>6, <2>7
  <2>10. SumOver(h) = SumOver(f) + h[x]
    BY <2>8, <2>9, SumGrow
  <2>11. SumOver(h) = 0
    BY <2>8, <2>9, <2>10
  <2> QED BY <2>2, <2>7, <2>11
<1>3. S \in SUBSET S /\ S \notin B
  <2>1. B = {}
    BY <1>2
  <2> HIDE DEF B
  <2> QED BY <2>1
<1>4. SumOver(Nil(S)) = 0
  BY <1>3
<1> QED BY <1>1, <1>3, <1>4

\* The values of a class among the first k.
OfClass(value, class, k, b) == [i \in {j \in 1 .. k : class[j] = b} |-> value[i]]
ByClass(Classes, value, class, k) == [b \in Classes |-> SumOver(OfClass(value, class, k, b))]

\* What is sorted into classes adds up to the whole.
LEMMA ClassesAddUp ==
    ASSUME NEW n \in Nat, NEW value \in [1 .. n -> Nat], NEW Classes, IsFiniteSet(Classes),
           NEW class \in [1 .. n -> Classes]
    PROVE  SumOver(ByClass(Classes, value, class, n)) = SumOver([k \in 1 .. n |-> value[k]])
<1> DEFINE Of(k, b) == OfClass(value, class, k, b)
           By(k) == ByClass(Classes, value, class, k)
           TotalTo(k) == SumOver([j \in 1 .. k |-> value[j]])
           B == {k \in 0 .. n : SumOver(By(k)) # TotalTo(k)}
<1>1. ASSUME NEW k \in 0 .. n, NEW b
      PROVE  /\ Summable(Of(k, b)) /\ DOMAIN Of(k, b) = {j \in 1 .. k : class[j] = b}
             /\ \A j \in DOMAIN Of(k, b) : Of(k, b)[j] = value[j]
  <2>1. PICK f : f = Of(k, b)
    OBVIOUS
  <2>2. PICK D : D = {j \in 1 .. k : class[j] = b}
    OBVIOUS
  <2>3. f = [i \in D |-> value[i]] /\ D \subseteq 1 .. k
    BY <2>1, <2>2 DEF OfClass
  <2>4. IsFiniteSet(D)
    <3>1. IsFiniteSet(1 .. k)
      BY FS_Interval
    <3> QED BY <2>3, <3>1, FS_Subset
  <2>5. \A j \in D : f[j] = value[j] /\ value[j] \in Int
    BY <2>3
  <2>6. Summable(f) /\ DOMAIN f = D
    BY <2>3, <2>4, <2>5 DEF Summable
  <2> HIDE DEF Of
  <2> QED BY <2>1, <2>2, <2>5, <2>6
<1>2. ASSUME NEW k \in 0 .. n
      PROVE  Summable(By(k)) /\ DOMAIN By(k) = Classes /\ \A b \in Classes : By(k)[b] = SumOver(Of(k, b)) /\ By(k)[b] \in Int
  <2>1. PICK g : g = By(k)
    OBVIOUS
  <2>2. g = [b \in Classes |-> SumOver(Of(k, b))]
    BY <2>1 DEF ByClass
  <2>3. \A b \in Classes : SumOver(Of(k, b)) \in Int
    <3> HIDE DEF Of
    <3> QED BY <1>1, SumIsInt
  <2> HIDE DEF Of, By
  <2>4. Summable(g)
    BY <2>2, <2>3 DEF Summable
  <2> QED BY <2>1, <2>2, <2>3, <2>4
<1>3. /\ TotalTo(0) = 0
      /\ \A i \in 0 .. n : TotalTo(i) \in Nat
      /\ \A i \in 1 .. n : TotalTo(i) = TotalTo(i - 1) + value[i]
  BY TotalsGrow
<1>4. SumOver(By(0)) = 0
  <2>1. 0 \in 0 .. n
    OBVIOUS
  <2>2. \A b \in Classes : By(0)[b] = 0
    <3>1. ASSUME NEW b \in Classes PROVE By(0)[b] = 0
      <4>1. PICK f : f = Of(0, b)
        OBVIOUS
      <4>2. Summable(f) /\ DOMAIN f = {j \in 1 .. 0 : class[j] = b}
        <5> HIDE DEF Of
        <5> QED BY <1>1, <2>1, <4>1
      <4>3. DOMAIN f = {}
        BY <4>2
      <4>4. SumOver(f) = 0
        BY <4>2, <4>3, SumIsInt
      <4> HIDE DEF Of, By
      <4> QED BY <1>2, <2>1, <4>1, <4>4
    <3> QED BY <3>1
  <2>3. By(0) = [b \in Classes |-> 0]
    <3>1. By(0) = [b \in Classes |-> By(0)[b]]
      BY DEF ByClass
    <3> HIDE DEF By
    <3> QED BY <2>2, <3>1
  <2> HIDE DEF By
  <2> QED BY <2>3, SumOfNothing
<1>5. ASSUME NEW k \in 1 .. n PROVE SumOver(By(k)) = SumOver(By(k - 1)) + value[k]
  <2>1. k \in 0 .. n /\ k - 1 \in 0 .. n
    OBVIOUS
  <2>2. PICK x \in Classes : x = class[k]
    OBVIOUS
  <2>3. PICK g : g = By(k - 1)
    OBVIOUS
  <2>4. PICK h : h = By(k)
    OBVIOUS
  <2>5. /\ Summable(g) /\ DOMAIN g = Classes /\ \A b \in Classes : g[b] = SumOver(Of(k - 1, b)) /\ g[b] \in Int
        /\ Summable(h) /\ DOMAIN h = Classes /\ \A b \in Classes : h[b] = SumOver(Of(k, b)) /\ h[b] \in Int
    <3> HIDE DEF Of, By
    <3> QED BY <1>2, <2>1, <2>3, <2>4
  <2>6. ASSUME NEW b \in Classes \ {x} PROVE h[b] = g[b]
    <3>1. {j \in 1 .. k : class[j] = b} = {j \in 1 .. k - 1 : class[j] = b}
      BY <2>2
    <3>2. Of(k, b) = Of(k - 1, b)
      BY <3>1 DEF OfClass
    <3> HIDE DEF Of
    <3> QED BY <2>5, <3>2
  <2>7. h[x] = g[x] + value[k]
    <3>1. PICK p : p = Of(k - 1, x)
      OBVIOUS
    <3>2. PICK q : q = Of(k, x)
      OBVIOUS
    <3>3. /\ Summable(p) /\ DOMAIN p = {j \in 1 .. k - 1 : class[j] = x} /\ \A j \in DOMAIN p : p[j] = value[j]
          /\ Summable(q) /\ DOMAIN q = {j \in 1 .. k : class[j] = x} /\ \A j \in DOMAIN q : q[j] = value[j]
      <4> HIDE DEF Of
      <4>1. Summable(p) /\ DOMAIN p = {j \in 1 .. k - 1 : class[j] = x} /\ \A j \in DOMAIN p : p[j] = value[j]
        BY <1>1, <2>1, <3>1
      <4>2. Summable(q) /\ DOMAIN q = {j \in 1 .. k : class[j] = x} /\ \A j \in DOMAIN q : q[j] = value[j]
        BY <1>1, <2>1, <3>2
      <4> QED BY <4>1, <4>2
    <3>4. k \notin DOMAIN p /\ DOMAIN q = DOMAIN p \cup {k}
      BY <2>2, <3>3
    <3>5. q[k] = value[k] /\ \A j \in DOMAIN p : q[j] = p[j]
      BY <3>3, <3>4
    <3>6. SumOver(q) = SumOver(p) + q[k]
      <4>1. Summable(p) /\ Summable(q)
        BY <3>3
      <4> QED BY <3>4, <3>5, <4>1, SumGrow
    <3> HIDE DEF Of
    <3> QED BY <2>5, <3>1, <3>2, <3>5, <3>6
  <2>8. PICK v \in Int : v = g[x] + value[k]
    BY <2>5
  <2>9. h = [g EXCEPT ![x] = v]
    BY <2>5, <2>6, <2>7, <2>8 DEF Summable
  <2>10. SumOver(h) = SumOver(g) - g[x] + v /\ SumOver(g) \in Int
    <3>1. Summable(g) /\ x \in DOMAIN g
      BY <2>5
    <3>2. SumOver([g EXCEPT ![x] = v]) = SumOver(g) - g[x] + v
      BY <3>1, SumChange
    <3> QED BY <2>9, <3>1, <3>2, SumIsInt
  <2>11. SumOver(h) = SumOver(g) + value[k]
    BY <2>5, <2>8, <2>10
  <2> HIDE DEF By
  <2> QED BY <2>3, <2>4, <2>11
<1>6. ASSUME B # {} PROVE FALSE
  <2>1. PICK m \in B : \A k \in B : m <= k
    <3>1. B \subseteq Nat
      OBVIOUS
    <3> HIDE DEF B
    <3> QED BY <1>6, <3>1, LeastNat
  <2>2. m # 0
    <3> HIDE DEF By, TotalTo
    <3> QED BY <1>3, <1>4, <2>1
  <2>3. m \in 1 .. n /\ m - 1 \in 0 .. n /\ m - 1 \notin B
    <3>1. m \in 0 .. n
      OBVIOUS
    <3>2. m \in 1 .. n /\ m - 1 \in 0 .. n /\ ~(m <= m - 1)
      BY <2>2, <3>1
    <3> HIDE DEF B
    <3> QED BY <2>1, <3>2
  <2> HIDE DEF By, TotalTo
  <2>4. SumOver(By(m - 1)) = TotalTo(m - 1)
    BY <2>3
  <2>5. SumOver(By(m)) = TotalTo(m)
    BY <1>3, <1>5, <2>3, <2>4
  <2> QED BY <2>1, <2>5
<1>7. n \in 0 .. n /\ n \notin B
  <2>1. B = {}
    BY <1>6
  <2> HIDE DEF B
  <2> QED BY <2>1
<1> QED BY <1>7

-----------------------------------------------------------------------------
\* The bands are five.
LEMMA BandsAreFinite == IsFiniteSet(Bands)
<1>1. Bands = {"current"} \cup {"1-30"} \cup {"31-60"} \cup {"61-90"} \cup {"90+"}
  BY DEF Bands
<1> QED BY <1>1, FS_Singleton, FS_Union

\* Every age has a band.
LEMMA BandIsOne == ASSUME NEW days \in Int PROVE Band(days) \in Bands
BY DEF Band, Bands

\* The rows of a ledger are rows posted to it.
LedgerTypeOK == ledger \in Seq(LedgerLines)

LEMMA LedgerTyped == AgeingSpec => []LedgerTypeOK
<1>1. AgeingInit => LedgerTypeOK
  BY DEF AgeingInit, LedgerTypeOK
<1>2. LedgerTypeOK /\ [AgeingNext]_ledger => LedgerTypeOK'
  BY DEF AgeingNext, PostRow, LedgerTypeOK
<1> QED BY <1>1, <1>2, PTL DEF AgeingSpec

\* For every ledger in which the customer was never ahead, and every day, each
\* band of GetAgeing has what the totals leave open of the debits of its age, and
\* the bands add up to the balance: the loop that consumes credits row by row
\* loses nothing, counts nothing twice and closes the oldest debits first
\* (accounting/app/service.go:922-994).
THEOREM AgeingHolds == AgeingSpec => []AgeingIsOldestFirst
<1> SUFFICES LedgerTypeOK => AgeingIsOldestFirst
  BY LedgerTyped, PTL
<1> DEFINE rows == ledger
<1> SUFFICES ASSUME rows \in Seq(LedgerLines), NeverAhead(rows)
             PROVE  /\ \A b \in Bands : GetAgeing(rows)[b]
                           = SumOver([i \in RowsIn(rows, b) |-> OpenByTotals(rows, i)])
                    /\ SumOver(GetAgeing(rows)) = Billed(rows, Len(rows)) - Credited(rows, Len(rows))
  BY DEF AgeingIsOldestFirst, LedgerTypeOK
<1>1. PICK n : n = Len(rows)
  OBVIOUS
<1>2. PICK s : s = OpenAmounts(rows)
  OBVIOUS
<1>3. PICK c : c = Credited(rows, n)
  OBVIOUS
<1>4. /\ n \in Nat /\ c \in Nat /\ Billed(rows, 0) = 0 /\ Credited(rows, 0) = 0
      /\ \A i \in 0 .. n : Billed(rows, i) \in Nat
  <2>1. n \in Nat /\ n \in 0 .. n
    BY <1>1, LedgerTotals
  <2> QED BY <1>1, <1>3, <2>1, LedgerTotals
<1>5. DOMAIN rows = 1 .. n /\ \A i \in 1 .. n : rows[i].day \in Int
  <2>1. DOMAIN rows = 1 .. n /\ \A i \in 1 .. n : rows[i] \in LedgerLines
    BY <1>1, LenProperties, ElementOfSeq
  <2> QED BY <2>1, LedgerAssumption
<1> AsOf \in Int
  BY LedgerAssumption
<1>6. /\ s \in Seq(Nat) /\ Len(s) = n
      /\ \A i \in 1 .. n : s[i] = OpenByTotals(rows, i) /\ s[i] = Beyond(Billed(rows, i), c) - Beyond(Billed(rows, i - 1), c)
  BY <1>1, <1>2, <1>3, OpenByTotalsIs
<1>7. GetAgeing(rows) = [b \in Bands |-> SumOver([i \in RowsIn(rows, b) |-> s[i]])]
  BY <1>2 DEF GetAgeing
<1>8. ASSUME NEW b \in Bands
      PROVE  GetAgeing(rows)[b] = SumOver([i \in RowsIn(rows, b) |-> OpenByTotals(rows, i)])
  <2>1. RowsIn(rows, b) \subseteq 1 .. n
    BY <1>5 DEF RowsIn
  <2>2. [i \in RowsIn(rows, b) |-> s[i]] = [i \in RowsIn(rows, b) |-> OpenByTotals(rows, i)]
    BY <1>6, <2>1
  <2>3. GetAgeing(rows)[b] = SumOver([i \in RowsIn(rows, b) |-> s[i]])
    BY <1>7
  <2> QED BY <2>2, <2>3
<1>9. s \in [1 .. n -> Nat]
  BY <1>6
<1>10. PICK class : class = [i \in 1 .. n |-> Band(AsOf - rows[i].day)]
  OBVIOUS
<1>11. class \in [1 .. n -> Bands]
  BY <1>5, <1>10, BandIsOne
<1>12. GetAgeing(rows) = ByClass(Bands, s, class, n)
  <2>1. ASSUME NEW b \in Bands
        PROVE  SumOver([i \in RowsIn(rows, b) |-> s[i]]) = SumOver(OfClass(s, class, n, b))
    <3>1. RowsIn(rows, b) = {j \in 1 .. n : class[j] = b}
      BY <1>5, <1>10 DEF RowsIn
    <3> QED BY <3>1 DEF OfClass
  <2> QED BY <1>7, <2>1 DEF ByClass
<1>13. SumOver(GetAgeing(rows)) = SumOver([k \in 1 .. n |-> s[k]])
  <2>1. SumOver(ByClass(Bands, s, class, n)) = SumOver([k \in 1 .. n |-> s[k]])
    BY <1>4, <1>9, <1>11, BandsAreFinite, ClassesAddUp
  <2> QED BY <1>12, <2>1
<1>14. SumOver([k \in 1 .. n |-> s[k]]) = Beyond(Billed(rows, n), c)
  <2> DEFINE TotalTo(i) == SumOver([k \in 1 .. i |-> s[k]])
             B == {i \in 0 .. n : TotalTo(i) # Beyond(Billed(rows, i), c)}
  <2>1. /\ TotalTo(0) = 0
        /\ \A i \in 0 .. n : TotalTo(i) \in Nat
        /\ \A i \in 1 .. n : TotalTo(i) = TotalTo(i - 1) + s[i]
    BY <1>4, <1>9, TotalsGrow
  <2> HIDE DEF TotalTo
  <2>2. ASSUME B # {} PROVE FALSE
    <3>1. PICK m \in B : \A k \in B : m <= k
      <4>1. B \subseteq Nat
        OBVIOUS
      <4> HIDE DEF B
      <4> QED BY <2>2, <4>1, LeastNat
    <3>2. m # 0
      <4>1. Beyond(Billed(rows, 0), c) = 0
        BY <1>4 DEF Beyond
      <4> QED BY <2>1, <3>1, <4>1
    <3>3. m \in 1 .. n /\ m - 1 \in 0 .. n /\ m - 1 \notin B
      <4>1. m \in 0 .. n
        OBVIOUS
      <4>2. m \in 1 .. n /\ m - 1 \in 0 .. n /\ ~(m <= m - 1)
        BY <1>4, <3>2, <4>1
      <4> HIDE DEF B
      <4> QED BY <3>1, <4>2
    <3>4. TotalTo(m - 1) = Beyond(Billed(rows, m - 1), c)
      BY <3>3
    <3>5. TotalTo(m) = TotalTo(m - 1) + s[m] /\ s[m] = Beyond(Billed(rows, m), c) - Beyond(Billed(rows, m - 1), c)
      BY <1>6, <2>1, <3>3
    <3>6. Beyond(Billed(rows, m), c) \in Int /\ Beyond(Billed(rows, m - 1), c) \in Int
      <4>1. Billed(rows, m) \in Nat /\ Billed(rows, m - 1) \in Nat
        BY <1>4, <3>3
      <4> QED BY <1>4, <4>1 DEF Beyond
    <3>7. TotalTo(m) = Beyond(Billed(rows, m), c)
      BY <3>4, <3>5, <3>6
    <3> QED BY <3>1, <3>7
  <2>3. n \in 0 .. n /\ n \notin B
    <3>1. B = {}
      BY <2>2
    <3> HIDE DEF B
    <3> QED BY <1>4, <3>1
  <2> QED BY <2>3 DEF TotalTo
<1>15. Beyond(Billed(rows, n), c) = Billed(rows, n) - c
  <2>1. Billed(rows, n) \in Nat
    BY <1>4
  <2>2. CASE n = 0
    BY <1>3, <1>4, <2>2 DEF Beyond
  <2>3. CASE n # 0
    <3>1. Billed(rows, n) >= c
      BY <1>1, <1>3, <1>4, <2>3 DEF NeverAhead
    <3> QED BY <1>4, <2>1, <3>1 DEF Beyond
  <2> QED BY <2>2, <2>3
<1> QED BY <1>1, <1>3, <1>8, <1>13, <1>14, <1>15
=============================================================================

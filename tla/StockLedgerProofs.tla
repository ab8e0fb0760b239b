-------------------------- MODULE StockLedgerProofs --------------------------
(***************************************************************************)
(* Theorems about StockLedger and Purchases, for every number of cells,    *)
(* warehouses, documents and requests.                                     *)
(*                                                                         *)
(* StockLedger: on a cell whose balance row exists, the row lock keeps     *)
(* the balance equal to its movements, above zero and above its cost lots, *)
(* and its reserved quantity the sum of the active reservations.  The sums *)
(* need an invariant of their own: what each transaction has in hand       *)
(* carries the sum that transaction sees.                                  *)
(*                                                                         *)
(* Purchases: shelf and payable are sums over the documents that stand;    *)
(* what a commit adds is the difference its document makes, because, until *)
(* two requests meet on a document, what a request read of it still holds. *)
(* The average cost needs the arithmetic of OnReceipt and of its ratios.   *)
(***************************************************************************)
EXTENDS StockLedger, Purchases, SumsProofs, TLAPS

\* A cell that has ever allowed negative stock is exempt from the two bounds.
PolicyIsLoose == \A c \in Cells : policy[c] => c \in loose

\* A balance, committed or being changed, that agrees with its movements.
Sound(c, bal) ==
    /\ bal.exists
    /\ bal.onHand = bal.moved
    /\ c \notin loose => 0 <= bal.lots /\ bal.lots <= bal.onHand

RowsSound == \A c \in Seeded : Sound(c, row[c])
WorkSound == \A c \in Seeded : lock[c] # None => Sound(c, work[c])

\* What a leg read is still so when it writes: it holds the row's lock.
ReadIsCurrent ==
    \A t \in Txs : pc[t] = "read" =>
        /\ todo[t] # <<>>
        /\ LET leg == Head(todo[t]) IN
             leg.cell \in Seeded =>
               /\ lock[leg.cell] = t
               /\ seen[t].onHand = work[leg.cell].onHand
               /\ seen[t].reserved = work[leg.cell].reserved
               /\ leg.kind = "out" /\ leg.cell \notin loose
                    => seen[t].onHand >= leg.qty

Inv == TypeOK /\ PolicyIsLoose /\ RowsSound /\ WorkSound /\ ReadIsCurrent

\* A sum of reserved quantities is a number, as there are finitely many.
LEMMA SumQtyIsInt ==
    ASSUME NEW h \in [Reservations -> Hold], NEW rs \in SUBSET Reservations
    PROVE  SumQty(h, rs) \in Int
<1>1. PICK f : f = [r \in rs |-> h[r].qty]
  OBVIOUS
<1>2. IsFiniteSet(rs)
  BY ReservationsAssumption, FS_Subset
<1>3. Summable(f)
  BY <1>1, <1>2 DEF Summable, Hold
<1> QED BY <1>1, <1>3, SumIsInt DEF SumQty

\* The seeded rows are sound and nothing is running.
LEMMA InitInv == Init => Inv
<1> SUFFICES ASSUME Init PROVE Inv
  OBVIOUS
<1> USE CellsAssumption, StockAssumption, NoneAssumption
<1>1. (CHOOSE c \in Cells : TRUE) \in Cells
  OBVIOUS
<1>2. TypeOK
  BY <1>1 DEF Init, TypeOK, Row, Hold, Statuses, SeedRow, NoRow, Leg
<1>3. PolicyIsLoose /\ RowsSound /\ WorkSound /\ ReadIsCurrent
  BY DEF Init, PolicyIsLoose, RowsSound, WorkSound, ReadIsCurrent, Sound, SeedRow
<1> QED BY <1>2, <1>3 DEF Inv

\* A leg of a request, and the legs that follow it.
LEMMA LegsTyped ==
    ASSUME TypeOK, NEW t \in Txs, todo[t] # <<>>
    PROVE  Head(todo[t]) \in Leg /\ Tail(todo[t]) \in Seq(Leg)
BY DEF TypeOK

\* Starting a request changes no balance.
LEMMA StartInv ==
    ASSUME Inv, NEW t \in Txs, NEW legs \in Seq(Leg), Start(t, legs)
    PROVE  Inv'
BY DEF Inv, Start, TypeOK, PolicyIsLoose, RowsSound, WorkSound, ReadIsCurrent, Sound

\* Every operation starts a sequence of legs.
LEMMA RequestInv ==
    ASSUME Inv, NEW t \in Txs, Request(t)
    PROVE  Inv'
<1> USE StockAssumption
<1>1. ASSUME NEW kind \in Kinds, NEW c \in Cells, NEW q \in Nat,
             NEW r \in Reservations \cup {None}
      PROVE Step(kind, c, q, r) \in Leg
  BY DEF Step, Leg
<1>2. CASE RecordOpeningStock(t)
  <2>1. PICK c \in Cells, q \in Quantities : Start(t, <<Step("receipt", c, q, None)>>)
    BY <1>2 DEF RecordOpeningStock
  <2>2. Step("receipt", c, q, None) \in Leg
    BY <1>1 DEF Kinds
  <2>4. <<Step("receipt", c, q, None)>> \in Seq(Leg)
    BY <2>2
  <2> QED BY <2>1, <2>4, StartInv
<1>3. CASE RecordAdjustment(t)
  BY <1>3, DocumentsAssumption, StartInv DEF RecordAdjustment
<1>4. CASE RecordTransfer(t)
  <2>1. PICK c \in Cells, d \in Cells, q \in Quantities :
          Start(t, <<Step("out", c, q, None), Step("in", d, q, None)>>)
    BY <1>4 DEF RecordTransfer
  <2>2. Step("out", c, q, None) \in Leg /\ Step("in", d, q, None) \in Leg
    BY <1>1 DEF Kinds
  <2>4. <<Step("out", c, q, None), Step("in", d, q, None)>> \in Seq(Leg)
    BY <2>2
  <2> QED BY <2>1, <2>4, StartInv
<1>5. CASE MoveForDocument(t)
  BY <1>5, DocumentsAssumption, StartInv DEF MoveForDocument
<1>6. CASE Reserve(t)
  <2>1. PICK c \in Cells, q \in Quantities, r \in Reservations :
          Start(t, <<Step("reserve", c, q, r)>>)
    BY <1>6 DEF Reserve
  <2>2. Step("reserve", c, q, r) \in Leg
    BY <1>1 DEF Kinds
  <2>4. <<Step("reserve", c, q, r)>> \in Seq(Leg)
    BY <2>2
  <2> QED BY <2>1, <2>4, StartInv
<1>7. CASE ReleaseReservation(t)
  <2>1. PICK r \in Reservations, c \in Cells : Start(t, <<Step("release", c, 0, r)>>)
    BY <1>7 DEF ReleaseReservation
  <2>2. Step("release", c, 0, r) \in Leg
    BY <1>1 DEF Kinds
  <2>3. <<Step("release", c, 0, r)>> \in Seq(Leg)
    BY <2>2
  <2> QED BY <2>1, <2>3, StartInv
<1> QED BY <1>2, <1>3, <1>4, <1>5, <1>6, <1>7 DEF Request

-----------------------------------------------------------------------------
(* The steps of a leg *)

\* A step that changes one cell, and leaves that one sound, leaves them all so.
LEMMA WorkStaysSound ==
    ASSUME Inv, NEW c \in Cells, c \in Seeded => Sound(c, work'[c]),
           \A d \in Cells \ {c} : lock'[d] = lock[d] /\ work'[d] = work[d],
           UNCHANGED loose
    PROVE  WorkSound'
<1> SUFFICES ASSUME NEW d \in Seeded, lock'[d] # None PROVE Sound(d, work'[d])
  BY DEF WorkSound, Sound
<1>1. CASE d = c
  BY <1>1
<1>2. CASE d # c
  BY <1>2, CellsAssumption DEF Inv, WorkSound
<1> QED BY <1>1, <1>2

\* Marking a reservation touches no balance.
LEMMA MarkReleasedInv ==
    ASSUME Inv, NEW t \in Txs, MarkReleased(t)
    PROVE  Inv'
<1>1. Head(todo[t]) \in Leg
  BY LegsTyped DEF Inv, MarkReleased
<1>2. TypeOK'
  <2> DEFINE r == Head(todo[t]).res
  <2>1. CASE r \in Reservations
    <3>1. res[r] \in Hold /\ [res[r] EXCEPT !.status = "releasing"] \in Hold
      <4>1. PICK h : h = res[r] /\ h \in Hold
        BY <2>1 DEF Inv, TypeOK
      <4>2. [h EXCEPT !.status = "releasing"] \in Hold
        BY <4>1 DEF Hold, Statuses
      <4> QED BY <4>1, <4>2
    <3>2. res' = [res EXCEPT ![r] = [res[r] EXCEPT !.status = "releasing"]]
      BY <2>1 DEF MarkReleased
    <3>3. res' \in [Reservations -> Hold]
      BY <2>1, <3>1, <3>2 DEF Inv, TypeOK
    <3> QED BY <3>3 DEF Inv, TypeOK, MarkReleased
  <2>2. CASE r \notin Reservations
    <3>1. res' = res /\ rlock' = rlock
      BY <2>2 DEF Inv, TypeOK, MarkReleased
    <3> QED BY <3>1 DEF Inv, TypeOK, MarkReleased
  <2> QED BY <2>1, <2>2
<1>3. PolicyIsLoose' /\ RowsSound' /\ WorkSound' /\ ReadIsCurrent'
  BY DEF Inv, TypeOK, MarkReleased, PolicyIsLoose, RowsSound, WorkSound, ReadIsCurrent, Sound
<1> QED BY <1>2, <1>3 DEF Inv

\* The balance is read under its row's lock, which the leg then holds.
LEMMA ReadInv ==
    ASSUME Inv, NEW t \in Txs, Read(t)
    PROVE  Inv'
<1> DEFINE leg == Head(todo[t])
           c == leg.cell
           bal == Visible(t, c)
<1> USE DEF Read
<1>1. leg \in Leg /\ todo[t] # <<>>
  BY LegsTyped DEF Inv
<1>2. c \in Cells /\ leg.qty \in Nat /\ leg.kind \in Kinds
  BY <1>1 DEF Leg
<1>3. bal \in Row
  BY <1>2 DEF Visible, Inv, TypeOK
<1>4. TypeOK'
  <2>1. /\ work' \in [Cells -> Row]
        /\ lock' \in [Cells -> Txs \cup {None}]
    BY <1>2, <1>3 DEF Inv, TypeOK
  <2>2. seen' \in [Txs -> [onHand : Int, reserved : Int]]
    BY <1>3 DEF Inv, TypeOK, Row
  <2> QED BY <2>1, <2>2 DEF Inv, TypeOK
<1>5. PolicyIsLoose' /\ RowsSound'
  BY DEF Inv, PolicyIsLoose, RowsSound, Sound
<1>6. c \in Seeded => Sound(c, bal) /\ lock[c] \in {t, None} /\ row[c].exists
  BY <1>2, NoneAssumption DEF Inv, RowsSound, WorkSound, Visible, CanRead, Sound
<1>7. WorkSound'
  <2>1. c \in Seeded => work'[c] = bal
    BY <1>2, <1>6 DEF Inv, TypeOK
  <2>2. \A d \in Cells \ {c} : lock'[d] = lock[d] /\ work'[d] = work[d]
    BY <1>2 DEF Inv, TypeOK
  <2> QED BY <1>2, <1>6, <2>1, <2>2, WorkStaysSound
<1>8. ReadIsCurrent'
  <2> SUFFICES ASSUME NEW u \in Txs, pc'[u] = "read"
               PROVE  /\ todo[u] # <<>>
                      /\ Head(todo[u]).cell \in Seeded =>
                           /\ lock'[Head(todo[u]).cell] = u
                           /\ seen'[u].onHand = work'[Head(todo[u]).cell].onHand
                           /\ seen'[u].reserved = work'[Head(todo[u]).cell].reserved
                           /\ Head(todo[u]).kind = "out" /\ Head(todo[u]).cell \notin loose
                                => seen'[u].onHand >= Head(todo[u]).qty
    BY DEF ReadIsCurrent
  <2>1. CASE u = t
    <3>1. c \in Seeded => lock'[c] = t /\ work'[c] = bal /\ seen'[t].onHand = bal.onHand
                         /\ seen'[t].reserved = bal.reserved
      BY <1>2, <1>6 DEF Inv, TypeOK
    <3>2. leg.kind = "out" /\ c \notin loose => bal.onHand >= leg.qty
      BY <1>2 DEF Permitted, Inv, PolicyIsLoose
    <3> QED BY <1>1, <2>1, <3>1, <3>2 DEF Inv, TypeOK
  <2>2. CASE u # t
    <3>1. pc[u] = "read" /\ seen'[u] = seen[u]
      BY <2>2 DEF Inv, TypeOK
    <3> DEFINE d == Head(todo[u]).cell
    <3>2. d \in Seeded => lock[d] = u /\ d # c
      BY <1>6, <2>2, <3>1, NoneAssumption DEF Inv, ReadIsCurrent
    <3>3. d \in Seeded => lock'[d] = lock[d] /\ work'[d] = work[d]
      BY <3>2, CellsAssumption DEF Inv, TypeOK
    <3> QED BY <3>1, <3>2, <3>3 DEF Inv, ReadIsCurrent
  <2> QED BY <2>1, <2>2
<1> QED BY <1>4, <1>5, <1>7, <1>8 DEF Inv

\* A step that changes only the cell of a leg leaves the other legs that have
\* read as they were: their cells are locked by their own transactions.
LEMMA OthersKeepReading ==
    ASSUME Inv, NEW t \in Txs, NEW c \in Cells, lock[c] \in {t, None},
           \A u \in Txs \ {t} : pc'[u] = pc[u] /\ todo'[u] = todo[u] /\ seen'[u] = seen[u],
           \A d \in Cells \ {c} : lock'[d] = lock[d] /\ work'[d] = work[d],
           pc'[t] # "read", UNCHANGED loose
    PROVE  ReadIsCurrent'
<1> SUFFICES ASSUME NEW u \in Txs, pc'[u] = "read"
             PROVE  /\ todo'[u] # <<>>
                    /\ Head(todo'[u]).cell \in Seeded =>
                         /\ lock'[Head(todo'[u]).cell] = u
                         /\ seen'[u].onHand = work'[Head(todo'[u]).cell].onHand
                         /\ seen'[u].reserved = work'[Head(todo'[u]).cell].reserved
                         /\ Head(todo'[u]).kind = "out" /\ Head(todo'[u]).cell \notin loose'
                              => seen'[u].onHand >= Head(todo'[u]).qty
  BY DEF ReadIsCurrent
<1> DEFINE d == Head(todo[u]).cell
<1>1. u # t /\ pc[u] = "read" /\ todo'[u] = todo[u] /\ seen'[u] = seen[u]
  OBVIOUS
<1>2. d \in Seeded => lock[d] = u
  BY <1>1 DEF Inv, ReadIsCurrent
<1>3. d \in Seeded => d # c /\ d \in Cells
  BY <1>1, <1>2, NoneAssumption, CellsAssumption
<1>4. d \in Seeded => lock'[d] = lock[d] /\ work'[d] = work[d]
  BY <1>3
<1> QED BY <1>1, <1>4 DEF Inv, ReadIsCurrent

\* The movement and the balance move together, from the balance that was read.
LEMMA WriteMovementInv ==
    ASSUME Inv, NEW t \in Txs, WriteMovement(t)
    PROVE  Inv'
<1> DEFINE leg == Head(todo[t])
           c == leg.cell
           base == Visible(t, c)
<1> USE DEF WriteMovement
<1>1. leg \in Leg /\ Tail(todo[t]) \in Seq(Leg)
  BY LegsTyped DEF Inv, ReadIsCurrent
<1>2. c \in Cells /\ leg.qty \in Nat /\ leg.kind \in {"receipt", "in", "out"}
  BY <1>1 DEF Leg
<1>3. base \in Row
  BY <1>2 DEF Visible, Inv, TypeOK
<1>4. Signed(leg) = IF leg.kind = "out" THEN -leg.qty ELSE leg.qty
  BY <1>2 DEF Signed
<1>5. LotsAfter(leg, base.lots) =
        CASE leg.kind = "receipt" -> base.lots + leg.qty
          [] leg.kind = "out" -> (IF base.lots > leg.qty THEN base.lots - leg.qty ELSE 0)
          [] OTHER -> base.lots
  BY DEF LotsAfter
<1>6. Signed(leg) \in Int /\ LotsAfter(leg, base.lots) \in Int
  BY <1>2, <1>3, <1>4, <1>5 DEF Row
<1>7. TypeOK'
  <2>1. [exists |-> TRUE, onHand |-> seen[t].onHand + Signed(leg),
         reserved |-> seen[t].reserved, lots |-> LotsAfter(leg, base.lots),
         moved |-> base.moved + Signed(leg)] \in Row
    BY <1>3, <1>6 DEF Inv, TypeOK, Row
  <2>2. /\ work' \in [Cells -> Row]
        /\ lock' \in [Cells -> Txs \cup {None}]
    BY <1>2, <2>1 DEF Inv, TypeOK
  <2>3. todo' \in [Txs -> Seq(Leg)] /\ pc'[t] = "ready"
    BY <1>1 DEF Inv, TypeOK
  <2> QED BY <2>2, <2>3 DEF Inv, TypeOK
<1>8. PolicyIsLoose' /\ RowsSound'
  BY DEF Inv, PolicyIsLoose, RowsSound, Sound
<1>9. ASSUME c \in Seeded PROVE Sound(c, work'[c])
  <2>1. lock[c] = t /\ seen[t].onHand = work[c].onHand /\ base = work[c]
    BY <1>9 DEF Inv, ReadIsCurrent, Visible
  <2>2. Sound(c, base)
    BY <1>9, <2>1, NoneAssumption DEF Inv, WorkSound
  <2>3. leg.kind = "out" /\ c \notin loose => base.onHand >= leg.qty
    BY <1>9, <2>1 DEF Inv, ReadIsCurrent
  <2>4. work'[c] = [exists |-> TRUE, onHand |-> base.onHand + Signed(leg),
                    reserved |-> seen[t].reserved, lots |-> LotsAfter(leg, base.lots),
                    moved |-> base.moved + Signed(leg)]
    BY <1>2, <2>1 DEF Inv, TypeOK
  <2>5. ASSUME c \notin loose
        PROVE 0 <= LotsAfter(leg, base.lots) /\ LotsAfter(leg, base.lots) <= base.onHand + Signed(leg)
    BY <1>2, <1>3, <1>4, <1>5, <2>2, <2>3, <2>5 DEF Sound, Row
  <2> QED BY <2>2, <2>4, <2>5 DEF Sound
<1>10. WorkSound'
  <2>1. \A d \in Cells \ {c} : lock'[d] = lock[d] /\ work'[d] = work[d]
    BY <1>2 DEF Inv, TypeOK
  <2> QED BY <1>2, <1>9, <2>1, WorkStaysSound
<1>11. ReadIsCurrent'
  BY <1>2, OthersKeepReading DEF Inv, TypeOK
<1> QED BY <1>7, <1>8, <1>10, <1>11 DEF Inv

\* The on-hand quantity that was read is written back, and is still current.
LEMMA WriteReservedInv ==
    ASSUME Inv, NEW t \in Txs, WriteReserved(t)
    PROVE  Inv'
<1> DEFINE leg == Head(todo[t])
           c == leg.cell
           base == Visible(t, c)
           sum == SumQty(res', CountedBy(res', rlock', t, c))
           written == [exists |-> TRUE, onHand |-> seen[t].onHand, reserved |-> sum,
                       lots |-> base.lots, moved |-> base.moved]
<1>1. leg \in Leg /\ Tail(todo[t]) \in Seq(Leg)
  BY LegsTyped DEF Inv, ReadIsCurrent, WriteReserved
<1>2. c \in Cells /\ leg.qty \in Nat
  BY <1>1 DEF Leg
<1>3. base \in Row /\ seen[t].onHand \in Int
  BY <1>2 DEF Visible, Inv, TypeOK
<1>6. /\ lock' = [lock EXCEPT ![c] = t] /\ lock[c] \in {t, None}
      /\ work' = [work EXCEPT ![c] = written]
      /\ todo' = [todo EXCEPT ![t] = Tail(@)]
      /\ pc' = [pc EXCEPT ![t] = "ready"] /\ pc[t] = "read"
      /\ UNCHANGED <<row, policy, loose, astray, seen>>
  BY DEF WriteReserved
<1>7. res' \in [Reservations -> Hold] /\ rlock' \in [Reservations -> Txs \cup {None}]
  <2>1. [status |-> "creating", cell |-> c, qty |-> leg.qty] \in Hold
    BY <1>2 DEF Hold, Statuses
  <2> QED BY <2>1 DEF WriteReserved, Inv, TypeOK
<1>7a. written \in Row
  <2>1. CountedBy(res', rlock', t, c) \subseteq Reservations
    BY DEF CountedBy
  <2>2. sum \in Int
    BY <1>7, <2>1, SumQtyIsInt
  <2> HIDE DEF sum
  <2> QED BY <1>3, <2>2 DEF Row
<1>8. TypeOK'
  <2>1. /\ work' \in [Cells -> Row]
        /\ lock' \in [Cells -> Txs \cup {None}]
    BY <1>2, <1>6, <1>7a DEF Inv, TypeOK
  <2>2. todo' \in [Txs -> Seq(Leg)]
    BY <1>1, <1>6 DEF Inv, TypeOK
  <2> QED BY <1>6, <1>7, <2>1, <2>2 DEF Inv, TypeOK
<1>9. PolicyIsLoose' /\ RowsSound'
  BY <1>6 DEF Inv, PolicyIsLoose, RowsSound, Sound
<1>10. ASSUME c \in Seeded PROVE Sound(c, work'[c])
  <2>1. lock[c] = t /\ seen[t].onHand = work[c].onHand /\ base = work[c]
    BY <1>6, <1>10 DEF Inv, ReadIsCurrent, Visible
  <2>2. Sound(c, base)
    BY <1>10, <2>1, NoneAssumption DEF Inv, WorkSound
  <2>3. work'[c] = written
    BY <1>2, <1>6 DEF Inv, TypeOK
  <2>4. written.exists /\ written.onHand = base.onHand /\ written.moved = base.moved
          /\ written.lots = base.lots
    <3>1. written.exists /\ written.onHand = seen[t].onHand
      OBVIOUS
    <3>2. written.moved = base.moved /\ written.lots = base.lots
      OBVIOUS
    <3> QED BY <2>1, <3>1, <3>2
  <2> QED BY <1>6, <2>2, <2>3, <2>4 DEF Sound
<1>11. WorkSound'
  <2>1. \A d \in Cells \ {c} : lock'[d] = lock[d] /\ work'[d] = work[d]
    BY <1>2, <1>6 DEF Inv, TypeOK
  <2> QED BY <1>2, <1>6, <1>10, <2>1, WorkStaysSound
<1>12. ReadIsCurrent'
  BY <1>2, <1>6, OthersKeepReading DEF Inv, TypeOK
<1> QED BY <1>8, <1>9, <1>11, <1>12 DEF Inv

-----------------------------------------------------------------------------
(* The end of a transaction *)

\* A transaction that ends is not reading, and only its own locks go.
LEMMA EndKeepsReading ==
    ASSUME Inv, NEW t \in Txs, Unlocked(t),
           \A u \in Txs \ {t} : pc'[u] = pc[u] /\ todo'[u] = todo[u],
           pc'[t] # "read", UNCHANGED <<work, loose, seen>>
    PROVE  ReadIsCurrent'
<1> SUFFICES ASSUME NEW u \in Txs, pc'[u] = "read"
             PROVE  /\ todo'[u] # <<>>
                    /\ Head(todo'[u]).cell \in Seeded =>
                         /\ lock'[Head(todo'[u]).cell] = u
                         /\ seen'[u].onHand = work'[Head(todo'[u]).cell].onHand
                         /\ seen'[u].reserved = work'[Head(todo'[u]).cell].reserved
                         /\ Head(todo'[u]).kind = "out" /\ Head(todo'[u]).cell \notin loose'
                              => seen'[u].onHand >= Head(todo'[u]).qty
  BY DEF ReadIsCurrent
<1> DEFINE d == Head(todo[u]).cell
<1>1. u # t /\ pc[u] = "read" /\ todo'[u] = todo[u]
  OBVIOUS
<1>2. d \in Seeded => lock[d] = u /\ lock'[d] = u
  BY <1>1, CellsAssumption DEF Inv, ReadIsCurrent, Unlocked
<1> QED BY <1>1, <1>2 DEF Inv, ReadIsCurrent

\* Reservations keep their type when a transaction ends.
LEMMA EndTyped ==
    ASSUME TypeOK, NEW t \in Txs, Unlocked(t),
           res' = Ended(t, AfterCommit) \/ res' = Ended(t, AfterAbort)
    PROVE  /\ res' \in [Reservations -> Hold]
           /\ lock' \in [Cells -> Txs \cup {None}]
           /\ rlock' \in [Reservations -> Txs \cup {None}]
<1>1. ASSUME NEW status \in Statuses
      PROVE  AfterCommit[status] \in Statuses /\ AfterAbort[status] \in Statuses
  BY DEF Statuses, AfterCommit, AfterAbort
<1>2. ASSUME NEW r \in Reservations
      PROVE  /\ [res[r] EXCEPT !.status = AfterCommit[@]] \in Hold
             /\ [res[r] EXCEPT !.status = AfterAbort[@]] \in Hold
             /\ res[r] \in Hold
  BY <1>1 DEF TypeOK, Hold
<1>3. res' \in [Reservations -> Hold]
  BY <1>2 DEF Ended
<1> QED BY <1>3 DEF TypeOK, Unlocked

\* What a commit publishes was sound when its locks protected it.
LEMMA CommitInv ==
    ASSUME Inv, NEW t \in Txs, Commit(t)
    PROVE  Inv'
<1>1. TypeOK'
  BY EndTyped DEF Inv, Commit, TypeOK
<1>2. PolicyIsLoose'
  BY DEF Inv, Commit, PolicyIsLoose
<1>3. RowsSound' /\ WorkSound'
  BY NoneAssumption, CellsAssumption
     DEF Inv, Commit, Unlocked, RowsSound, WorkSound, Sound, TypeOK
<1>4. ReadIsCurrent'
  BY EndKeepsReading DEF Inv, Commit, TypeOK
<1> QED BY <1>1, <1>2, <1>3, <1>4 DEF Inv

\* A rollback publishes nothing.
LEMMA AbortInv ==
    ASSUME Inv, NEW t \in Txs, Abort(t)
    PROVE  Inv'
<1>1. TypeOK'
  <2>1. <<>> \in Seq(Leg)
    OBVIOUS
  <2> QED BY <2>1, EndTyped DEF Inv, Abort, TypeOK
<1>2. PolicyIsLoose' /\ RowsSound' /\ WorkSound'
  BY NoneAssumption, CellsAssumption
     DEF Inv, Abort, Unlocked, PolicyIsLoose, RowsSound, WorkSound, Sound, TypeOK
<1>3. ReadIsCurrent'
  BY EndKeepsReading DEF Inv, Abort, TypeOK
<1> QED BY <1>1, <1>2, <1>3 DEF Inv

\* A policy change makes the cell exempt; what is running goes on.
LEMMA PolicyInv ==
    ASSUME Inv, NEW c \in Cells, SetStockPolicy(c)
    PROVE  Inv'
BY DEF Inv, SetStockPolicy, TypeOK, PolicyIsLoose, RowsSound, WorkSound, ReadIsCurrent, Sound

-----------------------------------------------------------------------------
(* Reservations *)

\* A leg that reserves names a reservation that no other leg names and that does
\* not exist yet; a leg that releases names one that does, of whatever cell.
LegsNamed ==
    \A t \in Txs : \A i \in DOMAIN todo[t] : LET leg == todo[t][i] IN
        /\ leg.kind = "reserve" =>
             /\ leg.res \in Reservations /\ res[leg.res].status = "NONE"
             /\ \A u \in Txs : \A j \in DOMAIN todo[u] :
                  todo[u][j].kind \in {"reserve", "release"} /\ todo[u][j].res = leg.res => u = t /\ j = i
        /\ leg.kind = "release" =>
             /\ leg.res \in Reservations
             /\ res[leg.res].status \in {"ACTIVE", "releasing", "RELEASED"}

\* t has marked a reservation of c released and has not yet summed up again.
Releasing(t, c) ==
    pc[t] \in {"marked", "read"} /\ Head(todo[t]).kind = "release" /\ Head(todo[t]).cell = c

\* Whoever changes a reservation holds its cell's balance, or is about to read it,
\* unless the release names another cell.
RowsHeld ==
    /\ \A t \in Txs : pc[t] = "marked" => todo[t] # <<>> /\ Head(todo[t]).kind = "release"
    /\ \A r \in Reservations :
         /\ rlock[r] # None => res[r].status \in {"creating", "releasing"}
         /\ res[r].status \in {"creating", "releasing"} => rlock[r] # None
         /\ rlock[r] # None /\ res[r].cell \in Seeded \ astray =>
              \/ lock[res[r].cell] = rlock[r]
              \/ res[r].status = "releasing" /\ Releasing(rlock[r], res[r].cell)

\* The balance a transaction has in hand carries the sum that it sees.
WorkReserved ==
    \A c \in Seeded \ astray, t \in Txs : lock[c] = t =>
        Releasing(t, c) \/ work[c].reserved = SumQty(res, CountedBy(res, rlock, t, c))

ReservedInv == LegsNamed /\ RowsHeld /\ ReservedIsSum /\ WorkReserved

\* The reservations that are active for everybody.
Active(h, c) == {r \in Reservations : h[r].cell = c /\ h[r].status \in {"ACTIVE", "releasing"}}

\* Equal rows have equal sums.
LEMMA SameSum ==
    ASSUME NEW h, NEW g, NEW S, \A r \in S : h[r].qty = g[r].qty
    PROVE  SumQty(h, S) = SumQty(g, S)
<1>1. [r \in S |-> h[r].qty] = [r \in S |-> g[r].qty]
  OBVIOUS
<1> QED BY <1>1 DEF SumQty

LEMMA InitReserved == Init => ReservedInv
<1> SUFFICES ASSUME Init PROVE ReservedInv
  OBVIOUS
<1> USE NoneAssumption, CellsAssumption
<1>1. LegsNamed /\ RowsHeld /\ WorkReserved
  BY DEF Init, LegsNamed, RowsHeld, WorkReserved, Releasing
<1>2. ReservedIsSum
  <2> SUFFICES ASSUME NEW c \in Seeded \ astray PROVE row[c].reserved = SumQty(res, Active(res, c))
    BY DEF ReservedIsSum, Active
  <2>1. Active(res, c) = {}
    BY DEF Init, Active
  <2>2. PICK f : f = [r \in {} |-> res[r].qty]
    OBVIOUS
  <2>3. Summable(f) /\ DOMAIN f = {}
    BY <2>2, FS_EmptySet DEF Summable
  <2>4. SumOver(f) = 0
    BY <2>3, SumIsInt
  <2>5. row[c].reserved = 0
    BY DEF Init, SeedRow
  <2> QED BY <2>1, <2>2, <2>4, <2>5 DEF SumQty
<1> QED BY <1>1, <1>2 DEF ReservedInv

\* What a request may start with.
Fresh(legs) ==
    \A i \in DOMAIN legs : LET leg == legs[i] IN
        /\ leg.kind = "reserve" =>
             /\ leg.res \in Reservations /\ res[leg.res].status = "NONE" /\ DOMAIN legs = {1}
             /\ \A u \in Txs : \A j \in DOMAIN todo[u] : todo[u][j].res # leg.res
        /\ leg.kind = "release" =>
             /\ leg.res \in Reservations
             /\ res[leg.res].status \in {"ACTIVE", "releasing", "RELEASED"}

LEMMA StartReserved ==
    ASSUME Inv, ReservedInv, NEW t \in Txs, NEW legs \in Seq(Leg), Start(t, legs), Fresh(legs)
    PROVE  ReservedInv'
<1> USE DEF ReservedInv
<1>1. /\ pc[t] = "idle" /\ pc' = [pc EXCEPT ![t] = "ready"] /\ todo' = [todo EXCEPT ![t] = legs]
      /\ UNCHANGED <<row, work, lock, res, rlock, astray>>
  BY DEF Start
<1>2. /\ todo'[t] = legs /\ pc'[t] = "ready"
      /\ \A u \in Txs \ {t} : todo'[u] = todo[u] /\ pc'[u] = pc[u]
  BY <1>1 DEF Inv, TypeOK
<1>3. LegsNamed'
  <2> SUFFICES ASSUME NEW u \in Txs, NEW i \in DOMAIN todo'[u]
      PROVE  /\ todo'[u][i].kind = "reserve" =>
                  /\ todo'[u][i].res \in Reservations /\ res[todo'[u][i].res].status = "NONE"
                  /\ \A v \in Txs : \A j \in DOMAIN todo'[v] :
                       todo'[v][j].kind \in {"reserve", "release"} /\ todo'[v][j].res = todo'[u][i].res => v = u /\ j = i
             /\ todo'[u][i].kind = "release" =>
                  /\ todo'[u][i].res \in Reservations
                  /\ res[todo'[u][i].res].status \in {"ACTIVE", "releasing", "RELEASED"}
    BY <1>1 DEF LegsNamed
  <2>1. CASE u = t
    BY <1>2, <2>1 DEF Fresh
  <2>2. CASE u # t
    BY <1>2, <2>2 DEF Fresh, LegsNamed
  <2> QED BY <2>1, <2>2
<1>4. \A u \in Txs : \A c : Releasing(u, c)' <=> Releasing(u, c)
  BY <1>1, <1>2 DEF Releasing
<1>5. RowsHeld'
  BY <1>1, <1>2, <1>4, NoneAssumption DEF RowsHeld, Inv, TypeOK
<1>6. ReservedIsSum' /\ WorkReserved'
  BY <1>1, <1>4 DEF ReservedIsSum, WorkReserved, CountedBy
<1> QED BY <1>3, <1>5, <1>6

\* Every request starts with such legs.
LEMMA RequestReserved ==
    ASSUME Inv, ReservedInv, NEW t \in Txs, Request(t)
    PROVE  ReservedInv'
<1> USE StockAssumption
<1>1. ASSUME NEW kind \in Kinds, NEW c \in Cells, NEW q \in Nat, NEW r \in Reservations \cup {None}
      PROVE  <<Step(kind, c, q, r)>> \in Seq(Leg)
  BY DEF Step, Leg
<1>2. CASE RecordOpeningStock(t)
  <2>1. PICK c \in Cells, q \in Quantities : Start(t, <<Step("receipt", c, q, None)>>)
    BY <1>2 DEF RecordOpeningStock
  <2>2. Fresh(<<Step("receipt", c, q, None)>>)
    BY DEF Fresh, Step
  <2> QED BY <1>1, <2>1, <2>2, StartReserved DEF Kinds
<1>3. CASE RecordAdjustment(t) \/ MoveForDocument(t)
  <2>1. PICK legs \in Adjustments \cup Documents : Start(t, legs)
    BY <1>3 DEF RecordAdjustment, MoveForDocument
  <2>2. legs \in Seq(Leg) /\ Fresh(legs)
    BY DocumentsAssumption DEF Fresh
  <2> QED BY <2>1, <2>2, StartReserved
<1>4. CASE RecordTransfer(t)
  <2>1. PICK c \in Cells, d \in Cells, q \in Quantities :
          Start(t, <<Step("out", c, q, None), Step("in", d, q, None)>>)
    BY <1>4 DEF RecordTransfer
  <2>2. Step("out", c, q, None) \in Leg /\ Step("in", d, q, None) \in Leg
    BY DEF Step, Leg, Kinds
  <2>3. <<Step("out", c, q, None), Step("in", d, q, None)>> \in Seq(Leg)
    BY <2>2
  <2>4. Fresh(<<Step("out", c, q, None), Step("in", d, q, None)>>)
    BY DEF Fresh, Step
  <2> QED BY <2>1, <2>3, <2>4, StartReserved
<1>5. CASE Reserve(t)
  <2>1. PICK c \in Cells, q \in Quantities, r \in Reservations :
          /\ res[r].status = "NONE"
          /\ \A u \in Txs : \A i \in DOMAIN todo[u] : todo[u][i].res # r
          /\ Start(t, <<Step("reserve", c, q, r)>>)
    BY <1>5 DEF Reserve
  <2>2. Fresh(<<Step("reserve", c, q, r)>>)
    BY <2>1 DEF Fresh, Step
  <2> QED BY <1>1, <2>1, <2>2, StartReserved DEF Kinds
<1>6. CASE ReleaseReservation(t)
  <2>1. PICK r \in Reservations, c \in Cells :
          /\ res[r].status \in {"ACTIVE", "releasing", "RELEASED"}
          /\ Start(t, <<Step("release", c, 0, r)>>)
    BY <1>6 DEF ReleaseReservation
  <2>2. Fresh(<<Step("release", c, 0, r)>>)
    BY <2>1 DEF Fresh, Step
  <2> QED BY <1>1, <2>1, <2>2, StartReserved DEF Kinds
<1> QED BY <1>2, <1>3, <1>4, <1>5, <1>6 DEF Request

\* Nobody else sees the release yet; t has its own sum still to make.
LEMMA MarkReleasedReserved ==
    ASSUME Inv, ReservedInv, NEW t \in Txs, MarkReleased(t)
    PROVE  ReservedInv'
<1> USE DEF ReservedInv
<1> USE NoneAssumption
<1>1. PICK r : r = Head(todo[t]).res
  OBVIOUS
<1>2. /\ pc[t] = "ready" /\ todo[t] # <<>> /\ Head(todo[t]).kind = "release"
      /\ rlock[r] = None /\ res[r].status = "ACTIVE"
      /\ res' = [res EXCEPT ![r].status = "releasing"] /\ rlock' = [rlock EXCEPT ![r] = t]
      /\ pc' = [pc EXCEPT ![t] = "marked"]
      /\ astray' = astray \cup {c \in Cells \ {Head(todo[t]).cell} : c = res[r].cell}
      /\ UNCHANGED <<row, work, lock, todo>>
  BY <1>1 DEF MarkReleased
<1>3. /\ 1 \in DOMAIN todo[t] /\ Head(todo[t]) = todo[t][1]
      /\ r \in Reservations
  <2>1. todo[t] \in Seq(Leg)
    BY DEF Inv, TypeOK
  <2>2. 1 \in DOMAIN todo[t] /\ Head(todo[t]) = todo[t][1]
    BY <1>2, <2>1
  <2> QED BY <1>1, <1>2, <2>2 DEF LegsNamed
<1>4. /\ \A q \in Reservations : /\ res'[q].cell = res[q].cell /\ res'[q].qty = res[q].qty
                                 /\ res'[q].status = IF q = r THEN "releasing" ELSE res[q].status
                                 /\ rlock'[q] = IF q = r THEN t ELSE rlock[q]
      /\ \A u \in Txs : pc'[u] = IF u = t THEN "marked" ELSE pc[u]
  BY <1>2, <1>3 DEF Inv, TypeOK, Hold
<1>5. LegsNamed'
  BY <1>2, <1>3, <1>4 DEF LegsNamed
<1>6. \A u \in Txs : \A c : Releasing(u, c)' <=> Releasing(u, c) \/ (u = t /\ c = Head(todo[t]).cell)
  BY <1>2, <1>3, <1>4 DEF Releasing
<1>6a. astray \subseteq astray' /\ (res[r].cell \in Cells \ astray' => res[r].cell = Head(todo[t]).cell)
  BY <1>2
<1>7. RowsHeld'
  <2>1. \A q \in Reservations : rlock[q] # None => rlock[q] \in Txs
    BY DEF Inv, TypeOK
  <2> QED BY <1>2, <1>3, <1>4, <1>6, <1>6a, <2>1, CellsAssumption DEF RowsHeld
<1>8. ReservedIsSum'
  <2> SUFFICES ASSUME NEW c \in Seeded \ astray PROVE row[c].reserved = SumQty(res', Active(res', c))
    BY <1>2, <1>6a DEF ReservedIsSum, Active
  <2>1. Active(res', c) = Active(res, c)
    BY <1>2, <1>4 DEF Active
  <2>2. \A q \in Active(res, c) : res'[q].qty = res[q].qty
    BY <1>4 DEF Active
  <2>3. SumQty(res', Active(res, c)) = SumQty(res, Active(res, c))
    BY <2>2, SameSum
  <2> QED BY <2>1, <2>3 DEF ReservedIsSum, Active
<1>9. WorkReserved'
  <2> SUFFICES ASSUME NEW c \in Seeded \ astray', NEW u \in Txs, lock[c] = u, ~(Releasing(u, c)')
               PROVE  work[c].reserved = SumQty(res', CountedBy(res', rlock', u, c))
    BY <1>2 DEF WorkReserved
  <2>1. CountedBy(res', rlock', u, c) = CountedBy(res, rlock, u, c)
    BY <1>2, <1>3, <1>4, <1>6, <1>6a, CellsAssumption DEF CountedBy
  <2>2. \A q \in CountedBy(res, rlock, u, c) : res'[q].qty = res[q].qty
    BY <1>4 DEF CountedBy
  <2>3. SumQty(res', CountedBy(res, rlock, u, c)) = SumQty(res, CountedBy(res, rlock, u, c))
    BY <2>2, SameSum
  <2> QED BY <1>6, <1>6a, <2>1, <2>3 DEF WorkReserved
<1> QED BY <1>5, <1>7, <1>8, <1>9

\* The balance that is read is the committed one, and its sum what t sees, but
\* for the reservation t is releasing.
LEMMA ReadReserved ==
    ASSUME Inv, ReservedInv, NEW t \in Txs, Read(t)
    PROVE  ReservedInv'
<1> USE DEF ReservedInv
<1> USE NoneAssumption
<1>1. PICK leg : leg = Head(todo[t]) /\ leg \in Leg /\ todo[t] # <<>>
  BY LegsTyped DEF Inv, Read
<1>2. PICK c : c = leg.cell /\ c \in Cells
  BY <1>1 DEF Leg
<1>3. /\ pc[t] = (IF leg.kind = "release" THEN "marked" ELSE "ready")
      /\ CanRead(t, c)
      /\ lock' = [lock EXCEPT ![c] = IF row[c].exists THEN t ELSE @]
      /\ work' = [work EXCEPT ![c] = IF row[c].exists THEN Visible(t, c) ELSE @]
      /\ pc' = [pc EXCEPT ![t] = "read"]
      /\ UNCHANGED <<row, res, rlock, todo, astray>>
  BY <1>1, <1>2 DEF Read
<1>4. c \in Seeded => row[c].exists /\ lock[c] \in {t, None}
  BY <1>3 DEF Inv, RowsSound, Sound, CanRead
<1>5. \A d \in Seeded : /\ lock'[d] = IF d = c THEN t ELSE lock[d]
                        /\ work'[d] = IF d = c THEN Visible(t, c) ELSE work[d]
  BY <1>2, <1>3, <1>4, CellsAssumption DEF Inv, TypeOK
<1>6. \A u \in Txs : \A d : Releasing(u, d)' <=> Releasing(u, d)
  BY <1>1, <1>3 DEF Releasing, Inv, TypeOK
<1>7. LegsNamed' /\ ReservedIsSum'
  BY <1>3 DEF LegsNamed, ReservedIsSum
<1>8. RowsHeld'
  <2>1. \A q \in Reservations : rlock[q] # None => rlock[q] \in Txs
    BY DEF Inv, TypeOK
  <2>2. \A u \in Txs : pc'[u] = IF u = t THEN "read" ELSE pc[u]
    BY <1>3 DEF Inv, TypeOK
  <2>3. \A q \in Reservations : rlock[q] # None /\ res[q].cell \in Seeded \ astray =>
           \/ lock'[res[q].cell] = rlock[q]
           \/ res[q].status = "releasing" /\ Releasing(rlock[q], res[q].cell)
    BY <1>4, <1>5, <2>1 DEF RowsHeld
  <2> QED BY <1>3, <1>6, <2>1, <2>2, <2>3 DEF RowsHeld
<1>9. WorkReserved'
  <2> SUFFICES ASSUME NEW d \in Seeded \ astray, NEW u \in Txs, lock'[d] = u, ~Releasing(u, d)
               PROVE  work'[d].reserved = SumQty(res, CountedBy(res, rlock, u, d))
    BY <1>3, <1>6 DEF WorkReserved, CountedBy
  <2>1. CASE d # c \/ lock[c] = t
    BY <1>5, <2>1 DEF WorkReserved, Visible
  <2>2. CASE d = c /\ lock[c] # t
    <3>1. u = t /\ lock[c] = None /\ work'[d] = row[c]
      BY <1>4, <1>5, <2>2 DEF Visible
    <3>2. \A q \in Reservations : res[q].cell = c /\ rlock[q] # None =>
             res[q].status = "releasing" /\ rlock[q] # t
      BY <2>2, <3>1 DEF RowsHeld
    <3>3. \A q \in Reservations : res[q].status \in {"creating", "releasing"} => rlock[q] # None
      BY DEF RowsHeld
    <3>4. CountedBy(res, rlock, t, c) = Active(res, c)
      BY <3>2, <3>3 DEF CountedBy, Active
    <3> QED BY <2>2, <3>1, <3>4 DEF ReservedIsSum, Active
  <2> QED BY <2>1, <2>2
<1> QED BY <1>7, <1>8, <1>9

\* A leg of a transaction is gone once it is written.
LEMMA LegsShrink ==
    ASSUME Inv, LegsNamed, NEW t \in Txs, todo[t] # <<>>, todo' = [todo EXCEPT ![t] = Tail(@)],
           \A r \in Reservations : \/ res'[r] = res[r]
                                   \/ r = Head(todo[t]).res /\ Head(todo[t]).kind = "reserve"
    PROVE  LegsNamed'
<1>1. /\ todo'[t] = Tail(todo[t]) /\ todo[t] \in Seq(Leg)
      /\ \A u \in Txs \ {t} : todo'[u] = todo[u]
  BY DEF Inv, TypeOK
<1>2. /\ Head(todo[t]) = todo[t][1] /\ 1 \in DOMAIN todo[t]
      /\ \A i \in DOMAIN todo'[t] : i + 1 \in DOMAIN todo[t] /\ todo'[t][i] = todo[t][i + 1] /\ i + 1 # 1
      /\ \A i \in DOMAIN todo'[t] : i \in Nat
  <2>1. PICK s \in Seq(Leg) : s = todo[t] /\ s # <<>>
    BY <1>1
  <2>2. /\ Head(s) = s[1] /\ 1 \in DOMAIN s /\ DOMAIN s = 1..Len(s) /\ Len(s) \in Nat
        /\ DOMAIN Tail(s) = 1..(Len(s) - 1) /\ \A i \in 1..(Len(s) - 1) : Tail(s)[i] = s[i + 1]
    BY <2>1
  <2>3. todo'[t] = Tail(s) /\ todo[t] = s
    BY <1>1, <2>1
  <2>4. \A i \in DOMAIN Tail(s) : i \in Nat /\ i + 1 \in DOMAIN s /\ Tail(s)[i] = s[i + 1] /\ i + 1 # 1
    BY <2>2
  <2> QED BY <2>2, <2>3, <2>4
<1>3. \A u \in Txs : \A i \in DOMAIN todo'[u] :
         \E k \in DOMAIN todo[u] : /\ todo'[u][i] = todo[u][k] /\ (u = t => k # 1)
                                   /\ k = IF u = t THEN i + 1 ELSE i
  BY <1>1, <1>2
<1>4. \A u \in Txs : \A i \in DOMAIN todo'[u] :
         todo'[u][i].kind \in {"reserve", "release"} => res'[todo'[u][i].res] = res[todo'[u][i].res]
  <2> SUFFICES ASSUME NEW u \in Txs, NEW i \in DOMAIN todo'[u], todo'[u][i].kind \in {"reserve", "release"}
               PROVE  res'[todo'[u][i].res] = res[todo'[u][i].res]
    OBVIOUS
  <2>1. PICK k \in DOMAIN todo[u] : todo'[u][i] = todo[u][k] /\ (u = t => k # 1)
    BY <1>3
  <2>2. todo[u][k].res \in Reservations
    BY <2>1 DEF LegsNamed
  <2>3. ASSUME Head(todo[t]).kind = "reserve", todo[u][k].res = Head(todo[t]).res PROVE FALSE
    BY <1>2, <2>1, <2>3 DEF LegsNamed
  <2> QED BY <2>1, <2>2, <2>3
<1> SUFFICES ASSUME NEW u \in Txs, NEW i \in DOMAIN todo'[u]
    PROVE  /\ todo'[u][i].kind = "reserve" =>
                /\ todo'[u][i].res \in Reservations /\ res'[todo'[u][i].res].status = "NONE"
                /\ \A v \in Txs : \A j \in DOMAIN todo'[v] :
                     todo'[v][j].kind \in {"reserve", "release"} /\ todo'[v][j].res = todo'[u][i].res => v = u /\ j = i
           /\ todo'[u][i].kind = "release" =>
                /\ todo'[u][i].res \in Reservations
                /\ res'[todo'[u][i].res].status \in {"ACTIVE", "releasing", "RELEASED"}
  BY DEF LegsNamed
<1>5. PICK k \in DOMAIN todo[u] : todo'[u][i] = todo[u][k] /\ k = IF u = t THEN i + 1 ELSE i
  BY <1>3
<1>6. ASSUME todo'[u][i].kind = "reserve", NEW v \in Txs, NEW j \in DOMAIN todo'[v],
             todo'[v][j].kind \in {"reserve", "release"}, todo'[v][j].res = todo'[u][i].res
      PROVE  v = u /\ j = i
  <2>1. PICK m \in DOMAIN todo[v] : todo'[v][j] = todo[v][m] /\ m = IF v = t THEN j + 1 ELSE j
    BY <1>3
  <2>2. v = u /\ m = k
    BY <1>5, <1>6, <2>1 DEF LegsNamed
  <2>3. u = t => i \in Nat /\ j \in Nat
    BY <1>2, <2>2
  <2> QED BY <1>5, <2>1, <2>2, <2>3
<1> QED BY <1>4, <1>5, <1>6 DEF LegsNamed

\* A movement writes back the sum it read, which is still what t sees.
LEMMA WriteMovementReserved ==
    ASSUME Inv, ReservedInv, NEW t \in Txs, WriteMovement(t)
    PROVE  ReservedInv'
<1> USE DEF ReservedInv
<1> USE NoneAssumption
<1>1. PICK leg : leg = Head(todo[t]) /\ leg \in Leg /\ todo[t] # <<>>
  BY LegsTyped DEF Inv, WriteMovement, ReadIsCurrent
<1>2. PICK c : c = leg.cell /\ c \in Cells
  BY <1>1 DEF Leg
<1>3. /\ pc[t] = "read" /\ leg.kind \in {"receipt", "in", "out"}
      /\ lock[c] \in {t, None} /\ lock' = [lock EXCEPT ![c] = t]
      /\ \E w : w.reserved = seen[t].reserved /\ work' = [work EXCEPT ![c] = w]
      /\ todo' = [todo EXCEPT ![t] = Tail(@)]
      /\ pc' = [pc EXCEPT ![t] = "ready"]
      /\ UNCHANGED <<row, res, rlock, astray>>
  BY <1>1, <1>2 DEF WriteMovement
<1>4. \A d \in Seeded : /\ lock'[d] = IF d = c THEN t ELSE lock[d]
                        /\ work'[d].reserved = IF d = c THEN seen[t].reserved ELSE work[d].reserved
  BY <1>2, <1>3, CellsAssumption DEF Inv, TypeOK
<1>5. /\ \A u \in Txs : \A d : Releasing(u, d)' <=> Releasing(u, d)
      /\ \A u \in Txs : pc'[u] = (IF u = t THEN "ready" ELSE pc[u]) /\ (u # t => todo'[u] = todo[u])
  BY <1>1, <1>3 DEF Releasing, Inv, TypeOK
<1>6. LegsNamed' /\ ReservedIsSum'
  BY <1>1, <1>3, LegsShrink DEF ReservedIsSum
<1>7. RowsHeld'
  <2>1. \A q \in Reservations : rlock[q] # None => rlock[q] \in Txs
    BY DEF Inv, TypeOK
  <2> QED BY <1>3, <1>4, <1>5, <2>1 DEF RowsHeld
<1>8. WorkReserved'
  <2> SUFFICES ASSUME NEW d \in Seeded \ astray, NEW u \in Txs, lock'[d] = u, ~Releasing(u, d)
               PROVE  work'[d].reserved = SumQty(res, CountedBy(res, rlock, u, d))
    BY <1>3, <1>5 DEF WorkReserved, CountedBy
  <2>1. CASE d # c
    BY <1>4, <2>1 DEF WorkReserved
  <2>2. CASE d = c
    <3>1. u = t /\ lock[c] = t /\ seen[t].reserved = work[c].reserved
      BY <1>1, <1>2, <1>3, <1>4, <2>2 DEF Inv, ReadIsCurrent
    <3> QED BY <1>4, <2>2, <3>1 DEF WorkReserved
  <2> QED BY <2>1, <2>2
<1> QED BY <1>6, <1>7, <1>8

\* The sum is made anew, from the reservations as t sees them now.
LEMMA WriteReservedReserved ==
    ASSUME Inv, ReservedInv, NEW t \in Txs, WriteReserved(t)
    PROVE  ReservedInv'
<1> USE DEF ReservedInv
<1> USE NoneAssumption
<1>1. PICK leg : leg = Head(todo[t]) /\ leg \in Leg /\ todo[t] # <<>>
  BY LegsTyped DEF Inv, WriteReserved, ReadIsCurrent
<1>2. PICK c : c = leg.cell /\ c \in Cells
  BY <1>1 DEF Leg
<1>3. /\ pc[t] = "read" /\ leg.kind \in {"reserve", "release"}
      /\ lock[c] \in {t, None} /\ lock' = [lock EXCEPT ![c] = t]
      /\ IF leg.kind = "reserve"
           THEN /\ res' = [res EXCEPT ![leg.res] = [status |-> "creating", cell |-> c, qty |-> leg.qty]]
                /\ rlock' = [rlock EXCEPT ![leg.res] = t]
           ELSE res' = res /\ rlock' = rlock
      /\ \E w : /\ w.reserved = SumQty(res', CountedBy(res', rlock', t, c))
                /\ work' = [work EXCEPT ![c] = w]
      /\ todo' = [todo EXCEPT ![t] = Tail(@)]
      /\ pc' = [pc EXCEPT ![t] = "ready"]
      /\ row' = row /\ astray' = astray
  BY <1>1, <1>2 DEF WriteReserved
<1>4. \A d \in Seeded : /\ lock'[d] = IF d = c THEN t ELSE lock[d]
                        /\ d = c => work'[d].reserved = SumQty(res', CountedBy(res', rlock', t, c))
                        /\ d # c => work'[d] = work[d]
  BY <1>2, <1>3, CellsAssumption DEF Inv, TypeOK
<1>5. /\ leg.res \in Reservations
      /\ leg.kind = "reserve" => res[leg.res].status = "NONE" /\ rlock[leg.res] = None
  <2>1. 1 \in DOMAIN todo[t] /\ todo[t][1] = leg
    <3>1. todo[t] \in Seq(Leg)
      BY DEF Inv, TypeOK
    <3> QED BY <1>1, <3>1
  <2>2. leg.kind = "reserve" => leg.res \in Reservations /\ res[leg.res].status = "NONE"
    BY <2>1 DEF LegsNamed
  <2>3. leg.kind = "release" => leg.res \in Reservations
    BY <1>2, <2>1 DEF LegsNamed
  <2> QED BY <1>3, <2>2, <2>3 DEF RowsHeld
<1>6. \A q \in Reservations :
        IF leg.kind = "reserve" /\ q = leg.res
        THEN res'[q].status = "creating" /\ res'[q].cell = c /\ rlock'[q] = t
        ELSE res'[q] = res[q] /\ rlock'[q] = rlock[q]
  BY <1>3, <1>5 DEF Inv, TypeOK
<1>7. /\ \A u \in Txs : pc'[u] = (IF u = t THEN "ready" ELSE pc[u]) /\ (u # t => todo'[u] = todo[u])
      /\ \A u \in Txs : \A d : Releasing(u, d)' <=> Releasing(u, d) /\ u # t
      /\ \A d : Releasing(t, d) => d = c
  BY <1>1, <1>2, <1>3 DEF Releasing, Inv, TypeOK
<1>8. LegsNamed'
  BY <1>1, <1>3, <1>6, LegsShrink
<1>9. RowsHeld'
  <2>1. \A q \in Reservations : rlock[q] # None => rlock[q] \in Txs
    BY DEF Inv, TypeOK
  <2>2. \A u \in Txs : pc'[u] = "marked" => todo'[u] # <<>> /\ Head(todo'[u]).kind = "release"
    BY <1>7 DEF RowsHeld
  <2>3. \A q \in Reservations :
          /\ rlock'[q] # None => res'[q].status \in {"creating", "releasing"}
          /\ res'[q].status \in {"creating", "releasing"} => rlock'[q] # None
    BY <1>6 DEF RowsHeld
  <2>4. ASSUME NEW q \in Reservations, rlock'[q] # None, res'[q].cell \in Seeded \ astray
        PROVE  \/ lock'[res'[q].cell] = rlock'[q]
               \/ /\ res'[q].status = "releasing" /\ pc'[rlock'[q]] \in {"marked", "read"}
                  /\ Head(todo'[rlock'[q]]).kind = "release"
                  /\ Head(todo'[rlock'[q]]).cell = res'[q].cell
    <3>1. CASE leg.kind = "reserve" /\ q = leg.res
      BY <1>4, <1>6, <2>4, <3>1
    <3>2. CASE ~(leg.kind = "reserve" /\ q = leg.res)
      <4>1. res'[q] = res[q] /\ rlock'[q] = rlock[q] /\ rlock[q] \in Txs
        BY <1>6, <2>1, <2>4, <3>2
      <4>2. \/ lock[res[q].cell] = rlock[q]
            \/ res[q].status = "releasing" /\ Releasing(rlock[q], res[q].cell)
        BY <2>4, <4>1 DEF RowsHeld
      <4>3. CASE lock[res[q].cell] = rlock[q]
        BY <1>3, <1>4, <2>4, <4>1, <4>3
      <4>4. CASE res[q].status = "releasing" /\ Releasing(rlock[q], res[q].cell) /\ rlock[q] = t
        BY <1>4, <1>7, <2>4, <4>1, <4>4
      <4>5. CASE res[q].status = "releasing" /\ Releasing(rlock[q], res[q].cell) /\ rlock[q] # t
        BY <1>7, <4>1, <4>5 DEF Releasing
      <4> QED BY <4>2, <4>3, <4>4, <4>5
    <3> QED BY <3>1, <3>2
  <2> QED BY <1>3, <2>2, <2>3, <2>4 DEF RowsHeld, Releasing
<1>10. ReservedIsSum'
  <2> SUFFICES ASSUME NEW d \in Seeded \ astray PROVE row[d].reserved = SumQty(res', Active(res', d))
    BY <1>3 DEF ReservedIsSum, Active
  <2>1. ASSUME leg.kind = "release" PROVE res' = res
    BY <1>3, <2>1
  <2>2. CASE leg.kind = "release"
    BY <2>1, <2>2 DEF ReservedIsSum, Active
  <2>3. CASE leg.kind = "reserve"
    <3>1. Active(res', d) = Active(res, d) /\ \A q \in Active(res, d) : res'[q].qty = res[q].qty
      BY <1>5, <1>6, <2>3 DEF Active
    <3>2. SumQty(res', Active(res, d)) = SumQty(res, Active(res, d))
      BY <3>1, SameSum
    <3> QED BY <3>1, <3>2 DEF ReservedIsSum, Active
  <2> QED BY <1>3, <2>2, <2>3
<1>11. WorkReserved'
  <2> SUFFICES ASSUME NEW d \in Seeded \ astray, NEW u \in Txs, lock'[d] = u, ~(Releasing(u, d)')
               PROVE  work'[d].reserved = SumQty(res', CountedBy(res', rlock', u, d))
    BY <1>3 DEF WorkReserved
  <2>1. CASE d = c
    BY <1>4, <2>1
  <2>2. CASE d # c
    <3>1. lock[d] = u /\ work'[d] = work[d] /\ ~Releasing(u, d)
      BY <1>4, <1>7, <2>2
    <3>2. CountedBy(res', rlock', u, d) = CountedBy(res, rlock, u, d)
      BY <1>5, <1>6, <2>2 DEF CountedBy
    <3>3. \A q \in CountedBy(res, rlock, u, d) : res'[q].qty = res[q].qty
      BY <1>5, <1>6 DEF CountedBy
    <3>4. SumQty(res', CountedBy(res, rlock, u, d)) = SumQty(res, CountedBy(res, rlock, u, d))
      BY <3>3, SameSum
    <3> QED BY <3>1, <3>2, <3>4 DEF WorkReserved
  <2> QED BY <2>1, <2>2
<1> QED BY <1>8, <1>9, <1>10, <1>11

\* What a transaction's end makes of a reservation, and of who holds it.
LEMMA EndOfRows ==
    ASSUME Inv, RowsHeld, NEW t \in Txs, Unlocked(t),
           res' = Ended(t, AfterCommit) \/ res' = Ended(t, AfterAbort)
    PROVE  \A q \in Reservations :
             /\ res'[q].cell = res[q].cell /\ res'[q].qty = res[q].qty
             /\ rlock[q] # t => res'[q] = res[q] /\ rlock'[q] = rlock[q]
             /\ rlock[q] = t =>
                  /\ rlock'[q] = None
                  /\ res[q].status = "creating" =>
                       res'[q].status = IF res' = Ended(t, AfterCommit) THEN "ACTIVE" ELSE "NONE"
                  /\ res[q].status = "releasing" =>
                       res'[q].status = IF res' = Ended(t, AfterCommit) THEN "RELEASED" ELSE "ACTIVE"
<1> SUFFICES ASSUME NEW q \in Reservations
    PROVE  /\ res'[q].cell = res[q].cell /\ res'[q].qty = res[q].qty
           /\ rlock[q] # t => res'[q] = res[q] /\ rlock'[q] = rlock[q]
           /\ rlock[q] = t =>
                /\ rlock'[q] = None
                /\ res[q].status = "creating" =>
                     res'[q].status = IF res' = Ended(t, AfterCommit) THEN "ACTIVE" ELSE "NONE"
                /\ res[q].status = "releasing" =>
                     res'[q].status = IF res' = Ended(t, AfterCommit) THEN "RELEASED" ELSE "ACTIVE"
  OBVIOUS
<1>1. PICK h : h = res[q] /\ h \in Hold
  BY DEF Inv, TypeOK
<1>2. /\ AfterCommit["creating"] = "ACTIVE" /\ AfterCommit["releasing"] = "RELEASED"
      /\ AfterAbort["creating"] = "NONE" /\ AfterAbort["releasing"] = "ACTIVE"
  BY DEF AfterCommit, AfterAbort, Statuses
<1>3. rlock'[q] = IF rlock[q] = t THEN None ELSE rlock[q]
  BY DEF Unlocked
<1>4. CASE res' = Ended(t, AfterCommit)
  <2>1. res'[q] = IF rlock[q] = t THEN [h EXCEPT !.status = AfterCommit[h.status]] ELSE h
    BY <1>1, <1>4 DEF Ended
  <2> QED BY <1>1, <1>2, <1>3, <1>4, <2>1 DEF Hold
<1>5. CASE res' = Ended(t, AfterAbort) /\ res' # Ended(t, AfterCommit)
  <2>1. res'[q] = IF rlock[q] = t THEN [h EXCEPT !.status = AfterAbort[h.status]] ELSE h
    BY <1>1, <1>5 DEF Ended
  <2> QED BY <1>1, <1>2, <1>3, <1>5, <2>1 DEF Hold
<1> QED BY <1>4, <1>5

\* The end of a transaction makes its sums everybody's, or takes them back.
LEMMA EndReserved ==
    ASSUME Inv, ReservedInv, NEW t \in Txs, Commit(t) \/ Abort(t)
    PROVE  ReservedInv'
<1> USE DEF ReservedInv
<1> USE NoneAssumption
<1>1. /\ Unlocked(t) /\ work' = work /\ astray' = astray
      /\ pc' = [pc EXCEPT ![t] = IF Commit(t) THEN "committed" ELSE "aborted"]
      /\ todo' = [todo EXCEPT ![t] = <<>>]
      /\ Commit(t) => pc[t] = "ready" /\ res' = Ended(t, AfterCommit)
      /\ ~Commit(t) => res' = Ended(t, AfterAbort)
      /\ \A c \in Cells : row'[c] = IF Commit(t) /\ lock[c] = t THEN work[c] ELSE row[c]
  <2>1. CASE Commit(t)
    <3>1. todo[t] = <<>> /\ todo' = todo /\ todo' = [todo EXCEPT ![t] = <<>>]
      BY <2>1 DEF Commit, Inv, TypeOK
    <3> QED BY <2>1, <3>1 DEF Commit
  <2>2. CASE ~Commit(t)
    BY <2>2 DEF Abort
  <2> QED BY <2>1, <2>2
<1>2. \A q \in Reservations :
         /\ res'[q].cell = res[q].cell /\ res'[q].qty = res[q].qty
         /\ rlock[q] # t => res'[q] = res[q] /\ rlock'[q] = rlock[q]
         /\ rlock[q] = t =>
              /\ rlock'[q] = None /\ res[q].status \in {"creating", "releasing"}
              /\ Commit(t) => /\ res[q].status = "creating" => res'[q].status = "ACTIVE"
                              /\ res[q].status = "releasing" => res'[q].status = "RELEASED"
              /\ ~Commit(t) => /\ res[q].status = "creating" => res'[q].status = "NONE"
                               /\ res[q].status = "releasing" => res'[q].status = "ACTIVE"
  <2>1. CASE res' = Ended(t, AfterCommit)
    <3>1. SUFFICES ASSUME ~Commit(t), NEW q \in Reservations, rlock[q] = t PROVE FALSE
      BY <1>1, <2>1, EndOfRows DEF RowsHeld
    <3>2. res' = Ended(t, AfterAbort)
      BY <1>1, <3>1
    <3>3. res'[q] = [res[q] EXCEPT !.status = AfterAbort[@]] /\ res'[q] = [res[q] EXCEPT !.status = AfterCommit[@]]
      BY <2>1, <3>1, <3>2 DEF Ended
    <3>4. res[q] \in Hold /\ res[q].status \in {"creating", "releasing"}
      BY <3>1 DEF RowsHeld, Inv, TypeOK
    <3>5. AfterAbort[res[q].status] # AfterCommit[res[q].status]
      BY <3>4 DEF AfterAbort, AfterCommit, Statuses
    <3> QED BY <3>3, <3>4, <3>5 DEF Hold
  <2>2. CASE res' # Ended(t, AfterCommit)
    BY <1>1, <2>2, EndOfRows DEF RowsHeld
  <2> QED BY <2>1, <2>2
<1>3. /\ \A c \in Cells : lock'[c] = IF lock[c] = t THEN None ELSE lock[c]
      /\ \A u \in Txs \ {t} : pc'[u] = pc[u] /\ todo'[u] = todo[u]
      /\ pc'[t] \in {"committed", "aborted"} /\ todo'[t] = <<>>
  BY <1>1 DEF Unlocked, Inv, TypeOK
<1>4. LegsNamed'
  <2>1. \A q \in Reservations :
           /\ res[q].status = "NONE" => res'[q].status = "NONE"
           /\ res[q].status \in {"ACTIVE", "releasing", "RELEASED"} =>
                res'[q].status \in {"ACTIVE", "releasing", "RELEASED"}
    BY <1>2
  <2>2. \A u \in Txs : \A i \in DOMAIN todo'[u] : u # t /\ todo'[u] = todo[u]
    BY <1>3
  <2> QED BY <1>2, <2>1, <2>2 DEF LegsNamed
<1>5. RowsHeld'
  <2>1. \A q \in Reservations : rlock[q] # None => rlock[q] \in Txs
    BY DEF Inv, TypeOK
  <2>2. \A q \in Reservations : rlock'[q] # None => rlock[q] # t /\ rlock'[q] = rlock[q] /\ res'[q] = res[q]
    BY <1>2
  <2> QED BY <1>1, <1>2, <1>3, <2>1, <2>2, CellsAssumption DEF RowsHeld, Releasing
<1>6. ASSUME NEW c \in Seeded \ astray, NEW q \in Reservations, rlock[q] = t, res[q].cell = c
      PROVE  lock[c] = t \/ (~Commit(t) /\ res[q].status = "releasing")
  BY <1>1, <1>6 DEF RowsHeld, Releasing
<1>7. ReservedIsSum'
  <2> SUFFICES ASSUME NEW c \in Seeded \ astray PROVE row'[c].reserved = SumQty(res', Active(res', c))
    BY <1>1 DEF ReservedIsSum, Active
  <2>1. CASE Commit(t) /\ lock[c] = t
    <3>1. Active(res', c) = CountedBy(res, rlock, t, c)
      BY <1>2, <2>1 DEF Active, CountedBy, RowsHeld
    <3>2. \A q \in CountedBy(res, rlock, t, c) : res'[q].qty = res[q].qty
      BY <1>2 DEF CountedBy
    <3>3. SumQty(res', CountedBy(res, rlock, t, c)) = SumQty(res, CountedBy(res, rlock, t, c))
      BY <3>2, SameSum
    <3>4. work[c].reserved = SumQty(res, CountedBy(res, rlock, t, c)) /\ row'[c] = work[c]
      BY <1>1, <2>1, CellsAssumption DEF WorkReserved, Releasing
    <3> QED BY <3>1, <3>3, <3>4
  <2>2. CASE ~(Commit(t) /\ lock[c] = t)
    <3>1. Active(res', c) = Active(res, c)
      BY <1>2, <1>6, <2>2 DEF Active
    <3>2. \A q \in Active(res, c) : res'[q].qty = res[q].qty
      BY <1>2 DEF Active
    <3>3. SumQty(res', Active(res, c)) = SumQty(res, Active(res, c))
      BY <3>2, SameSum
    <3>4. row'[c] = row[c]
      BY <1>1, <2>2, CellsAssumption
    <3> QED BY <3>1, <3>3, <3>4 DEF ReservedIsSum, Active
  <2> QED BY <2>1, <2>2
<1>8. WorkReserved'
  <2> SUFFICES ASSUME NEW c \in Seeded \ astray, NEW u \in Txs, lock'[c] = u, ~(Releasing(u, c)')
               PROVE  work'[c].reserved = SumQty(res', CountedBy(res', rlock', u, c))
    BY <1>1 DEF WorkReserved
  <2>1. u # t /\ lock[c] = u /\ ~Releasing(u, c)
    BY <1>3, CellsAssumption DEF Releasing
  <2>2. CountedBy(res', rlock', u, c) = CountedBy(res, rlock, u, c)
    BY <1>2, <1>6, <2>1 DEF CountedBy
  <2>3. \A q \in CountedBy(res, rlock, u, c) : res'[q].qty = res[q].qty
    BY <1>2 DEF CountedBy
  <2>4. SumQty(res', CountedBy(res, rlock, u, c)) = SumQty(res, CountedBy(res, rlock, u, c))
    BY <2>3, SameSum
  <2> QED BY <1>1, <2>1, <2>2, <2>4 DEF WorkReserved
<1> QED BY <1>4, <1>5, <1>7, <1>8

\* Every step keeps the reserved quantities the sums they should be.
LEMMA NextReserved == Inv /\ ReservedInv /\ [Next]_vars => ReservedInv'
<1> SUFFICES ASSUME Inv, ReservedInv, [Next]_vars PROVE ReservedInv'
  OBVIOUS
<1>1. CASE UNCHANGED <<row, work, lock, res, rlock, pc, todo, astray>>
  BY <1>1 DEF ReservedInv, LegsNamed, RowsHeld, Releasing, ReservedIsSum, WorkReserved, CountedBy
<1>2. ASSUME NEW t \in Txs, Run(t) PROVE ReservedInv'
  BY <1>2, MarkReleasedReserved, ReadReserved, WriteMovementReserved, WriteReservedReserved,
     EndReserved DEF Run
<1> QED BY <1>1, <1>2, RequestReserved DEF Next, vars, SetStockPolicy

-----------------------------------------------------------------------------
(* The theorems *)

\* Every step of every request preserves the inductive invariant.
LEMMA NextInv == Inv /\ [Next]_vars => Inv'
<1> SUFFICES ASSUME Inv, [Next]_vars PROVE Inv'
  OBVIOUS
<1>1. CASE UNCHANGED vars
  BY <1>1 DEF vars, Inv, TypeOK, PolicyIsLoose, RowsSound, WorkSound, ReadIsCurrent, Sound
<1>2. ASSUME NEW t \in Txs, Run(t) PROVE Inv'
  BY <1>2, MarkReleasedInv, ReadInv, WriteMovementInv, WriteReservedInv, CommitInv,
     AbortInv DEF Run
<1> QED BY <1>1, <1>2, RequestInv, PolicyInv DEF Next

\* The inductive invariant is an invariant of the specification.
THEOREM Invariance == Spec => []Inv
BY InitInv, NextInv, PTL DEF Spec

\* A balance whose row exists equals the sum of its movements, whatever the
\* requests do and however they interleave.
THEOREM BalancesFollowMovements == Spec => []SeededBalanceIsLedger
<1>1. Inv => SeededBalanceIsLedger
  BY DEF Inv, RowsSound, Sound, SeededBalanceIsLedger
<1> QED BY <1>1, Invariance, PTL

\* The priced lots never claim more than is on the shelf.
THEOREM LotsFollowStock == Spec => []LotsWithinStock
<1>1. Inv => LotsWithinStock
  BY DEF Inv, RowsSound, Sound, LotsWithinStock
<1> QED BY <1>1, Invariance, PTL

\* A cell that never allowed negative stock is never oversold.
THEOREM LastUnitSoldOnce == Spec => []NeverOversold
<1>1. Inv => NeverOversold
  <2> SUFFICES ASSUME Inv, NEW c \in Seeded \ loose PROVE row[c].onHand >= 0
    BY DEF NeverOversold
  <2>1. row[c].lots \in Int /\ row[c].onHand \in Int
    BY CellsAssumption DEF Inv, TypeOK, Row
  <2>2. 0 <= row[c].lots /\ row[c].lots <= row[c].onHand
    BY DEF Inv, RowsSound, Sound
  <2> QED BY <2>1, <2>2
<1> QED BY <1>1, Invariance, PTL

\* The reserved quantity of a balance is the sum of the active reservations, and
\* the cost lots never hold more than the stock.
THEOREM ReservationsHold == Spec => []ReservationsAndLots
<1>1. Inv /\ ReservedInv => ReservationsAndLots
  BY DEF Inv, ReservedInv, RowsSound, Sound, LotsWithinStock, ReservationsAndLots
<1>2. Inv /\ Inv' /\ ReservedInv /\ [Next]_vars => ReservedInv'
  BY NextReserved
<1> QED BY <1>1, <1>2, InitReserved, Invariance, PTL DEF Spec

-----------------------------------------------------------------------------
(* Average costs *)

\* A fraction whose value lies between two prices.
Between(v, lo, hi) == v[1] >= lo * v[2] /\ v[1] <= hi * v[2]

Average == Int \X (Nat \ {0})

\* What a common factor divides keeps its order.
LEMMA FactorOut ==
    ASSUME NEW g \in Nat \ {0}, NEW x \in Int, NEW y \in Int, g * x <= g * y
    PROVE  x <= y
<1>1. ASSUME y + 1 <= x PROVE FALSE
  <2>1. g * (y + 1) <= g * x
    BY <1>1
  <2>2. g * (y + 1) = g * y + g
    OBVIOUS
  <2> QED BY <2>1, <2>2
<1> QED BY <1>1

\* A number is its quotient by a divisor, as often as the divisor.
LEMMA Factor ==
    ASSUME NEW n \in Int, NEW g \in Nat \ {0}, n % g = 0
    PROVE  n \div g \in Int /\ n = g * (n \div g)
OBVIOUS

\* A fraction in lowest terms has the value of the fraction.
LEMMA RatioIs ==
    ASSUME NEW n \in Int, NEW d \in Nat \ {0}
    PROVE  \E g \in Nat \ {0}, a \in Int, b \in Nat \ {0} :
              n = g * a /\ d = g * b /\ Ratio(n, d) = <<a, b>>
<1> DEFINE Divides(k) == n % k = 0 /\ d % k = 0
           B == {x \in 0..(d - 1) : Divides(d - x)}
<1>1. d - 1 \in B
  <2>1. d - (d - 1) = 1
    OBVIOUS
  <2>2. n % 1 = 0 /\ d % 1 = 0
    OBVIOUS
  <2> QED BY <2>1, <2>2
<1>2. PICK x \in B : \A y \in B : x <= y
  <2>1. B \subseteq Nat
    OBVIOUS
  <2>2. B # {}
    BY <1>1, Zenon
  <2> HIDE DEF B
  <2> QED BY <2>1, <2>2, LeastNat
<1>3. \E k \in 1..d : n % k = 0 /\ d % k = 0 /\ \A j \in (k + 1)..d : ~(n % j = 0 /\ d % j = 0)
  <2>1. PICK k : k = d - x
    OBVIOUS
  <2>2. k \in 1..d /\ Divides(k)
    BY <1>2, <2>1
  <2>3. ASSUME NEW j \in (k + 1)..d, Divides(j) PROVE FALSE
    <3>1. d - j \in 0..(d - 1) /\ d - (d - j) = j
      BY <2>2
    <3>2. d - j \in B
      BY <2>3, <3>1
    <3>3. x <= d - j
      BY <1>2, <3>2
    <3> QED BY <1>2, <2>1, <2>3, <3>3
  <2> QED BY <2>2, <2>3
<1>4. PICK g \in 1..d : n % g = 0 /\ d % g = 0 /\ Ratio(n, d) = <<n \div g, d \div g>>
  BY <1>3 DEF Ratio
<1>5. n \div g \in Int /\ n = g * (n \div g) /\ d \div g \in Int /\ d = g * (d \div g)
  BY <1>4, Factor
<1>6. d \div g \in Nat \ {0}
  <2>1. g * 1 <= g * (d \div g)
    BY <1>4, <1>5
  <2>2. 1 <= d \div g
    BY <1>4, <1>5, <2>1, FactorOut
  <2> QED BY <1>5, <2>2
<1>7. PICK a, b : a = n \div g /\ b = d \div g
  OBVIOUS
<1>8. g \in Nat \ {0} /\ a \in Int /\ b \in Nat \ {0} /\ n = g * a /\ d = g * b /\ Ratio(n, d) = <<a, b>>
  BY <1>4, <1>5, <1>6, <1>7
<1> QED BY <1>8

\* So it lies between what the fraction lies between.
LEMMA RatioBetween ==
    ASSUME NEW n \in Int, NEW d \in Nat \ {0}
    PROVE  /\ Ratio(n, d) \in Average
           /\ \A lo, hi \in Int : lo * d <= n /\ n <= hi * d => Between(Ratio(n, d), lo, hi)
<1>1. PICK g \in Nat \ {0}, a \in Int, b \in Nat \ {0} : n = g * a /\ d = g * b /\ Ratio(n, d) = <<a, b>>
  BY RatioIs
<1>2. ASSUME NEW lo \in Int, NEW hi \in Int, lo * d <= n, n <= hi * d
      PROVE  lo * b <= a /\ a <= hi * b
  <2>1. lo * d = g * (lo * b) /\ hi * d = g * (hi * b)
    BY <1>1
  <2>2. g * (lo * b) <= g * a /\ g * a <= g * (hi * b)
    BY <1>1, <1>2, <2>1
  <2>3. lo * b \in Int /\ hi * b \in Int
    OBVIOUS
  <2> QED BY <2>2, <2>3, FactorOut
<1> QED BY <1>1, <1>2 DEF Average, Between

\* The new average: a fraction again, between the costs if the old one was.
LEMMA OnReceiptSound ==
    ASSUME NEW qty \in Int, NEW avg \in Average, NEW q \in Nat \ {0}, NEW c \in Nat \ {0}
    PROVE  /\ OnReceipt(qty, avg, q, c) \in Average
           /\ \A lo, hi \in Int :
                 qty >= 0 /\ (qty > 0 => Between(avg, lo, hi)) /\ lo <= c /\ c <= hi
                   => Between(OnReceipt(qty, avg, q, c), lo, hi)
<1>1. PICK a \in Int, b \in Nat \ {0} : avg[1] = a /\ avg[2] = b
  BY DEF Average
<1>2. PICK n \in Int : n = qty * a + q * c * b
  OBVIOUS
<1>3. PICK d \in Int : d = (qty + q) * b
  OBVIOUS
<1>4. OnReceipt(qty, avg, q, c) = IF qty + q = 0 THEN <<0, 1>> ELSE IF d > 0 THEN Ratio(n, d) ELSE Ratio(-n, -d)
  BY <1>1, <1>2, <1>3 DEF OnReceipt
<1>5. CASE qty + q = 0
  <2>1. ~(qty >= 0)
    BY <1>5
  <2>2. <<0, 1>> \in Average
    BY DEF Average
  <2> QED BY <1>4, <1>5, <2>1, <2>2
<1>6. CASE qty + q > 0
  <2>1. d \in Nat \ {0}
    BY <1>1, <1>3, <1>6
  <2>2. ASSUME NEW lo \in Int, NEW hi \in Int, qty >= 0, qty > 0 => Between(avg, lo, hi), lo <= c, c <= hi
        PROVE  lo * d <= n /\ n <= hi * d
    <3>1. qty * (lo * b) <= qty * a /\ qty * a <= qty * (hi * b)
      <4>1. CASE qty = 0
        BY <4>1
      <4>2. CASE qty > 0
        <5>1. lo * b <= a /\ a <= hi * b
          BY <1>1, <2>2, <4>2 DEF Between
        <5> QED BY <4>2, <5>1
      <4> QED BY <2>2, <4>1, <4>2
    <3>2. (q * b) * lo <= (q * b) * c /\ (q * b) * c <= (q * b) * hi
      <4>1. q * b \in Nat
        OBVIOUS
      <4>2. PICK m \in Nat : m = q * b
        BY <4>1
      <4>3. m * lo <= m * c /\ m * c <= m * hi
        BY <2>2
      <4> QED BY <4>2, <4>3
    <3>3. lo * d = qty * (lo * b) + (q * b) * lo
      BY <1>3
    <3>4. hi * d = qty * (hi * b) + (q * b) * hi
      BY <1>3
    <3>5. n = qty * a + (q * b) * c
      BY <1>2
    <3> QED BY <3>1, <3>2, <3>3, <3>4, <3>5
  <2>3. OnReceipt(qty, avg, q, c) = Ratio(n, d)
    BY <1>4, <1>6, <2>1
  <2> QED BY <2>1, <2>2, <2>3, RatioBetween
<1>7. CASE qty + q < 0
  <2>1. d < 0
    BY <1>1, <1>3, <1>7
  <2>2. -d \in Nat \ {0} /\ -n \in Int /\ ~(qty >= 0) /\ ~(d > 0)
    BY <1>7, <2>1
  <2>3. OnReceipt(qty, avg, q, c) = Ratio(-n, -d)
    BY <1>4, <1>7, <2>1
  <2> QED BY <2>2, <2>3, RatioBetween
<1> QED BY <1>5, <1>6, <1>7

-----------------------------------------------------------------------------
(* Lines *)

\* The greatest of finitely many numbers.
LEMMA MaxIs ==
    ASSUME NEW S, IsFiniteSet(S), S # {}, \A x \in S : x \in Int
    PROVE  Max(S) \in S /\ \A x \in S : x <= Max(S)
<1> DEFINE Greatest(T) == \E m \in T : \A x \in T : m >= x
           B == {T \in SUBSET S : T # {} /\ ~Greatest(T)}
<1>1. B = {}
  <2> SUFFICES ASSUME B # {} PROVE FALSE
    OBVIOUS
  <2>1. PICK T \in B : \A U \in B : U \subseteq T => U = T
    <3>1. B \subseteq SUBSET S /\ IsFiniteSet(S)
      OBVIOUS
    <3>2. B # {}
      OBVIOUS
    <3> HIDE DEF B
    <3> QED BY <3>1, <3>2, LeastSet
  <2>2. PICK y \in T : TRUE
    OBVIOUS
  <2>3. T \ {y} \notin B
    BY <2>1, <2>2
  <2>4. CASE T \ {y} = {}
    BY <2>1, <2>2, <2>4
  <2>5. CASE T \ {y} # {}
    <3>1. PICK m \in T \ {y} : \A x \in T \ {y} : m >= x
      BY <2>3, <2>5
    <3>2. y \in Int /\ m \in Int /\ \A x \in T : x \in Int
      BY <2>2, <3>1
    <3>3. CASE m >= y
      <4>1. \A x \in T : m >= x
        BY <3>1, <3>3
      <4> QED BY <2>1, <3>1, <4>1
    <3>4. CASE y >= m
      <4>1. \A x \in T : y >= x
        BY <3>1, <3>2, <3>4
      <4> QED BY <2>1, <2>2, <4>1
    <3> QED BY <3>2, <3>3, <3>4
  <2> QED BY <2>4, <2>5
<1>2. \E m \in S : \A x \in S : m >= x
  BY <1>1
<1>3. Max(S) \in S /\ \A x \in S : Max(S) >= x
  BY <1>2 DEF Max
<1> QED BY <1>3

\* What is known of the lines of a document.
LEMMA LinesAre ==
    ASSUME NEW lines \in Seq(PaperLine)
    PROVE  /\ DOMAIN lines = 1..Len(lines) /\ Len(lines) \in Nat /\ IsFiniteSet(DOMAIN lines)
           /\ lines # <<>> => Len(lines) \in DOMAIN lines
           /\ \A i \in DOMAIN lines : /\ lines[i] \in PaperLine
                                      /\ lines[i].qty \in Nat \ {0} /\ lines[i].cost \in Nat \ {0}
<1>1. DOMAIN lines = 1..Len(lines) /\ Len(lines) \in Nat
  BY LenProperties
<1>2. IsFiniteSet(DOMAIN lines)
  BY <1>1, FS_Interval
<1>3. lines # <<>> => Len(lines) # 0
  BY EmptySeq
<1>4. \A i \in DOMAIN lines : lines[i] \in PaperLine
  BY ElementOfSeq, <1>1
<1>5. \A l \in PaperLine : l.qty \in Amounts /\ l.cost \in UnitCosts
  BY DEF PaperLine
<1>6. Amounts \subseteq Nat \ {0} /\ UnitCosts \subseteq Nat \ {0}
  BY PurchasesAssumption
<1>7. lines # <<>> => Len(lines) \in DOMAIN lines
  BY <1>1, <1>3
<1>8. \A i \in DOMAIN lines : lines[i].qty \in Nat \ {0} /\ lines[i].cost \in Nat \ {0}
  BY <1>4, <1>5, <1>6
<1> QED BY <1>1, <1>2, <1>4, <1>7, <1>8

\* What the lines amount to.
LEMMA CountIsInt ==
    ASSUME NEW lines \in Seq(PaperLine)
    PROVE  Count(lines) \in Int /\ Total(lines) \in Int
<1>1. PICK f : f = [i \in DOMAIN lines |-> lines[i].qty]
  OBVIOUS
<1>2. PICK g : g = [i \in DOMAIN lines |-> lines[i].qty * lines[i].cost]
  OBVIOUS
<1>3. Summable(f) /\ Summable(g)
  <2>1. \A i \in DOMAIN lines : lines[i].qty \in Int /\ lines[i].qty * lines[i].cost \in Int
    BY LinesAre
  <2> QED BY <1>1, <1>2, <2>1, LinesAre DEF Summable
<1>4. Count(lines) = SumOver(f) /\ Total(lines) = SumOver(g)
  BY <1>1, <1>2 DEF Count, Total
<1> QED BY <1>3, <1>4, SumIsInt

-----------------------------------------------------------------------------
(* Receipts *)

Holding == [qty : Int, avg : Average]

\* The recursion of Receive, as one function of the lines done.
AfterLines(lines, s) ==
    CHOOSE f : f = [i \in 0..Len(lines) |-> IF i = 0 THEN s ELSE Restocked(f[i - 1], lines[i])]

\* Receive is the last value of its recursion.
LEMMA ReceiveIsLast == \A lines, s : Receive(lines, s) = AfterLines(lines, s)[Len(lines)]
BY DEF Receive, AfterLines

\* Some function satisfies it: by the number of lines.
LEMMA AfterLinesIs ==
    ASSUME NEW lines, NEW s, Len(lines) \in Nat
    PROVE  AfterLines(lines, s)
             = [i \in 0..Len(lines) |-> IF i = 0 THEN s ELSE Restocked(AfterLines(lines, s)[i - 1], lines[i])]
<1> DEFINE Next1(x, i) == Restocked(x, lines[i])
<1> HIDE DEF Next1
<1> DEFINE Upto(n) == \E f : f = [i \in 0..n |-> IF i = 0 THEN s ELSE Next1(f[i - 1], i)]
           B == {n \in Nat : ~Upto(n)}
<1>1. B = {}
  <2> SUFFICES ASSUME B # {} PROVE FALSE
    OBVIOUS
  <2>1. PICK m \in B : \A n \in B : m <= n
    <3>1. B \subseteq Nat
      OBVIOUS
    <3> HIDE DEF B
    <3> QED BY <3>1, LeastNat
  <2>2. m # 0
    <3>1. PICK f : f = [i \in 0..0 |-> s]
      OBVIOUS
    <3>2. f = [i \in 0..0 |-> IF i = 0 THEN s ELSE Next1(f[i - 1], i)]
      BY <3>1
    <3>3. Upto(0)
      BY <3>2
    <3> QED BY <2>1, <3>3
  <2>3. m - 1 \in Nat /\ Upto(m - 1)
    <3>1. m - 1 \in Nat /\ ~(m <= m - 1)
      BY <2>1, <2>2
    <3>2. m - 1 \notin B
      BY <2>1, <3>1
    <3> HIDE DEF Upto
    <3> QED BY <3>1, <3>2
  <2>4. PICK f : f = [i \in 0..(m - 1) |-> IF i = 0 THEN s ELSE Next1(f[i - 1], i)]
    BY <2>3
  <2>5. PICK h : h = [i \in 0..m |-> IF i = 0 THEN s ELSE Next1(f[i - 1], i)]
    OBVIOUS
  <2>6. \A i \in 0..m : i # 0 => i - 1 \in 0..(m - 1) /\ i - 1 \in 0..m
    BY <2>1
  <2>7. \A i \in 0..(m - 1) : h[i] = f[i]
    BY <2>1, <2>2, <2>4, <2>5
  <2>8. \A i \in 0..m : i # 0 => h[i - 1] = f[i - 1]
    BY <2>6, <2>7
  <2>9. h = [i \in 0..m |-> IF i = 0 THEN s ELSE Next1(h[i - 1], i)]
    BY <2>5, <2>8
  <2> QED BY <2>1, <2>9
<1>2. Upto(Len(lines))
  BY <1>1
<1>3. \E f : f = [i \in 0..Len(lines) |-> IF i = 0 THEN s ELSE Restocked(f[i - 1], lines[i])]
  BY <1>2 DEF Next1
<1> QED BY <1>3 DEF AfterLines

\* One line more on the shelf.
LEMMA RestockedSound ==
    ASSUME NEW s \in Holding, NEW line \in PaperLine
    PROVE  /\ Restocked(s, line) \in Holding
           /\ Restocked(s, line).qty = s.qty + line.qty
           /\ s.qty >= 0 => Restocked(s, line).qty >= 0
           /\ \A lo, hi \in Int :
                s.qty >= 0 /\ (s.qty > 0 => Between(s.avg, lo, hi)) /\ lo <= line.cost /\ line.cost <= hi
                  => Between(Restocked(s, line).avg, lo, hi)
<1>1. line.qty \in Nat \ {0} /\ line.cost \in Nat \ {0}
  <2>1. line.qty \in Amounts /\ line.cost \in UnitCosts
    BY DEF PaperLine
  <2>2. Amounts \subseteq Nat \ {0} /\ UnitCosts \subseteq Nat \ {0}
    BY PurchasesAssumption
  <2> QED BY <2>1, <2>2
<1>2. s.qty \in Int /\ s.avg \in Average
  BY DEF Holding
<1>3. PICK a : a = OnReceipt(s.qty, s.avg, line.qty, line.cost)
  OBVIOUS
<1>4. /\ a \in Average
      /\ \A lo, hi \in Int :
            s.qty >= 0 /\ (s.qty > 0 => Between(s.avg, lo, hi)) /\ lo <= line.cost /\ line.cost <= hi
              => Between(a, lo, hi)
  BY <1>1, <1>2, <1>3, OnReceiptSound
<1>5. Restocked(s, line) = [qty |-> s.qty + line.qty, avg |-> a]
  BY <1>3 DEF Restocked
<1>6. Restocked(s, line).avg = a /\ Restocked(s, line).qty = s.qty + line.qty
  BY <1>5
<1>7. Restocked(s, line) \in Holding
  BY <1>1, <1>2, <1>4, <1>5 DEF Holding
<1>8. s.qty >= 0 => s.qty + line.qty >= 0
  BY <1>1, <1>2
<1> QED BY <1>4, <1>6, <1>7, <1>8

\* A receipt of all lines: as much more, at a cost between the costs.
LEMMA ReceiveSound ==
    ASSUME NEW lines \in Seq(PaperLine), NEW s \in Holding
    PROVE  /\ Receive(lines, s) \in Holding
           /\ Receive(lines, s).qty = s.qty + Count(lines)
           /\ s.qty >= 0 => Receive(lines, s).qty >= 0
           /\ \A lo, hi \in Int :
                /\ s.qty >= 0
                /\ s.qty > 0 => Between(s.avg, lo, hi)
                /\ \A i \in DOMAIN lines : lo <= lines[i].cost /\ lines[i].cost <= hi
                => (Receive(lines, s).qty > 0 => Between(Receive(lines, s).avg, lo, hi))
<1> DEFINE n == Len(lines)
           q == [i \in DOMAIN lines |-> lines[i].qty]
<1>1. DOMAIN lines = 1..n /\ n \in Nat /\ \A i \in DOMAIN lines : lines[i] \in PaperLine /\ lines[i].qty \in Int
  BY LinesAre
<1>2. Summable(q) /\ DOMAIN q = DOMAIN lines
  BY LinesAre DEF Summable
<1>3. PICK f : f = AfterLines(lines, s)
  OBVIOUS
<1>4. /\ f[0] = s
      /\ \A i \in 1..n : f[i] = Restocked(f[i - 1], lines[i])
  <2>1. f = [i \in 0..n |-> IF i = 0 THEN s ELSE Restocked(f[i - 1], lines[i])]
    BY <1>1, <1>3, AfterLinesIs
  <2> HIDE DEF n
  <2> QED BY <1>1, <2>1
<1> DEFINE Costly(lo, hi) == \A i \in DOMAIN lines : lo <= lines[i].cost /\ lines[i].cost <= hi
           Good(i) == /\ f[i] \in Holding
                      /\ f[i].qty = s.qty + SumOver(Part(q, 1..i))
                      /\ s.qty >= 0 => f[i].qty >= 0
                      /\ \A lo, hi \in Int :
                           s.qty >= 0 /\ (s.qty > 0 => Between(s.avg, lo, hi)) /\ Costly(lo, hi)
                             => (f[i].qty > 0 => Between(f[i].avg, lo, hi))
           B == {i \in 0..n : ~Good(i)}
<1> HIDE DEF n, q, Costly
<1>5. Good(0)
  <2>1. Part(q, 1..0) = Part(q, {}) /\ DOMAIN Part(q, {}) = {}
    BY DEF Part
  <2>2. Summable(Part(q, {}))
    BY <1>2, PartSummable
  <2>3. SumOver(Part(q, 1..0)) = 0
    BY <2>1, <2>2, SumIsInt
  <2>4. s.qty \in Int
    BY DEF Holding
  <2> QED BY <1>4, <2>3, <2>4
<1>6. ASSUME NEW i \in 1..n, Good(i - 1) PROVE Good(i)
  <2>1. PICK t \in Holding : t = f[i - 1]
    BY <1>6
  <2>2. lines[i] \in PaperLine /\ i \in DOMAIN lines
    BY <1>1
  <2>3. f[i] = Restocked(t, lines[i])
    BY <1>4, <2>1
  <2>4. /\ f[i] \in Holding /\ f[i].qty = t.qty + lines[i].qty /\ (t.qty >= 0 => f[i].qty >= 0)
        /\ \A lo, hi \in Int :
             t.qty >= 0 /\ (t.qty > 0 => Between(t.avg, lo, hi)) /\ lo <= lines[i].cost /\ lines[i].cost <= hi
               => Between(f[i].avg, lo, hi)
    BY <2>2, <2>3, RestockedSound
  <2>5. SumOver(Part(q, 1..i)) = SumOver(Part(q, 1..(i - 1))) + lines[i].qty
    <3>1. 1..i = 1..(i - 1) \cup {i} /\ i \notin 1..(i - 1)
      BY <1>1
    <3>2. 1..i \subseteq DOMAIN q /\ 1..(i - 1) \subseteq DOMAIN q
      BY <1>1, <1>2
    <3>3. PICK g, h : g = Part(q, 1..(i - 1)) /\ h = Part(q, 1..i)
      OBVIOUS
    <3>4. Summable(g) /\ Summable(h)
      BY <1>2, <3>2, <3>3, PartSummable
    <3>5. DOMAIN g = 1..(i - 1) /\ DOMAIN h = 1..i /\ \A y \in DOMAIN g : h[y] = g[y]
      BY <3>1, <3>3 DEF Part
    <3>6. h[i] = lines[i].qty
      BY <2>2, <3>1, <3>3 DEF Part, q
    <3>7. i \notin DOMAIN g /\ DOMAIN h = DOMAIN g \cup {i} /\ \A y \in DOMAIN g : h[y] = g[y]
      BY <3>1, <3>5
    <3>8. SumOver(h) = SumOver(g) + h[i]
      BY <3>4, <3>7, SumGrow
    <3> QED BY <3>3, <3>6, <3>8
  <2>6. f[i].qty = s.qty + SumOver(Part(q, 1..i))
    <3>1. 1..(i - 1) \subseteq DOMAIN q
      BY <1>1, <1>2
    <3>2. SumOver(Part(q, 1..(i - 1))) \in Int
      BY <1>2, <3>1, PartSummable, SumIsInt
    <3>3. s.qty \in Int /\ lines[i].qty \in Int /\ t.qty = s.qty + SumOver(Part(q, 1..(i - 1)))
      BY <1>1, <1>6, <2>1, <2>2 DEF Holding
    <3> QED BY <2>4, <2>5, <3>2, <3>3
  <2>7. s.qty >= 0 => t.qty >= 0
    BY <1>6, <2>1
  <2>8. ASSUME NEW lo \in Int, NEW hi \in Int, s.qty >= 0, s.qty > 0 => Between(s.avg, lo, hi), Costly(lo, hi)
        PROVE  Between(f[i].avg, lo, hi)
    <3>1. t.qty > 0 => Between(t.avg, lo, hi)
      BY <1>6, <2>1, <2>8
    <3>2. lo <= lines[i].cost /\ lines[i].cost <= hi
      BY <2>2, <2>8 DEF Costly
    <3> QED BY <2>4, <2>7, <2>8, <3>1, <3>2
  <2> QED BY <2>4, <2>6, <2>7, <2>8
<1>7. B = {}
  <2> SUFFICES ASSUME B # {} PROVE FALSE
    OBVIOUS
  <2>1. PICK m \in B : \A j \in B : m <= j
    <3>1. B \subseteq Nat
      BY <1>1
    <3> HIDE DEF B
    <3> QED BY <3>1, LeastNat
  <2>2. m \in 0..n /\ ~Good(m)
    OBVIOUS
  <2>3. m # 0
    BY <1>5, <2>2
  <2>4. m \in 1..n /\ m - 1 \in 0..n
    BY <1>1, <2>2, <2>3
  <2>5. m - 1 \notin B
    BY <1>1, <2>1, <2>4
  <2>6. Good(m - 1)
    BY <2>4, <2>5
  <2>7. Good(m)
    <3> HIDE DEF Good
    <3> QED BY <1>6, <2>4, <2>6
  <2> QED BY <2>2, <2>7
<1>8. Good(n)
  <2>1. n \in 0..n
    BY <1>1
  <2> HIDE DEF Good
  <2> QED BY <1>7, <2>1
<1>9. Part(q, 1..n) = q /\ SumOver(q) = Count(lines)
  BY <1>1, <1>2 DEF Part, Count, q
<1>10. Receive(lines, s) = f[n]
  BY <1>3, ReceiveIsLast DEF n
<1>11. Receive(lines, s).qty = s.qty + Count(lines)
  BY <1>8, <1>9, <1>10
<1> QED BY <1>8, <1>10, <1>11 DEF Costly

-----------------------------------------------------------------------------
(* The invariant of Purchases *)

PaperTypes == Types \cup {"PURCHASE_ORDER"}
PaperRow == [type : PaperTypes, wh : Warehouses \cup {NoPaper.wh}, ref : BOOLEAN,
             status : PaperStatuses, number : Nat, lines : Seq(PaperLine)]
BuyerRow == [op : {"none", "line", "finalize", "cancel"}, doc : Papers \cup {Nobody},
             lines : Seq(PaperLine), price : Nat]

PapersKept ==
    /\ paper \in [Papers -> PaperRow]
    /\ \A d \in Papers : /\ paper[d].status # "NONE" => paper[d].wh \in Warehouses
                         /\ paper[d].ref => paper[d].type = "PURCHASE_INVOICE"

\* A type's numbers are given out once.
NumbersKept ==
    /\ counter \in [PaperTypes -> Nat \ {0}]
    /\ \A d \in Papers : paper[d].number < counter[paper[d].type]
    /\ \A c, d \in Papers : c # d /\ paper[c].type = paper[d].type /\ paper[c].status # "NONE"
                              => paper[c].number # paper[d].number

ShelvesKept ==
    /\ stock \in [Warehouses -> Holding] /\ sold \in [Warehouses -> Nat]
    /\ ~negative => \A w \in Warehouses : stock[w].qty >= 0

MoneyKept == payable \in Int /\ journal \in [Papers -> Int] /\ price \in Nat

RequestsKept ==
    /\ buyer \in [Buyers -> BuyerRow]
    /\ \A b \in Buyers :
         /\ buyer[b].op = "none" => buyer[b].doc = Nobody
         /\ buyer[b].op # "none" => buyer[b].doc \in Papers /\ paper[buyer[b].doc].status # "NONE"
         /\ buyer[b].op = "finalize" => buyer[b].lines # <<>>

\* What a request read is still so when it writes, until two met on a document.
ReadStands ==
    met = {} =>
      /\ \A b \in Buyers : buyer[b].op # "none" =>
           /\ paper[buyer[b].doc].lines = buyer[b].lines
           /\ paper[buyer[b].doc].status = IF buyer[b].op = "cancel" THEN "FINALIZED" ELSE "DRAFT"
      /\ \A b, c \in Buyers : b # c /\ buyer[b].op # "none" /\ buyer[c].op # "none"
                                => buyer[b].doc # buyer[c].doc

\* The latest journal of a document that stands is what it adds to the payable.
JournalStands == met = {} => \A d \in Papers : Stands(paper[d]) => journal[d] = Owed(paper[d])

\* Only who moves goods holds a shelf; alone, he knows the price that is there.
LocksKept ==
    /\ held \in [Warehouses -> Buyers \cup {Nobody}]
    /\ \A w \in Warehouses : held[w] # Nobody => buyer[held[w]].op \in {"finalize", "cancel"}
    /\ ~abreast =>
         /\ \A v, w \in Warehouses : held[v] # Nobody /\ held[w] # Nobody => v = w
         /\ \A w \in Warehouses : held[w] # Nobody => buyer[held[w]].price = price

PurchasesInv ==
    /\ PapersKept /\ NumbersKept /\ ShelvesKept /\ MoneyKept /\ RequestsKept
    /\ ReadStands /\ JournalStands /\ LocksKept
    /\ StockFollowsPurchases /\ PayableFollowsPurchases /\ AverageWithinCosts

\* What a document adds to the payable, or to a shelf, is a number.
LEMMA AmountsAreInt ==
    ASSUME NEW p \in PaperRow, NEW w
    PROVE  Owed(p) \in Int /\ OnShelf(p, w) \in Int
<1>1. p.lines \in Seq(PaperLine)
  BY DEF PaperRow
<1>2. Count(p.lines) \in Int /\ Total(p.lines) \in Int
  BY <1>1, CountIsInt
<1>3. PICK m \in Int, n \in Int : m = Count(p.lines) /\ n = Total(p.lines)
  BY <1>2
<1>4. -m \in Int /\ -n \in Int
  OBVIOUS
<1>5. Owed(p) \in {n, -n, 0}
  BY <1>3 DEF Owed
<1>6. OnShelf(p, w) \in {m, -m, 0}
  BY <1>3 DEF OnShelf
<1> QED BY <1>4, <1>5, <1>6

\* One document changes the sum over all by what it changes itself.
LEMMA OnePaper ==
    ASSUME NEW f \in [Papers -> Int], NEW g \in [Papers -> Int], NEW d \in Papers,
           \A e \in Papers : e # d => g[e] = f[e]
    PROVE  SumOver(g) = SumOver(f) - f[d] + g[d] /\ SumOver(f) \in Int
<1>1. Summable(f)
  BY PurchasesAssumption DEF Summable
<1>2. PICK h : h = [f EXCEPT ![d] = g[d]]
  OBVIOUS
<1>3. h = g
  BY <1>2
<1>4. d \in DOMAIN f /\ g[d] \in Int
  OBVIOUS
<1>5. SumOver([f EXCEPT ![d] = g[d]]) = SumOver(f) - f[d] + g[d]
  BY <1>1, <1>4, SumChange
<1> QED BY <1>1, <1>2, <1>3, <1>5, SumIsInt

\* So it is for the payable.
LEMMA OneOwed ==
    ASSUME NEW p \in [Papers -> PaperRow], NEW r \in [Papers -> PaperRow], NEW d \in Papers,
           \A e \in Papers : e # d => r[e] = p[e]
    PROVE  /\ SumOver([e \in Papers |-> Owed(r[e])])
                = SumOver([e \in Papers |-> Owed(p[e])]) - Owed(p[d]) + Owed(r[d])
           /\ SumOver([e \in Papers |-> Owed(p[e])]) \in Int
<1>1. PICK f, g : f = [e \in Papers |-> Owed(p[e])] /\ g = [e \in Papers |-> Owed(r[e])]
  OBVIOUS
<1>2. \A e \in Papers : Owed(p[e]) \in Int /\ Owed(r[e]) \in Int
  BY AmountsAreInt
<1>3. f \in [Papers -> Int] /\ g \in [Papers -> Int]
  BY <1>1, <1>2
<1>4. \A e \in Papers : e # d => g[e] = f[e]
  BY <1>1
<1>5. SumOver(g) = SumOver(f) - f[d] + g[d] /\ SumOver(f) \in Int
  BY <1>3, <1>4, OnePaper
<1>6. f[d] = Owed(p[d]) /\ g[d] = Owed(r[d])
  BY <1>1
<1> QED BY <1>1, <1>5, <1>6

\* The same for a shelf.
LEMMA OneOnShelf ==
    ASSUME NEW p \in [Papers -> PaperRow], NEW r \in [Papers -> PaperRow], NEW d \in Papers, NEW w \in Warehouses,
           \A e \in Papers : e # d => r[e] = p[e]
    PROVE  /\ SumOver([e \in Papers |-> OnShelf(r[e], w)])
                = SumOver([e \in Papers |-> OnShelf(p[e], w)]) - OnShelf(p[d], w) + OnShelf(r[d], w)
           /\ SumOver([e \in Papers |-> OnShelf(p[e], w)]) \in Int
<1>1. PICK f, g : f = [e \in Papers |-> OnShelf(p[e], w)] /\ g = [e \in Papers |-> OnShelf(r[e], w)]
  OBVIOUS
<1>2. \A e \in Papers : OnShelf(p[e], w) \in Int /\ OnShelf(r[e], w) \in Int
  BY AmountsAreInt
<1>3. f \in [Papers -> Int] /\ g \in [Papers -> Int]
  BY <1>1, <1>2
<1>4. \A e \in Papers : e # d => g[e] = f[e]
  BY <1>1
<1>5. SumOver(g) = SumOver(f) - f[d] + g[d] /\ SumOver(f) \in Int
  BY <1>3, <1>4, OnePaper
<1>6. f[d] = OnShelf(p[d], w) /\ g[d] = OnShelf(r[d], w)
  BY <1>1
<1> QED BY <1>1, <1>5, <1>6

\* Nothing adds up to nothing.
LEMMA NothingSums ==
    ASSUME NEW f, Summable(f), \A x \in DOMAIN f : f[x] = 0
    PROVE  SumOver(f) = 0
<1> DEFINE S == DOMAIN f
           B == {T \in SUBSET S : SumOver(Part(f, T)) # 0}
<1>1. B = {}
  <2> SUFFICES ASSUME B # {} PROVE FALSE
    OBVIOUS
  <2>1. PICK T \in B : \A U \in B : U \subseteq T => U = T
    <3>1. B \subseteq SUBSET S /\ IsFiniteSet(S)
      BY DEF Summable
    <3> HIDE DEF B
    <3> QED BY <3>1, LeastSet
  <2>2. PICK p : p = Part(f, T) /\ Summable(p) /\ DOMAIN p = T
    BY PartSummable DEF Part
  <2>3. T # {}
    <3>1. SumOver(p) # 0
      BY <2>1, <2>2
    <3>2. ASSUME DOMAIN p = {} PROVE SumOver(p) = 0
      BY <2>2, <3>2, SumIsInt
    <3> QED BY <2>2, <3>1, <3>2
  <2>4. PICK x \in T : TRUE
    BY <2>3
  <2>5. Part(p, T \ {x}) = Part(f, T \ {x}) /\ p[x] = 0
    BY <2>2 DEF Part
  <2>6. T \ {x} \notin B /\ T \ {x} \in SUBSET S
    BY <2>1, <2>4
  <2>7. SumOver(Part(f, T \ {x})) = 0
    BY <2>6
  <2>8. SumOver(p) = p[x] + SumOver(Part(f, T \ {x}))
    BY <2>2, <2>4, <2>5, SumWithout
  <2>9. SumOver(p) # 0
    BY <2>1, <2>2
  <2> QED BY <2>5, <2>7, <2>8, <2>9
<1>2. Part(f, S) = f
  BY DEF Part, Summable
<1> QED BY <1>1, <1>2

\* Every unit cost lies between the least and the greatest.
LEMMA CostsBetween ==
    /\ Min(UnitCosts) \in Int /\ Max(UnitCosts) \in Int
    /\ \A c \in UnitCosts : Min(UnitCosts) <= c /\ c <= Max(UnitCosts)
<1>1. UnitCosts \subseteq Nat /\ IsFiniteSet(UnitCosts) /\ UnitCosts # {}
  BY PurchasesAssumption
<1>2. \E m \in UnitCosts : \A n \in UnitCosts : m <= n
  BY <1>1, LeastNat
<1>3. Min(UnitCosts) \in UnitCosts /\ \A n \in UnitCosts : Min(UnitCosts) <= n
  BY <1>2, Zenon DEF Min
<1>4. \A c \in UnitCosts : c \in Int
  BY <1>1
<1>5. Max(UnitCosts) \in UnitCosts /\ \A n \in UnitCosts : n <= Max(UnitCosts)
  BY <1>1, <1>4, MaxIs
<1> QED BY <1>3, <1>4, <1>5

\* Nothing on the shelf.
LEMMA NoShelfIs == NoShelf \in Holding /\ NoShelf.qty = 0
BY DEF NoShelf, Holding, Average

\* The row before there is a document.
LEMMA NoPaperIs ==
    /\ NoPaper \in PaperRow
    /\ NoPaper.status = "NONE" /\ NoPaper.ref = FALSE /\ NoPaper.type = "PURCHASE_ORDER"
    /\ NoPaper.number = 0 /\ NoPaper.lines = <<>>
<1>1. PICK w : w = NoPaper.wh
  OBVIOUS
<1>2. NoPaper = [type |-> "PURCHASE_ORDER", wh |-> w, ref |-> FALSE, status |-> "NONE", number |-> 0, lines |-> <<>>]
  BY <1>1 DEF NoPaper
<1>3. PaperRow = [type : PaperTypes, wh : Warehouses \cup {w}, ref : BOOLEAN,
                  status : PaperStatuses, number : Nat, lines : Seq(PaperLine)]
  BY <1>1 DEF PaperRow
<1>4. <<>> \in Seq(PaperLine) /\ "PURCHASE_ORDER" \in PaperTypes /\ "NONE" \in PaperStatuses
  BY DEF PaperTypes, PaperStatuses
<1>5. NoPaper \in PaperRow
  BY <1>2, <1>3, <1>4
<1> QED BY <1>2, <1>5

\* Nothing is bought yet, nothing is owed.
LEMMA PurchasesStart == PurchasesInit => PurchasesInv
<1> SUFFICES ASSUME PurchasesInit PROVE PurchasesInv
  OBVIOUS
<1> USE DEF PurchasesInit
<1>1. NoPaper \in PaperRow
  BY NoPaperIs
<1>2. NoPaper.status = "NONE" /\ NoPaper.ref = FALSE /\ NoPaper.type = "PURCHASE_ORDER" /\ NoPaper.number = 0
  BY NoPaperIs
<1>3. PapersKept /\ NumbersKept
  <2>1. \A d \in Papers : paper[d] = NoPaper
    OBVIOUS
  <2>2. paper \in [Papers -> PaperRow] /\ counter \in [PaperTypes -> Nat \ {0}] /\ counter["PURCHASE_ORDER"] = 1
    BY <1>1 DEF PaperTypes
  <2> QED BY <1>2, <2>1, <2>2 DEF PapersKept, NumbersKept
<1>4. ShelvesKept /\ AverageWithinCosts
  <2>1. \A w \in Warehouses : stock[w] = NoShelf
    OBVIOUS
  <2> QED BY <2>1, NoShelfIs DEF ShelvesKept, AverageWithinCosts
<1>5. MoneyKept
  BY DEF MoneyKept
<1>6. RequestsKept /\ ReadStands
  <2>1. Off \in BuyerRow /\ Off.op = "none" /\ Off.doc = Nobody
    BY DEF Off, BuyerRow
  <2> QED BY <2>1 DEF RequestsKept, ReadStands
<1>7. JournalStands
  BY <1>2 DEF JournalStands, Stands
<1>8. LocksKept
  BY DEF LocksKept
<1>9. \A d \in Papers : Owed(paper[d]) = 0 /\ \A w \in Warehouses : OnShelf(paper[d], w) = 0
  BY <1>2 DEF Owed, OnShelf, Stands
<1>10. PayableFollowsPurchases
  <2>1. PICK f : f = [d \in Papers |-> Owed(paper[d])]
    OBVIOUS
  <2>2. Summable(f) /\ \A d \in DOMAIN f : f[d] = 0
    BY <1>9, <2>1, PurchasesAssumption DEF Summable
  <2> QED BY <2>1, <2>2, NothingSums DEF PayableFollowsPurchases
<1>11. StockFollowsPurchases
  <2>0. \A w \in Warehouses : stock[w].qty = 0 /\ sold[w] = 0
    BY NoShelfIs
  <2>1. ASSUME NEW w \in Warehouses PROVE Received(w) = 0
    <3>1. PICK f : f = [d \in Papers |-> OnShelf(paper[d], w)]
      OBVIOUS
    <3>2. Summable(f) /\ \A d \in DOMAIN f : f[d] = 0
      BY <1>9, <3>1, PurchasesAssumption DEF Summable
    <3> QED BY <3>1, <3>2, NothingSums DEF Received
  <2> QED BY <2>0, <2>1 DEF StockFollowsPurchases
<1> QED BY <1>3, <1>4, <1>5, <1>6, <1>7, <1>8, <1>10, <1>11 DEF PurchasesInv


\* A document that stands neither before nor after leaves shelf and payable alone.
LEMMA QuietPaper ==
    ASSUME PurchasesInv, NEW d \in Papers, paper' \in [Papers -> PaperRow],
           \A e \in Papers : e # d => paper'[e] = paper[e],
           met = {} => ~Stands(paper[d]) /\ ~Stands(paper'[d]),
           UNCHANGED <<met, stock, sold, blotted, payable>>
    PROVE  StockFollowsPurchases' /\ PayableFollowsPurchases'
<1>1. CASE met # {}
  BY <1>1 DEF StockFollowsPurchases, PayableFollowsPurchases
<1>2. CASE met = {}
  <2>1. paper \in [Papers -> PaperRow]
    BY DEF PurchasesInv, PapersKept
  <2>2. Owed(paper[d]) = 0 /\ Owed(paper'[d]) = 0
    BY <1>2 DEF Owed
  <2>3. \A w \in Warehouses : OnShelf(paper[d], w) = 0 /\ OnShelf(paper'[d], w) = 0
    BY <1>2 DEF OnShelf
  <2>4. SumOver([e \in Papers |-> Owed(paper'[e])]) = SumOver([e \in Papers |-> Owed(paper[e])])
    <3>1. PICK r : r = paper'
      OBVIOUS
    <3>2. r \in [Papers -> PaperRow] /\ \A e \in Papers : e # d => r[e] = paper[e]
      BY <3>1
    <3>3. /\ SumOver([e \in Papers |-> Owed(r[e])])
                = SumOver([e \in Papers |-> Owed(paper[e])]) - Owed(paper[d]) + Owed(r[d])
          /\ SumOver([e \in Papers |-> Owed(paper[e])]) \in Int
      BY <2>1, <3>2, OneOwed
    <3> QED BY <2>2, <3>1, <3>3
  <2>5. ASSUME NEW w \in Warehouses
        PROVE SumOver([e \in Papers |-> OnShelf(paper'[e], w)]) = SumOver([e \in Papers |-> OnShelf(paper[e], w)])
    <3>1. PICK r : r = paper'
      OBVIOUS
    <3>2. PICK p : p = paper
      OBVIOUS
    <3>3. p \in [Papers -> PaperRow] /\ r \in [Papers -> PaperRow] /\ \A e \in Papers : e # d => r[e] = p[e]
      BY <2>1, <3>1, <3>2
    <3>4. /\ SumOver([e \in Papers |-> OnShelf(r[e], w)])
                = SumOver([e \in Papers |-> OnShelf(p[e], w)]) - OnShelf(p[d], w) + OnShelf(r[d], w)
          /\ SumOver([e \in Papers |-> OnShelf(p[e], w)]) \in Int
      BY <3>3, OneOnShelf
    <3> QED BY <2>3, <3>1, <3>2, <3>4
  <2> QED BY <2>4, <2>5 DEF PurchasesInv, StockFollowsPurchases, PayableFollowsPurchases, Received
<1> QED BY <1>1, <1>2

\* A draft takes the next number of its type.
LEMMA DocumentCreated ==
    ASSUME PurchasesInv, NEW d \in Papers, CreateDocument(d)
    PROVE  PurchasesInv'
<1> USE DEF PurchasesInv
<1>1. PICK t \in Types, w \in Warehouses, ref \in BOOLEAN :
         /\ ref => t = "PURCHASE_INVOICE"
         /\ paper' = [paper EXCEPT ![d] = [NoPaper EXCEPT !.type = t, !.wh = w, !.ref = ref,
                                             !.status = "DRAFT", !.number = counter[t]]]
         /\ counter' = [counter EXCEPT ![t] = @ + 1]
  BY DEF CreateDocument
<1>2. PICK r : r = [NoPaper EXCEPT !.type = t, !.wh = w, !.ref = ref, !.status = "DRAFT", !.number = counter[t]]
  OBVIOUS
<1>4. /\ paper[d].status = "NONE"
      /\ UNCHANGED <<stock, sold, blotted, negative, payable, journal, rule, price, buyer, held, met, abreast>>
  BY DEF CreateDocument, shelfVars
<1>5. paper' = [paper EXCEPT ![d] = r]
  BY <1>1, <1>2
<1>6. t \in PaperTypes /\ counter[t] \in Nat /\ counter'[t] = counter[t] + 1
      /\ \A u \in PaperTypes : u # t => counter'[u] = counter[u]
  BY <1>1 DEF NumbersKept, PaperTypes
<1>7. /\ r \in PaperRow /\ r.type = t /\ r.wh = w /\ r.ref = ref
      /\ r.status = "DRAFT" /\ r.number = counter[t] /\ r.lines = <<>>
  <2>1. NoPaper \in PaperRow /\ NoPaper.lines = <<>>
    BY NoPaperIs
  <2>2. "DRAFT" \in PaperStatuses
    BY DEF PaperStatuses
  <2>3. PICK p \in PaperRow : p = NoPaper
    BY <2>1
  <2> QED BY <1>2, <1>6, <2>1, <2>2, <2>3 DEF PaperRow
<1>8. /\ paper' \in [Papers -> PaperRow] /\ paper'[d] = r
      /\ \A e \in Papers : e # d => paper'[e] = paper[e]
  BY <1>5, <1>7 DEF PapersKept
<1>10. PapersKept'
  BY <1>1, <1>8, <1>7 DEF PapersKept
<1>11. NumbersKept'
  <2>1. counter' \in [PaperTypes -> Nat \ {0}]
    BY <1>1, <1>6 DEF NumbersKept
  <2>2. \A e \in Papers : e # d => /\ paper[e].type \in PaperTypes /\ paper[e].number \in Nat
                                   /\ paper[e].number < counter[paper[e].type]
    BY DEF NumbersKept, PapersKept, PaperRow
  <2>3. \A e \in Papers : paper'[e].number < counter'[paper'[e].type]
    <3>1. ASSUME NEW e \in Papers, e # d PROVE paper'[e].number < counter'[paper'[e].type]
      <4>1. PICK n \in Nat, u \in PaperTypes : n = paper[e].number /\ u = paper[e].type
        BY <2>2, <3>1
      <4>2. n < counter[u] /\ counter[u] \in Nat
        BY <2>2, <3>1, <4>1 DEF NumbersKept
      <4>3. n < counter'[u]
        BY <1>6, <4>2
      <4> QED BY <1>8, <3>1, <4>1, <4>3
    <3>2. paper'[d].number < counter'[paper'[d].type]
      BY <1>6, <1>8, <1>7
    <3> QED BY <3>1, <3>2
  <2>4. ASSUME NEW e \in Papers, e # d, paper[e].type = t PROVE paper[e].number # counter[t]
    BY <1>6, <2>2, <2>4
  <2>5. \A c, e \in Papers : c # e /\ paper'[c].type = paper'[e].type /\ paper'[c].status # "NONE"
                              => paper'[c].number # paper'[e].number
    <3> SUFFICES ASSUME NEW c \in Papers, NEW e \in Papers, c # e, paper'[c].type = paper'[e].type, paper'[c].status # "NONE"
                 PROVE  paper'[c].number # paper'[e].number
      OBVIOUS
    <3>1. CASE c = d
      BY <1>8, <1>7, <2>4, <3>1
    <3>2. CASE e = d
      BY <1>8, <1>7, <2>4, <3>2
    <3>3. CASE c # d /\ e # d
      BY <1>8, <3>3 DEF NumbersKept
    <3> QED BY <3>1, <3>2, <3>3
  <2> QED BY <2>1, <2>3, <2>5 DEF NumbersKept
<1>12. \A b \in Buyers : buyer[b].op # "none" => buyer[b].doc # d /\ buyer[b].doc \in Papers
                                              /\ paper'[buyer[b].doc] = paper[buyer[b].doc]
  BY <1>4, <1>8 DEF RequestsKept
<1>13. RequestsKept' /\ ReadStands'
  BY <1>4, <1>12 DEF RequestsKept, ReadStands
<1>14. ~Stands(paper[d]) /\ ~Stands(paper'[d])
  BY <1>4, <1>8, <1>7 DEF Stands
<1>15. JournalStands'
  BY <1>4, <1>8, <1>14 DEF JournalStands
<1>16. StockFollowsPurchases' /\ PayableFollowsPurchases'
  BY <1>4, <1>8, <1>14, QuietPaper
<1>17. ShelvesKept' /\ MoneyKept' /\ LocksKept' /\ AverageWithinCosts'
  BY <1>4 DEF ShelvesKept, MoneyKept, LocksKept, AverageWithinCosts
<1> QED BY <1>10, <1>11, <1>13, <1>15, <1>16, <1>17


\* Shelves, documents and money that nobody touches keep what is said of them.
LEMMA NothingMoves ==
    ASSUME PurchasesInv, UNCHANGED <<paper, counter, stock, sold, blotted, negative, payable, journal, price>>,
           met' = {} => met = {}
    PROVE  /\ PapersKept' /\ NumbersKept' /\ ShelvesKept' /\ MoneyKept' /\ JournalStands'
           /\ StockFollowsPurchases' /\ PayableFollowsPurchases' /\ AverageWithinCosts'
<1>1. PapersKept' /\ NumbersKept' /\ ShelvesKept' /\ MoneyKept' /\ AverageWithinCosts'
  BY DEF PurchasesInv, PapersKept, NumbersKept, ShelvesKept, MoneyKept, AverageWithinCosts
<1>2. StockFollowsPurchases' /\ PayableFollowsPurchases' /\ JournalStands'
  BY DEF PurchasesInv, StockFollowsPurchases, PayableFollowsPurchases, JournalStands, Received
<1> QED BY <1>1, <1>2

\* A request reads a document; if another is at work on it, the two have met.
LEMMA DocumentRead ==
    ASSUME PurchasesInv, NEW b \in Buyers, NEW d \in Papers, NEW op \in {"line", "finalize", "cancel"},
           ReadPaper(b, d, op, IF op = "cancel" THEN "FINALIZED" ELSE "DRAFT"),
           op = "finalize" => paper[d].lines # <<>>
    PROVE  PurchasesInv'
<1> USE DEF PurchasesInv
<1> DEFINE read == IF op = "cancel" THEN "FINALIZED" ELSE "DRAFT"
<1>1. /\ buyer[b] = Off /\ paper[d].status = read
      /\ buyer' = [buyer EXCEPT ![b] = [op |-> op, doc |-> d, lines |-> paper[d].lines, price |-> 0]]
      /\ met' = IF \E o \in Buyers : buyer[o].doc = d THEN met \cup {d} ELSE met
      /\ UNCHANGED <<paper, counter, stock, sold, blotted, negative, payable, journal, rule, price, held, abreast>>
  BY DEF ReadPaper, shelfVars
<1>2. PICK r : r = [op |-> op, doc |-> d, lines |-> paper[d].lines, price |-> 0]
  OBVIOUS
<1>3. r.op = op /\ r.doc = d /\ r.lines = paper[d].lines /\ r \in BuyerRow
  <2>1. paper[d].lines \in Seq(PaperLine)
    BY DEF PapersKept, PaperRow
  <2> QED BY <1>2, <2>1 DEF BuyerRow
<1>4. /\ buyer' \in [Buyers -> BuyerRow] /\ buyer'[b] = r
      /\ \A c \in Buyers : c # b => buyer'[c] = buyer[c]
  BY <1>1, <1>2, <1>3 DEF RequestsKept
<1>5. Off.op = "none"
  BY DEF Off
<1>6. met' = {} => met = {} /\ \A o \in Buyers : buyer[o].doc # d
  BY <1>1
<1>7. /\ PapersKept' /\ NumbersKept' /\ ShelvesKept' /\ MoneyKept' /\ JournalStands'
      /\ StockFollowsPurchases' /\ PayableFollowsPurchases' /\ AverageWithinCosts'
  BY <1>1, <1>6, NothingMoves
<1>8. RequestsKept'
  <2>1. paper[d].status # "NONE"
    BY <1>1
  <2> QED BY <1>1, <1>3, <1>4, <2>1 DEF RequestsKept
<1>9. ReadStands'
  <2> SUFFICES ASSUME met' = {} PROVE ReadStands'
    BY DEF ReadStands
  <2>1. met = {} /\ \A o \in Buyers : buyer[o].doc # d
    BY <1>6
  <2>2. \A c \in Buyers : buyer'[c].op # "none" =>
           /\ paper[buyer'[c].doc].lines = buyer'[c].lines
           /\ paper[buyer'[c].doc].status = IF buyer'[c].op = "cancel" THEN "FINALIZED" ELSE "DRAFT"
    <3>1. ASSUME NEW c \in Buyers, c # b, buyer'[c].op # "none"
          PROVE  /\ paper[buyer'[c].doc].lines = buyer'[c].lines
                 /\ paper[buyer'[c].doc].status = IF buyer'[c].op = "cancel" THEN "FINALIZED" ELSE "DRAFT"
      BY <1>4, <2>1, <3>1 DEF ReadStands
    <3>2. /\ paper[buyer'[b].doc].lines = buyer'[b].lines
          /\ paper[buyer'[b].doc].status = IF buyer'[b].op = "cancel" THEN "FINALIZED" ELSE "DRAFT"
      BY <1>1, <1>3, <1>4
    <3> QED BY <3>1, <3>2
  <2>3. \A c, e \in Buyers : c # e /\ buyer'[c].op # "none" /\ buyer'[e].op # "none" => buyer'[c].doc # buyer'[e].doc
    BY <1>3, <1>4, <2>1 DEF ReadStands
  <2> QED BY <1>1, <2>2, <2>3 DEF ReadStands
<1>10. LocksKept'
  <2>1. \A w \in Warehouses : held[w] # b \/ held[w] = Nobody
    BY <1>1, <1>5 DEF LocksKept
  <2>2. \A w \in Warehouses : held[w] # Nobody => held[w] \in Buyers /\ buyer'[held[w]] = buyer[held[w]]
    BY <1>4, <2>1 DEF LocksKept
  <2> QED BY <1>1, <2>2 DEF LocksKept
<1> QED BY <1>7, <1>8, <1>9, <1>10

\* The warehouse's row is locked, and the price read.
LEMMA StockLocked ==
    ASSUME PurchasesInv, NEW b \in Buyers, MoveStock(b)
    PROVE  PurchasesInv'
<1> USE DEF PurchasesInv
<1>1. PICK w : w = paper[buyer[b].doc].wh
  OBVIOUS
<1>2. /\ buyer[b].op \in {"finalize", "cancel"} /\ held[w] = Nobody
      /\ held' = [held EXCEPT ![w] = b]
      /\ buyer' = [buyer EXCEPT ![b].price = price]
      /\ abreast' = (abreast \/ \E v \in Warehouses : held[v] # Nobody)
      /\ UNCHANGED <<paper, counter, stock, sold, blotted, negative, payable, journal, rule, price, met>>
  BY <1>1 DEF MoveStock, shelfVars
<1>3. w \in Warehouses
  BY <1>1, <1>2 DEF RequestsKept, PapersKept
<1>4. PICK r : r = [buyer[b] EXCEPT !.price = price]
  OBVIOUS
<1>5. /\ r \in BuyerRow /\ r.op = buyer[b].op /\ r.doc = buyer[b].doc /\ r.lines = buyer[b].lines /\ r.price = price
  <2>1. PICK o \in BuyerRow : o = buyer[b]
    BY DEF RequestsKept
  <2>2. price \in Nat
    BY DEF MoneyKept
  <2> QED BY <1>4, <2>1, <2>2 DEF BuyerRow
<1>6. /\ buyer' \in [Buyers -> BuyerRow] /\ buyer'[b] = r
      /\ \A c \in Buyers : c # b => buyer'[c] = buyer[c]
  BY <1>2, <1>4, <1>5 DEF RequestsKept
<1>7. \A c \in Buyers : buyer'[c].op = buyer[c].op /\ buyer'[c].doc = buyer[c].doc /\ buyer'[c].lines = buyer[c].lines
  BY <1>5, <1>6
<1>8. /\ PapersKept' /\ NumbersKept' /\ ShelvesKept' /\ MoneyKept' /\ JournalStands'
      /\ StockFollowsPurchases' /\ PayableFollowsPurchases' /\ AverageWithinCosts'
  BY <1>2, NothingMoves
<1>9. RequestsKept'
  BY <1>2, <1>6, <1>7 DEF RequestsKept
<1>10. ReadStands'
  BY <1>2, <1>7 DEF ReadStands
<1>11. LocksKept'
  <2>1. /\ held' \in [Warehouses -> Buyers \cup {Nobody}] /\ held'[w] = b
        /\ \A v \in Warehouses : v # w => held'[v] = held[v]
    BY <1>2, <1>3 DEF LocksKept
  <2>2. \A v \in Warehouses : held'[v] # Nobody => held'[v] \in Buyers /\ buyer'[held'[v]].op \in {"finalize", "cancel"}
    BY <1>2, <1>7, <2>1 DEF LocksKept
  <2>3. ASSUME ~abreast'
        PROVE  /\ \A u, v \in Warehouses : held'[u] # Nobody /\ held'[v] # Nobody => u = v
               /\ \A v \in Warehouses : held'[v] # Nobody => buyer'[held'[v]].price = price
    <3>1. \A v \in Warehouses : held[v] = Nobody
      BY <1>2, <2>3
    <3> QED BY <1>5, <1>6, <2>1, <3>1
  <2> QED BY <1>2, <2>1, <2>2, <2>3 DEF LocksKept
<1> QED BY <1>8, <1>9, <1>10, <1>11

\* Who finds no row has only seen that.
LEMMA NoRowFound ==
    ASSUME PurchasesInv, NEW b \in Buyers, FindNoRow(b)
    PROVE  PurchasesInv'
<1>1. UNCHANGED <<paper, counter, stock, sold, blotted, negative, payable, journal, rule, price, buyer, held, met, abreast>>
  BY DEF FindNoRow
<1>2. /\ PapersKept' /\ NumbersKept' /\ ShelvesKept' /\ MoneyKept' /\ JournalStands'
      /\ StockFollowsPurchases' /\ PayableFollowsPurchases' /\ AverageWithinCosts'
  BY <1>1, NothingMoves
<1>3. RequestsKept' /\ ReadStands' /\ LocksKept'
  BY <1>1 DEF PurchasesInv, RequestsKept, ReadStands, LocksKept
<1> QED BY <1>2, <1>3 DEF PurchasesInv

\* A request that fails lets its locks go and changes nothing else.
LEMMA DocumentAborted ==
    ASSUME PurchasesInv, NEW b \in Buyers, AbortDocument(b)
    PROVE  PurchasesInv'
<1> USE DEF PurchasesInv
<1>1. /\ buyer' = [buyer EXCEPT ![b] = Off]
      /\ held' = [w \in Warehouses |-> IF held[w] = b THEN Nobody ELSE held[w]]
      /\ UNCHANGED <<paper, counter, stock, sold, blotted, negative, payable, journal, rule, price, met, abreast>>
  BY DEF AbortDocument
<1>2. Off \in BuyerRow /\ Off.op = "none" /\ Off.doc = Nobody
  BY DEF Off, BuyerRow
<1>3. /\ buyer' \in [Buyers -> BuyerRow] /\ buyer'[b] = Off
      /\ \A c \in Buyers : c # b => buyer'[c] = buyer[c]
  BY <1>1, <1>2 DEF RequestsKept
<1>4. /\ PapersKept' /\ NumbersKept' /\ ShelvesKept' /\ MoneyKept' /\ JournalStands'
      /\ StockFollowsPurchases' /\ PayableFollowsPurchases' /\ AverageWithinCosts'
  BY <1>1, NothingMoves
<1>5. RequestsKept'
  BY <1>1, <1>2, <1>3 DEF RequestsKept
<1>6. ReadStands'
  BY <1>1, <1>2, <1>3 DEF ReadStands
<1>7. LocksKept'
  <2>1. /\ held' \in [Warehouses -> Buyers \cup {Nobody}]
        /\ \A w \in Warehouses : held'[w] # Nobody => held'[w] = held[w] /\ held[w] # b /\ held[w] \in Buyers
    BY <1>1 DEF LocksKept
  <2>2. \A w \in Warehouses : held'[w] # Nobody => held[w] # Nobody /\ buyer'[held'[w]] = buyer[held[w]]
    BY <1>3, <2>1
  <2> QED BY <1>1, <2>1, <2>2 DEF LocksKept
<1> QED BY <1>4, <1>5, <1>6, <1>7

\* A line goes into a draft, which counts for nothing yet.
LEMMA LineAdded ==
    ASSUME PurchasesInv, NEW b \in Buyers, AddLine(b)
    PROVE  PurchasesInv'
<1> USE DEF PurchasesInv
<1>1. PICK q \in Amounts, c \in UnitCosts :
         paper' = [paper EXCEPT ![buyer[b].doc].lines = Append(@, [qty |-> q, cost |-> c])]
  BY DEF AddLine
<1>2. /\ buyer[b].op = "line"
      /\ buyer' = [buyer EXCEPT ![b] = Off]
      /\ UNCHANGED <<counter, stock, sold, blotted, negative, payable, journal, rule, price, held, met, abreast>>
  BY DEF AddLine, shelfVars
<1>3. PICK d \in Papers : d = buyer[b].doc /\ paper[d].status # "NONE"
  BY <1>2 DEF RequestsKept
<1>4. PICK line \in PaperLine : line = [qty |-> q, cost |-> c]
  BY DEF PaperLine
<1>5. PICK r : r = [paper[d] EXCEPT !.lines = Append(@, line)]
  OBVIOUS
<1>6. /\ r \in PaperRow /\ r.type = paper[d].type /\ r.wh = paper[d].wh /\ r.ref = paper[d].ref
      /\ r.status = paper[d].status /\ r.number = paper[d].number
  <2>1. PICK p \in PaperRow : p = paper[d]
    BY DEF PapersKept
  <2>2. Append(p.lines, line) \in Seq(PaperLine)
    BY AddAtEnd DEF PaperRow
  <2>3. PICK l \in Seq(PaperLine) : l = Append(p.lines, line)
    BY <2>2
  <2>4. r = [p EXCEPT !.lines = l]
    BY <1>5, <2>1, <2>3
  <2> QED BY <2>1, <2>4 DEF PaperRow
<1>7. paper' = [paper EXCEPT ![d] = r]
  BY <1>1, <1>3, <1>4, <1>5
<1>8. /\ paper' \in [Papers -> PaperRow] /\ paper'[d] = r
      /\ \A e \in Papers : e # d => paper'[e] = paper[e]
  BY <1>6, <1>7 DEF PapersKept
<1>9. \A e \in Papers : /\ paper'[e].type = paper[e].type /\ paper'[e].wh = paper[e].wh /\ paper'[e].ref = paper[e].ref
                        /\ paper'[e].status = paper[e].status /\ paper'[e].number = paper[e].number
  BY <1>6, <1>8
<1>10. Off \in BuyerRow /\ Off.op = "none" /\ Off.doc = Nobody
  BY DEF Off, BuyerRow
<1>11. /\ buyer' \in [Buyers -> BuyerRow] /\ buyer'[b] = Off
       /\ \A o \in Buyers : o # b => buyer'[o] = buyer[o]
  BY <1>2, <1>10 DEF RequestsKept
<1>12. PapersKept'
  BY <1>8, <1>9 DEF PapersKept
<1>13. NumbersKept'
  BY <1>2, <1>9 DEF NumbersKept
<1>14. RequestsKept'
  BY <1>9, <1>10, <1>11 DEF RequestsKept
<1>15. met = {} => /\ paper[d].status = "DRAFT"
                   /\ \A o \in Buyers : o # b /\ buyer[o].op # "none" => buyer[o].doc # d /\ buyer[o].doc \in Papers
  BY <1>2, <1>3 DEF ReadStands, RequestsKept
<1>16. ReadStands'
  <2>1. ASSUME met = {}, NEW o \in Buyers, buyer'[o].op # "none"
        PROVE  o # b /\ buyer'[o] = buyer[o] /\ buyer[o].op # "none" /\ paper'[buyer[o].doc] = paper[buyer[o].doc]
    BY <1>8, <1>10, <1>11, <1>15, <2>1
  <2> QED BY <1>2, <2>1 DEF ReadStands
<1>17. met = {} => ~Stands(paper[d]) /\ ~Stands(paper'[d])
  BY <1>9, <1>15 DEF Stands
<1>18. JournalStands'
  BY <1>2, <1>8, <1>17 DEF JournalStands
<1>19. StockFollowsPurchases' /\ PayableFollowsPurchases'
  BY <1>2, <1>8, <1>17, QuietPaper
<1>20. ShelvesKept' /\ MoneyKept' /\ AverageWithinCosts'
  BY <1>2 DEF ShelvesKept, MoneyKept, AverageWithinCosts
<1>21. LocksKept'
  <2>1. \A w \in Warehouses : held[w] # Nobody => held[w] \in Buyers /\ held[w] # b
    BY <1>2 DEF LocksKept
  <2>2. \A w \in Warehouses : held[w] # Nobody => buyer'[held[w]] = buyer[held[w]]
    BY <1>11, <2>1
  <2> QED BY <1>2, <2>2 DEF LocksKept
<1> QED BY <1>12, <1>13, <1>14, <1>16, <1>18, <1>19, <1>20, <1>21

\* A sale takes one from the shelf at the average cost.
LEMMA GoodsSold ==
    ASSUME PurchasesInv, NEW w \in Warehouses, Sell(w)
    PROVE  PurchasesInv'
<1> USE DEF PurchasesInv
<1>0. PICK base \in {stock[w], NoShelf} :
         /\ negative \/ base.qty > 0
         /\ stock' = [stock EXCEPT ![w] = [base EXCEPT !.qty = @ - 1]]
         /\ blotted' = IF base # stock[w] THEN blotted \cup {w} ELSE blotted
  BY DEF Sell
<1>1. /\ negative \/ base.qty > 0
      /\ stock' = [stock EXCEPT ![w] = [base EXCEPT !.qty = @ - 1]]
      /\ sold' = [sold EXCEPT ![w] = @ + 1]
      /\ UNCHANGED <<paper, counter, negative, payable, journal, rule, price, buyer, held, met, abreast>>
  BY <1>0 DEF Sell
<1>2. PICK s \in Holding : s = base
  BY <1>0, NoShelfIs DEF ShelvesKept
<1>12. blotted \subseteq blotted' /\ (w \notin blotted' => s = stock[w])
  BY <1>0, <1>2
<1>13. ~negative => s = stock[w]
  BY <1>0, <1>2, NoShelfIs
<1>3. PICK r : r = [s EXCEPT !.qty = @ - 1]
  OBVIOUS
<1>4. r \in Holding /\ r.qty = s.qty - 1 /\ r.avg = s.avg /\ s.qty \in Int
  BY <1>3 DEF Holding
<1>5. /\ stock' \in [Warehouses -> Holding] /\ stock'[w] = r
      /\ \A v \in Warehouses : v # w => stock'[v] = stock[v]
  BY <1>1, <1>2, <1>3, <1>4 DEF ShelvesKept
<1>6. /\ sold' \in [Warehouses -> Nat] /\ sold'[w] = sold[w] + 1 /\ sold[w] \in Nat
      /\ \A v \in Warehouses : v # w => sold'[v] = sold[v]
  BY <1>1 DEF ShelvesKept
<1>7. ShelvesKept'
  BY <1>1, <1>2, <1>4, <1>5, <1>6 DEF ShelvesKept
<1>8. AverageWithinCosts'
  BY <1>1, <1>2, <1>4, <1>5, <1>13 DEF AverageWithinCosts
<1>9. StockFollowsPurchases'
  <2> SUFFICES ASSUME met = {}, NEW v \in Warehouses \ blotted' PROVE stock'[v].qty = Received(v)' - sold'[v]
    BY <1>1 DEF StockFollowsPurchases
  <2>1. Received(v)' = Received(v)
    BY <1>1 DEF Received
  <2>2. stock[v].qty = Received(v) - sold[v]
    BY <1>12 DEF StockFollowsPurchases
  <2>3. Received(v) \in Int
    <3>1. PICK f : f = [d \in Papers |-> OnShelf(paper[d], v)]
      OBVIOUS
    <3>2. \A d \in Papers : paper[d] \in PaperRow
      BY DEF PapersKept
    <3>3. Summable(f)
      BY <3>1, <3>2, AmountsAreInt, PurchasesAssumption DEF Summable
    <3> QED BY <3>1, <3>3, SumIsInt DEF Received
  <2>4. CASE v = w
    BY <1>4, <1>5, <1>6, <1>12, <2>1, <2>2, <2>3, <2>4
  <2>5. CASE v # w
    BY <1>5, <1>6, <2>1, <2>2, <2>5
  <2> QED BY <2>4, <2>5
<1>10. PayableFollowsPurchases' /\ JournalStands'
  BY <1>1 DEF PayableFollowsPurchases, JournalStands
<1>11. PapersKept' /\ NumbersKept' /\ MoneyKept' /\ RequestsKept' /\ ReadStands' /\ LocksKept'
  BY <1>1 DEF PapersKept, NumbersKept, MoneyKept, RequestsKept, ReadStands, LocksKept
<1> QED BY <1>7, <1>8, <1>9, <1>10, <1>11

\* The price after a receipt: of the purchase, in the mode RAISE_ONLY only if
\* that is above what was read.
LEMMA PriceIs ==
    ASSUME PurchasesInv, NEW b \in Buyers, buyer[b].lines # <<>>
    PROVE  /\ PriceAfter(b) \in Nat
           /\ rule.raiseOnly => PriceAfter(b) = price \/ PriceAfter(b) > buyer[b].price
<1> DEFINE ls == buyer[b].lines
           costs == {ls[i].cost * 2 : i \in DOMAIN ls}
<1>1. ls \in Seq(PaperLine)
  BY DEF PurchasesInv, RequestsKept, BuyerRow
<1>2. /\ IsFiniteSet(DOMAIN ls) /\ Len(ls) \in DOMAIN ls
      /\ \A i \in DOMAIN ls : ls[i].cost * 2 \in Nat
  BY <1>1, LinesAre
<1>3. IsFiniteSet(costs) /\ costs # {} /\ \A c \in costs : c \in Nat
  <2>1. IsFiniteSet(costs)
    <3>1. PICK f : f = [i \in DOMAIN ls |-> ls[i].cost * 2]
      OBVIOUS
    <3>2. PICK D : D = DOMAIN ls
      OBVIOUS
    <3>3. f \in Surjection(D, costs)
      BY <3>1, <3>2 DEF Surjection
    <3>4. IsFiniteSet(D)
      BY <1>2, <3>2
    <3> HIDE DEF costs
    <3> QED BY <3>3, <3>4, FS_Surjection
  <2>2. costs # {}
    BY <1>2
  <2>3. \A c \in costs : c \in Nat
    BY <1>2
  <2> QED BY <2>1, <2>2, <2>3
<1>4. Max(costs) \in Nat
  <2>1. \A c \in costs : c \in Int
    BY <1>3
  <2>2. Max(costs) \in costs
    <3> HIDE DEF costs
    <3> QED BY <1>3, <2>1, MaxIs
  <2> QED BY <1>3, <2>2
<1>5. PICK m \in Nat : m = Max(costs)
  BY <1>4
<1>6. PICK n \in Nat : n = ls[Len(ls)].cost * 2
  BY <1>2
<1>7. price \in Nat /\ buyer[b].price \in Nat
  BY DEF PurchasesInv, MoneyKept, RequestsKept, BuyerRow
<1>8. PriceAfter(b) = IF rule.raiseOnly THEN IF m > buyer[b].price THEN m ELSE price ELSE n
  BY <1>5, <1>6 DEF PriceAfter
<1> QED BY <1>7, <1>8

\* Whose goods a document moves.
LEMMA MovesGoods ==
    ASSUME NEW p \in PaperRow, p.ref => p.type = "PURCHASE_INVOICE"
    PROVE  StockAffecting(p) <=> p.type \notin {"DEBIT_NOTE", "PURCHASE_ORDER"} /\ ~p.ref
<1>1. p.type \in {"PURCHASE_ORDER", "GOODS_RECEIPT", "PURCHASE_INVOICE", "PURCHASE_RETURN", "DEBIT_NOTE"}
  <2>1. p.type \in PaperTypes
    BY DEF PaperRow
  <2>2. Types \subseteq {"PURCHASE_ORDER", "GOODS_RECEIPT", "PURCHASE_INVOICE", "PURCHASE_RETURN", "DEBIT_NOTE"}
    BY PurchasesAssumption
  <2> QED BY <2>1, <2>2 DEF PaperTypes
<1>2. p.ref \in BOOLEAN
  BY DEF PaperRow
<1> QED BY <1>1, <1>2 DEF StockAffecting

\* What is left of a document when the request commits.
Closed(b) == [paper[buyer[b].doc] EXCEPT !.status = IF buyer[b].op = "finalize" THEN "FINALIZED" ELSE "CANCELLED"]

\* It keeps everything but its status.
LEMMA ClosedIs ==
    ASSUME PurchasesInv, NEW b \in Buyers, buyer[b].op \in {"finalize", "cancel"}
    PROVE  /\ buyer[b].doc \in Papers /\ paper[buyer[b].doc] \in PaperRow /\ buyer[b].lines \in Seq(PaperLine)
           /\ paper[buyer[b].doc].wh \in Warehouses
           /\ paper[buyer[b].doc].ref => paper[buyer[b].doc].type = "PURCHASE_INVOICE"
           /\ Closed(b) \in PaperRow
           /\ Closed(b).type = paper[buyer[b].doc].type /\ Closed(b).wh = paper[buyer[b].doc].wh
           /\ Closed(b).ref = paper[buyer[b].doc].ref /\ Closed(b).number = paper[buyer[b].doc].number
           /\ Closed(b).lines = paper[buyer[b].doc].lines
           /\ Closed(b).status = IF buyer[b].op = "finalize" THEN "FINALIZED" ELSE "CANCELLED"
<1>1. buyer[b].doc \in Papers /\ paper[buyer[b].doc].status # "NONE" /\ buyer[b].lines \in Seq(PaperLine)
  BY DEF PurchasesInv, RequestsKept, BuyerRow
<1>2. PICK d \in Papers : d = buyer[b].doc
  BY <1>1
<1>3. PICK p \in PaperRow : p = paper[d]
  BY DEF PurchasesInv, PapersKept
<1>4. p.wh \in Warehouses /\ (p.ref => p.type = "PURCHASE_INVOICE")
  BY <1>1, <1>2, <1>3 DEF PurchasesInv, PapersKept
<1>5. PICK st \in PaperStatuses : st = IF buyer[b].op = "finalize" THEN "FINALIZED" ELSE "CANCELLED"
  BY DEF PaperStatuses
<1>6. PICK r : r = [p EXCEPT !.status = st]
  OBVIOUS
<1>7. r \in PaperRow /\ r.type = p.type /\ r.wh = p.wh /\ r.ref = p.ref /\ r.number = p.number /\ r.lines = p.lines /\ r.status = st
  BY <1>6 DEF PaperRow
<1>8. Closed(b) = r
  BY <1>2, <1>3, <1>5, <1>6 DEF Closed
<1> QED BY <1>1, <1>2, <1>3, <1>4, <1>5, <1>7, <1>8

\* The journal a commit writes is the difference it makes to what is owed.
LEMMA BookIs ==
    ASSUME PurchasesInv, NEW b \in Buyers, buyer[b].op \in {"finalize", "cancel"}
    PROVE  /\ Book(paper[buyer[b].doc], b) \in Int
           /\ met = {} => Book(paper[buyer[b].doc], b) = Owed(Closed(b)) - Owed(paper[buyer[b].doc])
           /\ met = {} /\ buyer[b].op = "finalize" => Book(paper[buyer[b].doc], b) = Owed(Closed(b))
<1>1. PICK d \in Papers, p \in PaperRow, r \in PaperRow, ls \in Seq(PaperLine) :
         d = buyer[b].doc /\ p = paper[buyer[b].doc] /\ r = Closed(b) /\ ls = buyer[b].lines
  BY ClosedIs
<1>2. /\ r.type = p.type /\ r.lines = p.lines
      /\ r.status = IF buyer[b].op = "finalize" THEN "FINALIZED" ELSE "CANCELLED"
  BY <1>1, ClosedIs
<1>3. PICK n \in Int : n = Total(ls)
  BY CountIsInt
<1>4. PICK j \in Int : j = journal[d]
  BY DEF PurchasesInv, MoneyKept
<1>5. -n \in Int /\ -j \in Int
  OBVIOUS
<1>6. Book(p, b) = IF ~AccountingAffecting(p) THEN 0 ELSE IF buyer[b].op = "cancel" THEN -j
                   ELSE IF ReducesPayable(p) THEN -n ELSE n
  BY <1>1, <1>3, <1>4 DEF Book
<1>7. Book(p, b) \in Int
  BY <1>5, <1>6
<1>8. AccountingAffecting(r) = AccountingAffecting(p) /\ ReducesPayable(r) = ReducesPayable(p)
  BY <1>2 DEF AccountingAffecting, ReducesPayable
<1>9. ASSUME met = {} PROVE p.lines = ls /\ p.status = IF buyer[b].op = "cancel" THEN "FINALIZED" ELSE "DRAFT"
  BY <1>1, <1>9 DEF PurchasesInv, ReadStands
<1>10. ASSUME met = {}, buyer[b].op = "finalize"
       PROVE  Owed(p) = 0 /\ Owed(r) = Book(p, b)
  <2>1. ~Stands(p) /\ Stands(r)
    BY <1>2, <1>9, <1>10 DEF Stands
  <2>2. Owed(p) = 0
    BY <2>1 DEF Owed
  <2>3. Owed(r) = IF AccountingAffecting(p) THEN IF ReducesPayable(p) THEN -n ELSE n ELSE 0
    BY <1>2, <1>3, <1>8, <1>9, <1>10, <2>1 DEF Owed
  <2> QED BY <1>6, <1>10, <2>2, <2>3
<1>11. ASSUME met = {}, buyer[b].op = "cancel"
       PROVE  Owed(r) = 0 /\ Owed(p) = j /\ Book(p, b) = -j
  <2>1. Stands(p) /\ ~Stands(r)
    BY <1>2, <1>9, <1>11 DEF Stands
  <2>2. Owed(r) = 0
    BY <2>1 DEF Owed
  <2>3. Owed(p) = j
    BY <1>1, <1>4, <1>11, <2>1 DEF PurchasesInv, JournalStands
  <2>4. ~AccountingAffecting(p) => j = 0
    BY <2>3 DEF Owed
  <2> QED BY <1>6, <1>11, <2>2, <2>3, <2>4
<1>12. met = {} => Book(p, b) = Owed(r) - Owed(p)
  BY <1>7, <1>10, <1>11
<1>13. met = {} /\ buyer[b].op = "finalize" => Book(p, b) = Owed(r)
  BY <1>10
<1> QED BY <1>1, <1>7, <1>12, <1>13

\* What a commit does to the shelf is what the document puts there or takes back.
LEMMA ShelfIs ==
    ASSUME PurchasesInv, NEW b \in Buyers, buyer[b].op \in {"finalize", "cancel"},
           NEW p, p = paper[buyer[b].doc], NEW after, after = Moved(Base(b), buyer[b].lines, Incoming(b)),
           StockAffecting(p), ~Incoming(b) => negative \/ after.qty >= 0
    PROVE  /\ after \in Holding
           /\ ~negative => after.qty >= 0
           /\ met = {} => after.qty = Base(b).qty + OnShelf(Closed(b), p.wh) - OnShelf(p, p.wh)
           /\ ~negative /\ after.qty > 0 => Between(after.avg, Min(UnitCosts), Max(UnitCosts))
<1>1. PICK r \in PaperRow, ls \in Seq(PaperLine) : r = Closed(b) /\ ls = buyer[b].lines
  BY ClosedIs
<1>2. /\ p \in PaperRow /\ p.wh \in Warehouses /\ (p.ref => p.type = "PURCHASE_INVOICE")
      /\ r.type = p.type /\ r.lines = p.lines /\ r.wh = p.wh /\ r.ref = p.ref
      /\ r.status = IF buyer[b].op = "finalize" THEN "FINALIZED" ELSE "CANCELLED"
  BY <1>1, ClosedIs
<1>0. Base(b) \in {stock[p.wh], NoShelf}
  BY DEF Base
<1>3. PICK s \in Holding : s = Base(b)
  BY <1>0, <1>2, NoShelfIs DEF PurchasesInv, ShelvesKept
<1>4. PICK n \in Int : n = Count(ls)
  BY CountIsInt
<1>5. s.qty \in Int /\ s.avg \in Average /\ (~negative => s.qty >= 0)
  BY <1>0, <1>2, <1>3, NoShelfIs DEF Holding, PurchasesInv, ShelvesKept
<1>6. ~negative /\ s.qty > 0 => Between(s.avg, Min(UnitCosts), Max(UnitCosts))
  BY <1>0, <1>2, <1>3, NoShelfIs DEF PurchasesInv, AverageWithinCosts, Between
<1>7. p.type \notin {"DEBIT_NOTE", "PURCHASE_ORDER"} /\ ~p.ref
  BY <1>2, MovesGoods
<1>8. met = {} => p.lines = ls /\ p.status = IF buyer[b].op = "cancel" THEN "FINALIZED" ELSE "DRAFT"
  BY <1>1 DEF PurchasesInv, ReadStands
<1>9. Incoming(b) <=> ((buyer[b].op = "finalize") = (p.type # "PURCHASE_RETURN"))
  BY DEF Incoming
<1>10. met = {} =>
          /\ OnShelf(r, p.wh) = IF buyer[b].op = "cancel" THEN 0 ELSE IF p.type = "PURCHASE_RETURN" THEN -n ELSE n
          /\ OnShelf(p, p.wh) = IF buyer[b].op # "cancel" THEN 0 ELSE IF p.type = "PURCHASE_RETURN" THEN -n ELSE n
  <2> SUFFICES ASSUME met = {}
               PROVE  /\ OnShelf(r, p.wh) = IF buyer[b].op = "cancel" THEN 0 ELSE IF p.type = "PURCHASE_RETURN" THEN -n ELSE n
                      /\ OnShelf(p, p.wh) = IF buyer[b].op # "cancel" THEN 0 ELSE IF p.type = "PURCHASE_RETURN" THEN -n ELSE n
    OBVIOUS
  <2>1. (Stands(r) <=> buyer[b].op # "cancel") /\ (Stands(p) <=> buyer[b].op = "cancel")
    BY <1>2, <1>8 DEF Stands
  <2> QED BY <1>2, <1>4, <1>7, <1>8, <2>1 DEF OnShelf
<1>11. CASE Incoming(b)
  <2>1. after = Receive(ls, s)
    BY <1>1, <1>3, <1>11 DEF Moved
  <2>2. \A i \in DOMAIN ls : ls[i].cost \in UnitCosts
    BY LinesAre DEF PaperLine
  <2>3. \A i \in DOMAIN ls : Min(UnitCosts) <= ls[i].cost /\ ls[i].cost <= Max(UnitCosts)
    BY <2>2, CostsBetween
  <2>4. after \in Holding /\ after.qty = s.qty + n /\ (s.qty >= 0 => after.qty >= 0)
    BY <1>4, <2>1, ReceiveSound
  <2>5. \A lo, hi \in Int :
                /\ s.qty >= 0
                /\ s.qty > 0 => Between(s.avg, lo, hi)
                /\ \A i \in DOMAIN ls : lo <= ls[i].cost /\ ls[i].cost <= hi
                => (after.qty > 0 => Between(after.avg, lo, hi))
    BY <2>1, ReceiveSound
  <2>6. ~negative /\ after.qty > 0 => Between(after.avg, Min(UnitCosts), Max(UnitCosts))
    <3>1. PICK lo \in Int, hi \in Int : lo = Min(UnitCosts) /\ hi = Max(UnitCosts)
      BY CostsBetween
    <3>2. \A i \in DOMAIN ls : lo <= ls[i].cost /\ ls[i].cost <= hi
      BY <2>3, <3>1
    <3>3. ~negative => s.qty >= 0 /\ (s.qty > 0 => Between(s.avg, lo, hi))
      BY <1>5, <1>6, <3>1
    <3>4. s.qty >= 0 /\ (s.qty > 0 => Between(s.avg, lo, hi)) => (after.qty > 0 => Between(after.avg, lo, hi))
      BY <2>5, <3>2
    <3> QED BY <3>1, <3>3, <3>4
  <2>7. met = {} => OnShelf(r, p.wh) - OnShelf(p, p.wh) = n
    BY <1>9, <1>10, <1>11
  <2>8. met = {} => OnShelf(r, p.wh) \in Int /\ OnShelf(p, p.wh) \in Int
    BY <1>10
  <2>9. met = {} => after.qty = s.qty + OnShelf(r, p.wh) - OnShelf(p, p.wh)
    BY <1>5, <2>4, <2>7, <2>8
  <2> QED BY <1>1, <1>3, <1>5, <2>4, <2>6, <2>9
<1>12. CASE ~Incoming(b)
  <2>1. after = [s EXCEPT !.qty = @ - n]
    BY <1>1, <1>3, <1>4, <1>12 DEF Moved, Issue
  <2>2. after \in Holding /\ after.qty = s.qty - n /\ after.avg = s.avg
    BY <2>1 DEF Holding
  <2>3. ~negative => after.qty >= 0
    BY <1>12
  <2>4. \A i \in DOMAIN ls : ls[i].qty \in Nat
    BY LinesAre
  <2>5. n >= 0
    <3>1. PICK f : f = [i \in DOMAIN ls |-> ls[i].qty]
      OBVIOUS
    <3>2. Summable(f) /\ \A i \in DOMAIN f : f[i] >= 0
      BY <2>4, <3>1, LinesAre DEF Summable
    <3> QED BY <1>4, <3>1, <3>2, SumOfPositive DEF Count
  <2>6. ~negative /\ after.qty > 0 => Between(after.avg, Min(UnitCosts), Max(UnitCosts))
    BY <1>5, <1>6, <2>2, <2>5
  <2>7. met = {} => OnShelf(r, p.wh) - OnShelf(p, p.wh) = -n
    BY <1>9, <1>10, <1>12
  <2>8. met = {} => OnShelf(r, p.wh) \in Int /\ OnShelf(p, p.wh) \in Int
    BY <1>10
  <2>9. met = {} => after.qty = s.qty + OnShelf(r, p.wh) - OnShelf(p, p.wh)
    BY <1>5, <2>2, <2>7, <2>8
  <2> QED BY <1>1, <1>3, <2>2, <2>3, <2>6, <2>9
<1> QED BY <1>11, <1>12

\* The commit of a request that finalises or cancels changes document, shelf and payable together.
LEMMA DocumentCommitted ==
    ASSUME PurchasesInv, NEW b \in Buyers, CommitDocument(b)
    PROVE  PurchasesInv'
<1> USE DEF PurchasesInv
<1>1. PICK d, p, after : d = buyer[b].doc /\ p = paper[d] /\ after = Moved(Base(b), buyer[b].lines, Incoming(b))
  OBVIOUS
<1>2. PICK r : r = Closed(b)
  OBVIOUS
<1>3. /\ buyer[b].op \in {"finalize", "cancel"}
      /\ StockAffecting(p) => Locks(b) # {}
      /\ StockAffecting(p) /\ ~Incoming(b) => negative \/ after.qty >= 0
      /\ stock' = IF StockAffecting(p) THEN [stock EXCEPT ![p.wh] = after] ELSE stock
      /\ blotted' = IF StockAffecting(p) /\ Base(b) # stock[p.wh] THEN blotted \cup {p.wh} ELSE blotted
      /\ price' = IF StockAffecting(p) /\ rule.on /\ buyer[b].op = "finalize" /\ Incoming(b) THEN PriceAfter(b) ELSE price
      /\ payable' = payable + Book(p, b)
      /\ journal' = IF buyer[b].op = "finalize" THEN [journal EXCEPT ![d] = Book(p, b)] ELSE journal
      /\ paper' = [paper EXCEPT ![d].status = IF buyer[b].op = "finalize" THEN "FINALIZED" ELSE "CANCELLED"]
      /\ buyer' = [buyer EXCEPT ![b] = Off]
      /\ held' = [w \in Warehouses |-> IF held[w] = b THEN Nobody ELSE held[w]]
      /\ UNCHANGED <<counter, sold, negative, rule, met, abreast>>
  BY <1>1 DEF CommitDocument
<1>4. /\ d \in Papers /\ p \in PaperRow /\ p.wh \in Warehouses /\ (p.ref => p.type = "PURCHASE_INVOICE")
      /\ r \in PaperRow /\ r.type = p.type /\ r.wh = p.wh /\ r.ref = p.ref /\ r.number = p.number /\ r.lines = p.lines
      /\ r.status = IF buyer[b].op = "finalize" THEN "FINALIZED" ELSE "CANCELLED"
  BY <1>1, <1>2, <1>3, ClosedIs
<1>5. paper' = [paper EXCEPT ![d] = r]
  BY <1>1, <1>2, <1>3 DEF Closed
<1>6. /\ paper \in [Papers -> PaperRow] /\ paper' \in [Papers -> PaperRow] /\ paper'[d] = r
      /\ \A e \in Papers : e # d => paper'[e] = paper[e]
  BY <1>4, <1>5 DEF PapersKept
<1>7. Off \in BuyerRow /\ Off.op = "none" /\ Off.doc = Nobody
  BY DEF Off, BuyerRow
<1>8. /\ buyer' \in [Buyers -> BuyerRow] /\ buyer'[b] = Off
      /\ \A c \in Buyers : c # b => buyer'[c] = buyer[c]
  BY <1>3, <1>7 DEF RequestsKept
<1>9. /\ Book(p, b) \in Int
      /\ met = {} => Book(p, b) = Owed(r) - Owed(p)
      /\ met = {} /\ buyer[b].op = "finalize" => Book(p, b) = Owed(r)
  BY <1>1, <1>2, <1>3, BookIs
<1>10. StockAffecting(p) =>
          /\ after \in Holding
          /\ ~negative => after.qty >= 0
          /\ met = {} => after.qty = Base(b).qty + OnShelf(r, p.wh) - OnShelf(p, p.wh)
          /\ ~negative /\ after.qty > 0 => Between(after.avg, Min(UnitCosts), Max(UnitCosts))
  <2> SUFFICES ASSUME StockAffecting(p)
               PROVE  /\ after \in Holding
                      /\ ~negative => after.qty >= 0
                      /\ met = {} => after.qty = Base(b).qty + OnShelf(r, p.wh) - OnShelf(p, p.wh)
                      /\ ~negative /\ after.qty > 0 => Between(after.avg, Min(UnitCosts), Max(UnitCosts))
    OBVIOUS
  <2>1. p = paper[buyer[b].doc] /\ after = Moved(Base(b), buyer[b].lines, Incoming(b))
    BY <1>1
  <2>2. ~Incoming(b) => negative \/ after.qty >= 0
    BY <1>3
  <2> QED BY <1>2, <1>3, <2>1, <2>2, ShelfIs
<1>11. PapersKept'
  BY <1>4, <1>6 DEF PapersKept
<1>12. NumbersKept'
  <2>1. p.status # "NONE" /\ p = paper[d]
    BY <1>1, <1>3 DEF RequestsKept
  <2>2. \A e \in Papers : /\ paper'[e].type = paper[e].type /\ paper'[e].number = paper[e].number
                          /\ paper'[e].status # "NONE" => paper[e].status # "NONE"
    BY <1>4, <1>6, <2>1
  <2> QED BY <1>3, <2>2 DEF NumbersKept
<1>13. /\ stock' \in [Warehouses -> Holding]
       /\ StockAffecting(p) => stock'[p.wh] = after
       /\ \A w \in Warehouses : w # p.wh \/ ~StockAffecting(p) => stock'[w] = stock[w]
  BY <1>3, <1>4, <1>10 DEF ShelvesKept
<1>14. ShelvesKept'
  BY <1>3, <1>10, <1>13 DEF ShelvesKept
<1>15. AverageWithinCosts'
  BY <1>3, <1>10, <1>13 DEF AverageWithinCosts, Between
<1>16. MoneyKept'
  <2>1. price' \in Nat
    <3>1. CASE buyer[b].op = "finalize"
      <4>1. buyer[b].lines # <<>>
        BY <3>1 DEF RequestsKept
      <4> QED BY <1>3, <4>1, PriceIs DEF MoneyKept
    <3>2. CASE buyer[b].op # "finalize"
      BY <1>3, <3>2 DEF MoneyKept
    <3> QED BY <3>1, <3>2
  <2>2. payable' \in Int /\ journal' \in [Papers -> Int]
    BY <1>3, <1>4, <1>9 DEF MoneyKept
  <2> QED BY <2>1, <2>2 DEF MoneyKept
<1>17. \A e \in Papers : paper[e].status # "NONE" => paper'[e].status # "NONE"
  BY <1>4, <1>6
<1>18. RequestsKept'
  BY <1>7, <1>8, <1>17 DEF RequestsKept
<1>19. ReadStands'
  <2>1. ASSUME met = {}, NEW o \in Buyers, buyer'[o].op # "none"
        PROVE  o # b /\ buyer'[o] = buyer[o] /\ buyer[o].op # "none" /\ paper'[buyer[o].doc] = paper[buyer[o].doc]
    <3>1. o # b /\ buyer'[o] = buyer[o] /\ buyer[o].op # "none"
      BY <1>7, <1>8, <2>1
    <3>2. buyer[o].doc # d /\ buyer[o].doc \in Papers
      BY <1>1, <1>3, <2>1, <3>1 DEF ReadStands, RequestsKept
    <3> QED BY <1>6, <3>1, <3>2
  <2>2. met' = met
    BY <1>3
  <2> QED BY <2>1, <2>2 DEF ReadStands
<1>20. JournalStands'
  <2> SUFFICES ASSUME met = {}, NEW e \in Papers, Stands(paper'[e]) PROVE journal'[e] = Owed(paper'[e])
    BY <1>3 DEF JournalStands
  <2>1. CASE e = d
    <3>1. buyer[b].op = "finalize"
      BY <1>3, <1>4, <1>6, <2>1 DEF Stands
    <3>2. journal'[d] = Book(p, b)
      BY <1>3, <1>4, <3>1 DEF MoneyKept
    <3> QED BY <1>6, <1>9, <2>1, <3>1, <3>2
  <2>2. CASE e # d
    <3>1. journal'[e] = journal[e] /\ paper'[e] = paper[e]
      BY <1>3, <1>4, <1>6, <2>2 DEF MoneyKept
    <3> QED BY <3>1 DEF JournalStands
  <2> QED BY <2>1, <2>2
<1>21. LocksKept'
  <2>1. /\ held' \in [Warehouses -> Buyers \cup {Nobody}]
        /\ \A w \in Warehouses : held'[w] # Nobody => held'[w] = held[w] /\ held[w] # b /\ held[w] \in Buyers
    BY <1>3 DEF LocksKept
  <2>2. \A w \in Warehouses : held'[w] # Nobody => held[w] # Nobody /\ buyer'[held'[w]] = buyer[held[w]]
    BY <1>8, <2>1
  <2>3. ASSUME ~abreast PROVE \A w \in Warehouses : held'[w] # Nobody => price' = price
    <3>1. CASE StockAffecting(p)
      <4>1. PICK v \in Warehouses : held[v] = b
        BY <1>3, <3>1 DEF Locks
      <4>2. b # Nobody
        BY PurchasesAssumption
      <4>3. \A w \in Warehouses : held[w] # Nobody => held[w] = b
        BY <2>3, <4>1, <4>2 DEF LocksKept
      <4> QED BY <2>1, <4>3
    <3>2. CASE ~StockAffecting(p)
      BY <1>3, <3>2
    <3> QED BY <3>1, <3>2
  <2> QED BY <1>3, <2>1, <2>2, <2>3 DEF LocksKept
<1>22. PayableFollowsPurchases'
  <2> SUFFICES ASSUME met = {} PROVE payable' = SumOver([e \in Papers |-> Owed(paper'[e])])
    BY <1>3 DEF PayableFollowsPurchases
  <2>1. PICK q, s : q = paper /\ s = paper'
    OBVIOUS
  <2>2. q \in [Papers -> PaperRow] /\ s \in [Papers -> PaperRow] /\ \A e \in Papers : e # d => s[e] = q[e]
    BY <1>6, <2>1
  <2>3. /\ SumOver([e \in Papers |-> Owed(s[e])])
              = SumOver([e \in Papers |-> Owed(q[e])]) - Owed(q[d]) + Owed(s[d])
        /\ SumOver([e \in Papers |-> Owed(q[e])]) \in Int
    BY <1>4, <2>2, OneOwed
  <2>4. payable = SumOver([e \in Papers |-> Owed(q[e])])
    BY <2>1 DEF PayableFollowsPurchases
  <2>5. q[d] = p /\ s[d] = r /\ Owed(p) \in Int /\ Owed(r) \in Int
    BY <1>1, <1>4, <1>6, <2>1, AmountsAreInt
  <2>6. payable' = payable + (Owed(r) - Owed(p))
    BY <1>3, <1>9
  <2> QED BY <2>1, <2>3, <2>4, <2>5, <2>6
<1>23. StockFollowsPurchases'
  <2> SUFFICES ASSUME met = {}, NEW w \in Warehouses, w \notin blotted'
               PROVE  stock'[w].qty = SumOver([e \in Papers |-> OnShelf(paper'[e], w)]) - sold[w]
    BY <1>3 DEF StockFollowsPurchases, Received
  <2>1. PICK q, s : q = paper /\ s = paper'
    OBVIOUS
  <2>2. q \in [Papers -> PaperRow] /\ s \in [Papers -> PaperRow] /\ \A e \in Papers : e # d => s[e] = q[e]
    BY <1>6, <2>1
  <2>3. /\ SumOver([e \in Papers |-> OnShelf(s[e], w)])
              = SumOver([e \in Papers |-> OnShelf(q[e], w)]) - OnShelf(q[d], w) + OnShelf(s[d], w)
        /\ SumOver([e \in Papers |-> OnShelf(q[e], w)]) \in Int
    BY <1>4, <2>2, OneOnShelf
  <2>0. w \notin blotted /\ (StockAffecting(p) /\ w = p.wh => Base(b) = stock[w])
    BY <1>3
  <2>4. stock[w].qty = SumOver([e \in Papers |-> OnShelf(q[e], w)]) - sold[w]
    BY <2>0, <2>1 DEF StockFollowsPurchases, Received
  <2>5. q[d] = p /\ s[d] = r /\ OnShelf(p, w) \in Int /\ OnShelf(r, w) \in Int /\ sold[w] \in Int
    BY <1>1, <1>4, <1>6, <2>1, AmountsAreInt DEF ShelvesKept
  <2>6. stock'[w].qty = stock[w].qty + OnShelf(r, w) - OnShelf(p, w)
    <3>0. stock[w].qty \in Int
      BY DEF ShelvesKept, Holding
    <3>1. CASE StockAffecting(p) /\ w = p.wh
      BY <1>10, <1>13, <2>0, <3>1
    <3>2. CASE ~StockAffecting(p)
      <4>1. OnShelf(r, w) = 0 /\ OnShelf(p, w) = 0
        <5>1. ~(p.type \notin {"DEBIT_NOTE", "PURCHASE_ORDER"} /\ ~p.ref)
          BY <1>4, <3>2, MovesGoods
        <5> QED BY <1>4, <5>1 DEF OnShelf
      <4> QED BY <1>13, <3>0, <3>2, <4>1
    <3>3. CASE w # p.wh
      <4>1. OnShelf(r, w) = 0 /\ OnShelf(p, w) = 0
        BY <1>4, <3>3 DEF OnShelf
      <4> QED BY <1>13, <3>0, <3>3, <4>1
    <3> QED BY <3>1, <3>2, <3>3
  <2>7. PICK m \in Int : m = SumOver([e \in Papers |-> OnShelf(q[e], w)])
    BY <2>3
  <2>8. SumOver([e \in Papers |-> OnShelf(s[e], w)]) = m - OnShelf(p, w) + OnShelf(r, w) /\ stock[w].qty = m - sold[w]
    BY <2>3, <2>4, <2>5, <2>7
  <2> QED BY <2>1, <2>5, <2>6, <2>8
<1> QED BY <1>11, <1>12, <1>14, <1>15, <1>16, <1>18, <1>19, <1>20, <1>21, <1>22, <1>23

\* Every step of every request keeps the invariant.
LEMMA PurchasesStep == PurchasesInv /\ [PurchasesNext]_purchaseVars => PurchasesInv'
<1> SUFFICES ASSUME PurchasesInv, [PurchasesNext]_purchaseVars PROVE PurchasesInv'
  OBVIOUS
<1>1. ASSUME NEW d \in Papers, CreateDocument(d) PROVE PurchasesInv'
  BY <1>1, DocumentCreated
<1>2. ASSUME NEW b \in Buyers, NEW d \in Papers, BeginLine(b, d) PROVE PurchasesInv'
  <2>1. ReadPaper(b, d, "line", IF "line" = "cancel" THEN "FINALIZED" ELSE "DRAFT")
    BY <1>2 DEF BeginLine
  <2> QED BY <2>1, DocumentRead
<1>3. ASSUME NEW b \in Buyers, NEW d \in Papers, BeginFinalize(b, d) PROVE PurchasesInv'
  <2>1. /\ ReadPaper(b, d, "finalize", IF "finalize" = "cancel" THEN "FINALIZED" ELSE "DRAFT")
        /\ paper[d].lines # <<>>
    BY <1>3 DEF BeginFinalize
  <2> QED BY <2>1, DocumentRead
<1>4. ASSUME NEW b \in Buyers, NEW d \in Papers, BeginCancel(b, d) PROVE PurchasesInv'
  <2>1. ReadPaper(b, d, "cancel", IF "cancel" = "cancel" THEN "FINALIZED" ELSE "DRAFT")
    BY <1>4 DEF BeginCancel
  <2> QED BY <2>1, DocumentRead
<1>5. ASSUME NEW b \in Buyers, AddLine(b) PROVE PurchasesInv'
  BY <1>5, LineAdded
<1>6. ASSUME NEW b \in Buyers, MoveStock(b) PROVE PurchasesInv'
  BY <1>6, StockLocked
<1>7. ASSUME NEW b \in Buyers, CommitDocument(b) PROVE PurchasesInv'
  BY <1>7, DocumentCommitted
<1>8. ASSUME NEW b \in Buyers, AbortDocument(b) PROVE PurchasesInv'
  BY <1>8, DocumentAborted
<1>9. ASSUME NEW w \in Warehouses, Sell(w) PROVE PurchasesInv'
  BY <1>9, GoodsSold
<1>11. ASSUME NEW b \in Buyers, FindNoRow(b) PROVE PurchasesInv'
  BY <1>11, NoRowFound
<1>10. CASE UNCHANGED purchaseVars
  BY <1>10 DEF purchaseVars, PurchasesInv, PapersKept, NumbersKept, ShelvesKept, MoneyKept, RequestsKept,
       ReadStands, JournalStands, LocksKept, StockFollowsPurchases, PayableFollowsPurchases, AverageWithinCosts, Received
<1> QED BY <1>1, <1>2, <1>3, <1>4, <1>5, <1>6, <1>7, <1>8, <1>9, <1>10, <1>11 DEF PurchasesNext

\* So it is an invariant of the specification.
LEMMA PurchasesInvariant == PurchasesSpec => []PurchasesInv
<1>1. PurchasesInit => PurchasesInv
  BY PurchasesStart
<1> QED BY <1>1, PurchasesStep, PTL DEF PurchasesSpec

\* Whatever requests finalise and cancel, in whatever order, the shelf holds
\* what stands received less what was sold, the payable is what stands asks, the
\* average cost lies between the costs, and numbers are given out once (but for
\* documents two requests met on, and shelves whose first movements crossed): for
\* every number of documents, warehouses, requests and lines.
THEOREM PurchasesAreFollowed == PurchasesSpec => []LedgersFollowPurchases
<1>1. PurchasesInv => LedgersFollowPurchases
  <2> SUFFICES ASSUME PurchasesInv PROVE PurchasesTypeOK
    BY DEF PurchasesInv, LedgersFollowPurchases
  <2>1. \A d \in Papers : /\ paper[d].status \in PaperStatuses
                          /\ paper[d].lines \in Seq(PaperLine)
                          /\ paper[d].type \in Types \cup {"PURCHASE_ORDER"}
                          /\ paper[d].number < counter[paper[d].type]
    BY DEF PurchasesInv, PapersKept, NumbersKept, PaperRow, PaperTypes
  <2>2. \A w \in Warehouses : stock[w].qty \in Int /\ stock[w].avg[2] \in Nat \ {0}
    BY DEF PurchasesInv, ShelvesKept, Holding, Average
  <2>3. \A w \in Warehouses : ~negative => stock[w].qty >= 0
    BY DEF PurchasesInv, ShelvesKept
  <2>4. payable \in Int /\ price \in Nat
    BY DEF PurchasesInv, MoneyKept
  <2>5. \A c, d \in Papers : c # d /\ paper[c].type = paper[d].type /\ paper[c].status # "NONE"
                               => paper[c].number # paper[d].number
    BY DEF PurchasesInv, NumbersKept
  <2> QED BY <2>1, <2>2, <2>3, <2>4, <2>5 DEF PurchasesTypeOK
<1> QED BY <1>1, PurchasesInvariant, PTL

\* In the mode RAISE_ONLY no purchase lowers the selling price, as long as no
\* two warehouses were locked at once: who commits held the only lock, so the
\* price is still the one that was read.
THEOREM RaisesStay == PurchasesSpec => RaiseOnlyRaises
<1>1. PurchasesInv /\ [PurchasesNext]_purchaseVars => (rule.raiseOnly /\ ~abreast => price' >= price)
  <2> SUFFICES ASSUME PurchasesInv, [PurchasesNext]_purchaseVars, rule.raiseOnly, ~abreast PROVE price' >= price
    OBVIOUS
  <2>1. price \in Nat
    BY DEF PurchasesInv, MoneyKept
  <2>2. ASSUME NEW b \in Buyers, CommitDocument(b), price' # price PROVE price' >= price
    <3>1. /\ StockAffecting(paper[buyer[b].doc]) /\ Locks(b) # {} /\ buyer[b].op = "finalize"
          /\ price' = PriceAfter(b)
      BY <2>2 DEF CommitDocument
    <3>2. PICK w \in Warehouses : held[w] = b
      BY <3>1 DEF Locks
    <3>3. held[w] # Nobody
      BY <3>2, PurchasesAssumption
    <3>4. buyer[b].price = price
      BY <3>2, <3>3 DEF PurchasesInv, LocksKept
    <3>5. buyer[b].lines # <<>>
      BY <3>1 DEF PurchasesInv, RequestsKept
    <3>6. PriceAfter(b) \in Nat /\ (PriceAfter(b) = price \/ PriceAfter(b) > price)
      BY <3>4, <3>5, PriceIs
    <3> QED BY <2>1, <3>1, <3>6
  <2>3. (\E b \in Buyers : CommitDocument(b)) \/ price' = price
    BY DEF PurchasesNext, purchaseVars, CreateDocument, ReadPaper, BeginLine, BeginFinalize, BeginCancel,
           AddLine, FindNoRow, MoveStock, AbortDocument, Sell
  <2> QED BY <2>1, <2>2, <2>3
<1> QED BY <1>1, PurchasesInvariant, PTL DEF PurchasesSpec, RaiseOnlyRaises

=============================================================================

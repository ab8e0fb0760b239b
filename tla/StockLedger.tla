----------------------------- MODULE StockLedger -----------------------------
(***************************************************************************)
(* The inventory module's stock ledger under concurrent transactions:      *)
(* internal/modules/inventory (app/service.go, pg/pg.go) and the tables of *)
(* migrations/0012 and 0036.                                               *)
(*                                                                         *)
(* A request opens one READ COMMITTED transaction and runs its stock legs  *)
(* in order.  A leg reads the balance row FOR UPDATE, computes in Go, and  *)
(* writes the whole balance back; reading and writing are separate         *)
(* statements and other transactions run in between.  A row that does not  *)
(* exist yet locks nothing when read.                                      *)
(*                                                                         *)
(* Abstractions: a cell is a (warehouse, product variant); quantities are  *)
(* whole base units (unit conversion is done); stock_movements is its      *)
(* signed sum per cell; the cost lots of a cell are their remaining total  *)
(* (prices and weighted average are not modelled); batches and serial      *)
(* numbers are left out; the statements of one Upsert are one step, as     *)
(* nobody sees them before the commit.                                     *)
(***************************************************************************)
EXTENDS Integers, Sequences, FiniteSets, Sums

CONSTANTS
    Cells,         \* (warehouse, product variant)
    Seeded,        \* cells whose stock_balances row exists from the start
    InitialStock,  \* what a seeded cell holds
    Txs,           \* requests, each one transaction
    Reservations,  \* ids of stock_reservations rows
    Adjustments,   \* stock legs of the adjustments users enter, a leg per line
    Documents,     \* stock legs of the documents finalised or cancelled elsewhere
    Quantities,    \* quantities users type in
    None           \* no transaction, no reservation

ASSUME CellsAssumption == Cells # {} /\ Seeded \subseteq Cells
ASSUME StockAssumption == InitialStock \in Nat /\ Quantities \subseteq Nat \ {0}
ASSUME NoneAssumption == None \notin Txs \cup Reservations
ASSUME ReservationsAssumption == IsFiniteSet(Reservations)

VARIABLES
    row,     \* committed stock_balances row, movement sum and cost lots of a cell
    work,    \* the same as its lock holder has changed it, not yet committed
    lock,    \* who holds the cell's row (or its uncommitted insert)
    res,     \* stock_reservations rows
    rlock,   \* who holds a reservation row changed and not yet committed
    policy,  \* stock_policies.allow_negative_stock
    loose,   \* history: cells that have ever allowed negative stock
    astray,  \* history: cells a reservation of which was released in another's name
    pc,      \* each transaction
    todo,    \* the stock legs it has still to run
    seen     \* the balance its current leg read

vars == <<row, work, lock, res, rlock, policy, loose, astray, pc, todo, seen>>

Kinds == {"receipt", "in", "out", "reserve", "release"}
Leg == [kind : Kinds, cell : Cells, qty : Nat, res : Reservations \cup {None}]

\* Adjustments and documents move stock; they do not reserve any.
ASSUME DocumentsAssumption ==
    \A legs \in Adjustments \cup Documents :
        legs \in Seq(Leg) /\ \A i \in DOMAIN legs : legs[i].kind \notin {"reserve", "release"}

Row == [exists : BOOLEAN, onHand : Int, reserved : Int, lots : Int, moved : Int]
Statuses == {"NONE", "creating", "ACTIVE", "releasing", "RELEASED"}
Hold == [status : Statuses, cell : Cells, qty : Nat]

TypeOK ==
    /\ row \in [Cells -> Row]
    /\ work \in [Cells -> Row]
    /\ lock \in [Cells -> Txs \cup {None}]
    /\ res \in [Reservations -> Hold]
    /\ rlock \in [Reservations -> Txs \cup {None}]
    /\ policy \in [Cells -> BOOLEAN]
    /\ loose \in SUBSET Cells
    /\ astray \in SUBSET Cells
    /\ pc \in [Txs -> {"idle", "ready", "marked", "read", "committed", "aborted"}]
    /\ todo \in [Txs -> Seq(Leg)]
    /\ seen \in [Txs -> [onHand : Int, reserved : Int]]

\* What a read of a missing row returns: an implicit zero balance.
NoRow == [exists |-> FALSE, onHand |-> 0, reserved |-> 0, lots |-> 0, moved |-> 0]

\* A seeded cell has had one receipt of InitialStock.
SeedRow == [exists |-> TRUE, onHand |-> InitialStock, reserved |-> 0,
            lots |-> InitialStock, moved |-> InitialStock]

Init ==
    /\ row = [c \in Cells |-> IF c \in Seeded THEN SeedRow ELSE NoRow]
    /\ work = row
    /\ lock = [c \in Cells |-> None]
    /\ res = [r \in Reservations |->
                [status |-> "NONE", cell |-> CHOOSE c \in Cells : TRUE, qty |-> 0]]
    /\ rlock = [r \in Reservations |-> None]
    /\ policy = [c \in Cells |-> FALSE]
    /\ loose = {}
    /\ astray = {}
    /\ pc = [t \in Txs |-> "idle"]
    /\ todo = [t \in Txs |-> <<>>]
    /\ seen = [t \in Txs |-> [onHand |-> 0, reserved |-> 0]]

-----------------------------------------------------------------------------
(* Requests: the stock legs each operation runs, in order *)

Step(kind, c, q, r) == [kind |-> kind, cell |-> c, qty |-> q, res |-> r]

Start(t, legs) ==
    /\ pc[t] = "idle"
    /\ pc' = [pc EXCEPT ![t] = "ready"]
    /\ todo' = [todo EXCEPT ![t] = legs]
    /\ UNCHANGED <<row, work, lock, res, rlock, policy, loose, astray, seen>>

RecordOpeningStock(t) ==
    \E c \in Cells, q \in Quantities : Start(t, <<Step("receipt", c, q, None)>>)

RecordAdjustment(t) == \E legs \in Adjustments : Start(t, legs)

RecordTransfer(t) ==
    \E c, d \in Cells, q \in Quantities :
        c # d /\ Start(t, <<Step("out", c, q, None), Step("in", d, q, None)>>)

\* RecordMovementForOtherModule: a document's lines, inside its transaction.
MoveForDocument(t) == \E legs \in Documents : Start(t, legs)

Reserve(t) ==
    \E c \in Cells, q \in Quantities, r \in Reservations :
        /\ res[r].status = "NONE"
        /\ \A u \in Txs : \A i \in DOMAIN todo[u] : todo[u][i].res # r
        /\ Start(t, <<Step("reserve", c, q, r)>>)

\* The caller names the reservation and the cell, and nothing asks whether the
\* cell is the reservation's.
ReleaseReservation(t) ==
    \E r \in Reservations, c \in Cells :
        /\ res[r].status \in {"ACTIVE", "releasing", "RELEASED"}
        /\ Start(t, <<Step("release", c, 0, r)>>)

SetStockPolicy(c) ==
    /\ policy' = [policy EXCEPT ![c] = ~@]
    /\ loose' = loose \cup {c}
    /\ UNCHANGED <<row, work, lock, res, rlock, astray, pc, todo, seen>>

-----------------------------------------------------------------------------
(* One leg: read, compute, write *)

\* What the transaction sees of a cell: its own changes, else what is committed.
Visible(t, c) == IF lock[c] = t THEN work[c] ELSE row[c]

\* SELECT ... FOR UPDATE waits for another holder of an existing row; a row that
\* is not committed yet is not seen, and nothing is waited for or locked.
CanRead(t, c) == lock[c] \in {t, None} \/ ~row[c].exists

\* Variant: an outward leg needs only that something is left.
PermittedAnyLeft(leg, bal) ==
    CASE leg.kind = "out" -> policy[leg.cell] \/ bal.onHand > 0
      [] leg.kind = "reserve" -> bal.onHand - bal.reserved >= leg.qty
      [] OTHER -> TRUE

\* An outward leg must leave the cell at zero or above unless its policy allows
\* less; a reservation needs what is on hand and not reserved.
Permitted(leg, bal) ==
    CASE leg.kind = "out" -> policy[leg.cell] \/ bal.onHand >= leg.qty
      [] leg.kind = "reserve" -> bal.onHand - bal.reserved >= leg.qty
      [] OTHER -> TRUE

\* UPDATE ... SET status = 'RELEASED' WHERE status = 'ACTIVE', before the
\* balance is read; a row changed by another transaction is waited for.
MarkReleased(t) ==
    LET r == Head(todo[t]).res IN
    /\ pc[t] = "ready" /\ todo[t] # <<>>
    /\ Head(todo[t]).kind = "release"
    /\ rlock[r] = None
    /\ res[r].status = "ACTIVE"
    /\ res' = [res EXCEPT ![r].status = "releasing"]
    /\ rlock' = [rlock EXCEPT ![r] = t]
    /\ astray' = astray \cup {c \in Cells \ {Head(todo[t]).cell} : c = res[r].cell}
    /\ pc' = [pc EXCEPT ![t] = "marked"]
    /\ UNCHANGED <<row, work, lock, policy, loose, todo, seen>>

\* Variant: the balance is read without FOR UPDATE.
ReadUnlocked(t) ==
    LET leg == Head(todo[t])
        bal == Visible(t, leg.cell) IN
    /\ todo[t] # <<>>
    /\ pc[t] = IF leg.kind = "release" THEN "marked" ELSE "ready"
    /\ Permitted(leg, bal)
    /\ seen' = [seen EXCEPT ![t] = [onHand |-> bal.onHand, reserved |-> bal.reserved]]
    /\ pc' = [pc EXCEPT ![t] = "read"]
    /\ UNCHANGED <<row, work, lock, res, rlock, policy, loose, astray, todo>>

\* GetForUpdate and the checks on what it returned.
Read(t) ==
    LET leg == Head(todo[t])
        c == leg.cell
        bal == Visible(t, c) IN
    /\ todo[t] # <<>>
    /\ pc[t] = IF leg.kind = "release" THEN "marked" ELSE "ready"
    /\ CanRead(t, c)
    /\ Permitted(leg, bal)
    /\ lock' = [lock EXCEPT ![c] = IF row[c].exists THEN t ELSE @]
    /\ work' = [work EXCEPT ![c] = IF row[c].exists THEN bal ELSE @]
    /\ seen' = [seen EXCEPT ![t] = [onHand |-> bal.onHand, reserved |-> bal.reserved]]
    /\ pc' = [pc EXCEPT ![t] = "read"]
    /\ UNCHANGED <<row, res, rlock, policy, loose, astray, todo>>

\* Variant: the sum is the one from before the release.
CountedBefore(h, held, t, c) ==
    {r \in Reservations :
        /\ h[r].cell = c
        /\ \/ h[r].status \in {"ACTIVE", "releasing"}
           \/ h[r].status = "creating" /\ held[r] = t}

\* The reservations a transaction counts among h, held[r] being who holds a row:
\* the committed active ones but those it is releasing, and the one it is creating.
CountedBy(h, held, t, c) ==
    {r \in Reservations :
        /\ h[r].cell = c
        /\ \/ h[r].status = "ACTIVE"
           \/ h[r].status = "creating" /\ held[r] = t
           \/ h[r].status = "releasing" /\ held[r] # t}

SumQty(h, rs) == SumOver([r \in rs |-> h[r].qty])

\* The leg's effect on the movement sum, and on the lots: a receipt adds one, an
\* outward leg draws them down as far as they go, other inward legs add none.
Signed(leg) ==
    CASE leg.kind \in {"receipt", "in"} -> leg.qty
      [] leg.kind = "out" -> -leg.qty
      [] OTHER -> 0

\* Variant: outward legs leave the lots alone.
LotsNeverDrawn(leg, lots) == IF leg.kind = "receipt" THEN lots + leg.qty ELSE lots

LotsAfter(leg, lots) ==
    CASE leg.kind = "receipt" -> lots + leg.qty
      [] leg.kind = "out" -> IF lots > leg.qty THEN lots - leg.qty ELSE 0
      [] OTHER -> lots

\* The movement insert, the cost lots and the Upsert of the whole balance as it
\* was read plus this leg.  The insert of a missing row and the update of an
\* existing one both wait for another transaction's uncommitted row; then the
\* conflicting update puts this transaction's values over the committed ones.
WriteMovement(t) ==
    LET leg == Head(todo[t])
        c == leg.cell
        base == Visible(t, c) IN
    /\ pc[t] = "read"
    /\ leg.kind \in {"receipt", "in", "out"}
    /\ lock[c] \in {t, None}
    /\ lock' = [lock EXCEPT ![c] = t]
    /\ work' = [work EXCEPT ![c] =
                  [exists |-> TRUE,
                   onHand |-> seen[t].onHand + Signed(leg),
                   reserved |-> seen[t].reserved,
                   lots |-> LotsAfter(leg, base.lots),
                   moved |-> base.moved + Signed(leg)]]
    /\ todo' = [todo EXCEPT ![t] = Tail(@)]
    /\ pc' = [pc EXCEPT ![t] = "ready"]
    /\ UNCHANGED <<row, res, rlock, policy, loose, astray, seen>>

\* The reservation insert (on Reserve), SumActive and the Upsert.
WriteReserved(t) ==
    LET leg == Head(todo[t])
        c == leg.cell
        base == Visible(t, c) IN
    /\ pc[t] = "read"
    /\ leg.kind \in {"reserve", "release"}
    /\ lock[c] \in {t, None}
    /\ IF leg.kind = "reserve"
         THEN /\ res' = [res EXCEPT ![leg.res] =
                           [status |-> "creating", cell |-> c, qty |-> leg.qty]]
              /\ rlock' = [rlock EXCEPT ![leg.res] = t]
         ELSE UNCHANGED <<res, rlock>>
    /\ lock' = [lock EXCEPT ![c] = t]
    /\ work' = [work EXCEPT ![c] =
                  [exists |-> TRUE, onHand |-> seen[t].onHand,
                   reserved |-> SumQty(res', CountedBy(res', rlock', t, c)),
                   lots |-> base.lots, moved |-> base.moved]]
    /\ todo' = [todo EXCEPT ![t] = Tail(@)]
    /\ pc' = [pc EXCEPT ![t] = "ready"]
    /\ UNCHANGED <<row, policy, loose, astray, seen>>

-----------------------------------------------------------------------------
(* The end of a transaction *)

Unlocked(t) ==
    /\ lock' = [c \in Cells |-> IF lock[c] = t THEN None ELSE lock[c]]
    /\ rlock' = [r \in Reservations |-> IF rlock[r] = t THEN None ELSE rlock[r]]

\* A reservation row's status once its transaction has committed.
AfterCommit ==
    [status \in Statuses |->
        CASE status = "creating" -> "ACTIVE" [] status = "releasing" -> "RELEASED"
          [] OTHER -> status]

\* And once it has rolled back.
AfterAbort ==
    [status \in Statuses |->
        CASE status = "creating" -> "NONE" [] status = "releasing" -> "ACTIVE"
          [] OTHER -> status]

Ended(t, after) ==
    [r \in Reservations |->
        IF rlock[r] = t THEN [res[r] EXCEPT !.status = after[@]] ELSE res[r]]

Commit(t) ==
    /\ pc[t] = "ready"
    /\ todo[t] = <<>>
    /\ pc' = [pc EXCEPT ![t] = "committed"]
    /\ row' = [c \in Cells |-> IF lock[c] = t THEN work[c] ELSE row[c]]
    /\ res' = Ended(t, AfterCommit)
    /\ Unlocked(t)
    /\ UNCHANGED <<work, policy, loose, astray, todo, seen>>

\* A refused leg, the victim of a deadlock, a lost connection.
Abort(t) ==
    /\ pc[t] \in {"ready", "marked", "read"}
    /\ pc' = [pc EXCEPT ![t] = "aborted"]
    /\ todo' = [todo EXCEPT ![t] = <<>>]
    /\ res' = Ended(t, AfterAbort)
    /\ Unlocked(t)
    /\ UNCHANGED <<row, work, policy, loose, astray, seen>>

Request(t) ==
    \/ RecordOpeningStock(t)
    \/ RecordAdjustment(t)
    \/ RecordTransfer(t)
    \/ MoveForDocument(t)
    \/ Reserve(t)
    \/ ReleaseReservation(t)

Run(t) ==
    \/ MarkReleased(t)
    \/ Read(t)
    \/ WriteMovement(t)
    \/ WriteReserved(t)
    \/ Commit(t)
    \/ Abort(t)

Next ==
    \/ \E t \in Txs : Request(t) \/ Run(t)
    \/ \E c \in Cells : SetStockPolicy(c)

Spec == Init /\ [][Next]_vars

-----------------------------------------------------------------------------
(* Properties *)

\* stock_balances is the projection of stock_movements (0012:164-168): for a
\* cell whose row exists, no interleaving of requests loses or repeats a
\* movement in the balance.
SeededBalanceIsLedger == \A c \in Seeded : row[c].onHand = row[c].moved

\* The last unit is not sold twice (service.go:237-240): a cell that never
\* allowed negative stock never goes below zero, however many requests race.
NeverOversold == \A c \in Seeded \ loose : row[c].onHand >= 0

\* quantity_reserved is the sum of the active reservations, though movements
\* write it back from what they read and reservations recompute it; but not where
\* a release named another cell, whose sum it then made (service.go:601-618).
ReservedIsSum ==
    \A c \in Seeded \ astray :
        row[c].reserved =
            SumQty(res, {r \in Reservations : res[r].cell = c /\ res[r].status \in {"ACTIVE", "releasing"}})

\* The priced lots never claim more than is on the shelf, although transfers in,
\* returns and adjustments add stock without a lot.
LotsWithinStock ==
    \A c \in Seeded \ loose : row[c].lots >= 0 /\ row[c].lots <= row[c].onHand

\* The reserved quantity is the sum of the active reservations, unless a release
\* named the wrong cell, and the cost lots never hold more than the stock, in
\* every state of the types above.
ReservationsAndLots == TypeOK /\ ReservedIsSum /\ LotsWithinStock
=============================================================================

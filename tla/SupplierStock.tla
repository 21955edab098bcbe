------------------------------ MODULE SupplierStock ------------------------------
(***************************************************************************)
(* The supplier side of the stock saga: the products with their total and  *)
(* reserved stock, the reservations with their items, the handler of stock *)
(* commands with its inbox (reservation.py, stock_lifecycle.py,            *)
(* stock_consumer.py) and the supplier's own edits of a product (main.py). *)
(*                                                                         *)
(* Every action is one database transaction that holds the locks of the    *)
(* reservation and of its products.  A command whose inbox row is          *)
(* PROCESSED or DLQ changes nothing and is not an action.                  *)
(***************************************************************************)
EXTENDS StockChannel

CONSTANTS
  InitialStock,  \* InitialStock[p]: units of p in the warehouses at the start
  Listings,      \* what a product edit may set: records of active and owned
  Totals         \* the warehouse totals a recalculation may find

ASSUME StockAssumption ==
  /\ InitialStock \in [Product -> Nat]
  /\ Listings \subseteq [active : BOOLEAN, owned : BOOLEAN]
  /\ Totals \subseteq Nat

VARIABLES
  products,       \* the products rows
  reservations,   \* the stock_reservations rows, one per order at most
  held,           \* held[o][p]: reserved_quantity of the item p of o's reservation
  supplierInbox   \* stock commands whose inbox row is PROCESSED

stockVars == <<products, reservations, held>>
supplierVars == <<products, reservations, held, supplierInbox>>

\* active: is_active and not is_archived; owned: supplier_id is that of the
\* orders.
ProductRow == [stocks : Nat, reserved : Nat, active : BOOLEAN, owned : BOOLEAN]

ReservationStatus == {"NONE", "RESERVED", "REJECTED", "FINALIZED", "RELEASED"}

\* A reservation's id is that of the command that created it.
Reservation == [status : ReservationStatus, id : Nat, finalization_id : Nat]

SupplierTypeOK ==
  /\ products \in [Product -> ProductRow]
  /\ reservations \in [Order -> Reservation]
  /\ held \in [Order -> [Product -> Nat]]
  /\ supplierInbox \subseteq Command

SupplierInit ==
  /\ products = [p \in Product |->
       [stocks |-> InitialStock[p], reserved |-> 0, active |-> TRUE, owned |-> TRUE]]
  /\ reservations = [o \in Order |->
       [status |-> "NONE", id |-> NoId, finalization_id |-> NoId]]
  /\ held = [o \in Order |-> [p \in Product |-> 0]]
  /\ supplierInbox = {}

Available(p) == products[p].stocks - products[p].reserved

-----------------------------------------------------------------------------
(* The inbox and the answer: one event per handled command. *)

Accept(c, type) ==
  /\ c \in commands
  /\ c.type = type
  /\ Delivered(c)
  /\ c \notin supplierInbox
  /\ supplierInbox' = supplierInbox \cup {c}
  /\ UNCHANGED <<commands, abandoned>>

Answer(c, type, reservation_id, reason) ==
  events' = events \cup
    {[type |-> type, order |-> c.order, cause |-> c.id,
      reservation_id |-> reservation_id, request_id |-> c.request_id,
      reason |-> reason]}

\* The id an answer to a lifecycle command names.
AnsweredId(c) ==
  IF reservations[c.order].status = "NONE" THEN c.reservation_id
                                           ELSE reservations[c.order].id

-----------------------------------------------------------------------------
(* StockReservationRequested: all items or none. *)

ItemRefusal(p, quantity) ==
  IF ~products[p].owned THEN "SUPPLIER_MISMATCH"
  ELSE IF ~products[p].active THEN "PRODUCT_UNAVAILABLE"
  ELSE IF Available(p) < quantity THEN "INSUFFICIENT_STOCK"
  ELSE NoReason

\* Mutant: the check passes as soon as one item is available.
OneItemAvailable(o) == \E p \in Items(o) : ItemRefusal(p, Demand[o][p]) = NoReason

AllItemsAvailable(o) == \A p \in Items(o) : ItemRefusal(p, Demand[o][p]) = NoReason

\* The deadline may have passed or not; the items come in any order, so any
\* refused item may be the one that is reported.
Refusals(o) ==
  {"RESERVATION_DEADLINE_EXPIRED"}
    \cup ({ItemRefusal(p, Demand[o][p]) : p \in Items(o)} \ {NoReason})

ReserveStock(c) ==
  LET o == c.order
  IN  /\ Accept(c, "StockReservationRequested")
      /\ reservations[o].status = "NONE"
      /\ AllItemsAvailable(o)
      /\ products' = [p \in Product |->
           [products[p] EXCEPT !.reserved = @ + Demand[o][p]]]
      /\ reservations' = [reservations EXCEPT ![o] =
           [status |-> "RESERVED", id |-> c.id, finalization_id |-> NoId]]
      /\ held' = [held EXCEPT ![o] = Demand[o]]
      /\ Answer(c, "StockReservationSucceeded", c.id, NoReason)

RefuseReservation(c) ==
  LET o == c.order
  IN  /\ Accept(c, "StockReservationRequested")
      /\ reservations[o].status = "NONE"
      /\ reservations' = [reservations EXCEPT ![o] =
           [status |-> "REJECTED", id |-> c.id, finalization_id |-> NoId]]
      /\ \E reason \in Refusals(o) :
           Answer(c, "StockReservationFailed", NoId, reason)
      /\ UNCHANGED <<products, held>>

-----------------------------------------------------------------------------
(* StockFinalizationRequested and StockReleaseRequested *)

\* Every item is still the supplier's and its reserved quantity is still in
\* the product's reserved stock (and, to finalize, in its total).
ItemsIntact(o) ==
  \A p \in Items(o) :
    /\ products[p].owned
    /\ held[o][p] > 0
    /\ products[p].reserved >= held[o][p]

Deductible(o) ==
  ItemsIntact(o) /\ \A p \in Items(o) : products[p].stocks >= held[o][p]

Mismatched(c) ==
  /\ c.reservation_id # NoId
  /\ c.reservation_id # reservations[c.order].id

FinalizationRefusal(c) ==
  LET r == reservations[c.order]
  IN  IF r.status = "NONE" THEN "RESERVATION_NOT_FOUND"
      ELSE IF Mismatched(c) THEN "RESERVATION_MISMATCH"
      ELSE IF r.status = "FINALIZED"
           THEN IF r.finalization_id = c.request_id THEN NoReason
                ELSE "RESERVATION_ALREADY_TERMINAL"
      ELSE IF r.status # "RESERVED" THEN "RESERVATION_NOT_ACTIVE"
      ELSE IF ~Deductible(c.order) THEN "STOCK_INVARIANT_VIOLATION"
      ELSE NoReason

ReleaseRefusal(c) ==
  LET r == reservations[c.order]
  IN  IF r.status = "NONE" THEN NoReason
      ELSE IF Mismatched(c) THEN "RESERVATION_MISMATCH"
      ELSE IF r.status \in {"RELEASED", "REJECTED"} THEN NoReason
      ELSE IF r.status = "FINALIZED" THEN "UNKNOWN_RESERVATION_STATE"
      ELSE IF ~ItemsIntact(c.order) THEN "STOCK_INVARIANT_VIOLATION"
      ELSE NoReason

Active(o) == reservations[o].status = "RESERVED"

\* Mutants: the deduction forgets one of the two counters.
DeductTotalOnly(row, quantity) == [row EXCEPT !.stocks = @ - quantity]
DeductReservedOnly(row, quantity) == [row EXCEPT !.reserved = @ - quantity]

Deduct(row, quantity) ==
  [row EXCEPT !.stocks = @ - quantity, !.reserved = @ - quantity]

FinalizeStock(c) ==
  LET o == c.order
  IN  /\ Accept(c, "StockFinalizationRequested")
      /\ Active(o)
      /\ FinalizationRefusal(c) = NoReason
      /\ products' = [p \in Product |-> Deduct(products[p], held[o][p])]
      /\ held' = [held EXCEPT ![o] = [p \in Product |-> 0]]
      /\ reservations' = [reservations EXCEPT
           ![o].status = "FINALIZED", ![o].finalization_id = c.request_id]
      /\ Answer(c, "StockFinalized", reservations[o].id, NoReason)

ReleaseStock(c) ==
  LET o == c.order
  IN  /\ Accept(c, "StockReleaseRequested")
      /\ Active(o)
      /\ ReleaseRefusal(c) = NoReason
      /\ products' = [p \in Product |->
           [products[p] EXCEPT !.reserved = @ - held[o][p]]]
      /\ held' = [held EXCEPT ![o] = [p \in Product |-> 0]]
      /\ reservations' = [reservations EXCEPT ![o].status = "RELEASED"]
      /\ Answer(c, "StockReleased", reservations[o].id, NoReason)

\* The answer to a command that moves no stock: already done, nothing to
\* do, or refused.
AnswerFinalization(c) ==
  /\ Accept(c, "StockFinalizationRequested")
  /\ Active(c.order) => FinalizationRefusal(c) # NoReason
  /\ Answer(c, IF FinalizationRefusal(c) = NoReason THEN "StockFinalized"
                                                    ELSE "StockFinalizationFailed",
            AnsweredId(c), FinalizationRefusal(c))
  /\ UNCHANGED stockVars

AnswerRelease(c) ==
  /\ Accept(c, "StockReleaseRequested")
  /\ Active(c.order) => ReleaseRefusal(c) # NoReason
  /\ Answer(c, IF ReleaseRefusal(c) = NoReason THEN "StockReleased"
                                               ELSE "StockReleaseFailed",
            AnsweredId(c), ReleaseRefusal(c))
  /\ UNCHANGED stockVars

-----------------------------------------------------------------------------
(* The supplier edits a product, or stock is counted again. *)

EditProduct(p) ==
  /\ \E l \in Listings :
       products' = [products EXCEPT ![p].active = l.active, ![p].owned = l.owned]
  /\ UNCHANGED <<reservations, held, supplierInbox, channelVars>>

\* Mutant: the new total is not compared with the reserved stock.
RecalculateUnchecked(p) ==
  /\ \E total \in Totals : products' = [products EXCEPT ![p].stocks = total]
  /\ UNCHANGED <<reservations, held, supplierInbox, channelVars>>

\* A total below the reserved stock is answered with 409.
RecalculateStocks(p) ==
  /\ \E total \in Totals :
       /\ total >= products[p].reserved
       /\ products' = [products EXCEPT ![p].stocks = total]
  /\ UNCHANGED <<reservations, held, supplierInbox, channelVars>>

CommandStep(c) ==
  \/ ReserveStock(c)
  \/ RefuseReservation(c)
  \/ FinalizeStock(c)
  \/ ReleaseStock(c)
  \/ AnswerFinalization(c)
  \/ AnswerRelease(c)

SupplierStep ==
  \/ \E c \in commands : CommandStep(c)
  \/ \E p \in Product : EditProduct(p) \/ RecalculateStocks(p)
================================================================================

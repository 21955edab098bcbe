-------------------------------- MODULE Catalogue --------------------------------
(***************************************************************************)
(* One product in supplier-service and its copy in customer-service: the   *)
(* warehouse rows and their total (main.py), the product and stock events  *)
(* (kafka_producer.py), and the projection that kafka_consumers.py keeps   *)
(* from the two topics and from GET /products of supplier-service.         *)
(*                                                                         *)
(* The card of a product is everything the supplier edits about it (name,  *)
(* price, flags); every edit is a new card, and archiving is an edit.      *)
(***************************************************************************)
EXTENDS Naturals, Sequences, Quantities

CONSTANTS
  Warehouse,
  Levels,       \* the quantities a warehouse may be restocked to
  InitialRows,  \* what the warehouses may hold at the start
  Handler,      \* supplier requests that run at the same time
  MaxRequests,  \* bound: supplier requests
  MaxHolds,     \* bound: units reserved at a time, and units sold
  MaxFaults     \* bound: crashes, restarts and failing calls

ASSUME CatalogueAssumption ==
  /\ IsFiniteSet(Warehouse) /\ Warehouse # {}
  /\ Levels \subseteq Nat
  /\ InitialRows \subseteq [Warehouse -> Nat]
  /\ MaxRequests \in Nat /\ MaxHolds \in Nat /\ MaxFaults \in Nat

VARIABLES
  warehouses,     \* the warehouses that exist
  stocked,        \* the warehouses that have a row of the product
  rows,           \* warehouse_products.stocks of the product
  product,        \* the products row; card 0: not created yet
  handler,        \* where each supplier request is
  requests,       \* supplier requests so far
  sold,           \* units finalized
  productEvents,  \* the topic product-events: the full product
  stockEvents,    \* the topic product-stock-events: total_quantity
  projection,     \* the products row of customer-service; card 0: none
  consumer,       \* the consumer thread of customer-service
  committed,      \* its committed offset in each topic
  startup,        \* the synchronisation at the start of customer-service
  past,           \* history: totals the product has had
  anomalies,      \* history: what went wrong
  faults          \* faults so far

supplierVars == <<warehouses, stocked, rows, product, handler, requests, sold, past>>
topicVars == <<productEvents, stockEvents>>
customerVars == <<projection, consumer, committed, startup>>
vars == <<supplierVars, topicVars, customerVars, anomalies, faults>>

Total(r) == SumOf(r)

\* What a warehouse without a row adds to the total.
NoRow == 0
Payload == [card : Nat, stocks : Nat]
NoProduct == [card |-> 0, stocks |-> 0]
PayloadNow == [card |-> product.card, stocks |-> product.stocks]
StockNow == [stocks |-> product.stocks, reserved |-> product.reserved]

Topics == {"PRODUCT", "STOCK"}

HandlerSteps == {"IDLE", "READ", "DELETE", "REFRESH", "SEND_PRODUCT", "SEND_STOCK"}

TypeOK ==
  /\ warehouses \subseteq Warehouse
  /\ stocked \subseteq warehouses
  /\ rows \in [Warehouse -> Nat]
  /\ \A w \in Warehouse \ stocked : rows[w] = NoRow
  /\ product \in [card : Nat, stocks : Nat, reserved : Nat]
  /\ handler \in [Handler ->
       [at : HandlerSteps, warehouse : Warehouse, found : SUBSET Warehouse, row : Nat,
        seen : [stocks : Nat, reserved : Nat], message : Payload]]
  /\ requests \in 0..MaxRequests
  /\ productEvents \in Seq(Payload)
  /\ stockEvents \in Seq(Nat)
  /\ projection \in Payload
  /\ consumer \in [at : {"POLL", "FETCH", "APPLY", "AGAIN", "COMMIT"}, topic : Topics,
                   next : [Topics -> Nat], response : Payload]
  /\ committed \in [Topics -> Nat]
  /\ startup \in [at : {"FETCH", "APPLY", "DONE"}, response : Payload]

Idle ==
  [at |-> "IDLE", warehouse |-> CHOOSE w \in Warehouse : TRUE, found |-> {},
   row |-> NoRow, seen |-> [stocks |-> 0, reserved |-> 0], message |-> NoProduct]

Polling(next) ==
  [at |-> "POLL", topic |-> "PRODUCT", next |-> next, response |-> NoProduct]

\* The product has not been created yet, or it has been and the customers see it.
Init ==
  /\ warehouses = Warehouse
  /\ rows \in InitialRows \cup {[w \in Warehouse |-> NoRow]}
  /\ stocked = {w \in Warehouse : rows[w] # NoRow}
  /\ product = [card |-> IF rows \in InitialRows THEN 1 ELSE 0, stocks |-> Total(rows),
                reserved |-> 0]
  /\ handler = [h \in Handler |-> Idle]
  /\ requests = 0
  /\ sold = 0
  /\ productEvents = <<>>
  /\ stockEvents = <<>>
  /\ projection = PayloadNow
  /\ consumer = Polling([t \in Topics |-> 1])
  /\ committed = [t \in Topics |-> 0]
  /\ startup = [at |-> "FETCH", response |-> NoProduct]
  /\ past = {0, Total(rows)}
  /\ anomalies = {}
  /\ faults = 0

-----------------------------------------------------------------------------
(* Supplier requests *)

At(h, at) == handler[h].at = at

Begin(h) ==
  /\ At(h, "IDLE")
  /\ requests < MaxRequests
  /\ requests' = requests + 1

\* The rows of the product that are in the warehouse.
RowsIn(w) == stocked \cap {w}

SetTotal(total) ==
  /\ product' = [product EXCEPT !.stocks = total]
  /\ past' = past \cup {total}

Publishing(h, total) ==
  handler' = [handler EXCEPT ![h] =
    [Idle EXCEPT !.at = "SEND_STOCK", !.message = [NoProduct EXCEPT !.stocks = total]]]

\* create_product, update_product and delete_product, which archives: the
\* commit, a new read of the row, and the event with all of it.
EditProduct(h) ==
  /\ Begin(h)
  /\ product' = [product EXCEPT !.card = @ + 1]
  /\ handler' = [handler EXCEPT ![h].at = "REFRESH"]
  /\ UNCHANGED <<warehouses, stocked, rows, sold, past, topicVars, customerVars, anomalies,
                 faults>>

RefreshProduct(h) ==
  /\ At(h, "REFRESH")
  /\ handler' = [handler EXCEPT ![h].at = "SEND_PRODUCT", ![h].message = PayloadNow]
  /\ UNCHANGED <<warehouses, stocked, rows, product, requests, sold, past, topicVars,
                 customerVars, anomalies, faults>>

Restocking(w) ==
  [Idle EXCEPT !.at = "READ", !.warehouse = w, !.found = RowsIn(w), !.row = rows[w],
     !.seen = StockNow]

\* restock_products reads the product and the row without a lock ...
ReadForRestock(h) ==
  /\ Begin(h)
  /\ product.card > 0
  /\ \E w \in warehouses : handler' = [handler EXCEPT ![h] = Restocking(w)]
  /\ UNCHANGED <<warehouses, stocked, rows, product, sold, past, topicVars, customerVars,
                 anomalies, faults>>

\* Mutant: the database allows more reserved than there is.
NoConstraint(stocks, reserved) == TRUE

\* The constraint products_reserved_not_above_total.
ReservedAllowed(stocks, reserved) == reserved <= stocks

\* Mutant: the event goes out and the total is not saved.
NotSaved(seen, total) ==
  total >= seen.reserved /\ UNCHANGED <<product, past>>

\* recalculate_product_stocks compares with and writes over what the session
\* has seen of the product, perhaps before the lock: a total that equals the
\* one it has seen is not written.
Recalculate(seen, total) ==
  /\ total >= seen.reserved
  /\ IF total = seen.stocks
     THEN UNCHANGED <<product, past>>
     ELSE SetTotal(total) /\ ReservedAllowed(total, product.reserved)

\* The flush inserts a row where the request has found none, and updates the
\* one it has found unless it has seen it at that level.
RowIsWritten(h, level) == handler[h].found = {} \/ level # handler[h].row

\* The keys of the tables: a row that another request has inserted is not
\* inserted, and one that was deleted, perhaps with its warehouse, not written.
MayWriteRow(h) ==
  LET w == handler[h].warehouse
  IN  w \in warehouses /\ handler[h].found = RowsIn(w)

\* The session has seen its own total, and another request has changed it.
SeenTotalIsStale(h, total) == total = handler[h].seen.stocks /\ product.stocks # total

\* The session counts the row as it has seen it, and another request has
\* changed it.
SeenRowIsStale(h, level) ==
  LET w == handler[h].warehouse
  IN  ~RowIsWritten(h, level) /\ w \in stocked /\ rows[w] # level

\* ... writes the row, and recalculates under the lock of the product.  Of the
\* rows that are there, the session knows the one it has read.
CommitRestock(h) ==
  LET w == handler[h].warehouse
  IN  /\ At(h, "READ")
      /\ \E level \in Levels :
           LET writes == RowIsWritten(h, level)
               restocked == [rows EXCEPT ![w] = level]
               total == Total(IF writes \/ w \in stocked THEN restocked ELSE rows)
           IN  /\ writes => MayWriteRow(h)
               /\ rows' = IF writes THEN restocked ELSE rows
               /\ stocked' = IF writes THEN stocked \cup {w} ELSE stocked
               /\ Recalculate(handler[h].seen, total)
               /\ Publishing(h, total)
               /\ anomalies' = anomalies
                    \cup (IF SeenTotalIsStale(h, total) THEN {"UNWRITTEN"} ELSE {})
                    \cup (IF SeenRowIsStale(h, level) THEN {"MISCOUNTED"} ELSE {})
      /\ UNCHANGED <<warehouses, requests, sold, topicVars, customerVars, faults>>

Deleting(w) == [Idle EXCEPT !.at = "DELETE", !.warehouse = w, !.found = RowsIn(w)]

\* delete_warehouse reads the rows of the warehouse without a lock ...
ReadForDelete(h) ==
  /\ Begin(h)
  /\ \E w \in warehouses : handler' = [handler EXCEPT ![h] = Deleting(w)]
  /\ UNCHANGED <<warehouses, stocked, rows, product, sold, past, topicVars, customerVars,
                 anomalies, faults>>

\* Mutant: the deleted warehouse is still counted.
TotalWith(r, w) == Total(r)

TotalWithout(r, w) == Total([r EXCEPT ![w] = NoRow])

\* ... deletes whatever rows the warehouse has by then, and recalculates, from
\* the product as it is under the lock, the products it has found before.
CommitDelete(h) ==
  LET w == handler[h].warehouse
      total == TotalWithout(rows, w)
  IN  /\ At(h, "DELETE")
      /\ warehouses' = warehouses \ {w}
      /\ stocked' = stocked \ {w}
      /\ rows' = [rows EXCEPT ![w] = NoRow]
      /\ \/ /\ handler[h].found # {}
            /\ Recalculate(StockNow, total)
            /\ Publishing(h, total)
            /\ UNCHANGED anomalies
         \/ /\ handler[h].found = {}
            /\ handler' = [handler EXCEPT ![h] = Idle]
            /\ anomalies' = anomalies \cup (IF w \in stocked THEN {"UNSEEN"} ELSE {})
            /\ UNCHANGED <<product, past>>
      /\ UNCHANGED <<requests, sold, topicVars, customerVars, faults>>

\* 409 for a total below the reserved units, an error of the database, or
\* another product of the request is refused.
RefuseRequest(h) ==
  /\ handler[h].at \in {"READ", "DELETE"}
  /\ handler' = [handler EXCEPT ![h] = Idle]
  /\ UNCHANGED <<warehouses, stocked, rows, product, requests, sold, past, topicVars,
                 customerVars, anomalies, faults>>

-----------------------------------------------------------------------------
(* Reservations, finalizations and releases of the saga *)

ReserveUnit ==
  /\ product.reserved < MaxHolds
  /\ product.stocks > product.reserved
  /\ product' = [product EXCEPT !.reserved = @ + 1]
  /\ UNCHANGED <<sold, past, anomalies>>

\* Mutant: more is released than is reserved.
ReleaseAnyway ==
  /\ product' = [product EXCEPT !.reserved = @ - 1]
  /\ UNCHANGED <<sold, past, anomalies>>

ReleaseUnit ==
  /\ product.reserved > 0
  /\ product' = [product EXCEPT !.reserved = @ - 1]
  /\ UNCHANGED <<sold, past, anomalies>>

\* The total goes down, the warehouse rows stay, and no event is published.
FinalizeUnit ==
  /\ product.reserved > 0 /\ sold < MaxHolds
  /\ product' = [product EXCEPT !.stocks = @ - 1, !.reserved = @ - 1]
  /\ past' = past \cup {product.stocks - 1}
  /\ sold' = sold + 1
  /\ anomalies' = anomalies \cup {"SOLD"}

SagaStep ==
  /\ ReserveUnit \/ ReleaseUnit \/ FinalizeUnit
  /\ UNCHANGED <<warehouses, stocked, rows, handler, requests, topicVars, customerVars, faults>>

-----------------------------------------------------------------------------
(* Events are sent after the commit, without an outbox. *)

SendProduct(h) ==
  LET m == handler[h].message
  IN  /\ At(h, "SEND_PRODUCT")
      /\ productEvents' = Append(productEvents, m)
      /\ anomalies' = anomalies \cup
           (IF \E n \in DOMAIN productEvents : productEvents[n].card > m.card
            THEN {"INVERTED"} ELSE {})
      /\ handler' = [handler EXCEPT ![h] = Idle]
      /\ UNCHANGED <<warehouses, stocked, rows, product, requests, sold, past, stockEvents,
                     customerVars, faults>>

SendStock(h) ==
  /\ At(h, "SEND_STOCK")
  /\ stockEvents' = Append(stockEvents, handler[h].message.stocks)
  /\ handler' = [handler EXCEPT ![h] = Idle]
  /\ UNCHANGED <<warehouses, stocked, rows, product, requests, sold, past, productEvents,
                 customerVars, anomalies, faults>>

Fault ==
  /\ faults < MaxFaults
  /\ faults' = faults + 1

\* supplier-service stops between commit and send, or Kafka is not there.
EventLost(h) ==
  /\ Fault
  /\ handler[h].at \in {"REFRESH", "SEND_PRODUCT", "SEND_STOCK"}
  /\ handler' = [handler EXCEPT ![h] = Idle]
  /\ anomalies' = anomalies \cup {"LOST"}
  /\ UNCHANGED <<warehouses, stocked, rows, product, requests, sold, past, topicVars,
                 customerVars>>

-----------------------------------------------------------------------------
(* The projection *)

\* Mutant: a product that is not known is not inserted.
UpdateOnly(payload) == IF projection.card = 0 THEN projection ELSE payload

\* upsert_product; the response without the product has it deleted.
Upsert(payload) == payload

Length(topic) == IF topic = "PRODUCT" THEN Len(productEvents) ELSE Len(stockEvents)
Current == consumer.next[consumer.topic]

ConsumerGoto(at) == consumer' = [consumer EXCEPT !.at = at]

\* upsert_product_stocks changes nothing for an unknown product.
StocksChange(total) == projection.card > 0 /\ projection.stocks # total

ConsumeProductEvent ==
  /\ consumer.at = "POLL"
  /\ consumer.next["PRODUCT"] <= Length("PRODUCT")
  /\ projection' = Upsert(productEvents[consumer.next["PRODUCT"]])
  /\ consumer' = [consumer EXCEPT !.at = "COMMIT", !.topic = "PRODUCT"]
  /\ UNCHANGED <<supplierVars, topicVars, committed, startup, anomalies, faults>>

\* A stock event that changes nothing makes the consumer synchronise.
ConsumeStockEvent ==
  /\ consumer.at = "POLL"
  /\ consumer.next["STOCK"] <= Length("STOCK")
  /\ LET total == stockEvents[consumer.next["STOCK"]]
     IN  IF StocksChange(total)
         THEN /\ projection' = [projection EXCEPT !.stocks = total]
              /\ consumer' = [consumer EXCEPT !.at = "COMMIT", !.topic = "STOCK"]
         ELSE /\ consumer' = [consumer EXCEPT !.at = "FETCH", !.topic = "STOCK"]
              /\ UNCHANGED projection
  /\ UNCHANGED <<supplierVars, topicVars, committed, startup, anomalies, faults>>

ConsumerFetches ==
  /\ consumer.at = "FETCH"
  /\ consumer' = [consumer EXCEPT !.at = "APPLY", !.response = PayloadNow]
  /\ UNCHANGED <<supplierVars, topicVars, projection, committed, startup, anomalies, faults>>

ConsumerApplies ==
  /\ consumer.at = "APPLY"
  /\ projection' = Upsert(consumer.response)
  /\ consumer' = [consumer EXCEPT !.at = "AGAIN", !.response = NoProduct]
  /\ UNCHANGED <<supplierVars, topicVars, committed, startup, anomalies, faults>>

\* The stock event once more, after the synchronisation.
ConsumeStockEventAgain ==
  /\ consumer.at = "AGAIN"
  /\ projection' = IF StocksChange(stockEvents[Current])
                   THEN [projection EXCEPT !.stocks = stockEvents[Current]]
                   ELSE projection
  /\ ConsumerGoto("COMMIT")
  /\ UNCHANGED <<supplierVars, topicVars, committed, startup, anomalies, faults>>

\* The commit is asynchronous: a restart may come before it has arrived.
CommitOffset ==
  /\ consumer.at = "COMMIT"
  /\ committed' \in {committed, [committed EXCEPT ![consumer.topic] = Current]}
  /\ consumer' = Polling([consumer.next EXCEPT ![consumer.topic] = Current + 1])
  /\ UNCHANGED <<supplierVars, topicVars, projection, startup, anomalies, faults>>

StartupFetches ==
  /\ startup.at = "FETCH"
  /\ startup' = [at |-> "APPLY", response |-> PayloadNow]
  /\ UNCHANGED <<supplierVars, topicVars, projection, consumer, committed, anomalies, faults>>

\* The consumer thread is running already and may be ahead of the response.
StartupApplies ==
  /\ startup.at = "APPLY"
  /\ projection' = Upsert(startup.response)
  /\ startup' = [at |-> "DONE", response |-> NoProduct]
  /\ anomalies' = anomalies \cup
       (IF startup.response.card < projection.card THEN {"OVERTAKEN"} ELSE {})
  /\ UNCHANGED <<supplierVars, topicVars, consumer, committed, faults>>

\* supplier-service does not answer: synchronisation is given up.
FetchFails ==
  /\ Fault
  /\ \/ consumer.at = "FETCH" /\ ConsumerGoto("AGAIN") /\ UNCHANGED startup
     \/ /\ startup.at = "FETCH" /\ startup' = [startup EXCEPT !.at = "DONE"]
        /\ UNCHANGED consumer
  /\ UNCHANGED <<supplierVars, topicVars, projection, committed, anomalies>>

\* An attempt raises and the message is processed from the beginning again.
AttemptFails ==
  /\ Fault
  /\ consumer.at # "POLL"
  /\ consumer' = Polling(consumer.next)
  /\ UNCHANGED <<supplierVars, topicVars, projection, committed, startup, anomalies>>

\* Three attempts have failed: the message is passed over.
MessageDropped ==
  /\ Fault
  /\ consumer.at # "POLL"
  /\ consumer' = Polling([consumer.next EXCEPT ![consumer.topic] = Current + 1])
  /\ anomalies' = anomalies \cup {"LOST"}
  /\ UNCHANGED <<supplierVars, topicVars, projection, committed, startup>>

\* customer-service is started again.
Restart ==
  /\ Fault
  /\ consumer' = Polling([t \in Topics |-> committed[t] + 1])
  /\ startup' = [at |-> "FETCH", response |-> NoProduct]
  /\ UNCHANGED <<supplierVars, topicVars, projection, committed, anomalies>>

-----------------------------------------------------------------------------

Respond(h) ==
  \/ RefreshProduct(h)
  \/ CommitRestock(h)
  \/ CommitDelete(h)
  \/ RefuseRequest(h)
  \/ SendProduct(h)
  \/ SendStock(h)

Consume ==
  \/ ConsumeProductEvent
  \/ ConsumeStockEvent
  \/ ConsumerFetches
  \/ ConsumerApplies
  \/ ConsumeStockEventAgain
  \/ CommitOffset

Synchronise == StartupFetches \/ StartupApplies

Next ==
  \/ \E h \in Handler :
       \/ EditProduct(h) \/ ReadForRestock(h) \/ ReadForDelete(h)
       \/ Respond(h)
       \/ EventLost(h)
  \/ SagaStep
  \/ Consume
  \/ Synchronise
  \/ FetchFails \/ AttemptFails \/ MessageDropped \/ Restart

Spec == Init /\ [][Next]_vars

\* Requests that have begun are answered; the consumer and the start of
\* customer-service do not stop by themselves.
FairSpec ==
  /\ Spec
  /\ \A h \in Handler : WF_vars(Respond(h))
  /\ WF_vars(Consume)
  /\ WF_vars(Synchronise)

-----------------------------------------------------------------------------
(* Properties *)

\* No recount, however stale the product it has compared with, takes stock
\* away that orders have reserved (recalculate_product_stocks).
ReservedWithinTotal == product.reserved <= product.stocks

\* Overlapping restocks and deletions leave the total that of the warehouse
\* rows, with four exceptions: units were sold (finalization leaves the rows);
\* a restock skipped its write because the total it had read before the lock
\* equalled its own; it counted a row as it had read it; or a deletion took a
\* row along that was inserted after it had read the rows.
StockIsWarehouseTotal ==
  anomalies \cap {"SOLD", "UNWRITTEN", "MISCOUNTED", "UNSEEN"} = {} =>
    product.stocks = Total(rows)

\* A customer may see an old total, never one the product has not had: not
\* one that was refused or rolled back (restock_products publishes after
\* the commit).
ShownWasTrue == projection.stocks \in past

\* When the supplier stops editing, the customer comes to see the last card,
\* unless an event was lost, two edits were published in the wrong order, or
\* the startup synchronisation overwrote what the consumer had done meanwhile
\* (start_consumers before sync_products_from_supplier).
CardConverges ==
  <>[](anomalies \cap {"LOST", "INVERTED", "OVERTAKEN"} # {}
         \/ projection.card = product.card)
================================================================================

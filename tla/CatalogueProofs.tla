----------------------------- MODULE CatalogueProofs -----------------------------
(***************************************************************************)
(* What customers are shown was true: for any warehouses, quantities,      *)
(* requests, faults and interleavings, the stock in the projection is a    *)
(* total that the product has had.                                         *)
(*                                                                         *)
(* The argument follows a total from the product through every place that  *)
(* may hold a copy of it: what an overlapping restock has read, the        *)
(* message of a request, the two topics, the answers of supplier-service   *)
(* and the projection.  The set of past totals only grows, so a copy may   *)
(* be as late as it likes.                                                 *)
(***************************************************************************)
EXTENDS Catalogue, QuantitiesProofs, SequenceTheorems

\* A product as it was at some time.
Known == [card : Nat, stocks : past]

ProductKnown ==
  /\ 0 \in past
  /\ warehouses \subseteq Warehouse
  /\ rows \in [Warehouse -> Nat]
  /\ product \in [card : Nat, stocks : past, reserved : Int]

\* What a request holds: the warehouse and the row it has found there, the
\* product as it was when it was read, and the message it will send.
RequestKnown ==
  [at : HandlerSteps, warehouse : Warehouse \cup {Idle.warehouse}, found : SUBSET Warehouse, row : Nat,
   seen : [stocks : past, reserved : Int], message : Known]

HandlersKnown == handler \in [Handler -> RequestKnown]

TopicsKnown ==
  /\ productEvents \in Seq(Known)
  /\ stockEvents \in Seq(past)

ConsumerKnown ==
  /\ consumer \in [at : {"POLL", "FETCH", "APPLY", "AGAIN", "COMMIT"}, topic : Topics,
                   next : [Topics -> Nat \ {0}], response : Known]
  /\ committed \in [Topics -> Nat]

\* A stock event that is looked at again is still that of the topic.
EventAtHand ==
  consumer.at \in {"FETCH", "APPLY", "AGAIN"} =>
    consumer.topic = "STOCK" /\ consumer.next["STOCK"] <= Len(stockEvents)

CopiesKnown ==
  /\ projection \in Known
  /\ startup \in [at : {"FETCH", "APPLY", "DONE"}, response : Known]

KnownInvariant ==
  /\ ProductKnown
  /\ HandlersKnown
  /\ TopicsKnown
  /\ ConsumerKnown
  /\ EventAtHand
  /\ CopiesKnown

-----------------------------------------------------------------------------
(* What is known stays known *)

LEMMA KnownGrows ==
  ASSUME past \subseteq past'
  PROVE  Known \subseteq Known'
BY DEF Known

LEMMA NothingIsKnown == ASSUME 0 \in past PROVE NoProduct \in Known
BY DEF NoProduct, Known

LEMMA RequestGrows ==
  ASSUME past \subseteq past'
  PROVE  RequestKnown \subseteq RequestKnown'
BY KnownGrows DEF RequestKnown

LEMMA IdleIsKnown == ASSUME 0 \in past PROVE Idle \in RequestKnown
BY NothingIsKnown DEF Idle, NoRow, RequestKnown, HandlerSteps

LEMMA HandlersStay ==
  ASSUME HandlersKnown, past \subseteq past', UNCHANGED handler
  PROVE  HandlersKnown'
BY RequestGrows DEF HandlersKnown

LEMMA SeqGrows ==
  ASSUME NEW S, NEW T, S \subseteq T, NEW s \in Seq(S)
  PROVE  s \in Seq(T)
OBVIOUS

LEMMA TopicsStay ==
  ASSUME TopicsKnown, past \subseteq past', UNCHANGED topicVars
  PROVE  TopicsKnown'
BY KnownGrows, SeqGrows DEF TopicsKnown, topicVars

LEMMA CustomerStays ==
  ASSUME ConsumerKnown, EventAtHand, CopiesKnown, past \subseteq past', TopicsKnown,
         UNCHANGED <<customerVars, topicVars>>
  PROVE  ConsumerKnown' /\ EventAtHand' /\ CopiesKnown'
BY KnownGrows DEF ConsumerKnown, EventAtHand, CopiesKnown, customerVars, topicVars

\* A step of the customer side leaves the supplier and the topics alone.
LEMMA SupplierStays ==
  ASSUME KnownInvariant, UNCHANGED <<supplierVars, topicVars>>
  PROVE  ProductKnown' /\ HandlersKnown' /\ TopicsKnown' /\ past' = past /\ Known' = Known
BY DEF KnownInvariant, ProductKnown, HandlersKnown, RequestKnown, TopicsKnown, Known, supplierVars,
       topicVars


\* A step of the supplier side.
LEMMA SupplierStep ==
  ASSUME KnownInvariant, past \subseteq past', UNCHANGED <<topicVars, customerVars>>,
         ProductKnown', HandlersKnown'
  PROVE  KnownInvariant'
BY TopicsStay, CustomerStays DEF KnownInvariant

-----------------------------------------------------------------------------
(* Supplier requests *)

\* A step of a request that learns nothing the supplier does not have now.
LEMMA RequestStep ==
  ASSUME KnownInvariant, ProductKnown', past' = past, UNCHANGED <<topicVars, customerVars>>,
         NEW h \in Handler, NEW next \in RequestKnown,
         handler' = [handler EXCEPT ![h] = next]
  PROVE  KnownInvariant'
<1>1. RequestKnown' = RequestKnown
  BY DEF RequestKnown, Known
<1>2. HandlersKnown'
  BY <1>1 DEF KnownInvariant, HandlersKnown
<1> QED
  BY <1>2, SupplierStep

LEMMA EditKnown ==
  ASSUME KnownInvariant, NEW h \in Handler, EditProduct(h)
  PROVE  KnownInvariant'
<1> DEFINE next == [handler[h] EXCEPT !.at = "REFRESH"]
<1>1. past' = past /\ ProductKnown'
  BY DEF EditProduct, KnownInvariant, ProductKnown
<1>2. handler' = [handler EXCEPT ![h] = next] /\ next \in RequestKnown
  BY DEF EditProduct, KnownInvariant, HandlersKnown, RequestKnown, HandlerSteps
<1> HIDE DEF next
<1> QED
  BY <1>1, <1>2, RequestStep DEF EditProduct

LEMMA NowIsKnown ==
  ASSUME KnownInvariant
  PROVE  PayloadNow \in Known /\ StockNow \in [stocks : past, reserved : Int]
BY DEF PayloadNow, StockNow, Known, KnownInvariant, ProductKnown

LEMMA RefreshKnown ==
  ASSUME KnownInvariant, NEW h \in Handler, RefreshProduct(h)
  PROVE  KnownInvariant'
<1> DEFINE next == [handler[h] EXCEPT !.at = "SEND_PRODUCT", !.message = PayloadNow]
<1>1. past' = past /\ ProductKnown'
  BY DEF RefreshProduct, KnownInvariant, ProductKnown
<1>2. handler' = [handler EXCEPT ![h] = next] /\ next \in RequestKnown
  BY NowIsKnown DEF RefreshProduct, KnownInvariant, HandlersKnown, RequestKnown, HandlerSteps
<1> HIDE DEF next
<1> QED
  BY <1>1, <1>2, RequestStep DEF RefreshProduct

LEMMA ReadKnown ==
  ASSUME KnownInvariant, NEW h \in Handler, ReadForRestock(h) \/ ReadForDelete(h)
  PROVE  KnownInvariant'
<1>1. past' = past /\ ProductKnown' /\ UNCHANGED <<topicVars, customerVars>>
  BY DEF ReadForRestock, ReadForDelete, KnownInvariant, ProductKnown
<1>2. \A w \in warehouses : Restocking(w) \in RequestKnown /\ Deleting(w) \in RequestKnown
  <2> SUFFICES ASSUME NEW w \in warehouses
               PROVE  Restocking(w) \in RequestKnown /\ Deleting(w) \in RequestKnown
    OBVIOUS
  <2>1. /\ Idle \in RequestKnown
        /\ w \in Warehouse /\ rows[w] \in Nat
        /\ RowsIn(w) \in SUBSET Warehouse
        /\ StockNow \in [stocks : past, reserved : Int]
    BY IdleIsKnown, NowIsKnown DEF KnownInvariant, ProductKnown, RowsIn
  <2> QED
    BY <2>1 DEF Restocking, Deleting, RequestKnown, HandlerSteps
<1>3. PICK next :
        /\ \E w \in warehouses : next = Restocking(w) \/ next = Deleting(w)
        /\ handler' = [handler EXCEPT ![h] = next]
  BY DEF ReadForRestock, ReadForDelete
<1> QED
  BY <1>1, <1>2, <1>3, RequestStep

\* A request that publishes a total that is known.
LEMMA PublishingKnown ==
  ASSUME KnownInvariant, NEW h \in Handler, NEW total \in past', past \subseteq past',
         Publishing(h, total)
  PROVE  HandlersKnown'
<1>1. 0 \in past'
  BY DEF KnownInvariant, ProductKnown
<1>2. [NoProduct EXCEPT !.stocks = total] \in Known'
  BY DEF NoProduct, Known
<1>3. handler \in [Handler -> RequestKnown']
  BY RequestGrows DEF KnownInvariant, HandlersKnown
<1>4. [Idle EXCEPT !.at = "SEND_STOCK", !.message = [NoProduct EXCEPT !.stocks = total]]
        \in RequestKnown'
  <2>1. Idle \in RequestKnown
    BY IdleIsKnown DEF KnownInvariant, ProductKnown
  <2>2. Idle \in RequestKnown'
    BY <2>1, RequestGrows
  <2> QED
    BY <1>2, <2>2 DEF RequestKnown, HandlerSteps
<1> QED
  BY <1>3, <1>4 DEF Publishing, HandlersKnown

\* A recount makes its total known, or has seen it.
LEMMA RecalculateKnown ==
  ASSUME KnownInvariant, NEW seen \in [stocks : past, reserved : Int], NEW total,
         Recalculate(seen, total)
  PROVE  /\ past \subseteq past'
         /\ total \in past'
         /\ product' \in [card : Nat, stocks : past', reserved : Int]
<1>1. CASE total = seen.stocks
  BY <1>1 DEF Recalculate, KnownInvariant, ProductKnown
<1>2. CASE total # seen.stocks
  BY <1>2 DEF Recalculate, SetTotal, KnownInvariant, ProductKnown
<1> QED
  BY <1>1, <1>2

LEMMA CommitKnown ==
  ASSUME KnownInvariant, NEW h \in Handler, CommitRestock(h)
  PROVE  KnownInvariant'
<1>1. PICK level, total :
        /\ level \in Levels
        /\ rows' = rows \/ rows' = [rows EXCEPT ![handler[h].warehouse] = level]
        /\ Recalculate(handler[h].seen, total)
        /\ Publishing(h, total)
  BY Zenon DEF CommitRestock
<1>2. handler[h].seen \in [stocks : past, reserved : Int]
  BY DEF KnownInvariant, HandlersKnown, RequestKnown
<1>3. /\ past \subseteq past'
      /\ total \in past'
      /\ product' \in [card : Nat, stocks : past', reserved : Int]
  BY <1>1, <1>2, RecalculateKnown
<1>4. HandlersKnown'
  BY <1>1, <1>3, PublishingKnown
<1>5. rows' \in [Warehouse -> Nat]
  BY <1>1, CatalogueAssumption DEF KnownInvariant, ProductKnown
<1>6. ProductKnown'
  BY <1>3, <1>5 DEF CommitRestock, KnownInvariant, ProductKnown
<1> QED
  BY <1>3, <1>4, <1>6, SupplierStep DEF CommitRestock

LEMMA CommitDeleteKnown ==
  ASSUME KnownInvariant, NEW h \in Handler, CommitDelete(h)
  PROVE  KnownInvariant'
<1> DEFINE w == handler[h].warehouse
           total == TotalWithout(rows, w)
<1>1. /\ warehouses' = warehouses \ {w}
      /\ rows' = [rows EXCEPT ![w] = NoRow]
      /\ UNCHANGED <<topicVars, customerVars>>
      /\ \/ Recalculate(StockNow, total) /\ Publishing(h, total)
         \/ handler' = [handler EXCEPT ![h] = Idle] /\ UNCHANGED <<product, past>>
  BY DEF CommitDelete
<1> HIDE DEF total
<1>2. warehouses' \subseteq Warehouse /\ rows' \in [Warehouse -> Nat]
  BY <1>1 DEF KnownInvariant, ProductKnown, NoRow
<1>3. CASE Recalculate(StockNow, total) /\ Publishing(h, total)
  <2>1. /\ past \subseteq past'
        /\ total \in past'
        /\ product' \in [card : Nat, stocks : past', reserved : Int]
    BY <1>3, NowIsKnown, RecalculateKnown
  <2>2. HandlersKnown'
    BY <1>3, <2>1, PublishingKnown
  <2>3. ProductKnown'
    BY <1>2, <2>1 DEF KnownInvariant, ProductKnown
  <2> QED
    BY <1>1, <2>1, <2>2, <2>3, SupplierStep
<1>4. CASE handler' = [handler EXCEPT ![h] = Idle] /\ UNCHANGED <<product, past>>
  <2>1. ProductKnown' /\ Idle \in RequestKnown
    BY <1>2, <1>4, IdleIsKnown DEF KnownInvariant, ProductKnown
  <2> QED
    BY <1>1, <1>4, <2>1, RequestStep
<1> QED
  BY <1>1, <1>3, <1>4

LEMMA RefuseKnown ==
  ASSUME KnownInvariant, NEW h \in Handler, RefuseRequest(h) \/ EventLost(h)
  PROVE  KnownInvariant'
<1>1. past' = past /\ ProductKnown' /\ UNCHANGED <<topicVars, customerVars>>
  BY DEF RefuseRequest, EventLost, KnownInvariant, ProductKnown
<1>2. Idle \in RequestKnown
  BY IdleIsKnown DEF KnownInvariant, ProductKnown
<1>3. handler' = [handler EXCEPT ![h] = Idle]
  BY DEF RefuseRequest, EventLost
<1> QED
  BY <1>1, <1>2, <1>3, RequestStep

LEMMA SagaKnown ==
  ASSUME KnownInvariant, SagaStep
  PROVE  KnownInvariant'
<1>1. past \subseteq past'
  BY DEF SagaStep, ReserveUnit, ReleaseUnit, FinalizeUnit
<1>2. warehouses' = warehouses /\ rows' = rows /\ handler' = handler
  BY DEF SagaStep
<1>3. product' \in [card : Nat, stocks : past', reserved : Int]
  <2>1. CASE ReserveUnit \/ ReleaseUnit
    BY <2>1 DEF ReserveUnit, ReleaseUnit, KnownInvariant, ProductKnown
  <2>2. CASE FinalizeUnit
    <3>1. PICK total :
            /\ product' = [product EXCEPT !.stocks = total, !.reserved = @ - 1]
            /\ past' = past \cup {total}
      BY <2>2, Zenon DEF FinalizeUnit
    <3>2. product \in [card : Nat, stocks : past', reserved : Int] /\ total \in past'
      BY <3>1 DEF KnownInvariant, ProductKnown
    <3>3. product.reserved - 1 \in Int
      BY <3>2
    <3> QED
      BY <3>1, <3>2, <3>3
  <2> QED
    BY <2>1, <2>2 DEF SagaStep
<1>4. ProductKnown'
  BY <1>1, <1>2, <1>3 DEF KnownInvariant, ProductKnown
<1>5. HandlersKnown'
  BY <1>1, <1>2, HandlersStay DEF KnownInvariant
<1> QED
  BY <1>1, <1>4, <1>5, SupplierStep DEF SagaStep

-----------------------------------------------------------------------------
(* Events *)

\* A step that sends an event, whose message is known.
LEMMA SendKnown ==
  ASSUME KnownInvariant, NEW h \in Handler, SendProduct(h) \/ SendStock(h)
  PROVE  KnownInvariant'
<1>1. past' = past /\ ProductKnown' /\ Known' = Known
  BY DEF SendProduct, SendStock, KnownInvariant, ProductKnown, Known
<1>2. handler' = [handler EXCEPT ![h] = Idle]
  BY DEF SendProduct, SendStock
<1>3. HandlersKnown'
  <2>1. Idle \in RequestKnown /\ RequestKnown' = RequestKnown
    BY <1>1, IdleIsKnown DEF KnownInvariant, ProductKnown, RequestKnown
  <2> QED
    BY <1>2, <2>1 DEF KnownInvariant, HandlersKnown
<1>4. handler[h].message \in Known
  BY DEF KnownInvariant, HandlersKnown, RequestKnown
<1>5. handler[h].message.stocks \in past
  BY <1>4 DEF Known
<1>6. TopicsKnown' /\ Len(stockEvents) <= Len(stockEvents')
  <2>1. CASE SendProduct(h)
    BY <1>1, <1>4, <2>1 DEF SendProduct, KnownInvariant, TopicsKnown
  <2>2. CASE SendStock(h)
    BY <1>1, <1>5, <2>2 DEF SendStock, KnownInvariant, TopicsKnown
  <2> QED
    BY <2>1, <2>2
<1>7. UNCHANGED customerVars
  BY DEF SendProduct, SendStock
<1>8. ConsumerKnown' /\ CopiesKnown'
  BY <1>1, <1>7 DEF KnownInvariant, ConsumerKnown, CopiesKnown, customerVars
<1>9. EventAtHand'
  <2>1. Len(stockEvents) \in Nat /\ Len(stockEvents') \in Nat
    BY <1>6 DEF KnownInvariant, TopicsKnown
  <2>2. consumer' = consumer /\ consumer.next["STOCK"] \in Nat
    BY <1>7 DEF customerVars, KnownInvariant, ConsumerKnown, Topics
  <2> QED
    BY <1>6, <2>1, <2>2 DEF KnownInvariant, EventAtHand
<1> QED
  BY <1>1, <1>3, <1>6, <1>8, <1>9 DEF KnownInvariant

-----------------------------------------------------------------------------
(* The projection *)

\* A step of the customer side.
LEMMA CustomerStep ==
  ASSUME KnownInvariant, UNCHANGED <<supplierVars, topicVars>>,
         ConsumerKnown', EventAtHand', CopiesKnown'
  PROVE  KnownInvariant'
BY SupplierStays DEF KnownInvariant

LEMMA ConsumeProductKnown ==
  ASSUME KnownInvariant, ConsumeProductEvent
  PROVE  KnownInvariant'
<1>1. Known' = Known
  BY DEF ConsumeProductEvent, supplierVars, Known
<1>2. productEvents[consumer.next["PRODUCT"]] \in Known
  <2>1. consumer.next["PRODUCT"] \in 1..Len(productEvents)
    BY DEF ConsumeProductEvent, Length, KnownInvariant, ConsumerKnown, TopicsKnown, Topics
  <2> QED
    BY <2>1 DEF KnownInvariant, TopicsKnown
<1>3. ConsumerKnown' /\ EventAtHand' /\ CopiesKnown'
  BY <1>1, <1>2 DEF ConsumeProductEvent, Upsert, KnownInvariant, ConsumerKnown, EventAtHand,
                    CopiesKnown, Topics
<1> QED
  BY <1>3, CustomerStep DEF ConsumeProductEvent

\* The total of the stock event at hand was one of the product.
LEMMA TotalKnown ==
  ASSUME KnownInvariant, consumer.next["STOCK"] <= Len(stockEvents)
  PROVE  stockEvents[consumer.next["STOCK"]] \in past
<1>1. consumer.next["STOCK"] \in 1..Len(stockEvents)
  BY DEF KnownInvariant, ConsumerKnown, TopicsKnown, Topics
<1> QED
  BY <1>1 DEF KnownInvariant, TopicsKnown

LEMMA ConsumeStockKnown ==
  ASSUME KnownInvariant, ConsumeStockEvent
  PROVE  KnownInvariant'
<1> DEFINE total == stockEvents[consumer.next["STOCK"]]
<1>1. Known' = Known /\ UNCHANGED <<stockEvents, committed, startup>>
  BY DEF ConsumeStockEvent, supplierVars, topicVars, Known
<1>2. consumer.next["STOCK"] <= Len(stockEvents) /\ total \in past
  BY TotalKnown DEF ConsumeStockEvent, Length
<1>3. \/ /\ projection' = [projection EXCEPT !.stocks = total]
         /\ consumer' = [consumer EXCEPT !.at = "COMMIT", !.topic = "STOCK"]
      \/ /\ consumer' = [consumer EXCEPT !.at = "FETCH", !.topic = "STOCK"]
         /\ UNCHANGED projection
  BY DEF ConsumeStockEvent
<1> HIDE DEF total
<1>4. CopiesKnown'
  BY <1>1, <1>2, <1>3 DEF KnownInvariant, CopiesKnown, Known
<1>5. ConsumerKnown' /\ EventAtHand'
  BY <1>1, <1>2, <1>3 DEF KnownInvariant, ConsumerKnown, EventAtHand, Topics
<1> QED
  BY <1>4, <1>5, CustomerStep DEF ConsumeStockEvent

LEMMA FetchKnown ==
  ASSUME KnownInvariant, ConsumerFetches \/ ConsumerApplies
  PROVE  KnownInvariant'
<1>1. UNCHANGED <<supplierVars, topicVars, committed, startup>>
  BY DEF ConsumerFetches, ConsumerApplies
<1>2. Known' = Known
  BY <1>1 DEF supplierVars, Known
<1>3. PayloadNow \in Known /\ NoProduct \in Known
  BY NowIsKnown, NothingIsKnown DEF KnownInvariant, ProductKnown
<1>4. ConsumerKnown' /\ EventAtHand' /\ CopiesKnown'
  BY <1>1, <1>2, <1>3 DEF ConsumerFetches, ConsumerApplies, Upsert, topicVars, KnownInvariant,
                          ConsumerKnown, EventAtHand, CopiesKnown
<1> QED
  BY <1>1, <1>4, CustomerStep

LEMMA ConsumeAgainKnown ==
  ASSUME KnownInvariant, ConsumeStockEventAgain
  PROVE  KnownInvariant'
<1>1. Known' = Known /\ UNCHANGED <<stockEvents, committed, startup>>
  BY DEF ConsumeStockEventAgain, supplierVars, topicVars, Known
<1>2. stockEvents[Current] \in past
  BY TotalKnown DEF ConsumeStockEventAgain, Current, KnownInvariant, EventAtHand
<1>3. /\ projection' \in {projection, [projection EXCEPT !.stocks = stockEvents[Current]]}
      /\ consumer' = [consumer EXCEPT !.at = "COMMIT"]
  BY DEF ConsumeStockEventAgain, ConsumerGoto
<1>4. CopiesKnown'
  BY <1>1, <1>2, <1>3 DEF KnownInvariant, CopiesKnown, Known
<1>5. ConsumerKnown' /\ EventAtHand'
  BY <1>1, <1>3 DEF KnownInvariant, ConsumerKnown, EventAtHand
<1> QED
  BY <1>4, <1>5, CustomerStep DEF ConsumeStockEventAgain

\* A consumer that polls holds nothing.
LEMMA PollingKnown ==
  ASSUME KnownInvariant, NEW next \in [Topics -> Nat \ {0}], consumer' = Polling(next),
         Known' = Known, committed' \in [Topics -> Nat]
  PROVE  ConsumerKnown' /\ EventAtHand'
BY NothingIsKnown DEF Polling, KnownInvariant, ProductKnown, ConsumerKnown, EventAtHand, Topics

LEMMA CommitOffsetKnown ==
  ASSUME KnownInvariant, CommitOffset
  PROVE  KnownInvariant'
<1>1. Known' = Known /\ UNCHANGED <<projection, startup>>
  BY DEF CommitOffset, supplierVars, Known
<1>2. /\ [consumer.next EXCEPT ![consumer.topic] = Current + 1] \in [Topics -> Nat \ {0}]
      /\ [committed EXCEPT ![consumer.topic] = Current] \in [Topics -> Nat]
  BY DEF Current, KnownInvariant, ConsumerKnown
<1>3. ConsumerKnown' /\ EventAtHand'
  BY <1>1, <1>2, PollingKnown DEF CommitOffset, KnownInvariant, ConsumerKnown
<1>4. CopiesKnown'
  BY <1>1 DEF KnownInvariant, CopiesKnown
<1> QED
  BY <1>3, <1>4, CustomerStep DEF CommitOffset

LEMMA SynchroniseKnown ==
  ASSUME KnownInvariant, Synchronise
  PROVE  KnownInvariant'
<1>1. UNCHANGED <<supplierVars, topicVars, consumer, committed>>
  BY DEF Synchronise, StartupFetches, StartupApplies
<1>2. Known' = Known
  BY <1>1 DEF supplierVars, Known
<1>3. PayloadNow \in Known /\ NoProduct \in Known
  BY NowIsKnown, NothingIsKnown DEF KnownInvariant, ProductKnown
<1>4. CopiesKnown'
  BY <1>2, <1>3 DEF Synchronise, StartupFetches, StartupApplies, Upsert, KnownInvariant,
                    CopiesKnown
<1>5. ConsumerKnown' /\ EventAtHand'
  BY <1>1, <1>2 DEF topicVars, KnownInvariant, ConsumerKnown, EventAtHand
<1> QED
  BY <1>1, <1>4, <1>5, CustomerStep

LEMMA FetchFailsKnown ==
  ASSUME KnownInvariant, FetchFails
  PROVE  KnownInvariant'
<1>1. UNCHANGED <<supplierVars, topicVars, projection, committed>>
  BY DEF FetchFails
<1>2. Known' = Known
  BY <1>1 DEF supplierVars, Known
<1>3. ConsumerKnown' /\ EventAtHand' /\ CopiesKnown'
  BY <1>1, <1>2 DEF FetchFails, ConsumerGoto, topicVars, KnownInvariant, ConsumerKnown,
                    EventAtHand, CopiesKnown
<1> QED
  BY <1>1, <1>3, CustomerStep

LEMMA ReadingOnKnown ==
  ASSUME KnownInvariant, AttemptFails \/ MessageDropped \/ Restart
  PROVE  KnownInvariant'
<1>1. UNCHANGED <<supplierVars, topicVars, projection, committed>>
  BY DEF AttemptFails, MessageDropped, Restart
<1>2. Known' = Known /\ NoProduct \in Known
  BY <1>1, NothingIsKnown DEF supplierVars, Known, KnownInvariant, ProductKnown
<1>3. PICK next \in [Topics -> Nat \ {0}] : consumer' = Polling(next)
  <2>1. CASE AttemptFails
    BY <2>1 DEF AttemptFails, KnownInvariant, ConsumerKnown
  <2>2. CASE MessageDropped
    <3>1. [consumer.next EXCEPT ![consumer.topic] = Current + 1] \in [Topics -> Nat \ {0}]
      BY DEF Current, KnownInvariant, ConsumerKnown
    <3> QED
      BY <2>2, <3>1 DEF MessageDropped
  <2>3. CASE Restart
    <3>1. [t \in Topics |-> committed[t] + 1] \in [Topics -> Nat \ {0}]
      BY DEF KnownInvariant, ConsumerKnown
    <3> QED
      BY <2>3, <3>1 DEF Restart
  <2> QED
    BY <2>1, <2>2, <2>3
<1>4. ConsumerKnown' /\ EventAtHand'
  BY <1>1, <1>2, <1>3, PollingKnown DEF KnownInvariant, ConsumerKnown
<1>5. CopiesKnown'
  BY <1>1, <1>2 DEF AttemptFails, MessageDropped, Restart, KnownInvariant, CopiesKnown
<1> QED
  BY <1>1, <1>4, <1>5, CustomerStep

-----------------------------------------------------------------------------
(* The theorems *)

\* Every copy of a total, wherever it is on its way from the supplier to the
\* customer, is one that the product has had.
THEOREM Invariance == Spec => []KnownInvariant
<1>1. Init => KnownInvariant
  <2> SUFFICES ASSUME Init PROVE KnownInvariant
    OBVIOUS
  <2>1. 0 \in past /\ NoProduct \in Known
    BY NothingIsKnown DEF Init
  <2>2. ProductKnown /\ PayloadNow \in Known
    <3>1. rows \in [Warehouse -> Nat]
      BY CatalogueAssumption DEF Init, NoRow
    <3>2. product \in [card : Nat, stocks : past, reserved : Int]
      BY DEF Init
    <3> QED
      BY <2>1, <3>1, <3>2 DEF Init, ProductKnown, PayloadNow, Known
  <2>3. HandlersKnown
    BY <2>1, IdleIsKnown DEF Init, HandlersKnown
  <2>4. TopicsKnown
    BY DEF Init, TopicsKnown
  <2>5. ConsumerKnown /\ EventAtHand
    BY <2>1 DEF Init, ConsumerKnown, EventAtHand, Polling, Topics
  <2>6. CopiesKnown
    BY <2>1, <2>2 DEF Init, CopiesKnown
  <2> QED
    BY <2>2, <2>3, <2>4, <2>5, <2>6 DEF KnownInvariant
<1>2. KnownInvariant /\ [Next]_vars => KnownInvariant'
  <2> SUFFICES ASSUME KnownInvariant, [Next]_vars PROVE KnownInvariant'
    OBVIOUS
  <2>1. ASSUME NEW h \in Handler,
               EditProduct(h) \/ ReadForRestock(h) \/ ReadForDelete(h) \/ EventLost(h)
        PROVE  KnownInvariant'
    BY <2>1, EditKnown, ReadKnown, RefuseKnown
  <2>2. ASSUME NEW h \in Handler, Respond(h)
        PROVE  KnownInvariant'
    BY <2>2, RefreshKnown, CommitKnown, CommitDeleteKnown, RefuseKnown, SendKnown DEF Respond
  <2>3. CASE Consume
    BY <2>3, ConsumeProductKnown, ConsumeStockKnown, FetchKnown, ConsumeAgainKnown,
       CommitOffsetKnown DEF Consume
  <2>4. CASE UNCHANGED vars
    BY <2>4, SupplierStays, CustomerStep, CustomerStays DEF vars, KnownInvariant
  <2> QED
    BY <2>1, <2>2, <2>3, <2>4, SagaKnown, SynchroniseKnown, FetchFailsKnown,
       ReadingOnKnown DEF Next
<1> QED
  BY <1>1, <1>2, PTL DEF Spec

\* Customers may see an old total of the product, never one it has not had:
\* not one that a constraint rolled back or a request was refused.
THEOREM ShownIsTrue == Spec => []ShownWasTrue
<1>1. KnownInvariant => ShownWasTrue
  BY DEF KnownInvariant, CopiesKnown, Known, ShownWasTrue
<1> QED
  BY <1>1, Invariance, PTL

-----------------------------------------------------------------------------
(* The stock of the supplier: what has been counted, reserved and sold.     *)

SeenSound == \A h \in Handler : handler[h].seen.reserved \in Nat

\* Only a warehouse that exists has a row, and one without a row adds nothing.
RowsSound ==
  /\ stocked \subseteq warehouses
  /\ \A w \in Warehouse \ stocked : rows[w] = NoRow

StockInvariant ==
  /\ past \subseteq Nat
  /\ product.reserved \in Nat
  /\ SeenSound
  /\ RowsSound
  /\ requests \in 0..MaxRequests
  /\ ReservedWithinTotal
  /\ StockIsWarehouseTotal

\* What the warehouses hold is counted in a natural number.
LEMMA TotalIsNat == ASSUME NEW r \in [Warehouse -> Nat] PROVE Total(r) \in Nat
BY SumIsNat, CatalogueAssumption DEF Total

LEMMA StockFacts ==
  ASSUME KnownInvariant, StockInvariant
  PROVE  /\ product.stocks \in Nat /\ product.reserved \in Nat
         /\ product.reserved <= product.stocks
         /\ product = [card |-> product.card, stocks |-> product.stocks,
                       reserved |-> product.reserved]
         /\ rows \in [Warehouse -> Nat]
BY DEF KnownInvariant, ProductKnown, StockInvariant, ReservedWithinTotal

\* A request that starts afresh or ends has seen nothing.
LEMMA SeenStays ==
  ASSUME KnownInvariant, SeenSound, NEW h \in Handler, NEW x, x.seen.reserved \in Nat,
         handler' = [handler EXCEPT ![h] = x]
  PROVE  SeenSound'
BY DEF KnownInvariant, HandlersKnown, RequestKnown, SeenSound

LEMMA IdleSeen ==
  ASSUME KnownInvariant, SeenSound, NEW h \in Handler, handler' = [handler EXCEPT ![h] = Idle]
  PROVE  SeenSound'
BY SeenStays DEF Idle

LEMMA PublishingSeen ==
  ASSUME KnownInvariant, SeenSound, NEW h \in Handler, NEW total, Publishing(h, total)
  PROVE  SeenSound'
<1> DEFINE x == [Idle EXCEPT !.at = "SEND_STOCK", !.message = [NoProduct EXCEPT !.stocks = total]]
<1>1. x.seen.reserved \in Nat
  BY DEF Idle
<1>2. handler' = [handler EXCEPT ![h] = x]
  BY DEF Publishing
<1> HIDE DEF x
<1> QED
  BY <1>1, <1>2, SeenStays

\* A step that leaves the stock alone.
LEMMA StockStays ==
  ASSUME StockInvariant, UNCHANGED <<warehouses, stocked, rows, product, requests, past>>,
         SeenSound', anomalies \subseteq anomalies'
  PROVE  StockInvariant'
BY DEF StockInvariant, RowsSound, ReservedWithinTotal, StockIsWarehouseTotal

\* A request that is begun is counted.
LEMMA BeginCounts ==
  ASSUME StockInvariant, NEW h \in Handler, Begin(h)
  PROVE  requests' \in 0..MaxRequests
BY CatalogueAssumption DEF StockInvariant, Begin

\* Requests that move no stock (create_product, update_product,
\* delete_product, the first half of the others, and the sends).
LEMMA RequestLeavesStock ==
  ASSUME KnownInvariant, StockInvariant, NEW h \in Handler,
         RefreshProduct(h) \/ RefuseRequest(h) \/ SendProduct(h) \/ SendStock(h) \/ EventLost(h)
  PROVE  StockInvariant'
<1>1. /\ UNCHANGED <<warehouses, stocked, rows, product, requests, past>>
      /\ anomalies \subseteq anomalies'
  BY DEF RefreshProduct, RefuseRequest, SendProduct, SendStock, EventLost
<1>2. SeenSound'
  <2>1. CASE RefreshProduct(h)
    BY <2>1 DEF RefreshProduct, KnownInvariant, HandlersKnown, RequestKnown, StockInvariant,
                SeenSound
  <2>2. CASE RefuseRequest(h) \/ SendProduct(h) \/ SendStock(h) \/ EventLost(h)
    <3>1. handler' = [handler EXCEPT ![h] = Idle]
      BY <2>2 DEF RefuseRequest, SendProduct, SendStock, EventLost
    <3> QED
      BY <3>1, IdleSeen DEF StockInvariant
  <2> QED
    BY <2>1, <2>2
<1> QED
  BY <1>1, <1>2, StockStays

LEMMA EditLeavesStock ==
  ASSUME KnownInvariant, StockInvariant, NEW h \in Handler, EditProduct(h)
  PROVE  StockInvariant'
<1>1. /\ UNCHANGED <<warehouses, stocked, rows, past, anomalies>>
      /\ product'.stocks = product.stocks /\ product'.reserved = product.reserved
  BY DEF EditProduct, KnownInvariant, ProductKnown
<1>2. SeenSound'
  BY DEF EditProduct, KnownInvariant, HandlersKnown, RequestKnown, StockInvariant, SeenSound
<1> QED
  BY <1>1, <1>2, BeginCounts
  DEF EditProduct, StockInvariant, RowsSound, ReservedWithinTotal, StockIsWarehouseTotal

LEMMA ReadLeavesStock ==
  ASSUME KnownInvariant, StockInvariant, NEW h \in Handler, ReadForRestock(h) \/ ReadForDelete(h)
  PROVE  StockInvariant'
<1>1. UNCHANGED <<warehouses, stocked, rows, product, past, anomalies>> /\ Begin(h)
  BY DEF ReadForRestock, ReadForDelete
<1>2. PICK next :
        /\ \E w \in warehouses : next = Restocking(w) \/ next = Deleting(w)
        /\ handler' = [handler EXCEPT ![h] = next]
  BY DEF ReadForRestock, ReadForDelete
<1>3. next.seen.reserved \in Nat
  <2>1. Idle.seen.reserved = 0 /\ StockNow.reserved \in Nat
    BY DEF Idle, StockNow, StockInvariant
  <2>2. \A w : Restocking(w).seen = StockNow /\ Deleting(w).seen = Idle.seen
    BY DEF Restocking, Deleting, Idle
  <2> QED
    BY <1>2, <2>1, <2>2
<1>4. SeenSound'
  BY <1>2, <1>3, SeenStays DEF StockInvariant
<1> QED
  BY <1>1, <1>4, BeginCounts
  DEF StockInvariant, RowsSound, ReservedWithinTotal, StockIsWarehouseTotal

\* A recount that passes leaves a total that is at least what is reserved: it
\* has written its own, which the constraint of the table let pass, or left
\* the one there was.
LEMMA RecalculateKeepsReserved ==
  ASSUME KnownInvariant, StockInvariant, NEW seen, NEW total \in Nat, Recalculate(seen, total)
  PROVE  /\ past' \subseteq Nat
         /\ product'.reserved \in Nat
         /\ ReservedWithinTotal'
         /\ product'.stocks = IF total = seen.stocks THEN product.stocks ELSE total
<1>1. CASE total = seen.stocks
  BY <1>1 DEF Recalculate, StockInvariant, ReservedWithinTotal
<1>2. CASE total # seen.stocks
  BY <1>2, StockFacts
  DEF Recalculate, SetTotal, ReservedAllowed, StockInvariant, ReservedWithinTotal
<1> QED
  BY <1>1, <1>2

\* The second half of a restock.  A restock that has compared its total, and
\* counted its row, as they are leaves the total that of the rows, whatever
\* they were before.
LEMMA CommitKeepsStock ==
  ASSUME KnownInvariant, StockInvariant, NEW h \in Handler, CommitRestock(h)
  PROVE  StockInvariant'
<1> DEFINE w == handler[h].warehouse
           restocked(level) == [rows EXCEPT ![w] = level]
           writes(level) == RowIsWritten(h, level)
           counted(level) == IF writes(level) \/ w \in stocked THEN restocked(level) ELSE rows
           total(level) == Total(counted(level))
<1>1. PICK level \in Levels :
        /\ writes(level) => MayWriteRow(h)
        /\ rows' = IF writes(level) THEN restocked(level) ELSE rows
        /\ stocked' = IF writes(level) THEN stocked \cup {w} ELSE stocked
        /\ Recalculate(handler[h].seen, total(level))
        /\ Publishing(h, total(level))
        /\ anomalies' = anomalies
             \cup (IF SeenTotalIsStale(h, total(level)) THEN {"UNWRITTEN"} ELSE {})
             \cup (IF SeenRowIsStale(h, level) THEN {"MISCOUNTED"} ELSE {})
  BY DEF CommitRestock
<1>2. level \in Nat /\ rows \in [Warehouse -> Nat] /\ warehouses' = warehouses
  BY CatalogueAssumption, StockFacts DEF CommitRestock
<1>3. total(level) \in Nat
  <2>1. counted(level) \in [Warehouse -> Nat]
    BY <1>2
  <2> QED
    BY <2>1, TotalIsNat
<1>4. SeenSound' /\ requests' \in 0..MaxRequests
  BY <1>1, PublishingSeen DEF StockInvariant, CommitRestock
<1>5. RowsSound'
  <2>1. CASE writes(level)
    BY <1>1, <1>2, <2>1 DEF MayWriteRow, StockInvariant, RowsSound
  <2>2. CASE ~writes(level)
    BY <1>1, <1>2, <2>2 DEF StockInvariant, RowsSound
  <2> QED
    BY <2>1, <2>2
<1>6. ~SeenRowIsStale(h, level) => counted(level) = rows'
  <2>1. CASE writes(level) \/ w \notin stocked
    BY <1>1, <2>1
  <2>2. CASE ~writes(level) /\ w \in stocked
    <3>1. ~SeenRowIsStale(h, level) => rows[w] = level
      BY <2>2 DEF SeenRowIsStale
    <3> QED
      BY <1>1, <1>2, <2>2, <3>1
  <2> QED
    BY <2>1, <2>2
<1>7. Total(rows)' = Total(rows')
  BY DEF Total
<1>8. ~SeenRowIsStale(h, level) => total(level) = Total(rows')
  BY <1>6
<1> HIDE DEF total
<1>9. /\ past' \subseteq Nat
      /\ product'.reserved \in Nat
      /\ ReservedWithinTotal'
      /\ ~SeenTotalIsStale(h, total(level)) => product'.stocks = total(level)
  BY <1>1, <1>3, RecalculateKeepsReserved DEF SeenTotalIsStale
<1>10. StockIsWarehouseTotal'
  BY <1>1, <1>7, <1>8, <1>9 DEF StockIsWarehouseTotal
<1> QED
  BY <1>4, <1>5, <1>9, <1>10 DEF StockInvariant

\* The second half of a deletion: it recounts under the lock what it has found
\* before, and where it has found nothing there is nothing to count, unless a
\* row was inserted meanwhile.
LEMMA DeleteKeepsStock ==
  ASSUME KnownInvariant, StockInvariant, NEW h \in Handler, CommitDelete(h)
  PROVE  StockInvariant'
<1> DEFINE w == handler[h].warehouse
           without == [rows EXCEPT ![w] = NoRow]
           total == Total(without)
<1>1. /\ warehouses' = warehouses \ {w} /\ stocked' = stocked \ {w} /\ rows' = without
      /\ requests' = requests
      /\ \/ /\ Recalculate(StockNow, total)
            /\ Publishing(h, total)
         \/ /\ handler' = [handler EXCEPT ![h] = Idle]
            /\ anomalies' = anomalies \cup (IF w \in stocked THEN {"UNSEEN"} ELSE {})
            /\ UNCHANGED <<product, past>>
  BY DEF CommitDelete, TotalWithout
<1>2. rows \in [Warehouse -> Nat] /\ without \in [Warehouse -> Nat]
  BY StockFacts DEF NoRow
<1>3. RowsSound'
  BY <1>1, <1>2 DEF StockInvariant, RowsSound
<1>4. Total(rows)' = Total(rows') /\ total \in Nat
  BY <1>2, TotalIsNat DEF Total
<1>5. CASE Recalculate(StockNow, total) /\ Publishing(h, total)
  <2>1. total = Total(rows)'
    BY <1>1, <1>4
  <2> HIDE DEF total
  <2>2. /\ past' \subseteq Nat /\ product'.reserved \in Nat /\ ReservedWithinTotal'
        /\ product'.stocks = total
    BY <1>4, <1>5, RecalculateKeepsReserved DEF StockNow
  <2> QED
    BY <1>1, <1>3, <1>5, <2>1, <2>2, PublishingSeen DEF StockInvariant, StockIsWarehouseTotal
<1>6. CASE /\ handler' = [handler EXCEPT ![h] = Idle]
           /\ anomalies' = anomalies \cup (IF w \in stocked THEN {"UNSEEN"} ELSE {})
           /\ UNCHANGED <<product, past>>
  <2>1. w \notin stocked => rows' = rows
    BY <1>1, <1>2 DEF StockInvariant, RowsSound
  <2>2. StockIsWarehouseTotal'
    BY <1>4, <1>6, <2>1 DEF StockInvariant, StockIsWarehouseTotal
  <2> QED
    BY <1>1, <1>3, <1>6, <2>2, IdleSeen DEF StockInvariant, ReservedWithinTotal
<1> QED
  BY <1>1, <1>5, <1>6

\* Reservations, releases and finalizations: a unit is taken from both
\* numbers or from one that has it.
LEMMA SagaKeepsStock ==
  ASSUME KnownInvariant, StockInvariant, SagaStep
  PROVE  StockInvariant'
<1>1. UNCHANGED <<warehouses, stocked, rows, handler, requests>>
  BY DEF SagaStep
<1>2. SeenSound' /\ RowsSound' /\ requests' \in 0..MaxRequests
  BY <1>1 DEF StockInvariant, SeenSound, RowsSound
<1>3. CASE ReserveUnit \/ ReleaseUnit
  <2>1. /\ product'.stocks = product.stocks /\ product'.reserved \in Nat
        /\ product'.reserved <= product.stocks
        /\ past' = past /\ anomalies' = anomalies
    BY <1>3, StockFacts DEF ReserveUnit, ReleaseUnit
  <2> QED
    BY <1>1, <1>2, <2>1 DEF StockInvariant, ReservedWithinTotal, StockIsWarehouseTotal
<1>4. CASE FinalizeUnit
  <2>1. /\ product'.stocks = product.stocks - 1 /\ product'.reserved = product.reserved - 1
        /\ product.reserved > 0
        /\ past' = past \cup {product.stocks - 1} /\ "SOLD" \in anomalies'
    BY <1>4, StockFacts DEF FinalizeUnit
  <2>2. product.stocks - 1 \in Nat /\ product.reserved - 1 \in Nat
    BY <2>1, StockFacts
  <2> QED
    BY <1>2, <2>1, <2>2, StockFacts DEF StockInvariant, ReservedWithinTotal, StockIsWarehouseTotal
<1> QED
  BY <1>3, <1>4 DEF SagaStep

\* What the customer side does leaves the supplier alone.
LEMMA CustomerLeavesStock ==
  ASSUME StockInvariant, Consume \/ Synchronise \/ FetchFails \/ AttemptFails
                           \/ MessageDropped \/ Restart \/ UNCHANGED vars
  PROVE  StockInvariant'
<1>1. UNCHANGED supplierVars /\ anomalies \subseteq anomalies'
  BY DEF Consume, ConsumeProductEvent, ConsumeStockEvent, ConsumerFetches, ConsumerApplies,
         ConsumeStockEventAgain, CommitOffset, Synchronise, StartupFetches, StartupApplies,
         FetchFails, AttemptFails, MessageDropped, Restart, vars
<1>2. SeenSound'
  BY <1>1 DEF supplierVars, StockInvariant, SeenSound
<1> QED
  BY <1>1, <1>2, StockStays DEF supplierVars

\* The stock of a product stays sound through overlapping restocks and
\* deletions of warehouses, reservations and sales.
THEOREM StockInvariance == Spec => []StockInvariant
<1>1. Init => StockInvariant
  <2> SUFFICES ASSUME Init PROVE StockInvariant
    OBVIOUS
  <2>1. rows \in [Warehouse -> Nat]
    BY CatalogueAssumption DEF Init, NoRow
  <2>2. Total(rows) \in Nat
    BY <2>1, TotalIsNat
  <2>3. SeenSound
    BY DEF Init, SeenSound, Idle
  <2>4. requests \in 0..MaxRequests /\ RowsSound
    BY CatalogueAssumption DEF Init, RowsSound
  <2> QED
    BY <2>2, <2>3, <2>4 DEF Init, StockInvariant, ReservedWithinTotal, StockIsWarehouseTotal
<1>2. KnownInvariant /\ StockInvariant /\ [Next]_vars => StockInvariant'
  <2> SUFFICES ASSUME KnownInvariant, StockInvariant, [Next]_vars PROVE StockInvariant'
    OBVIOUS
  <2>1. ASSUME NEW h \in Handler,
               EditProduct(h) \/ ReadForRestock(h) \/ ReadForDelete(h)
        PROVE  StockInvariant'
    BY <2>1, EditLeavesStock, ReadLeavesStock
  <2>2. ASSUME NEW h \in Handler, Respond(h) \/ EventLost(h)
        PROVE  StockInvariant'
    BY <2>2, RequestLeavesStock, CommitKeepsStock, DeleteKeepsStock DEF Respond
  <2> QED
    BY <2>1, <2>2, SagaKeepsStock, CustomerLeavesStock DEF Next
<1> QED
  BY <1>1, <1>2, Invariance, PTL DEF Spec

\* The rows of the catalogue, its requests, its topics and its projection are
\* what their types say.
THEOREM TypeCorrect == Spec => []TypeOK
<1>1. KnownInvariant /\ StockInvariant => TypeOK
  <2> SUFFICES ASSUME KnownInvariant, StockInvariant PROVE TypeOK
    OBVIOUS
  <2>1. past \subseteq Nat /\ Known \subseteq Payload
    BY DEF StockInvariant, Known, Payload
  <2>2. /\ warehouses \subseteq Warehouse /\ rows \in [Warehouse -> Nat]
        /\ product \in [card : Nat, stocks : Nat, reserved : Nat]
    BY <2>1 DEF KnownInvariant, ProductKnown, StockInvariant
  <2>3. Idle.warehouse \in Warehouse
    BY CatalogueAssumption DEF Idle
  <2>4. handler \in [Handler ->
          [at : HandlerSteps, warehouse : Warehouse, found : SUBSET Warehouse, row : Nat,
           seen : [stocks : Nat, reserved : Nat], message : Payload]]
    <3>1. \A h \in Handler : handler[h] \in RequestKnown /\ handler[h].seen.reserved \in Nat
      BY DEF KnownInvariant, HandlersKnown, StockInvariant, SeenSound
    <3>2. \A h \in Handler :
            /\ handler[h].message \in Payload
            /\ handler[h].seen \in [stocks : Nat, reserved : Nat]
      BY <2>1, <3>1 DEF RequestKnown
    <3>3. \A h \in Handler :
            handler[h] \in [at : HandlerSteps, warehouse : Warehouse, found : SUBSET Warehouse, row : Nat,
                            seen : [stocks : Nat, reserved : Nat], message : Payload]
      BY <2>3, <3>1, <3>2 DEF RequestKnown
    <3>4. handler \in [Handler -> {handler[h] : h \in Handler}]
      BY DEF KnownInvariant, HandlersKnown
    <3> QED
      BY <3>3, <3>4
  <2>5. productEvents \in Seq(Payload) /\ stockEvents \in Seq(Nat)
    BY <2>1, SeqGrows DEF KnownInvariant, TopicsKnown
  <2>6. /\ projection \in Payload
        /\ consumer \in [at : {"POLL", "FETCH", "APPLY", "AGAIN", "COMMIT"}, topic : Topics,
                         next : [Topics -> Nat], response : Payload]
        /\ committed \in [Topics -> Nat]
        /\ startup \in [at : {"FETCH", "APPLY", "DONE"}, response : Payload]
    BY <2>1 DEF KnownInvariant, ConsumerKnown, CopiesKnown
  <2> QED
    BY <2>2, <2>4, <2>5, <2>6 DEF StockInvariant, RowsSound, TypeOK
<1> QED
  BY <1>1, Invariance, StockInvariance, PTL

\* No recount, of a restock or of a deleted warehouse, takes away stock that
\* orders have reserved.
THEOREM ReservedStaysWithinTotal == Spec => []ReservedWithinTotal
<1>1. StockInvariant => ReservedWithinTotal
  BY DEF StockInvariant
<1> QED
  BY <1>1, StockInvariance, PTL

\* The total of a product is that of its warehouses, but after a sale, a
\* restock that had seen its own total before the lock, one that had seen a
\* row another request changed, and a deletion that had not seen a row.
THEOREM TotalIsOfWarehouses == Spec => []StockIsWarehouseTotal
<1>1. StockInvariant => StockIsWarehouseTotal
  BY DEF StockInvariant
<1> QED
  BY <1>1, StockInvariance, PTL
=============================================================================

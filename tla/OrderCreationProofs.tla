--------------------------- MODULE OrderCreationProofs ---------------------------
(***************************************************************************)
(* What order creation guarantees for every number of products, keys and   *)
(* calls, whatever the cart does meanwhile.                                *)
(***************************************************************************)
EXTENDS OrderCreation, TLAPS

-----------------------------------------------------------------------------
(* The inductive invariant *)

Quantities == [p \in Product |-> cart_items[p].quantity]

\* A row of the cart was inserted by a mutation, and the history says under
\* the current version what the cart holds.
CartOK ==
  /\ \A p \in InCart : cart_items[p].id \in 1..MaxVersion
  /\ contents[OpenedVersion] = Quantities

QuantitiesOf(lines) == [p \in Product |-> lines[p].quantity]

\* These lines are the cart under version v.
Holds(lines, v) ==
  /\ v \in 1..version
  /\ QuantitiesOf(lines) = contents[v]
  /\ ValidSnapshot(lines)

\* The order id is one of cart version v.
OrderOf(id, v) == id \in Request /\ v > 0 /\ order[id].cart_version = v

\* What a call has in its hands is true.
CallOK(r) ==
  /\ ~At(r, "NEW") => KeyOf(r) \in Key /\ VersionOf(r) > 0
  /\ At(r, "NEW") => ~Written(r)
  /\ At(r, "COMPLETE") => OrderOf(request[r].found, VersionOf(r))
  /\ At(r, "PERSIST") => Holds(request[r].snapshot, VersionOf(r))
  /\ Answered(r) => At(r, "DONE") /\ OrderOf(request[r].found, VersionOf(r))
  /\ request[r].status = 202 => request[r].found = r

\* A running claim is about the request of its owner, a completed one names
\* an order of its payload.
ClaimOK(k) ==
  /\ claim[k].owner_token # None =>
       LET r == claim[k].owner_token
       IN  ~At(r, "NEW") /\ KeyOf(r) = k /\ claim[k].fingerprint = VersionOf(r)
  /\ claim[k].state = "COMPLETED" => OrderOf(claim[k].order_id, claim[k].fingerprint)

\* A written order is that of its request, under the key that wrote it.
OrderOK(r) ==
  Written(r) =>
    /\ order[r].cart_version = VersionOf(r)
    /\ Holds(order[r].lines, VersionOf(r))
    /\ order[r].key \in Key
    /\ claim[order[r].key].state = "COMPLETED"
    /\ claim[order[r].key].order_id = r

\* uq_orders_customer_cart_version
OneOrderPerVersion ==
  \A r, s \in Request :
    Written(r) /\ Written(s) /\ order[r].cart_version = order[s].cart_version => r = s

CreationInvariant ==
  /\ TypeOK
  /\ CartOK
  /\ \A r \in Request : CallOK(r) /\ OrderOK(r)
  /\ \A k \in Key : ClaimOK(k)
  /\ OneOrderPerVersion

-----------------------------------------------------------------------------
(* Types *)

ClaimsTyped ==
  /\ claim \in [Key -> Claim]
  /\ \A k \in Key : claim[k].owner_token # None <=> claim[k].state = "IN_PROGRESS"
  /\ \A k \in Key : claim[k].order_id # None <=> claim[k].state = "COMPLETED"

CallsTyped == request \in [Request -> Call]

OrdersTyped == order \in [Request -> OrderRow]

LEMMA TypeParts ==
  TypeOK <=> CartTypeOK /\ ClaimsTyped /\ OrdersTyped /\ CallsTyped /\ faults \in 0..MaxFaults
BY DEF TypeOK, ClaimsTyped, CallsTyped, OrdersTyped

LEMMA NoLinesTyped == NoLines \in [Product -> Line]
BY CartAssumption DEF NoLines, Line

LEMMA PricesTyped == CartTypeOK => PricesNow \in [Product -> Prices]
BY DEF CartTypeOK, PricesNow, Prices

LEMMA LinesTyped == CartTypeOK => Lines \in [Product -> Line]
BY DEF CartTypeOK, Lines, Line, CartItem

\* A well-formed claim in the place of another.
WellFormed(c) ==
  /\ c \in Claim
  /\ c.owner_token # None <=> c.state = "IN_PROGRESS"
  /\ c.order_id # None <=> c.state = "COMPLETED"

LEMMA ClaimChange ==
  ASSUME ClaimsTyped, NEW k \in Key, NEW c, WellFormed(c), claim' = [claim EXCEPT ![k] = c]
  PROVE  ClaimsTyped'
BY DEF ClaimsTyped, WellFormed

LEMMA NoClaimTyped == WellFormed(NoClaim)
BY CartAssumption DEF NoClaim, WellFormed, Claim

LEMMA ClaimedTyped ==
  ASSUME CallsTyped, NEW r \in Request
  PROVE  /\ WellFormed(Claimed(r))
         /\ Claimed(r).state = "IN_PROGRESS"
         /\ Claimed(r).owner_token = r
         /\ Claimed(r).fingerprint = VersionOf(r)
<1>1. VersionOf(r) \in 0..MaxVersion /\ r # None
  BY CreationAssumption DEF CallsTyped, Call, VersionOf
<1>2. NoClaim \in Claim /\ NoClaim.order_id = None
  BY NoClaimTyped DEF WellFormed, NoClaim
<1> QED
  BY <1>1, <1>2 DEF WellFormed, Claim, Claimed

LEMMA CompletedTyped ==
  ASSUME NEW c \in Claim, NEW id \in Request
  PROVE  /\ WellFormed(Completed(c, id))
         /\ Completed(c, id).state = "COMPLETED"
         /\ Completed(c, id).owner_token = None
         /\ Completed(c, id).order_id = id
         /\ Completed(c, id).fingerprint = c.fingerprint
<1>1. id # None
  BY CreationAssumption
<1> QED
  BY <1>1 DEF WellFormed, Claim, Completed

\* Where a call may be, and how it moves on: nobody else moves, and it keeps
\* its key and its cart version.
Place == {"CLAIM", "LOCK", "FIND", "SNAPSHOT", "PERSIST", "WINNER", "COMPLETE", "MARK_FAILED",
          "DELETE_CLAIM", "DONE"}

Moves(r, at) ==
  /\ \A s \in Request \ {r} : request'[s] = request[s]
  /\ request'[r].at = at
  /\ request'[r].key = request[r].key
  /\ request'[r].cart_version = request[r].cart_version

LEMMA GotoFacts ==
  ASSUME CallsTyped, NEW r \in Request, NEW at \in Place, Goto(r, at)
  PROVE  /\ CallsTyped'
         /\ Moves(r, at)
         /\ request'[r].status = request[r].status
         /\ request'[r].found = request[r].found
<1> DEFINE q == request[r]
           t == [at |-> at, key |-> q.key, cart_version |-> q.cart_version,
                 confirmed |-> q.confirmed, snapshot |-> NoLines,
                 found |-> q.found, status |-> q.status]
<1>1. q \in Call
  BY DEF CallsTyped
<1>2. ASSUME NEW p \in Call, NEW u, u = [p EXCEPT !.at = at, !.snapshot = NoLines]
      PROVE  u = [at |-> at, key |-> p.key, cart_version |-> p.cart_version, confirmed |-> p.confirmed,
             snapshot |-> NoLines, found |-> p.found, status |-> p.status]
  BY <1>2, Zenon DEF Call
<1>3. request' = [request EXCEPT ![r] = [request[r] EXCEPT !.at = at, !.snapshot = NoLines]]
  BY Zenon DEF Goto, CallsTyped
<1>4. request' = [request EXCEPT ![r] = t]
  BY <1>1, <1>2, <1>3
<1>5. t \in Call
  BY <1>1, NoLinesTyped DEF Call, Place
<1> HIDE DEF t
<1>6. request'[r] = t /\ CallsTyped' /\ \A s \in Request \ {r} : request'[s] = request[s]
  BY <1>4, <1>5 DEF CallsTyped
<1>7. t.at = at /\ t.key = q.key /\ t.cart_version = q.cart_version
      /\ t.status = q.status /\ t.found = q.found
  BY DEF t
<1> QED
  BY <1>6, <1>7 DEF Moves

LEMMA ReplyRecord ==
  ASSUME CallsTyped, NEW r \in Request, NEW status, NEW id, Reply(r, status, id)
  PROVE  request' = [request EXCEPT ![r] =
           [at |-> "DONE", key |-> request[r].key, cart_version |-> request[r].cart_version,
            confirmed |-> request[r].confirmed, snapshot |-> NoLines, found |-> id,
            status |-> status]]
<1>1. ASSUME NEW p \in Call, NEW u,
             u = [p EXCEPT !.at = "DONE", !.status = status, !.found = id, !.snapshot = NoLines]
      PROVE  u = [at |-> "DONE", key |-> p.key, cart_version |-> p.cart_version,
                  confirmed |-> p.confirmed, snapshot |-> NoLines, found |-> id,
                  status |-> status]
  BY <1>1, Zenon DEF Call
<1>2. request' = [request EXCEPT ![r] =
        [request[r] EXCEPT !.at = "DONE", !.status = status, !.found = id, !.snapshot = NoLines]]
  BY Zenon DEF Reply, CallsTyped
<1> QED
  BY <1>1, <1>2 DEF CallsTyped

LEMMA ReplyFacts ==
  ASSUME CallsTyped, NEW r \in Request, NEW status \in {200, 202, 500},
         NEW id \in Request \cup {None}, Reply(r, status, id)
  PROVE  /\ CallsTyped'
         /\ Moves(r, "DONE")
         /\ request'[r].status = status
         /\ request'[r].found = id
<1> DEFINE q == request[r]
           t == [at |-> "DONE", key |-> q.key, cart_version |-> q.cart_version,
                 confirmed |-> q.confirmed, snapshot |-> NoLines,
                 found |-> id, status |-> status]
<1>1. q \in Call
  BY DEF CallsTyped
<1>2. request' = [request EXCEPT ![r] = t]
  BY ReplyRecord
<1>3. t \in Call
  BY <1>1, NoLinesTyped DEF Call
<1> HIDE DEF t
<1>4. request'[r] = t /\ CallsTyped' /\ \A s \in Request \ {r} : request'[s] = request[s]
  BY <1>2, <1>3 DEF CallsTyped
<1>5. t.at = "DONE" /\ t.key = q.key /\ t.cart_version = q.cart_version
      /\ t.status = status /\ t.found = id
  BY DEF t
<1> QED
  BY <1>4, <1>5 DEF Moves

LEMMA SubmitFacts ==
  ASSUME CallsTyped, CartTypeOK, NEW r \in Request, NEW k \in Key, Submit(r, k)
  PROVE  /\ CallsTyped'
         /\ \A s \in Request \ {r} : request'[s] = request[s]
         /\ request'[r].at = "CLAIM"
         /\ request'[r].key = k
         /\ request'[r].cart_version > 0
         /\ request'[r].status = request[r].status
<1> DEFINE q == request[r]
           t == [at |-> "CLAIM", key |-> k, cart_version |-> page.version,
                 confirmed |-> page.prices, snapshot |-> q.snapshot,
                 found |-> q.found, status |-> q.status]
<1>1. q \in Call
  BY DEF CallsTyped
<1>2. ASSUME NEW p \in Call, NEW u, u = [p EXCEPT !.at = "CLAIM", !.key = k, !.cart_version = page.version, !.confirmed = page.prices]
      PROVE  u = [at |-> "CLAIM", key |-> k, cart_version |-> page.version, confirmed |-> page.prices,
             snapshot |-> p.snapshot, found |-> p.found, status |-> p.status]
  BY <1>2, Zenon DEF Call
<1>3. request' = [request EXCEPT ![r] =
        [request[r] EXCEPT !.at = "CLAIM", !.key = k, !.cart_version = page.version,
                  !.confirmed = page.prices]]
  BY Zenon DEF Submit, CallsTyped
<1>4. request' = [request EXCEPT ![r] = t]
  BY <1>1, <1>2, <1>3
<1>5. page.version \in 0..MaxVersion /\ page.prices \in [Product -> Prices] /\ page.version > 0
  BY DEF CartTypeOK, Submit
<1>6. t \in Call
  BY <1>1, <1>5 DEF Call
<1> HIDE DEF t
<1>7. request'[r] = t /\ CallsTyped' /\ \A s \in Request \ {r} : request'[s] = request[s]
  BY <1>4, <1>6 DEF CallsTyped
<1>8. t.at = "CLAIM" /\ t.key = k /\ t.cart_version = page.version /\ t.status = q.status
  BY DEF t
<1> QED
  BY <1>5, <1>7, <1>8

\* FIND and WINNER go to COMPLETE with the order that was found.
LEMMA FindFacts ==
  ASSUME CallsTyped, NEW r \in Request, NEW winner \in Request,
         request' = [request EXCEPT ![r].at = "COMPLETE", ![r].found = winner]
  PROVE  /\ CallsTyped'
         /\ Moves(r, "COMPLETE")
         /\ request'[r].status = request[r].status
         /\ request'[r].found = winner
<1> DEFINE q == request[r]
           t == [at |-> "COMPLETE", key |-> q.key, cart_version |-> q.cart_version,
                 confirmed |-> q.confirmed, snapshot |-> q.snapshot,
                 found |-> winner, status |-> q.status]
<1>1. q \in Call
  BY DEF CallsTyped
<1>2. ASSUME NEW p \in Call, NEW u, u = [p EXCEPT !.at = "COMPLETE", !.found = winner]
      PROVE  u = [at |-> "COMPLETE", key |-> p.key, cart_version |-> p.cart_version, confirmed |-> p.confirmed,
             snapshot |-> p.snapshot, found |-> winner, status |-> p.status]
  BY <1>2, Zenon DEF Call
<1>3. request' = [request EXCEPT ![r] = [request[r] EXCEPT !.at = "COMPLETE", !.found = winner]]
  BY Zenon DEF CallsTyped
<1>4. request' = [request EXCEPT ![r] = t]
  BY <1>1, <1>2, <1>3
<1>5. t \in Call
  BY <1>1 DEF Call
<1> HIDE DEF t
<1>6. request'[r] = t /\ CallsTyped' /\ \A s \in Request \ {r} : request'[s] = request[s]
  BY <1>4, <1>5 DEF CallsTyped
<1>7. t.at = "COMPLETE" /\ t.key = q.key /\ t.cart_version = q.cart_version
      /\ t.status = q.status /\ t.found = winner
  BY DEF t
<1> QED
  BY <1>6, <1>7 DEF Moves

LEMMA SnapshotFacts ==
  ASSUME CallsTyped, NEW r \in Request, NEW lines \in [Product -> Line],
         request' = [request EXCEPT ![r].at = "PERSIST", ![r].snapshot = lines]
  PROVE  /\ CallsTyped'
         /\ Moves(r, "PERSIST")
         /\ request'[r].status = request[r].status
         /\ request'[r].found = request[r].found
         /\ request'[r].snapshot = lines
<1> DEFINE q == request[r]
           t == [at |-> "PERSIST", key |-> q.key, cart_version |-> q.cart_version,
                 confirmed |-> q.confirmed, snapshot |-> lines,
                 found |-> q.found, status |-> q.status]
<1>1. q \in Call
  BY DEF CallsTyped
<1>2. ASSUME NEW p \in Call, NEW u, u = [p EXCEPT !.at = "PERSIST", !.snapshot = lines]
      PROVE  u = [at |-> "PERSIST", key |-> p.key, cart_version |-> p.cart_version, confirmed |-> p.confirmed,
             snapshot |-> lines, found |-> p.found, status |-> p.status]
  BY <1>2, Zenon DEF Call
<1>3. request' = [request EXCEPT ![r] = [request[r] EXCEPT !.at = "PERSIST", !.snapshot = lines]]
  BY Zenon DEF CallsTyped
<1>4. request' = [request EXCEPT ![r] = t]
  BY <1>1, <1>2, <1>3
<1>5. t \in Call
  BY <1>1 DEF Call
<1> HIDE DEF t
<1>6. request'[r] = t /\ CallsTyped' /\ \A s \in Request \ {r} : request'[s] = request[s]
  BY <1>4, <1>5 DEF CallsTyped
<1>7. t.at = "PERSIST" /\ t.key = q.key /\ t.cart_version = q.cart_version
      /\ t.status = q.status /\ t.found = q.found /\ t.snapshot = lines
  BY DEF t
<1> QED
  BY <1>6, <1>7 DEF Moves
-----------------------------------------------------------------------------
(* What every step keeps *)

\* The history of the cart is not rewritten.
CartKept ==
  /\ version <= version'
  /\ \A v \in 1..version : contents'[v] = contents[v]

\* A call that has come in keeps its key and its cart version.
Stable ==
  \A s \in Request : ~At(s, "NEW") =>
    /\ request'[s].at # "NEW"
    /\ request'[s].key = request[s].key
    /\ request'[s].cart_version = request[s].cart_version

OrdersGrow == \A s \in Request : Written(s) \/ At(s, "NEW") => order'[s] = order[s]

Settled == \A k \in Key : claim[k].state = "COMPLETED" => claim'[k] = claim[k]

LEMMA HoldsKept ==
  ASSUME NEW lines, NEW v, CartTypeOK, version' \in Nat, CartKept, Holds(lines, v)
  PROVE  Holds(lines, v)'
BY DEF CartKept, Holds, ValidSnapshot, CartTypeOK

LEMMA OrderOfKept ==
  ASSUME NEW id, NEW v, OrdersGrow, OrderOf(id, v)
  PROVE  OrderOf(id, v)'
BY DEF OrdersGrow, OrderOf, Written

LEMMA CallKept ==
  ASSUME NEW s \in Request, CallOK(s), CartTypeOK, version' \in Nat,
         CartKept, OrdersGrow, request'[s] = request[s]
  PROVE  CallOK(s)'
<1>1. /\ At(s, "NEW")' <=> At(s, "NEW")
      /\ At(s, "COMPLETE")' <=> At(s, "COMPLETE")
      /\ At(s, "PERSIST")' <=> At(s, "PERSIST")
      /\ At(s, "DONE")' <=> At(s, "DONE")
      /\ KeyOf(s)' = KeyOf(s)
      /\ VersionOf(s)' = VersionOf(s)
      /\ Answered(s)' <=> Answered(s)
      /\ request'[s].status = request[s].status
  BY DEF At, KeyOf, VersionOf, Answered
<1>2. At(s, "NEW")' => ~Written(s)'
  BY <1>1 DEF CallOK, OrdersGrow, Written
<1>3. PICK found, snapshot, v :
        /\ found = request[s].found /\ found = request'[s].found
        /\ snapshot = request[s].snapshot /\ snapshot = request'[s].snapshot
        /\ v = VersionOf(s) /\ v = VersionOf(s)'
  BY <1>1
<1>4. At(s, "COMPLETE")' \/ Answered(s)' => OrderOf(request[s].found, VersionOf(s))'
  <2>1. At(s, "COMPLETE") \/ Answered(s) => OrderOf(found, v)
    BY <1>3 DEF CallOK
  <2>2. OrderOf(found, v) => OrderOf(found, v)'
    BY OrderOfKept
  <2> QED
    BY <1>1, <1>3, <2>1, <2>2 DEF OrderOf
<1>5. At(s, "PERSIST")' => Holds(request[s].snapshot, VersionOf(s))'
  <2>1. At(s, "PERSIST") => Holds(snapshot, v)
    BY <1>3 DEF CallOK
  <2>2. Holds(snapshot, v) => Holds(snapshot, v)'
    BY HoldsKept
  <2> QED
    BY <1>1, <1>3, <2>1, <2>2 DEF Holds, ValidSnapshot
<1> QED
  BY <1>1, <1>2, <1>3, <1>4, <1>5 DEF CallOK

LEMMA OrderKept ==
  ASSUME CreationInvariant, NEW s \in Request, version' \in Nat, CartKept, Stable,
         OrdersGrow, Settled, order'[s] = order[s]
  PROVE  OrderOK(s)'
<1> SUFFICES ASSUME Written(s)'
             PROVE  OrderOK(s)'
  BY DEF OrderOK
<1>1. Written(s) /\ CallOK(s) /\ OrderOK(s) /\ CartTypeOK
  BY DEF Written, CreationInvariant, TypeOK
<1>2. VersionOf(s)' = VersionOf(s)
  BY <1>1 DEF CallOK, Stable, VersionOf
<1>3. PICK lines, v : /\ lines = order[s].lines /\ lines = order'[s].lines
                      /\ v = VersionOf(s) /\ v = VersionOf(s)'
  BY <1>2
<1>4. Holds(lines, v)'
  BY <1>1, <1>3, HoldsKept DEF OrderOK
<1>5. claim'[order[s].key] = claim[order[s].key]
  BY <1>1 DEF OrderOK, Settled
<1> QED
  BY <1>1, <1>2, <1>3, <1>4, <1>5 DEF OrderOK, Holds, ValidSnapshot

LEMMA ClaimKept ==
  ASSUME NEW k \in Key, ClaimsTyped, ClaimOK(k), Stable, OrdersGrow, claim'[k] = claim[k]
  PROVE  ClaimOK(k)'
<1>1. PICK owner, id, v :
        /\ owner = claim[k].owner_token /\ owner = claim'[k].owner_token
        /\ id = claim[k].order_id /\ id = claim'[k].order_id
        /\ v = claim[k].fingerprint /\ v = claim'[k].fingerprint
  OBVIOUS
<1>2. owner # None => /\ ~At(owner, "NEW")'
                      /\ KeyOf(owner)' = k
                      /\ v = VersionOf(owner)'
  <2>1. owner # None => owner \in Request
    BY <1>1 DEF ClaimsTyped, Claim
  <2>2. owner # None => ~At(owner, "NEW") /\ KeyOf(owner) = k /\ v = VersionOf(owner)
    BY <1>1 DEF ClaimOK
  <2> QED
    BY <2>1, <2>2 DEF Stable, At, KeyOf, VersionOf
<1>3. claim[k].state = "COMPLETED" => OrderOf(id, v)'
  BY <1>1, OrderOfKept DEF ClaimOK
<1> QED
  BY <1>1, <1>2, <1>3 DEF ClaimOK, At, KeyOf, VersionOf, OrderOf

\* A step keeps the invariant when what it changes fits.
LEMMA Frame ==
  ASSUME CreationInvariant, TypeOK', CartOK', CartKept, Stable, OrdersGrow, Settled,
         \A s \in Request : request'[s] = request[s] \/ CallOK(s)',
         \A s \in Request : order'[s] = order[s] \/ OrderOK(s)',
         \A k \in Key : claim'[k] = claim[k] \/ ClaimOK(k)',
         OneOrderPerVersion'
  PROVE  CreationInvariant'
<1>1. CartTypeOK /\ version' \in Nat /\ ClaimsTyped
  BY TypeParts DEF CreationInvariant, TypeOK, CartTypeOK
<1>2. \A s \in Request : CallOK(s)'
  BY <1>1, CallKept DEF CreationInvariant
<1>3. \A s \in Request : OrderOK(s)'
  BY <1>1, OrderKept
<1>4. \A k \in Key : ClaimOK(k)'
  BY <1>1, ClaimKept DEF CreationInvariant
<1> QED
  BY <1>2, <1>3, <1>4 DEF CreationInvariant

\* One that leaves the cart alone ...
LEMMA CartUntouched ==
  ASSUME CartTypeOK, CartOK, UNCHANGED cartVars
  PROVE  CartTypeOK' /\ CartOK' /\ CartKept
<1>1. CartTypeOK'
  BY DEF CartTypeOK, cartVars
<1>2. CartOK'
  BY DEF CartOK, InCart, Quantities, OpenedVersion, cartVars, NoRow
<1>3. CartKept
  BY DEF CartKept, CartTypeOK, cartVars
<1> QED
  BY <1>1, <1>2, <1>3

\* ... and one that moves call r only, and not back.
LEMMA MovesAreStable ==
  ASSUME NEW r \in Request, NEW at \in Place, Moves(r, at)
  PROVE  Stable
BY DEF Moves, Stable, Place, At

LEMMA OrdersUntouched ==
  ASSUME OneOrderPerVersion, order' = order
  PROVE  OneOrderPerVersion' /\ OrdersGrow
BY DEF OneOrderPerVersion, OrdersGrow, Written

-----------------------------------------------------------------------------
(* The cart *)

LEMMA MutateKeeps ==
  ASSUME CartTypeOK, CartOK, NEW items \in [Product -> CartItem], Mutate(items),
         \A p \in Product : items[p] = NoRow \/ items[p].id \in 1..MaxVersion
  PROVE  /\ version' \in 0..MaxVersion
         /\ cart_items' \in [Product -> CartItem]
         /\ contents' \in [1..MaxVersion -> [Product -> 0..MaxQuantity]]
         /\ CartOK'
         /\ CartKept
<1> DEFINE now == [p \in Product |-> items[p].quantity]
<1>1. now \in [Product -> 0..MaxQuantity]
  BY DEF CartItem
<1> HIDE DEF now
<1>2. /\ version' = version + 1 /\ version' \in 1..MaxVersion
      /\ cart_items' = items
      /\ contents' = [contents EXCEPT ![version'] = now]
  BY CartAssumption DEF Mutate, NextVersion, CartTypeOK, now
<1>3. contents' \in [1..MaxVersion -> [Product -> 0..MaxQuantity]] /\ contents'[version'] = now
  BY <1>1, <1>2 DEF CartTypeOK
<1>4. CartKept
  BY <1>2 DEF CartKept, CartTypeOK
<1>5. OpenedVersion' = version' /\ Quantities' = now
  BY <1>2 DEF OpenedVersion, Quantities, now
<1>6. CartOK'
  BY <1>2, <1>3, <1>5 DEF CartOK, InCart, NoRow
<1> QED
  BY <1>2, <1>3, <1>4, <1>6

LEMMA CartStepKeeps ==
  ASSUME CartTypeOK, CartOK, CartStep
  PROVE  CartTypeOK' /\ CartOK' /\ CartKept
<1> USE DEF CartTypeOK
<1>0. \A p \in Product : NoRow \in CartItem /\ (cart_items[p] = NoRow \/ cart_items[p].id \in 1..MaxVersion)
  BY CartAssumption DEF CartOK, InCart, NoRow, CartItem
<1>1. ASSUME NEW p \in Product, AddToCart(p)
      PROVE  CartTypeOK' /\ CartOK' /\ CartKept
  <2>1. PICK quantity \in 1..(MaxQuantity - cart_items[p].quantity) :
          Mutate([cart_items EXCEPT ![p] =
            [quantity |-> cart_items[p].quantity + quantity,
             id |-> IF p \in InCart THEN cart_items[p].id ELSE NextVersion]])
    BY <1>1 DEF AddToCart
  <2> DEFINE row == [quantity |-> cart_items[p].quantity + quantity,
                     id |-> IF p \in InCart THEN cart_items[p].id ELSE NextVersion]
  <2>2. row \in CartItem /\ row.id \in 1..MaxVersion
    <3>1. NextVersion \in 1..MaxVersion
      BY <2>1, CartAssumption DEF Mutate, NextVersion
    <3>2. cart_items[p].quantity + quantity \in 0..MaxQuantity
      BY CartAssumption DEF CartItem
    <3>3. p \in InCart => cart_items[p].id \in 1..MaxVersion
      BY DEF CartOK
    <3> QED
      BY <3>1, <3>2, <3>3, CartAssumption DEF CartItem
  <2> HIDE DEF row
  <2>3. Mutate([cart_items EXCEPT ![p] = row])
    BY <2>1 DEF row
  <2>4. [cart_items EXCEPT ![p] = row] \in [Product -> CartItem]
    BY <2>2
  <2>5. \A q \in Product : [cart_items EXCEPT ![p] = row][q] = NoRow
                           \/ [cart_items EXCEPT ![p] = row][q].id \in 1..MaxVersion
    BY <1>0, <2>2
  <2> QED
    BY <1>1, <2>3, <2>4, <2>5, MutateKeeps DEF AddToCart
<1>2. ASSUME NEW p \in Product, UpdateCartItem(p)
      PROVE  CartTypeOK' /\ CartOK' /\ CartKept
  <2>1. PICK quantity \in 1..MaxQuantity :
          Mutate([cart_items EXCEPT ![p].quantity = quantity])
    BY <1>2 DEF UpdateCartItem
  <2>2. p \in InCart /\ cart_items[p].id \in 1..MaxVersion
    BY <1>2 DEF UpdateCartItem, CartOK
  <2>3. [cart_items EXCEPT ![p].quantity = quantity] \in [Product -> CartItem]
    <3>1. quantity \in 0..MaxQuantity
      BY CartAssumption
    <3>2. ASSUME NEW row \in CartItem
          PROVE  [row EXCEPT !.quantity = quantity] \in CartItem
      BY <3>1 DEF CartItem
    <3> QED
      BY <3>2
  <2>4. \A q \in Product : [cart_items EXCEPT ![p].quantity = quantity][q] = NoRow
               \/ [cart_items EXCEPT ![p].quantity = quantity][q].id \in 1..MaxVersion
    BY <1>0, <2>2 DEF CartItem
  <2> QED
    BY <1>2, <2>1, <2>3, <2>4, MutateKeeps DEF UpdateCartItem
<1>3. ASSUME NEW p \in Product, DeleteCartItem(p)
      PROVE  CartTypeOK' /\ CartOK' /\ CartKept
  <2>1. [cart_items EXCEPT ![p] = NoRow] \in [Product -> CartItem]
    BY <1>0
  <2>2. \A q \in Product : [cart_items EXCEPT ![p] = NoRow][q] = NoRow
                           \/ [cart_items EXCEPT ![p] = NoRow][q].id \in 1..MaxVersion
    BY <1>0
  <2> QED
    BY <1>3, <2>1, <2>2, MutateKeeps DEF DeleteCartItem
<1>4. ASSUME NEW p \in Product, ProjectionChanges(p)
      PROVE  CartTypeOK' /\ CartOK' /\ CartKept
  BY <1>4 DEF ProjectionChanges, CartOK, InCart, Quantities, OpenedVersion, CartKept, NoRow
<1>5. CASE ReadForLegacyOrder
  <2>1. legacy' \subseteq Product \X (1..MaxVersion)
    BY <1>5 DEF ReadForLegacyOrder, CartOK, InCart
  <2> QED
    BY <1>5, <2>1 DEF ReadForLegacyOrder, CartOK, InCart, Quantities, OpenedVersion, CartKept, NoRow
<1>6. CASE LegacyOrder
  <2> DEFINE items == [p \in Product |->
               IF <<p, cart_items[p].id>> \in legacy THEN NoRow ELSE cart_items[p]]
  <2>1. items \in [Product -> CartItem]
    BY <1>0
  <2>2. \A p \in Product : items[p] = NoRow \/ items[p].id \in 1..MaxVersion
    BY <1>0
  <2>3. Mutate(items)
    BY <1>6 DEF LegacyOrder
  <2> HIDE DEF items
  <2> QED
    BY <1>6, <2>1, <2>2, <2>3, MutateKeeps DEF LegacyOrder
<1>7. CASE ReadCartItems
  <2>0. PricesNow \in [Product -> Prices] /\ 0 \in 0..MaxVersion
    BY PricesTyped, CartAssumption
  <2>1. page' \in [version : 0..MaxVersion, prices : [Product -> Prices], read : BOOLEAN]
    BY <1>7, <2>0, Zenon DEF ReadCartItems
  <2> QED
    BY <1>7, <2>1 DEF ReadCartItems, CartOK, InCart, Quantities, OpenedVersion, CartKept, NoRow
<1>8. CASE ReadCartVersion
  <2>1. OpenedVersion \in 1..MaxVersion
    BY CartAssumption DEF OpenedVersion
  <2>2. page' \in [version : 0..MaxVersion, prices : [Product -> Prices], read : BOOLEAN]
    <3>1. OpenedVersion \in 0..MaxVersion
      BY <2>1
    <3> QED
      BY <1>8, <3>1, Zenon DEF ReadCartVersion
  <2> QED
    BY <1>8, <2>1, <2>2 DEF ReadCartVersion, OpenCart, CartOK, InCart, Quantities, OpenedVersion,
                            CartKept, NoRow
<1> QED
  BY <1>1, <1>2, <1>3, <1>4, <1>5, <1>6, <1>7, <1>8 DEF CartStep

-----------------------------------------------------------------------------
(* Steps of a call *)

LEMMA CallFacts ==
  ASSUME CreationInvariant, NEW r \in Request
  PROVE  /\ CartTypeOK /\ CartOK /\ CallsTyped /\ ClaimsTyped /\ OrdersTyped
         /\ OneOrderPerVersion /\ CallOK(r) /\ OrderOK(r)
         /\ faults \in 0..MaxFaults
         /\ ~At(r, "NEW") => KeyOf(r) \in Key /\ VersionOf(r) > 0
BY TypeParts DEF CreationInvariant, CallOK

LEMMA SubmitKeeps ==
  ASSUME CreationInvariant, NEW r \in Request, NEW k \in Key, Submit(r, k)
  PROVE  CreationInvariant' /\ Settled
<1>1. /\ CartTypeOK /\ CartOK /\ CallsTyped /\ ClaimsTyped /\ OneOrderPerVersion /\ CallOK(r)
      /\ request[r].at = "NEW"
      /\ UNCHANGED <<cartVars, orderVars, faults>>
  BY TypeParts DEF CreationInvariant, Submit, At
<1>2. /\ CallsTyped' /\ request'[r].at = "CLAIM" /\ request'[r].key = k
      /\ request'[r].cart_version > 0 /\ request'[r].status = request[r].status
      /\ \A s \in Request \ {r} : request'[s] = request[s]
  BY <1>1, SubmitFacts
<1>3. CartTypeOK' /\ CartOK' /\ CartKept
  BY <1>1, CartUntouched
<1>4. TypeOK'
  BY <1>1, <1>2, <1>3, CallFacts DEF TypeOK, ClaimsTyped, CallsTyped, OrdersTyped, orderVars
<1>5. Stable
  BY <1>1, <1>2 DEF Stable, At
<1>6. OrdersGrow /\ OneOrderPerVersion'
  BY <1>1, OrdersUntouched DEF orderVars
<1>7. Settled
  BY <1>1 DEF Settled, orderVars
<1>8. CallOK(r)'
  BY <1>1, <1>2 DEF CallOK, At, KeyOf, VersionOf, Answered
<1>9. (\A s \in Request : request'[s] = request[s] \/ CallOK(s)')
      /\ order' = order /\ claim' = claim
  BY <1>1, <1>2, <1>8 DEF orderVars
<1> QED
  BY <1>3, <1>4, <1>5, <1>6, <1>7, <1>9, Frame

\* A call that goes on to a place where it holds nothing, or leaves without
\* success, with at most the claim of its key changed.
LEMMA PlainMove ==
  ASSUME CreationInvariant, NEW r \in Request, NEW at \in Place \ {"COMPLETE", "PERSIST"},
         request[r].at \notin {"NEW", "DONE"},
         CallsTyped', Moves(r, at), request'[r].status \in {request[r].status, 500},
         CartTypeOK', CartOK', CartKept, order' = order, faults' \in 0..MaxFaults,
         ClaimsTyped', Settled,
         \A k \in Key : claim'[k] = claim[k] \/ ClaimOK(k)'
  PROVE  CreationInvariant'
<1>1. TypeOK'
  BY TypeParts DEF CreationInvariant, TypeOK, ClaimsTyped, CallsTyped, OrdersTyped
<1>2. Stable
  BY MovesAreStable
<1>3. OrdersGrow /\ OneOrderPerVersion'
  BY OrdersUntouched DEF CreationInvariant
<1>4. CallOK(r)'
  <2>1. CallOK(r) /\ ~Answered(r)
    BY DEF CreationInvariant, CallOK, At
  <2> QED
    BY <2>1 DEF CallOK, At, KeyOf, VersionOf, Answered, Moves, Place
<1>5. \A s \in Request : request'[s] = request[s] \/ CallOK(s)'
  BY <1>4 DEF Moves
<1> QED
  BY <1>1, <1>2, <1>3, <1>5, Frame

\* The claim of a call that owns it.
LEMMA ClaimedOK ==
  ASSUME ClaimsTyped, CallsTyped, NEW r \in Request, NEW at \in Place, Moves(r, at),
         KeyOf(r) \in Key, claim' = [claim EXCEPT ![KeyOf(r)] = Claimed(r)]
  PROVE  ClaimsTyped' /\ \A k \in Key : claim'[k] = claim[k] \/ ClaimOK(k)'
<1>1. PICK c : c = Claimed(r)
  OBVIOUS
<1>k. PICK k \in Key : k = KeyOf(r)
  OBVIOUS
<1>2. WellFormed(c) /\ c.state = "IN_PROGRESS" /\ c.owner_token = r
      /\ c.fingerprint = VersionOf(r)
  BY <1>1, ClaimedTyped
<1>3. ClaimsTyped'
  BY <1>1, <1>k, <1>2, ClaimChange
<1>4. claim'[k] = c /\ \A j \in Key \ {k} : claim'[j] = claim[j]
  BY <1>1, <1>k DEF ClaimsTyped
<1>5. ClaimOK(k)'
  BY <1>k, <1>2, <1>4 DEF ClaimOK, Moves, At, KeyOf, VersionOf, Place
<1> QED
  BY <1>3, <1>4, <1>5

LEMMA InsertClaimKeeps ==
  ASSUME CreationInvariant, NEW r \in Request, InsertClaim(r)
  PROVE  CreationInvariant' /\ Settled
<1>1. /\ request[r].at = "CLAIM" /\ order' = order /\ faults' = faults
      /\ UNCHANGED cartVars
  BY DEF InsertClaim, At
<1>2. CartTypeOK' /\ CartOK' /\ CartKept
  BY <1>1, CallFacts, CartUntouched
<1>3. KeyOf(r) \in Key
  BY <1>1, CallFacts DEF At
<1>4. CASE /\ ClaimOf(r) = NoClaim
           /\ claim' = [claim EXCEPT ![KeyOf(r)] = Claimed(r)]
           /\ Goto(r, "FIND")
  <2>1. CallsTyped' /\ Moves(r, "FIND") /\ request'[r].status = request[r].status
    BY <1>4, CallFacts, GotoFacts DEF Place
  <2>2. ClaimsTyped' /\ \A k \in Key : claim'[k] = claim[k] \/ ClaimOK(k)'
    BY <1>3, <1>4, <2>1, CallFacts, ClaimedOK DEF Place
  <2>3. Settled
    BY <1>3, <1>4, CallFacts DEF Settled, ClaimOf, KeyOf, NoClaim, ClaimsTyped
  <2> QED
    BY <1>1, <1>2, <2>1, <2>2, <2>3, CallFacts, PlainMove DEF Place
<1>5. CASE Goto(r, "LOCK") /\ UNCHANGED claim
  <2>1. CallsTyped' /\ Moves(r, "LOCK") /\ request'[r].status = request[r].status
    BY <1>5, CallFacts, GotoFacts DEF Place
  <2>2. ClaimsTyped' /\ Settled
    BY <1>5, CallFacts DEF ClaimsTyped, Settled
  <2> QED
    BY <1>1, <1>2, <1>5, <2>1, <2>2, CallFacts, PlainMove DEF Place
<1> QED
  BY <1>4, <1>5 DEF InsertClaim

\* Every answer but the first is given without a change of the orders.
LEMMA AnswerMove ==
  ASSUME CreationInvariant, NEW r \in Request, NEW id \in Request, Reply(r, 200, id),
         OrderOf(id, VersionOf(r)), request[r].at \notin {"NEW", "DONE"},
         CartTypeOK', CartOK', CartKept, order' = order, faults' = faults,
         ClaimsTyped', Settled,
         \A k \in Key : claim'[k] = claim[k] \/ ClaimOK(k)'
  PROVE  CreationInvariant'
<1>1. /\ CallsTyped' /\ Moves(r, "DONE")
      /\ request'[r].status = 200 /\ request'[r].found = id
  BY CallFacts, ReplyFacts
<1>2. TypeOK'
  BY <1>1, CallFacts DEF TypeOK, ClaimsTyped, CallsTyped, OrdersTyped
<1>3. Stable
  BY <1>1, MovesAreStable DEF Place
<1>4. OrdersGrow /\ OneOrderPerVersion'
  BY CallFacts, OrdersUntouched
<1>5. CallOK(r)'
  BY <1>1, CallFacts DEF CallOK, At, KeyOf, VersionOf, Answered, Moves, OrderOf
<1>6. \A s \in Request : request'[s] = request[s] \/ CallOK(s)'
  BY <1>1, <1>5 DEF Moves
<1> QED
  BY <1>2, <1>3, <1>4, <1>6, Frame

LEMMA LockClaimKeeps ==
  ASSUME CreationInvariant, NEW r \in Request, LockClaim(r)
  PROVE  CreationInvariant' /\ Settled
<1>1. /\ request[r].at = "LOCK" /\ order' = order /\ faults' = faults
      /\ UNCHANGED cartVars
  BY DEF LockClaim, At
<1>2. CartTypeOK' /\ CartOK' /\ CartKept
  BY <1>1, CallFacts, CartUntouched
<1>3. KeyOf(r) \in Key
  BY <1>1, CallFacts DEF At
<1>4. CASE /\ Available(ClaimOf(r))
           /\ claim' = [claim EXCEPT ![KeyOf(r)] = Claimed(r)]
           /\ Goto(r, "FIND")
  <2>1. CallsTyped' /\ Moves(r, "FIND") /\ request'[r].status = request[r].status
    BY <1>4, CallFacts, GotoFacts DEF Place
  <2>2. ClaimsTyped' /\ \A k \in Key : claim'[k] = claim[k] \/ ClaimOK(k)'
    BY <1>3, <1>4, <2>1, CallFacts, ClaimedOK DEF Place
  <2>3. Settled
    BY <1>3, <1>4, CallFacts DEF Settled, ClaimOf, KeyOf, Available, ClaimsTyped
  <2> QED
    BY <1>1, <1>2, <2>1, <2>2, <2>3, CallFacts, PlainMove DEF Place
<1>5. CASE /\ SamePayload(r) /\ ClaimOf(r).state = "COMPLETED"
           /\ Reply(r, 200, ClaimOf(r).order_id)
           /\ UNCHANGED claim
  <2>1. PICK id : id = ClaimOf(r).order_id
    OBVIOUS
  <2>2. OrderOf(id, VersionOf(r))
    BY <1>3, <1>5, <2>1 DEF CreationInvariant, ClaimOK, ClaimOf, KeyOf, SamePayload
  <2>3. ClaimsTyped' /\ Settled
    BY <1>5, CallFacts DEF ClaimsTyped, Settled
  <2> QED
    BY <1>1, <1>2, <1>5, <2>1, <2>2, <2>3, AnswerMove DEF OrderOf
<1>6. CASE Reply(r, 500, None) /\ UNCHANGED claim
  <2>1. CallsTyped' /\ Moves(r, "DONE") /\ request'[r].status = 500
    BY <1>6, CallFacts, ReplyFacts
  <2>2. ClaimsTyped' /\ Settled
    BY <1>6, CallFacts DEF ClaimsTyped, Settled
  <2> QED
    BY <1>1, <1>2, <1>6, <2>1, <2>2, CallFacts, PlainMove DEF Place
<1> QED
  BY <1>4, <1>5, <1>6 DEF LockClaim

\* The order that was found is one of the call's cart version.
LEMMA FoundKeeps ==
  ASSUME CreationInvariant, NEW r \in Request, NEW winner \in OrdersOf(VersionOf(r)),
         request[r].at \notin {"NEW", "DONE"},
         request' = [request EXCEPT ![r].at = "COMPLETE", ![r].found = winner],
         UNCHANGED <<cartVars, orderVars, faults>>
  PROVE  CreationInvariant' /\ Settled
<1>1. order' = order /\ claim' = claim /\ faults' = faults /\ winner \in Request
  BY DEF orderVars, OrdersOf
<1>2. CartTypeOK' /\ CartOK' /\ CartKept
  BY CallFacts, CartUntouched
<1>3. /\ CallsTyped' /\ Moves(r, "COMPLETE")
      /\ request'[r].status = request[r].status /\ request'[r].found = winner
  BY <1>1, CallFacts, FindFacts
<1>4. TypeOK'
  BY <1>1, <1>2, <1>3, CallFacts DEF TypeOK, ClaimsTyped, CallsTyped, OrdersTyped
<1>5. Stable
  BY <1>3, MovesAreStable DEF Place
<1>6. OrdersGrow /\ OneOrderPerVersion'
  BY <1>1, CallFacts, OrdersUntouched
<1>7. Settled
  BY <1>1 DEF Settled
<1>8. CallOK(r)'
  <2>1. ~Answered(r) /\ KeyOf(r) \in Key /\ VersionOf(r) > 0
    BY CallFacts DEF CallOK, At
  <2> QED
    BY <1>1, <1>3, <2>1, CallFacts
    DEF CallOK, At, KeyOf, VersionOf, Answered, Moves, OrderOf, OrdersOf
<1>9. \A s \in Request : request'[s] = request[s] \/ CallOK(s)'
  BY <1>3, <1>8 DEF Moves
<1> QED
  BY <1>1, <1>2, <1>4, <1>5, <1>6, <1>7, <1>9, Frame

LEMMA FindKeeps ==
  ASSUME CreationInvariant, NEW r \in Request, FindOrderByCartVersion(r) \/ FindWinner(r)
  PROVE  CreationInvariant' /\ Settled
<1>1. /\ request[r].at \in {"FIND", "WINNER"}
      /\ UNCHANGED <<cartVars, orderVars, faults>>
  BY DEF FindOrderByCartVersion, FindWinner, At
<1>2. CASE Goto(r, "SNAPSHOT")
  <2>1. CartTypeOK' /\ CartOK' /\ CartKept
    BY <1>1, CallFacts, CartUntouched
  <2>2. CallsTyped' /\ Moves(r, "SNAPSHOT") /\ request'[r].status = request[r].status
    BY <1>2, CallFacts, GotoFacts DEF Place
  <2>3. ClaimsTyped' /\ Settled /\ order' = order /\ claim' = claim /\ faults' \in 0..MaxFaults
    BY <1>1, CallFacts DEF ClaimsTyped, Settled, orderVars
  <2> QED
    BY <1>1, <2>1, <2>2, <2>3, CallFacts, PlainMove DEF Place
<1>3. ASSUME NEW winner \in OrdersOf(VersionOf(r)),
             request' = [request EXCEPT ![r].at = "COMPLETE", ![r].found = winner]
      PROVE  CreationInvariant' /\ Settled
  BY <1>1, <1>3, FoundKeeps
<1> QED
  BY <1>2, <1>3 DEF FindOrderByCartVersion, FindWinner

LEMMA CompleteKeeps ==
  ASSUME CreationInvariant, NEW r \in Request, CompleteClaimWithExistingOrder(r)
  PROVE  CreationInvariant' /\ Settled
<1>1. /\ request[r].at = "COMPLETE" /\ order' = order /\ faults' = faults
      /\ UNCHANGED cartVars
  BY DEF CompleteClaimWithExistingOrder, At
<1>2. CartTypeOK' /\ CartOK' /\ CartKept
  BY <1>1, CallFacts, CartUntouched
<1>3. KeyOf(r) \in Key
  BY <1>1, CallFacts DEF At
<1>4. PICK id, c, k :
        id = request[r].found /\ c = ClaimOf(r) /\ k = KeyOf(r)
  OBVIOUS
<1>5. OrderOf(id, VersionOf(r)) /\ id \in Request
  BY <1>1, <1>4, CallFacts DEF CallOK, At, OrderOf
<1>6. CASE Reply(r, 200, id) /\ UNCHANGED claim
  <2>1. ClaimsTyped' /\ Settled
    BY <1>6, CallFacts DEF ClaimsTyped, Settled
  <2> QED
    BY <1>1, <1>2, <1>5, <1>6, <2>1, AnswerMove
<1>7. CASE /\ c.owner_token = r
           /\ claim' = [claim EXCEPT ![k] = Completed(c, id)]
           /\ Reply(r, 200, id)
  <2>1. k \in Key /\ c = claim[k] /\ c \in Claim
    BY <1>3, <1>4, CallFacts DEF ClaimOf, KeyOf, ClaimsTyped
  <2>2. PICK d : d = Completed(c, id)
    OBVIOUS
  <2>3. /\ WellFormed(d) /\ d.state = "COMPLETED" /\ d.owner_token = None
        /\ d.order_id = id /\ d.fingerprint = c.fingerprint
    BY <1>5, <2>1, <2>2, CompletedTyped
  <2>4. ClaimsTyped'
    BY <1>7, <2>1, <2>2, <2>3, CallFacts, ClaimChange
  <2>5. claim'[k] = d /\ \A j \in Key \ {k} : claim'[j] = claim[j]
    BY <1>7, <2>1, <2>2, CallFacts DEF ClaimsTyped
  <2>6. c.state = "IN_PROGRESS" /\ c.fingerprint = VersionOf(r)
    BY <1>7, <2>1, CallFacts, CreationAssumption DEF ClaimsTyped, CreationInvariant, ClaimOK
  <2>7. Settled
    BY <2>1, <2>5, <2>6 DEF Settled
  <2>8. ClaimOK(k)'
    BY <1>1, <1>5, <2>3, <2>5, <2>6 DEF ClaimOK, OrderOf
  <2> QED
    BY <1>1, <1>2, <1>5, <1>7, <2>4, <2>5, <2>7, <2>8, AnswerMove
<1>8. CASE Reply(r, 500, None) /\ UNCHANGED claim
  <2>1. CallsTyped' /\ Moves(r, "DONE") /\ request'[r].status = 500
    BY <1>8, CallFacts, ReplyFacts
  <2>2. ClaimsTyped' /\ Settled
    BY <1>8, CallFacts DEF ClaimsTyped, Settled
  <2> QED
    BY <1>1, <1>2, <1>8, <2>1, <2>2, CallFacts, PlainMove DEF Place
<1> QED
  BY <1>4, <1>6, <1>7, <1>8 DEF CompleteClaimWithExistingOrder

LEMMA SnapshotKeeps ==
  ASSUME CreationInvariant, NEW r \in Request, GetCartSnapshot(r)
  PROVE  CreationInvariant' /\ Settled
<1>1. /\ request[r].at = "SNAPSHOT" /\ order' = order /\ claim' = claim /\ faults' = faults
      /\ OpenCart /\ page' = page
  BY DEF GetCartSnapshot, At, orderVars
<1>2. KeyOf(r) \in Key /\ VersionOf(r) > 0 /\ ~Answered(r)
  BY <1>1, CallFacts DEF CallOK, At
<1>3. OpenedVersion \in 1..MaxVersion /\ version' = OpenedVersion /\ OpenedVersion' = OpenedVersion
  <2>1. OpenedVersion \in 1..MaxVersion
    BY CallFacts, CartAssumption DEF CartTypeOK, OpenedVersion
  <2>2. version' = OpenedVersion
    BY <1>1 DEF OpenCart
  <2> QED
    BY <2>1, <2>2 DEF OpenedVersion
<1>4. CartTypeOK' /\ CartOK' /\ CartKept
  BY <1>1, <1>3, CallFacts
  DEF CartTypeOK, CartOK, CartKept, OpenCart, InCart, Quantities, NoRow, OpenedVersion
<1>5. ClaimsTyped' /\ Settled /\ OrdersTyped'
  BY <1>1, CallFacts DEF ClaimsTyped, Settled, OrdersTyped
<1>6. CASE Goto(r, "DELETE_CLAIM")
  <2>1. CallsTyped' /\ Moves(r, "DELETE_CLAIM") /\ request'[r].status = request[r].status
    BY <1>6, CallFacts, GotoFacts DEF Place
  <2> QED
    BY <1>1, <1>4, <1>5, <2>1, CallFacts, PlainMove DEF Place
<1>7. CASE /\ SameCartVersion(r) /\ ValidSnapshot(Lines)
           /\ request' = [request EXCEPT ![r].at = "PERSIST", ![r].snapshot = Lines]
  <2>1. PICK lines : lines = Lines
    OBVIOUS
  <2>2. lines \in [Product -> Line] /\ ValidSnapshot(lines)
    BY <1>7, <2>1, CallFacts, LinesTyped
  <2>3. /\ CallsTyped' /\ Moves(r, "PERSIST") /\ request'[r].snapshot = lines
        /\ request'[r].status = request[r].status
    BY <1>7, <2>1, <2>2, CallFacts, SnapshotFacts
  <2>4. QuantitiesOf(lines) = contents'[VersionOf(r)] /\ VersionOf(r) \in 1..version'
    <3>1. QuantitiesOf(lines) = Quantities
      BY <2>1 DEF QuantitiesOf, Lines, Quantities
    <3>2. VersionOf(r) = OpenedVersion /\ contents' = contents
      BY <1>1, <1>7 DEF SameCartVersion, OpenCart
    <3> QED
      BY <1>3, <3>1, <3>2, CallFacts DEF CartOK
  <2>5. CallOK(r)'
    BY <1>1, <1>2, <2>2, <2>3, <2>4
    DEF CallOK, At, KeyOf, VersionOf, Answered, Moves, Holds, ValidSnapshot
  <2>6. \A s \in Request : request'[s] = request[s] \/ CallOK(s)'
    BY <2>3, <2>5 DEF Moves
  <2>7. TypeOK'
    BY <1>1, <1>4, <1>5, <2>3, CallFacts DEF TypeOK, ClaimsTyped, CallsTyped, OrdersTyped
  <2>8. Stable
    BY <2>3, MovesAreStable DEF Place
  <2>9. OrdersGrow /\ OneOrderPerVersion'
    BY <1>1, CallFacts, OrdersUntouched
  <2> QED
    BY <1>1, <1>4, <1>5, <2>6, <2>7, <2>8, <2>9, Frame
<1> QED
  BY <1>5, <1>6, <1>7 DEF GetCartSnapshot

\* The order a call writes: its claim is still running, no order has its
\* version, and the snapshot is the cart under that version.
LEMMA WriteKeeps ==
  ASSUME CreationInvariant, NEW r \in Request, WriteOrder(r), request[r].at = "PERSIST",
         UNCHANGED cartVars, faults' \in 0..MaxFaults,
         CallsTyped', NEW at \in {"DONE", "MARK_FAILED"}, Moves(r, at),
         \/ request'[r].status = request[r].status
         \/ at = "DONE" /\ request'[r].status = 202 /\ request'[r].found = r
  PROVE  CreationInvariant' /\ Settled
<1>1. KeyOf(r) \in Key /\ VersionOf(r) > 0 /\ ~Answered(r) /\ Holds(request[r].snapshot, VersionOf(r))
  BY CallFacts DEF CallOK, At
<1>2. CartTypeOK' /\ CartOK' /\ CartKept
  BY CallFacts, CartUntouched
<1>3. PICK k \in Key : k = KeyOf(r)
  BY <1>1
<1>4. PICK v, lines, c, d :
        /\ v = VersionOf(r) /\ lines = request[r].snapshot /\ c = claim[k]
        /\ d = Completed(c, r)
  OBVIOUS
<1>5. /\ c \in Claim /\ c.state = "IN_PROGRESS" /\ c.owner_token = r /\ c.fingerprint = v
      /\ OrdersOf(v) = {}
      /\ order' = [order EXCEPT ![r] = [cart_version |-> v, lines |-> lines, key |-> k]]
      /\ claim' = [claim EXCEPT ![k] = d]
  <2>1. c \in Claim /\ c.state = "IN_PROGRESS" /\ c.owner_token = r /\ OrdersOf(v) = {}
    BY <1>3, <1>4, CallFacts
    DEF WriteOrder, OwnsClaim, UniqueCartVersion, ClaimOf, KeyOf, ClaimsTyped
  <2>2. c.fingerprint = v
    BY <1>4, <2>1, CreationAssumption DEF CreationInvariant, ClaimOK
  <2> QED
    BY <1>3, <1>4, <2>1, <2>2 DEF WriteOrder
<1>6. /\ WellFormed(d) /\ d.state = "COMPLETED" /\ d.owner_token = None
      /\ d.order_id = r /\ d.fingerprint = v
  BY <1>4, <1>5, CompletedTyped
<1>7. ClaimsTyped'
  BY <1>5, <1>6, CallFacts, ClaimChange
<1>8. claim'[k] = d /\ \A j \in Key \ {k} : claim'[j] = claim[j]
  BY <1>5, CallFacts DEF ClaimsTyped
<1>9. v \in 1..MaxVersion /\ lines \in [Product -> Line]
  BY <1>1, <1>4, CallFacts DEF CallsTyped, Call, VersionOf
<1>10. [cart_version |-> v, lines |-> lines, key |-> k] \in OrderRow
  BY <1>9 DEF OrderRow
<1>11. /\ OrdersTyped'
       /\ order'[r].cart_version = v /\ order'[r].lines = lines /\ order'[r].key = k
       /\ \A s \in Request \ {r} : order'[s] = order[s]
  BY <1>5, <1>10, CallFacts DEF OrdersTyped
<1>12. ~Written(r)
  BY <1>1, <1>4, <1>5, CallFacts DEF OrderOK, OrdersOf
<1>13. OrdersGrow
  BY <1>11, <1>12 DEF OrdersGrow, At
<1>14. Settled
  BY <1>4, <1>5, <1>8 DEF Settled
<1>15. Stable
  BY MovesAreStable DEF Place
<1>16. OneOrderPerVersion'
  BY <1>5, <1>11, CallFacts DEF OneOrderPerVersion, OrdersOf, Written
<1>17. OrderOf(r, v)' /\ VersionOf(r)' = v /\ KeyOf(r)' = k
  BY <1>3, <1>4, <1>9, <1>11 DEF OrderOf, Moves, VersionOf, KeyOf
<1>18. ClaimOK(k)'
  BY <1>6, <1>8, <1>9, <1>11 DEF ClaimOK, OrderOf
<1>19. Holds(lines, v)'
  <2>1. Holds(lines, v)
    BY <1>1, <1>4
  <2>2. version' \in Nat
    BY <1>2 DEF CartTypeOK
  <2>3. CartTypeOK
    BY CallFacts
  <2> QED
    BY <1>2, <2>1, <2>2, <2>3, HoldsKept
<1>20. OrderOK(r)'
  BY <1>6, <1>8, <1>11, <1>17, <1>19 DEF OrderOK, Holds, ValidSnapshot
<1>21. CallOK(r)'
  <2>1. at = "DONE" /\ request'[r].status = 202 /\ request'[r].found = r => CallOK(r)'
    BY <1>9, <1>11, <1>17 DEF CallOK, At, Answered, Moves, OrderOf, KeyOf, VersionOf
  <2>2. request'[r].status = request[r].status => CallOK(r)'
    BY <1>1, <1>9, <1>17 DEF CallOK, At, Answered, Moves, KeyOf, VersionOf
  <2> QED
    BY <2>1, <2>2
<1>22. TypeOK'
  BY <1>2, <1>7, <1>11 DEF TypeOK, ClaimsTyped, CallsTyped, OrdersTyped
<1>23. /\ \A s \in Request : request'[s] = request[s] \/ CallOK(s)'
       /\ \A s \in Request : order'[s] = order[s] \/ OrderOK(s)'
       /\ \A j \in Key : claim'[j] = claim[j] \/ ClaimOK(j)'
  BY <1>8, <1>11, <1>18, <1>20, <1>21 DEF Moves
<1> QED
  BY <1>2, <1>13, <1>14, <1>15, <1>16, <1>22, <1>23, Frame

LEMMA PersistKeeps ==
  ASSUME CreationInvariant, NEW r \in Request, PersistNewOrder(r) \/ PersistRaises(r)
  PROVE  CreationInvariant' /\ Settled
<1>1. request[r].at = "PERSIST" /\ UNCHANGED cartVars
  BY DEF PersistNewOrder, PersistRaises, At
<1>2. faults' \in 0..MaxFaults
  BY CallFacts, CreationAssumption DEF PersistNewOrder, PersistRaises, Fault
<1>3. CartTypeOK' /\ CartOK' /\ CartKept
  BY <1>1, CallFacts, CartUntouched
<1>4. CASE WriteOrder(r) /\ Reply(r, 202, r)
  <2>1. /\ CallsTyped' /\ Moves(r, "DONE")
        /\ request'[r].status = 202 /\ request'[r].found = r
    BY <1>4, CallFacts, ReplyFacts
  <2> QED
    BY <1>1, <1>2, <1>4, <2>1, WriteKeeps
<1>5. CASE WriteOrder(r) /\ Goto(r, "MARK_FAILED")
  <2>1. CallsTyped' /\ Moves(r, "MARK_FAILED") /\ request'[r].status = request[r].status
    BY <1>5, CallFacts, GotoFacts DEF Place
  <2> QED
    BY <1>1, <1>2, <1>5, <2>1, WriteKeeps
<1>6. ASSUME NEW at \in {"DELETE_CLAIM", "MARK_FAILED", "WINNER"}, Goto(r, at),
             UNCHANGED orderVars
      PROVE  CreationInvariant' /\ Settled
  <2>1. CallsTyped' /\ Moves(r, at) /\ request'[r].status = request[r].status
    BY <1>6, CallFacts, GotoFacts DEF Place
  <2>2. ClaimsTyped' /\ Settled /\ order' = order /\ claim' = claim
    BY <1>6, CallFacts DEF ClaimsTyped, Settled, orderVars
  <2> QED
    BY <1>1, <1>2, <1>3, <2>1, <2>2, CallFacts, PlainMove DEF Place
<1> QED
  BY <1>4, <1>5, <1>6 DEF PersistNewOrder, PersistRaises

LEMMA FailedTyped ==
  ASSUME NEW c \in Claim, c.state # "COMPLETED", c.order_id = None,
         NEW d, d = [c EXCEPT !.state = "FAILED_RETRYABLE", !.owner_token = None,
                              !.lease_over = FALSE]
  PROVE  WellFormed(d) /\ d.state = "FAILED_RETRYABLE" /\ d.owner_token = None
<1>1. d = [state |-> "FAILED_RETRYABLE", fingerprint |-> c.fingerprint, owner_token |-> None,
           lease_over |-> FALSE, order_id |-> c.order_id]
  BY Zenon DEF Claim
<1> QED
  BY <1>1 DEF WellFormed, Claim

\* A call that gives up its claim: nobody's claim is well-founded by itself.
LEMMA GiveUpKeeps ==
  ASSUME CreationInvariant, NEW r \in Request, MarkClaimFailed(r) \/ DeleteClaim(r)
  PROVE  CreationInvariant' /\ Settled
<1>1. /\ request[r].at \in {"MARK_FAILED", "DELETE_CLAIM"}
      /\ order' = order /\ faults' = faults /\ UNCHANGED cartVars /\ Reply(r, 500, None)
  BY DEF MarkClaimFailed, DeleteClaim, At
<1>2. CartTypeOK' /\ CartOK' /\ CartKept
  BY <1>1, CallFacts, CartUntouched
<1>3. PICK k \in Key : k = KeyOf(r)
  BY <1>1, CallFacts DEF At
<1>4. CallsTyped' /\ Moves(r, "DONE") /\ request'[r].status = 500
  BY <1>1, CallFacts, ReplyFacts
<1>5. CASE claim' = claim
  <2>1. ClaimsTyped' /\ Settled
    BY <1>5, CallFacts DEF ClaimsTyped, Settled
  <2> QED
    BY <1>1, <1>2, <1>4, <1>5, <2>1, CallFacts, PlainMove DEF Place
<1>6. ASSUME NEW c, WellFormed(c), c.owner_token = None, c.state # "COMPLETED",
             claim[k].state # "COMPLETED", claim' = [claim EXCEPT ![k] = c]
      PROVE  CreationInvariant' /\ Settled
  <2>1. ClaimsTyped'
    BY <1>6, CallFacts, ClaimChange
  <2>2. claim'[k] = c /\ \A j \in Key \ {k} : claim'[j] = claim[j]
    BY <1>6, CallFacts DEF ClaimsTyped
  <2>3. ClaimOK(k)' /\ Settled
    BY <1>6, <2>2 DEF ClaimOK, Settled
  <2> QED
    BY <1>1, <1>2, <1>4, <2>1, <2>2, <2>3, CallFacts, PlainMove DEF Place
<1>7. CASE /\ MayMarkFailed(r)
           /\ claim' = [claim EXCEPT ![KeyOf(r)].state = "FAILED_RETRYABLE",
                          ![KeyOf(r)].owner_token = None, ![KeyOf(r)].lease_over = FALSE]
  <2>1. PICK c : c = [claim[k] EXCEPT !.state = "FAILED_RETRYABLE", !.owner_token = None,
                                      !.lease_over = FALSE]
    OBVIOUS
  <2>2. claim[k] \in Claim /\ claim[k].state # "COMPLETED" /\ claim[k].order_id = None
    BY <1>3, <1>7, CallFacts DEF MayMarkFailed, ClaimOf, KeyOf, ClaimsTyped
  <2>3. WellFormed(c) /\ c.state = "FAILED_RETRYABLE" /\ c.owner_token = None
    BY <2>1, <2>2, FailedTyped
  <2>4. claim' = [claim EXCEPT ![k] = c]
    <3>1. claim \in [Key -> Claim]
      BY CallFacts DEF ClaimsTyped
    <3> QED
      BY <1>3, <1>7, <2>1, <3>1, Zenon
  <2> QED
    BY <1>6, <2>2, <2>3, <2>4
<1>8. CASE OwnsClaim(r) /\ claim' = [claim EXCEPT ![KeyOf(r)] = NoClaim]
  <2>1. WellFormed(NoClaim) /\ NoClaim.owner_token = None /\ NoClaim.state # "COMPLETED"
    BY NoClaimTyped DEF NoClaim
  <2>2. claim[k].state # "COMPLETED"
    BY <1>3, <1>8 DEF OwnsClaim, ClaimOf, KeyOf
  <2> QED
    BY <1>3, <1>6, <1>8, <2>1, <2>2
<1> QED
  BY <1>5, <1>7, <1>8 DEF MarkClaimFailed, DeleteClaim

-----------------------------------------------------------------------------
(* Time and faults *)

LEMMA LeaseEndsKeeps ==
  ASSUME CreationInvariant, NEW k \in Key, LeaseEnds(k)
  PROVE  CreationInvariant' /\ Settled
<1>0. TypeOK /\ CartTypeOK /\ CartOK /\ ClaimsTyped /\ OneOrderPerVersion /\ ClaimOK(k)
  BY TypeParts DEF CreationInvariant
<1>1. UNCHANGED cartVars /\ order' = order /\ request' = request /\ faults' = faults
      /\ claim[k].state = "IN_PROGRESS"
  BY DEF LeaseEnds
<1>2. CartTypeOK' /\ CartOK' /\ CartKept
  BY <1>0, <1>1, CartUntouched
<1>3. PICK c, d : c = claim[k] /\ d = [claim[k] EXCEPT !.lease_over = TRUE]
  OBVIOUS
<1>4. claim' = [claim EXCEPT ![k] = d]
  BY <1>3 DEF LeaseEnds
<1>5. /\ WellFormed(d) /\ d.owner_token = c.owner_token /\ d.fingerprint = c.fingerprint
      /\ d.state = "IN_PROGRESS"
  BY <1>0, <1>1, <1>3 DEF WellFormed, Claim, ClaimsTyped
<1>6. ClaimsTyped' /\ claim'[k] = d /\ \A j \in Key \ {k} : claim'[j] = claim[j]
  BY <1>0, <1>4, <1>5, ClaimChange DEF ClaimsTyped
<1>7. Settled
  BY <1>1, <1>6 DEF Settled
<1>8. ClaimOK(k)'
  BY <1>0, <1>1, <1>3, <1>5, <1>6 DEF ClaimOK, At, KeyOf, VersionOf
<1>9. TypeOK'
  BY <1>0, <1>1, <1>2, <1>6 DEF TypeOK, ClaimsTyped
<1>10. Stable
  BY <1>1 DEF Stable, At
<1>11. OrdersGrow /\ OneOrderPerVersion'
  BY <1>0, <1>1, OrdersUntouched
<1> QED
  BY <1>1, <1>2, <1>6, <1>7, <1>8, <1>9, <1>10, <1>11, Frame

LEMMA FaultKeeps ==
  ASSUME CreationInvariant, NEW r \in Request, SnapshotUnavailable(r) \/ Crash(r)
  PROVE  CreationInvariant' /\ Settled
<1>1. /\ request[r].at \notin {"NEW", "DONE"}
      /\ UNCHANGED cartVars /\ order' = order /\ claim' = claim
  BY DEF SnapshotUnavailable, Crash, At, orderVars
<1>2. faults' \in 0..MaxFaults
  BY CallFacts, CreationAssumption DEF SnapshotUnavailable, Crash, Fault
<1>3. CartTypeOK' /\ CartOK' /\ CartKept
  BY <1>1, CallFacts, CartUntouched
<1>4. ClaimsTyped' /\ Settled
  BY <1>1, CallFacts DEF ClaimsTyped, Settled
<1>5. CASE Goto(r, "MARK_FAILED")
  <2>1. CallsTyped' /\ Moves(r, "MARK_FAILED") /\ request'[r].status = request[r].status
    BY <1>5, CallFacts, GotoFacts DEF Place
  <2> QED
    BY <1>1, <1>2, <1>3, <1>4, <2>1, PlainMove DEF Place
<1>6. CASE Reply(r, 500, None)
  <2>1. CallsTyped' /\ Moves(r, "DONE") /\ request'[r].status = 500
    BY <1>6, CallFacts, ReplyFacts
  <2> QED
    BY <1>1, <1>2, <1>3, <1>4, <2>1, PlainMove DEF Place
<1> QED
  BY <1>5, <1>6 DEF SnapshotUnavailable, Crash

-----------------------------------------------------------------------------
(* The theorems *)

LEMMA InitEstablishes == Init => CreationInvariant
<1> SUFFICES ASSUME Init
             PROVE  CreationInvariant
  OBVIOUS
<1>1. PricesNow \in [Product -> Prices]
  BY CartAssumption DEF Init, CartInit, PricesNow, Prices
<1>2. CartTypeOK
  <2>1. page \in [version : 0..MaxVersion, prices : [Product -> Prices], read : BOOLEAN]
    BY <1>1, CartAssumption DEF Init, CartInit
  <2> QED
    BY <2>1, CartAssumption DEF Init, CartInit, CartTypeOK, CartItem, NoRow
<1>3. CartOK
  BY CartAssumption DEF Init, CartInit, CartOK, InCart, OpenedVersion, Quantities, NoRow
<1>4. ClaimsTyped
  BY NoClaimTyped DEF Init, CreationInit, ClaimsTyped, WellFormed
<1>5. OrdersTyped /\ \A r \in Request : order[r].cart_version = 0
  BY NoLinesTyped, CartAssumption DEF Init, CreationInit, OrdersTyped, OrderRow
<1>6. CallsTyped /\ \A r \in Request : request[r].at = "NEW" /\ request[r].status = 0
  BY <1>1, NoLinesTyped, CartAssumption DEF Init, CreationInit, CallsTyped, Call
<1>7. TypeOK
  BY <1>2, <1>4, <1>5, <1>6, TypeParts, CreationAssumption DEF Init, CreationInit
<1>8. \A r \in Request : CallOK(r) /\ OrderOK(r)
  BY <1>5, <1>6 DEF CallOK, OrderOK, Written, Answered, At
<1>9. \A k \in Key : ClaimOK(k)
  BY DEF Init, CreationInit, ClaimOK, NoClaim
<1>10. OneOrderPerVersion
  BY <1>5 DEF OneOrderPerVersion, Written
<1> QED
  BY <1>3, <1>7, <1>8, <1>9, <1>10 DEF CreationInvariant

LEMMA CartStepIsFine ==
  ASSUME CreationInvariant, CartStep \/ UNCHANGED cartVars, UNCHANGED creationVars
  PROVE  CreationInvariant' /\ Settled
<1>1. /\ TypeOK /\ CartTypeOK /\ CartOK /\ OneOrderPerVersion
  BY TypeParts DEF CreationInvariant
<1>2. order' = order /\ claim' = claim /\ request' = request /\ faults' = faults
  BY DEF creationVars
<1>3. CartTypeOK' /\ CartOK' /\ CartKept
  BY <1>1, CartStepKeeps, CartUntouched
<1>4. TypeOK'
  BY <1>1, <1>2, <1>3 DEF TypeOK
<1>5. Stable /\ Settled
  BY <1>2 DEF Stable, Settled, At
<1>6. OrdersGrow /\ OneOrderPerVersion'
  BY <1>1, <1>2, OrdersUntouched
<1> QED
  BY <1>2, <1>3, <1>4, <1>5, <1>6, Frame

LEMMA NextKeeps ==
  ASSUME CreationInvariant, [Next]_vars
  PROVE  CreationInvariant' /\ Settled
<1>1. CASE CartStep /\ UNCHANGED creationVars
  BY <1>1, CartStepIsFine
<1>2. ASSUME NEW r \in Request, NEW k \in Key, Submit(r, k)
      PROVE  CreationInvariant' /\ Settled
  BY <1>2, SubmitKeeps
<1>3. ASSUME NEW r \in Request, Handle(r)
      PROVE  CreationInvariant' /\ Settled
  BY <1>3, InsertClaimKeeps, LockClaimKeeps, FindKeeps, CompleteKeeps, SnapshotKeeps,
     PersistKeeps, GiveUpKeeps DEF Handle
<1>4. ASSUME NEW r \in Request, SnapshotUnavailable(r) \/ PersistRaises(r) \/ Crash(r)
      PROVE  CreationInvariant' /\ Settled
  BY <1>4, FaultKeeps, PersistKeeps
<1>5. ASSUME NEW k \in Key, LeaseEnds(k)
      PROVE  CreationInvariant' /\ Settled
  BY <1>5, LeaseEndsKeeps
<1>6. CASE UNCHANGED vars
  BY <1>6, CartStepIsFine DEF vars
<1> QED
  BY <1>1, <1>2, <1>3, <1>4, <1>5, <1>6 DEF Next

\* The invariant holds in every state the calls, the cart and the faults reach.
THEOREM Invariance == Spec => []CreationInvariant
<1>1. CreationInvariant /\ [Next]_vars => CreationInvariant'
  BY NextKeeps
<1> QED
  BY InitEstablishes, <1>1, PTL DEF Spec

\* Types, and that a claim has an owner exactly while it is in progress and
\* an order exactly when it is completed.
THEOREM TypeCorrect == Spec => []TypeOK
<1>1. CreationInvariant => TypeOK
  BY DEF CreationInvariant
<1> QED
  BY Invariance, <1>1, PTL

\* Every order is its cart version, row by row.
THEOREM OrderIsItsVersion == Spec => []OrderHoldsVersion
<1>1. CreationInvariant => OrderHoldsVersion
  BY DEF CreationInvariant, OrderOK, OrderHoldsVersion, Holds, QuantitiesOf, ValidSnapshot
<1> QED
  BY Invariance, <1>1, PTL

\* All successful answers for one cart version name one order.
THEOREM AnswersAlwaysAgree == Spec => []AnswersAgree
<1>1. ASSUME CreationInvariant
      PROVE  AnswersAgree
  <2> SUFFICES ASSUME NEW r \in Request, Answered(r)
               PROVE  /\ order[request[r].found].cart_version = VersionOf(r)
                      /\ \A s \in Request \ {r} :
                           Answered(s) /\ VersionOf(s) = VersionOf(r) =>
                             /\ request[s].found = request[r].found
                             /\ {request[r].status, request[s].status} # {202}
    BY DEF AnswersAgree
  <2>1. \A s \in Request : Answered(s) =>
          /\ OrderOf(request[s].found, VersionOf(s))
          /\ request[s].status = 202 => request[s].found = s
    BY <1>1 DEF CreationInvariant, CallOK
  <2>2. ASSUME NEW s \in Request \ {r}, Answered(s), VersionOf(s) = VersionOf(r)
        PROVE  /\ request[s].found = request[r].found
               /\ {request[r].status, request[s].status} # {202}
    <3>1. request[s].found = request[r].found
      BY <1>1, <2>1, <2>2 DEF CreationInvariant, OneOrderPerVersion, OrderOf, Written
    <3>2. ~(request[r].status = 202 /\ request[s].status = 202)
      BY <2>1, <2>2, <3>1
    <3> QED
      BY <3>1, <3>2
  <2> QED
    BY <2>1, <2>2 DEF OrderOf
<1> QED
  BY Invariance, <1>1, PTL

\* An order is always found again under its key.
THEOREM OrderHasItsKey == Spec => []OrderAnswersItsKey
<1>1. CreationInvariant => OrderAnswersItsKey
  BY DEF CreationInvariant, OrderOK, OrderAnswersItsKey
<1> QED
  BY Invariance, <1>1, PTL

\* A completed key is never touched again.
THEOREM KeyStaysSettled == Spec => KeySettles
<1>1. CreationInvariant /\ [Next]_vars =>
        [\A k \in Key : claim[k].state = "COMPLETED" => claim'[k] = claim[k]]_vars
  BY NextKeeps DEF Settled
<1> QED
  BY Invariance, <1>1, PTL DEF Spec, KeySettles

-----------------------------------------------------------------------------
(* The owner of a claim *)

\* Call r may change the claim of its own key when nobody's lease runs on it
\* or when it holds it itself.
LEMMA OnlyTheOwner ==
  ASSUME CreationInvariant, NEW r \in Request, Handle(r) \/ PersistRaises(r),
         NEW k \in Key, claim[k].state = "IN_PROGRESS", ~claim[k].lease_over,
         claim'[k].owner_token # claim[k].owner_token
  PROVE  claim[k].owner_token = r /\ request'[r].at # request[r].at
<1>1. ClaimsTyped /\ CallsTyped
  BY CallFacts
<1>2. k # KeyOf(r) => claim'[k] = claim[k]
  <2>1. UNCHANGED claim \/ (\E c : claim' = [claim EXCEPT ![KeyOf(r)] = c])
          \/ MarkClaimFailed(r)
    BY DEF Handle, PersistRaises, InsertClaim, LockClaim, FindOrderByCartVersion, FindWinner,
       CompleteClaimWithExistingOrder, GetCartSnapshot, PersistNewOrder, DeleteClaim,
       WriteOrder, orderVars
  <2>2. MarkClaimFailed(r) /\ k # KeyOf(r) => claim'[k] = claim[k]
    BY <1>1 DEF MarkClaimFailed, ClaimsTyped
  <2> QED
    BY <1>1, <2>1, <2>2 DEF ClaimsTyped
<1>3. k = KeyOf(r)
  BY <1>2
<1>4. ASSUME NEW at, Reply(r, 200, at) \/ Reply(r, 202, at) \/ Reply(r, 500, at)
      PROVE  request'[r].at = "DONE"
  BY <1>1, <1>4, ReplyRecord DEF CallsTyped
<1>5. ASSUME NEW at \in Place, Goto(r, at)
      PROVE  request'[r].at = at
  BY <1>1, <1>5, GotoFacts DEF Moves
<1>6. ~InsertClaim(r) /\ ~LockClaim(r)
  BY <1>3 DEF InsertClaim, LockClaim, ClaimOf, KeyOf, NoClaim, Available
<1>7. CASE CompleteClaimWithExistingOrder(r)
  BY <1>3, <1>4, <1>7 DEF CompleteClaimWithExistingOrder, ClaimOf, KeyOf, At
<1>8. CASE PersistNewOrder(r)
  BY <1>3, <1>4, <1>8 DEF PersistNewOrder, WriteOrder, OwnsClaim, ClaimOf, KeyOf, At, orderVars
<1>9. CASE PersistRaises(r)
  BY <1>3, <1>5, <1>9 DEF PersistRaises, WriteOrder, OwnsClaim, ClaimOf, KeyOf, At, orderVars,
                          Place
<1>10. CASE MarkClaimFailed(r)
  BY <1>3, <1>4, <1>10 DEF MarkClaimFailed, MayMarkFailed, ClaimOf, KeyOf, At
<1>11. CASE DeleteClaim(r)
  BY <1>3, <1>4, <1>11 DEF DeleteClaim, OwnsClaim, ClaimOf, KeyOf, At
<1>12. ~FindOrderByCartVersion(r) /\ ~FindWinner(r) /\ ~GetCartSnapshot(r)
  BY DEF FindOrderByCartVersion, FindWinner, GetCartSnapshot, orderVars
<1> QED
  BY <1>6, <1>7, <1>8, <1>9, <1>10, <1>11, <1>12 DEF Handle

\* While its lease runs, a claim changes hands only by a step of its owner.
THEOREM OwnerKeeps == Spec => OwnerKeepsClaim
<1>1. ASSUME CreationInvariant, [Next]_vars, NEW k \in Key,
             claim[k].state = "IN_PROGRESS", ~claim[k].lease_over,
             claim'[k].owner_token # claim[k].owner_token
      PROVE  request'[claim[k].owner_token] # request[claim[k].owner_token]
  <2>1. claim' # claim
    BY <1>1
  <2>2. ~(CartStep /\ UNCHANGED creationVars) /\ ~UNCHANGED vars
    BY <2>1 DEF creationVars, vars
  <2>3. \A r \in Request, j \in Key : ~Submit(r, j)
    BY <2>1 DEF Submit, orderVars
  <2>4. \A r \in Request : ~SnapshotUnavailable(r) /\ ~Crash(r)
    BY <2>1 DEF SnapshotUnavailable, Crash, orderVars
  <2>5. \A j \in Key : ~LeaseEnds(j)
    BY <1>1 DEF LeaseEnds, CreationInvariant, TypeOK, Claim
  <2>6. PICK r \in Request : Handle(r) \/ PersistRaises(r)
    BY <1>1, <2>2, <2>3, <2>4, <2>5 DEF Next
  <2> QED
    BY <1>1, <2>6, OnlyTheOwner
<1>2. CreationInvariant /\ [Next]_vars =>
        [\A k \in Key :
           claim[k].state = "IN_PROGRESS" /\ ~claim[k].lease_over
             /\ claim'[k].owner_token # claim[k].owner_token =>
               request'[claim[k].owner_token] # request[claim[k].owner_token]]_vars
  BY <1>1
<1> QED
  BY Invariance, <1>2, PTL DEF Spec, OwnerKeepsClaim
================================================================================

------------------------------ MODULE OrderCreation ------------------------------
(***************************************************************************)
(* POST /api/v1/orders of order-service (services/order_creation.py) for   *)
(* one customer: the claim of the idempotency key, the snapshot of the     *)
(* cart (clients/customer_service.py and its answer in customer-service)   *)
(* and the transaction that writes the order.                              *)
(*                                                                         *)
(* An action is one transaction or one call.  A request is one call of the *)
(* endpoint; its owner_token and the id of the order it may write are its  *)
(* own name.  An order row stands for what its transaction writes with it: *)
(* items, history and the two outbox rows.                                 *)
(***************************************************************************)
EXTENDS Cart

CONSTANTS
  Key,          \* idempotency keys
  Request,      \* calls of the endpoint
  None,         \* no order, no owner
  MaxFaults     \* bound: crashes and failing calls

ASSUME CreationAssumption ==
  /\ None \notin Request
  /\ MaxFaults \in Nat

VARIABLES
  claim,      \* the order_idempotency row of each key
  order,      \* the orders row a request has written
  request,    \* where each call is
  faults      \* faults so far

orderVars == <<claim, order>>
creationVars == <<claim, order, request, faults>>
vars == <<cartVars, creationVars>>

Claim ==
  [state : {"ABSENT", "IN_PROGRESS", "COMPLETED", "FAILED_RETRYABLE"},
   fingerprint : 0..MaxVersion,   \* of the request, which is its cart version
   owner_token : Request \cup {None},
   lease_over : BOOLEAN,
   order_id : Request \cup {None}]

\* cart_version 0: not written.
OrderRow == [cart_version : 0..MaxVersion, lines : [Product -> Line], key : Key \cup {None}]

Call ==
  [at : {"NEW", "CLAIM", "LOCK", "FIND", "SNAPSHOT", "PERSIST", "WINNER", "COMPLETE",
         "MARK_FAILED", "DELETE_CLAIM", "DONE"},
   key : Key \cup {None},
   cart_version : 0..MaxVersion,
   confirmed : [Product -> Prices],   \* the prices the customer saw
   snapshot : [Product -> Line],
   found : Request \cup {None},
   status : {0, 200, 202, 500}]    \* 500 for every error and for no answer

TypeOK ==
  /\ CartTypeOK
  /\ claim \in [Key -> Claim]
  /\ \A k \in Key : claim[k].owner_token # None <=> claim[k].state = "IN_PROGRESS"
  /\ \A k \in Key : claim[k].order_id # None <=> claim[k].state = "COMPLETED"
  /\ order \in [Request -> OrderRow]
  /\ request \in [Request -> Call]
  /\ faults \in 0..MaxFaults

NoClaim ==
  [state |-> "ABSENT", fingerprint |-> 0, owner_token |-> None, lease_over |-> FALSE,
   order_id |-> None]

NoLines == [p \in Product |-> [quantity |-> 0, offer |-> FirstOffer[p]]]

CreationInit ==
  /\ claim = [k \in Key |-> NoClaim]
  /\ order = [r \in Request |-> [cart_version |-> 0, lines |-> NoLines, key |-> None]]
  /\ request = [r \in Request |->
       [at |-> "NEW", key |-> None, cart_version |-> 0, confirmed |-> PricesNow,
        snapshot |-> NoLines, found |-> None, status |-> 0]]
  /\ faults = 0

At(r, at) == request[r].at = at
KeyOf(r) == request[r].key
ClaimOf(r) == claim[request[r].key]
VersionOf(r) == request[r].cart_version

Goto(r, at) == request' = [request EXCEPT ![r].at = at, ![r].snapshot = NoLines]

Reply(r, status, id) ==
  request' = [request EXCEPT ![r].at = "DONE", ![r].status = status, ![r].found = id,
                             ![r].snapshot = NoLines]

OrdersOf(v) == {r \in Request : order[r].cart_version = v}

-----------------------------------------------------------------------------
(* _claim_idempotency *)

\* The customer checks out the page they see, under any key.
Submit(r, k) ==
  /\ At(r, "NEW")
  /\ page.version > 0
  /\ request' = [request EXCEPT ![r].at = "CLAIM", ![r].key = k,
       ![r].cart_version = page.version, ![r].confirmed = page.prices]
  /\ UNCHANGED <<cartVars, orderVars, faults>>

Claimed(r) ==
  [NoClaim EXCEPT !.state = "IN_PROGRESS", !.fingerprint = VersionOf(r),
                  !.owner_token = r]

InsertClaim(r) ==
  /\ At(r, "CLAIM")
  /\ IF ClaimOf(r) = NoClaim
     THEN claim' = [claim EXCEPT ![KeyOf(r)] = Claimed(r)] /\ Goto(r, "FIND")
     ELSE Goto(r, "LOCK") /\ UNCHANGED claim
  /\ UNCHANGED <<cartVars, order, faults>>

\* Mutant: a running lease is not respected.
NotCompleted(c) == c.state \in {"FAILED_RETRYABLE", "IN_PROGRESS"}

\* A claim that was deleted between the insert and the lock is an error.
SamePayload(r) ==
  ClaimOf(r) # NoClaim /\ ClaimOf(r).fingerprint = VersionOf(r)

Available(c) == c.state = "FAILED_RETRYABLE" \/ (c.state = "IN_PROGRESS" /\ c.lease_over)

LockClaim(r) ==
  /\ At(r, "LOCK")
  /\ \/ /\ SamePayload(r) /\ Available(ClaimOf(r))
        /\ claim' = [claim EXCEPT ![KeyOf(r)] = Claimed(r)]
        /\ Goto(r, "FIND")
     \/ /\ SamePayload(r) /\ ClaimOf(r).state = "COMPLETED"
        /\ Reply(r, 200, ClaimOf(r).order_id)
        /\ UNCHANGED claim
     \/ /\ ~SamePayload(r) \/ (ClaimOf(r).state = "IN_PROGRESS" /\ ~ClaimOf(r).lease_over)
        /\ Reply(r, 500, None)
        /\ UNCHANGED claim
  /\ UNCHANGED <<cartVars, order, faults>>

-----------------------------------------------------------------------------
(* An order of the same cart version *)

FindOrderByCartVersion(r) ==
  /\ At(r, "FIND")
  /\ \/ \E winner \in OrdersOf(VersionOf(r)) :
          request' = [request EXCEPT ![r].at = "COMPLETE", ![r].found = winner]
     \/ OrdersOf(VersionOf(r)) = {} /\ Goto(r, "SNAPSHOT")
  /\ UNCHANGED <<cartVars, orderVars, faults>>

\* After the unique constraint has refused the order of the loser.
FindWinner(r) ==
  /\ At(r, "WINNER")
  /\ \E winner \in OrdersOf(VersionOf(r)) :
       request' = [request EXCEPT ![r].at = "COMPLETE", ![r].found = winner]
  /\ UNCHANGED <<cartVars, orderVars, faults>>

\* Mutant: the completed claim keeps its owner.
CompletedWithOwner(c, id) ==
  [c EXCEPT !.state = "COMPLETED", !.lease_over = FALSE, !.order_id = id]

Completed(c, id) ==
  [c EXCEPT !.state = "COMPLETED", !.owner_token = None, !.lease_over = FALSE,
            !.order_id = id]

CompleteClaimWithExistingOrder(r) ==
  LET c == ClaimOf(r)
      id == request[r].found
  IN  /\ At(r, "COMPLETE")
      /\ \/ /\ c.state = "COMPLETED" /\ c.order_id = id
            /\ Reply(r, 200, id)
            /\ UNCHANGED claim
         \/ /\ c.owner_token = r
            /\ claim' = [claim EXCEPT ![KeyOf(r)] = Completed(c, id)]
            /\ Reply(r, 200, id)
         \/ /\ c.owner_token # r
            /\ ~(c.state = "COMPLETED" /\ c.order_id = id)
            /\ Reply(r, 500, None)
            /\ UNCHANGED claim
      /\ UNCHANGED <<cartVars, order, faults>>

-----------------------------------------------------------------------------
(* The snapshot *)

SuppliersOf(lines) ==
  {lines[p].offer.supplier : p \in {q \in Product : lines[q].quantity > 0}}

\* Mutant: the snapshot is of any version.
AnyVersion(r) == TRUE

SameCartVersion(r) == OpenedVersion = VersionOf(r)

\* Not empty and one supplier.
ValidSnapshot(lines) == Cardinality(SuppliersOf(lines)) = 1

GetCartSnapshot(r) ==
  /\ At(r, "SNAPSHOT")
  /\ OpenCart
  /\ IF SameCartVersion(r) /\ ValidSnapshot(Lines)
     THEN request' = [request EXCEPT ![r].at = "PERSIST", ![r].snapshot = Lines]
     ELSE Goto(r, "DELETE_CLAIM")
  /\ UNCHANGED <<page, orderVars, faults>>

-----------------------------------------------------------------------------
(* The order *)

\* Mutants: whoever reached the transaction owns the claim; the constraint
\* is on the version and the key.
AnyOwner(r) == ClaimOf(r) # NoClaim
UniquePerKey(r) == \A s \in OrdersOf(VersionOf(r)) : order[s].key # KeyOf(r)

OwnsClaim(r) == ClaimOf(r).state = "IN_PROGRESS" /\ ClaimOf(r).owner_token = r

\* uq_orders_customer_cart_version
UniqueCartVersion(r) == OrdersOf(VersionOf(r)) = {}

WriteOrder(r) ==
  /\ OwnsClaim(r) /\ UniqueCartVersion(r)
  /\ order' = [order EXCEPT ![r] = [cart_version |-> VersionOf(r),
       lines |-> request[r].snapshot, key |-> KeyOf(r)]]
  /\ claim' = [claim EXCEPT ![KeyOf(r)] = Completed(@, r)]

\* A claim that is gone is a final error, one of another owner is not.
PersistNewOrder(r) ==
  /\ At(r, "PERSIST")
  /\ \/ WriteOrder(r) /\ Reply(r, 202, r)
     \/ /\ ~OwnsClaim(r)
        /\ Goto(r, IF ClaimOf(r) = NoClaim THEN "DELETE_CLAIM" ELSE "MARK_FAILED")
        /\ UNCHANGED orderVars
     \/ /\ OwnsClaim(r) /\ ~UniqueCartVersion(r)
        /\ Goto(r, "WINNER")
        /\ UNCHANGED orderVars
  /\ UNCHANGED <<cartVars, faults>>

\* Mutant: the failure of an overtaken call is recorded too.
FailsAnyClaim(r) == ClaimOf(r).state \in {"IN_PROGRESS", "COMPLETED"}

MayMarkFailed(r) == ClaimOf(r).state # "COMPLETED" /\ ClaimOf(r).owner_token = r

MarkClaimFailed(r) ==
  /\ At(r, "MARK_FAILED")
  /\ claim' = IF MayMarkFailed(r)
              THEN [claim EXCEPT ![KeyOf(r)].state = "FAILED_RETRYABLE",
                      ![KeyOf(r)].owner_token = None, ![KeyOf(r)].lease_over = FALSE]
              ELSE claim
  /\ Reply(r, 500, None)
  /\ UNCHANGED <<cartVars, order, faults>>

DeleteClaim(r) ==
  /\ At(r, "DELETE_CLAIM")
  /\ claim' = IF OwnsClaim(r) THEN [claim EXCEPT ![KeyOf(r)] = NoClaim] ELSE claim
  /\ Reply(r, 500, None)
  /\ UNCHANGED <<cartVars, order, faults>>

-----------------------------------------------------------------------------
(* Time and faults *)

\* 60 seconds are over, whatever the owner is doing.
LeaseEnds(k) ==
  /\ claim[k].state = "IN_PROGRESS" /\ ~claim[k].lease_over
  /\ claim' = [claim EXCEPT ![k].lease_over = TRUE]
  /\ UNCHANGED <<cartVars, order, request, faults>>

Fault ==
  /\ faults < MaxFaults
  /\ faults' = faults + 1

\* Three attempts have timed out or were answered with an error, or the
\* projection lacks a product.
SnapshotUnavailable(r) ==
  /\ Fault
  /\ At(r, "SNAPSHOT")
  /\ Goto(r, "MARK_FAILED")
  /\ UNCHANGED <<cartVars, orderVars>>

\* The transaction raises, whether or not it was committed.
PersistRaises(r) ==
  /\ Fault
  /\ At(r, "PERSIST")
  /\ WriteOrder(r) \/ UNCHANGED orderVars
  /\ Goto(r, "MARK_FAILED")
  /\ UNCHANGED cartVars

\* The process is killed, or a step outside the handlers raises.
Crash(r) ==
  /\ Fault
  /\ request[r].at \notin {"NEW", "DONE"}
  /\ Reply(r, 500, None)
  /\ UNCHANGED <<cartVars, orderVars>>

-----------------------------------------------------------------------------

Handle(r) ==
  \/ InsertClaim(r)
  \/ LockClaim(r)
  \/ FindOrderByCartVersion(r)
  \/ FindWinner(r)
  \/ CompleteClaimWithExistingOrder(r)
  \/ GetCartSnapshot(r)
  \/ PersistNewOrder(r)
  \/ MarkClaimFailed(r)
  \/ DeleteClaim(r)

Init == CartInit /\ CreationInit

Next ==
  \/ CartStep /\ UNCHANGED creationVars
  \/ \E r \in Request :
       \/ \E k \in Key : Submit(r, k)
       \/ Handle(r)
       \/ SnapshotUnavailable(r) \/ PersistRaises(r) \/ Crash(r)
  \/ \E k \in Key : LeaseEnds(k)

Spec == Init /\ [][Next]_vars
-----------------------------------------------------------------------------
(* Properties *)

Written(r) == order[r].cart_version > 0
Answered(r) == request[r].status \in {200, 202}

\* An order is made of exactly the rows the cart had under its version, not
\* none of them and all of one supplier, however the cart and the catalogue
\* move while it is made (get_cart_snapshot, validate_and_prepare_snapshot).
OrderHoldsVersion ==
  \A r \in Request : Written(r) =>
    /\ [p \in Product |-> order[r].lines[p].quantity] = contents[order[r].cart_version]
    /\ Cardinality(SuppliersOf(order[r].lines)) = 1

\* Whatever keys, repetitions and overtakings there were, the calls for one
\* cart version that succeed are all answered with the same order, an order
\* of that version, and at most one of them with 202 (create_order).
AnswersAgree ==
  \A r \in Request : Answered(r) =>
    /\ order[request[r].found].cart_version = VersionOf(r)
    /\ \A s \in Request \ {r} :
         Answered(s) /\ VersionOf(s) = VersionOf(r) =>
           /\ request[s].found = request[r].found
           /\ {request[r].status, request[s].status} # {202}

\* An order can always be had again under the key that wrote it, also when
\* the answer was lost, the commit was ambiguous or its writer was overtaken
\* and failed afterwards (_mark_claim_failed).
OrderAnswersItsKey ==
  \A r \in Request : Written(r) =>
    /\ claim[order[r].key].state = "COMPLETED"
    /\ claim[order[r].key].order_id = r

\* A completed key names the same order for ever: no call that is late fails,
\* deletes or takes over its row (_delete_claim).
KeySettles ==
  [][\A k \in Key : claim[k].state = "COMPLETED" => claim'[k] = claim[k]]_vars

\* While its lease runs, a claim is given up by its owner only: no other call
\* takes, ends or deletes it (_claim_idempotency).
OwnerKeepsClaim ==
  [][\A k \in Key :
       claim[k].state = "IN_PROGRESS" /\ ~claim[k].lease_over
         /\ claim'[k].owner_token # claim[k].owner_token =>
           request'[claim[k].owner_token] # request[claim[k].owner_token]]_vars

-----------------------------------------------------------------------------
(* What the documentation promises and the code does not keep *)

\* docs/to-be/04-order-service-architecture.md, section 15: the price of an
\* order is the one its customer confirmed on checkout.
ConfirmedPrice ==
  \A r \in Request : Written(r) =>
    \A p \in Product : order[r].lines[p].quantity > 0 =>
      order[r].lines[p].offer.price = request[r].confirmed[p]
================================================================================

---------------------------------- MODULE Cart ----------------------------------
(***************************************************************************)
(* The cart of one customer in customer-service (main.py): its rows, its   *)
(* version, the page the customer has before them and the order endpoint   *)
(* of before order-service, which still empties the cart.  Carts of        *)
(* different customers share nothing.                                      *)
(*                                                                         *)
(* A mutation is one transaction under the lock of the carts row.  Its     *)
(* checks against the projected stock and state of a product only refuse,  *)
(* so stock and state are left out.                                        *)
(***************************************************************************)
EXTENDS Naturals, FiniteSets

CONSTANTS
  Product,
  Offers,         \* what the catalogue projection may say: [supplier, price]
  FirstOffer,     \* FirstOffer[p]: what it says at the start
  MaxQuantity,    \* bound: units of one product in the cart
  MaxVersion      \* bound: versions of the cart

ASSUME CartAssumption ==
  /\ FirstOffer \in [Product -> Offers]
  /\ \A offer \in Offers : DOMAIN offer = {"supplier", "price"}
  /\ MaxQuantity \in Nat \ {0}
  /\ MaxVersion \in Nat \ {0}

VARIABLES
  offer,       \* the customer-service projection of each product
  cart_items,  \* the cart_items rows: quantity, and a row id
  version,     \* carts.version; 0 while the customer has no carts row
  contents,    \* history: the quantities under each version
  page,        \* the cart page: the version and prices GET /cart answered
  legacy       \* the rows the old POST /orders has read and will delete

cartVars == <<offer, cart_items, version, contents, page, legacy>>

NoRow == [quantity |-> 0, id |-> 0]
InCart == {p \in Product : cart_items[p] # NoRow}

\* A row's id is the version that inserted it.
CartItem == [quantity : 0..MaxQuantity, id : 0..MaxVersion]
Line == [quantity : 0..MaxQuantity, offer : Offers]
Prices == {o.price : o \in Offers}
PricesNow == [p \in Product |-> offer[p].price]
Lines == [p \in Product |-> [quantity |-> cart_items[p].quantity, offer |-> offer[p]]]

CartTypeOK ==
  /\ offer \in [Product -> Offers]
  /\ cart_items \in [Product -> CartItem]
  /\ version \in 0..MaxVersion
  /\ contents \in [1..MaxVersion -> [Product -> 0..MaxQuantity]]
  /\ page \in [version : 0..MaxVersion, prices : [Product -> Prices], read : BOOLEAN]
  /\ legacy \subseteq Product \X (1..MaxVersion)

\* A customer of before the carts table has no carts row yet.
CartInit ==
  /\ offer = FirstOffer
  /\ cart_items = [p \in Product |-> NoRow]
  /\ version \in {0, 1}
  /\ contents = [v \in 1..MaxVersion |-> [p \in Product |-> 0]]
  /\ page = [version |-> 0, prices |-> PricesNow, read |-> FALSE]
  /\ legacy = {}

-----------------------------------------------------------------------------
(* Mutations *)

\* mark_cart_mutated; a carts row created by the mutation starts at 1.
NextVersion == version + 1

Mutate(items) ==
  /\ NextVersion <= MaxVersion
  /\ version' = NextVersion
  /\ cart_items' = items
  /\ contents' = [contents EXCEPT ![version'] = [p \in Product |-> items[p].quantity]]

\* Any one row of the cart stands for its supplier (limit 1).
SupplierAccepted(p) ==
  InCart # {} => \E q \in InCart : offer[q].supplier = offer[p].supplier

AddToCart(p) ==
  /\ SupplierAccepted(p)
  /\ \E quantity \in 1..(MaxQuantity - cart_items[p].quantity) :
       Mutate([cart_items EXCEPT ![p] =
         [quantity |-> @.quantity + quantity,
          id |-> IF p \in InCart THEN @.id ELSE NextVersion]])
  /\ UNCHANGED <<offer, page, legacy>>

UpdateCartItem(p) ==
  /\ p \in InCart
  /\ \E quantity \in 1..MaxQuantity :
       Mutate([cart_items EXCEPT ![p].quantity = quantity])
  /\ UNCHANGED <<offer, page, legacy>>

DeleteCartItem(p) ==
  /\ p \in InCart
  /\ Mutate([cart_items EXCEPT ![p] = NoRow])
  /\ UNCHANGED <<offer, page, legacy>>

\* The old POST /orders reads the rows before it locks the carts row ...
ReadForLegacyOrder ==
  /\ legacy = {} /\ InCart # {}
  /\ legacy' = {<<p, cart_items[p].id>> : p \in InCart}
  /\ UNCHANGED <<offer, cart_items, version, contents, page>>

\* ... and deletes the rows it has read, whatever their quantity is now.
LegacyOrder ==
  /\ legacy # {}
  /\ Mutate([p \in Product |->
       IF <<p, cart_items[p].id>> \in legacy THEN NoRow ELSE cart_items[p]])
  /\ legacy' = {}
  /\ UNCHANGED <<offer, page>>

-----------------------------------------------------------------------------
(* Reads *)

\* A read of a cart that has no carts row creates one and commits it.
OpenedVersion == IF version = 0 THEN 1 ELSE version

OpenCart ==
  /\ version' = OpenedVersion
  /\ UNCHANGED <<offer, cart_items, contents, legacy>>

\* GET /cart reads the rows with their prices, and then, in a statement of
\* its own and without a lock, the version.
ReadCartItems ==
  /\ ~page.read
  /\ page' = [version |-> 0, prices |-> PricesNow, read |-> TRUE]
  /\ UNCHANGED <<offer, cart_items, version, contents, legacy>>

ReadCartVersion ==
  /\ page.read
  /\ OpenCart
  /\ page' = [page EXCEPT !.version = OpenedVersion, !.read = FALSE]

\* A product event changes the projection, not the carts with the product.
ProjectionChanges(p) ==
  /\ \E o \in Offers \ {offer[p]} : offer' = [offer EXCEPT ![p] = o]
  /\ UNCHANGED <<cart_items, version, contents, page, legacy>>

CartStep ==
  \/ \E p \in Product :
       AddToCart(p) \/ UpdateCartItem(p) \/ DeleteCartItem(p) \/ ProjectionChanges(p)
  \/ ReadForLegacyOrder
  \/ LegacyOrder
  \/ ReadCartItems
  \/ ReadCartVersion
================================================================================

---------------------------- MODULE PriceTimeBook ----------------------------
(***************************************************************************)
(* What the order book promises (README, "Engine Guarantees"), with no     *)
(* price levels, lists, index, volumes or error codes: a set of resting    *)
(* orders and at most one incoming order.  The incoming order executes     *)
(* against the resting orders in price-time priority for as long as one    *)
(* accepts its price; only then does its rest join the resting orders or   *)
(* disappear.  OrderBook is checked to implement this specification.       *)
(***************************************************************************)
EXTENDS Integers

CONSTANTS ClientID, Price, Quantity

\* What a client asks for; `market` takes any price, `rests` stays on the book.
Request == [client : ClientID, side : {"Buy", "Sell"}, price : Price,
            open : Quantity, market : BOOLEAN, rests : BOOLEAN]

VARIABLES
  resting,   \* the orders on the book
  incoming,  \* the order being executed, as a set of at most one
  lastID     \* orders are numbered as they arrive

vars == <<resting, incoming, lastID>>

Numbered(request, id) ==
  [id |-> id, client |-> request.client, side |-> request.side,
   price |-> request.price, open |-> request.open,
   market |-> request.market, rests |-> request.rests]

\* Order o accepts the price of the resting order r.
Accepts(o, r) ==
  /\ o.side # r.side
  /\ o.market \/ IF o.side = "Buy" THEN o.price >= r.price ELSE o.price <= r.price

\* r executes before s: price priority, then time priority.
Before(r, s) ==
  \/ IF r.side = "Buy" THEN r.price > s.price ELSE r.price < s.price
  \/ r.price = s.price /\ r.id < s.id

\* The next execution of incoming order o is against r.
NextFor(o, r) ==
  /\ o.open > 0
  /\ Accepts(o, r)
  /\ \A s \in resting : s.side = r.side /\ s # r => Before(r, s)

Init == resting = {} /\ incoming = {} /\ lastID = 0

Arrive(request) ==
  /\ lastID' = lastID + 1
  /\ incoming' = {Numbered(request, lastID + 1)}

Enter(request) == Arrive(request) /\ UNCHANGED resting

\* One execution: the smaller of the two quantities changes hands, and a
\* resting order leaves as soon as it is filled.
Trade(o, r) ==
  /\ NextFor(o, r)
  /\ LET q == IF o.open <= r.open THEN o.open ELSE r.open
     IN  /\ incoming' = {[o EXCEPT !.open = @ - q]}
         /\ resting' = (resting \ {r}) \cup
                         (IF r.open = q THEN {} ELSE {[r EXCEPT !.open = @ - q]})
  /\ UNCHANGED lastID

\* Nothing is left to execute: the rest joins the book if its kind may.
Settle(o) ==
  /\ \A r \in resting : ~NextFor(o, r)
  /\ incoming' = {}
  /\ resting' = IF o.open > 0 /\ o.rests THEN resting \cup {o} ELSE resting
  /\ UNCHANGED lastID

Cancel(r) == resting' = resting \ {r} /\ UNCHANGED <<incoming, lastID>>

\* Less quantity at the same price keeps the priority of the order.
Reduce(r, q) ==
  /\ q < r.open
  /\ resting' = (resting \ {r}) \cup {[r EXCEPT !.open = q]}
  /\ UNCHANGED <<incoming, lastID>>

\* Any other change is a new order, with the priority of a new order.
Replace(r, price, q) ==
  /\ resting' = resting \ {r}
  /\ Arrive([r EXCEPT !.price = price, !.open = q])

\* A resting order is withdrawn or reduced.
Withdraw == \E r \in resting : Cancel(r) \/ \E q \in Quantity : Reduce(r, q)

\* A new order arrives, or one that takes the place of a resting one.
Submit ==
  \/ \E r \in resting, price \in Price, q \in Quantity : Replace(r, price, q)
  \/ \E request \in Request : Enter(request)

\* (Only a submission uses up an id: said first, as it is quick to see.)
Next ==
  \/ \E o \in incoming : Settle(o) \/ \E r \in resting : Trade(o, r)
  \/ incoming = {} /\ lastID' = lastID /\ Withdraw
  \/ incoming = {} /\ lastID' # lastID /\ Submit

\* An order that has come in is executed and settled.
Spec == Init /\ [][Next]_vars /\ WF_vars(incoming # {} /\ Next)
=============================================================================

------------------------------ MODULE OrderBook ------------------------------
(***************************************************************************)
(* The limit order book of src/src/Engine/OrderBook.hpp and OrderBook.inl, *)
(* with the PriceTimePriority strategy of src/src/Matching/Matching.cpp    *)
(* that it calls back.                                                     *)
(*                                                                         *)
(* One engine thread calls Apply(cmd), which runs the handler of the       *)
(* command to completion.  The checks a handler makes before it matches    *)
(* are one step; every iteration of the matching loop is one step; what    *)
(* happens after the loop is one step.  The loop is cut into its           *)
(* iterations because the book is a shared object while it runs (the       *)
(* snapshot is taken by another thread) and because every property of the  *)
(* book must hold at each of them.                                         *)
(*                                                                         *)
(* std::map<Price, LevelData> is a function whose domain is the set of     *)
(* prices that have a level, std::list<Order> is a sequence of order ids   *)
(* whose nodes are kept in `node`, and an OrderEntry{list_it, level_it} is *)
(* the price of its level, list_it being the node the id names.            *)
(***************************************************************************)
EXTENDS Integers, Sequences, SequencesExt

CONSTANTS
  ClientID,             \* the clients
  MinPrice, MaxPrice,   \* the range of Price (an i64)
  QuantityModulus,      \* Quantity is a w-bit unsigned integer: 2^w (w = 64)
  MaxEventsPerCommand,  \* slots of t_EventScratch (128)
  MaxOrderID,           \* bound: no order gets a greater id
  Commands              \* bound: the commands Apply is called with

Price    == MinPrice .. MaxPrice
Quantity == 0 .. QuantityModulus - 1
OrderID  == Nat

Side        == {"Buy", "Sell"}
OrderType   == {"Limit", "Market", "Complex", "Stop", "StopLimit",
                "MarketIfTouched", "LimitIfTouched", "Pegged"}
TimeInForce == {"GTC", "Day", "IOC", "FOK", "GTD", "ATO", "ATC"}
MatchType   == {"Standard", "Midpoint", "HiddenLiquidity", "Auction"}
Flags       == {"Hidden", "Iceberg", "PostOnly"}

AddCommand ==
  [type : {"Add"}, clientID : ClientID, price : Price, quantity : Quantity,
   side : Side, order_type : OrderType, tif : TimeInForce,
   match_type : MatchType, flags : SUBSET Flags]
ModifyCommand ==
  [type : {"Modify"}, clientID : ClientID, orderID : OrderID,
   new_price : Price, new_quantity : Quantity]
CancelCommand ==
  [type : {"Cancel"}, clientID : ClientID, orderID : OrderID]
NoCommand == [type |-> "None"]

CommandPayload == AddCommand \cup ModifyCommand \cup CancelCommand \cup {NoCommand}

ASSUME ConstantsAssumption ==
  /\ MinPrice \in Int /\ MaxPrice \in Int
  /\ QuantityModulus \in Nat \ {0}
  /\ MaxEventsPerCommand \in Nat \ {0}
  /\ MaxOrderID \in Nat
  /\ Commands \subseteq CommandPayload

VARIABLES
  levels,          \* m_Bids (levels["Buy"]) and m_Asks (levels["Sell"])
  node,            \* the list nodes: the resting orders, by order id
  m_Orders,        \* the index: order id -> price of its level
  m_OrderCounter,
  m_TradeCounter,
  handling,        \* the command whose matching is under way
  taker,           \* the order on the stack of InternalAddOrder
  trades,          \* the Trade payloads RecordFill stored for this command
  reply            \* the last event of the command, stored by Handle

book == <<levels, node, m_Orders>>
vars == <<levels, node, m_Orders, m_OrderCounter, m_TradeCounter,
          handling, taker, trades, reply>>

Order ==
  [orderID : OrderID, clientID : ClientID, price : Price, remaining : Quantity,
   side : Side, order_type : OrderType, tif : TimeInForce, flags : SUBSET Flags]
NoOrder == [orderID |-> 0, remaining |-> 0]

LevelData == [volume : Quantity, orders : Seq(OrderID)]
NoEvent   == [type |-> "None"]

Idle == handling = NoCommand

-----------------------------------------------------------------------------
(* The two sides of the book.                                              *)

Opposite(side) == IF side = "Buy" THEN "Sell" ELSE "Buy"

\* Price p comes before q in the map of a side: std::greater for the bids,
\* std::less for the asks.
Better(side, p, q) == IF side = "Buy" THEN p > q ELSE p < q

Prices(lv, side) == DOMAIN lv[side]

\* Mutant of BestPrice: the map is walked from its other end.
WorstPrice(lv, side) ==
  CHOOSE p \in Prices(lv, side) :
    \A q \in Prices(lv, side) : p = q \/ Better(side, q, p)

\* The key of begin().
BestPrice(lv, side) ==
  CHOOSE p \in Prices(lv, side) :
    \A q \in Prices(lv, side) : p = q \/ Better(side, p, q)

\* Mutant of Crosses: equal prices do not cross.
CrossesStrictly(o, p) ==
  \/ o.order_type = "Market"
  \/ IF o.side = "Buy" THEN o.price > p ELSE o.price < p

\* An incoming order executes against the opposite level at price p.
Crosses(o, p) ==
  \/ o.order_type = "Market"
  \/ IF o.side = "Buy" THEN o.price >= p ELSE o.price <= p

\* Mutant of Plus: a sum that is wider than Quantity.
WidePlus(a, b) == a + b

\* Unsigned arithmetic of Quantity.
Plus(a, b)  == (a + b) % QuantityModulus
Minus(a, b) == (a - b) % QuantityModulus

IsVisible(o) == "Hidden" \notin o.flags

SetLevel(lv, side, p, level) ==
  [lv EXCEPT ![side] = [q \in Prices(lv, side) \cup {p} |->
                          IF q = p THEN level ELSE lv[side][q]]]

EraseLevel(lv, side, p) ==
  [lv EXCEPT ![side] = [q \in Prices(lv, side) \ {p} |-> lv[side][q]]]

Without(f, id) == [i \in DOMAIN f \ {id} |-> f[i]]

Position(list, id) == CHOOSE k \in DOMAIN list : list[k] = id

-----------------------------------------------------------------------------
(* The pieces the handlers share, as functions of the levels.              *)

\* Mutant of Unlink: the volume of the level is not brought down.
UnlinkKeepingVolume(lv, id, o) ==
  LET p      == m_Orders[id]
      orders == RemoveAt(lv[o.side][p].orders, Position(lv[o.side][p].orders, id))
  IN  IF orders = <<>>
      THEN EraseLevel(lv, o.side, p)
      ELSE SetLevel(lv, o.side, p,
                    [volume |-> lv[o.side][p].volume, orders |-> orders])

\* Mutant of Unlink: the level stays when its last order goes.
UnlinkKeepingLevel(lv, id, o) ==
  LET p      == m_Orders[id]
      orders == RemoveAt(lv[o.side][p].orders, Position(lv[o.side][p].orders, id))
  IN  SetLevel(lv, o.side, p,
               [volume |-> Minus(lv[o.side][p].volume, o.remaining),
                orders |-> orders])

\* InternalCancelOrder, past its two checks: the levels without order id,
\* whose node holds o.  The level goes with its last order.
Unlink(lv, id, o) ==
  LET p      == m_Orders[id]
      level  == lv[o.side][p]
      volume == IF IsVisible(o) THEN Minus(level.volume, o.remaining)
                                ELSE level.volume
      orders == RemoveAt(level.orders, Position(level.orders, id))
  IN  IF orders = <<>>
      THEN EraseLevel(lv, o.side, p)
      ELSE SetLevel(lv, o.side, p, [volume |-> volume, orders |-> orders])

\* Mutant of Link: the order goes to the front of an existing level.
LinkInFront(lv, o) ==
  LET old == IF o.price \in Prices(lv, o.side)
             THEN lv[o.side][o.price]
             ELSE [volume |-> 0, orders |-> <<>>]
  IN  SetLevel(lv, o.side, o.price,
               [volume |-> Plus(old.volume, o.remaining),
                orders |-> <<o.orderID>> \o old.orders])

\* The levels after order o has come to rest at the back of its level.
Link(lv, o) ==
  LET old    == IF o.price \in Prices(lv, o.side)
                THEN lv[o.side][o.price]
                ELSE [volume |-> 0, orders |-> <<>>]
      volume == IF IsVisible(o) THEN Plus(old.volume, o.remaining)
                                ELSE old.volume
  IN  SetLevel(lv, o.side, o.price,
               [volume |-> volume, orders |-> Append(old.orders, o.orderID)])

\* What RecordFill does to the levels: the level is looked up on the side
\* called takerSide, and goes when it is drained.
FillLevel(lv, takerSide, p, quantity) ==
  IF p \notin Prices(lv, takerSide)
  THEN lv
  ELSE LET level == [lv[takerSide][p] EXCEPT !.volume = Minus(@, quantity)]
       IN  IF level.volume = 0 /\ level.orders = <<>>
           THEN EraseLevel(lv, takerSide, p)
           ELSE SetLevel(lv, takerSide, p, level)

\* Mutant of Covered: the levels are added up whether they cross or not.
CoveredAtAnyPrice(lv, req) ==
  LET opp == Opposite(req.side)
  IN  req.quantity <=
        SumFunction([q \in Prices(lv, opp) |-> lv[opp][q].volume]) % QuantityModulus

\* The Fill-or-Kill pre-check adds up level volumes, best level first, until
\* the request is covered or a level does not cross.
Covered(lv, req) ==
  LET opp      == Opposite(req.side)
      crossing == {p \in Prices(lv, opp) : Crosses(req, p)}
      UpTo(p)  == {q \in crossing : q = p \/ Better(opp, q, p)}
      volume   == [p \in Prices(lv, opp) |-> lv[opp][p].volume]
      Sum(ps)  == SumFunctionOnSet(volume, ps) % QuantityModulus
  IN  req.quantity = 0 \/ \E p \in crossing : Sum(UpTo(p)) >= req.quantity

\* Mutant of WouldTake: a price equal to the best opposite one passes.
WouldTakeStrictly(lv, req) ==
  /\ req.order_type = "Limit" /\ "PostOnly" \in req.flags
  /\ Prices(lv, Opposite(req.side)) # {}
  /\ CrossesStrictly(req, BestPrice(lv, Opposite(req.side)))

\* The PostOnly pre-check.
WouldTake(lv, req) ==
  /\ req.order_type = "Limit" /\ "PostOnly" \in req.flags
  /\ Prices(lv, Opposite(req.side)) # {}
  /\ Crosses(req, BestPrice(lv, Opposite(req.side)))

\* Mutant of PreCheck: it also refuses a request for nothing.
PreCheckNotEmpty(lv, req) ==
  IF req.quantity = 0 THEN "InvalidRequest"
  ELSE IF req.tif = "FOK" /\ ~Covered(lv, req) THEN "InsufficientLiquidity"
  ELSE IF WouldTake(lv, req) THEN "PostOnlyViolation"
  ELSE "Success"

\* InternalAddOrder up to the creation of the order.
PreCheck(lv, req) ==
  IF req.match_type # "Standard" THEN "InvalidRequest"
  ELSE IF req.tif = "FOK" /\ ~Covered(lv, req) THEN "InsufficientLiquidity"
  ELSE IF WouldTake(lv, req) THEN "PostOnlyViolation"
  ELSE "Success"

\* The order constructed for a request that passed the pre-checks.
NewOrder(req) ==
  [orderID |-> m_OrderCounter, clientID |-> req.clientID, price |-> req.price,
   remaining |-> req.quantity, side |-> req.side,
   order_type |-> req.order_type, tif |-> req.tif, flags |-> req.flags]

\* The order is on the stack and the matching loop starts.
StartMatching(cmd, req) ==
  /\ m_OrderCounter <= MaxOrderID
  /\ handling' = cmd
  /\ taker' = NewOrder(req)
  /\ m_OrderCounter' = m_OrderCounter + 1
  /\ reply' = NoEvent

\* The handler ends at once with this event.
Answer(event) ==
  /\ reply' = event
  /\ UNCHANGED <<handling, taker, m_OrderCounter>>

\* Apply starts a command: the scratch counter is zero again.
Begin == Idle /\ trades' = <<>> /\ UNCHANGED m_TradeCounter

-----------------------------------------------------------------------------
(* The handlers.                                                           *)

Init ==
  /\ levels = [side \in Side |-> [p \in {} |-> 0]]
  /\ node = [id \in {} |-> 0]
  /\ m_Orders = [id \in {} |-> 0]
  /\ m_OrderCounter = 1
  /\ m_TradeCounter = 1
  /\ handling = NoCommand
  /\ taker = NoOrder
  /\ trades = <<>>
  /\ reply = NoEvent

\* Handle(Add): the request is refused by a pre-check, or matching starts.
HandleAdd(cmd) ==
  /\ Begin
  /\ UNCHANGED book
  /\ LET code == PreCheck(levels, cmd)
     IN  IF code = "Success"
         THEN StartMatching(cmd, cmd)
         ELSE Answer([type |-> "OrderRejected", clientID |-> cmd.clientID,
                      errorCode |-> code])

ModifyRejected(cmd, code) ==
  [type |-> "ModifyRejected", clientID |-> cmd.clientID,
   orderID |-> cmd.orderID, errorCode |-> code]

ModifyAccepted(cmd) ==
  [type |-> "ModifyAccepted", clientID |-> cmd.clientID,
   old_orderID |-> cmd.orderID, new_orderID |-> cmd.orderID]

\* InternalModifyOrder has a new price or more quantity: the order is
\* cancelled, and a new one with its attributes goes through InternalAddOrder.
\* When a pre-check then refuses it, the old order is gone all the same.
Replace(cmd, o) ==
  LET lv   == Unlink(levels, cmd.orderID, o)
      req  == [clientID |-> cmd.clientID, price |-> cmd.new_price,
               quantity |-> cmd.new_quantity, side |-> o.side,
               order_type |-> o.order_type, tif |-> o.tif,
               match_type |-> "Standard", flags |-> o.flags]
  IN  /\ levels' = lv
      /\ node' = Without(node, cmd.orderID)
      /\ m_Orders' = Without(m_Orders, cmd.orderID)
      /\ IF PreCheck(lv, req) = "Success"
         THEN StartMatching(cmd, req)
         ELSE Answer(ModifyRejected(cmd, "InvalidModify"))

\* Mutant of Reduce: the order loses its place in its level.
ReduceToTheBack(cmd, o) ==
  LET p    == m_Orders[cmd.orderID]
      list == levels[o.side][p].orders
  IN  /\ node' = [node EXCEPT ![cmd.orderID].remaining = cmd.new_quantity]
      /\ levels' = [levels EXCEPT ![o.side][p].orders =
                      Append(RemoveAt(list, Position(list, cmd.orderID)), cmd.orderID)]
      /\ Answer(ModifyAccepted(cmd))
      /\ UNCHANGED m_Orders

\* InternalModifyOrder has the same price and less quantity: the order keeps
\* its place.  UpdateQuantity returns new - old in Quantity, and that
\* difference is subtracted from the volume of the level.
Reduce(cmd, o) ==
  LET p    == m_Orders[cmd.orderID]
      diff == Minus(cmd.new_quantity, o.remaining)
  IN  /\ node' = [node EXCEPT ![cmd.orderID].remaining = cmd.new_quantity]
      /\ levels' = IF IsVisible(o)
                   THEN [levels EXCEPT ![o.side][p].volume = Minus(@, diff)]
                   ELSE levels
      /\ Answer(ModifyAccepted(cmd))
      /\ UNCHANGED m_Orders

HandleModify(cmd) ==
  /\ Begin
  /\ IF cmd.orderID \notin DOMAIN m_Orders
     THEN Answer(ModifyRejected(cmd, "InvalidModify")) /\ UNCHANGED book
     ELSE LET o == node[cmd.orderID]
          IN  IF o.clientID # cmd.clientID
              THEN Answer(ModifyRejected(cmd, "Unauthorized")) /\ UNCHANGED book
              ELSE IF cmd.new_price # o.price \/ cmd.new_quantity > o.remaining
              THEN Replace(cmd, o)
              ELSE IF cmd.new_quantity < o.remaining
              THEN Reduce(cmd, o)
              ELSE Answer(ModifyAccepted(cmd)) /\ UNCHANGED book

\* Mutant of HandleCancel: whose order it is is not checked.
HandleCancelOfAnyone(cmd) ==
  /\ Begin
  /\ cmd.orderID \in DOMAIN m_Orders
  /\ levels' = Unlink(levels, cmd.orderID, node[cmd.orderID])
  /\ node' = Without(node, cmd.orderID)
  /\ m_Orders' = Without(m_Orders, cmd.orderID)
  /\ Answer([type |-> "CancelAccepted", clientID |-> cmd.clientID,
             orderID |-> cmd.orderID])

HandleCancel(cmd) ==
  LET refused(code) == [type |-> "CancelRejected", clientID |-> cmd.clientID,
                        orderID |-> cmd.orderID, errorCode |-> code]
  IN  /\ Begin
      /\ IF cmd.orderID \notin DOMAIN m_Orders
         THEN Answer(refused("InvalidCancel")) /\ UNCHANGED book
         ELSE LET o == node[cmd.orderID]
              IN  IF o.clientID # cmd.clientID
                  THEN Answer(refused("Unauthorized")) /\ UNCHANGED book
                  ELSE /\ levels' = Unlink(levels, cmd.orderID, o)
                       /\ node' = Without(node, cmd.orderID)
                       /\ m_Orders' = Without(m_Orders, cmd.orderID)
                       /\ Answer([type |-> "CancelAccepted",
                                  clientID |-> cmd.clientID,
                                  orderID |-> cmd.orderID])

\* A payload of type None: Apply returns an empty span.
HandleNone(cmd) == Begin /\ Answer(NoEvent) /\ UNCHANGED book

Apply(cmd) ==
  \/ cmd.type = "Add" /\ HandleAdd(cmd)
  \/ cmd.type = "Modify" /\ HandleModify(cmd)
  \/ cmd.type = "Cancel" /\ HandleCancel(cmd)
  \/ cmd.type = "None" /\ HandleNone(cmd)

-----------------------------------------------------------------------------
(* The matching loop.                                                      *)

\* GetBestAsk / GetBestBid for the taker: the front order of the best level.
Top ==
  LET opp == Opposite(taker.side)
  IN  Head(levels[opp][BestPrice(levels, opp)].orders)

\* Mutant of CanMatch: the loop does not look at what the taker has left.
CanMatchForever ==
  /\ ~Idle
  /\ Prices(levels, Opposite(taker.side)) # {}
  /\ Crosses(taker, node[Top].price)

\* The condition under which the loop goes round once more.
CanMatch ==
  /\ ~Idle
  /\ taker.remaining > 0
  /\ Prices(levels, Opposite(taker.side)) # {}
  /\ Crosses(taker, node[Top].price)

\* Mutant of TradeOf: the trade reports all that the maker had.
TradeOfWholeMaker(top, quantity) ==
  [tradeID |-> m_TradeCounter, makerOrderID |-> taker.clientID,
   takerOrderID |-> top.clientID, price |-> top.price,
   quantity |-> top.remaining, takerSide |-> top.side]

\* The Trade that Match has RecordFill store: Match passes the taker's client
\* as maker order, the maker's client as taker order, and the maker's side as
\* taker side.
TradeOf(top, quantity) ==
  [tradeID |-> m_TradeCounter, makerOrderID |-> taker.clientID,
   takerOrderID |-> top.clientID, price |-> top.price,
   quantity |-> quantity, takerSide |-> top.side]

\* The last part of RecordFill: a trade that finds the array full is dropped.
RecordTrade(trade) ==
  IF Len(trades) < MaxEventsPerCommand
  THEN /\ trades' = Append(trades, trade)
       /\ m_TradeCounter' = m_TradeCounter + 1
  ELSE UNCHANGED <<trades, m_TradeCounter>>

\* One iteration of PriceTimePriority::Match: fill both orders, record the
\* fill, and cancel the resting order once it is filled.  What that cancel
\* answers is ignored: had it not found the order in the index, the order would
\* stay on top with nothing left and the loop would go on with it.
Match ==
  /\ CanMatch
  /\ LET id       == Top
         top      == node[id]
         quantity == IF taker.remaining <= top.remaining THEN taker.remaining
                                                         ELSE top.remaining
         filled   == [top EXCEPT !.remaining = @ - quantity]
         lv       == FillLevel(levels, top.side, top.price, quantity)
     IN  /\ taker' = [taker EXCEPT !.remaining = @ - quantity]
         /\ RecordTrade(TradeOf(top, quantity))
         /\ IF filled.remaining = 0 /\ id \in DOMAIN m_Orders
            THEN /\ levels' = Unlink(lv, id, filled)
                 /\ node' = Without(node, id)
                 /\ m_Orders' = Without(m_Orders, id)
            ELSE /\ levels' = lv
                 /\ node' = [node EXCEPT ![id] = filled]
                 /\ UNCHANGED m_Orders
  /\ UNCHANGED <<m_OrderCounter, handling, reply>>

\* What InternalAddOrder returns after the loop.
ResultCode ==
  IF taker.remaining = 0 \/ taker.tif \in {"IOC", "FOK"} THEN "Success"
  ELSE IF taker.tif \in {"GTC", "Day"}
       THEN IF taker.order_type = "Market" THEN "InvalidOrderCombination"
                                           ELSE "Success"
  ELSE IF taker.tif \in {"GTD", "ATO"} THEN "NotImplemented"
  ELSE "UnsupportedTimeInForce"

Rests ==
  /\ taker.remaining > 0
  /\ taker.tif \in {"GTC", "Day"}
  /\ taker.order_type # "Market"

\* The event Handle stores when InternalAddOrder has returned.
Outcome ==
  IF handling.type = "Modify"
  THEN IF ResultCode = "Success" THEN ModifyAccepted(handling)
                                 ELSE ModifyRejected(handling, "InvalidModify")
  ELSE IF ResultCode = "Success"
  THEN [type |-> "OrderAccepted", clientID |-> handling.clientID,
        orderID |-> m_OrderCounter - 1]
  ELSE [type |-> "OrderRejected", clientID |-> handling.clientID,
        errorCode |-> ResultCode]

\* The loop is over: the rest of the order goes to the book or is dropped.
Complete ==
  /\ ~Idle /\ ~CanMatch
  /\ IF Rests
     THEN /\ levels' = Link(levels, taker)
          /\ node' = [i \in DOMAIN node \cup {taker.orderID} |->
                        IF i = taker.orderID THEN taker ELSE node[i]]
          /\ m_Orders' = [i \in DOMAIN m_Orders \cup {taker.orderID} |->
                            IF i = taker.orderID THEN taker.price ELSE m_Orders[i]]
     ELSE UNCHANGED book
  /\ reply' = Outcome
  /\ handling' = NoCommand
  /\ taker' = NoOrder
  /\ UNCHANGED <<m_OrderCounter, m_TradeCounter, trades>>

Next ==
  \/ \E cmd \in Commands : Apply(cmd)
  \/ Match
  \/ Complete

\* The engine thread runs a handler it has entered to its end; nothing obliges
\* a client to send a command.
Spec == Init /\ [][Next]_vars /\ WF_vars(Match \/ Complete)

-----------------------------------------------------------------------------
(* Properties.                                                             *)

\* Every variable has its type; the levels of a side are a finite map of
\* LevelData, and a taker is on the stack exactly while a command is handled.
TypeOK ==
  /\ DOMAIN levels = Side
  /\ \A side \in Side :
       /\ Prices(levels, side) \subseteq Price
       /\ \A p \in Prices(levels, side) : levels[side][p] \in LevelData
  /\ DOMAIN node \subseteq OrderID
  /\ \A id \in DOMAIN node : node[id] \in Order
  /\ DOMAIN m_Orders = DOMAIN node
  /\ \A id \in DOMAIN m_Orders : m_Orders[id] \in Price
  /\ m_OrderCounter \in Nat \ {0}
  /\ m_TradeCounter \in Nat \ {0}
  /\ handling \in CommandPayload
  /\ IF Idle THEN taker = NoOrder ELSE taker \in Order

\* The ids in the list of a level.
Listed(side, p) == {levels[side][p].orders[k] : k \in DOMAIN levels[side][p].orders}

\* The index, the lists and the orders agree: the entry of an order names the
\* level the order is in, every id of a list is an order of that side and
\* price, and no empty level stays in a map.  InternalCancelOrder erases an
\* order at three places and InternalAddOrder adds it at three; an entry left
\* behind is a dangling list iterator (OrderEntry in OrderBook.hpp).
IndexConsistent ==
  /\ \A id \in DOMAIN node :
       /\ node[id].orderID = id
       /\ m_Orders[id] = node[id].price
       /\ m_Orders[id] \in Prices(levels, node[id].side)
       /\ id \in Listed(node[id].side, m_Orders[id])
  /\ \A side \in Side : \A p \in Prices(levels, side) :
       /\ levels[side][p].orders # <<>>
       /\ \A id \in Listed(side, p) :
            id \in DOMAIN node /\ node[id].side = side /\ node[id].price = p

\* In the list of every level the orders stand in the order of their ids,
\* that is in the order in which they were accepted: the FIFO of a level
\* (README "Time priority") survives cancels, modifies and partial fills.
\* Being strict, it also says that no order is listed twice.
TimeOrdered ==
  \A side \in Side : \A p \in Prices(levels, side) :
    LET list == levels[side][p].orders
    IN  \A i, j \in DOMAIN list : i < j => list[i] < list[j]

\* The book is never crossed, not even between two iterations of the loop:
\* every bid is below every ask, whatever kinds of orders rest, are modified
\* or are refused half way (Matching.cpp breaks only when nothing crosses).
Uncrossed ==
  \A bid \in Prices(levels, "Buy"), ask \in Prices(levels, "Sell") : bid < ask

\* An order that matches has not been put on the book, and its id is newer
\* than that of every resting order.
NewestIsTaker ==
  /\ \A id \in DOMAIN node : id < m_OrderCounter
  /\ ~Idle => /\ taker.orderID = m_OrderCounter - 1
              /\ taker.orderID \notin DOMAIN node

\* What every order on the book has left.
Remaining(nd) == [id \in DOMAIN nd |-> nd[id].remaining]

\* The volume the depth view shows for a level is what its visible orders
\* have left.  It holds when no order is hidden and none is reduced in place.
VolumeExact ==
  \A side \in Side : \A p \in Prices(levels, side) :
    LET visible == {id \in Listed(side, p) : IsVisible(node[id])}
    IN  levels[side][p].volume =
          SumFunctionOnSet(Remaining(node), visible) % QuantityModulus

\* A limit order flagged PostOnly takes no liquidity, also when it is
\* re-entered by a modify and however the book moved since it was entered.
PostOnlyNeverTakes ==
  ~Idle /\ taker.order_type = "Limit" /\ "PostOnly" \in taker.flags
    => ~CanMatch /\ trades = <<>>

\* "FOK - fills entire quantity immediately, or cancels everything"
\* (globals.hpp): an FOK order that was let into the matching loop does not
\* leave it with a rest.
FOKAllOrNothing ==
  ~Idle /\ taker.tif = "FOK" /\ ~CanMatch => taker.remaining = 0

\* What is executed is recorded: while no trade was dropped at the end of the
\* scratch array, the recorded trades add up to what the taker has filled, and
\* each was made at a price the taker accepts.
TradesAccountForFill ==
  ~Idle /\ Len(trades) < MaxEventsPerCommand
    => LET wanted == IF handling.type = "Modify" THEN handling.new_quantity
                                                 ELSE handling.quantity
       IN  /\ wanted = taker.remaining +
                         SumFunction([k \in DOMAIN trades |-> trades[k].quantity])
           /\ \A k \in DOMAIN trades : Crosses(taker, trades[k].price)

\* Order id leaves the book or changes in the step.
Touched(id) == IF id \in DOMAIN node' THEN node'[id] # node[id] ELSE TRUE

\* README "Price priority" and "Time priority": an order executed by the
\* matching loop is on the other side, accepts the taker's price, and no order
\* of its side has a better price, or the same price and an older id.
PriceTimePriority ==
  [][\A id \in DOMAIN node : ~Idle /\ Touched(id) =>
       /\ node[id].side = Opposite(taker.side)
       /\ Crosses(taker, node[id].price)
       /\ \A other \in DOMAIN node \ {id} :
            node[other].side = node[id].side =>
              \/ Better(node[id].side, node[id].price, node[other].price)
              \/ node[id].price = node[other].price /\ id < other]_vars

\* A resting order is changed by its owner or by an execution, never
\* otherwise: between commands only a modify or cancel of its owner that names
\* it touches it, and the loop only takes quantity from it.
OnlyOwnerOrFill ==
  [][\A id \in DOMAIN node : Touched(id) =>
       IF Idle
       THEN \E cmd \in Commands :
              /\ cmd.type \in {"Modify", "Cancel"}
              /\ cmd.orderID = id /\ cmd.clientID = node[id].clientID
              /\ Apply(cmd)
       ELSE IF id \in DOMAIN node'
            THEN /\ node'[id] = [node[id] EXCEPT !.remaining = node'[id].remaining]
                 /\ node'[id].remaining < node[id].remaining
            ELSE node[id].remaining = taker.remaining - taker'.remaining]_vars

\* A modify that is refused before matching leaves the book alone, unless the
\* order is a PostOnly one that would now take: that one is lost, since
\* InternalModifyOrder has cancelled it before the pre-check refuses it (an
\* FOK order never rests, so no other pre-check can refuse).
RefusedModifyKeepsOrder ==
  [][Idle /\ reply' # reply /\ reply'.type = "ModifyRejected" =>
       \/ UNCHANGED book
       \/ /\ node[reply'.orderID].order_type = "Limit"
          /\ "PostOnly" \in node[reply'.orderID].flags]_vars

\* Every command ends: the loop makes progress in each iteration, also when
\* the top order has nothing left.
CommandEnds == ~Idle ~> Idle

\* The invariant that every step preserves.  What matters is stated of any
\* levels, orders and index, since the steps build them from one another.
LevelsSound(lv) ==
  /\ DOMAIN lv = Side
  /\ \A side \in Side : \A p \in Prices(lv, side) :
       /\ p \in Price /\ lv[side][p] \in LevelData
       /\ lv[side][p].orders # <<>>
       /\ \A i, j \in DOMAIN lv[side][p].orders :
            i < j => lv[side][p].orders[i] < lv[side][p].orders[j]
  /\ \A bid \in Prices(lv, "Buy"), ask \in Prices(lv, "Sell") : bid < ask

NodesSound(nd, index) ==
  /\ DOMAIN index = DOMAIN nd
  /\ \A id \in DOMAIN nd :
       /\ id \in OrderID /\ nd[id] \in Order
       /\ nd[id].orderID = id
       /\ index[id] = nd[id].price

LinksSound(lv, nd) ==
  /\ \A side \in Side : \A p \in Prices(lv, side) :
       \A k \in DOMAIN lv[side][p].orders :
         LET id == lv[side][p].orders[k]
         IN  id \in DOMAIN nd /\ nd[id].side = side /\ nd[id].price = p
  /\ \A id \in DOMAIN nd :
       /\ nd[id].price \in Prices(lv, nd[id].side)
       /\ \E k \in DOMAIN lv[nd[id].side][nd[id].price].orders :
            lv[nd[id].side][nd[id].price].orders[k] = id

Sound(lv, nd, index) ==
  LevelsSound(lv) /\ NodesSound(nd, index) /\ LinksSound(lv, nd)

\* The book is sound, and the taker is newer than every order on it: without
\* the second, the list of the level it comes to rest in would not stay in
\* the order of its ids.
Inductive ==
  /\ Sound(levels, node, m_Orders)
  /\ m_OrderCounter \in Nat \ {0} /\ m_TradeCounter \in Nat \ {0}
  /\ handling \in CommandPayload
  /\ IF Idle THEN taker = NoOrder ELSE taker \in Order
  /\ NewestIsTaker

\* The view of the book as a price-time priority book.
AsResting(o) ==
  [id |-> o.orderID, client |-> o.clientID, side |-> o.side, price |-> o.price,
   open |-> o.remaining, market |-> o.order_type = "Market",
   rests |-> o.tif \in {"GTC", "Day"} /\ o.order_type # "Market"]

Promised == INSTANCE PriceTimeBook WITH
  resting  <- {AsResting(node[id]) : id \in DOMAIN node},
  incoming <- IF Idle THEN {} ELSE {AsResting(taker)},
  lastID   <- m_OrderCounter - 1

\* Levels, lists, index and cached iterators together behave as a set of
\* orders executed in price-time priority, whatever is hidden, reduced,
\* re-entered or refused on the way, and every command comes to its end.
ImplementsPriceTimeBook == Promised!Spec

-----------------------------------------------------------------------------
(* Statements of the repository that the code does not keep: each is the   *)
(* property of a run that finds it violated.  FOKAllOrNothing, above, is   *)
(* one of them once orders are reduced in place or hidden.                 *)

\* README: "no negative quantities".  The volume of a level, an unsigned
\* number, is not below zero read as a signed one.
NoNegativeVolume ==
  \A side \in Side : \A p \in Prices(levels, side) :
    levels[side][p].volume < QuantityModulus \div 2

\* A modify re-enters its order under a new id, and Events::ModifyAccepted has
\* an old and a new order id, as RecordFill has a taker's.  An owner whose
\* modified order trades and rests is told the id it has to cancel it by, in
\* the answer or in one of the trades.
NewIDIsTold ==
  [][~Idle /\ reply'.type = "ModifyAccepted" /\ taker.orderID \in DOMAIN node'
        /\ trades # <<>>
       => \/ reply'.new_orderID = taker.orderID
          \/ \E k \in DOMAIN trades : trades[k].takerOrderID = taker.orderID]_vars

=============================================================================

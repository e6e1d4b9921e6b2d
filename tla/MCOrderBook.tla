----------------------------- MODULE MCOrderBook -----------------------------
(***************************************************************************)
(* Instances of OrderBook for TLC: the sets of commands the runs offer to  *)
(* Apply.  Prices are MinPrice..MaxPrice; `Sizes` are the quantities asked *)
(* for.                                                                    *)
(***************************************************************************)
EXTENDS OrderBook

CONSTANT Sizes

Largest == CHOOSE q \in Sizes : \A r \in Sizes : r <= q

\* The owner of the orders, and a client that owns none but tries.
Owner == CHOOSE c \in ClientID : TRUE

Adds(sides, prices, types, tifs, flagSets) ==
  [type : {"Add"}, clientID : {Owner}, price : prices, quantity : Sizes,
   side : sides, order_type : types, tif : tifs, match_type : {"Standard"},
   flags : flagSets]

Cancels(clients) ==
  [type : {"Cancel"}, clientID : clients, orderID : 1 .. MaxOrderID]

Modifies(clients, sizes) ==
  [type : {"Modify"}, clientID : clients, orderID : 1 .. MaxOrderID,
   new_price : Price, new_quantity : sizes]

\* Visible orders that are never reduced in place, on both sides: resting
\* limit orders, kinds that never rest, PostOnly, cancels by anyone, and
\* modifies that move an order or put its quantity up.
PlainCommands ==
  Adds(Side, Price, {"Limit"}, {"GTC", "FOK"}, {{}})
    \cup Adds(Side, Price, {"Limit"}, {"GTC"}, {{"PostOnly"}})
    \cup Adds(Side, {MinPrice}, {"Market"}, {"IOC"}, {{}})
    \cup Cancels(ClientID)
    \cup Modifies(ClientID, {Largest})

\* Visible limit orders that come, go and are reduced in place, never to nothing.
ReducingCommands ==
  Adds(Side, Price, {"Limit"}, {"GTC", "FOK"}, {{}})
    \cup Cancels({Owner})
    \cup Modifies({Owner}, Sizes)

\* Every kind of reply, and every kind of order that differs for a price-time
\* priority book: hidden or not, resting or not, at a limit or at any price,
\* executed and then refused, moved, reduced (also to nothing) or cancelled.
\* The rarer kinds come from one side and at one price, which keeps the runs
\* small: the code has one branch per side and both are one definition here.
AllCommands ==
  Adds(Side, Price, {"Limit"}, {"GTC"}, {{}})
    \cup Adds({"Sell"}, {MaxPrice}, {"Limit"}, {"GTC"}, {{"Hidden"}})
    \cup Adds({"Buy"}, {MinPrice}, {"Limit"}, {"GTC"}, {{"PostOnly"}})
    \cup Adds({"Buy"}, {MaxPrice}, {"Limit"}, {"FOK", "GTD"}, {{}})
    \cup Adds({"Buy"}, {MinPrice}, {"Market"}, {"GTC"}, {{}})
    \cup Adds({"Sell"}, {MinPrice}, {"Market"}, {"IOC"}, {{}})
    \cup {[cmd EXCEPT !.match_type = "Auction"] :
            cmd \in Adds({"Buy"}, {MinPrice}, {"Limit"}, {"GTC"}, {{}})}
    \cup Cancels(ClientID)
    \cup Modifies({Owner}, Sizes \cup {0})
    \cup {cmd \in Modifies(ClientID, {Largest}) : cmd.new_price = MaxPrice}
    \cup {NoCommand}

=============================================================================

-------------------------- MODULE OrderBookPromises --------------------------
(***************************************************************************)
(* What the order book promises its clients, proved for any clients, price *)
(* range, width of Quantity, scratch size and set of commands: executions  *)
(* follow price-time priority, nobody but its owner and the matching loop  *)
(* changes an order, a PostOnly order of type Limit takes nothing, a       *)
(* refused modify loses an order in one case only, every step is a step of *)
(* PriceTimeBook or leaves its variables alone, and the trades of a        *)
(* command account for what it executed.  Volumes and Fill-or-Kill are     *)
(* right as long as no hidden order is executed and no visible one reduced *)
(* in place, which is all that can make them wrong (VolumeSafe).           *)
(*                                                                         *)
(* All of it rests on Inductive (OrderBookProofs): since the lists, levels *)
(* and index agree, the first order of the best level is the best order,   *)
(* and the node map alone tells who rests.                                 *)
(***************************************************************************)
EXTENDS OrderBookProofs

-----------------------------------------------------------------------------
(* What the steps do to the orders.                                        *)

\* The order Match executes against comes before every other of its side: in
\* a better level, or further front in the same list and so older.
LEMMA TopFirst ==
  ASSUME Inductive, ~Idle, Prices(levels, Opposite(taker.side)) # {}
  PROVE  \A other \in DOMAIN node \ {Top} :
           node[other].side = node[Top].side =>
             \/ Better(node[Top].side, node[Top].price, node[other].price)
             \/ node[Top].price = node[other].price /\ Top < other
<1> DEFINE opp  == Opposite(taker.side)
           best == BestPrice(levels, opp)
           list == levels[opp][best].orders
<1>1. /\ opp \in Side /\ Top \in DOMAIN node
      /\ node[Top].side = opp /\ node[Top].price = best
  BY TopProperties
<1>2. LevelsSound(levels) /\ LinksSound(levels, node)
  BY DEF Inductive, Sound
<1>3. /\ best \in Prices(levels, opp)
      /\ \A q \in Prices(levels, opp) : q = best \/ Better(opp, best, q)
  BY <1>1, <1>2, BestPriceIsBest
<1>4. /\ list \in Seq(OrderID) /\ list # <<>>
      /\ \A i, j \in DOMAIN list : i < j => list[i] < list[j]
  BY <1>1, <1>2, <1>3 DEF LevelsSound, LevelData
<1>5. Top = list[1] /\ 1 \in DOMAIN list /\ \A k \in DOMAIN list : k # 1 => 1 < k
  <2> DEFINE l == list
  <2>1. Top = Head(l)
    BY DEF Top
  <2> HIDE DEF l
  <2> QED BY <1>4, <2>1, EmptySeq, LenProperties DEF l
<1> SUFFICES ASSUME NEW other \in DOMAIN node \ {Top},
                    node[other].side = node[Top].side
             PROVE  \/ Better(node[Top].side, node[Top].price, node[other].price)
                    \/ node[Top].price = node[other].price /\ Top < other
  OBVIOUS
<1>6. /\ node[other].price \in Prices(levels, opp)
      /\ \E k \in DOMAIN levels[opp][node[other].price].orders :
           levels[opp][node[other].price].orders[k] = other
  BY <1>1, <1>2 DEF LinksSound
<1> HIDE DEF best
<1>7. CASE node[other].price # best
  BY <1>1, <1>3, <1>6, <1>7
<1>8. CASE node[other].price = best
  <2>1. PICK k \in DOMAIN list : list[k] = other
    BY <1>6, <1>8
  <2>2. k # 1
    BY <1>5, <2>1
  <2> QED BY <1>1, <1>4, <1>5, <1>8, <2>1, <2>2
<1> QED BY <1>7, <1>8

\* One execution takes the smaller of the two quantities from the taker and
\* from the top order, and touches no other.
LEMMA MatchOrders ==
  ASSUME Inductive, Match
  PROVE  LET q == IF taker.remaining <= node[Top].remaining
                  THEN taker.remaining ELSE node[Top].remaining
         IN  /\ q \in Nat /\ taker.remaining \in Nat /\ node[Top].remaining \in Nat
             /\ taker' = [taker EXCEPT !.remaining = @ - q]
             /\ IF node[Top].remaining = q
                THEN node' = Without(node, Top)
                ELSE node' = [node EXCEPT ![Top] =
                                [node[Top] EXCEPT !.remaining = @ - q]]
<1> DEFINE q == IF taker.remaining <= node[Top].remaining
                THEN taker.remaining ELSE node[Top].remaining
<1>1. ~Idle /\ Prices(levels, Opposite(taker.side)) # {}
  BY DEF Match, CanMatch
<1>2. taker \in Order /\ node[Top] \in Order /\ Top \in DOMAIN m_Orders
  BY <1>1, TopProperties DEF Inductive, Sound, NodesSound
<1>3. taker.remaining \in Nat /\ node[Top].remaining \in Nat
  BY <1>2, ConstantsAssumption DEF Order, Quantity
<1>4. q \in Nat
  BY <1>3
<1>5. /\ taker' = [taker EXCEPT !.remaining = @ - q]
      /\ IF [node[Top] EXCEPT !.remaining = @ - q].remaining = 0
         THEN node' = Without(node, Top)
         ELSE node' = [node EXCEPT ![Top] =
                         [node[Top] EXCEPT !.remaining = @ - q]]
  BY <1>2 DEF Match
<1> HIDE DEF q
<1>6. [node[Top] EXCEPT !.remaining = @ - q].remaining = node[Top].remaining - q
  BY <1>2 DEF Order
<1>7. node[Top].remaining - q = 0 <=> node[Top].remaining = q
  BY <1>3, <1>4
<1> QED BY <1>3, <1>4, <1>5, <1>6, <1>7 DEF q

\* The rest of a taker joins the book beside the orders that are there.
LEMMA CompleteOrders ==
  ASSUME Inductive, Complete
  PROVE  /\ taker.orderID \notin DOMAIN node
         /\ IF Rests
            THEN node' = [i \in DOMAIN node \cup {taker.orderID} |->
                            IF i = taker.orderID THEN taker ELSE node[i]]
            ELSE node' = node
  BY DEF Inductive, NewestIsTaker, Complete, book

\* A command that is no modify or cancel, or is none of its owner, leaves the
\* orders as they are; one of its owner touches the order it names at most.
LEMMA ApplyOrders ==
  ASSUME Inductive, NEW cmd \in Commands, Apply(cmd)
  PROVE  \/ node' = node
         \/ /\ cmd \in ModifyCommand \cup CancelCommand
            /\ cmd.orderID \in DOMAIN node
            /\ cmd.clientID = node[cmd.orderID].clientID
            /\ \A id \in DOMAIN node \ {cmd.orderID} :
                 id \in DOMAIN node' /\ node'[id] = node[id]
<1>1. DOMAIN m_Orders = DOMAIN node
  BY DEF Inductive, Sound, NodesSound
<1>2. cmd \in CommandPayload
  BY ConstantsAssumption
<1>3. CASE cmd \in AddCommand
  <2>1. cmd.type = "Add"
    BY <1>3 DEF AddCommand
  <2> QED BY <2>1 DEF Apply, HandleAdd, book
<1>4. CASE cmd \in ModifyCommand
  <2>1. HandleModify(cmd)
    <3>1. cmd.type = "Modify"
      BY <1>4 DEF ModifyCommand
    <3> QED BY <3>1 DEF Apply
  <2>2. CASE node' = node
    BY <2>2
  <2>3. CASE /\ cmd.orderID \in DOMAIN node
             /\ cmd.clientID = node[cmd.orderID].clientID
             /\ Replace(cmd, node[cmd.orderID])
    <3>1. node' = Without(node, cmd.orderID)
      BY <2>3 DEF Replace
    <3> QED BY <1>4, <2>3, <3>1 DEF Without
  <2>4. CASE /\ cmd.orderID \in DOMAIN node
             /\ cmd.clientID = node[cmd.orderID].clientID
             /\ Reduce(cmd, node[cmd.orderID])
    <3>1. node' = [node EXCEPT ![cmd.orderID].remaining = cmd.new_quantity]
      BY <2>4 DEF Reduce
    <3> QED BY <1>4, <2>4, <3>1
  <2> QED BY <1>1, <2>1, <2>2, <2>3, <2>4 DEF HandleModify, book
<1>5. CASE cmd \in CancelCommand
  <2>1. HandleCancel(cmd)
    <3>1. cmd.type = "Cancel"
      BY <1>5 DEF CancelCommand
    <3> QED BY <3>1 DEF Apply
  <2>2. CASE node' = node
    BY <2>2
  <2>3. CASE /\ cmd.orderID \in DOMAIN node
             /\ cmd.clientID = node[cmd.orderID].clientID
             /\ node' = Without(node, cmd.orderID)
    BY <1>5, <2>3 DEF Without
  <2> QED BY <1>1, <2>1, <2>2, <2>3 DEF HandleCancel, book
<1>6. CASE cmd = NoCommand
  <2>1. cmd.type = "None"
    BY <1>6 DEF NoCommand
  <2> QED BY <2>1 DEF Apply, HandleNone, book
<1> QED BY <1>2, <1>3, <1>4, <1>5, <1>6 DEF CommandPayload

-----------------------------------------------------------------------------
(* Priority and ownership.                                                 *)

\* An order that the loop executes is the one that is first in price-time
\* priority, whatever commands led to the book it stands on (README, "Price
\* priority" and "Time priority"; PriceTimePriority::Match).
THEOREM PriorityKept == Spec => PriceTimePriority
<1> DEFINE First(id) ==
      /\ node[id].side = Opposite(taker.side)
      /\ Crosses(taker, node[id].price)
      /\ \A other \in DOMAIN node \ {id} :
           node[other].side = node[id].side =>
             \/ Better(node[id].side, node[id].price, node[other].price)
             \/ node[id].price = node[other].price /\ id < other
<1>1. ASSUME Inductive, [Next]_vars, NEW id \in DOMAIN node, ~Idle, Touched(id)
      PROVE  First(id)
  <2>1. CASE \E cmd \in Commands : Apply(cmd)
    BY <1>1, <2>1 DEF Apply, HandleAdd, HandleModify, HandleCancel, HandleNone, Begin
  <2>2. CASE Match
    <3>1. Prices(levels, Opposite(taker.side)) # {} /\ Crosses(taker, node[Top].price)
      BY <2>2 DEF Match, CanMatch
    <3>2. id = Top
      <4> SUFFICES ASSUME id # Top PROVE FALSE
        OBVIOUS
      <4>1. id \in DOMAIN node' /\ node'[id] = node[id]
        BY <1>1, <2>2, MatchOrders DEF Without
      <4> QED BY <1>1, <4>1 DEF Touched
    <3>3. node[Top].side = Opposite(taker.side)
      BY <1>1, <3>1, TopProperties
    <3> QED BY <1>1, <3>1, <3>2, <3>3, TopFirst
  <2>3. CASE Complete
    <3>1. id \in DOMAIN node' /\ node'[id] = node[id]
      BY <1>1, <2>3, CompleteOrders
    <3> QED BY <1>1, <3>1 DEF Touched
  <2>4. CASE UNCHANGED vars
    BY <1>1, <2>4 DEF vars, Touched
  <2> QED BY <1>1, <2>1, <2>2, <2>3, <2>4 DEF Next
<1>2. Inductive /\ [Next]_vars =>
        [\A id \in DOMAIN node : ~Idle /\ Touched(id) => First(id)]_vars
  BY <1>1
<1> QED BY <1>2, InductiveInvariant, PTL DEF Spec, PriceTimePriority

\* Whatever the clients send, a resting order is touched by its owner, by a
\* command that names it, or by an execution, which takes quantity from it
\* and leaves everything else of it alone (Handle, RecordFill).
THEOREM OwnershipKept == Spec => OnlyOwnerOrFill
<1> DEFINE Allowed(id) ==
      IF Idle
      THEN \E cmd \in Commands :
             /\ cmd.type \in {"Modify", "Cancel"}
             /\ cmd.orderID = id /\ cmd.clientID = node[id].clientID
             /\ Apply(cmd)
      ELSE IF id \in DOMAIN node'
           THEN /\ node'[id] = [node[id] EXCEPT !.remaining = node'[id].remaining]
                /\ node'[id].remaining < node[id].remaining
           ELSE node[id].remaining = taker.remaining - taker'.remaining
<1>1. ASSUME Inductive, [Next]_vars, NEW id \in DOMAIN node, Touched(id)
      PROVE  Allowed(id)
  <2>1. CASE \E cmd \in Commands : Apply(cmd)
    <3>1. PICK cmd \in Commands : Apply(cmd)
      BY <2>1
    <3>2. Idle
      BY <3>1 DEF Apply, HandleAdd, HandleModify, HandleCancel, HandleNone, Begin
    <3>3. /\ cmd \in ModifyCommand \cup CancelCommand
          /\ cmd.orderID = id /\ cmd.clientID = node[id].clientID
      BY <1>1, <3>1, ApplyOrders DEF Touched
    <3>4. cmd.type \in {"Modify", "Cancel"}
      BY <3>3 DEF ModifyCommand, CancelCommand
    <3> QED BY <3>1, <3>2, <3>3, <3>4
  <2>2. CASE Match
    <3> DEFINE q == IF taker.remaining <= node[Top].remaining
                    THEN taker.remaining ELSE node[Top].remaining
    <3>1. ~Idle /\ taker.remaining > 0 /\ Prices(levels, Opposite(taker.side)) # {}
      BY <2>2 DEF Match, CanMatch
    <3>2. taker \in Order /\ node[Top] \in Order /\ Top \in DOMAIN node
      BY <1>1, <3>1, TopProperties
    <3>3. /\ q \in Nat /\ taker.remaining \in Nat /\ node[Top].remaining \in Nat
          /\ taker' = [taker EXCEPT !.remaining = @ - q]
          /\ IF node[Top].remaining = q
             THEN node' = Without(node, Top)
             ELSE node' = [node EXCEPT ![Top] =
                             [node[Top] EXCEPT !.remaining = @ - q]]
      BY <1>1, <2>2, MatchOrders
    <3>4. q = taker.remaining \/ q = node[Top].remaining
      OBVIOUS
    <3> HIDE DEF q
    <3>5. id = Top
      BY <1>1, <3>3 DEF Touched, Without
    <3>6. taker'.remaining = taker.remaining - q
      BY <3>2, <3>3 DEF Order
    <3>7. CASE node[Top].remaining = q
      <4>1. id \notin DOMAIN node'
        BY <3>3, <3>5, <3>7 DEF Without
      <4>2. node[id].remaining = taker.remaining - taker'.remaining
        BY <3>3, <3>5, <3>6, <3>7
      <4> QED BY <3>1, <4>1, <4>2
    <3>8. CASE node[Top].remaining # q
      <4>1. DOMAIN node' = DOMAIN node
            /\ node'[Top] = [node[Top] EXCEPT !.remaining = @ - q]
        BY <3>2, <3>3, <3>8
      <4>2. node'[Top].remaining = node[Top].remaining - q
        BY <3>2, <4>1 DEF Order
      <4>3. q > 0
        BY <3>1, <3>4, <3>8
      <4>4. node'[Top].remaining < node[Top].remaining
        BY <3>3, <4>2, <4>3
      <4>5. node'[Top] = [node[Top] EXCEPT !.remaining = node'[Top].remaining]
        BY <4>1, <4>2
      <4> QED BY <3>1, <3>2, <3>5, <4>1, <4>4, <4>5
    <3> QED BY <3>7, <3>8
  <2>3. CASE Complete
    <3>1. id \in DOMAIN node' /\ node'[id] = node[id]
      BY <1>1, <2>3, CompleteOrders
    <3> QED BY <1>1, <3>1 DEF Touched
  <2>4. CASE UNCHANGED vars
    BY <1>1, <2>4 DEF vars, Touched
  <2> QED BY <1>1, <2>1, <2>2, <2>3, <2>4 DEF Next
<1>2. Inductive /\ [Next]_vars =>
        [\A id \in DOMAIN node : Touched(id) => Allowed(id)]_vars
  BY <1>1
<1> QED BY <1>2, InductiveInvariant, PTL DEF Spec, OnlyOwnerOrFill

-----------------------------------------------------------------------------
(* Kinds of orders.                                                        *)

\* What the command under way asks for.
Wanted(cmd) == IF cmd.type = "Modify" THEN cmd.new_quantity ELSE cmd.quantity

\* An order that a command starts to match went through the pre-checks, with
\* the levels it is then matched against, for the quantity the command names.
LEMMA StartedOrder ==
  ASSUME Inductive, NEW cmd \in Commands, Apply(cmd), ~Idle'
  PROVE  /\ trades' = <<>>
         /\ \E req : /\ PreCheck(levels', req) = "Success"
                     /\ taker' = NewOrder(req)
                     /\ req.quantity = Wanted(handling')
<1>1. cmd \in CommandPayload /\ Idle /\ trades' = <<>>
  BY ConstantsAssumption
  DEF Apply, HandleAdd, HandleModify, HandleCancel, HandleNone, Begin
<1>2. ASSUME NEW event, Answer(event)
      PROVE  FALSE
  BY <1>1, <1>2 DEF Answer, Idle
<1>3. CASE cmd \in AddCommand
  <2>1. cmd.type = "Add"
    BY <1>3 DEF AddCommand
  <2>2. HandleAdd(cmd)
    BY <2>1 DEF Apply
  <2>3. PreCheck(levels, cmd) = "Success" /\ StartMatching(cmd, cmd) /\ levels' = levels
    BY <1>2, <2>2 DEF HandleAdd, book
  <2> QED BY <1>1, <2>1, <2>3 DEF StartMatching, Wanted
<1>4. CASE cmd \in ModifyCommand
  <2>1. cmd.type = "Modify"
    BY <1>4 DEF ModifyCommand
  <2>2. HandleModify(cmd)
    BY <2>1 DEF Apply
  <2>3. Replace(cmd, node[cmd.orderID])
    BY <1>2, <2>2 DEF HandleModify, Reduce
  <2>4. \E req : /\ PreCheck(levels', req) = "Success"
                 /\ StartMatching(cmd, req)
                 /\ req.quantity = cmd.new_quantity
    BY <1>2, <2>3 DEF Replace
  <2> QED BY <1>1, <2>1, <2>4 DEF StartMatching, Wanted
<1>5. CASE cmd \in CancelCommand
  <2>1. cmd.type = "Cancel"
    BY <1>5 DEF CancelCommand
  <2> QED BY <1>2, <2>1 DEF Apply, HandleCancel
<1>6. CASE cmd = NoCommand
  <2>1. cmd.type = "None"
    BY <1>6 DEF NoCommand
  <2> QED BY <1>2, <2>1 DEF Apply, HandleNone
<1> QED BY <1>1, <1>3, <1>4, <1>5, <1>6 DEF CommandPayload

\* The loop starts with the front of the best opposite level, which is at the
\* price the PostOnly pre-check looked at.
LEMMA TopIsAtBestPrice ==
  Inductive /\ ~Idle /\ Prices(levels, Opposite(taker.side)) # {}
    => node[Top].price = BestPrice(levels, Opposite(taker.side))
  BY TopProperties

\* A PostOnly order of type Limit takes nothing, at any time, also when a modify
\* has re-entered it ("PostOnly pre-check (Limit orders only)", OrderBook.inl).
\* The code checks no other type, and others do take.
THEOREM PostOnlyLimitTakesNothing == Spec => []PostOnlyNeverTakes
<1>1. Init => PostOnlyNeverTakes
  BY DEF Init, PostOnlyNeverTakes, Idle
<1>2. (Inductive /\ ~Idle /\ Prices(levels, Opposite(taker.side)) # {}
         => node[Top].price = BestPrice(levels, Opposite(taker.side)))'
  BY TopIsAtBestPrice, PTL
<1>3. ASSUME Inductive, Inductive', PostOnlyNeverTakes, [Next]_vars
      PROVE  PostOnlyNeverTakes'
  <2> SUFFICES ASSUME ~Idle', taker'.order_type = "Limit", "PostOnly" \in taker'.flags
               PROVE  ~CanMatch' /\ trades' = <<>>
    BY DEF PostOnlyNeverTakes
  <2>1. CASE \E cmd \in Commands : Apply(cmd)
    <3>1. PICK cmd \in Commands : Apply(cmd)
      BY <2>1
    <3>2. trades' = <<>>
      BY <1>3, <3>1, StartedOrder
    <3>3. PICK req : PreCheck(levels', req) = "Success" /\ taker' = NewOrder(req)
      BY <1>3, <3>1, StartedOrder
    <3>4. /\ taker'.order_type = req.order_type /\ taker'.flags = req.flags
          /\ taker'.side = req.side /\ taker'.price = req.price
      BY <3>3 DEF NewOrder
    <3>5. ~WouldTake(levels', req)
      BY <3>3 DEF PreCheck
    <3>6. \/ Prices(levels', Opposite(taker'.side)) = {}
          \/ ~Crosses(req, BestPrice(levels', Opposite(taker'.side)))
      BY <3>4, <3>5 DEF WouldTake
    <3>7. \A p : Crosses(taker', p) <=> Crosses(req, p)
      BY <3>4 DEF Crosses
    <3>8. ~CanMatch'
      BY <1>2, <1>3, <3>6, <3>7 DEF CanMatch
    <3> QED BY <3>2, <3>8
  <2>2. CASE Match
    <3>1. /\ CanMatch /\ taker'.order_type = taker.order_type
          /\ taker'.flags = taker.flags
      <4>1. ~Idle /\ Prices(levels, Opposite(taker.side)) # {}
        BY <2>2 DEF Match, CanMatch
      <4>2. taker \in Order
        BY <1>3, <4>1, TopProperties
      <4> QED BY <1>3, <2>2, <4>2, MatchOrders DEF Match, Order
    <3> QED BY <1>3, <3>1 DEF PostOnlyNeverTakes, CanMatch
  <2>3. CASE Complete
    BY <2>3 DEF Complete, Idle
  <2>4. CASE UNCHANGED vars
    <3>1. PostOnlyNeverTakes' = PostOnlyNeverTakes
      BY <2>4 DEF vars, PostOnlyNeverTakes, CanMatch, Idle, Top
    <3> QED BY <1>3, <3>1 DEF PostOnlyNeverTakes
  <2> QED BY <1>3, <2>1, <2>2, <2>3, <2>4 DEF Next
<1>4. Inductive /\ Inductive' /\ PostOnlyNeverTakes /\ [Next]_vars => PostOnlyNeverTakes'
  BY <1>3
<1> QED BY <1>1, <1>4, InductiveInvariant, PTL DEF Spec

\* Only orders that may wait rest on the book: InternalAddOrder links none
\* that is a market order, or has another time in force than these two.
OnlyRestingKinds ==
  \A id \in DOMAIN node :
    node[id].tif \in {"GTC", "Day"} /\ node[id].order_type # "Market"

\* A modify of such an order never meets the Fill-or-Kill pre-check.
LEMMA RestingKindsInvariant == Spec => []OnlyRestingKinds
<1>1. Init => OnlyRestingKinds
  BY DEF Init, OnlyRestingKinds
<1>2. ASSUME Inductive, OnlyRestingKinds, [Next]_vars
      PROVE  OnlyRestingKinds'
  <2>0. \A id \in DOMAIN node : node[id] \in Order
    BY <1>2 DEF Inductive, Sound, NodesSound
  <2>1. CASE \E cmd \in Commands : Apply(cmd)
    <3>1. PICK cmd \in Commands : Apply(cmd)
      BY <2>1
    <3>2. ASSUME NEW id \in DOMAIN node'
          PROVE  /\ id \in DOMAIN node /\ node'[id].tif = node[id].tif
                 /\ node'[id].order_type = node[id].order_type
      <4>1. CASE node' = node
        BY <3>2, <4>1
      <4>2. CASE node' = Without(node, cmd.orderID)
        BY <3>2, <4>2 DEF Without
      <4>3. CASE /\ cmd.orderID \in DOMAIN node
                 /\ node' = [node EXCEPT ![cmd.orderID].remaining = cmd.new_quantity]
        BY <2>0, <3>2, <4>3 DEF Order
      <4>4. \/ node' = node \/ node' = Without(node, cmd.orderID)
            \/ /\ cmd.orderID \in DOMAIN node
               /\ node' = [node EXCEPT ![cmd.orderID].remaining = cmd.new_quantity]
        <5>1. DOMAIN m_Orders = DOMAIN node
          BY <1>2 DEF Inductive, Sound, NodesSound
        <5> QED BY <3>1, <5>1 DEF Apply, HandleAdd, HandleModify, HandleCancel,
                   HandleNone, Replace, Reduce, book
      <4> QED BY <4>1, <4>2, <4>3, <4>4
    <3> QED BY <1>2, <3>2 DEF OnlyRestingKinds
  <2>2. CASE Match
    <3>1. ASSUME NEW id \in DOMAIN node'
          PROVE  /\ id \in DOMAIN node /\ node'[id].tif = node[id].tif
                 /\ node'[id].order_type = node[id].order_type
      <4>1. CASE node' = Without(node, Top)
        BY <3>1, <4>1 DEF Without
      <4>2. ASSUME NEW r,
                   node' = [node EXCEPT ![Top] = [node[Top] EXCEPT !.remaining = r]]
            PROVE  /\ id \in DOMAIN node /\ node'[id].tif = node[id].tif
                   /\ node'[id].order_type = node[id].order_type
        BY <2>0, <3>1, <4>2 DEF Order
      <4> QED BY <1>2, <2>2, <4>1, <4>2, MatchOrders
    <3> QED BY <1>2, <3>1 DEF OnlyRestingKinds
  <2>3. CASE Complete
    <3>1. CASE Rests
      BY <1>2, <2>3, <3>1, CompleteOrders DEF OnlyRestingKinds, Rests
    <3>2. CASE ~Rests
      BY <1>2, <2>3, <3>2, CompleteOrders DEF OnlyRestingKinds
    <3> QED BY <3>1, <3>2
  <2>4. CASE UNCHANGED vars
    BY <1>2, <2>4 DEF vars, OnlyRestingKinds
  <2> QED BY <1>2, <2>1, <2>2, <2>3, <2>4 DEF Next
<1>3. Inductive /\ OnlyRestingKinds /\ [Next]_vars => OnlyRestingKinds'
  BY <1>2
<1> QED BY <1>1, <1>3, InductiveInvariant, PTL DEF Spec

\* A modify that is answered with a rejection before matching has changed
\* nothing, but for a PostOnly order that would take: that one is gone
\* (InternalModifyOrder cancels before it adds).
THEOREM RefusalCorrect == Spec => RefusedModifyKeepsOrder
<1> DEFINE Kept ==
      Idle /\ reply' # reply /\ reply'.type = "ModifyRejected" =>
        \/ UNCHANGED book
        \/ /\ node[reply'.orderID].order_type = "Limit"
           /\ "PostOnly" \in node[reply'.orderID].flags
<1>1. ASSUME Inductive, OnlyRestingKinds, [Next]_vars,
             Idle, reply' # reply, reply'.type = "ModifyRejected"
      PROVE  \/ UNCHANGED book
             \/ /\ node[reply'.orderID].order_type = "Limit"
                /\ "PostOnly" \in node[reply'.orderID].flags
  <2>1. PICK cmd \in Commands : Apply(cmd)
    <3>1. ~Match /\ ~Complete
      BY <1>1 DEF Match, CanMatch, Complete
    <3>2. ~UNCHANGED vars
      BY <1>1 DEF vars
    <3> QED BY <1>1, <3>1, <3>2 DEF Next
  <2>2. cmd \in CommandPayload /\ DOMAIN m_Orders = DOMAIN node
    BY <1>1, ConstantsAssumption DEF Inductive, Sound, NodesSound
  <2>3. CASE cmd \in AddCommand
    <3>1. HandleAdd(cmd)
      <4>1. cmd.type = "Add"
        BY <2>3 DEF AddCommand
      <4> QED BY <2>1, <4>1 DEF Apply
    <3> QED BY <3>1 DEF HandleAdd
  <2>4. CASE cmd \in ModifyCommand
    <3>1. HandleModify(cmd)
      <4>1. cmd.type = "Modify"
        BY <2>4 DEF ModifyCommand
      <4> QED BY <2>1, <4>1 DEF Apply
    <3>2. CASE UNCHANGED book
      BY <3>2
    <3>3. CASE cmd.orderID \in DOMAIN node /\ Reduce(cmd, node[cmd.orderID])
      BY <1>1, <3>3 DEF Reduce, Answer, ModifyAccepted
    <3>4. CASE cmd.orderID \in DOMAIN node /\ Replace(cmd, node[cmd.orderID])
      <4> DEFINE o   == node[cmd.orderID]
                 lv  == Unlink(levels, cmd.orderID, o)
                 req == [clientID |-> cmd.clientID, price |-> cmd.new_price,
                         quantity |-> cmd.new_quantity, side |-> o.side,
                         order_type |-> o.order_type, tif |-> o.tif,
                         match_type |-> "Standard", flags |-> o.flags]
      <4>1. CASE PreCheck(lv, req) = "Success"
        <5>1. reply' = NoEvent
          BY <3>4, <4>1 DEF Replace, StartMatching
        <5> QED BY <1>1, <5>1 DEF NoEvent
      <4>2. CASE PreCheck(lv, req) # "Success"
        <5>1. reply' = ModifyRejected(cmd, "InvalidModify")
          BY <3>4, <4>2 DEF Replace, Answer
        <5>2. reply'.orderID = cmd.orderID
          BY <5>1 DEF ModifyRejected
        <5>3. req.tif # "FOK"
          BY <1>1, <3>4 DEF OnlyRestingKinds
        <5> HIDE DEF lv
        <5>4. WouldTake(lv, req)
          BY <4>2, <5>3 DEF PreCheck
        <5>5. o.order_type = "Limit" /\ "PostOnly" \in o.flags
          BY <5>4 DEF WouldTake
        <5> QED BY <5>2, <5>5
      <4> QED BY <4>1, <4>2
    <3> QED BY <2>2, <3>1, <3>2, <3>3, <3>4 DEF HandleModify
  <2>5. CASE cmd \in CancelCommand
    <3>1. HandleCancel(cmd)
      <4>1. cmd.type = "Cancel"
        BY <2>5 DEF CancelCommand
      <4> QED BY <2>1, <4>1 DEF Apply
    <3>2. CASE UNCHANGED book
      BY <3>2
    <3>3. CASE Answer([type |-> "CancelAccepted", clientID |-> cmd.clientID,
                       orderID |-> cmd.orderID])
      BY <1>1, <3>3 DEF Answer
    <3> QED BY <3>1, <3>2, <3>3 DEF HandleCancel
  <2>6. CASE cmd = NoCommand
    <3>1. HandleNone(cmd)
      <4>1. cmd.type = "None"
        BY <2>6 DEF NoCommand
      <4> QED BY <2>1, <4>1 DEF Apply
    <3> QED BY <3>1 DEF HandleNone
  <2> QED BY <2>2, <2>3, <2>4, <2>5, <2>6 DEF CommandPayload
<1>2. Inductive /\ OnlyRestingKinds /\ [Next]_vars => [Kept]_vars
  BY <1>1
<1> QED BY <1>2, InductiveInvariant, RestingKindsInvariant, PTL
    DEF Spec, RefusedModifyKeepsOrder

-----------------------------------------------------------------------------
(* The refinement of PriceTimeBook, step by step.                          *)

\* The orders of a node map as PriceTimeBook sees them.
RestingOf(nd) == {AsResting(nd[id]) : id \in DOMAIN nd}

\* Orders that know their ids are told apart by them.
LEMMA RestingWithout ==
  ASSUME NEW nd, \A x \in DOMAIN nd : nd[x].orderID = x, NEW id \in DOMAIN nd
  PROVE  RestingOf(Without(nd, id)) = RestingOf(nd) \ {AsResting(nd[id])}
<1>1. \A x \in DOMAIN nd : AsResting(nd[x]).id = x
  BY DEF AsResting
<1>2. /\ DOMAIN Without(nd, id) = DOMAIN nd \ {id}
      /\ \A x \in DOMAIN nd \ {id} : Without(nd, id)[x] = nd[x]
  BY DEF Without
<1> QED BY <1>1, <1>2 DEF RestingOf

LEMMA RestingWith ==
  ASSUME NEW nd, NEW id, id \notin DOMAIN nd, NEW o
  PROVE  RestingOf([i \in DOMAIN nd \cup {id} |-> IF i = id THEN o ELSE nd[i]])
           = RestingOf(nd) \cup {AsResting(o)}
<1> DEFINE ne == [i \in DOMAIN nd \cup {id} |-> IF i = id THEN o ELSE nd[i]]
<1>1. /\ DOMAIN ne = DOMAIN nd \cup {id} /\ ne[id] = o
      /\ \A x \in DOMAIN nd : ne[x] = nd[x]
  OBVIOUS
<1> HIDE DEF ne
<1>2. RestingOf(ne) = RestingOf(nd) \cup {AsResting(o)}
  BY <1>1 DEF RestingOf
<1> QED BY <1>2 DEF ne

LEMMA RestingChanged ==
  ASSUME NEW nd, \A x \in DOMAIN nd : nd[x].orderID = x, NEW id \in DOMAIN nd,
         NEW o
  PROVE  RestingOf([nd EXCEPT ![id] = o])
           = (RestingOf(nd) \ {AsResting(nd[id])}) \cup {AsResting(o)}
<1> DEFINE ne == [nd EXCEPT ![id] = o]
<1>1. /\ DOMAIN ne = DOMAIN nd /\ ne[id] = o
      /\ \A x \in DOMAIN nd \ {id} : ne[x] = nd[x]
  OBVIOUS
<1>2. \A x \in DOMAIN nd : AsResting(nd[x]).id = x
  BY DEF AsResting
<1> HIDE DEF ne
<1>3. RestingOf(ne) = (RestingOf(nd) \ {AsResting(nd[id])}) \cup {AsResting(o)}
  BY <1>1, <1>2 DEF RestingOf
<1> QED BY <1>3 DEF ne

\* The view of an order with less open quantity.
LEMMA RestingReduced ==
  ASSUME NEW o \in Order, NEW r
  PROVE  AsResting([o EXCEPT !.remaining = r]) = [AsResting(o) EXCEPT !.open = r]
<1> DEFINE n == [o EXCEPT !.remaining = r]
<1>1. /\ n.orderID = o.orderID /\ n.clientID = o.clientID /\ n.side = o.side
      /\ n.price = o.price /\ n.order_type = o.order_type /\ n.tif = o.tif
      /\ n.remaining = r
  BY DEF Order
<1> HIDE DEF n
<1>2. AsResting(n) = [AsResting(o) EXCEPT !.open = r]
  BY <1>1 DEF AsResting
<1> QED BY <1>2 DEF n

\* The three variables of the view.
Incoming == IF Idle THEN {} ELSE {AsResting(taker)}
LastID   == m_OrderCounter - 1

\* A handler that ends at once leaves two of them alone.
LEMMA AnswerKeeps ==
  ASSUME Idle, NEW event, Answer(event)
  PROVE  Incoming = {} /\ Incoming' = Incoming /\ LastID' = LastID
  BY DEF Answer, Idle, Incoming, LastID

\* A command that starts to match an order lets it arrive.
LEMMA StartArrives ==
  ASSUME Inductive, Idle, NEW cmd, cmd # NoCommand, NEW req, StartMatching(cmd, req),
         NEW r,
         r.client = req.clientID, r.side = req.side, r.price = req.price,
         r.open = req.quantity, r.market = (req.order_type = "Market"),
         r.rests = (req.tif \in {"GTC", "Day"} /\ req.order_type # "Market")
  PROVE  Promised!Arrive(r)
<1>1. /\ taker' = NewOrder(req) /\ handling' = cmd
      /\ m_OrderCounter' = m_OrderCounter + 1 /\ m_OrderCounter \in Nat
  BY DEF StartMatching, Inductive
<1>2. ~Idle'
  BY <1>1 DEF Idle
<1>3. m_OrderCounter' - 1 = (m_OrderCounter - 1) + 1
      /\ m_OrderCounter = (m_OrderCounter - 1) + 1
  BY <1>1
<1>4. AsResting(NewOrder(req)) = Promised!Numbered(r, m_OrderCounter)
  BY DEF AsResting, NewOrder, Promised!Numbered
<1> QED BY <1>1, <1>2, <1>3, <1>4 DEF Promised!Arrive

\* It uses up an id.
LEMMA StartCounts ==
  ASSUME Inductive, NEW cmd, NEW req, StartMatching(cmd, req)
  PROVE  LastID' # LastID
BY DEF StartMatching, Inductive, LastID

LEMMA AddRefines ==
  ASSUME Inductive, NEW cmd \in AddCommand, HandleAdd(cmd)
  PROVE  [Promised!Next]_(Promised!vars)
<1> DEFINE request == [client |-> cmd.clientID, side |-> cmd.side,
                       price |-> cmd.price, open |-> cmd.quantity,
                       market |-> cmd.order_type = "Market",
                       rests |-> cmd.tif \in {"GTC", "Day"}
                                   /\ cmd.order_type # "Market"]
<1>1. Idle /\ node' = node
  BY DEF HandleAdd, Begin, book
<1>2. CASE StartMatching(cmd, cmd)
  <2>1. request \in Promised!Request
    BY DEF AddCommand, Promised!Request, Side
  <2>2. cmd # NoCommand
    BY DEF AddCommand, NoCommand
  <2>3. Promised!Arrive(request)
    BY <1>1, <1>2, <2>2, StartArrives
  <2>4. Promised!Enter(request)
    BY <1>1, <2>3 DEF Promised!Enter
  <2> HIDE DEF request
  <2>5. Promised!Submit
    BY <2>1, <2>4 DEF Promised!Submit
  <2>6. LastID' # LastID
    BY <1>2, StartCounts
  <2> QED BY <1>1, <2>5, <2>6 DEF Promised!Next, Incoming, LastID
<1>3. ASSUME NEW event, Answer(event)
      PROVE  UNCHANGED Promised!vars
  BY <1>1, <1>3, AnswerKeeps DEF Promised!vars, Incoming, LastID
<1> QED BY <1>2, <1>3 DEF HandleAdd

\* An order that is unlinked and nothing else: the step Cancel.
LEMMA UnlinkRefines ==
  ASSUME Inductive, Idle, NEW id \in DOMAIN node, node' = Without(node, id),
         NEW event, Answer(event)
  PROVE  [Promised!Next]_(Promised!vars)
<1> DEFINE r == AsResting(node[id])
<1>1. \A x \in DOMAIN node : node[x].orderID = x
  BY DEF Inductive, Sound, NodesSound
<1>2. RestingOf(node') = RestingOf(node) \ {r} /\ r \in RestingOf(node)
  <2>1. RestingOf(node') = RestingOf(node) \ {r}
    BY <1>1, RestingWithout
  <2> QED BY <2>1 DEF RestingOf
<1>3. Incoming = {} /\ Incoming' = Incoming /\ LastID' = LastID
  BY AnswerKeeps
<1> HIDE DEF r
<1>4. Promised!Cancel(r)
  BY <1>2, <1>3 DEF Promised!Cancel, RestingOf, Incoming, LastID
<1>5. Promised!Withdraw
  BY <1>2, <1>4 DEF Promised!Withdraw, RestingOf
<1> QED BY <1>3, <1>5 DEF Promised!Next, Incoming, LastID

LEMMA CancelRefines ==
  ASSUME Inductive, NEW cmd \in CancelCommand, HandleCancel(cmd)
  PROVE  [Promised!Next]_(Promised!vars)
<1>1. Idle /\ DOMAIN m_Orders = DOMAIN node
  BY DEF HandleCancel, Begin, Inductive, Sound, NodesSound
<1>2. CASE node' = node /\ \E event : Answer(event)
  BY <1>1, <1>2, AnswerKeeps DEF Promised!vars, Incoming, LastID
<1>3. CASE /\ cmd.orderID \in DOMAIN node
           /\ node' = Without(node, cmd.orderID)
           /\ \E event : Answer(event)
  BY <1>1, <1>3, UnlinkRefines
<1> QED BY <1>1, <1>2, <1>3 DEF HandleCancel, book

\* An order that is re-entered is the step Replace, or Cancel when a
\* pre-check refuses it.
LEMMA ReplaceRefines ==
  ASSUME Inductive, Idle, NEW cmd \in ModifyCommand, cmd.orderID \in DOMAIN node,
         node[cmd.orderID].clientID = cmd.clientID,
         Replace(cmd, node[cmd.orderID])
  PROVE  [Promised!Next]_(Promised!vars)
<1> DEFINE id  == cmd.orderID
           o   == node[id]
           r   == AsResting(o)
           req == [clientID |-> cmd.clientID, price |-> cmd.new_price,
                   quantity |-> cmd.new_quantity, side |-> o.side,
                   order_type |-> o.order_type, tif |-> o.tif,
                   match_type |-> "Standard", flags |-> o.flags]
           new == [r EXCEPT !.price = cmd.new_price, !.open = cmd.new_quantity]
<1>1. node' = Without(node, id)
  BY DEF Replace
<1>2. CASE Answer(ModifyRejected(cmd, "InvalidModify"))
  BY <1>1, <1>2, UnlinkRefines
<1>3. CASE StartMatching(cmd, req)
  <2>1. \A x \in DOMAIN node : node[x].orderID = x
    BY DEF Inductive, Sound, NodesSound
  <2>2. RestingOf(node') = RestingOf(node) \ {r} /\ r \in RestingOf(node)
    <3>1. RestingOf(node') = RestingOf(node) \ {r}
      BY <1>1, <2>1, RestingWithout
    <3> QED BY <3>1 DEF RestingOf
  <2>3. cmd # NoCommand
    BY DEF ModifyCommand, NoCommand
  <2>4. /\ new.client = req.clientID /\ new.side = req.side
        /\ new.price = req.price /\ new.open = req.quantity
        /\ new.market = (req.order_type = "Market")
        /\ new.rests = (req.tif \in {"GTC", "Day"} /\ req.order_type # "Market")
    BY DEF AsResting
  <2> HIDE DEF new, req
  <2>5. Promised!Arrive(new)
    BY <1>3, <2>3, <2>4, StartArrives
  <2> HIDE DEF r
  <2>6. Promised!Replace(r, cmd.new_price, cmd.new_quantity)
    BY <2>2, <2>5 DEF Promised!Replace, RestingOf, new
  <2>7. cmd.new_price \in Price /\ cmd.new_quantity \in Quantity
    BY DEF ModifyCommand
  <2>8. Promised!Submit
    BY <2>2, <2>6, <2>7 DEF Promised!Submit, RestingOf
  <2>9. LastID' # LastID
    BY <1>3, StartCounts
  <2> QED BY <2>8, <2>9 DEF Promised!Next, Incoming, LastID
<1> QED BY <1>2, <1>3 DEF Replace

LEMMA ReduceRefines ==
  ASSUME Inductive, Idle, NEW cmd \in ModifyCommand, cmd.orderID \in DOMAIN node,
         cmd.new_quantity < node[cmd.orderID].remaining,
         Reduce(cmd, node[cmd.orderID])
  PROVE  [Promised!Next]_(Promised!vars)
<1> DEFINE id == cmd.orderID
           o  == node[id]
           r  == AsResting(o)
           q  == cmd.new_quantity
<1>1. node' = [node EXCEPT ![id] = [node[id] EXCEPT !.remaining = q]]
  BY DEF Reduce
<1>2. (\A x \in DOMAIN node : node[x].orderID = x) /\ o \in Order
  BY DEF Inductive, Sound, NodesSound
<1>3. AsResting([o EXCEPT !.remaining = q]) = [r EXCEPT !.open = q]
  BY <1>2, RestingReduced
<1>4. RestingOf(node') = (RestingOf(node) \ {r}) \cup {[r EXCEPT !.open = q]}
  <2> DEFINE n == [o EXCEPT !.remaining = q]
  <2>1. node' = [node EXCEPT ![id] = n] /\ AsResting(n) = [r EXCEPT !.open = q]
    BY <1>1, <1>3
  <2> HIDE DEF n
  <2>2. RestingOf([node EXCEPT ![id] = n])
          = (RestingOf(node) \ {AsResting(node[id])}) \cup {AsResting(n)}
    BY <1>2, RestingChanged
  <2> QED BY <2>1, <2>2
<1>5. r \in RestingOf(node) /\ q < r.open /\ q \in Quantity
  BY DEF RestingOf, AsResting, ModifyCommand
<1>6. Incoming = {} /\ Incoming' = Incoming /\ LastID' = LastID
  BY AnswerKeeps DEF Reduce
<1> HIDE DEF r, q
<1>7. Promised!Reduce(r, q)
  BY <1>4, <1>5, <1>6 DEF Promised!Reduce, RestingOf, Incoming, LastID
<1>8. Promised!Withdraw
  BY <1>5, <1>7 DEF Promised!Withdraw, RestingOf
<1> QED BY <1>6, <1>8 DEF Promised!Next, Incoming, LastID

LEMMA ModifyRefines ==
  ASSUME Inductive, NEW cmd \in ModifyCommand, HandleModify(cmd)
  PROVE  [Promised!Next]_(Promised!vars)
<1>1. Idle /\ DOMAIN m_Orders = DOMAIN node
  BY DEF HandleModify, Begin, Inductive, Sound, NodesSound
<1>2. CASE node' = node /\ \E event : Answer(event)
  BY <1>1, <1>2, AnswerKeeps DEF Promised!vars, Incoming, LastID
<1>3. CASE /\ cmd.orderID \in DOMAIN node
           /\ node[cmd.orderID].clientID = cmd.clientID
           /\ Replace(cmd, node[cmd.orderID])
  BY <1>1, <1>3, ReplaceRefines
<1>4. CASE /\ cmd.orderID \in DOMAIN node
           /\ cmd.new_quantity < node[cmd.orderID].remaining
           /\ Reduce(cmd, node[cmd.orderID])
  BY <1>1, <1>4, ReduceRefines
<1> QED BY <1>1, <1>2, <1>3, <1>4 DEF HandleModify, book

\* One iteration of the loop is the step Trade.
LEMMA MatchRefines ==
  ASSUME Inductive, Match
  PROVE  [Promised!Next]_(Promised!vars)
<1> DEFINE o == AsResting(taker)
           m == node[Top]
           r == AsResting(m)
           q == IF taker.remaining <= m.remaining THEN taker.remaining ELSE m.remaining
<1>1. /\ ~Idle /\ taker.remaining > 0 /\ Prices(levels, Opposite(taker.side)) # {}
      /\ Crosses(taker, m.price) /\ Idle' = Idle /\ m_OrderCounter' = m_OrderCounter
  BY DEF Match, CanMatch, Idle
<1>2. /\ taker \in Order /\ m \in Order /\ Top \in DOMAIN node
      /\ m.side = Opposite(taker.side)
  BY <1>1, TopProperties
<1>3. /\ taker' = [taker EXCEPT !.remaining = @ - q]
      /\ IF m.remaining = q
         THEN node' = Without(node, Top)
         ELSE node' = [node EXCEPT ![Top] = [m EXCEPT !.remaining = @ - q]]
  BY MatchOrders
<1>4. \A x \in DOMAIN node : node[x].orderID = x
  BY DEF Inductive, Sound, NodesSound
<1>5. q = IF o.open <= r.open THEN o.open ELSE r.open
  BY DEF AsResting
<1>6. r \in RestingOf(node) /\ r.open = m.remaining /\ r.id = Top /\ r.side = m.side
      /\ r.price = m.price /\ o.open = taker.remaining /\ o.side = taker.side
      /\ o.price = taker.price /\ o.market = (taker.order_type = "Market")
  BY <1>2, <1>4 DEF RestingOf, AsResting
<1> HIDE DEF q
<1>7. AsResting(taker') = [o EXCEPT !.open = @ - q]
  <2>1. AsResting([taker EXCEPT !.remaining = taker.remaining - q])
          = [o EXCEPT !.open = taker.remaining - q]
    BY <1>2, RestingReduced
  <2> QED BY <1>3, <1>6, <2>1
<1>8. RestingOf(node') = (RestingOf(node) \ {r}) \cup
                           (IF r.open = q THEN {} ELSE {[r EXCEPT !.open = @ - q]})
  <2>1. CASE m.remaining = q
    <3>1. RestingOf(node') = RestingOf(node) \ {r}
      BY <1>2, <1>3, <1>4, <2>1, RestingWithout
    <3> QED BY <1>6, <2>1, <3>1
  <2>2. CASE m.remaining # q
    <3> DEFINE n == [m EXCEPT !.remaining = m.remaining - q]
    <3>1. node' = [node EXCEPT ![Top] = n]
      BY <1>3, <2>2
    <3>2. AsResting(n) = [r EXCEPT !.open = m.remaining - q]
      BY <1>2, RestingReduced
    <3> HIDE DEF n
    <3>3. RestingOf([node EXCEPT ![Top] = n])
            = (RestingOf(node) \ {AsResting(node[Top])}) \cup {AsResting(n)}
      BY <1>2, <1>4, RestingChanged
    <3> QED BY <1>6, <2>2, <3>1, <3>2, <3>3
  <2> QED BY <2>1, <2>2
<1>9. Promised!Accepts(o, r)
  BY <1>1, <1>2, <1>6 DEF Promised!Accepts, Crosses, Order, Opposite, Side
<1>10. \A s \in RestingOf(node) : s.side = r.side /\ s # r => Promised!Before(r, s)
  <2> SUFFICES ASSUME NEW x \in DOMAIN node, node[x].side = m.side, x # Top
               PROVE  Promised!Before(r, AsResting(node[x]))
    BY <1>6 DEF RestingOf, AsResting
  <2>1. \/ Better(m.side, m.price, node[x].price)
        \/ m.price = node[x].price /\ Top < x
    BY <1>1, TopFirst
  <2>2. AsResting(node[x]).price = node[x].price /\ AsResting(node[x]).id = x
    BY <1>4 DEF AsResting
  <2> QED BY <1>6, <2>1, <2>2 DEF Promised!Before, Better
<1> HIDE DEF o, r, m
<1>11. Promised!NextFor(o, r)
  BY <1>1, <1>6, <1>9, <1>10 DEF Promised!NextFor, RestingOf
<1>12. Incoming = {o} /\ Incoming' = {[o EXCEPT !.open = @ - q]} /\ LastID' = LastID
  <2>1. Incoming' = {AsResting(taker')}
    BY <1>1 DEF Incoming
  <2> QED BY <1>1, <1>7, <2>1 DEF Incoming, LastID, o
<1>13. Promised!Trade(o, r)
  BY <1>5, <1>8, <1>11, <1>12 DEF Promised!Trade, RestingOf, Incoming, LastID
<1> QED BY <1>6, <1>12, <1>13 DEF Promised!Next, RestingOf, Incoming

\* What follows the loop is the step Settle: nothing that rests is acceptable.
LEMMA CompleteRefines ==
  ASSUME Inductive, Complete
  PROVE  [Promised!Next]_(Promised!vars)
<1> DEFINE o    == AsResting(taker)
           opp  == Opposite(taker.side)
           best == BestPrice(levels, opp)
<1>1. ~Idle /\ ~CanMatch /\ Idle' /\ m_OrderCounter' = m_OrderCounter
  BY DEF Complete, Idle
<1>2. taker \in Order /\ LevelsSound(levels) /\ LinksSound(levels, node)
      /\ NodesSound(node, m_Orders)
  BY <1>1 DEF Inductive, Sound
<1>3. /\ o.open = taker.remaining /\ o.side = taker.side /\ o.price = taker.price
      /\ o.market = (taker.order_type = "Market")
      /\ o.rests = (taker.tif \in {"GTC", "Day"} /\ taker.order_type # "Market")
  BY DEF AsResting
<1> HIDE DEF o
<1>4. ASSUME NEW x \in DOMAIN node, o.open > 0, Promised!Accepts(o, AsResting(node[x]))
      PROVE  FALSE
  <2>1. AsResting(node[x]).side = node[x].side /\ AsResting(node[x]).price = node[x].price
    BY DEF AsResting
  <2>2. /\ node[x].side = opp /\ opp \in Side
        /\ Crosses(taker, node[x].price)
        /\ node[x].price \in Prices(levels, opp)
    <3>1. node[x] \in Order /\ node[x].price \in Prices(levels, node[x].side)
      BY <1>2 DEF NodesSound, LinksSound
    <3> QED BY <1>2, <1>3, <1>4, <2>1, <3>1
        DEF Promised!Accepts, Crosses, Order, Opposite, Side
  <2>3. node[Top].price = best
    BY <1>1, <2>2, TopProperties
  <2>4. ~Crosses(taker, best)
    BY <1>1, <1>3, <1>4, <2>2, <2>3 DEF CanMatch
  <2>5. /\ best \in Prices(levels, opp)
        /\ node[x].price = best \/ Better(opp, best, node[x].price)
    BY <1>2, <2>2, BestPriceIsBest
  <2>6. best \in Int /\ node[x].price \in Int /\ taker.price \in Int
    BY <1>2, <2>2, <2>5, ConstantsAssumption DEF LevelsSound, Order, Price
  <2> HIDE DEF best
  <2> QED BY <1>2, <2>2, <2>4, <2>5, <2>6 DEF Crosses, Better, Opposite, Order, Side
<1>5. \A r \in RestingOf(node) : ~Promised!NextFor(o, r)
  BY <1>4 DEF RestingOf, Promised!NextFor
<1>6. RestingOf(node') = IF o.open > 0 /\ o.rests THEN RestingOf(node) \cup {o}
                                                  ELSE RestingOf(node)
  <2>1. taker.orderID \notin DOMAIN node
    BY CompleteOrders
  <2>2. Rests <=> o.open > 0 /\ o.rests
    BY <1>3 DEF Rests
  <2>3. CASE Rests
    BY <2>1, <2>2, <2>3, CompleteOrders, RestingWith DEF o
  <2>4. CASE ~Rests
    BY <2>2, <2>4, CompleteOrders
  <2> QED BY <2>3, <2>4
<1>7. Incoming = {o} /\ Incoming' = {} /\ LastID' = LastID
  BY <1>1 DEF Incoming, LastID, o
<1>8. Promised!Settle(o)
  BY <1>5, <1>6, <1>7 DEF Promised!Settle, RestingOf, Incoming, LastID
<1> QED BY <1>7, <1>8 DEF Promised!Next, Incoming

\* The book is a price-time priority book: it starts as an empty one, and each
\* of its steps, on levels, lists, index and cached prices, is a step of one
\* or changes nothing it shows.  (That the matching loop comes to its end, the
\* other half of ImplementsPriceTimeBook, is checked by TLC.)
THEOREM BookRefinesPriceTimeBook ==
  Spec => Promised!Init /\ [][Promised!Next]_(Promised!vars)
<1>1. Init => Promised!Init
  BY DEF Init, Promised!Init, Idle
<1>2. ASSUME Inductive, [Next]_vars
      PROVE  [Promised!Next]_(Promised!vars)
  <2>1. CASE \E cmd \in Commands : Apply(cmd)
    <3>1. PICK cmd \in Commands : Apply(cmd)
      BY <2>1
    <3>2. cmd \in CommandPayload
      BY ConstantsAssumption
    <3>3. CASE cmd \in AddCommand
      <4>1. cmd.type = "Add"
        BY <3>3 DEF AddCommand
      <4> QED BY <1>2, <3>1, <3>3, <4>1, AddRefines DEF Apply
    <3>4. CASE cmd \in ModifyCommand
      <4>1. cmd.type = "Modify"
        BY <3>4 DEF ModifyCommand
      <4> QED BY <1>2, <3>1, <3>4, <4>1, ModifyRefines DEF Apply
    <3>5. CASE cmd \in CancelCommand
      <4>1. cmd.type = "Cancel"
        BY <3>5 DEF CancelCommand
      <4> QED BY <1>2, <3>1, <3>5, <4>1, CancelRefines DEF Apply
    <3>6. CASE cmd = NoCommand
      <4>1. cmd.type = "None"
        BY <3>6 DEF NoCommand
      <4>2. Idle /\ Answer(NoEvent) /\ node' = node
        BY <3>1, <4>1 DEF Apply, HandleNone, Begin, book
      <4> QED BY <4>2, AnswerKeeps DEF Promised!vars, Incoming, LastID
    <3> QED BY <3>2, <3>3, <3>4, <3>5, <3>6 DEF CommandPayload
  <2>2. CASE Match
    BY <1>2, <2>2, MatchRefines
  <2>3. CASE Complete
    BY <1>2, <2>3, CompleteRefines
  <2>4. CASE UNCHANGED vars
    BY <2>4 DEF vars, Promised!vars, Idle
  <2> QED BY <1>2, <2>1, <2>2, <2>3, <2>4 DEF Next
<1>3. Inductive /\ [Next]_vars => [Promised!Next]_(Promised!vars)
  BY <1>2
<1> QED BY <1>1, <1>3, InductiveInvariant, PTL DEF Spec

-----------------------------------------------------------------------------
(* Quantities: what is executed is recorded.                               *)

\* The Trade payload (Events.hpp).
TradePayload ==
  [tradeID : Nat, makerOrderID : ClientID, takerOrderID : ClientID,
   price : Price, quantity : Quantity, takerSide : Side]

Quantities(list) == [k \in DOMAIN list |-> list[k].quantity]

\* One trade more adds its quantity to what the trades add up to.
LEMMA SumOfTrades ==
  ASSUME NEW list \in Seq(TradePayload), NEW trade \in TradePayload
  PROVE  /\ SumFunction(Quantities(list)) \in Int
         /\ SumFunction(Quantities(Append(list, trade)))
              = SumFunction(Quantities(list)) + trade.quantity
<1> DEFINE longer == Append(list, trade)
           n      == Len(list) + 1
           f      == Quantities(longer)
           g      == Quantities(list)
<1>1. /\ DOMAIN list = 1 .. Len(list) /\ Len(list) \in Nat
      /\ DOMAIN longer = DOMAIN list \cup {n} /\ n \notin DOMAIN list
      /\ \A k \in DOMAIN list : longer[k] = list[k] /\ list[k] \in TradePayload
      /\ longer[n] = trade
  OBVIOUS
<1>2. \A t \in TradePayload : t.quantity \in Int
  BY ConstantsAssumption DEF TradePayload, Quantity
<1> HIDE DEF longer, n
<1>3. /\ DOMAIN f = DOMAIN list \cup {n} /\ DOMAIN g = DOMAIN list
      /\ f[n] = trade.quantity
      /\ \A k \in DOMAIN list : f[k] = g[k]
      /\ \A k \in DOMAIN list \cup {n} : f[k] \in Int
      /\ \A k \in DOMAIN list : g[k] \in Int
  BY <1>1, <1>2 DEF Quantities
<1>4. IsFiniteSet(DOMAIN list)
  BY <1>1, FS_Interval
<1> HIDE DEF f, g
<1>5. SumFunctionOnSet(f, DOMAIN list \cup {n})
        = SumFunctionOnSet(f, DOMAIN list) + f[n]
  BY <1>1, <1>3, <1>4, SumWith
<1>6. SumFunctionOnSet(f, DOMAIN list) = SumFunctionOnSet(g, DOMAIN list)
  BY <1>3, <1>4, SumSame
<1>7. SumFunctionOnSet(g, DOMAIN list) \in Int
  BY <1>3, <1>4, SumElement
<1> QED BY <1>3, <1>5, <1>6, <1>7 DEF SumFunction, f, g, longer

\* No trade yet adds up to nothing.
LEMMA SumOfNoTrades == SumFunction(Quantities(<<>>)) = 0
<1>1. DOMAIN Quantities(<<>>) = {}
  BY DEF Quantities
<1> QED BY <1>1, SumEmpty DEF SumFunction

TradesAccounted == trades \in Seq(TradePayload) /\ TradesAccountForFill

\* The trades recorded for a command add up to what its order has filled, and
\* each is at a price the order accepts, as long as the scratch array had room
\* for all of them (RecordFill drops a trade otherwise, OrderBook.inl).
THEOREM TradesCorrect == Spec => []TradesAccountForFill
<1> DEFINE Filled == SumFunction(Quantities(trades))
<1>0. TradesAccountForFill <=>
        (~Idle /\ Len(trades) < MaxEventsPerCommand
           => /\ Wanted(handling) = taker.remaining + Filled
              /\ \A k \in DOMAIN trades : Crosses(taker, trades[k].price))
  BY DEF TradesAccountForFill, Wanted, Quantities
<1>p. (TradesAccountForFill <=>
        (~Idle /\ Len(trades) < MaxEventsPerCommand
           => /\ Wanted(handling) = taker.remaining + Filled
              /\ \A k \in DOMAIN trades : Crosses(taker, trades[k].price)))'
  BY <1>0, PTL
<1>1. Init => TradesAccounted
  BY DEF Init, TradesAccounted, TradesAccountForFill, Idle
<1>2. ASSUME Inductive, Inductive', TradesAccounted, [Next]_vars
      PROVE  TradesAccounted'
  <2>t. trades \in Seq(TradePayload)
    BY <1>2 DEF TradesAccounted
  <2>1. CASE \E cmd \in Commands : Apply(cmd)
    <3>1. PICK cmd \in Commands : Apply(cmd)
      BY <2>1
    <3>2. trades' = <<>>
      BY <3>1 DEF Apply, HandleAdd, HandleModify, HandleCancel, HandleNone, Begin
    <3>3. ASSUME ~Idle'
          PROVE  Wanted(handling') = taker'.remaining + Filled'
      <4>1. PICK req : taker' = NewOrder(req) /\ req.quantity = Wanted(handling')
        BY <1>2, <3>1, <3>3, StartedOrder
      <4>2. taker'.remaining = Wanted(handling') /\ taker'.remaining \in Int
        <5>1. taker' \in Order
          BY <1>2, <3>3 DEF Inductive
        <5> QED BY <4>1, <5>1, ConstantsAssumption DEF NewOrder, Order, Quantity
      <4>3. Filled' = 0
        BY <3>2, SumOfNoTrades
      <4> QED BY <4>2, <4>3
    <3> QED BY <1>p, <3>2, <3>3 DEF TradesAccounted
  <2>2. CASE Match
    <3> DEFINE q     == IF taker.remaining <= node[Top].remaining
                        THEN taker.remaining ELSE node[Top].remaining
               trade == TradeOf(node[Top], q)
    <3>1. /\ CanMatch /\ ~Idle /\ Prices(levels, Opposite(taker.side)) # {}
          /\ Crosses(taker, node[Top].price)
      BY <2>2 DEF Match, CanMatch
    <3>2. /\ taker \in Order /\ node[Top] \in Order
          /\ node[Top].side \in Side
      BY <1>2, <3>1, TopProperties
    <3>3. /\ q \in Nat /\ taker.remaining \in Nat
          /\ taker' = [taker EXCEPT !.remaining = @ - q]
          /\ handling' = handling /\ RecordTrade(trade)
      BY <1>2, <2>2, MatchOrders DEF Match
    <3>4. /\ taker'.remaining = taker.remaining - q
          /\ \A p : Crosses(taker', p) <=> Crosses(taker, p)
      BY <3>2, <3>3 DEF Order, Crosses
    <3>5. trade \in TradePayload /\ trade.quantity = q /\ trade.price = node[Top].price
      <4>1. q \in Quantity /\ m_TradeCounter \in Nat
        BY <1>2, <3>2 DEF Order, Inductive
      <4> HIDE DEF q
      <4> QED BY <3>2, <4>1 DEF TradeOf, TradePayload, Order
    <3> HIDE DEF q, trade
    <3>6. CASE ~(Len(trades) < MaxEventsPerCommand)
      BY <1>p, <2>t, <3>3, <3>6 DEF RecordTrade, TradesAccounted
    <3>7. CASE Len(trades) < MaxEventsPerCommand
      <4>1. trades' = Append(trades, trade)
        BY <3>3, <3>7 DEF RecordTrade
      <4>2. Filled' = Filled + q /\ Filled \in Int
        BY <2>t, <3>5, <4>1, SumOfTrades
      <4>3. /\ Wanted(handling) = taker.remaining + Filled
            /\ \A k \in DOMAIN trades : Crosses(taker, trades[k].price)
        BY <1>0, <1>2, <3>1, <3>7 DEF TradesAccounted
      <4>4. Wanted(handling') = taker'.remaining + Filled'
        <5> HIDE DEF Filled
        <5> QED BY <3>3, <3>4, <4>2, <4>3
      <4>5. \A k \in DOMAIN trades' : Crosses(taker', trades'[k].price)
        <5>1. \A k \in DOMAIN trades' : \/ k \in DOMAIN trades /\ trades'[k] = trades[k]
                                        \/ trades'[k] = trade
          BY <2>t, <4>1
        <5> QED BY <3>1, <3>4, <3>5, <4>3, <5>1
      <4> QED BY <1>p, <2>t, <3>5, <4>1, <4>4, <4>5 DEF TradesAccounted
    <3> QED BY <3>6, <3>7
  <2>3. CASE Complete
    BY <1>p, <2>3, <2>t DEF Complete, Idle, TradesAccounted
  <2>4. CASE UNCHANGED vars
    BY <1>2, <2>4 DEF vars, TradesAccounted, TradesAccountForFill, Idle, Crosses
  <2> QED BY <1>2, <2>1, <2>2, <2>3, <2>4 DEF Next
<1>3. Inductive /\ Inductive' /\ TradesAccounted /\ [Next]_vars => TradesAccounted'
  BY <1>2
<1>4. TradesAccounted => TradesAccountForFill
  BY DEF TradesAccounted
<1> QED BY <1>1, <1>3, <1>4, InductiveInvariant, PTL DEF Spec

-----------------------------------------------------------------------------
(* Quantities: the volume of a level.                                      *)

\* What the orders `ids` have left together.
Total(nd, ids) == SumFunctionOnSet(Remaining(nd), ids)

FiniteBook(nd) == IsFiniteSet(DOMAIN nd) /\ \A id \in DOMAIN nd : nd[id] \in Order

\* The book is finite: ids are below the counter.
LEMMA BookIsFinite == Inductive => FiniteBook(node)
<1> SUFFICES ASSUME Inductive PROVE FiniteBook(node)
  OBVIOUS
<1>1. /\ m_OrderCounter \in Nat
      /\ \A id \in DOMAIN node : id \in Nat /\ id < m_OrderCounter /\ node[id] \in Order
  BY DEF Inductive, NewestIsTaker, Sound, NodesSound, OrderID
<1>2. DOMAIN node \in SUBSET (0 .. m_OrderCounter)
  BY <1>1
<1>3. IsFiniteSet(0 .. m_OrderCounter)
  BY <1>1, FS_Interval
<1> QED BY <1>1, <1>2, <1>3, FS_Subset DEF FiniteBook

\* Totals are natural numbers, and grow with the set.
LEMMA TotalType ==
  ASSUME NEW nd, FiniteBook(nd), NEW ids \in SUBSET DOMAIN nd
  PROVE  /\ Total(nd, ids) \in Nat /\ IsFiniteSet(ids)
         /\ \A id \in ids : Remaining(nd)[id] = nd[id].remaining /\ nd[id].remaining \in Nat
         /\ \A part \in SUBSET ids : Total(nd, part) <= Total(nd, ids)
<1>1. IsFiniteSet(ids)
  BY FS_Subset DEF FiniteBook
<1>2. \A id \in ids : Remaining(nd)[id] = nd[id].remaining /\ nd[id].remaining \in Nat
  BY ConstantsAssumption DEF FiniteBook, Remaining, Order, Quantity
<1>3. \A id \in ids : Remaining(nd)[id] \in Nat
  BY <1>2
<1> QED BY <1>1, <1>2, <1>3, SumOfNaturals DEF Total

\* An order leaves.
LEMMA TotalWithout ==
  ASSUME NEW nd, FiniteBook(nd), NEW id \in DOMAIN nd, NEW ids \in SUBSET DOMAIN nd
  PROVE  Total(Without(nd, id), ids \ {id})
           = Total(nd, ids) - (IF id \in ids THEN nd[id].remaining ELSE 0)
<1> DEFINE f == Remaining(nd)
           g == Remaining(Without(nd, id))
<1>1. /\ IsFiniteSet(ids \ {id}) /\ IsFiniteSet(ids)
      /\ \A x \in ids : f[x] \in Int
      /\ id \in ids => f[id] = nd[id].remaining
      /\ Total(nd, ids) \in Int /\ Total(nd, ids \ {id}) \in Int
  <2>1. ids \ {id} \in SUBSET DOMAIN nd
    OBVIOUS
  <2>2. IsFiniteSet(ids \ {id}) /\ Total(nd, ids \ {id}) \in Nat
    BY <2>1, TotalType
  <2>3. /\ IsFiniteSet(ids) /\ Total(nd, ids) \in Nat
        /\ \A x \in ids : f[x] = nd[x].remaining /\ nd[x].remaining \in Nat
    BY TotalType
  <2> HIDE DEF f
  <2> QED BY <2>2, <2>3
<1>2. \A x \in ids \ {id} : f[x] = g[x]
  BY DEF Remaining, Without
<1> HIDE DEF f, g
<1>3. SumFunctionOnSet(f, ids \ {id}) = SumFunctionOnSet(g, ids \ {id})
  BY <1>1, <1>2, SumSame
<1>4. CASE id \in ids
  <2>1. SumFunctionOnSet(f, ids) = f[id] + SumFunctionOnSet(f, ids \ {id})
    BY <1>1, <1>4, SumElement
  <2> QED BY <1>1, <1>3, <1>4, <2>1 DEF Total, f, g
<1>5. CASE id \notin ids
  <2>1. ids \ {id} = ids
    BY <1>5
  <2> QED BY <1>1, <1>3, <1>5, <2>1 DEF Total, f, g
<1> QED BY <1>4, <1>5

\* An order joins.
LEMMA TotalWith ==
  ASSUME NEW nd, FiniteBook(nd), NEW o \in Order, o.orderID \notin DOMAIN nd,
         NEW ids \in SUBSET DOMAIN nd
  PROVE  LET nw == [i \in DOMAIN nd \cup {o.orderID} |->
                      IF i = o.orderID THEN o ELSE nd[i]]
         IN  /\ Total(nw, ids) = Total(nd, ids)
             /\ Total(nw, ids \cup {o.orderID}) = Total(nd, ids) + o.remaining
<1> DEFINE nw == [i \in DOMAIN nd \cup {o.orderID} |->
                    IF i = o.orderID THEN o ELSE nd[i]]
           x  == o.orderID
           f  == Remaining(nd)
           g  == Remaining(nw)
<1>1. IsFiniteSet(ids) /\ (\A i \in ids : f[i] \in Int) /\ x \notin ids
  BY TotalType
<1>2. (\A i \in ids : f[i] = g[i]) /\ g[x] = o.remaining /\ o.remaining \in Int
  BY ConstantsAssumption DEF Remaining, Order, Quantity
<1>3. \A i \in ids \cup {x} : g[i] \in Int
  BY <1>1, <1>2
<1> HIDE DEF f, g, nw, x
<1>4. SumFunctionOnSet(f, ids) = SumFunctionOnSet(g, ids)
  BY <1>1, <1>2, SumSame
<1>5. SumFunctionOnSet(g, ids \cup {x}) = SumFunctionOnSet(g, ids) + g[x]
  BY <1>1, <1>3, SumWith
<1> QED BY <1>2, <1>4, <1>5 DEF Total, f, g, nw, x

\* An order gets another quantity.
LEMMA TotalChanged ==
  ASSUME NEW nd, FiniteBook(nd), NEW id \in DOMAIN nd, NEW o \in Order,
         NEW ids \in SUBSET DOMAIN nd
  PROVE  Total([nd EXCEPT ![id] = o], ids)
           = IF id \in ids THEN Total(nd, ids) - nd[id].remaining + o.remaining
                           ELSE Total(nd, ids)
<1> DEFINE ne == [nd EXCEPT ![id] = o]
           f  == Remaining(nd)
           g  == Remaining(ne)
<1>1. /\ IsFiniteSet(ids) /\ (\A i \in ids : f[i] \in Int)
      /\ id \in ids => f[id] = nd[id].remaining
  BY TotalType
<1>2. (\A i \in ids \ {id} : f[i] = g[i]) /\ g[id] = o.remaining /\ o.remaining \in Int
  BY ConstantsAssumption DEF Remaining, Order, Quantity
<1>3. \A i \in ids : g[i] \in Int
  BY <1>1, <1>2
<1> HIDE DEF f, g, ne
<1>4. CASE id \in ids
  <2>1. SumFunctionOnSet(g, ids) = SumFunctionOnSet(f, ids) - f[id] + g[id]
    BY <1>1, <1>2, <1>3, <1>4, SumChanged
  <2> QED BY <1>1, <1>2, <1>4, <2>1 DEF Total, f, g, ne
<1>5. CASE id \notin ids
  BY <1>1, <1>2, <1>5, SumSame DEF Total, f, g, ne
<1> QED BY <1>4, <1>5

\* The visible orders of a level.
VisibleAt(nd, side, p) ==
  {id \in DOMAIN nd : nd[id].side = side /\ nd[id].price = p /\ IsVisible(nd[id])}

\* Every level shows what its visible orders have left.
VolumesMatch(lv, nd) ==
  \A side \in Side : \A p \in Prices(lv, side) :
    lv[side][p].volume = Total(nd, VisibleAt(nd, side, p)) % QuantityModulus

\* InternalCancelOrder takes a visible order off the volume of its level.
LEMMA UnlinkVolumes ==
  ASSUME NEW lv, NEW nd, Sound(lv, nd, m_Orders), FiniteBook(nd),
         VolumesMatch(lv, nd), NEW id \in DOMAIN nd
  PROVE  VolumesMatch(Unlink(lv, id, nd[id]), Without(nd, id))
<1> DEFINE o    == nd[id]
           p    == o.price
           lw   == Unlink(lv, id, o)
           ne   == Without(nd, id)
           list == lv[o.side][p].orders
           rest == RemoveAt(list, Position(list, id))
           vol  == IF IsVisible(o) THEN Minus(lv[o.side][p].volume, o.remaining)
                                   ELSE lv[o.side][p].volume
<1>1. /\ o.side \in Side /\ m_Orders[id] = p /\ p \in Prices(lv, o.side)
      /\ o.remaining \in Int /\ QuantityModulus \in Nat \ {0}
  BY UnlinkedList, ConstantsAssumption DEF Quantity
<1>2. DOMAIN lv = Side
  BY DEF Sound, LevelsSound
<1>3. lw = IF rest = <<>> THEN EraseLevel(lv, o.side, p)
           ELSE SetLevel(lv, o.side, p, [volume |-> vol, orders |-> rest])
  BY <1>1 DEF Unlink
<1> HIDE DEF rest, lw, vol
<1> SUFFICES ASSUME NEW s \in Side, NEW q \in Prices(lw, s)
             PROVE  lw[s][q].volume = Total(ne, VisibleAt(ne, s, q)) % QuantityModulus
  BY DEF VolumesMatch, lw
<1> DEFINE V == VisibleAt(nd, s, q)
<1>4. q \in Prices(lv, s) /\ IF s = o.side /\ q = p THEN lw[s][q].volume = vol
                                                    ELSE lw[s][q] = lv[s][q]
  <2> DEFINE new == [volume |-> vol, orders |-> rest]
  <2>1. new.volume = vol
    OBVIOUS
  <2> HIDE DEF new
  <2>2. CASE lw = EraseLevel(lv, o.side, p)
    BY <1>1, <1>2, <2>2, EraseLevelProperties DEF Prices
  <2>3. CASE lw = SetLevel(lv, o.side, p, new)
    BY <1>1, <1>2, <2>1, <2>3, SetLevelProperties DEF Prices
  <2> QED BY <1>3, <2>2, <2>3 DEF new
<1>5. V \in SUBSET DOMAIN nd /\ VisibleAt(ne, s, q) = V \ {id}
      /\ (id \in V <=> s = o.side /\ q = p /\ IsVisible(o))
  BY DEF VisibleAt, Without
<1>6. Total(ne, V \ {id}) = Total(nd, V) - (IF id \in V THEN o.remaining ELSE 0)
  BY <1>5, TotalWithout
<1>7. lv[s][q].volume = Total(nd, V) % QuantityModulus /\ Total(nd, V) \in Int
  BY <1>4, <1>5, TotalType DEF VolumesMatch
<1>8. CASE id \in V
  <2>1. lw[s][q].volume = (lv[s][q].volume - o.remaining) % QuantityModulus
    BY <1>4, <1>5, <1>8 DEF vol, Minus
  <2> DEFINE a == Total(nd, V)
             b == -o.remaining
  <2>2. a \in Int /\ b \in Int /\ a % QuantityModulus \in Int
    BY <1>1, <1>7
  <2>3. lw[s][q].volume = ((a % QuantityModulus) + b) % QuantityModulus
    <3>1. (a % QuantityModulus) - o.remaining = (a % QuantityModulus) + b
      BY <1>1, <2>2
    <3> QED BY <1>7, <2>1, <3>1
  <2>4. Total(ne, V \ {id}) = a + b
    BY <1>1, <1>6, <1>8, <2>2
  <2>5. Total(ne, VisibleAt(ne, s, q)) = a + b
    BY <1>5, <2>4
  <2> HIDE DEF a, b
  <2>6. ((a % QuantityModulus) + b) % QuantityModulus = (a + b) % QuantityModulus
    BY <1>1, <2>2, ModAdd
  <2> QED BY <2>3, <2>5, <2>6
<1>9. CASE id \notin V
  <2>1. lw[s][q].volume = lv[s][q].volume
    BY <1>4, <1>5, <1>9 DEF vol
  <2>2. Total(ne, V \ {id}) = Total(nd, V)
    BY <1>6, <1>7, <1>9
  <2> QED BY <1>5, <1>7, <2>1, <2>2
<1> QED BY <1>8, <1>9

\* RecordFill takes the fill off the volume of the level, as Order::Fill takes
\* it off the order: both agree when that order is a visible one.
LEMMA FillVolumes ==
  ASSUME NEW lv, NEW nd, NEW index, Sound(lv, nd, index), FiniteBook(nd),
         VolumesMatch(lv, nd), NEW id \in DOMAIN nd, IsVisible(nd[id]),
         NEW q \in Quantity, nd[id].remaining - q \in Quantity
  PROVE  VolumesMatch(FillLevel(lv, nd[id].side, nd[id].price, q),
                      [nd EXCEPT ![id] = [nd[id] EXCEPT !.remaining = @ - q]])
<1> DEFINE o      == nd[id]
           filled == [o EXCEPT !.remaining = @ - q]
           ne     == [nd EXCEPT ![id] = filled]
           lw     == FillLevel(lv, o.side, o.price, q)
           level  == [lv[o.side][o.price] EXCEPT !.volume = Minus(@, q)]
<1>1. o \in Order /\ o.side \in Side /\ o.price \in Prices(lv, o.side) /\ DOMAIN lv = Side
  BY DEF Sound, NodesSound, LinksSound, LevelsSound, Order
<1>2. /\ lv[o.side][o.price] \in LevelData /\ lv[o.side][o.price].orders # <<>>
  BY <1>1 DEF Sound, LevelsSound
<1>3. /\ filled \in Order /\ filled.remaining = o.remaining - q
      /\ filled.side = o.side /\ filled.price = o.price /\ filled.flags = o.flags
  BY <1>1 DEF Order
<1>4. /\ level.volume = (lv[o.side][o.price].volume - q) % QuantityModulus
      /\ level.orders # <<>>
  BY <1>2 DEF LevelData, Minus
<1>5. lw = SetLevel(lv, o.side, o.price, level)
  BY <1>1, <1>4 DEF FillLevel
<1> HIDE DEF lw, level, filled
<1> SUFFICES ASSUME NEW s \in Side, NEW x \in Prices(lw, s)
             PROVE  lw[s][x].volume = Total(ne, VisibleAt(ne, s, x)) % QuantityModulus
  BY DEF VolumesMatch, lw, filled
<1> DEFINE V == VisibleAt(nd, s, x)
<1>6. x \in Prices(lv, s) /\ IF s = o.side /\ x = o.price THEN lw[s][x] = level
                                                          ELSE lw[s][x] = lv[s][x]
  BY <1>1, <1>5, SetLevelProperties DEF Prices
<1>7. V \in SUBSET DOMAIN nd /\ VisibleAt(ne, s, x) = V
      /\ (id \in V <=> s = o.side /\ x = o.price)
  BY <1>3 DEF VisibleAt, IsVisible
<1>8. Total(ne, V) = IF id \in V THEN Total(nd, V) - o.remaining + filled.remaining
                                 ELSE Total(nd, V)
  BY <1>3, <1>7, TotalChanged
<1>9. lv[s][x].volume = Total(nd, V) % QuantityModulus /\ Total(nd, V) \in Int
  BY <1>6, <1>7, TotalType DEF VolumesMatch
<1>10. CASE id \in V
  <2> DEFINE a == Total(nd, V)
             b == -q
  <2>1. /\ a \in Int /\ b \in Int /\ QuantityModulus \in Nat \ {0} /\ q \in Int
        /\ a % QuantityModulus \in Int /\ o.remaining \in Int
    BY <1>1, <1>9, ConstantsAssumption DEF Quantity, Order
  <2>2. lw[s][x].volume = ((a % QuantityModulus) + b) % QuantityModulus
    <3>1. (a % QuantityModulus) - q = (a % QuantityModulus) + b
      BY <2>1
    <3> QED BY <1>4, <1>6, <1>7, <1>9, <1>10, <3>1
  <2>3. Total(ne, VisibleAt(ne, s, x)) = a + b
    <3>1. Total(ne, V) = a - o.remaining + (o.remaining - q)
      BY <1>3, <1>8, <1>10
    <3>2. a - o.remaining + (o.remaining - q) = a + b
      <4> HIDE DEF a
      <4> QED BY <2>1
    <3> QED BY <1>7, <3>1, <3>2
  <2> HIDE DEF a, b
  <2>4. ((a % QuantityModulus) + b) % QuantityModulus = (a + b) % QuantityModulus
    BY <2>1, ModAdd
  <2> QED BY <2>2, <2>3, <2>4
<1>11. CASE id \notin V
  BY <1>6, <1>7, <1>8, <1>9, <1>11
<1> QED BY <1>10, <1>11

\* InternalAddOrder adds a visible order to the volume of its level.
LEMMA LinkVolumes ==
  ASSUME NEW lv, NEW nd, NEW index, Sound(lv, nd, index), FiniteBook(nd),
         VolumesMatch(lv, nd), NEW o \in Order, o.orderID \notin DOMAIN nd
  PROVE  VolumesMatch(Link(lv, o), [i \in DOMAIN nd \cup {o.orderID} |->
                                      IF i = o.orderID THEN o ELSE nd[i]])
<1> DEFINE nw  == [i \in DOMAIN nd \cup {o.orderID} |->
                     IF i = o.orderID THEN o ELSE nd[i]]
           id  == o.orderID
           lw  == Link(lv, o)
           old == IF o.price \in Prices(lv, o.side) THEN lv[o.side][o.price].volume ELSE 0
           vol == IF IsVisible(o) THEN Plus(old, o.remaining) ELSE old
<1>1. o.side \in Side /\ o.remaining \in Int /\ DOMAIN lv = Side /\ QuantityModulus \in Nat \ {0}
  BY ConstantsAssumption DEF Order, Quantity, Sound, LevelsSound
<1>2. \E level : level.volume = vol /\ lw = SetLevel(lv, o.side, o.price, level)
  <2> DEFINE before == IF o.price \in Prices(lv, o.side) THEN lv[o.side][o.price]
                       ELSE [volume |-> 0, orders |-> <<>>]
             level  == [volume |-> IF IsVisible(o) THEN Plus(before.volume, o.remaining)
                                                   ELSE before.volume,
                        orders |-> Append(before.orders, o.orderID)]
  <2>1. lw = SetLevel(lv, o.side, o.price, level)
    BY DEF Link
  <2>2. before.volume = old
    OBVIOUS
  <2>3. level.volume = vol
    BY <2>2
  <2> HIDE DEF level
  <2> QED BY <2>1, <2>3
<1>3. PICK level : level.volume = vol /\ lw = SetLevel(lv, o.side, o.price, level)
  BY <1>2
<1> HIDE DEF lw, vol, old
<1> SUFFICES ASSUME NEW s \in Side, NEW x \in Prices(lw, s)
             PROVE  lw[s][x].volume = Total(nw, VisibleAt(nw, s, x)) % QuantityModulus
  BY DEF VolumesMatch, lw
<1> DEFINE V == VisibleAt(nd, s, x)
<1>4. V \in SUBSET DOMAIN nd /\ Total(nd, V) \in Int /\ id \notin V
  BY TotalType DEF VisibleAt
<1>5. /\ Total(nw, V) = Total(nd, V)
      /\ Total(nw, V \cup {id}) = Total(nd, V) + o.remaining
  BY <1>4, TotalWith
<1>6. CASE s = o.side /\ x = o.price
  <2>1. lw[s][x].volume = vol
    BY <1>1, <1>3, <1>6, SetLevelProperties
  <2>2. old = Total(nd, V) % QuantityModulus
    <3>1. CASE o.price \in Prices(lv, o.side)
      BY <1>6, <3>1 DEF VolumesMatch, old
    <3>2. CASE o.price \notin Prices(lv, o.side)
      <4>1. V = {}
        BY <1>6, <3>2 DEF VisibleAt, Sound, LinksSound
      <4>2. Total(nd, V) = 0
        BY <4>1, SumEmpty DEF Total
      <4> QED BY <1>1, <3>2, <4>2 DEF old
    <3> QED BY <3>1, <3>2
  <2>3. CASE IsVisible(o)
    <3> DEFINE a == Total(nd, V)
               b == o.remaining
    <3>1. VisibleAt(nw, s, x) = V \cup {id}
      BY <1>6, <2>3 DEF VisibleAt
    <3>2. vol = ((a % QuantityModulus) + b) % QuantityModulus
      BY <2>2, <2>3 DEF vol, Plus
    <3>3. /\ a \in Int /\ b \in Int
          /\ Total(nw, VisibleAt(nw, s, x)) = a + b
      <4>1. Total(nw, V \cup {id}) = a + b
        BY <1>5
      <4> QED BY <1>1, <1>4, <3>1, <4>1
    <3> HIDE DEF a, b
    <3>4. ((a % QuantityModulus) + b) % QuantityModulus = (a + b) % QuantityModulus
      BY <1>1, <3>3, ModAdd
    <3> QED BY <2>1, <3>2, <3>3, <3>4
  <2>4. CASE ~IsVisible(o)
    <3>1. VisibleAt(nw, s, x) = V
      BY <1>4, <2>4 DEF VisibleAt
    <3> QED BY <1>5, <2>1, <2>2, <2>4, <3>1 DEF vol
  <2> QED BY <2>3, <2>4
<1>7. CASE ~(s = o.side /\ x = o.price)
  <2>1. x \in Prices(lv, s) /\ lw[s][x] = lv[s][x]
    BY <1>1, <1>3, <1>7, SetLevelProperties DEF Prices
  <2>2. VisibleAt(nw, s, x) = V
    BY <1>4, <1>7 DEF VisibleAt
  <2> QED BY <1>5, <2>1, <2>2 DEF VolumesMatch
<1> QED BY <1>6, <1>7

\* The step neither executes an order that its level's volume leaves out, nor
\* reduces one in place that it counts.
VolumeSafe ==
  /\ ~(Match /\ ~IsVisible(node[Top]))
  /\ ~(Idle /\ \E id \in DOMAIN node \cap DOMAIN node' :
                 IsVisible(node[id]) /\ node'[id] # node[id])

\* A modify keeps the volumes, but for the reduction in place of a visible
\* order: that one takes new - old off the volume, where old - new left it.
LEMMA ModifyVolumes ==
  ASSUME Inductive, VolumesMatch(levels, node), VolumeSafe,
         NEW cmd \in ModifyCommand, HandleModify(cmd)
  PROVE  VolumesMatch(levels', node')
<1> DEFINE id == cmd.orderID
           o  == node[id]
<1>1. /\ Idle /\ Sound(levels, node, m_Orders) /\ FiniteBook(node)
      /\ DOMAIN m_Orders = DOMAIN node
  BY BookIsFinite DEF HandleModify, Begin, Inductive, Sound, NodesSound
<1>2. CASE levels' = levels /\ node' = node
  BY <1>2
<1>3. CASE id \in DOMAIN node /\ Replace(cmd, o)
  BY <1>1, <1>3, UnlinkVolumes DEF Replace
<1>4. CASE id \in DOMAIN node /\ cmd.new_quantity < o.remaining /\ Reduce(cmd, o)
  <2> DEFINE reduced == [o EXCEPT !.remaining = cmd.new_quantity]
  <2>1. o \in Order /\ cmd.new_quantity \in Quantity
    BY <1>1, <1>4 DEF Sound, NodesSound, ModifyCommand
  <2>2. /\ reduced \in Order /\ reduced.remaining = cmd.new_quantity
        /\ reduced.side = o.side /\ reduced.price = o.price /\ reduced.flags = o.flags
    BY <2>1 DEF Order
  <2>3. node' = [node EXCEPT ![id] = reduced]
    BY <1>4 DEF Reduce
  <2>4. reduced # o
    <3>1. cmd.new_quantity \in Int /\ o.remaining \in Int
      BY <2>1, ConstantsAssumption DEF Order, Quantity
    <3> HIDE DEF reduced
    <3> QED BY <1>4, <2>2, <3>1
  <2> HIDE DEF reduced, o, id
  <2>5. ~IsVisible(o)
    BY <1>1, <1>4, <2>3, <2>4 DEF VolumeSafe, o, id
  <2>6. levels' = levels
    BY <1>4, <2>5 DEF Reduce, o, id
  <2>7. ASSUME NEW side, NEW p
        PROVE  Total(node', VisibleAt(node', side, p)) = Total(node, VisibleAt(node, side, p))
    <3>1. /\ VisibleAt(node', side, p) = VisibleAt(node, side, p)
          /\ id \notin VisibleAt(node, side, p)
          /\ VisibleAt(node, side, p) \in SUBSET DOMAIN node
      BY <1>4, <2>2, <2>3, <2>5 DEF VisibleAt, IsVisible, o
    <3> DEFINE ids == VisibleAt(node, side, p)
    <3> HIDE DEF ids
    <3>2. Total([node EXCEPT ![id] = reduced], ids)
            = IF id \in ids THEN Total(node, ids) - node[id].remaining + reduced.remaining
                            ELSE Total(node, ids)
      BY <1>1, <1>4, <2>2, <3>1, TotalChanged DEF ids
    <3> QED BY <2>3, <3>1, <3>2 DEF ids
  <2> QED BY <2>6, <2>7 DEF VolumesMatch
<1> QED BY <1>1, <1>2, <1>3, <1>4 DEF HandleModify, book

\* An execution keeps them when the order executed is a visible one.
LEMMA MatchVolumes ==
  ASSUME Inductive, VolumesMatch(levels, node), VolumeSafe, Match
  PROVE  VolumesMatch(levels', node')
<1> DEFINE id     == Top
           top    == node[id]
           q      == IF taker.remaining <= top.remaining THEN taker.remaining
                                                         ELSE top.remaining
           filled == [top EXCEPT !.remaining = @ - q]
           lv     == FillLevel(levels, top.side, top.price, q)
           nd     == [node EXCEPT ![id] = filled]
<1>1. /\ taker \in Order /\ id \in DOMAIN node /\ top \in Order /\ IsVisible(top)
      /\ Sound(levels, node, m_Orders) /\ FiniteBook(node)
  <2>1. ~Idle /\ Prices(levels, Opposite(taker.side)) # {}
    BY DEF Match, CanMatch
  <2> QED BY <2>1, TopProperties, BookIsFinite DEF VolumeSafe, Inductive
<1>2. q \in Quantity /\ top.remaining - q \in Quantity
  <2>1. taker.remaining \in Quantity /\ top.remaining \in Quantity
    BY <1>1 DEF Order
  <2>2. \A a, b \in Quantity : /\ a <= b => b - a \in Quantity
                               /\ b - b \in Quantity
    BY ConstantsAssumption DEF Quantity
  <2> QED BY <2>1, <2>2
<1>3. IF filled.remaining = 0
      THEN levels' = Unlink(lv, id, filled) /\ node' = Without(node, id)
      ELSE levels' = lv /\ node' = nd
  <2>1. Top \in DOMAIN m_Orders
    BY <1>1 DEF Sound, NodesSound
  <2> QED BY <2>1 DEF Match
<1> HIDE DEF id, q
<1>4. Sound(lv, nd, m_Orders) /\ filled \in Order
  BY <1>1, <1>2, FillSound
<1>5. VolumesMatch(lv, nd)
  BY <1>1, <1>2, FillVolumes
<1> HIDE DEF lv, filled, top
<1>6. CASE filled.remaining = 0
  <2>1. FiniteBook(nd) /\ id \in DOMAIN nd /\ nd[id] = filled
    BY <1>1, <1>4 DEF FiniteBook
  <2>2. Without(node, id) = Without(nd, id)
    BY DEF Without
  <2> HIDE DEF nd
  <2>3. VolumesMatch(Unlink(lv, id, nd[id]), Without(nd, id))
    BY <1>4, <1>5, <2>1, UnlinkVolumes
  <2> QED BY <1>3, <1>6, <2>1, <2>2, <2>3
<1>7. CASE filled.remaining # 0
  BY <1>3, <1>5, <1>7
<1> QED BY <1>6, <1>7

\* So every step that is VolumeSafe keeps the volumes.
LEMMA NextVolumes ==
  Inductive /\ VolumesMatch(levels, node) /\ [Next]_vars /\ VolumeSafe
    => VolumesMatch(levels', node')
<1> SUFFICES ASSUME Inductive, VolumesMatch(levels, node), [Next]_vars, VolumeSafe
             PROVE  VolumesMatch(levels', node')
  OBVIOUS
<1>0. Sound(levels, node, m_Orders) /\ FiniteBook(node)
  BY BookIsFinite DEF Inductive
<1>1. ASSUME NEW cmd \in Commands, Apply(cmd)
      PROVE  VolumesMatch(levels', node')
  <2>1. CASE levels' = levels /\ node' = node
    BY <2>1
  <2>2. CASE HandleModify(cmd) /\ cmd.type = "Modify"
    <3>1. cmd \in ModifyCommand
      BY <2>2, ConstantsAssumption
      DEF CommandPayload, AddCommand, ModifyCommand, CancelCommand, NoCommand
    <3> QED BY <2>2, <3>1, ModifyVolumes
  <2>3. CASE /\ cmd.orderID \in DOMAIN m_Orders
             /\ levels' = Unlink(levels, cmd.orderID, node[cmd.orderID])
             /\ node' = Without(node, cmd.orderID)
    <3>1. cmd.orderID \in DOMAIN node
      BY <1>0, <2>3 DEF Sound, NodesSound
    <3> QED BY <1>0, <2>3, <3>1, UnlinkVolumes
  <2> QED BY <1>1, <2>1, <2>2, <2>3
      DEF Apply, HandleAdd, HandleCancel, HandleNone, book
<1>2. CASE Match
  BY <1>2, MatchVolumes
<1>3. CASE Complete
  <2>1. CASE Rests
    <3>1. taker \in Order
      BY <1>3 DEF Complete, Inductive
    <3>2. levels' = Link(levels, taker)
      BY <1>3, <2>1 DEF Complete
    <3> QED BY <1>0, <1>3, <2>1, <3>1, <3>2, CompleteOrders, LinkVolumes
  <2>2. CASE ~Rests
    BY <1>3, <2>2 DEF Complete, book
  <2> QED BY <2>1, <2>2
<1>4. CASE UNCHANGED vars
  BY <1>4 DEF vars
<1> QED BY <1>1, <1>2, <1>3, <1>4 DEF Next

\* On a sound book, that is what the depth view shows.
LEMMA VolumesShown ==
  Inductive /\ VolumesMatch(levels, node) => VolumeExact
<1> SUFFICES ASSUME Inductive, VolumesMatch(levels, node),
                    NEW side \in Side, NEW p \in Prices(levels, side)
             PROVE  levels[side][p].volume =
                      SumFunctionOnSet(Remaining(node),
                        {id \in Listed(side, p) : IsVisible(node[id])})
                      % QuantityModulus
  BY DEF VolumeExact
<1>1. VisibleAt(node, side, p) = {id \in Listed(side, p) : IsVisible(node[id])}
  BY DEF VisibleAt, Listed, Inductive, Sound, LinksSound
<1> QED BY <1>1 DEF VolumesMatch, Total

\* The volume of a level is what its visible orders have left, as long as no
\* hidden order is executed and no visible one is reduced in place: no other
\* step of the book can make it wrong (RecordFill, InternalCancelOrder,
\* InternalAddOrder, InternalModifyOrder).
THEOREM VolumesCorrect ==
  Spec /\ [][VolumeSafe]_vars => []VolumeExact
<1>1. Init => VolumesMatch(levels, node)
  BY DEF Init, VolumesMatch, Prices
<1>2. Inductive /\ VolumesMatch(levels, node) /\ [Next]_vars /\ [VolumeSafe]_vars
        => VolumesMatch(levels, node)'
  <2>1. UNCHANGED vars => levels' = levels /\ node' = node
    BY DEF vars
  <2> QED BY <2>1, NextVolumes
<1> QED BY <1>1, <1>2, InductiveInvariant, VolumesShown, PTL DEF Spec

-----------------------------------------------------------------------------
(* Quantities: all or nothing.                                             *)

\* The orders that o may execute against.
Acceptable(nd, o) ==
  {id \in DOMAIN nd : nd[id].side = Opposite(o.side) /\ Crosses(o, nd[id].price)}

\* A Fill-or-Kill order can be filled by what is on the book.
Funded ==
  ~Idle /\ taker.tif = "FOK" => taker.remaining <= Total(node, Acceptable(node, taker))

\* What the pre-check adds up is there: the volumes of the crossing levels, up
\* to any of them, are no more than the acceptable orders have left.
LEMMA CoveredIsThere ==
  ASSUME NEW lv, NEW nd, LevelsSound(lv), FiniteBook(nd), VolumesMatch(lv, nd),
         NEW req, req.side \in Side, req.quantity \in Nat, Covered(lv, req)
  PROVE  req.quantity <= Total(nd, Acceptable(nd, req))
<1> DEFINE opp      == Opposite(req.side)
           crossing == {p \in Prices(lv, opp) : Crosses(req, p)}
           UpTo(p)  == {q \in crossing : q = p \/ Better(opp, q, p)}
           volume   == [p \in Prices(lv, opp) |-> lv[opp][p].volume]
           S        == Acceptable(nd, req)
           f        == Remaining(nd)
           key      == [id \in DOMAIN nd |-> nd[id].price]
           M        == QuantityModulus
<1>1. opp \in Side /\ M \in Nat \ {0} /\ S \in SUBSET DOMAIN nd
  BY ConstantsAssumption DEF Opposite, Side, Acceptable
<1>2. /\ Total(nd, S) \in Nat /\ IsFiniteSet(S) /\ \A id \in S : f[id] \in Nat
      /\ \A part \in SUBSET S : Total(nd, part) <= Total(nd, S)
  BY <1>1, TotalType
<1>3. req.quantity = 0 \/ \E p \in crossing :
        SumFunctionOnSet(volume, UpTo(p)) % M >= req.quantity
  BY DEF Covered
<1>4. ASSUME NEW p \in crossing, SumFunctionOnSet(volume, UpTo(p)) % M >= req.quantity
      PROVE  req.quantity <= Total(nd, S)
  <2> DEFINE P == UpTo(p)
  <2>1. P \in SUBSET crossing /\ crossing \in SUBSET Prices(lv, opp)
    OBVIOUS
  <2>2. Prices(lv, opp) \in SUBSET (MinPrice .. MaxPrice)
    BY <1>1 DEF LevelsSound, Price
  <2>3. IsFiniteSet(MinPrice .. MaxPrice)
    BY FS_Interval, ConstantsAssumption
  <2> HIDE DEF P
  <2>4. IsFiniteSet(P)
    BY <2>1, <2>2, <2>3, FS_Subset
  <2> HIDE DEF S, f, key, M, opp
  <2>5. ASSUME NEW q \in P
        PROVE  volume[q] \in Nat
               /\ volume[q] <= SumFunctionOnSet(f, {x \in S : key[x] = q})
    <3> DEFINE V == VisibleAt(nd, opp, q)
               K == {x \in S : key[x] = q}
    <3>1. q \in Prices(lv, opp) /\ Crosses(req, q)
      BY <2>1, <2>5
    <3>2. volume[q] = Total(nd, V) % M
      BY <1>1, <3>1 DEF VolumesMatch, M
    <3>3. V \in SUBSET DOMAIN nd /\ K \in SUBSET DOMAIN nd /\ V \in SUBSET K
      BY <1>1, <3>1 DEF VisibleAt, S, key, Acceptable, opp
    <3> HIDE DEF V, K
    <3>4. Total(nd, V) \in Nat /\ Total(nd, K) \in Nat /\ Total(nd, V) <= Total(nd, K)
      BY <3>3, TotalType
    <3> DEFINE a == Total(nd, V)
    <3>5. a % M \in Nat /\ a % M <= a
      <4> HIDE DEF a
      <4>1. a \in Nat
        BY <3>4 DEF a
      <4> QED BY <1>1, <4>1
    <3>6. SumFunctionOnSet(f, K) = Total(nd, K)
      BY DEF Total, f
    <3> HIDE DEF volume
    <3>7. volume[q] \in Nat /\ volume[q] <= Total(nd, K)
      <4> DEFINE b == Total(nd, K)
                 c == a % M
      <4>1. volume[q] = c /\ c \in Nat /\ c <= a /\ a \in Nat /\ b \in Nat /\ a <= b
        BY <3>2, <3>4, <3>5
      <4> HIDE DEF a, b, c
      <4>2. volume[q] \in Nat /\ volume[q] <= b
        BY <4>1
      <4> QED BY <4>2 DEF b
    <3> QED BY <3>6, <3>7 DEF K
  <2> HIDE DEF volume
  <2>6. SumFunctionOnSet(volume, P) <= SumFunctionOnSet(f, {x \in S : key[x] \in P})
    <3>1. /\ IsFiniteSet(S) /\ \A x \in S : f[x] \in Nat
          /\ \A q \in P : volume[q] \in Nat
          /\ \A q \in P : volume[q] <= SumFunctionOnSet(f, {x \in S : key[x] = q})
      BY <1>2, <2>5
    <3> HIDE DEF crossing, UpTo
    <3> QED BY <2>4, <3>1, SumOverParts
  <2>7. SumFunctionOnSet(volume, P) \in Nat
    BY <2>4, <2>5, SumOfNaturals
  <2> DEFINE a == SumFunctionOnSet(volume, P)
             b == Total(nd, {x \in S : key[x] \in P})
             c == Total(nd, S)
  <2>8. a <= b
    BY <2>6 DEF Total, f
  <2>9. b <= c /\ c \in Nat
    BY <1>2
  <2>10. b \in Nat
    <3>1. {x \in S : key[x] \in P} \in SUBSET DOMAIN nd
      BY <1>1
    <3> QED BY <3>1, TotalType
  <2>11. a \in Nat /\ a % M >= req.quantity
    BY <1>4, <2>7 DEF P
  <2> HIDE DEF a, b, c
  <2>12. a % M \in Nat /\ a % M <= a
    BY <1>1, <2>11
  <2>13. req.quantity <= c
    BY <2>8, <2>9, <2>10, <2>11, <2>12
  <2> QED BY <2>13 DEF c
<1>5. CASE req.quantity = 0
  BY <1>2, <1>5
<1> QED BY <1>3, <1>4, <1>5

\* When the loop ends with something left to fill, nothing acceptable is left.
LEMMA NothingAcceptable ==
  ASSUME Inductive, ~Idle, ~CanMatch, taker.remaining > 0
  PROVE  Acceptable(node, taker) = {}
<1> DEFINE opp  == Opposite(taker.side)
           best == BestPrice(levels, opp)
<1>1. /\ taker \in Order /\ LevelsSound(levels) /\ LinksSound(levels, node)
      /\ NodesSound(node, m_Orders)
  BY DEF Inductive, Sound
<1> SUFFICES ASSUME NEW x \in DOMAIN node, node[x].side = opp,
                    Crosses(taker, node[x].price)
             PROVE  FALSE
  BY DEF Acceptable
<1>2. opp \in Side /\ node[x].price \in Prices(levels, opp)
  BY <1>1 DEF NodesSound, LinksSound, Order
<1>3. ~Crosses(taker, best)
  BY <1>2, TopProperties DEF CanMatch
<1>4. /\ best \in Prices(levels, opp)
      /\ node[x].price = best \/ Better(opp, best, node[x].price)
  BY <1>1, <1>2, BestPriceIsBest
<1>5. best \in Int /\ node[x].price \in Int /\ taker.price \in Int
  BY <1>1, <1>2, <1>4, ConstantsAssumption DEF LevelsSound, Order, Price
<1> HIDE DEF best
<1> QED BY <1>1, <1>3, <1>4, <1>5 DEF Crosses, Better, Opposite, Order, Side

\* An execution takes as much from the order as from what is acceptable to it.
LEMMA MatchFunded ==
  ASSUME Inductive, Funded, Match
  PROVE  Funded'
<1> DEFINE q   == IF taker.remaining <= node[Top].remaining
                  THEN taker.remaining ELSE node[Top].remaining
           S   == Acceptable(node, taker)
           top == node[Top]
<1>1. /\ CanMatch /\ ~Idle /\ Prices(levels, Opposite(taker.side)) # {}
      /\ Crosses(taker, top.price) /\ Idle' = Idle
  BY DEF Match, CanMatch, Idle
<1>2. /\ taker \in Order /\ Top \in DOMAIN node /\ top \in Order
      /\ top.side = Opposite(taker.side) /\ FiniteBook(node)
  BY <1>1, TopProperties, BookIsFinite
<1>3. /\ q \in Nat /\ taker.remaining \in Nat /\ top.remaining \in Nat
      /\ taker' = [taker EXCEPT !.remaining = @ - q]
      /\ IF top.remaining = q
         THEN node' = Without(node, Top)
         ELSE node' = [node EXCEPT ![Top] = [top EXCEPT !.remaining = @ - q]]
  BY MatchOrders
<1>4. q <= top.remaining
  BY <1>3
<1> HIDE DEF q
<1>5. /\ taker'.remaining = taker.remaining - q /\ taker'.tif = taker.tif
      /\ taker'.side = taker.side /\ \A p : Crosses(taker', p) <=> Crosses(taker, p)
  BY <1>2, <1>3 DEF Order, Crosses
<1>6. S \in SUBSET DOMAIN node /\ Top \in S
  BY <1>1, <1>2 DEF Acceptable
<1>7. Total(node, S) \in Nat
  BY <1>2, <1>6, TotalType
<1>8. Total(node', Acceptable(node', taker')) = Total(node, S) - q
  <2>1. CASE top.remaining = q
    <3>1. Acceptable(node', taker') = S \ {Top}
      BY <1>3, <1>5, <2>1 DEF Acceptable, Without
    <3> HIDE DEF S, top
    <3>2. Total(Without(node, Top), S \ {Top}) = Total(node, S) - node[Top].remaining
      BY <1>2, <1>6, TotalWithout
    <3> QED BY <1>3, <2>1, <3>1, <3>2 DEF top
  <2>2. CASE top.remaining # q
    <3> DEFINE filled == [top EXCEPT !.remaining = @ - q]
    <3>1. /\ filled.remaining = top.remaining - q
          /\ filled.side = top.side /\ filled.price = top.price
      BY <1>2 DEF Order
    <3>2. filled \in Order
      <4>1. \A a \in Quantity : \A b \in Nat : b <= a => a - b \in Quantity
        BY ConstantsAssumption DEF Quantity
      <4>2. top.remaining - q \in Quantity
        BY <1>2, <1>3, <1>4, <4>1 DEF Order
      <4> QED BY <1>2, <4>2 DEF Order
    <3>3. node' = [node EXCEPT ![Top] = filled]
      BY <1>3, <2>2
    <3> HIDE DEF filled
    <3>4. Acceptable(node', taker') = S
      BY <1>2, <1>5, <3>1, <3>3 DEF Acceptable
    <3> HIDE DEF S
    <3>5. Total([node EXCEPT ![Top] = filled], S)
            = IF Top \in S THEN Total(node, S) - node[Top].remaining + filled.remaining
                           ELSE Total(node, S)
      BY <1>2, <1>6, <3>2, TotalChanged
    <3>6. Total(node', S) = Total(node, S) - top.remaining + filled.remaining
      BY <1>6, <3>3, <3>5
    <3> HIDE DEF top
    <3> QED BY <1>3, <1>7, <3>1, <3>4, <3>6
  <2> QED BY <2>1, <2>2
<1> HIDE DEF S, top
<1>9. taker.tif = "FOK" => taker.remaining <= Total(node, S)
  BY <1>1 DEF Funded, S
<1>10. taker'.tif = "FOK" => taker'.remaining <= Total(node', Acceptable(node', taker'))
  BY <1>3, <1>5, <1>7, <1>8, <1>9
<1> QED BY <1>10 DEF Funded

\* A Fill-or-Kill order that was let into the matching loop leaves it filled,
\* as long as the volumes the pre-check reads are what the orders have left
\* (the pre-check of InternalAddOrder; globals.hpp, "FOK").
THEOREM FillOrKillCorrect ==
  Spec /\ [][VolumeSafe]_vars => []FOKAllOrNothing
<1>1. Init => VolumesMatch(levels, node) /\ Funded
  BY DEF Init, VolumesMatch, Prices, Funded, Idle
<1>2. Inductive /\ VolumesMatch(levels, node) /\ [Next]_vars /\ [VolumeSafe]_vars
        => VolumesMatch(levels, node)'
  <2>1. UNCHANGED vars => levels' = levels /\ node' = node
    BY DEF vars
  <2> QED BY <2>1, NextVolumes
<1>3. (Inductive => FiniteBook(node))'
  BY BookIsFinite, PTL
<1>4. ASSUME Inductive, Inductive', VolumesMatch(levels, node)', Funded, [Next]_vars
      PROVE  Funded'
  <2>1. ASSUME NEW cmd \in Commands, Apply(cmd), ~Idle', taker'.tif = "FOK"
        PROVE  taker'.remaining <= Total(node', Acceptable(node', taker'))
    <3>1. PICK req : /\ PreCheck(levels', req) = "Success"
                     /\ taker' = NewOrder(req)
      BY <1>4, <2>1, StartedOrder
    <3>2. /\ taker'.remaining = req.quantity /\ taker'.side = req.side
          /\ taker'.price = req.price /\ taker'.order_type = req.order_type
          /\ req.tif = "FOK"
      BY <2>1, <3>1 DEF NewOrder
    <3>3. Covered(levels', req)
      BY <3>1, <3>2 DEF PreCheck
    <3>4. req.side \in Side /\ req.quantity \in Nat
      <4>1. taker' \in Order
        BY <1>4, <2>1 DEF Inductive
      <4> QED BY <3>2, <4>1, ConstantsAssumption DEF Order, Quantity
    <3>5. LevelsSound(levels') /\ FiniteBook(node') /\ VolumesMatch(levels', node')
      BY <1>3, <1>4 DEF Inductive, Sound
    <3>6. Acceptable(node', taker') = Acceptable(node', req)
      BY <3>2 DEF Acceptable, Crosses
    <3>7. req.quantity <= Total(node', Acceptable(node', req))
      <4> DEFINE lv == levels'
                 nd == node'
      <4>1. LevelsSound(lv) /\ FiniteBook(nd) /\ VolumesMatch(lv, nd) /\ Covered(lv, req)
        BY <3>3, <3>5
      <4> HIDE DEF lv, nd
      <4>2. req.quantity <= Total(nd, Acceptable(nd, req))
        BY <3>4, <4>1, CoveredIsThere
      <4> QED BY <4>2 DEF nd
    <3> QED BY <3>2, <3>6, <3>7
  <2>2. CASE Match
    BY <1>4, <2>2, MatchFunded
  <2>3. CASE Complete
    BY <2>3 DEF Complete, Funded, Idle
  <2>4. CASE UNCHANGED vars
    BY <1>4, <2>4 DEF vars, Funded, Idle, Acceptable, Crosses
  <2> QED BY <1>4, <2>1, <2>2, <2>3, <2>4 DEF Next, Funded
<1>5. Inductive /\ Inductive' /\ VolumesMatch(levels, node)' /\ Funded /\ [Next]_vars
        => Funded'
  BY <1>4
<1>6. Inductive /\ Funded => FOKAllOrNothing
  <2> SUFFICES ASSUME Inductive, Funded, ~Idle, taker.tif = "FOK", ~CanMatch
               PROVE  taker.remaining = 0
    BY DEF FOKAllOrNothing
  <2>1. taker.remaining \in Nat
    BY ConstantsAssumption DEF Inductive, Order, Quantity
  <2>2. ASSUME taker.remaining > 0
        PROVE  FALSE
    <3>1. Total(node, Acceptable(node, taker)) = 0
      BY <2>2, NothingAcceptable, SumEmpty DEF Total
    <3> QED BY <2>1, <2>2, <3>1 DEF Funded
  <2> QED BY <2>1, <2>2
<1> QED BY <1>1, <1>2, <1>5, <1>6, InductiveInvariant, PTL DEF Spec

-----------------------------------------------------------------------------
(* Clients whose commands leave the volumes right.                         *)

\* No client hides an order, and a modify never asks for less than some order
\* may have left.
PlainClients ==
  \A cmd \in Commands :
    /\ cmd.type = "Add" => "Hidden" \notin cmd.flags
    /\ cmd.type = "Modify" =>
         \A other \in Commands :
           /\ other.type = "Add" => other.quantity <= cmd.new_quantity
           /\ other.type = "Modify" => other.new_quantity <= cmd.new_quantity

\* An order that is visible, and that no modify can reduce in place.
Plain(o) ==
  /\ IsVisible(o)
  /\ \A cmd \in Commands : cmd.type = "Modify" => o.remaining <= cmd.new_quantity

OnlyPlainOrders ==
  (\A id \in DOMAIN node : Plain(node[id])) /\ (~Idle => Plain(taker))

\* Taking quantity from a plain order leaves it plain.
LEMMA PlainWithLess ==
  ASSUME NEW o \in Order, Plain(o), NEW q \in Nat
  PROVE  Plain([o EXCEPT !.remaining = @ - q])
<1> DEFINE r == [o EXCEPT !.remaining = @ - q]
<1>1. r.remaining = o.remaining - q /\ r.flags = o.flags /\ o.remaining \in Int
  BY ConstantsAssumption DEF Order, Quantity
<1>2. \A cmd \in Commands : cmd.type = "Modify" => cmd.new_quantity \in Int
  BY ConstantsAssumption DEF CommandPayload, AddCommand, ModifyCommand,
     CancelCommand, NoCommand, Quantity
<1> HIDE DEF r
<1> QED BY <1>1, <1>2 DEF Plain, IsVisible

\* With such clients a command leaves only plain orders, and reduces none.
LEMMA ApplyPlain ==
  ASSUME PlainClients, Inductive, OnlyPlainOrders, NEW cmd \in Commands, Apply(cmd)
  PROVE  /\ OnlyPlainOrders'
         /\ \A id \in DOMAIN node \cap DOMAIN node' : node'[id] = node[id]
<1>1. /\ Idle /\ DOMAIN m_Orders = DOMAIN node
      /\ \A id \in DOMAIN node : node[id] \in Order
  BY DEF Apply, HandleAdd, HandleModify, HandleCancel, HandleNone, Begin,
     Inductive, Sound, NodesSound
<1>2. cmd \in CommandPayload
  BY ConstantsAssumption
<1>3. ASSUME NEW event, Answer(event)
      PROVE  Idle'
  BY <1>1, <1>3 DEF Answer, Idle
<1>4. CASE node' = node /\ Idle'
  BY <1>4 DEF OnlyPlainOrders, Plain
<1>5. CASE node' = Without(node, cmd.orderID) /\ Idle'
  BY <1>5 DEF OnlyPlainOrders, Plain, Without
<1>6. CASE HandleAdd(cmd) /\ cmd.type = "Add"
  <2>1. node' = node
    BY <1>6 DEF HandleAdd, book
  <2>2. CASE StartMatching(cmd, cmd)
    <3>1. taker'.remaining = cmd.quantity /\ taker'.flags = cmd.flags
      BY <2>2 DEF StartMatching, NewOrder
    <3>2. Plain(taker')
      BY <1>6, <3>1 DEF PlainClients, Plain, IsVisible
    <3> QED BY <2>1, <3>2 DEF OnlyPlainOrders, Plain
  <2> QED BY <1>3, <1>4, <1>6, <2>1, <2>2 DEF HandleAdd
<1>7. CASE HandleModify(cmd) /\ cmd.type = "Modify"
  <2>1. CASE cmd.orderID \in DOMAIN node /\ Replace(cmd, node[cmd.orderID])
    <3>1. node' = Without(node, cmd.orderID)
      BY <2>1 DEF Replace
    <3>2. ASSUME NEW req, StartMatching(cmd, req), req.quantity = cmd.new_quantity,
                 req.flags = node[cmd.orderID].flags
          PROVE  Plain(taker')
      <4>1. taker'.remaining = cmd.new_quantity /\ taker'.flags = req.flags
        BY <3>2 DEF StartMatching, NewOrder
      <4>2. \A other \in Commands :
              other.type = "Modify" => cmd.new_quantity <= other.new_quantity
        BY <1>7 DEF PlainClients
      <4> QED BY <2>1, <3>2, <4>1, <4>2 DEF Plain, IsVisible, OnlyPlainOrders
    <3>3. Plain(taker') \/ Idle'
      BY <1>3, <2>1, <3>2 DEF Replace
    <3> QED BY <3>1, <3>3 DEF OnlyPlainOrders, Plain, Without
  <2>2. CASE cmd.orderID \in DOMAIN node /\ cmd.new_quantity < node[cmd.orderID].remaining
    <3>1. node[cmd.orderID].remaining \in Int /\ cmd.new_quantity \in Int
      BY <1>1, <1>2, <1>7, <2>2, ConstantsAssumption DEF Order, Quantity,
         CommandPayload, AddCommand, ModifyCommand, CancelCommand, NoCommand
    <3>2. node[cmd.orderID].remaining <= cmd.new_quantity
      BY <1>7, <2>2 DEF OnlyPlainOrders, Plain
    <3> QED BY <2>2, <3>1, <3>2
  <2> QED BY <1>1, <1>3, <1>4, <1>7, <2>1, <2>2 DEF HandleModify, book
<1>8. CASE HandleCancel(cmd)
  BY <1>3, <1>4, <1>5, <1>8 DEF HandleCancel, book
<1>9. CASE HandleNone(cmd)
  BY <1>3, <1>4, <1>9 DEF HandleNone, book
<1> QED BY <1>6, <1>7, <1>8, <1>9 DEF Apply

\* So every step is VolumeSafe.
LEMMA PlainSafe ==
  ASSUME PlainClients
  PROVE  Spec => [][VolumeSafe]_vars
<1>1. Init => OnlyPlainOrders
  BY DEF Init, OnlyPlainOrders, Idle
<1>2. ASSUME Inductive, OnlyPlainOrders, [Next]_vars
      PROVE  OnlyPlainOrders' /\ [VolumeSafe]_vars
  <2>1. CASE \E cmd \in Commands : Apply(cmd)
    <3>1. PICK cmd \in Commands : Apply(cmd)
      BY <2>1
    <3>2. ~CanMatch
      BY <3>1 DEF Apply, HandleAdd, HandleModify, HandleCancel, HandleNone,
         Begin, CanMatch
    <3> QED BY <1>2, <3>1, <3>2, ApplyPlain DEF VolumeSafe, Match
  <2>2. CASE Match
    <3> DEFINE q == IF taker.remaining <= node[Top].remaining
                    THEN taker.remaining ELSE node[Top].remaining
    <3>1. ~Idle /\ Prices(levels, Opposite(taker.side)) # {} /\ Idle' = Idle
      BY <2>2 DEF Match, CanMatch, Idle
    <3>2. taker \in Order /\ Top \in DOMAIN node /\ node[Top] \in Order
      BY <1>2, <3>1, TopProperties
    <3>3. /\ q \in Nat /\ taker' = [taker EXCEPT !.remaining = @ - q]
          /\ \/ node' = Without(node, Top)
             \/ node' = [node EXCEPT ![Top] = [node[Top] EXCEPT !.remaining = @ - q]]
      BY <1>2, <2>2, MatchOrders
    <3> HIDE DEF q
    <3>4. Plain(taker) /\ \A id \in DOMAIN node : Plain(node[id])
      BY <1>2, <3>1 DEF OnlyPlainOrders
    <3>5. Plain(taker')
      BY <3>2, <3>3, <3>4, PlainWithLess
    <3>6. \A id \in DOMAIN node' : Plain(node'[id])
      <4>1. Plain([node[Top] EXCEPT !.remaining = @ - q])
        BY <3>2, <3>3, <3>4, PlainWithLess
      <4> QED BY <3>3, <3>4, <4>1 DEF Without
    <3>7. IsVisible(node[Top])
      BY <3>2, <3>4 DEF Plain
    <3> QED BY <3>1, <3>5, <3>6, <3>7 DEF OnlyPlainOrders, VolumeSafe, Plain
  <2>3. CASE Complete
    <3>1. ~Idle /\ ~CanMatch /\ Idle'
      BY <2>3 DEF Complete, Idle
    <3>2. \A id \in DOMAIN node' : Plain(node'[id])
      BY <1>2, <2>3, <3>1, CompleteOrders DEF OnlyPlainOrders
    <3> QED BY <3>1, <3>2 DEF OnlyPlainOrders, VolumeSafe, Match, Plain
  <2>4. CASE UNCHANGED vars
    BY <1>2, <2>4 DEF vars, OnlyPlainOrders, Plain, Idle
  <2> QED BY <1>2, <2>1, <2>2, <2>3, <2>4 DEF Next
<1>3. Inductive /\ OnlyPlainOrders /\ [Next]_vars => OnlyPlainOrders' /\ [VolumeSafe]_vars
  BY <1>2
<1> QED BY <1>1, <1>3, InductiveInvariant, PTL DEF Spec

\* With clients that hide no order and reduce none in place the volumes are
\* right and Fill-or-Kill is all or nothing, whatever else they do.
THEOREM PlainClientsCorrect ==
  ASSUME PlainClients
  PROVE  Spec => []VolumeExact /\ []FOKAllOrNothing
  BY PlainSafe, VolumesCorrect, FillOrKillCorrect, PTL

=============================================================================

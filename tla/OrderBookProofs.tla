--------------------------- MODULE OrderBookProofs ---------------------------
(***************************************************************************)
(* Inductive is an invariant of OrderBook for any clients, price range,    *)
(* width of Quantity, scratch size and set of commands; TypeOK,            *)
(* IndexConsistent, TimeOrdered, Uncrossed and NewestIsTaker follow.       *)
(*                                                                         *)
(* The handlers change the book in three ways: an order is unlinked, an    *)
(* order is linked at the back of its level, or only volumes and remaining *)
(* quantities change.  One lemma each says that Sound survives; the step   *)
(* of an action puts the lemmas together.                                  *)
(***************************************************************************)
EXTENDS OrderBook, CommonLemmas

\* What a level map is after one of its levels was written or erased.
LEMMA SetLevelProperties ==
  ASSUME NEW lv, DOMAIN lv = Side, NEW side \in Side, NEW p, NEW level
  PROVE  /\ DOMAIN SetLevel(lv, side, p, level) = Side
         /\ \A s \in Side \ {side} : SetLevel(lv, side, p, level)[s] = lv[s]
         /\ Prices(SetLevel(lv, side, p, level), side) = Prices(lv, side) \cup {p}
         /\ SetLevel(lv, side, p, level)[side][p] = level
         /\ \A q \in Prices(lv, side) \ {p} :
              SetLevel(lv, side, p, level)[side][q] = lv[side][q]
  BY DEF SetLevel, Prices

LEMMA EraseLevelProperties ==
  ASSUME NEW lv, DOMAIN lv = Side, NEW side \in Side, NEW p
  PROVE  /\ DOMAIN EraseLevel(lv, side, p) = Side
         /\ \A s \in Side \ {side} : EraseLevel(lv, side, p)[s] = lv[s]
         /\ Prices(EraseLevel(lv, side, p), side) = Prices(lv, side) \ {p}
         /\ \A q \in Prices(lv, side) \ {p} :
              EraseLevel(lv, side, p)[side][q] = lv[side][q]
  BY DEF EraseLevel, Prices

LEMMA QuantityArithmetic ==
  \A a, b \in Quantity : Plus(a, b) \in Quantity /\ Minus(a, b) \in Quantity
  BY ConstantsAssumption DEF Plus, Minus, Quantity

\* begin() of a side refers to its best price.
LEMMA BestPriceIsBest ==
  ASSUME NEW lv, LevelsSound(lv), NEW side \in Side, Prices(lv, side) # {}
  PROVE  /\ BestPrice(lv, side) \in Prices(lv, side)
         /\ \A q \in Prices(lv, side) :
              q = BestPrice(lv, side) \/ Better(side, BestPrice(lv, side), q)
<1>1. Prices(lv, side) \in SUBSET (MinPrice .. MaxPrice)
  BY DEF LevelsSound, Price
<1>2. \E p \in Prices(lv, side) : \A q \in Prices(lv, side) : p = q \/ Better(side, p, q)
  <2>0. MinPrice \in Int /\ MaxPrice \in Int
    BY ConstantsAssumption
  <2>1. CASE side = "Buy"
    <3>1. PICK p \in Prices(lv, side) : \A q \in Prices(lv, side) : q <= p
      BY <1>1, <2>0, IntMaximum
    <3>2. \A q \in Prices(lv, side) : p = q \/ p > q
      BY <1>1, <2>0, <3>1
    <3> QED BY <2>1, <3>2 DEF Better
  <2>2. CASE side = "Sell"
    <3>1. PICK p \in Prices(lv, side) : \A q \in Prices(lv, side) : p <= q
      BY <1>1, <2>0, IntMinimum
    <3>2. \A q \in Prices(lv, side) : p = q \/ p < q
      BY <1>1, <2>0, <3>1
    <3> QED BY <2>2, <3>2 DEF Better
  <2> QED BY <2>1, <2>2 DEF Side
<1> QED BY <1>2 DEF BestPrice

\* An increasing list of the elements of `list` other than id.
ListWithout(rest, list, id) ==
  /\ rest \in Seq(Nat) /\ Increasing(rest)
  /\ \A k \in DOMAIN rest :
       rest[k] # id /\ \E j \in DOMAIN list : rest[k] = list[j]
  /\ \A j \in DOMAIN list :
       list[j] # id => \E k \in DOMAIN rest : rest[k] = list[j]

\* The place of a resting order, and its list without it.
LEMMA UnlinkedList ==
  ASSUME NEW lv, NEW nd, Sound(lv, nd, m_Orders), NEW id \in DOMAIN nd
  PROVE  LET list == lv[nd[id].side][nd[id].price].orders
             rest == RemoveAt(list, Position(list, id))
         IN  /\ nd[id].side \in Side /\ nd[id].price \in Price
             /\ m_Orders[id] = nd[id].price
             /\ nd[id].price \in Prices(lv, nd[id].side)
             /\ lv[nd[id].side][nd[id].price] \in LevelData
             /\ nd[id].remaining \in Quantity
             /\ ListWithout(rest, list, id)
<1> DEFINE side == nd[id].side
           p    == nd[id].price
           list == lv[side][p].orders
           pos  == Position(list, id)
<1>1. nd[id] \in Order /\ m_Orders[id] = p
  BY DEF Sound, NodesSound
<1>2. side \in Side /\ p \in Price /\ nd[id].remaining \in Quantity
  BY <1>1 DEF Order
<1>3. p \in Prices(lv, side) /\ \E k \in DOMAIN list : list[k] = id
  BY DEF Sound, LinksSound
<1>4. lv[side][p] \in LevelData
      /\ \A i, j \in DOMAIN list : i < j => list[i] < list[j]
  BY <1>2, <1>3 DEF Sound, LevelsSound
<1>5. list \in Seq(Nat) /\ Increasing(list)
  BY <1>4 DEF LevelData, OrderID, Increasing
<1>6. pos \in DOMAIN list /\ list[pos] = id
  BY <1>3 DEF Position
<1> HIDE DEF list, pos
<1>7. /\ RemoveAt(list, pos) \in Seq(Nat) /\ Increasing(RemoveAt(list, pos))
      /\ \A k \in DOMAIN RemoveAt(list, pos) :
           /\ RemoveAt(list, pos)[k] # list[pos]
           /\ \E j \in DOMAIN list : RemoveAt(list, pos)[k] = list[j]
      /\ \A j \in DOMAIN list : list[j] # list[pos] =>
           \E k \in DOMAIN RemoveAt(list, pos) : RemoveAt(list, pos)[k] = list[j]
  BY <1>5, <1>6, RemoveFromIncreasing
<1> QED
  BY <1>1, <1>2, <1>3, <1>4, <1>6, <1>7 DEF list, pos, ListWithout

\* The levels are sound without the order, and list the same ids but its own.
LEMMA UnlinkLevels ==
  ASSUME NEW lv, NEW nd, Sound(lv, nd, m_Orders), NEW id \in DOMAIN nd
  PROVE  LET lw == Unlink(lv, id, nd[id])
         IN  /\ LevelsSound(lw)
             /\ \A side \in Side : Prices(lw, side) \subseteq Prices(lv, side)
             /\ \A side \in Side : \A p \in Prices(lw, side) :
                  \A k \in DOMAIN lw[side][p].orders :
                    /\ lw[side][p].orders[k] # id
                    /\ \E j \in DOMAIN lv[side][p].orders :
                         lw[side][p].orders[k] = lv[side][p].orders[j]
             /\ \A side \in Side : \A p \in Prices(lv, side) :
                  \A j \in DOMAIN lv[side][p].orders :
                    lv[side][p].orders[j] # id =>
                      /\ p \in Prices(lw, side)
                      /\ \E k \in DOMAIN lw[side][p].orders :
                           lw[side][p].orders[k] = lv[side][p].orders[j]
<1> DEFINE s      == nd[id].side
           p      == nd[id].price
           list   == lv[s][p].orders
           rest   == RemoveAt(list, Position(list, id))
           volume == IF IsVisible(nd[id]) THEN Minus(lv[s][p].volume, nd[id].remaining)
                                          ELSE lv[s][p].volume
           level  == [volume |-> volume, orders |-> rest]
           lw     == Unlink(lv, id, nd[id])
<1>1. /\ s \in Side /\ p \in Price
      /\ m_Orders[id] = p
      /\ p \in Prices(lv, s)
      /\ lv[s][p] \in LevelData
      /\ nd[id].remaining \in Quantity
      /\ ListWithout(rest, list, id)
  BY UnlinkedList
<1>2. LevelsSound(lv) /\ DOMAIN lv = Side
  BY DEF Sound, LevelsSound
<1>3. lw = IF rest = <<>> THEN EraseLevel(lv, s, p) ELSE SetLevel(lv, s, p, level)
  BY <1>1 DEF Unlink
<1>4. level \in LevelData
  BY <1>1, QuantityArithmetic DEF LevelData, OrderID, ListWithout
<1>5. \* an id that is not in list s, p is not id
      \A side \in Side : \A q \in Prices(lv, side) :
        (side # s \/ q # p) => \A k \in DOMAIN lv[side][q].orders :
                                 lv[side][q].orders[k] # id
  BY DEF Sound, LinksSound
<1>0. level.orders = rest
  OBVIOUS
<1> HIDE DEF s, p, rest, list, level, lw
<1>6. CASE rest = <<>>
  <2>1. /\ DOMAIN lw = Side
        /\ \A side \in Side \ {s} : lw[side] = lv[side]
        /\ Prices(lw, s) = Prices(lv, s) \ {p}
        /\ \A q \in Prices(lv, s) \ {p} : lw[s][q] = lv[s][q]
    BY <1>1, <1>2, <1>3, <1>6, EraseLevelProperties
  <2>2. /\ \A side \in Side : Prices(lw, side) \subseteq Prices(lv, side)
        /\ \A side \in Side : \A q \in Prices(lw, side) :
             lw[side][q] = lv[side][q] /\ (side # s \/ q # p)
        /\ \A side \in Side : \A q \in Prices(lv, side) :
             (side # s \/ q # p) => q \in Prices(lw, side)
    BY <2>1 DEF Prices
  <2>3. LevelsSound(lw)
    BY <1>2, <2>1, <2>2 DEF LevelsSound, Side
  <2>4. \A j \in DOMAIN list : list[j] = id
    BY <1>1, <1>6 DEF ListWithout
  <2> QED BY <1>5, <2>2, <2>3, <2>4 DEF list, lw, s, p
<1>7. CASE rest # <<>>
  <2>1. /\ DOMAIN lw = Side
        /\ \A side \in Side \ {s} : lw[side] = lv[side]
        /\ Prices(lw, s) = Prices(lv, s) \cup {p}
        /\ lw[s][p] = level
        /\ \A q \in Prices(lv, s) \ {p} : lw[s][q] = lv[s][q]
    BY <1>1, <1>2, <1>3, <1>7, SetLevelProperties
  <2>2. /\ \A side \in Side : Prices(lw, side) = Prices(lv, side)
        /\ \A side \in Side : \A q \in Prices(lw, side) :
             (side # s \/ q # p) => lw[side][q] = lv[side][q]
    BY <1>1, <2>1 DEF Prices
  <2>3. LevelsSound(lw)
    <3>1. \A i, j \in DOMAIN rest : i < j => rest[i] < rest[j]
      BY <1>1 DEF Increasing, ListWithout
    <3>2. ASSUME NEW side \in Side, NEW q \in Prices(lw, side)
          PROVE  /\ q \in Price /\ lw[side][q] \in LevelData
                 /\ lw[side][q].orders # <<>>
                 /\ \A i, j \in DOMAIN lw[side][q].orders :
                      i < j => lw[side][q].orders[i] < lw[side][q].orders[j]
      <4>1. CASE side = s /\ q = p
        BY <1>0, <1>1, <1>4, <1>7, <2>1, <3>1, <4>1
      <4>2. CASE side # s \/ q # p
        BY <1>2, <2>2, <4>2 DEF LevelsSound
      <4> QED BY <4>1, <4>2
    <3> QED BY <1>2, <2>1, <2>2, <3>2 DEF LevelsSound, Side
  <2>4. ASSUME NEW side \in Side, NEW q \in Prices(lw, side),
               NEW k \in DOMAIN lw[side][q].orders
        PROVE  /\ lw[side][q].orders[k] # id
               /\ \E j \in DOMAIN lv[side][q].orders :
                    lw[side][q].orders[k] = lv[side][q].orders[j]
    <3>1. CASE side = s /\ q = p
      BY <1>0, <1>1, <2>1, <3>1 DEF list, ListWithout
    <3>2. CASE side # s \/ q # p
      BY <1>5, <2>2, <3>2
    <3> QED BY <3>1, <3>2
  <2>5. ASSUME NEW side \in Side, NEW q \in Prices(lv, side),
               NEW j \in DOMAIN lv[side][q].orders, lv[side][q].orders[j] # id
        PROVE  /\ q \in Prices(lw, side)
               /\ \E k \in DOMAIN lw[side][q].orders :
                    lw[side][q].orders[k] = lv[side][q].orders[j]
    <3>1. CASE side = s /\ q = p
      BY <1>0, <1>1, <2>1, <2>2, <2>5, <3>1 DEF list, ListWithout
    <3>2. CASE side # s \/ q # p
      BY <2>2, <3>2
    <3> QED BY <3>1, <3>2
  <2> QED BY <2>2, <2>3, <2>4, <2>5 DEF lw
<1> QED BY <1>6, <1>7

\* Unlinking an order, as InternalCancelOrder does, leaves a sound book.
LEMMA UnlinkSound ==
  ASSUME NEW lv, NEW nd, Sound(lv, nd, m_Orders), NEW id \in DOMAIN nd
  PROVE  Sound(Unlink(lv, id, nd[id]), Without(nd, id), Without(m_Orders, id))
<1> DEFINE lw == Unlink(lv, id, nd[id])
           ne == Without(nd, id)
<1>1. /\ DOMAIN ne = DOMAIN nd \ {id}
      /\ \A x \in DOMAIN nd \ {id} : ne[x] = nd[x]
  BY DEF Without
<1>2. /\ LevelsSound(lw)
      /\ \A side \in Side : Prices(lw, side) \subseteq Prices(lv, side)
      /\ \A side \in Side : \A p \in Prices(lw, side) :
           \A k \in DOMAIN lw[side][p].orders :
             /\ lw[side][p].orders[k] # id
             /\ \E j \in DOMAIN lv[side][p].orders :
                  lw[side][p].orders[k] = lv[side][p].orders[j]
      /\ \A side \in Side : \A p \in Prices(lv, side) :
           \A j \in DOMAIN lv[side][p].orders :
             lv[side][p].orders[j] # id =>
               /\ p \in Prices(lw, side)
               /\ \E k \in DOMAIN lw[side][p].orders :
                    lw[side][p].orders[k] = lv[side][p].orders[j]
  BY UnlinkLevels
<1>3. NodesSound(ne, Without(m_Orders, id))
  BY DEF Sound, NodesSound, Without
<1> HIDE DEF lw, ne
<1>4. ASSUME NEW side \in Side, NEW p \in Prices(lw, side),
             NEW k \in DOMAIN lw[side][p].orders
      PROVE  LET x == lw[side][p].orders[k]
             IN  x \in DOMAIN ne /\ ne[x].side = side /\ ne[x].price = p
  <2>1. PICK j \in DOMAIN lv[side][p].orders :
          lw[side][p].orders[k] = lv[side][p].orders[j]
    BY <1>2
  <2>2. lw[side][p].orders[k] # id /\ p \in Prices(lv, side)
    BY <1>2
  <2> QED BY <1>1, <2>1, <2>2 DEF Sound, LinksSound
<1>5. ASSUME NEW x \in DOMAIN ne
      PROVE  /\ ne[x].price \in Prices(lw, ne[x].side)
             /\ \E k \in DOMAIN lw[ne[x].side][ne[x].price].orders :
                  lw[ne[x].side][ne[x].price].orders[k] = x
  <2>1. x \in DOMAIN nd /\ x # id /\ ne[x] = nd[x]
    BY <1>1
  <2>2. nd[x].side \in Side /\ nd[x].price \in Prices(lv, nd[x].side)
    BY <2>1 DEF Sound, LinksSound, NodesSound, Order
  <2>3. PICK j \in DOMAIN lv[nd[x].side][nd[x].price].orders :
          lv[nd[x].side][nd[x].price].orders[j] = x
    BY <2>1 DEF Sound, LinksSound
  <2> QED BY <1>2, <2>1, <2>2, <2>3
<1>6. LinksSound(lw, ne)
  BY <1>4, <1>5 DEF LinksSound
<1> QED BY <1>2, <1>3, <1>6 DEF Sound, lw, ne

\* Changing volumes and remaining quantities alone, as UpdateQuantity,
\* Order::Fill and RecordFill do, leaves a sound book.
LEMMA VolumesSound ==
  ASSUME NEW lv, NEW nd, NEW index, Sound(lv, nd, index), NEW lw, NEW ne,
         DOMAIN lw = Side,
         \A side \in Side : Prices(lw, side) = Prices(lv, side),
         \A side \in Side : \A p \in Prices(lv, side) :
           lw[side][p] \in LevelData /\ lw[side][p].orders = lv[side][p].orders,
         DOMAIN ne = DOMAIN nd,
         \A id \in DOMAIN nd :
           /\ ne[id] \in Order /\ ne[id].orderID = nd[id].orderID
           /\ ne[id].side = nd[id].side /\ ne[id].price = nd[id].price
  PROVE  Sound(lw, ne, index)
<1>1. LevelsSound(lw)
  BY DEF Sound, LevelsSound, Side
<1>2. NodesSound(ne, index)
  BY DEF Sound, NodesSound
<1>3. LinksSound(lw, ne)
  <2>1. ASSUME NEW side \in Side, NEW p \in Prices(lw, side),
               NEW k \in DOMAIN lw[side][p].orders
        PROVE  LET x == lw[side][p].orders[k]
               IN  x \in DOMAIN ne /\ ne[x].side = side /\ ne[x].price = p
    BY DEF Sound, LinksSound
  <2>2. ASSUME NEW x \in DOMAIN ne
        PROVE  /\ ne[x].price \in Prices(lw, ne[x].side)
               /\ \E k \in DOMAIN lw[ne[x].side][ne[x].price].orders :
                    lw[ne[x].side][ne[x].price].orders[k] = x
    <3>1. nd[x].side \in Side /\ nd[x].price \in Prices(lv, nd[x].side)
      BY DEF Sound, LinksSound, NodesSound, Order
    <3> QED BY <3>1 DEF Sound, LinksSound
  <2> QED BY <2>1, <2>2 DEF LinksSound
<1> QED BY <1>1, <1>2, <1>3 DEF Sound

\* The level order o comes to rest in, and what is left of the others.
LEMMA LinkLevels ==
  ASSUME NEW lv, NEW nd, NEW index, Sound(lv, nd, index), NEW o \in Order,
         \A id \in DOMAIN nd : id < o.orderID
  PROVE  LET lw == Link(lv, o)
         IN  /\ DOMAIN lw = Side
             /\ \A side \in Side \ {o.side} : lw[side] = lv[side]
             /\ Prices(lw, o.side) = Prices(lv, o.side) \cup {o.price}
             /\ \A q \in Prices(lv, o.side) \ {o.price} :
                  lw[o.side][q] = lv[o.side][q]
             /\ lw[o.side][o.price] \in LevelData
             /\ lw[o.side][o.price].orders # <<>>
             /\ Increasing(lw[o.side][o.price].orders)
             /\ \A k \in DOMAIN lw[o.side][o.price].orders :
                  \/ lw[o.side][o.price].orders[k] = o.orderID
                  \/ /\ o.price \in Prices(lv, o.side)
                     /\ \E j \in DOMAIN lv[o.side][o.price].orders :
                          lw[o.side][o.price].orders[k] = lv[o.side][o.price].orders[j]
             /\ o.price \in Prices(lv, o.side) =>
                  \A j \in DOMAIN lv[o.side][o.price].orders :
                    \E k \in DOMAIN lw[o.side][o.price].orders :
                      lw[o.side][o.price].orders[k] = lv[o.side][o.price].orders[j]
             /\ \E k \in DOMAIN lw[o.side][o.price].orders :
                  lw[o.side][o.price].orders[k] = o.orderID
<1> DEFINE s      == o.side
           p      == o.price
           old    == IF p \in Prices(lv, s) THEN lv[s][p]
                                            ELSE [volume |-> 0, orders |-> <<>>]
           volume == IF IsVisible(o) THEN Plus(old.volume, o.remaining)
                                     ELSE old.volume
           list   == Append(old.orders, o.orderID)
           level  == [volume |-> volume, orders |-> list]
           lw     == Link(lv, o)
<1>1. s \in Side /\ p \in Price /\ o.remaining \in Quantity /\ o.orderID \in Nat
  BY DEF Order, OrderID
<1>2. lw = SetLevel(lv, s, p, level)
  BY DEF Link
<1>3. old \in LevelData /\ Increasing(old.orders)
  <2>1. CASE p \in Prices(lv, s)
    BY <1>1, <2>1 DEF Sound, LevelsSound, Increasing
  <2>2. CASE p \notin Prices(lv, s)
    <3>1. old = [volume |-> 0, orders |-> <<>>]
      BY <2>2
    <3>2. 0 \in Quantity
      BY ConstantsAssumption DEF Quantity
    <3> DEFINE empty == old.orders
    <3>3. empty \in Seq(OrderID) /\ DOMAIN empty = {} /\ old.volume = 0
      <4>1. <<>> \in Seq(OrderID)
        OBVIOUS
      <4>2. DOMAIN <<>> = {}
        OBVIOUS
      <4>3. empty = <<>> /\ old.volume = 0
        BY <3>1
      <4>4. DOMAIN empty = {}
        BY <4>2, <4>3, Zenon
      <4>5. empty \in Seq(OrderID)
        BY <4>1, <4>3, Zenon
      <4> QED BY <4>3, <4>4, <4>5
    <3> HIDE DEF empty
    <3>4. Increasing(empty)
      BY <3>3 DEF Increasing
    <3>5. old \in LevelData
      BY <3>1, <3>2, <3>3 DEF LevelData, empty
    <3> QED BY <3>4, <3>5 DEF empty
  <2> QED BY <2>1, <2>2
<1>4. \A j \in DOMAIN old.orders :
        /\ old.orders[j] < o.orderID
        /\ p \in Prices(lv, s) /\ old.orders[j] = lv[s][p].orders[j]
  <2>1. CASE p \in Prices(lv, s)
    BY <1>1, <2>1 DEF Sound, LinksSound
  <2>2. CASE p \notin Prices(lv, s)
    <3>1. DOMAIN old.orders = {}
      BY <2>2
    <3> QED BY <3>1
  <2> QED BY <2>1, <2>2
<1>5. old.orders \in Seq(Nat)
  BY <1>3 DEF LevelData, OrderID
<1>6. p \in Prices(lv, s) => old = lv[s][p]
  OBVIOUS
<1> HIDE DEF old
<1>7. /\ list \in Seq(Nat) /\ list # <<>>
      /\ Increasing(list)
      /\ \A i \in DOMAIN list :
           list[i] = o.orderID \/ \E j \in DOMAIN old.orders : list[i] = old.orders[j]
      /\ \A j \in DOMAIN old.orders : \E i \in DOMAIN list : list[i] = old.orders[j]
      /\ \E i \in DOMAIN list : list[i] = o.orderID
  BY <1>1, <1>3, <1>4, <1>5, AppendToIncreasing
<1>8. volume \in Quantity
  BY <1>1, <1>3, QuantityArithmetic DEF LevelData
<1>9. level \in LevelData /\ level.orders = list
  BY <1>7, <1>8 DEF LevelData, OrderID
<1> HIDE DEF s, p, level, list, lw
<1>10. /\ DOMAIN lw = Side
       /\ \A side \in Side \ {s} : lw[side] = lv[side]
       /\ Prices(lw, s) = Prices(lv, s) \cup {p}
       /\ lw[s][p] = level
       /\ \A q \in Prices(lv, s) \ {p} : lw[s][q] = lv[s][q]
  <2>1. DOMAIN lv = Side
    BY DEF Sound, LevelsSound
  <2> QED BY <1>1, <1>2, <2>1, SetLevelProperties
<1>11. \A k \in DOMAIN list :
         \/ list[k] = o.orderID
         \/ /\ p \in Prices(lv, s)
            /\ \E j \in DOMAIN lv[s][p].orders : list[k] = lv[s][p].orders[j]
  BY <1>4, <1>6, <1>7
<1>12. p \in Prices(lv, s) => \A j \in DOMAIN lv[s][p].orders :
         \E k \in DOMAIN list : list[k] = lv[s][p].orders[j]
  BY <1>6, <1>7
<1> QED BY <1>7, <1>9, <1>10, <1>11, <1>12 DEF s, p, lw

\* An order that is newer than those on a sound book, and whose price crosses
\* no level of the other side, can come to rest on it.
LEMMA LinkSound ==
  ASSUME NEW lv, NEW nd, NEW index, Sound(lv, nd, index), NEW o \in Order,
         \A id \in DOMAIN nd : id < o.orderID,
         \A q \in Prices(lv, Opposite(o.side)) :
           IF o.side = "Buy" THEN o.price < q ELSE q < o.price
  PROVE  Sound(Link(lv, o),
               [i \in DOMAIN nd \cup {o.orderID} |->
                  IF i = o.orderID THEN o ELSE nd[i]],
               [i \in DOMAIN index \cup {o.orderID} |->
                  IF i = o.orderID THEN o.price ELSE index[i]])
<1> DEFINE s  == o.side
           p  == o.price
           x  == o.orderID
           lw == Link(lv, o)
           ne == [i \in DOMAIN nd \cup {x} |-> IF i = x THEN o ELSE nd[i]]
           ix == [i \in DOMAIN index \cup {x} |-> IF i = x THEN p ELSE index[i]]
<1>0. s \in Side /\ p \in Price /\ x \in Nat
  BY DEF Order, OrderID
<1>1. /\ DOMAIN lw = Side
      /\ \A side \in Side \ {s} : lw[side] = lv[side]
      /\ Prices(lw, s) = Prices(lv, s) \cup {p}
      /\ \A q \in Prices(lv, s) \ {p} : lw[s][q] = lv[s][q]
      /\ lw[s][p] \in LevelData
      /\ lw[s][p].orders # <<>>
      /\ Increasing(lw[s][p].orders)
      /\ \A k \in DOMAIN lw[s][p].orders :
           \/ lw[s][p].orders[k] = x
           \/ /\ p \in Prices(lv, s)
              /\ \E j \in DOMAIN lv[s][p].orders :
                   lw[s][p].orders[k] = lv[s][p].orders[j]
      /\ p \in Prices(lv, s) =>
           \A j \in DOMAIN lv[s][p].orders :
             \E k \in DOMAIN lw[s][p].orders :
               lw[s][p].orders[k] = lv[s][p].orders[j]
      /\ \E k \in DOMAIN lw[s][p].orders : lw[s][p].orders[k] = x
  BY LinkLevels, SMTT(20)
<1>2. x \notin DOMAIN nd
  BY <1>0 DEF Sound, NodesSound, OrderID
<1>3. /\ DOMAIN ne = DOMAIN nd \cup {x}
      /\ ne[x] = o
      /\ \A i \in DOMAIN nd : ne[i] = nd[i]
  BY <1>2
<1>4. NodesSound(ne, ix)
  <2>1. /\ DOMAIN index = DOMAIN nd
        /\ \A id \in DOMAIN nd : id \in OrderID /\ nd[id] \in Order
             /\ nd[id].orderID = id /\ index[id] = nd[id].price
    BY DEF Sound, NodesSound
  <2>2. /\ DOMAIN ix = DOMAIN ne /\ ix[x] = p
        /\ \A id \in DOMAIN nd : ix[id] = index[id]
    BY <1>2, <1>3, <2>1
  <2>3. x \in OrderID /\ o.orderID = x /\ o.price = p
    BY <1>0 DEF OrderID
  <2> HIDE DEF ix, ne
  <2> QED BY <1>3, <2>1, <2>2, <2>3 DEF NodesSound
<1> HIDE DEF lw, ne, ix
<1>5. \A side \in Side : \A q \in Prices(lw, side) :
        (side = s /\ q = p) \/ (q \in Prices(lv, side) /\ lw[side][q] = lv[side][q])
  BY <1>1, SMTT(20) DEF Prices
<1>6. LevelsSound(lw)
  <2>1. ASSUME NEW side \in Side, NEW q \in Prices(lw, side)
        PROVE  /\ q \in Price /\ lw[side][q] \in LevelData
               /\ lw[side][q].orders # <<>>
               /\ \A i, j \in DOMAIN lw[side][q].orders :
                    i < j => lw[side][q].orders[i] < lw[side][q].orders[j]
    <3>1. CASE side = s /\ q = p
      BY <1>0, <1>1, <3>1 DEF Increasing
    <3>2. CASE q \in Prices(lv, side) /\ lw[side][q] = lv[side][q]
      BY <3>2 DEF Sound, LevelsSound
    <3> QED BY <1>5, <3>1, <3>2
  <2>2. \A bid \in Prices(lw, "Buy"), ask \in Prices(lw, "Sell") : bid < ask
    <3>0. \A bid \in Prices(lv, "Buy"), ask \in Prices(lv, "Sell") : bid < ask
      BY DEF Sound, LevelsSound
    <3>1. CASE s = "Buy"
      BY <1>1, <3>0, <3>1 DEF Prices, Opposite, Side
    <3>2. CASE s = "Sell"
      BY <1>1, <3>0, <3>2 DEF Prices, Opposite, Side
    <3> QED BY <1>0, <3>1, <3>2 DEF Side
  <2> QED BY <1>1, <2>1, <2>2 DEF LevelsSound
<1>7. ASSUME NEW side \in Side, NEW q \in Prices(lw, side),
             NEW k \in DOMAIN lw[side][q].orders
      PROVE  LET id == lw[side][q].orders[k]
             IN  id \in DOMAIN ne /\ ne[id].side = side /\ ne[id].price = q
  <2>1. CASE q \in Prices(lv, side) /\ lw[side][q] = lv[side][q]
    BY <1>3, <2>1 DEF Sound, LinksSound
  <2>2. CASE side = s /\ q = p /\ lw[side][q].orders[k] = x
    BY <1>3, <2>2
  <2>3. CASE side = s /\ q = p /\ lw[side][q].orders[k] # x
    <3>1. p \in Prices(lv, s)
      BY <1>1, <2>3
    <3>2. PICK j \in DOMAIN lv[s][p].orders :
            lw[s][p].orders[k] = lv[s][p].orders[j]
      BY <1>1, <2>3
    <3>3. \A i \in DOMAIN lv[s][p].orders :
            LET id == lv[s][p].orders[i]
            IN  id \in DOMAIN nd /\ nd[id].side = s /\ nd[id].price = p
      <4>1. \A t \in Side : \A r \in Prices(lv, t) : \A i \in DOMAIN lv[t][r].orders :
              LET id == lv[t][r].orders[i]
              IN  id \in DOMAIN nd /\ nd[id].side = t /\ nd[id].price = r
        BY DEF Sound, LinksSound
      <4> QED BY ONLY <1>0, <3>1, <4>1
    <3>4. LET id == lw[s][p].orders[k]
          IN  id \in DOMAIN ne /\ ne[id].side = s /\ ne[id].price = p
      BY ONLY <1>3, <3>2, <3>3
    <3> QED BY ONLY <2>3, <3>4
  <2> QED BY <1>5, <2>1, <2>2, <2>3
<1>8. ASSUME NEW id \in DOMAIN ne
      PROVE  /\ ne[id].price \in Prices(lw, ne[id].side)
             /\ \E k \in DOMAIN lw[ne[id].side][ne[id].price].orders :
                  lw[ne[id].side][ne[id].price].orders[k] = id
  <2>1. CASE id = x
    BY <1>1, <1>3, <2>1
  <2>2. CASE id # x
    <3>1. id \in DOMAIN nd /\ ne[id] = nd[id]
      BY <1>3, <2>2
    <3>2. nd[id].side \in Side /\ nd[id].price \in Prices(lv, nd[id].side)
      BY <3>1 DEF Sound, LinksSound, NodesSound, Order
    <3>3. PICK j \in DOMAIN lv[nd[id].side][nd[id].price].orders :
            lv[nd[id].side][nd[id].price].orders[j] = id
      BY <3>1 DEF Sound, LinksSound
    <3>4. nd[id].price \in Prices(lw, nd[id].side)
      BY <1>1, <3>2 DEF Prices
    <3>5. CASE nd[id].side = s /\ nd[id].price = p
      <4>1. p \in Prices(lv, s) /\ j \in DOMAIN lv[s][p].orders
            /\ lv[s][p].orders[j] = id
        BY <3>2, <3>3, <3>5
      <4>2. p \in Prices(lv, s) =>
              \A i \in DOMAIN lv[s][p].orders :
                \E k \in DOMAIN lw[s][p].orders :
                  lw[s][p].orders[k] = lv[s][p].orders[i]
        BY <1>1
      <4>3. \E k \in DOMAIN lw[s][p].orders : lw[s][p].orders[k] = id
        BY ONLY <4>1, <4>2
      <4> QED BY <3>1, <3>4, <3>5, <4>3
    <3>6. CASE ~(nd[id].side = s /\ nd[id].price = p)
      BY <1>5, <3>1, <3>2, <3>3, <3>4, <3>6
    <3> QED BY <3>5, <3>6
  <2> QED BY <2>1, <2>2
<1>9. LinksSound(lw, ne)
  BY <1>7, <1>8 DEF LinksSound
<1> QED BY <1>4, <1>6, <1>9 DEF Sound, lw, ne, ix

-----------------------------------------------------------------------------
(* The steps.                                                              *)

LEMMA InitInductive == Init => Inductive
<1> SUFFICES ASSUME Init PROVE Inductive
  OBVIOUS
<1>0. DOMAIN levels = Side /\ \A side \in Side : Prices(levels, side) = {}
  BY DEF Init, Prices
<1>1. LevelsSound(levels)
  BY <1>0 DEF LevelsSound, Side
<1>2. NodesSound(node, m_Orders)
  BY DEF Init, NodesSound
<1>3. LinksSound(levels, node)
  BY <1>0 DEF Init, LinksSound
<1>4. NewestIsTaker
  BY DEF Init, NewestIsTaker, Idle
<1> QED BY <1>1, <1>2, <1>3, <1>4 DEF Init, Inductive, Sound, Idle, CommandPayload

\* A handler that ends at once leaves Inductive true if it leaves a sound book
\* with no order that was not there.
LEMMA AnswerInductive ==
  ASSUME Inductive, Idle, NEW event, Answer(event),
         Sound(levels', node', m_Orders'), DOMAIN node' \subseteq DOMAIN node,
         m_TradeCounter' = m_TradeCounter
  PROVE  Inductive'
  BY DEF Inductive, Answer, Idle, NewestIsTaker

\* What InternalAddOrder is called with.
TypedRequest(req) ==
  /\ req.clientID \in ClientID /\ req.price \in Price /\ req.quantity \in Quantity
  /\ req.side \in Side /\ req.order_type \in OrderType
  /\ req.tif \in TimeInForce /\ req.flags \in SUBSET Flags

LEMMA StartInductive ==
  ASSUME Inductive, Idle, NEW cmd \in CommandPayload, cmd # NoCommand,
         NEW req, TypedRequest(req), StartMatching(cmd, req),
         Sound(levels', node', m_Orders'), DOMAIN node' \subseteq DOMAIN node,
         m_TradeCounter' = m_TradeCounter
  PROVE  Inductive'
<1>1. m_OrderCounter \in Nat \ {0} /\ \A id \in DOMAIN node : id < m_OrderCounter
  BY DEF Inductive, NewestIsTaker
<1>2. NewOrder(req) \in Order /\ NewOrder(req).orderID = m_OrderCounter
  BY <1>1 DEF NewOrder, Order, OrderID, TypedRequest
<1>3. /\ handling' = cmd /\ taker' = NewOrder(req)
      /\ m_OrderCounter' = m_OrderCounter + 1
  BY DEF StartMatching
<1>4. ~Idle'
  BY <1>3 DEF Idle
<1>5. \A id \in DOMAIN node' : id \in Nat
  BY DEF Sound, NodesSound, OrderID
<1>6. NewestIsTaker'
  BY <1>1, <1>2, <1>3, <1>5 DEF NewestIsTaker
<1> QED BY <1>1, <1>2, <1>3, <1>4, <1>6 DEF Inductive

LEMMA AddInductive ==
  ASSUME Inductive, NEW cmd \in AddCommand, HandleAdd(cmd)
  PROVE  Inductive'
<1>1. /\ Idle /\ m_TradeCounter' = m_TradeCounter
      /\ levels' = levels /\ node' = node /\ m_Orders' = m_Orders
  BY DEF HandleAdd, Begin, book
<1>2. Sound(levels', node', m_Orders')
  BY <1>1 DEF Inductive
<1>3. cmd \in CommandPayload /\ cmd # NoCommand /\ TypedRequest(cmd)
  BY DEF CommandPayload, AddCommand, NoCommand, TypedRequest
<1>4. CASE StartMatching(cmd, cmd)
  BY <1>1, <1>2, <1>3, <1>4, StartInductive
<1>5. CASE \E event : Answer(event)
  BY <1>1, <1>2, <1>5, AnswerInductive
<1> QED BY <1>4, <1>5 DEF HandleAdd

LEMMA CancelInductive ==
  ASSUME Inductive, NEW cmd \in CancelCommand, HandleCancel(cmd)
  PROVE  Inductive'
<1>1. Idle /\ m_TradeCounter' = m_TradeCounter /\ Sound(levels, node, m_Orders)
  BY DEF HandleCancel, Begin, Inductive
<1>2. CASE UNCHANGED book /\ \E event : Answer(event)
  <2>1. levels' = levels /\ node' = node /\ m_Orders' = m_Orders
    BY <1>2 DEF book
  <2> QED BY <1>1, <1>2, <2>1, AnswerInductive
<1>3. CASE /\ cmd.orderID \in DOMAIN m_Orders
           /\ levels' = Unlink(levels, cmd.orderID, node[cmd.orderID])
           /\ node' = Without(node, cmd.orderID)
           /\ m_Orders' = Without(m_Orders, cmd.orderID)
           /\ \E event : Answer(event)
  <2>1. cmd.orderID \in DOMAIN node
    BY <1>1, <1>3 DEF Sound, NodesSound
  <2>2. Sound(levels', node', m_Orders')
    BY <1>1, <1>3, <2>1, UnlinkSound
  <2>3. DOMAIN node' \subseteq DOMAIN node
    BY <1>3 DEF Without
  <2> QED BY <1>1, <1>3, <2>2, <2>3, AnswerInductive
<1> QED BY <1>2, <1>3 DEF HandleCancel

LEMMA ReplaceInductive ==
  ASSUME Inductive, Idle, NEW cmd \in ModifyCommand, cmd.orderID \in DOMAIN node,
         Replace(cmd, node[cmd.orderID]), m_TradeCounter' = m_TradeCounter
  PROVE  Inductive'
<1> DEFINE o   == node[cmd.orderID]
           req == [clientID |-> cmd.clientID, price |-> cmd.new_price,
                   quantity |-> cmd.new_quantity, side |-> o.side,
                   order_type |-> o.order_type, tif |-> o.tif,
                   match_type |-> "Standard", flags |-> o.flags]
<1>1. Sound(levels, node, m_Orders) /\ o \in Order
  BY DEF Inductive, Sound, NodesSound
<1>2. /\ levels' = Unlink(levels, cmd.orderID, o)
      /\ node' = Without(node, cmd.orderID)
      /\ m_Orders' = Without(m_Orders, cmd.orderID)
  BY DEF Replace
<1>3. Sound(levels', node', m_Orders')
  BY <1>1, <1>2, UnlinkSound
<1>4. DOMAIN node' \subseteq DOMAIN node
  BY <1>2 DEF Without
<1>5. cmd \in CommandPayload /\ cmd # NoCommand
  BY DEF CommandPayload, ModifyCommand, NoCommand
<1>6. TypedRequest(req)
  BY <1>1 DEF TypedRequest, ModifyCommand, Order
<1>7. StartMatching(cmd, req) \/ Answer(ModifyRejected(cmd, "InvalidModify"))
  BY DEF Replace
<1> HIDE DEF req
<1>8. CASE StartMatching(cmd, req)
  BY <1>3, <1>4, <1>5, <1>6, <1>8, StartInductive
<1>9. CASE Answer(ModifyRejected(cmd, "InvalidModify"))
  BY <1>3, <1>4, <1>9, AnswerInductive
<1> QED BY <1>7, <1>8, <1>9

LEMMA ReduceInductive ==
  ASSUME Inductive, Idle, NEW cmd \in ModifyCommand, cmd.orderID \in DOMAIN node,
         Reduce(cmd, node[cmd.orderID]), m_TradeCounter' = m_TradeCounter
  PROVE  Inductive'
<1> DEFINE id   == cmd.orderID
           o    == node[id]
           p    == m_Orders[id]
           diff == Minus(cmd.new_quantity, o.remaining)
<1>1. Sound(levels, node, m_Orders) /\ o \in Order /\ p = o.price
  BY DEF Inductive, Sound, NodesSound
<1>2. /\ o.side \in Side /\ o.remaining \in Quantity
      /\ cmd.new_quantity \in Quantity
      /\ DOMAIN levels = Side
      /\ p \in Prices(levels, o.side) /\ levels[o.side][p] \in LevelData
  BY <1>1 DEF Order, ModifyCommand, Sound, LinksSound, LevelsSound
<1>3. diff \in Quantity /\ Minus(levels[o.side][p].volume, diff) \in Quantity
  BY <1>2, QuantityArithmetic DEF LevelData
<1>4. /\ node' = [node EXCEPT ![id].remaining = cmd.new_quantity]
      /\ levels' = IF IsVisible(o)
                   THEN [levels EXCEPT ![o.side][p].volume = Minus(@, diff)]
                   ELSE levels
      /\ m_Orders' = m_Orders
  BY DEF Reduce
<1> HIDE DEF diff
<1>5. /\ DOMAIN node' = DOMAIN node
      /\ \A x \in DOMAIN node :
           /\ node'[x] \in Order /\ node'[x].orderID = node[x].orderID
           /\ node'[x].side = node[x].side /\ node'[x].price = node[x].price
  <2>1. \A x \in DOMAIN node : node[x] \in Order
    BY <1>1 DEF Sound, NodesSound
  <2> QED BY <1>2, <1>4, <2>1 DEF Order
<1>6. /\ DOMAIN levels' = Side
      /\ \A side \in Side : Prices(levels', side) = Prices(levels, side)
      /\ \A side \in Side : \A q \in Prices(levels, side) :
           levels'[side][q] \in LevelData
             /\ levels'[side][q].orders = levels[side][q].orders
  <2>1. \A side \in Side : \A q \in Prices(levels, side) : levels[side][q] \in LevelData
    BY <1>1 DEF Sound, LevelsSound
  <2>2. CASE IsVisible(o)
    <3>1. levels' = [levels EXCEPT ![o.side] = [levels[o.side] EXCEPT ![p] =
                       [levels[o.side][p] EXCEPT !.volume =
                          Minus(levels[o.side][p].volume, diff)]]]
      BY <1>4, <2>2
    <3>2. LET new == [levels[o.side][p] EXCEPT !.volume =
                        Minus(levels[o.side][p].volume, diff)]
          IN  new \in LevelData /\ new.orders = levels[o.side][p].orders
      BY <1>2, <1>3 DEF LevelData
    <3> QED BY <1>2, <2>1, <3>1, <3>2 DEF Prices
  <2>3. CASE ~IsVisible(o)
    BY <1>2, <1>4, <2>1, <2>3
  <2> QED BY <2>2, <2>3
<1>7. Sound(levels', node', m_Orders')
  <2> DEFINE lw == levels'
             ne == node'
  <2>1. Sound(lw, ne, m_Orders)
    <3> HIDE DEF lw, ne
    <3> QED BY <1>1, <1>5, <1>6, VolumesSound DEF lw, ne
  <2> QED BY <1>4, <2>1
<1>8. Answer(ModifyAccepted(cmd))
  BY DEF Reduce
<1> QED BY <1>5, <1>7, <1>8, AnswerInductive

LEMMA ModifyInductive ==
  ASSUME Inductive, NEW cmd \in ModifyCommand, HandleModify(cmd)
  PROVE  Inductive'
<1>1. Idle /\ m_TradeCounter' = m_TradeCounter /\ Sound(levels, node, m_Orders)
  BY DEF HandleModify, Begin, Inductive
<1>2. DOMAIN m_Orders = DOMAIN node
  BY <1>1 DEF Sound, NodesSound
<1>3. CASE UNCHANGED book /\ \E event : Answer(event)
  <2>1. levels' = levels /\ node' = node /\ m_Orders' = m_Orders
    BY <1>3 DEF book
  <2> QED BY <1>1, <1>3, <2>1, AnswerInductive
<1>4. CASE cmd.orderID \in DOMAIN node /\ Replace(cmd, node[cmd.orderID])
  BY <1>1, <1>4, ReplaceInductive
<1>5. CASE cmd.orderID \in DOMAIN node /\ Reduce(cmd, node[cmd.orderID])
  BY <1>1, <1>5, ReduceInductive
<1> QED BY <1>2, <1>3, <1>4, <1>5 DEF HandleModify

\* The order Match executes against: the first of the best opposite level.
LEMMA TopProperties ==
  ASSUME Inductive, ~Idle, Prices(levels, Opposite(taker.side)) # {}
  PROVE  /\ taker \in Order
         /\ Opposite(taker.side) \in Side
         /\ Top \in DOMAIN node
         /\ node[Top] \in Order
         /\ node[Top].side = Opposite(taker.side)
         /\ node[Top].price = BestPrice(levels, Opposite(taker.side))
         /\ m_Orders[Top] = node[Top].price
<1> DEFINE opp  == Opposite(taker.side)
           best == BestPrice(levels, opp)
           list == levels[opp][best].orders
<1>1. taker \in Order /\ opp \in Side
  BY DEF Inductive, Order, Opposite, Side
<1>2. LevelsSound(levels) /\ LinksSound(levels, node) /\ NodesSound(node, m_Orders)
  BY DEF Inductive, Sound
<1>3. best \in Prices(levels, opp)
  BY <1>1, <1>2, BestPriceIsBest
<1>4. levels[opp][best] \in LevelData /\ list # <<>>
  BY <1>1, <1>2, <1>3 DEF LevelsSound
<1>5. list \in Seq(OrderID) /\ list # <<>>
  BY <1>4 DEF LevelData
<1>6. 1 \in DOMAIN list /\ Top = list[1]
  <2> DEFINE l == list
  <2>1. Top = Head(l)
    BY DEF Top
  <2> HIDE DEF l
  <2> QED BY <1>5, <2>1, EmptySeq, LenProperties DEF l
<1>7. LET id == list[1]
      IN  id \in DOMAIN node /\ node[id].side = opp /\ node[id].price = best
  <2> DEFINE l == list
  <2>1. \A k \in DOMAIN l : l[k] \in DOMAIN node /\ node[l[k]].side = opp
                             /\ node[l[k]].price = best
    BY <1>1, <1>2, <1>3 DEF LinksSound
  <2> HIDE DEF l
  <2> QED BY ONLY <1>6, <2>1 DEF l
<1> QED BY <1>1, <1>2, <1>6, <1>7 DEF NodesSound

\* RecordFill finds the level it looks for, and takes the fill off its volume.
LEMMA FillLevelProperties ==
  ASSUME NEW lv, LevelsSound(lv), NEW side \in Side, NEW p \in Prices(lv, side),
         NEW quantity \in Quantity
  PROVE  LET lw == FillLevel(lv, side, p, quantity)
         IN  /\ DOMAIN lw = Side
             /\ \A s \in Side : Prices(lw, s) = Prices(lv, s)
             /\ \A s \in Side : \A q \in Prices(lv, s) :
                  lw[s][q] \in LevelData /\ lw[s][q].orders = lv[s][q].orders
<1> DEFINE level == [lv[side][p] EXCEPT !.volume = Minus(@, quantity)]
           lw    == FillLevel(lv, side, p, quantity)
<1>1. /\ DOMAIN lv = Side
      /\ \A s \in Side : \A q \in Prices(lv, s) : lv[s][q] \in LevelData
      /\ lv[side][p].orders # <<>>
  BY DEF LevelsSound
<1>2. level \in LevelData /\ level.orders = lv[side][p].orders
  BY <1>1, QuantityArithmetic DEF LevelData
<1>3. lw = SetLevel(lv, side, p, level)
  BY <1>1, <1>2 DEF FillLevel
<1> HIDE DEF level, lw
<1>4. /\ DOMAIN lw = Side
      /\ \A s \in Side \ {side} : lw[s] = lv[s]
      /\ Prices(lw, side) = Prices(lv, side) \cup {p}
      /\ lw[side][p] = level
      /\ \A q \in Prices(lv, side) \ {p} : lw[side][q] = lv[side][q]
  BY <1>1, <1>3, SetLevelProperties
<1>5. \A s \in Side : Prices(lw, s) = Prices(lv, s)
  BY <1>4 DEF Prices
<1>6. \A s \in Side : \A q \in Prices(lv, s) :
        (s = side /\ q = p) \/ lw[s][q] = lv[s][q]
  BY <1>4
<1> QED BY <1>1, <1>2, <1>4, <1>5, <1>6 DEF lw

\* Filling an order and taking the fill off its level leaves a sound book.
LEMMA FillSound ==
  ASSUME NEW lv, NEW nd, NEW index, Sound(lv, nd, index), NEW id \in DOMAIN nd,
         NEW quantity \in Quantity, nd[id].remaining - quantity \in Quantity
  PROVE  LET filled == [nd[id] EXCEPT !.remaining = @ - quantity]
         IN  /\ filled \in Order
             /\ Sound(FillLevel(lv, nd[id].side, nd[id].price, quantity),
                      [nd EXCEPT ![id] = filled], index)
<1> DEFINE top    == nd[id]
           filled == [top EXCEPT !.remaining = @ - quantity]
           lw     == FillLevel(lv, top.side, top.price, quantity)
           ne     == [nd EXCEPT ![id] = filled]
<1>1. /\ top \in Order /\ top.side \in Side /\ LevelsSound(lv)
      /\ top.price \in Prices(lv, top.side)
  BY DEF Sound, NodesSound, LinksSound, Order
<1>2. /\ filled \in Order /\ filled.orderID = top.orderID
      /\ filled.side = top.side /\ filled.price = top.price
  BY <1>1 DEF Order
<1>3. /\ DOMAIN ne = DOMAIN nd
      /\ \A x \in DOMAIN nd :
           /\ ne[x] \in Order /\ ne[x].orderID = nd[x].orderID
           /\ ne[x].side = nd[x].side /\ ne[x].price = nd[x].price
  <2>1. \A x \in DOMAIN nd : nd[x] \in Order
    BY DEF Sound, NodesSound
  <2> HIDE DEF filled
  <2> QED BY <1>2, <2>1
<1>4. /\ DOMAIN lw = Side
      /\ \A s \in Side : Prices(lw, s) = Prices(lv, s)
      /\ \A s \in Side : \A q \in Prices(lv, s) :
           lw[s][q] \in LevelData /\ lw[s][q].orders = lv[s][q].orders
  BY <1>1, FillLevelProperties
<1>5. Sound(lw, ne, index)
  <2> HIDE DEF lw, ne, filled, top
  <2> QED BY <1>3, <1>4, VolumesSound
<1> QED BY <1>2, <1>5

LEMMA MatchInductive ==
  ASSUME Inductive, Match
  PROVE  Inductive'
<1> DEFINE id       == Top
           top      == node[id]
           quantity == IF taker.remaining <= top.remaining THEN taker.remaining
                                                           ELSE top.remaining
           filled   == [top EXCEPT !.remaining = @ - quantity]
           lv       == FillLevel(levels, top.side, top.price, quantity)
           nd       == [node EXCEPT ![id] = filled]
<1>1. ~Idle /\ Prices(levels, Opposite(taker.side)) # {}
  BY DEF Match, CanMatch
<1>2. /\ taker \in Order /\ top \in Order /\ id \in DOMAIN node
      /\ top.side \in Side /\ m_Orders[id] = top.price
  BY <1>1, TopProperties
<1>3. Sound(levels, node, m_Orders) /\ LevelsSound(levels)
      /\ top.price \in Prices(levels, top.side)
  BY <1>2 DEF Inductive, Sound, LinksSound
<1>4. /\ quantity \in Quantity
      /\ taker.remaining - quantity \in Quantity
      /\ top.remaining - quantity \in Quantity
  <2>1. taker.remaining \in Quantity /\ top.remaining \in Quantity
    BY <1>2 DEF Order
  <2>2. \A a, b \in Quantity : a <= b => b - a \in Quantity /\ a - a \in Quantity
    BY ConstantsAssumption DEF Quantity
  <2>3. \A a, b \in Quantity : ~(a <= b) => a - b \in Quantity /\ b - b \in Quantity
    BY ConstantsAssumption DEF Quantity
  <2> QED BY <2>1, <2>2, <2>3
<1>5. /\ taker' = [taker EXCEPT !.remaining = @ - quantity]
      /\ RecordTrade(TradeOf(top, quantity))
      /\ IF filled.remaining = 0
         THEN /\ levels' = Unlink(lv, id, filled)
              /\ node' = Without(node, id)
              /\ m_Orders' = Without(m_Orders, id)
         ELSE /\ levels' = lv
              /\ node' = [node EXCEPT ![id] = filled]
              /\ UNCHANGED m_Orders
      /\ UNCHANGED <<m_OrderCounter, handling, reply>>
  <2>1. id \in DOMAIN m_Orders
    BY <1>2, <1>3 DEF Sound, NodesSound
  <2> HIDE DEF id
  <2>2. id = Top
    BY DEF id
  <2> QED BY <2>1, <2>2 DEF Match
<1> HIDE DEF quantity
<1>6. DOMAIN nd = DOMAIN node /\ nd[id] = filled
  BY <1>2
<1>7. Sound(lv, nd, m_Orders)
  BY <1>2, <1>3, <1>4, FillSound
<1>8. Sound(levels', node', m_Orders') /\ DOMAIN node' \subseteq DOMAIN node
  <2>1. CASE filled.remaining = 0
    <3>1. Sound(Unlink(lv, id, nd[id]), Without(nd, id), Without(m_Orders, id))
      <4> HIDE DEF lv, nd, filled, top, id
      <4> QED BY <1>2, <1>6, <1>7, UnlinkSound
    <3>2. Without(nd, id) = Without(node, id)
      BY DEF Without
    <3>3. DOMAIN Without(node, id) \subseteq DOMAIN node
      BY DEF Without
    <3> HIDE DEF lv, nd, filled, top, id
    <3> QED BY <1>5, <1>6, <2>1, <3>1, <3>2, <3>3
  <2>2. CASE filled.remaining # 0
    <3>1. levels' = lv /\ node' = nd /\ m_Orders' = m_Orders
      BY <1>5, <2>2
    <3> HIDE DEF lv, nd, filled, top, id
    <3> QED BY <1>6, <1>7, <3>1
  <2> QED BY <2>1, <2>2
<1>9. taker' \in Order /\ taker'.orderID = taker.orderID
  BY <1>2, <1>4, <1>5 DEF Order
<1>10. m_TradeCounter' \in Nat \ {0}
  BY <1>5 DEF Inductive, RecordTrade
<1> HIDE DEF lv, nd, filled, top, id
<1>11. NewestIsTaker' /\ Idle' = Idle
  BY <1>1, <1>5, <1>8, <1>9 DEF Inductive, NewestIsTaker, Idle
<1> QED BY <1>1, <1>5, <1>8, <1>9, <1>10, <1>11 DEF Inductive

LEMMA CompleteInductive ==
  ASSUME Inductive, Complete
  PROVE  Inductive'
<1>1. /\ ~Idle /\ ~CanMatch
      /\ handling' = NoCommand /\ taker' = NoOrder
      /\ m_OrderCounter' = m_OrderCounter /\ m_TradeCounter' = m_TradeCounter
  BY DEF Complete
<1>2. /\ Sound(levels, node, m_Orders) /\ taker \in Order
      /\ m_OrderCounter \in Nat \ {0}
      /\ taker.orderID = m_OrderCounter - 1
      /\ taker.orderID \notin DOMAIN node
      /\ \A x \in DOMAIN node : x \in Nat /\ x < m_OrderCounter
  BY <1>1 DEF Inductive, NewestIsTaker, Sound, NodesSound, OrderID
<1>3. Idle' /\ NoCommand \in CommandPayload
  BY <1>1 DEF Idle, CommandPayload
<1>4. \A x \in DOMAIN node : x < taker.orderID
  BY <1>2
<1>5. Sound(levels', node', m_Orders') /\ \A x \in DOMAIN node' : x < m_OrderCounter
  <2>1. CASE Rests
    <3>1. taker.remaining > 0 /\ taker.order_type # "Market"
      BY <2>1 DEF Rests
    <3>2. \A q \in Prices(levels, Opposite(taker.side)) :
            IF taker.side = "Buy" THEN taker.price < q ELSE q < taker.price
      <4> DEFINE opp == Opposite(taker.side)
                 best == BestPrice(levels, opp)
      <4>1. CASE Prices(levels, opp) = {}
        BY <4>1
      <4>2. CASE Prices(levels, opp) # {}
        <5>1. node[Top].price = best /\ opp \in Side
          BY <1>1, <4>2, TopProperties
        <5>2. ~Crosses(taker, best)
          BY <1>1, <3>1, <4>2, <5>1 DEF CanMatch
        <5>3. LevelsSound(levels)
          BY <1>2 DEF Sound
        <5>4. /\ best \in Prices(levels, opp)
              /\ \A q \in Prices(levels, opp) : q = best \/ Better(opp, best, q)
          BY <4>2, <5>1, <5>3, BestPriceIsBest
        <5>5. \A q \in Prices(levels, opp) : q \in Int
          BY <5>1, <5>3, ConstantsAssumption DEF LevelsSound, Price
        <5>6. taker.price \in Int /\ taker.side \in {"Buy", "Sell"}
          BY <1>2, ConstantsAssumption DEF Order, Price, Side
        <5> HIDE DEF best
        <5>7. CASE taker.side = "Buy"
          <6>1. opp = "Sell" /\ ~(taker.price >= best)
            BY <3>1, <5>2, <5>7 DEF Crosses, Opposite
          <6>2. \A q \in Prices(levels, opp) : q = best \/ best < q
            BY <5>4, <6>1 DEF Better
          <6> HIDE DEF opp
          <6>3. \A q \in Prices(levels, opp) : taker.price < q
            BY <5>4, <5>5, <5>6, <6>1, <6>2
          <6> QED BY <5>7, <6>3 DEF opp
        <5>8. CASE taker.side = "Sell"
          <6>1. opp = "Buy" /\ ~(taker.price <= best)
            BY <3>1, <5>2, <5>8 DEF Crosses, Opposite
          <6>2. \A q \in Prices(levels, opp) : q = best \/ best > q
            BY <5>4, <6>1 DEF Better
          <6> HIDE DEF opp
          <6>3. \A q \in Prices(levels, opp) : q < taker.price
            BY <5>4, <5>5, <5>6, <6>1, <6>2
          <6> QED BY <5>8, <6>3 DEF opp
        <5> QED BY <5>6, <5>7, <5>8
      <4> QED BY <4>1, <4>2
    <3>3. /\ levels' = Link(levels, taker)
          /\ node' = [i \in DOMAIN node \cup {taker.orderID} |->
                        IF i = taker.orderID THEN taker ELSE node[i]]
          /\ m_Orders' = [i \in DOMAIN m_Orders \cup {taker.orderID} |->
                            IF i = taker.orderID THEN taker.price ELSE m_Orders[i]]
      BY <2>1 DEF Complete
    <3>4. Sound(levels', node', m_Orders')
      BY <1>2, <1>4, <3>2, <3>3, LinkSound
    <3>5. \A x \in DOMAIN node' : x \in DOMAIN node \/ x = m_OrderCounter - 1
      BY <1>2, <3>3
    <3> QED BY <1>2, <3>4, <3>5
  <2>2. CASE ~Rests
    <3>1. levels' = levels /\ node' = node /\ m_Orders' = m_Orders
      BY <2>2 DEF Complete, book
    <3> QED BY <1>2, <3>1
  <2> QED BY <2>1, <2>2
<1>6. NewestIsTaker'
  BY <1>1, <1>3, <1>5 DEF NewestIsTaker
<1> QED BY <1>1, <1>3, <1>5, <1>6 DEF Inductive

LEMMA NoneInductive ==
  ASSUME Inductive, NEW cmd, HandleNone(cmd)
  PROVE  Inductive'
<1>1. /\ Idle /\ Answer(NoEvent) /\ m_TradeCounter' = m_TradeCounter
      /\ levels' = levels /\ node' = node /\ m_Orders' = m_Orders
  BY DEF HandleNone, Begin, book
<1>2. Sound(levels', node', m_Orders') /\ DOMAIN node' \subseteq DOMAIN node
  BY <1>1 DEF Inductive
<1> QED BY <1>1, <1>2, AnswerInductive

\* Every step of the book, or of something else, preserves the invariant.
LEMMA NextInductive == Inductive /\ [Next]_vars => Inductive'
<1> SUFFICES ASSUME Inductive, [Next]_vars PROVE Inductive'
  OBVIOUS
<1>1. CASE \E cmd \in Commands : Apply(cmd)
  <2>1. PICK cmd \in Commands : Apply(cmd)
    BY <1>1
  <2>2. cmd \in CommandPayload
    BY ConstantsAssumption
  <2>3. CASE cmd \in AddCommand
    <3>1. cmd.type = "Add"
      BY <2>3 DEF AddCommand
    <3> QED BY <2>1, <2>3, <3>1, AddInductive DEF Apply
  <2>4. CASE cmd \in ModifyCommand
    <3>1. cmd.type = "Modify"
      BY <2>4 DEF ModifyCommand
    <3> QED BY <2>1, <2>4, <3>1, ModifyInductive DEF Apply
  <2>5. CASE cmd \in CancelCommand
    <3>1. cmd.type = "Cancel"
      BY <2>5 DEF CancelCommand
    <3> QED BY <2>1, <2>5, <3>1, CancelInductive DEF Apply
  <2>6. CASE cmd = NoCommand
    <3>1. cmd.type = "None"
      BY <2>6 DEF NoCommand
    <3> QED BY <2>1, <3>1, NoneInductive DEF Apply
  <2> QED BY <2>2, <2>3, <2>4, <2>5, <2>6 DEF CommandPayload
<1>2. CASE Match
  BY <1>2, MatchInductive
<1>3. CASE Complete
  BY <1>3, CompleteInductive
<1>4. CASE UNCHANGED vars
  <2>1. /\ levels' = levels /\ node' = node /\ m_Orders' = m_Orders
        /\ m_OrderCounter' = m_OrderCounter /\ m_TradeCounter' = m_TradeCounter
        /\ handling' = handling /\ taker' = taker
    BY <1>4 DEF vars
  <2>2. Idle' = Idle /\ NewestIsTaker' = NewestIsTaker
    BY <2>1 DEF Idle, NewestIsTaker
  <2> QED BY <2>1, <2>2 DEF Inductive
<1> QED BY <1>1, <1>2, <1>3, <1>4 DEF Next

\* The inductive invariant holds of every reachable state: lists, levels,
\* index and orders agree at every step of every handler.
THEOREM InductiveInvariant == Spec => []Inductive
<1>1. Init => Inductive
  BY InitInductive
<1>2. Inductive /\ [Next]_vars => Inductive'
  BY NextInductive
<1> QED BY <1>1, <1>2, PTL DEF Spec

\* Every variable keeps its type: in particular no volume and no quantity
\* leaves the range of Quantity, and the taker exists exactly while a command
\* is handled.
THEOREM TypeCorrect == Spec => []TypeOK
<1>1. Inductive => TypeOK
  <2> SUFFICES ASSUME Inductive PROVE TypeOK
    OBVIOUS
  <2>1. /\ DOMAIN levels = Side
        /\ \A side \in Side : \A p \in Prices(levels, side) :
             p \in Price /\ levels[side][p] \in LevelData
    BY DEF Inductive, Sound, LevelsSound
  <2>2. /\ DOMAIN m_Orders = DOMAIN node
        /\ \A id \in DOMAIN node :
             id \in OrderID /\ node[id] \in Order /\ m_Orders[id] = node[id].price
    BY DEF Inductive, Sound, NodesSound
  <2>3. \A id \in DOMAIN m_Orders : m_Orders[id] \in Price
    BY <2>2 DEF Order
  <2>4. /\ m_OrderCounter \in Nat \ {0} /\ m_TradeCounter \in Nat \ {0}
        /\ handling \in CommandPayload
        /\ IF Idle THEN taker = NoOrder ELSE taker \in Order
    BY DEF Inductive
  <2> QED BY <2>1, <2>2, <2>3, <2>4 DEF TypeOK
<1> QED BY <1>1, InductiveInvariant, PTL

\* No handler leaves a dangling index entry, an unindexed order, an order in
\* the wrong level, or an empty level behind (OrderEntry, OrderBook.hpp).
THEOREM IndexCorrect == Spec => []IndexConsistent
<1>1. Inductive => IndexConsistent
  BY DEF Inductive, Sound, LevelsSound, NodesSound, LinksSound, Listed,
         IndexConsistent
<1> QED BY <1>1, InductiveInvariant, PTL

\* The list of every level stays in order of acceptance, strictly: time
\* priority is the list order (README, "Time priority").
THEOREM TimeOrderCorrect == Spec => []TimeOrdered
<1>1. Inductive => TimeOrdered
  BY DEF Inductive, Sound, LevelsSound, TimeOrdered
<1> QED BY <1>1, InductiveInvariant, PTL

\* No bid ever meets an ask, not even between two executions or after a modify
\* refused half way (PriceTimePriority::Match, Matching.cpp).
THEOREM NeverCrossed == Spec => []Uncrossed
<1>1. Inductive => Uncrossed
  BY DEF Inductive, Sound, LevelsSound, Uncrossed
<1> QED BY <1>1, InductiveInvariant, PTL

\* The order being matched is newer than every order on the book, and is not
\* on the book itself (InternalAddOrder, OrderBook.inl).
THEOREM TakerCorrect == Spec => []NewestIsTaker
<1>1. Inductive => NewestIsTaker
  BY DEF Inductive
<1> QED BY <1>1, InductiveInvariant, PTL
=============================================================================

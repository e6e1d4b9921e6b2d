# Verification of the Hermes order book

TLA+ models of the program under `src/`, the TLC runs that check them on small
instances, and proofs, checked by TLAPS, that hold for every instance. Line
numbers refer to the sources under `src/src/`; `PROJECT.json` maps every
definition to the lines it models.

## The system

Hermes is a limit order book with a price-time-priority matching algorithm, an
engine thread that feeds it commands from a queue, a depth snapshot for a
terminal view, an audit thread with journal files that nothing starts yet, and
wrappers for TCP sockets that only two demo programs use.

| Component | State | Operations | Status |
|---|---|---|---|
| Order book (`Engine/OrderBook.*`, `Core/Order.hpp`) | two ordered maps of price levels, each a volume and a list of orders; an index from order id to the order's list node and level; counters of orders, trades and stored events | `Apply` of an add, modify or cancel; `RecordFill`, called back by the matching; read-only queries | modelled |
| Matching (`Matching/Matching.cpp`) | none | `Match`: execute an order against the best opposite orders | modelled, as steps of the book |
| Event scratch array (`OrderBook.hpp:16-18`) | an array of 128 events per thread and translation unit, a counter in the book | `RecordFill` and `Handle` store, `Apply` returns a span | modelled |
| Commands, events, trades (`Core/Commands.hpp`, `Events.hpp`, `Trade.hpp`, `globals.hpp`) | tagged unions of plain fields | factories, byte copies | partly: records and sets |
| Trading engine (`Engine/TradingEngine.hpp`, `main.cpp`) | command queue, unused event queue, two snapshots and a pointer to the active one, a jthread | `AddOrder`, `ModifyOrder`, `CancelOrder`, `Start`, `Stop`, `UpdateSnapshot`, `GetSnapshot`, the loop `Run` | modelled but for a second `Start` and the unused event queue |
| Thread-safe queue (`Data-Structures/ThreadSafeQueue.hpp`) | queue, mutex, condition variable, closed flag | `push`, `try_pop`, `wait_and_pop`, `close`; `is_closed`, `empty`, `size` only read | modelled |
| SPSC queue (`Data-Structures/SPSC-Queue.hpp`) | ring, head, tail, a cached copy of each | `push`, `pop` | modelled |
| Audit and journals (`Engine/Audit.hpp`, `Core/FileStream.hpp`) | queue, four buffered files, a jthread | `Enqueue`, `Start`, `Stop`, `FlushAll`, the loop `Run`; `WriteToBuffer`, `WriteBufferToFile` | modelled |
| Renderer, logging, sockets, demos, MPSC queue | - | - | not modelled, see below |

How they interact: `main` pushes commands into the engine's queue; the engine
thread pops each and calls `OrderBook::Apply`. For an add, and for a modify that
changes the price or asks for more, the book calls `PriceTimePriority::Match`
with the order on its stack; `Match` calls the book back, twice per execution:
`RecordFill` and, when the resting order is filled, `InternalCancelOrder`, which
frees the very node `Match` holds a pointer to. `Apply` returns a span of the
scratch array. The thread of `main` walks the maps of the book to make a
snapshot while the engine thread changes them. The audit thread waits on a
thread-safe queue, sorts what it pops into four buffers and now and then writes
these to four files; no other part of the program creates an `Audit`. The engine
holds an SPSC queue of events that nothing is pushed to.

What is hard about it, and so what the properties are about (every hazard is
listed with its line in `PROJECT.json`):

- three places erase an order, and each must erase its node, its index entry
  and, with the last order, its level, or dangling iterators stay behind;
- time priority is implicit in the order of the lists;
- the volume of a level is a cached, unsigned sum, kept up to date by four
  pieces of code and trusted by the Fill-or-Kill check;
- a modify is a cancel and then an add that may be refused;
- the loop's progress depends on a cancel whose result is ignored;
- the scratch array has a bound that one of its two writers does not check, and
  there is more than one of it;
- the stop request meets the engine thread anywhere, between two loops that pop
  from the same queue;
- the depth view is copied from a book that changes meanwhile, and the copy is
  handed to a viewer without a lock;
- the thread-safe queue notifies after it has released the mutex, so that a
  notification may come late, or go to someone who finds nothing;
- producer and consumer of the SPSC queue see each other's index late, and trust
  a copy that is later still;
- the audit thread stops on a token that wakes nobody, and the results of its
  writes are ignored, so that what the four files hold after an error or a
  crash depends on the order of every step.

## Modules

| Module | Content |
|---|---|
| `PriceTimeBook` | What the book promises: a set of resting orders and at most one incoming order that executes in price-time priority, then rests or disappears. No levels, lists, index, volumes, error codes |
| `OrderBook` | The book and the matching as coded, with its properties and the refinement to `PriceTimeBook` |
| `MCOrderBook` | The sets of commands that the TLC runs offer to `OrderBook` |
| `EventScratch` | The scratch array: what is stored where, and which span the caller gets |
| `TradingEngine` | Clients, the engine thread, main and a viewer around the command queue, the book and the two snapshots |
| `FifoQueue` | What a queue promises: first in, first out, bounded, closed at some point. `ThreadSafeQueue` and `SPSCQueue` are shown to implement it |
| `ThreadSafeQueue` | The queue with its mutex, condition variable and `close` |
| `SPSCQueue` | The ring without a lock |
| `AuditLog` | The audit thread and its journals, composed with an instance of `ThreadSafeQueue` |
| `CommonLemmas` | Lemmas about increasing and numbered sequences, least and greatest elements, sums over finite sets, and remainders |
| `OrderBookProofs` | The inductive invariant of `OrderBook`, and what follows from it alone |
| `OrderBookPromises` | What `OrderBook` promises its clients: priority, ownership, kinds of orders, the refinement of `PriceTimeBook`, trades, volumes, Fill-or-Kill |
| `EventScratchProofs` | Proofs about `EventScratch` |
| `TradingEngineProofs` | Proofs about `TradingEngine` |
| `ThreadSafeQueueProofs`, `SPSCQueueProofs`, `AuditLogProofs` | Proofs about these three |

### OrderBook

| Code | Model |
|---|---|
| `m_Bids`, `m_Asks` | `levels["Buy"]`, `levels["Sell"]`: functions on the prices that have a level |
| `std::list<Order>` of a level | a sequence of order ids; the nodes are `node[id]` |
| `m_Orders[id]` = `{list_it, level_it}` | `m_Orders[id]`, the price of the level; the id itself names the node |
| `order` on the stack of `InternalAddOrder` | `taker` |
| the handler being executed | `handling` |
| the `Trade` events of the command | `trades` |
| the last event of the command | `reply` |
| `Quantity`, a 64-bit unsigned integer | `0 .. QuantityModulus - 1`, with sums and differences modulo it |

`Apply(cmd)` is the part of a handler before the matching loop: pre-checks,
the creation of the order and, for a modify, the cancel that precedes them. A
handler that does not match is finished by it. `Match` is one iteration of the
loop, with `RecordFill` and the cancel of a filled order; `Complete` is all that
follows the loop. The loop ignores what its cancel answers: should the index not have
the order, `Match` leaves it on top with nothing left, and `CommandEnds` would fail;
that this does not happen is a consequence of `IndexConsistent`. The two branches of the code for the two sides are one
definition with the side as a parameter. Cutting the loop into iterations lets
every property be checked between two executions too.

Left out: timestamps (`Order` has one that nothing reads, `Trade` never sets
its own), the initial quantity, execution instructions (never set), the memory
pools (an exhausted pool ends the program in a `noexcept` function), the market
state and the expiry list (never used).

`MaxOrderID` bounds the model: no order gets a greater id. `Commands` is the
set of commands clients send. Every other constant is the code's own.

### EventScratch

`t_EventScratch` is `inline static thread_local` in a header: `static` gives it
internal linkage, so each translation unit has an array. `RecordFill` is
instantiated where it is called, in `Matching.cpp`; `Apply` and `Handle` where
`Apply` is called, in `main.cpp`. The model has an array for either unit, one
shared counter, and one cell `beyond` for index 128. Storing there and reading it
back is undefined in C++; that the cell keeps the outcome is the mildest that can
happen. The book is abstracted to "a command makes any number of fills"; a payload
of type `None` is not handled, and its span is empty (`HasReturned` tells the spans
that are not). `MaxFills` and `MaxCommands` are bounds of the model, and `Finished`
stutters when the commands are used up.

### TradingEngine

| Code | Model |
|---|---|
| `m_CommandQueue` | a sequence of commands; a command is its number in the order of the pushes |
| the book | `applied`, the commands that `Apply` has returned for |
| where `Run` is | `engine`: `CheckStop`, `Pop`, `ApplyReturns`, `Wake` for the main loop, `DrainPop`, `DrainApplyReturns` for the one behind it |
| the stop token | `stop_requested` |
| `m_Snapshots`, `m_ActiveSnapshot` | two pairs of versions and an index |
| where `UpdateSnapshot` is | `main`, with `snapshot` for the copy `OrderBook::GetSnapshot` is making |
| `GetSnapshot` | `LoadActive`, `ActiveCopied`, with `shown` for the newest it knows of either side |

`push` and `try_pop` hold the mutex from their first access to their last and
are one step each. `Apply` and the copy loops hold nothing and are stretches
between two steps. A side of a snapshot is the number of commands that were
applied to the book it was copied from, or `Torn` when the book changed while it
was copied: a data race is undefined, so `Torn` stands for any content. A copy
by the viewer that overlaps with the assignment of the same snapshot is torn as
a whole. The acquiring load of the pointer may return an older one than the newest,
though none older than the same thread has had before, which is all that coherence
promises: `behind` is the number of publications since the one it returned. One
that is two or more behind has been assigned again without the load knowing, and its
copy is torn, so that counting stops at two (`MostBehind`). A torn copy tells the
viewer nothing, and `shown` keeps what it knew. `main.cpp` has one thread that pushes, updates and views; the class is
written for several (a queue with a mutex, an acquiring load of the active
pointer), so clients, main and viewer move independently here, which includes
what `main.cpp` does. `accepted` and `acceptedAtStop` are history variables,
`MaxCommands` bounds the model, `Ended` stutters after the end of the process.
The engine is not used after its destructor, and started once.

### ThreadSafeQueue

| Code | Model |
|---|---|
| `m_Queue`, `m_Closed` | the same; an item is its number in the order of acceptance |
| `push`, `close` under the mutex | `Push`, `Close` |
| ... and behind it, `notify_one`, `notify_all` | `NotifyOne`, `NotifyAll`; `notifying` and `closing` tell who has yet to notify |
| `m_CV` | `asleep`, the threads that wait, and `woken`, those that were woken and do not have the mutex yet |
| `wait_and_pop` | `WaitAndPopTrue`, `WaitAndPopFalse`, `WaitAndPopSleep`: what one hold of the mutex ends in, at the start or after a wake-up |
| `try_pop` | `TryPop` |

`std::condition_variable` releases the mutex and falls asleep at once, wakes some
sleeper or all, and may wake for no reason (`SpuriousWakeUp`). `Close` may be
called again, also by a second thread after the first is through. `accepted` and
`delivered` are history variables; `MaxPushes` bounds the items.

### SPSCQueue

| Code | Model |
|---|---|
| `m_Buffer`, `m_Head`, `m_Tail` | the same |
| the cached copies | `m_TailCache`, `m_HeadCache` |
| `push` | `PushFindsRoom` or `PushFindsFull` up to the (acquire) load, then `PushWrites`, then `PushStores`; `producer` tells where it is |
| `pop` | `PopFindsItem` or `PopFindsEmpty`, then `PopReads`, then `PopStores`; `consumer` tells where it is |
| `& BitMask` | `% Size`, which the code requires to be a power of two |

An atomic load returns any value that the index has had since the thread last
loaded it (`tailSeen`, `headSeen` count the stores it has seen): the weakest that
coherence allows. Release and acquire make the slot visible with the index, which
is why a slot itself is read as it is; `NoSlotRace` checks that nobody is in it
when it is written. `Size = 1` is allowed and is a queue that is always full.
`MaxPushes` bounds the items; the indices go around as often as it says.

### AuditLog

| Code | Model |
|---|---|
| `m_Queue` | an instance of `ThreadSafeQueue` whose one consumer is the audit thread |
| an entry | its number in the order of acceptance; `log[n]` is the journal it is for |
| `Enqueue` | `Enqueue`, `EnqueueReturns`: `push` and its notification |
| the buffer of a stream, its file, its error bits | `m_Buffer`, `file`, `good` |
| `WriteToBuffer` | `WriteToBuffer`, in `Log` |
| `WriteBufferToFile` | `WriteBufferToFile` |
| where `Run` is | `thread`: `check` the token, `pop`, `flush` in the loop, `lastFlush` behind it, `done` |
| `FlushAll` | `FlushStep`, once for each stream in `FlushOrder` |
| `Stop`, which the destructor calls | `StopCloses`, `StopNotifies`, `StopRequests`, `StopJoins` |

A disk may refuse at any write. `write` then sets the error bit, keeps the buffer
and may have put a part of it into the file; `flush` may fail as well when the
buffer has been cleared already. Nothing clears the bit and nobody looks at the
answer of `WriteBufferToFile`. An entry counts as in the file when all of it is.
`AuditBookSnapshot::Serialize` writes nothing, so that the journal of snapshots
stays empty. An entry without content (`monostate`) leaves nothing anywhere and is
left out, as is time: the interval may be found over after any entry. The owner
may start the thread again after a stop; the queue stays closed, what was left in
it is written then, and `Enqueue` is refused without a word. The properties hold
at every step, and so for what a crash of the process leaves in the files. Left
out is what lies before the first step and behind the last: the constructor
truncates the four files of an earlier process, or throws if their folder is
missing, and the destructor of a stream may write what its `ofstream` still holds.
`std::jthread(&Audit::Run, this)` compiles only with a library that passes the
stop token to member functions too; the model takes it that it does.

## Runs

| Run | States | What it shows |
|---|---|---|
| `plain` | 34,484 | For visible orders that are not reduced in place (limit GTC and FOK, PostOnly, market IOC, cancels and modifies by two clients): executions follow price-time priority, level volumes equal what the orders have left, modulo the width of `Quantity`, FOK is all or nothing, trades account for fills |
| `all` | 168,615 | All kinds of commands and replies, with hidden and GTD orders, market GTC, other match types, in-place reductions, modifies to 0: the book implements `PriceTimeBook`, step by step and with its liveness, and every command ends; the lists, index and nodes agree, the book is never crossed, PostOnly limit orders never take, only owners and executions touch an order, and a refused modify leaves the book alone except for PostOnly. The inductive invariant of the proofs |
| `scratch` | 318 | The returned span ends with the outcome of its command, every fill that finds a slot is stored once and in turn, trade ids are unique, the overrun needs a full array |
| `engine` | 416,708 | Every accepted command is applied once and in order; a stop drains what was accepted before it and ends the thread; the double buffer overlaps only copies that are out of date; what the viewer is shown never goes back, however many torn copies it gets in between |
| `queue` | 2,796 | No wake-up is lost, what `push` accepts is delivered while consumers wait, `close` releases everyone who waits, and the queue implements `FifoQueue` |
| `spsc` | 784 | Producer and consumer are never in the same slot, every item gets through, and the ring implements `FifoQueue` with `Size - 1` places |
| `audit` | 174,811 | Journals have no gaps whatever the disk does, nothing that was popped is missing while its stream is good, causes are on disk before effects, only a stop leaves entries behind, and `Stop` returns |
| `kill_or_fill`, `negative_volume`, `new_order_id`, `snapshot_race`, `trades_returned` | | Each finds one statement of the repository violated: see below |

Bounds. Two prices are enough for a better and a worse level on either side and
for every outcome of a price comparison; three orders for two makers (at one
level or two) and a taker, or for an order with a neighbour before and behind
it; two clients for an owner and another; two sizes for a partial execution of
either side. In `all` the rarer kinds of orders come from one side and at one price,
since the code has the same lines for either side; the common ones come from both
sides and at both prices. `QuantityModulus` is 4 in the passing runs, so that volumes do wrap
around there, and 16 in the violation runs, so that the violations are seen not
to need a wrap of an honest sum. `MaxEventsPerCommand` is 1 or 3, so that in
`all` the array is full after one trade, and in `plain` it has
room for the trades of most commands. One array of 3 slots with up to 4 fills
of 3 commands has a command with fewer, as many, and more fills than slots,
before and after one another, and some that are not handled in between.

In `engine` three commands are enough for one applied, one in hand and one
queued, for a stop request before, between and after them, and for three
different versions in the two snapshots and the view; updates and views are
unbounded.

In `queue` two producers can overtake each other between unlock and
notification, and three consumers can be awake, asleep and woken at the same
time; four items are one more than the consumers, so that some are always left
for a second round. `spsc` has four slots, the least with a stale copy that is
neither up to date nor a whole round behind, and 13 items go around three times.
In `audit` three entries put one into each journal that keeps any, or two or
three into the same one; one producer is enough, as entries go through one queue
and `queue` has the races of producers. The disk may fail at each write, and the
thread may be stopped and started again without bound.

Fairness. `OrderBook!Spec` has weak fairness of `Match \/ Complete`: the engine
thread, once in a handler, runs it to its end, for there is no lock, wait or
other blocking call in it. Nothing is assumed of clients. `PriceTimeBook` asks
for the same of an incoming order. `TradingEngine!Spec` has weak fairness of
`Run`: the engine thread is scheduled, `sleep_for` returns, `Apply` ends
(`CommandEnds`), and the mutex of the queue is only ever held for the length of
a push or a pop. Nothing is assumed of clients, main and viewer. That the
clients push finitely many commands is the bound, and needed: the inner loop
and the drain look at no stop token, and clients that keep pushing can keep
the thread alive for ever.

`ThreadSafeQueue!Spec` has weak fairness of each pending notification, for a
thread in `push` or `close` comes to its end, and of each consumer's
`wait_and_pop`: the property is about consumers that keep calling it. A spurious
wake-up is never counted on. `SPSCQueue!Spec` has weak fairness of the steps of
both threads, which call again when the answer was false, and of a load that
sees a change: a store becomes visible in finite time, and the load is repeated.
`AuditLog!Spec` has weak fairness of the audit thread and of threads inside
`Enqueue` and `Stop`; nothing is assumed of anyone who has not called.

Each property of a passing run has a mutant in `PROJECT.json`: a definition of
the model replaced by one with a plausible bug (`Mutant of ...` in the modules),
for which TLC finds that property violated.

### What the code does otherwise than it says

- **Fill-or-Kill orders can be filled in part** (`kill_or_fill`).
  `UpdateQuantity` returns `new - old`, and the level volume is *reduced* by
  that: a modify to less makes the volume grow. An FOK request is let in on it,
  executes what there is, and drops the rest, against `globals.hpp:52-53`.
- **Level volumes wrap around** (`negative_volume`). A hidden order is not in
  the volume, but its executions are taken off it, against `README.md:21`
  ("no negative quantities").
- **A modified order's new id is told to nobody** (`new_order_id`): the answer has
  the old one in both fields (the TODO at `OrderBook.inl:318`), and the trades,
  which should name it, have client ids where order ids belong and the maker's
  side as taker side, against the declaration at `OrderBook.hpp:85-87`.
- **Trades never reach the caller** (`trades_returned`): they are in the array of
  another translation unit, and slots that earlier commands left are returned in
  their place, against `README.md:41` ("`Trade` - represents each completed
  interaction") and `README.md:20` ("identical inputs produce identical outputs").
- **The depth view is copied while the book changes** (`snapshot_race`): `main`
  walks the two maps without a lock, a data race with the engine thread, and
  publishes a view of no state of the book ("Live terminal visualization of the
  orderbook", `README.md:12`).
- **The outcome of a command with 128 fills is stored behind the array**
  (`scratch` shows that it takes 128; `Handle`, unlike `RecordFill`, does not
  look).

Some more are visible in the models and have no run of their own: a refused modify
of a PostOnly order has cancelled the order by then; a PostOnly order of another type
than Limit is not checked and does take ("Limit orders only", `OrderBook.inl:53`); a
Fill-or-Kill pre-check whose sum of volumes exceeds 64 bits kills an order that could
be filled; a fill beyond the 128th is in no trade; a modify to quantity 0 leaves an order with nothing left on the book ("fully filled orders
are removed", `README.md:21`), and orders of the kinds marked "Not supported"
(`globals.hpp:55-57`) execute first and are refused afterwards; a command pushed
behind the engine's last look at its queue stays there; `Audit::Stop`
leaves accepted entries in the queue, in no journal; the first write that a
journal's disk refuses is its last, and nobody is told; `Enqueue` after `Stop` is
dropped without a word; and the interval between flushes is looked at only when
an entry comes, so that the last entries before a quiet time stay in memory.

## Proofs

All statements hold for every set of clients and commands, every range of
prices, every width of `Quantity`, every `MaxEventsPerCommand` and every
`MaxOrderID` that satisfy `ConstantsAssumption`, every size of the scratch array
and of the ring (`ScratchAssumption`, `SPSCAssumption`), and any number of threads,
commands, items and entries (`EngineAssumption`, `QueueAssumption`,
`AuditAssumption`).

`OrderBookProofs` proves `Spec => []Inductive`, and from it `TypeOK`,
`IndexConsistent`, `TimeOrdered`, `Uncrossed` and `NewestIsTaker`. None of these
is inductive alone. `Uncrossed` is kept when an order comes to rest because the
loop stopped at a best price that does not cross, and the best price is the
best of *all* prices only in a well-formed finite map; `TimeOrdered` is kept because
the taker's id is greater than every id of the list it joins, which is
`NewestIsTaker`; removing an order from a list needs the order to be in the list
its index entry names, once, which is `IndexConsistent` and the strictness of
`TimeOrdered`. So `Inductive` is their conjunction, with the handling and the
taker, phrased over arbitrary `lv`, `nd`, `index` (`LevelsSound`, `NodesSound`,
`LinksSound`), because a modify goes through two books in one step. The argument:

1. `UnlinkSound`: erasing an order from list, index and level keeps the book
   sound; `LinkSound`: so does appending an order that is newer than all others
   and does not cross; `VolumesSound`: so does changing volumes and quantities.
2. One lemma per action (`AddInductive` ... `CompleteInductive`), each from
   these three, and `BestPriceIsBest` for the end of the loop.
3. `NextInductive` and the temporal step.

`OrderBookPromises` builds on it. The book is large and its promises are about few
of its variables, so three lemmas first say what a step does to the orders
(`MatchOrders`, `CompleteOrders`, `ApplyOrders`), and the rest uses only these.

- `PriceTimePriority`: `TopFirst` shows that the head of the list at the best
  price comes before every other order of its side, since levels are exactly the
  prices of the orders and each list is in the order of acceptance.
- `OnlyOwnerOrFill`, by cases of the command: the handlers compare the client
  with the owner before they touch the order, and only an owner's modify or
  cancel goes on.
- `PostOnlyNeverTakes`, of orders of type Limit: when matching starts, the pre-check has seen the best
  price of the other side, and `TopIsAtBestPrice` says that this is where `Top` is.
- `RefusedModifyKeepsOrder` needs one fact more, `OnlyRestingKinds`: no IOC, FOK
  or market order rests, so that the pre-check can refuse the replacement of a
  resting order only for PostOnly.
- `BookRefinesPriceTimeBook`: `Spec => Promised!Init /\ [][Promised!Next]_(Promised!vars)`,
  one lemma per action. A modify that replaces its order maps to one step, in
  which the old one leaves and the new one arrives; a modify in place, to a change
  of quantity; an execution, to that of the order with the best price and, among
  those, the least id.
- `TradesAccountForFill`: what is asked for is what is left plus the sum of the
  trades. A `RecordFill` that finds the array full ends the claim and not the
  proof, for `Len(trades)` does not go down during a command.
- `VolumeExact` is *not* an invariant of the code: an execution of a hidden order is
  taken off a volume that never counted it (run `negative_volume`), and a reduction
  in place takes `new - old` off where `old - new` left (`OrderBook.inl`). What is
  proved is that nothing else can make it wrong: `VolumesCorrect` says that it holds
  in every behaviour whose steps satisfy `VolumeSafe`, that is, execute no hidden
  order and reduce no visible order in place. The invariant `VolumesMatch` says, for every level, that the volume is
  the sum over the visible orders at that price, modulo `QuantityModulus`: additions
  and subtractions wrap around and the sum still comes out right.
- `FOKAllOrNothing` holds in the same behaviours. The pre-check adds up volumes, so
  they have to be right when it runs (`CoveredIsThere`); after that `Funded`, that the
  orders which the taker accepts have at least as much left as it wants, is kept
  by each execution, which takes the same from both sides, and at the end of the
  loop nothing acceptable is left, so nothing is wanted.
- `PlainClientsCorrect` replaces the condition on steps by one on the commands:
  clients that hide no order, and whose modifies never ask for less than any
  command asks for, keep every order visible and out of reach of a reduction in
  place (`OnlyPlainOrders`), so that all their steps are `VolumeSafe`. The commands
  of the run `plain` are of that kind.

The sums are those of `Functions` (`SumFunctionOnSet`), defined with a fold. The
lemmas about them (`SumUnfold` and what follows from it in `CommonLemmas`: one
element more or less, one value changed, the same values, disjoint parts) are
proved without the induction theorems of the library, which take an operator as a
parameter: `SmallestSubset` gives, of the subsets for which an equation fails, one
with the least cardinality, and from it a smaller one is found.

`EventScratchProofs` proves `[]ScratchInductive` and from it `OutcomeReturned`,
`TradesStored`, `TradeIDsUnique` and the action property
`OverrunOnlyWhenFull`. The invariant adds to them that during a command the
counter is the number of fills, as far as there are slots, and the trades stored so
far are in the slots before it under the last ids given, and that the ids of all
stored trades, also those that earlier commands left, are below the next one.

`TradingEngineProofs` proves `[]EngineInductive` for every number of commands,
and from it `TypeOK`, `NothingLost`, `StopDrains`, `UpdatePublished` and the action
property `OnlyStaleCopiesTorn`, for which `CopyInv` says that a copy which is not
torn is of the newest snapshot, or of the one before it while nobody assigns that
again. `StopDrains` needs that a drain only follows a
request, and that nothing is requested before main is idle; then `NothingLost`
with an empty queue and an empty hand gives the count. `ViewNeverGoesBack` needs
`ViewInv` besides: no copy is ahead of the book, the inactive snapshot is no
newer than the active one until it has been assigned, what has been shown is no
newer than the active snapshot nor, while the viewer may still load it, than the
inactive one, and the copy under way is no older than any. A torn side of a snapshot
compares with everything, so that "no older" is not transitive, and every pair that
meets later is a conjunct; `shown` itself is never torn. `CommandQueueIsFifo` shows that clients
and engine use the command queue as a `FifoQueue`: what was popped is what has
been applied and what is in the hand, and only the two calls of `try_pop` change
it. `ThreadSafeQueue` implements the same `FifoQueue`, which is what allows
`TradingEngine` to take `push` and `try_pop` as single steps.

`ThreadSafeQueueProofs` proves `[]Inductive`, `NoLostWakeUp` and the refinement
`ImplementsFifoQueue`. `NoLostWakeUp` counts: while somebody sleeps, there are no
more items than threads woken and notifications to come. A notification that
wakes someone moves one from the second number to the first, a consumer that
takes an item takes one off both sides, and a thread only falls asleep on an
empty queue. The rest of the invariant says that the queue holds exactly the
accepted and not delivered items, in order, which is also the refinement mapping.

`SPSCQueueProofs` proves `[]Inductive`, `NoSlotRace` and `ImplementsFifoQueue` for
every size. Indices say nothing by themselves, as they wrap around; the invariant
ties each, and each copy, to the number of stores behind it, and orders these
numbers: seen by the producer, stored by the consumer, seen by the consumer,
stored by the producer, at most `Size - 1` more than the first. Two numbers less
than `Size` apart with the same remainder are equal, and that is all a comparison
of indices is used for.

`AuditLogProofs` proves `[]Inductive` and from it `JournalIsPrefix`,
`PoppedIsJournaled`, `CausesFirst` and `OnlyStopDropsEntries`. Of the queue it
needs no more than its order (`QueueInOrder`). Of each journal it says what file
and buffer hold together (`Gapless`, `Pending`, `Caught`), and that a buffer is
empty once `FlushAll` has passed it (`Flushed`). `CausesFirst` needs that last
part: when the trades are written, everything popped before them has left the
buffers of commands and events, unless their streams have failed.

`AuditNeverMissesWakeUp` joins the two: each step of the audit is a step of its
`ThreadSafeQueue` or changes none of the queue's variables
(`AuditStepsAreQueueSteps`), so the lemmas of `ThreadSafeQueueProofs`, instantiated
for one consumer, hold of the queue inside the audit. In particular `Stop` never
leaves the audit thread asleep on a closed queue with no `notify_all` to come.
`AuditQueueIsFifo` follows the same way from the refinement proved of the queue
(`NextFifo`): stopped, closed and started again, it is still one `FifoQueue`.

Only model-checked: liveness (`CommandEnds`, `AcceptedIsApplied`, `StopEnds`,
`AcceptedIsDelivered`, `CloseReleases`, `AllGetThrough`, `StopReturns`, and the
fairness in `ImplementsPriceTimeBook`, whose safety half is
`BookRefinesPriceTimeBook`), which is beyond the prover, as it needs `ENABLED`.
Every other property of a passing run is a theorem, `VolumeExact` and
`FOKAllOrNothing` with the condition that the code needs.

## Not modelled

- **TCP sessions** (`Networking/`) and the two demos that use them: each operation
  is one blocking call of the kernel and an exception when it fails, and nothing
  connects them to the book. A model would be one of the kernel.
- **Logging, renderer**: text output. The depth view is modelled up to the copy the
  renderer is given.
- **MPSC queue**: an empty class. **Test fixture**: it declares tests and defines
  none.
- **Serialize, Deserialize**: they copy the bytes of a plain object; the payloads
  are records and sets here.
- **A second `TradingEngine::Start`** while the first thread runs, which has two
  threads on one book until the old one is joined: `main.cpp` starts the engine
  once.
- **Time**: `sleep_for` returns at some point, an interval is over or not.

## Plan

Done: the order book and its matching, the abstract book, the scratch array, the
threads of the engine, both queues and the abstract queue, the audit thread and
its journals, their runs and the proofs above.

Next, in this order:

1. Proofs: that the owner of a `TradingEngine` may rely on the order of commands
   when it reads the book after `Stop` (`NothingLost` with `StopDrains`, joined with
   the abstract book).
2. An abstract engine (a FIFO queue and a `PriceTimeBook`) that `TradingEngine` and
   `OrderBook` implement together.

# TickEngine in TLA+

TickEngine replays recorded (or live) market data of one instrument through a
trading strategy, simulates the exchange the strategy trades against, and keeps
its books.  This directory holds TLA+ modules translated from `src/internal`,
TLC configurations that check them on small instances, and theorems about them
that TLAPS proves for every value of the constants.

- [The system](#the-system): its parts, what they keep, what is hard about them
- [The modules](#the-modules) and how they correspond to the code
- [The runs](#the-runs): what is checked, with which bounds
- [The proofs](#the-proofs)
- [What the code does that its documentation does not say](#disagreements)
- [What is not modelled](#not-modelled)
- [What is left](#what-is-left)

A definition `X_Something` just before `X` is `X` with a plausible bug in it (a
dropped guard, a missing reset, a swapped side).  Nothing uses it: it is there to be
swapped in for `X`, to see that the property named beside it under `mutants` in
`PROJECT.json` fails.

## The system

The backtest runs in one goroutine.  The interleavings that matter there are
those of *calls*: the strategy is called back from the middle of the engine's
loop, may call back into the venue from there, and may fail; delays put orders
and fills into queues that later calls drain; and a process may stop anywhere
and be started again over the store it saved.  Goroutines meet in two places, both
around a socket: the reader of the live feed with the callers of `Next` and
`Close`, and, in `cmd/serve`, the control reader of a browser with the replay engine.

| part (source) | state | operations | meets |
|---|---|---|---|
| simulated venue (`execution/venue.go`, `queue.go`, `order.go`, `fill.go`) | last id, clock, last quote, three slices of orders (delayed, inbox, working), per resting order: remaining, ahead, joined | Enqueue, Cancel, Sync, Settle, MatchResting, Flush, Adopt | runtime |
| MBO queue (`execution/queue_l3.go`) | ids ahead of each resting order | restL3, onBook, onTradeL3 | venue, L3 book |
| latency (`execution/latency.go`) | delayed orders, outbox | releaseDue, holdOrEmit, deliverDue | venue |
| reconcile (`execution/reconcile.go`) | - | Working, LastID, Adopt, Reconcile | runtime, store |
| risk gate, paper (`execution/risk.go`, `paper.go`) | kill switch, stamps of accepted submits | Allow, Kill, Arm | runtime |
| runner (`strategy/strategy.go`, `context.go`) | clock, position, blotter, "reconciled" | Run, cascade, drain, apply, Submit, Cancel, Observe, Restore, Reconcile | all of the above, the strategy's callbacks |
| strategies (`strategy/vwap2close.go`, `cache.go`) | open minute bar, VWAP, streaks, latched side, entry, working flag | OnStart, OnEvent, OnOrder, OnStop | runner |
| books (`portfolio/position.go`, `blotter.go`, `pnl.go`) | position, average, realized; round trips | Apply, Record | runner |
| event store (`portfolio/eventstore.go`) | append-only log | Append*, Replay, WorkingOrders, LastID, LastTs, WriteTo, Load | runner |
| order books (`orderbook/l2.go`, `l3.go`) | levels; orders in FIFO per level | Apply, best bid and ask, FIFO | venue, heatmap |
| heatmap (`orderbook/heatmap.go`) | open column, closed columns | OnEvent, Cut | L2 |
| live feed (`feed/databento/live.go`) | connection, channel, done flag, armed snapshot | Next, Close, loop, session, send | two goroutines and the gateway |
| decoders (`feed/databento/*.go`) | pending second event of a row | Next | files |
| replay (`replay/`) | position on the tape, clock | Run, Pacer.Await, Between | serve |
| serve (`cmd/serve/live.go`, `ws.go`) | gate (play, speed), started, cancelled, write mutex; the page of a replay | serveReplay, runLive, SetPlay, SetSpeed, Hold, Sleep, writeFrame | replay, bars, order flow |
| sessions (`session/`) | tables only | HoursFor, Classify, Boundaries | bars, order flow |
| bars (`aggregation/`) | closed bars, open bar | Add, Flush, Snapshot | compose, serve |
| order flow (`orderflow/`) | sums since the last boundary; volume per row and per price; TPO letters | OnTrade, Reset, Snapshot | compose, serve |
| compose (`compose/build.go`) | - | Keep, FromTrades, SampleFlow, SnapshotFootprints | render, serve |
| chart, other commands, web | - | rendering and flags | - |

### What is hard here

1. **An order moves between three slices** while Cancel looks for it in all of
   them and Settle, MatchResting and Flush each move it on (`venue.go`).  It has
   to end exactly once, with every contract accounted for.
2. **The queue position is state over many events.**  `ahead` and `joined` are
   set when the order rests, again at a later quote if the touch was away, eaten
   by prints, and shrunk by quotes under one of the models (`queue.go`).
3. **Two delays with two clocks.**  Entry is released by the venue's clock,
   responses by the stamps of the caller, and a feed may flag a stamp as
   unusable (`latency.go`, `context.go`).
4. **Re-entrance.**  OnOrder may submit, from inside the application of a batch
   of events, inside a cascade that is bounded, inside a loop that may already
   be draining the end of the tape (`strategy.go`).
5. **Three records of the same fills**: the venue's, the position's and the
   store's log.  Everything a restart knows comes from the last one
   (`eventstore.go`, `reconcile.go`).
6. **Integer arithmetic** on averages, shares and buckets (`position.go`, `queue.go`,
   `timebar.go`, `volumeprofile.go`).
7. **Two goroutines around a socket.**  `Close` may come between `Dial` and the
   moment the connection is known (`live.go`); a pause, a vanished or a silent
   browser meets an engine that waits, sleeps or is in the middle of a write
   (`cmd/serve/live.go`).
8. **The same page built twice**, at once by `compose` and print by print by `runLive`,
   from different loops over bars, boundaries and footprints.
9. **A strategy that acts on what it believes**: its working flag, its entry price and
   its streaks are set in callbacks, while fills come later, and an event may be
   given to it twice (`vwap2close.go`).

The full list, each at its line and with the property that watches it, is
`hazards` in `PROJECT.json`.

### What would make each part correct

- venue: an order ends once; executed plus resting is the size; no limit is
  beaten; nothing happens before the entry delay; a print is not spent twice;
  own orders keep time priority; the pessimistic queue is pessimistic.
- way back: each fill is handed over once, not early, and in order per order.
- runner: nothing executed is missing from the store; the books are the replay
  of the log; the run ends; nothing is left over at the end.
- restart: ids are not reused; no order is filled beyond its size; what the
  store takes for working is working, and the reverse.
- books: round trips add up to the realized result; closing moves value and
  creates none; a position is the sum of its fills.
- risk: no window holds more submits than the limit.
- live feed: after `Close` nothing stays open and nobody waits; a sequence gap that
  is reported is one.
- replay over a socket: a pause bites; frames come in order and once; both goroutines
  end with the browser; a browser that plays gets to the end.
- page: what is sent print by print is what is composed at once; flow starts over
  where the calendar says; bars partition the tape; the value area is one.
- strategy: one order at a time, stop and target at the position's own price, no
  quote passed over, signals that are the tape's.

## The modules

```
OrderLife                    abstract: what an order goes through
Matching  --implements--> OrderLife
Venue       = Matching + the way back
L3Book      (the MBO book)            L3Venue = Matching + L3Book + aheadIDs
Position    (constant operators)      Blotter = Position as a machine
EventStore  (the log)                 Risk (the gate)
RunLoop                      abstract: the control of Run, with its loops
Runtime     = Venue + Position + EventStore + Risk + the control of Run
            --implements--> RunLoop
VWAP2Close  = Runtime with that strategy in the place of "any strategy"
LiveFeed    (reader, Close, Next)     Replay (control reader, engine)
Calendar -> Bars, OrderFlow -> Compose -> Page   the page of a trading date
Picking                      choosing from a sequence, and sums, for the above
*Proofs                      theorems: OperatorProofs, of Picking and Position;
                             over it MatchingProofs <- L3VenueProofs;
                             BlotterProofs, VWAP2CloseProofs, PageProofs;
                             RuntimeProofs, of Venue and of Runtime, over
                             MatchingProofs; SocketsProofs, of LiveFeed and Replay
```

**OrderLife** says of each order only: none, open, then filled, canceled or
rejected; it executes at most its size and is refused only untouched.

**Matching** is the venue from `Enqueue` to the events a call produces.  An order
is its id.  The slices `delayed`, `inbox`, `working` become `place[i]`; ids grow,
the entry delay is constant and the clock never goes back, so each slice is in
id order and the order of the slice needs no state.  (A snapshot that is adopted
is taken to list its orders by id, as the store's does.)  The fields of `resting`
are the functions `remaining`, `ahead` and `joined`; `raw` is what the call
returns, a set ordered by `(pass, id)`, the order the two loops of `onTrade`
append in.  `Settle` is `Settle` with `releaseDue` and `settleInbox`; `Quote` and
`Trade` are `MatchResting` on the two kinds of event (`applyQuote`; `onTrade`
with `take` and `dropFilled`); `Flush` and `Adopt` are themselves.  The loop of
`onTrade` that hands one print from order to order is the function `left`: what
remains of the print after each order (`Passes`), unique for a given print.
The variables below "History" (`executed`, `paid`, `claim`, ...) only record
what happened, for the properties.

**Venue** adds `outbox` and `batch`: `holdOrEmit` and `deliverDue`, with the order in
which fresh and held events meet, and the `Flush` that appends the outbox.

**Position** translates `Position.Apply`, `Blotter.noteTrade` and `Unrealized`, with
Go's truncating division.  **Blotter** feeds it arbitrary fills and keeps net
contracts and cash beside it.

**EventStore** is the log with its readers; **Risk** is `Allow` with its limits.

**Runtime** is the program.  `pc` is where `Run` is; a strategy is any code that,
from a callback, submits, cancels, and then returns (`Return`) or fails (`Fail`).
`Observe` is the next event of the tape with the clock rule, `MatchResting`,
`SettleCascade`, `Drain`, `FlushTail` the calls of the venue, `ApplyEvent` one
round of the loop of `apply`, `Applied` the return to whichever caller (`ret`).
`Restart` is a new process: the venue and the books are gone, the log is kept;
`Restore` and `Reconcile` are what it calls before `Run`.

**RunLoop** is what is left of Runtime without its data: `pc`, the address apply returns to, the loop
counter of `cascade` and `drain`, and how many events of the batch are still to be applied.  A call of the
venue returns any number of events, fills or not, so this is also the program of a strategy that
answers every fill with an order that fills at once, for ever.  That Runtime implements it
(`ImplementsLoop`) is what makes its liveness Runtime's.

**VWAP2Close** extends Runtime: every callback that Runtime leaves to any code is the
strategy's own.  `AfterTrade` is `onTrade` with the minute bar and the VWAP, `OnClosed` the
streaks, `Act` what `OnEvent` does after it (`maybeExit`, the latched entry), `AfterOrder` is `OnOrder`,
`Flatten` is `flatten` and what `OnStop` calls.  One unit of time is one bar; which times are
RTH and which date they are of are constants, for `Calendar` answers that.

**L3Book** is the order-by-order book: `book.byID` and `book.level`, the ids at a side
and price in priority.  `Add`, `Drop`, `Modify` are the methods, `Touch` is `Quote`.

**L3Venue** is the venue under `QueueL3`.  It reuses what the code reuses: entry, cancel
and settlement (`SettleOutcome`), with `RestL3` where `Matching` has `Rest`.  Its
print loop is that of `Matching` with `ahead` the sum of `aheadIDs`, which is what `onTradeL3` does
differently from `onTrade`; `Consume` is what the print leaves in front.  `BookRow` is one
KindBook event: the book, the touch it shows, then `onBook` for every resting
order.  Under the two aggregate models a KindBook event is `Quote` with the
book's touch.  `behind` is history: the market orders that took their place after
an own order rested.  `LAdoptFirst` comes before the first row, when there is nothing to be behind.

**LiveFeed** has the goroutine `loop`/`session` with `at` as its place, `Close` with its two
steps (done, then the connection) and a caller of `Next`.  The gateway is external: it
answers the handshake or not, sends rows with gaps in their numbers, ends the
connection with or without an error, or keeps silent.  `send` blocks while the channel
is full; a read returns as soon as the connection is closed.  What the rows are for is
`book`, the reader of the feed: L2's sequence check, with the true losses of each
connection (`lost`) beside the gaps it reports.

**Replay** has `serveReplay` (`rd`), the goroutine of `runLive` with `Engine.Run` (`en`), the gate and
the mutex of the socket.  The browser is external: it sends play, pause, speed, ping
and close, stops reading, or vanishes.  A write ends when the browser takes it or when
the socket is no longer up; until then it holds `wsConn.mu`.  `asleep` is being inside
`cond.Wait`.

**Calendar** is `HoursFor`, `Classify` and `Boundaries`, in quarters of an hour of local time (every
clock time of the schedule is a whole number of them).  **Bars** is every aggregator over
the shared sink; **OrderFlow** is VWAP, delta, CVD, volume profile with its value area,
footprint with imbalances and stacks, TPO, and the orchestrator.  **Compose** is
`FromTrades`, the page built at once.  These four are operators and have no variables.
**Page** is the machine over them: a tape grows trade by trade, and `Deliver` is the handler
of `runLive` with all it calls.  `Feed` is an aggregator used with any other spec.

## The runs

| run | module | question |
|---|---|---|
| `queue` | MCVenue | Two orders out of three kinds, two quotes, three prints, the pessimistic queue, a response delay of 2, cancels and flush: conservation, limits, queue position, a print shared older order first, the life cycle; and each fill handed back once and in order |
| `books` | MCBlotter | All sequences of five fills out of six kinds, prices of both signs, fees |
| `session` | MCRuntime | One run, three events, up to three orders behind a rate limit of two, proportional queue, both delays, callbacks that fail anywhere: nothing executed is missing from the store, what the store takes for working is, the delays hold at the venue and end to end, the rate limit holds |
| `restart` | MCRuntime | Two runs over one store behind the other limits of the risk gate, failing or ending anywhere, with no delay, so that `cascade` is entered, repeated and cut: books, ids and sizes across the restart; control moves as `RunLoop` allows |
| `mbo` | MCL3Venue | Two own orders among two market bids at a level, with adds, reductions, increases, price changes, cancels, a clear and prints: the book is consistent, places are kept, the ghost counts exactly what is in front, and after a print nothing else |
| `loops` | MCLoops | LiveFeed, Replay and RunLoop, each alone: close, gaps and redials; pause, conversation, end; a run ends also when every fill is answered |
| `tape` | MCPage | Every tape of three prints around the edges of three trading dates, with eleven bar specs: one page, flow since the last edge, bars that partition the tape, value areas |
| `vwap` | MCVWAP2Close | The strategy over every tape of eight events that begins with one of two openings |
| `reduce`, `firstgap`, `twice`, `flatten` | | the disagreements below, one each |

**Bounds.**  `MaxOrders` = 2: every property of one order needs one, sharing of a print
needs two, and a third order meets the loops in the same way as the second (the
proofs cover any number); 3 in `session`, where the rate limit is two submits in a window of
one, so that the third is refused, or comes later; 4 for the strategy, which is an entry, its exit,
and both again.  `MaxTs` bounds the clock: 2 is enough to submit, wait, execute, wait, and
still have a later event; with a response delay of 2 fills of two stamps are held together;
the clock of `session` reaches past one window of the rate limit.  `MaxTs` = 0 in `mbo`: no
delay, and so no use of the clock.  `MaxEvents` = 3 is a quote, a print that fills in
part and one more; the 8 of `vwap` are two trades of the opening, a second closed
minute, entry, fill, exit, fill, and a date that changes.  `MaxCascade` stands for the 32 of
`strategy.go`.  With the 2 of `restart`, where orders settle at once, `cascade` is entered,
repeated and cut; 3 leaves the strategy its entry and exit, and is the bound of `RunLoop`, whose calls
return none, one or two events, on tapes of two.  In `session` nothing comes back inside `cascade` or `drain`:
a fill made there waits out its response delay, and is delivered by a later `MatchResting` or by the flush.
So `LogComplete` and `StoreNotStale` meet no batch of `cascade` in that run; `LogHolds` and
`NotStaleHolds` prove them for every delay.  `MaxSessions` = 2 is one restart.  `MaxFills` = 5 is open, add, reduce
or reverse, add, close.  Quantities are 1 to 3 so that prints can fall short of,
meet and exceed what is ahead.

In `mbo` two market orders at the level are enough to stand before, between and
behind the two own ones, sizes 1 and 2 to be reduced and increased, and prints
of 1 and 3 to fall short of the queue, to clear it, and to fill one own order or
both.  While the ask side is empty its price is 0 and every bid is marketable, so one
ask comes, and goes with a clear.  A row never adds an
id that is live (`ReAdds = FALSE`): a gapless feed does not.

In `loops` the channel has room for one event, so that a send blocks behind an
unread one; two dials are a session and a redial; two rows with numbers up to 3 can be
adjacent or not; four client frames are play, pause, play and one more, on tapes of
none and of three trades with a repeated, a bad and a jumping stamp.  The three systems
share no code and each behaviour runs one of them.

In `tape` the trading dates are a month end with its halt, the day after a holiday and
an early close; the six times of day are around the open, the close, the halt and the
evening open; three prints are enough for a bar that closes, one that is skipped, an
imbalance and a value area with a tie.  Prices are in ticks, in three rows of which the
middle one can be the largest, so that the walk of the value area has a choice of two sides; sizes are 1 to 4, and bars are
shorter than a session, longer than one, and as long as a day.  With `MinStack` = 1 every imbalance
is a stack; one of several marks needs more than three prints, and is covered by
`SamePageHolds` only.

**Deadlock** is not checked: venue and books may stop when the ids or fills of
the bound are used up, a finished run or replay has no next step, and a browser or a
gateway may keep silent for ever.

**Fairness** is assumed in `loops` only.  `LoopFairness`, of a run: weak fairness of `LoopStep`, what `Run` does
by itself.  It includes `ComesBack`, so it assumes that callbacks return, and `TapeEnds`, which is
always enabled next to `Reads` and, with the events bounded, must come: a file ends.  No
fairness is assumed of failures or of a restart, and what the strategy submits is any answer of the venue.

`FeedFairness`, `ServeFairness`: a goroutine that can take its next step takes it, which
is what Go's scheduler owes: weak fairness of `Reader`, of the second step of `Close`, of a `Next`
that has something to return; of `Control` and of `Engine`.  `Engine` includes the timer of a
cancelled sleep, for the select in `Sleep` has ctx as its other case.  A timer that is not cancelled owes
nothing, since it may be set to any length, nor do the gateway, the caller of `Next` and
`Close`, and the browser.  So the liveness properties say what happens because of the
code: `CloseEnds` and `GoneEnds` start from a close or a lost browser, and `PlayFinishes`
supposes a browser that in the end plays, reads and sends no more, and timers that end.

`CloseEnds` has one exception, and it is the code's: `LateHeader`.  When `Close` comes between
`Dial` and the assignment of `l.conn`, the handshake of that connection is waited for
although the feed is closed, so a gateway that never answers keeps the goroutine for
ever.  `Next` returns all the same, and once the handshake is over the goroutine sees
the flag and closes the connection.

`RateCap`, `LogComplete`, `StoreNotStale` and `RoundTrip` speak of the first session only, as
their source does: the risk gate's stamps, the venue and the submit times do
not survive a restart.

## The proofs

Eight modules.  Every theorem is for all values of the constants that the assumptions
beside them allow (`MatchingAssumption`, `VenueAssumption`, `BlotterAssumption`,
`RuntimeAssumption`, `VWAP2CloseAssumption`, `DatesAssumption` (a later minute of RTH is not of an earlier date),
`LiveAssumption`, `PageAssumption`, ...); TLC evaluates those in the runs.

| module | over | theorems |
|---|---|---|
| `OperatorProofs` | `Picking`, `Position` | lemmas only: positions, filters, folds and sums of sequences, minima and sums of sets; what `Apply` does to net, average and realized |
| `MatchingProofs` | `Matching` | `TypeCorrect`, `ConservationHolds`, `LimitHolds`, `EntryHolds`, `JoinedHolds`, `PessimisticHolds`, `PrintSharedHolds`, and `Implementation`: `Spec => ImplementsLife` |
| `L3VenueProofs` | `L3Book`, `L3Venue` | `BookIndexedHolds`, `PlaceKeptHolds`, `GhostIsFifoHolds`, `FirstPrintClearsHolds`, and of this venue too `L3Conservation`, `L3LimitRespected`, `L3PrintShared`, `L3Implementation` |
| `BlotterProofs` | `Blotter` | `TripsHold`, `EquityKeptHolds` |
| `RuntimeProofs` | `Venue`, `Runtime` | `VenueKeeps` (the venue with its outbox is a `Matching`, so all that is proved there holds of it), `HandedBackHolds`, `PerOrderHolds`; `CoreHolds`, `VenueInRunKeeps`, `ResolvedHolds`, `BooksHold`, `IdsHold`, `OverfillHolds`, `LogHolds`, `NotStaleHolds`, `RoundTripHolds`, `RateHolds`, and `LoopImplementation`: `RSpec => ImplementsLoop` |
| `VWAP2CloseProofs` | `VWAP2Close` | `OnePositionHolds`, `EntryAnchoredHolds`, `StopWatchedHolds`, `StreakIsTapeHolds` |
| `SocketsProofs` | `LiveFeed`, `Replay` | `FeedTypeCorrect`, `AfterCloseHolds`, `GapsHold`; `ServeTypeCorrect`, `PauseHolds`, `ConversationHolds` |
| `PageProofs` | `Calendar`, `Bars`, `OrderFlow`, `Compose`, `Page` | `PageInvHolds`, `FlowSinceEdgeHolds`, `BarsPartitionHolds`, `AreaCoversHolds`, `SamePageHolds` |

Six theorems have a hypothesis, and each is a behaviour of the code.  `OverfillHolds`
is for the first session and for a restart from the store's snapshot, which lists orders that have
not filled at all: a snapshot of the exchange may list one that has filled in part, and `Adopt` rests
it at its full size.  `RoundTripHolds` is
for a feed whose stamps are in order.  `PlaceKeptHolds`, `GhostIsFifoHolds` and `FirstPrintClearsHolds`
are for a feed that adds no id that is live (`~ReAdds`): `L3.add` moves such an order to the back,
and the ghosts, which `onMBO` does not tell of adds, would go on counting it in front.
`StreakIsTapeHolds` is for an entry delay of zero and stamps in order: with a delay a fill may come
back on a trade event, which the strategy then counts twice (the run `twice`, see
[Disagreements](#disagreements)), and a stamp out of order closes a minute of the past.

**The venue.**  `Conservation` alone is not inductive: Enqueue takes
id `nextID + 1` and relies on that id being unused, and settlement relies on
nothing having been executed.  `Base` is `TypeOK`, `Conservation`, and: ids beyond
`nextID` have no order (`FreshIds`), an id without an order has no past
(`Untouched`), and what the venue holds has passed `validate` (`LiveValid`:
positive size, and a limit has a price).  `AdoptFirst` is what needs most of it: it rests
orders under arbitrary ids and sets `nextID` to at least each of them.

**The queue.**  `PessimisticQueue` compares what printed at an order's price (`since`)
with what was ahead when it joined (`claim`) and what it filled there (`atPx`).
The strengthening `QueueInv`: an order that has not joined has seen no print count for
it; once it has, `since + ahead >= claim + atPx`; and an order that has filled at its price
has nothing ahead.  A print takes at most its size from `ahead` and from the order
together (`Take` fills only beyond `ahead`), and what reaches an order of a print is
at most the print (`left[i - 1] <= t.qty`).

`PrintShared` has two halves.  That the fills of one print add up to no
more than the print is an induction along `left`: the fills of the
orders up to `i` and what is left after `i` are together at most the print.  That a younger order fills at a price only
if every older one there is then done follows from the loop, which leaves nothing of the print behind an order it
does not fill whole, once the older order is in the loop at all, i.e. has joined.  That is `AgeInv`: of two orders the older is released, rests
and joins no later than the younger (`Ranked`), since delays are of one length and the clock does not go back (`Timely`).

**The refinement** maps `"delayed"`, `"inbox"` and `"working"` to `"open"`.  Every action
gives, for each order, one of Accept, Execute, Withdraw, Refuse or Keep;
Conservation supplies the guards (an order that is canceled has contracts left,
one that is filled has executed its size).

**The order-by-order book.**  `BookOK` says that the two halves of `L3` agree: the queue of a level holds
the orders of that level and no other, each once.  It is inductive, and with it `RowStep` says what a row can
do: empty the book, move its own order (out of the queue it was in, to the back of its new one
if it is live), make it smaller where it stands, or nothing.  `PlaceKept` is read off these four.

**The ghosts.**  `Follows`: until a print has hit an own order, `aheadIDs` is its level of the book
without the market orders that came behind.  The book and `onMBO` decide a modify separately, the book
from the order's old size and price and the ghost from its own entry; `GhostFollows` shows that they agree
on each of the four kinds of row, and `BookIndexed` is what makes an id stand at one place only.
`Counts` keeps `ahead` the sum of `aheadIDs` through `Consume`, with what `Consume` leaves given by
`ConsumeFacts`.  `Stands` is what holds from the first print on: every order a ghost still lists
stands in the book, at the own order's price and older in the queue, with at least the size the ghost has for it.  `Consume` only removes
and reduces; a row that takes an order away, moves it or makes it smaller does so in the ghost too (`RowStands`).
The lemmas on settlement in `MatchingProofs` do not depend on the queue model (they are about `SettleOutcome`
and `AdoptOutcome`), so the accounts and the refinement of `OrderLife` are proved of this venue as well.

**The way back.**  `HandedBackOnce` counts, for each order, contracts executed and
contracts in the outbox, in the batch and handed over; `HandInv` is that equation with the fresh
events of the call in it.  `PerOrderInOrder` follows from `OrderInv` and `OutInv`: the fills of an order
wait in the outbox in the order of their execution, with stamps that do not decrease, so that
`deliverDue`, which takes the due ones first, cannot overtake.

**The run.**  `Core` is what control flow promises: types, for each place `pc` of `Run` what
the batch and the return address can be, and how far the venue's clock and the strategy's differ.  Over it stand
the invariants of the properties:

- `EndInv` for `ResolvedAtEnd`: after the last flush the outbox is empty, and what waits at the
  venue was submitted after it;
- `BooksInv` for `BooksFromLog`: the books are those of the log's fills, also before `Restore`,
  where the position of the last position record has to be;
- `IdInv` and `Carry` for `IdsNeverReused`: every id at the venue, in the outbox and in the batch
  is in the log, no id of the log is beyond the venue's last, and before `Reconcile` none is beyond
  the one the snapshot names;
- `FillInv`, `FirstInv` for `NeverOverfilled`: fills in the log, fills on the way and contracts resting
  are together at most the size.  `FirstInv` is the venue's own invariant, which holds until the
  first restart, for then ids are adopted that have a past;
- `LogInv` for `LogComplete`: what an order executed is what the log, the batch and the outbox
  have of it together, so that no step loses a report or logs it twice;
- `StaleInv` for `StoreNotStale`: what the log holds to be working and the venue does not
  has its report on the way;
- `TripInv` for `RoundTrip`: an order is released an entry delay after the strategy submitted it, and a
  report is held until both delays have passed since then, with the two clocks compared by `InStep`;
- `RateInv` for `RateCap`: the stamps kept by the gate are in order and contain every accepted
  submit that a window ending now can reach.

**The books.**  `BlotterInv` for `TripsSumToRealized`: when flat the round trips add up to what is realized, and while a
position is open to what was realized before it opened.  The lemmas on `Apply` distinguish open, add,
reduce and reverse.

**The strategy.**  `OnePosition`, `EntryAnchored` and `StopWatched` hold for any delays, stamps (also those flagged
unusable), tapes and length of a cascade.  They have one inductive invariant, `VWInv`: until `OnStop`,

- `OneOrder`: if the strategy is waiting, its order is in one of three places, whole: at the venue
  (`Waits`), filled with the report in the outbox (`Returning`) or filled with the report in
  the batch (`Arrived`), and it asks for one entry or for the whole position back (`Asks`);
  if it is not waiting there is no order, and `entry` is the position's price;
- `OneEntry`: the position is flat, one entry long or one entry short, so that `Apply` opens or closes
  it and never adds or reverses;
- `Quoted`: no order comes before the first quote, so none is rejected for want of one and
  every order, being a market order, fills whole when it settles;
- `Route`: where `cascade` hands a report to the strategy, it goes on to `OnEvent` with the same event;
- `Watched`, once the strategy has acted on the event: a quote is not beyond the stop or the target
  of a position it has no exit for.  `Route` is what makes it inductive: a fill
  in the middle of a quote's cascade opens a position that quote may already be beyond.

After `OnStop` nothing is claimed: `flatten` does not look at `working` (see
[Disagreements](#disagreements)).  `cmd/backtest` sets no risk gate, so `Submit` does not
refuse, and `Sends` has no step for a refusal; it would end the run with an error.

`StreakIsTape` compares two counters with folds over the whole tape.  Its invariant `StreakInv` adds

- `Clocked`: the trades seen are in order and not after the clock, and `Streaks`: the open bar is the
  last trade's minute and price, the VWAP is the fold of the trades of its date, and the
  streaks are those of the minutes closed since the position last was.  One trade more either goes
  into the open minute, closes it and goes on with or breaks a streak (`StreakGrows`), or
  starts a date on its own (`NewDate`, `Alone`); the closes and the VWAPs of earlier minutes it
  leaves as they were (`CloseKept`, `SameDate`).
- `Quiet`: a trade the strategy is about to be shown is one it has not counted.  `cascade` shows an
  event again only after a fill, and none comes on a trade: no order is waiting then, as one is
  sent on a quote only and settles in that quote's cascade, and nothing held back for the
  response delay is due, since the match of that same trade has just delivered it (`Held`).

**Sequences.**  Filter loops are written with `Pick` (the elements at a set of positions), and sums
with `Total`.  `OperatorProofs` has what `Pick` and `Total` do to an append, a concatenation and a split.
An induction over a sequence is made with a set: `Induction` and `SeqInduction` are proved from the
library's theorem on finite sets of numbers, with the hypothesis a set `S` and no operator.
The same way gives folds: a loop over a sequence is `FoldLeft` of some step, `IsStep` says that a
table of values is such a step on sets of arguments, and what a fold does to an append, a concatenation and
an invariant is proved once for every table.

**The live feed.**  `AfterClose` follows from `Connections`: only the connection dialled last can
be open, none is between sessions, within a session it is the one `l.conn` points to,
and after a finished `Close` none is at a read.  The step that needs the last part is
the check of `done` that follows the assignment.  `GapsAreReal` needs where every row on its
way came from: `InOrder` (the book, the channel, the reader's event and the wire hold rows
of connections in the order they were dialled) and `Baseline` (a row that is no snapshot
has before it, in the book or in the channel, another of its own connection).
Arming the snapshot for each connection is what starts `Baseline`, and a send that fails
is where it would be lost: the session then ends.

**The replay.**  `PauseBites` is inductive with `Paused`: while paused, an engine with a print in
hand has sent nothing since the pause.  `Conversation` speaks of a sequence; its strengthening
`Told` says instead what each frame of the log is (`Prefix`, by index), how many there are for each
place of the engine while the socket is up (`Sent`; a cancelled engine may have skipped a
bar, and is kept from sending more), and for each place of the control reader (`Reading`).  That the
log then equals a prefix of the whole conversation is `ToldIsPrefix`, by the library's facts on
sequences.

**The page.**  `PageInv` is inductive, and each of the four properties of `Page` follows from it.
The schedule (the weekly template, early closes, closed days, month ends) is any function
of the date into the templates there are: only `ClockTimes` and `OpenHours` look at their clock times.

- *Boundaries.*  Where `Classify` changes its answer there is a cut of one of the dates the loop
  visits (`from - 2` to `to + 2` days are enough, since the hours of a date reach
  from the evening before to the same afternoon), so a list of boundaries has every edge in its
  range.  `OrchInv`: the orchestrator has passed exactly the boundaries up to the last
  trade taken, and its flow is the fold of the trades since the last of them.  So `FlowSinceEdge`.
- *Bars.*  `BarsInv` carries `BarsOk`: the bars in the sink are well formed for their
  spec (`GoodBars`), trades have gone into bars in order (`Homes`), each bar counts its own (`Counts`), and
  the bars of a time spec are buckets of one grid that hold their stamps (`Buckets`).  The
  loop of a volume bar, which spreads one print over many bars, is a lemma of its own:
  its takes add up to the print and fill every bar but the last.  So `BarsPartition`.
- *Value area.*  `Walk` is a table over the turns of the loop.  Each turn not yet at
  the target takes in exactly one more row, so that after as many turns as there are rows the target
  is reached; and what a turn adds last was needed (`Needed`): without that row the
  area is below the target, and where there was a row on the other side it is the larger of the two, or as large and below
(`WidenBeats`).  So `AreaCovers`, with `ProfileInv` (every row has volume).
- *Same page.*  `FoldsInv`: what `runLive` keeps is a fold over the trades
  taken, bar by bar: bars, profile, TPO, one footprint and one flow for each bar.  Against it stand the
  loops of `compose`, which run over finished bars and use the trades up to each bar's end.
  `PageFit` says that a page has one session of one date, so that its bars are disjoint
  buckets; then `UsedIs`: the trades used for the bars up to the `k`-th are those of these
  bars.  The boundaries are not asked for over the same range on the two sides
  (`runLive` takes the session, `SampleFlow` the range of the bars); that the flow is the same
  all the same is `FlowSinceEdge` on both sides, as every edge in the range is listed
  and no trade comes from outside it.  So `SamePage`.

To be proved about, `OrderFlow` and `Calendar` have no recursive operator: `Walk` is a function of
the number of turns, and the boundaries are the edges in ascending order (`Ascending` for the sort of `boundary.go:54`).

**Only model-checked.**  Liveness, which is out of this prover's reach: `RunEnds`, `CloseEnds`,
`GoneEnds` and `PlayFinishes`.  For `RunEnds` the safety half of the way to Runtime is proved
(`LoopImplementation`); that Runtime's own steps are as fair as `LoopStep` is read off their guards.  Every other property of a passing run is a theorem.

## Disagreements

Four runs end in a counterexample to something the repository says of itself:

- `reduce` (`position.go:48`): a fill smaller than the position it reduces sets
  the position to flat.  Long 2, sell 1, flat.
- `firstgap` (`replay/engine.go:93`): the replay clock starts at zero, so after the first
  event the pacer is asked to wait for the event's whole stamp, the time since 1970,
  not for a gap of the tape (`pacer.go:12` promises tape gaps).  A test pins that first wait
  (`pacer_test.go:102`), on a tape whose first stamp is 1 s, where it looks like a gap.  In `cmd/serve` the
  gate's speed is 0 until the browser sends one, and then nothing is waited for.
- `twice` (`vwap2close.go:84`): after a fill the runner calls `OnEvent` again with the same event, and
  the strategy adds a trade event to its bars and its VWAP each time.
- `flatten` (`vwap2close.go:111`): `OnStop` does not look at `working`; an exit on its way is sent
  again and an entry whose fill has not come back is not closed, so the run ends
  with a position.

`PositionIsNet` and `EquityKept` are kept apart on purpose: the second is about fills
that close the whole position and holds.  `StreakIsTape` is kept apart from `VwapOfTape` in
the same way: with an order that settles at once no fill comes on a trade event,
and the strategy's streaks are the tape's.

Some hazards have no property, or one that covers half of them.  The models have what the code does there, and the
properties above are checked where it does not bite:

- a partly filled order is adopted at its full size (`reconcile.go:130`), and an order that is alive
  at an exchange fills with nobody watching when the process that sent it is gone (`eventstore.go:168`);
- events of a batch that `OnOrder` failed in the middle of never reach the log (`strategy.go:141`);
- orders submitted during the last flush stay in the inbox (`strategy.go:75`); `ResolvedAtEnd`
  says that nothing else is left over;
- a stamp flagged unusable moves the venue's clock and not
  the strategy's (`venue.go:124`; `BadStamps` switches it on).  It is off in `session`, where `RoundTrip` is checked;
  `EntryHolds` covers it for the entry delay (`latency.go:139`);
- the average price is cut to a whole tick (`position.go:34`), and so is the share of the queue that is ahead
  in the proportional model (`queue.go:170`): how good an estimate that is, no property says;
- one side of the MBO book may be empty, with price 0 (`queue_l3.go:19`), and a feed whose rows do not
  report a print in full makes a ghost drop an order that kept its place (`queue_l3.go:61`);
- a side latched in the last minutes of RTH is sent after it (`vwap2close.go:173`);
- a session that ends with an error redials with `DisableReconnect` too (`databento/live.go:133`).

## Not modelled

See `components` in `PROJECT.json` for every part with its reason.  In short:
rendering, flag parsing, HTTP and the web page change no state worth a model;
the heatmap and the metrics are summaries nothing reads back; decoders are column
parsers apart from one piece of state (the pending quote of a trade row), which
`LiveFeed` has as the two events of a row.  Inside modelled files: an MBP feed under
`QueueL3` (orders rest with nothing ahead), rows without a side, `L3.Depth`, L2's lookups, `FeedDist` (a
measurement), `Logf`, the text format of the
store and its `WriteTo` and `Load`, which no command calls, the bytes of a WebSocket frame and of
the live handshake, time zones and daylight saving, and the table of holiday dates,
which is a constant.

## What is left

1. `Heatmap` over L2: columns cut on a timer against the book at that instant.
2. The store's `WriteTo` and `Load` as a round trip, with a crash while writing, once a
   command saves a store.

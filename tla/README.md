# Verification of the realtimeodds Python client

TLA+ models of the client library in `src/src/realtimeodds`, the TLC runs that
check them on small instances and the TLAPS proofs of what matters most for
every instance. Paths below are relative to `src/src/realtimeodds` unless they
start with `src/`.

## 1. The system

An application creates a `Client`, awaits `connect()`, and from then on reads a
live, in-memory book of odds that a server keeps current over a WebSocket.
Everything runs on one asyncio loop; the concurrency is that of coroutines
between their awaits.

    server --frames--> GatewayClient --store events--> Client --public events--> application
                        one OddsStore per source       OddsBook (live book)

| component | state | operations | interacts with |
|---|---|---|---|
| `OddsBookImpl` (`_book.py`) | events by id; market->event, selection->market and bookmaker->events indexes | `upsert`, `remove`, `clear_bookmaker`, `replace_bookmaker`, `clear`, lookups, `clone` | written by the Client's store handlers |
| `GatewayClient`, session side (`_gateway/client.py` 66-238) | `_running`, `_handshake_done`, `_attempt`, the socket, the open, receive and reconnect tasks | `connect`, `disconnect`, `_open_socket`, `_recv_loop`, `_on_close`, `_schedule_reconnect`, `_reconnect_after`, handshake, `_refuse` | websockets library; emits to the Client |
| `GatewayClient`, dispatch (240-300) and `OddsStore` (`_store/`) | the stores, events by id in each | one branch per frame type; `upsert_sport_event`, `update_prices`, `remove_sport_event`, `clear`, `replace_with_snapshot` | emits to handlers the Client hangs on each store |
| `Client` (`client.py`) | status, the current gateway, the pending future, the wired stores, the live book | `connect`, `disconnect`, a handler per gateway event, `_wire_store` | owns gateway and book; emits public events |
| protocol and backoff (`_gateway/protocol.py`, `reconnect.py`) | none | version check, auth close codes, delay | used by the gateway |
| entities, ids (`_entities/`, `id_helper.py`) | immutable values | reading from JSON (strict or lenient), price updates, margin, fair odds, id grammar | held by stores and book |
| type tables (`_types.py`) | constants | none | used by the entities |
| emitter (`_emitter.py`) | listeners | `on`, `off`, `emit`, `remove_all` | everywhere; a listener's exception is swallowed |
| line-move example (`src/examples`) | baseline price per selection | handlers of public events | listens to the Client |

What is hard in it: tasks that outlive the call that started them, callers that
are cancelled while they await, two gateways alive at once, an old gateway's
events reaching the client of the new one, stores that survive a reconnect while
the book does not, frames that fail half-way, indexes that must follow every
version of an event. `PROJECT.json` lists each hazard at its line, with the
properties that cover it or the reason none does.

What makes each part correct:

- book: the indexes describe exactly the events in it, so that a lookup and a
  purge see what a scan would;
- gateway: one connection attempt or one receive loop at a time; its events come
  in an order a listener can rely on; it gets through, gives up, or is stalled
  in one of the known ways;
- client: what it shows comes from a session that is read, or from one that is
  being closed or was closed cleanly; nobody waits for a future that
  was forgotten; connect() and disconnect() return;
- feed: the book is the server's state as of the last frame handled, and the
  public events tell every change of it;
- store: what is filed under a kind is what has that kind; emitter: who listens
  when an event comes hears it, once per registration;
- entities: the contract can be read, what is not in it is told apart, and
  strict mode refuses exactly that;
- line moves: every announced move too far from what the user was last told is
  logged, no other is, and nothing is compared with a price
  of an earlier session.

## 2. The modules

| module | models | |
|---|---|---|
| `OddsBook` | `_book.py` | the book as one record, each method an operator from book to book |
| `BookView` | abstract | a map from event id to current version |
| `EntityIds` | `id_helper.py`, `SportEvent.get_market` | an id as the sequence of its segments |
| `BookNavigation` | `OddsBook` with ids of `EntityIds` | indexes against ids taken apart |
| `Market` | `_entities/market.py` 72-220, `selection.py`, `order_book.py`, `quote.py` | one market: constructor checks, copies, margin, fair odds, depth |
| `Gateway` | `_gateway/client.py` 66-238 | per gateway: flags, counter, socket, three tasks, suspended callers of disconnect() |
| `GatewaySession` | abstract | the order of the events a gateway emits |
| `Client` | `client.py`, extends `Gateway` | status, future, book ownership, callers |
| `Feed` | dispatch, `OddsStore`, `client.py` 343-447, over `BookView` | from the wire to the public events |
| `LineMoves` | `src/examples/line_move_alerts.py`, extends `Feed` | a listener of the public events |
| `Emitter` | `_emitter.py` | the registry, and one emission listener by listener |
| `OddsStore` | `_store/odds_store.py`, extends `Emitter` | one store with its index by kind |
| `SelectionTypes`, `WireEntities` | `_types.py`, `_entities/market.py` 223-610, `sport_event.py` | kinds, classes and what reading each takes |
| `Protocol`, `Backoff` | `_gateway/protocol.py`, `reconnect.py` | the first frame; the delay of an attempt |
| `Inputs` | `WireEntities`, `Protocol` and `Backoff` together | one input at a time |
| `MC...` | instances for TLC | |
| `OddsBookProofs`, `EntityIdProofs`, `GatewayProofs`, `ClientProofs`, `FeedProofs`, `MarketProofs`, `StoreProofs`, `InputProofs` | theorems | `OddsBookProofs` has those of `BookNavigation`, `FeedProofs` those of `LineMoves` |

`Client` composes with `Gateway` by extending it: a gateway step and the handlers
its events trigger are one action, as `emit` calls its listeners before it
returns. `Feed` composes server, wire, stores and book; it uses `BookView` for
the book, which `OddsBook` is proved to implement, instead of the indexes.
`LineMoves` composes the whole feed with an application. `BookNavigation`
composes the book with the id grammar. `Market` stands alone: `Feed` has of a
market only the quotes by selection. `OddsStore` and `Feed` are two views of the
same store: `Feed` has its events with their prices and what the client makes of
them, `OddsStore` the index by kind and the emission itself.
Definitions whose name ends in `Mutant` are plausible slips, each kept beside the
definition it distorts; nothing refers to them. `PROJECT.json` pairs each with
the property it breaks.

### OddsBook

`.get` on a dictionary answers `None` for an absent key, so dictionaries are
total functions into values and `None`. An event is its id and its markets'
selections. Ids are opaque; of the grammar of `id_helper.py` only the fact that
different events share no market and different markets no selection is assumed
(`IdGrammar`). Under it the code's loops over events and markets have the same
result in any order and `Put` states that result for a set of events.
`BookmakerOf` is `None` for an id `get_bookmaker` raises on; `Upsert`, `Remove`
and `ReplaceBookmaker` then do what is done before the exception, which the
emitter above them swallows. `replace_bookmaker` with a malformed id has one
outcome per order of the batch, hence a set. `clone()` copies references to
immutable values and is not modelled.

### EntityIds and BookNavigation

`split`, `join` and the f-strings become operations on sequences of segments. An
external id is one segment unless a legacy producer put a colon in it; the
helpers cope with that in market ids (`IdsParseBack`), not in ids of events or
selections, and a legacy market id by itself is taken for a selection's, as the
docstring of `get_market_id` says. `MCOddsBook` makes its ids with the grammar,
one of them legacy. The proofs have ids of any `Segments`: what is asked of the
wire is that the ids were made by the helpers and that no market has the id of a
selection (`IdsAreMade`), which the grammar alone does not give.

### Market

A market is an immutable value and `market` the current one; the actions are the
`_with_*` copies of price updates (the one the stores call) and those of order
books and of unavailability. A copy passes the constructor again, and where
anything raises the caller keeps what it has. Prices are integers in parts of
`Unit` and probabilities shares of 1 / `Whole`, so that margin and fair odds are
exact; rounding of floats is left out. A fair odd is a fraction, whose
denominator may be negative; where it is zero `get_fair_odd` raises, and the
operator answers `None`. Decimal odds are at least 1
(`OddsAssumption`) and asks are sorted by price, as the docstring of `OrderBook`
says (`WireAssumption`). A size is recognisable by the price the wire
offered it with (`OfferedSize`). Left out: timestamps, bids (read only by spread
and mid price), `are_prices_different` (a comparison of one update, without
state), labels.

### Gateway

An action is the code between two awaits of one task. `Task.cancel()` kills the
task at once: a cancelled coroutine gets `CancelledError` at its await and none of
the three tasks does anything more with it. `emitted` holds the events of the
last step. The attempt after `DelayedAttempts` is one whose delay cannot be
computed: `factor ** (attempt - 1)` is a float power and raises `OverflowError`
(at the 1025th attempt by default), out of `_on_close`, before the timer is set. Not
modelled: the length of the delay (see `Backoff`), the non-fatal `error` event,
the texts. The socket is the websockets library as the code uses it: it
opens or fails, it closes in a clean way (1000, 1001, no code), with an auth
code or with anything else; frames may still be in its buffer after it closed.
A server may greet, be refused, send a hello that raises, or send data at any
time the protocol state of the client lets such a frame through.

### Client

One record `client` and, per caller, what its coroutine awaits. Handlers of every
gateway stay attached and do not ask who is speaking, so an old gateway acts on
the state of a new one. The book is the set of gateways that have put data into
it since it was last cleared. `abandoned` is a history variable, the gateways
whose `disconnect()` was given up at its await and that no `disconnect()` that
ran to its end came after; the properties need it to name that case. A cancelled caller of `connect()` cancels the
shared future under everyone who awaits it, as asyncio does. `last_error` and
what the application's own listeners do are left out.

### Feed

The server is external: it holds `truth`, and sends what the frame types say,
to a client whose session is up. Each frame carries `before`, the state its
receiver should have by then, which only the property `MirrorsServer` reads. A
frame is handled in one action, as no handler awaits. A reconnect keeps the
stores (`Lose`, then `Greet`); disconnect() and connect() make new ones
(`Renew`). Prices fit an event (`Fits`) when it has all their selections and they
are of one market; no prices at all fit every event, which is then upserted
unchanged. `Placements` is the interpreter's choice of where a new store lies:
anywhere no live store does, which includes where an old one was. `Unreadable`
versions are those `sport_event_from_json` raises on, such as a kind of
selection from a newer minor version. `replica` is what an application keeps if
it follows the public events and empties its copy when the connection goes.
Malformed ids and sources that are not the bookmaker of the id are left to
`OddsBook`.

### LineMoves

The tracker's handlers run inside the step of the feed that emits, after the book
has changed, which `find_context` relies on. The program connects once, so
`Renew` is left out. `quoted`, `unsaid`, `emptied` and `told` are history
variables: the prices announced per selection in this session, the selections
whose last price move was not an `odds:changed`, those whose source was cleared
when the book had nothing of it (no `source:cleared` then), and per selection the
price the user was last told of. `told` is read off the events and the log lines,
never off the baseline, so that `NoMissedMove` can compare the two. The two
properties name `unsaid` and `emptied` as exceptions, and they are the limits of what a listener of `odds:changed` and
`source:cleared` can know.

### Emitter and OddsStore

`emission` is the `emit()` under way, an action is one listener called, and
between two calls the registry may change in any way; a listener that raises is
the same as one that returns. `began` only serves the property. The SDK's stores
change only outside an emission of theirs. A version is a kind and a mark.
`moved` is a history variable: the events that were sent under two kinds since
the store was last emptied, of which `_by_kind` keeps the older version under
the older kind. A resync may bring one id under two kinds and leaves the same
(`Resyncs`).

### SelectionTypes, WireEntities, Protocol, Backoff, Inputs

Pure functions of one input, which `Inputs` makes the state. Kinds are pairs of
names, a wire entity the kind, the selections by id and the set of fields that
are there; two selections with one result raise, as in `Market.__post_init__`. A missing field raises, as `data[...]` does. `Holds` is the check of
`SportEvent.__post_init__`. A version text is the sequence of its dotted parts,
each a number or a `Word`. `ContractKind` is the table of
`src/tests/test_contract_spec.py`, which knows the kind of selection of every
market of the contract. Delays are integers: factors are whole and at least 1,
jitter in tenths, `random.random()` in parts of `Grain`; `factor ** n` is a
function on the naturals (`Power`).

## 3. The runs

| run | instance | states | checks |
|---|---|---|---|
| `book` | 2 bookmakers, 3 events and 1 malformed id, 9 versions, 5 markets, 6 selections | 108 | `TypeOK`, `IndexesExact`, `LookupsExact`, `NavigationAgrees`, `ViewSpec` |
| `client` | 2 gateways, 2 callers, `MaxAttempts` 2, `DelayedAttempts` 1, symmetry | 644 060 | `ClientTypeOK`, `BookFedBySession`, `ConnectedMeansGreeted`, `NoForgottenWaiter`, `DisconnectStops` |
| `client_live` | 1 gateway, 3 callers, `MaxAttempts` 2, `DelayedAttempts` 3, fairness | 12 086 | `TypeOK`, `OneConnector`, `GreetedHasSocket`, `SessionSpec`, `BackoffGrows`, `DownIsLeft`, `ConnectEnds`, `DisconnectEndsEventually` |
| `feed` | 2 sources, 3 events, 2 prices, 3 addresses, 2 frames in flight, symmetry | 944 491 | `FeedTypeOK`, `MirrorsServer`, `BookWithinStores`, `EventsTellBook`, `AddedOnce` |
| `line_moves` | 2 sources with 1 event of 1 selection, 3 prices, 2 addresses, 1 frame in flight | 1 598 280 | `TrackerTypeOK`, `NoMissedMove`, `BaselinesCurrent` |
| `market` | 2 kinds, 3 selections, 4 prices, 3 order books | 64 380 | `MarketTypeOK`, `SizeIsOfItsPrice`, `FairOddsAddUp`, `FairOddsSane`, `FairOddAnswered`, `DepthIsExact` |
| `store` | 2 events, 2 kinds, 2 marks, 2 listeners, 3 registrations at a time, symmetry | 591 189 | `StoreTypeOK`, `KindIndexExact`, `CalledAsRegistered` |
| `inputs` | all kinds of the contract and some that are not in it, versions up to 2.3, 162 policies, 8 attempts | 61 053 | `ContractIsRead`, `StrictRefusesUnknown`, `SportsAgree`, `UpgradesAreSafe`, `DelaysGrow` |

Why the bounds are enough. `book`: versions of one event gain, lose, keep and
share markets and selections, two events share a bookmaker, one does not, and
one has no bookmaker; the book has no counters, so the state space is complete
for these versions. `client`: the second gateway is what it takes for an old one
to interfere; two callers make every pair of overlapping calls. `client_live`:
three callers of one gateway, so that one can wait while two others race;
gateways share only `emitted`. Its third attempt exhausts the gateway, where in
`client` the second has no delay (in one instance only one of the two can happen
first, and `GatewayProofs` holds for every choice). `feed`: a ghost needs two
sessions, a cut snapshot needs an entry before and one after the unreadable one,
a reused address needs two gateways; all bounded only by the values above. `line_moves`: of the three prices neighbours are within
`DriftPercent` of each other and the outer two are not, so that drift adds up
over moves; both sources can vanish and come back; all frames are readable
there, as `feed` has the others. `market`: every combination of 1.60, 2.00,
4.00, 16.00 and no price in complete and incomplete markets, with margins from
-0.875 to 0.875; 1.60, 2.00 and 16.00 make a denominator that is zero. `store`: with `MaxListeners` = 3 registrations one listener can be
there twice and be removed before, at and after its own place in the list; two
kinds are what an event can move between. `inputs`: the contract is checked
whole, each market with each field missing, each event with up to two markets;
versions lie on every side of 1.0 and 1.2; policies have factors 1 to 3, jitter
from none to more than the delay, and a cap before, at and after the first
attempt. No run needs `CHECK_DEADLOCK FALSE`.

### Fairness

`FairClientSpec`, of the one run with liveness, assumes weak fairness of: the end
of a connection attempt (the library's `open_timeout`), the timer of a reconnect,
the receive loop on a closed socket, the end of a closing handshake
(`close_timeout`), and the resumption of a coroutine whose await is over. Of the
server only that it greets or hangs up: the code has no timeout on the greeting,
so `ConnectEnds` depends on it. Nothing is assumed of callers, of data, or of the
peer's closing. A stalled gateway (running, with no task left) is excluded by name
in `DownIsLeft` and `ConnectEnds`. There are three ways into it: a reconnect
attempt that fails, a clean close by the server (the violation runs show both),
and a delay that cannot be computed.

### Where code and documentation disagree

Each of these runs checks one sentence of the documentation and TLC finds a
counterexample; all but the clean close were also reproduced against the library
with the socket, where there is one, stubbed.

| run | what happens |
|---|---|
| `idle_client_connected` | `disconnect()` does not cancel `_open_task`; the socket opens later and the client is connected with no gateway |
| `reconnecting_forever` | a reconnect attempt that fails schedules its successor from inside the task the guard takes for running: no further attempt |
| `connected_forever` | a clean close ends `async for` without `_on_close`: status, book and `_running` stay |
| `deaf_store` | `_wired_stores` remembers `id(store)` of stores that are gone; a new store at the same address is not wired |

Six more things the models show, without a run of their own; the last four were
reproduced too. Where a passing property would forbid one of them it names it as
an exception. `connect()` after a
cancelled one, or while reconnecting, makes a new gateway and leaves the first
running (the `client` run has both feeding one book). After a snapshot cut short,
a price update brings an event of an earlier session back from its store and
announces it as updated, although the book never had it (hence the exception in
`AddedOnce` and the stores, not the server, in `BookWithinStores`).
`disconnect()` empties the book after `ws.close()`, not "immediately", and if it is
given up at that await it never does (`client.py:260`, 268-270).
`factor ** (attempt - 1)` overflows after the attempt was counted and before it is
scheduled: "unbounded attempts" (`reconnect.py:3`) end after the 1024th. A hello
whose data is no object makes `_on_close` drop an open socket, which nothing
closes, a later `disconnect()` included (no property forbids it, as `Gateway` has
it as the code does). An event sent under two kinds stays filed under both, and
the store gives the older version by the older kind (`moved` in `KindIndexExact`).

`BookFedBySession` and `ConnectedMeansGreeted` ask for a gateway that was greeted
on a socket its loop still reads (`Live`). They except a gateway in a
`disconnect()` that awaits `ws.close()` or was given up there (`BeingClosed`) and
one whose socket the peer closed cleanly (`CleanlyClosed`: `connected_forever`).

`FairOddsSane` states the limits of `get_fair_odd`: the comment of
`src/tests/test_entities.py` "Fair odd > raw price (margin is removed)" holds of
every market of two results, but in a market of three a result whose implied
probability is below a third of the margin (1.02, 13 and 51: the 51) has a
negative fair odd. Where it is exactly a third (1.6, 2.0 and 16.0: the 16.0)
`is_fair_odd_available` says yes and `get_fair_odd` raises `ZeroDivisionError`,
which `FairOddAnswered` names as its exception (`HasThirdOfMargin`);
`FairOddsAddUp` is about markets where every result has a fair odd.
`FairOddAnswered` holds for results of the market's own kind; for "draw" in a complete home/away market `is_fair_odd_available` says yes and
`get_fair_odd` raises.

## 4. The proofs

`OddsBookProofs`, for all ids, versions and bookmakers, from `Typing` and
`IdGrammar`: `BookTyped`, `IndexesAlwaysExact`, `LookupsAlwaysExact`,
`BookImplementsView`. The inductive invariant is `Good`: types and exact indexes
of a book. One lemma per index shows that `Put` of a batch with one version per
id keeps `Good`, another that `ClearBookmaker` does; the handlers are
compositions of these. Exactness is needed for the refinement: that
`clear_bookmaker`, which walks an index, removes every event of the bookmaker is
true only of an exact index. `NavigationAlwaysAgrees` adds `IdsAreMade`: the
index of a market leads to the event whose id its own id begins with, by
`LookupsAlwaysExact` and the grammar of `EntityIdProofs`.

`GatewayProofs`, for all gateways, callers and `MaxAttempts \in Nat`:
`GatewayInvariant` (`GInv`), and from it `GatewayTyped`, `NeverTwoConnectors`,
`GreetingNeedsSocket`, `CounterOnlyGrows` and `GatewayImplementsSession`. `OneConnector` is not
inductive: it needs that a live timer belongs to a running gateway, that an
untouched gateway has nothing, and that disconnect() only ever waits on a
gateway that is over. A step touches one gateway (`OthersUntouched`); for that
one there is a case per action. The refinement maps a gateway to a phase and
each action to a step of `GatewaySession` or a stutter (`StepSpeaks`).

`ClientProofs`, for all gateways, callers and policies, on top of `GInv`. A step
of the client is a step of one of its gateways or leaves them alone
(`ClientRunsGateways`), so the theorems on `Gateway` hold of them. `CInv` is the
four invariants of the run with `AbandonedStopped` (a gateway whose
`disconnect()` was given up is not running, and stays so) and
`ConnectorOwnsPending`: the coroutine that connects is the one whose future is
pending. Without it a `connect()` that ends
could forget the future of another, and `NoForgottenWaiter` is not inductive.
What a gateway emits only settles futures, whoever emits it (`OnlySettles`,
`EmissionsSettle`), and changes book and status in a way the gateway's own state
after the step allows (`FedByGateway`). `DisconnectAlwaysStops` needs `GInv`
alone.

`FeedProofs`, for all sources, events, prices, addresses and any number of frames
in flight, from `FeedTyping` (each event has a source), `NoneIsNothing` and
`TrackedPrices`. `MirrorsServer` is not inductive: `FInv` adds that the frames on
the wire are a chain, each leading from its `before` to that of the next and the
last to `truth` (`WireOK`), that every version is filed under its own id, and
`BookWithinStores`, as a frame of prices is computed on the store's version and a
removal is passed on only if the store had the event. `BookAlwaysWithinStores`,
`EventsAlwaysTellBook` and `AddedSaidOnce` follow handler by handler. The
tracker only listens (`TrackedFeed`), so these hold beside it; `TInv` is what it
keeps, with `ToldIsBaseline` (what the user was last told of is the baseline) and
`PricesClose` (no price that was announced is far from it). From these
`NoMoveMissed`, a property of steps, follows: what is too far after the step was
announced in it (`MovesHeard`).

`EntityIdProofs`, for all segments and without assumptions: `IdsParseBack` (what
`IdHelper` reads from an id is what the id was made of) and `GrammarSeparates`,
which is `IdGrammar` of the book for ids made by the grammar.

`MarketProofs`, for all prices, sizes, order books and markets that satisfy
`WireAssumption`: `MarketInvariant` (`MInv`: shape, constructor checks, sizes),
and from it `MarketTyped` and `SizesKeepTheirPrice`. `SizeIsOfItsPrice` alone is
not inductive, as an order book could put anything into a quote; the assumption
on order books and the shape of a selection make it so. Margin and fair odds are
sums over the selections: `SumUnrolled` takes one member out of a sum over a
finite set, and as a complete market has two or three results (`TwoOrThree`) its
margin is a sum of two or three shares, which says when the denominator is zero. From there `FairOddAlwaysAnswered`,
`FairOddsAlwaysSane` and `FairOddsAlwaysAddUp` are arithmetic on any prices of
odds whose shares are whole (`PriceAssumption`: every finite set of prices has
such a `Whole`). `DepthAlwaysExact` holds for order books of any length: since the asks
are sorted, those the loop counts are those within the limit.

`StoreProofs`, for all event names, listeners, events, kinds and marks, from
`EventNames` and `NoneIsNoVersion`: `EInv` says that an emission has called a
prefix of what was registered when it began, whatever happened to the registry,
and gives `EveryListenerCalled`; `IInv` says of each kind what is filed under it,
version by version, and gives `StoreTyped` and `KindIndexAlwaysExact`.
`KindIndexExact` is not inductive: the event a removal takes out of the index must
be filed under the kind the store has it by, and a stale version must be of an
event that moved.

`InputProofs`, for all versions and first frames that satisfy `VersionsAssumption`
and all wire entities: `UpgradesAlwaysSafe`, by cases of what the first frame is;
`StrictAlwaysRefusesUnknown`, from the same fact about one market
(`StrictMarket`); `SportsAlwaysAgree`, from the tables by cases of a market's
kind, where a kind without punctuation is none of them (`MalformedIsNoKind`);
`ContractAlwaysRead`, for every kind of the contract. `DelaysAlwaysGrow` is for
all policies of whole numbers, and every attempt (`PoliciesAssumption`). That
there is a function of powers (`PowerIs`) takes an induction, done on the set of the
numbers for which a property holds (`SetInduction`, from the library's theorem
that a non-empty set of naturals has a least member); the rest is that products
and quotients keep the order.

Only model-checked: liveness (`DownIsLeft`, `ConnectEnds`,
`DisconnectEndsEventually`), as the prover has no rule for fairness. Every other
property of a passing run is a theorem. The violation runs are
counterexamples and have nothing to prove.

## 5. Not modelled, and the plan

Not modelled: the text of labels and of the names of selections, dates, regions and
display names of events, spread and mid price, `are_prices_different`, type
aliases and exports, JSON text, logging, the command line and the shutdown signal
of the example. Floats are exact numbers everywhere but for the one overflow.
Default `max_attempts` is infinite, which TLC cannot enumerate; the proofs hold
for every number, and with no maximum exhaustion only disappears.

Next:

1. that the feed refines something smaller: per source, a book that takes the
   server's versions in order and loses them all when the session goes;
2. liveness as far as safety carries it: that whatever `ConnectEnds` excludes as
   stalled really has no step left, and that every other gateway has one enabled
   by a state predicate, as an invariant and a theorem;
3. that `Feed` and `OddsStore` agree on the store they both model.

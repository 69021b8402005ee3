# Formal model of the polyglot microservices shop

TLA+ specifications of the shop in this repository (the OpenTelemetry demo with
its deployment), TLC configurations that check them on small instances, and
TLAPS proofs that carry the main results to every size. Paths below are
relative to the repository's root.

Run a check with `tlc -config Checkout.cfg MCCheckout.tla` and a proof module
with `tlapm CheckoutProofs.tla`. `PROJECT.json` lists the runs, the lines each
definition translates (`map`), the hazards of the code, and the mutants: for
every property of a passing run, a plausible bug that the property catches.

## 1. Inventory

| component | state | operations | interacts with | what is hard |
|---|---|---|---|---|
| checkout (`src/checkout`, Go) | none of its own but the Kafka producer; each `PlaceOrder` holds a snapshot of the cart | `PlaceOrder` | cart, catalogue, currency, shipping/quote, payment, email by RPC; Kafka by an asynchronous producer all calls share | many remote effects without a transaction; partial failure; answers lost after the effect; panics that nothing recovers; shared channels |
| money (`src/checkout/money`) | none | `Sum`, `MultiplySlow`, `Negate`, tests | used by checkout | sign rules of units and nanos, int32, panics |
| cart (`src/cart`, C#) | one Valkey hash field per user, with a time to live | `AddItem`, `GetCart`, `EmptyCart` | Valkey; the frontend and checkout call it | read-modify-write without a lock; separate expiry command |
| frontend (`src/frontend`, TypeScript) | in the browser: the session in local storage, copies of it in modules, cached queries, the page's state | pages; API handlers; the encoding of messages | all services | several tabs, late and lost answers, errors after an order was placed, effects that run after a render |
| mobile app (`src/react-native-app`) | session and address in the device's storage | requests, settings | frontend proxy | asynchronous storage, restarts, changes under way |
| payment (`src/payment`, JS) | none | `Charge` | checkout, flags | two readings of the clock; no idempotency key |
| currency (C++) | rate table | `Convert`, list | checkout, frontend | digit-wise decimals; lookups that insert, without a lock |
| accounting (C#), fraud-detection (Kotlin) | order tables; a counter | consume `orders` | Kafka, PostgreSQL | automatic commits, redelivery, poisoned records |
| recommendation (Python) | `cached_ids`, `first_run` | list | catalogue | globals shared by threads |
| ad (Java) | `CPULoad`'s flag and workers | `getAds` | flags | flag and singleton outside the lock |
| flagd-ui (Elixir) | the flag file, a copy in `Storage` | read, write one, replace all | flagd reads the file | stale editors, death between decode and write |
| shipping, quote (Rust, PHP) | none | quote, ship | checkout; shipping calls quote | number conversions |
| email (Ruby) | in-memory deliveries | confirmation | checkout | grows under a flag |
| product-catalog (Go), product-reviews, llm (Python) | PostgreSQL (read only), canned texts | reads | frontend, checkout | flags |
| Kafka, Valkey, PostgreSQL, flagd | external | | | |
| proxy, images, load generator, observability, Kubernetes | configuration | | | |

What makes them correct, in a line each:

* money: sums are exact, and representable whenever the code relies on it.
* order total: exact, shown as charged, and no ordinary order brings the service down.
* checkout: no goods without their payment, no announcement without goods,
  answers the client can rely on, no cart emptied for an order that was not shipped,
  no wait but for one named party.
* Kafka hand-over: no order waits without a reason, none takes another's answer.
* cart: calls take effect one at a time for who waits, and are lost or undone only by
  calls that overlap them; no cart lives for ever.
* messages: what arrives is what was sent; nothing ordinary is refused.
* web shop: one shopper per browser, a cart on display that is the cart, no item
  paid twice by who waits, answers and quantities that belong to the product.
* mobile app: one user per installation, one address for data and traces.
* payment: only cards in date. currency: a conversion keeps the amount, as far as doubles do.
* consumers: every order is stored, and counted. flagd-ui: no saved change is undone.
* recommendation: answers are full. CPU load: none when the flag is off.

## 2. Modules

```
Order   <------ Checkout  (implements)         Cart <------ CartStore (implements)
                   |  Acknowledged stands for      ^
                   |  KafkaProducer                | AddItem and EmptyCart of Shop
                   |  PanickingCarts: OrderTotal   | assume what Cart promises
                                                CartHistory --> CartStore
Money <-- OrderTotal <-- Prices                KafkaProducer
Messages <-- MCCodec --> Codec
MCFrontend --> Frontend:  Session, Shop, ProductPage, Reviews, Mobile
MCServices --> Services:  CpuLoad, Recommendation, Currency, CardCheck,
                          FlagStorage, Accounting, FraudDetection
```

| module | models | state and actions |
|---|---|---|
| `Money` | `money.go` | operators only; `MCMoney` drives them with two registers |
| `OrderTotal` | the loop of `PlaceOrder` (main.go 333-344), `Must`, `MultiplySlow` | `total`, `out`, `n` and `i` are the program's variables; a step is one `Sum`, or the panic of its `Must` |
| `Prices` | what the two frontends make of prices: `ProductPrice.tsx`, `CartItems.tsx`, the order's page, the app's `ProductCard.tsx` | operators, compared with `OrderTotal` in `MCOrderTotal` |
| `Order` | what placing an order promises | abstract |
| `Checkout` | concurrent `PlaceOrder` calls (main.go 302-694) and the services they change | `pc` is the handler's place; `calls` the requests under way; `cart`, `charged`, `shipped`, `mailed`, `events` what the services did; `snapshot` is `prep.cartItems`; `copies` the carts that `AddItem` calls have read |
| `KafkaProducer` | `sendToPostProcessor` and `CreateKafkaProducer` | `state` is the sender's place in its nested selects, `fate` that of its message, `receipt` the answer it took |
| `Cart` | what a cart service promises | abstract |
| `CartStore` | `CartService.cs`, `ValkeyCartStore.cs` | one action per Valkey command; `value` is what a call read, `store` and `expiring` are Valkey's |
| `CartHistory` | the same calls, with history | the steps are those of `CartStore`; `settled`, `emptied`, `holds` and `carries` say which `AddItem` calls were alone with the cart, were emptied, and made what is stored or read |
| `Messages` | every message and service of `frontend/protos/demo.ts` | a table: name, number, kind and repetition of each field |
| `Codec` | the six functions that `demo.ts` generates for a message, over any table | a message crosses element by element: `rest` is what encode has still to write, `received` what decode has read |
| `Session` | `Session.gateway.ts` and the modules that copy from it, in several tabs | `storage` is `localStorage`; `call` a tab's call of the gateway between its read and its write; `user` the copies |
| `Shop` | the cart page: `Cart.provider.tsx`, `pages/api/cart.ts`, `pages/api/checkout.ts`, `Request.ts` | `request` is where each click's handler is, `answer` what its page got; `shown` and `fetch` are the query cache, per currency |
| `ProductPage` | the page of a product and `ProductAIAssistant.provider.tsx` | `effects` is the product for which the effects have run; `observed` the mutation on display |
| `Reviews` | the percentages of `ProductReviews.tsx` | one review more per step |
| `Mobile` | the app's `Session.gateway.ts`, `Api.gateway.ts`, `settings.tsx`, `useTracer.ts` | every `await` is a step; `start` counts the starts |
| `CpuLoad` | `CPULoad.java` | one action per access to a field without a lock |
| `Recommendation` | `get_product_list` | one action per access to a global |
| `Currency` | `Convert`, `GetSupportedCurrencies`, `getDouble`, `getUnitsAndNanos` | `currency_conversion` is the table of rates; `touching` are the calls inside it; `raced` says that an insertion met another access |
| `CardCheck` | `charge.js` | the clock may tick between any two steps |
| `FlagStorage` | `storage.ex`, `dashboard.ex`, `advanced_editor.ex`, the supervisor | `mailbox` and `doing` are the process's, `file` is on disk, `content` an editor's text |
| `Accounting`, `FraudDetection` | `Consumer.cs`, `main.kt` | `position` and `committed` are the client library's offsets |
| `Frontend`, `Services` | one instance of each of their parts, side by side, with the assumptions on their constants and the names of their properties | the parts share no variable |
| `MC*` | constants and symmetry for TLC, properties that only TLC checks, and choices between unrelated instances | |
| `FiniteSums` | lemmas on the sums of the community modules, by which `AmountsProofs`, `CartProofs` and `FrontendProofs` reason | |
| `*Proofs` | theorems about `Money` with `OrderTotal` and `Prices` (`AmountsProofs`), `Checkout`, `KafkaProducer`, `CartStore`, `Codec`, `Frontend` and `Services` | |

`MCAmounts`, `MCFrontend` and `MCServices` run several instances in one run: a
variable chosen at first says which one moves, and the variables of the others keep
their initial values. The instances share nothing, so each behaves as it would alone.

How the models correspond to the code:

* **Checkout.** Nothing in `PlaceOrder` locks, so handlers interleave at every
  remote call. Reads (cart, catalogue, conversion, quote) change nothing and are
  one step. A call that changes a service is sent (`SendCall`) and carried out
  later (`Serve`), and in between the handler may stop waiting (`CallFails`): the
  client's context is done, or the connection fails. The call stays under way
  then and may still be carried out, which is what makes the properties below
  hard. `CallFails` also covers refusals and calls that never left. Errors of
  `emptyUserCart` and the mail are ignored, as in the code; those of the charge
  answer `Internal`, those of the shipment `Unavailable`. A panic (`money.Must`,
  a nil producer) and a kill are the same step, `Die`: nothing recovers panics,
  and `srv.Serve` at line 268 blocks before the signal handler is installed, so
  SIGTERM ends the process at once. Prices and quantities are abstracted away
  here; a cart is a set of products. The cart changes from outside as the cart service
  and its callers let it: the shopper's own Empty Cart (CartDetail.tsx:70) or the
  expiry (`LoseCart`), and `AddItem` in two steps, which may write back what was
  emptied or drop what was added in between. A send on `Input()` (line 662) may wait
  for a full producer: `Publish` has no fairness, so that it may never come.
* **KafkaProducer.** The two channels of answers are unbuffered and shared. Which
  answer a receiver gets is a free choice; so is the library's result for a
  message. The library's pipeline is a set of at most `Capacity` messages: it has
  several buffers, all bounded, and a send on a channel that nobody reads blocks
  it from behind. A handler whose context is done before `Input` accepts returns;
  one whose context is done later reads the flag `kafkaQueueProblems` like those
  that got an answer, and may start any number of the goroutines in `Floods`.
* **CartStore.** A call may fail before any command (no connection, the store of
  the flag `cartFailure`) or after each (a timeout; a write that timed out but was
  carried out is a failure after the write). Commands of one process reach Valkey
  in the order they were issued on one connection, so a write that timed out does
  not overtake a later read. Quantities are any int32, zero and negative ones included
  (CartService.cs:37 checks nothing), and wrap.
* **Messages and Codec.** `demo.ts` repeats the same functions for fifty messages.
  `Messages` has what differs between them, `Codec` what they have in common: the
  order and the conditions of writing, the cases of `decode` with their tags, the
  skipping of unknown fields, `longToNumber`, both spellings that `fromJSON` takes,
  the defaults of `fromPartial`. A nested message is one element: it crosses by
  the same functions as a message of its own type, which is checked as well. At
  run time the frontend uses `encode` and `decode` (in gRPC clients); `fromJSON`,
  `toJSON` and `create` are exported, and nothing calls them.
* **Shop.** A click starts a mutation; nothing disables its button. Its handler and
  its answer are separate: the answer may be lost, or be an error for work that was
  done, which `checkout.ts` produces when the details of an ordered product cannot
  be read (line 22). The query cache behaves as react-query documents: a fetch
  under way is dropped by an invalidation unless the key has no value yet, and is
  kept when the shopper leaves the key. In the model the orders empty the cart in
  a step of their own, because checkout ignores that call's failure.
* **Session, Mobile.** A tab's script runs in steps that others see through the
  storage. Each load (or start of the app) makes up a user, used only if none is
  stored. The app reads the session twice per request, for the baggage and for the
  request, and the product and cart queries are taken as one.
* **FlagStorage.** A message that cannot be decoded, or has no object in it, kills the
  process before it writes; the supervisor restarts it from the file. The editor
  never casts text that is not JSON (line 74). A process that dies while it writes
  leaves a file that may not be readable, and may then never be back.
* **Accounting, FraudDetection.** The libraries commit in the background what was
  handed out (accounting) or at a later poll and at the close (fraud detection).
  A start without a committed offset begins at the first record (accounting sets
  `Earliest`) or behind the last (fraud detection leaves the default).
* **CpuLoad, Recommendation, Currency.** Each access to a shared variable is a step
  of its own. An insertion into the C++ map beside another access is undefined: the
  process may die (`Crash`), or go on with a table that has lost some of its codes, to
  which the look-up of a lost one returns the rate 0. Dividing by a rate of 0 and
  converting the result is undefined too: any amount. Doubles are counts of nanos with
  a relative error (`Slack`), so that the error of an answer grows with it.

## 3. Runs

| run | bounds | shows |
|---|---|---|
| `amounts` | sums: all pairs with units in -2..2 and nanos up to one above a unit, 10 nanos to a unit, two currencies; orders: up to two items, quantities 0..3, prices around 0, a half and one unit, 4 nanos to a unit | `SumIsExact`, `SumIsValidExactly`; the inductive invariant, `TotalIsExact`, `OrdinaryOrdersAreCharged`; `ShownIsCharged`: cart page, order page and charge agree |
| `checkout` | two calls of one user, one product, any number of additions and emptyings | the inductive invariant, the four safety properties, the refinement of `Order` |
| `checkout_live` | one call, two products, one cart that panics | `CallsEndOrWaitForOthers`, `CancelledCallsEnd`; `OrdersTakeOnlyTheirItems` where an order takes some items and others arrive late |
| `kafka` | three handlers, one goroutine, capacity two | the balance of answers, `BlockedSendersAreExplained`, `LiveUnlessOverloaded` |
| `cart` | three calls of two users, one whose calls may overlap (`alice`) and one who waits for every answer (`Serial`, `bob`); two products, int32 scaled to -4..3, quantities -1 and 3 | `CartsExpire`, `OnlyOverlapsLoseOrRestore` for overlapping calls; the refinement of `Cart` for the user who waits |
| `codec` | every message of `demo.ts` in either direction it is used and either form, up to three fields given, lists of up to two, two unknown fields, numbers on each side of every limit | `DeliveredIsSent`, `OnlyBadNumbersAreRefused`, types |
| `frontend` | two tabs and two currencies; two orders and an addition, or one order and two currencies; two products and questions; up to seven reviews; two starts, two requests and three changes of the address | the eight properties of section 1's web shop and app |
| `services` | three calls (ad, recommendation); two threads that convert and list again and again, two known codes and one unknown, an amount for each, doubles off by one part in 300; a clock of fifteen months; three messages, two editors or two flags, one death; four orders with two deaths or three starts | one property per service |

Why the bounds are enough. *Money*: the ratio of the int32 range to a unit is kept
(2^31 is between 2 and 3 times 10^9), which is all the branches depend on; two
units on either side reach every combination of signs, the carry and the borrow.
*Order total*: a second item starts from a total that a first has put into each of
its representations. *Checkout*: two calls on one cart are the smallest race;
calls of different users share nothing but the process and the producer; one product
may be added, read, emptied and written back any number of times.
*Kafka*: capacity two with three handlers lets abandoned answers fill the producer
with somebody left to block. *Cart*: a race needs two calls, a third
observes it, empties the cart between the read and the write of another, or is of the
other user; the theorems are for any number. Of the quantities, 3 wraps with itself and
-1 takes the sum below zero.
*Codec*: functions treat fields one at a time; three fields show an interleaving,
two elements an order, and the proofs remove the rest. *Frontend*: races need two
tabs, two orders, two questions; a third change of the address meets two that
overlap; seven reviews in five classes reach every remainder that differs in kind.
A failed fetch is asked again once (`Retries`, 3 in use), which is enough for a
retry to overlap a change. *Services*: fifteen
months hold a New Year with a month on each side; four records hold a batch with
something before and behind a poisoned one; three calls of CPU load allow a stop
between two starts.

Deadlock checking is off where the system legitimately comes to rest: all calls
answered, the clicks used up, or (Kafka) blocked for good, which the properties
are about.

**Fairness.** `Checkout`: each handler takes the steps that wait for nobody
(`WF` of `RunsAlone`: to compute, to send a request, to die of a nil producer, to give
up once its context is done), as goroutines do. The code sets no deadlines, so nothing
else is assumed: no other service has to answer, no connection to fail, Kafka neither
to take a message nor to answer, and no client to give up. `CallsEndOrWaitForOthers`
therefore names every wait that may be without an end.
`KafkaProducer`: goroutines run and the
library gets a result for each message it holds. Nothing makes a context done.
The other modules have safety properties only; several say what holds at rest.

**Runs that refute a claim** (`findings` in `PROJECT.json` quote it):

| run | claim | what happens |
|---|---|---|
| `money_signs` | demo.proto:195, signs of units and nanos match | 0.6 + 0.3 is one unit and -0.1 |
| `kafka_receipt` | main.go:658, producer.go:45: the handler handles the response to its message | two handlers swap answers |
| `cart_lost` | CartServiceTests.cs:86, a second add updates the quantity | two overlapping adds |
| `mobile_price` | demo.proto:193, nanos are 10^-9 units | ProductCard.tsx:49 divides by 10^8 |

What the properties had to make room for is worth as much to a reader:

* The sum with mismatched signs matters: the amount is right but the next `Sum`
  rejects the value and `Must` panics, taking the process down.
  `OrdinaryOrdersAreCharged` says which orders are safe: shipping of at least one
  unit and no item cheaper than half a unit bought more than once. In dollars all
  seeded prices (src/postgresql/init.sql 162-173) are. The comment at money.go:95,
  that nanos stay within the limit, fails for units that cancel.
* `MultiplySlow` returns its argument once for a quantity of zero, which the cart
  accepts (`Billed`, and the exception in `ShownIsCharged`). `IsPositive` accepts zero
  units with any positive nanos (`&&` binds tighter than `||`; nothing calls it).
* `PaidOnce`: the shopper who orders again after an error, or by a second click, or
  before the cart was emptied, pays the same items again.
* `CartOnDisplayIsCurrent`: an old cart may stay on display when a change was confirmed
  during the key's first fetch, or during the fetch for a currency that the shopper
  left and came back to, or when the cart was emptied after the confirmation.
* `OneShopper`: after the storage was cleared, or when two first visits overlap, a tab
  may show the cart of one user and order that of another.
* `HandledWritesLast`: an editor that is saved undoes the writes made since it was
  mounted, although storage.ex:6-7 says that the process prevents
  last-writer-wins; a flag whose write was cast is not yet written when the
  dashboard says "Saved".
* `OnlyOverlapsLoseOrRestore`: of `AddItem` calls that overlap one may be lost, and one
  that overlaps an emptying, of a checkout or of the shopper, brings back what was
  emptied. A product of quantity zero, or below, stays in the cart as an item.
* `OrdersTakeOnlyTheirItems`: what was added to the cart after an order had read it is
  emptied with it, neither paid nor shipped.
* `ConversionIsClose`: 0.08 is converted as 0.8; an unknown code stays in the table and
  in the list of supported currencies, converts to 0 and converts from to anything;
  where such an insertion met another access, so may a known code. For ordinary
  amounts the error of the doubles exceeds a nano in currencies of small units.
* `OrdersAreBooked`: an order in hand whose offset was committed is lost with the
  process, and so is one that cannot be stored. `OrdersAreCounted`: the records behind
  one that cannot be parsed, in the same batch, may never be counted.
* `RecommendationsAreFull`: requests before the cache is filled recommend nothing.
* `StoppedIsStopped` says nothing of an instance that was replaced by a racing
  `getInstance` while it runs: no later call reaches its workers.

## 4. Proofs

All hold for every value of the constants, under the assumptions the modules name,
which every run evaluates on its instance: `MoneyAssumption`, `CostsAssumption`,
`UnitsAreBounded`, `CheckoutAssumption`, `KafkaAssumption`, `CodecAssumption`;
`QuantitiesAreInt32` (which allows every int32), `UsersAreSerialOrNot` and
`NoCartIsNone` of `CartStore`; those of
`Frontend` and `Services`, which say that names that stand for nothing (`None`,
`NoFlags`, `Partial`) are none of the values, that scores are a finite set of numbers,
that `NanosMod` is a power of ten up to 10^9, `Precision` positive and the rates of the
table as it is built positive. A theorem about a part of
`Frontend` or `Services` speaks of the specification of that part.

* `FiniteSums`: `SumFunctionOnSet` is defined by a recursive function whose existence,
  and whose independence of the order of the elements, is proved first
  (`PartialExists`, `PartialAdds`). The library's induction theorems cannot be
  instantiated here; in their place stands a least counterexample (`SmallestSet`, by
  `LeastNumber`, from the well-foundedness of `<`). With it: sums add an element
  (`SumAdds`), a disjoint set (`SumUnion`), are linear (`SumLinear`) and monotone
  (`SumOfPart`).
* `AmountsProofs`: `SumIsExactForAll` and `SumIsValidForAll` by cases on the branches
  of `Sum`, with lemmas on the int32 wrap and Go's truncating division;
  `EverySumIsExact` and `EverySumIsValid` carry them to registers that any sums and
  negations have filled. `SumOfPrices` specialises them to amounts that are not
  negative. `IInv` strengthens the properties with `AccumulatorsArePrices` (a valid
  accumulator has nanos that are not negative), MultiplySlow's loop invariant (`out`
  plus the remaining additions is the billed price) and `OrdinaryInvariant` (the total
  keeps a unit; the accumulator is the unit cost, has a unit, or is zero), without
  which the next sum could be rejected. `LoopInvariant` adds the sum of the items
  passed so far; `TotalIsExactForAll` follows from it, and `ShownIsChargedForAll`
  because the pages' carries by division keep the amount (`CarriedKeeps`) and sums of
  units and of nanos combine by linearity.
* `CheckoutProofs`: `IInv` relates where a handler is to what its calls did.
  `SnapshotInv` says the cart never has items that neither the snapshot nor
  `addedSince` has, whatever was written back to it meanwhile, so that an order takes
  nothing else when it empties the cart; `ChargeInv` and `ShipInv` say that a request
  under way was not
  carried out yet and that its handler has got, or has lost, its answer. Each action
  has a lemma. From `IInv` follow the four safety properties and the step
  simulation behind `CheckoutImplementsOrder`: a step of a handler stutters,
  confirms or refuses; `Die` refuses all calls in progress at once.
* `KafkaProofs`: `Balance` counts answers owed and answers there; every receive takes
  one of both, a handler that gives up moves one to the abandoned, the logging
  goroutine moves one to the logged. Cardinality lemmas come from
  `FiniteSetTheorems`.
* `CartProofs`: `IInv` says that who waits for answers has one call under way
  (`OneAtATime`) and that what it read is still what is stored, or has expired
  (`ReadIsStored`). `CartIsImplemented` is the step simulation: a change takes effect
  when it is written, an expiry under a reader takes effect when that reader writes or
  ends, and calls of other users stutter. `OnlyOverlapsLoseOrRestoreForAll`
  is about `CartHistory`: `CartsAreExplained` says that the set `holds` explains each
  stored cart and `carries` each copy in the hand of a call that will write it back, so
  that what is written is explained by `carries` and the writer (`SumGrows`, from
  `SumAdds` and the remainders of int32). A call that wrote while another had a copy is
  not settled, and an emptying beside a copy empties nothing for good: those are the
  cases in which a stale copy would not be explained.
* `CodecProofs`: for every table of messages whose numbers are distinct, so for every
  message that could be generated. The invariant says that for each field what was
  received followed by what is still to be written, rounded as the form of the
  message rounds, is what was to be written at first (`Progress`). Distinct numbers
  make `Decoded` change one field only, and an unknown field none.
* `FrontendProofs`, one inductive invariant per part:
  - *Session*: `WritersAgree` says that a call between its read and its write will
    write the user that is stored, unless the storage was disturbed.
  - *ProductPage*: `Consistent` ties the mutation on display to the product for which
    the effects have run.
  - *Mobile*: `UsersAgree` covers the requests between their two reads of the session;
    `ChangeIsUnderWay` says where the address is while tracer and store disagree: with
    the last change that was stored, or with the one whose queries are awaited.
  - *Shop*, orders: an order that was confirmed has emptied the cart, or will, and an
    item is added by one click only (`ItemsAreAddedOnce`), so an order submitted after
    the confirmation has nothing of it to pay for (`OrdersAreApart`). Display:
    `DisplayIsRenewed` says that once all clicks are confirmed the key in use shows the
    cart, or is being fetched, and what was read for it is the cart, unless one of the
    three cases of `CartOnDisplayIsCurrent` has happened; and that a key out of use
    whose fetch goes on is overtaken.
  - *Reviews*: the remainders of the five divisions make up the missing points, fewer
    than there are stars that do not divide evenly (`MissingPoints`), so that one round
    hands them out (`Handed`), to none that divides evenly (`EvenIsNotGiven`), the
    larger remainder first (`LargerGoesFirst`). The distribution adds up to the number of
    reviews by `SumUnion`, whatever the scores.
* `ServicesProofs`, the same for the services:
  - *CpuLoad*: `Accounted` says that workers of an instance run under its flag, or a
    call is on its way to stop them or to set the flag; `Placed` that such a call has an
    instance.
  - *Accounting, FraudDetection*: what lies before the position, and before the
    committed one to which a restart goes back, is booked (counted), excused or in hand.
  - *CardCheck*: `ReadSoFar` places the months between the two readings of the clock.
  - *Recommendation*: `FilledFrom` says what of the two globals a request may rely on at
    each statement: once the cache is read it holds every item, for ever.
  - *FlagStorage*: `StorageInv` says that the last variant of each flag is in the file,
    or in the process while the file is half written; `EditorsInv` that every text in an
    editor or the mailbox has it too, but for the flags its editor is stale for.
  - *Currency*: `getDouble` is a recursive function on nanos; `Closed` is what its loop
    computes (the digits of nanos shifted to the point), proved by a least counterexample
    on nanos. From it `DecimalIsAtLeast`, and equality when no leading zero is lost;
    `SlackKeepsOrder` keeps bounds under the error of doubles. `RatesAreTheirs` is the
    inductive half: a rate in the table, or in the hands of a call, is the one of its
    code, or 0 after a race, for any number of threads, requests and insertions.

Proving corrected the model once: a fetch that fails and is asked again kept its old
place in `Shop` after the shopper had left the key, although nothing renews it then;
`overtaken` now keeps such a key, and the run allows a retry.

Only model-checked: liveness (`CallsEndOrWaitForOthers`, `CancelledCallsEnd`,
`LiveUnlessOverloaded`), which is beyond the prover. Every other property of a passing
run is stated by a theorem.

## 5. Abstractions

* Units of money are unbounded integers: an int64 overflow needs orders of 10^18.
* `Prices` takes doubles as exact, up to the nano that the conversion back to an integer
  may lose; the two decimals on display are left out.
* `Currency` bounds the error of a conversion by one nano and one part in `Precision`:
  some thirty roundings of binary doubles make that about 2^47 in the code. Amounts are
  not negative and small enough for a converted amount to fit a long.
* `OrderTotal` starts from the count to which a quantity is converted (main.go:340): a
  negative one is a count near 2^32, and that many additions.
* `Shop` takes the cart service at its promise (`Cart`): its calls are atomic there.
  `CartStore` keeps that promise only for calls that do not overlap; where they do,
  `cart_lost` and `OnlyOverlapsLoseOrRestore` say what is left, and an emptied cart can get its items
  back. `Checkout` assumes none of it: its cart may lose and regain items at any time.
  `Shop` also takes an order at its promise (`Order`).
* A handler's reads are atomic and return nothing but the cart; a product that
  vanished or a failed conversion is `ReadFails`.
* There is one checkout process; replicas share only the services.
* `Codec`: the writer of `@bufbuild/protobuf` is external; no peer sends the
  end-group tag or the tag 0, at which `decode` would stop; texts and nested
  messages are members of a small set.
* react-query, React's effects, Kafka's clients, GenServer and gRPC are external and
  modelled from how the code uses them.
* Recommendation: the page sends its product ids as one text joined by commas, which
  is what the service splits (recommendation_server.py:74-75); a request asks about at
  most one product.
* `CPULoad`'s fields are neither volatile nor locked; a thread is assumed to see what a
  call before it wrote.
* Accounting: PostgreSQL's transaction is atomic, and its primary keys refuse an order
  a second time.
* Telemetry, logging and health checks are left out.

## 6. Not modelled

* Stateless reads: product-catalog, product-reviews, llm, quote and the quote's part of
  shipping, and the frontend's handlers that forward them. `Checkout` has them as
  reads that may fail.
* email's in-memory deliveries under the flag `emailMemoryLeak`; nothing reads them.
* Presentation: markup, styles, forms, image loading, the advertisements and
  recommendations beside a product; the app's screens. The app's `Setting` lets the
  stored address, when it arrives, overwrite what was typed by then (Setting.tsx:22;
  `loading` is never true), and images keep the address they were loaded from.
* The app's `protos/demo.ts`, an older copy of which only the types are used, and its
  `setSessionValue`, which spreads a promise it did not await: nothing calls it.
* The double-checked lock around connecting to Valkey.
* Configuration: Kubernetes manifests, compose files, proxy, collectors, CI, load
  generator, trace-based tests.

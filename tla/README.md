# Verification of the four server projects

This directory specifies, model-checks and proves properties of the programs in
this repository. The repository holds four independent systems and a copy of a
tutorial; they share no code:

| System | Where | What it is |
| --- | --- | --- |
| stock exchange | `src/project4_stockexchange/docker-deploy/matching-engine` | C++ server, one thread per client, tables in PostgreSQL |
| HTTP proxy | `src/project2_HTTPproxy/docker-deploy/src` | C++ caching proxy, one thread per request |
| miniUPS | `src/project5_miniUPS/docker-deploy` | C++ backend between a world simulator, Amazon and a Django site |
| ride sharing | `src/project1_ridesharing/docker-deploy/web-app` | Django site on PostgreSQL |

The exchange is the core of this development because its logic (partial fills,
priorities, cancellations, a transaction per request, shared connection) is the
richest; it was modelled, checked and proved first. The proxy, its cache and its
threads, came second; the miniUPS backend with its web site and its messages, and
the orders of the ride-sharing site, third.

In the tables below a file name without a path is in the directory of the system.

# 1. Inventory

## 1.1 Stock exchange

**State.** Tables `ACCOUNT(ACCOUNT_ID, BALANCE >= 0)`, `SYMBOL(SYMBOL, ACCOUNT_ID,
SHARE_COUNT >= 0)`, `ORDERS(UNIQUE_ID, ORDER_ID, ..., AMOUNT, LIMIT_PRICE, STATUS,
TRANSACTION_ID, CREATED_AT)` and `TRANSACTIONS` (the ledger); two sequences behind
`UNIQUE_ID`/`ORDER_ID` and `TRANSACTION_ID`; the program's global `order_id`; one
`pqxx::connection` shared by all threads, with at most one registered
transaction; the global `db_mutex`.

**Operations.** `<create>` with children `<account>` and `<symbol>`, each its own
transaction (`insertAccount`, `insertSymbol`); `<transactions>` with children
`<order>` (`insertOrder`, then `match_orders`: `execute_trade` and
`update_order_status` for both rows), `<query>` (`queryAll`) and `<cancel>`
(`cancelOrder`), all in one transaction `W` that is committed at the end or
aborted on an exception.

**Interactions.** `Server::runServer` accepts and starts a detached thread per
client; the thread reads once, parses, calls `handle_creation` or
`handle_transactions`, writes the response and closes. All threads use the one
connection. `db_mutex` is held for all of a create, but only function by
function in a transactions request.

**Hard behaviour.** A row that trades partially is *split*: the old row becomes
the executed part and a new row keeps the remainder, under the same `ORDER_ID`;
the sweep runs over result sets taken before the splits; statements that fail
abort `W` while the code goes on; two counters number orders; two requests
overlap on the connection; an exception in one thread, a client that hung up or a
failed `accept` ends the process for all.

**What makes it correct.** Amounts are conserved over splits; nobody trades beyond a
limit; the ledger and the order table agree; a cancelled order stays cancelled; a
sweep ends and leaves no crossing orders; rollbacks do not tear the tables; requests
exclude each other on the connection; whoever has sent a request is served, as long
as the process lives.

## 1.2 HTTP proxy

**State.** The static `LRUCache` (a list of keys in order of use, a map from keys
to list iterators, a map from keys to responses), the global `mutex`, the log
file; per request a thread with a client socket and a server socket.

**Operations.** `Proxy::run` accepts; `handleRequest` dispatches to
`handleConnectRequest` (tunnel), `handlePOSTRequest`, and for GET to the cache:
`cache.get`, `handleCachedResponse`/`shouldUseCache` (expiry, revalidation),
`forwardRequestToServer`/`handleGetRequest` (receive, forward, `printCacheLog` →
`cache.put`).

**Interactions.** All threads share the cache and the log under one mutex, taken
call by call: between `get`, the judgement of freshness, `remove` and `put` other
threads run.

**Hard behaviour.** Responses judged after the lock is released; an entry removed
because an older copy of it expired; a mutex locked twice on the path of a valid
cached response (`proxy.cpp:636-638`); failed reads used as lengths; the answer
to a revalidation mixed with the answer to the forwarded request.

**What makes it correct.** The three containers of the cache agree whatever the
calls; the cache is a bounded store that gives up the least recently used key;
only storable answers are stored; nothing expired or unvalidated is served;
every thread gives the mutex back.

## 1.3 miniUPS

**State.** Tables of trucks, packages and deliveries; `receivedSeqSet`,
`waitingForAckSet` and `seqnumGlobal` in the backend; two sockets, to the world
simulator and to Amazon; one shared database connection and five mutexes. Only one
truck is ever inserted (`handleinit.cpp:29-42` stands behind the loop).

**Operations.** From Amazon: `handleAUNeedATruck` (take the truck, record the
package, call the truck), `handleAUTruckCanGo` (send the loaded packages out). From
the world: `handleArrivedWH`, `handleUDeliveryMade`, `handleFinishAll`. Each message
gets a detached thread. The web site changes a package's address
(`package_details`), which the backend learns of through the table.

**Interactions.** Messages with sequence numbers, which the peers resend until they
are acknowledged, as size-delimited protocol buffers; one SQL statement per
transaction on a connection that allows one transaction at a time; the tables
shared with the web site.

**Hard behaviour.** The look-up and the insertion of a sequence number in two steps
without a lock; one set of received numbers for two peers; the truck read and
marked in two transactions; updates of every package a truck ever had; whole rows
saved by the web site; two statements at once, which end the process; an input
stream that is thrown away after one message, with what it had read of the next.

**What makes it correct.** A package is fetched once and is on record by then; the
truck is only taken by an order that will call it; a package is dropped where
Amazon was told; nothing is recorded as delivered that was not dropped; every
order gets the truck and every delivery is recorded, as long as the process lives
and the numbers of the two peers do not meet; a handler gets messages as they were
sent, as long as reads begin where frames do.

## 1.4 Ride sharing

**State.** Orders (owner, driver, status open/confirmed/completed, total of
passengers, shareable), their riders, and a party per rider.

**Operations.** `request_ride`, `modify_ride`, `cancel_ride`, `join_ride`,
`confirm_order`, `complete_order` and `order_detail`, each one request that reads a
row and later saves it whole, without a transaction around the two;
`search_rides` and `search_ride_driver` only read.

**Hard behaviour.** Two requests that read the same order and both save it; an
order saved again after it was deleted; cancelling a share in four transactions.

**What makes it correct.** A row's driver is one who confirmed it; an order goes
from open to confirmed to completed; its riders are those with a party and the
total of passengers is the sum of the parties.

## 1.5 Left aside

Vendored `tinyxml2`, socket helpers, HTTP text and
date parsing, Django settings, templates and login, the load generators of the
exchange, and `src/tutorial`. They keep no state of their own that the systems'
properties depend on, or are libraries.

# 2. Plan

| Step | Modules | Question | State |
| --- | --- | --- | --- |
| 1 | `MatchingEngine`, `MatchingEngineProperties`, `OrderPromise`, `MCMatchingEngine` | What do the tables keep true over splits, rollbacks and cancels? | done |
| 2 | `StockExchangeProofs` | The same for every set of accounts, amounts and limits, and the refinement | done |
| 3 | `ExchangeServer`, `MCExchangeServer`, `StockExchangeProofs` | Who is inside a transaction when, and who waits for what? | done |
| 4 | `RecencyStore`, `LRUCache`, `ProxyProofs` | Is the cache's bookkeeping an LRU store? | done |
| 5 | `Proxy` (composes `RecencyStore` with request threads), `MCProxy`, `ProxyProofs` | Freshness and mutex across threads; the wedge at `proxy.cpp:638` | done |
| 6 | `UPSBackend`, `UPS` (with the web site), abstract `PackageJourney`, `MCUPS` | Repeated messages, one truck, whole rows saved by the site | done |
| 7 | `UPSProofs` | The same for every number of packages, messages and threads, and the refinement | done |
| 8 | `RideOrders`, `MCRides`, `RideOrdersProofs` | One driver, onward only, party sizes | done |
| 9 | `WireFormat`, `MessageClass`, `AmazonMessages`, `WorldMessages`, `MessageMethods`, `ProtocolBuffers`, `MessageLink`, abstract `AbstractMessage`, `MessageRules` and `MessageSchema`, `MCMessageLink` | Do the generated classes act as the messages of their `.proto` files, through the socket? | done |
| 10 | `Sums`, `SumTheorems` | Sums over the rows of a table, with the laws that steps 2 and 8 rest on | done |
| 11 | `MessageTables`, `MessageMethodsProofs`, `MessageTablesProofs`, `MessageLinkProofs` | The same for messages of every size and content, and any number of them | done |

Abstract specifications: `OrderPromise` (orders seen from commit to commit),
`RecencyStore` (a store with recency), `PackageJourney` (what happens to a package)
and `AbstractMessage` (a function from fields to values). Each pass run asks one
question of one component; runs that are expected to fail confront the code with a
sentence of its own comments, tests or documents.

# 3. The modules

## 3.1 MatchingEngine

One request at a time (who overlaps with whom is `ExchangeServer`'s matter).

| Model | Code (`database.cpp`) |
| --- | --- |
| `db` / `saved` | the tables as `W` sees them / as last committed; `placed` remembers what the client asked for, which the rows forget |
| `rowSeq`, `txnSeq` | the two sequences: a rollback does not take a value back |
| `clock` | `NOW()`, the start of the transaction, which is `CREATED_AT` of every row it inserts |
| `order_id` | the program's counter, the id in `<opened>` |
| `buys`, `sells`, `buy` | `buy_orders`, `sell_orders` and the current row of `match_orders`: snapshots, as a `pqxx::result` is |
| `pc` | between requests, in the loop over children, in the outer or inner loop of `match_orders`, or in an aborted `W` |
| `insertAccount`, `insertSymbol` | one transaction each, so `saved' = db'` |
| `PlaceOrder`, `RejectOrder` | `insertOrder` with its checks, the response, and the first SELECT of `match_orders` |
| `NextBuy`, `NextSell`, `NoMoreSells`, `NoMoreBuys` | the two loops; `Trade` is `execute_trade` with both `update_order_status` calls and the `break` |
| `cancelOrder`, `cancelUnknown`, `queryAll` | the other children; a failing refund leaves `W` aborted (`pc = "failed"`) |
| `AbortRequest`, `CancelInFailed`, `Commit` | what the remaining children and the end of the request do |

Abstracted: amounts and prices are integers (rounding to `DECIMAL` columns is
left out), the XML text, and the texts of errors. `ORDER BY` leaves ties open and
a SELECT without it returns any row first: both are choices in the model.

`MatchingEngineProperties` states the properties; `OrderPromise` is the abstract
order book, whose one variable the mapping `Book(saved)` computes from the
committed tables. Sums over rows, here and of passengers in `RideOrders`, are
`SumOver` of the small module `Sums`.

## 3.2 ExchangeServer

| Model | Code |
| --- | --- |
| `at[c]` | where the thread of client `c` is between `accept` and `close` |
| `mutex` | the owner of `db_mutex` |
| `guest` | the transaction registered with the `pqxx::connection` |
| `left[c]` | children of the request not handled yet |
| `fate` | `"runs"`, or what ended the process; nothing restarts it |
| `Construct`, `Register` | the constructor of a `pqxx::work`: look whether the connection is free, then register. Two threads may both look before either registers: the library does not lock |
| `Receive` | the one `read`; the client may stay silent for ever, and nothing ends the wait |
| `CreateThrows`, `TransactionsThrow` | an attribute that is missing or a text that is no number, read outside the `try` blocks (`database.cpp:236`, `:247`, `:251`, `:370`), and a look-up that fails (`:374-377`) |
| `Respond` | `send` and `close`; `send` to a client that hung up may raise SIGPIPE (`server.cpp:163`) |
| `AcceptFails` | the `exit` when `accept` fails |
| `CreateRefused`, `Terminate` | the `usage_error` when the connection is taken: caught in `handle_creation`, not caught at `database.cpp:374` |
| `CreateChild` ... `CreateEnds` | a create holds `db_mutex` for the whole transaction |
| `Child`, `ChildDone`, `Match`, `LockTrade`, `TradeDone`, `Finish` | a transactions request takes it function by function, inside its transaction |

Abstracted: what is in the tables, and the number of trades of a sweep (one
stands for any number, as each locks and unlocks in the same way). A client that
never comes, comes and says nothing, or hangs up is a behaviour of the model.

## 3.3 LRUCache and RecencyStore

`LRUCache` has the three containers: `order` is the list of node addresses,
`holds` what each node stores, `keyMap` the iterators (addresses), `cacheMap` the
values. A freed address may be handed out again, so a stale iterator would be a
wrong node and not merely a missing one. `get`, `put` (as `update`, `insert`,
`evict`) and `remove` are the class's methods, statement for statement; each is
one step because every caller holds the proxy's mutex around the call.

`RecencyStore` is what such a cache promises: a map, and a relation "used after".
It does not know a list. The mapping reads the relation off the list.

## 3.4 Proxy

| Model | Code (`proxy.cpp`) |
| --- | --- |
| `at[t]` | where thread `t` is in `handleRequest` and the functions it calls |
| `line[t]`, `entry[t]`, `got[t]` | `firstLine`, the copy `cache.get` returned, the response `printCacheLog` would keep |
| `mutex` | who keeps the mutex between two steps; a lock, some work and an unlock are one step |
| `store`, `newer`, `answer` | the cache, as the `RecencyStore` that `LRUCache` implements |
| `checked` | threads whose conditional request was answered (or hung up on), for `NoCacheAsked` |
| `alive` | nothing was thrown out of a thread, no SIGPIPE, no failed assertion |
| `Accept` ... `Dial` | `run`, and `handleRequest` up to the method |
| `Lookup`, `Judge`, `Remove`, `Ask`, `Answered`, `Hit`, `Serve` | a GET with a copy in the cache |
| `Forward` ... `Store` | `forwardRequestToServer`, `handleGetRequest`, `printCacheLog` |
| `Tunnel`, `Post`, `PeerFails` | CONNECT, POST, and reads and writes that fail |

Abstracted: a response is whether it is no-cache, has an ETag, a modification
date, and anything by which it expires; its text, the log's text and time are
left out, so what can expire may expire at any moment. `entry` is a copy: other
threads may evict, remove or replace the entry while it is judged. A miss and
a copy found unusable come to the same `Forward`, which differ in the log only.
A thread that is done stands for the next one that `run` starts, so the number of
requests is not bounded.

## 3.5 UPSBackend, UPS and PackageJourney

| Model | Code (`backend/`) |
| --- | --- |
| `truck`, `package`, `delivery` | the rows of `UPS_truck` (there is one), `UPS_package` (status and destination) and `UPS_delivery` (which times are set) |
| `receivedSeqSet` | the set of both peers' numbers |
| `Threads` | `<<peer, n, c>>`: the thread that runs the handler of the c-th copy of the peer's n-th message |
| `pc`, `held` | the statement a thread is at, and the rows its last SELECT returned |
| `alive` | nothing was thrown out of a thread |
| `Receive`, `InsertAndAck` | `hasReceivedMessage`: find, then insert, then the acknowledgement |
| `GetTruck` ... `SendPickup` | `handleAUNeedATruck` with `getTruckTopickup` |
| `MarkDelivering` ... `StampStart` | `handleAUTruckCanGo` up to the loop over the rows |
| `TellAmazon`, `SendDeliver` | one `sendArrChangeToAmazon` after the other, with seven seconds of sleep after each, and then `UGoDeliver` |
| `TruckArrived` ... `NotifyArrived` | `handleArrivedWH` |
| `SelectDest` ... `MarkDelivered`, `TruckIdle` | `handleUDeliveryMade`, `handleFinishAll` |
| `Collide` | two threads inside `executeCUD` or `executeRead` at once, which the mutexes of the writers do not exclude: the second transaction throws and the process ends |
| `TearSet` | `receivedSeqSet` used by two threads while one inserts: a data race whose outcomes are taken to be the right one and the end of the process |
| `AmazonOrders` ... `WorldFinishes` | the peers, as the handlers and the protocol use them |
| `page`, `ReadPackage`, `SavePackage` (`UPS`) | `package_details` of the site: the row it read, and `package.save()` |

One SQL statement is one step, since each has a transaction of its own. A peer may
repeat any message at any time (`MaxCopies`), and messages get their threads in any
order. `AmazonFirst` and `WorldFirst` are the first numbers of the two peers;
nothing keeps the numbers apart, in the code or in the model. A number that Amazon
has used makes `Receive` ignore the world's message that bears it
(`handleworld.cpp:5`): `TakenByAmazon`. `called`, `dropped` and `told` are histories
for the properties. Abstracted: positions, times, accounts and texts; a message with
several parts is as many messages with one; the sequence numbers the backend sends.

`PackageJourney` is the life of a package without threads, rows and statements:
recorded, called for, sent out, dropped.

## 3.6 RideOrders

| Model | Code (`web-app/myUber/views.py`) |
| --- | --- |
| `order`, `riders`, `parties`, `partySeq` | the rows of `Order`, its many-to-many riders, the rows of `RideParty` and their keys |
| `req[r]` | a request under way: its view, its user, the order and the copy of the row it read |
| `Begin` and the views | the query a view begins with and the tests it makes of the row |
| `Save` | `save()`: every column as the copy has it; brings a deleted row back |
| `PutParty`, `CreateParty`, `AddRider` | `update_or_create`, and `riders.add` |
| `DeleteOrder`, `FindParty`, `Deduct`, `RemoveRider`, `DeleteParty` | the statements of `cancel_ride` |

Every statement commits alone (`ATOMIC_REQUESTS` is not set). A statement that
violates a foreign key ends its request and keeps what was committed. Abstracted:
places, times, vehicles and messages to the user.

## 3.7 Protocol buffers

`AmazonMessages` and `WorldMessages` hold one table for each method of each of the
25 generated classes: which members it copies, which masks it tests, which tags its
switch knows, in which order it writes. Each table is read off its own method of
`*.pb.cc` or `*.pb.h` and never off another or off the `.proto` file, so a table
that disagrees with the rest shows. `MessageClass` explains the tables,
`MessageMethods` gives the methods their meaning, once for all classes, with
`message.hpp`; `WireFormat` is the runtime library as far as the classes call it.

A method calls the same method of the classes of its fields. `MessageMethods` takes
those as one constant operator, `CallIn`, given the method's name, and `ProtocolBuffers`
instantiates it four times, each time over the methods of the level below:
`FlatMethods` for the classes without messages in them, up to `Methods` for all,
since `AUCommands`, `AUNeedATruck`, `Pack`, `Product` is the deepest nesting. So
nothing is recursive, and what is proved of one level is proved of each.

`MessageSchema` holds the `.proto` files and `MessageRules`, built up over the same
four levels, what follows from them alone: the bytes of a message, when it is
complete, what merging means, and the values that messages are filled with.
`MessageTables` says what the tables of a class owe each other and the `.proto`
file; only the proofs use it. `AbstractMessage` is the message a user of a class
sees; it gets the fields of a type and the meaning of a merge as constants.
`MessageLink` is a sender that fills an object in any way, the frames on a socket,
and a round of `handleReceive`: a new stream object takes what has arrived, the
first message is parsed and handed to a thread (copied, then moved), and the stream
goes with the rest. What has arrived may end anywhere, also inside a frame
(`Inside`, `Buffer`, `Consume`): messages that arrive together are lost, and the
next read may begin in the middle of one (`torn`). Such a read takes some bytes for
a size and some for a message (`ReceiveTorn`); what they parse to is not followed:
the handler gets nothing, or `Stray`, and the read may end anywhere, at a frame as
well. `ReceivedWasSent` says what the other reads hand over; `read` numbers the
frames they parsed, and has a 0 for a stray.

Abstracted: numbers are small naturals (negative ones take ten bytes); wire types 1
and 5, which no class writes; field numbers are below 16, so a tag is one byte;
the two writers (`SerializeWithCachedSizes` and the one to an array) make the same
writes and are one table.

# 4. Runs

| Run | What it shows | Bounds |
| --- | --- | --- |
| `matching` | `TypeOK`, `RowsConserveAmount`, `OneOpenSellRow`, `TradesWithinLimits`, `SellSideLedger`, `CrossedOnlyAfterRetrade`, `CancelledIsFinal` | 2 accounts, 1 symbol, amounts -2, 1, 3, limits 1, 2; 3 orders, 3 requests of up to 2 children |
| `matching_progress` | `KeepsPromise`: commits implement `OrderPromise`; `MatchTerminates` | 1 account, 2 symbols, amounts -2, 3, one limit, 3 orders, 3 requests |
| `server` | `ServerTypeOK`, `CreatesExclusive`, `NoLeakedWork`, `TakenNeedsTransactions`, `ClientServed` | 3 clients, up to 2 children each |
| `lru_cache` | `CacheTypeOK`, `IteratorsValid`, `ImplementsStore` | 4 keys, capacity 3, 4 node addresses, 2 values |
| `proxy` | `TypeOK`, `NoCacheAsked`, `KeptOnlyByHit` | 2 threads, 2 lines, a cache of 1, 4 kinds of response |
| `ups` | `TypeOK`, `OnePickupPerPackage`, `DroppedWhereTold`, `DeliveredWasDropped`, `FollowsJourney` | 1 package, 2 addresses, 3 messages of Amazon, 4 of the world, one of them repeated, 1 new address |
| `ups_orders` | `TruckIsExpected`, `OrderGetsTruck`, `DeliveryIsRecorded` | 2 packages, 4 and 4 messages, none repeated; numbers 1 to 4 and 2 to 5 |
| `rides` | `TypeOK`, `DriverAnswers`, `AloneGoesOnward`, `AloneAddsUp` | 1 order, 3 users (2 drive), 2 requests at a time, 5 in all |
| `messages` | `TypeOK`, `EncodesSchema`, `SizeIsLength`, `RoundTrip`, `InitializedIsComplete`, `ReceivedWasSent`, `ActsAsMessage` | all 25 classes; 2 elements of repeated fields; 3 messages of one class, 1 of the others; 1 stray |
| `buy_overfilled` | fails: an order buys more than it asked for | 4 orders |
| `hit_wedges` | fails: a valid cached response is never sent | 1 thread |
| `delivered_where_asked` | fails: delivered, but not at the address on record | as `ups` |

**Why these bounds are enough.** A sell of 2 is larger than the small buy and
smaller than the large one, so sells and buys are both split, and with three orders
a buy meets two sells and a sell two buys; two limits give trades at either side's
price and orders that do not cross; three requests put an order, a cancel and a
rollback in different transactions. The second child of a request is where a failed
statement, a later order or a second sweep follows the first. Three clients are the
least with which one waits for the mutex while two are inside a transaction, two
children the least with which a request locks, unlocks and locks again. One node
more than the capacity makes every insertion after an eviction reuse an address;
four keys make the evicted key differ from the one that comes in, the one used last
and the one in between. The proxy's two threads meet at the same line or evict each
other's one entry at every point of a request; the four responses are the ones the
code tells apart (plain, no-cache that cannot be validated, no-cache with one
validator, one that expires and has the other validator). In `ups` the three and
four messages are one more than a whole journey takes, so that the repeated message
may be any of them; the second address is the least with which a row can be stale. A
page read before the truck leaves and saved afterwards puts an old status back in
`ups`, which is what `DeliveredWasDropped` is about. In `ups_orders` the second
order polls behind the first, or takes the truck from under it. Of Amazon's numbers
1 to 4 and the world's 2 to 5, the second order may make the first arrival a copy,
and a later message the report of a delivery; without their exceptions all three
properties are violated, so it does happen, and both packages can also be delivered
with nothing dropped. Five ride requests, two at a time, are enough to request, join
or confirm twice, cancel or complete, and overlap at any of them. For `messages`,
two elements show appending and merging; the values filled in take no byte, one byte
and two bytes, and the messages merged and parsed include one that lacks a required
field, so every mask, tag and guard of every class is used both ways; three messages
on one connection show a frame that is lost between two that are not, and one whose
beginning is lost. `MaxOrders`, `MaxRequests`, `MaxOps`, `MaxChildren`, `MaxAmazon`,
`MaxWorld`, `MaxCopies`, `MaxResent`, `MaxEdits`, `MaxStarts`, `MaxItems`, `MaxSent`
and `MaxStray` are bounds of the check and not of the code; the proofs do without
particular values.

**Deadlock** is not checked where clients may simply stop (`CHECK_DEADLOCK
FALSE`): both exchange models end when all requests the bounds allow were made,
and the proxy stops when its process is dead or every thread waits for the mutex.
The miniUPS model ends when its peers have said all the bounds allow or the process
is dead, the ride-sharing model when all requests were made, and a sender of
messages when it has sent its last. The cache accepts calls for ever and is
checked for deadlock.

**Fairness.** `MatchTerminates` assumes that the thread in `match_orders` runs on
(`WF_vars(match_orders)`) and nothing of clients. `ClientServed` assumes that each
thread that has its request and can take a step does so unless the process is dead
(`Serve`); this holds of threads of an operating system. Nothing is assumed of
clients: `read` has no timeout, a client may stay silent for ever, and the property
is about those whose request was read, whoever else is silent meanwhile. That `send`
returns is assumed: an answer to at most 1023 bytes fits the socket's buffer, unless
a query lists a very long history to a client that does not read. Waiting for
`db_mutex` is a disabled step; weak fairness suffices since each client has one
request and takes the mutex a bounded number of times, so the mutex is free for good
in the end.

`KeptOnlyByHit` assumes that threads run on while they need no peer (`Own`) and
nothing of peers: a client or an origin may be silent for ever, and the property
says only that a thread comes to such a wait. `HitIsServed` fails even when peers
answer, read and hang up in the end (`FairPeers`), so that the failure is not theirs.
Weak fairness is enough: the mutex is either free between steps or kept for ever.

`OrderGetsTruck` and `DeliveryIsRecorded` assume that detached threads run on, that
a message sent is received in the end (its peer resends it until then), and that
the peers answer (`PeersStep`): the world sends the truck, Amazon loads it. Weak
fairness of a polling thread is enough although another may take the truck first,
since there are fewer orders than the bounds let the truck come back for. Both
properties end with "or the process is dead", because `Collide` may end it at any
moment and nothing restarts it with its tables (`clearTables`), and with "or Amazon
has used the number of the report", because a message whose number is in
`receivedSeqSet` is dropped whoever put it there. Nothing else is an exception: the
peers' numbers are parameters, no run and no theorem but `ApartNothingLost` assumes
that they are apart.

# 5. Where the code and its documents disagree

Each is a run that TLC finds violated, with the code line and the sentence in
`PROJECT.json`.

- `BuyNeverOverfilled`: after a partial fill `match_orders` re-reads the buy row
  under its old key (`database.cpp:493`). That row is now the executed part, which
  is traded again with the next sell. As the remainder is not in the sweep's
  result set, this is also the one way an uncrossed book is missed
  (`CrossedOnlyAfterRetrade` holds) and an order comes by two open rows; sells
  have neither problem (`OneOpenSellRow`, `SellSideLedger`).
- `HitIsServed`: `proxy.cpp:638` locks the mutex a second time where it should
  unlock it. `KeptOnlyByHit` and the theorem `KeptByHit` show that this is the one
  place where the proxy keeps its mutex.
- `DeliveredWhereAsked`: the site accepts a new address by the status in its own
  copy of the row; the backend reads the addresses once when the truck leaves.
  `DroppedWhereTold` says what is kept: Amazon hears of the address that is used.

Facts of the exchange's code that differ from its description (the PDF beside it)
and are read off single lines, so that no run is kept for them: `<opened>` carries
the program's counter, the row the table's sequence, and splits and rollbacks
advance one of them (`:395`); the price is that of the newer of the two rows
(`:517`); `cancelOrder` judges an order by the first row of an unordered result
(`:331`); the row of a remainder gets the current time (`:633`); `W` of a
transactions request is constructed without `db_mutex` and outside the `try` block,
so two of them end the process (`:374`).

Also met while modelling, and not kept as runs: placing a buy takes no money but
cancelling it pays a refund (`:347`); shares offered for sale are not set aside
(`:171`) nor moved by a trade; a symbol created again overwrites the count
(`:133`); a status never lists cancelled shares, since the query looks for
`CANCELED` where `CLOSED` is stored (`:690`); a refund that fails rolls back
orders already reported as opened (`:443`); a create is refused while a
transactions request is open (`:117`). In the proxy, a no-cache response without
validators is sent without asking the origin (`:207`), although `response.hpp`
describes `no_cache` as "must not be served from the cache without first
validating"; `NoCacheAsked` is therefore about the ones that can be validated. In
miniUPS, the limit of `message.hpp:43` ends the parsing of a message, but the stream
under it takes whatever has arrived and is destroyed after the message (`main.cpp:51`,
`:70`); an arrival resets delivered packages to "loading" (`handleworld.cpp:167`),
so they are sent out again with the next load; a page read before the truck left
and saved afterwards does the same to its package; the numbers of the two peers share one
set, so a report with a number of Amazon's is dropped: a lost arrival leaves the truck
on its way and every later order polling while the process lives, a lost delivery is
never recorded. In the ride-sharing site, two
drivers may both be told that they have the order, a join may reopen a confirmed
order or bring back a cancelled one, and the capacity of a car is looked at by the
search alone.

# 6. Proofs

The eight modules of proofs hold for every value of the constants, from the named
assumptions `ConstantsAssumption` (amounts, limits, balances and counts are
integers, bounds are natural), `ServerAssumption` (`None` is no client),
`CacheAssumption` (the capacity is positive, `NoValue` is no value) and
`ProxyAssumption` (the same of the proxy's cache, `None` is no thread, a header is
the record of `Proxy`), the assumptions of `UPSBackend` (`Home` is an address,
`NoPkg` is no package, numbers and bounds are natural; nothing keeps the numbers of
the two peers apart), of `RideOrders` (drivers are users, `NoUser` is none,
`NoOrder` is no order, sizes are integers, the bound is natural) and
`LinkAssumption` (the classes used are classes, the bounds are positive or natural).
`StockExchangeProofs` has the theorems of the matching engine, the order book and
the server, `ProxyProofs` those of the cache and the request threads,
`MessageMethodsProofs`, `MessageTablesProofs` and `MessageLinkProofs` those of the
messages; the others are named after their system.

**Matching engine.** `Spec => []TypeOK`, `[]TradesWithinLimits`,
`[]SellSideLedger`, `[]OneOpenSellRow`, and the action property
`CancelledIsFinal`. None is inductive. The invariant is

    IInv == TypeOK /\ TablesInv(db) /\ TablesInv(saved) /\ MatchInv /\ Frozen

- `TablesInv` adds to the stated properties that a row's overwritten
  `LIMIT_PRICE` stays on the right side of the limit it was placed with (a
  remainder inherits it, so the next trade would be out of bounds otherwise), that
  trades refer to existing rows, and that the rows of an order are closed
  together. It is needed of `saved` as well because a rollback brings `saved` back.
- `MatchInv` ties the snapshots in `buys` and `sells` to the rows they were taken
  from: all but the row being traded are still open and unchanged. The code reads
  the sell's amount from the snapshot, so the sell side of the ledger is right
  only because of this.
- `Frozen` says that the open transaction has not touched orders whose
  cancellation is committed; with it `CancelledIsFinal` is one step, the commit.

There is one lemma per action; `NextSellStep`, the trade, is the longest and
rests on `UpdateOrderStatus`, which says once what a split does to the table.

**Sums** (`SumTheorems`). `SumOver` is a fold, defined by a recursive function, and
its laws (`SumType`, `SumRemove`, and from them what a sum becomes when an element
is added, changed or divided into two) need an induction over finite sets. The
library states induction with an operator as parameter, which the provers cannot
instantiate; here a set `F` of subsets takes the place of the operator. The proper
subsets of a finite set are well founded (`FS_StrictSubsetOrderingWellFounded`), so
a subset outside `F` would have a smallest one among them (`SmallestSubset`,
`SubsetInduction`). That the recursive function exists at all (`SumsAdd`) is proved
in the same way.

**Order book**, on top of the matching engine's `IInv`.
`[]RowsConserveAmount`, `[]CrossedOnlyAfterRetrade` and the refinement
`Spec => KeepsPromise`. The first and the last come from

    BookInv == LedgerInv(db) /\ LedgerInv(saved) /\ Continues(saved, db) /\ OneSymbol

- `LedgerInv` says of one state of the tables that the rows of an order add up to
  what was asked for, keep its symbol and its side, that what a sell order traded is
  what its executed rows sold, and that as many shares were bought as sold. A trade
  rewrites two rows and inserts up to two; `FillEffect` and `TwoFills` say what it
  makes of the rows of any order, and `SumDivided` what it makes of their sum.
- `Continues(saved, db)` says that the open transaction loses nothing of what was
  committed and leaves cancelled orders alone. It is what makes `Commit`, the one
  step that changes `Book(saved)` for an order that is there, a step of `OrderPromise`.
- `OneSymbol` says that the snapshots of a sweep hold rows of its symbol; a trade
  between two symbols would be bought in one and sold in the other.

`CrossedOnlyAfterRetrade` is about what a whole sweep leaves behind. `CrossInv` says
how far the sweep has come: unless a row was traded on twice, every pair of rows that
ought to trade is still before the two loops. The current buy row is the exception
that needs `Bought`: once it has traded its remainder is a new row, and the sweep
goes on with the old one (`database.cpp:493`).

**Server.** `[]ServerTypeOK`, `[]CreatesExclusive`, `[]NoLeakedWork`,
`[]TakenNeedsTransactions` from

    ServerIInv == ServerTypeOK /\ KindInv /\ MutexInv /\ NoLeakedWork /\ TakenNeedsTransactions

`MutexInv` says at which points a thread owns `db_mutex` and `KindInv` which
request a thread is in at each point. A create that owns the mutex and still finds
the connection taken must have met a transactions request, because another
create in its transaction would own the mutex too. Nothing is proved, because nothing
holds, about the process staying up: a create alone may throw or be hung up on.

**Cache.** `[]CacheTypeOK`, `[]IteratorsValid`, and the refinement `ImplementsStore`,
from

    CacheIInv == CacheTypeOK /\ IteratorsValid /\ SameSize

`SameSize` (as many values as list nodes) is what makes an eviction find a last
node: `cacheMap` is counted against the capacity but the list is what is popped.
`EraseNode`, `PopLast` and `PushNode` say what the three list operations do to the
set of nodes and to their order, `Linked` ties a key to its node, and `UsedNewer`
turns a node pushed in front into the abstract relation "used after". The
refinement has one step per method, `put` being three.

**Proxy.** `[]TypeOK`, `[]NoCacheAsked` and `[]MutexInv` from

    IInv == TypeOK /\ answer \in ... /\ IsFiniteSet(DOMAIN store) /\ MutexInv /\ ServeInv

`ServeInv` says what a thread's copy is at each point between `get` and `send`;
without it nothing would be known of the copy at the point where it is sent.
`CacheStep` gives once what the three calls keep of the store; each action needs
only that or that it leaves the cache alone.

**miniUPS.** `[]TypeOK`, `[]OnePickupPerPackage`, `[]TruckIsExpected`,
`[]DroppedWhereTold`, `[]DeliveredWasDropped`, and the refinement
`USpec => FollowsJourney`, from

    IInv == TypeOK /\ StepInv /\ PickupInv /\ PageInv /\ RowInv /\ ToldInv
            /\ DroppedWhereTold /\ MadeInv /\ DeliveredWasDropped /\ SetInv /\ TruckInv

`PickupInv` is the reason for one pickup: a thread between the insertion and the
pickup has the package for itself, since the primary key lets one insertion through.
`PageInv` is why a saved page never makes a delivered package up: what a page holds
was not delivered. `MadeInv` and `ToldInv` tie the world's reports and orders to
what was dropped and told. `StepInv` says that a thread is in the handler of its
message. `TruckInv` is `TruckIsExpected` with every arrival that was not handled
counted as still to come, the ignored ones too. `SetInv` says that a number is in
`receivedSeqSet` because a thread put it there, so an arrival that is ignored for
good was ignored for a thread of Amazon, as no other message of the world has its
number (`UnhandledIsLostOrPending`). With numbers apart there is no such thread, and
the truck is expected without exception (`ApartNothingLost`). `StepCases` splits a
step by who takes it, `HandlerMoves` and `HandlerWrites` say once how a thread moves
and what it writes, so that each part of the invariant looks only at the steps that
write what it reads. For the refinement, `JourneyRecord`, `JourneyCall`,
`JourneySendOut` and `JourneyDropOff` are the four steps that are not stutters.

**Ride sharing.** `[]TypeOK`, `[]DriverAnswers`, `[]AloneAddsUp` and the action
property `AloneGoesOnward`. The invariant `IInv` of all but the third adds what the
copies in the requests keep: a copy is a row that its order had, so its driver has
answered; and as long as no two requests overlapped on an order, the copy is the
row.

`AloneAddsUp` speaks of an order nobody is working on, so it is not inductive: a view
leaves riders, parties and total apart from its first statement to its last. `AddInv`
says by how much at each step of the one request on the order (`Unsettled`): the total
of a join is saved before its party, the party before the rider, and a cancelled share
is deducted before its rider and its party go. Two facts have to come with it. The
owner always rides, or `modify_ride` would create a party without a rider; and the id
of a party is its own for good (`PartyIds`), or a party deleted late could be that of
another order. There is one lemma per statement about the rows of one order alone
(`SaveFits`, `PutFits`, ...), one per action that applies it, and `OthersAddUp` for the
orders the request does not work on. TLC checked `BookInv`, `CrossInv` and `AddInv`
as invariants of the instances of `matching` and `rides` before they were proved.

**Messages.** `[]TypeOK`, `[]EncodesSchema`, `[]SizeIsLength`, `[]RoundTrip`,
`[]InitializedIsComplete`, `[]ReceivedWasSent` and the refinement `Spec => ActsAsMessage`,
for messages with any values and any number of elements, any number of messages, and
any place where a read may end. The argument has three parts.

*One class* (`MessageMethodsProofs`). `Sound(k)` says that the tables of class `k` fit
its declaration (`Fits`) and that the classes of its fields are what the theorems say of
`k`: copying gives an equal object, clearing a new one, the size is the length of the
bytes, the bytes are those of the message the accessors show, parsing bytes into an
object merges (`GoodIn`, `Expressible`). From this the theorems follow for `k`, and
`Level` packs them up for the next level. They need no induction over messages, but over
numbers and sequences: `VarintRoundTrip` is one over the digits of a number,
`ParseIsMerge` follows the rows that `Serialize` has written one by one (`Upto`), with one
over the elements of a list in each row. As in `SumTheorems`, a set of natural numbers
takes the place of the operator that the library's theorem of induction asks for. That a
member under a clear bit holds the default value is not assumed: it is a part of
`Object`, which every method is shown to keep.

*All tables* (`MessageTablesProofs`). `TablesFit`: the tables of the 25 classes, each
read off its own method, keep the rules of `MessageTables` and agree with the `.proto`
files: no mask leaves a field out, no tag is read by another case, no field is counted in
another form than it is written in. `ClassesNest` says which level a class is of.

*The link* (`MessageLinkProofs`). `P0` to `P3` are the theorems of the first part
for the four levels, `Same0` to `Same3` identify their operators with those of
`ProtocolBuffers` and `MessageSchema`, and `Sound0` to `Sound3` climb the levels
with `TablesFit` and `Level`. `SetActs`, `MergeActs`, `ParseActs` and their like
then state what each call does to the object and to its meaning. The inductive
invariant is

    IInv == Messages /\ Frames /\ Handled

`Messages` says that the object being filled and the ones that were sent are objects of
their class, `Frames` that the stream holds the frames of the last messages sent, but for
the first when it is torn, `Handled` that the handlers have what the parsed frames
contained and strays. The stated properties are not
inductive: `RoundTrip`, say, holds after a merge only because of the clear bits, and
`ReceivedWasSent` only because of what the frames contain. One kind of unknown field is
covered, the one the model lets a peer send (`Foreign`). That every class is `Sound`,
the hypothesis of the first part, is proved (`SoundClasses`) and not assumed.

**Only model-checked.** Liveness (`MatchTerminates`, `ClientServed`,
`KeptOnlyByHit`, `OrderGetsTruck`, `DeliveryIsRecorded`), which the prover does not
reach (of `KeptOnlyByHit`, `KeptByHit` proves the safety part). Every safety invariant,
both action properties (`CancelledIsFinal`, `AloneGoesOnward`) and every refinement that
the passing runs check is proved.

# 7. Not modelled

- The interleaving of two transactions requests' *statements* on the tables:
  `ExchangeServer` shows when they overlap, `MatchingEngine` what a request does
  alone; their product is too large for TLC and follows no sentence of the code.
- Rounding of amounts, XML parsing, and requests longer than one read.
- A crash of PostgreSQL: the program does not handle it.
- In the proxy: the bytes of messages (which part of an answer is sent, cached or
  left on the connection), dates, and redirections, which no code calls.
- What the bytes of half a frame parse to: `Stray` stands for any message that comes of
  it, and the handlers of `UPSBackend` get messages that were sent.
- In miniUPS: acknowledgements that arrive (`handleAmazondArc`, `handleWorldArc`)
  and the resend loops, because `waitingForAckSet` stays empty unless a write to a
  socket fails; numbers sent twice by a race on `seqnumGlobal`
  (`handleamazon.cpp:139`), which only the peers could notice; a 64-bit sequence
  number cut to `int`; several trucks, since one is inserted; a loop of
  `handleReceive` that goes back to `select` after a failed read of one socket
  (`main.cpp:55`) before it looks at the other. A restart clears the tables, so
  there is nothing to recover.
- The web site's other views, which read, or write users and profiles.
- In the generated classes: descriptors, reflection, arenas, `Swap` of two live
  objects, `set_allocated_` and `release_`, and negative numbers.
- In the ride-sharing site: accounts, vehicles, searches and mail.
- Everything in 1.5.

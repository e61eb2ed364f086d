# A verification project for the MP1 group communication library

The program (`src/`, Go) is a set of nodes that keep replicated bank accounts.
Every node reads transactions from its standard input and multicasts them to
the group with a total order multicast (the ISIS algorithm) that is built on a
reliable multicast, which is built on a basic multicast over TCP. This
directory models these layers in TLA+, checks them with TLC on small groups,
and proves the main safety properties with TLAPS for every group.

## 1. Inventory

| component | state | operations | interacts by |
|---|---|---|---|
| Basic multicast (`lib/mp1/multicast/b_multicast.go`, `server.go`, `client.go`) | map `senders` of members, one TCP connection to each (itself included); broker of member counts | `Unicast`, `Multicast`, `MemberCount`, `IsNodeAlived`, ejecting a member whose write fails; one goroutine per incoming connection that reads frames and calls the router; start-up (dial with retries, handshake, wait group) | calls from the layers above under `senderLock`; frames; member counts to `collectVotes` |
| Reliable multicast (`r_multicast.go`) | set `received` | `Multicast`; handler that records the first copy, relays it, then runs the handler bound to its path | handler of a path of the basic multicast |
| Total order (`total_ording.go`, `util.go`) | `maxAgreementSeqNumOfGroup`, `maxProposalSeqNumOfSelf`, hold queue (heap and map), votes, channel of votes, `crashNodeTimeout` | `Multicast` (ask for an order), the handlers of the three messages (ask, propose, announce), `collectVotes` | handlers of both lower layers; one goroutine for `collectVotes` |
| Hold queue (`to_hold_queue_item.go`) | slice of items, each with its index | `Push`, `Pop`, `Peek`, `Update` with `container/heap` | under `holdQueueLocker` |
| Router (`lib/mp1/router`) | map from paths to handlers | `Bind`, `Run` | calls |
| Broker (`lib/broker`) | subscribers, two kinds of bounded channels | `Publish`, `Subscribe`, non-blocking forwarding | channels between the basic multicast and `collectVotes` |
| Transactions (`lib/mp1/transaction`) | balances | `Deposit`, `Transfer`, snapshot; parsing of events | delivered by the total order |
| Configuration, retry, group builder (`lib/mp1/config`, `lib/retry`, `group_builder.go`) | members, `startSyncWaitGroup` | parsing, retrying, wiring | start-up of the basic multicast |
| Node command and its input (`cmd/mp1`, `event_listener.go`, `processor.go`) | channel of events | reading lines, multicasting events, applying deliveries | pipeline between the standard input and the total order |
| R-multicast prototype (`cli/r-multicast`) | nodes as goroutines | an early form of the relay | nothing |
| Logger service (`cmd/mp0`) | connections | sends lines as events; prints the events of clients | TCP between client and server |
| Metrics, logging, scripts | none | output, input generation | nothing |

What is hard here: a node runs one handler per connection and the vote
collector at the same time, each under several short critical sections;
messages overtake each other through relays; crashes cut a multicast short;
the group shrinks when writes fail, while votes are being counted; and
a message of a crashed node has to leave the hold queue by a timeout.
`PROJECT.json` lists these hazards at the lines where they bite.

What makes each component correct:

* start-up: a handler reads only when its node has all its clients, and every
  node starts, in whichever order they are launched;
* basic multicast: members leave a group only when their connection broke, the
  count `collectVotes` knows in the end is the real one, and nodes wait forever
  only when writers wait for each other's buffers in a cycle;
* reliable multicast: a handler runs once per message, for multicast messages
  only, and agreement among the nodes that stay up;
* total order: all nodes deliver in one order, each message once, and every
  message that can be delivered is;
* hold queue: its head is a minimum, whatever the sequence of operations;
* transactions: every event of the input is applied by every node while none
  crashes, and the balances account for all money: it is created only by deposits
  and by transfers from an account to itself, and nobody is in debt while the
  money fits in an int;
* logger service: the lines of each client are complete and in order, whatever
  the other goroutines print in between.

## 2. Modules

| module | models |
|---|---|
| `Startup` | configuration files, listening, dialing with retries, the handshake, the wait group, handlers that wait for it |
| `BMulticast` | connections, groups, ejection and its publication, reading, crashes and resets; a layer without a specification of its own |
| `RMulticast` | EXTENDS it: `received`, and the handler goroutines `tasks` with the point each has reached |
| `ReliableMulticast` | what a reliable multicast promises (abstract specification) |
| `ReliableGroup` | RMulticast closed with an application that records deliveries; refines `ReliableMulticast` |
| `BackPressure` | EXTENDS it: the same with bounded buffers and `senderLock` held over a loop of single writes (a definition that replaces one of `ReliableGroup` has a P before its name); refines `ReliableMulticast` too |
| `TotalOrding` | RMulticast and the whole of the ISIS layer |
| `HoldQueue` | the hold queue as the code keeps it: slice, stored positions, `container/heap` one exchange at a time |
| `MinQueue` | what the hold queue promises (abstract specification); refined by `HoldQueue`, used by `TotalOrding` |
| `Broker` | the path of a member count inside a node: `senderLock`, `Publish`, the goroutine of the broker, the channel of `collectVotes` |
| `MemberUpdates` | what that path promises (abstract specification), and how counts are lost when it is full; refined by `Broker` |
| `Transaction` | operators: the accounts, with wrapping ints |
| `Replicas` | the node command: input, parsing, pipeline, multicast, and the accounts of each node; when a message is handed over is left open |
| `EventLogger` | client and server of the logger service |
| `MC...` | instances for TLC |
| `MulticastLemmas` | what the operators of the two lower layers do to the network and to the types |
| `ReliableGroupProofs` | theorems about `ReliableGroup`, then about `BackPressure` |
| `HoldQueueProofs`, `BrokerProofs`, `StartupProofs`, `ReplicasProofs`, `EventLoggerProofs` | theorems about the module each is named after |
| `TotalOrdingProofs` | theorems about `TotalOrding`: first those that follow one message or one vote, then those about the hold queues and the order of deliveries |

How the code maps to state and actions:

* `net[n][d]` holds what n wrote to d and d has not read; it stands for the
  socket buffers of the one connection that n dialed to d. `conn` says which
  connections still carry data. A crash cuts what the node has written to
  prefixes. A write to a connection that does not carry data may succeed (the
  bytes are lost) or fail, as TCP does; a write that fails ejects.
* A multicast is one step although its loop makes several writes: the lock is
  held, so what another process can tell apart is only which connections the
  message is on, and a crash in the middle of the loop is the same as a crash
  after it that loses the last message of some connections.
* Each handler goroutine handles one message at a time (`tasks[n]` has at most
  one task per connection) and reads the next only after the handler returned.
  The handlers are split where the code releases a lock that another goroutine
  of the node can take: `Propose` | `PushAndReply`, and `Agree` | `UpdateItem`
  followed by `Deliver`* and `Stop` under `holdQueueLocker`.
* `collectVotes` is one goroutine with two cases; its loop over the votes at a
  member update is one action per message, since each iteration takes and
  releases `senderLock` (`recheck`).
* In `TotalOrding` the hold queue is a set of items. Its head is any item that
  no other item is `Less` than: the heap may put either of two equal items
  first. `HoldQueue` shows that the heap does implement such a set. `holdQueueMap`
  is the same set, since the code changes map and heap together under
  `holdQueueLocker`; that they hold the same messages is part of `IndexInPlace`.
* `NodeCrashTimeout`: six seconds have passed at any later moment.
* Sequence numbers are naturals (a `uint64` is used up after 2^64 messages).
* Identifiers of messages are model values. An announcement is identified by
  its content: two announcements with the same content would have to count the
  same vote twice, which `VotesCountedOnce` excludes.
* In `HoldQueue`, `pq` is the slice and counts from 0; `key` and `index` are the
  fields of the items, which are identified by their messages. An operation
  begins with the step of the repository's code (`Push`, `Update`, `Pop`), goes
  on with iterations of `up` and `down` (`MoveUp`, `MoveDown`), and ends with
  a stop; `doing` and `sift` say where it is. `holdQueueLocker` keeps other
  operations out meanwhile.
* In `Broker`, a goroutine that multicasts ejects members and publishes counts
  one at a time while it holds `senderLock`; a count is in `publishing` while
  `Publish` waits for room, then in `publishCh`, in the hand of the broker's
  goroutine (`forwarding`), and in `subCh`.
* `MemberUpdates` with room for every count (`Capacity` of at least the number
  of ejections) is what `BMulticast` assumes: counts arrive in order, none is
  lost. The code has 5 places; a group that ejects more members while
  `collectVotes` waits can lose the latest count (`Lose`), but never so
  that the count known is too small.
* In `Startup`, `added`, `server` are the goroutine of `startServer`, `dialed`,
  `client` that of `startClients`, and `handler[s][n]` the goroutine at `n` of
  the connection from `s`. Between the three only `waitGroup` is shared. A
  connection is refused while nobody listens on the port of a member, and `Retry`
  dials again. `net.Listen` always fails at the nodes in `taken`: another process
  has their port all along, accepts what is dialed there, by the node itself too,
  and reads the handshake or not. Elsewhere the handshake, one write, fails only
  when the member has stopped. `Done` that comes before `Add` panics, as the
  WaitGroup does.
* `BackPressure` splits what `BMulticast` makes one step: the loop of `Multicast`
  writes to one member at a time, waits while the buffer of a connection is full
  (`Cap`), and holds `senderLock` meanwhile (`writing`). Both modules are kept:
  the first shows that the one step is a sound reading (the same abstract
  specification is implemented, and what a handler ran for is in or on its way to
  every member), the others are small enough to be composed with the ISIS layer.
  The member counts published in the middle of a loop are in `Broker`.
* In `Replicas` the total order is left open (`Deliver`): a node hands a message
  over at most once and in any order, since it may be overtaken, and whether it
  does so after a crash is open too, since a message that was not agreed on may
  block those behind it. `DeliveredOnce` of `TotalOrding` is what this assumes. `succeeded` is history. A line is
  a sequence of fields, `Atoi` says which fields are integers. The accounts that
  are read by `Transfer` are read before the first is written, so a transfer from
  an account to itself creates its amount: `Money` counts it.
* In `EventLogger` a printed line is a record with the time on it; the clock
  moves at any moment. A goroutine takes the time when it has accepted or decoded
  and prints later. A connection that breaks keeps a prefix of what is in it.
  A client that ends between two messages (`Close`: no more lines, or one that
  `bufio.Scanner` cannot hold, `long`; `Kill`) leaves a connection that ends
  after what it sent, which the server reads as `io.EOF` either way; one that
  is killed within a message is a connection that breaks.
* `overtaken` is a history variable: the messages that had been given a number,
  no larger than that of a message that was delivered, but were not pushed.

Definitions marked "Seeded fault" are variants of the code that no action uses.
They document which mistakes the properties would find.

## 3. Runs

| run | instance | properties |
|---|---|---|
| `startup` | 3 nodes, for one of them a file with a line that is no node or with a count too small by one or two, node 1 may crash, node 3 may fail to listen and its port may be taken, fairness; 448 thousand states | `TypeOK`, `ReadyBeforeReading`, `GroupComplete`, `PanicsOnlyWhileAdding`, `EveryoneStarts` |
| `rm_three_nodes` | 3 nodes, 1 message, nodes 1 and 2 may crash, connection 1 to 3 may be reset, fairness; 50 thousand states | `TypeOK`, `Integrity`, `RelayedBeforeDelivered`, `EjectionsPublished`, `ImplementsReliableMulticast`, `ReliableAgreement` |
| `back_pressure` | 2 nodes, 2 messages of each, buffers of 1 message, node 1 may crash, fairness; 204 thousand states | `HandledReachesAll`, `ImplementsReliableMulticast`, `OnlyCyclesWaitForever` |
| `to_two_nodes` | 2 nodes, a message of each, node 1 may crash, connection 2 to 1 may be reset; 1.06 million states | `TypeOK`, `DeliveredOnce`, `TotalOrderUnlessOvertaken`, `DeliveredInOrder`, `AgreedKeysDistinct`, `NothingDeliverableWaits`, `AnnouncementDominates` |
| `to_three_nodes` | 3 nodes, 1 message, node 2 may crash; 1.57 million states | `AgreementUnique`, `VotesCountedOnce` |
| `to_liveness` | 2 nodes, 2 messages of node 2, node 1 may crash, fairness; 278 thousand states | `EverythingDelivered`, `AnnouncedWithoutTheCrashed` |
| `hold_queue` | 5 messages, 2 sequence numbers, 2 processes, items pushed and popped any number of times; 339 thousand states | `TypeOK`, `IndexInPlace`, `HeadIsMinimum`, `ImplementsMinQueue` |
| `broker` | 5 members of which 4 may be ejected, a channel of 1 place, fairness; 4 thousand states | `KnownNotTooSmall`, `KnownInTheEnd`, `LockReleased`, `ImplementsMemberUpdates` |
| `replicas` | 2 nodes, one of 5 short inputs each, ints of 4 bits (`MaxInt` 7), a channel of 1 event, node 1 may crash, events applied in any order, fairness; 282 thousand states | `TypeOK`, `MoneyAccounted`, `SameEventsSameBalances`, `EveryEventApplied` |
| `event_logger` | 3 clients with 2, 1 and 0 events, one gives up at a line that is too long, one may be killed and its connection may break, fairness; 604 thousand states | `LinesInOrder`, `TimesInOrder`, `EverythingLogged` |
| `to_order_overtaken` | 2 nodes, a message of each, no faults | `TotalOrder`: violated |
| `to_crashed_rejected` | 2 nodes, 1 message, its node may crash, fairness | `CrashedRejected`: violated |

Bounds. The environment is bounded by the set of messages, by which nodes may
crash (`MayCrash`), which connections may be reset (`MayReset`) or break
(`MayBreak`), which clients may be killed (`MayKill`) and which nodes may fail to
listen or have their port taken (`MayFailListen`); in `EventLogger` the
clock is bounded by `MaxClock`, in `Broker` the goroutines that wait for the lock
by `MaxWaiting`. Nothing else is bounded. Two messages are what an order is about,
and two nodes already give two handlers and a vote collector per node that race
with each other, a quorum that shrinks, ejections, second announcements and
skips. Three nodes are needed for relays that overtake, for partial multicasts
and for quorums that shrink and still have two voters: one message is enough
there. The hold queue of five has all that larger ones have: an item with two
children that have children, an item with one, exchanges over two levels; the
theorems cover the others. `AnnouncementDominates` is checked with two messages:
with one, all numbers would be 1. The code's channel of counts has 5 places: what
matters is that there can be more ejections than places. Three nodes that start
have members before and after the blank line, a file that lets a node in that its
first line does not count, one that leaves a node out, and a node that starts
late, crashes or cannot listen while the two others handle each other's
connections. Ints of 4
bits are exceeded by the inputs (7 + 7), and each input has a line that is
no event, is refused, or transfers an account to itself. The systems stop when
all messages are handled, so deadlock is not checked; that they do not stop early
is what the liveness properties say.

Buffers that are full. With buffers of `Cap` messages, two nodes wait for each
other once 2 * (`Cap` + 1) messages are under way: each holds its `senderLock`
while it writes, and its handler, which has to relay, waits for that lock and
reads nothing. The run `back_pressure` has as many messages and reaches such
states. Nothing in the code leads out of them (unless the watchdog of the locks
ends a process, a crash in the model), and no document says that they do not
happen, so this is a hazard and not a finding: `OnlyCyclesWaitForever` says that
nodes wait forever in no other way, so for instance not for themselves, and not
for a node that crashed. Three nodes need fewer messages, since a node relays its
own messages when the copy of a relay comes back first. TCP buffers hold many
messages of this program, so it takes a burst of input to get there.

Fairness. `WF` of each handler goroutine and of `collectVotes`: the Go
scheduler runs every goroutine that can run, and all locks are released after
finitely many steps. In `Broker`, `WF` of the holder of the lock and of the
broker's goroutine, and `SF` of `collectVotes`: Go's mutex hands the lock to
a waiter that waits too long, and `select` chooses among its ready cases at
random. For the same reason `BackPressure` has `SF` of the handlers, which wait
for `senderLock`, and `WF` of its holder. `Startup` has `WF` of the three
goroutines and of launching the nodes, which the users do; `Replicas` of both
goroutines of the input, and of deliveries only while no node has crashed, which is
when `EverythingDelivered` of `TotalOrding` says so; `EventLogger` of clients,
which read their input until they end, and of the goroutines of the server. Nothing is assumed of the input of the multicast
(`AskGroup`, `Send`), of crashes and resets, or of writes to broken connections
failing.

What the violated runs show (the findings of `PROJECT.json`):

* The order that the report promises does not hold in a window: a node takes a
  number for a message, releases the lock, and pushes the message to the hold
  queue under another lock. An announcement handled in between can deliver
  a message with a larger number. `TotalOrderUnlessOvertaken` and
  `DeliveredInOrder` show that, without ejections, this window is the only
  reason for different orders; both are proved for every group.
* A message of a crashed node is rejected only when further announcements come:
  the timeout is looked at while one is handled, there is no timer.

## 4. Proofs

For every finite set of nodes, every set of messages, and any crashes and
resets (assumptions: `NodeAssumption`, `FaultAssumption`, `OriginAssumption`).

Basic and reliable multicast (`ReliableGroupProofs`):

* `TypeCorrect`, `IntegrityHolds`, `RelayedBeforeDeliveredHolds` and `Refinement`
  (every step of the handlers is a step of `ReliableMulticast` or leaves it
  unchanged). The inductive invariant is `IInv` of `ReliableGroup`. Integrity is
  not inductive alone: it needs that a task works on a message that is recorded
  and not delivered, and that no two tasks work on the same one
  (`TasksConsistent`). That relaying precedes delivering needs the same statement
  about messages that were relayed but not delivered, and about what a node has
  written to itself, which it delivers without relaying (`WrittenToAll`).
* `EjectionsPublishedHolds`: the counts published descend by one to the size of
  the group (`Published`). A multicast that ejects k members publishes k counts,
  which is where the statement needs all counts in the channel and not only the
  last one (`PublishingDescends`).
* About `BackPressure`: `HandledReachesAllHolds` and `WritesRefinement`, for buffers
  of any capacity. Here the loop of `Multicast` is one write at a time, and a node
  that crashes or waits in the middle has not written to all: the invariant
  (`WrittenOrPending`) says that what a node has begun to write is, for every
  member, written or still ahead of the holder of `senderLock`; a handler that
  holds the lock is one that relays its message (`HoldersConsistent`).

Total order multicast, while crashes, resets, ejections, second announcements and
skips may happen at any moment (first part of `TotalOrdingProofs`):

* `TypeCorrect` needs that votes are announced only when there are some
  (`VotesOK`), and that finitely many votes have a maximum (`LargestVote`; by a
  minimal counterexample, the subsets of a finite set being well-founded).
* `DeliveredOnceHolds`. The invariant `OnceInv` follows a message through a node:
  requested and recorded once, handled by one task, held under one item, delivered.
* `VotesCountedOnceHolds`. The invariant `VoteInv` lists the places where the vote
  of a node for a message can be (not asked for, with the handler, on the way,
  in the channel, counted) and says that it is in one of them at most, and in none
  once an announcement names it. A connection and the channel are sequences, so
  "at most one" is about positions (`Positions`, `Single`), and a fault that cuts
  a connection only takes positions away (`Fewer`).
* `AgreedKeysDistinctHolds`. `ClaimInv` adds that whatever names a number of a node
  (a handler, a vote, an announcement) names one that it has given out, and no
  number is given out twice.
* `NothingDeliverableWaitsHolds`. `QueueInv` adds that a handler at work on the
  queue holds `holdQueueLocker`, and that the head is examined again after
  whatever changed it.

Total order multicast as long as nobody was ejected (second part of `TotalOrdingProofs`):

* `AgreementUniqueHolds`, `AnnouncementDominatesHolds`. Without ejections nothing
  is published and nothing is announced early (`Stable`), so an announcement takes
  as many votes as there are nodes; since no vote is counted twice (`VoteInv`), all
  nodes have voted (`EveryNodeVotes`), their votes are used up, and there cannot
  be a second announcement (`AnnouncedOnce`). A vote that was cast is the number of
  an item that its node holds (`VotesHeld`), so an announced message is held or
  delivered everywhere, under no larger a number (`Settled`). The invariant is
  `WholeInv`: `ClaimInv` and `AgreeInv` at all times, `GroupInv` until the first
  ejection; ejections are for good, so nothing has to be said afterwards.
* `DeliveredInOrderHolds`. `OrderInv` says of every held item that it comes after
  every delivered message, in its agreed or in its proposed number, unless it was
  overtaken (`HeldBehind`). This depends on `PushesAhead`: a handler between its
  two critical sections holds a number above those of all deliveries, or its
  message is in `overtaken`. It is the place where the proof would fail without
  the exception that the finding of section 3 is about.
* `TotalOrderUnlessOvertakenHolds`. Take the least position at which the deliveries
  of two nodes differ. The smaller of the two messages, in agreed numbers, is held
  or delivered at the other node (`Settled`): held, it would have to come after
  what was delivered there; delivered, it would have to come before.

Hold queue, broker and start-up:

* `HoldQueueProofs`, for any set of messages, sequence numbers and processes
  (`KeyAssumption`): `TypeCorrect`, `IndexInPlaceHolds`, `HeadIsMinimumHolds`
  and `Refinement`. The inductive invariant is `TypeOK`, `IndexInPlace` and
  `HeapOrder`, the last of which says what is in order while an item is being
  moved. That the root of a heap is a minimum follows without an induction over
  the tree: the first position whose item came before the root would have
  a parent that does too.
* `BrokerProofs`, for every finite group and any capacity of the channel:
  `MemberUpdatesRefinement` and `KnownNotTooSmallHolds`. The invariant `Typed` says
  that no channel holds more than its capacity, and that those who will be ejected
  are members. Every step of the goroutines is then a step of `MemberUpdates` or
  leaves the counts in transit as they are; and the steps of `MemberUpdates` keep
  these descending and no smaller than the group (`Dominates`). So the
  second theorem is proved about the abstract module, and the order in which the
  goroutines pass a count on does not matter to it.
* `StartupProofs`, for every set of nodes and all configuration files
  (`FilesAssumption`: no file lists the node it belongs to): `TypeCorrect`,
  `ReadyBeforeReadingHolds`, `PanicsOnlyWhileAddingHolds` and
  `GroupCompleteHolds`. The inductive
  invariant `IInv` counts: what the wait group holds is what one goroutine has
  added and the other has not taken away (`Counted`). A counter of 0 at a node
  that listens therefore means that all its members were dialed, and that no
  handshake failed: a failed one ends the dialing before the last member, which is
  the node itself, and its own handshake does not fail at a node that listens, for
  then its port is not taken (`Dialed`). For `GroupComplete`, `GInv` adds that
  every member that has a client listens or has its port taken (`CompleteOf`). The
  members are those of the lines that are read, at most one more than the first line says
  (`LinesReadFacts`). The loop that collects these lines (`ConfigItems`) is a function of
  the number of lines read; that the function is what its definition says, and
  that it collects every line but the blank ones and nothing else, is proved by
  a minimal counterexample.

Accounts (`ReplicasProofs`), for ints of any width (`MaxIntAssumption`), inputs of
any length (`InputsAssumption`), channels of any capacity (`CapAssumption`), and
any `strconv.Atoi` that returns ints (`AtoiAssumption`):

* `TypeCorrect`, `MoneyIsAccounted`, `SameEventsHaveSameBalances`. What a map holds
  in total is a sum over its domain. The sum is a recursive function of the finite
  set, and that any element can be taken out of it (`SumOneMore`, `SumAgrees`) is
  proved by a minimal counterexample among the subsets. Ints wrap, so equations
  are modulo the number of ints (`Cong`, `WrapInt`).
* `DepositExact` and `TransferExact`: an operation that returns no error changes the
  total by its amount, by nothing, or, for a transfer from an account to itself, by
  its amount again. As long as all income fits an int nothing wraps, because no
  balance is a debt, so two accounts together never exceed the total
  (`HeldBounds`).
* The invariant is `IInv`. Its part `LedgerOK` says that the map of a node is what its
  successful events make of it: exactly the accounts they name, each with the sum
  of what the events add and take away, modulo the number of ints, and, while the
  income fits, with the exact total and no debt. The two other theorems follow
  from it: nodes whose ledgers record the same events hold equal maps
  (`LedgerUnique`), in whatever order they applied them.

`MulticastLemmas` describes a step of the lower layers by what it writes,
reads or loses, as sets or by positions, so that the proofs about the protocols
do not look into sequences more than their property does.

Logger service (`EventLoggerProofs`), for any set of clients none of which is
called by the empty name (`NameAssumption`) and inputs of any length
(`InputAssumption`):

* `LinesInOrderHolds`, `TimesInOrderHolds`. The properties speak of positions and
  counts (`Asked`, `Logged`: how many of the first lines are events), not of
  filtered sequences, of which the prover knows nothing; that counting goes on by
  one is a fact about cardinalities (`CountNext`). The invariant is `IInv`. Its part
  `InPlace` follows the events of a client from its input to the output: those
  printed, the one with the handler, and those in the connection are the next
  ones of the input, each at its count, up to the last line read unless the
  connection broke. A client that has ended or was killed reads and sends nothing
  more (`Gone`), so the last event printed before "disconnected" is the last one
  that it sent (`LinesOK`). `FirstOK` says that `isFirst` tells whether the output
  names the client already, and `StampsOK` that a time waiting to be printed is no
  older than the lines of that client. What other goroutines print in between
  changes none of it (`OtherKeeps`).

Only model-checked: the liveness properties (`EveryoneStarts`,
`ReliableAgreement`, `OnlyCyclesWaitForever`, `EverythingDelivered`,
`AnnouncedWithoutTheCrashed`, `KnownInTheEnd`, `LockReleased`, `EveryEventApplied`,
`EverythingLogged`), since TLAPS does not reason about fairness and ENABLED. Every
invariant and every refinement that the passing runs check is also proved.

## 5. Not modelled, and the plan

Not modelled, and why:

* The prototype of a reliable multicast (`cli/r-multicast`): a program of its own
  that nothing imports. Its `received` and its relays are what `RMulticast` models
  of the library.
* Metrics and logging: files that are written and never read by the program.
* The encoding of messages (JSON, UUIDs, SHA1): messages are values here. A
  message of this program can always be encoded, and what one node encodes the
  others decode.
* Command line flags and signals, the workload generator and scripts, the
  `deadlock` detection of the mutex library (a crash, where it ends a process).
* The reliable multicast does not keep the order of the messages of one node (a
  relay may overtake), so a transfer can overtake the deposit that it needs. No
  document promises that order, so it is a hazard and not a property. `Replicas`
  applies events in any order: then other events may be refused, and
  `SameEventsSameBalances` says that replicas differ by nothing else.

What would come next, in order of importance:

1. An abstract total order multicast, implemented by `TotalOrding` while nothing
   is overtaken and nobody is ejected, on which the replicas of `Replicas` would
   have the same balances. The theorems of `TotalOrdingProofs` are what a proof of the refinement needs.
2. What a skip costs: agreement on the set of delivered messages after a crash.
3. What ejections leave of the order: which messages two nodes may deliver in
   different orders once their groups differ.

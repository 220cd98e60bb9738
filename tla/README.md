# Verification of the TCP/UDP publish-subscribe server

A server keeps TCP connections with *subscribers* and one UDP socket on which
*publishers* send datagrams, each on a topic. A subscriber introduces itself by
an ID, subscribes to topics, with or without store-and-forward, and is sent the
datagrams on them; what arrives while it is away is stored and sent when a
subscriber with the same ID connects again.

Line numbers below are those of the sources under `src/`; `README.md:n` is the
README of the sources.

## 1. Inventory

| Component | State | Operations | Where |
|---|---|---|---|
| server loop | `fdIN`, `fdClients`, `curr_fd`, `receiveID` | one pass: `select`, then a handler for each ready descriptor in ascending order | `server.c` |
| handlers | `clients` (ID, socket, topics with flags, queue), the one variable `temp` | `accept_new_connection`, `receive_udp_message`, `handle_id_client`, `handle_request` with `subscribe` and `unsubscribe`, `disconnect_client`, `command_exit` | `utils/lib/action.c` |
| dynamic array | `len`, `cap`, slots | `init`, `get_pos`, `add_pos`, `del_pos` | `utils/lib/buffer.c` |
| queue, list | cells, `head`, `tail` | `queue_create`, `queue_empty`, `queue_enq`, `queue_deq`, `cons`, `cdr_and_free` | `utils/lib/queue.c`, `list.c` |
| subscriber | its connection, `recvBuffer`, `sendBuffer`, the buffer of `stdin` | connect and send the ID; `select`, `processInput`, `subscribe`, `unsubscribe`; receive a frame | `subscriber.c`, `utils/lib/client.c` |
| decoding | none | `processMessage` and its four formats | `utils/lib/client.c:82-217` |
| publishers | none | send a datagram | `pcom_hw2_udp_client/` |
| acceptance test | none | drives all of these, one subscriber at a time | `test.py` |

**Interaction.** One thread runs the server. Handlers share `clients`,
`receiveID`, `fdIN` and `fdClients`; a handler runs to its end before the next
one starts, but the set of ready descriptors was fixed before the first of them.
Subscribers, publishers and the operator are other processes that act between
any two handlers. Bytes on a connection keep their order; one `recvfrom` may
return several requests, and one `recv` of a subscriber a part of a frame.

**What is hard here.**
- *Ordering within a pass.* A handler accepts or closes descriptors that later
  handlers of the same pass go on to test.
- *One flag for all.* `receiveID` says that *some* ID is awaited: between the
  `accept` that sets it and the message that clears it other messages arrive.
- *Descriptors as identity.* Subscriptions, disconnection and the drain find a
  client by descriptor number, and numbers are reused.
- *Leaving.* A subscriber leaves, or is killed, at any moment; the server finds
  out by `recvfrom`, or by a `send` that ends the process.
- *Return.* Records live on without a connection; subscriptions and queue must be
  found again, and be sent before what arrives afterwards.
- *Memory.* Cells of a queue hold the address of a variable (`action.c:88`);
  `del_pos` skips the slot it should move (`buffer.c:72`); `queue_deq` leaves
  `tail` on a freed cell (`queue.c:33`); a freed cell is given out again.
- *Streams.* A frame ends at a byte that may also be in it (`subscriber.c:107`);
  while a subscriber waits for the rest of one it does not look at its console.
- *Two blocking sends.* A connection has limited room both ways, and both ends
  send without asking whether there is any (`action.c:82`, `client.c:23`).
- *Two layers of input.* `select` looks at the descriptor, `fgets` at the lines
  that stdio has read from it (`client.c:52-54`).
- *Numbers.* Signs apart from magnitudes, a `float` for decimals.

**What makes each component correct.**
- *Loop*: it watches what is open and nothing else (`WatchedAreOpen`); no handler
  blocks it (`NeverBlocks`); nothing ready is starved (`DatagramsHandled`,
  `ConnectionsServed`).
- *Handlers*: a name has one record (`UniqueIds`) that outlives its connections
  (`SubscriptionsKept`) and stands for the right one (`SessionsMatch`); who
  connects is registered (`Registered`); only wanted topics are sent
  (`RoutedByTopic`), in order (`DeliveredInOrder`); storing happens only while the
  client is away (`StoredOnlyOffline`), in order (`StoredInOrder`), and ends with
  everything drained (`DrainedOnReturn`). Together they are a service in which sessions
  belong to processes and not to descriptors (`ImplementsPubSub`).
- *Array and queue*: a block is as large as its array thinks, and the two arrays
  of a client stay in step (`SlotsHold`); the cells in use are those of the queue,
  in their order (`QueueShape`); the handlers' loops over them do what the server's
  model says they do in one step (`ImplementsSession`), and come to an end
  (`HandlersReturn`).
- *Subscriber*: it looks at its console again (`Attentive`), obeys what is typed
  (`LinesObeyed`) and loses none of it (`NoLineLost`); it shows the frames sent, in
  order (`ShownAsSent`, `FramesShown`); it does not stop the server (`SendsComplete`)
  and ends when the server does (`AllLeave`).
- *Decoding*: what is displayed is what was published (`FieldsShown`, `TextShown`,
  `IntShown`, `ShortRealShown`, `FloatShown`).

## 2. Modules

| Module | Models |
|---|---|
| `Protocol` | IDs, requests, frames, and what `strcmp` and the copy of `ID_LEN` bytes make of them |
| `Sockets` | external: descriptors, connections, the UDP socket, the console |
| `Records` | what the handlers do to one client's record, as operators |
| `Server` | `server.c`, `action.c` |
| `Peers` | subscribers, publishers, operator |
| `Broker` | the composition of the server and all its peers, its specifications and properties |
| `PubSub` | the abstract specification of the whole: accounts, sessions and mailboxes; implemented by `Broker` when paced |
| `Buffer`, `WaitQueue` | `buffer.c`; `queue.c` and `list.c` |
| `Session` | the abstract specification: a client's record that each handler changes in one step |
| `ClientMemory` | the record as two arrays and a queue, and the handlers' loops over them; implements `Session` |
| `Subscriber` | `subscriber.c` and the input half of `client.c`, with the part of the server that serves one subscriber |
| `Payload` | the datagram, the frame and the decoding in `client.c`, byte by byte |
| `MCBroker`, `MCClientMemory`, `MCSubscriber`, `MCPayload` | constants for TLC |
| `BrokerProofs`, `PacedProofs`, `DeliveryProofs`, `ServiceProofs` | theorems about `Broker`, each module resting on the one before |
| `StorageProofs`, `ClientMemoryProofs`, `SubscriberProofs`, `PayloadProofs` | theorems about `Buffer` and `WaitQueue`, `ClientMemory`, `Subscriber`, `Payload` |

`Protocol`, `Sockets`, `Server` (which takes `Records` too), `Peers`, `Broker`
each EXTEND the one before. `ClientMemory` EXTENDS `Records`, `Buffer` and
`WaitQueue`, and has `Session` as an INSTANCE. Because `Server` and `Session` change
records by the same operators of `Records`, what `ClientMemory` implements is what
`Server` assumes of each client.

### Server

| Code | Model |
|---|---|
| `fdIN`, `fdClients`, `receiveID` | variables of the same names |
| `curr_fd`, and how far the `for` loop has come | `ready`: the descriptors still to be served |
| `clients` | a sequence of records, in the order in which IDs were first seen |
| `intrests.topics` with `intrests.sfs` | one sequence of pairs: all operations treat the two arrays alike |
| `sock == -1` | `NoSock` |
| `inWaiting` | the sequence of the datagrams for which cells were added |
| the variable `temp` of `receive_udp_message` | `temp`, the datagram in the block it points to |
| `DIE`, `exit`, SIGPIPE, an invalid access | values of `status` |
| `select` | `Select` |
| one call of a handler | one action, with everything it calls |
| the three outcomes of `handle_id_client` | `RefuseClient`, `ReconnectClient`, `NewClient` |
| `handle_request` | `HandleSubscribe`, `HandleUnsubscribe`, `InvalidRequest` |

`queue_enq(c->inWaiting, &temp)` stores the address of a local variable of the
loop's body. In the compiled server that variable has the same address in each call,
and the stack frames of `handle_id_client` and `queue_deq` do not reach it, so
the drain reads the pointer stored last. This is what the model says: what a cell
*should* give is in `inWaiting`, what it *gives* is `temp`. A frame therefore has two
numbers, the datagram sent (`n`) and the one the server set out to send (`meant`).

The topic that `unsubscribe` compares with is never assigned; it is any topic, or
none. `del_pos` removes the last element correctly; to remove another one it
copies from slots that are null as long as the list has never been two elements
longer, which is a fault. Seven requests are the fewest that make such a list, so
`RequestsAssumption` keeps the bound on requests below that.

A client's ID has no NUL when the text has `ID_LEN` characters or more. `StoredAs`
gives what the stored bytes can equal later: itself, or nothing at all.

### Peers and Sockets

The state of a subscriber's end (`peer`) goes from `new` to `connected`, `open`
(ID sent), and to `fin` or `rst` when it leaves, `dead` when it has answered data
with a reset, and `gone`. `Exit` is the command of that name, which may leave
frames unread; `Kill` is the end of the process by a signal, at any point: Linux
then sends a reset if anything was unread. `Hangup` is the subscriber's end of
`recv` returning 0.

With `Paced = TRUE` a subscriber starts or ends only when the server has nothing left
to do for any of them (`Calm`): `test.py` waits a second or more after each of these
steps (`test.py:262-311`). Its requests may follow each other without a pause, whether
or not the server has read the one before, as long as no other subscriber has anything
under way (`AskingTurn`): `test.py:381-388` waits between two of them only for the line
that the subscriber itself prints. Publishers are never paced.

### PubSub

What the system is to its users: for each ID an account with its subscriptions and what
is stored for it, for each process a mailbox. There are no descriptors, no passes and no
`receiveID`; a session belongs to the process that began it (`Join`), ends when that
process has ended and only then (`Part`), and a datagram goes to each process for its own
account's subscriptions (`Deliver`). There is `Room` for so many sessions at a time, in
`Broker` one for each descriptor that `accept` may return. The service ends when the
operator has typed a line, whatever it says (`Type`, `Obey`), and else in the ways that
`Breaks` lists, and in no other: it sends to a process that is gone, or reads its reset; a
subscription that is not the last on its list is removed; or one more process comes when
all the room is taken by processes in their sessions, so that no descriptor is ever lost
to a connection that is not one. In `Broker` the account of an ID is the record with that ID,
with the connection behind its descriptor in place of the descriptor (`Account`); mailboxes
list what frames were *meant* to be, so that the divergence of stored frames (below) is
not a part of the question. The promise of `unsubscribe` is not in `PubSub` either: it
removes what the code removes, the last subscription or none.

### ClientMemory

An array is a record of `len`, `cap` and `data`, the slots 0 to `cap - 1`. A slot's
pointer belongs to the array alone, so it is shown as the element it points to;
`Null` is a null pointer and `Junk` one to a freed element, or memory that
`realloc` has added and nothing has written. `Touched` are the slots `del_pos` reads
from and copies through when its index has been incremented twice, and `AfterDel`
what comes of it. `Chunks` are the addresses `malloc` may return for a cell; a
freed cell keeps its contents and may be returned again, to anyone. `chain` is a
history of the cells put in and not taken out.

A loop of a handler makes one pass per action: `at` is the handler, `j` its counter,
`arg` the topic it looks for. `before` is a history of the record and of what was
sent when the handler began, and the mapping to `Session` shows that until the
handler returns: a step of `Session` is the return of a handler, and its passes
are stutters. An access to memory that may not be accessed ends the claim
(`status`), as a fault in the abstract record does (`Faults`).

Here a cell's element stands for the datagram it was added for; that all cells have
the address of one variable is in `Server`, as above.

### Subscriber

`typed`, `fetched` and `parsed` count the lines the user has typed, those stdio has
read, and those `fgets` has returned; `obeyed` is a history of what they were.
`unfinished` is where the beginning of a line without its end is: in the pipe, or
read by stdio, where `fgets` waits for the rest. The connection is `wire` to the
subscriber and `reqs` to the server. `pc` is where the subscriber is: `select`,
`fgets`, `send` or `recv`; `ready` is what its `select` found. The server's `srv`
goes through a pass: a datagram, with `send` for each subscription it matches, and
then the requests that were there when the pass began.

A frame is `L` units, the parts TCP may cut it into. The last one is the separator;
the first one may have that byte in it too (`cr`). A `recv` writes to the start of
`recvBuffer` whatever it has got before, so a frame that comes in parts loses its
beginning, and `display` is 0 when what was shown is no frame that was sent.

### Payload

Bytes are numbers, the fields of datagram and frame have the order they have in the
code and are shorter. A 32-bit integer is a sign and two halves, since TLC's
numbers have 32 bits themselves; a float is a mantissa of 24 bits over a power of
two, rounded to the nearest at each conversion and division (`Nearest`, `Quotient`), and
`Printed` is what `printf` makes of it: the digits of the exact value, the last one rounded.
`Message` is what a publisher may mean to send; `PublishedAssumption` says that texts
have no NUL in them, that the topic fits its field and that the address leaves room for
its NUL, as those of `inet_ntoa` do in `IP_CHAR_LEN` bytes.

## 3. Runs

"Processes" are connections; several processes may be started with the same ID,
one after the other or at the same time. The module of a run is `MCBroker`,
`MCClientMemory` (`memory`), `MCSubscriber` (`stream`, `framing`) or `MCPayload`
(`payload`).

| Run | Instance | Shows |
|---|---|---|
| `free` | 3 processes, two with ID `a`, one with the ID `b` of full length; 1 topic; 2 descriptors; 2 datagrams; 1 request; not paced | `TypeOK`, `WatchedAreOpen`, `NeverBlocks`, `StoredOnlyOffline`, `StoredInOrder`, `UniqueIds` in about 1.6 million states |
| `paced` | the same processes, all IDs with room for their NUL; 2 topics; 2 descriptors; 2 datagrams; 3 requests; the operator may type `exit`; `FewInputs`; paced | `SessionsMatch`, `Registered`, `RoutedByTopic`, `DeliveredInOrder`, `SubscriptionsKept`, `DrainedOnReturn`, `ImplementsPubSub` in about 590,000 states |
| `live` | 2 processes; 1 topic; 1 request, 1 datagram; the operator types; not paced; fair | `DatagramsHandled`, `ConnectionsServed`, `AllLeave` |
| `memory` | arrays of capacities 2 and 3; 3 addresses for cells; 2 topics; at most 4 subscriptions and 3 cells at a time; 2 datagrams; fair | `MemoryTypeOK`, `SlotsHold`, `QueueShape`, `ImplementsSession`, `HandlersReturn` in about 480,000 states |
| `stream` | frames of 2 units, room for 2 frames and 2 requests; 3 datagrams, 3 lines; frames whole with a terminal or a pipe, or in parts with a terminal; fair | `SubscriberTypeOK`, `Attentive`, `ShownAsSent`, `NoLineLost`, `SendsComplete`, `FramesShown`, `LinesObeyed` in about 300,000 states |
| `payload` | messages listed in `MCPayload`; topics of 3 bytes, contents of 7, addresses of 4 | `PayloadTypeOK`, `FieldsShown`, `TextShown`, `IntShown`, `ShortRealShown`, `FloatShown` in about 275,000 states |
| `stored` | 2 processes of one ID; paced | `DeliversStored` is violated |
| `unsubscribes` | 1 process; paced; fair | `UnsubscribesTopic` is violated |
| `registered` | 2 processes; not paced | `Registered` is violated |
| `survives` | 2 processes; 2 requests, 1 datagram; paced | `SurvivesClients` is violated |
| `all` | 2 processes; 2 topics, 2 requests; paced | `SubscribesToAll` is violated |
| `framing` | as `stream`, in parts with a terminal | `FullReceived` is violated |

**Bounds of the `Broker` runs.** `Conns`: processes that ever connect; `MaxFd`: the
last descriptor, so that `free` can run out of them; `MaxPubs`: datagrams; `MaxReqs`:
requests of all subscribers; `Lines`: what the operator may type. Three processes are
enough for two connections waiting for their IDs while a third one asks; two of one
ID are enough for a refusal, a return, and both at once. Two datagrams are enough to
store two and to mix one stored with one sent directly. Two descriptors for three
processes make reuse happen, and exhaustion. Three requests build lists with the
same topic twice, and two topics in both orders. Where two processes have the same
ID, or topics are alike, they are symmetric; the run with liveness uses no
symmetry. `FewInputs` bounds requests, datagrams and the operator's line of `paced`
together: two requests with two datagrams, two inputs and a line, or three requests
alone. Two descriptors for three processes run out there too, with two sessions and one
more process that comes.

**Bounds of `memory`.** With capacities 2 and 3 and four subscriptions both
arrays grow, at different times, one of them before `del_pos` touches null slots and one
after. `MaxSubs`,
`MaxWaiting` and `MaxPubs` bound subscriptions, cells and datagrams. Three cells are
enough to empty the queue, leave `tail` on a freed cell and have that address given
out again, first or later. The run has `Chunks` no larger than the queue may grow;
`queue_enq` always finds one, as `malloc` never fails here.

**Bounds of `stream`.** `FramesRoom` and `RequestsRoom` are what a connection has room
for either way, `Batch` what one `recvfrom` of the server takes, `MaxCopies` how many
subscriptions one datagram matches. Two units are a separator and a rest that may
hold one. Room for two requests against three lines, and for two frames against three,
makes both ends block. A datagram's frames must fit twice
(`2 * MaxCopies * L <= FramesRoom`) for `SendsComplete`: with less room a server in
`send` and a subscriber in `send` do wait for each other, and so does everyone who
waits for the server. A connection's buffers on Linux hold many times
that, unless they are made small as `test.py:577-580` does.

**Bounds of `payload`.** Integers have the bytes 0, 1, 127, 128 and 255 in all four
places and the signs 0 to 2; short reals are all 65536; floats go from a hundredth to
two thousand with exponents up to 6, with all numbers of few digits and some a
`float` cannot hold; texts, topics and addresses have every length, the text also one
that is too long; the types include an unknown one.

Deadlock is not checked in any run: when all bounds are used up, or a process has
ended, nothing happens any more.

**Broken variants.** Beside each definition that a property depends on stands a
variant of it with a plausible bug (marked "broken:" in the module), and
`PROJECT.json` names the run and the property that notices it.

**Fairness.** In `Broker`, `WF(ServerStep)`: the server is a loop around `select`,
which returns as soon as a descriptor is ready, and by `NeverBlocks` no handler waits in
a read. (That a `send` may wait is the subject of `Subscriber`.) `WF(Display(c))` and
`WF(Hangup(c))`: a subscriber is a loop around `select` and `recv`. In `ClientMemory`,
`WF` of the loops: nothing in them waits. In `Subscriber`, `WF(Process)` and
`WF(Serves)`: both processes go on where no call blocks them, and `WF` of a pass of the
server while a request is there, which `select` reports. Connecting, sending, leaving,
typing, publishing and stopping the server are up to people, and nothing is assumed
of them. No strong fairness is used: within a pass the handlers come in the order of
their descriptors, which the model fixes too, and it is this order, with the set of a
pass fixed in advance, that keeps a descriptor that is readable for ever from
starving the others.

**What `stream` has to leave out.** Lines that come through a pipe together are read
by stdio together, and `select` does not see them again: all but the first are
obeyed one by one when more is written or the pipe is closed. `LinesObeyed` therefore
speaks of a terminal, of a closed pipe, and of a pipe with more in it than stdio has read:
then what stdio holds is obeyed, and the first line behind it. The beginning of a line in
a pipe makes `fgets` wait, and nothing is displayed until the line's end is written;
`SendsComplete` and `FramesShown` except that time (`unfinished`).

### What the code does otherwise than the documents say

1. *Stored frames* (`stored`). README.md:39 promises "no data loss". Two frames
   stored for a client come back as the newer one twice.
2. *Unsubscribe* (`unsubscribes`). README.md:122. The topic is not read from the
   request, so the subscription stays.
3. *Registration* (`registered`). README.md:144. Of two subscribers that connect
   before either ID is read one is never registered. In the paced run
   `Registered` holds: the tests never do this.
4. *Departure* (`survives`). README.md:38-40. Two frames sent to a subscriber that
   has left, before the server has read the end of its stream, end the server by
   SIGPIPE: the first is answered by a reset. With two subscriptions to a topic one
   datagram is enough.
5. *Requests together* (`all`). `test.py:376` tests that a subscriber "can subscribe to
   all topics", with requests sent back to back. When one `recvfrom` takes two of them
   only the first is looked at (`server.c:110`).
6. *Frames* (`framing`). The comment at `subscriber.c:114` takes a `'\r'` in what
   `recv` returned as the end of the message. When a frame comes in parts and has a
   byte 13 before its end, what is displayed is no frame that was sent. Frames come
   whole as long as the socket buffers have room for them, and then every one is
   shown as it was sent (`ShownAsSent`), whatever bytes are in it.

**In the model, without a run.** The handlers are modelled with these outcomes too:
- A subscriber killed with a frame unread resets its connection, `recvfrom` fails, and the
  server ends (`server.c:111`). `PubSub` names it among the ways in which the service ends.
- The queue of a client is emptied into its new connection also when the process has ended
  since it sent its ID (`action.c:183-188`); `DrainedOnReturn` excepts that.
- An ID of `ID_LEN` characters is kept without its NUL (`action.c:203`) and may not be found
  again: a second connection gets a record of its own.
- A request taken for the ID that another connection owes makes a record with the client's
  own socket. When it is sent again at such a moment this socket is closed, which the
  client's records go on holding (`action.c:173`).
- `del_pos` increments its index twice per pass (`buffer.c:72`): nothing is shifted, as
  README.md:62 says it is, and a pointer from behind the last element is copied through,
  which is null, freed or not the array's. The claims about a client's record end there.

## 4. Theorems

The theorems hold for all values of the constants that satisfy the named assumptions
of the modules (`ProtocolAssumption`, `SocketsAssumption`, `PeersAssumption`,
`ProcessAssumption`, `WaitQueueAssumption`, `ClientMemoryAssumption`,
`SubscriberAssumption`, `PayloadAssumption`, `PublishedAssumption`), which TLC evaluates
in the runs. No proof needs `RequestsAssumption`, but `Server` is the code only with it.

### The server, whatever its peers do

`BrokerProofs` and the first part of `DeliveryProofs`, for all finite or infinite sets of
IDs and topics, any set of processes and all bounds:

| Theorem | |
|---|---|
| `Inductive` | `Spec => []IInv` |
| `TypeCorrect`, `DescriptorsWatched`, `ServerNeverBlocks` | the parts of `IInv` |
| `IdsAreUnique`, `NothingStoredOnline`, `StoredByArrival` | the invariants on the client records |
| `SubscriptionsOutliveConnections` | the action property `SubscriptionsKept` |
| `StoredUntilReturn` | the action property `DrainedOnReturn` |

**The argument.** `NeverBlocks` is not inductive: that a ready descriptor remains
readable while others are served needs that none of the others' handlers can close
it or read from its connection. That in turn needs that two descriptors never have
the same connection, which needs that a connection waits in the listen queue at
most once and not after it was accepted. `IInv` is the conjunction of `TypeOK`,
`WatchedAreOpen`, `NeverBlocks` and `ConnectedOnce` (the listen queue has no
connection twice, and none that has not connected). It was model-checked on the
instance of `free` before it was proved.

The records are treated apart. `RecordsChange` says what any step may do to the
list of records: add to the queues of those who are away (`Deposited`); append one
with an ID that no other has (`Added`); or change each of them by nothing, going
offline, coming back with its queue emptied, or, when online, a change of its
subscriptions (`Touched`). `RecordFields` says which fields each of these keeps.
`UniqueIds`, `StoredOnlyOffline`, `StoredInOrder` and `SubscriptionsKept` follow
from those cases, and from `TypeOK`.

`DrainedOnReturn` needs only `TypeOK`: in the one action that empties a queue,
`ReconnectClient`, what is new in the inbox is the sequence of frames that `Drain` makes of
the queue (`ComesBack`), and the part that was there before can be taken off again
(`ConcatParts`). Subscribers may race as they like.

### When subscribers act one at a time

The finding `registered` shows that `SessionsMatch` and `Registered` are false when
subscribers race, so these theorems have a hypothesis:
`Tested == Paced /\ FullIds = {}`, the pace of `test.py` and IDs with room for their NUL.

| Theorem | |
|---|---|
| `PacedInductive` | `Tested` implies `Spec => []TInv` |
| `SessionsAreRight`, `EveryoneRegistered` | `SessionsMatch`, `Registered` |
| `SentAsAsked`, `SentInOrder` | `RoutedByTopic`, `DeliveredInOrder` |

**The argument.** `SessionsMatch` is not inductive: that the descriptor whose message is
taken for an ID belongs to nobody yet, needs to be known of `receiveID`. `Turns` says
what every subscriber may be doing. It is *idle*: not started, gone without a trace, or
in session with nothing unread. Or it is the one that is *busy*: `Entering` (from
`connect` until its ID is read; once it is accepted, and only then, `receiveID` is
set), `Asking` (requests unread, any number of them), `Leaving` (an end of stream
unread), or `Refused`.
At most one is busy. `TInv` is `SessionsMatch`, `Turns` while the server is up, and
`Fresh` (nothing is sent to a process that has not started). Each handler is given a
descriptor, and `WhoIsRead` says that it is that of the busy one: the handler serves it
and leaves it idle, or in its next stage. A peer acts only when all are idle
(`CalmIdle`), or asks again while it is the one that asks, so the one that acts is the
busy one. Publishers are not paced: a
datagram may come at any stage, be sent to one that is leaving, and leave a reset
connection or end the server (`UdpTurns`); nothing goes to one that is entering
(`NoCopies`). An ID that is refused has its descriptor closed while the session under the
same ID stands, on another one (`RefuseTurns`).

`DInv` adds where topics and datagrams come from. `AskedFor`: what the record of an ID
holds, subscribed or stored, was asked for under that ID. `DeliveredAsAsked`: an inbox
lists datagrams that were due to its ID, in the order of arrival, those that were stored
included. A datagram that is sent
is newer than all in the inbox; what is drained is in order by `StoredInOrder`, and
nothing comes before it, since the inbox of a process that is entering is empty.

### The service

| Theorem | |
|---|---|
| `ServiceIsImplemented` | `Tested` implies `Spec => ImplementsPubSub` |

For any number of descriptors and anything the operator may type.

**The argument.** An account is the record that has its ID (`AccountIs`,
`OneOwner` by `UniqueIds`), with the process behind its descriptor for the descriptor
(`SessionOf` by `SessionsMatch`). Each handler is then matched: accepting, refusing and
invalid requests change no account, nor what a process has (`AcceptIsQuiet`,
`RefuseIsQuiet`, `InvalidIsQuiet`); an ID that returns, or is new, is `Join` of the
process that is busy entering; the end of stream is `Part` of the one that is leaving;
requests are those of the one that asks; a datagram is `Deliver`
(`DatagramDelivers`), where the two nested loops of `receive_udp_message` over records
and topics give each process what its one account wants (`CopiesOfRecord`); and where
the server ends, the service `Obey`s the operator (`CommandObeys`) or `Breaks` for
the reason it names (`DatagramBreaks`, `ReceiveFailsBreaks`, `FullBreaks`). The last of these
is the end in `accept`: the process that is being accepted is the one that is busy, so all
others are idle, and a process that holds a descriptor and is idle is in its session
(`AllInSession`); since no two descriptors have the same process, there are as many sessions
as descriptors.

### A client's memory

`ClientMemoryProofs` proves, for arrays of any two capacities from two on, any
addresses, topics and bounds (`WaitQueueAssumption`, `ClientMemoryAssumption`):

| Theorem | |
|---|---|
| `MemoryInductive` | `Spec => []IInv` |
| `MemoryTypeCorrect`, `ArraysInStep`, `CellsLinked` | `MemoryTypeOK`, `SlotsHold`, `QueueShape` |
| `HandlersImplement` | `Spec => ImplementsSession`: the refinement |

**The argument.** Arrays and queue are treated by themselves first, in `StorageProofs`. It
has `AddHolds` and `DelHolds`: in an array that `Holds` its elements `add_pos` moves
each of those behind the position by one, also when the block grows, and `del_pos` of
the last element leaves the others. A capacity of two or more is needed, since half
of one is nothing. It also has `Enqueues` and `Dequeues`: with
`QueueShape`, an added cell comes last and a removed one was first, whichever address
is used. `PairsAdd` and `PairsDel` carry this over to the two arrays read together,
and to the sequence of pairs that the abstract record has.

`SlotsHold` and `QueueShape` do not say what a loop has done. `IInv` adds that, for
each handler, in terms of the record it began with (`before`): `unsubscribe` has found
nothing so far, or has deleted the last element and so is at its end; a
datagram has been sent, or stored, once for each wanted position up to `j`; of
what was stored, `out` is the part already sent and the queue the rest. Each pass of a
loop keeps this and is a stutter of `Session`; when the loop is over it is what the
abstract handler does in its one step (`UnsubscribeReturnsRefines`,
`DatagramReturnsRefines`, `ReturnReturnsRefines`). `Counting` relates the passes to
the cardinality of the positions wanted. A deletion of any but the last element is the
fault that `Session` has too. `IInv` was model-checked on the instance of `memory`.

### A subscriber

`SubscriberProofs`, for frames of any length from two units on, any room on the
connection, and every way in which TCP cuts the bytes:

| Theorem | |
|---|---|
| `StreamInductive` | `Spec => []SInv` |
| `SubscriberTypes`, `NeverDeaf`, `WholeFramesShown` | `SubscriberTypeOK`, `Attentive`, `ShownAsSent` |
| `EveryLineSent` | `NoLineLost` |

**The argument.** `Attentive` needs to know where the stream is cut. `Cut`: what is on the
way ends with a separator, unless the server is in the middle of a frame, and what is left
of that frame ends with one. `Announced`: what `select` found is still there after the
console was served; only the subscriber takes it away. So a subscriber that enters `recv`
finds something, and when it has taken everything without a separator at its end the rest
of a frame is still to come. `ShownAsSent` needs what the units on the way *are*.
`InFrames`: with frames that arrive whole, `wire` is a number of whole frames, numbered
from the first not displayed to the last begun (`Pending`). A `recv` of `RecvLen` bytes
takes exactly the first (`ReceiveStream`), for any number of them and any `'\r'` inside.
`SInv` was model-checked with frames of 2 and of 3 units.

`NoLineLost` is inductive together with `SInv`, of which it needs the types and that
a `send` has a line (`Sending`): a line moves from `fgets` to the send,
into the connection and out of it at the other end, which keeps what is on the way as a
whole (`MovesAlong`), and a new one is later than all (`SendsAlong`).

### A message

`PayloadProofs`, for fields of any length:

| Theorem | |
|---|---|
| `FramesAreWhole` | `PayloadTypeOK` |
| `FieldsArrive`, `TextsArrive`, `IntegersArrive` | `FieldsShown`, `TextShown`, `IntShown` |
| `DecimalsArrive`, `FloatsArrive` | `ShortRealShown`, `FloatShown` |

**The argument.** `DatagramIs`, `ReceivedIs` and `FormatIs` say which byte is at each
position, and `FrameIs` puts them together; `FieldOf` says that a text which is followed
by NULs, or fills its field, is shown as it is. The invariant `PInv` says that the frame
is the one made of the message, and that what is displayed was decoded from it.

*Numbers with decimals.* Both theorems hold for every number the message can have, 16 bits
with two decimals and 32 bits with up to six, and rest on three facts. A power of two takes
any quotient to 24 bits (`ScaledUp`, `ScaledDown`), so the float `Nearest` to it `Differ`s
from it by at most a half of the last of these. Each digit that is printed is exact:
what is printed and what is left make up the number (`Stands`, `OneDigit`), where the
denominator is halved each time (`Halves`). The last digit is the nearest one (`LastNear`).

For hundredths, the denominator is so large (`LargeTwo`) that the quotient is far closer
to the number of hundredths than half of one: rounding gives it back (`RoundedBack`).
A float that stands for n / 10^k has gone through k + 1 roundings; `Near` says that it is
wrong by at most k + 1 halves of the 24th place, with room of one in a thousand for
what errors make of each other (`ErrorsAdd`). `NearFirst` is the conversion, `NearNext` a
turn of the loop, and `ConvertNear` puts up to six turns together, one by one, as there is no
induction over recursive functions. `DecimalsMiss` then adds the half decimal of printing:
half of the 24th place is less than 6 hundredths of a millionth, the 6 in `FloatShown`.

### Only model-checked

- All liveness: `DatagramsHandled`, `ConnectionsServed`, `AllLeave`, `HandlersReturn`,
  `SendsComplete`, `FramesShown`, `LinesObeyed`. The prover does not handle fairness.

Every safety property and both refinements that the runs check are also proved.

## 5. Not modelled, and assumptions

- *Bytes of requests.* Requests are records. One that follows another in the same
  `recvfrom` is in the model (finding `all`); one that arrives in two segments is
  not. IDs that begin with `s` or `u` are left out.
- *Socket buffers* are bounded in `Subscriber`, for one subscriber; in `Broker` a
  `send` neither blocks nor sends a part. Frames in parts together with a pipe are not
  in a run.
- *Network.* The outcomes of `send` and `recv` are those of Linux on the loopback
  interface, where `test.py` runs: the answer to a send has arrived before the
  next send.
- *Malformed lines.* A blank line or a missing word ends the subscriber or does
  nothing; which of the two is a choice. What a line of more than `CMD_LEN`
  characters does is not modelled. The comparison of the program's own name
  with the commands (`subscriber.c:76-78`) has no effect for `./subscriber`.
- *Decoding.* Exponents beyond 6 are not in the run, and `FloatShown` excepts them: six
  decimals do not show what was meant then;
  integers of 2^31 and more, which an `int` cannot hold, wrap and are excepted by
  `IntShown`.
- *Memory outside blocks*: the array's structure that is allocated with the size of a
  pointer (`buffer.c:10`), the copy from behind `recvBuffer` (`subscriber.c:119`), the
  NUL behind a topic (`client.c:183`). Allocation never fails. `queue_peek` and
  `queue_destroy` have no caller.
- *Start-up*: the server has bound its sockets and starts with nothing to do. The
  build has no behaviour.

## 6. Plan

Done: the server with its environment and the service it implements; the memory of a
client and its refinement; the subscriber with a bounded connection; decoding; proofs of
all safety properties and refinements that the runs check. What is left:

1. `SessionsMatch` for IDs of full length, whose second record (`UniqueIds` excepts it)
   never comes back.
2. A weaker hypothesis than `Paced`, in which requests of one subscriber may already follow
   each other: that at most one subscriber is between `connect` and its registration, with
   the others asking and leaving as they like.

# A TLA+ model of SGCTP

SGCTP (Simple Geolocalization and Course Transmission Protocol) is a C++ library
and a set of command-line utilities that send, receive, filter, convert and
redistribute the positions of moving sources. This directory holds TLA+ modules
translated from its source, the TLC configurations that check them on small
instances, and proofs checked by TLAPS. Paths are those of the repository
(`src/lib`, `src/utils/...`); `PROJECT.json` gives the lines of each definition.

## 1. Inventory

| part | source | state it keeps | operations | hard behaviour |
|---|---|---|---|---|
| hub, feed | `utils/sgctphub` | internal data map, queue of pending IDs, two mutexes, one condition | agents store and announce updates; TX pops and copies; clean-up expires | four threads, a wake-up without its mutex, lookups that age |
| hub, clients | `utils/sgctphub` | descriptor set and maximum, containers, deletion mutex | RX accepts, reads, deletes; TX dispatches, closes | insertion unlocked, descriptors reused, blocking sends |
| hub, data | `utils/sgctphub`, `lib/data.cpp` | first fix and current data per ID | create, sync, throttle, threshold, expire | times of day without a date, undefined fields, boundaries |
| hub, filter | `utils/sgctphub` | limits of each client | define, start, check | defined by one thread while checked by another |
| hub, life cycle | `utils/sgctphub` | threads, signals | start, interrupt, join | cancellation while holding a mutex |
| transmission | `lib/transmit.cpp` | receive buffer, timeout, payload object | receive, pull, flush, serialize, unserialize | partial reads, timeouts between size and content |
| TCP and handshake | `lib/transmit_tcp.cpp` | socket timeout, protocol state, principal | send and receive the handshake | two sides that must stay in step |
| UDP, file | `lib/transmit_udp.cpp`, `lib/transmit_file.cpp` | none of their own | send, receive | loss of synchronisation |
| course data | `lib/data.cpp` | scaled fields with undefined and overflow marks | set, get, copy, sync | rounding, overflow, undefined |
| payload | `lib/payload.cpp`, `lib/payload_aes128.cpp` | bit position, key and nonce | serialize, unserialize | field presence, extended content |
| principals | `lib/principal.cpp` | ID, password, allowed payload types | read, match | lookup of 64-bit IDs |
| skeleton | `utils/skeleton.cpp` | options, signal mask | parse, log, start as a daemon | signals against writes |
| stream filter | `utils/sgctpfilter` | previous fix per source | filter, throttle, replay | as hub data |
| bridges | `utils/hub2sgctp`, `tcp2sgctp`, `udp2sgctp`, `sgctp2tcp`, `sgctp2udp` | connection, interruption flag | connect or accept, copy, reconnect | signals against waits and writes, what counts as an end |
| dumpers | `utils/sgctp2dsv`, `sgctp2xml`, `sgctp2gpx` | output stream | read, print | as the bridges |
| converters | `utils/sbs2sgctp`, `flarm2sgctp`, `ais2sgctp`, `gps2sgctp` | line buffer, map of sources, reference fix | cut lines, look up, complete, write, clean up | pointers into a map that is cleaned up, a buffer that moves and overflows, reference and traffic |

How they interact: agents (bridges, converters) connect to the hub over UDP or
TCP, with the library's handshake on TCP; the hub's agent threads call
`dataSync` and push the ID on `sSyncID_queue`; the TX thread, woken by
`tClientTX_cond`, copies the datum and serialises it to each synchronised
client; the RX thread accepts clients and reads their filters and `#START`. All
connections share the process's descriptor numbers.

What makes each part correct:

* feed: mutual exclusion; no stored update lost; every stored update eventually
  copied for the clients;
* clients: the set, the maximum and the map agree; a visited container lives; a
  datum is considered for every synchronised client and goes to its client only;
  the deletion mutex comes back;
* data: entries live as long as their lifetime says, throttling and threshold
  mean what the options say;
* filter: a client gets what its limits allow; limits are not seen half made;
* life cycle: an interrupt ends the process;
* transmission: what is pulled is what was received, in order; `flushBuffer`
  ends; an error leaves the stream in step or the connection closed;
* handshake: both sides agree on principal, payload type, keys; a refused or
  broken one leaves nothing behind;
* course data and payload: a round trip preserves what the encoding can carry,
  and the record of a source has the latest of each field;
* bridges and dumpers: no message lost or repeated unaccounted for, an end only
  for a cause, and an end when signalled;
* converters: lines are cut where they end, the reference is a container of the
  map, traffic is dated by the fix it is relative to.

## 2. Modules

* **UpdateRelay**: what the hub promises about updates: accepted, then pending
  until forwarded or expired.
* **HubFeed**: the threads that move an update, one action per pthread call and
  per piece of code between two of them whose intermediate state another thread
  could see. `fresh` is a history variable: the entries TX has not copied since
  they changed. `tClientTX_mutex` is left out because TX alone locks it.
* **MCHubFeed**: its instance.
* **Dispatch**: what the hub promises its clients about each datum: it is offered
  once to each client synchronised when its turn began, and none of those is
  deleted before the turn is over, as long as no descriptor was closed behind its
  owner's back (`sound`).
* **HubClients**: the RX and TX threads over descriptor numbers. `sock` says
  what a number is open on, `agents` which ones the TCP agent thread believes
  its own; accept takes the lowest free number, as POSIX does. Undefined
  behaviour is a choice (`Remains`): a deleted container, asked for more data by
  the RX thread (`main.cpp:1510`) or by the agent thread (1049, `agentFD`), may
  have none, have some, so that its number is closed once more, or end the
  process. The lookup of a container during an insertion into the same map, or a
  null container, may end it too. `due` and `misclosed` (a thread closed a number
  that was another's) are history variables. `Turns` maps it to Dispatch.
* **HubClientsProofs**: the proofs about it.
* **HubData**: `dataSync` and `dataCleanup` with time and place. A day of six
  seconds and a lifetime of four keep the order of the real constants (delay <
  throttling, period <= lifetime < day).
  Its names begin with `Data` where HubFeed has the same (`DataSpec`), since
  HubProofs extends both.
* **HubProofs**: the proofs about UpdateRelay, HubFeed and HubData.
* **TransmitBuffer**: `unserialize`, `recvBuffer`, `pullBuffer` and
  `flushBuffer` on a byte stream, with `serialize` building payloads in the same
  buffer at any moment, as the hub's TX thread does. A byte is its number in the
  stream; each `memcpy` and each `recv` is a step. `received`, `pulled`,
  `boundary`, `failed` and `overwritten` are history variables. The content is
  parsed in the step that pulls it. The datagram
  transport, which resets the buffer, is not in it.
* **TransmitBufferProofs**: the proofs about it.
* **Handshake**, **MCHandshake**: `sendHandshake` against `recvHandshake`, one
  step per message sent or received, then data. A unit of the stream is what one
  wait of `recvBuffer` asks for (TransmitBuffer has the bytes below it). A key is
  the term it was derived from, secret and number of increments, and opens what
  was sealed with that term only: the cipher is taken as perfect. An ID is two
  halves of bits, combined as the code combines them. A server goes by its
  principals file or by the password and payload types its program configured;
  the repository's own servers never configure them without a file, but the
  library lets a program do so. A send or a receive may time out, and "#KO" may
  not get out. `recvHandshake` returns 0
  when the connection ends, and its callers take that for no error: the result
  "zero". `garbled`, `opened` and `discarded` are history variables.
* **HandshakeProofs**: the proofs about it.
* **Filter**, **MCFilter**: the filter of a hub's client. What the user asked for
  (`options`) is encoded as hub2sgctp does (with the elevations set as times) or
  as another program would, defined by directives, turned into limits by
  `clientStart` one dimension after the other, and checked by the TX thread one
  dimension after the other, without a lock. Places are distance and azimuth from
  the reference. `torn` is a history variable.
* **FilterProofs**: the proofs about it.
* **Codec**, **MCCodec**: setters, getters, `copy`, `sync`, `serialize` and
  `unserialize`, bit by bit; characters of the ID and bytes of the data are
  opaque. Quantities are integers, half a step of their field; Codec follows a
  message from the source's setters to the hub's record of the source. Which
  quantities are set is a constant: `Usual` of no interest, `Boundaries` at the
  ends of the ranges; the instance takes them from the setters' limits, the proofs
  take any. What walks a sequence of fields is a recursive function or a fold, so
  that it can be proved about.
* **CodecProofs**: the proofs about it.
* **Utility**: the bridges, the filter's loop and the dumpers, ten programs that
  differ in a record: where they read and write, how they get a connection, what
  an end or a failure means to them. The start-up and signal handling are the
  skeleton's. Signals come at any step; a call that is about to wait does not
  notice. SIGPIPE comes with a failed output, or with a handshake whose other end
  is gone, when signals are not blocked; sgctp2tcp's handler returns at once
  (`sgctp2tcp/main.cpp:37`), all others' raise the flag (`IgnoresPipe`). What
  sgctpfilter and sgctp2gpx leave out by design is a choice, counted in `unfit`.
  `deaf` says that accept() failed by itself, which ends tcp2sgctp.
* **UtilityProofs**: the proofs about it.
* **LineBuffer**: the buffer of `sbs2sgctp` and `flarm2sgctp`. A sentence is its
  number, then other bytes, then the end of line. `InStep` says of the bytes not
  yet cut, held or still to come, that a sentence begins behind every end of line
  (and at the front, unless a rest was given up there), and that the numbers of
  those that begin follow each other, from the one expected to the one sent next.
* **Converter**, **MCConverter**: the map of sources of the converters, over
  LineBuffer. `sbs2sgctp` and `ais2sgctp` complete the container of the source a
  message is about; `flarm2sgctp` has a reference, its own fix, and places
  traffic relative to it. A call sign of spaces takes a source's ID away
  (`sbs2sgctp/main.cpp:399-403`): `heard` are the sources whose last call sign
  since their container was created was not blank. A short FLARM sentence is read
  behind its last field: as an empty field or as a crash. The rest of a line that
  was given up is read like any line. `heard`, `switched` and `misdated` are
  history variables.
* **ConverterProofs**: the proofs about LineBuffer and Converter.

HubClients and Handshake meet in the outcomes of `recvHandshake`; HubClients and
Filter in `RXStart` and `TXRefuse`; Handshake and TransmitBuffer in the unit of
the stream; Codec and HubFeed in the copy that `dataSync` makes. Composing them in one state
space would multiply independent steps: each pair shares no variable beyond
that outcome.

## 3. Runs

| run | module | shows | bounds |
|---|---|---|---|
| `feed` | MCHubFeed | types and mutual exclusion, lookups, no lost update, refinement of UpdateRelay, agents return, forwarding of what is queued while TX is awake or about to be woken, unless a dispatch blocks for ever | a UDP and a TCP agent thread (the hub has one of each), two IDs, at most one queued ID on reception of the next: an agent past reception pushes whatever the queue holds, so the queue reaches three |
| `feed_lull` | MCHubFeed | the wake-up that is lost | the same |
| `clients` | HubClients | set, maximum and map agree; live containers; sends reach their client; the threads implement Dispatch, so that nobody is passed over; the mutex comes back | two connections at a time, which is what a reuse needs beside a bystander |
| `clients_reuse` | HubClients | a send that fails, the descriptor closed, its number accepted anew, and the next datum sent to the new connection | the same |
| `data` | HubData | lifetime, silence and clean-up bounds across two midnights | one source (sources never meet in these functions), two latitudes, two elevations, fixes at most one second old, sixteen seconds |
| `filter` | MCFilter | clients are refused for cause only; what is sent and withheld is what the directives say; what is sent is what the user asked | times, distances, azimuths and elevations on both sides of, within and near the limits, which come missing, equal, too near and in both orders; a late directive, a second start |
| `buffer` | TransmitBuffer | order and completeness of what is parsed, room for recv(), the end of a flush and of a call | a buffer of two sizes and a byte, so that a flush needs one memcpy or several; messages empty, fitting and too large; a stream of ten bytes, twice the buffer |
| `handshake` | MCHandshake | both sides keep the same key and agree on the outcome; nothing received early is thrown away; the server returns | one bit per half of an ID (enough to confuse the halves), two passwords, a principal per way of allowing payload types, or any configured password and types without a file, every client's settings against them, three messages each way |
| `codec` | MCCodec | fields fit their widths; both ends read the same layout; quantities arrive within half a step; the record is the latest | all fields, each combination of present groups that the flags treat differently, one field at every edge of its range, IDs and data at 0, 127, 128 and beyond, two messages |
| `codec_copy` | MCCodec | a copy without memory for its data | the same |
| `utility` | Utility | messages accounted for, one more after a signal at most, ends for a cause, an end when signalled unless it waits for ever | three messages, two waiting: one in hand, one before and one behind it |
| `converter` | MCConverter | lines in step with the input, room for recv(), no pointer to a deleted container, no name lost but to a clean-up or a blank call sign, traffic dated by a fix | a buffer of five bytes that moves below three and a line of six that never fits (1024 and more than 131072 in the code), two sources |

Deadlock is checked where the system should never stop (`feed`, `clients`,
`data`, `buffer`); a session, a program, a refused client or a source's last
message is an end.

Three runs expect a violation: each is a disagreement of the code with a line of
its own documentation, quoted under `findings`.

What the properties of the passing runs except is what the code does not
give:

* `SendsReachClient` (clients): not after TX closed a descriptor that stayed in
  the set. From then on every `select()` fails, until the number is taken again:
  RX neither deletes that client nor hears another (`RXSelectFails`).
* `DispatchSpec` (clients): after that, a new client under the closed number
  replaces the container of the old one, which RX does without the deletion
  mutex, so during a turn as well.
* `LifetimeIsBounded`, `SilenceIsBounded` (data): bounded by a day and not by the
  options, since `toEpoch` with a reference dates a fix from before midnight a
  day ahead, and an entry keeps epoch and place of its first update. The
  elevation part of the threshold subtracts an elevation from a latitude
  (`main.cpp:595`; `sgctpfilter/main.cpp:600` does not).
* `Verdict` (filter): not for a datum checked while the client starts again.
* `SentFitsOptions` (filter): not for elevations, which hub2sgctp sets as times
  (`hub2sgctp/main.cpp:390`) and the payload carries only with a position.
* `Agreement` (handshake): the two halves of an ID are combined without a shift
  (`transmit_tcp.cpp:412`), so the server may go by another principal; and a
  server that sent "#OK" may find its client gone.
* `OpensWhatIsSent` (handshake): the run's client falls silent after "#START", as
  hub2sgctp does (`Duplex = FALSE`). Each side has one key for both directions, so
  with AES128 messages that cross no longer open.
* `InOrder` (buffer): not after a payload was built in the buffer. The hub's RX
  and TX threads use one object per client, against `transmit.hpp:46`.
* `Accurate` (codec): a quantity at the end of its range may be read as an
  overflow: rounded up, it has all bits set, which is the mark.
* `KeepsLatest` (codec): not once `copy()` wrote through a pointer without memory.
* `QueuedIsForwarded` (feed): not while a dispatch blocks (section 4).
* `EndsForCause` (utility): SIGPIPE ends every program but sgctp2tcp: hub2sgctp and
  tcp2sgctp, too, which are meant to take another connection, when the other end
  leaves during the handshake or their output breaks. An empty datagram ends
  udp2sgctp, a malformed message hub2sgctp.
* `SignalledEnds` (utility): not for a program that waits for ever (section 4).
* `MapInStep` (converter): a source whose last call sign was blank has no ID, and
  its positions are dropped.
* `Accounted` (utility): not for a dumper with `-o`, whose stream is destroyed
  before its loop (`sgctp2dsv/main.cpp:210`).
* `TrafficIsDated` (converter): not once the reference's container changed for
  one in use, or traffic was reported under the FLARM's own ID.
* `OnlyLongLinesLost` (converter): a line of the reserve or more may be given up
  though it would have fitted an empty buffer.

## 4. Fairness

*Feed*: a running thread is scheduled (weak fairness on its own steps) and a
mutex that is released again and again is obtained (strong fairness on the
locks). Receiving, the clean-up coming due and a spurious wake-up have none. So
an update queued just when the TX thread goes to its wait stays there until an
agent announces another (`EventuallyForwarded` fails), and `QueuedIsForwarded`
promises its copy only outside that gap: when TX is awake, or waits and an
agent is about to signal. The dispatch of a copied datum has no fairness either,
since a send to a client that does not read has no timeout: `QueuedIsForwarded`
holds unless one dispatch lasts for ever. That the agents return
(`AgentReturns`) holds even then: TX holds neither of their mutexes meanwhile.

*Clients*: the RX thread's reads end by the three second timeout set in
`clientInput` and `recvHandshake`, which makes its steps fair; select() need not
return. A send has no timeout and no fairness: the two liveness properties hold
unless one send blocks for ever, which the code does not exclude.

*Buffer*: a thread inside `unserialize` gets on: its own steps are scheduled,
and `recv` ends with bytes, by the timeout or with the connection. No fairness is
put on calling `unserialize` or on sending.

*Handshake*: the server's steps are fair, because each of its waits has the
timeout of three seconds; a step of the client never is.

*Utility*: a running program gets on where it waits for nobody (`Runs`): weak
fairness on its own steps and on the read of an input that holds something. None
of the steps that wait for somebody else has any: opening (a FIFO), connecting,
accepting, the handshake, reading an empty input, and writing, during which
signals are blocked and which no bridge bounds by a timeout. So `SignalledEnds`
says that a program that was signalled ends unless it stays in such a wait for
ever (`Held`), which it may: the flag is not looked at there, and the signal may
have come just before. Messages, signals and the loss of a peer have none.

## 5. Proofs

Every safety invariant and every action property the passing runs check is a theorem
for all values of the constants. Each component's proofs have one inductive
invariant, proved step by step, and take the run's properties from it. The
assumptions on the constants are the named `ASSUME`s of the component's module,
which TLC evaluates for each run's values. They ask for types, for marks
(`Undefined`, `NoEntry`, `None`, `Nobody`, the outcomes of a read) that are not
values, and:

| module | assumption | in the code |
|---|---|---|
| TransmitBuffer | `Size >= 2 * HeaderSize - 1` | `CPayload::BUFFER_SIZE`, two bytes |
| LineBuffer | `0 < Reserve <= Size`, a line has two bytes | 1024 and 131072; a line has its end |
| HubData | `MaxDelay < Day`, `Start > TTL` | a fix is less than a day late; seconds since 1970 |
| HubClients | a descriptor beside the listener's; `Remains` is any of the three outcomes of using a deleted container | |
| Codec | quantities are whole numbers of half steps, times count from 1970, source types are 1 to 4 | setters take a double; `ESourceType` |
| Handshake | the server's nonce is nobody's password | 128 random bits |

`HubProofs`, of the feed:

1. `FeedTypes`: `TypeOK` is inductive; it says of each program counter which
   ID variables are set.
2. `FeedMutualExclusion`: `MutexOwners` is an equivalence, owner if and only if
   inside, because only then is it inductive (an unlock must make every other
   thread's claim false).
3. `FeedLookups`: `LookupStillHolds`, from `MutexOwners`: whoever changes
   `stored` owns the data mutex, so nobody else is between a lookup and its use.
4. `FeedImplementsRelay`: each step is a step of `UpdateRelay` or stutters,
   with the pending IDs those with an agent, in the queue, or with TX. The two
   lemmas on Append and Tail say what a queue operation does to its range.
5. `RelayNoUpdateFallsThrough`: `FreshIsPending` is inductive in the relay, one
   step per action. With 4 it gives `FeedNoLostUpdate`.

`HubClientsProofs`. `DeletionExcluded` (RX deletes only while TX is not visiting)
is inductive with the types, because each side's counter says who has the mutex.
The rest needs:

* `Covers`, the maximum by what it is used for: it is in the set and nothing of
  the set is above it. It follows for `Max` by the lemmas on `Min` and `Max`,
  which rest on the well-foundedness of the naturals;
* `Sockets`: until a thread closes a descriptor behind its owner's back, a
  container is that of an open client, the connection being accepted has none
  yet, an agent's descriptor is open on an agent, and the one just closed is none
  of them. Without it the reuse of a number could put a client's container on an
  agent's connection, and `ClientsReached` would not hold;
* `Visits`: whoever is owed the datum is still in TX's list and in the set, and
  nobody is owed one when the loop ends. From it `ClientsAllConsidered`.

`ClientsImplementDispatch`: each step is a step of `Dispatch` or stutters.
The turn is the TX thread's locked loop, what is owed in it is `due`, and a
client may be offered the datum as long as its number is in `txLeft`. The mapped
state has no set, maximum or mutex, so each step needs from the invariant what
those do for it: that RX deletes between turns comes from `DeletionExcluded`, that
a new client replaces nobody from `Sockets`, that TX passes over nobody it owes
the datum from `Visits`. That whoever is
refused by the filter is still there needs `ClientsOwedAreThere`, a fact of
Dispatch itself, which is carried along: the step lemma assumes it before and
`OwedStep` gives it after, for any step of Dispatch.

`HubProofs`, of the internal data. Two facts bound how long an entry lives: `CleanedUp`, the data
thread is at most a period late and what its last clean-up left was young enough
then; and `Dated`, the epoch of an entry is between `MaxDelay` before and a day
after the moment it was stored. The lemma `EpochOfFix` proves the latter of
`toEpoch` by the arithmetic of times of day, for a day of any length: the date is
right, or a day ahead if midnight passed since the fix. From both:
`DataLifetime`, `DataSilence`, and, of the clean-up's steps, `DataIsKept`.

`TransmitBufferProofs`. The inductive invariant
has, beside the types, three parts: `Stages`, what each step of
`recvBuffer` has established for the next; `Stretch`, which stretch of the stream
the window is; `Bytes`, that the window holds it. `Stages` is needed because
`flushBuffer` moves at most `iBufferDataStart` bytes at a time: from a start of
zero its loop would not move. The start cannot be zero, because either the size
was pulled before the content is asked for, or fewer bytes than a size are left
at the end of a buffer that holds almost two (the lemma `FlushHasRoom`).
From it: `BufferTypes`,
`BufferFlushEnds`, `BufferHasRoom`, `BufferOrder`, `BufferContent`,
`BufferInStep`.

`HandshakeProofs`. What can go wrong between the two sides is that one is at a
key the other is not, or hears a message meant for another step. The invariant
says, for each step of each side, what may be on its way to it (`ServerSide`,
`ClientSide`), and while both go on, where the other one may be (`Together`).
`Behind` orders the keys: the sender of a message, and both sides after one was
opened, are past its key; since a key only ever advances, it is `HandshakeReplay`.
`Granted` carries what the server took from the header to where
`HandshakeAgreement` needs it; `Refusals` keeps "#KO", which a client may find
where it expects something else, apart. `HandshakeOpens` has the hypothesis
`~Duplex`, since the property is false without: two sides that send at once
advance their one key at different moments. hub2sgctp, the one client in
the repository, is silent after "#START". The other theorems hold for both.

`FilterProofs`. `Defined` says which directives are still to come, so that the
hub's filter is what was asked for once the client starts; `Computed`, which of
the limits `clientStart` has written, statement by statement; `Checked`, that
what the TX thread passed it passed with the limits as they are, unless they were
rewritten meanwhile (`torn`). `RefusedForCause` has to be carried along. Before
that come the lemmas on what two directives mean as limits, undefined, in either
order, or too near each other (`BothLimits`, `EitherLimits`, `LimitsMean`): that
the interval the code makes of them lets through what the directives say is where
`FilterVerdict` is decided. `FilterSentFitsOptions` then follows through `Sent`,
what of an option survives the encoding.

`UtilityProofs`, for all ten programs at once. `Balance` counts: messages taken
are written, failed on, left out, or one in hand; it is inductive only with `Output` (what is in
hand is the last one taken and greater than all written) and `Unsent`.
`Signals` says where a blocked signal can be pending and when the message after
it was written; `Cause`, what ended a loop is still known when the program ends: in particular
that a raised flag has a signal behind it that the handler heeds (`Piped`).
`UtilityFacts` is what the proofs use of the ten records.

`ConverterProofs`. Each step of a converter is one of `LineBuffer` or leaves
it alone (`ConverterReadsLines`), so what is proved of the buffer holds of the
converters. `LineInv` adds to the run's `LinesInStep` only that a stream ends with a
line's end, which the next sentence is appended to. The lemmas say
what remains of a well cut, numbered stream when its first line is cut, when
bytes move from the input to the buffer, and when what is held is given up: since
no end of line is in what was searched, at most one beginning is lost with it.
`ConverterLosesLong`: a line is given up when it fills the buffer up to its end and
was not moved, that is, when the reserve or more is behind its start. `MapInv` adds to `MapInStep` which
program has a reference and which has names, and `ReferenceDated`, that the
reference's time is the one its moment was taken for; without it
`ConverterDates` would not survive the next sentence.

`CodecProofs`. The run sets a few fields to a few quantities; the theorems are
about every container, ID, size of data and quantity. They go from bits up:

* `Induction` takes a set of numbers where the library's theorem takes a
  predicate, which the provers cannot instantiate: a least number that is not in
  the set would have its predecessor in it. `Recursion` proves with it that a
  function defined by its value before exists, without which nothing can be said
  of `Number`, `ReadFields` or the fold below `FlattenSeq`;
* `NumberOfBits`, and with it `FieldOfBits`, `TimeOfBits` and `SourceOfBits`: what
  is written of a number that fits is read as it was, except that the greatest
  number of a field's width, all ones, is read as an overflow. `Powers` and
  `MarkBits` are the arithmetic of the widths that occur;
* `Flatten` and `SliceHolds` cut a payload where `serialize` put it together;
  `ReadWritten` is the round trip of a sequence of fields at any place of it, by
  induction on the fields read. `FlagsRead` and `SizesRead` say that the flags and
  sizes, which decide what follows, are read as written, and `AlignedShape` where
  the re-aligned part begins. `FieldsCarried` translates groups, as the code has
  them, into `Companions`, as the properties have them;
* `CodecRoundTrip` puts them together, for any payload and whatever the container it
  is read into held before;
* `StoredCourseRange` and `StoredErrorRange` say what each branch of a setter
  keeps, for every field. What is decided there: a quantity whose stored number is
  all ones, and so comes back as an overflow, is at the end of the range.
  With the round trip it gives `CodecAccuracy`;
* the inductive invariant, then, has four parts: types; `Meant`, the source's
  container is what its setters were given; `Message`, what is on its way and what it
  delivered, by the round trip; `Record`, the hub has the latest of each field but
  for what is still at the peer. `Record` needs `kept.held >= kept.size` unless
  crashed, because `sync()` allocates only when the size changes: a first `copy()`
  without memory would be kept for ever.

Only model-checked:

* liveness (`Progress` of the feed and of the clients, `CallReturns`,
  `ServerReturns`, `SignalledEnds`), out of the prover's reach;
* the three properties expected to fail.

## 6. Not modelled, and the plan

Worth proving next, in this order:

1. Action properties of the proved components: a key never goes back, a
   descriptor leaves the set only with its container, what was written stays.
2. A refinement of Handshake: two sides that agree, or do not, in one step.

Not modelled:

* start and shutdown of the hub: whether a thread is cancelled with a mutex in
  its hands depends on which calls of the C library are cancellation points;
* UDP and file transport: wrappers without state; what they return is what
  Utility and HubFeed choose from;
* throttling, threshold and limits of `sgctpfilter`: those of HubData and
  Filter, without threads; Utility has that a message may be left out, as a
  choice. Its replay sleeps, and no state depends on it;
* `gps2sgctp`: one container, no state across packets but that;
* option parsing, logging, the steps of `daemonStart`: I/O with the system. Seen
  on the way: it drops the user before the group (`skeleton.cpp:684`), and
  no utility looks at its result;
* the parsing of the principals file: sequential text. Seen on the way: a
  character it does not know in the payload types stops the parse at its place
  for ever (`principal.cpp:154`);
* the arithmetic and text of the converters and dumpers, `sgctperror` (random
  numbers), the cipher and base64 (libraries), build and packaging.

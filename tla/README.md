# swiftlink: a TLA+ verification project

swiftlink sends files over UDP: a client (`send_file`) splits a file into
numbered chunks and sends them through a selective-repeat window; an epoll server
keeps one session per transfer, writes the chunks where they belong, checks a
SHA-256 digest and publishes the file under its name. This directory models the
parts of it that decide whether a transfer is correct, checks them with TLC and
proves the safety properties that matter most with TLAPS, from the data structures
up to the promise that what a client reports as sent is in the output directory.

## Inventory

| component | state | operations | what makes it correct |
|---|---|---|---|
| `SenderWindow` (`window.cpp`) | base, next sequence, ring of slots with generations, min-heap of timers | `on_sent`, `on_ack`, `earliest_deadline`, `expire`, `reschedule` | the base is exact; no packet is left without a timer or gets two; a ghost entry never passes for a live one |
| `ReceiverWindow` (`window.cpp`) | base, ring of bits | `classify`, `mark_received` | the bits say exactly what is stored, around the ring and at the end of the sequence space |
| `ReceiverSession` (`receiver_session.cpp`) | file, window, paths, sizes, settled reply | `handle_packet` (START, DATA, FIN), destructor, `close_file` | only a verified file is published; a settled session never changes its mind and replays its answer |
| `io::File` (`file.cpp`) and the file system | names, inodes, descriptors | open, read, write, sync, rename, unlink | partial writes are errors; a rename is atomic |
| epoll server (`epoll_server.cpp`) | table keyed by address and session id, counters | lookup, admission, eviction, linger, sweep, shutdown | the table and the descriptors are bounded, every session is in one line of the report, no partial file outlives its session |
| sender (`sender.cpp`) | phase, retry counters, window, in-flight packets | `exchange_control`, the DATA loop | a success is a delivered file; it always returns; it outlasts losses within its budget |
| the sender's waiting (`sender.cpp`, `udp_socket.cpp`) | deadlines, the armed receive timeout | compute the wait, arm it, receive, expire | a timer that has run out is acted on soon, not early, whatever arrives |
| blocking receiver (`receiver.cpp`) | one session | `receive_file` | what it returns is what is on disk; it disagrees with the sender only where its missing linger explains it; it returns |
| wire format and CRC-32 (`serializer.cpp`, `crc32.cpp`, `packet.hpp`) | none | `serialize`, `deserialize` | one encoding per packet, decoded to what was sent; damage is detected; the checksum is CRC-32 |
| sanitiser (`filename.cpp`) | none | `sanitize_filename`, `join_path` | the result is a bare name |
| delay proxy (`delay_proxy.cpp`) | release queue, burst state and statistics per direction, idle deadline | accept, release, idle exit | it reorders only when asked, delays as asked, its statistics add up |
| hashing a file (`sha256.cpp`, `hash_file`, `on_fin`, `read_at`) | offset, buffered bytes, length | read a piece, `update`, `finish` | what is compressed is the padded contents, however the file was read |
| the compression function, the rest of the socket wrapper, status codes, programs | | | not modelled, see below |

The components interact by datagrams (sender and server), by calls (server to
session to window and file; sender to window) and through the file system (two
sessions may name the same file). Nothing is multi-threaded: the concurrency is
between the processes, their clocks and the network. What is hard to test is the
order of datagrams, timeouts, sweeps and acknowledgements, a server killed between
two of them, a deadline that goes by between two readings of the clock, the reuse of
ring slots, the failure of one file operation among several, and damage to a datagram. `PROJECT.json` lists these
hazards at their lines.

## Modules

`SendWindowSpec` is the contract of the send window: the next sequence number, the
set of unacknowledged packets, the pairs (packet, deadline) that are armed, and the
packets whose timer has fired and that the caller has yet to retransmit.

`SenderWindow` is `window.cpp`'s implementation, one action per member function:
`slots` is `slots_`, `timers` the heap as a set of entries, `handed` what `expire`
returned and the caller has not rescheduled. `prune` is the loop of the code: it pops
a top while the top is a ghost. Of several entries with the earliest deadline any may
be the top (`Tops`), since `std::priority_queue` orders ties as it likes, so `prune`
is the set of heaps it may leave. `armed` is a history variable: the deadlines the
caller has set and that were neither acknowledged, handed out nor replaced since. It
knows nothing of heap, ring or generations, and is what `earliest_deadline` is
measured by. The caller is unconstrained. `RingArithmetic` holds the facts about `%`,
`SenderWindowProofs` the theorems.

`ReceiverWindow` has the width of a sequence number as the constant `Modulus`
(2^32 in the code), so that `base_ + capacity_` wraps where it wraps in the code.
`stored` is a history variable: the chunks its caller wrote.
`ReceiverWindowProofs` has the theorems.

`Disk` models the output directory: names refer to inodes and descriptors refer to
inodes, which is what tells apart a renamed, an unlinked and a truncated file. A file
that is created takes any free inode; `CanOpen` is the bound on their number.

`ReceiverSession` models the class as operators on a session record and a disk. It
owns no socket and no clock, so each handler is a function from a packet to the set
of its outcomes; the constant `Faults` names the file operations that may fail.
The receive window appears as the set of stored chunks, which `RingExact` justifies,
and a digest as the contents it is the digest of.

`Packet` builds the datagrams of a transfer as `send_file` does.

Output and partial files are in one directory, as `join_path` puts them
(`OutputPath`, `TempPath`), and a client may ask for the name of a partial file:
`sanitize_filename` accepts it.

`Server` is what the server does. A step is one datagram, one sweep, one tick of the
clock or the shutdown. It is an open system: any datagram of the constant `Packets`
may arrive at any time and any number of times. Clocks are ages, which stop one
past the limit they are compared with. The process may also be killed (`Crash`) and
started again on the same directory (`Restart`): table and counters are gone, names
stay, and `orphans`, a history variable, remembers the partial files left behind. The
kill falls between two handlers. One inside a handler leaves nothing else: a handler
changes one name (it opens a partial file or renames it), and up to that change the
directory is what it was before the handler, after it what it is at its end, but for
the unverified contents of a partial file. A power failure, which may undo what was
not synced, is not modelled. `Partials` are the names of the clients' partial files,
`Requested` the names they ask for; the two may overlap. The theorems about the server,
its sessions and the directory are in `TransferProofs`.

`EventLoop` says when these steps can happen. The one thread waits in `epoll_wait`;
once the socket is readable it reads datagrams until there are none left (`draining`),
however long that takes, and serves neither the sweep timer nor a signal meanwhile. The
clock runs all the time and a kill spares nothing. Its steps are steps of `Server` or
leave it alone (`LoopIsServer`), so what is proved of the server holds of the loop.

`Sender` is `send_file`, with the window as `SendWindowSpec` states it.
One pass of the DATA loop (receive, expire and retransmit, fill) is one step, since
the sender shares nothing but the network. `Transfer` composes senders, network and
server. With `Timely = FALSE` the network keeps every datagram for ever and may
deliver it whenever it likes, or not at all; with `Timely = TRUE` a datagram arrives
once and within a tick unless it is lost, of which there may be `LossBudget`.
`TransferProofs` has the theorems about the whole too, and `SessionProofs` the lemmas
about a session, its directory and a sender that do not depend on who drives them.

`TimedLoop` is how `send_file` waits, which `Sender` takes for granted. Its clock is
finer than a microsecond, and a pass of a loop is several steps: send, compute the
wait and arm it, block, expire. Time may pass between any two of them (`Busy` in all
from one return of `recv_from` to the next call), the wait is cut to microseconds as
`duration_cast` does, `set_receive_timeout` is modelled with its clamp and its split
into seconds and microseconds, and `Blocks` is `SO_RCVTIMEO`, to which zero means for
ever and which may wake a reader late by `Slack`. Datagrams of any kind may arrive
whenever the loop listens. Times are relative, and stop falling one below the bound
of `ServedInTime`, so that being too late for good is one state. `TimedLoopProofs` has
the theorems.

`BlockingReceiver` is `receive_file`, the second driver of `ReceiverSession`: one
session, no table, no linger, every packet of whatever client handed to that session,
the reply sent to where the packet came from. It is composed with `Sender` over a
network that delivers within a tick or loses, each type of datagram up to
`LossBudget` times. `lost` counts them by type, as a history variable. `ReceiverProofs`
has the theorems.

`Wire` is the encoder and the decoder, with the network between them. A number is the
set of its bit positions, so that exclusive or is symmetric difference and one
definition serves every width. A packet is serialized, then damaged (one or two bits,
a run of bits, bytes missing or added), or replaced by one that another program wrote
and sealed with a fitting checksum (`Foreign`), and deserialized with the checks of
the code in their order. The other modules use this result: what does not decode is
dropped by every receiver, so a damaged datagram is a lost one.

`FileHash` is how both ends compute the digest: the loop over `read_at`, whose `pread`
may return any part of what is left or fail, and `Sha256`, which compresses whole
blocks, buffers the rest and pads the end. Since the digest is a function of the bytes
compressed, the hasher records those. `Padded` is the standard's padding, against which
`finish` is proved in `ReceiverProofs`.

`DelayProxy` is the impairment proxy of the tests, by itself: the evidence of the
integration tests is only as good as its queue and its statistics. Random draws are
choices among the impairments that are switched on; `log` is a history variable. The
release loop reads the clock once, into `due`, and then pops one datagram per step, so
that time may pass between two of them. `DelayProxyProofs` has the theorems.

Operators whose comment starts with "Mutant" are wrong versions of the operator that
follows. No specification uses them; they are put in its place one at a time to see
that the property they are listed with in `PROJECT.json` notices.

## Runs

| run | what it asks | result |
|---|---|---|
| `sender_window` | do ring, heap and generations implement the abstract window, for every order of calls? Capacity 2 and 3 packets reuse a slot; five generations allow send, expiry, re-arm and acknowledgement of a slot and its reuse; two deadlines give order and ties | holds, 207,921 states |
| `receiver_window` | is the ring exact in every arrival order? 13 chunks in a ring of 5 turn it two and a half times, out of step with its size | holds |
| `receiver_window_wrap` | the same at the end of the sequence space: 15 chunks, modulus 16 | violated, see below |
| `server` | the event loop with three clients (a file of two chunks, a refused name, and one who asks for the very name of its partial file), one active session allowed, so that refusal and eviction happen, every file operation may fail, one kill and restart. Two clients that want one plain name meet in `transfer_async` | holds, liveness included; 124,373 states |
| `server_shared_id` | two clients that drew the same session id | violated, see below |
| `transfer_timely` | a transfer of three chunks and one with a refused name, retries 3, five losses (enough to exhaust any one phase), idle and linger times of exactly retries x RTO | a retransmission always finds its session; with fewer losses than retries every sender ends with the right verdict; 270,000 states |
| `transfer_async` | two transfers, sessions that expire after a tick and may be reopened by a late START, a server that may stop, be killed and be started again | a success is a delivered file; senders always return; 309,000 states |
| `transfer_stale_ack` | two transfers in turn on one port | violated, see below |
| `blocking_receiver` | a file of three chunks and another client's file on one port, each type of datagram lost once, one undecodable datagram, failing writes, receives and sends, an idle timeout of the sender's whole retry budget | holds, liveness included; 508,000 states |
| `timed_loop` | three chunks through a window of two, two retries, three clock units to a microsecond and two microseconds to a second: waits that are whole, broken, below one microsecond, above a second and zero, computing for up to one microsecond, waking up to two thirds of one late | holds, liveness included, and `Lateness` is the least bound that does; 17,289 states |
| `wire` | 759 packets, of every type with fields at the ends of their range and one too long; an ACK without and a DATA with a payload damaged in every one or two bits, in every run of up to 32 and in length | holds, 253,000 states |
| `delay_proxy` | three datagrams either way, every impairment on towards the server, a delay of one tick; time enough for all releases and the idle exit | holds, liveness included; 996,257 states |

Bounds are named where they are declared: `MaxSequence`, `MaxGeneration`, `Inodes`,
`MaxOpened`, `MaxRefused`, `MaxStarts`, `MaxArrivals`, `MaxTime`, `Busy`, `Slack`,
`NoiseBudget`, `LossBudget`, `MaxRun`. In `transfer_async` no bound is on the network; retries are
bounded by the code itself. Deadlock is checked except in the runs of
the server, the proxy, the blocking receiver, the timed loop and the wire, which come
to an end: the shutdown, the return of the call, the decoded datagram.

Fairness. `EventLoop`: the clock runs (weakly fair), and the sweep is strongly fair: the
timerfd is periodic and level-triggered, so every `epoll_wait` reports it until it is
read, with room for all three descriptors in its array; the sweep is served if the
thread comes back to `epoll_wait` again and again. That it does come back is not
assumed, since nothing bounds the loop that empties the socket: `LingerEnds` has it as
a hypothesis. A stream of datagrams that never lets the socket run empty keeps sweep
and shutdown waiting. `Server` by itself states no fairness. `Transfer`: time
advances, and a `recv_from` with a receive timeout returns when it is over, so a
sender's timeout is weakly fair. Delivery is fair only on the timely network.
`DelayProxy`: the clock runs, and `ppoll` returns when its timeout is over; `QueueDrains`
accepts the stop by a signal as an end, not the idle exit. `BlockingReceiver`:
as `Transfer` on the timely network, and the idle timeout of `recv_from` fires.
`TimedLoop`: the program takes its next step and the clock runs; nothing is assumed of
the datagrams that arrive, so `GivesUp` holds against a stream of them that never
ends. Nothing is
assumed about datagrams on the untimely network, about the restart of a killed server, about the sweep, or about the user
starting a transfer.

### Where the code and its documentation disagree

1. `classify` computes `base_ + capacity_` in 32 bits. Within one window of 2^32 the
   sum wraps and every chunk from the base on is dropped without an ACK, although the
   comment says an obeying sender cannot produce this, and `chunk_count` admits such
   files. `WindowNeverDeaf` proves that this is the only way: if all chunks plus one
   window fit in the sequence space nothing is dropped.
2. The partial file's name is derived from the session id alone, while the table is
   keyed by address and id because ids may collide. Two such sessions share an inode,
   and one may write into the file the other has published. The name also lies in the
   directory of the published files, and `sanitize_filename` accepts names of its form.
   A file published as `.swiftlink-<id>.partial` is truncated by a later START of that
   id and removed with the session, and where that session is in progress its FIN
   verifies its own descriptor and then renames the file it finds under the name. So
   "a name in the output directory is always a complete, verified file"
   (`receiver_session.hpp:85`, `README.md:28`) holds of every name but those.
   `PublishedStays` and `PartialsOwned` say for any datagrams what remains true: only
   such a name is ever removed, and only along with the session it belongs to;
   `PublishedVerified` is about all other names, and is proved for clients that ask for
   no name of that form.
3. The DATA loop takes an ACK of any session.

Two more are in the models as the code has them (`ControlError` and `DataReceive` of
`Sender`), and no property says otherwise: `exchange_control` takes an ERROR of any
session, since it looks at the type before it compares ids; and the DATA loop drops
an ERROR, so that a sender whose receiver failed reports `kPeerUnresponsive` once its
retries are spent, without the status the server gave.

## Proofs

Proved by TLAPS for every value of the constants, and so without the bounds of the runs:

* `SenderWindowProofs`: the inductive invariant `IInv` is the conjunction of `TypeOK`,
  `WindowExact`, `GenerationsUnique`, `NoGhostIsLive`, `TimerCoverage` and
  `HandedIsDisarmed`. `NoGhostIsLive` is not inductive alone: an entry of an old packet
  is harmless only because generations of a slot never repeat and never run ahead
  (`GenerationsUnique`), and because two packets of one window never share a slot
  (`WindowExact` with `ModInjective` of `RingArithmetic`). From `IInv` follow the
  theorems `TypeCorrect`, `WindowIsExact`, `GenerationsNeverReused`,
  `LazyDeletionSound`, `NoPacketForgotten`, `NoDoubleExpiry`, and
  `Refinement`: the specification implements `SendWindowSpec`. `WakesInTime` needs more:
  `ArmedExact` shows for each operation that the deadlines of the live entries are those
  the caller has set (one lemma per operation), and the pop loop then stops at the least
  of them. It would fail for a ghost that passes as live, for a live entry lost or
  doubled, and for a loop that stops early.
* `ReceiverWindowProofs`: `RingExact` with the types is inductive; it yields
  `TypeCorrect`, `RingIsExact`, `ClassificationSound` and, under
  `Chunks + Capacity <= Modulus`, `WindowNeverDeaf`.
* `SessionProofs` has no theorem of its own to list. A lemma per handler says what it can
  do to a session and to the directory (nothing, fail, write, publish, open), so that the
  rest never looks into a handler again; others say the same of the operations of the
  directory and of the steps of a sender. Both drivers of `ReceiverSession` use them.
* `TransferProofs`, the server, for any datagrams at all (`Packets` is arbitrary). The
  inductive invariant `IInv` has the types, `TableBounded`, `Accounting` and
  `PartialsOwned`, and what they need: a session lingers exactly if it is finished
  (`TableOK`), the table is finite, and an orphan left by a killed process is not the
  partial file of a session (`OrphansApart`). It yields `TypeCorrect`,
  `AdmissionBounded`, `ReportAddsUp`, `NothingLeftBehind` and the action properties
  `VerdictStands` and `NamesStay`. Names are arbitrary too: `NamesStay` rests on what
  each destructor, rename and open does to the one directory, not on a separation of
  names (`TakenAlong`, `Forgetting`). `LoopIsServer` carries all this to `EventLoop`.
* `TransferProofs`, the contents of files. This needs to know who writes
  into the directory: `Honest(Units)` says that packets are what `send_file` sends (the
  sizes in START and FIN are the file's, data are units of it), that no two clients
  drew one session id, and that none asks for the name of a partial file.
  `HonestClients` proves that `Packet`'s packets satisfy it when the ids differ and the
  names are apart (`NamesApart`); without the ids the conclusion is false, as
  `server_shared_id` shows, and without the names for the reason under 2 above. `FInv(Units)` says that two names never share an inode (`Linked`), that an
  active session holds a descriptor of the inode under its own partial name and has
  written no more than it declared, and that a published name is verified; a rename
  moves an inode no other session holds. It yields `DescriptorsFreed` and
  `OnlyVerifiedPublished`.
* `TransferProofs`, the system: `TInv(Units)` joins `IInv` and `FInv`, the state of the senders, and
  `Promises`: a FIN_ACK that is in the network, or kept by a session for replay, or
  believed by a sender, belongs to a transfer whose file is in the directory. The
  FIN_ACK is sent after the rename, names stay (`NamesStay`), and nobody else makes one.
  `ServerIsServer` shows that the server in this system takes only steps of `Server`, so
  the lemmas above apply; from `TInv` follow `SendersInOrder` and `SuccessIsDelivery`.
  The hypothesis `OwnClients(Units)` is `Honest` said of the transfers: they have
  different ids and ask for no name of a partial file, and the server hears from nobody
  else.
* `TransferProofs`, the timeouts: `RetriesFindSession` is `SomebodyHome` for every number
  of retries, RTO, window, file and number of losses. `HInv`, beside `TInv`, weighs the
  age of a session against what its sender has waited since the session last showed a
  sign of life: a START_ACK or ACK in the network was sent in this very tick (`Granted`);
  every packet in flight has been waited for at least as long as its session is old
  (`Prompt`), and after the last ACK the FIN has (`AtHome`), so that no session is older
  than `Budget`, that is `MaxRetries * Rto`, before its sender has given up; and what the
  sender no longer keeps the session has stored (`Stored`). The sum and the product are
  behind `Spent`, with one lemma on them (`TimeSpent`). Neither `AtHome` nor `Granted`
  is inductive alone: each grant is what makes the sender's wait start again.
  The hypothesis `Outlasted` has what the promise depends on: both of the server's
  timeouts are at least `Budget`; the table has room for every transfer, since a
  lingering session that is evicted cannot repeat its FIN_ACK; the server is not killed
  and started again, since the new process knows no session; every transfer has a port
  of its own, since the DATA loop takes an ACK of any session; and there is a retry at all.
  The constants of `transfer_timely` satisfy it, and TLC has checked both `Outlasted`
  and `HInv` on them.
* `ReceiverProofs`, first part: the blocking receiver, for any clients with different
  session ids and files made of units (`DistinctClients(Units)`, as above), any names, any
  losses and any failures. `BInv(Units)` says that while the call listens it has no session and
  the directory is empty, or it has one and its partial file is all there is
  (`CallOK`, `Holding`); that a FIN_ACK in flight means that the call has returned
  success for that session, and an ERROR that it has returned an error (`NetOK`); that a
  socket serves one `send_file` at a time (`OnePerPort`), without which another transfer
  could take the answer away; and it follows the last exchange: as long as a FIN is in
  flight its sender waits for the answer (`FinAwaited`), and once the file is published
  that answer is in flight, lost, or no longer needed (`Answered`).
  `DisagreementNeedsLoss` needs both of these: that no FIN_ACK was lost is of use only if
  somebody waits for it. `CallInOrder` is the invariant itself; it yields
  `VerdictIsOnDisk`, `ReceiverFirst` and `OnlyLossDivides`.
* `ReceiverProofs`, second part: `DigestIsOfTheFile`, for every file of bytes, every size and every
  read buffer that is not empty. The invariant says that the blocks compressed and the
  buffer together are the file up to the offset, that the piece is what follows, that
  the blocks are whole and the buffer is less than one, and that the bits counted are
  eight times the offset. `UpdateProperties` and `FinishProperties` say it of the two
  operations. The provers do not compute powers of two, so the bytes of the length are
  admitted to the type of the sequences (`Octet`) without being shown to be bytes; no
  conclusion depends on it.
* `TimedLoopProofs`: `OnTime` bounds how late a timer may be at each place of the loop:
  before the wait is armed by what this pass has computed; in `recv_from` by the rest of
  the wait, the microsecond cut off or rounded up, the kernel's slack and the computing
  before it; after it by that and the computing since. `Armed` shows for every wait that
  the timeout set is never the zero that means for ever. It yields `DeadlinesServed` and
  `NoEarlyRetransmission`.
* `DelayProxyProofs`: in the inductive invariant orders in the queue are unique, later
  orders arrived no earlier and a release time is fixed by the arrival (`QueueOK`), and
  what still waits is younger than all that has left its direction without skipping the
  delay (`LogOK`). `TopIsOldest` gets from the queue's comparison to arrival order. It
  yields `NoReorderingUnasked`, `DelayIsSpent` and `StatsLineAddsUp`.

TLC has checked the inductive invariants on the instances of the runs, whose constants
satisfy `Honest`, `OwnClients` and `DistinctClients`, but for `server_shared_id` and for
the one client of `server` whose name is that of its partial file. `LeastElement` of `RingArithmetic` (a nonempty set of naturals has a least
element) gives the base of a sender's window and the earliest deadline.

Assumptions: a positive capacity (the constructors turn 0 into 1), natural deadlines
and bounds, for the receive window `Chunks < Modulus` and `Capacity < Modulus`
(`chunk_count` and the type of the field), and for the proxy a positive delay where
reordering is on (`main` refuses anything else). They are the `ASSUME`s of the
specifications, and TLC evaluates them in every run.

Only model-checked:

* all liveness (fairness and ENABLED are beyond the prover);
* the three invariants of `Wire`: what it computes is a recursion over bytes and bits, and an induction over data
  is beyond the prover too.

Only proved: `FileHash`. It has no run, because the theorem covers every instance.

## Not modelled

* The compression function of SHA-256 is out of TLC's reach, and a digest is taken to be
  the contents it is the digest of.
* The rest of the socket wrapper (open, bind, the non-blocking flag, the conversion of
  addresses), the names of status codes and errors, and the option parsing and printing
  of the client and the server: each is one system call or one table.
* Descriptor set-up, a failing `epoll_wait`, and failures to open or hash the local file
  before the first datagram: each ends the call at once, with nothing done.
* Statistics other than the shutdown report and the proxy's, and the proxy's
  probabilities.
* Loss of power. The code syncs the file before it renames it and does not sync the
  directory; what a file system promises then is not in the source.
* The characters of a name: which names `sanitize_filename` accepts is the constant
  `SafeNames`, any set of names, those of partial files among them.
* The width of two numbers. `on_data` adds offset and length in 64 bits; the model adds
  naturals. Where the sum wraps the code goes on to a `pwrite` at a negative offset,
  which fails, so the session fails either way and only the status in its ERROR differs.
* Time between computing a wait and entering `recv_from`, which is one step of
  `TimedLoop`: it makes the loop wake that much later, as `Slack` does, and is to be
  counted there.

## What is left

Every safety invariant and action property that a run checks and that holds has a
theorem, but for those of `Wire`. Beyond that the models could grow by the compression
function of SHA-256 (words as sets of bits, as in `Wire`, against the standard's test
vectors) and by a file system that forgets what was not synced.

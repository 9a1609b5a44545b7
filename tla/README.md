# A verification of sinew in TLA+

sinew is a header-only C++17 library for fixed-layout messages: a 16-byte
header in front of a plain struct, read and written in place, and lock-free
rings that carry such messages between two threads or, through shared memory,
between two processes. This directory holds TLA+ modules translated from the
headers in `src/include/sinew`, TLC configurations that model-check them, and
proofs checked by TLAPS.

## The system

| Component | State it keeps | Operations | Hard part | What makes it correct |
|---|---|---|---|---|
| Wire format (`types.hpp`, `wire.hpp`, `message.hpp`) | the bytes of one buffer | `prepare`, `finalize`, `validate`, `view` | reuse of buffers, similar types, partial checks | round trip, no type confusion, alterations noticed |
| `SpscRingBuffer` (`ring_buffer.hpp`) | `head_`, `tail_`, slots | `prepare_write`, `commit_write`, `push`, `peek_read`, `commit_read`, `pop`, `consume`, `size`, `empty`, `full` | two threads, memory ordering, counter wrap | no data race, a bounded FIFO, stable views, progress |
| `SharedMemoryRegion` (`shm.hpp`) | name, mapping, descriptor, creator flag; the OS's names and segments | `create`, `create_exclusive`, `open`, `close`, moves | processes interleave between system calls, calls fail, processes die | nothing leaks, names lead to live segments |
| `IpcRingBuffer` (`ipc_ring_buffer.hpp`) | a header with magic and counters, and slots, in a shared segment | `create`, `open`, the ring's operations | initialisation against attach, restart of a side | attach only to an initialised ring, FIFO per incarnation |
| `IpcEnvelopeRingBuffer` (`ipc_envelope.hpp`), `dispatch.hpp` | the same with fixed slots for any message type | typed write, `peek_packet`, `peek_msg`, `dispatch`, `dispatch_and_commit` | packets nobody expects, alignment | each packet goes to the handler of its type, once |
| ROS 2 bridge (`ros2_bridge.hpp`) | a reference to a ring, a callback | `spin_some`, `handle_ros_message` | callbacks that throw, invalid slots | every message is published in order |
| Containers (`containers.hpp`) | size and inline storage | vector and string operations | boundaries | agrees with a sequence |
| Portable encoding (`portable.hpp`, `endian.hpp`) | none | `portable_encode`, `portable_decode`, `portable_swap` | sizes read in the wrong byte order | decode undoes encode |
| CRC-32, id hash (`crc32.hpp`, `message.hpp`) | none | `crc32`, `fnv1a16` | table against polynomial | agrees with its definition |

How they interact: the rings call `prepare`, `finalize` and `view` of the wire
format on their slots. The inter-process rings place header and slots in a
`SharedMemoryRegion`. The bridge polls a ring and invokes a callback between
`peek_read` and `commit_read`. Nothing in the library blocks or starts threads;
everything concurrent is shared memory.

## Modules

| Module | Models | Extends |
|---|---|---|
| `Wire` | header, traits, `validate`, `prepare`, `finalize` as operators | |
| `MessageId` | `fnv1a16` and what the registration macros put into `MessageTraits` | |
| `WireLink` | one buffer, reused, between sender and receiver | `Wire` |
| `BoundedFifo` | what a ring promises, an abstract queue | |
| `SpscRingBuffer` | the in-process ring; refines `BoundedFifo` | `Wire` |
| `SharedMemoryRegion` | shared memory objects and the operating system beneath | |
| `IpcRingBuffer` | the ring in a segment, with processes that come and go; each segment refines `BoundedFifo` | `Wire` |
| `Dispatch` | `inspect_packet` and `dispatch` as operators | `Wire` |
| `IpcEnvelope` | the bus of several message types; refines `BoundedFifo` | `Dispatch` |
| `Ros2Bridge` | the ROS 2 adaptors at the ends of a ring, which is an instance of `BoundedFifo` | |
| `StaticContainers` | `StaticVector` and `StaticString` as storage and size; refine sequences | |
| `Portable` | `portable_encode`, `portable_decode` and byte order, on a message with both containers | `StaticContainers` |
| `Crc32` | the table-driven CRC, and CRC-32 as a remainder of polynomials | |
| `MC*` | instances of the above for TLC | |
| `WireLinkProofs`, `SpscRingBufferProofs`, `SharedMemoryRegionProofs`, `IpcRingBufferProofs`, `IpcEnvelopeProofs`, `Ros2BridgeProofs`, `PortableProofs` | the proofs; those of the containers are in `PortableProofs` | their module, `TLAPS` |
| `Crc32Proofs` | the proofs about the CRC | `MCPortable`, `PortableProofs` |

Names of operators and actions are the source's names. Operators called
`mut_...`, and a few in `Wire` marked "Mutation", are plausible bugs: each
property is shown to fail when the operator they stand beside is replaced.

### Wire and WireLink

A buffer is a record of the header's fields and a payload. A payload is one
value for the `sizeof(T)` bytes of a message. `Crc(p, n)` is the checksum of the first
`n` bytes of a slot that holds `p`, any function to numbers: no strength of it is assumed,
so payloads may share a checksum, and one may have 0, and in the instances some do.
`validate` returns the error codes in the
order of the code's early returns. Addresses are offsets from an address
that suits every type, since only their remainder matters. The payload after
`prepare` is one value `Fresh`: zero bytes, and default member values where
`new (p) T` sets them.

`MessageId` gives the instance its ids: `SINEW_REGISTER_MESSAGE` stores what it
is given, `SINEW_MESSAGE` the FNV-1a hash of the type's name folded to 16 bits
(never 0), and a type that is never registered has id 0 and version 1. One of
the instance's names, "Asym", has a hash that folds to 0. A 32-bit word is kept as two halves, because
TLC's integers are signed 32-bit numbers.

`WireLink` reuses one buffer for messages of any type. `prepare_result`,
`write_payload`, `finalize_message` are the sender's calls; `alter` changes the
payload of a finished message. The receiver is stateless, so the properties
quantify over what it might ask.

### SpscRingBuffer

Each atomic access and each slot access is a step. `prepare_write` is
`prepare_write_load` (load of `tail_` and room test) and `prepare_write_stamp`
(header and `memset`); `commit_write` is `commit_write_finalize` and
`commit_write_store`; `peek_read` is `peek_read_load` and `peek_read_view`;
`commit_read` is one store. `push` is prepare, one `write_payload`, commit;
`pop` and `consume` are peek, `read_item`, commit. A callback that throws is a
peek that is not followed by a commit. A type for which `prepare` finds the place behind
the header misaligned, in any slot, is `OverAligned`. `empty` is asked by the consumer and
`full` by the producer, between their other calls.

Memory model. A relaxed or acquire load returns any value from the newest the
thread has seen to the latest stored (`Visible`), which is what read coherence
allows with one writer per counter. Slots are plain memory: instead of modelling
torn or stale slot reads, `NoDataRace` requires every pair of conflicting slot
accesses of the two threads to be ordered by a release store and an acquire load
(`pSync` and `cSync` hold the counter values each thread has synchronized with).
A program without such races has only the interleaved behaviours that the model
has, so the other properties can be read off the interleavings. The orders
themselves are operators (`TailLoadOrder`, ...) taken from the source.

Counters wrap at `Modulus`, the model of `2^w` for a `w`-bit `size_t`.
`ImplementsFifo` maps the ring to `BoundedFifo`: the queue is the payloads of the
slots from `tail` to `head`, and `item` is the consumer's copy.

### SharedMemoryRegion

The POSIX branch of `shm.hpp`. `ns` is the namespace, `length` the size of each
segment, `fds` and `maps` the tables of each process, `obj` the region variables
(`name_`, `data_`, `size_`, `is_creator_`, `fd_`). A factory runs as `factory`
(the local region is filled in), `shm_open` or `shm_open_fails`, `ftruncate` or
`fstat`, `mmap`, `assign_result`; a failing call goes through `step_fails`
(`::close(fd)`), `unlink` in the creating factories, and `drop_local`, the
destructor of the local region. `close_effects` is `close()`. `munmap`,
`::close` and `shm_unlink` inside one `close()` are one step: only the unlink
is visible to other processes. `crash` ends a process without destructors and
starts it again. `normalize_posix_shm_name` adds the slash and clamps long names;
the instances clamp without collision. The result of a factory is always stored
with the move assignment, which on an empty variable does what the move
constructor does.

### IpcRingBuffer

One producer process and one consumer process share a name. `header`, `slots`
and `length` are the contents and sizes of the segments, `name` is the segment
the name refers to, `pSeg` and `cSeg` are the segments the processes have open.
`create` is `create_shm` (`shm_open`), `create_size` (`ftruncate`, `mmap`) and one
`create_store` for each header field; since the stores are plain or relaxed,
they take effect in any order. `open` is `open_shm`, `open_map` (`fstat`, `mmap`)
and one `open_check` for each field it compares, again in any order. The ring's
operations are those of `SpscRingBuffer`, with the counters in the segment.
`destroy` and `leave` are the destructors; `producer_crash` and again `leave` are
a process's death at any step. A process that comes back may have been compiled
for another type or capacity. A segment that nothing refers to is freed.

Two abstractions. The counters are loaded at their latest value: loads that lag
behind are the subject of `SpscRingBuffer`, whose code and memory orders are the
same. And `create` is not called over a segment that the consumer has open
(`Quiet`): the comment on `SharedMemoryRegion::create` forbids it. Without
that constraint the reset of `tail` can fall between a consumer's load and store
of it, which leaves `tail` ahead of `head` for good.

`ImplementsFifo` relates every segment to a `BoundedFifo` of its own. The queue
may be emptied (`RingCleared`) only by a create, or when nobody has the segment
open; a consumer's death or exit makes it forget the message it looked at and
nothing else.

### Dispatch and IpcEnvelope

`dispatch` gives the set of types whose handler is called, at most one;
`inspect_error` and `packet_view` are the two results of `inspect_packet`. In
`IpcEnvelope` the producer prepares each slot for a type of its choice; `seal` is `commit_write`, which takes the length of
the checksummed bytes from the header in the slot. The
consumer has a list of types (`handlers`). `dispatch_load` and `dispatch_match` are
`dispatch` for the whole list and `peek_msg` for one type of it, `dispatch_packet`
is `dispatch` on the `PacketView` from `peek_packet_load` and
`peek_packet_inspect`; a matching handler reads the message (`visit`) and the call
ends with `commit_handled`, or `not_committed` if the handler throws or the caller
only peeked. `commit_packet` is `commit_read` by a consumer that has looked at the
packet. `open` replaces the consumer. `ImplementsFifo` maps the bus to a
`BoundedFifo` of pairs of a type and a payload, where the type is the one that the
message was prepared for and, in `item`, the one whose handler runs.

### Ros2Bridge

`handle_ros_message` is `BridgeSubscriber`: it converts a ROS message into a slot
and commits it. `spin_some` of `BridgePublisher` is taken apart into its
statements: the call, `peek_read`, `publish` (converter and callback), `commit_read`,
`return_processed`; `abort` is a converter or callback that throws, or the death
of the process, after which another call of `spin_some` starts over. The ring is
`BoundedFifo`, which the three rings are shown to implement, so the module is
their composition with the bridge. `ros_msg` is the one `RosMsg` that
a call uses for all its messages; the converters set the fields that the native
message has and leave the others. `accepted` and `calls` are history variables.

### StaticContainers and Portable

A vector is its inline storage and its size, a string the same with the byte
that `put` sets to NUL. All operations that change a container are actions, among
them `push_back` of an element of the vector itself and `assign` and `append` of
a view of the string's own characters. `ActsAsVector` says that `push_back` and `resize`,
and `ActsAsString` that `assign` and `append`, do what a sequence cut to the capacity
would do; the other operations only make the states in which those are called.

`Portable` is a message with a scalar, a string, a vector and a C array.
A word is the sequence of its bytes in memory, so a host's byte order
is a choice of that sequence. `portable_swap` treats the fields listed in
`SINEW_REFLECT`; the number of elements that `swap_vector` swaps is read from the
size field as it lies there, which on a decoding big-endian host is still
in the order of the wire. Sender and receiver may be of either order.
`encoded_size` is what `portable_encode` returns for a destination of the given length,
0 if the message does not fit.
`MCPortable` instantiates the checksum with the CRC of `Crc32` over the bytes of
the members, so `DamageDetected` is about the real function. It says when
`portable_decode` accepts a damaged message, exactly: when the stored checksum is 0, or when the
damaged payload has the same one. The instance has both: a message whose CRC-32 is 0, and
a damage that is a multiple of the generator polynomial, which leaves every checksum as it was.

`Crc32` represents a 32-bit word by the set of its one bits. The table is computed
as `generate_crc32_table` does, and `CrcIsRemainder` compares the result with the
definition of CRC-32 by division of polynomials over GF(2).

## Runs

| Run | Instance | Checks |
|---|---|---|
| `spsc` | 2 slots, counters modulo 4, 3 payloads (one with checksum 0), slots initially zero or holding an altered old message, fairness | `TypeOK`, `CounterOrder`, `NoDataRace`, `CommittedIsValid`, `RefusedOnlyWhenFull`, `AnswersHold`, `ViewStable`, `ImplementsFifo`, `EveryMessageConsumed`, `RefusalEnds` |
| `spsc_size` | the same | finding: `SizeCountsMessages` fails |
| `wire_link` | 5 types, any two of which agree in all but one trait, with hashed, given and missing ids; 4 payloads, one with checksum 0 and two that share theirs; addresses 0, 1, 4, 8, four buffer sizes | `TypeOK`, `RoundTrip`, `NoTypeConfusion`, `AlterationDetected` |
| `shm_lifecycle` | a creating process with two variables and an opening one, two names, one of them long, faults and crashes, one creator per name at a time | `TypeOK`, `HandlesOwned`, `Reachable` |
| `shm_backed` | two processes that both create exclusively and open, sizes 0, 1, 2, faults and crashes | `Backed` |
| `shm_exclusive` | the same, two spellings of a name, no faults | finding: `ExclusiveCreator` fails |
| `shm_recreate` | `create` into a variable in use, no faults | finding: `Reachable` fails |
| `ipc_ring` | a producer of one type, 2 slots, 3 messages for each ring, 2 segments; consumers that fit, that differ in id, payload length or capacity | `TypeOK`, `CountersOrdered`, `SameLayout`, `RefusesOnlyOtherTypes`, `ViewStable`, `ImplementsFifo` |
| `bus` | 3 message types, one of them filling its slot, 3 messages with a checksum that depends on the number of bytes, 2 slots, consumers that handle all types or one, fairness of a polling consumer | `TypeOK`, `PacketViewHolds`, `RefusesOnlyUnknown`, `ImplementsFifo`, `NothingBlocks` |
| `bridge` | a ring of 2 slots, 4 messages, 2 faults, limits 0, 1 and 2, a callback or none, fairness | `TypeOK`, `PublishedInOrder`, `PublishesWhatWasSent`, `PublishedOnceUnlessAborted`, `EveryMessageBridged` |
| `portable` | a string of 3 characters, a vector of 2 elements of two bytes, texts up to one longer than the string; a message with checksum 0, damages one of which keeps the checksum; destinations too short and long enough | `CStringIsView`, `RoundTrip`, `DamageDetected`, `CrcIsRemainder`, `ActsAsString`, `ActsAsVector` |
| `portable_arrays` | the same | finding: `ArraysRoundTrip` fails |

Bounds. Two slots are the fewest the code allows; with counters modulo 4 every
run passes the wrap many times, and the ring is full, empty and in between at
every counter value. The proofs cover all larger rings. Three segments are
enough for one live, one orphaned and one new segment; three handles for two
variables and a call in progress. TLC explores all reachable states of each
instance; there is no state constraint. Segments are interchangeable, so the
shared memory runs use symmetry (they check no liveness). `MaxHead` bounds the
messages committed to one ring between two creates: three messages use the first
slot twice. A process may come back any number of times. Two segments are enough
for `IpcRingBuffer`, where only one can be without a name at a time. In the bridge,
`MaxAccepted` = 4 messages fill a ring of two slots twice over, and a call whose
limit is 2 is interrupted after each of its messages; `MaxFaults` = 2
allows a message to be repeated twice. The containers hold every content over two
characters and three elements at every size from 0 to the capacity; 3 characters are
the fewest with which an aliasing view can overlap its target in part.
`PayloadSize` is the sum of the members' sizes.

Fairness (`FairSpec`). The callers in the repository (tests and examples) call
`prepare_write` and `peek_read` in a loop until they succeed and then commit.
`WF` on a step inside one call says that a thread runs on. `SF` on
`prepare_write_load(tail)` and `peek_read_load(head)` says that a load repeated
for ever sees the latest value some time, which C++ asks of implementations
("in a finite period of time"). `SF` on the two commits says that an
application which gets a slot or a message again and again commits some of them.
Nothing is assumed about `full`, `empty`, or which of the checksum options
is used.

The consumer of `IpcEnvelope` polls with `dispatch_and_commit` and drops packets
that no handler fits (`Polling`). Calls run to their end (`WF`); a call that its loop
makes again and again, and a commit that is possible again and again, are not put
off for ever (`SF`). Dropping is asked only of packets without a handler, so packets
with one must leave through it. Consumers may be replaced at any step;
`NothingBlocks` is about the behaviours in which this happens finitely often.

The bridge's application calls `spin_some` again and again, now and then with
room for a message (`SF`, over the limits above 0); a ring that is not empty shows
its message to a loop that looks often enough (`SF` on `peek_read`), and the statements
of a call follow one another (`WF`). Faults are bounded, hence finitely many.

## Findings

1. `size()` after `head_` wrapped (`ring_buffer.hpp:54`) is `Capacity` too large.
2. A refused `create_exclusive` unlinks the segment that it was refused for
   (`shm.hpp:185` with `shm.hpp:310`).
3. Re-creating a segment into the variable that holds it leaves the new one
   without a name (`shm.hpp:91`).
4. A C array among the reflected fields is not swapped (`portable.hpp:111`): it
   keeps the byte order of its sender.

Each is the counterexample of a run with `"expect": "violation"`. One more limit is no
finding, since nothing in the repository says otherwise: a type aligned to more than the 16
bytes of the header (`OverAligned`) compiles, but every `prepare_write` for it is refused (`ring_buffer.hpp:77`), although the ring is
empty. `RefusedOnlyWhenFull` states both halves: a type with aligned slots is refused only by a
full ring, and an over-aligned one always. The run's type has alignment 8; `RefusalsMeanFull` proves
both for every alignment.

## Proofs

All assumptions are the named `ASSUME`s of the modules (types of the constants,
`Capacity >= 2` from the `static_assert`s, `Capacity` divides `Modulus` at least twice),
plus those that a theorem states itself. TLC evaluates the former on every run.
Every invariant and every action property of the passing runs is proved, for all values
of the constants that these assumptions admit.

`SpscRingBufferProofs`, for every capacity and counter width:

- `TypeCorrect`: `TypeOK` is inductive; the increments wrap.
- `CountersOrdered`: the inductive invariant `CounterOrder`. `NoDataRace` alone is
  not inductive, since it says nothing about what a thread may load next.
  `CounterOrder` measures every counter value, seen or stored, by its distance
  from `pSync`: `pTail`, `tail`, `cSync`, `cHead`, `head` follow in this order
  within `Capacity`. When `pSync` moves, all distances shrink by the same amount
  (`SubShift`); an increment adds one (`SubInc`); a stale load lands between
  what was seen and what is stored (`VisibleBetween`).
- `DataRaceFree`: two values less than `Capacity` apart select different slots
  (`IdxInjective`, which needs `Capacity` to divide `Modulus`), so
  `CounterOrder` implies `NoDataRace`.
- `ViewsAreStable`: only the slot of `head_` is written, and only while
  `Writing` (`SlotWrites`); by `NoDataRace` it is not the slot being viewed.

The second half is about what is in the slots. `IInv` adds
`SlotsDescribed` (every message between `tail` and `head` has the header of its type
and one of the two checksums that `finalize` stores) and `Answers` (a refusal and the
answers of `full()` and `empty()` agree with the newest counter value loaded).

- `RingIsFifo`: the ring implements `BoundedFifo`. A commit appends to the queue
  the slot of `head`, a `commit_read` removes the first, and every other step
  leaves the slots in between alone (`MessageKept`), through every wrap of the counters.
- `MessagesAreValid`, `RefusalsMeanFull`, `AnswersCanBeActedOn`, for types of every alignment: a
  payload is aligned in all slots or, if the type is over-aligned, in none (`SlotsAligned`), so
  `prepare_write` gets its header stamped whenever there is room, or never (`StampSucceeds`).

`SharedMemoryRegionProofs`, for any processes, variables, names and sizes, and with any
system call failing:

- `TypeCorrect`. What a call holds depends on where it is (`CallFits`): a descriptor
  from `shm_open` to `mmap`, no handle in its local region until `mmap`, and when it
  returns a region with a mapping or the empty one.
- `HandlesCorrect` (`HandlesOwned`). The variables of a process, the local region and the
  local `fd` of its call are the owners of its handles (`Owns`): no handle has two, none
  is without one, and the two handles of a region are of one segment.
- `ReachableCorrect` (`Reachable`), under `OneCreator`. Creators are apart
  (`CreatorsApart`), those on their way through a factory included, so no
  `shm_unlink` of one can hit the name of another, and each one's name leads to its segment
  from `shm_open` on (`Leads`). Without the assumption `shm_recreate` is the counterexample.
- `BackedCorrect` (`Backed`), if no process uses `create`, which truncates a segment that
  others have mapped. Between the comparison of `fstat` and `mmap` nothing shrinks the
  segment: the only `ftruncate` left is that of `create_exclusive`, on a segment that
  is still empty (`Backs`) and that no other call is creating (`CreatedApart`).

A step is of one process. `Owns`, `Leads` and `Backs` are stated for one process
with its own tables, objects and call as parameters, so a step's proof says only what the
moving process does; that the others keep theirs follows once (`OwnsStep`,
`LeadsStep`, `BacksStep`).

`WireLinkProofs`, for any types and any checksum: `TypeCorrect`,
`MessagesRoundTrip`, `TypesAreNotConfused` (if id, version and size together
tell types apart) and `AlterationsAreDetected`, from the inductive invariant
`TypeOK /\ Stamped /\ Written`. The last is the exact verdict on an altered message, with nothing
assumed about the checksum: it is accepted if the checksum of what was sent is 0,
which `finalize` stores as it is and `validate` takes for "not computed", or if the altered
payload has the same checksum, and refused as `ChecksumMismatch` otherwise.

`IpcRingBufferProofs`, for any number of segments: `TypeCorrect`, `CountersInOrder`,
`ViewsAreStable`. `CountersOrdered` alone is not inductive: a commit needs room and a
`commit_read` a message (`RoomHeld`, `MessageHeld`), also when the process at the other
end was replaced between its steps, and the stores of `create`, in any order, must
find the counters 0 (`EmptyAtFirst`). `CapacityChecked` says that a consumer which got
through `open`'s comparisons computes slot numbers like the producer. `Freed` is why
segments in use survive the end of a process.

The second half adds what the segment's bytes are good for:

- `RingIsFifo`: each segment implements a `BoundedFifo`.
- `LayoutsAgree` (`SameLayout`). A header that `create` is still storing holds 0 in the
  fields it has not stored (`HeaderStored`), no instantiation has a 0 there
  (`GeometryPositive`, since `sizeof(T)` is not 0), and a segment has no bytes before
  `ftruncate`; so what `open` compared, in any order, still holds later (`ChecksHold`).
- `RefusalsAreOfOtherTypes` (`RefusesOnlyOtherTypes`), if types that agree in id,
  version and size agree in alignment (`AlignmentsAgree`). Every slot between the
  counters was prepared without an error and finalized, for a type with the
  `payload_len` of the header (`SlotsSealed`), and the message that was refused
  stays in the ring (`RefusalHeld`). The condition is needed: `open` compares no
  alignment, and slots of the same size may suit one type and not the other.

`IpcEnvelopeProofs`, for any slots, types and lists of handlers: `TypeCorrect`,
`PacketViewsHold`, `BusIsFifo` (if id, version and size tell types apart) and
`RefusalsAreOfOtherTypes` (if id and version do). `SlotsDescribed` says that every
packet was prepared, without an error, for some type; a packet of a type that
the consumer asks for then passes `validate` with the length of the slot as well as
with the length in the `PacketView` (`DispatchFinds`).

`Ros2BridgeProofs`, for any ring size, messages and limits: the four safety
properties of the `bridge` run. The inductive invariant relates the history of calls
to the ring: the last call showed the oldest message or the one before it
(`CalledUpToHere`), the queue is the end of what was accepted (`QueueHoldsTheRest`), and
`ros_msg` differs from a fresh one only in fields that the next conversion sets
(`UnmappedFresh`).

`PortableProofs`, for every message, capacity and checksum function, under
`Portability` (elements are bytes, the containers are reflected, capacities are below
65536): `MessagesRoundTrip`, for destinations of every length, and `DamageIsRefused`, the exact
verdict on a damaged message, whether its checksum is 0 or survives the damage. The heart is that a size n < 65536, read
on a big-endian host in the order of the wire, is 0 or at least 65536 (`u32`
reversed), so `count` is the whole capacity or there is nothing to swap; elements
behind the size may be swapped once too often, which no reader sees.

The containers, also in `PortableProofs`, for every capacity, element and text:
`CStringHolds`, `StringCorrect` (`ActsAsString`) and `VectorCorrect` (`ActsAsVector`).
The characters before the size are not NUL and the one at it is (`TextInv`). The loop of
`assign` and `append` reads the storage that it writes. By induction on its
rounds, what it has written after n of them is what the source showed before the call
(`CopyLoop`), because a view of the string itself never starts before the place that the loop
writes to, or else ends before it (`PutPlaces`); a loop that ran over an arbitrary place would
not have this.

`Crc32Proofs`: `Crc32IsRemainder`, for every sequence of bytes, and `ContainersChecked`
(`CrcIsRemainder`) for the containers of every message. Rounds of the register
are linear (`RoundsXor`) and only shift what is above the low byte (`RoundsShift`), so a table
lookup is eight rounds after the byte is added (`NextCrc`); each round is one step
of the division (`DivisionStep`), and after q bytes the remainder is the register, followed
by the bits of the bytes still to come (`RegisterIsRemainder`).

The last two are inductions over the natural numbers: the library's induction theorem is for an
operator, which the provers cannot instantiate, so `Induction` states it for a set of
numbers, from the well-foundedness of `<`; and a recursive function is shown to exist by
giving one (`Loop`), before its definition may be used.

Only model-checked: the liveness properties `EveryMessageConsumed`, `RefusalEnds`,
`NothingBlocks` and `EveryMessageBridged`, since fairness and `ENABLED` are out of the prover's
reach. The hash of `MessageId` is only evaluated, on the names of the instance.

## Not modelled

The Windows branch of `shm.hpp`; the wording of errors; the preprocessor macros
beyond what they register and reflect; accessors and comparisons of the containers,
and `at()`, which without exceptions falls back to the first element; vectors of
structures and nested reflected structures in `Portable`; capacities of 65536 and more
elements, for which decoding on a big-endian host may swap too few elements; containers
whose size came damaged off the wire, which no decoding function checks; misuse of the
rings by several producers or consumers, or by commits without a slot or message;
`size()` asked while the other thread runs, which the source calls approximate; in
`IpcRingBuffer`, moved-from handles and `create` over a ring that is being read; for `Reachable`,
a second process that creates a name between two unlinks of it by the first (`OneCreator`); the
Python schema tool, the examples and the benchmarks, which are clients of the library.

## What could be added

- The bridge and the bus take their rings as abstract queues or with an atomic `create`;
  they could be composed with the detailed rings that are proved to implement the queue.
- Nested reflected structures in `Portable`, as a tree of fields.

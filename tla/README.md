# A formal model of sernet

This directory holds TLA+ specifications of sernet, TLC configurations that
check them on small instances, and proofs for TLAPS. sernet moves packets of
XBee radios between serial ports and networks. One binary has five commands:

    radio --serial--> fwd --UDP 4434--> dst --UNIX datagram--> osc --UDP--> OSC
      ^                                  |
      +--serial-- src <------UDP---------+   (relay requests go back to src)

`dmp` prints what would go to `osc`; shell scripts start and restart the rest.

## 1. Inventory

| part | state | operations | interacts with |
|---|---|---|---|
| work queue (`fwd.c`, `dst.c`, `osc.c`) | array of pointers, count, mutex, two condition variables, two threads, the heap | rx: receive, copy, put; tx: pop, send, free; start; cancel and join | one of its own in each process; main thread stops it |
| frame codec (`packet.c`) | none | encode, decode | `src --simulate` encodes, `fwd` decodes |
| serial reader (`fwd.c:87-162`) | a 2048-byte buffer and its length | read, decode, drop what was used, queue | serial line, codec, queue |
| message formats (`msg.h`, `fwd.c:195-229`) | none | packet to message; checks of dst, src, osc | every process |
| duplicate filter (`dst.c:155-189`) | 16 sources, 256 time stamps each, two indices | look up, add, reuse, stamp, drop | in dst's rx thread, before the queue |
| relay (`dst.c:60-77, 256-308`) | 16 cached addresses | return a request, pass on a packet | dst's tx thread; UDP, UNIX socket |
| request source (`src.c`) | sequence number, counts of requests and replies, two threads | write a request, count it, count a reply, stop | serial line, UDP; main prints the counts |
| OSC conversion (`osc.c:132-177`, `osc/tinyosc.c`) | none | format and send a packet | osc's tx thread |
| UNIX socket (`dst.c:289-308`, `main.c:368-472`) | the name `/tmp/sernet`, what waits in each socket | osc and dmp start, bind, read, end; dst sends | dst's tx thread waits while the socket is full |
| set-up (`main.c`, `serial.c`, `udp.c`, `sernet.yuck`) | descriptors | parse arguments, open, bind, wait for Enter | every program |
| scripts (`fwd.sh`, `tmux.sh`, ...) | process ids, FIFOs | start, restart by pressing Enter, kill | processes |
| `serial-relay.py`, `serial-dump.py` | - | keyboard commands to another device | nothing here |

What is hard to get right and to test in it, and what "correct" means:

- **Work queue.** Two threads, a monitor and deferred cancellation. No pointer
  may be lost, freed twice or read after it was freed; no wake-up missed; the
  process must end when asked to.
- **Serial reader.** Frames arrive in arbitrary pieces, with noise, without
  pauses; the decoder changes the caller's buffer. Every good frame should be
  queued once, in order, and nothing else.
- **Formats.** 16-bit lengths computed in one program and tested in another.
- **Duplicate filter.** A bounded table with reuse and a time window: it should
  drop copies, only copies, and tell sources apart after an entry was reused.
- **Source.** A request is written in pieces, and Enter may cancel the thread in
  the middle of one. Requests should be whole, numbered apart and counted; times
  are added in two fields with carry.
- **UNIX socket.** Readers are started and stopped in any order, each taking the
  name from the other. A packet should go to the one started last, and dst should
  not wait for one that is gone.
- **Relay.** Any number of radios hear a request, every hop may lose, delay and
  reorder; a reply should reach its own source, and counts should make sense.

`PROJECT.json` lists each hazard with its line and the properties about it.

## 2. Modules

| module | models | extends |
|---|---|---|
| `BoundedStack` | what a queue promises, abstractly | |
| `WorkQueue` | the queue and its threads; implements `BoundedStack` | |
| `WorkQueueProofs` | proofs about it | `WorkQueue` |
| `Frame` | codec, as operators on byte sequences | |
| `Deframer` | serial reader | `Frame` |
| `DeframerProofs` | proofs about it | `Deframer`, `FormatsProofs` |
| `Dedup` | duplicate filter | |
| `DedupProofs` | proofs about it | `Dedup` |
| `Messages` | formats and checks | |
| `MessagesProofs` | proofs about them | `Messages` |
| `Osc` | the OSC message osc sends, and tinyosc's reader | |
| `Formats` | the stateless parts as one specification: a packet that grows, and its properties | `Frame`, `Osc`; an instance of `Messages` |
| `FormatsProofs` | proofs about codec, OSC text and formats | `Formats`; an instance of `MessagesProofs` |
| `Source` | one run of src in detail | |
| `SourceProofs` | proofs about it | `Source` |
| `UnixSocket` | dst's sending thread, osc and dmp; an instance of `BoundedStack` is its queue | |
| `UnixSocketProofs` | proofs about it | `UnixSocket` |
| `ReturnChannel` | what a source sees of all the rest, abstractly | |
| `Relay` | all programs composed; implements `ReturnChannel` | `Messages` |
| `RelayProofs` | proofs about it and about `ReturnChannel` | `Relay`, `MessagesProofs` |
| `MC...` | sets and functions the configurations name | each of the above |

Definitions whose name has a suffix (`Pop_Oldest`, `Found_OneShort`) are faulty
variants: plausible mistakes, each of which breaks a property. The behaviour of
the code never uses them.

### WorkQueue and BoundedStack

`fwd.c`, `dst.c` and `osc.c` contain the same queue three times. `slot` and
`cnt` are the static array and its count, `mutex` its owner, `pc` the position
of each thread, `hand` the pointer each holds in a local variable, `heap` the
buffers allocated, `cancelled` the pending cancellations, `main` the main
thread. What a thread does between taking the mutex and giving it up is one
step, since all of it is protected by the mutex.

| action | code |
|---|---|
| `Recv`, `RecvNoMemory`, `RecvEnds` | the blocking receive, the unchecked `malloc`, the return of the thread |
| `Lock`, `Wait`, `SpuriousWakeup`, `Put`, `Pop`, `Signal` | the monitor |
| `Dispatch`, `Skip`, `SendDone`, `SendFails` | tx after the pop; `exit(-1)` on a failed send in fwd and osc, not in dst (`ExitOnSendError`) |
| `PressEnter`, `JoinRx`, `JoinTx` | `getchar` and `*_stop` |
| `CancelBlocked`, `CancelWait`, `EndHoldingMutex` | deferred cancellation; in `pthread_cond_wait` the thread takes the mutex again and ends with it |

The code clears the slot *above* the one it popped. For a full queue that is
outside the array, where the structure has the count; as the two stores are
unordered for the compiler, `CountAfterPop` leaves the count decremented or 0.

`BoundedStack` says what is left of "queue": newest first, and taking from a
full one may clear it.

### Frame and Deframer

`Decode` is `pkt_decode` with `frame_decode`: how many bytes it says it used,
the packet it found, and the buffer as it left it. The last matters because a
sync correction moves the bytes in the *caller's* buffer and does not tell it.
The overlapping `memcpy` there and in `fwd.c:120` is taken to copy as
`memmove` would. `Deframer` runs it behind a line (`wire`), from which a read
takes any number of bytes; `RadioEncode`, `Write` and `Noise` are the outside
world. The smallest packet sizes `RxMin`, `TxMin`, the buffer's size and
`PKT_ERROR` are parameters, so that a run can scale them down. Assumed is that
the frames of the packets written fit the buffer, as all that a radio makes do.

### Messages

A packet is its type, length, address and payload; a payload is its size,
whether it starts with the magic number, and the request in it. `Message` is
what fwd makes of it in 16-bit arithmetic; `DstAccepts`, `SrcAccepts` and
`OscBytes` are what the others test and print.

### Osc

osc prints a packet's bytes as hexadecimal digits into an OSC message with an
address and one string (`osc.c:142-162`). `Written` is that message, or nothing
if it would not fit the buffer; `StringsRead` is what tinyosc's reader finds in
it. `Digit` gives a number for a character, and the address, a fixed text and
16 digits, is a constant. The buffer's size is a multiple of four, as it is in
the code (`osc.c:110`); otherwise the padding could go beyond it.

### Formats

Codec, messages and OSC text keep no state. `Formats` gives them one to be
checked in: `bytes`, a raw packet that grows byte by byte, and `packet`, a packet
of a radio; each property is about what the operators make of the two.

### Dedup

`table`, `stm`, `len`, `rc` are the code's variables. `Number` is what the code
knows a message by besides its source: the sequence number of a relay (`SeqOf`),
and the byte at `data[2]` of a packet (`ByteOf`), whatever that byte means. The
receive buffer is one for all datagrams, and a packet of less than three bytes
does not reach that place; `left` is the byte an earlier datagram has left there,
or `malloc` to begin with, so that two copies of a short packet may have
different numbers. `arrived` is a history variable: when each message was last
handled with each number.

| action | code |
|---|---|
| `Reject` | a datagram that is too short, of a wrong length or type: it only fills the buffer (`dst.c:116-153`) |
| `KnownSource`, `NewSource`, `Recycle`, `Overrun` | each with `Handle`: the number, the search, the stamp, the table that grows, is reused, is left |
| `Done` | the message is queued, or has been dropped |
| `Tick` | the coarse clock, between messages, as slowly or as fast as it likes: several messages may have one time |

When `dedup_rc` leaves the table, the store goes to the variables behind it; the
model stops there (`Overrun`). The code uses 0 for "no stamp" and so assumes
that the machine has been up for a second; so does the model.

### Source

`seq`, `cntExp`, `cnt`, `sum` are the code's variables; `tx` and `rx` are where
the two threads are, `main` where the main thread is. A request is `Parts` parts
long and each `Write` puts some of them on the `line`; `len` is how far the code
thinks it has come, `line[i].parts` how far the line has.

| action | code |
|---|---|
| `Stamp` | the next number, skipping 0, and the time stamp (`src.c:87-100`, `157-167`) |
| `Write`, `WriteFails`, `Count`, `Wake` | the loop around `write`, `exit` on an error, the count, the pause |
| `Receive`, `ReceiveEmpty`, `ReceiveFails` | a reply, with `ts_diff` and `ts_add`; the end of the thread; `exit` |
| `PressEnter`, `CancelTx`, `JoinTx`, `CancelRx`, `JoinRx` | `src_stop`: both threads in turn |

`write`, `nanosleep` and `recvfrom` are the cancellation points. A thread that is
cancelled in `write` may have written none, some or all of what it was given.
`CancelTx` allows all of these. No program installs a signal handler, so the
branches for `EINTR` repeat a call with the same arguments and are no steps.
`elapsed` is a history variable: the time between requests and replies as a plain
number of ticks.

### UnixSocket

`name` is where the file name leads: nowhere (`NoFile`), to a socket that has been
closed (`Stale`), or to a reader. `life`, `reading` and `box` are a reader's
start and end, its thread, and the datagrams in its socket; `stack` and `held`
are dst's queue and the message its thread works on; `blocked` is the reader
whose full socket `sendto` waits for; `late` counts what a reader got after it
had lost the name.

Of the kernel this is assumed, as Linux does it: a full socket makes the sender
wait for *that* socket, whatever becomes of its name; if it is closed meanwhile,
the name is looked up again. `DstRestarts` stands for the end and the next start
of dst: it binds its own port and its own name, so that there is only one.

### Relay and ReturnChannel

Sources and sensors transmit, each radio may hear it or not, its fwd makes a
message, dst returns requests and passes packets on, osc plays them, a source
counts replies. Each hop is a set of messages: anything in it may be taken in
any order or be lost. This is sound for the hops that contain a work queue too,
since that queue reorders and may lose. It is the default build, without the
duplicate filter; a message dropped by the filter would be one more loss.
A datagram duplicated by the network is not modelled, as `CountBound` would be
false for it trivially; the copies made by several radios are.
A write is one step here, and so is the end of the receiving thread (`Join`);
`Source` has both in detail. `CancelInWrite` is a thread that was cancelled with
the bytes already on the line: its request is transmitted and never counted.

`ReturnChannel` is what a source may rely on: of each request, at most one reply
for each radio comes back, late, in any order or never. `ImplementsChannel`
says that `Relay` is such a channel if `due` is the set of requests that are in
the air, on their way to dst or on their way back (`OnTheWay`).
`PktLen` is the size of each source's requests: 27 bytes, or what a simulating
source was told to send (`src.c:134-149`).
Assumed of the outside: each source has an address of its own (the operating
system sees to that when it binds) and no sensor sends what looks like a
request of an existing source.

## 3. Runs

| run | question | result |
|---|---|---|
| `WorkQueue` | `TypeOK`, `Integrity`, `NoLostWakeup`, `OrphanedOnlyByStop`, `LossOnlyWhenFull`; `ImplementsStack`; `RxServed`, `TxServed`, `StopEnds` | hold |
| `WorkQueueEnter` | does Enter always end the process? | no: a thread cancelled in `pthread_cond_wait` leaves the mutex locked |
| `WorkQueueLoss` | does every buffer stay reachable? | no: a pop from the full queue can clear the count |
| `WorkQueueOldest` | is every packet sent some day? | no: newest first |
| `Formats` | `RoundTrip`, `NeverEarly`, `NoForgery`; `Contract`, `Printed`, `Returned` | hold |
| `DeframerReads` | `TypeOK`, `NoneLost`, `Contiguous`, `GivesUpAtPktError`, `FrameTaken` | hold |
| `DeframerBurst` | are frames found that one read delivers? | no: both are stuck |
| `DedupFilter` | `TypeOK`, `SourcesDistinct`, `StampsTrue`, `NothingForgotten`, `DropsOnlyLookAlikes`, `RepeatsDropped` | hold |
| `DedupSources` | is there an entry for every next source? | no: `dedup_rc` never wraps |
| `UnixSocket` | `OneLate`; `LostToAStart`; `PacketsLeave` | hold |
| `Source` | `TypeOK`, `CountsExact`, `SeqDistinct`, `RttExact`; `StopEnds` | hold |
| `Relay` | `TypeOK`, `RepliesComeHome`, `PlayedAsSent`, `FirstComeOnly`, `CountBound`; `ImplementsChannel` | hold |

The comment above each property says what it means and which lines it is about.
The questions answered "no" are the findings of `PROJECT.json`.

Some properties hold only because they exclude a case in which the code does
less than one would expect. Those cases are visible in their statements:

- `RoundTrip` excludes frames of `src --simulate` whose checksum is 0x7d: it is
  the one byte the encoder does not escape (`packet.c:128`), and fwd never finds
  such a packet.
- `NoneLost` and `FrameTaken` exclude a frame of 255 bytes (`Ordinary`):
  `PKT_ERROR` is `(u8)UINT16_MAX` (`packet.h:7`), and so many bytes used by the
  decoder end the thread (`fwd.c:118`). `GivesUpAtPktError` says what that does on a
  calm line: no other frame ends the thread, all packets before it are
  queued, and it and all that follow are not.
- `NoForgery` excludes damage *into* an escape byte. Such a byte goes, and the one
  after it is altered: two bytes have changed, and the sum need not notice. The
  packet `0x90 0x3d 0x7e` with its `0x3d` damaged into `0x7d` becomes another one.
- `NoneLost` and `Contiguous` ask for a calm line. After a sync correction the
  buffer ends with bytes that are there twice (`packet.c:33`), and a packet can
  be made of them that nobody sent.
- `DropsOnlyLookAlikes` does not say that what is dropped is a copy. It need not
  be: a TODO at `dst.c:170-173` observes that drops happen "a lot even though no
  duplicates are sent". The property lists what they can be: another packet
  of the source had the same third byte within the window, the number came
  round, two simulating sources share one radio address (`src.c:151-154`; they are
  one source to the filter), or one of the two is too short to have a number and
  got the byte left in the buffer. That it is nothing else is what it says; with
  numbers of their own, only copies are dropped (`OnlyCopiesDropped` in section 4).
- `RepeatsDropped` speaks of messages that carry a number. A packet of less than
  three bytes does not, and its copies may all pass.
- `CountsExact` and `CountBound` except the last request: the thread may be
  cancelled after it was written and before it is counted, so that src may print
  more replies than it expected.
- `PacketsLeave` excepts a reader that has stopped reading without ending, for
  instance with its queue's mutex locked: dst then waits for it, and with it
  every source waits for its replies.

### Bounds

- **WorkQueue**: three slots instead of 16: a queue can be empty, partly filled
  or full, what one operation does depends on nothing else, and one slot is
  neither the first nor the last. A buffer for each slot and each hand; when
  they are used up or lost, `malloc` fails.
- **Formats**: raw packets of at most four bytes over ten byte values: three of
  the four that are escaped, the escaped form of one, both packet types, small lengths, and sums
  that make the checksum a special byte; the decoder treats all other bytes alike.
  Payloads up to 40 bytes and the largest that fit; every threshold (11, 27, 34)
  lies among them. The OSC buffer is 44 bytes long, for an address of
  30 characters as in the code: three bytes fit and four do not, so that both outcomes
  of every length test occur.
- **Deframer**: three frames, one byte of noise (0 or a sync byte), a buffer of
  12 bytes for frames of five to eight, so that it overflows. Minimum packet
  sizes 3 and 4 instead of 12 and 14; `PktError` is 5, the length of one frame.
- **Dedup**: three entries and three sources: tables that stay roomy, fill up,
  are reused and overrun. A window of one tick within a clock of three, so that
  stamps become stale. Of one source, two packets with one number, a relay whose
  number is not its third byte, and a packet without a number.
- **Source**: requests in three parts, so that a write can be short twice; the
  numbers 1 and 2, so that they come round within three requests and one more
  after Enter; seconds of three ticks, in a clock of four, so that there is a
  borrow and a carry; two replies.
- **UnixSocket**: three readers, so that one can lose the name to a second which
  is closed while a third starts; a queue and sockets for two messages, so that
  they can be empty, partly filled and full.
- **Relay**: two radios, so that replies are duplicated; a cache of one entry
  and two sources with the same port number on two hosts, so that one is
  refused; one transmission of each sender, of 27 bytes and, for a simulating
  source, of the size it was given.

Runs with `CHECK_DEADLOCK FALSE` stop by design: the queue's process may hang or
lose a thread, the line falls silent, the packet has its largest size, the
source has ended.

### Fairness

`WorkQueue!Fairness`: each thread takes a step of its own again and again while
it can (`WF` of `RxRuns`, `TxRuns`, `MainRuns`). The threads run under
`SCHED_FIFO` with neighbouring priorities and block on everything they wait for,
so that neither can be starved for ever. `WF` on a thread does *not* promise
that it gets the mutex when others compete for it. Sends return, and spurious
wake-ups cease at last: `pthread_cond_wait` allows them, but an endless series
of them is no schedule of a real system. Nothing is assumed of what arrives from
outside, of failures or of the Enter key. That sends return is true of the UDP
sockets of fwd and osc; dst's send to the UNIX socket may wait, and `PacketsLeave`
of `UnixSocket` says for whom and how long.

`Source!Fairness`: a thread that can compute, count, act on its cancellation or
join does so at last. There is none for `Write`, `Wake`, `Receive` or
`PressEnter`: the serial line and the network may stand still for ever, and
`StopEnds` holds all the same.

`UnixSocket!Fairness`: dst's sending thread goes on while it can (`WF` of
`Sends`), and each reader takes what is in its socket while its thread is there
(`WF` of `Take`). Neither has to be started, stopped or restarted.

## 4. Proofs

Checked by TLAPS, for every value of the constants that satisfies the named
assumption of the module (`QueueAssumption`, `DedupAssumption`,
`SocketAssumption`, `SourceAssumption`, `RelayAssumption`, `FrameAssumption`,
`OscAssumption`, `FormatsAssumption`, `DeframerAssumption`). Every safety property
of every passing run is a theorem.

**WorkQueueProofs.** The invariants of the run are not inductive alone:
that tx pops no null pointer depends on rx having one when it puts, and that no
thread ends with the mutex depends on who can be in the monitor. `IInv` adds
`Owner` (the mutex belongs to the thread that is inside, or died inside),
`Hands` (what a thread holds follows from where it is) and `Stopping` (only a
cancelled thread unwinds, and only after Enter). `TypeCorrect`, `BuffersIntact`,
`WakeupsArrive` and `OrphansOnlyByStop` follow; `LossNeedsFullQueue` is an action
property proved from it; `Refinement` maps the entries `slot[0 .. cnt-1]` to the
abstract stack and tx's hand to the element held, with one lemma each for the
step that pushes (`PutPushes`), the one that takes (`PopTakes`) and all others.

**DedupProofs.** `IInv` adds to the invariants that no stamp lies in the future
(`Past`), that all entries searched hold a source (`Filled`), that entries not
yet used have no stamps (`Fresh`) and that a message was handled only with numbers
it can have (`Carried`): its own, or any if it is too short for one. `TakeEntry` proves once, for new and for
reused entries, that giving an entry to a source nobody has keeps stamps true.
`NoSourceTwice`, `StampsTellTheTruth`, `ForgetsNothing` are invariants,
`DropsAreLookAlikes` and `RepeatsAreDropped` action properties; `Reason`
says which message a drop goes back to. `OnlyCopiesDropped` is what the filter is good for: of a source whose
messages carry numbers, and different ones, nothing is dropped but copies.

**MessagesProofs.** Lengths are at most 2048, so nothing wraps (`Lengths`); then
`DstAlwaysTakes`, `OscPrintsAll` and `SourceAlwaysTakes` hold of every packet.

**SourceProofs.** `IInv` adds `Line` (all requests but the last are whole, the
last one is as long as `len` says while it is written, and the count follows from
where the thread is), `Bound`, `Numbers` (how the number at one position gives the
one at another) and `Times` (no time stamp lies in the future).
`TsDiffExact` and `TsAddExact` are lemmas about the arithmetic of
`local.h`: a difference and a sum are proper times and exactly as long as they
should be. `CountsAgree`, `NumbersDiffer` and `SumExact` follow.

**UnixSocketProofs.** `IInv` adds to `TypeOK` `Present` (only a reader that is up has the name
or makes dst wait) and `CutOff` (a reader that got a packet late is not the one the
name leads to, nor the one dst waits for, so that dst cannot come back to it).
`NameKept` is an action property.

**RelayProofs.** `IInv` is the conjunction of `TypeOK`; `Known` (whatever is
on its way was sent by someone, and looks as its sender made it); `Unique` (two
transmissions of one sender are told apart by their number); `Apart` (one radio's
copy of a transmission is in one place only); `Tally` (how many requests were
written and how many are counted, by where the thread is); and `FirstComeOnly`
and `PlayedAsSent` themselves. From it follow `OwnRepliesOnly`, `SensorsPlayed`
and `CacheFilledOnce`. `RelayIsChannel` is the refinement. It has a lemma for each
action, which says that the set of copies on the way stays the same (a hop), gets
new ones (a transmission), or loses one (a reply, or a loss). The channel's own
bound, that what a source has counted and what may still come to it is at most one
for each request and radio, is proved of the channel's steps with `CInv`, which
adds that what is due is finite, so that it can be counted; the refinement
carries it over to the programs (`ChannelBounded`), and with `Tally` it gives
`NeverTooMany`.

**FormatsProofs.** Encoder, decoder and checksum are folds over sequences of any
length. The community modules define `FoldLeft` by recursion over sets of
positions, so the first part shows what it does for one element more: an
induction whose property is a *set* of numbers (`InductionNat`, from the least
number that is not in it), that such a recursion has a unique solution
(`FoldingExists`, `FoldUnique`), and that `FoldLeft` is one (`FoldFromSets`).
`Sum8Next`, `StuffedNext` and `UnstuffNext` are then what the rest uses.

- *Codec.* `UnstuffStuffed`: what was escaped comes out again, from which
  `FoundAgain` and `AlwaysRoundTrip`. `Continue`: each byte read adds to what
  came out, so that a proper part of a frame lacks something its length asks
  for; from it `NotYet` and `AlwaysNeverEarly`.
- *Damage.* `OneByte` goes through the places that one byte can be damaged: a byte
  of the packet, whose sum changes by something that is not 0 modulo 256
  (`Altered`, `SumDiffers`); the escape byte of an escape, after which there is one
  byte too many (`Longer`); the byte after it; the length, the checksum. `SyncLost`
  is damage to the sync byte: no other byte of a frame is one, except the last of a
  frame of src. `AlwaysNoForgery` follows. The first version of this
  property, for any damage, could not be proved; TLC then showed damage into an
  escape byte on a larger alphabet (see section 3).
- *OSC text.* `AllIs` says what stands at each place of the message, and
  `StringsReadIs` that the reader's three searches, for the comma, the end of the
  format and the end of the string, have one result each. `AlwaysReadsBack` and
  `AlwaysPrinted` follow.
- *Messages.* `AlwaysContract` and `AlwaysReturned` are `MessagesProofs`' theorems,
  of the instance that `Formats` uses (`SameMessages`).

**DeframerProofs.** The inductive invariant `DInv` is `TypeOK`, `Calm` and
`Synced`. `Calm`: on a calm line either all that was sent has been read and
queued, or the buffer and the line together are exactly one frame, the buffer a
proper part of it; a thread that gave up did so at a frame as long as the error
value, with all packets before it queued.
`Synced`, on any line: if what was read since the buffer was empty begins with
a sync byte, the buffer is just that. `Turn` is the loop's turn for a given
number of bytes, with a lemma for what it does to each conjunct (`TurnType`,
`TurnCalm`, `TurnSynced`). `FrameDecode` brings in the codec: a part of a frame
is left alone (`NotYet`), a whole one used up (`FoundAgain`). `NothingLost`,
`BufferContiguous`, `OnlyPktErrorStops` follow from `Calm`, and the action property `FramesTaken` from
`Synced`. The module extends `FormatsProofs` for these lemmas and so has its
constants too, with their assumptions; nothing here depends on them.

Only model-checked is liveness (`RxServed`, `TxServed`, `StopEnds` of both modules,
`PacketsLeave`): fairness is beyond the prover's reach. The properties of the runs
that find a violation are refuted by TLC and not about all constants.

## 5. Not modelled

- The rest of the vendored `tinyosc`: bundles and types of arguments that osc
  never uses.
- Argument parsing and set-up: sequential, and every error ends in `exit`. A
  flaw there (`main.c:253`) a test would reach: a negative size is accepted.
- `errno` as state: no program installs a signal handler, so that no call fails
  with `EINTR`.
- The main thread at the end of its standard input, where `getchar` returns at once
  (`main.c:347`): to the rest a thread that spins is one that waits.
- The wrappers of serial ports and UDP sockets: their outcomes are alternatives of
  the callers' actions.
- The mean round-trip time: a division of doubles for printing. The sum is
  modelled.
- API mode of `src` (`SRC_XBEE_API_MODE`), which no build enables.
- The shell scripts and the two Python helpers. What the scripts can do to the
  programs is to start and stop them, which `UnixSocket` and `Source` allow at any
  moment; the helpers share nothing with the rest.
- The compositions `Fwd` (reader and queue) and `Dst` (filter, queue and relay).
  The parts meet at one point only, a packet that is put into the queue. A queue
  loses and reorders, so that nothing can be said of the order in which a
  fwd's packets leave that the two modules do not say already; and a packet that
  the filter drops is a loss, which `Relay` has on every hop.

## 6. Plan

Done, in this order: the queue, its abstract specification and proofs; the codec
and the reader; the filter and its proofs; formats and their proofs; the
composition of the programs; the OSC text; the UNIX socket with its readers and
proofs; a source in detail and proofs; the return channel, the refinement and
the proofs of the composition; the proofs of codec, OSC text and reader.

What could follow:

1. `Dst` in builds with the filter: that it never drops a reply a source would
   have been the first to count, if the window is short enough.
2. What `tmux.sh -r` does with processes that do not end within its pause.

# rcopy: a TLA+ model of the file copy over UDP

`rcopy` copies a file from a `server` over UDP, with a sliding window and selective
reject, on top of a library (`libcpe464`) that drops datagrams at random. This directory
models both programs from their C code, checks the models with TLC and proves the
central results with TLAPS. `README:n` below is a line of the repository's README.

## 1. The system

| Component | State | Operations | Modelled by |
|---|---|---|---|
| rcopy, filename exchange (`rcopy.c` 75-278) | state, tries, the address it talks to | send the filename, timeout, reply, open the output, ACK, retry | `Session` |
| rcopy, data (`rcopy.c` 281-658) | sub-state, `ReceiverBuffer`, two PDU counters, the output file | `doGetDataState`, `handleDataPacket`, `doInOrderState`, `doBufferState`, `doFlushingState`, `resendLastControl` | `Receiver` |
| main server (`server.c` 16-139, 762-766) | its loop, its children | receive, checksum, fork, SIGCHLD | `Session` |
| server child, before the data (`server.c` 141-316) | state, retries | "talk here now", open the file, ACK or error, wait for its answer | `Session` |
| server child, data (`server.c` 340-507) | `SenderWindow`, `data_sequence_number`, the loop it is in | fill, drain, wait, resend | `Sender` |
| windowing library (`window.c`) | two rings | init, insert, acknowledge, advance, flush | `Window` |
| PDUs (`server.c`, `rcopy.c`) | - | make and read data, RR and SREJ PDUs | `Packets` |
| filename PDU, checksum (`rcopy.c` 705-806, `server.c` 52-105, `checksum.c`) | main's one buffer | check the arguments, build, sum, receive, extract | `FilenamePDU` |
| `libcpe464` | error rate, lists of error cases, message count, one set per process | load the environment, `sendErr_init`, `fork`, `sendtoErr` | `SendErr` |
| UDP on top of it | datagrams under way | `sendtoErr`, `recvfrom` | `Datagrams`, `Conversation` |
| `pollLib.c` | the poll table | set up, add, remove, `pollCall` | `PollSet`; elsewhere the choice between a receive and a timeout |
| sockets, host lookup, `safeUtil`, TCP samples, window test | - | - | not modelled (section 8) |

The programs share nothing: they interact by datagrams, by `fork`, and by SIGCHLD. An
rcopy sends its filename to the main server's port; the main server forks a child for
every filename PDU it reads; the child opens a socket of its own, sends "talk here now"
(flag 33) from it, then a good (9) or bad (32) answer about the file, then data PDUs (16).
rcopy answers with RRs (5) and SREJs (6).

What is hard here, and what correctness means:

- **Loss, reordering, repetition.** Chunks must be written in order and once
  (`OutputOrdered`, `ImplementsOrderedCopy`); a late RR must not move the window past
  what rcopy is done with (`AckedWasDecided`), nor mark another packet (`HeldIsUnacked`);
  a late answer of the filename exchange must not pass for data (`OneRequestOneChild`).
- **Rings at their limit.** A resend must never pick a slot that was not filled
  (`PacketsGenuine`); rcopy must not run ahead of the child (`ExpectedWithinSent`); a
  packet must be kept until it is acknowledged (it is not: `SrejResendsMissing`). The
  upper edge is counted in two ways (`NeverBack`, and `RRFreesSpace`, which fails).
- **Failing sends.** They open rcopy's retry loops, which must stay bounded for each
  packet (`SrejBudget`), and move counters in ways a test with a working network never
  sees (`AckedWasDecided`).
- **Memory nobody wrote to, and a global nobody resets.** rcopy may send a control packet
  it never made; a child of a child starts counting where its parent stopped. The window
  has to survive both (`HeldIsUnacked`, `NeverBack`).
- **Timeouts and retries of the exchange.** A filename that is sent again may make two
  children (`ForkPerRequest`, `OneRequestOneChild`); rcopy switches its address at every
  receive (`ServedByOpener`); all of it together must look like one service
  (`ImplementsDispatch`).
- **One buffer, many PDUs.** main tests the checksum of a buffer that a short PDU fills
  only in part, and narrows what it extracts (`AcceptedIffRestIsZero`, `RequestArrives`).
- **Libraries under their callers.** The poll table grows and has holes
  (`LowestReadable`, `WithinTable`); the error library is inherited and initialised again
  by every child (`DropsAsConfigured`, `NeverChanged`).
- **Ending.** Both programs wait in polls for each other (`EndsOrHangs`, `EofEnds`), and
  rcopy's two loops of the exchange lead to one another (`TriesEnd`, which fails).

`PROJECT.json` lists each hazard with the line where it bites.

## 2. Modules

    Packets       PDUs, the file cut into chunks, field widths
    Datagrams     sendtoErr and recvfrom: bags with loss
    Window        window.c                             EXTENDS Packets
    Conversation  the two directions of one transfer   EXTENDS Packets, Datagrams
    Sender        doSendDataState                      EXTENDS Conversation, Window
    Receiver      doGetDataState                       EXTENDS Conversation, Window
    OrderedCopy   abstract specification of the receiving half
    Transfer      Sender and Receiver composed         EXTENDS Sender, Receiver
    OpenReceiver  Receiver against any sender          EXTENDS Receiver
    Claims        what the documentation says and the code does not do
    Session       filename exchange, main server, children   EXTENDS Datagrams
    Dispatch      abstract specification of the exchange
    FilenamePDU   bytes of the filename PDU, in_cksum, main's buffer; MCFilenamePDU
    PollSet       pollLib.c
    SendErr       libcpe464: overrides, error cases, forks; MCSendErr
    DatagramsProofs, ReceiverProofs, OpenReceiverProofs, TransferProofs, SessionProofs,
    FilenamePDUProofs, PollSetProofs, SendErrProofs

**State and actions.** Variables and operators keep the C names where they can.
`spc` and `rpc` are the loop or poll a program is in; every action runs from one poll (or
send) to the next, which is where other processes' effects become visible. Early returns
and error paths are disjuncts: `SendMayFail` turns on every path behind `sendtoErr < 0`.

**Undefined behaviour.** `hasLastControl` and the packet behind it are never initialised:
`RecvOld` sends nothing, or what malloc left there (`junk`, chosen at the start from
`MemFlags` and `MemNumbers`, an RR or an SREJ included), or dies. A slot of the child's
ring that was never filled sends nothing, any packet of `RawPacket`, or kills the child. A
freed slot is `NULL`; using it leads to `CRASHED`. `recvfrom` into a buffer that is too
small (`RecvOverrun`) may crash or may not. The `fwrite` of a huge length in `flushBuffer`
writes nothing, or memory from the packet on, through other slots and further: such a chunk
of the output is recorded as "memory", and nothing is claimed of its bytes. A name of 100
characters has no terminator in main's array: it goes on with what stands behind it
(`Tails`).

**An inherited number.** `data_sequence_number` is a global that nothing resets. It is 0 in
a child of the main server. A child whose send failed is back in main's loop, and what it
forks there goes on from its number: `first` is that number, any of `FirstNumbers`. Packet
s then carries chunk s - `first`, and the slots below `first` stay unfilled until the ring
comes round to them.

**Time.** A timeout may happen whenever its poll is waiting: the bag holds what is under
way as well as what has arrived, so a non-empty bag does not exclude a timeout.

**Session.** A child whose state machine reaches DONE returns from `startFSM` into
`main`'s loop: it closed the main socket before it opened its own, so its own socket has
the number `main` goes on reading. The model has it in state `MAIN`, serving its own port.
There the checksum test is taken over a buffer that a short PDU fills only in part
(`PassesChecksum`): a filename PDU always passes it, any other may if the bytes left by the
request of the rcopy the process was forked for add up to 0. `Cancelling` is the set of
rcopies with such a request, which is a matter of their arguments (`FilenamePDU`); at a
process of any other rcopy only filename PDUs pass. No short PDU ever reaches the main
server itself, since an rcopy only sends one after it has learned a child's port
(`SenderInv`). A SIGCHLD is either handled between
two polls or interrupts one, and `pollCall` exits then. What happens inside GET_DATA and
SEND_DATA is left open (any number of data and control PDUs, then any way to end).
`Dispatch` is what this adds up to: the refinement maps `peer` to the client a process
serves, `opened` to the processes that are ready, and an rcopy in GET_DATA to the process
it copies from. `requests` and `opened` record what happened and exist in no program.

**FilenamePDU.** Here bytes matter, so a PDU is a sequence of bytes and `in_cksum` adds
its little-endian words, folds twice and complements. main's `buffer` keeps what a shorter
datagram did not overwrite. `AcceptedIffRestIsZero` says exactly when a short PDU passes for
a request, the choice `Session` makes with `Cancelling`. For those names and sizes an RR or
an ACK at a process in `MAIN` forks a child for the old request again: `ForkPerRequest` and
`OneRequestOneChild` speak of the other rcopies only, and `Dispatch` lets the cancelling
ones (`Unlimited`) be given more processes than they asked for. `ServedByOpener` holds for
all of them.

**SendErr.** One record per process: rate, the cases always run, the cases picked at
random, the message count. The environment is chosen in `Init`. `NeverChanged` shows that
what `Datagrams` offers the other modules (lost or intact) is all the library does without
overrides; a list in the environment is in effect the same loss, chosen by number.

**PollSet.** The caller is any program that adds the sockets it opens and removes those it
closes. Standard input is descriptor 0, which every unused slot watches.

## 3. Runs that pass

| Run | Bounds | States | What it shows |
|---|---|---|---|
| `transfer` | W = 2, 4 chunks, first number 0 or 2, 3 datagrams per direction, loss, failing sends, memory that reads as RR, SREJ or data, fairness | 518,296 | `TypeOK`, `OutputOrdered`, `PacketsGenuine`, `ExpectedWithinSent`, `HeldIsUnacked`, `SrejBudget`, `AckedWasDecided`, `NeverBack`, refinement of `OrderedCopy`, `EndsOrHangs` |
| `open_receiver` | any sender of packets 0 to 2, the EOF flag and "talk here now", 2 datagrams per direction, failing sends, fairness of rcopy | 488,880 | `OutputOrdered`, `SrejBudget`, refinement of `OrderedCopy`, `EofEnds` |
| `session` | 2 rcopies, one of them in `Cancelling`, 2 forks, 1 datagram per socket, 2 tries in SEND_FILENAME and 1 in the other loops | 1,396,033 | `SessionTypeOK`, `ServedByOpener`, `ForkPerRequest`, `OneRequestOneChild`, refinement of `Dispatch` |
| `request` | names of 0 to 5 characters for a field of 4, sizes around 2^8 and 2^16, RRs, SREJs and ACKs in between | 8,932 | `RequestArrives`, `AcceptedIffRestIsZero` |
| `pollset` | 4 sockets within and beyond a table of 4 | 580 | `LowestReadable`, `WithinTable` |
| `send_err` | 3 processes, 3 messages each, lists with bad and negative tokens, rates of none, half and all | 466,848 | `DropsAsConfigured`, `NeverChanged` |

Why the bounds are enough: a window of 2 with 4 chunks makes both rings wrap, be
overwritten and be freed; three datagrams per direction let any two overtake a third;
retry bounds of 2 and 3 (instead of 9 and 10) still tell the first, a middle and the last
try apart. A first number of 2 leaves a slot the child never fills before it listens
(numbers 0 and 1 leave none). `SeqMod` stands for 2^32: it only matters for `-1` compared
with a `uint32_t`, and 64 is above every number used. Two forks give one rcopy two children,
or each of two rcopies one, or a child's child; `Forks` is a bound of the model: `fork`
fails once it is used up, as it may at any time. With one datagram per socket a PDU is late or
lost but does not overtake another at the same socket; the theorems of section 5 hold for
every capacity. The file sizes are not multiples of the
buffer size, so the last chunk is short. A name field of 4 bytes keeps the odd offset of
every field of the PDU, which decides the half of a word a byte is added to; the command
lines include the sums at which the fold carries twice and those at which the old bytes
cancel out. In `send_err` a random number is one of two values, enough to be within or
beyond each rate.

What some of the properties leave to the reader:

- `PacketsGenuine` and `ExpectedWithinSent` speak of a child that starts at 0 or 1. One that
  inherits a higher number does resend slots that were never filled.
- `SrejBudget` counts with `srejs`, a history variable: SREJs made for the packet expected,
  back to 0 when `expected` moves.
- `AckedWasDecided` says "decided", not "written": `flushBuffer` passes over packets that
  were never accepted (`claim_prefix`), and such a packet will not be written any more.
- `EndsOrHangs` permits the hang of a child in step 3 behind a full window (README:118 says
  that more than 9 timeouts end it) and says that there is no other way not to end, but for
  one: memory that reads as an SREJ makes the child resend an old packet, which makes rcopy
  resend that SREJ, and the two may go on like that for ever.
- `RequestArrives` says how much is lost on the way, and not that this is harmless: a buffer
  size of 256 makes data PDUs with room for 0 bytes.
- `DropsAsConfigured` says nothing of what a rate of 0 drops (section 4).

**Fairness.** Weak fairness of each process as a whole: its sends return, and its polls
report something or time out (1 s), so some next step is always taken. Nothing is assumed
about delivery: every datagram may be lost. Only `transfer` and `open_receiver` use it, and
in `OpenReceiver` none is assumed for the peer. `Session` has no liveness: the exchange need
not end (`claim_tries`).

## 4. Runs that end in a counterexample

Each states what a document or comment says where the code does something else.

| Run | Says | Does |
|---|---|---|
| `claim_prefix` | README:233-234, the missing packet is written when it comes | `doBufferState` throws it away and `flushBuffer` steps over it |
| `claim_srej` | README:46 and 54-55, the window keeps what is not acknowledged, and the missing packet is resent | `canSendMorePackets` lets packet W in over packet 0 before any answer has come; the first SREJ for packet 0 makes the child send packet W |
| `claim_window` | README:160 and 206, the RR sets the upper edge to L + W and frees up space | `advanceSenderWindow` sets it to L + W - 1: after the RR for packet 0 the window is as closed as before |
| `claim_tries` | README:81-82, after more than 9 tries rcopy is done | FILE_VALID returns to SEND_FILENAME, where the count starts again |
| `claim_server` | README:34, the server can only be ended with ^c | a SIGCHLD during its poll ends it |
| `claim_poll` | `pollLib.c:65-66`, a socket that is ready or -1 | once standard input has hung up `pollCall` returns 0, always |

The two window claims together mean that a child that starts at 0 never sends a file of more
than W + 1 chunks to its end: `TransferOneWindow` and `TransferResendableExactly` say what is sent and what can be
resent instead.

Other places where text and code differ, met while modelling and without a run: the first RR
that is sent leaves IN_ORDER, and every later packet is ignored (`rcopy.c:520`, README:215
says that only a packet beyond a gap does); the child reads 7 bytes of an RR or SREJ and
takes the PDU's own number for the packet it is about (`server.c:427`, README:286-288);
a resent packet keeps flag 16 (`server.c:437`, README:299-300 gives resends 17 and 18);
nothing counts the timeouts of a waiting child (`server.c:446`, README:118 says more than 9
end it), the hang `EndsOrHangs` allows; a rate of 0 still drops a message whose random number
is 0 (`PacketManager.cpp:161`, `cpe464.h:82` says 0 means no errors), once in 2^48; the first
timeout ends GET_DATA (`rcopy.c:385`, the comment at 371 says more than nine); the last chunk
is padded to `buffer_size` (`rcopy.c:883`, the comment at 870 says just the data);
`buffer_size` is a `uint8_t` where the data PDU is made (`server.c:517`); `highest` stays -1
(`window.c:80`, `window.h:23`); an old packet may make rcopy send an uninitialised control
packet (`rcopy.c:534`, the comment at 424).

## 5. What is proved

Every theorem holds for all values of the constants that satisfy the named `ASSUME` of the
module that declares them. No invariant below is inductive by itself; each proof module has
an `IInv`, which TLC checked on the instances of the runs before it was proved.

**The transfer** (`TransferProofs`, over `Transfer!Spec`), for every window size, buffer
size, file size, retry bound, channel capacity, first number and contents of unwritten
memory, and with or without loss and failing sends: `TypeOK`, `OutputOrdered`,
`ImplementsOrderedCopy`, `SrejBudget`, `PacketsGenuine`, `ExpectedWithinSent`,
`HeldIsUnacked`, `AckedWasDecided` and the action property `NeverBack`. Two results that no
run checks say, for a child that starts at 0, what the findings about the window come to:
`TransferOneWindow` (at most W + 1 packets are ever sent) and `TransferResendableExactly`
(which of them the ring still holds). For rcopy against any sender (`OpenReceiverProofs`):
`OutputOrdered`, `SrejBudget`, `ImplementsOrderedCopy`. Assumed, all in `Packets`, `Sender`
and `Receiver`:

- positive window, buffer and retry sizes, which is all `checkArgs` asks of the sizes, and
  natural file sizes and first numbers;
- `WidthAssumption`: window and buffer size below 65536. `checkArgs` lets larger ones
  through; main then narrows them (`RequestArrives`), and the child runs with other sizes
  than rcopy, which `Transfer` does not have;
- `SeqMod > 2 * WindowSize + 2`, true of 2^32 with such a window;
- `MemAssumption`: unwritten memory holds any flag byte, and any number that is not negative
  as an `int` and does not wrap an edge of the window.

`IInv` joins

- `SndTypeOK`, `RcvTypeOK`, `NetTypeOK`: the types, which every arithmetic step needs;
- `RingInv`: which slots are raw, full or freed for the current edges, and that a full
  slot is unacknowledged and carries a number of its index that was read. Without it a resend
  could send anything, so `PacketsGenuine` and `HeldIsUnacked` rest on it. `upper` is W until
  the first RR and `lower + W - 1` from then on, which `NeverBack` needs;
- `HoldInv`: what the ring of a child that starts at 0 holds exactly. Only slots below
  `lower` were freed; a full slot holds the packet of its own number, but for slot 0 after
  packet W went in over packet 0. `FillsFirst` is the heart of it: once `lower` has moved, an
  open window means that it has moved by two, so the slot of packet W + 1, which is packet
  1's, is freed and step 1 crashes there. `OneWindow` and `ResendableExactly` follow;
- `SrejInv`: inside the SREJ loop `srejs` is the number of the visit's retries and one; where
  BUFFERING can be entered it is 0. So a second visit for the same packet never happens with
  SREJs spent: a visit ends by raising `expected` with the next packet, or in state DONE,
  which is never left;
- `RrInv`: what the counter and the recorded control packet hold, so that every RR under
  way is known;
- `ReachInv`: in FLUSHING rcopy is strictly behind the child, since the next packet makes
  it step over the one it expects;
- `PaceInv`: unless memory held an RR, an RR never carries more than the number of RRs rcopy
  failed to send, and none is sent before a packet was accepted, so each failure lets
  `lower` move by one packet at most.

The proofs go action by action: `ReceiverProofs` has rcopy's half (that each step decides
chunks as `OrderedCopy` does, or none), `DatagramsProofs` what sends and receives do to a bag
and to the copies of a PDU in it; `TransferProofs` starts with the ring's half and joins both
in `IInvStep`.

**The filename exchange** (`SessionProofs`), for any rcopies, any number of children,
every retry bound and channel capacity, with or without loss and failing sends:
`SessionTypeOK`, `ServedByOpener`, `ForkPerRequest`, `OneRequestOneChild` and
`ImplementsDispatch`, and for any set of rcopies in `Cancelling`, the empty one included.
Assumed (`SessionAssumption`): positive retry bounds, process numbers that are naturals other
than the main server's 0, and that no rcopy is called "none". `IInv` is `SessionTypeOK` with

- `PeerInv`: who a process works for. A process has an rcopy exactly when it is in use,
  the main server never has one, and only a process that opened the file sends data;
- `ServeInv`: what is under way to an rcopy comes from processes forked for it, and a good
  or bad answer tells what became of `fopen`. `ServedByOpener` needs it because rcopy
  takes the sender of whatever it reads for its server;
- `SenderInv`: what is under way to a child was sent by the rcopy the child was forked for.
  So a PDU that a child takes for a request can only bring more children to that rcopy, and
  the other rcopies' counts stay exact;
- `CountInv`: `ForkPerRequest`, and that both sets are finite: a read takes one PDU out of
  the unread ones before `fork` adds a child. It speaks of the rcopies outside `Cancelling`;
- `OnceInv`: for such an rcopy that sent its filename once, what its child has still to send,
  what is under way and what rcopy has read add up to one "talk here now" and one answer
  at most. That is why no PDU of the exchange is left over in GET_DATA then.

The refinement maps every step: an rcopy's to asking, copying or leaving
(`ClientDispatches`), a process's to being assigned or to opening the file
(`ProcDispatches`), or to nothing `Dispatch` sees. That an rcopy outside `Cancelling` never
gets more processes than it asked for is `CountInv` again.

**The filename PDU** (`FilenamePDUProofs`), for every length of the name field, every
name and size, every short PDU in between and whatever is behind main's array:
`RequestArrives` and `AcceptedIffRestIsZero`. Assumed (`FilenameAssumption`): a field of
1 to 32000 bytes, for which no sum leaves an `int` (the code has 100), names of bytes
other than 0 as a command line has them, and a zero byte somewhere behind the array.
What `in_cksum` computes is an induction over the words, done by hand: of the positions at
which a statement about the running total fails take the least, and the step before it
gives the contradiction (`TotalSteps`, `WordSumAdds`: the sum of two buffers that are zero
where the other is not is the sum of their sums). From it: a PDU that carries its own
complement sums to a multiple of 65535, whatever the name; main's buffer sums to that of
the PDU in front and that of the old bytes behind, so the test passes exactly when the old
bytes sum to a multiple of 65535. `FilenameInv` says that what
rcopy sends is the stamped PDU for the arguments it checked, and that main's buffer is whole
once a request has come; that main reads each field at the offset rcopy wrote it to is a
lemma for every name length (`RequestRead`). A size beyond its field loses its upper bits on
the way, a name shorter than its field ends at its zero byte (`PayloadOfShort`), and one that
fills it begins what main reads as a string (`NameBegins`).

**The poll table** (`PollSetProofs`), for any first size and any descriptors:
`LowestReadable` and `WithinTable`. Assumed: a positive size, and no socket among the
descriptors 0 to 2. `TableInv` says that slot s watches s exactly while s is open, and is
zero otherwise, also after growing; `OpenInv` that the open sockets lie below
`maxFileDescriptor`. So poll reports the readable sockets and nothing else, and the first
report is the lowest of them.

**The error library** (`SendErrProofs`), for any environment, rate, number of processes
and of messages: `DropsAsConfigured` and `NeverChanged`. Assumed: rates and rate arguments
lie on the scale of the random numbers. `MgrInv` says of what the two lists of cases may
consist, whichever process the manager was copied from and however often it was
initialised; `ReadyInv` what `sendErr_init` has added. What `parser2ListLong` reads from a
list is not looked into: the result holds for any set of numbers. For a rate of 0 the theorem
says only that a message with another random number than 0 is left alone.

## 6. What is only model-checked

Liveness under fairness (`EndsOrHangs`, `EofEnds`), which the proof system
does not do. Every invariant and every action property of the passing runs is proved, and
so are both refinements.

## 7. Plan

Done: the transfer, the filename exchange with the main server, the filename PDU and its
checksum, `pollLib` and the error library, with proofs of every safety property. If the
project is taken further: a theorem that joins `Session` and `Transfer`, with two children
sending to one rcopy; `OpenReceiver` has rcopy's side of that against any sender.

## 8. What is not modelled, and why

- In `libcpe464`: debug output and the seeds (every random number is a free choice); the
  wrappers of `bind`, `socket`, `select`, `send` and `recv`, which neither program is
  compiled with. A flipped byte reaches no program unless the environment asks for it, so
  the models of the protocol do not have one.
- The checksums of data, RR and SREJ PDUs: nobody verifies them.
- `fread` errors and a failed `malloc` of one PDU in the child: not told apart from the
  end of the file.
- A standard input that hangs up while a file is copied: `PollSet` has what `pollCall`
  answers then, `Session`, `Sender` and `Receiver` assume it does not happen.
- Reuse of a port after a process has ended, and sequence numbers beyond 2^32.
- Window or buffer sizes of 65536 and more in the transfer, where the child has other sizes
  than rcopy; `FilenamePDU` has what becomes of them.
- What an overrun of rcopy's buffer (`rcopy.c:323`) does to a heap that survives it, and the
  bytes `fwrite` takes from behind a slot (`window.c:113`): no property speaks of either.
- Socket set-up, host lookup, `safeUtil`: wrappers of system calls. The TCP samples and
  the window test program belong to neither program.
- `Transfer` starts when both sides are in their data states, with one child for the
  rcopy; that they get there is `Session`.

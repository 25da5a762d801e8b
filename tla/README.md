# A TLA+ model of ftjtag

ftjtag lets vendor tools and scripts drive a JTAG port in an FPGA design over a
FIFO link: software emulates an FTDI 2232 chip as a virtual USB device
(`src/sw/VirtualFTDI*`), turns the MPSSE commands that the vendor's tool sends
into messages for the firmware (`src/sw/FTEmul.*`), and the firmware
(`src/hdl/`) shifts bits.  This directory models the parts of it whose
behaviour depends on the order in which things happen, and on the arithmetic at
the boundaries between one buffer and the next.

## Inventory

| Part | State it keeps | Operations | What makes it correct |
|---|---|---|---|
| Command handler, `VirtualFTDIDevice::handleXferEPX` | per channel: loopback, `gMode`, the payload fragment of an unfinished command with its size and whether it wants a reply | one per MPSSE command; resume a fragment; throw | the bytes of a channel are one stream of commands, whatever transfers they come in; each is executed once, whole, in order; replies likewise |
| Request handler, `handleXferEP0` | `gMode` of the channels | vendor requests | only a mode request for an existing port changes anything; the rest is accepted or ends the process |
| IN endpoint, `_reply` | none of its own; the library's queues of buffers and transfers | answer one transfer | the answer fits, carries a status at every packet boundary, loses and repeats nothing |
| Device thread, `run`, `main` | none | read, handle, repeat; exit on any exception | everything the host sends is taken up |
| Set-up, `addChannel`, `scanForEPDesc` | `_channels` | once per channel before the device starts | a channel without adapter stays in loopback |
| JTAG over the firmware stream, `FTStream` in `FTEmul.*` (and `pyFTEmul.pyx`) | none; the TAP is wherever the last message left it | `toState...`, `countChainLength`, `getIDs`, `shiftToRunTestIdle`, `ft`, `setPortLevels` | a call that returns has left the TAP where it says; bits go in and come out once and in order, the last one with TMS |
| Host library and scripts, `MPSSE.*`, `pyMPSSE.pyx`, `mpjtg.py` | the FTDI handle; what the driver has not delivered | open and set up a handle, write commands, wait for answers, purge, close | a session keeps its channel in MPSSE mode; each answer is read by the call that asked for it; the TAP ends in run-test-idle |
| Bit-banging, `FW::bb`, `hacks/play.cpp` | none; the pins stay as the last byte left them | play a sequence of pin levels, read TDO back | one pulse per byte, whatever came before |
| FPGA design, `hdl/design_top.vhd` | the pins' source (scratch register); registers of its entities | pin multiplexer, wiring | only the selected source moves the port |
| Reveal flow, `rvl/` | the top-level file, edited in place, and its copy `.orig` | run the tool, copy, edit | the edit happens once on what the tool wrote; the original survives |

The parts interact by calls and by byte streams: host -> USB transfers ->
command handler -> `FTInterface::mpsse` -> firmware messages -> TAP, and the
replies the other way through the IN endpoint.  There is one device thread;
concurrent with it are the host and the USB stack with its queues.  Hard are
the boundaries: a transfer may end anywhere in a command, an IN transfer may
have any length, the host may reset or change the mode at any moment, the
adapter may read short or throw, an exchange may fail in the middle of a call and
leave the TAP anywhere, another tool may take the port's pins, and an aborted
synthesis leaves files half written.  `PROJECT.json` lists every such hazard at its line,
with the properties that watch it or the reason why none does.

## Modules

| Module | Models |
|---|---|
| `Mpsse` | the command language: opcodes, what they read and write, how long a command is, what an adapter may answer |
| `MpsseStream` | abstract: a channel as an interpreter of a stream of commands |
| `VirtualFTDI` | `handleXferEPX`, `handleXferEP0`, `run`, and a host with its USB stack |
| `VirtualFTDIStream` | the refinement mapping from `VirtualFTDI` to `MpsseStream` |
| `VirtualFTDIProofs` | theorems about `VirtualFTDI`: types, fragments, loopback, that the handler stays in step with the host's commands and implements `MpsseStream` |
| `FlattenProofs` | lemmas about the bytes of a sequence of buffers |
| `InEndpoint`, `InEndpointProofs` | `_reply` between the library's two queues, and theorems about it |
| `MpsseSession`, `MpsseSessionProofs` | handles of `MPSSE.cpp` on the device's channels, composed with `VirtualFTDI`, and theorems about them |
| `Jtag` | external: TAP, scan chain, and what the firmware does with a message; `P_MUX` of `design_top.vhd` |
| `FTMessages` | the messages of `FTStream::x`, `ft`, `setPortLevels` and `FW::bb` |
| `JtagProofs` | lemmas about `Jtag`: bits of bytes, pulses of a message, the way of the TAP, what a shift puts in |
| `FTStream`, `FTStreamProofs` | every operation of `FTStream`, `FW::bb` and `play.cpp`, exchange by exchange, and theorems about it |
| `MpJtag`, `MpJtagProofs` | `mpjtg.py` on `MPSSE::write`/`mustRead`, the device's shifts and the TAP, and theorems about it |
| `RevealEdit` | what `rvl_edit.py` makes of a file: instances, nets, port list |
| `Reveal`, `RevealProofs` | `istflow.sh` with its editors, step by step, and theorems about it |
| `MCVirtualFTDI`, `MCMpsseSession`, `MCFTStream`, `MCMpJtag`, `MCReveal` | small instances for TLC |

**The device.**  `VirtualFTDI`'s variables are those of a `Channel` (`frag`,
`total`, `hasRep`, `loopback`, `gMode`), the locals of `handleXferEPX` (`data`
is the transfer from `cmdsz` on, `rep`, `sendStatus`) and the place of the
device thread: `idle` in `read()`, `resume` and `loop` in the handler,
`halted` when an exception has reached `main`, which exits.  `Deliver` is a
transfer that arrives; the handler then takes one command per step, so each
turn of the loop at `VirtualFTDIDevice.cpp:191` is an action: `SkipCommand`,
`SyncCommand`, `LoopbackCommand`, `SetPort`, `ShiftBits`, `ShiftBytes`, and
`BreakBytes` for the byte command that is cut short and whose payload is kept;
`ResumePartial` and `ResumeComplete` are the block at line 150.  `Finish`
writes the answer.  `Throw` gathers the exceptions.  Header bytes the handler
reads behind the end of a transfer are any of `Stray`.  The host writes whole
commands; its USB stack may end a transfer at the places in `Cuts`, which
tells apart the inside of a header, the gap between header and payload, the
inside of a payload (with and without reply) and the end of a command.

**The abstract channel.**  `MpsseStream` knows no transfers, fragments or
handler: a step takes a complete command from the front of the stream, makes the
adapter do it and appends the reply.  `VirtualFTDIStream` maps the device to
it: the stream is the command that is open (its header rebuilt from `total`
and `hasRep`), what is left of the transfer and what the USB stack holds; the
replies are the buffers not yet read and the one being put together.

**Sessions.**  In `VirtualFTDI` the host sends any request and any command at
any time.  `MpsseSession` puts the host's own program in its place: per channel a
handle that is opened, set up by the vendor requests behind the calls of
`MPSSE.cpp`'s constructor (`SetUpRequests`, one step per request) and its first
write (`Configure`), used (`Write`, which is also `loopback`; `Read`; `Purge`)
and closed.  Each of its steps is a step of `VirtualFTDI` or does not concern the
device, which is proved.

**The IN endpoint.**  `_reply` is three actions, the loop one per packet; the
library's queues and libftd2xx, which removes two bytes from every packet, are
external.  Payload bytes are numbered, so that one lost, repeated or mistaken
shows.

**JTAG operations.**  A call of `FTStream` is its sequence of messages
(`Plan`); `Exchange` sends one, may bring a short answer, and computes the
result with the last; `Fail` is an exception from the FIFO, before or after
the firmware acted.  The ghost variables `start`, `trace` and `whole` remember
where the TAP was, what went through the registers and whether an answer was
short.  The port has three sources of its pins; `SelectPins` is a write to the
scratch register by whoever uses it, and clocks the chain if TCK happens to rise
by it.  `bb` moves the pins byte by byte and `play` is the sequence of
`hacks/play.cpp` with the way it finds the identifier in what comes back.  In
`MpJtag` a call of `mpjtg.py` is its sequence of writes and reads (`MpCall` leaves
out an empty `b` and an `lst` that is not 1 to 8, which raise in `_shift`);
the device executes the stream as `MpsseStream` has it, which is what the
`Stream` run shows of it.

**The Reveal flow.**  A file is a sequence of items, instances with their port
maps and the tokens of the port list; the regular expressions of `rvl_edit.py`
are modelled by what they find and replace in it.  `Reveal` has the variables of
the file system (`top`, `orig`) and a place in the script; `Start` takes the
user's files and variables from `Settings`, `Istflow` is the tool, which may
fail, `Leave` gathers the early exits, `CopyOrig` is line 102, `EditText`,
`Truncate` and `Write` are `edit()`.  `Abort` ends a run anywhere and leaves any
beginning of what was being written.  `tool` and `fresh` remember what the tool
left in this run, and what it wrote last if nothing else has touched the file.

## What the runs check

All runs explore their state space completely.

| Run | What it shows |
|---|---|
| `Stream` | `StreamSpec`: the device implements `MpsseStream`.  Every command class, two channels of which one has no adapter, transfers cut anywhere inside the payload of a write, short reads, two values on TDO, failing adapter. |
| `Session` | Handles opened, set up, used and closed on two channels at any time: a session keeps its channel in MPSSE mode whatever the other one does (`ModeHeld`), so the handler never throws (`NeverHalts`); everything written is taken up (`Served`), whether or not replies are read; every constructor ends (`Opens`). |
| `Faults` | Any request in any mode, transfers cut inside headers and payloads alike, failing adapter, empty transfers, a host that gives up: types (`TypeOK`), `missing` never wraps (`FragmentOpen`), a fragment comes before any command (`FragmentFirst`) and is used up only whole, in front of a shift of the announced size (`FragmentHonoured`), no call through a missing adapter (`LoopbackWithoutAdapter`), no truncated header executed and survived (`TruncationFatal`). |
| `InEndpoint` | The answer fits the transfer (`FitsUrb`, a part of the invariant `Inv`), leaves no room for another byte (`FillsUrb`), the host gets exactly what was written (`InOrderOnce`), all of it (`Delivered`). |
| `Jtag` | Whatever failed before: the TAP ends where the call says (`Lands`), every bit goes in once and in order (`ShiftsAll`); if no answer was short, what comes back is right (`ReadsBack`, `CountsDevices`, `FindsIDs`).  Bit-banging makes one pulse per byte, from any level of the clock, and brings back TDO (`BangsLikePulses`); `play` finds the first identifier from anywhere (`PlayFindsID`). |
| `Script` | Of `mpjtg.py`: answers stay in step with questions (`InStep`), every call ends (`CallsEnd`), `Lands`, `ShiftsAll`, and all bits but the last are right (`ReadsAllButLast`). |
| `Reveal` | Whatever was aborted before, and also when the tool fails: a run that gets to an editor has the tool's file in `.orig`, also if it is cut off while the file itself is half written (`OriginalKept`), a run that skips, refuses or raises changes nothing (`Untouched`), one that edits leaves the tool's output edited once (`EditedOnce`), with the emulation on the original's nets and the rest unchanged (`Rewired`) and a port list that is one (`PortsWellFormed`). |
| `GapCut`, `ReadCut`, `CountWrap`, `LastBit`, `VerilogH19` | findings, below |

**Bounds.**  *Device:* two or three commands are enough for a fragment, what
completes it and what is mistaken for it; the payload bytes are opcodes
themselves (`0xaa`, `0x84`, `0x85`), so that a payload taken for commands
changes something.  Payloads have up to three bytes, so a fragment can grow
more than once; transfers of up to eight bytes hold a whole command, its
predecessor's rest and more.  Two channels, one without adapter, show that
channels do not mix.  *IN endpoint:* packets of five bytes leave three of
payload; the transfers have no room for payload, room for less than a packet,
for a packet, a packet and a bare header, a packet and a part, and two packets;
buffers are empty, shorter than, as long as and longer than a packet.  *JTAG:*
eight devices with 33 instruction bits are what `countChainLength` can count
and fill; three calls are one that goes wrong, one that recovers and one that
depends on it; a change of the pins' source counts as a call.  Short answers bring nothing or all but one byte.  More than
`MaxIDs` identifiers are more than can be allocated.  *Scripts:* last
bytes of 1, 2, 4, 7 and 8 bits, one with bits above the last, one to three
bytes, three calls, writes that may throw anywhere.  *Sessions:* two handles at
the same time on two channels or one after the other on one, four commands.
*Reveal:* two runs are one that is aborted, or whose files the next one meets,
and that next one; eighteen files have every kind of instance missing or present,
in both orders, and TAP ports in every place of a port list; the settings are
each way out of the script.

**Fairness.**  `VirtualFTDI!FairSpec`: weak fairness of the handler (one
thread that never waits inside of it) and of the USB stack for each channel (the
thread comes back to `read()` after each transfer and the library's queue is
first come, first served).  Nothing is assumed of the host.
`MpsseSession!FairSessionSpec`: the same, and strong fairness of the
constructor's requests: requests and transfers wait in one queue of the library,
so the thread comes to a request however many transfers the other channel
brings; the request is possible only when the thread is in `read()`, hence
strong.  Nothing makes a session write, read or close.
`InEndpoint!FairSpec`: weak fairness of `_reply`, which the library calls as
long as both queues have something; strong fairness of the host's requests with
room for payload, because FTDI's driver keeps asking - strong, as its queue of
transfers may be full at times.  `MpJtag!FairSpec`: the script and the device
run; `mustRead` has no timeout, so `CallsEnd` rests on the answers alone.

Deadlock is not checked: hosts and scripts are bounded and may stop, and a
halted device stays halted.

## What is proved

TLAPS checks these for every value of the constants that satisfies the named
assumptions: any number of channels, any set of commands of bytes, any
requests, stray bytes, faults, modulus of the byte count, and any bound.

**The device, whatever the host sends and however it is cut**
(`VirtualFTDIProofs`): `TypeCorrect`, `FragmentsStayOpen`, `FragmentsComeFirst`
and `NoNullAdapter` from the inductive invariant
`Inv == TypeOK /\ FragmentOpen /\ FragmentFirst /\ LoopbackWithoutAdapter`
(`Invariance`).  The parts need one another: that a fragment stays shorter than
announced when a command is cut off (`BreakBytes`) holds because no command
is looked at while there is a fragment, that needs `resume` to have a
fragment and bytes for it, and that the shift that completes it makes
`missing` bytes needs it to be positive.  `FragmentsAreHonoured` is the action
property, from the invariant: one lemma for each of the three actions that
touch a fragment, the others leave it alone.  There is one lemma per action of
the model; the lemmas at the top are about the operators (what dropping bytes,
a byte count, an adapter's answer are).

**The device in step with the host** (`VirtualFTDIProofs`).  From here on the
commands are well-formed (`CommandsWellFormed`: as long as the header says, with a
count the handler computes as it is), which the commands of every run but
`CountWrap` are, and no transfer ends right behind a header (`"gap"`); `CountWrap`
and `GapCut` are the findings that show that neither can be left out.
`KeepsInStep` is the invariant `SyncInv` that the other properties of the stream
rest on: every byte that is in the transfer or on the wire has a place in a
command (`Place`), the places follow one another from command to command
(`Runs`), and the next one is where the handler believes to be: the opcode if
there is no fragment, and behind the fragment if there is one.  Neither half is
inductive without the other.  `TruncationIsFatal` follows: a header that is cut
off is at the end of a transfer that was cut in a header, so the handler, which
executes it with what lies behind the buffer, throws.

**The device implements the stream** (`VirtualFTDIProofs`):
`ImplementsStream`, `Spec => StreamSpec`, if moreover payloads of commands with a
reply are not cut (`"rwbody"`, finding `ReadCut`), headers are not (the handler throws),
and the host gives up nothing that is under way.  One lemma per action says which abstract step
it is (`...Refines`); the two that matter are `BreakBytes`, a stutter because the
header rebuilt from `total` and `hasRep` puts the fragment back where it was,
and `ResumeComplete`, the shift of a command that came in any number of pieces.
The instance of `MpsseStream` has operators of its own; `SameCommands`,
`SameLayout` and `SameAnswers` say that they are those of `Mpsse`.

**Sessions** (`MpsseSessionProofs`): `SessionImplementsDevice`
(`SessionSpec => Spec`), which carries every theorem about the device over to
sessions, and `SessionsKeepMode` (`ModeHeld`), by `SessionInv`: a request's index
names its own channel only (`PortOfIndex`, an argument about `uint8_t`), and the
last request of a set-up is the one for MPSSE mode.  `SessionsNeverHalt`
(`NeverHalts`) composes this with `SyncInv`: of the reasons to throw, a request
that is not accepted is never sent, a channel has a transfer only in MPSSE mode, and
what stands at the front of a transfer is a command, so it is one the host
supports (`CommandsSupported`).  It is stated for adapters that do not throw.

**The IN endpoint** (`InEndpointProofs`): that answers fit, as
`Inv == TypeOK /\ RoomLeft /\ FitsUrb` (`Invariance`), for every packet size
above the header's and every transfer at least as long as a header.  `FitsUrb`
alone is not inductive: `RoomLeft` says that what is still to be packed is
within the quota of what is left of the transfer.  It is kept because a
packet more makes the quota a packet's payload larger (`QuotaPacket`), which is
a fact about division (`DivModUnique`).  `AnswersFill` (`FillsUrb`) is the other
bound: with `RoomUsed`, what is still to be packed of a buffer that does not fit
is all the room there is.  `HostGetsAllInOrder` (`InOrderOnce`) is the stream end
to end, from `OrderInv`, whose part `Packed` says what of the first buffer is in
the answer that is being put together.

**The Reveal flow** (`RevealProofs`): `OriginalIsKept` and `RefusedIsUntouched`, for
any files and settings and whatever the editors compute, from `FlowInv`, whose
part `InScript` says until when the file is the tool's and since when `.orig` is.
`FilesAreEditedOnce` (`EditedOnce`) adds what they compute: an edited file has
nothing left to edit, so that a second run of the script, which takes it for the
tool's, does no harm.  In VHDL that holds of any file (`VhdlTwice`), in Verilog of
those in which the original instances are alike (`OneOriginal`; `VerilogTwice`):
with different ones the second edit would take the nets of the other one, since
`rvl_edit.py` leaves a plain `JTAGH19` where it is (finding `VerilogH19`).
`EditRewires` (`Rewired`) is about files in which the emulation's ports have nets
and `.hck` and `.hack` files are of that kind too (`FilesOf`).
`PortsStayWellFormed` (`PortsWellFormed`) is about files of any suffix whose port list
is in one piece (`OneList`), with other items before or behind it; so is what an
aborted run or the user leaves (`ListFiles`).  Both rest on `WireInv`, for any family
of files that is closed under the script's steps (`Closed`).  What an edit makes of a
list is followed item by item: `LeftOf` says what is left of its beginning, that it
ends with a comma only where one of the user's declarations comes next.  That is
where the two leading TAP ports matter (`CommaStays`): without them a comma that
stays has one of the user's declarations in front of it.

**JTAG operations** (`FTStreamProofs`, on the lemmas of `JtagProofs`), for every chain
of devices with registers of any length, any set of calls that `FTCall` allows, any
firmware that makes some number of pulses of a `0x73` message, and any exchange
failing or answering short.  Four invariants, each on top of the one before:

* `Sound` (`StaysSound`, and from it `TypesHold`): the port stays a port - its
  registers have their lengths, a register is selected that exists - and messages
  are of the kinds the firmware knows.  Its core is `PulseType`, that a clock
  pulse in any of the sixteen states makes a port of a port.
* `Underway` (`StaysUnderway`): what is still to be sent is the tail of the call's
  `Program`, and the TAP is at the `Station` of its route that belongs to it.  Each
  message carries the TAP from one station to the next (`Carries`), whatever
  the chain: for `x` with TMS that is a path of at most eight steps in the TAP's
  table (`TmsPath`, `PathMessages`), the reset from any of the sixteen
  states included; TDI messages stay in their shift state.  `CallsLand` (`Lands`) is
  the last station.  `Lands` alone is not inductive, since it says nothing of a
  call that still has messages to send.
* `Entering`: with two, one or no message of a shift to go, none, all but the
  last or all of the bits of `tbuf` are in the register, in order.
  `EveryBitGoesIn` (`ShiftsAll`) follows, with the case that the last byte has a
  single bit and the first message is a byte shorter (`FirstPutsIn`), and that the
  last bit goes out in bit 7 of the length byte (`LastPutsIn`).
* `Answering`: between the two messages of a shift the one answer holds the bits
  that came out so far, packed as bytes in which the missing bits are zeros at
  the low end (`Packed`, `PackedOnce`: there is one such sequence of bytes).
  `EveryBitComesBack` (`ReadsBack`) is that the bit of the second answer, put above
  the half of the last byte, makes the packing of one bit more (`ShiftedPacked`), also
  if it begins a byte.

Bit-banging has an invariant of its own, `Banging`: its one message meets the port
as the call found it.  `ByteIsAPulse` (`BangsLikePulses`) is then an induction over
the bytes (`BangsPulse`): the two bytes that `bb` makes of one (`ClockedBits`) move
the pins like one pulse of the clock, whatever the level of TCK was
(`ByteIsPulse`), and bit 2 of the second is TDO.  It uses `BangAssumption`, that `n`,
if there is a buffer for the answer at all, is the number of bytes to send: `bb`
has one size for both.
`PlayFindsFirst` (`PlayFindsID`) is what that means for the sequence of `play.cpp`,
pulse by pulse: six ones reset the TAP from anywhere, four pulses more are in Shift-DR
with the identifiers in the register (`PlayLeads`), and the next 32 take out those
of the first device (`PlaysID`), which has to have one of 32 bits; nothing is asked of
the others.

What the calls that read the chain find is proved of chains on which they can find
it: `Countable`, no more than eight devices with no more than 33 IR bits between
them, as many as `countChainLength` shifts zeros behind and ones into; and
`Identifiable`, every device has an identifier (the code asks for 32 bits of each).
Both are the limits of the code, not of the model.

* In a shift state the register is a queue (`QueuedNext`, `PulsesQueue`): what comes
  out is what was in it, then what went in.  `ShiftMessageQueues` says it of a
  message's bytes, also when the shortcut of `Settled` is taken.
* A captured register is made of the devices' registers (`IDRegister`,
  `BypassRegister`), which lie in it side by side because they are equally wide
  (`FlattenEven`).  32 ones fill all but one bit of the instruction registers and the bit
  that goes in with TMS the last one, so that every device is in BYPASS
  (`OnesFill`, `OnesBypass`, `DecodedOnes`); a zero of each device and the eight that
  are shifted in come back in front of the ones (`BypassedBits`), which is the
  number `countChainLength` takes from two bytes (`ChainReply`).  A reset selects the
  identifiers (`ToIdleResets`), and their bits are the bytes of the answer
  (`IdentifierBits`, `IDsReply`).
* `CountUnderway` and `ReadsUnderway` are the invariants: with so many messages to go
  the chain is where the next one expects it (`CountState`, `ReadState`), and with none
  the number or the identifiers are there, if no answer was short.  `CountsDevices`
  and `FindsIDs` alone are not inductive: they say nothing of the chain between the
  messages.  `DevicesAreCounted` and `IDsAreFound` follow; the second needs that a
  caller asks for no more identifiers than there are devices.

**Scripts over MPSSE** (`MpJtagProofs`, on the lemmas of `JtagProofs`), for every
chain, any script of shifts of at most 65536 bytes (`ShortShifts`), and any write
failing.  The limit is the code's: all bytes but the last go in one command, and
65536 of them the device takes for none (finding `CountWrap`).  `FramedAlways` is
the inductive invariant `Framed`, a relation between the steps a call has left and
everything that is under way:

* at its start there are only paths (`Starting`); with a question to be written
  (`Writing`) nothing is under way but paths, and those only before the first
  question; with an answer to be read (`Awaiting`) that question is on its way
  behind them (`Pending`) or its answer has come, whole, and nothing else is
  (`Arrived`).  Between calls there are only paths (`OnlyPaths`), also after an
  exception, since one happens at a write or in front of one, when no answer is due.
* `Queue` says what the bytes on the way are: so many paths, then the question.
  `QueueHead` and `QueueEnds` give the command the device takes next.
* `Shifted` says which bits are in, `HadSoFar` what each answer read so far holds.
  `AskMakes` is the step of the device for each of the three questions (whole
  bytes, the bits of the last byte, its last bit): as many bytes come as are
  read, the bits that are due go in, those that came out are in the answer.

`StaysInStep` (`InStep`), `TypesKept` (`TypeOK`), `AlwaysLands` (`Lands`) and
`ShiftsEveryBit` (`ShiftsAll`) follow; `ReadsEveryBitButLast` (`ReadsAllButLast`) needs
also how `_shift` puts the last byte together (`AssembledForm`, `CombinedBits`).
None of the five is inductive alone: they speak of calls that returned, or of
the time between calls, and say nothing of what is under way.

**Induction over data.**  What a recursive function computes (`FlattenSeq`,
`Without`) is found by an induction that a set carries: the numbers for which the
claim holds contain 1 and with each number the next one, so there is no least
number outside (`Climb`, from well-foundedness).  Existence and uniqueness of the
function (`GathersExists`, `LeavesExists`, ...) come first, since a `CHOOSE` says
nothing until there is something to choose.

**Only model-checked:** liveness (`Served`, `Opens`, `Delivered`, `CallsEnd`), which
is beyond the prover, as is ENABLED.  Every invariant and every action property
of the passing runs has a theorem, under the hypotheses given above.

## Findings

* `GapCut` (`VirtualFTDIDevice.cpp:150`): only a non-empty `fragmentedTx` marks
  a command as unfinished.  If a transfer ends right behind the header of a
  write nothing is kept, and the payload is executed as commands.
* `CountWrap` (`:339`): the count plus one is a `uint16_t`; a command of 65536
  bytes becomes one of none, and its payload is executed as commands.  The run
  uses counts of two bits (`CountMod = 4`) instead of sixteen.
* `ReadCut` (`:349`, `:365`): a read-write command makes room for its reply
  before it notices that its payload is cut short; the zeros are sent, and the
  reply as well.
* `LastBit` (`mpjtg.py:44`): of the three bits that come with TMS `_shift`
  takes the last for the data bit; it is the first, as `FTEmul.cpp:349` has
  it.
* `VerilogH19` (`rvl_edit.py:75`): the substitution knows `JTAGH19SOFT` and
  `JTAGH19EMUL` but no plain `JTAGH19`: in Verilog that instance stays, on the
  same nets as the emulation.

Some limits of the passing runs' properties are worth knowing.  `PortsWellFormed`
leaves out port lists that begin with two TAP ports and go on with another
(`BeginsWithTaps`): the first takes the comma behind it, the others have none in
front of them left to take, and `(, output wire X)` remains.  `Rewired` is checked
and proved for VHDL files in which only the emulation is connected to nets named
`jtckemu` and so on: the substitution at `rvl_edit.py:27` goes through the whole file
and would rename such a net of any other instance as well.  `EditedOnce` speaks of
files that were not cut since the tool wrote them: if a run is aborted while it
writes and the tool of the next run fails, the part is edited.  Requests to reset
or purge a port have no effect in the device (`VirtualFTDIDevice.cpp:57`), so a
fragment the host gave up stays, and `FragmentHonoured` says that it does.
`Script` has a last byte with bits above the last one to shift: `bytes()` at
`mpjtg.py:43` raises then, in the shift state, and `Lands` shows that the next
resetting call recovers.

Because of the first three findings `Stream` and `Session` leave out the cuts that break the stream
(`gap`, `rwbody`), `Faults` leaves out `gap`, after which the device is no
longer in step with the host's commands; the properties above hold with those
limits.  Of the theorems, those about types and fragments have no such limits.

## External assumptions

What is behind the firmware's FIFO is not in the tree.  `Jtag` takes from the way
the code uses it that bits leave a byte from bit 0 and enter at bit 7, so that a
byte that is not full has its bits at the top; that the length byte is the
number of bits in the last byte less one, with TDI in bit 7 while TMS is
shifted; and that a message with both direction flags, `0x73`, which
`shiftToRunTestIdle` produces for a single bit and no constant names, makes no
or eight pulses (`EmptyPulses`).  Test-Logic-Reset selects IDCODE in every device (in one
without identifier that is the bypass register), as the comment at `FTEmul.cpp:188` says and
IEEE 1149.1 has it.  `FindsIDs`, `PlayFindsID` and their theorems rest on that, and
say nothing of a chain with a JTAGH19SOFT, of which `doc/README.md:64` observes
that it keeps its instruction and begins with 0x00.  `UnsignedMod` stands for 2^32 in
`countChainLength`'s difference.  A bit-bang byte goes out on the pins before
they are read, and TDO is bit 2 of what is read, as `P_MUX` has it; the pins of
the GPIO header are not moved by anybody.  Of libftd2xx the model has that writes
arrive in order, that a call returns when its request is answered or its bytes are
taken, which vendor requests are behind its calls, and that it removes two bytes
per packet.  Of the Reveal tool it has that it writes the file or fails, and that
in VHDL its nets are named as `vhdl_editor` assumes.

## Not modelled

The analyser hooks (`HAVE_ANA`, library not in the tree) and `hacks/ana.cpp`;
version queries; opening of FIFOs, the list of devices and command-line options;
USB descriptors and `scanForEPDesc` (they run once, before anything else); the
other experiments in `src/sw/hacks`, build and constraint files; of the FPGA
design all but the pin multiplexer, because it wires up entities from submodules
that are not part of the tree.  Log files of the Reveal flow.  An incomplete
`FT_Write` that leaves part of a command with the device is a listed hazard
without a property.  A handle that a failed constructor of `MPSSE` leaves open
(`own_` is never true, `MPSSE.cpp:92`) is closed in the model when its process ends;
what that process could still try with it is left out.

## Plan

1. (done) Device: `Mpsse`, `MpsseStream`, `VirtualFTDI`, refinement, theorems.
2. (done) IN endpoint and the theorems about its bounds.
3. (done) JTAG operations, bit-banging, pin multiplexer and scripts on a TAP.
4. (done) Sessions on the device, and that the device's theorems hold for them.
5. (done) The Reveal flow and what its editor does.
6. Next to model: the device and the IN endpoint composed, so that
   synchronising by `0xaa` is checked from end to end; writes that go out in part.
7. (done) Theorems: the device in step with the host, the step simulation of
   `MpsseStream`, sessions that never halt, order through the IN endpoint, what the
   editors do, types, routes and shifts of `FTStream`.
8. (done) Theorems: scripts over MPSSE, all invariants of `MpJtag`.
9. (done) Theorems: what shifts and bit-banging of `FTStream` bring back.
10. (done) Theorems: `countChainLength` and `getIDs` on chains of several devices.
11. (done) Theorems: `play` finds the first identifier; port lists stay well-formed.

# Verification of EMOS

EMOS is the resident operating system of the Agon (eZ80F92): a fork of MOS that adds a second
display and keyboard peer over UART1, a byte-parallel engine that borrows the pins of UART1,
and the services that ride on them. Beneath it lies MOS itself: a FAT file system, a heap, a
command interpreter, system variables and the drivers of the board. This directory holds TLA+
models of these parts, the TLC runs that check them on small instances, and TLAPS proofs that
hold for every instance. `PROJECT.json` lists the components,
the runs, the source lines every definition stands for, the hazards and the theorems.

Paths below are relative to the root of the repository.

## 1. Inventory

There are no threads. One foreground runs the command line, the loader and the program that
was started; the receive interrupts of the two UARTs and the VBlank tick interrupt it; a
program may install handlers of its own, so that any exported entry point may be called by
any of them. Two other processors share the board: the mainboard VDP behind UART0, and the
extender (the ESP32-P4, "the peer" below) behind UART1, whose eight lanes are Port C, and
behind three more lines on Port D: CLOCK and VALID from EMOS, READY from the peer.

| component | source (`src/src/`) | state it keeps | operations |
|---|---|---|---|
| Port C owner | `emos_parallel.c`, `emos_parallel_io.asm` | byte lock, pins owned, generation, route lease, deferred fault | epoch enter, leave, write; route enter, leave, write; UART1 guard |
| record engine | `emos_parallel_engine.c` | open, busy, sticky first fault | open, close, write a stream of records |
| UART driver | `uart.c`, `serial.asm` | serial flags, `uart1_keyboard_owned`, saved interrupt enable | open, close, keyboard open, park, unpark |
| keyboard source, UART1 serializer | `emos_keyboard.c`, `emos_keyboard_io.asm` | source, keys down, receiver, serializer, reservation, fault and stop requests | receive, tick, select, send, layout, telemetry slot, console lease, reserve, park |
| startup and boot fence | `emos_parallel_startup.c`, `_boot.c` | phase state, grant, block | fence, recovery request, connect, tick |
| physical hand-over, block coordinator, native block | `emos_parallel_handover.c`, `_coordinator.c`, `_native*` | phase, CLOCK, VALID, failure | one block in either direction |
| remote console | `emos_console.c`, `emos_console_io.asm` | lease, request, transaction, waiting, accepted, staging area | prepare, commit, publish, recover, receive a reply |
| mode coordinator | `emos.c` | mode, route, selected adapter, application policy | request a mode, refuse, release; service gateway |
| parallel session | `emos_parallel_session.h`, `emos_console.c:204-313` | offer, capability, sequence | negotiate, exchange, probe |
| ExExt display stream | `emos_exext.c` | owned, busy, outgoing and incoming buffers, session and block number | start, stop, write byte, write stream, tick, service |
| SD admission and link | `emos_admission.c`, `emos_sdlink.c`, `projects/sdjob` | state, grant, retry; the mailbox; the job | wait for a key or a job, receive, claim, dispatch, report; gateway calls |
| SD service | `projects/sdserve/src/service.c` | stage, journal of three names beside the target, last reply | BEGIN, WRITE, FINISH, ACTIVATE, CANCEL, RECOVER |
| SD file transfer | `lib/sdapp/sdapp.c` | token, sizes, what is staged where, cancelled | copy a file between the two cards |
| controller | `emos_controller.c` | endpoint, sequence, presence | subscribe, receive, tick |
| telemetry, UART diagnostic | `emos_telemetry.c`, `emos_uart_flow.c` | record counters, flow counters | record, run |
| VDP protocol | `vdp_protocol.asm`, `interrupts.asm`, `clock.c` | packet parser, system variables, flags | receive a byte, publish, clear a flag, wait for it |
| MOS file commands | `mos.c`, `mos_api.asm`, `mos_file.c` | file handles, current directory and its text | CD, DIR, COPY, REN, DEL, MKDIR, LOAD, SAVE, TYPE; the calls on handles |
| MOS command interpreter | `mos.c`, `main.c` | depth, current line, policy | execute a line: alias, built-in, moslet, program, script |
| system variables | `mos_sysvars.c` | ordered list of named values | set, unset, expand |
| line editor | `mos_editor.c` | buffer, cursor, history | edit, recall |
| I2C master | `i2c.c`, `interrupts.asm` | role, error, bytes left | read, write, interrupt |
| SD card driver | `sd.asm`, `spi.asm`, `diskio.c` | sector, count, buffer | power up, read and write blocks |
| RTC, GPIO, timer | `rtc.asm`, `gpio.asm`, `timer.c` | registers | reads |
| FAT volume | `src_fatfs/ff.c` | sector window, free count, open files, directory object | the functions of the FatFs API |
| heap | `src_umm_malloc/umm_malloc.c` | block chain, free chain | malloc, calloc, realloc, free |
| API calls | `mos_api.asm`, `misc.asm`, `src_startup/vectors16.asm` | MB, the routine in RAM that enters a program | RST 08h, 10h and 18h, start and return of a program |
| start-up | `src_startup` | | not modelled |

How they interact:

* The **Port C owner** and **UART1** exclude each other: opening UART1 takes the byte lock of
  the owner (`emos_parallel_uart1_guard_acquire`), entering an epoch tests that UART1 is
  inactive. Interrupts may call either at any point.
* The **keyboard source** owns UART1 as a receiver; everything that sends over UART1 (the
  console, select, layout, telemetry, the parallel session) goes through its one serializer,
  `transitioning`, or through a reservation of it.
* A **block** reserves the serializer, offers the block to the peer by a packet, parks UART1,
  hands the pins over with CLOCK, VALID and READY, runs the bytes, and comes back. A failure
  anywhere fences the pins until the next reset.
* The **mode coordinator** enters and leaves the extended modes by a lease that the **console**
  prepares, commits and leaves with the peer; the display packets that then arrive by UART1
  are published instead of those of the mainboard.
* **ExExt** drives blocks from the foreground, on the ticks of VBlank.
* **Admission** waits at the empty command line together with the line editor; a job it claims is
  a program under the **command interpreter** and serves requests of the peer through the
  **SD service**, which is a client of the **FAT volume** by the same calls as the **file commands**.
* The FAT volume reads and writes sectors through the **SD card driver**. The interpreter, the
  file commands, the **system variables** and the editor take their memory from one **heap**.
* A program calls all of these through the **API calls**, in ADL mode with 24-bit addresses or in
  Z80 mode with addresses of its own 64K segment, and may start another program by one of them.

What is hard, and what makes each part correct, is listed line by line as "hazards" in
`PROJECT.json`; the properties below answer them.

## 2. Modules

| module | models | what it is composed with |
|---|---|---|
| `PortCOwner` | abstract specification: Port C is free, or UART1's, or one epoch's | implemented by `PortCEpoch` |
| `PortCEpoch` | `emos_parallel.c`, its masked helpers, `open_UART1`, `close_UART1`, and open, close, busy and fault of the engine | |
| `PortCEpochProofs`, `KeyboardUartProofs`, `ConsoleModeProofs`, `ExExtStreamProofs`, `SdLinkProofs`, `DeviceProofs`, `ConversationProofs`, `MosProofs` | theorems about `PortCEpoch`, `KeyboardUart`, `ConsoleMode`, `ExExtStream`, `SdService`, `SdAdmission` and `FileTransfer`, `I2cMaster`, `SdDriver`, `VdpLink` and `MosApi`, `ParallelSession`, `PortCHandover` and `ParallelRecord`, and `Shell` and `Editor` | |
| `KeyboardUart` | `emos_keyboard.c` and the UART1 ownership of `uart.c` | |
| `PortCHandover` | startup, boot fence, phase machine, coordinator, native block, with a model of the peer | the ownership part of `KeyboardUart` |
| `ConsoleMode` | mode requests of `emos.c` over `emos_console.c`, with a model of the peer | the receiver and selection part of `KeyboardUart` |
| `ExExtStream` | `emos_exext.c` over the private controls of `emos_console.c`, with a model of the peer | blocks of `PortCHandover` as one step, the reservation of `KeyboardUart` |
| `ParallelSession` | negotiation of a session, offers, polls and their replies, on both sides | blocks of `PortCHandover` as one step |
| `ParallelRecord` | the records of `emos_parallel_engine.c`, the reference loop for the opposite direction, with a model of the peer | the lease of `PortCEpoch` as a call |
| `FileStore` | abstract specification: a tree of named objects | implemented by `FatVolume` |
| `FatFs` | the functions of `ff.c` as operators, down to the sector transfers | used by `FatVolume` |
| `FatVolume` | programs that call them in any order, with failed transfers and losses of power | `FatFs`, `FileStore` |
| `MosFiles` | the file commands and handle calls of `mos.c`, `mos_file.c` | the store of `FatVolume`, one step a call |
| `Heap` | `umm_malloc.c` on the memory it manages | |
| `SysVars` | `mos_sysvars.c`, its commands and API calls | |
| `CommandText` | words, numbers, substituted arguments, escapes, VDU and TIME | the words of `SysVars` and `Shell` |
| `Shell` | `mos_exec` and what calls back into it, `main.c`, the policy of `emos.c` | |
| `Editor` | `mos_editor.c` with the screen | |
| `SdDriver` | `sd.asm` with a model of the card | |
| `VdpLink` | the UART0 receiver, what packets publish, the readers | |
| `I2cMaster` | `i2c.c` and its interrupt, with a model of slave and bus | |
| `MosApi` | `mos_api.asm`, the RST handlers, the start of programs in `misc.asm`, and the prototypes that C declares | the C functions of `MosFiles`, `SysVars`, `FatFs` and others as steps |
| `SdService` | the journaled upload of `service.c` | FatFs calls as steps that may fail or be cut |
| `SdAdmission` | `emos_admission.c`, `emos_sdlink.c`, `sdjob`, with a model of the peer | the prompt of `Editor`, the programs of `Shell` |
| `FileTransfer` | `sdapp.c`, with a model of both engines | the answers of `SdService` |
| `MC*` | instances for TLC | |

Four of the instances run several modules side by side that share no variables. `MCSessions` has the SD
card, the hand-over, the session and the records; `MCDevices` has the packets of the VDP, the I2C bus,
the console and the API calls of programs; `MCMos` the parts of MOS; `MCSdLink` those of the SD link. Their variable `component`
picks the part a behaviour is of, and the others stand still in their initial state, where their
properties say nothing. `MCSessions` and `MCDevices` extend their modules, so that the properties are the
modules' own; in the other two a property of an instantiated part is an implication from the choice,
stated under the same name. `MCPortCEpoch` has a variable `serial` in the same way: it picks between the
calls that `emos.c` makes (`RouteCalls`, from the foreground alone) and any call from any context.
Each property was found false, by its mutant, in the behaviours of its own part.

`PortCHandover`, `ConsoleMode` and `ExExtStream` each restate, in a few actions, the part of the
keyboard source they meet (open and closed, parked, receiver stopped by a fault, reserved); the
map points all of them at the same lines.

### PortCEpoch

Contexts `0 .. Levels` are the foreground and nested interrupts: a context takes a step only
while no higher one is active, and a higher one runs to completion before a lower resumes. A
context that is idle may call any entry point in `Calls[c]`. Every access to a shared variable
is a step of its own (`pc[c]` names the line), while the helpers of `emos_parallel_io.asm`,
which mask interrupts, are one step. `status` is the local result of a call. `contended` and
`retired` are history variables that the properties need and no guard reads.

Route enter and leave are called by the foreground only, because the mode coordinator serialises them,
and no epoch is opened or closed without them; this is `RouteOnly`, the hypothesis of `RouteIsLive`,
and the half of `portc` with `serial` true fulfils it. The other properties hold of any calls. The conditions
`boot_uart_allowed` and `uart1_keyboard_owned` at the head of `open_UART1` belong to
`PortCHandover` and `KeyboardUart` and can only refuse a call that is allowed here. The
records of a stream, the READY waits and the stall fuse of the engine are one step here, which
ends in success or in a sticky timeout; `ParallelRecord` has them one by one.

| property | about |
|---|---|
| `PortCIsSafe` | the five that follow, and the types |
| `LockIsExclusive` | at most one context is inside the byte lock |
| `PortHasOneOwner` | UART1 keeps the pins while it is active; a published epoch has pins and engine |
| `QuiescentPinsAreOwned` | once the lock is free, pins driven mean an epoch is published |
| `WriterHoldsLiveLease` | the engine streams only for the lease of the epoch that is open |
| `RefusedWriterReportsBusy` | the shared status a refused writer returns still says BUSY |
| `ContentionIsKept`: `ContentionAbortsEntry`, `ContentionStopsWriters` | a refusal during an entry aborts it; one during an epoch stops later writers |
| `RouteIsLive` | under the calling rule of `emos.c` (`RouteOnly`), a dispatcher that finds a route credential with an epoch finds the credential of that epoch |
| `CallsReturn` | every call returns: the byte lock is given back on every path |
| `ImplementsOwner` | the refinement of `PortCOwner`: the port goes through "free" between two owners, and no generation comes back |

### KeyboardUart

Two actors: the foreground, one call at a time, split where the code enables interrupts, and
the interrupts (receive, tick, the transmission of the telemetry slot), which run to
completion. A packet is two bytes, its first and its last; a frame is abstract; `wire` and
`mixed` record, for each opening of UART1, whether a packet was begun inside another. `stale`
records that UART1 was opened with a request for a fault standing, `forgotten` that a failure was
withdrawn while the console kept UART1 open. A
deadline is a step the waiting foreground may take at any time. Characters already in the
FIFO of the peer stay with the peer when UART1 is closed.

Properties: `SerializerIsSafe` (one holder, and a parked port is quiet),
`HeldKeysBelongToTheSource` (a switch, a stop and a fault release what was pressed through the
old source), `KeysFollowTheirAdmission` (a key is published only if the peer queued it after the
reply that admitted the source), `StreamIsSound` (packets are whole, a healthy receiver is
armed), `FaultsAreCurrent` (no request of an earlier opening strikes a send, a select or the
parallel engine), and under fairness `AllIsServed` (calls return, faults are served).

The run `keyboard_failed_select` shows a disagreement with the contract of the repository: a
select that reports failure may leave the new source selected.

Five behaviours of the code limit what `StreamIsSound` and `FaultsAreCurrent` can say, and the
properties name them instead of leaving their clients out. A layout request (`emos_keyboard.c:311`)
and the telemetry slot (`:480`) do not look at a pending request for a fault and may append to a
truncated packet: `mixed` does not count a packet that is begun with a request standing. While the
console holds UART1, selecting the mainboard clears the fault of a receiver that was stopped and
that nothing arms again (`:131`), a select that fails restores the earlier, healthy flag, and one
that does not reopen UART1 drops a pending request: that is what `forgotten` records, until UART1
is opened again. And a request left by a select that failed reaches the session the console
opens next (`:340`): `FaultsAreCurrent` says what such a request never strikes. They are listed as hazards.

### PortCHandover

The phase machine is a table: what a phase waits for, its successor, and the two levels it
drives. A pass of a polling loop samples READY once and is one step. The boot start is two
steps (fence, then recovery request), because the peer can see the levels between them. The
peer is external: its actions are reconstructed from the comments and the table of `startup.c`
and `coordinator.c`, polling levels at its own pace. Both processors may be reset at any time,
the peer may abort a block, a line error may stop the receiver, any deadline may expire.

One assumption about the peer is explicit, in the guard of `PeerRecovers`: a recovery of the
peer takes longer than EMOS takes from READY low in `ENTRY_ARM` to CLOCK low after the block
(at most 4096 bytes). Nothing in the protocol confirms a block after its last byte, so
`SuccessMeansDelivered` needs it: a peer that could be reset and recover within one block
would look like one that received it. A peer whose clocks have stopped gives a block up.

Not included: the use of UART1 by a program without ownership (`PortCEpoch` has it) and the
gating by `transitioning` (`KeyboardUart` has it).

Properties: `HandoverIsTruthful` (no lane is driven from both sides; after a failure the pads
stay fenced; a grant and an opening of UART1 meet a live peer; a reported success was
delivered), and, while no fault, deadline or reset happens, `HandoversComplete`
(blocks and connections), a part of `ConversationsEnd`.

### ConsoleMode

A mode request is a foreground procedure, with the receive interrupts of both UARTs between
any two of its steps. UART1 is a pair of bounded FIFOs; a packet is lost by a line fault, by a
send that fails or by a reset of the peer. The build modelled is the default one: UART console,
no fixed parallel adapter, no ExExt; requests are made from the CORE policy, and keeping the
display only changes a notice. The peer is external: a PREPARE replaces its lease, a repeated
COMMIT, LEAVE or ABORT is answered again. Poll tokens are one byte made of the nonce and the
transaction, so tokens of two leases can be equal: `PollToken` is modulo 2. VDU text itself is
not modelled. A reply that arrives between the end of a wait and the clearing of `waiting` is
folded into the wait: nothing reads it later.

Properties: `OwnersAndDisplayAgree` (between requests mode, route, lease and the ownership of
UART1 agree, however the last request ended; no late answer of the mainboard or of an earlier
lease replaces the published state), `LeaveIsAcknowledged` (a
route is dropped only when the peer has ended the lease or lost it) and
`RetainedRouteCanBeLeft` (a route that was retained because LEAVE was not answered is left
once the trouble stops).

### ParallelSession

The two endpoints of `emos_parallel_session.h`, which both processors compile, over a wire that
loses packets, delivers replies after their deadline and from before a reset of EMOS, and checks
none of them. `emos_console_packet` captures a reply by what its header says, while
`parallel_session_accept` judges it later by the session; transaction and sequence are counters
modulo a small number, a nonce is never given twice. `SessionsAgree`: an active session of EMOS
is the peer's, unless the peer was reset or prepared again; an admitted block is the one the peer
admitted, at the same sequence; no block of a session is admitted twice; the amount that a poll
returns is that of the session asked about.

### ParallelRecord

A step is one poll of READY or the clock, or one edge of VALID or CLOCK; the peer takes a byte at
every falling edge of CLOCK while VALID is low, and moves READY when it likes or never. The clock
of MOS runs through its wrap-around, or stands still. `StreamsAreWhole`: a stream that succeeded
was taken byte for byte and record by record, and so was one that was read; a failed one is a
prefix; a failure of the engine is kept until it is closed; nothing is clocked outside a
record. Under weak fairness of the loop alone every call ends, whatever clock and peer do
(`CallsEnd`, the other part of `ConversationsEnd`).

### ExExtStream

`emos_exext_busy` has one holder, the `job`: a write, a start or a stop of the foreground, or
the service of a tick. The foreground stands still during a service, but interrupts are
enabled, so that nested ticks publish what has been returned (`TickOnly`); a tick that finds
stock SD selected does the same. An exchange is a request, the answer of the peer, and the two
halves of its arrival, because the receiver may be in the middle of a packet when a tick comes.
A negotiation is one exchange, and a block is one step that succeeds or fences the port.
Bytes are numbers, so that order, gaps and repeats show; `Return` is the script of packets the
peer has to send. The stream belongs to an experimental build that is not accepted for
ordinary use (`src/docs/README.md`); what it shares with the ordinary build is in the other
modules. The peer is external: it refuses a control of another session and a block that is not
the next one, opens the stream empty, and keeps it over a renewal (which the comment at
`emos_exext.c:59` requires). A fault may discard the header of a packet; the rest of that
packet is then published byte by byte, as the code does for bytes below 0x80.

| property | about |
|---|---|
| `StreamIsInOrder` | every display byte reaches the peer once, in order, whoever flushes it, also across a renewal; returned bytes reach the parser in order, wherever blocks are cut |
| `StreamEndsWell` | a stop that succeeds has sent and published everything; no buffer fill, packet cut or block number makes a service fail |
| `InputIsDelivered` | once trouble stops, everything returned is published |

The run `exext_mixed` shows a disagreement: the tick publishes before it tests anything, also
while a foreground flush or a stop waits for an answer that is half received, and the parser
takes the published bytes for the rest of that packet; the answer is lost and the exchange
times out, which fences the port if it was an offer. Observed and listed as a hazard: a nested
tick and the end of the service publish one key each without a foreground step in between
(`emos_exext.c:238`), which is what the retention of returned bytes is there to prevent.

### FileStore, FatFs, FatVolume

Every function of `ff.c` is an operator from a volume record to the record it leaves. `disk_read`
and `disk_write` are the only access to the card; a write is logged, so that a loss of power is
placed after any number of the writes of a call, and `fuse` makes any one transfer fail. Scaled
down: a cluster is a sector of four directory entries or four units of data, and the FAT is one
sector. Kept: the one window that FAT, directories and data share, the free count and the search
for a free cluster, chains, long names with their checksum and numbered short names, the order of
writes, the retention of errors in a file object, remounting. Dates, the text helpers and the
partition table are left out. Callers keep the rule that `ffconf.h` states for no locking:
no open, removal or renaming of an open object.

`store` is what sectors, window and open files amount to as a tree, and `CallsDoWhatTheyPromise`
says that `FatVolume` implements `FileStore` under it: success has exactly its effect, a refusal
none, a failed transfer or a loss of power only reaches the objects being changed; and that a
read returns what the file holds. `VolumeIsSound` (no cluster has two owners, neither as the
program sees it nor as the card would be found after a loss of power; the working directory
exists), `NothingIsLost` (without mishaps no cluster leaks and the free count is exact),
`FullMeansFull`, a part of `CallsDoWhatTheyPromise`: a write is short only on a full card. A rename of a directory, a truncation and the growth of a directory are
critical sections in which `ff.c` cannot be interrupted safely; a volume on which one of them
was interrupted is left out of `VolumeIsSound`, and its behaviour ends there.

### MosFiles

A command is one step: nothing else uses the card meanwhile. Path arguments have a prefix, a
directory and a name with or without a wildcard; resolving, iterating over matches while the
directory changes, and the current directory with the text MOS keeps of it are as in the code.
The user may refuse a deletion, the card may be full, memory may run out at each allocation.
`CommandsActInPlace`: a success has done all of what was asked, nothing else is touched whatever
is returned, and only CD changes the current directory. Where the code deliberately or silently
does less or otherwise the property says so: a copy without memory returns OK (`mos.c:2712`), a copy
or SAVE on a full card is cut without an error, a REN with a wildcard may lose its pattern
(`mos.c:2608`), a stale text of the current directory after an ancestor was renamed, FCLOSE of an
invalid handle closes them all. Two more of these are defects of REN that nothing in the repository
documents:

* `REN b d/`, with `b` a directory, moves it to `db` beside `d`. Whether a slash goes between target
  and name is decided once, from the text of the argument (`mos.c:2512`); for a directory the target
  is then replaced by its absolute path, which has no slash at its end (`mos.c:2563-2574`), and the two
  names run together (`mos.c:2599`). With a wildcard, every later match goes that way, files too.
  `addSlash`, `Destination` and `RunTogether` model it, `GoesBeside` states it, and
  `CommandsActInPlace` fails when it is not stated.
* `resolveRelativePath` returns MOS_OUT_OF_MEMORY without going back when the leaf has no room behind
  the directory's text (`mos_file.c:421-423`), which happens when the argument spells a directory by
  its short 8.3 name and `f_getcwd` by its long one. Names are not that detailed here, so it may happen
  to any argument with a directory (`Mishaps`). For the target REN ends there; for the source it goes
  on, does not compare the paths at all, and takes relative names from where it now is. `Strays` and
  `Astray` name what may then be expected no more.

`files_loop` shows a disagreement: REN moves a directory of the root, named with a slash, below
itself.

### Heap, SysVars, Shell, Editor

`Heap`: the two chains live in the memory they describe, and data overwrites whatever header or
link is in its way. `HeapIsFair` (stated in `MCMos` of `HeapIsSound` and `NullMeansNoRoom`): after every call the chains agree, free neighbours are joined,
callers' blocks are disjoint and large enough and keep their data, and a NULL came only when no room
was left.

`SysVars`: a list ordered by a comparison that is no order for names that begin one another,
searched with wildcards; values refer to one another and the expansion is a stack of sources,
compared with a reference definition. `VariablesAnswer`: a lookup, an expansion and an enumeration
return what is stored, and a command changes the variables it names. Expansions of
empty values are left out of the comparison: `gsRead` (`mos_sysvars.c:499-575`) stops early there.

`Shell`: the calls in progress are a stack of frames. `InterpreterIsSound`: whatever error unwinds
them, `depth` counts the aliases and files in progress, the policy is that of the innermost
program, and OSCLI loads no program over the one that called it.

`Editor`: `LinesAreKept`: after every key the screen shows the line, the line fits in the buffer, and
the history is what was entered. A term may be completed anywhere, quoted or not: `findTermStart` steps
over the terms as `extractString` does, and `insertString` is its code with all four ways to put quotes.
Two of them are wrong where the user typed the opening quote, and the property says so. A name with a
space moves the rest of the line one place too far (`mos_editor.c:141-149`), so that a byte of the old
line, or its end, or behind the old line whatever is there, comes before the rest; from there
to the end of the call (`torn`) nothing is claimed of the screen. A name without a space gets a closing
quote that the limit does not count (`mos_editor.c:135`), so the line may be one longer than the buffer.
No term behind the cursor is completed: `memchr` is then given a length of -1 or less as a size, and
memory holds a `*` (`mos_editor.c:372-375`).

`CommandText`: a step is one call on one text of a small set, and `TextsAreSound` compares what it
returns with a reference definition: words and numbers by repeated calls, arguments by the pass
that measures and the pass that copies, the escapes of control characters. Noticed beside the
property: `extractNumber` returns without putting its terminator back when the base is not valid,
and reads `*end` through NULL when it is called without `end` for a bad number
(`mos_sysvars.c:767-775`); VDU does not take `nnh` although it asks for the suffix.
`escapeString` is called with every room up to one more than it measures, and the property says what
its caller may count on, which is less than a C string: the terminator is written only behind a plain
character that leaves room for nothing else (`mos_sysvars.c:928-931`), so a text that ends in an
escape, an empty one, and any text given more room than it needs are left unterminated with FR_OK
(`tests.c:623-627` passes 255 bytes and finds a terminator that was there before); and when one byte
is left and a plain character comes (`Overruns`), the text runs past its room and nothing says so.

### SdDriver, VdpLink, I2cMaster

The card may refuse, fail, stay busy past the driver's wait, or be taken out. The driver reports a
block as written when that wait ends (`sd.asm:389`), so `TransfersAreFaithful` allows a block that
is still being programmed; `TransfersEnd`, a part of
`ConversationsEnd`, needs only the driver's own steps. `VdpLink` lets the
interrupt come between the read and the write with which the foreground clears a flag
(`clock.c:61`) and between the parts of an answer it reads; `MainboardLinkIsSound` says that the
receiver stays in step whatever the packet, and that an answer is that of the request as long as
every wait got its flag in time. What it hands on is a whole packet, with one exception, a defect
of the code: the handler of the keyboard settings (`vdp_protocol.asm:438`) asks nothing about the length
and `emos_keyboard_settings` copies five bytes, so a shorter packet takes with it what older ones
left in the buffer (`IsOf`, `Left`); the run sends one of two bytes. `I2cTransfersAreWhole`: a transfer without an error carried its
bytes, as many as the buffer allows. The timeout of `i2c.c` (lines 79, 98, 128, 147) has no step:
it compares a timer that counts down from 1152 with 2000, so a slave that holds the bus holds the
caller; nothing is claimed about the end of a call.

### MosApi

A program makes a call with an `RST`. MOS knows by MBASE whether it runs in Z80 mode, and then sets the
upper byte of every register that holds a pointer; each of the handlers does this by hand, and
takes the result from where C should have left it. A handler is a record: the registers it
pushes in the order of C, which of them it widens in which of the code's four ways, and where the
answer comes from. `Prototypes` is what the headers declare of the same functions. A register is an
upper byte (`Uppers`: whatever an earlier program left there) and a word; what C does is not modelled
but for the call it makes back into programs: a command line that a program gives to `mos_oscli`
starts another program, of either mode, in any segment (`exec16`, `exec24`), which calls MOS itself.

`CallsMeanTheSame`: C is given the parameters it declares, each pointer of a Z80 program in the
segment of that program, whatever the upper byte was, numbers and bytes as they are, a null
pointer as null; and the program is told C's result. `ProgramsResume`: when the inner
program returns, MB is again that of the outer one, and the routine in RAM, which every start
rewrites, still ends with the RET that an outer Z80 program returns to. `exec24` writes four of its
five bytes, and the fifth is why this holds.

Read from the code, and part of the model: an optional pointer that a Z80 program leaves zero
keeps the upper byte of its register, so that C may see an address that is not null (`Meant` allows what
the register holds); a length keeps its upper byte likewise. `ffs_api_mount` takes A for a result that C
leaves in HL, and `ffs_api_setlabel` has no RET and runs on into `mos_api_not_implemented`: the answers
of both are lost (`LostAnswers`, the exception in `CallsMeanTheSame`). `RST 18h` tests the word of BC
alone, so that a block of a multiple of 64K bytes of an ADL program is taken for a delimited one.

### SdService, SdAdmission, FileTransfer

`SdService`: a request is a list of FatFs calls, each of which may fail, be done and fail, or be
cut. `OldOrNewSurvives`: target or backup is always a complete file, not older than what the
client was told; `ToldIsTrue`: in the checked mode an activation that was reported is what was
sent. FatFs enters the new name of a rename before it removes the old one, and the two entries need
not lie in one sector: a cut or a failed transfer between them (`Aliased`) leaves target and backup,
or stage and target, on one chain. The file itself survives that, and no upload begins before a
recovery. But RECOVER 2 and 3 then unlink one of the two names, and with it the clusters of the
other are free: the file is entered but may be overwritten (`dangling`). `service.c:7` says as much
("NOT power-atomic"), and both properties promise nothing from that step on.

`SdAdmission`: packets are lost, late and from an earlier incarnation of the peer; a key may come
between any two steps. `GrantsAndLinks` (a job runs only under the identity that the peer
acknowledged, a link ends with its program, a sound job never finds the mailbox full) and
`KeyWins`. The ghost `dropped` of the mailbox remembers a packet that found no room since the link
was opened.

`FileTransfer`: a file is a sequence of blocks; answers are lost or wrong, the source on the peer
changes while it is read. `TransferTellsTheTruth`: OK means that the source is in place; a result
other than OK and RECOVERY means that nothing was staged, as far as the caller can know. What is in
place is a file that the source has been if the source changed once at most while it was read twice.
It is not if it changed twice: of files A, B and C of three blocks, the first pass may read A1 A2 B3
and the second B1 C2 C3, and when these are the same blocks the destination takes a file that never
was (`lib/sdapp/README.md:36` says that changing bytes "cannot silently pass destination CRC
verification"). The property says so, instead of leaving the second change out.

## 3. Runs

| run | instance | distinct states | question |
|---|---|---|---|
| `portc` | foreground and one interrupt level, 2 generations; any call anywhere, or route calls from the foreground | 128 006 | exclusion, leases, contention, refinement, route credential, every call returns |
| `keyboard_all` | one key, one remote, all clients, 2 tokens, 1 frame | 1 117 742 | serializer, park, keys, packets, faults |
| `keyboard_base` | the same, without the console | 74 852 | liveness |
| `sessions` | hand-over: blocks in both directions, resets of both sides; session: 3 nonces, 4 requests, a wire of 2 packets each way, one reset; records of 2 bytes, streams of 1 and 3, a clock that may stand still; SD card: 3 sectors, 4 transfers, 1 fault | 235 455 | exclusion of the pins, truth of what is concluded, agreement on a session, whole records and blocks, liveness |
| `exext` | buffers of 2 and 8, blocks of 4, block numbers to 2, 3 bytes out, 9 bytes (2 keys, 1 long packet) in | 220 201 | order and loss in both directions, stop, liveness |
| `fat` | five clusters nearly full, 5 names, 1 handle, 3 calls and a read, 1 mishap | 88 305 | soundness, leaks, refinement, full card |
| `mos` | 3 cards and 3 commands; 8 blocks and 3 owners; 3 names and 4 patterns; 2 levels and 2 programs; buffers of 2 and 7, 3 names to complete, one with a space; short command texts | 131 696 | commands, heap, variables, interpreter, editor, command texts |
| `devices` | VDP: 2 requests and 1 other packet; I2C: 3 transfers of up to 6 bytes through a buffer of 4; console: 3 transactions, wires of 3 packets; API: every function, 2 programs, 2 segments, 2 upper bytes | 225 119 | packets and transfers are whole, mode, route and lease, a route can be left; parameters and results of calls, MB |
| `sdlink` | 2 uploads of 2 blocks, 2 faults; 1 job, 2 incarnations, wire of 2; files of up to 2 blocks, 2 changes | 1 671 986 | journal, admission, transfer |
| `keyboard_failed_select`, `exext_mixed`, `files_loop` | as in their module's other run | violation | findings |

Why the bounds are enough. Two generations distinguish the live lease, a retired one and one
never granted, and reach exhaustion (the code's limit is 0xFFFFFF). One interrupt level gives
every pair of interleaved calls; more levels are covered by the proofs. Two poll tokens give a
current reply and a late one. The protocol of the hand-over is deterministic between levels,
so its state space is small although it is explored completely. Three transactions allow a
lease, its late packets and the token that collides with it (tokens are modulo 2); a wire of
three packets holds one complete answer to a display query. The long packet of `exext` is one byte
longer than a return block, as in the code (257 and 256), so that a cut packet fills the
incoming buffer exactly; two keys in one block have to be published by different ticks; a
session is renewed after two blocks. The card of `fat` has one free cluster, so that a
write, a directory that grows and a long name meet the full card, and two long names share a
short one; three calls create, change and remove. In `mos` eight blocks hold three allocations
with a hole on either side, which every case of realloc needs; one label begins another;
aliases and scripts call each other beyond the limit; the screen has two columns, so that lines
wrap. The packets of `devices` are one byte longer than the buffer, shorter and longer than what
their handler copies, and filled with bytes that look like headers. Two programs, of either mode
and in two segments, are the outer and the inner one; one upper byte is zero and the other names no
segment. In `sdlink` the second upload
finds what the first left, and two faults are a failure and a cut.

CHECK_DEADLOCK is off where a behaviour may end by its bound (`fat`, `mos`, `sdlink`,
`files_loop`) and on everywhere else. The views of `fat` and `mos` leave out what only the
property of the step itself reads.

Every property of a passing run has a mutant in `PROJECT.json`: a plausible bug in one mapped
definition that TLC then finds. The operators that say "a seeded fault" in the modules are
those mutants; no specification uses them.

Fairness. `PortCEpoch`: strong fairness of each context's steps, because a higher interrupt
may disable a lower context again and again but each of them returns. `KeyboardUart`: weak
fairness of the foreground calls, whose waits are bounded by deadlines, and of the tick.
`PortCHandover`: both processors keep polling; no deadline is assumed to expire.
`ParallelRecord`: weak fairness of
the loop. `ConsoleMode`: waits are bounded by ticks and polls; for `RetainedRouteCanBeLeft` the user
repeats LEGACY and selects the input again (strong fairness of those two requests), without
which nothing retries. `ExExtStream`: ticks recur and are not synchronous with the calls of the
foreground (strong fairness of the service: a foreground that writes for ever does not hold
`busy` at every tick), exchanges have deadlines, and a peer that accepts a control answers it.
`SdDriver`: weak fairness of the driver's own steps, none of the card's. `SdAdmission` claims
`KeyWins` as a property of steps and needs none.

## 4. Proofs

The theorems hold for every value of the constants that the named assumptions of the modules
allow; the assumptions are that bounds and sizes are numbers, and no weaker constants make sense
to the code. None of the properties below is inductive: each speaks of variables at rest, while the
code changes them one by one. Every module therefore proves one inductive invariant, `IInv`
(`I2cInv`, `SdInv`, `LinkInv`, `ApiInv`, `AdmissionInv`, `TransferInv`, `SessionInv`, `HandoverInv`,
`ShellInv`, `EditInv`; further properties rest on `RouteInv`, `ArmedInv`, `PacketInv` and `EndingInv`
beside it), as `Init => IInv` and `IInv /\ [Next]_vars => IInv'`, with one lemma for each part of it and one case for each action; the properties follow. TLC checked every part of the
invariants on the instances of the runs before they were proved.

**PortCEpochProofs**: for every number of interrupt levels, every generation limit and
every assignment of calls to contexts (assumptions `LevelsAssumption`, `MaxGenAssumption`,
`CallsAssumption`). `Safety` (`PortCIsSafe`), `ContentionKept` (`ContentionIsKept`) and
`Refinement` (`ImplementsOwner`: `PortCEpoch` implements `PortCOwner`). In the invariant
`InitLockInv`, `InitCallInv` and `UninitInv` say what the late initialisation by an arbitrary
first caller leaves untouched; `LockInv` ties the lock to a program counter; `PortInv` says, for
each point inside the lock, what pins, engine and UART1 flag are; `WriterInv` what a writer's lease
and an entrant's candidate are; `HistoryInv` relates generations, the retired ones and the deferred
fault; `RefusedInv` says that a refused context interrupts the holder of the lock, which is why its
shared status cannot be overwritten before it returns. In `Refinement` the commit of an epoch, the
revocation of one, and the switch of the UART1 multiplexer are the abstract steps; all others
stutter. `RouteSafety` (`RouteIsLive`): under the calling rule, a credential without an epoch exists
only between the end of the epoch and the last line of the same route leave (`RouteInv`), and since
route calls come from one context that line runs before anything could open another epoch.

**KeyboardUartProofs**: for all keys, sources, clients, tokens and frames on the wire
(`BoundsAssumption`, `SourceAssumption`). `SerializerSafety` (`SerializerIsSafe`),
`HeldKeysSafety` (`HeldKeysBelongToTheSource`) and `KeysAreAdmitted` (`KeysFollowTheirAdmission`).
`CallInv` ties the reservation and the stop request to the place of the call that made them.
`OrderInv` is the reason that a key is never one from before its admission: tokens are answered in
order, and on the wire no key is behind a reply that is newer than what was answered when the key
was queued. `PollInv` and `RestoreInv` say that a select which restores the fault it found has
released every key by then.
`ReceiverInvariant`, `StreamSafety` (`StreamIsSound`) and `FaultsStayCurrent` (`FaultsAreCurrent`)
hold for every set of clients, the console, layout and telemetry included. `ArmedInv` says why a receiver
may be stopped: a fault, a request, a stop that will close UART1, or something forgotten; `PacketInv`
who is still sending, or what is known, when a packet is incomplete; `StaleInv` that whoever
heeds requests is not under way while an old one stands, because each of them refuses to begin with
a request pending and a select withdraws it as it opens UART1.

**ConsoleModeProofs**: for every number of transactions and every capacity of the wires
(`BoundsAssumption`). `OwnersSafety` (`OwnersAndDisplayAgree`) and `LeaveIsTrue`
(`LeaveIsAcknowledged`). The invariant orders the two FIFO wires: the PREPAREs on their way to the
peer ascend and are newer than its lease, what it has sent never gets newer than its lease
(`WireInv`); whoever has read the reply to its own PREPARE has therefore read everything of the
leases before it (`LeaseInv`), and a reply to LEAVE or ABORT of the lease the peer holds means that
the peer has ended it (`EndInv`).

**ExExtStreamProofs**: for every size of the buffers, every stream and everything the peer has to
return (`BoundsAssumption`). `StreamSafety` (`StreamIsInOrder`) and `EndingSafety` (`StreamEndsWell`). `OutOrder` and
`InOrder` account for every byte on its way: what is sent and what waits are the bytes written, what
waits on either side is what has not been parsed. `WriteRoom`, `FetchRoom` and `AmountRoom` keep a
fetch within the buffer, and `WireInv` ties each exchange to the step of the job that waits for it.
The lemma about the scanner of packets rests on the well-founded order of the numbers.
`StreamEndsWell` has two halves. `StopSafety`: a stop that succeeds has sent and published everything.
`ServiceSafety`: a service that fails had trouble. For that the peer must return whole packets that fit a
block and a byte, which is what `emos_exext.c` expects of it (`PacketsAssumption`). `BoundaryInv`
then says that both ends of the FIFO stand at a packet boundary, `PartInv` that a service asks for more
with a part of one packet at most, so that there is room for a block behind it (`PartHasRoom`),
`TroubleInv` that nothing is fenced, lost or faulted without trouble, and `PairInv` that both sides are
then in one session at one block, so that the peer accepts what it is asked.

**DeviceProofs**: `I2cTransfers` (`I2cTransfersAreWhole`), for every size of buffer and transfer
(`I2cAssumption`): while a status is awaited, the bytes left and the bytes gone are the
transfer (`WriteInv`, `ReadInv`). `SdTransfers` (`TransfersAreFaithful`), for every card, every
number of retries, transfers and faults (`SdAssumption`): what the driver has delivered is what was on
the card when it was read (`DeliveredInv`), and a block it has sent is stored, being programmed, or
spoilt by a fault the card reported (`WrittenInv`, `ToldInv`). `LinkIsSound`
(`MainboardLinkIsSound`), for every set of packets that the VDP may send, of any bytes and length,
and any number of requests: `OnWire` says what the receiver holds of the packet on the wire after
each byte of it, `Buffers`, that every byte behind it was left by a packet that fitted, and `AskInv`,
that nothing is owed but what is asked for as long as no wait was in vain. `VdpLinkAssumption` is about the external VDP: it sends what is asked for on request only.
Without it the answer could not be told from an unasked packet of the same kind.
`ProgramsAlwaysResume` (`ProgramsResume`) and `CallsAlwaysMeanTheSame` (`CallsMeanTheSame`), for every set
of segments but the flash (`MosApiAssumption`), any upper bytes and any number of programs within one
another: `ProgramsInv` says that MB below each program is that of the one which started it, and
`PushesMeant` that a handler which suits its function pushes what the program means. That each of the
handlers does suit its function, `HandlersAssumption`, speaks of two tables without a parameter: TLC
evaluates it on every `devices` run, and the theorem takes it from there.

**SdLinkProofs**, of `SdAdmission`: for every number of generations, sequence numbers, jobs,
restarts of the peer and packets on the way (`AdmissionAssumption`). `GrantsAreSound`
(`GrantsAndLinks`) and `KeyIsHeard` (`KeyWins`), from `AdmissionInvariant`. No packet names what it
answers beyond its number, and the number of a DECIDE is compared only while one waits. `WireInv`
therefore says that no packet has a later number than the record that was sent last, `DecideInv`
that while a DECIDE waits its answer, if it comes, is the last packet of the wire, so that none is
left once it was taken, and `Finishes` that an answer to FINISH tells the truth about the peer for
ever. That a sound job misses no packet is a matter of counting: `SoundJob` bounds the packets on
the wire and in the mailbox (`Coming`) by the answer and the one request that it may still get
(`Awaited`), at each place of the job and never more than the two slots of its mailbox.

Of `FileTransfer`: for all files of any blocks, any number of transfers and of changes
(`TransferAssumption`). `TransferIsTrue` (`TransferTellsTheTruth`), from `TransferInvariant`. `SumInv`
says what the first pass has read: the beginning of a file the source has been, or, after the one
change, a mixture with the length of the last. `MixInv` and `CopyInv` carry this to the second pass:
after a mixture it reads the last file from its beginning, and so it cannot agree with the
mixture unless that was this file after all (`StageIsWhole`). `StageInv` and `EndInv` relate the
flags to what the destination holds.

Of `SdService`: for every size of the uploads and any number of uploads, failed calls, bad
blocks and power cuts (`SdServiceAssumption`). `FileSurvives` (`OldOrNewSurvives`) and
`ClientIsToldTheTruth` (`ToldIsTrue`). The invariant has two cases. `Plain`: no chain has two
names. `CardInv` is then the promise with its reason: a target is
whole, and without one the backup is. `WorkInv` says of each request which
calls are left, in their order, and what of the card they rely on: while the target is set aside
the stage that will replace it is complete, a digest is left or was made, and the backup is
removed only while the target is there. A call that fails or a cut then leaves a sound card
wherever it falls (`CallIsSound`, `CutIsSound`), or, in half a rename, a file with two names
(`HalfRename`). `RepeatInv` covers the reply that is given again. `Twin`: a whole target has a second
name, without which the card would be sound (`TwinCard`). No upload is active and none can begin, an
activation is not told of, and the calls of a recovery leave the twin, take its entry away, or free
the target's clusters (`SpareCall`, `TwinCut`), which is `dangling`.

**ConversationProofs**, of `ParallelSession`: `SessionsAlwaysAgree` (`SessionsAgree`), for any set of
nonces, any modulus of transactions and sequences, any length of the wires, and any number of
requests, losses and resets. `SessionAssumption`: nonces are not zero, the others
are counters. What EMOS checks of a reply
is spread over two places and two times; the invariant therefore says what each packet under way
can still tell. A PREPARE that was answered gave a nonce nobody has used (`Fresh`), an answered
COMMIT is true of the P4 unless it has another nonce (`CommitIsTrue`), an offer on the wire
is either an older one of the session or the one that waits (`IsOld`, `IsMine`), and the P4 is
where EMOS is or one offer ahead (`PeerInv`).

Of `PortCHandover`: `HandoverTruth` (`HandoverIsTruthful`, which contains `HandoverIsSafe`), without an
assumption. EMOS sees one bit of the P4. `PeerPlace` says where the P4 can be in each phase of
EMOS, whatever it has missed, `LinesInv` which levels it sees there, and `PeerForm` what READY and
pads are in each place of it; together they say what a READY at this level can mean. `OwnerInv` ties
pads, grant and block to the phases, and `CleanInv` says that a P4 which left its block within
the run does not come back before the block has ended, so that no success is reported.

Of `ParallelRecord`: `StreamsAreAlwaysWhole` (`StreamsAreWhole`), for every size of a record, every length
of a stream, every modulus of the clock and any timeouts (`RecordAssumption`). `TakenInv` counts: at each
line of the loop the P4 has taken what earlier records sent, what is past in this one (`Past`) and the
byte whose edge has been given; `CutInv` says where each record begins, so that the cuts of the P4 are
those of MOS; `EdgeInv` what the lines are at each place; `ToldInv` relates the result, and the failure
that is kept, to all this.

**MosProofs**, of `Shell`: `InterpreterSafety` (`InterpreterIsSound`), for all aliases, files, programs
and lines and every limit of the depth (`ShellAssumption`: it is a number). The stack of the model is the
call stack of `mos_exec`; `CountInv` says that `depth` is the number of aliases and files on it,
`PolicyInv` that the policies saved in the frames of programs form a chain that ends in Core, and
`LineInv`, with what `StackInv` says of each frame, that a line which a program gave is never executed as if
it were typed, straight or through an alias. The lemmas are about a stack and one that is deeper by a
frame (`DeeperCount`, `DeeperPolicy`), so that each step is a call that begins, ends or stays.

Of `Editor`: `EditorSafety` (`LinesAreKept`), for every text, every size of the buffers and of the screen
that holds them, and every length of the history (`EditorAssumption`). Every key writes the line again
from some position on, and has the cursor there; `Redrawn` says of all of them that the screen then
shows the new line. `ShownInv` says this until a completion tears the line, as in the property;
`Fits` is the other exception, and `TabKeeps` shows that there are no more. `HistoryInv` says that the history is the end of the entered lines without
repetitions (`Kept`). That is a recursive function, and what the proof knows of it comes from its
being the only one with its equation (`KeptUnique`), which gives the step by one line (`KeptAppend`).

Two things keep a property with TLC.

* Out of the prover's reach: liveness and the fairness it needs (`CallsReturn`, `AllIsServed`,
  `ConversationsEnd`, `RetainedRouteCanBeLeft`, `InputIsDelivered`), and modules that compute with
  RECURSIVE operators (`FatFs`, `FatVolume`,
  `MosFiles`, `SysVars`, `CommandText`: loops over chains, matches, macros and texts, and the
  instances that contain them).
* Not proved: `HeapIsFair`. Every call of the allocator merges, cuts and searches a list of blocks in
  memory, by recursive functions over it; TLC has all heaps of the instance.

## 5. Not modelled

The controller, the telemetry counters, the UART flow diagnostic, the register-level service
gateway, the native and fixed build variants, the timing instrumentation, register accesses
without state of their own (timer, RTC chip, GPIO), the start-up code, the bench programs, the
tables of `ffunicode.c` and the formatting of numbers and text. Of the SD service, STAT, READ, LIST,
MKDIR, REMOVE and MOVE keep no journal and are left out. Of the system variables, the parser of
expressions is read as a number or a name.

Observed and not covered by a property: the filter of mainboard display effects
(`vdp_protocol.asm:150`) tests route 1 only, so that in Exclusive Extended mode a late mainboard
answer would replace the published state. A LEAVE that fails after the stream was stopped keeps
route 2 without a stream: writes are refused until LEGACY is requested again (`Leave` of
`ExExtStream` has both outcomes).

## 6. Plan

1. Proofs: the chain of blocks of `Heap`.
2. `ParallelRecord` as a refinement of the single engine step of `PortCEpoch`, and
   `ParallelSession` composed with `PortCHandover` by its admitted offer.
3. Controller and telemetry over the packet stream, and the service gateway of `emos.c`.
4. Two handles open at once on the FAT volume.

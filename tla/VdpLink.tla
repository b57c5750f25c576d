-------------------------------- MODULE VdpLink --------------------------------
(***************************************************************************)
(* The packets of the mainboard VDP: the receiver run by the UART0         *)
(* interrupt for every byte (interrupts.asm, vdp_protocol.asm), the system *)
(* variables and flags it fills in, and the foreground that clears a flag, *)
(* asks, waits for the flag and reads the answer (clock.c, mos_editor.c,   *)
(* wait_VDP).  The interrupt may come between any two steps of the         *)
(* foreground.  The VDP is external: it answers in order, late or never,   *)
(* and sends packets of its own.                                           *)
(***************************************************************************)
EXTENDS Integers, Sequences

CONSTANTS
  Asks,       \* the packets the foreground asks for
  Events,     \* what the VDP sends of its own: [cmd, bytes]
  MaxAsks,    \* bound: requests
  MaxEvents,  \* bound: packets of the VDP's own
  MaxRoutes   \* bound: changes of the display route

BufferLen == 16
KEY == 1
KEYSTATE == 8
GRAPHICS == 12
SettingsLen == 5
\* The bytes the handlers of the packets copy: GP, CURSOR, SCRCHAR, POINT,
\* AUDIO, MODE, RTC and MOUSE; all but GP raise a flag.
Takes == [cmd \in {0, 2, 3, 4, 5, 6, 7, 9} |->
            CASE cmd \in {0, 3} -> 1 [] cmd \in {2, 5} -> 2 [] cmd = 4 -> 4
              [] cmd = 6 -> 8 [] cmd = 7 -> 6 [] cmd = 9 -> 10]
\* The first bytes of the two completions that arrive as KEY packets, and of
\* the reply to a graphics query.
Completions == {<<80, 51, 68, 82>>, <<86, 68, 80, 76>>}
GraphicsReply == <<81, 84, 71, 161>>

\* The external VDP sends what is asked for on request only: the receiver could not
\* tell an unasked packet of that kind from the answer.  One longer than the buffer
\* never reaches a handler.
ASSUME VdpLinkAssumption ==
  /\ MaxAsks \in Nat
  /\ Asks \subseteq DOMAIN Takes
  /\ Events \subseteq [cmd : Nat, bytes : Seq(Nat)]
  /\ \A e \in Events : e.cmd \in Asks => Len(e.bytes) > BufferLen

VARIABLES
  parser,    \* [state, cmd, len, stored, data]: the vdp_protocol_ variables
  system,    \* what the handlers copied, by packet
  vdpFlags,  \* vpd_protocol_flags, by packet
  delivered, \* what the keyboard source or the callback was given last
  backend,   \* emosVduBackend
  wire,      \* the packet the VDP is sending and how much of it has arrived
  owed,      \* the requests the VDP has not answered
  asking,    \* the foreground: [at, cmd, id, copy, seen]
  asks, vdpEvents, routes,
  late       \* a wait has timed out

vdpVars == <<parser, system, vdpFlags, delivered, backend, wire, owed, asking, asks, vdpEvents, routes, late>>

Nobody == [at |-> "none", cmd |-> 0, id |-> 0, copy |-> {}, seen |-> << >>]
Silent == [bytes |-> << >>, sent |-> 0]
Filled(n, byte) == [i \in 1 .. n |-> byte]
First(n) == SubSeq(parser.data, 1, n)

-----------------------------------------------------------------------------
(* The dispatch of a packet that is complete: p is the parser after its    *)
(* last byte.                                                              *)

Publishes(p) ==
  /\ p.cmd \in DOMAIN Takes
  /\ system' = [system EXCEPT ![p.cmd] = SubSeq(p.data, 1, Takes[p.cmd])]
  /\ vdpFlags' = vdpFlags \cup ({p.cmd} \ {0})
  /\ UNCHANGED delivered

\* A KEY packet of four bytes is a key; one of ten is a completion for the
\* callback, if the mainboard owns the display.  A graphics reply has sixteen
\* and names the route it was asked on.  The settings of the keyboard.
Completes(p) == p.stored = 10 /\ backend = 0 /\ SubSeq(p.data, 1, 4) \in Completions
IsDelivered(p) ==
  \/ p.cmd = KEY /\ (p.stored = 4 \/ Completes(p))
  \/ p.cmd = KEYSTATE
  \/ p.cmd = GRAPHICS /\ SubSeq(p.data, 1, 4) = GraphicsReply /\ p.data[8] = backend

\* What they hand on.  The handler of the settings copies five bytes without a
\* look at the packet's length: behind a shorter one, what the buffer held before.
HandsOn(p) == SubSeq(p.data, 1, IF p.cmd = KEYSTATE THEN SettingsLen ELSE p.stored)

vdp_protocol_exec(p) ==
  IF \/ p.cmd = GRAPHICS /\ p.stored # 16
     \/ backend = 1 /\ p.cmd \notin {KEY, KEYSTATE}
     \/ ~IsDelivered(p) /\ p.cmd \notin DOMAIN Takes
  THEN UNCHANGED <<system, vdpFlags, delivered>>
  ELSE \/ Publishes(p)
       \/ /\ IsDelivered(p)
          /\ delivered' = [cmd |-> p.cmd, bytes |-> HandsOn(p)]
          /\ UNCHANGED <<system, vdpFlags>>

NoEffect == UNCHANGED <<system, vdpFlags, delivered>>

-----------------------------------------------------------------------------
(* The receiver, one byte at a time.                                       *)

vdp_protocol_state0(byte) ==
  /\ parser' = IF byte < 128 THEN parser
               ELSE [parser EXCEPT !.cmd = byte - 128, !.stored = 0, !.state = 1]
  /\ NoEffect

\* A seeded fault: the length byte is counted as one of those to drop.
DropsOneLess(byte) == byte - 1
\* The number of bytes of a packet longer than the buffer that are dropped.
Drops(byte) == byte

vdp_protocol_state1(byte) ==
  IF byte > BufferLen THEN parser' = [parser EXCEPT !.len = Drops(byte), !.state = 3] /\ NoEffect
  ELSE IF byte = 0 THEN parser' = [parser EXCEPT !.len = 0, !.state = 0] /\ vdp_protocol_exec(parser)
  ELSE parser' = [parser EXCEPT !.len = byte, !.state = 2] /\ NoEffect

vdp_protocol_state2(byte) ==
  LET p == [parser EXCEPT !.data[parser.stored + 1] = byte, !.stored = @ + 1, !.len = @ - 1]
  IN IF p.len > 0 THEN parser' = p /\ NoEffect
     ELSE parser' = [p EXCEPT !.state = 0] /\ vdp_protocol_exec(p)

vdp_protocol_state3 ==
  /\ parser' = [parser EXCEPT !.len = @ - 1, !.state = IF parser.len = 1 THEN 0 ELSE 3]
  /\ NoEffect

\* The UART0 interrupt: the next byte of the packet on the wire.
uart0_handler ==
  /\ wire # Silent
  /\ LET byte == wire.bytes[wire.sent + 1]
     IN \/ parser.state = 0 /\ vdp_protocol_state0(byte)
        \/ parser.state = 1 /\ vdp_protocol_state1(byte)
        \/ parser.state = 2 /\ vdp_protocol_state2(byte)
        \/ parser.state = 3 /\ vdp_protocol_state3
  /\ wire' = IF wire.sent + 1 = Len(wire.bytes) THEN Silent ELSE [wire EXCEPT !.sent = @ + 1]
  /\ UNCHANGED <<backend, owed, asking, asks, vdpEvents, routes, late>>

-----------------------------------------------------------------------------
(* The VDP.                                                                *)

Packet(cmd, bytes) == <<128 + cmd, Len(bytes)>> \o bytes
Quiet == wire = Silent
VdpStays == UNCHANGED <<parser, system, vdpFlags, delivered, backend, asking, asks, routes, late>>
\* The answer to a request carries its number in every byte.
VdpAnswers ==
  /\ Quiet /\ owed # << >>
  /\ wire' = [bytes |-> Packet(Head(owed).cmd, Filled(Takes[Head(owed).cmd], Head(owed).id)), sent |-> 0]
  /\ owed' = Tail(owed) /\ UNCHANGED vdpEvents /\ VdpStays
VdpSpeaks ==
  /\ Quiet /\ vdpEvents < MaxEvents /\ vdpEvents' = vdpEvents + 1
  /\ \E e \in Events : wire' = [bytes |-> Packet(e.cmd, e.bytes), sent |-> 0]
  /\ UNCHANGED owed /\ VdpStays

-----------------------------------------------------------------------------
(* The foreground.                                                         *)

Asking(at) == asking.at = at
ForegroundOnly == UNCHANGED <<parser, system, delivered, wire, vdpEvents>>

\* The flag is cleared by a read and a write of the byte that holds them all.
ReadsFlags ==
  /\ Asking("none") /\ asks < MaxAsks /\ asks' = asks + 1
  /\ \E cmd \in Asks :
       asking' = [Nobody EXCEPT !.at = "clear", !.cmd = cmd, !.id = asks + 1, !.copy = vdpFlags]
  /\ UNCHANGED <<vdpFlags, backend, owed, routes, late>> /\ ForegroundOnly
ClearsFlag(copy, cmd) == copy \ {cmd}
WritesFlags ==
  /\ Asking("clear")
  /\ vdpFlags' = ClearsFlag(asking.copy, asking.cmd)
  /\ asking' = [asking EXCEPT !.at = "send"]
  /\ UNCHANGED <<backend, owed, asks, routes, late>> /\ ForegroundOnly
\* putch of the request, which reaches the mainboard on its own route.
Sends ==
  /\ Asking("send")
  /\ owed' = IF backend = 0 THEN Append(owed, [cmd |-> asking.cmd, id |-> asking.id]) ELSE owed
  /\ asking' = [asking EXCEPT !.at = "wait"]
  /\ UNCHANGED <<vdpFlags, backend, asks, routes, late>> /\ ForegroundOnly
\* wait_VDP: the flag, or the end of a delay loop; either way what is there is
\* read, in two parts (rtc_unpack).
wait_VDP ==
  /\ Asking("wait")
  /\ \/ asking.cmd \in vdpFlags /\ UNCHANGED late
     \/ asking.cmd \notin vdpFlags /\ late' = TRUE
  /\ asking' = [asking EXCEPT !.at = "read"]
  /\ UNCHANGED <<vdpFlags, backend, owed, asks, routes>> /\ ForegroundOnly
Half(bytes) == (Len(bytes) + 1) \div 2
ReadsFirst ==
  /\ Asking("read")
  /\ asking' = [asking EXCEPT !.at = "rest", !.seen = SubSeq(system[asking.cmd], 1, Half(system[asking.cmd]))]
  /\ UNCHANGED <<vdpFlags, backend, owed, asks, routes, late>> /\ ForegroundOnly
ReadsRest ==
  /\ Asking("rest")
  /\ LET bytes == system[asking.cmd]
     IN asking' = [asking EXCEPT !.at = "done", !.seen = @ \o SubSeq(bytes, Half(bytes) + 1, Len(bytes))]
  /\ UNCHANGED <<vdpFlags, backend, owed, asks, routes, late>> /\ ForegroundOnly
Done ==
  /\ Asking("done") /\ asking' = Nobody
  /\ UNCHANGED <<vdpFlags, backend, owed, asks, routes, late>> /\ ForegroundOnly

\* The mode coordinator commits another route.
Routes ==
  /\ Asking("none") /\ routes < MaxRoutes /\ routes' = routes + 1
  /\ backend' \in 0 .. 2 \ {backend}
  /\ UNCHANGED <<vdpFlags, owed, asking, asks, late>> /\ ForegroundOnly

-----------------------------------------------------------------------------
VdpLinkInit ==
  /\ parser = [state |-> 0, cmd |-> 0, len |-> 0, stored |-> 0, data |-> Filled(BufferLen, 0)]
  /\ system = [cmd \in DOMAIN Takes |-> Filled(Takes[cmd], 0)]
  /\ vdpFlags = {} /\ delivered = [cmd |-> KEY, bytes |-> << >>] /\ backend = 0
  /\ wire = Silent /\ owed = << >> /\ asking = Nobody
  /\ asks = 0 /\ vdpEvents = 0 /\ routes = 0 /\ late = FALSE

VdpLinkNext ==
  \/ uart0_handler \/ VdpAnswers \/ VdpSpeaks
  \/ ReadsFlags \/ WritesFlags \/ Sends \/ wait_VDP \/ ReadsFirst \/ ReadsRest \/ Done \/ Routes

VdpLinkSpec == VdpLinkInit /\ [][VdpLinkNext]_vdpVars

-----------------------------------------------------------------------------
(* Properties.                                                             *)

\* A byte at place i of the buffer: nothing yet, of an answer, or of a packet of
\* the VDP's own that fitted the buffer.
LeftBehind(i) == 0 .. MaxAsks \cup {e.bytes[i] : e \in {x \in Events : Len(x.bytes) <= BufferLen /\ i \in DOMAIN x.bytes}}
\* What was delivered, d, is packet e: whole and nothing more, but for the
\* settings, which are always five bytes, of which e has the first.
IsOf(d, e) ==
  /\ d.cmd = e.cmd
  /\ e.cmd # KEYSTATE => d.bytes = e.bytes
  /\ e.cmd = KEYSTATE =>
       /\ Len(d.bytes) = SettingsLen
       /\ \A i \in 1 .. SettingsLen : IF i <= Len(e.bytes) THEN d.bytes[i] = e.bytes[i] ELSE d.bytes[i] \in LeftBehind(i)

\* The receiver stays in step with the VDP: it is inside a packet exactly when
\* the VDP is, whatever the packet's length and even if its bytes look like
\* headers, it holds what was sent, and what it hands to the keyboard source or
\* to the callback of a program is a whole packet, never the tail of an older one
\* behind a short one (vdp_protocol, vdp_protocol_KEY, graphics_reply), with one
\* exception: settings of fewer than five bytes do take with them what older
\* packets left (vdp_protocol_KEYSTATE).
ReceiverIsInStep ==
  /\ parser.state = 0 <=> wire.sent = 0
  /\ parser.state = 2 =>
       /\ parser.stored = wire.sent - 2 /\ parser.len = Len(wire.bytes) - wire.sent
       /\ First(parser.stored) = SubSeq(wire.bytes, 3, wire.sent)
  /\ parser.state = 3 => parser.len = Len(wire.bytes) - wire.sent
  /\ delivered.bytes = << >> \/ \E e \in Events : IsOf(delivered, e)

\* As long as every wait got its flag in time, what is read is the answer to
\* the request that was made, whole, though flags and answers change between
\* any two steps of the reader (rtc_update and rtc_unpack, getModeInformation,
\* the API calls that clear and wait for flags).
AnswersAreMine ==
  Asking("done") /\ ~late => asking.seen = Filled(Takes[asking.cmd], asking.id)

\* Both of them: neither end of the link mistakes bytes of one packet, or of one
\* answer, for those of another.
MainboardLinkIsSound == ReceiverIsInStep /\ AnswersAreMine
=============================================================================

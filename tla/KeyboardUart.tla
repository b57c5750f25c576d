--------------------------- MODULE KeyboardUart ---------------------------
(* The resident keyboard source and UART1 serializer of src/emos_keyboard.c, *)
(* over the UART1 ownership of src/uart.c and the byte loops of              *)
(* src/emos_keyboard_io.asm, which replace the C ones on the target.         *)
(*                                                                           *)
(* Two actors share the state: the foreground, which runs one call at a time *)
(* and is interruptible between its masked sections, and the interrupts (the *)
(* UART1 receive interrupt and the VBlank tick), which run to completion.    *)
(* A packet is two bytes here, its first and its last: only the boundary     *)
(* matters.  Deadlines are a step the waiting foreground may take.           *)
EXTENDS Integers, Sequences

CONSTANTS
    Keys,           \* virtual keys
    Remotes,        \* the selectable UART1 sources: browser, extender
    Users,          \* the clients of the transport besides select and send
    MaxToken,       \* bound: polls sent in one run (the code counts modulo 256)
    MaxFrames,      \* bound: frames the peer may have in flight
    AgeLimit        \* ticks before a partial frame expires (30 clock units)

ASSUME BoundsAssumption ==
    /\ MaxToken \in Nat /\ MaxFrames \in Nat /\ AgeLimit \in Nat
    /\ Users \subseteq {"console", "telemetry", "parallel", "layout"}
ASSUME SourceAssumption == "mainboard" \notin Remotes

VARIABLES
    source, prepared,       \* emos_key_source, prepared_source
    faulted,                \* emos_key_faulted
    transitioning,          \* the serializer: a packet writer or transition is active
    preparing, textPending, \* waiting for the reply that carries token
    stopReq, faultReq,      \* stop_requested, fault_requested
    token,                  \* the last poll's token
    reserved,               \* parallel_reserved: 0 free, 1 reserved, 2 in a send
    owned,                  \* uart1_keyboard_owned: 0, 1 or 2 (PARKED)
    armed, savedArmed,      \* UART1_IER receive enable with RTS ready, parallel_saved_ier
    console,                \* emos_console_owned
    rx, age,                \* the frame being parsed (a sequence of at most one), its age
    held,                   \* keys down, and the source each was pressed through
    async,                  \* bytes of the telemetry packet still to send
    fg,                     \* the foreground call in progress
    chan,                   \* frames the peer has sent and UART1 has not read
    answered,               \* the peer: token of the last poll it answered
    asked,                  \* the peer: token of the last poll it received
    wire,                   \* history: UART1's current packet is incomplete
    mixed,                  \* history: a packet was begun inside another one, no failure
                            \* of the stream being known
    forgotten,              \* history: UART1 stayed open when a failure was withdrawn
    admitted,               \* history: token whose reply admitted the current source
    stale                   \* history: UART1 was reopened after faultReq was raised

owners == <<transitioning, reserved, async>>
port == <<owned, armed, savedArmed>>
keys == <<source, prepared, held, admitted>>
flags == <<faulted, preparing, textPending, stopReq, faultReq, stale>>
peer == <<chan, answered, asked>>
stream == <<wire, mixed, forgotten>>
vars == <<owners, port, keys, flags, peer, stream, token, console, rx, age, fg>>

Idle == [pc |-> "idle", left |-> 0, then |-> "idle", target |-> "mainboard",
         prev |-> FALSE,           \* select: previous_fault
         was |-> "mainboard"]      \* history: the source when select was called

Init ==
    /\ source = "mainboard" /\ prepared = "mainboard" /\ held = {} /\ admitted = 0
    /\ faulted = FALSE /\ preparing = FALSE /\ textPending = FALSE
    /\ stopReq = FALSE /\ faultReq = FALSE /\ stale = FALSE
    /\ token = 0 /\ transitioning = FALSE /\ reserved = 0 /\ async = 0
    /\ owned = 0 /\ armed = FALSE /\ savedArmed = FALSE /\ console = FALSE
    /\ rx = <<>> /\ age = 0 /\ fg = Idle
    /\ chan = <<>> /\ answered = 0 /\ asked = 0
    /\ wire = FALSE /\ mixed = FALSE /\ forgotten = FALSE

At(p) == fg.pc = p
Goto(p) == fg' = [fg EXCEPT !.pc = p]
RequestFault == faultReq' = TRUE /\ stale' = FALSE

(***************************************************************************)
(* uart.c: the keyboard's ownership of UART1                               *)
(***************************************************************************)
\* uart1_keyboard_open: the port may be refused; opening resets the FIFOs.
UartOpens == owned' = 1 /\ armed' = TRUE /\ wire' = FALSE /\ forgotten' = FALSE
\* uart1_keyboard_close, unless nothing is owned or the pins are parked
UartCloses == /\ owned' = (IF owned = 1 THEN 0 ELSE owned)
              /\ armed' = (owned # 1 /\ armed)
\* uart1_keyboard_stop
UartStops == armed' = (owned # 1 /\ armed)
\* The console keeps UART1 open where it would be closed: what was known to be wrong is lost.
Forgets(failure) == forgotten' = (forgotten \/ failure)

(***************************************************************************)
(* Seeded faults: what each property would catch                           *)
(***************************************************************************)
AsyncAbortsEverything == transitioning' = FALSE /\ async' = 0
CleanupForgotten == UNCHANGED held
AnyReplyMatches(f) == f.kind = "reply"
OnlyAgeIsDue == rx # <<>> /\ age >= AgeLimit
KeepsTheRequest == faulted' = FALSE /\ UNCHANGED faultReq /\ stale' = faultReq
SendFailsSilently ==
    /\ At("sendFail") /\ Goto("sendEnd")
    /\ UNCHANGED <<owners, port, keys, flags, peer, stream, token, console, rx, age>>

(***************************************************************************)
(* Held keys                                                               *)
(***************************************************************************)
HeldKeys == {h.key : h \in held}
Publish(k, down, from) ==
    held' = IF down THEN {h \in held : h.key # k} \cup {[key |-> k, from |-> from]}
                    ELSE {h \in held : h.key # k}
\* cleanup: every held key is released through the ordinary effect path.
Cleanup == held' = {}

(***************************************************************************)
(* Interrupts.  Fault is emos_keyboard_fault on an owned, unparked UART1.  *)
(***************************************************************************)
AsyncAbort == /\ transitioning' = (async = 0 /\ transitioning)
              /\ async' = 0
Fault ==
    /\ UartStops /\ AsyncAbort
    /\ rx' = <<>> /\ age' = 0
    /\ preparing' = FALSE /\ textPending' = FALSE /\ faulted' = TRUE
    /\ IF source # "mainboard" THEN Cleanup ELSE UNCHANGED held

\* The header of a frame reaches the parser (_emos_keyboard_byte): what is
\* no header, and a body longer than the payload, is read and dropped.
RxHeader ==
    /\ owned = 1 /\ armed /\ ~faulted /\ rx = <<>> /\ chan # <<>>
    /\ chan' = Tail(chan)
    /\ IF Head(chan).kind = "badLength"
       THEN /\ Fault
            /\ UNCHANGED <<reserved, owned, savedArmed, source, prepared, admitted,
                           stopReq, faultReq, stale>>
       ELSE /\ rx' = <<Head(chan)>> /\ age' = 0
            /\ UNCHANGED <<owners, port, keys, flags>>
    /\ UNCHANGED <<answered, asked, stream, token, console, fg>>

\* The reply carries the token of the last poll.
Matches(f) == f.kind = "reply" /\ f.token = token

\* Its last byte: emos_keyboard_dispatch.
RxFrame ==
    /\ owned = 1 /\ armed /\ ~faulted /\ rx # <<>>
    /\ LET f == rx[1]
           matches == Matches(f)
           keyed == ~preparing /\ source # "mainboard"
       IN \/ /\ matches /\ preparing
             /\ Cleanup
             /\ source' = prepared /\ preparing' = FALSE /\ admitted' = token
             /\ rx' = <<>> /\ age' = 0
             /\ UNCHANGED <<owners, port, prepared, faulted, textPending, stopReq,
                            faultReq, stale>>
          \/ /\ matches /\ keyed /\ textPending
             /\ textPending' = FALSE /\ rx' = <<>> /\ age' = 0
             /\ UNCHANGED <<owners, port, keys, faulted, preparing, stopReq, faultReq,
                            stale>>
          \/ /\ f.kind = "key" /\ keyed
             /\ Publish(f.key, f.down, source)
             /\ rx' = <<>> /\ age' = 0
             /\ UNCHANGED <<owners, port, source, prepared, admitted, flags>>
          \/ /\ f.kind = "badKey" /\ keyed
             /\ Fault
             /\ UNCHANGED <<reserved, owned, savedArmed, source, prepared, admitted,
                            stopReq, faultReq, stale>>
          \/ /\ ~(matches /\ (preparing \/ (keyed /\ textPending)))
             /\ ~(f.kind \in {"key", "badKey"} /\ keyed)
             /\ rx' = <<>> /\ age' = 0
             /\ UNCHANGED <<owners, port, keys, flags>>
    /\ UNCHANGED <<peer, stream, token, console, fg>>

\* An overrun, framing or break error seen by _uart1_keyboard_irq.
RxLineError ==
    /\ owned = 1 /\ armed /\ ~faulted
    /\ Fault
    /\ UNCHANGED <<reserved, owned, savedArmed, source, prepared, admitted, stopReq,
                   faultReq, stale, peer, stream, token, console, fg>>

FaultDue == faultReq \/ (rx # <<>> /\ age >= AgeLimit)

\* emos_keyboard_tick on VBlank.
Tick ==
    /\ owned # 2
    /\ \/ /\ stopReq
          /\ AsyncAbort
          /\ IF console THEN UNCHANGED <<armed, rx, age>>
                        ELSE UartStops /\ rx' = <<>> /\ age' = 0
          /\ Cleanup
          /\ source' = "mainboard" /\ preparing' = FALSE
          /\ faulted' = FALSE /\ faultReq' = FALSE /\ stopReq' = FALSE /\ stale' = FALSE
          /\ Forgets(console /\ (faulted \/ faultReq))
          /\ UNCHANGED <<textPending, admitted>>
       \/ /\ ~stopReq /\ owned = 1 /\ ~faulted
          /\ FaultDue
          /\ Fault
          /\ faultReq' = FALSE /\ stale' = FALSE
          /\ UNCHANGED <<source, admitted, stopReq, forgotten>>
       \/ /\ ~stopReq /\ ~(owned = 1 /\ ~faulted /\ FaultDue)
          /\ rx # <<>> /\ age < AgeLimit
          /\ age' = age + 1
          /\ UNCHANGED <<armed, rx, transitioning, async, held, source, admitted, flags,
                         forgotten>>
    /\ UNCHANGED <<reserved, owned, savedArmed, prepared, peer, wire, mixed, token, console,
                   fg>>

\* Mainboard keyboard frames over UART0 (emos_keyboard_mainboard).
MainboardKey(k) ==
    /\ source = "mainboard"
    /\ \E down \in BOOLEAN : Publish(k, down, "mainboard")
    /\ UNCHANGED <<owners, port, source, prepared, admitted, flags, peer, stream, token,
                   console, rx, age, fg>>

\* One byte leaves UART1 (_uart1_keyboard_put): the first of a packet, or its last.
SendByte(first) ==
    /\ wire' = first
    /\ mixed' = (mixed \/ (first /\ wire /\ ~faultReq /\ ~forgotten))
    /\ UNCHANGED forgotten

\* emos_keyboard_async_irq: CTS blocked is no step; an unavailable or failing UART
\* faults; a packet not finished in 30 clock units faults at the next tick.
AsyncByte ==
    /\ async > 0 /\ owned = 1 /\ ~faulted
    /\ \/ /\ SendByte(async = 2)
          /\ async' = async - 1
          /\ transitioning' = (async # 1)
          /\ UNCHANGED <<armed, rx, age, held, faulted, preparing, textPending>>
       \/ Fault /\ UNCHANGED stream
    /\ UNCHANGED <<reserved, owned, savedArmed, source, prepared, admitted, stopReq,
                   faultReq, stale, peer, token, console, fg>>

(***************************************************************************)
(* Foreground: sending.  Every byte is put in a masked section of its own. *)
(***************************************************************************)
\* The call fg, in _emos_keyboard_transmit_block, sends fg.left bytes, then continues at fg.then.
Sending == At("tx") /\ fg.left > 0

TxByte ==
    /\ Sending /\ owned = 1 /\ ~faulted
    /\ SendByte(fg.left \in {2, 4})
    /\ fg' = [fg EXCEPT !.left = @ - 1, !.pc = IF fg.left = 1 THEN fg.then ELSE "tx"]
    /\ asked' = IF fg.left = 1 /\ fg.then \in {"selectWait", "layoutWait"} THEN token
                                                                      ELSE asked
    /\ UNCHANGED <<owners, port, keys, flags, chan, answered, token, console, rx, age>>

\* An acknowledged line error stops UART1 and asks the tick for a fault; a deadline,
\* a fault or a lost UART only ends the transmission.
TxFails ==
    /\ Sending
    /\ \/ owned = 1 /\ ~faulted /\ UartStops /\ RequestFault
       \/ UNCHANGED <<armed, faultReq, stale>>
    /\ fg' = [fg EXCEPT !.pc = CASE fg.then = "selectWait" -> "selectFail"
                                 [] fg.then \in {"layoutPoll", "layoutWait", "layoutEnd"} -> "layoutFail"
                                 [] OTHER -> "sendFail"]
    /\ UNCHANGED <<owners, owned, savedArmed, keys, faulted, preparing, textPending,
                   stopReq, peer, stream, token, console, rx, age>>

\* emos_keyboard_send: refused while a fault or stop is pending.
Send ==
    /\ At("idle")
    /\ ~transitioning /\ ~preparing /\ ~faultReq /\ ~stopReq /\ ~faulted /\ owned # 0
    /\ transitioning' = TRUE
    /\ fg' = [fg EXCEPT !.pc = "tx", !.left = 2, !.then = "sendEnd"]
    /\ UNCHANGED <<reserved, async, port, keys, flags, peer, stream, token, console, rx, age>>

\* emos_keyboard_parallel_send, for the holder of the reservation.
ParallelSend ==
    /\ At("idle")
    /\ reserved = 1 /\ owned = 1 /\ ~faultReq /\ ~stopReq /\ ~faulted
    /\ reserved' = 2
    /\ fg' = [fg EXCEPT !.pc = "tx", !.left = 2, !.then = "sendEnd"]
    /\ UNCHANGED <<transitioning, async, port, keys, flags, peer, stream, token, console,
                   rx, age>>

\* A failed send cannot be replayed: the tick will fault the stream.
SendFail ==
    /\ At("sendFail")
    /\ RequestFault /\ Goto("sendEnd")
    /\ UNCHANGED <<owners, port, keys, faulted, preparing, textPending, stopReq, peer,
                   stream, token, console, rx, age>>

SendEnd ==
    /\ At("sendEnd")
    /\ IF reserved = 2 THEN reserved' = 1 /\ UNCHANGED transitioning
                       ELSE transitioning' = FALSE /\ UNCHANGED reserved
    /\ fg' = Idle
    /\ UNCHANGED <<async, port, keys, flags, peer, stream, token, console, rx, age>>

\* emos_keyboard_queue_telemetry, admitted by emos_telemetry_gateway.
QueueTelemetry ==
    /\ "telemetry" \in Users /\ At("idle")
    /\ source = "extender"
    /\ ~transitioning /\ ~preparing /\ ~faulted /\ owned # 0
    /\ transitioning' = TRUE /\ async' = 2
    /\ UNCHANGED <<reserved, port, keys, flags, peer, stream, token, console, rx, age, fg>>

(***************************************************************************)
(* emos_keyboard_select                                                    *)
(***************************************************************************)
\* First masked section: refusals, no-op, or the transition begins.
Select(s) ==
    /\ At("idle") /\ ~transitioning
    /\ s = "mainboard" \/ source \in {"mainboard", s}
    /\ s # source \/ faulted
    /\ s # "mainboard" => token < MaxToken
    /\ transitioning' = TRUE
    /\ fg' = [fg EXCEPT !.pc = IF s = "mainboard" THEN "stopAsk" ELSE "selectOpen",
                        !.target = s, !.prev = faulted, !.was = source]
    /\ UNCHANGED <<reserved, async, port, keys, flags, peer, stream, token, console, rx, age>>

StopAsk ==
    /\ At("stopAsk")
    /\ stopReq' = TRUE /\ Goto("stopWait")
    /\ UNCHANGED <<owners, port, keys, faulted, preparing, textPending, faultReq,
                   stale, peer, stream, token, console, rx, age>>

\* The tick has stopped the receiver, or the deadline withdraws the request.
StopEnd ==
    /\ At("stopWait")
    /\ stopReq' = FALSE
    /\ IF stopReq \/ console THEN UNCHANGED <<owned, armed>> ELSE UartCloses
    /\ Goto("selectDone")
    /\ UNCHANGED <<owners, savedArmed, keys, faulted, preparing, textPending, faultReq,
                   stale, peer, stream, token, console, rx, age>>

ClearFaults == faulted' = FALSE /\ faultReq' = FALSE /\ stale' = FALSE

\* Second masked section: (re)open the receiver and send locale and poll.
SelectOpen ==
    /\ At("selectOpen")
    /\ LET reopen == owned = 0 \/ ~console \/ faulted
       IN \/ /\ IF reopen THEN UartOpens ELSE Forgets(faultReq) /\ UNCHANGED <<owned, armed, wire>>
             /\ fg' = [fg EXCEPT !.pc = "tx", !.left = 4, !.then = "selectWait"]
          \/ /\ reopen                       \* uart1_keyboard_open is refused
             /\ owned' = 0 /\ armed' = FALSE
             /\ Goto("selectFail") /\ UNCHANGED <<wire, forgotten>>
    /\ IF ~console \/ faulted THEN rx' = <<>> /\ age' = 0 ELSE UNCHANGED <<rx, age>>
    /\ ClearFaults /\ preparing' = TRUE
    /\ prepared' = fg.target /\ token' = token + 1
    /\ UNCHANGED <<owners, savedArmed, source, held, admitted, textPending, stopReq,
                   peer, mixed, console>>

SelectReplied ==
    /\ At("selectWait") /\ ~preparing /\ ~faulted
    /\ Goto("selectDone")
    /\ UNCHANGED <<owners, port, keys, flags, peer, stream, token, console, rx, age>>

\* A fault, or the deadline, ends the wait; the reply is tested again afterwards.
SelectGivesUp == At("selectWait") /\ (faulted \/ preparing)

\* Third masked section, on failure: unwind.
SelectFail ==
    /\ At("selectFail") \/ SelectGivesUp
    /\ preparing' = FALSE /\ faulted' = fg.prev
    /\ IF console THEN UNCHANGED <<owned, armed, rx, age>>
                  ELSE UartCloses /\ rx' = <<>> /\ age' = 0
    /\ Forgets(console /\ ~fg.prev /\ ~faultReq /\ (faulted \/ wire))
    /\ Goto("selectDone")
    /\ UNCHANGED <<owners, savedArmed, keys, textPending, stopReq, faultReq, stale,
                   peer, wire, mixed, token, console>>

SelectDone ==
    /\ At("selectDone")
    /\ transitioning' = FALSE
    /\ fg' = Idle
    /\ UNCHANGED <<reserved, async, port, keys, flags, peer, stream, token, console, rx, age>>

(***************************************************************************)
(* emos_keyboard_layout, with a remote source                              *)
(***************************************************************************)
Layout ==
    /\ "layout" \in Users /\ At("idle")
    /\ ~transitioning /\ source # "mainboard" /\ token < MaxToken
    /\ transitioning' = TRUE
    /\ fg' = [fg EXCEPT !.pc = "tx", !.left = 2,
                        !.then = IF source = "extender" THEN "layoutPoll" ELSE "layoutEnd"]
    /\ UNCHANGED <<reserved, async, port, keys, flags, peer, stream, token, console, rx, age>>

\* The native extender acknowledges the locale with an ordered poll.
LayoutPoll ==
    /\ At("layoutPoll")
    /\ textPending' = TRUE /\ token' = token + 1
    /\ fg' = [fg EXCEPT !.pc = "tx", !.left = 2, !.then = "layoutWait"]
    /\ UNCHANGED <<owners, port, keys, faulted, preparing, stopReq, faultReq,
                   stale, peer, stream, console, rx, age>>

LayoutWait ==
    /\ At("layoutWait")
    /\ textPending' = FALSE
    /\ Goto(IF textPending \/ faulted THEN "layoutFail" ELSE "layoutEnd")
    /\ UNCHANGED <<owners, port, keys, faulted, preparing, stopReq, faultReq,
                   stale, peer, stream, token, console, rx, age>>

LayoutFail ==
    /\ At("layoutFail")
    /\ textPending' = FALSE
    /\ RequestFault /\ Goto("layoutEnd")
    /\ UNCHANGED <<owners, port, keys, faulted, preparing, stopReq, peer, stream, token,
                   console, rx, age>>

LayoutEnd ==
    /\ At("layoutEnd")
    /\ transitioning' = FALSE
    /\ fg' = Idle
    /\ UNCHANGED <<reserved, async, port, keys, flags, peer, stream, token, console, rx, age>>

(***************************************************************************)
(* The console's lease on the transport                                    *)
(***************************************************************************)
\* emos_keyboard_transport_claim, then emos_console_owned is set.
ConsoleClaim ==
    /\ "console" \in Users /\ At("idle") /\ ~console
    /\ ~transitioning /\ ~preparing /\ ~faulted
    /\ IF owned = 0 THEN UartOpens /\ rx' = <<>> /\ age' = 0 /\ stale' = faultReq
                    ELSE UNCHANGED <<owned, armed, wire, forgotten, stale, rx, age>>
    /\ console' = TRUE
    /\ UNCHANGED <<owners, savedArmed, keys, faulted, preparing, textPending, stopReq,
                   faultReq, peer, mixed, token, fg>>

\* emos_console_owned is cleared, then emos_keyboard_transport_release.
ConsoleRelease ==
    /\ At("idle") /\ console
    /\ console' = FALSE
    /\ IF reserved = 0 /\ source = "mainboard"
       THEN UartCloses /\ rx' = <<>> /\ age' = 0
       ELSE UNCHANGED <<owned, armed, rx, age>>
    /\ UNCHANGED <<owners, savedArmed, keys, flags, peer, stream, token, fg>>

(***************************************************************************)
(* The parallel coordinator's reservation                                  *)
(***************************************************************************)
\* emos_keyboard_parallel_reserve; the Port C guard may refuse, which changes nothing.
ParallelReserve ==
    /\ "parallel" \in Users /\ At("idle")
    /\ ~transitioning /\ ~preparing /\ ~faultReq /\ ~stopReq /\ ~faulted
    /\ rx = <<>> /\ owned = 1
    /\ reserved' = 1 /\ transitioning' = TRUE
    /\ UNCHANGED <<async, port, keys, flags, peer, stream, token, console, rx, age, fg>>

\* emos_keyboard_parallel_park: parked, or an acknowledged error stops the receiver.
ParallelPark ==
    /\ At("idle") /\ reserved = 1 /\ owned = 1
    /\ ~faultReq /\ ~stopReq /\ ~faulted /\ rx = <<>>
    /\ \/ /\ owned' = 2 /\ savedArmed' = armed /\ armed' = FALSE
          /\ UNCHANGED <<faultReq, stale>>
       \/ UartStops /\ RequestFault /\ UNCHANGED <<owned, savedArmed>>
    /\ UNCHANGED <<owners, keys, faulted, preparing, textPending, stopReq, peer, stream,
                   token, console, rx, age, fg>>

ParallelUnpark ==
    /\ At("idle") /\ reserved = 1 /\ owned = 2
    /\ owned' = 1 /\ armed' = savedArmed
    /\ UNCHANGED <<owners, savedArmed, keys, flags, peer, stream, token, console, rx,
                   age, fg>>

ParallelRelease ==
    /\ At("idle") /\ reserved = 1 /\ owned = 1
    /\ reserved' = 0 /\ transitioning' = FALSE
    /\ UNCHANGED <<async, port, keys, flags, peer, stream, token, console, rx, age, fg>>

(***************************************************************************)
(* The peer                                                                *)
(***************************************************************************)
\* It answers polls in order and queues key frames after the last answer.
PeerFrame(f) ==
    /\ Len(chan) < MaxFrames
    /\ chan' = Append(chan, f)
    /\ UNCHANGED <<owners, port, keys, flags, asked, stream, token, console, rx, age, fg>>

PeerReply == /\ answered < asked /\ answered' = asked
             /\ PeerFrame([kind |-> "reply", token |-> asked])
PeerKey(k) == /\ \E down \in BOOLEAN :
                    PeerFrame([kind |-> "key", key |-> k, down |-> down, after |-> answered])
              /\ UNCHANGED answered
PeerBad == /\ \E kind \in {"badKey", "badLength", "other"} : PeerFrame([kind |-> kind])
           /\ UNCHANGED answered

(***************************************************************************)
(* The specification                                                       *)
(***************************************************************************)
Interrupt == RxHeader \/ RxFrame \/ RxLineError \/ Tick \/ AsyncByte
SelectStep == StopAsk \/ StopEnd \/ SelectOpen \/ SelectReplied \/ SelectFail
              \/ SelectDone
SendStep == TxByte \/ TxFails \/ SendFail \/ SendEnd
LayoutStep == LayoutPoll \/ LayoutWait \/ LayoutFail \/ LayoutEnd
Call == \/ Send \/ ParallelSend \/ QueueTelemetry \/ Layout
        \/ \E s \in Remotes \cup {"mainboard"} : Select(s)
        \/ ConsoleClaim \/ ConsoleRelease
        \/ ParallelReserve \/ ParallelPark \/ ParallelUnpark \/ ParallelRelease
Environment == PeerReply \/ PeerBad \/ \E k \in Keys : PeerKey(k) \/ MainboardKey(k)

Next == Interrupt \/ SelectStep \/ SendStep \/ LayoutStep \/ Call \/ Environment

Spec == Init /\ [][Next]_vars

\* The foreground runs between interrupts and every wait is bounded by a deadline;
\* VBlank keeps ticking.
FairSpec == Spec /\ WF_vars(SelectStep \/ SendStep \/ LayoutStep) /\ WF_vars(Tick)

(***************************************************************************)
(* Properties                                                              *)
(***************************************************************************)
Sources == Remotes \cup {"mainboard"}
Frames == [kind : {"reply"}, token : 0 .. MaxToken]
          \cup [kind : {"key"}, key : Keys, down : BOOLEAN, after : 0 .. MaxToken]
          \cup [kind : {"badKey", "badLength", "other"}]
Steps == {"idle", "tx", "sendFail", "sendEnd", "stopAsk", "stopWait", "selectOpen",
          "selectWait", "selectFail", "selectDone", "layoutPoll", "layoutWait",
          "layoutFail", "layoutEnd"}

\* Type invariant.
TypeOK ==
    /\ source \in Sources /\ prepared \in Sources
    /\ held \subseteq [key : Keys, from : Sources] /\ admitted \in 0 .. MaxToken
    /\ {faulted, transitioning, preparing, textPending, stopReq, faultReq, armed,
        savedArmed, console, wire, mixed, forgotten, stale} \subseteq BOOLEAN
    /\ reserved \in 0 .. 2 /\ owned \in 0 .. 2 /\ async \in 0 .. 2
    /\ {token, answered, asked} \subseteq 0 .. MaxToken /\ age \in 0 .. AgeLimit
    /\ Len(rx) <= 1 /\ Len(chan) <= MaxFrames
    /\ \A i \in 1 .. Len(rx) : rx[i] \in Frames
    /\ \A i \in 1 .. Len(chan) : chan[i] \in Frames
    /\ fg.pc \in Steps /\ fg.then \in Steps /\ fg.left \in 0 .. 4

\* The serializer has exactly one holder: a foreground call, the telemetry packet or
\* the parallel reservation.  An interrupt that aborts telemetry must not free the
\* serializer under one of the others (emos_keyboard.c:31-35).
SerializerHasOneHolder ==
    LET calls == IF fg.pc # "idle" /\ reserved # 2 THEN 1 ELSE 0
        queued == IF async > 0 THEN 1 ELSE 0
        reserves == IF reserved > 0 THEN 1 ELSE 0
    IN calls + queued + reserves = IF transitioning THEN 1 ELSE 0

\* While the pins are lent to the parallel engine the reservation stands, no packet is
\* half sent or half received, and UART1 cannot interrupt.
ParkedPortIsQuiet ==
    owned = 2 => reserved = 1 /\ fg.pc = "idle" /\ ~armed /\ rx = <<>> /\ async = 0

\* The serializer and the pins, whichever clients of UART1 meet (emos_keyboard.c, uart.c).
SerializerIsSafe == TypeOK /\ SerializerHasOneHolder /\ ParkedPortIsQuiet

\* A key is only ever held through the selected source: a switch, a fault and a stop
\* release what the previous source pressed, or it would stay down for ever.
HeldKeysBelongToTheSource ==
    /\ \A h \in held : h.from = source
    /\ faulted /\ source # "mainboard" => held = {}

\* A key of the remote source is published only if the peer queued it after the
\* reply that admitted the source: nothing left from an earlier selection gets in.
KeysFollowTheirAdmission ==
    [][\A h \in held' \ held : h.from # "mainboard" => rx[1].after >= admitted]_vars

\* Packets on UART1 do not interleave: none begins before the last byte of another
\* that was begun since UART1 was opened.  A layout and the telemetry slot do not look at
\* a request to fault the stream, and the console's UART1 outlives a forgotten failure:
\* these are the only ways.
PacketsAreWhole == ~mixed

\* A receiver that is stopped says so: when no call is in progress and nothing is
\* pending, an owned UART1 that is not reported faulted can receive, unless the console
\* kept it open over a failure that a select or a stop then withdrew.
HealthyReceiverIsArmed ==
    owned = 1 /\ ~faulted /\ ~faultReq /\ ~transitioning /\ ~forgotten => armed

\* Neither end is left with a part of a packet, or deaf without a report (emos_keyboard.c).
StreamIsSound == PacketsAreWhole /\ HealthyReceiverIsArmed

\* A request to fault the stream concerns the opening of UART1 it was raised in.  The
\* console opens UART1 with a request standing, and that one strikes the new session; but
\* no older request ever strikes a send, a select that has opened UART1, or the parallel
\* engine (emos_keyboard.c:281-294).
FaultsAreCurrent ==
    [][Tick /\ faultReq /\ faulted' /\ ~faulted /\ stale =>
         /\ reserved = 0
         /\ At("tx") => fg.then \in {"layoutPoll", "layoutWait", "layoutEnd"}
         /\ fg.pc \notin {"sendFail", "sendEnd", "selectWait", "selectFail"}]_vars

\* A select that reports failure leaves the source that was selected before it.
FailedSelectKeepsTheSource == [][SelectFail => source' = fg.was]_vars

\* Every foreground call returns: no wait is longer than its deadline.
CallsReturn == ~At("idle") ~> At("idle")

\* A request to fault an open UART1 is served by a tick, unless UART1 is closed first.
FaultsAreServed == faultReq /\ owned = 1 ~> faulted \/ ~faultReq \/ owned = 0

\* Nothing waits for ever: no foreground call, and no fault for its tick (emos_keyboard.c).
AllIsServed == CallsReturn /\ FaultsAreServed
============================================================================

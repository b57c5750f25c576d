--------------------------- MODULE PortCHandover ---------------------------
(* The physical hand-over of Port C between UART1 and the parallel engine:   *)
(* the boot fence and connection (src/emos_parallel_startup.c, _boot.c), the *)
(* phase machine (_handover.c), the coordinator of one block                 *)
(* (_coordinator.c) and the native byte runner (_native.c).                  *)
(*                                                                           *)
(* EMOS signals with two lines, CLOCK and VALID, the P4 peer with one, READY;*)
(* each side polls the levels of the other at its own pace.  One pass of a   *)
(* polling loop reads READY once and is one step.  The VBlank tick may run   *)
(* between any two steps.  Either processor may be reset at any time.        *)
EXTENDS Naturals

CONSTANT Directions          \* of a block: "forward" (EMOS sends), "reverse"

VARIABLES
    h,          \* parallel_boot_state: phase, validN, clockHigh, failed
    grant,      \* parallel_boot_grant: 0, 1 (restoring), 2 (UART1 is live)
    block,      \* parallel_boot_block
    wire,       \* the CLOCK and VALID levels on Port D
    fencing,    \* emos_parallel_boot_start has fenced but not asked for recovery yet
    pads,       \* EMOS's side of Port C: "input", "uart" or "drive"
    owned,      \* uart1_keyboard_owned: 0, 1 or 2 (PARKED)
    reserved,   \* parallel_reserved
    faulted,    \* emos_key_faulted
    fg,         \* where the foreground stands
    dir,        \* direction of the current block
    peer,       \* the P4's phase
    ready,      \* READY is high
    peerPads,   \* the P4's side of Port C
    clean,      \* history: the P4 has been armed during the whole block
    troubled,   \* history: a fault, a deadline or a reset since the attempt began
    spoiled     \* history: a block has failed since EMOS started

emos == <<h, grant, block, fencing, owned, reserved, faulted, fg, dir>>
p4 == <<peer, ready, peerPads>>
history == <<clean, troubled, spoiled>>
vars == <<emos, wire, pads, p4, history>>

Level(c, v) == [c |-> c, v |-> v]
\* emos_parallel_handover_init
Released == [phase |-> "RETURN_RELEASE", v |-> 1, c |-> 0, failed |-> TRUE]

Init ==
    /\ h = Released /\ grant = 0 /\ block = FALSE /\ fencing = FALSE
    /\ wire = Level(0, 1) /\ pads = "input"
    /\ owned = 0 /\ reserved = FALSE /\ faulted = FALSE
    /\ fg = "reset" /\ dir \in Directions
    /\ peer = "booting" /\ ready = FALSE /\ peerPads = "input"
    /\ clean = FALSE /\ troubled = FALSE /\ spoiled = FALSE

(***************************************************************************)
(* emos_parallel_handover_step as a table: what each phase waits for, and  *)
(* the phase and the CLOCK and VALID levels that follow.  UART is left by  *)
(* emos_parallel_handover_begin only: neither loop steps it.               *)
(***************************************************************************)
Row(need, next, c, v) == [need |-> need, next |-> next, c |-> c, v |-> v]
Table == [
    DRAIN          |-> Row("QUIET",    "ENTRY_RELEASE",  0, 1),
    ENTRY_RELEASE  |-> Row("RELEASED", "ENTRY_ACK",      0, 0),
    ENTRY_ACK      |-> Row("LOW",      "ENTRY_CLEAR",    0, 1),
    ENTRY_CLEAR    |-> Row("HIGH",     "ENTRY_ARM",      1, 1),
    ENTRY_ARM      |-> Row("LOW",      "LOCAL_ARM",      1, 1),
    LOCAL_ARM      |-> Row("ARMED",    "BLOCK",          1, 1),
    BLOCK          |-> Row("DONE",     "BLOCK_RELEASE",  1, 1),
    BLOCK_RELEASE  |-> Row("RELEASED", "RETURN_ACK",     0, 1),
    RETURN_RELEASE |-> Row("RELEASED", "RETURN_ACK",     0, 1),
    RETURN_ACK     |-> Row("HIGH",     "RETURN_REQUEST", 0, 0),
    RETURN_REQUEST |-> Row("LOW",      "RETURN_UART",    0, 0),
    RETURN_UART    |-> Row("UART_UP",  "RETURN_PEER",    0, 1),
    RETURN_PEER    |-> Row("HIGH",     "UART",           0, 1)]

\* One step with the completed actions done; the caller then writes the levels.
HandoverStep(done) ==
    /\ h.phase \in DOMAIN Table
    /\ LET r == Table[h.phase]
       IN /\ r.need \in done \cup {IF ready THEN "HIGH" ELSE "LOW"}
          /\ h' = [h EXCEPT !.phase = r.next, !.c = r.c, !.v = r.v]
          /\ wire' = Level(r.c, r.v)

\* emos_parallel_boot_fence: pads released before any level is published.
BootFence == /\ h' = Released
             /\ wire' = Level(0, 1)
             /\ pads' = "input"
\* emos_parallel_boot_start, whose last write requests the P4's recovery.
BootStart == BootFence /\ grant' = 0 /\ block' = FALSE /\ fencing' = TRUE

\* A seeded fault: the grant is not withdrawn with READY.
LossIgnored == IF block THEN h.phase = "RETURN_UART" ELSE grant # 0
\* emos_parallel_boot_uart_allowed; it latches a loss of READY that it sees.
Allowed == IF block THEN h.phase = "RETURN_UART" ELSE grant = 1 \/ (grant = 2 /\ ready)
SeenLoss == grant' = IF ~block /\ grant = 2 /\ ~ready THEN 0 ELSE grant

(***************************************************************************)
(* Seeded faults: what each property would catch                           *)
(***************************************************************************)
\* The boot start leaves the lines at rest instead of asking for a recovery.
NoRequest == fencing /\ fencing' = FALSE
             /\ UNCHANGED <<h, grant, block, wire, pads, owned, reserved, faulted, fg, dir, p4,
                            history>>
\* done is not cleared between two passes: READY was high once.
DoneKept ==
    /\ fg = "co" /\ ~faulted
    /\ h.phase \notin {"DRAIN", "BLOCK", "RETURN_UART", "RETURN_PEER"}
    /\ HandoverStep({"ARMED", "RELEASED", "HIGH"})
    /\ UNCHANGED <<grant, block, fencing, pads, owned, reserved, faulted, fg, dir, p4,
                   history>>

(***************************************************************************)
(* The rest of the boot start and the connection (startup, foreground)     *)
(***************************************************************************)
\* The request: CLOCK high, VALID low, no data driven.
RequestRecovery ==
    /\ fencing
    /\ fencing' = FALSE /\ wire' = Level(1, 0)
    /\ UNCHANGED <<h, grant, block, pads, owned, reserved, faulted, fg, dir, p4, history>>

\* init_UART1 at reset
Start ==
    /\ fg = "reset" /\ BootStart /\ fg' = "c_high"
    /\ UNCHANGED <<owned, reserved, faulted, dir, p4, history>>

\* emos_parallel_boot_connect, first pass: READY high, old or new, is answered C1/V1.
ConnectHigh ==
    /\ fg = "c_high" /\ ~fencing
    /\ ready
    /\ wire' = Level(1, 1) /\ fg' = "c_low"
    /\ UNCHANGED <<h, grant, block, fencing, pads, owned, reserved, faulted, dir, p4, history>>

\* READY low acknowledges the prefix: release, and begin the return sequence.
ConnectLow ==
    /\ fg = "c_low" /\ ~ready
    /\ BootFence /\ fg' = "c_poll"
    /\ UNCHANGED <<grant, block, fencing, owned, reserved, faulted, dir, p4, history>>

\* emos_parallel_boot_poll
ConnectPoll ==
    /\ fg = "c_poll" /\ ~fencing
    /\ h.phase \in {"RETURN_RELEASE", "RETURN_ACK"}
    /\ HandoverStep({"RELEASED"})
    /\ UNCHANGED <<grant, block, fencing, pads, owned, reserved, faulted, fg, dir, p4,
                   history>>

\* The P4 has released: the one authorised restore, through the transport claim.
ConnectRestore ==
    /\ fg = "c_poll" /\ ~fencing /\ h.phase = "RETURN_REQUEST"
    /\ HandoverStep({})
    /\ grant' = 1
    /\ \/ ~faulted /\ owned' = 1 /\ pads' = "uart" /\ fg' = "c_poll"
       \/ fg' = "c_fail" /\ UNCHANGED <<owned, pads>>       \* the claim is refused
    /\ troubled' = (troubled \/ fg' = "c_fail")
    /\ UNCHANGED <<block, fencing, reserved, faulted, dir, p4, clean, spoiled>>

ConnectRestored ==
    /\ fg = "c_poll" /\ ~fencing /\ h.phase = "RETURN_UART"
    /\ HandoverStep({"UART_UP"})
    /\ UNCHANGED <<grant, block, fencing, pads, owned, reserved, faulted, fg, dir, p4,
                   history>>

ConnectLive ==
    /\ fg = "c_poll" /\ ~fencing /\ h.phase = "RETURN_PEER"
    /\ HandoverStep({})
    /\ grant' = 2 /\ fg' = "c_live"
    /\ UNCHANGED <<block, fencing, pads, owned, reserved, faulted, dir, p4, history>>

\* emos_keyboard_transport_release: startup keeps no keyboard source.
ReleaseTransport == /\ owned' = 0
                    /\ pads' = IF owned = 1 THEN "input" ELSE pads

ConnectDone ==
    /\ fg = "c_live" /\ ~fencing
    /\ ReleaseTransport /\ fg' = "idle"
    /\ UNCHANGED <<h, grant, block, fencing, wire, reserved, faulted, dir, p4, history>>

\* The deadline of the connection: the grant is withdrawn, then the fence raised.
ConnectDeadline ==
    /\ fg \in {"c_high", "c_low", "c_poll"} /\ ~fencing
    /\ fg' = "c_fail" /\ grant' = 0 /\ troubled' = TRUE
    /\ UNCHANGED <<h, block, fencing, wire, pads, owned, reserved, faulted, dir, p4,
                   clean, spoiled>>

ConnectFail ==
    /\ fg = "c_fail" /\ ~fencing
    /\ grant' = 0 /\ owned' = 0 /\ BootFence /\ fg' = "idle"
    /\ UNCHANGED <<block, fencing, reserved, faulted, dir, p4, history>>

(***************************************************************************)
(* UART1 in ordinary use                                                   *)
(***************************************************************************)
\* uart1_keyboard_open through open_UART1, for the keyboard source or the console.
UartOpen ==
    /\ fg = "idle" /\ ~fencing /\ owned = 0 /\ ~reserved /\ ~faulted
    /\ SeenLoss
    /\ IF Allowed THEN owned' = 1 /\ pads' = "uart" ELSE UNCHANGED <<owned, pads>>
    /\ UNCHANGED <<h, block, fencing, wire, reserved, faulted, fg, dir, p4, history>>

\* Closed by its last user, or to recover from a fault (emos_keyboard_select).
UartClose ==
    /\ fg = "idle" /\ ~fencing /\ ~reserved /\ (owned = 1 \/ faulted)
    /\ ReleaseTransport /\ faulted' = FALSE
    /\ UNCHANGED <<h, grant, block, fencing, wire, reserved, fg, dir, p4, history>>

\* A line error seen by the receive interrupt.
LineFault ==
    /\ owned = 1 /\ ~faulted
    /\ faulted' = TRUE /\ troubled' = TRUE
    /\ UNCHANGED <<h, grant, block, fencing, wire, pads, owned, reserved, fg, dir, p4,
                   clean, spoiled>>

\* emos_parallel_boot_tick: READY was lost outside a block.
BootTick ==
    /\ ~fencing /\ fg # "reset" /\ owned = 1 /\ ~block /\ ~Allowed
    /\ faulted' = TRUE /\ owned' = 0 /\ BootStart /\ troubled' = TRUE
    /\ UNCHANGED <<reserved, fg, dir, p4, clean, spoiled>>

(***************************************************************************)
(* One block: reserve, offer, coordinate                                   *)
(***************************************************************************)
\* emos_parallel_probe, transfer (emos_exext.c): the UART boundary is reserved.
Reserve ==
    /\ fg = "idle" /\ ~fencing /\ h.phase = "UART" /\ Allowed
    /\ owned = 1 /\ ~faulted /\ ~reserved
    /\ reserved' = TRUE /\ fg' = "offer" /\ dir' \in Directions
    /\ troubled' = FALSE /\ clean' = FALSE
    /\ UNCHANGED <<h, grant, block, fencing, wire, pads, owned, faulted, p4, spoiled>>

\* An exact acknowledgement: emos_parallel_handover_begin.
OfferAdmitted ==
    /\ fg = "offer" /\ ~fencing
    /\ h.phase = "UART" /\ owned = 1 /\ ~faulted
    /\ h' = [h EXCEPT !.phase = "DRAIN", !.failed = FALSE] /\ fg' = "begin"
    /\ UNCHANGED <<grant, block, fencing, wire, pads, owned, reserved, faulted, dir, p4,
                   history>>

\* The session is cancelled and the failed block fenced: emos_parallel_boot_block_end.
BlockFails ==
    /\ BootStart /\ fg' = "idle" /\ spoiled' = TRUE
    /\ UNCHANGED <<owned, reserved, faulted, dir, p4, clean>>

OfferFails ==
    /\ fg = "offer" /\ ~fencing
    /\ BlockFails /\ troubled' = TRUE

\* Admission by emos_parallel_native_coordinate and emos_parallel_boot_block_begin.
Admissible == /\ reserved /\ owned = 1 /\ ~faulted
              /\ h.phase = "DRAIN" /\ ~h.failed /\ grant = 2 /\ ~block

CoordinateBegin ==
    /\ fg = "begin" /\ ~fencing /\ Admissible
    /\ block' = TRUE /\ fg' = "co"
    /\ UNCHANGED <<h, grant, fencing, wire, pads, owned, reserved, faulted, dir, p4, history>>

CoordinateRefused ==
    /\ fg = "begin" /\ ~fencing /\ ~Admissible
    /\ BlockFails /\ UNCHANGED troubled

\* uart1_keyboard_park: transmitter and receiver are empty.
Park == h.phase = "DRAIN" /\ HandoverStep({"QUIET"}) /\ owned' = 2 /\ pads' = "input"

CoPark ==
    /\ fg = "co" /\ ~faulted /\ owned = 1
    /\ Park
    /\ UNCHANGED <<grant, block, fencing, reserved, faulted, fg, dir, p4, history>>

CoStep ==
    /\ fg = "co" /\ ~faulted
    /\ h.phase \notin {"DRAIN", "BLOCK", "RETURN_UART", "RETURN_PEER"}
    /\ HandoverStep({"ARMED"} \cup (IF owned = 2 /\ pads = "input" THEN {"RELEASED"} ELSE {}))
    /\ UNCHANGED <<grant, block, fencing, pads, owned, reserved, faulted, fg, dir, p4,
                   history>>

\* emos_parallel_native_payload admits the run: READY is still low.  Sending
\* drives all eight lanes; both directions assert VALID.
RunStart ==
    /\ fg = "co" /\ ~faulted /\ h.phase = "BLOCK"
    /\ owned = 2 /\ pads = "input" /\ ~h.failed /\ ~ready
    /\ pads' = IF dir = "forward" THEN "drive" ELSE "input"
    /\ wire' = Level(1, 0) /\ fg' = "run"
    /\ clean' = (peer = "block")
    /\ UNCHANGED <<h, grant, block, fencing, owned, reserved, faulted, dir, p4, troubled,
                   spoiled>>

\* The last byte: lanes and VALID are released, CLOCK stays high.
RunEnd ==
    /\ fg = "run"
    /\ pads' = "input" /\ HandoverStep({"DONE"}) /\ fg' = "co"
    /\ clean' = (clean /\ peer = "block")
    /\ UNCHANGED <<grant, block, fencing, owned, reserved, faulted, dir, p4, troubled,
                   spoiled>>

\* READY is checked before each byte; high, it ends the run with 0xE5.
RunReadyHigh == h' = [h EXCEPT !.failed = TRUE] /\ fg' = "failed"
RunFault ==
    /\ fg = "run" /\ ready
    /\ pads' = "input" /\ wire' = Level(1, 1)
    /\ RunReadyHigh
    /\ troubled' = TRUE
    /\ UNCHANGED <<grant, block, fencing, owned, reserved, faulted, dir, p4, clean, spoiled>>

\* emos_keyboard_parallel_unpark, allowed in this phase only.
CoUnpark ==
    /\ fg = "co" /\ ~faulted /\ h.phase = "RETURN_UART" /\ Allowed /\ owned = 2
    /\ owned' = 1 /\ pads' = "uart"
    /\ HandoverStep({"UART_UP"})
    /\ UNCHANGED <<grant, block, fencing, reserved, faulted, fg, dir, p4, history>>

\* LIVE: emos_parallel_boot_block_end(1) ends the block.
CoLive ==
    /\ fg = "co" /\ ~faulted /\ h.phase = "RETURN_PEER" /\ owned = 1
    /\ HandoverStep({})
    /\ block' = FALSE /\ fg' = "release"
    /\ UNCHANGED <<grant, fencing, pads, owned, reserved, faulted, dir, p4, history>>

\* emos_keyboard_parallel_release, then success; a late loss of READY refuses it.
Succeeds ==
    /\ fg = "release" /\ ~fencing /\ reserved /\ owned = 1
    /\ reserved' = FALSE /\ fg' = "idle"
    /\ UNCHANGED <<h, grant, block, fencing, wire, pads, owned, faulted, dir, p4, history>>

\* A deadline, a fault, a refused leaf or a refused release: the session is
\* cancelled, the block ends in the physical fence, and only a reset recovers.
CoFails ==
    /\ \/ fg \in {"co", "failed"}
       \/ fg = "release" /\ ~fencing /\ owned # 1
    /\ BlockFails
    /\ troubled' = TRUE

(***************************************************************************)
(* Resets                                                                  *)
(***************************************************************************)
\* The mainboard alone: its pads become inputs, the lines rest at C0/V1.
EmosReset ==
    /\ fg # "reset"
    /\ BootFence /\ grant' = 0 /\ block' = FALSE /\ fencing' = FALSE
    /\ owned' = 0 /\ reserved' = FALSE /\ faulted' = FALSE
    /\ fg' = "reset" /\ dir' \in Directions
    /\ clean' = FALSE /\ troubled' = FALSE /\ spoiled' = FALSE
    /\ UNCHANGED p4

(***************************************************************************)
(* The P4 peer, as the levels that EMOS waits for require it to behave.  A *)
(* recovery of the P4 (after its reset, or after it gave up a block) lasts *)
(* longer than EMOS takes from READY low in ENTRY_ARM to CLOCK low: it     *)
(* waits for nothing there but a block of at most 4096 bytes.              *)
(***************************************************************************)
PeerTo(p, r, q) == peer' = p /\ ready' = r /\ peerPads' = q /\ UNCHANGED <<emos, wire, pads>>

PeerReset ==
    /\ PeerTo("booting", FALSE, "input") /\ troubled' = TRUE
    /\ UNCHANGED <<clean, spoiled>>

PeerRecovers ==
    /\ peer \in {"booting", "aborted"} /\ h.phase \notin {"ENTRY_ARM", "LOCAL_ARM", "BLOCK", "BLOCK_RELEASE"}
    /\ PeerTo("fenced", ready, "input")
    /\ UNCHANGED history

\* Fenced, it acknowledges C1/V0 with READY high and then C1/V1 with READY low.
PeerPrefix ==
    /\ peer \in {"fenced", "recovered"} /\ wire.c = 1
    /\ IF wire.v = 0 THEN PeerTo("fenced", TRUE, "input") ELSE PeerTo("recovered", FALSE, "input")
    /\ UNCHANGED history

\* CLOCK high anywhere but in an armed block asks for its recovery.
PeerFences ==
    /\ peer \in {"returned", "request", "live", "entry"} \/ (peer = "clear" /\ wire.v = 0)
    /\ wire.c = 1
    /\ PeerTo("fenced", ready, "input")
    /\ UNCHANGED history

\* From the acknowledged prefix, or from a block: released.
PeerReleased ==
    /\ peer \in {"recovered", "block"} /\ wire = Level(0, 1)
    /\ PeerTo("returned", TRUE, "input")
    /\ UNCHANGED history

PeerFollows ==
    /\ \/ peer = "returned" /\ wire = Level(0, 0) /\ PeerTo("request", FALSE, "input")
       \/ peer = "request" /\ wire = Level(0, 1) /\ PeerTo("live", TRUE, "uart")
       \/ peer = "live" /\ wire = Level(0, 0) /\ PeerTo("entry", FALSE, "input")
       \/ peer = "entry" /\ wire = Level(0, 1) /\ PeerTo("clear", TRUE, "input")
       \/ /\ peer = "clear" /\ wire = Level(1, 1)
          /\ PeerTo("block", FALSE, IF dir = "reverse" THEN "drive" ELSE "input")
    /\ UNCHANGED history

\* It gives the block up and withdraws READY.
PeerAborts ==
    /\ peer = "block"
    /\ PeerTo("aborted", TRUE, "input") /\ troubled' = TRUE
    /\ UNCHANGED <<clean, spoiled>>

\* It gives up a block whose clocks have stopped, because EMOS has abandoned it.
PeerGivesUp ==
    /\ peer = "block" /\ fg \notin {"co", "run"} /\ wire.c = 1
    /\ PeerTo("aborted", TRUE, "input")
    /\ UNCHANGED history

(***************************************************************************)
(* The specification                                                       *)
(***************************************************************************)
Connect == ConnectHigh \/ ConnectLow \/ ConnectPoll \/ ConnectRestore \/ ConnectRestored
           \/ ConnectLive \/ ConnectDone \/ ConnectFail
Coordinate == OfferAdmitted \/ CoordinateBegin \/ CoordinateRefused \/ CoPark \/ CoStep
              \/ RunStart \/ RunEnd \/ RunFault \/ CoUnpark \/ CoLive \/ Succeeds
Peer == PeerRecovers \/ PeerPrefix \/ PeerFences \/ PeerReleased \/ PeerFollows \/ PeerGivesUp

Next == \/ RequestRecovery \/ Start \/ Connect \/ ConnectDeadline
        \/ UartOpen \/ UartClose \/ LineFault \/ BootTick
        \/ Reserve \/ OfferFails \/ Coordinate \/ CoFails
        \/ EmosReset \/ Peer \/ PeerReset \/ PeerAborts

Spec == Init /\ [][Next]_vars

\* Both processors keep polling; nothing makes a deadline expire.
FairSpec == /\ Spec
            /\ WF_vars(Start) /\ WF_vars(RequestRecovery)
            /\ WF_vars(Connect) /\ WF_vars(Coordinate) /\ WF_vars(Peer)

(***************************************************************************)
(* Properties                                                              *)
(***************************************************************************)
\* Type invariant.
TypeOK ==
    /\ h.phase \in DOMAIN Table \cup {"UART"} /\ h.failed \in BOOLEAN
    /\ {h.c, h.v, wire.c, wire.v} \subseteq {0, 1}
    /\ grant \in 0 .. 2 /\ owned \in 0 .. 2
    /\ {block, fencing, reserved, faulted, ready, clean, troubled, spoiled} \subseteq BOOLEAN
    /\ pads \in {"input", "uart", "drive"} /\ peerPads \in {"input", "uart", "drive"}
    /\ fg \in {"reset", "c_high", "c_low", "c_poll", "c_live", "c_fail", "idle", "offer",
               "begin", "co", "run", "failed", "release"}
    /\ peer \in {"booting", "fenced", "recovered", "returned", "request", "live", "entry",
                 "clear", "block", "aborted"}

\* The two processors never drive a lane of Port C against each other: a side that
\* drives all lanes meets inputs only, whenever either of them is reset.
PadsNeverFight ==
    /\ pads = "drive" => peerPads = "input"
    /\ peerPads = "drive" => pads = "input"

\* UART1 is granted only to a P4 that has restored its own side: an old READY-high,
\* from before a reset of the mainboard, is never taken for it (startup.c:24-30).
GrantMeetsALivePeer == [][grant' = 2 /\ grant # 2 => peer = "live"]_vars

\* In ordinary use UART1 is only opened towards a live P4; a loss of READY that was
\* followed by a recovery is not taken for one (startup.c:33-34).
OpensToALivePeer ==
    [][pads' = "uart" /\ pads # "uart" /\ fg = "idle" => peer = "live"]_vars

\* A block reported as transferred was transferred: the P4 was armed from the first
\* clock to the last, although nothing confirms it afterwards (coordinator.c:72-74).
SuccessMeansDelivered == [][Succeeds => clean]_vars

\* After a failed block EMOS keeps its pads off Port C until it is reset.
FailureStaysFenced == spoiled => pads = "input"

\* The three together: no reset, deadline or level seen late puts two drivers on a
\* lane, and a failed block keeps EMOS off the port (startup.c, coordinator.c).
HandoverIsSafe == TypeOK /\ PadsNeverFight /\ FailureStaysFenced

\* ... and what EMOS concludes from the levels is true of the P4: the grant, the
\* opening of UART1 and the success of a block.
HandoverIsTruthful ==
    []HandoverIsSafe /\ GrantMeetsALivePeer /\ OpensToALivePeer /\ SuccessMeansDelivered

\* Without a fault, a deadline or a reset, the hand-over never waits for ever: an
\* admitted block succeeds.
BlocksComplete ==
    (fg = "begin" /\ ~troubled) ~> ((fg = "idle" /\ ~spoiled) \/ troubled \/ fg = "reset")

\* ... and a connection reaches the grant.
ConnectionsComplete ==
    (fg = "c_high" /\ ~troubled) ~> (grant = 2 \/ troubled \/ fg = "reset")

\* Neither side waits for a level that the other will not give (handover.c, startup.c).
HandoversComplete == BlocksComplete /\ ConnectionsComplete
============================================================================

---------------------------- MODULE ExExtStream ----------------------------
(* The ordinary ExExt stream (src/emos_exext.c): display bytes to the peer   *)
(* and returned packets from it, in blocks that the foreground and the       *)
(* VBlank tick start, over the private controls of src/emos_console.c.       *)
(*                                                                           *)
(* One job at a time owns the stream (emos_exext_busy): a write, a start or  *)
(* a stop of the foreground, or the service of a tick.  The service runs     *)
(* inside the tick with interrupts enabled: the foreground stands still, but *)
(* nested ticks publish returned packets.  Bytes are numbers in either       *)
(* direction.  One exchange is a request, the answer of the peer and the two *)
(* halves of the arrival of that answer; a block is one step (PortCHandover  *)
(* has its wires), and so is a negotiation (its two rounds are one exchange).*)
EXTENDS Integers, Sequences, FiniteSetsExt

CONSTANTS
    OutCap,        \* sizeof(outgoing)
    Fetch,         \* the most bytes of a return block; incoming holds twice as many
    MaxBlock,      \* the last block number: 0xFFFF in the code
    MaxOut,        \* bound: display bytes written to one stream
    Return         \* what the peer has to return: len of a packet at its header, 0 in its body

ASSUME BoundsAssumption ==
    /\ {OutCap, Fetch, MaxBlock} \subseteq Nat \ {0} /\ MaxOut \in Nat
    /\ Return \in Seq([len : Nat, key : BOOLEAN])
    /\ \A i \in 1 .. Len(Return) : i + Return[i].len - 1 <= Len(Return)

\* Framed packets, one behind the other, and none longer than a return block and a byte:
\* "a framed VDP packet (up to257 bytes)".
ASSUME PacketsAssumption ==
    /\ Return = <<>> \/ Return[1].len > 0
    /\ \A i \in 1 .. Len(Return) : Return[i].len > 0 =>
         /\ Return[i].len <= Fetch + 1
         /\ \A j \in i + 1 .. i + Return[i].len - 1 : Return[j].len = 0
         /\ i + Return[i].len <= Len(Return) => Return[i + Return[i].len].len > 0

VARIABLES
    owned,         \* emos_exext_owned
    job,           \* what holds emos_exext_busy, its step, bytes left to copy, bytes to fetch
    route,         \* emosVduBackend: 0 or 2
    fg,            \* where the foreground stands between its calls
    out,           \* outgoing[0 .. queued - 1]
    inb, needMore, \* incoming[read_at .. received - 1], need_more
    session, num,  \* stream_session: its transaction, the last block number
    wire,          \* the exchange in progress
    rx,            \* emos_key_rx.state: "none", or "part" of a control packet
    faulted,       \* emos_key_faulted
    fenced,        \* emos_parallel_boot_block_end(0): the port is fenced until reset
    peer,          \* the peer: session, last block, stream open
    pend,          \* the peer: bytes to be returned
    written, queued, fed, got,  \* history: bytes written, queued by the peer, parsed, received
    lossy,         \* history: a block failed or a fault discarded bytes
    troubled,      \* history: a fault, a lost answer or a selection since the start
    mixed          \* history: a packet was parsed inside another one

stream == <<owned, route, fg, out, session, num>>
incoming == <<inb, needMore>>
line == <<wire, rx, faulted, fenced>>
remote == <<peer, pend>>
seen == <<fed, lossy, mixed>>            \* histories that Publish changes
counts == <<written, queued, got, troubled>>
vars == <<stream, incoming, job, line, remote, seen, counts>>

NoJob == [who |-> "none", at |-> "none", left |-> 0, n |-> 0]
Quiet == [op |-> "none", st |-> "none", n |-> 0]
Closed == [session |-> 0, num |-> 0, open |-> FALSE]

Init ==
    /\ owned = FALSE /\ job = NoJob /\ route = 0 /\ fg = "idle"
    /\ out = <<>> /\ inb = <<>> /\ needMore = FALSE /\ session = 0 /\ num = 0
    /\ wire = Quiet /\ rx = "none" /\ faulted = FALSE /\ fenced = FALSE
    /\ peer = Closed /\ pend = <<>>
    /\ written = 0 /\ queued = 0 /\ fed = 0 /\ got = <<>>
    /\ lossy = FALSE /\ troubled = FALSE /\ mixed = FALSE

\* A mainboard reset ends everything, the fence included.
Reset ==
    /\ fenced
    /\ owned' = FALSE /\ job' = NoJob /\ route' = 0 /\ fg' = "idle"
    /\ out' = <<>> /\ inb' = <<>> /\ needMore' = FALSE /\ session' = 0 /\ num' = 0
    /\ wire' = Quiet /\ rx' = "none" /\ faulted' = FALSE /\ fenced' = FALSE
    /\ peer' = Closed /\ pend' = <<>>
    /\ written' = 0 /\ queued' = 0 /\ fed' = 0 /\ got' = <<>>
    /\ lossy' = FALSE /\ troubled' = FALSE /\ mixed' = FALSE

(***************************************************************************)
(* Publication of returned packets by the tick: publish_return             *)
(***************************************************************************)
\* Ends of the whole packets in incoming.
Ends(headers) ==
    {i + Return[inb[i]].len - 1 : i \in {j \in DOMAIN inb : Return[inb[j]] \in headers}}
        \cap DOMAIN inb
Headers == {h \in {Return[i] : i \in DOMAIN Return} : h.len > 0}
KeyEnds == Ends({h \in Headers : h.key})
\* The body of a packet whose header a fault discarded passes byte by byte.
Orphans == {i \in DOMAIN inb : \A j \in 1 .. i : Return[inb[j]].len = 0}
\* It stops after the first key: MOS latches only the latest key event.
Publishable ==
    IF faulted THEN 0
    ELSE IF KeyEnds # {} THEN Min(KeyEnds) ELSE Max(Ends(Headers) \cup Orphans \cup {0})
PublishesKey == ~faulted /\ KeyEnds # {}

\* The parser takes the bytes as they come, also inside a packet from UART1.
Publish ==
    LET n == Publishable
    IN /\ inb' = IF faulted THEN <<>> ELSE SubSeq(inb, n + 1, Len(inb))
       /\ needMore' = (inb' # <<>> /\ ~PublishesKey)
       /\ fed' = IF n > 0 THEN inb[n] ELSE fed
       /\ lossy' = (lossy \/ (faulted /\ inb # <<>>))
       /\ IF n > 0 /\ rx = "part"
          THEN mixed' = TRUE /\ wire' = [wire EXCEPT !.st = "lost"] /\ rx' = "none"
          ELSE UNCHANGED <<mixed, wire, rx>>

\* emos_exext_tick without a service: a key was published, the stream has an owner
\* or none, or stock SD is selected.
TickOnly ==
    /\ inb # <<>> /\ Publish
    /\ UNCHANGED <<stream, job, faulted, fenced, remote, counts>>

\* A seeded fault: no service while a packet is incomplete.
ServesEmpty == owned /\ job = NoJob /\ route = 2 /\ ~faulted /\ inb = <<>>
ServiceAdmitted == owned /\ job = NoJob /\ route = 2 /\ ~faulted
\* The tick starts a service; interrupts are enabled again until ServiceEnd.
TickServes ==
    /\ ServiceAdmitted /\ (inb # <<>> => ~PublishesKey)
    /\ IF inb # <<>> THEN Publish ELSE UNCHANGED <<incoming, fed, lossy, mixed, wire, rx>>
    /\ job' = [NoJob EXCEPT !.who = "service", !.at = "flush"]
    /\ UNCHANGED <<stream, faulted, fenced, remote, counts>>

\* Back in the tick, interrupts masked.
ServiceEnd ==
    /\ job.at = "end" /\ Publish
    /\ job' = NoJob
    /\ UNCHANGED <<stream, faulted, fenced, remote, counts>>

(***************************************************************************)
(* The steps of a job                                                      *)
(***************************************************************************)
At(step) == job.at = step
Goto(step) == job' = [job EXCEPT !.at = step]
Serving == job.who = "service"
Continue == UNCHANGED <<owned, fenced>>

\* The end of a job that failed.  A service that fails ends the stream behind the fence;
\* a block that fails fences whoever asked for it.
Fails(fence) ==
    /\ job' = IF Serving THEN [job EXCEPT !.at = "end"] ELSE NoJob
    /\ owned' = (owned /\ job.who \notin {"service", "start"})
    /\ fenced' = (fenced \/ fence \/ Serving)

\* What a job does once outgoing is empty, or is not to be flushed any more.
AfterFlush ==
    job' = CASE job.who = "write" /\ job.left = 0 -> NoJob
             [] job.who = "write" /\ job.left # 0 -> [job EXCEPT !.at = "copy"]
             [] job.who = "stop" -> [job EXCEPT !.at = "drain"]
             [] Serving -> [job EXCEPT !.at = "askPoll"]

\* flush
Flush ==
    /\ At("flush")
    /\ IF out = <<>> THEN AfterFlush ELSE Goto("transfer")
    /\ UNCHANGED <<stream, incoming, line, remote, seen, counts>>

\* emos_keyboard_parallel_reserve; behind the fence the hand-over refuses instead.
CanReserve == fg # "select" /\ ~faulted /\ rx = "none" /\ ~fenced

NextBlock == (num + 1) % (MaxBlock + 1)
\* A seeded fault: the session is kept.
NeverRenews == FALSE
\* A session is renewed before its block numbers wrap.
MustRenew == NextBlock = 0
NextSession == 1 + (session % 2)

\* A request with its number: the exchange of the reserved serializer.
Ask(op, n) == Goto(op) /\ wire' = [op |-> op, st |-> "asked", n |-> n]
\* parallel_offer_valid
AskOffer(n) == IF n # 0 THEN Ask("offer", n) /\ Continue ELSE Fails(TRUE) /\ UNCHANGED wire

\* A start and a block before the numbers wrap negotiate a session; another block is
\* offered; a service asks for the amount to return, and a stop for the end, once the
\* ticks have published what they can.
Drained == inb = <<>> \/ needMore
Reserve ==
    /\ CanReserve
    /\ \/ /\ At("begin") \/ (At("transfer") /\ MustRenew)
          /\ session' = NextSession /\ num' = 0 /\ Ask("session", 0) /\ Continue
       \/ At("transfer") /\ ~MustRenew /\ AskOffer(NextBlock) /\ UNCHANGED <<session, num>>
       \/ At("askPoll") /\ Ask("poll", 0) /\ Continue /\ UNCHANGED <<session, num>>
       \/ At("drain") /\ Drained /\ Ask("stop", 0) /\ Continue /\ UNCHANGED <<session, num>>
    /\ UNCHANGED <<route, fg, out, incoming, rx, faulted, remote, seen, counts>>

Refused ==
    /\ ~CanReserve
    /\ job.at \in {"begin", "transfer", "askPoll"} \/ (At("drain") /\ Drained)
    /\ Fails(FALSE)
    /\ UNCHANGED <<route, fg, out, session, num, incoming, wire, rx, faulted, remote, seen, counts>>

\* exchange: no answer within the deadline, or a fault.
PeerAccepts ==
    \/ wire.op = "session"
    \/ wire.op = "open" /\ peer.session = session
    \/ wire.op \in {"poll", "stop"} /\ peer.session = session /\ peer.open
    \/ wire.op = "offer" /\ peer.session = session /\ wire.n = peer.num + 1
ExchangeFails ==
    /\ wire # Quiet /\ (wire.st = "arrived" => faulted)
    /\ Fails(wire.op = "offer" \/ (wire.op = "session" /\ job.who # "start"))
    /\ wire' = Quiet /\ rx' = "none"
    /\ troubled' = (troubled \/ faulted \/ wire.st # "asked" \/ PeerAccepts)
    /\ UNCHANGED <<route, fg, out, session, num, incoming, faulted, remote, seen,
                   written, queued, got>>

Answered(op) == At(op) /\ wire.st = "arrived" /\ ~faulted

\* emos_parallel_session_negotiate succeeded: the start opens the stream, a block is offered.
Negotiated ==
    /\ Answered("session")
    /\ IF job.who = "start" THEN Ask("open", 0) /\ Continue ELSE AskOffer(NextBlock)
    /\ UNCHANGED <<route, fg, out, session, num, incoming, rx, faulted, remote, seen, counts>>

\* emos_exext_start returned; the mode has not been published yet.
Opened ==
    /\ Answered("open")
    /\ job' = NoJob /\ wire' = Quiet /\ fg' = "opened"
    /\ UNCHANGED <<owned, route, out, session, num, incoming, rx, faulted, fenced, remote, seen, counts>>

\* emos_parallel_handover_admit
Offered ==
    /\ Answered("offer")
    /\ num' = NextBlock /\ wire' = Quiet /\ Goto("block")
    /\ UNCHANGED <<owned, route, fg, out, session, incoming, rx, faulted, fenced, remote, seen, counts>>

\* A seeded fault: the block overwrites the tail.
Overwritten == <<>>
\* fetch_return: the tail stays at the front of incoming, the block comes behind it.
Capped(amount) == Min({amount, Fetch})
Kept == inb
FetchAmount(n) ==
    IF Len(Kept) + Capped(n) > 2 * Fetch THEN Fails(FALSE)
    ELSE job' = [job EXCEPT !.at = "transfer", !.n = Capped(n)] /\ Continue

\* poll_return
Polled ==
    /\ Answered("poll") /\ wire' = Quiet
    /\ \/ wire.n > 0 /\ FetchAmount(wire.n) /\ UNCHANGED needMore
       \/ wire.n = 0 /\ Goto("end") /\ needMore' = FALSE /\ Continue
    /\ UNCHANGED <<route, fg, out, session, num, inb, rx, faulted, remote, seen, counts>>

Unsent == <<>>
\* emos_parallel_native_coordinate succeeded, and released the reservation.
BlockDone ==
    /\ At("block") /\ ~faulted
    /\ \/ /\ job.n = 0
          /\ got' = got \o out /\ out' = Unsent /\ AfterFlush
          /\ UNCHANGED <<incoming, pend>>
       \/ /\ job.n > 0
          /\ inb' = Kept \o SubSeq(pend, 1, job.n) /\ needMore' = FALSE
          /\ pend' = SubSeq(pend, job.n + 1, Len(pend))
          /\ job' = [job EXCEPT !.at = IF Serving THEN "end" ELSE "drain", !.n = 0]
          /\ UNCHANGED <<got, out>>
    /\ UNCHANGED <<owned, route, fg, session, num, line, peer, seen, written, queued, troubled>>

BlockFails ==
    /\ At("block") /\ Fails(TRUE)
    /\ lossy' = TRUE /\ troubled' = TRUE
    /\ UNCHANGED <<route, fg, out, session, num, incoming, wire, rx, faulted, remote,
                   fed, mixed, written, queued, got>>

(***************************************************************************)
(* The foreground                                                          *)
(***************************************************************************)
Idle == fg = "idle" /\ job = NoJob
Writable == owned /\ job = NoJob /\ route = 2
Begin(who, step, n) == job' = [NoJob EXCEPT !.who = who, !.at = step, !.left = n]

\* emos_parallel_route_write_byte: an append, or the boundary byte with interrupts enabled.
WriteByte ==
    /\ Idle /\ Writable /\ written < MaxOut
    /\ \/ /\ Len(out) < OutCap - 1
          /\ out' = Append(out, written + 1) /\ written' = written + 1 /\ UNCHANGED fg
       \/ Len(out) >= OutCap - 1 /\ fg' = "boundary" /\ UNCHANGED <<out, written>>
    /\ UNCHANGED <<owned, route, session, num, incoming, job, line, remote, seen, queued, got, troubled>>

\* It calls emos_parallel_route_write_stream, which looks again.
BoundaryByte ==
    /\ fg = "boundary" /\ ~Serving
    /\ fg' = "idle"
    /\ IF Writable THEN Begin("write", "copy", 1) ELSE UNCHANGED job
    /\ UNCHANGED <<owned, route, out, session, num, incoming, line, remote, seen, counts>>

WriteStream(n) ==
    /\ Idle /\ Writable /\ written + n <= MaxOut
    /\ Begin("write", "copy", n)
    /\ UNCHANGED <<stream, incoming, line, remote, seen, counts>>

Part == Min({OutCap - Len(out), job.left})
Copy ==
    /\ At("copy")
    /\ out' = out \o [i \in 1 .. Part |-> written + i] /\ written' = written + Part
    /\ job' = IF Len(out') >= OutCap
              THEN [job EXCEPT !.at = "transfer", !.left = job.left - Part] ELSE NoJob
    /\ UNCHANGED <<owned, route, fg, session, num, incoming, line, remote, seen, queued, got, troubled>>

\* emos_exext_start for a request of the extended mode.
RequestStart ==
    /\ Idle /\ ~owned /\ route = 0 /\ ~fenced
    /\ owned' = TRUE /\ Begin("start", "begin", 0)
    /\ out' = <<>> /\ inb' = <<>> /\ needMore' = FALSE
    /\ written' = 0 /\ fed' = 0 /\ got' = <<>>
    /\ lossy' = FALSE /\ troubled' = FALSE /\ mixed' = FALSE
    /\ UNCHANGED <<route, fg, session, num, line, remote, queued>>

\* emos_request_mode publishes the route.
RoutePublished ==
    /\ fg = "opened" /\ fg' = "idle" /\ route' = 2
    /\ UNCHANGED <<owned, out, session, num, incoming, job, line, remote, seen, counts>>

\* emos_exext_stop for a request of the legacy mode; without a stream it only leaves.
RequestLegacy ==
    /\ Idle /\ route = 2
    /\ \/ owned /\ Begin("stop", "flush", 0) /\ UNCHANGED fg
       \/ ~owned /\ fg' = "leave" /\ UNCHANGED job
    /\ UNCHANGED <<owned, route, out, session, num, incoming, line, remote, seen, counts>>

\* The answer to STOP: the end, or an amount to fetch first.
EndsStream(n) == n = 0
StopAnswered ==
    /\ Answered("stop") /\ wire' = Quiet
    /\ \/ /\ EndsStream(wire.n) /\ inb = <<>>
          /\ owned' = FALSE /\ out' = <<>> /\ job' = NoJob /\ fg' = "leave" /\ UNCHANGED fenced
       \/ /\ IF EndsStream(wire.n) THEN inb # <<>> /\ Fails(FALSE) ELSE FetchAmount(wire.n)
          /\ UNCHANGED <<out, fg>>
    /\ UNCHANGED <<route, session, num, incoming, rx, faulted, remote, seen, counts>>

\* The deadline of the drain: the stream stays open.
DrainDeadline ==
    /\ At("drain") /\ Fails(FALSE) /\ troubled' = TRUE
    /\ UNCHANGED <<route, fg, out, session, num, incoming, wire, rx, faulted, remote, seen,
                   written, queued, got>>

\* The console lease is left; a failed LEAVE keeps the route without a stream.
Leave ==
    /\ fg = "leave" /\ fg' = "idle"
    /\ route' \in {0, 2}
    /\ UNCHANGED <<owned, out, session, num, incoming, job, line, remote, seen, counts>>

\* emos_keyboard_select, the only way to clear a fault, does not ask for the stream.
SelectBegin ==
    /\ Idle /\ ~fenced
    /\ fg' = "select" /\ troubled' = TRUE
    /\ UNCHANGED <<owned, route, out, session, num, incoming, job, line, remote, seen,
                   written, queued, got>>
SelectEnd ==
    /\ fg = "select" /\ ~Serving
    /\ fg' = "idle" /\ faulted' \in {FALSE, faulted}
    /\ UNCHANGED <<owned, route, out, session, num, incoming, job, wire, rx, fenced, remote, seen, counts>>

(***************************************************************************)
(* UART1 and the peer                                                      *)
(***************************************************************************)
\* A line error or a stale partial packet: emos_keyboard_fault.
Fault ==
    /\ owned /\ ~faulted /\ ~fenced
    /\ faulted' = TRUE /\ rx' = "none" /\ troubled' = TRUE
    /\ UNCHANGED <<stream, incoming, job, wire, fenced, remote, seen, written, queued, got>>

\* A session starts at block 0 and keeps the stream; the stream opens empty.
PeerAnswers ==
    /\ wire.st = "asked" /\ PeerAccepts
    /\ wire' = [wire EXCEPT !.st = "sent",
                            !.n = IF wire.op \in {"poll", "stop"} THEN Len(pend) ELSE wire.n]
    /\ peer' = CASE wire.op = "session" -> [peer EXCEPT !.session = session, !.num = 0]
                 [] wire.op = "open" -> [peer EXCEPT !.open = TRUE]
                 [] wire.op = "stop" -> [peer EXCEPT !.open = pend # <<>>]
                 [] wire.op = "offer" -> [peer EXCEPT !.num = wire.n]
                 [] OTHER -> peer
    /\ IF wire.op = "open" THEN pend' = <<>> /\ queued' = 0 ELSE UNCHANGED <<pend, queued>>
    /\ UNCHANGED <<stream, incoming, job, rx, faulted, fenced, seen, written, got, troubled>>

\* The peer has a whole packet to return.
PeerQueues ==
    /\ peer.open /\ queued < Len(Return)
    /\ LET n == Return[queued + 1].len
       IN pend' = pend \o [i \in 1 .. n |-> queued + i] /\ queued' = queued + n
    /\ UNCHANGED <<stream, incoming, job, line, peer, seen, written, got, troubled>>

ReplyStarts ==
    /\ wire.st = "sent" /\ rx = "none" /\ ~faulted
    /\ rx' = "part"
    /\ UNCHANGED <<stream, incoming, job, wire, faulted, fenced, remote, seen, counts>>
ReplyEnds ==
    /\ wire.st = "sent" /\ rx = "part"
    /\ rx' = "none" /\ wire' = [wire EXCEPT !.st = "arrived"]
    /\ UNCHANGED <<stream, incoming, job, faulted, fenced, remote, seen, counts>>

(***************************************************************************)
(* The specification                                                       *)
(***************************************************************************)
JobStep ==
    \/ Flush \/ Reserve \/ Refused \/ Negotiated \/ Opened \/ Offered \/ Polled
    \/ BlockDone \/ Copy \/ StopAnswered \/ ServiceEnd
Trouble == ExchangeFails \/ BlockFails \/ DrainDeadline \/ Fault \/ SelectBegin
Next ==
    \/ TickOnly \/ TickServes
    \/ JobStep \/ Trouble
    \/ WriteByte \/ BoundaryByte \/ (\E n \in 1 .. MaxOut : WriteStream(n))
    \/ RequestStart \/ RoutePublished \/ RequestLegacy \/ Leave \/ SelectEnd
    \/ PeerAnswers \/ PeerQueues \/ ReplyStarts \/ ReplyEnds
    \/ Reset

\* The VBlank comes again, and not every time while the foreground has the stream (it is
\* not synchronous with its calls); a job runs on, an exchange has a deadline, and a peer
\* that answers does so.
Fairness ==
    /\ WF_vars(TickOnly) /\ SF_vars(TickServes) /\ WF_vars(JobStep) /\ WF_vars(ExchangeFails)
    /\ WF_vars(BoundaryByte) /\ WF_vars(PeerAnswers) /\ WF_vars(ReplyStarts) /\ WF_vars(ReplyEnds)
Spec == Init /\ [][Next]_vars
FairSpec == Spec /\ Fairness

(***************************************************************************)
(* Properties                                                              *)
(***************************************************************************)
\* The type invariant: both buffers stay within their sizes, in every mix of jobs and ticks.
TypeOK ==
    /\ {owned, needMore, faulted, fenced, lossy, troubled, mixed} \subseteq BOOLEAN
    /\ job.who \in {"none", "write", "start", "stop", "service"}
    /\ job.at \in {"none", "begin", "session", "open", "flush", "transfer", "offer", "block",
                   "copy", "askPoll", "poll", "drain", "stop", "end"}
    /\ job.left \in 0 .. MaxOut /\ job.n \in 0 .. Fetch
    /\ route \in {0, 2} /\ fg \in {"idle", "boundary", "select", "opened", "leave"}
    /\ out \in Seq(1 .. MaxOut) /\ Len(out) <= OutCap
    /\ inb \in Seq(DOMAIN Return) /\ Len(inb) <= 2 * Fetch
    /\ pend \in Seq(DOMAIN Return) /\ got \in Seq(1 .. MaxOut)
    /\ num \in 0 .. MaxBlock /\ session \in 0 .. 2
    /\ wire.op \in {"none", "session", "open", "offer", "poll", "stop"}
    /\ wire.st \in {"none", "asked", "sent", "arrived", "lost"} /\ rx \in {"none", "part"}
    /\ peer.num \in 0 .. MaxBlock /\ {fed, queued} \subseteq 0 .. Len(Return)

\* The display bytes reach the peer once each and in the order written, whoever flushes
\* them, the writer, the tick between the two looks of the boundary byte, or the stop,
\* and across renewals of the session.
OutputInOrder == ~lossy => got \o out = [i \in 1 .. written |-> i]

\* What the peer returns reaches the parser in order, without a gap and without a repeat,
\* though blocks are cut anywhere, ticks publish inside a service and a stop drains.
InputInOrder ==
    owned /\ job.who # "start" /\ ~lossy =>
        inb \o pend = [i \in 1 .. (queued - fed) |-> fed + i]

\* A stop that succeeds has sent every byte written and published every byte returned.
StopLeavesNothing ==
    [][owned /\ ~owned' /\ fg' = "leave" /\ ~lossy => Len(got) = written /\ fed = queued]_vars

\* A service never ends the stream by itself: only after a fault, a selection or an answer
\* that the peer owed.  So no fill of the buffers, no cut of a packet and no block number
\* makes it fail.
OnlyTroubleEndsTheStream == [][owned /\ ~owned' /\ job.who = "service" => troubled \/ troubled']_vars

\* Both directions keep their order within the buffers (emos_exext.c).
StreamIsInOrder == TypeOK /\ OutputInOrder /\ InputInOrder

\* The stream ends for a reason, and with nothing left (emos_exext.c).
StreamEndsWell == StopLeavesNothing /\ OnlyTroubleEndsTheStream

\* Unless trouble keeps coming, all that the peer has to return is published, while the
\* stream lasts.
InputIsDelivered ==
    <>[][~Trouble]_vars => []<>(~owned \/ route # 2 \/ faulted \/ inb \o pend = <<>>)

\* docs/tasks/INTEG-016.md: "feed only complete packets through the unchanged parser".
\* A tick that publishes while an answer is half received breaks it.
ParserTakesWholePackets == ~mixed
========================================================================

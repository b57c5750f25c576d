---------------------------- MODULE ConsoleMode ----------------------------
(* Mode requests (src/emos.c) over the remote console (src/emos_console.c):  *)
(* entry and return of Exclusive Compatible mode by a lease that EMOS and    *)
(* its peer prepare, commit and leave, and the display state (mode, cursor)  *)
(* that MOS publishes.                                                       *)
(*                                                                           *)
(* A request is a foreground procedure; the receive interrupt of either UART *)
(* may run between any two of its steps.  UART1 is a pair of FIFO wires: a   *)
(* packet is lost by a line fault, by a send that fails or by a reset of the *)
(* peer, and kept waiting while the receiver is stopped.                     *)
EXTENDS Integers, Sequences

CONSTANTS MaxTransaction,    \* bound on the lease transactions
          MaxWire            \* bound on the packets in either direction

ASSUME BoundsAssumption == MaxTransaction \in Nat /\ MaxWire \in Nat

VARIABLES
    mode,        \* emosModeState.mode
    route,       \* emosVduBackend: 0 mainboard, 1 EDP
    adapter,     \* selectedAdapter is the UART console
    pc,          \* where the mode request stands
    goal,        \* the requested mode
    owned,       \* emos_console_owned
    lease,
    request,     \* the request buffer: op, transaction, nonce
    transaction, \* the transaction counter
    waiting,     \* the operation an exchange waits for, or "no"
    accepted,
    staging, staged, seen, pollDone,
    sys,         \* whose mode and cursor are published: 0 mainboard, or a transaction
    remote,      \* the keyboard source is not the mainboard
    open,        \* uart1_keyboard_owned
    rx,          \* the receiver is armed
    faulted,     \* emos_key_faulted
    toPeer, toEmos,
    queries,     \* display queries the mainboard VDP has not answered
    peer         \* the peer's lease

fgVars == <<mode, route, adapter, pc, goal, owned, lease, transaction>>
replyVars == <<request, waiting, accepted>>
stageVars == <<staging, staged, seen, pollDone>>
uartVars == <<remote, open, rx, faulted>>
vars == <<fgVars, replyVars, stageVars, sys, uartVars, toPeer, toEmos, queries, peer>>

Ops == {"PREPARE", "COMMIT", "LEAVE", "ABORT"}
Control(op, tr, nonce) == [kind |-> op, tr |-> tr, nonce |-> nonce]
\* A display packet of the lease tr, or the answer to a poll.
Display(kind, tr) == [kind |-> kind, tr |-> tr, nonce |-> 0]
Nonces == 1 .. 2
\* One byte of the nonce and one of the transaction: tokens of two leases may be equal.
PollToken == (request.nonce + request.tr) % 2

Init ==
    /\ mode = "LEGACY" /\ route = 0 /\ adapter = FALSE /\ pc = "idle" /\ goal = "LEGACY"
    /\ owned = FALSE /\ lease = FALSE /\ transaction = 0
    /\ request = Control("LEAVE", 0, 0) /\ waiting = "no" /\ accepted = FALSE
    /\ staging = FALSE /\ staged = 0 /\ seen = {} /\ pollDone = FALSE
    /\ sys = 0 /\ queries = 0
    /\ remote = FALSE /\ open = FALSE /\ rx = FALSE /\ faulted = FALSE
    /\ toPeer = <<>> /\ toEmos = <<>>
    /\ peer = [st |-> "none", tr |-> 0, nonce |-> 1]

(***************************************************************************)
(* An exchange with the peer                                               *)
(***************************************************************************)
\* emos_keyboard_send refuses, fails part of the way or sends.
Send(packet) ==
    \/ open /\ ~faulted /\ Len(toPeer) < MaxWire /\ toPeer' = Append(toPeer, packet)
    \/ UNCHANGED toPeer

\* A seeded fault: the reply of the last exchange still counts.
AcceptedKept(r, op) == request' = [r EXCEPT !.kind = op] /\ waiting' = op
                       /\ Send(request') /\ UNCHANGED accepted
\* exchange(op) up to wait_reply.
Exchange(r, op) == /\ request' = [r EXCEPT !.kind = op]
                   /\ waiting' = op /\ accepted' = FALSE
                   /\ Send(request')

Answered == accepted /\ ~faulted
\* The wait gives up: at once when the send failed, by the fault, or by the deadline.
GivenUp == ~Answered

(***************************************************************************)
(* emos_request_mode                                                       *)
(***************************************************************************)
\* A mode without an adapter is refused, after the recovery of a used adapter.
RequestOther ==
    /\ pc = "idle" /\ mode = "LEGACY" /\ adapter
    /\ goal' = "DUAL" /\ pc' = "recover"
    /\ UNCHANGED <<mode, route, adapter, owned, lease, transaction, replyVars, stageVars, sys,
                   uartVars, toPeer, toEmos, queries, peer>>

RequestLegacy ==
    /\ pc = "idle" /\ mode # "LEGACY"
    /\ goal' = "LEGACY" /\ pc' = "recover"
    /\ UNCHANGED <<mode, route, adapter, owned, lease, transaction, replyVars, stageVars, sys,
                   uartVars, toPeer, toEmos, queries, peer>>

\* emos_keyboard_transport_claim opens UART1 when nobody has it.
Claim == /\ ~faulted /\ open' = TRUE
         /\ rx' = IF open THEN rx ELSE TRUE
         /\ UNCHANGED <<remote, faulted>>

\* emos_console_prepare
RequestCompat ==
    /\ pc = "idle" /\ mode = "LEGACY" /\ transaction < MaxTransaction
    /\ goal' = "COMPAT" /\ adapter' = TRUE
    /\ \/ /\ ~lease /\ ~owned /\ Claim
          /\ owned' = TRUE /\ transaction' = transaction + 1 /\ pc' = "prepare"
          /\ Exchange(Control("PREPARE", transaction', 0), "PREPARE")
       \/ /\ pc' = "recover"           \* still owned, or the claim is refused
          /\ UNCHANGED <<owned, transaction, replyVars, uartVars, toPeer>>
    /\ UNCHANGED <<mode, route, lease, stageVars, sys, toEmos, queries, peer>>

\* The lease is ours; emos_console_commit.
Prepared ==
    /\ pc = "prepare" /\ Answered
    /\ lease' = TRUE /\ pc' = "commit"
    /\ Exchange(request, "COMMIT")
    /\ UNCHANGED <<mode, route, adapter, goal, owned, transaction, stageVars, sys, uartVars,
                   toEmos, queries, peer>>

\* Committed: the display state is queried into the staging area.
Committed ==
    /\ pc = "commit" /\ Answered
    /\ waiting' = "no" /\ pc' = "poll"
    /\ staging' = TRUE /\ seen' = {} /\ pollDone' = FALSE
    /\ Send(Display("query", PollToken))
    /\ UNCHANGED <<mode, route, adapter, goal, owned, lease, transaction, request, accepted,
                   staged, sys, uartVars, toEmos, queries, peer>>

\* The complete logical state is published, then the route.
Routed ==
    /\ pc = "poll" /\ pollDone /\ ~faulted
    /\ mode' = "COMPAT" /\ route' = 1 /\ pc' = "publish"
    /\ UNCHANGED <<adapter, goal, owned, lease, transaction, replyVars, stageVars, sys,
                   uartVars, toPeer, toEmos, queries, peer>>

\* emos_console_publish
Publish ==
    /\ pc = "publish" /\ pc' = "idle"
    /\ sys' = IF staging /\ seen = {"mode", "cursor"} /\ pollDone THEN staged ELSE sys
    /\ staging' = FALSE
    /\ UNCHANGED <<mode, route, adapter, goal, owned, lease, transaction, replyVars, staged,
                   seen, pollDone, uartVars, toPeer, toEmos, queries, peer>>

\* An entry fails at any of its waits.
EntryFails ==
    /\ \/ pc \in {"prepare", "commit"} /\ GivenUp
       \/ pc = "poll" /\ (~pollDone \/ faulted)
    /\ waiting' = "no" /\ pc' = "recover"
    /\ UNCHANGED <<mode, route, adapter, goal, owned, lease, transaction, request, accepted,
                   stageVars, sys, uartVars, toPeer, toEmos, queries, peer>>

\* emos_keyboard_transport_release: the keyboard source may still need UART1.
Release == IF remote THEN UNCHANGED uartVars
           ELSE open' = FALSE /\ rx' = FALSE /\ UNCHANGED <<remote, faulted>>

\* The end of a recovery that released the console; a return to Legacy is then
\* published, and the mainboard VDP is asked for its display state.
Released ==
    /\ lease' = FALSE /\ staging' = FALSE /\ waiting' = "no" /\ owned' = FALSE
    /\ Release
    /\ IF goal = "LEGACY"
       THEN mode' = "LEGACY" /\ route' = 0 /\ queries' = 1
       ELSE UNCHANGED <<mode, route, queries>>
    /\ pc' = "idle"
    /\ UNCHANGED <<adapter, goal, transaction, request, accepted, staged, seen, pollDone, sys,
                   toPeer, toEmos, peer>>

RecoverUnleased == pc = "recover" /\ ~lease /\ Released

Recover ==
    /\ pc = "recover" /\ lease
    /\ Exchange(request, IF route = 1 THEN "LEAVE" ELSE "ABORT")
    /\ pc' = "leave"
    /\ UNCHANGED <<mode, route, adapter, goal, owned, lease, transaction, stageVars, sys,
                   uartVars, toEmos, queries, peer>>

\* A seeded fault: a retained route keeps its wait.
StillWaiting ==
    /\ pc = "leave" /\ GivenUp /\ route = 1
    /\ pc' = "leave"
    /\ UNCHANGED <<mode, route, adapter, goal, owned, lease, transaction, request, waiting, accepted,
                   stageVars, sys, uartVars, toPeer, toEmos, queries, peer>>

Left == pc = "leave" /\ (Answered \/ route = 0) /\ Released

\* An active route must not falsely report LEAVE: it is retained.
Retained ==
    /\ pc = "leave" /\ GivenUp /\ route = 1
    /\ waiting' = "no" /\ pc' = "idle"
    /\ UNCHANGED <<mode, route, adapter, goal, owned, lease, transaction, request, accepted,
                   stageVars, sys, uartVars, toPeer, toEmos, queries, peer>>

(***************************************************************************)
(* The receive interrupts                                                  *)
(***************************************************************************)
\* The exact reply of the exchange in progress, the first one.
Matches(p) == /\ p.kind = waiting /\ ~accepted /\ p.tr = request.tr
              /\ waiting = "PREPARE" \/ p.nonce = request.nonce

\* emos_console_packet
Deliver ==
    /\ toEmos # <<>> /\ open /\ rx /\ ~faulted
    /\ toEmos' = Tail(toEmos)
    /\ LET p == Head(toEmos)
       IN \/ /\ p.kind \in Ops
             /\ accepted' = (accepted \/ Matches(p))
             /\ request' = IF Matches(p) THEN [request EXCEPT !.nonce = p.nonce] ELSE request
             /\ UNCHANGED <<waiting, stageVars, sys>>
          \/ /\ p.kind \in {"mode", "cursor"} /\ staging
             /\ seen' = seen \cup {p.kind} /\ staged' = p.tr
             /\ UNCHANGED <<replyVars, staging, pollDone, sys>>
          \/ /\ p.kind = "poll" /\ staging
             /\ pollDone' = (pollDone \/ (p.tr = PollToken /\ seen = {"mode", "cursor"}))
             /\ UNCHANGED <<replyVars, staging, staged, seen, sys>>
          \/ /\ p.kind \in {"mode", "cursor", "poll"} /\ ~staging
             /\ sys' = IF route = 1 /\ lease /\ p.kind # "poll" THEN p.tr ELSE sys
             /\ UNCHANGED <<replyVars, stageVars>>
    /\ UNCHANGED <<fgVars, uartVars, toPeer, queries, peer>>

\* A seeded fault: the filter below is missing.
UnownedEffect == 0
\* vdp_protocol_exec: display effects of UART0 are unowned while ExCom is committed.
BoardEffect == IF route = 1 THEN sys ELSE 0
BoardAnswers ==
    /\ queries > 0 /\ queries' = 0
    /\ sys' = BoardEffect
    /\ UNCHANGED <<fgVars, replyVars, stageVars, uartVars, toPeer, toEmos, peer>>

(***************************************************************************)
(* The rest of UART1: faults and keyboard selection                        *)
(***************************************************************************)
\* emos_keyboard_fault; the packet being received may be lost.
Fault ==
    /\ open /\ rx /\ ~faulted
    /\ faulted' = TRUE /\ rx' = FALSE
    /\ toEmos' = toEmos \/ (toEmos # <<>> /\ toEmos' = Tail(toEmos))
    /\ UNCHANGED <<fgVars, replyVars, stageVars, sys, remote, open, toPeer, queries, peer>>

\* emos_keyboard_select of a remote source: a faulted receiver is opened again.
SelectRemote ==
    /\ pc = "idle" /\ (faulted \/ ~remote)
    /\ \/ /\ open => rx \/ faulted
          /\ open' = TRUE /\ rx' = TRUE /\ faulted' = FALSE /\ remote' = TRUE
       \/ ~owned /\ open' = FALSE /\ rx' = FALSE /\ UNCHANGED <<faulted, remote>>
       \/ owned /\ open' = TRUE /\ rx' = (rx \/ faulted \/ ~open) /\ UNCHANGED <<faulted, remote>>
    /\ UNCHANGED <<fgVars, replyVars, stageVars, sys, toPeer, toEmos, queries, peer>>

\* ... of the mainboard: the fault is cleared, the console keeps UART1 as it is.
SelectMainboard ==
    /\ pc = "idle" /\ (faulted \/ remote)
    /\ remote' = FALSE /\ faulted' = FALSE
    /\ IF owned THEN UNCHANGED <<open, rx>> ELSE open' = FALSE /\ rx' = FALSE
    /\ UNCHANGED <<fgVars, replyVars, stageVars, sys, toPeer, toEmos, queries, peer>>

(***************************************************************************)
(* The peer                                                                *)
(***************************************************************************)
Holds(p) == peer.st # "none" /\ peer.tr = p.tr /\ peer.nonce = p.nonce
Reply(s) == toEmos' = toEmos \o s
\* A new lease replaces an old one; a repeated COMMIT, LEAVE or ABORT is answered again.
PeerReceives ==
    /\ toPeer # <<>> /\ Len(toEmos) < MaxWire
    /\ toPeer' = Tail(toPeer)
    /\ LET p == Head(toPeer)
       IN \/ /\ p.kind = "PREPARE"
             /\ peer' = [st |-> "prepared", tr |-> p.tr, nonce |-> 3 - peer.nonce]
             /\ Reply(<<Control("PREPARE", p.tr, peer'.nonce)>>)
          \/ /\ p.kind = "COMMIT" /\ Holds(p) /\ peer.st \in {"prepared", "active"}
             /\ peer' = [peer EXCEPT !.st = "active"] /\ Reply(<<p>>)
          \/ /\ p.kind \in {"LEAVE", "ABORT"} /\ Holds(p)
             /\ peer' = [peer EXCEPT !.st = "left"] /\ Reply(<<p>>)
          \/ /\ p.kind = "query" /\ peer.st = "active"
             /\ Reply(<<Display("mode", peer.tr), Display("cursor", peer.tr), Display("poll", p.tr)>>)
             /\ UNCHANGED peer
          \/ /\ p.kind \notin {"PREPARE", "query"} /\ ~Holds(p)
             /\ UNCHANGED <<peer, toEmos>>
          \/ /\ p.kind = "COMMIT" /\ peer.st = "left" /\ UNCHANGED <<peer, toEmos>>
          \/ /\ p.kind = "query" /\ peer.st # "active" /\ UNCHANGED <<peer, toEmos>>
    /\ UNCHANGED <<fgVars, replyVars, stageVars, sys, uartVars, queries>>

\* Its display changes (a mode, a cursor position that the program asked for).
PeerEffect ==
    /\ peer.st = "active" /\ Len(toEmos) < MaxWire
    /\ Reply(<<Display("mode", peer.tr)>>)
    /\ UNCHANGED <<fgVars, replyVars, stageVars, sys, uartVars, toPeer, queries, peer>>

PeerReset ==
    /\ peer.st # "none"
    /\ peer' = [peer EXCEPT !.st = "none"] /\ toPeer' = <<>> /\ toEmos' = <<>>
    /\ UNCHANGED <<fgVars, replyVars, stageVars, sys, uartVars, queries>>

(***************************************************************************)
(* The specification                                                       *)
(***************************************************************************)
GivesUp == EntryFails \/ Retained
Foreground == Prepared \/ Committed \/ Routed \/ Publish \/ Recover \/ RecoverUnleased \/ Left
Requests == RequestCompat \/ RequestLegacy \/ RequestOther
Select == SelectRemote \/ SelectMainboard

Next == Requests \/ Foreground \/ GivesUp \/ Deliver \/ BoardAnswers
        \/ Fault \/ Select \/ PeerReceives \/ PeerEffect \/ PeerReset

Spec == Init /\ [][Next]_vars

\* Waits are bounded by ticks and by polls; the user repeats LEGACY and retries input.
FairSpec == /\ Spec
            /\ WF_vars(Foreground) /\ WF_vars(GivesUp) /\ WF_vars(Deliver)
            /\ WF_vars(BoardAnswers) /\ WF_vars(PeerReceives)
            /\ SF_vars(RequestLegacy) /\ SF_vars(SelectRemote)

(***************************************************************************)
(* Properties                                                              *)
(***************************************************************************)
Packets == [kind : Ops \cup {"query", "mode", "cursor", "poll"},
            tr : 0 .. MaxTransaction, nonce : 0 .. 2]

\* Type invariant.
TypeOK ==
    /\ mode \in {"LEGACY", "COMPAT"} /\ goal \in {"LEGACY", "COMPAT", "DUAL"}
    /\ route \in {0, 1} /\ queries \in {0, 1}
    /\ pc \in {"idle", "prepare", "commit", "poll", "publish", "recover", "leave"}
    /\ {adapter, owned, lease, accepted, staging, pollDone, remote, open, rx, faulted} \subseteq BOOLEAN
    /\ request \in Packets /\ waiting \in Ops \cup {"no"}
    /\ transaction \in 0 .. MaxTransaction
    /\ staged \in 0 .. MaxTransaction /\ sys \in 0 .. MaxTransaction
    /\ seen \subseteq {"mode", "cursor"}
    /\ toPeer \in Seq(Packets) /\ toEmos \in Seq(Packets)
    /\ peer \in [st : {"none", "prepared", "active", "left"}, tr : 0 .. MaxTransaction, nonce : Nonces]

\* Between requests the logical mode, the route, the lease and the ownership of UART1
\* agree, however the last request ended (emos.c:427-462, emos_console.c:168-181).
OwnersFollowRoute ==
    pc = "idle" =>
        /\ (mode = "COMPAT") = (route = 1)
        /\ owned = (route = 1) /\ lease = (route = 1)
        /\ waiting = "no"
        /\ ~staging

\* The route leaves the peer only when the peer has ended the lease, or has lost it.
LeaveIsAcknowledged ==
    [][route = 1 /\ route' = 0 => ~(peer.st = "active" /\ peer.tr = transaction)]_vars

\* While the route is the peer's, the published mode and cursor are those of the
\* current lease: no late answer of the mainboard or of an earlier lease replaces them.
DisplayStateFollowsRoute == route = 1 /\ pc # "publish" => sys = transaction

\* Both: between requests everything that says who has the display agrees, and the
\* published state is the display's (emos.c, emos_console.c, vdp_protocol.asm).
OwnersAndDisplayAgree == TypeOK /\ OwnersFollowRoute /\ DisplayStateFollowsRoute

\* Once faults, resets and lost waits stop, a route that was retained is left, unless
\* the receiver is left stopped or the peer has lost the lease.
Trouble == Fault \/ PeerReset \/ GivesUp \/ SelectMainboard
RetainedRouteCanBeLeft ==
    <>[][~Trouble]_vars => []<>(route = 0 \/ ~rx \/ ~Holds(request))
============================================================================

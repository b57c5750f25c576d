-------------------------- MODULE ParallelSession --------------------------
(***************************************************************************)
(* Sessions of the parallel link: how EMOS and the P4 agree on a nonce and *)
(* admit a block (emos_parallel_session.h and _wire.h, which both sides    *)
(* share, and their callers in emos_console.c).  Packets carry no check    *)
(* sum; UART1 may lose them, delay a reply past its deadline, and deliver  *)
(* replies from before a reset of EMOS.  Either side may be reset.         *)
(*                                                                         *)
(* The block itself is PortCHandover's: here it completes or fails.        *)
(***************************************************************************)
EXTENDS Integers, Sequences

CONSTANTS
  Nonces,       \* bound: the P4 never gives one twice
  TransMod,     \* the transaction is a counter of 2^32
  SeqMod,       \* the sequence of a block is a counter of 2^16
  BlockSizes,   \* lengths callers offer, 1 to 4096
  MaxFlight,    \* bound: packets on the wire in each direction
  MaxResets,    \* bound: resets of either side
  MaxRequests   \* bound: negotiations, offers and polls

VARIABLES
  session,   \* t_parallelSession: phase, transaction, nonce, seq
  request,   \* the console's request and reply buffer
  waiting,   \* the operation whose reply is awaited, or "no"
  accepted,  \* the reply has been captured
  transaction, \* the caller's counter
  link,      \* the hand-over: "uart", "drain" (admitted) or "fenced"
  answer,    \* the last amount a poll returned: which session, how much
  p4Session, \* the P4's t_parallelSession, the block it admitted, its amount
  toPeer, toEmos, \* packets on the wire
  offer,     \* the caller's copy of what it offers
  used,      \* nonces given
  admitted,  \* history: the blocks EMOS has admitted, in order
  resets, requests

buffers == <<request, waiting, accepted>>
wires == <<toPeer, toEmos>>
counts == <<used, admitted, resets, requests>>
sessionVars == <<session, buffers, transaction, link, answer, p4Session, wires, offer, counts>>

NoSession == [phase |-> "IDLE", trans |-> 0, nonce |-> 0, seq |-> 0]
\* A packet: kind, and for a session its transaction and nonce, for a block or a
\* poll the nonce in the place of the transaction, the sequence and the length.
Packet(op, reply, a, b, n) == [op |-> op, reply |-> reply, a |-> a, b |-> b, n |-> n]
NoPacket == Packet("none", FALSE, 0, 0, 0)
NothingTaken == [nonce |-> 0, seq |-> 0, n |-> 0]
BlockOf(p) == [nonce |-> p.a, seq |-> p.b, n |-> p.n]

parallel_session_invalidate(s) == [s EXCEPT !.phase = "IDLE", !.seq = 0]
NextSeq(s) == (s.seq + 1) % SeqMod

\* Neither is waiting for a reply nor inside a block, the console's lease is not live.
Rests == waiting = "no" /\ link = "uart" /\ requests < MaxRequests

-----------------------------------------------------------------------------
(* EMOS: exchanges.                                                        *)

\* exchange and control_send: the packet goes out, or is lost on the way.
Exchange(p) ==
  /\ request' = p /\ waiting' = p.op /\ accepted' = FALSE
  /\ toPeer' \in {toPeer, Append(toPeer, p)} /\ Len(toPeer') <= MaxFlight

\* Every caller has reserved the serializer.  This one counts a transaction; when the counter
\* is zero the session is refused and nothing has changed.
emos_parallel_session_negotiate ==
  /\ Rests /\ requests' = requests + 1
  /\ transaction' = (transaction + 1) % TransMod
  /\ IF transaction' = 0 \/ session.phase \notin {"IDLE", "ACTIVE"}
     THEN UNCHANGED <<session, buffers, toPeer>>
     ELSE /\ session' = [parallel_session_invalidate(session)
                            EXCEPT !.trans = transaction', !.phase = "PREPARING"]
          /\ Exchange(Packet("PREPARE", FALSE, transaction', 0, 0))
  /\ UNCHANGED <<link, answer, p4Session, toEmos, offer, used, admitted, resets>>

\* emos_parallel_session_cancel: no session, and the hand-over is fenced.
Cancel == session' = parallel_session_invalidate(session) /\ link' = "fenced"
EndsWait == waiting' = "no" /\ UNCHANGED <<accepted, request, toPeer>>

\* parallel_block_matches: nonce, sequence, length and direction.
parallel_block_matches(o, p) == p.a = o.a /\ p.b = o.b /\ p.n = o.n

\* emos_console_packet: the receive interrupt captures one reply.
Captures(p) ==
  /\ waiting # "no" /\ ~accepted /\ p.reply /\ p.op = waiting
  /\ CASE waiting = "POLL"  -> p.a = request.a /\ p.b = request.b
       [] waiting = "OFFER" -> parallel_block_matches(request, p)
       [] waiting = "PREPARE" -> p.a = request.a /\ p.b # 0
       [] waiting = "COMMIT" -> p.a = request.a /\ p.b = request.b
emos_console_packet ==
  /\ toEmos # << >> /\ toEmos' = Tail(toEmos)
  /\ IF Captures(Head(toEmos)) THEN accepted' = TRUE /\ request' = Head(toEmos)
     ELSE UNCHANGED <<accepted, request>>
  /\ UNCHANGED <<session, waiting, transaction, link, answer, p4Session, toPeer, offer, counts>>

Foreground == UNCHANGED <<transaction, p4Session, toEmos, offer, used, resets, requests>>
\* parallel_session_accept of a captured reply.
Prepared ==
  /\ waiting = "PREPARE" /\ accepted
  /\ IF request.a = session.trans /\ request.b # 0 /\ request.b # session.nonce
     THEN /\ session' = [session EXCEPT !.nonce = request.b, !.phase = "COMMITTING"]
          /\ Exchange(Packet("COMMIT", FALSE, request.a, request.b, 0)) /\ UNCHANGED link
     ELSE Cancel /\ EndsWait
  /\ Foreground /\ UNCHANGED <<answer, admitted>>
Committed ==
  /\ waiting = "COMMIT" /\ accepted /\ EndsWait
  /\ IF request.a = session.trans /\ request.b = session.nonce
     THEN session' = [session EXCEPT !.phase = "ACTIVE"] /\ UNCHANGED link
     ELSE Cancel
  /\ Foreground /\ UNCHANGED <<answer, admitted>>

\* wait_reply gives up: its deadline, or a fault of the receiver, which spoils a
\* reply that has come, too.  A late reply can still arrive.  A poll leaves the
\* session to its caller.
wait_reply ==
  /\ waiting # "no" /\ EndsWait
  /\ IF waiting = "POLL" THEN UNCHANGED <<session, link>> ELSE Cancel
  /\ Foreground /\ UNCHANGED <<answer, admitted>>

\* A seeded fault: a sequence that has come round is taken for the next one.
OfferWraps(s, p) == s.nonce # 0 /\ p.a = s.nonce /\ p.b = NextSeq(s) /\ p.n \in 1 .. 4096
\* The session's nonce and its next sequence, never zero.
parallel_offer_valid(s, p) == s.nonce # 0 /\ p.a = s.nonce /\ p.b = NextSeq(s) /\ p.b # 0 /\ p.n \in 1 .. 4096

\* The caller offers its next block.  One it may not offer is refused.
emos_parallel_block_offer == \E n \in BlockSizes, seq \in {NextSeq(session), session.seq} :
  /\ Rests /\ session.phase = "ACTIVE" /\ requests' = requests + 1
  /\ offer' = Packet("OFFER", FALSE, session.nonce, seq, n)
  /\ IF parallel_offer_valid(session, offer') THEN Exchange(offer') ELSE UNCHANGED <<buffers, toPeer>>
  /\ UNCHANGED <<session, transaction, link, answer, p4Session, toEmos, used, admitted, resets>>

\* emos_parallel_session_admit and emos_parallel_handover_admit: the hand-over
\* begins, and the sequence is used up.
emos_parallel_handover_admit ==
  /\ waiting = "OFFER" /\ accepted /\ EndsWait /\ Foreground /\ UNCHANGED answer
  /\ IF session.phase = "ACTIVE" /\ parallel_offer_valid(session, offer) /\ BlockOf(offer) = BlockOf(request)
     THEN /\ link' = "drain" /\ session' = [session EXCEPT !.seq = offer.b]
          /\ admitted' = Append(admitted, BlockOf(offer))
     ELSE Cancel /\ UNCHANGED admitted

\* emos_parallel_native_coordinate: back at the UART on both sides, or fenced.
BlockEnds ==
  /\ link = "drain"
  /\ \/ p4Session.block = BlockOf(offer) /\ link' = "uart" /\ p4Session' = [p4Session EXCEPT !.block = NothingTaken]
        /\ UNCHANGED session
     \/ Cancel /\ UNCHANGED p4Session
  /\ UNCHANGED <<buffers, transaction, answer, wires, offer, counts>>

emos_parallel_stream_control ==
  /\ Rests /\ session.phase = "ACTIVE" /\ requests' = requests + 1
  /\ Exchange(Packet("POLL", FALSE, session.nonce, session.seq, 0))
  /\ UNCHANGED <<session, transaction, link, answer, p4Session, toEmos, offer, used, admitted, resets>>
Polled ==
  /\ waiting = "POLL" /\ accepted /\ EndsWait /\ answer' = [nonce |-> session.nonce, n |-> request.n]
  /\ Foreground /\ UNCHANGED <<session, link, admitted>>

-----------------------------------------------------------------------------
(* The P4, and resets.                                                     *)

Replies(p) == toEmos' \in {toEmos, Append(toEmos, p)} /\ Len(toEmos') <= MaxFlight

\* parallel_session_peer, with the nonce the P4 has ready.
parallel_session_peer(p) ==
  \/ /\ p.op = "PREPARE" /\ p.b = 0
     /\ \E nonce \in Nonces \ used :
          /\ nonce # p4Session.session.nonce /\ used' = used \cup {nonce}
          /\ p4Session' = [block |-> NothingTaken, session |-> [parallel_session_invalidate(p4Session.session)
                         EXCEPT !.phase = "STAGED", !.trans = p.a, !.nonce = nonce]]
          /\ Replies([p EXCEPT !.reply = TRUE, !.b = nonce])
  \/ /\ p.op = "COMMIT" /\ UNCHANGED used
     /\ IF p4Session.session.phase = "STAGED" /\ p.a = p4Session.session.trans /\ p.b = p4Session.session.nonce
        THEN p4Session' = [p4Session EXCEPT !.session.phase = "ACTIVE"] /\ Replies([p EXCEPT !.reply = TRUE])
        ELSE UNCHANGED <<p4Session, toEmos>>

\* The P4's own tests of an offer and a poll are those of the shared header.
PeerBlock(p) ==
  /\ p.op \in {"OFFER", "POLL"} /\ UNCHANGED used
  /\ IF /\ p4Session.session.phase = "ACTIVE" /\ p4Session.block = NothingTaken
        /\ IF p.op = "OFFER" THEN parallel_offer_valid(p4Session.session, p)
           ELSE p.a = p4Session.session.nonce /\ p.b = p4Session.session.seq
     THEN IF p.op = "OFFER"
          THEN /\ p4Session' = [p4Session EXCEPT !.session.seq = p.b, !.block = BlockOf(p)]
               /\ Replies([p EXCEPT !.reply = TRUE])
          ELSE UNCHANGED p4Session /\ Replies([p EXCEPT !.reply = TRUE, !.n = p4Session.session.nonce])
     ELSE UNCHANGED <<p4Session, toEmos>>
PeerReceives ==
  /\ toPeer # << >> /\ toPeer' = Tail(toPeer)
  /\ parallel_session_peer(Head(toPeer)) \/ PeerBlock(Head(toPeer))
  /\ UNCHANGED <<session, buffers, transaction, link, answer, offer, admitted, resets, requests>>

\* A reset of EMOS loses everything but what is on the wire; the fence at its
\* start makes the P4 give up a block.
EmosResets ==
  /\ resets < MaxResets /\ resets' = resets + 1
  /\ session' = NoSession /\ request' = NoPacket /\ waiting' = "no" /\ accepted' = FALSE
  /\ transaction' = 0 /\ link' = "uart" /\ answer' = [nonce |-> 0, n |-> 0]
  /\ p4Session' = [p4Session EXCEPT !.block = NothingTaken] /\ UNCHANGED <<wires, offer, used, admitted, requests>>
PeerResets ==
  /\ resets < MaxResets /\ resets' = resets + 1
  /\ p4Session' = [session |-> NoSession, block |-> NothingTaken] /\ toPeer' = << >>
  /\ UNCHANGED <<session, buffers, transaction, link, answer, toEmos, offer, used, admitted, requests>>

SessionInit ==
  /\ session = NoSession /\ request = NoPacket /\ waiting = "no" /\ accepted = FALSE
  /\ transaction \in {0, TransMod - 1} /\ link = "uart"
  /\ answer = [nonce |-> 0, n |-> 0] /\ p4Session = [session |-> NoSession, block |-> NothingTaken]
  /\ toPeer = << >> /\ toEmos = << >> /\ used = {} /\ offer = NoPacket /\ admitted = << >> /\ resets = 0 /\ requests = 0

SessionNext ==
  \/ emos_parallel_session_negotiate \/ emos_console_packet \/ Prepared \/ Committed \/ wait_reply
  \/ emos_parallel_block_offer \/ emos_parallel_handover_admit \/ BlockEnds
  \/ emos_parallel_stream_control \/ Polled
  \/ PeerReceives \/ EmosResets \/ PeerResets

SessionSpec == SessionInit /\ [][SessionNext]_sessionVars

\* The P4 never gives zero for a nonce, which both sides take for none; the others
\* are counters and lengths.
ASSUME SessionAssumption ==
  /\ Nonces \subseteq Nat \ {0} /\ BlockSizes \subseteq Nat
  /\ TransMod \in Nat \ {0} /\ SeqMod \in Nat \ {0}

-----------------------------------------------------------------------------
\* The P4 has not given up what EMOS holds: no reset of it and no newer PREPARE.
Same == p4Session.session.nonce = session.nonce

\* Whatever was lost, delayed or left over from before a reset: an active session
\* of EMOS is active at the P4 for the same transaction, unless the P4 has been
\* reset or prepared again; a block that EMOS has admitted is the one the P4 has
\* admitted, both then at the same sequence; no block of a session is admitted
\* twice; and the amount of a poll is that of the session asked about
\* (emos_console_packet and parallel_session_accept test what they share in two
\* places, at two times).
SessionsAgree ==
  /\ session.phase = "ACTIVE" /\ Same =>
       p4Session.session.phase = "ACTIVE" /\ p4Session.session.trans = session.trans
  /\ session.phase = "ACTIVE" => session.nonce \in used
  /\ link = "drain" /\ Same => p4Session.block = BlockOf(offer) /\ p4Session.session.seq = session.seq
  /\ \A i, j \in DOMAIN admitted :
       admitted[i].nonce = admitted[j].nonce /\ admitted[i].seq = admitted[j].seq => i = j
  /\ answer.n = answer.nonce
=============================================================================

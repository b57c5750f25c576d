------------------------- MODULE ConsoleModeProofs -------------------------
(***************************************************************************)
(* Proofs about ConsoleMode, for every number of transactions and every    *)
(* capacity of the wires.  The safety of a lease rests on the order of the *)
(* two FIFO wires: the PREPAREs on their way to the peer are newer than    *)
(* its lease and ascend, and what the peer has sent never gets newer than  *)
(* its lease.  Whoever has read the reply to its own PREPARE has therefore *)
(* read everything of the leases before it.                                *)
(***************************************************************************)
EXTENDS ConsoleMode, SequenceTheorems, TLAPS

-----------------------------------------------------------------------------
(* The inductive invariant.                                                *)

\* The types, by what a step touches.
PlaceTypes ==
    /\ mode \in {"LEGACY", "COMPAT"} /\ goal \in {"LEGACY", "COMPAT", "DUAL"}
    /\ pc \in {"idle", "prepare", "commit", "poll", "publish", "recover", "leave"}
    /\ route \in {0, 1} /\ queries \in {0, 1}
    /\ transaction \in 0 .. MaxTransaction /\ waiting \in Ops \cup {"no"}
FlagTypes ==
    /\ adapter \in BOOLEAN /\ owned \in BOOLEAN /\ lease \in BOOLEAN
    /\ accepted \in BOOLEAN /\ staging \in BOOLEAN /\ pollDone \in BOOLEAN
    /\ remote \in BOOLEAN /\ open \in BOOLEAN /\ rx \in BOOLEAN /\ faulted \in BOOLEAN
RequestType == request \in Packets
StageTypes ==
    /\ staged \in 0 .. MaxTransaction /\ sys \in 0 .. MaxTransaction
    /\ seen \subseteq {"mode", "cursor"}
PeerType ==
    peer \in [st : {"none", "prepared", "active", "left"}, tr : 0 .. MaxTransaction, nonce : Nonces]
WireTypes == toPeer \in Seq(Packets) /\ toEmos \in Seq(Packets)

\* What each place of a request owns, waits for and has staged.
PlaceInv ==
    /\ mode = "COMPAT" <=> route = 1
    /\ route = 1 => lease
    /\ lease => owned
    /\ owned => 0 < transaction
    /\ pc = "idle" => (owned <=> route = 1) /\ (lease <=> route = 1) /\ waiting = "no" /\ ~staging
    /\ pc \in {"prepare", "commit", "poll"} => route = 0 /\ owned /\ goal = "COMPAT"
    /\ pc = "prepare" => ~lease /\ waiting = "PREPARE" /\ ~staging
    /\ pc = "commit" => lease /\ waiting = "COMMIT" /\ ~staging
    /\ pc \in {"poll", "publish"} => lease /\ staging /\ waiting = "no"
    /\ pc = "publish" => route = 1 /\ pollDone
    /\ pc \in {"recover", "leave"} => (route = 1 => goal = "LEGACY" /\ ~staging)
    /\ pc = "recover" => waiting = "no"
    /\ pc = "leave" => lease /\ waiting \in {"LEAVE", "ABORT"}

\* A packet of a lease; the token of a poll is not one.
OfLease(p) == p.kind # "poll"
UpTo(s, n) == \A i \in 1 .. Len(s) : OfLease(s[i]) => s[i].tr <= n
OnlyOf(s, n) == \A i \in 1 .. Len(s) : OfLease(s[i]) => s[i].tr = n
Ascending(s) ==
    \A i, j \in 1 .. Len(s) : i < j /\ OfLease(s[i]) /\ OfLease(s[j]) => s[i].tr <= s[j].tr

\* The requests on their way to the peer: its next leases, in order.
Newer(s, n, m) == \A i \in 1 .. Len(s) : s[i].kind = "PREPARE" => n < s[i].tr /\ s[i].tr <= m
Rising(s) ==
    \A i, j \in 1 .. Len(s) :
        i < j /\ s[i].kind = "PREPARE" /\ s[j].kind = "PREPARE" => s[i].tr < s[j].tr

\* Both wires in the order of the leases.
WireInv ==
    /\ request.tr = transaction /\ peer.tr <= transaction
    /\ Newer(toPeer, peer.tr, transaction) /\ Rising(toPeer)
    /\ UpTo(toEmos, peer.tr) /\ Ascending(toEmos)

\* EMOS has read the answer of the peer to its latest PREPARE.
Leased == lease \/ (pc = "prepare" /\ accepted)
LeaseInv == Leased => peer.tr = transaction /\ OnlyOf(toEmos, transaction)

\* The peer that says it has left has left.
EndInv ==
    /\ \A i \in 1 .. Len(toEmos) :
          toEmos[i].kind \in {"LEAVE", "ABORT"} /\ toEmos[i].tr = peer.tr => peer.st \in {"left", "none"}
    /\ pc = "leave" /\ accepted => peer.st \in {"left", "none"}

\* What is staged, and then published, is of the current lease.
StageInv ==
    /\ pc \in {"poll", "publish"} => /\ seen # {} => staged = transaction
                                     /\ pollDone => seen = {"mode", "cursor"}
    /\ DisplayStateFollowsRoute

IInv == /\ PlaceTypes /\ FlagTypes /\ RequestType /\ StageTypes /\ PeerType /\ WireTypes
        /\ PlaceInv /\ WireInv /\ LeaseInv /\ EndInv /\ StageInv

-----------------------------------------------------------------------------
(* What the steps with alternatives do.                                    *)

\* emos_console_prepare: the transport is claimed, or the request is refused.
Claims == /\ ~lease /\ ~owned /\ owned' = TRUE /\ transaction' = transaction + 1 /\ pc' = "prepare"
          /\ request' = Control("PREPARE", transaction + 1, 0)
          /\ waiting' = "PREPARE" /\ accepted' = FALSE
          /\ toPeer' = Append(toPeer, request') \/ toPeer' = toPeer
          /\ open' = TRUE /\ rx' \in {rx, TRUE} /\ UNCHANGED <<remote, faulted>>
IsRefused == pc' = "recover" /\ UNCHANGED <<owned, transaction, replyVars, uartVars, toPeer>>

\* A request for compatibility starts a stage, or is refused.
LEMMA CompatCases ==
    RequestCompat => /\ pc = "idle" /\ mode = "LEGACY" /\ transaction < MaxTransaction
                     /\ goal' = "COMPAT" /\ adapter' = TRUE
                     /\ Claims \/ IsRefused
                     /\ UNCHANGED <<mode, route, lease, stageVars, sys, toEmos, queries, peer>>
BY DEF RequestCompat, Claim, Exchange, Send, Control, Claims, IsRefused

\* emos_console_packet: a reply, a display state to stage, the end of a poll, a display state.
Heard == Head(toEmos)
HearsReply == /\ Heard.kind \in Ops
              /\ accepted' = (accepted \/ Matches(Heard))
              /\ request' = IF Matches(Heard) THEN [request EXCEPT !.nonce = Heard.nonce] ELSE request
              /\ UNCHANGED <<waiting, stageVars, sys>>
StagesState == /\ Heard.kind \in {"mode", "cursor"} /\ staging
               /\ seen' = seen \cup {Heard.kind} /\ staged' = Heard.tr
               /\ UNCHANGED <<replyVars, staging, pollDone, sys>>
HearsPoll == /\ Heard.kind = "poll" /\ staging
             /\ pollDone' = (pollDone \/ (Heard.tr = PollToken /\ seen = {"mode", "cursor"}))
             /\ UNCHANGED <<replyVars, staging, staged, seen, sys>>
ShowsState == /\ ~staging
              /\ sys' = IF route = 1 /\ lease /\ Heard.kind # "poll" THEN Heard.tr ELSE sys
              /\ UNCHANGED <<replyVars, stageVars>>

\* A packet for the EMOS side is one of four kinds, and its handler takes it off the wire.
LEMMA DeliverCases ==
    Deliver => /\ toEmos # <<>> /\ toEmos' = Tail(toEmos)
               /\ HearsReply \/ StagesState \/ HearsPoll \/ ShowsState
               /\ UNCHANGED <<fgVars, uartVars, toPeer, queries, peer>>
BY DEF Deliver, HearsReply, StagesState, HearsPoll, ShowsState, Heard

\* The peer grants a lease, commits or ends it, reports its display, or ignores a packet.
Asked == Head(toPeer)
Grants == /\ Asked.kind = "PREPARE"
          /\ peer' = [st |-> "prepared", tr |-> Asked.tr, nonce |-> 3 - peer.nonce]
          /\ toEmos' = toEmos \o <<Control("PREPARE", Asked.tr, peer'.nonce)>>
Commits == /\ Asked.kind = "COMMIT" /\ Holds(Asked) /\ peer.st \in {"prepared", "active"}
           /\ peer' = [peer EXCEPT !.st = "active"] /\ toEmos' = toEmos \o <<Asked>>
Ends == /\ Asked.kind \in {"LEAVE", "ABORT"} /\ Holds(Asked)
        /\ peer' = [peer EXCEPT !.st = "left"] /\ toEmos' = toEmos \o <<Asked>>
Reports == /\ Asked.kind = "query" /\ peer.st = "active" /\ peer' = peer
           /\ toEmos' = toEmos \o <<Display("mode", peer.tr), Display("cursor", peer.tr),
                                    Display("poll", Asked.tr)>>
Ignores == Asked.kind # "PREPARE" /\ UNCHANGED <<peer, toEmos>>

\* A packet for the peer leads to one of five answers, and is off the wire.
LEMMA PeerCases ==
    PeerReceives => /\ toPeer # <<>> /\ toPeer' = Tail(toPeer)
                    /\ Grants \/ Commits \/ Ends \/ Reports \/ Ignores
                    /\ UNCHANGED <<fgVars, replyVars, stageVars, sys, uartVars, queries>>
BY DEF PeerReceives, Reply, Grants, Commits, Ends, Reports, Ignores, Asked

\* The head of a wire is a packet, and what is behind it are packets.
LEMMA WireHeads ==
    WireTypes => /\ toEmos # <<>> => Head(toEmos) \in Packets /\ Tail(toEmos) \in Seq(Packets)
                 /\ toPeer # <<>> => Head(toPeer) \in Packets /\ Tail(toPeer) \in Seq(Packets)
BY HeadTailProperties DEF WireTypes

\* What is sent to the peer are packets; a send may fail.
LEMMA SentTypes ==
    ASSUME WireTypes, NEW p \in Packets, toPeer' = Append(toPeer, p) \/ toPeer' = toPeer
    PROVE  toPeer' \in Seq(Packets)
BY AppendProperties DEF WireTypes

\* The packets of a lease.
LEMMA PacketTypes ==
    /\ \A op \in Ops, tr \in 0 .. MaxTransaction, n \in 0 .. 2 :
          [kind |-> op, tr |-> tr, nonce |-> n] \in Packets
    /\ \A k \in {"query", "mode", "cursor", "poll"}, tr \in 0 .. MaxTransaction :
          [kind |-> k, tr |-> tr, nonce |-> 0] \in Packets
    /\ \A p \in Packets : p.tr \in 0 .. MaxTransaction /\ p.nonce \in 0 .. 2
    /\ \A p \in Packets, op \in Ops : [p EXCEPT !.kind = op] \in Packets
    /\ \A p \in Packets, n \in 0 .. 2 : [p EXCEPT !.nonce = n] \in Packets
<1>1. \A op \in Ops, tr \in 0 .. MaxTransaction, n \in 0 .. 2 :
        [kind |-> op, tr |-> tr, nonce |-> n] \in Packets
    BY DEF Packets
<1>2. \A k \in {"query", "mode", "cursor", "poll"}, tr \in 0 .. MaxTransaction :
        [kind |-> k, tr |-> tr, nonce |-> 0] \in Packets
    BY DEF Packets
<1>3. \A p \in Packets : p.tr \in 0 .. MaxTransaction /\ p.nonce \in 0 .. 2
    BY DEF Packets
<1>4. \A p \in Packets, op \in Ops : [p EXCEPT !.kind = op] \in Packets
    BY DEF Packets
<1>5. \A p \in Packets, n \in 0 .. 2 : [p EXCEPT !.nonce = n] \in Packets
    BY DEF Packets
<1> QED BY <1>1, <1>2, <1>3, <1>4, <1>5

\* The token of a poll is a byte that two leases may share; here, 0 or 1.
LEMMA TokenRange == RequestType => PollToken \in 0 .. 1
<1> SUFFICES ASSUME RequestType PROVE PollToken \in 0 .. 1
    OBVIOUS
<1>1. request.nonce + request.tr \in Nat
    BY PacketTypes, BoundsAssumption DEF RequestType
<1> QED BY <1>1 DEF PollToken

-----------------------------------------------------------------------------
(* Wires: what reading, sending and losing packets preserve.               *)

\* What a wire holds once its first packet has been read.
LEMMA TailElements ==
    ASSUME NEW s \in Seq(Packets), s # <<>>
    PROVE  /\ Tail(s) \in Seq(Packets) /\ Len(Tail(s)) = Len(s) - 1 /\ Len(s) \in Nat
           /\ Head(s) \in Packets /\ 1 \in 1 .. Len(s) /\ s[1] = Head(s)
           /\ \A i \in 1 .. Len(Tail(s)) : i + 1 \in 1 .. Len(s) /\ 1 < i + 1 /\ Tail(s)[i] = s[i + 1]
OBVIOUS

\* What holds of all packets of a wire still holds once its first has been read.
LEMMA ReadWire ==
    ASSUME NEW s \in Seq(Packets), s # <<>>
    PROVE  /\ \A n : UpTo(s, n) => UpTo(Tail(s), n)
           /\ \A n : OnlyOf(s, n) => OnlyOf(Tail(s), n)
           /\ Ascending(s) => Ascending(Tail(s))
           /\ Rising(s) => Rising(Tail(s))
           /\ \A n, m : Newer(s, n, m) => Newer(Tail(s), n, m)
<1>1. \A n : UpTo(s, n) => UpTo(Tail(s), n)
    BY TailElements DEF UpTo
<1>2. \A n : OnlyOf(s, n) => OnlyOf(Tail(s), n)
    BY TailElements DEF OnlyOf
<1>3. Ascending(s) => Ascending(Tail(s))
    BY TailElements DEF Ascending
<1>4. Rising(s) => Rising(Tail(s))
    BY TailElements DEF Rising
<1>5. \A n, m : Newer(s, n, m) => Newer(Tail(s), n, m)
    BY TailElements DEF Newer
<1> QED BY <1>1, <1>2, <1>3, <1>4, <1>5

\* The head of an ascending wire is the oldest: what is behind it is as new.
LEMMA HeadIsOldest ==
    ASSUME NEW s \in Seq(Packets), s # <<>>, NEW n \in Int
    PROVE  /\ Ascending(s) /\ UpTo(s, n) /\ OfLease(Head(s)) /\ Head(s).tr = n
                => OnlyOf(Tail(s), n)
           /\ Rising(s) /\ Head(s).kind = "PREPARE"
                => \A m : Newer(s, n, m) => Newer(Tail(s), Head(s).tr, m)
<1>1. ASSUME Ascending(s), UpTo(s, n), OfLease(Head(s)), Head(s).tr = n
      PROVE  OnlyOf(Tail(s), n)
  <2> SUFFICES ASSUME NEW i \in 1 .. Len(Tail(s)), OfLease(Tail(s)[i])
               PROVE  Tail(s)[i].tr = n
      BY DEF OnlyOf
  <2>1. i + 1 \in 1 .. Len(s) /\ 1 \in 1 .. Len(s) /\ 1 < i + 1 /\ Tail(s)[i] = s[i + 1] /\ s[1] = Head(s)
      BY TailElements
  <2>2. n <= s[i + 1].tr /\ s[i + 1].tr <= n
      BY <1>1, <2>1 DEF Ascending, UpTo
  <2>3. s[i + 1].tr \in Int
      BY <2>1, PacketTypes
  <2> QED BY <2>1, <2>2, <2>3
<1>2. ASSUME Rising(s), Head(s).kind = "PREPARE", NEW m, Newer(s, n, m)
      PROVE  Newer(Tail(s), Head(s).tr, m)
    BY <1>2, TailElements DEF Rising, Newer
<1> QED BY <1>1, <1>2

\* A packet behind the others.
LEMMA SentOnWire ==
    ASSUME NEW s \in Seq(Packets), NEW p \in Packets
    PROVE  /\ p.kind # "PREPARE" /\ Rising(s) => Rising(Append(s, p))
           /\ \A n, m : p.kind # "PREPARE" /\ Newer(s, n, m) => Newer(Append(s, p), n, m)
           /\ \A n \in Int, m \in Int : Newer(s, n, m) /\ p.kind = "PREPARE" /\ n <= m /\ p.tr = m + 1
                 /\ Rising(s) => Newer(Append(s, p), n, m + 1) /\ Rising(Append(s, p))
<1>1. /\ Append(s, p) \in Seq(Packets) /\ Len(Append(s, p)) = Len(s) + 1 /\ Len(s) \in Nat
      /\ Append(s, p)[Len(s) + 1] = p
      /\ \A i \in 1 .. Len(s) : Append(s, p)[i] = s[i] /\ s[i] \in Packets /\ s[i].tr \in Int
    BY PacketTypes
<1>2. p.kind # "PREPARE" /\ Rising(s) => Rising(Append(s, p))
    BY <1>1 DEF Rising
<1>3. \A n, m : p.kind # "PREPARE" /\ Newer(s, n, m) => Newer(Append(s, p), n, m)
    BY <1>1 DEF Newer
<1>4. ASSUME NEW n \in Int, NEW m \in Int, Newer(s, n, m), p.kind = "PREPARE", n <= m, p.tr = m + 1,
             Rising(s)
      PROVE  Newer(Append(s, p), n, m + 1) /\ Rising(Append(s, p))
  <2>1. Newer(Append(s, p), n, m + 1)
      BY <1>1, <1>4 DEF Newer
  <2>2. Rising(Append(s, p))
      BY <1>1, <1>4 DEF Rising, Newer
  <2> QED BY <2>1, <2>2
<1> QED BY <1>2, <1>3, <1>4

\* The packets of the peer's own lease, behind the others.
LEMMA AnsweredOnWire ==
    ASSUME NEW s \in Seq(Packets), NEW e \in Seq(Packets), NEW n \in Int, NEW m \in Int, n <= m,
           UpTo(s, n), Ascending(s), OnlyOf(e, m)
    PROVE  /\ s \o e \in Seq(Packets) /\ UpTo(s \o e, m) /\ Ascending(s \o e)
           /\ OnlyOf(s, m) => OnlyOf(s \o e, m)
<1>1. /\ s \o e \in Seq(Packets) /\ Len(s \o e) = Len(s) + Len(e)
      /\ Len(s) \in Nat /\ Len(e) \in Nat
      /\ \A i \in 1 .. Len(s) : (s \o e)[i] = s[i] /\ s[i].tr \in Int
      /\ \A i \in Len(s) + 1 .. Len(s) + Len(e) :
            (s \o e)[i] = e[i - Len(s)] /\ i - Len(s) \in 1 .. Len(e)
    BY PacketTypes
<1>2. \A i \in 1 .. Len(s \o e) : i \in 1 .. Len(s) \/ i \in Len(s) + 1 .. Len(s) + Len(e)
    BY <1>1
<1>3. UpTo(s \o e, m)
    BY <1>1, <1>2 DEF UpTo, OnlyOf
<1>4. Ascending(s \o e)
  <2> SUFFICES ASSUME NEW i \in 1 .. Len(s \o e), NEW j \in 1 .. Len(s \o e), i < j,
                      OfLease((s \o e)[i]), OfLease((s \o e)[j])
               PROVE  (s \o e)[i].tr <= (s \o e)[j].tr
      BY DEF Ascending
  <2>1. CASE j \in 1 .. Len(s)
      BY <1>1, <2>1 DEF Ascending
  <2>2. CASE j \in Len(s) + 1 .. Len(s) + Len(e)
      BY <1>1, <1>2, <1>3, <2>2 DEF UpTo, OnlyOf
  <2> QED BY <1>2, <2>1, <2>2
<1>5. OnlyOf(s, m) => OnlyOf(s \o e, m)
    BY <1>1, <1>2 DEF OnlyOf
<1> QED BY <1>1, <1>3, <1>4, <1>5

\* The steps that send to the peer send no PREPARE and keep the transaction of the request.
LEMMA Sends ==
    ASSUME PlaceTypes, PlaceInv, RequestType, WireTypes, Prepared \/ Committed \/ Recover
    PROVE  /\ \E p \in Packets : p.kind # "PREPARE" /\ (toPeer' = Append(toPeer, p) \/ toPeer' = toPeer)
           /\ request' \in Packets /\ request'.tr = request.tr
           /\ UNCHANGED <<toEmos, peer, transaction>>
<1>1. \A op \in Ops : /\ [request EXCEPT !.kind = op] \in Packets
                      /\ [request EXCEPT !.kind = op].tr = request.tr
                      /\ [request EXCEPT !.kind = op].kind = op
    BY PacketTypes DEF RequestType, Packets
<1>2. CASE Prepared
  <2>1. request' = [request EXCEPT !.kind = "COMMIT"] /\ (toPeer' = Append(toPeer, request') \/ toPeer' = toPeer)
      BY <1>2 DEF Prepared, Exchange, Send
  <2> QED BY <1>1, <1>2, <2>1 DEF Prepared, Ops
<1>3. CASE Committed
  <2>1. Display("query", PollToken) \in Packets /\ Display("query", PollToken).kind = "query"
    <3>1. PollToken \in 0 .. MaxTransaction
        BY <1>3, TokenRange, BoundsAssumption DEF Committed, PlaceInv, PlaceTypes
    <3> QED BY <3>1, PacketTypes DEF Display
  <2> QED BY <1>3, <2>1 DEF Committed, Send, RequestType
<1>4. CASE Recover
  <2>1. \E op \in {"LEAVE", "ABORT"} : request' = [request EXCEPT !.kind = op]
                                       /\ (toPeer' = Append(toPeer, request') \/ toPeer' = toPeer)
      BY <1>4 DEF Recover, Exchange, Send
  <2> QED BY <1>1, <1>4, <2>1 DEF Recover, Ops
<1> QED BY <1>2, <1>3, <1>4

\* One packet, and the three of a report.
LEMMA FewPackets ==
    ASSUME NEW p \in Packets, NEW q \in Packets, NEW r \in Packets
    PROVE  /\ <<p>> \in Seq(Packets) /\ Len(<<p>>) = 1 /\ <<p>>[1] = p
           /\ <<p, q, r>> \in Seq(Packets) /\ Len(<<p, q, r>>) = 3
           /\ \A i \in 1 .. 3 : <<p, q, r>>[i] \in {p, q, r}
OBVIOUS

\* What the peer says, behind what it has said: all of it is of its lease.
Answer(e) ==
    /\ toEmos' = toEmos \o e /\ OnlyOf(e, peer'.tr)
    /\ peer.tr <= peer'.tr /\ (peer'.tr = peer.tr \/ peer'.tr <= transaction)
    /\ peer.tr = transaction => peer'.tr = peer.tr
    /\ \A i \in 1 .. Len(e) : e[i].kind \in {"LEAVE", "ABORT"} => peer'.st = "left"
    /\ peer'.tr = peer.tr /\ peer.st \in {"left", "none"} => peer'.st \in {"left", "none"}

\* Whatever the peer does, at most one packet is added to the wire.
LEMMA Answers ==
    ASSUME PeerType, PlaceTypes, WireTypes, Newer(toPeer, peer.tr, transaction),
           PeerReceives \/ PeerEffect
    PROVE  \E e \in Seq(Packets) : Answer(e)
<1>0. /\ peer.tr \in 0 .. MaxTransaction /\ peer.nonce \in 0 .. 2 /\ 3 - peer.nonce \in 0 .. 2
      /\ transaction \in Int
    BY BoundsAssumption DEF PeerType, PlaceTypes, Nonces
<1>1. toPeer # <<>> => Asked \in Packets /\ Asked.tr \in 0 .. MaxTransaction
    BY WireHeads, PacketTypes DEF Asked
<1>2. CASE PeerEffect
  <2>1. Display("mode", peer.tr) \in Packets
      BY <1>0, PacketTypes DEF Display
  <2>2. Answer(<<Display("mode", peer.tr)>>)
      BY <1>0, <1>2, <2>1, FewPackets DEF PeerEffect, Reply, Display, OnlyOf, Answer
  <2> QED BY <2>1, <2>2, FewPackets
<1>3. CASE PeerReceives
  <2>0. toPeer # <<>>
      BY <1>3, PeerCases
  <2>1. CASE Grants
    <3>1. Control("PREPARE", Asked.tr, peer'.nonce) \in Packets
        BY <1>0, <1>1, <2>0, <2>1, PacketTypes DEF Grants, Control, Ops
    <3>2. peer.tr < Asked.tr /\ Asked.tr <= transaction
        BY <2>0, <2>1, TailElements DEF Grants, Asked, Newer, WireTypes
    <3>3. peer'.tr = Asked.tr /\ peer.tr <= peer'.tr
        BY <1>0, <1>1, <2>0, <2>1, <3>2 DEF Grants
    <3>4. Answer(<<Control("PREPARE", Asked.tr, peer'.nonce)>>)
        BY <1>0, <1>1, <2>0, <2>1, <3>1, <3>2, <3>3, FewPackets DEF Grants, Control, OnlyOf, Answer
    <3> QED BY <3>1, <3>4, FewPackets
  <2>2. CASE Commits \/ Ends
    <3>1. /\ peer'.tr = peer.tr /\ Asked.tr = peer.tr /\ toEmos' = toEmos \o <<Asked>>
          /\ Asked.kind \in {"LEAVE", "ABORT"} => peer'.st = "left"
          /\ peer.st \in {"left", "none"} => peer'.st \in {"left", "none"}
        BY <2>2 DEF Commits, Ends, Holds, PeerType
    <3>2. Answer(<<Asked>>)
        BY <1>0, <1>1, <2>0, <3>1, FewPackets DEF OnlyOf, Answer
    <3> QED BY <1>1, <2>0, <3>2, FewPackets
  <2>3. CASE Reports
    <3>1. /\ Display("mode", peer.tr) \in Packets /\ Display("cursor", peer.tr) \in Packets
          /\ Display("poll", Asked.tr) \in Packets
        BY <1>0, <1>1, <2>0, PacketTypes DEF Display
    <3> DEFINE e == <<Display("mode", peer.tr), Display("cursor", peer.tr), Display("poll", Asked.tr)>>
    <3>2. e \in Seq(Packets) /\ Len(e) = 3
          /\ \A i \in 1 .. 3 : e[i] \in {Display("mode", peer.tr), Display("cursor", peer.tr),
                                         Display("poll", Asked.tr)}
        BY <3>1, FewPackets
    <3>3. OnlyOf(e, peer.tr) /\ \A i \in 1 .. Len(e) : e[i].kind \notin {"LEAVE", "ABORT"}
        BY <3>2 DEF OnlyOf, OfLease, Display
    <3>4. Answer(e)
        BY <1>0, <2>3, <3>3 DEF Reports, Answer
    <3> QED BY <3>2, <3>4
  <2>4. CASE Ignores
    <3>1. <<>> \in Seq(Packets) /\ Len(<<>>) = 0 /\ toEmos \o <<>> = toEmos
        BY ConcatEmptySeq DEF WireTypes
    <3>2. Answer(<<>>)
        BY <1>0, <2>4, <3>1 DEF Ignores, OnlyOf, Answer
    <3> QED BY <3>1, <3>2
  <2> QED BY <1>3, <2>1, <2>2, <2>3, <2>4, PeerCases
<1> QED BY <1>2, <1>3

\* The request keeps its types.
LEMMA PlaceTypesStep == IInv /\ [Next]_vars => PlaceTypes'
<1> SUFFICES ASSUME IInv, [Next]_vars PROVE PlaceTypes'
    OBVIOUS
<1>1. PlaceTypes
    BY DEF IInv
<1>2. CASE UNCHANGED vars
    BY <1>1, <1>2, BoundsAssumption DEF PlaceTypes, Ops, vars, fgVars, replyVars,
       stageVars, uartVars
<1>3. CASE Requests
  <2>1. CASE RequestCompat
    <3>1. CASE Claims
      BY <1>1, BoundsAssumption, <2>1, <3>1, CompatCases DEF PlaceTypes, Ops, Claims,
         Control, fgVars, replyVars, stageVars, uartVars
    <3>2. CASE IsRefused
      BY <1>1, BoundsAssumption, <2>1, <3>2, CompatCases DEF PlaceTypes, Ops, IsRefused,
         replyVars, uartVars, RequestCompat, Claims, stageVars, Claim, Exchange,
         Send, Control, fgVars
    <3> QED BY <2>1, <3>1, <3>2, CompatCases
  <2>2. CASE RequestLegacy
    BY <1>1, <2>2, BoundsAssumption DEF PlaceTypes, Ops, RequestLegacy, replyVars,
       stageVars, uartVars
  <2>3. CASE RequestOther
    BY <1>1, <2>3, BoundsAssumption DEF PlaceTypes, Ops, RequestOther, replyVars,
       stageVars, uartVars
  <2> QED BY <1>3, <2>1, <2>2, <2>3 DEF Requests
<1>4. CASE Foreground
  <2>1. CASE Prepared
    BY <1>1, <2>1, BoundsAssumption DEF PlaceTypes, Ops, Prepared, Answered,
       Exchange, stageVars, uartVars, Send
  <2>2. CASE Committed
    BY <1>1, <2>2, BoundsAssumption DEF PlaceTypes, Ops, Committed, Answered, Send,
       Display, PollToken, uartVars
  <2>3. CASE Routed
    BY <1>1, <2>3, BoundsAssumption DEF PlaceTypes, Ops, Routed, replyVars,
       stageVars, uartVars
  <2>4. CASE Publish
    BY <1>1, <2>4, BoundsAssumption DEF PlaceTypes, Ops, Publish, replyVars, uartVars
  <2>5. CASE Recover
    BY <1>1, <2>5, BoundsAssumption DEF PlaceTypes, Ops, Recover, Exchange,
       stageVars, uartVars, Send
  <2>6. CASE RecoverUnleased
    BY <1>1, <2>6, BoundsAssumption DEF PlaceTypes, Ops, RecoverUnleased, Released,
       Release, uartVars
  <2>7. CASE Left
    BY <1>1, <2>7, BoundsAssumption DEF PlaceTypes, Ops, Left, Answered, Released,
       Release, uartVars
  <2> QED BY <1>4, <2>1, <2>2, <2>3, <2>4, <2>5, <2>6, <2>7 DEF Foreground
<1>5. CASE GivesUp
  <2>1. CASE EntryFails
    BY <1>1, <2>1, BoundsAssumption DEF PlaceTypes, Ops, EntryFails, GivenUp,
       stageVars, uartVars, Answered
  <2>2. CASE Retained
    BY <1>1, <2>2, BoundsAssumption DEF PlaceTypes, Ops, Retained, GivenUp,
       stageVars, uartVars, Answered
  <2> QED BY <1>5, <2>1, <2>2 DEF GivesUp
<1>6. CASE Deliver
  <2>1. CASE HearsReply
    BY <1>1, BoundsAssumption, <1>6, <2>1, DeliverCases DEF PlaceTypes, Ops, HearsReply,
       Heard, Matches, stageVars, fgVars, replyVars, uartVars
  <2>2. CASE StagesState
    BY <1>1, BoundsAssumption, <1>6, <2>2, DeliverCases DEF PlaceTypes, Ops,
       StagesState, Heard, replyVars, fgVars, stageVars, uartVars
  <2>3. CASE HearsPoll
    BY <1>1, BoundsAssumption, <1>6, <2>3, DeliverCases DEF PlaceTypes, Ops, HearsPoll,
       Heard, PollToken, replyVars, fgVars, stageVars, uartVars
  <2>4. CASE ShowsState
    BY <1>1, BoundsAssumption, <1>6, <2>4, DeliverCases DEF PlaceTypes, Ops, ShowsState,
       Heard, replyVars, stageVars, Deliver, HearsReply, StagesState, HearsPoll,
       fgVars, uartVars, Matches, PollToken
  <2> QED BY <1>6, <2>1, <2>2, <2>3, <2>4, DeliverCases
<1>7. CASE BoardAnswers
    BY <1>1, <1>7, BoundsAssumption DEF PlaceTypes, Ops, BoardAnswers, BoardEffect,
       fgVars, replyVars, stageVars, uartVars
<1>8. CASE Fault
    BY <1>1, <1>8, BoundsAssumption DEF PlaceTypes, Ops, Fault, fgVars, replyVars,
       stageVars
<1>9. CASE Select
  <2>1. CASE SelectRemote
    BY <1>1, <2>1, BoundsAssumption DEF PlaceTypes, Ops, SelectRemote, fgVars,
       replyVars, stageVars
  <2>2. CASE SelectMainboard
    BY <1>1, <2>2, BoundsAssumption DEF PlaceTypes, Ops, SelectMainboard, fgVars,
       replyVars, stageVars
  <2> QED BY <1>9, <2>1, <2>2 DEF Select
<1>10. CASE PeerReceives
  <2>1. CASE Grants
    BY <1>1, BoundsAssumption, <1>10, <2>1, PeerCases DEF PlaceTypes, Ops, Grants, Asked,
       Control, fgVars, replyVars, stageVars, uartVars
  <2>2. CASE Commits
    BY <1>1, BoundsAssumption, <1>10, <2>2, PeerCases DEF PlaceTypes, Ops, Commits,
       Asked, Holds, fgVars, replyVars, stageVars, uartVars
  <2>3. CASE Ends
    BY <1>1, BoundsAssumption, <1>10, <2>3, PeerCases DEF PlaceTypes, Ops, Ends, Asked,
       Holds, fgVars, replyVars, stageVars, uartVars
  <2>4. CASE Reports
    BY <1>1, BoundsAssumption, <1>10, <2>4, PeerCases DEF PlaceTypes, Ops, Reports,
       Asked, Display, fgVars, replyVars, stageVars, uartVars
  <2>5. CASE Ignores
    BY <1>1, BoundsAssumption, <1>10, <2>5, PeerCases DEF PlaceTypes, Ops, Ignores,
       Asked, PeerReceives, Grants, Commits, Ends, Reports, fgVars, replyVars,
       stageVars, uartVars, Reply, WireTypes, RequestType, PollToken, UpTo, OnlyOf,
       Ascending, Rising, Newer, OfLease, PlaceInv, Prepared, Committed, Recover,
       Exchange, Send, Display, Control, Holds, Answered
  <2> QED BY <1>10, <2>1, <2>2, <2>3, <2>4, <2>5, PeerCases
<1>11. CASE PeerEffect
    BY <1>1, <1>11, BoundsAssumption DEF PlaceTypes, Ops, PeerEffect, Reply, Display,
       fgVars, replyVars, stageVars, uartVars
<1>12. CASE PeerReset
    BY <1>1, <1>12, BoundsAssumption DEF PlaceTypes, Ops, PeerReset, fgVars,
       replyVars, stageVars, uartVars
<1> QED BY <1>2, <1>3, <1>4, <1>5, <1>6, <1>7, <1>8, <1>9, <1>10, <1>11, <1>12 DEF
   Next

\* The flags stay Boolean.
LEMMA FlagTypesStep == IInv /\ [Next]_vars => FlagTypes'
<1> SUFFICES ASSUME IInv, [Next]_vars PROVE FlagTypes'
    OBVIOUS
<1>1. FlagTypes
    BY DEF IInv
<1>2. CASE UNCHANGED vars
    BY <1>1, <1>2 DEF FlagTypes, vars, fgVars, replyVars, stageVars, uartVars
<1>3. CASE Requests
  <2>1. CASE RequestCompat
    <3>1. CASE Claims
      BY <1>1, <2>1, <3>1, CompatCases DEF FlagTypes, Claims, Control, fgVars,
         replyVars, stageVars, uartVars
    <3>2. CASE IsRefused
      BY <1>1, <2>1, <3>2, CompatCases DEF FlagTypes, IsRefused, replyVars, uartVars,
         RequestCompat, Claims, stageVars, Claim, Exchange, Send, Control, fgVars
    <3> QED BY <2>1, <3>1, <3>2, CompatCases
  <2>2. CASE RequestLegacy
    BY <1>1, <2>2 DEF FlagTypes, RequestLegacy, replyVars, stageVars, uartVars
  <2>3. CASE RequestOther
    BY <1>1, <2>3 DEF FlagTypes, RequestOther, replyVars, stageVars, uartVars
  <2> QED BY <1>3, <2>1, <2>2, <2>3 DEF Requests
<1>4. CASE Foreground
  <2>1. CASE Prepared
    BY <1>1, <2>1 DEF FlagTypes, Prepared, Answered, Exchange, stageVars, uartVars,
       Send
  <2>2. CASE Committed
    BY <1>1, <2>2 DEF FlagTypes, Committed, Answered, Send, Display, PollToken,
       uartVars
  <2>3. CASE Routed
    BY <1>1, <2>3 DEF FlagTypes, Routed, replyVars, stageVars, uartVars
  <2>4. CASE Publish
    BY <1>1, <2>4 DEF FlagTypes, Publish, replyVars, uartVars
  <2>5. CASE Recover
    BY <1>1, <2>5 DEF FlagTypes, Recover, Exchange, stageVars, uartVars, Send
  <2>6. CASE RecoverUnleased
    BY <1>1, <2>6 DEF FlagTypes, RecoverUnleased, Released, Release, uartVars
  <2>7. CASE Left
    BY <1>1, <2>7 DEF FlagTypes, Left, Answered, Released, Release, uartVars
  <2> QED BY <1>4, <2>1, <2>2, <2>3, <2>4, <2>5, <2>6, <2>7 DEF Foreground
<1>5. CASE GivesUp
  <2>1. CASE EntryFails
    BY <1>1, <2>1 DEF FlagTypes, EntryFails, GivenUp, stageVars, uartVars, Answered
  <2>2. CASE Retained
    BY <1>1, <2>2 DEF FlagTypes, Retained, GivenUp, stageVars, uartVars, Answered
  <2> QED BY <1>5, <2>1, <2>2 DEF GivesUp
<1>6. CASE Deliver
  <2>1. CASE HearsReply
    BY <1>1, <1>6, <2>1, DeliverCases DEF FlagTypes, HearsReply, Heard, Matches,
       stageVars, fgVars, replyVars, uartVars
  <2>2. CASE StagesState
    BY <1>1, <1>6, <2>2, DeliverCases DEF FlagTypes, StagesState, Heard, replyVars,
       fgVars, stageVars, uartVars
  <2>3. CASE HearsPoll
    BY <1>1, <1>6, <2>3, DeliverCases DEF FlagTypes, HearsPoll, Heard, PollToken,
       replyVars, fgVars, stageVars, uartVars
  <2>4. CASE ShowsState
    BY <1>1, <1>6, <2>4, DeliverCases DEF FlagTypes, ShowsState, Heard, replyVars,
       stageVars, Deliver, HearsReply, StagesState, HearsPoll, fgVars, uartVars,
       Matches, PollToken
  <2> QED BY <1>6, <2>1, <2>2, <2>3, <2>4, DeliverCases
<1>7. CASE BoardAnswers
    BY <1>1, <1>7 DEF FlagTypes, BoardAnswers, BoardEffect, fgVars, replyVars,
       stageVars, uartVars
<1>8. CASE Fault
    BY <1>1, <1>8 DEF FlagTypes, Fault, fgVars, replyVars, stageVars
<1>9. CASE Select
  <2>1. CASE SelectRemote
    BY <1>1, <2>1 DEF FlagTypes, SelectRemote, fgVars, replyVars, stageVars
  <2>2. CASE SelectMainboard
    BY <1>1, <2>2 DEF FlagTypes, SelectMainboard, fgVars, replyVars, stageVars
  <2> QED BY <1>9, <2>1, <2>2 DEF Select
<1>10. CASE PeerReceives
  <2>1. CASE Grants
    BY <1>1, <1>10, <2>1, PeerCases DEF FlagTypes, Grants, Asked, Control, fgVars,
       replyVars, stageVars, uartVars
  <2>2. CASE Commits
    BY <1>1, <1>10, <2>2, PeerCases DEF FlagTypes, Commits, Asked, Holds, fgVars,
       replyVars, stageVars, uartVars
  <2>3. CASE Ends
    BY <1>1, <1>10, <2>3, PeerCases DEF FlagTypes, Ends, Asked, Holds, fgVars, replyVars,
       stageVars, uartVars
  <2>4. CASE Reports
    BY <1>1, <1>10, <2>4, PeerCases DEF FlagTypes, Reports, Asked, Display, fgVars,
       replyVars, stageVars, uartVars
  <2>5. CASE Ignores
    BY <1>1, <1>10, <2>5, PeerCases DEF FlagTypes, Ignores, Asked, PeerReceives, Grants,
       Commits, Ends, Reports, fgVars, replyVars, stageVars, uartVars, Reply,
       WireTypes, RequestType, PollToken, UpTo, OnlyOf, Ascending, Rising, Newer,
       OfLease, PlaceTypes, PlaceInv, Prepared, Committed, Recover, Exchange, Send,
       Display, Control, Holds, Answered
  <2> QED BY <1>10, <2>1, <2>2, <2>3, <2>4, <2>5, PeerCases
<1>11. CASE PeerEffect
    BY <1>1, <1>11 DEF FlagTypes, PeerEffect, Reply, Display, fgVars, replyVars,
       stageVars, uartVars
<1>12. CASE PeerReset
    BY <1>1, <1>12 DEF FlagTypes, PeerReset, fgVars, replyVars, stageVars, uartVars
<1> QED BY <1>2, <1>3, <1>4, <1>5, <1>6, <1>7, <1>8, <1>9, <1>10, <1>11, <1>12 DEF
   Next

\* What is staged and published is of some transaction.
LEMMA StageTypesStep == IInv /\ [Next]_vars => StageTypes'
<1> SUFFICES ASSUME IInv, [Next]_vars PROVE StageTypes'
    OBVIOUS
<1>1. StageTypes
    BY DEF IInv
<1>2. WireTypes
    BY DEF IInv
<1>3. CASE UNCHANGED vars
    BY <1>1, <1>2, <1>3, BoundsAssumption DEF StageTypes, vars, fgVars, replyVars,
       stageVars, uartVars
<1>4. CASE Requests
  <2>1. CASE RequestCompat
    <3>1. CASE Claims
      BY <1>1, <1>2, BoundsAssumption, <2>1, <3>1, CompatCases DEF StageTypes, Claims,
         Control, fgVars, replyVars, stageVars, uartVars
    <3>2. CASE IsRefused
      BY <1>1, <1>2, BoundsAssumption, <2>1, <3>2, CompatCases DEF StageTypes,
         IsRefused, replyVars, uartVars, RequestCompat, Claims, stageVars, Claim,
         Exchange, Send, Control, fgVars
    <3> QED BY <2>1, <3>1, <3>2, CompatCases
  <2>2. CASE RequestLegacy
    BY <1>1, <1>2, <2>2, BoundsAssumption DEF StageTypes, RequestLegacy, replyVars,
       stageVars, uartVars
  <2>3. CASE RequestOther
    BY <1>1, <1>2, <2>3, BoundsAssumption DEF StageTypes, RequestOther, replyVars,
       stageVars, uartVars
  <2> QED BY <1>4, <2>1, <2>2, <2>3 DEF Requests
<1>5. CASE Foreground
  <2>1. CASE Prepared
    BY <1>1, <1>2, <2>1, BoundsAssumption DEF StageTypes, Prepared, Answered,
       Exchange, stageVars, uartVars, Send
  <2>2. CASE Committed
    BY <1>1, <1>2, <2>2, BoundsAssumption DEF StageTypes, Committed, Answered, Send,
       Display, PollToken, uartVars
  <2>3. CASE Routed
    BY <1>1, <1>2, <2>3, BoundsAssumption DEF StageTypes, Routed, replyVars,
       stageVars, uartVars
  <2>4. CASE Publish
    BY <1>1, <1>2, <2>4, BoundsAssumption DEF StageTypes, Publish, replyVars,
       uartVars
  <2>5. CASE Recover
    BY <1>1, <1>2, <2>5, BoundsAssumption DEF StageTypes, Recover, Exchange,
       stageVars, uartVars, Send
  <2>6. CASE RecoverUnleased
    BY <1>1, <1>2, <2>6, BoundsAssumption DEF StageTypes, RecoverUnleased, Released,
       Release, uartVars
  <2>7. CASE Left
    BY <1>1, <1>2, <2>7, BoundsAssumption DEF StageTypes, Left, Answered, Released,
       Release, uartVars
  <2> QED BY <1>5, <2>1, <2>2, <2>3, <2>4, <2>5, <2>6, <2>7 DEF Foreground
<1>6. CASE GivesUp
  <2>1. CASE EntryFails
    BY <1>1, <1>2, <2>1, BoundsAssumption DEF StageTypes, EntryFails, GivenUp,
       stageVars, uartVars, Answered
  <2>2. CASE Retained
    BY <1>1, <1>2, <2>2, BoundsAssumption DEF StageTypes, Retained, GivenUp,
       stageVars, uartVars, Answered
  <2> QED BY <1>6, <2>1, <2>2 DEF GivesUp
<1>7. CASE Deliver
  <2>1. CASE HearsReply
    BY <1>1, <1>7, <2>1, DeliverCases DEF StageTypes, HearsReply, Heard, Matches,
       stageVars, fgVars, replyVars, uartVars
  <2>2. CASE StagesState
    BY <1>1, <1>2, BoundsAssumption, <1>7, <2>2, DeliverCases, WireHeads DEF StageTypes,
       StagesState, Heard, replyVars, fgVars, stageVars, uartVars, Packets
  <2>3. CASE HearsPoll
    BY <1>1, <1>2, BoundsAssumption, <1>7, <2>3, DeliverCases DEF StageTypes, HearsPoll,
       Heard, PollToken, replyVars, fgVars, stageVars, uartVars
  <2>4. CASE ShowsState
    BY <1>1, <1>2, BoundsAssumption, <1>7, <2>4, DeliverCases, WireHeads DEF StageTypes,
       ShowsState, Heard, replyVars, stageVars, Deliver, HearsReply, StagesState,
       HearsPoll, fgVars, uartVars, Matches, PollToken, Packets
  <2> QED BY <1>7, <2>1, <2>2, <2>3, <2>4, DeliverCases
<1>8. CASE BoardAnswers
    BY <1>1, <1>2, <1>8, BoundsAssumption DEF StageTypes, BoardAnswers, BoardEffect,
       fgVars, replyVars, stageVars, uartVars
<1>9. CASE Fault
    BY <1>1, <1>2, <1>9, BoundsAssumption DEF StageTypes, Fault, fgVars, replyVars,
       stageVars
<1>10. CASE Select
  <2>1. CASE SelectRemote
    BY <1>1, <1>2, <2>1, BoundsAssumption DEF StageTypes, SelectRemote, fgVars,
       replyVars, stageVars
  <2>2. CASE SelectMainboard
    BY <1>1, <1>2, <2>2, BoundsAssumption DEF StageTypes, SelectMainboard, fgVars,
       replyVars, stageVars
  <2> QED BY <1>10, <2>1, <2>2 DEF Select
<1>11. CASE PeerReceives
  <2>1. CASE Grants
    BY <1>1, <1>2, BoundsAssumption, <1>11, <2>1, PeerCases DEF StageTypes, Grants,
       Asked, Control, fgVars, replyVars, stageVars, uartVars
  <2>2. CASE Commits
    BY <1>1, <1>2, BoundsAssumption, <1>11, <2>2, PeerCases DEF StageTypes, Commits,
       Asked, Holds, fgVars, replyVars, stageVars, uartVars
  <2>3. CASE Ends
    BY <1>1, <1>2, BoundsAssumption, <1>11, <2>3, PeerCases DEF StageTypes, Ends, Asked,
       Holds, fgVars, replyVars, stageVars, uartVars
  <2>4. CASE Reports
    BY <1>1, <1>2, BoundsAssumption, <1>11, <2>4, PeerCases DEF StageTypes, Reports,
       Asked, Display, fgVars, replyVars, stageVars, uartVars
  <2>5. CASE Ignores
    BY <1>1, <1>2, BoundsAssumption, <1>11, <2>5, PeerCases DEF StageTypes, Ignores,
       Asked, PeerReceives, Grants, Commits, Ends, Reports, fgVars, replyVars,
       stageVars, uartVars, Reply, WireTypes, RequestType, PollToken, UpTo, OnlyOf,
       Ascending, Rising, Newer, OfLease, PlaceTypes, PlaceInv, Prepared, Committed,
       Recover, Exchange, Send, Display, Control, Holds, Answered
  <2> QED BY <1>11, <2>1, <2>2, <2>3, <2>4, <2>5, PeerCases
<1>12. CASE PeerEffect
    BY <1>1, <1>2, <1>12, BoundsAssumption DEF StageTypes, PeerEffect, Reply,
       Display, fgVars, replyVars, stageVars, uartVars
<1>13. CASE PeerReset
    BY <1>1, <1>2, <1>13, BoundsAssumption DEF StageTypes, PeerReset, fgVars,
       replyVars, stageVars, uartVars
<1> QED BY <1>3, <1>4, <1>5, <1>6, <1>7, <1>8, <1>9, <1>10, <1>11, <1>12, <1>13 DEF
   Next

\* The places of a request keep what they own.
LEMMA PlaceInvStep == IInv /\ [Next]_vars => PlaceInv'
<1> SUFFICES ASSUME IInv, [Next]_vars PROVE PlaceInv'
    OBVIOUS
<1>1. PlaceInv
    BY DEF IInv
<1>2. PlaceTypes
    BY DEF IInv
<1>3. FlagTypes
    BY DEF IInv
<1>4. CASE UNCHANGED vars
    BY <1>1, <1>2, <1>3, <1>4 DEF PlaceInv, PlaceTypes, FlagTypes, Ops, vars, fgVars,
       replyVars, stageVars, uartVars
<1>5. CASE Requests
  <2>1. CASE RequestCompat
    <3>1. CASE Claims
      BY <1>1, <1>2, <1>3, <2>1, <3>1, CompatCases DEF PlaceInv, PlaceTypes, FlagTypes,
         Ops, Claims, Control, fgVars, replyVars, stageVars, uartVars
    <3>2. CASE IsRefused
      BY <1>1, <1>2, <1>3, <2>1, <3>2, CompatCases DEF PlaceInv, PlaceTypes, FlagTypes,
         Ops, IsRefused, replyVars, uartVars, RequestCompat, Claims, stageVars,
         Claim, Exchange, Send, Control, fgVars
    <3> QED BY <2>1, <3>1, <3>2, CompatCases
  <2>2. CASE RequestLegacy
    BY <1>1, <1>2, <1>3, <2>2 DEF PlaceInv, PlaceTypes, FlagTypes, Ops,
       RequestLegacy, replyVars, stageVars, uartVars
  <2>3. CASE RequestOther
    BY <1>1, <1>2, <1>3, <2>3 DEF PlaceInv, PlaceTypes, FlagTypes, Ops, RequestOther,
       replyVars, stageVars, uartVars
  <2> QED BY <1>5, <2>1, <2>2, <2>3 DEF Requests
<1>6. CASE Foreground
  <2>1. CASE Prepared
    BY <1>1, <1>2, <1>3, <2>1 DEF PlaceInv, PlaceTypes, FlagTypes, Ops, Prepared,
       Answered, Exchange, stageVars, uartVars, Send
  <2>2. CASE Committed
    BY <1>1, <1>2, <1>3, <2>2 DEF PlaceInv, PlaceTypes, FlagTypes, Ops, Committed,
       Answered, Send, Display, PollToken, uartVars
  <2>3. CASE Routed
    BY <1>1, <1>2, <1>3, <2>3 DEF PlaceInv, PlaceTypes, FlagTypes, Ops, Routed,
       replyVars, stageVars, uartVars
  <2>4. CASE Publish
    BY <1>1, <1>2, <1>3, <2>4 DEF PlaceInv, PlaceTypes, FlagTypes, Ops, Publish,
       replyVars, uartVars
  <2>5. CASE Recover
    BY <1>1, <1>2, <1>3, <2>5 DEF PlaceInv, PlaceTypes, FlagTypes, Ops, Recover,
       Exchange, stageVars, uartVars, Send
  <2>6. CASE RecoverUnleased
    BY <1>1, <1>2, <1>3, <2>6 DEF PlaceInv, PlaceTypes, FlagTypes, Ops,
       RecoverUnleased, Released, Release, uartVars
  <2>7. CASE Left
    <3>1. pc = "leave" /\ pc' = "idle" /\ Released
      BY <2>7 DEF Left, Released
    <3>2. CASE goal = "LEGACY"
      <4>1. /\ mode' = "LEGACY" /\ route' = 0 /\ pc' = "idle" /\ waiting' = "no"
            /\ lease' = FALSE /\ staging' = FALSE /\ owned' = FALSE
        BY <3>1, <3>2 DEF Released
      <4> QED BY <4>1 DEF PlaceInv
    <3>3. CASE goal # "LEGACY"
      BY <1>1, <1>2, <1>3, <3>1, <3>3 DEF PlaceInv, PlaceTypes, FlagTypes, Released
    <3> QED BY <3>2, <3>3
  <2> QED BY <1>6, <2>1, <2>2, <2>3, <2>4, <2>5, <2>6, <2>7 DEF Foreground
<1>7. CASE GivesUp
  <2>1. CASE EntryFails
    BY <1>1, <1>2, <1>3, <2>1 DEF PlaceInv, PlaceTypes, FlagTypes, Ops, EntryFails,
       GivenUp, stageVars, uartVars, Answered
  <2>2. CASE Retained
    BY <1>1, <1>2, <1>3, <2>2 DEF PlaceInv, PlaceTypes, FlagTypes, Ops, Retained,
       GivenUp, stageVars, uartVars, Answered
  <2> QED BY <1>7, <2>1, <2>2 DEF GivesUp
<1>8. CASE Deliver
  <2>1. CASE HearsReply
    BY <1>1, <1>2, <1>3, <1>8, <2>1, DeliverCases DEF PlaceInv, PlaceTypes, FlagTypes,
       Ops, HearsReply, Heard, Matches, stageVars, fgVars, replyVars, uartVars
  <2>2. CASE StagesState
    BY <1>1, <1>2, <1>3, <1>8, <2>2, DeliverCases DEF PlaceInv, PlaceTypes, FlagTypes,
       Ops, StagesState, Heard, replyVars, fgVars, stageVars, uartVars
  <2>3. CASE HearsPoll
    BY <1>1, <1>2, <1>3, <1>8, <2>3, DeliverCases DEF PlaceInv, PlaceTypes, FlagTypes,
       Ops, HearsPoll, Heard, PollToken, replyVars, fgVars, stageVars, uartVars
  <2>4. CASE ShowsState
    BY <1>1, <1>2, <1>3, <1>8, <2>4, DeliverCases DEF PlaceInv, PlaceTypes, FlagTypes,
       Ops, ShowsState, Heard, replyVars, stageVars, Deliver, HearsReply,
       StagesState, HearsPoll, fgVars, uartVars, Matches, PollToken
  <2> QED BY <1>8, <2>1, <2>2, <2>3, <2>4, DeliverCases
<1>9. CASE BoardAnswers
    BY <1>1, <1>2, <1>3, <1>9 DEF PlaceInv, PlaceTypes, FlagTypes, Ops, BoardAnswers,
       BoardEffect, fgVars, replyVars, stageVars, uartVars
<1>10. CASE Fault
    BY <1>1, <1>2, <1>3, <1>10 DEF PlaceInv, PlaceTypes, FlagTypes, Ops, Fault,
       fgVars, replyVars, stageVars
<1>11. CASE Select
  <2>1. CASE SelectRemote
    BY <1>1, <1>2, <1>3, <2>1 DEF PlaceInv, PlaceTypes, FlagTypes, Ops, SelectRemote,
       fgVars, replyVars, stageVars
  <2>2. CASE SelectMainboard
    BY <1>1, <1>2, <1>3, <2>2 DEF PlaceInv, PlaceTypes, FlagTypes, Ops,
       SelectMainboard, fgVars, replyVars, stageVars
  <2> QED BY <1>11, <2>1, <2>2 DEF Select
<1>12. CASE PeerReceives
  <2>1. CASE Grants
    BY <1>1, <1>2, <1>3, <1>12, <2>1, PeerCases DEF PlaceInv, PlaceTypes, FlagTypes, Ops,
       Grants, Asked, Control, fgVars, replyVars, stageVars, uartVars
  <2>2. CASE Commits
    BY <1>1, <1>2, <1>3, <1>12, <2>2, PeerCases DEF PlaceInv, PlaceTypes, FlagTypes, Ops,
       Commits, Asked, Holds, fgVars, replyVars, stageVars, uartVars
  <2>3. CASE Ends
    BY <1>1, <1>2, <1>3, <1>12, <2>3, PeerCases DEF PlaceInv, PlaceTypes, FlagTypes, Ops,
       Ends, Asked, Holds, fgVars, replyVars, stageVars, uartVars
  <2>4. CASE Reports
    BY <1>1, <1>2, <1>3, <1>12, <2>4, PeerCases DEF PlaceInv, PlaceTypes, FlagTypes, Ops,
       Reports, Asked, Display, fgVars, replyVars, stageVars, uartVars
  <2>5. CASE Ignores
    BY <1>1, <1>2, <1>3, <1>12, <2>5, PeerCases DEF PlaceInv, PlaceTypes, FlagTypes, Ops,
       Ignores, Asked, PeerReceives, Grants, Commits, Ends, Reports, fgVars,
       replyVars, stageVars, uartVars, Reply, WireTypes, RequestType, PollToken,
       UpTo, OnlyOf, Ascending, Rising, Newer, OfLease, Prepared, Committed, Recover,
       Exchange, Send, Display, Control, Holds, Answered
  <2> QED BY <1>12, <2>1, <2>2, <2>3, <2>4, <2>5, PeerCases
<1>13. CASE PeerEffect
    BY <1>1, <1>2, <1>3, <1>13 DEF PlaceInv, PlaceTypes, FlagTypes, Ops, PeerEffect,
       Reply, Display, fgVars, replyVars, stageVars, uartVars
<1>14. CASE PeerReset
    BY <1>1, <1>2, <1>3, <1>14 DEF PlaceInv, PlaceTypes, FlagTypes, Ops, PeerReset,
       fgVars, replyVars, stageVars, uartVars
<1> QED BY <1>4, <1>5, <1>6, <1>7, <1>8, <1>9, <1>10, <1>11, <1>12, <1>13, <1>14 DEF
   Next

\* The request buffer holds a packet.
LEMMA RequestTypeStep == IInv /\ [Next]_vars => RequestType'
<1> SUFFICES ASSUME IInv, [Next]_vars PROVE RequestType'
    OBVIOUS
<1>1. PlaceTypes
    BY DEF IInv
<1>2. PlaceInv
    BY DEF IInv
<1>3. RequestType
    BY DEF IInv
<1>4. WireTypes
    BY DEF IInv
<1>5. CASE UNCHANGED vars
    BY <1>1, <1>2, <1>3, <1>4, <1>5 DEF RequestType, vars, fgVars, replyVars,
       stageVars, uartVars
<1>6. CASE Requests
  <2>1. CASE RequestCompat
    <3>1. CASE Claims
      <4>1. transaction + 1 \in 0 .. MaxTransaction
        BY <1>1, <2>1, CompatCases, BoundsAssumption DEF PlaceTypes
      <4> QED BY <4>1, <3>1, PacketTypes DEF Claims, Control, Ops, RequestType
    <3>2. CASE IsRefused
      BY <1>1, <1>2, <1>3, <1>4, <2>1, <3>2, CompatCases DEF RequestType, IsRefused,
         replyVars, uartVars, RequestCompat, Claims, stageVars, Claim, Exchange,
         Send, Control, fgVars
    <3> QED BY <2>1, <3>1, <3>2, CompatCases
  <2>2. CASE RequestLegacy
    BY <1>1, <1>2, <1>3, <1>4, <2>2 DEF RequestType, RequestLegacy, replyVars,
       stageVars, uartVars
  <2>3. CASE RequestOther
    BY <1>1, <1>2, <1>3, <1>4, <2>3 DEF RequestType, RequestOther, replyVars,
       stageVars, uartVars
  <2> QED BY <1>6, <2>1, <2>2, <2>3 DEF Requests
<1>7. CASE Foreground
  <2>1. CASE Prepared
    BY <1>1, <1>2, <1>3, <1>4, <2>1, Sends DEF RequestType
  <2>2. CASE Committed
    BY <1>1, <1>2, <1>3, <1>4, <2>2, Sends DEF RequestType
  <2>3. CASE Routed
    BY <1>1, <1>2, <1>3, <1>4, <2>3 DEF RequestType, Routed, replyVars, stageVars,
       uartVars
  <2>4. CASE Publish
    BY <1>1, <1>2, <1>3, <1>4, <2>4 DEF RequestType, Publish, replyVars, uartVars
  <2>5. CASE Recover
    BY <1>1, <1>2, <1>3, <1>4, <2>5, Sends DEF RequestType
  <2>6. CASE RecoverUnleased
    BY <1>1, <1>2, <1>3, <1>4, <2>6 DEF RequestType, RecoverUnleased, Released,
       Release, uartVars
  <2>7. CASE Left
    BY <1>1, <1>2, <1>3, <1>4, <2>7 DEF RequestType, Left, Answered, Released,
       Release, uartVars
  <2> QED BY <1>7, <2>1, <2>2, <2>3, <2>4, <2>5, <2>6, <2>7 DEF Foreground
<1>8. CASE GivesUp
  <2>1. CASE EntryFails
    BY <1>1, <1>2, <1>3, <1>4, <2>1 DEF RequestType, EntryFails, GivenUp, stageVars,
       uartVars, Answered
  <2>2. CASE Retained
    BY <1>1, <1>2, <1>3, <1>4, <2>2 DEF RequestType, Retained, GivenUp, stageVars,
       uartVars, Answered
  <2> QED BY <1>8, <2>1, <2>2 DEF GivesUp
<1>9. CASE Deliver
  <2>1. CASE HearsReply
    BY <1>3, <1>4, <2>1, <1>9, DeliverCases, WireHeads, PacketTypes DEF HearsReply, Heard, RequestType
  <2>2. CASE StagesState
    BY <1>1, <1>2, <1>3, <1>4, <1>9, <2>2, DeliverCases DEF RequestType, StagesState,
       Heard, replyVars, fgVars, stageVars, uartVars
  <2>3. CASE HearsPoll
    BY <1>1, <1>2, <1>3, <1>4, <1>9, <2>3, DeliverCases DEF RequestType, HearsPoll,
       Heard, PollToken, replyVars, fgVars, stageVars, uartVars
  <2>4. CASE ShowsState
    BY <1>1, <1>2, <1>3, <1>4, <1>9, <2>4, DeliverCases DEF RequestType, ShowsState,
       Heard, replyVars, stageVars, Deliver, HearsReply, StagesState, HearsPoll,
       fgVars, uartVars, Matches, PollToken
  <2> QED BY <1>9, <2>1, <2>2, <2>3, <2>4, DeliverCases
<1>10. CASE BoardAnswers
    BY <1>1, <1>2, <1>3, <1>4, <1>10 DEF RequestType, BoardAnswers, BoardEffect,
       fgVars, replyVars, stageVars, uartVars
<1>11. CASE Fault
    BY <1>1, <1>2, <1>3, <1>4, <1>11 DEF RequestType, Fault, fgVars, replyVars,
       stageVars
<1>12. CASE Select
  <2>1. CASE SelectRemote
    BY <1>1, <1>2, <1>3, <1>4, <2>1 DEF RequestType, SelectRemote, fgVars, replyVars,
       stageVars
  <2>2. CASE SelectMainboard
    BY <1>1, <1>2, <1>3, <1>4, <2>2 DEF RequestType, SelectMainboard, fgVars,
       replyVars, stageVars
  <2> QED BY <1>12, <2>1, <2>2 DEF Select
<1>13. CASE PeerReceives
  <2>1. CASE Grants
    BY <1>1, <1>2, <1>3, <1>4, <1>13, <2>1, PeerCases DEF RequestType, Grants, Asked,
       Control, fgVars, replyVars, stageVars, uartVars
  <2>2. CASE Commits
    BY <1>1, <1>2, <1>3, <1>4, <1>13, <2>2, PeerCases DEF RequestType, Commits, Asked,
       Holds, fgVars, replyVars, stageVars, uartVars
  <2>3. CASE Ends
    BY <1>1, <1>2, <1>3, <1>4, <1>13, <2>3, PeerCases DEF RequestType, Ends, Asked,
       Holds, fgVars, replyVars, stageVars, uartVars
  <2>4. CASE Reports
    BY <1>1, <1>2, <1>3, <1>4, <1>13, <2>4, PeerCases DEF RequestType, Reports, Asked,
       Display, fgVars, replyVars, stageVars, uartVars
  <2>5. CASE Ignores
    BY <1>1, <1>2, <1>3, <1>4, <1>13, <2>5, PeerCases DEF RequestType, Ignores, Asked,
       PeerReceives, Grants, Commits, Ends, Reports, fgVars, replyVars, stageVars,
       uartVars, Reply, WireTypes, PollToken, UpTo, OnlyOf, Ascending, Rising, Newer,
       OfLease, PlaceTypes, PlaceInv, Prepared, Committed, Recover, Exchange, Send,
       Display, Control, Holds, Answered
  <2> QED BY <1>13, <2>1, <2>2, <2>3, <2>4, <2>5, PeerCases
<1>14. CASE PeerEffect
    BY <1>1, <1>2, <1>3, <1>4, <1>14 DEF RequestType, PeerEffect, Reply, Display,
       fgVars, replyVars, stageVars, uartVars
<1>15. CASE PeerReset
    BY <1>1, <1>2, <1>3, <1>4, <1>15 DEF RequestType, PeerReset, fgVars, replyVars,
       stageVars, uartVars
<1> QED BY <1>5, <1>6, <1>7, <1>8, <1>9, <1>10, <1>11, <1>12, <1>13, <1>14, <1>15 DEF
   Next

\* The peer keeps its types.
LEMMA PeerTypeStep == IInv /\ [Next]_vars => PeerType'
<1> SUFFICES ASSUME IInv, [Next]_vars PROVE PeerType'
    OBVIOUS
<1>1. PeerType
    BY DEF IInv
<1>2. WireTypes
    BY DEF IInv
<1>3. CASE UNCHANGED vars
    BY <1>1, <1>2, <1>3 DEF PeerType, vars, fgVars, replyVars, stageVars, uartVars
<1>4. CASE Requests
  <2>1. CASE RequestCompat
    <3>1. CASE Claims
      BY <1>1, <1>2, <2>1, <3>1, CompatCases DEF PeerType, Claims, Control, fgVars,
         replyVars, stageVars, uartVars
    <3>2. CASE IsRefused
      BY <1>1, <1>2, <2>1, <3>2, CompatCases DEF PeerType, IsRefused, replyVars,
         uartVars, RequestCompat, Claims, stageVars, Claim, Exchange, Send, Control,
         fgVars
    <3> QED BY <2>1, <3>1, <3>2, CompatCases
  <2>2. CASE RequestLegacy
    BY <1>1, <1>2, <2>2 DEF PeerType, RequestLegacy, replyVars, stageVars, uartVars
  <2>3. CASE RequestOther
    BY <1>1, <1>2, <2>3 DEF PeerType, RequestOther, replyVars, stageVars, uartVars
  <2> QED BY <1>4, <2>1, <2>2, <2>3 DEF Requests
<1>5. CASE Foreground
  <2>1. CASE Prepared
    BY <1>1, <1>2, <2>1 DEF PeerType, Prepared, Answered, Exchange, stageVars,
       uartVars, Send
  <2>2. CASE Committed
    BY <1>1, <1>2, <2>2 DEF PeerType, Committed, Answered, Send, Display, PollToken,
       uartVars
  <2>3. CASE Routed
    BY <1>1, <1>2, <2>3 DEF PeerType, Routed, replyVars, stageVars, uartVars
  <2>4. CASE Publish
    BY <1>1, <1>2, <2>4 DEF PeerType, Publish, replyVars, uartVars
  <2>5. CASE Recover
    BY <1>1, <1>2, <2>5 DEF PeerType, Recover, Exchange, stageVars, uartVars, Send
  <2>6. CASE RecoverUnleased
    BY <1>1, <1>2, <2>6 DEF PeerType, RecoverUnleased, Released, Release, uartVars
  <2>7. CASE Left
    BY <1>1, <1>2, <2>7 DEF PeerType, Left, Answered, Released, Release, uartVars
  <2> QED BY <1>5, <2>1, <2>2, <2>3, <2>4, <2>5, <2>6, <2>7 DEF Foreground
<1>6. CASE GivesUp
  <2>1. CASE EntryFails
    BY <1>1, <1>2, <2>1 DEF PeerType, EntryFails, GivenUp, stageVars, uartVars,
       Answered
  <2>2. CASE Retained
    BY <1>1, <1>2, <2>2 DEF PeerType, Retained, GivenUp, stageVars, uartVars,
       Answered
  <2> QED BY <1>6, <2>1, <2>2 DEF GivesUp
<1>7. CASE Deliver
  <2>1. CASE HearsReply
    BY <1>1, <1>2, <1>7, <2>1, DeliverCases DEF PeerType, HearsReply, Heard, Matches,
       stageVars, fgVars, replyVars, uartVars
  <2>2. CASE StagesState
    BY <1>1, <1>2, <1>7, <2>2, DeliverCases DEF PeerType, StagesState, Heard, replyVars,
       fgVars, stageVars, uartVars
  <2>3. CASE HearsPoll
    BY <1>1, <1>2, <1>7, <2>3, DeliverCases DEF PeerType, HearsPoll, Heard, PollToken,
       replyVars, fgVars, stageVars, uartVars
  <2>4. CASE ShowsState
    BY <1>1, <1>2, <1>7, <2>4, DeliverCases DEF PeerType, ShowsState, Heard, replyVars,
       stageVars, Deliver, HearsReply, StagesState, HearsPoll, fgVars, uartVars,
       Matches, PollToken
  <2> QED BY <1>7, <2>1, <2>2, <2>3, <2>4, DeliverCases
<1>8. CASE BoardAnswers
    BY <1>1, <1>2, <1>8 DEF PeerType, BoardAnswers, BoardEffect, fgVars, replyVars,
       stageVars, uartVars
<1>9. CASE Fault
    BY <1>1, <1>2, <1>9 DEF PeerType, Fault, fgVars, replyVars, stageVars
<1>10. CASE Select
  <2>1. CASE SelectRemote
    BY <1>1, <1>2, <2>1 DEF PeerType, SelectRemote, fgVars, replyVars, stageVars
  <2>2. CASE SelectMainboard
    BY <1>1, <1>2, <2>2 DEF PeerType, SelectMainboard, fgVars, replyVars, stageVars
  <2> QED BY <1>10, <2>1, <2>2 DEF Select
<1>11. CASE PeerReceives
  <2>1. CASE Grants
    <3>1. Asked \in Packets
      BY <1>2, <1>11, PeerCases, WireHeads DEF Asked
    <3>2. Asked.tr \in 0 .. MaxTransaction
      BY <3>1, PacketTypes
    <3>3. 3 - peer.nonce \in 1 .. 2
      BY <1>1 DEF PeerType, Nonces
    <3> QED BY <2>1, <3>2, <3>3 DEF Grants, PeerType, Nonces
  <2>2. CASE Commits
    BY <1>1, <1>11, <2>2, PeerCases DEF PeerType, Commits, Asked, Holds, fgVars,
       replyVars, stageVars, uartVars
  <2>3. CASE Ends
    BY <1>1, <1>11, <2>3, PeerCases DEF PeerType, Ends, Asked, Holds, fgVars, replyVars,
       stageVars, uartVars
  <2>4. CASE Reports
    BY <1>1, <1>2, <1>11, <2>4, PeerCases DEF PeerType, Reports, Asked, Display, fgVars,
       replyVars, stageVars, uartVars
  <2>5. CASE Ignores
    BY <1>1, <1>2, <1>11, <2>5, PeerCases DEF PeerType, Ignores, Asked, PeerReceives,
       Grants, Commits, Ends, Reports, fgVars, replyVars, stageVars, uartVars, Reply,
       WireTypes, RequestType, PollToken, UpTo, OnlyOf, Ascending, Rising, Newer,
       OfLease, PlaceTypes, PlaceInv, Prepared, Committed, Recover, Exchange, Send,
       Display, Control, Holds, Answered
  <2> QED BY <1>11, <2>1, <2>2, <2>3, <2>4, <2>5, PeerCases
<1>12. CASE PeerEffect
    BY <1>1, <1>2, <1>12 DEF PeerType, PeerEffect, Reply, Display, fgVars, replyVars,
       stageVars, uartVars
<1>13. CASE PeerReset
    BY <1>1, <1>2, <1>13 DEF PeerType, PeerReset, fgVars, replyVars, stageVars,
       uartVars
<1> QED BY <1>3, <1>4, <1>5, <1>6, <1>7, <1>8, <1>9, <1>10, <1>11, <1>12, <1>13 DEF
   Next

\* The wires carry packets.
LEMMA WireTypesStep == IInv /\ [Next]_vars => WireTypes'
<1> SUFFICES ASSUME IInv, [Next]_vars PROVE WireTypes'
    OBVIOUS
<1>1. PlaceTypes
    BY DEF IInv
<1>2. PlaceInv
    BY DEF IInv
<1>3. RequestType
    BY DEF IInv
<1>4. WireTypes
    BY DEF IInv
<1>5. PeerType
    BY DEF IInv
<1>6. WireInv
    BY DEF IInv
<1>7. CASE UNCHANGED vars
    BY <1>1, <1>2, <1>3, <1>4, <1>5, <1>6, <1>7 DEF WireTypes, vars, fgVars,
       replyVars, stageVars, uartVars
<1>8. CASE Requests
  <2>1. CASE RequestCompat
    <3>1. CASE Claims
      <4>1. request' \in Packets
        <5>1. transaction + 1 \in 0 .. MaxTransaction
          BY <1>1, <2>1, CompatCases, BoundsAssumption DEF PlaceTypes
        <5> QED BY <5>1, <3>1, PacketTypes DEF Claims, Control, Ops
      <4>2. toEmos' = toEmos
        BY <2>1, CompatCases
      <4> QED BY <1>4, <3>1, <4>1, <4>2, AppendProperties DEF Claims, WireTypes
    <3>2. CASE IsRefused
      BY <1>4, <2>1, <3>2, CompatCases, WireHeads DEF WireTypes, IsRefused, replyVars,
         uartVars, RequestCompat, Claims, stageVars, Claim, Exchange, Send, Control,
         fgVars
    <3> QED BY <2>1, <3>1, <3>2, CompatCases
  <2>2. CASE RequestLegacy
    BY <1>1, <1>2, <1>3, <1>4, <1>5, <1>6, <2>2 DEF WireTypes, RequestLegacy,
       replyVars, stageVars, uartVars
  <2>3. CASE RequestOther
    BY <1>1, <1>2, <1>3, <1>4, <1>5, <1>6, <2>3 DEF WireTypes, RequestOther,
       replyVars, stageVars, uartVars
  <2> QED BY <1>8, <2>1, <2>2, <2>3 DEF Requests
<1>9. CASE Foreground
  <2>1. CASE Prepared
    BY SMTT(30), <1>1, <1>2, <1>3, <1>4, <2>1, Sends, AppendProperties DEF WireTypes
  <2>2. CASE Committed
    BY SMTT(30), <1>1, <1>2, <1>3, <1>4, <2>2, Sends, AppendProperties DEF WireTypes
  <2>3. CASE Routed
    BY <1>1, <1>2, <1>3, <1>4, <1>5, <1>6, <2>3 DEF WireTypes, Routed, replyVars,
       stageVars, uartVars
  <2>4. CASE Publish
    BY <1>1, <1>2, <1>3, <1>4, <1>5, <1>6, <2>4 DEF WireTypes, Publish, replyVars,
       uartVars
  <2>5. CASE Recover
    BY <1>1, <1>2, <1>3, <1>4, <2>5, Sends, AppendProperties DEF WireTypes
  <2>6. CASE RecoverUnleased
    BY <1>1, <1>2, <1>3, <1>4, <1>5, <1>6, <2>6 DEF WireTypes, RecoverUnleased,
       Released, Release, uartVars
  <2>7. CASE Left
    BY <1>1, <1>2, <1>3, <1>4, <1>5, <1>6, <2>7 DEF WireTypes, Left, Answered,
       Released, Release, uartVars
  <2> QED BY <1>9, <2>1, <2>2, <2>3, <2>4, <2>5, <2>6, <2>7 DEF Foreground
<1>10. CASE GivesUp
  <2>1. CASE EntryFails
    BY <1>1, <1>2, <1>3, <1>4, <1>5, <1>6, <2>1 DEF WireTypes, EntryFails, GivenUp,
       stageVars, uartVars, Answered
  <2>2. CASE Retained
    BY <1>1, <1>2, <1>3, <1>4, <1>5, <1>6, <2>2 DEF WireTypes, Retained, GivenUp,
       stageVars, uartVars, Answered
  <2> QED BY <1>10, <2>1, <2>2 DEF GivesUp
<1>11. CASE Deliver
  <2>1. CASE HearsReply
    BY <1>4, <1>11, <2>1, DeliverCases, WireHeads DEF WireTypes, HearsReply, Heard,
       Matches, stageVars, fgVars, replyVars, uartVars
  <2>2. CASE StagesState
    BY <1>4, <1>11, <2>2, DeliverCases, WireHeads DEF WireTypes, StagesState, Heard,
       replyVars, fgVars, stageVars, uartVars
  <2>3. CASE HearsPoll
    BY <1>4, <1>11, <2>3, DeliverCases, WireHeads DEF WireTypes, HearsPoll, Heard,
       PollToken, replyVars, fgVars, stageVars, uartVars
  <2>4. CASE ShowsState
    BY <1>4, <1>11, <2>4, DeliverCases, WireHeads DEF WireTypes, ShowsState, Heard,
       replyVars, stageVars, Deliver, HearsReply, StagesState, HearsPoll, fgVars,
       uartVars, Matches, PollToken
  <2> QED BY <1>11, <2>1, <2>2, <2>3, <2>4, DeliverCases
<1>12. CASE BoardAnswers
    BY <1>1, <1>2, <1>3, <1>4, <1>5, <1>6, <1>12 DEF WireTypes, BoardAnswers,
       BoardEffect, fgVars, replyVars, stageVars, uartVars
<1>13. CASE Fault
    BY <1>1, <1>2, <1>3, <1>4, <1>5, <1>6, <1>13, WireHeads DEF WireTypes, Fault,
       fgVars, replyVars, stageVars
<1>14. CASE Select
  <2>1. CASE SelectRemote
    BY <1>1, <1>2, <1>3, <1>4, <1>5, <1>6, <2>1 DEF WireTypes, SelectRemote, fgVars,
       replyVars, stageVars
  <2>2. CASE SelectMainboard
    BY <1>1, <1>2, <1>3, <1>4, <1>5, <1>6, <2>2 DEF WireTypes, SelectMainboard,
       fgVars, replyVars, stageVars
  <2> QED BY <1>14, <2>1, <2>2 DEF Select
<1>15. CASE PeerReceives
  <2>1. PICK e \in Seq(Packets) : Answer(e)
    BY <1>1, <1>4, <1>5, <1>6, <1>15, Answers DEF WireInv
  <2>2. toEmos' \in Seq(Packets)
    BY <1>4, <2>1 DEF Answer, WireTypes
  <2>3. toPeer' \in Seq(Packets)
    BY <1>4, <1>15, PeerCases, WireHeads
  <2> QED BY <2>2, <2>3 DEF WireTypes
<1>16. CASE PeerEffect
  <2>1. PICK e \in Seq(Packets) : Answer(e)
    BY <1>1, <1>4, <1>5, <1>6, <1>16, Answers DEF WireInv
  <2>2. toEmos' \in Seq(Packets) /\ toPeer' = toPeer
    BY <1>4, <1>16, <2>1 DEF Answer, PeerEffect, WireTypes
  <2> QED BY <1>4, <2>2 DEF WireTypes
<1>17. CASE PeerReset
    BY <1>1, <1>2, <1>3, <1>4, <1>5, <1>6, <1>17 DEF WireTypes, PeerReset, fgVars,
       replyVars, stageVars, uartVars
<1> QED BY <1>7, <1>8, <1>9, <1>10, <1>11, <1>12, <1>13, <1>14, <1>15, <1>16, <1>17
   DEF Next

\* The wires stay in the order of the leases.
LEMMA WireInvStep == IInv /\ [Next]_vars => WireInv'
<1> SUFFICES ASSUME IInv, [Next]_vars PROVE WireInv'
    OBVIOUS
<1>1. PlaceTypes
    BY DEF IInv
<1>2. PlaceInv
    BY DEF IInv
<1>3. RequestType
    BY DEF IInv
<1>4. WireTypes
    BY DEF IInv
<1>5. PeerType
    BY DEF IInv
<1>6. WireInv
    BY DEF IInv
<1>7. CASE UNCHANGED vars
    BY <1>6, <1>7 DEF WireInv, vars, fgVars, replyVars, stageVars, uartVars
<1>8. CASE Requests
  <2>1. CASE RequestCompat
    <3>1. CASE Claims
      <4>1. request'.tr = transaction' /\ transaction' = transaction + 1 /\ UNCHANGED <<peer, toEmos>>
        BY <2>1, <3>1, CompatCases DEF Claims, Control
      <4>2. peer.tr \in Int /\ transaction \in Int
        BY <1>1, <1>5 DEF PlaceTypes, PeerType
      <4>3. request' \in Packets /\ request'.kind = "PREPARE"
        <5>1. transaction + 1 \in 0 .. MaxTransaction
          BY <1>1, <2>1, CompatCases, BoundsAssumption DEF PlaceTypes
        <5> QED BY <5>1, <3>1, PacketTypes DEF Claims, Control, Ops
      <4>4. peer.tr <= transaction'
        BY <1>6, <4>1, <4>2 DEF WireInv
      <4>5. Newer(toPeer', peer.tr, transaction') /\ Rising(toPeer')
        <5>1. CASE toPeer' = toPeer
          <6>1. Newer(toPeer, peer.tr, transaction + 1)
            <7>1. \A i \in 1 .. Len(toPeer) : toPeer[i].tr \in Int
              BY <1>4, PacketTypes DEF WireTypes
            <7> QED BY <1>6, <4>2, <7>1 DEF WireInv, Newer
          <6> QED BY <1>6, <4>1, <5>1, <6>1 DEF WireInv
        <5>2. CASE toPeer' = Append(toPeer, request')
          BY <1>4, <1>6, <4>1, <4>2, <4>3, <5>2, SentOnWire DEF WireTypes, WireInv
        <5> QED BY <3>1, <5>1, <5>2 DEF Claims
      <4> QED BY <1>6, <4>1, <4>4, <4>5 DEF WireInv
    <3>2. CASE IsRefused
      BY <1>6, <2>1, <3>2, CompatCases DEF WireInv, IsRefused, replyVars, uartVars,
         RequestCompat, Claims, stageVars, Claim, Exchange, Send, Control, fgVars
    <3> QED BY <2>1, <3>1, <3>2, CompatCases
  <2>2. CASE RequestLegacy
    BY <1>6, <2>2 DEF WireInv, RequestLegacy, replyVars, stageVars, uartVars
  <2>3. CASE RequestOther
    BY <1>6, <2>3 DEF WireInv, RequestOther, replyVars, stageVars, uartVars
  <2> QED BY <1>8, <2>1, <2>2, <2>3 DEF Requests
<1>9. CASE Foreground
  <2>1. CASE Prepared
    <3>1. PICK p \in Packets : p.kind # "PREPARE" /\ (toPeer' = Append(toPeer, p) \/ toPeer' = toPeer)
      BY <1>1, <1>2, <1>3, <1>4, <2>1, Sends
    <3>2. request'.tr = request.tr /\ UNCHANGED <<toEmos, peer, transaction>>
      BY <1>1, <1>2, <1>3, <1>4, <2>1, Sends
    <3> QED BY <1>4, <1>6, <3>1, <3>2, SentOnWire DEF WireTypes, WireInv
  <2>2. CASE Committed
    <3>1. PICK p \in Packets : p.kind # "PREPARE" /\ (toPeer' = Append(toPeer, p) \/ toPeer' = toPeer)
      BY <1>1, <1>2, <1>3, <1>4, <2>2, Sends
    <3>2. request'.tr = request.tr /\ UNCHANGED <<toEmos, peer, transaction>>
      BY <1>1, <1>2, <1>3, <1>4, <2>2, Sends
    <3> QED BY <1>4, <1>6, <3>1, <3>2, SentOnWire DEF WireTypes, WireInv
  <2>3. CASE Routed
    BY <1>6, <2>3 DEF WireInv, Routed, replyVars, stageVars, uartVars
  <2>4. CASE Publish
    BY <1>6, <2>4 DEF WireInv, Publish, replyVars, uartVars
  <2>5. CASE Recover
    <3>1. PICK p \in Packets : p.kind # "PREPARE" /\ (toPeer' = Append(toPeer, p) \/ toPeer' = toPeer)
      BY <1>1, <1>2, <1>3, <1>4, <2>5, Sends
    <3>2. request'.tr = request.tr /\ UNCHANGED <<toEmos, peer, transaction>>
      BY <1>1, <1>2, <1>3, <1>4, <2>5, Sends
    <3> QED BY <1>4, <1>6, <3>1, <3>2, SentOnWire DEF WireTypes, WireInv
  <2>6. CASE RecoverUnleased
    BY <1>6, <2>6 DEF WireInv, RecoverUnleased, Released, Release, uartVars
  <2>7. CASE Left
    BY <1>6, <2>7 DEF WireInv, Left, Answered, Released, Release, uartVars
  <2> QED BY <1>9, <2>1, <2>2, <2>3, <2>4, <2>5, <2>6, <2>7 DEF Foreground
<1>10. CASE GivesUp
  <2>1. CASE EntryFails
    BY <1>6, <2>1 DEF WireInv, EntryFails, GivenUp, stageVars, uartVars, Answered
  <2>2. CASE Retained
    BY <1>6, <2>2 DEF WireInv, Retained, GivenUp, stageVars, uartVars, Answered
  <2> QED BY <1>10, <2>1, <2>2 DEF GivesUp
<1>11. CASE Deliver
  <2>1. toEmos # <<>> /\ toEmos' = Tail(toEmos) /\ UNCHANGED <<transaction, peer, toPeer>>
    BY <1>11, DeliverCases DEF fgVars
  <2>2. request'.tr = request.tr
    BY <1>3, <1>11, DeliverCases DEF HearsReply, StagesState, HearsPoll, ShowsState, replyVars,
       RequestType, Packets
  <2> QED BY <1>4, <1>6, <2>1, <2>2, ReadWire DEF WireTypes, WireInv
<1>12. CASE BoardAnswers
    BY <1>6, <1>12 DEF WireInv, BoardAnswers, BoardEffect, fgVars, replyVars,
       stageVars, uartVars
<1>13. CASE Fault
  <2>1. toEmos' = toEmos \/ (toEmos # <<>> /\ toEmos' = Tail(toEmos))
    BY <1>13 DEF Fault
  <2>2. UNCHANGED <<request, transaction, peer, toPeer>>
    BY <1>13 DEF Fault, fgVars, replyVars
  <2> QED BY <1>4, <1>6, <2>1, <2>2, ReadWire DEF WireTypes, WireInv
<1>14. CASE Select
  <2>1. CASE SelectRemote
    BY <1>6, <2>1 DEF WireInv, SelectRemote, fgVars, replyVars, stageVars
  <2>2. CASE SelectMainboard
    BY <1>6, <2>2 DEF WireInv, SelectMainboard, fgVars, replyVars, stageVars
  <2> QED BY <1>14, <2>1, <2>2 DEF Select
<1>15. CASE PeerReceives
  <2>1. PICK e \in Seq(Packets) : Answer(e)
    BY <1>1, <1>4, <1>5, <1>6, <1>15, Answers DEF WireInv
  <2>2. toPeer # <<>> /\ toPeer' = Tail(toPeer) /\ UNCHANGED <<request, transaction>>
    BY <1>15, PeerCases DEF fgVars, replyVars
  <2>3. peer.tr \in Int /\ peer'.tr \in Int
    BY <1>5, PeerTypeStep DEF PeerType
  <2>4. UpTo(toEmos', peer'.tr) /\ Ascending(toEmos')
    BY <1>4, <1>6, <2>1, <2>3, AnsweredOnWire DEF Answer, WireTypes, WireInv
  <2>5. Newer(toPeer', peer'.tr, transaction) /\ Rising(toPeer')
    <3>1. CASE Grants
      <4>1. peer'.tr = Head(toPeer).tr /\ Head(toPeer).kind = "PREPARE"
        BY <3>1 DEF Grants, Asked
      <4> QED BY <1>4, <1>6, <2>2, <2>3, <4>1, HeadIsOldest, ReadWire DEF WireTypes, WireInv
    <3>2. CASE Commits \/ Ends \/ Reports \/ Ignores
      <4>1. peer'.tr = peer.tr
        BY <1>5, <3>2 DEF Commits, Ends, Reports, Ignores, PeerType
      <4> QED BY <1>4, <1>6, <2>2, <4>1, ReadWire DEF WireTypes, WireInv
    <3> QED BY <1>15, <3>1, <3>2, PeerCases
  <2>6. peer'.tr <= transaction
    BY <1>6, <2>1 DEF Answer, WireInv
  <2> QED BY <1>6, <2>2, <2>4, <2>5, <2>6 DEF WireInv
<1>16. CASE PeerEffect
  <2>1. PICK e \in Seq(Packets) : Answer(e)
    BY <1>1, <1>4, <1>5, <1>6, <1>16, Answers DEF WireInv
  <2>2. UNCHANGED <<request, transaction, toPeer, peer>>
    BY <1>16 DEF PeerEffect, fgVars, replyVars
  <2>3. peer.tr \in Int
    BY <1>5 DEF PeerType
  <2>4. UpTo(toEmos', peer.tr) /\ Ascending(toEmos')
    BY <1>4, <1>6, <2>1, <2>2, <2>3, AnsweredOnWire DEF Answer, WireTypes, WireInv
  <2> QED BY <1>6, <2>2, <2>4 DEF WireInv
<1>17. CASE PeerReset
  <2>1. /\ toPeer' = <<>> /\ toEmos' = <<>> /\ peer'.tr = peer.tr
        /\ UNCHANGED <<request, transaction>>
    BY <1>5, <1>17 DEF PeerReset, PeerType, fgVars, replyVars
  <2> QED BY <1>6, <2>1 DEF WireInv, Newer, Rising, UpTo, Ascending
<1> QED BY <1>7, <1>8, <1>9, <1>10, <1>11, <1>12, <1>13, <1>14, <1>15, <1>16, <1>17
   DEF Next

\* Who holds a lease has read all that is older.
LEMMA LeaseInvStep == IInv /\ [Next]_vars => LeaseInv'
<1> SUFFICES ASSUME IInv, [Next]_vars PROVE LeaseInv'
    OBVIOUS
<1>1. PlaceTypes
    BY DEF IInv
<1>2. PlaceInv
    BY DEF IInv
<1>3. RequestType
    BY DEF IInv
<1>4. WireTypes
    BY DEF IInv
<1>5. PeerType
    BY DEF IInv
<1>6. WireInv
    BY DEF IInv
<1>7. LeaseInv
    BY DEF IInv
<1>8. FlagTypes
    BY DEF IInv
<1>9. CASE UNCHANGED vars
    BY <1>7, <1>2, <1>9 DEF LeaseInv, Leased, vars, fgVars, replyVars, stageVars,
       uartVars, PlaceInv
<1>10. CASE Requests
  <2>1. CASE RequestCompat
    <3>1. CASE Claims
      BY <1>2, <2>1, <3>1, CompatCases DEF LeaseInv, Leased, Claims, Control, fgVars,
         replyVars, stageVars, uartVars
    <3>2. CASE IsRefused
      BY <1>2, <1>7, <2>1, <3>2, CompatCases DEF LeaseInv, Leased, IsRefused, replyVars,
         uartVars, RequestCompat, Claims, stageVars, Claim, Exchange, Send, Control,
         fgVars, PlaceInv
    <3> QED BY <2>1, <3>1, <3>2, CompatCases
  <2>2. CASE RequestLegacy
    BY <1>7, <1>2, <2>2 DEF LeaseInv, Leased, RequestLegacy, replyVars, stageVars,
       uartVars, PlaceInv
  <2>3. CASE RequestOther
    BY <1>7, <1>2, <2>3 DEF LeaseInv, Leased, RequestOther, replyVars, stageVars,
       uartVars, PlaceInv
  <2> QED BY <1>10, <2>1, <2>2, <2>3 DEF Requests
<1>11. CASE Foreground
  <2>1. CASE Prepared
    <3>1. request'.tr = request.tr /\ UNCHANGED <<toEmos, peer, transaction>>
      BY <1>1, <1>2, <1>3, <1>4, <2>1, Sends
    <3>2. Leased' => Leased
      BY <2>1, <1>2 DEF Prepared, Answered, Leased, PlaceInv
    <3> QED BY <1>7, <3>1, <3>2 DEF LeaseInv
  <2>2. CASE Committed
    <3>1. request'.tr = request.tr /\ UNCHANGED <<toEmos, peer, transaction>>
      BY <1>1, <1>2, <1>3, <1>4, <2>2, Sends
    <3>2. Leased' => Leased
      BY <2>2, <1>2 DEF Committed, Answered, Leased, PlaceInv
    <3> QED BY <1>7, <3>1, <3>2 DEF LeaseInv
  <2>3. CASE Routed
    BY <1>7, <1>2, <2>3 DEF LeaseInv, Leased, Routed, replyVars, stageVars, uartVars,
       PlaceInv
  <2>4. CASE Publish
    BY <1>7, <1>2, <2>4 DEF LeaseInv, Leased, Publish, replyVars, uartVars, PlaceInv
  <2>5. CASE Recover
    <3>1. request'.tr = request.tr /\ UNCHANGED <<toEmos, peer, transaction>>
      BY <1>1, <1>2, <1>3, <1>4, <2>5, Sends
    <3>2. Leased' => Leased
      BY <2>5, <1>2 DEF Recover, Answered, Leased, PlaceInv
    <3> QED BY <1>7, <3>1, <3>2 DEF LeaseInv
  <2>6. CASE RecoverUnleased
    BY <1>7, <1>2, <2>6 DEF LeaseInv, Leased, RecoverUnleased, Released, Release,
       uartVars, PlaceInv
  <2>7. CASE Left
    BY <1>7, <1>2, <2>7 DEF LeaseInv, Leased, Left, Answered, Released, Release,
       uartVars, PlaceInv
  <2> QED BY <1>11, <2>1, <2>2, <2>3, <2>4, <2>5, <2>6, <2>7 DEF Foreground
<1>12. CASE GivesUp
  <2>1. CASE EntryFails
    BY <1>7, <1>2, <2>1 DEF LeaseInv, Leased, EntryFails, GivenUp, stageVars,
       uartVars, Answered, PlaceInv
  <2>2. CASE Retained
    BY <1>7, <1>2, <2>2 DEF LeaseInv, Leased, Retained, GivenUp, stageVars, uartVars,
       Answered, PlaceInv
  <2> QED BY <1>12, <2>1, <2>2 DEF GivesUp
<1>13. CASE Deliver
  <2>1. toEmos # <<>> /\ toEmos' = Tail(toEmos) /\ UNCHANGED <<pc, lease, transaction, peer>>
    BY <1>13, DeliverCases DEF fgVars
  <2>2. CASE Leased
    BY <1>4, <1>7, <2>1, <2>2, ReadWire DEF WireTypes, LeaseInv
  <2>3. CASE ~Leased /\ Leased'
    <3>1. Head(toEmos).kind = "PREPARE" /\ Head(toEmos).tr = transaction
      BY <1>2, <1>6, <2>1, <2>3, <1>13, DeliverCases DEF HearsReply, StagesState, HearsPoll,
         ShowsState, replyVars, Heard, Matches, Leased, PlaceInv, WireInv
    <3>2. transaction \in Int /\ peer.tr \in Int
      BY <1>1, <1>5 DEF PlaceTypes, PeerType
    <3>3. peer.tr = transaction
      <4>1. Head(toEmos).tr <= peer.tr
        BY <1>4, <1>6, <2>1, <3>1, TailElements DEF WireTypes, WireInv, UpTo, OfLease
      <4> QED BY <1>6, <3>1, <3>2, <4>1 DEF WireInv
    <3>4. OnlyOf(Tail(toEmos), transaction)
      BY <1>4, <1>6, <2>1, <3>1, <3>2, <3>3, HeadIsOldest DEF WireTypes, WireInv, OfLease
    <3> QED BY <2>1, <3>3, <3>4 DEF LeaseInv
  <2>4. CASE ~Leased'
    BY <2>4 DEF LeaseInv
  <2> QED BY <2>2, <2>3, <2>4
<1>14. CASE BoardAnswers
    BY <1>7, <1>2, <1>14 DEF LeaseInv, Leased, BoardAnswers, BoardEffect, fgVars,
       replyVars, stageVars, uartVars, PlaceInv
<1>15. CASE Fault
  <2>1. toEmos' = toEmos \/ (toEmos # <<>> /\ toEmos' = Tail(toEmos))
    BY <1>15 DEF Fault
  <2>2. UNCHANGED <<pc, lease, accepted, transaction, peer>>
    BY <1>15 DEF Fault, fgVars, replyVars
  <2> QED BY <1>4, <1>7, <2>1, <2>2, ReadWire DEF WireTypes, LeaseInv, Leased
<1>16. CASE Select
  <2>1. CASE SelectRemote
    BY <1>7, <1>2, <2>1 DEF LeaseInv, Leased, SelectRemote, fgVars, replyVars,
       stageVars, PlaceInv
  <2>2. CASE SelectMainboard
    BY <1>7, <1>2, <2>2 DEF LeaseInv, Leased, SelectMainboard, fgVars, replyVars,
       stageVars, PlaceInv
  <2> QED BY <1>16, <2>1, <2>2 DEF Select
<1>17. CASE PeerReceives
  <2>1. PICK e \in Seq(Packets) : Answer(e)
    BY <1>1, <1>4, <1>5, <1>6, <1>17, Answers DEF WireInv
  <2>2. UNCHANGED <<transaction, pc, accepted, lease>>
    BY <1>17, PeerCases DEF fgVars, replyVars
  <2> SUFFICES ASSUME Leased PROVE peer'.tr = transaction' /\ OnlyOf(toEmos', transaction')
    BY <2>2 DEF LeaseInv, Leased
  <2>3. peer'.tr = peer.tr /\ peer.tr = transaction /\ OnlyOf(toEmos, transaction)
    BY <1>7, <2>1 DEF LeaseInv, Answer
  <2>4. transaction \in Int
    BY <1>1 DEF PlaceTypes
  <2>5. OnlyOf(toEmos', transaction)
    BY <1>4, <1>6, <2>1, <2>3, <2>4, AnsweredOnWire DEF Answer, WireTypes, WireInv
  <2> QED BY <2>2, <2>3, <2>5
<1>18. CASE PeerEffect
  <2>1. PICK e \in Seq(Packets) : Answer(e)
    BY <1>1, <1>4, <1>5, <1>6, <1>18, Answers DEF WireInv
  <2>2. UNCHANGED <<transaction, pc, accepted, lease>>
    BY <1>18 DEF PeerEffect, fgVars, replyVars
  <2> SUFFICES ASSUME Leased PROVE peer'.tr = transaction' /\ OnlyOf(toEmos', transaction')
    BY <2>2 DEF LeaseInv, Leased
  <2>3. peer'.tr = peer.tr /\ peer.tr = transaction /\ OnlyOf(toEmos, transaction)
    BY <1>7, <2>1 DEF LeaseInv, Answer
  <2>4. transaction \in Int
    BY <1>1 DEF PlaceTypes
  <2>5. OnlyOf(toEmos', transaction)
    BY <1>4, <1>6, <2>1, <2>3, <2>4, AnsweredOnWire DEF Answer, WireTypes, WireInv
  <2> QED BY <2>2, <2>3, <2>5
<1>19. CASE PeerReset
  <2>1. toEmos' = <<>> /\ peer'.tr = peer.tr /\ UNCHANGED <<pc, lease, accepted, transaction>>
    BY <1>5, <1>19 DEF PeerReset, PeerType, fgVars, replyVars
  <2> QED BY <1>7, <2>1 DEF LeaseInv, Leased, OnlyOf
<1> QED BY <1>9, <1>10, <1>11, <1>12, <1>13, <1>14, <1>15, <1>16, <1>17, <1>18, <1>19
   DEF Next

\* A peer that answers that it has left has left.
LEMMA EndInvStep == IInv /\ [Next]_vars => EndInv'
<1> SUFFICES ASSUME IInv, [Next]_vars PROVE EndInv'
    OBVIOUS
<1>1. PlaceTypes
    BY DEF IInv
<1>2. PlaceInv
    BY DEF IInv
<1>3. RequestType
    BY DEF IInv
<1>4. WireTypes
    BY DEF IInv
<1>5. PeerType
    BY DEF IInv
<1>6. WireInv
    BY DEF IInv
<1>7. LeaseInv
    BY DEF IInv
<1>8. FlagTypes
    BY DEF IInv
<1>9. EndInv
    BY DEF IInv
<1>10. CASE UNCHANGED vars
    BY <1>2, <1>9, <1>10 DEF EndInv, vars, fgVars, replyVars, stageVars, uartVars,
       PlaceInv
<1>11. CASE Requests
  <2>1. CASE RequestCompat
    <3>1. CASE Claims
      BY <1>9, <2>1, <3>1, CompatCases DEF EndInv, Claims, Control, fgVars, replyVars,
         stageVars, uartVars
    <3>2. CASE IsRefused
      BY <1>9, <2>1, <3>2, CompatCases DEF EndInv, IsRefused, replyVars, uartVars,
         RequestCompat, Claims, stageVars, Claim, Exchange, Send, Control, fgVars
    <3> QED BY <2>1, <3>1, <3>2, CompatCases
  <2>2. CASE RequestLegacy
    BY <1>2, <1>9, <2>2 DEF EndInv, RequestLegacy, replyVars, stageVars, uartVars,
       PlaceInv
  <2>3. CASE RequestOther
    BY <1>2, <1>9, <2>3 DEF EndInv, RequestOther, replyVars, stageVars, uartVars,
       PlaceInv
  <2> QED BY <1>11, <2>1, <2>2, <2>3 DEF Requests
<1>12. CASE Foreground
  <2>1. CASE Prepared
    <3>1. UNCHANGED <<toEmos, peer>>
      BY <1>1, <1>2, <1>3, <1>4, <2>1, Sends
    <3>2. pc' = "leave" => ~accepted'
      BY <2>1 DEF Prepared, Exchange
    <3> QED BY <1>9, <3>1, <3>2 DEF EndInv
  <2>2. CASE Committed
    <3>1. UNCHANGED <<toEmos, peer>>
      BY <1>1, <1>2, <1>3, <1>4, <2>2, Sends
    <3>2. pc' = "leave" => ~accepted'
      BY <2>2 DEF Committed, Exchange
    <3> QED BY <1>9, <3>1, <3>2 DEF EndInv
  <2>3. CASE Routed
    BY <1>2, <1>9, <2>3 DEF EndInv, Routed, replyVars, stageVars, uartVars, PlaceInv
  <2>4. CASE Publish
    BY <1>2, <1>9, <2>4 DEF EndInv, Publish, replyVars, uartVars, PlaceInv
  <2>5. CASE Recover
    <3>1. UNCHANGED <<toEmos, peer>>
      BY <1>1, <1>2, <1>3, <1>4, <2>5, Sends
    <3>2. pc' = "leave" => ~accepted'
      BY <2>5 DEF Recover, Exchange
    <3> QED BY <1>9, <3>1, <3>2 DEF EndInv
  <2>6. CASE RecoverUnleased
    BY <1>2, <1>9, <2>6 DEF EndInv, RecoverUnleased, Released, Release, uartVars,
       PlaceInv
  <2>7. CASE Left
    BY <1>2, <1>9, <2>7 DEF EndInv, Left, Answered, Released, Release, uartVars,
       PlaceInv
  <2> QED BY <1>12, <2>1, <2>2, <2>3, <2>4, <2>5, <2>6, <2>7 DEF Foreground
<1>13. CASE GivesUp
  <2>1. CASE EntryFails
    BY <1>2, <1>9, <2>1 DEF EndInv, EntryFails, GivenUp, stageVars, uartVars,
       Answered, PlaceInv
  <2>2. CASE Retained
    BY <1>2, <1>9, <2>2 DEF EndInv, Retained, GivenUp, stageVars, uartVars, Answered,
       PlaceInv
  <2> QED BY <1>13, <2>1, <2>2 DEF GivesUp
<1>14. CASE Deliver
  <2>1. toEmos # <<>> /\ toEmos' = Tail(toEmos) /\ UNCHANGED <<pc, peer>>
    BY <1>14, DeliverCases DEF fgVars
  <2>2. \A i \in 1 .. Len(toEmos') :
           toEmos'[i].kind \in {"LEAVE", "ABORT"} /\ toEmos'[i].tr = peer.tr
             => peer.st \in {"left", "none"}
    BY <1>4, <1>9, <2>1, TailElements DEF WireTypes, EndInv
  <2>3. ASSUME pc = "leave", ~accepted, accepted' PROVE peer.st \in {"left", "none"}
    <3>1. Head(toEmos).kind \in {"LEAVE", "ABORT"} /\ Head(toEmos).tr = request.tr
      BY <1>2, <2>3, <1>14, DeliverCases DEF HearsReply, StagesState, HearsPoll, ShowsState, replyVars,
         Heard, Matches, PlaceInv
    <3>2. peer.tr = request.tr
      BY <1>2, <1>6, <1>7, <2>3 DEF PlaceInv, WireInv, LeaseInv, Leased
    <3> QED BY <1>4, <1>9, <2>1, <3>1, <3>2, TailElements DEF WireTypes, EndInv
  <2> QED BY <1>9, <2>1, <2>2, <2>3 DEF EndInv
<1>15. CASE BoardAnswers
    BY <1>2, <1>9, <1>15 DEF EndInv, BoardAnswers, BoardEffect, fgVars, replyVars,
       stageVars, uartVars, PlaceInv
<1>16. CASE Fault
  <2>1. toEmos' = toEmos \/ (toEmos # <<>> /\ toEmos' = Tail(toEmos))
    BY <1>16 DEF Fault
  <2>2. UNCHANGED <<pc, accepted, peer>>
    BY <1>16 DEF Fault, fgVars, replyVars
  <2>3. CASE toEmos' = toEmos
    BY <1>9, <2>2, <2>3 DEF EndInv
  <2>4. CASE toEmos # <<>> /\ toEmos' = Tail(toEmos)
    <3>1. \A i \in 1 .. Len(toEmos') :
             toEmos'[i].kind \in {"LEAVE", "ABORT"} /\ toEmos'[i].tr = peer.tr
               => peer.st \in {"left", "none"}
      BY <1>4, <1>9, <2>4, TailElements DEF WireTypes, EndInv
    <3> QED BY <1>9, <2>2, <3>1 DEF EndInv
  <2> QED BY <2>1, <2>3, <2>4
<1>17. CASE Select
  <2>1. CASE SelectRemote
    BY <1>2, <1>9, <2>1 DEF EndInv, SelectRemote, fgVars, replyVars, stageVars,
       PlaceInv
  <2>2. CASE SelectMainboard
    BY <1>2, <1>9, <2>2 DEF EndInv, SelectMainboard, fgVars, replyVars, stageVars,
       PlaceInv
  <2> QED BY <1>17, <2>1, <2>2 DEF Select
<1>18. CASE PeerReceives
  <2>1. PICK e \in Seq(Packets) : Answer(e)
    BY <1>1, <1>4, <1>5, <1>6, <1>18, Answers DEF WireInv
  <2>2. UNCHANGED <<pc, accepted, transaction>>
    BY <1>18, PeerCases DEF fgVars, replyVars
  <2>3. toEmos' = toEmos \o e /\ toEmos \in Seq(Packets) /\ Len(toEmos) \in Nat /\ Len(e) \in Nat
    BY <1>4, <2>1 DEF Answer, WireTypes
  <2>4. peer.tr \in Int /\ peer'.tr \in Int /\ peer.tr <= peer'.tr
    BY <1>5, <2>1, PeerTypeStep DEF Answer, PeerType
  <2>5. ASSUME NEW i \in 1 .. Len(toEmos), toEmos[i].kind \in {"LEAVE", "ABORT"},
               toEmos[i].tr = peer'.tr
        PROVE  peer'.st \in {"left", "none"}
    <3>1. toEmos[i].tr <= peer.tr
      BY <1>6, <2>5 DEF WireInv, UpTo, OfLease
    <3>2. peer'.tr = peer.tr
      BY <2>4, <2>5, <3>1
    <3> QED BY <1>9, <2>1, <2>5, <3>2 DEF EndInv, Answer
  <2>6. \A i \in 1 .. Len(toEmos') :
           toEmos'[i].kind \in {"LEAVE", "ABORT"} /\ toEmos'[i].tr = peer'.tr
             => peer'.st \in {"left", "none"}
    <3> SUFFICES ASSUME NEW i \in 1 .. Len(toEmos'), toEmos'[i].kind \in {"LEAVE", "ABORT"},
                        toEmos'[i].tr = peer'.tr
                 PROVE  peer'.st \in {"left", "none"}
      OBVIOUS
    <3>1. CASE i \in 1 .. Len(toEmos)
      BY <2>3, <2>5, <3>1
    <3>2. CASE i \in Len(toEmos) + 1 .. Len(toEmos) + Len(e)
      <4>1. toEmos'[i] = e[i - Len(toEmos)] /\ i - Len(toEmos) \in 1 .. Len(e)
        BY <2>3, <3>2
      <4> QED BY <2>1, <4>1 DEF Answer
    <3> QED BY <2>3, <3>1, <3>2
  <2>7. pc' = "leave" /\ accepted' => peer'.st \in {"left", "none"}
    BY <1>2, <1>7, <1>9, <2>1, <2>2 DEF PlaceInv, LeaseInv, Leased, EndInv, Answer
  <2> QED BY <2>6, <2>7 DEF EndInv
<1>19. CASE PeerEffect
  <2>1. PICK e \in Seq(Packets) : Answer(e)
    BY <1>1, <1>4, <1>5, <1>6, <1>19, Answers DEF WireInv
  <2>2. UNCHANGED <<pc, accepted, transaction>>
    BY <1>19 DEF PeerEffect, fgVars, replyVars
  <2>3. toEmos' = toEmos \o e /\ toEmos \in Seq(Packets) /\ Len(toEmos) \in Nat /\ Len(e) \in Nat
    BY <1>4, <2>1 DEF Answer, WireTypes
  <2>4. peer.tr \in Int /\ peer'.tr \in Int /\ peer.tr <= peer'.tr
    BY <1>5, <2>1, PeerTypeStep DEF Answer, PeerType
  <2>5. ASSUME NEW i \in 1 .. Len(toEmos), toEmos[i].kind \in {"LEAVE", "ABORT"},
               toEmos[i].tr = peer'.tr
        PROVE  peer'.st \in {"left", "none"}
    <3>1. toEmos[i].tr <= peer.tr
      BY <1>6, <2>5 DEF WireInv, UpTo, OfLease
    <3>2. peer'.tr = peer.tr
      BY <2>4, <2>5, <3>1
    <3> QED BY <1>9, <2>1, <2>5, <3>2 DEF EndInv, Answer
  <2>6. \A i \in 1 .. Len(toEmos') :
           toEmos'[i].kind \in {"LEAVE", "ABORT"} /\ toEmos'[i].tr = peer'.tr
             => peer'.st \in {"left", "none"}
    <3> SUFFICES ASSUME NEW i \in 1 .. Len(toEmos'), toEmos'[i].kind \in {"LEAVE", "ABORT"},
                        toEmos'[i].tr = peer'.tr
                 PROVE  peer'.st \in {"left", "none"}
      OBVIOUS
    <3>1. CASE i \in 1 .. Len(toEmos)
      BY <2>3, <2>5, <3>1
    <3>2. CASE i \in Len(toEmos) + 1 .. Len(toEmos) + Len(e)
      <4>1. toEmos'[i] = e[i - Len(toEmos)] /\ i - Len(toEmos) \in 1 .. Len(e)
        BY <2>3, <3>2
      <4> QED BY <2>1, <4>1 DEF Answer
    <3> QED BY <2>3, <3>1, <3>2
  <2>7. pc' = "leave" /\ accepted' => peer'.st \in {"left", "none"}
    BY <1>2, <1>7, <1>9, <2>1, <2>2 DEF PlaceInv, LeaseInv, Leased, EndInv, Answer
  <2> QED BY <2>6, <2>7 DEF EndInv
<1>20. CASE PeerReset
  <2>1. toEmos' = <<>> /\ peer'.st = "none"
    BY <1>5, <1>20 DEF PeerReset, PeerType
  <2> QED BY <2>1 DEF EndInv
<1> QED BY <1>10, <1>11, <1>12, <1>13, <1>14, <1>15, <1>16, <1>17, <1>18, <1>19,
   <1>20 DEF Next

\* What is staged and shown is of the current lease.
LEMMA StageInvStep == IInv /\ [Next]_vars => StageInv'
<1> SUFFICES ASSUME IInv, [Next]_vars PROVE StageInv'
    OBVIOUS
<1>1. PlaceTypes
    BY DEF IInv
<1>2. PlaceInv
    BY DEF IInv
<1>3. RequestType
    BY DEF IInv
<1>4. WireTypes
    BY DEF IInv
<1>5. PeerType
    BY DEF IInv
<1>6. WireInv
    BY DEF IInv
<1>7. LeaseInv
    BY DEF IInv
<1>8. FlagTypes
    BY DEF IInv
<1>9. StageTypes
    BY DEF IInv
<1>10. StageInv
    BY DEF IInv
<1>11. CASE UNCHANGED vars
    BY <1>2, <1>8, <1>10, <1>11 DEF StageInv, DisplayStateFollowsRoute, vars, fgVars,
       replyVars, stageVars, uartVars, PlaceInv, FlagTypes
<1>12. CASE Requests
  <2>1. CASE RequestCompat
    <3>1. CASE Claims
      BY <1>2, <1>10, <2>1, <3>1, CompatCases DEF StageInv, DisplayStateFollowsRoute,
         Claims, Control, fgVars, replyVars, stageVars, uartVars, PlaceInv
    <3>2. CASE IsRefused
      BY <1>2, <1>10, <2>1, <3>2, CompatCases DEF StageInv, DisplayStateFollowsRoute,
         IsRefused, replyVars, uartVars, RequestCompat, Claims, stageVars, Claim,
         Exchange, Send, Control, fgVars, PlaceInv
    <3> QED BY <2>1, <3>1, <3>2, CompatCases
  <2>2. CASE RequestLegacy
    BY <1>2, <1>8, <1>10, <2>2 DEF StageInv, DisplayStateFollowsRoute, RequestLegacy,
       replyVars, stageVars, uartVars, PlaceInv, FlagTypes
  <2>3. CASE RequestOther
    BY <1>2, <1>8, <1>10, <2>3 DEF StageInv, DisplayStateFollowsRoute, RequestOther,
       replyVars, stageVars, uartVars, PlaceInv, FlagTypes
  <2> QED BY <1>12, <2>1, <2>2, <2>3 DEF Requests
<1>13. CASE Foreground
  <2>1. CASE Prepared
    BY <1>2, <1>8, <1>10, <2>1 DEF StageInv, DisplayStateFollowsRoute, Prepared,
       Answered, Exchange, stageVars, uartVars, Send, PlaceInv, FlagTypes
  <2>2. CASE Committed
    BY <1>2, <1>8, <1>10, <2>2 DEF StageInv, DisplayStateFollowsRoute, Committed,
       Answered, Send, Display, PollToken, uartVars, PlaceInv, FlagTypes
  <2>3. CASE Routed
    BY <1>2, <1>8, <1>10, <2>3 DEF StageInv, DisplayStateFollowsRoute, Routed,
       replyVars, stageVars, uartVars, PlaceInv, FlagTypes
  <2>4. CASE Publish
    BY <1>2, <1>8, <1>10, <2>4 DEF StageInv, DisplayStateFollowsRoute, Publish,
       replyVars, uartVars, PlaceInv, FlagTypes
  <2>5. CASE Recover
    BY <1>2, <1>8, <1>10, <2>5 DEF StageInv, DisplayStateFollowsRoute, Recover,
       Exchange, stageVars, uartVars, Send, PlaceInv, FlagTypes
  <2>6. CASE RecoverUnleased
    BY <1>2, <1>8, <1>10, <2>6 DEF StageInv, DisplayStateFollowsRoute,
       RecoverUnleased, Released, Release, uartVars, PlaceInv, FlagTypes
  <2>7. CASE Left
    BY <1>2, <1>8, <1>10, <2>7 DEF StageInv, DisplayStateFollowsRoute, Left,
       Answered, Released, Release, uartVars, PlaceInv, FlagTypes
  <2> QED BY <1>13, <2>1, <2>2, <2>3, <2>4, <2>5, <2>6, <2>7 DEF Foreground
<1>14. CASE GivesUp
  <2>1. CASE EntryFails
    BY <1>2, <1>8, <1>10, <2>1 DEF StageInv, DisplayStateFollowsRoute, EntryFails,
       GivenUp, stageVars, uartVars, Answered, PlaceInv, FlagTypes
  <2>2. CASE Retained
    BY <1>2, <1>8, <1>10, <2>2 DEF StageInv, DisplayStateFollowsRoute, Retained,
       GivenUp, stageVars, uartVars, Answered, PlaceInv, FlagTypes
  <2> QED BY <1>14, <2>1, <2>2 DEF GivesUp
<1>15. CASE Deliver
  <2>1. CASE HearsReply
    BY <1>2, <1>10, <1>15, <2>1, DeliverCases DEF StageInv, DisplayStateFollowsRoute,
       HearsReply, Heard, Matches, stageVars, fgVars, replyVars, uartVars, PlaceInv
  <2>2. CASE StagesState
    <3>1. toEmos # <<>> /\ Head(toEmos) \in Packets /\ Head(toEmos) = toEmos[1] /\ 1 \in 1 .. Len(toEmos)
      BY <1>4, <1>15, DeliverCases, TailElements DEF WireTypes
    <3>2. lease => Head(toEmos).tr = transaction
      BY <1>7, <2>2, <3>1 DEF LeaseInv, Leased, OnlyOf, OfLease, StagesState, Heard
    <3>3. /\ UNCHANGED <<pc, route, transaction, pollDone, sys>>
          /\ staged' = Head(toEmos).tr /\ seen' = seen \cup {Head(toEmos).kind}
          /\ Head(toEmos).kind \in {"mode", "cursor"}
      BY <1>15, <2>2, DeliverCases DEF StagesState, Heard, fgVars
    <3> QED BY <1>2, <1>9, <1>10, <3>2, <3>3 DEF PlaceInv, StageTypes, StageInv, DisplayStateFollowsRoute
  <2>3. CASE HearsPoll
    BY <1>2, <1>8, <1>10, <1>15, <2>3, DeliverCases DEF StageInv,
       DisplayStateFollowsRoute, HearsPoll, Heard, PollToken, replyVars, fgVars,
       stageVars, uartVars, PlaceInv, FlagTypes
  <2>4. CASE ShowsState
    <3>1. toEmos # <<>> /\ Head(toEmos) \in Packets /\ Head(toEmos) = toEmos[1] /\ 1 \in 1 .. Len(toEmos)
      BY <1>4, <1>15, DeliverCases, TailElements DEF WireTypes
    <3>2. lease /\ Head(toEmos).kind # "poll" => Head(toEmos).tr = transaction
      BY <1>7, <3>1 DEF LeaseInv, Leased, OnlyOf, OfLease
    <3>3. /\ UNCHANGED <<pc, route, transaction, pollDone, seen, staged>>
          /\ sys' = sys \/ (lease /\ Head(toEmos).kind # "poll" /\ sys' = Head(toEmos).tr)
      BY <1>15, <2>4, DeliverCases DEF ShowsState, Heard, fgVars, stageVars
    <3> QED BY <1>10, <3>2, <3>3 DEF StageInv, DisplayStateFollowsRoute
  <2> QED BY <1>15, <2>1, <2>2, <2>3, <2>4, DeliverCases
<1>16. CASE BoardAnswers
    BY <1>2, <1>8, <1>10, <1>16 DEF StageInv, DisplayStateFollowsRoute, BoardAnswers,
       BoardEffect, fgVars, replyVars, stageVars, uartVars, PlaceInv, FlagTypes
<1>17. CASE Fault
    BY <1>2, <1>8, <1>10, <1>17 DEF StageInv, DisplayStateFollowsRoute, Fault,
       fgVars, replyVars, stageVars, PlaceInv, FlagTypes
<1>18. CASE Select
  <2>1. CASE SelectRemote
    BY <1>2, <1>8, <1>10, <2>1 DEF StageInv, DisplayStateFollowsRoute, SelectRemote,
       fgVars, replyVars, stageVars, PlaceInv, FlagTypes
  <2>2. CASE SelectMainboard
    BY <1>2, <1>8, <1>10, <2>2 DEF StageInv, DisplayStateFollowsRoute,
       SelectMainboard, fgVars, replyVars, stageVars, PlaceInv, FlagTypes
  <2> QED BY <1>18, <2>1, <2>2 DEF Select
<1>19. CASE PeerReceives
  <2>1. CASE Grants
    BY <1>2, <1>10, <1>19, <2>1, PeerCases DEF StageInv, DisplayStateFollowsRoute,
       Grants, Asked, Control, fgVars, replyVars, stageVars, uartVars
  <2>2. CASE Commits
    BY <1>2, <1>10, <1>19, <2>2, PeerCases DEF StageInv, DisplayStateFollowsRoute,
       Commits, Asked, Holds, fgVars, replyVars, stageVars, uartVars
  <2>3. CASE Ends
    BY <1>2, <1>10, <1>19, <2>3, PeerCases DEF StageInv, DisplayStateFollowsRoute, Ends,
       Asked, Holds, fgVars, replyVars, stageVars, uartVars
  <2>4. CASE Reports
    BY <1>2, <1>10, <1>19, <2>4, PeerCases DEF StageInv, DisplayStateFollowsRoute,
       Reports, Asked, Display, fgVars, replyVars, stageVars, uartVars
  <2>5. CASE Ignores
    BY <1>2, <1>10, <1>19, <2>5, PeerCases DEF StageInv, DisplayStateFollowsRoute,
       Ignores, Asked, PeerReceives, Grants, Commits, Ends, Reports, fgVars,
       replyVars, stageVars, uartVars, Reply, WireTypes, RequestType, PollToken,
       UpTo, OnlyOf, Ascending, Rising, Newer, OfLease, PlaceTypes, PlaceInv,
       Prepared, Committed, Recover, Exchange, Send, Display, Control, Holds,
       Answered
  <2> QED BY <1>19, <2>1, <2>2, <2>3, <2>4, <2>5, PeerCases
<1>20. CASE PeerEffect
    BY <1>2, <1>8, <1>10, <1>20 DEF StageInv, DisplayStateFollowsRoute, PeerEffect,
       Reply, Display, fgVars, replyVars, stageVars, uartVars, PlaceInv, FlagTypes
<1>21. CASE PeerReset
    BY <1>2, <1>8, <1>10, <1>21 DEF StageInv, DisplayStateFollowsRoute, PeerReset,
       fgVars, replyVars, stageVars, uartVars, PlaceInv, FlagTypes
<1> QED BY <1>11, <1>12, <1>13, <1>14, <1>15, <1>16, <1>17, <1>18, <1>19, <1>20,
   <1>21 DEF Next

-----------------------------------------------------------------------------
(* The theorems.                                                           *)

\* The invariant holds at reset.
LEMMA InitIInv == Init => IInv
<1> SUFFICES ASSUME Init PROVE IInv
    OBVIOUS
<1>1. PlaceTypes
    BY BoundsAssumption DEF Init, PlaceTypes, Ops
<1>2. FlagTypes
    BY DEF Init, FlagTypes
<1>3. RequestType
    BY BoundsAssumption DEF Init, RequestType, Control, Ops, Packets
<1>4. StageTypes
    BY BoundsAssumption DEF Init, StageTypes
<1>5. PeerType
    BY BoundsAssumption DEF Init, PeerType, Nonces
<1>6. WireTypes
    BY DEF Init, WireTypes
<1>7. PlaceInv
    BY DEF Init, PlaceInv
<1>8. WireInv
    BY DEF Init, WireInv, Control, Newer, Rising, UpTo, Ascending
<1>9. LeaseInv /\ EndInv /\ StageInv
    BY DEF Init, LeaseInv, Leased, EndInv, StageInv, DisplayStateFollowsRoute
<1> QED BY <1>1, <1>2, <1>3, <1>4, <1>5, <1>6, <1>7, <1>8, <1>9 DEF IInv

\* The inductive invariant holds in every reachable state.
THEOREM InductiveInvariant == Spec => []IInv
<1>1. IInv /\ [Next]_vars => IInv'
    BY PlaceTypesStep, FlagTypesStep, RequestTypeStep, StageTypesStep, PeerTypeStep, WireTypesStep,
       PlaceInvStep, WireInvStep, LeaseInvStep, EndInvStep, StageInvStep DEF IInv
<1> QED BY InitIInv, <1>1, PTL DEF Spec

\* Mode, route, lease and ownership agree between requests, and the published display
\* state is the display's (emos.c, emos_console.c), for any number of leases and packets.
THEOREM OwnersSafety == Spec => []OwnersAndDisplayAgree
<1>1. IInv => TypeOK
    BY DEF IInv, PlaceTypes, FlagTypes, RequestType, StageTypes, PeerType, WireTypes, TypeOK
<1>2. IInv => OwnersFollowRoute /\ DisplayStateFollowsRoute
  <2> SUFFICES ASSUME IInv PROVE OwnersFollowRoute /\ DisplayStateFollowsRoute
      OBVIOUS
  <2>1. mode = "COMPAT" <=> route = 1
      BY DEF IInv, PlaceInv
  <2>2. pc = "idle" => (owned <=> route = 1) /\ (lease <=> route = 1) /\ waiting = "no" /\ ~staging
      BY DEF IInv, PlaceInv
  <2>3. owned \in BOOLEAN /\ lease \in BOOLEAN
      BY DEF IInv, FlagTypes
  <2>4. OwnersFollowRoute
      BY <2>1, <2>2, <2>3, Zenon DEF OwnersFollowRoute
  <2> QED BY <2>4 DEF IInv, StageInv
<1> QED BY InductiveInvariant, <1>1, <1>2, PTL DEF OwnersAndDisplayAgree

\* The step of LeaveIsAcknowledged.
LeavesTruly == route = 1 /\ route' = 0 => ~(peer.st = "active" /\ peer.tr = transaction)

\* A step that leaves a mode does so on the answer of the transaction in progress.
LEMMA LeaveStep == IInv /\ [Next]_vars => [LeavesTruly]_vars
<1> SUFFICES ASSUME IInv, Next, route = 1, route' = 0 PROVE peer.st # "active"
    BY DEF LeavesTruly
<1>1. Left /\ Answered /\ pc = "leave"
    BY DEF Next, IInv, PlaceInv, Requests, RequestCompat, RequestLegacy, RequestOther, Foreground,
       Prepared, Committed, Routed, Publish, Recover, RecoverUnleased, Left, GivesUp, EntryFails,
       Retained, Deliver, BoardAnswers, Fault, Select, SelectRemote, SelectMainboard, PeerReceives,
       PeerEffect, PeerReset, fgVars
<1> QED BY <1>1 DEF IInv, EndInv, Answered

\* The route is given up only when the peer has acknowledged its LEAVE or lost the lease
\* (emos_console.c), whatever was lost, delayed or left over from earlier leases.
THEOREM LeaveIsTrue == Spec => LeaveIsAcknowledged
<1>1. Spec => [][LeavesTruly]_vars
    BY InductiveInvariant, LeaveStep, PTL DEF Spec
<1> QED BY <1>1 DEF LeaveIsAcknowledged, LeavesTruly

=============================================================================

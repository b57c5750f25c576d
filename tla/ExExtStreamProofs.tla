------------------------ MODULE ExExtStreamProofs ------------------------
(***************************************************************************)
(* Proofs about ExExtStream, for every size of the buffers, every length   *)
(* of a stream and everything the peer has to return.                      *)
(***************************************************************************)
EXTENDS ExExtStream, WellFoundedInduction, SequenceTheorems, TLAPS

-----------------------------------------------------------------------------
(* The inductive invariant.                                                *)

\* The types, by what a step touches.
FlagTypes ==
    /\ owned \in BOOLEAN /\ needMore \in BOOLEAN /\ faulted \in BOOLEAN /\ fenced \in BOOLEAN
    /\ lossy \in BOOLEAN /\ troubled \in BOOLEAN /\ mixed \in BOOLEAN
    /\ route \in {0, 2} /\ fg \in {"idle", "boundary", "select", "opened", "leave"}
    /\ rx \in {"none", "part"}
Whos == {"none", "write", "start", "stop", "service"}
Steps == {"none", "begin", "session", "open", "flush", "transfer", "offer", "block",
          "copy", "askPoll", "poll", "drain", "stop", "end"}
JobType == job \in [who : Whos, at : Steps, left : 0 .. MaxOut, n : 0 .. Fetch]
Requests == {"session", "open", "offer", "poll", "stop"}
WireType == wire \in [op : Requests \cup {"none"}, st : {"none", "asked", "sent", "arrived", "lost"}, n : Nat]
PeerType == peer \in [session : 0 .. 2, num : 0 .. MaxBlock, open : BOOLEAN]
CountTypes ==
    /\ num \in 0 .. MaxBlock /\ session \in 0 .. 2 /\ written \in 0 .. MaxOut
    /\ fed \in 0 .. Len(Return) /\ queued \in 0 .. Len(Return)
OutTypes == out \in Seq(1 .. MaxOut) /\ got \in Seq(1 .. MaxOut) /\ Len(out) <= OutCap
InTypes == inb \in Seq(DOMAIN Return) /\ pend \in Seq(DOMAIN Return) /\ Len(inb) <= 2 * Fetch

\* Where a job may be; only the reservation it waits in has an exchange on the wire.
Runs(who) == job.who = who
JobInv ==
    /\ Runs("none") => job = NoJob
    /\ Runs("start") => job.at \in {"begin", "session", "open"} /\ job.n = 0
    /\ Runs("write") => job.at \in {"copy", "transfer", "session", "offer", "block"} /\ job.n = 0
    /\ Runs("stop") => job.at \in {"flush", "transfer", "session", "offer", "block", "drain", "stop"}
    /\ Runs("service") =>
         job.at \in {"flush", "transfer", "session", "offer", "block", "askPoll", "poll", "end"}
    /\ job.who \in {"start", "write", "stop"} => fg = "idle"
    /\ job # NoJob => owned \/ job.at = "end"
    /\ job.n > 0 => job.at \in {"transfer", "session", "offer", "block", "end"}

WireInv ==
    /\ wire.op = IF job.at \in Requests THEN job.at ELSE "none"
    /\ wire.op = "none" <=> wire = Quiet
    /\ wire.st = "none" <=> wire.op = "none"
    /\ wire.op = "offer" => wire.n <= MaxBlock
    /\ rx = "part" => wire.st = "sent"
    /\ job.at = "session" => num = 0

\* There is room for what is being written, and for what is being fetched.
WriteRoom ==
    /\ job.who = "write" => written + job.left <= MaxOut
    /\ fg = "boundary" => written < MaxOut
FetchRoom == job.n <= Len(pend) /\ Len(inb) + job.n <= 2 * Fetch
AmountRoom ==
    wire.op \in {"poll", "stop"} /\ wire.st \in {"sent", "arrived"} => wire.n <= Len(pend)

\* What has been sent and what waits are the bytes written; a stop that drains has sent all.
Sent(g, o, w) ==
    /\ Len(g) + Len(o) = w
    /\ \A i \in 1 .. Len(g) : g[i] = i
    /\ \A i \in 1 .. Len(o) : o[i] = Len(g) + i
OutOrder == ~lossy => Sent(got, out, written)
OutDrained == Runs("stop") /\ (job.at \in {"drain", "stop"} \/ job.n > 0) => out = <<>>

\* What waits here and at the peer is what has not been parsed; a start begins empty.
Waits(f, b, p, q) ==
    /\ f + Len(b) + Len(p) = q
    /\ \A i \in 1 .. Len(b) : b[i] = f + i
    /\ \A i \in 1 .. Len(p) : p[i] = f + Len(b) + i
InOrder == owned /\ ~Runs("start") /\ ~lossy => Waits(fed, inb, pend, queued)
StartInv ==
    /\ Runs("start") => inb = <<>> /\ fed = 0
    /\ Runs("start") /\ wire.op = "open" /\ wire.st \in {"sent", "arrived"} => Waits(0, <<>>, pend, queued)

\* Who leaves the console has no stream; a peer that has answered the end keeps nothing.
LeaveInv == fg = "leave" => ~owned
EndInv == wire.op = "stop" /\ wire.st \in {"sent", "arrived"} /\ wire.n = 0 => ~peer.open /\ pend = <<>>

IInv == /\ FlagTypes /\ JobType /\ WireType /\ PeerType /\ CountTypes /\ OutTypes /\ InTypes
        /\ JobInv /\ WireInv /\ WriteRoom /\ FetchRoom /\ AmountRoom 
        /\ OutOrder /\ OutDrained /\ InOrder /\ StartInv /\ LeaveInv /\ EndInv

-----------------------------------------------------------------------------
(* What is published.                                                      *)

\* A nonempty set of natural numbers has a least element.
LEMMA LeastOf == ASSUME NEW S \in SUBSET Nat, S # {} PROVE \E x \in S : \A y \in S : x <= y
<1> DEFINE R == {ss \in Nat \X Nat : ss[1] < ss[2]}
<1>1. IsWellFoundedOn(R, Nat)
    BY NatLessThanWellFounded DEF OpToRel
<1> HIDE DEF R
<1>2. PICK x \in S : \A y \in S : ~ (<<y, x>> \in R)
    BY <1>1, WFMin
<1>3. ASSUME NEW y \in S PROVE x <= y
  <2>1. x \in Nat /\ y \in Nat /\ ~ (<<y, x>> \in R)
      BY <1>2
  <2> QED BY <2>1 DEF R
<1> QED BY <1>2, <1>3

\* The minimum of a nonempty set of natural numbers is in it.
LEMMA MinOf == ASSUME NEW S \in SUBSET Nat, S # {} PROVE Min(S) \in S
BY LeastOf DEF Min

\* The maximum of a nonempty bounded set of natural numbers is in it.
LEMMA MaxOf == ASSUME NEW n \in Nat, NEW S \in SUBSET (0 .. n), S # {} PROVE Max(S) \in S
<1> DEFINE T == {n - x : x \in S}
<1>1. T \in SUBSET Nat
    OBVIOUS
<1>2. T # {}
    OBVIOUS
<1> HIDE DEF T
<1>3. PICK t \in T : \A y \in T : t <= y
    BY <1>1, <1>2, LeastOf
<1>4. PICK x \in S : t = n - x
    BY <1>3 DEF T
<1>5. ASSUME NEW y \in S PROVE x >= y
  <2>1. n - y \in T
      BY DEF T
  <2> QED BY <1>3, <1>4, <2>1
<1> QED BY <1>4, <1>5 DEF Max

\* What is published is the front of incoming.
LEMMA PublishableRange == InTypes => Publishable \in 0 .. Len(inb)
<1> SUFFICES ASSUME InTypes PROVE Publishable \in 0 .. Len(inb)
    OBVIOUS
<1>1. DOMAIN inb = 1 .. Len(inb) /\ Len(inb) \in Nat
    BY DEF InTypes
<1>2. \A hs : Ends(hs) \in SUBSET (1 .. Len(inb))
    BY <1>1 DEF Ends
<1>3. Orphans \in SUBSET (1 .. Len(inb))
    BY <1>1 DEF Orphans
<1>4. KeyEnds # {} => Min(KeyEnds) \in 0 .. Len(inb)
  <2>1. KeyEnds \in SUBSET (1 .. Len(inb)) /\ KeyEnds \in SUBSET Nat
    <3>1. KeyEnds \in SUBSET (1 .. Len(inb))
        BY <1>2 DEF KeyEnds
    <3> QED BY <1>1, <3>1
  <2>2. KeyEnds # {} => Min(KeyEnds) \in KeyEnds
      BY <2>1, MinOf
  <2>3. \A k \in 1 .. Len(inb) : k \in 0 .. Len(inb)
      BY <1>1
  <2>4. KeyEnds # {} => Min(KeyEnds) \in 1 .. Len(inb)
      BY <2>1, <2>2, Zenon
  <2> QED BY <2>3, <2>4, Zenon
<1>5. Max(Ends(Headers) \cup Orphans \cup {0}) \in 0 .. Len(inb)
  <2>1. Ends(Headers) \cup Orphans \cup {0} \in SUBSET (0 .. Len(inb))
    <3>1. Ends(Headers) \in SUBSET (1 .. Len(inb))
        BY <1>2
    <3>2. \A k \in 1 .. Len(inb) : k \in 0 .. Len(inb)
        BY <1>1
    <3>3. 0 \in 0 .. Len(inb)
        BY <1>1
    <3> QED BY <1>3, <3>1, <3>2, <3>3, Zenon
  <2> QED BY <2>1, <1>1, MaxOf
<1> QED BY <1>1, <1>4, <1>5 DEF Publishable

\* The parser takes the front of incoming in order; a fault discards it all.
Takes(n) ==
    /\ ~faulted /\ inb' = SubSeq(inb, n + 1, Len(inb)) /\ lossy' = lossy
    /\ fed' = IF n > 0 THEN inb[n] ELSE fed
Discards == faulted /\ inb' = <<>> /\ fed' = fed /\ lossy' = (lossy \/ inb # <<>>)
Interrupts == \/ UNCHANGED <<mixed, wire, rx>>
              \/ /\ rx = "part" /\ mixed' = TRUE /\ rx' = "none"
                 /\ wire' = [op |-> wire.op, st |-> "lost", n |-> wire.n]

\* The interrupt discards what it holds, or takes as many bytes as it can publish.
LEMMA PublishCases ==
    ASSUME InTypes, FlagTypes, WireType, Publish
    PROVE  /\ Discards \/ \E n \in 0 .. Len(inb) : Takes(n)
           /\ Interrupts /\ needMore' \in BOOLEAN
<1>1. Publishable \in 0 .. Len(inb)
    BY PublishableRange
<1>2. needMore' \in BOOLEAN
    BY DEF Publish
<1>3. Interrupts
  <2>1. wire' = [wire EXCEPT !.st = "lost"] => wire' = [op |-> wire.op, st |-> "lost", n |-> wire.n]
      BY DEF WireType
  <2> QED BY <2>1 DEF Publish, Interrupts
<1>4. CASE faulted
    BY <1>4, <1>2, <1>3 DEF Publish, Publishable, Discards, FlagTypes
<1>5. CASE ~faulted
    BY <1>1, <1>2, <1>3, <1>5 DEF Publish, Takes, FlagTypes
<1> QED BY <1>4, <1>5

\* What is left of a sequence once its front is taken.
LEMMA Fronts ==
    ASSUME NEW S, NEW s \in Seq(S), NEW n \in 0 .. Len(s)
    PROVE  /\ SubSeq(s, n + 1, Len(s)) \in Seq(S) /\ Len(SubSeq(s, n + 1, Len(s))) = Len(s) - n
           /\ \A i \in 1 .. Len(s) - n : SubSeq(s, n + 1, Len(s))[i] = s[n + i]
           /\ SubSeq(s, 1, n) \in Seq(S) /\ Len(SubSeq(s, 1, n)) = n
           /\ \A i \in 1 .. n : SubSeq(s, 1, n)[i] = s[i]
OBVIOUS

\* Two sequences, joined.
LEMMA Joined ==
    ASSUME NEW S, NEW s \in Seq(S), NEW t \in Seq(S)
    PROVE  /\ s \o t \in Seq(S) /\ Len(s \o t) = Len(s) + Len(t)
           /\ \A i \in 1 .. Len(s) : (s \o t)[i] = s[i]
           /\ \A i \in 1 .. Len(t) : (s \o t)[Len(s) + i] = t[i]
OBVIOUS

\* Consecutive numbers, as a sequence.
LEMMA Ranging ==
    ASSUME NEW m \in Nat, NEW n \in Nat, NEW b \in Nat, m + n <= b
    PROVE  /\ [i \in 1 .. n |-> m + i] \in Seq(1 .. b) /\ Len([i \in 1 .. n |-> m + i]) = n
           /\ \A i \in 1 .. n : [j \in 1 .. n |-> m + j][i] = m + i
OBVIOUS

-----------------------------------------------------------------------------
(* What the steps of a job do.                                             *)

Moves(step) == job' = [who |-> job.who, at |-> step, left |-> job.left, n |-> job.n]

\* What the edits of a job come to, written out as a record.
LEMMA JobEdits ==
    ASSUME JobType
    PROVE  /\ \A s \in Steps : job' = [job EXCEPT !.at = s] => Moves(s)
           /\ \A s \in Steps : \A n \in Int : job' = [job EXCEPT !.at = s, !.n = n] =>
                job' = [who |-> job.who, at |-> s, left |-> job.left, n |-> n]
           /\ \A s \in Steps : \A l \in Int : job' = [job EXCEPT !.at = s, !.left = l] =>
                job' = [who |-> job.who, at |-> s, left |-> l, n |-> job.n]
           /\ \A w \in Whos : \A s \in Steps : \A l \in Int :
                job' = [NoJob EXCEPT !.who = w, !.at = s, !.left = l] =>
                job' = [who |-> w, at |-> s, left |-> l, n |-> 0]
           /\ \A w \in Whos : \A s \in Steps : job' = [NoJob EXCEPT !.who = w, !.at = s] =>
                job' = [who |-> w, at |-> s, left |-> 0, n |-> 0]
<1>1. ASSUME NEW s \in Steps, job' = [job EXCEPT !.at = s] PROVE Moves(s)
    BY <1>1 DEF JobType, Moves
<1>2. ASSUME NEW s \in Steps, NEW n \in Int, job' = [job EXCEPT !.at = s, !.n = n]
      PROVE  job' = [who |-> job.who, at |-> s, left |-> job.left, n |-> n]
    BY <1>2 DEF JobType
<1>3. ASSUME NEW s \in Steps, NEW l \in Int, job' = [job EXCEPT !.at = s, !.left = l]
      PROVE  job' = [who |-> job.who, at |-> s, left |-> l, n |-> job.n]
    BY <1>3 DEF JobType
<1>4. ASSUME NEW w \in Whos, NEW s \in Steps, NEW l \in Int,
             job' = [NoJob EXCEPT !.who = w, !.at = s, !.left = l]
      PROVE  job' = [who |-> w, at |-> s, left |-> l, n |-> 0]
    BY <1>4 DEF NoJob
<1>5. ASSUME NEW w \in Whos, NEW s \in Steps, job' = [NoJob EXCEPT !.who = w, !.at = s]
      PROVE  job' = [who |-> w, at |-> s, left |-> 0, n |-> 0]
    BY <1>5 DEF NoJob
<1> QED BY <1>1, <1>2, <1>3, <1>4, <1>5

\* A job that fails: a service leaves the end to the tick, and a start gives the stream up.
ServiceFails == Runs("service") /\ Moves("end") /\ owned' = FALSE
StartFails == Runs("start") /\ job' = NoJob /\ owned' = FALSE
OtherFails == job.who \notin {"service", "start"} /\ job' = NoJob /\ owned' = owned

\* A failure ends a service, a start, or another job.
LEMMA FailCases ==
    ASSUME FlagTypes, JobType, NEW fence \in BOOLEAN, Fails(fence)
    PROVE  fenced' \in BOOLEAN /\ (ServiceFails \/ StartFails \/ OtherFails)
<1>1. fenced' \in BOOLEAN
    BY DEF Fails, FlagTypes, Serving
<1>2. CASE Runs("service")
    BY <1>2, JobEdits DEF Steps, Fails, Runs, Serving, ServiceFails, Moves, FlagTypes
<1>3. CASE Runs("start")
    BY <1>3 DEF Fails, Runs, Serving, StartFails, FlagTypes
<1>4. CASE job.who \notin {"service", "start"}
    BY <1>4 DEF Fails, Serving, OtherFails, FlagTypes
<1> QED BY <1>1, <1>2, <1>3, <1>4 DEF Runs

WriteEnds == Runs("write") /\ job.left = 0 /\ job' = NoJob
WriteGoesOn == Runs("write") /\ job.left # 0 /\ Moves("copy")
StopDrains == Runs("stop") /\ Moves("drain")
ServicePolls == Runs("service") /\ Moves("askPoll")

\* Once the output is sent, a write ends or goes on, a stop drains, a service polls.
LEMMA AfterFlushCases ==
    ASSUME JobType, job.who \in {"write", "stop", "service"}, AfterFlush
    PROVE  WriteEnds \/ WriteGoesOn \/ StopDrains \/ ServicePolls
<1>1. CASE job.who = "write" /\ job.left = 0
  <2>1. job' = NoJob
      BY <1>1 DEF AfterFlush, Serving
  <2> QED BY <1>1, <2>1 DEF WriteEnds, Runs
<1>2. CASE job.who = "write" /\ job.left # 0
  <2>1. job' = [job EXCEPT !.at = "copy"]
      BY <1>2 DEF AfterFlush, Serving
  <2> QED BY <1>2, <2>1, JobEdits DEF Steps, WriteGoesOn, Runs, Moves
<1>3. CASE job.who = "stop"
  <2>1. job' = [job EXCEPT !.at = "drain"]
      BY <1>3 DEF AfterFlush, Serving
  <2> QED BY <1>3, <2>1, JobEdits DEF Steps, StopDrains, Runs, Moves
<1>4. CASE job.who = "service"
  <2>1. job' = [job EXCEPT !.at = "askPoll"]
      BY <1>4 DEF AfterFlush, Serving
  <2> QED BY <1>4, <2>1, JobEdits DEF Steps, ServicePolls, Runs, Moves
<1> QED BY <1>1, <1>2, <1>3, <1>4

\* The lesser of two amounts.
LEMMA MinOfTwo ==
    ASSUME NEW a \in Nat, NEW b \in Nat
    PROVE  Min({a, b}) = IF a <= b THEN a ELSE b
<1>1. Min({a, b}) \in {a, b} /\ \A y \in {a, b} : Min({a, b}) <= y
  <2>1. \E x \in {a, b} : \A y \in {a, b} : x <= y
      OBVIOUS
  <2> QED BY <2>1 DEF Min
<1> QED BY <1>1

Fetches(n) ==
    /\ Continue /\ Len(inb) + Capped(n) <= 2 * Fetch /\ Capped(n) \in 0 .. Fetch /\ Capped(n) <= n
    /\ job' = [who |-> job.who, at |-> "transfer", left |-> job.left, n |-> Capped(n)]

\* An amount that was offered is fetched, unless there is no room for it.
LEMMA FetchCases ==
    ASSUME FlagTypes, InTypes, JobType, NEW n \in Nat, FetchAmount(n)
    PROVE  Fails(FALSE) \/ Fetches(n)
<1>1. Capped(n) \in 0 .. Fetch /\ Capped(n) <= n
    BY SMTT(30), MinOfTwo, BoundsAssumption DEF Capped
<1>2. CASE Len(inb) + Capped(n) > 2 * Fetch
    BY <1>2 DEF FetchAmount, Kept
<1>3. CASE ~(Len(inb) + Capped(n) > 2 * Fetch)
  <2>1. Len(inb) \in Nat /\ Fetch \in Nat
      BY BoundsAssumption DEF InTypes
  <2>2. Len(inb) + Capped(n) <= 2 * Fetch
      BY <1>1, <1>3, <2>1
  <2>3. job' = [job EXCEPT !.at = "transfer", !.n = Capped(n)] /\ Continue
      BY <1>3 DEF FetchAmount, Kept
  <2>4. Capped(n) \in Int /\ "transfer" \in Steps
      BY <1>1 DEF Steps
  <2>5. job' = [who |-> job.who, at |-> "transfer", left |-> job.left, n |-> Capped(n)]
      BY <2>3, <2>4, JobEdits, Zenon
  <2> QED BY <1>1, <2>2, <2>3, <2>5 DEF Fetches
<1> QED BY <1>2, <1>3

\* The number after a block's is never the reserved 0, unless blocks are numbered no further.
LEMMA BlockNumbers ==
    CountTypes => NextBlock \in 0 .. MaxBlock /\ (num = 0 => NextBlock # 0)
<1> SUFFICES ASSUME CountTypes PROVE NextBlock \in 0 .. MaxBlock /\ (num = 0 => NextBlock # 0)
    OBVIOUS
<1>1. MaxBlock \in Nat /\ MaxBlock # 0 /\ num \in Nat /\ num <= MaxBlock
    BY BoundsAssumption DEF CountTypes
<1>2. CASE num = MaxBlock
  <2>1. (num + 1) % (MaxBlock + 1) = 0
      BY <1>1, <1>2
  <2> QED BY <1>1, <1>2, <2>1 DEF NextBlock
<1>3. CASE num < MaxBlock
  <2>1. (num + 1) % (MaxBlock + 1) = num + 1
      BY <1>1, <1>3
  <2> QED BY <1>1, <1>3, <2>1 DEF NextBlock
<1> QED BY <1>1, <1>2, <1>3

\* flush
FlushSends == out # <<>> /\ Moves("transfer")
FlushEnds == out = <<>> /\ (StopDrains \/ ServicePolls)

\* A flush has output to send, or nothing left.
LEMMA FlushCases ==
    ASSUME IInv, Flush
    PROVE  /\ job.at = "flush" /\ UNCHANGED <<stream, incoming, line, remote, seen, counts>>
           /\ FlushSends \/ FlushEnds
<1>1. job.at = "flush" /\ UNCHANGED <<stream, incoming, line, remote, seen, counts>>
    BY DEF Flush, At
<1>2. JobType /\ job.who \in {"stop", "service"}
    BY <1>1 DEF IInv, JobInv, JobType, Runs, Whos, NoJob
<1>3. CASE out = <<>>
  <2>1. AfterFlush
      BY <1>3 DEF Flush
  <2>2. WriteEnds \/ WriteGoesOn \/ StopDrains \/ ServicePolls
      BY <1>2, <2>1, AfterFlushCases
  <2>3. ~WriteEnds /\ ~WriteGoesOn
      BY <1>2 DEF WriteEnds, WriteGoesOn, Runs
  <2> QED BY <1>1, <1>3, <2>2, <2>3 DEF FlushEnds
<1>4. CASE out # <<>>
  <2>1. job' = [job EXCEPT !.at = "transfer"]
      BY <1>4 DEF Flush, Goto
  <2>2. Moves("transfer")
      BY <1>2, <2>1, JobEdits DEF Steps
  <2> QED BY <1>1, <1>4, <2>2 DEF FlushSends
<1> QED BY <1>1, <1>3, <1>4

\* Reserve: a request goes on the wire.
Asks(op, n) == /\ Moves(op) /\ wire' = [op |-> op, st |-> "asked", n |-> n] /\ Continue
AsksSession == /\ job.at \in {"begin", "transfer"} /\ Asks("session", 0)
               /\ session' = NextSession /\ num' = 0
AsksOffer == job.at = "transfer" /\ Asks("offer", NextBlock) /\ UNCHANGED <<session, num>>
AsksPoll == job.at = "askPoll" /\ Asks("poll", 0) /\ UNCHANGED <<session, num>>
AsksStop == job.at = "drain" /\ Asks("stop", 0) /\ UNCHANGED <<session, num>>

\* The reservation is granted for one of the four requests.
LEMMA ReserveCases ==
    ASSUME IInv, Reserve
    PROVE  /\ rx = "none" /\ UNCHANGED <<route, fg, out, incoming, rx, faulted, remote, seen, counts>>
           /\ AsksSession \/ AsksOffer \/ AsksPoll \/ AsksStop
<1>1. rx = "none" /\ UNCHANGED <<route, fg, out, incoming, rx, faulted, remote, seen, counts>> /\ JobType
    BY DEF Reserve, CanReserve, IInv
<1>2. ASSUME NEW op \in Requests, NEW n, Ask(op, n), Continue PROVE Asks(op, n)
  <2>1. op \in Steps /\ job' = [job EXCEPT !.at = op]
      BY <1>2 DEF Ask, Goto, Requests, Steps
  <2>2. Moves(op)
      BY <1>1, <2>1, JobEdits
  <2> QED BY <1>2, <2>2 DEF Ask, Asks
<1> QED BY <1>1, <1>2 DEF Requests, Reserve, At, AskOffer, MustRenew, AsksSession, AsksOffer, AsksPoll, AsksStop

\* The reservation is refused, and the job fails.
LEMMA RefusedCases ==
    ASSUME IInv, Refused
    PROVE  /\ job.at \in {"begin", "transfer", "askPoll", "drain"} /\ fenced' \in BOOLEAN
           /\ UNCHANGED <<route, fg, out, session, num, incoming, wire, rx, faulted, remote, seen, counts>>
           /\ ServiceFails \/ StartFails \/ OtherFails
BY FailCases DEF Refused, IInv, At

\* An answer has arrived.
Opens == Runs("start") /\ Asks("open", 0)
Offers == ~Runs("start") /\ Asks("offer", NextBlock)

\* The session was answered: the stream opens, or a block is offered.
LEMMA NegotiatedCases ==
    ASSUME IInv, Negotiated
    PROVE  /\ job.at = "session" /\ wire.st = "arrived"
           /\ UNCHANGED <<route, fg, out, session, num, incoming, rx, faulted, remote, seen, counts>>
           /\ Opens \/ Offers
<1>1. /\ job.at = "session" /\ wire.st = "arrived" /\ JobType
      /\ UNCHANGED <<route, fg, out, session, num, incoming, rx, faulted, remote, seen, counts>>
    BY DEF Negotiated, Answered, At, IInv
<1>2. NextBlock # 0
    BY <1>1, BlockNumbers DEF IInv, WireInv
<1>3. ASSUME NEW op \in Requests, NEW n, Ask(op, n), Continue PROVE Asks(op, n)
  <2>1. op \in Steps /\ job' = [job EXCEPT !.at = op]
      BY <1>3 DEF Ask, Goto, Requests, Steps
  <2>2. Moves(op)
      BY <1>1, <2>1, JobEdits
  <2> QED BY <1>3, <2>2 DEF Ask, Asks
<1> QED BY <1>1, <1>2, <1>3 DEF Requests, Negotiated, AskOffer, Opens, Offers, Runs

PollFetches == wire.n > 0 /\ Fetches(wire.n) /\ UNCHANGED needMore
PollFails == (ServiceFails \/ StartFails \/ OtherFails) /\ fenced' \in BOOLEAN /\ UNCHANGED needMore
PollEnds == Moves("end") /\ needMore' = FALSE /\ Continue

\* The poll was answered with an amount to fetch, with too much, or with nothing.
LEMMA PolledCases ==
    ASSUME IInv, Polled
    PROVE  /\ job.at = "poll" /\ wire.st = "arrived" /\ wire' = Quiet
           /\ UNCHANGED <<route, fg, out, session, num, inb, rx, faulted, remote, seen, counts>>
           /\ PollFetches \/ PollFails \/ PollEnds
<1>1. /\ job.at = "poll" /\ wire.st = "arrived" /\ wire' = Quiet
      /\ UNCHANGED <<route, fg, out, session, num, inb, rx, faulted, remote, seen, counts>>
      /\ FlagTypes /\ JobType /\ InTypes /\ wire.n \in Nat
    BY DEF Polled, Answered, At, IInv, WireType
<1>2. CASE wire.n > 0 /\ FetchAmount(wire.n) /\ UNCHANGED needMore
    BY <1>1, <1>2, FetchCases, FailCases DEF PollFetches, PollFails
<1>3. CASE Goto("end") /\ needMore' = FALSE /\ Continue
    BY <1>1, <1>3, JobEdits DEF Steps, Goto, PollEnds, Moves
<1> QED BY <1>1, <1>2, <1>3 DEF Polled

\* emos_parallel_native_coordinate: a block has gone, or one has come.
BlockGoes == /\ job.n = 0 /\ got' = got \o out /\ out' = <<>> /\ UNCHANGED <<incoming, pend>>
             /\ WriteEnds \/ WriteGoesOn \/ StopDrains \/ ServicePolls
BlockComes == /\ job.n > 0 /\ inb' = inb \o SubSeq(pend, 1, job.n) /\ needMore' = FALSE
              /\ pend' = SubSeq(pend, job.n + 1, Len(pend)) /\ UNCHANGED <<got, out>>
              /\ job' = [who |-> job.who, at |-> IF Runs("service") THEN "end" ELSE "drain",
                         left |-> job.left, n |-> 0]

\* A block went out, or came in.
LEMMA BlockCases ==
    ASSUME IInv, BlockDone
    PROVE  /\ job.at = "block"
           /\ UNCHANGED <<owned, route, fg, session, num, line, peer, seen, written, queued, troubled>>
           /\ BlockGoes \/ BlockComes
<1>1. /\ job.at = "block" /\ JobType
      /\ UNCHANGED <<owned, route, fg, session, num, line, peer, seen, written, queued, troubled>>
    BY DEF BlockDone, At, IInv
<1>2. job.who \in {"write", "stop", "service"}
    BY <1>1 DEF IInv, JobInv, JobType, Runs, Whos, NoJob
<1>3. CASE job.n = 0
    BY <1>1, <1>2, <1>3, AfterFlushCases DEF BlockDone, BlockGoes, Unsent
<1>4. CASE job.n # 0
  <2>1. job' = [job EXCEPT !.at = IF Serving THEN "end" ELSE "drain", !.n = 0]
      BY <1>4 DEF BlockDone
  <2>2. (IF Serving THEN "end" ELSE "drain") \in Steps
      BY DEF Steps
  <2>3. job' = [who |-> job.who, at |-> IF Serving THEN "end" ELSE "drain", left |-> job.left, n |-> 0]
    <3>1. 0 \in Int
        OBVIOUS
    <3> QED BY <1>1, <2>1, <2>2, <3>1, JobEdits, Zenon
  <2> QED BY <1>1, <1>2, <1>4, <2>3 DEF BlockDone, BlockComes, Kept, Serving, Runs, JobType
<1> QED BY <1>1, <1>3, <1>4

\* A write copies what fits, and transfers a buffer that is full.
CopyFills == /\ OutCap <= Len(out')
             /\ job' = [who |-> job.who, at |-> "transfer", left |-> job.left - Part, n |-> job.n]
CopyEnds == job' = NoJob

\* A write copies as much as the buffer takes.
LEMMA CopyCases ==
    ASSUME IInv, Copy
    PROVE  /\ job.at = "copy" /\ Runs("write") /\ Part \in 0 .. MaxOut /\ Part <= job.left
           /\ Len(out) + Part <= OutCap
           /\ out' = out \o [i \in 1 .. Part |-> written + i] /\ written' = written + Part
           /\ CopyFills \/ CopyEnds
           /\ UNCHANGED <<owned, route, fg, session, num, incoming, line, remote, seen, queued, got, troubled>>
<1>1. /\ job.at = "copy" /\ JobType
      /\ out' = out \o [i \in 1 .. Part |-> written + i] /\ written' = written + Part
      /\ UNCHANGED <<owned, route, fg, session, num, incoming, line, remote, seen, queued, got, troubled>>
    BY DEF Copy, At, IInv
<1>2. Runs("write")
    BY <1>1 DEF IInv, JobInv, JobType, Runs, Whos, NoJob
<1>3. Part \in 0 .. MaxOut /\ Part <= job.left /\ Len(out) + Part <= OutCap
  <2>1. OutCap - Len(out) \in Nat /\ job.left \in 0 .. MaxOut /\ MaxOut \in Nat /\ Len(out) \in Nat /\ OutCap \in Nat
      BY BoundsAssumption DEF IInv, OutTypes, JobType
  <2>2. Part = IF OutCap - Len(out) <= job.left THEN OutCap - Len(out) ELSE job.left
      BY <2>1, MinOfTwo DEF Part
  <2> QED BY <2>1, <2>2
<1>4. CASE Len(out') >= OutCap
  <2>1. job' = [job EXCEPT !.at = "transfer", !.left = job.left - Part]
      BY <1>4 DEF Copy
  <2>2. job.left - Part \in Int /\ "transfer" \in Steps
      BY <1>1, <1>3 DEF JobType, Steps
  <2>3. job' = [who |-> job.who, at |-> "transfer", left |-> job.left - Part, n |-> job.n]
      BY <1>1, <2>1, <2>2, JobEdits, Zenon
  <2> QED BY <1>1, <1>2, <1>3, <1>4, <2>3 DEF CopyFills
<1>5. CASE ~(Len(out') >= OutCap)
    BY <1>1, <1>2, <1>3, <1>5 DEF Copy, CopyEnds
<1> QED BY <1>1, <1>2, <1>3, <1>4, <1>5

\* The answer to STOP.
StreamEnds == /\ inb = <<>> /\ wire.n = 0 /\ owned' = FALSE /\ out' = <<>> /\ job' = NoJob
              /\ fg' = "leave" /\ UNCHANGED fenced
StopFetches == Fetches(wire.n) /\ UNCHANGED <<out, fg>>
StopFails == job' = NoJob /\ owned' = owned /\ fenced' \in BOOLEAN /\ UNCHANGED <<out, fg>>

\* The stop was answered: the stream is over, the rest is fetched, or the stop fails.
LEMMA StopCases ==
    ASSUME IInv, StopAnswered
    PROVE  /\ job.at = "stop" /\ Runs("stop") /\ wire.st = "arrived" /\ wire' = Quiet
           /\ UNCHANGED <<route, session, num, incoming, rx, faulted, remote, seen, counts>>
           /\ StreamEnds \/ StopFetches \/ StopFails
<1>1. /\ job.at = "stop" /\ wire.st = "arrived" /\ wire' = Quiet
      /\ UNCHANGED <<route, session, num, incoming, rx, faulted, remote, seen, counts>>
      /\ FlagTypes /\ JobType /\ InTypes /\ wire.n \in Nat
    BY DEF StopAnswered, Answered, At, IInv, WireType
<1>2. Runs("stop")
    BY <1>1 DEF IInv, JobInv, JobType, Runs, Whos, NoJob
<1>3. Fails(FALSE) => job' = NoJob /\ owned' = owned /\ fenced' \in BOOLEAN
    BY <1>1, <1>2, FailCases DEF ServiceFails, StartFails, OtherFails, Runs
<1>4. FetchAmount(wire.n) => Fails(FALSE) \/ Fetches(wire.n)
    BY <1>1, FetchCases
<1> QED BY <1>1, <1>2, <1>3, <1>4 DEF StopAnswered, EndsStream, StreamEnds, StopFetches, StopFails

\* Trouble.
LEMMA ExchangeCases ==
    ASSUME IInv, ExchangeFails
    PROVE  /\ job.at \in Requests /\ wire' = Quiet /\ rx' = "none"
           /\ fenced' \in BOOLEAN /\ troubled' \in BOOLEAN
           /\ ServiceFails \/ StartFails \/ OtherFails
           /\ UNCHANGED <<route, fg, out, session, num, incoming, faulted, remote, seen, written, queued, got>>
<1>1. /\ wire # Quiet /\ wire' = Quiet /\ rx' = "none" /\ troubled' \in BOOLEAN /\ JobType /\ FlagTypes
      /\ UNCHANGED <<route, fg, out, session, num, incoming, faulted, remote, seen, written, queued, got>>
    BY DEF ExchangeFails, IInv, FlagTypes
<1>2. job.at \in Requests
    BY <1>1 DEF IInv, WireInv
<1>3. \E fence \in BOOLEAN : Fails(fence)
    BY DEF ExchangeFails
<1> QED BY <1>1, <1>2, <1>3, FailCases

\* A block that fails leaves the stream lossy.
LEMMA BlockFailCases ==
    ASSUME IInv, BlockFails
    PROVE  /\ job.at = "block" /\ lossy' = TRUE /\ troubled' = TRUE /\ fenced' \in BOOLEAN
           /\ ServiceFails \/ StartFails \/ OtherFails
           /\ UNCHANGED <<route, fg, out, session, num, incoming, wire, rx, faulted, remote,
                          fed, mixed, written, queued, got>>
BY FailCases DEF BlockFails, At, IInv

\* A drain that takes too long fails the job.
LEMMA DrainCases ==
    ASSUME IInv, DrainDeadline
    PROVE  /\ job.at = "drain" /\ troubled' = TRUE /\ fenced' \in BOOLEAN
           /\ ServiceFails \/ StartFails \/ OtherFails
           /\ UNCHANGED <<route, fg, out, session, num, incoming, wire, rx, faulted, remote, seen,
                          written, queued, got>>
BY FailCases DEF DrainDeadline, At, IInv

\* What the peer answers.
Answers(n) == wire' = [op |-> wire.op, st |-> "sent", n |-> n]
AnswersOpen == wire.op = "open" /\ pend' = <<>> /\ queued' = 0 /\ Answers(wire.n)
AnswersAmount == /\ wire.op \in {"poll", "stop"} /\ Answers(Len(pend)) /\ UNCHANGED <<pend, queued>>
                 /\ wire.op = "stop" /\ pend = <<>> => peer'.open = FALSE
AnswersRest == wire.op \notin {"open", "poll", "stop"} /\ Answers(wire.n) /\ UNCHANGED <<pend, queued>>

\* The peer answers a request to open, one for an amount, or another.
LEMMA AnswerCases ==
    ASSUME IInv, PeerAnswers
    PROVE  /\ wire.st = "asked" /\ PeerType'
           /\ AnswersOpen \/ AnswersAmount \/ AnswersRest
           /\ UNCHANGED <<stream, incoming, job, rx, faulted, fenced, seen, written, got, troubled>>
<1>1. /\ wire.st = "asked"
      /\ IF wire.op = "open" THEN pend' = <<>> /\ queued' = 0 ELSE UNCHANGED <<pend, queued>>
      /\ UNCHANGED <<stream, incoming, job, rx, faulted, fenced, seen, written, got, troubled>>
    BY DEF PeerAnswers
<1>2. wire' = [op |-> wire.op, st |-> "sent", n |-> IF wire.op \in {"poll", "stop"} THEN Len(pend) ELSE wire.n]
  <2>1. WireType
      BY DEF IInv
  <2>2. ASSUME NEW n \in Int, wire' = [wire EXCEPT !.st = "sent", !.n = n]
        PROVE  wire' = [op |-> wire.op, st |-> "sent", n |-> n]
      BY <2>1, <2>2 DEF WireType
  <2>3. wire' = [wire EXCEPT !.st = "sent", !.n = IF wire.op \in {"poll", "stop"} THEN Len(pend) ELSE wire.n]
      BY DEF PeerAnswers
  <2>4. (IF wire.op \in {"poll", "stop"} THEN Len(pend) ELSE wire.n) \in Int
      BY DEF IInv, WireType, InTypes
  <2> QED BY <2>2, <2>3, <2>4, Zenon
<1>3. PeerType'
  <2>1. peer \in [session : 0 .. 2, num : 0 .. MaxBlock, open : BOOLEAN] /\ session \in 0 .. 2
        /\ 0 \in 0 .. MaxBlock /\ (wire.op = "offer" => wire.n \in 0 .. MaxBlock)
      BY BoundsAssumption DEF IInv, PeerType, CountTypes, WireInv, WireType
  <2>2. CASE wire.op = "session"
      BY <2>1, <2>2 DEF PeerAnswers, PeerType
  <2>3. CASE wire.op = "open"
      BY <2>1, <2>3 DEF PeerAnswers, PeerType
  <2>4. CASE wire.op = "stop"
      BY <2>1, <2>4 DEF PeerAnswers, PeerType
  <2>5. CASE wire.op = "offer"
      BY <2>1, <2>5 DEF PeerAnswers, PeerType
  <2>6. CASE wire.op \notin {"session", "open", "stop", "offer"}
      BY <2>1, <2>6 DEF PeerAnswers, PeerType
  <2> QED BY <2>2, <2>3, <2>4, <2>5, <2>6
<1>4. AnswersOpen \/ AnswersAmount \/ AnswersRest
  <2>1. CASE wire.op = "open"
      BY <1>1, <1>2, <2>1 DEF AnswersOpen, Answers
  <2>2. CASE wire.op \in {"poll", "stop"}
    <3>1. wire.op = "stop" /\ pend = <<>> => peer'.open = FALSE
        BY DEF PeerAnswers, IInv, PeerType
    <3> QED BY <1>1, <1>2, <2>2, <3>1 DEF AnswersAmount, Answers
  <2>3. CASE wire.op \notin {"open", "poll", "stop"}
      BY <1>1, <1>2, <2>3 DEF AnswersRest, Answers
  <2> QED BY <2>1, <2>2, <2>3
<1> QED BY <1>1, <1>3, <1>4

\* The peer has one more packet, whole.
LEMMA QueueCases ==
    ASSUME IInv, PeerQueues
    PROVE  peer.open /\ \E n \in Nat :
             /\ queued + n <= Len(Return) /\ queued' = queued + n
             /\ pend' = pend \o [i \in 1 .. n |-> queued + i]
             /\ UNCHANGED <<stream, incoming, job, line, peer, seen, written, got, troubled>>
<1> DEFINE n == Return[queued + 1].len
<1>1. queued + 1 \in 1 .. Len(Return)
    BY DEF PeerQueues, IInv, CountTypes
<1>2. n \in Nat /\ queued + 1 + n - 1 <= Len(Return)
  <2>1. Return[queued + 1] \in [len : Nat, key : BOOLEAN]
      BY <1>1, BoundsAssumption, ElementOfSeq
  <2>2. n \in Nat
      BY <2>1
  <2>3. \A i \in 1 .. Len(Return) : i + Return[i].len - 1 <= Len(Return)
      BY BoundsAssumption
  <2> QED BY <1>1, <2>2, <2>3
<1>3. /\ queued' = queued + n /\ pend' = pend \o [i \in 1 .. n |-> queued + i]
      /\ UNCHANGED <<stream, incoming, job, line, peer, seen, written, got, troubled>>
    BY DEF PeerQueues
<1>4. queued + n <= Len(Return)
  <2>1. queued \in Nat /\ Len(Return) \in Nat
      BY BoundsAssumption DEF IInv, CountTypes
  <2> HIDE DEF n
  <2> QED BY <1>2, <2>1
<1>5. peer.open
    BY DEF PeerQueues
<1> QED BY <1>2, <1>3, <1>4, <1>5


\* The foreground.
Appends == out' = Append(out, written + 1) /\ written' = written + 1 /\ Len(out) < OutCap - 1 /\ UNCHANGED fg
Bounds == fg' = "boundary" /\ UNCHANGED <<out, written>>

\* A byte is appended to the output, or first makes room for itself.
LEMMA WriteByteCases ==
    ASSUME IInv, WriteByte
    PROVE  /\ fg = "idle" /\ job = NoJob /\ owned /\ written < MaxOut
           /\ Appends \/ Bounds
           /\ UNCHANGED <<owned, route, session, num, incoming, job, line, remote, seen, queued, got, troubled>>
BY DEF WriteByte, Idle, Writable, Appends, Bounds

Begins(who, step, n) == job' = [who |-> who, at |-> step, left |-> n, n |-> 0]

\* A job begins.
LEMMA Beginnings ==
    ASSUME JobType, NEW w \in Whos, NEW s \in Steps, NEW n \in Int, Begin(w, s, n)
    PROVE  Begins(w, s, n)
BY JobEdits DEF Begin, Begins

Writes == Begins("write", "copy", 1) /\ owned /\ job = NoJob
Loses == UNCHANGED job

\* At the bound of the buffer the byte is written, or lost with the stream.
LEMMA BoundaryCases ==
    ASSUME IInv, BoundaryByte
    PROVE  /\ fg = "boundary" /\ fg' = "idle" /\ job.who # "service"
           /\ Writes \/ Loses
           /\ UNCHANGED <<owned, route, out, session, num, incoming, line, remote, seen, counts>>
<1>1. JobType /\ "write" \in Whos /\ "copy" \in Steps /\ 1 \in Int
    BY DEF IInv, Whos, Steps
<1>2. Begin("write", "copy", 1) => Begins("write", "copy", 1)
    BY <1>1, Beginnings
<1> QED BY <1>2 DEF BoundaryByte, Writable, Serving, Writes, Loses

\* A write of several bytes begins.
LEMMA WriteStreamCases ==
    ASSUME IInv, NEW n \in 1 .. MaxOut, WriteStream(n)
    PROVE  /\ fg = "idle" /\ job = NoJob /\ owned /\ written + n <= MaxOut
           /\ Begins("write", "copy", n)
           /\ UNCHANGED <<stream, incoming, line, remote, seen, counts>>
<1>1. JobType /\ "write" \in Whos /\ "copy" \in Steps /\ n \in Int
    BY DEF IInv, Whos, Steps
<1>2. Begin("write", "copy", n) => Begins("write", "copy", n)
    BY <1>1, Beginnings
<1> QED BY <1>2 DEF WriteStream, Idle, Writable

\* A start takes the stream, with everything empty.
LEMMA StartCases ==
    ASSUME IInv, RequestStart
    PROVE  /\ fg = "idle" /\ job = NoJob /\ owned' = TRUE /\ Begins("start", "begin", 0)
           /\ out' = <<>> /\ inb' = <<>> /\ needMore' = FALSE
           /\ written' = 0 /\ fed' = 0 /\ got' = <<>>
           /\ lossy' = FALSE /\ troubled' = FALSE /\ mixed' = FALSE
           /\ UNCHANGED <<route, fg, session, num, line, remote, queued>>
<1>1. JobType /\ "start" \in Whos /\ "begin" \in Steps /\ 0 \in Int
    BY DEF IInv, Whos, Steps
<1>2. Begin("start", "begin", 0) => Begins("start", "begin", 0)
    BY <1>1, Beginnings
<1> QED BY <1>2 DEF RequestStart, Idle

StopBegins == owned /\ Begins("stop", "flush", 0) /\ UNCHANGED fg
OnlyLeaves == ~owned /\ fg' = "leave" /\ UNCHANGED job

\* A return to legacy first stops a stream that is owned.
LEMMA LegacyCases ==
    ASSUME IInv, RequestLegacy
    PROVE  /\ fg = "idle" /\ job = NoJob
           /\ StopBegins \/ OnlyLeaves
           /\ UNCHANGED <<owned, route, out, session, num, incoming, line, remote, seen, counts>>
<1>1. JobType /\ "stop" \in Whos /\ "flush" \in Steps /\ 0 \in Int
    BY DEF IInv, Whos, Steps
<1>2. Begin("stop", "flush", 0) => Begins("stop", "flush", 0)
    BY <1>1, Beginnings
<1> QED BY <1>2 DEF RequestLegacy, Idle, StopBegins, OnlyLeaves

\* The tick.
TakesSome == \E n \in 0 .. Len(inb) : Takes(n)
TakesNone == UNCHANGED <<incoming, fed, lossy>>

\* A tick that finds a job running only publishes.
LEMMA TickCases ==
    ASSUME IInv, TickOnly
    PROVE  /\ Discards \/ TakesSome
           /\ Interrupts /\ needMore' \in BOOLEAN
           /\ UNCHANGED <<stream, job, faulted, fenced, remote, counts>>
BY PublishCases DEF IInv, TickOnly, TakesSome

\* A tick that finds no job publishes and begins a service.
LEMMA ServesCases ==
    ASSUME IInv, TickServes
    PROVE  /\ owned /\ job = NoJob /\ Begins("service", "flush", 0)
           /\ Discards \/ TakesSome \/ TakesNone
           /\ Interrupts /\ needMore' \in BOOLEAN
           /\ UNCHANGED <<stream, faulted, fenced, remote, counts>>
<1>1. JobType /\ "service" \in Whos /\ "flush" \in Steps
    BY DEF IInv, Whos, Steps
<1>2. job' = [NoJob EXCEPT !.who = "service", !.at = "flush"]
    BY DEF TickServes
<1>3. Begins("service", "flush", 0)
    BY <1>1, <1>2, JobEdits DEF Begins
<1>4. Publish => /\ Discards \/ TakesSome
                 /\ Interrupts /\ needMore' \in BOOLEAN
    BY PublishCases DEF IInv, TakesSome
<1> QED BY <1>3, <1>4 DEF TickServes, ServiceAdmitted, TakesNone, Interrupts, IInv, FlagTypes, incoming

\* A service that ends publishes what it fetched.
LEMMA EndCases ==
    ASSUME IInv, ServiceEnd
    PROVE  /\ job.at = "end" /\ job' = NoJob
           /\ Discards \/ TakesSome
           /\ Interrupts /\ needMore' \in BOOLEAN
           /\ UNCHANGED <<stream, faulted, fenced, remote, counts>>
BY PublishCases DEF IInv, ServiceEnd, At, TakesSome

\* What these steps do to the types.
LEMMA TakingTypes ==
    ASSUME InTypes, CountTypes, TakesSome
    PROVE  /\ inb' \in Seq(DOMAIN Return) /\ Len(inb') <= Len(inb) /\ fed' \in 0 .. Len(Return)
           /\ lossy' = lossy /\ ~faulted
<1>1. PICK n \in 0 .. Len(inb) : Takes(n)
    BY DEF TakesSome
<1>2. inb \in Seq(DOMAIN Return) /\ Len(inb) \in Nat /\ n \in Nat /\ n <= Len(inb)
    BY DEF InTypes
<1>3. SubSeq(inb, n + 1, Len(inb)) \in Seq(DOMAIN Return) /\ Len(SubSeq(inb, n + 1, Len(inb))) = Len(inb) - n
    BY <1>2, Fronts
<1>4. inb' \in Seq(DOMAIN Return) /\ Len(inb') = Len(inb) - n /\ lossy' = lossy /\ ~faulted
    BY <1>1, <1>3 DEF Takes
<1>5. Len(inb') <= Len(inb)
    BY <1>2, <1>4
<1>6. CASE n = 0
    BY <1>1, <1>4, <1>5, <1>6 DEF Takes, CountTypes
<1>7. CASE n > 0
  <2>1. n \in 1 .. Len(inb)
      BY <1>2, <1>7
  <2>2. inb[n] \in DOMAIN Return
      BY <1>2, <2>1, ElementOfSeq
  <2>3. DOMAIN Return = 1 .. Len(Return)
      BY BoundsAssumption
  <2>4. inb[n] \in 0 .. Len(Return)
      BY <2>2, <2>3
  <2> QED BY <1>1, <1>4, <1>5, <1>7, <2>4 DEF Takes
<1> QED BY <1>2, <1>6, <1>7

\* After a copy the output is still a sequence of written bytes, within its bound.
LEMMA CopyTypes ==
    ASSUME IInv, Copy
    PROVE  /\ out' \in Seq(1 .. MaxOut) /\ Len(out') <= OutCap /\ Len(out') = Len(out) + Part
           /\ written' \in 0 .. MaxOut /\ job.left - Part \in 0 .. MaxOut
           /\ written' + (job.left - Part) <= MaxOut
           /\ \A i \in 1 .. Len(out) : out'[i] = out[i]
           /\ \A i \in 1 .. Part : out'[Len(out) + i] = written + i
<1> DEFINE new == [i \in 1 .. Part |-> written + i]
<1>1. /\ Runs("write") /\ Part \in 0 .. MaxOut /\ Part <= job.left /\ Len(out) + Part <= OutCap
      /\ out' = out \o new /\ written' = written + Part
    BY CopyCases
<1>2. /\ written \in Nat /\ MaxOut \in Nat /\ job.left \in 0 .. MaxOut /\ written + job.left <= MaxOut
      /\ out \in Seq(1 .. MaxOut) /\ Len(out) \in Nat
    BY <1>1, BoundsAssumption DEF IInv, CountTypes, JobType, WriteRoom, OutTypes, Runs
<1>3. written + Part <= MaxOut /\ Part \in Nat
    BY <1>1, <1>2
<1>4. /\ new \in Seq(1 .. MaxOut) /\ Len(new) = Part /\ \A i \in 1 .. Part : new[i] = written + i
    BY <1>2, <1>3, Ranging
<1> DEFINE S == 1 .. MaxOut
<1>7. out \in Seq(S) /\ new \in Seq(S)
    BY <1>2, <1>4
<1> HIDE DEF new, S
<1>5. /\ out \o new \in Seq(S) /\ Len(out \o new) = Len(out) + Len(new)
      /\ \A i \in 1 .. Len(out) : (out \o new)[i] = out[i]
      /\ \A i \in 1 .. Len(new) : (out \o new)[Len(out) + i] = new[i]
    BY <1>7
<1>6. /\ written' \in 0 .. MaxOut /\ job.left - Part \in 0 .. MaxOut
      /\ written' + (job.left - Part) <= MaxOut
    BY <1>1, <1>2, <1>3
<1> QED BY <1>1, <1>4, <1>5, <1>6 DEF S

Grows ==
    \E n \in Nat :
      /\ Len(pend') = Len(pend) + n /\ queued' = queued + n
      /\ \A i \in 1 .. Len(pend) : pend'[i] = pend[i]
      /\ \A i \in 1 .. n : pend'[Len(pend) + i] = queued + i

\* What the peer queues lengthens what it has pending.
LEMMA QueueTypes ==
    ASSUME IInv, PeerQueues
    PROVE  /\ pend' \in Seq(DOMAIN Return) /\ queued' \in 0 .. Len(Return)
           /\ Grows
<1>1. PICK n \in Nat : queued + n <= Len(Return) /\ queued' = queued + n
                       /\ pend' = pend \o [i \in 1 .. n |-> queued + i]
    BY QueueCases
<1> DEFINE new == [i \in 1 .. n |-> queued + i]
<1>2. queued \in Nat /\ Len(Return) \in Nat /\ DOMAIN Return = 1 .. Len(Return) /\ pend \in Seq(DOMAIN Return)
    BY BoundsAssumption DEF IInv, CountTypes, InTypes
<1>3. new \in Seq(1 .. Len(Return)) /\ Len(new) = n /\ \A i \in 1 .. n : new[i] = queued + i
    BY <1>1, <1>2, Ranging
<1>4. pend' = pend \o new
    BY <1>1
<1> HIDE DEF new
<1>7. new \in Seq(DOMAIN Return)
    BY <1>2, <1>3
<1>5. /\ pend \o new \in Seq(DOMAIN Return) /\ Len(pend \o new) = Len(pend) + Len(new)
      /\ \A i \in 1 .. Len(pend) : (pend \o new)[i] = pend[i]
      /\ \A i \in 1 .. Len(new) : (pend \o new)[Len(pend) + i] = new[i]
    BY <1>2, <1>7
<1>6. queued' \in 0 .. Len(Return)
    BY <1>1, <1>2
<1>8. Grows
    BY <1>1, <1>3, <1>4, <1>5 DEF Grows
<1> QED BY <1>4, <1>5, <1>6, <1>8

\* A block that comes in moves bytes from what is pending into the input.
LEMMA ComesTypes ==
    ASSUME InTypes, FetchRoom, JobType, BlockComes
    PROVE  /\ inb' \in Seq(DOMAIN Return) /\ Len(inb') = Len(inb) + job.n /\ Len(inb') <= 2 * Fetch
           /\ pend' \in Seq(DOMAIN Return) /\ Len(pend') = Len(pend) - job.n
           /\ \A i \in 1 .. Len(inb) : inb'[i] = inb[i]
           /\ \A i \in 1 .. job.n : inb'[Len(inb) + i] = pend[i]
           /\ \A i \in 1 .. Len(pend) - job.n : pend'[i] = pend[job.n + i]
<1> DEFINE new == SubSeq(pend, 1, job.n)
<1>1. /\ inb \in Seq(DOMAIN Return) /\ pend \in Seq(DOMAIN Return) /\ job.n \in 0 .. Len(pend)
      /\ Len(inb) + job.n <= 2 * Fetch
    BY BoundsAssumption DEF InTypes, FetchRoom, JobType
<1>2. inb' = inb \o new /\ pend' = SubSeq(pend, job.n + 1, Len(pend))
    BY DEF BlockComes
<1>3. /\ new \in Seq(DOMAIN Return) /\ Len(new) = job.n /\ \A i \in 1 .. job.n : new[i] = pend[i]
      /\ SubSeq(pend, job.n + 1, Len(pend)) \in Seq(DOMAIN Return)
      /\ Len(SubSeq(pend, job.n + 1, Len(pend))) = Len(pend) - job.n
      /\ \A i \in 1 .. Len(pend) - job.n : SubSeq(pend, job.n + 1, Len(pend))[i] = pend[job.n + i]
    BY <1>1, Fronts, ZenonT(60)
<1>5. inb \in Seq(DOMAIN Return) /\ new \in Seq(DOMAIN Return)
    BY <1>1, <1>3
<1> HIDE DEF new
<1>4. /\ inb \o new \in Seq(DOMAIN Return) /\ Len(inb \o new) = Len(inb) + Len(new)
      /\ \A i \in 1 .. Len(inb) : (inb \o new)[i] = inb[i]
      /\ \A i \in 1 .. Len(new) : (inb \o new)[Len(inb) + i] = new[i]
    BY <1>5
<1> QED BY <1>1, <1>2, <1>3, <1>4

\* A packet parsed inside an answer takes the answer away, and leaves the request.
LEMMA InterruptFacts ==
    ASSUME WireType, WireInv, Interrupts
    PROVE  /\ WireType' /\ wire'.op = wire.op /\ wire'.n = wire.n /\ wire'.st \in {wire.st, "lost"}
           /\ wire' = Quiet <=> wire = Quiet
           /\ wire'.st = "none" <=> wire.st = "none"
           /\ rx' = "part" => wire'.st = "sent"
BY DEF WireType, WireInv, Interrupts, Quiet

\* What stays in order when bytes are sent, written, parsed, fetched or queued.
LEMMA SentAll ==
    ASSUME NEW S, NEW g \in Seq(S), NEW o \in Seq(S), NEW w, Sent(g, o, w)
    PROVE  Sent(g \o o, <<>>, w)
<1>1. Len(g) \in Nat /\ Len(o) \in Nat /\ Len(g \o o) = Len(g) + Len(o) /\ Len(g \o o) + Len(<<>>) = w
    BY DEF Sent
<1>2. ASSUME NEW i \in 1 .. Len(g \o o) PROVE (g \o o)[i] = i
  <2>1. CASE i <= Len(g)
      BY <1>1, <1>2, <2>1 DEF Sent
  <2>2. CASE i > Len(g)
    <3>1. i - Len(g) \in 1 .. Len(o) /\ (g \o o)[i] = o[i - Len(g)]
        BY <1>1, <1>2, <2>2
    <3>2. o[i - Len(g)] = Len(g) + (i - Len(g))
        BY <3>1 DEF Sent
    <3> QED BY <1>1, <3>1, <3>2
  <2> QED BY <1>1, <2>1, <2>2
<1> QED BY <1>1, <1>2 DEF Sent

\* Bytes written next are next in the output.
LEMMA SentMore ==
    ASSUME NEW S, NEW g \in Seq(S), NEW o \in Seq(S), NEW p \in Seq(S), NEW w \in Nat, NEW n \in Nat,
           Sent(g, o, w), Len(p) = Len(o) + n, \A i \in 1 .. Len(o) : p[i] = o[i],
           \A i \in 1 .. n : p[Len(o) + i] = w + i
    PROVE  Sent(g, p, w + n)
<1>1. Len(g) \in Nat /\ Len(o) \in Nat /\ Len(g) + Len(o) = w
    BY DEF Sent
<1>2. ASSUME NEW i \in 1 .. Len(p) PROVE p[i] = Len(g) + i
  <2>1. CASE i <= Len(o)
      BY <1>1, <1>2, <2>1 DEF Sent
  <2>2. CASE i > Len(o)
    <3>1. PICK k \in 1 .. n : i = Len(o) + k
      <4>1. i - Len(o) \in 1 .. n /\ i = Len(o) + (i - Len(o))
          BY <1>1, <1>2, <2>2
      <4> QED BY <4>1
    <3>2. p[Len(o) + k] = w + k
        BY <3>1
    <3>3. w + k = Len(g) + i
        BY SMTT(30), <1>1, <3>1
    <3> QED BY <3>1, <3>2, <3>3
  <2> QED BY <1>1, <2>1, <2>2
<1>3. Len(g) + Len(p) = w + n
    BY SMTT(30), <1>1
<1> QED BY <1>2, <1>3 DEF Sent

\* Bytes taken from the input are the next ones of the stream.
LEMMA WaitsTaken ==
    ASSUME NEW S, NEW b \in Seq(S), NEW c \in Seq(S), NEW p \in Seq(S), NEW f \in Nat, NEW q \in Nat,
           NEW n \in 0 .. Len(b), Waits(f, b, p, q),
           Len(c) = Len(b) - n, \A i \in 1 .. Len(b) - n : c[i] = b[n + i]
    PROVE  Waits(IF n > 0 THEN b[n] ELSE f, c, p, q)
<1>1. Len(b) \in Nat /\ Len(p) \in Nat /\ n \in Nat /\ f + Len(b) + Len(p) = q
    BY DEF Waits
<1>2. (IF n > 0 THEN b[n] ELSE f) = f + n
  <2>1. CASE n > 0
    <3>1. n \in 1 .. Len(b)
        BY <1>1, <2>1
    <3>2. b[n] = f + n
        BY <3>1 DEF Waits
    <3> QED BY <2>1, <3>2
  <2>2. CASE ~(n > 0)
      BY <1>1, <2>2
  <2> QED BY <2>1, <2>2
<1>3. ASSUME NEW i \in 1 .. Len(c) PROVE c[i] = (f + n) + i
  <2>1. n + i \in 1 .. Len(b) /\ i \in 1 .. Len(b) - n
      BY <1>1, <1>3
  <2>2. b[n + i] = f + (n + i) /\ c[i] = b[n + i]
      BY <2>1 DEF Waits
  <2> QED BY <1>1, <1>3, <2>2
<1>4. ASSUME NEW i \in 1 .. Len(p) PROVE p[i] = (f + n) + Len(c) + i
  <2>1. p[i] = f + Len(b) + i
      BY <1>4 DEF Waits
  <2> QED BY <1>1, <1>4, <2>1
<1>5. (f + n) + Len(c) + Len(p) = q
    BY <1>1
<1>6. Waits(f + n, c, p, q)
    BY <1>3, <1>4, <1>5 DEF Waits
<1> QED BY <1>2, <1>6

Fetched(b, p, c, d, n) ==
    /\ Len(c) = Len(b) + n /\ Len(d) = Len(p) - n
    /\ \A i \in 1 .. Len(b) : c[i] = b[i]
    /\ \A i \in 1 .. n : c[Len(b) + i] = p[i]
    /\ \A i \in 1 .. Len(p) - n : d[i] = p[n + i]

\* Bytes fetched keep their order between the peer and the input.
LEMMA WaitsFetched ==
    ASSUME NEW S, NEW b \in Seq(S), NEW c \in Seq(S), NEW p \in Seq(S), NEW d \in Seq(S),
           NEW f \in Nat, NEW q \in Nat, NEW n \in 0 .. Len(p), Waits(f, b, p, q), Fetched(b, p, c, d, n)
    PROVE  Waits(f, c, d, q)
<1>1. /\ Len(b) \in Nat /\ Len(p) \in Nat /\ n \in Nat /\ f + Len(b) + Len(p) = q
      /\ Len(c) = Len(b) + n /\ Len(d) = Len(p) - n
    BY DEF Waits, Fetched
<1>2. ASSUME NEW i \in 1 .. Len(c) PROVE c[i] = f + i
  <2>1. CASE i <= Len(b)
      BY <1>1, <1>2, <2>1 DEF Waits, Fetched
  <2>2. CASE i > Len(b)
    <3>1. PICK k \in 1 .. n : i = Len(b) + k
      <4>1. i - Len(b) \in 1 .. n /\ i = Len(b) + (i - Len(b))
          BY <1>1, <1>2, <2>2
      <4> QED BY <4>1
    <3>2. k \in 1 .. Len(p)
        BY <1>1
    <3>3. c[Len(b) + k] = p[k] /\ p[k] = f + Len(b) + k
        BY <3>2 DEF Waits, Fetched
    <3>4. f + Len(b) + k = f + i
        BY <1>1, <3>1
    <3> QED BY <3>1, <3>3, <3>4
  <2> QED BY <1>1, <2>1, <2>2
<1>3. ASSUME NEW i \in 1 .. Len(d) PROVE d[i] = f + Len(c) + i
  <2>1. n + i \in 1 .. Len(p) /\ i \in 1 .. Len(p) - n
      BY <1>1, <1>3
  <2>2. d[i] = p[n + i] /\ p[n + i] = f + Len(b) + (n + i)
      BY <2>1 DEF Waits, Fetched
  <2>3. f + Len(b) + (n + i) = f + Len(c) + i
      BY <1>1
  <2> QED BY <2>2, <2>3
<1>4. f + Len(c) + Len(d) = q
  <2>1. Len(d) \in Nat /\ Len(c) \in Nat /\ Len(p) = Len(d) + n
      BY <1>1
  <2>2. f + Len(b) + (Len(d) + n) = q
      BY <1>1, <2>1
  <2>3. f + (Len(b) + n) + Len(d) = f + Len(b) + (Len(d) + n)
      BY <1>1, <2>1
  <2> QED BY <1>1, <2>2, <2>3
<1> QED BY <1>2, <1>3, <1>4 DEF Waits

Longer(p, d, q, n) ==
    /\ Len(d) = Len(p) + n
    /\ \A i \in 1 .. Len(p) : d[i] = p[i]
    /\ \A i \in 1 .. n : d[Len(p) + i] = q + i

\* Bytes queued by the peer are the next ones of the stream.
LEMMA WaitsQueued ==
    ASSUME NEW S, NEW b \in Seq(S), NEW p \in Seq(S), NEW d \in Seq(S),
           NEW f \in Nat, NEW q \in Nat, NEW n \in Nat, Waits(f, b, p, q), Longer(p, d, q, n)
    PROVE  Waits(f, b, d, q + n)
<1>1. Len(b) \in Nat /\ Len(p) \in Nat /\ f + Len(b) + Len(p) = q /\ Len(d) = Len(p) + n
    BY DEF Waits, Longer
<1>2. ASSUME NEW i \in 1 .. Len(d) PROVE d[i] = f + Len(b) + i
  <2>1. CASE i <= Len(p)
      BY <1>1, <1>2, <2>1 DEF Waits, Longer
  <2>2. CASE i > Len(p)
    <3>1. PICK k \in 1 .. n : i = Len(p) + k
      <4>1. i - Len(p) \in 1 .. n /\ i = Len(p) + (i - Len(p))
          BY <1>1, <1>2, <2>2
      <4> QED BY <4>1
    <3>2. d[Len(p) + k] = q + k
        BY <3>1 DEF Longer
    <3>3. q + k = f + Len(b) + i
        BY <1>1, <3>1
    <3> QED BY <3>1, <3>2, <3>3
  <2> QED BY <1>1, <2>1, <2>2
<1>3. f + Len(b) + Len(d) = q + n
    BY SMTT(30), <1>1
<1>4. \A i \in 1 .. Len(b) : b[i] = f + i
    BY DEF Waits
<1> QED BY <1>2, <1>3, <1>4 DEF Waits

\* A tick that parses keeps the order of what is returned.
LEMMA TicksKeepOrder ==
    ASSUME IInv, Discards \/ TakesSome \/ TakesNone, UNCHANGED <<pend, queued>>,
           Waits(fed, inb, pend, queued), ~lossy'
    PROVE  Waits(fed, inb, pend, queued)' /\ ~lossy
<1>1. InTypes /\ CountTypes
    BY DEF IInv
<1>2. CASE Discards
  <2>1. inb' = inb /\ fed' = fed /\ ~lossy
      BY <1>2 DEF Discards
  <2> QED BY <2>1
<1>3. CASE TakesSome
  <2>1. PICK n \in 0 .. Len(inb) : Takes(n)
      BY <1>3 DEF TakesSome
  <2>2. /\ inb \in Seq(DOMAIN Return) /\ inb' \in Seq(DOMAIN Return) /\ pend \in Seq(DOMAIN Return)
        /\ fed \in Nat /\ queued \in Nat
      BY <1>1, <1>3, TakingTypes, BoundsAssumption DEF InTypes, CountTypes
  <2>3. inb' = SubSeq(inb, n + 1, Len(inb)) /\ lossy' = lossy /\ fed' = IF n > 0 THEN inb[n] ELSE fed
      BY <2>1 DEF Takes
  <2>4. Len(inb') = Len(inb) - n /\ \A i \in 1 .. Len(inb) - n : inb'[i] = inb[n + i]
      BY <2>2, <2>3, Fronts
  <2>5. Waits(IF n > 0 THEN inb[n] ELSE fed, inb', pend, queued)
      BY <2>2, <2>4, WaitsTaken
  <2> QED BY <2>3, <2>5
<1>4. CASE TakesNone
    BY <1>4 DEF TakesNone, incoming
<1> QED BY <1>2, <1>3, <1>4

\* The flags keep their types.
LEMMA FlagTypesStep == IInv /\ [Next]_vars => FlagTypes'
<1> SUFFICES ASSUME IInv, [Next]_vars PROVE FlagTypes'
    OBVIOUS
<1>1. FlagTypes
    BY DEF IInv
<1>2. CASE UNCHANGED vars
    BY <1>1, <1>2 DEF FlagTypes, vars, stream, incoming, line, remote, seen, counts
<1>3. CASE TickOnly
    BY ZenonT(60), <1>1, <1>3, TickCases DEF FlagTypes, Discards, TakesSome, Takes, Interrupts,
       stream, remote, counts
<1>4. CASE TickServes
    BY ZenonT(60), <1>1, <1>4, ServesCases DEF FlagTypes, Discards, TakesSome, Takes, TakesNone,
       incoming, NoJob, Begins, Interrupts, stream, remote, counts
<1>5. CASE JobStep
  <2>1. CASE Flush
      BY <1>1, <2>1, FlushCases DEF FlagTypes, FlushSends, Moves, FlushEnds, StopDrains,
         ServicePolls, Runs, stream, incoming, line, remote, seen, counts
  <2>2. CASE Reserve
      BY <1>1, <2>2, ReserveCases DEF FlagTypes, AsksSession, Asks, Moves, Continue,
         AsksOffer, AsksPoll, AsksStop, incoming, remote, seen, counts
  <2>3. CASE Refused
    <3>1. CASE ServiceFails
      BY ZenonT(60), <1>1, <2>3, <3>1, RefusedCases DEF FlagTypes, ServiceFails, Runs, Moves,
         incoming, remote, seen, counts
    <3>2. CASE StartFails
      BY ZenonT(60), <1>1, <2>3, <3>2, RefusedCases DEF FlagTypes, StartFails, Runs, NoJob,
         incoming, remote, seen, counts
    <3>3. CASE OtherFails
      BY <1>1, <2>3, <3>3, RefusedCases DEF FlagTypes, OtherFails, NoJob, incoming,
         remote, seen, counts
    <3> QED BY <2>3, <3>1, <3>2, <3>3, RefusedCases
  <2>4. CASE Negotiated
      BY <1>1, <2>4, NegotiatedCases DEF FlagTypes, Opens, Runs, Asks, Moves, Continue,
         Offers, incoming, remote, seen, counts
  <2>5. CASE Opened
    BY <1>1, <2>5 DEF FlagTypes, Opened, Answered, NoJob, Quiet, incoming, remote,
       seen, counts, At
  <2>6. CASE Offered
    BY <1>1, <2>6 DEF FlagTypes, Offered, Answered, Quiet, Goto, incoming, remote,
       seen, counts, At
  <2>7. CASE Polled
      BY ZenonT(60), <1>1, <2>7, PolledCases DEF FlagTypes, PollFetches, Fetches, Continue,
         PollFails, ServiceFails, StartFails, OtherFails, Runs, Moves, NoJob,
         PollEnds, Quiet, remote, seen, counts
  <2>8. CASE BlockDone
      BY ZenonT(60), <1>1, <2>8, BlockCases DEF FlagTypes, BlockGoes, incoming, WriteEnds,
         WriteGoesOn, StopDrains, ServicePolls, Runs, NoJob, Moves, BlockComes, line,
         seen
  <2>9. CASE Copy
      BY <1>1, <2>9, CopyCases DEF FlagTypes, CopyFills, CopyEnds, NoJob, Runs,
         incoming, line, remote, seen
  <2>10. CASE StopAnswered
      BY <1>1, <2>10, StopCases DEF FlagTypes, StreamEnds, NoJob, StopFetches, Fetches,
         Continue, StopFails, Runs, Quiet, incoming, remote, seen, counts
  <2>11. CASE ServiceEnd
      BY ZenonT(60), <1>1, <2>11, EndCases DEF FlagTypes, Discards, TakesSome, Takes, NoJob,
         Interrupts, stream, remote, counts
  <2> QED BY <1>5, <2>1, <2>2, <2>3, <2>4, <2>5, <2>6, <2>7, <2>8, <2>9, <2>10, <2>11
     DEF JobStep
<1>6. CASE Trouble
  <2>1. CASE ExchangeFails
      BY <1>1, <2>1, ExchangeCases DEF FlagTypes, ServiceFails, Runs, Moves, StartFails,
         NoJob, OtherFails, Requests, Quiet, incoming, remote, seen
  <2>2. CASE BlockFails
      BY <1>1, <2>2, BlockFailCases DEF FlagTypes, ServiceFails, Runs, Moves,
         StartFails, NoJob, OtherFails, incoming, remote
  <2>3. CASE DrainDeadline
      BY ZenonT(60), <1>1, <2>3, DrainCases DEF FlagTypes, ServiceFails, Runs, Moves, StartFails,
         NoJob, OtherFails, incoming, remote, seen
  <2>4. CASE Fault
    BY <1>1, <2>4 DEF FlagTypes, Fault, stream, incoming, remote, seen
  <2>5. CASE SelectBegin
    BY <1>1, <2>5 DEF FlagTypes, SelectBegin, Idle, incoming, line, remote, seen,
       NoJob
  <2> QED BY <1>6, <2>1, <2>2, <2>3, <2>4, <2>5 DEF Trouble
<1>7. CASE WriteByte
    BY <1>1, <1>7, WriteByteCases DEF FlagTypes, Appends, Bounds, NoJob, incoming, line,
       remote, seen
<1>8. CASE BoundaryByte
    BY <1>1, <1>8, BoundaryCases DEF FlagTypes, Writes, Begins, NoJob, Loses, incoming,
       line, remote, seen, counts
<1>9. ASSUME NEW n \in 1 .. MaxOut, WriteStream(n) PROVE FlagTypes'
    BY <1>1, <1>9, WriteStreamCases DEF FlagTypes, NoJob, Begins, stream, incoming,
       line, remote, seen, counts
<1>10. CASE RequestStart
    BY <1>1, <1>10, StartCases DEF FlagTypes, NoJob, Begins, line, remote
<1>11. CASE RoutePublished
    BY <1>1, <1>11 DEF FlagTypes, RoutePublished, incoming, line, remote, seen,
       counts
<1>12. CASE RequestLegacy
    BY <1>1, <1>12, LegacyCases DEF FlagTypes, StopBegins, Begins, OnlyLeaves, NoJob,
       incoming, line, remote, seen, counts
<1>13. CASE Leave
    BY <1>1, <1>13 DEF FlagTypes, Leave, incoming, line, remote, seen, counts
<1>14. CASE SelectEnd
    BY <1>1, <1>14 DEF FlagTypes, SelectEnd, Serving, incoming, remote, seen, counts
<1>15. CASE PeerAnswers
    BY <1>1, <1>15, AnswerCases DEF FlagTypes, AnswersOpen, Answers, AnswersAmount,
       AnswersRest, stream, incoming, seen
<1>16. CASE PeerQueues
    BY <1>1, <1>16, QueueCases DEF FlagTypes, stream, incoming, line, seen
<1>17. CASE ReplyStarts
    BY <1>1, <1>17 DEF FlagTypes, ReplyStarts, stream, incoming, remote, seen, counts
<1>18. CASE ReplyEnds
    BY <1>1, <1>18 DEF FlagTypes, ReplyEnds, stream, incoming, remote, seen, counts
<1>19. CASE Reset
    BY <1>1, <1>19 DEF FlagTypes, Reset, NoJob, Quiet, Closed
<1> QED BY <1>2, <1>3, <1>4, <1>5, <1>6, <1>7, <1>8, <1>9, <1>10, <1>11, <1>12,
   <1>13, <1>14, <1>15, <1>16, <1>17, <1>18, <1>19 DEF Next

\* A job keeps its type.
LEMMA JobTypeStep == IInv /\ [Next]_vars => JobType'
<1> SUFFICES ASSUME IInv, [Next]_vars PROVE JobType'
    OBVIOUS
<1>1. JobType
    BY DEF IInv
<1>2. CountTypes
    BY DEF IInv
<1>3. WriteRoom
    BY DEF IInv
<1>4. CASE UNCHANGED vars
    BY <1>1, <1>2, <1>3, <1>4, BoundsAssumption DEF JobType, CountTypes, WriteRoom,
       Whos, Steps, NoJob, vars, stream, incoming, line, remote, seen, counts
<1>5. CASE TickOnly
    BY <1>1, <1>2, <1>3, BoundsAssumption, <1>5, TickCases DEF JobType, CountTypes,
       WriteRoom, Whos, Steps, NoJob, Discards, TakesSome, Takes, Interrupts, stream,
       remote, counts
<1>6. CASE TickServes
    BY <1>1, <1>2, <1>3, BoundsAssumption, <1>6, ServesCases DEF JobType, CountTypes,
       WriteRoom, Whos, Steps, NoJob, Discards, TakesSome, Takes, TakesNone,
       incoming, Begins, Interrupts, stream, remote, counts
<1>7. CASE JobStep
  <2>1. CASE Flush
      BY <1>1, <1>2, <1>3, BoundsAssumption, <2>1, FlushCases DEF JobType, CountTypes,
         WriteRoom, Whos, Steps, NoJob, FlushSends, Moves, FlushEnds, StopDrains,
         ServicePolls, Runs, stream, incoming, line, remote, seen, counts
  <2>2. CASE Reserve
      BY <1>1, <1>2, <1>3, BoundsAssumption, <2>2, ReserveCases DEF JobType, CountTypes,
         WriteRoom, Whos, Steps, NoJob, AsksSession, Asks, Moves, Continue,
         AsksOffer, AsksPoll, AsksStop, incoming, remote, seen, counts
  <2>3. CASE Refused
    <3>1. CASE ServiceFails
      BY <1>1, <1>2, <1>3, BoundsAssumption, <2>3, <3>1, RefusedCases DEF JobType,
         CountTypes, WriteRoom, Whos, Steps, NoJob, ServiceFails, Runs, Moves,
         incoming, remote, seen, counts
    <3>2. CASE StartFails
      BY <1>1, <1>2, <1>3, BoundsAssumption, <2>3, <3>2, RefusedCases DEF JobType,
         CountTypes, WriteRoom, Whos, Steps, NoJob, StartFails, Runs, incoming,
         remote, seen, counts
    <3>3. CASE OtherFails
      BY <1>1, <1>2, <1>3, BoundsAssumption, <2>3, <3>3, RefusedCases DEF JobType,
         CountTypes, WriteRoom, Whos, Steps, NoJob, OtherFails, incoming, remote,
         seen, counts
    <3> QED BY <2>3, <3>1, <3>2, <3>3, RefusedCases
  <2>4. CASE Negotiated
      BY <1>1, <1>2, <1>3, BoundsAssumption, <2>4, NegotiatedCases DEF JobType,
         CountTypes, WriteRoom, Whos, Steps, NoJob, Opens, Runs, Asks, Moves,
         Continue, Offers, incoming, remote, seen, counts
  <2>5. CASE Opened
    BY <1>1, <1>2, <1>3, <2>5, BoundsAssumption DEF JobType, CountTypes, WriteRoom,
       Whos, Steps, NoJob, Opened, Answered, Quiet, incoming, remote, seen, counts,
       At
  <2>6. CASE Offered
    BY <1>1, <1>2, <1>3, <2>6, BoundsAssumption DEF JobType, CountTypes, WriteRoom,
       Whos, Steps, NoJob, Offered, Answered, Quiet, Goto, incoming, remote, seen,
       counts, At
  <2>7. CASE Polled
    <3>1. CASE PollFetches
      BY <1>1, <1>2, <1>3, BoundsAssumption, <2>7, <3>1, PolledCases DEF JobType,
         CountTypes, WriteRoom, Whos, Steps, NoJob, PollFetches, Fetches, Continue,
         Quiet, remote, seen, counts
    <3>2. CASE PollFails
      <4>1. CASE ServiceFails
        BY <1>1, <1>2, <1>3, BoundsAssumption, <2>7, <3>2, <4>1, PolledCases DEF
           PollFails, JobType, CountTypes, WriteRoom, Whos, Steps, NoJob,
           ServiceFails, Runs, Moves, Quiet, remote, seen, counts
      <4>2. CASE StartFails
        BY <1>1, <1>2, <1>3, BoundsAssumption, <2>7, <3>2, <4>2, PolledCases DEF
           PollFails, JobType, CountTypes, WriteRoom, Whos, Steps, NoJob, StartFails,
           Runs, Quiet, remote, seen, counts
      <4>3. CASE OtherFails
        BY <1>1, <1>2, <1>3, BoundsAssumption, <2>7, <3>2, <4>3, PolledCases DEF
           PollFails, JobType, CountTypes, WriteRoom, Whos, Steps, NoJob, OtherFails,
           Quiet, remote, seen, counts
      <4> QED BY <3>2, <4>1, <4>2, <4>3 DEF PollFails
    <3>3. CASE PollEnds
      BY <1>1, <1>2, <1>3, BoundsAssumption, <2>7, <3>3, PolledCases DEF JobType,
         CountTypes, WriteRoom, Whos, Steps, NoJob, PollEnds, Moves, Continue, Quiet,
         remote, seen, counts
    <3> QED BY <2>7, <3>1, <3>2, <3>3, PolledCases
  <2>8. CASE BlockDone
    <3>1. CASE BlockGoes
      BY <1>1, <1>2, <1>3, BoundsAssumption, <2>8, <3>1, BlockCases DEF JobType,
         CountTypes, WriteRoom, Whos, Steps, NoJob, BlockGoes, incoming, WriteEnds,
         WriteGoesOn, StopDrains, ServicePolls, Runs, Moves, line, seen
    <3>2. CASE BlockComes
      BY <1>1, <1>2, <1>3, BoundsAssumption, <2>8, <3>2, BlockCases DEF JobType,
         CountTypes, WriteRoom, Whos, Steps, NoJob, BlockComes, Runs, line, seen
    <3> QED BY <2>8, <3>1, <3>2, BlockCases
  <2>9. CASE Copy
    <3>1. CASE CopyFills
      BY <1>1, <2>9, <3>1, CopyCases, CopyTypes DEF JobType, Steps, CopyFills, Runs,
         incoming, line, remote, seen
    <3>2. CASE CopyEnds
      BY <1>1, <1>2, <1>3, BoundsAssumption, <2>9, <3>2, CopyCases DEF JobType,
         CountTypes, WriteRoom, Whos, Steps, NoJob, CopyEnds, Runs, incoming, line,
         remote, seen
    <3> QED BY <2>9, <3>1, <3>2, CopyCases
  <2>10. CASE StopAnswered
    <3>1. CASE StreamEnds
      BY <1>1, <1>2, <1>3, BoundsAssumption, <2>10, <3>1, StopCases DEF JobType,
         CountTypes, WriteRoom, Whos, Steps, NoJob, StreamEnds, Runs, Quiet,
         incoming, remote, seen, counts
    <3>2. CASE StopFetches
      BY <1>1, <1>2, <1>3, BoundsAssumption, <2>10, <3>2, StopCases DEF JobType,
         CountTypes, WriteRoom, Whos, Steps, NoJob, StopFetches, Fetches, Continue,
         Runs, Quiet, incoming, remote, seen, counts
    <3>3. CASE StopFails
      BY <1>1, <1>2, <1>3, BoundsAssumption, <2>10, <3>3, StopCases DEF JobType,
         CountTypes, WriteRoom, Whos, Steps, NoJob, StopFails, Runs, Quiet, incoming,
         remote, seen, counts
    <3> QED BY <2>10, <3>1, <3>2, <3>3, StopCases
  <2>11. CASE ServiceEnd
    <3>1. CASE Discards
      BY <1>1, <1>2, <1>3, BoundsAssumption, <2>11, <3>1, EndCases DEF JobType,
         CountTypes, WriteRoom, Whos, Steps, NoJob, Discards, Interrupts, stream,
         remote, counts
    <3>2. CASE TakesSome
      BY <1>1, <1>2, <1>3, BoundsAssumption, <2>11, <3>2, EndCases DEF JobType,
         CountTypes, WriteRoom, Whos, Steps, NoJob, Interrupts, stream, remote,
         counts
    <3> QED BY <2>11, <3>1, <3>2, EndCases
  <2> QED BY <1>7, <2>1, <2>2, <2>3, <2>4, <2>5, <2>6, <2>7, <2>8, <2>9, <2>10, <2>11
     DEF JobStep
<1>8. CASE Trouble
  <2>1. CASE ExchangeFails
    <3>1. CASE ServiceFails
      BY <1>1, <1>2, <1>3, BoundsAssumption, <2>1, <3>1, ExchangeCases DEF JobType,
         CountTypes, WriteRoom, Whos, Steps, NoJob, ServiceFails, Runs, Moves,
         Requests, Quiet, incoming, remote, seen
    <3>2. CASE StartFails
      BY <1>1, <1>2, <1>3, BoundsAssumption, <2>1, <3>2, ExchangeCases DEF JobType,
         CountTypes, WriteRoom, Whos, Steps, NoJob, StartFails, Runs, Requests,
         Quiet, incoming, remote, seen
    <3>3. CASE OtherFails
      BY <1>1, <1>2, <1>3, BoundsAssumption, <2>1, <3>3, ExchangeCases DEF JobType,
         CountTypes, WriteRoom, Whos, Steps, NoJob, OtherFails, Requests, Quiet,
         incoming, remote, seen
    <3> QED BY <2>1, <3>1, <3>2, <3>3, ExchangeCases
  <2>2. CASE BlockFails
    <3>1. CASE ServiceFails
      BY <1>1, <1>2, <1>3, BoundsAssumption, <2>2, <3>1, BlockFailCases DEF JobType,
         CountTypes, WriteRoom, Whos, Steps, NoJob, ServiceFails, Runs, Moves,
         incoming, remote
    <3>2. CASE StartFails
      BY <1>1, <1>2, <1>3, BoundsAssumption, <2>2, <3>2, BlockFailCases DEF JobType,
         CountTypes, WriteRoom, Whos, Steps, NoJob, StartFails, Runs, incoming,
         remote
    <3>3. CASE OtherFails
      BY <1>1, <1>2, <1>3, BoundsAssumption, <2>2, <3>3, BlockFailCases DEF JobType,
         CountTypes, WriteRoom, Whos, Steps, NoJob, OtherFails, incoming, remote
    <3> QED BY <2>2, <3>1, <3>2, <3>3, BlockFailCases
  <2>3. CASE DrainDeadline
    <3>1. CASE ServiceFails
      BY <1>1, <1>2, <1>3, BoundsAssumption, <2>3, <3>1, DrainCases DEF JobType,
         CountTypes, WriteRoom, Whos, Steps, NoJob, ServiceFails, Runs, Moves,
         incoming, remote, seen
    <3>2. CASE StartFails
      BY <1>1, <1>2, <1>3, BoundsAssumption, <2>3, <3>2, DrainCases DEF JobType,
         CountTypes, WriteRoom, Whos, Steps, NoJob, StartFails, Runs, incoming,
         remote, seen
    <3>3. CASE OtherFails
      BY <1>1, <1>2, <1>3, BoundsAssumption, <2>3, <3>3, DrainCases DEF JobType,
         CountTypes, WriteRoom, Whos, Steps, NoJob, OtherFails, incoming, remote,
         seen
    <3> QED BY <2>3, <3>1, <3>2, <3>3, DrainCases
  <2>4. CASE Fault
    BY <1>1, <1>2, <1>3, <2>4, BoundsAssumption DEF JobType, CountTypes, WriteRoom,
       Whos, Steps, NoJob, Fault, stream, incoming, remote, seen
  <2>5. CASE SelectBegin
    BY <1>1, <1>2, <1>3, <2>5, BoundsAssumption DEF JobType, CountTypes, WriteRoom,
       Whos, Steps, NoJob, SelectBegin, Idle, incoming, line, remote, seen
  <2> QED BY <1>8, <2>1, <2>2, <2>3, <2>4, <2>5 DEF Trouble
<1>9. CASE WriteByte
    BY <1>1, <1>2, <1>3, BoundsAssumption, <1>9, WriteByteCases DEF JobType, CountTypes,
       WriteRoom, Whos, Steps, NoJob, Appends, Bounds, incoming, line, remote, seen
<1>10. CASE BoundaryByte
    BY <1>1, <1>2, <1>3, BoundsAssumption, <1>10, BoundaryCases DEF JobType, CountTypes,
       WriteRoom, Whos, Steps, NoJob, Writes, Begins, Loses, incoming, line, remote,
       seen, counts
<1>11. ASSUME NEW n \in 1 .. MaxOut, WriteStream(n) PROVE JobType'
    BY <1>1, <1>2, <1>3, BoundsAssumption, <1>11, WriteStreamCases DEF JobType,
       CountTypes, WriteRoom, Whos, Steps, NoJob, Begins, stream, incoming, line,
       remote, seen, counts
<1>12. CASE RequestStart
    BY <1>1, <1>2, <1>3, BoundsAssumption, <1>12, StartCases DEF JobType, CountTypes,
       WriteRoom, Whos, Steps, NoJob, Begins, line, remote
<1>13. CASE RoutePublished
    BY <1>1, <1>2, <1>3, <1>13, BoundsAssumption DEF JobType, CountTypes, WriteRoom,
       Whos, Steps, NoJob, RoutePublished, incoming, line, remote, seen, counts
<1>14. CASE RequestLegacy
    BY <1>1, <1>2, <1>3, BoundsAssumption, <1>14, LegacyCases DEF JobType, CountTypes,
       WriteRoom, Whos, Steps, NoJob, StopBegins, Begins, OnlyLeaves, incoming, line,
       remote, seen, counts
<1>15. CASE Leave
    BY <1>1, <1>2, <1>3, <1>15, BoundsAssumption DEF JobType, CountTypes, WriteRoom,
       Whos, Steps, NoJob, Leave, incoming, line, remote, seen, counts
<1>16. CASE SelectEnd
    BY <1>1, <1>2, <1>3, <1>16, BoundsAssumption DEF JobType, CountTypes, WriteRoom,
       Whos, Steps, NoJob, SelectEnd, Serving, incoming, remote, seen, counts
<1>17. CASE PeerAnswers
    BY <1>1, <1>2, <1>3, BoundsAssumption, <1>17, AnswerCases DEF JobType, CountTypes,
       WriteRoom, Whos, Steps, NoJob, AnswersOpen, Answers, AnswersAmount,
       AnswersRest, stream, incoming, seen
<1>18. CASE PeerQueues
    BY <1>1, <1>2, <1>3, BoundsAssumption, <1>18, QueueCases DEF JobType, CountTypes,
       WriteRoom, Whos, Steps, NoJob, stream, incoming, line, seen
<1>19. CASE ReplyStarts
    BY <1>1, <1>2, <1>3, <1>19, BoundsAssumption DEF JobType, CountTypes, WriteRoom,
       Whos, Steps, NoJob, ReplyStarts, stream, incoming, remote, seen, counts
<1>20. CASE ReplyEnds
    BY <1>1, <1>2, <1>3, <1>20, BoundsAssumption DEF JobType, CountTypes, WriteRoom,
       Whos, Steps, NoJob, ReplyEnds, stream, incoming, remote, seen, counts
<1>21. CASE Reset
    BY <1>1, <1>2, <1>3, <1>21, BoundsAssumption DEF JobType, CountTypes, WriteRoom,
       Whos, Steps, NoJob, Reset, Quiet, Closed
<1> QED BY <1>4, <1>5, <1>6, <1>7, <1>8, <1>9, <1>10, <1>11, <1>12, <1>13, <1>14,
   <1>15, <1>16, <1>17, <1>18, <1>19, <1>20, <1>21 DEF Next

\* The exchange keeps its type.
LEMMA WireTypeStep == IInv /\ [Next]_vars => WireType'
<1> SUFFICES ASSUME IInv, [Next]_vars PROVE WireType'
    OBVIOUS
<1>1. WireType
    BY DEF IInv
<1>2. InTypes
    BY DEF IInv
<1>3. CountTypes
    BY DEF IInv
<1>4. WireInv
    BY DEF IInv
<1>5. CASE UNCHANGED vars
    BY <1>1, <1>2, <1>3, <1>4, <1>5, BoundsAssumption DEF WireType, InTypes,
       CountTypes, WireInv, Requests, Quiet, vars, stream, incoming, line, remote,
       seen, counts
<1>6. CASE TickOnly
    BY <1>1, <1>4, <1>6, TickCases, InterruptFacts DEF stream, remote, counts
<1>7. CASE TickServes
    BY <1>1, <1>4, <1>7, ServesCases, InterruptFacts DEF stream, remote, counts
<1>8. CASE JobStep
  <2>1. CASE Flush
      BY <1>1, <1>2, <1>3, <1>4, BoundsAssumption, <2>1, FlushCases DEF WireType,
         InTypes, CountTypes, WireInv, Requests, Quiet, FlushSends, Moves, FlushEnds,
         StopDrains, ServicePolls, Runs, stream, incoming, line, remote, seen, counts
  <2>2. CASE Reserve
    <3>1. CASE AsksSession
      BY <1>1, <1>2, <1>3, <1>4, BoundsAssumption, <2>2, <3>1, ReserveCases DEF
         WireType, InTypes, CountTypes, WireInv, Requests, Quiet, AsksSession, Asks,
         Moves, Continue, incoming, remote, seen, counts
    <3>2. CASE AsksOffer
      BY <1>1, <1>3, <2>2, <3>2, ReserveCases, BlockNumbers DEF WireType, Requests,
         AsksOffer, Asks, Moves, Continue, incoming, remote, seen, counts
    <3>3. CASE AsksPoll
      BY <1>1, <1>2, <1>3, <1>4, BoundsAssumption, <2>2, <3>3, ReserveCases DEF
         WireType, InTypes, CountTypes, WireInv, Requests, Quiet, AsksPoll, Asks,
         Moves, Continue, incoming, remote, seen, counts
    <3>4. CASE AsksStop
      BY <1>1, <1>2, <1>3, <1>4, BoundsAssumption, <2>2, <3>4, ReserveCases DEF
         WireType, InTypes, CountTypes, WireInv, Requests, Quiet, AsksStop, Asks,
         Moves, Continue, incoming, remote, seen, counts
    <3> QED BY <2>2, <3>1, <3>2, <3>3, <3>4, ReserveCases
  <2>3. CASE Refused
      BY <1>1, <1>2, <1>3, <1>4, BoundsAssumption, <2>3, RefusedCases DEF WireType,
         InTypes, CountTypes, WireInv, Requests, Quiet, ServiceFails, Runs, Moves,
         StartFails, NoJob, OtherFails, incoming, remote, seen, counts
  <2>4. CASE Negotiated
    <3>1. CASE Opens
      BY <1>1, <1>2, <1>3, <1>4, BoundsAssumption, <2>4, <3>1, NegotiatedCases DEF
         WireType, InTypes, CountTypes, WireInv, Requests, Quiet, Opens, Runs, Asks,
         Moves, Continue, incoming, remote, seen, counts
    <3>2. CASE Offers
      BY <1>1, <1>3, <2>4, <3>2, NegotiatedCases, BlockNumbers DEF WireType, Requests,
         Offers, Runs, Asks, Moves, Continue, incoming, remote, seen, counts
    <3> QED BY <2>4, <3>1, <3>2, NegotiatedCases
  <2>5. CASE Opened
    BY <1>1, <1>2, <1>3, <1>4, <2>5, BoundsAssumption DEF WireType, InTypes,
       CountTypes, WireInv, Requests, Quiet, Opened, Answered, NoJob, incoming,
       remote, seen, counts, At
  <2>6. CASE Offered
    BY <1>1, <1>2, <1>3, <1>4, <2>6, BoundsAssumption DEF WireType, InTypes,
       CountTypes, WireInv, Requests, Quiet, Offered, Answered, Goto, incoming,
       remote, seen, counts, At
  <2>7. CASE Polled
      BY <1>1, <1>2, <1>3, <1>4, BoundsAssumption, <2>7, PolledCases DEF WireType,
         InTypes, CountTypes, WireInv, Requests, Quiet, PollFetches, Fetches,
         Continue, PollFails, ServiceFails, StartFails, OtherFails, Runs, Moves,
         NoJob, PollEnds, remote, seen, counts
  <2>8. CASE BlockDone
      BY <1>1, <1>2, <1>3, <1>4, BoundsAssumption, <2>8, BlockCases DEF WireType,
         InTypes, CountTypes, WireInv, Requests, Quiet, BlockGoes, incoming,
         WriteEnds, WriteGoesOn, StopDrains, ServicePolls, Runs, NoJob, Moves,
         BlockComes, line, seen
  <2>9. CASE Copy
      BY <1>1, <1>2, <1>3, <1>4, BoundsAssumption, <2>9, CopyCases DEF WireType,
         InTypes, CountTypes, WireInv, Requests, Quiet, CopyFills, CopyEnds, NoJob,
         Runs, incoming, line, remote, seen
  <2>10. CASE StopAnswered
      BY <1>1, <1>2, <1>3, <1>4, BoundsAssumption, <2>10, StopCases DEF WireType,
         InTypes, CountTypes, WireInv, Requests, Quiet, StreamEnds, NoJob,
         StopFetches, Fetches, Continue, StopFails, Runs, incoming, remote, seen,
         counts
  <2>11. CASE ServiceEnd
      BY <1>1, <1>4, <2>11, EndCases, InterruptFacts DEF stream, remote, counts
  <2> QED BY <1>8, <2>1, <2>2, <2>3, <2>4, <2>5, <2>6, <2>7, <2>8, <2>9, <2>10, <2>11
     DEF JobStep
<1>9. CASE Trouble
  <2>1. CASE ExchangeFails
      BY SMTT(30), <1>1, <1>2, <1>3, <1>4, BoundsAssumption, <2>1, ExchangeCases DEF WireType,
         InTypes, CountTypes, WireInv, Requests, Quiet, ServiceFails, Runs, Moves,
         StartFails, NoJob, OtherFails, incoming, remote, seen
  <2>2. CASE BlockFails
      BY <1>1, <1>2, <1>3, <1>4, BoundsAssumption, <2>2, BlockFailCases DEF WireType,
         InTypes, CountTypes, WireInv, Requests, Quiet, ServiceFails, Runs, Moves,
         StartFails, NoJob, OtherFails, incoming, remote
  <2>3. CASE DrainDeadline
      BY <1>1, <1>2, <1>3, <1>4, BoundsAssumption, <2>3, DrainCases DEF WireType,
         InTypes, CountTypes, WireInv, Requests, Quiet, ServiceFails, Runs, Moves,
         StartFails, NoJob, OtherFails, incoming, remote, seen
  <2>4. CASE Fault
    BY <1>1, <1>2, <1>3, <1>4, <2>4, BoundsAssumption DEF WireType, InTypes,
       CountTypes, WireInv, Requests, Quiet, Fault, stream, incoming, remote, seen
  <2>5. CASE SelectBegin
    BY <1>1, <1>2, <1>3, <1>4, <2>5, BoundsAssumption DEF WireType, InTypes,
       CountTypes, WireInv, Requests, Quiet, SelectBegin, Idle, incoming, line,
       remote, seen, NoJob
  <2> QED BY <1>9, <2>1, <2>2, <2>3, <2>4, <2>5 DEF Trouble
<1>10. CASE WriteByte
    BY <1>1, <1>2, <1>3, <1>4, BoundsAssumption, <1>10, WriteByteCases DEF WireType,
       InTypes, CountTypes, WireInv, Requests, Quiet, Appends, Bounds, NoJob,
       incoming, line, remote, seen
<1>11. CASE BoundaryByte
    BY <1>1, <1>2, <1>3, <1>4, BoundsAssumption, <1>11, BoundaryCases DEF WireType,
       InTypes, CountTypes, WireInv, Requests, Quiet, Writes, Begins, NoJob, Loses,
       incoming, line, remote, seen, counts
<1>12. ASSUME NEW n \in 1 .. MaxOut, WriteStream(n) PROVE WireType'
    BY <1>1, <1>2, <1>3, <1>4, BoundsAssumption, <1>12, WriteStreamCases DEF WireType,
       InTypes, CountTypes, WireInv, Requests, Quiet, NoJob, Begins, stream,
       incoming, line, remote, seen, counts
<1>13. CASE RequestStart
    BY <1>1, <1>2, <1>3, <1>4, BoundsAssumption, <1>13, StartCases DEF WireType, InTypes,
       CountTypes, WireInv, Requests, Quiet, NoJob, Begins, line, remote
<1>14. CASE RoutePublished
    BY <1>1, <1>2, <1>3, <1>4, <1>14, BoundsAssumption DEF WireType, InTypes,
       CountTypes, WireInv, Requests, Quiet, RoutePublished, incoming, line, remote,
       seen, counts
<1>15. CASE RequestLegacy
    BY <1>1, <1>2, <1>3, <1>4, BoundsAssumption, <1>15, LegacyCases DEF WireType,
       InTypes, CountTypes, WireInv, Requests, Quiet, StopBegins, Begins, OnlyLeaves,
       NoJob, incoming, line, remote, seen, counts
<1>16. CASE Leave
    BY <1>1, <1>2, <1>3, <1>4, <1>16, BoundsAssumption DEF WireType, InTypes,
       CountTypes, WireInv, Requests, Quiet, Leave, incoming, line, remote, seen,
       counts
<1>17. CASE SelectEnd
    BY <1>1, <1>2, <1>3, <1>4, <1>17, BoundsAssumption DEF WireType, InTypes,
       CountTypes, WireInv, Requests, Quiet, SelectEnd, Serving, incoming, remote,
       seen, counts
<1>18. CASE PeerAnswers
  <2>1. CASE AnswersOpen
    BY <1>1, <1>2, <1>3, <1>4, BoundsAssumption, <1>18, <2>1, AnswerCases DEF WireType,
       InTypes, CountTypes, WireInv, Requests, Quiet, AnswersOpen, Answers, stream,
       incoming, seen
  <2>2. CASE AnswersAmount
    BY <1>1, <1>2, <1>3, <1>4, BoundsAssumption, <1>18, <2>2, AnswerCases DEF WireType,
       InTypes, CountTypes, WireInv, Requests, Quiet, AnswersAmount, Answers, stream,
       incoming, seen
  <2>3. CASE AnswersRest
    BY <1>1, <1>2, <1>3, <1>4, BoundsAssumption, <1>18, <2>3, AnswerCases DEF WireType,
       InTypes, CountTypes, WireInv, Requests, Quiet, AnswersRest, Answers, stream,
       incoming, seen
  <2> QED BY <1>18, <2>1, <2>2, <2>3, AnswerCases
<1>19. CASE PeerQueues
    BY <1>1, <1>2, <1>3, <1>4, BoundsAssumption, <1>19, QueueCases DEF WireType, InTypes,
       CountTypes, WireInv, Requests, Quiet, stream, incoming, line, seen
<1>20. CASE ReplyStarts
    BY <1>1, <1>2, <1>3, <1>4, <1>20, BoundsAssumption DEF WireType, InTypes,
       CountTypes, WireInv, Requests, Quiet, ReplyStarts, stream, incoming, remote,
       seen, counts
<1>21. CASE ReplyEnds
    BY <1>1, <1>2, <1>3, <1>4, <1>21, BoundsAssumption DEF WireType, InTypes,
       CountTypes, WireInv, Requests, Quiet, ReplyEnds, stream, incoming, remote,
       seen, counts
<1>22. CASE Reset
    BY <1>1, <1>2, <1>3, <1>4, <1>22, BoundsAssumption DEF WireType, InTypes,
       CountTypes, WireInv, Requests, Quiet, Reset, NoJob, Closed
<1> QED BY <1>5, <1>6, <1>7, <1>8, <1>9, <1>10, <1>11, <1>12, <1>13, <1>14, <1>15,
   <1>16, <1>17, <1>18, <1>19, <1>20, <1>21, <1>22 DEF Next

\* The peer keeps its type.
LEMMA PeerTypeStep == IInv /\ [Next]_vars => PeerType'
<1> SUFFICES ASSUME IInv, [Next]_vars PROVE PeerType'
    OBVIOUS
<1>1. PeerType
    BY DEF IInv
<1>2. CASE UNCHANGED vars
    BY <1>1, <1>2, BoundsAssumption DEF PeerType, Closed, vars, stream, incoming,
       line, remote, seen, counts
<1>3. CASE TickOnly
    BY <1>1, BoundsAssumption, <1>3, TickCases DEF PeerType, Closed, Discards,
       TakesSome, Takes, Interrupts, stream, remote, counts
<1>4. CASE TickServes
    BY <1>1, BoundsAssumption, <1>4, ServesCases DEF PeerType, Closed, Discards,
       TakesSome, Takes, TakesNone, incoming, NoJob, Begins, Interrupts, stream,
       remote, counts
<1>5. CASE JobStep
  <2>1. CASE Flush
      BY <1>1, BoundsAssumption, <2>1, FlushCases DEF PeerType, Closed, FlushSends,
         Moves, FlushEnds, StopDrains, ServicePolls, Runs, stream, incoming, line,
         remote, seen, counts
  <2>2. CASE Reserve
      BY <1>1, BoundsAssumption, <2>2, ReserveCases DEF PeerType, Closed, AsksSession,
         Asks, Moves, Continue, AsksOffer, AsksPoll, AsksStop, incoming, remote,
         seen, counts
  <2>3. CASE Refused
      BY <1>1, BoundsAssumption, <2>3, RefusedCases DEF PeerType, Closed, ServiceFails,
         Runs, Moves, StartFails, NoJob, OtherFails, incoming, remote, seen, counts
  <2>4. CASE Negotiated
      BY <1>1, BoundsAssumption, <2>4, NegotiatedCases DEF PeerType, Closed, Opens,
         Runs, Asks, Moves, Continue, Offers, incoming, remote, seen, counts
  <2>5. CASE Opened
    BY <1>1, <2>5, BoundsAssumption DEF PeerType, Closed, Opened, Answered, NoJob,
       Quiet, incoming, remote, seen, counts, At
  <2>6. CASE Offered
    BY <1>1, <2>6, BoundsAssumption DEF PeerType, Closed, Offered, Answered, Quiet,
       Goto, incoming, remote, seen, counts, At
  <2>7. CASE Polled
      BY <1>1, BoundsAssumption, <2>7, PolledCases DEF PeerType, Closed, PollFetches,
         Fetches, Continue, PollFails, ServiceFails, StartFails, OtherFails, Runs,
         Moves, NoJob, PollEnds, Quiet, remote, seen, counts
  <2>8. CASE BlockDone
      BY <1>1, BoundsAssumption, <2>8, BlockCases DEF PeerType, Closed, BlockGoes,
         incoming, WriteEnds, WriteGoesOn, StopDrains, ServicePolls, Runs, NoJob,
         Moves, BlockComes, line, seen
  <2>9. CASE Copy
      BY <1>1, BoundsAssumption, <2>9, CopyCases DEF PeerType, Closed, CopyFills,
         CopyEnds, NoJob, Runs, incoming, line, remote, seen
  <2>10. CASE StopAnswered
      BY <1>1, BoundsAssumption, <2>10, StopCases DEF PeerType, Closed, StreamEnds,
         NoJob, StopFetches, Fetches, Continue, StopFails, Runs, Quiet, incoming,
         remote, seen, counts
  <2>11. CASE ServiceEnd
      BY <1>1, BoundsAssumption, <2>11, EndCases DEF PeerType, Closed, Discards,
         TakesSome, Takes, NoJob, Interrupts, stream, remote, counts
  <2> QED BY <1>5, <2>1, <2>2, <2>3, <2>4, <2>5, <2>6, <2>7, <2>8, <2>9, <2>10, <2>11
     DEF JobStep
<1>6. CASE Trouble
  <2>1. CASE ExchangeFails
      BY <1>1, BoundsAssumption, <2>1, ExchangeCases DEF PeerType, Closed, ServiceFails,
         Runs, Moves, StartFails, NoJob, OtherFails, Requests, Quiet, incoming,
         remote, seen
  <2>2. CASE BlockFails
      BY <1>1, BoundsAssumption, <2>2, BlockFailCases DEF PeerType, Closed,
         ServiceFails, Runs, Moves, StartFails, NoJob, OtherFails, incoming, remote
  <2>3. CASE DrainDeadline
      BY <1>1, BoundsAssumption, <2>3, DrainCases DEF PeerType, Closed, ServiceFails,
         Runs, Moves, StartFails, NoJob, OtherFails, incoming, remote, seen
  <2>4. CASE Fault
    BY <1>1, <2>4, BoundsAssumption DEF PeerType, Closed, Fault, stream, incoming,
       remote, seen
  <2>5. CASE SelectBegin
    BY <1>1, <2>5, BoundsAssumption DEF PeerType, Closed, SelectBegin, Idle,
       incoming, line, remote, seen, NoJob
  <2> QED BY <1>6, <2>1, <2>2, <2>3, <2>4, <2>5 DEF Trouble
<1>7. CASE WriteByte
    BY <1>1, BoundsAssumption, <1>7, WriteByteCases DEF PeerType, Closed, Appends,
       Bounds, NoJob, incoming, line, remote, seen
<1>8. CASE BoundaryByte
    BY <1>1, BoundsAssumption, <1>8, BoundaryCases DEF PeerType, Closed, Writes, Begins,
       NoJob, Loses, incoming, line, remote, seen, counts
<1>9. ASSUME NEW n \in 1 .. MaxOut, WriteStream(n) PROVE PeerType'
    BY <1>1, BoundsAssumption, <1>9, WriteStreamCases DEF PeerType, Closed, NoJob,
       Begins, stream, incoming, line, remote, seen, counts
<1>10. CASE RequestStart
    BY <1>1, BoundsAssumption, <1>10, StartCases DEF PeerType, Closed, NoJob, Begins,
       line, remote
<1>11. CASE RoutePublished
    BY <1>1, <1>11, BoundsAssumption DEF PeerType, Closed, RoutePublished, incoming,
       line, remote, seen, counts
<1>12. CASE RequestLegacy
    BY <1>1, BoundsAssumption, <1>12, LegacyCases DEF PeerType, Closed, StopBegins,
       Begins, OnlyLeaves, NoJob, incoming, line, remote, seen, counts
<1>13. CASE Leave
    BY <1>1, <1>13, BoundsAssumption DEF PeerType, Closed, Leave, incoming, line,
       remote, seen, counts
<1>14. CASE SelectEnd
    BY <1>1, <1>14, BoundsAssumption DEF PeerType, Closed, SelectEnd, Serving,
       incoming, remote, seen, counts
<1>15. CASE PeerAnswers
    BY <1>1, BoundsAssumption, <1>15, AnswerCases DEF PeerType, Closed, AnswersOpen,
       Answers, AnswersAmount, AnswersRest, stream, incoming, seen
<1>16. CASE PeerQueues
    BY <1>1, BoundsAssumption, <1>16, QueueCases DEF PeerType, Closed, stream, incoming,
       line, seen
<1>17. CASE ReplyStarts
    BY <1>1, <1>17, BoundsAssumption DEF PeerType, Closed, ReplyStarts, stream,
       incoming, remote, seen, counts
<1>18. CASE ReplyEnds
    BY <1>1, <1>18, BoundsAssumption DEF PeerType, Closed, ReplyEnds, stream,
       incoming, remote, seen, counts
<1>19. CASE Reset
    BY <1>1, <1>19, BoundsAssumption DEF PeerType, Closed, Reset, NoJob, Quiet
<1> QED BY <1>2, <1>3, <1>4, <1>5, <1>6, <1>7, <1>8, <1>9, <1>10, <1>11, <1>12,
   <1>13, <1>14, <1>15, <1>16, <1>17, <1>18, <1>19 DEF Next

\* The counters keep their types.
LEMMA CountTypesStep == IInv /\ [Next]_vars => CountTypes'
<1> SUFFICES ASSUME IInv, [Next]_vars PROVE CountTypes'
    OBVIOUS
<1>1. CountTypes
    BY DEF IInv
<1>2. JobInv
    BY DEF IInv
<1>3. WriteRoom
    BY DEF IInv
<1>4. InTypes
    BY DEF IInv
<1>5. CASE UNCHANGED vars
    BY <1>1, <1>2, <1>3, <1>4, <1>5, BoundsAssumption DEF CountTypes, JobInv,
       WriteRoom, InTypes, NextSession, NoJob, vars, stream, incoming, line, remote,
       seen, counts
<1>6. CASE TickOnly
  <2>1. CASE Discards
    BY <1>1, <1>2, <1>3, <1>4, BoundsAssumption, <1>6, <2>1, TickCases DEF CountTypes,
       JobInv, WriteRoom, InTypes, NextSession, NoJob, Discards, Interrupts, stream,
       remote, counts
  <2>2. CASE TakesSome
    BY <1>1, <1>4, <1>6, <2>2, TickCases, TakingTypes DEF CountTypes, Interrupts,
       stream, remote, counts
  <2> QED BY <1>6, <2>1, <2>2, TickCases
<1>7. CASE TickServes
  <2>1. CASE Discards
    BY <1>1, <1>2, <1>3, <1>4, BoundsAssumption, <1>7, <2>1, ServesCases DEF CountTypes,
       JobInv, WriteRoom, InTypes, NextSession, NoJob, Discards, Begins, Interrupts,
       stream, remote, counts
  <2>2. CASE TakesSome
    BY <1>1, <1>4, <1>7, <2>2, ServesCases, TakingTypes DEF CountTypes, Begins,
       Interrupts, stream, remote, counts
  <2>3. CASE TakesNone
    BY <1>1, <1>2, <1>3, <1>4, BoundsAssumption, <1>7, <2>3, ServesCases DEF CountTypes,
       JobInv, WriteRoom, InTypes, NextSession, NoJob, TakesNone, incoming, Begins,
       Interrupts, stream, remote, counts
  <2> QED BY <1>7, <2>1, <2>2, <2>3, ServesCases
<1>8. CASE JobStep
  <2>1. CASE Flush
      BY <1>1, <1>2, <1>3, <1>4, BoundsAssumption, <2>1, FlushCases DEF CountTypes,
         JobInv, WriteRoom, InTypes, NextSession, NoJob, FlushSends, Moves,
         FlushEnds, StopDrains, ServicePolls, Runs, stream, incoming, line, remote,
         seen, counts
  <2>2. CASE Reserve
    <3>1. CASE AsksSession
      BY <1>1, <1>2, <1>3, <1>4, BoundsAssumption, <2>2, <3>1, ReserveCases DEF
         CountTypes, JobInv, WriteRoom, InTypes, NextSession, NoJob, AsksSession,
         Asks, Moves, Continue, incoming, remote, seen, counts
    <3>2. CASE AsksOffer
      BY <1>1, <1>2, <1>3, <1>4, BoundsAssumption, <2>2, <3>2, ReserveCases DEF
         CountTypes, JobInv, WriteRoom, InTypes, NextSession, NoJob, AsksOffer, Asks,
         Moves, Continue, incoming, remote, seen, counts
    <3>3. CASE AsksPoll
      BY <1>1, <1>2, <1>3, <1>4, BoundsAssumption, <2>2, <3>3, ReserveCases DEF
         CountTypes, JobInv, WriteRoom, InTypes, NextSession, NoJob, AsksPoll, Asks,
         Moves, Continue, incoming, remote, seen, counts
    <3>4. CASE AsksStop
      BY <1>1, <1>2, <1>3, <1>4, BoundsAssumption, <2>2, <3>4, ReserveCases DEF
         CountTypes, JobInv, WriteRoom, InTypes, NextSession, NoJob, AsksStop, Asks,
         Moves, Continue, incoming, remote, seen, counts
    <3> QED BY <2>2, <3>1, <3>2, <3>3, <3>4, ReserveCases
  <2>3. CASE Refused
      BY <1>1, <1>2, <1>3, <1>4, BoundsAssumption, <2>3, RefusedCases DEF CountTypes,
         JobInv, WriteRoom, InTypes, NextSession, NoJob, ServiceFails, Runs, Moves,
         StartFails, OtherFails, incoming, remote, seen, counts
  <2>4. CASE Negotiated
      BY <1>1, <1>2, <1>3, <1>4, BoundsAssumption, <2>4, NegotiatedCases DEF CountTypes,
         JobInv, WriteRoom, InTypes, NextSession, NoJob, Opens, Runs, Asks, Moves,
         Continue, Offers, incoming, remote, seen, counts
  <2>5. CASE Opened
    BY <1>1, <1>2, <1>3, <1>4, <2>5, BoundsAssumption DEF CountTypes, JobInv,
       WriteRoom, InTypes, NextSession, NoJob, Opened, Answered, Quiet, incoming,
       remote, seen, counts, At
  <2>6. CASE Offered
    BY <1>1, <2>6, BlockNumbers DEF CountTypes, JobInv, WriteRoom, InTypes,
       NextSession, NoJob, Offered, Answered, Quiet, Goto, incoming, remote, seen,
       counts, At
  <2>7. CASE Polled
      BY <1>1, <1>2, <1>3, <1>4, BoundsAssumption, <2>7, PolledCases DEF CountTypes,
         JobInv, WriteRoom, InTypes, NextSession, NoJob, PollFetches, Fetches,
         Continue, PollFails, ServiceFails, StartFails, OtherFails, Runs, Moves,
         PollEnds, Quiet, remote, seen, counts
  <2>8. CASE BlockDone
      BY <1>1, <1>2, <1>3, <1>4, BoundsAssumption, <2>8, BlockCases DEF CountTypes,
         JobInv, WriteRoom, InTypes, NextSession, NoJob, BlockGoes, incoming,
         WriteEnds, WriteGoesOn, StopDrains, ServicePolls, Runs, Moves, BlockComes,
         line, seen
  <2>9. CASE Copy
      BY <1>1, <2>9, CopyCases, CopyTypes DEF CountTypes, CopyFills, CopyEnds, Runs,
         incoming, line, remote, seen
  <2>10. CASE StopAnswered
      BY <1>1, <1>2, <1>3, <1>4, BoundsAssumption, <2>10, StopCases DEF CountTypes,
         JobInv, WriteRoom, InTypes, NextSession, NoJob, StreamEnds, StopFetches,
         Fetches, Continue, StopFails, Runs, Quiet, incoming, remote, seen, counts
  <2>11. CASE ServiceEnd
    <3>1. CASE Discards
      BY <1>1, <1>2, <1>3, <1>4, BoundsAssumption, <2>11, <3>1, EndCases DEF CountTypes,
         JobInv, WriteRoom, InTypes, NextSession, NoJob, Discards, Interrupts,
         stream, remote, counts
    <3>2. CASE TakesSome
      BY <1>1, <1>4, <2>11, <3>2, EndCases, TakingTypes DEF CountTypes, Interrupts,
         stream, remote, counts
    <3> QED BY <2>11, <3>1, <3>2, EndCases
  <2> QED BY <1>8, <2>1, <2>2, <2>3, <2>4, <2>5, <2>6, <2>7, <2>8, <2>9, <2>10, <2>11
     DEF JobStep
<1>9. CASE Trouble
  <2>1. CASE ExchangeFails
      BY <1>1, <1>2, <1>3, <1>4, BoundsAssumption, <2>1, ExchangeCases DEF CountTypes,
         JobInv, WriteRoom, InTypes, NextSession, NoJob, ServiceFails, Runs, Moves,
         StartFails, OtherFails, Requests, Quiet, incoming, remote, seen
  <2>2. CASE BlockFails
      BY <1>1, <1>2, <1>3, <1>4, BoundsAssumption, <2>2, BlockFailCases DEF CountTypes,
         JobInv, WriteRoom, InTypes, NextSession, NoJob, ServiceFails, Runs, Moves,
         StartFails, OtherFails, incoming, remote
  <2>3. CASE DrainDeadline
      BY <1>1, <1>2, <1>3, <1>4, BoundsAssumption, <2>3, DrainCases DEF CountTypes,
         JobInv, WriteRoom, InTypes, NextSession, NoJob, ServiceFails, Runs, Moves,
         StartFails, OtherFails, incoming, remote, seen
  <2>4. CASE Fault
    BY <1>1, <1>2, <1>3, <1>4, <2>4, BoundsAssumption DEF CountTypes, JobInv,
       WriteRoom, InTypes, NextSession, NoJob, Fault, stream, incoming, remote, seen
  <2>5. CASE SelectBegin
    BY <1>1, <1>2, <1>3, <1>4, <2>5, BoundsAssumption DEF CountTypes, JobInv,
       WriteRoom, InTypes, NextSession, NoJob, SelectBegin, Idle, incoming, line,
       remote, seen
  <2> QED BY <1>9, <2>1, <2>2, <2>3, <2>4, <2>5 DEF Trouble
<1>10. CASE WriteByte
  <2>1. CASE Appends
    BY <1>1, <1>2, <1>3, <1>4, BoundsAssumption, <1>10, <2>1, WriteByteCases DEF
       CountTypes, JobInv, WriteRoom, InTypes, NextSession, NoJob, Appends, incoming,
       line, remote, seen
  <2>2. CASE Bounds
    BY <1>1, <1>2, <1>3, <1>4, BoundsAssumption, <1>10, <2>2, WriteByteCases DEF
       CountTypes, JobInv, WriteRoom, InTypes, NextSession, NoJob, Bounds, incoming,
       line, remote, seen
  <2> QED BY <1>10, <2>1, <2>2, WriteByteCases
<1>11. CASE BoundaryByte
    BY <1>1, <1>2, <1>3, <1>4, BoundsAssumption, <1>11, BoundaryCases DEF CountTypes,
       JobInv, WriteRoom, InTypes, NextSession, NoJob, Writes, Begins, Loses,
       incoming, line, remote, seen, counts
<1>12. ASSUME NEW n \in 1 .. MaxOut, WriteStream(n) PROVE CountTypes'
    BY <1>1, <1>2, <1>3, <1>4, BoundsAssumption, <1>12, WriteStreamCases DEF CountTypes,
       JobInv, WriteRoom, InTypes, NextSession, NoJob, Begins, stream, incoming,
       line, remote, seen, counts
<1>13. CASE RequestStart
    BY <1>1, <1>2, <1>3, <1>4, BoundsAssumption, <1>13, StartCases DEF CountTypes,
       JobInv, WriteRoom, InTypes, NextSession, NoJob, Begins, line, remote
<1>14. CASE RoutePublished
    BY <1>1, <1>2, <1>3, <1>4, <1>14, BoundsAssumption DEF CountTypes, JobInv,
       WriteRoom, InTypes, NextSession, NoJob, RoutePublished, incoming, line,
       remote, seen, counts
<1>15. CASE RequestLegacy
    BY <1>1, <1>2, <1>3, <1>4, BoundsAssumption, <1>15, LegacyCases DEF CountTypes,
       JobInv, WriteRoom, InTypes, NextSession, NoJob, StopBegins, Begins,
       OnlyLeaves, incoming, line, remote, seen, counts
<1>16. CASE Leave
    BY <1>1, <1>2, <1>3, <1>4, <1>16, BoundsAssumption DEF CountTypes, JobInv,
       WriteRoom, InTypes, NextSession, NoJob, Leave, incoming, line, remote, seen,
       counts
<1>17. CASE SelectEnd
    BY <1>1, <1>2, <1>3, <1>4, <1>17, BoundsAssumption DEF CountTypes, JobInv,
       WriteRoom, InTypes, NextSession, NoJob, SelectEnd, Serving, incoming, remote,
       seen, counts
<1>18. CASE PeerAnswers
  <2>1. CASE AnswersOpen
    BY <1>1, <1>2, <1>3, <1>4, BoundsAssumption, <1>18, <2>1, AnswerCases DEF CountTypes,
       JobInv, WriteRoom, InTypes, NextSession, NoJob, AnswersOpen, Answers, stream,
       incoming, seen
  <2>2. CASE AnswersAmount
    BY <1>1, <1>2, <1>3, <1>4, BoundsAssumption, <1>18, <2>2, AnswerCases DEF CountTypes,
       JobInv, WriteRoom, InTypes, NextSession, NoJob, AnswersAmount, Answers,
       stream, incoming, seen
  <2>3. CASE AnswersRest
    BY <1>1, <1>2, <1>3, <1>4, BoundsAssumption, <1>18, <2>3, AnswerCases DEF CountTypes,
       JobInv, WriteRoom, InTypes, NextSession, NoJob, AnswersRest, Answers, stream,
       incoming, seen
  <2> QED BY <1>18, <2>1, <2>2, <2>3, AnswerCases
<1>19. CASE PeerQueues
    BY <1>1, <1>19, QueueCases, QueueTypes DEF CountTypes, stream, incoming, line, seen
<1>20. CASE ReplyStarts
    BY <1>1, <1>2, <1>3, <1>4, <1>20, BoundsAssumption DEF CountTypes, JobInv,
       WriteRoom, InTypes, NextSession, NoJob, ReplyStarts, stream, incoming, remote,
       seen, counts
<1>21. CASE ReplyEnds
    BY <1>1, <1>2, <1>3, <1>4, <1>21, BoundsAssumption DEF CountTypes, JobInv,
       WriteRoom, InTypes, NextSession, NoJob, ReplyEnds, stream, incoming, remote,
       seen, counts
<1>22. CASE Reset
    BY <1>1, <1>2, <1>3, <1>4, <1>22, BoundsAssumption DEF CountTypes, JobInv,
       WriteRoom, InTypes, NextSession, NoJob, Reset, Quiet, Closed
<1> QED BY <1>5, <1>6, <1>7, <1>8, <1>9, <1>10, <1>11, <1>12, <1>13, <1>14, <1>15,
   <1>16, <1>17, <1>18, <1>19, <1>20, <1>21, <1>22 DEF Next

\* What is sent and what waits keep their types, and the buffer its size.
LEMMA OutTypesStep == IInv /\ [Next]_vars => OutTypes'
<1> SUFFICES ASSUME IInv, [Next]_vars PROVE OutTypes'
    OBVIOUS
<1>1. OutTypes
    BY DEF IInv
<1>2. WriteRoom
    BY DEF IInv
<1>3. CountTypes
    BY DEF IInv
<1>4. CASE UNCHANGED vars
    BY <1>1, <1>2, <1>3, <1>4, BoundsAssumption DEF OutTypes, WriteRoom, CountTypes,
       vars, stream, incoming, line, remote, seen, counts
<1>5. CASE TickOnly
    BY <1>1, <1>2, <1>3, BoundsAssumption, <1>5, TickCases DEF OutTypes, WriteRoom,
       CountTypes, Discards, TakesSome, Takes, Interrupts, stream, remote, counts
<1>6. CASE TickServes
    BY <1>1, <1>2, <1>3, BoundsAssumption, <1>6, ServesCases DEF OutTypes, WriteRoom,
       CountTypes, Discards, TakesSome, Takes, TakesNone, incoming, NoJob, Begins,
       Interrupts, stream, remote, counts
<1>7. CASE JobStep
  <2>1. CASE Flush
      BY <1>1, <1>2, <1>3, BoundsAssumption, <2>1, FlushCases DEF OutTypes, WriteRoom,
         CountTypes, FlushSends, Moves, FlushEnds, StopDrains, ServicePolls, Runs,
         stream, incoming, line, remote, seen, counts
  <2>2. CASE Reserve
      BY <1>1, <1>2, <1>3, BoundsAssumption, <2>2, ReserveCases DEF OutTypes, WriteRoom,
         CountTypes, AsksSession, Asks, Moves, Continue, AsksOffer, AsksPoll,
         AsksStop, incoming, remote, seen, counts
  <2>3. CASE Refused
      BY <1>1, <1>2, <1>3, BoundsAssumption, <2>3, RefusedCases DEF OutTypes, WriteRoom,
         CountTypes, ServiceFails, Runs, Moves, StartFails, NoJob, OtherFails,
         incoming, remote, seen, counts
  <2>4. CASE Negotiated
      BY <1>1, <1>2, <1>3, BoundsAssumption, <2>4, NegotiatedCases DEF OutTypes,
         WriteRoom, CountTypes, Opens, Runs, Asks, Moves, Continue, Offers, incoming,
         remote, seen, counts
  <2>5. CASE Opened
    BY <1>1, <1>2, <1>3, <2>5, BoundsAssumption DEF OutTypes, WriteRoom, CountTypes,
       Opened, Answered, NoJob, Quiet, incoming, remote, seen, counts, At
  <2>6. CASE Offered
    BY <1>1, <1>2, <1>3, <2>6, BoundsAssumption DEF OutTypes, WriteRoom, CountTypes,
       Offered, Answered, Quiet, Goto, incoming, remote, seen, counts, At
  <2>7. CASE Polled
      BY <1>1, <1>2, <1>3, BoundsAssumption, <2>7, PolledCases DEF OutTypes, WriteRoom,
         CountTypes, PollFetches, Fetches, Continue, PollFails, ServiceFails,
         StartFails, OtherFails, Runs, Moves, NoJob, PollEnds, Quiet, remote, seen,
         counts
  <2>8. CASE BlockDone
    <3>1. CASE BlockGoes
      BY <1>1, <1>2, <1>3, BoundsAssumption, <2>8, <3>1, BlockCases DEF OutTypes,
         WriteRoom, CountTypes, BlockGoes, incoming, WriteEnds, WriteGoesOn,
         StopDrains, ServicePolls, Runs, NoJob, Moves, line, seen
    <3>2. CASE BlockComes
      BY <1>1, <1>2, <1>3, BoundsAssumption, <2>8, <3>2, BlockCases DEF OutTypes,
         WriteRoom, CountTypes, BlockComes, Runs, line, seen
    <3> QED BY <2>8, <3>1, <3>2, BlockCases
  <2>9. CASE Copy
      BY <1>1, <2>9, CopyCases, CopyTypes DEF OutTypes, CopyFills, CopyEnds, NoJob,
         Runs, incoming, line, remote, seen
  <2>10. CASE StopAnswered
    <3>1. CASE StreamEnds
      BY <1>1, <1>2, <1>3, BoundsAssumption, <2>10, <3>1, StopCases DEF OutTypes,
         WriteRoom, CountTypes, StreamEnds, NoJob, Runs, Quiet, incoming, remote,
         seen, counts
    <3>2. CASE StopFetches
      BY <1>1, <1>2, <1>3, BoundsAssumption, <2>10, <3>2, StopCases DEF OutTypes,
         WriteRoom, CountTypes, StopFetches, Fetches, Continue, Runs, Quiet,
         incoming, remote, seen, counts
    <3>3. CASE StopFails
      BY <1>1, <1>2, <1>3, BoundsAssumption, <2>10, <3>3, StopCases DEF OutTypes,
         WriteRoom, CountTypes, StopFails, NoJob, Runs, Quiet, incoming, remote,
         seen, counts
    <3> QED BY <2>10, <3>1, <3>2, <3>3, StopCases
  <2>11. CASE ServiceEnd
      BY <1>1, <1>2, <1>3, BoundsAssumption, <2>11, EndCases DEF OutTypes, WriteRoom,
         CountTypes, Discards, TakesSome, Takes, NoJob, Interrupts, stream, remote,
         counts
  <2> QED BY <1>7, <2>1, <2>2, <2>3, <2>4, <2>5, <2>6, <2>7, <2>8, <2>9, <2>10, <2>11
     DEF JobStep
<1>8. CASE Trouble
  <2>1. CASE ExchangeFails
      BY <1>1, <1>2, <1>3, BoundsAssumption, <2>1, ExchangeCases DEF OutTypes,
         WriteRoom, CountTypes, ServiceFails, Runs, Moves, StartFails, NoJob,
         OtherFails, Requests, Quiet, incoming, remote, seen
  <2>2. CASE BlockFails
      BY <1>1, <1>2, <1>3, BoundsAssumption, <2>2, BlockFailCases DEF OutTypes,
         WriteRoom, CountTypes, ServiceFails, Runs, Moves, StartFails, NoJob,
         OtherFails, incoming, remote
  <2>3. CASE DrainDeadline
      BY <1>1, <1>2, <1>3, BoundsAssumption, <2>3, DrainCases DEF OutTypes, WriteRoom,
         CountTypes, ServiceFails, Runs, Moves, StartFails, NoJob, OtherFails,
         incoming, remote, seen
  <2>4. CASE Fault
    BY <1>1, <1>2, <1>3, <2>4, BoundsAssumption DEF OutTypes, WriteRoom, CountTypes,
       Fault, stream, incoming, remote, seen
  <2>5. CASE SelectBegin
    BY <1>1, <1>2, <1>3, <2>5, BoundsAssumption DEF OutTypes, WriteRoom, CountTypes,
       SelectBegin, Idle, incoming, line, remote, seen, NoJob
  <2> QED BY <1>8, <2>1, <2>2, <2>3, <2>4, <2>5 DEF Trouble
<1>9. CASE WriteByte
  <2>1. CASE Appends
    BY SMTT(30), <1>1, <1>2, <1>3, BoundsAssumption, <1>9, <2>1, WriteByteCases DEF OutTypes,
       WriteRoom, CountTypes, Appends, NoJob, incoming, line, remote, seen
  <2>2. CASE Bounds
    BY <1>1, <1>2, <1>3, BoundsAssumption, <1>9, <2>2, WriteByteCases DEF OutTypes,
       WriteRoom, CountTypes, Bounds, NoJob, incoming, line, remote, seen
  <2> QED BY <1>9, <2>1, <2>2, WriteByteCases
<1>10. CASE BoundaryByte
    BY <1>1, <1>2, <1>3, BoundsAssumption, <1>10, BoundaryCases DEF OutTypes, WriteRoom,
       CountTypes, Writes, Begins, NoJob, Loses, incoming, line, remote, seen, counts
<1>11. ASSUME NEW n \in 1 .. MaxOut, WriteStream(n) PROVE OutTypes'
    BY <1>1, <1>2, <1>3, BoundsAssumption, <1>11, WriteStreamCases DEF OutTypes,
       WriteRoom, CountTypes, NoJob, Begins, stream, incoming, line, remote, seen,
       counts
<1>12. CASE RequestStart
    BY <1>1, <1>2, <1>3, BoundsAssumption, <1>12, StartCases DEF OutTypes, WriteRoom,
       CountTypes, NoJob, Begins, line, remote
<1>13. CASE RoutePublished
    BY <1>1, <1>2, <1>3, <1>13, BoundsAssumption DEF OutTypes, WriteRoom, CountTypes,
       RoutePublished, incoming, line, remote, seen, counts
<1>14. CASE RequestLegacy
    BY <1>1, <1>2, <1>3, BoundsAssumption, <1>14, LegacyCases DEF OutTypes, WriteRoom,
       CountTypes, StopBegins, Begins, OnlyLeaves, NoJob, incoming, line, remote,
       seen, counts
<1>15. CASE Leave
    BY <1>1, <1>2, <1>3, <1>15, BoundsAssumption DEF OutTypes, WriteRoom, CountTypes,
       Leave, incoming, line, remote, seen, counts
<1>16. CASE SelectEnd
    BY <1>1, <1>2, <1>3, <1>16, BoundsAssumption DEF OutTypes, WriteRoom, CountTypes,
       SelectEnd, Serving, incoming, remote, seen, counts
<1>17. CASE PeerAnswers
    BY <1>1, <1>2, <1>3, BoundsAssumption, <1>17, AnswerCases DEF OutTypes, WriteRoom,
       CountTypes, AnswersOpen, Answers, AnswersAmount, AnswersRest, stream,
       incoming, seen
<1>18. CASE PeerQueues
    BY <1>1, <1>2, <1>3, BoundsAssumption, <1>18, QueueCases DEF OutTypes, WriteRoom,
       CountTypes, stream, incoming, line, seen
<1>19. CASE ReplyStarts
    BY <1>1, <1>2, <1>3, <1>19, BoundsAssumption DEF OutTypes, WriteRoom, CountTypes,
       ReplyStarts, stream, incoming, remote, seen, counts
<1>20. CASE ReplyEnds
    BY <1>1, <1>2, <1>3, <1>20, BoundsAssumption DEF OutTypes, WriteRoom, CountTypes,
       ReplyEnds, stream, incoming, remote, seen, counts
<1>21. CASE Reset
    BY <1>1, <1>2, <1>3, <1>21, BoundsAssumption DEF OutTypes, WriteRoom, CountTypes,
       Reset, NoJob, Quiet, Closed
<1> QED BY <1>4, <1>5, <1>6, <1>7, <1>8, <1>9, <1>10, <1>11, <1>12, <1>13, <1>14,
   <1>15, <1>16, <1>17, <1>18, <1>19, <1>20, <1>21 DEF Next

\* What is returned keeps its type, and the buffer its size.
LEMMA InTypesStep == IInv /\ [Next]_vars => InTypes'
<1> SUFFICES ASSUME IInv, [Next]_vars PROVE InTypes'
    OBVIOUS
<1>1. InTypes
    BY DEF IInv
<1>2. FetchRoom
    BY DEF IInv
<1>3. CountTypes
    BY DEF IInv
<1>4. JobType
    BY DEF IInv
<1>5. CASE UNCHANGED vars
    BY <1>1, <1>2, <1>3, <1>4, <1>5, BoundsAssumption DEF InTypes, FetchRoom,
       CountTypes, JobType, vars, stream, incoming, line, remote, seen, counts
<1>6. CASE TickOnly
  <2>1. CASE Discards
    BY <1>1, <1>2, <1>3, <1>4, BoundsAssumption, <1>6, <2>1, TickCases DEF InTypes,
       FetchRoom, CountTypes, JobType, Discards, Interrupts, stream, remote, counts
  <2>2. CASE TakesSome
    BY <1>1, <1>3, BoundsAssumption, <1>6, <2>2, TickCases, TakingTypes DEF InTypes,
       Interrupts, stream, remote, counts
  <2> QED BY <1>6, <2>1, <2>2, TickCases
<1>7. CASE TickServes
  <2>1. CASE Discards
    BY <1>1, <1>2, <1>3, <1>4, BoundsAssumption, <1>7, <2>1, ServesCases DEF InTypes,
       FetchRoom, CountTypes, JobType, Discards, NoJob, Begins, Interrupts, stream,
       remote, counts
  <2>2. CASE TakesSome
    BY <1>1, <1>3, BoundsAssumption, <1>7, <2>2, ServesCases, TakingTypes DEF InTypes,
       NoJob, Begins, Interrupts, stream, remote, counts
  <2>3. CASE TakesNone
    BY <1>1, <1>2, <1>3, <1>4, BoundsAssumption, <1>7, <2>3, ServesCases DEF InTypes,
       FetchRoom, CountTypes, JobType, TakesNone, incoming, NoJob, Begins,
       Interrupts, stream, remote, counts
  <2> QED BY <1>7, <2>1, <2>2, <2>3, ServesCases
<1>8. CASE JobStep
  <2>1. CASE Flush
      BY <1>1, <1>2, <1>3, <1>4, BoundsAssumption, <2>1, FlushCases DEF InTypes,
         FetchRoom, CountTypes, JobType, FlushSends, Moves, FlushEnds, StopDrains,
         ServicePolls, Runs, stream, incoming, line, remote, seen, counts
  <2>2. CASE Reserve
      BY <1>1, <1>2, <1>3, <1>4, BoundsAssumption, <2>2, ReserveCases DEF InTypes,
         FetchRoom, CountTypes, JobType, AsksSession, Asks, Moves, Continue,
         AsksOffer, AsksPoll, AsksStop, incoming, remote, seen, counts
  <2>3. CASE Refused
      BY <1>1, <1>2, <1>3, <1>4, BoundsAssumption, <2>3, RefusedCases DEF InTypes,
         FetchRoom, CountTypes, JobType, ServiceFails, Runs, Moves, StartFails,
         NoJob, OtherFails, incoming, remote, seen, counts
  <2>4. CASE Negotiated
      BY <1>1, <1>2, <1>3, <1>4, BoundsAssumption, <2>4, NegotiatedCases DEF InTypes,
         FetchRoom, CountTypes, JobType, Opens, Runs, Asks, Moves, Continue, Offers,
         incoming, remote, seen, counts
  <2>5. CASE Opened
    BY <1>1, <1>2, <1>3, <1>4, <2>5, BoundsAssumption DEF InTypes, FetchRoom,
       CountTypes, JobType, Opened, Answered, NoJob, Quiet, incoming, remote, seen,
       counts, At
  <2>6. CASE Offered
    BY <1>1, <1>2, <1>3, <1>4, <2>6, BoundsAssumption DEF InTypes, FetchRoom,
       CountTypes, JobType, Offered, Answered, Quiet, Goto, incoming, remote, seen,
       counts, At
  <2>7. CASE Polled
      BY <1>1, <1>2, <1>3, <1>4, BoundsAssumption, <2>7, PolledCases DEF InTypes,
         FetchRoom, CountTypes, JobType, PollFetches, Fetches, Continue, PollFails,
         ServiceFails, StartFails, OtherFails, Runs, Moves, NoJob, PollEnds, Quiet,
         remote, seen, counts
  <2>8. CASE BlockDone
    <3>1. CASE BlockGoes
      BY <1>1, <1>2, <1>3, <1>4, BoundsAssumption, <2>8, <3>1, BlockCases DEF InTypes,
         FetchRoom, CountTypes, JobType, BlockGoes, incoming, WriteEnds, WriteGoesOn,
         StopDrains, ServicePolls, Runs, NoJob, Moves, line, seen
    <3>2. CASE BlockComes
      BY <1>1, <1>2, <1>3, <1>4, BoundsAssumption, <2>8, <3>2, BlockCases, ComesTypes
         DEF InTypes, Runs, line, seen
    <3> QED BY <2>8, <3>1, <3>2, BlockCases
  <2>9. CASE Copy
      BY <1>1, <1>2, <1>3, <1>4, BoundsAssumption, <2>9, CopyCases DEF InTypes,
         FetchRoom, CountTypes, JobType, CopyFills, CopyEnds, NoJob, Runs, incoming,
         line, remote, seen
  <2>10. CASE StopAnswered
      BY <1>1, <1>2, <1>3, <1>4, BoundsAssumption, <2>10, StopCases DEF InTypes,
         FetchRoom, CountTypes, JobType, StreamEnds, NoJob, StopFetches, Fetches,
         Continue, StopFails, Runs, Quiet, incoming, remote, seen, counts
  <2>11. CASE ServiceEnd
    <3>1. CASE Discards
      BY <1>1, <1>2, <1>3, <1>4, BoundsAssumption, <2>11, <3>1, EndCases DEF InTypes,
         FetchRoom, CountTypes, JobType, Discards, NoJob, Interrupts, stream, remote,
         counts
    <3>2. CASE TakesSome
      BY <1>1, <1>3, BoundsAssumption, <2>11, <3>2, EndCases, TakingTypes DEF InTypes,
         NoJob, Interrupts, stream, remote, counts
    <3> QED BY <2>11, <3>1, <3>2, EndCases
  <2> QED BY <1>8, <2>1, <2>2, <2>3, <2>4, <2>5, <2>6, <2>7, <2>8, <2>9, <2>10, <2>11
     DEF JobStep
<1>9. CASE Trouble
  <2>1. CASE ExchangeFails
      BY <1>1, <1>2, <1>3, <1>4, BoundsAssumption, <2>1, ExchangeCases DEF InTypes,
         FetchRoom, CountTypes, JobType, ServiceFails, Runs, Moves, StartFails,
         NoJob, OtherFails, Requests, Quiet, incoming, remote, seen
  <2>2. CASE BlockFails
      BY <1>1, <1>2, <1>3, <1>4, BoundsAssumption, <2>2, BlockFailCases DEF InTypes,
         FetchRoom, CountTypes, JobType, ServiceFails, Runs, Moves, StartFails,
         NoJob, OtherFails, incoming, remote
  <2>3. CASE DrainDeadline
      BY <1>1, <1>2, <1>3, <1>4, BoundsAssumption, <2>3, DrainCases DEF InTypes,
         FetchRoom, CountTypes, JobType, ServiceFails, Runs, Moves, StartFails,
         NoJob, OtherFails, incoming, remote, seen
  <2>4. CASE Fault
    BY <1>1, <1>2, <1>3, <1>4, <2>4, BoundsAssumption DEF InTypes, FetchRoom,
       CountTypes, JobType, Fault, stream, incoming, remote, seen
  <2>5. CASE SelectBegin
    BY <1>1, <1>2, <1>3, <1>4, <2>5, BoundsAssumption DEF InTypes, FetchRoom,
       CountTypes, JobType, SelectBegin, Idle, incoming, line, remote, seen, NoJob
  <2> QED BY <1>9, <2>1, <2>2, <2>3, <2>4, <2>5 DEF Trouble
<1>10. CASE WriteByte
    BY <1>1, <1>2, <1>3, <1>4, BoundsAssumption, <1>10, WriteByteCases DEF InTypes,
       FetchRoom, CountTypes, JobType, Appends, Bounds, NoJob, incoming, line,
       remote, seen
<1>11. CASE BoundaryByte
    BY <1>1, <1>2, <1>3, <1>4, BoundsAssumption, <1>11, BoundaryCases DEF InTypes,
       FetchRoom, CountTypes, JobType, Writes, Begins, NoJob, Loses, incoming, line,
       remote, seen, counts
<1>12. ASSUME NEW n \in 1 .. MaxOut, WriteStream(n) PROVE InTypes'
    BY <1>1, <1>2, <1>3, <1>4, BoundsAssumption, <1>12, WriteStreamCases DEF InTypes,
       FetchRoom, CountTypes, JobType, NoJob, Begins, stream, incoming, line, remote,
       seen, counts
<1>13. CASE RequestStart
    BY <1>1, <1>2, <1>3, <1>4, BoundsAssumption, <1>13, StartCases DEF InTypes,
       FetchRoom, CountTypes, JobType, NoJob, Begins, line, remote
<1>14. CASE RoutePublished
    BY <1>1, <1>2, <1>3, <1>4, <1>14, BoundsAssumption DEF InTypes, FetchRoom,
       CountTypes, JobType, RoutePublished, incoming, line, remote, seen, counts
<1>15. CASE RequestLegacy
    BY <1>1, <1>2, <1>3, <1>4, BoundsAssumption, <1>15, LegacyCases DEF InTypes,
       FetchRoom, CountTypes, JobType, StopBegins, Begins, OnlyLeaves, NoJob,
       incoming, line, remote, seen, counts
<1>16. CASE Leave
    BY <1>1, <1>2, <1>3, <1>4, <1>16, BoundsAssumption DEF InTypes, FetchRoom,
       CountTypes, JobType, Leave, incoming, line, remote, seen, counts
<1>17. CASE SelectEnd
    BY <1>1, <1>2, <1>3, <1>4, <1>17, BoundsAssumption DEF InTypes, FetchRoom,
       CountTypes, JobType, SelectEnd, Serving, incoming, remote, seen, counts
<1>18. CASE PeerAnswers
  <2>1. CASE AnswersOpen
    BY <1>1, <1>2, <1>3, <1>4, BoundsAssumption, <1>18, <2>1, AnswerCases DEF InTypes,
       FetchRoom, CountTypes, JobType, AnswersOpen, Answers, stream, incoming, seen
  <2>2. CASE AnswersAmount
    BY <1>1, <1>2, <1>3, <1>4, BoundsAssumption, <1>18, <2>2, AnswerCases DEF InTypes,
       FetchRoom, CountTypes, JobType, AnswersAmount, Answers, stream, incoming, seen
  <2>3. CASE AnswersRest
    BY <1>1, <1>2, <1>3, <1>4, BoundsAssumption, <1>18, <2>3, AnswerCases DEF InTypes,
       FetchRoom, CountTypes, JobType, AnswersRest, Answers, stream, incoming, seen
  <2> QED BY <1>18, <2>1, <2>2, <2>3, AnswerCases
<1>19. CASE PeerQueues
    BY <1>1, <1>19, QueueCases, QueueTypes DEF InTypes, stream, incoming, line, seen
<1>20. CASE ReplyStarts
    BY <1>1, <1>2, <1>3, <1>4, <1>20, BoundsAssumption DEF InTypes, FetchRoom,
       CountTypes, JobType, ReplyStarts, stream, incoming, remote, seen, counts
<1>21. CASE ReplyEnds
    BY <1>1, <1>2, <1>3, <1>4, <1>21, BoundsAssumption DEF InTypes, FetchRoom,
       CountTypes, JobType, ReplyEnds, stream, incoming, remote, seen, counts
<1>22. CASE Reset
    BY <1>1, <1>2, <1>3, <1>4, <1>22, BoundsAssumption DEF InTypes, FetchRoom,
       CountTypes, JobType, Reset, NoJob, Quiet, Closed
<1> QED BY <1>5, <1>6, <1>7, <1>8, <1>9, <1>10, <1>11, <1>12, <1>13, <1>14, <1>15,
   <1>16, <1>17, <1>18, <1>19, <1>20, <1>21, <1>22 DEF Next

\* A job stays within its steps.
LEMMA JobInvStep == IInv /\ [Next]_vars => JobInv'
<1> SUFFICES ASSUME IInv, [Next]_vars PROVE JobInv'
    OBVIOUS
<1>1. JobInv
    BY DEF IInv
<1>2. JobType
    BY DEF IInv
<1>3. FlagTypes
    BY DEF IInv
<1>4. CountTypes
    BY DEF IInv
<1>5. CASE UNCHANGED vars
    BY <1>1, <1>2, <1>3, <1>4, <1>5, BoundsAssumption DEF JobInv, JobType, FlagTypes,
       CountTypes, Runs, NoJob, vars, stream, incoming, line, remote, seen, counts
<1>6. CASE TickOnly
    BY <1>1, <1>2, <1>3, <1>4, BoundsAssumption, <1>6, TickCases DEF JobInv, JobType,
       FlagTypes, CountTypes, Runs, NoJob, stream, remote, counts
<1>7. CASE TickServes
    BY <1>1, <1>2, <1>3, <1>4, BoundsAssumption, <1>7, ServesCases DEF JobInv, JobType,
       FlagTypes, CountTypes, Runs, NoJob, Begins, stream, remote, counts
<1>8. CASE JobStep
  <2>1. CASE Flush
    <3>1. CASE FlushSends
      BY <1>1, <1>2, <1>3, <1>4, BoundsAssumption, <2>1, <3>1, FlushCases DEF JobInv,
         JobType, FlagTypes, CountTypes, Runs, NoJob, FlushSends, Moves, stream,
         incoming, line, remote, seen, counts
    <3>2. CASE FlushEnds
      BY <1>1, <1>2, <1>3, <1>4, BoundsAssumption, <2>1, <3>2, FlushCases DEF JobInv,
         JobType, FlagTypes, CountTypes, Runs, NoJob, FlushEnds, StopDrains,
         ServicePolls, Moves, stream, incoming, line, remote, seen, counts
    <3> QED BY <2>1, <3>1, <3>2, FlushCases
  <2>2. CASE Reserve
      BY <1>1, <1>2, <1>3, <1>4, BoundsAssumption, <2>2, ReserveCases DEF JobInv,
         JobType, FlagTypes, CountTypes, Runs, NoJob, AsksSession, Asks, Moves,
         Continue, AsksOffer, AsksPoll, AsksStop, incoming, remote, seen, counts
  <2>3. CASE Refused
    <3>1. CASE ServiceFails
      BY <1>1, <1>2, <1>3, <1>4, BoundsAssumption, <2>3, <3>1, RefusedCases DEF JobInv,
         JobType, FlagTypes, CountTypes, Runs, NoJob, ServiceFails, Moves, incoming,
         remote, seen, counts
    <3>2. CASE StartFails
      BY <1>1, <1>2, <1>3, <1>4, BoundsAssumption, <2>3, <3>2, RefusedCases DEF JobInv,
         JobType, FlagTypes, CountTypes, Runs, NoJob, StartFails, incoming, remote,
         seen, counts
    <3>3. CASE OtherFails
      BY <1>1, <1>2, <1>3, <1>4, BoundsAssumption, <2>3, <3>3, RefusedCases DEF JobInv,
         JobType, FlagTypes, CountTypes, Runs, NoJob, OtherFails, incoming, remote,
         seen, counts
    <3> QED BY <2>3, <3>1, <3>2, <3>3, RefusedCases
  <2>4. CASE Negotiated
      BY <1>1, <1>2, <1>3, <1>4, BoundsAssumption, <2>4, NegotiatedCases DEF JobInv,
         JobType, FlagTypes, CountTypes, Runs, NoJob, Opens, Asks, Moves, Continue,
         Offers, incoming, remote, seen, counts
  <2>5. CASE Opened
    BY <1>1, <1>2, <1>3, <1>4, <2>5, BoundsAssumption DEF JobInv, JobType, FlagTypes,
       CountTypes, Runs, NoJob, Opened, Answered, Quiet, incoming, remote, seen,
       counts, At
  <2>6. CASE Offered
    BY <1>1, <1>2, <1>3, <1>4, <2>6, BoundsAssumption DEF JobInv, JobType, FlagTypes,
       CountTypes, Runs, NoJob, Offered, Answered, Quiet, Goto, incoming, remote,
       seen, counts, At
  <2>7. CASE Polled
    <3>1. CASE PollFetches
      BY SMTT(30), <1>1, <1>2, <1>3, <1>4, BoundsAssumption, <2>7, <3>1, PolledCases DEF JobInv,
         JobType, FlagTypes, CountTypes, Runs, NoJob, PollFetches, Fetches, Continue,
         Quiet, remote, seen, counts
    <3>2. CASE PollFails
      <4>1. CASE ServiceFails
        BY <1>1, <1>2, <1>3, <1>4, BoundsAssumption, <2>7, <3>2, <4>1, PolledCases DEF
           PollFails, JobInv, JobType, FlagTypes, CountTypes, Runs, NoJob,
           ServiceFails, Moves, Quiet, remote, seen, counts
      <4>2. CASE StartFails
        BY <1>1, <1>2, <1>3, <1>4, BoundsAssumption, <2>7, <3>2, <4>2, PolledCases DEF
           PollFails, JobInv, JobType, FlagTypes, CountTypes, Runs, NoJob,
           StartFails, Quiet, remote, seen, counts
      <4>3. CASE OtherFails
        BY <1>1, <1>2, <1>3, <1>4, BoundsAssumption, <2>7, <3>2, <4>3, PolledCases DEF
           PollFails, JobInv, JobType, FlagTypes, CountTypes, Runs, NoJob,
           OtherFails, Quiet, remote, seen, counts
      <4> QED BY <3>2, <4>1, <4>2, <4>3 DEF PollFails
    <3>3. CASE PollEnds
      BY <1>1, <1>2, <1>3, <1>4, BoundsAssumption, <2>7, <3>3, PolledCases DEF JobInv,
         JobType, FlagTypes, CountTypes, Runs, NoJob, PollEnds, Moves, Continue,
         Quiet, remote, seen, counts
    <3> QED BY <2>7, <3>1, <3>2, <3>3, PolledCases
  <2>8. CASE BlockDone
    <3>1. CASE BlockGoes
      BY <1>1, <1>2, <1>3, <1>4, BoundsAssumption, <2>8, <3>1, BlockCases DEF JobInv,
         JobType, FlagTypes, CountTypes, Runs, NoJob, BlockGoes, incoming, WriteEnds,
         WriteGoesOn, StopDrains, ServicePolls, Moves, line, seen
    <3>2. CASE BlockComes
      <4>1. /\ job.who \in {"stop", "service"} /\ owned' = owned /\ fg' = fg /\ (job # NoJob => owned \/ job.at = "end")
            /\ (job.who = "stop" => fg = "idle") /\ job.at = "block" /\ job # NoJob
          BY <1>1, <1>2, <2>8, <3>2, BlockCases DEF JobInv, JobType, Whos, Runs, BlockComes, NoJob
      <4>2. /\ job'.who = job.who /\ job'.n = 0 /\ job'.at = IF job.who = "service" THEN "end" ELSE "drain"
          BY <3>2 DEF BlockComes, Runs
      <4>3. job' # NoJob
          BY <4>1, <4>2 DEF NoJob
      <4> QED BY <4>1, <4>2, <4>3 DEF JobInv, Runs
    <3> QED BY <2>8, <3>1, <3>2, BlockCases
  <2>9. CASE Copy
    <3>1. CASE CopyFills
      BY <1>1, <1>2, <2>9, <3>1, CopyCases DEF JobInv, JobType, FlagTypes, CountTypes,
         Runs, NoJob, CopyFills, incoming, line, remote, seen
    <3>2. CASE CopyEnds
      BY <1>1, <1>2, <1>3, <1>4, BoundsAssumption, <2>9, <3>2, CopyCases DEF JobInv,
         JobType, FlagTypes, CountTypes, Runs, NoJob, CopyEnds, incoming, line,
         remote, seen
    <3> QED BY <2>9, <3>1, <3>2, CopyCases
  <2>10. CASE StopAnswered
    <3>1. CASE StreamEnds
      BY <1>1, <1>2, <1>3, <1>4, BoundsAssumption, <2>10, <3>1, StopCases DEF JobInv,
         JobType, FlagTypes, CountTypes, Runs, NoJob, StreamEnds, Quiet, incoming,
         remote, seen, counts
    <3>2. CASE StopFetches
      BY SMTT(30), <1>1, <1>2, <1>3, <1>4, BoundsAssumption, <2>10, <3>2, StopCases DEF JobInv,
         JobType, FlagTypes, CountTypes, Runs, NoJob, StopFetches, Fetches, Continue,
         Quiet, incoming, remote, seen, counts
    <3>3. CASE StopFails
      BY <1>1, <1>2, <1>3, <1>4, BoundsAssumption, <2>10, <3>3, StopCases DEF JobInv,
         JobType, FlagTypes, CountTypes, Runs, NoJob, StopFails, Quiet, incoming,
         remote, seen, counts
    <3> QED BY <2>10, <3>1, <3>2, <3>3, StopCases
  <2>11. CASE ServiceEnd
      BY <1>1, <1>2, <1>3, <1>4, BoundsAssumption, <2>11, EndCases DEF JobInv, JobType,
         FlagTypes, CountTypes, Runs, NoJob, stream, remote, counts
  <2> QED BY <1>8, <2>1, <2>2, <2>3, <2>4, <2>5, <2>6, <2>7, <2>8, <2>9, <2>10, <2>11
     DEF JobStep
<1>9. CASE Trouble
  <2>1. CASE ExchangeFails
    <3>1. CASE ServiceFails
      BY <1>1, <1>2, <1>3, <1>4, BoundsAssumption, <2>1, <3>1, ExchangeCases DEF JobInv,
         JobType, FlagTypes, CountTypes, Runs, NoJob, ServiceFails, Moves, Requests,
         Quiet, incoming, remote, seen
    <3>2. CASE StartFails
      BY <1>1, <1>2, <1>3, <1>4, BoundsAssumption, <2>1, <3>2, ExchangeCases DEF JobInv,
         JobType, FlagTypes, CountTypes, Runs, NoJob, StartFails, Requests, Quiet,
         incoming, remote, seen
    <3>3. CASE OtherFails
      BY <1>1, <1>2, <1>3, <1>4, BoundsAssumption, <2>1, <3>3, ExchangeCases DEF JobInv,
         JobType, FlagTypes, CountTypes, Runs, NoJob, OtherFails, Requests, Quiet,
         incoming, remote, seen
    <3> QED BY <2>1, <3>1, <3>2, <3>3, ExchangeCases
  <2>2. CASE BlockFails
    <3>1. CASE ServiceFails
      BY <1>1, <1>2, <1>3, <1>4, BoundsAssumption, <2>2, <3>1, BlockFailCases DEF
         JobInv, JobType, FlagTypes, CountTypes, Runs, NoJob, ServiceFails, Moves,
         incoming, remote
    <3>2. CASE StartFails
      BY <1>1, <1>2, <1>3, <1>4, BoundsAssumption, <2>2, <3>2, BlockFailCases DEF
         JobInv, JobType, FlagTypes, CountTypes, Runs, NoJob, StartFails, incoming,
         remote
    <3>3. CASE OtherFails
      BY <1>1, <1>2, <1>3, <1>4, BoundsAssumption, <2>2, <3>3, BlockFailCases DEF
         JobInv, JobType, FlagTypes, CountTypes, Runs, NoJob, OtherFails, incoming,
         remote
    <3> QED BY <2>2, <3>1, <3>2, <3>3, BlockFailCases
  <2>3. CASE DrainDeadline
    <3>1. CASE ServiceFails
      BY <1>1, <1>2, <1>3, <1>4, BoundsAssumption, <2>3, <3>1, DrainCases DEF JobInv,
         JobType, FlagTypes, CountTypes, Runs, NoJob, ServiceFails, Moves, incoming,
         remote, seen
    <3>2. CASE StartFails
      BY <1>1, <1>2, <1>3, <1>4, BoundsAssumption, <2>3, <3>2, DrainCases DEF JobInv,
         JobType, FlagTypes, CountTypes, Runs, NoJob, StartFails, incoming, remote,
         seen
    <3>3. CASE OtherFails
      BY <1>1, <1>2, <1>3, <1>4, BoundsAssumption, <2>3, <3>3, DrainCases DEF JobInv,
         JobType, FlagTypes, CountTypes, Runs, NoJob, OtherFails, incoming, remote,
         seen
    <3> QED BY <2>3, <3>1, <3>2, <3>3, DrainCases
  <2>4. CASE Fault
    BY <1>1, <1>2, <1>3, <1>4, <2>4, BoundsAssumption DEF JobInv, JobType, FlagTypes,
       CountTypes, Runs, NoJob, Fault, stream, incoming, remote, seen
  <2>5. CASE SelectBegin
    BY <1>1, <1>2, <1>3, <1>4, <2>5, BoundsAssumption DEF JobInv, JobType, FlagTypes,
       CountTypes, Runs, NoJob, SelectBegin, Idle, incoming, line, remote, seen
  <2> QED BY <1>9, <2>1, <2>2, <2>3, <2>4, <2>5 DEF Trouble
<1>10. CASE WriteByte
    BY <1>1, <1>2, <1>3, <1>4, BoundsAssumption, <1>10, WriteByteCases DEF JobInv,
       JobType, FlagTypes, CountTypes, Runs, NoJob, Appends, Bounds, incoming, line,
       remote, seen
<1>11. CASE BoundaryByte
    BY <1>1, <1>2, <1>3, <1>4, BoundsAssumption, <1>11, BoundaryCases DEF JobInv,
       JobType, FlagTypes, CountTypes, Runs, NoJob, Writes, Begins, Loses, incoming,
       line, remote, seen, counts
<1>12. ASSUME NEW n \in 1 .. MaxOut, WriteStream(n) PROVE JobInv'
    BY <1>1, <1>2, <1>3, <1>4, BoundsAssumption, <1>12, WriteStreamCases DEF JobInv,
       JobType, FlagTypes, CountTypes, Runs, NoJob, Begins, stream, incoming, line,
       remote, seen, counts
<1>13. CASE RequestStart
    BY <1>1, <1>2, <1>3, <1>4, BoundsAssumption, <1>13, StartCases DEF JobInv, JobType,
       FlagTypes, CountTypes, Runs, NoJob, Begins, line, remote
<1>14. CASE RoutePublished
    BY <1>1, <1>2, <1>3, <1>4, <1>14, BoundsAssumption DEF JobInv, JobType,
       FlagTypes, CountTypes, Runs, NoJob, RoutePublished, incoming, line, remote,
       seen, counts
<1>15. CASE RequestLegacy
    BY <1>1, <1>2, <1>3, <1>4, BoundsAssumption, <1>15, LegacyCases DEF JobInv, JobType,
       FlagTypes, CountTypes, Runs, NoJob, StopBegins, Begins, OnlyLeaves, incoming,
       line, remote, seen, counts
<1>16. CASE Leave
    BY <1>1, <1>2, <1>3, <1>4, <1>16, BoundsAssumption DEF JobInv, JobType,
       FlagTypes, CountTypes, Runs, NoJob, Leave, incoming, line, remote, seen,
       counts
<1>17. CASE SelectEnd
    BY <1>1, <1>2, <1>3, <1>4, <1>17, BoundsAssumption DEF JobInv, JobType,
       FlagTypes, CountTypes, Runs, NoJob, SelectEnd, Serving, incoming, remote,
       seen, counts
<1>18. CASE PeerAnswers
    BY <1>1, <1>2, <1>3, <1>4, BoundsAssumption, <1>18, AnswerCases DEF JobInv, JobType,
       FlagTypes, CountTypes, Runs, NoJob, AnswersOpen, Answers, AnswersAmount,
       AnswersRest, stream, incoming, seen
<1>19. CASE PeerQueues
    BY <1>1, <1>2, <1>3, <1>4, BoundsAssumption, <1>19, QueueCases DEF JobInv, JobType,
       FlagTypes, CountTypes, Runs, NoJob, stream, incoming, line, seen
<1>20. CASE ReplyStarts
    BY <1>1, <1>2, <1>3, <1>4, <1>20, BoundsAssumption DEF JobInv, JobType,
       FlagTypes, CountTypes, Runs, NoJob, ReplyStarts, stream, incoming, remote,
       seen, counts
<1>21. CASE ReplyEnds
    BY <1>1, <1>2, <1>3, <1>4, <1>21, BoundsAssumption DEF JobInv, JobType,
       FlagTypes, CountTypes, Runs, NoJob, ReplyEnds, stream, incoming, remote, seen,
       counts
<1>22. CASE Reset
    BY <1>1, <1>2, <1>3, <1>4, <1>22, BoundsAssumption DEF JobInv, JobType,
       FlagTypes, CountTypes, Runs, NoJob, Reset, Quiet, Closed
<1> QED BY <1>5, <1>6, <1>7, <1>8, <1>9, <1>10, <1>11, <1>12, <1>13, <1>14, <1>15,
   <1>16, <1>17, <1>18, <1>19, <1>20, <1>21, <1>22 DEF Next

\* An exchange belongs to the step that waits for it.
LEMMA WireInvStep == IInv /\ [Next]_vars => WireInv'
<1> SUFFICES ASSUME IInv, [Next]_vars PROVE WireInv'
    OBVIOUS
<1>1. WireInv
    BY DEF IInv
<1>2. WireType
    BY DEF IInv
<1>3. JobInv
    BY DEF IInv
<1>4. JobType
    BY DEF IInv
<1>5. CountTypes
    BY DEF IInv
<1>6. CASE UNCHANGED vars
    BY <1>1, <1>2, <1>3, <1>4, <1>5, <1>6, BoundsAssumption DEF WireInv, WireType,
       JobInv, JobType, CountTypes, Requests, Quiet, NoJob, Runs, vars, stream,
       incoming, line, remote, seen, counts
<1>7. CASE TickOnly
    BY <1>1, <1>2, <1>7, TickCases, InterruptFacts DEF WireInv, Requests, NoJob, stream,
       remote, counts
<1>8. CASE TickServes
    BY <1>1, <1>2, <1>8, ServesCases, InterruptFacts DEF WireInv, Requests, NoJob,
       Begins, stream, remote, counts
<1>9. CASE JobStep
  <2>1. CASE Flush
      BY <1>1, <1>2, <1>3, <1>4, <1>5, BoundsAssumption, <2>1, FlushCases DEF WireInv,
         WireType, JobInv, JobType, CountTypes, Requests, Quiet, NoJob, Runs,
         FlushSends, Moves, FlushEnds, StopDrains, ServicePolls, stream, incoming,
         line, remote, seen, counts
  <2>2. CASE Reserve
    <3>1. CASE AsksSession
      BY <1>1, <1>2, <1>3, <1>4, <1>5, BoundsAssumption, <2>2, <3>1, ReserveCases DEF
         WireInv, WireType, JobInv, JobType, CountTypes, Requests, Quiet, NoJob,
         Runs, AsksSession, Asks, Moves, Continue, incoming, remote, seen, counts
    <3>2. CASE AsksOffer
      BY <1>1, <1>2, <1>5, <2>2, <3>2, ReserveCases, BlockNumbers DEF WireInv, WireType,
         JobInv, JobType, CountTypes, Requests, Quiet, NoJob, Runs, AsksOffer, Asks,
         Moves, Continue, incoming, remote, seen, counts
    <3>3. CASE AsksPoll
      BY <1>1, <1>2, <1>3, <1>4, <1>5, BoundsAssumption, <2>2, <3>3, ReserveCases DEF
         WireInv, WireType, JobInv, JobType, CountTypes, Requests, Quiet, NoJob,
         Runs, AsksPoll, Asks, Moves, Continue, incoming, remote, seen, counts
    <3>4. CASE AsksStop
      BY <1>1, <1>2, <1>3, <1>4, <1>5, BoundsAssumption, <2>2, <3>4, ReserveCases DEF
         WireInv, WireType, JobInv, JobType, CountTypes, Requests, Quiet, NoJob,
         Runs, AsksStop, Asks, Moves, Continue, incoming, remote, seen, counts
    <3> QED BY <2>2, <3>1, <3>2, <3>3, <3>4, ReserveCases
  <2>3. CASE Refused
    <3>1. CASE ServiceFails
      BY <1>1, <1>2, <1>3, <1>4, <1>5, BoundsAssumption, <2>3, <3>1, RefusedCases DEF
         WireInv, WireType, JobInv, JobType, CountTypes, Requests, Quiet, NoJob,
         Runs, ServiceFails, Moves, incoming, remote, seen, counts
    <3>2. CASE StartFails
      BY <1>1, <1>2, <1>3, <1>4, <1>5, BoundsAssumption, <2>3, <3>2, RefusedCases DEF
         WireInv, WireType, JobInv, JobType, CountTypes, Requests, Quiet, NoJob,
         Runs, StartFails, incoming, remote, seen, counts
    <3>3. CASE OtherFails
      BY <1>1, <1>2, <1>3, <1>4, <1>5, BoundsAssumption, <2>3, <3>3, RefusedCases DEF
         WireInv, WireType, JobInv, JobType, CountTypes, Requests, Quiet, NoJob,
         Runs, OtherFails, incoming, remote, seen, counts
    <3> QED BY <2>3, <3>1, <3>2, <3>3, RefusedCases
  <2>4. CASE Negotiated
    <3>1. CASE Opens
      BY <1>1, <1>2, <1>3, <1>4, <1>5, BoundsAssumption, <2>4, <3>1, NegotiatedCases DEF
         WireInv, WireType, JobInv, JobType, CountTypes, Requests, Quiet, NoJob,
         Runs, Opens, Asks, Moves, Continue, incoming, remote, seen, counts
    <3>2. CASE Offers
      BY <1>1, <1>2, <1>5, <2>4, <3>2, NegotiatedCases, BlockNumbers DEF WireInv,
         WireType, JobInv, JobType, CountTypes, Requests, Quiet, NoJob, Runs, Offers,
         Asks, Moves, Continue, incoming, remote, seen, counts
    <3> QED BY <2>4, <3>1, <3>2, NegotiatedCases
  <2>5. CASE Opened
    BY <1>1, <1>2, <1>3, <1>4, <1>5, <2>5, BoundsAssumption DEF WireInv, WireType,
       JobInv, JobType, CountTypes, Requests, Quiet, NoJob, Runs, Opened, Answered,
       incoming, remote, seen, counts, At
  <2>6. CASE Offered
    BY <1>1, <1>2, <1>3, <1>4, <1>5, <2>6, BoundsAssumption DEF WireInv, WireType,
       JobInv, JobType, CountTypes, Requests, Quiet, NoJob, Runs, Offered, Answered,
       Goto, incoming, remote, seen, counts, At
  <2>7. CASE Polled
    <3>1. CASE PollFetches
      BY <1>1, <1>2, <1>3, <1>4, <1>5, BoundsAssumption, <2>7, <3>1, PolledCases DEF
         WireInv, WireType, JobInv, JobType, CountTypes, Requests, Quiet, NoJob,
         Runs, PollFetches, Fetches, Continue, remote, seen, counts
    <3>2. CASE PollFails
      <4>1. CASE ServiceFails
        BY <1>1, <1>2, <1>3, <1>4, <1>5, BoundsAssumption, <2>7, <3>2, <4>1, PolledCases
           DEF PollFails, WireInv, WireType, JobInv, JobType, CountTypes, Requests,
           Quiet, NoJob, Runs, ServiceFails, Moves, remote, seen, counts
      <4>2. CASE StartFails
        BY <1>1, <1>2, <1>3, <1>4, <1>5, BoundsAssumption, <2>7, <3>2, <4>2, PolledCases
           DEF PollFails, WireInv, WireType, JobInv, JobType, CountTypes, Requests,
           Quiet, NoJob, Runs, StartFails, remote, seen, counts
      <4>3. CASE OtherFails
        BY <1>1, <1>2, <1>3, <1>4, <1>5, BoundsAssumption, <2>7, <3>2, <4>3, PolledCases
           DEF PollFails, WireInv, WireType, JobInv, JobType, CountTypes, Requests,
           Quiet, NoJob, Runs, OtherFails, remote, seen, counts
      <4> QED BY <3>2, <4>1, <4>2, <4>3 DEF PollFails
    <3>3. CASE PollEnds
      BY <1>1, <1>2, <1>3, <1>4, <1>5, BoundsAssumption, <2>7, <3>3, PolledCases DEF
         WireInv, WireType, JobInv, JobType, CountTypes, Requests, Quiet, NoJob,
         Runs, PollEnds, Moves, Continue, remote, seen, counts
    <3> QED BY <2>7, <3>1, <3>2, <3>3, PolledCases
  <2>8. CASE BlockDone
    <3>1. CASE BlockGoes
      BY <1>1, <1>2, <1>3, <1>4, <1>5, BoundsAssumption, <2>8, <3>1, BlockCases DEF
         WireInv, WireType, JobInv, JobType, CountTypes, Requests, Quiet, NoJob,
         Runs, BlockGoes, incoming, WriteEnds, WriteGoesOn, StopDrains, ServicePolls,
         Moves, line, seen
    <3>2. CASE BlockComes
      BY <1>1, <1>2, <1>3, <1>4, <1>5, BoundsAssumption, <2>8, <3>2, BlockCases DEF
         WireInv, WireType, JobInv, JobType, CountTypes, Requests, Quiet, NoJob,
         Runs, BlockComes, line, seen
    <3> QED BY <2>8, <3>1, <3>2, BlockCases
  <2>9. CASE Copy
    <3>1. CASE CopyFills
      BY <1>1, <1>2, <1>3, <1>4, <1>5, BoundsAssumption, <2>9, <3>1, CopyCases DEF
         WireInv, WireType, JobInv, JobType, CountTypes, Requests, Quiet, NoJob,
         Runs, CopyFills, incoming, line, remote, seen
    <3>2. CASE CopyEnds
      BY <1>1, <1>2, <1>3, <1>4, <1>5, BoundsAssumption, <2>9, <3>2, CopyCases DEF
         WireInv, WireType, JobInv, JobType, CountTypes, Requests, Quiet, NoJob,
         Runs, CopyEnds, incoming, line, remote, seen
    <3> QED BY <2>9, <3>1, <3>2, CopyCases
  <2>10. CASE StopAnswered
    <3>1. CASE StreamEnds
      BY <1>1, <1>2, <1>3, <1>4, <1>5, BoundsAssumption, <2>10, <3>1, StopCases DEF
         WireInv, WireType, JobInv, JobType, CountTypes, Requests, Quiet, NoJob,
         Runs, StreamEnds, incoming, remote, seen, counts
    <3>2. CASE StopFetches
      BY <1>1, <1>2, <1>3, <1>4, <1>5, BoundsAssumption, <2>10, <3>2, StopCases DEF
         WireInv, WireType, JobInv, JobType, CountTypes, Requests, Quiet, NoJob,
         Runs, StopFetches, Fetches, Continue, incoming, remote, seen, counts
    <3>3. CASE StopFails
      BY <1>1, <1>2, <1>3, <1>4, <1>5, BoundsAssumption, <2>10, <3>3, StopCases DEF
         WireInv, WireType, JobInv, JobType, CountTypes, Requests, Quiet, NoJob,
         Runs, StopFails, incoming, remote, seen, counts
    <3> QED BY <2>10, <3>1, <3>2, <3>3, StopCases
  <2>11. CASE ServiceEnd
      BY <1>1, <1>2, <2>11, EndCases, InterruptFacts DEF WireInv, Requests, NoJob,
         stream, remote, counts
  <2> QED BY <1>9, <2>1, <2>2, <2>3, <2>4, <2>5, <2>6, <2>7, <2>8, <2>9, <2>10, <2>11
     DEF JobStep
<1>10. CASE Trouble
  <2>1. CASE ExchangeFails
    <3>1. CASE ServiceFails
      BY <1>1, <1>2, <1>3, <1>4, <1>5, BoundsAssumption, <2>1, <3>1, ExchangeCases DEF
         WireInv, WireType, JobInv, JobType, CountTypes, Requests, Quiet, NoJob,
         Runs, ServiceFails, Moves, incoming, remote, seen
    <3>2. CASE StartFails
      BY <1>1, <1>2, <1>3, <1>4, <1>5, BoundsAssumption, <2>1, <3>2, ExchangeCases DEF
         WireInv, WireType, JobInv, JobType, CountTypes, Requests, Quiet, NoJob,
         Runs, StartFails, incoming, remote, seen
    <3>3. CASE OtherFails
      BY <1>1, <1>2, <1>3, <1>4, <1>5, BoundsAssumption, <2>1, <3>3, ExchangeCases DEF
         WireInv, WireType, JobInv, JobType, CountTypes, Requests, Quiet, NoJob,
         Runs, OtherFails, incoming, remote, seen
    <3> QED BY <2>1, <3>1, <3>2, <3>3, ExchangeCases
  <2>2. CASE BlockFails
    <3>1. CASE ServiceFails
      BY <1>1, <1>2, <1>3, <1>4, <1>5, BoundsAssumption, <2>2, <3>1, BlockFailCases DEF
         WireInv, WireType, JobInv, JobType, CountTypes, Requests, Quiet, NoJob,
         Runs, ServiceFails, Moves, incoming, remote
    <3>2. CASE StartFails
      BY <1>1, <1>2, <1>3, <1>4, <1>5, BoundsAssumption, <2>2, <3>2, BlockFailCases DEF
         WireInv, WireType, JobInv, JobType, CountTypes, Requests, Quiet, NoJob,
         Runs, StartFails, incoming, remote
    <3>3. CASE OtherFails
      BY <1>1, <1>2, <1>3, <1>4, <1>5, BoundsAssumption, <2>2, <3>3, BlockFailCases DEF
         WireInv, WireType, JobInv, JobType, CountTypes, Requests, Quiet, NoJob,
         Runs, OtherFails, incoming, remote
    <3> QED BY <2>2, <3>1, <3>2, <3>3, BlockFailCases
  <2>3. CASE DrainDeadline
    <3>1. CASE ServiceFails
      BY <1>1, <1>2, <1>3, <1>4, <1>5, BoundsAssumption, <2>3, <3>1, DrainCases DEF
         WireInv, WireType, JobInv, JobType, CountTypes, Requests, Quiet, NoJob,
         Runs, ServiceFails, Moves, incoming, remote, seen
    <3>2. CASE StartFails
      BY <1>1, <1>2, <1>3, <1>4, <1>5, BoundsAssumption, <2>3, <3>2, DrainCases DEF
         WireInv, WireType, JobInv, JobType, CountTypes, Requests, Quiet, NoJob,
         Runs, StartFails, incoming, remote, seen
    <3>3. CASE OtherFails
      BY <1>1, <1>2, <1>3, <1>4, <1>5, BoundsAssumption, <2>3, <3>3, DrainCases DEF
         WireInv, WireType, JobInv, JobType, CountTypes, Requests, Quiet, NoJob,
         Runs, OtherFails, incoming, remote, seen
    <3> QED BY <2>3, <3>1, <3>2, <3>3, DrainCases
  <2>4. CASE Fault
    BY <1>1, <1>2, <1>3, <1>4, <1>5, <2>4, BoundsAssumption DEF WireInv, WireType,
       JobInv, JobType, CountTypes, Requests, Quiet, NoJob, Runs, Fault, stream,
       incoming, remote, seen
  <2>5. CASE SelectBegin
    BY <1>1, <1>2, <1>3, <1>4, <1>5, <2>5, BoundsAssumption DEF WireInv, WireType,
       JobInv, JobType, CountTypes, Requests, Quiet, NoJob, Runs, SelectBegin, Idle,
       incoming, line, remote, seen
  <2> QED BY <1>10, <2>1, <2>2, <2>3, <2>4, <2>5 DEF Trouble
<1>11. CASE WriteByte
    BY <1>1, <1>2, <1>3, <1>4, <1>5, BoundsAssumption, <1>11, WriteByteCases DEF WireInv,
       WireType, JobInv, JobType, CountTypes, Requests, Quiet, NoJob, Runs, Appends,
       Bounds, incoming, line, remote, seen
<1>12. CASE BoundaryByte
    BY <1>1, <1>2, <1>3, <1>4, <1>5, BoundsAssumption, <1>12, BoundaryCases DEF WireInv,
       WireType, JobInv, JobType, CountTypes, Requests, Quiet, NoJob, Runs, Writes,
       Begins, Loses, incoming, line, remote, seen, counts
<1>13. ASSUME NEW n \in 1 .. MaxOut, WriteStream(n) PROVE WireInv'
    BY <1>1, <1>2, <1>3, <1>4, <1>5, BoundsAssumption, <1>13, WriteStreamCases DEF
       WireInv, WireType, JobInv, JobType, CountTypes, Requests, Quiet, NoJob, Runs,
       Begins, stream, incoming, line, remote, seen, counts
<1>14. CASE RequestStart
    BY <1>1, <1>2, <1>3, <1>4, <1>5, BoundsAssumption, <1>14, StartCases DEF WireInv,
       WireType, JobInv, JobType, CountTypes, Requests, Quiet, NoJob, Runs, Begins,
       line, remote
<1>15. CASE RoutePublished
    BY <1>1, <1>2, <1>3, <1>4, <1>5, <1>15, BoundsAssumption DEF WireInv, WireType,
       JobInv, JobType, CountTypes, Requests, Quiet, NoJob, Runs, RoutePublished,
       incoming, line, remote, seen, counts
<1>16. CASE RequestLegacy
    BY <1>1, <1>2, <1>3, <1>4, <1>5, BoundsAssumption, <1>16, LegacyCases DEF WireInv,
       WireType, JobInv, JobType, CountTypes, Requests, Quiet, NoJob, Runs,
       StopBegins, Begins, OnlyLeaves, incoming, line, remote, seen, counts
<1>17. CASE Leave
    BY <1>1, <1>2, <1>3, <1>4, <1>5, <1>17, BoundsAssumption DEF WireInv, WireType,
       JobInv, JobType, CountTypes, Requests, Quiet, NoJob, Runs, Leave, incoming,
       line, remote, seen, counts
<1>18. CASE SelectEnd
    BY <1>1, <1>2, <1>3, <1>4, <1>5, <1>18, BoundsAssumption DEF WireInv, WireType,
       JobInv, JobType, CountTypes, Requests, Quiet, NoJob, Runs, SelectEnd, Serving,
       incoming, remote, seen, counts
<1>19. CASE PeerAnswers
  <2>1. CASE AnswersOpen
    BY <1>1, <1>2, <1>3, <1>4, <1>5, BoundsAssumption, <1>19, <2>1, AnswerCases DEF
       WireInv, WireType, JobInv, JobType, CountTypes, Requests, Quiet, NoJob, Runs,
       AnswersOpen, Answers, stream, incoming, seen
  <2>2. CASE AnswersAmount
    BY <1>1, <1>2, <1>3, <1>4, <1>5, BoundsAssumption, <1>19, <2>2, AnswerCases DEF
       WireInv, WireType, JobInv, JobType, CountTypes, Requests, Quiet, NoJob, Runs,
       AnswersAmount, Answers, stream, incoming, seen
  <2>3. CASE AnswersRest
    BY <1>1, <1>2, <1>3, <1>4, <1>5, BoundsAssumption, <1>19, <2>3, AnswerCases DEF
       WireInv, WireType, JobInv, JobType, CountTypes, Requests, Quiet, NoJob, Runs,
       AnswersRest, Answers, stream, incoming, seen
  <2> QED BY <1>19, <2>1, <2>2, <2>3, AnswerCases
<1>20. CASE PeerQueues
    BY <1>1, <1>2, <1>3, <1>4, <1>5, BoundsAssumption, <1>20, QueueCases DEF WireInv,
       WireType, JobInv, JobType, CountTypes, Requests, Quiet, NoJob, Runs, stream,
       incoming, line, seen
<1>21. CASE ReplyStarts
    BY <1>1, <1>2, <1>3, <1>4, <1>5, <1>21, BoundsAssumption DEF WireInv, WireType,
       JobInv, JobType, CountTypes, Requests, Quiet, NoJob, Runs, ReplyStarts,
       stream, incoming, remote, seen, counts
<1>22. CASE ReplyEnds
    BY <1>1, <1>2, <1>3, <1>4, <1>5, <1>22, BoundsAssumption DEF WireInv, WireType,
       JobInv, JobType, CountTypes, Requests, Quiet, NoJob, Runs, ReplyEnds, stream,
       incoming, remote, seen, counts
<1>23. CASE Reset
    BY <1>1, <1>2, <1>3, <1>4, <1>5, <1>23, BoundsAssumption DEF WireInv, WireType,
       JobInv, JobType, CountTypes, Requests, Quiet, NoJob, Runs, Reset, Closed
<1> QED BY <1>6, <1>7, <1>8, <1>9, <1>10, <1>11, <1>12, <1>13, <1>14, <1>15, <1>16,
   <1>17, <1>18, <1>19, <1>20, <1>21, <1>22, <1>23 DEF Next

\* There stays room for what is written.
LEMMA WriteRoomStep == IInv /\ [Next]_vars => WriteRoom'
<1> SUFFICES ASSUME IInv, [Next]_vars PROVE WriteRoom'
    OBVIOUS
<1>1. WriteRoom
    BY DEF IInv
<1>2. JobType
    BY DEF IInv
<1>3. CountTypes
    BY DEF IInv
<1>4. JobInv
    BY DEF IInv
<1>5. CASE UNCHANGED vars
    BY <1>1, <1>2, <1>3, <1>4, <1>5, BoundsAssumption DEF WriteRoom, JobType,
       CountTypes, JobInv, NoJob, Runs, vars, stream, incoming, line, remote, seen,
       counts
<1>6. CASE TickOnly
    BY <1>1, <1>2, <1>3, <1>4, BoundsAssumption, <1>6, TickCases DEF WriteRoom, JobType,
       CountTypes, JobInv, NoJob, Runs, stream, remote, counts
<1>7. CASE TickServes
    BY <1>1, <1>2, <1>3, <1>4, BoundsAssumption, <1>7, ServesCases DEF WriteRoom,
       JobType, CountTypes, JobInv, NoJob, Runs, Begins, stream, remote, counts
<1>8. CASE JobStep
  <2>1. CASE Flush
      BY <1>1, <1>2, <1>3, <1>4, BoundsAssumption, <2>1, FlushCases DEF WriteRoom,
         JobType, CountTypes, JobInv, NoJob, Runs, FlushSends, Moves, FlushEnds,
         StopDrains, ServicePolls, stream, incoming, line, remote, seen, counts
  <2>2. CASE Reserve
      BY <1>1, <1>2, <1>3, <1>4, BoundsAssumption, <2>2, ReserveCases DEF WriteRoom,
         JobType, CountTypes, JobInv, NoJob, Runs, AsksSession, Asks, Moves,
         Continue, AsksOffer, AsksPoll, AsksStop, incoming, remote, seen, counts
  <2>3. CASE Refused
    <3>1. CASE ServiceFails
      BY <1>1, <1>2, <1>3, <1>4, BoundsAssumption, <2>3, <3>1, RefusedCases DEF
         WriteRoom, JobType, CountTypes, JobInv, NoJob, Runs, ServiceFails, Moves,
         incoming, remote, seen, counts
    <3>2. CASE StartFails
      BY <1>1, <1>2, <1>3, <1>4, BoundsAssumption, <2>3, <3>2, RefusedCases DEF
         WriteRoom, JobType, CountTypes, JobInv, NoJob, Runs, StartFails, incoming,
         remote, seen, counts
    <3>3. CASE OtherFails
      BY <1>1, <1>2, <1>3, <1>4, BoundsAssumption, <2>3, <3>3, RefusedCases DEF
         WriteRoom, JobType, CountTypes, JobInv, NoJob, Runs, OtherFails, incoming,
         remote, seen, counts
    <3> QED BY <2>3, <3>1, <3>2, <3>3, RefusedCases
  <2>4. CASE Negotiated
      BY <1>1, <1>2, <1>3, <1>4, BoundsAssumption, <2>4, NegotiatedCases DEF WriteRoom,
         JobType, CountTypes, JobInv, NoJob, Runs, Opens, Asks, Moves, Continue,
         Offers, incoming, remote, seen, counts
  <2>5. CASE Opened
    BY <1>1, <1>2, <1>3, <1>4, <2>5, BoundsAssumption DEF WriteRoom, JobType,
       CountTypes, JobInv, NoJob, Runs, Opened, Answered, Quiet, incoming, remote,
       seen, counts, At
  <2>6. CASE Offered
    BY <1>1, <1>2, <1>3, <1>4, <2>6, BoundsAssumption DEF WriteRoom, JobType,
       CountTypes, JobInv, NoJob, Runs, Offered, Answered, Quiet, Goto, incoming,
       remote, seen, counts, At
  <2>7. CASE Polled
    <3>1. CASE PollFetches
      BY <1>1, <1>2, <1>3, <1>4, BoundsAssumption, <2>7, <3>1, PolledCases DEF
         WriteRoom, JobType, CountTypes, JobInv, NoJob, Runs, PollFetches, Fetches,
         Continue, Quiet, remote, seen, counts
    <3>2. CASE PollFails
      <4>1. CASE ServiceFails
        BY <1>1, <1>2, <1>3, <1>4, BoundsAssumption, <2>7, <3>2, <4>1, PolledCases DEF
           PollFails, WriteRoom, JobType, CountTypes, JobInv, NoJob, Runs,
           ServiceFails, Moves, Quiet, remote, seen, counts
      <4>2. CASE StartFails
        BY <1>1, <1>2, <1>3, <1>4, BoundsAssumption, <2>7, <3>2, <4>2, PolledCases DEF
           PollFails, WriteRoom, JobType, CountTypes, JobInv, NoJob, Runs,
           StartFails, Quiet, remote, seen, counts
      <4>3. CASE OtherFails
        BY <1>1, <1>2, <1>3, <1>4, BoundsAssumption, <2>7, <3>2, <4>3, PolledCases DEF
           PollFails, WriteRoom, JobType, CountTypes, JobInv, NoJob, Runs,
           OtherFails, Quiet, remote, seen, counts
      <4> QED BY <3>2, <4>1, <4>2, <4>3 DEF PollFails
    <3>3. CASE PollEnds
      BY <1>1, <1>2, <1>3, <1>4, BoundsAssumption, <2>7, <3>3, PolledCases DEF
         WriteRoom, JobType, CountTypes, JobInv, NoJob, Runs, PollEnds, Moves,
         Continue, Quiet, remote, seen, counts
    <3> QED BY <2>7, <3>1, <3>2, <3>3, PolledCases
  <2>8. CASE BlockDone
    <3>1. CASE BlockGoes
      BY <1>1, <1>2, <1>3, <1>4, BoundsAssumption, <2>8, <3>1, BlockCases DEF WriteRoom,
         JobType, CountTypes, JobInv, NoJob, Runs, BlockGoes, incoming, WriteEnds,
         WriteGoesOn, StopDrains, ServicePolls, Moves, line, seen
    <3>2. CASE BlockComes
      BY <1>1, <1>2, <1>3, <1>4, BoundsAssumption, <2>8, <3>2, BlockCases DEF WriteRoom,
         JobType, CountTypes, JobInv, NoJob, Runs, BlockComes, line, seen
    <3> QED BY <2>8, <3>1, <3>2, BlockCases
  <2>9. CASE Copy
    <3>1. CASE CopyFills
      <4>1. fg' = "idle"
          BY <1>4, <2>9, CopyCases DEF JobInv, Runs
      <4>2. written' + (job.left - Part) <= MaxOut
          BY <2>9, CopyTypes
      <4> QED BY <4>1, <4>2, <3>1 DEF WriteRoom, CopyFills, NoJob
    <3>2. CASE CopyEnds
      <4>1. fg' = "idle"
          BY <1>4, <2>9, CopyCases DEF JobInv, Runs
      <4>2. written' + (job.left - Part) <= MaxOut
          BY <2>9, CopyTypes
      <4> QED BY <4>1, <4>2, <3>2 DEF WriteRoom, CopyEnds, NoJob
    <3> QED BY <2>9, <3>1, <3>2, CopyCases
  <2>10. CASE StopAnswered
    <3>1. CASE StreamEnds
      BY <1>1, <1>2, <1>3, <1>4, BoundsAssumption, <2>10, <3>1, StopCases DEF WriteRoom,
         JobType, CountTypes, JobInv, NoJob, Runs, StreamEnds, Quiet, incoming,
         remote, seen, counts
    <3>2. CASE StopFetches
      BY <1>1, <1>2, <1>3, <1>4, BoundsAssumption, <2>10, <3>2, StopCases DEF WriteRoom,
         JobType, CountTypes, JobInv, NoJob, Runs, StopFetches, Fetches, Continue,
         Quiet, incoming, remote, seen, counts
    <3>3. CASE StopFails
      BY <1>1, <1>2, <1>3, <1>4, BoundsAssumption, <2>10, <3>3, StopCases DEF WriteRoom,
         JobType, CountTypes, JobInv, NoJob, Runs, StopFails, Quiet, incoming,
         remote, seen, counts
    <3> QED BY <2>10, <3>1, <3>2, <3>3, StopCases
  <2>11. CASE ServiceEnd
      BY <1>1, <1>2, <1>3, <1>4, BoundsAssumption, <2>11, EndCases DEF WriteRoom,
         JobType, CountTypes, JobInv, NoJob, Runs, stream, remote, counts
  <2> QED BY <1>8, <2>1, <2>2, <2>3, <2>4, <2>5, <2>6, <2>7, <2>8, <2>9, <2>10, <2>11
     DEF JobStep
<1>9. CASE Trouble
  <2>1. CASE ExchangeFails
    <3>1. CASE ServiceFails
      BY <1>1, <1>2, <1>3, <1>4, BoundsAssumption, <2>1, <3>1, ExchangeCases DEF
         WriteRoom, JobType, CountTypes, JobInv, NoJob, Runs, ServiceFails, Moves,
         Requests, Quiet, incoming, remote, seen
    <3>2. CASE StartFails
      BY <1>1, <1>2, <1>3, <1>4, BoundsAssumption, <2>1, <3>2, ExchangeCases DEF
         WriteRoom, JobType, CountTypes, JobInv, NoJob, Runs, StartFails, Requests,
         Quiet, incoming, remote, seen
    <3>3. CASE OtherFails
      BY <1>1, <1>2, <1>3, <1>4, BoundsAssumption, <2>1, <3>3, ExchangeCases DEF
         WriteRoom, JobType, CountTypes, JobInv, NoJob, Runs, OtherFails, Requests,
         Quiet, incoming, remote, seen
    <3> QED BY <2>1, <3>1, <3>2, <3>3, ExchangeCases
  <2>2. CASE BlockFails
    <3>1. CASE ServiceFails
      BY <1>1, <1>2, <1>3, <1>4, BoundsAssumption, <2>2, <3>1, BlockFailCases DEF
         WriteRoom, JobType, CountTypes, JobInv, NoJob, Runs, ServiceFails, Moves,
         incoming, remote
    <3>2. CASE StartFails
      BY <1>1, <1>2, <1>3, <1>4, BoundsAssumption, <2>2, <3>2, BlockFailCases DEF
         WriteRoom, JobType, CountTypes, JobInv, NoJob, Runs, StartFails, incoming,
         remote
    <3>3. CASE OtherFails
      BY <1>1, <1>2, <1>3, <1>4, BoundsAssumption, <2>2, <3>3, BlockFailCases DEF
         WriteRoom, JobType, CountTypes, JobInv, NoJob, Runs, OtherFails, incoming,
         remote
    <3> QED BY <2>2, <3>1, <3>2, <3>3, BlockFailCases
  <2>3. CASE DrainDeadline
    <3>1. CASE ServiceFails
      BY <1>1, <1>2, <1>3, <1>4, BoundsAssumption, <2>3, <3>1, DrainCases DEF WriteRoom,
         JobType, CountTypes, JobInv, NoJob, Runs, ServiceFails, Moves, incoming,
         remote, seen
    <3>2. CASE StartFails
      BY <1>1, <1>2, <1>3, <1>4, BoundsAssumption, <2>3, <3>2, DrainCases DEF WriteRoom,
         JobType, CountTypes, JobInv, NoJob, Runs, StartFails, incoming, remote, seen
    <3>3. CASE OtherFails
      BY <1>1, <1>2, <1>3, <1>4, BoundsAssumption, <2>3, <3>3, DrainCases DEF WriteRoom,
         JobType, CountTypes, JobInv, NoJob, Runs, OtherFails, incoming, remote, seen
    <3> QED BY <2>3, <3>1, <3>2, <3>3, DrainCases
  <2>4. CASE Fault
    BY <1>1, <1>2, <1>3, <1>4, <2>4, BoundsAssumption DEF WriteRoom, JobType,
       CountTypes, JobInv, NoJob, Runs, Fault, stream, incoming, remote, seen
  <2>5. CASE SelectBegin
    BY <1>1, <1>2, <1>3, <1>4, <2>5, BoundsAssumption DEF WriteRoom, JobType,
       CountTypes, JobInv, NoJob, Runs, SelectBegin, Idle, incoming, line, remote,
       seen
  <2> QED BY <1>9, <2>1, <2>2, <2>3, <2>4, <2>5 DEF Trouble
<1>10. CASE WriteByte
    BY <1>1, <1>2, <1>3, <1>4, BoundsAssumption, <1>10, WriteByteCases DEF WriteRoom,
       JobType, CountTypes, JobInv, NoJob, Runs, Appends, Bounds, incoming, line,
       remote, seen
<1>11. CASE BoundaryByte
    BY <1>1, <1>2, <1>3, <1>4, BoundsAssumption, <1>11, BoundaryCases DEF WriteRoom,
       JobType, CountTypes, JobInv, NoJob, Runs, Writes, Begins, Loses, incoming,
       line, remote, seen, counts
<1>12. ASSUME NEW n \in 1 .. MaxOut, WriteStream(n) PROVE WriteRoom'
    BY <1>1, <1>2, <1>3, <1>4, BoundsAssumption, <1>12, WriteStreamCases DEF WriteRoom,
       JobType, CountTypes, JobInv, NoJob, Runs, Begins, stream, incoming, line,
       remote, seen, counts
<1>13. CASE RequestStart
    BY <1>1, <1>2, <1>3, <1>4, BoundsAssumption, <1>13, StartCases DEF WriteRoom,
       JobType, CountTypes, JobInv, NoJob, Runs, Begins, line, remote
<1>14. CASE RoutePublished
    BY <1>1, <1>2, <1>3, <1>4, <1>14, BoundsAssumption DEF WriteRoom, JobType,
       CountTypes, JobInv, NoJob, Runs, RoutePublished, incoming, line, remote, seen,
       counts
<1>15. CASE RequestLegacy
    BY <1>1, <1>2, <1>3, <1>4, BoundsAssumption, <1>15, LegacyCases DEF WriteRoom,
       JobType, CountTypes, JobInv, NoJob, Runs, StopBegins, Begins, OnlyLeaves,
       incoming, line, remote, seen, counts
<1>16. CASE Leave
    BY <1>1, <1>2, <1>3, <1>4, <1>16, BoundsAssumption DEF WriteRoom, JobType,
       CountTypes, JobInv, NoJob, Runs, Leave, incoming, line, remote, seen, counts
<1>17. CASE SelectEnd
    BY <1>1, <1>2, <1>3, <1>4, <1>17, BoundsAssumption DEF WriteRoom, JobType,
       CountTypes, JobInv, NoJob, Runs, SelectEnd, Serving, incoming, remote, seen,
       counts
<1>18. CASE PeerAnswers
    BY <1>1, <1>2, <1>3, <1>4, BoundsAssumption, <1>18, AnswerCases DEF WriteRoom,
       JobType, CountTypes, JobInv, NoJob, Runs, AnswersOpen, Answers, AnswersAmount,
       AnswersRest, stream, incoming, seen
<1>19. CASE PeerQueues
    BY <1>1, <1>2, <1>3, <1>4, BoundsAssumption, <1>19, QueueCases DEF WriteRoom,
       JobType, CountTypes, JobInv, NoJob, Runs, stream, incoming, line, seen
<1>20. CASE ReplyStarts
    BY <1>1, <1>2, <1>3, <1>4, <1>20, BoundsAssumption DEF WriteRoom, JobType,
       CountTypes, JobInv, NoJob, Runs, ReplyStarts, stream, incoming, remote, seen,
       counts
<1>21. CASE ReplyEnds
    BY <1>1, <1>2, <1>3, <1>4, <1>21, BoundsAssumption DEF WriteRoom, JobType,
       CountTypes, JobInv, NoJob, Runs, ReplyEnds, stream, incoming, remote, seen,
       counts
<1>22. CASE Reset
    BY <1>1, <1>2, <1>3, <1>4, <1>22, BoundsAssumption DEF WriteRoom, JobType,
       CountTypes, JobInv, NoJob, Runs, Reset, Quiet, Closed
<1> QED BY <1>5, <1>6, <1>7, <1>8, <1>9, <1>10, <1>11, <1>12, <1>13, <1>14, <1>15,
   <1>16, <1>17, <1>18, <1>19, <1>20, <1>21, <1>22 DEF Next

\* There stays room for what is fetched.
LEMMA FetchRoomStep == IInv /\ [Next]_vars => FetchRoom'
<1> SUFFICES ASSUME IInv, [Next]_vars PROVE FetchRoom'
    OBVIOUS
<1>1. FetchRoom
    BY DEF IInv
<1>2. JobType
    BY DEF IInv
<1>3. InTypes
    BY DEF IInv
<1>4. AmountRoom
    BY DEF IInv
<1>5. CountTypes
    BY DEF IInv
<1>6. WireInv
    BY DEF IInv
<1>7. JobInv
    BY DEF IInv
<1>8. WireType
    BY DEF IInv
<1>9. CASE UNCHANGED vars
    BY <1>1, <1>2, <1>3, <1>4, <1>5, <1>6, <1>7, <1>8, <1>9, BoundsAssumption DEF
       FetchRoom, JobType, InTypes, AmountRoom, CountTypes, WireInv, JobInv,
       WireType, NoJob, Requests, Runs, vars, stream, incoming, line, remote, seen,
       counts
<1>10. CASE TickOnly
  <2>1. CASE Discards
    BY SMTT(30), <1>1, <1>2, <1>3, <1>4, <1>5, <1>6, <1>7, <1>8, BoundsAssumption, <1>10, <2>1,
       TickCases DEF FetchRoom, JobType, InTypes, AmountRoom, CountTypes, WireInv,
       JobInv, WireType, NoJob, Requests, Runs, Discards, Interrupts, stream, remote,
       counts
  <2>2. CASE TakesSome
    <3>1. /\ Len(inb') <= Len(inb) /\ Len(inb') \in Nat /\ Len(inb) \in Nat /\ job.n \in Nat
          /\ Len(pend) \in Nat /\ 2 * Fetch \in Nat /\ job.n <= Len(pend) /\ Len(inb) + job.n <= 2 * Fetch
        BY <1>1, <1>2, <1>3, <1>5, <2>2, BoundsAssumption, TakingTypes DEF InTypes, JobType, FetchRoom
    <3>2. pend' = pend /\ (job'.n = job.n \/ job'.n = 0)
        BY <1>10, TickCases DEF remote, Begins, NoJob
    <3> QED BY <3>1, <3>2 DEF FetchRoom
  <2> QED BY <1>10, <2>1, <2>2, TickCases
<1>11. CASE TickServes
  <2>1. CASE Discards
    BY SMTT(30), <1>1, <1>2, <1>3, <1>4, <1>5, <1>6, <1>7, <1>8, BoundsAssumption, <1>11, <2>1,
       ServesCases DEF FetchRoom, JobType, InTypes, AmountRoom, CountTypes, WireInv,
       JobInv, WireType, NoJob, Requests, Runs, Discards, Begins, Interrupts, stream,
       remote, counts
  <2>2. CASE TakesSome
    <3>1. /\ Len(inb') <= Len(inb) /\ Len(inb') \in Nat /\ Len(inb) \in Nat /\ job.n \in Nat
          /\ Len(pend) \in Nat /\ 2 * Fetch \in Nat /\ job.n <= Len(pend) /\ Len(inb) + job.n <= 2 * Fetch
        BY <1>1, <1>2, <1>3, <1>5, <2>2, BoundsAssumption, TakingTypes DEF InTypes, JobType, FetchRoom
    <3>2. pend' = pend /\ (job'.n = job.n \/ job'.n = 0)
        BY <1>11, ServesCases DEF remote, Begins, NoJob
    <3> QED BY <3>1, <3>2 DEF FetchRoom
  <2>3. CASE TakesNone
    BY <1>1, <1>2, <1>3, <1>4, <1>5, <1>6, <1>7, <1>8, BoundsAssumption, <1>11, <2>3,
       ServesCases DEF FetchRoom, JobType, InTypes, AmountRoom, CountTypes, WireInv,
       JobInv, WireType, NoJob, Requests, Runs, TakesNone, incoming, Begins,
       Interrupts, stream, remote, counts
  <2> QED BY <1>11, <2>1, <2>2, <2>3, ServesCases
<1>12. CASE JobStep
  <2>1. CASE Flush
      BY SMTT(30), <1>1, <1>2, <1>3, <1>4, <1>5, <1>6, <1>7, <1>8, BoundsAssumption, <2>1,
         FlushCases DEF FetchRoom, JobType, InTypes, AmountRoom, CountTypes, WireInv,
         JobInv, WireType, NoJob, Requests, Runs, FlushSends, Moves, FlushEnds,
         StopDrains, ServicePolls, stream, incoming, line, remote, seen, counts
  <2>2. CASE Reserve
      BY SMTT(30), <1>1, <1>2, <1>3, <1>4, <1>5, <1>6, <1>7, <1>8, BoundsAssumption, <2>2,
         ReserveCases DEF FetchRoom, JobType, InTypes, AmountRoom, CountTypes,
         WireInv, JobInv, WireType, NoJob, Requests, Runs, AsksSession, Asks, Moves,
         Continue, AsksOffer, AsksPoll, AsksStop, incoming, remote, seen, counts
  <2>3. CASE Refused
    <3>1. CASE ServiceFails
      BY <1>1, <1>2, <1>3, <1>4, <1>5, <1>6, <1>7, <1>8, BoundsAssumption, <2>3, <3>1,
         RefusedCases DEF FetchRoom, JobType, InTypes, AmountRoom, CountTypes,
         WireInv, JobInv, WireType, NoJob, Requests, Runs, ServiceFails, Moves,
         incoming, remote, seen, counts
    <3>2. CASE StartFails
      BY <1>1, <1>2, <1>3, <1>4, <1>5, <1>6, <1>7, <1>8, BoundsAssumption, <2>3, <3>2,
         RefusedCases DEF FetchRoom, JobType, InTypes, AmountRoom, CountTypes,
         WireInv, JobInv, WireType, NoJob, Requests, Runs, StartFails, incoming,
         remote, seen, counts
    <3>3. CASE OtherFails
      BY <1>1, <1>2, <1>3, <1>4, <1>5, <1>6, <1>7, <1>8, BoundsAssumption, <2>3, <3>3,
         RefusedCases DEF FetchRoom, JobType, InTypes, AmountRoom, CountTypes,
         WireInv, JobInv, WireType, NoJob, Requests, Runs, OtherFails, incoming,
         remote, seen, counts
    <3> QED BY <2>3, <3>1, <3>2, <3>3, RefusedCases
  <2>4. CASE Negotiated
      BY SMTT(30), <1>1, <1>2, <1>3, <1>4, <1>5, <1>6, <1>7, <1>8, BoundsAssumption, <2>4,
         NegotiatedCases DEF FetchRoom, JobType, InTypes, AmountRoom, CountTypes,
         WireInv, JobInv, WireType, NoJob, Requests, Runs, Opens, Asks, Moves,
         Continue, Offers, incoming, remote, seen, counts
  <2>5. CASE Opened
    BY <1>1, <1>2, <1>3, <1>4, <1>5, <1>6, <1>7, <1>8, <2>5, BoundsAssumption DEF
       FetchRoom, JobType, InTypes, AmountRoom, CountTypes, WireInv, JobInv,
       WireType, NoJob, Requests, Runs, Opened, Answered, Quiet, incoming, remote,
       seen, counts, At
  <2>6. CASE Offered
    BY <1>1, <1>2, <1>3, <1>4, <1>5, <1>6, <1>7, <1>8, <2>6, BoundsAssumption DEF
       FetchRoom, JobType, InTypes, AmountRoom, CountTypes, WireInv, JobInv,
       WireType, NoJob, Requests, Runs, Offered, Answered, Quiet, Goto, incoming,
       remote, seen, counts, At
  <2>7. CASE Polled
    <3>1. CASE PollFetches
      BY <1>1, <1>2, <1>3, <1>4, <1>6, <1>8, BoundsAssumption, <2>7, <3>1, PolledCases
         DEF FetchRoom, JobType, InTypes, AmountRoom, CountTypes, WireInv, JobInv,
         WireType, NoJob, Requests, Runs, PollFetches, Fetches, Continue, Quiet,
         remote, seen, counts
    <3>2. CASE PollFails
      <4>1. CASE ServiceFails
        BY <1>1, <1>2, <1>3, <1>4, <1>5, <1>6, <1>7, <1>8, BoundsAssumption, <2>7, <3>2,
           <4>1, PolledCases DEF PollFails, FetchRoom, JobType, InTypes, AmountRoom,
           CountTypes, WireInv, JobInv, WireType, NoJob, Requests, Runs,
           ServiceFails, Moves, Quiet, remote, seen, counts
      <4>2. CASE StartFails
        BY <1>1, <1>2, <1>3, <1>4, <1>5, <1>6, <1>7, <1>8, BoundsAssumption, <2>7, <3>2,
           <4>2, PolledCases DEF PollFails, FetchRoom, JobType, InTypes, AmountRoom,
           CountTypes, WireInv, JobInv, WireType, NoJob, Requests, Runs, StartFails,
           Quiet, remote, seen, counts
      <4>3. CASE OtherFails
        BY <1>1, <1>2, <1>3, <1>4, <1>5, <1>6, <1>7, <1>8, BoundsAssumption, <2>7, <3>2,
           <4>3, PolledCases DEF PollFails, FetchRoom, JobType, InTypes, AmountRoom,
           CountTypes, WireInv, JobInv, WireType, NoJob, Requests, Runs, OtherFails,
           Quiet, remote, seen, counts
      <4> QED BY <3>2, <4>1, <4>2, <4>3 DEF PollFails
    <3>3. CASE PollEnds
      BY <1>1, <1>2, <1>3, <1>4, <1>5, <1>6, <1>7, <1>8, BoundsAssumption, <2>7, <3>3,
         PolledCases DEF FetchRoom, JobType, InTypes, AmountRoom, CountTypes,
         WireInv, JobInv, WireType, NoJob, Requests, Runs, PollEnds, Moves, Continue,
         Quiet, remote, seen, counts
    <3> QED BY <2>7, <3>1, <3>2, <3>3, PolledCases
  <2>8. CASE BlockDone
    <3>1. CASE BlockGoes
      BY SMTT(30), <1>1, <1>2, <1>3, <1>4, <1>5, <1>6, <1>7, <1>8, BoundsAssumption, <2>8, <3>1,
         BlockCases DEF FetchRoom, JobType, InTypes, AmountRoom, CountTypes, WireInv,
         JobInv, WireType, NoJob, Requests, Runs, BlockGoes, incoming, WriteEnds,
         WriteGoesOn, StopDrains, ServicePolls, Moves, line, seen
    <3>2. CASE BlockComes
      <4>1. job'.n = 0
          BY <3>2 DEF BlockComes
      <4>2. /\ inb' \in Seq(DOMAIN Return) /\ pend' \in Seq(DOMAIN Return) /\ Len(inb') <= 2 * Fetch
          BY <1>1, <1>2, <1>3, <3>2, ComesTypes
      <4> QED BY <4>1, <4>2, BoundsAssumption DEF FetchRoom
    <3> QED BY <2>8, <3>1, <3>2, BlockCases
  <2>9. CASE Copy
    <3>1. CASE CopyFills
      BY <1>1, <1>2, <1>3, <1>4, <1>5, <1>6, <1>7, <1>8, BoundsAssumption, <2>9, <3>1,
         CopyCases DEF FetchRoom, JobType, InTypes, AmountRoom, CountTypes, WireInv,
         JobInv, WireType, NoJob, Requests, Runs, CopyFills, incoming, line, remote,
         seen
    <3>2. CASE CopyEnds
      BY <1>1, <1>2, <1>3, <1>4, <1>5, <1>6, <1>7, <1>8, BoundsAssumption, <2>9, <3>2,
         CopyCases DEF FetchRoom, JobType, InTypes, AmountRoom, CountTypes, WireInv,
         JobInv, WireType, NoJob, Requests, Runs, CopyEnds, incoming, line, remote,
         seen
    <3> QED BY <2>9, <3>1, <3>2, CopyCases
  <2>10. CASE StopAnswered
    <3>1. CASE StreamEnds
      BY <1>1, <1>2, <1>3, <1>4, <1>5, <1>6, <1>7, <1>8, BoundsAssumption, <2>10, <3>1,
         StopCases DEF FetchRoom, JobType, InTypes, AmountRoom, CountTypes, WireInv,
         JobInv, WireType, NoJob, Requests, Runs, StreamEnds, Quiet, incoming,
         remote, seen, counts
    <3>2. CASE StopFetches
      BY <1>1, <1>2, <1>3, <1>4, <1>6, <1>8, BoundsAssumption, <2>10, <3>2, StopCases DEF
         FetchRoom, JobType, InTypes, AmountRoom, CountTypes, WireInv, JobInv,
         WireType, NoJob, Requests, Runs, StopFetches, Fetches, Continue, Quiet,
         incoming, remote, seen, counts
    <3>3. CASE StopFails
      BY <1>1, <1>2, <1>3, <1>4, <1>5, <1>6, <1>7, <1>8, BoundsAssumption, <2>10, <3>3,
         StopCases DEF FetchRoom, JobType, InTypes, AmountRoom, CountTypes, WireInv,
         JobInv, WireType, NoJob, Requests, Runs, StopFails, Quiet, incoming, remote,
         seen, counts
    <3> QED BY <2>10, <3>1, <3>2, <3>3, StopCases
  <2>11. CASE ServiceEnd
    <3>1. CASE Discards
      BY SMTT(30), <1>1, <1>2, <1>3, <1>4, <1>5, <1>6, <1>7, <1>8, BoundsAssumption, <2>11, <3>1,
         EndCases DEF FetchRoom, JobType, InTypes, AmountRoom, CountTypes, WireInv,
         JobInv, WireType, NoJob, Requests, Runs, Discards, Interrupts, stream,
         remote, counts
    <3>2. CASE TakesSome
      <4>1. /\ Len(inb') <= Len(inb) /\ Len(inb') \in Nat /\ Len(inb) \in Nat /\ job.n \in Nat
            /\ Len(pend) \in Nat /\ 2 * Fetch \in Nat /\ job.n <= Len(pend) /\ Len(inb) + job.n <= 2 * Fetch
          BY <1>1, <1>2, <1>3, <1>5, <3>2, BoundsAssumption, TakingTypes DEF InTypes, JobType, FetchRoom
      <4>2. pend' = pend /\ (job'.n = job.n \/ job'.n = 0)
          BY <2>11, EndCases DEF remote, Begins, NoJob
      <4> QED BY <4>1, <4>2 DEF FetchRoom
    <3> QED BY <2>11, <3>1, <3>2, EndCases
  <2> QED BY <1>12, <2>1, <2>2, <2>3, <2>4, <2>5, <2>6, <2>7, <2>8, <2>9, <2>10,
     <2>11 DEF JobStep
<1>13. CASE Trouble
  <2>1. CASE ExchangeFails
    <3>1. CASE ServiceFails
      BY <1>1, <1>2, <1>3, <1>4, <1>5, <1>6, <1>7, <1>8, BoundsAssumption, <2>1, <3>1,
         ExchangeCases DEF FetchRoom, JobType, InTypes, AmountRoom, CountTypes,
         WireInv, JobInv, WireType, NoJob, Requests, Runs, ServiceFails, Moves,
         Quiet, incoming, remote, seen
    <3>2. CASE StartFails
      BY <1>1, <1>2, <1>3, <1>4, <1>5, <1>6, <1>7, <1>8, BoundsAssumption, <2>1, <3>2,
         ExchangeCases DEF FetchRoom, JobType, InTypes, AmountRoom, CountTypes,
         WireInv, JobInv, WireType, NoJob, Requests, Runs, StartFails, Quiet,
         incoming, remote, seen
    <3>3. CASE OtherFails
      BY <1>1, <1>2, <1>3, <1>4, <1>5, <1>6, <1>7, <1>8, BoundsAssumption, <2>1, <3>3,
         ExchangeCases DEF FetchRoom, JobType, InTypes, AmountRoom, CountTypes,
         WireInv, JobInv, WireType, NoJob, Requests, Runs, OtherFails, Quiet,
         incoming, remote, seen
    <3> QED BY <2>1, <3>1, <3>2, <3>3, ExchangeCases
  <2>2. CASE BlockFails
    <3>1. CASE ServiceFails
      BY <1>1, <1>2, <1>3, <1>4, <1>5, <1>6, <1>7, <1>8, BoundsAssumption, <2>2, <3>1,
         BlockFailCases DEF FetchRoom, JobType, InTypes, AmountRoom, CountTypes,
         WireInv, JobInv, WireType, NoJob, Requests, Runs, ServiceFails, Moves,
         incoming, remote
    <3>2. CASE StartFails
      BY <1>1, <1>2, <1>3, <1>4, <1>5, <1>6, <1>7, <1>8, BoundsAssumption, <2>2, <3>2,
         BlockFailCases DEF FetchRoom, JobType, InTypes, AmountRoom, CountTypes,
         WireInv, JobInv, WireType, NoJob, Requests, Runs, StartFails, incoming,
         remote
    <3>3. CASE OtherFails
      BY <1>1, <1>2, <1>3, <1>4, <1>5, <1>6, <1>7, <1>8, BoundsAssumption, <2>2, <3>3,
         BlockFailCases DEF FetchRoom, JobType, InTypes, AmountRoom, CountTypes,
         WireInv, JobInv, WireType, NoJob, Requests, Runs, OtherFails, incoming,
         remote
    <3> QED BY <2>2, <3>1, <3>2, <3>3, BlockFailCases
  <2>3. CASE DrainDeadline
    <3>1. CASE ServiceFails
      BY <1>1, <1>2, <1>3, <1>4, <1>5, <1>6, <1>7, <1>8, BoundsAssumption, <2>3, <3>1,
         DrainCases DEF FetchRoom, JobType, InTypes, AmountRoom, CountTypes, WireInv,
         JobInv, WireType, NoJob, Requests, Runs, ServiceFails, Moves, incoming,
         remote, seen
    <3>2. CASE StartFails
      BY <1>1, <1>2, <1>3, <1>4, <1>5, <1>6, <1>7, <1>8, BoundsAssumption, <2>3, <3>2,
         DrainCases DEF FetchRoom, JobType, InTypes, AmountRoom, CountTypes, WireInv,
         JobInv, WireType, NoJob, Requests, Runs, StartFails, incoming, remote, seen
    <3>3. CASE OtherFails
      BY <1>1, <1>2, <1>3, <1>4, <1>5, <1>6, <1>7, <1>8, BoundsAssumption, <2>3, <3>3,
         DrainCases DEF FetchRoom, JobType, InTypes, AmountRoom, CountTypes, WireInv,
         JobInv, WireType, NoJob, Requests, Runs, OtherFails, incoming, remote, seen
    <3> QED BY <2>3, <3>1, <3>2, <3>3, DrainCases
  <2>4. CASE Fault
    BY <1>1, <1>2, <1>3, <1>4, <1>5, <1>6, <1>7, <1>8, <2>4, BoundsAssumption DEF
       FetchRoom, JobType, InTypes, AmountRoom, CountTypes, WireInv, JobInv,
       WireType, NoJob, Requests, Runs, Fault, stream, incoming, remote, seen
  <2>5. CASE SelectBegin
    BY <1>1, <1>2, <1>3, <1>4, <1>5, <1>6, <1>7, <1>8, <2>5, BoundsAssumption DEF
       FetchRoom, JobType, InTypes, AmountRoom, CountTypes, WireInv, JobInv,
       WireType, NoJob, Requests, Runs, SelectBegin, Idle, incoming, line, remote,
       seen
  <2> QED BY <1>13, <2>1, <2>2, <2>3, <2>4, <2>5 DEF Trouble
<1>14. CASE WriteByte
    BY <1>1, <1>2, <1>3, <1>4, <1>5, <1>6, <1>7, <1>8, BoundsAssumption, <1>14,
       WriteByteCases DEF FetchRoom, JobType, InTypes, AmountRoom, CountTypes,
       WireInv, JobInv, WireType, NoJob, Requests, Runs, Appends, Bounds, incoming,
       line, remote, seen
<1>15. CASE BoundaryByte
  <2>1. CASE Writes
    BY <1>1, <1>2, <1>3, <1>4, <1>5, <1>6, <1>7, <1>8, BoundsAssumption, <1>15, <2>1,
       BoundaryCases DEF FetchRoom, JobType, InTypes, AmountRoom, CountTypes,
       WireInv, JobInv, WireType, NoJob, Requests, Runs, Writes, Begins, incoming,
       line, remote, seen, counts
  <2>2. CASE Loses
    BY <1>1, <1>2, <1>3, <1>4, <1>5, <1>6, <1>7, <1>8, BoundsAssumption, <1>15, <2>2,
       BoundaryCases DEF FetchRoom, JobType, InTypes, AmountRoom, CountTypes,
       WireInv, JobInv, WireType, NoJob, Requests, Runs, Loses, incoming, line,
       remote, seen, counts
  <2> QED BY <1>15, <2>1, <2>2, BoundaryCases
<1>16. ASSUME NEW n \in 1 .. MaxOut, WriteStream(n) PROVE FetchRoom'
    BY SMTT(30), <1>1, <1>2, <1>3, <1>4, <1>5, <1>6, <1>7, <1>8, BoundsAssumption, <1>16,
       WriteStreamCases DEF FetchRoom, JobType, InTypes, AmountRoom, CountTypes,
       WireInv, JobInv, WireType, NoJob, Requests, Runs, Begins, stream, incoming,
       line, remote, seen, counts
<1>17. CASE RequestStart
    BY <1>1, <1>2, <1>3, <1>4, <1>5, <1>6, <1>7, <1>8, BoundsAssumption, <1>17,
       StartCases DEF FetchRoom, JobType, InTypes, AmountRoom, CountTypes, WireInv,
       JobInv, WireType, NoJob, Requests, Runs, Begins, line, remote
<1>18. CASE RoutePublished
    BY <1>1, <1>2, <1>3, <1>4, <1>5, <1>6, <1>7, <1>8, <1>18, BoundsAssumption DEF
       FetchRoom, JobType, InTypes, AmountRoom, CountTypes, WireInv, JobInv,
       WireType, NoJob, Requests, Runs, RoutePublished, incoming, line, remote, seen,
       counts
<1>19. CASE RequestLegacy
    BY SMTT(30), <1>1, <1>2, <1>3, <1>4, <1>5, <1>6, <1>7, <1>8, BoundsAssumption, <1>19,
       LegacyCases DEF FetchRoom, JobType, InTypes, AmountRoom, CountTypes, WireInv,
       JobInv, WireType, NoJob, Requests, Runs, StopBegins, Begins, OnlyLeaves,
       incoming, line, remote, seen, counts
<1>20. CASE Leave
    BY <1>1, <1>2, <1>3, <1>4, <1>5, <1>6, <1>7, <1>8, <1>20, BoundsAssumption DEF
       FetchRoom, JobType, InTypes, AmountRoom, CountTypes, WireInv, JobInv,
       WireType, NoJob, Requests, Runs, Leave, incoming, line, remote, seen, counts
<1>21. CASE SelectEnd
    BY <1>1, <1>2, <1>3, <1>4, <1>5, <1>6, <1>7, <1>8, <1>21, BoundsAssumption DEF
       FetchRoom, JobType, InTypes, AmountRoom, CountTypes, WireInv, JobInv,
       WireType, NoJob, Requests, Runs, SelectEnd, Serving, incoming, remote, seen,
       counts
<1>22. CASE PeerAnswers
  <2>1. CASE AnswersOpen
    BY <1>1, <1>2, <1>3, <1>6, <1>7, <1>22, <2>1, AnswerCases DEF FetchRoom, JobType,
       InTypes, AmountRoom, CountTypes, WireInv, JobInv, WireType, NoJob, Requests,
       Runs, AnswersOpen, Answers, stream, incoming, seen
  <2>2. CASE AnswersAmount
    BY <1>1, <1>2, <1>3, <1>4, <1>5, <1>6, <1>7, <1>8, BoundsAssumption, <1>22, <2>2,
       AnswerCases DEF FetchRoom, JobType, InTypes, AmountRoom, CountTypes, WireInv,
       JobInv, WireType, NoJob, Requests, Runs, AnswersAmount, Answers, stream,
       incoming, seen
  <2>3. CASE AnswersRest
    BY <1>1, <1>2, <1>3, <1>4, <1>5, <1>6, <1>7, <1>8, BoundsAssumption, <1>22, <2>3,
       AnswerCases DEF FetchRoom, JobType, InTypes, AmountRoom, CountTypes, WireInv,
       JobInv, WireType, NoJob, Requests, Runs, AnswersRest, Answers, stream,
       incoming, seen
  <2> QED BY <1>22, <2>1, <2>2, <2>3, AnswerCases
<1>23. CASE PeerQueues
    BY SMTT(30), <1>1, <1>2, <1>3, BoundsAssumption, <1>23, QueueCases, QueueTypes DEF FetchRoom,
       JobType, InTypes, AmountRoom, CountTypes, WireInv, JobInv, WireType, NoJob,
       Requests, Runs, stream, incoming, line, seen
<1>24. CASE ReplyStarts
    BY <1>1, <1>2, <1>3, <1>4, <1>5, <1>6, <1>7, <1>8, <1>24, BoundsAssumption DEF
       FetchRoom, JobType, InTypes, AmountRoom, CountTypes, WireInv, JobInv,
       WireType, NoJob, Requests, Runs, ReplyStarts, stream, incoming, remote, seen,
       counts
<1>25. CASE ReplyEnds
    BY <1>1, <1>2, <1>3, <1>4, <1>5, <1>6, <1>7, <1>8, <1>25, BoundsAssumption DEF
       FetchRoom, JobType, InTypes, AmountRoom, CountTypes, WireInv, JobInv,
       WireType, NoJob, Requests, Runs, ReplyEnds, stream, incoming, remote, seen,
       counts
<1>26. CASE Reset
    BY <1>1, <1>2, <1>3, <1>4, <1>5, <1>6, <1>7, <1>8, <1>26, BoundsAssumption DEF
       FetchRoom, JobType, InTypes, AmountRoom, CountTypes, WireInv, JobInv,
       WireType, NoJob, Requests, Runs, Reset, Quiet, Closed
<1> QED BY <1>9, <1>10, <1>11, <1>12, <1>13, <1>14, <1>15, <1>16, <1>17, <1>18,
   <1>19, <1>20, <1>21, <1>22, <1>23, <1>24, <1>25, <1>26 DEF Next

\* There is as much to fetch as the peer has said.
LEMMA AmountRoomStep == IInv /\ [Next]_vars => AmountRoom'
<1> SUFFICES ASSUME IInv, [Next]_vars PROVE AmountRoom'
    OBVIOUS
<1>1. AmountRoom
    BY DEF IInv
<1>2. WireType
    BY DEF IInv
<1>3. WireInv
    BY DEF IInv
<1>4. InTypes
    BY DEF IInv
<1>5. JobInv
    BY DEF IInv
<1>6. CASE UNCHANGED vars
    BY <1>1, <1>2, <1>3, <1>4, <1>5, <1>6, BoundsAssumption DEF AmountRoom, WireType,
       WireInv, InTypes, JobInv, Quiet, NoJob, vars, stream, incoming, line, remote,
       seen, counts
<1>7. CASE TickOnly
    BY <1>1, <1>2, <1>3, <1>7, TickCases, InterruptFacts DEF AmountRoom, stream, remote,
       counts
<1>8. CASE TickServes
    BY <1>1, <1>2, <1>3, <1>8, ServesCases, InterruptFacts DEF AmountRoom, Begins,
       stream, remote, counts
<1>9. CASE JobStep
  <2>1. CASE Flush
      BY <1>1, <1>2, <1>3, <1>4, <1>5, BoundsAssumption, <2>1, FlushCases DEF
         AmountRoom, WireType, WireInv, InTypes, JobInv, Quiet, NoJob, FlushSends,
         Moves, FlushEnds, StopDrains, ServicePolls, Runs, stream, incoming, line,
         remote, seen, counts
  <2>2. CASE Reserve
      BY <1>1, <1>2, <1>3, <1>4, <1>5, BoundsAssumption, <2>2, ReserveCases DEF
         AmountRoom, WireType, WireInv, InTypes, JobInv, Quiet, NoJob, AsksSession,
         Asks, Moves, Continue, AsksOffer, AsksPoll, AsksStop, incoming, remote,
         seen, counts
  <2>3. CASE Refused
      BY <1>1, <1>2, <1>3, <1>4, <1>5, BoundsAssumption, <2>3, RefusedCases DEF
         AmountRoom, WireType, WireInv, InTypes, JobInv, Quiet, NoJob, ServiceFails,
         Runs, Moves, StartFails, OtherFails, incoming, remote, seen, counts
  <2>4. CASE Negotiated
      BY <1>1, <1>2, <1>3, <1>4, <1>5, BoundsAssumption, <2>4, NegotiatedCases DEF
         AmountRoom, WireType, WireInv, InTypes, JobInv, Quiet, NoJob, Opens, Runs,
         Asks, Moves, Continue, Offers, incoming, remote, seen, counts
  <2>5. CASE Opened
    BY <1>1, <1>2, <1>3, <1>4, <1>5, <2>5, BoundsAssumption DEF AmountRoom, WireType,
       WireInv, InTypes, JobInv, Quiet, NoJob, Opened, Answered, incoming, remote,
       seen, counts, At
  <2>6. CASE Offered
    BY <1>1, <1>2, <1>3, <1>4, <1>5, <2>6, BoundsAssumption DEF AmountRoom, WireType,
       WireInv, InTypes, JobInv, Quiet, NoJob, Offered, Answered, Goto, incoming,
       remote, seen, counts, At
  <2>7. CASE Polled
      BY <1>1, <1>2, <1>3, <1>4, <1>5, BoundsAssumption, <2>7, PolledCases DEF
         AmountRoom, WireType, WireInv, InTypes, JobInv, Quiet, NoJob, PollFetches,
         Fetches, Continue, PollFails, ServiceFails, StartFails, OtherFails, Runs,
         Moves, PollEnds, remote, seen, counts
  <2>8. CASE BlockDone
      BY <1>1, <1>2, <1>3, <1>4, <1>5, BoundsAssumption, <2>8, BlockCases DEF
         AmountRoom, WireType, WireInv, InTypes, JobInv, Quiet, NoJob, BlockGoes,
         incoming, WriteEnds, WriteGoesOn, StopDrains, ServicePolls, Runs, Moves,
         BlockComes, line, seen
  <2>9. CASE Copy
      BY <1>1, <1>2, <1>3, <1>4, <1>5, BoundsAssumption, <2>9, CopyCases DEF AmountRoom,
         WireType, WireInv, InTypes, JobInv, Quiet, NoJob, CopyFills, CopyEnds, Runs,
         incoming, line, remote, seen
  <2>10. CASE StopAnswered
      BY <1>1, <1>2, <1>3, <1>4, <1>5, BoundsAssumption, <2>10, StopCases DEF AmountRoom,
         WireType, WireInv, InTypes, JobInv, Quiet, NoJob, StreamEnds, StopFetches,
         Fetches, Continue, StopFails, Runs, incoming, remote, seen, counts
  <2>11. CASE ServiceEnd
      BY <1>1, <1>2, <1>3, <2>11, EndCases, InterruptFacts DEF AmountRoom, stream,
         remote, counts
  <2> QED BY <1>9, <2>1, <2>2, <2>3, <2>4, <2>5, <2>6, <2>7, <2>8, <2>9, <2>10, <2>11
     DEF JobStep
<1>10. CASE Trouble
  <2>1. CASE ExchangeFails
      BY <1>1, <1>2, <1>3, <1>4, <1>5, BoundsAssumption, <2>1, ExchangeCases DEF
         AmountRoom, WireType, WireInv, InTypes, JobInv, Quiet, NoJob, ServiceFails,
         Runs, Moves, StartFails, OtherFails, Requests, incoming, remote, seen
  <2>2. CASE BlockFails
      BY <1>1, <1>2, <1>3, <1>4, <1>5, BoundsAssumption, <2>2, BlockFailCases DEF
         AmountRoom, WireType, WireInv, InTypes, JobInv, Quiet, NoJob, ServiceFails,
         Runs, Moves, StartFails, OtherFails, incoming, remote
  <2>3. CASE DrainDeadline
      BY <1>1, <1>2, <1>3, <1>4, <1>5, BoundsAssumption, <2>3, DrainCases DEF
         AmountRoom, WireType, WireInv, InTypes, JobInv, Quiet, NoJob, ServiceFails,
         Runs, Moves, StartFails, OtherFails, incoming, remote, seen
  <2>4. CASE Fault
    BY <1>1, <1>2, <1>3, <1>4, <1>5, <2>4, BoundsAssumption DEF AmountRoom, WireType,
       WireInv, InTypes, JobInv, Quiet, NoJob, Fault, stream, incoming, remote, seen
  <2>5. CASE SelectBegin
    BY <1>1, <1>2, <1>3, <1>4, <1>5, <2>5, BoundsAssumption DEF AmountRoom, WireType,
       WireInv, InTypes, JobInv, Quiet, NoJob, SelectBegin, Idle, incoming, line,
       remote, seen
  <2> QED BY <1>10, <2>1, <2>2, <2>3, <2>4, <2>5 DEF Trouble
<1>11. CASE WriteByte
    BY <1>1, <1>2, <1>3, <1>4, <1>5, BoundsAssumption, <1>11, WriteByteCases DEF
       AmountRoom, WireType, WireInv, InTypes, JobInv, Quiet, NoJob, Appends, Bounds,
       incoming, line, remote, seen
<1>12. CASE BoundaryByte
    BY <1>1, <1>2, <1>3, <1>4, <1>5, BoundsAssumption, <1>12, BoundaryCases DEF
       AmountRoom, WireType, WireInv, InTypes, JobInv, Quiet, NoJob, Writes, Begins,
       Loses, incoming, line, remote, seen, counts
<1>13. ASSUME NEW n \in 1 .. MaxOut, WriteStream(n) PROVE AmountRoom'
    BY <1>1, <1>2, <1>3, <1>4, <1>5, BoundsAssumption, <1>13, WriteStreamCases DEF
       AmountRoom, WireType, WireInv, InTypes, JobInv, Quiet, NoJob, Begins, stream,
       incoming, line, remote, seen, counts
<1>14. CASE RequestStart
    BY <1>1, <1>2, <1>3, <1>4, <1>5, BoundsAssumption, <1>14, StartCases DEF AmountRoom,
       WireType, WireInv, InTypes, JobInv, Quiet, NoJob, Begins, line, remote
<1>15. CASE RoutePublished
    BY <1>1, <1>2, <1>3, <1>4, <1>5, <1>15, BoundsAssumption DEF AmountRoom,
       WireType, WireInv, InTypes, JobInv, Quiet, NoJob, RoutePublished, incoming,
       line, remote, seen, counts
<1>16. CASE RequestLegacy
    BY <1>1, <1>2, <1>3, <1>4, <1>5, BoundsAssumption, <1>16, LegacyCases DEF AmountRoom,
       WireType, WireInv, InTypes, JobInv, Quiet, NoJob, StopBegins, Begins,
       OnlyLeaves, incoming, line, remote, seen, counts
<1>17. CASE Leave
    BY <1>1, <1>2, <1>3, <1>4, <1>5, <1>17, BoundsAssumption DEF AmountRoom,
       WireType, WireInv, InTypes, JobInv, Quiet, NoJob, Leave, incoming, line,
       remote, seen, counts
<1>18. CASE SelectEnd
    BY <1>1, <1>2, <1>3, <1>4, <1>5, <1>18, BoundsAssumption DEF AmountRoom,
       WireType, WireInv, InTypes, JobInv, Quiet, NoJob, SelectEnd, Serving,
       incoming, remote, seen, counts
<1>19. CASE PeerAnswers
  <2>1. CASE AnswersOpen
    BY <1>1, <1>2, <1>3, <1>4, <1>5, BoundsAssumption, <1>19, <2>1, AnswerCases DEF
       AmountRoom, WireType, WireInv, InTypes, JobInv, Quiet, NoJob, AnswersOpen,
       Answers, stream, incoming, seen
  <2>2. CASE AnswersAmount
    BY <1>1, <1>2, <1>3, <1>4, <1>5, BoundsAssumption, <1>19, <2>2, AnswerCases DEF
       AmountRoom, WireType, WireInv, InTypes, JobInv, Quiet, NoJob, AnswersAmount,
       Answers, stream, incoming, seen
  <2>3. CASE AnswersRest
    BY <1>1, <1>2, <1>3, <1>4, <1>5, BoundsAssumption, <1>19, <2>3, AnswerCases DEF
       AmountRoom, WireType, WireInv, InTypes, JobInv, Quiet, NoJob, AnswersRest,
       Answers, stream, incoming, seen
  <2> QED BY <1>19, <2>1, <2>2, <2>3, AnswerCases
<1>20. CASE PeerQueues
    BY <1>1, <1>2, <1>3, <1>4, <1>5, BoundsAssumption, <1>20, QueueCases DEF AmountRoom,
       WireType, WireInv, InTypes, JobInv, Quiet, NoJob, stream, incoming, line, seen
<1>21. CASE ReplyStarts
    BY <1>1, <1>2, <1>3, <1>4, <1>5, <1>21, BoundsAssumption DEF AmountRoom,
       WireType, WireInv, InTypes, JobInv, Quiet, NoJob, ReplyStarts, stream,
       incoming, remote, seen, counts
<1>22. CASE ReplyEnds
    BY <1>1, <1>2, <1>3, <1>4, <1>5, <1>22, BoundsAssumption DEF AmountRoom,
       WireType, WireInv, InTypes, JobInv, Quiet, NoJob, ReplyEnds, stream, incoming,
       remote, seen, counts
<1>23. CASE Reset
    BY <1>1, <1>2, <1>3, <1>4, <1>5, <1>23, BoundsAssumption DEF AmountRoom,
       WireType, WireInv, InTypes, JobInv, Quiet, NoJob, Reset, Closed
<1> QED BY <1>6, <1>7, <1>8, <1>9, <1>10, <1>11, <1>12, <1>13, <1>14, <1>15, <1>16,
   <1>17, <1>18, <1>19, <1>20, <1>21, <1>22, <1>23 DEF Next

\* A stop that drains has sent everything.
LEMMA OutDrainedStep == IInv /\ [Next]_vars => OutDrained'
<1> SUFFICES ASSUME IInv, [Next]_vars PROVE OutDrained'
    OBVIOUS
<1>1. OutDrained
    BY DEF IInv
<1>2. JobInv
    BY DEF IInv
<1>3. JobType
    BY DEF IInv
<1>4. FlagTypes
    BY DEF IInv
<1>5. CountTypes
    BY DEF IInv
<1>6. CASE UNCHANGED vars
    BY <1>1, <1>2, <1>3, <1>4, <1>5, <1>6, BoundsAssumption DEF OutDrained, JobInv,
       JobType, FlagTypes, CountTypes, NoJob, Runs, vars, stream, incoming, line,
       remote, seen, counts
<1>7. CASE TickOnly
    BY <1>1, <1>2, <1>3, <1>4, <1>5, BoundsAssumption, <1>7, TickCases DEF OutDrained,
       JobInv, JobType, FlagTypes, CountTypes, NoJob, Runs, Discards, TakesSome,
       Takes, Interrupts, stream, remote, counts
<1>8. CASE TickServes
    BY <1>1, <1>2, <1>3, <1>4, <1>5, BoundsAssumption, <1>8, ServesCases DEF OutDrained,
       JobInv, JobType, FlagTypes, CountTypes, NoJob, Runs, Discards, TakesSome,
       Takes, TakesNone, incoming, Begins, Interrupts, stream, remote, counts
<1>9. CASE JobStep
  <2>1. CASE Flush
      BY <1>1, <1>2, <1>3, <1>4, <1>5, BoundsAssumption, <2>1, FlushCases DEF
         OutDrained, JobInv, JobType, FlagTypes, CountTypes, NoJob, Runs, FlushSends,
         Moves, FlushEnds, StopDrains, ServicePolls, stream, incoming, line, remote,
         seen, counts
  <2>2. CASE Reserve
      BY <1>1, <1>2, <1>3, <1>4, <1>5, BoundsAssumption, <2>2, ReserveCases DEF
         OutDrained, JobInv, JobType, FlagTypes, CountTypes, NoJob, Runs,
         AsksSession, Asks, Moves, Continue, AsksOffer, AsksPoll, AsksStop, incoming,
         remote, seen, counts
  <2>3. CASE Refused
    <3>1. CASE ServiceFails
      BY <1>1, <1>2, <1>3, <1>4, <1>5, BoundsAssumption, <2>3, <3>1, RefusedCases DEF
         OutDrained, JobInv, JobType, FlagTypes, CountTypes, NoJob, Runs,
         ServiceFails, Moves, incoming, remote, seen, counts
    <3>2. CASE StartFails
      BY <1>1, <1>2, <1>3, <1>4, <1>5, BoundsAssumption, <2>3, <3>2, RefusedCases DEF
         OutDrained, JobInv, JobType, FlagTypes, CountTypes, NoJob, Runs, StartFails,
         incoming, remote, seen, counts
    <3>3. CASE OtherFails
      BY <1>1, <1>2, <1>3, <1>4, <1>5, BoundsAssumption, <2>3, <3>3, RefusedCases DEF
         OutDrained, JobInv, JobType, FlagTypes, CountTypes, NoJob, Runs, OtherFails,
         incoming, remote, seen, counts
    <3> QED BY <2>3, <3>1, <3>2, <3>3, RefusedCases
  <2>4. CASE Negotiated
      BY <1>1, <1>2, <1>3, <1>4, <1>5, BoundsAssumption, <2>4, NegotiatedCases DEF
         OutDrained, JobInv, JobType, FlagTypes, CountTypes, NoJob, Runs, Opens,
         Asks, Moves, Continue, Offers, incoming, remote, seen, counts
  <2>5. CASE Opened
    BY <1>1, <1>2, <1>3, <1>4, <1>5, <2>5, BoundsAssumption DEF OutDrained, JobInv,
       JobType, FlagTypes, CountTypes, NoJob, Runs, Opened, Answered, Quiet,
       incoming, remote, seen, counts, At
  <2>6. CASE Offered
    BY <1>1, <1>2, <1>3, <1>4, <1>5, <2>6, BoundsAssumption DEF OutDrained, JobInv,
       JobType, FlagTypes, CountTypes, NoJob, Runs, Offered, Answered, Quiet, Goto,
       incoming, remote, seen, counts, At
  <2>7. CASE Polled
    <3>1. CASE PollFetches
      BY <1>1, <1>2, <1>3, <1>4, <1>5, BoundsAssumption, <2>7, <3>1, PolledCases DEF
         OutDrained, JobInv, JobType, FlagTypes, CountTypes, NoJob, Runs,
         PollFetches, Fetches, Continue, Quiet, remote, seen, counts
    <3>2. CASE PollFails
      <4>1. CASE ServiceFails
        BY <1>1, <1>2, <1>3, <1>4, <1>5, BoundsAssumption, <2>7, <3>2, <4>1, PolledCases
           DEF PollFails, OutDrained, JobInv, JobType, FlagTypes, CountTypes, NoJob,
           Runs, ServiceFails, Moves, Quiet, remote, seen, counts
      <4>2. CASE StartFails
        BY <1>1, <1>2, <1>3, <1>4, <1>5, BoundsAssumption, <2>7, <3>2, <4>2, PolledCases
           DEF PollFails, OutDrained, JobInv, JobType, FlagTypes, CountTypes, NoJob,
           Runs, StartFails, Quiet, remote, seen, counts
      <4>3. CASE OtherFails
        BY <1>1, <1>2, <1>3, <1>4, <1>5, BoundsAssumption, <2>7, <3>2, <4>3, PolledCases
           DEF PollFails, OutDrained, JobInv, JobType, FlagTypes, CountTypes, NoJob,
           Runs, OtherFails, Quiet, remote, seen, counts
      <4> QED BY <3>2, <4>1, <4>2, <4>3 DEF PollFails
    <3>3. CASE PollEnds
      BY <1>1, <1>2, <1>3, <1>4, <1>5, BoundsAssumption, <2>7, <3>3, PolledCases DEF
         OutDrained, JobInv, JobType, FlagTypes, CountTypes, NoJob, Runs, PollEnds,
         Moves, Continue, Quiet, remote, seen, counts
    <3> QED BY <2>7, <3>1, <3>2, <3>3, PolledCases
  <2>8. CASE BlockDone
    <3>1. CASE BlockGoes
      BY <1>1, <1>2, <1>3, <1>4, <1>5, BoundsAssumption, <2>8, <3>1, BlockCases DEF
         OutDrained, JobInv, JobType, FlagTypes, CountTypes, NoJob, Runs, BlockGoes,
         incoming, WriteEnds, WriteGoesOn, StopDrains, ServicePolls, Moves, line,
         seen
    <3>2. CASE BlockComes
      BY <1>1, <1>2, <1>3, <1>4, <1>5, BoundsAssumption, <2>8, <3>2, BlockCases DEF
         OutDrained, JobInv, JobType, FlagTypes, CountTypes, NoJob, Runs, BlockComes,
         line, seen
    <3> QED BY <2>8, <3>1, <3>2, BlockCases
  <2>9. CASE Copy
      BY SMTT(30), <1>1, <1>2, <1>3, <1>4, <1>5, BoundsAssumption, <2>9, CopyCases DEF OutDrained,
         JobInv, JobType, FlagTypes, CountTypes, NoJob, Runs, CopyFills, CopyEnds,
         incoming, line, remote, seen
  <2>10. CASE StopAnswered
      BY <1>1, <1>2, <1>3, <1>4, <1>5, BoundsAssumption, <2>10, StopCases DEF OutDrained,
         JobInv, JobType, FlagTypes, CountTypes, NoJob, Runs, StreamEnds,
         StopFetches, Fetches, Continue, StopFails, Quiet, incoming, remote, seen,
         counts
  <2>11. CASE ServiceEnd
      BY <1>1, <1>2, <1>3, <1>4, <1>5, BoundsAssumption, <2>11, EndCases DEF OutDrained,
         JobInv, JobType, FlagTypes, CountTypes, NoJob, Runs, Discards, TakesSome,
         Takes, Interrupts, stream, remote, counts
  <2> QED BY <1>9, <2>1, <2>2, <2>3, <2>4, <2>5, <2>6, <2>7, <2>8, <2>9, <2>10, <2>11
     DEF JobStep
<1>10. CASE Trouble
  <2>1. CASE ExchangeFails
    <3>1. CASE ServiceFails
      BY <1>1, <1>2, <1>3, <1>4, <1>5, BoundsAssumption, <2>1, <3>1, ExchangeCases DEF
         OutDrained, JobInv, JobType, FlagTypes, CountTypes, NoJob, Runs,
         ServiceFails, Moves, Requests, Quiet, incoming, remote, seen
    <3>2. CASE StartFails
      BY <1>1, <1>2, <1>3, <1>4, <1>5, BoundsAssumption, <2>1, <3>2, ExchangeCases DEF
         OutDrained, JobInv, JobType, FlagTypes, CountTypes, NoJob, Runs, StartFails,
         Requests, Quiet, incoming, remote, seen
    <3>3. CASE OtherFails
      BY <1>1, <1>2, <1>3, <1>4, <1>5, BoundsAssumption, <2>1, <3>3, ExchangeCases DEF
         OutDrained, JobInv, JobType, FlagTypes, CountTypes, NoJob, Runs, OtherFails,
         Requests, Quiet, incoming, remote, seen
    <3> QED BY <2>1, <3>1, <3>2, <3>3, ExchangeCases
  <2>2. CASE BlockFails
    <3>1. CASE ServiceFails
      BY <1>1, <1>2, <1>3, <1>4, <1>5, BoundsAssumption, <2>2, <3>1, BlockFailCases DEF
         OutDrained, JobInv, JobType, FlagTypes, CountTypes, NoJob, Runs,
         ServiceFails, Moves, incoming, remote
    <3>2. CASE StartFails
      BY <1>1, <1>2, <1>3, <1>4, <1>5, BoundsAssumption, <2>2, <3>2, BlockFailCases DEF
         OutDrained, JobInv, JobType, FlagTypes, CountTypes, NoJob, Runs, StartFails,
         incoming, remote
    <3>3. CASE OtherFails
      BY <1>1, <1>2, <1>3, <1>4, <1>5, BoundsAssumption, <2>2, <3>3, BlockFailCases DEF
         OutDrained, JobInv, JobType, FlagTypes, CountTypes, NoJob, Runs, OtherFails,
         incoming, remote
    <3> QED BY <2>2, <3>1, <3>2, <3>3, BlockFailCases
  <2>3. CASE DrainDeadline
    <3>1. CASE ServiceFails
      BY <1>1, <1>2, <1>3, <1>4, <1>5, BoundsAssumption, <2>3, <3>1, DrainCases DEF
         OutDrained, JobInv, JobType, FlagTypes, CountTypes, NoJob, Runs,
         ServiceFails, Moves, incoming, remote, seen
    <3>2. CASE StartFails
      BY <1>1, <1>2, <1>3, <1>4, <1>5, BoundsAssumption, <2>3, <3>2, DrainCases DEF
         OutDrained, JobInv, JobType, FlagTypes, CountTypes, NoJob, Runs, StartFails,
         incoming, remote, seen
    <3>3. CASE OtherFails
      BY <1>1, <1>2, <1>3, <1>4, <1>5, BoundsAssumption, <2>3, <3>3, DrainCases DEF
         OutDrained, JobInv, JobType, FlagTypes, CountTypes, NoJob, Runs, OtherFails,
         incoming, remote, seen
    <3> QED BY <2>3, <3>1, <3>2, <3>3, DrainCases
  <2>4. CASE Fault
    BY <1>1, <1>2, <1>3, <1>4, <1>5, <2>4, BoundsAssumption DEF OutDrained, JobInv,
       JobType, FlagTypes, CountTypes, NoJob, Runs, Fault, stream, incoming, remote,
       seen
  <2>5. CASE SelectBegin
    BY <1>1, <1>2, <1>3, <1>4, <1>5, <2>5, BoundsAssumption DEF OutDrained, JobInv,
       JobType, FlagTypes, CountTypes, NoJob, Runs, SelectBegin, Idle, incoming,
       line, remote, seen
  <2> QED BY <1>10, <2>1, <2>2, <2>3, <2>4, <2>5 DEF Trouble
<1>11. CASE WriteByte
    BY <1>1, <1>2, <1>3, <1>4, <1>5, BoundsAssumption, <1>11, WriteByteCases DEF
       OutDrained, JobInv, JobType, FlagTypes, CountTypes, NoJob, Runs, Appends,
       Bounds, incoming, line, remote, seen
<1>12. CASE BoundaryByte
    BY <1>1, <1>2, <1>3, <1>4, <1>5, BoundsAssumption, <1>12, BoundaryCases DEF
       OutDrained, JobInv, JobType, FlagTypes, CountTypes, NoJob, Runs, Writes,
       Begins, Loses, incoming, line, remote, seen, counts
<1>13. ASSUME NEW n \in 1 .. MaxOut, WriteStream(n) PROVE OutDrained'
    BY <1>1, <1>2, <1>3, <1>4, <1>5, BoundsAssumption, <1>13, WriteStreamCases DEF
       OutDrained, JobInv, JobType, FlagTypes, CountTypes, NoJob, Runs, Begins,
       stream, incoming, line, remote, seen, counts
<1>14. CASE RequestStart
    BY <1>1, <1>2, <1>3, <1>4, <1>5, BoundsAssumption, <1>14, StartCases DEF OutDrained,
       JobInv, JobType, FlagTypes, CountTypes, NoJob, Runs, Begins, line, remote
<1>15. CASE RoutePublished
    BY <1>1, <1>2, <1>3, <1>4, <1>5, <1>15, BoundsAssumption DEF OutDrained, JobInv,
       JobType, FlagTypes, CountTypes, NoJob, Runs, RoutePublished, incoming, line,
       remote, seen, counts
<1>16. CASE RequestLegacy
    BY <1>1, <1>2, <1>3, <1>4, <1>5, BoundsAssumption, <1>16, LegacyCases DEF OutDrained,
       JobInv, JobType, FlagTypes, CountTypes, NoJob, Runs, StopBegins, Begins,
       OnlyLeaves, incoming, line, remote, seen, counts
<1>17. CASE Leave
    BY <1>1, <1>2, <1>3, <1>4, <1>5, <1>17, BoundsAssumption DEF OutDrained, JobInv,
       JobType, FlagTypes, CountTypes, NoJob, Runs, Leave, incoming, line, remote,
       seen, counts
<1>18. CASE SelectEnd
    BY <1>1, <1>2, <1>3, <1>4, <1>5, <1>18, BoundsAssumption DEF OutDrained, JobInv,
       JobType, FlagTypes, CountTypes, NoJob, Runs, SelectEnd, Serving, incoming,
       remote, seen, counts
<1>19. CASE PeerAnswers
    BY <1>1, <1>2, <1>3, <1>4, <1>5, BoundsAssumption, <1>19, AnswerCases DEF OutDrained,
       JobInv, JobType, FlagTypes, CountTypes, NoJob, Runs, AnswersOpen, Answers,
       AnswersAmount, AnswersRest, stream, incoming, seen
<1>20. CASE PeerQueues
    BY <1>1, <1>2, <1>3, <1>4, <1>5, BoundsAssumption, <1>20, QueueCases DEF OutDrained,
       JobInv, JobType, FlagTypes, CountTypes, NoJob, Runs, stream, incoming, line,
       seen
<1>21. CASE ReplyStarts
    BY <1>1, <1>2, <1>3, <1>4, <1>5, <1>21, BoundsAssumption DEF OutDrained, JobInv,
       JobType, FlagTypes, CountTypes, NoJob, Runs, ReplyStarts, stream, incoming,
       remote, seen, counts
<1>22. CASE ReplyEnds
    BY <1>1, <1>2, <1>3, <1>4, <1>5, <1>22, BoundsAssumption DEF OutDrained, JobInv,
       JobType, FlagTypes, CountTypes, NoJob, Runs, ReplyEnds, stream, incoming,
       remote, seen, counts
<1>23. CASE Reset
    BY <1>1, <1>2, <1>3, <1>4, <1>5, <1>23, BoundsAssumption DEF OutDrained, JobInv,
       JobType, FlagTypes, CountTypes, NoJob, Runs, Reset, Quiet, Closed
<1> QED BY <1>6, <1>7, <1>8, <1>9, <1>10, <1>11, <1>12, <1>13, <1>14, <1>15, <1>16,
   <1>17, <1>18, <1>19, <1>20, <1>21, <1>22, <1>23 DEF Next

\* What is sent and what waits stay the bytes written.
LEMMA OutOrderStep == IInv /\ [Next]_vars => OutOrder'
<1> SUFFICES ASSUME IInv, [Next]_vars PROVE OutOrder'
    OBVIOUS
<1>1. OutOrder
    BY DEF IInv
<1>2. FlagTypes
    BY DEF IInv
<1>3. CASE UNCHANGED vars
    BY <1>1, <1>2, <1>3 DEF OutOrder, FlagTypes, vars, stream, incoming, line,
       remote, seen, counts
<1>4. CASE TickOnly
    BY <1>1, <1>2, <1>4, TickCases DEF OutOrder, FlagTypes, Discards, TakesSome, Takes,
       Interrupts, stream, remote, counts
<1>5. CASE TickServes
    BY <1>1, <1>2, <1>5, ServesCases DEF OutOrder, FlagTypes, Discards, TakesSome,
       Takes, TakesNone, incoming, NoJob, Begins, Interrupts, stream, remote, counts
<1>6. CASE JobStep
  <2>1. CASE Flush
      BY <1>1, <1>2, <2>1, FlushCases DEF OutOrder, FlagTypes, FlushSends, Moves,
         FlushEnds, StopDrains, ServicePolls, Runs, stream, incoming, line, remote,
         seen, counts
  <2>2. CASE Reserve
      BY <1>1, <1>2, <2>2, ReserveCases DEF OutOrder, FlagTypes, AsksSession, Asks,
         Moves, Continue, AsksOffer, AsksPoll, AsksStop, incoming, remote, seen,
         counts
  <2>3. CASE Refused
      BY <1>1, <1>2, <2>3, RefusedCases DEF OutOrder, FlagTypes, ServiceFails, Runs,
         Moves, StartFails, NoJob, OtherFails, incoming, remote, seen, counts
  <2>4. CASE Negotiated
      BY <1>1, <1>2, <2>4, NegotiatedCases DEF OutOrder, FlagTypes, Opens, Runs, Asks,
         Moves, Continue, Offers, incoming, remote, seen, counts
  <2>5. CASE Opened
    BY <1>1, <1>2, <2>5 DEF OutOrder, FlagTypes, Opened, Answered, NoJob, Quiet,
       incoming, remote, seen, counts, At
  <2>6. CASE Offered
    BY <1>1, <1>2, <2>6 DEF OutOrder, FlagTypes, Offered, Answered, Quiet, Goto,
       incoming, remote, seen, counts, At
  <2>7. CASE Polled
      BY <1>1, <1>2, <2>7, PolledCases DEF OutOrder, FlagTypes, PollFetches, Fetches,
         Continue, PollFails, ServiceFails, StartFails, OtherFails, Runs, Moves,
         NoJob, PollEnds, Quiet, remote, seen, counts
  <2>8. CASE BlockDone
    <3>1. CASE BlockGoes
      <4>1. got \in Seq(1 .. MaxOut) /\ out \in Seq(1 .. MaxOut)
          BY DEF IInv, OutTypes
      <4>2. got' = got \o out /\ out' = <<>> /\ lossy' = lossy /\ written' = written
          BY <2>8, <3>1, BlockCases DEF BlockGoes, incoming, seen
      <4>3. Sent(got, out, written) => Sent(got \o out, <<>>, written)
          BY <4>1, SentAll
      <4> QED BY <1>1, <4>2, <4>3 DEF OutOrder
    <3>2. CASE BlockComes
      BY <1>1, <1>2, <2>8, <3>2, BlockCases DEF OutOrder, FlagTypes, BlockComes, Runs,
         line, seen
    <3> QED BY <2>8, <3>1, <3>2, BlockCases
  <2>9. CASE Copy
    <3>1. CASE CopyFills
      <4>1. /\ got \in Seq(1 .. MaxOut) /\ out \in Seq(1 .. MaxOut) /\ out' \in Seq(1 .. MaxOut) /\ written \in Nat
          BY <2>9, CopyTypes, BoundsAssumption DEF IInv, OutTypes, CountTypes
      <4>2. /\ Len(out') = Len(out) + Part /\ \A i \in 1 .. Len(out) : out'[i] = out[i]
            /\ \A i \in 1 .. Part : out'[Len(out) + i] = written + i
          BY <2>9, CopyTypes
      <4>3. Part \in Nat /\ lossy' = lossy /\ got' = got /\ written' = written + Part
          BY <2>9, CopyCases, BoundsAssumption DEF seen
      <4>4. Sent(got, out, written) => Sent(got, out', written + Part)
          BY <4>1, <4>2, <4>3, SentMore
      <4> QED BY <1>1, <4>3, <4>4 DEF OutOrder
    <3>2. CASE CopyEnds
      <4>1. /\ got \in Seq(1 .. MaxOut) /\ out \in Seq(1 .. MaxOut) /\ out' \in Seq(1 .. MaxOut) /\ written \in Nat
          BY <2>9, CopyTypes, BoundsAssumption DEF IInv, OutTypes, CountTypes
      <4>2. /\ Len(out') = Len(out) + Part /\ \A i \in 1 .. Len(out) : out'[i] = out[i]
            /\ \A i \in 1 .. Part : out'[Len(out) + i] = written + i
          BY <2>9, CopyTypes
      <4>3. Part \in Nat /\ lossy' = lossy /\ got' = got /\ written' = written + Part
          BY <2>9, CopyCases, BoundsAssumption DEF seen
      <4>4. Sent(got, out, written) => Sent(got, out', written + Part)
          BY <4>1, <4>2, <4>3, SentMore
      <4> QED BY <1>1, <4>3, <4>4 DEF OutOrder
    <3> QED BY <2>9, <3>1, <3>2, CopyCases
  <2>10. CASE StopAnswered
    <3>1. CASE StreamEnds
      <4>1. out = <<>>
          BY <2>10, StopCases DEF IInv, OutDrained
      <4>2. out' = out /\ UNCHANGED <<lossy, got, written>>
          BY <4>1, <2>10, <3>1, StopCases DEF StreamEnds, seen, counts
      <4> QED BY <1>1, <4>2 DEF OutOrder
    <3>2. CASE StopFetches
      BY <1>1, <1>2, <2>10, <3>2, StopCases DEF OutOrder, FlagTypes, StopFetches,
         Fetches, Continue, Runs, Quiet, incoming, remote, seen, counts
    <3>3. CASE StopFails
      BY <1>1, <1>2, <2>10, <3>3, StopCases DEF OutOrder, FlagTypes, StopFails, NoJob,
         Runs, Quiet, incoming, remote, seen, counts
    <3> QED BY <2>10, <3>1, <3>2, <3>3, StopCases
  <2>11. CASE ServiceEnd
      BY <1>1, <1>2, <2>11, EndCases DEF OutOrder, FlagTypes, Discards, TakesSome, Takes,
         NoJob, Interrupts, stream, remote, counts
  <2> QED BY <1>6, <2>1, <2>2, <2>3, <2>4, <2>5, <2>6, <2>7, <2>8, <2>9, <2>10, <2>11
     DEF JobStep
<1>7. CASE Trouble
  <2>1. CASE ExchangeFails
      BY <1>1, <1>2, <2>1, ExchangeCases DEF OutOrder, FlagTypes, ServiceFails, Runs,
         Moves, StartFails, NoJob, OtherFails, Requests, Quiet, incoming, remote,
         seen
  <2>2. CASE BlockFails
      BY <1>1, <1>2, <2>2, BlockFailCases DEF OutOrder, FlagTypes, ServiceFails, Runs,
         Moves, StartFails, NoJob, OtherFails, incoming, remote
  <2>3. CASE DrainDeadline
      BY <1>1, <1>2, <2>3, DrainCases DEF OutOrder, FlagTypes, ServiceFails, Runs,
         Moves, StartFails, NoJob, OtherFails, incoming, remote, seen
  <2>4. CASE Fault
    BY <1>1, <1>2, <2>4 DEF OutOrder, FlagTypes, Fault, stream, incoming, remote,
       seen
  <2>5. CASE SelectBegin
    BY <1>1, <1>2, <2>5 DEF OutOrder, FlagTypes, SelectBegin, Idle, incoming, line,
       remote, seen, NoJob
  <2> QED BY <1>7, <2>1, <2>2, <2>3, <2>4, <2>5 DEF Trouble
<1>8. CASE WriteByte
  <2>1. CASE Appends
    <3>1. /\ got \in Seq(1 .. MaxOut) /\ out \in Seq(1 .. MaxOut) /\ written \in Nat /\ written + 1 \in 1 .. MaxOut
        BY <1>8, WriteByteCases, BoundsAssumption DEF IInv, OutTypes, CountTypes
    <3>2. /\ Append(out, written + 1) \in Seq(1 .. MaxOut) /\ Len(Append(out, written + 1)) = Len(out) + 1
          /\ \A i \in 1 .. Len(out) : Append(out, written + 1)[i] = out[i]
          /\ \A i \in 1 .. 1 : Append(out, written + 1)[Len(out) + i] = written + i
        BY <3>1
    <3>3. Sent(got, out, written) => Sent(got, Append(out, written + 1), written + 1)
        BY <3>1, <3>2, SentMore
    <3>4. lossy' = lossy /\ got' = got /\ written' = written + 1 /\ out' = Append(out, written + 1)
        BY <1>8, <2>1, WriteByteCases DEF Appends, seen
    <3> QED BY <1>1, <3>3, <3>4 DEF OutOrder
  <2>2. CASE Bounds
    BY <1>1, <1>2, <1>8, <2>2, WriteByteCases DEF OutOrder, FlagTypes, Bounds, NoJob,
       incoming, line, remote, seen
  <2> QED BY <1>8, <2>1, <2>2, WriteByteCases
<1>9. CASE BoundaryByte
    BY <1>1, <1>2, <1>9, BoundaryCases DEF OutOrder, FlagTypes, Writes, Begins, NoJob,
       Loses, incoming, line, remote, seen, counts
<1>10. ASSUME NEW n \in 1 .. MaxOut, WriteStream(n) PROVE OutOrder'
    BY <1>1, <1>2, <1>10, WriteStreamCases DEF OutOrder, FlagTypes, NoJob, Begins,
       stream, incoming, line, remote, seen, counts
<1>11. CASE RequestStart
  <2>1. got' = <<>> /\ out' = <<>> /\ written' = 0
      BY <1>11, StartCases
  <2> QED BY <2>1 DEF OutOrder, Sent
<1>12. CASE RoutePublished
    BY <1>1, <1>2, <1>12 DEF OutOrder, FlagTypes, RoutePublished, incoming, line,
       remote, seen, counts
<1>13. CASE RequestLegacy
    BY <1>1, <1>2, <1>13, LegacyCases DEF OutOrder, FlagTypes, StopBegins, Begins,
       OnlyLeaves, NoJob, incoming, line, remote, seen, counts
<1>14. CASE Leave
    BY <1>1, <1>2, <1>14 DEF OutOrder, FlagTypes, Leave, incoming, line, remote,
       seen, counts
<1>15. CASE SelectEnd
    BY <1>1, <1>2, <1>15 DEF OutOrder, FlagTypes, SelectEnd, Serving, incoming,
       remote, seen, counts
<1>16. CASE PeerAnswers
    BY <1>1, <1>2, <1>16, AnswerCases DEF OutOrder, FlagTypes, AnswersOpen, Answers,
       AnswersAmount, AnswersRest, stream, incoming, seen
<1>17. CASE PeerQueues
    BY <1>1, <1>2, <1>17, QueueCases DEF OutOrder, FlagTypes, stream, incoming, line,
       seen
<1>18. CASE ReplyStarts
    BY <1>1, <1>2, <1>18 DEF OutOrder, FlagTypes, ReplyStarts, stream, incoming,
       remote, seen, counts
<1>19. CASE ReplyEnds
    BY <1>1, <1>2, <1>19 DEF OutOrder, FlagTypes, ReplyEnds, stream, incoming,
       remote, seen, counts
<1>20. CASE Reset
  <2>1. got' = <<>> /\ out' = <<>> /\ written' = 0
      BY <1>20 DEF Reset
  <2> QED BY <2>1 DEF OutOrder, Sent
<1> QED BY <1>3, <1>4, <1>5, <1>6, <1>7, <1>8, <1>9, <1>10, <1>11, <1>12, <1>13,
   <1>14, <1>15, <1>16, <1>17, <1>18, <1>19, <1>20 DEF Next

\* What waits here and at the peer stays what has not been parsed.
LEMMA InOrderStep == IInv /\ [Next]_vars => InOrder'
<1> SUFFICES ASSUME IInv, [Next]_vars PROVE InOrder'
    OBVIOUS
<1>1. InOrder
    BY DEF IInv
<1>2. JobInv
    BY DEF IInv
<1>3. FlagTypes
    BY DEF IInv
<1>4. WireInv
    BY DEF IInv
<1>5. WireType
    BY DEF IInv
<1>6. CASE UNCHANGED vars
    BY <1>1, <1>2, <1>3, <1>4, <1>5, <1>6 DEF InOrder, JobInv, FlagTypes, WireInv,
       WireType, NoJob, Runs, Requests, vars, stream, incoming, line, remote, seen,
       counts
<1>7. CASE TickOnly
  <2>1. CASE Discards
    <3>1. owned' = owned /\ (Runs("start")' <=> Runs("start")) /\ UNCHANGED <<pend, queued>>
        BY <1>7, <1>2, <1>3, TickCases DEF stream, remote, counts, Begins, NoJob, Runs, JobInv, FlagTypes
    <3>2. owned /\ ~Runs("start") /\ ~lossy' => Waits(fed, inb, pend, queued)
        BY <1>1, <1>3, <2>1 DEF InOrder, Discards, TakesSome, Takes, TakesNone, FlagTypes
    <3>3. owned /\ ~Runs("start") /\ ~lossy' => Waits(fed, inb, pend, queued)'
        BY <3>1, <3>2, <2>1, TicksKeepOrder
    <3> QED BY <3>1, <3>3 DEF InOrder
  <2>2. CASE TakesSome
    <3>1. owned' = owned /\ (Runs("start")' <=> Runs("start")) /\ UNCHANGED <<pend, queued>>
        BY <1>7, <1>2, <1>3, TickCases DEF stream, remote, counts, Begins, NoJob, Runs, JobInv, FlagTypes
    <3>2. owned /\ ~Runs("start") /\ ~lossy' => Waits(fed, inb, pend, queued)
        BY <1>1, <1>3, <2>2 DEF InOrder, Discards, TakesSome, Takes, TakesNone, FlagTypes
    <3>3. owned /\ ~Runs("start") /\ ~lossy' => Waits(fed, inb, pend, queued)'
        BY <3>1, <3>2, <2>2, TicksKeepOrder
    <3> QED BY <3>1, <3>3 DEF InOrder
  <2> QED BY <1>7, <2>1, <2>2, TickCases
<1>8. CASE TickServes
  <2>1. CASE Discards
    <3>1. owned' = owned /\ (Runs("start")' <=> Runs("start")) /\ UNCHANGED <<pend, queued>>
        BY <1>8, <1>2, <1>3, ServesCases DEF stream, remote, counts, Begins, NoJob, Runs, JobInv, FlagTypes
    <3>2. owned /\ ~Runs("start") /\ ~lossy' => Waits(fed, inb, pend, queued)
        BY <1>1, <1>3, <2>1 DEF InOrder, Discards, TakesSome, Takes, TakesNone, FlagTypes
    <3>3. owned /\ ~Runs("start") /\ ~lossy' => Waits(fed, inb, pend, queued)'
        BY <3>1, <3>2, <2>1, TicksKeepOrder
    <3> QED BY <3>1, <3>3 DEF InOrder
  <2>2. CASE TakesSome
    <3>1. owned' = owned /\ (Runs("start")' <=> Runs("start")) /\ UNCHANGED <<pend, queued>>
        BY <1>8, <1>2, <1>3, ServesCases DEF stream, remote, counts, Begins, NoJob, Runs, JobInv, FlagTypes
    <3>2. owned /\ ~Runs("start") /\ ~lossy' => Waits(fed, inb, pend, queued)
        BY <1>1, <1>3, <2>2 DEF InOrder, Discards, TakesSome, Takes, TakesNone, FlagTypes
    <3>3. owned /\ ~Runs("start") /\ ~lossy' => Waits(fed, inb, pend, queued)'
        BY <3>1, <3>2, <2>2, TicksKeepOrder
    <3> QED BY <3>1, <3>3 DEF InOrder
  <2>3. CASE TakesNone
    <3>1. owned' = owned /\ (Runs("start")' <=> Runs("start")) /\ UNCHANGED <<pend, queued>>
        BY <1>8, <1>2, <1>3, ServesCases DEF stream, remote, counts, Begins, NoJob, Runs, JobInv, FlagTypes
    <3>2. owned /\ ~Runs("start") /\ ~lossy' => Waits(fed, inb, pend, queued)
        BY <1>1, <1>3, <2>3 DEF InOrder, Discards, TakesSome, Takes, TakesNone, FlagTypes
    <3>3. owned /\ ~Runs("start") /\ ~lossy' => Waits(fed, inb, pend, queued)'
        BY <3>1, <3>2, <2>3, TicksKeepOrder
    <3> QED BY <3>1, <3>3 DEF InOrder
  <2> QED BY <1>8, <2>1, <2>2, <2>3, ServesCases
<1>9. CASE JobStep
  <2>1. CASE Flush
      BY <1>1, <1>2, <1>3, <1>4, <1>5, <2>1, FlushCases DEF InOrder, JobInv, FlagTypes,
         WireInv, WireType, NoJob, Runs, Requests, FlushSends, Moves, FlushEnds,
         StopDrains, ServicePolls, stream, incoming, line, remote, seen, counts
  <2>2. CASE Reserve
    <3>1. CASE AsksSession
      BY <1>1, <1>2, <1>3, <1>4, <1>5, <2>2, <3>1, ReserveCases DEF InOrder, JobInv,
         FlagTypes, WireInv, WireType, NoJob, Runs, Requests, AsksSession, Asks,
         Moves, Continue, incoming, remote, seen, counts
    <3>2. CASE AsksOffer
      BY <1>1, <1>2, <1>3, <1>4, <1>5, <2>2, <3>2, ReserveCases DEF InOrder, JobInv,
         FlagTypes, WireInv, WireType, NoJob, Runs, Requests, AsksOffer, Asks, Moves,
         Continue, incoming, remote, seen, counts
    <3>3. CASE AsksPoll
      BY <1>1, <1>2, <1>3, <1>4, <1>5, <2>2, <3>3, ReserveCases DEF InOrder, JobInv,
         FlagTypes, WireInv, WireType, NoJob, Runs, Requests, AsksPoll, Asks, Moves,
         Continue, incoming, remote, seen, counts
    <3>4. CASE AsksStop
      BY <1>1, <1>2, <1>3, <1>4, <1>5, <2>2, <3>4, ReserveCases DEF InOrder, JobInv,
         FlagTypes, WireInv, WireType, NoJob, Runs, Requests, AsksStop, Asks, Moves,
         Continue, incoming, remote, seen, counts
    <3> QED BY <2>2, <3>1, <3>2, <3>3, <3>4, ReserveCases
  <2>3. CASE Refused
      BY <1>1, <1>2, <1>3, <1>4, <1>5, <2>3, RefusedCases DEF InOrder, JobInv,
         FlagTypes, WireInv, WireType, NoJob, Runs, Requests, ServiceFails, Moves,
         StartFails, OtherFails, incoming, remote, seen, counts
  <2>4. CASE Negotiated
    <3>1. CASE Opens
      BY <1>1, <1>2, <1>3, <1>4, <1>5, <2>4, <3>1, NegotiatedCases DEF InOrder, JobInv,
         FlagTypes, WireInv, WireType, NoJob, Runs, Requests, Opens, Asks, Moves,
         Continue, incoming, remote, seen, counts
    <3>2. CASE Offers
      BY <1>1, <1>2, <1>3, <1>4, <1>5, <2>4, <3>2, NegotiatedCases DEF InOrder, JobInv,
         FlagTypes, WireInv, WireType, NoJob, Runs, Requests, Offers, Asks, Moves,
         Continue, incoming, remote, seen, counts
    <3> QED BY <2>4, <3>1, <3>2, NegotiatedCases
  <2>5. CASE Opened
    <3>1. wire.op = "open" /\ wire.st = "arrived" /\ job.at = "open"
        BY <1>4, <2>5 DEF Opened, Answered, At, WireInv, Requests
    <3>2. Runs("start")
        BY <3>1, <1>2 DEF IInv, JobType, JobInv, Runs, Whos, NoJob
    <3>3. Waits(0, <<>>, pend, queued) /\ inb = <<>> /\ fed = 0
        BY <3>1, <3>2 DEF IInv, StartInv
    <3>4. UNCHANGED <<fed, inb, pend, queued>>
        BY <2>5 DEF Opened, incoming, remote, seen, counts
    <3> QED BY <3>3, <3>4 DEF InOrder
  <2>6. CASE Offered
    BY <1>1, <1>2, <1>3, <1>4, <1>5, <2>6 DEF InOrder, JobInv, FlagTypes, WireInv,
       WireType, NoJob, Runs, Requests, Offered, Answered, Quiet, Goto, incoming,
       remote, seen, counts, At
  <2>7. CASE Polled
      BY <1>1, <1>2, <1>3, <1>4, <1>5, <2>7, PolledCases DEF InOrder, JobInv, FlagTypes,
         WireInv, WireType, NoJob, Runs, Requests, PollFetches, Fetches, Continue,
         PollFails, ServiceFails, StartFails, OtherFails, Moves, PollEnds, Quiet,
         remote, seen, counts
  <2>8. CASE BlockDone
    <3>1. CASE BlockGoes
      BY <1>1, <1>2, <1>3, <1>4, <1>5, <2>8, <3>1, BlockCases DEF InOrder, JobInv,
         FlagTypes, WireInv, WireType, NoJob, Runs, Requests, BlockGoes, incoming,
         WriteEnds, WriteGoesOn, StopDrains, ServicePolls, Moves, line, seen
    <3>2. CASE BlockComes
      <4>1. /\ inb \in Seq(DOMAIN Return) /\ pend \in Seq(DOMAIN Return) /\ fed \in Nat /\ queued \in Nat
            /\ job.n \in 0 .. Len(pend) /\ InTypes /\ FetchRoom /\ JobType
          BY BoundsAssumption DEF IInv, InTypes, CountTypes, JobType, FetchRoom
      <4>2. /\ inb' \in Seq(DOMAIN Return) /\ Len(inb') = Len(inb) + job.n
            /\ pend' \in Seq(DOMAIN Return) /\ Len(pend') = Len(pend) - job.n
            /\ \A i \in 1 .. Len(inb) : inb'[i] = inb[i]
            /\ \A i \in 1 .. job.n : inb'[Len(inb) + i] = pend[i]
            /\ \A i \in 1 .. Len(pend) - job.n : pend'[i] = pend[job.n + i]
          BY <4>1, <3>2, ComesTypes
      <4>3. Waits(fed, inb, pend, queued) => Waits(fed, inb', pend', queued)
          BY <4>1, <4>2, WaitsFetched DEF Fetched
      <4>4. job'.who = job.who /\ UNCHANGED <<owned, lossy, fed, queued>>
          BY <2>8, <3>2, BlockCases DEF BlockComes, seen
      <4> QED BY <1>1, <4>3, <4>4 DEF InOrder, Runs
    <3> QED BY <2>8, <3>1, <3>2, BlockCases
  <2>9. CASE Copy
      BY <1>1, <1>2, <1>3, <1>4, <1>5, <2>9, CopyCases DEF InOrder, JobInv, FlagTypes,
         WireInv, WireType, NoJob, Runs, Requests, CopyFills, CopyEnds, incoming,
         line, remote, seen
  <2>10. CASE StopAnswered
      BY <1>1, <1>2, <1>3, <1>4, <1>5, <2>10, StopCases DEF InOrder, JobInv, FlagTypes,
         WireInv, WireType, NoJob, Runs, Requests, StreamEnds, StopFetches, Fetches,
         Continue, StopFails, Quiet, incoming, remote, seen, counts
  <2>11. CASE ServiceEnd
    <3>1. CASE Discards
      <4>1. owned' = owned /\ (Runs("start")' <=> Runs("start")) /\ UNCHANGED <<pend, queued>>
          BY <2>11, <1>2, <1>3, EndCases DEF stream, remote, counts, Begins, NoJob, Runs, JobInv, FlagTypes
      <4>2. owned /\ ~Runs("start") /\ ~lossy' => Waits(fed, inb, pend, queued)
          BY <1>1, <1>3, <3>1 DEF InOrder, Discards, TakesSome, Takes, TakesNone, FlagTypes
      <4>3. owned /\ ~Runs("start") /\ ~lossy' => Waits(fed, inb, pend, queued)'
          BY <4>1, <4>2, <3>1, TicksKeepOrder
      <4> QED BY <4>1, <4>3 DEF InOrder
    <3>2. CASE TakesSome
      <4>1. owned' = owned /\ (Runs("start")' <=> Runs("start")) /\ UNCHANGED <<pend, queued>>
          BY <2>11, <1>2, <1>3, EndCases DEF stream, remote, counts, Begins, NoJob, Runs, JobInv, FlagTypes
      <4>2. owned /\ ~Runs("start") /\ ~lossy' => Waits(fed, inb, pend, queued)
          BY <1>1, <1>3, <3>2 DEF InOrder, Discards, TakesSome, Takes, TakesNone, FlagTypes
      <4>3. owned /\ ~Runs("start") /\ ~lossy' => Waits(fed, inb, pend, queued)'
          BY <4>1, <4>2, <3>2, TicksKeepOrder
      <4> QED BY <4>1, <4>3 DEF InOrder
    <3> QED BY <2>11, <3>1, <3>2, EndCases
  <2> QED BY <1>9, <2>1, <2>2, <2>3, <2>4, <2>5, <2>6, <2>7, <2>8, <2>9, <2>10, <2>11
     DEF JobStep
<1>10. CASE Trouble
  <2>1. CASE ExchangeFails
      BY <1>1, <1>2, <1>3, <1>4, <1>5, <2>1, ExchangeCases DEF InOrder, JobInv,
         FlagTypes, WireInv, WireType, NoJob, Runs, Requests, ServiceFails, Moves,
         StartFails, OtherFails, Quiet, incoming, remote, seen
  <2>2. CASE BlockFails
      BY <1>1, <1>2, <1>3, <1>4, <1>5, <2>2, BlockFailCases DEF InOrder, JobInv,
         FlagTypes, WireInv, WireType, NoJob, Runs, Requests, ServiceFails, Moves,
         StartFails, OtherFails, incoming, remote
  <2>3. CASE DrainDeadline
      BY <1>1, <1>2, <1>3, <1>4, <1>5, <2>3, DrainCases DEF InOrder, JobInv, FlagTypes,
         WireInv, WireType, NoJob, Runs, Requests, ServiceFails, Moves, StartFails,
         OtherFails, incoming, remote, seen
  <2>4. CASE Fault
    BY <1>1, <1>2, <1>3, <1>4, <1>5, <2>4 DEF InOrder, JobInv, FlagTypes, WireInv,
       WireType, NoJob, Runs, Requests, Fault, stream, incoming, remote, seen
  <2>5. CASE SelectBegin
    BY <1>1, <1>2, <1>3, <1>4, <1>5, <2>5 DEF InOrder, JobInv, FlagTypes, WireInv,
       WireType, NoJob, Runs, Requests, SelectBegin, Idle, incoming, line, remote,
       seen
  <2> QED BY <1>10, <2>1, <2>2, <2>3, <2>4, <2>5 DEF Trouble
<1>11. CASE WriteByte
    BY <1>1, <1>2, <1>3, <1>4, <1>5, <1>11, WriteByteCases DEF InOrder, JobInv,
       FlagTypes, WireInv, WireType, NoJob, Runs, Requests, Appends, Bounds,
       incoming, line, remote, seen
<1>12. CASE BoundaryByte
    BY <1>1, <1>2, <1>3, <1>4, <1>5, <1>12, BoundaryCases DEF InOrder, JobInv, FlagTypes,
       WireInv, WireType, NoJob, Runs, Requests, Writes, Begins, Loses, incoming,
       line, remote, seen, counts
<1>13. ASSUME NEW n \in 1 .. MaxOut, WriteStream(n) PROVE InOrder'
  <2>1. ~Runs("start") /\ UNCHANGED <<owned, lossy, fed, inb, pend, queued>>
      BY <1>13, WriteStreamCases DEF Runs, NoJob, stream, incoming, remote, seen, counts
  <2> QED BY <1>1, <2>1 DEF InOrder
<1>14. CASE RequestStart
    BY <1>1, <1>2, <1>3, <1>4, <1>5, <1>14, StartCases DEF InOrder, JobInv, FlagTypes,
       WireInv, WireType, NoJob, Runs, Requests, Begins, line, remote
<1>15. CASE RoutePublished
    BY <1>1, <1>2, <1>3, <1>4, <1>5, <1>15 DEF InOrder, JobInv, FlagTypes, WireInv,
       WireType, NoJob, Runs, Requests, RoutePublished, incoming, line, remote, seen,
       counts
<1>16. CASE RequestLegacy
  <2>1. CASE StopBegins
    BY <1>1, <1>2, <1>3, <1>4, <1>5, <1>16, <2>1, LegacyCases DEF InOrder, JobInv,
       FlagTypes, WireInv, WireType, NoJob, Runs, Requests, StopBegins, Begins,
       incoming, line, remote, seen, counts
  <2>2. CASE OnlyLeaves
    BY <1>1, <1>2, <1>3, <1>4, <1>5, <1>16, <2>2, LegacyCases DEF InOrder, JobInv,
       FlagTypes, WireInv, WireType, NoJob, Runs, Requests, OnlyLeaves, incoming,
       line, remote, seen, counts
  <2> QED BY <1>16, <2>1, <2>2, LegacyCases
<1>17. CASE Leave
    BY <1>1, <1>2, <1>3, <1>4, <1>5, <1>17 DEF InOrder, JobInv, FlagTypes, WireInv,
       WireType, NoJob, Runs, Requests, Leave, incoming, line, remote, seen, counts
<1>18. CASE SelectEnd
    BY <1>1, <1>2, <1>3, <1>4, <1>5, <1>18 DEF InOrder, JobInv, FlagTypes, WireInv,
       WireType, NoJob, Runs, Requests, SelectEnd, Serving, incoming, remote, seen,
       counts
<1>19. CASE PeerAnswers
  <2>1. CASE AnswersOpen
    <3>1. wire.op = "open" /\ wire.st = "asked" /\ job.at = "open" /\ job' = job
        BY <1>4, <1>19, <2>1, AnswerCases DEF AnswersOpen, WireInv, Requests
    <3>2. Runs("start")
        BY <3>1, <1>2 DEF IInv, JobType, JobInv, Runs, Whos, NoJob
    <3> QED BY <3>1, <3>2 DEF InOrder, Runs
  <2>2. CASE AnswersAmount
    BY <1>1, <1>2, <1>3, <1>4, <1>5, <1>19, <2>2, AnswerCases DEF InOrder, JobInv,
       FlagTypes, WireInv, WireType, NoJob, Runs, Requests, AnswersAmount, Answers,
       stream, incoming, seen
  <2>3. CASE AnswersRest
    BY <1>1, <1>2, <1>3, <1>4, <1>5, <1>19, <2>3, AnswerCases DEF InOrder, JobInv,
       FlagTypes, WireInv, WireType, NoJob, Runs, Requests, AnswersRest, Answers,
       stream, incoming, seen
  <2> QED BY <1>19, <2>1, <2>2, <2>3, AnswerCases
<1>20. CASE PeerQueues
  <2>1. PICK n \in Nat : /\ Len(pend') = Len(pend) + n /\ queued' = queued + n
                         /\ \A i \in 1 .. Len(pend) : pend'[i] = pend[i]
                         /\ \A i \in 1 .. n : pend'[Len(pend) + i] = queued + i
      BY <1>20, QueueTypes DEF Grows
  <2>2. /\ inb \in Seq(DOMAIN Return) /\ pend \in Seq(DOMAIN Return) /\ pend' \in Seq(DOMAIN Return)
        /\ fed \in Nat /\ queued \in Nat
      BY <1>20, QueueTypes, BoundsAssumption DEF IInv, InTypes, CountTypes
  <2>3. Waits(fed, inb, pend, queued) => Waits(fed, inb, pend', queued + n)
      BY <2>1, <2>2, WaitsQueued DEF Longer
  <2>4. UNCHANGED <<owned, job, lossy, fed, inb>>
      BY <1>20, QueueCases DEF stream, incoming, seen
  <2> QED BY <1>1, <2>1, <2>3, <2>4 DEF InOrder, Runs
<1>21. CASE ReplyStarts
    BY <1>1, <1>2, <1>3, <1>4, <1>5, <1>21 DEF InOrder, JobInv, FlagTypes, WireInv,
       WireType, NoJob, Runs, Requests, ReplyStarts, stream, incoming, remote, seen,
       counts
<1>22. CASE ReplyEnds
    BY <1>1, <1>2, <1>3, <1>4, <1>5, <1>22 DEF InOrder, JobInv, FlagTypes, WireInv,
       WireType, NoJob, Runs, Requests, ReplyEnds, stream, incoming, remote, seen,
       counts
<1>23. CASE Reset
    BY <1>1, <1>2, <1>3, <1>4, <1>5, <1>23 DEF InOrder, JobInv, FlagTypes, WireInv,
       WireType, NoJob, Runs, Requests, Reset, Quiet, Closed
<1> QED BY <1>6, <1>7, <1>8, <1>9, <1>10, <1>11, <1>12, <1>13, <1>14, <1>15, <1>16,
   <1>17, <1>18, <1>19, <1>20, <1>21, <1>22, <1>23 DEF Next

\* A start begins empty.
LEMMA StartInvStep == IInv /\ [Next]_vars => StartInv'
<1> SUFFICES ASSUME IInv, [Next]_vars PROVE StartInv'
    OBVIOUS
<1>1. StartInv
    BY DEF IInv
<1>2. JobInv
    BY DEF IInv
<1>3. JobType
    BY DEF IInv
<1>4. WireInv
    BY DEF IInv
<1>5. WireType
    BY DEF IInv
<1>6. FlagTypes
    BY DEF IInv
<1>7. InTypes
    BY DEF IInv
<1>8. CASE UNCHANGED vars
    BY <1>1, <1>2, <1>3, <1>4, <1>5, <1>6, <1>7, <1>8 DEF StartInv, JobInv, JobType,
       WireInv, WireType, FlagTypes, InTypes, NoJob, Runs, Requests, vars, stream,
       incoming, line, remote, seen, counts
<1>9. CASE TickOnly
    BY <1>1, <1>2, <1>4, <1>5, <1>7, <1>9, TickCases, InterruptFacts DEF StartInv, Runs,
       NoJob, InTypes, Discards, TakesSome, Takes, stream, remote, counts
<1>10. CASE TickServes
    BY <1>1, <1>2, <1>4, <1>5, <1>7, <1>10, ServesCases, InterruptFacts DEF StartInv,
       Runs, NoJob, InTypes, Discards, TakesSome, Takes, TakesNone, incoming, Begins,
       stream, remote, counts
<1>11. CASE JobStep
  <2>1. CASE Flush
      BY <1>1, <1>2, <1>3, <1>4, <1>5, <1>6, <1>7, <2>1, FlushCases DEF StartInv,
         JobInv, JobType, WireInv, WireType, FlagTypes, InTypes, NoJob, Runs,
         Requests, FlushSends, Moves, FlushEnds, StopDrains, ServicePolls, stream,
         incoming, line, remote, seen, counts
  <2>2. CASE Reserve
      BY <1>1, <1>2, <1>3, <1>4, <1>5, <1>6, <1>7, <2>2, ReserveCases DEF StartInv,
         JobInv, JobType, WireInv, WireType, FlagTypes, InTypes, NoJob, Runs,
         Requests, AsksSession, Asks, Moves, Continue, AsksOffer, AsksPoll, AsksStop,
         incoming, remote, seen, counts
  <2>3. CASE Refused
    <3>1. CASE ServiceFails
      BY <1>1, <1>2, <1>3, <1>4, <1>5, <1>6, <1>7, <2>3, <3>1, RefusedCases DEF
         StartInv, JobInv, JobType, WireInv, WireType, FlagTypes, InTypes, NoJob,
         Runs, Requests, ServiceFails, Moves, incoming, remote, seen, counts
    <3>2. CASE StartFails
      BY <1>1, <1>2, <1>3, <1>4, <1>5, <1>6, <1>7, <2>3, <3>2, RefusedCases DEF
         StartInv, JobInv, JobType, WireInv, WireType, FlagTypes, InTypes, NoJob,
         Runs, Requests, StartFails, incoming, remote, seen, counts
    <3>3. CASE OtherFails
      BY <1>1, <1>2, <1>3, <1>4, <1>5, <1>6, <1>7, <2>3, <3>3, RefusedCases DEF
         StartInv, JobInv, JobType, WireInv, WireType, FlagTypes, InTypes, NoJob,
         Runs, Requests, OtherFails, incoming, remote, seen, counts
    <3> QED BY <2>3, <3>1, <3>2, <3>3, RefusedCases
  <2>4. CASE Negotiated
      BY <1>1, <1>2, <1>3, <1>4, <1>5, <1>6, <1>7, <2>4, NegotiatedCases DEF StartInv,
         JobInv, JobType, WireInv, WireType, FlagTypes, InTypes, NoJob, Runs,
         Requests, Opens, Asks, Moves, Continue, Offers, incoming, remote, seen,
         counts
  <2>5. CASE Opened
    BY <1>1, <1>2, <1>3, <1>4, <1>5, <1>6, <1>7, <2>5 DEF StartInv, JobInv, JobType,
       WireInv, WireType, FlagTypes, InTypes, NoJob, Runs, Requests, Opened,
       Answered, Quiet, incoming, remote, seen, counts, At
  <2>6. CASE Offered
    BY <1>1, <1>2, <1>3, <1>4, <1>5, <1>6, <1>7, <2>6 DEF StartInv, JobInv, JobType,
       WireInv, WireType, FlagTypes, InTypes, NoJob, Runs, Requests, Offered,
       Answered, Quiet, Goto, incoming, remote, seen, counts, At
  <2>7. CASE Polled
    <3>1. CASE PollFetches
      BY <1>1, <1>2, <1>3, <1>4, <1>5, <1>6, <1>7, <2>7, <3>1, PolledCases DEF StartInv,
         JobInv, JobType, WireInv, WireType, FlagTypes, InTypes, NoJob, Runs,
         Requests, PollFetches, Fetches, Continue, Quiet, remote, seen, counts
    <3>2. CASE PollFails
      <4>1. CASE ServiceFails
        BY <1>1, <1>2, <1>3, <1>4, <1>5, <1>6, <1>7, <2>7, <3>2, <4>1, PolledCases DEF
           PollFails, StartInv, JobInv, JobType, WireInv, WireType, FlagTypes,
           InTypes, NoJob, Runs, Requests, ServiceFails, Moves, Quiet, remote, seen,
           counts
      <4>2. CASE StartFails
        BY <1>1, <1>2, <1>3, <1>4, <1>5, <1>6, <1>7, <2>7, <3>2, <4>2, PolledCases DEF
           PollFails, StartInv, JobInv, JobType, WireInv, WireType, FlagTypes,
           InTypes, NoJob, Runs, Requests, StartFails, Quiet, remote, seen, counts
      <4>3. CASE OtherFails
        BY <1>1, <1>2, <1>3, <1>4, <1>5, <1>6, <1>7, <2>7, <3>2, <4>3, PolledCases DEF
           PollFails, StartInv, JobInv, JobType, WireInv, WireType, FlagTypes,
           InTypes, NoJob, Runs, Requests, OtherFails, Quiet, remote, seen, counts
      <4> QED BY <3>2, <4>1, <4>2, <4>3 DEF PollFails
    <3>3. CASE PollEnds
      BY <1>1, <1>2, <1>3, <1>4, <1>5, <1>6, <1>7, <2>7, <3>3, PolledCases DEF StartInv,
         JobInv, JobType, WireInv, WireType, FlagTypes, InTypes, NoJob, Runs,
         Requests, PollEnds, Moves, Continue, Quiet, remote, seen, counts
    <3> QED BY <2>7, <3>1, <3>2, <3>3, PolledCases
  <2>8. CASE BlockDone
    <3>1. CASE BlockGoes
      BY <1>1, <1>2, <1>3, <1>4, <1>5, <1>6, <1>7, <2>8, <3>1, BlockCases DEF StartInv,
         JobInv, JobType, WireInv, WireType, FlagTypes, InTypes, NoJob, Runs,
         Requests, BlockGoes, incoming, WriteEnds, WriteGoesOn, StopDrains,
         ServicePolls, Moves, line, seen
    <3>2. CASE BlockComes
      BY <1>1, <1>2, <1>3, <1>4, <1>5, <1>6, <1>7, <2>8, <3>2, BlockCases DEF StartInv,
         JobInv, JobType, WireInv, WireType, FlagTypes, InTypes, NoJob, Runs,
         Requests, BlockComes, line, seen
    <3> QED BY <2>8, <3>1, <3>2, BlockCases
  <2>9. CASE Copy
      BY <1>1, <1>2, <1>3, <1>4, <1>5, <1>6, <1>7, <2>9, CopyCases DEF StartInv, JobInv,
         JobType, WireInv, WireType, FlagTypes, InTypes, NoJob, Runs, Requests,
         CopyFills, CopyEnds, incoming, line, remote, seen
  <2>10. CASE StopAnswered
    <3>1. CASE StreamEnds
      BY <1>1, <1>2, <1>3, <1>4, <1>5, <1>6, <1>7, <2>10, <3>1, StopCases DEF StartInv,
         JobInv, JobType, WireInv, WireType, FlagTypes, InTypes, NoJob, Runs,
         Requests, StreamEnds, Quiet, incoming, remote, seen, counts
    <3>2. CASE StopFetches
      BY <1>1, <1>2, <1>3, <1>4, <1>5, <1>6, <1>7, <2>10, <3>2, StopCases DEF StartInv,
         JobInv, JobType, WireInv, WireType, FlagTypes, InTypes, NoJob, Runs,
         Requests, StopFetches, Fetches, Continue, Quiet, incoming, remote, seen,
         counts
    <3>3. CASE StopFails
      BY <1>1, <1>2, <1>3, <1>4, <1>5, <1>6, <1>7, <2>10, <3>3, StopCases DEF StartInv,
         JobInv, JobType, WireInv, WireType, FlagTypes, InTypes, NoJob, Runs,
         Requests, StopFails, Quiet, incoming, remote, seen, counts
    <3> QED BY <2>10, <3>1, <3>2, <3>3, StopCases
  <2>11. CASE ServiceEnd
      BY <1>1, <1>2, <1>4, <1>5, <1>7, <2>11, EndCases, InterruptFacts DEF StartInv,
         Runs, NoJob, InTypes, Discards, TakesSome, Takes, stream, remote, counts
  <2> QED BY <1>11, <2>1, <2>2, <2>3, <2>4, <2>5, <2>6, <2>7, <2>8, <2>9, <2>10,
     <2>11 DEF JobStep
<1>12. CASE Trouble
  <2>1. CASE ExchangeFails
    <3>1. CASE ServiceFails
      BY <1>1, <1>2, <1>3, <1>4, <1>5, <1>6, <1>7, <2>1, <3>1, ExchangeCases DEF
         StartInv, JobInv, JobType, WireInv, WireType, FlagTypes, InTypes, NoJob,
         Runs, Requests, ServiceFails, Moves, Quiet, incoming, remote, seen
    <3>2. CASE StartFails
      BY <1>1, <1>2, <1>3, <1>4, <1>5, <1>6, <1>7, <2>1, <3>2, ExchangeCases DEF
         StartInv, JobInv, JobType, WireInv, WireType, FlagTypes, InTypes, NoJob,
         Runs, Requests, StartFails, Quiet, incoming, remote, seen
    <3>3. CASE OtherFails
      BY <1>1, <1>2, <1>3, <1>4, <1>5, <1>6, <1>7, <2>1, <3>3, ExchangeCases DEF
         StartInv, JobInv, JobType, WireInv, WireType, FlagTypes, InTypes, NoJob,
         Runs, Requests, OtherFails, Quiet, incoming, remote, seen
    <3> QED BY <2>1, <3>1, <3>2, <3>3, ExchangeCases
  <2>2. CASE BlockFails
    <3>1. CASE ServiceFails
      BY <1>1, <1>2, <1>3, <1>4, <1>5, <1>6, <1>7, <2>2, <3>1, BlockFailCases DEF
         StartInv, JobInv, JobType, WireInv, WireType, FlagTypes, InTypes, NoJob,
         Runs, Requests, ServiceFails, Moves, incoming, remote
    <3>2. CASE StartFails
      BY <1>1, <1>2, <1>3, <1>4, <1>5, <1>6, <1>7, <2>2, <3>2, BlockFailCases DEF
         StartInv, JobInv, JobType, WireInv, WireType, FlagTypes, InTypes, NoJob,
         Runs, Requests, StartFails, incoming, remote
    <3>3. CASE OtherFails
      BY <1>1, <1>2, <1>3, <1>4, <1>5, <1>6, <1>7, <2>2, <3>3, BlockFailCases DEF
         StartInv, JobInv, JobType, WireInv, WireType, FlagTypes, InTypes, NoJob,
         Runs, Requests, OtherFails, incoming, remote
    <3> QED BY <2>2, <3>1, <3>2, <3>3, BlockFailCases
  <2>3. CASE DrainDeadline
    <3>1. CASE ServiceFails
      BY <1>1, <1>2, <1>3, <1>4, <1>5, <1>6, <1>7, <2>3, <3>1, DrainCases DEF StartInv,
         JobInv, JobType, WireInv, WireType, FlagTypes, InTypes, NoJob, Runs,
         Requests, ServiceFails, Moves, incoming, remote, seen
    <3>2. CASE StartFails
      BY <1>1, <1>2, <1>3, <1>4, <1>5, <1>6, <1>7, <2>3, <3>2, DrainCases DEF StartInv,
         JobInv, JobType, WireInv, WireType, FlagTypes, InTypes, NoJob, Runs,
         Requests, StartFails, incoming, remote, seen
    <3>3. CASE OtherFails
      BY <1>1, <1>2, <1>3, <1>4, <1>5, <1>6, <1>7, <2>3, <3>3, DrainCases DEF StartInv,
         JobInv, JobType, WireInv, WireType, FlagTypes, InTypes, NoJob, Runs,
         Requests, OtherFails, incoming, remote, seen
    <3> QED BY <2>3, <3>1, <3>2, <3>3, DrainCases
  <2>4. CASE Fault
    BY <1>1, <1>2, <1>3, <1>4, <1>5, <1>6, <1>7, <2>4 DEF StartInv, JobInv, JobType,
       WireInv, WireType, FlagTypes, InTypes, NoJob, Runs, Requests, Fault, stream,
       incoming, remote, seen
  <2>5. CASE SelectBegin
    BY <1>1, <1>2, <1>3, <1>4, <1>5, <1>6, <1>7, <2>5 DEF StartInv, JobInv, JobType,
       WireInv, WireType, FlagTypes, InTypes, NoJob, Runs, Requests, SelectBegin,
       Idle, incoming, line, remote, seen
  <2> QED BY <1>12, <2>1, <2>2, <2>3, <2>4, <2>5 DEF Trouble
<1>13. CASE WriteByte
    BY <1>1, <1>2, <1>3, <1>4, <1>5, <1>6, <1>7, <1>13, WriteByteCases DEF StartInv,
       JobInv, JobType, WireInv, WireType, FlagTypes, InTypes, NoJob, Runs, Requests,
       Appends, Bounds, incoming, line, remote, seen
<1>14. CASE BoundaryByte
    BY <1>1, <1>2, <1>3, <1>4, <1>5, <1>6, <1>7, <1>14, BoundaryCases DEF StartInv,
       JobInv, JobType, WireInv, WireType, FlagTypes, InTypes, NoJob, Runs, Requests,
       Writes, Begins, Loses, incoming, line, remote, seen, counts
<1>15. ASSUME NEW n \in 1 .. MaxOut, WriteStream(n) PROVE StartInv'
    BY <1>1, <1>2, <1>3, <1>4, <1>5, <1>6, <1>7, <1>15, WriteStreamCases DEF StartInv,
       JobInv, JobType, WireInv, WireType, FlagTypes, InTypes, NoJob, Runs, Requests,
       Begins, stream, incoming, line, remote, seen, counts
<1>16. CASE RequestStart
    BY <1>1, <1>2, <1>3, <1>4, <1>5, <1>6, <1>7, <1>16, StartCases DEF StartInv, JobInv,
       JobType, WireInv, WireType, FlagTypes, InTypes, NoJob, Runs, Requests, Begins,
       line, remote
<1>17. CASE RoutePublished
    BY <1>1, <1>2, <1>3, <1>4, <1>5, <1>6, <1>7, <1>17 DEF StartInv, JobInv, JobType,
       WireInv, WireType, FlagTypes, InTypes, NoJob, Runs, Requests, RoutePublished,
       incoming, line, remote, seen, counts
<1>18. CASE RequestLegacy
    BY <1>1, <1>2, <1>3, <1>4, <1>5, <1>6, <1>7, <1>18, LegacyCases DEF StartInv, JobInv,
       JobType, WireInv, WireType, FlagTypes, InTypes, NoJob, Runs, Requests,
       StopBegins, Begins, OnlyLeaves, incoming, line, remote, seen, counts
<1>19. CASE Leave
    BY <1>1, <1>2, <1>3, <1>4, <1>5, <1>6, <1>7, <1>19 DEF StartInv, JobInv, JobType,
       WireInv, WireType, FlagTypes, InTypes, NoJob, Runs, Requests, Leave, incoming,
       line, remote, seen, counts
<1>20. CASE SelectEnd
    BY <1>1, <1>2, <1>3, <1>4, <1>5, <1>6, <1>7, <1>20 DEF StartInv, JobInv, JobType,
       WireInv, WireType, FlagTypes, InTypes, NoJob, Runs, Requests, SelectEnd,
       Serving, incoming, remote, seen, counts
<1>21. CASE PeerAnswers
  <2>1. CASE AnswersOpen
    <3>1. job' = job /\ UNCHANGED <<inb, fed>> /\ pend' = <<>> /\ queued' = 0
        BY <1>21, <2>1, AnswerCases DEF AnswersOpen, incoming, seen
    <3>2. Waits(0, <<>>, <<>>, 0)
        BY DEF Waits
    <3> QED BY <1>1, <3>1, <3>2 DEF StartInv, Runs
  <2>2. CASE AnswersAmount
    BY <1>1, <1>2, <1>3, <1>4, <1>5, <1>6, <1>7, <1>21, <2>2, AnswerCases DEF StartInv,
       JobInv, JobType, WireInv, WireType, FlagTypes, InTypes, NoJob, Runs, Requests,
       AnswersAmount, Answers, stream, incoming, seen
  <2>3. CASE AnswersRest
    BY <1>1, <1>2, <1>3, <1>4, <1>5, <1>6, <1>7, <1>21, <2>3, AnswerCases DEF StartInv,
       JobInv, JobType, WireInv, WireType, FlagTypes, InTypes, NoJob, Runs, Requests,
       AnswersRest, Answers, stream, incoming, seen
  <2> QED BY <1>21, <2>1, <2>2, <2>3, AnswerCases
<1>22. CASE PeerQueues
  <2>1. PICK n \in Nat : /\ Len(pend') = Len(pend) + n /\ queued' = queued + n
                         /\ \A i \in 1 .. Len(pend) : pend'[i] = pend[i]
                         /\ \A i \in 1 .. n : pend'[Len(pend) + i] = queued + i
      BY <1>22, QueueTypes DEF Grows
  <2>2. /\ <<>> \in Seq(DOMAIN Return) /\ pend \in Seq(DOMAIN Return) /\ pend' \in Seq(DOMAIN Return)
        /\ 0 \in Nat /\ queued \in Nat
      BY <1>22, QueueTypes, BoundsAssumption DEF IInv, InTypes, CountTypes
  <2>3. Waits(0, <<>>, pend, queued) => Waits(0, <<>>, pend', queued + n)
      BY <2>1, <2>2, WaitsQueued DEF Longer
  <2>4. UNCHANGED <<owned, job, wire, fed, inb>>
      BY <1>22, QueueCases DEF stream, incoming, line, seen
  <2> QED BY <1>1, <2>1, <2>3, <2>4 DEF StartInv, Runs
<1>23. CASE ReplyStarts
    BY <1>1, <1>2, <1>3, <1>4, <1>5, <1>6, <1>7, <1>23 DEF StartInv, JobInv, JobType,
       WireInv, WireType, FlagTypes, InTypes, NoJob, Runs, Requests, ReplyStarts,
       stream, incoming, remote, seen, counts
<1>24. CASE ReplyEnds
    BY <1>1, <1>2, <1>3, <1>4, <1>5, <1>6, <1>7, <1>24 DEF StartInv, JobInv, JobType,
       WireInv, WireType, FlagTypes, InTypes, NoJob, Runs, Requests, ReplyEnds,
       stream, incoming, remote, seen, counts
<1>25. CASE Reset
    BY <1>1, <1>2, <1>3, <1>4, <1>5, <1>6, <1>7, <1>25 DEF StartInv, JobInv, JobType,
       WireInv, WireType, FlagTypes, InTypes, NoJob, Runs, Requests, Reset, Quiet,
       Closed
<1> QED BY <1>8, <1>9, <1>10, <1>11, <1>12, <1>13, <1>14, <1>15, <1>16, <1>17, <1>18,
   <1>19, <1>20, <1>21, <1>22, <1>23, <1>24, <1>25 DEF Next

\* Who leaves the console has no stream.
LEMMA LeaveInvStep == IInv /\ [Next]_vars => LeaveInv'
<1> SUFFICES ASSUME IInv, [Next]_vars PROVE LeaveInv'
    OBVIOUS
<1>1. LeaveInv
    BY DEF IInv
<1>2. JobInv
    BY DEF IInv
<1>3. FlagTypes
    BY DEF IInv
<1>4. CASE UNCHANGED vars
    BY <1>1, <1>2, <1>3, <1>4 DEF LeaveInv, JobInv, FlagTypes, NoJob, Runs, vars,
       stream, incoming, line, remote, seen, counts
<1>5. CASE TickOnly
    BY <1>1, <1>2, <1>3, <1>5, TickCases DEF LeaveInv, JobInv, FlagTypes, NoJob, Runs,
       stream, remote, counts
<1>6. CASE TickServes
    BY <1>1, <1>2, <1>3, <1>6, ServesCases DEF LeaveInv, JobInv, FlagTypes, NoJob, Runs,
       Begins, stream, remote, counts
<1>7. CASE JobStep
  <2>1. CASE Flush
      BY <1>1, <1>2, <1>3, <2>1, FlushCases DEF LeaveInv, JobInv, FlagTypes, NoJob,
         Runs, FlushSends, Moves, FlushEnds, StopDrains, ServicePolls, stream,
         incoming, line, remote, seen, counts
  <2>2. CASE Reserve
      BY <1>1, <1>2, <1>3, <2>2, ReserveCases DEF LeaveInv, JobInv, FlagTypes, NoJob,
         Runs, AsksSession, Asks, Moves, Continue, AsksOffer, AsksPoll, AsksStop,
         incoming, remote, seen, counts
  <2>3. CASE Refused
      BY <1>1, <1>2, <1>3, <2>3, RefusedCases DEF LeaveInv, JobInv, FlagTypes, NoJob,
         Runs, ServiceFails, Moves, StartFails, OtherFails, incoming, remote, seen,
         counts
  <2>4. CASE Negotiated
      BY <1>1, <1>2, <1>3, <2>4, NegotiatedCases DEF LeaveInv, JobInv, FlagTypes, NoJob,
         Runs, Opens, Asks, Moves, Continue, Offers, incoming, remote, seen, counts
  <2>5. CASE Opened
    BY <1>1, <1>2, <1>3, <2>5 DEF LeaveInv, JobInv, FlagTypes, NoJob, Runs, Opened,
       Answered, Quiet, incoming, remote, seen, counts, At
  <2>6. CASE Offered
    BY <1>1, <1>2, <1>3, <2>6 DEF LeaveInv, JobInv, FlagTypes, NoJob, Runs, Offered,
       Answered, Quiet, Goto, incoming, remote, seen, counts, At
  <2>7. CASE Polled
      BY <1>1, <1>2, <1>3, <2>7, PolledCases DEF LeaveInv, JobInv, FlagTypes, NoJob,
         Runs, PollFetches, Fetches, Continue, PollFails, ServiceFails, StartFails,
         OtherFails, Moves, PollEnds, Quiet, remote, seen, counts
  <2>8. CASE BlockDone
      BY <1>1, <1>2, <1>3, <2>8, BlockCases DEF LeaveInv, JobInv, FlagTypes, NoJob,
         Runs, BlockGoes, incoming, WriteEnds, WriteGoesOn, StopDrains, ServicePolls,
         Moves, BlockComes, line, seen
  <2>9. CASE Copy
      BY <1>1, <1>2, <1>3, <2>9, CopyCases DEF LeaveInv, JobInv, FlagTypes, NoJob, Runs,
         CopyFills, CopyEnds, incoming, line, remote, seen
  <2>10. CASE StopAnswered
      BY <1>1, <1>2, <1>3, <2>10, StopCases DEF LeaveInv, JobInv, FlagTypes, NoJob, Runs,
         StreamEnds, StopFetches, Fetches, Continue, StopFails, Quiet, incoming,
         remote, seen, counts
  <2>11. CASE ServiceEnd
      BY <1>1, <1>2, <1>3, <2>11, EndCases DEF LeaveInv, JobInv, FlagTypes, NoJob, Runs,
         stream, remote, counts
  <2> QED BY <1>7, <2>1, <2>2, <2>3, <2>4, <2>5, <2>6, <2>7, <2>8, <2>9, <2>10, <2>11
     DEF JobStep
<1>8. CASE Trouble
  <2>1. CASE ExchangeFails
      BY <1>1, <1>2, <1>3, <2>1, ExchangeCases DEF LeaveInv, JobInv, FlagTypes, NoJob,
         Runs, ServiceFails, Moves, StartFails, OtherFails, Requests, Quiet,
         incoming, remote, seen
  <2>2. CASE BlockFails
      BY <1>1, <1>2, <1>3, <2>2, BlockFailCases DEF LeaveInv, JobInv, FlagTypes, NoJob,
         Runs, ServiceFails, Moves, StartFails, OtherFails, incoming, remote
  <2>3. CASE DrainDeadline
      BY <1>1, <1>2, <1>3, <2>3, DrainCases DEF LeaveInv, JobInv, FlagTypes, NoJob,
         Runs, ServiceFails, Moves, StartFails, OtherFails, incoming, remote, seen
  <2>4. CASE Fault
    BY <1>1, <1>2, <1>3, <2>4 DEF LeaveInv, JobInv, FlagTypes, NoJob, Runs, Fault,
       stream, incoming, remote, seen
  <2>5. CASE SelectBegin
    BY <1>1, <1>2, <1>3, <2>5 DEF LeaveInv, JobInv, FlagTypes, NoJob, Runs,
       SelectBegin, Idle, incoming, line, remote, seen
  <2> QED BY <1>8, <2>1, <2>2, <2>3, <2>4, <2>5 DEF Trouble
<1>9. CASE WriteByte
    BY <1>1, <1>2, <1>3, <1>9, WriteByteCases DEF LeaveInv, JobInv, FlagTypes, NoJob,
       Runs, Appends, Bounds, incoming, line, remote, seen
<1>10. CASE BoundaryByte
    BY <1>1, <1>2, <1>3, <1>10, BoundaryCases DEF LeaveInv, JobInv, FlagTypes, NoJob,
       Runs, Writes, Begins, Loses, incoming, line, remote, seen, counts
<1>11. ASSUME NEW n \in 1 .. MaxOut, WriteStream(n) PROVE LeaveInv'
    BY <1>1, <1>2, <1>3, <1>11, WriteStreamCases DEF LeaveInv, JobInv, FlagTypes, NoJob,
       Runs, Begins, stream, incoming, line, remote, seen, counts
<1>12. CASE RequestStart
    BY <1>1, <1>2, <1>3, <1>12, StartCases DEF LeaveInv, JobInv, FlagTypes, NoJob, Runs,
       Begins, line, remote
<1>13. CASE RoutePublished
    BY <1>1, <1>2, <1>3, <1>13 DEF LeaveInv, JobInv, FlagTypes, NoJob, Runs,
       RoutePublished, incoming, line, remote, seen, counts
<1>14. CASE RequestLegacy
    BY <1>1, <1>2, <1>3, <1>14, LegacyCases DEF LeaveInv, JobInv, FlagTypes, NoJob, Runs,
       StopBegins, Begins, OnlyLeaves, incoming, line, remote, seen, counts
<1>15. CASE Leave
    BY <1>1, <1>2, <1>3, <1>15 DEF LeaveInv, JobInv, FlagTypes, NoJob, Runs, Leave,
       incoming, line, remote, seen, counts
<1>16. CASE SelectEnd
    BY <1>1, <1>2, <1>3, <1>16 DEF LeaveInv, JobInv, FlagTypes, NoJob, Runs,
       SelectEnd, Serving, incoming, remote, seen, counts
<1>17. CASE PeerAnswers
    BY <1>1, <1>2, <1>3, <1>17, AnswerCases DEF LeaveInv, JobInv, FlagTypes, NoJob, Runs,
       AnswersOpen, Answers, AnswersAmount, AnswersRest, stream, incoming, seen
<1>18. CASE PeerQueues
    BY <1>1, <1>2, <1>3, <1>18, QueueCases DEF LeaveInv, JobInv, FlagTypes, NoJob, Runs,
       stream, incoming, line, seen
<1>19. CASE ReplyStarts
    BY <1>1, <1>2, <1>3, <1>19 DEF LeaveInv, JobInv, FlagTypes, NoJob, Runs,
       ReplyStarts, stream, incoming, remote, seen, counts
<1>20. CASE ReplyEnds
    BY <1>1, <1>2, <1>3, <1>20 DEF LeaveInv, JobInv, FlagTypes, NoJob, Runs,
       ReplyEnds, stream, incoming, remote, seen, counts
<1>21. CASE Reset
    BY <1>1, <1>2, <1>3, <1>21 DEF LeaveInv, JobInv, FlagTypes, NoJob, Runs, Reset,
       Quiet, Closed
<1> QED BY <1>4, <1>5, <1>6, <1>7, <1>8, <1>9, <1>10, <1>11, <1>12, <1>13, <1>14,
   <1>15, <1>16, <1>17, <1>18, <1>19, <1>20, <1>21 DEF Next

\* A peer that has answered the end keeps nothing.
LEMMA EndInvStep == IInv /\ [Next]_vars => EndInv'
<1> SUFFICES ASSUME IInv, [Next]_vars PROVE EndInv'
    OBVIOUS
<1>1. EndInv
    BY DEF IInv
<1>2. WireInv
    BY DEF IInv
<1>3. WireType
    BY DEF IInv
<1>4. JobInv
    BY DEF IInv
<1>5. InTypes
    BY DEF IInv
<1>6. PeerType
    BY DEF IInv
<1>7. CASE UNCHANGED vars
    BY <1>1, <1>2, <1>3, <1>4, <1>5, <1>6, <1>7 DEF EndInv, WireInv, WireType,
       JobInv, InTypes, PeerType, NoJob, Runs, Requests, Quiet, vars, stream,
       incoming, line, remote, seen, counts
<1>8. CASE TickOnly
    BY <1>1, <1>2, <1>3, <1>8, TickCases, InterruptFacts DEF EndInv, stream, remote,
       counts
<1>9. CASE TickServes
    BY <1>1, <1>2, <1>3, <1>9, ServesCases, InterruptFacts DEF EndInv, Begins, stream,
       remote, counts
<1>10. CASE JobStep
  <2>1. CASE Flush
      BY <1>1, <1>2, <1>3, <1>4, <1>5, <1>6, <2>1, FlushCases DEF EndInv, WireInv,
         WireType, JobInv, InTypes, PeerType, NoJob, Runs, Requests, Quiet,
         FlushSends, Moves, FlushEnds, StopDrains, ServicePolls, stream, incoming,
         line, remote, seen, counts
  <2>2. CASE Reserve
      BY <1>1, <1>2, <1>3, <1>4, <1>5, <1>6, <2>2, ReserveCases DEF EndInv, WireInv,
         WireType, JobInv, InTypes, PeerType, NoJob, Runs, Requests, Quiet,
         AsksSession, Asks, Moves, Continue, AsksOffer, AsksPoll, AsksStop, incoming,
         remote, seen, counts
  <2>3. CASE Refused
      BY <1>1, <1>2, <1>3, <1>4, <1>5, <1>6, <2>3, RefusedCases DEF EndInv, WireInv,
         WireType, JobInv, InTypes, PeerType, NoJob, Runs, Requests, Quiet,
         ServiceFails, Moves, StartFails, OtherFails, incoming, remote, seen, counts
  <2>4. CASE Negotiated
      BY <1>1, <1>2, <1>3, <1>4, <1>5, <1>6, <2>4, NegotiatedCases DEF EndInv, WireInv,
         WireType, JobInv, InTypes, PeerType, NoJob, Runs, Requests, Quiet, Opens,
         Asks, Moves, Continue, Offers, incoming, remote, seen, counts
  <2>5. CASE Opened
    BY <1>1, <1>2, <1>3, <1>4, <1>5, <1>6, <2>5 DEF EndInv, WireInv, WireType,
       JobInv, InTypes, PeerType, NoJob, Runs, Requests, Quiet, Opened, Answered,
       incoming, remote, seen, counts, At
  <2>6. CASE Offered
    BY <1>1, <1>2, <1>3, <1>4, <1>5, <1>6, <2>6 DEF EndInv, WireInv, WireType,
       JobInv, InTypes, PeerType, NoJob, Runs, Requests, Quiet, Offered, Answered,
       Goto, incoming, remote, seen, counts, At
  <2>7. CASE Polled
      BY <1>1, <1>2, <1>3, <1>4, <1>5, <1>6, <2>7, PolledCases DEF EndInv, WireInv,
         WireType, JobInv, InTypes, PeerType, NoJob, Runs, Requests, Quiet,
         PollFetches, Fetches, Continue, PollFails, ServiceFails, StartFails,
         OtherFails, Moves, PollEnds, remote, seen, counts
  <2>8. CASE BlockDone
      BY <1>1, <1>2, <1>3, <1>4, <1>5, <1>6, <2>8, BlockCases DEF EndInv, WireInv,
         WireType, JobInv, InTypes, PeerType, NoJob, Runs, Requests, Quiet,
         BlockGoes, incoming, WriteEnds, WriteGoesOn, StopDrains, ServicePolls,
         Moves, BlockComes, line, seen
  <2>9. CASE Copy
      BY <1>1, <1>2, <1>3, <1>4, <1>5, <1>6, <2>9, CopyCases DEF EndInv, WireInv,
         WireType, JobInv, InTypes, PeerType, NoJob, Runs, Requests, Quiet,
         CopyFills, CopyEnds, incoming, line, remote, seen
  <2>10. CASE StopAnswered
      BY <1>1, <1>2, <1>3, <1>4, <1>5, <1>6, <2>10, StopCases DEF EndInv, WireInv,
         WireType, JobInv, InTypes, PeerType, NoJob, Runs, Requests, Quiet,
         StreamEnds, StopFetches, Fetches, Continue, StopFails, incoming, remote,
         seen, counts
  <2>11. CASE ServiceEnd
      BY <1>1, <1>2, <1>3, <2>11, EndCases, InterruptFacts DEF EndInv, stream, remote,
         counts
  <2> QED BY <1>10, <2>1, <2>2, <2>3, <2>4, <2>5, <2>6, <2>7, <2>8, <2>9, <2>10,
     <2>11 DEF JobStep
<1>11. CASE Trouble
  <2>1. CASE ExchangeFails
      BY <1>1, <1>2, <1>3, <1>4, <1>5, <1>6, <2>1, ExchangeCases DEF EndInv, WireInv,
         WireType, JobInv, InTypes, PeerType, NoJob, Runs, Requests, Quiet,
         ServiceFails, Moves, StartFails, OtherFails, incoming, remote, seen
  <2>2. CASE BlockFails
      BY <1>1, <1>2, <1>3, <1>4, <1>5, <1>6, <2>2, BlockFailCases DEF EndInv, WireInv,
         WireType, JobInv, InTypes, PeerType, NoJob, Runs, Requests, Quiet,
         ServiceFails, Moves, StartFails, OtherFails, incoming, remote
  <2>3. CASE DrainDeadline
      BY <1>1, <1>2, <1>3, <1>4, <1>5, <1>6, <2>3, DrainCases DEF EndInv, WireInv,
         WireType, JobInv, InTypes, PeerType, NoJob, Runs, Requests, Quiet,
         ServiceFails, Moves, StartFails, OtherFails, incoming, remote, seen
  <2>4. CASE Fault
    BY <1>1, <1>2, <1>3, <1>4, <1>5, <1>6, <2>4 DEF EndInv, WireInv, WireType,
       JobInv, InTypes, PeerType, NoJob, Runs, Requests, Quiet, Fault, stream,
       incoming, remote, seen
  <2>5. CASE SelectBegin
    BY <1>1, <1>2, <1>3, <1>4, <1>5, <1>6, <2>5 DEF EndInv, WireInv, WireType,
       JobInv, InTypes, PeerType, NoJob, Runs, Requests, Quiet, SelectBegin, Idle,
       incoming, line, remote, seen
  <2> QED BY <1>11, <2>1, <2>2, <2>3, <2>4, <2>5 DEF Trouble
<1>12. CASE WriteByte
    BY <1>1, <1>2, <1>3, <1>4, <1>5, <1>6, <1>12, WriteByteCases DEF EndInv, WireInv,
       WireType, JobInv, InTypes, PeerType, NoJob, Runs, Requests, Quiet, Appends,
       Bounds, incoming, line, remote, seen
<1>13. CASE BoundaryByte
    BY <1>1, <1>2, <1>3, <1>4, <1>5, <1>6, <1>13, BoundaryCases DEF EndInv, WireInv,
       WireType, JobInv, InTypes, PeerType, NoJob, Runs, Requests, Quiet, Writes,
       Begins, Loses, incoming, line, remote, seen, counts
<1>14. ASSUME NEW n \in 1 .. MaxOut, WriteStream(n) PROVE EndInv'
    BY <1>1, <1>2, <1>3, <1>4, <1>5, <1>6, <1>14, WriteStreamCases DEF EndInv, WireInv,
       WireType, JobInv, InTypes, PeerType, NoJob, Runs, Requests, Quiet, Begins,
       stream, incoming, line, remote, seen, counts
<1>15. CASE RequestStart
    BY <1>1, <1>2, <1>3, <1>4, <1>5, <1>6, <1>15, StartCases DEF EndInv, WireInv,
       WireType, JobInv, InTypes, PeerType, NoJob, Runs, Requests, Quiet, Begins,
       line, remote
<1>16. CASE RoutePublished
    BY <1>1, <1>2, <1>3, <1>4, <1>5, <1>6, <1>16 DEF EndInv, WireInv, WireType,
       JobInv, InTypes, PeerType, NoJob, Runs, Requests, Quiet, RoutePublished,
       incoming, line, remote, seen, counts
<1>17. CASE RequestLegacy
    BY <1>1, <1>2, <1>3, <1>4, <1>5, <1>6, <1>17, LegacyCases DEF EndInv, WireInv,
       WireType, JobInv, InTypes, PeerType, NoJob, Runs, Requests, Quiet, StopBegins,
       Begins, OnlyLeaves, incoming, line, remote, seen, counts
<1>18. CASE Leave
    BY <1>1, <1>2, <1>3, <1>4, <1>5, <1>6, <1>18 DEF EndInv, WireInv, WireType,
       JobInv, InTypes, PeerType, NoJob, Runs, Requests, Quiet, Leave, incoming,
       line, remote, seen, counts
<1>19. CASE SelectEnd
    BY <1>1, <1>2, <1>3, <1>4, <1>5, <1>6, <1>19 DEF EndInv, WireInv, WireType,
       JobInv, InTypes, PeerType, NoJob, Runs, Requests, Quiet, SelectEnd, Serving,
       incoming, remote, seen, counts
<1>20. CASE PeerAnswers
  <2>1. CASE AnswersOpen
    BY <1>1, <1>2, <1>3, <1>4, <1>5, <1>6, <1>20, <2>1, AnswerCases DEF EndInv, WireInv,
       WireType, JobInv, InTypes, PeerType, NoJob, Runs, Requests, Quiet,
       AnswersOpen, Answers, stream, incoming, seen
  <2>2. CASE AnswersAmount
    BY <1>1, <1>2, <1>3, <1>4, <1>5, <1>6, <1>20, <2>2, AnswerCases DEF EndInv, WireInv,
       WireType, JobInv, InTypes, PeerType, NoJob, Runs, Requests, Quiet,
       AnswersAmount, Answers, stream, incoming, seen
  <2>3. CASE AnswersRest
    BY <1>1, <1>2, <1>3, <1>4, <1>5, <1>6, <1>20, <2>3, AnswerCases DEF EndInv, WireInv,
       WireType, JobInv, InTypes, PeerType, NoJob, Runs, Requests, Quiet,
       AnswersRest, Answers, stream, incoming, seen
  <2> QED BY <1>20, <2>1, <2>2, <2>3, AnswerCases
<1>21. CASE PeerQueues
    BY <1>1, <1>2, <1>3, <1>4, <1>5, <1>6, <1>21, QueueCases DEF EndInv, WireInv,
       WireType, JobInv, InTypes, PeerType, NoJob, Runs, Requests, Quiet, stream,
       incoming, line, seen
<1>22. CASE ReplyStarts
    BY <1>1, <1>2, <1>3, <1>4, <1>5, <1>6, <1>22 DEF EndInv, WireInv, WireType,
       JobInv, InTypes, PeerType, NoJob, Runs, Requests, Quiet, ReplyStarts, stream,
       incoming, remote, seen, counts
<1>23. CASE ReplyEnds
    BY <1>1, <1>2, <1>3, <1>4, <1>5, <1>6, <1>23 DEF EndInv, WireInv, WireType,
       JobInv, InTypes, PeerType, NoJob, Runs, Requests, Quiet, ReplyEnds, stream,
       incoming, remote, seen, counts
<1>24. CASE Reset
    BY <1>1, <1>2, <1>3, <1>4, <1>5, <1>6, <1>24 DEF EndInv, WireInv, WireType,
       JobInv, InTypes, PeerType, NoJob, Runs, Requests, Quiet, Reset, Closed
<1> QED BY <1>7, <1>8, <1>9, <1>10, <1>11, <1>12, <1>13, <1>14, <1>15, <1>16, <1>17,
   <1>18, <1>19, <1>20, <1>21, <1>22, <1>23, <1>24 DEF Next
\* The invariant holds in every reachable state.
THEOREM InductiveInvariant == Spec => []IInv
<1>1. Init => IInv
  <2> SUFFICES ASSUME Init PROVE IInv
      OBVIOUS
  <2>1. FlagTypes /\ WireType /\ PeerType /\ OutTypes /\ InTypes
    <3>1. FlagTypes
        BY DEF Init, FlagTypes
    <3>2. WireType
        BY DEF Init, WireType, Quiet, Requests
    <3>3. PeerType
        BY BoundsAssumption DEF Init, PeerType, Closed
    <3>4. OutTypes /\ InTypes
        BY BoundsAssumption DEF Init, OutTypes, InTypes
    <3> QED BY <3>1, <3>2, <3>3, <3>4
  <2>2. JobType /\ CountTypes /\ WriteRoom /\ FetchRoom
      BY BoundsAssumption DEF Init, JobType, CountTypes, WriteRoom, FetchRoom, NoJob, Whos, Steps
  <2>3. JobInv /\ WireInv /\ AmountRoom /\ OutDrained /\ InOrder /\ StartInv /\ LeaveInv /\ EndInv
      BY DEF Init, JobInv, WireInv, AmountRoom, OutDrained, InOrder, StartInv, LeaveInv, EndInv, NoJob, Quiet,
         Requests, Runs
  <2>4. OutOrder
      BY DEF Init, OutOrder, Sent
  <2> QED BY <2>1, <2>2, <2>3, <2>4 DEF IInv
<1>2. IInv /\ [Next]_vars => IInv'
    BY FlagTypesStep, JobTypeStep, WireTypeStep, PeerTypeStep, CountTypesStep, OutTypesStep, InTypesStep,
       JobInvStep, WireInvStep, WriteRoomStep, FetchRoomStep, AmountRoomStep, OutDrainedStep,
       OutOrderStep, InOrderStep, StartInvStep, LeaveInvStep, EndInvStep DEF IInv
<1> QED BY <1>1, <1>2, PTL DEF Spec

\* Sequences of the same length and the same elements are the same.
LEMMA Same ==
    ASSUME NEW s, NEW t, NEW S, NEW T, s \in Seq(S), t \in Seq(T), Len(s) = Len(t),
           \A i \in 1 .. Len(s) : s[i] = t[i]
    PROVE  s = t
OBVIOUS

\* What was sent and what waits are together the bytes written, in order.
LEMMA SentInOrder ==
    ASSUME NEW S, NEW g \in Seq(S), NEW o \in Seq(S), NEW w \in Nat, Sent(g, o, w)
    PROVE  g \o o = [i \in 1 .. w |-> i]
<1> DEFINE all == g \o o
<1>1. Sent(all, <<>>, w)
    BY SentAll
<1>2. all \in Seq(S)
    OBVIOUS
<1> HIDE DEF all
<1>3. Len(all) = w /\ \A i \in 1 .. w : all[i] = i
    BY <1>1, <1>2 DEF Sent
<1>4. [i \in 1 .. w |-> i] \in Seq(Nat) /\ Len([i \in 1 .. w |-> i]) = w
    OBVIOUS
<1>5. all = [i \in 1 .. w |-> i]
    BY <1>2, <1>3, <1>4, Same
<1> QED BY <1>5 DEF all

\* What was fetched and what is pending are together the bytes not yet taken, in order.
LEMMA WaitsInOrder ==
    ASSUME NEW S, NEW b \in Seq(S), NEW p \in Seq(S), NEW f \in Nat, NEW q \in Nat, Waits(f, b, p, q)
    PROVE  b \o p = [i \in 1 .. (q - f) |-> f + i]
<1> DEFINE all == b \o p
<1>1. all \in Seq(S) /\ Len(all) = Len(b) + Len(p) /\ Len(b) \in Nat /\ Len(p) \in Nat
    OBVIOUS
<1>2. q - f = Len(b) + Len(p)
    BY <1>1 DEF Waits
<1>3. ASSUME NEW i \in 1 .. Len(b) + Len(p) PROVE all[i] = f + i
  <2>1. CASE i <= Len(b)
      BY <1>1, <2>1 DEF Waits
  <2>2. CASE i > Len(b)
    <3>1. PICK k \in 1 .. Len(p) : i = Len(b) + k
      <4>1. i - Len(b) \in 1 .. Len(p) /\ i = Len(b) + (i - Len(b))
          BY <1>1, <1>3, <2>2
      <4> QED BY <4>1
    <3>2. all[Len(b) + k] = p[k]
        BY <1>1
    <3>3. p[k] = f + Len(b) + k
        BY DEF Waits
    <3>4. f + Len(b) + k = f + i
        BY <1>1, <3>1
    <3> QED BY <3>1, <3>2, <3>3, <3>4
  <2> QED BY <1>1, <2>1, <2>2
<1> HIDE DEF all
<1> DEFINE n == q - f
           run == [i \in 1 .. n |-> f + i]
<1>4. n \in Nat /\ n = Len(all)
    BY <1>1, <1>2
<1>5. \A i \in 1 .. n : all[i] = f + i
    BY <1>1, <1>2, <1>3
<1> HIDE DEF n
<1>6. run \in Seq(Nat) /\ Len(run) = n /\ \A i \in 1 .. n : run[i] = f + i
    BY <1>4
<1> HIDE DEF run
<1>7. all = run
    BY <1>1, <1>4, <1>5, <1>6, Same
<1> QED BY <1>7 DEF all, run, n

\* Both directions keep their order within the buffers, at every length of the stream and
\* for every way the blocks cut it (emos_exext.c).
THEOREM StreamSafety == Spec => []StreamIsInOrder
<1>1. IInv => StreamIsInOrder
  <2> SUFFICES ASSUME IInv PROVE StreamIsInOrder
      OBVIOUS
  <2>1. TypeOK
      BY BoundsAssumption DEF IInv, FlagTypes, JobType, WireType, PeerType, CountTypes, OutTypes, InTypes, TypeOK,
         Whos, Steps, Requests
  <2>2. OutputInOrder
    <3>1. got \in Seq(1 .. MaxOut) /\ out \in Seq(1 .. MaxOut) /\ written \in Nat
        BY BoundsAssumption DEF IInv, OutTypes, CountTypes
    <3> QED BY <3>1, SentInOrder DEF IInv, OutOrder, OutputInOrder
  <2>3. InputInOrder
    <3>1. inb \in Seq(DOMAIN Return) /\ pend \in Seq(DOMAIN Return) /\ fed \in Nat /\ queued \in Nat
        BY BoundsAssumption DEF IInv, InTypes, CountTypes
    <3> QED BY <3>1, WaitsInOrder DEF IInv, InOrder, InputInOrder, Runs
  <2> QED BY <2>1, <2>2, <2>3 DEF StreamIsInOrder
<1> QED BY <1>1, InductiveInvariant, PTL

\* A stop that succeeds has sent every byte written and published every byte returned.
THEOREM StopSafety == Spec => StopLeavesNothing
<1>1. IInv /\ [Next]_vars => [owned /\ ~owned' /\ fg' = "leave" /\ ~lossy => Len(got) = written /\ fed = queued]_vars
  <2> SUFFICES ASSUME IInv, [Next]_vars, owned, ~owned', fg' = "leave", ~lossy
               PROVE  Len(got) = written /\ fed = queued
      BY DEF vars
  <2>1. fg # "leave"
      BY DEF IInv, LeaveInv
  <2>2. StopAnswered
    <3>1. CASE JobStep
      <4>1. CASE Flush \/ Copy \/ BlockDone
          BY <4>1, FlushCases, CopyCases, BlockCases DEF stream
      <4>2. CASE Reserve \/ Refused \/ Negotiated \/ Polled
          BY <2>1, <4>2, ReserveCases, RefusedCases, NegotiatedCases, PolledCases
      <4>3. CASE Opened \/ Offered \/ ServiceEnd
          BY <2>1, <4>3 DEF Opened, Offered, ServiceEnd, stream
      <4> QED BY <3>1, <4>1, <4>2, <4>3 DEF JobStep
    <3>2. CASE Trouble
        BY <2>1, <3>2, ExchangeCases, BlockFailCases, DrainCases DEF Trouble, Fault, SelectBegin, stream
    <3>3. CASE TickOnly \/ TickServes \/ WriteByte \/ BoundaryByte \/ (\E n \in 1 .. MaxOut : WriteStream(n))
        BY <3>3 DEF TickOnly, TickServes, WriteByte, BoundaryByte, WriteStream, stream
    <3>4. CASE \/ RequestStart \/ RoutePublished \/ RequestLegacy \/ Leave \/ SelectEnd
               \/ PeerAnswers \/ PeerQueues \/ ReplyStarts \/ ReplyEnds \/ Reset
        BY <3>4 DEF RequestStart, RoutePublished, RequestLegacy, Leave, SelectEnd, PeerAnswers, PeerQueues,
           ReplyStarts, ReplyEnds, Reset, stream
    <3> QED BY <3>1, <3>2, <3>3, <3>4 DEF Next, vars, stream
  <2>3. StreamEnds /\ job.at = "stop" /\ Runs("stop") /\ wire.st = "arrived"
      BY <2>2, StopCases DEF StopFetches, StopFails, Fetches, Continue
  <2>4. out = <<>> /\ inb = <<>> /\ pend = <<>>
      BY <2>3 DEF IInv, OutDrained, EndInv, WireInv, StreamEnds, Requests
  <2>5. Sent(got, <<>>, written) /\ Waits(fed, <<>>, <<>>, queued)
      BY <2>3, <2>4 DEF IInv, OutOrder, InOrder, Runs
  <2>6. got \in Seq(1 .. MaxOut) /\ fed \in Nat
      BY BoundsAssumption DEF IInv, OutTypes, CountTypes
  <2> QED BY <2>5, <2>6 DEF Sent, Waits
<1> QED BY <1>1, InductiveInvariant, PTL DEF Spec, StopLeavesNothing

-----------------------------------------------------------------------------
(* Why a service does not fail: packet boundaries, trouble, and the session. *)

\* A packet begins behind k, or nothing follows.
Boundary(k) == k = Len(Return) \/ Return[k + 1].len > 0
\* What waits here is nothing, or the beginning of one packet.
Partial == inb = <<>> \/ Len(inb) < Return[fed + 1].len

\* The peer queues whole packets, and the parser stops between two.
BoundaryInv ==
    /\ Boundary(queued)
    /\ owned /\ ~lossy => Boundary(fed)
\* A service begins with a part of a packet at most, and a stop asks with no more.
PartInv ==
    owned /\ ~lossy =>
        /\ needMore => Partial
        /\ Runs("service") /\ job.at # "end" => Partial
        /\ job.at = "stop" => inb = <<>> \/ needMore
\* Without trouble nothing is fenced, lost or faulted.
TroubleInv ==
    /\ fg = "select" => troubled
    /\ owned /\ ~troubled => ~fenced /\ ~lossy /\ (faulted => Runs("start"))
\* Without trouble both sides are in one session, at one block, and the stream is open.
PairInv ==
    owned /\ ~troubled =>
        /\ ~Runs("start") /\ ~(wire.op = "stop" /\ wire.st # "asked" /\ wire.n = 0) => peer.open
        /\ wire.op = "open" /\ wire.st # "asked" => peer.open
        /\ wire.op = "offer" => wire.n = num + 1
        /\ job.at # "begin" /\ ~(wire.op = "session" /\ wire.st = "asked") =>
             /\ peer.session = session
             /\ peer.num = IF wire.op = "offer" /\ wire.st # "asked" THEN num + 1 ELSE num
EndingInv == BoundaryInv /\ PartInv /\ TroubleInv /\ PairInv

\* The maximum of a bounded set of natural numbers is not below any of them.
LEMMA MaxAbove ==
    ASSUME NEW n \in Nat, NEW S \in SUBSET (0 .. n), NEW z \in S
    PROVE  Max(S) \in S /\ z <= Max(S)
<1> DEFINE T == {n - x : x \in S}
<1>1. T \in SUBSET Nat /\ T # {}
    OBVIOUS
<1> HIDE DEF T
<1>2. PICK t \in T : \A y \in T : t <= y
    BY <1>1, LeastOf
<1>3. PICK x \in S : t = n - x
    BY DEF T
<1>4. ASSUME NEW y \in S PROVE x >= y
  <2>1. n - y \in T
      BY DEF T
  <2> QED BY <1>2, <1>3, <2>1
<1>5. Max(S) \in S /\ \A y \in S : Max(S) >= y
    BY <1>4 DEF Max
<1> QED BY <1>5

\* What the peer has to return has lengths.
LEMMA Lengths == \A i \in 1 .. Len(Return) : Return[i].len \in Nat
<1> SUFFICES ASSUME NEW i \in 1 .. Len(Return) PROVE Return[i].len \in Nat
    OBVIOUS
<1> DEFINE R == [len : Nat, key : BOOLEAN]
<1>1. Return \in Seq(R)
    BY BoundsAssumption
<1> HIDE DEF R
<1>2. Return[i] \in R
    BY <1>1
<1> QED BY <1>2 DEF R

\* Behind the end of a packet there is a boundary.
LEMMA EndIsBoundary ==
    ASSUME NEW k \in Nat, k < Len(Return), Boundary(k)
    PROVE  /\ Return[k + 1].len \in Nat \ {0} /\ Return[k + 1].len <= Fetch + 1
           /\ k + Return[k + 1].len \in 1 .. Len(Return)
           /\ Boundary(k + Return[k + 1].len)
           /\ \A j \in k + 2 .. k + Return[k + 1].len : Return[j].len = 0
<1>1. Len(Return) \in Nat /\ DOMAIN Return = 1 .. Len(Return) /\ k + 1 \in 1 .. Len(Return)
    BY BoundsAssumption
<1>2. Return[k + 1].len \in Nat \ {0}
  <2>1. Return[k + 1].len \in Nat
      BY Lengths
  <2>2. Return[k + 1].len > 0
      BY DEF Boundary
  <2> QED BY <2>1, <2>2
<1> DEFINE n == Return[k + 1].len
           i == k + 1
<1>3. i + n - 1 <= Len(Return)
    BY BoundsAssumption
<1>4. /\ n <= Fetch + 1
      /\ \A j \in i + 1 .. i + n - 1 : Return[j].len = 0
      /\ i + n <= Len(Return) => Return[i + n].len > 0
    BY <1>2, PacketsAssumption
<1> HIDE DEF n
<1>5. n \in Nat \ {0} /\ n = Return[k + 1].len
    BY <1>2 DEF n
<1>6. k + n \in 1 .. Len(Return) /\ i + n - 1 = k + n /\ i + 1 = k + 2 /\ i + n = k + n + 1
  <2>1. Len(Return) \in Nat /\ n \in Nat \ {0} /\ i = k + 1
      BY <1>1, <1>5
  <2>2. i + n - 1 = k + n /\ i + 1 = k + 2 /\ i + n = k + n + 1
      BY <2>1
  <2>3. k + n <= Len(Return)
      BY <1>3, <2>2
  <2> QED BY <2>1, <2>2, <2>3
<1>7. Boundary(k + n)
  <2>1. k + n # Len(Return) => i + n <= Len(Return)
      BY <1>6
  <2>2. k + n # Len(Return) => Return[k + n + 1].len > 0
      BY <1>4, <1>6
  <2> QED BY <2>2 DEF Boundary
<1> QED BY <1>4, <1>5, <1>6, <1>7

\* What waits here when a whole number of packets was parsed.
Lined ==
    /\ inb \in Seq(DOMAIN Return) /\ fed \in Nat /\ fed + Len(inb) <= Len(Return)
    /\ \A i \in 1 .. Len(inb) : inb[i] = fed + i
    /\ Boundary(fed)

\* Where a whole packet ends here, the next one begins.
LEMMA EndsAtBoundary ==
    ASSUME Lined, NEW hs \in SUBSET Headers, NEW e \in Ends(hs)
    PROVE  e \in 1 .. Len(inb) /\ Boundary(fed + e) /\ ~Partial
<1>1. DOMAIN inb = 1 .. Len(inb) /\ Len(inb) \in Nat /\ Len(Return) \in Nat /\ fed \in Nat
    BY DEF Lined
<1>2. PICK i \in 1 .. Len(inb) : Return[inb[i]] \in hs /\ e = i + Return[inb[i]].len - 1
    BY <1>1 DEF Ends
<1>3. e \in 1 .. Len(inb)
    BY DEF Ends
<1>4. inb[i] = fed + i /\ fed + i \in 1 .. Len(Return)
    BY DEF Lined
<1>5. Return[fed + i].len > 0
    BY <1>2, <1>4 DEF Headers
<1> DEFINE k == fed + i - 1
<1>6. k \in Nat /\ k < Len(Return) /\ k + 1 = fed + i
    BY <1>1, <1>4
<1>7. Boundary(k)
    BY <1>5, <1>6 DEF Boundary
<1>8. k + Return[fed + i].len = fed + e
  <2>1. Return[fed + i].len \in Nat
      BY <1>4, Lengths
  <2>2. e = i + Return[fed + i].len - 1
    <3>1. inb[i] = fed + i
        BY <1>4
    <3>2. e = i + Return[inb[i]].len - 1
        BY <1>2
    <3> HIDE DEF k
    <3> QED BY <3>1, <3>2, Zenon
  <2> QED BY <1>1, <2>1, <2>2
<1> HIDE DEF k
<1>9. Boundary(fed + e)
    BY <1>6, <1>7, <1>8, EndIsBoundary
<1>10. ~Partial
  <2> SUFFICES ASSUME Partial PROVE FALSE
      OBVIOUS
  <2>1. Len(inb) < Return[fed + 1].len /\ fed < Len(Return)
      BY <1>1, <1>2, <1>4 DEF Partial
  <2>2. CASE i = 1
    <3>1. e = Return[fed + 1].len
        BY <1>2, <1>4, <2>2, Lengths
    <3> QED BY <1>1, <1>3, <2>1, <3>1
  <2>3. CASE i # 1
    <3>1. Return[fed + 1].len \in Nat /\ \A j \in fed + 2 .. fed + Return[fed + 1].len : Return[j].len = 0
        BY EndIsBoundary DEF Lined
    <3>2. fed + i \in fed + 2 .. fed + Return[fed + 1].len
        BY <1>1, <1>2, <2>1, <2>3, <3>1
    <3> QED BY <1>5, <3>1, <3>2
  <2> QED BY <2>2, <2>3
<1> QED BY <1>3, <1>9, <1>10

\* The parser takes whole packets, and all of them unless it stops behind a key.
LEMMA PublishesWhole ==
    ASSUME Lined, ~faulted
    PROVE  /\ Publishable \in 0 .. Len(inb) /\ Boundary(fed + Publishable)
           /\ Partial => Publishable = 0 /\ ~PublishesKey
           /\ ~PublishesKey => \/ Publishable = Len(inb)
                               \/ Len(inb) - Publishable < Return[fed + Publishable + 1].len
<1>1. DOMAIN inb = 1 .. Len(inb) /\ Len(inb) \in Nat /\ Len(Return) \in Nat /\ fed \in Nat
    BY DEF Lined
<1>2. Orphans = {}
  <2> SUFFICES ASSUME NEW i \in Orphans PROVE FALSE
      OBVIOUS
  <2>1. i \in 1 .. Len(inb) /\ Return[inb[1]].len = 0
      BY DEF Orphans
  <2>2. inb[1] = fed + 1 /\ fed < Len(Return)
      BY <2>1 DEF Lined
  <2> QED BY <2>1, <2>2 DEF Lined, Boundary
<1> DEFINE S == Ends(Headers) \cup Orphans \cup {0}
<1>3. S = Ends(Headers) \cup {0}
    BY <1>2
<1>4. \A e \in Ends(Headers) : e \in 1 .. Len(inb) /\ Boundary(fed + e) /\ ~Partial
    BY EndsAtBoundary
<1>5. \A e \in KeyEnds : e \in 1 .. Len(inb) /\ Boundary(fed + e) /\ ~Partial
    BY EndsAtBoundary DEF KeyEnds
<1>6. S \in SUBSET (0 .. Len(inb)) /\ 0 \in S
    BY <1>3, <1>4
<1> DEFINE n == Publishable
<1>7. CASE KeyEnds # {}
  <2>1. KeyEnds \in SUBSET Nat
      BY <1>5
  <2>2. n \in KeyEnds /\ PublishesKey
      BY <1>7, <2>1, MinOf DEF Publishable, PublishesKey
  <2> QED BY <1>5, <2>2
<1>8. CASE KeyEnds = {}
  <2>1. n = Max(S) /\ ~PublishesKey
      BY <1>8 DEF Publishable, PublishesKey
  <2> HIDE DEF S, n
  <2>2. n \in S /\ \A z \in S : z <= n
      BY <1>1, <1>6, <2>1, MaxAbove
  <2>3. n \in 0 .. Len(inb)
      BY <1>6, <2>2
  <2>4. Boundary(fed + n)
    <3>1. CASE n = 0
        BY <3>1 DEF Lined
    <3>2. CASE n # 0
        BY <1>3, <1>4, <2>2, <3>2
    <3> QED BY <3>1, <3>2
  <2>5. Partial => n = 0
      BY <1>3, <1>4, <2>2
  <2>6. n = Len(inb) \/ Len(inb) - n < Return[fed + n + 1].len
    <3>1. n \in Nat /\ n <= Len(inb) /\ Len(inb) \in Nat /\ Len(Return) \in Nat /\ fed \in Nat
        BY <1>1, <2>3
    <3>2. CASE n = Len(inb)
        BY <3>2
    <3>3. CASE n # Len(inb)
      <4>1. n + 1 \in 1 .. Len(inb)
          BY <3>1, <3>3
      <4>2. inb[n + 1] = fed + (n + 1) /\ fed + Len(inb) <= Len(Return)
          BY <4>1 DEF Lined
      <4>3. fed + n \in Nat /\ fed + n < Len(Return) /\ fed + (n + 1) = fed + n + 1
            /\ fed + n + 1 \in 1 .. Len(Return)
          BY <3>1, <4>1, <4>2
      <4> DEFINE m == Return[fed + n + 1].len
      <4>4. m \in Nat \ {0}
          BY <2>4, <4>3, EndIsBoundary
      <4>5. Return[fed + n + 1] \in Headers /\ Return[inb[n + 1]].len = m
          BY <4>2, <4>3, <4>4 DEF Headers
      <4> HIDE DEF m
      <4>6. ASSUME n + m <= Len(inb) PROVE FALSE
        <5>1. n + m \in 1 .. Len(inb) /\ n + m = (n + 1) + Return[inb[n + 1]].len - 1
            BY <3>1, <4>4, <4>5, <4>6
        <5>2. Return[inb[n + 1]] \in Headers
            BY <4>2, <4>3, <4>5
        <5>3. n + m \in Ends(Headers)
            BY <4>1, <5>1, <5>2 DEF Ends
        <5>4. n + m <= n
            BY <1>3, <2>2, <5>3
        <5> QED BY <3>1, <4>4, <5>4
      <4>7. Len(inb) - n < m
          BY <3>1, <4>4, <4>6
      <4> QED BY <4>7 DEF m
    <3> QED BY <3>3
  <2> QED BY <2>1, <2>3, <2>4, <2>5, <2>6 DEF n
<1> QED BY <1>7, <1>8

\* While bytes wait in order and nothing is lost, they begin at a boundary.
LEMMA LinedUp ==
    ASSUME IInv, owned, ~Runs("start"), ~lossy, Boundary(fed)
    PROVE  Lined /\ queued = fed + Len(inb) + Len(pend)
<1>1. Waits(fed, inb, pend, queued) /\ InTypes /\ CountTypes
    BY DEF IInv, InOrder
<1>2. /\ inb \in Seq(DOMAIN Return) /\ pend \in Seq(DOMAIN Return) /\ Len(inb) \in Nat /\ Len(pend) \in Nat
      /\ fed \in Nat /\ queued \in Nat /\ queued <= Len(Return) /\ Len(Return) \in Nat
    BY <1>1, BoundsAssumption DEF InTypes, CountTypes
<1> QED BY <1>1, <1>2 DEF Waits, Lined

\* A publication leaves whole packets behind it, and the rest of one unless it stops at a key.
LEMMA PublishFacts ==
    ASSUME IInv, owned, ~Runs("start"), BoundaryInv, Publish, ~lossy'
    PROVE  /\ Boundary(fed)'
           /\ ~PublishesKey => Partial'
           /\ needMore' => Partial'
           /\ Partial => UNCHANGED <<inb, fed>> /\ (inb # <<>> => needMore')
<1>1. FlagTypes /\ InTypes
    BY DEF IInv
<1>2. ~lossy /\ (faulted => inb = <<>>)
    BY DEF Publish
<1>3. Lined
    BY <1>2, LinedUp DEF BoundaryInv
<1> DEFINE n == Publishable
<1>4. /\ inb' = IF faulted THEN <<>> ELSE SubSeq(inb, n + 1, Len(inb))
      /\ needMore' = (inb' # <<>> /\ ~PublishesKey)
      /\ fed' = IF n > 0 THEN inb[n] ELSE fed
    BY DEF Publish
<1>5. CASE faulted
  <2>1. n = 0 /\ inb = <<>>
      BY <1>2, <1>5 DEF Publishable
  <2> QED BY <1>3, <1>4, <1>5, <2>1 DEF Lined, Boundary, Partial
<1>6. CASE ~faulted
  <2>1. /\ n \in 0 .. Len(inb) /\ Boundary(fed + n)
        /\ Partial => n = 0 /\ ~PublishesKey
        /\ ~PublishesKey => n = Len(inb) \/ Len(inb) - n < Return[fed + n + 1].len
      BY <1>3, <1>6, PublishesWhole
  <2> HIDE DEF n
  <2>2. fed \in Nat /\ Len(inb) \in Nat /\ inb \in Seq(DOMAIN Return)
        /\ \A i \in 1 .. Len(inb) : inb[i] = fed + i
      BY <1>3 DEF Lined
  <2>3. fed' = fed + n
    <3>1. CASE n = 0
        BY <1>4, <2>2, <3>1
    <3>2. CASE n # 0
        BY <1>4, <2>1, <2>2
    <3> QED BY <3>1, <3>2
  <2>4. inb' \in Seq(DOMAIN Return) /\ Len(inb') = Len(inb) - n
      BY <1>4, <1>6, <2>1, <2>2
  <2>5. Boundary(fed)'
      BY <2>1, <2>3
  <2>6. ~PublishesKey => Partial'
    <3>1. CASE n = Len(inb)
      <4>1. inb' = <<>>
          BY <2>4, <3>1
      <4> QED BY <4>1 DEF Partial
    <3>2. CASE Len(inb) - n < Return[fed + n + 1].len
        BY <2>3, <2>4, <3>2 DEF Partial
    <3> QED BY <2>1, <3>1, <3>2
  <2>7. ASSUME Partial PROVE UNCHANGED <<inb, fed>> /\ (inb # <<>> => needMore')
    <3>1. n = 0 /\ ~PublishesKey
        BY <2>1, <2>7
    <3>2. inb' = inb
        BY <1>4, <1>6, <2>2, <3>1
    <3>3. fed' = fed
        BY <2>2, <2>3, <3>1
    <3>4. inb # <<>> => needMore'
        BY <1>4, <3>1, <3>2, Zenon
    <3> QED BY <3>2, <3>3, <3>4
  <2> QED BY <1>4, <2>5, <2>6, <2>7
<1> QED BY <1>5, <1>6

\* Where a job stands whose answer to STOP is the end, nothing waits here.
LEMMA StopIsWhole ==
    ASSUME IInv, BoundaryInv, PartInv, owned, ~lossy,
           job.at = "stop", wire.st = "arrived", wire.n = 0
    PROVE  inb = <<>>
<1>1. Runs("stop") /\ wire.op = "stop"
    BY DEF IInv, JobInv, WireInv, JobType, Whos, Requests, Runs, NoJob
<1>2. pend = <<>>
    BY <1>1 DEF IInv, EndInv
<1>3. Lined /\ queued = fed + Len(inb) /\ Boundary(fed) /\ Boundary(queued)
  <2>1. Lined /\ queued = fed + Len(inb) + Len(pend) /\ Boundary(fed) /\ Boundary(queued)
      BY <1>1, LinedUp DEF Runs, BoundaryInv
  <2>2. Len(inb) \in Nat /\ fed \in Nat /\ Len(pend) = 0
      BY <1>2, <2>1 DEF Lined
  <2> QED BY <2>1, <2>2
<1> SUFFICES ASSUME inb # <<>> PROVE FALSE
    OBVIOUS
<1>4. Len(inb) < Return[fed + 1].len
    BY DEF PartInv, Partial
<1> DEFINE m == Len(inb)
           k == Return[fed + 1].len
<1>5. m \in Nat \ {0} /\ fed \in Nat /\ fed + m <= Len(Return) /\ Len(Return) \in Nat
  <2>1. inb \in Seq(DOMAIN Return) /\ fed \in Nat /\ fed + m <= Len(Return)
      BY <1>3 DEF Lined
  <2>2. m \in Nat /\ Len(Return) \in Nat
      BY <2>1, BoundsAssumption
  <2>3. m # 0
      BY <1>3, <2>1
  <2> QED BY <2>1, <2>2, <2>3
<1>6. k \in Nat /\ fed + k <= Len(Return) /\ \A j \in fed + 2 .. fed + k : Return[j].len = 0
    BY <1>3, <1>5, EndIsBoundary
<1> HIDE DEF k, m
<1>7. m < k /\ queued = fed + m
    BY <1>3, <1>4 DEF k, m
<1>8. queued + 1 \in fed + 2 .. fed + k /\ queued # Len(Return)
    BY <1>5, <1>6, <1>7
<1> QED BY <1>3, <1>6, <1>8 DEF Boundary

\* There is room for a return block behind a part of one packet.
LEMMA PartHasRoom ==
    ASSUME IInv, BoundaryInv, owned, ~lossy, ~Runs("start"), Partial
    PROVE  ~(Len(inb) + Capped(wire.n) > 2 * Fetch)
<1>1. wire.n \in Nat /\ Fetch \in Nat
    BY BoundsAssumption DEF IInv, WireType
<1>2. Capped(wire.n) \in 0 .. Fetch
    BY <1>1, MinOfTwo DEF Capped
<1>3. Lined
    BY LinedUp DEF BoundaryInv
<1>4. Len(inb) \in 0 .. Fetch
  <2>1. CASE inb = <<>>
      BY <1>1, <2>1
  <2>2. CASE inb # <<>>
    <3>1. /\ Len(inb) \in Nat \ {0} /\ fed \in Nat /\ fed < Len(Return) /\ Boundary(fed)
          /\ Len(inb) < Return[fed + 1].len
      <4>1. inb \in Seq(DOMAIN Return) /\ fed \in Nat /\ fed + Len(inb) <= Len(Return) /\ Boundary(fed)
          BY <1>3 DEF Lined
      <4>2. Len(inb) \in Nat \ {0} /\ Len(Return) \in Nat
          BY <4>1, <2>2, BoundsAssumption
      <4>3. Len(inb) < Return[fed + 1].len
          BY <2>2 DEF Partial
      <4> QED BY <4>1, <4>2, <4>3
    <3>2. Return[fed + 1].len \in Nat /\ Return[fed + 1].len <= Fetch + 1
        BY <3>1, EndIsBoundary
    <3> QED BY <1>1, <3>1, <3>2
  <2> QED BY <2>1, <2>2
<1> QED BY <1>1, <1>2, <1>4

\* Without trouble no reservation is refused.
LEMMA RefusedTrouble ==
    ASSUME IInv, TroubleInv, owned, ~Runs("start"), Refused
    PROVE  troubled
<1>1. rx = "none"
  <2>1. job.at \notin Requests
      BY DEF Refused, At, Requests
  <2> QED BY <2>1 DEF IInv, WireInv, FlagTypes
<1> QED BY <1>1 DEF Refused, CanReserve, TroubleInv

\* Without trouble the peer accepts what it is asked.
LEMMA ExchangeTrouble ==
    ASSUME IInv, TroubleInv, PairInv, owned, ~Runs("start"), ExchangeFails
    PROVE  troubled'
<1> SUFFICES ASSUME ~troubled, ~faulted, wire.st = "asked" PROVE PeerAccepts
    BY DEF ExchangeFails
<1>1. job.at = wire.op /\ wire.op \in Requests /\ wire.op # "open"
    BY DEF IInv, WireInv, WireType, JobInv, JobType, Whos, Runs, Requests, NoJob
<1> QED BY <1>1 DEF PairInv, PeerAccepts, Requests

\* What the failure of a job does to the fence.
LEMMA FenceFacts ==
    ASSUME IInv, OtherFails
    PROVE  /\ Refused => fenced' = fenced
           /\ StopAnswered => fenced' = fenced
<1>1. FlagTypes /\ ~Serving
    BY DEF IInv, OtherFails, Serving
<1>2. Fails(FALSE) => fenced' = fenced
    BY <1>1 DEF Fails, FlagTypes
<1> QED BY <1>2 DEF Refused, StopAnswered, FetchAmount, Continue

\* The number of a block that is offered follows the last.
LEMMA OfferFacts ==
    ASSUME IInv
    PROVE  /\ Reserve /\ AsksOffer => NextBlock = num + 1
           /\ num = 0 => NextBlock = 1
           /\ num + 1 \in 0 .. MaxBlock => NextBlock = num + 1
<1>1. num \in Nat /\ num <= MaxBlock /\ MaxBlock \in Nat \ {0}
    BY BoundsAssumption DEF IInv, CountTypes
<1>2. NextBlock = IF num = MaxBlock THEN 0 ELSE num + 1
  <2>1. CASE num = MaxBlock
      BY <1>1 DEF NextBlock
  <2>2. CASE num # MaxBlock
    <3>1. num + 1 \in 0 .. MaxBlock
        BY <1>1, <2>2
    <3>2. (num + 1) % (MaxBlock + 1) = num + 1
        BY <1>1, <3>1
    <3> QED BY <2>2, <3>2 DEF NextBlock
  <2> QED BY <2>1, <2>2
<1>3. Reserve /\ AsksOffer => NextBlock # 0
    BY DEF Reserve, AsksOffer, Asks, Ask, MustRenew
<1> QED BY <1>1, <1>2, <1>3

\* A request that has not been answered is not interrupted.
LEMMA AskedStays ==
    ASSUME WireType, WireInv, Interrupts
    PROVE  wire'.op = wire.op /\ wire'.n = wire.n /\ (wire'.st = "asked" <=> wire.st = "asked")
BY DEF WireInv, Interrupts

\* What a step has to leave as it is.
LEMMA PartKept ==
    ASSUME PartInv, UNCHANGED <<inb, fed, needMore>>, owned' /\ ~lossy' => owned /\ ~lossy,
           Runs("service")' /\ job'.at # "end" => Runs("service") /\ job.at # "end",
           job'.at = "stop" => job.at = "stop"
    PROVE  PartInv'
<1>1. (needMore' <=> needMore) /\ (Partial' <=> Partial) /\ (inb' = <<>> <=> inb = <<>>)
    BY DEF Partial
<1>2. CASE owned' /\ ~lossy'
  <2>1. /\ needMore => Partial
        /\ Runs("service") /\ job.at # "end" => Partial
        /\ job.at = "stop" => inb = <<>> \/ needMore
      BY <1>2, Zenon DEF PartInv
  <2>2. /\ needMore' => Partial'
        /\ Runs("service")' /\ job'.at # "end" => Partial'
        /\ job'.at = "stop" => inb' = <<>> \/ needMore'
      BY <1>1, <2>1, Zenon
  <2> QED BY <2>2 DEF PartInv
<1> QED BY <1>2, Zenon DEF PartInv

\* Queueing and parsing go from boundary to boundary.
LEMMA BoundaryStep == IInv /\ EndingInv /\ [Next]_vars => BoundaryInv'
<1> SUFFICES ASSUME IInv, EndingInv, [Next]_vars PROVE BoundaryInv'
    OBVIOUS
<1>1. BoundaryInv
    BY DEF EndingInv
<1>2. FlagTypes
    BY DEF IInv
<1>3. CASE UNCHANGED vars
    BY <1>1, <1>2, <1>3 DEF BoundaryInv, Boundary, FlagTypes, vars, stream, incoming,
       line, remote, seen, counts
<1>4. CASE TickOnly
  <2> SUFFICES ASSUME owned', ~lossy' PROVE BoundaryInv'
      BY <1>1, <1>2, <1>4, TickCases DEF BoundaryInv, Boundary, counts
  <2>1. owned /\ ~Runs("start") /\ queued' = queued
      BY <1>4, TickCases DEF IInv, StartInv, JobInv, JobType, stream, counts, TickOnly
  <2>2. Publish
      BY <1>4 DEF TickOnly
  <2> QED BY <2>1, <2>2, <1>1, PublishFacts DEF BoundaryInv
<1>5. CASE TickServes
  <2> SUFFICES ASSUME owned', ~lossy' PROVE BoundaryInv'
      BY <1>1, <1>2, <1>5, ServesCases DEF BoundaryInv, Boundary, counts
  <2>1. owned /\ ~Runs("start") /\ queued' = queued
      BY <1>5, ServesCases DEF NoJob, Runs, counts
  <2>2. CASE Publish
      BY <2>1, <2>2, <1>1, PublishFacts DEF BoundaryInv
  <2>3. CASE UNCHANGED <<incoming, fed, lossy>>
      BY <2>1, <2>3, <1>1 DEF BoundaryInv
  <2> QED BY <1>5, <2>2, <2>3 DEF TickServes
<1>6. CASE JobStep
  <2>1. CASE Flush
      BY <1>1, <1>2, <2>1, FlushCases DEF BoundaryInv, Boundary, FlagTypes, FlushSends,
         Moves, FlushEnds, StopDrains, ServicePolls, stream, incoming, line, remote,
         seen, counts
  <2>2. CASE Reserve
      BY <1>1, <1>2, <2>2, ReserveCases DEF BoundaryInv, Boundary, FlagTypes,
         AsksSession, Asks, Moves, Continue, AsksOffer, AsksPoll, AsksStop, incoming,
         remote, seen, counts
  <2>3. CASE Refused
    <3>1. CASE ServiceFails
      BY <1>1, <1>2, <2>3, <3>1, RefusedCases DEF BoundaryInv, Boundary, FlagTypes,
         ServiceFails, Moves, incoming, remote, seen, counts
    <3>2. CASE StartFails
      BY <1>1, <1>2, <2>3, <3>2, RefusedCases DEF BoundaryInv, Boundary, FlagTypes,
         StartFails, incoming, remote, seen, counts
    <3>3. CASE OtherFails
      BY <1>1, <1>2, <2>3, <3>3, RefusedCases DEF BoundaryInv, Boundary, FlagTypes,
         OtherFails, incoming, remote, seen, counts
    <3> QED BY <2>3, <3>1, <3>2, <3>3, RefusedCases
  <2>4. CASE Negotiated
      BY <1>1, <1>2, <2>4, NegotiatedCases DEF BoundaryInv, Boundary, FlagTypes, Opens,
         Asks, Moves, Continue, Offers, incoming, remote, seen, counts
  <2>5. CASE Opened
    BY <1>1, <1>2, <2>5 DEF BoundaryInv, Boundary, FlagTypes, Opened, Answered, seen,
       counts, At
  <2>6. CASE Offered
    BY <1>1, <1>2, <2>6 DEF BoundaryInv, Boundary, FlagTypes, Offered, Answered, Quiet,
       Goto, incoming, remote, seen, counts, At
  <2>7. CASE Polled
    <3>1. CASE PollFetches
      BY <1>1, <1>2, <2>7, <3>1, PolledCases DEF BoundaryInv, Boundary, FlagTypes,
         PollFetches, Fetches, Continue, Quiet, remote, seen, counts
    <3>2. CASE PollFails
      <4>1. CASE ServiceFails
        BY <1>1, <1>2, <2>7, <3>2, <4>1, PolledCases DEF BoundaryInv, Boundary,
           FlagTypes, PollFails, ServiceFails, Moves, Quiet, remote, seen, counts
      <4>2. CASE StartFails
        BY <1>1, <1>2, <2>7, <3>2, <4>2, PolledCases DEF BoundaryInv, Boundary,
           FlagTypes, PollFails, StartFails, Quiet, remote, seen, counts
      <4>3. CASE OtherFails
        BY <1>1, <1>2, <2>7, <3>2, <4>3, PolledCases DEF BoundaryInv, Boundary,
           FlagTypes, PollFails, OtherFails, Quiet, remote, seen, counts
      <4> QED BY <3>2, <4>1, <4>2, <4>3 DEF PollFails
    <3>3. CASE PollEnds
      BY <1>1, <1>2, <2>7, <3>3, PolledCases DEF BoundaryInv, Boundary, FlagTypes,
         PollEnds, Moves, Continue, Quiet, remote, seen, counts
    <3> QED BY <2>7, <3>1, <3>2, <3>3, PolledCases
  <2>8. CASE BlockDone
    <3>1. CASE BlockGoes
      BY <1>1, <1>2, <2>8, <3>1, BlockCases DEF BoundaryInv, Boundary, FlagTypes,
         BlockGoes, incoming, WriteEnds, WriteGoesOn, StopDrains, ServicePolls, Moves,
         line, seen
    <3>2. CASE BlockComes
      BY <1>1, <1>2, <2>8, <3>2, BlockCases DEF BoundaryInv, Boundary, FlagTypes,
         BlockComes, line, seen
    <3> QED BY <2>8, <3>1, <3>2, BlockCases
  <2>9. CASE Copy
      BY <1>1, <1>2, <2>9, CopyCases DEF BoundaryInv, Boundary, FlagTypes, CopyFills,
         CopyEnds, incoming, line, remote, seen
  <2>10. CASE StopAnswered
    <3>1. CASE StreamEnds
      BY <1>1, <1>2, <2>10, <3>1, StopCases DEF BoundaryInv, Boundary, FlagTypes,
         StreamEnds, Quiet, incoming, remote, seen, counts
    <3>2. CASE StopFetches
      BY <1>1, <1>2, <2>10, <3>2, StopCases DEF BoundaryInv, Boundary, FlagTypes,
         StopFetches, Fetches, Continue, Quiet, incoming, remote, seen, counts
    <3>3. CASE StopFails
      BY <1>1, <1>2, <2>10, <3>3, StopCases DEF BoundaryInv, Boundary, FlagTypes,
         StopFails, Quiet, incoming, remote, seen, counts
    <3> QED BY <2>10, <3>1, <3>2, <3>3, StopCases
  <2>11. CASE ServiceEnd
    <3> SUFFICES ASSUME owned', ~lossy' PROVE BoundaryInv'
        BY <1>1, <1>2, <2>11, EndCases DEF BoundaryInv, Boundary, counts
    <3>1. owned /\ ~Runs("start") /\ queued' = queued
        BY <2>11, EndCases DEF IInv, StartInv, JobInv, JobType, stream, counts,
           TickOnly
    <3>2. Publish
        BY <2>11 DEF ServiceEnd
    <3> QED BY <3>1, <3>2, <1>1, PublishFacts DEF BoundaryInv
  <2> QED BY <1>6, <2>1, <2>2, <2>3, <2>4, <2>5, <2>6, <2>7, <2>8, <2>9, <2>10, <2>11
     DEF JobStep
<1>7. CASE Trouble
  <2>1. CASE ExchangeFails
    <3>1. CASE ServiceFails
      BY <1>1, <1>2, <2>1, <3>1, ExchangeCases DEF BoundaryInv, Boundary, FlagTypes,
         ServiceFails, Moves, Quiet
    <3>2. CASE StartFails
      BY <1>1, <1>2, <2>1, <3>2, ExchangeCases DEF BoundaryInv, Boundary, FlagTypes,
         StartFails, Quiet
    <3>3. CASE OtherFails
      BY <1>1, <1>2, <2>1, <3>3, ExchangeCases DEF BoundaryInv, Boundary, FlagTypes,
         OtherFails, Quiet, incoming, remote, seen
    <3> QED BY <2>1, <3>1, <3>2, <3>3, ExchangeCases
  <2>2. CASE BlockFails
    <3>1. CASE ServiceFails
      BY <1>1, <1>2, <2>2, <3>1, BlockFailCases DEF BoundaryInv
    <3>2. CASE StartFails
      BY <1>1, <1>2, <2>2, <3>2, BlockFailCases DEF BoundaryInv
    <3>3. CASE OtherFails
      BY <1>1, <1>2, <2>2, <3>3, BlockFailCases DEF BoundaryInv
    <3> QED BY <2>2, <3>1, <3>2, <3>3, BlockFailCases
  <2>3. CASE DrainDeadline
    <3>1. CASE ServiceFails
      BY <1>1, <1>2, <2>3, <3>1, DrainCases DEF BoundaryInv, Boundary, FlagTypes,
         ServiceFails, Moves
    <3>2. CASE StartFails
      BY <1>1, <1>2, <2>3, <3>2, DrainCases DEF BoundaryInv, Boundary, FlagTypes,
         StartFails
    <3>3. CASE OtherFails
      BY <1>1, <1>2, <2>3, <3>3, DrainCases DEF BoundaryInv, Boundary, FlagTypes,
         OtherFails, incoming, remote, seen
    <3> QED BY <2>3, <3>1, <3>2, <3>3, DrainCases
  <2>4. CASE Fault
    BY <1>1, <1>2, <2>4 DEF BoundaryInv, Boundary, FlagTypes, Fault, stream, incoming,
       remote, seen
  <2>5. CASE SelectBegin
    BY <1>1, <1>2, <2>5 DEF BoundaryInv, Boundary, FlagTypes, SelectBegin, Idle,
       incoming, line, remote, seen
  <2> QED BY <1>7, <2>1, <2>2, <2>3, <2>4, <2>5 DEF Trouble
<1>8. CASE WriteByte
    BY <1>1, <1>2, <1>8, WriteByteCases DEF BoundaryInv, Boundary, FlagTypes, Appends,
       Bounds, incoming, line, remote, seen
<1>9. CASE BoundaryByte
    BY <1>1, <1>2, <1>9, BoundaryCases DEF BoundaryInv, Boundary, FlagTypes, Writes,
       Begins, Loses, incoming, line, remote, seen, counts
<1>10. ASSUME NEW n \in 1 .. MaxOut, WriteStream(n) PROVE BoundaryInv'
    BY <1>1, <1>2, <1>10, WriteStreamCases DEF BoundaryInv, Boundary, FlagTypes,
       Begins, remote, seen, counts
<1>11. CASE RequestStart
  <2>1. fed' = 0 /\ queued' = queued
      BY <1>11, StartCases
  <2>2. Boundary(0)
      BY PacketsAssumption DEF Boundary
  <2> QED BY <1>1, <2>1, <2>2 DEF BoundaryInv
<1>12. CASE RoutePublished
    BY <1>1, <1>2, <1>12 DEF BoundaryInv, Boundary, FlagTypes, RoutePublished,
       incoming, line, remote, seen, counts
<1>13. CASE RequestLegacy
    BY <1>1, <1>2, <1>13, LegacyCases DEF BoundaryInv, Boundary, FlagTypes, StopBegins,
       Begins, OnlyLeaves, incoming, line, remote, seen, counts
<1>14. CASE Leave
    BY <1>1, <1>2, <1>14 DEF BoundaryInv, Boundary, FlagTypes, Leave, incoming, line,
       remote, seen, counts
<1>15. CASE SelectEnd
    BY <1>1, <1>2, <1>15 DEF BoundaryInv, Boundary, FlagTypes, SelectEnd, Serving,
       incoming, remote, seen, counts
<1>16. CASE PeerAnswers
  <2>1. CASE AnswersOpen
    <3>1. queued' = 0 /\ UNCHANGED <<owned, lossy, fed>>
        BY <1>16, <2>1, AnswerCases DEF AnswersOpen, stream, seen
    <3>2. Boundary(0)
        BY PacketsAssumption DEF Boundary
    <3> QED BY <1>1, <3>1, <3>2 DEF BoundaryInv
  <2>2. CASE AnswersAmount
    BY <1>1, <1>2, <1>16, <2>2, AnswerCases DEF BoundaryInv, Boundary, FlagTypes,
       AnswersAmount, Answers, stream, incoming, seen
  <2>3. CASE AnswersRest
    BY <1>1, <1>2, <1>16, <2>3, AnswerCases DEF BoundaryInv, Boundary, FlagTypes,
       AnswersRest, Answers, stream, incoming, seen
  <2> QED BY <1>16, <2>1, <2>2, <2>3, AnswerCases
<1>17. CASE PeerQueues
  <2>1. queued < Len(Return) /\ queued' = queued + Return[queued + 1].len /\ UNCHANGED <<owned, lossy, fed>>
      BY <1>17 DEF PeerQueues, stream, seen
  <2>2. queued \in Nat
      BY DEF IInv, CountTypes
  <2>3. Boundary(queued + Return[queued + 1].len)
      BY <1>1, <2>1, <2>2, EndIsBoundary DEF BoundaryInv
  <2> QED BY <1>1, <2>1, <2>3 DEF BoundaryInv
<1>18. CASE ReplyStarts
    BY <1>1, <1>2, <1>18 DEF BoundaryInv, Boundary, FlagTypes, ReplyStarts, stream,
       incoming, remote, seen, counts
<1>19. CASE ReplyEnds
    BY <1>1, <1>2, <1>19 DEF BoundaryInv, Boundary, FlagTypes, ReplyEnds, stream,
       incoming, remote, seen, counts
<1>20. CASE Reset
  <2>1. queued' = 0 /\ ~owned'
      BY <1>20 DEF Reset
  <2>2. Boundary(0)
      BY PacketsAssumption DEF Boundary
  <2> QED BY <2>1, <2>2 DEF BoundaryInv
<1> QED BY <1>3, <1>4, <1>5, <1>6, <1>7, <1>8, <1>9, <1>10, <1>11, <1>12, <1>13, <1>14,
   <1>15, <1>16, <1>17, <1>18, <1>19, <1>20 DEF Next

\* A service finds a part of a packet at most, whatever the ticks inside a job publish.
LEMMA PartStep == IInv /\ EndingInv /\ [Next]_vars => PartInv'
<1> SUFFICES ASSUME IInv, EndingInv, [Next]_vars PROVE PartInv'
    OBVIOUS
<1>1. PartInv
    BY DEF EndingInv
<1>2. FlagTypes
    BY DEF IInv
<1>3. BoundaryInv
    BY DEF EndingInv
<1>4. CASE UNCHANGED vars
    BY <1>1, <1>2, <1>3, <1>4, PartKept DEF FlagTypes, NoJob, Runs, vars, stream,
       incoming, line, remote, seen, counts
<1>5. CASE TickOnly
  <2> SUFFICES ASSUME owned', ~lossy' PROVE PartInv'
      BY DEF PartInv
  <2>1. owned /\ inb # <<>> /\ Publish /\ job' = job
      BY <1>5 DEF TickOnly, stream
  <2>2. ~Runs("start")
      BY <2>1 DEF IInv, StartInv
  <2>3. ~lossy
      BY <2>1, <1>2 DEF Publish
  <2>4. /\ needMore' => Partial'
        /\ Partial => UNCHANGED <<inb, fed>> /\ needMore'
      BY <2>1, <2>2, <1>3, PublishFacts
  <2>5. Partial => Partial'
      BY <2>4
  <2> QED BY <1>1, <2>1, <2>3, <2>4, <2>5 DEF PartInv, Runs
<1>6. CASE TickServes
  <2> SUFFICES ASSUME owned', ~lossy' PROVE PartInv'
      BY DEF PartInv
  <2>1. owned /\ ~Runs("start") /\ job'.at = "flush"
      BY <1>6, ServesCases DEF NoJob, Runs, Begins
  <2>2. CASE inb # <<>>
    <3>1. Publish /\ ~PublishesKey
        BY <1>6, <2>2 DEF TickServes
    <3> QED BY <2>1, <1>3, <3>1, PublishFacts DEF PartInv
  <2>3. CASE inb = <<>>
    <3>1. inb' = <<>>
        BY <1>6, <2>3 DEF TickServes, incoming
    <3> QED BY <2>1, <3>1 DEF PartInv, Partial
  <2> QED BY <2>2, <2>3
<1>7. CASE JobStep
  <2>1. CASE Flush
      BY <1>1, <1>2, <1>3, <2>1, FlushCases, PartKept DEF FlagTypes, NoJob, Runs,
         FlushSends, Moves, FlushEnds, StopDrains, ServicePolls, stream, incoming,
         line, remote, seen, counts
  <2>2. CASE Reserve
    <3>1. CASE AsksStop
      <4>1. inb = <<>> \/ needMore
          BY <2>2, <3>1 DEF Reserve, AsksStop, At, Drained
      <4>2. job' = [who |-> job.who, at |-> "stop", left |-> job.left, n |-> job.n]
            /\ UNCHANGED <<owned, lossy, inb, fed, needMore>> /\ job.at = "drain"
          BY <2>2, <3>1, ReserveCases DEF AsksStop, Asks, Moves, Continue, incoming,
             seen
      <4>3. Partial' <=> Partial
          BY <4>2 DEF Partial
      <4> QED BY <1>1, <4>1, <4>2, <4>3 DEF PartInv, Runs
    <3>2. CASE AsksSession \/ AsksOffer \/ AsksPoll
        BY <1>1, <1>2, <2>2, <3>2, ReserveCases, PartKept DEF FlagTypes, NoJob, Runs,
           AsksSession, AsksOffer, AsksPoll, Asks, Moves, Continue, incoming, seen
    <3> QED BY <2>2, <3>1, <3>2, ReserveCases
  <2>3. CASE Refused
    <3>1. CASE ServiceFails
      BY <1>1, <1>2, <1>3, <2>3, <3>1, RefusedCases, PartKept DEF FlagTypes, NoJob,
         Runs, ServiceFails, Moves, incoming, remote, seen, counts
    <3>2. CASE StartFails
      BY <1>1, <1>2, <1>3, <2>3, <3>2, RefusedCases, PartKept DEF FlagTypes, NoJob,
         Runs, StartFails, incoming, remote, seen, counts
    <3>3. CASE OtherFails
      BY <1>1, <1>2, <1>3, <2>3, <3>3, RefusedCases, PartKept DEF FlagTypes, NoJob,
         Runs, OtherFails, incoming, remote, seen, counts
    <3> QED BY <2>3, <3>1, <3>2, <3>3, RefusedCases
  <2>4. CASE Negotiated
      BY <1>1, <1>2, <1>3, <2>4, NegotiatedCases, PartKept DEF FlagTypes, NoJob, Runs,
         Opens, Asks, Moves, Continue, Offers, incoming, remote, seen, counts
  <2>5. CASE Opened
    BY <1>1, <1>2, <1>3, <2>5, PartKept DEF FlagTypes, NoJob, Runs, Opened, Answered,
       Quiet, incoming, remote, seen, counts, At
  <2>6. CASE Offered
    BY <1>1, <1>2, <1>3, <2>6, PartKept DEF FlagTypes, NoJob, Runs, Offered, Answered,
       Quiet, Goto, incoming, remote, seen, counts, At
  <2>7. CASE Polled
    <3>1. CASE PollFetches
      BY <1>1, <1>2, <1>3, <2>7, <3>1, PolledCases, PartKept DEF FlagTypes, NoJob,
         Runs, PollFetches, Fetches, Continue, Quiet, remote, seen, counts
    <3>2. CASE PollFails
      <4>1. CASE ServiceFails
        BY <1>1, <1>2, <1>3, <2>7, <3>2, <4>1, PolledCases, PartKept DEF FlagTypes,
           NoJob, Runs, PollFails, ServiceFails, Moves, Quiet, remote, seen, counts
      <4>2. CASE StartFails
        BY <1>1, <1>2, <1>3, <2>7, <3>2, <4>2, PolledCases, PartKept DEF FlagTypes,
           NoJob, Runs, PollFails, StartFails, Quiet, remote, seen, counts
      <4>3. CASE OtherFails
        BY <1>1, <1>2, <1>3, <2>7, <3>2, <4>3, PolledCases, PartKept DEF FlagTypes,
           NoJob, Runs, PollFails, OtherFails, Quiet, remote, seen, counts
      <4> QED BY <3>2, <4>1, <4>2, <4>3 DEF PollFails
    <3>3. CASE PollEnds
      <4>1. needMore' = FALSE /\ job'.at = "end"
          BY <3>3, PolledCases DEF PollEnds, Moves
      <4> QED BY <4>1 DEF PartInv
    <3> QED BY <2>7, <3>1, <3>2, <3>3, PolledCases
  <2>8. CASE BlockDone
    <3>1. CASE BlockGoes
      BY <1>1, <1>2, <1>3, <2>8, <3>1, BlockCases, PartKept DEF FlagTypes, NoJob, Runs,
         BlockGoes, incoming, WriteEnds, WriteGoesOn, StopDrains, ServicePolls, Moves,
         line, seen
    <3>2. CASE BlockComes
      <4>1. needMore' = FALSE /\ job'.at # "stop" /\ (Runs("service")' => job'.at = "end")
          BY <3>2 DEF BlockComes, Runs
      <4> QED BY <4>1 DEF PartInv
    <3> QED BY <2>8, <3>1, <3>2, BlockCases
  <2>9. CASE Copy
      BY <1>1, <1>2, <1>3, <2>9, CopyCases, PartKept DEF FlagTypes, NoJob, Runs,
         CopyFills, CopyEnds, incoming, line, remote, seen
  <2>10. CASE StopAnswered
    <3>1. CASE StreamEnds
      BY <1>1, <1>2, <1>3, <2>10, <3>1, StopCases, PartKept DEF FlagTypes, NoJob, Runs,
         StreamEnds, Quiet, incoming, remote, seen, counts
    <3>2. CASE StopFetches
      BY <1>1, <1>2, <1>3, <2>10, <3>2, StopCases, PartKept DEF FlagTypes, NoJob, Runs,
         StopFetches, Fetches, Continue, Quiet, incoming, remote, seen, counts
    <3>3. CASE StopFails
      BY <1>1, <1>2, <1>3, <2>10, <3>3, StopCases, PartKept DEF FlagTypes, NoJob, Runs,
         StopFails, Quiet, incoming, remote, seen, counts
    <3> QED BY <2>10, <3>1, <3>2, <3>3, StopCases
  <2>11. CASE ServiceEnd
    <3> SUFFICES ASSUME owned', ~lossy' PROVE PartInv'
        BY DEF PartInv
    <3>1. owned /\ Publish /\ job' = NoJob /\ ~Runs("start")
        BY <2>11 DEF ServiceEnd, stream, IInv, JobInv
    <3>2. needMore' => Partial'
        BY <3>1, <1>3, PublishFacts
    <3> QED BY <3>1, <3>2 DEF PartInv, NoJob, Runs
  <2> QED BY <1>7, <2>1, <2>2, <2>3, <2>4, <2>5, <2>6, <2>7, <2>8, <2>9, <2>10, <2>11
     DEF JobStep
<1>8. CASE Trouble
  <2>1. CASE ExchangeFails
    <3>1. CASE ServiceFails
      BY <1>1, <1>2, <1>3, <2>1, <3>1, ExchangeCases, PartKept DEF FlagTypes, NoJob,
         Runs, ServiceFails, Moves, Quiet, incoming, remote, seen
    <3>2. CASE StartFails
      BY <1>1, <1>2, <1>3, <2>1, <3>2, ExchangeCases, PartKept DEF FlagTypes, NoJob,
         Runs, StartFails, Quiet, incoming, remote, seen
    <3>3. CASE OtherFails
      BY <1>1, <1>2, <1>3, <2>1, <3>3, ExchangeCases, PartKept DEF FlagTypes, NoJob,
         Runs, OtherFails, Quiet, incoming, remote, seen
    <3> QED BY <2>1, <3>1, <3>2, <3>3, ExchangeCases
  <2>2. CASE BlockFails
    <3>1. CASE ServiceFails
      BY <1>1, <1>2, <1>3, <2>2, <3>1, BlockFailCases, PartKept DEF FlagTypes, NoJob,
         Runs, ServiceFails, Moves, incoming, remote
    <3>2. CASE StartFails
      BY <1>1, <1>2, <1>3, <2>2, <3>2, BlockFailCases, PartKept DEF FlagTypes, NoJob,
         Runs, StartFails, incoming, remote
    <3>3. CASE OtherFails
      BY <1>1, <1>2, <1>3, <2>2, <3>3, BlockFailCases, PartKept DEF FlagTypes, NoJob,
         Runs, OtherFails, incoming, remote
    <3> QED BY <2>2, <3>1, <3>2, <3>3, BlockFailCases
  <2>3. CASE DrainDeadline
    <3>1. CASE ServiceFails
      BY <1>1, <1>2, <1>3, <2>3, <3>1, DrainCases, PartKept DEF FlagTypes, NoJob, Runs,
         ServiceFails, Moves, incoming, remote, seen
    <3>2. CASE StartFails
      BY <1>1, <1>2, <1>3, <2>3, <3>2, DrainCases, PartKept DEF FlagTypes, NoJob, Runs,
         StartFails, incoming, remote, seen
    <3>3. CASE OtherFails
      BY <1>1, <1>2, <1>3, <2>3, <3>3, DrainCases, PartKept DEF FlagTypes, NoJob, Runs,
         OtherFails, incoming, remote, seen
    <3> QED BY <2>3, <3>1, <3>2, <3>3, DrainCases
  <2>4. CASE Fault
    BY <1>1, <1>2, <1>3, <2>4, PartKept DEF FlagTypes, NoJob, Runs, Fault, stream,
       incoming, remote, seen
  <2>5. CASE SelectBegin
    BY <1>1, <1>2, <1>3, <2>5, PartKept DEF FlagTypes, NoJob, Runs, SelectBegin, Idle,
       incoming, line, remote, seen
  <2> QED BY <1>8, <2>1, <2>2, <2>3, <2>4, <2>5 DEF Trouble
<1>9. CASE WriteByte
    BY <1>1, <1>2, <1>3, <1>9, WriteByteCases, PartKept DEF FlagTypes, NoJob, Runs,
       Appends, Bounds, incoming, line, remote, seen
<1>10. CASE BoundaryByte
    BY <1>1, <1>2, <1>3, <1>10, BoundaryCases, PartKept DEF FlagTypes, NoJob, Runs,
       Writes, Begins, Loses, incoming, line, remote, seen, counts
<1>11. ASSUME NEW n \in 1 .. MaxOut, WriteStream(n) PROVE PartInv'
    BY <1>1, <1>2, <1>3, <1>11, WriteStreamCases, PartKept DEF FlagTypes, NoJob, Runs,
       Begins, stream, incoming, line, remote, seen, counts
<1>12. CASE RequestStart
  <2>1. needMore' = FALSE /\ job'.at # "stop" /\ ~Runs("service")'
      BY <1>12, StartCases DEF Begins, Runs
  <2> QED BY <2>1 DEF PartInv
<1>13. CASE RoutePublished
    BY <1>1, <1>2, <1>3, <1>13, PartKept DEF FlagTypes, NoJob, Runs, RoutePublished,
       incoming, line, remote, seen, counts
<1>14. CASE RequestLegacy
    BY <1>1, <1>2, <1>3, <1>14, LegacyCases, PartKept DEF FlagTypes, NoJob, Runs,
       StopBegins, Begins, OnlyLeaves, incoming, line, remote, seen, counts
<1>15. CASE Leave
    BY <1>1, <1>2, <1>3, <1>15, PartKept DEF FlagTypes, NoJob, Runs, Leave, incoming,
       line, remote, seen, counts
<1>16. CASE SelectEnd
    BY <1>1, <1>2, <1>3, <1>16, PartKept DEF FlagTypes, NoJob, Runs, SelectEnd,
       Serving, incoming, remote, seen, counts
<1>17. CASE PeerAnswers
  <2>1. CASE AnswersOpen
    <3>1. UNCHANGED <<owned, lossy, inb, fed, needMore, job>>
        BY <1>17, <2>1, AnswerCases DEF AnswersOpen, stream, incoming, seen
    <3> QED BY <1>1, <3>1, PartKept DEF Runs
  <2>2. CASE AnswersAmount
    BY <1>1, <1>2, <1>3, <1>17, <2>2, AnswerCases, PartKept DEF FlagTypes, NoJob, Runs,
       AnswersAmount, Answers, stream, incoming, seen
  <2>3. CASE AnswersRest
    BY <1>1, <1>2, <1>3, <1>17, <2>3, AnswerCases, PartKept DEF FlagTypes, NoJob, Runs,
       AnswersRest, Answers, stream, incoming, seen
  <2> QED BY <1>17, <2>1, <2>2, <2>3, AnswerCases
<1>18. CASE PeerQueues
  <2>1. UNCHANGED <<owned, lossy, inb, fed, needMore, job>>
      BY <1>18, QueueCases DEF stream, incoming, seen
  <2> QED BY <1>1, <2>1, PartKept DEF Runs
<1>19. CASE ReplyStarts
    BY <1>1, <1>2, <1>3, <1>19, PartKept DEF FlagTypes, NoJob, Runs, ReplyStarts,
       stream, incoming, remote, seen, counts
<1>20. CASE ReplyEnds
    BY <1>1, <1>2, <1>3, <1>20, PartKept DEF FlagTypes, NoJob, Runs, ReplyEnds, stream,
       incoming, remote, seen, counts
<1>21. CASE Reset
  <2>1. ~owned'
      BY <1>21 DEF Reset
  <2> QED BY <2>1 DEF PartInv
<1> QED BY <1>4, <1>5, <1>6, <1>7, <1>8, <1>9, <1>10, <1>11, <1>12, <1>13, <1>14,
   <1>15, <1>16, <1>17, <1>18, <1>19, <1>20, <1>21 DEF Next

\* Trouble leaves its mark before anything is fenced, lost or faulted.
LEMMA TroubleStep == IInv /\ EndingInv /\ [Next]_vars => TroubleInv'
<1> SUFFICES ASSUME IInv, EndingInv, [Next]_vars PROVE TroubleInv'
    OBVIOUS
<1>1. TroubleInv
    BY DEF EndingInv
<1>2. FlagTypes
    BY DEF IInv
<1>3. JobInv
    BY DEF IInv
<1>4. JobType
    BY DEF IInv
<1>5. CASE UNCHANGED vars
    BY <1>1, <1>2, <1>3, <1>4, <1>5 DEF TroubleInv, FlagTypes, JobInv, JobType, NoJob,
       Runs, Whos, vars, stream, incoming, line, remote, seen, counts
<1>6. CASE TickOnly
  <2>1. UNCHANGED <<owned, fg, job, faulted, fenced, troubled>> /\ inb # <<>> /\ Publish
      BY <1>6 DEF TickOnly, stream, counts
  <2>2. owned /\ ~troubled => ~lossy'
      BY <1>1, <1>2, <2>1 DEF TroubleInv, Publish, IInv, StartInv, FlagTypes
  <2> QED BY <1>1, <2>1, <2>2 DEF TroubleInv, Runs
<1>7. CASE TickServes
  <2>1. UNCHANGED <<owned, fg, faulted, fenced, troubled>> /\ ~faulted
      BY <1>7 DEF TickServes, ServiceAdmitted, stream, counts
  <2>2. lossy' = lossy
      BY <1>2, <1>7, <2>1 DEF TickServes, Publish, FlagTypes
  <2> QED BY <1>1, <2>1, <2>2 DEF TroubleInv
<1>8. CASE JobStep
  <2>1. CASE Flush
      BY <1>1, <1>2, <1>3, <1>4, <2>1, FlushCases DEF TroubleInv, FlagTypes, JobInv,
         JobType, NoJob, Runs, stream, incoming, line, remote, seen, counts
  <2>2. CASE Reserve
      BY <1>1, <1>2, <1>3, <1>4, <2>2, ReserveCases DEF TroubleInv, FlagTypes, JobInv,
         JobType, NoJob, Runs, Whos, AsksSession, Asks, Moves, Continue, AsksOffer,
         AsksPoll, AsksStop, incoming, remote, seen, counts
  <2>3. CASE Refused
    <3>1. UNCHANGED <<fg, faulted, lossy, troubled>>
        BY <2>3, RefusedCases DEF seen, counts
    <3>2. CASE ServiceFails \/ StartFails
        BY <1>1, <3>1, <3>2 DEF TroubleInv, ServiceFails, StartFails
    <3>3. CASE OtherFails
      <4>1. UNCHANGED <<owned, fenced>> /\ ~Runs("start")
          BY <2>3, <3>3, FenceFacts DEF OtherFails, Runs
      <4> QED BY <1>1, <3>1, <4>1 DEF TroubleInv
    <3> QED BY <2>3, <3>2, <3>3, RefusedCases
  <2>4. CASE Negotiated
      BY <1>1, <1>2, <1>3, <1>4, <2>4, NegotiatedCases DEF TroubleInv, FlagTypes,
         JobInv, JobType, NoJob, Runs, Whos, Opens, Asks, Moves, Continue, Offers,
         incoming, remote, seen, counts
  <2>5. CASE Opened
    BY <1>1, <1>2, <1>3, <1>4, <2>5 DEF TroubleInv, FlagTypes, JobInv, JobType, NoJob,
       Runs, Whos, Opened, Answered, Quiet, incoming, remote, seen, counts, At
  <2>6. CASE Offered
    BY <1>1, <1>2, <1>3, <1>4, <2>6 DEF TroubleInv, FlagTypes, JobInv, JobType, NoJob,
       Runs, Whos, Offered, Answered, Quiet, Goto, incoming, remote, seen, counts, At
  <2>7. CASE Polled
    <3>1. CASE PollFetches
      BY <1>1, <1>2, <1>3, <1>4, <2>7, <3>1, PolledCases DEF TroubleInv, FlagTypes,
         JobInv, JobType, NoJob, Runs, Whos, PollFetches, Fetches, Continue, Quiet,
         remote, seen, counts
    <3>2. CASE PollFails
      <4>1. CASE ServiceFails
        BY <1>1, <1>2, <1>3, <1>4, <2>7, <3>2, <4>1, PolledCases DEF TroubleInv,
           FlagTypes, JobInv, JobType, NoJob, Runs, Whos, PollFails, ServiceFails,
           Moves, Quiet, remote, seen, counts
      <4>2. CASE StartFails
        BY <1>2, <1>3, <1>4, <2>7, <3>2, <4>2, PolledCases DEF TroubleInv, FlagTypes,
           JobInv, JobType, NoJob, Runs, Whos, PollFails, StartFails, Quiet, remote,
           seen, counts
      <4>3. CASE OtherFails
        BY <1>2, <1>3, <1>4, <2>7, <3>2, <4>3, PolledCases DEF TroubleInv, FlagTypes,
           JobInv, JobType, NoJob, Runs, Whos, PollFails, OtherFails, Quiet, remote,
           seen, counts
      <4> QED BY <3>2, <4>1, <4>2, <4>3 DEF PollFails
    <3>3. CASE PollEnds
      BY <1>1, <1>2, <1>3, <1>4, <2>7, <3>3, PolledCases DEF TroubleInv, FlagTypes,
         JobInv, JobType, NoJob, Runs, Whos, PollEnds, Moves, Continue, Quiet, remote,
         seen, counts
    <3> QED BY <2>7, <3>1, <3>2, <3>3, PolledCases
  <2>8. CASE BlockDone
    <3>1. CASE BlockGoes
      BY <1>1, <1>2, <1>3, <1>4, <2>8, <3>1, BlockCases DEF TroubleInv, FlagTypes,
         JobInv, JobType, NoJob, Runs, Whos, BlockGoes, incoming, WriteEnds,
         WriteGoesOn, StopDrains, ServicePolls, Moves, line, seen
    <3>2. CASE BlockComes
      BY <1>1, <1>2, <1>3, <1>4, <2>8, <3>2, BlockCases DEF TroubleInv, FlagTypes,
         JobInv, JobType, NoJob, Runs, Whos, BlockComes, line, seen
    <3> QED BY <2>8, <3>1, <3>2, BlockCases
  <2>9. CASE Copy
      BY <1>1, <1>2, <1>3, <1>4, <2>9, CopyCases DEF TroubleInv, FlagTypes, JobInv,
         JobType, NoJob, Runs, Whos, CopyFills, CopyEnds, incoming, line, remote, seen
  <2>10. CASE StopAnswered
    <3>1. CASE StreamEnds
      BY <1>1, <1>2, <1>3, <1>4, <2>10, <3>1, StopCases DEF TroubleInv, FlagTypes,
         JobInv, JobType, NoJob, Runs, Whos, StreamEnds
    <3>2. CASE StopFetches
      BY <1>1, <1>2, <1>3, <1>4, <2>10, <3>2, StopCases DEF TroubleInv, FlagTypes,
         JobInv, JobType, NoJob, Runs, Whos, StopFetches, Fetches, Continue, Quiet,
         incoming, remote, seen, counts
    <3>3. CASE StopFails
      <4>1. OtherFails
          BY <2>10, <3>3, StopCases DEF StopFails, OtherFails, Runs
      <4>2. UNCHANGED <<owned, fg, faulted, lossy, troubled, fenced>> /\ ~Runs("start")
          BY <2>10, <3>3, <4>1, StopCases, FenceFacts DEF StopFails, Runs, seen, counts
      <4> QED BY <1>1, <4>2 DEF TroubleInv
    <3> QED BY <2>10, <3>1, <3>2, <3>3, StopCases
  <2>11. CASE ServiceEnd
    <3>1. UNCHANGED <<owned, fg, faulted, fenced, troubled>> /\ Publish /\ ~Runs("start")
        BY <1>3, <2>11 DEF ServiceEnd, At, stream, counts, JobInv
    <3>2. owned /\ ~troubled => ~faulted /\ ~lossy'
        BY <1>1, <1>2, <3>1 DEF TroubleInv, Publish
    <3> QED BY <1>1, <3>1, <3>2 DEF TroubleInv
  <2> QED BY <1>8, <2>1, <2>2, <2>3, <2>4, <2>5, <2>6, <2>7, <2>8, <2>9, <2>10, <2>11
     DEF JobStep
<1>9. CASE Trouble
  <2>1. CASE ExchangeFails
    <3>1. UNCHANGED <<fg, faulted, lossy>> /\ (troubled => troubled')
        BY <2>1 DEF ExchangeFails, seen
    <3>2. CASE ServiceFails \/ StartFails
        BY <1>1, <3>1, <3>2 DEF TroubleInv, ServiceFails, StartFails
    <3>3. CASE OtherFails
      <4>1. owned' = owned /\ ~Runs("start")
          BY <3>3 DEF OtherFails, Runs
      <4>2. owned => troubled'
          BY <2>1, <4>1, ExchangeTrouble DEF EndingInv
      <4> QED BY <1>1, <3>1, <4>1, <4>2 DEF TroubleInv
    <3> QED BY <2>1, <3>2, <3>3, ExchangeCases
  <2>2. CASE BlockFails
    <3>1. CASE ServiceFails
      BY <1>1, <1>2, <1>3, <1>4, <2>2, <3>1, BlockFailCases DEF TroubleInv, FlagTypes
    <3>2. CASE StartFails
      BY <1>2, <1>3, <1>4, <2>2, <3>2, BlockFailCases DEF TroubleInv, FlagTypes
    <3>3. CASE OtherFails
      BY <1>2, <1>3, <1>4, <2>2, <3>3, BlockFailCases DEF TroubleInv, FlagTypes
    <3> QED BY <2>2, <3>1, <3>2, <3>3, BlockFailCases
  <2>3. CASE DrainDeadline
    <3>1. CASE ServiceFails
      BY <1>2, <1>3, <1>4, <2>3, <3>1, DrainCases DEF TroubleInv, FlagTypes, JobInv
    <3>2. CASE StartFails
      BY <1>1, <1>2, <1>3, <1>4, <2>3, <3>2, DrainCases DEF TroubleInv, FlagTypes
    <3>3. CASE OtherFails
      BY <1>1, <1>2, <1>3, <1>4, <2>3, <3>3, DrainCases DEF TroubleInv, FlagTypes
    <3> QED BY <2>3, <3>1, <3>2, <3>3, DrainCases
  <2>4. CASE Fault
    BY <1>2, <1>3, <1>4, <2>4 DEF TroubleInv, FlagTypes, JobInv, JobType, NoJob, Runs,
       Whos, Fault
  <2>5. CASE SelectBegin
    BY <1>1, <1>2, <1>3, <1>4, <2>5 DEF TroubleInv, FlagTypes, JobInv, JobType, NoJob,
       Runs, Whos, SelectBegin, Idle
  <2> QED BY <1>9, <2>1, <2>2, <2>3, <2>4, <2>5 DEF Trouble
<1>10. CASE WriteByte
    BY <1>1, <1>2, <1>3, <1>4, <1>10, WriteByteCases DEF TroubleInv, FlagTypes, JobInv,
       JobType, NoJob, Runs, Whos, Appends, Bounds, incoming, line, remote, seen
<1>11. CASE BoundaryByte
    BY <1>1, <1>2, <1>3, <1>4, <1>11, BoundaryCases DEF TroubleInv, FlagTypes, JobInv,
       JobType, NoJob, Runs, Whos, Writes, Begins, Loses, incoming, line, remote, seen,
       counts
<1>12. ASSUME NEW n \in 1 .. MaxOut, WriteStream(n) PROVE TroubleInv'
    BY <1>1, <1>2, <1>3, <1>4, <1>12, WriteStreamCases DEF TroubleInv, FlagTypes,
       JobInv, JobType, NoJob, Runs, Whos, Begins, stream, incoming, line, remote,
       seen, counts
<1>13. CASE RequestStart
  <2>1. ~fenced' /\ ~lossy' /\ fg' = "idle" /\ Runs("start")'
    <3>1. ~fenced /\ fenced' = fenced
        BY <1>13 DEF RequestStart, line
    <3>2. fg = "idle" /\ fg' = fg /\ lossy' = FALSE /\ job'.who = "start"
        BY <1>13, StartCases DEF Begins
    <3> QED BY <3>1, <3>2 DEF Runs
  <2> QED BY <2>1 DEF TroubleInv
<1>14. CASE RoutePublished
    BY <1>1, <1>2, <1>3, <1>4, <1>14 DEF TroubleInv, FlagTypes, JobInv, JobType, NoJob,
       Runs, Whos, RoutePublished, incoming, line, remote, seen, counts
<1>15. CASE RequestLegacy
    BY <1>1, <1>2, <1>3, <1>4, <1>15, LegacyCases DEF TroubleInv, FlagTypes, JobInv,
       JobType, NoJob, Runs, Whos, StopBegins, Begins, OnlyLeaves, incoming, line,
       remote, seen, counts
<1>16. CASE Leave
    BY <1>1, <1>2, <1>3, <1>4, <1>16 DEF TroubleInv, FlagTypes, JobInv, JobType, NoJob,
       Runs, Whos, Leave, incoming, line, remote, seen, counts
<1>17. CASE SelectEnd
    BY <1>1, <1>2, <1>3, <1>4, <1>17 DEF TroubleInv, FlagTypes, JobInv, JobType, NoJob,
       Runs, Whos, SelectEnd, Serving, incoming, remote, seen, counts
<1>18. CASE PeerAnswers
  <2>1. CASE AnswersOpen
    <3>1. UNCHANGED <<owned, fg, job, faulted, fenced, lossy, troubled>>
        BY <1>18, <2>1, AnswerCases DEF stream, seen
    <3> QED BY <1>1, <3>1 DEF TroubleInv, Runs
  <2>2. CASE AnswersAmount
    BY <1>1, <1>2, <1>3, <1>4, <1>18, <2>2, AnswerCases DEF TroubleInv, FlagTypes,
       JobInv, JobType, NoJob, Runs, Whos, AnswersAmount, Answers, stream, incoming,
       seen
  <2>3. CASE AnswersRest
    BY <1>1, <1>2, <1>3, <1>4, <1>18, <2>3, AnswerCases DEF TroubleInv, FlagTypes,
       JobInv, JobType, NoJob, Runs, Whos, AnswersRest, Answers, stream, incoming, seen
  <2> QED BY <1>18, <2>1, <2>2, <2>3, AnswerCases
<1>19. CASE PeerQueues
  <2>1. UNCHANGED <<owned, fg, job, faulted, fenced, lossy, troubled>>
      BY <1>19, QueueCases DEF stream, line, seen
  <2> QED BY <1>1, <2>1 DEF TroubleInv, Runs
<1>20. CASE ReplyStarts
    BY <1>1, <1>2, <1>3, <1>4, <1>20 DEF TroubleInv, FlagTypes, JobInv, JobType, NoJob,
       Runs, Whos, ReplyStarts, stream, incoming, remote, seen, counts
<1>21. CASE ReplyEnds
    BY <1>1, <1>2, <1>3, <1>4, <1>21 DEF TroubleInv, FlagTypes, JobInv, JobType, NoJob,
       Runs, Whos, ReplyEnds, stream, incoming, remote, seen, counts
<1>22. CASE Reset
    BY <1>2, <1>3, <1>4, <1>22 DEF TroubleInv, FlagTypes, JobInv, JobType, NoJob, Runs,
       Whos, Reset, Quiet, Closed
<1> QED BY <1>5, <1>6, <1>7, <1>8, <1>9, <1>10, <1>11, <1>12, <1>13, <1>14, <1>15,
   <1>16, <1>17, <1>18, <1>19, <1>20, <1>21, <1>22 DEF Next

\* Without trouble the peer follows every exchange.
LEMMA PairStep == IInv /\ EndingInv /\ [Next]_vars => PairInv'
<1> SUFFICES ASSUME IInv, EndingInv, [Next]_vars PROVE PairInv'
    OBVIOUS
<1>1. PairInv
    BY DEF EndingInv
<1>2. FlagTypes
    BY DEF IInv
<1>3. JobInv
    BY DEF IInv
<1>4. JobType
    BY DEF IInv
<1>5. WireInv
    BY DEF IInv
<1>6. WireType
    BY DEF IInv
<1>7. CASE UNCHANGED vars
    BY <1>1, <1>2, <1>3, <1>4, <1>5, <1>6, <1>7 DEF PairInv, FlagTypes, JobInv,
       JobType, WireInv, WireType, NoJob, Quiet, Requests, Runs, Whos, vars, stream,
       incoming, line, remote, seen, counts
<1>8. CASE TickOnly
  <2>1. UNCHANGED <<owned, troubled, session, num, peer>> /\ Interrupts
      BY <1>8, TickCases DEF stream, remote, counts
  <2>2. wire'.op = wire.op /\ wire'.n = wire.n /\ (wire'.st = "asked" <=> wire.st = "asked")
      BY <1>5, <1>6, <2>1, AskedStays
  <2>3. job' = job
      BY <1>8, TickCases
  <2> QED BY <1>1, <2>1, <2>2, <2>3 DEF PairInv, Runs
<1>9. CASE TickServes
  <2>1. UNCHANGED <<owned, troubled, session, num, peer>> /\ Interrupts
      BY <1>9, ServesCases DEF stream, remote, counts
  <2>2. wire'.op = wire.op /\ wire'.n = wire.n /\ (wire'.st = "asked" <=> wire.st = "asked")
      BY <1>5, <1>6, <2>1, AskedStays
  <2>3. job.at # "begin" /\ ~Runs("start")
      BY <1>9, ServesCases DEF NoJob, Runs
  <2> QED BY <1>1, <2>1, <2>2, <2>3 DEF PairInv
<1>10. CASE JobStep
  <2>1. CASE Flush
      BY <1>1, <1>2, <1>3, <1>4, <1>5, <1>6, <2>1, FlushCases DEF PairInv, FlagTypes,
         JobInv, JobType, WireInv, WireType, NoJob, Quiet, ServicePolls, stream,
         incoming, line, remote, seen, counts
  <2>2. CASE Reserve
    <3>1. UNCHANGED <<troubled, peer>> /\ wire.op = "none" /\ job.at # "none"
        BY <1>3, <1>5, <2>2, ReserveCases DEF WireInv, Requests, AsksSession,
           AsksOffer, AsksPoll, AsksStop, remote, counts
    <3>2. CASE AsksSession
      <4>1. wire' = [op |-> "session", st |-> "asked", n |-> 0] /\ owned' = owned /\ job' = [who |-> job.who, at |-> "session", left |-> job.left, n |-> job.n]
          BY <3>2 DEF AsksSession, Asks, Moves, Continue
      <4> QED BY <1>1, <3>1, <4>1 DEF PairInv, Runs
    <3>3. CASE AsksOffer
      <4>1. wire' = [op |-> "offer", st |-> "asked", n |-> num + 1] /\ UNCHANGED <<owned, session, num>>
            /\ job.at = "transfer" /\ job' = [who |-> job.who, at |-> "offer", left |-> job.left, n |-> job.n]
          BY <2>2, <3>3, OfferFacts DEF AsksOffer, Asks, Moves, Continue
      <4> QED BY <1>1, <3>1, <4>1 DEF PairInv, Runs
    <3>4. CASE AsksPoll
      <4>1. wire' = [op |-> "poll", st |-> "asked", n |-> 0] /\ UNCHANGED <<owned, session, num>>
            /\ job.at = "askPoll" /\ job' = [who |-> job.who, at |-> "poll", left |-> job.left, n |-> job.n]
          BY <3>4 DEF AsksPoll, Asks, Moves, Continue
      <4> QED BY <1>1, <3>1, <4>1 DEF PairInv, Runs
    <3>5. CASE AsksStop
      <4>1. wire' = [op |-> "stop", st |-> "asked", n |-> 0] /\ UNCHANGED <<owned, session, num>>
            /\ job.at = "drain" /\ job' = [who |-> job.who, at |-> "stop", left |-> job.left, n |-> job.n]
          BY <3>5 DEF AsksStop, Asks, Moves, Continue
      <4> QED BY <1>1, <3>1, <4>1 DEF PairInv, Runs
    <3> QED BY <2>2, <3>2, <3>3, <3>4, <3>5, ReserveCases
  <2>3. CASE Refused
    <3>1. CASE ServiceFails
      BY <1>1, <1>2, <1>3, <1>4, <1>5, <1>6, <2>3, <3>1, RefusedCases DEF PairInv,
         FlagTypes, JobInv, JobType, WireInv, ServiceFails, Moves, incoming, remote,
         seen, counts
    <3>2. CASE StartFails
      BY <1>2, <1>3, <1>4, <1>5, <1>6, <2>3, <3>2, RefusedCases DEF PairInv, FlagTypes,
         JobInv, JobType, WireInv, WireType, NoJob, Quiet, Requests, Runs, Whos,
         StartFails, incoming, remote, seen, counts
    <3>3. CASE OtherFails
      BY <1>1, <1>2, <1>3, <1>4, <1>5, <1>6, <2>3, <3>3, RefusedCases DEF PairInv,
         FlagTypes, JobInv, JobType, WireInv, WireType, NoJob, Quiet, Requests, Runs,
         Whos, OtherFails, incoming, remote, seen, counts
    <3> QED BY <2>3, <3>1, <3>2, <3>3, RefusedCases
  <2>4. CASE Negotiated
    <3>1. UNCHANGED <<owned, troubled, session, num, peer>> /\ wire.op = "session" /\ wire.st = "arrived" /\ num = 0 /\ job.at = "session"
        BY <1>5, <2>4, NegotiatedCases DEF WireInv, Requests, Opens, Offers, Asks,
           Continue, remote, counts
    <3>2. CASE Opens
      <4>1. wire' = [op |-> "open", st |-> "asked", n |-> 0] /\ Runs("start")
            /\ job' = [who |-> job.who, at |-> "open", left |-> job.left, n |-> job.n]
          BY <3>2 DEF Opens, Asks, Moves
      <4> QED BY <1>1, <3>1, <4>1 DEF PairInv, Runs
    <3>3. CASE Offers
      <4>1. wire' = [op |-> "offer", st |-> "asked", n |-> num + 1]
            /\ job' = [who |-> job.who, at |-> "offer", left |-> job.left, n |-> job.n]
          BY <3>1, <3>3, OfferFacts DEF Offers, Asks, Moves
      <4> QED BY <1>1, <3>1, <4>1 DEF PairInv, Runs
    <3> QED BY <2>4, <3>2, <3>3, NegotiatedCases
  <2>5. CASE Opened
    <3>1. UNCHANGED <<owned, troubled, session, num, peer>> /\ wire' = Quiet /\ job' = NoJob
          /\ wire.op = "open" /\ wire.st = "arrived" /\ job.at = "open"
        BY <1>5, <2>5 DEF Opened, Answered, At, WireInv, Requests, remote, counts
    <3> QED BY <1>1, <3>1 DEF PairInv, NoJob, Quiet
  <2>6. CASE Offered
    <3>1. UNCHANGED <<owned, troubled, session, peer>> /\ wire' = Quiet /\ num' = NextBlock
          /\ wire.op = "offer" /\ wire.st = "arrived" /\ job.at = "offer" /\ wire.n <= MaxBlock /\ ~Runs("start")
        BY <1>3, <1>5, <2>6 DEF Offered, Answered, At, WireInv, JobInv, Requests,
           remote, counts, Runs
    <3>2. ASSUME owned, ~troubled PROVE num' = peer.num /\ peer.session = session /\ peer.open
      <4>1. wire.n = num + 1 /\ peer.num = num + 1 /\ peer.session = session /\ peer.open
          BY <1>1, <3>1, <3>2 DEF PairInv
      <4>2. num + 1 \in 0 .. MaxBlock
          BY <1>6, <3>1, <4>1 DEF WireType
      <4> QED BY <3>1, <4>1, <4>2, OfferFacts
    <3> QED BY <3>1, <3>2 DEF PairInv, Quiet
  <2>7. CASE Polled
    <3>1. CASE PollFetches
      BY <1>1, <1>2, <1>3, <1>4, <1>5, <1>6, <2>7, <3>1, PolledCases DEF PairInv,
         FlagTypes, JobInv, JobType, WireInv, WireType, NoJob, Quiet, Requests, Runs,
         Whos, PollFetches, Fetches, Continue, remote, seen, counts
    <3>2. CASE PollFails
      <4>1. CASE ServiceFails
        BY <1>2, <1>3, <1>4, <1>5, <1>6, <2>7, <3>2, <4>1, PolledCases DEF PairInv,
           FlagTypes, JobInv, JobType, WireInv, WireType, NoJob, Quiet, Requests, Runs,
           Whos, PollFails, ServiceFails, Moves, remote, seen, counts
      <4>2. CASE StartFails
        BY <1>1, <1>2, <1>3, <1>4, <1>5, <1>6, <2>7, <3>2, <4>2, PolledCases DEF
           PairInv, FlagTypes, JobInv, JobType, Whos, PollFails, StartFails, remote,
           seen, counts
      <4>3. CASE OtherFails
        BY <1>1, <1>2, <1>3, <1>4, <1>5, <1>6, <2>7, <3>2, <4>3, PolledCases DEF
           PairInv, FlagTypes, JobInv, JobType, WireInv, WireType, NoJob, Quiet,
           Requests, Runs, Whos, PollFails, OtherFails, remote, seen, counts
      <4> QED BY <3>2, <4>1, <4>2, <4>3 DEF PollFails
    <3>3. CASE PollEnds
      BY <1>1, <1>2, <1>3, <1>4, <1>5, <1>6, <2>7, <3>3, PolledCases DEF PairInv,
         FlagTypes, JobInv, JobType, WireInv, WireType, NoJob, Quiet, Requests, Runs,
         Whos, PollEnds, Moves, Continue, remote, seen, counts
    <3> QED BY <2>7, <3>1, <3>2, <3>3, PolledCases
  <2>8. CASE BlockDone
    <3>1. CASE BlockGoes
      BY <1>1, <1>2, <1>3, <1>4, <1>5, <1>6, <2>8, <3>1, BlockCases DEF PairInv,
         FlagTypes, JobInv, JobType, WireInv, WireType, NoJob, Quiet, Requests, Runs,
         Whos, BlockGoes, incoming, WriteEnds, WriteGoesOn, StopDrains, ServicePolls,
         Moves, line, seen
    <3>2. CASE BlockComes
      BY <1>1, <1>2, <1>3, <1>4, <1>5, <1>6, <2>8, <3>2, BlockCases DEF PairInv,
         FlagTypes, JobInv, JobType, WireInv, WireType, NoJob, Quiet, Requests, Runs,
         Whos, BlockComes, line, seen
    <3> QED BY <2>8, <3>1, <3>2, BlockCases
  <2>9. CASE Copy
      BY <1>1, <1>2, <1>3, <1>4, <1>5, <1>6, <2>9, CopyCases DEF PairInv, FlagTypes,
         JobInv, JobType, WireInv, WireType, NoJob, Quiet, Requests, Runs, Whos,
         CopyFills, CopyEnds, incoming, line, remote, seen
  <2>10. CASE StopAnswered
    <3> SUFFICES ASSUME owned', ~troubled' PROVE PairInv'
        BY DEF PairInv
    <3>1. owned
        BY <2>10, StopCases DEF StreamEnds, StopFetches, Fetches, Continue, StopFails
    <3>2. ~troubled /\ wire' = Quiet /\ UNCHANGED <<session, num, peer>> /\ job.at = "stop"
          /\ wire.st = "arrived" /\ ~Runs("start")
        BY <2>10, StopCases DEF remote, counts, Runs
    <3>3. owned /\ ~troubled /\ wire' = Quiet /\ UNCHANGED <<session, num, peer>> /\ job.at = "stop"
          /\ wire.op = "stop" /\ wire.st = "arrived" /\ ~Runs("start")
        BY <1>5, <3>1, <3>2 DEF WireInv
    <3>4. wire.n # 0
      <4> SUFFICES ASSUME wire.n = 0 PROVE FALSE
          OBVIOUS
      <4>1. inb # <<>>
          BY <2>10 DEF StopAnswered, EndsStream
      <4>2. ~lossy
          BY <3>3 DEF EndingInv, TroubleInv
      <4> QED BY <3>3, <4>1, <4>2, StopIsWhole DEF EndingInv
    <3>5. peer.open /\ peer.session = session /\ peer.num = num
        BY <1>1, <3>3, <3>4 DEF PairInv
    <3> QED BY <3>3, <3>5 DEF PairInv, Quiet
  <2>11. CASE ServiceEnd
    <3>1. UNCHANGED <<owned, troubled, session, num, peer>> /\ Interrupts
        BY <2>11, EndCases DEF stream, remote, counts
    <3>2. wire'.op = wire.op /\ wire'.n = wire.n /\ (wire'.st = "asked" <=> wire.st = "asked")
        BY <1>5, <1>6, <3>1, AskedStays
    <3>3. job.at # "begin" /\ ~Runs("start")
        BY <1>3, <2>11, EndCases DEF JobInv
    <3> QED BY <1>1, <3>1, <3>2, <3>3 DEF PairInv
  <2> QED BY <1>10, <2>1, <2>2, <2>3, <2>4, <2>5, <2>6, <2>7, <2>8, <2>9, <2>10, <2>11
     DEF JobStep
<1>11. CASE Trouble
  <2>1. CASE ExchangeFails
    <3> SUFFICES ASSUME owned', ~troubled' PROVE FALSE
        BY DEF PairInv
    <3>1. OtherFails
        BY <2>1, ExchangeCases DEF ServiceFails, StartFails
    <3>2. owned /\ ~Runs("start")
        BY <3>1 DEF OtherFails, Runs
    <3> QED BY <2>1, <3>2, ExchangeTrouble DEF EndingInv
  <2>2. CASE BlockFails
    <3>1. CASE ServiceFails
      BY <2>2, <3>1, BlockFailCases DEF PairInv, FlagTypes, JobInv
    <3>2. CASE StartFails
      BY <1>2, <1>3, <1>4, <1>5, <1>6, <2>2, <3>2, BlockFailCases DEF PairInv,
         FlagTypes, JobInv
    <3>3. CASE OtherFails
      BY <1>2, <1>3, <1>4, <1>5, <1>6, <2>2, <3>3, BlockFailCases DEF PairInv,
         FlagTypes, JobInv
    <3> QED BY <2>2, <3>1, <3>2, <3>3, BlockFailCases
  <2>3. CASE DrainDeadline
    <3>1. CASE ServiceFails
      BY <1>2, <1>3, <1>4, <1>5, <1>6, <2>3, <3>1, DrainCases DEF PairInv, FlagTypes,
         JobInv, JobType
    <3>2. CASE StartFails
      BY <2>3, <3>2, DrainCases DEF PairInv, FlagTypes, JobInv
    <3>3. CASE OtherFails
      BY <2>3, <3>3, DrainCases DEF PairInv, FlagTypes, JobInv
    <3> QED BY <2>3, <3>1, <3>2, <3>3, DrainCases
  <2>4. CASE Fault
    BY <1>2, <1>3, <1>4, <1>5, <1>6, <2>4 DEF PairInv, FlagTypes, JobInv, JobType,
       WireInv, WireType, NoJob, Quiet, Requests, Runs, Whos, Fault, stream, incoming,
       remote, seen
  <2>5. CASE SelectBegin
    BY <1>1, <1>2, <1>3, <1>4, <1>5, <1>6, <2>5 DEF PairInv, FlagTypes, JobInv,
       JobType, WireInv, SelectBegin, Idle, incoming, line, remote, seen
  <2> QED BY <1>11, <2>1, <2>2, <2>3, <2>4, <2>5 DEF Trouble
<1>12. CASE WriteByte
    BY <1>1, <1>2, <1>3, <1>4, <1>5, <1>6, <1>12, WriteByteCases DEF PairInv,
       FlagTypes, JobInv, JobType, WireInv, WireType, NoJob, Quiet, Requests, Runs,
       Whos, Appends, Bounds, incoming, line, remote, seen
<1>13. CASE BoundaryByte
  <2>1. UNCHANGED <<owned, troubled, session, num, peer, wire>>
      BY <1>13, BoundaryCases DEF remote, line, counts
  <2>2. CASE Writes
    <3>1. job'.at = "copy" /\ job.at # "begin" /\ ~Runs("start") /\ ~Runs("start")'
        BY <2>2 DEF Writes, Begins, NoJob, Runs
    <3> QED BY <1>1, <2>1, <3>1 DEF PairInv
  <2>3. CASE Loses
      BY <1>1, <2>1, <2>3 DEF PairInv, Loses, Runs
  <2> QED BY <1>13, <2>2, <2>3, BoundaryCases
<1>14. ASSUME NEW n \in 1 .. MaxOut, WriteStream(n) PROVE PairInv'
  <2>1. UNCHANGED <<owned, troubled, session, num, peer, wire>>
        /\ job'.at = "copy" /\ job.at # "begin" /\ ~Runs("start") /\ ~Runs("start")'
      BY <1>14, WriteStreamCases DEF stream, remote, line, counts, Begins, NoJob, Runs
  <2> QED BY <1>1, <2>1 DEF PairInv
<1>15. CASE RequestStart
    BY <1>1, <1>2, <1>3, <1>4, <1>5, <1>6, <1>15, StartCases DEF PairInv, FlagTypes,
       JobInv, JobType, WireInv, WireType, NoJob, Quiet, Requests, Runs, Whos, Begins,
       line, remote
<1>16. CASE RoutePublished
    BY <1>1, <1>2, <1>3, <1>4, <1>5, <1>6, <1>16 DEF PairInv, FlagTypes, JobInv,
       JobType, WireInv, WireType, NoJob, Quiet, Requests, Runs, Whos, RoutePublished,
       incoming, line, remote, seen, counts
<1>17. CASE RequestLegacy
  <2>1. UNCHANGED <<owned, troubled, session, num, peer, wire>> /\ job = NoJob
      BY <1>17, LegacyCases DEF remote, line, counts
  <2>2. CASE StopBegins
    <3>1. job'.at = "flush" /\ job.at # "begin" /\ ~Runs("start") /\ ~Runs("start")'
        BY <2>1, <2>2 DEF StopBegins, Begins, NoJob, Runs
    <3> QED BY <1>1, <2>1, <3>1 DEF PairInv
  <2>3. CASE OnlyLeaves
      BY <2>1, <2>3 DEF PairInv, OnlyLeaves
  <2> QED BY <1>17, <2>2, <2>3, LegacyCases
<1>18. CASE Leave
    BY <1>1, <1>2, <1>3, <1>4, <1>5, <1>6, <1>18 DEF PairInv, FlagTypes, JobInv,
       JobType, WireInv, WireType, NoJob, Quiet, Requests, Runs, Whos, Leave, incoming,
       line, remote, seen, counts
<1>19. CASE SelectEnd
    BY <1>1, <1>2, <1>3, <1>4, <1>5, <1>6, <1>19 DEF PairInv, FlagTypes, JobInv,
       JobType, WireInv, WireType, NoJob, Quiet, Requests, Runs, Whos, SelectEnd,
       Serving, incoming, remote, seen, counts
<1>20. CASE PeerAnswers
  <2> SUFFICES ASSUME owned', ~troubled' PROVE PairInv'
      BY DEF PairInv
  <2>1. owned /\ ~troubled /\ UNCHANGED <<session, num, job>> /\ wire.st = "asked" /\ PeerAccepts
      BY <1>20 DEF PeerAnswers, stream
  <2>2. wire' = [op |-> wire.op, st |-> "sent", n |-> IF wire.op \in {"poll", "stop"} THEN Len(pend) ELSE wire.n]
      BY <1>6, <1>20 DEF PeerAnswers, WireType
  <2>3. job.at = wire.op /\ wire.op \in Requests
      BY <1>5, <1>6, <2>1 DEF WireInv
  <2>4. peer \in [session : 0 .. 2, num : 0 .. MaxBlock, open : BOOLEAN]
      BY DEF IInv, PeerType
  <2>5. CASE wire.op = "session"
    <3>1. peer' = [peer EXCEPT !.session = session, !.num = 0]
        BY <1>20, <2>5 DEF PeerAnswers
    <3>2. peer'.session = session /\ peer'.num = 0 /\ peer'.open = peer.open /\ num = 0
        BY <1>5, <2>3, <2>4, <2>5, <3>1 DEF WireInv
    <3> QED BY <1>1, <2>1, <2>2, <2>3, <2>5, <3>2 DEF PairInv, Runs
  <2>6. CASE wire.op = "open"
    <3>1. peer' = [peer EXCEPT !.open = TRUE]
        BY <1>20, <2>6 DEF PeerAnswers
    <3>2. peer'.session = peer.session /\ peer'.num = peer.num /\ peer'.open = TRUE
        BY <3>1
    <3> QED BY <1>1, <2>1, <2>2, <2>3, <2>6, <3>2 DEF PairInv, Runs
  <2>7. CASE wire.op = "stop"
    <3>1. peer' = [peer EXCEPT !.open = pend # <<>>]
        BY <1>20, <2>7 DEF PeerAnswers
    <3>2. peer'.session = peer.session /\ peer'.num = peer.num /\ (pend # <<>> => peer'.open)
        BY <2>4, <3>1
    <3>3. wire'.n # 0 => pend # <<>>
        BY <2>2, <2>7
    <3> QED BY <1>1, <2>1, <2>2, <2>3, <2>7, <3>2, <3>3 DEF PairInv, Runs
  <2>8. CASE wire.op = "offer"
    <3>1. peer' = [peer EXCEPT !.num = wire.n]
        BY <1>20, <2>8 DEF PeerAnswers
    <3>2. peer'.session = peer.session /\ peer'.num = wire.n /\ peer'.open = peer.open
        BY <3>1
    <3> QED BY <1>1, <2>1, <2>2, <2>3, <2>8, <3>2 DEF PairInv, Runs
  <2>9. CASE wire.op = "poll"
    <3>1. peer' = peer
        BY <1>20, <2>9 DEF PeerAnswers
    <3> QED BY <1>1, <2>1, <2>2, <2>3, <2>9, <3>1 DEF PairInv, Runs
  <2> QED BY <2>3, <2>5, <2>6, <2>7, <2>8, <2>9 DEF Requests
<1>21. CASE PeerQueues
  <2>1. UNCHANGED <<owned, troubled, session, num, peer, job, wire>>
      BY <1>21, QueueCases DEF stream, line
  <2> QED BY <1>1, <2>1 DEF PairInv, Runs
<1>22. CASE ReplyStarts
    BY <1>1, <1>2, <1>3, <1>4, <1>5, <1>6, <1>22 DEF PairInv, FlagTypes, JobInv,
       JobType, WireInv, WireType, NoJob, Quiet, Requests, Runs, Whos, ReplyStarts,
       stream, incoming, remote, seen, counts
<1>23. CASE ReplyEnds
    BY <1>1, <1>2, <1>3, <1>4, <1>5, <1>6, <1>23 DEF PairInv, FlagTypes, JobInv,
       JobType, WireInv, WireType, NoJob, Quiet, Requests, Runs, Whos, ReplyEnds,
       stream, incoming, remote, seen, counts
<1>24. CASE Reset
  <2>1. ~owned'
      BY <1>24 DEF Reset
  <2> QED BY <2>1 DEF PairInv
<1> QED BY <1>7, <1>8, <1>9, <1>10, <1>11, <1>12, <1>13, <1>14, <1>15, <1>16, <1>17,
   <1>18, <1>19, <1>20, <1>21, <1>22, <1>23, <1>24 DEF Next

\* Packet boundaries, trouble and the session are as these say in every reachable state.
THEOREM EndingInvariant == Spec => []EndingInv
<1>1. Init => EndingInv
  <2> SUFFICES ASSUME Init PROVE EndingInv
      OBVIOUS
  <2>1. Boundary(0)
      BY PacketsAssumption DEF Boundary
  <2> QED BY <2>1 DEF Init, EndingInv, BoundaryInv, PartInv, TroubleInv, PairInv
<1>2. IInv /\ EndingInv /\ [Next]_vars => EndingInv'
    BY BoundaryStep, PartStep, TroubleStep, PairStep DEF EndingInv
<1> QED BY <1>1, <1>2, InductiveInvariant, PTL DEF Spec

\* A service ends the stream only after trouble: no fill of the buffers, no cut of a packet,
\* no nested tick and no wrap of the block numbers makes it fail (emos_exext.c:84-130).
THEOREM ServiceSafety == Spec => OnlyTroubleEndsTheStream
<1>1. IInv /\ EndingInv /\ [Next]_vars
      => [owned /\ ~owned' /\ job.who = "service" => troubled \/ troubled']_vars
  <2> SUFFICES ASSUME IInv, EndingInv, [Next]_vars, owned, ~owned', Runs("service"), ~troubled
               PROVE  troubled'
      BY DEF Runs
  <2>1. ~fenced /\ ~lossy /\ ~Runs("start")
      BY DEF EndingInv, TroubleInv, Runs
  <2>2. CASE JobStep
    <3>1. ~(Flush \/ Copy \/ BlockDone \/ Opened \/ Offered \/ ServiceEnd)
        BY FlushCases, CopyCases, BlockCases DEF Opened, Offered, ServiceEnd, stream
    <3>2. ~(Reserve \/ Negotiated \/ StopAnswered)
        BY ReserveCases, NegotiatedCases, StopCases DEF AsksSession, AsksOffer,
           AsksPoll, AsksStop, Opens, Offers, Asks, Continue, Runs
    <3>3. CASE Refused
        BY <2>1, <3>3, RefusedTrouble DEF EndingInv
    <3>4. CASE Polled
      <4>1. job.at = "poll"
          BY <3>4, PolledCases
      <4>2. Partial
          BY <2>1, <4>1 DEF EndingInv, PartInv
      <4>3. ~(Len(inb) + Capped(wire.n) > 2 * Fetch)
          BY <2>1, <4>2, PartHasRoom DEF EndingInv
      <4>4. owned' = owned
          BY <3>4, <4>3 DEF Polled, FetchAmount, Kept, Continue
      <4> QED BY <4>4
    <3> QED BY <2>2, <3>1, <3>2, <3>3, <3>4 DEF JobStep
  <2>3. CASE Trouble
    <3>1. CASE ExchangeFails
        BY <2>1, <3>1, ExchangeTrouble DEF EndingInv
    <3>2. CASE BlockFails \/ DrainDeadline
        BY <3>2 DEF BlockFails, DrainDeadline
    <3>3. CASE Fault \/ SelectBegin
        BY <3>3 DEF Fault, SelectBegin
    <3> QED BY <2>3, <3>1, <3>2, <3>3 DEF Trouble
  <2>4. CASE TickOnly \/ TickServes \/ WriteByte \/ BoundaryByte \/ (\E n \in 1 .. MaxOut : WriteStream(n))
      BY <2>4 DEF TickOnly, TickServes, WriteByte, BoundaryByte, WriteStream, stream
  <2>5. CASE \/ RequestStart \/ RoutePublished \/ RequestLegacy \/ Leave \/ SelectEnd
             \/ PeerAnswers \/ PeerQueues \/ ReplyStarts \/ ReplyEnds \/ Reset
      BY <2>1, <2>5 DEF RequestStart, RoutePublished, RequestLegacy, Leave, SelectEnd,
         PeerAnswers, PeerQueues, ReplyStarts, ReplyEnds, Reset, stream
  <2> QED BY <2>2, <2>3, <2>4, <2>5 DEF Next, vars, stream
<1> QED BY <1>1, InductiveInvariant, EndingInvariant, PTL DEF Spec, OnlyTroubleEndsTheStream, Runs

\* The stream ends for a reason, and a stop that succeeds leaves nothing behind.
THEOREM EndingSafety == Spec => StreamEndsWell
BY StopSafety, ServiceSafety, PTL DEF StreamEndsWell

=============================================================================

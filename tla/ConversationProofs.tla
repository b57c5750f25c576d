-------------------------- MODULE ConversationProofs --------------------------
(***************************************************************************)
(* Proofs about the conversations of EMOS with the P4: the session of the  *)
(* parallel link, by packets on UART1 (ParallelSession), the hand-over of  *)
(* Port C, by levels (PortCHandover), and the records of the forward link, *)
(* by bytes (ParallelRecord).                                              *)
(*                                                                         *)
(* Session: EMOS and the P4 agree, whenever EMOS reports success, on the   *)
(* session and on the block.  What makes that inductive is what is still   *)
(* under way: a reply that would be taken is true of the P4 now, and an    *)
(* offer that is not the last one repeats what is settled.                 *)
(*                                                                         *)
(* Hand-over: the P4 can be in a few phases only for each phase of EMOS,   *)
(* whatever it has missed; with the levels of the lines this says what a   *)
(* READY that EMOS sees can mean.                                          *)
(*                                                                         *)
(* Records: at each place of a call the P4 has taken, or EMOS has, a known *)
(* number of bytes of the stream.                                          *)
(***************************************************************************)
EXTENDS ParallelSession, PortCHandover, ParallelRecord, SequenceTheorems, TLAPS

(***************************************************************************)
(* The session of the parallel link.                                       *)
(***************************************************************************)
Ops == {"none", "PREPARE", "COMMIT", "OFFER", "POLL"}
PacketT == [op : Ops, reply : BOOLEAN, a : Nat, b : Nat, n : Nat]
BlockT == [nonce : Nat, seq : Nat, n : Nat]
SessionT == [phase : {"IDLE", "PREPARING", "COMMITTING", "ACTIVE", "STAGED"}, trans : Nat, nonce : Nat,
             seq : 0 .. SeqMod - 1]
SessionTypes ==
  /\ session \in SessionT /\ p4Session \in [session : SessionT, block : BlockT]
  /\ request \in PacketT /\ waiting \in {"no", "PREPARE", "COMMIT", "OFFER", "POLL"} /\ accepted \in BOOLEAN
  /\ transaction \in Nat /\ link \in {"uart", "drain", "fenced"} /\ answer \in [nonce : Nat, n : Nat]
  /\ toPeer \in Seq(PacketT) /\ toEmos \in Seq(PacketT) /\ offer \in PacketT
  /\ used \in SUBSET Nonces /\ admitted \in Seq(BlockT)

On(w) == {w[i] : i \in 1 .. Len(w)}
\* No two replies give one nonce; no block of a session is admitted twice.
GivenOnce(w) ==
  \A i, j \in 1 .. Len(w) : w[i].op = "PREPARE" /\ w[j].op = "PREPARE" /\ w[i].b = w[j].b => i = j
AdmittedOnce(s) ==
  \A i, j \in 1 .. Len(s) : s[i].nonce = s[j].nonce /\ s[i].seq = s[j].seq => i = j

\* EMOS has a nonce that the P4 has prepared.
Live == session.phase \in {"COMMITTING", "ACTIVE"}
OwnInv ==
  /\ session.nonce \in used \cup {0}
  /\ Live => session.nonce \in used
  /\ session.phase \in {"PREPARING", "COMMITTING"} => session.seq = 0

\* What EMOS waits for is of this session.
WaitInv ==
  /\ waiting = "PREPARE" => session.phase = "PREPARING"
  /\ waiting = "COMMIT" => session.phase = "COMMITTING"
  /\ waiting \in {"OFFER", "POLL"} => session.phase = "ACTIVE" /\ link = "uart"
  /\ waiting = "OFFER" => /\ BlockOf(request) = BlockOf(offer)
                          /\ offer.a = session.nonce /\ offer.b = session.seq + 1
  /\ waiting = "POLL" => request.a = session.nonce
  /\ link = "drain" => session.phase = "ACTIVE" /\ waiting = "no" /\ offer.a = session.nonce

\* Nobody has used the nonce n yet but the PREPARE that gave it.
Fresh(n) ==
  /\ n \in used /\ n # session.nonce
  /\ \A p \in On(toPeer) \cup On(toEmos) : p.op = "OFFER" => p.a # n
  /\ \A d \in On(admitted) : d.nonce # n
  /\ p4Session.session.nonce = n => p4Session.session.seq = 0 /\ p4Session.block = NothingTaken
\* A COMMIT was answered: the P4 is active for it unless it has another nonce.
CommitIsTrue(p) ==
  /\ p.b \in used
  /\ p4Session.session.nonce = p.b => p4Session.session.phase = "ACTIVE" /\ p4Session.session.trans = p.a
\* The P4 has admitted what EMOS offers, unless it has another nonce.
OfferIsTaken ==
  Same => p4Session.block = BlockOf(offer) /\ p4Session.session.seq = offer.b
\* A reply tells the truth for as long as it is under way.
ReplyIsTrue(p) ==
  /\ p.op = "PREPARE" => Fresh(p.b)
  /\ p.op = "COMMIT" => CommitIsTrue(p)
  /\ p.op = "POLL" => p.n = p.a
  /\ p.op = "OFFER" => p.a \in used
\* An offer on the wire was decided, or it is the one that waits.
IsOld(p) == p.a = session.nonce => p.b <= session.seq
IsMine(p) == waiting = "OFFER" /\ BlockOf(p) = BlockOf(offer)
WireInv ==
  /\ \A p \in On(toPeer) : (p.op = "COMMIT" => p.b \in used) /\ (p.op = "OFFER" => p.a \in used)
  /\ \A p \in On(toEmos) : ReplyIsTrue(p)
  /\ GivenOnce(toEmos)
  /\ Live => \A p \in On(toPeer) : p.op = "OFFER" => IsOld(p) \/ IsMine(p)
  /\ Live => \A p \in On(toEmos) : p.op = "OFFER" => IsOld(p) \/ (IsMine(p) /\ OfferIsTaken)
CapturedInv ==
  accepted /\ waiting # "no" =>
    /\ request.op = waiting /\ ReplyIsTrue(request)
    /\ waiting = "PREPARE" => \A p \in On(toEmos) : p.op = "PREPARE" => p.b # request.b
    /\ waiting = "OFFER" => OfferIsTaken

\* The P4 is where EMOS is, or one offer ahead.
PeerInv ==
  /\ session.phase = "ACTIVE" /\ Same =>
       p4Session.session.phase = "ACTIVE" /\ p4Session.session.trans = session.trans
  /\ Live /\ Same =>
       \/ /\ p4Session.session.seq = session.seq
          /\ link = "drain" => p4Session.block = BlockOf(offer)
       \/ waiting = "OFFER" /\ OfferIsTaken

AdmittedInv ==
  /\ \A d \in On(admitted) : d.nonce \in used /\ (Live /\ d.nonce = session.nonce => d.seq <= session.seq)
  /\ AdmittedOnce(admitted)
  /\ answer.n = answer.nonce

\* The assumption is among its conjuncts, so that a lemma about a step has it with the rest.
SessionInv ==
  SessionAssumption /\ SessionTypes /\ OwnInv /\ WaitInv /\ WireInv /\ CapturedInv /\ PeerInv /\ AdmittedInv

\* What is on a wire: all of it has its type, a packet that is sent comes last, one
\* that arrives was first.
LEMMA OnTyped ==
    ASSUME NEW S, NEW w \in Seq(S)
    PROVE  \A p \in On(w) : p \in S
BY LenProperties DEF On

\* Nothing is on an empty wire.
LEMMA OnEmpty == On(<< >>) = {}
<1>1. Len(<< >>) = 0
    BY EmptySeq
<1> QED BY <1>1 DEF On

\* What is on a wire after a packet is put on it.
LEMMA OnAppend ==
    ASSUME NEW S, NEW w \in Seq(S), NEW x \in S
    PROVE  Append(w, x) \in Seq(S) /\ \A p : p \in On(Append(w, x)) <=> p \in On(w) \/ p = x
<1> DEFINE v == Append(w, x)
<1>1. /\ v \in Seq(S) /\ Len(v) = Len(w) + 1 /\ Len(w) \in Nat
      /\ \A i \in 1 .. Len(w) : v[i] = w[i]
      /\ v[Len(w) + 1] = x
    BY AppendProperties, LenProperties
<1> HIDE DEF v
<1>2. ASSUME NEW p, p \in On(v) PROVE p \in On(w) \/ p = x
  <2>1. PICK i \in 1 .. Len(v) : p = v[i]
      BY <1>2 DEF On
  <2>2. CASE i \in 1 .. Len(w)
      BY <1>1, <2>1, <2>2 DEF On
  <2>3. CASE i = Len(w) + 1
      BY <1>1, <2>1, <2>3
  <2> QED BY <1>1, <2>1, <2>2, <2>3
<1>3. ASSUME NEW p, p \in On(w) \/ p = x PROVE p \in On(v)
  <2>1. \A i \in 1 .. Len(w) : i \in 1 .. Len(v)
      BY <1>1
  <2>2. Len(w) + 1 \in 1 .. Len(v)
      BY <1>1
  <2> QED BY <1>1, <1>3, <2>1, <2>2 DEF On
<1> QED BY <1>1, <1>2, <1>3 DEF v

\* What is on a wire after its first packet is taken off.
LEMMA OnTail ==
    ASSUME NEW S, NEW w \in Seq(S), w # << >>
    PROVE  /\ Tail(w) \in Seq(S) /\ Head(w) \in S
           /\ Head(w) \in On(w) /\ \A p \in On(Tail(w)) : p \in On(w)
<1> DEFINE v == Tail(w)
<1>1. /\ v \in Seq(S) /\ Head(w) \in S /\ Len(v) = Len(w) - 1 /\ Len(w) \in Nat \ {0}
      /\ \A i \in 1 .. Len(v) : v[i] = w[i + 1]
    BY HeadTailProperties, EmptySeq
<1>2. Head(w) = w[1]
    OBVIOUS
<1> HIDE DEF v
<1>3. 1 \in 1 .. Len(w) /\ \A i \in 1 .. Len(v) : i + 1 \in 1 .. Len(w)
    BY <1>1
<1>4. \A p \in On(v) : p \in On(w)
    BY <1>1, <1>3 DEF On
<1>5. Head(w) \in On(w)
    BY <1>2, <1>3 DEF On
<1> QED BY <1>1, <1>4, <1>5 DEF v

\* A new nonce stays the only one of its kind, and so does the one that has arrived.
LEMMA GivenAppend ==
    ASSUME NEW S, NEW w \in Seq(S), NEW x \in S, GivenOnce(w),
           x.op = "PREPARE" => \A p \in On(w) : p.op = "PREPARE" => p.b # x.b
    PROVE  GivenOnce(Append(w, x))
<1> DEFINE v == Append(w, x)
<1>1. /\ Len(v) = Len(w) + 1 /\ Len(w) \in Nat
      /\ \A i \in 1 .. Len(w) : v[i] = w[i] /\ w[i] \in On(w)
      /\ v[Len(w) + 1] = x
    BY AppendProperties, LenProperties DEF On
<1> HIDE DEF v
<1>2. GivenOnce(v)
  <2> SUFFICES ASSUME NEW i \in 1 .. Len(v), NEW j \in 1 .. Len(v), v[i].op = "PREPARE", v[j].op = "PREPARE", v[i].b = v[j].b
               PROVE  i = j
      BY DEF GivenOnce
  <2>1. (i \in 1 .. Len(w) \/ i = Len(w) + 1) /\ (j \in 1 .. Len(w) \/ j = Len(w) + 1)
      BY <1>1
  <2>2. CASE i \in 1 .. Len(w) /\ j \in 1 .. Len(w)
      BY <1>1, <2>2 DEF GivenOnce
  <2>3. CASE i = Len(w) + 1 /\ j \in 1 .. Len(w)
      BY <1>1, <2>3
  <2>4. CASE i \in 1 .. Len(w) /\ j = Len(w) + 1
      BY <1>1, <2>4
  <2> QED BY <2>1, <2>2, <2>3, <2>4
<1> QED BY <1>2 DEF v

\* Taking a packet off a wire gives no nonce twice.
LEMMA GivenTail ==
    ASSUME NEW S, NEW w \in Seq(S), w # << >>, GivenOnce(w)
    PROVE  /\ GivenOnce(Tail(w))
           /\ Head(w).op = "PREPARE" => \A p \in On(Tail(w)) : p.op = "PREPARE" => p.b # Head(w).b
<1> DEFINE v == Tail(w)
<1>1. /\ Len(v) = Len(w) - 1 /\ Len(w) \in Nat \ {0}
      /\ \A i \in 1 .. Len(v) : v[i] = w[i + 1]
    BY HeadTailProperties, EmptySeq
<1>2. Head(w) = w[1]
    OBVIOUS
<1> HIDE DEF v
<1>3. 1 \in 1 .. Len(w) /\ \A i \in 1 .. Len(v) : i + 1 \in 1 .. Len(w) /\ i + 1 # 1
    BY <1>1
<1>4. \A i, j \in 1 .. Len(v) : i + 1 = j + 1 => i = j
    BY <1>1
<1>5. GivenOnce(v)
  <2> SUFFICES ASSUME NEW i \in 1 .. Len(v), NEW j \in 1 .. Len(v), v[i].op = "PREPARE", v[j].op = "PREPARE", v[i].b = v[j].b
               PROVE  i = j
      BY DEF GivenOnce
  <2>1. v[i] = w[i + 1] /\ v[j] = w[j + 1] /\ i + 1 \in 1 .. Len(w) /\ j + 1 \in 1 .. Len(w)
      BY <1>1, <1>3
  <2>2. i + 1 = j + 1
      BY <2>1 DEF GivenOnce
  <2> QED BY <1>4, <2>2
<1>6. ASSUME Head(w).op = "PREPARE", NEW p \in On(v), p.op = "PREPARE" PROVE p.b # Head(w).b
  <2>1. PICK i \in 1 .. Len(v) : p = v[i]
      BY DEF On
  <2>2. p = w[i + 1] /\ i + 1 \in 1 .. Len(w) /\ i + 1 # 1
      BY <1>1, <1>3, <2>1
  <2> QED BY <1>2, <1>3, <1>6, <2>2 DEF GivenOnce
<1> QED BY <1>5, <1>6 DEF v

\* A block that was not admitted yet is admitted once.
LEMMA AdmittedAppend ==
    ASSUME NEW S, NEW w \in Seq(S), NEW x \in S, AdmittedOnce(w),
           \A d \in On(w) : d.nonce = x.nonce => d.seq # x.seq
    PROVE  AdmittedOnce(Append(w, x))
<1> DEFINE v == Append(w, x)
<1>1. /\ Len(v) = Len(w) + 1 /\ Len(w) \in Nat
      /\ \A i \in 1 .. Len(w) : v[i] = w[i] /\ w[i] \in On(w)
      /\ v[Len(w) + 1] = x
    BY AppendProperties, LenProperties DEF On
<1> HIDE DEF v
<1>2. AdmittedOnce(v)
  <2> SUFFICES ASSUME NEW i \in 1 .. Len(v), NEW j \in 1 .. Len(v), v[i].nonce = v[j].nonce, v[i].seq = v[j].seq
               PROVE  i = j
      BY DEF AdmittedOnce
  <2>1. (i \in 1 .. Len(w) \/ i = Len(w) + 1) /\ (j \in 1 .. Len(w) \/ j = Len(w) + 1)
      BY <1>1
  <2>2. CASE i \in 1 .. Len(w) /\ j \in 1 .. Len(w)
      BY <1>1, <2>2 DEF AdmittedOnce
  <2>3. CASE i = Len(w) + 1 /\ j \in 1 .. Len(w)
      BY <1>1, <2>3
  <2>4. CASE i \in 1 .. Len(w) /\ j = Len(w) + 1
      BY <1>1, <2>4
  <2> QED BY <2>1, <2>2, <2>3, <2>4
<1> QED BY <1>2 DEF v

Phases == {"IDLE", "PREPARING", "COMMITTING", "ACTIVE", "STAGED"}
\* The fields of a session change one at a time.
LEMMA SessionEdits ==
    ASSUME NEW s \in SessionT
    PROVE  /\ \A x \in Phases : LET t == [s EXCEPT !.phase = x] IN
                t \in SessionT /\ t.phase = x /\ t.trans = s.trans /\ t.nonce = s.nonce /\ t.seq = s.seq
           /\ \A x \in Nat : LET t == [s EXCEPT !.trans = x] IN
                t \in SessionT /\ t.phase = s.phase /\ t.trans = x /\ t.nonce = s.nonce /\ t.seq = s.seq
           /\ \A x \in Nat : LET t == [s EXCEPT !.nonce = x] IN
                t \in SessionT /\ t.phase = s.phase /\ t.trans = s.trans /\ t.nonce = x /\ t.seq = s.seq
           /\ \A x \in 0 .. SeqMod - 1 : LET t == [s EXCEPT !.seq = x] IN
                t \in SessionT /\ t.phase = s.phase /\ t.trans = s.trans /\ t.nonce = s.nonce /\ t.seq = x
<1>1. \A x \in Phases : LET t == [s EXCEPT !.phase = x] IN
        t \in SessionT /\ t.phase = x /\ t.trans = s.trans /\ t.nonce = s.nonce /\ t.seq = s.seq
    BY DEF SessionT, Phases
<1>2. \A x \in Nat : LET t == [s EXCEPT !.trans = x] IN
        t \in SessionT /\ t.phase = s.phase /\ t.trans = x /\ t.nonce = s.nonce /\ t.seq = s.seq
    BY DEF SessionT
<1>3. \A x \in Nat : LET t == [s EXCEPT !.nonce = x] IN
        t \in SessionT /\ t.phase = s.phase /\ t.trans = s.trans /\ t.nonce = x /\ t.seq = s.seq
    BY DEF SessionT
<1>4. \A x \in 0 .. SeqMod - 1 : LET t == [s EXCEPT !.seq = x] IN
        t \in SessionT /\ t.phase = s.phase /\ t.trans = s.trans /\ t.nonce = s.nonce /\ t.seq = x
    BY DEF SessionT
<1> QED BY <1>1, <1>2, <1>3, <1>4

\* The sequence of a new session is a sequence.
LEMMA ZeroSeq == SessionAssumption => 0 \in 0 .. SeqMod - 1
BY DEF SessionAssumption

\* A session that is invalidated.
LEMMA Invalidated ==
    ASSUME SessionAssumption, NEW s \in SessionT
    PROVE  LET t == parallel_session_invalidate(s) IN
             t \in SessionT /\ t.phase = "IDLE" /\ t.trans = s.trans /\ t.nonce = s.nonce /\ t.seq = 0
<1> DEFINE t == [s EXCEPT !.phase = "IDLE"]
<1> DEFINE u == [t EXCEPT !.seq = 0]
<1>1. parallel_session_invalidate(s) = u
    BY DEF parallel_session_invalidate, SessionT
<1>2. "IDLE" \in Phases
    BY DEF Phases
<1>3. t \in SessionT /\ t.phase = "IDLE" /\ t.trans = s.trans /\ t.nonce = s.nonce /\ t.seq = s.seq
    BY <1>2, SessionEdits, ZenonT(60)
<1> HIDE DEF t
<1>4. u \in SessionT /\ u.phase = t.phase /\ u.trans = t.trans /\ u.nonce = t.nonce /\ u.seq = 0
    BY <1>3, ZeroSeq, SessionEdits, ZenonT(60)
<1> HIDE DEF u
<1> QED BY <1>1, <1>3, <1>4

\* The next sequence, if it is not zero, is one more.
LEMMA NextSeqIs ==
    ASSUME SessionAssumption, NEW s \in SessionT
    PROVE  NextSeq(s) \in 0 .. SeqMod - 1 /\ (NextSeq(s) # 0 => NextSeq(s) = s.seq + 1)
<1> DEFINE q == s.seq
<1>1. SeqMod \in Nat \ {0} /\ q \in Nat /\ q <= SeqMod - 1
    BY DEF SessionAssumption, SessionT
<1>2. NextSeq(s) = (q + 1) % SeqMod
    BY DEF NextSeq
<1> HIDE DEF q
<1>3. CASE q = SeqMod - 1
  <2>1. (q + 1) % SeqMod = 0
      BY <1>1, <1>3
  <2> QED BY <1>1, <1>2, <2>1
<1>4. CASE q < SeqMod - 1
  <2>1. (q + 1) % SeqMod = q + 1
      BY <1>1, <1>4
  <2> QED BY <1>1, <1>2, <1>4, <2>1 DEF q
<1> QED BY <1>1, <1>3, <1>4

\* A valid offer is of the session's own next block.
LEMMA OfferIsNext ==
    ASSUME SessionAssumption, NEW s \in SessionT, NEW p, parallel_offer_valid(s, p)
    PROVE  p.a = s.nonce /\ p.b = s.seq + 1 /\ p.b \in 0 .. SeqMod - 1
<1>1. p.a = s.nonce /\ p.b = NextSeq(s) /\ p.b # 0
    BY DEF parallel_offer_valid
<1>2. NextSeq(s) \in 0 .. SeqMod - 1 /\ (NextSeq(s) # 0 => NextSeq(s) = s.seq + 1)
    BY NextSeqIs
<1> QED BY <1>1, <1>2

\* The fields of a packet change one at a time.
LEMMA PacketEdits ==
    ASSUME NEW p \in PacketT
    PROVE  /\ \A x \in BOOLEAN : LET q == [p EXCEPT !.reply = x] IN
                q \in PacketT /\ q.op = p.op /\ q.a = p.a /\ q.b = p.b /\ q.n = p.n
           /\ \A x \in Nat : LET q == [p EXCEPT !.b = x] IN
                q \in PacketT /\ q.op = p.op /\ q.a = p.a /\ q.b = x /\ q.n = p.n
           /\ \A x \in Nat : LET q == [p EXCEPT !.n = x] IN
                q \in PacketT /\ q.op = p.op /\ q.a = p.a /\ q.b = p.b /\ q.n = x
<1>1. \A x \in BOOLEAN : LET q == [p EXCEPT !.reply = x] IN
        q \in PacketT /\ q.op = p.op /\ q.a = p.a /\ q.b = p.b /\ q.n = p.n
    BY DEF PacketT
<1>2. \A x \in Nat : LET q == [p EXCEPT !.b = x] IN
        q \in PacketT /\ q.op = p.op /\ q.a = p.a /\ q.b = x /\ q.n = p.n
    BY DEF PacketT
<1>3. \A x \in Nat : LET q == [p EXCEPT !.n = x] IN
        q \in PacketT /\ q.op = p.op /\ q.a = p.a /\ q.b = p.b /\ q.n = x
    BY DEF PacketT
<1> QED BY <1>1, <1>2, <1>3

\* The fields of a block.
LEMMA BlockIs ==
    ASSUME NEW p \in PacketT
    PROVE  BlockOf(p) \in BlockT /\ BlockOf(p).nonce = p.a /\ BlockOf(p).seq = p.b /\ BlockOf(p).n = p.n
BY DEF BlockOf, BlockT, PacketT

\* An exchange: the packet may be on the wire, and nothing is captured yet.
LEMMA Exchanges ==
    ASSUME SessionTypes, NEW p \in PacketT, p.op \in {"PREPARE", "COMMIT", "OFFER", "POLL"}, Exchange(p)
    PROVE  /\ request' = p /\ waiting' = p.op /\ accepted' = FALSE
           /\ toPeer' \in Seq(PacketT) /\ \A q \in On(toPeer') : q \in On(toPeer) \/ q = p
<1>1. toPeer \in Seq(PacketT)
    BY DEF SessionTypes
<1>2. CASE toPeer' = toPeer
    BY <1>1, <1>2 DEF Exchange
<1>3. CASE toPeer' = Append(toPeer, p)
    BY <1>1, <1>3, OnAppend DEF Exchange
<1> QED BY <1>2, <1>3 DEF Exchange

\* EMOS leaves the P4 alone; a reset of it, or the end of a block, makes the P4 give up a block.
P4Stays == p4Session'.session = p4Session.session /\ p4Session'.block \in {p4Session.block, NothingTaken}

\* A reply stays true whatever EMOS does but taking another fresh nonce.
LEMMA ReplyStays ==
    ASSUME SessionInv, P4Stays, used' = used,
           \A q \in On(toEmos') : q \in On(toEmos),
           \A q \in On(toPeer') : q \in On(toPeer) \/ (q.op = "OFFER" => q.a = session.nonce),
           \A d \in On(admitted') : d \in On(admitted) \/ d.nonce = session.nonce,
           NEW p, ReplyIsTrue(p), p.op = "PREPARE" => session'.nonce # p.b
    PROVE  ReplyIsTrue(p)'
<1>1. p.op = "COMMIT" => CommitIsTrue(p)'
    BY DEF ReplyIsTrue, CommitIsTrue, P4Stays
<1>2. ASSUME p.op = "PREPARE" PROVE Fresh(p.b)'
  <2>1. Fresh(p.b) /\ session'.nonce # p.b /\ session.nonce # p.b
      BY <1>2 DEF ReplyIsTrue, Fresh
  <2>2. \A q \in On(toPeer') \cup On(toEmos') : q.op = "OFFER" => q.a # p.b
      BY <2>1 DEF Fresh
  <2>3. \A d \in On(admitted') : d.nonce # p.b
      BY <2>1 DEF Fresh
  <2>4. p4Session'.session.nonce = p.b => p4Session'.session.seq = 0 /\ p4Session'.block = NothingTaken
      BY <2>1 DEF Fresh, P4Stays
  <2> QED BY <2>1, <2>2, <2>3, <2>4 DEF Fresh
<1> QED BY <1>1, <1>2 DEF ReplyIsTrue

\* A nonce given is none of the nonces held before, and not zero.
LEMMA FreshIsNew ==
    ASSUME SessionInv, NEW n, Fresh(n)
    PROVE  n \in Nat /\ n # 0 /\ n # session.nonce /\ n \in used
BY DEF SessionInv, SessionAssumption, SessionTypes, Fresh

\* The nonces that were given are not zero.
LEMMA UsedAre == SessionInv => used \subseteq Nat /\ 0 \notin used
BY DEF SessionInv, SessionAssumption, SessionTypes

\* EMOS has no session any more, or asks for a new one: nothing is promised but what
\* is under way.
LEMMA QuietKeeps ==
    ASSUME SessionInv, SessionTypes', P4Stays,
           session'.phase \in {"IDLE", "PREPARING"}, session'.nonce \in {session.nonce, 0}, session'.seq = 0,
           waiting' = "no" \/ (waiting' = "PREPARE" /\ session'.phase = "PREPARING" /\ ~accepted'),
           link' # "drain", used' = used, toEmos' = toEmos, admitted' = admitted, answer'.n = answer'.nonce,
           \A q \in On(toPeer') : q \in On(toPeer) \/ q.op = "PREPARE"
    PROVE  SessionInv'
<1>1. ~Live'
    BY DEF Live
<1>2. OwnInv'
    BY <1>1 DEF OwnInv, SessionInv
<1>3. WaitInv'
    BY DEF WaitInv
<1>4. \A p \in On(toEmos) : ReplyIsTrue(p)'
  <2> SUFFICES ASSUME NEW p \in On(toEmos) PROVE ReplyIsTrue(p)'
      OBVIOUS
  <2>1. ReplyIsTrue(p)
      BY DEF SessionInv, WireInv
  <2>2. p.op = "PREPARE" => session'.nonce # p.b
      BY <2>1, FreshIsNew DEF ReplyIsTrue
  <2> QED BY <2>1, <2>2, ReplyStays
<1>5. WireInv'
  <2>1. \A p \in On(toPeer') : (p.op = "COMMIT" => p.b \in used') /\ (p.op = "OFFER" => p.a \in used')
      BY DEF SessionInv, WireInv
  <2>2. GivenOnce(toEmos')
      BY DEF SessionInv, WireInv
  <2> QED BY <1>1, <1>4, <2>1, <2>2 DEF WireInv
<1>6. CapturedInv'
    BY DEF CapturedInv
<1>7. PeerInv'
    BY <1>1 DEF PeerInv, Live
<1>8. AdmittedInv'
    BY <1>1 DEF SessionInv, AdmittedInv
<1>9. SessionAssumption'
    BY DEF SessionInv, SessionAssumption
<1> QED BY <1>2, <1>3, <1>5, <1>6, <1>7, <1>8, <1>9 DEF SessionInv

\* A cancelled session.
LEMMA CancelKeeps ==
    ASSUME SessionInv, Cancel, waiting' = "no",
           UNCHANGED <<request, accepted, transaction, answer, p4Session, toPeer, toEmos, offer, used, admitted>>
    PROVE  SessionInv'
<1>1. session \in SessionT /\ SessionAssumption /\ answer.n = answer.nonce
    BY DEF SessionInv, SessionTypes, AdmittedInv
<1>2. session' \in SessionT /\ session'.phase = "IDLE" /\ session'.nonce = session.nonce /\ session'.seq = 0
    BY <1>1, Invalidated DEF Cancel
<1>3. SessionTypes'
    BY <1>2 DEF SessionInv, SessionTypes, Cancel
<1>4. P4Stays
    BY DEF P4Stays
<1> QED BY <1>1, <1>2, <1>3, <1>4, QuietKeeps DEF Cancel

\* What is not looked at changes, and nothing else.
LEMMA SameKeeps ==
    ASSUME SessionInv, SessionTypes',
           UNCHANGED <<session, request, waiting, accepted, link, answer, p4Session, toPeer, toEmos, offer, used, admitted>>
    PROVE  SessionInv'
<1>1. Live' = Live /\ Same' = Same /\ OfferIsTaken' = OfferIsTaken
    BY DEF Live, Same, OfferIsTaken
<1>2. \A p : /\ ReplyIsTrue(p) => ReplyIsTrue(p)'
             /\ IsOld(p)' = IsOld(p) /\ IsMine(p)' = IsMine(p)
    BY DEF ReplyIsTrue, Fresh, CommitIsTrue, IsOld, IsMine
<1>3. OwnInv' /\ WaitInv' /\ PeerInv' /\ AdmittedInv'
    BY <1>1 DEF SessionInv, OwnInv, WaitInv, PeerInv, AdmittedInv
<1>4. WireInv'
    BY <1>1, <1>2 DEF SessionInv, WireInv
<1>5. CapturedInv'
    BY <1>1, <1>2 DEF SessionInv, CapturedInv
<1> QED BY <1>3, <1>4, <1>5 DEF SessionInv, SessionAssumption

\* The end of a wait for the amount of a poll.
LEMMA WaitOver ==
    ASSUME SessionInv, waiting = "POLL", waiting' = "no", answer' \in [nonce : Nat, n : Nat], answer'.n = answer'.nonce,
           UNCHANGED <<session, request, accepted, transaction, link, p4Session, toPeer, toEmos, offer, used, admitted>>
    PROVE  SessionInv'
<1>1. Live' = Live /\ Same' = Same /\ OfferIsTaken' = OfferIsTaken
    BY DEF Live, Same, OfferIsTaken
<1>2. \A p : /\ ReplyIsTrue(p) => ReplyIsTrue(p)'
             /\ IsOld(p)' = IsOld(p) /\ ~IsMine(p)
    BY DEF ReplyIsTrue, Fresh, CommitIsTrue, IsOld, IsMine
<1>3. SessionTypes' /\ OwnInv' /\ WaitInv' /\ AdmittedInv'
    BY <1>1 DEF SessionInv, SessionTypes, OwnInv, WaitInv, AdmittedInv
<1>4. WireInv'
    BY <1>1, <1>2 DEF SessionInv, WireInv
<1>5. CapturedInv'
    BY DEF CapturedInv
<1>6. PeerInv'
    BY <1>1 DEF SessionInv, PeerInv
<1> QED BY <1>3, <1>4, <1>5, <1>6 DEF SessionInv, SessionAssumption

\* A negotiation begins, or is refused.
LEMMA NegotiateKeeps == ASSUME SessionInv, emos_parallel_session_negotiate PROVE SessionInv'
<1> USE DEF emos_parallel_session_negotiate
<1>1. SessionTypes /\ SessionAssumption /\ session \in SessionT /\ answer.n = answer.nonce
    BY DEF SessionInv, SessionTypes, AdmittedInv
<1>2. transaction' \in Nat
    BY <1>1 DEF SessionTypes, SessionAssumption
<1>3. UNCHANGED <<link, answer, p4Session, toEmos, offer, used, admitted>>
    OBVIOUS
<1>4. CASE transaction' = 0 \/ session.phase \notin {"IDLE", "ACTIVE"}
  <2>1. UNCHANGED <<session, request, waiting, accepted, toPeer>>
      BY <1>4 DEF buffers
  <2>2. SessionTypes'
      BY <1>1, <1>2, <1>3, <2>1 DEF SessionTypes
  <2> QED BY <1>3, <2>1, <2>2, SameKeeps
<1>5. CASE ~(transaction' = 0 \/ session.phase \notin {"IDLE", "ACTIVE"})
  <2> DEFINE s == parallel_session_invalidate(session)
  <2> DEFINE t == [s EXCEPT !.trans = transaction']
  <2> DEFINE u == [t EXCEPT !.phase = "PREPARING"]
  <2> DEFINE p == Packet("PREPARE", FALSE, transaction', 0, 0)
  <2>1. s \in SessionT /\ s.nonce = session.nonce /\ s.seq = 0
      BY <1>1, Invalidated
  <2>2. Exchange(p) /\ session' = [s EXCEPT !.trans = transaction', !.phase = "PREPARING"]
      BY <1>5
  <2>3. p \in PacketT /\ p.op = "PREPARE"
      BY <1>2 DEF Packet, PacketT, Ops
  <2> HIDE DEF s, p
  <2>4. session' = u
      BY <2>1, <2>2 DEF SessionT
  <2>5. t \in SessionT /\ t.nonce = s.nonce /\ t.seq = s.seq
      BY <1>2, <2>1, SessionEdits, ZenonT(60)
  <2> HIDE DEF t
  <2>6. u \in SessionT /\ u.phase = "PREPARING" /\ u.nonce = t.nonce /\ u.seq = t.seq
    <3>1. "PREPARING" \in Phases
        BY DEF Phases
    <3> QED BY <2>5, <3>1, SessionEdits, ZenonT(60)
  <2> HIDE DEF u
  <2>7. /\ request' = p /\ waiting' = "PREPARE" /\ accepted' = FALSE
        /\ toPeer' \in Seq(PacketT) /\ \A q \in On(toPeer') : q \in On(toPeer) \/ q = p
      BY <1>1, <2>2, <2>3, Exchanges
  <2>8. SessionTypes'
      BY <1>1, <1>2, <1>3, <2>3, <2>4, <2>6, <2>7 DEF SessionTypes
  <2>9. P4Stays /\ link' # "drain"
      BY <1>3 DEF P4Stays, Rests
  <2> QED BY <1>1, <1>3, <2>1, <2>3, <2>4, <2>5, <2>6, <2>7, <2>8, <2>9, QuietKeeps
<1> QED BY <1>4, <1>5

\* A reset of EMOS.
LEMMA EmosResetsKeeps == ASSUME SessionInv, EmosResets PROVE SessionInv'
<1> USE DEF EmosResets
<1>1. SessionTypes /\ SessionAssumption /\ p4Session \in [session : SessionT, block : BlockT]
    BY DEF SessionInv, SessionTypes
<1>2. NoSession \in SessionT /\ NoPacket \in PacketT /\ NothingTaken \in BlockT
    BY <1>1, ZeroSeq DEF NoSession, SessionT, NoPacket, Packet, PacketT, Ops, NothingTaken, BlockT
<1>3. P4Stays /\ p4Session' \in [session : SessionT, block : BlockT]
    BY <1>1, <1>2 DEF P4Stays
<1>4. SessionTypes'
    BY <1>1, <1>2, <1>3 DEF SessionTypes, wires
<1> QED BY <1>3, <1>4, QuietKeeps DEF NoSession, wires

\* A wait that is given up.
LEMMA WaitReplyKeeps == ASSUME SessionInv, wait_reply PROVE SessionInv'
<1> USE DEF wait_reply, EndsWait, Foreground
<1>1. CASE waiting # "POLL"
    BY <1>1, CancelKeeps
<1>2. CASE waiting = "POLL"
  <2>1. waiting' = "no" /\ UNCHANGED <<session, request, accepted, transaction, link, answer, p4Session, toPeer, toEmos, offer, used, admitted>>
      BY <1>2
  <2>2. answer \in [nonce : Nat, n : Nat] /\ answer.n = answer.nonce
      BY DEF SessionInv, SessionTypes, AdmittedInv
  <2> QED BY <1>2, <2>1, <2>2, WaitOver
<1> QED BY <1>1, <1>2

\* The amount of a poll.
LEMMA PolledKeeps == ASSUME SessionInv, Polled PROVE SessionInv'
<1>1. waiting = "POLL" /\ waiting' = "no" /\ answer' = [nonce |-> session.nonce, n |-> request.n]
    BY DEF Polled, EndsWait
<1>2. UNCHANGED <<session, request, accepted, transaction, link, p4Session, toPeer, toEmos, offer, used, admitted>>
    BY DEF Polled, EndsWait, Foreground
<1>3. request.n = request.a /\ request.a = session.nonce
    BY <1>1 DEF Polled, SessionInv, CapturedInv, ReplyIsTrue, WaitInv
<1>4. session.nonce \in Nat /\ request.n \in Nat
    BY DEF SessionInv, SessionTypes, SessionT, PacketT
<1>5. answer' \in [nonce : Nat, n : Nat] /\ answer'.n = answer'.nonce
    BY <1>1, <1>3, <1>4
<1> QED BY <1>1, <1>2, <1>5, WaitOver

\* The receive interrupt captures a reply, or drops it.
LEMMA PacketKeeps == ASSUME SessionInv, emos_console_packet PROVE SessionInv'
<1> USE DEF emos_console_packet
<1>1. UNCHANGED <<session, waiting, transaction, link, answer, p4Session, toPeer, offer, used, admitted>>
    BY DEF counts
<1>2. toEmos \in Seq(PacketT) /\ toEmos # << >> /\ toEmos' = Tail(toEmos)
    BY DEF SessionInv, SessionTypes
<1>3. /\ toEmos' \in Seq(PacketT) /\ Head(toEmos) \in PacketT
      /\ Head(toEmos) \in On(toEmos) /\ \A p \in On(toEmos') : p \in On(toEmos)
    BY <1>2, OnTail
<1>4. /\ GivenOnce(toEmos')
      /\ Head(toEmos).op = "PREPARE" => \A p \in On(toEmos') : p.op = "PREPARE" => p.b # Head(toEmos).b
    BY <1>2, GivenTail DEF SessionInv, WireInv
<1>5. Live' = Live /\ Same' = Same /\ OfferIsTaken' = OfferIsTaken
    BY <1>1 DEF Live, Same, OfferIsTaken
<1>6. P4Stays
    BY <1>1 DEF P4Stays
<1>7. \A p : /\ ReplyIsTrue(p) => ReplyIsTrue(p)'
             /\ IsOld(p)' = IsOld(p) /\ IsMine(p)' = IsMine(p)
  <2> SUFFICES ASSUME NEW p PROVE (ReplyIsTrue(p) => ReplyIsTrue(p)') /\ IsOld(p)' = IsOld(p) /\ IsMine(p)' = IsMine(p)
      OBVIOUS
  <2>1. p.op = "PREPARE" /\ ReplyIsTrue(p) => session'.nonce # p.b
      BY <1>1 DEF ReplyIsTrue, Fresh
  <2>2. ReplyIsTrue(p) => ReplyIsTrue(p)'
      BY <1>1, <1>3, <1>6, <2>1, ReplyStays
  <2> QED BY <1>1, <2>2 DEF IsOld, IsMine
<1>8. WireInv'
  <2>1. \A p \in On(toPeer') : (p.op = "COMMIT" => p.b \in used') /\ (p.op = "OFFER" => p.a \in used')
      BY <1>1 DEF SessionInv, WireInv
  <2>2. \A p \in On(toEmos') : ReplyIsTrue(p)'
      BY <1>3, <1>7 DEF SessionInv, WireInv
  <2>3. Live' => \A p \in On(toPeer') : p.op = "OFFER" => IsOld(p)' \/ IsMine(p)'
      BY <1>1, <1>5, <1>7 DEF SessionInv, WireInv
  <2>4. Live' => \A p \in On(toEmos') : p.op = "OFFER" => IsOld(p)' \/ (IsMine(p)' /\ OfferIsTaken')
      BY <1>3, <1>5, <1>7 DEF SessionInv, WireInv
  <2> QED BY <1>4, <2>1, <2>2, <2>3, <2>4 DEF WireInv
<1>9. OwnInv' /\ PeerInv' /\ AdmittedInv' /\ SessionAssumption'
    BY <1>1, <1>5 DEF SessionInv, OwnInv, PeerInv, AdmittedInv, SessionAssumption
<1>10. CASE ~Captures(Head(toEmos))
  <2>1. UNCHANGED <<accepted, request>>
      BY <1>10
  <2>2. SessionTypes' /\ WaitInv'
      BY <1>1, <1>3, <2>1 DEF SessionInv, SessionTypes, WaitInv
  <2>3. CapturedInv'
      BY <1>1, <1>3, <1>5, <1>7, <2>1 DEF SessionInv, CapturedInv
  <2> QED BY <1>8, <1>9, <2>2, <2>3 DEF SessionInv
<1>11. CASE Captures(Head(toEmos))
  <2> DEFINE p == Head(toEmos)
  <2>1. accepted' = TRUE /\ request' = p /\ waiting # "no" /\ p.op = waiting
      BY <1>11 DEF Captures
  <2>2. p \in PacketT /\ p \in On(toEmos) /\ ReplyIsTrue(p)
      BY <1>3 DEF SessionInv, WireInv
  <2>3. waiting = "OFFER" => p.a = request.a /\ p.b = request.b /\ p.n = request.n
      BY <1>11 DEF Captures, parallel_block_matches
  <2>4. waiting = "POLL" => p.a = request.a
      BY <1>11 DEF Captures
  <2>5. SessionTypes'
      BY <1>1, <1>3, <2>1, <2>2 DEF SessionInv, SessionTypes
  <2>6. waiting = "PREPARE" => \A q \in On(toEmos') : q.op = "PREPARE" => q.b # p.b
      BY <1>4, <2>1
  <2> HIDE DEF p
  <2>7. WaitInv'
    <3>1. waiting = "OFFER" => BlockOf(p) = BlockOf(offer)
        BY <2>3 DEF SessionInv, WaitInv, BlockOf
    <3> QED BY <1>1, <2>1, <2>4, <3>1 DEF SessionInv, WaitInv
  <2>8. ASSUME waiting = "OFFER" PROVE OfferIsTaken'
    <3>1. session.phase = "ACTIVE" /\ offer.a = session.nonce /\ offer.b = session.seq + 1 /\ BlockOf(request) = BlockOf(offer)
        BY <2>8 DEF SessionInv, WaitInv
    <3>2. request \in PacketT /\ offer \in PacketT /\ session.seq \in Nat
        BY DEF SessionInv, SessionTypes, SessionT, SessionAssumption
    <3>3. p.a = session.nonce /\ p.b = session.seq + 1
        BY <2>3, <2>8, <3>1, <3>2, BlockIs
    <3>4. ~IsOld(p)
        BY <3>2, <3>3 DEF IsOld
    <3>5. Live
        BY <3>1 DEF Live
    <3> QED BY <1>5, <2>1, <2>2, <2>8, <3>4, <3>5 DEF SessionInv, WireInv
  <2>9. CapturedInv'
      BY <1>1, <1>7, <2>1, <2>2, <2>6, <2>8 DEF CapturedInv
  <2> QED BY <1>8, <1>9, <2>5, <2>7, <2>9 DEF SessionInv
<1> QED BY <1>10, <1>11

\* A reply to PREPARE: the session takes its nonce, which nothing has used, or is cancelled.
LEMMA PreparedKeeps == ASSUME SessionInv, Prepared PROVE SessionInv'
<1>1. /\ waiting = "PREPARE" /\ accepted /\ session.phase = "PREPARING" /\ session.seq = 0 /\ link # "drain"
      /\ UNCHANGED <<transaction, answer, p4Session, toEmos, offer, used, admitted>>
    BY DEF Prepared, Foreground, SessionInv, WaitInv, OwnInv
<1>2. CASE ~(request.a = session.trans /\ request.b # 0 /\ request.b # session.nonce)
    BY <1>1, <1>2, CancelKeeps DEF Prepared, EndsWait
<1>3. CASE request.a = session.trans /\ request.b # 0 /\ request.b # session.nonce
  <2> DEFINE n == request.b
             t == [session EXCEPT !.nonce = n]
             u == [t EXCEPT !.phase = "COMMITTING"]
             p == Packet("COMMIT", FALSE, request.a, n, 0)
  <2>1. session \in SessionT /\ request \in PacketT /\ n \in Nat /\ SessionTypes
      BY DEF SessionInv, SessionTypes, PacketT
  <2>2. session' = u /\ Exchange(p) /\ link' = link
    <3>1. session' = [session EXCEPT !.nonce = request.b, !.phase = "COMMITTING"] /\ Exchange(p) /\ link' = link
        BY <1>3 DEF Prepared
    <3> QED BY <2>1, <3>1 DEF SessionT
  <2>3. Fresh(n) /\ \A q \in On(toEmos) : q.op = "PREPARE" => q.b # n
      BY <1>1 DEF SessionInv, CapturedInv, ReplyIsTrue
  <2>4. p \in PacketT /\ p.op = "COMMIT" /\ p.b = n
      BY <2>1 DEF Packet, PacketT, Ops
  <2> HIDE DEF p, n
  <2>5. t \in SessionT /\ t.nonce = n /\ t.seq = session.seq /\ t.trans = session.trans
      BY <2>1, SessionEdits, ZenonT(60)
  <2> HIDE DEF t
  <2>6. u \in SessionT /\ u.phase = "COMMITTING" /\ u.nonce = t.nonce /\ u.seq = t.seq /\ u.trans = t.trans
    <3>1. "COMMITTING" \in Phases
        BY DEF Phases
    <3> QED BY <2>5, <3>1, SessionEdits, ZenonT(60)
  <2> HIDE DEF u
  <2>7. session'.phase = "COMMITTING" /\ session'.nonce = n /\ session'.seq = 0 /\ session' \in SessionT
      BY <1>1, <2>2, <2>5, <2>6
  <2>8. /\ request' = p /\ waiting' = "COMMIT" /\ accepted' = FALSE
        /\ toPeer' \in Seq(PacketT) /\ \A q \in On(toPeer') : q \in On(toPeer) \/ q = p
      BY <2>1, <2>2, <2>4, Exchanges
  <2>9. n \in used /\ n # session.nonce
      BY <2>3, FreshIsNew
  <2>10. SessionTypes'
      BY <1>1, <2>1, <2>2, <2>4, <2>7, <2>8 DEF SessionTypes
  <2>11. OwnInv' /\ WaitInv' /\ CapturedInv'
      BY <1>1, <2>2, <2>7, <2>8, <2>9 DEF OwnInv, WaitInv, CapturedInv
  <2>12. PeerInv'
    <3>1. Same' => p4Session.session.seq = 0
        BY <1>1, <2>3, <2>7 DEF Same, Fresh
    <3> QED BY <1>1, <2>2, <2>7, <3>1 DEF PeerInv, Live
  <2>13. WireInv'
    <3>1. P4Stays
        BY <1>1 DEF P4Stays
    <3>2. \A q \in On(toEmos) : ReplyIsTrue(q)'
      <4> SUFFICES ASSUME NEW q \in On(toEmos) PROVE ReplyIsTrue(q)'
          OBVIOUS
      <4>1. ReplyIsTrue(q) /\ (q.op = "PREPARE" => session'.nonce # q.b)
          BY <2>3, <2>7 DEF SessionInv, WireInv
      <4> QED BY <1>1, <2>4, <2>8, <3>1, <4>1, ReplyStays
    <3>3. \A q \in On(toPeer') : (q.op = "COMMIT" => q.b \in used') /\ (q.op = "OFFER" => q.a \in used')
        BY <1>1, <2>4, <2>8, <2>9 DEF SessionInv, WireInv
    <3>4. \A q \in On(toPeer') \cup On(toEmos') : q.op = "OFFER" => IsOld(q)'
        BY <1>1, <2>3, <2>4, <2>7, <2>8 DEF Fresh, IsOld
    <3>5. GivenOnce(toEmos')
        BY <1>1 DEF SessionInv, WireInv
    <3> QED BY <1>1, <3>2, <3>3, <3>4, <3>5 DEF WireInv
  <2>14. AdmittedInv'
    <3>1. \A d \in On(admitted) : d.nonce # n
        BY <2>3 DEF Fresh
    <3> QED BY <1>1, <2>7, <3>1 DEF SessionInv, AdmittedInv
  <2> QED BY <2>10, <2>11, <2>12, <2>13, <2>14 DEF SessionInv, SessionAssumption
<1> QED BY <1>2, <1>3

\* A reply to COMMIT: the session is active on both sides, or cancelled.
LEMMA CommittedKeeps == ASSUME SessionInv, Committed PROVE SessionInv'
<1>1. /\ waiting = "COMMIT" /\ accepted /\ session.phase = "COMMITTING" /\ session.seq = 0 /\ link # "drain"
      /\ waiting' = "no"
      /\ UNCHANGED <<request, accepted, transaction, answer, p4Session, toPeer, toEmos, offer, used, admitted>>
    BY DEF Committed, EndsWait, Foreground, SessionInv, WaitInv, OwnInv
<1>2. CASE ~(request.a = session.trans /\ request.b = session.nonce)
    BY <1>1, <1>2, CancelKeeps DEF Committed
<1>3. CASE request.a = session.trans /\ request.b = session.nonce
  <2>1. session \in SessionT /\ "ACTIVE" \in Phases
      BY DEF SessionInv, SessionTypes, Phases
  <2>2. session' = [session EXCEPT !.phase = "ACTIVE"] /\ link' = link
      BY <1>3 DEF Committed
  <2>3. /\ session' \in SessionT /\ session'.phase = "ACTIVE" /\ session'.nonce = session.nonce
        /\ session'.seq = session.seq /\ session'.trans = session.trans
      BY <2>1, <2>2, SessionEdits
  <2>4. Live /\ Live' /\ Same' = Same /\ OfferIsTaken' = OfferIsTaken
      BY <1>1, <2>3 DEF Live, Same, OfferIsTaken
  <2>5. SessionTypes' /\ OwnInv' /\ WaitInv' /\ CapturedInv'
      BY <1>1, <2>2, <2>3, <2>4 DEF SessionInv, SessionTypes, OwnInv, WaitInv, CapturedInv
  <2>6. \A p : /\ ReplyIsTrue(p) => ReplyIsTrue(p)'
               /\ IsOld(p)' = IsOld(p) /\ ~IsMine(p)
      BY <1>1, <2>3 DEF ReplyIsTrue, Fresh, CommitIsTrue, IsOld, IsMine
  <2>7. WireInv'
      BY <1>1, <2>4, <2>6 DEF SessionInv, WireInv
  <2>8. PeerInv'
    <3>1. CommitIsTrue(request)
        BY <1>1 DEF SessionInv, CapturedInv, ReplyIsTrue
    <3>2. Same => p4Session.session.phase = "ACTIVE" /\ p4Session.session.trans = session.trans
        BY <1>3, <3>1 DEF CommitIsTrue, Same
    <3>3. Same => p4Session.session.seq = session.seq
        BY <1>1, <2>4 DEF SessionInv, PeerInv
    <3> QED BY <1>1, <2>2, <2>3, <2>4, <3>2, <3>3 DEF PeerInv
  <2>9. AdmittedInv'
      BY <1>1, <2>3, <2>4 DEF SessionInv, AdmittedInv
  <2> QED BY <2>5, <2>7, <2>8, <2>9 DEF SessionInv, SessionAssumption
<1> QED BY <1>2, <1>3

\* EMOS sends an offer or a poll of its active session: what waits afterwards is that packet.
LEMMA AskingKeeps ==
    ASSUME SessionInv, waiting = "no", link = "uart", session.phase = "ACTIVE",
           NEW p, p \in PacketT, p.op \in {"OFFER", "POLL"}, p.a = session.nonce, Exchange(p), offer' \in PacketT,
           p.op = "OFFER" => p = offer' /\ p.b = session.seq + 1,
           UNCHANGED <<session, transaction, link, answer, p4Session, toEmos, used, admitted>>
    PROVE  SessionInv'
<1>1. SessionTypes /\ Live /\ session.nonce \in used
    BY DEF SessionInv, Live, OwnInv
<1>2. /\ request' = p /\ waiting' = p.op /\ accepted' = FALSE
      /\ toPeer' \in Seq(PacketT) /\ \A q \in On(toPeer') : q \in On(toPeer) \/ q = p
    BY <1>1, Exchanges
<1>3. SessionTypes' /\ OwnInv' /\ CapturedInv'
    BY <1>1, <1>2 DEF SessionInv, SessionTypes, OwnInv, CapturedInv, Live
<1>4. WaitInv'
    BY <1>2 DEF WaitInv
<1>5. PeerInv'
    BY <1>1 DEF SessionInv, PeerInv, Same, Live
<1>6. WireInv'
  <2>1. \A q \in On(toPeer') : (q.op = "COMMIT" => q.b \in used') /\ (q.op = "OFFER" => q.a \in used')
      BY <1>1, <1>2 DEF SessionInv, WireInv
  <2>2. \A q \in On(toEmos) : ReplyIsTrue(q)'
    <3> SUFFICES ASSUME NEW q \in On(toEmos) PROVE ReplyIsTrue(q)'
        OBVIOUS
    <3>1. ReplyIsTrue(q) /\ P4Stays
        BY DEF SessionInv, WireInv, P4Stays
    <3>2. q.op = "PREPARE" => session'.nonce # q.b
        BY <3>1 DEF ReplyIsTrue, Fresh
    <3> QED BY <1>2, <3>1, <3>2, ReplyStays
  <2>3. \A q \in On(toPeer) \cup On(toEmos) : q.op = "OFFER" => IsOld(q)'
      BY <1>1 DEF SessionInv, WireInv, IsOld, IsMine
  <2>4. p.op = "OFFER" => IsMine(p)'
      BY <1>2 DEF IsMine
  <2>5. GivenOnce(toEmos')
      BY DEF SessionInv, WireInv
  <2> QED BY <1>2, <2>1, <2>2, <2>3, <2>4, <2>5 DEF WireInv
<1>7. AdmittedInv'
    BY <1>1 DEF SessionInv, AdmittedInv, Live
<1> QED BY <1>3, <1>4, <1>5, <1>6, <1>7 DEF SessionInv, SessionAssumption

\* The next block is offered; one that may not be offered is refused.
LEMMA OfferKeeps == ASSUME SessionInv, emos_parallel_block_offer PROVE SessionInv'
<1>1. PICK n \in BlockSizes : \E seq \in {NextSeq(session), session.seq} :
        /\ Rests /\ session.phase = "ACTIVE" /\ requests' = requests + 1
        /\ offer' = Packet("OFFER", FALSE, session.nonce, seq, n)
        /\ IF parallel_offer_valid(session, offer') THEN Exchange(offer') ELSE UNCHANGED <<buffers, toPeer>>
        /\ UNCHANGED <<session, transaction, link, answer, p4Session, toEmos, used, admitted, resets>>
    BY DEF emos_parallel_block_offer
<1>2. PICK seq \in {NextSeq(session), session.seq} :
        /\ Rests /\ session.phase = "ACTIVE" /\ requests' = requests + 1
        /\ offer' = Packet("OFFER", FALSE, session.nonce, seq, n)
        /\ IF parallel_offer_valid(session, offer') THEN Exchange(offer') ELSE UNCHANGED <<buffers, toPeer>>
        /\ UNCHANGED <<session, transaction, link, answer, p4Session, toEmos, used, admitted, resets>>
    BY <1>1
<1>3. SessionTypes /\ SessionAssumption /\ session \in SessionT
    BY DEF SessionInv, SessionTypes
<1>4. n \in Nat /\ seq \in Nat /\ session.nonce \in Nat /\ NextSeq(session) \in Nat
    BY <1>3, NextSeqIs DEF SessionAssumption, SessionT
<1>5. offer' \in PacketT /\ offer'.op = "OFFER" /\ offer'.a = session.nonce /\ offer'.b = seq
    BY <1>2, <1>4 DEF Packet, PacketT, Ops
<1>6. CASE parallel_offer_valid(session, offer')
  <2>1. offer'.b = session.seq + 1
      BY <1>3, <1>6, OfferIsNext, Zenon
  <2>2. Exchange(offer') /\ waiting = "no" /\ link = "uart"
      BY <1>2, <1>6 DEF Rests
  <2> DEFINE p == offer'
  <2>3. p \in PacketT /\ p.op = "OFFER" /\ p.a = session.nonce /\ p.b = session.seq + 1 /\ Exchange(p) /\ p = offer'
      BY <1>5, <2>1, <2>2
  <2> HIDE DEF p
  <2> QED BY <1>2, <1>5, <2>2, <2>3, AskingKeeps
<1>7. CASE ~parallel_offer_valid(session, offer')
  <2>1. waiting = "no" /\ link = "uart"
        /\ UNCHANGED <<session, request, waiting, accepted, transaction, link, answer, p4Session, toPeer, toEmos, used, admitted>>
      BY <1>2, <1>7 DEF Rests, buffers
  <2>2. SessionTypes'
      BY <1>3, <1>5, <2>1 DEF SessionTypes
  <2>3. Live' = Live /\ Same' = Same
      BY <2>1 DEF Live, Same
  <2>4. OwnInv' /\ WaitInv' /\ CapturedInv' /\ PeerInv' /\ AdmittedInv'
      BY <2>1, <2>3 DEF SessionInv, OwnInv, WaitInv, CapturedInv, PeerInv, AdmittedInv
  <2>5. \A p : /\ ReplyIsTrue(p) => ReplyIsTrue(p)'
               /\ IsOld(p)' = IsOld(p) /\ ~IsMine(p)
      BY <2>1 DEF ReplyIsTrue, Fresh, CommitIsTrue, IsOld, IsMine
  <2>6. WireInv'
      BY <2>1, <2>3, <2>5 DEF SessionInv, WireInv
  <2> QED BY <2>2, <2>4, <2>6 DEF SessionInv, SessionAssumption
<1> QED BY <1>6, <1>7

\* A poll is sent.
LEMMA PollKeeps == ASSUME SessionInv, emos_parallel_stream_control PROVE SessionInv'
<1> DEFINE p == Packet("POLL", FALSE, session.nonce, session.seq, 0)
<1>1. /\ waiting = "no" /\ link = "uart" /\ session.phase = "ACTIVE" /\ Exchange(p)
      /\ UNCHANGED <<session, transaction, link, answer, p4Session, toEmos, offer, used, admitted>>
    BY DEF emos_parallel_stream_control, Rests
<1>2. session.nonce \in Nat /\ session.seq \in Nat /\ offer \in PacketT
    BY DEF SessionInv, SessionTypes, SessionT, SessionAssumption
<1>3. p \in PacketT /\ p.op = "POLL" /\ p.a = session.nonce
    BY <1>2 DEF Packet, PacketT, Ops
<1> HIDE DEF p
<1> QED BY <1>1, <1>2, <1>3, AskingKeeps

\* A reply to the offer: the block is admitted, once, or the session is cancelled.
LEMMA AdmitKeeps == ASSUME SessionInv, emos_parallel_handover_admit PROVE SessionInv'
<1>1. /\ waiting = "OFFER" /\ accepted /\ waiting' = "no"
      /\ UNCHANGED <<request, accepted, transaction, answer, p4Session, toPeer, toEmos, offer, used>>
    BY DEF emos_parallel_handover_admit, EndsWait, Foreground
<1>2. CASE ~(session.phase = "ACTIVE" /\ parallel_offer_valid(session, offer) /\ BlockOf(offer) = BlockOf(request))
    BY <1>1, <1>2, CancelKeeps DEF emos_parallel_handover_admit
<1>3. CASE session.phase = "ACTIVE" /\ parallel_offer_valid(session, offer) /\ BlockOf(offer) = BlockOf(request)
  <2> DEFINE d == BlockOf(offer)
  <2>1. /\ link' = "drain" /\ session' = [session EXCEPT !.seq = offer.b]
        /\ admitted' = Append(admitted, d)
      BY <1>3 DEF emos_parallel_handover_admit
  <2>2. /\ SessionTypes /\ SessionAssumption /\ session \in SessionT /\ offer \in PacketT /\ admitted \in Seq(BlockT)
        /\ session.seq \in Nat /\ session.nonce \in used
      BY <1>3 DEF SessionInv, SessionTypes, OwnInv, Live, SessionT, SessionAssumption
  <2>3. offer.a = session.nonce /\ offer.b = session.seq + 1 /\ offer.b \in 0 .. SeqMod - 1
      BY <1>3, <2>2, OfferIsNext, Zenon
  <2>4. /\ session' \in SessionT /\ session'.phase = session.phase /\ session'.nonce = session.nonce
        /\ session'.seq = offer.b /\ session'.trans = session.trans
      BY <2>1, <2>2, <2>3, SessionEdits
  <2>5. d \in BlockT /\ d.nonce = session.nonce /\ d.seq = offer.b
      BY <2>2, <2>3, BlockIs
  <2> HIDE DEF d
  <2>6. admitted' \in Seq(BlockT) /\ \A x : x \in On(admitted') <=> x \in On(admitted) \/ x = d
      BY <2>1, <2>2, <2>5, OnAppend
  <2>7. \A x \in On(admitted) : x \in BlockT /\ x.seq \in Nat /\ (x.nonce = session.nonce => x.seq <= session.seq)
    <3>1. \A x \in On(admitted) : x \in BlockT
        BY <2>2, OnTyped
    <3> QED BY <1>3, <3>1 DEF SessionInv, AdmittedInv, Live, BlockT
  <2>8. \A x \in On(admitted) : x.nonce = d.nonce => x.seq < offer.b
      BY <2>2, <2>3, <2>5, <2>7
  <2>9. Live /\ Live' /\ Same' = Same /\ OfferIsTaken' = OfferIsTaken
      BY <1>1, <1>3, <2>4 DEF Live, Same, OfferIsTaken
  <2>10. OfferIsTaken
      BY <1>1 DEF SessionInv, CapturedInv
  <2>11. SessionTypes' /\ OwnInv' /\ WaitInv' /\ CapturedInv'
    <3>1. SessionTypes'
        BY <1>1, <2>1, <2>2, <2>4, <2>6 DEF SessionTypes
    <3>2. OwnInv' /\ WaitInv'
        BY <1>1, <1>3, <2>1, <2>3, <2>4, <2>9 DEF SessionInv, OwnInv, WaitInv
    <3>3. CapturedInv'
        BY <1>1, <2>1, <2>9 DEF SessionInv, CapturedInv
    <3> QED BY <3>1, <3>2, <3>3
  <2>12. PeerInv'
      BY <1>1, <1>3, <2>4, <2>9, <2>10 DEF SessionInv, PeerInv, OfferIsTaken
  <2>13. WireInv'
    <3>1. P4Stays /\ On(toEmos') = On(toEmos) /\ On(toPeer') = On(toPeer)
        BY <1>1 DEF P4Stays
    <3>2. \A q \in On(toEmos) : ReplyIsTrue(q)'
      <4> SUFFICES ASSUME NEW q \in On(toEmos) PROVE ReplyIsTrue(q)'
          OBVIOUS
      <4>1. ReplyIsTrue(q)
          BY DEF SessionInv, WireInv
      <4>2. q.op = "PREPARE" => session'.nonce # q.b
          BY <2>4, <4>1 DEF ReplyIsTrue, Fresh
      <4> QED BY <1>1, <2>5, <2>6, <3>1, <4>1, <4>2, ReplyStays
    <3>3. \A q \in On(toPeer) \cup On(toEmos) : q.op = "OFFER" => IsOld(q)'
      <4> SUFFICES ASSUME NEW q \in On(toPeer) \cup On(toEmos), q.op = "OFFER" PROVE IsOld(q)'
          OBVIOUS
      <4>1. q \in PacketT /\ q.b \in Nat
        <5>1. toPeer \in Seq(PacketT) /\ toEmos \in Seq(PacketT)
            BY <2>2 DEF SessionTypes
        <5>2. (\A x \in On(toPeer) : x \in PacketT) /\ (\A x \in On(toEmos) : x \in PacketT)
            BY <5>1, OnTyped
        <5> QED BY <5>2 DEF PacketT
      <4>2. IsOld(q) \/ IsMine(q)
          BY <2>9 DEF SessionInv, WireInv
      <4>3. IsMine(q) => q.b = offer.b
          BY <2>2, <4>1, BlockIs DEF IsMine
      <4> QED BY <2>2, <2>3, <2>4, <4>1, <4>2, <4>3 DEF IsOld
    <3>4. GivenOnce(toEmos')
        BY <1>1 DEF SessionInv, WireInv
    <3>5. \A q \in On(toPeer') : (q.op = "COMMIT" => q.b \in used') /\ (q.op = "OFFER" => q.a \in used')
        BY <1>1 DEF SessionInv, WireInv
    <3> QED BY <3>1, <3>2, <3>3, <3>4, <3>5 DEF WireInv
  <2>14. AdmittedInv'
    <3>1. AdmittedOnce(admitted')
      <4>1. \A x \in On(admitted) : x.nonce = d.nonce => x.seq # d.seq
          BY <2>2, <2>3, <2>5, <2>7, <2>8
      <4> QED BY <2>1, <2>2, <2>5, <4>1, AdmittedAppend DEF SessionInv, AdmittedInv
    <3>2. \A x \in On(admitted') : x.nonce \in used'
        BY <1>1, <2>2, <2>5, <2>6 DEF SessionInv, AdmittedInv
    <3>3. \A x \in On(admitted') : x.nonce = session'.nonce => x.seq <= session'.seq
        BY <2>2, <2>3, <2>4, <2>5, <2>6, <2>7
    <3>4. answer'.n = answer'.nonce
        BY <1>1 DEF SessionInv, AdmittedInv
    <3> QED BY <3>1, <3>2, <3>3, <3>4 DEF AdmittedInv
  <2> QED BY <2>11, <2>12, <2>13, <2>14 DEF SessionInv, SessionAssumption
<1> QED BY <1>2, <1>3

\* A block of EMOS's session ends, on both sides or in a fence.
LEMMA BlockEndsKeeps == ASSUME SessionInv, BlockEnds PROVE SessionInv'
<1>1. /\ link = "drain" /\ waiting = "no" /\ session.phase = "ACTIVE"
      /\ UNCHANGED <<request, waiting, accepted, transaction, answer, toPeer, toEmos, offer, used, admitted>>
    BY DEF BlockEnds, SessionInv, WaitInv, buffers, wires, counts
<1>2. CASE Cancel /\ UNCHANGED p4Session
    BY <1>1, <1>2, CancelKeeps
<1>3. CASE link' = "uart" /\ p4Session' = [p4Session EXCEPT !.block = NothingTaken] /\ UNCHANGED session
  <2>1. SessionTypes /\ p4Session \in [session : SessionT, block : BlockT] /\ NothingTaken \in BlockT
      BY DEF SessionInv, SessionTypes, NothingTaken, BlockT
  <2>2. p4Session' \in [session : SessionT, block : BlockT] /\ p4Session'.session = p4Session.session /\ P4Stays
      BY <1>3, <2>1 DEF P4Stays
  <2>3. Live /\ Live' /\ Same' = Same /\ \A p : ~IsMine(p) /\ IsOld(p)' = IsOld(p)
      BY <1>1, <1>3, <2>2 DEF Live, Same, IsMine, IsOld
  <2>4. SessionTypes' /\ OwnInv' /\ WaitInv' /\ CapturedInv' /\ AdmittedInv'
      BY <1>1, <1>3, <2>1, <2>2, <2>3 DEF SessionInv, SessionTypes, OwnInv, WaitInv, CapturedInv, AdmittedInv
  <2>5. PeerInv'
      BY <1>1, <1>3, <2>2, <2>3 DEF SessionInv, PeerInv
  <2>6. \A q \in On(toEmos) : ReplyIsTrue(q)'
    <3> SUFFICES ASSUME NEW q \in On(toEmos) PROVE ReplyIsTrue(q)'
        OBVIOUS
    <3>1. ReplyIsTrue(q) /\ (q.op = "PREPARE" => session'.nonce # q.b)
        BY <1>3 DEF SessionInv, WireInv, ReplyIsTrue, Fresh
    <3> QED BY <1>1, <2>2, <3>1, ReplyStays
  <2>7. WireInv'
      BY <1>1, <2>3, <2>6 DEF SessionInv, WireInv
  <2> QED BY <2>4, <2>5, <2>7 DEF SessionInv, SessionAssumption
<1> QED BY <1>2, <1>3 DEF BlockEnds

-----------------------------------------------------------------------------
(* The P4.                                                                 *)

EmosStays == UNCHANGED <<session, request, waiting, accepted, transaction, link, answer, offer, admitted>>

\* The P4 takes a packet, and may answer: what was promised stays so, and the answer is true.
LEMMA AnswersKeep ==
    ASSUME SessionInv, SessionTypes', EmosStays, used \subseteq used', \A q \in On(toPeer') : q \in On(toPeer),
           NEW r, r \in PacketT,
           \/ toEmos' = toEmos
           \/ /\ toEmos' = Append(toEmos, r) /\ ReplyIsTrue(r)'
              /\ r.op = "PREPARE" => r.b \notin used
              /\ Live /\ r.op = "OFFER" => IsOld(r) \/ (IsMine(r) /\ OfferIsTaken'),
           \A q : ReplyIsTrue(q) => ReplyIsTrue(q)',
           Live /\ waiting = "OFFER" /\ OfferIsTaken => OfferIsTaken',
           PeerInv'
    PROVE  SessionInv'
<1> USE DEF EmosStays
<1>1. SessionTypes /\ SessionAssumption /\ toEmos \in Seq(PacketT)
    BY DEF SessionInv, SessionTypes
<1>2. Live' = Live /\ \A q : IsOld(q)' = IsOld(q) /\ IsMine(q)' = IsMine(q)
    BY DEF Live, IsOld, IsMine
<1>3. OwnInv' /\ WaitInv' /\ AdmittedInv' /\ SessionAssumption'
    BY <1>1, <1>2 DEF SessionInv, OwnInv, WaitInv, AdmittedInv, SessionAssumption
<1>4. \A q \in On(toEmos') : q \in On(toEmos) \/ (q = r /\ toEmos' = Append(toEmos, r) /\ toEmos' # toEmos)
    BY <1>1, OnAppend
<1>5. \A q \in On(toEmos) : q.op = "PREPARE" => q.b \in used
    BY DEF SessionInv, WireInv, ReplyIsTrue, Fresh
<1>6. GivenOnce(toEmos')
  <2>1. GivenOnce(toEmos)
      BY DEF SessionInv, WireInv
  <2>2. CASE toEmos' = Append(toEmos, r) /\ (r.op = "PREPARE" => r.b \notin used)
      BY <1>1, <1>5, <2>1, <2>2, GivenAppend
  <2> QED BY <2>1, <2>2
<1>7. WireInv'
  <2>1. \A q \in On(toPeer') : (q.op = "COMMIT" => q.b \in used') /\ (q.op = "OFFER" => q.a \in used')
      BY DEF SessionInv, WireInv
  <2>2. \A q \in On(toEmos') : ReplyIsTrue(q)'
      BY <1>4 DEF SessionInv, WireInv
  <2>3. Live' => \A q \in On(toPeer') : q.op = "OFFER" => IsOld(q)' \/ IsMine(q)'
      BY <1>2 DEF SessionInv, WireInv
  <2>4. Live' => \A q \in On(toEmos') : q.op = "OFFER" => IsOld(q)' \/ (IsMine(q)' /\ OfferIsTaken')
      BY <1>2, <1>4 DEF SessionInv, WireInv, IsMine
  <2> QED BY <1>6, <2>1, <2>2, <2>3, <2>4 DEF WireInv
<1>8. CapturedInv'
  <2> SUFFICES ASSUME accepted, waiting # "no"
               PROVE  /\ request.op = waiting /\ ReplyIsTrue(request)'
                      /\ waiting = "PREPARE" => \A p \in On(toEmos') : p.op = "PREPARE" => p.b # request.b
                      /\ waiting = "OFFER" => OfferIsTaken'
      BY DEF CapturedInv
  <2>1. /\ request.op = waiting /\ ReplyIsTrue(request)
        /\ waiting = "PREPARE" => \A p \in On(toEmos) : p.op = "PREPARE" => p.b # request.b
        /\ waiting = "OFFER" => OfferIsTaken
      BY DEF SessionInv, CapturedInv
  <2>2. waiting = "OFFER" => Live
      BY DEF SessionInv, WaitInv, Live
  <2>3. waiting = "PREPARE" => request.b \in used
      BY <2>1 DEF ReplyIsTrue, Fresh
  <2>4. waiting = "PREPARE" => \A p \in On(toEmos') : p.op = "PREPARE" => p.b # request.b
      BY <1>4, <2>1, <2>3
  <2> QED BY <2>1, <2>2, <2>4
<1> QED BY <1>3, <1>7, <1>8 DEF SessionInv

\* The P4 that has taken the offer is in its block.
LEMMA TakenIsBusy ==
    ASSUME SessionInv, Live, Same, waiting = "OFFER" \/ link = "drain", p4Session.block = BlockOf(offer)
    PROVE  p4Session.block # NothingTaken
<1>1. offer.a = session.nonce /\ offer \in PacketT /\ session.nonce # 0
    BY UsedAre DEF SessionInv, WaitInv, SessionTypes, OwnInv
<1> QED BY <1>1, BlockIs DEF NothingTaken

\* What the P4 receives.
Arrives(p) ==
  /\ EmosStays /\ p \in PacketT /\ p \in On(toPeer) /\ p = Head(toPeer)
  /\ toPeer' \in Seq(PacketT) /\ \A q \in On(toPeer') : q \in On(toPeer)

\* A PREPARE: a nonce that nobody has used.
LEMMA PrepareKeeps ==
    ASSUME SessionInv, NEW p, Arrives(p), p.op = "PREPARE", NEW nonce \in Nonces \ used,
           used' = used \cup {nonce},
           p4Session' = [block |-> NothingTaken, session |-> [parallel_session_invalidate(p4Session.session)
                            EXCEPT !.phase = "STAGED", !.trans = p.a, !.nonce = nonce]],
           Replies([p EXCEPT !.reply = TRUE, !.b = nonce])
    PROVE  SessionInv'
<1> DEFINE s == parallel_session_invalidate(p4Session.session)
           t == [s EXCEPT !.phase = "STAGED"]
           u == [t EXCEPT !.trans = p.a]
           v == [u EXCEPT !.nonce = nonce]
           q == [p EXCEPT !.reply = TRUE]
           r == [q EXCEPT !.b = nonce]
<1>1. /\ SessionAssumption /\ SessionTypes /\ p4Session.session \in SessionT /\ p \in PacketT /\ p.a \in Nat
      /\ nonce \in Nat /\ nonce # 0 /\ nonce \in Nonces /\ session.nonce \in used \cup {0}
      /\ NothingTaken \in BlockT /\ toEmos \in Seq(PacketT)
    BY DEF SessionInv, SessionTypes, SessionAssumption, Arrives, PacketT, OwnInv, NothingTaken, BlockT
<1>2. s \in SessionT /\ s.seq = 0
    BY <1>1, Invalidated
<1>3. p4Session' = [block |-> NothingTaken, session |-> [s EXCEPT !.phase = "STAGED", !.trans = p.a, !.nonce = nonce]]
    OBVIOUS
<1> HIDE DEF s
<1>4. p4Session'.block = NothingTaken /\ p4Session'.session = v /\ p4Session' = [block |-> NothingTaken, session |-> v]
    BY <1>2, <1>3 DEF SessionT
<1>5. t \in SessionT /\ t.seq = s.seq
  <2>1. "STAGED" \in Phases
      BY DEF Phases
  <2> QED BY <1>2, <2>1, SessionEdits, ZenonT(60)
<1> HIDE DEF t
<1>6. u \in SessionT /\ u.seq = t.seq
    BY <1>1, <1>5, SessionEdits, ZenonT(60)
<1> HIDE DEF u
<1>7. v \in SessionT /\ v.seq = u.seq /\ v.nonce = nonce
    BY <1>1, <1>6, SessionEdits, ZenonT(60)
<1> HIDE DEF v
<1>8. q \in PacketT /\ q.op = p.op
    BY <1>1, PacketEdits
<1>9. Replies(r)
    BY <1>1 DEF PacketT
<1> HIDE DEF q
<1>10. r \in PacketT /\ r.op = q.op /\ r.b = nonce
    BY <1>1, <1>8, PacketEdits, ZenonT(60)
<1> HIDE DEF r
<1>11. toEmos' = toEmos \/ toEmos' = Append(toEmos, r)
    BY <1>9 DEF Replies
<1>12. \A x : x \in On(toEmos') => x \in On(toEmos) \/ x = r
    BY <1>1, <1>10, <1>11, OnAppend
<1>13. p4Session'.session.nonce = nonce /\ p4Session'.session.seq = 0 /\ p4Session'.block = NothingTaken
    BY <1>2, <1>4, <1>5, <1>6, <1>7
<1>14. SessionTypes'
  <2>1. toEmos' \in Seq(PacketT)
      BY <1>1, <1>10, <1>11, OnAppend
  <2>2. p4Session' \in [session : SessionT, block : BlockT]
      BY <1>1, <1>4, <1>7
  <2> QED BY <1>1, <2>1, <2>2 DEF SessionTypes, Arrives, EmosStays
<1>15. ~Same'
    BY <1>1, <1>13 DEF Same, Arrives, EmosStays
<1>16. PeerInv'
    BY <1>15 DEF Arrives, EmosStays, SessionInv, PeerInv, OfferIsTaken
<1>17. \A x : ReplyIsTrue(x) => ReplyIsTrue(x)'
  <2> SUFFICES ASSUME NEW x, ReplyIsTrue(x) PROVE ReplyIsTrue(x)'
      OBVIOUS
  <2>1. x.op = "COMMIT" => CommitIsTrue(x)'
      BY <1>13 DEF ReplyIsTrue, CommitIsTrue
  <2>2. ASSUME x.op = "PREPARE" PROVE Fresh(x.b)'
    <3>1. Fresh(x.b) /\ x.b # nonce
        BY <2>2 DEF ReplyIsTrue, Fresh
    <3>2. \A y \in On(toPeer') \cup On(toEmos') : y.op = "OFFER" => y.a # x.b
        BY <1>8, <1>10, <1>12, <3>1 DEF Fresh, Arrives
    <3> QED BY <1>13, <3>1, <3>2 DEF Fresh, Arrives, EmosStays
  <2> QED BY <2>1, <2>2 DEF ReplyIsTrue
<1>18. ReplyIsTrue(r)'
  <2>1. \A y \in On(toPeer') \cup On(toEmos') : y.op = "OFFER" => y.a # nonce
      BY <1>8, <1>10, <1>12 DEF SessionInv, WireInv, ReplyIsTrue, Arrives
  <2>2. \A d \in On(admitted) : d.nonce # nonce
      BY DEF SessionInv, AdmittedInv
  <2>3. Fresh(nonce)'
      BY <1>1, <1>13, <2>1, <2>2 DEF Fresh, Arrives, EmosStays
  <2> QED BY <1>8, <1>10, <2>3 DEF ReplyIsTrue
<1>19. OfferIsTaken'
    BY <1>15 DEF OfferIsTaken
<1>20. EmosStays /\ used \subseteq used' /\ \A x \in On(toPeer') : x \in On(toPeer)
    BY DEF Arrives
<1> QED BY <1>8, <1>10, <1>11, <1>14, <1>16, <1>17, <1>18, <1>19, <1>20, AnswersKeep

\* Nothing happens, or a poll is answered: the P4 stays as it is.
LEMMA PeerStaysKeeps ==
    ASSUME SessionInv, NEW p, Arrives(p), UNCHANGED <<p4Session, used>>, NEW r, r \in PacketT,
           toEmos' = toEmos \/ (toEmos' = Append(toEmos, r) /\ r.op = "POLL" /\ r.n = r.a)
    PROVE  SessionInv'
<1>1. EmosStays /\ used \subseteq used' /\ \A x \in On(toPeer') : x \in On(toPeer)
    BY DEF Arrives
<1>2. toEmos \in Seq(PacketT)
    BY DEF SessionInv, SessionTypes
<1>3. toEmos' \in Seq(PacketT) /\ \A x : x \in On(toEmos') => x \in On(toEmos) \/ x.op = "POLL"
    BY <1>2, OnAppend
<1>4. SessionTypes'
    BY <1>1, <1>3 DEF SessionInv, SessionTypes, Arrives, EmosStays
<1>5. Live' = Live /\ Same' = Same /\ OfferIsTaken' = OfferIsTaken
    BY <1>1 DEF Live, Same, OfferIsTaken, EmosStays
<1>6. PeerInv'
    BY <1>1, <1>5 DEF SessionInv, PeerInv, EmosStays
<1>7. \A x : ReplyIsTrue(x) => ReplyIsTrue(x)'
    BY <1>1, <1>3 DEF ReplyIsTrue, Fresh, CommitIsTrue, EmosStays
<1>8. r.op = "POLL" /\ r.n = r.a => ReplyIsTrue(r)'
    BY DEF ReplyIsTrue
<1> QED BY <1>1, <1>4, <1>5, <1>6, <1>7, <1>8, AnswersKeep

\* A COMMIT of what is staged.
LEMMA CommitKeeps ==
    ASSUME SessionInv, NEW p, Arrives(p), p.op = "COMMIT", used' = used,
           p4Session.session.phase = "STAGED", p.a = p4Session.session.trans, p.b = p4Session.session.nonce,
           p4Session' = [p4Session EXCEPT !.session.phase = "ACTIVE"], Replies([p EXCEPT !.reply = TRUE])
    PROVE  SessionInv'
<1> DEFINE t == [p4Session.session EXCEPT !.phase = "ACTIVE"]
           r == [p EXCEPT !.reply = TRUE]
<1>1. /\ SessionTypes /\ p4Session \in [session : SessionT, block : BlockT] /\ p4Session.session \in SessionT
      /\ p \in PacketT /\ toEmos \in Seq(PacketT) /\ "ACTIVE" \in Phases
    BY DEF SessionInv, SessionTypes, Arrives, Phases
<1>2. p4Session' = [p4Session EXCEPT !.session = t]
    BY <1>1
<1>3. /\ t \in SessionT /\ t.phase = "ACTIVE" /\ t.trans = p4Session.session.trans /\ t.nonce = p4Session.session.nonce
      /\ t.seq = p4Session.session.seq
    BY <1>1, SessionEdits, ZenonT(60)
<1> HIDE DEF t
<1>4. p4Session' \in [session : SessionT, block : BlockT] /\ p4Session'.session = t /\ p4Session'.block = p4Session.block
    BY <1>1, <1>2, <1>3
<1>5. r \in PacketT /\ r.op = "COMMIT" /\ r.a = p.a /\ r.b = p.b
    BY <1>1, PacketEdits
<1>6. toEmos' = toEmos \/ toEmos' = Append(toEmos, r)
    BY DEF Replies
<1> HIDE DEF r
<1>7. toEmos' \in Seq(PacketT) /\ \A x : x \in On(toEmos') => x \in On(toEmos) \/ x.op = "COMMIT"
  <2>1. CASE toEmos' = Append(toEmos, r)
    <3>1. toEmos' \in Seq(PacketT) /\ \A x : x \in On(toEmos') => x \in On(toEmos) \/ x = r
        BY <1>1, <1>5, <2>1, OnAppend
    <3> QED BY <1>5, <3>1
  <2> QED BY <1>1, <1>6, <2>1
<1>8. EmosStays /\ used \subseteq used' /\ \A x \in On(toPeer') : x \in On(toPeer)
    BY DEF Arrives
<1>9. SessionTypes'
    BY <1>1, <1>4, <1>7 DEF SessionTypes, Arrives, EmosStays
<1>10. Live' = Live /\ Same' = Same /\ OfferIsTaken' = OfferIsTaken
    BY <1>3, <1>4, <1>8 DEF Live, Same, OfferIsTaken, EmosStays
<1>11. PeerInv'
    BY <1>3, <1>4, <1>8, <1>10 DEF SessionInv, PeerInv, EmosStays
<1>12. \A x : ReplyIsTrue(x) => ReplyIsTrue(x)'
  <2> SUFFICES ASSUME NEW x, ReplyIsTrue(x) PROVE ReplyIsTrue(x)'
      OBVIOUS
  <2>1. x.op = "COMMIT" => CommitIsTrue(x)'
      BY <1>3, <1>4 DEF ReplyIsTrue, CommitIsTrue
  <2>2. x.op = "PREPARE" => Fresh(x.b)'
      BY <1>3, <1>4, <1>7, <1>8 DEF ReplyIsTrue, Fresh, EmosStays
  <2> QED BY <2>1, <2>2 DEF ReplyIsTrue
<1>13. ReplyIsTrue(r)'
  <2>1. p.b \in used
      BY DEF SessionInv, WireInv, Arrives
  <2> QED BY <1>3, <1>4, <1>5, <2>1 DEF ReplyIsTrue, CommitIsTrue
<1> QED BY <1>5, <1>6, <1>8, <1>9, <1>10, <1>11, <1>12, <1>13, AnswersKeep

\* An offer of the next block, while the P4 is in none: EMOS waits for this one, if the session is its own.
LEMMA TakeKeeps ==
    ASSUME SessionInv, NEW p, Arrives(p), p.op = "OFFER", used' = used,
           p4Session.session.phase = "ACTIVE", p4Session.block = NothingTaken, parallel_offer_valid(p4Session.session, p),
           p4Session' = [p4Session EXCEPT !.session.seq = p.b, !.block = BlockOf(p)],
           Replies([p EXCEPT !.reply = TRUE])
    PROVE  SessionInv'
<1> DEFINE t == [p4Session.session EXCEPT !.seq = p.b]
           r == [p EXCEPT !.reply = TRUE]
<1>1. /\ SessionAssumption /\ SessionTypes /\ p4Session \in [session : SessionT, block : BlockT]
      /\ p4Session.session \in SessionT /\ p \in PacketT /\ toEmos \in Seq(PacketT) /\ BlockOf(p) \in BlockT
    BY BlockIs DEF SessionInv, SessionTypes, Arrives
<1>2. p.a = p4Session.session.nonce /\ p.b = p4Session.session.seq + 1 /\ p.b \in 0 .. SeqMod - 1
    BY <1>1, OfferIsNext, Zenon
<1>3. /\ t \in SessionT /\ t.phase = p4Session.session.phase /\ t.trans = p4Session.session.trans
      /\ t.nonce = p4Session.session.nonce /\ t.seq = p.b
    BY <1>1, <1>2, SessionEdits, ZenonT(60)
<1>4. p4Session' = [session |-> t, block |-> BlockOf(p)]
    BY <1>1
<1> HIDE DEF t
<1>5. p4Session' \in [session : SessionT, block : BlockT] /\ p4Session'.session = t /\ p4Session'.block = BlockOf(p)
  <2>1. \A x \in SessionT, y \in BlockT : [session |-> x, block |-> y] \in [session : SessionT, block : BlockT]
      OBVIOUS
  <2>2. t \in SessionT /\ BlockOf(p) \in BlockT
      BY <1>1, <1>3
  <2>3. p4Session' \in [session : SessionT, block : BlockT]
      BY <1>4, <2>1, <2>2, Zenon
  <2>4. \A x, y : [session |-> x, block |-> y].session = x /\ [session |-> x, block |-> y].block = y
      OBVIOUS
  <2>5. p4Session'.session = t /\ p4Session'.block = BlockOf(p)
      BY <1>4, <2>4, Zenon
  <2> QED BY <2>3, <2>5
<1>6. r \in PacketT /\ r.op = "OFFER" /\ r.a = p.a /\ r.b = p.b /\ r.n = p.n
    BY <1>1, PacketEdits
<1>7. toEmos' = toEmos \/ toEmos' = Append(toEmos, r)
    BY DEF Replies
<1> HIDE DEF r
<1>8. toEmos' \in Seq(PacketT) /\ \A x : x \in On(toEmos') => x \in On(toEmos) \/ x = r
  <2>1. CASE toEmos' = Append(toEmos, r)
      BY <1>1, <1>6, <2>1, OnAppend
  <2> QED BY <1>1, <1>7, <2>1
<1>9. EmosStays /\ used \subseteq used' /\ \A x \in On(toPeer') : x \in On(toPeer)
    BY DEF Arrives
<1>10. SessionTypes'
    BY <1>1, <1>5, <1>8 DEF SessionTypes, Arrives, EmosStays
<1>11. Live' = Live /\ Same' = Same
    BY <1>3, <1>5, <1>9 DEF Live, Same, EmosStays
<1>12. ASSUME Live, Same PROVE IsMine(p) /\ OfferIsTaken'
  <2>1. ~(waiting = "OFFER" /\ OfferIsTaken) /\ p4Session.session.seq = session.seq
      BY <1>12, TakenIsBusy DEF SessionInv, PeerInv, OfferIsTaken
  <2>2. session.seq \in Nat
      BY DEF SessionInv, SessionTypes, SessionT, SessionAssumption
  <2>3. ~IsOld(p)
      BY <1>2, <1>12, <2>1, <2>2 DEF IsOld, Same
  <2>4. IsMine(p)
      BY <1>12, <2>3 DEF SessionInv, WireInv, Arrives
  <2>5. offer \in PacketT /\ BlockOf(p) = BlockOf(offer)
      BY <2>4 DEF IsMine, SessionInv, SessionTypes
  <2>6. offer.b = p.b
      BY <1>1, <2>5, BlockIs
  <2> QED BY <1>3, <1>5, <1>9, <2>4, <2>5, <2>6 DEF OfferIsTaken, EmosStays
<1>13. Live /\ waiting = "OFFER" /\ OfferIsTaken => OfferIsTaken'
    BY <1>11, <1>12 DEF OfferIsTaken
<1>14. Live => IsOld(r) \/ (IsMine(r) /\ OfferIsTaken')
  <2>1. IsMine(p) => IsMine(r)
      BY <1>6 DEF IsMine, BlockOf
  <2>2. ~Same => IsOld(r)
      BY <1>2, <1>6 DEF IsOld, Same
  <2> QED BY <1>12, <2>1, <2>2
<1>15. PeerInv'
  <2>1. session.phase = "ACTIVE" /\ Same => p4Session'.session.phase = "ACTIVE" /\ p4Session'.session.trans = session.trans
      BY <1>3, <1>5 DEF SessionInv, PeerInv
  <2>2. Live /\ Same => waiting = "OFFER" /\ OfferIsTaken'
      BY <1>12 DEF IsMine
  <2> QED BY <1>9, <1>11, <2>1, <2>2 DEF PeerInv, EmosStays
<1>16. \A x : ReplyIsTrue(x) => ReplyIsTrue(x)'
  <2> SUFFICES ASSUME NEW x, ReplyIsTrue(x) PROVE ReplyIsTrue(x)'
      OBVIOUS
  <2>1. x.op = "COMMIT" => CommitIsTrue(x)'
      BY <1>3, <1>5 DEF ReplyIsTrue, CommitIsTrue
  <2>2. ASSUME x.op = "PREPARE" PROVE Fresh(x.b)'
    <3>1. Fresh(x.b) /\ p.a # x.b
        BY <2>2 DEF ReplyIsTrue, Fresh, Arrives
    <3>2. p4Session'.session.nonce # x.b
        BY <1>2, <1>3, <1>5, <3>1
    <3>3. \A y \in On(toPeer') \cup On(toEmos') : y.op = "OFFER" => y.a # x.b
        BY <1>6, <1>8, <1>9, <3>1 DEF Fresh
    <3> QED BY <1>9, <3>1, <3>2, <3>3 DEF Fresh, EmosStays
  <2> QED BY <2>1, <2>2 DEF ReplyIsTrue
<1>17. ReplyIsTrue(r)'
  <2>1. p.a \in used
      BY DEF SessionInv, WireInv, Arrives
  <2> QED BY <1>6, <2>1 DEF ReplyIsTrue
<1> QED BY <1>6, <1>7, <1>9, <1>10, <1>13, <1>14, <1>15, <1>16, <1>17, AnswersKeep

\* The P4 receives a packet.
LEMMA PeerReceivesKeeps == ASSUME SessionInv, PeerReceives PROVE SessionInv'
<1> DEFINE p == Head(toPeer)
<1>1. /\ toPeer \in Seq(PacketT) /\ toPeer # << >> /\ toPeer' = Tail(toPeer)
      /\ EmosStays /\ (parallel_session_peer(p) \/ PeerBlock(p)) /\ p4Session.session.nonce \in Nat
    BY DEF SessionInv, SessionTypes, PeerReceives, EmosStays, buffers, SessionT
<1>2. Arrives(p)
    BY <1>1, OnTail DEF Arrives
<1> HIDE DEF p
<1>3. p \in PacketT
    BY <1>2 DEF Arrives
<1>4. CASE UNCHANGED <<p4Session, toEmos, used>>
    BY <1>2, <1>3, <1>4, PeerStaysKeeps
<1>5. CASE parallel_session_peer(p) /\ p.op = "PREPARE"
  <2>1. PICK nonce \in Nonces \ used :
          /\ nonce # p4Session.session.nonce /\ used' = used \cup {nonce}
          /\ p4Session' = [block |-> NothingTaken, session |-> [parallel_session_invalidate(p4Session.session)
                             EXCEPT !.phase = "STAGED", !.trans = p.a, !.nonce = nonce]]
          /\ Replies([p EXCEPT !.reply = TRUE, !.b = nonce])
      BY <1>5 DEF parallel_session_peer
  <2> QED BY <1>2, <1>5, <2>1, PrepareKeeps
<1>6. CASE parallel_session_peer(p) /\ p.op = "COMMIT"
    BY <1>2, <1>4, <1>6, CommitKeeps DEF parallel_session_peer
<1>7. CASE PeerBlock(p) /\ p.op = "OFFER"
    BY <1>2, <1>4, <1>7, TakeKeeps DEF PeerBlock
<1>8. CASE PeerBlock(p) /\ p.op = "POLL"
  <2> DEFINE q == [p EXCEPT !.reply = TRUE]
             r == [q EXCEPT !.n = p4Session.session.nonce]
  <2>1. CASE p.a = p4Session.session.nonce /\ UNCHANGED <<p4Session, used>> /\ Replies([p EXCEPT !.reply = TRUE, !.n = p4Session.session.nonce])
    <3>1. q \in PacketT /\ q.op = "POLL" /\ q.a = p.a
        BY <1>3, <1>8, PacketEdits
    <3>2. Replies(r)
        BY <1>3, <2>1 DEF PacketT
    <3> HIDE DEF q
    <3>3. r \in PacketT /\ r.op = q.op /\ r.a = q.a /\ r.n = p4Session.session.nonce
        BY <1>1, <3>1, PacketEdits, Zenon
    <3> HIDE DEF r
    <3>4. toEmos' = toEmos \/ toEmos' = Append(toEmos, r)
        BY <3>2 DEF Replies
    <3> QED BY <1>2, <2>1, <3>1, <3>3, <3>4, PeerStaysKeeps
  <2> QED BY <1>4, <1>8, <2>1 DEF PeerBlock
<1> QED BY <1>1, <1>5, <1>6, <1>7, <1>8 DEF parallel_session_peer, PeerBlock

\* A reset of the P4 loses what is on its wire.
LEMMA PeerResetsKeeps == ASSUME SessionInv, PeerResets PROVE SessionInv'
<1>1. /\ p4Session' = [session |-> NoSession, block |-> NothingTaken] /\ toPeer' = << >>
      /\ UNCHANGED <<session, request, waiting, accepted, transaction, link, answer, toEmos, offer, used, admitted>>
    BY DEF PeerResets, buffers
<1>2. SessionTypes /\ SessionAssumption /\ 0 \notin used /\ On(toPeer') = {}
    BY <1>1, UsedAre, OnEmpty DEF SessionInv
<1>3. /\ p4Session'.session.nonce = 0 /\ p4Session'.session.seq = 0 /\ p4Session'.block = NothingTaken
      /\ p4Session' \in [session : SessionT, block : BlockT]
    BY <1>1, <1>2, ZeroSeq DEF NoSession, SessionT, NothingTaken, BlockT
<1>4. SessionTypes'
  <2>1. toPeer' \in Seq(PacketT)
      BY <1>1, EmptySeq
  <2> QED BY <1>1, <1>2, <1>3, <2>1 DEF SessionTypes
<1>5. Live' = Live /\ (Live => ~Same') /\ OfferIsTaken' = (Same' => p4Session'.block = BlockOf(offer) /\ p4Session'.session.seq = offer.b)
    BY <1>1, <1>2, <1>3 DEF Live, Same, OfferIsTaken, SessionInv, OwnInv
<1>6. EmosStays /\ used \subseteq used' /\ \A x \in On(toPeer') : x \in On(toPeer)
    BY <1>1, <1>2 DEF EmosStays
<1>7. \A x : ReplyIsTrue(x) => ReplyIsTrue(x)'
    BY <1>1, <1>2, <1>3 DEF ReplyIsTrue, Fresh, CommitIsTrue
<1>8. PeerInv'
    BY <1>1, <1>5 DEF PeerInv, Live
<1>9. NoPacket \in PacketT
    BY DEF NoPacket, Packet, PacketT, Ops
<1> QED BY <1>1, <1>4, <1>5, <1>6, <1>7, <1>8, <1>9, AnswersKeep

\* A step that changes nothing.
LEMMA SessionStutters == ASSUME SessionInv, UNCHANGED sessionVars PROVE SessionInv'
<1>1. UNCHANGED <<session, request, waiting, accepted, transaction, link, answer, p4Session, toPeer, toEmos, offer, used, admitted>>
    BY DEF sessionVars, buffers, wires, counts
<1>2. SessionTypes'
    BY <1>1 DEF SessionInv, SessionTypes
<1> QED BY <1>1, <1>2, SameKeeps

\* Neither side has a session at first.
LEMMA SessionInvInit == ASSUME SessionAssumption, SessionInit PROVE SessionInv
<1> USE DEF SessionInit
<1>1. NoSession \in SessionT /\ NoPacket \in PacketT /\ NothingTaken \in BlockT
    BY ZeroSeq DEF NoSession, SessionT, NoPacket, Packet, PacketT, Ops, NothingTaken, BlockT
<1>2. transaction \in Nat
    BY DEF SessionAssumption
<1>3. toPeer \in Seq(PacketT) /\ toEmos \in Seq(PacketT) /\ admitted \in Seq(BlockT)
    BY EmptySeq
<1>4. SessionTypes
    BY <1>1, <1>2, <1>3 DEF SessionTypes
<1>5. On(toPeer) = {} /\ On(toEmos) = {} /\ On(admitted) = {} /\ Len(toEmos) = 0 /\ Len(admitted) = 0
    BY OnEmpty, EmptySeq
<1>6. OwnInv /\ WaitInv /\ CapturedInv /\ PeerInv
    BY DEF OwnInv, WaitInv, CapturedInv, PeerInv, Live, NoSession
<1>7. WireInv /\ AdmittedInv
    BY <1>5 DEF WireInv, AdmittedInv, GivenOnce, AdmittedOnce
<1> QED BY <1>4, <1>6, <1>7 DEF SessionInv

\* Every step keeps the invariant.
LEMMA SessionInvNext == SessionInv /\ [SessionNext]_sessionVars => SessionInv'
BY NegotiateKeeps, PacketKeeps, PreparedKeeps, CommittedKeeps, WaitReplyKeeps, OfferKeeps, AdmitKeeps, BlockEndsKeeps,
   PollKeeps, PolledKeeps, PeerReceivesKeeps, EmosResetsKeeps, PeerResetsKeeps, SessionStutters DEF SessionNext

\* The invariant of the sessions, whatever is lost, late or reset: emos_parallel_session.h
\* on both sides and its callers.
THEOREM SessionInvariant == SessionSpec => []SessionInv
<1>1. SessionInit => SessionInv
    BY SessionAssumption, SessionInvInit
<1> QED BY <1>1, SessionInvNext, PTL DEF SessionSpec

\* An active session is the P4's, a block is admitted by both and once, a poll is answered
\* for its own session (parallel_session_accept, emos_console_packet).
THEOREM SessionsAlwaysAgree == SessionSpec => []SessionsAgree
<1>1. SessionSpec => []SessionInv
    BY SessionInvariant
<1>2. SessionInv => SessionsAgree
  <2> SUFFICES ASSUME SessionInv PROVE SessionsAgree
      OBVIOUS
  <2>1. session.phase = "ACTIVE" /\ Same => p4Session.session.phase = "ACTIVE" /\ p4Session.session.trans = session.trans
      BY DEF SessionInv, PeerInv
  <2>2. session.phase = "ACTIVE" => session.nonce \in used
      BY DEF SessionInv, OwnInv, Live
  <2>3. link = "drain" /\ Same => p4Session.block = BlockOf(offer) /\ p4Session.session.seq = session.seq
      BY DEF SessionInv, PeerInv, WaitInv, Live
  <2>4. \A i, j \in DOMAIN admitted : admitted[i].nonce = admitted[j].nonce /\ admitted[i].seq = admitted[j].seq => i = j
    <3>1. DOMAIN admitted = 1 .. Len(admitted)
        BY LenProperties DEF SessionInv, SessionTypes
    <3> QED BY <3>1 DEF SessionInv, AdmittedInv, AdmittedOnce
  <2>5. answer.n = answer.nonce
      BY DEF SessionInv, AdmittedInv
  <2> QED BY <2>1, <2>2, <2>3, <2>4, <2>5 DEF SessionsAgree
<1> QED BY <1>1, <1>2, PTL

(***************************************************************************)
(* The hand-over of Port C.                                                *)
(***************************************************************************)
HandoverPhases == DOMAIN Table \cup {"UART"}
HandoverT == [phase : HandoverPhases, v : {0, 1}, c : {0, 1}, failed : BOOLEAN]
LevelT == [c : {0, 1}, v : {0, 1}]
HandoverTypes ==
    /\ h \in HandoverT /\ wire \in LevelT
    /\ grant \in 0 .. 2 /\ owned \in 0 .. 2
    /\ block \in BOOLEAN /\ fencing \in BOOLEAN /\ reserved \in BOOLEAN /\ faulted \in BOOLEAN
    /\ ready \in BOOLEAN /\ clean \in BOOLEAN /\ troubled \in BOOLEAN /\ spoiled \in BOOLEAN
    /\ pads \in {"input", "uart", "drive"} /\ peerPads \in {"input", "uart", "drive"}
    /\ fg \in {"reset", "c_high", "c_low", "c_poll", "c_live", "c_fail", "idle", "offer",
               "begin", "co", "run", "failed", "release"}
    /\ peer \in {"booting", "fenced", "recovered", "returned", "request", "live", "entry",
                 "clear", "block", "aborted"}

\* The phases in which each place of the foreground can find the hand-over.
Returning == {"RETURN_RELEASE", "RETURN_ACK", "RETURN_REQUEST", "RETURN_UART", "RETURN_PEER"}
Entering == {"DRAIN", "ENTRY_RELEASE", "ENTRY_ACK", "ENTRY_CLEAR", "ENTRY_ARM", "LOCAL_ARM"}
PhaseInv ==
    /\ fg \in {"reset", "c_high", "c_low"} => h.phase = "RETURN_RELEASE"
    /\ fg \in {"c_poll", "c_fail"} => h.phase \in Returning
    /\ fg \in {"c_live", "idle", "offer", "release"} => h.phase \in {"UART", "RETURN_RELEASE"}
    /\ fg = "begin" => h.phase \in {"DRAIN", "RETURN_RELEASE"}
    /\ fg = "co" => h.phase \in (Entering \cup {"BLOCK", "BLOCK_RELEASE"} \cup Returning) \ {"RETURN_RELEASE"}
    /\ fg \in {"run", "failed"} => h.phase = "BLOCK"

\* The grant, the block and the pads belong to certain phases and places.
OwnerInv ==
    /\ h.phase = "RETURN_RELEASE" => grant = 0 /\ pads = "input" /\ (owned # 0 => fg = "idle")
    /\ grant = 1 => fg \in {"c_poll", "c_fail"}
    /\ fg = "c_poll" => /\ ~fencing
                        /\ IF h.phase \in {"RETURN_UART", "RETURN_PEER"} THEN grant = 1 ELSE owned = 0
    /\ block <=> fg \in {"co", "run", "failed"}
    /\ fencing => h.phase = "RETURN_RELEASE"
    /\ pads = "uart" => owned = 1 /\ h.phase \in {"UART", "DRAIN", "RETURN_UART", "RETURN_PEER"}
    /\ pads = "drive" => fg = "run" /\ dir = "forward"
    /\ spoiled => fg = "idle" /\ h.phase = "RETURN_RELEASE"

\* The levels that are on the lines.
LinesInv ==
    /\ h.phase \in {"UART", "DRAIN", "ENTRY_RELEASE", "ENTRY_CLEAR", "RETURN_ACK", "RETURN_PEER"} => wire = Level(0, 1)
    /\ h.phase \in {"ENTRY_ACK", "RETURN_REQUEST", "RETURN_UART"} => wire = Level(0, 0)
    /\ h.phase \in {"ENTRY_ARM", "LOCAL_ARM", "BLOCK_RELEASE"} => wire = Level(1, 1)
    /\ h.phase = "BLOCK" => wire.c = 1
    /\ fg = "c_poll" /\ h.phase = "RETURN_RELEASE" => wire = Level(0, 1)
    /\ fg = "c_low" => wire = Level(1, 1) /\ ~fencing

\* The P4 by itself: the level and the pads of its phases.
PeerForm ==
    /\ peer \in {"returned", "live", "clear", "aborted"} => ready
    /\ peer \in {"booting", "recovered", "request", "entry", "block"} => ~ready
    /\ peerPads = "uart" <=> peer = "live"
    /\ peerPads = "drive" => peer = "block"

\* Where the P4 can be in each phase, whatever it has missed: it goes on only where
\* the levels lead it, and a reset of it shows as a level that never comes.
Fenced == peer = "fenced" /\ ~ready
PeerPlace ==
    /\ h.phase \in {"UART", "DRAIN", "ENTRY_RELEASE"} => peer \in {"booting", "live"} \/ Fenced
    /\ h.phase = "ENTRY_ACK" => peer \in {"booting", "live", "entry"} \/ Fenced
    /\ h.phase = "ENTRY_CLEAR" => peer \in {"booting", "entry", "clear"} \/ Fenced
    /\ h.phase = "ENTRY_ARM" => peer \in {"booting", "clear", "block", "aborted"}
    /\ h.phase \in {"LOCAL_ARM", "BLOCK", "BLOCK_RELEASE"} => peer \in {"booting", "block", "aborted"}
    /\ h.phase = "RETURN_ACK" \/ (fg = "c_poll" /\ h.phase = "RETURN_RELEASE") =>
         peer \in {"booting", "block", "aborted", "fenced", "recovered", "returned"}
    /\ h.phase = "RETURN_REQUEST" => peer \in {"booting", "aborted", "fenced", "request", "returned"}
    /\ h.phase = "RETURN_UART" => peer \in {"booting", "request"} \/ Fenced
    /\ h.phase = "RETURN_PEER" => peer \in {"booting", "request", "live"} \/ Fenced
    /\ fg = "c_low" => peer \notin {"entry", "request"}
    /\ fg \in {"offer", "begin", "co", "run"} /\ h.phase # "RETURN_RELEASE" /\ peerPads = "drive" => dir = "reverse"

\* A run that missed a part of the P4's block leaves a P4 that will not come back
\* within this block.
CleanInv ==
    /\ fg = "run" /\ ~clean => peer \in {"booting", "aborted"}
    /\ fg = "co" /\ h.phase \in {"BLOCK_RELEASE"} \cup Returning /\ ~clean => peer \in {"booting", "aborted", "fenced"}
    /\ fg = "release" /\ h.phase = "UART" => clean

HandoverInv ==
    HandoverTypes /\ PhaseInv /\ OwnerInv /\ LinesInv /\ PeerForm /\ PeerPlace /\ CleanInv

\* The rows of the table that a step takes.
LEMMA Rows ==
    /\ DOMAIN Table = Entering \cup {"BLOCK", "BLOCK_RELEASE"} \cup Returning
    /\ Table["DRAIN"] = Row("QUIET", "ENTRY_RELEASE", 0, 1)
    /\ Table["ENTRY_RELEASE"] = Row("RELEASED", "ENTRY_ACK", 0, 0)
    /\ Table["ENTRY_ACK"] = Row("LOW", "ENTRY_CLEAR", 0, 1)
    /\ Table["ENTRY_CLEAR"] = Row("HIGH", "ENTRY_ARM", 1, 1)
    /\ Table["ENTRY_ARM"] = Row("LOW", "LOCAL_ARM", 1, 1)
    /\ Table["LOCAL_ARM"] = Row("ARMED", "BLOCK", 1, 1)
    /\ Table["BLOCK"] = Row("DONE", "BLOCK_RELEASE", 1, 1)
    /\ Table["BLOCK_RELEASE"] = Row("RELEASED", "RETURN_ACK", 0, 1)
    /\ Table["RETURN_RELEASE"] = Row("RELEASED", "RETURN_ACK", 0, 1)
    /\ Table["RETURN_ACK"] = Row("HIGH", "RETURN_REQUEST", 0, 0)
    /\ Table["RETURN_REQUEST"] = Row("LOW", "RETURN_UART", 0, 0)
    /\ Table["RETURN_UART"] = Row("UART_UP", "RETURN_PEER", 0, 1)
    /\ Table["RETURN_PEER"] = Row("HIGH", "UART", 0, 1)
BY DEF Table, Entering, Returning

\* A step by one row.
Goes(done, need, next, c, v) ==
    /\ need \in done \/ (need = "HIGH" /\ ready) \/ (need = "LOW" /\ ~ready)
    /\ h' = [phase |-> next, v |-> v, c |-> c, failed |-> h.failed] /\ wire' = Level(c, v)
\* A step of the machine is a step by the row of its phase.
LEMMA StepGoes ==
    ASSUME h \in HandoverT, NEW done, HandoverStep(done), NEW need, NEW next, NEW c, NEW v, Table[h.phase] = Row(need, next, c, v)
    PROVE  Goes(done, need, next, c, v)
<1>1. need \in done \cup {IF ready THEN "HIGH" ELSE "LOW"} /\ h' = [h EXCEPT !.phase = next, !.c = c, !.v = v] /\ wire' = Level(c, v)
    BY DEF HandoverStep, Row
<1>2. h' = [phase |-> next, v |-> v, c |-> c, failed |-> h.failed]
    BY <1>1 DEF HandoverT
<1> QED BY <1>1, <1>2 DEF Goes

\* A level, and the edits of the phase machine.
LEMMA LevelIs ==
    \A c, v \in {0, 1} : Level(c, v) \in LevelT /\ Level(c, v).c = c /\ Level(c, v).v = v
BY DEF Level, LevelT
\* What the edits of the phase machine leave.
LEMMA HandoverEdits ==
    /\ Released \in HandoverT /\ Released.phase = "RETURN_RELEASE"
    /\ h \in HandoverT =>
         /\ h.phase \in HandoverPhases
         /\ [h EXCEPT !.phase = "DRAIN", !.failed = FALSE] \in HandoverT
         /\ [h EXCEPT !.failed = TRUE] \in HandoverT
         /\ [h EXCEPT !.phase = "DRAIN", !.failed = FALSE].phase = "DRAIN"
         /\ [h EXCEPT !.failed = TRUE].phase = h.phase
<1>1. "DRAIN" \in HandoverPhases /\ "RETURN_RELEASE" \in HandoverPhases
    BY Rows DEF HandoverPhases, Entering, Returning
<1> QED BY <1>1 DEF Released, HandoverT

\* What a step by a row leaves.
LEMMA StepForm ==
    ASSUME h \in HandoverT, NEW done, NEW need, NEW next \in HandoverPhases, NEW c \in {0, 1}, NEW v \in {0, 1},
           Goes(done, need, next, c, v)
    PROVE  h' \in HandoverT /\ wire' \in LevelT /\ h'.phase = next /\ wire' = Level(c, v)
BY LevelIs DEF Goes, HandoverT

\* The phases that rows lead to.
LEMMA PhaseNames ==
    {"DRAIN", "ENTRY_RELEASE", "ENTRY_ACK", "ENTRY_CLEAR", "ENTRY_ARM", "LOCAL_ARM", "BLOCK", "BLOCK_RELEASE",
     "RETURN_RELEASE", "RETURN_ACK", "RETURN_REQUEST", "RETURN_UART", "RETURN_PEER", "UART"} \subseteq HandoverPhases
BY Rows DEF HandoverPhases, Entering, Returning

\* The request of emos_parallel_boot_start: CLOCK high and VALID low after the fence.
LEMMA RequestRecoveryKeeps == ASSUME HandoverInv, RequestRecovery PROVE HandoverInv'
<1> USE DEF HandoverInv, RequestRecovery, p4, history
<1>a. h' \in HandoverT /\ wire' \in LevelT /\ grant' \in 0 .. 2 /\ owned' \in 0 .. 2
    BY LevelIs, HandoverEdits DEF HandoverTypes
<1>b. /\ block' \in BOOLEAN /\ fencing' \in BOOLEAN /\ reserved' \in BOOLEAN /\ faulted' \in BOOLEAN
      /\ ready' \in BOOLEAN /\ clean' \in BOOLEAN /\ troubled' \in BOOLEAN /\ spoiled' \in BOOLEAN
    BY Zenon DEF HandoverTypes
<1>c. pads' \in {"input", "uart", "drive"} /\ peerPads' \in {"input", "uart", "drive"}
    BY DEF HandoverTypes
<1>1. HandoverTypes'
    BY <1>a, <1>b, <1>c DEF HandoverTypes
<1>2. PhaseInv' /\ OwnerInv'
    BY DEF HandoverTypes, PhaseInv, OwnerInv, Returning, Entering
<1>3. LinesInv'
    BY DEF HandoverTypes, PhaseInv, OwnerInv, LinesInv, Level, Returning, Entering
<1>4. PeerForm'
    BY DEF PeerForm
<1>5. PeerPlace' /\ CleanInv'
    BY DEF HandoverTypes, PhaseInv, OwnerInv, LinesInv, PeerForm, PeerPlace, CleanInv, Fenced, Level, Returning, Entering
<1> QED BY <1>1, <1>2, <1>3, <1>4, <1>5

\* READY high, old or new, is answered with the second half of the prefix.
LEMMA ConnectHighKeeps == ASSUME HandoverInv, ConnectHigh PROVE HandoverInv'
<1> USE DEF HandoverInv, ConnectHigh, p4, history
<1>1. HandoverTypes'
    BY LevelIs, HandoverEdits DEF HandoverTypes
<1>2. PhaseInv' /\ OwnerInv'
    BY DEF HandoverTypes, PhaseInv, OwnerInv, Returning, Entering
<1>3. LinesInv'
    BY DEF HandoverTypes, PhaseInv, OwnerInv, LinesInv, Level, Returning, Entering
<1>4. PeerForm'
    BY DEF PeerForm
<1>5. PeerPlace' /\ CleanInv'
    BY DEF HandoverTypes, PhaseInv, OwnerInv, LinesInv, PeerForm, PeerPlace, CleanInv, Fenced, Level, Returning, Entering
<1> QED BY <1>1, <1>2, <1>3, <1>4, <1>5

\* Startup keeps no keyboard source: the transport is released.
LEMMA ConnectDoneKeeps == ASSUME HandoverInv, ConnectDone PROVE HandoverInv'
<1> USE DEF HandoverInv, ConnectDone, ReleaseTransport, p4, history
<1>1. HandoverTypes'
    BY LevelIs, HandoverEdits DEF HandoverTypes
<1>2. PhaseInv' /\ OwnerInv'
    BY DEF HandoverTypes, PhaseInv, OwnerInv, Returning, Entering
<1>3. LinesInv'
    BY DEF HandoverTypes, PhaseInv, OwnerInv, LinesInv, Level, Returning, Entering
<1>4. PeerForm'
    BY DEF PeerForm
<1>5. PeerPlace' /\ CleanInv'
    BY DEF HandoverTypes, PhaseInv, OwnerInv, LinesInv, PeerForm, PeerPlace, CleanInv, Fenced, Level, Returning, Entering
<1> QED BY <1>1, <1>2, <1>3, <1>4, <1>5

\* The deadline of the connection withdraws the grant; the fence follows.
LEMMA ConnectDeadlineKeeps == ASSUME HandoverInv, ConnectDeadline PROVE HandoverInv'
<1> USE DEF HandoverInv, ConnectDeadline, p4, history
<1>1. HandoverTypes'
    BY LevelIs, HandoverEdits DEF HandoverTypes
<1>2. PhaseInv' /\ OwnerInv'
    BY DEF HandoverTypes, PhaseInv, OwnerInv, Returning, Entering
<1>3. LinesInv'
    BY DEF HandoverTypes, PhaseInv, OwnerInv, LinesInv, Level, Returning, Entering
<1>4. PeerForm'
    BY DEF PeerForm
<1>5. PeerPlace' /\ CleanInv'
    BY DEF HandoverTypes, PhaseInv, OwnerInv, LinesInv, PeerForm, PeerPlace, CleanInv, Fenced, Level, Returning, Entering
<1> QED BY <1>1, <1>2, <1>3, <1>4, <1>5

\* UART1 is opened in ordinary use, under a grant that READY still confirms.
LEMMA UartOpenKeeps == ASSUME HandoverInv, UartOpen PROVE HandoverInv'
<1> USE DEF HandoverInv, UartOpen, SeenLoss, Allowed, p4, history
<1>1. HandoverTypes'
    BY LevelIs, HandoverEdits DEF HandoverTypes
<1>2. PhaseInv' /\ OwnerInv'
    BY DEF HandoverTypes, PhaseInv, OwnerInv, Returning, Entering
<1>3. LinesInv'
    BY DEF HandoverTypes, PhaseInv, OwnerInv, LinesInv, Level, Returning, Entering
<1>4. PeerForm'
    BY DEF PeerForm
<1>5. PeerPlace' /\ CleanInv'
    BY DEF HandoverTypes, PhaseInv, OwnerInv, LinesInv, PeerForm, PeerPlace, CleanInv, Fenced, Level, Returning, Entering
<1> QED BY <1>1, <1>2, <1>3, <1>4, <1>5

\* UART1 is closed: its pads become inputs.
LEMMA UartCloseKeeps == ASSUME HandoverInv, UartClose PROVE HandoverInv'
<1> USE DEF HandoverInv, UartClose, ReleaseTransport, p4, history
<1>a. h' \in HandoverT /\ wire' \in LevelT /\ grant' \in 0 .. 2 /\ owned' \in 0 .. 2
    BY LevelIs, HandoverEdits DEF HandoverTypes
<1>b. /\ block' \in BOOLEAN /\ fencing' \in BOOLEAN /\ reserved' \in BOOLEAN /\ faulted' \in BOOLEAN
      /\ ready' \in BOOLEAN /\ clean' \in BOOLEAN /\ troubled' \in BOOLEAN /\ spoiled' \in BOOLEAN
    BY Zenon DEF HandoverTypes
<1>c. pads' \in {"input", "uart", "drive"} /\ peerPads' \in {"input", "uart", "drive"}
    BY DEF HandoverTypes
<1>1. HandoverTypes'
    BY <1>a, <1>b, <1>c DEF HandoverTypes
<1>2. PhaseInv' /\ OwnerInv'
    BY DEF HandoverTypes, PhaseInv, OwnerInv, Returning, Entering
<1>3. LinesInv'
    BY DEF HandoverTypes, PhaseInv, OwnerInv, LinesInv, Level, Returning, Entering
<1>4. PeerForm'
    BY DEF PeerForm
<1>5. PeerPlace' /\ CleanInv'
    BY DEF HandoverTypes, PhaseInv, OwnerInv, LinesInv, PeerForm, PeerPlace, CleanInv, Fenced, Level, Returning, Entering
<1> QED BY <1>1, <1>2, <1>3, <1>4, <1>5

\* A line error seen by the receive interrupt marks UART1 only.
LEMMA LineFaultKeeps == ASSUME HandoverInv, LineFault PROVE HandoverInv'
<1> USE DEF HandoverInv, LineFault, p4, history
<1>1. HandoverTypes'
    BY LevelIs, HandoverEdits DEF HandoverTypes
<1>2. PhaseInv' /\ OwnerInv'
    BY DEF HandoverTypes, PhaseInv, OwnerInv, Returning, Entering
<1>3. LinesInv'
    BY DEF HandoverTypes, PhaseInv, OwnerInv, LinesInv, Level, Returning, Entering
<1>4. PeerForm'
    BY DEF PeerForm
<1>5. PeerPlace' /\ CleanInv'
    BY DEF HandoverTypes, PhaseInv, OwnerInv, LinesInv, PeerForm, PeerPlace, CleanInv, Fenced, Level, Returning, Entering
<1> QED BY <1>1, <1>2, <1>3, <1>4, <1>5

\* The UART boundary is reserved for one block.
LEMMA ReserveKeeps == ASSUME HandoverInv, Reserve PROVE HandoverInv'
<1> USE DEF HandoverInv, Reserve, Allowed, p4, history
<1>1. HandoverTypes'
    BY LevelIs, HandoverEdits DEF HandoverTypes
<1>2. PhaseInv' /\ OwnerInv'
    BY DEF HandoverTypes, PhaseInv, OwnerInv, Returning, Entering
<1>3. LinesInv'
    BY DEF HandoverTypes, PhaseInv, OwnerInv, LinesInv, Level, Returning, Entering
<1>4. PeerForm'
    BY DEF PeerForm
<1>5. PeerPlace' /\ CleanInv'
    BY DEF HandoverTypes, PhaseInv, OwnerInv, LinesInv, PeerForm, PeerPlace, CleanInv, Fenced, Level, Returning, Entering
<1> QED BY <1>1, <1>2, <1>3, <1>4, <1>5

\* The exact acknowledgement: emos_parallel_handover_begin.
LEMMA OfferAdmittedKeeps == ASSUME HandoverInv, OfferAdmitted PROVE HandoverInv'
<1> USE DEF HandoverInv, OfferAdmitted, p4, history
<1>1. HandoverTypes'
    BY LevelIs, HandoverEdits DEF HandoverTypes
<1>2. PhaseInv' /\ OwnerInv'
    BY DEF HandoverTypes, PhaseInv, OwnerInv, Returning, Entering
<1>3. LinesInv'
    BY DEF HandoverTypes, PhaseInv, OwnerInv, LinesInv, Level, Returning, Entering
<1>4. PeerForm'
    BY DEF PeerForm
<1>5. PeerPlace' /\ CleanInv'
    BY DEF HandoverTypes, PhaseInv, OwnerInv, LinesInv, PeerForm, PeerPlace, CleanInv, Fenced, Level, Returning, Entering
<1> QED BY <1>1, <1>2, <1>3, <1>4, <1>5

\* The coordinator takes the block.
LEMMA CoordinateBeginKeeps == ASSUME HandoverInv, CoordinateBegin PROVE HandoverInv'
<1> USE DEF HandoverInv, CoordinateBegin, Admissible, p4, history
<1>1. HandoverTypes'
    BY LevelIs, HandoverEdits DEF HandoverTypes
<1>2. PhaseInv' /\ OwnerInv'
    BY DEF HandoverTypes, PhaseInv, OwnerInv, Returning, Entering
<1>3. LinesInv'
    BY DEF HandoverTypes, PhaseInv, OwnerInv, LinesInv, Level, Returning, Entering
<1>4. PeerForm'
    BY DEF PeerForm
<1>5. PeerPlace' /\ CleanInv'
    BY DEF HandoverTypes, PhaseInv, OwnerInv, LinesInv, PeerForm, PeerPlace, CleanInv, Fenced, Level, Returning, Entering
<1> QED BY <1>1, <1>2, <1>3, <1>4, <1>5

\* The run is admitted while READY is low, so the P4 is armed or will not come back.
LEMMA RunStartKeeps == ASSUME HandoverInv, RunStart PROVE HandoverInv'
<1> USE DEF HandoverInv, RunStart, p4, history
<1>1. HandoverTypes'
    BY LevelIs, HandoverEdits DEF HandoverTypes
<1>2. PhaseInv' /\ OwnerInv'
    BY DEF HandoverTypes, PhaseInv, OwnerInv, Returning, Entering
<1>3. LinesInv'
    BY DEF HandoverTypes, PhaseInv, OwnerInv, LinesInv, Level, Returning, Entering
<1>4. PeerForm'
    BY DEF PeerForm
<1>5. PeerPlace' /\ CleanInv'
    BY DEF HandoverTypes, PhaseInv, OwnerInv, LinesInv, PeerForm, PeerPlace, CleanInv, Fenced, Level, Returning, Entering
<1> QED BY <1>1, <1>2, <1>3, <1>4, <1>5

\* READY high within the run ends it, with the pads released.
LEMMA RunFaultKeeps == ASSUME HandoverInv, RunFault PROVE HandoverInv'
<1> USE DEF HandoverInv, RunFault, RunReadyHigh, p4, history
<1>1. HandoverTypes'
    BY LevelIs, HandoverEdits DEF HandoverTypes
<1>2. PhaseInv' /\ OwnerInv'
    BY DEF HandoverTypes, PhaseInv, OwnerInv, Returning, Entering
<1>3. LinesInv'
    BY DEF HandoverTypes, PhaseInv, OwnerInv, LinesInv, Level, Returning, Entering
<1>4. PeerForm'
    BY DEF PeerForm
<1>5. PeerPlace' /\ CleanInv'
    BY DEF HandoverTypes, PhaseInv, OwnerInv, LinesInv, PeerForm, PeerPlace, CleanInv, Fenced, Level, Returning, Entering
<1> QED BY <1>1, <1>2, <1>3, <1>4, <1>5

\* The block is reported as transferred.
LEMMA SucceedsKeeps == ASSUME HandoverInv, Succeeds PROVE HandoverInv'
<1> USE DEF HandoverInv, Succeeds, p4, history
<1>a. h' \in HandoverT /\ wire' \in LevelT /\ grant' \in 0 .. 2 /\ owned' \in 0 .. 2
    BY LevelIs, HandoverEdits DEF HandoverTypes
<1>b. /\ block' \in BOOLEAN /\ fencing' \in BOOLEAN /\ reserved' \in BOOLEAN /\ faulted' \in BOOLEAN
      /\ ready' \in BOOLEAN /\ clean' \in BOOLEAN /\ troubled' \in BOOLEAN /\ spoiled' \in BOOLEAN
    BY Zenon DEF HandoverTypes
<1>c. pads' \in {"input", "uart", "drive"} /\ peerPads' \in {"input", "uart", "drive"}
    BY DEF HandoverTypes
<1>1. HandoverTypes'
    BY <1>a, <1>b, <1>c DEF HandoverTypes
<1>2. PhaseInv' /\ OwnerInv'
    BY DEF HandoverTypes, PhaseInv, OwnerInv, Returning, Entering
<1>3. LinesInv'
    BY DEF HandoverTypes, PhaseInv, OwnerInv, LinesInv, Level, Returning, Entering
<1>4. PeerForm'
    BY DEF PeerForm
<1>5. PeerPlace' /\ CleanInv'
    BY DEF HandoverTypes, PhaseInv, OwnerInv, LinesInv, PeerForm, PeerPlace, CleanInv, Fenced, Level, Returning, Entering
<1> QED BY <1>1, <1>2, <1>3, <1>4, <1>5

\* init_UART1 fences before it asks for anything.
LEMMA StartKeeps == ASSUME HandoverInv, Start PROVE HandoverInv'
<1> USE DEF HandoverInv, Start, BootStart, BootFence, p4, history
<1>a. h' \in HandoverT /\ wire' \in LevelT /\ grant' \in 0 .. 2 /\ owned' \in 0 .. 2
    BY LevelIs, HandoverEdits DEF HandoverTypes
<1>b. /\ block' \in BOOLEAN /\ fencing' \in BOOLEAN /\ reserved' \in BOOLEAN /\ faulted' \in BOOLEAN
      /\ ready' \in BOOLEAN /\ clean' \in BOOLEAN /\ troubled' \in BOOLEAN /\ spoiled' \in BOOLEAN
    BY Zenon DEF HandoverTypes
<1>c. pads' \in {"input", "uart", "drive"} /\ peerPads' \in {"input", "uart", "drive"}
    BY DEF HandoverTypes
<1>1. HandoverTypes'
    BY <1>a, <1>b, <1>c DEF HandoverTypes
<1>2. PhaseInv' /\ OwnerInv'
    BY HandoverEdits DEF HandoverTypes, PhaseInv, OwnerInv, Returning, Entering
<1>3. LinesInv'
    BY HandoverEdits DEF HandoverTypes, PhaseInv, OwnerInv, LinesInv, Level, Returning, Entering
<1>4. PeerForm'
    BY DEF PeerForm
<1>5. PeerPlace' /\ CleanInv'
    BY HandoverEdits DEF HandoverTypes, PhaseInv, OwnerInv, LinesInv, PeerForm, PeerPlace, CleanInv, Fenced, Level, Returning, Entering
<1> QED BY <1>1, <1>2, <1>3, <1>4, <1>5

\* READY low acknowledges the prefix: the lines are released, and the return begins.
LEMMA ConnectLowKeeps == ASSUME HandoverInv, ConnectLow PROVE HandoverInv'
<1> USE DEF HandoverInv, ConnectLow, BootFence, p4, history
<1>1. HandoverTypes'
    BY LevelIs, HandoverEdits DEF HandoverTypes
<1>2. PhaseInv' /\ OwnerInv'
    BY HandoverEdits DEF HandoverTypes, PhaseInv, OwnerInv, LinesInv, Returning, Entering
<1>3. LinesInv'
    BY HandoverEdits DEF HandoverTypes, PhaseInv, OwnerInv, LinesInv, Level, Returning, Entering
<1>4. PeerForm'
    BY DEF PeerForm
<1>5. PeerPlace' /\ CleanInv'
    BY HandoverEdits DEF HandoverTypes, PhaseInv, OwnerInv, LinesInv, PeerForm, PeerPlace, CleanInv, Fenced, Level, Returning, Entering
<1> QED BY <1>1, <1>2, <1>3, <1>4, <1>5

\* A connection that failed ends in the fence.
LEMMA ConnectFailKeeps == ASSUME HandoverInv, ConnectFail PROVE HandoverInv'
<1> USE DEF HandoverInv, ConnectFail, BootFence, p4, history
<1>1. HandoverTypes'
    BY LevelIs, HandoverEdits DEF HandoverTypes
<1>2. PhaseInv' /\ OwnerInv'
    BY HandoverEdits DEF HandoverTypes, PhaseInv, OwnerInv, Returning, Entering
<1>3. LinesInv'
    BY HandoverEdits DEF HandoverTypes, PhaseInv, OwnerInv, LinesInv, Level, Returning, Entering
<1>4. PeerForm'
    BY DEF PeerForm
<1>5. PeerPlace' /\ CleanInv'
    BY HandoverEdits DEF HandoverTypes, PhaseInv, OwnerInv, LinesInv, PeerForm, PeerPlace, CleanInv, Fenced, Level, Returning, Entering
<1> QED BY <1>1, <1>2, <1>3, <1>4, <1>5

\* The tick fences when READY is lost outside a block, and cannot find a connection or a
\* block under way.
LEMMA BootTickKeeps == ASSUME HandoverInv, BootTick PROVE HandoverInv'
<1> USE DEF HandoverInv, BootTick, BootStart, BootFence, Allowed, p4, history
<1>a. h' \in HandoverT /\ wire' \in LevelT /\ grant' \in 0 .. 2 /\ owned' \in 0 .. 2
    BY LevelIs, HandoverEdits DEF HandoverTypes
<1>b. /\ block' \in BOOLEAN /\ fencing' \in BOOLEAN /\ reserved' \in BOOLEAN /\ faulted' \in BOOLEAN
      /\ ready' \in BOOLEAN /\ clean' \in BOOLEAN /\ troubled' \in BOOLEAN /\ spoiled' \in BOOLEAN
    BY Zenon DEF HandoverTypes
<1>c. pads' \in {"input", "uart", "drive"} /\ peerPads' \in {"input", "uart", "drive"}
    BY DEF HandoverTypes
<1>1. HandoverTypes'
    BY <1>a, <1>b, <1>c DEF HandoverTypes
<1>2. PhaseInv' /\ OwnerInv'
    BY HandoverEdits DEF HandoverTypes, PhaseInv, OwnerInv, Returning, Entering
<1>3. LinesInv'
    BY HandoverEdits DEF HandoverTypes, PhaseInv, OwnerInv, LinesInv, Level, Returning, Entering
<1>4. PeerForm'
    BY DEF PeerForm
<1>5. PeerPlace' /\ CleanInv'
    BY HandoverEdits DEF HandoverTypes, PhaseInv, OwnerInv, LinesInv, PeerForm, PeerPlace, CleanInv, Fenced, Level, Returning, Entering
<1> QED BY <1>1, <1>2, <1>3, <1>4, <1>5

\* An offer that is not acknowledged ends in the fence.
LEMMA OfferFailsKeeps == ASSUME HandoverInv, OfferFails PROVE HandoverInv'
<1> USE DEF HandoverInv, OfferFails, BlockFails, BootStart, BootFence, p4, history
<1>a. h' \in HandoverT /\ wire' \in LevelT /\ grant' \in 0 .. 2 /\ owned' \in 0 .. 2
    BY LevelIs, HandoverEdits DEF HandoverTypes
<1>b. /\ block' \in BOOLEAN /\ fencing' \in BOOLEAN /\ reserved' \in BOOLEAN /\ faulted' \in BOOLEAN
      /\ ready' \in BOOLEAN /\ clean' \in BOOLEAN /\ troubled' \in BOOLEAN /\ spoiled' \in BOOLEAN
    BY Zenon DEF HandoverTypes
<1>c. pads' \in {"input", "uart", "drive"} /\ peerPads' \in {"input", "uart", "drive"}
    BY DEF HandoverTypes
<1>1. HandoverTypes'
    BY <1>a, <1>b, <1>c DEF HandoverTypes
<1>2. PhaseInv' /\ OwnerInv'
    BY HandoverEdits DEF HandoverTypes, PhaseInv, OwnerInv, Returning, Entering
<1>3. LinesInv'
    BY HandoverEdits DEF HandoverTypes, PhaseInv, OwnerInv, LinesInv, Level, Returning, Entering
<1>4. PeerForm'
    BY DEF PeerForm
<1>5. PeerPlace' /\ CleanInv'
    BY HandoverEdits DEF HandoverTypes, PhaseInv, OwnerInv, LinesInv, PeerForm, PeerPlace, CleanInv, Fenced, Level, Returning, Entering
<1> QED BY <1>1, <1>2, <1>3, <1>4, <1>5

\* A block that is not admitted ends in the fence.
LEMMA CoordinateRefusedKeeps == ASSUME HandoverInv, CoordinateRefused PROVE HandoverInv'
<1> USE DEF HandoverInv, CoordinateRefused, BlockFails, BootStart, BootFence, p4, history
<1>a. h' \in HandoverT /\ wire' \in LevelT /\ grant' \in 0 .. 2 /\ owned' \in 0 .. 2
    BY LevelIs, HandoverEdits DEF HandoverTypes
<1>b. /\ block' \in BOOLEAN /\ fencing' \in BOOLEAN /\ reserved' \in BOOLEAN /\ faulted' \in BOOLEAN
      /\ ready' \in BOOLEAN /\ clean' \in BOOLEAN /\ troubled' \in BOOLEAN /\ spoiled' \in BOOLEAN
    BY Zenon DEF HandoverTypes
<1>c. pads' \in {"input", "uart", "drive"} /\ peerPads' \in {"input", "uart", "drive"}
    BY DEF HandoverTypes
<1>1. HandoverTypes'
    BY <1>a, <1>b, <1>c DEF HandoverTypes
<1>2. PhaseInv' /\ OwnerInv'
    BY HandoverEdits DEF HandoverTypes, PhaseInv, OwnerInv, Returning, Entering
<1>3. LinesInv'
    BY HandoverEdits DEF HandoverTypes, PhaseInv, OwnerInv, LinesInv, Level, Returning, Entering
<1>4. PeerForm'
    BY DEF PeerForm
<1>5. PeerPlace' /\ CleanInv'
    BY HandoverEdits DEF HandoverTypes, PhaseInv, OwnerInv, LinesInv, PeerForm, PeerPlace, CleanInv, Fenced, Level, Returning, Entering
<1> QED BY <1>1, <1>2, <1>3, <1>4, <1>5

\* A deadline, a fault or a refused leaf of the block ends in the fence.
LEMMA CoFailsKeeps == ASSUME HandoverInv, CoFails PROVE HandoverInv'
<1> USE DEF HandoverInv, CoFails, BlockFails, BootStart, BootFence, p4, history
<1>a. h' \in HandoverT /\ wire' \in LevelT /\ grant' \in 0 .. 2 /\ owned' \in 0 .. 2
    BY LevelIs, HandoverEdits DEF HandoverTypes
<1>b. /\ block' \in BOOLEAN /\ fencing' \in BOOLEAN /\ reserved' \in BOOLEAN /\ faulted' \in BOOLEAN
      /\ ready' \in BOOLEAN /\ clean' \in BOOLEAN /\ troubled' \in BOOLEAN /\ spoiled' \in BOOLEAN
    BY Zenon DEF HandoverTypes
<1>c. pads' \in {"input", "uart", "drive"} /\ peerPads' \in {"input", "uart", "drive"}
    BY DEF HandoverTypes
<1>1. HandoverTypes'
    BY <1>a, <1>b, <1>c DEF HandoverTypes
<1>2. PhaseInv' /\ OwnerInv'
    BY HandoverEdits DEF HandoverTypes, PhaseInv, OwnerInv, Returning, Entering
<1>3. LinesInv'
    BY HandoverEdits DEF HandoverTypes, PhaseInv, OwnerInv, LinesInv, Level, Returning, Entering
<1>4. PeerForm'
    BY DEF PeerForm
<1>5. PeerPlace' /\ CleanInv'
    BY HandoverEdits DEF HandoverTypes, PhaseInv, OwnerInv, LinesInv, PeerForm, PeerPlace, CleanInv, Fenced, Level, Returning, Entering
<1> QED BY <1>1, <1>2, <1>3, <1>4, <1>5

\* A reset of the mainboard releases its pads and puts the lines at rest; the P4 stays
\* where it was.
LEMMA EmosResetKeeps == ASSUME HandoverInv, EmosReset PROVE HandoverInv'
<1> USE DEF HandoverInv, EmosReset, BootFence, p4, history
<1>a. h' \in HandoverT /\ wire' \in LevelT /\ grant' \in 0 .. 2 /\ owned' \in 0 .. 2
    BY LevelIs, HandoverEdits DEF HandoverTypes
<1>b. /\ block' \in BOOLEAN /\ fencing' \in BOOLEAN /\ reserved' \in BOOLEAN /\ faulted' \in BOOLEAN
      /\ ready' \in BOOLEAN /\ clean' \in BOOLEAN /\ troubled' \in BOOLEAN /\ spoiled' \in BOOLEAN
    BY Zenon DEF HandoverTypes
<1>c. pads' \in {"input", "uart", "drive"} /\ peerPads' \in {"input", "uart", "drive"}
    BY DEF HandoverTypes
<1>1. HandoverTypes'
    BY <1>a, <1>b, <1>c DEF HandoverTypes
<1>2. PhaseInv' /\ OwnerInv'
    BY HandoverEdits DEF HandoverTypes, PhaseInv, OwnerInv, Returning, Entering
<1>3. LinesInv'
    BY HandoverEdits DEF HandoverTypes, PhaseInv, OwnerInv, LinesInv, Level, Returning, Entering
<1>4. PeerForm'
    BY DEF PeerForm
<1>5. PeerPlace' /\ CleanInv'
    BY HandoverEdits DEF HandoverTypes, PhaseInv, OwnerInv, LinesInv, PeerForm, PeerPlace, CleanInv, Fenced, Level, Returning, Entering
<1> QED BY <1>1, <1>2, <1>3, <1>4, <1>5

\* A reset of the P4 shows as READY low and as pads that are inputs.
LEMMA PeerResetKeeps == ASSUME HandoverInv, PeerReset PROVE HandoverInv'
<1> USE DEF HandoverInv, PeerReset, PeerTo, emos, history
<1>a. ready' \in BOOLEAN /\ clean' \in BOOLEAN /\ troubled' \in BOOLEAN /\ spoiled' \in BOOLEAN
    BY Zenon DEF HandoverTypes
<1>1. HandoverTypes'
    BY <1>a DEF HandoverTypes
<1>2. PhaseInv' /\ OwnerInv'
    BY HandoverEdits DEF HandoverTypes, PhaseInv, OwnerInv, Returning, Entering
<1>3. LinesInv'
    BY HandoverEdits DEF HandoverTypes, PhaseInv, OwnerInv, LinesInv, Level, Returning, Entering
<1>4. PeerForm'
    BY DEF PeerForm
<1>5. PeerPlace' /\ CleanInv'
    BY HandoverEdits DEF HandoverTypes, PhaseInv, OwnerInv, LinesInv, PeerForm, PeerPlace, CleanInv, Fenced, Level, Returning, Entering
<1> QED BY <1>1, <1>2, <1>3, <1>4, <1>5

\* The P4 gives the block up, and READY goes high.
LEMMA PeerAbortsKeeps == ASSUME HandoverInv, PeerAborts PROVE HandoverInv'
<1> USE DEF HandoverInv, PeerAborts, PeerTo, emos, history
<1>1. HandoverTypes'
    BY LevelIs, HandoverEdits DEF HandoverTypes
<1>2. PhaseInv' /\ OwnerInv'
    BY HandoverEdits DEF HandoverTypes, PhaseInv, OwnerInv, Returning, Entering
<1>3. LinesInv'
    BY HandoverEdits DEF HandoverTypes, PhaseInv, OwnerInv, LinesInv, Level, Returning, Entering
<1>4. PeerForm'
    BY DEF PeerForm
<1>5. PeerPlace' /\ CleanInv'
    BY HandoverEdits DEF HandoverTypes, PhaseInv, OwnerInv, LinesInv, PeerForm, PeerPlace, CleanInv, Fenced, Level, Returning, Entering
<1> QED BY <1>1, <1>2, <1>3, <1>4, <1>5

\* The P4 gives up a block whose clocks have stopped.
LEMMA PeerGivesUpKeeps == ASSUME HandoverInv, PeerGivesUp PROVE HandoverInv'
<1> USE DEF HandoverInv, PeerGivesUp, PeerTo, emos, history
<1>1. HandoverTypes'
    BY LevelIs, HandoverEdits DEF HandoverTypes
<1>2. PhaseInv' /\ OwnerInv'
    BY HandoverEdits DEF HandoverTypes, PhaseInv, OwnerInv, Returning, Entering
<1>3. LinesInv'
    BY HandoverEdits DEF HandoverTypes, PhaseInv, OwnerInv, LinesInv, Level, Returning, Entering
<1>4. PeerForm'
    BY DEF PeerForm
<1>5. PeerPlace' /\ CleanInv'
    BY HandoverEdits DEF HandoverTypes, PhaseInv, OwnerInv, LinesInv, PeerForm, PeerPlace, CleanInv, Fenced, Level, Returning, Entering
<1> QED BY <1>1, <1>2, <1>3, <1>4, <1>5

\* The recovery of the P4 ends, outside a block, in its fence.
LEMMA PeerRecoversKeeps == ASSUME HandoverInv, PeerRecovers PROVE HandoverInv'
<1> USE DEF HandoverInv, PeerRecovers, PeerTo, emos, history
<1>1. HandoverTypes'
    BY LevelIs, HandoverEdits DEF HandoverTypes
<1>2. PhaseInv' /\ OwnerInv'
    BY HandoverEdits DEF HandoverTypes, PhaseInv, OwnerInv, Returning, Entering
<1>3. LinesInv'
    BY HandoverEdits DEF HandoverTypes, PhaseInv, OwnerInv, LinesInv, Level, Returning, Entering
<1>4. PeerForm'
    BY DEF PeerForm
<1>5. PeerPlace' /\ CleanInv'
    BY HandoverEdits DEF HandoverTypes, PhaseInv, OwnerInv, LinesInv, PeerForm, PeerPlace, CleanInv, Fenced, Level, Returning, Entering
<1> QED BY <1>1, <1>2, <1>3, <1>4, <1>5

\* The P4 acknowledges each half of the prefix.
LEMMA PeerPrefixKeeps == ASSUME HandoverInv, PeerPrefix PROVE HandoverInv'
<1> USE DEF HandoverInv, PeerPrefix, PeerTo, emos, history
<1>1. HandoverTypes'
    BY LevelIs, HandoverEdits DEF HandoverTypes
<1>2. PhaseInv' /\ OwnerInv'
    BY HandoverEdits DEF HandoverTypes, PhaseInv, OwnerInv, Returning, Entering
<1>3. LinesInv'
    BY HandoverEdits DEF HandoverTypes, PhaseInv, OwnerInv, LinesInv, Level, Returning, Entering
<1>4. PeerForm'
    BY DEF PeerForm
<1>5. PeerPlace' /\ CleanInv'
    BY HandoverEdits DEF HandoverTypes, PhaseInv, OwnerInv, LinesInv, PeerForm, PeerPlace, CleanInv, Fenced, Level, Returning, Entering
<1> QED BY <1>1, <1>2, <1>3, <1>4, <1>5

\* CLOCK high asks the P4 for its recovery.
LEMMA PeerFencesKeeps == ASSUME HandoverInv, PeerFences PROVE HandoverInv'
<1> USE DEF HandoverInv, PeerFences, PeerTo, emos, history
<1>1. HandoverTypes'
    BY LevelIs, HandoverEdits DEF HandoverTypes
<1>2. PhaseInv' /\ OwnerInv'
    BY HandoverEdits DEF HandoverTypes, PhaseInv, OwnerInv, Returning, Entering
<1>3. LinesInv'
    BY HandoverEdits DEF HandoverTypes, PhaseInv, OwnerInv, LinesInv, Level, Returning, Entering
<1>4. PeerForm'
    BY DEF PeerForm
<1>5. PeerPlace' /\ CleanInv'
    BY HandoverEdits DEF HandoverTypes, PhaseInv, OwnerInv, LinesInv, PeerForm, PeerPlace, CleanInv, Fenced, Level, Returning, Entering
<1> QED BY <1>1, <1>2, <1>3, <1>4, <1>5

\* The P4 releases from the prefix or from a block.
LEMMA PeerReleasedKeeps == ASSUME HandoverInv, PeerReleased PROVE HandoverInv'
<1> USE DEF HandoverInv, PeerReleased, PeerTo, emos, history
<1>1. HandoverTypes'
    BY LevelIs, HandoverEdits DEF HandoverTypes
<1>2. PhaseInv' /\ OwnerInv'
    BY HandoverEdits DEF HandoverTypes, PhaseInv, OwnerInv, Returning, Entering
<1>3. LinesInv'
    BY HandoverEdits DEF HandoverTypes, PhaseInv, OwnerInv, LinesInv, Level, Returning, Entering
<1>4. PeerForm'
    BY DEF PeerForm
<1>5. PeerPlace' /\ CleanInv'
    BY HandoverEdits DEF HandoverTypes, PhaseInv, OwnerInv, LinesInv, PeerForm, PeerPlace, CleanInv, Fenced, Level, Returning, Entering
<1> QED BY <1>1, <1>2, <1>3, <1>4, <1>5

\* The P4 follows the levels, one phase at a time.
LEMMA PeerFollowsKeeps == ASSUME HandoverInv, PeerFollows PROVE HandoverInv'
<1> USE DEF HandoverInv, PeerFollows, PeerTo, emos, history
<1>1. HandoverTypes'
    BY LevelIs, HandoverEdits DEF HandoverTypes
<1>2. PhaseInv' /\ OwnerInv'
    BY HandoverEdits DEF HandoverTypes, PhaseInv, OwnerInv, Returning, Entering
<1>3. LinesInv'
    BY HandoverEdits DEF HandoverTypes, PhaseInv, OwnerInv, LinesInv, Level, Returning, Entering
<1>4. PeerForm'
    BY DEF PeerForm
<1>5. PeerPlace' /\ CleanInv'
    BY HandoverEdits DEF HandoverTypes, PhaseInv, OwnerInv, LinesInv, PeerForm, PeerPlace, CleanInv, Fenced, Level, Returning, Entering
<1> QED BY <1>1, <1>2, <1>3, <1>4, <1>5

\* emos_parallel_boot_poll, before the restore.
LEMMA ConnectPollKeeps == ASSUME HandoverInv, ConnectPoll PROVE HandoverInv'
<1> USE DEF HandoverInv, ConnectPoll, p4, history
<1> DEFINE done == {"RELEASED"}
<1>0. h \in HandoverT /\ HandoverStep(done)
    BY DEF HandoverTypes
<1>1. CASE h.phase = "RETURN_RELEASE"
  <2> USE <1>1
  <2>0. Goes(done, "RELEASED", "RETURN_ACK", 0, 1)
    BY <1>0, StepGoes, Rows
  <2>a. h' \in HandoverT /\ wire' \in LevelT /\ h'.phase = "RETURN_ACK" /\ wire' = Level(0, 1)
      BY <2>0, PhaseNames, StepForm DEF HandoverTypes
  <2>1. HandoverTypes'
      BY <2>a DEF HandoverTypes
  <2>2. PhaseInv' /\ OwnerInv'
      BY <2>a DEF HandoverTypes, PhaseInv, OwnerInv, Returning, Entering
  <2>3. LinesInv'
      BY <2>a DEF HandoverTypes, PhaseInv, OwnerInv, LinesInv, Level, Returning, Entering
  <2>4. PeerForm'
      BY DEF PeerForm
  <2>5. PeerPlace' /\ CleanInv'
      BY <2>0, <2>a DEF Goes, HandoverTypes, PhaseInv, OwnerInv, LinesInv, PeerForm, PeerPlace, CleanInv, Fenced, Level, Returning, Entering
  <2> QED BY <2>1, <2>2, <2>3, <2>4, <2>5
<1>2. CASE h.phase = "RETURN_ACK"
  <2> USE <1>2
  <2>0. Goes(done, "HIGH", "RETURN_REQUEST", 0, 0)
    BY <1>0, StepGoes, Rows
  <2>a. h' \in HandoverT /\ wire' \in LevelT /\ h'.phase = "RETURN_REQUEST" /\ wire' = Level(0, 0)
      BY <2>0, PhaseNames, StepForm DEF HandoverTypes
  <2>1. HandoverTypes'
      BY <2>a DEF HandoverTypes
  <2>2. PhaseInv' /\ OwnerInv'
      BY <2>a DEF HandoverTypes, PhaseInv, OwnerInv, Returning, Entering
  <2>3. LinesInv'
      BY <2>a DEF HandoverTypes, PhaseInv, OwnerInv, LinesInv, Level, Returning, Entering
  <2>4. PeerForm'
      BY DEF PeerForm
  <2>5. PeerPlace' /\ CleanInv'
      BY <2>0, <2>a DEF Goes, HandoverTypes, PhaseInv, OwnerInv, LinesInv, PeerForm, PeerPlace, CleanInv, Fenced, Level, Returning, Entering
  <2> QED BY <2>1, <2>2, <2>3, <2>4, <2>5
<1> QED BY <1>1, <1>2 DEF HandoverTypes, PhaseInv, Entering, Returning

\* The P4 has released: the one restore of UART1 is authorised.
LEMMA ConnectRestoreKeeps == ASSUME HandoverInv, ConnectRestore PROVE HandoverInv'
<1> USE DEF HandoverInv, ConnectRestore, p4, history
<1> DEFINE done == {}
<1>0. Goes(done, "LOW", "RETURN_UART", 0, 0)
    BY StepGoes, Rows DEF HandoverTypes, PhaseInv
<1>a. h' \in HandoverT /\ wire' \in LevelT /\ h'.phase = "RETURN_UART" /\ wire' = Level(0, 0)
    BY <1>0, PhaseNames, StepForm DEF HandoverTypes
<1>1. HandoverTypes'
    BY <1>a DEF HandoverTypes
<1>2. PhaseInv' /\ OwnerInv'
    BY <1>a DEF HandoverTypes, PhaseInv, OwnerInv, Returning, Entering
<1>3. LinesInv'
    BY <1>a DEF HandoverTypes, PhaseInv, OwnerInv, LinesInv, Level, Returning, Entering
<1>4. PeerForm'
    BY DEF PeerForm
<1>5. PeerPlace' /\ CleanInv'
    BY <1>0, <1>a DEF Goes, HandoverTypes, PhaseInv, OwnerInv, LinesInv, PeerForm, PeerPlace, CleanInv, Fenced, Level, Returning, Entering
<1> QED BY <1>1, <1>2, <1>3, <1>4, <1>5

\* UART1 is up: the P4 is told to restore its side.
LEMMA ConnectRestoredKeeps == ASSUME HandoverInv, ConnectRestored PROVE HandoverInv'
<1> USE DEF HandoverInv, ConnectRestored, p4, history
<1> DEFINE done == {"UART_UP"}
<1>0. Goes(done, "UART_UP", "RETURN_PEER", 0, 1)
    BY StepGoes, Rows DEF HandoverTypes, PhaseInv
<1>a. h' \in HandoverT /\ wire' \in LevelT /\ h'.phase = "RETURN_PEER" /\ wire' = Level(0, 1)
    BY <1>0, PhaseNames, StepForm DEF HandoverTypes
<1>1. HandoverTypes'
    BY <1>a DEF HandoverTypes
<1>2. PhaseInv' /\ OwnerInv'
    BY <1>a DEF HandoverTypes, PhaseInv, OwnerInv, Returning, Entering
<1>3. LinesInv'
    BY <1>a DEF HandoverTypes, PhaseInv, OwnerInv, LinesInv, Level, Returning, Entering
<1>4. PeerForm'
    BY DEF PeerForm
<1>5. PeerPlace' /\ CleanInv'
    BY <1>0, <1>a DEF Goes, HandoverTypes, PhaseInv, OwnerInv, LinesInv, PeerForm, PeerPlace, CleanInv, Fenced, Level, Returning, Entering
<1> QED BY <1>1, <1>2, <1>3, <1>4, <1>5

\* READY high in the last phase: the grant is given.
LEMMA ConnectLiveKeeps == ASSUME HandoverInv, ConnectLive PROVE HandoverInv'
<1> USE DEF HandoverInv, ConnectLive, p4, history
<1> DEFINE done == {}
<1>0. Goes(done, "HIGH", "UART", 0, 1)
    BY StepGoes, Rows DEF HandoverTypes, PhaseInv
<1>a. h' \in HandoverT /\ wire' \in LevelT /\ h'.phase = "UART" /\ wire' = Level(0, 1)
    BY <1>0, PhaseNames, StepForm DEF HandoverTypes
<1>1. HandoverTypes'
    BY <1>a DEF HandoverTypes
<1>2. PhaseInv' /\ OwnerInv'
    BY <1>a DEF HandoverTypes, PhaseInv, OwnerInv, Returning, Entering
<1>3. LinesInv'
    BY <1>a DEF HandoverTypes, PhaseInv, OwnerInv, LinesInv, Level, Returning, Entering
<1>4. PeerForm'
    BY DEF PeerForm
<1>5. PeerPlace' /\ CleanInv'
    BY <1>0, <1>a DEF Goes, HandoverTypes, PhaseInv, OwnerInv, LinesInv, PeerForm, PeerPlace, CleanInv, Fenced, Level, Returning, Entering
<1> QED BY <1>1, <1>2, <1>3, <1>4, <1>5

\* The transmitter and the receiver are empty, and UART1 is parked.
LEMMA CoParkKeeps == ASSUME HandoverInv, CoPark PROVE HandoverInv'
<1> USE DEF HandoverInv, CoPark, Park, p4, history
<1> DEFINE done == {"QUIET"}
<1>0. Goes(done, "QUIET", "ENTRY_RELEASE", 0, 1)
    BY StepGoes, Rows DEF HandoverTypes, PhaseInv
<1>a. h' \in HandoverT /\ wire' \in LevelT /\ h'.phase = "ENTRY_RELEASE" /\ wire' = Level(0, 1)
    BY <1>0, PhaseNames, StepForm DEF HandoverTypes
<1>1. HandoverTypes'
    BY <1>a DEF HandoverTypes
<1>2. PhaseInv' /\ OwnerInv'
    BY <1>a DEF HandoverTypes, PhaseInv, OwnerInv, Returning, Entering
<1>3. LinesInv'
    BY <1>a DEF HandoverTypes, PhaseInv, OwnerInv, LinesInv, Level, Returning, Entering
<1>4. PeerForm'
    BY DEF PeerForm
<1>5. PeerPlace' /\ CleanInv'
    BY <1>0, <1>a DEF Goes, HandoverTypes, PhaseInv, OwnerInv, LinesInv, PeerForm, PeerPlace, CleanInv, Fenced, Level, Returning, Entering
<1> QED BY <1>1, <1>2, <1>3, <1>4, <1>5

\* The phases of a block that wait for READY, for the pads or for the runner.
LEMMA CoStepKeeps == ASSUME HandoverInv, CoStep PROVE HandoverInv'
<1> USE DEF HandoverInv, CoStep, p4, history
<1> DEFINE done == {"ARMED"} \cup (IF owned = 2 /\ pads = "input" THEN {"RELEASED"} ELSE {})
<1>0. h \in HandoverT /\ HandoverStep(done)
    BY DEF HandoverTypes
<1>1. CASE h.phase = "ENTRY_RELEASE"
  <2> USE <1>1
  <2>0. Goes(done, "RELEASED", "ENTRY_ACK", 0, 0)
    BY <1>0, StepGoes, Rows
  <2>a. h' \in HandoverT /\ wire' \in LevelT /\ h'.phase = "ENTRY_ACK" /\ wire' = Level(0, 0)
      BY <2>0, PhaseNames, StepForm DEF HandoverTypes
  <2>1. HandoverTypes'
      BY <2>a DEF HandoverTypes
  <2>2. PhaseInv' /\ OwnerInv'
      BY <2>a DEF HandoverTypes, PhaseInv, OwnerInv, Returning, Entering
  <2>3. LinesInv'
      BY <2>a DEF HandoverTypes, PhaseInv, OwnerInv, LinesInv, Level, Returning, Entering
  <2>4. PeerForm'
      BY DEF PeerForm
  <2>5. PeerPlace' /\ CleanInv'
      BY <2>0, <2>a DEF Goes, HandoverTypes, PhaseInv, OwnerInv, LinesInv, PeerForm, PeerPlace, CleanInv, Fenced, Level, Returning, Entering
  <2> QED BY <2>1, <2>2, <2>3, <2>4, <2>5
<1>2. CASE h.phase = "ENTRY_ACK"
  <2> USE <1>2
  <2>0. Goes(done, "LOW", "ENTRY_CLEAR", 0, 1)
    BY <1>0, StepGoes, Rows
  <2>a. h' \in HandoverT /\ wire' \in LevelT /\ h'.phase = "ENTRY_CLEAR" /\ wire' = Level(0, 1)
      BY <2>0, PhaseNames, StepForm DEF HandoverTypes
  <2>1. HandoverTypes'
      BY <2>a DEF HandoverTypes
  <2>2. PhaseInv' /\ OwnerInv'
      BY <2>a DEF HandoverTypes, PhaseInv, OwnerInv, Returning, Entering
  <2>3. LinesInv'
      BY <2>a DEF HandoverTypes, PhaseInv, OwnerInv, LinesInv, Level, Returning, Entering
  <2>4. PeerForm'
      BY DEF PeerForm
  <2>5. PeerPlace' /\ CleanInv'
      BY <2>0, <2>a DEF Goes, HandoverTypes, PhaseInv, OwnerInv, LinesInv, PeerForm, PeerPlace, CleanInv, Fenced, Level, Returning, Entering
  <2> QED BY <2>1, <2>2, <2>3, <2>4, <2>5
<1>3. CASE h.phase = "ENTRY_CLEAR"
  <2> USE <1>3
  <2>0. Goes(done, "HIGH", "ENTRY_ARM", 1, 1)
    BY <1>0, StepGoes, Rows
  <2>a. h' \in HandoverT /\ wire' \in LevelT /\ h'.phase = "ENTRY_ARM" /\ wire' = Level(1, 1)
      BY <2>0, PhaseNames, StepForm DEF HandoverTypes
  <2>1. HandoverTypes'
      BY <2>a DEF HandoverTypes
  <2>2. PhaseInv' /\ OwnerInv'
      BY <2>a DEF HandoverTypes, PhaseInv, OwnerInv, Returning, Entering
  <2>3. LinesInv'
      BY <2>a DEF HandoverTypes, PhaseInv, OwnerInv, LinesInv, Level, Returning, Entering
  <2>4. PeerForm'
      BY DEF PeerForm
  <2>5. PeerPlace' /\ CleanInv'
      BY <2>0, <2>a DEF Goes, HandoverTypes, PhaseInv, OwnerInv, LinesInv, PeerForm, PeerPlace, CleanInv, Fenced, Level, Returning, Entering
  <2> QED BY <2>1, <2>2, <2>3, <2>4, <2>5
<1>4. CASE h.phase = "ENTRY_ARM"
  <2> USE <1>4
  <2>0. Goes(done, "LOW", "LOCAL_ARM", 1, 1)
    BY <1>0, StepGoes, Rows
  <2>a. h' \in HandoverT /\ wire' \in LevelT /\ h'.phase = "LOCAL_ARM" /\ wire' = Level(1, 1)
      BY <2>0, PhaseNames, StepForm DEF HandoverTypes
  <2>1. HandoverTypes'
      BY <2>a DEF HandoverTypes
  <2>2. PhaseInv' /\ OwnerInv'
      BY <2>a DEF HandoverTypes, PhaseInv, OwnerInv, Returning, Entering
  <2>3. LinesInv'
      BY <2>a DEF HandoverTypes, PhaseInv, OwnerInv, LinesInv, Level, Returning, Entering
  <2>4. PeerForm'
      BY DEF PeerForm
  <2>5. PeerPlace' /\ CleanInv'
      BY <2>0, <2>a DEF Goes, HandoverTypes, PhaseInv, OwnerInv, LinesInv, PeerForm, PeerPlace, CleanInv, Fenced, Level, Returning, Entering
  <2> QED BY <2>1, <2>2, <2>3, <2>4, <2>5
<1>5. CASE h.phase = "LOCAL_ARM"
  <2> USE <1>5
  <2>0. Goes(done, "ARMED", "BLOCK", 1, 1)
    BY <1>0, StepGoes, Rows
  <2>a. h' \in HandoverT /\ wire' \in LevelT /\ h'.phase = "BLOCK" /\ wire' = Level(1, 1)
      BY <2>0, PhaseNames, StepForm DEF HandoverTypes
  <2>1. HandoverTypes'
      BY <2>a DEF HandoverTypes
  <2>2. PhaseInv' /\ OwnerInv'
      BY <2>a DEF HandoverTypes, PhaseInv, OwnerInv, Returning, Entering
  <2>3. LinesInv'
      BY <2>a DEF HandoverTypes, PhaseInv, OwnerInv, LinesInv, Level, Returning, Entering
  <2>4. PeerForm'
      BY DEF PeerForm
  <2>5. PeerPlace' /\ CleanInv'
      BY <2>0, <2>a DEF Goes, HandoverTypes, PhaseInv, OwnerInv, LinesInv, PeerForm, PeerPlace, CleanInv, Fenced, Level, Returning, Entering
  <2> QED BY <2>1, <2>2, <2>3, <2>4, <2>5
<1>6. CASE h.phase = "BLOCK_RELEASE"
  <2> USE <1>6
  <2>0. Goes(done, "RELEASED", "RETURN_ACK", 0, 1)
    BY <1>0, StepGoes, Rows
  <2>a. h' \in HandoverT /\ wire' \in LevelT /\ h'.phase = "RETURN_ACK" /\ wire' = Level(0, 1)
      BY <2>0, PhaseNames, StepForm DEF HandoverTypes
  <2>1. HandoverTypes'
      BY <2>a DEF HandoverTypes
  <2>2. PhaseInv' /\ OwnerInv'
      BY <2>a DEF HandoverTypes, PhaseInv, OwnerInv, Returning, Entering
  <2>3. LinesInv'
      BY <2>a DEF HandoverTypes, PhaseInv, OwnerInv, LinesInv, Level, Returning, Entering
  <2>4. PeerForm'
      BY DEF PeerForm
  <2>5. PeerPlace' /\ CleanInv'
      BY <2>0, <2>a DEF Goes, HandoverTypes, PhaseInv, OwnerInv, LinesInv, PeerForm, PeerPlace, CleanInv, Fenced, Level, Returning, Entering
  <2> QED BY <2>1, <2>2, <2>3, <2>4, <2>5
<1>7. CASE h.phase = "RETURN_ACK"
  <2> USE <1>7
  <2>0. Goes(done, "HIGH", "RETURN_REQUEST", 0, 0)
    BY <1>0, StepGoes, Rows
  <2>a. h' \in HandoverT /\ wire' \in LevelT /\ h'.phase = "RETURN_REQUEST" /\ wire' = Level(0, 0)
      BY <2>0, PhaseNames, StepForm DEF HandoverTypes
  <2>1. HandoverTypes'
      BY <2>a DEF HandoverTypes
  <2>2. PhaseInv' /\ OwnerInv'
      BY <2>a DEF HandoverTypes, PhaseInv, OwnerInv, Returning, Entering
  <2>3. LinesInv'
      BY <2>a DEF HandoverTypes, PhaseInv, OwnerInv, LinesInv, Level, Returning, Entering
  <2>4. PeerForm'
      BY DEF PeerForm
  <2>5. PeerPlace' /\ CleanInv'
      BY <2>0, <2>a DEF Goes, HandoverTypes, PhaseInv, OwnerInv, LinesInv, PeerForm, PeerPlace, CleanInv, Fenced, Level, Returning, Entering
  <2> QED BY <2>1, <2>2, <2>3, <2>4, <2>5
<1>8. CASE h.phase = "RETURN_REQUEST"
  <2> USE <1>8
  <2>0. Goes(done, "LOW", "RETURN_UART", 0, 0)
    BY <1>0, StepGoes, Rows
  <2>a. h' \in HandoverT /\ wire' \in LevelT /\ h'.phase = "RETURN_UART" /\ wire' = Level(0, 0)
      BY <2>0, PhaseNames, StepForm DEF HandoverTypes
  <2>1. HandoverTypes'
      BY <2>a DEF HandoverTypes
  <2>2. PhaseInv' /\ OwnerInv'
      BY <2>a DEF HandoverTypes, PhaseInv, OwnerInv, Returning, Entering
  <2>3. LinesInv'
      BY <2>a DEF HandoverTypes, PhaseInv, OwnerInv, LinesInv, Level, Returning, Entering
  <2>4. PeerForm'
      BY DEF PeerForm
  <2>5. PeerPlace' /\ CleanInv'
      BY <2>0, <2>a DEF Goes, HandoverTypes, PhaseInv, OwnerInv, LinesInv, PeerForm, PeerPlace, CleanInv, Fenced, Level, Returning, Entering
  <2> QED BY <2>1, <2>2, <2>3, <2>4, <2>5
<1> QED BY <1>1, <1>2, <1>3, <1>4, <1>5, <1>6, <1>7, <1>8 DEF HandoverTypes, PhaseInv, Entering, Returning

\* The last byte: lanes and VALID are released.
LEMMA RunEndKeeps == ASSUME HandoverInv, RunEnd PROVE HandoverInv'
<1> USE DEF HandoverInv, RunEnd, p4, history
<1> DEFINE done == {"DONE"}
<1>0. Goes(done, "DONE", "BLOCK_RELEASE", 1, 1)
    BY StepGoes, Rows DEF HandoverTypes, PhaseInv
<1>a. h' \in HandoverT /\ wire' \in LevelT /\ h'.phase = "BLOCK_RELEASE" /\ wire' = Level(1, 1)
    BY <1>0, PhaseNames, StepForm DEF HandoverTypes
<1>1. HandoverTypes'
    BY <1>a DEF HandoverTypes
<1>2. PhaseInv' /\ OwnerInv'
    BY <1>a DEF HandoverTypes, PhaseInv, OwnerInv, Returning, Entering
<1>3. LinesInv'
    BY <1>a DEF HandoverTypes, PhaseInv, OwnerInv, LinesInv, Level, Returning, Entering
<1>4. PeerForm'
    BY DEF PeerForm
<1>5. PeerPlace' /\ CleanInv'
    BY <1>0, <1>a DEF Goes, HandoverTypes, PhaseInv, OwnerInv, LinesInv, PeerForm, PeerPlace, CleanInv, Fenced, Level, Returning, Entering
<1> QED BY <1>1, <1>2, <1>3, <1>4, <1>5

\* UART1 is restored after the block.
LEMMA CoUnparkKeeps == ASSUME HandoverInv, CoUnpark PROVE HandoverInv'
<1> USE DEF HandoverInv, CoUnpark, Allowed, p4, history
<1> DEFINE done == {"UART_UP"}
<1>0. Goes(done, "UART_UP", "RETURN_PEER", 0, 1)
    BY StepGoes, Rows DEF HandoverTypes, PhaseInv
<1>a. h' \in HandoverT /\ wire' \in LevelT /\ h'.phase = "RETURN_PEER" /\ wire' = Level(0, 1)
    BY <1>0, PhaseNames, StepForm DEF HandoverTypes
<1>1. HandoverTypes'
    BY <1>a DEF HandoverTypes
<1>2. PhaseInv' /\ OwnerInv'
    BY <1>a DEF HandoverTypes, PhaseInv, OwnerInv, Returning, Entering
<1>3. LinesInv'
    BY <1>a DEF HandoverTypes, PhaseInv, OwnerInv, LinesInv, Level, Returning, Entering
<1>4. PeerForm'
    BY DEF PeerForm
<1>5. PeerPlace' /\ CleanInv'
    BY <1>0, <1>a DEF Goes, HandoverTypes, PhaseInv, OwnerInv, LinesInv, PeerForm, PeerPlace, CleanInv, Fenced, Level, Returning, Entering
<1> QED BY <1>1, <1>2, <1>3, <1>4, <1>5

\* LIVE: emos_parallel_boot_block_end(1) ends the block.
LEMMA CoLiveKeeps == ASSUME HandoverInv, CoLive PROVE HandoverInv'
<1> USE DEF HandoverInv, CoLive, p4, history
<1> DEFINE done == {}
<1>0. Goes(done, "HIGH", "UART", 0, 1)
    BY StepGoes, Rows DEF HandoverTypes, PhaseInv
<1>a. h' \in HandoverT /\ wire' \in LevelT /\ h'.phase = "UART" /\ wire' = Level(0, 1)
    BY <1>0, PhaseNames, StepForm DEF HandoverTypes
<1>1. HandoverTypes'
    <2>1. block' \in BOOLEAN
        BY Zenon
    <2> QED BY <2>1, <1>a DEF HandoverTypes
<1>2. PhaseInv' /\ OwnerInv'
    BY <1>a DEF HandoverTypes, PhaseInv, OwnerInv, Returning, Entering
<1>3. LinesInv'
    BY <1>a DEF HandoverTypes, PhaseInv, OwnerInv, LinesInv, Level, Returning, Entering
<1>4. PeerForm'
    BY DEF PeerForm
<1>5. PeerPlace' /\ CleanInv'
    BY <1>0, <1>a DEF Goes, HandoverTypes, PhaseInv, OwnerInv, LinesInv, PeerForm, PeerPlace, CleanInv, Fenced, Level, Returning, Entering
<1> QED BY <1>1, <1>2, <1>3, <1>4, <1>5

\* At the start both lines and pads are at rest.
LEMMA HandoverInvInit == Init => HandoverInv
<1> SUFFICES ASSUME Init PROVE HandoverInv
    OBVIOUS
<1> USE DEF Init, HandoverInv
<1>0. h \in HandoverT /\ h.phase = "RETURN_RELEASE" /\ wire \in LevelT
    BY HandoverEdits, LevelIs
<1>1. /\ block \in BOOLEAN /\ fencing \in BOOLEAN /\ reserved \in BOOLEAN /\ faulted \in BOOLEAN
      /\ ready \in BOOLEAN /\ clean \in BOOLEAN /\ troubled \in BOOLEAN /\ spoiled \in BOOLEAN
    BY Zenon
<1>2. HandoverTypes
    BY <1>0, <1>1 DEF HandoverTypes
<1>3. PhaseInv /\ OwnerInv /\ LinesInv
    BY <1>0 DEF PhaseInv, OwnerInv, LinesInv, Returning, Entering
<1>4. PeerForm /\ PeerPlace /\ CleanInv
    BY <1>0 DEF PeerForm, PeerPlace, CleanInv, Fenced, Returning, Entering
<1> QED BY <1>2, <1>3, <1>4

\* A step that changes nothing.
LEMMA HandoverStutters == ASSUME HandoverInv, UNCHANGED vars PROVE HandoverInv'
BY DEF HandoverInv, HandoverTypes, PhaseInv, OwnerInv, LinesInv, PeerForm, PeerPlace, CleanInv, Fenced, vars, emos,
       p4, history

\* Every step of EMOS and of the P4 keeps the invariant.
LEMMA HandoverInvNext == ASSUME HandoverInv, [Next]_vars PROVE HandoverInv'
<1>1. CASE RequestRecovery \/ Start \/ Connect \/ ConnectDeadline
    BY <1>1, RequestRecoveryKeeps, StartKeeps, ConnectHighKeeps, ConnectLowKeeps, ConnectPollKeeps, ConnectRestoreKeeps,
       ConnectRestoredKeeps, ConnectLiveKeeps, ConnectDoneKeeps, ConnectFailKeeps, ConnectDeadlineKeeps DEF Connect
<1>2. CASE UartOpen \/ UartClose \/ LineFault \/ BootTick
    BY <1>2, UartOpenKeeps, UartCloseKeeps, LineFaultKeeps, BootTickKeeps
<1>3. CASE Reserve \/ OfferFails \/ Coordinate \/ CoFails
    BY <1>3, ReserveKeeps, OfferFailsKeeps, OfferAdmittedKeeps, CoordinateBeginKeeps, CoordinateRefusedKeeps, CoParkKeeps,
       CoStepKeeps, RunStartKeeps, RunEndKeeps, RunFaultKeeps, CoUnparkKeeps, CoLiveKeeps, SucceedsKeeps, CoFailsKeeps
       DEF Coordinate
<1>4. CASE EmosReset \/ Peer \/ PeerReset \/ PeerAborts
    BY <1>4, EmosResetKeeps, PeerRecoversKeeps, PeerPrefixKeeps, PeerFencesKeeps, PeerReleasedKeeps, PeerFollowsKeeps,
       PeerGivesUpKeeps, PeerResetKeeps, PeerAbortsKeeps DEF Peer
<1>5. CASE UNCHANGED vars
    BY <1>5, HandoverStutters
<1> QED BY <1>1, <1>2, <1>3, <1>4, <1>5, Zenon DEF Next

\* Where the P4 can be in each phase of the hand-over, and what the lines, the pads
\* and the grant then are, whatever resets, deadlines and levels seen late came before
\* (emos_parallel_handover.c, _startup.c, _coordinator.c).
THEOREM HandoverInvariant == Spec => []HandoverInv
<1>1. HandoverInv /\ [Next]_vars => HandoverInv'
    BY HandoverInvNext
<1> QED BY HandoverInvInit, <1>1, PTL DEF Spec

\* The two processors never drive a lane against each other, and a failed block keeps
\* EMOS off Port C until it is reset.
THEOREM HandoverSafety == Spec => []HandoverIsSafe
<1>1. HandoverInv => HandoverIsSafe
    <2> SUFFICES ASSUME HandoverInv PROVE HandoverIsSafe
        OBVIOUS
    <2> USE DEF HandoverInv
    <2>1. TypeOK
        <3>1. h.phase \in DOMAIN Table \cup {"UART"} /\ h.failed \in BOOLEAN
            BY DEF HandoverTypes, HandoverT, HandoverPhases
        <3>2. {h.c, h.v, wire.c, wire.v} \subseteq {0, 1}
            BY DEF HandoverTypes, HandoverT, LevelT
        <3>3. {block, fencing, reserved, faulted, ready, clean, troubled, spoiled} \subseteq BOOLEAN
            BY Zenon DEF HandoverTypes
        <3> QED BY <3>1, <3>2, <3>3 DEF TypeOK, HandoverTypes
    <2>2. PadsNeverFight
        BY DEF PadsNeverFight, HandoverTypes, PhaseInv, OwnerInv, PeerForm, PeerPlace, Fenced, Entering, Returning
    <2>3. FailureStaysFenced
        BY DEF FailureStaysFenced, OwnerInv
    <2> QED BY <2>1, <2>2, <2>3 DEF HandoverIsSafe
<1> QED BY <1>1, HandoverInvariant, PTL

\* The grant is given in one step only, on READY high in the last phase of the return.
LEMMA GrantIsTrue == ASSUME HandoverInv, [Next]_vars, grant' = 2, grant # 2 PROVE peer = "live"
<1>1. ConnectLive
    BY DEF Next, vars, emos, p4, Connect, Coordinate, Peer, RequestRecovery, Start, ConnectHigh, ConnectLow, ConnectPoll,
       ConnectRestore, ConnectRestored, ConnectDone, ConnectFail, ConnectDeadline, UartOpen, UartClose, LineFault, BootTick,
       Reserve, OfferFails, OfferAdmitted, CoordinateBegin, CoordinateRefused, CoPark, CoStep, RunStart, RunEnd, RunFault,
       CoUnpark, CoLive, Succeeds, CoFails, EmosReset, PeerReset, PeerRecovers, PeerPrefix, PeerFences, PeerReleased,
       PeerFollows, PeerAborts, PeerGivesUp, PeerTo, SeenLoss, BootStart, BlockFails
<1>2. Goes({}, "HIGH", "UART", 0, 1)
    BY <1>1, StepGoes, Rows DEF ConnectLive, HandoverInv, HandoverTypes
<1> QED BY <1>1, <1>2 DEF ConnectLive, Goes, HandoverInv, PeerForm, PeerPlace, Fenced

\* UART1 opens in ordinary use in one step only, under the grant and with READY high.
LEMMA OpeningIsTrue ==
    ASSUME HandoverInv, [Next]_vars, pads' = "uart", pads # "uart", fg = "idle"
    PROVE  peer = "live"
<1>1. UartOpen
    BY DEF Next, vars, emos, p4, Connect, Coordinate, Peer, RequestRecovery, Start, ConnectHigh, ConnectLow, ConnectPoll,
       ConnectRestore, ConnectRestored, ConnectLive, ConnectDone, ConnectFail, ConnectDeadline, UartClose, LineFault, BootTick,
       Reserve, OfferFails, OfferAdmitted, CoordinateBegin, CoordinateRefused, CoPark, Park, CoStep, RunStart, RunEnd, RunFault,
       CoUnpark, CoLive, Succeeds, CoFails, EmosReset, PeerReset, PeerRecovers, PeerPrefix, PeerFences, PeerReleased,
       PeerFollows, PeerAborts, PeerGivesUp, PeerTo, BootStart, BlockFails, BootFence, ReleaseTransport
<1>2. Allowed /\ ~block
    BY <1>1 DEF UartOpen, HandoverInv, OwnerInv
<1>3. grant = 2 /\ ready /\ h.phase = "UART"
    BY <1>2 DEF Allowed, HandoverInv, OwnerInv, PhaseInv
<1> QED BY <1>3 DEF HandoverInv, PeerForm, PeerPlace, Fenced

\* The pads never fight, a failure stays fenced, and what EMOS concludes from the levels
\* is true of the P4: the one that gets the grant, or towards which UART1 is opened, is
\* alive, and a block that is reported as transferred found it armed from the first clock
\* to the last.
THEOREM HandoverTruth == Spec => HandoverIsTruthful
<1>1. HandoverInv /\ [Next]_vars => [grant' = 2 /\ grant # 2 => peer = "live"]_vars
    BY GrantIsTrue
<1>2. HandoverInv /\ [Next]_vars => [pads' = "uart" /\ pads # "uart" /\ fg = "idle" => peer = "live"]_vars
    BY OpeningIsTrue
<1>3. HandoverInv /\ [Next]_vars => [Succeeds => clean]_vars
    BY DEF Succeeds, HandoverInv, CleanInv, PhaseInv, OwnerInv
<1> QED BY <1>1, <1>2, <1>3, HandoverInvariant, HandoverSafety, PTL
       DEF Spec, HandoverIsTruthful, GrantMeetsALivePeer, OpensToALivePeer, SuccessMeansDelivered

(***************************************************************************)
(* The record engine of the forward link.                                  *)
(***************************************************************************)
Places == {"none", "admission", "data", "fall", "rise", "completion"}
RunT == [at : Places, dir : {"none", "write", "read"}, length : Nat, sent : Nat, amount : Nat, index : Nat,
         got : Seq(Nat), started : Nat, last : Nat, stalled : Nat]
EngineT == [open : BOOLEAN, busy : BOOLEAN, records : Nat, bytes : Nat,
            fault : {"ok", "not_owned", "invalid", "admission_timeout", "completion_timeout"}]
LinesT == [valid : {0, 1}, clk : {0, 1}, data : Nat]
TakerT == [record : Nat, taken : Seq(Nat), given : Nat]
RecordTypes == engine \in EngineT /\ run \in RunT /\ lines \in LinesT /\ p4Record \in TakerT /\ clock \in Nat

\* A call is in progress exactly while the engine is busy, and then nothing has failed.
CallInv == (engine.busy <=> run.at # "none") /\ (engine.busy => engine.open /\ engine.fault = "ok")

\* A record starts at a multiple of the largest one and is as long as it can be; a read
\* is one record.
CutInv ==
  run.at # "none" =>
    /\ run.sent < run.length /\ Whole(run.sent) /\ run.amount = Smaller(run.length - run.sent, MaxRecord)
    /\ run.at \in {"data", "fall", "rise"} => run.index \in 1 .. run.amount
    /\ run.dir = "write" /\ run.at = "fall" => lines.data = run.sent + run.index
    /\ run.dir # "write" => run.dir = "read" /\ run.at # "data" /\ run.amount = run.length /\ run.sent = 0

\* The lines are idle except while bytes are clocked.
EdgeInv ==
  IF run.at \in {"data", "fall", "rise"} THEN lines.valid = 0 /\ lines.clk = (IF run.at = "rise" THEN 0 ELSE 1)
  ELSE lines.valid = 1 /\ lines.clk = 1

\* How much the P4 has taken of what is written, and how much EMOS has of what is read, at
\* each place of the call.
Past == IF run.at = "admission" THEN 0 ELSE IF run.at = "completion" THEN run.amount ELSE run.index - 1
TakenInv ==
  /\ p4Record.taken = Stream(Len(p4Record.taken))
  /\ run.at # "none" /\ run.dir = "write" =>
       Len(p4Record.taken) = run.sent + Past + (IF run.at = "rise" THEN 1 ELSE 0)
  /\ run.at # "none" /\ run.dir = "read" =>
       /\ run.got = Stream(Past)
       /\ run.at # "completion" => p4Record.given = Past + (IF run.at = "rise" THEN 1 ELSE 0)
       /\ run.at = "rise" => lines.data = run.index

\* What the last call has reported.
ToldInv ==
  /\ run.at = "none" /\ answered.call = "write" =>
       IF answered.result = "ok" THEN Len(p4Record.taken) = answered.length
       ELSE engine.fault = answered.result /\ (Whole(Len(p4Record.taken)) \/ Len(p4Record.taken) = answered.length)
  /\ run.at = "none" /\ answered.call = "read" /\ answered.result = "ok" => answered.got = Stream(answered.length)

RecordInv == RecordTypes /\ CallInv /\ CutInv /\ EdgeInv /\ TakenInv /\ ToldInv

\* A stream is one byte longer when its next byte is appended.
LEMMA StreamIs ==
    ASSUME NEW n \in Nat
    PROVE  /\ Stream(n) \in Seq(Nat) /\ Len(Stream(n)) = n
           /\ Append(Stream(n), n + 1) = Stream(n + 1)
<1>1. Stream(n) \in Seq(Nat) /\ Len(Stream(n)) = n /\ \A i \in 1 .. n : Stream(n)[i] = i
    BY DEF Stream, StreamByte
<1>2. Stream(n + 1) \in Seq(Nat) /\ Len(Stream(n + 1)) = n + 1 /\ \A i \in 1 .. n + 1 : Stream(n + 1)[i] = i
    BY DEF Stream, StreamByte
<1> DEFINE s == Append(Stream(n), n + 1)
<1>3. s \in Seq(Nat) /\ Len(s) = n + 1 /\ s[n + 1] = n + 1 /\ \A i \in 1 .. n : s[i] = i
    BY <1>1, AppendProperties
<1>4. \A i \in 1 .. n + 1 : s[i] = Stream(n + 1)[i]
    BY <1>2, <1>3
<1> HIDE DEF s
<1>5. s = Stream(n + 1)
    BY <1>2, <1>3, <1>4, SeqEqual
<1> QED BY <1>1, <1>5 DEF s

\* Nothing is the empty stream.
LEMMA StreamIsEmpty == Stream(0) = << >>
<1>1. Stream(0) \in Seq(Nat) /\ Len(Stream(0)) = 0
    BY StreamIs
<1> QED BY <1>1, EmptySeq

\* The edits of a call, of which each changes only what it names.
CallStays(q, r) ==
  q.dir = r.dir /\ q.length = r.length /\ q.sent = r.sent /\ q.amount = r.amount /\ q.got = r.got

\* The wait for a level begins.
LEMMA RunWaits ==
    ASSUME NEW r \in RunT, NEW at \in Places, NEW c \in Nat
    PROVE  LET q == [r EXCEPT !.at = at, !.started = c, !.last = c, !.stalled = 0] IN
             q \in RunT /\ q.at = at /\ CallStays(q, r)
BY DEF RunT, CallStays

\* The wait goes on.
LEMMA RunGoesOn ==
    ASSUME NEW r \in RunT, NEW c \in Nat, NEW n \in Nat
    PROVE  LET q == [r EXCEPT !.last = c, !.stalled = n] IN
             q \in RunT /\ q.at = r.at /\ q.index = r.index /\ CallStays(q, r)
BY DEF RunT, CallStays

\* A place in a record, and a byte of it.
LEMMA RunMoves ==
    ASSUME NEW r \in RunT, NEW at \in Places, NEW n \in Nat
    PROVE  /\ LET q == [r EXCEPT !.at = at] IN q \in RunT /\ q.at = at /\ q.index = r.index /\ CallStays(q, r)
           /\ LET q == [r EXCEPT !.index = n] IN q \in RunT /\ q.at = r.at /\ q.index = n /\ CallStays(q, r)
           /\ LET q == [r EXCEPT !.at = at, !.index = n] IN q \in RunT /\ q.at = at /\ q.index = n /\ CallStays(q, r)
BY DEF RunT, CallStays

\* A byte that was read.
LEMMA RunGrows ==
    ASSUME NEW r \in RunT, NEW s \in Seq(Nat)
    PROVE  LET q == [r EXCEPT !.got = s] IN
             q \in RunT /\ q.at = r.at /\ q.index = r.index /\ q.dir = r.dir /\ q.length = r.length /\ q.sent = r.sent
             /\ q.amount = r.amount /\ q.got = s
BY DEF RunT

\* A multiple and one more are a multiple.
LEMMA NextMultiple == ASSUME NEW n \in Nat, NEW m \in Nat \ {0}, n % m = 0 PROVE (n + m) % m = 0
<1> DEFINE k == n \div m
<1> DEFINE q == (n + m) \div m
<1> DEFINE r == (n + m) % m
<1>1. n = m * k /\ k \in Int
    BY Z3
<1>2. n + m = m * q + r /\ q \in Int /\ r \in 0 .. m - 1
    BY Z3
<1> HIDE DEF k, q, r
<1>3. m * (k + 1 - q) = r
    BY <1>1, <1>2
<1>4. ASSUME NEW d \in Int, m * d \in 0 .. m - 1 PROVE d = 0
    <2>1. d >= 1 => m * d >= m
        OBVIOUS
    <2>2. d <= -1 => m * d <= -m
        OBVIOUS
    <2> QED BY <1>4, <2>1, <2>2
<1>5. k + 1 - q = 0
    BY <1>1, <1>2, <1>3, <1>4
<1>6. r = 0
    BY <1>3, <1>5
<1> QED BY <1>6 DEF r

\* Where a record ends another can start, and where the stream does.
LEMMA NextWhole == ASSUME NEW n \in Nat, Whole(n) PROVE Whole(n + MaxRecord)
BY RecordAssumption, NextMultiple DEF Whole

\* The first record starts at one.
LEMMA FirstWhole == Whole(0)
BY RecordAssumption DEF Whole

\* Idle lines.
LEMMA IdleLevels == ASSUME lines \in LinesT PROVE IdleLines(lines) \in LinesT /\ IdleLines(lines).valid = 1 /\ IdleLines(lines).clk = 1
BY DEF IdleLines, LinesT

\* A step between two calls, which reports none that carries a stream.
LEMMA RestKeeps ==
    ASSUME RecordInv, EngineRests, UNCHANGED <<run, clock>>,
           engine' \in EngineT, engine'.busy = engine.busy, lines' \in LinesT, lines'.valid = 1, lines'.clk = 1,
           p4Record' \in TakerT, p4Record'.taken = Stream(Len(p4Record'.taken)), answered'.call \notin {"write", "read"}
    PROVE  RecordInv'
<1>1. run.at = "none" /\ run'.at = "none" /\ ~engine.busy /\ ~engine'.busy
    BY DEF EngineRests, RecordInv, CallInv, RecordTypes, EngineT
<1>2. RecordTypes'
    BY DEF RecordInv, RecordTypes
<1>3. CallInv' /\ CutInv' /\ EdgeInv' /\ TakenInv' /\ ToldInv'
    BY <1>1 DEF CallInv, CutInv, EdgeInv, TakenInv, ToldInv
<1> QED BY <1>2, <1>3 DEF RecordInv

\* The engine opens: the P4 starts anew, with nothing taken.
LEMMA OpenKeeps == ASSUME RecordInv, emos_parallel_engine_open PROVE RecordInv'
<1>1. engine \in EngineT /\ lines \in LinesT
    BY DEF RecordInv, RecordTypes
<1>2. engine' \in EngineT /\ engine'.busy = engine.busy
    BY <1>1 DEF emos_parallel_engine_open, EngineT
<1>3. p4Record' \in TakerT /\ p4Record'.taken = << >>
    BY EmptySeq DEF emos_parallel_engine_open, TakerT
<1>4. p4Record'.taken = Stream(Len(p4Record'.taken))
    BY <1>3, StreamIsEmpty, EmptySeq
<1>5. answered'.call = "open" /\ EngineRests /\ UNCHANGED <<run, clock>> /\ lines' = IdleLines(lines)
    BY DEF emos_parallel_engine_open, Answer
<1> QED BY <1>1, <1>2, <1>3, <1>4, <1>5, IdleLevels, RestKeeps

\* It closes.
LEMMA CloseKeeps == ASSUME RecordInv, emos_parallel_engine_close PROVE RecordInv'
<1>1. engine \in EngineT /\ lines \in LinesT /\ p4Record \in TakerT /\ p4Record.taken = Stream(Len(p4Record.taken))
    BY DEF RecordInv, RecordTypes, TakenInv
<1>2. engine' \in EngineT /\ engine'.busy = engine.busy
    BY <1>1 DEF emos_parallel_engine_close, EngineT
<1>3. answered'.call = "close" /\ EngineRests /\ UNCHANGED <<run, p4Record, clock>> /\ lines' = IdleLines(lines)
    BY DEF emos_parallel_engine_close, Answer
<1> QED BY <1>1, <1>2, <1>3, IdleLevels, RestKeeps

\* It refuses a stream.
LEMMA RefusedKeeps ==
    ASSUME RecordInv, WriteClosed \/ WriteFailed \/ WriteNull \/ WriteEmpty
    PROVE  RecordInv'
<1>1. engine \in EngineT /\ lines \in LinesT /\ p4Record \in TakerT /\ p4Record.taken = Stream(Len(p4Record.taken))
    BY DEF RecordInv, RecordTypes, TakenInv
<1>2. PICK result, fault : RefusedWrite(result, fault) /\ fault \in {engine.fault, "not_owned", "invalid", "ok"}
    BY DEF WriteClosed, WriteFailed, WriteNull, WriteEmpty, Latched
<1>3. engine' \in EngineT /\ engine'.busy = engine.busy
    BY <1>1, <1>2 DEF RefusedWrite, EngineT
<1>4. answered'.call = "refused" /\ EngineRests /\ UNCHANGED <<run, lines, p4Record, clock>>
    BY <1>2 DEF RefusedWrite, Answer
<1>5. lines.valid = 1 /\ lines.clk = 1
    BY <1>4 DEF EngineRests, RecordInv, EdgeInv
<1> QED BY <1>1, <1>3, <1>4, <1>5, RestKeeps

\* A step of the P4 or of the clock, or a call that meets a busy engine.
LEMMA OthersKeep ==
    ASSUME RecordInv, UNCHANGED <<engine, run, lines, answered>>, clock' \in Nat, p4Record' \in TakerT,
           p4Record'.taken = p4Record.taken, p4Record'.given = p4Record.given
    PROVE  RecordInv'
<1>1. RecordTypes' /\ CallInv' /\ CutInv'
    BY DEF RecordInv, RecordTypes, CallInv, CutInv
<1>2. EdgeInv' /\ ToldInv'
    BY DEF RecordInv, EdgeInv, ToldInv
<1>3. Past' = Past
    BY DEF Past
<1>4. TakenInv'
    BY <1>3 DEF RecordInv, TakenInv
<1> QED BY <1>1, <1>2, <1>4 DEF RecordInv

\* The P4 raises or lowers READY.
LEMMA P4Keeps == ASSUME RecordInv, P4Moves PROVE RecordInv'
<1>1. p4Record \in TakerT /\ clock \in Nat
    BY DEF RecordInv, RecordTypes
<1>2. p4Record' \in TakerT /\ p4Record'.taken = p4Record.taken /\ p4Record'.given = p4Record.given
    BY <1>1 DEF P4Moves, P4Ready, P4Done, TakerT
<1> QED BY <1>1, <1>2, OthersKeep DEF P4Moves

\* The clock advances.
LEMMA ClockKeeps == ASSUME RecordInv, ClockTicks PROVE RecordInv'
<1>1. p4Record \in TakerT /\ clock \in Nat
    BY DEF RecordInv, RecordTypes
<1>2. clock' = (clock + 1) % TickMod /\ TickMod \in Nat \ {0}
    BY RecordAssumption DEF ClockTicks
<1>3. clock' \in Nat
    BY <1>1, <1>2
<1> QED BY <1>1, <1>3, OthersKeep DEF ClockTicks

\* An interrupt calls, or nothing happens.
LEMMA NestedKeeps == ASSUME RecordInv, NestedCall \/ UNCHANGED recordVars PROVE RecordInv'
BY OthersKeep DEF RecordInv, RecordTypes, NestedCall, recordVars

\* A step within a call.
LEMMA StepKeeps ==
    ASSUME RecordInv, run.at # "none", run' \in RunT, run'.at # "none", clock' = clock,
           engine' \in EngineT, engine'.busy = engine.busy, engine'.open = engine.open, engine'.fault = engine.fault,
           lines' \in LinesT, p4Record' \in TakerT, CutInv', EdgeInv', TakenInv'
    PROVE  RecordInv'
<1>1. RecordTypes' /\ CallInv'
    BY DEF RecordInv, RecordTypes, CallInv
<1>2. ToldInv'
    BY DEF ToldInv
<1> QED BY <1>1, <1>2 DEF RecordInv

\* A call is admitted to the engine.
LEMMA BeginsKeeps ==
    ASSUME RecordInv, NEW dir_ \in {"write", "read"}, NEW n \in Lengths, dir_ = "read" => n <= MaxRecord,
           Begins(dir_, n)
    PROVE  RecordInv'
<1> DEFINE m == Smaller(n, MaxRecord)
<1> DEFINE r == [Idle EXCEPT !.dir = dir_, !.length = n, !.amount = m]
<1>1. n \in Nat \ {0} /\ MaxRecord \in Nat \ {0} /\ m \in Nat \ {0} /\ m = Smaller(n - 0, MaxRecord) /\ (dir_ = "read" => m = n)
    BY RecordAssumption DEF Smaller
<1>2. RecordTypes /\ CallInv /\ TakenInv /\ EngineRests /\ engine.open /\ engine.fault = "ok" /\ run.at = "none"
    BY DEF RecordInv, Begins, EngineRests
<1>3. engine' = [engine EXCEPT !.busy = TRUE] /\ lines' = IdleLines(lines) /\ clock' = clock
      /\ p4Record' = [p4Record EXCEPT !.taken = << >>, !.given = 0]
      /\ run' = [r EXCEPT !.at = "admission", !.started = clock, !.last = clock, !.stalled = 0]
    BY DEF Begins, Waits
<1> HIDE DEF m
<1>4. r \in RunT /\ r.dir = dir_ /\ r.length = n /\ r.sent = 0 /\ r.amount = m /\ r.got = << >>
    BY <1>1, EmptySeq DEF Idle, RunT, Places
<1> HIDE DEF r
<1>5. run' \in RunT /\ run'.at = "admission" /\ CallStays(run', r)
  <2>1. clock \in Nat /\ "admission" \in Places
      BY <1>2 DEF RecordTypes, Places
  <2> QED BY <1>3, <1>4, <2>1, RunWaits, ZenonT(60)
<1>6. run'.dir = dir_ /\ run'.length = n /\ run'.sent = 0 /\ run'.amount = m /\ run'.got = << >>
    BY <1>4, <1>5 DEF CallStays
<1>7. engine' \in EngineT /\ engine'.busy /\ engine'.open /\ engine'.fault = "ok"
    BY <1>2, <1>3 DEF RecordTypes, EngineT
<1>8. lines' \in LinesT /\ lines'.valid = 1 /\ lines'.clk = 1
    BY <1>2, <1>3, IdleLevels DEF RecordTypes
<1>9. p4Record' \in TakerT /\ p4Record'.taken = << >> /\ p4Record'.given = 0
    BY <1>2, <1>3, EmptySeq DEF RecordTypes, TakerT
<1>10. RecordTypes' /\ CallInv'
    BY <1>2, <1>3, <1>5, <1>7, <1>8, <1>9 DEF RecordTypes, CallInv
<1>11. CutInv'
    BY <1>1, <1>5, <1>6, FirstWhole DEF CutInv
<1>12. EdgeInv' /\ ToldInv'
    BY <1>5, <1>8 DEF EdgeInv, ToldInv
<1>13. Past' = 0 /\ Len(p4Record'.taken) = 0
    BY <1>5, <1>9, EmptySeq DEF Past
<1>14. TakenInv'
    BY <1>5, <1>6, <1>9, <1>13, StreamIsEmpty DEF TakenInv
<1> QED BY <1>10, <1>11, <1>12, <1>14 DEF RecordInv

\* A call ends, and what it reports is so.
LEMMA ExitsKeep ==
    ASSUME RecordInv, run.at \in Timeout, UNCHANGED <<p4Record, clock>>,
           NEW status \in {"ok", "admission_timeout", "completion_timeout"},
           NEW e \in EngineT, e.open = engine.open, e.fault = engine.fault, Exits(status, e, run),
           status = "ok" /\ run.dir = "write" => Len(p4Record.taken) = run.length,
           status # "ok" /\ run.dir = "write" => Whole(Len(p4Record.taken)) \/ Len(p4Record.taken) = run.length,
           status = "ok" /\ run.dir = "read" => run.got = Stream(run.length)
    PROVE  RecordInv'
<1>1. RecordTypes /\ CallInv /\ TakenInv /\ engine.fault = "ok"
    BY DEF RecordInv, CallInv, Timeout
<1>2. /\ engine' = [e EXCEPT !.busy = FALSE, !.fault = IF status = "ok" THEN @ ELSE Latched(status)]
      /\ run' = Idle /\ lines' = IdleLines(lines)
      /\ answered'.call = run.dir /\ answered'.length = run.length /\ answered'.got = run.got /\ answered'.result = status
    BY DEF Exits, Answer
<1>3. engine' \in EngineT /\ ~engine'.busy /\ engine'.fault = status
    BY <1>1, <1>2 DEF EngineT, Latched
<1>4. run' \in RunT /\ run'.at = "none"
    BY <1>2, EmptySeq DEF Idle, RunT, Places
<1>5. lines' \in LinesT /\ lines'.valid = 1 /\ lines'.clk = 1
    BY <1>1, <1>2, IdleLevels DEF RecordTypes
<1>6. RecordTypes' /\ CallInv' /\ CutInv' /\ EdgeInv'
    BY <1>1, <1>3, <1>4, <1>5 DEF RecordTypes, CallInv, CutInv, EdgeInv
<1>7. TakenInv'
    BY <1>1, <1>4 DEF TakenInv
<1>8. ToldInv'
    BY <1>2, <1>3, <1>4 DEF ToldInv, Whole
<1> QED BY <1>6, <1>7, <1>8 DEF RecordInv

\* A poll of a wait, the last one or not.
LEMMA WaitPollKeeps == ASSUME RecordInv, WaitPoll PROVE RecordInv'
<1> DEFINE stalled == IF clock # run.last THEN 0 ELSE run.stalled + 1
<1>1. PICK at \in Timeout :
        /\ run.at = at /\ UNCHANGED <<p4Record, clock>>
        /\ \/ Exits(Late(at), engine, run)
           \/ run' = [run EXCEPT !.last = clock, !.stalled = stalled] /\ UNCHANGED <<engine, lines, answered>>
    BY DEF WaitPoll, StandsAt
<1>2. RecordTypes /\ CallInv /\ CutInv /\ EdgeInv /\ TakenInv /\ run \in RunT
    BY DEF RecordInv, RecordTypes
<1>3. stalled \in Nat
    BY <1>2 DEF RunT
<1> HIDE DEF stalled
<1>4. CASE Exits(Late(at), engine, run)
  <2>1. run.sent \in Nat /\ run.length \in Nat /\ run.amount \in Nat /\ run.at # "none" /\ MaxRecord \in Nat
      BY <1>1, <1>2, RecordAssumption DEF RunT, Timeout
  <2>2. Whole(run.sent) /\ run.sent < run.length /\ run.amount = Smaller(run.length - run.sent, MaxRecord)
      BY <2>1, <1>2 DEF CutInv
  <2>3. ASSUME run.dir = "write" PROVE Whole(Len(p4Record.taken)) \/ Len(p4Record.taken) = run.length
    <3>1. Len(p4Record.taken) = run.sent \/ Len(p4Record.taken) = run.sent + run.amount
        BY <1>1, <1>2, <2>1, <2>3 DEF TakenInv, Past, Timeout
    <3>2. run.amount = MaxRecord \/ run.sent + run.amount = run.length
        BY <2>1, <2>2 DEF Smaller
    <3>3. Whole(run.sent + MaxRecord)
        BY <2>1, <2>2, NextWhole
    <3> QED BY <2>2, <3>1, <3>2, <3>3
  <2>4. Late(at) \in {"admission_timeout", "completion_timeout"} /\ engine \in EngineT
      BY <1>2 DEF Late, RecordTypes
  <2> QED BY <1>1, <1>4, <2>3, <2>4, ExitsKeep
<1>5. CASE run' = [run EXCEPT !.last = clock, !.stalled = stalled] /\ UNCHANGED <<engine, lines, answered>>
  <2>1. run' \in RunT /\ run'.at = run.at /\ run'.index = run.index /\ CallStays(run', run)
      BY <1>2, <1>3, <1>5, RunGoesOn DEF RecordTypes
  <2>2. run'.dir = run.dir /\ run'.length = run.length /\ run'.sent = run.sent /\ run'.amount = run.amount /\ run'.got = run.got
      BY <2>1 DEF CallStays
  <2>3. Past' = Past /\ run.at \in {"admission", "completion"}
      BY <1>1, <2>1, <2>2 DEF Past, Timeout
  <2>4. CutInv' /\ EdgeInv'
      BY <1>2, <1>5, <2>1, <2>2, <2>3 DEF CutInv, EdgeInv
  <2>5. TakenInv'
      BY <1>1, <1>2, <1>5, <2>1, <2>2, <2>3 DEF TakenInv
  <2> QED BY <1>1, <1>2, <1>5, <2>1, <2>3, <2>4, <2>5, StepKeeps DEF RecordTypes
<1> QED BY <1>1, <1>4, <1>5

\* READY is low: the record is clocked.
LEMMA AdmittedKeeps == ASSUME RecordInv, Admitted PROVE RecordInv'
<1> DEFINE at == IF run.dir = "write" THEN "data" ELSE "fall"
<1>1. /\ run.at = "admission" /\ clock' = clock /\ lines' = [lines EXCEPT !.valid = 0, !.clk = 1]
      /\ run' = [run EXCEPT !.at = at, !.index = 1] /\ UNCHANGED <<engine, p4Record, answered>>
    BY DEF Admitted, StandsAt
<1>2. RecordTypes /\ CutInv /\ TakenInv /\ run \in RunT /\ at \in Places /\ at \in {"data", "fall"} /\ (at = "data" <=> run.dir = "write")
    BY DEF RecordInv, RecordTypes, Places
<1> HIDE DEF at
<1>3. run' \in RunT /\ run'.at = at /\ run'.index = 1 /\ CallStays(run', run)
  <2>1. 1 \in Nat
      OBVIOUS
  <2> QED BY <1>1, <1>2, <2>1, RunMoves, ZenonT(60)
<1>4. run'.dir = run.dir /\ run'.length = run.length /\ run'.sent = run.sent /\ run'.amount = run.amount /\ run'.got = run.got
    BY <1>3 DEF CallStays
<1>5. lines' \in LinesT /\ lines'.valid = 0 /\ lines'.clk = 1
    BY <1>1, <1>2 DEF RecordTypes, LinesT
<1>6. run.sent \in Nat /\ run.length \in Nat /\ run.amount \in Nat /\ MaxRecord \in Nat \ {0}
      /\ run.sent < run.length /\ run.amount = Smaller(run.length - run.sent, MaxRecord)
    BY <1>1, <1>2, RecordAssumption DEF RunT, CutInv
<1>7. 1 \in 1 .. run.amount
    BY <1>6 DEF Smaller
<1>8. CutInv'
    BY <1>1, <1>2, <1>3, <1>4, <1>7 DEF CutInv
<1>9. EdgeInv'
    BY <1>2, <1>3, <1>5 DEF EdgeInv
<1>10. Past = 0 /\ Past' = 0
    BY <1>1, <1>2, <1>3 DEF Past
<1>11. TakenInv'
    BY <1>1, <1>2, <1>3, <1>4, <1>10 DEF TakenInv
<1> QED BY <1>1, <1>2, <1>3, <1>5, <1>8, <1>9, <1>11, StepKeeps DEF RecordTypes

\* A byte is put on the port.
LEMMA PutDataKeeps == ASSUME RecordInv, PutData PROVE RecordInv'
<1>1. /\ run.at = "data" /\ clock' = clock /\ lines' = [lines EXCEPT !.data = run.sent + run.index]
      /\ run' = [run EXCEPT !.at = "fall"] /\ UNCHANGED <<engine, p4Record, answered>>
    BY DEF PutData, StandsAt, StreamByte
<1>2. RecordTypes /\ CutInv /\ EdgeInv /\ TakenInv /\ run \in RunT
    BY DEF RecordInv, RecordTypes
<1>3. run' \in RunT /\ run'.at = "fall" /\ run'.index = run.index /\ CallStays(run', run)
  <2>1. "fall" \in Places
      BY DEF Places
  <2> QED BY <1>1, <1>2, <2>1, RunMoves, ZenonT(60)
<1>4. run'.dir = run.dir /\ run'.length = run.length /\ run'.sent = run.sent /\ run'.amount = run.amount /\ run'.got = run.got
    BY <1>3 DEF CallStays
<1>5. run.sent \in Nat /\ run.index \in Nat
    BY <1>2 DEF RunT
<1>6. lines' \in LinesT /\ lines'.valid = lines.valid /\ lines'.clk = lines.clk /\ lines'.data = run.sent + run.index
    BY <1>1, <1>2, <1>5 DEF RecordTypes, LinesT
<1>7. CutInv'
    BY <1>1, <1>2, <1>3, <1>4, <1>6 DEF CutInv
<1>8. EdgeInv' /\ Past' = Past
    BY <1>1, <1>2, <1>3, <1>6 DEF EdgeInv, Past
<1>9. TakenInv'
    BY <1>1, <1>2, <1>3, <1>4, <1>8 DEF TakenInv
<1> QED BY <1>1, <1>2, <1>3, <1>6, <1>7, <1>8, <1>9, StepKeeps DEF RecordTypes

\* CLOCK falls: the P4 takes the byte that is on the port, or puts the next one out.
LEMMA ClockFallsKeeps == ASSUME RecordInv, ClockFalls PROVE RecordInv'
<1>1. /\ run.at = "fall" /\ clock' = clock /\ run' = [run EXCEPT !.at = "rise"] /\ UNCHANGED <<engine, answered>>
      /\ lines' = [lines EXCEPT !.clk = 0, !.data = IF run.dir = "read" THEN p4Record.given + 1 ELSE @]
      /\ p4Record' = IF run.dir = "read" THEN [p4Record EXCEPT !.given = @ + 1]
                     ELSE [p4Record EXCEPT !.record = @ + 1, !.taken = Append(@, lines.data)]
    BY DEF ClockFalls, StandsAt, StreamByte
<1>2. RecordTypes /\ CutInv /\ EdgeInv /\ TakenInv /\ run \in RunT
    BY DEF RecordInv, RecordTypes
<1>3. run' \in RunT /\ run'.at = "rise" /\ run'.index = run.index /\ CallStays(run', run)
  <2>1. "rise" \in Places
      BY DEF Places
  <2> QED BY <1>1, <1>2, <2>1, RunMoves, ZenonT(60)
<1>4. run'.dir = run.dir /\ run'.length = run.length /\ run'.sent = run.sent /\ run'.amount = run.amount /\ run'.got = run.got
    BY <1>3 DEF CallStays
<1>5. run.sent \in Nat /\ run.amount \in Nat /\ run.index \in Nat /\ run.index \in 1 .. run.amount
      /\ run.dir \in {"write", "read"} /\ (run.dir = "write" => lines.data = run.sent + run.index)
    BY <1>1, <1>2 DEF RunT, CutInv
<1>6. Past = run.index - 1 /\ Past' = run.index - 1
    BY <1>1, <1>3 DEF Past
<1>7. p4Record \in TakerT /\ lines \in LinesT /\ p4Record.given \in Nat /\ p4Record.taken \in Seq(Nat) /\ lines.data \in Nat
    BY <1>2 DEF RecordTypes, TakerT, LinesT
<1>8. lines' \in LinesT /\ lines'.valid = lines.valid /\ lines'.clk = 0
      /\ lines'.data = (IF run.dir = "read" THEN p4Record.given + 1 ELSE lines.data)
  <2> DEFINE d == IF run.dir = "read" THEN p4Record.given + 1 ELSE lines.data
  <2>1. d \in Nat /\ lines' = [lines EXCEPT !.clk = 0, !.data = d]
      BY <1>1, <1>7 DEF LinesT
  <2> HIDE DEF d
  <2>2. lines' \in LinesT /\ lines'.valid = lines.valid /\ lines'.clk = 0 /\ lines'.data = d
      BY <1>7, <2>1 DEF LinesT
  <2> QED BY <2>2 DEF d
<1>9. CutInv'
    BY <1>1, <1>2, <1>3, <1>4 DEF CutInv
<1>10. EdgeInv'
    BY <1>1, <1>2, <1>3, <1>8 DEF EdgeInv
<1>11. CASE run.dir = "read"
  <2>1. p4Record' \in TakerT /\ p4Record'.taken = p4Record.taken /\ p4Record'.given = p4Record.given + 1
      BY <1>1, <1>7, <1>11 DEF TakerT
  <2>2. p4Record.given = run.index - 1 /\ run.got = Stream(run.index - 1)
      BY <1>1, <1>2, <1>5, <1>6, <1>11 DEF TakenInv
  <2>3. p4Record.taken = Stream(Len(p4Record.taken))
      BY <1>2 DEF TakenInv
  <2>4. TakenInv'
      BY <1>3, <1>4, <1>5, <1>6, <1>8, <1>11, <2>1, <2>2, <2>3 DEF TakenInv
  <2> QED BY <1>1, <1>2, <1>3, <1>8, <1>9, <1>10, <2>1, <2>4, StepKeeps DEF RecordTypes
<1>12. CASE run.dir = "write"
  <2> DEFINE n == run.sent + run.index - 1
  <2>1. n \in Nat /\ n + 1 = run.sent + run.index
      BY <1>5
  <2>2. p4Record.taken = Stream(n) /\ lines.data = n + 1
      BY <1>1, <1>2, <1>5, <1>6, <1>12, <2>1 DEF TakenInv
  <2>3. n + 1 \in Nat
      BY <2>1
  <2> HIDE DEF n
  <2>4. p4Record'.taken = Append(p4Record.taken, lines.data) /\ p4Record' \in TakerT
    <3> DEFINE s == Append(p4Record.taken, lines.data)
    <3> DEFINE m == p4Record.record + 1
    <3>1. s \in Seq(Nat) /\ m \in Nat
        BY <1>7, AppendProperties DEF TakerT
    <3>2. p4Record' = [p4Record EXCEPT !.record = m, !.taken = s]
        BY <1>1, <1>7, <1>12 DEF TakerT
    <3> HIDE DEF s, m
    <3>3. p4Record' \in TakerT /\ p4Record'.taken = s
        BY <1>7, <3>1, <3>2 DEF TakerT
    <3> QED BY <3>3 DEF s
  <2>5. p4Record'.taken = Stream(n + 1) /\ Len(p4Record'.taken) = n + 1
      BY <2>1, <2>2, <2>3, <2>4, StreamIs
  <2>6. TakenInv'
      BY <1>3, <1>4, <1>5, <1>6, <1>12, <2>1, <2>5 DEF TakenInv
  <2> QED BY <1>1, <1>2, <1>3, <1>8, <1>9, <1>10, <2>4, <2>6, StepKeeps DEF RecordTypes
<1> QED BY <1>5, <1>11, <1>12

\* CLOCK rises: EMOS has the byte that is on the port; the next one follows, or the wait
\* for the completion.
LEMMA ClockRisesKeeps == ASSUME RecordInv, ClockRises PROVE RecordInv'
<1> DEFINE got == IF run.dir = "read" THEN [run EXCEPT !.got = Append(@, lines.data)] ELSE run
<1> DEFINE at == IF run.dir = "write" THEN "data" ELSE "fall"
<1>1. /\ run.at = "rise" /\ clock' = clock /\ UNCHANGED <<engine, p4Record, answered>>
      /\ IF run.index = run.amount
         THEN /\ run' = [got EXCEPT !.at = "completion", !.started = clock, !.last = clock, !.stalled = 0]
              /\ lines' = IdleLines(lines)
         ELSE run' = [[got EXCEPT !.index = @ + 1] EXCEPT !.at = at] /\ lines' = [lines EXCEPT !.clk = 1]
    BY DEF ClockRises, StandsAt, Waits, NextByte
<1>2. RecordTypes /\ CutInv /\ EdgeInv /\ TakenInv /\ run \in RunT /\ lines.data \in Nat /\ run.got \in Seq(Nat)
    BY DEF RecordInv, RecordTypes, RunT, LinesT
<1>3. /\ run.sent \in Nat /\ run.amount \in Nat /\ run.index \in Nat /\ run.index \in 1 .. run.amount
      /\ run.dir \in {"write", "read"} /\ Past = run.index - 1
      /\ run.sent < run.length /\ Whole(run.sent) /\ run.amount = Smaller(run.length - run.sent, MaxRecord)
      /\ run.dir = "read" => run.amount = run.length /\ run.sent = 0
    BY <1>1, <1>2 DEF RunT, CutInv, Past
<1>4. /\ got \in RunT /\ got.index = run.index /\ got.dir = run.dir /\ got.length = run.length /\ got.sent = run.sent
      /\ got.amount = run.amount /\ (run.dir = "read" => got.got = Append(run.got, lines.data))
  <2>1. Append(run.got, lines.data) \in Seq(Nat)
      BY <1>2, AppendProperties
  <2>2. CASE run.dir = "read"
    <3>1. got = [run EXCEPT !.got = Append(run.got, lines.data)]
        BY <2>2
    <3> HIDE DEF got
    <3> QED BY <1>2, <2>1, <2>2, <3>1, RunGrows
  <2>3. CASE run.dir # "read"
      BY <1>2, <2>3
  <2> QED BY <2>2, <2>3
<1> HIDE DEF got
<1>5. ASSUME run.dir = "read" PROVE got.got = Stream(run.index)
  <2>1. run.got = Stream(run.index - 1) /\ lines.data = run.index
      BY <1>1, <1>2, <1>3, <1>5 DEF TakenInv
  <2>2. run.index - 1 \in Nat /\ (run.index - 1) + 1 = run.index
      BY <1>3
  <2> QED BY <1>4, <1>5, <2>1, <2>2, StreamIs
<1>6. p4Record.taken = Stream(Len(p4Record.taken))
      /\ (run.dir = "write" => Len(p4Record.taken) = run.sent + run.index)
      /\ (run.dir = "read" => p4Record.given = run.index)
    BY <1>1, <1>2, <1>3 DEF TakenInv
<1>7. CASE run.index = run.amount
  <2>1. run' = [got EXCEPT !.at = "completion", !.started = clock, !.last = clock, !.stalled = 0] /\ lines' = IdleLines(lines)
      BY <1>1, <1>7
  <2>2. clock \in Nat /\ "completion" \in Places
      BY <1>2 DEF RecordTypes, Places
  <2>3. run' \in RunT /\ run'.at = "completion" /\ CallStays(run', got)
      BY <1>4, <2>1, <2>2, RunWaits, ZenonT(60)
  <2>4. run'.dir = run.dir /\ run'.length = run.length /\ run'.sent = run.sent /\ run'.amount = run.amount /\ run'.got = got.got
      BY <1>4, <2>3 DEF CallStays
  <2>5. lines' \in LinesT /\ lines'.valid = 1 /\ lines'.clk = 1
      BY <1>2, <2>1, IdleLevels DEF RecordTypes
  <2>6. CutInv' /\ EdgeInv'
      BY <1>3, <2>3, <2>4, <2>5 DEF CutInv, EdgeInv
  <2>7. Past' = run.amount
      BY <2>3, <2>4 DEF Past
  <2>8. TakenInv'
      BY <1>1, <1>3, <1>5, <1>6, <1>7, <2>3, <2>4, <2>7 DEF TakenInv
  <2> QED BY <1>1, <1>2, <2>3, <2>5, <2>6, <2>8, StepKeeps DEF RecordTypes
<1>8. CASE run.index # run.amount
  <2> DEFINE n == run.index + 1
  <2> DEFINE q == [got EXCEPT !.index = n]
  <2>1. run' = [q EXCEPT !.at = at] /\ lines' = [lines EXCEPT !.clk = 1]
      BY <1>1, <1>4, <1>8
  <2>2. at \in Places /\ at \in {"data", "fall"} /\ n \in Nat /\ n \in 1 .. run.amount /\ (at = "data" <=> run.dir = "write")
      BY <1>3, <1>8 DEF Places
  <2> HIDE DEF at, n
  <2>3. q \in RunT /\ q.index = n /\ CallStays(q, got)
      BY <1>4, <2>2, RunMoves, ZenonT(60)
  <2> HIDE DEF q
  <2>4. run' \in RunT /\ run'.at = at /\ run'.index = n /\ CallStays(run', q)
      BY <2>1, <2>2, <2>3, RunMoves, ZenonT(60)
  <2>5. run'.dir = run.dir /\ run'.length = run.length /\ run'.sent = run.sent /\ run'.amount = run.amount /\ run'.got = got.got
      BY <1>4, <2>3, <2>4 DEF CallStays
  <2>6. lines' \in LinesT /\ lines'.valid = lines.valid /\ lines'.clk = 1
      BY <1>2, <2>1 DEF RecordTypes, LinesT
  <2>7. CutInv'
      BY <1>3, <2>2, <2>4, <2>5, <1>1, <1>2 DEF CutInv
  <2>8. EdgeInv'
      BY <1>1, <1>2, <2>2, <2>4, <2>6 DEF EdgeInv
  <2>9. Past' = run.index
      BY <1>3, <2>2, <2>4 DEF Past, n
  <2>10. TakenInv'
      BY <1>1, <1>3, <1>5, <1>6, <2>2, <2>4, <2>5, <2>9 DEF TakenInv
  <2> QED BY <1>1, <1>2, <2>2, <2>4, <2>6, <2>7, <2>8, <2>10, StepKeeps DEF RecordTypes
<1> QED BY <1>7, <1>8

\* READY is high again: the stream goes on where the record has ended, or is whole.
LEMMA CompletedKeeps == ASSUME RecordInv, Completed PROVE RecordInv'
<1> DEFINE e == [engine EXCEPT !.records = @ + 1, !.bytes = @ + run.amount]
<1> DEFINE m == Smaller(run.length - run.sent - run.amount, MaxRecord)
<1> DEFINE q == [run EXCEPT !.sent = run.sent + run.amount, !.amount = m]
<1>1. /\ run.at = "completion" /\ UNCHANGED <<p4Record, clock>>
      /\ IF run.sent + run.amount < run.length
         THEN /\ engine' = e /\ run' = [q EXCEPT !.at = "admission", !.started = clock, !.last = clock, !.stalled = 0]
              /\ lines' = IdleLines(lines)
         ELSE Exits("ok", e, run)
    BY DEF Completed, StandsAt, Waits, NextRecord
<1>2. RecordTypes /\ CallInv /\ CutInv /\ EdgeInv /\ TakenInv /\ run \in RunT
    BY DEF RecordInv, RecordTypes
<1>3. /\ run.sent \in Nat /\ run.amount \in Nat /\ run.length \in Nat /\ MaxRecord \in Nat \ {0}
      /\ run.dir \in {"write", "read"} /\ Past = run.amount
      /\ run.sent < run.length /\ Whole(run.sent) /\ run.amount = Smaller(run.length - run.sent, MaxRecord)
      /\ run.dir = "read" => run.amount = run.length /\ run.sent = 0
    BY <1>1, <1>2, RecordAssumption DEF RunT, CutInv, Past
<1>4. e \in EngineT /\ e.open = engine.open /\ e.fault = engine.fault /\ e.busy = engine.busy
  <2> DEFINE n == engine.records + 1
  <2> DEFINE b == engine.bytes + run.amount
  <2>1. engine \in EngineT /\ n \in Nat /\ b \in Nat /\ e = [engine EXCEPT !.records = n, !.bytes = b]
      BY <1>2, <1>3 DEF RecordTypes, EngineT
  <2> HIDE DEF e, n, b
  <2> QED BY <2>1 DEF EngineT
<1> HIDE DEF e
<1>5. /\ run.dir = "write" => Len(p4Record.taken) = run.sent + run.amount
      /\ run.dir = "read" => run.got = Stream(run.amount)
      /\ p4Record.taken = Stream(Len(p4Record.taken))
    BY <1>1, <1>2, <1>3 DEF TakenInv
<1>6. CASE run.sent + run.amount < run.length
  <2>1. run.amount = MaxRecord /\ run.dir = "write" /\ run.sent + run.amount \in Nat
      BY <1>3, <1>6 DEF Smaller
  <2>2. Whole(run.sent + run.amount)
      BY <1>3, <2>1, NextWhole
  <2>3. m \in Nat /\ m = Smaller(run.length - (run.sent + run.amount), MaxRecord)
      BY <1>3, <1>6 DEF Smaller
  <2> HIDE DEF m
  <2>4. q \in RunT /\ q.dir = run.dir /\ q.length = run.length /\ q.sent = run.sent + run.amount /\ q.amount = m
    <3> DEFINE s == run.sent + run.amount
    <3>1. s \in Nat /\ q = [run EXCEPT !.sent = s, !.amount = m]
        BY <2>1
    <3> HIDE DEF q, s
    <3>2. q \in RunT /\ q.dir = run.dir /\ q.length = run.length /\ q.sent = s /\ q.amount = m
        BY <1>2, <2>3, <3>1 DEF RunT
    <3> QED BY <3>2 DEF s
  <2>5. engine' = e /\ run' = [q EXCEPT !.at = "admission", !.started = clock, !.last = clock, !.stalled = 0]
        /\ lines' = IdleLines(lines)
      BY <1>1, <1>6
  <2> HIDE DEF q
  <2>6. clock \in Nat /\ "admission" \in Places
      BY <1>2 DEF RecordTypes, Places
  <2>7. run' \in RunT /\ run'.at = "admission" /\ CallStays(run', q)
      BY <2>4, <2>5, <2>6, RunWaits, ZenonT(60)
  <2>8. run'.dir = run.dir /\ run'.length = run.length /\ run'.sent = run.sent + run.amount /\ run'.amount = m
      BY <2>4, <2>7 DEF CallStays
  <2>9. lines' \in LinesT /\ lines'.valid = 1 /\ lines'.clk = 1
      BY <1>2, <2>5, IdleLevels DEF RecordTypes
  <2>10. CutInv' /\ EdgeInv'
      BY <1>6, <2>1, <2>2, <2>3, <2>7, <2>8, <2>9 DEF CutInv, EdgeInv
  <2>11. Past' = 0
      BY <2>7 DEF Past
  <2>12. TakenInv'
      BY <1>1, <1>5, <2>1, <2>7, <2>8, <2>11 DEF TakenInv
  <2> QED BY <1>1, <1>2, <1>4, <2>5, <2>7, <2>9, <2>10, <2>12, StepKeeps DEF RecordTypes
<1>7. CASE ~(run.sent + run.amount < run.length)
  <2>1. run.sent + run.amount = run.length
      BY <1>3, <1>7 DEF Smaller
  <2>2. Exits("ok", e, run) /\ run.at \in Timeout
      BY <1>1, <1>7 DEF Timeout
  <2> QED BY <1>1, <1>3, <1>4, <1>5, <2>1, <2>2, ExitsKeep
<1> QED BY <1>6, <1>7

\* The engine is closed at first.
LEMMA RecordInvInit == ASSUME RecordInit PROVE RecordInv
<1> USE DEF RecordInit
<1>1. engine \in EngineT /\ lines \in LinesT /\ ~engine.busy /\ lines.valid = 1 /\ lines.clk = 1
    BY DEF EngineT, LinesT
<1>2. run \in RunT /\ run.at = "none"
    BY EmptySeq DEF Idle, RunT, Places
<1>3. p4Record \in TakerT /\ p4Record.taken = << >> /\ p4Record.taken = Stream(Len(p4Record.taken))
    BY EmptySeq, StreamIsEmpty DEF TakerT
<1>4. clock \in Nat /\ answered.call = "none"
    BY RecordAssumption
<1> QED BY <1>1, <1>2, <1>3, <1>4 DEF RecordInv, RecordTypes, CallInv, CutInv, EdgeInv, TakenInv, ToldInv

\* Every step keeps the invariant.
LEMMA RecordInvNext == RecordInv /\ [RecordNext]_recordVars => RecordInv'
<1> SUFFICES ASSUME RecordInv, [RecordNext]_recordVars PROVE RecordInv'
    OBVIOUS
<1>1. CASE emos_parallel_engine_write
    BY <1>1, BeginsKeeps DEF emos_parallel_engine_write
<1>2. CASE emos_parallel_engine_read
    BY <1>2, BeginsKeeps DEF emos_parallel_engine_read
<1> QED BY <1>1, <1>2, OpenKeeps, CloseKeeps, RefusedKeeps, NestedKeeps, P4Keeps, ClockKeeps, WaitPollKeeps, AdmittedKeeps,
           PutDataKeeps, ClockFallsKeeps, ClockRisesKeeps, CompletedKeeps DEF RecordNext, RecordStep

\* The invariant of the record engine, for every size of record and of stream, and however
\* long the P4 takes (emos_parallel_engine_write, emos_parallel_engine_read).
THEOREM RecordInvariant == RecordSpec => []RecordInv
BY RecordInvInit, RecordInvNext, PTL DEF RecordSpec

\* What the P4 has is the beginning of the stream, byte for byte; a call that succeeds has
\* carried all of it, and one that fails stops between two records.
THEOREM StreamsAreAlwaysWhole == RecordSpec => []StreamsAreWhole
<1>1. RecordInv => StreamsAreWhole
    BY DEF RecordInv, CallInv, EdgeInv, TakenInv, ToldInv, StreamsAreWhole
<1> QED BY <1>1, RecordInvariant, PTL
=============================================================================

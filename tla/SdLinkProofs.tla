---------------------------- MODULE SdLinkProofs ----------------------------
(***************************************************************************)
(* Proofs about the SD link: FileTransfer, for all files of any blocks and *)
(* any number of transfers; SdAdmission, for every top of the sequence     *)
(* numbers, every number of generations and any number of jobs, restarts   *)
(* of the peer and packets on the way; and SdService, for every size of    *)
(* the uploads and any number of uploads, failed calls, bad blocks and     *)
(* power cuts.  That an old or a new file survives rests on what the calls *)
(* left of a request may be when the power goes: the invariant says of     *)
(* each request which calls are left, in their order, and what of the card *)
(* they rely on.                                                           *)
(***************************************************************************)
EXTENDS SdService, SdAdmission, FileTransfer, SequenceTheorems, TLAPS

-----------------------------------------------------------------------------
(* The transfer of a file.                                                 *)

TransferPlaces == {"idle", "open", "hello", "claim", "ready", "files", "size", "stat", "begin", "copy",
                   "finish", "activate", "end", "done"}
TransferResults == {"OK", "IO", "UNCERTAIN", "PROTOCOL", "BUSY", "UNAVAILABLE", "CANCELLED", "RECOVERY"}
TransferT ==
  [at : TransferPlaces, receive : BOOLEAN, overwrite : BOOLEAN, offset : Nat, total : Nat, sum : Seq(Blocks),
   cancelled : BOOLEAN, opened : BOOLEAN, claimed : BOOLEAN, staged : BOOLEAN, committed : BOOLEAN,
   r : TransferResults, n : Nat]
TransferTypes ==
  /\ transfer \in TransferT /\ source \in Seq(Blocks)
  /\ history = [had |-> history.had, before |-> history.before, left |-> history.left, changes |-> history.changes]
  /\ history.had \subseteq Seq(Blocks) /\ history.changes \in Nat
  /\ source \in history.had /\ (history.changes = 0 => history.had = {source})

\* The blocks s are the first of the file f.
Begins(s, f) == Len(s) <= Len(f) /\ \A i \in 1 .. Len(s) : s[i] = f[i]

\* The first pass reads one file, or the last one after the only change.
SumInv ==
  /\ transfer.at \in {"open", "hello", "claim", "ready", "files"} => transfer.offset = 0
  /\ transfer.at = "size" =>
       /\ transfer.offset > 0 => transfer.offset < transfer.total
       /\ history.changes <= 1 =>
            \/ \E f \in history.had : Begins(transfer.sum, f) /\ (transfer.offset > 0 => Len(f) = transfer.total)
            \/ transfer.offset > 0 /\ history.changes = 1 /\ Len(source) = transfer.total
  /\ transfer.at \in {"open", "hello", "claim", "ready", "files", "size"} => Len(transfer.sum) = transfer.offset
Summed == {"stat", "begin", "copy", "finish", "activate"}
Mixed == transfer.sum \notin history.had
MixInv ==
  transfer.at \in Summed =>
    /\ Len(transfer.sum) = transfer.total
    /\ history.changes <= 1 /\ Mixed => history.changes = 1 /\ Len(source) = transfer.total

\* The second pass: after a mixture it reads the last file.
Copying == {"copy", "finish", "activate"}
CopyInv ==
  /\ transfer.at \in {"stat", "begin"} => transfer.offset = 0
  /\ transfer.at \in Copying =>
       /\ part = [expect |-> transfer.sum, got |-> part.got] /\ part.got \in Seq(Blocks)
       /\ Len(part.got) = transfer.offset /\ transfer.offset <= transfer.total
       /\ history.changes <= 1 /\ Mixed => Begins(part.got, source)
  /\ transfer.at \in {"finish", "activate"} => transfer.offset = transfer.total
  /\ transfer.at = "activate" => part.got = part.expect

\* What is known of the stage, and what has become of the destination.
StageInv ==
  /\ ~transfer.staged => dest = history.before /\ part = history.left /\ transfer.at \notin Copying \cup {"end"}
  /\ transfer.committed => part = NoPart /\ (history.changes <= 1 => dest \in history.had)
  /\ transfer.at = "end" => transfer.committed
  /\ transfer.committed => transfer.at \in {"end", "done", "idle"}
EndInv ==
  /\ transfer.at = "done" /\ transfer.r = "OK" => transfer.committed
  /\ transfer.at = "idle" /\ transfer.n > 0 /\ transfer.r = "OK" => transfer.committed
  /\ transfer.at = "idle" /\ transfer.r \notin {"OK", "RECOVERY"} /\ ~transfer.committed => ~transfer.staged

TransferInv == TransferTypes /\ SumInv /\ MixInv /\ CopyInv /\ StageInv /\ EndInv /\ DestinationIsWhole

-----------------------------------------------------------------------------

\* The fields after a change of the place alone.
LEMMA Placed ==
  ASSUME NEW t \in TransferT, NEW at \in TransferPlaces
  PROVE  LET u == [t EXCEPT !.at = at]
         IN /\ u \in TransferT /\ u.at = at
            /\ u.offset = t.offset /\ u.total = t.total /\ u.sum = t.sum /\ u.receive = t.receive
            /\ u.staged = t.staged /\ u.committed = t.committed /\ u.r = t.r /\ u.n = t.n
BY DEF TransferT

\* The fields after a failure.
LEMMA Failed ==
  ASSUME NEW t \in TransferT, NEW r \in TransferResults
  PROVE  LET u == [t EXCEPT !.at = "done", !.r = r]
         IN /\ u \in TransferT /\ u.at = "done" /\ u.r = r
            /\ u.offset = t.offset /\ u.total = t.total /\ u.sum = t.sum
            /\ u.staged = t.staged /\ u.committed = t.committed /\ u.n = t.n
BY DEF TransferT, TransferPlaces

\* A transfer that fails: what was staged is still known, and the destination is
\* as it was or one of the files.
LEMMA FailKeeps ==
  ASSUME TransferInv, NEW r \in TransferResults, Fail(r), UNCHANGED <<source, history>>,
         r = "OK" => transfer.committed,
         ~transfer.staged \/ transfer.committed => UNCHANGED <<dest, part>>,
         DestinationIsWhole'
  PROVE  TransferInv'
<1>1. /\ transfer' \in TransferT /\ transfer'.at = "done" /\ transfer'.r = r
      /\ transfer'.staged = transfer.staged /\ transfer'.committed = transfer.committed
    BY Failed DEF Fail, TransferInv, TransferTypes
<1>2. TransferTypes'
    BY <1>1 DEF TransferInv, TransferTypes
<1>3. SumInv' /\ MixInv' /\ CopyInv'
    BY <1>1 DEF SumInv, MixInv, CopyInv, Summed, Copying
<1>4. StageInv'
    BY <1>1 DEF TransferInv, StageInv, Copying
<1>5. EndInv'
    BY <1>1 DEF EndInv
<1> QED BY <1>2, <1>3, <1>4, <1>5 DEF TransferInv

\* A transfer that goes on, before it reads the source.
LEMMA GoesOn ==
  ASSUME TransferInv, UNCHANGED <<source, dest, part, history>>,
         transfer.at \in {"open", "hello", "claim", "ready", "files"},
         transfer' \in TransferT, transfer'.at \in {"hello", "claim", "ready", "files", "size"},
         transfer'.offset = transfer.offset, transfer'.total = transfer.total, transfer'.sum = transfer.sum,
         transfer'.staged = transfer.staged, transfer'.committed = transfer.committed
  PROVE  TransferInv'
<1>1. TransferTypes'
    BY DEF TransferInv, TransferTypes
<1>2. transfer.offset = 0 /\ Len(transfer.sum) = 0 /\ Len(transfer'.sum) = 0 /\ transfer.sum \in Seq(Blocks)
    BY DEF TransferInv, SumInv, TransferTypes, TransferT
<1>3. SumInv'
  <2>1. Begins(transfer'.sum, source) /\ source \in history'.had /\ transfer'.offset = 0
      BY <1>2 DEF Begins, TransferInv, TransferTypes
  <2> QED BY <1>2, <2>1 DEF SumInv
<1>4. MixInv' /\ CopyInv'
    BY DEF MixInv, CopyInv, Summed, Copying
<1>5. StageInv' /\ EndInv'
    BY DEF TransferInv, StageInv, EndInv, Copying
<1> QED BY <1>1, <1>3, <1>4, <1>5 DEF TransferInv, DestinationIsWhole

\* emos_file_transfer starts with nothing read or staged.
LEMMA StartKeeps ==
  ASSUME TransferInv, NEW receive \in BOOLEAN, NEW overwrite \in BOOLEAN, emos_file_transfer(receive, overwrite)
  PROVE  TransferInv'
<1>1. /\ transfer' \in TransferT /\ transfer'.at = "open" /\ transfer'.offset = 0 /\ transfer'.sum = << >>
      /\ ~transfer'.staged /\ ~transfer'.committed
  <2>1. NoTransfer \in TransferT /\ transfer.n + 1 \in Nat
      BY DEF NoTransfer, TransferT, TransferPlaces, TransferResults, TransferInv, TransferTypes
  <2>2. /\ transfer' = [[[[NoTransfer EXCEPT !.at = "open"] EXCEPT !.receive = receive] EXCEPT !.overwrite = overwrite]
                         EXCEPT !.n = transfer.n + 1]
      BY DEF emos_file_transfer
  <2>3. NoTransfer.offset = 0 /\ NoTransfer.sum = << >> /\ ~NoTransfer.staged /\ ~NoTransfer.committed
      BY DEF NoTransfer
  <2> HIDE DEF NoTransfer
  <2> QED BY <2>1, <2>2, <2>3 DEF TransferT, TransferPlaces
<1>2. history'.had = {source} /\ history'.changes = 0 /\ history'.before = dest /\ history'.left = part
      /\ UNCHANGED <<source, dest, part>>
    BY DEF emos_file_transfer
<1>3. history' = [had |-> history'.had, before |-> history'.before, left |-> history'.left,
                  changes |-> history'.changes]
    BY DEF emos_file_transfer
<1>4. TransferTypes'
    BY <1>1, <1>2, <1>3 DEF TransferInv, TransferTypes
<1>5. SumInv' /\ MixInv' /\ CopyInv'
    BY <1>1 DEF SumInv, MixInv, CopyInv, Summed, Copying
<1>6. StageInv' /\ EndInv' /\ DestinationIsWhole'
    BY <1>1, <1>2 DEF StageInv, EndInv, DestinationIsWhole, Copying
<1> QED BY <1>4, <1>5, <1>6 DEF TransferInv

\* A cancellation is only noted; its effect is another step.
LEMMA NotesCancel == ASSUME TransferInv, poll_cancel PROVE TransferInv'
<1>1. /\ transfer' \in TransferT /\ transfer'.at = transfer.at /\ transfer'.offset = transfer.offset
      /\ transfer'.total = transfer.total /\ transfer'.sum = transfer.sum /\ transfer'.staged = transfer.staged
      /\ transfer'.committed = transfer.committed /\ transfer'.r = transfer.r /\ transfer'.n = transfer.n
      /\ UNCHANGED <<source, dest, part, history>>
    BY DEF poll_cancel, TransferInv, TransferTypes, TransferT
<1> QED BY <1>1 DEF TransferInv, TransferTypes, SumInv, MixInv, Mixed, CopyInv, StageInv, EndInv, DestinationIsWhole

\* The ends of a transfer before it has staged anything, and in the middle of it.
LEMMA CancelledKeeps == ASSUME TransferInv, Cancelled PROVE TransferInv'
BY FailKeeps DEF Cancelled, TransferResults, TransferInv, DestinationIsWhole

\* The link and the exchanges before the first pass.
LEMMA OpenKeeps == ASSUME TransferInv, sdapp_link_open PROVE TransferInv'
<1>1. CASE transfer' = [transfer EXCEPT !.at = "hello", !.opened = TRUE]
  <2>1. /\ transfer' \in TransferT /\ transfer'.at = "hello" /\ transfer'.offset = transfer.offset
        /\ transfer'.total = transfer.total /\ transfer'.sum = transfer.sum /\ transfer'.staged = transfer.staged
        /\ transfer'.committed = transfer.committed
      BY <1>1 DEF TransferInv, TransferTypes, TransferT, TransferPlaces
  <2> QED BY <2>1, GoesOn DEF sdapp_link_open, Goes, Place
<1>2. CASE \E r \in {"BUSY", "UNAVAILABLE"} : Fail(r)
    BY <1>2, FailKeeps DEF sdapp_link_open, TransferResults, TransferInv, DestinationIsWhole
<1>3. CASE transfer' = [transfer EXCEPT !.at = "done", !.r = "PROTOCOL", !.opened = TRUE]
  <2>1. /\ transfer' \in TransferT /\ transfer'.at = "done" /\ transfer'.r = "PROTOCOL"
        /\ transfer'.staged = transfer.staged /\ transfer'.committed = transfer.committed
      BY <1>3 DEF TransferInv, TransferTypes, TransferT, TransferPlaces, TransferResults
  <2>2. UNCHANGED <<source, dest, part, history>>
      BY DEF sdapp_link_open
  <2> QED BY <2>1, <2>2 DEF TransferInv, TransferTypes, SumInv, MixInv, CopyInv, StageInv, EndInv, DestinationIsWhole,
                            Summed, Copying
<1> QED BY <1>1, <1>2, <1>3 DEF sdapp_link_open

\* An exchange of a control record before the file is read.
LEMMA ExchangeKeeps ==
  ASSUME TransferInv, NEW at \in {"hello", "claim", "ready", "files"}, NEW next \in {"claim", "ready", "files", "size"},
         control(at, next)
  PROVE  TransferInv'
<1>1. transfer.at = at /\ UNCHANGED <<source, dest, part, history>>
    BY DEF control, Goes, Place
<1>2. CASE transfer' = [transfer EXCEPT !.at = next, !.claimed = @ \/ at = "claim"]
  <2>1. /\ transfer' \in TransferT /\ transfer'.at = next /\ transfer'.offset = transfer.offset
        /\ transfer'.total = transfer.total /\ transfer'.sum = transfer.sum /\ transfer'.staged = transfer.staged
        /\ transfer'.committed = transfer.committed
      BY <1>2 DEF TransferInv, TransferTypes, TransferT, TransferPlaces
  <2> QED BY <1>1, <2>1, GoesOn
<1>3. CASE \E r \in Refusals(at) : Fail(r)
  <2>1. Refusals(at) \subseteq TransferResults \ {"OK"}
      BY DEF Refusals, TransferResults
  <2> QED BY <1>1, <1>3, <2>1, FailKeeps DEF TransferInv, DestinationIsWhole
<1> QED BY <1>2, <1>3 DEF control

\* One block more of a file.
LEMMA OneMore ==
  ASSUME NEW s \in Seq(Blocks), NEW f \in Seq(Blocks), Len(s) < Len(f)
  PROVE  LET t == s \o <<f[Len(s) + 1]>>
         IN /\ t \in Seq(Blocks) /\ Len(t) = Len(s) + 1
            /\ Begins(s, f) => Begins(t, f)
<1> DEFINE x == f[Len(s) + 1]
           t == s \o <<x>>
<1>1. x \in Blocks
    BY LenProperties, ElementOfSeq
<1>2. <<x>> \in Seq(Blocks) /\ Len(<<x>>) = 1 /\ <<x>>[1] = x
    BY <1>1
<1> HIDE DEF x
<1>3. t \in Seq(Blocks) /\ Len(t) = Len(s) + 1 /\ t[Len(s) + 1] = x /\ \A i \in 1 .. Len(s) : t[i] = s[i]
    BY <1>2, ConcatProperties
<1>4. ASSUME Begins(s, f) PROVE Begins(t, f)
  <2>1. x = f[Len(s) + 1]
      BY DEF x
  <2> HIDE DEF t
  <2> QED BY <1>3, <1>4, <2>1 DEF Begins
<1> QED BY <1>3, <1>4 DEF x

\* A file that begins another of its length is the other.
LEMMA WholeFile ==
  ASSUME NEW s \in Seq(Blocks), NEW f \in Seq(Blocks), Begins(s, f), Len(s) = Len(f)
  PROVE  s = f
BY SeqEqual DEF Begins

\* The fields after a block was read.
Counted(t, total, sum, offset, at) ==
  [[[[t EXCEPT !.total = total] EXCEPT !.sum = sum] EXCEPT !.offset = offset] EXCEPT !.at = at]
\* What the block changes is what is counted, and the rest stays.
LEMMA Reread ==
  ASSUME NEW t \in TransferT, NEW total \in Nat, NEW sum \in Seq(Blocks), NEW offset \in Nat, NEW at \in TransferPlaces,
         NEW u, u = Counted(t, total, sum, offset, at)
  PROVE  /\ u \in TransferT /\ u.at = at /\ u.sum = sum /\ u.total = total /\ u.offset = offset
         /\ u.staged = t.staged /\ u.committed = t.committed
<1> DEFINE a == [t EXCEPT !.total = total]
           b == [a EXCEPT !.sum = sum]
           c == [b EXCEPT !.offset = offset]
<1>1. /\ a \in TransferT /\ a.total = total /\ a.staged = t.staged /\ a.committed = t.committed
    BY DEF TransferT
<1> HIDE DEF a
<1>2. /\ b \in TransferT /\ b.total = total /\ b.sum = sum /\ b.staged = t.staged /\ b.committed = t.committed
    BY <1>1 DEF TransferT
<1> HIDE DEF b
<1>3. /\ c \in TransferT /\ c.total = total /\ c.sum = sum /\ c.offset = offset
      /\ c.staged = t.staged /\ c.committed = t.committed
    BY <1>2 DEF TransferT
<1> HIDE DEF c
<1>4. u = [c EXCEPT !.at = at]
    BY DEF a, b, c, Counted
<1> QED BY <1>3, <1>4 DEF TransferT

\* The first pass.
LEMMA ReadKeeps == ASSUME TransferInv, ReadSource PROVE TransferInv'
<1>1. /\ transfer.at = "size" /\ UNCHANGED <<source, dest, part, history>>
      /\ transfer \in TransferT /\ source \in Seq(Blocks) /\ source \in history.had
      /\ history.had \subseteq Seq(Blocks) /\ transfer.sum \in Seq(Blocks) /\ Len(transfer.sum) = transfer.offset
      /\ transfer.offset \in Nat
    BY DEF ReadSource, Goes, Place, TransferInv, TransferTypes, SumInv, TransferT
<1>2. CASE \E r \in TransferResults \ {"OK"} : Fail(r)
    BY <1>1, <1>2, FailKeeps DEF TransferInv, DestinationIsWhole
<1>3. ASSUME NEW more \in BOOLEAN, more <=> transfer.offset + 1 < Len(source), ~Moved,
             transfer' = [transfer EXCEPT !.total = Len(source), !.sum = @ \o Block,
                                          !.offset = IF more THEN @ + 1 ELSE 0,
                                          !.at = IF more THEN "size" ELSE "stat"]
      PROVE  TransferInv'
  <2> DEFINE sum == transfer.sum \o Block
  <2>1. /\ sum \in Seq(Blocks) /\ Len(source) \in Nat
        /\ more => Len(sum) = transfer.offset + 1
        /\ ~more => Len(sum) = Len(source)
        /\ \A f \in history.had : f = source /\ Begins(transfer.sum, f) => Begins(sum, f)
    <3>1. CASE transfer.offset < Len(source)
      <4>1. Block = <<source[Len(transfer.sum) + 1]>>
          BY <1>1, <3>1 DEF Block
      <4> QED BY <1>1, <1>3, <3>1, <4>1, OneMore
    <3>2. CASE ~(transfer.offset < Len(source))
      <4>1. Block = << >> /\ sum = transfer.sum
          BY <1>1, <3>2 DEF Block
      <4>2. transfer.offset = 0 /\ Len(source) = 0
          BY <1>1, <1>3, <3>2 DEF Moved, TransferInv, SumInv
      <4> QED BY <1>1, <1>3, <4>1, <4>2
    <3> QED BY <3>1, <3>2
  <2> HIDE DEF sum
  <2>2. /\ transfer' \in TransferT /\ transfer'.at = (IF more THEN "size" ELSE "stat") /\ transfer'.sum = sum
        /\ transfer'.total = Len(source) /\ transfer'.offset = (IF more THEN transfer.offset + 1 ELSE 0)
        /\ transfer'.staged = transfer.staged /\ transfer'.committed = transfer.committed
    <3> DEFINE offset == IF more THEN transfer.offset + 1 ELSE 0
               at == IF more THEN "size" ELSE "stat"
    <3>1. transfer' = Counted(transfer, Len(source), sum, offset, at)
        BY <1>3 DEF sum, Counted
    <3>2. offset \in Nat /\ at \in TransferPlaces
        BY <1>1 DEF TransferPlaces
    <3> HIDE DEF offset, at
    <3>3. /\ transfer' \in TransferT /\ transfer'.at = at /\ transfer'.sum = sum
          /\ transfer'.total = Len(source) /\ transfer'.offset = offset
          /\ transfer'.staged = transfer.staged /\ transfer'.committed = transfer.committed
      <4>1. transfer \in TransferT /\ Len(source) \in Nat /\ sum \in Seq(Blocks)
          BY <1>1, <2>1
      <4>2. \A u : u = Counted(transfer, Len(source), sum, offset, at) =>
              /\ u \in TransferT /\ u.at = at /\ u.sum = sum /\ u.total = Len(source) /\ u.offset = offset
              /\ u.staged = transfer.staged /\ u.committed = transfer.committed
          BY <3>2, <4>1, Reread
      <4> QED BY <3>1, <4>2
    <3> QED BY <3>3 DEF offset, at
  <2>3. TransferTypes'
      BY <1>1, <2>2 DEF TransferInv, TransferTypes
  <2>4. transfer.offset > 0 => Len(source) = transfer.total
      BY <1>3 DEF Moved
  <2>5. history.changes <= 1 =>
          \/ Begins(sum, source)
          \/ transfer.offset > 0 /\ history.changes = 1
    <3>1. Begins(transfer.sum, source) => Begins(sum, source)
        BY <1>1, <2>1
    <3>2. CASE transfer.offset = 0
        BY <1>1, <3>1, <3>2 DEF Begins
    <3>3. CASE history.changes = 0
      <4>1. history.had = {source}
          BY <3>3 DEF TransferInv, TransferTypes
      <4> QED BY <1>1, <3>1, <3>3, <4>1 DEF TransferInv, SumInv
    <3>4. CASE transfer.offset # 0 /\ history.changes # 0
        BY <1>1, <3>4 DEF TransferInv, TransferTypes
    <3> QED BY <3>2, <3>3, <3>4
  <2>6. SumInv'
    <3>1. CASE more
      <4>1. transfer'.at = "size" /\ transfer'.offset = transfer.offset + 1 /\ transfer'.offset < transfer'.total
          BY <1>1, <1>3, <2>1, <2>2, <3>1
      <4>2. Len(transfer'.sum) = transfer'.offset
          BY <2>1, <2>2, <3>1
      <4>3. history.changes <= 1 =>
              \/ Begins(transfer'.sum, source) /\ Len(source) = transfer'.total
              \/ history.changes = 1 /\ Len(source) = transfer'.total
          BY <2>2, <2>5
      <4> QED BY <1>1, <4>1, <4>2, <4>3 DEF SumInv
    <3>2. CASE ~more
        BY <2>2, <3>2 DEF SumInv
    <3> QED BY <1>3, <3>1, <3>2
  <2>7. MixInv'
    <3>1. CASE more
        BY <2>2, <3>1 DEF MixInv, Summed
    <3>2. CASE ~more
      <4>1. Begins(sum, source) => sum \in history.had
          BY <1>1, <2>1, <3>2, WholeFile
      <4>2. Len(transfer'.sum) = transfer'.total /\ transfer'.sum = sum /\ transfer'.total = Len(source)
          BY <2>1, <2>2, <3>2
      <4> QED BY <1>1, <2>5, <4>1, <4>2 DEF MixInv, Mixed
    <3> QED BY <1>3, <3>1, <3>2
  <2>8. CopyInv' /\ StageInv' /\ EndInv'
      BY <1>1, <2>2 DEF TransferInv, CopyInv, StageInv, EndInv, Copying
  <2> QED BY <1>1, <2>3, <2>6, <2>7, <2>8 DEF TransferInv, DestinationIsWhole
<1>4. Shrunk \in TransferResults \ {"OK"} /\ Outcomes(transfer.receive) \subseteq TransferResults
    BY DEF Shrunk, Outcomes, TransferResults
<1> QED BY <1>2, <1>3, <1>4 DEF ReadSource

\* The check of the destination, and the step from the copy to its end.
LEMMA StatKeeps == ASSUME TransferInv, SD_STAT PROVE TransferInv'
<1>1. transfer.at = "stat" /\ UNCHANGED <<source, dest, part, history>> /\ transfer \in TransferT
    BY DEF SD_STAT, Place, TransferInv, TransferTypes
<1>2. CASE Go("begin")
  <2>1. /\ transfer' \in TransferT /\ transfer'.at = "begin" /\ transfer'.offset = transfer.offset
        /\ transfer'.total = transfer.total /\ transfer'.sum = transfer.sum
        /\ transfer'.staged = transfer.staged /\ transfer'.committed = transfer.committed
      BY ZenonT(60), <1>1, <1>2, Placed DEF Go, TransferPlaces
  <2> QED BY <1>1, <2>1 DEF TransferInv, TransferTypes, SumInv, MixInv, Mixed, CopyInv, StageInv, EndInv, Summed,
                            Copying, DestinationIsWhole
<1>3. CASE \E r \in TransferResults \ {"OK"} : Fail(r)
    BY <1>1, <1>3, FailKeeps DEF TransferInv, DestinationIsWhole
<1>4. Outcomes(~transfer.receive) \subseteq TransferResults
    BY DEF Outcomes, TransferResults
<1> QED BY <1>2, <1>3, <1>4 DEF SD_STAT

\* The copy is complete.
LEMMA CopiedKeeps == ASSUME TransferInv, Copied PROVE TransferInv'
<1>1. /\ transfer.at = "copy" /\ UNCHANGED <<source, dest, part, history>> /\ transfer \in TransferT
      /\ transfer.offset = transfer.total
    BY DEF Copied, Place, TransferInv, TransferTypes
<1>2. /\ transfer' \in TransferT /\ transfer'.at = "finish" /\ transfer'.offset = transfer.offset
      /\ transfer'.total = transfer.total /\ transfer'.sum = transfer.sum
      /\ transfer'.staged = transfer.staged /\ transfer'.committed = transfer.committed
    BY ZenonT(60), <1>1, Placed DEF Copied, Go, TransferPlaces
<1> QED BY <1>1, <1>2 DEF TransferInv, TransferTypes, SumInv, MixInv, Mixed, CopyInv, StageInv, EndInv, Summed,
                          Copying, DestinationIsWhole

\* The transfer after BEGIN.
Begun(t, at, r) == [t EXCEPT !.staged = TRUE, !.at = at, !.r = r]
\* What BEGIN changes of it.
LEMMA Staging ==
  ASSUME NEW t \in TransferT, NEW at \in TransferPlaces, NEW r \in TransferResults, NEW u, u = Begun(t, at, r)
  PROVE  /\ u \in TransferT /\ u.at = at /\ u.r = r /\ u.staged /\ u.sum = t.sum /\ u.total = t.total
         /\ u.offset = t.offset /\ u.committed = t.committed
<1> DEFINE a == [t EXCEPT !.staged = TRUE]
<1>1. /\ a \in TransferT /\ a.staged /\ a.sum = t.sum /\ a.total = t.total
      /\ a.offset = t.offset /\ a.committed = t.committed
    BY DEF TransferT
<1>2. u = [[a EXCEPT !.at = at] EXCEPT !.r = r]
    BY DEF Begun
<1> HIDE DEF a
<1> QED BY <1>1, <1>2 DEF TransferT

\* BEGIN: whether it was served or not, the stage is known to be possible.
LEMMA BeginKeeps == ASSUME TransferInv, SD_BEGIN PROVE TransferInv'
<1>1. /\ transfer.at = "begin" /\ UNCHANGED <<source, dest, history>> /\ transfer \in TransferT /\ ~transfer.committed
      /\ transfer.offset = 0 /\ transfer.sum \in Seq(Blocks) /\ transfer.total \in Nat
    BY DEF SD_BEGIN, Goes, Place, TransferInv, TransferTypes, StageInv, CopyInv, TransferT
<1>2. PICK r \in Outcomes(~transfer.receive) : \E served \in Effects(r) :
        /\ part' = IF served THEN [expect |-> transfer.sum, got |-> << >>] ELSE part
        /\ transfer' = [transfer EXCEPT !.staged = Remembers(r), !.at = IF r = "OK" THEN "copy" ELSE "done", !.r = r]
    BY DEF SD_BEGIN
<1>3. PICK served \in Effects(r) :
        /\ part' = IF served THEN [expect |-> transfer.sum, got |-> << >>] ELSE part
        /\ transfer' = [transfer EXCEPT !.staged = Remembers(r), !.at = IF r = "OK" THEN "copy" ELSE "done", !.r = r]
    BY <1>2
<1>4. r \in TransferResults /\ (r = "OK" => served)
    BY DEF Outcomes, Effects, TransferResults
<1> DEFINE at == IF r = "OK" THEN "copy" ELSE "done"
<1>5. at \in TransferPlaces /\ transfer' = Begun(transfer, at, r)
    BY <1>3 DEF Remembers, TransferPlaces, Begun
<1> HIDE DEF at
<1>6. /\ transfer' \in TransferT /\ transfer'.at = at /\ transfer'.r = r /\ transfer'.staged
      /\ transfer'.sum = transfer.sum /\ transfer'.total = transfer.total /\ transfer'.offset = 0
      /\ ~transfer'.committed
    BY <1>1, <1>4, <1>5, Staging
<1>7. TransferTypes' /\ SumInv' /\ StageInv' /\ EndInv' /\ DestinationIsWhole'
    BY <1>1, <1>6 DEF at, TransferInv, TransferTypes, SumInv, StageInv, EndInv, DestinationIsWhole, Copying
<1>8. MixInv'
    BY <1>1, <1>6 DEF at, TransferInv, MixInv, Mixed, Summed
<1>9. CopyInv'
  <2>1. CASE r = "OK"
    <3>1. part' = [expect |-> transfer.sum, got |-> << >>] /\ part'.got = << >>
        BY <1>3, <1>4, <2>1
    <3>2. part'.got \in Seq(Blocks) /\ Len(part'.got) = 0 /\ Begins(part'.got, source')
        BY <1>1, <3>1 DEF Begins, TransferInv, TransferTypes
    <3> QED BY <1>1, <1>6, <2>1, <3>1, <3>2 DEF at, CopyInv
  <2>2. CASE r # "OK"
      BY <1>6, <2>2 DEF at, CopyInv, Copying
  <2> QED BY <2>1, <2>2
<1> QED BY <1>7, <1>8, <1>9 DEF TransferInv

\* WRITE: the block written is the one read, after those before.
LEMMA WriteKeeps == ASSUME TransferInv, SD_WRITE PROVE TransferInv'
<1>1. /\ transfer.at = "copy" /\ UNCHANGED <<source, dest, history>> /\ transfer \in TransferT
      /\ transfer.offset < transfer.total /\ transfer.offset \in Nat /\ transfer.total \in Nat
      /\ transfer.staged /\ ~transfer.committed /\ source \in Seq(Blocks)
      /\ part = [expect |-> transfer.sum, got |-> part.got] /\ part.got \in Seq(Blocks)
      /\ Len(part.got) = transfer.offset
    BY DEF SD_WRITE, Goes, Place, TransferInv, TransferTypes, StageInv, CopyInv, TransferT, Copying
<1>2. ASSUME NEW r \in TransferResults, r # "OK", Fail(r) PROVE TransferInv'
    BY <1>1, <1>2, FailKeeps DEF TransferInv, DestinationIsWhole
<1>3. ASSUME Len(source) = transfer.total, part' = [part EXCEPT !.got = @ \o Block],
             transfer' = [transfer EXCEPT !.offset = @ + 1]
      PROVE  TransferInv'
  <2> DEFINE got == part.got \o Block
  <2>1. Block = <<source[Len(part.got) + 1]>>
      BY <1>1, <1>3 DEF Block
  <2>2. got \in Seq(Blocks) /\ Len(got) = transfer.offset + 1 /\ (Begins(part.got, source) => Begins(got, source))
      BY <1>1, <1>3, <2>1, OneMore
  <2> HIDE DEF got
  <2>3. part' = [expect |-> transfer.sum, got |-> got] /\ part'.got = got
    <3>1. part' = [part EXCEPT !.got = got]
        BY <1>3 DEF got
    <3> QED BY <1>1, <3>1
  <2>4. /\ transfer' \in TransferT /\ transfer'.at = "copy" /\ transfer'.offset = transfer.offset + 1
        /\ transfer'.sum = transfer.sum /\ transfer'.total = transfer.total
        /\ transfer'.staged /\ ~transfer'.committed
    <3> DEFINE offset == transfer.offset + 1
    <3>1. offset \in Nat /\ transfer' = [transfer EXCEPT !.offset = offset]
        BY <1>1, <1>3
    <3>2. offset = transfer.offset + 1
        OBVIOUS
    <3> HIDE DEF offset
    <3>3. /\ transfer' \in TransferT /\ transfer'.at = "copy" /\ transfer'.offset = offset
          /\ transfer'.sum = transfer.sum /\ transfer'.total = transfer.total
          /\ transfer'.staged /\ ~transfer'.committed
        BY <1>1, <3>1 DEF TransferT
    <3> QED BY <3>2, <3>3
  <2>5. TransferTypes' /\ SumInv' /\ StageInv' /\ EndInv' /\ DestinationIsWhole'
      BY <1>1, <2>4 DEF TransferInv, TransferTypes, SumInv, StageInv, EndInv, DestinationIsWhole
  <2>6. MixInv'
      BY <1>1, <2>4 DEF TransferInv, MixInv, Mixed, Summed
  <2>7. CopyInv'
    <3>1. transfer'.offset <= transfer'.total
        BY <1>1, <2>4
    <3>2. history.changes <= 1 /\ Mixed => Begins(got, source)
        BY <1>1, <2>2 DEF TransferInv, CopyInv, Copying
    <3> QED BY <1>1, <2>2, <2>3, <2>4, <3>1, <3>2 DEF CopyInv, Mixed
  <2> QED BY <2>5, <2>6, <2>7 DEF TransferInv
<1>4. CASE \E r \in Outcomes(transfer.receive) \ {"OK"} : Fail(r)
    BY <1>2, <1>4 DEF Outcomes, TransferResults
<1>5. CASE Fail(Shrunk)
    BY <1>2, <1>5 DEF Shrunk, TransferResults
<1>6. CASE /\ Len(source) = transfer.total
           /\ \E r \in Outcomes(~transfer.receive) : \E served \in Effects(r) :
                /\ part' = IF served THEN [part EXCEPT !.got = @ \o Block] ELSE part
                /\ IF r = "OK" THEN transfer' = [transfer EXCEPT !.offset = @ + 1] ELSE Fail(r)
  <2>1. PICK r \in Outcomes(~transfer.receive) : \E served \in Effects(r) :
          /\ part' = IF served THEN [part EXCEPT !.got = @ \o Block] ELSE part
          /\ IF r = "OK" THEN transfer' = [transfer EXCEPT !.offset = @ + 1] ELSE Fail(r)
      BY <1>6
  <2>2. PICK served \in Effects(r) :
          /\ part' = IF served THEN [part EXCEPT !.got = @ \o Block] ELSE part
          /\ IF r = "OK" THEN transfer' = [transfer EXCEPT !.offset = @ + 1] ELSE Fail(r)
      BY <2>1
  <2>3. CASE r = "OK"
      BY <1>3, <1>6, <2>2, <2>3 DEF Effects
  <2>4. CASE r # "OK"
      BY <1>2, <2>2, <2>4 DEF Outcomes, TransferResults
  <2> QED BY <2>3, <2>4
<1> QED BY <1>4, <1>5, <1>6 DEF SD_WRITE

\* FINISH answers OK only when the stage is what it is to be.
LEMMA FinishKeeps == ASSUME TransferInv, SD_FINISH PROVE TransferInv'
<1>1. /\ transfer.at = "finish" /\ UNCHANGED <<source, dest, part, history>> /\ transfer \in TransferT
    BY DEF SD_FINISH, Goes, Place, TransferInv, TransferTypes
<1>2. CASE \E r \in TransferResults \ {"OK"} : Fail(r)
    BY <1>1, <1>2, FailKeeps DEF TransferInv, DestinationIsWhole
<1>3. CASE Verified(part) /\ Go("activate")
  <2>1. /\ transfer' \in TransferT /\ transfer'.at = "activate" /\ transfer'.offset = transfer.offset
        /\ transfer'.total = transfer.total /\ transfer'.sum = transfer.sum
        /\ transfer'.staged = transfer.staged /\ transfer'.committed = transfer.committed
      BY <1>1, <1>3, Placed DEF Go, TransferPlaces
  <2> QED BY <1>1, <1>3, <2>1 DEF TransferInv, TransferTypes, SumInv, MixInv, Mixed, CopyInv, StageInv, EndInv, Summed,
                                  Copying, DestinationIsWhole, Verified
<1>4. Outcomes(~transfer.receive) \subseteq TransferResults
    BY DEF Outcomes, TransferResults
<1> QED BY <1>2, <1>3, <1>4 DEF SD_FINISH

\* A staged file that is its checksum is a file the source has been.
LEMMA StageIsWhole ==
  ASSUME TransferInv, transfer.at = "activate", history.changes <= 1
  PROVE  part.got \in history.had
<1>1. /\ part.got = transfer.sum /\ part.got \in Seq(Blocks) /\ Len(part.got) = transfer.total
      /\ source \in Seq(Blocks) /\ source \in history.had
    BY DEF TransferInv, TransferTypes, CopyInv, Copying
<1>2. CASE Mixed
  <2>1. Begins(part.got, source) /\ Len(source) = transfer.total
      BY <1>2 DEF TransferInv, CopyInv, MixInv, Copying, Summed
  <2> QED BY <1>1, <2>1, WholeFile
<1> QED BY <1>1, <1>2 DEF Mixed

\* ACTIVATE: served or not, and whatever is answered.
LEMMA ActivateKeeps == ASSUME TransferInv, SD_ACTIVATE PROVE TransferInv'
<1>1. /\ transfer.at = "activate" /\ UNCHANGED <<source, history>> /\ transfer \in TransferT
      /\ transfer.staged /\ ~transfer.committed
    BY DEF SD_ACTIVATE, Goes, Place, TransferInv, TransferTypes, StageInv, Copying
<1>a. PICK r \in Outcomes(~transfer.receive) : \E served \in Effects(r) :
        /\ IF served THEN dest' = part.got /\ part' = NoPart ELSE UNCHANGED <<dest, part>>
        /\ IF r = "OK" THEN transfer' = [transfer EXCEPT !.at = "end", !.committed = TRUE] ELSE Fail(r)
    BY DEF SD_ACTIVATE
<1>2. PICK served \in Effects(r) :
        /\ IF served THEN dest' = part.got /\ part' = NoPart ELSE UNCHANGED <<dest, part>>
        /\ IF r = "OK" THEN transfer' = [transfer EXCEPT !.at = "end", !.committed = TRUE] ELSE Fail(r)
    BY <1>a
<1>3. r \in TransferResults /\ (r = "OK" => served)
    BY DEF Outcomes, Effects, TransferResults
<1>4. DestinationIsWhole' /\ (served /\ history'.changes <= 1 => dest' \in history'.had)
    BY <1>1, <1>2, StageIsWhole DEF TransferInv, DestinationIsWhole
<1>5. CASE r = "OK"
  <2>1. /\ transfer' \in TransferT /\ transfer'.at = "end" /\ transfer'.offset = transfer.offset
        /\ transfer'.total = transfer.total /\ transfer'.sum = transfer.sum
        /\ transfer'.staged /\ transfer'.committed
      BY ZenonT(60), <1>1, <1>2, <1>5 DEF TransferT, TransferPlaces
  <2>2. TransferTypes' /\ SumInv' /\ MixInv' /\ CopyInv'
      BY <1>1, <2>1 DEF TransferInv, TransferTypes, SumInv, MixInv, CopyInv, Summed, Copying
  <2>3. StageInv' /\ EndInv'
      BY <1>2, <1>3, <1>4, <1>5, <2>1 DEF StageInv, EndInv
  <2> QED BY <1>4, <2>2, <2>3 DEF TransferInv
<1>6. CASE r # "OK"
    BY <1>1, <1>2, <1>3, <1>4, <1>6, FailKeeps
<1> QED BY <1>5, <1>6

\* The P4 is told, and emos_file_transfer returns.
LEMMA ToldKeeps == ASSUME TransferInv, ToldDone PROVE TransferInv'
BY FailKeeps DEF ToldDone, Place, TransferResults, TransferInv, DestinationIsWhole, StageInv

\* The transfer returns, and reports how it ended.
LEMMA ReturnKeeps == ASSUME TransferInv, Returns PROVE TransferInv'
<1>1. /\ transfer.at = "done" /\ UNCHANGED <<source, dest, part, history>> /\ transfer \in TransferT
    BY DEF Returns, Place, TransferInv, TransferTypes
<1>2. PICK closed \in BOOLEAN : transfer' = [transfer EXCEPT !.at = "idle", !.r = Reported(closed)]
    BY DEF Returns
<1> DEFINE r == Reported(closed)
<1>3. /\ r \in TransferResults /\ (r = "OK" => transfer.r = "OK")
      /\ r \notin {"OK", "RECOVERY"} /\ ~transfer.committed => ~transfer.staged \/ transfer.r = "OK"
    BY <1>1 DEF Reported, TransferT, TransferResults
<1> HIDE DEF r
<1>4. /\ transfer' \in TransferT /\ transfer'.at = "idle" /\ transfer'.r = r /\ transfer'.offset = transfer.offset
      /\ transfer'.total = transfer.total /\ transfer'.sum = transfer.sum /\ transfer'.n = transfer.n
      /\ transfer'.staged = transfer.staged /\ transfer'.committed = transfer.committed
  <2>1. transfer' = [[transfer EXCEPT !.at = "idle"] EXCEPT !.r = r]
      BY <1>2 DEF r
  <2> QED BY <1>1, <1>3, <2>1 DEF TransferT, TransferPlaces
<1>5. TransferTypes' /\ SumInv' /\ MixInv' /\ CopyInv'
    BY <1>1, <1>4 DEF TransferInv, TransferTypes, SumInv, MixInv, CopyInv, Summed, Copying
<1>6. StageInv' /\ EndInv' /\ DestinationIsWhole'
    BY <1>1, <1>3, <1>4 DEF TransferInv, StageInv, EndInv, DestinationIsWhole, Copying
<1> QED BY <1>5, <1>6 DEF TransferInv

\* The first change of the source: what was read of it is still a file it was.
LEMMA SourceKeeps == ASSUME TransferInv, SourceChanges PROVE TransferInv'
<1>1. /\ UNCHANGED <<transfer, dest, part>> /\ source' \in Seq(Blocks)
      /\ transfer.at # "idle"
    BY TransferAssumption DEF SourceChanges, Place
<1>2. /\ history' = [had |-> history.had \cup {source'}, before |-> history.before, left |-> history.left,
                     changes |-> history.changes + 1]
    BY DEF SourceChanges, TransferInv, TransferTypes
<1>3. /\ history'.had = history.had \cup {source'} /\ history'.before = history.before
      /\ history'.left = history.left /\ history'.changes = history.changes + 1
    BY <1>2
<1>4. history.changes \in Nat /\ (history'.changes <= 1 => history.changes = 0 /\ history.had = {source})
    BY <1>3 DEF TransferInv, TransferTypes
<1>5. TransferTypes'
    BY <1>1, <1>2, <1>3, <1>4 DEF TransferInv, TransferTypes
<1>6. SumInv'
  <2>1. ASSUME transfer.at = "size", history'.changes <= 1
        PROVE  Begins(transfer.sum, source) /\ (transfer.offset > 0 => Len(source) = transfer.total)
      BY <1>4, <2>1 DEF TransferInv, SumInv
  <2>2. history'.changes <= 1 => source \in history'.had
      BY <1>3, <1>4
  <2>3. UNCHANGED transfer
      BY <1>1
  <2> QED BY <2>1, <2>2, <2>3 DEF TransferInv, SumInv
<1>7. transfer.at \in Summed /\ history'.changes <= 1 => ~Mixed'
    BY <1>1, <1>3, <1>4 DEF TransferInv, MixInv, Mixed
<1>8. MixInv' /\ CopyInv'
    BY <1>1, <1>7 DEF TransferInv, MixInv, CopyInv, Summed, Copying
<1>9. StageInv' /\ EndInv' /\ DestinationIsWhole'
    BY <1>1, <1>3, <1>4 DEF TransferInv, StageInv, EndInv, DestinationIsWhole
<1> QED BY <1>5, <1>6, <1>8, <1>9 DEF TransferInv

\* The types, what has been read of which file, and what is staged, hold in
\* every state.
THEOREM TransferInvariant == TransferSpec => []TransferInv
<1>1. TransferInit => TransferInv
  <2> SUFFICES ASSUME TransferInit PROVE TransferInv
      OBVIOUS
  <2>1. /\ transfer.at = "idle" /\ transfer.n = 0 /\ ~transfer.staged /\ ~transfer.committed /\ transfer \in TransferT
      BY DEF TransferInit, NoTransfer, TransferT, TransferPlaces, TransferResults
  <2>2. /\ history = [had |-> {source}, before |-> dest, left |-> part, changes |-> 0] /\ source \in Seq(Blocks)
      BY TransferAssumption DEF TransferInit
  <2>3. /\ history.had = {source} /\ history.before = dest /\ history.left = part /\ history.changes = 0
      BY <2>2
  <2>4. TransferTypes
      BY <2>1, <2>2, <2>3 DEF TransferTypes
  <2> QED BY <2>1, <2>3, <2>4 DEF TransferInv, SumInv, MixInv, CopyInv, StageInv, EndInv, DestinationIsWhole, Summed, Copying
<1>2. TransferInv /\ [TransferNext]_transferVars => TransferInv'
  <2> SUFFICES ASSUME TransferInv, [TransferNext]_transferVars PROVE TransferInv'
      OBVIOUS
  <2>1. CASE \E receive, overwrite \in BOOLEAN : emos_file_transfer(receive, overwrite)
      BY <2>1, StartKeeps
  <2>2. CASE poll_cancel \/ Cancelled \/ sdapp_link_open
      BY <2>2, NotesCancel, CancelledKeeps, OpenKeeps
  <2>3. CASE Handshake
      BY <2>3, ExchangeKeeps DEF Handshake
  <2>4. CASE ReadSource \/ SD_STAT \/ SD_BEGIN \/ SD_WRITE
      BY <2>4, ReadKeeps, StatKeeps, BeginKeeps, WriteKeeps
  <2>5. CASE Copied \/ SD_FINISH \/ SD_ACTIVATE
      BY <2>5, CopiedKeeps, FinishKeeps, ActivateKeeps
  <2>6. CASE ToldDone \/ Returns \/ SourceChanges
      BY <2>6, ToldKeeps, ReturnKeeps, SourceKeeps
  <2>7. CASE UNCHANGED transferVars
      BY <2>7 DEF transferVars, TransferInv, TransferTypes, SumInv, MixInv, Mixed, CopyInv, StageInv, EndInv,
                  DestinationIsWhole
  <2> QED BY <2>1, <2>2, <2>3, <2>4, <2>5, <2>6, <2>7 DEF TransferNext
<1> QED BY <1>1, <1>2, PTL DEF TransferSpec

\* What a transfer reports of the destination is true, for every file and
\* every source that changes at most once while it is read.
THEOREM TransferIsTrue == TransferSpec => []TransferTellsTheTruth
<1>1. TransferInv => TransferTellsTheTruth
    BY DEF TransferInv, StageInv, EndInv, DestinationIsWhole, ResultIsTrue, Place, TransferTellsTheTruth
<1> QED BY <1>1, TransferInvariant, PTL

-----------------------------------------------------------------------------
(* The admission of a job.                                                 *)

States == {"OFF", "IDLE", "HELLO_WAIT", "POLL_WAIT", "DECIDE_WAIT", "CLAIMED", "RUNNING"}
Ops == {"", "HELLO", "POLL", "DECIDE", "CLOSE", "JOB", "READY", "STATUS", "FINISH"}
Points == {"bind", "JOB", "READY", "loop", "FINISH", "await", "terminal", "close", "exit"}
Caps == {"sd", "excom", "app", "end"}
Modes == {"Legacy", "ExCom", "ExExt"}
IdT == [link : Nat, gen : Nat, job : Nat, grant : Nat \X Nat]
AckT == [kind : {5}, op : Ops, seq : Nat, id : IdT, res : Nat, more : SUBSET Caps]
MsgT == AckT \cup {Request}
AdmT ==
  [st : States, caps : SUBSET Caps, link : Nat, gen : Nat, job : Nat, grant : Nat \X Nat, grants : Nat, seq : Nat,
   op : Ops, waiting : BOOLEAN, rx : AckT \cup {None}, judged : AckT \cup {None}, exhausted : BOOLEAN,
   terminal : 0 .. 2, seen : Modes]
LnkT == [active : BOOLEAN, owner : 0 .. 2, box : Seq(MsgT), dropped : BOOLEAN]
JobT ==
  [pc : Points, op : Ops, seq : Nat, id : IdT, pending : BOOLEAN, live : BOOLEAN, failed : BOOLEAN, stage : BOOLEAN,
   ending : BOOLEAN]
PeerT == [link : Nat, offer : Nat, jobs : Nat, acked : SUBSET IdT, done : SUBSET Nat, req : BOOLEAN]
AdmissionTypes ==
  /\ adm \in AdmT /\ lnk \in LnkT /\ job \in JobT /\ peer \in PeerT /\ wire \in Seq(MsgT)
  /\ prog \in {"prompt", "line", "app", "job", "ending"} /\ env \in [mode : Modes, healthy : BOOLEAN]

\* What a packet on the way or in the mailbox tells of the peer.
Finishes(m) == m.kind = 5 /\ m.op = "FINISH" /\ m.res = 0 => m.id.job \in peer.done
Decides(m) == m.kind = 5 /\ m.op = "DECIDE"
Late(m) == Decides(m) => m.seq <= adm.seq
WireInv == \A i \in 1 .. Len(wire) : Finishes(wire[i]) /\ Late(wire[i])
BoxInv == \A i \in 1 .. Len(lnk.box) : Finishes(lnk.box[i])

\* While a DECIDE waits, its answer is the last packet of the wire.
Unanswered(a) == ~a.waiting /\ a.rx = None
Grants(m) == m.res = 0 => m.id \in peer.acked
LastIsAnswer ==
  \A i \in 1 .. Len(wire) : Decides(wire[i]) /\ wire[i].seq = adm.seq => i = Len(wire) /\ Grants(wire[i])
ReplyInv == adm.judged # None => Unanswered(adm)
DecideInv ==
  adm.st = "DECIDE_WAIT" =>
    /\ adm.waiting => adm.op = "DECIDE" /\ LastIsAnswer
    /\ adm.rx # None => wire = << >> /\ Grants(adm.rx)
    /\ adm.judged # None => wire = << >> /\ Grants(adm.judged) /\ adm.judged.id = Id(adm)
ClaimInv ==
  /\ adm.st \in {"CLAIMED", "RUNNING"} => Id(adm) \in peer.acked
  /\ adm.st = "CLAIMED" => wire = << >>

\* The packets a sound job may still get: its answer, and one request.
Ones(b) == IF b THEN 1 ELSE 0
Awaited == Ones(job.pc = "await") + Ones(~job.pending /\ (job.live \/ (job.pc = "await" /\ job.op = "READY")))
Coming == Len(lnk.box) + Len(wire)
Early == job.pc \in {"bind", "JOB", "READY"} \/ (job.pc = "await" /\ job.op \in {"JOB", "READY"})
Serving == job.pc \in {"loop", "FINISH"} \/ (job.pc = "await" /\ job.op \in {"STATUS", "FINISH"})
Over == job.pc \in {"terminal", "close", "exit"}
SoundJob ==
  /\ Coming <= Awaited /\ ~lnk.dropped
  /\ Early => ~job.live /\ ~job.pending
  /\ Serving => job.live
  /\ job.pc = "FINISH" \/ (job.pc = "await" /\ job.op = "FINISH") => ~job.stage
  /\ Over => ~job.stage /\ adm.job \in peer.done
JobInv ==
  /\ prog \in {"job", "ending"} => adm.st = "RUNNING"
  /\ prog = "job" =>
       /\ job.id = Id(adm) /\ (adm.terminal = 1 => job.pc \in {"close", "exit"})
       /\ lnk.active => lnk.owner = 2
       /\ job.pc = "await" => job.op \in {"JOB", "READY", "STATUS", "FINISH"}
       /\ ~job.failed => SoundJob
  /\ prog = "ending" /\ adm.terminal = 1 /\ ~job.failed => ~job.stage /\ adm.job \in peer.done

AdmissionInv == AdmissionTypes /\ WireInv /\ BoxInv /\ ReplyInv /\ DecideInv /\ ClaimInv /\ JobInv /\ LinkEndsWithItsProgram

-----------------------------------------------------------------------------

\* An answer to the record op, seq: the peer a.p afterwards and its packets a.m.
\* One of them has the number of the record, and it tells nothing untrue.
Tells(a, op, seq) ==
  /\ a.p \in PeerT /\ peer.done \subseteq a.p.done /\ (op # "DECIDE" => a.p.acked = peer.acked)
  /\ \E k \in AckT :
       /\ k.op = op /\ k.seq = seq
       /\ a.m = <<k>> \/ (op = "READY" /\ a.m = <<k, Request>>)
       /\ op = "DECIDE" /\ k.res = 0 => k.id \in a.p.acked
       /\ op = "FINISH" /\ k.res = 0 => k.id.job \in a.p.done
\* The shape of every answer.
LEMMA Telling ==
  ASSUME NEW op \in Ops, NEW seq \in Nat, NEW i \in IdT, NEW r \in Nat, NEW c \in SUBSET Caps,
         NEW p \in PeerT, peer.done \subseteq p.done, op # "DECIDE" => p.acked = peer.acked,
         NEW m, m = <<Ack(op, seq, i, r, c)>> \/ (op = "READY" /\ m = <<Ack(op, seq, i, r, c), Request>>),
         op = "DECIDE" /\ r = 0 => i \in p.acked, op = "FINISH" /\ r = 0 => i.job \in p.done
  PROVE  Tells([p |-> p, m |-> m], op, seq)
<1> DEFINE k == Ack(op, seq, i, r, c)
<1>1. k \in AckT /\ k.op = op /\ k.seq = seq /\ k.res = r /\ k.id = i
    BY DEF Ack, AckT
<1>2. m = <<k>> \/ (op = "READY" /\ m = <<k, Request>>)
    OBVIOUS
<1> HIDE DEF k
<1> QED BY <1>1, <1>2 DEF Tells

\* What the peer answers to a record.
LEMMA AnswersTell ==
  ASSUME peer \in PeerT, NEW op \in Ops, NEW seq \in Nat, NEW id \in IdT, NEW a \in Answers(op, seq, id)
  PROVE  Tells(a, op, seq)
<1>1. [id EXCEPT !.link = peer.link] \in IdT /\ \A j \in Nat : [id EXCEPT !.job = j] \in IdT
    BY DEF IdT, PeerT
<1>2. peer.jobs + 1 \in Nat /\ id.job \in Nat /\ 0 \in Nat /\ 1 \in Nat /\ 3 \in Nat /\ 9 \in Nat
    BY DEF PeerT, IdT
<1>3. {} \in SUBSET Caps /\ {"sd"} \in SUBSET Caps /\ {"sd", "excom", "app"} \in SUBSET Caps
      /\ {"end"} \in SUBSET Caps
    BY DEF Caps
<1>4. CASE op = "HELLO"
  <2> DEFINE p == [peer EXCEPT !.offer = 0]
             i == [id EXCEPT !.link = peer.link]
  <2>1. i \in IdT /\ p \in PeerT /\ p.done = peer.done /\ p.acked = peer.acked
      BY <1>1 DEF PeerT
  <2>2. \E c \in {{"sd"}, {"sd", "excom", "app"}} : a = [p |-> p, m |-> <<Ack(op, seq, i, 0, c)>>]
      BY <1>4 DEF Answers
  <2> HIDE DEF p, i
  <2> QED BY <1>2, <1>3, <1>4, <2>1, <2>2, Telling
<1>5. CASE op = "POLL" /\ id.link = peer.link
  <2> DEFINE fresh == peer.jobs + 1
             p == [peer EXCEPT !.jobs = fresh, !.offer = fresh]
             i == [id EXCEPT !.job = fresh]
  <2>1. p \in PeerT /\ p.done = peer.done /\ p.acked = peer.acked
      BY <1>2 DEF PeerT
  <2>2. \/ a = [p |-> peer, m |-> <<Ack(op, seq, id, 1, {})>>]
        \/ a = [p |-> p, m |-> <<Ack(op, seq, i, 0, {})>>]
      BY <1>5 DEF Answers
  <2>3. i \in IdT
      BY <1>1, <1>2
  <2> HIDE DEF p, i
  <2> QED BY <1>2, <1>3, <1>5, <2>1, <2>2, <2>3, Telling
<1>6. CASE op = "DECIDE" /\ id.link = peer.link /\ id.job = peer.offer
  <2> DEFINE p == [peer EXCEPT !.acked = {id}]
             q == [peer EXCEPT !.offer = 0]
  <2>1. p \in PeerT /\ p.done = peer.done /\ id \in p.acked /\ q \in PeerT /\ q.done = peer.done
      BY DEF PeerT
  <2>2. \/ a = [p |-> p, m |-> <<Ack(op, seq, id, 0, {})>>]
        \/ a = [p |-> q, m |-> <<Ack(op, seq, id, 9, {})>>]
      BY <1>6 DEF Answers
  <2> HIDE DEF p, q
  <2> QED BY <1>2, <1>3, <1>6, <2>1, <2>2, Telling
<1>7. CASE op = "CLOSE"
  <2> DEFINE p == [peer EXCEPT !.offer = 0, !.req = FALSE]
  <2>1. p \in PeerT /\ p.done = peer.done /\ p.acked = peer.acked
      BY DEF PeerT
  <2>2. a = [p |-> p, m |-> <<Ack(op, seq, id, 0, {})>>]
      BY <1>7 DEF Answers
  <2> HIDE DEF p
  <2> QED BY <1>2, <1>3, <1>7, <2>1, <2>2, Telling
<1>8. CASE op = "READY" /\ Knows(id)
  <2> DEFINE p == [peer EXCEPT !.req = TRUE]
  <2>1. p \in PeerT /\ p.done = peer.done /\ p.acked = peer.acked
      BY DEF PeerT
  <2>2. a = [p |-> p, m |-> <<Ack(op, seq, id, 0, {}), Request>>]
      BY <1>8 DEF Answers
  <2> HIDE DEF p
  <2> QED BY <1>2, <1>3, <1>8, <2>1, <2>2, Telling
<1>9. CASE op = "STATUS" /\ Knows(id)
  <2>1. \E e \in {{}, {"end"}} : a = [p |-> peer, m |-> <<Ack(op, seq, id, 0, e)>>]
      BY <1>9 DEF Answers
  <2> QED BY <1>2, <1>3, <1>9, <2>1, Telling
<1>10. CASE op = "FINISH" /\ Knows(id)
  <2> DEFINE p == [peer EXCEPT !.done = @ \cup {id.job}, !.req = FALSE]
  <2>1. p \in PeerT /\ peer.done \subseteq p.done /\ id.job \in p.done /\ p.acked = peer.acked
      BY <1>2 DEF PeerT
  <2>2. a = [p |-> p, m |-> <<Ack(op, seq, id, 0, {})>>]
      BY <1>10 DEF Answers
  <2> HIDE DEF p
  <2> QED BY <1>2, <1>3, <1>10, <2>1, <2>2, Telling
<1>11. CASE op = "JOB" /\ Knows(id)
  <2>1. a = [p |-> peer, m |-> <<Ack(op, seq, id, 0, {})>>]
      BY <1>11 DEF Answers
  <2> QED BY <1>2, <1>3, <1>11, <2>1, Telling
<1>12. CASE ~(\/ op = "HELLO" \/ (op = "POLL" /\ id.link = peer.link)
              \/ (op = "DECIDE" /\ id.link = peer.link /\ id.job = peer.offer) \/ op = "CLOSE"
              \/ (op = "READY" /\ Knows(id)) \/ (op = "STATUS" /\ Knows(id)) \/ (op = "FINISH" /\ Knows(id))
              \/ (op = "JOB" /\ Knows(id)))
  <2>1. a = [p |-> peer, m |-> <<Ack(op, seq, id, 3, {})>>]
      BY <1>12 DEF Answers
  <2> QED BY <1>2, <1>3, <2>1, Telling
<1> QED BY <1>4, <1>5, <1>6, <1>7, <1>8, <1>9, <1>10, <1>11, <1>12

\* The packets of the wire after a record: those before it, and then its answer.
Grown(k, op) ==
  /\ wire' \in Seq(MsgT) /\ Len(wire) <= Len(wire') /\ Len(wire') <= Len(wire) + (IF op = "READY" THEN 2 ELSE 1)
  /\ \A i \in 1 .. Len(wire') :
       \/ i <= Len(wire) /\ wire'[i] = wire[i]
       \/ i = Len(wire) + 1 /\ wire'[i] = k
       \/ i = Len(wire') /\ wire'[i] = Request /\ op = "READY"
\* The answer is at the end of the wire.
LEMMA Growing ==
  ASSUME wire \in Seq(MsgT), NEW k \in AckT, NEW op, NEW m, m = <<k>> \/ (op = "READY" /\ m = <<k, Request>>),
         wire' = wire \o m
  PROVE  Grown(k, op)
<1>1. k \in MsgT /\ Request \in MsgT
    BY DEF MsgT
<1>2. CASE m = <<k>>
  <2>1. m \in Seq(MsgT) /\ Len(m) = 1 /\ m[1] = k
      BY <1>1, <1>2
  <2> QED BY <2>1, ConcatProperties DEF Grown
<1>3. CASE op = "READY" /\ m = <<k, Request>>
  <2>1. m \in Seq(MsgT) /\ Len(m) = 2 /\ m[1] = k /\ m[2] = Request
      BY <1>1, <1>3
  <2> QED BY <1>3, <2>1, ConcatProperties DEF Grown
<1> QED BY <1>2, <1>3

\* What holds of the peer and the wire after a record was sent.
LEMMA SentTells ==
  ASSUME AdmissionTypes, WireInv, BoxInv, NEW op \in Ops, NEW seq \in Nat, NEW id \in IdT, PeerSent(op, seq, id),
         UNCHANGED lnk, adm'.seq \in Nat, adm.seq <= adm'.seq, op = "DECIDE" => seq <= adm'.seq
  PROVE  /\ peer' \in PeerT /\ wire' \in Seq(MsgT) /\ WireInv' /\ BoxInv'
         /\ peer.done \subseteq peer'.done /\ (op # "DECIDE" => peer'.acked = peer.acked)
         /\ Len(wire') <= Len(wire) + (IF op = "READY" THEN 2 ELSE 1)
         /\ op = "DECIDE" /\ adm'.seq = seq /\ adm.seq < seq => LastIsAnswer'
<1>1. peer \in PeerT /\ wire \in Seq(MsgT) /\ adm.seq \in Nat /\ Len(wire) \in Nat /\ lnk.box \in Seq(MsgT)
    BY DEF AdmissionTypes, AdmT, LnkT
<1>2. CASE UNCHANGED <<peer, wire>>
  <2>1. WireInv' /\ BoxInv'
    <3>1. BoxInv'
        BY <1>2 DEF BoxInv, Finishes
    <3>2. ASSUME NEW i \in 1 .. Len(wire) PROVE Finishes(wire[i])' /\ Late(wire[i])'
      <4>1. wire[i] \in MsgT /\ Request.kind = 3 /\ Finishes(wire[i]) /\ Late(wire[i])
          BY <1>1 DEF Request, WireInv
      <4>2. Decides(wire[i]) => wire[i].seq \in Nat
          BY <4>1 DEF MsgT, Decides, AckT
      <4> QED BY <1>1, <1>2, <4>1, <4>2 DEF Finishes, Late, Decides
    <3> QED BY <1>2, <3>1, <3>2 DEF WireInv
  <2>2. adm.seq < adm'.seq => LastIsAnswer'
      BY <1>1, <1>2 DEF LastIsAnswer, WireInv, Late, Decides
  <2> QED BY <1>1, <1>2, <2>1, <2>2
<1>3. CASE ~UNCHANGED <<peer, wire>>
  <2>1. PICK a \in Answers(op, seq, id) : peer' = a.p /\ wire' = wire \o a.m
      BY <1>3 DEF PeerSent
  <2>2. Tells(a, op, seq)
      BY <1>1, AnswersTell
  <2>3. PICK k \in AckT :
          /\ k.op = op /\ k.seq = seq
          /\ a.m = <<k>> \/ (op = "READY" /\ a.m = <<k, Request>>)
          /\ op = "DECIDE" /\ k.res = 0 => k.id \in a.p.acked
          /\ op = "FINISH" /\ k.res = 0 => k.id.job \in a.p.done
      BY <2>2 DEF Tells
  <2>4. Grown(k, op)
      BY <1>1, <2>1, <2>3, Growing
  <2>5. peer' \in PeerT /\ peer.done \subseteq peer'.done /\ (op # "DECIDE" => peer'.acked = peer.acked)
      BY <2>1, <2>2 DEF Tells
  <2>6. Request.kind = 3
      BY DEF Request
  <2>7. \A m \in MsgT : Finishes(m) => Finishes(m)'
      BY <2>5 DEF Finishes
  <2>8. WireInv'
    <3> SUFFICES ASSUME NEW i \in 1 .. Len(wire') PROVE Finishes(wire[i])' /\ Late(wire[i])'
        BY DEF WireInv
    <3>1. CASE i <= Len(wire) /\ wire'[i] = wire[i]
      <4>1. i \in 1 .. Len(wire) /\ wire[i] \in MsgT
          BY <1>1, <3>1, <2>4 DEF Grown
      <4>2. Finishes(wire[i]) /\ Late(wire[i])
          BY <4>1 DEF WireInv
      <4>3. Decides(wire[i]) => wire[i].seq \in Nat
          BY <4>1, <2>6 DEF MsgT, Decides, AckT
      <4> QED BY <1>1, <2>5, <3>1, <4>2, <4>3 DEF Finishes, Late, Decides
    <3>2. CASE wire'[i] = k
        BY <2>1, <2>3, <3>2 DEF Finishes, Late, Decides
    <3>3. CASE wire'[i] = Request
        BY <2>6, <3>3 DEF Finishes, Late, Decides
    <3> QED BY <2>4, <3>1, <3>2, <3>3 DEF Grown
  <2>9. BoxInv'
      BY <2>5 DEF BoxInv, Finishes
  <2>10. ASSUME op = "DECIDE", adm'.seq = seq, adm.seq < seq PROVE LastIsAnswer'
    <3> SUFFICES ASSUME NEW i \in 1 .. Len(wire'), Decides(wire[i])', wire'[i].seq = seq
                 PROVE  i = Len(wire') /\ Grants(wire[i])'
        BY <2>10 DEF LastIsAnswer
    <3>1. CASE i <= Len(wire) /\ wire'[i] = wire[i]
      <4>1. i \in 1 .. Len(wire) /\ wire[i] \in MsgT
          BY <1>1, <3>1, <2>4 DEF Grown
      <4>2. Decides(wire[i]) => wire[i].seq \in Nat /\ wire[i].seq <= adm.seq
          BY <4>1, <2>6 DEF WireInv, Late, MsgT, Decides, AckT
      <4> QED BY <1>1, <2>10, <3>1, <4>2 DEF Decides
    <3>2. CASE i = Len(wire) + 1 /\ wire'[i] = k
      <4>1. Len(wire') \in Nat /\ Len(wire') <= Len(wire) + 1
          BY <2>4, <2>10 DEF Grown
      <4> QED BY <1>1, <2>1, <2>3, <2>10, <3>2, <4>1 DEF Grants
    <3> QED BY <2>4, <2>10, <3>1, <3>2 DEF Grown
  <2> QED BY <2>4, <2>5, <2>8, <2>9, <2>10 DEF Grown
<1> QED BY <1>2, <1>3

\* A state of the admission, not earlier than adm, in which nothing is decided.
Away == {"OFF", "IDLE", "HELLO_WAIT", "POLL_WAIT"}
Before(a, b) == b \in AdmT /\ a.seq <= b.seq /\ b.st \in Away /\ (b.judged = None \/ Unanswered(b))
\* The next generation, with nothing waiting.
LEMMA OlderIs ==
  ASSUME NEW a \in AdmT
  PROVE  Older(a) \in AdmT /\ Older(a).st = a.st /\ Older(a).seq = a.seq /\ (Unanswered(a) => Unanswered(Older(a)))
<1> DEFINE g == (a.gen + 1) % GenMod
           e == a.exhausted \/ a.gen + 1 = GenMod
           b == [a EXCEPT !.gen = g]
<1>1. a.gen \in Nat
    BY DEF AdmT
<1>2. g \in Nat
    BY <1>1, AdmissionAssumption
<1>3. e \in BOOLEAN
    BY DEF AdmT
<1>4. Older(a) = [b EXCEPT !.exhausted = e]
    BY DEF Older
<1> HIDE DEF g, e
<1>5. b \in AdmT /\ b.st = a.st /\ b.seq = a.seq /\ (Unanswered(a) => Unanswered(b))
    BY <1>2 DEF AdmT, Unanswered
<1> HIDE DEF b
<1>6. LET c == [b EXCEPT !.exhausted = e] IN c \in AdmT /\ c.st = a.st /\ c.seq = a.seq /\ (Unanswered(a) => Unanswered(c))
    BY <1>3, <1>5 DEF AdmT, Unanswered
<1> QED BY <1>4, <1>6

\* Nothing waits any more.
LEMMA ClearIs ==
  ASSUME NEW a \in AdmT
  PROVE  clear_wait(a) \in AdmT /\ clear_wait(a).seq = a.seq /\ Unanswered(clear_wait(a))
BY DEF clear_wait, AdmT, Unanswered

\* The state that is left, for the next generation.
LEMMA LeftIs ==
  ASSUME NEW a \in AdmT
  PROVE  Before(a, Left(a))
<1> DEFINE c == clear_wait(a)
           s == IF a.caps # {} THEN "IDLE" ELSE "OFF"
           u == [c EXCEPT !.st = s, !.job = 0, !.grant = <<0, 0>>]
<1>1. c \in AdmT /\ c.seq = a.seq /\ Unanswered(c)
    BY ClearIs
<1>2. s \in {"IDLE", "OFF"}
    OBVIOUS
<1>3. Left(a) = Older(u)
    BY DEF Left
<1> HIDE DEF c, s
<1>4. u \in AdmT /\ u.seq = a.seq /\ u.st = s /\ Unanswered(u)
  <2> DEFINE x == [c EXCEPT !.st = s]
             y == [x EXCEPT !.job = 0]
             z == [y EXCEPT !.grant = <<0, 0>>]
  <2>1. x \in AdmT /\ x.seq = a.seq /\ x.st = s /\ Unanswered(x)
      BY <1>1, <1>2 DEF AdmT, States, Unanswered
  <2>2. u = z
      OBVIOUS
  <2> HIDE DEF x, u
  <2>3. y \in AdmT /\ y.seq = a.seq /\ y.st = s /\ Unanswered(y)
      BY <2>1 DEF AdmT, Unanswered
  <2> HIDE DEF y
  <2>4. z \in AdmT /\ z.seq = a.seq /\ z.st = s /\ Unanswered(z)
      BY <2>3 DEF AdmT, Unanswered
  <2> QED BY <2>2, <2>4
<1> HIDE DEF u
<1> QED BY <1>2, <1>3, <1>4, OlderIs DEF Before, Away, AdmT

\* The state after a reset.
LEMMA ResetIs ==
  ASSUME NEW a \in AdmT
  PROVE  Before(a, emos_admission_reset(a))
<1> DEFINE c == clear_wait(a)
           u == [c EXCEPT !.st = "OFF", !.caps = {}, !.link = 0, !.job = 0, !.grant = <<0, 0>>, !.terminal = 0]
<1>1. c \in AdmT /\ c.seq = a.seq /\ Unanswered(c)
    BY ClearIs
<1>2. emos_admission_reset(a) = Older(u)
    BY DEF emos_admission_reset
<1> HIDE DEF c
<1>3. u \in AdmT /\ u.seq = a.seq /\ u.st = "OFF" /\ Unanswered(u)
  <2> DEFINE v == [c EXCEPT !.st = "OFF"]
             w == [v EXCEPT !.caps = {}]
             x == [w EXCEPT !.link = 0]
             y == [x EXCEPT !.job = 0]
             z == [y EXCEPT !.grant = <<0, 0>>]
             t == [z EXCEPT !.terminal = 0]
  <2>1. v \in AdmT /\ v.seq = a.seq /\ v.st = "OFF" /\ Unanswered(v)
      BY <1>1 DEF AdmT, States, Unanswered
  <2>2. u = t
      OBVIOUS
  <2> HIDE DEF v, u
  <2>3. w \in AdmT /\ w.seq = a.seq /\ w.st = "OFF" /\ Unanswered(w)
      BY <2>1 DEF AdmT, Unanswered
  <2> HIDE DEF w
  <2>4. x \in AdmT /\ x.seq = a.seq /\ x.st = "OFF" /\ Unanswered(x)
      BY <2>3 DEF AdmT, Unanswered
  <2> HIDE DEF x
  <2>5. y \in AdmT /\ y.seq = a.seq /\ y.st = "OFF" /\ Unanswered(y)
      BY <2>4 DEF AdmT, Unanswered
  <2> HIDE DEF y
  <2>6. z \in AdmT /\ z.seq = a.seq /\ z.st = "OFF" /\ Unanswered(z)
      BY <2>5 DEF AdmT, Unanswered
  <2> HIDE DEF z
  <2>7. t \in AdmT /\ t.seq = a.seq /\ t.st = "OFF" /\ Unanswered(t)
      BY <2>6 DEF AdmT, Unanswered
  <2> QED BY <2>2, <2>7
<1> HIDE DEF u
<1> QED BY <1>2, <1>3, OlderIs DEF Before, Away, AdmT

\* A record sent, or refused.
LEMMA SentIs ==
  ASSUME NEW a \in AdmT, NEW op \in Ops
  PROVE  /\ Sent(a, op) \in AdmT /\ Sent(a, op).seq = a.seq + 1 /\ Sent(a, op).op = op /\ Sent(a, op).rx = None
         /\ Sent(a, op).st = a.st /\ Sent(a, op).judged = a.judged /\ Id(Sent(a, op)) = Id(a)
         /\ Sent(a, op).terminal = a.terminal
<1> DEFINE n == a.seq + 1
           x == [a EXCEPT !.seq = n]
           y == [x EXCEPT !.op = op]
           z == [y EXCEPT !.waiting = TRUE]
           t == [z EXCEPT !.rx = None]
           F(b) == b.link = a.link /\ b.gen = a.gen /\ b.job = a.job /\ b.grant = a.grant /\ b.judged = a.judged
                   /\ b.terminal = a.terminal
<1>1. n \in Nat /\ n = a.seq + 1
    BY DEF AdmT
<1>2. Sent(a, op) = t
    BY DEF Sent
<1> HIDE DEF n
<1>3. x \in AdmT /\ x.seq = n /\ x.st = a.st /\ F(x)
    BY <1>1 DEF AdmT
<1> HIDE DEF x
<1>4. y \in AdmT /\ y.seq = n /\ y.st = a.st /\ y.op = op /\ F(y)
    BY <1>3 DEF AdmT
<1> HIDE DEF y
<1>5. z \in AdmT /\ z.seq = n /\ z.st = a.st /\ z.op = op /\ F(z)
    BY <1>4 DEF AdmT
<1> HIDE DEF z
<1>6. t \in AdmT /\ t.seq = n /\ t.st = a.st /\ t.op = op /\ t.rx = None /\ F(t)
    BY <1>5 DEF AdmT
<1> HIDE DEF t
<1> QED BY <1>1, <1>2, <1>6 DEF Id

\* A record that was refused: nothing was sent, or all is given up.
LEMMA RefusedIs ==
  ASSUME NEW a \in AdmT, NEW b \in Refused(a)
  PROVE  /\ b \in AdmT /\ a.seq <= b.seq
         /\ \/ Before(a, b)
            \/ (b.st = a.st /\ (b.waiting => a.waiting) /\ b.rx = a.rx /\ b.judged = a.judged)
<1>1. a.seq \in Nat /\ a.seq + 1 \in Nat
    BY DEF AdmT
<1>2. CASE b = [a EXCEPT !.exhausted = TRUE]
  <2>1. b \in AdmT
      BY <1>2 DEF AdmT
  <2>2. b.seq = a.seq /\ b.st = a.st /\ (b.waiting => a.waiting) /\ b.rx = a.rx /\ b.judged = a.judged
      BY <1>2 DEF AdmT
  <2> QED BY <1>1, <2>1, <2>2
<1>3. CASE b = emos_admission_reset([a EXCEPT !.seq = @ + 1])
  <2> DEFINE n == a.seq + 1
             c == [a EXCEPT !.seq = n]
  <2>1. n \in Nat /\ a.seq <= n
      BY <1>1
  <2>2. b = emos_admission_reset(c)
      BY <1>3
  <2> HIDE DEF n
  <2>3. c \in AdmT /\ c.seq = n
      BY <2>1 DEF AdmT
  <2> HIDE DEF c
  <2>4. b \in AdmT /\ n <= b.seq /\ b.st \in Away /\ (b.judged = None \/ Unanswered(b))
      BY <2>2, <2>3, ResetIs DEF Before
  <2>5. b.seq \in Nat
      BY <2>4 DEF AdmT
  <2> QED BY <1>1, <2>1, <2>4, <2>5 DEF Before
<1> QED BY <1>2, <1>3 DEF Refused, Unsent

-----------------------------------------------------------------------------

\* What was on the way is not later than the numbers that follow.
LEMMA WireStays ==
  ASSUME AdmissionTypes, WireInv, UNCHANGED <<peer, wire>>, adm'.seq \in Nat, adm.seq <= adm'.seq
  PROVE  WireInv'
<1> SUFFICES ASSUME NEW i \in 1 .. Len(wire) PROVE Finishes(wire[i])' /\ Late(wire[i])'
    BY DEF WireInv
<1>1. wire[i] \in MsgT /\ Request.kind = 3 /\ Finishes(wire[i]) /\ Late(wire[i]) /\ adm.seq \in Nat
    BY DEF AdmissionTypes, AdmT, Request, WireInv
<1>2. Decides(wire[i]) => wire[i].seq \in Nat
    BY <1>1 DEF MsgT, Decides, AckT
<1> QED BY <1>1, <1>2 DEF Finishes, Late, Decides
\* The mailbox empties, or stays.
LEMMA BoxStays ==
  ASSUME AdmissionTypes, BoxInv, peer' = peer, lnk'.box = lnk.box \/ lnk'.box = << >>
  PROVE  BoxInv'
BY DEF BoxInv, Finishes
\* Closing the link.
LEMMA ClosedIs ==
  ASSUME AdmissionTypes
  PROVE  Closed \in LnkT /\ ~Closed.active /\ Closed.owner = 0 /\ Closed.box = << >> /\ ~Closed.dropped
<1> DEFINE x == [lnk EXCEPT !.active = FALSE]
           y == [x EXCEPT !.owner = 0]
           z == [y EXCEPT !.box = << >>]
           t == [z EXCEPT !.dropped = FALSE]
<1>1. x \in LnkT /\ ~x.active
    BY DEF AdmissionTypes, LnkT
<1>2. Closed = t /\ << >> \in Seq(MsgT)
    BY DEF Closed
<1> HIDE DEF x
<1>3. y \in LnkT /\ ~y.active /\ y.owner = 0
    BY <1>1 DEF LnkT
<1> HIDE DEF y
<1>4. z \in LnkT /\ ~z.active /\ z.owner = 0 /\ z.box = << >>
    BY <1>2, <1>3 DEF LnkT
<1> HIDE DEF z
<1>5. t \in LnkT /\ ~t.active /\ t.owner = 0 /\ t.box = << >> /\ ~t.dropped
    BY <1>4 DEF LnkT
<1> QED BY <1>2, <1>5

\* A step after which nothing is decided, and no job runs.
LEMMA AwayKeeps ==
  ASSUME AdmissionInv, Before(adm, adm'), lnk' \in LnkT, UNCHANGED <<job, env>>, prog' \in {"prompt", "line", "app"},
         peer' \in PeerT, wire' \in Seq(MsgT), WireInv', BoxInv', LinkEndsWithItsProgram'
  PROVE  AdmissionInv'
<1>1. AdmissionTypes'
    BY DEF AdmissionInv, AdmissionTypes, Before
<1>2. DecideInv' /\ ClaimInv' /\ JobInv' /\ ReplyInv'
    BY DEF DecideInv, ClaimInv, JobInv, ReplyInv, Before, Away, Unanswered
<1> QED BY <1>1, <1>2 DEF AdmissionInv
\* One that leaves the peer alone, at the command line.
LEMMA LocalKeeps ==
  ASSUME AdmissionInv, Before(adm, adm'), UNCHANGED <<lnk, job, env, peer, wire>>, prog = "prompt", prog' \in {"prompt", "line"}
  PROVE  AdmissionInv'
<1>1. AdmissionTypes /\ WireInv /\ BoxInv /\ LinkEndsWithItsProgram /\ adm'.seq \in Nat /\ adm.seq <= adm'.seq
    BY DEF AdmissionInv, Before, AdmT
<1>2. WireInv' /\ BoxInv'
    BY <1>1, WireStays, BoxStays
<1>3. LinkEndsWithItsProgram'
    BY <1>1 DEF LinkEndsWithItsProgram
<1> QED BY <1>1, <1>2, <1>3, AwayKeeps DEF AdmissionTypes
\* One that sends a record.
LEMMA ControlTells ==
  ASSUME AdmissionInv, UNCHANGED lnk, NEW a \in AdmT, a.seq = adm.seq, NEW op \in Ops \ {"DECIDE"}, NEW then, NEW refused,
         send_control(a, op, then, refused), Before(adm, then), \A b \in refused : Before(adm, b)
  PROVE  Before(adm, adm') /\ peer' \in PeerT /\ wire' \in Seq(MsgT) /\ WireInv' /\ BoxInv'
<1>1. Before(adm, adm')
    BY DEF send_control
<1>2. /\ AdmissionTypes /\ WireInv /\ BoxInv /\ adm'.seq \in Nat /\ adm.seq <= adm'.seq
    BY <1>1 DEF AdmissionInv, Before, AdmT
<1>3. CASE adm' = then /\ PeerSent(op, a.seq + 1, Id(a))
  <2>1. a.seq + 1 \in Nat /\ Id(a) \in IdT
      BY DEF AdmT, Id, IdT
  <2> QED BY <1>1, <1>2, <1>3, <2>1, SentTells
<1>4. CASE UNCHANGED <<peer, wire>>
    BY <1>1, <1>2, <1>4, WireStays, BoxStays DEF AdmissionTypes
<1> QED BY <1>3, <1>4 DEF send_control
\* One that sends a record from the command line.
LEMMA RecordKeeps ==
  ASSUME AdmissionInv, UNCHANGED <<lnk, job, env>>, prog \in {"prompt", "ending"}, prog' \in {"prompt", "line"},
         NEW a \in AdmT, a.seq = adm.seq, NEW op \in Ops \ {"DECIDE"}, NEW then, NEW refused,
         send_control(a, op, then, refused), Before(adm, then), \A b \in refused : Before(adm, b)
  PROVE  AdmissionInv'
<1>1. Before(adm, adm') /\ peer' \in PeerT /\ wire' \in Seq(MsgT) /\ WireInv' /\ BoxInv'
    BY ControlTells
<1>2. LinkEndsWithItsProgram' /\ lnk' \in LnkT
    BY DEF AdmissionInv, AdmissionTypes, LinkEndsWithItsProgram
<1> QED BY <1>1, <1>2, AwayKeeps

-----------------------------------------------------------------------------

\* A state in which the reply has been judged.
LEMMA SettledIs ==
  ASSUME AdmissionTypes
  PROVE  /\ Settled \in AdmT /\ Settled.seq = adm.seq /\ Settled.st = adm.st /\ Id(Settled) = Id(adm)
         /\ Settled.judged = None /\ Settled.rx = adm.rx /\ (Settled.waiting => adm.waiting) /\ Settled.op = adm.op
BY DEF Settled, AdmissionTypes, AdmT, Id

\* Giving up, and the looks at the mode.
LEMMA UnableKeeps == ASSUME AdmissionInv, Unable PROVE AdmissionInv'
BY ResetIs, LocalKeeps DEF Unable, Idling, AdmissionInv, AdmissionTypes

\* The mode is seen to have changed.
LEMMA ModeKeeps == ASSUME AdmissionInv, ModeSeen PROVE AdmissionInv'
<1> DEFINE l == Left(adm)
<1>1. adm \in AdmT /\ env.mode \in Modes
    BY DEF AdmissionInv, AdmissionTypes
<1>2. Before(adm, l) /\ adm' = [l EXCEPT !.seen = env.mode]
    BY <1>1, LeftIs DEF ModeSeen
<1> HIDE DEF l
<1>3. adm' \in AdmT /\ adm'.seq = l.seq /\ adm'.st = l.st /\ adm'.judged = l.judged
      /\ (Unanswered(l) => Unanswered(adm'))
    BY <1>1, <1>2 DEF Before, AdmT, Unanswered
<1>4. Before(adm, adm')
    BY <1>2, <1>3 DEF Before
<1> QED BY <1>4, LocalKeeps DEF ModeSeen, Idling

\* No reply came in time.
LEMMA NoReplyKeeps == ASSUME AdmissionInv, NoReply PROVE AdmissionInv'
BY ResetIs, LocalKeeps DEF NoReply, Polling, Idling, AdmissionInv, AdmissionTypes

\* A reply of HELLO, and of POLL.
LEMMA HelloKeeps == ASSUME AdmissionInv, JudgeHello PROVE AdmissionInv'
<1> DEFINE s == Settled
           j == adm.judged
<1>1. AdmissionTypes /\ adm \in AdmT
    BY DEF AdmissionInv, AdmissionTypes
<1>2. s \in AdmT /\ s.seq = adm.seq /\ s.judged = None
    BY <1>1, SettledIs
<1>3. CASE adm' = emos_admission_reset(s)
  <2>1. Before(adm, adm')
      BY <1>2, <1>3, ResetIs DEF Before
  <2> QED BY <2>1, LocalKeeps DEF JudgeHello, Judging
<1>4. CASE adm' = [s EXCEPT !.link = j.id.link, !.caps = j.more, !.st = "IDLE"]
  <2>1. j \in AckT
      BY <1>1 DEF JudgeHello, Judging, AdmT
  <2>2. j.id.link \in Nat /\ j.more \in SUBSET Caps
      BY <2>1 DEF AckT, IdT
  <2> DEFINE k == j.id.link
             m == j.more
             x == [s EXCEPT !.link = k]
             y == [x EXCEPT !.caps = m]
  <2>3. adm' = [y EXCEPT !.st = "IDLE"]
      BY <1>4
  <2>4. k \in Nat /\ m \in SUBSET Caps
      BY <2>2
  <2> HIDE DEF k, m, s
  <2>5. x \in AdmT /\ x.seq = adm.seq /\ x.judged = None
      BY <1>2, <2>4 DEF AdmT
  <2> HIDE DEF x
  <2>6. y \in AdmT /\ y.seq = adm.seq /\ y.judged = None
      BY <2>4, <2>5 DEF AdmT
  <2> HIDE DEF y
  <2>7. adm' \in AdmT /\ adm'.seq = adm.seq /\ adm'.st = "IDLE" /\ adm'.judged = None
      BY <2>3, <2>6 DEF AdmT, States
  <2>8. Before(adm, adm')
      BY <1>1, <2>7 DEF Before, Away, AdmT
  <2> QED BY <2>8, LocalKeeps DEF JudgeHello, Judging
<1> QED BY <1>3, <1>4 DEF JudgeHello

\* The reservation of a job: a state that decides, once its record is sent.
Reserved ==
  [Settled EXCEPT !.job = adm.judged.id.job, !.grants = adm.grants + 1, !.grant = <<adm.grants + 1, adm.gen>>,
                  !.st = "DECIDE_WAIT"]

\* The reservation changes nothing that waits.
LEMMA ReservedIs ==
  ASSUME AdmissionTypes, adm.judged # None
  PROVE  /\ Reserved \in AdmT /\ Reserved.seq = adm.seq /\ Reserved.st = "DECIDE_WAIT" /\ Reserved.judged = None
         /\ Reserved.rx = adm.rx /\ (Reserved.waiting => adm.waiting)
<1> DEFINE s == Settled
           j == adm.judged.id.job
           n == adm.grants + 1
           g == <<n, adm.gen>>
           x == [s EXCEPT !.job = j]
           y == [x EXCEPT !.grants = n]
           z == [y EXCEPT !.grant = g]
           t == [z EXCEPT !.st = "DECIDE_WAIT"]
           F(b) == b.seq = adm.seq /\ b.judged = None /\ b.rx = adm.rx /\ (b.waiting => adm.waiting)
<1>1. s \in AdmT /\ F(s)
    BY SettledIs
<1>2. j \in Nat /\ n \in Nat
  <2>1. adm.judged \in AckT /\ adm.grants \in Nat
      BY DEF AdmissionTypes, AdmT
  <2> QED BY <2>1 DEF AckT, IdT
<1>3. g \in Nat \X Nat
    BY <1>2 DEF AdmissionTypes, AdmT
<1>4. Reserved = t
    BY DEF Reserved
<1> HIDE DEF s, j, n, g
<1>5. x \in AdmT /\ F(x)
    BY <1>1, <1>2 DEF AdmT
<1> HIDE DEF x
<1>6. y \in AdmT /\ F(y)
    BY <1>2, <1>5 DEF AdmT
<1> HIDE DEF y
<1>7. z \in AdmT /\ F(z)
    BY <1>3, <1>6 DEF AdmT
<1> HIDE DEF z
<1>8. t \in AdmT /\ F(t) /\ t.st = "DECIDE_WAIT"
    BY <1>7 DEF AdmT, States
<1> HIDE DEF t
<1> QED BY <1>4, <1>8

\* What is after a later state is after the state.
LEMMA Later == ASSUME NEW a \in AdmT, NEW b \in AdmT, NEW c, a.seq <= b.seq, Before(b, c) PROVE Before(a, c)
<1>1. a.seq \in Nat /\ b.seq \in Nat /\ c.seq \in Nat
    BY DEF Before, AdmT
<1> QED BY <1>1 DEF Before

\* A state that is left by a CLOSE, sent or not.
LEMMA CloseIs ==
  ASSUME NEW a \in AdmT
  PROVE  Before(a, Left(Sent(a, "CLOSE"))) /\ \A b \in {Left(c) : c \in Refused(a)} : Before(a, b)
<1>1. Sent(a, "CLOSE") \in AdmT /\ a.seq <= Sent(a, "CLOSE").seq
  <2>1. "CLOSE" \in Ops /\ a.seq \in Nat
      BY DEF Ops, AdmT
  <2>2. Sent(a, "CLOSE") \in AdmT /\ Sent(a, "CLOSE").seq = a.seq + 1
      BY <2>1, SentIs
  <2> QED BY <2>1, <2>2
<1>2. \A c \in Refused(a) : c \in AdmT /\ a.seq <= c.seq
    BY RefusedIs
<1> QED BY <1>1, <1>2, LeftIs, Later

\* A reply of POLL: a job is reserved and its DECIDE sent, or nothing is.
LEMMA PollKeeps == ASSUME AdmissionInv, JudgePoll PROVE AdmissionInv'
<1> DEFINE s == Settled
           r == Reserved
<1>1. /\ AdmissionTypes /\ adm \in AdmT /\ adm.judged # None /\ prog = "prompt" /\ UNCHANGED <<lnk, job, prog, env>>
      /\ Unanswered(adm) /\ adm.seq \in Nat
    BY DEF AdmissionInv, AdmissionTypes, JudgePoll, Judging, ReplyInv, AdmT
<1>2. s \in AdmT /\ s.seq = adm.seq /\ s.judged = None
    BY <1>1, SettledIs
<1>3. CASE adm' = Left(s) /\ UNCHANGED <<peer, wire>>
  <2>1. Before(adm, adm')
      BY <1>1, <1>2, <1>3, LeftIs, Later
  <2> QED BY <1>1, <1>3, <2>1, LocalKeeps
<1>4. CASE adm' = emos_admission_reset(s) /\ UNCHANGED <<peer, wire>>
  <2>1. Before(adm, adm')
      BY <1>1, <1>2, <1>4, ResetIs, Later
  <2> QED BY <1>1, <1>4, <2>1, LocalKeeps
<1>5. CASE adm' = [s EXCEPT !.st = "IDLE"] /\ UNCHANGED <<peer, wire>>
  <2> HIDE DEF s
  <2>1. adm' \in AdmT /\ adm'.seq = adm.seq /\ adm'.st = "IDLE" /\ adm'.judged = None
      BY <1>2, <1>5 DEF AdmT, States
  <2>2. Before(adm, adm')
      BY <1>1, <2>1 DEF Before, Away
  <2> QED BY <1>1, <1>5, <2>2, LocalKeeps
<1>6. CASE send_control(r, "DECIDE", Sent(r, "DECIDE"), Refused(r))
  <2>1. /\ r \in AdmT /\ r.seq = adm.seq /\ r.st = "DECIDE_WAIT" /\ r.judged = None /\ r.rx = None /\ ~r.waiting
      BY <1>1, ReservedIs DEF Unanswered
  <2> HIDE DEF r
  <2>2. CASE adm' = Sent(r, "DECIDE") /\ PeerSent("DECIDE", r.seq + 1, Id(r))
    <3>1. "DECIDE" \in Ops /\ r.seq + 1 \in Nat /\ Id(r) \in IdT /\ r.seq + 1 = adm.seq + 1
      <4>1. "DECIDE" \in Ops
          BY DEF Ops
      <4>2. Id(r) \in IdT
          BY <2>1 DEF Id, IdT, AdmT
      <4> QED BY <1>1, <2>1, <4>1, <4>2
    <3>2. /\ adm' \in AdmT /\ adm'.seq = adm.seq + 1 /\ adm'.op = "DECIDE" /\ adm'.rx = None /\ adm'.judged = None
          /\ adm'.st = "DECIDE_WAIT"
        BY <2>1, <2>2, <3>1, SentIs
    <3>3. /\ peer' \in PeerT /\ wire' \in Seq(MsgT) /\ WireInv' /\ BoxInv' /\ LastIsAnswer'
        BY <1>1, <2>2, <3>1, <3>2, SentTells DEF AdmissionInv
    <3>4. AdmissionTypes'
        BY <1>1, <3>2, <3>3 DEF AdmissionTypes
    <3>5. ReplyInv' /\ DecideInv' /\ ClaimInv' /\ JobInv'
        BY <1>1, <3>2, <3>3 DEF ReplyInv, DecideInv, ClaimInv, JobInv
    <3>6. LinkEndsWithItsProgram'
        BY <1>1 DEF AdmissionInv, LinkEndsWithItsProgram
    <3> QED BY <3>3, <3>4, <3>5, <3>6 DEF AdmissionInv
  <2>3. CASE adm' \in Refused(r) /\ UNCHANGED <<peer, wire>>
    <3>1. /\ adm' \in AdmT /\ adm.seq <= adm'.seq /\ adm'.seq \in Nat
          /\ \/ Before(r, adm')
             \/ adm'.st = "DECIDE_WAIT" /\ ~adm'.waiting /\ adm'.rx = None /\ adm'.judged = None
        BY <2>1, <2>3, RefusedIs DEF AdmT
    <3>2. CASE Before(r, adm')
      <4>1. Before(adm, adm')
          BY <2>1, <3>1, <3>2 DEF Before
      <4> QED BY <1>1, <2>3, <4>1, LocalKeeps
    <3>3. CASE adm'.st = "DECIDE_WAIT" /\ ~adm'.waiting /\ adm'.rx = None /\ adm'.judged = None
      <4>1. WireInv' /\ BoxInv' /\ LinkEndsWithItsProgram'
          BY <1>1, <2>3, <3>1, WireStays, BoxStays DEF AdmissionInv, LinkEndsWithItsProgram
      <4>2. AdmissionTypes'
          BY <1>1, <2>3, <3>1 DEF AdmissionTypes
      <4>3. ReplyInv' /\ DecideInv' /\ ClaimInv' /\ JobInv'
          BY <1>1, <3>3 DEF ReplyInv, DecideInv, ClaimInv, JobInv
      <4> QED BY <4>1, <4>2, <4>3 DEF AdmissionInv
    <3> QED BY <3>1, <3>2, <3>3
  <2> QED BY <1>6, <2>2, <2>3 DEF send_control
<1> QED BY <1>3, <1>4, <1>5, <1>6 DEF JudgePoll, Reserved

\* The reply of DECIDE: a job is claimed if it grants one and no key has come.
LEMMA DecideKeeps == ASSUME AdmissionInv, JudgeDecide PROVE AdmissionInv'
<1> DEFINE s == Settled
<1>1. /\ AdmissionTypes /\ adm \in AdmT /\ adm.judged # None /\ adm.st = "DECIDE_WAIT" /\ prog = "prompt"
      /\ UNCHANGED <<lnk, job, prog, env>> /\ adm.seq \in Nat
    BY DEF AdmissionInv, AdmissionTypes, JudgeDecide, Judging, AdmT
<1>2. s \in AdmT /\ s.seq = adm.seq /\ s.judged = None /\ Id(s) = Id(adm)
    BY <1>1, SettledIs
<1>3. CASE adm' = emos_admission_reset(s) /\ UNCHANGED <<peer, wire>>
  <2>1. Before(adm, adm')
      BY <1>1, <1>2, <1>3, ResetIs, Later
  <2> QED BY <1>1, <1>3, <2>1, LocalKeeps
<1>4. CASE send_control(s, "CLOSE", Left(Sent(s, "CLOSE")), {Left(a) : a \in Refused(s)})
  <2>1. Before(adm, Left(Sent(s, "CLOSE"))) /\ \A b \in {Left(a) : a \in Refused(s)} : Before(adm, b)
      BY <1>1, <1>2, CloseIs, Later
  <2> HIDE DEF s
  <2> QED BY <1>1, <1>2, <1>4, <2>1, RecordKeeps DEF Ops
<1>5. CASE adm.judged.res = 0 /\ adm' = [s EXCEPT !.st = "CLAIMED"] /\ UNCHANGED <<peer, wire>>
  <2>1. wire = << >> /\ Id(adm) \in peer.acked
      BY <1>1, <1>5 DEF AdmissionInv, DecideInv, Grants
  <2> HIDE DEF s
  <2>2. adm' \in AdmT /\ adm'.seq = adm.seq /\ adm'.st = "CLAIMED" /\ adm'.judged = None /\ Id(adm') = Id(adm)
      BY <1>2, <1>5 DEF AdmT, States, Id
  <2>3. adm'.seq \in Nat /\ adm.seq <= adm'.seq
      BY <1>1, <2>2
  <2>4. WireInv' /\ BoxInv' /\ LinkEndsWithItsProgram'
      BY <1>1, <1>5, <2>3, WireStays, BoxStays DEF AdmissionInv, LinkEndsWithItsProgram
  <2>5. AdmissionTypes'
      BY <1>1, <1>5, <2>2 DEF AdmissionTypes
  <2>6. ReplyInv' /\ DecideInv' /\ JobInv'
      BY <1>1, <2>2 DEF ReplyInv, DecideInv, JobInv
  <2>7. ClaimInv'
      BY <1>5, <2>1, <2>2 DEF ClaimInv, Id
  <2> QED BY <2>4, <2>5, <2>6, <2>7 DEF AdmissionInv
<1> QED BY <1>3, <1>4, <1>5 DEF JudgeDecide

\* The next HELLO or POLL.
LEMMA NextKeeps == ASSUME AdmissionInv, NextPoll PROVE AdmissionInv'
<1>1. /\ AdmissionTypes /\ adm \in AdmT /\ adm.judged = None /\ prog = "prompt" /\ adm.seq \in Nat
      /\ UNCHANGED <<lnk, job, prog, env>>
    BY DEF AdmissionInv, AdmissionTypes, NextPoll, Polling, Idling, AdmT
<1>2. ASSUME NEW op \in {"HELLO", "POLL"}, NEW st \in {"HELLO_WAIT", "POLL_WAIT"}, NEW a, a = [adm EXCEPT !.st = st],
             send_control(a, op, Sent(a, op), Refused(a))
      PROVE  AdmissionInv'
  <2>1. a \in AdmT /\ a.seq = adm.seq /\ a.st = st /\ a.judged = None
      BY <1>1, <1>2 DEF AdmT, States
  <2>2. op \in Ops \ {"DECIDE"}
      BY DEF Ops
  <2>3. Before(adm, Sent(a, op))
    <3>1. Sent(a, op) \in AdmT /\ Sent(a, op).seq = adm.seq + 1 /\ Sent(a, op).st = st /\ Sent(a, op).judged = None
        BY <2>1, <2>2, SentIs
    <3> QED BY <1>1, <3>1 DEF Before, Away
  <2>4. \A b \in Refused(a) : Before(adm, b)
    <3> SUFFICES ASSUME NEW b \in Refused(a) PROVE Before(adm, b)
        OBVIOUS
    <3>1. b \in AdmT /\ a.seq <= b.seq /\ (Before(a, b) \/ (b.st = st /\ b.judged = None))
        BY <2>1, RefusedIs
    <3> QED BY <2>1, <3>1 DEF Before, Away
  <2> QED BY <1>1, <1>2, <2>1, <2>2, <2>3, <2>4, RecordKeeps
<1>3. \/ send_control([adm EXCEPT !.st = "HELLO_WAIT"], "HELLO", Sent([adm EXCEPT !.st = "HELLO_WAIT"], "HELLO"),
                      Refused([adm EXCEPT !.st = "HELLO_WAIT"]))
      \/ send_control([adm EXCEPT !.st = "POLL_WAIT"], "POLL", Sent([adm EXCEPT !.st = "POLL_WAIT"], "POLL"),
                      Refused([adm EXCEPT !.st = "POLL_WAIT"]))
    BY DEF NextPoll
<1> QED BY <1>2, <1>3

\* The editor takes a key, and the programs come and go.
LEMMA TakesKeyKeeps == ASSUME AdmissionInv, TakesKey PROVE AdmissionInv'
<1>1. adm \in AdmT /\ prog = "prompt" /\ prog' = "line" /\ UNCHANGED <<lnk, job, env>>
    BY DEF AdmissionInv, AdmissionTypes, TakesKey
<1>2. CASE send_control(adm, "CLOSE", Left(Sent(adm, "CLOSE")), {Left(a) : a \in Refused(adm)})
    BY <1>1, <1>2, CloseIs, RecordKeeps DEF Ops
<1>3. CASE adm' = Left(adm) /\ UNCHANGED <<peer, wire>>
    BY <1>1, <1>3, LeftIs, LocalKeeps
<1> QED BY <1>2, <1>3 DEF TakesKey, emos_admission_leave

\* A program takes the link, or gives it back.
LEMMA ProgramKeeps ==
  ASSUME AdmissionInv, adm' = Left(adm), lnk' \in LnkT, lnk'.box = << >>, UNCHANGED <<job, env, peer, wire>>,
         lnk'.owner # 2, prog' \in {"prompt", "app"}, prog' = "app" \/ (~lnk'.active /\ lnk'.owner = 0)
  PROVE  AdmissionInv'
<1>1. AdmissionTypes /\ WireInv /\ BoxInv /\ Before(adm, adm')
    BY LeftIs DEF AdmissionInv, AdmissionTypes
<1>2. adm'.seq \in Nat /\ adm.seq <= adm'.seq
    BY <1>1 DEF Before, AdmT
<1>3. WireInv' /\ BoxInv' /\ LinkEndsWithItsProgram'
    BY <1>1, <1>2, WireStays, BoxStays DEF LinkEndsWithItsProgram
<1> QED BY <1>1, <1>3, AwayKeeps DEF AdmissionTypes

\* An application is entered and left.
LEMMA EnterKeeps == ASSUME AdmissionInv, emos_application_enter \/ emos_application_leave PROVE AdmissionInv'
BY ClosedIs, ProgramKeeps DEF emos_application_enter, emos_application_leave, AdmissionInv

\* The job that has ended is closed, and the command line comes back.
LEMMA EndKeeps == ASSUME AdmissionInv, EndDispatch PROVE AdmissionInv'
<1>1. adm \in AdmT /\ prog = "ending" /\ prog' = "prompt" /\ UNCHANGED <<lnk, job, env>>
    BY DEF AdmissionInv, AdmissionTypes, EndDispatch
<1>2. \A a \in AdmT : Before(a, Left(a)) /\ Before(a, emos_admission_reset(a))
    BY LeftIs, ResetIs
<1>3. \A a \in AdmT : \A ok : Before(a, Retired(a, ok))
    BY <1>2 DEF Retired
<1>4. Sent(adm, "CLOSE") \in AdmT /\ adm.seq <= Sent(adm, "CLOSE").seq
  <2>1. "CLOSE" \in Ops /\ adm.seq \in Nat
      BY <1>1 DEF Ops, AdmT
  <2>2. Sent(adm, "CLOSE") \in AdmT /\ Sent(adm, "CLOSE").seq = adm.seq + 1
      BY <1>1, <2>1, SentIs
  <2> QED BY <2>1, <2>2
<1>5. Before(adm, Retired(Sent(adm, "CLOSE"), Result = "OK"))
    BY <1>1, <1>3, <1>4, Later
<1>6. \A b \in {Retired(a, FALSE) : a \in Refused(adm)} : Before(adm, b)
  <2>1. ASSUME NEW a \in Refused(adm) PROVE Before(adm, Retired(a, FALSE))
    <3>1. a \in AdmT /\ adm.seq <= a.seq
        BY <1>1, RefusedIs
    <3>2. Before(a, Retired(a, FALSE))
        BY <1>3, <3>1
    <3> QED BY <1>1, <3>1, <3>2, Later
  <2> QED BY <2>1
<1>7. send_control(adm, "CLOSE", Retired(Sent(adm, "CLOSE"), Result = "OK"), {Retired(a, FALSE) : a \in Refused(adm)})
    BY DEF EndDispatch
<1> QED BY <1>1, <1>5, <1>6, <1>7, RecordKeeps DEF Ops

-----------------------------------------------------------------------------

\* A reply is taken, if it has the number of the record that waits.
LEMMA ReplyKeeps == ASSUME AdmissionInv, Reply PROVE AdmissionInv'
<1>1. /\ AdmissionTypes /\ adm \in AdmT /\ adm.judged = None /\ adm.rx # None /\ adm.rx \in AckT /\ adm.seq \in Nat
      /\ UNCHANGED <<lnk, job, prog, env, peer, wire>> /\ prog = "prompt" /\ adm.st \in Waits
    BY DEF AdmissionInv, AdmissionTypes, Reply, Polling, Idling, AdmT
<1>2. CASE adm' = [adm EXCEPT !.rx = None]
  <2>1. /\ adm' \in AdmT /\ adm'.seq = adm.seq /\ adm'.judged = None /\ adm'.rx = None /\ adm'.st = adm.st
        /\ adm'.op = adm.op /\ (adm'.waiting => adm.waiting)
      BY <1>1, <1>2 DEF AdmT
  <2>2. WireInv' /\ BoxInv'
      BY <1>1, <2>1, WireStays, BoxStays DEF AdmissionInv
  <2>3. AdmissionTypes' /\ LinkEndsWithItsProgram'
      BY <1>1, <2>1 DEF AdmissionInv, AdmissionTypes, LinkEndsWithItsProgram
  <2>4. ReplyInv' /\ DecideInv' /\ JobInv' /\ ClaimInv'
      BY <1>1, <2>1 DEF AdmissionInv, ReplyInv, DecideInv, JobInv, ClaimInv, LastIsAnswer, Decides, Grants, Waits
  <2> QED BY <2>2, <2>3, <2>4 DEF AdmissionInv
<1>3. CASE Named(adm.rx) /\ adm' = [adm EXCEPT !.waiting = FALSE, !.judged = adm.rx, !.rx = None]
  <2> DEFINE x == [adm EXCEPT !.waiting = FALSE]
             m == adm.rx
             y == [x EXCEPT !.judged = m]
             F(b) == b.seq = adm.seq /\ b.st = adm.st /\ ~b.waiting /\ Id(b) = Id(adm)
  <2>1. adm' = [y EXCEPT !.rx = None] /\ m \in AckT
      BY <1>1, <1>3
  <2> HIDE DEF m
  <2>2. x \in AdmT /\ F(x)
      BY <1>1 DEF AdmT, Id
  <2> HIDE DEF x
  <2>3. y \in AdmT /\ F(y) /\ y.judged = m
      BY <2>1, <2>2 DEF AdmT, Id
  <2> HIDE DEF y
  <2>4. adm' \in AdmT /\ F(adm') /\ adm'.judged = m /\ adm'.rx = None
      BY <2>1, <2>3 DEF AdmT, Id
  <2>5. WireInv' /\ BoxInv'
      BY <1>1, <2>4, WireStays, BoxStays DEF AdmissionInv
  <2>6. AdmissionTypes' /\ LinkEndsWithItsProgram'
      BY <1>1, <2>4 DEF AdmissionInv, AdmissionTypes, LinkEndsWithItsProgram
  <2>7. ReplyInv' /\ JobInv' /\ ClaimInv'
      BY <1>1, <2>4 DEF ReplyInv, JobInv, ClaimInv, Waits, Unanswered
  <2>8. DecideInv'
    <3> SUFFICES ASSUME adm.st = "DECIDE_WAIT" PROVE wire = << >> /\ Grants(m) /\ m.id = Id(adm)
        BY <1>1, <2>4 DEF DecideInv, Grants
    <3> QED BY <1>1, <1>3 DEF m, AdmissionInv, DecideInv, Named
  <2> QED BY <2>5, <2>6, <2>7, <2>8 DEF AdmissionInv
<1> QED BY <1>2, <1>3 DEF Reply

\* The first packet of the wire is gone.
LEMMA TailIs ==
  ASSUME wire \in Seq(MsgT), wire # << >>, wire' = Tail(wire)
  PROVE  /\ wire' \in Seq(MsgT) /\ Len(wire') = Len(wire) - 1 /\ Head(wire) = wire[1] /\ wire[1] \in MsgT
         /\ 1 \in 1 .. Len(wire)
         /\ \A i \in 1 .. Len(wire') : i + 1 \in 1 .. Len(wire) /\ wire'[i] = wire[i + 1]
BY HeadTailProperties
\* What is left of the wire and the mailbox is as true as it was.
LEMMA TailKeeps ==
  ASSUME AdmissionInv, wire # << >>, wire' = Tail(wire), peer' = peer, adm'.seq = adm.seq
  PROVE  /\ wire' \in Seq(MsgT) /\ WireInv' /\ Finishes(Head(wire))
         /\ adm.st # "CLAIMED"
         /\ LastIsAnswer => LastIsAnswer'
<1>1. /\ wire' \in Seq(MsgT) /\ Len(wire') = Len(wire) - 1 /\ Head(wire) = wire[1] /\ 1 \in 1 .. Len(wire)
      /\ \A i \in 1 .. Len(wire') : i + 1 \in 1 .. Len(wire) /\ wire'[i] = wire[i + 1]
    BY TailIs DEF AdmissionInv, AdmissionTypes
<1>2. WireInv'
  <2> SUFFICES ASSUME NEW i \in 1 .. Len(wire') PROVE Finishes(wire[i])' /\ Late(wire[i])'
      BY DEF WireInv
  <2>1. Finishes(wire[i + 1]) /\ Late(wire[i + 1]) /\ wire'[i] = wire[i + 1]
      BY <1>1 DEF AdmissionInv, WireInv
  <2> QED BY <2>1 DEF Finishes, Late, Decides
<1>3. ASSUME LastIsAnswer PROVE LastIsAnswer'
  <2> SUFFICES ASSUME NEW i \in 1 .. Len(wire'), Decides(wire[i])', wire'[i].seq = adm.seq
               PROVE  i = Len(wire') /\ Grants(wire[i])'
      BY DEF LastIsAnswer
  <2>1. i + 1 \in 1 .. Len(wire) /\ wire'[i] = wire[i + 1] /\ Decides(wire[i + 1])
      BY <1>1 DEF Decides
  <2>2. i + 1 = Len(wire) /\ Grants(wire[i + 1])
      BY <1>3, <2>1 DEF LastIsAnswer
  <2>3. i = Len(wire')
    <3>1. i + 1 = Len(wire) /\ Len(wire') = Len(wire) - 1 /\ Len(wire) \in Nat
        BY <1>1, <2>2, LenProperties DEF AdmissionInv, AdmissionTypes
    <3> QED BY <3>1
  <2>4. Grants(wire[i])'
      BY <2>1, <2>2 DEF Grants
  <2> QED BY <2>3, <2>4
<1>4. Finishes(Head(wire)) /\ adm.st # "CLAIMED"
    BY <1>1 DEF AdmissionInv, WireInv, ClaimInv
<1> QED BY <1>1, <1>2, <1>3, <1>4

\* A job that is left alone, with no more packets on the way to it.
LEMMA JobStays ==
  ASSUME AdmissionInv, UNCHANGED <<job, prog>>, adm'.st = adm.st, Id(adm') = Id(adm), adm'.terminal = adm.terminal,
         peer.done \subseteq peer'.done,
         prog = "job" /\ ~job.failed => Coming' <= Coming /\ Coming' \in Int,
         lnk'.active => lnk.active /\ lnk'.owner = lnk.owner,
         prog = "job" /\ ~job.failed => (lnk'.dropped => lnk.dropped)
  PROVE  JobInv'
<1>1. adm'.job = adm.job
    BY DEF Id
<1>2. JobInv /\ Coming \in Nat /\ Awaited \in Nat
    BY LenProperties DEF AdmissionInv, AdmissionTypes, LnkT, Coming, Awaited, Ones
<1>3. Awaited' = Awaited /\ (Early' <=> Early) /\ (Serving' <=> Serving) /\ (Over' <=> Over)
    BY DEF Awaited, Early, Serving, Over, Ones
<1>4. prog = "job" /\ ~job.failed => SoundJob'
  <2> SUFFICES ASSUME prog = "job", ~job.failed PROVE SoundJob'
      OBVIOUS
  <2>1. SoundJob
      BY <1>2 DEF JobInv
  <2>2. Coming' <= Awaited' /\ ~lnk'.dropped
      BY <1>2, <1>3, <2>1 DEF SoundJob
  <2> QED BY <1>1, <1>3, <2>1, <2>2 DEF SoundJob
<1> QED BY <1>1, <1>2, <1>4 DEF JobInv

\* The interrupt handler takes the first packet.
LEMMA PacketKeeps == ASSUME AdmissionInv, emos_sdlink_packet PROVE AdmissionInv'
<1> DEFINE m == Head(wire)
<1>1. /\ AdmissionTypes /\ adm \in AdmT /\ lnk \in LnkT /\ UNCHANGED <<job, prog, env, peer>> /\ adm.seq \in Nat
      /\ wire # << >> /\ wire' = Tail(wire) /\ wire \in Seq(MsgT)
    BY DEF AdmissionInv, AdmissionTypes, emos_sdlink_packet, AdmT
<1>2. /\ Len(wire') = Len(wire) - 1 /\ m = wire[1] /\ m \in MsgT /\ 1 \in 1 .. Len(wire)
    BY <1>1, TailIs
<1>3. adm'.seq = adm.seq =>
        wire' \in Seq(MsgT) /\ WireInv' /\ Finishes(m) /\ adm.st # "CLAIMED" /\ (LastIsAnswer => LastIsAnswer')
    BY <1>1, TailKeeps
<1> HIDE DEF m
<1>4. Len(wire) \in Nat /\ Len(lnk.box) \in Nat /\ lnk.box \in Seq(MsgT) /\ Len(wire) >= 1
    BY <1>1, <1>2, LenProperties DEF LnkT
<1>5. CASE m.kind = 5 /\ adm.waiting /\ adm.rx = None /\ m.op = adm.op /\ m.seq = adm.seq /\ UNCHANGED lnk
           /\ adm' = [adm EXCEPT !.rx = m]
  <2>1. m \in AckT
      BY <1>2, <1>5 DEF MsgT, Request
  <2>2. /\ adm' \in AdmT /\ adm'.seq = adm.seq /\ adm'.st = adm.st /\ adm'.judged = adm.judged /\ adm'.rx = m
        /\ adm'.op = adm.op /\ Id(adm') = Id(adm) /\ adm'.terminal = adm.terminal
      BY <1>1, <1>5, <2>1 DEF AdmT, Id
  <2>3. adm.judged = None
      BY <1>5 DEF AdmissionInv, ReplyInv, Unanswered
  <2>4. BoxInv' /\ LinkEndsWithItsProgram' /\ AdmissionTypes'
      BY <1>1, <1>3, <1>5, <2>2 DEF AdmissionInv, BoxInv, Finishes, LinkEndsWithItsProgram, AdmissionTypes
  <2>5. ASSUME adm.st = "DECIDE_WAIT" PROVE wire' = << >> /\ Grants(m) /\ adm.op = "DECIDE" /\ LastIsAnswer
    <3>1. adm.op = "DECIDE" /\ LastIsAnswer
        BY <1>5, <2>5 DEF AdmissionInv, DecideInv
    <3>2. 1 = Len(wire) /\ Grants(m)
        BY <1>2, <1>5, <3>1 DEF LastIsAnswer, Decides
    <3>3. Len(wire') = 0
      <4>1. Len(wire) = 1
          BY <3>2
      <4>2. Len(wire') = 1 - 1
          BY <1>2, <4>1, Zenon
      <4> QED BY <4>2
    <3> QED BY <1>3, <2>2, <3>1, <3>2, <3>3, EmptySeq
  <2>6. DecideInv' /\ ReplyInv' /\ ClaimInv'
      BY <1>1, <1>3, <2>2, <2>3, <2>5 DEF AdmissionInv, DecideInv, ReplyInv, ClaimInv, Grants
  <2>7. JobInv'
      BY <1>1, <1>2, <1>4, <1>5, <2>2, JobStays DEF Coming
  <2> QED BY <1>3, <2>2, <2>4, <2>6, <2>7 DEF AdmissionInv
<1>6. ASSUME adm' = adm, lnk' \in LnkT, lnk'.active = lnk.active, lnk'.owner = lnk.owner, BoxInv',
             prog = "job" /\ ~job.failed => Len(lnk'.box) <= Len(lnk.box) + 1 /\ (lnk'.dropped => lnk.dropped)
      PROVE  AdmissionInv'
  <2>1. LinkEndsWithItsProgram' /\ AdmissionTypes' /\ Len(lnk'.box) \in Nat
      BY <1>1, <1>3, <1>6, LenProperties DEF AdmissionInv, LinkEndsWithItsProgram, AdmissionTypes, LnkT
  <2>2. DecideInv' /\ ReplyInv' /\ ClaimInv'
      BY <1>1, <1>3, <1>6 DEF AdmissionInv, DecideInv, ReplyInv, ClaimInv, Grants
  <2>3. JobInv'
      BY <1>1, <1>2, <1>4, <1>6, <2>1, JobStays DEF Coming
  <2> QED BY <1>3, <1>6, <2>1, <2>2, <2>3 DEF AdmissionInv
<1>7. CASE adm' = adm /\ UNCHANGED lnk
    BY <1>1, <1>4, <1>6, <1>7 DEF BoxInv, Finishes, AdmissionInv
<1>8. CASE adm' = adm /\ lnk' = [lnk EXCEPT !.box = Append(@, m)]
  <2> DEFINE b == Append(lnk.box, m)
  <2>1. b \in Seq(MsgT) /\ Len(b) = Len(lnk.box) + 1 /\ \A i \in 1 .. Len(b) : b[i] = m \/ (i \in 1 .. Len(lnk.box) /\ b[i] = lnk.box[i])
      BY <1>2, <1>4, AppendProperties
  <2>2. lnk' = [lnk EXCEPT !.box = b]
      BY <1>8
  <2> HIDE DEF b
  <2>3. lnk' \in LnkT /\ lnk'.active = lnk.active /\ lnk'.owner = lnk.owner /\ lnk'.box = b /\ lnk'.dropped = lnk.dropped
      BY <1>1, <2>1, <2>2 DEF LnkT
  <2>4. BoxInv'
    <3> SUFFICES ASSUME NEW i \in 1 .. Len(b) PROVE Finishes(b[i])
        BY <1>1, <2>3 DEF BoxInv, Finishes
    <3> QED BY <1>3, <1>8, <2>1 DEF AdmissionInv, BoxInv
  <2> QED BY <1>4, <1>6, <1>8, <2>1, <2>3, <2>4
<1>9. CASE adm' = adm /\ lnk.active /\ ~(Len(lnk.box) < Slots) /\ lnk' = [lnk EXCEPT !.dropped = TRUE]
  <2>1. lnk' \in LnkT /\ lnk'.active = lnk.active /\ lnk'.owner = lnk.owner /\ lnk'.box = lnk.box
      BY <1>1, <1>9 DEF LnkT
  <2>2. BoxInv'
      BY <1>1, <2>1 DEF AdmissionInv, BoxInv, Finishes
  <2>3. ASSUME prog = "job", ~job.failed PROVE FALSE
    <3>1. lnk.owner = 2 /\ Coming <= Awaited
        BY <1>9, <2>3 DEF AdmissionInv, JobInv, SoundJob
    <3>2. Awaited <= 2
        BY DEF Awaited, Ones
    <3>3. Len(lnk.box) >= 2
        BY <1>4, <1>9, <3>1 DEF Slots
    <3>4. Coming = Len(lnk.box) + Len(wire) /\ Awaited \in Nat
        BY DEF Coming, Awaited, Ones
    <3> QED BY <1>4, <3>1, <3>2, <3>3, <3>4
  <2> QED BY <1>4, <1>6, <1>9, <2>1, <2>2, <2>3
<1> QED BY <1>5, <1>7, <1>8, <1>9 DEF emos_sdlink_packet, emos_admission_packet, m

\* What may happen beside the foreground.
LEMMA LostKeeps == ASSUME AdmissionInv, Lost PROVE AdmissionInv'
<1>1. /\ AdmissionTypes /\ UNCHANGED <<adm, lnk, job, prog, env, peer>> /\ wire # << >> /\ wire' = Tail(wire)
      /\ wire \in Seq(MsgT) /\ lnk.box \in Seq(MsgT)
    BY DEF AdmissionInv, AdmissionTypes, Lost, LnkT
<1>2. wire' \in Seq(MsgT) /\ WireInv' /\ adm.st # "CLAIMED" /\ (LastIsAnswer => LastIsAnswer')
    BY <1>1, TailKeeps
<1>3. Len(wire') = Len(wire) - 1 /\ Len(wire) \in Nat /\ Len(lnk.box) \in Nat
    BY <1>1, TailIs, LenProperties
<1>4. Coming' <= Coming /\ Coming' \in Int
    BY <1>1, <1>3 DEF Coming
<1>5. JobInv'
    BY <1>1, <1>4, JobStays DEF Id
<1>6. DecideInv' /\ ReplyInv' /\ ClaimInv'
    BY <1>1, <1>2 DEF AdmissionInv, DecideInv, ReplyInv, ClaimInv, Grants, Id
<1> QED BY <1>1, <1>2, <1>5, <1>6 DEF AdmissionInv, AdmissionTypes, BoxInv, Finishes, LinkEndsWithItsProgram

\* The peer starts again: what it acknowledged and finished stays.
LEMMA RestartKeeps == ASSUME AdmissionInv, PeerRestarts PROVE AdmissionInv'
<1> DEFINE l == peer.link + 1
           x == [peer EXCEPT !.link = l]
           y == [x EXCEPT !.offer = 0]
<1>1. peer \in PeerT /\ UNCHANGED <<adm, lnk, job, prog, env, wire>>
    BY DEF AdmissionInv, AdmissionTypes, PeerRestarts
<1>2. l \in Nat /\ peer' = [y EXCEPT !.req = FALSE]
    BY <1>1 DEF PeerRestarts, PeerT
<1> HIDE DEF l
<1>3. x \in PeerT /\ x.acked = peer.acked /\ x.done = peer.done
    BY <1>1, <1>2 DEF PeerT
<1> HIDE DEF x
<1>4. y \in PeerT /\ y.acked = peer.acked /\ y.done = peer.done
    BY <1>3 DEF PeerT
<1> HIDE DEF y
<1>5. peer' \in PeerT /\ peer'.acked = peer.acked /\ peer'.done = peer.done
    BY <1>2, <1>4 DEF PeerT
<1>6. WireInv' /\ BoxInv'
    BY <1>1, <1>5 DEF AdmissionInv, WireInv, BoxInv, Finishes, Late, Decides
<1>7. DecideInv' /\ ReplyInv' /\ ClaimInv'
    BY <1>1, <1>5 DEF AdmissionInv, DecideInv, ReplyInv, ClaimInv, Grants, Id, LastIsAnswer, Decides
<1>8. JobInv'
    BY <1>1, <1>5 DEF AdmissionInv, JobInv, SoundJob, Coming, Awaited, Ones, Early, Serving, Over, Id
<1> QED BY <1>1, <1>5, <1>6, <1>7, <1>8 DEF AdmissionInv, AdmissionTypes, LinkEndsWithItsProgram

\* The keyboard link faults, which closes the SD link.
LEMMA FaultKeeps == ASSUME AdmissionInv, Fault PROVE AdmissionInv'
<1>1. /\ AdmissionTypes /\ UNCHANGED <<adm, job, prog, peer, wire>> /\ lnk' = Closed
      /\ env' = [env EXCEPT !.healthy = FALSE] /\ wire \in Seq(MsgT) /\ lnk.box \in Seq(MsgT)
    BY DEF AdmissionInv, AdmissionTypes, Fault, LnkT
<1>2. lnk' \in LnkT /\ ~lnk'.active /\ lnk'.owner = 0 /\ lnk'.box = << >> /\ ~lnk'.dropped
    BY <1>1, ClosedIs
<1>3. Len(wire) \in Nat /\ Len(lnk.box) \in Nat
    BY <1>1, LenProperties
<1>4. Coming' <= Coming /\ Coming' \in Int
    BY <1>1, <1>2, <1>3 DEF Coming
<1>5. JobInv'
    BY <1>1, <1>2, <1>4, JobStays DEF Id
<1>6. AdmissionTypes' /\ LinkEndsWithItsProgram' /\ BoxInv' /\ WireInv'
  <2>1. env' \in [mode : Modes, healthy : BOOLEAN]
      BY <1>1 DEF AdmissionTypes
  <2>2. BoxInv' /\ WireInv'
      BY <1>1, <1>2 DEF AdmissionInv, BoxInv, WireInv, Finishes, Late, Decides
  <2> QED BY <1>1, <1>2, <2>1, <2>2 DEF AdmissionInv, AdmissionTypes, LinkEndsWithItsProgram
<1>7. DecideInv' /\ ReplyInv' /\ ClaimInv'
    BY <1>1 DEF AdmissionInv, DecideInv, ReplyInv, ClaimInv, Grants, Id, LastIsAnswer, Decides
<1> QED BY <1>5, <1>6, <1>7 DEF AdmissionInv

\* A key comes.
LEMMA KeyKeeps == ASSUME AdmissionInv, KeyComes PROVE AdmissionInv'
BY DEF KeyComes, AdmissionInv, AdmissionTypes, LinkEndsWithItsProgram, BoxInv, WireInv, Finishes, Late, Decides, DecideInv,
       ReplyInv, ClaimInv, Grants, Id, LastIsAnswer, JobInv

\* A line is done.
LEMMA LineKeeps == ASSUME AdmissionInv, LineDone PROVE AdmissionInv'
<1>1. env' \in [mode : Modes, healthy : BOOLEAN]
    BY DEF LineDone, AdmissionInv, AdmissionTypes, Modes
<1> QED BY <1>1 DEF LineDone, AdmissionInv, AdmissionTypes, LinkEndsWithItsProgram, BoxInv, WireInv, Finishes, Late, Decides,
                    DecideInv, ReplyInv, ClaimInv, Grants, Id, LastIsAnswer, JobInv

\* The first packet of the mailbox is read.
LEMMA ReadIs ==
  ASSUME AdmissionTypes, BoxInv, lnk.box # << >>, lnk' = [lnk EXCEPT !.box = Tail(@)], peer.done \subseteq peer'.done
  PROVE  /\ lnk' \in LnkT /\ lnk'.active = lnk.active /\ lnk'.owner = lnk.owner /\ lnk'.dropped = lnk.dropped
         /\ Len(lnk'.box) = Len(lnk.box) - 1 /\ BoxInv' /\ Finishes(Head(lnk.box)) /\ Head(lnk.box) \in MsgT
<1> DEFINE b == Tail(lnk.box)
<1>1. lnk.box \in Seq(MsgT)
    BY DEF AdmissionTypes, LnkT
<1>2. /\ b \in Seq(MsgT) /\ Len(b) = Len(lnk.box) - 1 /\ Head(lnk.box) = lnk.box[1] /\ Head(lnk.box) \in MsgT
      /\ 1 \in 1 .. Len(lnk.box)
      /\ \A i \in 1 .. Len(b) : i + 1 \in 1 .. Len(lnk.box) /\ b[i] = lnk.box[i + 1]
    BY <1>1, HeadTailProperties
<1>3. lnk' = [lnk EXCEPT !.box = b]
    OBVIOUS
<1> HIDE DEF b
<1>4. lnk' \in LnkT /\ lnk'.box = b /\ lnk'.active = lnk.active /\ lnk'.owner = lnk.owner /\ lnk'.dropped = lnk.dropped
    BY <1>2, <1>3 DEF AdmissionTypes, LnkT
<1>5. BoxInv'
  <2> SUFFICES ASSUME NEW i \in 1 .. Len(b) PROVE Finishes(lnk.box[i])'
      BY <1>4 DEF BoxInv
  <2>1. Finishes(lnk.box[i + 1]) /\ lnk'.box[i] = lnk.box[i + 1]
      BY <1>2, <1>4 DEF BoxInv
  <2> QED BY <2>1 DEF Finishes
<1>6. Finishes(Head(lnk.box))
    BY <1>2 DEF BoxInv
<1> QED BY <1>2, <1>4, <1>5, <1>6

\* The calls of an application.
LEMMA CallKeeps ==
  ASSUME AdmissionInv, prog = "app", UNCHANGED <<adm, job, prog, env, peer, wire>>, lnk' \in LnkT, lnk'.owner # 2, BoxInv'
  PROVE  AdmissionInv'
<1>1. WireInv' /\ AdmissionTypes' /\ LinkEndsWithItsProgram'
    BY DEF AdmissionInv, AdmissionTypes, WireInv, Finishes, Late, Decides, LinkEndsWithItsProgram
<1>2. DecideInv' /\ ReplyInv' /\ ClaimInv' /\ JobInv'
    BY DEF AdmissionInv, DecideInv, ReplyInv, ClaimInv, Grants, Id, LastIsAnswer, Decides, JobInv
<1> QED BY <1>1, <1>2 DEF AdmissionInv

\* An application calls.
LEMMA AppKeeps == ASSUME AdmissionInv, AppCalls PROVE AdmissionInv'
<1> DEFINE c == Closed
<1>1. AdmissionTypes /\ BoxInv /\ prog = "app" /\ UNCHANGED <<job, prog, env, peer, wire>> /\ lnk.owner # 2
    BY DEF AdmissionInv, AppCalls, LinkEndsWithItsProgram
<1>2. c \in LnkT /\ ~c.active /\ c.owner = 0 /\ c.box = << >>
    BY <1>1, ClosedIs
<1>3. ASSUME lnk'.box = << >> PROVE BoxInv'
    BY <1>3 DEF BoxInv
<1>4. CASE lnk' = [c EXCEPT !.active = TRUE] /\ UNCHANGED adm
  <2> HIDE DEF c
  <2>1. lnk' \in LnkT /\ lnk'.owner = 0 /\ lnk'.box = << >>
      BY <1>2, <1>4 DEF LnkT
  <2> QED BY <1>1, <1>3, <1>4, <2>1, CallKeeps
<1>5. CASE lnk' = c /\ UNCHANGED adm
    BY <1>1, <1>2, <1>3, <1>5, CallKeeps
<1>6. CASE lnk' = [c EXCEPT !.active = TRUE, !.owner = 1] /\ adm' = Left(adm)
  <2> HIDE DEF c
  <2> DEFINE x == [c EXCEPT !.active = TRUE]
  <2>2. x \in LnkT /\ x.box = << >> /\ lnk' = [x EXCEPT !.owner = 1]
      BY <1>2, <1>6 DEF LnkT
  <2> HIDE DEF x
  <2>1. lnk' \in LnkT /\ lnk'.owner = 1 /\ lnk'.box = << >>
      BY <2>2 DEF LnkT
  <2> QED BY <1>1, <1>6, <2>1, ProgramKeeps
<1>7. CASE lnk.box # << >> /\ lnk' = [lnk EXCEPT !.box = Tail(@)] /\ UNCHANGED adm
  <2>1. lnk' \in LnkT /\ lnk'.owner = lnk.owner /\ BoxInv'
      BY <1>1, <1>7, ReadIs
  <2> QED BY <1>1, <1>7, <2>1, CallKeeps
<1> QED BY <1>4, <1>5, <1>6, <1>7 DEF AppCalls

-----------------------------------------------------------------------------

\* A step of a job that leaves the admission alone.
LEMMA JobKeeps ==
  ASSUME AdmissionInv, prog = "job", UNCHANGED <<adm, prog, env>>, lnk' \in LnkT, job' \in JobT, peer' \in PeerT,
         peer'.acked = peer.acked, wire' \in Seq(MsgT), WireInv', BoxInv', lnk'.owner # 1,
         lnk'.active => lnk'.owner = 2, job'.id = job.id, adm.terminal = 1 => job'.pc \in {"close", "exit"},
         job'.pc = "await" => job'.op \in {"JOB", "READY", "STATUS", "FINISH"}, ~job'.failed => SoundJob'
  PROVE  AdmissionInv'
<1>1. adm.st = "RUNNING" /\ job.id = Id(adm) /\ Id(adm') = Id(adm)
    BY DEF AdmissionInv, JobInv, Id
<1>2. JobInv'
    BY <1>1 DEF JobInv
<1>3. DecideInv' /\ ReplyInv' /\ ClaimInv' /\ LinkEndsWithItsProgram'
    BY <1>1 DEF AdmissionInv, DecideInv, ReplyInv, ClaimInv, LinkEndsWithItsProgram
<1>4. AdmissionTypes'
    BY DEF AdmissionInv, AdmissionTypes
<1> QED BY <1>2, <1>3, <1>4 DEF AdmissionInv
\* The link of a job, and its place.
LEMMA OwnerOfJob ==
  ASSUME AdmissionInv, prog = "job"
  PROVE  /\ lnk.owner # 1 /\ (lnk.active => lnk.owner = 2) /\ (adm.terminal = 1 => job.pc \in {"close", "exit"})
         /\ AdmissionTypes /\ adm \in AdmT /\ lnk \in LnkT /\ job \in JobT /\ peer \in PeerT /\ wire \in Seq(MsgT)
         /\ lnk.box \in Seq(MsgT) /\ Len(lnk.box) \in Nat /\ Len(wire) \in Nat /\ job.id = Id(adm) /\ BoxInv /\ WireInv
BY LenProperties DEF AdmissionInv, JobInv, LinkEndsWithItsProgram, AdmissionTypes, LnkT
\* A step that fails.
LEMMA FailingKeeps ==
  ASSUME AdmissionInv, prog = "job", UNCHANGED <<adm, prog, env, peer, wire>>, NEW pc \in Points \ {"await"}, Failing(pc),
         adm.terminal = 1 => pc \in {"close", "exit"},
         lnk' = lnk \/ (lnk.box # << >> /\ lnk' = [lnk EXCEPT !.box = Tail(@)])
  PROVE  AdmissionInv'
<1>1. job' \in JobT /\ job'.failed /\ job'.id = job.id /\ job'.pc = pc
    BY OwnerOfJob DEF Failing, JobT
<1>2. lnk' \in LnkT /\ lnk'.owner = lnk.owner /\ lnk'.active = lnk.active /\ BoxInv'
  <2>1. CASE lnk' = lnk
      BY <2>1, OwnerOfJob DEF BoxInv, Finishes
  <2>2. CASE lnk.box # << >> /\ lnk' = [lnk EXCEPT !.box = Tail(@)]
      BY <2>2, OwnerOfJob, ReadIs
  <2> QED BY <2>1, <2>2
<1>3. WireInv'
    BY OwnerOfJob DEF WireInv, Finishes, Late, Decides
<1> QED BY <1>1, <1>2, <1>3, OwnerOfJob, JobKeeps

\* A claimed job is loaded, or is not there.
LEMMA NewJobIs ==
  ASSUME adm \in AdmT
  PROVE  /\ NewJob \in JobT /\ NewJob.id = Id(adm) /\ NewJob.pc = "bind" /\ ~NewJob.live /\ ~NewJob.pending
<1>1. Id(adm) \in IdT /\ 0 \in Nat /\ "" \in Ops /\ "bind" \in Points
    BY DEF AdmT, Id, IdT, Ops, Points
<1> QED BY <1>1 DEF NewJob, JobT

\* A claimed job starts, or is not there.
LEMMA DispatchKeeps == ASSUME AdmissionInv, emos_admission_dispatch PROVE AdmissionInv'
<1> DEFINE x == [adm EXCEPT !.st = "RUNNING"]
           n == NewJob
<1>1. /\ AdmissionTypes /\ adm \in AdmT /\ prog = "prompt" /\ adm.st = "CLAIMED" /\ UNCHANGED <<env, peer, wire>>
      /\ wire = << >> /\ Id(adm) \in peer.acked /\ adm' = [x EXCEPT !.terminal = 0]
    BY DEF AdmissionInv, AdmissionTypes, emos_admission_dispatch, ClaimInv
<1>2. x \in AdmT /\ x.st = "RUNNING" /\ Id(x) = Id(adm) /\ x.judged = adm.judged /\ x.waiting = adm.waiting /\ x.rx = adm.rx
      /\ x.seq = adm.seq
    BY <1>1 DEF AdmT, States, Id
<1> HIDE DEF x
<1>3. /\ adm' \in AdmT /\ adm'.st = "RUNNING" /\ Id(adm') = Id(adm) /\ adm'.terminal = 0 /\ adm'.seq = adm.seq
      /\ (adm'.judged = None \/ Unanswered(adm'))
    BY <1>1, <1>2 DEF AdmT, Id, AdmissionInv, ReplyInv, Unanswered
<1>4. /\ n \in JobT /\ n.id = Id(adm) /\ n.pc = "bind" /\ ~n.live /\ ~n.pending
    BY <1>1, NewJobIs
<1>5. ReplyInv' /\ DecideInv' /\ ClaimInv' /\ WireInv'
    BY <1>1, <1>3 DEF ReplyInv, DecideInv, ClaimInv, WireInv
<1> HIDE DEF n
<1>6. CASE prog' = "job" /\ job' = n /\ lnk' = Closed
  <2>1. lnk' \in LnkT /\ ~lnk'.active /\ lnk'.owner = 0 /\ lnk'.box = << >> /\ ~lnk'.dropped
      BY <1>1, <1>6, ClosedIs
  <2>2. BoxInv' /\ LinkEndsWithItsProgram' /\ AdmissionTypes'
      BY <1>1, <1>3, <1>4, <1>6, <2>1 DEF BoxInv, LinkEndsWithItsProgram, AdmissionTypes
  <2>3. Coming' = 0 /\ Awaited' = 0
      BY <1>1, <1>4, <1>6, <2>1 DEF Coming, Awaited, Ones
  <2>4. SoundJob'
      BY <1>4, <1>6, <2>1, <2>3 DEF SoundJob, Early, Serving, Over
  <2>5. JobInv'
      BY <1>3, <1>4, <1>6, <2>1, <2>4 DEF JobInv
  <2> QED BY <1>5, <2>2, <2>5 DEF AdmissionInv
<1>7. CASE prog' = "ending" /\ job' = [n EXCEPT !.failed = TRUE] /\ UNCHANGED lnk
  <2>1. job' \in JobT /\ job'.failed
      BY <1>4, <1>7 DEF JobT
  <2>2. BoxInv' /\ LinkEndsWithItsProgram' /\ AdmissionTypes'
      BY <1>1, <1>3, <1>7, <2>1 DEF AdmissionInv, BoxInv, Finishes, LinkEndsWithItsProgram, AdmissionTypes
  <2>3. JobInv'
      BY <1>3, <1>7, <2>1 DEF JobInv
  <2> QED BY <1>5, <2>2, <2>3 DEF AdmissionInv
<1> QED BY <1>6, <1>7 DEF emos_admission_dispatch, n

\* The job takes its link.
LEMMA BindKeeps == ASSUME AdmissionInv, Bind PROVE AdmissionInv'
<1>1. prog = "job" /\ job.pc = "bind" /\ UNCHANGED <<adm, prog, env, peer, wire>>
    BY DEF Bind, JobAt
<1>2. CASE Failing("exit") /\ UNCHANGED lnk
    BY <1>1, <1>2, FailingKeeps DEF Points
<1>3. CASE /\ lnk' = [Closed EXCEPT !.active = TRUE, !.owner = 2]
           /\ job' = [job EXCEPT !.pc = "JOB", !.id = Id(adm), !.seq = adm.seq]
  <2> DEFINE c == Closed
             x == [c EXCEPT !.active = TRUE]
             i == Id(adm)
             y == [job EXCEPT !.pc = "JOB"]
             z == [y EXCEPT !.id = i]
  <2>1. c \in LnkT /\ c.owner = 0 /\ c.box = << >> /\ ~c.dropped
      BY <1>1, OwnerOfJob, ClosedIs
  <2>2. lnk' = [x EXCEPT !.owner = 2] /\ job' = [z EXCEPT !.seq = adm.seq]
      BY <1>3
  <2>3. i \in IdT /\ i = job.id /\ adm.seq \in Nat
      BY <1>1, OwnerOfJob DEF Id, IdT, AdmT
  <2> HIDE DEF c, i
  <2>4. x \in LnkT /\ x.box = << >> /\ ~x.dropped
      BY <2>1 DEF LnkT
  <2> HIDE DEF x
  <2>5. lnk' \in LnkT /\ lnk'.box = << >> /\ ~lnk'.dropped /\ lnk'.owner = 2
      BY <2>2, <2>4 DEF LnkT
  <2>6. y \in JobT /\ y.pc = "JOB" /\ y.live = job.live /\ y.pending = job.pending /\ y.failed = job.failed
      BY <1>1, OwnerOfJob DEF JobT, Points
  <2> HIDE DEF y
  <2>7. z \in JobT /\ z.pc = "JOB" /\ z.live = job.live /\ z.pending = job.pending /\ z.failed = job.failed /\ z.id = i
      BY <2>3, <2>6 DEF JobT
  <2> HIDE DEF z
  <2>8. /\ job' \in JobT /\ job'.pc = "JOB" /\ job'.live = job.live /\ job'.pending = job.pending
        /\ job'.failed = job.failed /\ job'.id = job.id
      BY <2>2, <2>3, <2>7 DEF JobT
  <2>9. ASSUME ~job'.failed PROVE SoundJob'
    <3>1. SoundJob /\ ~job.live /\ ~job.pending
        BY <1>1, <2>8, <2>9 DEF AdmissionInv, JobInv, SoundJob, Early
    <3>2. Awaited = 0 /\ Awaited' = 0
        BY <1>1, <2>8, <3>1 DEF Awaited, Ones
    <3>3. Coming <= 0 /\ Coming = Len(lnk.box) + Len(wire) /\ Coming' = 0 + Len(wire)
        BY <1>1, <2>5, <3>1, <3>2 DEF SoundJob, Coming
    <3>4. Coming' <= Awaited'
        BY <1>1, <3>2, <3>3, OwnerOfJob
    <3> QED BY <2>5, <2>8, <3>1, <3>4 DEF SoundJob, Early, Serving, Over
  <2>10. BoxInv' /\ WireInv'
      BY <1>1, <2>5, OwnerOfJob DEF BoxInv, WireInv, Finishes, Late, Decides
  <2> QED BY <1>1, <2>5, <2>8, <2>9, <2>10, OwnerOfJob, JobKeeps
<1> QED BY <1>2, <1>3 DEF Bind

\* The packets that may still come to a sound job: the number, by its place.
LEMMA AwaitedIs ==
  /\ Awaited \in Nat
  /\ job.pc = "await" /\ job.op # "READY" => Awaited = 1 + Ones(~job.pending /\ job.live)
  /\ job.pc = "await" /\ job.op = "READY" => Awaited = 1 + Ones(~job.pending)
  /\ job.pc # "await" => Awaited = Ones(~job.pending /\ job.live)
BY DEF Awaited, Ones

\* The job sends a record, and waits for its answer.
LEMMA SendsKeeps ==
  ASSUME AdmissionInv, prog = "job", UNCHANGED <<adm, lnk, prog, env>>, NEW op \in {"JOB", "READY", "STATUS", "FINISH"},
         job' = [job EXCEPT !.pc = "await", !.op = op, !.seq = @ + 1], PeerSent(op, job.seq + 1, job.id),
         job.pc = (IF op = "STATUS" THEN "loop" ELSE op), op = "STATUS" => ~job.pending
  PROVE  AdmissionInv'
<1> DEFINE n == job.seq + 1
           x == [job EXCEPT !.pc = "await"]
           y == [x EXCEPT !.op = op]
           F(b) == /\ b.live = job.live /\ b.pending = job.pending /\ b.failed = job.failed /\ b.stage = job.stage
                   /\ b.id = job.id
<1>a. op \in Ops
    BY DEF Ops
<1>1. job \in JobT /\ n \in Nat /\ op \in Ops /\ job.id \in IdT
    BY <1>a, OwnerOfJob DEF JobT
<1>2. job' = [y EXCEPT !.seq = n]
    OBVIOUS
<1> HIDE DEF n
<1>3. x \in JobT /\ x.pc = "await" /\ F(x)
    BY <1>1 DEF JobT, Points
<1> HIDE DEF x
<1>4. y \in JobT /\ y.pc = "await" /\ y.op = op /\ F(y)
    BY <1>1, <1>3 DEF JobT
<1> HIDE DEF y
<1>5. job' \in JobT /\ job'.pc = "await" /\ job'.op = op /\ F(job')
    BY <1>1, <1>2, <1>4 DEF JobT
<1>6. adm.seq \in Nat /\ adm'.seq \in Nat /\ adm.seq <= adm'.seq /\ PeerSent(op, n, job.id) /\ op # "DECIDE"
    BY OwnerOfJob DEF AdmT, n
<1>7. /\ peer' \in PeerT /\ wire' \in Seq(MsgT) /\ WireInv' /\ BoxInv' /\ peer.done \subseteq peer'.done
      /\ peer'.acked = peer.acked /\ Len(wire') <= Len(wire) + (IF op = "READY" THEN 2 ELSE 1)
    BY <1>1, <1>6, OwnerOfJob, SentTells
<1>8. ASSUME ~job'.failed PROVE SoundJob'
  <2>1. SoundJob
      BY <1>5, <1>8 DEF AdmissionInv, JobInv
  <2>2. Coming <= Awaited /\ Coming' = Len(lnk.box) + Len(wire') /\ Coming = Len(lnk.box) + Len(wire) /\ Len(wire') \in Nat
      BY <1>7, <2>1, LenProperties DEF SoundJob, Coming
  <2>3. Awaited = Ones(~job.pending /\ job.live)
      BY AwaitedIs
  <2>4. Awaited' = (IF op = "READY" THEN 1 + Ones(~job.pending) ELSE 1 + Ones(~job.pending /\ job.live))
      BY <1>5 DEF Awaited, Ones
  <2>5. op \in {"JOB", "READY"} => ~job.live /\ ~job.pending
      BY <2>1 DEF SoundJob, Early
  <2>6. op \in {"STATUS", "FINISH"} => job.live
      BY <2>1 DEF SoundJob, Serving
  <2>7. Coming' <= Awaited'
    <3>1. CASE op = "READY"
        BY <1>7, <2>2, <2>3, <2>4, <2>5, <3>1, OwnerOfJob DEF Ones
    <3>2. CASE op # "READY"
        BY <1>7, <2>2, <2>3, <2>4, <3>2, OwnerOfJob DEF Ones
    <3> QED BY <3>1, <3>2
  <2>8. op = "FINISH" => ~job.stage
      BY <2>1 DEF SoundJob
  <2> QED BY <1>5, <2>1, <2>5, <2>6, <2>7, <2>8 DEF SoundJob, Early, Serving, Over
<1>9. adm.terminal = 1 => job'.pc \in {"close", "exit"}
    BY OwnerOfJob
<1> QED BY <1>5, <1>7, <1>8, <1>9, OwnerOfJob, JobKeeps

\* The job sends its next record, or fails.
LEMMA ControlKeeps == ASSUME AdmissionInv, Control PROVE AdmissionInv'
<1>1. prog = "job" /\ UNCHANGED <<adm, lnk, prog, env>>
    BY DEF Control, JobAt
<1>2. ASSUME NEW op \in {"JOB", "READY", "STATUS", "FINISH"}, ControlSends(op),
             job.pc = (IF op = "STATUS" THEN "loop" ELSE op), op = "STATUS" => ~job.pending
      PROVE  AdmissionInv'
  <2>1. CASE Failing(Instead(op)) /\ UNCHANGED <<peer, wire>>
    <3>1. Instead(op) \in Points \ {"await"} /\ adm.terminal # 1
        BY <1>1, <1>2, OwnerOfJob DEF Instead, Points
    <3> QED BY <1>1, <2>1, <3>1, FailingKeeps
  <2>2. CASE /\ job' = [job EXCEPT !.pc = "await", !.op = op, !.seq = @ + 1]
             /\ PeerSent(op, job.seq + 1, job.id)
      BY <1>1, <1>2, <2>2, SendsKeeps
  <2> QED BY <1>2, <2>1, <2>2 DEF ControlSends
<1> QED BY <1>2 DEF Control, JobAt

\* The job takes what the mailbox holds: its answer, a request, or neither.
LEMMA ContinuedIs ==
  ASSUME AdmissionInv, prog = "job", job.pc = "await", NEW m \in MsgT, Answered(m), Finishes(m), m.res = 0,
         NEW j, j = Continued(m)
  PROVE  /\ j \in JobT /\ j.id = job.id /\ j.pc \in {"READY", "loop", "terminal"} /\ j.pending = job.pending
         /\ ~j.failed => ~job.failed
         /\ ~job.failed =>
              /\ j.pc = "READY" => ~j.live /\ ~j.pending
              /\ j.pc = "loop" => j.live
              /\ j.pc = "terminal" => ~j.stage /\ adm.job \in peer.done
              /\ ~j.pending /\ j.live <=> ~job.pending /\ (job.live \/ job.op = "READY")
<1>1. job \in JobT /\ (~job.failed => SoundJob) /\ job.op \in {"JOB", "READY", "STATUS", "FINISH"} /\ job.id = Id(adm)
    BY OwnerOfJob DEF AdmissionInv, JobInv
<1>2. CASE job.op = "JOB"
  <2>1. j = [job EXCEPT !.pc = "READY"]
      BY <1>2 DEF Continued
  <2>2. j \in JobT /\ j.id = job.id /\ j.pc = "READY" /\ j.pending = job.pending /\ (~j.failed => ~job.failed) /\ j.live = job.live
      BY <1>1, <2>1 DEF JobT, Points
  <2> QED BY <1>1, <1>2, <2>2 DEF SoundJob, Early
<1>3. CASE job.op = "READY"
  <2> DEFINE x == [job EXCEPT !.pc = "loop"]
  <2>1. j = [x EXCEPT !.live = TRUE]
      BY <1>3 DEF Continued
  <2>2. x \in JobT /\ x.id = job.id /\ x.pc = "loop" /\ x.pending = job.pending /\ (~x.failed => ~job.failed)
      BY <1>1 DEF JobT, Points
  <2> HIDE DEF x
  <2>3. j \in JobT /\ j.id = job.id /\ j.pc = "loop" /\ j.pending = job.pending /\ (~j.failed => ~job.failed) /\ j.live
      BY <2>1, <2>2 DEF JobT
  <2> QED BY <1>1, <1>3, <2>3 DEF SoundJob, Early
<1>4. CASE job.op = "STATUS"
  <2> DEFINE x == [job EXCEPT !.pc = "loop"]
             e == "end" \in m.more
  <2>1. j = [x EXCEPT !.ending = e]
      BY <1>4 DEF Continued
  <2>2. x \in JobT /\ x.id = job.id /\ x.pc = "loop" /\ x.pending = job.pending /\ (~x.failed => ~job.failed) /\ x.live = job.live
      BY <1>1 DEF JobT, Points
  <2>3. e \in BOOLEAN
      OBVIOUS
  <2> HIDE DEF x, e
  <2>4. j \in JobT /\ j.id = job.id /\ j.pc = "loop" /\ j.pending = job.pending /\ (~j.failed => ~job.failed) /\ j.live = job.live
      BY <2>1, <2>2, <2>3 DEF JobT
  <2> QED BY <1>1, <1>4, <2>4 DEF SoundJob, Serving
<1>5. CASE job.op = "FINISH"
  <2>1. j = [job EXCEPT !.pc = "terminal"]
      BY <1>5 DEF Continued
  <2>2. j \in JobT /\ j.id = job.id /\ j.pc = "terminal" /\ j.pending = job.pending /\ (~j.failed => ~job.failed) /\ j.live = job.live /\ j.stage = job.stage
      BY <1>1, <2>1 DEF JobT, Points
  <2>3. job.id.job \in peer.done
      BY <1>5 DEF Answered, Finishes
  <2>4. adm.job = job.id.job
      BY <1>1 DEF Id
  <2> QED BY <1>1, <1>5, <2>2, <2>3, <2>4 DEF SoundJob
<1> QED BY <1>1, <1>2, <1>3, <1>4, <1>5

\* The answer that is awaited, a request that came before it, or neither.
LEMMA AwaitKeeps == ASSUME AdmissionInv, Await PROVE AdmissionInv'
<1> DEFINE m == Head(lnk.box)
<1>1. /\ prog = "job" /\ job.pc = "await" /\ UNCHANGED <<adm, prog, env, peer, wire>> /\ adm.terminal # 1 /\ job \in JobT
      /\ job.op \in {"JOB", "READY", "STATUS", "FINISH"}
    BY OwnerOfJob DEF Await, JobAt, AdmissionInv, JobInv
<1>2. Instead(job.op) \in Points \ {"await"}
    BY DEF Instead, Points
<1>3. CASE Failing(Instead(job.op)) /\ UNCHANGED lnk
    BY <1>1, <1>2, <1>3, FailingKeeps
<1>4. ASSUME lnk.box # << >>, lnk' = [lnk EXCEPT !.box = Tail(@)],
             \/ Answered(m) /\ job' = Continued(m)
             \/ ~Answered(m) /\ m.kind = 3 /\ job.live /\ ~job.pending /\ job' = [job EXCEPT !.pending = TRUE]
             \/ Failing(Instead(job.op))
      PROVE  AdmissionInv'
  <2>1. /\ lnk' \in LnkT /\ lnk'.active = lnk.active /\ lnk'.owner = lnk.owner /\ lnk'.dropped = lnk.dropped
        /\ Len(lnk'.box) = Len(lnk.box) - 1 /\ BoxInv' /\ Finishes(m) /\ m \in MsgT
      BY <1>1, <1>4, OwnerOfJob, ReadIs
  <2> HIDE DEF m
  <2>2. WireInv'
      BY <1>1, OwnerOfJob DEF WireInv, Finishes, Late, Decides
  <2>3. Coming = Len(lnk.box) + Len(wire) /\ Coming' = Len(lnk'.box) + Len(wire)
      BY <1>1 DEF Coming
  <2>4. ~job.failed => SoundJob
      BY <1>1 DEF AdmissionInv, JobInv
  <2>5. CASE Answered(m) /\ job' = Continued(m) /\ m.res # 0
    <3>1. Failing(Instead(job.op))
        BY <2>5 DEF Continued, Failing
    <3> QED BY <1>1, <1>2, <1>4, <3>1, FailingKeeps
  <2>6. CASE Answered(m) /\ job' = Continued(m) /\ m.res = 0 /\ job.failed
    <3>1. job' \in JobT /\ job'.failed /\ job'.id = job.id /\ job'.pc # "await"
        BY <1>1, <2>1, <2>6, ContinuedIs
    <3> QED BY <1>1, <2>1, <2>2, <3>1, OwnerOfJob, JobKeeps
  <2>7. CASE Answered(m) /\ job' = Continued(m) /\ m.res = 0 /\ ~job.failed
    <3>1. /\ job' \in JobT /\ job'.id = job.id /\ job'.pc \in {"READY", "loop", "terminal"} /\ job'.pending = job.pending
          /\ job'.pc = "READY" => ~job'.live /\ ~job'.pending
          /\ job'.pc = "loop" => job'.live
          /\ job'.pc = "terminal" => ~job'.stage /\ adm.job \in peer.done
          /\ ~job'.pending /\ job'.live <=> ~job.pending /\ (job.live \/ job.op = "READY")
        BY <1>1, <2>1, <2>7, ContinuedIs
    <3>2. Awaited' = Awaited - 1 /\ Awaited \in Nat /\ Awaited' \in Nat
        BY <1>1, <3>1 DEF Awaited, Ones
    <3>3. Coming' <= Awaited'
      <4>1. Coming <= Awaited
          BY <2>4, <2>7 DEF SoundJob
      <4>2. Len(lnk.box) \in Nat /\ Len(wire) \in Nat /\ Len(lnk'.box) = Len(lnk.box) - 1
          BY <1>1, <2>1, OwnerOfJob
      <4> DEFINE b == Len(lnk.box)
                 w == Len(wire)
      <4>3. Coming = b + w /\ Coming' = b - 1 + w /\ b \in Nat /\ w \in Nat
          BY <2>3, <4>2
      <4> QED BY <3>2, <4>1, <4>3
    <3>4. SoundJob'
        BY <1>1, <2>1, <2>4, <2>7, <3>1, <3>3 DEF SoundJob, Early, Serving, Over
    <3> QED BY <1>1, <2>1, <2>2, <3>1, <3>4, OwnerOfJob, JobKeeps
  <2>8. CASE job.live /\ ~job.pending /\ job' = [job EXCEPT !.pending = TRUE]
    <3>1. /\ job' \in JobT /\ job'.id = job.id /\ job'.pc = "await" /\ job'.pending /\ job'.live = job.live
          /\ job'.op = job.op /\ job'.stage = job.stage /\ (~job'.failed => ~job.failed)
        BY <1>1, <2>8 DEF JobT
    <3>2. ASSUME ~job'.failed PROVE SoundJob'
      <4>1. SoundJob /\ job.op \in {"STATUS", "FINISH"}
          BY <1>1, <2>4, <2>8, <3>1, <3>2 DEF SoundJob, Early
      <4>2. Awaited = 2 /\ Awaited' = 1
          BY <1>1, <2>8, <3>1, <4>1 DEF Awaited, Ones
      <4>3. Coming' <= Awaited'
          BY <1>1, <2>1, <2>3, <4>1, <4>2, OwnerOfJob DEF SoundJob
      <4> QED BY <1>1, <2>1, <2>8, <3>1, <4>1, <4>3 DEF SoundJob, Early, Serving, Over
    <3> QED BY <1>1, <2>1, <2>2, <3>1, <3>2, OwnerOfJob, JobKeeps
  <2>9. CASE Failing(Instead(job.op))
      BY <1>1, <1>2, <1>4, <2>9, FailingKeeps
  <2> QED BY <1>4, <2>5, <2>6, <2>7, <2>8, <2>9
<1> QED BY <1>3, <1>4 DEF Await

\* No answer came in time.
LEMMA NoAnswerKeeps == ASSUME AdmissionInv, NoAnswer PROVE AdmissionInv'
<1>1. Instead(job.op) \in Points \ {"await"} /\ prog = "job" /\ adm.terminal # 1
    BY OwnerOfJob DEF Instead, Points, NoAnswer, JobAt
<1> QED BY <1>1, FailingKeeps DEF NoAnswer

\* A request is served.
LEMMA ServedKeeps == ASSUME AdmissionInv, Served PROVE AdmissionInv'
<1>1. /\ prog = "job" /\ job.pc = "loop" /\ ~job.failed /\ UNCHANGED <<adm, prog, env>> /\ SoundJob
      /\ job \in JobT /\ peer \in PeerT /\ wire \in Seq(MsgT) /\ adm.terminal # 1 /\ adm.seq = adm'.seq
    BY OwnerOfJob DEF Served, JobAt, AdmissionInv, JobInv
<1>2. job.live /\ Coming <= Awaited /\ ~lnk.dropped /\ Awaited = Ones(~job.pending)
    BY <1>1, AwaitedIs DEF SoundJob, Serving, Ones
<1>3. peer' \in PeerT /\ peer'.acked = peer.acked /\ peer'.done = peer.done
  <2>1. CASE peer' = peer
      BY <1>1, <2>1
  <2>2. CASE \E more \in BOOLEAN : peer' = [peer EXCEPT !.req = more]
      BY <1>1, <2>2 DEF PeerT
  <2> QED BY <2>1, <2>2 DEF Served
<1>4. /\ lnk' \in LnkT /\ lnk'.active = lnk.active /\ lnk'.owner = lnk.owner /\ ~lnk'.dropped /\ BoxInv'
      /\ Len(lnk'.box) = 0 /\ Len(wire) = 0
  <2> DEFINE b == Len(lnk.box)
             w == Len(wire)
  <2>4. b \in Nat /\ w \in Nat
      BY <1>1, OwnerOfJob
  <2>1. b + w <= Ones(~job.pending)
      BY <1>1, <1>2, OwnerOfJob DEF Coming
  <2>2. CASE job.pending /\ UNCHANGED lnk
    <3>1. BoxInv'
        BY <1>3, <2>2, OwnerOfJob, <1>1 DEF BoxInv, Finishes
    <3> QED BY <1>1, <1>2, <2>1, <2>2, <2>4, <3>1, OwnerOfJob DEF Ones
  <2>3. CASE ~job.pending /\ lnk.box # << >> /\ lnk' = [lnk EXCEPT !.box = Tail(@)]
    <3>1. /\ lnk' \in LnkT /\ lnk'.active = lnk.active /\ lnk'.owner = lnk.owner /\ lnk'.dropped = lnk.dropped
          /\ Len(lnk'.box) = b - 1 /\ BoxInv'
        BY <1>1, <1>3, <2>3, OwnerOfJob, ReadIs
    <3>2. b # 0
        BY <1>1, <2>3, OwnerOfJob, EmptySeq
    <3>3. b + w <= 1
        BY <2>1, <2>3 DEF Ones
    <3>4. b = 1 /\ w = 0
      <4> HIDE DEF b, w
      <4> QED BY <2>4, <3>2, <3>3
    <3> QED BY <1>2, <3>1, <3>4
  <2> QED BY <2>2, <2>3 DEF Served
<1>5. wire' \in Seq(MsgT) /\ WireInv' /\ Len(wire') <= 1 /\ Len(wire') \in Nat
  <2>1. CASE wire' = wire
    <3>1. WireInv'
        BY <1>1, <1>3, <2>1, OwnerOfJob DEF WireInv, Finishes, Late, Decides
    <3> QED BY <1>1, <1>4, <2>1, <3>1
  <2>2. CASE wire' = Append(wire, Request)
    <3>1. Request \in MsgT /\ Request.kind = 3
        BY DEF MsgT, Request
    <3>2. wire' \in Seq(MsgT) /\ Len(wire') = 1 /\ wire'[1] = Request
      <4> DEFINE r == Request
      <4>1. r \in MsgT /\ wire' = Append(wire, r)
          BY <2>2, <3>1
      <4> HIDE DEF r
      <4>2. wire' \in Seq(MsgT) /\ Len(wire') = 1 /\ wire'[1] = r
          BY <1>1, <1>4, <4>1, AppendProperties
      <4> QED BY <4>2 DEF r
    <3>3. WireInv'
        BY <3>1, <3>2 DEF WireInv, Finishes, Late, Decides
    <3> QED BY <3>2, <3>3
  <2> QED BY <2>1, <2>2 DEF Served
<1>6. PICK stage \in BOOLEAN : job' = [job EXCEPT !.pending = FALSE, !.stage = stage]
    BY DEF Served
<1>7. /\ job' \in JobT /\ job'.pc = "loop" /\ ~job'.pending /\ job'.live /\ job'.id = job.id
  <2> DEFINE x == [job EXCEPT !.pending = FALSE]
  <2>1. x \in JobT /\ x.pc = "loop" /\ ~x.pending /\ x.live /\ x.id = job.id /\ job' = [x EXCEPT !.stage = stage]
      BY <1>1, <1>2, <1>6 DEF JobT
  <2> HIDE DEF x
  <2> QED BY <2>1 DEF JobT
<1>8. Coming' <= Awaited'
  <2>1. Awaited' = 1
      BY <1>7 DEF Awaited, Ones
  <2>2. Coming' = Len(lnk'.box) + Len(wire')
      BY DEF Coming
  <2> QED BY <1>4, <1>5, <2>1, <2>2
<1>9. SoundJob'
    BY <1>4, <1>7, <1>8 DEF SoundJob, Early, Serving, Over
<1> QED BY <1>1, <1>3, <1>4, <1>5, <1>7, <1>9, OwnerOfJob, JobKeeps

\* The loop fails, or ends.
LEMMA FailsKeeps == ASSUME AdmissionInv, JobFails PROVE AdmissionInv'
<1>1. prog = "job" /\ adm.terminal # 1 /\ "FINISH" \in Points \ {"await"}
    BY OwnerOfJob DEF JobFails, JobAt, Points
<1> QED BY <1>1, FailingKeeps DEF JobFails

\* The loop ends when the peer has said so.
LEMMA EndsKeeps == ASSUME AdmissionInv, LoopEnds PROVE AdmissionInv'
<1> DEFINE f == job.failed \/ job.stage
           x == [job EXCEPT !.pc = "FINISH"]
<1>1. prog = "job" /\ job.pc = "loop" /\ UNCHANGED <<adm, lnk, prog, env, peer, wire>> /\ job \in JobT /\ adm.terminal # 1
    BY OwnerOfJob DEF LoopEnds, JobAt
<1>2. /\ x \in JobT /\ x.pc = "FINISH" /\ x.id = job.id /\ x.live = job.live /\ x.pending = job.pending
      /\ x.stage = job.stage
    BY <1>1 DEF JobT, Points
<1>6. job' = [x EXCEPT !.failed = f] /\ f \in BOOLEAN
    BY Zenon, <1>1 DEF JobT, LoopEnds
<1> HIDE DEF x
<1>3. /\ job' \in JobT /\ job'.pc = "FINISH" /\ job'.id = job.id /\ job'.live = job.live /\ job'.pending = job.pending
      /\ job'.stage = job.stage /\ job'.failed = f
  <2> HIDE DEF f
  <2> QED BY <1>2, <1>6 DEF JobT
<1>4. ASSUME ~job'.failed PROVE SoundJob'
  <2>1. SoundJob /\ ~job.stage
      BY <1>1, <1>3, <1>4 DEF AdmissionInv, JobInv
  <2>2. Coming' = Coming /\ Awaited' = Awaited
      BY <1>1, <1>3 DEF Coming, Awaited
  <2> QED BY <1>1, <1>3, <2>1, <2>2 DEF SoundJob, Early, Serving, Over
<1>5. BoxInv' /\ WireInv'
    BY <1>1, OwnerOfJob DEF BoxInv, WireInv, Finishes, Late, Decides
<1> QED BY <1>1, <1>3, <1>4, <1>5, OwnerOfJob, JobKeeps

\* The end of a job is told to the resident part, and its link is closed.
LEMMA TerminalKeeps == ASSUME AdmissionInv, Terminal PROVE AdmissionInv'
<1>1. prog = "job" /\ job.pc = "terminal" /\ UNCHANGED <<lnk, prog, env, peer, wire>> /\ job \in JobT /\ adm \in AdmT
    BY OwnerOfJob DEF Terminal, JobAt
<1>2. CASE Failing("close") /\ UNCHANGED adm
  <2>1. "close" \in Points \ {"await"}
      BY DEF Points
  <2> QED BY <1>1, <1>2, <2>1, FailingKeeps
<1>3. CASE /\ adm' = [adm EXCEPT !.seq = job.seq, !.terminal = IF job.failed THEN 2 ELSE 1] /\ Going("close")
           /\ job.seq >= adm.seq
  <2> DEFINE n == job.seq
             t == IF job.failed THEN 2 ELSE 1
             x == [adm EXCEPT !.seq = n]
  <2>1. n \in Nat /\ t \in 0 .. 2 /\ n >= adm.seq /\ adm' = [x EXCEPT !.terminal = t]
      BY <1>1, <1>3 DEF JobT
  <2>2. job' \in JobT /\ job'.pc = "close" /\ job'.id = job.id /\ job'.live = job.live /\ job'.pending = job.pending
        /\ job'.stage = job.stage /\ job'.failed = job.failed
      BY <1>1, <1>3 DEF Going, JobT, Points
  <2> HIDE DEF n, t
  <2>3. /\ x \in AdmT /\ x.seq = n /\ x.st = adm.st /\ x.link = adm.link /\ x.gen = adm.gen /\ x.job = adm.job
        /\ x.grant = adm.grant /\ x.judged = adm.judged /\ x.waiting = adm.waiting /\ x.rx = adm.rx
      BY <1>1, <2>1 DEF AdmT
  <2> HIDE DEF x
  <2>4. /\ adm' \in AdmT /\ adm'.seq = n /\ adm'.st = adm.st /\ adm'.link = adm.link /\ adm'.gen = adm.gen
        /\ adm'.job = adm.job /\ adm'.grant = adm.grant /\ adm'.judged = adm.judged /\ adm'.waiting = adm.waiting
        /\ adm'.rx = adm.rx
      BY <2>1, <2>3 DEF AdmT
  <2>5. adm.st = "RUNNING" /\ Id(adm') = Id(adm)
      BY <1>1, <2>4 DEF AdmissionInv, JobInv, Id
  <2>6. WireInv' /\ BoxInv'
    <3>1. AdmissionTypes /\ WireInv /\ BoxInv /\ adm'.seq \in Nat /\ adm.seq <= adm'.seq
        BY <1>1, <2>1, <2>4 DEF AdmissionInv, AdmT
    <3> QED BY <1>1, <3>1, WireStays, BoxStays
  <2>7. DecideInv' /\ ReplyInv' /\ ClaimInv'
      BY <1>1, <2>4, <2>5 DEF AdmissionInv, DecideInv, ReplyInv, ClaimInv, Unanswered
  <2>8. ASSUME ~job'.failed PROVE SoundJob'
    <3>1. SoundJob
        BY <1>1, <2>2, <2>8 DEF AdmissionInv, JobInv
    <3>2. Coming' = Coming /\ Awaited' = Awaited
        BY <1>1, <2>2 DEF Coming, Awaited
    <3> QED BY <1>1, <2>2, <2>4, <3>1, <3>2 DEF SoundJob, Early, Serving, Over
  <2>9. JobInv'
      BY <1>1, <2>2, <2>4, <2>5, <2>8, OwnerOfJob DEF JobInv
  <2>10. AdmissionTypes' /\ LinkEndsWithItsProgram'
      BY <1>1, <2>2, <2>4 DEF AdmissionInv, AdmissionTypes, LinkEndsWithItsProgram
  <2> QED BY <2>6, <2>7, <2>9, <2>10 DEF AdmissionInv
<1> QED BY <1>2, <1>3 DEF Terminal

\* The link of the job is closed.
LEMMA CloseKeeps == ASSUME AdmissionInv, Close PROVE AdmissionInv'
<1>1. prog = "job" /\ job.pc = "close" /\ UNCHANGED <<adm, prog, env, peer, wire>> /\ job \in JobT /\ AdmissionTypes
      /\ "exit" \in Points \ {"await"}
    BY OwnerOfJob DEF Close, JobAt, Points
<1>2. CASE Failing("exit") /\ UNCHANGED lnk
    BY <1>1, <1>2, FailingKeeps
<1>3. CASE Going("exit") /\ lnk' = Closed
  <2>1. job' \in JobT /\ job'.pc = "exit" /\ job'.id = job.id /\ job'.live = job.live /\ job'.pending = job.pending
        /\ job'.stage = job.stage /\ job'.failed = job.failed
      BY <1>1, <1>3 DEF Going, JobT, Points
  <2>2. lnk' \in LnkT /\ ~lnk'.active /\ lnk'.owner = 0 /\ lnk'.box = << >> /\ ~lnk'.dropped
      BY <1>1, <1>3, ClosedIs
  <2>3. BoxInv' /\ WireInv'
      BY <1>1, <2>2, OwnerOfJob DEF BoxInv, WireInv, Finishes, Late, Decides
  <2>4. ASSUME ~job'.failed PROVE SoundJob'
    <3>1. SoundJob
        BY <1>1, <2>1, <2>4 DEF AdmissionInv, JobInv
    <3>2. Awaited' = Awaited
        BY <1>1, <2>1 DEF Awaited
    <3>3. Coming' <= Coming /\ Coming' \in Int /\ Coming \in Int
        BY <1>1, <2>2, OwnerOfJob DEF Coming
    <3>4. Coming' <= Awaited'
        BY <3>1, <3>2, <3>3, AwaitedIs DEF SoundJob
    <3> QED BY <1>1, <2>1, <2>2, <3>1, <3>4 DEF SoundJob, Early, Serving, Over
  <2> QED BY <1>1, <2>1, <2>2, <2>3, <2>4, OwnerOfJob, JobKeeps
<1> QED BY <1>2, <1>3 DEF Close

\* The job exits.
LEMMA ExitKeeps == ASSUME AdmissionInv, Exit PROVE AdmissionInv'
<1>1. prog = "job" /\ job.pc = "exit" /\ prog' = "ending" /\ UNCHANGED <<adm, job, env, peer, wire>> /\ AdmissionTypes
      /\ lnk' = Closed
    BY OwnerOfJob DEF Exit, JobAt
<1>2. lnk' \in LnkT /\ ~lnk'.active /\ lnk'.owner = 0 /\ lnk'.box = << >>
    BY <1>1, ClosedIs
<1>3. BoxInv' /\ WireInv' /\ AdmissionTypes' /\ LinkEndsWithItsProgram'
    BY <1>1, <1>2, OwnerOfJob DEF BoxInv, WireInv, Finishes, Late, Decides, AdmissionTypes, LinkEndsWithItsProgram
<1>4. JobInv'
    BY <1>1 DEF AdmissionInv, JobInv, SoundJob, Over
<1>5. DecideInv' /\ ReplyInv' /\ ClaimInv'
    BY <1>1 DEF AdmissionInv, DecideInv, ReplyInv, ClaimInv, LastIsAnswer, Grants, Decides, Id
<1> QED BY <1>3, <1>4, <1>5 DEF AdmissionInv

-----------------------------------------------------------------------------

\* The invariant holds from the start, and is kept by every step.
LEMMA AdmissionStarts == ASSUME AdmInit PROVE AdmissionInv
<1>a. adm = [st |-> "OFF", caps |-> {}, link |-> 0, gen |-> 1, job |-> 0, grant |-> <<0, 0>>, grants |-> 0, seq |-> 0,
             op |-> "", waiting |-> FALSE, rx |-> None, judged |-> None, exhausted |-> FALSE, terminal |-> 0,
             seen |-> "Legacy"]
    BY Zenon DEF AdmInit
<1>b. lnk = [active |-> FALSE, owner |-> 0, box |-> << >>, dropped |-> FALSE]
    BY Zenon DEF AdmInit
<1>c. /\ prog = "prompt" /\ wire = << >> /\ env = [mode |-> "Legacy", healthy |-> TRUE]
      /\ peer = [link |-> 1, offer |-> 0, jobs |-> 0, acked |-> {}, done |-> {}, req |-> FALSE]
    BY Zenon DEF AdmInit
<1>1. adm \in AdmT /\ adm.st = "OFF" /\ adm.judged = None /\ adm.seq = 0
  <2> DEFINE g == <<0, 0>>
  <2>1. g \in Nat \X Nat /\ adm.grant = g
      BY <1>a
  <2>2. /\ "OFF" \in States /\ "" \in Ops /\ "Legacy" \in Modes /\ 0 \in 0 .. 2 /\ {} \in SUBSET Caps
        /\ None \in AckT \cup {None}
      BY DEF States, Ops, Modes
  <2> QED BY <1>a, <2>1, <2>2 DEF AdmT
<1>2. lnk \in LnkT /\ ~lnk.active /\ lnk.owner = 0 /\ lnk.box = << >> /\ << >> \in Seq(MsgT)
    BY <1>b DEF LnkT
<1>3. job \in JobT
  <2>1. Id(adm) \in IdT
      BY <1>1 DEF Id, IdT, AdmT
  <2> DEFINE i == Id(adm)
             x == [pc |-> "bind", op |-> "", seq |-> 0, id |-> i, pending |-> FALSE, live |-> FALSE, failed |-> FALSE,
                   stage |-> FALSE, ending |-> FALSE]
  <2>2. i \in IdT /\ job = [x EXCEPT !.pc = "exit"]
      BY <2>1 DEF AdmInit, NewJob
  <2> HIDE DEF i
  <2>3. x \in JobT
      BY <2>2 DEF JobT, Points, Ops
  <2> HIDE DEF x
  <2> QED BY <2>2, <2>3 DEF JobT, Points
<1>4. peer \in PeerT /\ wire = << >> /\ wire \in Seq(MsgT) /\ prog = "prompt"
      /\ env \in [mode : Modes, healthy : BOOLEAN]
    BY <1>c DEF PeerT, Modes
<1>5. AdmissionTypes
    BY <1>1, <1>2, <1>3, <1>4 DEF AdmissionTypes
<1>6. WireInv /\ BoxInv
    BY <1>2, <1>4 DEF WireInv, BoxInv
<1> QED BY <1>1, <1>2, <1>4, <1>5, <1>6 DEF AdmissionInv, ReplyInv, DecideInv, ClaimInv, JobInv, LinkEndsWithItsProgram

\* Every step keeps the invariant.
LEMMA AdmissionSteps == ASSUME AdmissionInv, [AdmNext]_admVars PROVE AdmissionInv'
<1>1. ASSUME UNCHANGED admVars PROVE AdmissionInv'
  <2>1. UNCHANGED <<adm, lnk, job, prog, env, peer, wire>>
      BY <1>1 DEF admVars
  <2>2. AdmissionTypes' /\ LinkEndsWithItsProgram'
      BY <2>1 DEF AdmissionInv, AdmissionTypes, LinkEndsWithItsProgram
  <2>3. WireInv' /\ BoxInv'
      BY <2>1 DEF AdmissionInv, WireInv, BoxInv, Finishes, Late, Decides
  <2>4. ReplyInv' /\ DecideInv' /\ ClaimInv'
      BY <2>1 DEF AdmissionInv, ReplyInv, Unanswered, DecideInv, LastIsAnswer, Grants, Decides, Id, ClaimInv
  <2>5. SoundJob' <=> SoundJob
      BY <2>1 DEF SoundJob, Coming, Awaited, Early, Serving, Over
  <2>6. JobInv'
      BY <2>1, <2>5 DEF AdmissionInv, JobInv, Id
  <2> QED BY <2>2, <2>3, <2>4, <2>6 DEF AdmissionInv
<1>2. ASSUME Foreground PROVE AdmissionInv'
    BY <1>2, UnableKeeps, ModeKeeps, ReplyKeeps, HelloKeeps, PollKeeps, DecideKeeps, NoReplyKeeps, NextKeeps, TakesKeyKeeps,
       LineKeeps, EnterKeeps, DispatchKeeps, BindKeeps, ControlKeeps, AwaitKeeps, NoAnswerKeeps, FailsKeeps, EndsKeeps,
       TerminalKeeps, CloseKeeps, ExitKeeps, EndKeeps DEF Foreground
<1>3. ASSUME AdmNext PROVE AdmissionInv'
    BY <1>2, <1>3, ServedKeeps, EnterKeeps, AppKeeps, PacketKeeps, KeyKeeps, FaultKeeps, RestartKeeps, LostKeeps DEF AdmNext
<1> QED BY <1>1, <1>3

\* The types, what the packets on the way tell of the peer, and what a job may
\* rely on, hold in every state.
THEOREM AdmissionInvariant == AdmSpec => []AdmissionInv
<1>1. AdmInit => AdmissionInv
    BY AdmissionStarts
<1>2. AdmissionInv /\ [AdmNext]_admVars => AdmissionInv'
    BY AdmissionSteps
<1> QED BY <1>1, <1>2, PTL DEF AdmSpec

\* The invariant is as strong as what the run checks.
LEMMA AdmissionSuffices == AdmissionInv => GrantsAndLinks
BY DEF AdmissionInv, GrantsAndLinks, ClaimsAreGranted, ClaimInv, JobInv, SoundJob, NothingIsDropped, Result

\* What a program is granted is what the peer acknowledged, links end with
\* their program, and a sound finite job misses no packet, whatever the peer
\* and the wire do.
THEOREM GrantsAreSound == AdmSpec => []GrantsAndLinks
BY AdmissionInvariant, AdmissionSuffices, PTL

-----------------------------------------------------------------------------

\* A step that claims a job is one of JudgeDecide's, with no key.
Claims == adm'.st = "CLAIMED" /\ adm.st # "CLAIMED"
\* What is left or reset is not claimed, nor is what a record leaves.
LEMMA LeftUnclaimed ==
  ASSUME NEW a \in AdmT
  PROVE  /\ Left(a) \in AdmT /\ Left(a).st # "CLAIMED" /\ emos_admission_reset(a).st # "CLAIMED"
         /\ Left(Sent(a, "CLOSE")).st # "CLAIMED" /\ \A b \in {Left(c) : c \in Refused(a)} : b.st # "CLAIMED"
BY LeftIs, ResetIs, CloseIs DEF Before, Away

\* A record that is sent in an unclaimed state claims nothing.
LEMMA RecordUnclaimed ==
  ASSUME NEW a \in AdmT, a.st # "CLAIMED", NEW op \in Ops, send_control(a, op, Sent(a, op), Refused(a))
  PROVE  ~Claims
<1>1. Sent(a, op).st = a.st
    BY SentIs
<1>2. \A b \in Refused(a) : b.st # "CLAIMED"
    BY RefusedIs DEF Before, Away
<1> QED BY <1>1, <1>2 DEF Claims, send_control
\* The steps of the editor and of the programs.
LEMMA EditorClaims ==
  ASSUME AdmissionInv, Unable \/ ModeSeen \/ NoReply \/ NextPoll \/ TakesKey \/ emos_application_enter
                       \/ emos_application_leave \/ AppCalls \/ emos_admission_dispatch
  PROVE  ~Claims
<1>1. adm \in AdmT /\ env.mode \in Modes
    BY DEF AdmissionInv, AdmissionTypes
<1>2. CASE Unable \/ NoReply
    BY <1>1, <1>2, LeftUnclaimed DEF Unable, NoReply, Claims
<1>3. CASE ModeSeen
  <2> DEFINE l == Left(adm)
  <2>1. l \in AdmT /\ l.st # "CLAIMED" /\ adm' = [l EXCEPT !.seen = env.mode]
      BY <1>1, <1>3, LeftUnclaimed DEF ModeSeen
  <2> HIDE DEF l
  <2> QED BY <2>1 DEF AdmT, Claims
<1>4. CASE NextPoll
  <2>1. ASSUME NEW op \in {"HELLO", "POLL"}, NEW st \in {"HELLO_WAIT", "POLL_WAIT"}, NEW a, a = [adm EXCEPT !.st = st],
               send_control(a, op, Sent(a, op), Refused(a))
        PROVE  ~Claims
    <3>1. a \in AdmT /\ a.st # "CLAIMED" /\ op \in Ops
        BY <1>1, <2>1 DEF AdmT, States, Ops
    <3> QED BY <2>1, <3>1, RecordUnclaimed
  <2>2. \/ send_control([adm EXCEPT !.st = "HELLO_WAIT"], "HELLO", Sent([adm EXCEPT !.st = "HELLO_WAIT"], "HELLO"),
                        Refused([adm EXCEPT !.st = "HELLO_WAIT"]))
        \/ send_control([adm EXCEPT !.st = "POLL_WAIT"], "POLL", Sent([adm EXCEPT !.st = "POLL_WAIT"], "POLL"),
                        Refused([adm EXCEPT !.st = "POLL_WAIT"]))
      BY <1>4 DEF NextPoll
  <2> QED BY <2>1, <2>2
<1>5. CASE TakesKey
    BY <1>1, <1>5, LeftUnclaimed DEF TakesKey, emos_admission_leave, send_control, Claims
<1>6. CASE emos_application_enter \/ emos_application_leave
    BY <1>1, <1>6, LeftUnclaimed DEF emos_application_enter, emos_application_leave, Claims
<1>7. CASE AppCalls
  <2>1. adm' = adm \/ adm' = Left(adm)
      BY Zenon, <1>7 DEF AppCalls
  <2> QED BY <1>1, <2>1, LeftUnclaimed DEF Claims
<1>8. CASE emos_admission_dispatch
    BY <1>8 DEF emos_admission_dispatch, Claims
<1> QED BY <1>2, <1>3, <1>4, <1>5, <1>6, <1>7, <1>8
\* Those of the replies, of the packets, and of the end of a job.
LEMMA ReplyClaims ==
  ASSUME AdmissionInv, Reply \/ JudgeHello \/ JudgePoll \/ Terminal \/ EndDispatch \/ emos_sdlink_packet
  PROVE  ~Claims
<1> DEFINE s == Settled
           r == Reserved
<1>1. adm \in AdmT /\ AdmissionTypes /\ s \in AdmT
    BY SettledIs DEF AdmissionInv, AdmissionTypes
<1>2. CASE Reply
  <2> DEFINE j == adm.rx
             x == [adm EXCEPT !.waiting = FALSE]
             y == [x EXCEPT !.judged = j]
  <2>1. adm' = [y EXCEPT !.rx = None] \/ adm' = [adm EXCEPT !.rx = None]
      BY <1>2 DEF Reply
  <2>2. j \in AckT \cup {None}
      BY <1>1 DEF AdmT
  <2> HIDE DEF j
  <2>3. x \in AdmT /\ x.st = adm.st
      BY <1>1 DEF AdmT
  <2> HIDE DEF x
  <2>4. y \in AdmT /\ y.st = adm.st
      BY <2>2, <2>3 DEF AdmT
  <2> HIDE DEF y
  <2>5. adm'.st = adm.st
      BY <1>1, <2>1, <2>4 DEF AdmT
  <2> QED BY <2>5 DEF Claims
<1>3. CASE JudgeHello
  <2>1. adm' = emos_admission_reset(s) \/ \E k, m : adm' = [s EXCEPT !.link = k, !.caps = m, !.st = "IDLE"]
      BY <1>3 DEF JudgeHello
  <2> HIDE DEF s
  <2>2. \A k, m : [s EXCEPT !.link = k, !.caps = m, !.st = "IDLE"].st = "IDLE"
      BY <1>1 DEF AdmT
  <2> QED BY <1>1, <2>1, <2>2, LeftUnclaimed DEF Claims
<1>4. CASE JudgePoll
  <2>1. \/ adm' \in {Left(s), emos_admission_reset(s), [s EXCEPT !.st = "IDLE"]}
        \/ send_control(r, "DECIDE", Sent(r, "DECIDE"), Refused(r))
      BY <1>4 DEF JudgePoll, Reserved
  <2>2. [s EXCEPT !.st = "IDLE"].st = "IDLE"
      BY <1>1 DEF AdmT
  <2>3. r \in AdmT /\ r.st # "CLAIMED" /\ "DECIDE" \in Ops
      BY <1>1, <1>4, ReservedIs DEF Ops, JudgePoll, Judging
  <2> HIDE DEF r, s
  <2> QED BY <1>1, <2>1, <2>2, <2>3, LeftUnclaimed, RecordUnclaimed DEF Claims
<1>5. CASE Terminal
  <2>1. UNCHANGED adm \/ \E n, t : adm' = [adm EXCEPT !.seq = n, !.terminal = t]
      BY <1>5 DEF Terminal
  <2>2. \A n, t : [adm EXCEPT !.seq = n, !.terminal = t].st = adm.st
      BY <1>1 DEF AdmT
  <2> QED BY ZenonT(60), <2>1, <2>2 DEF Claims
<1>6. CASE EndDispatch
  <2>1. Sent(adm, "CLOSE") \in AdmT /\ Refused(adm) \subseteq AdmT
      BY <1>1, SentIs, RefusedIs DEF Ops
  <2>2. \A a \in AdmT : Retired(a, Result = "OK").st # "CLAIMED" /\ Retired(a, FALSE).st # "CLAIMED"
      BY LeftUnclaimed DEF Retired
  <2>3. adm' = Retired(Sent(adm, "CLOSE"), Result = "OK") \/ adm' \in {Retired(a, FALSE) : a \in Refused(adm)}
      BY <1>6 DEF EndDispatch, send_control
  <2>4. adm'.st # "CLAIMED"
      BY <2>1, <2>2, <2>3
  <2> QED BY <2>4 DEF Claims
<1>7. CASE emos_sdlink_packet
  <2>1. UNCHANGED adm \/ \E m : adm' = [adm EXCEPT !.rx = m]
      BY <1>7 DEF emos_sdlink_packet, emos_admission_packet
  <2>2. \A m : [adm EXCEPT !.rx = m].st = adm.st
      BY <1>1 DEF AdmT
  <2> QED BY <2>1, <2>2 DEF Claims
<1> QED BY <1>2, <1>3, <1>4, <1>5, <1>6, <1>7

\* The reply of DECIDE claims a job only when no key has come.
LEMMA DecideClaims == ASSUME AdmissionInv, JudgeDecide, Claims PROVE ~key
<1>1. Settled \in AdmT
    BY SettledIs DEF AdmissionInv
<1> QED BY <1>1, LeftUnclaimed DEF JudgeDecide, send_control, Claims

\* No other step claims a job.
LEMMA OnlyDecideClaims == ASSUME AdmissionInv, [AdmNext]_admVars, Claims PROVE ~key
<1>1. ASSUME UNCHANGED adm PROVE ~key
    BY <1>1 DEF Claims
<1>2. ASSUME Foreground PROVE ~key
    BY <1>1, <1>2, EditorClaims, ReplyClaims, DecideClaims
       DEF Foreground, LineDone, Bind, Control, Await, NoAnswer, JobFails, LoopEnds, Close, Exit
<1> QED BY <1>1, <1>2, EditorClaims, ReplyClaims
        DEF AdmNext, admVars, Served, KeyComes, Fault, PeerRestarts, Lost

\* A key that has come wins over a job that is about to be claimed.
THEOREM KeyIsHeard == AdmSpec => KeyWins
<1>1. AdmissionInv /\ [AdmNext]_admVars => [adm'.st = "CLAIMED" => adm.st = "CLAIMED" \/ ~key]_admVars
    BY OnlyDecideClaims DEF Claims
<1> QED BY <1>1, AdmissionInvariant, PTL DEF AdmSpec, KeyWins

-----------------------------------------------------------------------------
(* The service and its journal.                                            *)

ServiceOps == {"BEGIN", "WRITE", "FINISH", "ACTIVATE", "CANCEL", "RECOVER"}
Results == {"OK", "ERROR", "INTEGRITY", "RECOVERY_REQUIRED"}
SvcT == [on : BOOLEAN, active : BOOLEAN, finished : BOOLEAN, offset : 0 .. Size, up : Nat, fast : BOOLEAN]
ContentsT == [of : Nat, n : Nat, kept : Nat, bad : BOOLEAN, freed : BOOLEAN, fast : BOOLEAN]
Kinds == {"create", "write", "sync", "rename", "unlink", "digest", "size", "read"}
CallT == [do : Kinds, a : Names, to : Names \cup {""}, of : Nat]
WorkT == [op : ServiceOps, calls : Seq(CallT), ok : SvcT, bad : SvcT]
ReplyT == [op : ServiceOps \cup {"HELLO"}, res : Results, up : Nat]
SvcTypes == svc \in SvcT /\ cached \in ReplyT /\ told \in 0 .. svc.up /\ cached.up <= svc.up /\ faults \in Nat
WorkTypes == work = << >> \/ work \in WorkT

\* A complete file, not older than any activation that the client was told of, or may
\* be told of by a repeated reply.
Repeats == cached.op = "ACTIVATE" /\ cached.res = "OK"
Whole(k) ==
  /\ ~k.freed /\ k.kept = Size /\ k.n = Size
  /\ told <= k.of /\ (Repeats => cached.up <= k.of)

\* The card with the names e and the chains c: no chain has two names, a target is
\* whole, and without one the backup is.
Sound(e, c) ==
  /\ e \in [Names -> 0 .. 5] /\ c \in [Chains -> ContentsT]
  /\ \A a, b \in Names : e[a] = e[b] /\ e[a] # 0 => a = b
  /\ e["target"] # 0 => Whole(c[e["target"]])
  /\ e["target"] = 0 => e["backup"] # 0 /\ Whole(c[e["backup"]])
CardInv == Sound(entry, chain)

\* The stage is as s has it.
StagedBy(up) == There("part") /\ ~At("part").freed /\ At("part").of = up
Full(k) == k.n = Size /\ k.kept = Size
Staged(s) ==
  s.active =>
    /\ s.on /\ StagedBy(s.up)
    /\ ~s.finished => At("part").n = s.offset
    /\ s.finished => Full(At("part"))

\* The calls left of each request, in their order, and what they rely on.
SetsAside == Rename("target", "backup")
PutsInPlace == Rename("part", "target")
PutsBack == Rename("backup", "target")
Checks == CallOf("digest", "target", work.ok.up)
CallsLeft == work.calls
Places == 1 .. Len(CallsLeft)
BeginInv ==
  /\ work.ok.active /\ work.ok.on /\ ~work.ok.finished /\ work.ok.offset = 0
  /\ \A i \in Places :
       IF i = Len(CallsLeft) THEN CallsLeft[i] = CallOf("create", "part", work.ok.up)
       ELSE CallsLeft[i] \in {CallOf("create", "meta", work.ok.up), Call("write", "meta"), Call("sync", "meta")}
  /\ CallsLeft = << >> => StagedBy(work.ok.up) /\ At("part").n = 0
WriteInv ==
  /\ work.ok.active /\ work.ok.on /\ ~work.ok.finished
  /\ StagedBy(work.ok.up) /\ Len(CallsLeft) <= 1 /\ At("part").n = work.ok.offset - Len(CallsLeft)
  /\ \A i \in Places : CallsLeft[i] = Call("write", "part")
FinishInv ==
  /\ work.ok.active /\ work.ok.on /\ work.ok.finished
  /\ StagedBy(work.ok.up) /\ At("part").n = Size
  /\ \A i \in Places : (i = 1 /\ CallsLeft[i] = Call("sync", "part")) \/ CallsLeft[i].do = "digest"
  /\ At("part").kept = Size \/ (CallsLeft # << >> /\ CallsLeft[1] = Call("sync", "part"))
Ends(i) == CallsLeft[i] \in {Checks, Call("unlink", "meta")}
Checked == svc.fast \/ \E i \in Places : CallsLeft[i] = Checks
\* The old file may be set aside first; then the new one is put in place, and checked.
ActivateInv ==
  /\ ~work.ok.active
  /\ \/ /\ CallsLeft # << >> /\ StagedBy(work.ok.up) /\ Full(At("part")) /\ Checked
        /\ \/ CallsLeft[1] = SetsAside /\ Len(CallsLeft) > 1 /\ CallsLeft[2] = PutsInPlace /\ \A i \in 3 .. Len(CallsLeft) : Ends(i)
           \/ CallsLeft[1] = PutsInPlace /\ \A i \in 2 .. Len(CallsLeft) : Ends(i)
     \/ /\ There("target") /\ At("target").of = work.ok.up /\ \A i \in Places : Ends(i)
        /\ Checked \/ Matches(At("target"), work.ok.up)
CancelInv ==
  /\ ~work.ok.active
  /\ \A i \in Places : CallsLeft[i] \in {Call("sync", "part"), Call("unlink", "part"), Call("unlink", "meta")}
RecoverInv ==
  /\ ~work.ok.active
  /\ \A i \in Places :
       \/ CallsLeft[i] \in {PutsBack, Call("unlink", "part"), Call("unlink", "meta"), Call("unlink", "backup")}
       \/ CallsLeft[i].do \in {"size", "digest", "read"}
  /\ (\E i \in Places : CallsLeft[i] = Call("unlink", "backup")) => There("target")
RequestInv ==
  /\ work.op = "BEGIN" => BeginInv
  /\ work.op = "WRITE" => WriteInv
  /\ work.op = "FINISH" => FinishInv
  /\ work.op = "ACTIVATE" => ActivateInv
  /\ work.op = "CANCEL" => CancelInv
  /\ work.op = "RECOVER" => RecoverInv
WorkInv ==
  work # << >> =>
    /\ svc.on /\ ~work.bad.active /\ work.bad.up = work.ok.up /\ svc.up <= work.ok.up
    /\ work.ok.fast = svc.fast /\ work.bad.fast = svc.fast
    /\ RequestInv
IdleInv == work = << >> => Staged(svc)

\* In the checked mode a reply that may be repeated tells of what is in place.
RepeatInv ==
  svc.on /\ work = << >> /\ Repeats /\ ~svc.fast =>
    There("target") /\ Matches(At("target"), cached.up)

\* As long as every chain has one name.
Plain == SvcTypes /\ WorkTypes /\ CardInv /\ IdleInv /\ WorkInv /\ RepeatInv

\* After half a rename a whole target has a second name: no upload can begin, and
\* of the requests only recovery is served, by calls that leave the name target.
Spares(call) == call.do \in {"size", "digest", "read"} \/ (call.do = "unlink" /\ call.a \in {"part", "meta", "backup"})
TwinCard(e, c) ==
  \E x \in {"part", "backup"} :
    e \in [Names -> 0 .. 5] /\ e[x] = e["target"] /\ e["target"] # 0 /\ Sound([e EXCEPT ![x] = 0], c)
TwinWork ==
  work # << >> =>
    /\ svc.on /\ work.op = "RECOVER" /\ work.ok = svc /\ work.bad = svc
    /\ \A i \in Places : Spares(CallsLeft[i])
Twin == SvcTypes /\ WorkTypes /\ ~svc.active /\ (svc.on => ~Repeats) /\ TwinCard(entry, chain) /\ TwinWork

\* Once a file's clusters were freed through its other name nothing is promised.
IInv == dangling \/ Plain \/ Twin

-----------------------------------------------------------------------------
(* What the calls do to the card.                                          *)

\* A request that is served is a record, never the empty sequence.
LEMMA RequestParts == \A w \in WorkT : w # << >>
<1> SUFFICES ASSUME NEW w \in WorkT PROVE w # << >>
    OBVIOUS
<1>1. "op" \in DOMAIN w
    BY DEF WorkT
<1>2. DOMAIN << >> = {}
    OBVIOUS
<1> QED BY <1>1, <1>2

\* What is left of the calls once the first was made.
LEMMA Rest ==
    ASSUME NEW S, NEW s \in Seq(S), s # << >>
    PROVE  /\ Tail(s) \in Seq(S) /\ Len(s) \in Nat \ {0} /\ Len(Tail(s)) = Len(s) - 1 /\ s[1] \in S
           /\ \A i \in 1 .. Len(Tail(s)) : i + 1 \in 1 .. Len(s) /\ Tail(s)[i] = s[i + 1]
BY HeadTailProperties, ElementOfSeq, EmptySeq

\* Four names leave a chain of the five unused.
LEMMA Fresh ==
    ASSUME CardInv
    PROVE  Unused \in Chains /\ \A a \in Names : entry[a] # Unused
<1>1. \E c \in Chains : \A a \in Names : entry[a] # c
  <2> SUFFICES ASSUME \A c \in Chains : \E a \in Names : entry[a] = c PROVE FALSE
      OBVIOUS
  <2> QED BY DEF CardInv, Sound, Chains, Names
<1> QED BY <1>1 DEF Unused

\* The next call of a request, as far as it matters to target and backup.
MayBe(call) ==
  \/ call.a \in {"part", "meta"} /\ call.do \in {"create", "write", "sync", "unlink"}
  \/ call = SetsAside
  \/ call = PutsInPlace /\ There("part") /\ Whole(At("part"))
  \/ call = PutsBack
  \/ call.do = "unlink" /\ call.a = "backup" /\ There("target")
  \/ call.do \in {"digest", "size", "read"}

\* The calls that requests make, by themselves.
LEMMA Harmless ==
    ASSUME NEW call, NEW up
    PROVE  /\ call \in {CallOf("create", "part", up), CallOf("create", "meta", up), Call("write", "part"),
                        Call("write", "meta"), Call("sync", "part"), Call("sync", "meta"),
                        Call("unlink", "part"), Call("unlink", "meta"), SetsAside, PutsBack} => MayBe(call)
           /\ call.do \in {"digest", "size", "read"} => MayBe(call)
           /\ call = CallOf("digest", "target", up) => MayBe(call)
           /\ call = Call("unlink", "backup") /\ There("target") => MayBe(call)
<1>1. call.a \in {"part", "meta"} /\ call.do \in {"create", "write", "sync", "unlink"} => MayBe(call)
    BY DEF MayBe
<1>2. call \in {SetsAside, PutsBack} => MayBe(call)
    BY DEF MayBe
<1>3. call.do \in {"digest", "size", "read"} => MayBe(call)
    BY DEF MayBe
<1>4. call.do = "unlink" /\ call.a = "backup" /\ There("target") => MayBe(call)
    BY DEF MayBe
<1>5. /\ Call("unlink", "backup").do = "unlink" /\ Call("unlink", "backup").a = "backup"
      /\ CallOf("digest", "target", up).do = "digest"
      /\ \A do \in {"create", "write", "sync", "unlink"}, a \in {"part", "meta"} :
            Call(do, a).do = do /\ Call(do, a).a = a /\ CallOf(do, a, up).do = do /\ CallOf(do, a, up).a = a
    BY DEF Call, CallOf
<1> QED BY <1>1, <1>2, <1>3, <1>4, <1>5

\* Every request makes only such calls.
LEMMA NextCall ==
    ASSUME SvcTypes, WorkTypes, WorkInv, CardInv, work # << >>, CallsLeft # << >>
    PROVE  CallsLeft[1] \in CallT /\ MayBe(CallsLeft[1])
<1>1. work \in WorkT /\ CallsLeft \in Seq(CallT) /\ RequestInv /\ svc.up <= work.ok.up
    BY DEF WorkTypes, WorkInv, WorkT, CallsLeft
<1>2. CallsLeft[1] \in CallT /\ Len(CallsLeft) \in Nat \ {0} /\ 1 \in Places
    BY <1>1, Rest DEF Places
<1> SUFFICES ASSUME NEW call \in CallT, call = CallsLeft[1] PROVE MayBe(call)
    BY <1>2
<1>3. CASE work.op = "BEGIN"
  <2>1. call \in {CallOf("create", "part", work.ok.up), CallOf("create", "meta", work.ok.up),
                     Call("write", "meta"), Call("sync", "meta")}
      BY <1>1, <1>2, <1>3 DEF RequestInv, BeginInv
  <2> QED BY <2>1, Harmless
<1>4. CASE work.op = "WRITE"
  <2>1. call = Call("write", "part")
      BY <1>1, <1>2, <1>4 DEF RequestInv, WriteInv
  <2> QED BY <2>1, Harmless
<1>5. CASE work.op = "FINISH"
  <2>1. call = Call("sync", "part") \/ call.do = "digest"
      BY <1>1, <1>2, <1>5 DEF RequestInv, FinishInv
  <2> QED BY <2>1, Harmless
<1>6. CASE work.op = "ACTIVATE"
  <2>1. CASE call = PutsInPlace /\ StagedBy(work.ok.up) /\ Full(At("part"))
    <3>1. told <= work.ok.up /\ cached.up <= work.ok.up
        BY <1>1 DEF SvcTypes, SvcT, ReplyT, WorkT
    <3> QED BY <2>1, <3>1 DEF MayBe, StagedBy, Full, Whole
  <2>2. CASE call = SetsAside
      BY <2>2, Harmless
  <2>3. CASE call \in {Checks, Call("unlink", "meta")}
      BY <2>3, Harmless DEF Checks
  <2> QED BY <1>1, <1>2, <1>6, <2>1, <2>2, <2>3 DEF RequestInv, ActivateInv, Ends
<1>7. CASE work.op = "CANCEL"
  <2>1. call \in {Call("sync", "part"), Call("unlink", "part"), Call("unlink", "meta")}
      BY <1>1, <1>2, <1>7 DEF RequestInv, CancelInv
  <2> QED BY <2>1, Harmless
<1>8. CASE work.op = "RECOVER"
  <2>1. \/ call \in {PutsBack, Call("unlink", "part"), Call("unlink", "meta")}
        \/ call = Call("unlink", "backup") /\ There("target")
        \/ call.do \in {"size", "digest", "read"}
      BY <1>1, <1>2, <1>8 DEF RequestInv, RecoverInv
  <2> QED BY <2>1, Harmless
<1> QED BY <1>1, <1>3, <1>4, <1>5, <1>6, <1>7, <1>8 DEF WorkT, ServiceOps

\* After such a call, whether it is done in whole or only its entries are, the card is sound.
LEMMA CallIsSound ==
    ASSUME SvcTypes, CardInv, NEW call \in CallT, MayBe(call), CanSucceed(call), NEW bad \in BOOLEAN
    PROVE  Sound(Entered(call), chain) /\ Sound(Entered(call), Stored(call, bad))
<1>1. /\ entry \in [Names -> 0 .. 5] /\ chain \in [Chains -> ContentsT]
      /\ \A a, b \in Names : entry[a] = entry[b] /\ entry[a] # 0 => a = b
    BY DEF CardInv, Sound
<1>2. Unused \in Chains /\ \A a \in Names : entry[a] # Unused
    BY Fresh
<1>3. /\ "target" \in Names /\ "backup" \in Names /\ "part" \in Names /\ "meta" \in Names
      /\ \A a \in Names : entry[a] # 0 => entry[a] \in Chains
    BY <1>1 DEF Names, Chains
<1>4. CASE call.a \in {"part", "meta"} /\ call.do \in {"create", "write", "sync", "unlink"}
  <2>1. /\ Entered(call) \in [Names -> 0 .. 5]
        /\ \A a, b \in Names : Entered(call)[a] = Entered(call)[b] /\ Entered(call)[a] # 0 => a = b
        /\ Entered(call)["target"] = entry["target"] /\ Entered(call)["backup"] = entry["backup"]
      BY <1>1, <1>2, <1>3, <1>4 DEF Entered, Chains
  <2>2. /\ Stored(call, bad) \in [Chains -> ContentsT]
        /\ \A a \in {"target", "backup"} : entry[a] # 0 => Stored(call, bad)[entry[a]] = chain[entry[a]]
    <3>1. CASE call.do = "create"
      <4>1. [Contents(call.of, 0) EXCEPT !.fast = svc.fast] \in ContentsT
          BY DEF Contents, ContentsT, SvcTypes, SvcT, CallT
      <4> QED BY <1>1, <1>2, <1>3, <3>1, <4>1 DEF Stored
    <3>2. CASE call.do = "write"
      <4>1. entry[call.a] \in Chains /\ \A a \in {"target", "backup"} : entry[a] # entry[call.a]
          BY <1>1, <1>3, <1>4, <3>2 DEF CanSucceed, There
      <4> QED BY <1>1, <1>3, <3>2, <4>1 DEF Stored, ContentsT
    <3>3. CASE call.do = "sync"
      <4>1. entry[call.a] \in Chains /\ \A a \in {"target", "backup"} : entry[a] # entry[call.a]
          BY <1>1, <1>3, <1>4, <3>3 DEF CanSucceed, There
      <4> QED BY <1>1, <1>3, <3>3, <4>1 DEF Stored, ContentsT
    <3>4. CASE call.do = "unlink" /\ There(call.a)
      <4>1. entry[call.a] \in Chains /\ \A a \in {"target", "backup"} : entry[a] # entry[call.a]
          BY <1>1, <1>3, <1>4, <3>4 DEF There
      <4> QED BY ZenonT(60), <1>1, <1>3, <3>4, <4>1 DEF Stored, ContentsT
    <3>5. CASE call.do = "unlink" /\ ~There(call.a)
        BY <1>1, <3>5 DEF Stored
    <3> QED BY <1>4, <3>1, <3>2, <3>3, <3>4, <3>5
  <2> QED BY <1>1, <2>1, <2>2 DEF CardInv, Sound
<1>5. CASE call = SetsAside
  <2>1. Stored(call, bad) = chain /\ call.do = "rename" /\ call.a = "target" /\ call.to = "backup"
      BY <1>5 DEF Stored, SetsAside, Rename
  <2>2. entry["target"] # 0 /\ entry["backup"] = 0
      BY <2>1 DEF CanSucceed, There
  <2>3. Entered(call) = [entry EXCEPT !["target"] = 0, !["backup"] = entry["target"]]
      BY <2>1 DEF Entered
  <2> QED BY <1>1, <1>3, <2>1, <2>2, <2>3 DEF CardInv, Sound
<1>6. CASE call = PutsInPlace /\ There("part") /\ Whole(At("part"))
  <2>1. Stored(call, bad) = chain /\ call.do = "rename" /\ call.a = "part" /\ call.to = "target"
      BY <1>6 DEF Stored, PutsInPlace, Rename
  <2>2. entry["part"] # 0 /\ entry["target"] = 0
      BY <2>1 DEF CanSucceed, There
  <2>3. Entered(call) = [entry EXCEPT !["part"] = 0, !["target"] = entry["part"]]
      BY <2>1 DEF Entered
  <2> QED BY <1>1, <1>3, <1>6, <2>1, <2>2, <2>3 DEF CardInv, Sound, At
<1>7. CASE call = PutsBack
  <2>1. Stored(call, bad) = chain /\ call.do = "rename" /\ call.a = "backup" /\ call.to = "target"
      BY <1>7 DEF Stored, PutsBack, Rename
  <2>2. entry["backup"] # 0 /\ entry["target"] = 0
      BY <2>1 DEF CanSucceed, There
  <2>3. Entered(call) = [entry EXCEPT !["backup"] = 0, !["target"] = entry["backup"]]
      BY <2>1 DEF Entered
  <2> QED BY <1>1, <1>3, <2>1, <2>2, <2>3 DEF CardInv, Sound
<1>8. CASE call.do = "unlink" /\ call.a = "backup" /\ There("target")
  <2>1. Entered(call) = [entry EXCEPT !["backup"] = 0] /\ entry["target"] # 0
      BY <1>8 DEF Entered, There
  <2>2. /\ Stored(call, bad) \in [Chains -> ContentsT]
        /\ Stored(call, bad)[entry["target"]] = chain[entry["target"]]
    <3>1. CASE There("backup")
      <4>1. entry["backup"] \in Chains /\ entry["target"] # entry["backup"] /\ entry["target"] \in Chains
          BY <1>1, <1>3, <2>1, <3>1 DEF There
      <4> QED BY <1>1, <1>8, <3>1, <4>1 DEF Stored, ContentsT
    <3>2. CASE ~There("backup")
        BY <1>1, <1>8, <3>2 DEF Stored
    <3> QED BY <3>1, <3>2
  <2> QED BY <1>1, <1>3, <2>1, <2>2 DEF CardInv, Sound
<1>9. CASE call.do \in {"digest", "size", "read"}
    BY <1>9 DEF Entered, Stored, CardInv
<1> QED BY <1>4, <1>5, <1>6, <1>7, <1>8, <1>9 DEF MayBe

\* What a cut leaves of the names e and the chains c.
Kept(e, gone) == [a \in Names |-> IF a \in gone THEN 0 ELSE e[a]]
Synced(c) == [x \in Chains |-> [c[x] EXCEPT !.n = c[x].kept]]

\* A whole file keeps its name, its length and its contents in a cut.
LEMMA WholeIsKept ==
    ASSUME NEW e, NEW c, e \in [Names -> 0 .. 5], c \in [Chains -> ContentsT],
           NEW gone \in SUBSET {a \in Names : e[a] # 0 /\ c[e[a]].kept = 0},
           NEW a \in Names, e[a] # 0, Whole(c[e[a]])
    PROVE  Kept(e, gone)[a] = e[a] /\ Whole(Synced(c)[e[a]]) /\ c[e[a]].kept # 0
<1>1. e[a] \in Chains
    BY DEF Chains
<1>2. c[e[a]].kept = Size /\ c[e[a]].n = Size /\ Size # 0 /\ c[e[a]] \in ContentsT
    BY <1>1, SdServiceAssumption DEF Whole
<1>3. Synced(c)[e[a]] = [c[e[a]] EXCEPT !.n = Size]
    BY <1>1, <1>2 DEF Synced
<1>4. Synced(c)[e[a]] = c[e[a]]
    BY <1>2, <1>3 DEF ContentsT
<1> QED BY <1>2, <1>4 DEF Kept

\* The power goes: a name may be gone with what was not synced, but a whole file keeps its own.
LEMMA CutIsSound ==
    ASSUME NEW e, NEW c, Sound(e, c), NEW gone \in SUBSET {a \in Names : e[a] # 0 /\ c[e[a]].kept = 0}
    PROVE  Sound(Kept(e, gone), Synced(c))
<1>1. /\ e \in [Names -> 0 .. 5] /\ c \in [Chains -> ContentsT]
      /\ \A a, b \in Names : e[a] = e[b] /\ e[a] # 0 => a = b
      /\ "target" \in Names /\ "backup" \in Names
      /\ e["target"] # 0 => Whole(c[e["target"]])
      /\ e["target"] = 0 => e["backup"] # 0 /\ Whole(c[e["backup"]])
    BY DEF Sound, Names
<1>2. Kept(e, gone) \in [Names -> 0 .. 5] /\ Synced(c) \in [Chains -> ContentsT]
    BY <1>1 DEF ContentsT, Kept, Synced
<1>3. \A a, b \in Names : Kept(e, gone)[a] = Kept(e, gone)[b] /\ Kept(e, gone)[a] # 0 => a = b
    BY <1>1 DEF Kept
<1>4. CASE e["target"] # 0
  <2>1. Kept(e, gone)["target"] = e["target"] /\ Whole(Synced(c)[e["target"]])
      BY <1>1, <1>4, WholeIsKept
  <2> QED BY <1>2, <1>3, <1>4, <2>1 DEF Sound
<1>5. CASE e["target"] = 0
  <2>1. Kept(e, gone)["backup"] = e["backup"] /\ Whole(Synced(c)[e["backup"]]) /\ e["backup"] # 0
      BY <1>1, <1>5, WholeIsKept
  <2>2. Kept(e, gone)["target"] = 0
      BY <1>1, <1>5 DEF Kept
  <2> QED BY <1>2, <1>3, <2>1, <2>2 DEF Sound
<1> QED BY <1>4, <1>5

-----------------------------------------------------------------------------
(* The parts of the invariant that a step leaves as they are.              *)

\* The card of a step that tells nobody of an activation.
LEMMA CardLater ==
    ASSUME NEW e, NEW c, Sound(e, c), entry' = e, chain' = c, told' = told, cached' = cached \/ ~Repeats'
    PROVE  CardInv'
<1>1. \A k : Whole(k) => ~k.freed /\ k.kept = Size /\ k.n = Size /\ told' <= k.of /\ (Repeats' => cached'.up <= k.of)
    BY DEF Whole, Repeats
<1> QED BY <1>1 DEF CardInv, Sound, Whole

\* A request that is refused.
LEMMA RefusedRequest ==
    ASSUME Plain, Idle, NEW op \in ServiceOps, NEW res \in {"INTEGRITY", "RECOVERY_REQUIRED"},
           cached' = [op |-> op, res |-> res, up |-> svc.up],
           svc' = svc \/ svc' = Quiet, UNCHANGED <<entry, chain, work, told, faults>>
    PROVE  Plain'
<1> USE DEF Plain
<1>1. ~Repeats' /\ svc \in SvcT /\ Quiet \in SvcT /\ Quiet.up = svc.up /\ ~Quiet.active
    BY DEF Repeats, SvcTypes, SvcT, Quiet
<1>2. SvcTypes'
    BY <1>1 DEF SvcTypes, ReplyT, Results, SvcT
<1>3. CardInv'
    BY <1>1, CardLater DEF CardInv
<1>4. IdleInv'
    BY <1>1 DEF IdleInv, Staged, StagedBy, There, At
<1>5. RepeatInv'
    BY <1>1 DEF RepeatInv
<1> QED BY <1>2, <1>3, <1>4, <1>5 DEF WorkTypes, WorkInv, Idle

\* A request that is served.
LEMMA ServedRequest ==
    ASSUME Plain, NEW op \in ServiceOps, NEW calls \in Seq(CallT), NEW ok \in SvcT, NEW bad \in SvcT,
           Serve(op, calls, ok, bad), svc.on, ~bad.active, bad.up = ok.up, svc.up <= ok.up,
           ok.fast = svc.fast, bad.fast = svc.fast, RequestInv'
    PROVE  Plain'
<1>1. work' = [op |-> op, calls |-> calls, ok |-> ok, bad |-> bad]
    BY DEF Serve
<1>2. work' \in WorkT /\ work' # << >>
    BY <1>1, RequestParts DEF WorkT
<1>3. UNCHANGED <<entry, chain, svc, cached, told, faults>>
    BY DEF Serve
<1>4. CardInv'
    BY <1>3, CardLater DEF Plain, CardInv
<1>5. WorkInv'
    BY <1>1, <1>3 DEF WorkInv
<1> QED BY <1>2, <1>3, <1>4, <1>5 DEF Plain, SvcTypes, WorkTypes, IdleInv, RepeatInv

-----------------------------------------------------------------------------
(* The requests.                                                           *)

\* The calls that requests are made of, and the states they lead to.
LEMMA CallTypes ==
    /\ \A do \in Kinds, a \in Names : Call(do, a) \in CallT
    /\ \A do \in Kinds, a \in Names, up \in Nat : CallOf(do, a, up) \in CallT
    /\ SetsAside \in CallT /\ PutsInPlace \in CallT /\ PutsBack \in CallT
BY DEF Call, CallOf, CallT, Kinds, Names, SetsAside, PutsInPlace, PutsBack, Rename

\* The session with a stage.
LEMMA Began ==
    ASSUME NEW s \in SvcT, NEW up \in Nat, NEW ok,
           ok = [s EXCEPT !.active = TRUE, !.finished = FALSE, !.offset = 0, !.up = up]
    PROVE  /\ ok \in SvcT /\ ok.up = up /\ ok.fast = s.fast /\ ok.on = s.on
           /\ ok.active /\ ~ok.finished /\ ok.offset = 0
<1> USE SdServiceAssumption
<1>1. [s EXCEPT !.active = TRUE, !.finished = FALSE] \in SvcT
    BY DEF SvcT
<1>2. \A t \in SvcT : [t EXCEPT !.offset = 0] \in SvcT
    BY DEF SvcT
<1>3. \A t \in SvcT : [t EXCEPT !.up = up] \in SvcT
    BY DEF SvcT
<1>4. ok = [[[s EXCEPT !.active = TRUE, !.finished = FALSE] EXCEPT !.offset = 0] EXCEPT !.up = up]
    OBVIOUS
<1>5. ok \in SvcT
    BY <1>1, <1>2, <1>3, <1>4
<1>6. ok.up = up /\ ok.fast = s.fast /\ ok.on = s.on
    BY DEF SvcT
<1>7. ok.active /\ ~ok.finished /\ ok.offset = 0
    BY DEF SvcT
<1> QED BY <1>5, <1>6, <1>7

\* Calls, one after the other.
LEMMA Two == ASSUME NEW x, NEW y PROVE <<x>> \o <<y>> = <<x, y>> /\ <<x>> \o << >> = <<x>> /\ << >> \o <<x>> = <<x>>
<1> DEFINE S == {x, y}
<1>1. <<x>> \o <<y>> = <<x, y>>
  <2> DEFINE s == <<x>> \o <<y>>
             t == <<x, y>>
  <2>1. s \in Seq(S) /\ Len(s) = 2 /\ s[1] = x /\ s[2] = y
      OBVIOUS
  <2>2. t \in Seq(S) /\ Len(t) = 2 /\ t[1] = x /\ t[2] = y
      OBVIOUS
  <2>3. s = t
    <3> HIDE DEF s, t
    <3> QED BY <2>1, <2>2, SeqEqual
  <2> QED BY <2>3
<1> QED BY <1>1

\* Two short sequences joined are the sequence of three.
LEMMA Three ==
    ASSUME NEW x, NEW y, NEW z
    PROVE  <<x>> \o <<y, z>> = <<x, y, z>> /\ <<x, y>> \o <<z>> = <<x, y, z>>
<1> DEFINE S == {x, y, z}
<1>1. <<x>> \o <<y, z>> = <<x, y, z>>
  <2> DEFINE s == <<x>> \o <<y, z>>
             t == <<x, y, z>>
  <2>1. s \in Seq(S) /\ Len(s) = 3 /\ s[1] = x /\ s[2] = y /\ s[3] = z
      OBVIOUS
  <2>2. t \in Seq(S) /\ Len(t) = 3 /\ t[1] = x /\ t[2] = y /\ t[3] = z
      OBVIOUS
  <2>3. s = t
    <3> HIDE DEF s, t
    <3> QED BY <2>1, <2>2, SeqEqual
  <2> QED BY <2>3
<1>2. <<x, y>> \o <<z>> = <<x, y, z>>
  <2> DEFINE s == <<x, y>> \o <<z>>
             t == <<x, y, z>>
  <2>1. s \in Seq(S) /\ Len(s) = 3 /\ s[1] = x /\ s[2] = y /\ s[3] = z
      OBVIOUS
  <2>2. t \in Seq(S) /\ Len(t) = 3 /\ t[1] = x /\ t[2] = y /\ t[3] = z
      OBVIOUS
  <2>3. s = t
    <3> HIDE DEF s, t
    <3> QED BY <2>1, <2>2, SeqEqual
  <2> QED BY <2>3
<1> QED BY <1>1, <1>2

\* And of four.
LEMMA Four == ASSUME NEW w, NEW x, NEW y, NEW z PROVE <<w, x, y>> \o <<z>> = <<w, x, y, z>>
<1> DEFINE S == {w, x, y, z}
<1>1. <<w, x, y>> \o <<z>> = <<w, x, y, z>>
  <2> DEFINE s == <<w, x, y>> \o <<z>>
             t == <<w, x, y, z>>
  <2>1. s \in Seq(S) /\ Len(s) = 4 /\ s[1] = w /\ s[2] = x /\ s[3] = y /\ s[4] = z
      OBVIOUS
  <2>2. t \in Seq(S) /\ Len(t) = 4 /\ t[1] = w /\ t[2] = x /\ t[3] = y /\ t[4] = z
      OBVIOUS
  <2>3. s = t
    <3> HIDE DEF s, t
    <3> QED BY <2>1, <2>2, SeqEqual
  <2> QED BY <2>3
<1> QED BY <1>1

\* service.c:handle_begin starts a session, with the calls that make the stage left.
LEMMA BeginRequestKeeps == ASSUME Plain, Begin PROVE Plain'
<1>1. svc \in SvcT /\ svc.on /\ Idle
    BY DEF Plain, SvcTypes, Begin, Idle
<1>2. CASE Refuse("BEGIN", "RECOVERY_REQUIRED")
    BY <1>1, <1>2, RefusedRequest DEF Refuse, ServiceOps
<1>3. CASE \E up \in {svc.up + 1} :
             Serve("BEGIN",
                   <<CallOf("create", "meta", up), Call("write", "meta"), Call("sync", "meta"),
                     CallOf("create", "part", up)>>,
                   [svc EXCEPT !.active = TRUE, !.finished = FALSE, !.offset = 0, !.up = up],
                   [svc EXCEPT !.up = up])
  <2> DEFINE up    == svc.up + 1
             ok    == [svc EXCEPT !.active = TRUE, !.finished = FALSE, !.offset = 0, !.up = up]
             bad   == [svc EXCEPT !.up = up]
             calls == <<CallOf("create", "meta", up), Call("write", "meta"), Call("sync", "meta"),
                        CallOf("create", "part", up)>>
  <2>0. up \in Nat /\ svc.up <= up
      BY <1>1 DEF SvcT
  <2>1. /\ ok \in SvcT /\ ok.up = up /\ ok.fast = svc.fast /\ ok.on = svc.on
        /\ ok.active /\ ~ok.finished /\ ok.offset = 0
    <3>1. \A n \in Nat : \A k : k = [svc EXCEPT !.active = TRUE, !.finished = FALSE, !.offset = 0, !.up = n] =>
             /\ k \in SvcT /\ k.up = n /\ k.fast = svc.fast /\ k.on = svc.on
             /\ k.active /\ ~k.finished /\ k.offset = 0
        BY <1>1, Began
    <3>2. ok = [svc EXCEPT !.active = TRUE, !.finished = FALSE, !.offset = 0, !.up = up]
        OBVIOUS
    <3> HIDE DEF ok, up
    <3> QED BY <2>0, <3>1, <3>2
  <2>1a. bad \in SvcT /\ bad.up = up /\ bad.fast = svc.fast /\ bad.active = svc.active
      BY <1>1, <2>0 DEF SvcT
  <2>2. ~svc.active
      BY DEF Begin
  <2>3. calls \in Seq(CallT)
      BY <2>0, CallTypes DEF Kinds, Names
  <2>4. Serve("BEGIN", calls, ok, bad)
      BY <1>3
  <2>5. work' = [op |-> "BEGIN", calls |-> calls, ok |-> ok, bad |-> bad]
      BY <2>4 DEF Serve
  <2>6. BeginInv'
    <3>1. /\ Len(calls) = 4 /\ calls[1] = CallOf("create", "meta", up) /\ calls[2] = Call("write", "meta")
          /\ calls[3] = Call("sync", "meta") /\ calls[4] = CallOf("create", "part", up) /\ calls # << >>
        OBVIOUS
    <3>2. CallsLeft' = calls /\ Places' = 1 .. 4 /\ work'.ok = ok
        BY <2>5, <3>1 DEF CallsLeft, Places
    <3> HIDE DEF calls, ok, bad
    <3>3. work.ok.active' /\ work.ok.on' /\ ~work.ok.finished' /\ work.ok.offset' = 0 /\ work.ok.up' = up
        BY <1>1, <2>1, <2>5
    <3>4. \A i \in 1 .. 4 :
            IF i = 4 THEN calls[i] = CallOf("create", "part", up)
            ELSE calls[i] \in {CallOf("create", "meta", up), Call("write", "meta"), Call("sync", "meta")}
        BY <3>1
    <3> HIDE DEF up
    <3> QED BY <3>1, <3>2, <3>3, <3>4 DEF BeginInv
  <2>7. RequestInv'
      BY <2>5, <2>6 DEF RequestInv
  <2> HIDE DEF calls, ok, bad, up
  <2> QED BY <1>1, <2>0, <2>1, <2>1a, <2>2, <2>3, <2>4, <2>7, ServedRequest DEF ServiceOps
<1> QED BY <1>2, <1>3 DEF Begin

\* The chunk that a WRITE appends is the one the offset counts.
LEMMA WriteRequestKeeps == ASSUME Plain, Write PROVE Plain'
<1> DEFINE ok == [svc EXCEPT !.offset = @ + 1]
           calls == <<Call("write", "part")>>
<1>1. svc \in SvcT /\ svc.on /\ svc.active /\ ~svc.finished /\ svc.offset < Size /\ work = << >>
    BY DEF Plain, SvcTypes, Write, Idle
<1>2. /\ ok \in SvcT /\ ok.up = svc.up /\ svc.up \in Nat /\ ok.fast = svc.fast /\ svc.offset \in Nat
      /\ ok.active /\ ok.on /\ ~ok.finished /\ ok.offset = svc.offset + 1
    BY <1>1, SdServiceAssumption DEF SvcT
<1>2a. Quiet \in SvcT /\ Quiet.up = svc.up /\ Quiet.fast = svc.fast /\ ~Quiet.active
    BY <1>1 DEF SvcT, Quiet
<1>3. calls \in Seq(CallT) /\ Len(calls) = 1 /\ calls[1] = Call("write", "part")
  <2>1. Call("write", "part") \in CallT
      BY CallTypes DEF Kinds, Names
  <2> QED BY <2>1
<1>4. Serve("WRITE", calls, ok, Quiet)
    BY DEF Write
<1>5. work' = [op |-> "WRITE", calls |-> calls, ok |-> ok, bad |-> Quiet] /\ UNCHANGED <<entry, chain>>
    BY <1>4 DEF Serve
<1>6. WriteInv'
  <2>1. StagedBy(svc.up) /\ At("part").n = svc.offset
      BY <1>1 DEF Plain, IdleInv, Staged
  <2>2. CallsLeft' = calls /\ Places' = 1 .. 1 /\ work'.ok = ok
      BY <1>3, <1>5 DEF CallsLeft, Places
  <2>3. /\ entry'["part"] # 0 /\ ~chain'[entry'["part"]].freed
        /\ chain'[entry'["part"]].of = svc.up /\ chain'[entry'["part"]].n = svc.offset
      BY <1>5, <2>1 DEF StagedBy, There, At
  <2>4. /\ work.ok.active' /\ work.ok.on' /\ ~work.ok.finished' /\ work.ok.offset' = svc.offset + 1
        /\ work.ok.up' = svc.up
      BY <1>2, <2>2
  <2> HIDE DEF calls, ok
  <2>5. Len(CallsLeft') = 1
      BY <1>3, <2>2
  <2>8. CallsLeft'[1] = Call("write", "part")
      BY <1>3, <2>2
  <2>9. Places' = 1 .. 1
      BY <2>2
  <2>6. At("part").n' = work.ok.offset' - Len(CallsLeft')
    <3>1. work.ok.offset' - Len(CallsLeft') = svc.offset
        BY <1>2, <2>4, <2>5
    <3> QED BY <2>3, <3>1 DEF At
  <2>10. StagedBy(work.ok.up)'
      BY <2>3, <2>4 DEF StagedBy, There, At
  <2>7. Len(CallsLeft)' <= 1 /\ \A i \in Places' : CallsLeft'[i] = Call("write", "part")
      BY <2>5, <2>8, <2>9
  <2> QED BY <2>4, <2>6, <2>10, <2>7 DEF WriteInv
<1>7. RequestInv'
    BY <1>5, <1>6 DEF RequestInv
<1> HIDE DEF calls, ok
<1> QED BY <1>1, <1>2, <1>2a, <1>3, <1>4, <1>7, ServedRequest DEF ServiceOps

\* What may be read again, and what such a request relies on.
LEMMA DigestIs == ASSUME NEW name, NEW of PROVE Digest(name, of) = << >> \/ Digest(name, of) = <<CallOf("digest", name, of)>>
BY DEF Digest

\* A FINISH leaves its sync and its check of the stage.
LEMMA FinishRequestKeeps == ASSUME Plain, Finish PROVE Plain'
<1> DEFINE ok == [svc EXCEPT !.finished = TRUE]
           calls == <<Call("sync", "part")>> \o Digest("part", svc.up)
<1>1. svc \in SvcT /\ svc.on /\ Idle /\ svc.active /\ ~svc.finished /\ work = << >>
    BY DEF Plain, SvcTypes, Finish, Idle
<1>2. CASE Refuse("FINISH", "INTEGRITY")
    BY <1>1, <1>2, RefusedRequest DEF Refuse, ServiceOps
<1>3. CASE svc.offset >= Size /\ Serve("FINISH", calls, ok, Quiet)
  <2>1. /\ ok \in SvcT /\ Quiet \in SvcT /\ Quiet.up = ok.up /\ ok.up = svc.up /\ svc.up \in Nat
        /\ ok.fast = svc.fast /\ Quiet.fast = svc.fast /\ ~Quiet.active
        /\ ok.active /\ ok.on /\ ok.finished /\ svc.offset \in 0 .. Size
      BY <1>1 DEF SvcT, Quiet
  <2>2. /\ calls = <<Call("sync", "part")>> \/ calls = <<Call("sync", "part"), CallOf("digest", "part", svc.up)>>
      BY DigestIs, Two
  <2>3. /\ calls \in Seq(CallT) /\ calls[1] = Call("sync", "part") /\ Len(calls) \in {1, 2}
        /\ \A i \in 1 .. Len(calls) : i = 1 \/ calls[i].do = "digest"
    <3>1. CallOf("digest", "part", svc.up).do = "digest"
        BY DEF CallOf
    <3> HIDE DEF calls
    <3>2. Call("sync", "part") \in CallT /\ CallOf("digest", "part", svc.up) \in CallT
        BY <2>1, CallTypes DEF Kinds, Names
    <3>3. CASE calls = <<Call("sync", "part")>>
        BY <3>2, <3>3
    <3>4. CASE calls = <<Call("sync", "part"), CallOf("digest", "part", svc.up)>>
        BY <3>1, <3>2, <3>4
    <3> QED BY <2>2, <3>3, <3>4
  <2>4. work' = [op |-> "FINISH", calls |-> calls, ok |-> ok, bad |-> Quiet] /\ UNCHANGED <<entry, chain>>
      BY <1>3 DEF Serve
  <2>5. FinishInv'
    <3>1. StagedBy(svc.up) /\ At("part").n = Size
        BY <1>1, <1>3, <2>1, SdServiceAssumption DEF Plain, IdleInv, Staged
    <3>2. CallsLeft' = calls /\ Places' = 1 .. Len(calls) /\ work'.ok = ok
        BY <2>4 DEF CallsLeft, Places
    <3> HIDE DEF calls, ok
    <3> QED BY <2>1, <2>3, <2>4, <3>1, <3>2 DEF FinishInv, StagedBy, There, At
  <2>6. RequestInv'
      BY <2>4, <2>5 DEF RequestInv
  <2> HIDE DEF calls, ok
  <2> QED BY <1>1, <1>3, <2>1, <2>3, <2>6, ServedRequest DEF ServiceOps
<1>4. svc.offset >= Size \/ svc.offset < Size
    BY <1>1, SdServiceAssumption DEF SvcT
<1> QED BY <1>2, <1>3, <1>4, SdServiceAssumption DEF Finish

\* The calls of an activation, and their order.
FourWays(calls, aside, place, dig, gone) ==
  calls \in {<<place, gone>>, <<place, dig, gone>>, <<aside, place, gone>>, <<aside, place, dig, gone>>}
InOrder(calls, aside, place, dig, gone) ==
  \/ /\ calls[1] = aside /\ Len(calls) > 1 /\ calls[2] = place
     /\ \A i \in 3 .. Len(calls) : calls[i] \in {dig, gone}
  \/ calls[1] = place /\ \A i \in 2 .. Len(calls) : calls[i] \in {dig, gone}

\* The calls of an activation, by whether there was a file and whether it is read again.
Proper(calls, aside, place, dig, gone) ==
  /\ calls \in Seq(CallT) /\ calls # << >> /\ InOrder(calls, aside, place, dig, gone)
  /\ calls \in {<<place, dig, gone>>, <<aside, place, dig, gone>>} => \E i \in 1 .. Len(calls) : calls[i] = dig

\* The four lists that an activation may be made of.
LEMMA Joined ==
    ASSUME NEW aside, NEW place, NEW dig, NEW gone,
           NEW pre, pre = << >> \/ pre = <<aside>>, NEW post, post = << >> \/ post = <<dig>>
    PROVE  \/ pre \o <<place>> \o post \o <<gone>> \in {<<place, dig, gone>>, <<aside, place, dig, gone>>}
           \/ /\ post = << >>
              /\ pre \o <<place>> \o post \o <<gone>> \in {<<place, gone>>, <<aside, place, gone>>}
<1>1. CASE pre = << >> /\ post = << >>
  <2>1. << >> \o <<place>> = <<place>>
      BY Two
  <2>2. <<place>> \o << >> = <<place>>
      OBVIOUS
  <2>3. <<place>> \o <<gone>> = <<place, gone>>
      BY Two, Three, Four
  <2> QED BY <1>1, <2>1, <2>2, <2>3
<1>2. CASE pre = << >> /\ post = <<dig>>
  <2>1. << >> \o <<place>> = <<place>>
      BY Two
  <2>2. <<place>> \o <<dig>> = <<place, dig>>
      BY Two, Three
  <2>3. <<place, dig>> \o <<gone>> = <<place, dig, gone>>
      BY Two, Three, Four
  <2> QED BY <1>2, <2>1, <2>2, <2>3
<1>3. CASE pre = <<aside>> /\ post = << >>
  <2>1. <<aside>> \o <<place>> = <<aside, place>>
      BY Two
  <2>2. <<aside, place>> \o << >> = <<aside, place>>
      OBVIOUS
  <2>3. <<aside, place>> \o <<gone>> = <<aside, place, gone>>
      BY Two, Three, Four
  <2> QED BY <1>3, <2>1, <2>2, <2>3
<1>4. CASE pre = <<aside>> /\ post = <<dig>>
  <2>1. <<aside>> \o <<place>> = <<aside, place>>
      BY Two
  <2>2. <<aside, place>> \o <<dig>> = <<aside, place, dig>>
      BY Two, Three
  <2>3. <<aside, place, dig>> \o <<gone>> = <<aside, place, dig, gone>>
      BY Two, Three, Four
  <2> QED BY <1>4, <2>1, <2>2, <2>3
<1> QED BY <1>1, <1>2, <1>3, <1>4

\* Each of those four lists is in the order that ActivateInv asks for.
LEMMA Sequel ==
    ASSUME NEW aside \in CallT, NEW place \in CallT, NEW dig \in CallT, NEW gone \in CallT, NEW calls,
           FourWays(calls, aside, place, dig, gone)
    PROVE  Proper(calls, aside, place, dig, gone)
<1>1. ASSUME calls = <<place, gone>> PROVE calls \in Seq(CallT) /\ calls # << >> /\ InOrder(calls, aside, place, dig, gone)
  <2>1. calls \in Seq(CallT) /\ Len(calls) = 2
      BY <1>1
  <2>2. calls # << >> /\ calls[1] = place /\ calls[2] = gone
      BY <1>1
  <2>3. \A i \in 2 .. 2 : calls[i] \in {dig, gone}
      BY <2>2
  <2>4. InOrder(calls, aside, place, dig, gone)
      BY <2>1, <2>2, <2>3 DEF InOrder
  <2> QED BY <2>1, <2>2, <2>4
<1>2. ASSUME calls = <<place, dig, gone>> PROVE calls \in Seq(CallT) /\ calls # << >> /\ InOrder(calls, aside, place, dig, gone)
  <2>1. calls \in Seq(CallT) /\ Len(calls) = 3
      BY <1>2
  <2>2. calls # << >> /\ calls[1] = place /\ calls[2] = dig /\ calls[3] = gone
      BY <1>2
  <2>3. \A i \in 2 .. 3 : calls[i] \in {dig, gone}
      BY <2>2
  <2>4. InOrder(calls, aside, place, dig, gone)
      BY <2>1, <2>2, <2>3 DEF InOrder
  <2> QED BY <2>1, <2>2, <2>4
<1>3. ASSUME calls = <<aside, place, gone>> PROVE calls \in Seq(CallT) /\ calls # << >> /\ InOrder(calls, aside, place, dig, gone)
  <2>1. calls \in Seq(CallT) /\ Len(calls) = 3
      BY <1>3
  <2>2. calls # << >> /\ calls[1] = aside /\ calls[2] = place /\ calls[3] = gone
      BY <1>3
  <2>3. \A i \in 3 .. 3 : calls[i] \in {dig, gone}
      BY <2>2
  <2>4. InOrder(calls, aside, place, dig, gone)
      BY <2>1, <2>2, <2>3 DEF InOrder
  <2> QED BY <2>1, <2>2, <2>4
<1>4. ASSUME calls = <<aside, place, dig, gone>> PROVE calls \in Seq(CallT) /\ calls # << >> /\ InOrder(calls, aside, place, dig, gone)
  <2>1. calls \in Seq(CallT) /\ Len(calls) = 4
      BY <1>4
  <2>2. calls # << >> /\ calls[1] = aside /\ calls[2] = place /\ calls[3] = dig /\ calls[4] = gone
      BY <1>4
  <2>3. \A i \in 3 .. 4 : calls[i] \in {dig, gone}
      BY <2>2
  <2>4. InOrder(calls, aside, place, dig, gone)
      BY <2>1, <2>2, <2>3 DEF InOrder
  <2> QED BY <2>1, <2>2, <2>4
<1>5. calls = <<place, dig, gone>> => \E i \in 1 .. Len(calls) : calls[i] = dig
    OBVIOUS
<1>6. calls = <<aside, place, dig, gone>> => \E i \in 1 .. Len(calls) : calls[i] = dig
    OBVIOUS
<1> QED BY <1>1, <1>2, <1>3, <1>4, <1>5, <1>6 DEF FourWays, Proper

\* So are the calls of an activation as service.c:handle_activate makes them.
LEMMA ActivateCalls ==
    ASSUME NEW up \in Nat, NEW calls,
           calls = SetAside \o <<PutsInPlace>> \o Digest("target", up) \o <<Call("unlink", "meta")>>
    PROVE  /\ calls \in Seq(CallT) /\ calls # << >>
           /\ InOrder(calls, SetsAside, PutsInPlace, CallOf("digest", "target", up), Call("unlink", "meta"))
           /\ svc.fast \/ \E i \in 1 .. Len(calls) : calls[i] = CallOf("digest", "target", up)
<1> DEFINE dig  == CallOf("digest", "target", up)
           gone == Call("unlink", "meta")
<1>1. dig \in CallT /\ gone \in CallT /\ SetsAside \in CallT /\ PutsInPlace \in CallT
    BY CallTypes DEF Kinds, Names
<1>2. SetAside = << >> \/ SetAside = <<SetsAside>>
    BY DEF SetAside, SetsAside
<1>3. Digest("target", up) = << >> \/ Digest("target", up) = <<dig>>
    BY DEF Digest
<1>4. svc.fast \/ Digest("target", up) = <<dig>>
    BY DEF Digest
<1>5. calls = SetAside \o <<PutsInPlace>> \o Digest("target", up) \o <<gone>>
    OBVIOUS
<1> HIDE DEF dig, gone
<1>6. \/ calls \in {<<PutsInPlace, dig, gone>>, <<SetsAside, PutsInPlace, dig, gone>>}
      \/ svc.fast /\ calls \in {<<PutsInPlace, gone>>, <<SetsAside, PutsInPlace, gone>>}
  <2> DEFINE pre  == SetAside
             post == Digest("target", up)
  <2>1. (pre = << >> \/ pre = <<SetsAside>>) /\ (post = << >> \/ post = <<dig>>)
      BY <1>2, <1>3
  <2>2. calls = pre \o <<PutsInPlace>> \o post \o <<gone>> /\ (svc.fast \/ post = <<dig>>)
      BY <1>4, <1>5
  <2> HIDE DEF pre, post
  <2>3. post = << >> => svc.fast
      BY <2>2
  <2>4. \/ pre \o <<PutsInPlace>> \o post \o <<gone>>
             \in {<<PutsInPlace, dig, gone>>, <<SetsAside, PutsInPlace, dig, gone>>}
        \/ /\ post = << >>
           /\ pre \o <<PutsInPlace>> \o post \o <<gone>>
                \in {<<PutsInPlace, gone>>, <<SetsAside, PutsInPlace, gone>>}
      BY <2>1, Joined
  <2> QED BY <2>2, <2>3, <2>4
<1>7. /\ calls \in Seq(CallT) /\ calls # << >> /\ InOrder(calls, SetsAside, PutsInPlace, dig, gone)
      /\ calls \in {<<PutsInPlace, dig, gone>>, <<SetsAside, PutsInPlace, dig, gone>>} =>
           \E i \in 1 .. Len(calls) : calls[i] = dig
  <2>1. FourWays(calls, SetsAside, PutsInPlace, dig, gone)
      BY <1>6 DEF FourWays
  <2>2. Proper(calls, SetsAside, PutsInPlace, dig, gone)
      BY <1>1, <2>1, Sequel
  <2> QED BY <2>2 DEF Proper
<1>8. svc.fast \/ \E i \in 1 .. Len(calls) : calls[i] = dig
    BY <1>6, <1>7
<1> QED BY <1>7, <1>8 DEF dig, gone

\* Once a stage is complete, its file is.
LEMMA ActivateRequestKeeps == ASSUME Plain, Activate PROVE Plain'
<1> DEFINE calls == SetAside \o <<Rename("part", "target")>> \o Digest("target", svc.up) \o <<Call("unlink", "meta")>>
<1>1. svc \in SvcT /\ svc.on /\ Idle /\ svc.active /\ svc.finished /\ work = << >> /\ svc.up \in Nat
    BY DEF Plain, SvcTypes, SvcT, Activate, Idle
<1>2. CASE svc' = Quiet /\ cached' = [op |-> "ACTIVATE", res |-> "RECOVERY_REQUIRED", up |-> svc.up]
           /\ UNCHANGED <<entry, chain, work, told, faults>>
    BY <1>1, <1>2, RefusedRequest DEF ServiceOps
<1>3. CASE Serve("ACTIVATE", calls, Quiet, Quiet)
  <2>1. Quiet \in SvcT /\ Quiet.up = svc.up /\ Quiet.fast = svc.fast /\ ~Quiet.active
      BY <1>1 DEF SvcT, Quiet
  <2>2. work' = [op |-> "ACTIVATE", calls |-> calls, ok |-> Quiet, bad |-> Quiet] /\ UNCHANGED <<entry, chain, svc>>
      BY <1>3 DEF Serve
  <2>3. calls = SetAside \o <<PutsInPlace>> \o Digest("target", svc.up) \o <<Call("unlink", "meta")>>
      BY DEF PutsInPlace
  <2> HIDE DEF calls
  <2>4. /\ calls \in Seq(CallT) /\ calls # << >>
        /\ InOrder(calls, SetsAside, PutsInPlace, CallOf("digest", "target", svc.up), Call("unlink", "meta"))
        /\ svc.fast \/ \E i \in 1 .. Len(calls) : calls[i] = CallOf("digest", "target", svc.up)
      BY <1>1, <2>3, ActivateCalls
  <2>5. CallsLeft' = calls /\ Places' = 1 .. Len(calls) /\ Checks' = CallOf("digest", "target", svc.up)
        /\ work.ok.up' = svc.up /\ ~work.ok.active' /\ svc.fast' = svc.fast
      BY <2>1, <2>2 DEF CallsLeft, Places, Checks
  <2>6. StagedBy(work.ok.up)' /\ Full(At("part"))'
    <3>1. StagedBy(svc.up) /\ Full(At("part"))
        BY <1>1 DEF Plain, IdleInv, Staged
    <3> QED BY <2>2, <2>5, <3>1 DEF StagedBy, There, At, Full
  <2>7. Checked'
      BY <2>4, <2>5 DEF Checked
  <2>8. ActivateInv'
      BY <2>4, <2>5, <2>6, <2>7 DEF ActivateInv, Ends, InOrder
  <2>9. RequestInv'
      BY <2>2, <2>8 DEF RequestInv
  <2> QED BY <1>1, <1>3, <2>1, <2>4, <2>9, ServedRequest DEF ServiceOps, SvcT
<1> QED BY <1>2, <1>3 DEF Activate

\* A CANCEL leaves only calls on the stage and its record.
LEMMA CancelKeeps == ASSUME Plain, Cancel PROVE Plain'
<1> DEFINE calls == (IF svc.finished THEN << >> ELSE <<Call("sync", "part")>>)
                      \o <<Call("unlink", "part"), Call("unlink", "meta")>>
<1>1. svc \in SvcT /\ svc.on /\ Serve("CANCEL", calls, Quiet, Quiet)
    BY DEF Plain, SvcTypes, Cancel, Idle
<1>2. Quiet \in SvcT /\ Quiet.up = svc.up /\ Quiet.fast = svc.fast /\ ~Quiet.active /\ svc.up \in Nat
    BY <1>1 DEF SvcT, Quiet
<1>3. work' = [op |-> "CANCEL", calls |-> calls, ok |-> Quiet, bad |-> Quiet]
    BY <1>1 DEF Serve
<1>4. /\ Call("sync", "part") \in CallT /\ Call("unlink", "part") \in CallT /\ Call("unlink", "meta") \in CallT
    BY CallTypes DEF Kinds, Names
<1>5. \/ calls = <<Call("unlink", "part"), Call("unlink", "meta")>>
      \/ calls = <<Call("sync", "part"), Call("unlink", "part"), Call("unlink", "meta")>>
  <2>1. << >> \o <<Call("unlink", "part"), Call("unlink", "meta")>> = <<Call("unlink", "part"), Call("unlink", "meta")>>
      OBVIOUS
  <2>2. <<Call("sync", "part")>> \o <<Call("unlink", "part"), Call("unlink", "meta")>>
          = <<Call("sync", "part"), Call("unlink", "part"), Call("unlink", "meta")>>
      BY Three
  <2> QED BY <2>1, <2>2
<1> HIDE DEF calls
<1>6. /\ calls \in Seq(CallT)
      /\ \A i \in 1 .. Len(calls) : calls[i] \in {Call("sync", "part"), Call("unlink", "part"), Call("unlink", "meta")}
  <2> DEFINE x == Call("sync", "part")
             y == Call("unlink", "part")
             z == Call("unlink", "meta")
  <2>1. x \in CallT /\ y \in CallT /\ z \in CallT /\ (calls = <<y, z>> \/ calls = <<x, y, z>>)
      BY <1>4, <1>5
  <2>2. calls \in Seq(CallT) /\ \A i \in 1 .. Len(calls) : calls[i] \in {x, y, z}
    <3> HIDE DEF x, y, z
    <3>1. CASE calls = <<y, z>>
        BY <2>1, <3>1
    <3>2. CASE calls = <<x, y, z>>
        BY <2>1, <3>2
    <3> QED BY <2>1, <3>1, <3>2
  <2> QED BY <2>2
<1>7. CallsLeft' = calls /\ Places' = 1 .. Len(calls) /\ ~work.ok.active'
    BY <1>2, <1>3 DEF CallsLeft, Places
<1>8. RequestInv'
    BY <1>3, <1>6, <1>7 DEF RequestInv, CancelInv
<1> QED BY <1>1, <1>2, <1>6, <1>8, ServedRequest DEF ServiceOps

\* A recovery that is served leaves the session as it is.
LEMMA RecoverServed ==
    ASSUME Plain, Idle, ~svc.active, NEW calls \in Seq(CallT), Serve("RECOVER", calls, svc, svc),
           \A i \in 1 .. Len(calls) :
             \/ calls[i] \in {PutsBack, Call("unlink", "part"), Call("unlink", "meta"), Call("unlink", "backup")}
             \/ calls[i].do \in {"size", "digest", "read"},
           (\E i \in 1 .. Len(calls) : calls[i] = Call("unlink", "backup")) => There("target")
    PROVE  Plain'
<1>1. svc \in SvcT /\ svc.on /\ svc.up \in Nat
    BY DEF Plain, SvcTypes, SvcT, Idle
<1>2. work' = [op |-> "RECOVER", calls |-> calls, ok |-> svc, bad |-> svc] /\ entry' = entry
    BY DEF Serve
<1>3. CallsLeft' = calls /\ Places' = 1 .. Len(calls) /\ ~work.ok.active'
    BY <1>2 DEF CallsLeft, Places
<1>4. RecoverInv'
    BY <1>2, <1>3 DEF RecoverInv, There
<1>5. RequestInv'
    BY <1>2, <1>4 DEF RequestInv
<1> QED BY <1>1, <1>5, ServedRequest DEF ServiceOps

\* A recovery without a target puts the backup back and does nothing else.
LEMMA RestoreKeeps == ASSUME Plain, Restore PROVE Plain'
<1> DEFINE calls == <<Rename("backup", "target")>>
<1>1. CASE Refuse("RECOVER", "RECOVERY_REQUIRED")
    BY <1>1, RefusedRequest DEF Refuse, ServiceOps, Restore
<1>2. CASE Serve("RECOVER", calls, svc, svc)
  <2>1. PutsBack \in CallT /\ calls = <<PutsBack>>
      BY CallTypes DEF PutsBack
  <2>2. calls \in Seq(CallT) /\ Len(calls) = 1 /\ calls[1] = PutsBack
      BY <2>1
  <2>3. PutsBack # Call("unlink", "backup")
    <3>1. PutsBack.do = "rename" /\ Call("unlink", "backup").do = "unlink"
        BY DEF PutsBack, Rename, Call
    <3> QED BY <3>1
  <2> HIDE DEF calls
  <2> QED BY <1>2, <2>2, <2>3, RecoverServed DEF Restore
<1> QED BY <1>1, <1>2 DEF Restore

\* The calls of SD_RECOVER that give the staged upload up.
Unstages(calls) ==
  \A i \in 1 .. Len(calls) : calls[i] \in {Call("unlink", "part"), Call("unlink", "meta")} \/ calls[i].do \in {"size", "digest"}

\* A recovery that finds a stage checks the target and removes the stage.
LEMMA DiscardServes ==
    ASSUME entry \in [Names -> 0 .. 5], chain \in [Chains -> ContentsT], Discard
    PROVE  \/ Refuse("RECOVER", "RECOVERY_REQUIRED")
           \/ \E calls \in Seq(CallT) : Serve("RECOVER", calls, svc, svc) /\ Unstages(calls)
<1> DEFINE first == IF ~InPlace THEN << >>
                    ELSE IF svc.fast THEN <<Call("size", "target")>>
                    ELSE <<CallOf("digest", "target", At("meta").of)>>
           y == Call("unlink", "part")
           z == Call("unlink", "meta")
           calls == first \o <<y, z>>
<1>1. Refuse("RECOVER", "RECOVERY_REQUIRED") \/ Serve("RECOVER", calls, svc, svc)
    BY DEF Discard
<1>2. first = << >> \/ \E x \in CallT : x.do \in {"size", "digest"} /\ first = <<x>>
  <2>1. Call("size", "target") \in CallT /\ Call("size", "target").do = "size"
      BY CallTypes DEF Kinds, Names, Call
  <2>2. CASE InPlace
    <3>1. At("meta").of \in Nat
        BY <2>2 DEF InPlace, There, At, Names, Chains, ContentsT
    <3>2. /\ CallOf("digest", "target", At("meta").of) \in CallT
          /\ CallOf("digest", "target", At("meta").of).do = "digest"
        BY <3>1, CallTypes DEF Kinds, Names, CallOf
    <3> QED BY <2>1, <2>2, <3>2
  <2> QED BY <2>2
<1>3. y \in CallT /\ z \in CallT
    BY CallTypes DEF Kinds, Names
<1>4. calls = <<y, z>> \/ \E x \in CallT : x.do \in {"size", "digest"} /\ calls = <<x, y, z>>
  <2> HIDE DEF first, y, z
  <2>1. << >> \o <<y, z>> = <<y, z>>
      OBVIOUS
  <2> QED BY ZenonT(60), <1>2, <2>1, Three
<1>5. /\ calls \in Seq(CallT)
      /\ \A i \in 1 .. Len(calls) : (calls[i] = y \/ calls[i] = z \/ calls[i].do \in {"size", "digest"})
  <2> HIDE DEF calls, first, y, z
  <2>1. CASE calls = <<y, z>>
      BY <1>3, <2>1
  <2>2. CASE \E x \in CallT : x.do \in {"size", "digest"} /\ calls = <<x, y, z>>
      BY <1>3, <2>2
  <2> QED BY <1>4, <2>1, <2>2
<1>6. Unstages(calls)
  <2> HIDE DEF calls
  <2> QED BY <1>5 DEF Unstages
<1> HIDE DEF calls
<1> QED BY <1>1, <1>5, <1>6

\* A recovery that gives the stage up.
LEMMA DiscardKeeps == ASSUME Plain, Discard PROVE Plain'
<1>1. CASE Refuse("RECOVER", "RECOVERY_REQUIRED")
    BY <1>1, RefusedRequest DEF Refuse, ServiceOps, Discard
<1>2. CASE \E calls \in Seq(CallT) : Serve("RECOVER", calls, svc, svc) /\ Unstages(calls)
  <2>1. PICK calls \in Seq(CallT) : Serve("RECOVER", calls, svc, svc) /\ Unstages(calls)
      BY <1>2
  <2>2. /\ \A a \in {"part", "meta", "backup"} : Call("unlink", a).do = "unlink" /\ Call("unlink", a).a = a
      BY DEF Call
  <2>3. \A i \in 1 .. Len(calls) : calls[i] # Call("unlink", "backup")
      BY <2>1, <2>2 DEF Unstages
  <2>4. \A i \in 1 .. Len(calls) :
          \/ calls[i] \in {PutsBack, Call("unlink", "part"), Call("unlink", "meta"), Call("unlink", "backup")}
          \/ calls[i].do \in {"size", "digest", "read"}
      BY <2>1 DEF Unstages
  <2> QED BY <2>1, <2>3, <2>4, RecoverServed DEF Discard
<1>3. entry \in [Names -> 0 .. 5] /\ chain \in [Chains -> ContentsT]
    BY DEF Plain, CardInv, Sound
<1> QED BY <1>1, <1>2, <1>3, DiscardServes

\* The calls of SD_RECOVER that drop the backup.
DropsBackup(calls) == \A i \in 1 .. Len(calls) : calls[i] = Call("unlink", "backup") \/ calls[i].do = "read"

\* A recovery that finds a backup and a target removes the backup after the target was read.
LEMMA DropBackupServes ==
    ASSUME DropBackup
    PROVE  \/ Refuse("RECOVER", "RECOVERY_REQUIRED")
           \/ There("target") /\ \E calls \in Seq(CallT) : Serve("RECOVER", calls, svc, svc) /\ DropsBackup(calls)
<1> DEFINE x == Call("read", "target")
           y == Call("unlink", "backup")
           calls == <<x, y>>
<1>1. Refuse("RECOVER", "RECOVERY_REQUIRED") \/ (There("target") /\ Serve("RECOVER", calls, svc, svc))
    BY DEF DropBackup
<1>2. x \in CallT /\ y \in CallT
    BY CallTypes DEF Kinds, Names
<1>3. x.do = "read"
    BY DEF Call
<1>4. calls \in Seq(CallT) /\ Len(calls) = 2 /\ calls[1] = x /\ calls[2] = y
  <2> HIDE DEF x, y
  <2> QED BY <1>2
<1>5. \A i \in 1 .. Len(calls) : calls[i] = y \/ calls[i].do = "read"
  <2> HIDE DEF calls, x, y
  <2> QED BY <1>3, <1>4
<1>6. DropsBackup(calls)
  <2> HIDE DEF calls
  <2> QED BY <1>5 DEF DropsBackup
<1> HIDE DEF calls
<1> QED BY <1>1, <1>4, <1>6

\* A recovery that drops the backup.
LEMMA DropBackupKeeps == ASSUME Plain, DropBackup PROVE Plain'
<1>1. CASE Refuse("RECOVER", "RECOVERY_REQUIRED")
    BY <1>1, RefusedRequest DEF Refuse, ServiceOps, DropBackup
<1>2. CASE There("target") /\ \E calls \in Seq(CallT) : Serve("RECOVER", calls, svc, svc) /\ DropsBackup(calls)
  <2>1. PICK calls \in Seq(CallT) : Serve("RECOVER", calls, svc, svc) /\ DropsBackup(calls)
      BY <1>2
  <2>2. \A i \in 1 .. Len(calls) :
          \/ calls[i] \in {PutsBack, Call("unlink", "part"), Call("unlink", "meta"), Call("unlink", "backup")}
          \/ calls[i].do \in {"size", "digest", "read"}
      BY <2>1 DEF DropsBackup
  <2> QED BY <1>2, <2>1, <2>2, RecoverServed DEF DropBackup
<1> QED BY <1>1, <1>2, DropBackupServes

-----------------------------------------------------------------------------
(* A call of a request succeeds.                                           *)

Makes(call, bad) ==
  /\ work # << >> /\ CallsLeft # << >> /\ call = CallsLeft[1] /\ CanSucceed(call)
  /\ entry' = Entered(call) /\ chain' = Stored(call, bad)
  /\ work' = [work EXCEPT !.calls = Tail(@)]
  /\ UNCHANGED <<svc, cached, told>>

\* The other calls move up.
LEMMA MovesUp ==
    ASSUME WorkTypes, NEW call, NEW bad, Makes(call, bad)
    PROVE  /\ work' \in WorkT /\ work' # << >> /\ work.op' = work.op /\ work.ok' = work.ok /\ work.bad' = work.bad
           /\ CallsLeft' \in Seq(CallT) /\ Len(CallsLeft) \in Nat \ {0} /\ Len(CallsLeft') = Len(CallsLeft) - 1
           /\ \A i \in Places' : i \in Nat \ {0} /\ i + 1 \in Places /\ CallsLeft'[i] = CallsLeft[i + 1]
           /\ call \in CallT /\ 1 \in Places
<1>1. work \in WorkT /\ CallsLeft \in Seq(CallT) /\ CallsLeft # << >>
    BY DEF Makes, WorkTypes, WorkT, CallsLeft
<1>2. CallsLeft' = Tail(CallsLeft) /\ work.op' = work.op /\ work.ok' = work.ok /\ work.bad' = work.bad
    BY <1>1 DEF Makes, CallsLeft, WorkT
<1>3. /\ Tail(CallsLeft) \in Seq(CallT) /\ Len(CallsLeft) \in Nat \ {0} /\ Len(Tail(CallsLeft)) = Len(CallsLeft) - 1 /\ CallsLeft[1] \in CallT
      /\ \A i \in 1 .. Len(Tail(CallsLeft)) : i + 1 \in 1 .. Len(CallsLeft) /\ Tail(CallsLeft)[i] = CallsLeft[i + 1]
    BY <1>1, Rest
<1>4. work' \in WorkT
    BY <1>1, <1>3 DEF Makes, CallsLeft, WorkT
<1>5. Places = 1 .. Len(CallsLeft) /\ Places' = 1 .. Len(Tail(CallsLeft))
    BY <1>2 DEF Places
<1>6. \A i \in Places' : i \in Nat \ {0} /\ i + 1 \in Places /\ CallsLeft'[i] = CallsLeft[i + 1]
    BY <1>2, <1>3, <1>5
<1>7. call \in CallT /\ 1 \in Places
    BY <1>3, <1>5 DEF Makes
<1> QED BY <1>2, <1>3, <1>4, <1>6, <1>7, RequestParts

\* A call leaves the names alone that it does not mention, and what they lead to.
LEMMA NameStays ==
    ASSUME CardInv, NEW call \in CallT, CanSucceed(call), NEW bad, NEW n \in Names, call.a # n, call.to # n
    PROVE  Entered(call)[n] = entry[n] /\ (entry[n] # 0 => Stored(call, bad)[entry[n]] = chain[entry[n]])
<1>1. /\ entry \in [Names -> 0 .. 5] /\ chain \in [Chains -> ContentsT]
      /\ \A a, b \in Names : entry[a] = entry[b] /\ entry[a] # 0 => a = b
      /\ \A a \in Names : entry[a] # 0 => entry[a] \in Chains
    BY DEF CardInv, Sound, Chains
<1>2. Unused \in Chains /\ \A a \in Names : entry[a] # Unused
    BY Fresh
<1>3. call.a \in Names
    BY DEF CallT
<1>4. Entered(call)[n] = entry[n]
    BY <1>1 DEF Entered
<1>5. entry[n] # 0 => Stored(call, bad)[entry[n]] = chain[entry[n]]
  <2>1. CASE call.do = "create"
      BY <1>1, <1>2, <2>1 DEF Stored
  <2>2. CASE call.do = "write"
    <3>1. entry[call.a] # 0
        BY <2>2 DEF CanSucceed, There
    <3> QED BY <1>1, <1>3, <2>2, <3>1 DEF Stored
  <2>3. CASE call.do = "sync"
    <3>1. entry[call.a] # 0
        BY <2>3 DEF CanSucceed, There
    <3> QED BY <1>1, <1>3, <2>3, <3>1 DEF Stored
  <2>4. CASE call.do = "unlink" /\ There(call.a)
      BY <1>1, <1>3, <2>4 DEF Stored, There
  <2>5. CASE ~(call.do \in {"create", "write", "sync"}) /\ ~(call.do = "unlink" /\ There(call.a))
      BY <2>5 DEF Stored
  <2> QED BY <2>1, <2>2, <2>3, <2>4, <2>5
<1> QED BY <1>4, <1>5

\* The fields of a call.
LEMMA CallFields == \A do, a : LET c == Call(do, a) IN c.do = do /\ c.a = a /\ c.to = "" /\ c.of = 0
BY DEF Call

\* The fields of a call for an upload.
LEMMA CallOfFields ==
    \A do, a, up : LET c == CallOf(do, a, up) IN c.do = do /\ c.a = a /\ c.to = "" /\ c.of = up
BY DEF CallOf

\* The fields of the three renames.
LEMMA RenameFields ==
    /\ SetsAside.do = "rename" /\ SetsAside.a = "target" /\ SetsAside.to = "backup"
    /\ PutsInPlace.do = "rename" /\ PutsInPlace.a = "part" /\ PutsInPlace.to = "target"
    /\ PutsBack.do = "rename" /\ PutsBack.a = "backup" /\ PutsBack.to = "target"
BY DEF SetsAside, PutsInPlace, PutsBack, Rename

\* A call of BEGIN that succeeds leaves the rest in order.
LEMMA BeginAdvances ==
    ASSUME SvcTypes, WorkTypes, CardInv, BeginInv, NEW call, NEW bad \in BOOLEAN, Makes(call, bad)
    PROVE  BeginInv'
<1>1. /\ work' \in WorkT /\ work.ok' = work.ok
      /\ CallsLeft' \in Seq(CallT) /\ Len(CallsLeft) \in Nat \ {0} /\ Len(CallsLeft') = Len(CallsLeft) - 1
      /\ \A i \in Places' : i \in Nat \ {0} /\ i + 1 \in Places /\ CallsLeft'[i] = CallsLeft[i + 1]
      /\ call \in CallT /\ 1 \in Places
    BY MovesUp
<1>2. \A i \in Places' :
        IF i = Len(CallsLeft') THEN CallsLeft'[i] = CallOf("create", "part", work.ok.up)
        ELSE CallsLeft'[i] \in {CallOf("create", "meta", work.ok.up), Call("write", "meta"), Call("sync", "meta")}
    BY <1>1 DEF BeginInv
<1>3. ASSUME CallsLeft' = << >> PROVE StagedBy(work.ok.up)' /\ At("part").n' = 0
  <2>1. Len(CallsLeft) = 1
      BY <1>1, <1>3
  <2>2. call = CallOf("create", "part", work.ok.up)
      BY <1>1, <2>1 DEF BeginInv, Makes
  <2>3. call.do = "create" /\ call.a = "part" /\ call.of = work.ok.up
    <3>1. \A up : LET c == CallOf("create", "part", up) IN c.do = "create" /\ c.a = "part" /\ c.of = up
        BY DEF CallOf
    <3> QED BY <2>2, <3>1
  <2>4. Unused \in Chains /\ Unused # 0
      BY Fresh DEF Chains
  <2>5. entry' = [entry EXCEPT !["part"] = Unused]
      BY <2>3 DEF Makes, Entered
  <2>6. chain' = [chain EXCEPT ![Unused] = [Contents(work.ok.up, 0) EXCEPT !.fast = svc.fast]]
      BY <2>3 DEF Makes, Stored
  <2>7. entry'["part"] = Unused /\ chain'[Unused] = [Contents(work.ok.up, 0) EXCEPT !.fast = svc.fast]
      BY <2>4, <2>5, <2>6 DEF CardInv, Sound, Names
  <2>8. chain'[Unused].of = work.ok.up /\ chain'[Unused].n = 0 /\ ~chain'[Unused].freed
      BY <2>7 DEF Contents
  <2> HIDE DEF Unused
  <2> QED BY <1>1, <2>4, <2>7, <2>8 DEF StagedBy, There, At
<1>4. /\ work.ok.active' /\ work.ok.on' /\ ~work.ok.finished' /\ work.ok.offset' = 0 /\ work.ok.up' = work.ok.up
    BY <1>1 DEF BeginInv
<1> QED BY <1>2, <1>3, <1>4 DEF BeginInv

\* The one call of WRITE leaves the stage with as many chunks as the offset.
LEMMA WriteAdvances ==
    ASSUME WorkTypes, CardInv, WriteInv, NEW call, NEW bad \in BOOLEAN, Makes(call, bad)
    PROVE  WriteInv'
<1>1. /\ work' \in WorkT /\ work.ok' = work.ok
      /\ CallsLeft' \in Seq(CallT) /\ Len(CallsLeft) \in Nat \ {0} /\ Len(CallsLeft') = Len(CallsLeft) - 1
      /\ \A i \in Places' : i \in Nat \ {0} /\ i + 1 \in Places /\ CallsLeft'[i] = CallsLeft[i + 1]
      /\ call \in CallT /\ 1 \in Places /\ work.ok.offset \in 0 .. Size
    BY MovesUp DEF WorkT, SvcT
<1>2. Len(CallsLeft) = 1 /\ Len(CallsLeft') = 0 /\ Places' = {} /\ work.ok.up' = work.ok.up /\ work.ok.offset' = work.ok.offset
    BY <1>1 DEF WriteInv, Places
<1>3. call = Call("write", "part")
    BY <1>1 DEF WriteInv, Makes
<1>4. call.do = "write" /\ call.a = "part"
    BY <1>3, CallFields
<1>5. entry' = entry
    BY <1>4 DEF Makes, Entered
<1>6. chain' = [chain EXCEPT ![entry["part"]].n = @ + 1, ![entry["part"]].bad = @ \/ bad]
    BY <1>4 DEF Makes, Stored
<1>7. /\ entry["part"] # 0 /\ entry["part"] \in Chains /\ ~chain[entry["part"]].freed
      /\ chain[entry["part"]].of = work.ok.up /\ chain[entry["part"]].n = work.ok.offset - 1
    BY <1>2 DEF WriteInv, StagedBy, There, At, CardInv, Sound, Names, Chains
<1>8. chain \in [Chains -> ContentsT] /\ chain[entry["part"]] \in ContentsT
    BY <1>7 DEF CardInv, Sound
<1>9. /\ ~chain'[entry["part"]].freed
      /\ chain'[entry["part"]].of = chain[entry["part"]].of
      /\ chain'[entry["part"]].n = chain[entry["part"]].n + 1
    BY <1>6, <1>7, <1>8 DEF ContentsT
<1>10. At("part").n' = work.ok.offset' - Len(CallsLeft')
  <2>1. work.ok.offset' - Len(CallsLeft') = work.ok.offset /\ work.ok.offset - 1 + 1 = work.ok.offset
      BY <1>1, <1>2, SdServiceAssumption
  <2> QED BY <1>5, <1>7, <1>9, <2>1 DEF At
<1>11. StagedBy(work.ok.up)'
    BY <1>2, <1>5, <1>7, <1>9 DEF StagedBy, There, At
<1>12. work.ok.active' /\ work.ok.on' /\ ~work.ok.finished'
    BY <1>1 DEF WriteInv
<1> QED BY <1>2, <1>10, <1>11, <1>12 DEF WriteInv

\* The sync of FINISH leaves a stage that is full on the card.
LEMMA FinishAdvances ==
    ASSUME WorkTypes, CardInv, FinishInv, NEW call, NEW bad \in BOOLEAN, Makes(call, bad)
    PROVE  FinishInv'
<1>1. /\ work' \in WorkT /\ work.ok' = work.ok
      /\ CallsLeft' \in Seq(CallT) /\ Len(CallsLeft) \in Nat \ {0} /\ Len(CallsLeft') = Len(CallsLeft) - 1
      /\ \A i \in Places' : i \in Nat \ {0} /\ i + 1 \in Places /\ CallsLeft'[i] = CallsLeft[i + 1]
      /\ call \in CallT /\ 1 \in Places
    BY MovesUp
<1>2. \A i \in Places' : CallsLeft'[i].do = "digest"
    BY <1>1 DEF FinishInv
<1>3. /\ entry["part"] # 0 /\ entry["part"] \in Chains /\ ~chain[entry["part"]].freed
      /\ chain[entry["part"]].of = work.ok.up /\ chain[entry["part"]].n = Size
      /\ chain \in [Chains -> ContentsT] /\ chain[entry["part"]] \in ContentsT
    BY DEF FinishInv, StagedBy, There, At, CardInv, Sound, Names, Chains
<1>4. Call("sync", "part").do = "sync" /\ Call("sync", "part").a = "part"
    BY DEF Call
<1>5. /\ entry' = entry /\ ~chain'[entry["part"]].freed /\ chain'[entry["part"]].of = work.ok.up
      /\ chain'[entry["part"]].n = Size /\ chain'[entry["part"]].kept = Size
  <2>1. CASE call = Call("sync", "part")
    <3>1. entry' = entry
        BY <1>4, <2>1 DEF Makes, Entered
    <3>2. chain' = [chain EXCEPT ![entry["part"]].kept = chain[entry["part"]].n]
        BY <1>4, <2>1 DEF Makes, Stored
    <3> QED BY <1>3, <3>1, <3>2 DEF ContentsT
  <2>2. CASE call # Call("sync", "part")
    <3>1. call.do = "digest" /\ chain[entry["part"]].kept = Size
        BY <1>1, <2>2 DEF FinishInv, Makes, At
    <3>2. entry' = entry /\ chain' = chain
        BY <3>1 DEF Makes, Entered, Stored
    <3> QED BY <1>3, <3>1, <3>2
  <2> QED BY <2>1, <2>2
<1>6. StagedBy(work.ok.up)' /\ At("part").n' = Size /\ At("part").kept' = Size
    BY <1>1, <1>3, <1>5 DEF StagedBy, There, At
<1>7. work.ok.active' /\ work.ok.on' /\ work.ok.finished'
    BY <1>1 DEF FinishInv
<1> QED BY <1>2, <1>6, <1>7 DEF FinishInv

\* A rename of ACTIVATE that succeeds leaves what the next call relies on, and a digest checks it.
LEMMA ActivateAdvances ==
    ASSUME WorkTypes, CardInv, ActivateInv, NEW call, NEW bad \in BOOLEAN, Makes(call, bad)
    PROVE  ActivateInv'
<1>1. /\ work' \in WorkT /\ work.ok' = work.ok /\ svc' = svc
      /\ CallsLeft' \in Seq(CallT) /\ Len(CallsLeft) \in Nat \ {0} /\ Len(CallsLeft') = Len(CallsLeft) - 1
      /\ \A i \in Places' : i \in Nat \ {0} /\ i + 1 \in Places /\ CallsLeft'[i] = CallsLeft[i + 1]
      /\ call \in CallT /\ 1 \in Places /\ Places = 1 .. Len(CallsLeft) /\ Places' = 1 .. Len(CallsLeft')
    BY MovesUp DEF Makes, Places
<1>2. ~work.ok.active' /\ Checks' = Checks /\ work.ok.up' = work.ok.up /\ svc.fast' = svc.fast
    BY <1>1 DEF ActivateInv, Checks
<1>3. call = CallsLeft[1] /\ CanSucceed(call)
    BY DEF Makes
<1>4. Checked /\ call # Checks => Checked'
  <2> SUFFICES ASSUME Checked, call # Checks, ~svc.fast PROVE \E i \in Places' : CallsLeft'[i] = Checks
      BY <1>1, <1>2 DEF Checked
  <2>1. PICK i \in Places : CallsLeft[i] = Checks
      BY DEF Checked
  <2>2. i # 1 /\ i - 1 \in Places' /\ i - 1 + 1 = i
      BY <1>1, <1>3, <2>1
  <2> QED BY <1>1, <2>1, <2>2
<1>5. /\ Checks.do = "digest" /\ Checks.a = "target" /\ Checks.to = "" /\ Checks.of = work.ok.up
      /\ Call("unlink", "meta").do = "unlink" /\ Call("unlink", "meta").a = "meta" /\ Call("unlink", "meta").to = ""
    BY DEF Checks, CallOf, Call
<1>6. CASE call = SetsAside /\ StagedBy(work.ok.up) /\ Full(At("part")) /\ Checked
           /\ Len(CallsLeft) > 1 /\ CallsLeft[2] = PutsInPlace /\ \A i \in 3 .. Len(CallsLeft) : Ends(i)
  <2>1. Entered(call)["part"] = entry["part"] /\ (entry["part"] # 0 => Stored(call, bad)[entry["part"]] = chain[entry["part"]])
      BY <1>1, <1>3, <1>6, NameStays, RenameFields DEF Names
  <2>2. StagedBy(work.ok.up)' /\ Full(At("part"))'
      BY <1>2, <1>6, <2>1 DEF StagedBy, There, At, Full, Makes
  <2>3. CallsLeft' # << >> /\ CallsLeft'[1] = PutsInPlace /\ \A i \in 2 .. Len(CallsLeft') : CallsLeft'[i] \in {Checks, Call("unlink", "meta")}
      BY <1>1, <1>6 DEF Ends
  <2>4. Checked'
      BY <1>4, <1>5, <1>6, RenameFields
  <2> QED BY <1>2, <2>2, <2>3, <2>4 DEF ActivateInv, Ends
<1>7. CASE call = PutsInPlace /\ StagedBy(work.ok.up) /\ Full(At("part")) /\ Checked
           /\ \A i \in 2 .. Len(CallsLeft) : Ends(i)
  <2>1. call.do = "rename" /\ call.a = "part" /\ call.to = "target"
      BY <1>7, RenameFields
  <2>2. entry' = [entry EXCEPT !["part"] = 0, !["target"] = entry["part"]] /\ chain' = chain
      BY <2>1 DEF Makes, Entered, Stored
  <2>3. entry'["target"] = entry["part"] /\ entry["part"] # 0 /\ chain[entry["part"]].of = work.ok.up
      BY <1>7, <2>2 DEF CardInv, Sound, Names, StagedBy, There, At
  <2>4. There("target")' /\ At("target").of' = work.ok.up
      BY <2>2, <2>3 DEF There, At
  <2>5. \A i \in Places' : CallsLeft'[i] \in {Checks, Call("unlink", "meta")}
      BY <1>1, <1>7 DEF Ends
  <2>6. Checked'
      BY <1>4, <1>5, <1>7, RenameFields
  <2> QED BY <1>2, <2>4, <2>5, <2>6 DEF ActivateInv, Ends
<1>8. CASE There("target") /\ At("target").of = work.ok.up /\ (\A i \in Places : Ends(i))
           /\ (Checked \/ Matches(At("target"), work.ok.up))
  <2>1. call = Checks \/ call = Call("unlink", "meta")
      BY <1>1, <1>3, <1>8 DEF Ends
  <2>2. Entered(call)["target"] = entry["target"] /\ (entry["target"] # 0 => Stored(call, bad)[entry["target"]] = chain[entry["target"]])
    <3>1. CASE call = Checks
        BY <1>5, <3>1 DEF Entered, Stored
    <3>2. CASE call = Call("unlink", "meta")
        BY <1>1, <1>3, <1>5, <3>2, NameStays DEF Names
    <3> QED BY <2>1, <3>1, <3>2
  <2>3. There("target")' /\ At("target").of' = work.ok.up /\ (Matches(At("target"), work.ok.up) => Matches(At("target"), work.ok.up)')
      BY <1>2, <1>8, <2>2 DEF There, At, Matches, Makes
  <2>4. \A i \in Places' : CallsLeft'[i] \in {Checks, Call("unlink", "meta")}
      BY <1>1, <1>8 DEF Ends
  <2>5. Checked' \/ Matches(At("target"), work.ok.up)'
    <3>1. CASE call = Checks
        BY <1>3, <1>5, <2>3, <3>1 DEF CanSucceed
    <3>2. CASE call # Checks
        BY <1>4, <1>8, <2>3, <3>2
    <3> QED BY <3>1, <3>2
  <2> QED BY <1>2, <2>3, <2>4, <2>5 DEF ActivateInv, Ends
<1> QED BY <1>3, <1>6, <1>7, <1>8 DEF ActivateInv

\* The calls left of a CANCEL are still calls on the stage and its record.
LEMMA CancelAdvances ==
    ASSUME WorkTypes, CancelInv, NEW call, NEW bad \in BOOLEAN, Makes(call, bad)
    PROVE  CancelInv'
<1>1. /\ work.ok' = work.ok /\ \A i \in Places' : i + 1 \in Places /\ CallsLeft'[i] = CallsLeft[i + 1]
    BY MovesUp
<1> QED BY <1>1 DEF CancelInv

\* While the removal of the backup is left, no call of a recovery removes the target.
LEMMA RecoverAdvances ==
    ASSUME WorkTypes, CardInv, RecoverInv, NEW call, NEW bad \in BOOLEAN, Makes(call, bad)
    PROVE  RecoverInv'
<1>1. /\ work.ok' = work.ok /\ \A i \in Places' : i + 1 \in Places /\ CallsLeft'[i] = CallsLeft[i + 1]
      /\ call \in CallT /\ 1 \in Places /\ call = CallsLeft[1] /\ CanSucceed(call)
    BY MovesUp DEF Makes
<1>2. \/ call \in {PutsBack, Call("unlink", "part"), Call("unlink", "meta"), Call("unlink", "backup")}
      \/ call.do \in {"size", "digest", "read"}
    BY <1>1 DEF RecoverInv
<1>3. There("target") => There("target")'
  <2>1. CASE call \in {Call("unlink", "part"), Call("unlink", "meta"), Call("unlink", "backup")}
    <3>1. call.a # "target" /\ call.to # "target"
      <4>1. \A a \in {"part", "meta", "backup"} : LET c == Call("unlink", a) IN c.a = a /\ c.to = ""
          BY DEF Call
      <4> QED BY <2>1, <4>1
    <3>2. Entered(call)["target"] = entry["target"]
        BY <1>1, <3>1, NameStays DEF Names
    <3> QED BY <3>2 DEF There, Makes
  <2>2. CASE call = PutsBack
    <3>1. ~There("target")
        BY <1>1, <2>2, RenameFields DEF CanSucceed
    <3> QED BY <3>1
  <2>3. CASE call.do \in {"size", "digest", "read"}
      BY <2>3 DEF Makes, Entered, There
  <2> QED BY <1>2, <2>1, <2>2, <2>3
<1>4. (\E i \in Places' : CallsLeft'[i] = Call("unlink", "backup")) => There("target")
    BY <1>1 DEF RecoverInv
<1>5. ~work.ok.active' /\ \A i \in Places' :
        \/ CallsLeft'[i] \in {PutsBack, Call("unlink", "part"), Call("unlink", "meta"), Call("unlink", "backup")}
        \/ CallsLeft'[i].do \in {"size", "digest", "read"}
    BY <1>1 DEF RecoverInv
<1> QED BY <1>3, <1>4, <1>5 DEF RecoverInv

\* A call of FatFs that succeeds, with or without a bad block.
LEMMA SucceedsKeeps == ASSUME Plain, Succeeds PROVE Plain'
<1> USE DEF Plain
<1>1. PICK call, bad : bad \in BOOLEAN /\ Makes(call, bad) /\ faults' \in {faults, faults + 1}
  <2>1. work # << >> /\ CallsLeft # << >> /\ CanSucceed(CallsLeft[1])
      BY DEF Succeeds, CallsLeft
  <2>2. PICK bad \in BOOLEAN : entry' = Entered(CallsLeft[1]) /\ chain' = Stored(CallsLeft[1], bad) /\ faults' \in {faults, faults + 1}
      BY DEF Succeeds, CallsLeft
  <2> QED BY <2>1, <2>2 DEF Succeeds, Makes
<1>2. /\ work' \in WorkT /\ work' # << >> /\ work.op' = work.op /\ work.ok' = work.ok /\ work.bad' = work.bad
      /\ call \in CallT /\ call = CallsLeft[1] /\ work # << >> /\ CallsLeft # << >> /\ CanSucceed(call)
      /\ UNCHANGED <<svc, cached, told>>
    BY <1>1, MovesUp DEF Makes
<1>3. CardInv'
  <2>1. MayBe(call)
      BY <1>2, NextCall
  <2>2. Sound(Entered(call), Stored(call, bad))
      BY <1>1, <1>2, <2>1, CallIsSound
  <2>3. \A e, c : Sound(e, c) /\ entry' = e /\ chain' = c => CardInv'
      BY <1>2, CardLater
  <2> QED BY <1>1, <2>2, <2>3 DEF Makes
<1>4. RequestInv'
    BY <1>1, <1>2, BeginAdvances, WriteAdvances, FinishAdvances, ActivateAdvances, CancelAdvances, RecoverAdvances
       DEF RequestInv, WorkInv
<1>5. WorkInv'
    BY <1>2, <1>4 DEF WorkInv
<1>6. SvcTypes'
    BY <1>1, <1>2 DEF SvcTypes
<1> QED BY <1>2, <1>3, <1>5, <1>6 DEF WorkTypes, IdleInv, RepeatInv

-----------------------------------------------------------------------------
(* A file with two names.                                                  *)

\* Half a rename leaves the file with both names.
LEMMA HalfRename ==
    ASSUME SvcTypes, CardInv, NEW call \in CallT, MayBe(call), CanSucceed(call), call.do = "rename"
    PROVE  TwinCard(Aliased(call), chain)
<1>1. /\ entry \in [Names -> 0 .. 5] /\ chain \in [Chains -> ContentsT] /\ Names = {"target", "part", "meta", "backup"}
      /\ Sound(entry, chain)
    BY DEF CardInv, Sound, Names
<1>2. Sound(Entered(call), chain)
    BY CallIsSound
<1>3. CASE call = SetsAside
  <2>1. call.a = "target" /\ call.to = "backup"
      BY <1>3, RenameFields
  <2>2. entry["target"] # 0 /\ entry["backup"] = 0
      BY <2>1 DEF CanSucceed, There
  <2>3. Aliased(call) = [entry EXCEPT !["backup"] = entry["target"]]
      BY <2>1 DEF Aliased
  <2>4. [Aliased(call) EXCEPT !["backup"] = 0] = entry
      BY <1>1, <2>2, <2>3
  <2>5. Aliased(call)["backup"] = Aliased(call)["target"] /\ Aliased(call)["target"] # 0 /\ Aliased(call) \in [Names -> 0 .. 5]
      BY <1>1, <2>2, <2>3
  <2> QED BY <1>1, <2>4, <2>5 DEF TwinCard
<1>4. ASSUME NEW x \in {"part", "backup"}, call.a = x, call.to = "target" PROVE TwinCard(Aliased(call), chain)
  <2>1. entry[x] # 0 /\ entry["target"] = 0
      BY <1>4 DEF CanSucceed, There
  <2>2. Aliased(call) = [entry EXCEPT !["target"] = entry[x]]
      BY <1>4 DEF Aliased
  <2>3. Entered(call) = [entry EXCEPT ![x] = 0, !["target"] = entry[x]]
      BY <1>4 DEF Entered
  <2>4. [Aliased(call) EXCEPT ![x] = 0] = Entered(call)
      BY <1>1, <2>2, <2>3
  <2>5. Aliased(call)[x] = Aliased(call)["target"] /\ Aliased(call)["target"] # 0 /\ Aliased(call) \in [Names -> 0 .. 5]
      BY <1>1, <2>1, <2>2
  <2> QED BY <1>2, <2>4, <2>5 DEF TwinCard
<1>5. call = SetsAside \/ call = PutsInPlace \/ call = PutsBack
    BY DEF MayBe
<1> QED BY <1>3, <1>4, <1>5, RenameFields

\* What there is of a card with a twin.
LEMMA TwinIs ==
    ASSUME NEW e, NEW c, TwinCard(e, c)
    PROVE  /\ e \in [Names -> 0 .. 5] /\ c \in [Chains -> ContentsT]
           /\ e["target"] # 0 /\ e["target"] \in Chains /\ Whole(c[e["target"]])
           /\ e["part"] # 0 \/ e["backup"] # 0
<1>1. PICK x \in {"part", "backup"} :
        e \in [Names -> 0 .. 5] /\ e[x] = e["target"] /\ e["target"] # 0 /\ Sound([e EXCEPT ![x] = 0], c)
    BY DEF TwinCard
<1>2. [e EXCEPT ![x] = 0]["target"] = e["target"]
    BY <1>1 DEF Names
<1> QED BY <1>1, <1>2 DEF Sound, Names, Chains

\* The card with a twin, of a step that tells nobody of an activation.
LEMMA TwinLater ==
    ASSUME NEW e, NEW c, TwinCard(e, c), entry' = e, chain' = c, told' = told, cached' = cached \/ ~Repeats'
    PROVE  TwinCard(entry, chain)'
<1>1. \A k : Whole(k) => ~k.freed /\ k.kept = Size /\ k.n = Size /\ told' <= k.of /\ (Repeats' => cached'.up <= k.of)
    BY DEF Whole, Repeats
<1>2. PICK x \in {"part", "backup"} :
        e \in [Names -> 0 .. 5] /\ e[x] = e["target"] /\ e["target"] # 0 /\ Sound([e EXCEPT ![x] = 0], c)
    BY DEF TwinCard
<1>3. Sound([entry EXCEPT ![x] = 0], chain)'
    BY <1>1, <1>2 DEF Sound, Whole
<1> QED BY <1>2, <1>3 DEF TwinCard

\* A call of a recovery leaves the twin, takes it away, or frees the target's clusters with it.
TargetFreed(e, c) == e["target"] # 0 /\ e["target"] \in Chains /\ c[e["target"]].freed /\ c[e["target"]].kept = Size
LEMMA SpareCall ==
    ASSUME TwinCard(entry, chain), NEW call \in CallT, Spares(call), NEW bad \in BOOLEAN
    PROVE  /\ TwinCard(Entered(call), chain) \/ Sound(Entered(call), chain)
           /\ TwinCard(Entered(call), Stored(call, bad)) \/ TargetFreed(Entered(call), Stored(call, bad))
<1>1. PICK x \in {"part", "backup"} :
        /\ entry \in [Names -> 0 .. 5] /\ entry[x] = entry["target"] /\ entry["target"] # 0
        /\ Sound([entry EXCEPT ![x] = 0], chain)
    BY DEF TwinCard
<1>2. /\ chain \in [Chains -> ContentsT] /\ Whole(chain[entry["target"]]) /\ entry["target"] \in Chains
      /\ Names = {"target", "part", "meta", "backup"}
    BY TwinIs DEF Names
<1>3. CASE call.do \in {"size", "digest", "read"}
    BY <1>3 DEF Entered, Stored
<1>4. ASSUME NEW a \in {"part", "meta", "backup"}, call.do = "unlink", call.a = a
      PROVE  /\ TwinCard(Entered(call), chain) \/ Sound(Entered(call), chain)
             /\ TwinCard(Entered(call), Stored(call, bad)) \/ TargetFreed(Entered(call), Stored(call, bad))
  <2>1. Entered(call) = [entry EXCEPT ![a] = 0]
      BY <1>4 DEF Entered
  <2>2. CASE entry[a] = 0
    <3>1. Entered(call) = entry
        BY <1>1, <1>2, <2>1, <2>2
    <3>2. Stored(call, bad) = chain
        BY <1>4, <2>2 DEF Stored, There
    <3> QED BY <3>1, <3>2
  <2>3. CASE entry[a] # 0
    <3>1. Stored(call, bad) = [chain EXCEPT ![entry[a]].freed = TRUE]
        BY <1>4, <2>3 DEF Stored, There
    <3>2. CASE a = x
      <4>1. Sound(Entered(call), chain)
          BY <1>1, <2>1, <3>2
      <4>2. Entered(call)["target"] = entry["target"]
          BY <1>1, <1>2, <2>1, <1>4
      <4>3. Stored(call, bad)[entry["target"]] = [chain[entry["target"]] EXCEPT !.freed = TRUE]
          BY <1>1, <1>2, <3>1, <3>2
      <4>4. chain[entry["target"]] \in ContentsT /\ chain[entry["target"]].kept = Size
          BY <1>2 DEF Whole
      <4>5. TargetFreed(Entered(call), Stored(call, bad))
          BY <1>1, <1>2, <4>2, <4>3, <4>4 DEF TargetFreed, ContentsT
      <4> QED BY <4>1, <4>5
    <3>3. CASE a # x
      <4> DEFINE f == [entry EXCEPT ![x] = 0]
                 g == [Entered(call) EXCEPT ![x] = 0]
      <4>1. /\ f \in [Names -> 0 .. 5] /\ f["target"] = entry["target"] /\ f[a] = entry[a]
            /\ \A m, n \in Names : f[m] = f[n] /\ f[m] # 0 => m = n
            /\ Sound(f, chain)
          BY <1>1, <1>2, <3>3 DEF Sound
      <4>2. entry[a] # entry["target"] /\ entry[a] \in Chains
          BY <1>1, <1>2, <1>4, <2>3, <4>1 DEF Chains
      <4>3. g = [f EXCEPT ![a] = 0]
          BY <1>1, <1>2, <2>1, <3>3
      <4> HIDE DEF f, g
      <4>4. /\ g \in [Names -> 0 .. 5] /\ g["target"] = entry["target"]
            /\ \A m, n \in Names : g[m] = g[n] /\ g[m] # 0 => m = n
          BY <1>2, <1>4, <4>1, <4>3
      <4>5. Sound(g, chain)
          BY <1>1, <1>2, <4>4 DEF Sound
      <4>6. /\ Stored(call, bad) \in [Chains -> ContentsT]
            /\ Stored(call, bad)[entry["target"]] = chain[entry["target"]]
          BY <1>2, <3>1, <4>2 DEF ContentsT
      <4>7. Sound(g, Stored(call, bad))
          BY <1>1, <1>2, <4>4, <4>6 DEF Sound
      <4>8. /\ Entered(call) \in [Names -> 0 .. 5] /\ Entered(call)[x] = Entered(call)["target"]
            /\ Entered(call)["target"] # 0
          BY <1>1, <1>2, <1>4, <2>1, <3>3
      <4> QED BY <4>5, <4>7, <4>8 DEF TwinCard, g
    <3> QED BY <3>2, <3>3
  <2> QED BY <2>2, <2>3
<1> QED BY <1>3, <1>4 DEF Spares

\* A cut leaves the twin, for it has the target's length.
LEMMA TwinCut ==
    ASSUME NEW e, NEW c, TwinCard(e, c), NEW gone \in SUBSET {a \in Names : e[a] # 0 /\ c[e[a]].kept = 0}
    PROVE  TwinCard(Kept(e, gone), Synced(c))
<1>1. PICK x \in {"part", "backup"} :
        e \in [Names -> 0 .. 5] /\ e[x] = e["target"] /\ e["target"] # 0 /\ Sound([e EXCEPT ![x] = 0], c)
    BY DEF TwinCard
<1> DEFINE f == [e EXCEPT ![x] = 0]
<1>2. c \in [Chains -> ContentsT] /\ Whole(c[e["target"]]) /\ Names = {"target", "part", "meta", "backup"}
    BY TwinIs DEF Names
<1>3. Kept(e, gone)["target"] = e["target"] /\ c[e["target"]].kept # 0
    BY <1>1, <1>2, WholeIsKept
<1>4. x \notin gone
    BY <1>1, <1>3
<1>5. Kept(e, gone)[x] = e["target"]
    BY <1>1, <1>2, <1>4 DEF Kept
<1>6. gone \in SUBSET {a \in Names : f[a] # 0 /\ c[f[a]].kept = 0}
    BY <1>1, <1>2, <1>4
<1>7. [Kept(e, gone) EXCEPT ![x] = 0] = Kept(f, gone)
    BY <1>1, <1>2, <1>4 DEF Kept
<1>8. Sound(f, c)
    BY <1>1
<1> HIDE DEF f
<1>9. Sound(Kept(f, gone), Synced(c))
    BY <1>6, <1>8, CutIsSound
<1>10. Kept(e, gone) \in [Names -> 0 .. 5]
    BY <1>1 DEF Kept
<1> QED BY <1>1, <1>3, <1>5, <1>7, <1>9, <1>10 DEF TwinCard

\* A file whose clusters were freed is still entered after a cut.
LEMMA LostIsFound ==
    ASSUME NEW e, NEW c, TargetFreed(e, c), NEW gone \in SUBSET {a \in Names : e[a] # 0 /\ c[e[a]].kept = 0},
           c \in [Chains -> ContentsT]
    PROVE  TargetFreed(Kept(e, gone), Synced(c))
<1>1. "target" \notin gone /\ "target" \in Names
    BY SdServiceAssumption DEF TargetFreed, Names
<1>2. Kept(e, gone)["target"] = e["target"]
    BY <1>1 DEF Kept
<1>3. Synced(c)[e["target"]] = [c[e["target"]] EXCEPT !.n = c[e["target"]].kept] /\ c[e["target"]] \in ContentsT
    BY DEF Synced, TargetFreed
<1> QED BY <1>2, <1>3 DEF TargetFreed, ContentsT

\* From then on nothing is promised.
LEMMA LostDangles == ASSUME Dangles, TargetFreed(entry, chain)' PROVE dangling'
BY DEF Dangles, TargetFreed, There, At, Names

-----------------------------------------------------------------------------
(* The other steps.                                                        *)

\* A request that ends in ERROR.
LEMMA FailedTypes ==
    ASSUME SvcTypes, WorkTypes, Fails, ~work.bad.active, svc.up <= work.bad.up
    PROVE  SvcTypes' /\ WorkTypes' /\ ~Repeats' /\ ~svc'.active /\ work' = << >>
<1>1. /\ work # << >> /\ work' = << >> /\ svc' = work.bad /\ told' = told
      /\ cached' = [op |-> work.op, res |-> "ERROR", up |-> work.bad.up]
      /\ faults' \in {faults, faults + 1}
    BY DEF Fails
<1>2. work.bad \in SvcT /\ work.bad.up \in Nat /\ work.op \in ServiceOps
    BY <1>1 DEF WorkTypes, WorkT, SvcT
<1>3. SvcTypes'
    BY <1>1, <1>2 DEF SvcTypes, SvcT, ReplyT, Results
<1> QED BY <1>1, <1>3 DEF Repeats, WorkTypes

\* A call that fails: service.c closes the session and answers ERROR.  Half a rename
\* leaves a file with two names.
LEMMA CallFailsKeeps == ASSUME Plain, Fails PROVE Plain' \/ Twin'
<1> USE DEF Plain
<1>1. /\ work # << >> /\ CallsLeft # << >> /\ svc' = work.bad /\ told' = told
      /\ \/ UNCHANGED <<entry, chain>>
         \/ CanSucceed(CallsLeft[1]) /\ entry' = Entered(CallsLeft[1]) /\ chain' = Stored(CallsLeft[1], FALSE)
         \/ CanSucceed(CallsLeft[1]) /\ CallsLeft[1].do = "rename" /\ entry' = Aliased(CallsLeft[1]) /\ chain' = chain
    BY DEF Fails, CallsLeft
<1>2. CallsLeft[1] \in CallT /\ MayBe(CallsLeft[1])
    BY <1>1, NextCall
<1>3. SvcTypes' /\ WorkTypes' /\ ~Repeats' /\ ~svc'.active /\ work' = << >>
    BY <1>1, FailedTypes DEF WorkInv
<1>4. CASE UNCHANGED <<entry, chain>>
      \/ (CanSucceed(CallsLeft[1]) /\ entry' = Entered(CallsLeft[1]) /\ chain' = Stored(CallsLeft[1], FALSE))
  <2>1. \A e, c : Sound(e, c) /\ entry' = e /\ chain' = c => CardInv'
      BY <1>1, <1>3, CardLater
  <2>2. CardInv'
    <3>1. CASE UNCHANGED <<entry, chain>>
        BY <2>1, <3>1 DEF CardInv
    <3>2. CASE CanSucceed(CallsLeft[1]) /\ entry' = Entered(CallsLeft[1]) /\ chain' = Stored(CallsLeft[1], FALSE)
      <4>1. Sound(Entered(CallsLeft[1]), Stored(CallsLeft[1], FALSE))
          BY <1>2, <3>2, CallIsSound
      <4> QED BY <2>1, <3>2, <4>1
    <3> QED BY <1>4, <3>1, <3>2
  <2> QED BY <1>3, <2>2 DEF IdleInv, Staged, WorkInv, RepeatInv
<1>5. CASE CanSucceed(CallsLeft[1]) /\ CallsLeft[1].do = "rename" /\ entry' = Aliased(CallsLeft[1]) /\ chain' = chain
  <2>1. TwinCard(Aliased(CallsLeft[1]), chain)
      BY <1>2, <1>5, HalfRename
  <2>2. \A e, c : TwinCard(e, c) /\ entry' = e /\ chain' = c => TwinCard(entry, chain)'
      BY <1>1, <1>3, TwinLater
  <2>3. TwinCard(entry, chain)'
      BY <1>5, <2>1, <2>2
  <2> QED BY <1>3, <2>3 DEF Twin, TwinWork
<1> QED BY <1>1, <1>4, <1>5

\* A request whose calls are made: the session is as the request leaves it, and the client hears it.
LEMMA RepliesKeeps == ASSUME Plain, Replies PROVE Plain'
<1> USE DEF Plain
<1>1. /\ work # << >> /\ CallsLeft = << >> /\ work' = << >> /\ svc' = work.ok
      /\ cached' = [op |-> work.op, res |-> "OK", up |-> work.ok.up]
      /\ UNCHANGED <<entry, chain, faults>>
      /\ told' = told \/ (work.op = "ACTIVATE" /\ told' = work.ok.up)
    BY DEF Replies, Heard, CallsLeft
<1>2. /\ work \in WorkT /\ work.ok \in SvcT /\ work.ok.up \in Nat /\ svc.up <= work.ok.up /\ work.op \in ServiceOps
      /\ work.ok.fast = svc.fast /\ RequestInv /\ svc.on
    BY <1>1 DEF WorkTypes, WorkInv, WorkT, SvcT
<1>3. Len(CallsLeft) = 0 /\ Places = {}
    BY <1>1 DEF Places
<1>4. told \in Nat /\ told <= svc.up /\ svc.up \in Nat
    BY DEF SvcTypes, SvcT
<1>5. SvcTypes'
    BY <1>1, <1>2, <1>4 DEF SvcTypes, ReplyT, Results
<1>6. work.op = "ACTIVATE" => There("target") /\ At("target").of = work.ok.up /\ (svc.fast \/ Matches(At("target"), work.ok.up))
    BY <1>1, <1>2, <1>3 DEF RequestInv, ActivateInv, Checked
<1>7. CardInv'
  <2>1. CASE work.op # "ACTIVATE"
    <3>1. ~Repeats' /\ told' = told
        BY <1>1, <2>1 DEF Repeats
    <3> QED BY <1>1, <3>1, CardLater DEF CardInv
  <2>2. CASE work.op = "ACTIVATE"
    <3>1. /\ entry["target"] # 0 /\ Whole(chain[entry["target"]]) /\ chain[entry["target"]].of = work.ok.up
        BY <1>6, <2>2 DEF CardInv, Sound, There, At
    <3>2. told' <= work.ok.up /\ cached'.up <= work.ok.up
        BY <1>1, <1>2, <1>4
    <3>3. Whole(chain[entry["target"]])'
        BY <1>1, <3>1, <3>2 DEF Whole
    <3> QED BY <1>1, <3>1, <3>3 DEF CardInv, Sound
  <2> QED BY <2>1, <2>2
<1>8. IdleInv'
  <2>1. work.ok.active => /\ work.ok.on /\ StagedBy(work.ok.up)
                          /\ ~work.ok.finished => At("part").n = work.ok.offset
                          /\ work.ok.finished => Full(At("part"))
    <3>1. CASE work.op = "BEGIN"
        BY <1>1, <1>2, <3>1 DEF RequestInv, BeginInv
    <3>2. CASE work.op = "WRITE"
      <4>1. work.ok.offset - 0 = work.ok.offset
          BY <1>2, SdServiceAssumption DEF SvcT
      <4> QED BY <1>2, <1>3, <3>2, <4>1 DEF RequestInv, WriteInv
    <3>3. CASE work.op = "FINISH"
        BY <1>1, <1>2, <3>3 DEF RequestInv, FinishInv, Full
    <3>4. CASE work.op \in {"ACTIVATE", "CANCEL", "RECOVER"}
        BY <1>2, <3>4 DEF RequestInv, ActivateInv, CancelInv, RecoverInv
    <3> QED BY <1>2, <3>1, <3>2, <3>3, <3>4 DEF ServiceOps
  <2> QED BY <1>1, <2>1 DEF IdleInv, Staged, StagedBy, There, At, Full
<1>9. RepeatInv'
  <2> SUFFICES ASSUME Repeats', ~svc'.fast PROVE There("target")' /\ Matches(At("target"), cached.up)'
      BY DEF RepeatInv
  <2>1. work.op = "ACTIVATE" /\ ~svc.fast /\ cached'.up = work.ok.up
      BY <1>1, <1>2 DEF Repeats
  <2> QED BY <1>1, <1>6, <2>1 DEF There, At, Matches
<1> QED BY <1>1, <1>5, <1>7, <1>8, <1>9 DEF WorkTypes, WorkInv

\* The reply given again to a request received twice tells of what is in place.
LEMMA RepeatedKeeps == ASSUME Plain, Repeated PROVE Plain'
<1> USE DEF Plain
<1>1. /\ UNCHANGED <<entry, chain, svc, work, cached, faults>>
      /\ told' = told \/ (Repeats /\ told' = cached.up)
    BY DEF Repeated, Heard, Repeats
<1>2. told \in 0 .. svc.up /\ svc \in SvcT /\ cached \in ReplyT /\ cached.up <= svc.up
    BY DEF SvcTypes
<1>3. SvcTypes'
  <2>1. told' \in 0 .. svc.up
      BY <1>1, <1>2 DEF ReplyT, SvcT
  <2> QED BY <1>1, <2>1 DEF SvcTypes
<1>4. \A k : Whole(k) => Whole(k)'
    BY <1>1 DEF Whole, Repeats
<1>5. CardInv'
    BY <1>1, <1>4 DEF CardInv, Sound, Whole, Repeats
<1>6. IdleInv' /\ RepeatInv'
    BY <1>1 DEF IdleInv, Staged, StagedBy, There, At, Full, RepeatInv, Repeats, Matches
<1>7. WorkInv' /\ WorkTypes'
    BY <1>1 DEF WorkInv, WorkTypes, Repeated, Idle
<1> QED BY <1>3, <1>5, <1>6, <1>7

\* A service that is switched off has no session.
LEMMA OffIs ==
    ASSUME svc \in SvcT
    PROVE  Off \in SvcT /\ ~Off.active /\ ~Off.on /\ Off.up = svc.up /\ \A n \in Nat : [Off EXCEPT !.up = n] \in SvcT
<1>1. Quiet \in SvcT /\ ~Quiet.active /\ Quiet.up = svc.up
    BY DEF Quiet, SvcT
<1>2. Off \in SvcT /\ ~Off.active /\ ~Off.on /\ Off.up = svc.up
    BY <1>1 DEF Off, SvcT
<1>3. \A k \in SvcT : \A n \in Nat : [k EXCEPT !.up = n] \in SvcT
    BY DEF SvcT
<1> QED BY <1>2, <1>3

\* service.c:service_stop syncs an unfinished stage and closes it.
LEMMA StopKeeps == ASSUME Plain, service_stop PROVE Plain'
<1> USE DEF Plain
<1>1. svc \in SvcT /\ work = << >> /\ svc' = Off /\ UNCHANGED <<entry, work, cached, told, faults>>
    BY DEF SvcTypes, service_stop, Idle
<1>2. Off \in SvcT /\ ~Off.active /\ ~Off.on /\ Off.up = svc.up
    BY <1>1, OffIs
<1>3. CardInv'
  <2>1. \A e, c : Sound(e, c) /\ entry' = e /\ chain' = c => CardInv'
      BY <1>1, CardLater
  <2>2. CASE chain' = chain
      BY <1>1, <2>1, <2>2 DEF CardInv
  <2>3. CASE svc.active /\ ~svc.finished /\ chain' = Stored(Call("sync", "part"), FALSE)
    <3> DEFINE call == Call("sync", "part")
    <3>1. call.do = "sync" /\ call.a = "part" /\ call.to = ""
        BY DEF Call
    <3>2. call \in CallT
        BY CallTypes DEF Kinds, Names
    <3>3. MayBe(call)
        BY Harmless
    <3>4. There("part")
        BY <1>1, <2>3 DEF IdleInv, Staged, StagedBy
    <3> HIDE DEF call
    <3>5. CanSucceed(call) /\ Entered(call) = entry
        BY <3>1, <3>4 DEF CanSucceed, Entered
    <3>6. Sound(Entered(call), Stored(call, FALSE))
        BY <3>2, <3>3, <3>5, CallIsSound
    <3> QED BY <1>1, <2>1, <2>3, <3>5, <3>6 DEF call
  <2> QED BY <2>2, <2>3 DEF service_stop
<1>4. SvcTypes'
    BY <1>1, <1>2 DEF SvcTypes
<1> QED BY <1>1, <1>2, <1>3, <1>4 DEF WorkTypes, IdleInv, Staged, WorkInv, RepeatInv

\* service.c:service_init starts with no session and a fresh reply.
LEMMA InitKeeps == ASSUME Plain, service_init PROVE Plain'
<1> USE DEF Plain
<1>1. ~svc.on /\ work = << >> /\ ~svc.active /\ svc \in SvcT /\ svc.up \in Nat
    BY DEF service_init, WorkInv, IdleInv, Staged, SvcTypes, SvcT
<1>2. /\ cached' = [op |-> "HELLO", res |-> "OK", up |-> svc.up]
      /\ UNCHANGED <<entry, chain, work, told, faults>>
    BY DEF service_init
<1>3. svc' \in SvcT /\ ~svc'.active /\ svc'.up = svc.up
    BY <1>1 DEF service_init, SvcT
<1>4. ~Repeats'
    BY <1>2 DEF Repeats
<1>5. CardInv'
    BY <1>2, <1>4, CardLater DEF CardInv
<1>6. SvcTypes'
    BY <1>1, <1>2, <1>3 DEF SvcTypes, ReplyT, Results
<1> QED BY <1>1, <1>2, <1>3, <1>4, <1>5, <1>6 DEF WorkTypes, IdleInv, Staged, WorkInv, RepeatInv

\* The call that the power finds: the next one of the request, or none.
Found(call) ==
  \/ call = Call("", "target")
  \/ work # << >> /\ CallsLeft # << >> /\ call = CallsLeft[1] /\ CanSucceed(call)
Half(call, e) == call.do = "rename" /\ e = Aliased(call)

\* A cut finds the card before the call, after it, with its entries only, or in half a rename.
LEMMA CutFinds ==
    ASSUME PowerCut
    PROVE  \E call : Found(call) /\
             \E e, c : \E gone \in SUBSET {a \in Names : e[a] # 0 /\ c[e[a]].kept = 0} :
               /\ e \in {entry, Entered(call)} \/ Half(call, e)
               /\ c \in {chain, Stored(call, FALSE)} /\ (c # chain => e = Entered(call))
               /\ entry' = Kept(e, gone) /\ chain' = Synced(c)
<1> DEFINE call  == IF work = << >> \/ work.calls = << >> THEN Call("", "target") ELSE work.calls[1]
           doing == IF CanSucceed(call) THEN call ELSE Call("", "target")
<1>1. Found(doing)
    BY DEF Found, CallsLeft
<1>2. \E e \in {entry, Entered(doing)} \cup (IF doing.do = "rename" THEN {Aliased(doing)} ELSE {}) :
        \E c \in {chain, Stored(doing, FALSE)} :
          \E gone \in SUBSET {a \in Names : e[a] # 0 /\ c[e[a]].kept = 0} :
            /\ (c # chain => e = Entered(doing)) /\ (doing.do = "unlink" /\ c # chain => e # entry)
            /\ entry' = [a \in Names |-> IF a \in gone THEN 0 ELSE e[a]]
            /\ chain' = [x \in Chains |-> [c[x] EXCEPT !.n = c[x].kept]]
    BY Zenon DEF PowerCut
<1> HIDE DEF doing
<1>3. PICK e \in {entry, Entered(doing)} \cup (IF doing.do = "rename" THEN {Aliased(doing)} ELSE {}) :
        \E c \in {chain, Stored(doing, FALSE)} :
          \E gone \in SUBSET {a \in Names : e[a] # 0 /\ c[e[a]].kept = 0} :
            /\ (c # chain => e = Entered(doing)) /\ (doing.do = "unlink" /\ c # chain => e # entry)
            /\ entry' = [a \in Names |-> IF a \in gone THEN 0 ELSE e[a]]
            /\ chain' = [x \in Chains |-> [c[x] EXCEPT !.n = c[x].kept]]
    BY <1>2, Zenon
<1>4. PICK c \in {chain, Stored(doing, FALSE)} :
        \E gone \in SUBSET {a \in Names : e[a] # 0 /\ c[e[a]].kept = 0} :
          /\ (c # chain => e = Entered(doing)) /\ (doing.do = "unlink" /\ c # chain => e # entry)
          /\ entry' = [a \in Names |-> IF a \in gone THEN 0 ELSE e[a]]
          /\ chain' = [x \in Chains |-> [c[x] EXCEPT !.n = c[x].kept]]
    BY <1>3, Zenon
<1>5. PICK gone \in SUBSET {a \in Names : e[a] # 0 /\ c[e[a]].kept = 0} :
        (c # chain => e = Entered(doing)) /\ entry' = Kept(e, gone) /\ chain' = Synced(c)
    BY <1>4, Zenon DEF Kept, Synced
<1>6. e \in {entry, Entered(doing)} \/ Half(doing, e)
    BY <1>3 DEF Half
<1> QED BY <1>1, <1>4, <1>5, <1>6

\* After a cut the service is off, its session gone.
LEMMA CutTypes ==
    ASSUME SvcTypes, WorkTypes, work # << >> => svc.up <= work.bad.up, PowerCut
    PROVE  SvcTypes' /\ WorkTypes' /\ ~svc'.active /\ ~svc'.on /\ work' = << >> /\ UNCHANGED <<cached, told>>
<1>1. /\ svc \in SvcT /\ svc.on /\ work' = << >> /\ UNCHANGED <<cached, told>> /\ faults' = faults + 1
      /\ svc' = [Off EXCEPT !.up = IF work = << >> THEN @ ELSE work.bad.up]
    BY DEF SvcTypes, PowerCut
<1>2. svc' \in SvcT /\ ~svc'.active /\ ~svc'.on /\ svc.up <= svc'.up
  <2>1. /\ Off \in SvcT /\ ~Off.active /\ ~Off.on /\ Off.up = svc.up /\ svc.up \in Nat
        /\ \A n \in Nat : [Off EXCEPT !.up = n] \in SvcT
      BY <1>1, OffIs DEF SvcT
  <2>2. CASE work = << >>
    <3>1. svc' = [Off EXCEPT !.up = Off.up]
        BY <1>1, <2>2
    <3> HIDE DEF Off
    <3> QED BY <2>1, <3>1 DEF SvcT
  <2>3. CASE work # << >>
    <3>1. work.bad.up \in Nat /\ svc.up <= work.bad.up
        BY <2>3 DEF WorkTypes, WorkT, SvcT
    <3>2. svc' = [Off EXCEPT !.up = work.bad.up]
        BY <1>1, <2>3
    <3> HIDE DEF Off
    <3> QED BY <2>1, <3>1, <3>2 DEF SvcT
  <2> QED BY <2>2, <2>3
<1>3. SvcTypes'
    BY <1>1, <1>2 DEF SvcTypes, SvcT, ReplyT
<1> QED BY <1>1, <1>2, <1>3 DEF WorkTypes

\* A cut leaves a sound card, or in half a rename a file with two names.
LEMMA PowerCutKeeps == ASSUME Plain, PowerCut PROVE Plain' \/ Twin'
<1> USE DEF Plain
<1>1. SvcTypes' /\ WorkTypes' /\ ~svc'.active /\ ~svc'.on /\ work' = << >> /\ UNCHANGED <<cached, told>>
    BY CutTypes DEF WorkInv
<1>2. PICK call : Found(call) /\
        \E e, c : \E gone \in SUBSET {a \in Names : e[a] # 0 /\ c[e[a]].kept = 0} :
          /\ e \in {entry, Entered(call)} \/ Half(call, e)
          /\ c \in {chain, Stored(call, FALSE)} /\ (c # chain => e = Entered(call))
          /\ entry' = Kept(e, gone) /\ chain' = Synced(c)
    BY CutFinds
<1>3. PICK e, c : \E gone \in SUBSET {a \in Names : e[a] # 0 /\ c[e[a]].kept = 0} :
          /\ e \in {entry, Entered(call)} \/ Half(call, e)
          /\ c \in {chain, Stored(call, FALSE)} /\ (c # chain => e = Entered(call))
          /\ entry' = Kept(e, gone) /\ chain' = Synced(c)
    BY <1>2
<1>4. PICK gone \in SUBSET {a \in Names : e[a] # 0 /\ c[e[a]].kept = 0} :
          /\ e \in {entry, Entered(call)} \/ Half(call, e)
          /\ c \in {chain, Stored(call, FALSE)} /\ (c # chain => e = Entered(call))
          /\ entry' = Kept(e, gone) /\ chain' = Synced(c)
    BY <1>3
<1>5. Call("", "target").do = "" /\ (call # Call("", "target") => call \in CallT /\ MayBe(call) /\ CanSucceed(call))
    BY <1>2, NextCall DEF Found, Call
<1>6. Sound(entry, chain) /\ Sound(Entered(call), chain) /\ Sound(Entered(call), Stored(call, FALSE))
  <2>1. CASE call = Call("", "target")
    <3>1. Entered(call) = entry /\ Stored(call, FALSE) = chain
        BY <1>5, <2>1 DEF Entered, Stored
    <3> QED BY <3>1 DEF CardInv
  <2>2. CASE call # Call("", "target")
      BY <1>5, <2>2, CallIsSound DEF CardInv
  <2> QED BY <2>1, <2>2
<1>7. CASE e \in {entry, Entered(call)}
  <2>1. Sound(e, c)
      BY <1>4, <1>6, <1>7
  <2>2. Sound(Kept(e, gone), Synced(c))
      BY <2>1, CutIsSound
  <2>3. \A f, d : Sound(f, d) /\ entry' = f /\ chain' = d => CardInv'
      BY <1>1, CardLater
  <2>4. CardInv'
      BY <1>4, <2>2, <2>3
  <2> QED BY <1>1, <2>4 DEF IdleInv, Staged, WorkInv, RepeatInv
<1>8. CASE Half(call, e) /\ e # Entered(call)
  <2>1. call.do = "rename" /\ e = Aliased(call) /\ c = chain
      BY <1>4, <1>8 DEF Half
  <2>2. TwinCard(e, c)
      BY <1>5, <2>1, HalfRename
  <2>3. TwinCard(Kept(e, gone), Synced(c))
      BY <2>2, TwinCut
  <2>4. \A f, d : TwinCard(f, d) /\ entry' = f /\ chain' = d => TwinCard(entry, chain)'
      BY <1>1, TwinLater
  <2>5. TwinCard(entry, chain)'
      BY <1>4, <2>3, <2>4
  <2> QED BY <1>1, <2>5 DEF Twin, TwinWork
<1> QED BY <1>4, <1>7, <1>8

-----------------------------------------------------------------------------
(* The steps while a file has two names.                                   *)

\* A request that is refused.
LEMMA TwinRefuses ==
    ASSUME Twin, NEW op \in ServiceOps, Refuse(op, "RECOVERY_REQUIRED")
    PROVE  Twin'
<1>1. cached' = [op |-> op, res |-> "RECOVERY_REQUIRED", up |-> svc.up] /\ UNCHANGED <<entry, chain, svc, work, told, faults>>
    BY DEF Refuse
<1>2. ~Repeats'
    BY <1>1 DEF Repeats
<1>3. SvcTypes' /\ WorkTypes'
    BY <1>1 DEF Twin, SvcTypes, WorkTypes, ReplyT, Results, SvcT
<1>4. TwinCard(entry, chain)'
    BY <1>1, <1>2, TwinLater DEF Twin
<1> QED BY <1>1, <1>2, <1>3, <1>4 DEF Twin, TwinWork, Places, CallsLeft

\* A recovery that is served.
LEMMA TwinServes ==
    ASSUME Twin, Idle, NEW calls \in Seq(CallT), Serve("RECOVER", calls, svc, svc), \A i \in 1 .. Len(calls) : Spares(calls[i])
    PROVE  Twin'
<1>1. /\ work' = [op |-> "RECOVER", calls |-> calls, ok |-> svc, bad |-> svc]
      /\ UNCHANGED <<entry, chain, svc, cached, told, faults>>
    BY DEF Serve
<1>2. work' \in WorkT /\ svc.on /\ CallsLeft' = calls
    BY <1>1 DEF Twin, SvcTypes, WorkT, ServiceOps, Idle, CallsLeft
<1>3. SvcTypes' /\ WorkTypes' /\ (svc'.on => ~Repeats')
    BY <1>1, <1>2 DEF Twin, SvcTypes, WorkTypes, Repeats
<1>4. TwinCard(entry, chain)'
    BY <1>1, TwinLater DEF Twin
<1>5. TwinWork'
    BY <1>1, <1>2 DEF TwinWork, Places
<1> QED BY <1>1, <1>3, <1>4, <1>5 DEF Twin

\* No upload begins or goes on; a recovery keeps the target's name.
LEMMA TwinRequests ==
    ASSUME Twin, Begin \/ Write \/ Finish \/ Activate \/ Cancel \/ Restore \/ Discard \/ DropBackup
    PROVE  Twin'
<1>1. /\ ~svc.active /\ There("target") /\ (There("part") \/ There("backup"))
      /\ entry \in [Names -> 0 .. 5] /\ chain \in [Chains -> ContentsT]
    BY TwinIs DEF Twin, There
<1>2. \A a \in {"part", "meta", "backup"} : Spares(Call("unlink", a))
    BY DEF Spares, Call
<1>3. CASE Begin
    BY <1>1, <1>3, TwinRefuses DEF Begin, ServiceOps
<1>4. CASE Write \/ Finish \/ Activate \/ Cancel
    BY <1>1, <1>4 DEF Write, Finish, Activate, Cancel
<1>5. CASE Restore
    BY <1>1, <1>5, TwinRefuses DEF Restore, ServiceOps
<1>6. CASE Discard
  <2>1. CASE Refuse("RECOVER", "RECOVERY_REQUIRED")
      BY <2>1, TwinRefuses DEF ServiceOps
  <2>2. CASE \E calls \in Seq(CallT) : Serve("RECOVER", calls, svc, svc) /\ Unstages(calls)
    <3>1. PICK calls \in Seq(CallT) : Serve("RECOVER", calls, svc, svc) /\ Unstages(calls)
        BY <2>2
    <3>2. \A i \in 1 .. Len(calls) : Spares(calls[i])
        BY <1>2, <3>1 DEF Unstages, Spares
    <3> QED BY <1>6, <3>1, <3>2, TwinServes DEF Discard
  <2> QED BY <1>1, <1>6, <2>1, <2>2, DiscardServes
<1>7. CASE DropBackup
  <2>1. CASE Refuse("RECOVER", "RECOVERY_REQUIRED")
      BY <2>1, TwinRefuses DEF ServiceOps
  <2>2. CASE \E calls \in Seq(CallT) : Serve("RECOVER", calls, svc, svc) /\ DropsBackup(calls)
    <3>1. PICK calls \in Seq(CallT) : Serve("RECOVER", calls, svc, svc) /\ DropsBackup(calls)
        BY <2>2
    <3>2. \A i \in 1 .. Len(calls) : Spares(calls[i])
        BY <1>2, <3>1 DEF DropsBackup, Spares
    <3> QED BY <1>7, <3>1, <3>2, TwinServes DEF DropBackup
  <2> QED BY <1>7, <2>1, <2>2, DropBackupServes
<1> QED BY <1>3, <1>4, <1>5, <1>6, <1>7

\* The next call of the recovery.
LEMMA TwinCalls ==
    ASSUME Twin, work # << >>, CallsLeft # << >>
    PROVE  CallsLeft[1] \in CallT /\ Spares(CallsLeft[1]) /\ CallsLeft[1].do # "rename" /\ CallsLeft \in Seq(CallT)
<1>1. CallsLeft \in Seq(CallT)
    BY DEF Twin, WorkTypes, WorkT, CallsLeft
<1>2. CallsLeft[1] \in CallT /\ 1 \in Places
    BY <1>1, Rest DEF Places
<1>3. Spares(CallsLeft[1])
    BY <1>2 DEF Twin, TwinWork
<1> QED BY <1>1, <1>2, <1>3 DEF Spares

\* A call of the recovery succeeds: the twin is left, or the target's clusters are free.
LEMMA TwinSucceeds == ASSUME Twin, Succeeds PROVE dangling' \/ Twin'
<1>1. PICK call, bad : bad \in BOOLEAN /\ Makes(call, bad) /\ faults' \in {faults, faults + 1}
  <2>1. work # << >> /\ CallsLeft # << >> /\ CanSucceed(CallsLeft[1])
      BY DEF Succeeds, CallsLeft
  <2>2. PICK bad \in BOOLEAN : entry' = Entered(CallsLeft[1]) /\ chain' = Stored(CallsLeft[1], bad) /\ faults' \in {faults, faults + 1}
      BY DEF Succeeds, CallsLeft
  <2> QED BY <2>1, <2>2 DEF Succeeds, Makes
<1>2. /\ work' \in WorkT /\ work # << >> /\ work.op' = work.op /\ work.ok' = work.ok /\ work.bad' = work.bad
      /\ \A i \in Places' : i + 1 \in Places /\ CallsLeft'[i] = CallsLeft[i + 1]
      /\ call \in CallT /\ Spares(call) /\ UNCHANGED <<svc, cached, told>>
    BY <1>1, MovesUp, TwinCalls DEF Twin, Makes
<1>3. TwinWork'
    BY <1>2 DEF Twin, TwinWork
<1>4. SvcTypes' /\ WorkTypes' /\ ~svc'.active /\ (svc'.on => ~Repeats')
    BY <1>1, <1>2 DEF Twin, SvcTypes, WorkTypes, Repeats
<1>5. CASE TwinCard(Entered(call), Stored(call, bad))
  <2>1. \A f, d : TwinCard(f, d) /\ entry' = f /\ chain' = d => TwinCard(entry, chain)'
      BY <1>2, TwinLater
  <2> QED BY <1>1, <1>3, <1>4, <1>5, <2>1 DEF Twin, Makes
<1>6. CASE TargetFreed(Entered(call), Stored(call, bad))
    BY <1>1, <1>6, LostDangles DEF Makes, TargetFreed, Succeeds
<1> QED BY <1>1, <1>2, <1>5, <1>6, SpareCall DEF Twin

\* A call of the recovery fails, done or not.
LEMMA TwinFails == ASSUME Twin, Fails PROVE dangling' \/ Twin'
<1>1. /\ work # << >> /\ CallsLeft # << >> /\ told' = told /\ Dangles
      /\ \/ UNCHANGED <<entry, chain>>
         \/ entry' = Entered(CallsLeft[1]) /\ chain' = Stored(CallsLeft[1], FALSE)
         \/ CallsLeft[1].do = "rename"
    BY DEF Fails, CallsLeft
<1>2. CallsLeft[1] \in CallT /\ Spares(CallsLeft[1]) /\ CallsLeft[1].do # "rename"
    BY <1>1, TwinCalls
<1>3. SvcTypes' /\ WorkTypes' /\ ~Repeats' /\ ~svc'.active /\ work' = << >>
  <2>1. work.bad = svc /\ svc.up \in Nat
      BY <1>1 DEF Twin, TwinWork, SvcTypes, SvcT
  <2> QED BY <2>1, FailedTypes DEF Twin
<1>4. ASSUME TwinCard(entry, chain)' PROVE Twin'
    BY <1>3, <1>4 DEF Twin, TwinWork
<1>5. \A f, d : TwinCard(f, d) /\ entry' = f /\ chain' = d => TwinCard(entry, chain)'
    BY <1>1, <1>3, TwinLater
<1>6. CASE UNCHANGED <<entry, chain>>
    BY <1>4, <1>5, <1>6 DEF Twin
<1>7. CASE entry' = Entered(CallsLeft[1]) /\ chain' = Stored(CallsLeft[1], FALSE)
  <2>1. TwinCard(Entered(CallsLeft[1]), Stored(CallsLeft[1], FALSE)) \/ TargetFreed(Entered(CallsLeft[1]), Stored(CallsLeft[1], FALSE))
      BY <1>2, SpareCall DEF Twin
  <2>2. CASE TargetFreed(Entered(CallsLeft[1]), Stored(CallsLeft[1], FALSE))
      BY <1>1, <1>7, <2>2, LostDangles DEF TargetFreed
  <2> QED BY <1>4, <1>5, <1>7, <2>1, <2>2
<1> QED BY <1>1, <1>2, <1>6, <1>7

\* The recovery is answered, or an earlier reply repeated: no activation is told of.
LEMMA TwinReplies == ASSUME Twin, Replies \/ Repeated PROVE Twin' /\ told' = told
<1>1. CASE Replies
  <2>1. /\ work # << >> /\ work' = << >> /\ svc' = work.ok /\ work.op = "RECOVER" /\ work.ok = svc
        /\ cached' = [op |-> work.op, res |-> "OK", up |-> work.ok.up] /\ Heard(cached')
        /\ UNCHANGED <<entry, chain, faults>>
      BY <1>1 DEF Replies, Twin, TwinWork
  <2>2. told' = told /\ ~Repeats'
      BY <2>1 DEF Heard, Repeats
  <2>3. SvcTypes' /\ WorkTypes'
      BY <2>1, <2>2 DEF Twin, SvcTypes, WorkTypes, SvcT, ReplyT, ServiceOps, Results
  <2>4. TwinCard(entry, chain)'
      BY <2>1, <2>2, TwinLater DEF Twin
  <2> QED BY <2>1, <2>2, <2>3, <2>4 DEF Twin, TwinWork
<1>2. CASE Repeated
  <2>1. told' = told /\ UNCHANGED <<entry, chain, svc, work, cached, faults>>
      BY <1>2 DEF Repeated, Heard, Idle, Twin, Repeats
  <2>2. SvcTypes' /\ WorkTypes' /\ (svc'.on => ~Repeats')
      BY <2>1 DEF Twin, SvcTypes, WorkTypes, Repeats
  <2>3. TwinCard(entry, chain)'
      BY <2>1, TwinLater DEF Twin
  <2> QED BY <2>1, <2>2, <2>3 DEF Twin, TwinWork, Places, CallsLeft
<1> QED BY <1>1, <1>2

\* The service stops and starts again.
LEMMA TwinStops == ASSUME Twin, service_stop \/ service_init PROVE Twin'
<1>1. CASE service_stop
  <2>1. work = << >> /\ svc' = Off /\ UNCHANGED <<entry, chain, work, cached, told, faults>>
      BY <1>1 DEF service_stop, Idle, Twin
  <2>2. Off \in SvcT /\ ~Off.active /\ ~Off.on /\ Off.up = svc.up
      BY OffIs DEF Twin, SvcTypes
  <2>3. SvcTypes' /\ WorkTypes'
      BY <2>1, <2>2 DEF Twin, SvcTypes, WorkTypes
  <2>4. TwinCard(entry, chain)'
      BY <2>1, TwinLater DEF Twin
  <2> QED BY <2>1, <2>2, <2>3, <2>4 DEF Twin, TwinWork
<1>2. CASE service_init
  <2>1. /\ ~svc.on /\ work = << >> /\ svc \in SvcT /\ ~svc.active /\ svc.up \in Nat
        /\ cached' = [op |-> "HELLO", res |-> "OK", up |-> svc.up]
        /\ UNCHANGED <<entry, chain, work, told, faults>>
      BY <1>2 DEF service_init, Twin, TwinWork, WorkTypes, SvcTypes, SvcT
  <2>2. svc' \in SvcT /\ ~svc'.active /\ svc'.up = svc.up /\ ~Repeats'
    <3>1. PICK fast \in BOOLEAN : svc' = [svc EXCEPT !.on = TRUE, !.fast = fast]
        BY <1>2 DEF service_init
    <3>2. svc' \in SvcT /\ ~svc'.active /\ svc'.up = svc.up
        BY <2>1, <3>1 DEF SvcT
    <3>3. ~Repeats'
        BY <2>1 DEF Repeats
    <3> QED BY <3>2, <3>3
  <2>3. SvcTypes' /\ WorkTypes'
      BY <2>1, <2>2 DEF Twin, SvcTypes, WorkTypes, ReplyT, Results
  <2>4. TwinCard(entry, chain)'
      BY <2>1, <2>2, TwinLater DEF Twin
  <2> QED BY <2>1, <2>2, <2>3, <2>4 DEF Twin, TwinWork
<1> QED BY <1>1, <1>2

\* The power goes during the recovery: the twin is left, taken away, or the target is lost.
LEMMA TwinPowerCut == ASSUME Twin, PowerCut PROVE dangling' \/ Plain' \/ Twin'
<1>1. SvcTypes' /\ WorkTypes' /\ ~svc'.active /\ ~svc'.on /\ work' = << >> /\ UNCHANGED <<cached, told>>
  <2>1. work # << >> => svc.up <= work.bad.up
      BY DEF Twin, TwinWork, SvcTypes, SvcT
  <2> QED BY <2>1, CutTypes DEF Twin
<1>2. PICK call : Found(call) /\
        \E e, c : \E gone \in SUBSET {a \in Names : e[a] # 0 /\ c[e[a]].kept = 0} :
          /\ e \in {entry, Entered(call)} \/ Half(call, e)
          /\ c \in {chain, Stored(call, FALSE)} /\ (c # chain => e = Entered(call))
          /\ entry' = Kept(e, gone) /\ chain' = Synced(c)
    BY CutFinds
<1>3. PICK e, c : \E gone \in SUBSET {a \in Names : e[a] # 0 /\ c[e[a]].kept = 0} :
          /\ e \in {entry, Entered(call)} \/ Half(call, e)
          /\ c \in {chain, Stored(call, FALSE)} /\ (c # chain => e = Entered(call))
          /\ entry' = Kept(e, gone) /\ chain' = Synced(c)
    BY <1>2
<1>4. PICK gone \in SUBSET {a \in Names : e[a] # 0 /\ c[e[a]].kept = 0} :
          /\ e \in {entry, Entered(call)} \/ Half(call, e)
          /\ c \in {chain, Stored(call, FALSE)} /\ (c # chain => e = Entered(call))
          /\ entry' = Kept(e, gone) /\ chain' = Synced(c)
    BY <1>3
<1>5. /\ Call("", "target").do = ""
      /\ call # Call("", "target") => call \in CallT /\ Spares(call) /\ call.do # "rename"
    BY <1>2, TwinCalls DEF Found, Call
<1>6. ~Half(call, e) /\ TwinCard(entry, chain)
    BY <1>5 DEF Half, Twin
<1>7. TwinCard(e, c) \/ Sound(e, c) \/ TargetFreed(e, c)
  <2>1. CASE call = Call("", "target")
    <3>1. Entered(call) = entry /\ Stored(call, FALSE) = chain
        BY <1>5, <2>1 DEF Entered, Stored
    <3> QED BY <1>4, <1>6, <3>1
  <2>2. CASE call # Call("", "target")
    <3>1. /\ TwinCard(Entered(call), chain) \/ Sound(Entered(call), chain)
          /\ TwinCard(Entered(call), Stored(call, FALSE)) \/ TargetFreed(Entered(call), Stored(call, FALSE))
        BY <1>5, <1>6, <2>2, SpareCall
    <3> QED BY <1>4, <1>6, <3>1
  <2> QED BY <2>1, <2>2
<1>8. CASE TwinCard(e, c)
  <2>1. TwinCard(Kept(e, gone), Synced(c))
      BY <1>8, TwinCut
  <2>2. \A f, d : TwinCard(f, d) /\ entry' = f /\ chain' = d => TwinCard(entry, chain)'
      BY <1>1, TwinLater
  <2>3. TwinCard(entry, chain)'
      BY <1>4, <2>1, <2>2
  <2> QED BY <1>1, <2>3 DEF Twin, TwinWork
<1>9. CASE Sound(e, c)
  <2>1. Sound(Kept(e, gone), Synced(c))
      BY <1>9, CutIsSound
  <2>2. \A f, d : Sound(f, d) /\ entry' = f /\ chain' = d => CardInv'
      BY <1>1, CardLater
  <2>3. CardInv'
      BY <1>4, <2>1, <2>2
  <2> QED BY <1>1, <2>3 DEF Plain, IdleInv, Staged, WorkInv, RepeatInv
<1>10. CASE TargetFreed(e, c)
  <2>1. c \in [Chains -> ContentsT]
    <3>1. chain \in [Chains -> ContentsT]
        BY <1>6, TwinIs
    <3>2. CASE c = chain
        BY <3>1, <3>2
    <3>3. CASE c # chain /\ call = Call("", "target")
      <4>1. Stored(call, FALSE) = chain
          BY <1>5, <3>3 DEF Stored
      <4> QED BY <1>4, <3>3, <4>1
    <3>4. CASE c # chain /\ call # Call("", "target")
      <4>1. c = Stored(call, FALSE) /\ Spares(call) /\ call \in CallT
          BY <1>4, <1>5, <3>4
      <4>2. entry[call.a] # 0 => entry[call.a] \in Chains
        <5>1. entry \in [Names -> 0 .. 5] /\ call.a \in Names
            BY <1>6, <4>1, TwinIs DEF CallT
        <5>2. entry[call.a] \in 0 .. 5
            BY <5>1
        <5> QED BY <5>2 DEF Chains
      <4>3. Stored(call, FALSE) = chain \/ (entry[call.a] \in Chains /\ Stored(call, FALSE) = [chain EXCEPT ![entry[call.a]].freed = TRUE])
        <5>1. CASE call.do = "unlink" /\ There(call.a)
            BY <4>2, <5>1 DEF Stored, There
        <5>2. CASE ~(call.do = "unlink" /\ There(call.a))
            BY <4>1, <5>2 DEF Stored, Spares
        <5> QED BY <5>1, <5>2
      <4>4. \A x \in Chains : [chain EXCEPT ![x].freed = TRUE] \in [Chains -> ContentsT]
          BY <3>1 DEF ContentsT
      <4>5. CASE Stored(call, FALSE) = chain
          BY <3>1, <4>1, <4>5
      <4>6. CASE entry[call.a] \in Chains /\ Stored(call, FALSE) = [chain EXCEPT ![entry[call.a]].freed = TRUE]
          BY <4>1, <4>4, <4>6
      <4> QED BY <4>3, <4>5, <4>6
    <3> QED BY <3>2, <3>3, <3>4
  <2>2. TargetFreed(Kept(e, gone), Synced(c))
      BY <1>10, <2>1, LostIsFound
  <2>3. TargetFreed(entry, chain)'
      BY <1>4, <2>2 DEF TargetFreed
  <2> QED BY <2>3, LostDangles DEF PowerCut
<1> QED BY <1>7, <1>8, <1>9, <1>10

-----------------------------------------------------------------------------
(* The theorems.                                                           *)

\* The first state: the card holds the file of upload 0.
LEMMA InitInv == SdInit => Plain
<1> SUFFICES ASSUME SdInit PROVE Plain
    OBVIOUS
<1> USE SdServiceAssumption DEF SdInit
<1>1. SvcTypes /\ WorkTypes
    BY DEF SvcTypes, SvcT, WorkTypes, ReplyT, Results, ServiceOps
<1>2. ~Repeats
    BY DEF Repeats
<1>3. \A c \in Chains : Contents(0, IF c = 1 THEN Size ELSE 0) \in ContentsT
    BY DEF Contents, ContentsT
<1>4. /\ entry \in [Names -> 0 .. 5] /\ chain \in [Chains -> ContentsT] /\ entry["target"] = 1
      /\ \A a, b \in Names : entry[a] = entry[b] /\ entry[a] # 0 => a = b
    BY <1>3 DEF Names
<1>5. Whole(chain[1])
    BY <1>2 DEF Whole, Contents, Chains
<1>6. CardInv
    BY <1>4, <1>5 DEF CardInv, Sound
<1> QED BY <1>1, <1>2, <1>6 DEF Plain, IdleInv, Staged, WorkInv, RepeatInv

\* The invariant is about nothing but the variables.
LEMMA StutterKeeps == ASSUME Plain, UNCHANGED sdVars PROVE Plain'
<1> USE DEF sdVars
<1>1. SvcTypes' /\ WorkTypes'
    BY DEF Plain, SvcTypes, WorkTypes
<1>2. CardInv'
    BY CardLater DEF Plain, CardInv
<1>3. IdleInv' /\ RepeatInv'
    BY DEF Plain, IdleInv, Staged, StagedBy, There, At, Full, RepeatInv, Repeats, Matches
<1>4. WorkInv'
    BY DEF Plain, WorkInv, RequestInv, BeginInv, WriteInv, FinishInv, ActivateInv, CancelInv, RecoverInv,
           CallsLeft, Places, StagedBy, There, At, Full, Checked, Checks, Ends, Matches
<1> QED BY <1>1, <1>2, <1>3, <1>4 DEF Plain

\* Every chain has one name, or a file has two, in every step.
LEMMA InvSteps == ASSUME IInv, [SdNext]_sdVars PROVE IInv'
<1>1. CASE dangling
    BY <1>1 DEF IInv, SdNext, sdVars, Begin, Write, Finish, Activate, Cancel, Restore, Discard, DropBackup, Serve, Refuse,
             Succeeds, Fails, Replies, Repeated, service_stop, service_init, PowerCut, Dangles
<1>2. CASE Plain
  <2>1. CASE UNCHANGED sdVars
      BY <1>2, <2>1, StutterKeeps DEF IInv
  <2>2. CASE Fails \/ PowerCut
      BY <1>2, <2>2, CallFailsKeeps, PowerCutKeeps DEF IInv
  <2>3. CASE Begin \/ Write \/ Finish \/ Activate \/ Cancel \/ Restore \/ Discard \/ DropBackup
      BY <1>2, <2>3, BeginRequestKeeps, WriteRequestKeeps, FinishRequestKeeps, ActivateRequestKeeps, CancelKeeps,
         RestoreKeeps, DiscardKeeps, DropBackupKeeps DEF IInv
  <2>4. CASE Succeeds \/ Replies \/ Repeated \/ service_stop \/ service_init
      BY <1>2, <2>4, SucceedsKeeps, RepliesKeeps, RepeatedKeeps, StopKeeps, InitKeeps DEF IInv
  <2> QED BY <2>1, <2>2, <2>3, <2>4 DEF SdNext
<1>3. CASE Twin
  <2>1. CASE UNCHANGED sdVars
    <3>1. TwinCard(entry, chain)'
        BY <1>3, <2>1, TwinLater DEF Twin, sdVars
    <3>2. Twin'
        BY <1>3, <2>1, <3>1 DEF Twin, sdVars, SvcTypes, WorkTypes, Repeats, TwinWork, Places, CallsLeft
    <3> QED BY <3>2 DEF IInv
  <2>2. CASE Begin \/ Write \/ Finish \/ Activate \/ Cancel \/ Restore \/ Discard \/ DropBackup
      BY <1>3, <2>2, TwinRequests DEF IInv
  <2>3. CASE Succeeds \/ Fails \/ PowerCut
      BY <1>3, <2>3, TwinSucceeds, TwinFails, TwinPowerCut DEF IInv
  <2>4. CASE Replies \/ Repeated \/ service_stop \/ service_init
      BY <1>3, <2>4, TwinReplies, TwinStops DEF IInv
  <2> QED BY <2>1, <2>2, <2>3, <2>4 DEF SdNext
<1> QED BY <1>1, <1>2, <1>3 DEF IInv

\* Every step keeps the invariant, one that leaves half a rename too.
THEOREM InductiveInvariant == SdSpec => []IInv
<1>1. SdInit => IInv
    BY InitInv DEF IInv
<1>2. IInv /\ [SdNext]_sdVars => IInv'
    BY InvSteps
<1> QED BY <1>1, <1>2, PTL DEF SdSpec

\* Target or backup is a complete file, not older than what the client was told of,
\* whatever fails and whenever the power goes, inside a rename too; only a recovery that
\* frees a file's clusters through its other name is excepted.
THEOREM FileSurvives == SdSpec => []OldOrNewSurvives
<1>1. Plain => OldOrNewSurvives
    BY DEF Plain, CardInv, Sound, Whole, OldOrNewSurvives, Intact, There, At
<1>2. Twin => OldOrNewSurvives
    BY TwinIs DEF Twin, Whole, OldOrNewSurvives, Intact, There, At
<1>3. IInv => OldOrNewSurvives
    BY <1>1, <1>2 DEF IInv, OldOrNewSurvives
<1> QED BY <1>3, InductiveInvariant, PTL

\* In the checked mode the client is told only of an activation that holds what was sent.
TellsTruly ==
  told' # told /\ ~svc.fast /\ ~dangling => There("target") /\ ~At("target").freed /\ Matches(At("target"), told')

\* Only a reply to ACTIVATE tells the client of an upload, and what it tells is so.
LEMMA StepTellsTruly == ASSUME IInv, [SdNext]_sdVars PROVE TellsTruly
<1> SUFFICES ASSUME told' # told, ~svc.fast, ~dangling
             PROVE  There("target") /\ ~At("target").freed /\ Matches(At("target"), told')
    BY DEF TellsTruly
<1>1. CASE SdNext /\ ~Replies /\ ~Repeated
  <2>1. told' = told
      BY <1>1 DEF SdNext, Begin, Write, Finish, Activate, Cancel, Restore, Discard, DropBackup, Serve, Refuse,
              Succeeds, Fails, service_stop, service_init, PowerCut
  <2> QED BY <2>1
<1>2. CASE Twin /\ (Replies \/ Repeated)
    BY <1>2, TwinReplies
<1>3. CASE Plain /\ (Replies \/ Repeated)
  <2>1. There("target") => ~At("target").freed
      BY <1>3 DEF Plain, CardInv, Sound, Whole, There, At
  <2>2. CASE Replies
    <3>1. work # << >> /\ CallsLeft = << >> /\ work.op = "ACTIVATE" /\ told' = work.ok.up
        BY <2>2 DEF Replies, Heard, CallsLeft
    <3>2. ActivateInv /\ Places = {}
        BY <1>3, <3>1 DEF Plain, WorkInv, RequestInv, Places
    <3> QED BY <2>1, <3>1, <3>2 DEF ActivateInv, Checked
  <2>3. CASE Repeated
    <3>1. Repeats /\ told' = cached.up /\ svc.on /\ work = << >>
        BY <2>3 DEF Repeated, Heard, Repeats, Idle
    <3> QED BY <1>3, <2>1, <3>1 DEF Plain, RepeatInv
  <2> QED BY <1>3, <2>2, <2>3
<1> QED BY <1>1, <1>2, <1>3 DEF sdVars, IInv

\* What the client is told of an activation is true in the checked mode.
THEOREM ClientIsToldTheTruth == SdSpec => ToldIsTrue
<1>1. IInv /\ [SdNext]_sdVars => TellsTruly
    BY StepTellsTruly
<1> QED BY <1>1, InductiveInvariant, PTL DEF SdSpec, ToldIsTrue, TellsTruly

=============================================================================

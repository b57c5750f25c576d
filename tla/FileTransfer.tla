---------------------------- MODULE FileTransfer ----------------------------
(***************************************************************************)
(* emos_file_transfer (lib/sdapp/sdapp.c): an application copies a file    *)
(* between the card of the mainboard, through the service engine it is     *)
(* linked with, and that of the P4, over the link.  It reads the source    *)
(* twice, for its checksum and to send it, and the destination compares.   *)
(*                                                                         *)
(* A file is a sequence of blocks, and a checksum is the file it is of.    *)
(* An answer from the P4 may be lost or wrong, whether or not the request  *)
(* was served; the source on the P4 may change at any time.                *)
(***************************************************************************)
EXTENDS Integers, Sequences

CONSTANTS
  Blocks,       \* what a block may hold
  Files,        \* what the source may hold
  MaxChanges,   \* bound: changes of the source in a transfer
  MaxTransfers  \* bound: transfers one after the other

ASSUME TransferAssumption ==
  Files \subseteq Seq(Blocks) /\ MaxChanges \in Nat /\ MaxTransfers \in Nat

VARIABLES
  transfer, \* the transfer: its place, arguments, flags and result
  source,   \* the source file
  dest,     \* the destination file, or Absent
  part,     \* the staged file of the destination engine, or NoPart
  history   \* what the source has held, and the destination and stage at the start

transferVars == <<transfer, source, dest, part, history>>

Absent == <<"absent">>
NoPart == [expect |-> Absent, got |-> Absent]
NoTransfer == [at |-> "idle", receive |-> FALSE, overwrite |-> FALSE, offset |-> 0, total |-> 0, sum |-> << >>,
         cancelled |-> FALSE, opened |-> FALSE, claimed |-> FALSE, staged |-> FALSE, committed |-> FALSE,
         r |-> "OK", n |-> 0]

Place(at) == transfer.at = at
Go(at) == transfer' = [transfer EXCEPT !.at = at]
Fail(r) == transfer' = [transfer EXCEPT !.at = "done", !.r = r]

\* What comes of a request: an error may come before or after its effect, and
\* of one over the link the answer may not come, or be another.
Outcomes(remote) == {"OK", "IO"} \cup IF remote THEN {"UNCERTAIN", "PROTOCOL"} ELSE {}
Effects(r) == IF r = "OK" THEN {TRUE} ELSE BOOLEAN

-----------------------------------------------------------------------------
(* The transfer.  The destination engine is remote when sending.           *)

emos_file_transfer(receive, overwrite) ==
  /\ Place("idle") /\ transfer.n < MaxTransfers
  /\ transfer' = [NoTransfer EXCEPT !.at = "open", !.receive = receive, !.overwrite = overwrite, !.n = transfer.n + 1]
  /\ history' = [had |-> {source}, before |-> dest, left |-> part, changes |-> 0]
  /\ UNCHANGED <<source, dest, part>>

\* The caller's predicate is asked while a request is served.
poll_cancel ==
  /\ ~Place("idle") /\ ~Place("done") /\ ~transfer.cancelled
  /\ transfer' = [transfer EXCEPT !.cancelled = TRUE]
  /\ UNCHANGED <<source, dest, part, history>>

CancelledAt(at) == Place(at) /\ transfer.cancelled
Cancelled ==
  /\ \/ \E at \in {"open", "ready", "size", "begin", "finish", "activate"} : CancelledAt(at)
     \/ CancelledAt("copy") /\ transfer.offset < transfer.total
  /\ Fail("CANCELLED")
  /\ UNCHANGED <<source, dest, part, history>>
Goes(at) == Place(at) /\ ~transfer.cancelled

sdapp_link_open ==
  /\ Goes("open")
  /\ \/ transfer' = [transfer EXCEPT !.at = "hello", !.opened = TRUE]
     \/ \E r \in {"BUSY", "UNAVAILABLE"} : Fail(r)
     \/ transfer' = [transfer EXCEPT !.at = "done", !.r = "PROTOCOL", !.opened = TRUE]
  /\ UNCHANGED <<source, dest, part, history>>

\* HELLO, the descriptor of the job, READY, and the HELLOs of both engines.
Refusals(at) ==
  CASE at = "hello" -> {"UNAVAILABLE", "PROTOCOL"}
    [] at = "claim" -> {"BUSY", "UNAVAILABLE", "CANCELLED", "IO", "PROTOCOL", "UNCERTAIN"}
    [] at = "ready" -> {"BUSY", "CANCELLED", "IO", "PROTOCOL", "UNCERTAIN"}
    [] OTHER        -> {"IO", "PROTOCOL", "UNCERTAIN"}
control(at, next) ==
  /\ IF at = "ready" THEN Goes(at) ELSE Place(at)
  /\ \/ transfer' = [transfer EXCEPT !.at = next, !.claimed = @ \/ at = "claim"]
     \/ \E r \in Refusals(at) : Fail(r)
  /\ UNCHANGED <<source, dest, part, history>>
Handshake ==
  \/ control("hello", "claim") \/ control("claim", "ready")
  \/ control("ready", "files") \/ control("files", "size")

\* The source must keep its size.
Moved == transfer.offset > 0 /\ Len(source) # transfer.total
Shrunk == IF transfer.offset > Len(source) THEN "IO" ELSE "PROTOCOL"
Block == IF transfer.offset < Len(source) THEN <<source[transfer.offset + 1]>> ELSE << >>

\* The first pass: the checksum.
ReadSource ==
  /\ Goes("size")
  /\ \E r \in Outcomes(transfer.receive) :
       IF r # "OK" THEN Fail(r)
       ELSE IF Moved THEN Fail(Shrunk)
       ELSE LET more == transfer.offset + 1 < Len(source)
            IN transfer' = [transfer EXCEPT !.total = Len(source), !.sum = @ \o Block,
                                  !.offset = IF more THEN @ + 1 ELSE 0,
                                  !.at = IF more THEN "size" ELSE "stat"]
  /\ UNCHANGED <<source, dest, part, history>>

\* Unless it may be overwritten, the destination must be missing.
SD_STAT ==
  /\ Place("stat")
  /\ \/ (transfer.overwrite \/ dest = Absent) /\ Go("begin")
     \/ ~transfer.overwrite /\ \E r \in Outcomes(~transfer.receive) \ {"OK"} : Fail(r)
  /\ UNCHANGED <<source, dest, part, history>>

\* A seeded fault: the stage is remembered once it is known to be there.
RemembersLater(r) == r = "OK"
\* It is remembered before BEGIN is sent: the answer may be lost.
Remembers(r) == TRUE

SD_BEGIN ==
  /\ Goes("begin")
  /\ \E r \in Outcomes(~transfer.receive) : \E served \in Effects(r) :
       /\ served => part = NoPart
       /\ part' = IF served THEN [expect |-> transfer.sum, got |-> << >>] ELSE part
       /\ transfer' = [transfer EXCEPT !.staged = Remembers(r), !.at = IF r = "OK" THEN "copy" ELSE "done", !.r = r]
  /\ UNCHANGED <<source, dest, history>>

\* The second pass: a block is read and written.
SD_WRITE ==
  /\ Goes("copy") /\ transfer.offset < transfer.total
  /\ \/ /\ \E r \in Outcomes(transfer.receive) \ {"OK"} : Fail(r)
        /\ UNCHANGED part
     \/ Len(source) # transfer.total /\ Fail(Shrunk) /\ UNCHANGED part
     \/ /\ Len(source) = transfer.total
        /\ \E r \in Outcomes(~transfer.receive) : \E served \in Effects(r) :
             /\ part' = IF served THEN [part EXCEPT !.got = @ \o Block] ELSE part
             /\ IF r = "OK" THEN transfer' = [transfer EXCEPT !.offset = @ + 1] ELSE Fail(r)
  /\ UNCHANGED <<source, dest, history>>

Copied ==
  /\ Place("copy") /\ transfer.offset = transfer.total /\ Go("finish")
  /\ UNCHANGED <<source, dest, part, history>>

\* The engine reads the staged file again.
Verified(p) == p.got = p.expect

SD_FINISH ==
  /\ Goes("finish")
  /\ \E r \in Outcomes(~transfer.receive) :
       IF r = "OK" THEN Verified(part) /\ Go("activate") ELSE Fail(r)
  /\ UNCHANGED <<source, dest, part, history>>

SD_ACTIVATE ==
  /\ Goes("activate")
  /\ \E r \in Outcomes(~transfer.receive) : \E served \in Effects(r) :
       /\ IF served THEN dest' = part.got /\ part' = NoPart ELSE UNCHANGED <<dest, part>>
       /\ IF r = "OK" THEN transfer' = [transfer EXCEPT !.at = "end", !.committed = TRUE] ELSE Fail(r)
  /\ UNCHANGED <<source, history>>

\* The P4 is told that the job is done.
ToldDone ==
  /\ Place("end")
  /\ \E r \in {"OK", "BUSY", "CANCELLED", "IO", "PROTOCOL", "UNCERTAIN"} : Fail(r)
  /\ UNCHANGED <<source, dest, part, history>>

\* The job and the link are closed; the stage is left for recovery.
Reported(closed) ==
  IF transfer.r # "OK" /\ transfer.staged /\ ~transfer.committed THEN "RECOVERY"
  ELSE IF transfer.r = "OK" /\ ~closed THEN "UNCERTAIN" ELSE transfer.r
Returns ==
  /\ Place("done")
  /\ \E closed \in (IF transfer.opened THEN BOOLEAN ELSE {TRUE}) :
       transfer' = [transfer EXCEPT !.at = "idle", !.r = Reported(closed)]
  /\ UNCHANGED <<source, dest, part, history>>

\* Something else writes the file on the P4.
SourceChanges ==
  /\ transfer.receive /\ ~Place("idle")
  /\ \E f \in Files \ {source} : source' = f
  /\ history.changes < MaxChanges
  /\ history' = [history EXCEPT !.had = @ \cup {source'}, !.changes = @ + 1]
  /\ UNCHANGED <<transfer, dest, part>>

TransferInit ==
  /\ transfer = NoTransfer /\ part = NoPart
  /\ source \in Files /\ dest \in {Absent, <<"old">>}
  /\ history = [had |-> {source}, before |-> dest, left |-> part, changes |-> 0]

TransferNext ==
  \/ \E receive, overwrite \in BOOLEAN : emos_file_transfer(receive, overwrite)
  \/ poll_cancel \/ Cancelled \/ sdapp_link_open \/ Handshake \/ ReadSource \/ SD_STAT \/ SD_BEGIN
  \/ SD_WRITE \/ Copied \/ SD_FINISH \/ SD_ACTIVATE \/ ToldDone \/ Returns \/ SourceChanges

TransferSpec == TransferInit /\ [][TransferNext]_transferVars

-----------------------------------------------------------------------------
(* Properties.                                                             *)

\* The destination is the file it was, or one the source has been, whole, if
\* that changes once at most while it is read.  With a second change both
\* passes may read the same mixture of three files of three blocks, which
\* "cannot silently pass" (lib/sdapp/README.md:36) does not foresee.
DestinationIsWhole == history.changes <= 1 => dest = history.before \/ dest \in history.had

\* "OK follows checked activation", "CANCELLED means cancellation occurred
\* before staging" (lib/sdapp/README.md:37-43): a transfer that returns OK has
\* put the source in place, and one that returns neither that nor RECOVERY,
\* and did not know of its activation, has staged and changed nothing.
ResultIsTrue ==
  Place("idle") /\ transfer.n > 0 =>
    /\ transfer.r = "OK" => part = NoPart /\ (history.changes <= 1 => dest \in history.had)
    /\ transfer.r \notin {"OK", "RECOVERY"} /\ ~transfer.committed => dest = history.before /\ part = history.left

TransferTellsTheTruth == DestinationIsWhole /\ ResultIsTrue
=============================================================================

------------------------- MODULE KeyboardUartProofs -------------------------
(***************************************************************************)
(* Proofs about KeyboardUart, for all keys, sources, clients and bounds.   *)
(* The inductive invariant has a part for each thing a step relies on: the *)
(* call in progress, the one holder of the serializer, the parked port,    *)
(* the order of replies and keys on the wire, and the faults that a select *)
(* may restore.  Each part has a lemma with one step per action.           *)
(***************************************************************************)
EXTENDS KeyboardUart, SequenceTheorems, TLAPS

-----------------------------------------------------------------------------
(* The inductive invariant.                                                *)

\* The types, by what a step touches: the flags and the keys, the call, the frames.
KeyTypes == /\ source \in Sources /\ prepared \in Sources
            /\ held \subseteq [key : Keys, from : Sources]
FlagTypes ==
    /\ faulted \in BOOLEAN /\ transitioning \in BOOLEAN /\ preparing \in BOOLEAN
    /\ textPending \in BOOLEAN /\ stopReq \in BOOLEAN /\ faultReq \in BOOLEAN
    /\ armed \in BOOLEAN /\ savedArmed \in BOOLEAN /\ console \in BOOLEAN
    /\ wire \in BOOLEAN /\ mixed \in BOOLEAN /\ forgotten \in BOOLEAN /\ stale \in BOOLEAN
Counts == reserved \in 0 .. 2 /\ owned \in 0 .. 2 /\ async \in 0 .. 2
Calls == [pc : Steps, left : 0 .. 4, then : Steps, target : Sources, prev : BOOLEAN,
          was : Sources]
CallType == fg \in Calls
Tokens == /\ token \in 0 .. MaxToken /\ answered \in 0 .. MaxToken
          /\ asked \in 0 .. MaxToken /\ admitted \in 0 .. MaxToken
FrameTypes ==
    /\ rx \in Seq(Frames) /\ Len(rx) <= 1 /\ age \in 0 .. AgeLimit
    /\ chan \in Seq(Frames) /\ Len(chan) <= MaxFrames

\* A stop is only asked for while the call that asks for it waits; the reservation is
\* in use only during a send; a poll has room for its token.
CallInv ==
    /\ stopReq => fg.pc = "stopWait"
    /\ reserved = 2 => fg.pc \in {"sendFail", "sendEnd"} \/ (fg.pc = "tx" /\ fg.then = "sendEnd")
    /\ fg.pc = "tx" => fg.then \in {"selectWait", "layoutPoll", "layoutWait", "layoutEnd", "sendEnd"}
    /\ fg.pc \in {"selectOpen", "layoutPoll"} \/ (fg.pc = "tx" /\ fg.then = "layoutPoll")
         => token < MaxToken

\* What a frame on its way may carry.
Current(f) ==
    /\ f.kind = "reply" => f.token <= answered
    /\ f.kind = "key" => admitted <= f.after /\ f.after <= answered
\* A key behind a reply was queued after it.
Follows(f, g) == f.kind = "reply" /\ g.kind = "key" => f.token <= g.after
\* Tokens are answered in order, and a select that has not sent its poll is not answered.
OrderInv ==
    /\ admitted <= answered /\ answered <= asked /\ asked <= token
    /\ \A i \in 1 .. Len(rx) : Current(rx[i])
    /\ \A i \in 1 .. Len(chan) : Current(chan[i])
    /\ \A i \in 1 .. Len(rx), j \in 1 .. Len(chan) : Follows(rx[i], chan[j])
    /\ \A i, j \in 1 .. Len(chan) : i < j => Follows(chan[i], chan[j])

\* A select between its poll and the end of its sending.
Unasked == fg.pc = "selectFail" \/ (fg.pc = "tx" /\ fg.then = "selectWait")
PollInv == /\ Unasked => asked < token /\ (preparing \/ faulted)
           /\ preparing => Unasked \/ fg.pc = "selectWait"

\* A select that may restore the fault it found: a remote source has no key down then.
RestoreInv ==
    fg.prev /\ source # "mainboard" =>
        /\ fg.pc = "selectOpen" => faulted
        /\ Unasked => held = {}
        /\ fg.pc = "selectWait" => held = {} \/ (~preparing /\ ~faulted)

IInv == /\ KeyTypes /\ FlagTypes /\ Counts /\ CallType /\ Tokens /\ FrameTypes /\ CallInv /\ SerializerHasOneHolder /\ ParkedPortIsQuiet
        /\ OrderInv /\ PollInv /\ RestoreInv /\ HeldKeysBelongToTheSource

-----------------------------------------------------------------------------
(* What a step does, in the words the proofs use.                          *)

\* The five outcomes of a whole frame in emos_keyboard_dispatch.
FrameAdmits ==
    /\ Matches(rx[1]) /\ preparing
    /\ held' = {} /\ source' = prepared /\ preparing' = FALSE /\ admitted' = token
    /\ rx' = <<>> /\ age' = 0
    /\ UNCHANGED <<owners, port, prepared, faulted, textPending, stopReq, faultReq, stale>>
FrameAcknowledges ==
    /\ Matches(rx[1]) /\ ~preparing /\ textPending' = FALSE /\ rx' = <<>> /\ age' = 0
    /\ UNCHANGED <<owners, port, keys, faulted, preparing, stopReq, faultReq, stale>>
FramePresses ==
    /\ rx[1].kind = "key" /\ ~preparing /\ source # "mainboard"
    /\ Publish(rx[1].key, rx[1].down, source)
    /\ rx' = <<>> /\ age' = 0
    /\ UNCHANGED <<owners, port, source, prepared, admitted, flags>>
FrameFaults ==
    /\ ~preparing /\ source # "mainboard" /\ Fault
    /\ UNCHANGED <<reserved, owned, savedArmed, source, prepared, admitted, stopReq,
                   faultReq, stale>>
FrameIsDropped ==
    rx' = <<>> /\ age' = 0 /\ UNCHANGED <<owners, port, keys, flags>>

\* A frame is admitted, acknowledges a request, carries a key, faults the port, or is dropped.
LEMMA RxFrameCases ==
    RxFrame => /\ owned = 1 /\ armed /\ ~faulted /\ rx # <<>>
               /\ FrameAdmits \/ FrameAcknowledges \/ FramePresses \/ FrameFaults \/ FrameIsDropped
               /\ UNCHANGED <<peer, stream, token, console, fg>>
BY DEF RxFrame, FrameAdmits, FrameAcknowledges, FramePresses, FrameFaults,
   FrameIsDropped, Cleanup

\* What a header does to the parser, with the call and the peer left alone.
HeaderFaults ==
    /\ Fault
    /\ UNCHANGED <<reserved, owned, savedArmed, source, prepared, admitted, stopReq, faultReq,
                   stale>>
HeaderStarts == rx' = <<Head(chan)>> /\ age' = 0 /\ UNCHANGED <<owners, port, keys, flags>>

\* The first byte of a frame starts it, or faults the port.
LEMMA RxHeaderCases ==
    RxHeader => /\ owned = 1 /\ armed /\ ~faulted /\ rx = <<>> /\ chan # <<>>
                /\ chan' = Tail(chan)
                /\ HeaderFaults \/ HeaderStarts
                /\ UNCHANGED <<answered, asked, stream, token, console, fg>>
BY DEF RxHeader, HeaderFaults, HeaderStarts

\* What a key frame carries.
LEMMA KeyFrames == \A f \in Frames : f.kind = "key" => /\ f.key \in Keys /\ f.down \in BOOLEAN
                                                     /\ f.after \in 0 .. MaxToken
BY DEF Frames

\* A parser is empty or holds one frame.
LEMMA OneFrame == /\ <<>> \in Seq(Frames) /\ Len(<<>>) = 0
                  /\ \A f \in Frames : <<f>> \in Seq(Frames) /\ Len(<<f>>) = 1
OBVIOUS

\* The receiver is (re)opened by a select, kept, or refused.
LEMMA SelectOpenCases ==
    SelectOpen =>
      /\ fg.pc = "selectOpen"
      /\ \/ /\ owned' = 1 /\ armed' = TRUE /\ wire' = FALSE /\ forgotten' = FALSE
            /\ fg' = [fg EXCEPT !.pc = "tx", !.left = 4, !.then = "selectWait"]
         \/ /\ ~(owned = 0 \/ ~console \/ faulted) /\ UNCHANGED <<owned, armed, wire>>
            /\ forgotten' = (forgotten \/ faultReq)
            /\ fg' = [fg EXCEPT !.pc = "tx", !.left = 4, !.then = "selectWait"]
         \/ /\ owned' = 0 /\ armed' = FALSE /\ wire' = wire /\ forgotten' = forgotten
            /\ fg' = [fg EXCEPT !.pc = "selectFail"]
      /\ (rx' = <<>> /\ age' = 0) \/ UNCHANGED <<rx, age>>
      /\ faulted' = FALSE /\ faultReq' = FALSE /\ stale' = FALSE /\ preparing' = TRUE
      /\ prepared' = fg.target /\ token' = token + 1
      /\ UNCHANGED <<transitioning, reserved, async, savedArmed, source, held, admitted,
                     textPending, stopReq, chan, answered, asked, mixed, console>>
BY DEF SelectOpen, At, UartOpens, Forgets, Goto, ClearFaults, owners, peer

\* The places where a call sends, and those it goes on to.
LEMMA StepNames ==
    /\ "tx" \in Steps /\ "sendEnd" \in Steps /\ "selectWait" \in Steps
    /\ 2 \in 0 .. 4 /\ 4 \in 0 .. 4
    /\ "layoutPoll" \in Steps /\ "layoutWait" \in Steps /\ "layoutEnd" \in Steps
    /\ "stopAsk" \in Steps /\ "selectOpen" \in Steps
BY DEF Steps

\* The call of a select that has opened the receiver, or was refused it.
LEMMA SelectOpenCall ==
    CallType /\ SelectOpen => /\ fg.pc = "selectOpen" /\ fg'.prev = fg.prev
                              /\ \/ fg'.pc = "tx" /\ fg'.then = "selectWait"
                                 \/ fg'.pc = "selectFail"
<1> SUFFICES ASSUME CallType, SelectOpen
             PROVE  /\ fg'.prev = fg.prev
                    /\ \/ fg'.pc = "tx" /\ fg'.then = "selectWait"
                       \/ fg'.pc = "selectFail"
    BY SelectOpenCases
<1>1. CASE fg' = [fg EXCEPT !.pc = "tx", !.left = 4, !.then = "selectWait"]
    BY <1>1
<1>2. CASE fg' = [fg EXCEPT !.pc = "selectFail"]
    BY <1>2
<1> QED BY <1>1, <1>2, SelectOpenCases

\* A call stays a call when a step writes its place and what it sends next.
LEMMA CallEdits ==
    \A c \in Calls, p, t \in Steps, n \in 0 .. 4 :
        [c EXCEPT !.pc = p, !.left = n, !.then = t] \in Calls
BY DEF Calls

\* Frames that a step keeps or drops keep their types.
LEMMA FramesKept ==
    /\ FrameTypes
    /\ rx' = <<>> \/ rx' = rx
    /\ age' = 0 \/ age' = age
    /\ chan' = chan
    => FrameTypes'
<1> SUFFICES ASSUME FrameTypes, rx' = <<>> \/ rx' = rx, age' = 0 \/ age' = age, chan' = chan
             PROVE  FrameTypes'
    OBVIOUS
<1>1. age' \in 0 .. AgeLimit
    BY BoundsAssumption DEF FrameTypes
<1>2. CASE rx' = <<>>
    BY <1>1, <1>2 DEF FrameTypes
<1>3. CASE rx' = rx
    BY <1>1, <1>3 DEF FrameTypes
<1> QED BY <1>2, <1>3

\* The order stands when frames are kept or dropped and tokens only advance.
LEMMA OrderKept ==
    ASSUME FrameTypes, Tokens, OrderInv, rx' = <<>> \/ rx' = rx, chan' = chan, admitted' = admitted,
           answered' = answered, asked' = asked \/ asked' = token,
           token' = token \/ token' = token + 1
    PROVE  OrderInv'
<1>1. /\ admitted' <= answered' /\ answered' <= asked' /\ asked' <= token'
    BY DEF OrderInv, Tokens
<1>2. \A i \in 1 .. Len(rx') : i \in 1 .. Len(rx) /\ rx'[i] = rx[i]
  <2>1. CASE rx' = <<>>
    BY <2>1
  <2>2. CASE rx' = rx
    BY <2>2
  <2> QED OBVIOUS
<1>3. /\ \A i \in 1 .. Len(rx') : Current(rx[i])'
      /\ \A i \in 1 .. Len(rx'), j \in 1 .. Len(chan') : Follows(rx[i], chan[j])'
    BY DEF OrderInv, Current
<1>4. /\ \A i \in 1 .. Len(chan') : Current(chan[i])'
      /\ \A i, j \in 1 .. Len(chan') : i < j => Follows(chan[i], chan[j])'
    BY DEF OrderInv, Current
<1> QED BY <1>1, <1>3, <1>4 DEF OrderInv

\* The peer queues a frame that is current and follows what it queued before.
LEMMA OrderAppended ==
    ASSUME FrameTypes, Tokens, OrderInv, NEW f, chan' = Append(chan, f), rx' = rx,
           admitted' = admitted, asked' = asked, token' = token,
           answered <= answered', answered' <= asked, answered' \in Nat, Current(f)',
           \A g \in Frames : Current(g) => Follows(g, f)
    PROVE  OrderInv'
<1>1. /\ chan \in Seq(Frames) /\ Len(chan') = Len(chan) + 1 /\ chan'[Len(chan) + 1] = f
      /\ \A i \in 1 .. Len(chan) : chan'[i] = chan[i] /\ chan[i] \in Frames
    BY DEF FrameTypes
<1>2. /\ \A i \in 1 .. Len(rx) : rx[i] \in Frames
      /\ Len(chan) \in Nat
    BY DEF FrameTypes
<1>3. \A g \in Frames : Current(g) => Current(g)'
    BY DEF Current, Tokens, Frames
<1>4. \A i \in 1 .. Len(chan') : Current(chan[i])'
    BY <1>1, <1>3 DEF OrderInv
<1>5. \A i \in 1 .. Len(rx') : Current(rx[i])'
    BY <1>2, <1>3 DEF OrderInv
<1>6. \A i \in 1 .. Len(rx'), j \in 1 .. Len(chan') : Follows(rx[i], chan[j])'
    BY <1>2 DEF OrderInv
<1>7. \A i, j \in 1 .. Len(chan') : i < j => Follows(chan[i], chan[j])'
    BY <1>1 DEF OrderInv
<1>8. admitted' <= answered' /\ answered' <= asked' /\ asked' <= token'
    BY DEF OrderInv, Tokens
<1> QED BY <1>4, <1>5, <1>6, <1>7, <1>8 DEF OrderInv

\* The keys that a step presses (the action of KeysFollowTheirAdmission).
NewKeysAreAdmitted == \A h \in held' \ held : h.from # "mainboard" => rx[1].after >= admitted

\* The sources and the keys keep their types.
LEMMA KeyTypesStep == IInv /\ [Next]_vars => KeyTypes'
<1> SUFFICES ASSUME IInv, [Next]_vars PROVE KeyTypes'
    OBVIOUS
<1>1. KeyTypes
    BY DEF IInv
<1>2. CallType
    BY DEF IInv
<1>3. FrameTypes
    BY DEF IInv
<1>4. CASE UNCHANGED vars
    BY <1>1, <1>2, <1>4 DEF KeyTypes, vars, keys
<1>5. CASE Interrupt
  <2>1. CASE RxHeader
    <3>1. CASE HeaderFaults
      BY <1>1, <2>1, <3>1, RxHeaderCases DEF KeyTypes, stream, HeaderFaults, Fault,
         UartStops, AsyncAbort, Cleanup
    <3>2. CASE HeaderStarts
      BY <1>1, <2>1, <3>2, RxHeaderCases DEF KeyTypes, stream, HeaderStarts, keys,
         flags
    <3> QED BY <2>1, <3>1, <3>2, RxHeaderCases
  <2>2. CASE RxFrame
    <3>1. /\ owned = 1 /\ armed /\ ~faulted /\ rx # <<>>
          /\ UNCHANGED <<peer, stream, token, console, fg>>
      BY <2>2, RxFrameCases
    <3>2. rx[1] \in Frames
      BY <1>3, <3>1 DEF FrameTypes
    <3>3. CASE FrameAdmits
      BY <1>1, <3>3 DEF KeyTypes, FrameAdmits
    <3>4. CASE FrameAcknowledges
      BY <1>1, <1>2, <3>4 DEF KeyTypes, FrameAcknowledges, keys
    <3>5. CASE FramePresses
      BY <1>1, <1>2, <3>5, <3>2, KeyFrames DEF KeyTypes, stream, FramePresses, Publish
    <3>6. CASE FrameFaults
      BY <1>1, <1>2, <3>6 DEF KeyTypes, stream, FrameFaults, Fault, Cleanup
    <3>7. CASE FrameIsDropped
      BY <1>1, <1>2, <1>3, <3>1, <3>7 DEF KeyTypes, FrameIsDropped, keys
    <3> QED BY <2>2, <3>3, <3>4, <3>5, <3>6, <3>7, RxFrameCases
  <2>3. CASE RxLineError
    BY <1>1, <1>2, <1>3, <2>3 DEF KeyTypes, RxLineError, Fault, Cleanup
  <2>4. CASE Tick
    BY <1>1, <2>4 DEF KeyTypes, Sources, Tick, Cleanup, FaultDue, Fault
  <2>5. CASE AsyncByte
    BY <1>1, <1>2, <1>3, <2>5 DEF KeyTypes, CallType, AsyncByte, SendByte, Fault,
       Cleanup
  <2> QED BY <1>5, <2>1, <2>2, <2>3, <2>4, <2>5 DEF Interrupt
<1>6. CASE SelectStep
  <2>1. CASE StopAsk
    BY <1>1, <1>2, <1>3, <2>1 DEF KeyTypes, CallType, StopAsk, keys
  <2>2. CASE StopEnd
    BY <1>1, <1>2, <1>3, <2>2 DEF KeyTypes, CallType, StopEnd, keys
  <2>3. CASE SelectOpen
    BY <1>1, <1>2, <2>3, SelectOpenCases DEF KeyTypes, CallType, Calls
  <2>4. CASE SelectReplied
    BY <1>1, <2>4 DEF KeyTypes, Sources, SelectReplied, keys
  <2>5. CASE SelectFail
    BY <1>1, <2>5 DEF KeyTypes, Sources, SelectFail, keys
  <2>6. CASE SelectDone
    BY <1>1, <1>2, <1>3, <2>6 DEF KeyTypes, CallType, SelectDone, keys
  <2> QED BY <1>6, <2>1, <2>2, <2>3, <2>4, <2>5, <2>6 DEF SelectStep
<1>7. CASE SendStep
  <2>1. CASE TxByte
    BY <1>1, <1>2, <1>3, <2>1 DEF KeyTypes, CallType, TxByte, keys
  <2>2. CASE TxFails
    BY <1>1, <2>2 DEF KeyTypes, Sources, TxFails, keys
  <2>3. CASE SendFail
    BY <1>1, <2>3 DEF KeyTypes, Sources, SendFail, keys
  <2>4. CASE SendEnd
    BY <1>1, <1>2, <1>3, <2>4 DEF KeyTypes, CallType, SendEnd, keys
  <2> QED BY <1>7, <2>1, <2>2, <2>3, <2>4 DEF SendStep
<1>8. CASE LayoutStep
  <2>1. CASE LayoutPoll
    BY <1>1, <1>2, <2>1 DEF KeyTypes, LayoutPoll, keys
  <2>2. CASE LayoutWait
    BY <1>1, <1>2, <1>3, <2>2 DEF KeyTypes, CallType, LayoutWait, keys
  <2>3. CASE LayoutFail
    BY <1>1, <2>3 DEF KeyTypes, Sources, LayoutFail, keys
  <2>4. CASE LayoutEnd
    BY <1>1, <1>2, <1>3, <2>4 DEF KeyTypes, CallType, LayoutEnd, keys
  <2> QED BY <1>8, <2>1, <2>2, <2>3, <2>4 DEF LayoutStep
<1>9. CASE Call
  <2>1. CASE Send
    BY <1>1, <1>2, <2>1 DEF KeyTypes, Send, keys
  <2>2. CASE ParallelSend
    BY <1>1, <1>2, <2>2 DEF KeyTypes, ParallelSend, keys
  <2>3. CASE QueueTelemetry
    BY <1>1, <1>2, <2>3 DEF KeyTypes, QueueTelemetry, keys
  <2>4. CASE Layout
    BY <1>1, <1>2, <2>4 DEF KeyTypes, Layout, keys
  <2>5. ASSUME NEW s \in Remotes \cup {"mainboard"}, Select(s) PROVE KeyTypes'
    BY <1>1, <1>2, <2>5 DEF KeyTypes, Select, keys
  <2>6. CASE ConsoleClaim
    BY <1>1, <2>6 DEF KeyTypes, ConsoleClaim, keys
  <2>7. CASE ConsoleRelease
    BY <1>1, <1>2, <1>3, <2>7 DEF KeyTypes, CallType, ConsoleRelease, keys
  <2>8. CASE ParallelReserve
    BY <1>1, <1>2, <2>8 DEF KeyTypes, ParallelReserve, keys
  <2>9. CASE ParallelPark
    BY <1>1, <1>2, <1>3, <2>9 DEF KeyTypes, CallType, ParallelPark, keys
  <2>10. CASE ParallelUnpark
    BY <1>1, <1>2, <2>10 DEF KeyTypes, ParallelUnpark, keys
  <2>11. CASE ParallelRelease
    BY <1>1, <1>2, <2>11 DEF KeyTypes, ParallelRelease, keys
  <2> QED BY <1>9, <2>1, <2>2, <2>3, <2>4, <2>5, <2>6, <2>7, <2>8, <2>9, <2>10, <2>11
     DEF Call
<1>10. CASE Environment
  <2>1. CASE PeerReply
    BY <1>1, <1>2, <1>3, <2>1 DEF KeyTypes, PeerReply, PeerFrame, keys
  <2>2. CASE PeerBad
    BY <1>1, <1>2, <1>3, <2>2 DEF KeyTypes, PeerBad, PeerFrame, keys
  <2>3. ASSUME NEW k \in Keys, PeerKey(k) PROVE KeyTypes'
    BY <1>1, <1>2, <1>3, <2>3 DEF KeyTypes, PeerKey, PeerFrame, keys
  <2>4. ASSUME NEW k \in Keys, MainboardKey(k) PROVE KeyTypes'
    BY <1>1, <1>2, <2>4 DEF KeyTypes, MainboardKey, Publish
  <2> QED BY <1>10, <2>1, <2>2, <2>3, <2>4 DEF Environment
<1> QED BY <1>4, <1>5, <1>6, <1>7, <1>8, <1>9, <1>10 DEF Next

\* The flags stay Boolean.
LEMMA FlagTypesStep == IInv /\ [Next]_vars => FlagTypes'
<1> SUFFICES ASSUME IInv, [Next]_vars PROVE FlagTypes'
    OBVIOUS
<1>1. FlagTypes
    BY DEF IInv
<1>2. CallType
    BY DEF IInv
<1>3. CASE UNCHANGED vars
    BY <1>1, <1>2, <1>3 DEF FlagTypes, vars, owners, port, flags, stream
<1>4. CASE Interrupt
  <2>1. CASE RxHeader
    <3>1. CASE HeaderFaults
      BY <1>1, <1>2, <2>1, <3>1, RxHeaderCases DEF FlagTypes, stream, HeaderFaults,
         Fault, UartStops, AsyncAbort
    <3>2. CASE HeaderStarts
      BY <1>1, <1>2, <2>1, <3>2, RxHeaderCases DEF FlagTypes, HeaderStarts, owners,
         port, keys, flags, RxHeader, stream
    <3> QED BY <2>1, <3>1, <3>2, RxHeaderCases
  <2>2. CASE RxFrame
    <3>1. /\ owned = 1 /\ armed /\ ~faulted /\ rx # <<>>
          /\ UNCHANGED <<peer, stream, token, console, fg>>
      BY <2>2, RxFrameCases
    <3>2. CASE FrameAdmits
      BY <1>1, <1>2, <3>1, <3>2 DEF FlagTypes, stream, FrameAdmits, owners, port
    <3>3. CASE FrameAcknowledges
      BY <1>1, <3>1, <3>3 DEF FlagTypes, stream, FrameAcknowledges, owners, port
    <3>4. CASE FramePresses
      BY <1>1, <3>1, <3>4 DEF FlagTypes, stream, FramePresses, owners, port, flags
    <3>5. CASE FrameFaults
      BY <1>1, <3>1, <3>5 DEF FlagTypes, stream, FrameFaults, Fault, UartStops,
         AsyncAbort
    <3>6. CASE FrameIsDropped
      BY <1>1, <1>2, <3>1, <3>6 DEF FlagTypes, stream, FrameIsDropped, owners, port,
         flags
    <3> QED BY <2>2, <3>2, <3>3, <3>4, <3>5, <3>6, RxFrameCases
  <2>3. CASE RxLineError
    BY <1>1, <1>2, <2>3 DEF FlagTypes, RxLineError, Fault, stream, UartStops,
       AsyncAbort
  <2>4. CASE Tick
    <3>1. forgotten' \in BOOLEAN /\ wire' \in BOOLEAN /\ mixed' \in BOOLEAN
      BY <1>1, <2>4, ZenonT(30) DEF FlagTypes, Tick, Forgets
    <3> QED BY <1>1, <1>2, <2>4, <3>1 DEF FlagTypes, CallType, Tick, AsyncAbort, UartStops, Fault,
          flags, peer
  <2>5. CASE AsyncByte
    BY <1>1, <1>2, <2>5 DEF FlagTypes, AsyncByte, SendByte, Fault, stream, UartStops,
       AsyncAbort
  <2> QED BY <1>4, <2>1, <2>2, <2>3, <2>4, <2>5 DEF Interrupt
<1>5. CASE SelectStep
  <2>1. CASE StopAsk
    BY <1>1, <1>2, <2>1 DEF FlagTypes, StopAsk, owners, port, stream
  <2>2. CASE StopEnd
    BY ZenonT(60), <1>1, <1>2, <2>2 DEF FlagTypes, CallType, StopEnd, UartCloses, Goto, owners,
       keys, peer, stream
  <2>3. CASE SelectOpen
    BY <1>1, <2>3, SelectOpenCases DEF FlagTypes
  <2>4. CASE SelectReplied
    BY <1>1, <1>2, <2>4 DEF FlagTypes, CallType, SelectReplied, owners, port, flags,
       stream
  <2>5. CASE SelectFail
    <3>1. forgotten' \in BOOLEAN /\ wire' \in BOOLEAN /\ mixed' \in BOOLEAN
      BY <1>1, <2>5, ZenonT(30) DEF FlagTypes, SelectFail, Forgets
    <3> QED BY <1>1, <1>2, <2>5, <3>1 DEF FlagTypes, CallType, Calls, SelectFail, UartCloses, owners,
          peer
  <2>6. CASE SelectDone
    BY <1>1, <1>2, <2>6, ZenonT(30) DEF FlagTypes, SelectDone, port, flags, stream
  <2> QED BY <1>5, <2>1, <2>2, <2>3, <2>4, <2>5, <2>6 DEF SelectStep
<1>6. CASE SendStep
  <2>1. CASE TxByte
    BY <1>1, <1>2, <2>1 DEF FlagTypes, TxByte, SendByte, owners, port, flags
  <2>2. CASE TxFails
    BY ZenonT(60), <1>1, <1>2, <2>2 DEF FlagTypes, CallType, Calls, TxFails, Sending, UartStops,
       RequestFault, owners, keys, peer, stream, At
  <2>3. CASE SendFail
    BY <1>1, <1>2, <2>3 DEF FlagTypes, CallType, SendFail, RequestFault, owners, port,
       stream
  <2>4. CASE SendEnd
    BY ZenonT(60), <1>1, <1>2, <2>4 DEF FlagTypes, CallType, Calls, SendEnd, At, Idle, port,
       keys, flags, peer, stream
  <2> QED BY <1>6, <2>1, <2>2, <2>3, <2>4 DEF SendStep
<1>7. CASE LayoutStep
  <2>1. CASE LayoutPoll
    BY <1>1, <1>2, <2>1 DEF FlagTypes, LayoutPoll, owners, port, stream
  <2>2. CASE LayoutWait
    BY <1>1, <1>2, <2>2 DEF FlagTypes, LayoutWait, owners, port, stream
  <2>3. CASE LayoutFail
    BY <1>1, <1>2, <2>3 DEF FlagTypes, CallType, LayoutFail, RequestFault, owners,
       port, stream
  <2>4. CASE LayoutEnd
    BY <1>1, <1>2, <2>4, ZenonT(30) DEF FlagTypes, LayoutEnd, port, flags, stream
  <2> QED BY <1>7, <2>1, <2>2, <2>3, <2>4 DEF LayoutStep
<1>8. CASE Call
  <2>1. CASE Send
    BY <1>1, <1>2, <2>1 DEF FlagTypes, Send, port, flags, stream
  <2>2. CASE ParallelSend
    BY <1>1, <1>2, <2>2 DEF FlagTypes, ParallelSend, port, flags, stream
  <2>3. CASE QueueTelemetry
    BY <1>1, <1>2, <2>3, ZenonT(30) DEF FlagTypes, QueueTelemetry, port, flags, stream
  <2>4. CASE Layout
    BY <1>1, <1>2, <2>4 DEF FlagTypes, Layout, port, flags, stream
  <2>5. ASSUME NEW s \in Remotes \cup {"mainboard"}, Select(s) PROVE FlagTypes'
    BY <1>1, <1>2, <2>5, ZenonT(30) DEF FlagTypes, Select, port, flags, stream
  <2>6. CASE ConsoleClaim
    BY <1>1, <2>6 DEF FlagTypes, ConsoleClaim, UartOpens, owners
  <2>7. CASE ConsoleRelease
    BY <1>1, <1>2, <2>7, ZenonT(30) DEF FlagTypes, ConsoleRelease, UartCloses, owners, keys, flags,
       peer, stream
  <2>8. CASE ParallelReserve
    BY <1>1, <1>2, <2>8, ZenonT(30) DEF FlagTypes, ParallelReserve, port, flags, stream
  <2>9. CASE ParallelPark
    BY <1>1, <1>2, <2>9 DEF FlagTypes, ParallelPark, UartStops, RequestFault, owners,
       stream
  <2>10. CASE ParallelUnpark
    BY <1>1, <1>2, <2>10 DEF FlagTypes, ParallelUnpark, owners, flags, stream
  <2>11. CASE ParallelRelease
    BY <1>1, <1>2, <2>11, ZenonT(30) DEF FlagTypes, ParallelRelease, port, flags, stream
  <2> QED BY <1>8, <2>1, <2>2, <2>3, <2>4, <2>5, <2>6, <2>7, <2>8, <2>9, <2>10, <2>11
     DEF Call
<1>9. CASE Environment
  <2>1. CASE PeerReply
    BY <1>1, <1>2, <2>1 DEF FlagTypes, PeerReply, PeerFrame, owners, port, flags,
       stream
  <2>2. CASE PeerBad
    BY <1>1, <1>2, <2>2 DEF FlagTypes, PeerBad, PeerFrame, owners, port, flags, stream
  <2>3. ASSUME NEW k \in Keys, PeerKey(k) PROVE FlagTypes'
    BY <1>1, <1>2, <2>3 DEF FlagTypes, PeerKey, PeerFrame, owners, port, flags, stream
  <2>4. ASSUME NEW k \in Keys, MainboardKey(k) PROVE FlagTypes'
    BY <1>1, <1>2, <2>4 DEF FlagTypes, MainboardKey, owners, port, flags, stream
  <2> QED BY <1>9, <2>1, <2>2, <2>3, <2>4 DEF Environment
<1> QED BY <1>3, <1>4, <1>5, <1>6, <1>7, <1>8, <1>9 DEF Next

\* The counts keep their ranges.
LEMMA CountsStep == IInv /\ [Next]_vars => Counts'
<1> SUFFICES ASSUME IInv, [Next]_vars PROVE Counts'
    OBVIOUS
<1>1. Counts
    BY DEF IInv
<1>2. CASE UNCHANGED vars
    BY <1>1, <1>2 DEF Counts, vars, owners, port
<1>3. CASE Interrupt
  <2>1. CASE RxHeader
    <3>1. CASE HeaderFaults
      BY <1>1, <3>1 DEF Counts, HeaderFaults, Fault, AsyncAbort
    <3>2. CASE HeaderStarts
      BY <1>1, <2>1, <3>2, RxHeaderCases DEF Counts, peer, HeaderStarts, owners, port
    <3> QED BY <2>1, <3>1, <3>2, RxHeaderCases
  <2>2. CASE RxFrame
    <3>1. /\ owned = 1 /\ armed /\ ~faulted /\ rx # <<>>
          /\ UNCHANGED <<peer, stream, token, console, fg>>
      BY <2>2, RxFrameCases
    <3>2. CASE FrameAdmits
      BY <1>1, <3>2 DEF Counts, FrameAdmits, owners, port
    <3>3. CASE FrameAcknowledges
      BY <1>1, <3>1, <3>3 DEF Counts, FrameAcknowledges, owners, port
    <3>4. CASE FramePresses
      BY <1>1, <3>1, <3>4 DEF Counts, FramePresses, owners, port
    <3>5. CASE FrameFaults
      BY <1>1, <3>1, <3>5 DEF Counts, FrameFaults, Fault, AsyncAbort
    <3>6. CASE FrameIsDropped
      BY <1>1, <3>6 DEF Counts, FrameIsDropped, owners, port
    <3> QED BY <2>2, <3>2, <3>3, <3>4, <3>5, <3>6, RxFrameCases
  <2>3. CASE RxLineError
    BY <1>1, <2>3 DEF Counts, RxLineError, Fault, AsyncAbort
  <2>4. CASE Tick
    BY <1>1, <2>4 DEF Counts, Tick, AsyncAbort, Fault
  <2>5. CASE AsyncByte
    BY <1>1, <2>5 DEF Counts, AsyncByte, Fault, AsyncAbort
  <2> QED BY <1>3, <2>1, <2>2, <2>3, <2>4, <2>5 DEF Interrupt
<1>4. CASE SelectStep
  <2>1. CASE StopAsk
    BY <1>1, <2>1 DEF Counts, StopAsk, owners, port
  <2>2. CASE StopEnd
    BY <1>1, <2>2 DEF Counts, StopEnd, UartCloses, owners
  <2>3. CASE SelectOpen
    BY <1>1, <2>3, SelectOpenCases DEF Counts
  <2>4. CASE SelectReplied
    BY <1>1, <2>4 DEF Counts, SelectReplied, owners, port
  <2>5. CASE SelectFail
    BY <1>1, <2>5 DEF Counts, SelectFail, UartCloses, owners
  <2>6. CASE SelectDone
    BY <1>1, <2>6 DEF Counts, SelectDone, port
  <2> QED BY <1>4, <2>1, <2>2, <2>3, <2>4, <2>5, <2>6 DEF SelectStep
<1>5. CASE SendStep
  <2>1. CASE TxByte
    BY <1>1, <2>1 DEF Counts, TxByte, owners, port
  <2>2. CASE TxFails
    BY <1>1, <2>2 DEF Counts, TxFails, owners
  <2>3. CASE SendFail
    BY <1>1, <2>3 DEF Counts, SendFail, owners, port
  <2>4. CASE SendEnd
    BY <1>1, <2>4 DEF Counts, SendEnd, port
  <2> QED BY <1>5, <2>1, <2>2, <2>3, <2>4 DEF SendStep
<1>6. CASE LayoutStep
  <2>1. CASE LayoutPoll
    BY <1>1, <2>1 DEF Counts, LayoutPoll, owners, port
  <2>2. CASE LayoutWait
    BY <1>1, <2>2 DEF Counts, LayoutWait, owners, port
  <2>3. CASE LayoutFail
    BY <1>1, <2>3 DEF Counts, LayoutFail, owners, port
  <2>4. CASE LayoutEnd
    BY <1>1, <2>4 DEF Counts, LayoutEnd, port
  <2> QED BY <1>6, <2>1, <2>2, <2>3, <2>4 DEF LayoutStep
<1>7. CASE Call
  <2>1. CASE Send
    BY <1>1, <2>1 DEF Counts, Send, port
  <2>2. CASE ParallelSend
    BY <1>1, <2>2 DEF Counts, ParallelSend, port
  <2>3. CASE QueueTelemetry
    BY <1>1, <2>3 DEF Counts, QueueTelemetry, port
  <2>4. CASE Layout
    BY <1>1, <2>4 DEF Counts, Layout, port
  <2>5. ASSUME NEW s \in Remotes \cup {"mainboard"}, Select(s) PROVE Counts'
    BY <1>1, <2>5 DEF Counts, Select, port
  <2>6. CASE ConsoleClaim
    BY <1>1, <2>6 DEF Counts, ConsoleClaim, UartOpens, owners
  <2>7. CASE ConsoleRelease
    BY <1>1, <2>7 DEF Counts, ConsoleRelease, UartCloses, owners
  <2>8. CASE ParallelReserve
    BY <1>1, <2>8 DEF Counts, ParallelReserve, port
  <2>9. CASE ParallelPark
    BY <1>1, <2>9 DEF Counts, ParallelPark, owners
  <2>10. CASE ParallelUnpark
    BY <1>1, <2>10 DEF Counts, ParallelUnpark, owners
  <2>11. CASE ParallelRelease
    BY <1>1, <2>11 DEF Counts, ParallelRelease, port
  <2> QED BY <1>7, <2>1, <2>2, <2>3, <2>4, <2>5, <2>6, <2>7, <2>8, <2>9, <2>10, <2>11
     DEF Call
<1>8. CASE Environment
  <2>1. CASE PeerReply
    BY <1>1, <2>1 DEF Counts, PeerReply, PeerFrame, owners, port
  <2>2. CASE PeerBad
    BY <1>1, <2>2 DEF Counts, PeerBad, PeerFrame, owners, port
  <2>3. ASSUME NEW k \in Keys, PeerKey(k) PROVE Counts'
    BY <1>1, <2>3 DEF Counts, PeerKey, PeerFrame, owners, port
  <2>4. ASSUME NEW k \in Keys, MainboardKey(k) PROVE Counts'
    BY <1>1, <2>4 DEF Counts, MainboardKey, owners, port
  <2> QED BY <1>8, <2>1, <2>2, <2>3, <2>4 DEF Environment
<1> QED BY <1>2, <1>3, <1>4, <1>5, <1>6, <1>7, <1>8 DEF Next

\* The call keeps its type.
LEMMA CallTypeStep == IInv /\ [Next]_vars => CallType'
<1> SUFFICES ASSUME IInv, [Next]_vars PROVE CallType'
    OBVIOUS
<1>1. CallType
    BY DEF IInv
<1>2. KeyTypes
    BY DEF IInv
<1>3. FlagTypes
    BY DEF IInv
<1>4. CASE UNCHANGED vars
    BY <1>1, <1>4 DEF CallType, vars
<1>5. CASE Interrupt
  <2>1. CASE RxHeader
    BY <1>1, <2>1 DEF CallType, RxHeader
  <2>2. CASE RxFrame
    BY <1>1, <2>2, RxFrameCases DEF CallType
  <2>3. CASE RxLineError
    BY <1>1, <2>3 DEF CallType, RxLineError
  <2>4. CASE Tick
    BY <1>1, <2>4 DEF CallType, Tick
  <2>5. CASE AsyncByte
    BY <1>1, <2>5 DEF CallType, AsyncByte
  <2> QED BY <1>5, <2>1, <2>2, <2>3, <2>4, <2>5 DEF Interrupt
<1>6. CASE SelectStep
  <2>1. CASE StopAsk
    BY <1>1, <2>1 DEF CallType, Calls, Steps, StopAsk, Goto
  <2>2. CASE StopEnd
    BY <1>1, <2>2 DEF CallType, Calls, Steps, StopEnd, Goto
  <2>3. CASE SelectOpen
    <3>1. CASE fg' = [fg EXCEPT !.pc = "tx", !.left = 4, !.then = "selectWait"]
      BY <1>1, <3>1, CallEdits, StepNames, Zenon DEF CallType
    <3>2. CASE fg' = [fg EXCEPT !.pc = "selectFail"]
      BY <1>1, <3>2 DEF CallType, Calls, Steps
    <3> QED BY <2>3, <3>1, <3>2, SelectOpenCases
  <2>4. CASE SelectReplied
    BY <1>1, <2>4 DEF CallType, Calls, Steps, SelectReplied, Goto
  <2>5. CASE SelectFail
    BY <1>1, <2>5 DEF CallType, Calls, Steps, SelectFail, Goto
  <2>6. CASE SelectDone
    BY <2>6 DEF CallType, Calls, Steps, Sources, SelectDone, Idle
  <2> QED BY <1>6, <2>1, <2>2, <2>3, <2>4, <2>5, <2>6 DEF SelectStep
<1>7. CASE SendStep
  <2>1. CASE TxByte
    <3>1. fg.left - 1 \in 0 .. 4 /\ fg.then \in Steps
      BY <1>1, <2>1 DEF CallType, Calls, TxByte, Sending
    <3>2. \E p \in Steps : fg' = [fg EXCEPT !.left = fg.left - 1, !.pc = p]
      BY <2>1, <3>1, StepNames DEF TxByte
    <3> QED BY <1>1, <3>1, <3>2 DEF CallType, Calls
  <2>2. CASE TxFails
    BY <1>1, <2>2 DEF CallType, Calls, Steps, TxFails
  <2>3. CASE SendFail
    BY <1>1, <2>3 DEF CallType, Calls, Steps, SendFail, Goto
  <2>4. CASE SendEnd
    BY <2>4 DEF CallType, Calls, Steps, Sources, SendEnd, Idle
  <2> QED BY <1>7, <2>1, <2>2, <2>3, <2>4 DEF SendStep
<1>8. CASE LayoutStep
  <2>1. CASE LayoutPoll
    <3>1. fg' = [fg EXCEPT !.pc = "tx", !.left = 2, !.then = "layoutWait"]
      BY <2>1 DEF LayoutPoll
    <3> QED BY <1>1, <3>1, CallEdits, StepNames, Zenon DEF CallType
  <2>2. CASE LayoutWait
    BY <1>1, <2>2 DEF CallType, Calls, Steps, LayoutWait, Goto
  <2>3. CASE LayoutFail
    BY <1>1, <2>3 DEF CallType, Calls, Steps, LayoutFail, Goto
  <2>4. CASE LayoutEnd
    BY <2>4 DEF CallType, Calls, Steps, Sources, LayoutEnd, Idle
  <2> QED BY <1>8, <2>1, <2>2, <2>3, <2>4 DEF LayoutStep
<1>9. CASE Call
  <2>1. CASE Send
    <3>1. fg' = [fg EXCEPT !.pc = "tx", !.left = 2, !.then = "sendEnd"]
      BY <2>1 DEF Send
    <3> QED BY <1>1, <3>1, CallEdits, StepNames, Zenon DEF CallType
  <2>2. CASE ParallelSend
    <3>1. fg' = [fg EXCEPT !.pc = "tx", !.left = 2, !.then = "sendEnd"]
      BY <2>2 DEF ParallelSend
    <3> QED BY <1>1, <3>1, CallEdits, StepNames, Zenon DEF CallType
  <2>3. CASE QueueTelemetry
    BY <1>1, <2>3 DEF CallType, QueueTelemetry
  <2>4. CASE Layout
    <3>1. CASE fg' = [fg EXCEPT !.pc = "tx", !.left = 2, !.then = "layoutPoll"]
      BY <1>1, <3>1, CallEdits, StepNames, Zenon DEF CallType
    <3>2. CASE fg' = [fg EXCEPT !.pc = "tx", !.left = 2, !.then = "layoutEnd"]
      BY <1>1, <3>2, CallEdits, StepNames, Zenon DEF CallType
    <3> QED BY <2>4, <3>1, <3>2 DEF Layout
  <2>5. ASSUME NEW s \in Remotes \cup {"mainboard"}, Select(s) PROVE CallType'
    <3>1. fg.pc = "idle"
      BY <2>5 DEF Select, At
    <3>2. \E p \in Steps : fg' = [fg EXCEPT !.pc = p, !.target = s, !.prev = faulted, !.was = source]
      BY <2>5, StepNames DEF Select
    <3> QED BY <1>1, <1>2, <1>3, <3>2 DEF CallType, Calls, KeyTypes, FlagTypes, Sources
  <2>6. CASE ConsoleClaim
    BY <1>1, <2>6 DEF CallType, ConsoleClaim
  <2>7. CASE ConsoleRelease
    BY <1>1, <2>7 DEF CallType, ConsoleRelease
  <2>8. CASE ParallelReserve
    BY <1>1, <2>8 DEF CallType, ParallelReserve
  <2>9. CASE ParallelPark
    BY <1>1, <2>9 DEF CallType, ParallelPark
  <2>10. CASE ParallelUnpark
    BY <1>1, <2>10 DEF CallType, ParallelUnpark
  <2>11. CASE ParallelRelease
    BY <1>1, <2>11 DEF CallType, ParallelRelease
  <2> QED BY <1>9, <2>1, <2>2, <2>3, <2>4, <2>5, <2>6, <2>7, <2>8, <2>9, <2>10, <2>11
     DEF Call
<1>10. CASE Environment
  <2>1. CASE PeerReply
    BY <1>1, <2>1 DEF CallType, PeerReply, PeerFrame
  <2>2. CASE PeerBad
    BY <1>1, <2>2 DEF CallType, PeerBad, PeerFrame
  <2>3. ASSUME NEW k \in Keys, PeerKey(k) PROVE CallType'
    BY <1>1, <2>3 DEF CallType, PeerKey, PeerFrame
  <2>4. ASSUME NEW k \in Keys, MainboardKey(k) PROVE CallType'
    BY <1>1, <2>4 DEF CallType, MainboardKey
  <2> QED BY <1>10, <2>1, <2>2, <2>3, <2>4 DEF Environment
<1> QED BY <1>4, <1>5, <1>6, <1>7, <1>8, <1>9, <1>10 DEF Next

\* Tokens stay within their bound.
LEMMA TokensStep == IInv /\ [Next]_vars => Tokens'
<1> SUFFICES ASSUME IInv, [Next]_vars PROVE Tokens'
    OBVIOUS
<1>1. Tokens
    BY DEF IInv
<1>2. CallType
    BY DEF IInv
<1>3. CallInv
    BY DEF IInv
<1>4. CASE UNCHANGED vars
    BY <1>1, <1>2, <1>3, <1>4, BoundsAssumption DEF Tokens, CallInv, vars, keys, peer
<1>5. CASE Interrupt
  <2>1. CASE RxHeader
    <3>1. CASE HeaderFaults
      BY <1>1, <1>2, <2>1, <3>1, RxHeaderCases DEF Tokens, HeaderFaults
    <3>2. CASE HeaderStarts
      BY <1>1, BoundsAssumption, <2>1 DEF Tokens, CallType, port, keys, flags, RxHeader
    <3> QED BY <2>1, <3>1, <3>2, RxHeaderCases
  <2>2. CASE RxFrame
    <3>1. /\ owned = 1 /\ armed /\ ~faulted /\ rx # <<>>
          /\ UNCHANGED <<peer, stream, token, console, fg>>
      BY <2>2, RxFrameCases
    <3>2. CASE FrameAdmits
      BY <1>1, <1>2, <3>1, <3>2 DEF Tokens, CallType, peer, FrameAdmits
    <3>3. CASE FrameAcknowledges
      BY <1>1, BoundsAssumption, <3>1, <3>3 DEF Tokens, CallInv, peer, stream,
         FrameAcknowledges, port, keys
    <3>4. CASE FramePresses
      BY <1>1, BoundsAssumption, <3>1, <3>4 DEF Tokens, CallInv, peer, FramePresses
    <3>5. CASE FrameFaults
      BY <1>1, BoundsAssumption, <3>1, <3>5 DEF Tokens, CallInv, peer, FrameFaults
    <3>6. CASE FrameIsDropped
      BY <1>1, <3>1, <3>6 DEF Tokens, peer, FrameIsDropped, keys
    <3> QED BY <2>2, <3>2, <3>3, <3>4, <3>5, <3>6, RxFrameCases
  <2>3. CASE RxLineError
    BY <1>1, <1>2, <1>3, <2>3 DEF Tokens, RxLineError, peer
  <2>4. CASE Tick
    BY <1>1, <1>2, <1>3, <2>4, BoundsAssumption DEF Tokens, Tick, peer
  <2>5. CASE AsyncByte
    BY <1>1, <2>5, BoundsAssumption DEF Tokens, CallType, AsyncByte, SendByte, peer
  <2> QED BY <1>5, <2>1, <2>2, <2>3, <2>4, <2>5 DEF Interrupt
<1>6. CASE SelectStep
  <2>1. CASE StopAsk
    BY <1>1, <2>1, BoundsAssumption DEF Tokens, CallType, StopAsk, At, port, keys, peer
  <2>2. CASE StopEnd
    BY <1>1, <2>2, BoundsAssumption DEF Tokens, CallType, StopEnd, At, owners, keys,
       peer
  <2>3. CASE SelectOpen
    BY <1>1, <1>3, BoundsAssumption, <2>3, SelectOpenCases DEF Tokens, CallInv
  <2>4. CASE SelectReplied
    BY <1>1, <1>2, <1>3, <2>4, BoundsAssumption DEF Tokens, CallInv, SelectReplied,
       keys, peer
  <2>5. CASE SelectFail
    BY <1>1, <1>2, <1>3, <2>5, BoundsAssumption DEF Tokens, CallInv, SelectFail, keys,
       peer
  <2>6. CASE SelectDone
    BY <1>1, <2>6, BoundsAssumption DEF Tokens, CallType, SelectDone, At, keys, flags,
       peer
  <2> QED BY <1>6, <2>1, <2>2, <2>3, <2>4, <2>5, <2>6 DEF SelectStep
<1>7. CASE SendStep
  <2>1. CASE TxByte
    BY <1>1, <2>1, BoundsAssumption DEF Tokens, CallType, TxByte, Sending, port, keys
  <2>2. CASE TxFails
    BY <1>1, <1>2, <1>3, <2>2, BoundsAssumption DEF Tokens, TxFails, keys, peer
  <2>3. CASE SendFail
    BY <1>1, <1>2, <1>3, <2>3, BoundsAssumption DEF Tokens, CallInv, SendFail, keys,
       peer
  <2>4. CASE SendEnd
    BY <1>1, <2>4, BoundsAssumption DEF Tokens, CallType, SendEnd, At, keys, flags,
       peer
  <2> QED BY <1>7, <2>1, <2>2, <2>3, <2>4 DEF SendStep
<1>8. CASE LayoutStep
  <2>1. CASE LayoutPoll
    BY <1>1, <1>2, <1>3, <2>1, BoundsAssumption DEF Tokens, CallInv, LayoutPoll, At,
       owners, keys, peer
  <2>2. CASE LayoutWait
    BY <1>1, <2>2, BoundsAssumption DEF Tokens, CallType, LayoutWait, At, port, keys,
       peer
  <2>3. CASE LayoutFail
    BY <1>1, <1>2, <1>3, <2>3, BoundsAssumption DEF Tokens, CallInv, LayoutFail, keys,
       peer
  <2>4. CASE LayoutEnd
    BY <1>1, <2>4, BoundsAssumption DEF Tokens, CallType, LayoutEnd, At, keys, flags,
       peer
  <2> QED BY <1>8, <2>1, <2>2, <2>3, <2>4 DEF LayoutStep
<1>9. CASE Call
  <2>1. CASE Send
    BY <1>1, <1>2, <1>3, <2>1, BoundsAssumption DEF Tokens, CallInv, Send, keys, peer
  <2>2. CASE ParallelSend
    BY <1>1, <1>2, <1>3, <2>2, BoundsAssumption DEF Tokens, CallInv, ParallelSend,
       keys, peer
  <2>3. CASE QueueTelemetry
    BY <1>1, <1>2, <1>3, <2>3, BoundsAssumption DEF Tokens, CallInv, QueueTelemetry,
       keys, peer
  <2>4. CASE Layout
    BY <1>1, <1>2, <1>3, <2>4, BoundsAssumption DEF Tokens, CallInv, Layout, keys, peer
  <2>5. ASSUME NEW s \in Remotes \cup {"mainboard"}, Select(s) PROVE Tokens'
    BY <1>1, <1>2, <1>3, <2>5, BoundsAssumption DEF Tokens, CallInv, Select, keys, peer
  <2>6. CASE ConsoleClaim
    BY <1>1, <1>2, <2>6 DEF Tokens, ConsoleClaim, keys, peer
  <2>7. CASE ConsoleRelease
    BY <1>1, <2>7, BoundsAssumption DEF Tokens, CallType, ConsoleRelease, At, keys,
       flags, peer
  <2>8. CASE ParallelReserve
    BY <1>1, <1>2, <1>3, <2>8, BoundsAssumption DEF Tokens, CallInv, ParallelReserve,
       keys, peer
  <2>9. CASE ParallelPark
    BY <1>1, <2>9, BoundsAssumption DEF Tokens, CallType, ParallelPark, At, owners,
       keys, peer
  <2>10. CASE ParallelUnpark
    BY <1>1, <1>2, <1>3, <2>10, BoundsAssumption DEF Tokens, CallInv, ParallelUnpark,
       keys, peer
  <2>11. CASE ParallelRelease
    BY <1>1, <1>2, <1>3, <2>11, BoundsAssumption DEF Tokens, CallInv, ParallelRelease,
       keys, peer
  <2> QED BY <1>9, <2>1, <2>2, <2>3, <2>4, <2>5, <2>6, <2>7, <2>8, <2>9, <2>10, <2>11
     DEF Call
<1>10. CASE Environment
  <2>1. CASE PeerReply
    BY <1>1, <1>2, <1>3, <2>1, BoundsAssumption DEF Tokens, CallInv, PeerReply,
       PeerFrame, keys
  <2>2. CASE PeerBad
    BY <1>1, <1>2, <1>3, <2>2, BoundsAssumption DEF Tokens, CallInv, PeerBad,
       PeerFrame, keys
  <2>3. ASSUME NEW k \in Keys, PeerKey(k) PROVE Tokens'
    BY <1>1, <1>2, <1>3, <2>3, BoundsAssumption DEF Tokens, CallInv, PeerKey,
       PeerFrame, keys
  <2>4. ASSUME NEW k \in Keys, MainboardKey(k) PROVE Tokens'
    BY <1>1, <1>2, <1>3, <2>4, BoundsAssumption DEF Tokens, MainboardKey, peer
  <2> QED BY <1>10, <2>1, <2>2, <2>3, <2>4 DEF Environment
<1> QED BY <1>4, <1>5, <1>6, <1>7, <1>8, <1>9, <1>10 DEF Next

\* The frames keep their types.
LEMMA FrameTypesStep == IInv /\ [Next]_vars => FrameTypes'
<1> SUFFICES ASSUME IInv, [Next]_vars PROVE FrameTypes'
    OBVIOUS
<1>1. FrameTypes
    BY DEF IInv
<1>2. Tokens
    BY DEF IInv
<1>3. CASE UNCHANGED vars
    BY <1>1, <1>3, FramesKept DEF vars, peer
<1>4. CASE Interrupt
  <2>1. CASE RxHeader
    <3>1. chan # <<>> /\ chan' = Tail(chan)
      BY <2>1 DEF RxHeader
    <3>2. age' = 0 /\ (rx' = <<>> \/ rx' = <<Head(chan)>>)
      BY <2>1 DEF RxHeader, Fault
    <3>3. chan \in Seq(Frames) /\ Len(chan) <= MaxFrames
      BY <1>1 DEF FrameTypes
    <3>4. Head(chan) \in Frames /\ Tail(chan) \in Seq(Frames) /\ Len(Tail(chan)) = Len(chan) - 1
      BY <3>1, <3>3
    <3>5. rx' \in Seq(Frames) /\ Len(rx') <= 1
      <4>1. CASE rx' = <<>>
        BY <4>1
      <4>2. CASE rx' = <<Head(chan)>>
        BY <3>4, <4>2
      <4> QED BY <3>2, <4>1, <4>2, SMTT(20)
    <3>6. age' \in 0 .. AgeLimit
      BY <3>2, BoundsAssumption
    <3>7. chan' \in Seq(Frames) /\ Len(chan') <= MaxFrames
      BY <3>1, <3>3, BoundsAssumption
    <3> QED BY <3>5, <3>6, <3>7 DEF FrameTypes
  <2>2. CASE RxFrame
    <3>1. /\ owned = 1 /\ armed /\ ~faulted /\ rx # <<>>
          /\ UNCHANGED <<peer, stream, token, console, fg>>
      BY <2>2, RxFrameCases
    <3>2. CASE FrameAdmits
      BY <1>1, FramesKept, <3>1, <3>2 DEF peer, FrameAdmits
    <3>3. CASE FrameAcknowledges
      BY <1>1, FramesKept, <3>1, <3>3 DEF peer, FrameAcknowledges
    <3>4. CASE FramePresses
      BY <1>1, FramesKept, <3>1, <3>4 DEF peer, FramePresses
    <3>5. CASE FrameFaults
      BY <1>1, FramesKept, <3>1, <3>5 DEF peer, FrameFaults, Fault
    <3>6. CASE FrameIsDropped
      BY <1>1, FramesKept, <3>1, <3>6 DEF peer, FrameIsDropped
    <3> QED BY <2>2, <3>2, <3>3, <3>4, <3>5, <3>6, RxFrameCases
  <2>3. CASE RxLineError
    BY <1>1, <2>3, FramesKept DEF RxLineError, Fault, peer
  <2>4. CASE Tick
    <3>1. chan' = chan
      BY <2>4 DEF Tick, peer
    <3>2. \/ rx' = <<>> /\ age' = 0
          \/ rx' = rx /\ age' = age
          \/ rx' = rx /\ age < AgeLimit /\ age' = age + 1
      BY <2>4 DEF Tick, Fault
    <3>3. CASE rx' = rx /\ age < AgeLimit /\ age' = age + 1
      BY <1>1, <3>1, <3>3, BoundsAssumption DEF FrameTypes
    <3> QED BY <1>1, <3>1, <3>2, <3>3, FramesKept
  <2>5. CASE AsyncByte
    BY <1>1, <2>5, FramesKept DEF AsyncByte, Fault, peer
  <2> QED BY <1>4, <2>1, <2>2, <2>3, <2>4, <2>5 DEF Interrupt
<1>5. CASE SelectStep
  <2>1. CASE StopAsk
    BY <1>1, <2>1, FramesKept DEF StopAsk, peer
  <2>2. CASE StopEnd
    BY <1>1, <2>2, FramesKept DEF StopEnd, peer
  <2>3. CASE SelectOpen
    BY <1>1, <2>3, FramesKept, SelectOpenCases
  <2>4. CASE SelectReplied
    BY <1>1, <2>4, FramesKept DEF SelectReplied, peer
  <2>5. CASE SelectFail
    BY <1>1, <2>5, FramesKept DEF SelectFail, peer
  <2>6. CASE SelectDone
    BY <1>1, <2>6, FramesKept DEF SelectDone, peer
  <2> QED BY <1>5, <2>1, <2>2, <2>3, <2>4, <2>5, <2>6 DEF SelectStep
<1>6. CASE SendStep
  <2>1. CASE TxByte
    BY <1>1, <2>1, FramesKept DEF TxByte
  <2>2. CASE TxFails
    BY <1>1, <2>2, FramesKept DEF TxFails, peer
  <2>3. CASE SendFail
    BY <1>1, <2>3, FramesKept DEF SendFail, peer
  <2>4. CASE SendEnd
    BY <1>1, <2>4, FramesKept DEF SendEnd, peer
  <2> QED BY <1>6, <2>1, <2>2, <2>3, <2>4 DEF SendStep
<1>7. CASE LayoutStep
  <2>1. CASE LayoutPoll
    BY <1>1, <2>1, FramesKept DEF LayoutPoll, peer
  <2>2. CASE LayoutWait
    BY <1>1, <2>2, FramesKept DEF LayoutWait, peer
  <2>3. CASE LayoutFail
    BY <1>1, <2>3, FramesKept DEF LayoutFail, peer
  <2>4. CASE LayoutEnd
    BY <1>1, <2>4, FramesKept DEF LayoutEnd, peer
  <2> QED BY <1>7, <2>1, <2>2, <2>3, <2>4 DEF LayoutStep
<1>8. CASE Call
  <2>1. CASE Send
    BY <1>1, <2>1, FramesKept DEF Send, peer
  <2>2. CASE ParallelSend
    BY <1>1, <2>2, FramesKept DEF ParallelSend, peer
  <2>3. CASE QueueTelemetry
    BY <1>1, <2>3, FramesKept DEF QueueTelemetry, peer
  <2>4. CASE Layout
    BY <1>1, <2>4, FramesKept DEF Layout, peer
  <2>5. ASSUME NEW s \in Remotes \cup {"mainboard"}, Select(s) PROVE FrameTypes'
    BY <1>1, <2>5, FramesKept DEF Select, peer
  <2>6. CASE ConsoleClaim
    BY <1>1, <2>6, FramesKept DEF ConsoleClaim, peer
  <2>7. CASE ConsoleRelease
    BY <1>1, <2>7, FramesKept DEF ConsoleRelease, peer
  <2>8. CASE ParallelReserve
    BY <1>1, <2>8, FramesKept DEF ParallelReserve, peer
  <2>9. CASE ParallelPark
    BY <1>1, <2>9, FramesKept DEF ParallelPark, peer
  <2>10. CASE ParallelUnpark
    BY <1>1, <2>10, FramesKept DEF ParallelUnpark, peer
  <2>11. CASE ParallelRelease
    BY <1>1, <2>11, FramesKept DEF ParallelRelease, peer
  <2> QED BY <1>8, <2>1, <2>2, <2>3, <2>4, <2>5, <2>6, <2>7, <2>8, <2>9, <2>10, <2>11
     DEF Call
<1>9. CASE Environment
  <2>1. CASE PeerReply
    BY <1>1, <1>2, <2>1, BoundsAssumption DEF FrameTypes, PeerReply, PeerFrame, Frames,
       Tokens
  <2>2. CASE PeerBad
    BY <1>1, <1>2, <2>2, BoundsAssumption DEF FrameTypes, PeerBad, PeerFrame, Frames
  <2>3. ASSUME NEW k \in Keys, PeerKey(k) PROVE FrameTypes'
    BY <1>1, <1>2, <2>3, BoundsAssumption DEF FrameTypes, PeerKey, PeerFrame, Frames,
       Tokens
  <2>4. ASSUME NEW k \in Keys, MainboardKey(k) PROVE FrameTypes'
    BY <1>1, <2>4, FramesKept DEF MainboardKey, peer
  <2> QED BY <1>9, <2>1, <2>2, <2>3, <2>4 DEF Environment
<1> QED BY <1>3, <1>4, <1>5, <1>6, <1>7, <1>8, <1>9 DEF Next

\* A stop, a use of the reservation and a poll belong to their calls.
LEMMA CallInvStep == IInv /\ [Next]_vars => CallInv'
<1> SUFFICES ASSUME IInv, [Next]_vars PROVE CallInv'
    OBVIOUS
<1>1. FlagTypes
    BY DEF IInv
<1>2. Counts
    BY DEF IInv
<1>3. CallType
    BY DEF IInv
<1>4. CallInv
    BY DEF IInv
<1>5. SerializerHasOneHolder
    BY DEF IInv
<1>6. Tokens
    BY DEF IInv
<1>7. CASE UNCHANGED vars
    BY <1>4, <1>5, <1>6, <1>7 DEF CallInv, SerializerHasOneHolder, Tokens, vars,
       owners, flags
<1>8. CASE Interrupt
  <2>1. CASE RxHeader
    <3>1. CASE HeaderFaults
      BY <1>4, <1>5, <1>6, BoundsAssumption, <2>1, <3>1, RxHeaderCases DEF FlagTypes,
         Counts, CallType, Calls, CallInv, HeaderFaults
    <3>2. CASE HeaderStarts
      BY <1>4, <1>5, <1>6, BoundsAssumption, <2>1 DEF Calls, CallInv,
         SerializerHasOneHolder, Tokens, peer, owners, port, keys, flags, RxHeader,
         HeaderFaults
    <3> QED BY <2>1, <3>1, <3>2, RxHeaderCases
  <2>2. CASE RxFrame
    <3>1. /\ owned = 1 /\ armed /\ ~faulted /\ rx # <<>>
          /\ UNCHANGED <<peer, stream, token, console, fg>>
      BY <2>2, RxFrameCases
    <3>2. CASE FrameAdmits
      BY <1>3, <1>4, BoundsAssumption, <3>1, <3>2 DEF FlagTypes, Calls, CallInv,
         FrameAdmits, Matches, owners
    <3>3. CASE FrameAcknowledges
      BY <1>4, <1>5, <3>1, <3>3 DEF CallInv, SerializerHasOneHolder, stream,
         FrameAcknowledges, Matches, owners
    <3>4. CASE FramePresses
      BY <1>4, <1>5, <3>1, <3>4 DEF CallInv, SerializerHasOneHolder, stream,
         FramePresses, Publish, owners, port, flags
    <3>5. CASE FrameFaults
      BY <1>4, <1>5, <3>1, <3>5 DEF CallInv, SerializerHasOneHolder, stream,
         FrameFaults
    <3>6. CASE FrameIsDropped
      BY <1>4, <1>5, <1>6, BoundsAssumption, <3>1, <3>6 DEF FlagTypes, Counts,
         CallType, Calls, CallInv, SerializerHasOneHolder, stream, FrameIsDropped,
         owners, port, keys, flags
    <3> QED BY <2>2, <3>2, <3>3, <3>4, <3>5, <3>6, RxFrameCases
  <2>3. CASE RxLineError
    BY <1>4, <2>3 DEF CallInv, RxLineError
  <2>4. CASE Tick
    BY <1>4, <1>5, <1>6, <2>4, BoundsAssumption DEF FlagTypes, CallInv,
       SerializerHasOneHolder, Tokens, Tick, AsyncAbort, flags
  <2>5. CASE AsyncByte
    BY <1>4, <2>5, BoundsAssumption DEF CallInv, SerializerHasOneHolder, AsyncByte
  <2> QED BY <1>8, <2>1, <2>2, <2>3, <2>4, <2>5 DEF Interrupt
<1>9. CASE SelectStep
  <2>1. CASE StopAsk
    BY <1>4, <1>5, <1>6, <2>1 DEF Calls, CallInv, StopAsk, At, Goto, owners
  <2>2. CASE StopEnd
    BY <1>4, <1>5, <1>6, <2>2 DEF Calls, CallInv, StopEnd, At, UartCloses, Goto,
       owners, keys
  <2>3. CASE SelectOpen
    BY <1>3, <1>4, BoundsAssumption, <2>3, SelectOpenCases, SelectOpenCall DEF CallInv
  <2>4. CASE SelectReplied
    BY <1>4, <1>5, <1>6, <2>4, BoundsAssumption DEF FlagTypes, CallInv,
       SerializerHasOneHolder, Tokens, SelectReplied, At, Goto, owners, port, flags
  <2>5. CASE SelectFail
    BY <1>4, <1>5, <1>6, <2>5, BoundsAssumption DEF FlagTypes, CallInv,
       SerializerHasOneHolder, Tokens, SelectFail, At, SelectGivesUp, Goto, owners
  <2>6. CASE SelectDone
    BY <1>4, <1>5, <1>6, <2>6 DEF Calls, CallInv, SelectDone, At, Idle, port, keys,
       flags
  <2> QED BY <1>9, <2>1, <2>2, <2>3, <2>4, <2>5, <2>6 DEF SelectStep
<1>10. CASE SendStep
  <2>1. CASE TxByte
    BY <1>4, <1>5, <1>6, <2>1 DEF Calls, CallInv, TxByte, Sending, SendByte, owners,
       flags, At
  <2>2. CASE TxFails
    BY <1>4, <1>5, <1>6, <2>2, BoundsAssumption DEF FlagTypes, CallInv,
       SerializerHasOneHolder, Tokens, TxFails, Sending, UartStops, RequestFault,
       owners, At
  <2>3. CASE SendFail
    BY <1>4, <1>5, <1>6, <2>3, BoundsAssumption DEF FlagTypes, CallInv,
       SerializerHasOneHolder, Tokens, SendFail, At, Goto
  <2>4. CASE SendEnd
    BY <1>4, <1>5, <1>6, <2>4 DEF Calls, CallInv, SendEnd, At, Idle, port, keys, flags
  <2> QED BY <1>10, <2>1, <2>2, <2>3, <2>4 DEF SendStep
<1>11. CASE LayoutStep
  <2>1. CASE LayoutPoll
    BY <1>4, <1>5, <1>6, <2>1 DEF CallInv, SerializerHasOneHolder, Tokens, LayoutPoll,
       At, owners
  <2>2. CASE LayoutWait
    BY <1>4, <1>5, <1>6, <2>2 DEF Calls, CallInv, LayoutWait, At, Goto, owners
  <2>3. CASE LayoutFail
    BY <1>4, <1>5, <1>6, <2>3, BoundsAssumption DEF FlagTypes, CallInv,
       SerializerHasOneHolder, Tokens, LayoutFail, At, Goto, owners
  <2>4. CASE LayoutEnd
    BY <1>4, <1>5, <1>6, <2>4 DEF Calls, CallInv, LayoutEnd, At, Idle, port, keys,
       flags
  <2> QED BY <1>11, <2>1, <2>2, <2>3, <2>4 DEF LayoutStep
<1>12. CASE Call
  <2>1. CASE Send
    BY <1>6, <2>1 DEF CallInv, SerializerHasOneHolder, Tokens, Send, flags
  <2>2. CASE ParallelSend
    BY <1>6, <2>2 DEF CallInv, SerializerHasOneHolder, Tokens, ParallelSend, flags
  <2>3. CASE QueueTelemetry
    BY <1>4, <1>5, <1>6, <2>3 DEF CallInv, SerializerHasOneHolder, Tokens,
       QueueTelemetry, flags
  <2>4. CASE Layout
    BY <1>4, <1>5, <1>6, <2>4 DEF CallInv, SerializerHasOneHolder, Tokens, Layout,
       flags
  <2>5. ASSUME NEW s \in Remotes \cup {"mainboard"}, Select(s) PROVE CallInv'
    BY <1>4, <1>5, <1>6, <2>5 DEF CallInv, SerializerHasOneHolder, Tokens, Select,
       flags
  <2>6. CASE ConsoleClaim
    BY <1>4, <1>5, <1>6, <2>6 DEF Calls, CallInv, ConsoleClaim, At, UartOpens, owners
  <2>7. CASE ConsoleRelease
    BY <1>4, <1>5, <1>6, <2>7 DEF Calls, CallInv, ConsoleRelease, At, UartCloses,
       owners, keys, flags
  <2>8. CASE ParallelReserve
    BY <1>4, <1>5, <1>6, <2>8 DEF CallInv, SerializerHasOneHolder, Tokens,
       ParallelReserve, flags
  <2>9. CASE ParallelPark
    BY <1>6, <2>9 DEF Calls, CallInv, ParallelPark, At, owners, keys
  <2>10. CASE ParallelUnpark
    BY <1>4, <1>5, <1>6, <2>10 DEF CallInv, SerializerHasOneHolder, Tokens,
       ParallelUnpark, At, owners, flags
  <2>11. CASE ParallelRelease
    BY <1>4, <1>5, <1>6, <2>11 DEF CallInv, SerializerHasOneHolder, Tokens,
       ParallelRelease, flags
  <2> QED BY <1>12, <2>1, <2>2, <2>3, <2>4, <2>5, <2>6, <2>7, <2>8, <2>9, <2>10, <2>11
     DEF Call
<1>13. CASE Environment
  <2>1. CASE PeerReply
    BY <1>4, <1>5, <1>6, <2>1 DEF CallInv, SerializerHasOneHolder, Tokens, PeerReply,
       PeerFrame, owners, flags
  <2>2. CASE PeerBad
    BY <1>4, <1>5, <1>6, <2>2 DEF CallInv, SerializerHasOneHolder, Tokens, PeerBad,
       PeerFrame, owners, flags
  <2>3. ASSUME NEW k \in Keys, PeerKey(k) PROVE CallInv'
    BY <1>4, <1>5, <1>6, <2>3 DEF CallInv, SerializerHasOneHolder, Tokens, PeerKey,
       PeerFrame, owners, flags
  <2>4. ASSUME NEW k \in Keys, MainboardKey(k) PROVE CallInv'
    BY <1>4, <1>5, <1>6, <2>4 DEF CallInv, SerializerHasOneHolder, Tokens,
       MainboardKey, Publish, owners, flags
  <2> QED BY <1>13, <2>1, <2>2, <2>3, <2>4 DEF Environment
<1> QED BY <1>7, <1>8, <1>9, <1>10, <1>11, <1>12, <1>13 DEF Next

\* The serializer keeps exactly one holder.
LEMMA OneHolderStep == IInv /\ [Next]_vars => SerializerHasOneHolder'
<1> SUFFICES ASSUME IInv, [Next]_vars PROVE SerializerHasOneHolder'
    OBVIOUS
<1>1. FlagTypes
    BY DEF IInv
<1>2. Counts
    BY DEF IInv
<1>3. CallType
    BY DEF IInv
<1>4. CallInv
    BY DEF IInv
<1>5. SerializerHasOneHolder
    BY DEF IInv
<1>6. CASE UNCHANGED vars
    BY <1>4, <1>5, <1>6 DEF SerializerHasOneHolder, vars, owners
<1>7. CASE Interrupt
  <2>1. CASE RxHeader
    <3>1. CASE HeaderFaults
      BY <1>1, <1>2, <1>3, <1>4, <1>5, <2>1, <3>1, RxHeaderCases DEF FlagTypes, Counts,
         CallType, SerializerHasOneHolder, peer, stream, HeaderFaults, Fault,
         UartStops, AsyncAbort, Cleanup
    <3>2. CASE HeaderStarts
      BY <1>2, <1>3, <1>4, <1>5, <2>1, <3>2, RxHeaderCases DEF FlagTypes,
         SerializerHasOneHolder, peer, stream, HeaderStarts, owners, port
    <3> QED BY <2>1, <3>1, <3>2, RxHeaderCases
  <2>2. CASE RxFrame
    <3>1. /\ owned = 1 /\ armed /\ ~faulted /\ rx # <<>>
          /\ UNCHANGED <<peer, stream, token, console, fg>>
      BY <2>2, RxFrameCases
    <3>2. CASE FrameAdmits
      BY <1>4, <1>5, <3>1, <3>2 DEF CallInv, SerializerHasOneHolder, FrameAdmits,
         owners
    <3>3. CASE FrameAcknowledges
      BY <1>5, <3>1, <3>3 DEF FlagTypes, SerializerHasOneHolder, peer, stream,
         FrameAcknowledges, owners
    <3>4. CASE FramePresses
      BY <1>5, <3>1, <3>4 DEF FlagTypes, SerializerHasOneHolder, peer, stream,
         FramePresses, owners
    <3>5. CASE FrameFaults
      BY <1>1, <1>2, <1>5, <3>1, <3>5 DEF FlagTypes, Counts, CallType,
         SerializerHasOneHolder, peer, stream, FrameFaults, Fault, UartStops,
         AsyncAbort
    <3>6. CASE FrameIsDropped
      BY <1>4, <1>5, <3>1, <3>6 DEF CallInv, SerializerHasOneHolder, FrameIsDropped,
         owners
    <3> QED BY <2>2, <3>2, <3>3, <3>4, <3>5, <3>6, RxFrameCases
  <2>3. CASE RxLineError
    BY <1>1, <1>2, <1>3, <1>4, <1>5, <2>3 DEF FlagTypes, Counts, CallType,
       SerializerHasOneHolder, RxLineError, Fault, peer, AsyncAbort, Cleanup
  <2>4. CASE Tick
    BY <1>1, <1>2, <1>3, <1>4, <1>5, <2>4 DEF FlagTypes, Counts, CallType, Calls,
       CallInv, SerializerHasOneHolder, Tick, AsyncAbort, UartStops, Fault, flags
  <2>5. CASE AsyncByte
    BY <1>1, <1>2, <1>5, <2>5 DEF FlagTypes, Counts, CallInv, SerializerHasOneHolder,
       AsyncByte, SendByte, Fault, stream, AsyncAbort
  <2> QED BY <1>7, <2>1, <2>2, <2>3, <2>4, <2>5 DEF Interrupt
<1>8. CASE SelectStep
  <2>1. CASE StopAsk
    BY <1>5, <2>1 DEF CallInv, SerializerHasOneHolder, StopAsk, At, Goto, owners
  <2>2. CASE StopEnd
    BY <1>5, <2>2 DEF CallInv, SerializerHasOneHolder, StopEnd, At, UartCloses, Goto,
       owners
  <2>3. CASE SelectOpen
    BY <1>2, <1>3, <1>5, <2>3, SelectOpenCases, SelectOpenCall DEF
       SerializerHasOneHolder
  <2>4. CASE SelectReplied
    BY <1>4, <1>5, <2>4 DEF SerializerHasOneHolder, SelectReplied, At, Goto, owners
  <2>5. CASE SelectFail
    BY <1>5, <2>5 DEF SerializerHasOneHolder, SelectFail, At, SelectGivesUp,
       UartCloses, Goto, owners
  <2>6. CASE SelectDone
    BY <1>4, <1>5, <2>6 DEF FlagTypes, Calls, CallInv, SerializerHasOneHolder,
       SelectDone, At, Idle
  <2> QED BY <1>8, <2>1, <2>2, <2>3, <2>4, <2>5, <2>6 DEF SelectStep
<1>9. CASE SendStep
  <2>1. CASE TxByte
    BY <1>3, <1>4, <1>5, <2>1 DEF CallInv, SerializerHasOneHolder, TxByte, Sending,
       SendByte, owners, At
  <2>2. CASE TxFails
    BY <1>5, <2>2 DEF SerializerHasOneHolder, TxFails, Sending, UartStops,
       RequestFault, owners, At
  <2>3. CASE SendFail
    BY <1>5, <2>3 DEF SerializerHasOneHolder, SendFail, At, Goto, owners
  <2>4. CASE SendEnd
    BY <1>4, <1>5, <2>4 DEF FlagTypes, SerializerHasOneHolder, SendEnd, At, Idle
  <2> QED BY <1>9, <2>1, <2>2, <2>3, <2>4 DEF SendStep
<1>10. CASE LayoutStep
  <2>1. CASE LayoutPoll
    BY <1>4, <1>5, <2>1 DEF SerializerHasOneHolder, LayoutPoll, At, owners
  <2>2. CASE LayoutWait
    BY <1>5, <2>2 DEF CallInv, SerializerHasOneHolder, LayoutWait, At, Goto, owners
  <2>3. CASE LayoutFail
    BY <1>5, <2>3 DEF SerializerHasOneHolder, LayoutFail, At, Goto, owners
  <2>4. CASE LayoutEnd
    BY <1>4, <1>5, <2>4 DEF FlagTypes, Calls, CallInv, SerializerHasOneHolder,
       LayoutEnd, At, Idle
  <2> QED BY <1>10, <2>1, <2>2, <2>3, <2>4 DEF LayoutStep
<1>11. CASE Call
  <2>1. CASE Send
    BY <1>5, <2>1 DEF SerializerHasOneHolder, Send
  <2>2. CASE ParallelSend
    BY <1>5, <2>2 DEF SerializerHasOneHolder, ParallelSend
  <2>3. CASE QueueTelemetry
    BY <1>5, <2>3 DEF SerializerHasOneHolder, QueueTelemetry
  <2>4. CASE Layout
    BY <1>5, <2>4 DEF SerializerHasOneHolder, Layout
  <2>5. ASSUME NEW s \in Remotes \cup {"mainboard"}, Select(s) PROVE SerializerHasOneHolder'
    BY <1>5, <2>5 DEF SerializerHasOneHolder, Select
  <2>6. CASE ConsoleClaim
    BY <1>5, <2>6 DEF CallInv, SerializerHasOneHolder, ConsoleClaim, owners
  <2>7. CASE ConsoleRelease
    BY <1>5, <2>7 DEF CallInv, SerializerHasOneHolder, ConsoleRelease, At, owners
  <2>8. CASE ParallelReserve
    BY <1>5, <2>8 DEF SerializerHasOneHolder, ParallelReserve
  <2>9. CASE ParallelPark
    BY <1>5, <2>9 DEF CallInv, SerializerHasOneHolder, ParallelPark, At, owners
  <2>10. CASE ParallelUnpark
    BY <1>4, <1>5, <2>10 DEF SerializerHasOneHolder, ParallelUnpark, owners
  <2>11. CASE ParallelRelease
    BY <1>5, <2>11 DEF SerializerHasOneHolder, ParallelRelease
  <2> QED BY <1>11, <2>1, <2>2, <2>3, <2>4, <2>5, <2>6, <2>7, <2>8, <2>9, <2>10, <2>11
     DEF Call
<1>12. CASE Environment
  <2>1. CASE PeerReply
    BY <1>4, <1>5, <2>1 DEF SerializerHasOneHolder, PeerReply, PeerFrame, owners
  <2>2. CASE PeerBad
    BY <1>4, <1>5, <2>2 DEF SerializerHasOneHolder, PeerBad, PeerFrame, owners
  <2>3. ASSUME NEW k \in Keys, PeerKey(k) PROVE SerializerHasOneHolder'
    BY <1>4, <1>5, <2>3 DEF SerializerHasOneHolder, PeerKey, PeerFrame, owners
  <2>4. ASSUME NEW k \in Keys, MainboardKey(k) PROVE SerializerHasOneHolder'
    BY <1>4, <1>5, <2>4 DEF SerializerHasOneHolder, MainboardKey, owners
  <2> QED BY <1>12, <2>1, <2>2, <2>3, <2>4 DEF Environment
<1> QED BY <1>6, <1>7, <1>8, <1>9, <1>10, <1>11, <1>12 DEF Next

\* The parked port stays quiet.
LEMMA ParkedStep == IInv /\ [Next]_vars => ParkedPortIsQuiet'
<1> SUFFICES ASSUME IInv, [Next]_vars PROVE ParkedPortIsQuiet'
    OBVIOUS
<1>1. Counts
    BY DEF IInv
<1>2. CallType
    BY DEF IInv
<1>3. FrameTypes
    BY DEF IInv
<1>4. SerializerHasOneHolder
    BY DEF IInv
<1>5. ParkedPortIsQuiet
    BY DEF IInv
<1>6. CASE UNCHANGED vars
    BY <1>4, <1>5, <1>6 DEF ParkedPortIsQuiet, vars, owners, port
<1>7. CASE Interrupt
  <2>1. CASE RxHeader
    <3>1. CASE HeaderFaults
      BY <2>1, <3>1, RxHeaderCases DEF Counts, ParkedPortIsQuiet, peer, stream,
         HeaderFaults
    <3>2. CASE HeaderStarts
      BY <1>2, <1>3, <2>1, <3>2, RxHeaderCases DEF Counts, ParkedPortIsQuiet, peer,
         stream, HeaderStarts, owners, port
    <3> QED BY <2>1, <3>1, <3>2, RxHeaderCases
  <2>2. CASE RxFrame
    <3>1. /\ owned = 1 /\ armed /\ ~faulted /\ rx # <<>>
          /\ UNCHANGED <<peer, stream, token, console, fg>>
      BY <2>2, RxFrameCases
    <3>2. CASE FrameAdmits
      BY <3>1, <3>2 DEF SerializerHasOneHolder, ParkedPortIsQuiet, FrameAdmits, port
    <3>3. CASE FrameAcknowledges
      BY <3>1, <3>3 DEF Counts, ParkedPortIsQuiet, peer, FrameAcknowledges, port
    <3>4. CASE FramePresses
      BY <3>1, <3>4 DEF Counts, ParkedPortIsQuiet, peer, FramePresses, port
    <3>5. CASE FrameFaults
      BY <3>1, <3>5 DEF Counts, ParkedPortIsQuiet, FrameFaults
    <3>6. CASE FrameIsDropped
      BY <3>1, <3>6 DEF Counts, CallType, Calls, FrameTypes, SerializerHasOneHolder,
         ParkedPortIsQuiet, FrameIsDropped, owners, port, keys
    <3> QED BY <2>2, <3>2, <3>3, <3>4, <3>5, <3>6, RxFrameCases
  <2>3. CASE RxLineError
    BY <2>3 DEF ParkedPortIsQuiet, RxLineError
  <2>4. CASE Tick
    BY <2>4 DEF ParkedPortIsQuiet, Tick
  <2>5. CASE AsyncByte
    BY <2>5 DEF ParkedPortIsQuiet, AsyncByte
  <2> QED BY <1>7, <2>1, <2>2, <2>3, <2>4, <2>5 DEF Interrupt
<1>8. CASE SelectStep
  <2>1. CASE StopAsk
    BY <1>5, <2>1 DEF SerializerHasOneHolder, ParkedPortIsQuiet, StopAsk, At, port
  <2>2. CASE StopEnd
    BY <1>4, <1>5, <2>2 DEF Counts, ParkedPortIsQuiet, StopEnd, At, UartCloses
  <2>3. CASE SelectOpen
    BY <1>5, <2>3, SelectOpenCases DEF ParkedPortIsQuiet
  <2>4. CASE SelectReplied
    BY <1>5, <2>4 DEF ParkedPortIsQuiet, SelectReplied, At, port
  <2>5. CASE SelectFail
    BY <1>4, <1>5, <2>5 DEF ParkedPortIsQuiet, SelectFail, At, SelectGivesUp,
       UartCloses
  <2>6. CASE SelectDone
    BY <1>5, <2>6 DEF SerializerHasOneHolder, ParkedPortIsQuiet, SelectDone, At, port
  <2> QED BY <1>8, <2>1, <2>2, <2>3, <2>4, <2>5, <2>6 DEF SelectStep
<1>9. CASE SendStep
  <2>1. CASE TxByte
    BY <2>1 DEF SerializerHasOneHolder, ParkedPortIsQuiet, TxByte, port
  <2>2. CASE TxFails
    BY <1>5, <2>2 DEF ParkedPortIsQuiet, TxFails, Sending, At
  <2>3. CASE SendFail
    BY <1>5, <2>3 DEF ParkedPortIsQuiet, SendFail, At, port
  <2>4. CASE SendEnd
    BY <1>5, <2>4 DEF SerializerHasOneHolder, ParkedPortIsQuiet, SendEnd, At, port
  <2> QED BY <1>9, <2>1, <2>2, <2>3, <2>4 DEF SendStep
<1>10. CASE LayoutStep
  <2>1. CASE LayoutPoll
    BY <1>4, <1>5, <2>1 DEF Counts, ParkedPortIsQuiet, LayoutPoll, At, port
  <2>2. CASE LayoutWait
    BY <1>5, <2>2 DEF SerializerHasOneHolder, ParkedPortIsQuiet, LayoutWait, At, port
  <2>3. CASE LayoutFail
    BY <1>5, <2>3 DEF ParkedPortIsQuiet, LayoutFail, At, port
  <2>4. CASE LayoutEnd
    BY <1>5, <2>4 DEF SerializerHasOneHolder, ParkedPortIsQuiet, LayoutEnd, At, port
  <2> QED BY <1>10, <2>1, <2>2, <2>3, <2>4 DEF LayoutStep
<1>11. CASE Call
  <2>1. CASE Send
    BY <1>4, <1>5, <2>1 DEF Counts, FrameTypes, SerializerHasOneHolder,
       ParkedPortIsQuiet, Send, port
  <2>2. CASE ParallelSend
    BY <2>2 DEF ParkedPortIsQuiet, ParallelSend, port
  <2>3. CASE QueueTelemetry
    BY <1>4, <1>5, <2>3 DEF Counts, FrameTypes, SerializerHasOneHolder,
       ParkedPortIsQuiet, QueueTelemetry, port
  <2>4. CASE Layout
    BY <1>4, <1>5, <2>4 DEF Counts, FrameTypes, SerializerHasOneHolder,
       ParkedPortIsQuiet, Layout, port
  <2>5. ASSUME NEW s \in Remotes \cup {"mainboard"}, Select(s) PROVE ParkedPortIsQuiet'
    BY <1>4, <1>5, <2>5 DEF Counts, FrameTypes, SerializerHasOneHolder,
       ParkedPortIsQuiet, Select, port
  <2>6. CASE ConsoleClaim
    BY <1>5, <2>6 DEF SerializerHasOneHolder, ParkedPortIsQuiet, ConsoleClaim,
       UartOpens, owners
  <2>7. CASE ConsoleRelease
    BY <1>5, <2>7 DEF SerializerHasOneHolder, ParkedPortIsQuiet, ConsoleRelease, At,
       UartCloses, owners
  <2>8. CASE ParallelReserve
    BY <2>8 DEF ParkedPortIsQuiet, ParallelReserve, port
  <2>9. CASE ParallelPark
    BY <1>1, <1>2, <1>3, <1>4, <1>5, <2>9 DEF Counts, CallType, SerializerHasOneHolder,
       ParkedPortIsQuiet, ParallelPark, At, owners
  <2>10. CASE ParallelUnpark
    BY <2>10 DEF ParkedPortIsQuiet, ParallelUnpark
  <2>11. CASE ParallelRelease
    BY <2>11 DEF ParkedPortIsQuiet, ParallelRelease, port
  <2> QED BY <1>11, <2>1, <2>2, <2>3, <2>4, <2>5, <2>6, <2>7, <2>8, <2>9, <2>10, <2>11
     DEF Call
<1>12. CASE Environment
  <2>1. CASE PeerReply
    BY <1>4, <1>5, <2>1 DEF Counts, ParkedPortIsQuiet, PeerReply, PeerFrame, owners,
       port
  <2>2. CASE PeerBad
    BY <1>4, <1>5, <2>2 DEF Counts, ParkedPortIsQuiet, PeerBad, PeerFrame, owners, port
  <2>3. ASSUME NEW k \in Keys, PeerKey(k) PROVE ParkedPortIsQuiet'
    BY <1>4, <1>5, <2>3 DEF Counts, ParkedPortIsQuiet, PeerKey, PeerFrame, owners, port
  <2>4. ASSUME NEW k \in Keys, MainboardKey(k) PROVE ParkedPortIsQuiet'
    BY <1>4, <1>5, <2>4 DEF Counts, ParkedPortIsQuiet, MainboardKey, owners, port
  <2> QED BY <1>12, <2>1, <2>2, <2>3, <2>4 DEF Environment
<1> QED BY <1>6, <1>7, <1>8, <1>9, <1>10, <1>11, <1>12 DEF Next

\* A select that has not sent its poll waits for a reply or for a fault.
LEMMA PollInvStep == IInv /\ [Next]_vars => PollInv'
<1> SUFFICES ASSUME IInv, [Next]_vars PROVE PollInv'
    OBVIOUS
<1>1. FlagTypes
    BY DEF IInv
<1>2. Counts
    BY DEF IInv
<1>3. CallType
    BY DEF IInv
<1>4. Tokens
    BY DEF IInv
<1>5. CallInv
    BY DEF IInv
<1>6. SerializerHasOneHolder
    BY DEF IInv
<1>7. OrderInv
    BY DEF IInv
<1>8. PollInv
    BY DEF IInv
<1>9. CASE UNCHANGED vars
    BY <1>7, <1>8, <1>9 DEF SerializerHasOneHolder, OrderInv, PollInv, Current,
       Unasked, vars, flags, peer
<1>10. CASE Interrupt
  <2>1. CASE RxHeader
    <3>1. CASE HeaderFaults
      BY <1>6, <1>7, <1>8, <2>1, <3>1, RxHeaderCases DEF SerializerHasOneHolder,
         OrderInv, PollInv, Current, Unasked, peer, stream, HeaderFaults, Fault
    <3>2. CASE HeaderStarts
      BY <1>7, <1>8, <2>1, <3>2, RxHeaderCases DEF CallInv, SerializerHasOneHolder,
         OrderInv, PollInv, Current, Unasked, peer, stream, HeaderStarts, keys, flags
    <3> QED BY <2>1, <3>1, <3>2, RxHeaderCases
  <2>2. CASE RxFrame
    <3>1. /\ owned = 1 /\ armed /\ ~faulted /\ rx # <<>>
          /\ UNCHANGED <<peer, stream, token, console, fg>>
      BY <2>2, RxFrameCases
    <3>2. CASE FrameAdmits
      BY <1>4, <1>5, <1>6, <1>7, <1>8, <3>1, <3>2 DEF FlagTypes, Counts, CallType,
         Calls, Tokens, CallInv, SerializerHasOneHolder, OrderInv, PollInv, Current,
         Unasked, peer, stream, FrameAdmits, Matches
    <3>3. CASE FrameAcknowledges
      BY <1>8, <3>1, <3>3 DEF SerializerHasOneHolder, OrderInv, PollInv, Current,
         Unasked, FrameAcknowledges
    <3>4. CASE FramePresses
      BY <1>8, <3>1, <3>4 DEF SerializerHasOneHolder, OrderInv, PollInv, Current,
         Unasked, peer, stream, FramePresses, flags
    <3>5. CASE FrameFaults
      BY <1>8, <3>1, <3>5 DEF SerializerHasOneHolder, OrderInv, PollInv, Current,
         Unasked, FrameFaults, Fault
    <3>6. CASE FrameIsDropped
      BY <1>7, <1>8, <3>1, <3>6 DEF FlagTypes, SerializerHasOneHolder, OrderInv,
         PollInv, Current, Unasked, peer, stream, FrameIsDropped, owners, flags,
         RxFrame
    <3> QED BY <2>2, <3>2, <3>3, <3>4, <3>5, <3>6, RxFrameCases
  <2>3. CASE RxLineError
    BY <1>7, <1>8, <2>3 DEF SerializerHasOneHolder, OrderInv, PollInv, Current,
       Unasked, RxLineError, Fault, peer
  <2>4. CASE Tick
    BY <1>3, <1>4, <1>5, <1>6, <1>7, <1>8, <2>4 DEF FlagTypes, Counts, CallInv,
       SerializerHasOneHolder, OrderInv, PollInv, Current, Unasked, Tick, AsyncAbort,
       UartStops, Cleanup, FaultDue, Fault, flags, peer
  <2>5. CASE AsyncByte
    BY <1>8, <2>5 DEF FlagTypes, OrderInv, PollInv, Current, Unasked, AsyncByte, Fault,
       peer
  <2> QED BY <1>10, <2>1, <2>2, <2>3, <2>4, <2>5 DEF Interrupt
<1>11. CASE SelectStep
  <2>1. CASE StopAsk
    BY <1>8, <2>1 DEF FlagTypes, OrderInv, PollInv, Current, Unasked, StopAsk, At, Goto
  <2>2. CASE StopEnd
    BY <1>8, <2>2 DEF FlagTypes, OrderInv, PollInv, Current, Unasked, StopEnd, At, Goto
  <2>3. CASE SelectOpen
    BY <1>2, <1>3, <1>4, <1>5, <1>6, <1>7, <1>8, <2>3, SelectOpenCases, SelectOpenCall
       DEF CallType, Tokens, OrderInv, PollInv, Current, Unasked
  <2>4. CASE SelectReplied
    BY <2>4 DEF FlagTypes, Counts, PollInv, Current, Unasked, SelectReplied, At, Goto,
       flags
  <2>5. CASE SelectFail
    BY <2>5 DEF FlagTypes, Counts, PollInv, Current, Unasked, SelectFail, At, Goto
  <2>6. CASE SelectDone
    BY <1>8, <2>6 DEF FlagTypes, OrderInv, PollInv, Current, Unasked, SelectDone, At,
       Idle, flags
  <2> QED BY <1>11, <2>1, <2>2, <2>3, <2>4, <2>5, <2>6 DEF SelectStep
<1>12. CASE SendStep
  <2>1. CASE TxByte
    BY <1>5, <1>6, <1>7, <1>8, <2>1 DEF FlagTypes, Tokens, CallInv,
       SerializerHasOneHolder, OrderInv, PollInv, Current, Unasked, TxByte, Sending,
       keys, flags, At
  <2>2. CASE TxFails
    BY <1>6, <1>7, <1>8, <2>2 DEF FlagTypes, Counts, PollInv, Current, Unasked,
       TxFails, Sending, UartStops, peer, stream, At
  <2>3. CASE SendFail
    BY <1>6, <1>7, <1>8, <2>3 DEF FlagTypes, Counts, PollInv, Current, Unasked,
       SendFail, At, RequestFault, Goto, owners
  <2>4. CASE SendEnd
    BY <1>8, <2>4 DEF FlagTypes, OrderInv, PollInv, Current, Unasked, SendEnd, At,
       Idle, flags
  <2> QED BY <1>12, <2>1, <2>2, <2>3, <2>4 DEF SendStep
<1>13. CASE LayoutStep
  <2>1. CASE LayoutPoll
    BY <1>7, <1>8, <2>1 DEF SerializerHasOneHolder, OrderInv, PollInv, Current,
       Unasked, LayoutPoll, At
  <2>2. CASE LayoutWait
    BY <1>8, <2>2 DEF FlagTypes, OrderInv, PollInv, Current, Unasked, LayoutWait, At,
       Goto
  <2>3. CASE LayoutFail
    BY <1>6, <1>7, <1>8, <2>3 DEF FlagTypes, Counts, PollInv, Current, Unasked,
       LayoutFail, At, RequestFault, Goto, owners
  <2>4. CASE LayoutEnd
    BY <1>8, <2>4 DEF FlagTypes, OrderInv, PollInv, Current, Unasked, LayoutEnd, At,
       Idle, flags
  <2> QED BY <1>13, <2>1, <2>2, <2>3, <2>4 DEF LayoutStep
<1>14. CASE Call
  <2>1. CASE Send
    BY <1>7, <1>8, <2>1 DEF SerializerHasOneHolder, OrderInv, PollInv, Current,
       Unasked, Send, flags
  <2>2. CASE ParallelSend
    BY <1>4, <1>5, <1>6, <1>7, <1>8, <2>2 DEF SerializerHasOneHolder, OrderInv,
       PollInv, Current, Unasked, ParallelSend, flags
  <2>3. CASE QueueTelemetry
    BY <1>7, <1>8, <2>3 DEF SerializerHasOneHolder, OrderInv, PollInv, Current,
       Unasked, QueueTelemetry, flags
  <2>4. CASE Layout
    BY <1>4, <1>5, <1>6, <1>7, <1>8, <2>4 DEF SerializerHasOneHolder, OrderInv,
       PollInv, Current, Unasked, Layout, flags
  <2>5. ASSUME NEW s \in Remotes \cup {"mainboard"}, Select(s) PROVE PollInv'
    BY <1>4, <1>5, <1>6, <1>7, <1>8, <2>5 DEF SerializerHasOneHolder, OrderInv,
       PollInv, Current, Unasked, Select, flags
  <2>6. CASE ConsoleClaim
    BY <2>6 DEF FlagTypes, Counts, PollInv, Unasked, ConsoleClaim, At
  <2>7. CASE ConsoleRelease
    BY <1>8, <2>7 DEF FlagTypes, OrderInv, PollInv, Current, Unasked, ConsoleRelease,
       At, flags
  <2>8. CASE ParallelReserve
    BY <1>7, <1>8, <2>8 DEF SerializerHasOneHolder, OrderInv, PollInv, Current,
       Unasked, ParallelReserve, flags
  <2>9. CASE ParallelPark
    BY <1>4, <1>5, <1>6, <1>7, <1>8, <2>9 DEF SerializerHasOneHolder, PollInv, Unasked,
       ParallelPark
  <2>10. CASE ParallelUnpark
    BY <1>7, <1>8, <2>10 DEF SerializerHasOneHolder, OrderInv, PollInv, Current,
       Unasked, ParallelUnpark, flags, peer
  <2>11. CASE ParallelRelease
    BY <1>7, <1>8, <2>11 DEF SerializerHasOneHolder, OrderInv, PollInv, Current,
       Unasked, ParallelRelease, flags, peer
  <2> QED BY <1>14, <2>1, <2>2, <2>3, <2>4, <2>5, <2>6, <2>7, <2>8, <2>9, <2>10, <2>11
     DEF Call
<1>15. CASE Environment
  <2>1. CASE PeerReply
    BY <1>7, <1>8, <2>1 DEF SerializerHasOneHolder, OrderInv, PollInv, Current,
       Unasked, PeerReply, PeerFrame, owners, flags
  <2>2. CASE PeerBad
    BY <1>7, <1>8, <2>2 DEF SerializerHasOneHolder, OrderInv, PollInv, Current,
       Unasked, PeerBad, PeerFrame, owners, flags
  <2>3. ASSUME NEW k \in Keys, PeerKey(k) PROVE PollInv'
    BY <1>7, <1>8, <2>3 DEF SerializerHasOneHolder, OrderInv, PollInv, Current,
       Unasked, PeerKey, PeerFrame, owners, flags
  <2>4. ASSUME NEW k \in Keys, MainboardKey(k) PROVE PollInv'
    BY <1>7, <1>8, <2>4 DEF SerializerHasOneHolder, OrderInv, PollInv, Current,
       Unasked, MainboardKey, flags, peer
  <2> QED BY <1>15, <2>1, <2>2, <2>3, <2>4 DEF Environment
<1> QED BY <1>9, <1>10, <1>11, <1>12, <1>13, <1>14, <1>15 DEF Next

\* A select that restores a fault has no remote key down.
LEMMA RestoreStep == IInv /\ [Next]_vars => RestoreInv'
<1> SUFFICES ASSUME IInv, [Next]_vars PROVE RestoreInv'
    OBVIOUS
<1>1. KeyTypes
    BY DEF IInv
<1>2. FlagTypes
    BY DEF IInv
<1>3. Counts
    BY DEF IInv
<1>4. CallType
    BY DEF IInv
<1>5. Tokens
    BY DEF IInv
<1>6. FrameTypes
    BY DEF IInv
<1>7. CallInv
    BY DEF IInv
<1>8. SerializerHasOneHolder
    BY DEF IInv
<1>9. OrderInv
    BY DEF IInv
<1>10. PollInv
    BY DEF IInv
<1>11. RestoreInv
    BY DEF IInv
<1>12. HeldKeysBelongToTheSource
    BY DEF IInv
<1>13. CASE UNCHANGED vars
    BY <1>10, <1>11, <1>12, <1>13 DEF RestoreInv, HeldKeysBelongToTheSource, Unasked,
       Cleanup, Calls, vars, keys, flags
<1>14. CASE Interrupt
  <2>1. CASE RxHeader
    <3>1. CASE HeaderFaults
      BY <1>11, <1>12, <2>1, <3>1 DEF PollInv, RestoreInv, Cleanup, Calls,
         HeaderFaults, Fault
    <3>2. CASE HeaderStarts
      BY <1>6, <1>7, <1>8, <1>9, <1>10, <1>11, <1>12, <2>1, <3>2, RxHeaderCases DEF
         KeyTypes, FlagTypes, RestoreInv, HeldKeysBelongToTheSource, Unasked, stream,
         HeaderStarts, owners, port, keys, flags
    <3> QED BY <2>1, <3>1, <3>2, RxHeaderCases
  <2>2. CASE RxFrame
    <3>1. /\ owned = 1 /\ armed /\ ~faulted /\ rx # <<>>
          /\ UNCHANGED <<peer, stream, token, console, fg>>
      BY <2>2, RxFrameCases
    <3>2. Matches(rx[1]) => token <= answered
      BY <1>9, <3>1 DEF OrderInv, Current, Matches
    <3>3. CASE FrameAdmits
      BY <1>7, <1>8, <1>9, <1>10, <1>11, <1>12, <3>1, <3>3 DEF PollInv, RestoreInv,
         HeldKeysBelongToTheSource, Unasked, FrameAdmits, Matches
    <3>4. CASE FrameAcknowledges
      BY <1>11, <1>12, <3>1, <3>4 DEF RestoreInv, HeldKeysBelongToTheSource, Unasked,
         Cleanup, stream, FrameAcknowledges, port, keys
    <3>5. CASE FramePresses
      BY <1>7, <1>8, <1>9, <1>10, <1>11, <1>12, <3>1, <3>5 DEF Tokens, CallInv,
         SerializerHasOneHolder, PollInv, RestoreInv, HeldKeysBelongToTheSource,
         Unasked, Cleanup, Calls, peer, stream, FramePresses, port, flags
    <3>6. CASE FrameFaults
      BY <3>6 DEF KeyTypes, FlagTypes, Counts, PollInv, RestoreInv, Cleanup, Calls,
         FrameFaults, Fault
    <3>7. CASE FrameIsDropped
      BY <1>11, <1>12, <3>1, <3>7 DEF KeyTypes, SerializerHasOneHolder, PollInv,
         RestoreInv, HeldKeysBelongToTheSource, Unasked, Cleanup, Calls,
         FrameIsDropped, owners, port, keys, flags, RxFrame
    <3> QED BY <2>2, <3>3, <3>4, <3>5, <3>6, <3>7, RxFrameCases
  <2>3. CASE RxLineError
    BY <2>3 DEF KeyTypes, PollInv, RestoreInv, Cleanup, Calls, RxLineError, Fault
  <2>4. CASE Tick
    BY <1>11, <1>12, <2>4 DEF KeyTypes, CallInv, SerializerHasOneHolder, PollInv,
       RestoreInv, HeldKeysBelongToTheSource, Unasked, Cleanup, Calls, Tick,
       AsyncAbort, Fault, flags
  <2>5. CASE AsyncByte
    BY <1>10, <1>11, <1>12, <2>5 DEF RestoreInv, HeldKeysBelongToTheSource, Unasked,
       Cleanup, Calls, AsyncByte, SendByte, Fault
  <2> QED BY <1>14, <2>1, <2>2, <2>3, <2>4, <2>5 DEF Interrupt
<1>15. CASE SelectStep
  <2>1. CASE StopAsk
    BY <1>11, <1>12, <2>1 DEF KeyTypes, CallInv, SerializerHasOneHolder, PollInv,
       RestoreInv, HeldKeysBelongToTheSource, Unasked, StopAsk, At, Goto, owners
  <2>2. CASE StopEnd
    BY <1>11, <1>12, <2>2 DEF KeyTypes, CallInv, SerializerHasOneHolder, PollInv,
       RestoreInv, HeldKeysBelongToTheSource, Unasked, StopEnd, At, UartCloses, Goto
  <2>3. CASE SelectOpen
    BY <1>4, <1>5, <1>6, <1>10, <1>11, <1>12, <2>3, SelectOpenCases, SelectOpenCall DEF
       SerializerHasOneHolder, PollInv, RestoreInv, HeldKeysBelongToTheSource
  <2>4. CASE SelectReplied
    BY <1>12, <2>4 DEF KeyTypes, FlagTypes, SerializerHasOneHolder, PollInv,
       RestoreInv, HeldKeysBelongToTheSource, Unasked, Cleanup, Calls, SelectReplied,
       At, Goto
  <2>5. CASE SelectFail
    BY <1>12, <2>5 DEF KeyTypes, FlagTypes, SerializerHasOneHolder, PollInv,
       RestoreInv, HeldKeysBelongToTheSource, Unasked, Cleanup, Calls, SelectFail,
       UartCloses, Goto
  <2>6. CASE SelectDone
    BY <1>11, <1>12, <2>6 DEF KeyTypes, PollInv, RestoreInv, SelectDone, At, Idle, port
  <2> QED BY <1>15, <2>1, <2>2, <2>3, <2>4, <2>5, <2>6 DEF SelectStep
<1>16. CASE SendStep
  <2>1. CASE TxByte
    BY <1>7, <1>8, <1>9, <1>10, <1>11, <1>12, <2>1 DEF KeyTypes, CallInv,
       SerializerHasOneHolder, PollInv, RestoreInv, HeldKeysBelongToTheSource, Unasked,
       Cleanup, Calls, TxByte, Sending, port, keys, flags, At
  <2>2. CASE TxFails
    BY <1>8, <1>9, <1>10, <1>11, <1>12, <2>2 DEF KeyTypes, FlagTypes,
       SerializerHasOneHolder, PollInv, RestoreInv, HeldKeysBelongToTheSource, Unasked,
       Cleanup, Calls, TxFails, Sending, UartStops, RequestFault, owners, keys, peer,
       stream, At
  <2>3. CASE SendFail
    BY <1>12, <2>3 DEF KeyTypes, FlagTypes, SerializerHasOneHolder, PollInv,
       RestoreInv, HeldKeysBelongToTheSource, Unasked, Cleanup, Calls, SendFail, Goto,
       owners
  <2>4. CASE SendEnd
    BY <1>11, <1>12, <2>4 DEF KeyTypes, PollInv, RestoreInv, SendEnd, At, Idle, port
  <2> QED BY <1>16, <2>1, <2>2, <2>3, <2>4 DEF SendStep
<1>17. CASE LayoutStep
  <2>1. CASE LayoutPoll
    BY <1>10, <1>11, <1>12, <2>1 DEF RestoreInv, HeldKeysBelongToTheSource, Unasked,
       Cleanup, Calls, LayoutPoll
  <2>2. CASE LayoutWait
    BY <1>11, <1>12, <2>2 DEF KeyTypes, CallInv, SerializerHasOneHolder, PollInv,
       RestoreInv, HeldKeysBelongToTheSource, Unasked, LayoutWait, At, Goto, owners
  <2>3. CASE LayoutFail
    BY <1>12, <2>3 DEF KeyTypes, FlagTypes, SerializerHasOneHolder, PollInv,
       RestoreInv, HeldKeysBelongToTheSource, Unasked, Cleanup, Calls, LayoutFail,
       Goto, owners
  <2>4. CASE LayoutEnd
    BY <1>11, <1>12, <2>4 DEF KeyTypes, PollInv, RestoreInv, LayoutEnd, At, Idle, port
  <2> QED BY <1>17, <2>1, <2>2, <2>3, <2>4 DEF LayoutStep
<1>18. CASE Call
  <2>1. CASE Send
    BY <1>10, <1>11, <1>12, <2>1 DEF RestoreInv, HeldKeysBelongToTheSource, Unasked,
       Cleanup, Calls, Send
  <2>2. CASE ParallelSend
    BY <1>10, <1>11, <1>12, <2>2 DEF RestoreInv, HeldKeysBelongToTheSource, Unasked,
       Cleanup, Calls, ParallelSend
  <2>3. CASE QueueTelemetry
    BY <1>10, <1>11, <1>12, <2>3 DEF RestoreInv, HeldKeysBelongToTheSource, Unasked,
       Cleanup, Calls, QueueTelemetry, At, port
  <2>4. CASE Layout
    BY <1>10, <1>11, <1>12, <2>4 DEF RestoreInv, HeldKeysBelongToTheSource, Unasked,
       Cleanup, Calls, Layout
  <2>5. ASSUME NEW s \in Remotes \cup {"mainboard"}, Select(s) PROVE RestoreInv'
    BY <1>10, <1>11, <1>12, <2>5 DEF RestoreInv, HeldKeysBelongToTheSource, Calls,
       Select, keys, flags
  <2>6. CASE ConsoleClaim
    BY <2>6 DEF KeyTypes, PollInv, RestoreInv, HeldKeysBelongToTheSource, Unasked,
       ConsoleClaim, At
  <2>7. CASE ConsoleRelease
    BY <1>11, <1>12, <2>7 DEF KeyTypes, CallInv, SerializerHasOneHolder, PollInv,
       RestoreInv, HeldKeysBelongToTheSource, Unasked, ConsoleRelease, At
  <2>8. CASE ParallelReserve
    BY <1>10, <1>11, <1>12, <2>8 DEF RestoreInv, HeldKeysBelongToTheSource, Unasked,
       Cleanup, Calls, ParallelReserve, At, port
  <2>9. CASE ParallelPark
    BY <1>11, <1>12, <2>9 DEF KeyTypes, CallInv, SerializerHasOneHolder, PollInv,
       RestoreInv, HeldKeysBelongToTheSource, Unasked, ParallelPark, At
  <2>10. CASE ParallelUnpark
    BY <1>10, <1>11, <1>12, <2>10 DEF RestoreInv, HeldKeysBelongToTheSource, Unasked,
       Cleanup, Calls, ParallelUnpark, At, owners
  <2>11. CASE ParallelRelease
    BY <1>10, <1>11, <1>12, <2>11 DEF RestoreInv, HeldKeysBelongToTheSource, Unasked,
       Cleanup, Calls, ParallelRelease, At, port
  <2> QED BY <1>18, <2>1, <2>2, <2>3, <2>4, <2>5, <2>6, <2>7, <2>8, <2>9, <2>10, <2>11
     DEF Call
<1>19. CASE Environment
  <2>1. CASE PeerReply
    BY <1>10, <1>11, <1>12, <2>1 DEF RestoreInv, HeldKeysBelongToTheSource, Unasked,
       Cleanup, Calls, PeerReply, PeerFrame, owners, port, keys, flags, stream
  <2>2. CASE PeerBad
    BY <1>10, <1>11, <1>12, <2>2 DEF RestoreInv, HeldKeysBelongToTheSource, Unasked,
       Cleanup, Calls, PeerBad, PeerFrame, owners, port, keys, flags, stream
  <2>3. ASSUME NEW k \in Keys, PeerKey(k) PROVE RestoreInv'
    BY <1>10, <1>11, <1>12, <2>3 DEF RestoreInv, HeldKeysBelongToTheSource, Unasked,
       Cleanup, Calls, PeerKey, PeerFrame, owners, port, keys, flags, stream
  <2>4. ASSUME NEW k \in Keys, MainboardKey(k) PROVE RestoreInv'
    BY <1>10, <1>11, <1>12, <2>4 DEF RestoreInv, HeldKeysBelongToTheSource, Calls,
       MainboardKey
  <2> QED BY <1>19, <2>1, <2>2, <2>3, <2>4 DEF Environment
<1> QED BY <1>13, <1>14, <1>15, <1>16, <1>17, <1>18, <1>19 DEF Next

\* Keys are only held through the selected source.
LEMMA HeldStep == IInv /\ [Next]_vars => HeldKeysBelongToTheSource'
<1> SUFFICES ASSUME IInv, [Next]_vars PROVE HeldKeysBelongToTheSource'
    OBVIOUS
<1>1. KeyTypes
    BY DEF IInv
<1>2. FlagTypes
    BY DEF IInv
<1>3. Counts
    BY DEF IInv
<1>4. CallType
    BY DEF IInv
<1>5. CallInv
    BY DEF IInv
<1>6. SerializerHasOneHolder
    BY DEF IInv
<1>7. RestoreInv
    BY DEF IInv
<1>8. HeldKeysBelongToTheSource
    BY DEF IInv
<1>9. CASE UNCHANGED vars
    BY <1>7, <1>8, <1>9 DEF SerializerHasOneHolder, RestoreInv,
       HeldKeysBelongToTheSource, Unasked, Cleanup, vars, owners, port, keys, flags
<1>10. CASE Interrupt
  <2>1. CASE RxHeader
    <3>1. CASE HeaderFaults
      BY <1>8, <2>1, <3>1 DEF HeldKeysBelongToTheSource, Unasked, Cleanup, peer,
         HeaderFaults, Fault
    <3>2. CASE HeaderStarts
      BY <1>8, <2>1, <3>2 DEF HeldKeysBelongToTheSource, Unasked, Cleanup, peer,
         stream, HeaderStarts, owners, port, keys, flags, RxHeader, HeaderFaults
    <3> QED BY <2>1, <3>1, <3>2, RxHeaderCases
  <2>2. CASE RxFrame
    <3>1. /\ owned = 1 /\ armed /\ ~faulted /\ rx # <<>>
          /\ UNCHANGED <<peer, stream, token, console, fg>>
      BY <2>2, RxFrameCases
    <3>2. CASE FrameAdmits
      BY <3>2 DEF KeyTypes, FlagTypes, HeldKeysBelongToTheSource, Unasked, FrameAdmits
    <3>3. CASE FrameAcknowledges
      BY <1>8, <3>1, <3>3 DEF SerializerHasOneHolder, RestoreInv,
         HeldKeysBelongToTheSource, stream, FrameAcknowledges, keys
    <3>4. CASE FramePresses
      BY <1>8, <3>1, <3>4 DEF SerializerHasOneHolder, RestoreInv,
         HeldKeysBelongToTheSource, stream, FramePresses, Publish, flags
    <3>5. CASE FrameFaults
      BY <3>5 DEF KeyTypes, FlagTypes, HeldKeysBelongToTheSource, Unasked, Cleanup,
         peer, stream, FrameFaults, Fault
    <3>6. CASE FrameIsDropped
      BY <1>6, <1>7, <1>8, <3>1, <3>6 DEF CallInv, SerializerHasOneHolder, RestoreInv,
         HeldKeysBelongToTheSource, Unasked, stream, FrameIsDropped, keys, flags
    <3> QED BY <2>2, <3>2, <3>3, <3>4, <3>5, <3>6, RxFrameCases
  <2>3. CASE RxLineError
    BY <1>6, <1>7, <1>8, <2>3 DEF KeyTypes, FlagTypes, HeldKeysBelongToTheSource,
       Unasked, Cleanup, RxLineError, Fault
  <2>4. CASE Tick
    BY <1>8, <2>4 DEF KeyTypes, RestoreInv, HeldKeysBelongToTheSource, Unasked,
       Cleanup, Tick, AsyncAbort, UartStops, Fault, flags
  <2>5. CASE AsyncByte
    BY <1>7, <1>8, <2>5 DEF SerializerHasOneHolder, RestoreInv,
       HeldKeysBelongToTheSource, Unasked, Cleanup, AsyncByte, Fault
  <2> QED BY <1>10, <2>1, <2>2, <2>3, <2>4, <2>5 DEF Interrupt
<1>11. CASE SelectStep
  <2>1. CASE StopAsk
    BY <1>8, <2>1 DEF KeyTypes, RestoreInv, HeldKeysBelongToTheSource, Unasked,
       Cleanup, StopAsk, keys
  <2>2. CASE StopEnd
    BY <1>8, <2>2 DEF KeyTypes, RestoreInv, HeldKeysBelongToTheSource, Unasked,
       Cleanup, StopEnd, keys
  <2>3. CASE SelectOpen
    BY <1>8, <2>3, SelectOpenCases DEF HeldKeysBelongToTheSource
  <2>4. CASE SelectReplied
    BY <1>6, <1>7, <1>8, <2>4 DEF KeyTypes, FlagTypes, HeldKeysBelongToTheSource,
       Unasked, Cleanup, SelectReplied, At, Goto, owners, port, keys, flags, peer
  <2>5. CASE SelectFail
    BY <1>6, <1>7, <1>8, <2>5 DEF KeyTypes, FlagTypes, CallInv, SerializerHasOneHolder,
       RestoreInv, HeldKeysBelongToTheSource, Unasked, Cleanup, SelectFail, At,
       SelectGivesUp, keys, peer
  <2>6. CASE SelectDone
    BY <1>8, <2>6 DEF KeyTypes, RestoreInv, HeldKeysBelongToTheSource, Unasked,
       Cleanup, SelectDone, At, Idle, keys, flags
  <2> QED BY <1>11, <2>1, <2>2, <2>3, <2>4, <2>5, <2>6 DEF SelectStep
<1>12. CASE SendStep
  <2>1. CASE TxByte
    BY <1>8, <2>1 DEF KeyTypes, RestoreInv, HeldKeysBelongToTheSource, Unasked,
       Cleanup, TxByte, keys, flags
  <2>2. CASE TxFails
    BY <1>6, <1>7, <1>8, <2>2 DEF KeyTypes, FlagTypes, HeldKeysBelongToTheSource,
       Unasked, Cleanup, TxFails, Sending, UartStops, RequestFault, owners, keys
  <2>3. CASE SendFail
    BY <1>6, <1>7, <1>8, <2>3 DEF KeyTypes, FlagTypes, HeldKeysBelongToTheSource,
       Unasked, Cleanup, SendFail, At, RequestFault, keys, peer
  <2>4. CASE SendEnd
    BY <1>8, <2>4 DEF KeyTypes, RestoreInv, HeldKeysBelongToTheSource, Unasked,
       Cleanup, SendEnd, At, Idle, keys, flags
  <2> QED BY <1>12, <2>1, <2>2, <2>3, <2>4 DEF SendStep
<1>13. CASE LayoutStep
  <2>1. CASE LayoutPoll
    BY <1>7, <1>8, <2>1 DEF SerializerHasOneHolder, RestoreInv,
       HeldKeysBelongToTheSource, Unasked, Cleanup, LayoutPoll, keys
  <2>2. CASE LayoutWait
    BY <1>8, <2>2 DEF KeyTypes, RestoreInv, HeldKeysBelongToTheSource, Unasked,
       Cleanup, LayoutWait, keys
  <2>3. CASE LayoutFail
    BY <1>6, <1>7, <1>8, <2>3 DEF KeyTypes, FlagTypes, HeldKeysBelongToTheSource,
       Unasked, Cleanup, LayoutFail, At, RequestFault, keys, peer
  <2>4. CASE LayoutEnd
    BY <1>8, <2>4 DEF KeyTypes, RestoreInv, HeldKeysBelongToTheSource, Unasked,
       Cleanup, LayoutEnd, At, Idle, keys, flags
  <2> QED BY <1>13, <2>1, <2>2, <2>3, <2>4 DEF LayoutStep
<1>14. CASE Call
  <2>1. CASE Send
    BY <1>7, <1>8, <2>1 DEF SerializerHasOneHolder, RestoreInv,
       HeldKeysBelongToTheSource, Unasked, Cleanup, Send, At, port, keys, flags
  <2>2. CASE ParallelSend
    BY <1>7, <1>8, <2>2 DEF SerializerHasOneHolder, RestoreInv,
       HeldKeysBelongToTheSource, Unasked, Cleanup, ParallelSend, At, port, keys, flags
  <2>3. CASE QueueTelemetry
    BY <1>7, <1>8, <2>3 DEF SerializerHasOneHolder, RestoreInv,
       HeldKeysBelongToTheSource, Unasked, Cleanup, QueueTelemetry, At, port, keys,
       flags
  <2>4. CASE Layout
    BY <1>7, <1>8, <2>4 DEF SerializerHasOneHolder, RestoreInv,
       HeldKeysBelongToTheSource, Unasked, Cleanup, Layout, At, port, keys, flags
  <2>5. ASSUME NEW s \in Remotes \cup {"mainboard"}, Select(s) PROVE HeldKeysBelongToTheSource'
    BY <1>7, <1>8, <2>5 DEF SerializerHasOneHolder, RestoreInv,
       HeldKeysBelongToTheSource, Unasked, Cleanup, Select, At, port, keys, flags
  <2>6. CASE ConsoleClaim
    BY <1>6, <1>7, <1>8, <2>6 DEF KeyTypes, FlagTypes, HeldKeysBelongToTheSource,
       Unasked, Cleanup, ConsoleClaim, At, UartOpens, keys
  <2>7. CASE ConsoleRelease
    BY <1>8, <2>7 DEF KeyTypes, RestoreInv, HeldKeysBelongToTheSource, Unasked,
       Cleanup, ConsoleRelease, At, UartCloses, keys, flags
  <2>8. CASE ParallelReserve
    BY <1>7, <1>8, <2>8 DEF SerializerHasOneHolder, RestoreInv,
       HeldKeysBelongToTheSource, Unasked, Cleanup, ParallelReserve, At, port, keys,
       flags
  <2>9. CASE ParallelPark
    BY <1>8, <2>9 DEF KeyTypes, RestoreInv, HeldKeysBelongToTheSource, Unasked,
       Cleanup, ParallelPark, keys
  <2>10. CASE ParallelUnpark
    BY <1>7, <1>8, <2>10 DEF SerializerHasOneHolder, RestoreInv,
       HeldKeysBelongToTheSource, Unasked, Cleanup, ParallelUnpark, At, owners, keys,
       flags
  <2>11. CASE ParallelRelease
    BY <1>7, <1>8, <2>11 DEF SerializerHasOneHolder, RestoreInv,
       HeldKeysBelongToTheSource, Unasked, Cleanup, ParallelRelease, At, port, keys,
       flags
  <2> QED BY <1>14, <2>1, <2>2, <2>3, <2>4, <2>5, <2>6, <2>7, <2>8, <2>9, <2>10, <2>11
     DEF Call
<1>15. CASE Environment
  <2>1. CASE PeerReply
    BY <1>7, <1>8, <2>1 DEF SerializerHasOneHolder, RestoreInv,
       HeldKeysBelongToTheSource, Unasked, Cleanup, PeerReply, PeerFrame, owners, keys,
       flags
  <2>2. CASE PeerBad
    BY <1>7, <1>8, <2>2 DEF SerializerHasOneHolder, RestoreInv,
       HeldKeysBelongToTheSource, Unasked, Cleanup, PeerBad, PeerFrame, owners, keys,
       flags
  <2>3. ASSUME NEW k \in Keys, PeerKey(k) PROVE HeldKeysBelongToTheSource'
    BY <1>7, <1>8, <2>3 DEF SerializerHasOneHolder, RestoreInv,
       HeldKeysBelongToTheSource, Unasked, Cleanup, PeerKey, PeerFrame, owners, keys,
       flags
  <2>4. ASSUME NEW k \in Keys, MainboardKey(k) PROVE HeldKeysBelongToTheSource'
    BY <1>7, <1>8, <2>4 DEF SerializerHasOneHolder, RestoreInv,
       HeldKeysBelongToTheSource, Unasked, Cleanup, MainboardKey, Publish
  <2> QED BY <1>15, <2>1, <2>2, <2>3, <2>4 DEF Environment
<1> QED BY <1>9, <1>10, <1>11, <1>12, <1>13, <1>14, <1>15 DEF Next

\* Replies and keys stay in order.
LEMMA OrderStep == IInv /\ [Next]_vars => OrderInv'
<1> SUFFICES ASSUME IInv, [Next]_vars PROVE OrderInv'
    OBVIOUS
<1>1. FrameTypes
    BY DEF IInv
<1>2. Tokens
    BY DEF IInv
<1>3. OrderInv
    BY DEF IInv
<1>4. CASE UNCHANGED vars
    BY <1>1, <1>2, <1>3, <1>4, OrderKept DEF vars, keys, peer
<1>5. CASE Interrupt
  <2>1. CASE RxHeader
    <3>1. /\ rx = <<>> /\ chan # <<>> /\ chan' = Tail(chan)
          /\ rx' = <<>> \/ rx' = <<Head(chan)>>
          /\ UNCHANGED <<admitted, answered, asked, token>>
      BY <2>1, RxHeaderCases DEF HeaderFaults, HeaderStarts, Fault, keys
    <3>2. /\ chan \in Seq(Frames) /\ Len(chan) \in Nat /\ Len(chan') = Len(chan) - 1
          /\ Head(chan) = chan[1]
          /\ \A j \in 1 .. Len(chan') : j + 1 \in 1 .. Len(chan) /\ chan'[j] = chan[j + 1]
      BY <1>1, <3>1 DEF FrameTypes
    <3>3. 1 \in 1 .. Len(chan) /\ \A j \in 1 .. Len(chan') : 1 < j + 1
      BY <3>1
    <3>4. \A i \in 1 .. Len(rx') : i = 1 /\ rx'[i] = chan[1]
      <4>1. CASE rx' = <<>>
        BY <4>1
      <4>2. CASE rx' = <<Head(chan)>>
        BY <4>2
      <4> QED BY <3>1, <4>2
    <3>5. /\ \A i \in 1 .. Len(rx') : Current(rx'[i])
          /\ \A i \in 1 .. Len(chan') : Current(chan'[i])
      BY <1>3, <3>2, <3>4 DEF OrderInv
    <3>6. \A i \in 1 .. Len(rx'), j \in 1 .. Len(chan') : Follows(rx[i], chan[j])'
      BY <1>3, <3>2, <3>4 DEF OrderInv
    <3>7. \A i, j \in 1 .. Len(chan') : i < j => Follows(chan[i], chan[j])'
      BY <1>3, <3>2 DEF OrderInv
    <3>8. admitted' <= answered' /\ answered' <= asked' /\ asked' <= token'
      BY <1>3, <3>1 DEF OrderInv
    <3> QED BY <3>1, <3>5, <3>6, <3>7, <3>8 DEF OrderInv, Current
  <2>2. CASE RxFrame
    <3>1. /\ rx # <<>> /\ rx \in Seq(Frames) /\ 1 \in 1 .. Len(rx)
          /\ chan' = chan /\ answered' = answered /\ asked' = asked /\ token' = token
      BY <1>1, <2>2, RxFrameCases DEF FrameTypes, peer
    <3>2. CASE FrameAdmits
      <4>1. /\ rx[1].kind = "reply" /\ rx[1].token = token /\ rx' = <<>> /\ admitted' = token
        BY <3>2 DEF FrameAdmits, Matches
      <4>2. token <= answered
        BY <1>3, <3>1, <4>1 DEF OrderInv, Current
      <4>3. \A j \in 1 .. Len(chan) : chan[j].kind = "key" => token <= chan[j].after
        BY <1>3, <3>1, <4>1 DEF OrderInv, Follows
      <4>4. \A i \in 1 .. Len(rx') : FALSE
        BY <4>1
      <4>5. \A j \in 1 .. Len(chan') : Current(chan[j])'
        BY <1>3, <3>1, <4>1, <4>3 DEF OrderInv, Current
      <4>6. admitted' <= answered' /\ answered' <= asked' /\ asked' <= token'
        BY <1>3, <3>1, <4>1, <4>2 DEF OrderInv
      <4>7. \A i, j \in 1 .. Len(chan') : i < j => Follows(chan[i], chan[j])'
        BY <1>3, <3>1 DEF OrderInv
      <4> QED BY <4>4, <4>5, <4>6, <4>7 DEF OrderInv
    <3>3. CASE FrameAcknowledges \/ FramePresses \/ FrameFaults \/ FrameIsDropped
      <4>1. rx' = <<>> /\ admitted' = admitted
        BY <3>3 DEF FrameAcknowledges, FramePresses, FrameFaults, FrameIsDropped,
           Fault, keys
      <4> QED BY <1>1, <1>2, <1>3, <3>1, <4>1, OrderKept
    <3> QED BY <2>2, <3>2, <3>3, RxFrameCases
  <2>3. CASE RxLineError
    BY <1>1, <1>2, <1>3, <2>3, OrderKept DEF RxLineError, Fault, peer
  <2>4. CASE Tick
    BY <1>1, <1>2, <1>3, <2>4, OrderKept DEF Tick, Fault, peer
  <2>5. CASE AsyncByte
    BY <1>1, <1>2, <1>3, <2>5, OrderKept DEF AsyncByte, Fault, peer
  <2> QED BY <1>5, <2>1, <2>2, <2>3, <2>4, <2>5 DEF Interrupt
<1>6. CASE SelectStep
  <2>1. CASE StopAsk
    BY <1>1, <1>2, <1>3, <2>1, OrderKept DEF StopAsk, keys, peer
  <2>2. CASE StopEnd
    BY <1>1, <1>2, <1>3, <2>2, OrderKept DEF StopEnd, keys, peer
  <2>3. CASE SelectOpen
    BY <1>1, <1>2, <1>3, <2>3, OrderKept, SelectOpenCases
  <2>4. CASE SelectReplied
    BY <1>1, <1>2, <1>3, <2>4, OrderKept DEF SelectReplied, keys, peer
  <2>5. CASE SelectFail
    BY <1>1, <1>2, <1>3, <2>5, OrderKept DEF SelectFail, keys, peer
  <2>6. CASE SelectDone
    BY <1>1, <1>2, <1>3, <2>6, OrderKept DEF SelectDone, keys, peer
  <2> QED BY <1>6, <2>1, <2>2, <2>3, <2>4, <2>5, <2>6 DEF SelectStep
<1>7. CASE SendStep
  <2>1. CASE TxByte
    BY <1>1, <1>2, <1>3, <2>1, OrderKept DEF TxByte, keys
  <2>2. CASE TxFails
    BY <1>1, <1>2, <1>3, <2>2, OrderKept DEF TxFails, keys, peer
  <2>3. CASE SendFail
    BY <1>1, <1>2, <1>3, <2>3, OrderKept DEF SendFail, keys, peer
  <2>4. CASE SendEnd
    BY <1>1, <1>2, <1>3, <2>4, OrderKept DEF SendEnd, keys, peer
  <2> QED BY <1>7, <2>1, <2>2, <2>3, <2>4 DEF SendStep
<1>8. CASE LayoutStep
  <2>1. CASE LayoutPoll
    BY <1>1, <1>2, <1>3, <2>1, OrderKept DEF LayoutPoll, keys, peer
  <2>2. CASE LayoutWait
    BY <1>1, <1>2, <1>3, <2>2, OrderKept DEF LayoutWait, keys, peer
  <2>3. CASE LayoutFail
    BY <1>1, <1>2, <1>3, <2>3, OrderKept DEF LayoutFail, keys, peer
  <2>4. CASE LayoutEnd
    BY <1>1, <1>2, <1>3, <2>4, OrderKept DEF LayoutEnd, keys, peer
  <2> QED BY <1>8, <2>1, <2>2, <2>3, <2>4 DEF LayoutStep
<1>9. CASE Call
  <2>1. CASE Send
    BY <1>1, <1>2, <1>3, <2>1, OrderKept DEF Send, keys, peer
  <2>2. CASE ParallelSend
    BY <1>1, <1>2, <1>3, <2>2, OrderKept DEF ParallelSend, keys, peer
  <2>3. CASE QueueTelemetry
    BY <1>1, <1>2, <1>3, <2>3, OrderKept DEF QueueTelemetry, keys, peer
  <2>4. CASE Layout
    BY <1>1, <1>2, <1>3, <2>4, OrderKept DEF Layout, keys, peer
  <2>5. ASSUME NEW s \in Remotes \cup {"mainboard"}, Select(s) PROVE OrderInv'
    BY <1>1, <1>2, <1>3, <2>5, OrderKept DEF Select, keys, peer
  <2>6. CASE ConsoleClaim
    BY <1>1, <1>2, <1>3, <2>6, OrderKept DEF ConsoleClaim, keys, peer
  <2>7. CASE ConsoleRelease
    BY <1>1, <1>2, <1>3, <2>7, OrderKept DEF ConsoleRelease, keys, peer
  <2>8. CASE ParallelReserve
    BY <1>1, <1>2, <1>3, <2>8, OrderKept DEF ParallelReserve, keys, peer
  <2>9. CASE ParallelPark
    BY <1>1, <1>2, <1>3, <2>9, OrderKept DEF ParallelPark, keys, peer
  <2>10. CASE ParallelUnpark
    BY <1>1, <1>2, <1>3, <2>10, OrderKept DEF ParallelUnpark, keys, peer
  <2>11. CASE ParallelRelease
    BY <1>1, <1>2, <1>3, <2>11, OrderKept DEF ParallelRelease, keys, peer
  <2> QED BY <1>9, <2>1, <2>2, <2>3, <2>4, <2>5, <2>6, <2>7, <2>8, <2>9, <2>10, <2>11
     DEF Call
<1>10. CASE Environment
  <2>1. CASE PeerReply
    <3>1. /\ answered < asked /\ answered' = asked
          /\ chan' = Append(chan, [kind |-> "reply", token |-> asked])
          /\ UNCHANGED <<rx, admitted, asked, token>>
      BY <2>1 DEF PeerReply, PeerFrame, keys
    <3> QED BY <1>1, <1>2, <1>3, <3>1, OrderAppended DEF Current, Follows, Tokens
  <2>2. CASE PeerBad
    <3>1. /\ answered' = answered
          /\ \E kind \in {"badKey", "badLength", "other"} : chan' = Append(chan, [kind |-> kind])
          /\ UNCHANGED <<rx, admitted, asked, token>>
      BY <2>2 DEF PeerBad, PeerFrame, keys
    <3> QED BY <1>2, <1>3, <3>1 DEF Current, Follows, Tokens, OrderInv
  <2>3. ASSUME NEW k \in Keys, PeerKey(k) PROVE OrderInv'
    <3>1. /\ answered' = answered
          /\ \E down \in BOOLEAN :
               chan' = Append(chan, [kind |-> "key", key |-> k, down |-> down, after |-> answered])
          /\ UNCHANGED <<rx, admitted, asked, token>>
      BY <2>3 DEF PeerKey, PeerFrame, keys
    <3> QED BY <1>2, <1>3, <3>1 DEF Current, Follows, Tokens, OrderInv
  <2>4. ASSUME NEW k \in Keys, MainboardKey(k) PROVE OrderInv'
    BY <1>1, <1>2, <1>3, <2>4, OrderKept DEF MainboardKey, peer
  <2> QED BY <1>10, <2>1, <2>2, <2>3, <2>4 DEF Environment
<1> QED BY <1>4, <1>5, <1>6, <1>7, <1>8, <1>9, <1>10 DEF Next

\* A step that presses a key of a remote source finds it behind the admission.
LEMMA NewKeysStep == IInv /\ [Next]_vars => NewKeysAreAdmitted
<1> SUFFICES ASSUME IInv, [Next]_vars PROVE NewKeysAreAdmitted
    OBVIOUS
<1>1. FrameTypes
    BY DEF IInv
<1>2. OrderInv
    BY DEF IInv
<1>3. Tokens
    BY DEF IInv
<1>4. CASE UNCHANGED vars
    BY <1>4 DEF NewKeysAreAdmitted, vars, keys
<1>5. CASE Interrupt
  <2>1. CASE RxHeader
    BY <2>1, RxHeaderCases DEF HeaderFaults, HeaderStarts, Fault, Cleanup, keys,
       NewKeysAreAdmitted
  <2>2. CASE RxFrame
    <3>1. rx # <<>> /\ rx \in Seq(Frames) /\ rx[1] \in Frames /\ 1 \in 1 .. Len(rx)
      BY <1>1, <2>2, RxFrameCases DEF FrameTypes
    <3>2. CASE FramePresses
      BY <1>2, <3>1, <3>2 DEF FramePresses, OrderInv, Current, NewKeysAreAdmitted
    <3>3. CASE FrameAdmits \/ FrameAcknowledges \/ FrameFaults \/ FrameIsDropped
      BY <3>3 DEF FrameAdmits, FrameAcknowledges, FrameFaults, FrameIsDropped, Fault,
         Cleanup, keys, NewKeysAreAdmitted
    <3> QED BY <2>2, <3>2, <3>3, RxFrameCases
  <2>3. CASE RxLineError
    BY <2>3 DEF NewKeysAreAdmitted, RxLineError, Fault, Cleanup
  <2>4. CASE Tick
    BY <2>4 DEF NewKeysAreAdmitted, Tick, Cleanup, Fault
  <2>5. CASE AsyncByte
    BY <2>5 DEF NewKeysAreAdmitted, AsyncByte, Fault, Cleanup
  <2> QED BY <1>5, <2>1, <2>2, <2>3, <2>4, <2>5 DEF Interrupt
<1>6. CASE SelectStep
  <2>1. CASE StopAsk
    BY <2>1 DEF NewKeysAreAdmitted, StopAsk, keys
  <2>2. CASE StopEnd
    BY <2>2 DEF NewKeysAreAdmitted, StopEnd, keys
  <2>3. CASE SelectOpen
    BY <2>3, SelectOpenCases DEF NewKeysAreAdmitted
  <2>4. CASE SelectReplied
    BY <2>4 DEF NewKeysAreAdmitted, SelectReplied, keys
  <2>5. CASE SelectFail
    BY <2>5 DEF NewKeysAreAdmitted, SelectFail, keys
  <2>6. CASE SelectDone
    BY <2>6 DEF NewKeysAreAdmitted, SelectDone, keys
  <2> QED BY <1>6, <2>1, <2>2, <2>3, <2>4, <2>5, <2>6 DEF SelectStep
<1>7. CASE SendStep
  <2>1. CASE TxByte
    BY <2>1 DEF NewKeysAreAdmitted, TxByte, keys
  <2>2. CASE TxFails
    BY <2>2 DEF NewKeysAreAdmitted, TxFails, keys
  <2>3. CASE SendFail
    BY <2>3 DEF NewKeysAreAdmitted, SendFail, keys
  <2>4. CASE SendEnd
    BY <2>4 DEF NewKeysAreAdmitted, SendEnd, keys
  <2> QED BY <1>7, <2>1, <2>2, <2>3, <2>4 DEF SendStep
<1>8. CASE LayoutStep
  <2>1. CASE LayoutPoll
    BY <2>1 DEF NewKeysAreAdmitted, LayoutPoll, keys
  <2>2. CASE LayoutWait
    BY <2>2 DEF NewKeysAreAdmitted, LayoutWait, keys
  <2>3. CASE LayoutFail
    BY <2>3 DEF NewKeysAreAdmitted, LayoutFail, keys
  <2>4. CASE LayoutEnd
    BY <2>4 DEF NewKeysAreAdmitted, LayoutEnd, keys
  <2> QED BY <1>8, <2>1, <2>2, <2>3, <2>4 DEF LayoutStep
<1>9. CASE Call
  <2>1. CASE Send
    BY <2>1 DEF NewKeysAreAdmitted, Send, keys
  <2>2. CASE ParallelSend
    BY <2>2 DEF NewKeysAreAdmitted, ParallelSend, keys
  <2>3. CASE QueueTelemetry
    BY <2>3 DEF NewKeysAreAdmitted, QueueTelemetry, keys
  <2>4. CASE Layout
    BY <2>4 DEF NewKeysAreAdmitted, Layout, keys
  <2>5. ASSUME NEW s \in Remotes \cup {"mainboard"}, Select(s) PROVE NewKeysAreAdmitted
    BY <2>5 DEF NewKeysAreAdmitted, Select, keys
  <2>6. CASE ConsoleClaim
    BY <2>6 DEF NewKeysAreAdmitted, ConsoleClaim, keys
  <2>7. CASE ConsoleRelease
    BY <2>7 DEF NewKeysAreAdmitted, ConsoleRelease, keys
  <2>8. CASE ParallelReserve
    BY <2>8 DEF NewKeysAreAdmitted, ParallelReserve, keys
  <2>9. CASE ParallelPark
    BY <2>9 DEF NewKeysAreAdmitted, ParallelPark, keys
  <2>10. CASE ParallelUnpark
    BY <2>10 DEF NewKeysAreAdmitted, ParallelUnpark, keys
  <2>11. CASE ParallelRelease
    BY <2>11 DEF NewKeysAreAdmitted, ParallelRelease, keys
  <2> QED BY <1>9, <2>1, <2>2, <2>3, <2>4, <2>5, <2>6, <2>7, <2>8, <2>9, <2>10, <2>11
     DEF Call
<1>10. CASE Environment
  <2>1. CASE PeerReply
    BY <2>1 DEF NewKeysAreAdmitted, PeerReply, PeerFrame, keys
  <2>2. CASE PeerBad
    BY <2>2 DEF NewKeysAreAdmitted, PeerBad, PeerFrame, keys
  <2>3. ASSUME NEW k \in Keys, PeerKey(k) PROVE NewKeysAreAdmitted
    BY <2>3 DEF NewKeysAreAdmitted, PeerKey, PeerFrame, keys
  <2>4. ASSUME NEW k \in Keys, MainboardKey(k) PROVE NewKeysAreAdmitted
    BY <2>4 DEF NewKeysAreAdmitted, MainboardKey, Publish
  <2> QED BY <1>10, <2>1, <2>2, <2>3, <2>4 DEF Environment
<1> QED BY <1>4, <1>5, <1>6, <1>7, <1>8, <1>9, <1>10 DEF Next

-----------------------------------------------------------------------------
(* The stream and the receiver, whatever the clients of UART1 are.  What the *)
(* code forgets is part of the state (forgotten), and so are the packets a   *)
(* layout or telemetry begin with a request standing: outside of these no    *)
(* client leaves a packet in pieces or a receiver deaf.                      *)

\* The receiver is stopped by the tick for the stop that waits, which will close UART1.
Stopped == fg.pc = "stopWait" /\ ~stopReq /\ ~console
\* A receiver is stopped only by a fault, by the request for one, or for a stop, unless the
\* console kept it open over a failure; the parallel engine returns it as it was.
ArmedInv ==
    /\ owned = 1 /\ ~faulted /\ ~faultReq /\ ~forgotten => armed \/ Stopped
    /\ owned = 2 => (savedArmed \/ forgotten) /\ ~faulted /\ ~faultReq

\* A request older than the opening: nothing that would refuse it is under way.
StaleInv ==
    stale => /\ faultReq /\ reserved = 0
             /\ fg.pc = "tx" => fg.then \in {"layoutPoll", "layoutWait", "layoutEnd"}
             /\ fg.pc \notin {"sendFail", "sendEnd", "selectWait", "selectFail"}

\* A packet has been begun and its sender has neither ended it nor reported its loss.
Begun == \/ fg.pc = "tx" /\ fg.left \in {1, 3}
         \/ fg.pc \in {"sendFail", "selectFail", "layoutFail"}
         \/ async = 1
\* A packet is left incomplete only while its sender runs, or with a fault that stands
\* until UART1 is opened again, or that was forgotten.
PacketInv ==
    /\ wire => faulted \/ faultReq \/ forgotten \/ owned = 0 \/ Begun \/ Stopped
    /\ ~mixed

\* What a tick does to the flags of the receiver: it stops, faults, or only ages a frame.
LEMMA TickCases ==
    Tick =>
      /\ owned # 2 /\ UNCHANGED <<reserved, owned, savedArmed, wire, mixed, console, fg>>
      /\ \/ /\ stopReq /\ ~faulted' /\ ~faultReq' /\ ~stopReq' /\ ~stale' /\ async' = 0
            /\ forgotten' = (forgotten \/ (console /\ (faulted \/ faultReq)))
            /\ console => armed' = armed
         \/ /\ ~stopReq /\ owned = 1 /\ faulted' /\ ~stale' /\ ~faultReq' /\ ~faulted /\ async' = 0
            /\ UNCHANGED <<forgotten, stopReq>>
         \/ /\ ~stopReq /\ UNCHANGED <<faulted, faultReq, stale, armed, async, forgotten, stopReq>>
BY DEF Tick, Fault, Forgets, UartStops, AsyncAbort, flags

\* The receiver stays armed, or its loss reported.
LEMMA ArmedStep == IInv /\ ArmedInv /\ [Next]_vars => ArmedInv'
<1> SUFFICES ASSUME IInv, ArmedInv, [Next]_vars PROVE ArmedInv'
    OBVIOUS
<1>1. Counts /\ CallType /\ FlagTypes
    BY DEF IInv
<1>2. CallInv /\ SerializerHasOneHolder /\ ParkedPortIsQuiet
    BY DEF IInv
<1>3. CASE UNCHANGED vars
    BY <1>3 DEF vars, owners, port, keys, flags, peer, stream, ArmedInv, Stopped
<1>4. CASE Interrupt
  <2>1. CASE RxHeader
    BY <1>2, <2>1 DEF RxHeader, Fault, UartStops, port, keys, flags, peer, stream,
       ParkedPortIsQuiet, ArmedInv
  <2>2. CASE RxFrame
    <3>1. /\ owned = 1 /\ armed /\ ~faulted /\ rx # <<>>
          /\ UNCHANGED <<wire, mixed, forgotten, console, fg, owned, stopReq, faultReq, stale, savedArmed>>
      BY <2>2, RxFrameCases DEF FrameAdmits, FrameAcknowledges, FramePresses,
         FrameFaults, FrameIsDropped, port, flags, stream
    <3>2. UNCHANGED <<armed, faulted, async>> \/ (faulted' = TRUE /\ async' = 0)
      BY <2>2, RxFrameCases DEF FrameAdmits, FrameAcknowledges, FramePresses,
         FrameFaults, FrameIsDropped, Fault, AsyncAbort, owners, port, flags
    <3>3. CASE UNCHANGED <<armed, faulted, async>>
      BY <3>1, <3>3 DEF ArmedInv, Stopped
    <3>4. CASE faulted' = TRUE
      BY <3>1, <3>4 DEF ArmedInv
    <3> QED BY <3>2, <3>3, <3>4
  <2>3. CASE RxLineError
    BY <2>3 DEF RxLineError, Fault, stream, ArmedInv
  <2>4. CASE Tick
    <3>1. /\ owned # 2 /\ UNCHANGED <<owned, console, fg>>
          /\ \/ /\ stopReq /\ ~faulted' /\ ~faultReq' /\ ~stopReq'
                /\ forgotten' = (forgotten \/ (console /\ (faulted \/ faultReq)))
                /\ console => armed' = armed
             \/ faulted'
             \/ UNCHANGED <<faulted, faultReq, armed, forgotten, stopReq>>
      BY <2>4, TickCases
    <3>2. CASE faulted'
      BY <3>1, <3>2 DEF ArmedInv
    <3>3. CASE UNCHANGED <<faulted, faultReq, armed, forgotten, stopReq>>
      BY <3>1, <3>3 DEF ArmedInv, Stopped
    <3>4. CASE /\ stopReq /\ ~faulted' /\ ~faultReq' /\ ~stopReq'
               /\ forgotten' = (forgotten \/ (console /\ (faulted \/ faultReq)))
               /\ console => armed' = armed
      <4>1. fg.pc = "stopWait"
        BY <1>2, <3>4 DEF CallInv
      <4>2. CASE ~console
        BY <3>1, <3>4, <4>1, <4>2 DEF ArmedInv, Stopped
      <4>3. CASE console
        <5>1. owned = 1 /\ ~forgotten' => armed
          BY <3>4, <4>3 DEF ArmedInv, Stopped
        <5> QED BY <3>1, <3>4, <4>3, <5>1 DEF ArmedInv
      <4> QED BY <4>2, <4>3
    <3> QED BY <3>1, <3>2, <3>3, <3>4
  <2>5. CASE AsyncByte
    BY <1>1, <2>5 DEF AsyncByte, SendByte, Fault, port, stream, ArmedInv, Stopped
  <2> QED BY <1>4, <2>1, <2>2, <2>3, <2>4, <2>5 DEF Interrupt
<1>5. CASE SelectStep
  <2>1. CASE StopAsk
    BY <2>1 DEF StopAsk, At, port, stream, ArmedInv, Stopped
  <2>2. CASE StopEnd
    BY <1>1, <1>2, <2>2 DEF StopEnd, At, UartCloses, stream, ParkedPortIsQuiet, ArmedInv, Stopped
  <2>3. CASE SelectOpen
    <3>1. fg.pc = "selectOpen" /\ ~faulted' /\ owned # 2
      BY <1>2, <2>3, SelectOpenCases DEF ParkedPortIsQuiet
    <3>2. \/ owned' = 1 /\ armed'
          \/ UNCHANGED <<owned, armed>> /\ ~faulted /\ forgotten' = (forgotten \/ faultReq)
          \/ owned' = 0
      BY <2>3, SelectOpenCases
    <3>3. CASE owned' = 1 /\ armed'
      BY <3>3 DEF ArmedInv
    <3>4. CASE UNCHANGED <<owned, armed>> /\ ~faulted /\ forgotten' = (forgotten \/ faultReq)
      <4>1. ~Stopped
        BY <3>1 DEF Stopped
      <4>2. owned = 1 /\ ~forgotten' => armed
        BY <3>4, <4>1 DEF ArmedInv
      <4> QED BY <3>1, <3>4, <4>2 DEF ArmedInv
    <3>5. CASE owned' = 0
      BY <3>5 DEF ArmedInv
    <3> QED BY <3>2, <3>3, <3>4, <3>5
  <2>4. CASE SelectReplied
    BY <2>4 DEF SelectReplied, At, port, keys, flags, peer, stream, ParkedPortIsQuiet,
       ArmedInv, Stopped
  <2>5. CASE SelectFail
    <3>1. /\ fg.pc \in {"selectFail", "selectWait"} /\ faulted' = fg.prev /\ UNCHANGED <<faultReq, console>>
          /\ forgotten' = (forgotten \/ (console /\ ~fg.prev /\ ~faultReq /\ (faulted \/ wire)))
      BY <2>5 DEF SelectFail, At, SelectGivesUp, Forgets
    <3>2. owned # 2 /\ fg.prev \in BOOLEAN
      BY <1>1, <1>2, <3>1 DEF ParkedPortIsQuiet, CallType, Calls
    <3>3. CASE console
      <4>1. UNCHANGED <<owned, armed>>
        BY <2>5, <3>3 DEF SelectFail
      <4> QED BY <3>1, <3>2, <3>3, <4>1 DEF ArmedInv, Stopped
    <3>4. CASE ~console
      <4>1. owned' # 1 /\ owned' # 2
        BY <1>1, <2>5, <3>2, <3>4 DEF SelectFail, UartCloses, Counts
      <4> QED BY <4>1 DEF ArmedInv
    <3> QED BY <3>3, <3>4
  <2>6. CASE SelectDone
    BY <2>6 DEF SelectDone, At, port, keys, flags, peer, stream, ParkedPortIsQuiet, ArmedInv,
       Stopped
  <2> QED BY <1>5, <2>1, <2>2, <2>3, <2>4, <2>5, <2>6 DEF SelectStep
<1>6. CASE SendStep
  <2>1. CASE TxByte
    BY <2>1 DEF TxByte, Sending, At, SendByte, port, flags, ArmedInv, Stopped
  <2>2. CASE TxFails
    BY <1>1, <1>2, <2>2 DEF TxFails, Sending, At, RequestFault, stream, ParkedPortIsQuiet, ArmedInv, Stopped
  <2>3. CASE SendFail
    BY <1>2, <2>3 DEF SendFail, At, RequestFault, port, stream, ParkedPortIsQuiet, ArmedInv
  <2>4. CASE SendEnd
    BY <2>4 DEF SendEnd, At, port, keys, flags, peer, stream, ParkedPortIsQuiet, ArmedInv,
       Stopped
  <2> QED BY <1>6, <2>1, <2>2, <2>3, <2>4 DEF SendStep
<1>7. CASE LayoutStep
  <2>1. CASE LayoutPoll
    BY <2>1 DEF LayoutPoll, At, port, stream, ArmedInv, Stopped
  <2>2. CASE LayoutWait
    BY <2>2 DEF LayoutWait, At, port, stream, ArmedInv, Stopped
  <2>3. CASE LayoutFail
    BY <1>2, <2>3 DEF LayoutFail, At, RequestFault, port, stream, ParkedPortIsQuiet, ArmedInv
  <2>4. CASE LayoutEnd
    BY <2>4 DEF LayoutEnd, At, port, keys, flags, peer, stream, ParkedPortIsQuiet, ArmedInv,
       Stopped
  <2> QED BY <1>7, <2>1, <2>2, <2>3, <2>4 DEF LayoutStep
<1>8. CASE Call
  <2>1. CASE Send
    BY <2>1 DEF Send, At, owners, port, keys, flags, peer, stream, ParkedPortIsQuiet, ArmedInv,
       Stopped
  <2>2. CASE ParallelSend
    BY <2>2 DEF ParallelSend, At, owners, port, keys, flags, peer, stream, ParkedPortIsQuiet,
       ArmedInv, Stopped
  <2>3. CASE QueueTelemetry
    BY <2>3 DEF QueueTelemetry, port, keys, flags, peer, stream, ParkedPortIsQuiet, ArmedInv,
       Stopped
  <2>4. CASE Layout
    BY <2>4 DEF Layout, At, owners, port, keys, flags, peer, stream, ParkedPortIsQuiet,
       ArmedInv, Stopped
  <2>5. ASSUME NEW s \in Remotes \cup {"mainboard"}, Select(s) PROVE ArmedInv'
    BY <2>5 DEF Select, At, owners, port, keys, flags, peer, stream, ParkedPortIsQuiet,
       ArmedInv, Stopped
  <2>6. CASE ConsoleClaim
    BY <2>6 DEF ConsoleClaim, At, UartOpens, ArmedInv, Stopped
  <2>7. CASE ConsoleRelease
    BY <1>1, <2>7 DEF ConsoleRelease, At, UartCloses, flags, stream, Counts, ArmedInv, Stopped
  <2>8. CASE ParallelReserve
    BY <2>8 DEF ParallelReserve, port, keys, flags, peer, stream, ParkedPortIsQuiet, ArmedInv,
       Stopped
  <2>9. CASE ParallelPark
    <3>1. /\ fg.pc = "idle" /\ owned = 1 /\ (armed \/ forgotten) /\ ~faultReq /\ ~faulted
          /\ UNCHANGED <<faulted, console, forgotten, fg>>
      BY <2>9 DEF ParallelPark, At, stream, ArmedInv, Stopped
    <3>2. CASE owned' = 2 /\ savedArmed' = armed /\ UNCHANGED <<faultReq, stale>>
      BY <3>1, <3>2 DEF ArmedInv
    <3>3. CASE RequestFault /\ UNCHANGED <<owned, savedArmed>>
      BY <3>1, <3>3 DEF RequestFault, ArmedInv
    <3> QED BY <2>9, <3>2, <3>3 DEF ParallelPark
  <2>10. CASE ParallelUnpark
    BY <2>10 DEF ParallelUnpark, flags, stream, ArmedInv
  <2>11. CASE ParallelRelease
    BY <2>11 DEF ParallelRelease, port, keys, flags, peer, stream, ParkedPortIsQuiet, ArmedInv,
       Stopped
  <2> QED BY <1>8, <2>1, <2>2, <2>3, <2>4, <2>5, <2>6, <2>7, <2>8, <2>9, <2>10, <2>11
     DEF Call
<1>9. CASE Environment
  <2>1. CASE PeerReply
    BY <2>1 DEF PeerReply, PeerFrame, owners, port, keys, flags, peer, stream,
       ParkedPortIsQuiet, ArmedInv, Stopped
  <2>2. CASE PeerBad
    BY <2>2 DEF PeerBad, PeerFrame, owners, port, keys, flags, peer, stream, ParkedPortIsQuiet,
       ArmedInv, Stopped
  <2>3. ASSUME NEW k \in Keys, PeerKey(k) PROVE ArmedInv'
    BY <2>3 DEF PeerKey, PeerFrame, owners, port, keys, flags, peer, stream, ParkedPortIsQuiet,
       ArmedInv, Stopped
  <2>4. ASSUME NEW k \in Keys, MainboardKey(k) PROVE ArmedInv'
    BY <2>4 DEF MainboardKey, port, keys, flags, peer, stream, ParkedPortIsQuiet, ArmedInv,
       Stopped
  <2> QED BY <1>9, <2>1, <2>2, <2>3, <2>4 DEF Environment
<1> QED BY <1>3, <1>4, <1>5, <1>6, <1>7, <1>8, <1>9 DEF Next

\* Whoever heeds a request never meets one older than the opening.
LEMMA StaleStep == IInv /\ StaleInv /\ [Next]_vars => StaleInv'
<1> SUFFICES ASSUME IInv, StaleInv, [Next]_vars PROVE StaleInv'
    OBVIOUS
<1>1. CallType /\ Counts /\ FlagTypes /\ SerializerHasOneHolder
    BY DEF IInv
<1>3. CASE UNCHANGED vars
    BY <1>3 DEF vars, owners, flags, StaleInv
<1>4. CASE Interrupt
  <2>1. CASE RxHeader
    BY <2>1 DEF RxHeader, Fault, owners, flags, StaleInv
  <2>2. CASE RxFrame
    BY <2>2, RxFrameCases DEF FrameAdmits, FrameAcknowledges, FramePresses,
       FrameFaults, FrameIsDropped, owners, flags, StaleInv
  <2>3. CASE RxLineError
    BY <2>3 DEF RxLineError, StaleInv
  <2>4. CASE Tick
    BY <2>4, TickCases DEF StaleInv
  <2>5. CASE AsyncByte
    BY <2>5 DEF AsyncByte, StaleInv
  <2> QED BY <1>4, <2>1, <2>2, <2>3, <2>4, <2>5 DEF Interrupt
<1>5. CASE SelectStep
  <2>1. CASE StopAsk
    BY <1>1, <2>1 DEF StopAsk, At, Goto, owners, CallType, Calls, StaleInv
  <2>2. CASE StopEnd
    BY <1>1, <2>2 DEF StopEnd, At, Goto, owners, CallType, Calls, StaleInv
  <2>3. CASE SelectOpen
    BY <2>3, SelectOpenCases DEF StaleInv
  <2>4. CASE SelectReplied
    BY <2>4 DEF SelectReplied, At, flags, StaleInv
  <2>5. CASE SelectFail
    BY <2>5 DEF SelectFail, At, SelectGivesUp, StaleInv
  <2>6. CASE SelectDone
    BY <2>6 DEF SelectDone, Idle, flags, StaleInv
  <2> QED BY <1>5, <2>1, <2>2, <2>3, <2>4, <2>5, <2>6 DEF SelectStep
<1>6. CASE SendStep
  <2>1. CASE TxByte
    BY <1>1, <2>1 DEF TxByte, Sending, At, owners, flags, CallType, Calls, StaleInv
  <2>2. CASE TxFails
    <3>1. CASE stale
      <4>1. fg.pc = "tx" /\ fg.then \in {"layoutPoll", "layoutWait", "layoutEnd"}
        BY <2>2, <3>1 DEF TxFails, Sending, At, StaleInv
      <4>2. fg' = [fg EXCEPT !.pc = "layoutFail"]
        BY <2>2, <4>1 DEF TxFails
      <4>3. fg'.pc = "layoutFail"
        BY <1>1, <4>2 DEF CallType, Calls
      <4>4. reserved' = reserved /\ (stale' => faultReq' = faultReq)
        BY <2>2 DEF TxFails, RequestFault, owners
      <4> QED BY <3>1, <4>3, <4>4 DEF StaleInv
    <3>2. CASE ~stale
      <4>1. ~stale'
        BY <2>2, <3>2 DEF TxFails, RequestFault
      <4> QED BY <4>1 DEF StaleInv
    <3> QED BY <3>1, <3>2
  <2>3. CASE SendFail
    BY <2>3 DEF SendFail, RequestFault, StaleInv
  <2>4. CASE SendEnd
    BY <2>4 DEF SendEnd, At, flags, StaleInv
  <2> QED BY <1>6, <2>1, <2>2, <2>3, <2>4 DEF SendStep
<1>7. CASE LayoutStep
  <2>1. CASE LayoutPoll
    BY <1>1, <2>1 DEF LayoutPoll, owners, CallType, Calls, StaleInv
  <2>2. CASE LayoutWait
    BY <1>1, <2>2 DEF LayoutWait, Goto, owners, CallType, Calls, StaleInv
  <2>3. CASE LayoutFail
    BY <2>3 DEF LayoutFail, RequestFault, StaleInv
  <2>4. CASE LayoutEnd
    BY <2>4 DEF LayoutEnd, Idle, flags, StaleInv
  <2> QED BY <1>7, <2>1, <2>2, <2>3, <2>4 DEF LayoutStep
<1>8. CASE Call
  <2>1. CASE Send
    BY <2>1 DEF Send, flags, StaleInv
  <2>2. CASE ParallelSend
    BY <2>2 DEF ParallelSend, flags, StaleInv
  <2>3. CASE QueueTelemetry
    BY <2>3 DEF QueueTelemetry, flags, StaleInv
  <2>4. CASE Layout
    BY <1>1, <2>4 DEF Layout, flags, CallType, Calls, StaleInv
  <2>5. ASSUME NEW s \in Remotes \cup {"mainboard"}, Select(s) PROVE StaleInv'
    BY <1>1, <2>5 DEF Select, flags, CallType, Calls, StaleInv
  <2>6. CASE ConsoleClaim
    <3>1. fg' = fg /\ fg.pc = "idle" /\ reserved' = reserved /\ faultReq' = faultReq
      BY <2>6 DEF ConsoleClaim, At, owners
    <3>2. ~transitioning
      BY <2>6 DEF ConsoleClaim
    <3>3. reserved = 0
      BY <1>1, <3>1, <3>2 DEF SerializerHasOneHolder, Counts
    <3>4. stale' => faultReq \/ stale
      BY <2>6 DEF ConsoleClaim
    <3> QED BY <3>1, <3>3, <3>4 DEF StaleInv
  <2>7. CASE ConsoleRelease
    BY <2>7 DEF ConsoleRelease, owners, flags, StaleInv
  <2>8. CASE ParallelReserve
    BY <2>8 DEF ParallelReserve, flags, StaleInv
  <2>9. CASE ParallelPark
    BY <2>9 DEF ParallelPark, RequestFault, owners, StaleInv
  <2>10. CASE ParallelUnpark
    BY <2>10 DEF ParallelUnpark, owners, flags, StaleInv
  <2>11. CASE ParallelRelease
    BY <2>11 DEF ParallelRelease, flags, StaleInv
  <2> QED BY <1>8, <2>1, <2>2, <2>3, <2>4, <2>5, <2>6, <2>7, <2>8, <2>9, <2>10, <2>11
     DEF Call
<1>9. CASE Environment
  <2>1. CASE PeerReply
    BY <2>1 DEF PeerReply, PeerFrame, owners, flags, StaleInv
  <2>2. CASE PeerBad
    BY <2>2 DEF PeerBad, PeerFrame, owners, flags, StaleInv
  <2>3. ASSUME NEW k \in Keys, PeerKey(k) PROVE StaleInv'
    BY <2>3 DEF PeerKey, PeerFrame, owners, flags, StaleInv
  <2>4. ASSUME NEW k \in Keys, MainboardKey(k) PROVE StaleInv'
    BY <2>4 DEF MainboardKey, owners, flags, StaleInv
  <2> QED BY <1>9, <2>1, <2>2, <2>3, <2>4 DEF Environment
<1> QED BY <1>3, <1>4, <1>5, <1>6, <1>7, <1>8, <1>9 DEF Next

\* No packet is begun inside another one.
LEMMA PacketStep == IInv /\ PacketInv /\ [Next]_vars => PacketInv'
<1> SUFFICES ASSUME IInv, PacketInv, [Next]_vars PROVE PacketInv'
    OBVIOUS
<1>1. Counts /\ CallType /\ FlagTypes
    BY DEF IInv
<1>2. CallInv /\ SerializerHasOneHolder /\ ParkedPortIsQuiet
    BY DEF IInv
<1>3. CASE UNCHANGED vars
    BY <1>3 DEF vars, owners, port, flags, stream, PacketInv, Begun, Stopped
<1>4. CASE Interrupt
  <2>1. CASE RxHeader
    BY <2>1 DEF RxHeader, Fault, owners, port, flags, stream, PacketInv, Begun, Stopped
  <2>2. CASE RxFrame
    <3>1. /\ owned = 1 /\ armed /\ ~faulted /\ rx # <<>>
          /\ UNCHANGED <<wire, mixed, forgotten, console, fg, owned, stopReq, faultReq, stale, savedArmed>>
      BY <2>2, RxFrameCases DEF FrameAdmits, FrameAcknowledges, FramePresses,
         FrameFaults, FrameIsDropped, port, flags, stream
    <3>2. UNCHANGED <<armed, faulted, async>> \/ (faulted' = TRUE /\ async' = 0)
      BY <2>2, RxFrameCases DEF FrameAdmits, FrameAcknowledges, FramePresses,
         FrameFaults, FrameIsDropped, Fault, AsyncAbort, owners, port, flags
    <3> QED BY <3>1, <3>2 DEF PacketInv, Begun, Stopped
  <2>3. CASE RxLineError
    BY <1>2, <2>3 DEF RxLineError, Fault, UartStops, AsyncAbort, flags, stream,
       PacketInv
  <2>4. CASE Tick
    <3>1. stopReq => async = 0
      BY <1>1, <1>2 DEF CallInv, SerializerHasOneHolder, Counts
    <3>2. /\ UNCHANGED <<owned, wire, mixed, console, fg>>
          /\ \/ /\ stopReq /\ ~stopReq' /\ async' = 0
                /\ forgotten' = (forgotten \/ (console /\ (faulted \/ faultReq)))
             \/ faulted'
             \/ UNCHANGED <<faulted, faultReq, async, forgotten, stopReq>>
      BY <2>4, TickCases
    <3>3. CASE faulted'
      BY <3>2, <3>3 DEF PacketInv
    <3>4. CASE UNCHANGED <<faulted, faultReq, async, forgotten, stopReq>>
      BY <3>2, <3>4 DEF PacketInv, Begun, Stopped
    <3>5. CASE /\ stopReq /\ ~stopReq' /\ async' = 0
               /\ forgotten' = (forgotten \/ (console /\ (faulted \/ faultReq)))
      <4>1. fg.pc = "stopWait" /\ async = 0
        BY <1>2, <3>1, <3>5 DEF CallInv
      <4>2. CASE ~console
        BY <3>2, <3>5, <4>1, <4>2 DEF PacketInv, Stopped
      <4>3. CASE console
        <5>1. wire => forgotten' \/ owned = 0
          <6>1. ~Begun /\ ~Stopped
            BY <3>5, <4>1 DEF Begun, Stopped
          <6>2. faulted \/ faultReq \/ forgotten => forgotten'
            BY <3>5, <4>3
          <6> QED BY <6>1, <6>2 DEF PacketInv
        <5> QED BY <3>2, <5>1 DEF PacketInv
      <4> QED BY <4>2, <4>3
    <3> QED BY <3>2, <3>3, <3>4, <3>5
  <2>5. CASE AsyncByte
    <3>1. owned = 1 /\ ~faulted /\ async > 0 /\ UNCHANGED <<fg, console, faultReq, stopReq, owned>>
      BY <2>5 DEF AsyncByte
    <3>2. fg.pc = "idle" \/ (reserved = 2 /\ fg.pc \in {"tx", "sendFail", "sendEnd"})
      BY <1>1, <1>2, <3>1 DEF SerializerHasOneHolder, CallInv, Counts, FlagTypes
    <3>3. fg.pc = "idle"
      BY <1>1, <1>2, <3>1, <3>2 DEF SerializerHasOneHolder, Counts, FlagTypes
    <3>4. CASE SendByte(async = 2) /\ async' = async - 1 /\ faulted' = faulted
      <4>1. async = 1 \/ async = 2
        BY <1>1, <3>1 DEF Counts
      <4>2. wire' = (async = 2) /\ mixed' = (mixed \/ (async = 2 /\ wire /\ ~faultReq /\ ~forgotten))
        BY <3>4 DEF SendByte
      <4>3. CASE async = 2
        <5>1. ~wire \/ faultReq \/ forgotten
          BY <3>1, <3>3, <4>3 DEF PacketInv, Begun, Stopped
        <5>2. async' = 1
          BY <3>4, <4>3
        <5> QED BY <4>2, <5>1, <5>2 DEF PacketInv, Begun
      <4>4. CASE async = 1
        <5>1. ~(async = 2)
          BY <4>4
        <5>2. wire' = FALSE /\ mixed' = mixed
          BY <1>1, <4>2, <5>1 DEF FlagTypes
        <5> QED BY <5>2 DEF PacketInv
      <4> QED BY <4>1, <4>3, <4>4
    <3>5. CASE Fault /\ UNCHANGED stream
      BY <3>5 DEF Fault, stream, PacketInv
    <3> QED BY <2>5, <3>4, <3>5 DEF AsyncByte
  <2> QED BY <1>4, <2>1, <2>2, <2>3, <2>4, <2>5 DEF Interrupt
<1>5. CASE SelectStep
  <2>1. CASE StopAsk
    BY <2>1 DEF StopAsk, At, owners, port, stream, PacketInv, Begun, Stopped
  <2>2. CASE StopEnd
    <3>1. fg.pc = "stopWait" /\ UNCHANGED <<stream, faulted, faultReq, async>>
      BY <2>2 DEF StopEnd, At, owners
    <3>2. owned = 0 \/ owned = 1
      BY <1>1, <1>2, <3>1 DEF ParkedPortIsQuiet, Counts
    <3>3. Stopped => owned' = 0
      BY <2>2, <3>2 DEF StopEnd, UartCloses, Stopped
    <3>4. owned = 0 => owned' = 0
      BY <2>2 DEF StopEnd, UartCloses
    <3>5. Begun => Begun'
      BY <3>1 DEF Begun
    <3> QED BY <3>1, <3>3, <3>4, <3>5 DEF stream, PacketInv
  <2>3. CASE SelectOpen
    <3>1. fg.pc = "selectOpen" /\ mixed' = mixed /\ async' = async
      BY <2>3, SelectOpenCases
    <3>2. \/ wire' = FALSE
          \/ /\ UNCHANGED <<owned, wire>> /\ owned # 0 /\ ~faulted
             /\ forgotten' = (forgotten \/ faultReq)
          \/ owned' = 0
      BY <2>3, SelectOpenCases
    <3>3. CASE wire' = FALSE \/ owned' = 0
      BY <3>1, <3>3 DEF PacketInv
    <3>4. CASE /\ UNCHANGED <<owned, wire>> /\ owned # 0 /\ ~faulted
               /\ forgotten' = (forgotten \/ faultReq)
      <4>1. ~Stopped /\ (Begun => Begun')
        BY <3>1 DEF Begun, Stopped
      <4>2. wire => forgotten' \/ Begun'
        BY <3>4, <4>1 DEF PacketInv
      <4> QED BY <3>1, <3>4, <4>2 DEF PacketInv
    <3> QED BY <3>2, <3>3, <3>4
  <2>4. CASE SelectReplied
    BY <2>4 DEF SelectReplied, At, owners, port, flags, stream, PacketInv, Begun, Stopped
  <2>5. CASE SelectFail
    <3>1. /\ fg.pc \in {"selectFail", "selectWait"} /\ faulted' = fg.prev
          /\ UNCHANGED <<faultReq, console, wire, mixed>>
          /\ forgotten' = (forgotten \/ (console /\ ~fg.prev /\ ~faultReq /\ (faulted \/ wire)))
      BY <2>5 DEF SelectFail, At, SelectGivesUp, Forgets
    <3>2. owned # 2 /\ fg.prev \in BOOLEAN
      BY <1>1, <1>2, <3>1 DEF ParkedPortIsQuiet, CallType, Calls
    <3>3. CASE console
      BY <3>1, <3>2, <3>3 DEF PacketInv
    <3>4. CASE ~console
      <4>1. owned' = 0
        BY <1>1, <2>5, <3>2, <3>4 DEF SelectFail, UartCloses, Counts
      <4> QED BY <3>1, <4>1 DEF PacketInv
    <3> QED BY <3>3, <3>4
  <2>6. CASE SelectDone
    BY <2>6 DEF SelectDone, At, port, flags, stream, PacketInv, Begun, Stopped
  <2> QED BY <1>5, <2>1, <2>2, <2>3, <2>4, <2>5, <2>6 DEF SelectStep
<1>6. CASE SendStep
  <2>1. CASE TxByte
    <3>1. /\ fg.pc = "tx" /\ fg.left > 0 /\ owned = 1 /\ ~faulted
          /\ UNCHANGED <<owners, port, flags, console>>
      BY <2>1 DEF TxByte, Sending, At
    <3>2. /\ wire' = (fg.left \in {2, 4})
          /\ mixed' = (mixed \/ (fg.left \in {2, 4} /\ wire /\ ~faultReq /\ ~forgotten))
      BY <2>1 DEF TxByte, SendByte
    <3>3. fg.left \in 0 .. 4 /\ fg \in Calls
      BY <1>1 DEF CallType, Calls
    <3>4. async = 0
      BY <1>1, <1>2, <3>1 DEF SerializerHasOneHolder, CallInv, Counts, FlagTypes
    <3>5. CASE fg.left \in {2, 4}
      <4>1. ~wire \/ faultReq \/ forgotten
        BY <3>1, <3>4, <3>5 DEF PacketInv, Begun, Stopped
      <4>2. fg'.pc = "tx" /\ fg'.left = fg.left - 1
        BY <2>1, <3>1, <3>3, <3>5 DEF TxByte, Calls
      <4>3. fg'.left \in {1, 3}
        BY <3>5, <4>2
      <4> QED BY <3>2, <4>1, <4>2, <4>3 DEF PacketInv, Begun
    <3>6. CASE fg.left \notin {2, 4}
      BY <3>2, <3>6 DEF PacketInv
    <3> QED BY <3>5, <3>6
  <2>2. CASE TxFails
    <3>1. /\ fg.pc = "tx" /\ UNCHANGED <<async, owned, faulted, wire, mixed, forgotten, console>>
          /\ fg'.pc \in {"selectFail", "layoutFail", "sendFail"}
      BY <1>1, <2>2 DEF TxFails, Sending, At, owners, stream, CallType, Calls
    <3> QED BY <3>1 DEF PacketInv, Begun
  <2>3. CASE SendFail
    BY <2>3 DEF SendFail, RequestFault, stream, PacketInv
  <2>4. CASE SendEnd
    BY <2>4 DEF SendEnd, At, port, flags, stream, PacketInv, Begun, Stopped
  <2> QED BY <1>6, <2>1, <2>2, <2>3, <2>4 DEF SendStep
<1>7. CASE LayoutStep
  <2>1. CASE LayoutPoll
    BY <2>1 DEF LayoutPoll, At, owners, port, stream, PacketInv, Begun, Stopped
  <2>2. CASE LayoutWait
    BY <2>2 DEF LayoutWait, At, owners, port, stream, PacketInv, Begun, Stopped
  <2>3. CASE LayoutFail
    BY <2>3 DEF LayoutFail, RequestFault, stream, PacketInv
  <2>4. CASE LayoutEnd
    BY <2>4 DEF LayoutEnd, At, port, flags, stream, PacketInv, Begun, Stopped
  <2> QED BY <1>7, <2>1, <2>2, <2>3, <2>4 DEF LayoutStep
<1>8. CASE Call
  <2>1. CASE Send
    BY <2>1 DEF Send, At, owners, port, flags, stream, PacketInv, Begun,
       Stopped
  <2>2. CASE ParallelSend
    BY <2>2 DEF ParallelSend, At, owners, port, flags, stream, PacketInv,
       Begun, Stopped
  <2>3. CASE QueueTelemetry
    <3>1. /\ UNCHANGED <<port, flags, stream, console, fg>> /\ ~transitioning
      BY <2>3 DEF QueueTelemetry
    <3>2. async = 0
      BY <1>1, <1>2, <3>1 DEF SerializerHasOneHolder, Counts, FlagTypes
    <3> QED BY <3>1, <3>2 DEF port, flags, stream, PacketInv, Begun, Stopped
  <2>4. CASE Layout
    BY <2>4 DEF Layout, At, port, flags, stream, PacketInv, Begun, Stopped
  <2>5. ASSUME NEW s \in Remotes \cup {"mainboard"}, Select(s) PROVE PacketInv'
    BY <2>5 DEF Select, At, owners, port, flags, stream, PacketInv,
       Begun, Stopped
  <2>6. CASE ConsoleClaim
    BY <2>6 DEF ConsoleClaim, At, UartOpens, owners, PacketInv, Begun, Stopped
  <2>7. CASE ConsoleRelease
    BY <1>1, <1>2, <2>7 DEF ConsoleRelease, At, UartCloses, owners, flags, stream, Counts,
       ParkedPortIsQuiet, PacketInv, Begun, Stopped
  <2>8. CASE ParallelReserve
    BY <2>8 DEF ParallelReserve, At, port, flags, stream, PacketInv, Begun, Stopped
  <2>9. CASE ParallelPark
    BY <2>9 DEF ParallelPark, At, RequestFault, owners, stream, PacketInv, Begun, Stopped
  <2>10. CASE ParallelUnpark
    BY <2>10 DEF ParallelUnpark, At, owners, port, flags, stream, PacketInv,
       Begun, Stopped
  <2>11. CASE ParallelRelease
    BY <2>11 DEF ParallelRelease, port, flags, stream, PacketInv, Begun,
       Stopped
  <2> QED BY <1>8, <2>1, <2>2, <2>3, <2>4, <2>5, <2>6, <2>7, <2>8, <2>9, <2>10, <2>11
     DEF Call
<1>9. CASE Environment
  <2>1. CASE PeerReply
    BY <2>1 DEF PeerReply, PeerFrame, owners, port, flags, stream,
       PacketInv, Begun, Stopped
  <2>2. CASE PeerBad
    BY <2>2 DEF PeerBad, PeerFrame, owners, port, flags, stream,
       PacketInv, Begun, Stopped
  <2>3. ASSUME NEW k \in Keys, PeerKey(k) PROVE PacketInv'
    BY <2>3 DEF PeerKey, PeerFrame, owners, port, flags, stream,
       PacketInv, Begun, Stopped
  <2>4. ASSUME NEW k \in Keys, MainboardKey(k) PROVE PacketInv'
    BY <2>4 DEF MainboardKey, Publish, owners, port, flags, stream,
       PacketInv, Begun, Stopped
  <2> QED BY <1>9, <2>1, <2>2, <2>3, <2>4 DEF Environment
<1> QED BY <1>3, <1>4, <1>5, <1>6, <1>7, <1>8, <1>9 DEF Next

-----------------------------------------------------------------------------
(* The theorems.                                                           *)

\* The invariant holds at reset.
LEMMA InitIInv == Init => IInv
<1> SUFFICES ASSUME Init PROVE IInv
    OBVIOUS
<1>1. /\ KeyTypes
      /\ FlagTypes
      /\ Counts
  <2>1. KeyTypes
    BY DEF Init, KeyTypes, Sources
  <2>2. FlagTypes
    BY DEF Init, FlagTypes
  <2>3. Counts
    BY DEF Init, Counts
  <2> QED BY <2>1, <2>2, <2>3
<1>2. CallType
    BY DEF Init, Idle, CallType, Calls, Steps, Sources
<1>3. Tokens
    BY BoundsAssumption DEF Init, Tokens
<1>4. FrameTypes
    BY BoundsAssumption DEF Init, FrameTypes
<1>5. CallInv /\ SerializerHasOneHolder /\ ParkedPortIsQuiet
    BY DEF Init, Idle, CallInv, SerializerHasOneHolder, ParkedPortIsQuiet
<1>6. OrderInv
    BY DEF Init, OrderInv
<1>7. PollInv /\ RestoreInv /\ HeldKeysBelongToTheSource
    BY DEF Init, Idle, PollInv, Unasked, RestoreInv, HeldKeysBelongToTheSource
<1> QED BY <1>1, <1>2, <1>3, <1>4, <1>5, <1>6, <1>7 DEF IInv

\* The parts of the invariant cover the type invariant.
LEMMA IInvTypes == IInv => TypeOK
<1> SUFFICES ASSUME IInv PROVE TypeOK
    OBVIOUS
<1>1. KeyTypes /\ FlagTypes /\ Counts /\ CallType /\ Tokens /\ FrameTypes
    BY DEF IInv
<1>2. fg.pc \in Steps /\ fg.then \in Steps /\ fg.left \in 0 .. 4
    BY <1>1 DEF CallType, Calls
<1>3. /\ \A i \in 1 .. Len(rx) : rx[i] \in Frames
      /\ \A i \in 1 .. Len(chan) : chan[i] \in Frames
    BY <1>1 DEF FrameTypes
<1> QED BY <1>1, <1>2 DEF TypeOK, KeyTypes, FlagTypes, Counts, Tokens, FrameTypes

\* The inductive invariant holds in every reachable state.
THEOREM InductiveInvariant == Spec => []IInv
<1>1. IInv /\ [Next]_vars => IInv'
    BY KeyTypesStep, FlagTypesStep, CountsStep, CallTypeStep, TokensStep,
       FrameTypesStep, CallInvStep, OneHolderStep, ParkedStep, OrderStep, PollInvStep,
       RestoreStep, HeldStep DEF IInv
<1> QED BY InitIInv, <1>1, PTL DEF Spec

\* The serializer of emos_keyboard.c has one holder and the pins lent to the parallel
\* engine are quiet, for all clients of UART1 and all bounds.
THEOREM SerializerSafety == Spec => []SerializerIsSafe
<1>1. IInv => SerializerIsSafe
    BY IInvTypes DEF IInv, SerializerIsSafe
<1> QED BY InductiveInvariant, <1>1, PTL

\* No key stays down through a source that is no longer selected (emos_keyboard.c).
THEOREM HeldKeysSafety == Spec => []HeldKeysBelongToTheSource
<1>1. IInv => HeldKeysBelongToTheSource
    BY DEF IInv
<1> QED BY InductiveInvariant, <1>1, PTL

\* Every key of a remote source was queued after the reply that admitted the source.
THEOREM KeysAreAdmitted == Spec => KeysFollowTheirAdmission
<1>1. IInv /\ [Next]_vars => [NewKeysAreAdmitted]_vars
    BY NewKeysStep
<1>2. Spec => [][NewKeysAreAdmitted]_vars
    BY InductiveInvariant, <1>1, PTL DEF Spec
<1> QED BY <1>2 DEF KeysFollowTheirAdmission, NewKeysAreAdmitted

\* A receiver that cannot hear says so, or the console kept it open over a failure that was
\* then withdrawn, whatever the clients of UART1 are (emos_keyboard.c:97-113, uart.c:241-318).
THEOREM ReceiverInvariant == Spec => []ArmedInv
<1>1. Init => ArmedInv
    BY DEF Init, ArmedInv
<1>2. IInv /\ ArmedInv /\ [Next]_vars => ArmedInv'
    BY ArmedStep
<1> QED BY InductiveInvariant, <1>1, <1>2, PTL DEF Spec

\* No request that is older than the opening of UART1 strikes a send, an opened select or the
\* parallel engine, whatever the clients of UART1 are (emos_keyboard.c:281-294, 400-410).
THEOREM FaultsStayCurrent == Spec => FaultsAreCurrent
<1> DEFINE Strikes == Tick /\ faultReq /\ faulted' /\ ~faulted /\ stale =>
             /\ reserved = 0
             /\ At("tx") => fg.then \in {"layoutPoll", "layoutWait", "layoutEnd"}
             /\ fg.pc \notin {"sendFail", "sendEnd", "selectWait", "selectFail"}
<1>1. Init => StaleInv
    BY DEF Init, StaleInv
<1>2. IInv /\ StaleInv /\ [Next]_vars => StaleInv'
    BY StaleStep
<1>3. StaleInv /\ [Next]_vars => [Strikes]_vars
    BY DEF StaleInv, At
<1>4. Spec => [][Strikes]_vars
    BY InductiveInvariant, <1>1, <1>2, <1>3, PTL DEF Spec
<1> QED BY <1>4 DEF FaultsAreCurrent

\* No packet is begun inside another and no receiver is deaf without a report, whatever the
\* clients of UART1 are, as long as no failure was forgotten (emos_keyboard.c, uart.c).
THEOREM StreamSafety == Spec => []StreamIsSound
<1>1. Init => PacketInv
    BY DEF Init, Idle, PacketInv
<1>2. IInv /\ PacketInv /\ [Next]_vars => PacketInv'
    BY PacketStep
<1>3. IInv /\ ArmedInv /\ PacketInv => StreamIsSound
    BY DEF IInv, SerializerHasOneHolder, ArmedInv, Stopped, PacketInv, StreamIsSound,
       PacketsAreWhole, HealthyReceiverIsArmed
<1> QED BY InductiveInvariant, ReceiverInvariant, <1>1, <1>2, <1>3, PTL DEF Spec

=============================================================================

----------------------------- MODULE CommandText -----------------------------
(***************************************************************************)
(* How MOS takes command lines apart and puts them together: words and     *)
(* numbers (mos_sysvars.c, strings.c), the arguments that an alias or an   *)
(* Obey file substitutes, the escapes of control characters, and commands  *)
(* that consist of little else (VDU, TIME).                                *)
(*                                                                         *)
(* A text is a sequence of characters; what is read just behind it is the  *)
(* terminator.  A call reads its inputs at once, so each is a step that    *)
(* leaves its inputs and its outcome in heard.                             *)
(***************************************************************************)
EXTENDS Integers, Sequences, FiniteSetsExt, SequencesExt

CONSTANTS
  WordTexts,      \* texts that words are taken from
  Templates,      \* aliases and lines of Obey files
  Arguments,      \* what they are called with
  Spellings,      \* spellings of numbers, with the number each stands for
  Junk,           \* words that are no number
  EscapeTexts,    \* texts to escape
  IfLines,        \* lines of IF
  MaxNumbers      \* bound: numbers in a line

VARIABLE heard    \* the last call: its name, inputs and outcome

NUL == "nul"
At(s, i) == IF i \in DOMAIN s THEN s[i] ELSE NUL
From(s, i) == SubSeq(s, i, Len(s))
Cut(s, from, to) == SubSeq(s, from, to - 1)
Digit == [c \in {"0", "1", "2", "3", "4", "5", "6", "7", "8", "9"} |->
            CHOOSE d \in 0 .. 9 : c = ToString(d)]
HexDigit == Digit @@ [c \in {"a", "b", "c", "d", "e", "f"} |->
              CASE c = "a" -> 10 [] c = "b" -> 11 [] c = "c" -> 12 [] c = "d" -> 13 [] c = "e" -> 14 [] c = "f" -> 15]

-----------------------------------------------------------------------------
(* Characters (strings.c).                                                 *)

\* The first position from i on that is not, or is, one of a set; both stop at the end.
mos_strspn(s, i, set) == Min({j \in i .. Len(s) + 1 : At(s, j) \notin set})
mos_strcspn(s, i, set) == Min({j \in i .. Len(s) + 1 : At(s, j) \in set \cup {NUL}})
\* A copy of at most n characters.
mos_strndup(s, n) == SubSeq(s, 1, IF Len(s) < n THEN Len(s) ELSE n)

Lower(c) == CASE c = "A" -> "a" [] c = "B" -> "b" [] OTHER -> c
tolower(s) == [i \in DOMAIN s |-> Lower(s[i])]
\* Equal, or not; the sign of a difference is used nowhere.
strcasecmp(s, t) == tolower(s) = tolower(t)
strncasecmp(s, t, n) == strcasecmp(mos_strndup(s, n), mos_strndup(t, n))
\* Where t begins in s, or 0.
stristr(s, t) ==
  LET starts == {i \in 1 .. Len(s) : \A j \in DOMAIN t : Lower(At(s, i + j - 1)) = Lower(t[j])}
  IN IF t = << >> THEN 1 ELSE IF starts = {} THEN 0 ELSE Min(starts)

-----------------------------------------------------------------------------
(* Words.                                                                  *)

\* Where a quoted word that starts before i has its closing quote, or the end.
\* A quote is escaped by another one or by a backslash before it.
RECURSIVE EndQuote(_, _)
EndQuote(s, i) ==
  IF At(s, i) = NUL THEN i
  ELSE IF s[i] = "\"" /\ At(s, i + 1) = "\"" THEN EndQuote(s, i + 2)
  ELSE IF s[i] = "\"" /\ s[i - 1] # "\\" THEN i
  ELSE EndQuote(s, i + 1)

Word(result, start, stop, next) == [result |-> result, start |-> start, stop |-> stop, next |-> next]
\* The word that begins at first, where close is its closing quote if it has one.
WordAt(s, i, first, close, divider, keep, cut) ==
  LET quoted == At(s, first) = "\""
      start  == IF quoted /\ ~keep THEN first + 1 ELSE first
      stop   == IF quoted THEN (IF keep THEN close + 1 ELSE close) ELSE mos_strcspn(s, first, divider)
      next   == IF cut /\ At(s, stop) # NUL THEN stop + 1 ELSE stop
  IN IF quoted /\ (At(s, close) = NUL \/ At(s, close + 1) \notin divider \cup {NUL})
     THEN Word("bad string", 0, 0, i)
     ELSE Word(IF start = next THEN "invalid" ELSE "ok", start, stop, next)
\* The next word of s from i on.  keep: the quotes belong to it; cut: the text is
\* terminated behind it.
extractString(s, i, divider, keep, cut) ==
  LET first == mos_strspn(s, i, divider)
  IN WordAt(s, i, first, EndQuote(s, first + 1), divider, keep, cut)

\* Argument n, counted from 0: where it starts and stops, or 0.
RECURSIVE getArgument(_, _, _), ArgumentFrom(_, _, _)
ArgumentFrom(w, s, n) ==
  IF w.result # "ok" THEN Word("none", 0, 0, 0) ELSE IF n = 0 THEN w ELSE getArgument(s, n - 1, w.next)
getArgument(s, n, i) == ArgumentFrom(extractString(s, i, {" "}, TRUE, FALSE), s, n)

mos_trim(s, stars) ==
  LET from == mos_strspn(s, 1, IF stars THEN {" ", "*"} ELSE {" "})
      kept == {i \in from .. Len(s) : s[i] # " "}
  IN IF kept = {} THEN << >> ELSE SubSeq(s, from, Max(kept))

-----------------------------------------------------------------------------
(* Numbers.                                                                *)

\* strtol: the value of the digits, and where they stop.
RECURSIVE strtol(_, _, _, _)
strtol(s, i, base, value) ==
  IF At(s, i) \in DOMAIN HexDigit /\ HexDigit[s[i]] < base
  THEN strtol(s, i + 1, base, value * base + HexDigit[s[i]]) ELSE [value |-> value, stop |-> i]
Signed(s, i, base) ==
  IF At(s, i) = "-" THEN [strtol(s, i + 1, base, 0) EXCEPT !.value = -@] ELSE strtol(s, i, base, 0)

Number(ok, value, next) == [ok |-> ok, value |-> value, next |-> next]
\* A seeded fault: the number behind a base is read where the base is.
BaseNotPassed(s, bar) == 1
AfterBase(s, bar) == bar + 1
\* The form of the number in s that starts at start and ends before ends.
Form(s, start, ends, h) ==
  LET bars  == {j \in start + 1 .. ends - 1 : s[j] = "_"}
      bar   == Min(bars)
      based == Signed(SubSeq(s, 1, bar - 1), start, 10)
  IN IF At(s, start) = "&" THEN [base |-> 16, at |-> start + 1]
     ELSE IF At(s, start) = "0" /\ At(s, start + 1) = "x" THEN [base |-> 16, at |-> start + 2]
     ELSE IF h THEN [base |-> 16, at |-> start]
     ELSE IF bars # {}
     THEN [base |-> IF based.stop = bar THEN based.value ELSE -1, at |-> AfterBase(s, bar)]
     ELSE [base |-> 10, at |-> start]
NumberIn(s, i, form, ends, flags) ==
  LET read == Signed(SubSeq(s, 1, ends - 1), form.at, form.base)
  IN IF ("decimal" \in flags /\ form.base # 10) \/ form.base \notin 2 .. 36 THEN Number(FALSE, 0, i)
     ELSE IF read.stop < ends \/ ("positive" \in flags /\ read.value < 0) THEN Number(FALSE, 0, read.stop)
     ELSE Number(TRUE, read.value, read.stop)
NumberAt(s, i, start, stop, flags) ==
  LET h    == "h suffix" \in flags /\ At(s, stop - 1) = "h"
      ends == IF h THEN stop - 1 ELSE stop
  IN IF start = stop THEN Number(FALSE, 0, i) ELSE NumberIn(s, i, Form(s, start, ends, h), ends, flags)
\* The number at i: decimal, &hex, 0xhex, base_number or, if asked for, hex followed
\* by h.  next: where the caller goes on; it stays when the number is no good.
extractNumber(s, i, divider, flags) ==
  LET start == mos_strspn(s, i, divider) IN NumberAt(s, i, start, mos_strcspn(s, start, divider), flags)

\* TIME and the code variables: one number after the other.
RECURSIVE Numbers(_, _, _, _), NumbersAfter(_, _, _, _)
NumbersAfter(r, s, n, flags) == IF r.ok THEN <<r.value>> \o Numbers(s, r.next, n - 1, flags) ELSE <<"invalid">>
Numbers(s, i, n, flags) ==
  IF n = 0 THEN << >> ELSE NumbersAfter(extractNumber(s, i, {" "}, flags), s, n, flags)

\* VDU: each word a byte, or two when it ends in a semicolon or does not fit one.  A
\* number followed by h ends before the h, and the test that all of the word was
\* used then refuses it.
Bytes(value, word) ==
  IF word \/ value > 255 \/ value < -255 THEN <<value % 256, (value \div 256) % 256>> ELSE <<value % 256>>
VduToken(r, token, word) ==
  [ok |-> r.ok /\ r.value <= 65535 /\ r.next > Len(token), bytes |-> Bytes(r.value, word)]
VduWord(w) ==
  LET word  == Last(w) = ";"
      token == IF word THEN Front(w) ELSE w
  IN VduToken(extractNumber(token, 1, {",", " "}, {"h suffix"}), token, word)
RECURSIVE mos_cmdVDU(_, _), VduAfter(_, _, _)
VduAfter(token, s, next) == IF token.ok THEN token.bytes \o mos_cmdVDU(s, next) ELSE <<"invalid">>
VduFrom(s, start, w) == IF w = << >> THEN << >> ELSE VduAfter(VduWord(w), s, start + Len(w))
mos_cmdVDU(s, i) ==
  LET start == mos_strspn(s, i, {" "}) IN VduFrom(s, start, Cut(s, start, mos_strcspn(s, start, {" "})))

-----------------------------------------------------------------------------
(* Substitution.  A template is taken apart into pieces of output; used is *)
(* the last argument that it names, or 99 for all.                         *)

Piece(text, i, used) == [text |-> text, next |-> i, used |-> used]
\* The text of an argument that there is, or from it to the end.
Argument(args, w, on) ==
  IF w.result # "ok" THEN << >> ELSE IF on THEN From(args, w.start) ELSE Cut(args, w.start, w.stop)
Numbered(c, args, on) == Argument(args, getArgument(args, Digit[c], 1), on)
PieceAt(t, i, args, used) ==
  LET first  == At(t, i + 1)
      second == At(t, i + 2)
  IN CASE t[i] # "%" -> Piece(<<t[i]>>, i + 1, used)
       [] t[i] = "%" /\ first = "s" -> Piece(args, i + 2, 99)
       [] t[i] = "%" /\ first = "*" /\ second \in DOMAIN Digit -> Piece(Numbered(second, args, TRUE), i + 3, 99)
       [] t[i] = "%" /\ first \in DOMAIN Digit ->
            Piece(Numbered(first, args, FALSE), i + 2, Max({used, Digit[first]}))
       [] OTHER -> Piece(<<"%">>, IF first = "%" THEN i + 2 ELSE i + 1, used)
RECURSIVE Pieces(_, _, _, _, _), PiecesAfter(_, _, _, _)
PiecesAfter(p, t, args, done) == Pieces(t, p.next, args, p.used, Append(done, p.text))
Pieces(t, i, args, used, done) ==
  IF i > Len(t) THEN [texts |-> done, used |-> used] ELSE PiecesAfter(PieceAt(t, i, args, used), t, args, done)
PiecesOf(t, args) == Pieces(t, 1, args, -1, << >>)

Rest(used, args, omitRest) ==
  IF omitRest \/ used = 99 THEN << >> ELSE Argument(args, getArgument(args, used + 1, 1), TRUE)
\* A seeded fault: the space before the arguments that are left is not counted.
MeasureNoSpace(p, rest) == Len(FlattenSeq(p.texts)) + Len(rest)
Measure(p, rest) == Len(FlattenSeq(p.texts)) + (IF rest = << >> THEN 0 ELSE Len(rest) + 1)
MeasurePieces(p, args, omitRest) == Measure(p, Rest(p.used, args, omitRest)) + 1
\* The first pass: the length, with the terminator.
SubstitutedLength(t, args, omitRest) == MeasurePieces(PiecesOf(t, args), args, omitRest)

\* The second pass, into room characters: piece by piece, cut at the end of the
\* room; what follows a full buffer is only counted.
Put(b, text) ==
  IF ~b.copying THEN b
  ELSE [out |-> b.out \o mos_strndup(text, b.room), room |-> b.room - Len(text),
        copying |-> b.room - Len(text) > 0]
PutRest(body, rest) ==
  IF ~body.copying THEN [out |-> body.out, ended |-> FALSE]
  ELSE IF rest = << >> THEN [out |-> body.out, ended |-> TRUE]
  ELSE [out |-> body.out \o <<" ">> \o mos_strndup(rest, body.room - 1), ended |-> Len(rest) < body.room - 1]
PutPieces(p, args, room, omitRest) ==
  PutRest(FoldLeft(Put, [out |-> << >>, room |-> room, copying |-> TRUE], p.texts), Rest(p.used, args, omitRest))
substituteArgs(t, args, room, omitRest) == PutPieces(PiecesOf(t, args), args, room, omitRest)
\* Measured, allocated and written.
substituteArguments(t, args, omitRest) ==
  substituteArgs(t, args, SubstitutedLength(t, args, omitRest), omitRest)

-----------------------------------------------------------------------------
(* Escapes.                                                                *)

\* Control characters and the bar itself, with the letter that stands for each.
Escapes == ("^A" :> "A") @@ ("^M" :> "M") @@ ("del" :> "?") @@ ("|" :> "|")
Escape(c) == IF c \in DOMAIN Escapes THEN <<"|", Escapes[c]>> ELSE <<c>>
EscapedLength(s) == Len(FlattenSeq([i \in DOMAIN s |-> Escape(s[i])])) + 1
\* printEscapedString sends them to the screen.
printEscapedString(s) == FlattenSeq([i \in DOMAIN s |-> Escape(s[i])])

\* Into room characters: a plain character that leaves room for the terminator
\* alone is the last, and ends the text, and an escape that finds no room ends it
\* too; nothing else does.  ok: FR_OK; ended: a terminator was written.
RECURSIVE escapeString(_, _, _)
escapeString(s, out, room) ==
  IF s = << >> THEN [out |-> out, ok |-> TRUE, ended |-> FALSE]
  ELSE IF Head(s) \in DOMAIN Escapes
  THEN IF room <= 2 THEN [out |-> out, ok |-> FALSE, ended |-> TRUE]
       ELSE escapeString(Tail(s), out \o Escape(Head(s)), room - 2)
  ELSE IF room = 2 THEN [out |-> Append(out, Head(s)), ok |-> Len(s) = 1, ended |-> TRUE]
  ELSE escapeString(Tail(s), Append(out, Head(s)), room - 1)

\* How gsRead reads them back.
RECURSIVE Unescaped(_)
Unescaped(s) ==
  IF s = << >> THEN << >>
  ELSE IF s[1] = "|" THEN <<CHOOSE c \in DOMAIN Escapes : Escapes[c] = s[2]>> \o Unescaped(From(s, 3))
  ELSE <<s[1]>> \o Unescaped(Tail(s))

-----------------------------------------------------------------------------
(* Lines that choose between commands: condition THEN this ELSE that.      *)

ThenText == <<" ", "t", " ">>
ElseText == <<" ", "e", " ">>
\* mos_cmdIF and mos_cmdIFTHERE take the line apart; parts: condition, then, else.
IfParts(s) ==
  LET then == stristr(s, ThenText)
      tail == From(s, then + Len(ThenText))
      else == stristr(tail, ElseText)
  IN IF then = 0 THEN << >>
     ELSE IF else = 0 THEN <<Cut(s, 1, then), tail>>
     ELSE <<Cut(s, 1, then), Cut(tail, 1, else), From(tail, else + Len(ElseText))>>

-----------------------------------------------------------------------------
(* The calls.                                                              *)

Hears(call, in, out) == heard.call = "none" /\ heard' = [call |-> call, in |-> in, out |-> out]

RECURSIVE Words(_, _, _, _, _), WordsAfter(_, _, _, _, _)
WordsAfter(w, s, divider, keep, cut) ==
  IF w.result # "ok" THEN <<w>> ELSE <<w>> \o Words(s, w.next, divider, keep, cut)
Words(s, i, divider, keep, cut) ==
  WordsAfter(extractString(s, i, divider, keep, cut), s, divider, keep, cut)
WordsCall == \E s \in WordTexts, divider \in {{" "}, {",", " "}}, keep, cut \in BOOLEAN :
  Hears("words", [text |-> s, divider |-> divider, keep |-> keep], Words(s, 1, divider, keep, cut))

Joined(words) == FlattenSeq([i \in DOMAIN words |-> IF i = 1 THEN words[i].text ELSE <<" ", " ">> \o words[i].text])
Lines(n) == UNION {[1 .. k -> Spellings] : k \in 1 .. n}
NumbersCall == \E line \in Lines(MaxNumbers), junk \in Junk \cup {<< >>} :
  Hears("numbers", [line |-> line, junk |-> junk],
        Numbers(Joined(line) \o (IF junk = << >> THEN << >> ELSE <<" ">> \o junk), 1, MaxNumbers + 1, {}))
\* TIME, with what it accepts.
mos_cmdTIME == \E line \in Lines(MaxNumbers) :
  Hears("time", line, Numbers(Joined(line), 1, Len(line), {"decimal", "positive"}))
VduCall == \E line \in Lines(MaxNumbers), words \in BOOLEAN :
  Hears("vdu", [line |-> line, words |-> words],
        mos_cmdVDU(Joined([i \in DOMAIN line |-> IF words THEN [line[i] EXCEPT !.text = Append(@, ";")] ELSE line[i]]), 1))
SubstituteCall == \E t \in Templates, args \in Arguments, omitRest \in BOOLEAN :
  Hears("substitute", [template |-> t, args |-> args, omitRest |-> omitRest], substituteArguments(t, args, omitRest))
TruncateCall == \E t \in Templates, args \in Arguments, room \in 1 .. 3 :
  Hears("truncate", [template |-> t, args |-> args, room |-> room], substituteArgs(t, args, room, FALSE))
EscapeCall == \E s \in EscapeTexts : \E room \in 1 .. EscapedLength(s) + 1 :
  Hears("escape", [text |-> s, room |-> room], escapeString(s, << >>, room))
IfCall == \E s \in IfLines : Hears("if", s, IfParts(s))

TextInit == heard = [call |-> "none", in |-> << >>, out |-> << >>]
TextNext ==
  \/ WordsCall \/ NumbersCall \/ mos_cmdTIME \/ VduCall
  \/ SubstituteCall \/ TruncateCall \/ EscapeCall \/ IfCall

-----------------------------------------------------------------------------
(* Properties.                                                             *)

Covered(words) == UNION {w.start .. w.stop - 1 : w \in {words[i] : i \in DOMAIN words}}
\* Reading word by word neither skips nor repeats anything: words are in order and
\* apart, and when the reading has come to the end, what lies outside of them are
\* dividers and, where they are left out, quotes.  It stops early only at a bad
\* quotation or an empty one.
WordsAreWhole ==
  heard.call = "words" =>
    LET s == heard.in.text
        final == Last(heard.out)
        words == Front(heard.out)
    IN /\ \A i \in 1 .. Len(words) - 1 : words[i].stop <= words[i + 1].start
       /\ \A i \in DOMAIN words : words[i].start < words[i].next /\ words[i].stop <= Len(s) + 1
       /\ final.result = "invalid" /\ final.next > Len(s) /\ final.start > Len(s) =>
            \A i \in DOMAIN s \ Covered(words) : s[i] \in heard.in.divider \cup (IF heard.in.keep THEN {} ELSE {"\""})

\* A line of numbers, in whatever form, is read as the numbers it spells, one after
\* the other, and the first word that is none is refused where it stands.
NumbersAreRead ==
  /\ heard.call = "numbers" =>
       heard.out = Append([i \in DOMAIN heard.in.line |-> heard.in.line[i].value], "invalid")
  /\ heard.call = "time" =>
       LET good == {i \in DOMAIN heard.in : heard.in[i].plain}
       IN IF good = DOMAIN heard.in THEN heard.out = [i \in good |-> heard.in[i].value]
          ELSE Last(heard.out) = "invalid"
\* What VDU sends are the numbers of its line, as bytes or words.
VduSends ==
  heard.call = "vdu" =>
    heard.out = FlattenSeq([i \in DOMAIN heard.in.line |-> Bytes(heard.in.line[i].value, heard.in.words)])

\* The two passes of a substitution agree: the text fits the room that was measured
\* for it, with its terminator, and nothing of it is missing; into less room goes
\* its beginning, and never more than the room.
SubstitutionsFit ==
  /\ heard.call = "substitute" =>
       heard.out.ended /\
       Len(heard.out.out) + 1 = SubstitutedLength(heard.in.template, heard.in.args, heard.in.omitRest)
  /\ heard.call = "truncate" =>
       /\ Len(heard.out.out) <= heard.in.room
       /\ IsPrefix(heard.out.out, substituteArguments(heard.in.template, heard.in.args, FALSE).out)

Plain(c) == c \notin DOMAIN Escapes
\* One byte is left, by an escape or from the start, and a plain character comes:
\* it takes the byte of the terminator, and what follows is written past the room.
Overruns(text, room) == \E k \in 0 .. Len(text) - 1 :
  /\ EscapedLength(Cut(text, 1, k + 1)) = room /\ Plain(text[k + 1])
  /\ k > 0 => ~Plain(text[k])
\* An escaped text fits the room measured for it, or more, and is read back as it
\* was, but the caller finds it terminated only when the room is exactly what was
\* measured and the last character a plain one.  With less room its beginning is
\* written and terminated within the room, and refused, unless Overruns.
EscapesAreUndone ==
  heard.call = "escape" =>
    LET text == heard.in.text
        room == heard.in.room
        exact == room = EscapedLength(text)
    IN /\ IsPrefix(heard.out.out, printEscapedString(text))
       /\ room >= EscapedLength(text) =>
            /\ heard.out.ok /\ Len(heard.out.out) < room /\ Unescaped(heard.out.out) = text
            /\ heard.out.ended <=> exact /\ text # << >> /\ Plain(Last(text))
       /\ room < EscapedLength(text) /\ ~Overruns(text, room) =>
            ~heard.out.ok /\ heard.out.ended /\ Len(heard.out.out) < room

\* The parts of an IF are those of its line, at the first THEN and the first ELSE
\* behind it.
IfsAreSplit ==
  heard.call = "if" /\ heard.out # << >> =>
    /\ Len(heard.in) = Len(FlattenSeq(heard.out)) + 3 * (Len(heard.out) - 1)
    /\ stristr(heard.out[1], ThenText) = 0 /\ stristr(heard.out[2], ElseText) = 0

\* What a command line says is what its command gets: words, numbers, substituted
\* arguments and escapes, by two passes and by repeated calls that hand on where
\* they stopped.
TextsAreSound ==
  WordsAreWhole /\ NumbersAreRead /\ VduSends /\ SubstitutionsFit /\ EscapesAreUndone /\ IfsAreSplit
=============================================================================

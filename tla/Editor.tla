-------------------------------- MODULE Editor --------------------------------
(***************************************************************************)
(* The line editor (mos_editor.c): the line and the insert position, what  *)
(* it writes to the screen, tab completion, hotkeys and the history.       *)
(* Every key is one step of the loop in editline.                          *)
(***************************************************************************)
EXTENDS Integers, Sequences

CONSTANTS
  Keys,         \* the characters typed; Space may be one of them
  Space, Quote, Slash,
  Limits,       \* how many characters the buffers of the callers hold
  Hotkeys,      \* the expanded hotkeys: [text, return]
  Leaves,       \* what tab completion finds: [name, added], a space or a slash after it
  Givens,       \* the lines that callers hand over to be edited
  HistoryDepth, \* cmd_historyDepth
  Columns,      \* scrcols
  Width,        \* bound: the part of the screen looked at
  MaxEdits      \* bound: calls of the editor

VARIABLES
  buffer,   \* the line
  insert,   \* insertPos
  screen,   \* [text, cursor]: what stands on the screen from the prompt on
  history,  \* cmd_history
  at,       \* history_no
  limit,    \* of the call in progress, -1 between two
  torn,     \* a completion has put a byte of the old line, or its end, before the rest
  entered,  \* the lines ended with Enter, for the property
  calls

Characters ==
  Keys \cup {Space, Quote, Slash} \cup {leaf.added : leaf \in Leaves}
    \cup UNION {{x.text[i] : i \in DOMAIN x.text} : x \in Hotkeys}
    \cup UNION {{x.name[i] : i \in DOMAIN x.name} : x \in Leaves}
    \cup UNION {{x[i] : i \in DOMAIN x} : x \in Givens}

\* Texts are sequences of characters; what is looked at of the screen holds every buffer,
\* its end included, and the history holds a line.
EditorAssumption ==
  /\ Columns \in Nat /\ Width \in Nat /\ Limits \subseteq 0 .. Width - 1
  /\ HistoryDepth \in Nat \ {0} /\ MaxEdits \in Nat
  /\ \A x \in Hotkeys : x.text \in Seq(Characters)
  /\ \A x \in Leaves : x.name \in Seq(Characters)
  /\ Givens \subseteq Seq(Characters)

editorVars == <<buffer, insert, screen, history, at, limit, torn, entered, calls>>

Before(s, n) == SubSeq(s, 1, n)
After(s, n) == SubSeq(s, n + 1, Len(s))
Spaces(n) == [i \in 1 .. n |-> Space]

-----------------------------------------------------------------------------
(* The screen: characters overwrite, the cursor moves over them.           *)

Written(s, text) ==
  [text   |-> [i \in DOMAIN s.text |-> IF i \in s.cursor + 1 .. s.cursor + Len(text) THEN text[i - s.cursor] ELSE s.text[i]],
   cursor |-> s.cursor + Len(text)]
Moved(s, by) == [s EXCEPT !.cursor = @ + by]
Blank == [text |-> Spaces(Width), cursor |-> 0]

\* gotoEditLineStart and gotoEditLineEnd.
AtStart(s) == Moved(s, -insert)

\* removeEditLine: spaces over the line, then the cursor back to its start.
removeEditLine(s) == Moved(Written(AtStart(s), Spaces(Len(buffer))), -Len(buffer))

-----------------------------------------------------------------------------
(* The keys.                                                               *)

Editing == limit # -1
\* The line becomes text with the position p; the screen becomes s.
Becomes(text, p, s) ==
  /\ buffer' = text /\ insert' = p /\ screen' = s
  /\ UNCHANGED <<history, limit, torn, entered, calls>>

insertCharacter == Editing /\
  \E c \in Keys :
    /\ Len(buffer) < limit
    /\ LET rest == After(buffer, insert)
       IN Becomes(Before(buffer, insert) \o <<c>> \o rest, insert + 1,
                  Moved(Written(screen, <<c>> \o rest), -Len(rest)))
    /\ UNCHANGED at

\* A seeded fault: nothing is written over the last character.
deleteUnwiped == Editing /\ insert > 0 /\
  LET rest == After(buffer, insert)
  IN /\ Becomes(Before(buffer, insert - 1) \o rest, insert - 1,
                Moved(Written(Moved(screen, -1), rest), -Len(rest)))
     /\ UNCHANGED at

deleteCharacter == Editing /\ insert > 0 /\
  LET rest == After(buffer, insert) \o <<Space>>
  IN /\ Becomes(Before(buffer, insert - 1) \o After(buffer, insert), insert - 1,
                Moved(Written(Moved(screen, -1), rest), -Len(rest)))
     /\ UNCHANGED at

Goes(p) == Becomes(buffer, p, Moved(screen, p - insert)) /\ UNCHANGED at
Left == Editing /\ insert > 0 /\ Goes(insert - 1)
Right == Editing /\ insert < Len(buffer) /\ Goes(insert + 1)
Home == Editing /\ Goes(0)
End == Editing /\ Goes(Len(buffer))

\* Up and down go by a row of the screen in a long line, else to the end of
\* the line, else through the history.
Long == Len(buffer) > Columns
Up == Editing /\ insert > 0 /\ Goes(IF Long /\ insert - Columns > 0 THEN insert - Columns ELSE 0)
Down ==
  /\ Editing /\ insert < Len(buffer)
  /\ Goes(IF Long /\ insert + Columns < Len(buffer) THEN insert + Columns ELSE Len(buffer))

\* editHistorySet: the entry, cut to what the buffer holds.
editHistorySet(index) ==
  LET text == Before(history[index + 1], IF Len(history[index + 1]) > limit THEN limit ELSE Len(history[index + 1]))
  IN /\ Becomes(text, Len(text), Written(removeEditLine(screen), text))
     /\ at' = index

editHistoryUp ==
  /\ Editing /\ history # << >>
  /\ editHistorySet(IF at > 0 THEN at - 1 ELSE 0)

editHistoryDown ==
  /\ Editing /\ at < Len(history)
  /\ IF at = Len(history) - 1
     THEN Becomes(<< >>, 0, removeEditLine(screen)) /\ at' = Len(history)
     ELSE editHistorySet(at + 1)

-----------------------------------------------------------------------------
(* Tab completion.  No wildcard, and no quote behind a backslash.          *)

\* The first of these places from place p on, or the end of the line.
FirstFrom(p, places) ==
  LET from == {i \in places : i >= p} \cup {Len(buffer) + 1}
  IN CHOOSE i \in from : \A j \in from : i <= j
Places(c) == {i \in DOMAIN buffer : buffer[i] = c}
Skipped(p) == FirstFrom(p, DOMAIN buffer \ Places(Space))
\* extractString: a quote ends a quoted term unless it is one of a pair, so what
\* ends it is the last of an odd number of quotes; a space or the end must follow.
EndQuote(s) ==
  FirstFrom(s + 1, {i \in Places(Quote) \ {j - 1 : j \in Places(Quote)} :
    \E first \in s + 1 .. i :
      /\ first .. i \subseteq Places(Quote) /\ (first = s + 1 \/ first - 1 \notin Places(Quote))
      /\ (i - first) % 2 = 0})
IsBad(s) ==
  /\ s \in Places(Quote)
  /\ EndQuote(s) = Len(buffer) + 1 \/ EndQuote(s) + 1 \in DOMAIN buffer \ Places(Space)
TermEnd(s) == IF s \in Places(Quote) THEN EndQuote(s) + 1 ELSE FirstFrom(s, Places(Space))

\* findTermStart: the first term that does not end before the position, after its quote.
findTermStart ==
  LET term[s \in 1 .. Len(buffer) + 1] ==
        IF s = Len(buffer) + 1 \/ IsBad(s) \/ TermEnd(s) > insert THEN s ELSE term[Skipped(TermEnd(s))]
      start == term[Skipped(1)]
  IN IF start \in Places(Quote) THEN start + 1 ELSE start

TypedPart(n) == SubSeq(buffer, insert - n + 1, insert)
Has(text, c) == \E i \in DOMAIN text : text[i] = c
\* What is completed of the term that starts at a place: the n characters between
\* the last separator in it and the position.  There is none behind the line, or
\* behind the position.
Term(start, n) ==
  /\ start <= Len(buffer) /\ n \in 0 .. insert + 1 - start
  /\ ~Has(TypedPart(n), Slash)
  /\ n < insert + 1 - start => buffer[insert - n] = Slash

\* hasLeadingQuote.
Led(n) == n < insert /\ buffer[insert - n] = Quote

\* What the line holds behind the completed term, which ends at place p.  Behind a
\* quoted name the rest was moved by one place too many if the quote was there
\* already: the byte of the old line that is left there, or its end, comes first;
\* behind the old line there may be anything.
Tails(rest, p, quoted, n) ==
  IF ~(quoted /\ Led(n)) THEN {rest}
  ELSE IF p < Len(buffer) THEN {<<buffer[p + 1]>> \o rest}
  ELSE {<< >>} \cup (IF p = Len(buffer) THEN {} ELSE {<<c>> \o rest : c \in Characters})

\* insertString: what is missing of the leaf and a character after it, all quoted
\* if there is a space in it, and the end of a quote that stands before it.  There
\* must be room, but nobody counts the end of a quote.
Wrapped(leaf, added, quoted, n) ==
  (IF quoted /\ ~Led(n) THEN <<Quote>> ELSE << >>) \o leaf
    \o (IF quoted \/ Led(n) THEN <<Quote, added>> ELSE <<added>>)
insertString(leaf, added, n) ==
  LET quoted == Has(leaf, Space)
      start == insert - n
      rest == After(buffer, insert)
      term == Wrapped(leaf, added, quoted, n)
      p == start + Len(term)
  IN IF Len(buffer) + Len(leaf) - n + 1 + (IF quoted THEN 2 ELSE 0) > limit
     THEN UNCHANGED <<buffer, insert, screen, history, limit, torn, entered, calls>>
     ELSE \E tail \in Tails(rest, p, quoted, n) :
            /\ buffer' = Before(buffer, start) \o term \o tail
            /\ insert' = p
            /\ screen' = Moved(IF quoted THEN Written(Moved(screen, -n), term \o tail)
                               ELSE Written(screen, After(term, n) \o tail), -Len(rest))
            /\ torn' = (torn \/ tail # rest)
            /\ UNCHANGED <<history, limit, entered, calls>>

Tab ==
  /\ Editing
  /\ LET start == findTermStart
     IN \E n \in 0 .. insert : Term(start, n) /\
          \E leaf \in Leaves :
            /\ n <= Len(leaf.name) /\ Before(leaf.name, n) = TypedPart(n)
            /\ insertString(leaf.name, leaf.added, n)
  /\ UNCHANGED at

-----------------------------------------------------------------------------
(* The end of a call, and the next one.                                    *)

\* editHistoryPush: not an empty line or the last one again; the oldest goes.
Pushed(line) ==
  IF line = << >> \/ (history # << >> /\ history[Len(history)] = line) THEN history
  ELSE IF Len(history) = HistoryDepth THEN Append(Tail(history), line)
  ELSE Append(history, line)

Entered(line) == IF line = << >> THEN entered ELSE Append(entered, line)

\* The screen looked at is from the next prompt on.
Leaving ==
  /\ limit' = -1 /\ buffer' = << >> /\ insert' = 0 /\ screen' = Blank /\ torn' = FALSE
  /\ UNCHANGED <<at, calls>>
\* Enter; there may be no memory for the entry.
Enter ==
  /\ Editing /\ Leaving
  /\ \/ history' = Pushed(buffer) /\ entered' = Entered(buffer)
     \/ UNCHANGED <<history, entered>>
\* Escape, or a job of the peer while the line is empty.
Escape == Editing /\ Leaving /\ UNCHANGED <<history, entered>>

\* handleHotkey: its text replaces the line, and a return in it ends the line
\* if there is room for one more; a text longer than the buffer does nothing.
handleHotkey ==
  /\ Editing
  /\ \E key \in Hotkeys :
       LET n == IF Len(key.text) > limit THEN limit ELSE Len(key.text)
           text == Before(key.text, n)
       IN /\ Len(key.text) + (IF key.return THEN 1 ELSE 0) <= limit + 1
          /\ IF key.return /\ n < limit
             THEN history' = Pushed(text) /\ entered' = Entered(text) /\ Leaving
             ELSE Becomes(text, n, Written(removeEditLine(screen), text)) /\ UNCHANGED at

\* editline: a new prompt; the caller may hand over a line to edit.
editline ==
  /\ ~Editing /\ calls < MaxEdits /\ calls' = calls + 1
  /\ limit' \in Limits /\ at' = Len(history)
  /\ \E given \in {<< >>} \cup {line \in Givens : Len(line) <= limit'} :
       /\ buffer' = given /\ insert' = Len(given)
       /\ screen' = Written(Blank, given)
  /\ UNCHANGED <<history, torn, entered>>

EditorInit ==
  /\ buffer = << >> /\ insert = 0 /\ screen = Blank
  /\ history = << >> /\ at = 0 /\ limit = -1 /\ torn = FALSE
  /\ entered = << >> /\ calls = 0

EditorNext ==
  \/ insertCharacter \/ deleteCharacter \/ Left \/ Right \/ Home \/ End \/ Up \/ Down
  \/ editHistoryUp \/ editHistoryDown \/ Tab \/ Enter \/ Escape \/ handleHotkey \/ editline

EditorSpec == EditorInit /\ [][EditorNext]_editorVars

-----------------------------------------------------------------------------
(* Properties.                                                             *)

\* What the user sees is the line: after every key the screen shows the line,
\* and nothing behind it, with the cursor at the insert position, and the line
\* fits in the caller's buffer (insertCharacter, insertString, deleteCharacter,
\* removeEditLine, editHistorySet and handleHotkey keep the screen up to date
\* each by its own writing).  Two exceptions, both of insertString behind a quote
\* that was typed: a name with a space tears the line, and a name without one
\* may fill the buffer and the byte after it.
ScreenShowsLine ==
  /\ insert \in 0 .. Len(buffer)
  /\ ~torn => screen.cursor = insert /\ screen.text = buffer \o Spaces(Width - Len(buffer))
  /\ limit # -1 => Len(buffer) <= limit \/ (Len(buffer) = limit + 1 /\ Has(buffer, Quote))

\* The history is the last different lines that were entered, in their order,
\* whatever the size of the buffers they were entered in (editHistoryPush).
Suffix(s, n) == After(s, Len(s) - n)
Different(lines) == {i \in DOMAIN lines : i = 1 \/ lines[i] # lines[i - 1]}
Kept(lines) ==
  LET all[i \in 0 .. Len(lines)] ==
        IF i = 0 THEN << >>
        ELSE all[i - 1] \o (IF i \in Different(lines) THEN <<lines[i]>> ELSE << >>)
  IN all[Len(lines)]
HistoryIsTheLastLines ==
  /\ Len(history) <= HistoryDepth /\ at \in 0 .. Len(history)
  /\ LET kept == Kept(entered)
     IN history = Suffix(kept, IF Len(kept) > HistoryDepth THEN HistoryDepth ELSE Len(kept))

\* Both: what the user sees, edits and can call back is what was typed (mos_editor.c).
LinesAreKept == ScreenShowsLine /\ HistoryIsTheLastLines
=============================================================================

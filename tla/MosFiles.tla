------------------------------ MODULE MosFiles ------------------------------
(***************************************************************************)
(* The file commands of MOS and the API calls behind them (mos.c,          *)
(* mos_file.c): how a path argument, with its prefix and wildcards, is     *)
(* resolved, and what CD, MKDIR, SAVE, DEL, COPY, REN and the file handles *)
(* then do to the card and to the current directory.                       *)
(*                                                                         *)
(* The card is the abstract store that FatVolume is shown to implement;    *)
(* its entries also keep their place in the directory (slot), because a    *)
(* wildcard is matched while the directory changes.  A command is one step:*)
(* nothing else uses the card meanwhile.                                   *)
(***************************************************************************)
EXTENDS Integers, Sequences, FiniteSets

CONSTANTS
  Sources,    \* path arguments, with or without a wildcard
  Targets,    \* path arguments without one
  SearchPath, \* prefix -> the directories of its variable <prefix>$Path
  Cards,      \* cards the machine may start with
  Alphabet,   \* bound: the names, in the order strcasecmp gives them
  SystemAddress, LastAddress, \* the memory of MOS, in units of data
  Room,       \* units of data that fit on the card
  MaxOpen,    \* MOS_maxOpenFiles
  MaxDepth,   \* bound: names in a path
  MaxObjects, \* bound: objects on the card
  MaxCalls    \* bound: commands and calls

VARIABLES
  store,      \* [path -> node]: the objects on the card
  cdir,       \* fs.cdir: the directory relative paths start from
  cwd,        \* the text MOS keeps of it
  files,      \* mosFileObjects
  last        \* the last command: its arguments and its result

fileVars == <<store, cdir, cwd, files, last>>

FS == INSTANCE FileStore WITH did <- last
SX == INSTANCE SequencesExt

-----------------------------------------------------------------------------
(* The card.  A text is a path as written, absolute or not; an empty name  *)
(* in it is a slash too many, or the slash at its end.  attr are the flags    *)
(* DIR needs to show an entry: "a" if it is hidden, "s" if it belongs to   *)
(* the system.                                                             *)

Root    == << >>
Nowhere == <<"nowhere">>
Leaf(p) == p[Len(p)]
Parent(p) == SubSeq(p, 1, Len(p) - 1)

IsDir(s, p) == p = Root \/ (p \in DOMAIN s /\ s[p].kind = "dir")
Children(s, d) == {p \in DOMAIN s : Len(p) = Len(d) + 1 /\ Parent(p) = d}

\* One name further along a path; ".." stays at the root.
Into(s, d, name) ==
  IF d = Nowhere \/ name = "" THEN d
  ELSE IF name = ".." THEN (IF d = Root THEN Root ELSE Parent(d))
  ELSE IF IsDir(s, Append(d, name)) THEN Append(d, name) ELSE Nowhere

follow_path(v, text) ==
  LET Reach[n \in 0 .. Len(text.segs)] ==
        IF n = 0 THEN (IF text.abs THEN Root ELSE v.cdir) ELSE Into(v.store, Reach[n - 1], text.segs[n])
  IN Reach[Len(text.segs)]

DirOf(text) == [text EXCEPT !.segs = Parent(@)]
Leafless(text) == text.segs = << >> \/ Leaf(text.segs) \in {"", ".."}
NoSlash(text) == IF text.segs # << >> /\ Leaf(text.segs) = "" THEN DirOf(text) ELSE text
\* FatFs takes the slash away; what is left may be no name.
Bare(text) == NoSlash(text).segs = << >> \/ Leaf(NoSlash(text).segs) = ".."

\* The object a text names, whether or not it exists.
Object(v, text) ==
  LET t == NoSlash(text)
      d == follow_path(v, DirOf(t))
  IN IF d = Nowhere THEN Nowhere ELSE Append(d, Leaf(t.segs))

Result(v, res) == [v |-> v, res |-> res]

f_chdir(v, text) ==
  LET d == follow_path(v, text) IN IF d = Nowhere THEN v ELSE [v EXCEPT !.cdir = d]

\* A new entry takes the first free slot.
FreeSlot(s, d) == CHOOSE n \in 1 .. Cardinality(DOMAIN s) + 1 :
  /\ \A p \in Children(s, d) : s[p].slot # n
  /\ \A m \in 1 .. n - 1 : \E p \in Children(s, d) : s[p].slot = m
Created(s, p, kind, data) ==
  FS!With(s, p, [kind |-> kind, data |-> data, attr |-> {}, slot |-> FreeSlot(s, Parent(p))])

Create(v, text, wild, kind, data) ==
  LET p == Object(v, text)
  IN IF Bare(text) \/ wild THEN Result(v, "INVALID_NAME")
     ELSE IF p = Nowhere THEN Result(v, "NO_PATH")
     ELSE IF p \in DOMAIN v.store THEN Result(v, "EXIST")
     ELSE Result([v EXCEPT !.store = Created(v.store, p, kind, data)], "OK")

f_unlink(v, text) ==
  LET p == Object(v, text)
  IN IF Bare(text) THEN Result(v, "INVALID_NAME")
     ELSE IF p \notin DOMAIN v.store THEN Result(v, "NO_FILE")
     ELSE IF Children(v.store, p) # {} \/ p = v.cdir THEN Result(v, "DENIED")
     ELSE Result([v EXCEPT !.store = FS!Without(@, p)], "OK")

\* FatFs does not look whether q lies below p: then nothing reaches the
\* directory any more.
MovedTo(v, p, q) ==
  IF FS!IsUnder(q, p)
  THEN [v EXCEPT !.store = [x \in {y \in DOMAIN @ : y # p /\ ~FS!IsUnder(y, p)} |-> @[x]],
                 !.looped = TRUE]
  ELSE [v EXCEPT !.store = [FS!Moved(@, p, q) EXCEPT ![q].slot = FreeSlot(v.store, Parent(q))],
                 !.cdir = IF @ = p \/ FS!IsUnder(@, p) THEN q \o SubSeq(@, Len(p) + 1, Len(@)) ELSE @]

f_rename(v, from, to) ==
  LET p == Object(v, from)
      q == Object(v, to)
  IN IF Bare(from) \/ Bare(to) THEN Result(v, "INVALID_NAME")
     ELSE IF p \notin DOMAIN v.store THEN Result(v, "NO_FILE")
     ELSE IF q = Nowhere THEN Result(v, "NO_PATH")
     ELSE IF q # p /\ q \in DOMAIN v.store THEN Result(v, "EXIST")
     ELSE Result(MovedTo(v, p, q), "OK")

Used(s) == LET Sum[S \in SUBSET DOMAIN s] ==
                 IF S = {} THEN 0 ELSE LET p == CHOOSE p \in S : TRUE IN Len(s[p].data) + Sum[S \ {p}]
           IN Sum[DOMAIN s]
\* As much of the data as the card still takes: a full card is no error.
Fitting(s, data) == FS!Cut(data, Room - Used(s))

-----------------------------------------------------------------------------
(* Resolving a path argument: a prefix, a directory and a leaf, which is   *)
(* empty, a name or a pattern, and stands for the names it matches.        *)

NoLeaf == [text |-> "", wild |-> FALSE, of |-> {}]

\* The directories of an argument, in the order they are searched.
getDirectoryForPath(arg) ==
  IF arg.prefix = "" THEN <<arg.dir>>
  ELSE [i \in DOMAIN SearchPath[arg.prefix] |->
          [SearchPath[arg.prefix][i] EXCEPT !.segs = @ \o arg.dir.segs]]

Plus(text, name) == [text EXCEPT !.segs = Append(@, name)]
\* A text that ends in its directory ends in a slash.
Slashed(text) == IF Leafless(text) THEN text ELSE Plus(text, "")

\* The first match of an argument in directory d after a slot.
Found(v, d, slot, leaf) ==
  {p \in Children(v.store, d) : v.store[p].slot > slot /\ Leaf(p) \in leaf.of}
FirstFound(v, found) == CHOOSE p \in found : \A q \in found : v.store[p].slot <= v.store[q].slot

Unresolved(res) == [res |-> res, text |-> [abs |-> FALSE, segs |-> << >>], i |-> 0, d |-> Nowhere, slot |-> 0]
Hit(v, arg, i, d, p) ==
  [res |-> "OK", text |-> Plus(getDirectoryForPath(arg)[i], Leaf(p)), i |-> i, d |-> d, slot |-> v.store[p].slot]

\* A match in the first directory, from number i on, that has one; if none
\* has, the place the object would have in the first directory that exists.
NewSearch(v, arg, from) ==
  LET dirs   == getDirectoryForPath(arg)
      exist  == {i \in from .. Len(dirs) : follow_path(v, dirs[i]) # Nowhere}
      hits   == {i \in exist : arg.leaf = NoLeaf \/ Found(v, follow_path(v, dirs[i]), 0, arg.leaf) # {}}
      Least(S) == CHOOSE i \in S : \A j \in S : i <= j
  IN IF exist = {} THEN Unresolved("NO_PATH")
     ELSE IF hits = {} THEN [Unresolved("NO_FILE") EXCEPT !.text = Plus(dirs[Least(exist)], arg.leaf.text)]
     ELSE LET d == follow_path(v, dirs[Least(hits)])
          IN IF arg.leaf = NoLeaf
             THEN [Unresolved("OK") EXCEPT !.text = Slashed(dirs[Least(hits)]), !.i = Least(hits), !.d = d,
                                           !.slot = Cardinality(DOMAIN v.store)]
             ELSE Hit(v, arg, Least(hits), d, FirstFound(v, Found(v, d, 0, arg.leaf)))

resolvePath(v, arg) == NewSearch(v, arg, 1)

\* The match after r.  blind: the pattern the directory object still points
\* to, in memory that was freed, has been overwritten, and nothing matches it.
NextMatch(v, arg, r, blind) ==
  LET found == IF blind THEN {} ELSE Found(v, r.d, r.slot, arg.leaf)
  IN IF found # {} THEN Hit(v, arg, r.i, r.d, FirstFound(v, found)) ELSE NewSearch(v, arg, r.i + 1)

\* path[0] == 0, ".", "..", "/" are directories without a look at the card.
isDirectory(v, text) ==
  LET t == NoSlash(text)
  IN IF t.segs = << >> \/ (~t.abs /\ t.segs = <<"..">>) THEN TRUE
     ELSE IF Leaf(t.segs) = ".." THEN follow_path(v, DirOf(t)) \notin {Root, Nowhere}
     ELSE IsDir(v.store, Object(v, t))

\* There and back to where cwd says it was.
ThereAndBack(v, dir) == f_chdir(f_chdir(v, dir), [abs |-> TRUE, segs |-> v.cwd])

\* A text made absolute, and the volume it leaves behind: it goes to the
\* directory and comes back, but not when the buffer has no room for the leaf
\* behind the directory's text.  The buffer is long enough for the names as they
\* are written, and f_getcwd spells out what is written by a short (8.3) name.
\* short: "no", or what does not fit, the "path" or the "leaf".  A lone name is
\* put behind cwd; a name in the root gets two slashes, shown as an empty name.
resolveRelativePath(v, text, short) ==
  LET lone == ~text.abs /\ Len(text.segs) <= 1 /\ text.segs # <<"..">>
      leaf == IF Leafless(text) THEN << >> ELSE <<Leaf(text.segs)>>
      dir  == IF Leafless(text) THEN text ELSE DirOf(text)
      d    == follow_path(v, dir)
      home == ThereAndBack(v, dir)
      Fails(res, w) == [res |-> res, segs |-> << >>, v |-> w]
  IN IF lone THEN [res |-> "OK", segs |-> v.cwd \o text.segs, v |-> v]
     ELSE IF d = Nowhere THEN Fails("NO_PATH", home)
     ELSE IF short = "path" /\ d # Root THEN Fails("NOT_ENOUGH_CORE", home)
     ELSE IF short = "leaf" /\ d # Root /\ leaf # << >> THEN Fails("OUT_OF_MEMORY", f_chdir(v, dir))
     ELSE [res |-> "OK", v |-> home,
           segs |-> IF d = Root /\ leaf # << >> THEN <<"">> \o leaf ELSE d \o leaf]

-----------------------------------------------------------------------------
(* The commands.                                                           *)

mos_CD(v, arg) ==
  LET r == resolvePath(v, arg)
      w == f_chdir(v, r.text)
  IN IF r.res \notin {"OK", "NO_FILE"} THEN Result(v, r.res)
     ELSE Result([w EXCEPT !.cwd = w.cdir],
                 IF follow_path(v, r.text) = Nowhere THEN "NO_PATH" ELSE "OK")

mos_MKDIR(v, arg) ==
  LET r == resolvePath(v, arg)
  IN IF r.res = "NO_FILE" THEN Create(v, r.text, arg.leaf.wild, "dir", << >>) ELSE Result(v, r.res)

mos_SAVE(v, arg, data) ==
  LET r == resolvePath(v, arg)
  IN IF arg.leaf.wild THEN Result(v, "INVALID_PARAMETER")
     ELSE IF r.res \notin {"OK", "NO_FILE"} THEN Result(v, r.res)
     ELSE Create(v, r.text, FALSE, "file", Fitting(v.store, data))

mos_DEL(v, arg) ==
  LET r == resolvePath(v, arg)
  IN IF arg.leaf.wild THEN Result(v, "INVALID_PARAMETER")
     ELSE IF r.res # "OK" THEN Result(v, r.res) ELSE f_unlink(v, r.text)

Verbose(arg) == arg.leaf.wild \/ arg.prefix # ""

\* DEL deletes match after match; the user is asked about each, unless told not to.
RECURSIVE Deleting(_, _, _, _, _)
Deleting(v, arg, r, res, answer) ==
  IF r.res # "OK" THEN Result(v, res)
  ELSE LET name == IF r.text.segs = << >> THEN "" ELSE Leaf(r.text.segs)
           says == IF ~Verbose(arg) \/ name \notin DOMAIN answer THEN "Yes" ELSE answer[name]
           w    == IF says = "Yes" THEN f_unlink(v, r.text) ELSE Result(v, res)
       IN IF says = "Cancel" THEN Result(v, res)
          ELSE IF w.res # "OK" THEN w
          ELSE Deleting(w.v, arg, NextMatch(w.v, arg, r, FALSE), w.res, answer)

mos_cmdDEL(v, arg, answer) ==
  LET r == resolvePath(v, arg) IN Deleting(v, arg, r, r.res, answer)

\* What is put between a directory and the name that goes into it: a slash,
\* nothing behind a target written with one at its end, or, for a target that is
\* no directory, not even the name.
EndsInSlash(arg) ==
  arg.leaf = NoLeaf /\ IF arg.dir.segs = << >> THEN arg.dir.abs ELSE Leaf(arg.dir.segs) # ".."
addSlash(v, arg, text) ==
  IF ~isDirectory(v, text) THEN "no" ELSE IF EndsInSlash(arg) THEN "nothing" ELSE "slash"

RunTogether(name, more) == name \o more
\* Where a command with a target puts the match r.  Behind a text that lost its
\* slash the name runs together with the last one of the text.
Destination(join, target, r) ==
  LET name == Leaf(r.text.segs)
      open == IF target.segs = << >> THEN target.abs ELSE Leaf(target.segs) = ""
  IN IF join = "no" \/ Leafless(r.text) THEN target
     ELSE IF join = "slash" \/ open THEN Plus(NoSlash(target), name)
     ELSE [target EXCEPT !.segs[Len(target.segs)] = RunTogether(@, name)]

copyFile(v, from, to, wild) ==
  LET p == Object(v, from)
  IN IF Bare(from) THEN Result(v, "INVALID_NAME")
     ELSE IF p \notin DOMAIN v.store THEN Result(v, "NO_FILE")
     ELSE Create(v, to, wild, "file", Fitting(v.store, v.store[p].data))

\* starved: the names for whose copy no memory is found.
RECURSIVE Copying(_, _, _, _, _, _, _)
Copying(v, src, r, target, join, res, starved) ==
  LET to   == Destination(join, target, r)
      skip == isDirectory(v, r.text)
      c    == IF skip THEN Result(v, res) ELSE copyFile(v, r.text, to, FALSE)
  IN IF r.res # "OK" THEN Result(v, res)
     ELSE IF ~skip /\ Leaf(r.text.segs) \in starved THEN Result(v, res)
     ELSE IF c.res # "OK" \/ ~(Verbose(src) /\ join # "no") THEN c
     ELSE Copying(c.v, src, NextMatch(c.v, src, r, FALSE), target, join, c.res, starved)

mos_COPY(v, src, dst, starved) ==
  LET t == resolvePath(v, dst)
      r == resolvePath(v, src)
      join == addSlash(v, dst, t.text)
  IN IF dst.leaf.wild THEN Result(v, "INVALID_PARAMETER")
     ELSE IF t.res \notin {"OK", "NO_FILE"} THEN Result(v, t.res)
     ELSE IF join = "no" /\ t.res = "OK" THEN Result(v, "EXIST")
     ELSE IF r.res # "OK" THEN Result(v, r.res)
     ELSE Copying(v, src, r, t.text, join, "OK", starved)

\* A seeded fault: the target may lie deeper than the source.
InsideOnly(dest, source, toDir) == dest = source /\ toDir
\* The texts are compared, not the directories they name.
Inside(dest, source, toDir) ==
  /\ Len(dest) >= Len(source) /\ SubSeq(dest, 1, Len(source)) = source
  /\ Len(dest) > Len(source) \/ toDir
Absolute(segs) == [abs |-> TRUE, segs |-> segs]

\* absolute: the target has been made absolute, and has no slash at its end any
\* more, for this match and all that follow.  how.reused: the buffer of the target
\* takes the memory of the pattern; how.short: the argument made absolute that
\* does not fit, and what of it.
RECURSIVE Renaming(_, _, _, _, _, _, _, _)
Renaming(v, src, r, target, join, res, absolute, how) ==
  LET many == Verbose(src) /\ join # "no"
      dir  == isDirectory(v, r.text)
      Short(arg) == IF how.short[1] = arg THEN how.short[2] ELSE "no"
      t    == IF dir /\ ~absolute THEN resolveRelativePath(v, target, Short("dst"))
              ELSE [res |-> "OK", segs |-> target.segs, v |-> v]
      s    == IF dir THEN resolveRelativePath(t.v, r.text, Short("src")) ELSE [res |-> "FILE", segs |-> << >>, v |-> v]
      goal == IF dir THEN Absolute(t.segs) ELSE target
      w    == f_rename(s.v, r.text, Destination(join, goal, r))
      Next(x, result) ==
        Renaming(x, src, NextMatch(x, src, r, how.reused), goal, join, result, absolute \/ dir, how)
  IN IF r.res # "OK" THEN Result(v, res)
     ELSE IF t.res # "OK" THEN Result(t.v, t.res)
     ELSE IF s.res = "OK" /\ Inside(t.segs, s.segs, join # "no")
          THEN IF many THEN Next(s.v, res) ELSE Result(s.v, "INVALID_PARAMETER")
     ELSE IF w.res # "OK" \/ ~many THEN w
     ELSE Next(w.v, w.res)

mos_REN(v, src, dst, how) ==
  LET t == resolvePath(v, dst)
      r == resolvePath(v, src)
      join == addSlash(v, dst, t.text)
  IN IF dst.leaf.wild THEN Result(v, "INVALID_PARAMETER")
     ELSE IF r.res # "OK" THEN Result(v, r.res)
     ELSE IF t.res \notin {"OK", "NO_FILE"} THEN Result(v, t.res)
     ELSE IF join = "no" /\ t.res = "OK" THEN Result(v, "EXIST")
     ELSE Renaming(v, src, r, t.text, join, "OK", FALSE, how)

\* What reads a file reads the first match.  A directory is no file.
FileNamed(v, arg) ==
  LET r == resolvePath(v, arg)
      p == Object(v, r.text)
  IN IF r.res # "OK" THEN [res |-> r.res, data |-> << >>]
     ELSE IF Bare(r.text) THEN [res |-> "INVALID_NAME", data |-> << >>]
     ELSE IF v.store[p].kind = "dir" THEN [res |-> "NO_FILE", data |-> << >>]
     ELSE [res |-> "OK", data |-> v.store[p].data]

mos_TYPE(v, arg) == FileNamed(v, arg)

\* size = 0: all of the file.  What is to be loaded may not lie in the memory of MOS.
mos_LOAD(v, arg, address, size) ==
  LET f == FileNamed(v, arg)
      n == IF size = 0 \/ Len(f.data) < size THEN Len(f.data) ELSE size
  IN IF f.res # "OK" THEN f
     ELSE IF address <= LastAddress /\ address + n > SystemAddress
          THEN [res |-> "OVERLAPPING_SYSTEM", data |-> << >>]
     ELSE [res |-> "OK", data |-> FS!Cut(f.data, n)]

-----------------------------------------------------------------------------
(* The listing of directories.  A list is its directory and the entries it *)
(* shows, in their order.                                                  *)

Position(name) == CHOOSE n \in DOMAIN Alphabet : Alphabet[n] = name
\* A directory before a file, then by name.
cmp_filinfo(s, p, q) ==
  \/ s[p].kind = "dir" /\ s[q].kind = "file"
  \/ s[p].kind = s[q].kind /\ Position(Leaf(p)) < Position(Leaf(q))
Sorted(s, entries) == LET Before(p, q) == cmp_filinfo(s, p, q) IN SX!SetToSortSeq(entries, Before)

Listed(s, entries, flags) == {p \in entries : s[p].attr \subseteq flags}
\* As it is found, where no memory is left to sort it.
mos_DIRFallback(s, entries) == LET Before(p, q) == s[p].slot < s[q].slot IN SX!SetToSortSeq(entries, Before)

\* scarce: the memory for the table of the entries, or for one of their
\* names, is not found.  The heading says where a lone directory is, and
\* reads the text of it from the volume for that.
displayDirectory(v, text, leaf, flags, scarce) ==
  LET d == follow_path(v, text)
      entries == IF leaf = NoLeaf THEN Children(v.store, d) ELSE Found(v, d, 0, leaf)
      listed  == Listed(v.store, entries, flags)
      heading == "v" \notin flags /\ ~text.abs /\ text.segs = << >>
  IN [v |-> IF heading THEN [v EXCEPT !.cwd = v.cdir] ELSE v,
      list |-> [dir |-> d,
                shown |-> IF scarce THEN mos_DIRFallback(v.store, listed) ELSE Sorted(v.store, listed)]]

\* Every directory the argument searches is shown: what is in the directory
\* the leaf names there, or what the leaf matches.
mos_DIR(v, arg, flags, scarce) ==
  LET dirs == getDirectoryForPath(arg)
      Whole(i) == Plus(dirs[i], arg.leaf.text)
      Shows(w, i) ==
        IF arg.leaf # NoLeaf /\ isDirectory(w, Whole(i))
        THEN displayDirectory(w, Whole(i), NoLeaf, flags, scarce)
        ELSE displayDirectory(w, dirs[i], arg.leaf, flags, scarce)
      Upto[i \in 0 .. Len(dirs)] ==
        IF i = 0 THEN [v |-> v, res |-> "NO_PATH", lists |-> << >>]
        ELSE IF ~isDirectory(v, dirs[i]) THEN Upto[i - 1]
        ELSE [v |-> Shows(Upto[i - 1].v, i).v, res |-> "OK",
              lists |-> Append(Upto[i - 1].lists, Shows(Upto[i - 1].v, i).list)]
  IN Upto[Len(dirs)]

-----------------------------------------------------------------------------
(* The file handles of the API.                                            *)

Closed == [path |-> Nowhere, at |-> 0]
Handles == 1 .. MaxOpen
Open(h) == files[h] # Closed

\* Every free handle is tried while the open fails.
mos_FOPEN(v, arg, create) ==
  LET r == resolvePath(v, arg)
      p == Object(v, r.text)
      free == {h \in Handles : ~Open(h)}
      h == CHOOSE x \in free : \A y \in free : x <= y
      c == Create(v, r.text, arg.leaf.wild, "file", << >>)
      None == [v |-> v, h |-> 0, p |-> Nowhere]
  IN IF r.res \notin {"OK", "NO_FILE"} \/ free = {} THEN None
     ELSE IF r.res = "OK" THEN (IF isDirectory(v, r.text) THEN None ELSE [v |-> v, h |-> h, p |-> p])
     ELSE IF create /\ c.res = "OK" THEN [v |-> c.v, h |-> h, p |-> p] ELSE None

-----------------------------------------------------------------------------
Now == [store |-> store, cdir |-> cdir, cwd |-> cwd, looped |-> FALSE]

\* Programs leave alone what they hold open: with FF_FS_LOCK 0 nobody stops them.
Spared(s) == \A h \in Handles : Open(h) => files[h].path \in DOMAIN s /\ s[files[h].path].slot = store[files[h].path].slot
Small(s) ==
  /\ Cardinality(DOMAIN s) <= MaxObjects
  /\ \A p \in DOMAIN s : Len(p) <= MaxDepth /\ SX!ToSet(p) \subseteq SX!ToSet(Alphabet)

Asked(op, src, dst, how) ==
  [op |-> op, src |-> src, dst |-> dst, how |-> how, res |-> "", out |-> << >>, looped |-> FALSE, n |-> 0]
Same(op, src) == Asked(op, src, src, {})

\* A card with a loop of directories is not followed further.
Does(d, w) ==
  /\ ~last.looped /\ last.n < MaxCalls
  /\ Spared(w.v.store) /\ Small(w.v.store)
  /\ store' = w.v.store /\ cdir' = w.v.cdir /\ cwd' = w.v.cwd
  /\ last' = [d EXCEPT !.res = w.res, !.looped = w.v.looped, !.n = last.n + 1]
  /\ UNCHANGED files

CdCommand == \E a \in Targets : Does(Same("CD", a), mos_CD(Now, a))
MkdirCommand == \E a \in Targets : Does(Same("MKDIR", a), mos_MKDIR(Now, a))
SaveCommand == \E a \in Targets : Does(Same("SAVE", a), mos_SAVE(Now, a, <<"x">>))
DelCall == \E a \in Sources : Does(Asked("DEL", a, a, [n \in {} |-> ""]), mos_DEL(Now, a))
\* One of the names an argument may match, or none.
AtMostOne(arg) == {{}} \cup {{n} : n \in arg.leaf.of \cap {Leaf(p) : p \in DOMAIN store}}
DelCommand == \E a \in Sources : \E asked \in AtMostOne(a), says \in {"No", "Cancel"} :
  LET answer == [n \in asked |-> says] IN Does(Asked("DEL", a, a, answer), mos_cmdDEL(Now, a, answer))
CopyCommand == \E a \in Sources, b \in Targets : \E starved \in AtMostOne(a) :
  Does(Asked("COPY", a, b, starved), mos_COPY(Now, a, b, starved))
\* What of an argument may have no room when it is made absolute.
Parts(arg) == IF arg.prefix = "" /\ arg.dir.segs = << >> THEN {}
              ELSE IF arg.leaf = NoLeaf THEN {"path"} ELSE {"path", "leaf"}
Undisturbed == [reused |-> FALSE, short |-> <<"none", "no">>]
\* Bound: one mishap in a REN.
Mishaps(src, dst) ==
  (IF Verbose(src) THEN {[Undisturbed EXCEPT !.reused = TRUE]} ELSE {})
    \cup {[Undisturbed EXCEPT !.short = s] : s \in {"src"} \X Parts(src) \cup {"dst"} \X Parts(dst)}
RenCommand == \E a \in Sources, b \in Targets : \E how \in {Undisturbed} \cup Mishaps(a, b) :
  Does(Asked("REN", a, b, how), mos_REN(Now, a, b, how))

DirCommand == \E a \in Sources, flags \in SUBSET {"a", "v"}, scarce \in BOOLEAN :
  LET w == mos_DIR(Now, a, flags, scarce)
      d == Asked("DIR", a, [flags |-> flags, scarce |-> scarce], {})
  IN Does([d EXCEPT !.out = w.lists], w)
TypeCommand == \E a \in Sources :
  LET f == mos_TYPE(Now, a) IN Does([Same("TYPE", a) EXCEPT !.out = f.data], Result(Now, f.res))
LoadCommand == \E a \in Sources, address \in 0 .. LastAddress + 1, size \in 0 .. 2 :
  LET f == mos_LOAD(Now, a, address, size)
      d == Asked("LOAD", a, [address |-> address, size |-> size], {})
  IN Does([d EXCEPT !.out = f.data], Result(Now, f.res))

\* The API calls on handles; a program does not open a file twice.
Calls(op, h, s, f) ==
  /\ ~last.looped /\ last.n < MaxCalls /\ Small(s)
  /\ store' = s /\ files' = f
  /\ last' = [Same(op, h) EXCEPT !.res = "OK", !.n = last.n + 1]
  /\ UNCHANGED <<cdir, cwd>>

FopenCall == \E a \in Sources, create \in BOOLEAN : \E o \in {mos_FOPEN(Now, a, create)} :
  (\A h \in Handles : o.p # files[h].path \/ o.h = 0) /\ Calls("FOPEN", o.h, o.v.store, IF o.h = 0 THEN files ELSE [files EXCEPT ![o.h] = [path |-> o.p, at |-> 0]])
\* A number that is no handle closes them all.
FcloseCall == \E h \in 0 .. MaxOpen + 1 :
  Calls("FCLOSE", h, store, [x \in Handles |-> IF h \notin Handles \ {x} THEN Closed ELSE files[x]])
FreadCall == \E h \in Handles :
  /\ Open(h)
  /\ files[h].at < Len(store[files[h].path].data)
  /\ Calls("FREAD", h, store, [files EXCEPT ![h].at = @ + 1])
FwriteCall == \E h \in Handles :
  /\ Open(h)
  /\ LET f == files[h]
         full == f.at = Len(store[f.path].data) /\ Used(store) = Room
     IN Calls("FWRITE", h,
              IF full THEN store ELSE [store EXCEPT ![f.path].data = FS!Written(@, f.at, 1, "x")],
              IF full THEN files ELSE [files EXCEPT ![h].at = @ + 1])
FlseekCall == \E h \in Handles : Open(h) /\ Calls("FLSEEK", h, store, [files EXCEPT ![h].at = 0])

FilesInit ==
  /\ store \in Cards /\ cdir = Root /\ cwd = Root
  /\ files = [h \in Handles |-> Closed]
  /\ last = [Same("BOOT", NoLeaf) EXCEPT !.res = "OK"]

FilesNext ==
  \/ CdCommand \/ MkdirCommand \/ SaveCommand \/ DelCall \/ DelCommand \/ CopyCommand \/ RenCommand
  \/ DirCommand \/ TypeCommand \/ LoadCommand
  \/ FopenCall \/ FcloseCall \/ FreadCall \/ FwriteCall \/ FlseekCall

FilesSpec == FilesInit /\ [][FilesNext]_fileVars

-----------------------------------------------------------------------------
(* Properties.                                                             *)

\* What an argument names: every match, in every directory it searches.
AllMatches(v, arg) ==
  LET dirs == {follow_path(v, getDirectoryForPath(arg)[i]) : i \in DOMAIN getDirectoryForPath(arg)} \ {Nowhere}
  IN IF arg.leaf = NoLeaf THEN dirs ELSE UNION {Found(v, d, 0, arg.leaf) : d \in dirs}
\* Without a wildcard or a prefix there is one.
TheOne(ms) == CHOOSE p \in ms : TRUE
Below(p, ms) == \E m \in ms : p = m \/ FS!IsUnder(p, m)

Content(s) == [p \in DOMAIN s |-> [kind |-> s[p].kind, data |-> s[p].data]]
TargetDir == follow_path(Now, NoSlash(resolvePath(Now, last'.dst).text))
TargetPath == Object(Now, resolvePath(Now, last'.dst).text)
PutAt(p) == IF TargetDir # Nowhere /\ last'.src.leaf # NoLeaf THEN Append(TargetDir, Leaf(p))
            ELSE IF TargetDir # Nowhere THEN TargetDir ELSE TargetPath
RoomFor(ms) == Used(store) + Used([m \in ms |-> store[m]]) <= Room

\* A deletion that succeeds has deleted every match the user agreed to.
DelIsWhole ==
  LET d  == last'
      ms == AllMatches(Now, d.src)
      Says(p) == IF ~Verbose(d.src) \/ Leaf(p) \notin DOMAIN d.how THEN "Yes" ELSE d.how[Leaf(p)]
  IN d.op = "DEL" /\ d.res = "OK" /\ (\A p \in ms : Says(p) # "Cancel") =>
       Content(store') = [p \in DOMAIN store \ {m \in ms : Says(m) = "Yes"} |-> Content(store)[p]]

\* A copy that succeeds, with memory and room for it, has made a true copy of
\* every file that matches, and nothing more.
CopyIsWhole ==
  LET d  == last'
      ms == {m \in AllMatches(Now, d.src) : store[m].kind = "file"}
      copies == {PutAt(m) : m \in ms}
  IN d.op = "COPY" /\ d.res = "OK" /\ d.how = {} /\ RoomFor(ms) /\ (TargetDir # Nowhere \/ Cardinality(AllMatches(Now, d.src)) = 1) =>
       Content(store') = [p \in DOMAIN store \cup copies |->
                            IF p \in copies THEN Content(store)[CHOOSE m \in ms : PutAt(m) = p]
                            ELSE Content(store)[p]]

\* REN makes the directory of an argument current and does not come back.
Strays(args) == last'.op = "REN" /\ last'.how.short \in args \X {"leaf"}
\* Names mean something else to REN than to its caller: it strays before it moves
\* its source, or comes back to where a text that is out of date says it was.
Astray == Strays({"src"}) \/ (last'.op = "REN" /\ cwd # cdir)
\* A directory that is moved to a directory written with a slash at its end does
\* not go there: it goes beside it, under the two names run together.
GoesBeside(p) ==
  /\ last'.src.leaf # NoLeaf /\ TargetDir \notin {Root, Nowhere}
  /\ store[p].kind = "dir" /\ EndsInSlash(last'.dst)
Beside(p) == Append(Parent(TargetDir), RunTogether(Leaf(TargetDir), Leaf(p)))
\* A move of one object that succeeds moves it, with all below it.
RenMovesIt ==
  LET d  == last'
      it == TheOne(AllMatches(Now, d.src))
  IN d.op = "REN" /\ d.res = "OK" /\ ~d.looped /\ ~Verbose(d.src) /\ ~Astray =>
       Content(store') = Content(FS!Moved(store, it, IF GoesBeside(it) THEN Beside(it) ELSE PutAt(it)))

\* No command makes or loses an object its arguments do not name, or loses a
\* file in a move, whatever it returns.  Astray it may move another object.
NothingElseChanges ==
  LET d  == last'
      ms == IF d.op \in {"DEL", "REN"} THEN AllMatches(Now, d.src) ELSE {}
  IN d.op \in {"CD", "MKDIR", "SAVE", "DEL", "COPY", "REN", "DIR", "LOAD", "TYPE"} =>
       /\ ~Astray => \A p \in DOMAIN store : ~Below(p, ms) => p \in DOMAIN store' /\ Content(store')[p] = Content(store)[p]
       /\ d.op = "REN" /\ ~d.looped => Cardinality(DOMAIN store') = Cardinality(DOMAIN store)

\* A directory is put below itself only where the comparison of the texts is
\* blind: one in the root named with a slash, a cwd that is out of date, or a
\* source whose absolute text did not fit, which is not compared at all.
LoopsAreKnown ==
  last'.looped => cwd # cdir \/ last'.src.dir.abs \/ last'.src.dir.segs # << >> \/ last'.how.short[1] = "src"

\* DIR shows each entry its argument names, and its flags let it show, once:
\* what a lone directory holds, or else every match.
DirShowsAll ==
  LET d == last'
      lone(i) == Append(follow_path(Now, getDirectoryForPath(d.src)[i]), d.src.leaf.text)
      Named(i) == IF d.src.leaf # NoLeaf /\ IsDir(store, lone(i)) THEN Children(store, lone(i))
                  ELSE AllMatches(Now, [d.src EXCEPT !.prefix = "", !.dir = getDirectoryForPath(d.src)[i]])
      Wanted(i) == {p \in (IF d.src.leaf = NoLeaf THEN UNION {Children(store, x) : x \in Named(i)} ELSE Named(i)) :
                      store[p].attr \subseteq d.dst.flags}
      Searched == {i \in DOMAIN getDirectoryForPath(d.src) : follow_path(Now, getDirectoryForPath(d.src)[i]) # Nowhere}
      Shown(k) == {d.out[k].shown[j] : j \in DOMAIN d.out[k].shown}
  IN d.op = "DIR" =>
       /\ d.res = "OK" <=> Searched # {}
       /\ Len(d.out) = Cardinality(Searched)
       /\ \A i \in Searched : LET k == Cardinality({j \in Searched : j <= i})
            IN Shown(k) = Wanted(i) /\ Len(d.out[k].shown) = Cardinality(Wanted(i))
       /\ ~d.dst.scarce =>
            \A k \in DOMAIN d.out : \A i, j \in DOMAIN d.out[k].shown :
              i < j /\ store[d.out[k].shown[j]].kind = "dir" => store[d.out[k].shown[i]].kind = "dir"

\* LOAD puts nothing into the memory of MOS, and a success brings the file up
\* to the size asked for.
LoadIsWhole ==
  LET d == last'
      ms == {m \in AllMatches(Now, d.src) : store[m].kind = "file"}
  IN d.op = "LOAD" =>
       /\ {d.dst.address + i - 1 : i \in DOMAIN d.out} \cap SystemAddress .. LastAddress = {}
       /\ d.res = "OK" => \E m \in ms :
            d.out = FS!Cut(store[m].data, IF d.dst.size = 0 THEN Len(store[m].data) ELSE d.dst.size)

\* A call that returns no handle has opened nothing and left no file behind.
HandleOrNothing ==
  last'.op = "FOPEN" =>
    /\ last'.src = 0 => store' = store /\ files' = files
    /\ last'.src # 0 => ~Open(last'.src) /\ files'[last'.src].path \in DOMAIN store'

\* A file command that reports success has done all of what it was asked to
\* the objects its arguments name, and whatever it reports, nothing to others
\* (mos_DEL, mos_COPY, mos_REN, mos_FOPEN, mos_DIR, mos_LOAD).
CommandsDoAsAsked ==
  [][DelIsWhole /\ CopyIsWhole /\ RenMovesIt /\ NothingElseChanges /\ LoopsAreKnown /\ HandleOrNothing
     /\ DirShowsAll /\ LoadIsWhole]_fileVars

\* A command other than CD leaves the current directory where it is, though
\* REN goes elsewhere and back to compare its arguments, as long as the text
\* of it is up to date, the command moves no directory above it and the text of
\* no argument made absolute runs out of room behind its directory.
StaysInPlace ==
  [][cwd = cdir /\ last'.op \notin {"CD", "BOOT"} /\ ~Strays({"src", "dst"})
     /\ ~(last'.op = "REN" /\ Below(cdir, AllMatches(Now, last'.src)))
       => cdir' = cdir /\ cwd' = cwd]_fileVars

\* Both: a file command does what it reports, where it was asked to (mos.c).
CommandsActInPlace == CommandsDoAsAsked /\ StaysInPlace

\* REN refuses to move a directory into itself or below ("Prevent moving a
\* directory into itself or one of its descendants", mos.c:2549): it does not
\* when the directory is in the root and named by an absolute path.
NoDirectoryBelowItself == ~last.looped
=============================================================================

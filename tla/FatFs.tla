------------------------------- MODULE FatFs -------------------------------
(***************************************************************************)
(* FatFs (src_fatfs/ff.c) as this firmware configures it: one FAT32        *)
(* volume, long names, one sector window shared by the FAT, the            *)
(* directories and the file data (FF_FS_TINY), no locking (FF_FS_LOCK 0).  *)
(*                                                                         *)
(* Every function of ff.c is an operator from a volume record v to the     *)
(* record it leaves: the card, the window, the mounted filesystem object,  *)
(* the open files, the directory object in use (dp), and the value and     *)
(* FRESULT returned.  A sector is written to the card by disk_write alone, *)
(* which also logs it, so that a loss of power can be placed between any   *)
(* two writes of an operation, and v.fuse lets any one transfer fail.      *)
(*                                                                         *)
(* Scaled down: a cluster is one sector, a sector holds Slots directory    *)
(* entries or Slots units of data, and the FAT fits in one sector.         *)
(***************************************************************************)
EXTENDS Integers, Sequences, FiniteSets, TLC

CONSTANTS
  NClust,      \* clusters of the volume, numbered from 2 (the root directory)
  Slots,       \* directory entries, or units of data, in a sector
  Chk(_, _),   \* sum_sfn: the checksum of a short name
  Handles      \* FIL objects

Clusters == 2 .. NClust + 1
EOC      == NClust + 2      \* end of a chain: any value not below n_fatent
Unknown  == NClust + 1      \* a free count that is not known (0xFFFFFFFF)
Root     == 2
NoSect   == 0               \* no sector (a cleared fp->sect or dp->sect)
NoWin    == -1              \* winsect of an invalid window
FatSect  == NClust + 10     \* the sectors outside the clusters
Fat2Sect == NClust + 11
FsiSect  == NClust + 12
VbrSect  == NClust + 13
None     == -1              \* blk_ofs of an object without a long name

MaxOf(a, b) == IF a > b THEN a ELSE b
MinOf(a, b) == IF a < b THEN a ELSE b

(* Directory slots and data units.  "end" is a zero name byte, "del" DDEM. *)
Blank == [k |-> "end", base |-> "", num |-> 0, id |-> "", ord |-> 0, lst |-> FALSE,
          sum |-> 0, attr |-> "", cl |-> 0, sz |-> 0]
Unit(x) == [Blank EXCEPT !.k = "data", !.id = x]
Junk    == Unit("junk")

Fail(v, e) == [v EXCEPT !.res = e]
Yield(v, x) == [v EXCEPT !.val = x]
Then(v, F(_)) == IF v.res = "OK" THEN F(v) ELSE v
On(v, F(_)) == F(v)

\* A call that came back with NO_FILE, which e replaces.
Missing(v, e) == IF v.res = "NO_FILE" THEN Fail(v, e) ELSE v

-----------------------------------------------------------------------------
(* The card and the window.                                                *)

Blown(v) == v.fuse = 0
Burn(v)  == [v EXCEPT !.fuse = IF @ < 0 THEN @ ELSE @ - 1]

disk_read(v, s) ==
  IF Blown(v) THEN [Burn(v) EXCEPT !.res = "DISK_ERR"]
  ELSE [Burn(v) EXCEPT !.got = v.disk[s]]

disk_write(v, s, data) ==
  IF Blown(v) THEN [Burn(v) EXCEPT !.res = "DISK_ERR"]
  ELSE [Burn(v) EXCEPT !.disk[s] = data,
                       !.log = Append(@, [sect |-> s, data |-> data, raw |-> v.raw])]

Ignoring(v) == [v EXCEPT !.res = "OK"]

sync_window(v) ==
  IF ~v.wflag THEN v
  ELSE Then(disk_write(v, v.winsect, v.win),
            LAMBDA w : LET c == [w EXCEPT !.wflag = FALSE]
                       IN IF c.winsect = FatSect
                          THEN Ignoring(disk_write(c, Fat2Sect, c.win)) ELSE c)

\* A seeded fault: the window moves on without saving its sector.
MoveWindowForgets(v, s) ==
  IF s = v.winsect THEN v
  ELSE LET r == disk_read([v EXCEPT !.wflag = FALSE], s)
       IN IF r.res = "OK" THEN [r EXCEPT !.win = r.got, !.winsect = s] ELSE r

move_window(v, s) ==
  IF s = v.winsect THEN v
  ELSE Then(sync_window(v),
            LAMBDA w : LET r == disk_read(w, s)
                       IN IF r.res = "OK" THEN [r EXCEPT !.win = r.got, !.winsect = s]
                          ELSE [r EXCEPT !.winsect = NoWin])

Dirty(v, win) == [v EXCEPT !.win = win, !.wflag = TRUE]

sync_fs(v) ==
  Then(sync_window(v),
       LAMBDA w : IF w.fsi # "due" THEN w
                  ELSE LET info == [free |-> w.free, last |-> w.last]
                       IN [Ignoring(disk_write([w EXCEPT !.win = info, !.winsect = FsiSect],
                                               FsiSect, info)) EXCEPT !.fsi = "clean"])

-----------------------------------------------------------------------------
(* The FAT.                                                                *)

clst2sect(c) == IF c \in Clusters THEN c ELSE NoSect

\* The value 1 reports an internal error; a failed read sets v.res.
get_fat(v, c) ==
  IF c \notin Clusters THEN Yield(v, 1)
  ELSE Then(move_window(v, FatSect), LAMBDA w : Yield(w, w.win[c]))

put_fat(v, c, x) ==
  IF c \notin Clusters THEN Fail(v, "INT_ERR")
  ELSE Then(move_window(v, FatSect), LAMBDA w : Dirty(w, [w.win EXCEPT ![c] = x]))

\* fsi_flag |= 1: FSInfo is written at the next sync unless it is disabled.
Due(v) == [v EXCEPT !.fsi = IF @ = "off" THEN "off" ELSE "due"]

CountFreed(v) == IF v.free < NClust THEN Due([v EXCEPT !.free = @ + 1]) ELSE v

RECURSIVE FreeChain(_, _)
FreeOne(v, c) ==
  CASE v.val = 0 -> v
    [] v.val = 1 -> Fail(v, "INT_ERR")
    [] OTHER -> Then(put_fat(v, c, 0),
                     LAMBDA w : IF w.val \in Clusters THEN FreeChain(CountFreed(w), w.val)
                                ELSE CountFreed(w))
FreeChain(v, c) == Then(get_fat(v, c), LAMBDA w : FreeOne(w, c))

remove_chain(v, c, pc) ==
  IF c \notin Clusters THEN Fail(v, "INT_ERR")
  ELSE Then(IF pc = 0 THEN v ELSE put_fat(v, pc, EOC), LAMBDA w : FreeChain(w, c))

\* A seeded fault: the search stops at the last cluster.
NextFreeNoWrap(fat, scl) ==
  LET Free == {c \in Clusters : fat[c] = 0 /\ c > scl}
  IN IF Free = {} THEN 0 ELSE CHOOSE c \in Free : \A d \in Free : c <= d

\* The first free cluster after scl, wrapping round; 0 when there is none.
\* With no suggestion (scl = 1) the search begins at the first cluster.
NextFree(fat, scl) ==
  LET Rank(c) == IF c > scl THEN c - scl ELSE c - scl + NClust
      Free == {c \in Clusters : fat[c] = 0}
  IN IF Free = {} THEN 0 ELSE CHOOSE c \in Free : \A d \in Free : Rank(c) <= Rank(d)

Suggested(v) == IF v.last \in Clusters THEN v.last ELSE 1

Claim(v, c, n) ==
  IF n = 0 THEN Yield(v, 0)
  ELSE Then(Then(put_fat(v, n, EOC), LAMBDA w : IF c = 0 THEN w ELSE put_fat(w, c, n)),
            LAMBDA w : Yield(Due([w EXCEPT !.last = n,
                                           !.free = IF @ <= NClust THEN @ - 1 ELSE @]), n))

Search(v, c, scl) ==
  IF v.free = 0 THEN Yield(v, 0)
  ELSE Then(get_fat(v, Root),
            LAMBDA w : Claim(w, c, NextFree(w.win, scl)))

Stretch(v, c) ==
  LET next == IF c + 1 \in Clusters THEN c + 1 ELSE 2
  IN IF v.free = 0 THEN Yield(v, 0)
     ELSE Then(get_fat(v, next),
               LAMBDA w : IF w.val = 0 THEN Claim(w, c, next)
                          ELSE Search(w, c, IF w.last \in Clusters THEN w.last ELSE c))

\* 0: the volume is full.
create_chain(v, c) ==
  IF c = 0 THEN Search(v, 0, Suggested(v))
  ELSE Then(get_fat(v, c),
            LAMBDA w : CASE w.val < 2 -> Fail(w, "INT_ERR")
                         [] w.val \in Clusters -> w
                         [] OTHER -> Stretch(w, c))

-----------------------------------------------------------------------------
(* Directory objects.  dptr counts entries; the entry pointer dp->dir is   *)
(* the slot of the window that dptr selects, whatever the window holds.    *)

Here(v)  == (v.dp.dptr % Slots) + 1
Entry(v) == v.win[Here(v)]
SetEntry(v, e) == Dirty(v, [v.win EXCEPT ![Here(v)] = e])

dir_clear(v, c) ==
  Then(sync_window(v),
       LAMBDA w : LET z == [i \in 1 .. Slots |-> Blank]
                  IN disk_write([w EXCEPT !.winsect = clst2sect(c), !.win = z], c, z))

RECURSIVE FollowTo(_, _, _)
FollowTo(v, c, ofs) ==
  IF ofs < Slots THEN Yield(v, c)
  ELSE Then(get_fat(v, c),
            LAMBDA w : IF w.val \notin Clusters THEN Fail(w, "INT_ERR")
                       ELSE FollowTo(w, w.val, ofs - Slots))

dir_sdi(v, ofs) ==
  LET start == IF v.dp.sclust = 0 THEN Root ELSE v.dp.sclust
      u == [v EXCEPT !.dp.dptr = ofs]
  IN Then(FollowTo(u, start, ofs),
          LAMBDA w : IF clst2sect(w.val) = NoSect THEN Fail(w, "INT_ERR")
                     ELSE [w EXCEPT !.dp.clust = w.val, !.dp.sect = w.val])

AtEnd(v) == Fail([v EXCEPT !.dp.sect = NoSect], "NO_FILE")

Entered(v, c) ==
  [v EXCEPT !.dp.clust = c, !.dp.sect = clst2sect(c), !.dp.dptr = @ + 1, !.raw = FALSE]

Cleared(v) ==
  IF v.val = 0 THEN Fail([v EXCEPT !.raw = FALSE], "DENIED") ELSE dir_clear(v, v.val)
Lengthen(v) ==
  Then(Then(create_chain([v EXCEPT !.raw = TRUE], v.dp.clust), Cleared),
       LAMBDA w : Entered(w, w.val))

dir_next(v, stretch) ==
  CASE v.dp.sect = NoSect -> Fail(v, "NO_FILE")
    [] v.dp.sect # NoSect /\ (v.dp.dptr + 1) % Slots # 0 -> [v EXCEPT !.dp.dptr = @ + 1]
    [] OTHER ->
         Then(get_fat(v, v.dp.clust),
              LAMBDA w : CASE w.val <= 1 -> Fail(w, "INT_ERR")
                           [] w.val \in Clusters -> Entered(w, w.val)
                           [] w.val > 1 /\ w.val \notin Clusters ->
                                IF stretch THEN Lengthen(w) ELSE AtEnd(w))

RECURSIVE Reserve(_, _, _)
Counted(v, n, run) ==
  LET got == IF Entry(v).k \in {"end", "del"} THEN run + 1 ELSE 0
  IN IF got = n THEN v ELSE Then(dir_next(v, TRUE), LAMBDA w : Reserve(w, n, got))
Reserve(v, n, run) == Then(move_window(v, v.dp.sect), LAMBDA w : Counted(w, n, run))

dir_alloc(v, n) ==
  Missing(Then(dir_sdi(v, 0), LAMBDA u : Reserve(u, n, 0)), "DENIED")

IsDotEntry(e) == e.base \in {".", ".."}
cmp_lfn(fn, e) == e.id = fn.id

\* One long-name entry of a sequence: the order it leaves expected next.
NextOrd(e, ord, sum, ok) ==
  LET o == IF e.lst THEN e.ord ELSE ord
      s == IF e.lst THEN e.sum ELSE sum
  IN [ord |-> IF e.ord = o /\ e.sum = s /\ ok THEN o - 1 ELSE None, sum |-> s]

\* The entry is the one sought: its long name matched, or its short name does.
Matches(w, ord, sum) ==
  LET e == Entry(w)
      fn == w.dp.fn
  IN /\ e.k = "sfn" /\ e.attr # "vol"
     /\ \/ ord = 0 /\ sum = Chk(e.base, e.num)
        \/ ~fn.loss /\ e.base = fn.base /\ e.num = fn.num

RECURSIVE Find(_, _, _)
FindHere(w, ord, sum) ==
  LET e    == Entry(w)
      skip == e.k = "lfn" /\ w.dp.fn.nolfn
      name == e.k = "lfn" /\ ~skip
      lfn  == NextOrd(e, ord, sum, cmp_lfn(w.dp.fn, e))
      seen == [w EXCEPT !.dp.attr = e.attr]
      blk  == CASE name /\ e.lst -> w.dp.dptr
                [] e.k = "lfn" /\ ~(name /\ e.lst) -> w.dp.blk
                [] OTHER -> None
  IN CASE e.k = "end" -> Fail(w, "NO_FILE")
       [] e.k # "end" /\ Matches(w, ord, sum) -> seen
       [] OTHER ->
            Then(dir_next([seen EXCEPT !.dp.blk = blk], FALSE),
                 LAMBDA x : Find(x, CASE name -> lfn.ord [] skip -> ord [] OTHER -> None,
                                    CASE name -> lfn.sum [] skip -> sum [] OTHER -> None))
Find(v, ord, sum) == Then(move_window(v, v.dp.sect), LAMBDA w : FindHere(w, ord, sum))

dir_find(v) ==
  Then(dir_sdi(v, 0), LAMBDA w : Find([w EXCEPT !.dp.blk = None], None, None))

RECURSIVE Scan(_, _, _, _)
ScanHere(w, vol, ord, sum) ==
  LET e    == Entry(w)
      skip == e.k \in {"del", "data"} \/ IsDotEntry(e) \/ (e.attr = "vol") # vol
      name == ~skip /\ e.k = "lfn" /\ ~vol
      lfn  == NextOrd(e, ord, sum, TRUE)
      seen == [w EXCEPT !.dp.attr = e.attr]
      kept == [seen EXCEPT !.lfnbuf = e.id, !.dp.blk = IF e.lst THEN w.dp.dptr ELSE @]
  IN CASE e.k = "end" -> Fail(w, "NO_FILE")
       [] e.k # "end" /\ ~skip /\ ~name ->
            IF ord = 0 /\ sum = Chk(e.base, e.num) THEN seen ELSE [seen EXCEPT !.dp.blk = None]
       [] OTHER ->
            Then(dir_next(IF name THEN kept ELSE seen, FALSE),
                 LAMBDA x : Scan(x, vol, IF name THEN lfn.ord ELSE None,
                                         IF name THEN lfn.sum ELSE sum))
Scan(v, vol, ord, sum) == Then(move_window(v, v.dp.sect), LAMBDA w : ScanHere(w, vol, ord, sum))

dir_read(v, vol) ==
  On(IF v.dp.sect = NoSect THEN Fail(v, "NO_FILE") ELSE Scan(v, vol, None, None),
     LAMBDA w : IF w.res = "OK" THEN w ELSE [w EXCEPT !.dp.sect = NoSect])

ShortName(e) == IF e.num = 0 THEN e.base ELSE e.base \o "~" \o ToString(e.num)

\* The name of the entry dir_read stopped at; "" at the end of the directory.
get_fileinfo(v) ==
  CASE v.dp.sect = NoSect -> ""
    [] v.dp.sect # NoSect /\ v.dp.blk # None -> v.lfnbuf
    [] OTHER -> ShortName(Entry(v))

(* A name of a path: base is its short name, lfn the long-name entries it  *)
(* needs, loss says that the short name is a lossy one, to be numbered.    *)
create_name(n, last) ==
  [base |-> n.base, num |-> 0, id |-> n.id, lfn |-> n.lfn, loss |-> n.loss,
   dot |-> n.dot, last |-> last, nolfn |-> FALSE, noname |-> FALSE]

RECURSIVE Numbered(_, _)
Numbered(v, n) ==
  IF n = 100 THEN Fail(v, "DENIED")
  ELSE On(dir_find([v EXCEPT !.dp.fn.num = n]),
          LAMBDA w : CASE w.res = "OK"      -> Numbered(w, n + 1)
                       [] w.res = "NO_FILE" -> Ignoring(w)
                       [] OTHER             -> w)

RECURSIVE PutLfns(_, _)
PutLfn(w, ord) ==
  LET fn == w.dp.fn
  IN SetEntry(w, [Blank EXCEPT !.k = "lfn", !.id = fn.id, !.ord = ord,
                               !.lst = (ord = fn.lfn), !.sum = Chk(fn.base, fn.num)])
PutLfns(v, ord) ==
  IF ord = 0 THEN v
  ELSE Then(Then(Then(move_window(v, v.dp.sect), LAMBDA w : PutLfn(w, ord)),
                 LAMBDA w : dir_next(w, FALSE)),
            LAMBDA w : PutLfns(w, ord - 1))

\* A lossy short name gets the first number no entry has.
PickName(v) ==
  IF ~v.dp.fn.loss THEN v
  ELSE Then(Numbered([v EXCEPT !.dp.fn.nolfn = TRUE, !.dp.fn.loss = FALSE], 1),
            LAMBDA w : [w EXCEPT !.dp.fn.nolfn = FALSE, !.dp.fn.loss = TRUE])

dir_register(v) ==
  LET fn == v.dp.fn
  IN IF fn.dot \/ fn.noname THEN Fail(v, "INVALID_NAME")
     ELSE Then(Then(Then(Then(Then(PickName(v),
            LAMBDA w : dir_alloc(w, fn.lfn + 1)),
            LAMBDA w : IF fn.lfn = 0 THEN w ELSE dir_sdi(w, w.dp.dptr - fn.lfn)),
            LAMBDA w : PutLfns(w, fn.lfn)),
            LAMBDA w : move_window(w, w.dp.sect)),
            LAMBDA w : SetEntry(w, [Blank EXCEPT !.k = "sfn", !.base = w.dp.fn.base,
                                                 !.num = w.dp.fn.num]))

RECURSIVE EraseTo(_, _)
EraseHere(w, last) ==
  LET d == SetEntry(w, [Entry(w) EXCEPT !.k = "del"])
  IN IF d.dp.dptr >= last THEN d ELSE Then(dir_next(d, FALSE), LAMBDA u : EraseTo(u, last))
EraseTo(v, last) == Then(move_window(v, v.dp.sect), LAMBDA w : EraseHere(w, last))

dir_remove(v) ==
  Missing(Then(IF v.dp.blk = None THEN v ELSE dir_sdi(v, v.dp.blk),
               LAMBDA x : EraseTo(x, v.dp.dptr)), "INT_ERR")

RECURSIVE Follow(_, _)
Follow(v, segs) ==
  LET last == Len(segs) = 1
      dot == segs[1].dot
  IN On(dir_find([v EXCEPT !.dp.fn = create_name(segs[1], last)]), LAMBDA w :
       CASE w.res = "NO_FILE" /\ dot /\ ~last -> Follow(Ignoring(w), Tail(segs))
         [] w.res = "NO_FILE" /\ dot /\ last  -> [Ignoring(w) EXCEPT !.dp.fn.noname = TRUE]
         [] w.res = "NO_FILE" /\ ~dot /\ ~last -> Fail(w, "NO_PATH")
         [] w.res = "OK" /\ ~last ->
              IF w.dp.attr # "dir" THEN Fail(w, "NO_PATH")
              ELSE Follow([w EXCEPT !.dp.sclust = Entry(w).cl], Tail(segs))
         [] OTHER -> w)

NoName == create_name([base |-> "", id |-> "", lfn |-> 0, loss |-> FALSE, dot |-> FALSE], TRUE)
NewDir(sclust) == [sclust |-> sclust, dptr |-> 0, clust |-> 0, sect |-> NoSect, attr |-> "",
                   blk |-> None, fn |-> NoName]

\* A path is its names and whether it starts at the root.
follow_path(v, path) ==
  LET w == [v EXCEPT !.dp.sclust = IF path.abs THEN 0 ELSE v.cdir]
  IN IF path.segs = << >> THEN dir_sdi([w EXCEPT !.dp.fn.noname = TRUE], 0)
     ELSE Follow(w, path.segs)

-----------------------------------------------------------------------------
(* Mounting.                                                               *)

disk_initialize(v) == IF Blown(v) THEN [Burn(v) EXCEPT !.res = "NOT_READY"] ELSE Burn(v)

find_volume(v) == move_window([v EXCEPT !.wflag = FALSE, !.winsect = NoWin], VbrSect)

LoadFsInfo(v) ==
  On(move_window([v EXCEPT !.free = Unknown, !.last = Unknown, !.fsi = "off"], FsiSect),
     LAMBDA w : IF w.res = "OK"
                THEN [w EXCEPT !.fsi = "clean", !.free = w.win.free, !.last = w.win.last]
                ELSE Ignoring(w))

mount_volume(v) ==
  IF v.mounted THEN v
  ELSE Then(Then(disk_initialize(v), find_volume),
            LAMBDA w : [LoadFsInfo(w) EXCEPT !.mounted = TRUE, !.id = @ + 1, !.cdir = 0])

f_mount(v) == mount_volume([v EXCEPT !.mounted = FALSE])

\* Every call that takes a path mounts the volume if need be, then finds it.
Located(v, path) == Then(mount_volume(v), LAMBDA w : follow_path([w EXCEPT !.dp = NewDir(0)], path))

Valid(v, o) == o.live /\ v.mounted /\ o.id = v.id

-----------------------------------------------------------------------------
(* Files.                                                                  *)

Closed == [live |-> FALSE, id |-> 0, r |-> FALSE, w |-> FALSE, mod |-> FALSE, err |-> "OK",
           sclust |-> 0, size |-> 0, fptr |-> 0, clust |-> 0, sect |-> NoSect,
           dsect |-> NoSect, dslot |-> 1]

Abort(v, h, e) == Fail([v EXCEPT !.fil[h].err = e], e)
OrAbort(v, h, F(_)) == IF v.res = "OK" THEN F(v) ELSE Abort(v, h, v.res)

\* A seeded fault: the clusters of an overwritten file are not freed.
OverwriteLeaks(v) ==
  SetEntry(v, [Entry(v) EXCEPT !.attr = "file", !.cl = 0, !.sz = 0])

\* An existing entry is emptied before its clusters are freed.
Overwrite(v) ==
  LET cl == Entry(v).cl
      sc == v.winsect
      w  == SetEntry(v, [Entry(v) EXCEPT !.attr = "file", !.cl = 0, !.sz = 0])
  IN IF cl = 0 THEN w
     ELSE Then(remove_chain(w, cl, 0),
               LAMBDA u : [move_window(u, sc) EXCEPT !.last = cl - 1])

\* The entry to open: found, or registered, and emptied if the mode says so.
Prepared(t, mode) ==
  LET new == t.res = "NO_FILE" /\ mode.create # "no"
      isdir == t.res = "OK" /\ t.dp.attr = "dir"
  IN CASE isdir -> Fail(t, IF mode.create = "no" THEN "NO_FILE" ELSE "DENIED")
       [] ~isdir /\ t.res = "OK" /\ mode.create = "new" -> Fail(t, "EXIST")
       [] new \/ (~isdir /\ t.res = "OK" /\ mode.create = "always") ->
            Then(Then(IF new THEN dir_register(Ignoring(t)) ELSE t, Overwrite),
                 LAMBDA w : [w EXCEPT !.made = TRUE])
       [] OTHER -> t

Named(w) == IF w.dp.fn.noname THEN Fail(w, "INVALID_NAME") ELSE w
Target(v, path, mode) ==
  On(Then(Located(v, path), Named), LAMBDA t : Prepared(t, mode))

RECURSIVE ToLast(_, _, _)
ToLast(v, c, ofs) ==
  IF ofs <= Slots THEN Yield(v, c)
  ELSE Then(get_fat(v, c), LAMBDA w : IF w.val <= 1 THEN Fail(w, "INT_ERR")
                                      ELSE ToLast(w, w.val, ofs - Slots))

SeekEnd(v, h) ==
  LET fp == v.fil[h]
  IN Then(ToLast([v EXCEPT !.fil[h].fptr = fp.size], fp.sclust, fp.size),
          LAMBDA w : LET u == [w EXCEPT !.fil[h].clust = w.val]
                     IN CASE fp.size % Slots = 0 -> u
                          [] fp.size % Slots # 0 /\ clst2sect(w.val) = NoSect -> Fail(u, "INT_ERR")
                          [] OTHER -> [u EXCEPT !.fil[h].sect = w.val])

Opened(w, h, mode) ==
  LET e == Entry(w)
      u == [w EXCEPT !.fil[h] =
             [Closed EXCEPT !.live = TRUE, !.id = w.id, !.r = mode.r, !.w = mode.w,
                            !.mod = w.made, !.sclust = e.cl, !.size = e.sz,
                            !.dsect = w.winsect, !.dslot = Here(w)]]
  IN IF mode.append /\ e.sz > 0 THEN SeekEnd(u, h) ELSE u

f_open(v, h, path, mode) ==
  On(Then(Target([v EXCEPT !.made = FALSE], path, mode), LAMBDA w : Opened(w, h, mode)),
     LAMBDA o : IF o.res = "OK" THEN o ELSE [o EXCEPT !.fil[h].live = FALSE])

\* One pass over a file object: it must be valid, free of an earlier error
\* and opened for what is asked.
Checked(v, h, may, F(_)) ==
  CASE ~Valid(v, v.fil[h]) -> Fail(v, "INVALID_OBJECT")
    [] Valid(v, v.fil[h]) /\ v.fil[h].err # "OK" -> Fail(v, v.fil[h].err)
    [] Valid(v, v.fil[h]) /\ v.fil[h].err = "OK" /\ ~may -> Fail(v, "DENIED")
    [] OTHER -> F(v)

ReadCluster(v, h) ==
  LET fp == v.fil[h]
      w == IF fp.fptr = 0 THEN Yield(v, fp.sclust) ELSE get_fat(v, fp.clust)
  IN Then(w, LAMBDA u : IF clst2sect(u.val) = NoSect THEN Fail(u, "INT_ERR")
                        ELSE [u EXCEPT !.fil[h].clust = u.val])

Taken(v, h, units) == [v EXCEPT !.out = @ \o units, !.fil[h].fptr = @ + Len(units)]

RECURSIVE ReadLoop(_, _, _)

\* A whole sector, straight from the card, unless the window has it unsaved.
ReadWhole(v, h, left) ==
  LET s == v.fil[h].clust
  IN OrAbort(disk_read(v, s), h,
             LAMBDA w : ReadLoop(Taken(w, h, IF w.wflag /\ w.winsect = s THEN w.win ELSE w.got),
                                 h, left - Slots))
\* Part of a sector, through the window.
ReadPart(v, h, left) ==
  LET fp   == v.fil[h]
      from == fp.fptr % Slots
      n    == MinOf(Slots - from, left)
  IN On(move_window(v, fp.sect), LAMBDA w :
        IF w.res = "OK"
        THEN ReadLoop(Taken(w, h, SubSeq(w.win, from + 1, from + n)), h, left - n)
        ELSE Abort(w, h, "DISK_ERR"))
ReadLoop(v, h, left) ==
  LET edge == v.fil[h].fptr % Slots = 0
  IN CASE left = 0 -> v
       [] left > 0 /\ edge ->
            OrAbort(ReadCluster(v, h), h, LAMBDA w :
                    IF left >= Slots THEN ReadWhole(w, h, left)
                    ELSE ReadPart([w EXCEPT !.fil[h].sect = w.fil[h].clust], h, left))
       [] OTHER -> ReadPart(v, h, left)

f_read(v, h, n) ==
  LET fp == v.fil[h]
  IN Checked(v, h, fp.r, LAMBDA w : ReadLoop([w EXCEPT !.out = << >>], h,
                                             MinOf(n, fp.size - fp.fptr)))

WriteCluster(v, h) ==
  LET fp == v.fil[h]
  IN IF fp.fptr = 0 THEN IF fp.sclust = 0 THEN create_chain(v, 0) ELSE Yield(v, fp.sclust)
     ELSE create_chain(v, fp.clust)

AtCluster(v, h) ==
  [v EXCEPT !.fil[h].clust = v.val, !.fil[h].sclust = IF @ = 0 THEN v.val ELSE @]

Grew(v, h, n) ==
  [v EXCEPT !.fil[h].fptr = @ + n,
            !.fil[h].size = MaxOf(@, v.fil[h].fptr + n)]

RECURSIVE WriteLoop(_, _, _, _, _)
Wrote(v, h, left, x, bw, n) == WriteLoop(Grew(v, h, n), h, left - n, x, bw + n)

\* A whole sector, straight to the card; a window on it is refreshed.
WriteWhole(v, h, left, x, bw) ==
  LET s == v.fil[h].clust
      full == [i \in 1 .. Slots |-> Unit(x)]
  IN OrAbort(disk_write(v, s, full), h, LAMBDA w :
             Wrote(IF w.winsect = s THEN [w EXCEPT !.win = full, !.wflag = FALSE] ELSE w,
                   h, left, x, bw, Slots))

\* Part of a sector, through the window.
WritePart(v, h, left, x, bw) ==
  LET from == v.fil[h].fptr % Slots
      n    == MinOf(Slots - from, left)
      Put(win) == [i \in 1 .. Slots |-> IF i \in (from + 1) .. (from + n) THEN Unit(x) ELSE win[i]]
  IN On(move_window(v, v.fil[h].sect), LAMBDA w :
        IF w.res = "OK" THEN Wrote(Dirty(w, Put(w.win)), h, left, x, bw, n)
        ELSE Abort(w, h, "DISK_ERR"))

\* "Avoid silly cache filling on the growing edge"
EnterCluster(v, h) ==
  LET c == v.fil[h].clust
  IN IF v.fil[h].fptr < v.fil[h].size THEN [v EXCEPT !.fil[h].sect = c]
     ELSE OrAbort(sync_window(v), h, LAMBDA w :
             [w EXCEPT !.winsect = c, !.win = [i \in 1 .. Slots |-> Junk], !.fil[h].sect = c])

\* The window is saved before its sector is left.
Flushed(v, h) ==
  On(IF v.winsect = v.fil[h].sect THEN sync_window(v) ELSE v,
     LAMBDA w : IF w.res = "OK" THEN w ELSE Abort(w, h, "DISK_ERR"))

WriteOn(v, h, left, x, bw) ==
  IF v.res # "OK" THEN v
  ELSE IF left >= Slots THEN WriteWhole(v, h, left, x, bw)
       ELSE Then(EnterCluster(v, h), LAMBDA w : WritePart(w, h, left, x, bw))

WriteLoop(v, h, left, x, bw) ==
  LET edge == v.fil[h].fptr % Slots = 0
  IN CASE left = 0 -> Yield(v, bw)
       [] left > 0 /\ ~edge -> WritePart(v, h, left, x, bw)
       [] OTHER ->
            OrAbort(WriteCluster(v, h), h, LAMBDA w :
                    IF w.val = 0 THEN Yield(w, bw)           \* the volume is full
                    ELSE WriteOn(Flushed(AtCluster(w, h), h), h, left, x, bw))

f_write(v, h, n, x) ==
  Then(Checked(v, h, v.fil[h].w, LAMBDA w : WriteLoop(w, h, n, x, 0)),
       LAMBDA w : [w EXCEPT !.fil[h].mod = TRUE])

f_sync(v, h) ==
  LET fp == v.fil[h]
  IN CASE ~Valid(v, fp) -> Fail(v, "INVALID_OBJECT")
       [] Valid(v, fp) /\ ~fp.mod -> v
       [] OTHER ->
            Then(move_window(v, fp.dsect),
                 LAMBDA w : LET d == [w.win EXCEPT ![fp.dslot].attr = "file",
                                                   ![fp.dslot].cl = fp.sclust,
                                                   ![fp.dslot].sz = fp.size]
                            IN [sync_fs(Dirty(w, d)) EXCEPT !.fil[h].mod = FALSE])

f_close(v, h) == Then(f_sync(v, h), LAMBDA w : [w EXCEPT !.fil[h] = Closed])

RECURSIVE SeekLoop(_, _, _, _)
SeekLoop(v, h, c, ofs) ==
  LET fp == v.fil[h]
      u  == [v EXCEPT !.fil[h].fptr = @ + Slots]
  IN IF ofs <= Slots
     THEN [v EXCEPT !.fil[h].fptr = @ + ofs, !.got = IF ofs % Slots = 0 THEN NoSect ELSE c]
     ELSE OrAbort(IF fp.w THEN create_chain(u, c) ELSE get_fat(u, c), h,
            LAMBDA w : CASE fp.w /\ w.val = 0 -> [w EXCEPT !.got = NoSect]  \* clipped: disk full
                         [] w.val \in Clusters ->
                              SeekLoop([w EXCEPT !.fil[h].clust = w.val], h, w.val, ofs - Slots)
                         [] OTHER -> Abort(w, h, "INT_ERR"))

\* From the first cluster, which is allocated if there is none.
SeekStart(v, h, ofs) ==
  LET fp == v.fil[h]
  IN OrAbort(IF fp.sclust = 0 THEN create_chain(v, 0) ELSE Yield(v, fp.sclust), h, LAMBDA w :
             IF w.val = 0 THEN [w EXCEPT !.fil[h].sclust = 0, !.fil[h].clust = 0]
             ELSE SeekLoop([w EXCEPT !.fil[h].sclust = w.val, !.fil[h].clust = w.val], h, w.val, ofs))

SeekTo(v, h, ofs) ==
  LET fp   == v.fil[h]
      base == ((fp.fptr - 1) \div Slots) * Slots
      top  == [v EXCEPT !.fil[h].fptr = 0, !.got = NoSect]
  IN CASE ofs = 0 -> top
       [] ofs > 0 /\ fp.fptr > 0 /\ ofs - 1 >= base ->
            SeekLoop([top EXCEPT !.fil[h].fptr = base], h, fp.clust, ofs - base)
       [] OTHER -> SeekStart(top, h, ofs)

\* The file is as long as the position; the sector is the one the walk ended in.
Settled(v, h) ==
  LET at == v.fil[h].fptr
      u  == IF at > v.fil[h].size
            THEN [v EXCEPT !.fil[h].size = at, !.fil[h].mod = TRUE] ELSE v
  IN Yield(IF at % Slots # 0 THEN [u EXCEPT !.fil[h].sect = u.got] ELSE u, at)

f_lseek(v, h, to) ==
  LET fp  == v.fil[h]
      ofs == IF to > fp.size /\ ~fp.w THEN fp.size ELSE to
  IN Then(Checked(v, h, TRUE, LAMBDA w : SeekTo(w, h, ofs)), LAMBDA w : Settled(w, h))

CutChain(v, h) ==
  LET fp == v.fil[h]
  IN IF fp.fptr = 0
     THEN [remove_chain(v, fp.sclust, 0) EXCEPT !.fil[h].sclust = 0]
     ELSE Then(get_fat(v, fp.clust),
               LAMBDA w : CASE w.val = 1   -> Fail(w, "INT_ERR")
                            [] w.val # 1 /\ w.val < EOC -> remove_chain(w, w.val, fp.clust)
                            [] OTHER       -> w)

Truncated(v, h) ==
  LET fp == v.fil[h]
  IN IF fp.fptr >= fp.size THEN v
     ELSE OrAbort([CutChain(v, h) EXCEPT !.fil[h].size = fp.fptr, !.fil[h].mod = TRUE], h,
                  LAMBDA w : w)

f_truncate(v, h) == Checked(v, h, v.fil[h].w, LAMBDA w : Truncated(w, h))

-----------------------------------------------------------------------------
(* Directories and names.                                                  *)

Emptied(v, cl) ==
  On(Then(dir_sdi([v EXCEPT !.dp = NewDir(cl)], 0), LAMBDA x : dir_read(x, FALSE)), LAMBDA w :
     LET back == [w EXCEPT !.dp = v.dp]
     IN CASE w.res = "OK"      -> Fail(back, "DENIED")
          [] w.res = "NO_FILE" -> Ignoring(back)
          [] OTHER             -> back)

\* A directory is removed only if it is empty and nobody's working directory.
Removable(v) ==
  CASE v.dp.fn.dot \/ v.dp.fn.noname -> Fail(v, "INVALID_NAME")
    [] ~v.dp.fn.dot /\ ~v.dp.fn.noname /\ v.dp.attr # "dir" -> v
    [] OTHER -> IF Entry(v).cl = v.cdir THEN Fail(v, "DENIED") ELSE Emptied(v, Entry(v).cl)

\* A seeded fault: the clusters are freed first and the entry erased last.
ErasedLast(v, cl) ==
  Then(Then(Then(Then(Removable(v), LAMBDA w : IF cl = 0 THEN w ELSE remove_chain(w, cl, 0)),
                 sync_fs), dir_remove), sync_fs)

Erased(v, cl) ==
  Then(Then(Then(Removable(v), dir_remove),
            LAMBDA w : IF cl = 0 THEN w ELSE remove_chain(w, cl, 0)), sync_fs)

f_unlink(v, path) == Then(Located(v, path), LAMBDA w : Erased(w, Entry(w).cl))

DotEntries(v, cl) ==
  LET dot(base, c) == [Blank EXCEPT !.k = "sfn", !.base = base, !.attr = "dir", !.cl = c]
  IN Dirty(v, [v.win EXCEPT ![1] = dot(".", cl), ![2] = dot("..", v.dp.sclust)])

\* A new directory at cluster cl, and its entry; on failure cl is freed.
NewTable(v, cl) ==
  On(Then(Then(IF v.res = "OK" /\ cl = 0 THEN Fail(v, "DENIED") ELSE v,
               LAMBDA w : dir_clear(w, cl)),
          LAMBDA w : dir_register(DotEntries(w, cl))),
     LAMBDA w : IF w.res = "OK"
                THEN sync_fs(SetEntry(w, [Entry(w) EXCEPT !.attr = "dir", !.cl = cl]))
                ELSE Fail(remove_chain(Ignoring(w), cl, 0), w.res))

AddDir(v) ==
  CASE v.res = "OK" -> Fail(v, "EXIST")
    [] v.res = "NO_FILE" /\ v.dp.fn.dot -> Fail(v, "INVALID_NAME")
    [] v.res = "NO_FILE" /\ ~v.dp.fn.dot ->
         On(create_chain(Ignoring(v), 0),
            LAMBDA a : NewTable(a, IF a.res = "OK" THEN a.val ELSE 0))
    [] OTHER -> v

f_mkdir(v, path) == On(Located(v, path), AddDir)

\* The moved directory's ".." follows it to its new parent.
Reparent(v, cl, parent) ==
  Then(move_window(v, clst2sect(cl)),
       LAMBDA w : IF w.win[2].base = ".."
                  THEN Dirty(w, [w.win EXCEPT ![2].cl = parent]) ELSE w)

\* The new name must be free, unless it is the entry's own.
Vacant(v, old) ==
  LET same == v.dp.sclust = old.sclust /\ v.dp.dptr = old.dptr
  IN CASE v.res = "OK" /\ ~same -> Fail(v, "EXIST")
       [] (v.res = "OK" /\ same) \/ v.res = "NO_FILE" -> Ignoring(v)
       [] OTHER -> v

\* The new entry takes over what the old one, e in directory old, described.
TakesOver(v, e, old) ==
  On(SetEntry(v, [Entry(v) EXCEPT !.attr = e.attr, !.cl = e.cl, !.sz = e.sz]), LAMBDA w :
     CASE e.attr # "dir" \/ old.sclust = w.dp.sclust -> w
       [] e.attr = "dir" /\ old.sclust # w.dp.sclust /\ clst2sect(e.cl) = NoSect -> Fail(w, "INT_ERR")
       [] OTHER -> Reparent(w, e.cl, w.dp.sclust))

\* The new entry is written first, then the old one is erased.
Renamed(v, path2, e, old) ==
  IF v.dp.fn.dot \/ v.dp.fn.noname THEN Fail(v, "INVALID_NAME")
  ELSE Then(Then(Then(Then(Vacant(follow_path(v, path2), old), dir_register),
                      LAMBDA w : TakesOver(w, e, old)),
                 LAMBDA w : dir_remove([w EXCEPT !.dp = old])), sync_fs)

f_rename(v, path, path2) ==
  Then(Located(v, path), LAMBDA w : Renamed(w, path2, Entry(w), w.dp))

NoPath(v) == Missing(v, "NO_PATH")

f_chdir(v, path) ==
  NoPath(Then(Located(v, path),
    LAMBDA w : CASE w.dp.fn.noname -> [w EXCEPT !.cdir = w.dp.sclust]
                 [] ~w.dp.fn.noname /\ w.dp.attr = "dir" -> [w EXCEPT !.cdir = Entry(w).cl]
                 [] OTHER -> Fail(w, "NO_PATH")))

\* The entry of the parent that names the directory at cluster cl.
RECURSIVE NameOf(_, _)
NameHere(v, cl) ==
  IF Entry(v).cl = cl THEN v ELSE Then(dir_next(v, FALSE), LAMBDA w : NameOf(w, cl))
NameOf(v, cl) == Then(dir_read(v, FALSE), LAMBDA w : NameHere(w, cl))

RECURSIVE Climb(_, _)
ToParent(v) == dir_sdi([v EXCEPT !.dp.sclust = Entry(v).cl], 0)
Climb(v, names) ==
  LET cl == v.dp.sclust
  IN IF cl = 0 THEN [v EXCEPT !.out = names]
     ELSE On(Then(Then(Then(dir_sdi(v, 1), LAMBDA w : move_window(w, w.dp.sect)), ToParent),
                  LAMBDA w : NameOf(w, cl)),
             LAMBDA w : CASE w.res = "OK" -> Climb(w, <<get_fileinfo(w)>> \o names)
                          [] w.res = "NO_FILE" -> Fail(w, "INT_ERR")
                          [] OTHER -> w)

f_getcwd(v) ==
  Then(mount_volume(v), LAMBDA w : Climb([w EXCEPT !.dp = NewDir(w.cdir)], << >>))

f_stat(v, path) ==
  Then(Located(v, path),
       LAMBDA w : IF w.dp.fn.noname THEN Fail(w, "INVALID_NAME")
                  ELSE [w EXCEPT !.out = <<Entry(w).attr, Entry(w).sz>>])

TableOf(w) ==
  CASE w.dp.fn.noname -> w
    [] ~w.dp.fn.noname /\ w.dp.attr = "dir" -> [w EXCEPT !.dp.sclust = Entry(w).cl]
    [] OTHER -> Fail(w, "NO_PATH")

\* The DIR object of a caller is v.dir; pat is the set of names it matches.
f_opendir(v, path, pat) ==
  On(NoPath(Then(Then(Located(v, path), TableOf), LAMBDA w : dir_sdi(w, 0))), LAMBDA t :
     [t EXCEPT !.dir = [dp |-> t.dp, id |-> t.id, live |-> t.res = "OK", pat |-> pat]])

\* The entry found is reported and passed; the end reports no name.
Reported(v) ==
  CASE v.res = "OK" ->
         On(dir_next([v EXCEPT !.out = <<get_fileinfo(v)>>], FALSE),
            LAMBDA w : IF w.res = "NO_FILE" THEN Ignoring(w) ELSE w)
    [] v.res = "NO_FILE" -> [Ignoring(v) EXCEPT !.out = <<"">>]
    [] OTHER -> v

f_readdir(v) ==
  IF ~Valid(v, v.dir) THEN Fail(v, "INVALID_OBJECT")
  ELSE On(On(dir_read([v EXCEPT !.dp = v.dir.dp], FALSE), Reported),
          LAMBDA w : [w EXCEPT !.dir.dp = w.dp])

RECURSIVE f_findnext(_)
f_findnext(v) ==
  On(f_readdir(v), LAMBDA w :
     IF w.res # "OK" \/ w.out[1] \in {""} \cup v.dir.pat THEN w ELSE f_findnext(w))

f_findfirst(v, path, pat) == Then(f_opendir(v, path, pat), f_findnext)

CountFree(v) ==
  LET n == Cardinality({c \in Clusters : v.win[c] = 0})
  IN Yield(Due([v EXCEPT !.free = n]), n)
FreeCount(v) ==
  IF v.free <= NClust THEN Yield(v, v.free) ELSE Then(move_window(v, FatSect), CountFree)
f_getfree(v) == Then(mount_volume(v), FreeCount)

LabelEntry(v) ==
  Then(Then(mount_volume(v), LAMBDA w : dir_sdi([w EXCEPT !.dp = NewDir(0)], 0)),
       LAMBDA w : dir_read(w, TRUE))

f_getlabel(v) ==
  On(LabelEntry(v), LAMBDA w :
     CASE w.res = "OK" -> [w EXCEPT !.out = <<Entry(w).base>>]
       [] w.res = "NO_FILE" -> [Ignoring(w) EXCEPT !.out = <<"">>]
       [] OTHER -> w)

SetLabelEntry(v, label) ==
  CASE v.res = "OK" ->
         sync_fs(SetEntry(v, IF label = "" THEN [Entry(v) EXCEPT !.k = "del"]
                             ELSE [Entry(v) EXCEPT !.base = label]))
    [] v.res = "NO_FILE" /\ label = "" -> Ignoring(v)
    [] v.res = "NO_FILE" /\ label # "" ->
         Then(dir_alloc(Ignoring(v), 1),
              LAMBDA w : sync_fs(SetEntry(w, [Blank EXCEPT !.k = "sfn", !.base = label, !.attr = "vol"])))
    [] OTHER -> v
f_setlabel(v, label) == On(LabelEntry(v), LAMBDA w : SetLabelEntry(w, label))
=============================================================================

----------------------------- MODULE FatVolume -----------------------------
(***************************************************************************)
(* The volume in use: programs call the API of FatFs in any order, any     *)
(* sector transfer may fail, and the power may go between any two sector   *)
(* writes.  Callers keep the rule ffconf.h states for FF_FS_LOCK 0: no     *)
(* open, removal or renaming of an object that is open.                    *)
(***************************************************************************)
EXTENDS FatFs

CONSTANTS
  Paths,        \* the paths programs use
  Modes,        \* the modes they open files in
  Sizes,        \* the numbers of units they read and write
  Offsets,      \* the positions they seek to
  Labels,       \* volume labels
  Listings,     \* the directories they list, with the names they look for ({}: any)
  Cards,        \* the cards inserted, each a function from sectors to contents
  MaxOps,       \* bound: calls in a behaviour, a last read apart
  MaxMishaps,   \* bound: failed transfers and power losses in a behaviour
  LastFault     \* bound: a failing transfer is one of the first of its call

VARIABLES
  disk,     \* the sectors of the card
  fs,       \* FATFS: the window and the mounted volume
  fil,      \* the FIL objects
  store,    \* the tree of named objects those three amount to
  dir,      \* a DIR object
  did,      \* the last call, its arguments and its result
  steps, mishaps,
  doubt,    \* paths of failed calls whose changes may still be in the window
  cut,      \* files truncated whose entries have not reached the card since
  hurt,     \* calls interrupted where FatFs cannot be interrupted safely
  clean     \* no mishap, and no mount over unsaved changes, so far

vars == <<disk, fs, fil, store, dir, did, steps, mishaps, doubt, cut, hurt, clean>>

Cold == [mounted |-> FALSE, id |-> 0, cdir |-> 0, win |-> << >>, winsect |-> NoWin,
         wflag |-> FALSE, free |-> Unknown, last |-> Unknown, fsi |-> "off"]
NoDir == [dp |-> NewDir(0), id |-> 0, live |-> FALSE, pat |-> {}]

Vol(fuse) ==
  fs @@ [disk |-> disk, fil |-> fil, dir |-> dir, dp |-> NewDir(0), res |-> "OK", val |-> 0,
         out |-> << >>, got |-> NoSect, log |-> << >>, fuse |-> fuse, raw |-> FALSE,
         made |-> FALSE, lfnbuf |-> ""]

-----------------------------------------------------------------------------
(* What the sectors mean: the tree of objects a card holds.                *)

\* The card as the program sees it: the window over the sector it caches.
ViewOf(v) == IF v.wflag THEN [v.disk EXCEPT ![v.winsect] = v.win] ELSE v.disk

RECURSIVE ChainOf(_, _, _)
ChainOf(d, c, n) ==
  IF c \notin Clusters \/ n = 0 THEN << >>
  ELSE <<c>> \o ChainOf(d, d[FatSect][c], n - 1)
Chain(d, c) == ChainOf(d, c, NClust + 1)

\* The slots of a directory up to its first unused one, each with its place.
SlotsOf(d, ch) ==
  [i \in 1 .. Len(ch) * Slots |->
     LET at == [sect |-> ch[((i - 1) \div Slots) + 1], slot |-> ((i - 1) % Slots) + 1]
     IN [e |-> d[at.sect][at.slot], at |-> at]]
UpToEnd(all) ==
  SelectSeq(all, LAMBDA r : \A i \in 1 .. Len(all) :
                    all[i].e.k = "end" => \E j \in 1 .. i - 1 : all[j] = r)
Table(d, cl) == UpToEnd(SlotsOf(d, Chain(d, cl)))

\* The long name in front of entry i, if there is a whole one that belongs to it.
NameAt(t, i) ==
  LET whole(n) == /\ n < i
                  /\ \A j \in 1 .. n : /\ t[i - j].e.k = "lfn" /\ t[i - j].e.ord = j
                                       /\ t[i - j].e.lst = (j = n)
                                       /\ t[i - j].e.sum = Chk(t[i].e.base, t[i].e.num)
  IN IF \E n \in 1 .. Slots : whole(n) THEN t[i - 1].e.id ELSE ShortName(t[i].e)

Rows(t, prefix) ==
  {[path |-> Append(prefix, NameAt(t, i)), e |-> t[i].e, at |-> t[i].at] :
     i \in {j \in 1 .. Len(t) : /\ t[j].e.k = "sfn" /\ t[j].e.attr # "vol"
                                /\ ~IsDotEntry(t[j].e)}}
RECURSIVE Below(_, _, _, _)
AndBelow(d, rows, depth) ==
  IF depth = 0 THEN rows
  ELSE rows \cup UNION {Below(d, o.e.cl, o.path, depth - 1) : o \in {x \in rows : x.e.attr = "dir"}}
Below(d, cl, prefix, depth) == AndBelow(d, Rows(Table(d, cl), prefix), depth)

Objects(d) == Below(d, Root, << >>, 3)

\* The open file that is writing object o of volume v: it holds the object's
\* first cluster and its size until it is synchronised.
Writers(v, o) == {h \in Handles : /\ Valid(v, v.fil[h]) /\ v.fil[h].w
                                  /\ v.fil[h].dsect = o.at.sect /\ v.fil[h].dslot = o.at.slot}
PlacedBy(v, o, ws) ==
  IF ws = {} THEN [path |-> o.path, at |-> o.at, dir |-> o.e.attr = "dir", cl |-> o.e.cl, sz |-> o.e.sz]
  ELSE LET fp == v.fil[CHOOSE h \in ws : TRUE]
       IN [path |-> o.path, at |-> o.at, dir |-> FALSE, cl |-> fp.sclust, sz |-> fp.size]
Placed(v, o) == PlacedBy(v, o, Writers(v, o))

\* The objects on a card, as its directories describe them, and those of a
\* volume in use.
OnCard(d) == {[path |-> o.path, at |-> o.at, dir |-> o.e.attr = "dir", cl |-> o.e.cl, sz |-> o.e.sz] :
                o \in Objects(d)}
InUseOf(v) == {Placed(v, o) : o \in Objects(ViewOf(v))}

Contents(d, ch, size) ==
  [i \in 1 .. size |-> IF (i - 1) \div Slots < Len(ch)
                       THEN d[ch[((i - 1) \div Slots) + 1]][((i - 1) % Slots) + 1].id ELSE "missing"]

NodeOf(d, o) == IF o.dir THEN [kind |-> "dir", data |-> << >>]
                ELSE [kind |-> "file", data |-> Contents(d, Chain(d, o.cl), o.sz)]
StoreIn(d, os) ==
  [p \in {o.path : o \in os} |-> NodeOf(d, CHOOSE o \in os : o.path = p)]
StoreOf(v) == StoreIn(ViewOf(v), InUseOf(v))

\* The absolute path, as a sequence of names, that a path of a program means.
Cwd == IF fs.cdir = 0 \/ ~fs.mounted THEN << >>
       ELSE (CHOOSE o \in Objects(ViewOf(Vol(-1))) : o.e.cl = fs.cdir).path
RECURSIVE Resolve(_, _)
Resolve(base, segs) ==
  IF segs = << >> THEN base
  ELSE Resolve(CASE segs[1].id = ".." -> SubSeq(base, 1, MaxOf(Len(base) - 1, 0))
                 [] segs[1].id = "."  -> base
                 [] OTHER -> Append(base, segs[1].id), Tail(segs))
Absolute(path) == Resolve(IF path.abs THEN << >> ELSE Cwd, path.segs)

Open(h) == Valid(fs, fil[h])
PathIn(os, h) ==
  LET mine == {o \in os : fil[h].dsect = o.at.sect /\ fil[h].dslot = o.at.slot}
  IN IF mine = {} THEN <<"?">> ELSE (CHOOSE o \in mine : TRUE).path
PathOf(h) == PathIn(Objects(ViewOf(Vol(-1))), h)
OpenPaths(h) == IF Open(h) THEN {PathOf(h)} ELSE {}

-----------------------------------------------------------------------------
(* A call: it completes, one of its transfers fails, or the power goes.    *)

Call(op, paths) == [op |-> op, path |-> << >>, path2 |-> << >>, paths |-> paths, at |-> 0,
                    val |-> 0, want |-> 0, x |-> "", broken |-> FALSE, res |-> "OK", out |-> << >>]

\* An object half renamed or removed may be left with its short name alone.
Aliases(p) ==
  {p} \cup {Append(SubSeq(p, 1, Len(p) - 1), ShortName(o.e)) :
              o \in {x \in Objects(ViewOf(Vol(-1))) : x.path = p}}

OnAbsolute(op, p) == [Call(op, Aliases(p)) EXCEPT !.path = p]
OnPath(op, path)  == OnAbsolute(op, Absolute(path))
OnFile(op, h)    == [Call(op, OpenPaths(h)) EXCEPT !.path = IF Open(h) THEN PathOf(h) ELSE << >>,
                                                    !.at = fil[h].fptr, !.broken = fil[h].err # "OK"]

Commit(d, w) ==
  /\ disk' = w.disk
  /\ fs' = [f \in DOMAIN fs |-> w[f]]
  /\ fil' = w.fil
  /\ dir' = w.dir
  /\ store' = StoreOf(w)
  /\ did' = [d EXCEPT !.op = IF w.made THEN "create" ELSE @, !.res = w.res, !.val = w.val,
                      !.out = w.out]
  /\ hurt' = hurt \cup (IF w.raw THEN {"stretch"} ELSE {})
                  \cup (IF d.op = "rename" /\ w.res = "DISK_ERR" THEN {"rename"} ELSE {})
  /\ doubt' = IF w.wflag THEN doubt \cup (IF w.res = "DISK_ERR" THEN d.paths ELSE {}) ELSE {}
  /\ cut' = {h \in cut \cup (IF d.op = "truncate" THEN {h \in Handles : PathOf(h) = d.path} ELSE {}) :
               w.fil[h].mod \/ w.wflag}

\* The call returns; f counts its transfers up to the one that failed, if any.
Returns(d, w, f) ==
  /\ Commit(d, w)
  /\ mishaps' = IF f = -1 THEN mishaps ELSE mishaps + 1
  /\ clean' = (clean /\ f = -1)

RECURSIVE Replay(_, _)
Replay(d, log) == IF log = << >> THEN d ELSE Replay([d EXCEPT ![log[1].sect] = log[1].data], Tail(log))

\* The first k writes of the call reach the card, then the power goes.
PowerFails(d, log, k) ==
  /\ mishaps' = mishaps + 1
  /\ disk' = Replay(disk, SubSeq(log, 1, k))
  /\ hurt' = hurt \cup (IF d.op = "rename" THEN {"rename"} ELSE {})
                  \cup (IF cut # {} \/ d.op = "truncate" THEN {"truncate"} ELSE {})
                  \cup (IF k > 0 /\ log[k].raw THEN {"stretch"} ELSE {})
  /\ fs' = Cold
  /\ fil' = [h \in Handles |-> Closed]
  /\ dir' = NoDir
  /\ store' = StoreOf(Cold @@ [disk |-> disk', fil |-> fil'])
  /\ did' = [Call("power", d.paths \cup doubt \cup UNION {OpenPaths(h) : h \in Handles}) EXCEPT !.res = "POWER"]
  /\ cut' = {} /\ doubt' = {}
  /\ clean' = FALSE

\* The call W on the volume completes, or transfer f of it (counted from 0)
\* fails, or the power goes after k of its writes.
Perform(d, W(_)) ==
  /\ steps' = steps + 1
  /\ \E f \in {-1} \cup IF mishaps < MaxMishaps THEN 0 .. LastFault ELSE {} :
     \E w \in {W(Vol(f))} :
        \/ w.fuse = -1 /\ Returns(d, w, f)
        \/ /\ f = -1 /\ mishaps < MaxMishaps
           /\ \E k \in 1 .. Len(w.log) - 1 : PowerFails(d, w.log, k)

\* After a call was interrupted in a critical section the volume needs repair.
Ready == steps < MaxOps /\ hurt = {}

InUse(p) == \E h \in Handles : Open(h) /\ PathOf(h) = p
InWrite(p) == \E h \in Handles : Open(h) /\ fil[h].w /\ PathOf(h) = p
Inside(p, q) == Len(p) >= Len(q) /\ SubSeq(p, 1, Len(q)) = q

OpenFile == Ready /\ \E h \in Handles, p \in Paths, m \in Modes :
  /\ ~Open(h)
  /\ IF m.w THEN ~InUse(Absolute(p)) ELSE ~InWrite(Absolute(p))
  /\ Perform(OnPath("open", p), LAMBDA v : f_open(v, h, p, m))

ReadFile == steps <= MaxOps /\ hurt = {} /\ \E h \in Handles, n \in Sizes :
  fil[h].live /\ Perform(OnFile("read", h), LAMBDA v : Yield(f_read(v, h, n), n))

WriteFile == Ready /\ \E h \in Handles, n \in Sizes :
  LET x == "new"
  IN fil[h].live /\ Perform([OnFile("write", h) EXCEPT !.x = x, !.want = n], LAMBDA v : f_write(v, h, n, x))

SyncFile  == Ready /\ \E h \in Handles : fil[h].live /\ Perform(OnFile("sync", h), LAMBDA v : f_sync(v, h))
CloseFile == Ready /\ \E h \in Handles : fil[h].live /\ Perform(OnFile("close", h), LAMBDA v : f_close(v, h))

Seek == Ready /\ \E h \in Handles, n \in Offsets :
  fil[h].live /\ Perform(OnFile("extend", h), LAMBDA v : f_lseek(v, h, n))

Truncate == Ready /\ \E h \in Handles :
  fil[h].live /\ Perform(OnFile("truncate", h), LAMBDA v : f_truncate(v, h))

Unlink == Ready /\ \E p \in Paths :
  ~InUse(Absolute(p)) /\ Perform(OnPath("unlink", p), LAMBDA v : f_unlink(v, p))

MakeDir == Ready /\ \E p \in Paths : Perform(OnPath("mkdir", p), LAMBDA v : f_mkdir(v, p))

\* mos_REN refuses to move a directory below itself; so must other callers.
Rename == Ready /\ \E p, q \in Paths : \E from \in {Absolute(p)}, to \in {Absolute(q)} :
  /\ ~InUse(from) /\ ~InUse(to)
  /\ from # to => ~Inside(to, from)
  /\ Perform([OnAbsolute("rename", from) EXCEPT !.path2 = to, !.paths = @ \cup Aliases(to)],
             LAMBDA v : f_rename(v, p, q))

ChangeDir == Ready /\ \E p \in Paths : Perform(OnPath("chdir", p), LAMBDA v : f_chdir(v, p))
GetCwd  == Ready /\ Perform(Call("getcwd", {}), f_getcwd)
Stat    == Ready /\ \E p \in Paths : Perform(OnPath("stat", p), LAMBDA v : f_stat(v, p))
OpenDir == Ready /\ \E l \in Listings :
  Perform(OnPath("opendir", l.path), LAMBDA v :
          IF l.pat = {} THEN f_opendir(v, l.path, {}) ELSE f_findfirst(v, l.path, l.pat))
ReadDir == Ready /\ dir.live /\ Perform(Call("readdir", {}),
                               LAMBDA v : IF dir.pat = {} THEN f_readdir(v) ELSE f_findnext(v))
GetFree == Ready /\ Perform(Call("getfree", {}), f_getfree)
GetLabel == Ready /\ Perform(Call("getlabel", {}), f_getlabel)
SetLabel == Ready /\ \E l \in Labels : Perform(Call("setlabel", {}), LAMBDA v : f_setlabel(v, l))

Unsaved == fs.wflag \/ \E h \in Handles : Open(h) /\ fil[h].mod

\* mos_mount: the volume is mounted again over whatever was open.
Mount ==
  /\ Ready /\ steps' = steps + 1
  /\ cut = {} /\ fs.id < 2
  /\ Commit([Call("mount", doubt \cup UNION {OpenPaths(h) : h \in Handles}) EXCEPT !.res = "OK"], f_mount(Vol(-1)))
  /\ clean' = (clean /\ ~Unsaved)
  /\ UNCHANGED mishaps

\* The power goes between two calls.
Idle == /\ Ready /\ steps' = steps + 1
        /\ mishaps < MaxMishaps
        /\ PowerFails(Call("idle", {}), << >>, 0)

Init ==
  /\ disk \in Cards
  /\ fs = Cold
  /\ fil = [h \in Handles |-> Closed]
  /\ store = StoreOf(Cold @@ [disk |-> disk, fil |-> fil])
  /\ dir = NoDir
  /\ did = Call("boot", {})
  /\ steps = 0 /\ mishaps = 0
  /\ doubt = {} /\ cut = {} /\ hurt = {} /\ clean = TRUE

Next ==
  \/ OpenFile \/ ReadFile \/ WriteFile \/ SyncFile \/ CloseFile \/ Seek \/ Truncate
  \/ Unlink \/ MakeDir \/ Rename \/ ChangeDir \/ GetCwd \/ Stat
  \/ OpenDir \/ ReadDir \/ GetFree \/ GetLabel \/ SetLabel \/ Mount \/ Idle

Spec == Init /\ [][Next]_vars

-----------------------------------------------------------------------------
(* Properties.                                                             *)

\* Shapes of the mounted volume, the files and the bookkeeping.
TypeOK ==
  /\ fs.mounted \in BOOLEAN /\ fs.wflag \in BOOLEAN
  /\ fs.free \in 0 .. Unknown
  /\ fs.fsi \in {"off", "clean", "due"}
  /\ fs.cdir \in {0} \cup Clusters
  /\ \A h \in Handles : /\ fil[h].size \in Nat /\ fil[h].fptr \in Nat
                         /\ fil[h].sclust \in {0} \cup Clusters
  /\ disk[FatSect] \in [Clusters -> 0 .. EOC]
  /\ \A c \in Clusters : Len(disk[c]) = Slots

ChainSet(d, c) == {Chain(d, c)[i] : i \in 1 .. Len(Chain(d, c))}

\* The objects os of card d: each has a chain of its own, of allocated
\* clusters, long enough for its size.
SoundChains(d, os) ==
  LET set == [o \in os |-> ChainSet(d, o.cl)]
      root == ChainSet(d, Root)
  IN /\ \A o \in os : /\ \A c \in set[o] : d[FatSect][c] # 0
                      /\ Cardinality(set[o]) = Len(Chain(d, o.cl))
                      /\ o.dir \/ o.sz <= Slots * Cardinality(set[o])
                      /\ set[o] \cap root = {}
     /\ \A o, r \in os : o.at # r.at => set[o] \cap set[r] = {}

\* No cluster belongs to two objects, and no object holds a free cluster:
\* neither in the volume as the program sees it nor on the card as a loss of
\* power would leave it, whatever calls failed half way, except where a
\* rename, a truncation or the growth of a directory was itself interrupted.
NoCrossLinks ==
  hurt = {} =>
    /\ fs.mounted => SoundChains(ViewOf(Vol(-1)), InUseOf(Vol(-1)))
    /\ cut = {} => SoundChains(disk, OnCard(disk))

\* Without mishaps nothing leaks: with all files closed every allocated
\* cluster belongs to the root directory or to an object, and the free count
\* FatFs keeps (when it knows one) is exact.
NothingIsLost ==
  clean /\ fs.mounted /\ (\A h \in Handles : ~fil[h].live) =>
    LET view == ViewOf(Vol(-1))
        used == {c \in Clusters : view[FatSect][c] # 0}
    IN /\ used = UNION ({ChainSet(view, Root)} \cup {ChainSet(view, o.cl) : o \in OnCard(view)})
       /\ fs.free \in {NClust - Cardinality(used), Unknown}

\* The volume keeps the promise of FileStore: a call that succeeds has its
\* effect and no other, one that refuses has none, and a failed transfer or a
\* loss of power changes nothing but the objects that were being changed.
Abstract == INSTANCE FileStore
ImplementsFileStore == Abstract!Spec

\* A read returns what the file holds, whether the sector is on the card, in
\* the window, or partly in each; and short only at the end of the file.
ReadsWhatIsThere ==
  [][did'.op = "read" /\ did'.res = "OK" =>
       LET data == store[did'.path].data
           got  == did'.out
       IN /\ \A i \in 1 .. Len(got) : got[i].id = data[did'.at + i]
          /\ Len(got) = MinOf(did'.val, MaxOf(0, Len(data) - did'.at))]_vars

\* The volume is reported full only when it is: a short write or a refusal
\* for lack of space happens only with no cluster free.
FullMeansFull ==
  [][clean' /\ did'.op = "write" /\ did'.res = "OK" /\ did'.val < did'.want =>
       \A c \in Clusters : ViewOf(Vol(-1))'[FatSect][c] # 0]_vars

\* The working directory always exists: it cannot be removed under the caller.
CwdExists ==
  hurt = {} /\ fs.mounted /\ fs.cdir # 0 =>
    \E o \in Objects(ViewOf(Vol(-1))) : o.e.attr = "dir" /\ o.e.cl = fs.cdir

\* The three together: what the volume and its bookkeeping look like at any time
\* (ff.c: the FAT, the directories and the file objects agree).
VolumeIsSound == TypeOK /\ NoCrossLinks /\ CwdExists

\* Every call does what FileStore says, a read returns what FileStore holds, and
\* a write is short only on a full volume (f_open, f_read, f_write, f_unlink,
\* f_rename and the others of ff.c).
CallsDoWhatTheyPromise == ImplementsFileStore /\ ReadsWhatIsThere /\ FullMeansFull
=============================================================================

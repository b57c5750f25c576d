----------------------------- MODULE FileStore -----------------------------
(***************************************************************************)
(* What a FAT volume promises to the programs above it: a tree of named    *)
(* objects, each a directory or a file with contents.  An operation that   *)
(* reports success has had exactly its effect, one that refuses has had    *)
(* none, and neither a disk error nor a loss of power reaches an object    *)
(* that was not being changed.  FatVolume, the translation of FatFs, is    *)
(* shown to implement this module.                                         *)
(***************************************************************************)
EXTENDS Integers, Sequences

VARIABLES
  store,   \* [path -> node]: the objects of the volume below its root
  did      \* the operation of the last step, its arguments and its result

Directory == [kind |-> "dir", data |-> <<>>]
File(data) == [kind |-> "file", data |-> data]

Max2(a, b) == IF a > b THEN a ELSE b

\* A position of a file that no write has reached: its contents are whatever
\* the cluster held before.
Unwritten == "unwritten"

IsUnder(p, q) == Len(p) > Len(q) /\ SubSeq(p, 1, Len(q)) = q

\* The contents of a file grown to n units.
Grown(data, n) ==
  [i \in 1 .. Max2(n, Len(data)) |->
      IF i <= Len(data) THEN data[i] ELSE Unwritten]

Written(data, at, n, x) ==
  [i \in 1 .. Len(Grown(data, at + n)) |->
      IF i \in at + 1 .. at + n THEN x ELSE Grown(data, at + n)[i]]

Cut(data, n) == SubSeq(data, 1, IF n < Len(data) THEN n ELSE Len(data))

Without(s, p) == [q \in DOMAIN s \ {p} |-> s[q]]
With(s, p, node) == [q \in DOMAIN s \cup {p} |-> IF q = p THEN node ELSE s[q]]

\* The store after p and everything below it has moved to r.
Moved(s, p, r) ==
  LET Stays == {q \in DOMAIN s : q # p /\ ~IsUnder(q, p)}
      Old(q) == p \o SubSeq(q, Len(r) + 1, Len(q))
      Goes == {r \o SubSeq(q, Len(p) + 1, Len(q)) :
                 q \in {x \in DOMAIN s : x = p \/ IsUnder(x, p)}}
  IN [q \in Stays \cup Goes |-> IF q \in Goes THEN s[Old(q)] ELSE s[q]]

\* The effect of a successful operation d on the store s.
After(d, s) ==
  CASE d.op = "create"   -> With(s, d.path, File(<<>>))
    [] d.op = "mkdir"    -> With(s, d.path, Directory)
    [] d.op = "unlink"   -> Without(s, d.path)
    [] d.op = "rename"   -> Moved(s, d.path, d.path2)
    [] d.op = "write"    -> With(s, d.path, File(Written(s[d.path].data, d.at, d.val, d.x)))
    [] d.op = "extend"   -> With(s, d.path, File(Grown(s[d.path].data, d.val)))
    [] d.op = "truncate" -> With(s, d.path, File(Cut(s[d.path].data, d.at)))
    [] OTHER             -> s

\* t is s, with anything at the positions s leaves open.
Agrees(s, t) ==
  /\ DOMAIN s = DOMAIN t
  /\ \A p \in DOMAIN s :
        /\ s[p].kind = t[p].kind
        /\ Len(s[p].data) = Len(t[p].data)
        /\ \A i \in 1 .. Len(s[p].data) :
              s[p].data[i] \in {Unwritten, t[p].data[i]}

Touches(d, p) == \E q \in d.paths : p = q \/ IsUnder(p, q)

\* Every object the operation was not about is as it was.
OthersKept(d, s, t) ==
  \A p \in DOMAIN s \cup DOMAIN t :
     ~Touches(d, p) => p \in DOMAIN s /\ p \in DOMAIN t /\ s[p] = t[p]

Succeeds == did'.res = "OK" /\ Agrees(After(did', store), store')
Refuses  == did'.res \notin {"OK", "DISK_ERR", "POWER"} /\ Agrees(store, store')
\* d.broken: an earlier call on the same open file failed.
Breaks   == /\ did'.res \in {"DISK_ERR", "POWER"} \/ did'.op = "mount" \/ did'.broken
            /\ OthersKept(did', store, store')

\* The card comes formatted, with any tree on it.
Init == \A p \in DOMAIN store :
          Len(p) > 1 => /\ SubSeq(p, 1, Len(p) - 1) \in DOMAIN store
                        /\ store[SubSeq(p, 1, Len(p) - 1)].kind = "dir"
Next == Succeeds \/ Refuses \/ Breaks

Spec == [][Next]_<<store, did>>
=============================================================================

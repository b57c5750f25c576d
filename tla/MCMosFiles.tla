----------------------------- MODULE MCMosFiles -----------------------------
(* MosFiles on cards of three objects, with the names a, b and d and what   *)
(* REN makes of them when it runs names together.                          *)
EXTENDS MosFiles, TLC

Text(abs, segs) == [abs |-> abs, segs |-> segs]
Named(n) == [text |-> n, wild |-> FALSE, of |-> {n}]
MCAlphabet == <<"a", "b", "d", "da", "db", "dd", "dda", "ddb", "ddd">>
Star == [text |-> "*", wild |-> TRUE, of |-> {MCAlphabet[i] : i \in DOMAIN MCAlphabet}]
Arg(prefix, dir, leaf) == [prefix |-> prefix, dir |-> dir, leaf |-> leaf]
Here == Text(FALSE, << >>)
AtParent == Text(FALSE, <<"..">>)
AtTop == Text(TRUE, << >>)

MCSources == {
  Arg("", Here, Named("a")), Arg("", Here, Star), Arg("", AtParent, Star),
  Arg("p", Here, Star), Arg("", AtTop, Named("d")), Arg("", Here, Named("b"))}
MCTargets == {
  Arg("", Here, Named("d")), Arg("", Here, Named("b")), Arg("", AtParent, NoLeaf),
  Arg("", Text(FALSE, <<"d">>), NoLeaf), Arg("", Text(TRUE, <<"d">>), Named("b"))}
MCSearchPath == "p" :> <<Text(TRUE, <<"b">>), Text(TRUE, <<"d">>)>>

FileOf(x, slot) == [kind |-> "file", data |-> <<x>>, attr |-> {}, slot |-> slot]
Hidden(node) == [node EXCEPT !.attr = {"a"}]
Directory(slot) == [kind |-> "dir", data |-> << >>, attr |-> {}, slot |-> slot]
MCCards == {
  (<<"a">> :> FileOf("x", 1)) @@ (<<"d">> :> Directory(2)) @@ (<<"d", "a">> :> Hidden(FileOf("y", 1))),
  (<<"a">> :> FileOf("x", 1)) @@ (<<"b">> :> FileOf("y", 3)) @@ (<<"d">> :> Directory(2)),
  (<<"d">> :> Directory(1)) @@ (<<"d", "b">> :> Directory(1)) @@ (<<"d", "b", "a">> :> FileOf("y", 1))}

\* What of the last command the next one depends on.
Seen == <<store, cdir, cwd, files, last.looped, last.n>>
=============================================================================

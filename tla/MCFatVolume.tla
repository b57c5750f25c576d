---------------------------- MODULE MCFatVolume ----------------------------
(* A card of five clusters of four slots: the root directory, one plain    *)
(* name, two long names that compete for one short name, one directory.    *)
EXTENDS FatVolume

Plain(b) == [base |-> b, id |-> b, lfn |-> 0, loss |-> FALSE, dot |-> FALSE]
Long(i)  == [base |-> "LO", id |-> i, lfn |-> 1, loss |-> TRUE, dot |-> FALSE]
Dot(d)   == [base |-> d, id |-> d, lfn |-> 0, loss |-> FALSE, dot |-> TRUE]
At(segs) == [abs |-> TRUE, segs |-> segs]
Rel(segs) == [abs |-> FALSE, segs |-> segs]

MCChk(base, num) == num + CASE base = "LO" -> 10 [] base = "A" -> 20 [] base = "D" -> 30 [] OTHER -> 40

MCPaths == {At(<<Plain("A")>>), At(<<Long("long one")>>), At(<<Plain("D")>>),
            At(<<Plain("D"), Plain("A")>>), Rel(<<Dot(".."), Long("long two")>>)}

MCModes == {[r |-> TRUE, w |-> TRUE, create |-> "open", append |-> TRUE],
            [r |-> TRUE, w |-> TRUE, create |-> "no", append |-> FALSE],
            [r |-> FALSE, w |-> TRUE, create |-> "always", append |-> FALSE]}

MCListings == {[path |-> At(<<Plain("D")>>), pat |-> {}], [path |-> At(<< >>), pat |-> {"A"}]}

\* The card FatFs leaves behind a mkdir of D and a file A of five units.
Ent(base, attr, cl, sz) ==
  [Blank EXCEPT !.k = "sfn", !.base = base, !.attr = attr, !.cl = cl, !.sz = sz]
Fat == [c \in Clusters |-> CASE c \in {2, 3, 5} -> EOC [] c = 4 -> 5 [] OTHER -> 0]
Olds(n) == [i \in 1 .. Slots |-> IF i <= n THEN Unit("old") ELSE Junk]
Used ==
  [s \in Clusters \cup {FatSect, Fat2Sect, FsiSect, VbrSect} |->
     CASE s \in {FatSect, Fat2Sect} -> Fat
       [] s = FsiSect -> [free |-> NClust - 4, last |-> 5]
       [] s = VbrSect -> << >>
       [] s = 2 -> <<Ent("D", "dir", 3, 0), Ent("A", "file", 4, 5), Blank, Blank>>
       [] s = 3 -> <<Ent(".", "dir", 3, 0), Ent("..", "dir", 0, 0), Blank, Blank>>
       [] s = 4 -> Olds(4)
       [] s = 5 -> Olds(1)
       [] OTHER -> Olds(0)]

MCCards == {Used}

\* did tells states apart only for the properties of the step it is from, and
\* store is a function of the rest.
Seen == <<disk, fs, fil, dir, steps, mishaps, doubt, cut, hurt, clean>>
=============================================================================

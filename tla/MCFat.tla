--------------------------------- MODULE MCFat ---------------------------------
(* FAT32 with three short names, a long one, and a directory. *)
EXTENDS FAT32

Name2(a, d, s, l) == [n \in {"A", "D", "S", "LL"} |->
  CASE n = "A" -> a [] n = "D" -> d [] n = "S" -> s [] n = "LL" -> l]
MCNames == {"A", "D", "S", "LL"}
MCShort == Name2("A", "D", "S", NoShort)
MCLong == Name2(<<"A">>, <<"D">>, <<"S">>, <<"lo", "ng">>)
MCAlias == Name2("A", "D", "S", "S")
MCSum == [s \in {"A", "D", "S", ".", ".."} |->
  CASE s = "A" -> 1 [] s = "D" -> 2 [] s = "S" -> 3 [] OTHER -> 4]
MCPaths == {<<"A">>, <<"D">>, <<"D", "A">>, <<"S">>, <<"LL">>}

\* A root directory of one cluster with one long-named file of one cluster.
Empty == [i \in Slots |-> End]
RootSlots == [i \in Slots |-> CASE i = 1 -> Fragment(2, TRUE, 3, "ng")
                                [] i = 2 -> Fragment(1, FALSE, 3, "lo")
                                [] i = 3 -> Entry("file", "S", 3, 1)
                                [] OTHER -> End]
MCFormatted ==
  { [ fat |-> [c \in Clusters |-> IF c \in {2, 3} THEN EOC ELSE FREE],
      dir |-> [c \in Clusters |-> IF c = 2 THEN RootSlots ELSE Empty],
      data |-> [c \in Clusters |-> [u \in Units |-> "0"]] ] }

\* The same with a root directory that goes on in cluster 4, its first cluster full.
FullSlots == <<Entry("file", "A", 5, 0), Entry("file", "D", 6, 0)>> \o SubSeq(RootSlots, 1, 3)
LongRoot ==
  { [ fat |-> [c \in Clusters |-> CASE c = 2 -> 4 [] c \in 3 .. 6 -> EOC [] OTHER -> FREE],
      dir |-> [c \in Clusters |-> IF c = 2 THEN FullSlots ELSE Empty],
      data |-> [c \in Clusters |-> [u \in Units |-> "0"]] ] }
MoreNames == MCNames \cup {"E"}
With(f, v) == [n \in MoreNames |-> IF n = "E" THEN v ELSE f[n]]
MoreShort == With(MCShort, "E")
MoreLong == With(MCLong, <<"E">>)
MoreAlias == With(MCAlias, "E")
MoreSum == [s \in DOMAIN MCSum \cup {"E"} |-> IF s = "E" THEN 5 ELSE MCSum[s]]
MorePaths == {<<n>> : n \in MoreNames}
================================================================================

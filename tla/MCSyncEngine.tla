---------------------------- MODULE MCSyncEngine ----------------------------
(* Small instances of SyncEngine.                                          *)
EXTENDS SyncEngine, TLC

\* "r" stands for .resources.
MCWalk ==
    << <<"config">>, <<"config", "core">>, <<"config", "core", "f">>,
       <<"config", "g">>, <<"out">>, <<"out", "n">>,
       <<"projects">>, <<"projects", "a">>, <<"projects", "b">>,
       <<"projects", "d">>, <<"projects", "d", "e">>,
       <<"projects", "l">>, <<"projects", "m">>, <<"projects", "m", "n">>,
       <<"projects", "r">>, <<"projects", "r", "x">>,
       <<"top">> >>
MCProtected == {<<"projects", "r">>, <<"projects", "r", "x">>}

MCContents == {"x", "y", "z", "bin"}
MCRender == [x |-> "z", y |-> "y", z |-> "z", bin |-> "unrenderable"]

\* Links in commits.
MCLeadsTo == [to_x |-> "x", to_dir |-> "dir", to_nothing |-> "gone"]

\* Links in the data directory: to a directory elsewhere, and to a file in it.
MCLinks == <<"projects", "l">> :> <<"out", "n">> @@ <<"projects", "m">> :> <<"out">>
MCNoLinks == [p \in {} |-> <<>>]

\* A working tree: its files, and the directories that they are in.
Tree(files) ==
    LET dirs == UNION {{SubSeq(p, 1, n) : n \in 1..(Len(p) - 1)} :
                          p \in DOMAIN files}
    IN  files @@ [d \in dirs |-> "dir"]

\* Sources: s and o go to projects, c to config/core, the file f to top.
TreeX ==
    Tree(<<"s", "a">> :> "x" @@ <<"s", "b">> :> "x" @@ <<"o", "a">> :> "x"
           @@ <<"s", "m", "n">> :> "x"
           @@ <<"c", "f">> :> "x" @@ <<"f">> :> "x")
\* f is a link to a file.
TreeY ==
    Tree(<<"s", "a">> :> "to_x" @@ <<"s", "d", "e">> :> "y"
           @@ <<"s", "r", "x">> :> "x" @@ <<"o", "b">> :> "y"
           @@ <<"s", "l">> :> "y" @@ <<"c", "h">> :> "y" @@ <<"f">> :> "to_x")
\* The overlay has a binary file, and the required f is missing.
TreeBinary ==
    Tree(<<"s", "a">> :> "x" @@ <<"o", "a">> :> "bin" @@ <<"c", "f">> :> "x")
\* projects/d is a file here and a directory in TreeY.
TreeFlat ==
    Tree(<<"s", "d">> :> "x" @@ <<"o", "a">> :> "x" @@ <<"c", "f">> :> "x")
\* The overlay is gone.
TreeBare ==
    Tree(<<"s", "a">> :> "x" @@ <<"c", "f">> :> "x" @@ <<"f">> :> "x")

\* projects/a, a file in the data directory, is a directory with only a link in
\* it; the sources o and c are links themselves.
TreeLinked ==
    Tree(<<"s", "a", "l">> :> "to_x" @@ <<"s", "d", "e">> :> "x"
           @@ <<"o">> :> "to_nothing" @@ <<"c">> :> "to_dir" @@ <<"f">> :> "x")

MCTrees == {TreeX, TreeY, TreeBinary, TreeLinked}
MCTreesTypes == {TreeY, TreeFlat}
MCTreesOptional == {TreeX, TreeBare}
MCTreesPlain == {TreeX, TreeY}

Map(source, dst) ==
    [source |-> source, dst |-> dst, slash |-> FALSE, safe |-> TRUE,
     required |-> FALSE, type |-> "", template |-> FALSE]

Base == Map(<<"s">>, <<"projects">>)
Overlay == [Map(<<"o">>, <<"projects">>) EXCEPT !.template = TRUE]
Core == Map(<<"c">>, <<"config", "core">>)
Single == [Map(<<"f">>, <<"top">>) EXCEPT !.required = TRUE, !.type = "file"]

Profile(mappings, own, default, dryRun, defaultDryRun, paused) ==
    [mappings |-> mappings, excluded |-> own, dryRun |-> dryRun,
     paused |-> paused,
     defaults |-> [excluded |-> default, dryRun |-> defaultDryRun,
                   paused |-> FALSE]]

B == {<<"projects", "b">>}
AllFour == Profile(<<Base, Overlay, Core, Single>>, {}, B, Inherit, FALSE, Inherit)
DryByDefault == Profile(<<Base, Overlay, Single>>, {}, B, Inherit, TRUE, Inherit)
Reversed == Profile(<<Overlay, Base>>, B, {<<"top">>}, Own(FALSE), TRUE, Inherit)
OnHold == Profile(<<Base>>, {}, {}, Own(FALSE), FALSE, Own(TRUE))
Unsafe == Profile(<<[Base EXCEPT !.safe = FALSE]>>, {}, {}, Own(FALSE), FALSE, Inherit)

MCSpecs == {AllFour, DryByDefault, Reversed, OnHold, Unsafe}
MCOneSpec == {AllFour}
MCReversed == {Reversed}
MCSlash == {Profile(<<[Base EXCEPT !.slash = TRUE]>>, {}, {}, Inherit, FALSE, Inherit)}

MCLive ==
    [p \in {<<"config">>, <<"config", "g">>, <<"out">>, <<"projects">>,
            <<"projects", "a">>, <<"projects", "b">>, <<"projects", "d">>,
            <<"projects", "d", "e">>, <<"projects", "r">>,
            <<"projects", "r", "x">>} |->
        IF p \in {<<"config">>, <<"out">>, <<"projects">>, <<"projects", "d">>,
                  <<"projects", "r">>} THEN "dir" ELSE "y"]
MCEmpty == [p \in {} |-> "dir"]
MCGatewayFiles == {<<"projects", "a">>, <<"projects", "d", "e">>}
=============================================================================

---------------------------- MODULE MCVerityFuse ----------------------------
(* Small directories for TLC: a file of two blocks whose first one ends in  *)
(* zero, a second file in a nested directory, and an entry that was not     *)
(* recorded.                                                                *)
EXTENDS VerityFuse, TLC

MCFileInfos == << [path |-> <<"a", "b", "g">>, bytes |-> <<1, 1>>],
                  [path |-> <<"a", "f">>, bytes |-> <<1, 0, 1>>],
                  [path |-> <<"a", "h">>, bytes |-> <<>>] >>
Node(kind, object, size) == [kind |-> kind, object |-> object, size |-> size]
MCTree == (Root :> Node("dir", Root, 0))
       @@ (<<"a">> :> Node("dir", Root, 0))
       @@ (<<"a", "b">> :> Node("dir", Root, 0))
       @@ (<<"a", "b", "g">> :> Node("file", <<"a", "b", "g">>, 0))
       @@ (<<"a", "f">> :> Node("file", <<"a", "f">>, 0))
       @@ (<<"a", "h">> :> Node("file", <<"a", "h">>, 0))
       @@ (<<"a", "x">> :> Node("other", Root, 0))
       @@ (<<"a", "y">> :> Node("file", <<"a", "f">>, 0))
MCOrder == <<"b", "f", "g", "h", "x", "y", "a">>
MCListed == {<<"a">>}
MCRanges == {<<0, 3>>, <<1, 2>>, <<2, 3>>, <<3, 2>>, <<-1, 1>>}
NoRanges == {}
MCContents == {<<1>>, <<1, 0, 1>>, <<0, 0, 1>>}
NoContents == {}
MCReplacements ==
    { <<<<"a", "f">>, Absent>>,
      <<<<"a", "f">>, Node("file", <<"a", "b", "g">>, 0)>>,
      <<<<"a", "f">>, Node("link", <<"a", "b", "g">>, 3)>>,
      <<<<"a", "h">>, Node("other", Root, 0)>>,
      <<<<"a">>, Node("file", <<"a", "f">>, 0)>>,
      <<<<"a">>, Absent>> }
NoReplacements == {}
=============================================================================

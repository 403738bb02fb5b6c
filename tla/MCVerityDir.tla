---------------------------- MODULE MCVerityDir -----------------------------
(* Two files; the first two contents share a Merkle tree.                   *)
EXTENDS VerityDir
MCPaths == <<"a", "d/b">>
MCContents == { [tree |-> <<"t1", 0>>, size |-> 1], [tree |-> <<"t1", 0>>, size |-> 2],
                [tree |-> <<"t2", 0>>, size |-> 2] }
NoNames == {}
=============================================================================

-------------------------- MODULE MCRucioCollision --------------------------
(***************************************************************************)
(* RucioArchive with the names archive() really derives (RucioName) for    *)
(* three keys of one item: n=a/a, n=a-a and n=aa, as texts.                *)
(***************************************************************************)
EXTENDS RucioArchive, Sequences

N == INSTANCE RucioName WITH Word <- {"a", "n", "empty"}, Other <- {"/"}

MCKeys == { {<< <<"n">>, <<"a", "/", "a">> >>},
            {<< <<"n">>, <<"a", "-", "a">> >>},
            {<< <<"n">>, <<"a", "a">> >>} }

MCNameOf == [k \in MCKeys |-> N!FileName(<<CHOOSE i \in k : TRUE>>)]
MCNames == {MCNameOf[k] : k \in MCKeys}
=============================================================================

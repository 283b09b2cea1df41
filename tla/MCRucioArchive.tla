--------------------------- MODULE MCRucioArchive ---------------------------
(* RucioArchive for two clients and keys of one or two items. *)
EXTENDS RucioArchive

(* Two keys whose names differ. *)
MCKeys == {{"a=1"}, {"a=1", "b=2"}}
MCNames == {"a-1", "a-1_b-2"}
MCNameOf == [k \in MCKeys |-> IF k = {"a=1"} THEN "a-1" ELSE "a-1_b-2"]
=============================================================================

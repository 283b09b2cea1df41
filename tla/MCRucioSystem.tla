---------------------------- MODULE MCRucioSystem ---------------------------
(* RucioSystem with two keys and three filters: two archiving clients       *)
(* without a reader, or one of them, with one payload, next to a reader.    *)
EXTENDS RucioSystem

CONSTANT Companion     \* the client that archives next to a reader

MCKeys == {{"a=1"}, {"a=1", "b=2"}}
MCNames == {"a-1", "a-1_b-2"}
MCNameOf == [k \in MCKeys |-> IF k = {"a=1"} THEN "a-1" ELSE "a-1_b-2"]
MCFilters == {{}, {"a=1"}, {"a=1", "b=2"}}

MCInit == SysInit /\ (api = "none" => filter = {})

MCNext ==
  /\ SysNext
  /\ api # "none" =>
       /\ \A c \in Clients \ {Companion} : pc'[c] = "idle"
       /\ job'[Companion].data = job[Companion].data

MCSpec ==
  /\ MCInit /\ [][MCNext]_sysVars
  /\ \A c \in Clients : WF_sysVars(Step(c) /\ UNCHANGED readerVars)
  /\ WF_sysVars(ReaderStep)
=============================================================================

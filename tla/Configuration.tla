--------------------------- MODULE Configuration ---------------------------
(***************************************************************************)
(* How a session gets its configuration: a Config object of pydasi that    *)
(* edits and dumps a YAML file, and processes that open sessions from that *)
(* file, or from the text of the Config, meanwhile.                        *)
(*                                                                         *)
(* A text is a sequence of lines, the schema and then the roots.  What     *)
(* dump_file writes reaches the file when it is closed; open(.., "w") had  *)
(* emptied it before.  A session opened from a path takes the size of the  *)
(* file first and reads that many bytes later.                             *)
(***************************************************************************)
EXTENDS Naturals, Sequences, SequencesExt

CONSTANTS Procs,      \* processes that open sessions
          Schemas,    \* values of the schema line
          RootLists,  \* non-empty sequences of root lines
          MaxDumps    \* bound on the runs of dump_file

ASSUME RootsAssumption == \A r \in RootLists : r \in Seq(ToSet(r)) /\ Len(r) > 0

Text(schema, roots) == <<schema>> \o roots
Texts == {Text(s, r) : s \in Schemas, r \in RootLists}
Null == <<"null">>            \* _yaml is None, and what YAML makes of that
Absent == <<"no such file">>

VARIABLES
  yaml,      \* Config._yaml
  file,      \* the content of the file
  dumping,   \* dump_file is between open() and close()
  dumps,     \* runs of dump_file so far
  opening    \* per process: how far dasi_open got

configVars == <<yaml, file, dumping, dumps, opening>>

(* dasi_open at a step, with the size or the text it has got.  quiet is     *)
(* history: the file was complete and nobody wrote to it since it was sized.*)
NotOpening == [step |-> "idle", size |-> 0, text |-> << >>, quiet |-> TRUE]

Write(text) ==
  /\ file' = text
  /\ opening' = [p \in Procs |-> IF opening[p].step = "read"
                                 THEN [opening[p] EXCEPT !.quiet = FALSE] ELSE opening[p]]

-----------------------------------------------------------------------------
(* Config.load, and default() through it. *)
Load(t) ==
  /\ ~dumping
  /\ yaml' = t
  /\ UNCHANGED <<file, dumping, dumps, opening>>

(* An empty text makes load() raise, but _yaml was replaced by None before. *)
LoadFails ==
  /\ ~dumping
  /\ yaml' = Null
  /\ UNCHANGED <<file, dumping, dumps, opening>>

(* load_file: a missing file is loaded as an empty text. Nothing removes    *)
(* the file, so that what open() reads after exists() is all that matters.  *)
LoadFile == IF file \in Texts THEN Load(file) ELSE LoadFails

(* schema() and roots() edit _yaml in place; on None they raise. *)
SetSchema(s) == yaml # Null /\ Load(Text(s, Tail(yaml)))
SetRoots(r) == yaml # Null /\ Load(Text(Head(yaml), r))

(* dump_file: open() empties or creates the file, close() writes it. *)
DumpOpen ==
  /\ ~dumping /\ dumps < MaxDumps
  /\ dumping' = TRUE /\ dumps' = dumps + 1
  /\ Write(<< >>)
  /\ UNCHANGED yaml

DumpClose ==
  /\ dumping
  /\ dumping' = FALSE
  /\ Write(yaml)
  /\ UNCHANGED <<yaml, dumps>>

(* The process dies in between: the file stays empty. *)
DumpDies ==
  /\ dumping
  /\ dumping' = FALSE /\ yaml' \in Texts
  /\ UNCHANGED <<file, dumps, opening>>

-----------------------------------------------------------------------------
Opening(p, o) ==
  /\ opening' = [opening EXCEPT ![p] = o]
  /\ UNCHANGED <<yaml, file, dumping, dumps>>

(* construct_config with the path of a file: its size is taken. *)
OpenSize(p) ==
  /\ opening[p].step = "idle" /\ file # Absent
  /\ Opening(p, [step |-> "read", size |-> Len(file), text |-> << >>, quiet |-> file \in Texts])

(* Mutant of OpenRead: a short read is not noticed, and leaves the zeros    *)
(* that resize() put there.                                                 *)
OpenReadsShort(p) ==
  /\ opening[p].step = "read"
  /\ LET size == opening[p].size
         text == [i \in 1..size |-> IF i <= Len(file) THEN file[i] ELSE "zeros"]
     IN  Opening(p, [opening[p] EXCEPT !.step = "parsed", !.text = text])

(* The file is opened and that many bytes are read; the assertion refuses a *)
(* file that has become shorter.                                            *)
OpenRead(p) ==
  /\ opening[p].step = "read"
  /\ LET size == opening[p].size
     IN  IF Len(file) < size THEN Opening(p, NotOpening)
         ELSE Opening(p, [opening[p] EXCEPT !.step = "parsed", !.text = SubSeq(file, 1, size)])

(* construct_config with a text: that of Config.dump. *)
OpenText(p) ==
  /\ opening[p].step = "idle" /\ ~dumping /\ yaml # Null
  /\ Opening(p, [step |-> "parsed", size |-> 0, text |-> yaml, quiet |-> TRUE])

(* YAML or fdb5 refuse a text that is not complete; they need not. *)
OpenFails(p) ==
  /\ opening[p].step = "parsed" /\ opening[p].text \notin Texts
  /\ Opening(p, NotOpening)

(* A Config after default(). *)
ConfigInit ==
  /\ yaml \in Texts
  /\ file \in Texts \cup {Absent}
  /\ dumping = FALSE /\ dumps = 0
  /\ opening = [p \in Procs |-> NotOpening]

ConfigNext ==
  \/ \E t \in Texts : Load(t)
  \/ LoadFails \/ LoadFile
  \/ \E s \in Schemas : SetSchema(s)
  \/ \E r \in RootLists : SetRoots(r)
  \/ DumpOpen \/ DumpClose \/ DumpDies
  \/ \E p \in Procs : OpenSize(p) \/ OpenRead(p) \/ OpenText(p) \/ OpenFails(p)

-----------------------------------------------------------------------------
(* What a session is configured from is the beginning of a text somebody    *)
(* dumped, never two texts mixed or padded, and it is the whole text unless *)
(* the file was being written, was left unfinished, or holds the null of a  *)
(* Config whose load() had failed.                                          *)
OpenedIsWritten ==
  \A p \in Procs : opening[p].step = "parsed" =>
    /\ \E t \in Texts \cup {Null} : IsPrefix(opening[p].text, t)
    /\ opening[p].quiet => opening[p].text \in Texts
=============================================================================

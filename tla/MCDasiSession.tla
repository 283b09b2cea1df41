--------------------------- MODULE MCDasiSession ---------------------------
(* DasiSession with two processes and two keys, one of which reads.         *)
EXTENDS DasiSession

CONSTANT Reader

MCRootLists == {<<"r1">>, <<"r1", "r2">>}
MCBytes == [items |-> 2, size |-> 1]
MCDoubles == [items |-> 2, size |-> 8]
MCBuffers == {MCBytes}
MCAnyBuffers == {MCBytes, MCDoubles}
MCQueries == {Keys, {CHOOSE k \in Keys : TRUE}}

MCInit == Init /\ yaml = <<"s1", "r1">> /\ file \in {yaml, Absent}

Settled == yaml = <<"s1", "r1">> /\ file = yaml /\ dumps = 0
Editing == writes = << >> /\ \A p \in Procs : session[p] = "none"
Opens(p) == session[p] = "none" /\ session'[p] = "open"

(* The configuration is edited, and its file read, only while no session is *)
(* open and nothing was archived; a session is opened with a configuration  *)
(* nobody touched.                                                          *)
ConfigFirst ==
  /\ Editing \/ UNCHANGED <<yaml, file, dumping, dumps>>
  /\ \A p \in Procs :
       /\ Opens(p) => Settled /\ \A q \in Procs : opening'[q] = NotOpening
       /\ opening'[p].step # "idle" =>
            Editing \/ (p # Reader /\ OpenText(p)) \/ UNCHANGED opening[p]

(* The reader lists, retrieves and, without doit, wipes both keys.          *)
ReaderReads ==
  /\ pending'[Reader] = << >> /\ session'[Reader] \in {"none", "open"}
  /\ handle'[Reader].kind # "purge" /\ handle'[Reader].query \in {{}, Keys}
  /\ handle'[Reader].kind = "wipe" => ~handle'[Reader].doit

(* The other process does everything else: it archives, puts, flushes,      *)
(* closes, crashes, and wipes or purges a key with doit, all of it next to  *)
(* a handle of the reader; it wipes both keys while the reader has none.    *)
WriterDoes(p) ==
  LET h == handle'[p]
  IN  /\ h.kind \in {"none", "wipe", "purge"}
      /\ h.kind # "none" => h.doit
      /\ h.query = Keys => h.kind = "wipe" /\ handle'[Reader] = NoHandle

MCNext ==
  /\ Next
  /\ ConfigFirst /\ ReaderReads /\ \A p \in Procs \ {Reader} : WriterDoes(p)

MCSpec == MCInit /\ [][MCNext]_vars
=============================================================================

---------------------------- MODULE DasiSession ----------------------------
(***************************************************************************)
(* Sessions of several processes over one fdb store: archive, flush,       *)
(* close, retrieve, list, wipe and purge, from C, from Python or from the  *)
(* command line tools, one of which (dasi-put) archives and exits without  *)
(* a flush.                                                                *)
(*                                                                         *)
(* DASI forwards to fdb5, which is external and modelled by what DASI and  *)
(* its tests rely on.  An object handed to archive() stays pending until   *)
(* fdb5 publishes it, at the latest in flush() or in the destructor of the *)
(* session.  The table of contents is a log: the newest entry about a key  *)
(* says which object is accessible.  fdb5 visits the keys of a query one   *)
(* after another, while other processes work: in the background of a list, *)
(* wipe or purge handle, but before retrieve() returns.                    *)
(***************************************************************************)
EXTENDS Configuration, FiniteSets

CONSTANTS Keys,
          Queries,    \* non-empty sets of keys
          Buffers,    \* what archive() is given: [items, size of an item]
          MaxWrites   \* bound on the calls of archive()

ASSUME SessionAssumption ==
  Queries \subseteq SUBSET Keys /\ Buffers \subseteq [items : Nat, size : Nat] /\ MaxWrites \in Nat

VARIABLES
  log,       \* external: the table of contents, [key, object], object 0 for a wipe
  gone,      \* external: the objects whose data files were removed
  writes,    \* history: the objects handed to archive(): key, bytes, bytes kept
  session,   \* per process: "none", "open", "flushing" or "closing"
  pending,   \* per process: objects not yet published, in order
  mine,      \* per process, history: objects archived since the last flush
  promised,  \* history: objects of a flush() or close that returned
  handle,    \* per process: the query handle it has, see Handle
  rest,      \* per process: the keys its handle has still to visit
  found,     \* per process: objects found, not yet handed out
  given      \* per process: objects next() handed out or raised for

storeVars == <<log, gone>>
sessionVars == <<writes, session, pending, mine, promised>>
handleVars == <<handle, rest, found, given>>
vars == <<configVars, storeVars, sessionVars, handleVars>>

Idle(p) == session[p] = "open" /\ handle[p].phase # "call"

Objects == 1..Len(writes)
KeyOf(o) == writes[o].key

(* A handle: what was asked, and as history the length of the log when the  *)
(* call began and when a retrieve() returned, and what was promised before. *)
(* RetrieveResultImpl drains fdb5's iterator in its constructor; the other  *)
(* calls leave it running behind the handle they return.                    *)
Handle(kind, doit, query) ==
  [kind |-> kind, doit |-> doit, query |-> query,
   phase |-> IF kind = "retrieve" THEN "call" ELSE "open",
   start |-> Len(log), end |-> 0, due |-> IF kind \in {"retrieve", "list"} THEN promised ELSE {}]
NoHandle == [kind |-> "none", phase |-> "none", query |-> {}]

(* The accessible object of a key when the log had n entries, or 0. *)
NewestAt(k, n) ==
  LET about == {i \in 1..n : log[i].key = k}
  IN  IF about = {} THEN 0 ELSE log[CHOOSE i \in about : \A j \in about : j <= i].object
Newest(k) == NewestAt(k, Len(log))

Published == {log[i].object : i \in DOMAIN log} \ {0}
Publish(k, o) == log' = Append(log, [key |-> k, object |-> o])

(* The objects of a key that were published, and those among them that a    *)
(* newer one masks.                                                         *)
Stored(k) == {o \in Published : KeyOf(o) = k}
Masked(k) == Stored(k) \ {Newest(k)}

-----------------------------------------------------------------------------
(* dasi_open, Dasi() or the first dasi() of a tool, configured. *)
Open(p) ==
  /\ session[p] = "none" /\ opening[p].step = "parsed"
  /\ session' = [session EXCEPT ![p] = "open"]
  /\ opening' = [opening EXCEPT ![p] = NotOpening]
  /\ UNCHANGED <<yaml, file, dumping, dumps, storeVars, writes, pending, mine, promised, handleVars>>

(* An object is handed over with its length; fdb5 takes a copy. *)
HandOver(p, k, bytes, length) ==
  /\ Idle(p) /\ Len(writes) < MaxWrites
  /\ writes' = Append(writes, [key |-> k, bytes |-> bytes, kept |-> length])
  /\ pending' = [pending EXCEPT ![p] = Append(@, Len(writes) + 1)]
  /\ mine' = [mine EXCEPT ![p] = @ \cup {Len(writes) + 1}]
  /\ UNCHANGED <<configVars, storeVars, session, promised, handleVars>>

(* Dasi.archive of pydasi passes len(data), the number of items of the      *)
(* buffer, for the length in bytes.                                         *)
Archive(p, k, b) == HandOver(p, k, b.items * b.size, b.items)

(* dasi-put archives what is in a file. *)
Put(p, k, b) == HandOver(p, k, b.items * b.size, b.items * b.size)

(* fdb5 publishes the oldest pending object of a session. *)
PublishNext(p) ==
  /\ session[p] # "none" /\ pending[p] # << >>
  /\ Publish(KeyOf(Head(pending[p])), Head(pending[p]))
  /\ pending' = [pending EXCEPT ![p] = Tail(@)]
  /\ UNCHANGED <<configVars, gone, writes, session, mine, promised, handleVars>>

(* flush(), or the destructor of the session, which flushes as well. *)
Begin(p, stage) ==
  /\ Idle(p)
  /\ session' = [session EXCEPT ![p] = stage]
  /\ UNCHANGED <<configVars, storeVars, writes, pending, mine, promised, handleVars>>

Returns(p, stage, next) ==
  /\ session[p] = stage
  /\ session' = [session EXCEPT ![p] = next]
  /\ promised' = promised \cup mine[p]
  /\ mine' = [mine EXCEPT ![p] = {}]
  /\ UNCHANGED <<configVars, storeVars, writes, handleVars>>

Flush(p) == Begin(p, "flushing")
FlushReturns(p) ==
  pending[p] = << >> /\ Returns(p, "flushing", "open") /\ UNCHANGED pending

(* flush() raises; what is pending stays so. *)
FlushFails(p) ==
  /\ session[p] = "flushing"
  /\ session' = [session EXCEPT ![p] = "open"]
  /\ UNCHANGED <<configVars, storeVars, writes, pending, mine, promised, handleVars>>

(* dasi_close, the finalizer of a Dasi object or the end of a tool; handles *)
(* of the session are freed before.                                         *)
Close(p) == handle[p] = NoHandle /\ Begin(p, "closing")

(* Mutant of CloseReturns: what was not flushed is dropped. *)
CloseDrops(p) ==
  /\ Returns(p, "closing", "none")
  /\ pending' = [pending EXCEPT ![p] = << >>]

CloseReturns(p) ==
  pending[p] = << >> /\ Returns(p, "closing", "none") /\ UNCHANGED pending

(* The process dies, or ends without running the finalizer; an exception of *)
(* the flush in the destructor ends it too.                                 *)
Crash(p) ==
  /\ session[p] # "none"
  /\ session' = [session EXCEPT ![p] = "none"]
  /\ pending' = [pending EXCEPT ![p] = << >>]
  /\ mine' = [mine EXCEPT ![p] = {}]
  /\ handle' = [handle EXCEPT ![p] = NoHandle]
  /\ rest' = [rest EXCEPT ![p] = {}] /\ found' = [found EXCEPT ![p] = {}]
  /\ given' = [given EXCEPT ![p] = {}]
  /\ UNCHANGED <<configVars, storeVars, writes, promised>>

-----------------------------------------------------------------------------
(* retrieve(), list(), wipe() or purge() is called. *)
Call(p, kind, doit, query) ==
  /\ session[p] = "open" /\ handle[p] = NoHandle
  /\ handle' = [handle EXCEPT ![p] = Handle(kind, doit, query)]
  /\ rest' = [rest EXCEPT ![p] = query]
  /\ UNCHANGED <<configVars, storeVars, sessionVars, found, given>>

(* fdb5's iterator visits a key of the query. *)
Visits(p, k, objects) ==
  /\ rest' = [rest EXCEPT ![p] = @ \ {k}]
  /\ found' = [found EXCEPT ![p] = @ \cup objects]
  /\ UNCHANGED <<configVars, sessionVars, handle, given>>

(* retrieve and list: the accessible object is found. *)
VisitList(p, k) ==
  /\ handle[p].kind \in {"retrieve", "list"}
  /\ Visits(p, k, {Newest(k)} \ {0})
  /\ UNCHANGED storeVars

(* Mutant of VisitWipe: doit is taken for granted. *)
VisitWipeAlways(p, k) ==
  /\ handle[p].kind = "wipe"
  /\ Visits(p, k, {})
  /\ \/ Newest(k) # 0 /\ Publish(k, 0) /\ gone' = gone \cup Stored(k)
     \/ Newest(k) = 0 /\ UNCHANGED storeVars

(* wipe: the key's data and index are removed when doit is set (a key stands*)
(* for what the first two levels of the schema tell apart).  What next()    *)
(* reports, names of files, is left out.                                    *)
VisitWipe(p, k) ==
  /\ handle[p].kind = "wipe"
  /\ Visits(p, k, {})
  /\ \/ handle[p].doit /\ Newest(k) # 0 /\ Publish(k, 0) /\ gone' = gone \cup Stored(k)
     \/ (~handle[p].doit \/ Newest(k) = 0) /\ UNCHANGED storeVars

(* purge: files whose data are all masked are removed when doit is set. *)
VisitPurge(p, k) ==
  /\ handle[p].kind = "purge"
  /\ Visits(p, k, {})
  /\ \E objects \in IF handle[p].doit THEN SUBSET Masked(k) ELSE {{}} : gone' = gone \cup objects
  /\ UNCHANGED log

Visit(p) ==
  \E k \in rest[p] : VisitList(p, k) \/ VisitWipe(p, k) \/ VisitPurge(p, k)

(* Mutant of RetrieveReturns: the rest is left for later. *)
ReturnsEarly(p) ==
  /\ handle[p].phase = "call"
  /\ handle' = [handle EXCEPT ![p].phase = "open", ![p].end = Len(log)]
  /\ UNCHANGED <<configVars, storeVars, sessionVars, rest, found, given>>

(* retrieve() returns when everything is drained. *)
RetrieveReturns(p) ==
  /\ handle[p].phase = "call" /\ rest[p] = {}
  /\ handle' = [handle EXCEPT ![p].phase = "open", ![p].end = Len(log)]
  /\ UNCHANGED <<configVars, storeVars, sessionVars, rest, found, given>>

(* next() hands out an object; a retrieved one whose file is gone raises.   *)
HandleNext(p) ==
  /\ handle[p].phase = "open"
  /\ \E o \in found[p] :
       /\ found' = [found EXCEPT ![p] = @ \ {o}]
       /\ given' = [given EXCEPT ![p] = @ \cup {o}]
  /\ UNCHANGED <<configVars, storeVars, sessionVars, handle, rest>>

(* Mutant of HandleStops: the end is reported while keys are unvisited. *)
StopsEarly(p) ==
  /\ handle[p].phase = "open" /\ found[p] = {}
  /\ handle' = [handle EXCEPT ![p].phase = "stopped"]
  /\ UNCHANGED <<configVars, storeVars, sessionVars, rest, found, given>>

HandleStops(p) ==
  /\ handle[p].phase = "open" /\ found[p] = {} /\ rest[p] = {}
  /\ handle' = [handle EXCEPT ![p].phase = "stopped"]
  /\ UNCHANGED <<configVars, storeVars, sessionVars, rest, found, given>>

(* The handle is freed, at its end or before: fdb5's iterator stops. *)
Free(p) ==
  /\ handle[p].phase \in {"open", "stopped"}
  /\ handle' = [handle EXCEPT ![p] = NoHandle]
  /\ rest' = [rest EXCEPT ![p] = {}] /\ found' = [found EXCEPT ![p] = {}]
  /\ given' = [given EXCEPT ![p] = {}]
  /\ UNCHANGED <<configVars, storeVars, sessionVars>>

-----------------------------------------------------------------------------
Init ==
  /\ ConfigInit
  /\ log = << >> /\ gone = {} /\ writes = << >> /\ promised = {}
  /\ session = [p \in Procs |-> "none"]
  /\ pending = [p \in Procs |-> << >>]
  /\ mine = [p \in Procs |-> {}]
  /\ handle = [p \in Procs |-> NoHandle]
  /\ rest = [p \in Procs |-> {}]
  /\ found = [p \in Procs |-> {}]
  /\ given = [p \in Procs |-> {}]

Calls(p) ==
  \E q \in Queries :
    \/ Call(p, "retrieve", FALSE, q) \/ Call(p, "list", FALSE, q)
    \/ \E doit \in BOOLEAN : Call(p, "wipe", doit, q) \/ Call(p, "purge", doit, q)

(* fdb5 publishes and answers; it searches; and the caller iterates. *)
Answer(p) == PublishNext(p) \/ FlushReturns(p) \/ CloseReturns(p)
Search(p) == Visit(p) \/ RetrieveReturns(p)
Iterate(p) == HandleNext(p) \/ HandleStops(p)

Next ==
  \/ ConfigNext /\ UNCHANGED <<storeVars, sessionVars, handleVars>>
  \/ \E p \in Procs :
       \/ Open(p) \/ Flush(p) \/ FlushFails(p) \/ Close(p) \/ Crash(p)
       \/ \E k \in Keys, b \in Buffers : Archive(p, k, b) \/ Put(p, k, b)
       \/ Calls(p) \/ Free(p)
       \/ Answer(p) \/ Search(p) \/ Iterate(p)

Spec == Init /\ [][Next]_vars

-----------------------------------------------------------------------------
(* Type invariant of the sessions (a handle without its history). *)
TypeOK ==
  /\ log \in Seq([key : Keys, object : 0..MaxWrites])
  /\ gone \subseteq Objects /\ promised \subseteq Objects
  /\ writes \in Seq([key : Keys, bytes : Nat, kept : Nat])
  /\ session \in [Procs -> {"none", "open", "flushing", "closing"}]
  /\ pending \in [Procs -> Seq(Objects)]
  /\ mine \in [Procs -> SUBSET Objects]
  /\ \A p \in Procs : handle[p] = NoHandle \/ handle[p].kind \in {"retrieve", "list", "wipe", "purge"}
  /\ rest \in [Procs -> SUBSET Keys]
  /\ found \in [Procs -> SUBSET Objects] /\ given \in [Procs -> SUBSET Objects]

Wiped(o) ==
  \E i, j \in DOMAIN log :
    i < j /\ log[i].object = o /\ log[j] = [key |-> KeyOf(o), object |-> 0]

Reads(p) == handle[p].kind \in {"retrieve", "list"}

(* What was archived before a flush() that returned, or by a session that   *)
(* ended without one (dasi-put), is accessible: a list() or retrieve()      *)
(* called afterwards, by whatever process, hands out an object of its key,  *)
(* unless somebody wipes it.                                                *)
FlushedIsFound ==
  \A p \in Procs : Reads(p) /\ handle[p].phase = "stopped" =>
    \A o \in handle[p].due :
      \/ KeyOf(o) \notin handle[p].query
      \/ Wiped(o)
      \/ \E g \in given[p] : KeyOf(g) = KeyOf(o)

(* Nobody is given an object that was masked or wiped before the call, and  *)
(* a retrieve() that has returned finds nothing that is archived later.     *)
ItemsAreOfCall ==
  \A p \in Procs : Reads(p) =>
    \A o \in found[p] \cup given[p] :
      \E i \in DOMAIN log :
        /\ log[i].object = o
        /\ \A j \in i + 1..handle[p].start : log[j].key # KeyOf(o)
        /\ handle[p].kind = "retrieve" /\ handle[p].phase # "call" => i <= handle[p].end

(* A wipe with doit that was iterated to its end left no data of what was   *)
(* stored under its query when it was called.                               *)
WipedIsGone ==
  \A p \in Procs : handle[p].kind = "wipe" /\ handle[p].phase = "stopped" /\ handle[p].doit =>
    \A i \in 1..handle[p].start :
      log[i].key \in handle[p].query => log[i].object \in gone \cup {0}

(* Only a wipe or purge with doit removes anything, nothing outside its     *)
(* query, and never the data of an object that stays accessible.            *)
RemovedAsAsked ==
  [][/\ \A o \in gone' \ gone :
          \E p \in Procs : handle[p].kind \in {"wipe", "purge"} /\ handle[p].doit
                          /\ KeyOf(o) \in handle[p].query
     /\ \A k \in Keys : Newest(k)' \notin gone']_vars

(* The data kept are all the bytes of the buffer (Dasi.archive: "A pointer  *)
(* to a (read-only) copy of the data"; dasi_c.h: "Length of "data" in       *)
(* bytes").                                                                 *)
ArchivedIsWhole == \A o \in Objects : writes[o].kept = writes[o].bytes
=============================================================================

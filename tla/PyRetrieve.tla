----------------------------- MODULE PyRetrieve -----------------------------
(***************************************************************************)
(* pydasi's Retrieve iterator on top of the C handle of RetrieveHandle.    *)
(*                                                                         *)
(* Retrieve.__next__ makes three C calls: dasi_retrieve_next,              *)
(* dasi_retrieve_attrs, and dasi_retrieve_read for as many bytes as the    *)
(* attributes announce.  The item pairs the key of the element cursor with *)
(* the bytes of the stream cursor, so it is right only while the two       *)
(* cursors agree.  An error code of any of the calls is raised as a        *)
(* DASIException by the wrapper of PatchedLib and leaves the iterator as   *)
(* it stands; a caller may catch it and call next() again.                 *)
(***************************************************************************)
EXTENDS RetrieveHandle

VARIABLES
  pc,       \* the C call __next__ makes next; "idle" between calls of next(),
            \* "new" before the object exists, "c client" if pydasi is not used
  length,   \* the length cell of __read, set by dasi_retrieve_attrs
  items,    \* the RetrieveItems returned to the caller so far
  raised,   \* the elements for which next() raised a DASIException
  stopped   \* next() has raised StopIteration

pyVars == <<pc, length, items, raised, stopped>>
vars == <<handleVars, pyVars>>

(* What a RetrieveItem holds: the element its key comes from, the stream    *)
(* bytes lo .. hi - 1 in its data, the size of the bytearray and the length *)
(* attribute.                                                               *)
Item == [elem : Nat, lo : Nat, hi : Nat, size : Nat, length : Nat]

(* Retrieve.__init__: a fresh handle for a query with result r. *)
PyInit(r) ==
  /\ live = TRUE
  /\ values = r
  /\ iter = 1
  /\ \/ Len(r) = 0 /\ done = TRUE /\ elem = 0
     \/ Len(r) # 0 /\ done = FALSE /\ elem = 1
  /\ first = TRUE
  /\ dh = "none"
  /\ pos = 0
  /\ last = [call |-> "create", rc |-> "SUCCESS"]
  /\ out = [lo |-> 0, hi |-> 0]
  /\ visited = 0
  /\ seen = 0
  /\ ioFailed = FALSE
  /\ pc = "idle"
  /\ length = 0
  /\ items = << >>
  /\ raised = {}
  /\ stopped = FALSE

Init == \E r \in Results : PyInit(r)

(* Mutant of CallNext: StopIteration is decided before the call, from the   *)
(* number of elements, and the last element is dropped.                     *)
StopsOneEarly ==
  /\ pc = "idle"
  /\ RetrieveNext
  /\ IF last'.rc = "ITERATION_COMPLETE" \/ visited' = Len(values)
       THEN stopped' = TRUE /\ UNCHANGED pc
       ELSE pc' = "attrs" /\ UNCHANGED stopped
  /\ UNCHANGED <<length, items, raised>>

(* The caller calls next(): dasi_retrieve_next, StopIteration when it       *)
(* reports completion.                                                      *)
CallNext ==
  /\ pc = "idle"
  /\ RetrieveNext
  /\ \/ /\ last'.rc = "ITERATION_COMPLETE"
        /\ stopped' = TRUE
        /\ UNCHANGED pc
     \/ /\ last'.rc = "SUCCESS"
        /\ pc' = "attrs"
        /\ UNCHANGED stopped
  /\ UNCHANGED <<length, items, raised>>

(* The wrapper of PatchedLib turns an error code into a DASIException,      *)
(* which ends this call of next().                                          *)
Raise ==
  /\ pc' = "idle"
  /\ raised' = raised \cup {elem}
  /\ UNCHANGED items

(* dasi_retrieve_attrs fills the key and length cells.  Its assertion that  *)
(* the iterator is not at the end cannot fail here (the step would be       *)
(* disabled, a deadlock): dasi_retrieve_next has just succeeded.            *)
CallAttrs ==
  /\ pc = "attrs"
  /\ RetrieveAttrs
  /\ last'.rc = "SUCCESS"
  /\ length' = Length(values, elem)
  /\ pc' = "read"
  /\ UNCHANGED <<items, raised, stopped>>

(* Mutant of CallRead: the buffer is one byte larger than the element. *)
ReadsTooMuch ==
  /\ pc = "read"
  /\ RetrieveRead(length + 1)
  /\ \/ last'.rc \notin {"SUCCESS", "ITERATION_COMPLETE"} /\ Raise /\ UNCHANGED length
     \/ /\ last'.rc \in {"SUCCESS", "ITERATION_COMPLETE"}
        /\ length' = out'.hi - out'.lo
        /\ items' = Append(items, [elem |-> elem, lo |-> out'.lo, hi |-> out'.hi,
                                   size |-> length + 1, length |-> length'])
        /\ pc' = "idle"
        /\ UNCHANGED raised
  /\ UNCHANGED stopped

(* Mutant of CallRead: an exception restarts the reading of the same item. *)
ReadRetries ==
  /\ pc = "read"
  /\ RetrieveRead(length)
  /\ \/ /\ last'.rc \notin {"SUCCESS", "ITERATION_COMPLETE"}
        /\ UNCHANGED <<pc, length, items, raised>>
     \/ /\ last'.rc \in {"SUCCESS", "ITERATION_COMPLETE"}
        /\ length' = out'.hi - out'.lo
        /\ items' = Append(items, [elem |-> elem, lo |-> out'.lo, hi |-> out'.hi,
                                   size |-> length, length |-> length'])
        /\ pc' = "idle"
        /\ UNCHANGED raised
  /\ UNCHANGED stopped

(* bytearray(length) is filled by dasi_retrieve_read, which also overwrites *)
(* the length cell with the number of bytes copied; ITERATION_COMPLETE is   *)
(* not an error for the wrapper and is not looked at here.                  *)
CallRead ==
  /\ pc = "read"
  /\ RetrieveRead(length)
  /\ \/ /\ last'.rc \notin {"SUCCESS", "ITERATION_COMPLETE"}
        /\ Raise
        /\ UNCHANGED length
     \/ /\ last'.rc \in {"SUCCESS", "ITERATION_COMPLETE"}
        /\ length' = out'.hi - out'.lo
        /\ items' = Append(items, [elem |-> elem, lo |-> out'.lo, hi |-> out'.hi,
                                   size |-> length, length |-> length'])
        /\ pc' = "idle"
        /\ UNCHANGED raised
  /\ UNCHANGED stopped

Next == CallNext \/ CallAttrs \/ CallRead

Spec == Init /\ [][Next]_vars

(* A caller that drains the iterator keeps calling next(), and no C call    *)
(* blocks.                                                                  *)
FairSpec == Spec /\ WF_vars(Next)

(* Retrieve.__init__: dasi_retrieve makes the handle. *)
PyCreate ==
  /\ pc = "new"
  /\ \E r \in Results : Create(r)
  /\ pc' = "idle"
  /\ UNCHANGED <<length, items, raised, stopped>>

(* The same from before the object exists, and next to a C client, who may  *)
(* make any calls in any order: a handle is driven by one or by the other.  *)
AnyInit ==
  /\ HandleInit
  /\ pc \in {"new", "c client"}
  /\ length = 0 /\ items = << >> /\ raised = {} /\ stopped = FALSE

AnyNext ==
  \/ PyCreate \/ Next
  \/ pc = "c client" /\ HandleNext /\ UNCHANGED pyVars

AnySpec == AnyInit /\ [][AnyNext]_vars /\ WF_vars(Next)

-----------------------------------------------------------------------------
(* Type invariant of the iterator. *)
TypeOK ==
  /\ HandleTypeOK
  /\ pc \in {"c client", "new", "idle", "attrs", "read"}
  /\ length \in Nat
  /\ items \in Seq(Item)
  /\ raised \subseteq 1..Len(values)
  /\ stopped \in BOOLEAN

(* The data of every RetrieveItem are exactly the bytes of the object its   *)
(* key names, however many empty objects (whose read is refused by the C    *)
(* assertion on the length) came before it, as long as no read failed.      *)
ItemsOwnBytes ==
  ~ioFailed =>
    \A k \in 1..Len(items) :
      /\ items[k].lo = Begin(values, items[k].elem)
      /\ items[k].hi = End(values, items[k].elem)
      /\ items[k].size = items[k].length

(* Items come in result order and none twice. *)
ItemsInOrder ==
  \A j, k \in 1..Len(items) : j < k => items[j].elem < items[k].elem

(* When next() raises StopIteration every element of the result was either  *)
(* returned or had its exception, even if reads failed on the way: an       *)
(* exception costs one element and never silently a second one.             *)
AllAccountedFor ==
  stopped => {items[k].elem : k \in 1..Len(items)} \cup raised = 1..Len(values)

(* Without read errors next() raises for the empty objects and only for     *)
(* them.                                                                    *)
RaisesOnlyEmpty ==
  ~ioFailed => \A i \in raised : Length(values, i) = 0

(* After StopIteration next() raises StopIteration forever and yields       *)
(* nothing more.                                                            *)
StopIsFinal == [][stopped => stopped' /\ items' = items /\ raised' = raised]_vars

(* A caller that keeps calling next() reaches StopIteration, whatever fails. *)
IterationEnds == pc = "idle" ~> stopped
=============================================================================

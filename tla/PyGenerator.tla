----------------------------- MODULE PyGenerator ----------------------------
(***************************************************************************)
(* pydasi's List and Wipe iterators on top of the C handles of             *)
(* GeneratorHandle.                                                        *)
(*                                                                         *)
(* List.__next__ calls dasi_list_next and dasi_list_attrs and returns a    *)
(* ListItem that owns copies.  Wipe.__next__ calls dasi_wipe_next and      *)
(* dasi_wipe_get_value and returns the iterator itself; its value property *)
(* dereferences, whenever it is read, the pointer the last get_value gave. *)
(* A caller may catch the DASIException of a failed call and go on.        *)
(***************************************************************************)
EXTENDS GeneratorHandle, Sequences

VARIABLES
  pc,        \* the C call __next__ makes next; "idle" between calls of next(),
             \* "new" before the object exists, "c client" if pydasi is not used
  items,     \* what next() returned so far: the element of its key and uri
  stopped    \* next() has raised StopIteration

pyVars == <<pc, items, stopped>>
allVars == <<vars, pyVars>>

(* A handle is driven by a C client, or by pydasi from "new" on. *)
PyInit ==
  /\ Init
  /\ pc \in {"c client", "new"}
  /\ items = << >>
  /\ stopped = FALSE

(* List.__init__ / Wipe.__init__: the handle for a query with n elements,   *)
(* or the DASIException of a query that failed.                             *)
PyCreate ==
  /\ pc = "new"
  /\ \/ /\ \E k \in {"list", "wipe"}, n \in 0..MaxElements : Create(k, n)
        /\ pc' = "idle"
     \/ CreateFails /\ UNCHANGED pc
  /\ UNCHANGED <<items, stopped>>

(* Mutant of CallNext: a DASIException is taken for the end. *)
ErrorStops ==
  /\ pc = "idle"
  /\ ListNext \/ WipeNext
  /\ \/ last'.rc # "SUCCESS" /\ stopped' = TRUE /\ UNCHANGED pc
     \/ last'.rc = "SUCCESS" /\ pc' = "read" /\ UNCHANGED stopped
  /\ UNCHANGED items

(* Mutant of CallNext: next() retries the C call as long as it reports the  *)
(* end.                                                                     *)
NeverStops ==
  /\ pc = "idle"
  /\ ListNext \/ WipeNext
  /\ \/ last'.rc # "SUCCESS" /\ UNCHANGED <<pc, stopped>>
     \/ last'.rc = "SUCCESS" /\ pc' = "read" /\ UNCHANGED stopped
  /\ UNCHANGED items

(* The caller calls next(): dasi_list_next or dasi_wipe_next; completion    *)
(* raises StopIteration, an error code a DASIException.                     *)
CallNext ==
  /\ pc = "idle"
  /\ ListNext \/ WipeNext
  /\ \/ last'.rc = "ITERATION_COMPLETE" /\ stopped' = TRUE /\ UNCHANGED pc
     \/ last'.rc = "ERROR" /\ UNCHANGED <<pc, stopped>>
     \/ last'.rc = "SUCCESS" /\ pc' = "read" /\ UNCHANGED stopped
  /\ UNCHANGED items

(* List.__read: dasi_list_attrs, whose assertion cannot fail right after a  *)
(* success of dasi_list_next (it would be a deadlock here).                 *)
ReadListItem ==
  /\ pc = "read"
  /\ ListAttrs
  /\ last'.rc = "SUCCESS"
  /\ items' = Append(items, [key |-> elem, uri |-> uriCache])
  /\ pc' = "idle"
  /\ UNCHANGED stopped

(* Mutant of ReadWipeValue: the pointer is fetched once and kept. *)
WipeValueFetchedOnce ==
  /\ pc = "read"
  /\ IF pointer = 0 THEN WipeGetValue
                    ELSE kind = "wipe" /\ UNCHANGED vars
  /\ items' = Append(items, [key |-> elem, uri |-> elem])
  /\ pc' = "idle"
  /\ UNCHANGED stopped

(* The rest of Wipe.__next__: dasi_wipe_get_value refreshes the pointer. *)
ReadWipeValue ==
  /\ pc = "read"
  /\ WipeGetValue
  /\ last'.rc = "SUCCESS"
  /\ items' = Append(items, [key |-> pointer', uri |-> pointer'])
  /\ pc' = "idle"
  /\ UNCHANGED stopped

Iterate == CallNext \/ ReadListItem \/ ReadWipeValue

PyNext ==
  \/ PyCreate \/ Iterate
  \/ pc = "c client" /\ Next /\ UNCHANGED pyVars

PySpec == PyInit /\ [][PyNext]_allVars

(* A caller that keeps calling next(); no C call blocks, and an fdb5        *)
(* iterator throws finitely often (MaxThrows).                              *)
FairSpec == PySpec /\ WF_allVars(Iterate)

-----------------------------------------------------------------------------
(* Type invariant of the Python iterators. *)
PyTypeOK ==
  /\ TypeOK
  /\ pc \in {"c client", "new", "idle", "read"}
  /\ items \in Seq([key : 1..count, uri : 1..count])
  /\ stopped \in BOOLEAN

(* The k-th object next() returns describes the k-th element, with key and  *)
(* URI of the same element, even when calls in between raised.              *)
PyItemsExact == \A k \in 1..Len(items) : items[k] = [key |-> k, uri |-> k]

(* StopIteration means that every element was returned. *)
StopMeansAll == stopped => Len(items) = count

(* Between two calls of next() the pointer behind Wipe.value points into    *)
(* the string the generator holds now, never into one that a later advance  *)
(* replaced: reading value is safe also after an exception and after        *)
(* StopIteration.                                                           *)
WipeValueFresh == pc = "idle" /\ pointer # 0 => pointer = elem

(* A caller that keeps calling next() reaches StopIteration. *)
IterationEnds == pc = "idle" ~> stopped
=============================================================================

-------------------------- MODULE GeneratorHandle ---------------------------
(***************************************************************************)
(* The handles behind dasi_list, dasi_wipe and dasi_purge of the C API.    *)
(*                                                                         *)
(* Unlike a retrieve handle they are lazy: ListGeneratorImpl,              *)
(* WipeGeneratorImpl and PurgeGeneratorImpl pull one element at a time     *)
(* from an fdb5 iterator, the first one already in their constructor.      *)
(* Every pull may throw, and the exception leaves the handle wherever it   *)
(* stands.  The list handle also caches the URI of the element; the wipe   *)
(* and purge handles give out a pointer into the element itself.           *)
(***************************************************************************)
EXTENDS Naturals

CONSTANTS MaxElements,   \* largest number of elements of a result
          MaxThrows      \* how often the fdb5 iterator of a handle may throw

ASSUME BoundsAssumption == MaxElements \in Nat /\ MaxThrows \in Nat

Kinds == {"list", "wipe", "purge"}

VARIABLES
  kind,      \* which of the three handles exists, "none": no handle
  count,     \* external: number of elements the fdb5 iterator produces
  pulled,    \* external: number of elements it has produced
  throws,    \* external: number of times it threw
  elem,      \* the element dasiElement_ was filled from (0: none yet)
  done,      \* done_ of the generator
  first,     \* first of the C handle
  uriCache,  \* dasi_list_t::uri_cache: the element it is the URI of
  pointer,   \* the element the last *_get_value pointer was taken on (0: none)
  last       \* the last call and the code it returned

fdbVars == <<count, pulled, throws>>
vars == <<kind, fdbVars, elem, done, first, uriCache, pointer, last>>

Codes == {"SUCCESS", "ITERATION_COMPLETE", "ASSERT", "ERROR"}
Calls == {"create", "free", "next", "attrs"}

Returns(call, rc) == last' = [call |-> call, rc |-> rc]

-----------------------------------------------------------------------------
(* fdb5::ListIterator / WipeIterator / PurgeIterator::next (external).     *)

(* *GeneratorImpl::next when the iterator yields: the element is copied. *)
PullElement ==
  /\ pulled < count
  /\ pulled' = pulled + 1
  /\ elem' = pulled + 1
  /\ done' = FALSE
  /\ UNCHANGED <<count, throws>>

(* *GeneratorImpl::next when the iterator is exhausted. *)
PullEnd ==
  /\ pulled = count
  /\ done' = TRUE
  /\ UNCHANGED <<fdbVars, elem>>

(* Mutant of PullThrows: the generator takes an exception for the end. *)
PullThrowsEnds ==
  /\ throws < MaxThrows
  /\ throws' = throws + 1
  /\ done' = TRUE
  /\ UNCHANGED <<count, pulled, elem>>

(* The iterator throws before the generator assigned anything. *)
PullThrows ==
  /\ throws < MaxThrows
  /\ throws' = throws + 1
  /\ UNCHANGED <<count, pulled, elem, done>>

-----------------------------------------------------------------------------
(* dasi_list, dasi_wipe, dasi_purge: new dasi_*_t(...), whose generator     *)
(* pulls the first element of a result of n elements.                       *)
Create(k, n) ==
  /\ kind = "none"
  /\ kind' = k
  /\ count' = n
  /\ throws' = 0
  /\ first' = TRUE
  /\ uriCache' = 0
  /\ pointer' = 0
  /\ Returns("create", "SUCCESS")
  /\ \/ n > 0 /\ pulled' = 1 /\ elem' = 1 /\ done' = FALSE
     \/ n = 0 /\ pulled' = 0 /\ elem' = 0 /\ done' = TRUE

(* The first pull throws out of the constructor: there is no handle. *)
CreateFails ==
  /\ kind = "none"
  /\ Returns("create", "ERROR")
  /\ UNCHANGED <<kind, fdbVars, elem, done, first, uriCache, pointer>>

(* dasi_free_list, dasi_free_wipe, dasi_free_purge. *)
Free ==
  /\ kind # "none"
  /\ kind' = "none"
  /\ Returns("free", "SUCCESS")
  /\ UNCHANGED <<fdbVars, elem, done, first, uriCache, pointer>>

(* The part the three *_next calls share: the first call only clears the    *)
(* flag, later ones advance the generator, which does nothing once done_.   *)
Step ==
  \/ /\ first
     /\ first' = FALSE
     /\ UNCHANGED <<fdbVars, elem, done>>
     /\ Returns("next", IF done THEN "ITERATION_COMPLETE" ELSE "SUCCESS")
  \/ /\ ~first
     /\ UNCHANGED first
     /\ \/ done /\ UNCHANGED <<fdbVars, elem, done>>
        \/ ~done /\ (PullElement \/ PullEnd)
     /\ Returns("next", IF done' THEN "ITERATION_COMPLETE" ELSE "SUCCESS")
  \/ /\ ~first
     /\ ~done
     /\ UNCHANGED first
     /\ PullThrows
     /\ Returns("next", "ERROR")

(* Mutant of ListNext: the URI is cached before the iterator advances. *)
ListNextCachesEarly ==
  /\ kind = "list"
  /\ Step
  /\ uriCache' = elem
  /\ UNCHANGED <<kind, pointer>>

(* dasi_list_next: a success also refreshes uri_cache. *)
ListNext ==
  /\ kind = "list"
  /\ Step
  /\ uriCache' = IF last'.rc = "SUCCESS" THEN elem' ELSE uriCache
  /\ UNCHANGED <<kind, pointer>>

(* dasi_list_attrs copies the element and hands out uri_cache.c_str(); at   *)
(* the end its assertion fails.                                             *)
ListAttrs ==
  /\ kind = "list"
  /\ Returns("attrs", IF done THEN "ASSERT" ELSE "SUCCESS")
  /\ UNCHANGED <<kind, fdbVars, elem, done, first, uriCache, pointer>>

(* dasi_list_count is not implemented and always reports an error. *)
ListCount ==
  /\ kind = "list"
  /\ Returns("attrs", "ERROR")
  /\ UNCHANGED <<kind, fdbVars, elem, done, first, uriCache, pointer>>

(* dasi_wipe_next. *)
WipeNext ==
  /\ kind = "wipe"
  /\ Step
  /\ UNCHANGED <<kind, uriCache, pointer>>

(* dasi_purge_next. *)
PurgeNext ==
  /\ kind = "purge"
  /\ Step
  /\ UNCHANGED <<kind, uriCache, pointer>>

(* What *_get_value do: iterator->c_str() points into dasiElement_. *)
GetValue ==
  /\ \/ done /\ Returns("attrs", "ASSERT") /\ UNCHANGED pointer
     \/ ~done /\ Returns("attrs", "SUCCESS") /\ pointer' = elem
  /\ UNCHANGED <<kind, fdbVars, elem, done, first, uriCache>>

(* dasi_wipe_get_value. *)
WipeGetValue == kind = "wipe" /\ GetValue

(* dasi_purge_get_value. *)
PurgeGetValue == kind = "purge" /\ GetValue

-----------------------------------------------------------------------------
Init ==
  /\ kind = "none"
  /\ count = 0
  /\ pulled = 0
  /\ throws = 0
  /\ elem = 0
  /\ done = FALSE
  /\ first = TRUE
  /\ uriCache = 0
  /\ pointer = 0
  /\ last = [call |-> "free", rc |-> "SUCCESS"]

(* A C client: any calls in any order, one handle at a time. *)
Next ==
  \/ \E k \in Kinds, n \in 0..MaxElements : Create(k, n)
  \/ CreateFails
  \/ Free
  \/ ListNext \/ ListAttrs \/ ListCount
  \/ WipeNext \/ WipeGetValue
  \/ PurgeNext \/ PurgeGetValue

Spec == Init /\ [][Next]_vars

-----------------------------------------------------------------------------
(* Type invariant of the lazy handles. *)
TypeOK ==
  /\ kind \in Kinds \cup {"none"}
  /\ count \in 0..MaxElements
  /\ pulled \in 0..count
  /\ throws \in 0..MaxThrows
  /\ elem \in 0..count
  /\ done \in BOOLEAN
  /\ first \in BOOLEAN
  /\ uriCache \in 0..count
  /\ pointer \in 0..count
  /\ last \in [call : Calls, rc : Codes]

(* An iterator handle is a cursor: see module Cursor. *)
C == INSTANCE Cursor WITH
       Sizes   <- Nat,
       open    <- kind # "none",
       size    <- count,
       current <- IF first THEN 0 ELSE elem,
       ended   <- ~first /\ done

(* Every list, wipe and purge handle keeps the promise of module Cursor. *)
IsCursor == C!Spec
=============================================================================

--------------------------- MODULE RetrieveHandle ---------------------------
(***************************************************************************)
(* The handle behind dasi_retrieve() of the C API.                         *)
(*                                                                         *)
(* A retrieve handle has TWO cursors over the same result: the element     *)
(* iterator driven by dasi_retrieve_next, and the position in one data     *)
(* handle, the concatenation of all the elements' bytes, driven by         *)
(* dasi_retrieve_read.  Nothing in the C++ code ties them together.        *)
(*                                                                         *)
(* A result is abstracted to the layout of that concatenation: a sequence  *)
(* r in which r[i] is the offset just after the bytes of element i, so     *)
(* element i occupies r[i-1] .. r[i] - 1 and its length attribute is       *)
(* r[i] - r[i-1].  Zero-length elements are allowed (dasi_archive accepts  *)
(* length 0).                                                              *)
(***************************************************************************)
EXTENDS Integers, Sequences

CONSTANTS Results,   \* the results a query may have: layouts, see above
          MaxRead    \* largest buffer a C client passes to dasi_retrieve_read

(* Begin(r, i) .. End(r, i) - 1 are the bytes of element i of a layout r. *)
Begin(r, i) == IF i = 1 THEN 0 ELSE r[i - 1]
End(r, i) == r[i]
Total(r) == IF r = << >> THEN 0 ELSE r[Len(r)]

(* RetrieveElement::location.length of element i. *)
Length(r, i) == End(r, i) - Begin(r, i)

IsLayout(r) == /\ r \in Seq(Nat)
               /\ \A i, j \in 1..Len(r) : i <= j => End(r, i) <= End(r, j)

ASSUME ResultsAssumption == \A r \in Results : IsLayout(r)
ASSUME MaxReadAssumption == MaxRead \in Nat \ {0}

VARIABLES
  live,     \* between dasi_retrieve and dasi_free_retrieve
  values,   \* RetrieveResultImpl::values_, drained eagerly by the constructor
  iter,     \* RetrieveResultImpl::iter_, 1 = begin(), Len(values) + 1 = end()
  done,     \* RetrieveResultImpl::done_
  elem,     \* which element dasiElement_ was last filled from (0: none yet)
  first,    \* dasi_retrieve_t::first
  dh,       \* dasi_retrieve_t::dh: "none", "unopened" or "open"
  pos,      \* read position of dh
  last,     \* the last call and the code it returned
  out,      \* the bytes the last successful read copied: lo .. hi - 1
  visited,  \* history: number of dasi_retrieve_next calls that succeeded
  seen,     \* history: number of bytes handed to the client so far
  ioFailed  \* history: some read on this handle ended in an error

cursorVars == <<iter, done, elem, first, visited>>
streamVars == <<dh, pos, out, seen, ioFailed>>
handleVars == <<live, values, cursorVars, streamVars, last>>

Codes == {"SUCCESS", "ITERATION_COMPLETE", "ASSERT", "ERROR"}
Calls == {"create", "free", "next", "attrs", "read"}

Min2(a, b) == IF a < b THEN a ELSE b

-----------------------------------------------------------------------------
(* RetrieveResultImpl::updateResult with the iterator at i: at end() only   *)
(* done_ changes, and dasiElement_ keeps what it held.                       *)
UpdateResult(r, i, old) ==
  \/ /\ i = Len(r) + 1
     /\ done' = TRUE
     /\ elem' = old
  \/ /\ i # Len(r) + 1
     /\ done' = FALSE
     /\ elem' = i

(* new dasi_retrieve_t(dasi->retrieve(query)): the iterator is drained into *)
(* values_, iter_ = begin() and updateResult() is called.                    *)
Create(r) ==
  /\ ~live
  /\ live' = TRUE
  /\ values' = r
  /\ iter' = 1
  /\ UpdateResult(r, 1, 0)
  /\ first' = TRUE
  /\ dh' = "none"
  /\ pos' = 0
  /\ last' = [call |-> "create", rc |-> "SUCCESS"]
  /\ out' = [lo |-> 0, hi |-> 0]
  /\ visited' = 0
  /\ seen' = 0
  /\ ioFailed' = FALSE

(* dasi_free_retrieve: the handle goes away, and ~AutoClose closes dh. *)
Free ==
  /\ live
  /\ live' = FALSE
  /\ last' = [call |-> "free", rc |-> "SUCCESS"]
  /\ UNCHANGED <<values, cursorVars, streamVars>>

(* Mutant of Advance: the iterator moves on without updateResult. *)
AdvanceKeepsElement ==
  \/ /\ done
     /\ UNCHANGED <<iter, done, elem>>
  \/ /\ ~done
     /\ iter' = iter + 1
     /\ done' = (iter + 1 = Len(values) + 1)
     /\ UNCHANGED elem

(* Mutant of Advance: a further call at the end starts over. *)
AdvanceRewinds ==
  \/ /\ done
     /\ iter' = 1
     /\ UpdateResult(values, 1, elem)
  \/ /\ ~done
     /\ iter' = iter + 1
     /\ UpdateResult(values, iter + 1, elem)

(* RetrieveResultImpl::next: a further call at the end changes nothing. *)
Advance ==
  \/ /\ done
     /\ UNCHANGED <<iter, done, elem>>
  \/ /\ ~done
     /\ iter' = iter + 1
     /\ UpdateResult(values, iter + 1, elem)

(* dasi_retrieve_next: the first call only clears the flag, because the     *)
(* constructor already positioned the iterator on the first element.        *)
RetrieveNext ==
  /\ live
  /\ \/ /\ first
        /\ first' = FALSE
        /\ UNCHANGED <<iter, done, elem>>
     \/ /\ ~first
        /\ UNCHANGED first
        /\ Advance
  /\ last' = [call |-> "next",
              rc |-> IF done' THEN "ITERATION_COMPLETE" ELSE "SUCCESS"]
  /\ visited' = IF done' THEN visited ELSE visited + 1
  /\ UNCHANGED <<live, values, streamVars>>

(* dasi_retrieve_attrs: copies the current element out, or fails its        *)
(* assertion at the end.                                                    *)
RetrieveAttrs ==
  /\ live
  /\ last' = [call |-> "attrs", rc |-> IF done THEN "ASSERT" ELSE "SUCCESS"]
  /\ UNCHANGED <<live, values, cursorVars, streamVars>>

-----------------------------------------------------------------------------
(* dasi_retrieve_read.  n = 0 stands for every *length <= 0. *)

ReadReturns(rc) == last' = [call |-> "read", rc |-> rc]

(* Mutant of ReadRejected: ASSERT( *length > 1 ). *)
ReadRejectsOneByte(n) ==
  /\ n <= 1
  /\ ReadReturns("ASSERT")
  /\ UNCHANGED streamVars

(* Mutant of ReadRejected: a zero-length buffer is read into. *)
ReadEmptyBuffer(n) ==
  /\ n <= 0
  /\ dh' = "open"
  /\ ReadReturns("ITERATION_COMPLETE")
  /\ UNCHANGED <<pos, out, seen, ioFailed>>

(* ASSERT( *length > 0 ) fails before the handle is touched. *)
ReadRejected(n) ==
  /\ n <= 0
  /\ ReadReturns("ASSERT")
  /\ UNCHANGED streamVars

(* The first read builds the handle and opens it.  When openForRead throws, *)
(* dh has already been assigned, so no later call opens it again.           *)
ReadOpenFails(n) ==
  /\ n > 0
  /\ dh = "none"
  /\ dh' = "unopened"
  /\ ioFailed' = TRUE
  /\ ReadReturns("ERROR")
  /\ UNCHANGED <<pos, out, seen>>

(* Reading a handle that was never opened: the I/O library either throws or *)
(* returns no bytes.                                                        *)
ReadUnopened(n) ==
  /\ n > 0
  /\ dh = "unopened"
  /\ \/ ReadReturns("ERROR") /\ UNCHANGED out
     \/ ReadReturns("ITERATION_COMPLETE") /\ out' = [lo |-> pos, hi |-> pos]
  /\ UNCHANGED <<dh, pos, seen, ioFailed>>

(* The number of bytes the concatenated handle copies for a buffer of n:    *)
(* reads cross element boundaries and are short only at the end.            *)
Copied(n) == Min2(n, Total(values) - pos)

(* Mutant of ReadStream: the handle is built and opened on every call. *)
ReadReopened(n) ==
  /\ n > 0
  /\ dh # "unopened"
  /\ dh' = "open"
  /\ pos' = Min2(n, Total(values))
  /\ out' = [lo |-> 0, hi |-> Min2(n, Total(values))]
  /\ seen' = seen + Min2(n, Total(values))
  /\ ReadReturns(IF Total(values) = 0 THEN "ITERATION_COMPLETE" ELSE "SUCCESS")
  /\ UNCHANGED ioFailed

(* A read on the open handle, opening it first when it is the first one. *)
ReadStream(n) ==
  /\ n > 0
  /\ dh # "unopened"
  /\ dh' = "open"
  /\ pos' = pos + Copied(n)
  /\ out' = [lo |-> pos, hi |-> pos + Copied(n)]
  /\ seen' = seen + Copied(n)
  /\ ReadReturns(IF Copied(n) = 0 THEN "ITERATION_COMPLETE" ELSE "SUCCESS")
  /\ UNCHANGED ioFailed

(* The handle throws part-way: some bytes may have been consumed, the       *)
(* client's *length is not written, it only sees the error.                 *)
ReadFails(n) ==
  /\ n > 0
  /\ dh # "unopened"
  /\ dh' = "open"
  /\ \E k \in 0..Copied(n) : pos' = pos + k
  /\ ioFailed' = TRUE
  /\ ReadReturns("ERROR")
  /\ UNCHANGED <<out, seen>>

RetrieveRead(n) ==
  /\ live
  /\ \/ ReadRejected(n)
     \/ ReadOpenFails(n)
     \/ ReadUnopened(n)
     \/ ReadStream(n)
     \/ ReadFails(n)
  /\ UNCHANGED <<live, values, cursorVars>>

-----------------------------------------------------------------------------
(* A C client: any calls in any order, one handle at a time. *)

HandleInit ==
  /\ live = FALSE
  /\ values = << >>
  /\ iter = 1
  /\ done = TRUE
  /\ elem = 0
  /\ first = TRUE
  /\ dh = "none"
  /\ pos = 0
  /\ last = [call |-> "free", rc |-> "SUCCESS"]
  /\ out = [lo |-> 0, hi |-> 0]
  /\ visited = 0
  /\ seen = 0
  /\ ioFailed = FALSE

HandleNext ==
  \/ \E r \in Results : Create(r)
  \/ Free
  \/ RetrieveNext
  \/ RetrieveAttrs
  \/ \E n \in 0..MaxRead : RetrieveRead(n)

HandleSpec == HandleInit /\ [][HandleNext]_handleVars

-----------------------------------------------------------------------------
(* Type invariant of the retrieve handle. *)
HandleTypeOK ==
  /\ live \in BOOLEAN
  /\ IsLayout(values)
  /\ iter \in 1..(Len(values) + 1)
  /\ done \in BOOLEAN
  /\ elem \in 0..Len(values)
  /\ first \in BOOLEAN
  /\ dh \in {"none", "unopened", "open"}
  /\ pos \in 0..Total(values)
  /\ last \in [call : Calls, rc : Codes]
  /\ out \in [lo : Nat, hi : Nat]
  /\ visited \in 0..Len(values)
  /\ seen \in Nat
  /\ ioFailed \in BOOLEAN

(* dasi_retrieve_next presents every element exactly once and in order: the *)
(* k-th success stands on element k, and completion is reported only after  *)
(* all of them were presented, however reads and attrs calls interleave.    *)
IterationExact ==
  last.call = "next" =>
    IF last.rc = "SUCCESS" THEN visited = iter /\ elem = iter
                           ELSE visited = Len(values)

(* A read that reports DASI_ITERATION_COMPLETE on a handle whose reads      *)
(* never failed means that the client holds every byte of every element,    *)
(* empty elements in the middle of the result included.                     *)
CompleteReadsAll ==
  last.call = "read" /\ last.rc = "ITERATION_COMPLETE" /\ ~ioFailed
     => seen = Total(values)

(* Without read errors no byte is skipped or handed out twice: the next     *)
(* read starts exactly after the bytes received so far.                     *)
NoByteLost == ~ioFailed => /\ seen = pos
                           /\ dh # "unopened"

(* A retrieve handle is a cursor over its elements: see module Cursor. *)
C == INSTANCE Cursor WITH
       Sizes   <- Nat,
       open    <- live,
       size    <- Len(values),
       current <- IF first THEN 0 ELSE elem,
       ended   <- ~first /\ done

(* The element cursor of a retrieve handle keeps the promise of module      *)
(* Cursor, whatever is read from the stream meanwhile.                      *)
IsCursor == C!Spec
=============================================================================

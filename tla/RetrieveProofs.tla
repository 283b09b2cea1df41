--------------------------- MODULE RetrieveProofs ---------------------------
(***************************************************************************)
(* Proofs about RetrieveHandle (any C client) and PyRetrieve (the pydasi   *)
(* iterator), for every set of results and every buffer size.              *)
(***************************************************************************)
EXTENDS PyRetrieve, TLAPS

-----------------------------------------------------------------------------
(* The inductive invariant of the C handle.  The element cursor: done_ says *)
(* that iter_ is end(), dasiElement_ is the element under iter_ (or the     *)
(* last one), and the successes so far are those up to iter_ once the first *)
(* flag is cleared.  The stream cursor: it has passed what the client saw.  *)
CursorInv ==
  /\ done <=> iter = Len(values) + 1
  /\ ~done => elem = iter
  /\ first => iter = 1 /\ visited = 0
  /\ ~first => visited = IF done THEN Len(values) ELSE iter

HandleInv == HandleTypeOK /\ CursorInv /\ IterationExact /\ CompleteReadsAll /\ NoByteLost

(* Bytes of element i lie in the stream, right after those of element i-1.  *)
LEMMA LayoutFacts ==
  ASSUME NEW r, IsLayout(r), NEW i \in 1..Len(r)
  PROVE  /\ Begin(r, i) \in Nat
         /\ End(r, i) \in Nat
         /\ Begin(r, i) <= End(r, i)
         /\ End(r, i) <= Total(r)
         /\ Length(r, i) \in Nat
         /\ Total(r) \in Nat
         /\ i = Len(r) => End(r, i) = Total(r)
         /\ i + 1 \in 1..Len(r) => Begin(r, i + 1) = End(r, i)
<1>1. Len(r) \in Nat /\ Len(r) \in 1..Len(r) /\ r # << >>
  BY DEF IsLayout
<1>2. r[i] \in Nat /\ r[Len(r)] \in Nat /\ r[i] <= r[Len(r)]
  BY <1>1 DEF IsLayout, End
<1>3. i # 1 => i - 1 \in 1..Len(r) /\ r[i - 1] \in Nat /\ r[i - 1] <= r[i]
  BY <1>1 DEF IsLayout, End
<1> QED
  BY <1>1, <1>2, <1>3 DEF Begin, End, Total, Length

(* The size of a stream is a natural number. *)
LEMMA TotalNat == ASSUME NEW r, IsLayout(r) PROVE Total(r) \in Nat
<1>1. CASE r = << >>
  BY <1>1 DEF Total
<1>2. CASE r # << >>
  <2>1. Len(r) \in Nat /\ Len(r) \in 1..Len(r)
    BY <1>2 DEF IsLayout
  <2> QED
    BY <1>2, <2>1 DEF Total, IsLayout
<1> QED
  BY <1>1, <1>2

(* A new handle satisfies the invariant. *)
LEMMA FreshHandle ==
  ASSUME HandleInv, NEW r \in Results, Create(r)
  PROVE  HandleInv'
<1>1. IsLayout(r) /\ Len(r) \in Nat /\ Total(r) \in Nat
  BY ResultsAssumption, TotalNat DEF IsLayout
<1>2. HandleTypeOK'
  <2>1. last' \in [call : Calls, rc : Codes] /\ out' \in [lo : Nat, hi : Nat]
    BY DEF Create, Calls, Codes
  <2>2. /\ live' \in BOOLEAN /\ first' \in BOOLEAN
        /\ ioFailed' \in BOOLEAN /\ done' \in BOOLEAN
    BY Zenon DEF Create, UpdateResult
  <2>4. elem' \in 0..Len(r)
    BY <1>1 DEF Create, UpdateResult
  <2>3. values' = r /\ 1 \in 1..(Len(r) + 1) /\ 0 \in 0..Total(r) /\ 0 \in 0..Len(r)
    BY <1>1 DEF Create
  <2> QED
    BY <1>1, <2>1, <2>2, <2>3, <2>4 DEF HandleTypeOK, Create
<1>3. CursorInv'
  BY <1>1 DEF Create, UpdateResult, CursorInv
<1>4. IterationExact' /\ CompleteReadsAll' /\ NoByteLost'
  BY <1>1 DEF Create, IterationExact, CompleteReadsAll, NoByteLost
<1> QED
  BY <1>2, <1>3, <1>4 DEF HandleInv

(* dasi_retrieve_next keeps the invariant. *)
LEMMA NextStep ==
  ASSUME HandleInv, RetrieveNext
  PROVE  HandleInv'
<1> USE DEF HandleInv
<1>1. Len(values) \in Nat /\ iter \in 1..(Len(values) + 1) /\ values' = values
  BY DEF HandleTypeOK, IsLayout, RetrieveNext
<1>2. CASE first
  <2>1. HandleTypeOK'
    <3>1. last' \in [call : Calls, rc : Codes]
      BY DEF RetrieveNext, Calls, Codes
    <3>2. first' \in BOOLEAN
      BY <1>2, Zenon DEF RetrieveNext
    <3> QED
      BY <1>1, <1>2, <3>1, <3>2 DEF HandleTypeOK, RetrieveNext, CursorInv, streamVars
  <2>2. CursorInv' /\ IterationExact'
    BY <1>1, <1>2 DEF HandleTypeOK, RetrieveNext, CursorInv, IterationExact
  <2>3. CompleteReadsAll' /\ NoByteLost'
    BY DEF RetrieveNext, CompleteReadsAll, NoByteLost, streamVars
  <2> QED
    BY <2>1, <2>2, <2>3
<1>3. CASE ~first
  <2>1. HandleTypeOK'
    <3>1. last' \in [call : Calls, rc : Codes]
      BY DEF RetrieveNext, Calls, Codes
    <3>2. done' \in BOOLEAN
      BY <1>3, Zenon DEF HandleTypeOK, RetrieveNext, Advance, UpdateResult
    <3> QED
      BY <1>1, <1>3, <3>1, <3>2
      DEF HandleTypeOK, RetrieveNext, Advance, UpdateResult, CursorInv, streamVars
  <2>2. CursorInv' /\ IterationExact'
    BY <1>1, <1>3 DEF HandleTypeOK, RetrieveNext, Advance, UpdateResult, CursorInv, IterationExact
  <2>3. CompleteReadsAll' /\ NoByteLost'
    BY DEF RetrieveNext, CompleteReadsAll, NoByteLost, streamVars
  <2> QED
    BY <2>1, <2>2, <2>3
<1> QED
  BY <1>2, <1>3 DEF HandleTypeOK

(* dasi_retrieve_read keeps the invariant, for any buffer size. *)
LEMMA ReadStep ==
  ASSUME HandleInv, NEW n \in Nat, RetrieveRead(n)
  PROVE  HandleInv'
<1> USE DEF HandleInv
<1>1. /\ Total(values) \in Nat /\ Copied(n) \in Nat /\ pos \in Nat
      /\ pos + Copied(n) \in 0..Total(values)
      /\ n # 0 /\ Copied(n) = 0 => pos = Total(values)
  BY TotalNat DEF HandleTypeOK, Copied, Min2
<1>2. values' = values /\ UNCHANGED <<live, cursorVars>>
  BY DEF RetrieveRead
<1>3. HandleTypeOK'
  <2>1. /\ dh' \in {"none", "unopened", "open"} /\ pos' \in 0..Total(values)
        /\ last' \in [call : Calls, rc : Codes] /\ out' \in [lo : Nat, hi : Nat]
        /\ seen' \in Nat /\ ioFailed' \in BOOLEAN
    <3>1. CASE ReadRejected(n)
      BY <3>1 DEF HandleTypeOK, ReadRejected, ReadReturns, streamVars, Calls, Codes
    <3>2. CASE ReadOpenFails(n)
      BY <3>2 DEF HandleTypeOK, ReadOpenFails, ReadReturns, Calls, Codes
    <3>3. CASE ReadUnopened(n)
      BY <1>1, <3>3 DEF HandleTypeOK, ReadUnopened, ReadReturns, Calls, Codes
    <3>4. CASE ReadStream(n)
      BY <1>1, <3>4 DEF HandleTypeOK, ReadStream, ReadReturns, Calls, Codes
    <3>5. CASE ReadFails(n)
      <4>1. PICK k \in 0..Copied(n) : pos' = pos + k
        BY <3>5 DEF ReadFails
      <4>2. pos' \in 0..Total(values)
        BY <1>1, <4>1
      <4> QED
        BY <3>5, <4>2 DEF HandleTypeOK, ReadFails, ReadReturns, Calls, Codes
    <3> QED
      BY <3>1, <3>2, <3>3, <3>4, <3>5 DEF RetrieveRead
  <2> QED
    BY <1>2, <2>1 DEF HandleTypeOK, cursorVars
<1>4. CursorInv' /\ last'.call = "read"
  BY <1>2 DEF CursorInv, cursorVars, RetrieveRead, ReadRejected, ReadOpenFails,
              ReadUnopened, ReadStream, ReadFails, ReadReturns
<1>5. NoByteLost'
  BY <1>1 DEF HandleTypeOK, NoByteLost, RetrieveRead, ReadRejected, ReadOpenFails,
              ReadUnopened, ReadStream, ReadFails, streamVars
<1>6. CompleteReadsAll'
  BY <1>1, <1>2 DEF HandleTypeOK, NoByteLost, CompleteReadsAll, RetrieveRead, ReadRejected,
              ReadOpenFails, ReadUnopened, ReadStream, ReadFails, ReadReturns
<1> QED
  BY <1>3, <1>4, <1>5, <1>6 DEF IterationExact

(* The invariant is inductive for a C client that calls in any order. *)
LEMMA HandleInductive == HandleInv /\ [HandleNext]_handleVars => HandleInv'
<1> SUFFICES ASSUME HandleInv, [HandleNext]_handleVars PROVE HandleInv'
  OBVIOUS
<1>1. CASE \E r \in Results : Create(r)
  BY <1>1, FreshHandle
<1>2. CASE Free
  BY <1>2 DEF Free, HandleInv, HandleTypeOK, CursorInv, IterationExact, CompleteReadsAll,
              NoByteLost, cursorVars, streamVars, Calls, Codes
<1>3. CASE RetrieveNext
  BY <1>3, NextStep
<1>4. CASE RetrieveAttrs
  BY <1>4 DEF RetrieveAttrs, HandleInv, HandleTypeOK, CursorInv, IterationExact,
              CompleteReadsAll, NoByteLost, cursorVars, streamVars, Calls, Codes
<1>5. CASE \E n \in 0..MaxRead : RetrieveRead(n)
  BY <1>5, ReadStep, MaxReadAssumption
<1>6. CASE UNCHANGED handleVars
  BY <1>6 DEF handleVars, HandleInv, HandleTypeOK, CursorInv, IterationExact,
              CompleteReadsAll, NoByteLost, cursorVars, streamVars
<1> QED
  BY <1>1, <1>2, <1>3, <1>4, <1>5, <1>6 DEF HandleNext

(* No handle exists at first, which satisfies the invariant. *)
LEMMA HandleInitInv == HandleInit => HandleInv
<1> SUFFICES ASSUME HandleInit PROVE HandleInv
  OBVIOUS
<1>1. live \in BOOLEAN /\ done \in BOOLEAN /\ first \in BOOLEAN /\ ioFailed \in BOOLEAN
  BY Zenon DEF HandleInit
<1>2. IsLayout(values) /\ Len(values) = 0 /\ Total(values) = 0
  BY DEF HandleInit, IsLayout, Total
<1>3. last \in [call : Calls, rc : Codes] /\ out \in [lo : Nat, hi : Nat]
  BY DEF HandleInit, Calls, Codes
<1> QED
  BY <1>1, <1>2, <1>3 DEF HandleInit, HandleInv, HandleTypeOK, CursorInv, IterationExact,
                          CompleteReadsAll, NoByteLost

(* For every C client of dasi_retrieve_*: the handle stays well typed,      *)
(* next() presents each element once and in order, a completed read stream  *)
(* was delivered whole, and no byte is lost or repeated.                    *)
THEOREM HandleCorrect ==
  HandleSpec => [](HandleTypeOK /\ IterationExact /\ CompleteReadsAll /\ NoByteLost)
<1>1. HandleInv => HandleTypeOK /\ IterationExact /\ CompleteReadsAll /\ NoByteLost
  BY DEF HandleInv
<1> QED
  BY <1>1, HandleInitInv, HandleInductive, PTL DEF HandleSpec

(* In particular, a client that reads to the end of the stream has read all *)
(* bytes of the result (dasi_retrieve_read).                                *)
COROLLARY HandleReadsAll == HandleSpec => []CompleteReadsAll
  BY HandleCorrect, PTL

-----------------------------------------------------------------------------
(* Where the element stands once the iterator is at end(): on the last one, *)
(* or on none when there is none.  Only the refinement needs it.            *)
EndInv == done => elem = Len(values)

LEMMA EndInductive == HandleInv /\ EndInv /\ [HandleNext]_handleVars => EndInv'
<1> SUFFICES ASSUME HandleInv, EndInv, [HandleNext]_handleVars PROVE EndInv'
  OBVIOUS
<1>1. Len(values) \in Nat /\ iter \in 1..(Len(values) + 1)
  BY DEF HandleInv, HandleTypeOK, IsLayout
<1>2. CASE \E r \in Results : Create(r)
  <2>1. PICK r \in Results : Create(r)
    BY <1>2
  <2>2. Len(r) \in Nat
    BY ResultsAssumption DEF IsLayout
  <2> QED
    BY <2>1, <2>2 DEF Create, UpdateResult, EndInv
<1>3. CASE RetrieveNext
  <2>1. values' = values /\ (UNCHANGED <<iter, done, elem>> \/ Advance)
    BY <1>3 DEF RetrieveNext
  <2>2. CASE UNCHANGED <<iter, done, elem>>
    BY <2>1, <2>2 DEF EndInv
  <2>3. CASE ~done /\ UpdateResult(values, iter + 1, elem)
    <3>1. elem = iter
      BY <2>3 DEF HandleInv, CursorInv
    <3>2. done' => iter + 1 = Len(values) + 1 /\ elem' = elem
      BY <2>3, Zenon DEF UpdateResult
    <3> QED
      BY <1>1, <2>1, <3>1, <3>2 DEF EndInv
  <2> QED
    BY <2>1, <2>2, <2>3 DEF Advance
<1>4. CASE Free \/ RetrieveAttrs \/ UNCHANGED handleVars
  BY <1>4 DEF Free, RetrieveAttrs, handleVars, cursorVars, EndInv
<1>5. CASE \E n \in 0..MaxRead : RetrieveRead(n)
  BY <1>5 DEF RetrieveRead, cursorVars, EndInv
<1> QED
  BY <1>2, <1>3, <1>4, <1>5 DEF HandleNext

(* dasi_retrieve_next gives an element, reports the end, or repeats itself. *)
LEMMA NextRefines ==
  ASSUME HandleInv, EndInv, RetrieveNext
  PROVE  C!Give \/ C!End \/ UNCHANGED C!cursorState
<1>1. /\ Len(values) \in Nat /\ iter \in 1..(Len(values) + 1)
      /\ live = TRUE /\ live' = live /\ values' = values
  BY DEF HandleInv, HandleTypeOK, IsLayout, RetrieveNext
<1>2. CASE first
  <2>1. iter = 1 /\ first' = FALSE /\ UNCHANGED <<iter, done, elem>>
    BY <1>2 DEF HandleInv, CursorInv, RetrieveNext
  <2>2. CASE done
    BY <1>1, <1>2, <2>1, <2>2 DEF HandleInv, CursorInv, EndInv, C!End
  <2>3. CASE ~done
    BY <1>1, <1>2, <2>1, <2>3 DEF HandleInv, CursorInv, C!Give
  <2> QED
    BY <2>2, <2>3
<1>3. CASE ~first
  <2>1. first' = first /\ Advance
    BY <1>3 DEF RetrieveNext
  <2>2. CASE done
    BY <1>1, <2>1, <2>2 DEF Advance, C!cursorState
  <2>3. CASE ~done
    <3>1. elem = iter /\ iter # Len(values) + 1 /\ iter' = iter + 1
      BY <2>1, <2>3 DEF HandleInv, CursorInv, Advance
    <3>2. CASE iter + 1 = Len(values) + 1
      BY <1>1, <1>3, <2>1, <2>3, <3>1, <3>2 DEF Advance, UpdateResult, C!End
    <3>3. CASE iter + 1 # Len(values) + 1
      BY <1>1, <1>3, <2>1, <2>3, <3>1, <3>3 DEF Advance, UpdateResult, C!Give
    <3> QED
      BY <3>2, <3>3
  <2> QED
    BY <2>2, <2>3
<1> QED
  BY <1>2, <1>3 DEF HandleInv, HandleTypeOK

(* Every call a C client can make is one of a Cursor, or changes nothing a   *)
(* client of the iterator can see.                                          *)
LEMMA HandleStepRefines ==
  ASSUME HandleInv, EndInv, [HandleNext]_handleVars
  PROVE  [C!Next]_(C!cursorState)
<1>1. CASE \E r \in Results : Create(r)
  <2>1. PICK r \in Results : Create(r)
    BY <1>1
  <2>2. Len(r) \in Nat
    BY ResultsAssumption DEF IsLayout
  <2>3. C!Open
    BY <2>1, <2>2 DEF Create, C!Open
  <2> QED
    BY <2>3 DEF C!Next
<1>2. CASE Free
  <2>1. C!Close
    BY <1>2 DEF Free, cursorVars, C!Close
  <2> QED
    BY <2>1 DEF C!Next
<1>3. CASE RetrieveNext
  BY <1>3, NextRefines DEF C!Next
<1>4. CASE RetrieveAttrs \/ UNCHANGED handleVars
  BY <1>4 DEF RetrieveAttrs, handleVars, cursorVars, C!cursorState
<1>5. CASE \E n \in 0..MaxRead : RetrieveRead(n)
  BY <1>5 DEF RetrieveRead, cursorVars, C!cursorState
<1> QED
  BY <1>1, <1>2, <1>3, <1>4, <1>5 DEF HandleNext

(* Whatever a C client calls, and however reads are interleaved with it,    *)
(* the element iterator of a retrieve handle is a Cursor over its elements: *)
(* each is handed over once and in order, and completion is final.          *)
THEOREM HandleIsCursor == HandleSpec => IsCursor
<1>1. HandleInit => C!Init
  BY DEF HandleInit, C!Init
<1>2. HandleInv /\ EndInv /\ [HandleNext]_handleVars => [C!Next]_(C!cursorState)
  BY HandleStepRefines
<1>3. HandleInit => HandleInv /\ EndInv
  BY HandleInitInv DEF HandleInit, EndInv
<1> QED
  BY <1>1, <1>2, <1>3, HandleInductive, EndInductive, PTL DEF HandleSpec, IsCursor, C!Spec

-----------------------------------------------------------------------------
(* The inductive invariant of the pydasi iterator.  Between two calls of    *)
(* next() the stream stands where the bytes of the next element begin, and  *)
(* inside a call where those of the current element begin; it holds as long *)
(* as no read failed.  Every element presented so far was returned or had   *)
(* its exception.                                                           *)
Aligned ==
  /\ pc = "idle" => pos = IF first THEN 0 ELSE IF done THEN Total(values) ELSE End(values, iter)
  /\ pc # "idle" => pos = Begin(values, iter)

PcInv ==
  /\ pc \in {"idle", "attrs", "read"}
  /\ pc # "idle" => ~first /\ ~done
  /\ pc = "read" => length = Length(values, elem)
  /\ stopped => ~first /\ done
  /\ live = TRUE

(* The elements whose call of next() has ended. *)
Ended == IF pc = "idle" THEN visited ELSE visited - 1

ItemsInv ==
  /\ \A k \in 1..Len(items) : items[k].elem \in 1..Ended
  /\ \A i \in 1..Ended : i \in raised \/ \E k \in 1..Len(items) : items[k].elem = i
  /\ raised \subseteq 1..Ended

PyInv ==
  /\ TypeOK /\ HandleInv /\ PcInv /\ ItemsInv
  /\ ItemsInOrder /\ ItemsOwnBytes /\ RaisesOnlyEmpty
  /\ ~ioFailed => Aligned

(* Retrieve.__init__ establishes the invariant. *)
LEMMA PyInitInv == Init => PyInv
<1> SUFFICES ASSUME NEW r \in Results, PyInit(r) PROVE PyInv
  BY DEF Init
<1>1. IsLayout(r) /\ Len(r) \in Nat /\ Total(r) \in Nat /\ values = r
  BY ResultsAssumption, TotalNat DEF IsLayout, PyInit
<1>2. /\ live \in BOOLEAN /\ done \in BOOLEAN /\ first \in BOOLEAN
      /\ ioFailed \in BOOLEAN /\ stopped \in BOOLEAN
  BY Zenon DEF PyInit
<1>3. last \in [call : Calls, rc : Codes] /\ out \in [lo : Nat, hi : Nat]
  BY DEF PyInit, Calls, Codes
<1>4. HandleTypeOK
  BY <1>1, <1>2, <1>3 DEF PyInit, HandleTypeOK
<1>5. CursorInv /\ IterationExact /\ CompleteReadsAll /\ NoByteLost
  BY <1>1 DEF PyInit, CursorInv, IterationExact, CompleteReadsAll, NoByteLost
<1>6. items = << >> /\ Len(items) = 0 /\ items \in Seq(Item) /\ raised = {}
  BY DEF PyInit
<1>7. TypeOK
  BY <1>2, <1>4, <1>6 DEF PyInit, TypeOK
<1>8. PcInv /\ Aligned
  BY DEF PyInit, PcInv, Aligned
<1>9. ItemsInv /\ ItemsInOrder /\ ItemsOwnBytes /\ RaisesOnlyEmpty
  BY <1>6 DEF PyInit, ItemsInv, Ended, ItemsInOrder, ItemsOwnBytes, RaisesOnlyEmpty
<1> QED
  BY <1>4, <1>5, <1>7, <1>8, <1>9 DEF PyInv, HandleInv

(* The dasi_retrieve_next call of next() keeps the invariant. *)
LEMMA CallNextStep == ASSUME PyInv, CallNext PROVE PyInv'
<1>1. HandleInv'
  BY NextStep DEF PyInv, CallNext
<1>2. /\ values' = values /\ pos' = pos /\ ioFailed' = ioFailed /\ items' = items
      /\ raised' = raised /\ length' = length /\ live' = live /\ pc = "idle"
  BY DEF CallNext, RetrieveNext, streamVars
<1>3. /\ Len(values) \in Nat /\ iter \in 1..(Len(values) + 1) /\ IsLayout(values)
      /\ first \in BOOLEAN /\ done \in BOOLEAN /\ visited \in Nat /\ visited' \in Nat
  BY <1>1, <1>2 DEF PyInv, HandleInv, HandleTypeOK, IsLayout
<1>4. /\ ~first'
      /\ first => iter = 1 /\ iter' = 1 /\ (done' <=> done)
      /\ ~first /\ done => iter' = iter /\ done'
      /\ ~first /\ ~done => iter' = iter + 1 /\ (done' <=> iter' = Len(values) + 1)
  BY <1>3 DEF CallNext, RetrieveNext, Advance, UpdateResult, PyInv, HandleInv, CursorInv
<1>5. /\ done <=> iter = Len(values) + 1
      /\ done' => pc' = "idle" /\ stopped' = TRUE /\ visited' = visited
      /\ ~done' => pc' = "attrs" /\ stopped' = stopped /\ visited' = visited + 1
  BY <1>2 DEF CallNext, RetrieveNext, PyInv, HandleInv, CursorInv
<1>6. done' \in BOOLEAN /\ first' \in BOOLEAN /\ stopped' \in BOOLEAN
  <2>1. done' \in BOOLEAN /\ first' \in BOOLEAN
    BY <1>1 DEF HandleInv, HandleTypeOK
  <2>2. CASE done'
    BY <1>5, <2>1, <2>2, Zenon
  <2>3. CASE ~done'
    BY <1>5, <2>1, <2>3, Zenon DEF PyInv, TypeOK
  <2> QED
    BY <2>1, <2>2, <2>3
<1>7. Ended' = Ended
  <2>1. CASE done'
    BY <1>2, <1>5, <2>1 DEF Ended
  <2>2. CASE ~done'
    BY <1>2, <1>3, <1>5, <2>2 DEF Ended
  <2> QED
    BY <2>1, <2>2
<1>8. TypeOK'
  BY <1>1, <1>2, <1>5, <1>6 DEF PyInv, TypeOK, HandleInv
<1>9. PcInv'
  BY <1>2, <1>4, <1>5, <1>6 DEF PyInv, PcInv
<1>10. ItemsInv' /\ ItemsInOrder' /\ ItemsOwnBytes' /\ RaisesOnlyEmpty'
  BY <1>2, <1>7 DEF PyInv, ItemsInv, ItemsInOrder, ItemsOwnBytes, RaisesOnlyEmpty
<1>11. ASSUME ~ioFailed' PROVE Aligned'
  <2>1. pos = IF first THEN 0 ELSE IF done THEN Total(values) ELSE End(values, iter)
    BY <1>2, <1>11 DEF PyInv, Aligned
  <2>2. CASE done'
    <3>1. pos = Total(values)
      <4>1. CASE first
        BY <1>3, <1>4, <1>5, <2>1, <2>2, <4>1 DEF IsLayout, Total
      <4>2. CASE ~first /\ done
        BY <2>1, <4>2
      <4>3. CASE ~first /\ ~done
        BY <1>3, <1>4, <1>5, <2>1, <2>2, <4>3, LayoutFacts
      <4> QED
        BY <4>1, <4>2, <4>3
    <3> QED
      BY <1>2, <1>4, <1>5, <2>2, <3>1 DEF Aligned
  <2>3. CASE ~done'
    <3>1. pos = Begin(values, iter')
      <4>1. CASE first
        BY <1>4, <2>1, <4>1 DEF Begin
      <4>2. CASE ~first
        BY <1>3, <1>4, <1>5, <2>1, <2>3, <4>2, LayoutFacts
      <4> QED
        BY <4>1, <4>2
    <3> QED
      BY <1>2, <1>5, <2>3, <3>1 DEF Aligned
  <2> QED
    BY <1>6, <2>2, <2>3
<1> QED
  BY <1>1, <1>8, <1>9, <1>10, <1>11 DEF PyInv

(* The dasi_retrieve_attrs call keeps it: only the length cell is written. *)
LEMMA CallAttrsStep == ASSUME PyInv, CallAttrs PROVE PyInv'
<1>1. /\ UNCHANGED <<live, values, iter, done, elem, first, visited>>
      /\ UNCHANGED <<dh, pos, out, seen, ioFailed, items, raised, stopped>>
      /\ pc = "attrs" /\ pc' = "read" /\ length' = Length(values, elem)
      /\ last' = [call |-> "attrs", rc |-> "SUCCESS"]
  BY DEF CallAttrs, RetrieveAttrs, cursorVars, streamVars
<1>2. HandleInv'
  BY <1>1 DEF PyInv, HandleInv, HandleTypeOK, CursorInv, IterationExact, CompleteReadsAll,
              NoByteLost, Calls, Codes
<1>3. length' \in Nat
  <2>1. elem \in 1..Len(values) /\ IsLayout(values)
    BY <1>1 DEF PyInv, PcInv, HandleInv, HandleTypeOK, CursorInv, IsLayout
  <2> QED
    BY <1>1, <2>1, LayoutFacts
<1>4. TypeOK'
  BY <1>1, <1>2, <1>3 DEF PyInv, TypeOK, HandleInv
<1>5. PcInv' /\ ItemsInv' /\ ItemsInOrder' /\ ItemsOwnBytes' /\ RaisesOnlyEmpty'
  BY <1>1 DEF PyInv, PcInv, ItemsInv, Ended, ItemsInOrder, ItemsOwnBytes, RaisesOnlyEmpty
<1>6. ~ioFailed' => Aligned'
  BY <1>1 DEF PyInv, Aligned
<1> QED
  BY <1>2, <1>4, <1>5, <1>6 DEF PyInv

(* The read call: an error code ends this element with an exception. *)
LEMMA RaiseStep ==
  ASSUME PyInv, CallRead, last'.rc \notin {"SUCCESS", "ITERATION_COMPLETE"}
  PROVE  PyInv'
<1>1. /\ UNCHANGED <<live, values, iter, done, elem, first, visited, length, items, stopped>>
      /\ pc = "read" /\ pc' = "idle" /\ raised' = raised \cup {elem}
  BY DEF CallRead, RetrieveRead, Raise, cursorVars
<1>2. /\ HandleInv' /\ IsLayout(values) /\ Len(values) \in Nat /\ length = Length(values, iter)
      /\ iter \in 1..Len(values) /\ elem = iter /\ visited = iter /\ length \in Nat
      /\ ~first /\ ~done /\ Ended = iter - 1 /\ Ended' = iter
  BY <1>1, ReadStep DEF CallRead, PyInv, TypeOK, HandleInv, HandleTypeOK, PcInv, CursorInv, Ended, IsLayout
<1>3. TypeOK' /\ PcInv'
  BY <1>1, <1>2 DEF PyInv, TypeOK, PcInv, HandleInv
<1>4. ItemsInv' /\ ItemsInOrder'
  <2>1. ItemsInOrder'
    BY <1>1 DEF PyInv, ItemsInOrder
  <2>2. /\ \A k \in 1..Len(items) : items[k].elem \in 1..(iter - 1)
        /\ \A i \in 1..(iter - 1) : i \in raised \/ \E k \in 1..Len(items) : items[k].elem = i
        /\ raised \subseteq 1..(iter - 1)
    BY <1>2 DEF PyInv, ItemsInv
  <2>3. /\ \A k \in 1..Len(items') : items'[k].elem \in 1..iter
        /\ raised' \subseteq 1..iter
    BY <1>1, <1>2, <2>2
  <2>4. ASSUME NEW i \in 1..iter
        PROVE  i \in raised' \/ \E k \in 1..Len(items') : items'[k].elem = i
    <3>1. CASE i = iter
      BY <1>1, <1>2, <3>1
    <3>2. CASE i # iter
      BY <1>1, <1>2, <2>2, <3>2
    <3> QED
      BY <3>1, <3>2
  <2> QED
    BY <1>2, <2>1, <2>3, <2>4 DEF ItemsInv
<1>5. \/ ioFailed'
      \/ length = 0 /\ UNCHANGED <<pos, ioFailed>>
  BY <1>2 DEF CallRead, RetrieveRead, ReadRejected, ReadOpenFails, ReadUnopened, ReadStream,
              ReadFails, ReadReturns, streamVars, PyInv, HandleInv, NoByteLost
<1>6. ItemsOwnBytes' /\ RaisesOnlyEmpty'
  BY <1>1, <1>2, <1>5 DEF PyInv, ItemsOwnBytes, RaisesOnlyEmpty
<1>7. ASSUME ~ioFailed' PROVE Aligned'
  <2>1. length = 0 /\ pos' = pos /\ pos = Begin(values, iter)
    BY <1>1, <1>5, <1>7 DEF PyInv, Aligned
  <2>2. pos = End(values, iter)
    BY <1>2, <2>1, LayoutFacts DEF Length
  <2> QED
    BY <1>1, <1>2, <2>1, <2>2 DEF Aligned
<1> QED
  BY <1>2, <1>3, <1>4, <1>6, <1>7 DEF PyInv

(* The read call: otherwise an item is returned, and unless a read failed   *)
(* its bytes are those of the element.                                      *)
LEMMA ReturnStep ==
  ASSUME PyInv, CallRead, last'.rc \in {"SUCCESS", "ITERATION_COMPLETE"}
  PROVE  PyInv'
<1> DEFINE new == [elem |-> elem, lo |-> out'.lo, hi |-> out'.hi,
                   size |-> length, length |-> length']
<1>1. /\ UNCHANGED <<live, values, iter, done, elem, first, visited, raised, stopped>>
      /\ pc = "read" /\ pc' = "idle" /\ items' = Append(items, new) /\ length' = out'.hi - out'.lo
  BY DEF CallRead, RetrieveRead, cursorVars
<1>2. /\ HandleInv' /\ IsLayout(values) /\ Len(values) \in Nat /\ length = Length(values, iter)
      /\ iter \in 1..Len(values) /\ elem = iter /\ visited = iter /\ length \in Nat
      /\ ~first /\ ~done /\ Ended = iter - 1 /\ Ended' = iter
  BY <1>1, ReadStep DEF CallRead, PyInv, TypeOK, HandleInv, HandleTypeOK, PcInv, CursorInv, Ended, IsLayout
<1>3. /\ ioFailed' = ioFailed
      /\ out' \in [lo : Nat, hi : Nat] /\ out'.lo <= out'.hi
      /\ ~ioFailed => /\ length > 0 /\ out' = [lo |-> pos, hi |-> pos + Copied(length)]
                      /\ pos' = pos + Copied(length)
  <2>1. pos \in Nat /\ Copied(length) \in Nat
    <3>1. Total(values) \in Nat /\ pos \in 0..Total(values)
      BY <1>2, TotalNat DEF PyInv, HandleInv, HandleTypeOK
    <3> QED
      BY <1>2, <3>1 DEF Copied, Min2
  <2> QED
    BY <1>2, <2>1 DEF CallRead, RetrieveRead, ReadRejected, ReadOpenFails, ReadUnopened,
            ReadStream, ReadFails, ReadReturns, PyInv, HandleInv, NoByteLost
<1>4. length' \in Nat /\ new \in Item
  BY <1>1, <1>2, <1>3 DEF Item
<1>5. /\ items \in Seq(Item) /\ items' \in Seq(Item) /\ Len(items') = Len(items) + 1
      /\ Len(items) \in Nat /\ items'[Len(items) + 1] = new
      /\ \A k \in 1..Len(items) : items'[k] = items[k]
  BY <1>1, <1>4 DEF PyInv, TypeOK
<1> HIDE DEF new
<1>6. new.elem = iter /\ new.lo = out'.lo /\ new.hi = out'.hi /\ new.size = length /\ new.length = length'
  BY <1>2 DEF new
<1>7. TypeOK' /\ PcInv'
  BY <1>1, <1>2, <1>4, <1>5 DEF PyInv, TypeOK, PcInv, HandleInv
<1>8. ItemsInv'
  <2>1. ASSUME NEW k \in 1..Len(items') PROVE items'[k].elem \in 1..iter
    <3>1. CASE k = Len(items) + 1
      BY <1>2, <1>5, <1>6, <3>1
    <3>2. CASE k # Len(items) + 1
      <4>1. k \in 1..Len(items) /\ items'[k] = items[k]
        BY <1>5, <3>2
      <4>2. items[k].elem \in 1..(iter - 1)
        BY <1>2, <4>1 DEF PyInv, ItemsInv
      <4> QED
        BY <1>2, <4>1, <4>2
    <3> QED
      BY <3>1, <3>2
  <2>2. ASSUME NEW i \in 1..iter PROVE i \in raised \/ \E k \in 1..Len(items') : items'[k].elem = i
    <3>1. CASE i = iter
      BY <1>5, <1>6, <3>1
    <3>2. CASE i # iter
      <4>1. i \in 1..Ended
        BY <1>2, <3>2
      <4>2. CASE i \in raised
        BY <4>2
      <4>3. CASE \E k \in 1..Len(items) : items[k].elem = i
        BY <1>5, <4>3
      <4> QED
        BY <4>1, <4>2, <4>3 DEF PyInv, ItemsInv
    <3> QED
      BY <3>1, <3>2
  <2>3. raised \subseteq 1..iter
    BY <1>2 DEF PyInv, ItemsInv
  <2> QED
    BY <1>1, <1>2, <2>1, <2>2, <2>3 DEF ItemsInv
<1>9. ItemsInOrder'
  <2> SUFFICES ASSUME NEW j \in 1..Len(items'), NEW k \in 1..Len(items'), j < k
               PROVE  items'[j].elem < items'[k].elem
    BY DEF ItemsInOrder
  <2>1. j \in 1..Len(items) /\ items'[j] = items[j] /\ items[j].elem \in 1..(iter - 1)
    BY <1>2, <1>5 DEF PyInv, ItemsInv
  <2>2. CASE k = Len(items) + 1
    BY <1>2, <1>5, <1>6, <2>1, <2>2
  <2>3. CASE k # Len(items) + 1
    <3>1. k \in 1..Len(items) /\ items'[k] = items[k]
      BY <1>5, <2>3
    <3> QED
      BY <2>1, <3>1 DEF PyInv, ItemsInOrder
  <2> QED
    BY <2>2, <2>3
<1>10. RaisesOnlyEmpty'
  BY <1>1, <1>3 DEF PyInv, RaisesOnlyEmpty
<1>11. ASSUME ~ioFailed
       PROVE  Copied(length) = length /\ pos = Begin(values, iter) /\ pos + length = End(values, iter)
  <2>1. pos = Begin(values, iter)
    BY <1>1, <1>11 DEF PyInv, Aligned
  <2>2. pos \in Nat /\ pos + length = End(values, iter) /\ length <= Total(values) - pos
    BY <1>2, <2>1, LayoutFacts DEF Length
  <2> QED
    BY <1>2, <2>1, <2>2, TotalNat DEF Copied, Min2
<1>12. ItemsOwnBytes'
  <2>1. ASSUME ~ioFailed
        PROVE  new.lo = Begin(values, iter) /\ new.hi = End(values, iter) /\ new.size = new.length
    BY <1>1, <1>2, <1>3, <1>6, <1>11, <2>1, LayoutFacts DEF Length
  <2> QED
    BY <1>1, <1>3, <1>5, <1>6, <2>1 DEF PyInv, ItemsOwnBytes
<1>13. ~ioFailed' => Aligned'
  BY <1>1, <1>2, <1>3, <1>11 DEF Aligned
<1> QED
  BY <1>2, <1>7, <1>8, <1>9, <1>10, <1>12, <1>13 DEF PyInv

(* The invariant of the iterator is inductive. *)
LEMMA PyInductive == PyInv /\ [Next]_vars => PyInv'
<1> SUFFICES ASSUME PyInv, [Next]_vars PROVE PyInv'
  OBVIOUS
<1>1. CASE CallNext
  BY <1>1, CallNextStep
<1>2. CASE CallAttrs
  BY <1>2, CallAttrsStep
<1>3. CASE CallRead
  BY <1>3, RaiseStep, ReturnStep
<1>4. CASE UNCHANGED vars
  <2>1. UNCHANGED <<live, values, iter, done, elem, first, visited, dh, pos, out, seen, ioFailed, last>>
        /\ UNCHANGED <<pc, length, items, raised, stopped>>
    BY <1>4 DEF vars, handleVars, pyVars, cursorVars, streamVars
  <2>2. HandleInv'
    BY <2>1 DEF PyInv, HandleInv, HandleTypeOK, CursorInv, IterationExact, CompleteReadsAll, NoByteLost
  <2>3. TypeOK' /\ PcInv' /\ ItemsInv' /\ ItemsInOrder' /\ ItemsOwnBytes' /\ RaisesOnlyEmpty'
    BY <2>1, <2>2 DEF PyInv, TypeOK, HandleInv, PcInv, ItemsInv, Ended, ItemsInOrder, ItemsOwnBytes,
                RaisesOnlyEmpty
  <2>4. ~ioFailed' => Aligned'
    BY <2>1 DEF PyInv, Aligned
  <2> QED
    BY <2>2, <2>3, <2>4 DEF PyInv
<1> QED
  BY <1>1, <1>2, <1>3, <1>4 DEF Next

(* The accounting at StopIteration follows from the invariant. *)
LEMMA PyAccounting == PyInv => AllAccountedFor
<1> SUFFICES ASSUME PyInv, stopped
             PROVE  {items[k].elem : k \in 1..Len(items)} \cup raised = 1..Len(values)
  BY DEF AllAccountedFor
<1>1. Ended = Len(values)
  BY DEF PyInv, PcInv, Ended, HandleInv, HandleTypeOK, CursorInv
<1> QED
  BY <1>1 DEF PyInv, ItemsInv

(* The pydasi iterator is type correct. *)
THEOREM PyTypeCorrect == Spec => []TypeOK
<1>1. PyInv => TypeOK
  BY DEF PyInv
<1> QED
  BY <1>1, PyInitInv, PyInductive, PTL DEF Spec

(* Whatever the result of the query, and however many of its objects are    *)
(* empty, every item pydasi returns carries the bytes of its own object as  *)
(* long as no read failed; items come in order, and at StopIteration every  *)
(* element was returned or had its exception, read failures or not.         *)
THEOREM PyRetrieveCorrect ==
  Spec => [](ItemsOwnBytes /\ ItemsInOrder /\ AllAccountedFor /\ RaisesOnlyEmpty)
<1>1. PyInv => ItemsOwnBytes /\ ItemsInOrder /\ AllAccountedFor /\ RaisesOnlyEmpty
  BY PyAccounting DEF PyInv
<1> QED
  BY <1>1, PyInitInv, PyInductive, PTL DEF Spec

(* In particular, an iteration that has come to StopIteration has returned  *)
(* or raised for every element (Retrieve.__next__).                         *)
COROLLARY PyAccountsForAll == Spec => []AllAccountedFor
  BY PyRetrieveCorrect, PTL

(* And without a failed read only empty objects make next() raise           *)
(* (Retrieve.__read).                                                       *)
COROLLARY PyRaisesOnlyEmpty == Spec => []RaisesOnlyEmpty
  BY PyRetrieveCorrect, PTL

(* StopIteration is final: the calls of next() after it return nothing and  *)
(* raise nothing else.                                                      *)
THEOREM PyStopIsFinal == Spec => StopIsFinal
<1>1. PyInv /\ [Next]_vars => [stopped => stopped' /\ items' = items /\ raised' = raised]_vars
  <2> SUFFICES ASSUME PyInv, Next, stopped
               PROVE  stopped' /\ items' = items /\ raised' = raised
    BY DEF vars
  <2>1. pc = "idle" /\ ~first /\ done
    BY DEF PyInv, PcInv, TypeOK
  <2>2. CallNext /\ done'
    BY <2>1 DEF Next, CallNext, CallAttrs, CallRead, RetrieveNext, Advance
  <2> QED
    BY <2>2 DEF CallNext, RetrieveNext
<1> QED
  BY <1>1, PyInitInv, PyInductive, PTL DEF Spec, StopIsFinal

-----------------------------------------------------------------------------
(* From before the object exists, and next to a C client (AnySpec): until a *)
(* Retrieve object exists nothing was returned, and from then on it is the  *)
(* iterator above.                                                          *)
NotBegun == length = 0 /\ items = << >> /\ raised = {} /\ stopped = FALSE

AnyInv ==
  /\ HandleInv /\ EndInv /\ TypeOK
  /\ pc \in {"new", "c client"} => NotBegun
  /\ pc \in {"idle", "attrs", "read"} => PyInv

LEMMA NotBegunTypes ==
  ASSUME NotBegun
  PROVE  length \in Nat /\ items \in Seq(Item) /\ raised \subseteq 1..Len(values) /\ stopped \in BOOLEAN
<1>1. stopped \in BOOLEAN
  BY Zenon DEF NotBegun
<1> QED
  BY <1>1 DEF NotBegun

LEMMA AnyInitInv == AnyInit => AnyInv
<1> SUFFICES ASSUME AnyInit PROVE AnyInv
  OBVIOUS
<1>1. HandleInv /\ EndInv
  BY HandleInitInv DEF AnyInit, HandleInit, EndInv
<1>2. NotBegun /\ pc \in {"new", "c client"}
  BY DEF AnyInit, NotBegun
<1>3. TypeOK
  BY <1>1, <1>2, NotBegunTypes DEF HandleInv, TypeOK
<1> QED
  BY <1>1, <1>2, <1>3 DEF AnyInv

(* dasi_retrieve called by Retrieve.__init__. *)
LEMMA PyCreateStep == ASSUME AnyInv, PyCreate PROVE AnyInv'
<1>1. PICK r \in Results : Create(r)
  BY DEF PyCreate
<1>2. PyInit(r)'
  <2>1. NotBegun /\ UNCHANGED <<length, items, raised, stopped>> /\ pc' = "idle"
    BY DEF AnyInv, PyCreate
  <2>2. \/ Len(r) = 0 /\ done' = TRUE /\ elem' = 0
        \/ Len(r) # 0 /\ done' = FALSE /\ elem' = 1
    <3>1. Len(r) \in Nat
      BY ResultsAssumption DEF IsLayout
    <3> QED
      BY <1>1, <3>1 DEF Create, UpdateResult
  <2> QED
    BY <1>1, <2>1, <2>2 DEF Create, NotBegun, PyInit
<1>3. PyInv'
  <2>1. Init'
    BY <1>2 DEF Init
  <2>2. Init' => PyInv'
    BY PyInitInv, PTL
  <2> QED
    BY <2>1, <2>2
<1>4. EndInv'
  BY <1>2, Zenon DEF PyInit, EndInv
<1>5. pc' = "idle"
  BY DEF PyCreate
<1> QED
  BY <1>3, <1>4, <1>5 DEF AnyInv, PyInv

(* A C call of next(). *)
LEMMA AnyPyStep == ASSUME AnyInv, Next PROVE AnyInv' /\ pc \in {"idle", "attrs", "read"} /\ pc' \in {"idle", "attrs", "read"}
<1>1. pc \in {"idle", "attrs", "read"} /\ PyInv
  BY DEF AnyInv, Next, CallNext, CallAttrs, CallRead
<1>2. PyInv'
  BY <1>1, PyInductive
<1>3. EndInv'
  <2>1. CASE CallNext
    <3>1. RetrieveNext
      BY <2>1 DEF CallNext
    <3> QED
      BY <3>1, EndInductive DEF AnyInv, HandleNext
  <2>2. CASE CallAttrs
    BY <2>2 DEF AnyInv, CallAttrs, RetrieveAttrs, cursorVars, EndInv
  <2>3. CASE CallRead
    BY <2>3 DEF AnyInv, CallRead, RetrieveRead, cursorVars, EndInv
  <2> QED
    BY <2>1, <2>2, <2>3 DEF Next
<1>4. pc' \in {"idle", "attrs", "read"}
  BY <1>1 DEF Next, CallNext, CallAttrs, CallRead, Raise
<1> QED
  BY <1>1, <1>2, <1>3, <1>4 DEF AnyInv, PyInv

LEMMA AnyInductive == AnyInv /\ [AnyNext]_vars => AnyInv'
<1> SUFFICES ASSUME AnyInv, [AnyNext]_vars PROVE AnyInv'
  OBVIOUS
<1>1. CASE PyCreate
  BY <1>1, PyCreateStep
<1>2. CASE Next
  BY <1>2, AnyPyStep
<1>3. CASE pc = "c client" /\ HandleNext /\ UNCHANGED pyVars
  <2>1. HandleInv' /\ EndInv'
    BY <1>3, HandleInductive, EndInductive DEF AnyInv
  <2>2. NotBegun' /\ pc' = "c client"
    BY <1>3 DEF AnyInv, NotBegun, pyVars
  <2>3. TypeOK'
    <3>1. NotBegun' => (length \in Nat /\ items \in Seq(Item) /\ raised \subseteq 1..Len(values) /\ stopped \in BOOLEAN)'
      BY NotBegunTypes, PTL
    <3> QED
      BY <2>1, <2>2, <3>1 DEF TypeOK, HandleInv
  <2> QED
    BY <2>1, <2>2, <2>3 DEF AnyInv
<1>4. CASE UNCHANGED vars
  <2>1. HandleInv' /\ EndInv'
    BY <1>4, HandleInductive, EndInductive DEF AnyInv, vars
  <2>2. PyInv => PyInv'
    BY <1>4, PyInductive
  <2>3. UNCHANGED pyVars
    BY <1>4 DEF vars
  <2>4. TypeOK'
    BY <1>4, <2>1, <2>3 DEF AnyInv, TypeOK, HandleInv, pyVars, vars, handleVars
  <2> QED
    BY <2>1, <2>2, <2>3, <2>4 DEF AnyInv, NotBegun, pyVars
<1> QED
  BY <1>1, <1>2, <1>3, <1>4 DEF AnyNext

LEMMA AnyAlways == AnySpec => []AnyInv
<1>1. AnySpec => AnyInit /\ [][AnyNext]_vars
  BY PTL DEF AnySpec
<1> QED
  BY <1>1, AnyInitInv, AnyInductive, PTL

(* Whether a C client or pydasi drives the handle, and from the moment it   *)
(* is made: the invariants of the retrieve path.                            *)
THEOREM RetrievePathCorrect ==
  AnySpec => [](/\ TypeOK /\ IterationExact /\ CompleteReadsAll /\ NoByteLost
                /\ ItemsOwnBytes /\ ItemsInOrder /\ AllAccountedFor /\ RaisesOnlyEmpty)
<1>1. AnyInv => /\ TypeOK /\ IterationExact /\ CompleteReadsAll /\ NoByteLost
                /\ ItemsOwnBytes /\ ItemsInOrder /\ AllAccountedFor /\ RaisesOnlyEmpty
  <2> SUFFICES ASSUME AnyInv
               PROVE  ItemsOwnBytes /\ ItemsInOrder /\ AllAccountedFor /\ RaisesOnlyEmpty
    BY DEF AnyInv, HandleInv
  <2>1. CASE pc \in {"new", "c client"}
    <3>1. NotBegun
      BY <2>1 DEF AnyInv
    <3> QED
      BY <3>1 DEF NotBegun, ItemsOwnBytes, ItemsInOrder, AllAccountedFor, RaisesOnlyEmpty
  <2>2. CASE pc \in {"idle", "attrs", "read"}
    <3>1. PyInv
      BY <2>2 DEF AnyInv
    <3> QED
      BY <3>1, PyAccounting DEF PyInv
  <2> QED
    BY <2>1, <2>2 DEF AnyInv, TypeOK
<1> QED
  BY <1>1, AnyAlways, PTL

(* Under pydasi as under a C client the element iterator is a Cursor. *)
THEOREM RetrievePathIsCursor == AnySpec => IsCursor
<1>1. AnyInit => C!Init
  BY DEF AnyInit, HandleInit, C!Init
<1>2. ASSUME AnyInv, [AnyNext]_vars
      PROVE  [C!Next]_(C!cursorState)
  <2>1. CASE PyCreate
    <3>1. PICK r \in Results : Create(r)
      BY <2>1 DEF PyCreate
    <3>2. Len(r) \in Nat
      BY ResultsAssumption DEF IsLayout
    <3>3. C!Open
      BY <3>1, <3>2 DEF Create, C!Open
    <3> QED
      BY <3>3 DEF C!Next
  <2>2. CASE CallNext
    BY <2>2, <1>2, NextRefines DEF AnyInv, CallNext, C!Next
  <2>3. CASE CallAttrs \/ CallRead
    BY <2>3 DEF CallAttrs, CallRead, RetrieveAttrs, RetrieveRead, cursorVars, C!cursorState
  <2>4. CASE pc = "c client" /\ HandleNext
    BY <1>2, <2>4, HandleStepRefines DEF AnyInv
  <2>5. CASE UNCHANGED vars
    BY <2>5 DEF vars, handleVars, cursorVars, C!cursorState
  <2> QED
    BY <1>2, <2>1, <2>2, <2>3, <2>4, <2>5 DEF AnyNext, Next
<1>3. AnySpec => AnyInit /\ [][AnyNext]_vars
  BY PTL DEF AnySpec
<1> QED
  BY <1>1, <1>2, <1>3, AnyAlways, PTL DEF IsCursor, C!Spec

(* StopIteration stays final next to everything else a process can do.      *)
THEOREM RetrievePathStops == AnySpec => StopIsFinal
<1>1. AnyInv /\ [AnyNext]_vars => [stopped => stopped' /\ items' = items /\ raised' = raised]_vars
  <2> SUFFICES ASSUME AnyInv, AnyNext, stopped
               PROVE  stopped' /\ items' = items /\ raised' = raised
    BY DEF vars
  <2>1. pc \in {"idle", "attrs", "read"} /\ PyInv
    BY DEF AnyInv, NotBegun, TypeOK
  <2>2. Next
    BY <2>1 DEF AnyNext, PyCreate
  <2>3. pc = "idle" /\ ~first /\ done
    BY <2>1 DEF PyInv, PcInv, TypeOK
  <2>4. CallNext /\ done'
    BY <2>2, <2>3 DEF Next, CallNext, CallAttrs, CallRead, RetrieveNext, Advance
  <2> QED
    BY <2>4 DEF CallNext, RetrieveNext
<1>2. AnySpec => AnyInit /\ [][AnyNext]_vars
  BY PTL DEF AnySpec
<1> QED
  BY <1>1, <1>2, AnyAlways, PTL DEF StopIsFinal

-----------------------------------------------------------------------------
(* The C calls that next() still makes at most before StopIteration: three  *)
(* per element not yet presented, and the one that reports completion.      *)
CallsLeft ==
  IF stopped THEN 0
  ELSE 3 * (Len(values) - visited) + CASE pc = "idle" -> 1 [] pc = "attrs" -> 3 [] pc = "read" -> 2

(* Every C call brings the iteration closer to StopIteration, whatever it   *)
(* returns: what next() raised for is not tried again, so that at most      *)
(* 3 n + 1 calls are made for n elements (the safety part of IterationEnds).*)
THEOREM EveryCallCounts ==
  Spec => [](CallsLeft \in Nat) /\ [][~stopped => CallsLeft' < CallsLeft]_vars
<1>1. PyInv => CallsLeft \in Nat
  <2> SUFFICES ASSUME PyInv PROVE CallsLeft \in Nat
    OBVIOUS
  <2>1. Len(values) \in Nat /\ visited \in 0..Len(values) /\ pc \in {"idle", "attrs", "read"}
    BY DEF PyInv, PcInv, HandleInv, HandleTypeOK, IsLayout
  <2>2. Len(values) - visited \in Nat
    BY <2>1
  <2> QED
    BY <2>1, <2>2 DEF CallsLeft
<1>2. PyInv /\ [Next]_vars => [~stopped => CallsLeft' < CallsLeft]_vars
  <2> SUFFICES ASSUME PyInv, Next, ~stopped
               PROVE  CallsLeft' < CallsLeft
    BY DEF vars
  <2>1. Len(values) \in Nat /\ visited \in 0..Len(values) /\ values' = values
    BY DEF PyInv, HandleInv, HandleTypeOK, IsLayout, Next, CallNext, CallAttrs, CallRead,
           RetrieveNext, RetrieveAttrs, RetrieveRead
  <2>2. CASE CallNext
    <3>1. CASE stopped'
      <4>1. CallsLeft' = 0 /\ CallsLeft = 3 * (Len(values) - visited) + 1
        BY <2>2, <3>1 DEF CallNext, CallsLeft
      <4> QED
        BY <2>1, <4>1
    <3>2. CASE ~stopped'
      <4>1. pc = "idle" /\ pc' = "attrs" /\ visited' = visited + 1
        BY <2>2, <3>2 DEF CallNext, RetrieveNext
      <4>2. CallsLeft = 3 * (Len(values) - visited) + 1 /\ CallsLeft' = 3 * (Len(values) - (visited + 1)) + 3
        BY <2>1, <3>2, <4>1 DEF CallsLeft
      <4> QED
        BY <2>1, <4>2
    <3> QED
      BY <3>1, <3>2
  <2>3. CASE CallAttrs
    <3>1. pc = "attrs" /\ pc' = "read" /\ visited' = visited /\ stopped' = stopped
      BY <2>3 DEF CallAttrs, RetrieveAttrs, cursorVars
    <3>2. CallsLeft = 3 * (Len(values) - visited) + 3 /\ CallsLeft' = 3 * (Len(values) - visited) + 2
      BY <2>1, <3>1 DEF CallsLeft
    <3> QED
      BY <2>1, <3>2
  <2>4. CASE CallRead
    <3>1. pc = "read" /\ pc' = "idle" /\ visited' = visited /\ stopped' = stopped
      BY <2>4 DEF CallRead, RetrieveRead, Raise, cursorVars
    <3>2. CallsLeft = 3 * (Len(values) - visited) + 2 /\ CallsLeft' = 3 * (Len(values) - visited) + 1
      BY <2>1, <3>1 DEF CallsLeft
    <3> QED
      BY <2>1, <3>2
  <2> QED
    BY <2>2, <2>3, <2>4 DEF Next
<1> QED
  BY <1>1, <1>2, PyInitInv, PyInductive, PTL DEF Spec
=============================================================================

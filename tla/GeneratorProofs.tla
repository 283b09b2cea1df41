--------------------------- MODULE GeneratorProofs ---------------------------
(***************************************************************************)
(* Proofs about the list, wipe and purge handles and about pydasi's List   *)
(* and Wipe on top of them, for results of any length and any number of    *)
(* exceptions of the fdb5 iterator.                                        *)
(***************************************************************************)
EXTENDS PyGenerator, TLAPS

(* Where the generator stands: dasiElement_ is the element pulled last; an  *)
(* end is reported only when all were pulled; the flag first goes with the  *)
(* position the constructor left.                                           *)
Position ==
  /\ elem = pulled
  /\ done => pulled = count
  /\ kind # "none" /\ ~done => pulled >= 1
  /\ kind # "none" /\ first => IF count = 0 THEN done /\ pulled = 0
                                          ELSE ~done /\ pulled = 1

HandleInv == TypeOK /\ Position

LEMMA InitInv == Init => HandleInv
<1> SUFFICES ASSUME Init PROVE HandleInv
  OBVIOUS
<1>1. done \in BOOLEAN /\ first \in BOOLEAN
  BY Zenon DEF Init
<1> QED
  BY <1>1, BoundsAssumption DEF Init, HandleInv, TypeOK, Position, Calls, Codes

(* A new handle stands on the first element, or at the end. *)
LEMMA CreateStep ==
  ASSUME HandleInv, NEW k \in Kinds, NEW n \in 0..MaxElements, Create(k, n)
  PROVE  HandleInv'
<1>1. done' \in BOOLEAN /\ first' \in BOOLEAN
  BY Zenon DEF Create
<1>2. n \in Nat /\ MaxThrows \in Nat
  BY BoundsAssumption
<1> QED
  BY <1>1, <1>2 DEF Create, HandleInv, TypeOK, Position, Returns, Calls, Codes, Kinds

(* What the part shared by the three next calls does to the position. *)
LEMMA StepFacts ==
  ASSUME HandleInv, kind # "none", Step
  PROVE  /\ count' = count /\ pulled' \in 0..count /\ throws' \in 0..MaxThrows
         /\ elem' \in 0..count /\ done' \in BOOLEAN /\ first' = FALSE
         /\ last' \in [call : Calls, rc : Codes]
         /\ elem' = pulled' /\ (done' => pulled' = count) /\ (~done' => pulled' >= 1)
<1>1. /\ count \in Nat /\ pulled \in 0..count /\ throws \in 0..MaxThrows /\ MaxThrows \in Nat
      /\ elem = pulled /\ done \in BOOLEAN /\ first \in BOOLEAN
      /\ (done => pulled = count) /\ (~done => pulled >= 1)
  BY BoundsAssumption DEF HandleInv, TypeOK, Position
<1>2. last' \in [call : Calls, rc : Codes]
  BY DEF Step, Returns, Calls, Codes
<1>3. /\ count' = count /\ pulled' \in 0..count /\ throws' \in 0..MaxThrows
      /\ elem' = pulled' /\ first' = FALSE
      /\ (done' => pulled' = count) /\ (~done' => pulled' >= 1)
  BY <1>1 DEF Step, PullElement, PullEnd, PullThrows, fdbVars
<1>4. done' \in BOOLEAN
  <2>1. done' = done \/ done' = TRUE \/ done' = FALSE
    BY Zenon DEF Step, PullElement, PullEnd, PullThrows
  <2> QED
    BY <1>1, <2>1
<1> QED
  BY <1>1, <1>2, <1>3, <1>4

LEMMA NextStep ==
  ASSUME HandleInv, ListNext \/ WipeNext \/ PurgeNext
  PROVE  HandleInv'
<1>1. kind # "none" /\ kind' = kind /\ Step /\ pointer' = pointer
  BY DEF ListNext, WipeNext, PurgeNext
<1>2. /\ count' = count /\ pulled' \in 0..count /\ throws' \in 0..MaxThrows
      /\ elem' \in 0..count /\ done' \in BOOLEAN /\ first' = FALSE
      /\ last' \in [call : Calls, rc : Codes]
      /\ elem' = pulled' /\ (done' => pulled' = count) /\ (~done' => pulled' >= 1)
  BY <1>1, StepFacts
<1>3. uriCache' = uriCache \/ uriCache' = elem'
  BY DEF ListNext, WipeNext, PurgeNext
<1> QED
  BY <1>1, <1>2, <1>3 DEF HandleInv, TypeOK, Position

(* The other calls leave the position alone. *)
LEMMA LookStep ==
  ASSUME HandleInv,
         Free \/ CreateFails \/ ListAttrs \/ ListCount \/ WipeGetValue \/ PurgeGetValue
  PROVE  HandleInv'
<1>1. /\ UNCHANGED <<fdbVars, elem, done, first, uriCache>>
      /\ kind' \in {kind, "none"} /\ pointer' \in {pointer, elem}
      /\ last' \in [call : Calls, rc : Codes]
  BY DEF Free, CreateFails, ListAttrs, ListCount, WipeGetValue, PurgeGetValue, GetValue,
         Returns, Calls, Codes
<1> QED
  BY <1>1 DEF HandleInv, TypeOK, Position, fdbVars

LEMMA HandleInductive == HandleInv /\ [Next]_vars => HandleInv'
<1> SUFFICES ASSUME HandleInv, [Next]_vars PROVE HandleInv'
  OBVIOUS
<1>1. CASE \E k \in Kinds, n \in 0..MaxElements : Create(k, n)
  BY <1>1, CreateStep
<1>2. CASE ListNext \/ WipeNext \/ PurgeNext
  BY <1>2, NextStep
<1>3. CASE Free \/ CreateFails \/ ListAttrs \/ ListCount \/ WipeGetValue \/ PurgeGetValue
  BY <1>3, LookStep
<1>4. CASE UNCHANGED vars
  BY <1>4 DEF vars, fdbVars, HandleInv, TypeOK, Position
<1> QED
  BY <1>1, <1>2, <1>3, <1>4 DEF Next

(* Every step of a handle is one of Cursor, or a stutter. *)
LEMMA StepRefines ==
  ASSUME HandleInv, ListNext \/ WipeNext \/ PurgeNext
  PROVE  C!Give \/ C!End \/ UNCHANGED C!cursorState
<1>1. /\ kind # "none" /\ kind' = kind /\ Step
      /\ count \in Nat /\ pulled \in 0..count /\ elem = pulled
      /\ done \in BOOLEAN /\ first \in BOOLEAN
      /\ (done => pulled = count) /\ (~done => pulled >= 1)
      /\ (first => IF count = 0 THEN done /\ pulled = 0 ELSE ~done /\ pulled = 1)
  BY DEF ListNext, WipeNext, PurgeNext, HandleInv, TypeOK, Position
<1>2. CASE first /\ done
  <2>1. first' = FALSE /\ elem' = elem /\ done' = done /\ count' = count
    BY <1>1, <1>2 DEF Step, fdbVars
  <2> QED
    BY <1>1, <1>2, <2>1 DEF C!End
<1>3. CASE first /\ ~done
  <2>1. first' = FALSE /\ elem' = elem /\ done' = done /\ count' = count
    BY <1>1, <1>3 DEF Step, fdbVars
  <2> QED
    BY <1>1, <1>3, <2>1 DEF C!Give
<1>4. CASE ~first /\ (UNCHANGED <<fdbVars, elem, done>> \/ PullThrows)
  <2>1. first' = first /\ elem' = elem /\ done' = done /\ count' = count
    BY <1>1, <1>4 DEF Step, fdbVars, PullThrows
  <2> QED
    BY <1>1, <2>1 DEF C!cursorState
<1>5. CASE ~first /\ ~done /\ PullElement
  <2>1. first' = first /\ elem' = elem + 1 /\ done' = FALSE /\ count' = count /\ elem < count
    BY <1>1, <1>5 DEF Step, PullElement
  <2> QED
    BY <1>1, <1>5, <2>1 DEF C!Give
<1>6. CASE ~first /\ ~done /\ PullEnd
  <2>1. first' = first /\ elem' = elem /\ done' = TRUE /\ count' = count /\ elem = count
    BY <1>1, <1>6 DEF Step, PullEnd, fdbVars
  <2> QED
    BY <1>1, <1>6, <2>1 DEF C!End
<1> QED
  BY <1>1, <1>2, <1>3, <1>4, <1>5, <1>6 DEF Step

LEMMA HandleRefines ==
  ASSUME HandleInv, [Next]_vars
  PROVE  [C!Next]_(C!cursorState)
<1>1. CASE \E k \in Kinds, n \in 0..MaxElements : Create(k, n)
  <2>1. PICK k \in Kinds, n \in 0..MaxElements : Create(k, n)
    BY <1>1
  <2>2. kind = "none" /\ kind' # "none" /\ count' = n /\ first' = TRUE
    BY <2>1 DEF Create, Kinds
  <2> QED
    BY <2>2 DEF C!Next, C!Open
<1>2. CASE ListNext \/ WipeNext \/ PurgeNext
  BY <1>2, StepRefines DEF C!Next
<1>3. CASE Free
  <2>1. kind # "none" /\ kind' = "none" /\ UNCHANGED <<count, elem, done, first>>
    BY <1>3 DEF Free, fdbVars
  <2> QED
    BY <2>1 DEF C!Next, C!Close
<1>4. CASE CreateFails \/ ListAttrs \/ ListCount \/ WipeGetValue \/ PurgeGetValue \/ UNCHANGED vars
  <2>1. UNCHANGED <<kind, count, elem, done, first>>
    BY <1>4 DEF CreateFails, ListAttrs, ListCount, WipeGetValue, PurgeGetValue, GetValue, vars, fdbVars
  <2> QED
    BY <2>1 DEF C!cursorState
<1> QED
  BY <1>1, <1>2, <1>3, <1>4 DEF Next

LEMMA InitRefines == Init => C!Init
  BY DEF Init, C!Init

(* Whatever a C client calls, and whenever fdb5 throws, every list, wipe    *)
(* and purge handle is a cursor: each element is presented once and in      *)
(* order, and the end is reported after the last and for good.              *)
THEOREM GeneratorIsCursor == Spec => IsCursor
  BY InitInv, HandleInductive, HandleRefines, InitRefines, PTL DEF Spec, IsCursor, C!Spec

-----------------------------------------------------------------------------
(* pydasi's List and Wipe. *)

Records == [key : 1..count, uri : 1..count]

(* What __next__ knows of the C handle between two of its calls. *)
Driven ==
  /\ pc \in {"c client", "new"} => items = << >> /\ ~stopped
  /\ pc = "new" => kind = "none"
  /\ pc \in {"idle", "read"} => kind \in {"list", "wipe"}
  /\ pc = "idle" => Len(items) = IF first THEN 0 ELSE elem
  /\ pc = "read" => /\ ~first /\ ~done /\ Len(items) = elem - 1
                    /\ kind = "list" => uriCache = elem
  /\ stopped => pc = "idle" /\ ~first /\ done

(* Where the pointer behind Wipe.value may point while a call of next() is  *)
(* not under way.                                                           *)
PointerKept ==
  /\ pc = "idle" => pointer = 0 \/ (~first /\ pointer = elem)
  /\ pc \in {"idle", "read"} /\ kind = "list" => pointer = 0

PyInv == PyTypeOK /\ Position /\ Driven /\ PointerKept /\ PyItemsExact

LEMMA NothingYet ==
  ASSUME NEW n, NEW s, s = << >>
  PROVE  /\ s \in Seq([key : 1..n, uri : 1..n]) /\ Len(s) = 0
         /\ \A k \in 1..Len(s) : s[k] = [key |-> k, uri |-> k]
  OBVIOUS

LEMMA NoItems == items = << >> => PyItemsExact /\ items \in Seq(Records) /\ Len(items) = 0
  BY NothingYet DEF PyItemsExact, Records

LEMMA PyInitInv == PyInit => PyInv
<1> SUFFICES ASSUME PyInit PROVE PyInv
  OBVIOUS
<1>1. HandleInv
  BY InitInv DEF PyInit
<1>2. /\ pc \in {"c client", "new"} /\ stopped = FALSE /\ kind = "none"
      /\ items = << >> /\ items \in Seq(Records) /\ PyItemsExact
  BY NoItems DEF PyInit, Init
<1> QED
  BY <1>1, <1>2 DEF HandleInv, PyInv, PyTypeOK, Driven, PointerKept, Records

(* Every step of pydasi is a step of a C client, or leaves the handle. *)
LEMMA PyStepIsCStep == [PyNext]_allVars => [Next]_vars
<1>1. PyCreate => Next
  BY DEF PyCreate, Next, Kinds
<1>2. Iterate => Next
  BY DEF Iterate, CallNext, ReadListItem, ReadWipeValue, Next
<1> QED
  BY <1>1, <1>2 DEF PyNext, allVars

LEMMA PyHandleInv == PyInv => HandleInv
  BY DEF PyInv, PyTypeOK, HandleInv

LEMMA CreateKeeps ==
  ASSUME PyInv, PyCreate
  PROVE  PyInv'
<1>1. HandleInv'
  BY PyHandleInv, PyStepIsCStep, HandleInductive DEF PyNext
<1>2. items = << >> /\ stopped = FALSE /\ items' = << >> /\ stopped' = FALSE
  BY DEF PyInv, Driven, PyTypeOK, PyCreate
<1>3. CASE CreateFails /\ pc' = pc
  BY <1>1, <1>2, <1>3 DEF PyCreate, CreateFails, PyInv, PyTypeOK, HandleInv, Driven,
     PointerKept, PyItemsExact
<1>4. CASE \E k \in {"list", "wipe"}, n \in 0..MaxElements : Create(k, n) /\ pc' = "idle"
  <2>1. kind' \in {"list", "wipe"} /\ first' = TRUE /\ pointer' = 0 /\ pc' = "idle"
    BY <1>4 DEF Create
  <2>2. PyItemsExact' /\ (items \in Seq(Records))' /\ Len(items') = 0
    BY <1>2, NothingYet DEF PyItemsExact, Records
  <2>3. Driven' /\ PointerKept'
    BY <1>2, <2>1, <2>2 DEF Driven, PointerKept
  <2>4. PyTypeOK'
    BY <1>1, <1>2, <2>1, <2>2 DEF PyTypeOK, HandleInv, Records
  <2> QED
    BY <1>1, <2>2, <2>3, <2>4 DEF PyInv, HandleInv
<1> QED
  BY <1>3, <1>4 DEF PyCreate

(* What a next call of the list or wipe handle tells pydasi. *)
LEMMA CallFacts ==
  ASSUME HandleInv, kind # "none", Step
  PROVE  /\ count' = count
         /\ last'.rc = "ITERATION_COMPLETE" =>
              /\ done' /\ ~first'
              /\ elem' = IF first THEN 0 ELSE elem
         /\ last'.rc = "ERROR" => UNCHANGED <<elem, done, first>>
         /\ last'.rc = "SUCCESS" =>
              /\ ~done' /\ ~first'
              /\ elem' = (IF first THEN 0 ELSE elem) + 1
<1>1. /\ count \in Nat /\ pulled \in 0..count /\ elem = pulled
      /\ done \in BOOLEAN /\ first \in BOOLEAN
      /\ (first => IF count = 0 THEN done /\ pulled = 0 ELSE ~done /\ pulled = 1)
  BY DEF HandleInv, TypeOK, Position
<1>2. CASE first
  <2>1. /\ first' = FALSE /\ UNCHANGED <<count, elem, done>>
        /\ last'.rc = IF done THEN "ITERATION_COMPLETE" ELSE "SUCCESS"
    BY <1>2 DEF Step, Returns, fdbVars
  <2>2. IF done THEN elem = 0 ELSE elem = 1
    BY <1>1, <1>2
  <2> QED
    BY <1>1, <1>2, <2>1, <2>2
<1>3. CASE ~first /\ done
  <2>1. UNCHANGED <<count, elem, done, first>> /\ last'.rc = "ITERATION_COMPLETE"
    <3>1. UNCHANGED <<fdbVars, elem, done>> /\ first' = first
      BY <1>3 DEF Step
    <3> QED
      BY <1>3, <3>1 DEF Step, Returns, fdbVars
  <2> QED
    BY <1>1, <1>3, <2>1
<1>4. CASE ~first /\ ~done
  <2>1. CASE PullElement /\ Returns("next", "SUCCESS") /\ first' = first
    BY <1>1, <1>4, <2>1 DEF PullElement, Returns
  <2>2. CASE PullEnd /\ Returns("next", "ITERATION_COMPLETE") /\ first' = first
    BY <1>1, <1>4, <2>2 DEF PullEnd, Returns, fdbVars
  <2>3. CASE PullThrows /\ Returns("next", "ERROR") /\ first' = first
    BY <1>1, <1>4, <2>3 DEF PullThrows, Returns
  <2>4. (PullElement => done' = FALSE) /\ (PullEnd => done' = TRUE)
    BY DEF PullElement, PullEnd
  <2> QED
    BY <1>4, <2>1, <2>2, <2>3, <2>4 DEF Step
<1> QED
  BY <1>1, <1>2, <1>3, <1>4

LEMMA CallKeeps ==
  ASSUME PyInv, CallNext
  PROVE  PyInv'
<1>1. HandleInv /\ HandleInv'
  BY PyHandleInv, PyStepIsCStep, HandleInductive DEF PyNext, Iterate
<1>2. /\ pc = "idle" /\ Step /\ kind' = kind /\ kind \in {"list", "wipe"}
      /\ pointer' = pointer /\ items' = items
      /\ kind = "list" => uriCache' = IF last'.rc = "SUCCESS" THEN elem' ELSE uriCache
  BY DEF CallNext, ListNext, WipeNext
<1>3. /\ Len(items) = IF first THEN 0 ELSE elem
      /\ pointer = 0 \/ (~first /\ pointer = elem)
      /\ stopped \in BOOLEAN /\ first \in BOOLEAN /\ done \in BOOLEAN
      /\ elem \in Nat /\ items \in Seq(Records) /\ PyItemsExact
      /\ stopped => ~first /\ done
  BY <1>2 DEF PyInv, Driven, PointerKept, PyTypeOK, TypeOK, Records
<1>4. count' = count
  BY <1>1, <1>2, CallFacts
<1>5. PyItemsExact' /\ items' \in Seq(Records)'
  BY <1>2, <1>3, <1>4 DEF PyItemsExact, Records
<1>6. CASE last'.rc = "ITERATION_COMPLETE" /\ stopped' = TRUE /\ pc' = pc
  <2>1. done' /\ ~first' /\ elem' = IF first THEN 0 ELSE elem
    BY <1>1, <1>2, <1>6, CallFacts
  <2>2. pointer' = 0 \/ (~first' /\ pointer' = elem')
    BY <1>2, <1>3, <2>1
  <2> QED
    BY <1>1, <1>2, <1>3, <1>5, <1>6, <2>1, <2>2
    DEF PyInv, HandleInv, PyTypeOK, Driven, PointerKept, Records
<1>7. CASE last'.rc = "ERROR" /\ UNCHANGED <<pc, stopped>>
  <2>1. UNCHANGED <<elem, done, first>>
    BY <1>1, <1>2, <1>7, CallFacts
  <2> QED
    BY <1>1, <1>2, <1>3, <1>5, <1>7, <2>1
    DEF PyInv, HandleInv, PyTypeOK, Driven, PointerKept, Records
<1>8. CASE last'.rc = "SUCCESS" /\ pc' = "read" /\ UNCHANGED stopped
  <2>1. ~done' /\ ~first' /\ elem' = (IF first THEN 0 ELSE elem) + 1
    BY <1>1, <1>2, <1>8, CallFacts
  <2>2. ~stopped
    <3>1. ASSUME stopped PROVE FALSE
      <4>1. ~first /\ done
        BY <1>3, <3>1
      <4>2. Returns("next", "ITERATION_COMPLETE")
        BY <1>2, <4>1 DEF Step
      <4> QED
        BY <1>8, <4>2 DEF Returns
    <3> QED
      BY <3>1
  <2>3. Len(items') = elem' - 1
    BY <1>2, <1>3, <2>1
  <2> QED
    BY <1>1, <1>2, <1>3, <1>5, <1>8, <2>1, <2>2, <2>3
    DEF PyInv, HandleInv, PyTypeOK, Driven, PointerKept, Records
<1> QED
  BY <1>6, <1>7, <1>8 DEF CallNext

LEMMA ReadKeeps ==
  ASSUME PyInv, ReadListItem \/ ReadWipeValue
  PROVE  PyInv'
<1>1. HandleInv /\ HandleInv'
  BY PyHandleInv, PyStepIsCStep, HandleInductive DEF PyNext, Iterate
<1>2. /\ pc = "read" /\ pc' = "idle" /\ stopped' = stopped
      /\ UNCHANGED <<kind, count, elem, done, first>>
      /\ kind \in {"list", "wipe"} /\ ~first /\ ~done /\ ~stopped
      /\ Len(items) = elem - 1 /\ items \in Seq(Records) /\ PyItemsExact
      /\ stopped \in BOOLEAN
  BY DEF ReadListItem, ReadWipeValue, ListAttrs, WipeGetValue, GetValue, fdbVars,
         PyInv, Driven, PyTypeOK, Records
<1>3. elem \in 1..count
  BY <1>1, <1>2 DEF HandleInv, TypeOK, Position
<1>4. /\ items' = Append(items, [key |-> elem, uri |-> elem])
      /\ pointer' \in {0, elem}
  <2>1. CASE ReadListItem
    <3>1. kind = "list" /\ uriCache = elem
      BY <1>2, <2>1 DEF ReadListItem, ListAttrs, PyInv, Driven
    <3> QED
      BY <2>1, <3>1 DEF ReadListItem, ListAttrs, PyInv, PointerKept
  <2>2. CASE ReadWipeValue
    BY <1>2, <2>2 DEF ReadWipeValue, WipeGetValue, GetValue
  <2> QED
    BY <2>1, <2>2
<1>5. /\ items' \in Seq(Records) /\ Len(items') = elem
      /\ \A k \in 1..Len(items') : items'[k] = [key |-> k, uri |-> k]
  <2>1. [key |-> elem, uri |-> elem] \in Records
    BY <1>3 DEF Records
  <2>2. elem \in Nat /\ Len(items) \in Nat /\ Len(items) + 1 = elem
    BY <1>2, <1>3
  <2> QED
    BY <1>2, <1>4, <2>1, <2>2 DEF PyItemsExact
<1>6. Driven'
  BY <1>2, <1>5 DEF Driven
<1>7. PointerKept'
  <2>1. kind = "list" => pointer' = 0
    BY <1>2 DEF ReadListItem, ListAttrs, ReadWipeValue, WipeGetValue, PyInv, PointerKept
  <2> QED
    BY <1>2, <1>4, <2>1 DEF PointerKept
<1>8. PyTypeOK' /\ PyItemsExact'
  BY <1>1, <1>2, <1>5 DEF HandleInv, PyTypeOK, PyItemsExact, Records
<1> QED
  BY <1>1, <1>6, <1>7, <1>8 DEF PyInv, HandleInv

LEMMA PyInductive == PyInv /\ [PyNext]_allVars => PyInv'
<1> SUFFICES ASSUME PyInv, [PyNext]_allVars PROVE PyInv'
  OBVIOUS
<1>1. CASE PyCreate
  BY <1>1, CreateKeeps
<1>2. CASE Iterate
  BY <1>2, CallKeeps, ReadKeeps DEF Iterate
<1>3. CASE pc = "c client" /\ Next /\ UNCHANGED pyVars
  <2>1. HandleInv'
    BY <1>3, PyHandleInv, HandleInductive
  <2>2. items' = << >> /\ stopped' = FALSE /\ pc' = "c client"
    BY <1>3 DEF pyVars, PyInv, Driven, PyTypeOK
  <2>3. PyItemsExact' /\ (items \in Seq(Records))'
    BY <2>2, NothingYet DEF PyItemsExact, Records
  <2> QED
    BY <2>1, <2>2, <2>3 DEF PyInv, HandleInv, PyTypeOK, Driven, PointerKept, Records
<1>4. CASE UNCHANGED allVars
  BY <1>4 DEF allVars, vars, pyVars, fdbVars, PyInv, PyTypeOK, TypeOK, Position, Driven,
              PointerKept, PyItemsExact
<1> QED
  BY <1>1, <1>2, <1>3, <1>4 DEF PyNext

LEMMA PyAlways == PySpec => []PyInv
  BY PyInitInv, PyInductive, PTL DEF PySpec

(* pydasi uses the handles as a cursor too: the whole of PySpec implements  *)
(* module Cursor.                                                           *)
THEOREM PyIsCursor == PySpec => IsCursor
<1>1. PyInit => C!Init
  BY InitRefines DEF PyInit
<1>2. PyInv /\ [PyNext]_allVars => [C!Next]_(C!cursorState)
  BY PyHandleInv, PyStepIsCStep, HandleRefines
<1> QED
  BY <1>1, <1>2, PyAlways, PTL DEF PySpec, IsCursor, C!Spec

(* Types of the Python iterators. *)
THEOREM PyTypeCorrect == PySpec => []PyTypeOK
<1>1. PyInv => PyTypeOK
  BY DEF PyInv
<1> QED
  BY <1>1, PyAlways, PTL

(* The k-th object of an iteration describes the k-th element of the        *)
(* result, its key and its URI alike, even when calls in between raised.    *)
THEOREM PyItemsAreElements == PySpec => []PyItemsExact
<1>1. PyInv => PyItemsExact
  BY DEF PyInv
<1> QED
  BY <1>1, PyAlways, PTL

(* StopIteration is raised only when every element was returned. *)
THEOREM PyStopsAtTheEnd == PySpec => []StopMeansAll
<1>1. PyInv => StopMeansAll
  <2> SUFFICES ASSUME PyInv, stopped PROVE Len(items) = count
    BY DEF StopMeansAll
  <2>1. pc = "idle" /\ ~first /\ done /\ Len(items) = elem
    BY DEF PyInv, Driven
  <2>2. elem = count
    BY <2>1 DEF PyInv, Position
  <2> QED
    BY <2>1, <2>2
<1> QED
  BY <1>1, PyAlways, PTL

(* Between two calls of next() the pointer behind Wipe.value points into    *)
(* the string the generator holds.                                          *)
THEOREM PyValueIsFresh == PySpec => []WipeValueFresh
<1>1. PyInv => WipeValueFresh
  BY DEF PyInv, PointerKept, WipeValueFresh
<1> QED
  BY <1>1, PyAlways, PTL

(* StopIteration of List and Wipe is final, and nothing is returned after it *)
(* (ListGeneratorImpl::next does nothing once done_).                       *)
StaysStopped == stopped => stopped' /\ items' = items

LEMMA StepStaysStopped == PyInv /\ [PyNext]_allVars => StaysStopped
<1> SUFFICES ASSUME PyInv, [PyNext]_allVars, stopped PROVE stopped' /\ items' = items
  BY DEF StaysStopped
<1>1. pc = "idle" /\ ~first /\ done
  BY DEF PyInv, Driven
<1>2. CASE CallNext
  <2>1. Step /\ items' = items
    BY <1>2 DEF CallNext, ListNext, WipeNext
  <2>2. last'.rc = "ITERATION_COMPLETE"
    <3>1. UNCHANGED <<fdbVars, elem, done>>
      BY <1>1, <2>1 DEF Step
    <3> QED
      BY <1>1, <2>1, <3>1 DEF Step, Returns
  <2> QED
    BY <1>2, <2>1, <2>2 DEF CallNext
<1>3. CASE UNCHANGED allVars
  BY <1>3 DEF allVars, pyVars
<1> QED
  BY <1>1, <1>2, <1>3 DEF PyNext, PyCreate, Iterate, ReadListItem, ReadWipeValue

THEOREM PyStopIsFinal == PySpec => [][StaysStopped]_allVars
  BY PyAlways, StepStaysStopped, PTL DEF PySpec

(* The C calls an iteration still has to make until StopIteration: two per  *)
(* element, one that reports the end, and one per exception to come.        *)
Given == IF first THEN 0 ELSE elem

CallsLeft ==
  2 * (count - Given) + (MaxThrows - throws)
    + (IF pc = "read" THEN 1 ELSE 0) + (IF stopped THEN 0 ELSE 1)

Iterating == pc \in {"idle", "read"}

GoesOn == Iterating /\ ~stopped => (Iterate => CallsLeft' < CallsLeft)

FewCalls == Iterating => CallsLeft \in Nat

LEMMA CallsLeftIsNat == PyInv => FewCalls
<1> SUFFICES ASSUME PyInv, Iterating PROVE CallsLeft \in Nat
  BY DEF FewCalls
<1>1. count \in Nat /\ elem \in 0..count /\ MaxThrows \in Nat /\ throws \in 0..MaxThrows
  <2>1. TypeOK
    BY DEF PyInv, PyTypeOK
  <2> QED
    BY <2>1, BoundsAssumption DEF TypeOK
<1>2. count - Given \in Nat /\ MaxThrows - throws \in Nat
  BY <1>1 DEF Given
<1> QED
  BY <1>2 DEF CallsLeft

LEMMA IterateGoesOn == PyInv /\ [PyNext]_allVars => GoesOn
<1> SUFFICES ASSUME PyInv, [PyNext]_allVars, Iterating, ~stopped, Iterate
             PROVE  CallsLeft' < CallsLeft
  BY DEF GoesOn
<1>1. /\ count \in Nat /\ Given \in 0..count /\ MaxThrows \in Nat
      /\ throws \in 0..MaxThrows /\ first \in BOOLEAN /\ stopped \in BOOLEAN
  <2>1. TypeOK /\ stopped \in BOOLEAN
    BY DEF PyInv, PyTypeOK
  <2> QED
    BY <2>1, BoundsAssumption DEF TypeOK, Given
<1>2. CASE CallNext
  <2>1. HandleInv /\ Step /\ kind # "none" /\ pc = "idle"
    BY <1>2, PyHandleInv DEF CallNext, ListNext, WipeNext
  <2>2. /\ count' = count
        /\ last'.rc = "ITERATION_COMPLETE" => ~first' /\ elem' = Given
        /\ last'.rc = "ERROR" => UNCHANGED <<elem, first>>
        /\ last'.rc = "SUCCESS" => ~first' /\ elem' = Given + 1
    BY <2>1, CallFacts DEF Given
  <2>3. /\ throws' = throws \/ throws' = throws + 1
        /\ last'.rc = "ERROR" => throws' = throws + 1
    BY <2>1 DEF Step, Returns, PullElement, PullEnd, PullThrows, fdbVars
  <2>4. CallsLeft = 2 * (count - Given) + (MaxThrows - throws) + 1
    BY <1>1, <2>1 DEF CallsLeft
  <2>5. CASE last'.rc = "ITERATION_COMPLETE" /\ stopped' = TRUE /\ pc' = pc
    <3>1. Given' = Given
      BY <2>2, <2>5 DEF Given
    <3>2. pc' = "idle" /\ stopped' = TRUE /\ count' = count /\ throws' \in Nat
      BY <1>1, <2>1, <2>2, <2>3, <2>5
    <3>3. CallsLeft' = 2 * (count - Given) + (MaxThrows - throws')
      BY <1>1, <3>1, <3>2 DEF CallsLeft
    <3> QED
      BY <1>1, <2>3, <2>4, <3>3
  <2>6. CASE last'.rc = "ERROR" /\ UNCHANGED <<pc, stopped>>
    <3>1. Given' = Given
      BY <2>2, <2>6 DEF Given
    <3>2. pc' = "idle" /\ stopped' = FALSE /\ count' = count /\ throws' \in Nat
      BY <1>1, <2>1, <2>2, <2>3, <2>6
    <3>3. CallsLeft' = 2 * (count - Given) + (MaxThrows - throws') + 1
      BY <1>1, <3>1, <3>2 DEF CallsLeft
    <3> QED
      BY <1>1, <2>3, <2>4, <2>6, <3>3
  <2>7. CASE last'.rc = "SUCCESS" /\ pc' = "read" /\ UNCHANGED stopped
    <3>1. Given' = Given + 1
      BY <2>2, <2>7 DEF Given
    <3>2. /\ CallsLeft' = 2 * (count - (Given + 1)) + (MaxThrows - throws') + 1 + 1
          /\ CallsLeft = 2 * (count - Given) + (MaxThrows - throws) + 1
      BY <1>1, <2>1, <2>2, <2>7, <3>1 DEF CallsLeft
    <3> QED
      BY <1>1, <2>3, <3>2
  <2> QED
    BY <1>2, <2>5, <2>6, <2>7 DEF CallNext
<1>3. CASE ReadListItem \/ ReadWipeValue
  <2>1. /\ pc = "read" /\ pc' = "idle" /\ stopped' = stopped
        /\ UNCHANGED <<count, throws, elem, first>>
    BY <1>3 DEF ReadListItem, ReadWipeValue, ListAttrs, WipeGetValue, GetValue, fdbVars
  <2>2. Given' = Given
    BY <2>1 DEF Given
  <2>3. /\ CallsLeft' = 2 * (count - Given) + (MaxThrows - throws) + 1
        /\ CallsLeft = 2 * (count - Given) + (MaxThrows - throws) + 1 + 1
    BY <1>1, <2>1, <2>2 DEF CallsLeft
  <2> QED
    BY <1>1, <2>3
<1> QED
  BY <1>2, <1>3 DEF Iterate

(* The safety part of IterationEnds: an iteration over n elements makes at  *)
(* most 2n + 1 C calls, and one more for every exception, until             *)
(* StopIteration.                                                           *)
THEOREM PyMakesFewCalls == PySpec => []FewCalls /\ [][GoesOn]_allVars
  BY PyAlways, CallsLeftIsNat, IterateGoesOn, PTL DEF PySpec
=============================================================================

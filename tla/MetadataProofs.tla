--------------------------- MODULE MetadataProofs ---------------------------
(***************************************************************************)
(* Proofs about the metadata of an object: MetadataObjects for any number  *)
(* of variables, blocks, wrappers, keywords and values, and the texts of   *)
(* Key, Query and DID names (Texts) for any characters and any length.     *)
(***************************************************************************)
EXTENDS MetadataObjects, Texts, FiniteSetTheorems, WellFoundedInduction, TLAPS

(* Sequences of values, and maps of keywords to them. *)
LEMMA ListsAre ==
  ASSUME NEW l
  PROVE  l \in Lists <=> \E n \in (IF kind = "key" THEN {1} ELSE 0..MaxValues) : l \in [1..n -> Values]
BY DEF Lists

LEMMA MapsAre ==
  ASSUME NEW m
  PROVE  m \in Maps <=> \E D \in SUBSET Keywords : m \in [D -> Lists]
BY DEF Maps

LEMMA MapFacts ==
  ASSUME NEW m \in Maps
  PROVE  DOMAIN m \subseteq Keywords /\ (\A k \in DOMAIN m : m[k] \in Lists) /\ m = [k \in DOMAIN m |-> m[k]]
<1>1. PICK D \in SUBSET Keywords : m \in [D -> Lists]
  BY MapsAre
<1> QED
  BY <1>1

LEMMA EmptyMap == << >> \in Maps
<1>1. << >> \in [{} -> Lists]
  BY DEF Lists
<1> QED
  BY <1>1, MapsAre

LEMMA MapOperations ==
  ASSUME NEW m \in Maps
  PROVE  /\ \A k \in Keywords, l \in Lists : Put(m, k, l) \in Maps
         /\ \A d \in Maps : PutAll(m, d) \in Maps
         /\ \A k : Erase(m, k) \in Maps
<1>1. DOMAIN m \subseteq Keywords /\ \A k \in DOMAIN m : m[k] \in Lists
  BY MapFacts
<1>2. ASSUME NEW k \in Keywords, NEW l \in Lists PROVE Put(m, k, l) \in Maps
  <2>1. Put(m, k, l) \in [DOMAIN m \cup {k} -> Lists]
    BY <1>1 DEF Put
  <2> QED
    BY <1>1, <2>1, MapsAre
<1>3. ASSUME NEW d \in Maps PROVE PutAll(m, d) \in Maps
  <2>1. DOMAIN d \subseteq Keywords /\ \A k \in DOMAIN d : d[k] \in Lists
    BY MapFacts
  <2>2. PutAll(m, d) \in [DOMAIN m \cup DOMAIN d -> Lists]
    BY <1>1, <2>1 DEF PutAll
  <2> QED
    BY <1>1, <2>1, <2>2, MapsAre
<1>4. ASSUME NEW k PROVE Erase(m, k) \in Maps
  <2>1. Erase(m, k) \in [DOMAIN m \ {k} -> Lists]
    BY <1>1 DEF Erase
  <2> QED
    BY <1>1, <2>1, MapsAre
<1> QED
  BY <1>2, <1>3, <1>4

LEMMA SequenceIsFunction ==
  ASSUME NEW S, NEW s \in Seq(S), NEW n, n = Len(s)
  PROVE  s \in [1..n -> S]
  OBVIOUS

(* A value is appended to those of a keyword, within the bound. *)
LEMMA AppendInMaps ==
  ASSUME kind = "query", NEW m \in Maps, NEW k \in Keywords, NEW x \in Values,
         k \in DOMAIN m => Len(m[k]) < MaxValues
  PROVE  Append1(m, k, x) \in Maps
<1>1. <<x>> \in Lists
  <2>1. <<x>> \in [1..1 -> Values] /\ 1 \in 0..MaxValues
    BY ObjectsAssumption
  <2> QED
    BY <2>1, ListsAre
<1>2. ASSUME k \in DOMAIN m PROVE Append(m[k], x) \in Lists
  <2>1. PICK n \in 0..MaxValues : m[k] \in [1..n -> Values]
    BY <1>2, MapFacts, ListsAre
  <2>2. n \in Nat /\ m[k] \in Seq(Values) /\ Len(m[k]) = n
    BY <2>1, ObjectsAssumption
  <2>3. n + 1 \in 0..MaxValues
    BY <1>2, <2>1, <2>2, ObjectsAssumption
  <2>4. Append(m[k], x) \in [1..n + 1 -> Values]
    <3>1. Append(m[k], x) \in Seq(Values) /\ Len(Append(m[k], x)) = n + 1
      BY <2>2
    <3> QED
      BY <3>1, SequenceIsFunction
  <2> QED
    BY <2>3, <2>4, ListsAre
<1> QED
  BY <1>1, <1>2, MapOperations DEF Append1

-----------------------------------------------------------------------------
(* Ownership: each cdata in use points to an object that is alive and that  *)
(* no other cdata points to, and each object has its cdata.                 *)
Owned ==
  /\ ~badFree
  /\ \A w \in Wrappers : Reachable(w) => wraps[w] # None
  /\ \A w \in Wrappers : wraps[w] # None => wraps[w] \in live
  /\ \A b \in live : \E w \in Wrappers : wraps[w] = b
  /\ \A u, w \in Wrappers : wraps[u] # None /\ wraps[u] = wraps[w] => u = w

ObjectsInv == TypeOK /\ Owned

LEMMA InitInv ==
  ASSUME Init
  PROVE  ObjectsInv
<1>1. TypeOK
  BY EmptyMap DEF Init, TypeOK
<1>2. \A w \in Wrappers : ~Reachable(w)
  BY ObjectsAssumption DEF Init, Reachable, None
<1> QED
  BY <1>1, <1>2 DEF Init, ObjectsInv, Owned

LEMMA VarFacts ==
  ASSUME ObjectsInv, NEW v \in Vars, var[v] # None
  PROVE  /\ var[v] \in Wrappers /\ Reachable(var[v]) /\ wraps[var[v]] \in Blocks
         /\ Object(v) \in Maps
<1>1. var[v] \in Wrappers /\ Reachable(var[v])
  BY DEF ObjectsInv, TypeOK, Reachable
<1>2. wraps[var[v]] \in Blocks
  BY <1>1 DEF ObjectsInv, Owned, TypeOK
<1> QED
  BY <1>1, <1>2 DEF ObjectsInv, TypeOK, Object

LEMMA Allocates ==
  ASSUME ObjectsInv, NEW b \in Blocks, NEW w \in Wrappers, NEW m \in Maps, Allocate(b, w, m),
         UNCHANGED <<kind, badFree>>,
         \/ UNCHANGED <<var, arg>>
         \/ UNCHANGED arg /\ \E v \in Vars : var' = [var EXCEPT ![v] = w]
         \/ UNCHANGED var /\ arg' = w
  PROVE  ObjectsInv'
<1>1. /\ live' = live \cup {b} /\ wraps' = [wraps EXCEPT ![w] = b] /\ heap' = [heap EXCEPT ![b] = m]
      /\ b \notin live /\ wraps[w] = None
  BY DEF Allocate
<1>2. Maps' = Maps
  BY DEF Maps, Lists
<1>3. TypeOK'
  BY <1>1, <1>2 DEF ObjectsInv, TypeOK
<1>4. b # None
  BY ObjectsAssumption DEF None
<1>5. /\ wraps'[w] = b
      /\ \A u \in Wrappers \ {w} : wraps'[u] = wraps[u]
      /\ \A u \in Wrappers : wraps[u] # b
  BY <1>1, <1>4 DEF ObjectsInv, TypeOK, Owned
<1>6. \A u \in Wrappers : Reachable(u)' => Reachable(u) \/ u = w
  BY DEF ObjectsInv, TypeOK, Reachable
<1>7. Owned'
  <2>1. \A u \in Wrappers : Reachable(u)' => wraps'[u] # None
    BY <1>4, <1>5, <1>6 DEF ObjectsInv, Owned
  <2>2. \A u \in Wrappers : wraps'[u] # None => wraps'[u] \in live'
    BY <1>1, <1>5 DEF ObjectsInv, Owned
  <2>3. \A x \in live' : \E u \in Wrappers : wraps'[u] = x
    <3>1. ASSUME NEW x \in live PROVE \E u \in Wrappers : wraps'[u] = x
      <4>1. PICK u \in Wrappers : wraps[u] = x
        BY DEF ObjectsInv, Owned
      <4>2. x # None
        BY ObjectsAssumption DEF ObjectsInv, TypeOK, None
      <4>3. u # w
        BY <1>1, <4>1, <4>2
      <4> QED
        BY <1>5, <4>1, <4>3
    <3> QED
      BY <1>1, <1>5, <3>1
  <2>4. \A u, x \in Wrappers : wraps'[u] # None /\ wraps'[u] = wraps'[x] => u = x
    BY <1>5 DEF ObjectsInv, Owned
  <2> QED
    BY <2>1, <2>2, <2>3, <2>4 DEF ObjectsInv, Owned
<1> QED
  BY <1>3, <1>7 DEF ObjectsInv

LEMMA Refers ==
  ASSUME ObjectsInv, UNCHANGED <<kind, live, heap, wraps, badFree>>,
         \/ UNCHANGED arg /\ \E v \in Vars, u \in Vars : var[u] # None /\ var' = [var EXCEPT ![v] = var[u]]
         \/ UNCHANGED arg /\ \E v \in Vars : var' = [var EXCEPT ![v] = None]
         \/ UNCHANGED var /\ (arg' = None \/ \E v \in Vars : var[v] # None /\ arg' = var[v])
  PROVE  ObjectsInv'
<1>1. Maps' = Maps
  BY DEF Maps, Lists
<1>2. TypeOK'
  BY <1>1 DEF ObjectsInv, TypeOK
<1>3. \A w \in Wrappers : Reachable(w)' => Reachable(w)
  BY ObjectsAssumption DEF ObjectsInv, TypeOK, Reachable, None
<1> QED
  BY <1>2, <1>3 DEF ObjectsInv, Owned

LEMMA Updates ==
  ASSUME ObjectsInv, NEW v \in Vars, var[v] # None, NEW m \in Maps, Update(v, m)
  PROVE  ObjectsInv'
<1>1. /\ UNCHANGED <<kind, live, wraps, var, arg, badFree>>
      /\ heap' = [heap EXCEPT ![wraps[var[v]]] = m]
  BY DEF Update
<1>2. Maps' = Maps
  BY <1>1 DEF Maps, Lists
<1>3. TypeOK'
  BY <1>1, <1>2 DEF ObjectsInv, TypeOK
<1> QED
  BY <1>1, <1>3 DEF ObjectsInv, Owned, Reachable

LEMMA Uses ==
  ASSUME ObjectsInv, NEW v \in Vars, Use(v)
  PROVE  ObjectsInv'
<1>1. var[v] # None
  BY DEF Use, SetItem, DelItem, ClearAll, Insert, AppendItem
<1>2. Object(v) \in Maps
  BY <1>1, VarFacts
<1>3. PICK m \in Maps : Update(v, m)
  <2>1. ASSUME NEW k \in Keywords, NEW l \in Lists, SetItem(v, k, l) PROVE \E m \in Maps : Update(v, m)
    BY <1>2, <2>1, MapOperations DEF SetItem
  <2>2. ASSUME NEW k \in Keywords, DelItem(v, k) PROVE \E m \in Maps : Update(v, m)
    BY <1>2, <2>2, MapOperations DEF DelItem
  <2>3. ASSUME ClearAll(v) PROVE \E m \in Maps : Update(v, m)
    BY <2>3, EmptyMap DEF ClearAll
  <2>4. ASSUME NEW d \in Maps, Insert(v, d) PROVE \E m \in Maps : Update(v, m)
    BY <1>2, <2>4, MapOperations DEF Insert
  <2>5. ASSUME NEW k \in Keywords, NEW x \in Values, AppendItem(v, k, x) PROVE \E m \in Maps : Update(v, m)
    BY <1>2, <2>5, AppendInMaps DEF AppendItem
  <2> QED
    BY <2>1, <2>2, <2>3, <2>4, <2>5 DEF Use
<1> QED
  BY <1>1, <1>3, Updates

LEMMA Finalizes ==
  ASSUME ObjectsInv, NEW w \in Wrappers, Finalize(w)
  PROVE  ObjectsInv'
<1>1. /\ wraps[w] # None /\ ~Reachable(w) /\ UNCHANGED <<kind, var, arg>>
      /\ live' = live \ {wraps[w]} /\ heap' = [heap EXCEPT ![wraps[w]] = << >>]
      /\ badFree' = (badFree \/ wraps[w] \notin live) /\ wraps' = [wraps EXCEPT ![w] = None]
  BY DEF Finalize
<1>2. Maps' = Maps /\ wraps[w] \in live /\ wraps[w] \in Blocks
  BY <1>1 DEF Maps, Lists, ObjectsInv, Owned, TypeOK
<1>3. ~badFree'
  BY <1>1, <1>2, Zenon DEF ObjectsInv, Owned
<1>4. TypeOK'
  BY <1>1, <1>2, <1>3, EmptyMap DEF ObjectsInv, TypeOK
<1>5. \A u \in Wrappers : wraps'[u] = IF u = w THEN None ELSE wraps[u]
  BY <1>1 DEF ObjectsInv, TypeOK
<1>6. \A u \in Wrappers : Reachable(u)' <=> Reachable(u)
  BY <1>1 DEF Reachable
<1>7. \A b \in live : b # None
  BY ObjectsAssumption DEF ObjectsInv, TypeOK, None
<1>8. Owned'
  BY <1>1, <1>2, <1>3, <1>5, <1>6, <1>7 DEF ObjectsInv, Owned
<1> QED
  BY <1>4, <1>8 DEF ObjectsInv

LEMMA NextInv ==
  ASSUME ObjectsInv, [Next]_vars
  PROVE  ObjectsInv'
<1>1. ASSUME UNCHANGED vars PROVE ObjectsInv'
  <2>1. UNCHANGED <<kind, live, heap, wraps, var, arg, badFree>>
    BY <1>1 DEF vars
  <2> QED
    BY <2>1 DEF ObjectsInv, TypeOK, Owned, Reachable, Maps, Lists
<1>2. ASSUME NEW m \in Maps, NewRaises(m) \/ CallWithDict(m) \/ \E v \in Vars : New(v, m)
      PROVE  ObjectsInv'
  BY <1>2, Allocates DEF New, NewRaises, CallWithDict
<1>3. ASSUME NEW v \in Vars, (\E u \in Vars : Copy(v, u)) \/ Drop(v) \/ CallWith(v)
      PROVE  ObjectsInv'
  BY <1>3, Refers DEF Copy, Drop, CallWith
<1>4. ASSUME CallReturns PROVE ObjectsInv'
  BY <1>4, Refers DEF CallReturns
<1>5. ASSUME NEW v \in Vars, Use(v) PROVE ObjectsInv'
  BY <1>5, Uses
<1>6. ASSUME NEW w \in Wrappers, Finalize(w) PROVE ObjectsInv'
  BY <1>6, Finalizes
<1> QED
  BY <1>1, <1>2, <1>3, <1>4, <1>5, <1>6 DEF Next

LEMMA Always == Spec => []ObjectsInv
<1>1. Init => ObjectsInv
  BY InitInv
<1>2. ObjectsInv /\ [Next]_vars => ObjectsInv'
  BY NextInv
<1> QED
  BY <1>1, <1>2, PTL DEF Spec

(* The type invariant of Python objects, cdata and C objects (key.py,       *)
(* query.py).                                                               *)
THEOREM ObjectsTypeCorrect == Spec => []TypeOK
<1>1. ObjectsInv => TypeOK
  BY DEF ObjectsInv
<1> QED
  BY <1>1, Always, PTL

(* What a variable or a call refers to was not freed, for any number of     *)
(* objects that share cdata.                                                *)
THEOREM NothingDangles == Spec => []NoDangling
<1>1. ObjectsInv => NoDangling
  BY DEF ObjectsInv, Owned, NoDangling
<1> QED
  BY <1>1, Always, PTL

(* Each C object has exactly one cdata to free it, whatever is shared,      *)
(* dropped or collected, and nothing is freed twice.                        *)
THEOREM EveryObjectHasOneOwner == Spec => []OneOwner
<1>1. ObjectsInv => OneOwner
  <2> SUFFICES ASSUME ObjectsInv, NEW b \in live
               PROVE  Cardinality({w \in Wrappers : wraps[w] = b}) = 1
    BY DEF ObjectsInv, Owned, OneOwner
  <2>1. b # None
    BY ObjectsAssumption DEF ObjectsInv, TypeOK, None
  <2>2. PICK w \in Wrappers : wraps[w] = b
    BY DEF ObjectsInv, Owned
  <2>3. {u \in Wrappers : wraps[u] = b} = {w}
    BY <2>1, <2>2 DEF ObjectsInv, Owned
  <2> QED
    BY <2>3, FS_Singleton
<1> QED
  BY <1>1, Always, PTL

-----------------------------------------------------------------------------
(* A set of numbers has a least one. *)
LEMMA LeastNumber ==
  ASSUME NEW T, T \subseteq Nat, T # {}
  PROVE  \E x \in T : \A y \in T : x <= y
<1> DEFINE R == OpToRel(<, Nat)
<1>1. PICK x \in T : \A y \in T : ~(<<y, x>> \in R)
  <2> HIDE DEF R
  <2>1. IsWellFoundedOn(R, Nat)
    BY NatLessThanWellFounded DEF R
  <2> QED
    BY <2>1, WFMin
<1>2. \A y \in T : y < x => <<y, x>> \in R
  BY DEF OpToRel
<1> HIDE DEF R
<1>3. \A y \in T : ~(y < x)
  BY <1>1, <1>2
<1>4. \A y \in T : y \in Int /\ x \in Int
  OBVIOUS
<1> QED
  BY <1>3, <1>4

(* The maps of keys: numbers to sequences of one number. *)
KeyMap(m) == DOMAIN m \subseteq Nat /\ \A k \in DOMAIN m : m[k] \in [1..1 -> Nat]

Agree(m, n, k) == k \in DOMAIN m \cap DOMAIN n /\ m[k] = n[k]

(* The keyword at which Less decides. *)
Decides(m, n, k) ==
  \/ k \notin DOMAIN m /\ \A i \in DOMAIN m : i < k
  \/ k \in DOMAIN m /\ k \notin DOMAIN n /\ \E i \in DOMAIN n : i >= k
  \/ k \in DOMAIN m /\ k \in DOMAIN n /\ m[k][1] < n[k][1]

LEMMA LessIs ==
  ASSUME NEW m, NEW n, KeyMap(m), KeyMap(n)
  PROVE  Less(m, n) <=> \E k \in DOMAIN m \cup DOMAIN n :
           Decides(m, n, k) /\ \A i \in DOMAIN m \cup DOMAIN n : i < k => Agree(m, n, i)
<1>1. ASSUME NEW k \in DOMAIN m \cup DOMAIN n
      PROVE  /\ {i \in DOMAIN m : i >= k} = {} <=> \A i \in DOMAIN m : i < k
             /\ {i \in DOMAIN n : i >= k} # {} <=> \E i \in DOMAIN n : i >= k
  BY DEF KeyMap
<1> QED
  BY <1>1 DEF Less, Decides, Agree

LEMMA LessIsOneWay ==
  ASSUME NEW m, NEW n, KeyMap(m), KeyMap(n), Less(m, n)
  PROVE  ~Less(n, m)
<1> SUFFICES ASSUME Less(n, m) PROVE FALSE
  OBVIOUS
<1>1. PICK k \in DOMAIN m \cup DOMAIN n :
        Decides(m, n, k) /\ \A i \in DOMAIN m \cup DOMAIN n : i < k => Agree(m, n, i)
  BY LessIs
<1>2. PICK l \in DOMAIN m \cup DOMAIN n :
        Decides(n, m, l) /\ \A i \in DOMAIN m \cup DOMAIN n : i < l => Agree(n, m, i)
  BY LessIs
<1>3. k \in Nat /\ l \in Nat
  BY DEF KeyMap
<1>4. \A i \in DOMAIN m \cap DOMAIN n : m[i][1] \in Nat /\ n[i][1] \in Nat
  BY DEF KeyMap
<1>5. CASE k < l
  BY <1>1, <1>2, <1>3, <1>4, <1>5 DEF Decides, Agree
<1>6. CASE l < k
  BY <1>1, <1>2, <1>3, <1>4, <1>6 DEF Decides, Agree
<1>7. CASE k = l
  BY <1>1, <1>2, <1>3, <1>4, <1>7 DEF Decides, KeyMap
<1> QED
  BY <1>3, <1>5, <1>6, <1>7

LEMMA LessIsTotal ==
  ASSUME NEW m, NEW n, KeyMap(m), KeyMap(n), ~Less(m, n), ~Less(n, m),
         m = [i \in DOMAIN m |-> m[i]], n = [i \in DOMAIN n |-> n[i]]
  PROVE  m = n
<1> DEFINE D == {k \in DOMAIN m \cup DOMAIN n : ~Agree(m, n, k)}
<1>1. CASE D = {}
  <2>1. DOMAIN m = DOMAIN n /\ \A i \in DOMAIN m : m[i] = n[i]
    BY <1>1 DEF Agree
  <2> QED
    BY <2>1
<1>2. CASE D # {}
  <2>1. PICK k \in D : \A y \in D : k <= y
    <3>1. D \subseteq Nat
      BY DEF KeyMap
    <3> QED
      BY <1>2, <3>1, LeastNumber
  <2>2. k \in Nat /\ \A i \in DOMAIN m \cup DOMAIN n : i \in Nat /\ (i < k => Agree(m, n, i) /\ Agree(n, m, i))
    BY <2>1 DEF KeyMap, Agree
  <2>3. ~Decides(m, n, k) /\ ~Decides(n, m, k)
    BY <2>1, <2>2, LessIs
  <2>4. CASE k \in DOMAIN m \cap DOMAIN n
    <3>1. m[k][1] \in Nat /\ n[k][1] \in Nat /\ m[k] # n[k] /\ m[k] \in [1..1 -> Nat] /\ n[k] \in [1..1 -> Nat]
      BY <2>1, <2>4 DEF KeyMap, Agree
    <3>2. m[k][1] # n[k][1]
      BY <3>1
    <3> QED
      BY <2>3, <2>4, <3>1, <3>2 DEF Decides
  <2>5. CASE k \notin DOMAIN m
    BY <2>1, <2>2, <2>3, <2>5 DEF Decides
  <2>6. CASE k \notin DOMAIN n
    BY <2>1, <2>2, <2>3, <2>6 DEF Decides
  <2> QED
    BY <2>4, <2>5, <2>6
<1> QED
  BY <1>1, <1>2

(* Of two comparisons in a row the smaller of the deciding keywords decides *)
(* between the first key and the last; where both were decided at one that  *)
(* neither of them has, the next one of the last key does.                  *)
LEMMA LessIsTransitive ==
  ASSUME NEW m, NEW n, NEW l, KeyMap(m), KeyMap(n), KeyMap(l), Less(m, n), Less(n, l)
  PROVE  Less(m, l)
<1> DEFINE DecidedAt(q) == /\ q \in DOMAIN m \cup DOMAIN l /\ Decides(m, l, q)
                           /\ \A i \in DOMAIN m \cup DOMAIN l : i < q => Agree(m, l, i)
<1>1. PICK k \in DOMAIN m \cup DOMAIN n :
        Decides(m, n, k) /\ \A i \in DOMAIN m \cup DOMAIN n : i < k => Agree(m, n, i)
  BY LessIs
<1>2. PICK j \in DOMAIN n \cup DOMAIN l :
        Decides(n, l, j) /\ \A i \in DOMAIN n \cup DOMAIN l : i < j => Agree(n, l, i)
  BY LessIs
<1>3. k \in Nat /\ j \in Nat /\ \A i \in DOMAIN m \cup DOMAIN n \cup DOMAIN l : i \in Nat
  BY DEF KeyMap
<1>4. \A i \in DOMAIN m \cup DOMAIN l : i < k /\ i < j => Agree(m, l, i)
  BY <1>1, <1>2 DEF Agree
<1>5. /\ \A i \in DOMAIN m : m[i][1] \in Nat
      /\ \A i \in DOMAIN n : n[i][1] \in Nat
      /\ \A i \in DOMAIN l : l[i][1] \in Nat
  BY DEF KeyMap
<1>6. \E q : DecidedAt(q)
  <2>1. CASE k < j
    <3>1. \A i \in DOMAIN m \cup DOMAIN l : i < k => Agree(m, l, i)
      BY <1>3, <1>4, <2>1
    <3>2. k \in DOMAIN n \cup DOMAIN l => Agree(n, l, k)
      BY <1>2, <1>3, <2>1
    <3>3. CASE k \in DOMAIN n
      <4>1. k \in DOMAIN l /\ l[k] = n[k]
        BY <3>2, <3>3 DEF Agree
      <4>2. Decides(m, l, k)
        BY <1>1, <3>3, <4>1 DEF Decides
      <4> QED
        BY <3>1, <4>1, <4>2
    <3>4. CASE k \notin DOMAIN n
      <4>1. k \in DOMAIN m /\ k \notin DOMAIN l /\ \E i \in DOMAIN n : i >= k
        BY <1>1, <3>2, <3>4 DEF Decides, Agree
      <4>2. PICK i \in DOMAIN n : i >= k
        BY <4>1
      <4>3. CASE i < j
        BY <1>2, <3>1, <4>1, <4>2, <4>3 DEF Agree, Decides
      <4>4. CASE i >= j
        <5>1. \E h \in DOMAIN l : h >= j
          <6>1. CASE j \in DOMAIN l
            BY <1>3, <6>1
          <6>2. CASE j \notin DOMAIN l
            BY <1>2, <6>2 DEF Decides
          <6> QED
            BY <6>1, <6>2
        <5>2. \E h \in DOMAIN l : h >= k
          BY <1>3, <2>1, <5>1
        <5> QED
          BY <3>1, <4>1, <5>2 DEF Decides
      <4> QED
        BY <1>3, <4>3, <4>4
    <3> QED
      BY <3>3, <3>4
  <2>2. CASE j < k
    <3>1. \A i \in DOMAIN m \cup DOMAIN l : i < j => Agree(m, l, i)
      BY <1>3, <1>4, <2>2
    <3>2. CASE j \in DOMAIN n
      <4>1. j \in DOMAIN m /\ m[j] = n[j]
        BY <1>1, <2>2, <3>2 DEF Agree
      <4>2. Decides(m, l, j)
        BY <1>2, <3>2, <4>1 DEF Decides
      <4> QED
        BY <3>1, <4>1, <4>2
    <3>3. CASE j \notin DOMAIN n
      <4>1. \A i \in DOMAIN n : i < j
        BY <1>2, <3>3 DEF Decides
      <4>2. k \notin DOMAIN n /\ ~\E i \in DOMAIN n : i >= k
        BY <1>3, <2>2, <4>1
      <4> QED
        BY <1>1, <4>2 DEF Decides
    <3> QED
      BY <3>2, <3>3
  <2>3. CASE j = k
    <3>1. \A i \in DOMAIN m \cup DOMAIN l : i < k => Agree(m, l, i)
      BY <1>4, <2>3
    <3>2. k \in DOMAIN n
      BY <1>1, <1>2, <1>3, <2>3 DEF Decides
    <3>3. CASE k \in DOMAIN m
      <4>1. m[k][1] < n[k][1]
        BY <1>1, <3>2, <3>3 DEF Decides
      <4>2. Decides(m, l, k)
        BY <1>2, <1>5, <2>3, <3>2, <3>3, <4>1 DEF Decides
      <4> QED
        BY <3>1, <3>3, <4>2
    <3>4. CASE k \notin DOMAIN m
      <4> DEFINE H == {i \in DOMAIN l : i >= k}
      <4>1. \A i \in DOMAIN m : i < k
        BY <1>1, <3>4 DEF Decides
      <4>2. H # {}
        <5>1. k \in DOMAIN l => k \in H
          BY <1>3
        <5> QED
          BY <1>2, <2>3, <3>2, <5>1 DEF Decides
      <4>3. PICK q \in H : \A i \in H : q <= i
        <5>1. H \subseteq Nat
          BY <1>3
        <5> HIDE DEF H
        <5> QED
          BY <4>2, <5>1, LeastNumber
      <4>4. q \in DOMAIN l /\ q \in Nat /\ q >= k
        BY <1>3, <4>3
      <4>5. q \notin DOMAIN m /\ \A i \in DOMAIN m : i < q
        BY <1>3, <4>1, <4>4
      <4>6. \A i \in DOMAIN m \cup DOMAIN l : i < q => i < k
        <5>1. \A i \in DOMAIN l : i \in H \/ i < k
          BY <1>3
        <5>2. \A i \in H : ~(i < q)
          BY <1>3, <4>3, <4>4
        <5> QED
          BY <4>1, <5>1, <5>2
      <4> QED
        BY <3>1, <4>4, <4>5, <4>6 DEF Decides
    <3> QED
      BY <3>3, <3>4
  <2> QED
    BY <1>3, <2>1, <2>2, <2>3
<1> QED
  BY <1>6, LessIs

(* dasi_key_compare is a total order of keys for any keywords and values,   *)
(* and zero means equal.                                                    *)
THEOREM ComparesAsAnOrder == Spec => []CompareIsOrder
<1>1. ObjectsInv => CompareIsOrder
  <2> SUFFICES ASSUME ObjectsInv, kind = "key", NEW v \in Vars, NEW u \in Vars,
                      var[v] # None, var[u] # None
               PROVE  /\ Compare(Object(v), Object(u)) = -Compare(Object(u), Object(v))
                      /\ Compare(Object(v), Object(u)) = 0 <=> Object(v) = Object(u)
                      /\ Compare(Object(v), Object(u)) = -1 =>
                           \A l \in Maps : Compare(Object(u), l) = -1 => Compare(Object(v), l) = -1
    BY DEF CompareIsOrder
  <2>1. ASSUME NEW m \in Maps PROVE KeyMap(m) /\ m = [i \in DOMAIN m |-> m[i]]
    <3>1. ASSUME NEW l \in Lists PROVE l \in [1..1 -> Nat]
      <4>1. l \in [1..1 -> Values]
        BY ListsAre
      <4> QED
        BY <4>1, ObjectsAssumption
    <3> QED
      BY <3>1, MapFacts, ObjectsAssumption DEF KeyMap
  <2>2. PICK m \in Maps, n \in Maps : m = Object(v) /\ n = Object(u)
    BY VarFacts
  <2>3. KeyMap(m) /\ KeyMap(n) /\ m = [i \in DOMAIN m |-> m[i]] /\ n = [i \in DOMAIN n |-> n[i]]
    BY <2>1
  <2>4. ~(Less(m, n) /\ Less(n, m))
    BY <2>3, LessIsOneWay
  <2>5. ~Less(m, n) /\ ~Less(n, m) => m = n
    BY <2>3, LessIsTotal
  <2>6. ~Less(m, m) /\ ~Less(n, n)
    BY <2>3, LessIsOneWay
  <2>7. Compare(m, n) = -Compare(n, m) /\ (Compare(m, n) = 0 <=> m = n)
    BY <2>4, <2>5, <2>6 DEF Compare
  <2>8. ASSUME NEW l \in Maps, Less(m, n), Less(n, l) PROVE Less(m, l)
    BY <2>1, <2>3, <2>8, LessIsTransitive
  <2>9. \A f, g : Compare(f, g) = -1 <=> Less(f, g)
    BY DEF Compare
  <2> QED
    BY <2>2, <2>7, <2>8, <2>9
<1> QED
  BY <1>1, Always, PTL

-----------------------------------------------------------------------------
(* Induction over 0..n, on the set of the numbers that have the property. *)
LEMMA CountingUp ==
  ASSUME NEW n \in Nat, NEW T, 0 \in T, \A k \in 1..n : k - 1 \in T => k \in T
  PROVE  0..n \subseteq T
<1> DEFINE Missing == {k \in 0..n : k \notin T}
<1>1. CASE Missing = {}
  BY <1>1
<1>2. CASE Missing # {}
  <2>1. PICK k \in Missing : \A y \in Missing : k <= y
    <3>1. Missing \subseteq Nat
      OBVIOUS
    <3> HIDE DEF Missing
    <3> QED
      BY <1>2, <3>1, LeastNumber
  <2>2. k \in 1..n /\ k - 1 \in 0..n /\ k - 1 \notin Missing
    BY <2>1
  <2> QED
    BY <2>1, <2>2
<1> QED
  BY <1>1, <1>2

LEMMA MinIs ==
  ASSUME NEW T, T \subseteq Nat, T # {}
  PROVE  Min(T) \in T /\ \A y \in T : Min(T) <= y
BY LeastNumber DEF Min

LEMMA MaxIs ==
  ASSUME NEW n \in Nat, NEW T \in SUBSET (1..n), T # {}
  PROVE  Max(T) \in T /\ \A y \in T : Max(T) >= y
<1> DEFINE D == {n - x : x \in T}
<1>1. D \subseteq Nat /\ D # {}
  <2>1. \A x \in T : n - x \in Nat /\ n - x \in D
    OBVIOUS
  <2>2. PICK x \in T : TRUE
    OBVIOUS
  <2>3. D \subseteq Nat
    BY <2>1
  <2> QED
    BY <2>1, <2>2, <2>3
<1>2. PICK d \in D : \A e \in D : d <= e
  BY <1>1, LeastNumber
<1>3. PICK x \in T : d = n - x
  BY <1>2
<1>4. \A y \in T : x >= y
  <2> TAKE y \in T
  <2>1. n - y \in D
    OBVIOUS
  <2>2. n - x <= n - y
    BY <1>2, <1>3, <2>1
  <2> QED
    BY <2>2
<1> QED
  BY <1>3, <1>4 DEF Max

(* The iteration of a fold exists, for any step function. *)
HasFold(X, a, n, F) ==
  \E g \in [SUBSET (1..n) -> X] :
    \A s \in SUBSET (1..n) : g[s] = IF s = {} THEN a ELSE F[<<g[s \ {Max(s)}], Max(s)>>]

LEMMA FoldExists ==
  ASSUME NEW X, NEW a \in X, NEW n \in Nat, NEW F \in [X \X (1..n) -> X]
  PROVE  HasFold(X, a, n, F)
<1> DEFINE Folds(k, g) == /\ g \in [SUBSET (1..k) -> X]
                          /\ \A s \in SUBSET (1..k) :
                               g[s] = IF s = {} THEN a ELSE F[<<g[s \ {Max(s)}], Max(s)>>]
           T == {k \in 0..n : \E g \in [SUBSET (1..k) -> X] : Folds(k, g)}
<1>1. 0 \in T
  <2> DEFINE g == [s \in SUBSET (1..0) |-> a]
  <2>1. \A s \in SUBSET (1..0) : s = {}
    OBVIOUS
  <2>2. Folds(0, g)
    BY <2>1
  <2>3. g \in [SUBSET (1..0) -> X] /\ 0 \in 0..n
    OBVIOUS
  <2> QED
    BY <2>2, <2>3
<1>2. ASSUME NEW k \in 1..n, k - 1 \in T
      PROVE  k \in T
  <2>1. PICK g \in [SUBSET (1..(k - 1)) -> X] : Folds(k - 1, g)
    BY <1>2
  <2> DEFINE h == [s \in SUBSET (1..k) |-> IF k \in s THEN F[<<g[s \ {k}], k>>] ELSE g[s]]
  <2>2. ASSUME NEW s \in SUBSET (1..k)
        PROVE  /\ s \ {k} \in SUBSET (1..(k - 1))
               /\ k \notin s => s \in SUBSET (1..(k - 1))
               /\ k \in s => Max(s) = k
               /\ s # {} => Max(s) \in s
    <3>1. \A x \in s : x \in 1..k /\ (x # k => x \in 1..(k - 1))
      OBVIOUS
    <3>2. s # {} => Max(s) \in s /\ \A y \in s : Max(s) >= y
      <4> SUFFICES ASSUME s # {}
                   PROVE  Max(s) \in s /\ \A y \in s : Max(s) >= y
        OBVIOUS
      <4>1. k \in Nat /\ s \in SUBSET (1..k)
        OBVIOUS
      <4> HIDE DEF h, T
      <4> QED
        BY <4>1, MaxIs, Zenon
    <3>3. s \ {k} \in SUBSET (1..(k - 1)) /\ (k \notin s => s \in SUBSET (1..(k - 1)))
      BY <3>1
    <3>4. k \in s => Max(s) = k
      <4> SUFFICES ASSUME k \in s
                   PROVE  Max(s) = k
        OBVIOUS
      <4>1. Max(s) \in 1..k /\ Max(s) >= k
        BY <3>1, <3>2
      <4> QED
        BY <4>1
    <3> QED
      BY <3>2, <3>3, <3>4
  <2>3. h \in [SUBSET (1..k) -> X]
    <3>1. \A s \in SUBSET (1..k) : h[s] \in X
      BY <2>1, <2>2
    <3> QED
      BY <3>1
  <2>4. ASSUME NEW s \in SUBSET (1..k)
        PROVE  h[s] = IF s = {} THEN a ELSE F[<<h[s \ {Max(s)}], Max(s)>>]
    <3>1. CASE k \in s
      <4>1. h[s] = F[<<g[s \ {k}], k>>] /\ Max(s) = k /\ s # {}
        BY <3>1, <2>2
      <4>2. s \ {k} \in SUBSET (1..k) /\ k \notin s \ {k}
        OBVIOUS
      <4>3. h[s \ {k}] = g[s \ {k}]
        BY <4>2
      <4> QED
        BY <4>1, <4>3
    <3>2. CASE k \notin s
      <4>1. h[s] = g[s] /\ s \in SUBSET (1..(k - 1))
        BY <3>2, <2>2
      <4>2. g[s] = IF s = {} THEN a ELSE F[<<g[s \ {Max(s)}], Max(s)>>]
        BY <2>1, <4>1
      <4>3. s \ {Max(s)} \in SUBSET (1..k) /\ k \notin s \ {Max(s)}
        BY <3>2
      <4>4. h[s \ {Max(s)}] = g[s \ {Max(s)}]
        BY <4>3
      <4> QED
        BY <4>1, <4>2, <4>4
    <3> QED
      BY <3>1, <3>2
  <2> HIDE DEF h
  <2>5. Folds(k, h)
    BY <2>3, <2>4
  <2>6. \E f \in [SUBSET (1..k) -> X] : Folds(k, f)
    BY <2>3, <2>5
  <2>7. k \in 0..n
    OBVIOUS
  <2> QED
    BY <2>6, <2>7
<1>3. n \in T
  <2> HIDE DEF T
  <2> QED
    BY <1>1, <1>2, CountingUp
<1> QED
  BY <1>3 DEF HasFold

LEMMA Prefix ==
  ASSUME NEW n \in Nat, NEW k \in 1..n
  PROVE  /\ 1..k \in SUBSET (1..n) /\ 1..k # {}
         /\ Max(1..k) = k
         /\ (1..k) \ {k} = 1..(k - 1)
<1>1. 1..k \in SUBSET (1..n) /\ k \in 1..k
  OBVIOUS
<1>2. Max(1..k) \in 1..k /\ \A y \in 1..k : Max(1..k) >= y
  <2>1. k \in Nat /\ 1..k \in SUBSET (1..k) /\ 1..k # {}
    OBVIOUS
  <2> QED
    BY <2>1, MaxIs, Zenon
<1>3. Max(1..k) = k
  BY <1>1, <1>2
<1> QED
  BY <1>1, <1>3

(* One character of a text that is split. *)
SplitStep(separator, acc, c) ==
  IF c = separator THEN Append(acc, << >>) ELSE Front(acc) \o <<Append(Last(acc), c)>>

FieldLists(C) == Seq(Seq(C)) \ {<< >>}

LEMMA SplitStepType ==
  ASSUME NEW C, NEW separator, NEW acc \in FieldLists(C), NEW c \in C
  PROVE  SplitStep(separator, acc, c) \in FieldLists(C)
<1>1. acc \in Seq(Seq(C)) /\ Len(acc) >= 1
  BY DEF FieldLists
<1>2. Append(acc, << >>) \in FieldLists(C)
  BY <1>1 DEF FieldLists
<1>3. Front(acc) \in Seq(Seq(C)) /\ Last(acc) \in Seq(C)
  BY <1>1 DEF Front, Last
<1>4. Append(Last(acc), c) \in Seq(C)
  BY <1>3
<1>5. Front(acc) \o <<Append(Last(acc), c)>> \in FieldLists(C)
  BY <1>3, <1>4 DEF FieldLists
<1> QED
  BY <1>2, <1>5 DEF SplitStep

(* The values a fold goes through, and the last of them. *)
HasChain(X, a, n, F, result) ==
  \E f \in [0..n -> X] : /\ f[0] = a /\ f[n] = result
                         /\ \A k \in 1..n : f[k] = F[<<f[k - 1], k>>]

LEMMA ChainOfFold ==
  ASSUME NEW X, NEW a \in X, NEW n \in Nat, NEW F \in [X \X (1..n) -> X],
         NEW h, h[{}] = a,
         \A k \in 1..n : h[1..(k - 1)] \in X => h[1..k] = F[<<h[1..(k - 1)], k>>]
  PROVE  HasChain(X, a, n, F, h[1..n])
<1> DEFINE f == [k \in 0..n |-> h[1..k]]
           T == {k \in 0..n : f[k] \in X}
<1>1. f[0] = a /\ f[n] = h[1..n]
  <2>1. 1..0 = {} /\ 0 \in 0..n /\ n \in 0..n
    OBVIOUS
  <2> QED
    BY <2>1
<1>2. ASSUME NEW k \in 1..n, k - 1 \in T
      PROVE  k \in T /\ f[k] = F[<<f[k - 1], k>>]
  <2>1. k \in 0..n /\ k - 1 \in 0..n
    OBVIOUS
  <2>2. f[k] = h[1..k] /\ f[k - 1] = h[1..(k - 1)] /\ f[k - 1] \in X
    BY <1>2, <2>1
  <2>3. f[k] = F[<<f[k - 1], k>>] /\ f[k] \in X
    BY <2>2
  <2> QED
    BY <2>1, <2>3
<1>3. 0..n \subseteq T
  <2>1. 0 \in T
    BY <1>1
  <2> HIDE DEF T
  <2> QED
    BY <1>2, <2>1, CountingUp
<1>4. f \in [0..n -> X]
  BY <1>3
<1>5. ASSUME NEW k \in 1..n
      PROVE  f[k] = F[<<f[k - 1], k>>]
  <2>1. k - 1 \in 0..n
    OBVIOUS
  <2> QED
    BY <1>2, <1>3, <2>1
<1> HIDE DEF f, T
<1> QED
  BY <1>1, <1>4, <1>5 DEF HasChain

(* Splitting a text, character by character. *)
LEMMA SplitChain ==
  ASSUME NEW C, NEW separator, NEW t \in Seq(C)
  PROVE  HasChain(FieldLists(C), << << >> >>, Len(t),
                  [p \in FieldLists(C) \X (1..Len(t)) |-> SplitStep(separator, p[1], t[p[2]])],
                  Split(separator, t, TRUE))
<1> DEFINE n == Len(t)
           X == FieldLists(C)
           F == [p \in X \X (1..n) |-> SplitStep(separator, p[1], t[p[2]])]
           Iterates(h) == h = [s \in SUBSET (1..n) |->
                                 IF s = {} THEN << << >> >>
                                 ELSE SplitStep(separator, h[s \ {Max(s)}], t[Max(s)])]
<1>1. n \in Nat /\ DOMAIN t = 1..n /\ \A k \in 1..n : t[k] \in C
  OBVIOUS
<1>2. << << >> >> \in X
  BY DEF FieldLists
<1>3. F \in [X \X (1..n) -> X]
  BY <1>1, SplitStepType
<1>4. PICK g \in [SUBSET (1..n) -> X] :
        \A s \in SUBSET (1..n) : g[s] = IF s = {} THEN << << >> >> ELSE F[<<g[s \ {Max(s)}], Max(s)>>]
  <2> HIDE DEF F, X, n
  <2>1. n \in Nat
    BY <1>1
  <2>2. HasFold(X, << << >> >>, n, F)
    BY <1>2, <1>3, <2>1, FoldExists
  <2> QED
    BY <2>2 DEF HasFold
<1>5. Iterates(g)
  <2>1. ASSUME NEW s \in SUBSET (1..n), s # {}
        PROVE  g[s] = SplitStep(separator, g[s \ {Max(s)}], t[Max(s)])
    <3>1. Max(s) \in 1..n
      BY <1>1, <2>1, MaxIs, Zenon
    <3>2. g[s \ {Max(s)}] \in X
      OBVIOUS
    <3> QED
      BY <1>4, <2>1, <3>1, <3>2
  <2>2. \A s \in SUBSET (1..n) :
          g[s] = IF s = {} THEN << << >> >> ELSE SplitStep(separator, g[s \ {Max(s)}], t[Max(s)])
    BY <1>4, <2>1
  <2> QED
    BY <2>2
<1>6. PICK h : Iterates(h) /\ Split(separator, t, TRUE) = h[1..n]
  <2> HIDE DEF F, X
  <2> QED
    BY <1>1, <1>5 DEF Split, FoldLeft, MapThenFoldSet, SplitStep
<1>7. h[{}] = << << >> >>
  BY <1>6
<1>8. ASSUME NEW k \in 1..n, h[1..(k - 1)] \in X
      PROVE  h[1..k] = F[<<h[1..(k - 1)], k>>]
  <2>1. 1..k \in SUBSET (1..n) /\ 1..k # {} /\ Max(1..k) = k /\ (1..k) \ {k} = 1..(k - 1)
    BY <1>1, Prefix
  <2>2. h[1..k] = SplitStep(separator, h[1..(k - 1)], t[k])
    BY <1>6, <2>1
  <2> QED
    BY <1>8, <2>2
<1>9. HasChain(X, << << >> >>, n, F, h[1..n])
  <2>1. n \in Nat
    BY <1>1
  <2> HIDE DEF F, X, n, Iterates
  <2> QED
    BY <1>2, <1>3, <1>7, <1>8, <2>1, ChainOfFold
<1> QED
  BY <1>6, <1>9

(* The fields of a text are texts, and there is at least one. *)
LEMMA SplitType ==
  ASSUME NEW C, NEW separator, NEW t \in Seq(C)
  PROVE  Split(separator, t, TRUE) \in Seq(Seq(C))
<1> DEFINE n == Len(t)
           X == FieldLists(C)
           F == [p \in X \X (1..n) |-> SplitStep(separator, p[1], t[p[2]])]
<1>1. n \in 0..n
  OBVIOUS
<1>2. HasChain(X, << << >> >>, n, F, Split(separator, t, TRUE))
  BY SplitChain
<1>3. Split(separator, t, TRUE) \in X
  <2> HIDE DEF X, n, F
  <2> QED
    BY <1>1, <1>2 DEF HasChain
<1> QED
  BY <1>3 DEF FieldLists

(* A text without the separator is one field. *)
LEMMA SplitOne ==
  ASSUME NEW C, NEW separator, NEW t \in Seq(C), \A i \in 1..Len(t) : t[i] # separator
  PROVE  Split(separator, t, TRUE) = <<t>>
<1> DEFINE n == Len(t)
           X == FieldLists(C)
           F == [p \in X \X (1..n) |-> SplitStep(separator, p[1], t[p[2]])]
<1>1. PICK f \in [0..n -> X] :
        /\ f[0] = << << >> >> /\ f[n] = Split(separator, t, TRUE)
        /\ \A k \in 1..n : f[k] = F[<<f[k - 1], k>>]
  <2>1. HasChain(X, << << >> >>, n, F, Split(separator, t, TRUE))
    BY SplitChain
  <2> HIDE DEF X, n, F
  <2> QED
    BY <2>1 DEF HasChain
<1> DEFINE T == {k \in 0..n : f[k] = <<SubSeq(t, 1, k)>>}
<1>2. 0 \in T
  <2>1. 0 \in 0..n /\ SubSeq(t, 1, 0) = << >>
    OBVIOUS
  <2> QED
    BY <1>1, <2>1
<1>3. ASSUME NEW k \in 1..n, k - 1 \in T
      PROVE  k \in T
  <2>1. f[k - 1] \in FieldLists(C) /\ f[k - 1] = <<SubSeq(t, 1, k - 1)>> /\ k \in 0..n /\ k - 1 \in 0..n
    BY <1>3
  <2>2. f[k] = SplitStep(separator, <<SubSeq(t, 1, k - 1)>>, t[k])
    BY <1>1, <2>1
  <2>3. SubSeq(t, 1, k - 1) \in Seq(C) /\ Append(SubSeq(t, 1, k - 1), t[k]) = SubSeq(t, 1, k)
    OBVIOUS
  <2>4. Front(<<SubSeq(t, 1, k - 1)>>) = << >> /\ Last(<<SubSeq(t, 1, k - 1)>>) = SubSeq(t, 1, k - 1)
    BY DEF Front, Last
  <2>5. t[k] # separator
    OBVIOUS
  <2>6. f[k] = << >> \o <<SubSeq(t, 1, k)>>
    BY <2>2, <2>3, <2>4, <2>5 DEF SplitStep
  <2>7. << >> \o <<SubSeq(t, 1, k)>> = <<SubSeq(t, 1, k)>>
    OBVIOUS
  <2> QED
    BY <2>1, <2>6, <2>7
<1>4. 0..n \subseteq T
  <2>1. n \in Nat
    OBVIOUS
  <2> HIDE DEF T, n
  <2> QED
    BY <1>2, <1>3, <2>1, CountingUp
<1>5. f[n] = <<SubSeq(t, 1, n)>>
  BY <1>4
<1>6. SubSeq(t, 1, n) = t
  OBVIOUS
<1> QED
  BY <1>1, <1>5, <1>6

(* Dropping the empty fields, field by field. *)
DropStep(acc, f) == IF f = << >> THEN acc ELSE Append(acc, f)

LEMMA DropChain ==
  ASSUME NEW S, NEW fields \in Seq(S)
  PROVE  HasChain(Seq(S \ {<< >>}), << >>, Len(fields),
                  [p \in Seq(S \ {<< >>}) \X (1..Len(fields)) |-> DropStep(p[1], fields[p[2]])],
                  DropEmpty(fields))
<1> DEFINE n == Len(fields)
           X == Seq(S \ {<< >>})
           F == [p \in X \X (1..n) |-> DropStep(p[1], fields[p[2]])]
           Iterates(h) == h = [s \in SUBSET (1..n) |->
                                 IF s = {} THEN << >> ELSE DropStep(h[s \ {Max(s)}], fields[Max(s)])]
<1>1. n \in Nat /\ DOMAIN fields = 1..n /\ \A k \in 1..n : fields[k] \in S
  OBVIOUS
<1>2. << >> \in X
  OBVIOUS
<1>3. F \in [X \X (1..n) -> X]
  <2>1. ASSUME NEW acc \in X, NEW k \in 1..n
        PROVE  DropStep(acc, fields[k]) \in X
    BY <1>1 DEF DropStep
  <2> QED
    BY <2>1
<1>4. PICK g \in [SUBSET (1..n) -> X] :
        \A s \in SUBSET (1..n) : g[s] = IF s = {} THEN << >> ELSE F[<<g[s \ {Max(s)}], Max(s)>>]
  <2> HIDE DEF F, X, n
  <2>1. n \in Nat
    BY <1>1
  <2>2. HasFold(X, << >>, n, F)
    BY <1>2, <1>3, <2>1, FoldExists
  <2> QED
    BY <2>2 DEF HasFold
<1>5. Iterates(g)
  <2>1. ASSUME NEW s \in SUBSET (1..n), s # {}
        PROVE  g[s] = DropStep(g[s \ {Max(s)}], fields[Max(s)])
    <3>1. Max(s) \in 1..n
      BY <1>1, <2>1, MaxIs, Zenon
    <3>2. g[s \ {Max(s)}] \in X
      OBVIOUS
    <3> QED
      BY <1>4, <2>1, <3>1, <3>2
  <2>2. \A s \in SUBSET (1..n) :
          g[s] = IF s = {} THEN << >> ELSE DropStep(g[s \ {Max(s)}], fields[Max(s)])
    BY <1>4, <2>1
  <2> QED
    BY <2>2
<1>6. PICK h : Iterates(h) /\ DropEmpty(fields) = h[1..n]
  <2> HIDE DEF F, X
  <2> QED
    BY <1>1, <1>5 DEF DropEmpty, FoldLeft, MapThenFoldSet, DropStep
<1>7. h[{}] = << >>
  BY <1>6
<1>8. ASSUME NEW k \in 1..n, h[1..(k - 1)] \in X
      PROVE  h[1..k] = F[<<h[1..(k - 1)], k>>]
  <2>1. 1..k \in SUBSET (1..n) /\ 1..k # {} /\ Max(1..k) = k /\ (1..k) \ {k} = 1..(k - 1)
    BY <1>1, Prefix
  <2>2. h[1..k] = DropStep(h[1..(k - 1)], fields[k])
    BY <1>6, <2>1
  <2> QED
    BY <1>8, <2>2
<1>9. HasChain(X, << >>, n, F, h[1..n])
  <2>1. n \in Nat
    BY <1>1
  <2> HIDE DEF F, X, n, Iterates
  <2> QED
    BY <1>2, <1>3, <1>7, <1>8, <2>1, ChainOfFold
<1> QED
  BY <1>6, <1>9

LEMMA DropType ==
  ASSUME NEW S, NEW fields \in Seq(S)
  PROVE  DropEmpty(fields) \in Seq(S \ {<< >>})
<1> DEFINE n == Len(fields)
           X == Seq(S \ {<< >>})
           F == [p \in X \X (1..n) |-> DropStep(p[1], fields[p[2]])]
<1>1. n \in 0..n
  OBVIOUS
<1>2. HasChain(X, << >>, n, F, DropEmpty(fields))
  BY DropChain
<1> HIDE DEF X, n, F
<1>3. DropEmpty(fields) \in X
  BY <1>1, <1>2 DEF HasChain
<1> QED
  BY <1>3 DEF X

LEMMA DropOne ==
  ASSUME NEW v, v # << >>
  PROVE  DropEmpty(<<v>>) = <<v>>
<1> DEFINE S == {v}
           fields == <<v>>
           n == Len(fields)
           X == Seq(S \ {<< >>})
           F == [p \in X \X (1..n) |-> DropStep(p[1], fields[p[2]])]
<1>1. fields \in Seq(S) /\ n = 1 /\ fields[1] = v
  OBVIOUS
<1>2. PICK f \in [0..n -> X] :
        /\ f[0] = << >> /\ f[n] = DropEmpty(fields)
        /\ \A k \in 1..n : f[k] = F[<<f[k - 1], k>>]
  <2>1. HasChain(X, << >>, n, F, DropEmpty(fields))
    <3> HIDE DEF fields, S
    <3> QED
      BY <1>1, DropChain
  <2> HIDE DEF X, n, F
  <2> QED
    BY <2>1 DEF HasChain
<1>3. f[1] = DropStep(<< >>, v)
  <2>1. 1 \in 1..n /\ f[0] \in X /\ 1 - 1 = 0
    BY <1>1
  <2>2. F[<<f[0], 1>>] = DropStep(f[0], fields[1])
    BY <2>1
  <2> QED
    BY <1>1, <1>2, <2>1, <2>2
<1> QED
  BY <1>2, <1>3 DEF DropStep

(* The fields of a text, whether empty ones are kept or not. *)
LEMMA FieldsAre ==
  ASSUME NEW C, NEW separator, NEW t \in Seq(C), NEW keep \in BOOLEAN
  PROVE  /\ Split(separator, t, keep) \in Seq(Seq(C))
         /\ ~keep => \A i \in 1..Len(Split(separator, t, keep)) : Split(separator, t, keep)[i] # << >>
<1> DEFINE fields == Split(separator, t, TRUE)
<1>1. fields \in Seq(Seq(C))
  BY SplitType
<1>2. Split(separator, t, keep) = IF keep THEN fields ELSE DropEmpty(fields)
  BY DEF Split
<1>3. DropEmpty(fields) \in Seq(Seq(C) \ {<< >>})
  BY <1>1, DropType
<1>4. DropEmpty(fields) \in Seq(Seq(C))
      /\ \A i \in 1..Len(DropEmpty(fields)) : DropEmpty(fields)[i] # << >>
  <2> HIDE DEF fields
  <2>1. \A x \in Seq(Seq(C) \ {<< >>}) : x \in Seq(Seq(C)) /\ \A i \in 1..Len(x) : x[i] # << >>
    OBVIOUS
  <2> QED
    BY <1>3, <2>1
<1> QED
  BY <1>1, <1>2, <1>4

(* A value without "/" is the only value of its keyword. *)
LEMMA ValueIsOne ==
  ASSUME NEW C, NEW v \in Seq(C), NEW keep \in BOOLEAN, ~Contains(v, "/"), ~keep => v # << >>
  PROVE  Split("/", v, keep) = <<v>>
<1>1. Split("/", v, TRUE) = <<v>>
  BY SplitOne DEF Contains
<1>2. Split("/", v, keep) = IF keep THEN Split("/", v, TRUE) ELSE DropEmpty(Split("/", v, TRUE))
  BY DEF Split
<1> QED
  BY <1>1, <1>2, DropOne

(* The pairs of a text. *)
LEMMA PairsAre ==
  ASSUME NEW C, NEW t \in Seq(C), NEW keep \in BOOLEAN
  PROVE  /\ Pairs(t, keep) \in Seq(Seq(Seq(C)))
         /\ ~keep => \A i \in 1..Len(Pairs(t, keep)) :
                       \A j \in 1..Len(Pairs(t, keep)[i]) : Pairs(t, keep)[i][j] # << >>
<1> DEFINE bits == Split(",", t, keep)
           pairs == [i \in 1..Len(bits) |-> Split("=", bits[i], keep)]
<1>1. bits \in Seq(Seq(C))
  BY FieldsAre
<1>2. Pairs(t, keep) = pairs
  BY DEF Pairs
<1> HIDE DEF bits
<1>3. Len(bits) \in Nat /\ \A i \in 1..Len(bits) : bits[i] \in Seq(C)
  BY <1>1
<1>4. \A i \in 1..Len(bits) :
        /\ pairs[i] \in Seq(Seq(C))
        /\ ~keep => \A j \in 1..Len(pairs[i]) : pairs[i][j] # << >>
  BY <1>3, FieldsAre
<1>5. pairs \in Seq(Seq(Seq(C))) /\ Len(pairs) = Len(bits)
  BY <1>3, <1>4
<1> QED
  BY <1>2, <1>4, <1>5

(* Text that both constructors accept is read alike by them. *)
LEMMA SameObject ==
  ASSUME NEW C, NEW t \in Seq(C), NEW keep \in BOOLEAN, KeyAccepts(t, keep)
  PROVE  /\ QueryAccepts(t, keep)
         /\ QueryOf(t, keep) = [k \in DOMAIN KeyOf(t, keep) |-> <<KeyOf(t, keep)[k]>>]
<1> DEFINE pairs == Pairs(t, keep)
           spans == [i \in 1..Len(pairs) |-> <<pairs[i][1], Split("/", pairs[i][2], keep)>>]
           First(i, k) == pairs[i][1] = k /\ \A j \in 1..(i - 1) : pairs[j][1] # k
<1>1. QueryAccepts(t, keep)
  BY DEF KeyAccepts, QueryAccepts
<1>2. /\ Len(pairs) \in Nat
      /\ \A i \in 1..Len(pairs) : /\ pairs[i] \in Seq(Seq(C))
                                  /\ ~keep => \A j \in 1..Len(pairs[i]) : pairs[i][j] # << >>
  <2>1. /\ pairs \in Seq(Seq(Seq(C)))
        /\ ~keep => \A i \in 1..Len(pairs) : \A j \in 1..Len(pairs[i]) : pairs[i][j] # << >>
    BY PairsAre
  <2> HIDE DEF pairs
  <2> QED
    BY <2>1
<1>3. \A i \in 1..Len(pairs) : Len(pairs[i]) = 2 /\ ~Contains(pairs[i][2], "/")
  BY DEF KeyAccepts
<1> HIDE DEF pairs
<1>4. ASSUME NEW i \in 1..Len(pairs)
      PROVE  spans[i][1] = pairs[i][1] /\ spans[i][2] = <<pairs[i][2]>>
  <2>1. pairs[i][2] \in Seq(C) /\ (~keep => pairs[i][2] # << >>)
    BY <1>2, <1>3
  <2>2. Split("/", pairs[i][2], keep) = <<pairs[i][2]>>
    BY <1>3, <2>1, ValueIsOne
  <2> QED
    BY <2>2
<1>5. Len(spans) = Len(pairs)
  BY <1>2
<1> HIDE DEF spans
<1>6. {spans[i][1] : i \in 1..Len(spans)} = {pairs[i][1] : i \in 1..Len(pairs)}
  BY <1>4, <1>5
<1> DEFINE keys == {pairs[i][1] : i \in 1..Len(pairs)}
           at(k) == CHOOSE i \in 1..Len(pairs) : First(i, k)
<1>7. ASSUME NEW k \in keys
      PROVE  /\ at(k) \in 1..Len(pairs)
             /\ at(k) = CHOOSE i \in 1..Len(spans) : /\ spans[i][1] = k
                                                    /\ \A j \in 1..(i - 1) : spans[j][1] # k
  <2> DEFINE places == {i \in 1..Len(pairs) : pairs[i][1] = k}
  <2>1. PICK i \in places : \A j \in places : i <= j
    <3>1. places \subseteq Nat /\ places # {}
      OBVIOUS
    <3> HIDE DEF places
    <3> QED
      BY <3>1, LeastNumber
  <2>2. i \in 1..Len(pairs) /\ First(i, k)
    <3>1. ASSUME NEW j \in 1..(i - 1), pairs[j][1] = k
          PROVE  FALSE
      <4>1. i \in 1..Len(pairs) /\ j \in 1..Len(pairs) /\ j < i
        BY <1>2, <2>1
      <4> QED
        BY <2>1, <3>1, <4>1
    <3> QED
      BY <2>1, <3>1
  <2>3. at(k) \in 1..Len(pairs)
    BY <2>2
  <2>4. \A m \in 1..Len(pairs) :
          First(m, k) <=> spans[m][1] = k /\ \A j \in 1..(m - 1) : spans[j][1] # k
    <3> TAKE m \in 1..Len(pairs)
    <3>1. \A j \in 1..(m - 1) : j \in 1..Len(pairs)
      BY <1>2
    <3> QED
      BY <1>4, <3>1
  <2>5. at(k) = CHOOSE m \in 1..Len(pairs) : /\ spans[m][1] = k
                                            /\ \A j \in 1..(m - 1) : spans[j][1] # k
    BY <2>4
  <2> QED
    BY <1>5, <2>3, <2>5
<1>8. KeyOf(t, keep) = [k \in keys |-> pairs[at(k)][2]]
  BY DEF KeyOf, Emplace, pairs
<1>9. QueryOf(t, keep) = [k \in keys |-> <<pairs[at(k)][2]>>]
  <2>1. QueryOf(t, keep) = Emplace(spans)
    BY DEF QueryOf, spans, pairs
  <2>2. Emplace(spans) = [k \in keys |-> spans[CHOOSE i \in 1..Len(spans) :
                                                  /\ spans[i][1] = k
                                                  /\ \A j \in 1..(i - 1) : spans[j][1] # k][2]]
    BY <1>6 DEF Emplace
  <2>3. Emplace(spans) = [k \in keys |-> spans[at(k)][2]]
    BY <1>7, <2>2
  <2>4. \A k \in keys : spans[at(k)][2] = <<pairs[at(k)][2]>>
    BY <1>4, <1>7
  <2> QED
    BY <2>1, <2>3, <2>4
<1> QED
  BY <1>1, <1>8, <1>9

-----------------------------------------------------------------------------
(* What is stripped is a part of the text; the ends of the part are not in  *)
(* the set.                                                                 *)
LEMMA StripIs ==
  ASSUME NEW C, NEW t \in Seq(C), NEW chars
  PROVE  /\ Strip(t, chars) \in Seq(C)
         /\ Strip(t, chars) # << >> => /\ Strip(t, chars)[1] \notin chars
                                       /\ Strip(t, chars)[Len(Strip(t, chars))] \notin chars
<1> DEFINE n == Len(t)
           kept == {i \in 1..n : t[i] \notin chars}
<1>1. CASE kept = {}
  BY <1>1 DEF Strip
<1>2. CASE kept # {}
  <2>1. kept \in SUBSET (1..n) /\ kept \subseteq Nat /\ n \in Nat
    OBVIOUS
  <2> DEFINE lo == Min(kept)
             hi == Max(kept)
  <2>2. lo \in kept /\ \A y \in kept : lo <= y
    <3> HIDE DEF kept
    <3> QED
      BY <1>2, <2>1, MinIs
  <2>3. hi \in kept /\ \A y \in kept : hi >= y
    <3> HIDE DEF kept, n
    <3> QED
      BY <1>2, <2>1, MaxIs, Zenon
  <2>4. lo \in 1..n /\ hi \in 1..n /\ lo <= hi /\ t[lo] \notin chars /\ t[hi] \notin chars
    BY <2>2, <2>3
  <2>5. Strip(t, chars) = SubSeq(t, lo, hi)
    BY <1>2 DEF Strip
  <2> HIDE DEF lo, hi
  <2>6. SubSeq(t, lo, hi) \in Seq(C) /\ Len(SubSeq(t, lo, hi)) = hi - lo + 1
    BY <2>4
  <2>7. SubSeq(t, lo, hi)[1] = t[lo] /\ SubSeq(t, lo, hi)[hi - lo + 1] = t[hi]
    BY <2>4
  <2> QED
    BY <2>4, <2>5, <2>6, <2>7
<1> QED
  BY <1>1, <1>2

(* A text whose ends stay is not changed. *)
LEMMA StripNothing ==
  ASSUME NEW C, NEW t \in Seq(C), NEW chars, t # << >>, t[1] \notin chars, t[Len(t)] \notin chars
  PROVE  Strip(t, chars) = t
<1> DEFINE n == Len(t)
           kept == {i \in 1..n : t[i] \notin chars}
<1>1. kept \in SUBSET (1..n) /\ kept \subseteq Nat /\ n \in Nat /\ 1 \in kept /\ n \in kept
  OBVIOUS
<1>2. Min(kept) \in kept /\ \A y \in kept : Min(kept) <= y
  <2> HIDE DEF kept
  <2> QED
    BY <1>1, MinIs
<1>3. Max(kept) \in kept /\ \A y \in kept : Max(kept) >= y
  <2>1. kept # {}
    BY <1>1
  <2> HIDE DEF kept, n
  <2> QED
    BY <1>1, <2>1, MaxIs, Zenon
<1>4. Min(kept) = 1 /\ Max(kept) = n
  BY <1>1, <1>2, <1>3
<1>5. Strip(t, chars) = SubSeq(t, 1, n)
  BY <1>1, <1>4 DEF Strip
<1> QED
  BY <1>5

(* Replacing the characters of a text, from left to right. *)
ReplaceStep(text_, acc, i) ==
  IF text_[i] \in Safe THEN Append(acc, text_[i])
  ELSE IF i > 1 /\ text_[i - 1] \notin Safe THEN acc
  ELSE Append(acc, "-")

LEMMA ReplaceChain ==
  ASSUME NEW C, NEW t \in Seq(C)
  PROVE  HasChain(Seq(Safe), << >>, Len(t),
                  [p \in Seq(Safe) \X (1..Len(t)) |-> ReplaceStep(t, p[1], p[2])], ReplaceRuns(t))
<1> DEFINE n == Len(t)
           X == Seq(Safe)
           F == [p \in X \X (1..n) |-> ReplaceStep(t, p[1], p[2])]
           at == [i \in 1..n |-> i]
           Iterates(h) == h = [s \in SUBSET (1..n) |->
                                 IF s = {} THEN << >> ELSE ReplaceStep(t, h[s \ {Max(s)}], at[Max(s)])]
<1>1. n \in Nat /\ DOMAIN at = 1..n
  OBVIOUS
<1>2. << >> \in X
  OBVIOUS
<1>3. F \in [X \X (1..n) -> X]
  <2>1. ASSUME NEW acc \in X, NEW k \in 1..n
        PROVE  ReplaceStep(t, acc, k) \in X
    <3>1. "-" \in Safe
      BY DEF Safe, Punctuation
    <3> QED
      BY <3>1 DEF ReplaceStep
  <2> QED
    BY <2>1
<1>4. PICK g \in [SUBSET (1..n) -> X] :
        \A s \in SUBSET (1..n) : g[s] = IF s = {} THEN << >> ELSE F[<<g[s \ {Max(s)}], Max(s)>>]
  <2> HIDE DEF F, X, n
  <2>1. n \in Nat
    BY <1>1
  <2>2. HasFold(X, << >>, n, F)
    BY <1>2, <1>3, <2>1, FoldExists
  <2> QED
    BY <2>2 DEF HasFold
<1>5. Iterates(g)
  <2>1. ASSUME NEW s \in SUBSET (1..n), s # {}
        PROVE  g[s] = ReplaceStep(t, g[s \ {Max(s)}], at[Max(s)])
    <3>1. Max(s) \in 1..n
      BY <1>1, <2>1, MaxIs, Zenon
    <3>2. g[s \ {Max(s)}] \in X /\ at[Max(s)] = Max(s)
      BY <3>1
    <3> QED
      BY <1>4, <2>1, <3>1, <3>2
  <2>2. \A s \in SUBSET (1..n) :
          g[s] = IF s = {} THEN << >> ELSE ReplaceStep(t, g[s \ {Max(s)}], at[Max(s)])
    BY <1>4, <2>1
  <2> QED
    BY <2>2
<1>6. PICK h : Iterates(h) /\ ReplaceRuns(t) = h[1..n]
  <2> HIDE DEF F, X
  <2> QED
    BY <1>1, <1>5 DEF ReplaceRuns, FoldLeft, MapThenFoldSet, ReplaceStep
<1>7. h[{}] = << >>
  BY <1>6
<1>8. ASSUME NEW k \in 1..n, h[1..(k - 1)] \in X
      PROVE  h[1..k] = F[<<h[1..(k - 1)], k>>]
  <2>1. 1..k \in SUBSET (1..n) /\ 1..k # {} /\ Max(1..k) = k /\ (1..k) \ {k} = 1..(k - 1)
    BY <1>1, Prefix
  <2>2. h[1..k] = ReplaceStep(t, h[1..(k - 1)], at[k])
    BY <1>6, <2>1
  <2>3. at[k] = k
    OBVIOUS
  <2> QED
    BY <1>8, <2>2, <2>3
<1>9. HasChain(X, << >>, n, F, h[1..n])
  <2>1. n \in Nat
    BY <1>1
  <2> HIDE DEF F, X, n, Iterates, at
  <2> QED
    BY <1>2, <1>3, <1>7, <1>8, <2>1, ChainOfFold
<1> QED
  BY <1>6, <1>9

(* What is left is safe, ... *)
LEMMA ReplacedIsSafe ==
  ASSUME NEW C, NEW t \in Seq(C)
  PROVE  ReplaceRuns(t) \in Seq(Safe)
<1> DEFINE n == Len(t)
           X == Seq(Safe)
           F == [p \in X \X (1..n) |-> ReplaceStep(t, p[1], p[2])]
<1>1. n \in 0..n
  OBVIOUS
<1>2. HasChain(X, << >>, n, F, ReplaceRuns(t))
  BY ReplaceChain
<1> HIDE DEF X, n, F
<1>3. ReplaceRuns(t) \in X
  BY <1>1, <1>2 DEF HasChain
<1> QED
  BY <1>3 DEF X

(* ... and a safe text is left as it is. *)
LEMMA ReplacesNothing ==
  ASSUME NEW t \in Seq(Safe)
  PROVE  ReplaceRuns(t) = t
<1> DEFINE n == Len(t)
           X == Seq(Safe)
           F == [p \in X \X (1..n) |-> ReplaceStep(t, p[1], p[2])]
<1>1. PICK f \in [0..n -> X] :
        /\ f[0] = << >> /\ f[n] = ReplaceRuns(t)
        /\ \A k \in 1..n : f[k] = F[<<f[k - 1], k>>]
  <2>1. HasChain(X, << >>, n, F, ReplaceRuns(t))
    BY ReplaceChain
  <2> HIDE DEF X, n, F
  <2> QED
    BY <2>1 DEF HasChain
<1> DEFINE T == {k \in 0..n : f[k] = SubSeq(t, 1, k)}
<1>2. 0 \in T
  BY <1>1
<1>3. ASSUME NEW k \in 1..n, k - 1 \in T
      PROVE  k \in T
  <2>1. f[k - 1] \in X /\ f[k - 1] = SubSeq(t, 1, k - 1) /\ k \in 0..n /\ k - 1 \in 0..n
    BY <1>3
  <2>2. f[k] = ReplaceStep(t, SubSeq(t, 1, k - 1), k)
    BY <1>1, <2>1
  <2>3. t[k] \in Safe /\ Append(SubSeq(t, 1, k - 1), t[k]) = SubSeq(t, 1, k)
    OBVIOUS
  <2>4. f[k] = SubSeq(t, 1, k)
    BY <2>2, <2>3 DEF ReplaceStep
  <2> QED
    BY <2>1, <2>4
<1>4. 0..n \subseteq T
  <2>1. n \in Nat
    OBVIOUS
  <2> HIDE DEF T, n
  <2> QED
    BY <1>2, <1>3, <2>1, CountingUp
<1>5. f[n] = SubSeq(t, 1, n)
  BY <1>4
<1>6. SubSeq(t, 1, n) = t
  OBVIOUS
<1> QED
  BY <1>1, <1>5, <1>6

(* What a component of a DID name looks like. *)
CleanComponent(s) ==
  /\ s \in Seq(Safe) /\ s # << >>
  /\ s[1] \notin Punctuation /\ s[Len(s)] \notin Punctuation

LEMMA ComponentIsClean ==
  ASSUME NEW C, NEW t \in Seq(C)
  PROVE  CleanComponent(SafeFilenameComponent(t))
<1> DEFINE r == ReplaceRuns(Strip(t, {Blank}))
           u == Strip(r, Punctuation)
<1>1. Strip(t, {Blank}) \in Seq(C)
  BY StripIs
<1>2. r \in Seq(Safe)
  BY <1>1, ReplacedIsSafe
<1> HIDE DEF r
<1>3. u \in Seq(Safe) /\ (u # << >> => u[1] \notin Punctuation /\ u[Len(u)] \notin Punctuation)
  BY <1>2, StripIs
<1>4. SafeFilenameComponent(t) = OrEmpty(u)
  BY DEF SafeFilenameComponent, r
<1> HIDE DEF u
<1>5. CASE u = << >>
  <2>1. "empty" \in Safe /\ "empty" \notin Punctuation
    BY CharactersAssumption DEF Safe, Punctuation
  <2>2. OrEmpty(u) = <<"empty">>
    BY <1>5 DEF OrEmpty
  <2>3. <<"empty">> \in Seq(Safe)
    BY <2>1
  <2> QED
    BY <1>4, <2>1, <2>2, <2>3 DEF CleanComponent
<1>6. CASE u # << >>
  BY <1>3, <1>4, <1>6 DEF OrEmpty, CleanComponent
<1> QED
  BY <1>5, <1>6

LEMMA CleanIsKept ==
  ASSUME NEW s, CleanComponent(s)
  PROVE  SafeFilenameComponent(s) = s
<1>1. s \in Seq(Safe) /\ s # << >> /\ s[1] \in Safe /\ s[Len(s)] \in Safe
  BY DEF CleanComponent
<1>2. Blank \notin Safe
  BY CharactersAssumption DEF Safe, Punctuation, Blank
<1>3. Strip(s, {Blank}) = s
  BY <1>1, <1>2, StripNothing
<1>4. ReplaceRuns(s) = s
  BY <1>1, ReplacesNothing
<1>5. Strip(s, Punctuation) = s
  BY <1>1, StripNothing DEF CleanComponent
<1> QED
  BY <1>1, <1>3, <1>4, <1>5 DEF SafeFilenameComponent, OrEmpty

(* The name of a key, item by item. *)
NameStep(acc, item) ==
  acc \o (IF acc = << >> THEN << >> ELSE <<"_">>)
      \o SafeFilenameComponent(item[1]) \o <<"-">> \o SafeFilenameComponent(item[2])

CleanStarts == {w \in Seq(Safe) : w # << >> => w[1] \notin Punctuation}

LEMMA OneCharacter ==
  ASSUME NEW S, NEW c \in S
  PROVE  <<c>> \in Seq(S) /\ << >> \in Seq(S)
OBVIOUS

LEMMA NameStepType ==
  ASSUME NEW C, NEW acc \in CleanStarts, NEW item \in Seq(C) \X Seq(C)
  PROVE  NameStep(acc, item) \in CleanStarts /\ NameStep(acc, item) # << >>
<1> DEFINE a == SafeFilenameComponent(item[1])
           b == SafeFilenameComponent(item[2])
           sep == IF acc = << >> THEN << >> ELSE <<"_">>
<1>1. CleanComponent(a) /\ CleanComponent(b)
  BY ComponentIsClean
<1> HIDE DEF a, b
<1>2. /\ acc \in Seq(Safe) /\ sep \in Seq(Safe) /\ a \in Seq(Safe) /\ b \in Seq(Safe)
      /\ <<"-">> \in Seq(Safe)
  <2>1. "-" \in Safe /\ "_" \in Safe
    BY DEF Safe, Punctuation
  <2>2. acc \in Seq(Safe)
    BY DEF CleanStarts
  <2>3. a \in Seq(Safe) /\ b \in Seq(Safe)
    BY <1>1 DEF CleanComponent
  <2>4. <<"-">> \in Seq(Safe) /\ <<"_">> \in Seq(Safe) /\ << >> \in Seq(Safe)
    BY <2>1, OneCharacter, Zenon
  <2>6. sep \in Seq(Safe)
    BY <2>4, Zenon
  <2> QED
    BY <2>2, <2>3, <2>4, <2>6
<1>6. acc # << >> => Len(acc) >= 1 /\ acc[1] \notin Punctuation
  <2>1. acc # << >> => acc[1] \notin Punctuation
    BY DEF CleanStarts
  <2>2. acc \in Seq(Safe)
    BY <1>2
  <2>3. acc # << >> => Len(acc) >= 1
    BY <2>2
  <2> QED
    BY <2>1, <2>3
<1>7. sep = IF acc = << >> THEN << >> ELSE <<"_">>
  OBVIOUS
<1>8. a # << >> /\ a[1] \notin Punctuation
  BY <1>1 DEF CleanComponent
<1> HIDE DEF sep
<1> DEFINE w == acc \o sep \o a \o <<"-">> \o b
<1>3. w \in Seq(Safe)
  BY <1>2
<1>4. w # << >> /\ w[1] \notin Punctuation
  <2>1. CASE acc = << >>
    <3>1. acc \o sep \o a = a
      BY <1>2, <1>7, <2>1
    <3>2. Len(a) >= 1
      BY <1>2, <1>8
    <3>3. a \o <<"-">> \o b # << >> /\ (a \o <<"-">> \o b)[1] = a[1]
      BY <1>2, <3>2
    <3> QED
      BY <1>8, <3>1, <3>3
  <2>2. CASE acc # << >>
    <3>1. Len(acc) >= 1 /\ acc[1] \notin Punctuation
      BY <1>6, <2>2
    <3>2. w # << >> /\ w[1] = acc[1]
      BY <1>2, <3>1
    <3> QED
      BY <3>1, <3>2
  <2> QED
    BY <2>1, <2>2
<1>5. NameStep(acc, item) = w
  BY DEF NameStep, a, b, sep
<1> QED
  BY <1>3, <1>4, <1>5 DEF CleanStarts

LEMMA NameChain ==
  ASSUME NEW C, NEW items \in Seq(Seq(C) \X Seq(C))
  PROVE  HasChain(CleanStarts, << >>, Len(items),
                  [p \in CleanStarts \X (1..Len(items)) |-> NameStep(p[1], items[p[2]])], FileName(items))
<1> DEFINE n == Len(items)
           X == CleanStarts
           F == [p \in X \X (1..n) |-> NameStep(p[1], items[p[2]])]
           Iterates(h) == h = [s \in SUBSET (1..n) |->
                                 IF s = {} THEN << >> ELSE NameStep(h[s \ {Max(s)}], items[Max(s)])]
<1>1. n \in Nat /\ DOMAIN items = 1..n /\ \A k \in 1..n : items[k] \in Seq(C) \X Seq(C)
  OBVIOUS
<1>2. << >> \in X
  BY DEF CleanStarts
<1>3. F \in [X \X (1..n) -> X]
  BY <1>1, NameStepType
<1>4. PICK g \in [SUBSET (1..n) -> X] :
        \A s \in SUBSET (1..n) : g[s] = IF s = {} THEN << >> ELSE F[<<g[s \ {Max(s)}], Max(s)>>]
  <2> HIDE DEF F, X, n
  <2>1. n \in Nat
    BY <1>1
  <2>2. HasFold(X, << >>, n, F)
    BY <1>2, <1>3, <2>1, FoldExists
  <2> QED
    BY <2>2 DEF HasFold
<1>5. Iterates(g)
  <2>1. ASSUME NEW s \in SUBSET (1..n), s # {}
        PROVE  g[s] = NameStep(g[s \ {Max(s)}], items[Max(s)])
    <3>1. Max(s) \in 1..n
      BY <1>1, <2>1, MaxIs, Zenon
    <3>2. g[s \ {Max(s)}] \in X
      OBVIOUS
    <3> QED
      BY <1>4, <2>1, <3>1, <3>2
  <2>2. \A s \in SUBSET (1..n) :
          g[s] = IF s = {} THEN << >> ELSE NameStep(g[s \ {Max(s)}], items[Max(s)])
    BY <1>4, <2>1
  <2> QED
    BY <2>2
<1>6. PICK h : Iterates(h) /\ FileName(items) = h[1..n]
  <2> HIDE DEF F, X
  <2> QED
    BY <1>1, <1>5 DEF FileName, FoldLeft, MapThenFoldSet, NameStep
<1>7. h[{}] = << >>
  BY <1>6
<1>8. ASSUME NEW k \in 1..n, h[1..(k - 1)] \in X
      PROVE  h[1..k] = F[<<h[1..(k - 1)], k>>]
  <2>1. 1..k \in SUBSET (1..n) /\ 1..k # {} /\ Max(1..k) = k /\ (1..k) \ {k} = 1..(k - 1)
    BY <1>1, Prefix
  <2>2. h[1..k] = NameStep(h[1..(k - 1)], items[k])
    BY <1>6, <2>1
  <2> QED
    BY <1>8, <2>2
<1>9. HasChain(X, << >>, n, F, h[1..n])
  <2>1. n \in Nat
    BY <1>1
  <2> HIDE DEF F, X, n, Iterates
  <2> QED
    BY <1>2, <1>3, <1>7, <1>8, <2>1, ChainOfFold
<1> QED
  BY <1>6, <1>9

(* The name of any key with an item is a safe text that does not start with *)
(* a dot, whatever its keywords and values are: with the suffix ".data" it  *)
(* is one path component, and archive() cannot raise "Unsafe filename".     *)
THEOREM FileNameIsSafe ==
  ASSUME NEW C, NEW items \in Seq(Seq(C) \X Seq(C)), items # << >>
  PROVE  /\ FileName(items) \in Seq(Safe) /\ FileName(items) # << >>
         /\ FileName(items)[1] # "."
         /\ \A i \in 1..Len(FileName(items)) : FileName(items)[i] \notin Other
<1> DEFINE n == Len(items)
           X == CleanStarts
           F == [p \in X \X (1..n) |-> NameStep(p[1], items[p[2]])]
<1>1. n \in 1..n /\ n - 1 \in 0..n /\ n \in 0..n /\ items[n] \in Seq(C) \X Seq(C)
  OBVIOUS
<1>2. PICK f \in [0..n -> X] : f[n] = FileName(items) /\ \A k \in 1..n : f[k] = F[<<f[k - 1], k>>]
  <2>1. HasChain(X, << >>, n, F, FileName(items))
    BY NameChain
  <2> HIDE DEF X, n, F
  <2> QED
    BY <2>1 DEF HasChain
<1>3. f[n - 1] \in X /\ f[n] = NameStep(f[n - 1], items[n])
  BY <1>1, <1>2
<1>4. FileName(items) \in CleanStarts /\ FileName(items) # << >>
  BY <1>1, <1>2, <1>3, NameStepType
<1>5. FileName(items) \in Seq(Safe) /\ FileName(items)[1] # "."
  BY <1>4 DEF CleanStarts, Punctuation
<1> QED
  BY <1>4, <1>5, CharactersAssumption

-----------------------------------------------------------------------------
(* The texts of a run are made of the characters of its alphabet. *)
TextInv == text \in Seq(alphabet.chars) /\ keepEmpty \in BOOLEAN

LEMMA TextsAreTexts == TextSpec => []TextInv
<1>1. TextInit => TextInv
  BY DEF TextInit, TextInv
<1>2. TextInv /\ [TextNext]_textVars => TextInv'
  <2> SUFFICES ASSUME TextInv, [TextNext]_textVars
               PROVE  TextInv'
    OBVIOUS
  <2>1. text' \in Seq(alphabet.chars)
    <3>1. CASE Add
      <4>1. PICK c \in alphabet.chars : text' = Append(text, c)
        BY <3>1 DEF Add
      <4> QED
        BY <4>1 DEF TextInv
    <3>2. CASE Clear
      <4>1. << >> \in Seq(alphabet.chars)
        OBVIOUS
      <4> QED
        BY <3>2, <4>1 DEF Clear
    <3>3. CASE UNCHANGED textVars
      BY <3>3 DEF TextInv, textVars
    <3> QED
      BY <3>1, <3>2, <3>3 DEF TextNext
  <2>2. alphabet' = alphabet /\ keepEmpty' = keepEmpty
    BY DEF TextNext, Add, Clear, textVars
  <2> QED
    BY <2>1, <2>2 DEF TextInv
<1> QED
  BY <1>1, <1>2, PTL DEF TextSpec

(* KeyMatchesQuery of every text of every alphabet: what Key(text) was      *)
(* archived under is what Query(text) selects.                              *)
THEOREM KeyMatchesQueryAlways == TextSpec => []KeyMatchesQuery
<1>1. TextInv => KeyMatchesQuery
  BY SameObject DEF TextInv, KeyMatchesQuery
<1> QED
  BY <1>1, TextsAreTexts, PTL

(* ComponentIsSafe of every text of every alphabet:                         *)
(* _safe_filename_component returns safe, non-empty text and returns what   *)
(* it has returned unchanged.                                               *)
THEOREM ComponentIsSafeAlways == TextSpec => []ComponentIsSafe
<1>1. TextInv => ComponentIsSafe
  <2> SUFFICES ASSUME TextInv
               PROVE  ComponentIsSafe
    OBVIOUS
  <2> DEFINE s == SafeFilenameComponent(text)
  <2>1. CleanComponent(s)
    BY ComponentIsClean DEF TextInv
  <2> HIDE DEF s
  <2>2. SafeFilenameComponent(s) = s
    BY <2>1, CleanIsKept
  <2>3. s # << >> /\ \A i \in 1..Len(s) : s[i] \in Safe
    BY <2>1 DEF CleanComponent
  <2>4. s[1] # "." /\ s[Len(s)] # "."
    BY <2>1 DEF CleanComponent, Punctuation
  <2> QED
    BY <2>2, <2>3, <2>4 DEF ComponentIsSafe, s
<1> QED
  BY <1>1, TextsAreTexts, PTL
=============================================================================

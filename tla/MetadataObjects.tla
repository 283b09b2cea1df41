-------------------------- MODULE MetadataObjects --------------------------
(***************************************************************************)
(* pydasi's Key and Query objects and the C objects behind them.           *)
(*                                                                         *)
(* A Python object holds a cdata, a garbage collected wrapper of a pointer *)
(* to a C++ Key or Query on the heap.  Key(key) and Query(query) share the *)
(* cdata of their argument, which is how every call of Dasi converts its   *)
(* argument; a dict makes a new object, filled item by item.  When nothing *)
(* refers to a cdata any more, its finalizer frees the C object.           *)
(*                                                                         *)
(* A Query maps keywords to sequences of values, a Key to sequences of     *)
(* length one.  Keywords are numbered in the order of std::map.            *)
(***************************************************************************)
EXTENDS Integers, Sequences, FiniteSets

CONSTANTS Vars,       \* Python variables
          Blocks,     \* heap addresses
          Wrappers,   \* identities of cdata objects
          Keywords,   \* a set of numbers
          Values,     \* a set of numbers, ordered as strings are
          MaxValues   \* most values of a keyword of a query

ASSUME ObjectsAssumption ==
  /\ Keywords \subseteq Nat /\ Values \subseteq Nat /\ MaxValues \in Nat \ {0}
  /\ "none" \notin Blocks \cup Wrappers

None == "none"

VARIABLES
  kind,    \* what the objects are: "key" or "query"
  live,    \* the blocks that hold a C++ object; freed ones are used again
  heap,    \* per block: the map of the C++ object in it
  wraps,   \* per cdata: the block it points to and frees, or None
  var,     \* per variable: its cdata (Key._cdata), or None
  arg,     \* the cdata of the dasi_archive or dasi_list in progress, or None
  badFree  \* history: a block was freed that held no object

vars == <<kind, live, heap, wraps, var, arg, badFree>>

Lists == UNION {[1..n -> Values] : n \in IF kind = "key" THEN {1} ELSE 0..MaxValues}
Maps == UNION {[D -> Lists] : D \in SUBSET Keywords}

Reachable(w) == w = arg \/ \E v \in Vars : var[v] = w
Object(v) == heap[wraps[var[v]]]

-----------------------------------------------------------------------------
(* std::map operations. *)

(* insert_or_assign. *)
Put(m, k, l) == [i \in DOMAIN m \cup {k} |-> IF i = k THEN l ELSE m[i]]

(* Items put one after the other over a map. *)
PutAll(m, d) == [i \in DOMAIN m \cup DOMAIN d |-> IF i \in DOMAIN d THEN d[i] ELSE m[i]]

Erase(m, k) == [i \in DOMAIN m \ {k} |-> m[i]]

(* Query::append. *)
Append1(m, k, x) == Put(m, k, IF k \in DOMAIN m THEN Append(m[k], x) ELSE <<x>>)

(* std::map::operator<: the first pair that differs decides, in the order   *)
(* of the keywords; an end of the map comes before any pair.                *)
Less(m, n) ==
  \E k \in DOMAIN m \cup DOMAIN n :
    /\ \A i \in DOMAIN m \cup DOMAIN n :
         i < k => i \in DOMAIN m \cap DOMAIN n /\ m[i] = n[i]
    /\ LET more(f) == {i \in DOMAIN f : i >= k}
       IN  \/ k \notin DOMAIN m /\ more(m) = {}
           \/ k \in DOMAIN m /\ k \notin DOMAIN n /\ more(n) # {}
           \/ k \in DOMAIN m /\ k \in DOMAIN n /\ m[k][1] < n[k][1]

(* Mutant of Compare: only the keywords are compared. *)
CompareKeywords(m, n) ==
  IF \E k \in DOMAIN m \ DOMAIN n : \A i \in DOMAIN n \ DOMAIN m : k < i THEN -1
  ELSE IF DOMAIN m = DOMAIN n THEN 0 ELSE 1

(* dasi_key_compare. *)
Compare(m, n) == IF Less(m, n) THEN -1 ELSE IF Less(n, m) THEN 1 ELSE 0

-----------------------------------------------------------------------------
(* new_key / new_query: a C object with map m in a free block, wrapped. *)
Allocate(b, w, m) ==
  /\ b \notin live
  /\ live' = live \cup {b}
  /\ wraps[w] = None /\ ~Reachable(w)
  /\ heap' = [heap EXCEPT ![b] = m]
  /\ wraps' = [wraps EXCEPT ![w] = b]

(* v = Key(dict): the object is built empty and filled item by item.        *)
New(v, m) ==
  /\ \E b \in Blocks, w \in Wrappers : Allocate(b, w, m) /\ var' = [var EXCEPT ![v] = w]
  /\ UNCHANGED <<kind, arg, badFree>>

(* The same with an item that raises: some items are in, the variable is    *)
(* not assigned and nothing refers to the cdata.                            *)
NewRaises(m) ==
  /\ \E b \in Blocks, w \in Wrappers : Allocate(b, w, m)
  /\ UNCHANGED <<kind, var, arg, badFree>>

(* Mutant of Copy: the copy wraps the pointer a second time. *)
CopyWrapsAgain(v, u) ==
  /\ var[u] # None
  /\ \E w \in Wrappers :
       /\ wraps[w] = None /\ ~Reachable(w)
       /\ wraps' = [wraps EXCEPT ![w] = wraps[var[u]]]
       /\ var' = [var EXCEPT ![v] = w]
  /\ UNCHANGED <<kind, live, heap, arg, badFree>>

(* v = Key(u). *)
Copy(v, u) ==
  /\ var[u] # None
  /\ var' = [var EXCEPT ![v] = var[u]]
  /\ UNCHANGED <<kind, live, heap, wraps, arg, badFree>>

(* The variable is deleted or goes out of scope. *)
Drop(v) ==
  /\ var[v] # None
  /\ var' = [var EXCEPT ![v] = None]
  /\ UNCHANGED <<kind, live, heap, wraps, arg, badFree>>

Update(v, m) ==
  /\ heap' = [heap EXCEPT ![wraps[var[v]]] = m]
  /\ UNCHANGED <<kind, live, wraps, var, arg, badFree>>

(* v[k] = l *)
SetItem(v, k, l) == var[v] # None /\ Update(v, Put(Object(v), k, l))

(* del v[k]: a keyword that is missing is no error. *)
DelItem(v, k) == var[v] # None /\ Update(v, Erase(Object(v), k))

(* v.clear() *)
ClearAll(v) == var[v] # None /\ Update(v, << >>)

(* v.insert(d), all of it or the items before one that raises. *)
Insert(v, d) == var[v] # None /\ Update(v, PutAll(Object(v), d))

(* v.append(k, x) of a query. *)
AppendItem(v, k, x) ==
  /\ kind = "query" /\ var[v] # None
  /\ k \in DOMAIN Object(v) => Len(Object(v)[k]) < MaxValues
  /\ Update(v, Append1(Object(v), k, x))

(* Mutant of CallWith: a converted dict is wrapped by a temporary that is   *)
(* gone when the call is made.                                              *)
CallWithDangling(v) ==
  /\ arg = None /\ var[v] # None
  /\ arg' = var[v]
  /\ live' = live \ {wraps[var[v]]}
  /\ UNCHANGED <<kind, heap, wraps, var, badFree>>

(* dasi.archive(v, ..) or dasi.list(v): the call holds Key(v).cdata, the    *)
(* very cdata of v, while it runs.                                          *)
CallWith(v) ==
  /\ arg = None /\ var[v] # None
  /\ arg' = var[v]
  /\ UNCHANGED <<kind, live, heap, wraps, var, badFree>>

(* The same with a dict: the cdata of a temporary Key. *)
CallWithDict(m) ==
  /\ arg = None
  /\ \E b \in Blocks, w \in Wrappers : Allocate(b, w, m) /\ arg' = w
  /\ UNCHANGED <<kind, var, badFree>>

CallReturns ==
  /\ arg # None
  /\ arg' = None
  /\ UNCHANGED <<kind, live, heap, wraps, var, badFree>>

(* Mutant of Finalize: the finalizer is not registered (no ffi.gc). *)
FinalizeNothing(w) ==
  /\ wraps[w] # None /\ ~Reachable(w)
  /\ wraps' = [wraps EXCEPT ![w] = None]
  /\ UNCHANGED <<kind, live, heap, var, arg, badFree>>

(* The collector finds a cdata nobody refers to and runs its finalizer,     *)
(* dasi_free_key or dasi_free_query, at any time.                           *)
Finalize(w) ==
  /\ wraps[w] # None /\ ~Reachable(w)
  /\ live' = live \ {wraps[w]}
  /\ heap' = [heap EXCEPT ![wraps[w]] = << >>]
  /\ badFree' = (badFree \/ wraps[w] \notin live)
  /\ wraps' = [wraps EXCEPT ![w] = None]
  /\ UNCHANGED <<kind, var, arg>>

Init ==
  /\ kind \in {"key", "query"}
  /\ live = {}
  /\ heap = [b \in Blocks |-> << >>]
  /\ wraps = [w \in Wrappers |-> None]
  /\ var = [v \in Vars |-> None]
  /\ arg = None
  /\ badFree = FALSE

Use(v) ==
  \/ \E k \in Keywords, l \in Lists : SetItem(v, k, l)
  \/ \E k \in Keywords : DelItem(v, k)
  \/ ClearAll(v)
  \/ \E d \in Maps : Insert(v, d)
  \/ \E k \in Keywords, x \in Values : AppendItem(v, k, x)

Next ==
  \/ \E v \in Vars :
       \/ \E m \in Maps : New(v, m)
       \/ \E u \in Vars : Copy(v, u)
       \/ Drop(v) \/ Use(v) \/ CallWith(v)
  \/ \E m \in Maps : NewRaises(m) \/ CallWithDict(m)
  \/ CallReturns
  \/ \E w \in Wrappers : Finalize(w)

Spec == Init /\ [][Next]_vars

(* The collector gets to every cdata. *)
FairSpec == Spec /\ \A w \in Wrappers : WF_vars(Finalize(w))

-----------------------------------------------------------------------------
(* Type invariant of the objects. *)
TypeOK ==
  /\ kind \in {"key", "query"} /\ live \subseteq Blocks
  /\ heap \in [Blocks -> Maps]
  /\ wraps \in [Wrappers -> Blocks \cup {None}]
  /\ var \in [Vars -> Wrappers \cup {None}]
  /\ arg \in Wrappers \cup {None}
  /\ badFree \in BOOLEAN

(* Whatever a variable or a running call refers to is a C object that was   *)
(* not freed, however objects are copied, dropped and collected.            *)
NoDangling ==
  \A w \in Wrappers : Reachable(w) => wraps[w] \in live

(* No C object is freed twice, and none is forgotten: each one alive has    *)
(* exactly one cdata to free it, also after a constructor that raised.      *)
OneOwner ==
  /\ ~badFree
  /\ \A b \in live : Cardinality({w \in Wrappers : wraps[w] = b}) = 1

(* dasi_key_compare orders keys totally: it answers 0 exactly for equal     *)
(* keys (so Key == and != of Python mean what they say), never -1 both      *)
(* ways round, goes by the values too, and has no cycles: what is before a  *)
(* key is before every key that comes after that.                           *)
CompareIsOrder ==
  kind = "key" =>
    \A v, u \in {x \in Vars : var[x] # None} :
      /\ Compare(Object(v), Object(u)) = -Compare(Object(u), Object(v))
      /\ Compare(Object(v), Object(u)) = 0 <=> Object(v) = Object(u)
      /\ Compare(Object(v), Object(u)) = -1 =>
           \A m \in Maps : Compare(Object(u), m) = -1 => Compare(Object(v), m) = -1

(* An unreachable C object is freed in the end: a Key or Query dropped, a   *)
(* temporary of a call or the rest of a constructor that raised.            *)
Collected ==
  \A b \in Blocks :
    (b \in live /\ \A w \in Wrappers : Reachable(w) => wraps[w] # b) ~> b \notin live
=============================================================================

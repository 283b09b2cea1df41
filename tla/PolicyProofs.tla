---------------------------- MODULE PolicyProofs ----------------------------
(***************************************************************************)
(* Proofs about Policy for any number of clients, any set of databases and *)
(* any dictionaries.                                                       *)
(***************************************************************************)
EXTENDS Policy, TLAPS

(* What a running setPolicy was asked for is what its control does. *)
Asked(c) ==
  /\ call[c] = "none" => pending[c] = {} /\ queue[c] = << >> /\ seen[c] = << >>
  /\ call[c] = "set" =>
       /\ names[c] = DOMAIN dict[c] \cap Identifiers
       /\ \A n \in DOMAIN dict[c] : dict[c][n] = action[c]

(* A status in which the control of c has been applied. *)
Applied(c, on) ==
  call[c] = "set" => IF action[c] THEN names[c] \subseteq on ELSE names[c] \cap on = {}

(* The element of c shows its status, and nothing before the first.         *)
Element(c) ==
  IF seen[c] = << >> THEN DOMAIN value[c] = {}
  ELSE /\ status[c].db = Last(seen[c])
       /\ value[c] = [n \in Shown(c) |-> n \in status[c].on]
       /\ Applied(c, status[c].on)

(* Every database is at one place: not visited, waiting or presented. *)
Once(c) ==
  /\ \A i, j \in 1..Len(seen[c]) : seen[c][i] = seen[c][j] => i = j
  /\ \A i, j \in 1..Len(queue[c]) : queue[c][i].db = queue[c][j].db => i = j
  /\ \A i \in 1..Len(seen[c]), j \in 1..Len(queue[c]) : seen[c][i] # queue[c][j].db
  /\ \A i \in 1..Len(seen[c]) : seen[c][i] \notin pending[c]
  /\ \A j \in 1..Len(queue[c]) : queue[c][j].db \notin pending[c]

NoneLost(c) ==
  call[c] # "none" =>
    \A d \in Databases : \/ d \in pending[c]
                         \/ \E i \in 1..Len(seen[c]) : seen[c][i] = d
                         \/ \E j \in 1..Len(queue[c]) : queue[c][j].db = d

Good(c) ==
  /\ Asked(c) /\ Element(c) /\ Once(c) /\ NoneLost(c)
  /\ \A i \in 1..Len(queue[c]) : Applied(c, queue[c][i].on)

PolicyInv == TypeOK /\ \A c \in Clients : Good(c)

LEMMA EmptyFacts ==
  ASSUME NEW S
  PROVE  << >> \in Seq(S) /\ Len(<< >>) = 0 /\ DOMAIN << >> = {}
  OBVIOUS

Values == UNION {[N -> BOOLEAN] : N \in SUBSET Identifiers}

LEMMA ValueFacts ==
  /\ << >> \in Values
  /\ \A N \in SUBSET Identifiers : \A on : [n \in N |-> n \in on] \in Values
<1>1. << >> \in [{} -> BOOLEAN]
  OBVIOUS
<1>2. ASSUME NEW N \in SUBSET Identifiers, NEW on PROVE [n \in N |-> n \in on] \in Values
  <2>1. [n \in N |-> n \in on] \in [N -> BOOLEAN]
    OBVIOUS
  <2> QED
    BY <2>1 DEF Values
<1>3. {} \in SUBSET Identifiers
  OBVIOUS
<1> QED
  BY <1>1, <1>2, <1>3 DEF Values

LEMMA InitInv == Init => PolicyInv
<1> SUFFICES ASSUME Init PROVE PolicyInv
  OBVIOUS
<1>1. TypeOK
  BY EmptyFacts, ValueFacts DEF Init, TypeOK, NoStatus, Values
<1>2. ASSUME NEW c \in Clients PROVE Good(c)
  BY EmptyFacts DEF Init, Good, Asked, Element, Once, NoneLost
<1> QED
  BY <1>1, <1>2 DEF PolicyInv

-----------------------------------------------------------------------------
(* A client's own part of the state. *)
Part(c) == <<call[c], dict[c], action[c], names[c], pending[c], queue[c], value[c],
             status[c], seen[c]>>

LEMMA PartKept ==
  ASSUME NEW c \in Clients, Good(c), Part(c)' = Part(c)
  PROVE  Good(c)'
  BY DEF Part, Good, Asked, Applied, Element, Shown, Once, NoneLost

LEMMA BeginKeepsTypes ==
  ASSUME TypeOK, NEW c \in Clients, NEW what \in {"set", "query"}, Begin(c, what),
         dict' \in [Clients -> Dicts \cup {<< >>}], action' \in [Clients -> BOOLEAN],
         names' \in [Clients -> SUBSET Identifiers]
  PROVE  TypeOK'
<1>1. NoStatus \in [db : Databases \cup {"none"}, on : SUBSET Identifiers]
  BY DEF NoStatus
<1> QED
  BY <1>1, EmptyFacts, ValueFacts DEF Begin, TypeOK, Values

(* A new call starts from an empty generator that has all databases before  *)
(* it; the other clients are not touched.                                   *)
LEMMA BeginKeeps ==
  ASSUME PolicyInv, NEW c \in Clients, NEW what \in {"set", "query"}, Begin(c, what),
         \A e \in Clients \ {c} : /\ dict'[e] = dict[e] /\ action'[e] = action[e]
                                  /\ names'[e] = names[e],
         what = "set" => /\ names'[c] = DOMAIN dict'[c] \cap Identifiers
                         /\ \A n \in DOMAIN dict'[c] : dict'[c][n] = action'[c]
  PROVE  \A e \in Clients : Good(e)'
<1>1. ASSUME NEW e \in Clients \ {c} PROVE Good(e)'
  <2>1. Part(e)' = Part(e)
    BY DEF Begin, Part, PolicyInv, TypeOK
  <2> QED
    BY <2>1, PartKept DEF PolicyInv
<1>2. Good(c)'
  <2>1. /\ call'[c] = what /\ pending'[c] = Databases /\ queue'[c] = << >>
        /\ seen'[c] = << >> /\ value'[c] = << >>
    BY DEF Begin, PolicyInv, TypeOK
  <2> QED
    BY <2>1, EmptyFacts DEF Good, Asked, Element, Once, NoneLost
<1> QED
  BY <1>1, <1>2

LEMMA SetPolicyStep ==
  ASSUME PolicyInv, NEW c \in Clients, NEW p \in Dicts, SetPolicy(c, p)
  PROVE  PolicyInv'
<1>1. PICK a \in IF DOMAIN p = {} THEN BOOLEAN ELSE {p[n] : n \in DOMAIN p} :
         action' = [action EXCEPT ![c] = a]
  BY DEF SetPolicy
<1>2. a \in BOOLEAN /\ \A n \in DOMAIN p : p[n] = a
  BY <1>1, DictsAssumption DEF SetPolicy, Conflict
<1>3. /\ dict' = [dict EXCEPT ![c] = p] /\ Begin(c, "set")
      /\ names' = [names EXCEPT ![c] = DOMAIN p \cap Identifiers]
  BY DEF SetPolicy
<1>4. TypeOK'
  BY <1>1, <1>2, <1>3, BeginKeepsTypes DEF PolicyInv, TypeOK
<1>5. \A e \in Clients : Good(e)'
  BY <1>1, <1>2, <1>3, BeginKeeps DEF PolicyInv, TypeOK
<1> QED
  BY <1>4, <1>5 DEF PolicyInv

LEMMA QueryPolicyStep ==
  ASSUME PolicyInv, NEW c \in Clients, QueryPolicy(c)
  PROVE  PolicyInv'
<1>1. PICK s \in Specifiers : names' = [names EXCEPT ![c] = Specified(s)]
  BY DEF QueryPolicy
<1>2. Specified(s) \subseteq Identifiers
  BY DEF Specified
<1>3. Begin(c, "query") /\ UNCHANGED <<dict, action>>
  BY DEF QueryPolicy
<1>4. TypeOK'
  BY <1>1, <1>2, <1>3, BeginKeepsTypes DEF PolicyInv, TypeOK
<1>5. \A e \in Clients : Good(e)'
  BY <1>1, <1>2, <1>3, BeginKeeps DEF PolicyInv, TypeOK
<1> QED
  BY <1>4, <1>5 DEF PolicyInv

LEMMA FinishStep ==
  ASSUME PolicyInv, NEW c \in Clients, Finish(c)
  PROVE  PolicyInv'
<1>1. TypeOK'
  <2>1. NoStatus \in [db : Databases \cup {"none"}, on : SUBSET Identifiers]
    BY DEF NoStatus
  <2> QED
    BY <2>1, EmptyFacts, ValueFacts DEF Finish, PolicyInv, TypeOK, Values
<1>2. ASSUME NEW e \in Clients \ {c} PROVE Good(e)'
  <2>1. Part(e)' = Part(e)
    BY DEF Finish, Part, PolicyInv, TypeOK
  <2> QED
    BY <2>1, PartKept DEF PolicyInv
<1>3. Good(c)'
  <2>1. /\ call'[c] = "none" /\ pending'[c] = {} /\ queue'[c] = << >>
        /\ seen'[c] = << >> /\ value'[c] = << >>
    BY DEF Finish, PolicyInv, TypeOK
  <2> QED
    BY <2>1, EmptyFacts DEF Good, Asked, Element, Once, NoneLost
<1> QED
  BY <1>1, <1>2, <1>3 DEF PolicyInv

LEMMA RaisesStep ==
  ASSUME PolicyInv, NEW c \in Clients, SetPolicyRaises(c)
  PROVE  PolicyInv'
<1>1. TypeOK'
  BY DEF SetPolicyRaises, elementVars, PolicyInv, TypeOK
<1>2. ASSUME NEW e \in Clients PROVE Good(e)'
  BY PartKept DEF SetPolicyRaises, elementVars, Part, PolicyInv
<1> QED
  BY <1>1, <1>2 DEF PolicyInv

-----------------------------------------------------------------------------
(* A visit applies the control of its client, and queues what it left.      *)
LEMMA ControlledFacts ==
  ASSUME PolicyInv, NEW c \in Clients, NEW d \in Databases, call[c] # "none"
  PROVE  Controlled(c, d) \subseteq Identifiers /\ Applied(c, Controlled(c, d))
  BY DEF PolicyInv, TypeOK, Controlled, Applied

LEMMA VisitStep ==
  ASSUME PolicyInv, NEW c \in Clients, Visit(c)
  PROVE  PolicyInv'
<1>1. PICK d \in pending[c] :
        /\ enabled' = [enabled EXCEPT ![d] = Controlled(c, d)]
        /\ queue' = [queue EXCEPT ![c] = Append(@, Status(d, Controlled(c, d)))]
        /\ pending' = [pending EXCEPT ![c] = @ \ {d}]
        /\ UNCHANGED <<genVars, elementVars>>
  BY DEF Visit
<1>2. Good(c) /\ d \in Databases /\ call[c] # "none"
  BY <1>1 DEF PolicyInv, TypeOK, Good, Asked
<1>3. Controlled(c, d) \subseteq Identifiers /\ Applied(c, Controlled(c, d))
  BY <1>2, ControlledFacts
<1> DEFINE new == Status(d, Controlled(c, d))
<1>4. new \in [db : Databases, on : SUBSET Identifiers] /\ new.db = d /\ new.on = Controlled(c, d)
  BY <1>2, <1>3 DEF Status
<1> HIDE DEF new
<1>5. /\ queue[c] \in Seq([db : Databases, on : SUBSET Identifiers])
      /\ queue'[c] = Append(queue[c], new) /\ pending'[c] = pending[c] \ {d}
      /\ UNCHANGED <<call, dict, action, names, raised, value, status, seen>>
  BY <1>1 DEF new, genVars, elementVars, PolicyInv, TypeOK
<1>6. TypeOK'
  <2>1. enabled' \in [Databases -> SUBSET Identifiers]
    BY <1>1, <1>2, <1>3 DEF PolicyInv, TypeOK
  <2>2. queue' \in [Clients -> Seq([db : Databases, on : SUBSET Identifiers])]
    <3>1. Append(queue[c], new) \in Seq([db : Databases, on : SUBSET Identifiers])
      BY <1>4, <1>5
    <3>2. queue' = [queue EXCEPT ![c] = Append(queue[c], new)]
      BY <1>1 DEF new
    <3> QED
      BY <3>1, <3>2 DEF PolicyInv, TypeOK
  <2>3. pending' \in [Clients -> SUBSET Databases]
    BY <1>1 DEF PolicyInv, TypeOK
  <2> QED
    BY <1>5, <2>1, <2>2, <2>3 DEF PolicyInv, TypeOK
<1>7. ASSUME NEW e \in Clients \ {c} PROVE Good(e)'
  <2>1. Part(e)' = Part(e)
    BY <1>1, <1>5 DEF Part, PolicyInv, TypeOK
  <2> QED
    BY <2>1, PartKept DEF PolicyInv
<1>8. Asked(c)' /\ Element(c)'
  BY <1>2, <1>5 DEF Good, Asked, Element, Applied, Shown
<1>9. /\ Len(queue'[c]) = Len(queue[c]) + 1 /\ queue'[c][Len(queue[c]) + 1] = new
      /\ \A i \in 1..Len(queue[c]) : queue'[c][i] = queue[c][i]
      /\ Len(queue[c]) \in Nat
  BY <1>5
<1>10. Once(c)'
  <2>1. /\ \A i, j \in 1..Len(queue[c]) : queue[c][i].db = queue[c][j].db => i = j
        /\ \A i \in 1..Len(seen[c]), j \in 1..Len(queue[c]) : seen[c][i] # queue[c][j].db
        /\ \A i \in 1..Len(seen[c]) : seen[c][i] # d
        /\ \A j \in 1..Len(queue[c]) : queue[c][j].db \notin pending[c] /\ queue[c][j].db # d
    BY <1>1, <1>2 DEF Good, Once
  <2>2. \A j \in 1..Len(queue'[c]) :
          \/ j \in 1..Len(queue[c]) /\ queue'[c][j] = queue[c][j]
          \/ j = Len(queue[c]) + 1 /\ queue'[c][j].db = d
    BY <1>4, <1>9
  <2>3. \A i, j \in 1..Len(queue'[c]) : queue'[c][i].db = queue'[c][j].db => i = j
    BY <2>1, <2>2
  <2>4. \A i \in 1..Len(seen[c]), j \in 1..Len(queue'[c]) : seen[c][i] # queue'[c][j].db
    BY <2>1, <2>2
  <2>5. \A j \in 1..Len(queue'[c]) : queue'[c][j].db \notin pending'[c]
    BY <1>5, <2>1, <2>2
  <2> QED
    BY <1>2, <1>5, <2>3, <2>4, <2>5 DEF Good, Once
<1>11. NoneLost(c)'
  <2> SUFFICES ASSUME NEW b \in Databases
               PROVE  \/ b \in pending'[c]
                      \/ \E i \in 1..Len(seen[c]) : seen[c][i] = b
                      \/ \E j \in 1..Len(queue'[c]) : queue'[c][j].db = b
    BY <1>5 DEF NoneLost
  <2>1. CASE b = d
    BY <1>4, <1>9, <2>1
  <2>2. CASE b # d
    <3>1. \/ b \in pending[c]
          \/ \E i \in 1..Len(seen[c]) : seen[c][i] = b
          \/ \E j \in 1..Len(queue[c]) : queue[c][j].db = b
      BY <1>2 DEF Good, NoneLost
    <3> QED
      BY <1>5, <1>9, <2>2, <3>1
  <2> QED
    BY <2>1, <2>2
<1>12. (\A i \in 1..Len(queue[c]) : Applied(c, queue[c][i].on))'
  BY <1>2, <1>3, <1>4, <1>5, <1>9 DEF Good, Applied
<1> QED
  BY <1>6, <1>7, <1>8, <1>10, <1>11, <1>12 DEF PolicyInv, Good

LEMMA TailFacts ==
  ASSUME NEW S, NEW q \in Seq(S), q # << >>
  PROVE  /\ Tail(q) \in Seq(S) /\ Len(Tail(q)) = Len(q) - 1
         /\ \A j \in 1..Len(q) - 1 : Tail(q)[j] = q[j + 1]
  OBVIOUS

LEMMA ItemFacts ==
  ASSUME NEW S, NEW q \in Seq(S), NEW i \in 1..Len(q)
  PROVE  q[i] \in S
  OBVIOUS

(* The generator presents the head of the queue, and nothing else moves. *)
LEMMA PullStep ==
  ASSUME PolicyInv, NEW c \in Clients, Pull(c)
  PROVE  PolicyInv'
<1> DEFINE head == Head(queue[c])
           v == [n \in DOMAIN value[c] \cup Shown(c) |->
                    IF n \in Shown(c) THEN n \in head.on ELSE value[c][n]]
<1>1. /\ queue[c] # << >>
      /\ value' = [value EXCEPT ![c] = v] /\ status' = [status EXCEPT ![c] = head]
      /\ seen' = [seen EXCEPT ![c] = Append(@, head.db)]
      /\ queue' = [queue EXCEPT ![c] = Tail(@)]
      /\ UNCHANGED <<enabled, call, dict, action, names, raised, pending>>
  BY DEF Pull, Present, genVars
<1>2. Good(c) /\ call[c] # "none"
  BY <1>1 DEF PolicyInv, Good, Asked
<1>3. /\ queue[c] \in Seq([db : Databases, on : SUBSET Identifiers])
      /\ seen[c] \in Seq(Databases) /\ Shown(c) \subseteq Identifiers
  BY DEF PolicyInv, TypeOK, Shown
<1>4. /\ head \in [db : Databases, on : SUBSET Identifiers]
      /\ head = queue[c][1] /\ 1 \in 1..Len(queue[c]) /\ Applied(c, head.on)
  <2>1. 1 \in 1..Len(queue[c]) /\ head = queue[c][1]
    BY <1>1, <1>3
  <2>2. Applied(c, queue[c][1].on)
    BY <1>2, <2>1 DEF Good
  <2>3. queue[c][1] \in [db : Databases, on : SUBSET Identifiers]
    BY <1>3, <2>1, ItemFacts
  <2> HIDE DEF head
  <2>4. Applied(c, head.on)
    BY <2>1, <2>2 DEF Applied
  <2> QED
    BY <2>1, <2>3, <2>4
<1>5. v = [n \in Shown(c) |-> n \in head.on]
  <2>1. DOMAIN value[c] \subseteq Shown(c)
    BY <1>2 DEF Good, Element
  <2> QED
    BY <2>1
<1> HIDE DEF head, v
<1>6. /\ v \in Values /\ value'[c] = v /\ status'[c] = head
      /\ seen'[c] = Append(seen[c], head.db) /\ queue'[c] = Tail(queue[c])
  BY <1>1, <1>3, <1>5, ValueFacts DEF PolicyInv, TypeOK
<1>7. TypeOK'
  <2>1. value' \in [Clients -> Values]
    BY <1>1, <1>6 DEF PolicyInv, TypeOK, Values
  <2>2. Append(seen[c], head.db) \in Seq(Databases)
    BY <1>3, <1>4
  <2>3. Tail(queue[c]) \in Seq([db : Databases, on : SUBSET Identifiers])
    BY <1>1, <1>3
  <2> QED
    BY <1>1, <1>4, <2>1, <2>2, <2>3 DEF PolicyInv, TypeOK, Values
<1>8. ASSUME NEW e \in Clients \ {c} PROVE Good(e)'
  <2>1. Part(e)' = Part(e)
    BY <1>1 DEF Part, PolicyInv, TypeOK
  <2> QED
    BY <2>1, PartKept DEF PolicyInv
<1>9. /\ Len(seen'[c]) = Len(seen[c]) + 1 /\ seen'[c][Len(seen[c]) + 1] = head.db
      /\ \A i \in 1..Len(seen[c]) : seen'[c][i] = seen[c][i]
      /\ Len(queue'[c]) = Len(queue[c]) - 1
      /\ \A j \in 1..Len(queue'[c]) : queue'[c][j] = queue[c][j + 1]
      /\ Len(queue[c]) \in Nat \ {0} /\ Len(seen[c]) \in Nat
  <2>1. Len(queue[c]) \in Nat \ {0} /\ Len(seen[c]) \in Nat
    BY <1>1, <1>3
  <2>2. /\ Len(seen'[c]) = Len(seen[c]) + 1 /\ seen'[c][Len(seen[c]) + 1] = head.db
        /\ \A i \in 1..Len(seen[c]) : seen'[c][i] = seen[c][i]
    BY <1>3, <1>4, <1>6
  <2>3. /\ Len(queue'[c]) = Len(queue[c]) - 1
        /\ \A j \in 1..Len(queue'[c]) : queue'[c][j] = queue[c][j + 1]
    BY <1>1, <1>3, <1>6, TailFacts
  <2> QED
    BY <2>1, <2>2, <2>3
<1>10. Asked(c)'
  BY <1>1, <1>2 DEF Good, Asked
<1>11. Element(c)'
  <2>1. seen'[c] # << >> /\ Last(seen'[c]) = head.db
    <3>1. Len(<< >>) = 0
      BY EmptyFacts
    <3>2. seen'[c] # << >> /\ Len(seen'[c]) = Len(seen[c]) + 1
      BY <1>9, <3>1
    <3> QED
      BY <1>9, <3>2 DEF Last
  <2> QED
    BY <1>1, <1>4, <1>5, <1>6, <2>1 DEF Element, Shown, Applied
<1>12. Once(c)'
  <2>1. /\ \A i, j \in 1..Len(seen[c]) : seen[c][i] = seen[c][j] => i = j
        /\ \A i, j \in 1..Len(queue[c]) : queue[c][i].db = queue[c][j].db => i = j
        /\ \A i \in 1..Len(seen[c]), j \in 1..Len(queue[c]) : seen[c][i] # queue[c][j].db
        /\ \A i \in 1..Len(seen[c]) : seen[c][i] \notin pending[c]
        /\ \A j \in 1..Len(queue[c]) : queue[c][j].db \notin pending[c]
    BY <1>2 DEF Good, Once
  <2>2. \A j \in 1..Len(queue'[c]) :
          j + 1 \in 1..Len(queue[c]) /\ j + 1 # 1 /\ queue'[c][j] = queue[c][j + 1]
    BY <1>9
  <2>3. \A i \in 1..Len(seen'[c]) :
          \/ i \in 1..Len(seen[c]) /\ seen'[c][i] = seen[c][i]
          \/ i = Len(seen[c]) + 1 /\ seen'[c][i] = queue[c][1].db
    BY <1>4, <1>9
  <2>4. \A i, j \in 1..Len(seen'[c]) : seen'[c][i] = seen'[c][j] => i = j
    BY <1>4, <2>1, <2>3
  <2>5. \A i, j \in 1..Len(queue'[c]) : queue'[c][i].db = queue'[c][j].db => i = j
    <3> SUFFICES ASSUME NEW i \in 1..Len(queue'[c]), NEW j \in 1..Len(queue'[c]),
                        queue'[c][i].db = queue'[c][j].db
                 PROVE  i = j
      OBVIOUS
    <3>1. /\ i + 1 \in 1..Len(queue[c]) /\ queue'[c][i] = queue[c][i + 1]
          /\ j + 1 \in 1..Len(queue[c]) /\ queue'[c][j] = queue[c][j + 1]
      BY <2>2
    <3>2. i + 1 = j + 1
      BY <2>1, <3>1
    <3>3. i \in Nat /\ j \in Nat
      BY <1>9
    <3> QED
      BY <3>2, <3>3
  <2>6. \A i \in 1..Len(seen'[c]), j \in 1..Len(queue'[c]) : seen'[c][i] # queue'[c][j].db
    <3> SUFFICES ASSUME NEW i \in 1..Len(seen'[c]), NEW j \in 1..Len(queue'[c])
                 PROVE  seen'[c][i] # queue'[c][j].db
      OBVIOUS
    <3>1. /\ j + 1 \in 1..Len(queue[c]) /\ j + 1 # 1 /\ queue'[c][j] = queue[c][j + 1]
      BY <2>2
    <3>2. CASE i \in 1..Len(seen[c]) /\ seen'[c][i] = seen[c][i]
      BY <2>1, <3>1, <3>2
    <3>3. CASE seen'[c][i] = queue[c][1].db
      BY <1>4, <2>1, <3>1, <3>3
    <3> QED
      BY <2>3, <3>2, <3>3
  <2>7. /\ \A i \in 1..Len(seen'[c]) : seen'[c][i] \notin pending'[c]
        /\ \A j \in 1..Len(queue'[c]) : queue'[c][j].db \notin pending'[c]
    BY <1>1, <1>4, <2>1, <2>2, <2>3
  <2> QED
    BY <2>4, <2>5, <2>6, <2>7 DEF Once
<1>13. NoneLost(c)'
  <2> SUFFICES ASSUME NEW b \in Databases
               PROVE  \/ b \in pending[c]
                      \/ \E i \in 1..Len(seen'[c]) : seen'[c][i] = b
                      \/ \E j \in 1..Len(queue'[c]) : queue'[c][j].db = b
    BY <1>1 DEF NoneLost
  <2>1. \/ b \in pending[c]
        \/ \E i \in 1..Len(seen[c]) : seen[c][i] = b
        \/ \E j \in 1..Len(queue[c]) : queue[c][j].db = b
    BY <1>2 DEF Good, NoneLost
  <2>2. ASSUME NEW j \in 1..Len(queue[c]), queue[c][j].db = b
        PROVE  \/ \E i \in 1..Len(seen'[c]) : seen'[c][i] = b
               \/ \E k \in 1..Len(queue'[c]) : queue'[c][k].db = b
    <3>1. CASE j = 1
      BY <1>4, <1>9, <2>2, <3>1
    <3>2. CASE j # 1
      <4>1. j - 1 \in 1..Len(queue'[c]) /\ queue'[c][j - 1] = queue[c][j]
        BY <1>9, <3>2
      <4> QED
        BY <2>2, <4>1
    <3> QED
      BY <3>1, <3>2
  <2>3. CASE \E i \in 1..Len(seen[c]) : seen[c][i] = b
    <3>1. PICK i \in 1..Len(seen[c]) : seen[c][i] = b
      BY <2>3
    <3>2. i \in 1..Len(seen'[c]) /\ seen'[c][i] = b
      BY <1>9, <3>1
    <3> QED
      BY <3>2
  <2> QED
    BY <2>1, <2>2, <2>3
<1>14. (\A j \in 1..Len(queue[c]) : Applied(c, queue[c][j].on))'
  <2>1. ASSUME NEW j \in 1..Len(queue'[c]) PROVE Applied(c, queue[c][j].on)'
    <3>1. j + 1 \in 1..Len(queue[c]) /\ queue'[c][j] = queue[c][j + 1]
      BY <1>9
    <3> QED
      BY <1>1, <1>2, <3>1 DEF Good, Applied
  <2> QED
    BY <2>1
<1> QED
  BY <1>7, <1>8, <1>10, <1>11, <1>12, <1>13, <1>14 DEF PolicyInv, Good

LEMMA PolicyInductive == PolicyInv /\ [Next]_vars => PolicyInv'
<1> SUFFICES ASSUME PolicyInv, [Next]_vars PROVE PolicyInv'
  OBVIOUS
<1>1. CASE UNCHANGED vars
  <2>1. TypeOK'
    BY <1>1 DEF vars, genVars, elementVars, PolicyInv, TypeOK
  <2>2. ASSUME NEW e \in Clients PROVE Good(e)'
    BY <1>1, PartKept DEF vars, genVars, elementVars, Part, PolicyInv
  <2> QED
    BY <2>1, <2>2 DEF PolicyInv
<1>2. CASE Next
  BY <1>2, SetPolicyStep, RaisesStep, QueryPolicyStep, VisitStep, PullStep, FinishStep DEF Next
<1> QED
  BY <1>1, <1>2

LEMMA PolicyAlways == Spec => []PolicyInv
  BY InitInv, PolicyInductive, PTL DEF Spec

-----------------------------------------------------------------------------
(* Types of the policies and the generators. *)
THEOREM PolicyTypeCorrect == Spec => []TypeOK
<1>1. PolicyInv => TypeOK
  BY DEF PolicyInv
<1> QED
  BY <1>1, PolicyAlways, PTL

(* Every element shows the status of the database its key names, and the    *)
(* policies asked for, nothing of the elements before it.                   *)
THEOREM PolicyElementsAreOwn == Spec => []ElementsAreOwn
<1>1. PolicyInv => ElementsAreOwn
  BY DEF PolicyInv, Good, Element, ElementsAreOwn
<1> QED
  BY <1>1, PolicyAlways, PTL

(* What setPolicy reports is what it set, and a drained call has reported   *)
(* every database once.                                                     *)
THEOREM PolicySetIsReported == Spec => []SetIsReported
<1>1. ASSUME PolicyInv, NEW c \in Clients, call[c] = "set", seen[c] # << >>,
             NEW n \in DOMAIN dict[c] \cap Identifiers
      PROVE  value[c][n] = dict[c][n]
  <2>1. /\ n \in names[c] /\ dict[c][n] = action[c] /\ action[c] \in BOOLEAN
        /\ value[c] = [m \in Identifiers |-> m \in status[c].on]
        /\ IF action[c] THEN names[c] \subseteq status[c].on
                        ELSE names[c] \cap status[c].on = {}
    BY <1>1 DEF PolicyInv, TypeOK, Good, Asked, Element, Applied, Shown
  <2>2. value[c][n] = (n \in status[c].on)
    BY <2>1
  <2> QED
    BY <2>1, <2>2
<1>2. ASSUME PolicyInv, NEW c \in Clients, call[c] # "none", pending[c] = {}, queue[c] = << >>
      PROVE  IsInjective(seen[c]) /\ ToSet(seen[c]) = Databases
  <2>1. seen[c] \in Seq(Databases) /\ Good(c) /\ DOMAIN seen[c] = 1..Len(seen[c])
    BY <1>2 DEF PolicyInv, TypeOK
  <2>2. IsInjective(seen[c])
    BY <2>1 DEF Good, Once, IsInjective
  <2>3. \A d \in Databases : \E i \in DOMAIN seen[c] : seen[c][i] = d
    BY <1>2, <2>1, EmptyFacts DEF Good, NoneLost
  <2> QED
    BY <2>1, <2>2, <2>3 DEF ToSet
<1>3. PolicyInv => SetIsReported
  BY <1>1, <1>2 DEF SetIsReported
<1> QED
  BY <1>3, PolicyAlways, PTL

(* A policy of a database changes only to what some running setPolicy asks  *)
(* for this very policy, whatever the interleaving of the clients.          *)
THEOREM PolicyChangesAsAsked == Spec => OnlyAsAsked
<1>1. ASSUME PolicyInv, Next, NEW d \in Databases, NEW n \in Identifiers,
             (n \in enabled'[d]) # (n \in enabled[d])
      PROVE  \E c \in Clients : /\ call[c] = "set" /\ n \in DOMAIN dict[c]
                                /\ dict[c][n] = (n \in enabled'[d])
  <2>1. PICK c \in Clients : Visit(c)
    BY <1>1 DEF Next, SetPolicy, SetPolicyRaises, QueryPolicy, Begin, Pull, Present, Finish
  <2>2. PICK b \in pending[c] : enabled' = [enabled EXCEPT ![b] = Controlled(c, b)]
    BY <2>1 DEF Visit
  <2>3. /\ b = d /\ enabled'[d] = Controlled(c, d) /\ call[c] # "none" /\ Good(c)
        /\ call[c] \in {"none", "set", "query"} /\ action[c] \in BOOLEAN
    BY <1>1, <2>2 DEF PolicyInv, TypeOK, Good, Asked
  <2>4. call[c] = "set" /\ n \in names[c] /\ action[c] = (n \in enabled'[d])
    BY <1>1, <2>3 DEF Controlled
  <2> QED
    BY <2>3, <2>4 DEF Good, Asked
<1>2. PolicyInv /\ [Next]_vars =>
        [\A d \in Databases, n \in Identifiers :
           (n \in enabled'[d]) # (n \in enabled[d]) =>
             \E c \in Clients : /\ call[c] = "set" /\ n \in DOMAIN dict[c]
                                /\ dict[c][n] = (n \in enabled'[d])]_vars
  BY <1>1
<1> QED
  BY <1>2, PolicyAlways, PTL DEF Spec, OnlyAsAsked
=============================================================================

---------------------------- MODULE SessionProofs ----------------------------
(***************************************************************************)
(* Proofs about DasiSession for any number of processes, any keys, queries *)
(* and buffers.                                                            *)
(***************************************************************************)
EXTENDS DasiSession, FiniteSetTheorems, TLAPS

Entries == [key : Keys, object : Nat]
Records == [key : Keys, bytes : Nat, kept : Nat]
Handles ==
  [kind : {"retrieve", "list", "wipe", "purge"}, doit : BOOLEAN, query : SUBSET Keys,
   phase : {"call", "open", "stopped"}, start : Nat, end : Nat, due : SUBSET Nat]

Types ==
  /\ log \in Seq(Entries) /\ writes \in Seq(Records)
  /\ gone \subseteq Nat /\ promised \subseteq Nat
  /\ session \in [Procs -> {"none", "open", "flushing", "closing"}]
  /\ pending \in [Procs -> Seq(Nat)] /\ mine \in [Procs -> SUBSET Nat]
  /\ handle \in [Procs -> {NoHandle} \cup Handles]
  /\ rest \in [Procs -> SUBSET Keys]
  /\ found \in [Procs -> SUBSET Nat] /\ given \in [Procs -> SUBSET Nat]

IsLast(i, k) ==
  log[i].key = k /\ \A j \in 1..Len(log) : log[j].key = k => j <= i

(* The log: entries name objects of their key, every key that occurs has a  *)
(* newest entry, and what is gone is not accessible.                        *)
EntriesGood ==
  \A i \in 1..Len(log) : log[i].object # 0 =>
    log[i].object \in Objects /\ KeyOf(log[i].object) = log[i].key

LastGood ==
  \A k \in Keys : (\E i \in 1..Len(log) : log[i].key = k) => \E i \in 1..Len(log) : IsLast(i, k)

WipedGood ==
  \A k \in Keys : Newest(k) = 0 =>
    \A i \in 1..Len(log) : log[i].key = k /\ log[i].object # 0 =>
      log[i].object \in gone /\ Wiped(log[i].object)

LogGood ==
  /\ EntriesGood /\ LastGood /\ WipedGood
  /\ gone \subseteq Published
  /\ \A k \in Keys : Newest(k) \notin gone

(* What is pending was not published before, nor is pending elsewhere; what *)
(* was archived since the last flush was published or is pending.           *)
SessionsGood ==
  /\ \A p \in Procs : \A i \in 1..Len(pending[p]) :
       pending[p][i] \in Objects /\ pending[p][i] \notin Published
  /\ \A p, q \in Procs : \A i \in 1..Len(pending[p]), j \in 1..Len(pending[q]) :
       pending[p][i] = pending[q][j] => p = q /\ i = j
  /\ \A p \in Procs : \A o \in mine[p] :
       o \in Published \/ \E i \in 1..Len(pending[p]) : pending[p][i] = o
  /\ promised \subseteq Published

LEMMA EmptySeq ==
  ASSUME NEW S
  PROVE  << >> \in Seq(S) /\ Len(<< >>) = 0 /\ DOMAIN << >> = {}
  OBVIOUS

LEMMA AppendFacts ==
  ASSUME NEW S, NEW s \in Seq(S), NEW e \in S
  PROVE  /\ Append(s, e) \in Seq(S) /\ Len(Append(s, e)) = Len(s) + 1
         /\ Append(s, e)[Len(s) + 1] = e
         /\ \A i \in 1..Len(s) : Append(s, e)[i] = s[i]
         /\ DOMAIN Append(s, e) = 1..Len(s) + 1 /\ Len(s) \in Nat
  OBVIOUS

LEMMA TailFacts ==
  ASSUME NEW S, NEW s \in Seq(S), s # << >>
  PROVE  /\ Tail(s) \in Seq(S) /\ Len(Tail(s)) = Len(s) - 1 /\ Len(s) \in Nat \ {0}
         /\ Head(s) = s[1] /\ s[1] \in S
         /\ \A i \in 1..Len(s) - 1 : Tail(s)[i] = s[i + 1]
  OBVIOUS

LEMMA ItemFacts ==
  ASSUME NEW S, NEW s \in Seq(S), NEW i \in 1..Len(s)
  PROVE  s[i] \in S /\ Len(s) \in Nat /\ DOMAIN s = 1..Len(s)
  OBVIOUS

LEMMA ChosenLast ==
  ASSUME NEW A, A \subseteq Nat, NEW m \in A, \A j \in A : j <= m
  PROVE  (CHOOSE i \in A : \A j \in A : j <= i) = m
<1> DEFINE c == CHOOSE i \in A : \A j \in A : j <= i
<1>1. c \in A /\ \A j \in A : j <= c
  OBVIOUS
<1> HIDE DEF c
<1>2. c <= m /\ m <= c /\ c \in Nat /\ m \in Nat
  BY <1>1
<1>3. c = m
  BY <1>2
<1> QED
  BY <1>3 DEF c

(* The newest entry of a key is the accessible one. *)
LEMMA NewestFacts ==
  ASSUME Types, LogGood, NEW k \in Keys
  PROVE  \/ Newest(k) = 0 /\ \A i \in 1..Len(log) : log[i].key # k
         \/ \E i \in 1..Len(log) : IsLast(i, k) /\ Newest(k) = log[i].object
<1> DEFINE about == {i \in 1..Len(log) : log[i].key = k}
<1>1. Len(log) \in Nat
  BY DEF Types
<1>2. Newest(k) = IF about = {} THEN 0
                  ELSE log[CHOOSE i \in about : \A j \in about : j <= i].object
  BY DEF Newest, NewestAt
<1>3. CASE about = {}
  BY <1>2, <1>3
<1>4. CASE about # {}
  <2>1. PICK i \in 1..Len(log) : IsLast(i, k)
    BY <1>4 DEF LogGood, LastGood
  <2>2. about \subseteq Nat /\ i \in about /\ \A j \in about : j <= i
    BY <1>1, <2>1 DEF IsLast
  <2>3. (CHOOSE n \in about : \A j \in about : j <= n) = i
    BY <2>2, ChosenLast
  <2> QED
    BY <1>2, <1>4, <2>1, <2>3
<1> QED
  BY <1>3, <1>4

LEMMA PublishedFacts ==
  ASSUME Types
  PROVE  \A o : o \in Published <=> o # 0 /\ \E i \in 1..Len(log) : log[i].object = o
  BY DEF Published, Types

-----------------------------------------------------------------------------
(* An entry is appended to the log: it is the newest of its key, the other  *)
(* keys keep theirs.                                                        *)
LEMMA PublishFacts ==
  ASSUME Types, LogGood, NEW k \in Keys, NEW o \in Nat, Publish(k, o)
  PROVE  /\ log' \in Seq(Entries) /\ Len(log') = Len(log) + 1 /\ Len(log) \in Nat
         /\ log'[Len(log) + 1] = [key |-> k, object |-> o]
         /\ \A i \in 1..Len(log) : log'[i] = log[i]
         /\ \A b \in Keys : Newest(b)' = IF b = k THEN o ELSE Newest(b)
         /\ LastGood'
         /\ Published' = Published \cup ({o} \ {0})
<1> DEFINE n == Len(log) + 1
<1>1. [key |-> k, object |-> o] \in Entries
  BY DEF Entries
<1>2. /\ log' \in Seq(Entries) /\ Len(log') = n /\ Len(log) \in Nat
      /\ log'[n] = [key |-> k, object |-> o]
      /\ \A i \in 1..Len(log) : log'[i] = log[i]
      /\ DOMAIN log' = 1..n /\ DOMAIN log = 1..Len(log)
  BY <1>1, AppendFacts DEF Publish, Types
<1>3. ASSUME NEW b \in Keys
      PROVE  Newest(b)' = IF b = k THEN o ELSE Newest(b)
  <2> DEFINE about == {i \in 1..Len(log) : log[i].key = b}
             later == {i \in 1..Len(log') : log'[i].key = b}
  <2>1. Newest(b)' = IF later = {} THEN 0
                     ELSE log'[CHOOSE i \in later : \A j \in later : j <= i].object
    BY DEF Newest, NewestAt
  <2>2. CASE b = k
    <3>1. later \subseteq Nat /\ n \in later /\ \A j \in later : j <= n
      BY <1>2, <2>2
    <3>2. (CHOOSE i \in later : \A j \in later : j <= i) = n
      BY <3>1, ChosenLast
    <3> QED
      BY <1>2, <2>1, <2>2, <3>1, <3>2
  <2>3. CASE b # k
    <3>1. later = about
      BY <1>2, <2>3
    <3>2. CASE about = {}
      BY <2>1, <2>3, <3>1, <3>2 DEF Newest, NewestAt
    <3>3. CASE about # {}
      <4>1. PICK i \in 1..Len(log) : IsLast(i, b)
        BY <3>3 DEF LogGood, LastGood
      <4>2. about \subseteq Nat /\ i \in about /\ \A j \in about : j <= i
        BY <1>2, <4>1 DEF IsLast
      <4>3. (CHOOSE m \in about : \A j \in about : j <= m) = i
        BY <4>2, ChosenLast
      <4>4. Newest(b)' = log'[i].object
        BY <2>1, <3>1, <3>3, <4>3
      <4>5. Newest(b) = log[i].object
        BY <3>3, <4>3 DEF Newest, NewestAt
      <4> QED
        BY <1>2, <2>3, <4>4, <4>5
    <3> QED
      BY <3>2, <3>3
  <2> QED
    BY <2>2, <2>3
<1>4. ASSUME NEW b \in Keys, NEW i \in 1..Len(log'), log'[i].key = b
      PROVE  \E m \in 1..Len(log') : IsLast(m, b)'
  <2>1. CASE b = k
    <3>1. PICK m \in 1..Len(log') : m = n
      BY <1>2
    <3>2. IsLast(m, b)'
      BY <1>2, <2>1, <3>1 DEF IsLast
    <3> QED
      BY <3>2
  <2>2. CASE b # k
    <3>1. i \in 1..Len(log) /\ log[i].key = b
      BY <1>2, <1>4, <2>2
    <3>2. PICK m \in 1..Len(log) : IsLast(m, b)
      BY <3>1 DEF LogGood, LastGood
    <3>3. m \in 1..Len(log') /\ IsLast(m, b)'
      BY <1>2, <2>2, <3>2 DEF IsLast
    <3> QED
      BY <3>3
  <2> QED
    BY <2>1, <2>2
<1>5. Published' = Published \cup ({o} \ {0})
  <2>1. \A i \in DOMAIN log' : IF i \in DOMAIN log THEN log'[i] = log[i] ELSE log'[i].object = o
    BY <1>2
  <2>2. DOMAIN log' = DOMAIN log \cup {n} /\ n \notin DOMAIN log
    BY <1>2
  <2> QED
    BY <1>2, <2>1, <2>2 DEF Published
<1>6. LastGood'
  BY <1>4 DEF LastGood
<1> QED
  BY <1>2, <1>3, <1>5, <1>6

(* Whom the newest entry of a key is about. *)
LEMMA NewestIs ==
  ASSUME Types, LogGood, NEW k \in Keys, Newest(k) # 0
  PROVE  /\ Newest(k) \in Objects /\ Newest(k) \in Published /\ KeyOf(Newest(k)) = k
         /\ \E i \in 1..Len(log) : IsLast(i, k) /\ log[i].object = Newest(k)
<1>1. PICK i \in 1..Len(log) : IsLast(i, k) /\ Newest(k) = log[i].object
  BY NewestFacts
<1> QED
  BY <1>1, PublishedFacts DEF LogGood, EntriesGood, IsLast

LEMMA PublishedIs ==
  ASSUME Types, LogGood, NEW o \in Published
  PROVE  /\ o \in Objects /\ o # 0 /\ KeyOf(o) \in Keys
         /\ \E i \in 1..Len(log) : log[i].object = o /\ log[i].key = KeyOf(o)
<1>1. PICK i \in 1..Len(log) : o # 0 /\ log[i].object = o
  BY PublishedFacts
<1>2. log[i] \in Entries
  BY ItemFacts DEF Types
<1> QED
  BY <1>1, <1>2 DEF LogGood, EntriesGood, Entries

-----------------------------------------------------------------------------
(* Nothing that is in the store is forgotten by a step. *)
Grows ==
  /\ Len(log) <= Len(log') /\ \A i \in 1..Len(log) : log'[i] = log[i]
  /\ Len(writes) <= Len(writes') /\ \A o \in 1..Len(writes) : writes'[o] = writes[o]
  /\ gone \subseteq gone'

LEMMA KeyOfKept ==
  ASSUME Types, Grows, NEW o \in Objects
  PROVE  KeyOf(o)' = KeyOf(o) /\ o \in Objects' /\ KeyOf(o) \in Keys
<1>1. writes[o] \in Records
  BY ItemFacts DEF Types, Objects
<1> QED
  BY <1>1 DEF Types, Grows, KeyOf, Objects, Records

LEMMA WipedKept ==
  ASSUME Types, Types', Grows, NEW o \in Objects, Wiped(o)
  PROVE  Wiped(o)'
<1>1. PICK i \in 1..Len(log), j \in 1..Len(log) :
        i < j /\ log[i].object = o /\ log[j] = [key |-> KeyOf(o), object |-> 0]
  <2>1. DOMAIN log = 1..Len(log)
    BY DEF Types
  <2> QED
    BY <2>1 DEF Wiped
<1>2. i \in 1..Len(log') /\ j \in 1..Len(log') /\ Len(log) \in Nat
  BY <1>1 DEF Grows, Types
<1>3. i \in DOMAIN log' /\ j \in DOMAIN log'
  BY <1>2 DEF Types
<1>4. log'[i].object = o /\ log'[j] = [key |-> KeyOf(o)', object |-> 0]
  BY <1>1, KeyOfKept DEF Grows
<1> QED
  BY <1>1, <1>3, <1>4 DEF Wiped

(* The store is left alone. *)
LEMMA SameLog ==
  ASSUME LogGood, UNCHANGED <<log, gone, writes>>
  PROVE  LogGood'
<1>1. /\ Published' = Published /\ Objects' = Objects
      /\ \A b : Newest(b)' = Newest(b) /\ KeyOf(b)' = KeyOf(b) /\ Wiped(b)' = Wiped(b)
      /\ \A i, b : IsLast(i, b)' = IsLast(i, b)
  BY DEF Published, Objects, Newest, NewestAt, KeyOf, Wiped, IsLast
<1>2. EntriesGood' /\ LastGood' /\ WipedGood'
  BY <1>1 DEF LogGood, EntriesGood, LastGood, WipedGood
<1> QED
  BY <1>1, <1>2 DEF LogGood

LEMMA PublishNextLog ==
  ASSUME Types, Types', LogGood, SessionsGood, NEW p \in Procs, PublishNext(p)
  PROVE  LogGood' /\ Grows
<1> DEFINE o == Head(pending[p])
<1>1. pending[p] # << >> /\ UNCHANGED <<gone, writes>> /\ Publish(KeyOf(o), o)
  BY DEF PublishNext
<1>2. 1 \in 1..Len(pending[p]) /\ o = pending[p][1]
  BY <1>1, TailFacts DEF Types
<1>3. o \in Objects /\ o \notin Published /\ o # 0 /\ o \in Nat
  BY <1>2 DEF SessionsGood, Objects, Types
<1>4. KeyOf(o) \in Keys
  <2>1. writes[o] \in Records
    BY <1>3, ItemFacts DEF Types, Objects
  <2> QED
    BY <2>1 DEF KeyOf, Records
<1> HIDE DEF o
<1>5. /\ Len(log') = Len(log) + 1 /\ Len(log) \in Nat
      /\ log'[Len(log) + 1] = [key |-> KeyOf(o), object |-> o]
      /\ \A i \in 1..Len(log) : log'[i] = log[i]
      /\ \A b \in Keys : Newest(b)' = IF b = KeyOf(o) THEN o ELSE Newest(b)
      /\ LastGood'
      /\ Published' = Published \cup {o}
  BY <1>1, <1>3, <1>4, PublishFacts
<1>6. Grows
  BY <1>1, <1>5 DEF Grows, Types
<1>7. EntriesGood'
  <2>1. \A b : KeyOf(b)' = KeyOf(b) /\ Objects' = Objects
    BY <1>1 DEF Objects, KeyOf
  <2>2. ASSUME NEW i \in 1..Len(log'), log'[i].object # 0
        PROVE  log'[i].object \in Objects /\ KeyOf(log'[i].object) = log'[i].key
    <3>1. CASE i \in 1..Len(log)
      BY <1>5, <2>2, <3>1 DEF LogGood, EntriesGood
    <3>2. CASE i = Len(log) + 1
      BY <1>3, <1>5, <3>2
    <3> QED
      BY <1>5, <3>1, <3>2
  <2> QED
    BY <2>1, <2>2 DEF EntriesGood
<1>8. gone' \subseteq Published' /\ \A b \in Keys : Newest(b)' \notin gone'
  BY <1>1, <1>3, <1>5 DEF LogGood
<1>9. WipedGood'
  <2> SUFFICES ASSUME NEW b \in Keys, Newest(b)' = 0, NEW i \in 1..Len(log'),
                      log'[i].key = b, log'[i].object # 0
               PROVE  log'[i].object \in gone' /\ Wiped(log[i].object)'
    BY DEF WipedGood
  <2>1. b # KeyOf(o) /\ Newest(b) = 0
    BY <1>3, <1>5
  <2>2. i \in 1..Len(log) /\ log'[i] = log[i]
    BY <1>5, <2>1
  <2>3. PICK x \in Objects : x = log[i].object /\ x \in gone /\ Wiped(x)
    BY <2>1, <2>2 DEF LogGood, EntriesGood, WipedGood
  <2>4. Wiped(x)'
    BY <1>6, <2>3, WipedKept
  <2> QED
    BY <1>1, <2>2, <2>3, <2>4 DEF Wiped
<1> QED
  BY <1>5, <1>6, <1>7, <1>8, <1>9 DEF LogGood

(* A wipe that removes the data of a key. *)
LEMMA WipeLog ==
  ASSUME Types, Types', LogGood, NEW k \in Keys, Publish(k, 0), gone' = gone \cup Stored(k),
         UNCHANGED writes
  PROVE  LogGood' /\ Grows /\ Published' = Published
<1>1. /\ Len(log') = Len(log) + 1 /\ Len(log) \in Nat
      /\ log'[Len(log) + 1] = [key |-> k, object |-> 0]
      /\ \A i \in 1..Len(log) : log'[i] = log[i]
      /\ \A b \in Keys : Newest(b)' = IF b = k THEN 0 ELSE Newest(b)
      /\ LastGood'
      /\ Published' = Published
  <2>1. Published \cup ({0} \ {0}) = Published /\ 0 \in Nat
    OBVIOUS
  <2> QED
    BY <2>1, PublishFacts
<1>2. Grows
  BY <1>1 DEF Grows, Types
<1>3. \A i \in 1..Len(log') : log'[i].object # 0 => i \in 1..Len(log) /\ log'[i] = log[i]
  BY <1>1
<1>4. EntriesGood'
  <2>1. \A b : KeyOf(b)' = KeyOf(b) /\ Objects' = Objects
    BY DEF Objects, KeyOf
  <2> QED
    BY <1>3, <2>1 DEF LogGood, EntriesGood
<1>5. gone' \subseteq Published'
  BY <1>1 DEF LogGood, Stored
<1>6. ASSUME NEW b \in Keys PROVE Newest(b)' \notin gone'
  <2>1. 0 \notin gone'
    BY <1>5 DEF Published
  <2>2. CASE b # k /\ Newest(b) # 0
    <3>1. KeyOf(Newest(b)) = b /\ Newest(b) \notin gone
      BY <2>2, NewestIs DEF LogGood
    <3> QED
      BY <1>1, <2>2, <3>1 DEF Stored
  <2> QED
    BY <1>1, <2>1, <2>2
<1>7. WipedGood'
  <2> SUFFICES ASSUME NEW b \in Keys, Newest(b)' = 0, NEW i \in 1..Len(log'),
                      log'[i].key = b, log'[i].object # 0
               PROVE  log'[i].object \in gone' /\ Wiped(log[i].object)'
    BY DEF WipedGood
  <2>1. i \in 1..Len(log) /\ log'[i] = log[i]
    BY <1>3
  <2>2. PICK o \in Objects : o = log[i].object /\ KeyOf(o) = b /\ o \in Published
    BY <2>1, PublishedFacts DEF LogGood, EntriesGood
  <2>3. CASE b # k
    <3>1. o \in gone /\ Wiped(o)
      BY <1>1, <2>1, <2>2, <2>3 DEF LogGood, WipedGood
    <3>2. Wiped(o)'
      BY <1>2, <3>1, WipedKept
    <3> QED
      BY <2>1, <2>2, <3>1, <3>2 DEF Wiped
  <2>4. CASE b = k
    <3>1. i \in DOMAIN log' /\ Len(log) + 1 \in DOMAIN log' /\ i < Len(log) + 1
      BY <1>1, <2>1 DEF Types
    <3>2. Wiped(o)'
      BY <1>1, <2>1, <2>2, <2>4, <3>1 DEF Wiped, KeyOf
    <3> QED
      BY <2>1, <2>2, <2>4, <3>2 DEF Wiped, Stored
  <2> QED
    BY <2>3, <2>4
<1> QED
  BY <1>1, <1>2, <1>4, <1>5, <1>6, <1>7 DEF LogGood

(* A purge removes masked objects only. *)
LEMMA PurgeLog ==
  ASSUME Types, Types', LogGood, NEW k \in Keys, NEW objects, objects \subseteq Masked(k),
         gone' = gone \cup objects, UNCHANGED <<log, writes>>
  PROVE  LogGood' /\ Grows
<1>1. gone' \subseteq Published /\ \A o \in gone : o \in gone'
  BY DEF LogGood, Masked, Stored
<1>2. ASSUME NEW b \in Keys PROVE Newest(b) \notin gone'
  <2>1. CASE Newest(b) = 0
    BY <1>1, <2>1 DEF Published
  <2>2. CASE Newest(b) # 0
    BY <2>2, NewestIs DEF LogGood, Masked, Stored
  <2> QED
    BY <2>1, <2>2
<1>3. /\ Published' = Published /\ Objects' = Objects
      /\ \A b : Newest(b)' = Newest(b) /\ KeyOf(b)' = KeyOf(b) /\ Wiped(b)' = Wiped(b)
      /\ \A i, b : IsLast(i, b)' = IsLast(i, b)
  BY DEF Published, Objects, Newest, NewestAt, KeyOf, Wiped, IsLast
<1>4. EntriesGood' /\ LastGood' /\ WipedGood'
  BY <1>1, <1>3 DEF LogGood, EntriesGood, LastGood, WipedGood
<1>5. LogGood'
  BY <1>1, <1>2, <1>3, <1>4 DEF LogGood
<1> QED
  BY <1>5 DEF Grows, Types

(* An object handed over is not in the log. *)
LEMMA HandOverLog ==
  ASSUME Types, Types', LogGood, NEW r \in Records, writes' = Append(writes, r),
         UNCHANGED <<log, gone>>
  PROVE  LogGood' /\ Grows /\ Len(writes) + 1 \notin Objects /\ Objects' = Objects \cup {Len(writes) + 1}
<1>1. /\ Len(writes') = Len(writes) + 1 /\ Len(writes) \in Nat
      /\ \A o \in 1..Len(writes) : writes'[o] = writes[o]
  BY AppendFacts DEF Types
<1>2. Grows
  BY <1>1 DEF Grows, Types
<1>3. /\ Published' = Published /\ Objects' = Objects \cup {Len(writes) + 1}
      /\ \A b : Newest(b)' = Newest(b)
      /\ \A i, b : IsLast(i, b)' = IsLast(i, b)
  BY <1>1 DEF Published, Objects, Newest, NewestAt, IsLast
<1>4. ASSUME NEW o \in Objects PROVE KeyOf(o)' = KeyOf(o) /\ (Wiped(o) => Wiped(o)')
  BY <1>2, KeyOfKept, WipedKept
<1>5. EntriesGood' /\ LastGood'
  BY <1>3, <1>4 DEF LogGood, EntriesGood, LastGood
<1>6. WipedGood'
  <2> SUFFICES ASSUME NEW b \in Keys, Newest(b) = 0, NEW i \in 1..Len(log),
                      log[i].key = b, log[i].object # 0
               PROVE  log[i].object \in gone /\ Wiped(log[i].object)'
    BY <1>3 DEF WipedGood
  <2>1. PICK o \in Objects : o = log[i].object /\ o \in gone /\ Wiped(o)
    BY DEF LogGood, EntriesGood, WipedGood
  <2>2. Wiped(o)'
    BY <1>4, <2>1
  <2> QED
    BY <2>1, <2>2 DEF Wiped
<1>7. LogGood'
  BY <1>3, <1>5, <1>6 DEF LogGood
<1> QED
  BY <1>1, <1>2, <1>3, <1>7 DEF Objects

-----------------------------------------------------------------------------
(* Types of the sessions and handles. *)
LEMMA HandleFacts ==
  ASSUME Types, NEW p \in Procs
  PROVE  /\ handle[p] = NoHandle \/ handle[p] \in Handles
         /\ handle[p].phase # "none" <=> handle[p] \in Handles
         /\ handle[p].kind # "none" <=> handle[p] \in Handles
         /\ handle[p].phase = "none" <=> handle[p] = NoHandle
  BY DEF Types, Handles, NoHandle

LEMMA NewHandle ==
  ASSUME Types, NEW kind \in {"retrieve", "list", "wipe", "purge"}, NEW doit \in BOOLEAN,
         NEW query \in Queries
  PROVE  /\ Handle(kind, doit, query) \in Handles
         /\ Handle(kind, doit, query).kind = kind /\ Handle(kind, doit, query).query = query
         /\ Handle(kind, doit, query).phase = IF kind = "retrieve" THEN "call" ELSE "open"
         /\ Handle(kind, doit, query).start = Len(log)
         /\ Handle(kind, doit, query).due \subseteq promised
  BY SessionAssumption DEF Types, Handle, Handles

LEMMA NextHandle ==
  ASSUME NEW h \in Handles, NEW phase \in {"call", "open", "stopped"}, NEW n \in Nat
  PROVE  /\ [h EXCEPT !.phase = phase] \in Handles
         /\ [h EXCEPT !.phase = phase, !.end = n] \in Handles
  BY DEF Handles

LEMMA SessionTypes ==
  ASSUME Types, LogGood, SessionsGood, NEW p \in Procs,
         \/ Open(p) \/ Flush(p) \/ FlushFails(p) \/ Close(p)
         \/ FlushReturns(p) \/ CloseReturns(p) \/ Crash(p) \/ PublishNext(p)
  PROVE  Types'
<1>1. CASE Open(p) \/ Flush(p) \/ FlushFails(p) \/ Close(p)
  BY <1>1 DEF Open, Flush, FlushFails, Close, Begin, storeVars, handleVars, Types
<1>2. CASE FlushReturns(p) \/ CloseReturns(p)
  BY <1>2 DEF FlushReturns, CloseReturns, Returns, storeVars, handleVars, Types
<1>3. CASE Crash(p)
  BY <1>3, EmptySeq DEF Crash, storeVars, Types
<1>4. CASE PublishNext(p)
  <2>1. pending[p] \in Seq(Nat) /\ pending[p] # << >>
    BY <1>4 DEF PublishNext, Types
  <2>2. Tail(pending[p]) \in Seq(Nat) /\ Head(pending[p]) \in Nat
    BY <2>1, TailFacts
  <2>3. Head(pending[p]) \in Objects
    BY <2>1, TailFacts DEF SessionsGood
  <2>4. KeyOf(Head(pending[p])) \in Keys
    <3>1. writes[Head(pending[p])] \in Records
      BY <2>3, ItemFacts DEF Types, Objects
    <3> QED
      BY <3>1 DEF KeyOf, Records
  <2>5. log' \in Seq(Entries)
    BY <1>4, <2>2, <2>4, PublishFacts DEF PublishNext
  <2> QED
    BY <1>4, <2>2, <2>5 DEF PublishNext, handleVars, Types
<1> QED
  BY <1>1, <1>2, <1>3, <1>4

(* Archive and Put hand over a record of their object. *)
LEMMA HandOverRecord ==
  ASSUME Types, NEW p \in Procs, NEW k \in Keys, NEW b \in Buffers, Archive(p, k, b) \/ Put(p, k, b)
  PROVE  \E bytes, length \in Nat : HandOver(p, k, bytes, length)
<1>1. b.items \in Nat /\ b.size \in Nat
  BY SessionAssumption
<1>2. b.items * b.size \in Nat
  BY <1>1
<1> QED
  BY <1>1, <1>2 DEF Archive, Put

LEMMA HandOverTypes ==
  ASSUME Types, NEW p \in Procs, NEW k \in Keys, NEW bytes \in Nat, NEW length \in Nat,
         HandOver(p, k, bytes, length)
  PROVE  Types'
<1>1. [key |-> k, bytes |-> bytes, kept |-> length] \in Records /\ Len(writes) + 1 \in Nat
  BY DEF Records, Types
<1>2. writes' \in Seq(Records)
  BY <1>1, AppendFacts DEF HandOver, Types
<1>3. Append(pending[p], Len(writes) + 1) \in Seq(Nat)
  BY <1>1, AppendFacts DEF Types
<1> QED
  BY <1>1, <1>2, <1>3 DEF HandOver, storeVars, handleVars, Types

LEMMA HandleTypes ==
  ASSUME Types, NEW p \in Procs,
         Calls(p) \/ RetrieveReturns(p) \/ HandleNext(p) \/ HandleStops(p) \/ Free(p)
  PROVE  Types'
<1>1. CASE Calls(p)
  <2>1. PICK query \in Queries, kind \in {"retrieve", "list", "wipe", "purge"}, doit \in BOOLEAN :
          Call(p, kind, doit, query)
    BY <1>1 DEF Calls
  <2>2. Handle(kind, doit, query) \in Handles /\ query \in SUBSET Keys
    BY NewHandle, SessionAssumption
  <2> QED
    BY <2>1, <2>2 DEF Call, storeVars, sessionVars, Types
<1>2. CASE RetrieveReturns(p)
  <2>1. handle[p] \in Handles /\ Len(log) \in Nat
    BY <1>2, HandleFacts DEF RetrieveReturns, Types
  <2>2. [handle[p] EXCEPT !.phase = "open", !.end = Len(log)] \in Handles
    BY <2>1, NextHandle
  <2> QED
    BY <1>2, <2>2 DEF RetrieveReturns, storeVars, sessionVars, Types
<1>3. CASE HandleStops(p)
  <2>1. handle[p] \in Handles
    BY <1>3, HandleFacts DEF HandleStops
  <2>2. [handle[p] EXCEPT !.phase = "stopped"] \in Handles
    BY <2>1, NextHandle
  <2> QED
    BY <1>3, <2>2 DEF HandleStops, storeVars, sessionVars, Types
<1>4. CASE HandleNext(p)
  BY <1>4 DEF HandleNext, storeVars, sessionVars, Types
<1>5. CASE Free(p)
  BY <1>5 DEF Free, storeVars, sessionVars, Types
<1> QED
  BY <1>1, <1>2, <1>3, <1>4, <1>5

LEMMA VisitTypes ==
  ASSUME Types, LogGood, NEW p \in Procs, NEW k \in rest[p],
         VisitList(p, k) \/ VisitWipe(p, k) \/ VisitPurge(p, k)
  PROVE  Types' /\ k \in Keys
<1>1. k \in Keys
  BY DEF Types
<1>2. {Newest(k)} \ {0} \subseteq Nat /\ Stored(k) \subseteq Nat
  BY <1>1, NewestIs, PublishedIs DEF Objects, Stored
<1>3. rest' \in [Procs -> SUBSET Keys] /\ found' \in [Procs -> SUBSET Nat]
  <2>1. PICK objects \in SUBSET Nat : Visits(p, k, objects)
    BY <1>2 DEF VisitList, VisitWipe, VisitPurge
  <2> QED
    BY <2>1 DEF Visits, Types
<1>4. log' \in Seq(Entries) /\ gone' \subseteq Nat
  <2>1. CASE UNCHANGED storeVars
    BY <2>1 DEF storeVars, Types
  <2>2. CASE Publish(k, 0) /\ gone' = gone \cup Stored(k)
    BY <1>1, <1>2, <2>2, PublishFacts DEF Types
  <2>3. CASE UNCHANGED log /\ \E objects \in IF handle[p].doit THEN SUBSET Masked(k) ELSE {{}} :
                                gone' = gone \cup objects
    BY <1>2, <2>3 DEF Types, Masked
  <2> QED
    BY <2>1, <2>2, <2>3 DEF VisitList, VisitWipe, VisitPurge
<1> QED
  BY <1>1, <1>3, <1>4 DEF VisitList, VisitWipe, VisitPurge, Visits, sessionVars, Types

-----------------------------------------------------------------------------
(* What is pending and promised. *)

LEMMA SameSessions ==
  ASSUME SessionsGood, UNCHANGED <<writes, pending, mine, promised>>, Published' = Published
  PROVE  SessionsGood'
  BY DEF SessionsGood, Objects

(* The first pending object leaves the buffer. *)
LEMMA PendingTaken ==
  ASSUME Types, NEW p \in Procs, pending[p] # << >>,
         pending' = [pending EXCEPT ![p] = Tail(@)]
  PROVE  /\ pending[p][1] = Head(pending[p]) /\ 1 \in 1..Len(pending[p])
         /\ \A q \in Procs : \A i \in 1..Len(pending'[q]) :
              \E j \in 1..Len(pending[q]) :
                pending'[q][i] = pending[q][j] /\ j = (IF q = p THEN i + 1 ELSE i)
         /\ \A q \in Procs : \A j \in 1..Len(pending[q]) :
              (q = p /\ j = 1) \/ \E i \in 1..Len(pending'[q]) : pending'[q][i] = pending[q][j]
<1>1. pending[p] \in Seq(Nat) /\ pending'[p] = Tail(pending[p])
      /\ \A q \in Procs \ {p} : pending'[q] = pending[q]
  BY DEF Types
<1>2. /\ Len(Tail(pending[p])) = Len(pending[p]) - 1 /\ Len(pending[p]) \in Nat \ {0}
      /\ Head(pending[p]) = pending[p][1]
      /\ \A i \in 1..Len(pending[p]) - 1 : Tail(pending[p])[i] = pending[p][i + 1]
  BY <1>1, TailFacts
<1>3. ASSUME NEW q \in Procs, NEW i \in 1..Len(pending'[q])
      PROVE  \E j \in 1..Len(pending[q]) :
               pending'[q][i] = pending[q][j] /\ j = (IF q = p THEN i + 1 ELSE i)
  <2>1. CASE q # p
    BY <1>1, <1>3, <2>1
  <2>2. CASE q = p
    <3>1. i \in 1..Len(pending[p]) - 1
      BY <1>1, <1>2, <1>3, <2>2
    <3>2. PICK j \in 1..Len(pending[p]) : j = i + 1
      BY <1>2, <3>1
    <3>3. pending'[p][i] = pending[p][j]
      BY <1>1, <1>2, <3>1, <3>2
    <3> QED
      BY <2>2, <3>2, <3>3
  <2> QED
    BY <2>1, <2>2
<1>4. ASSUME NEW q \in Procs, NEW j \in 1..Len(pending[q]), ~(q = p /\ j = 1)
      PROVE  \E i \in 1..Len(pending'[q]) : pending'[q][i] = pending[q][j]
  <2>1. CASE q # p
    BY <1>1, <1>4, <2>1
  <2>2. CASE q = p
    <3>1. PICK i \in 1..Len(pending[p]) - 1 : j = i + 1
      <4>1. j \in 1..Len(pending[p]) /\ j # 1
        BY <1>4, <2>2
      <4>2. j - 1 \in 1..Len(pending[p]) - 1 /\ j = (j - 1) + 1
        BY <1>2, <4>1
      <4> QED
        BY <4>2
    <3>2. i \in 1..Len(pending'[p]) /\ pending'[p][i] = pending[p][j]
      BY <1>1, <1>2, <3>1
    <3> QED
      BY <2>2, <3>2
  <2> QED
    BY <2>1, <2>2
<1>5. 1 \in 1..Len(pending[p])
  BY <1>2
<1> QED
  BY <1>2, <1>3, <1>4, <1>5

LEMMA PublishNextSessions ==
  ASSUME Types, LogGood, SessionsGood, NEW p \in Procs, PublishNext(p)
  PROVE  SessionsGood'
<1> DEFINE o == Head(pending[p])
<1>1. /\ pending[p] # << >> /\ pending' = [pending EXCEPT ![p] = Tail(@)]
      /\ UNCHANGED <<writes, mine, promised>> /\ Publish(KeyOf(o), o)
  BY DEF PublishNext
<1>2. /\ pending[p][1] = o /\ 1 \in 1..Len(pending[p])
      /\ \A q \in Procs : \A i \in 1..Len(pending'[q]) :
           \E j \in 1..Len(pending[q]) :
             pending'[q][i] = pending[q][j] /\ j = (IF q = p THEN i + 1 ELSE i)
      /\ \A q \in Procs : \A j \in 1..Len(pending[q]) :
           (q = p /\ j = 1) \/ \E i \in 1..Len(pending'[q]) : pending'[q][i] = pending[q][j]
  BY <1>1, PendingTaken
<1> HIDE DEF o
<1>3. o \in Objects /\ o # 0 /\ o \in Nat
  <2>1. o \in Objects
    BY <1>2 DEF SessionsGood
  <2>2. Len(writes) \in Nat
    BY DEF Types
  <2> QED
    BY <2>1, <2>2 DEF Objects
<1>4. KeyOf(o) \in Keys
  <2>1. writes[o] \in Records
    BY <1>3, ItemFacts DEF Types, Objects
  <2> QED
    BY <2>1 DEF KeyOf, Records
<1>5. Published' = Published \cup {o} /\ Objects' = Objects
  <2>1. {o} \ {0} = {o}
    BY <1>3
  <2> QED
    BY <1>1, <1>3, <1>4, <2>1, PublishFacts DEF Objects
<1>6. ASSUME NEW q \in Procs, NEW i \in 1..Len(pending'[q])
      PROVE  pending'[q][i] \in Objects /\ pending'[q][i] \notin Published /\ pending'[q][i] # o
  <2>1. PICK j \in 1..Len(pending[q]) :
          pending'[q][i] = pending[q][j] /\ j = (IF q = p THEN i + 1 ELSE i)
    BY <1>2, <1>6
  <2>2. ~(q = p /\ j = 1)
    BY <2>1
  <2>3. pending[q][j] # pending[p][1]
    BY <1>2, <2>2 DEF SessionsGood
  <2> QED
    BY <1>2, <2>1, <2>3 DEF SessionsGood
<1>7. ASSUME NEW q \in Procs, NEW r \in Procs, NEW i \in 1..Len(pending'[q]),
             NEW j \in 1..Len(pending'[r]), pending'[q][i] = pending'[r][j]
      PROVE  q = r /\ i = j
  <2>1. PICK m \in 1..Len(pending[q]) :
          pending'[q][i] = pending[q][m] /\ m = (IF q = p THEN i + 1 ELSE i)
    BY <1>2, <1>7
  <2>2. PICK n \in 1..Len(pending[r]) :
          pending'[r][j] = pending[r][n] /\ n = (IF r = p THEN j + 1 ELSE j)
    BY <1>2, <1>7
  <2>3. q = r /\ m = n
    <3>1. pending[q][m] = pending[r][n]
      BY <1>7, <2>1, <2>2
    <3> QED
      BY <3>1 DEF SessionsGood
  <2>4. i \in Int /\ j \in Int
    OBVIOUS
  <2> QED
    BY <2>1, <2>2, <2>3, <2>4
<1>8. ASSUME NEW q \in Procs, NEW x \in mine[q]
      PROVE  x \in Published' \/ \E i \in 1..Len(pending'[q]) : pending'[q][i] = x
  <2>1. CASE x \in Published
    BY <1>5, <2>1
  <2>2. CASE \E j \in 1..Len(pending[q]) : pending[q][j] = x
    <3>1. PICK j \in 1..Len(pending[q]) : pending[q][j] = x
      BY <2>2
    <3>2. CASE q = p /\ j = 1
      BY <1>2, <1>5, <3>1, <3>2
    <3>3. CASE ~(q = p /\ j = 1)
      BY <1>2, <3>1, <3>3
    <3> QED
      BY <3>2, <3>3
  <2>3. x \in Published \/ \E j \in 1..Len(pending[q]) : pending[q][j] = x
    BY <1>8 DEF SessionsGood
  <2> QED
    BY <2>1, <2>2, <2>3
<1>9. promised' \subseteq Published'
  BY <1>1, <1>5 DEF SessionsGood
<1>10. \A q \in Procs : \A i \in 1..Len(pending'[q]) :
         pending'[q][i] \in Objects' /\ pending'[q][i] \notin Published'
  BY <1>5, <1>6
<1>11. \A q \in Procs : \A x \in mine'[q] :
         x \in Published' \/ \E i \in 1..Len(pending'[q]) : pending'[q][i] = x
  BY <1>1, <1>8
<1> QED
  BY <1>7, <1>9, <1>10, <1>11 DEF SessionsGood

LEMMA HandOverSessions ==
  ASSUME Types, Types', LogGood, SessionsGood, NEW p \in Procs, NEW k \in Keys,
         NEW bytes \in Nat, NEW length \in Nat, HandOver(p, k, bytes, length)
  PROVE  SessionsGood'
<1> DEFINE n == Len(writes) + 1
<1>1. [key |-> k, bytes |-> bytes, kept |-> length] \in Records
  BY DEF Records
<1>2. n \notin Objects /\ Objects' = Objects \cup {n} /\ n \in Nat
  BY <1>1, HandOverLog DEF HandOver, storeVars, Types
<1>3. Published' = Published /\ Published \subseteq Objects
  BY PublishedIs DEF HandOver, storeVars, Published
<1>4. /\ pending'[p] = Append(pending[p], n) /\ mine'[p] = mine[p] \cup {n}
      /\ \A q \in Procs \ {p} : pending'[q] = pending[q] /\ mine'[q] = mine[q]
      /\ UNCHANGED promised
  BY DEF HandOver, Types
<1>5. /\ Len(pending'[p]) = Len(pending[p]) + 1 /\ pending'[p][Len(pending[p]) + 1] = n
      /\ \A i \in 1..Len(pending[p]) : pending'[p][i] = pending[p][i]
      /\ Len(pending[p]) \in Nat
  BY <1>2, <1>4, AppendFacts DEF Types
<1> HIDE DEF n
<1>6. ASSUME NEW q \in Procs, NEW i \in 1..Len(pending'[q])
      PROVE  \/ i \in 1..Len(pending[q]) /\ pending'[q][i] = pending[q][i] /\ pending[q][i] # n
             \/ q = p /\ i = Len(pending[p]) + 1 /\ pending'[q][i] = n
  BY <1>2, <1>4, <1>5 DEF SessionsGood
<1>7. \A q \in Procs : \A i \in 1..Len(pending'[q]) :
        pending'[q][i] \in Objects' /\ pending'[q][i] \notin Published'
  BY <1>2, <1>3, <1>6 DEF SessionsGood
<1>8. \A q, r \in Procs : \A i \in 1..Len(pending'[q]), j \in 1..Len(pending'[r]) :
        pending'[q][i] = pending'[r][j] => q = r /\ i = j
  <2> SUFFICES ASSUME NEW q \in Procs, NEW r \in Procs, NEW i \in 1..Len(pending'[q]),
                      NEW j \in 1..Len(pending'[r]), pending'[q][i] = pending'[r][j]
               PROVE  q = r /\ i = j
    OBVIOUS
  <2>1. \/ i \in 1..Len(pending[q]) /\ pending'[q][i] = pending[q][i] /\ pending[q][i] # n
        \/ q = p /\ i = Len(pending[p]) + 1 /\ pending'[q][i] = n
    BY <1>6
  <2>2. \/ j \in 1..Len(pending[r]) /\ pending'[r][j] = pending[r][j] /\ pending[r][j] # n
        \/ r = p /\ j = Len(pending[p]) + 1 /\ pending'[r][j] = n
    BY <1>6
  <2> QED
    BY <2>1, <2>2 DEF SessionsGood
<1>9. ASSUME NEW q \in Procs, NEW o \in mine'[q]
      PROVE  o \in Published' \/ \E i \in 1..Len(pending'[q]) : pending'[q][i] = o
  <2>1. CASE q = p /\ o = n
    <3>1. Len(pending[p]) + 1 \in 1..Len(pending'[p])
      BY <1>5
    <3> QED
      BY <1>5, <2>1, <3>1
  <2>2. CASE o \in mine[q]
    <3>1. CASE o \in Published
      BY <1>3, <3>1
    <3>2. CASE \E i \in 1..Len(pending[q]) : pending[q][i] = o
      <4>1. PICK i \in 1..Len(pending[q]) : pending[q][i] = o
        BY <3>2
      <4>2. i \in 1..Len(pending'[q]) /\ pending'[q][i] = o
        BY <1>4, <1>5, <4>1
      <4> QED
        BY <4>2
    <3> QED
      BY <2>2, <3>1, <3>2 DEF SessionsGood
  <2> QED
    BY <1>4, <2>1, <2>2
<1> QED
  BY <1>3, <1>4, <1>7, <1>8, <1>9 DEF SessionsGood

LEMMA EndSessions ==
  ASSUME Types, SessionsGood, NEW p \in Procs, FlushReturns(p) \/ CloseReturns(p) \/ Crash(p)
  PROVE  SessionsGood'
<1>1. UNCHANGED <<log, writes>> /\ Published' = Published /\ Objects' = Objects
  BY DEF FlushReturns, CloseReturns, Returns, Crash, storeVars, Published, Objects
<1>2. /\ pending'[p] = << >> /\ mine'[p] = {}
      /\ \A q \in Procs \ {p} : pending'[q] = pending[q] /\ mine'[q] = mine[q]
  BY DEF FlushReturns, CloseReturns, Returns, Crash, Types
<1>3. promised' \subseteq Published
  <2>1. CASE Crash(p)
    BY <2>1 DEF Crash, SessionsGood
  <2>2. CASE pending[p] = << >> /\ promised' = promised \cup mine[p]
    BY <2>2, EmptySeq DEF SessionsGood
  <2> QED
    BY <2>1, <2>2 DEF FlushReturns, CloseReturns, Returns
<1>4. \A i : i \notin 1..Len(pending'[p])
  BY <1>2, EmptySeq
<1>5. /\ \A q \in Procs : \A i \in 1..Len(pending'[q]) :
           q # p /\ pending'[q] = pending[q]
      /\ \A q \in Procs : mine'[q] # {} => q # p /\ pending'[q] = pending[q] /\ mine'[q] = mine[q]
  BY <1>2, <1>4
<1> QED
  BY <1>1, <1>3, <1>5 DEF SessionsGood

-----------------------------------------------------------------------------
(* The invariant of the store and of what sessions keep for it. *)
StoreInv == Types /\ LogGood /\ SessionsGood

(* Steps that leave the table of contents and the data alone. *)
LEMMA QuietStep ==
  ASSUME StoreInv, NEW p \in Procs,
         \/ Open(p) \/ Flush(p) \/ FlushFails(p) \/ Close(p)
         \/ FlushReturns(p) \/ CloseReturns(p) \/ Crash(p)
         \/ Calls(p) \/ RetrieveReturns(p) \/ HandleNext(p) \/ HandleStops(p) \/ Free(p)
  PROVE  StoreInv' /\ Grows /\ UNCHANGED <<log, gone, writes>>
<1>1. UNCHANGED <<log, gone, writes>>
  BY DEF Open, Flush, FlushFails, Close, Begin, FlushReturns, CloseReturns, Returns, Crash,
         Calls, Call, RetrieveReturns, HandleNext, HandleStops, Free, storeVars, sessionVars
<1>2. Types'
  BY SessionTypes, HandleTypes DEF StoreInv
<1>3. LogGood'
  BY <1>1, SameLog DEF StoreInv
<1>4. SessionsGood'
  <2>1. CASE FlushReturns(p) \/ CloseReturns(p) \/ Crash(p)
    BY <2>1, EndSessions DEF StoreInv
  <2>2. CASE ~(FlushReturns(p) \/ CloseReturns(p) \/ Crash(p))
    <3>1. UNCHANGED <<pending, mine, promised>>
      BY <2>2 DEF Open, Flush, FlushFails, Close, Begin, Calls, Call, RetrieveReturns,
                  HandleNext, HandleStops, Free, sessionVars
    <3> QED
      BY <1>1, <3>1, SameSessions DEF StoreInv, Published
  <2> QED
    BY <2>1, <2>2
<1> QED
  BY <1>1, <1>2, <1>3, <1>4 DEF StoreInv, Types, Grows

(* fdb5's visit of a key. *)
LEMMA VisitStep ==
  ASSUME StoreInv, NEW p \in Procs, NEW k \in rest[p],
         VisitList(p, k) \/ VisitWipe(p, k) \/ VisitPurge(p, k)
  PROVE  StoreInv' /\ Grows /\ Published' = Published
<1>1. Types' /\ k \in Keys /\ UNCHANGED sessionVars
  BY VisitTypes DEF StoreInv, VisitList, VisitWipe, VisitPurge, Visits
<1>2. UNCHANGED <<writes, pending, mine, promised>>
  BY <1>1 DEF sessionVars
<1>3. LogGood' /\ Grows /\ Published' = Published
  <2>1. CASE UNCHANGED storeVars
    BY <1>1, <1>2, <2>1, SameLog DEF StoreInv, storeVars, Types, Grows, Published
  <2>2. CASE Publish(k, 0) /\ gone' = gone \cup Stored(k)
    BY <1>1, <1>2, <2>2, WipeLog DEF StoreInv
  <2>3. CASE VisitPurge(p, k)
    <3>1. PICK objects \in SUBSET Masked(k) : gone' = gone \cup objects /\ UNCHANGED log
      <4>1. {{}} \subseteq SUBSET Masked(k)
        OBVIOUS
      <4> QED
        BY <2>3, <4>1 DEF VisitPurge
    <3>2. Published' = Published
      BY <3>1 DEF Published
    <3> QED
      BY <1>1, <1>2, <3>1, <3>2, PurgeLog DEF StoreInv
  <2> QED
    BY <2>1, <2>2, <2>3 DEF VisitList, VisitWipe
<1>4. SessionsGood'
  BY <1>2, <1>3, SameSessions DEF StoreInv
<1> QED
  BY <1>1, <1>3, <1>4 DEF StoreInv

LEMMA PublishNextStep ==
  ASSUME StoreInv, NEW p \in Procs, PublishNext(p)
  PROVE  StoreInv' /\ Grows
<1>1. Types'
  BY SessionTypes DEF StoreInv
<1> QED
  BY <1>1, PublishNextLog, PublishNextSessions DEF StoreInv

LEMMA HandOverStep ==
  ASSUME StoreInv, NEW p \in Procs, NEW k \in Keys, NEW bytes \in Nat, NEW length \in Nat,
         HandOver(p, k, bytes, length)
  PROVE  StoreInv' /\ Grows
<1>1. Types'
  BY HandOverTypes DEF StoreInv
<1>2. [key |-> k, bytes |-> bytes, kept |-> length] \in Records
  BY DEF Records
<1>3. LogGood' /\ Grows
  BY <1>1, <1>2, HandOverLog DEF StoreInv, HandOver, storeVars
<1> QED
  BY <1>1, <1>3, HandOverSessions DEF StoreInv

LEMMA IdleStep ==
  ASSUME StoreInv, UNCHANGED <<storeVars, sessionVars, handleVars>>
  PROVE  StoreInv' /\ Grows
<1>1. UNCHANGED <<log, gone, writes, session, pending, mine, promised, handle, rest, found, given>>
  BY DEF storeVars, sessionVars, handleVars
<1>2. Types' /\ Grows
  BY <1>1 DEF StoreInv, Types, Grows
<1> QED
  BY <1>1, <1>2, SameLog, SameSessions DEF StoreInv, Published

(* The steps of a system, by what they do to the store. *)
LEMMA NextCases ==
  ASSUME [Next]_vars
  PROVE  \/ UNCHANGED <<storeVars, sessionVars, handleVars>>
         \/ \E p \in Procs :
              \/ Open(p) \/ Flush(p) \/ FlushFails(p) \/ Close(p)
              \/ FlushReturns(p) \/ CloseReturns(p) \/ Crash(p)
              \/ Calls(p) \/ RetrieveReturns(p) \/ HandleNext(p) \/ HandleStops(p) \/ Free(p)
         \/ \E p \in Procs, k \in Keys, b \in Buffers : Archive(p, k, b) \/ Put(p, k, b)
         \/ \E p \in Procs : PublishNext(p)
         \/ \E p \in Procs : \E k \in rest[p] :
              VisitList(p, k) \/ VisitWipe(p, k) \/ VisitPurge(p, k)
BY DEF Next, vars, Answer, Search, Iterate, Visit

LEMMA StoreInvNext ==
  ASSUME StoreInv, [Next]_vars
  PROVE  StoreInv' /\ Grows
<1>1. CASE UNCHANGED <<storeVars, sessionVars, handleVars>>
  BY <1>1, IdleStep
<1>2. ASSUME NEW p \in Procs,
             \/ Open(p) \/ Flush(p) \/ FlushFails(p) \/ Close(p)
             \/ FlushReturns(p) \/ CloseReturns(p) \/ Crash(p)
             \/ Calls(p) \/ RetrieveReturns(p) \/ HandleNext(p) \/ HandleStops(p) \/ Free(p)
      PROVE  StoreInv' /\ Grows
  BY <1>2, QuietStep
<1>3. ASSUME NEW p \in Procs, NEW k \in Keys, NEW b \in Buffers, Archive(p, k, b) \/ Put(p, k, b)
      PROVE  StoreInv' /\ Grows
  <2>1. PICK bytes, length \in Nat : HandOver(p, k, bytes, length)
    BY <1>3, HandOverRecord DEF StoreInv
  <2> QED
    BY <2>1, HandOverStep
<1>4. ASSUME NEW p \in Procs, PublishNext(p)
      PROVE  StoreInv' /\ Grows
  BY <1>4, PublishNextStep
<1>5. ASSUME NEW p \in Procs, NEW k \in rest[p], VisitList(p, k) \/ VisitWipe(p, k) \/ VisitPurge(p, k)
      PROVE  StoreInv' /\ Grows
  BY <1>5, VisitStep
<1> QED
  BY <1>1, <1>2, <1>3, <1>4, <1>5, NextCases

LEMMA StoreInvInit ==
  ASSUME Init
  PROVE  StoreInv
<1>1. \A i : i \notin 1..Len(log) /\ i \notin DOMAIN log
  BY EmptySeq DEF Init
<1>2. \A p \in Procs : \A i : i \notin 1..Len(pending[p])
  BY EmptySeq DEF Init
<1>3. Types
  BY EmptySeq DEF Init, Types
<1>4. Published = {}
  BY <1>1 DEF Published
<1>5. \A k \in Keys : Newest(k) = 0
  <2>1. Len(log) \in Nat
    BY <1>3 DEF Types
  <2> QED
    BY <1>1, <2>1 DEF Newest, NewestAt
<1>6. LogGood
  BY <1>1, <1>4, <1>5 DEF Init, LogGood, EntriesGood, LastGood, WipedGood
<1>7. SessionsGood
  BY <1>2 DEF Init, SessionsGood
<1> QED
  BY <1>3, <1>6, <1>7 DEF StoreInv

(* The table of contents of any number of processes stays sound: entries    *)
(* are of objects that were handed over, each under its own key, what a key *)
(* lost to a wipe is gone, and what is gone is not accessible (DasiSession  *)
(* models Dasi.cc over fdb5).                                               *)
THEOREM StoreStaysSound == Spec => []StoreInv
<1>1. Init => StoreInv
  BY StoreInvInit
<1>2. StoreInv /\ [Next]_vars => StoreInv'
  BY StoreInvNext
<1> QED
  BY <1>1, <1>2, PTL DEF Spec

-----------------------------------------------------------------------------
(* What a handle has to do with the store: where it stands, ...             *)
AskedGood(p) ==
  /\ rest[p] \subseteq handle[p].query
  /\ handle[p] = NoHandle => found[p] = {} /\ given[p] = {}
  /\ handle[p].phase = "stopped" => rest[p] = {} /\ found[p] = {}
  /\ handle[p].kind = "retrieve" /\ handle[p].phase # "call" => rest[p] = {}

(* ... when it was made, ...                                                *)
StartGood(p) ==
  /\ handle[p] # NoHandle => handle[p].start <= Len(log) /\ handle[p].due \subseteq Published
  /\ handle[p].kind = "retrieve" /\ handle[p].phase # "call" => handle[p].end <= Len(log)

(* ... which entry of the log an object it found comes from, ...            *)
FromEntry(p, o, i) ==
  /\ log[i].object = o
  /\ \A j \in i + 1..handle[p].start : log[j].key # KeyOf(o)
  /\ handle[p].kind = "retrieve" /\ handle[p].phase # "call" => i <= handle[p].end

ItemsGood(p) ==
  Reads(p) => \A o \in found[p] \cup given[p] :
    o \in Published /\ \E i \in 1..Len(log) : FromEntry(p, o, i)

(* ... what became of the objects it owes, ...                              *)
Settled(p, o) ==
  \/ KeyOf(o) \in rest[p] \/ KeyOf(o) \notin handle[p].query \/ Wiped(o)
  \/ \E g \in found[p] \cup given[p] : KeyOf(g) = KeyOf(o)

DueGood(p) == Reads(p) => \A o \in handle[p].due : Settled(p, o)

(* ... and what a wipe has removed.                                         *)
WipeGood(p) ==
  handle[p].kind = "wipe" /\ handle[p].doit =>
    \A i \in 1..handle[p].start :
      log[i].key \in handle[p].query \ rest[p] => log[i].object \in gone \cup {0}

HandleGood(p) ==
  AskedGood(p) /\ StartGood(p) /\ ItemsGood(p) /\ DueGood(p) /\ WipeGood(p)

SessionInv == StoreInv /\ \A p \in Procs : HandleGood(p)

(* What is in the store stays known as what it was. *)
LEMMA StoreKept ==
  ASSUME StoreInv, StoreInv', Grows
  PROVE  /\ Len(log) \in Nat /\ Len(log') \in Nat /\ Len(log) <= Len(log')
         /\ Published \subseteq Published'
         /\ \A o \in Published : KeyOf(o)' = KeyOf(o) /\ (Wiped(o) => Wiped(o)')
<1>1. Len(log) \in Nat /\ Len(log') \in Nat /\ Len(log) <= Len(log')
  BY DEF StoreInv, Types, Grows
<1>2. ASSUME NEW o \in Published
      PROVE  o \in Published' /\ KeyOf(o)' = KeyOf(o) /\ (Wiped(o) => Wiped(o)')
  <2>1. o \in Objects /\ o # 0
    BY PublishedIs DEF StoreInv
  <2>2. PICK i \in 1..Len(log) : log[i].object = o
    BY PublishedIs DEF StoreInv
  <2>3. i \in DOMAIN log' /\ log'[i].object = o
    <3>1. DOMAIN log' = 1..Len(log')
      BY DEF StoreInv, Types
    <3>2. i \in 1..Len(log') /\ log'[i] = log[i]
      BY <1>1, <2>2 DEF Grows
    <3> QED
      BY <2>2, <3>1, <3>2
  <2>4. o \in Published'
    BY <2>1, <2>3 DEF Published
  <2> QED
    BY <2>1, <2>4, KeyOfKept, WipedKept DEF StoreInv
<1> QED
  BY <1>1, <1>2

(* A step of another process or of another part keeps all that. *)
LEMMA HandleKept ==
  ASSUME StoreInv, StoreInv', Grows, NEW p \in Procs, HandleGood(p),
         handle'[p] = handle[p], rest'[p] = rest[p], found'[p] = found[p], given'[p] = given[p]
  PROVE  HandleGood(p)'
<1>1. /\ Len(log) \in Nat /\ Len(log') \in Nat /\ Len(log) <= Len(log')
      /\ Published \subseteq Published'
      /\ \A o \in Published : KeyOf(o)' = KeyOf(o) /\ (Wiped(o) => Wiped(o)')
  BY StoreKept
<1>2. handle[p] = NoHandle \/ handle[p] \in Handles
  BY HandleFacts DEF StoreInv
<1>3. AskedGood(p)'
  BY DEF HandleGood, AskedGood, NoHandle
<1>4. StartGood(p)'
  <2>1. handle[p] = NoHandle => handle[p].kind = "none"
    BY DEF NoHandle
  <2>2. handle[p] # NoHandle => handle[p].start \in Nat /\ handle[p].end \in Nat
    BY <1>2 DEF Handles
  <2>3. NoHandle' = NoHandle
    BY DEF NoHandle
  <2> QED
    BY <1>1, <2>1, <2>2, <2>3 DEF HandleGood, StartGood
<1>5. ItemsGood(p)'
  <2> SUFFICES ASSUME Reads(p), NEW o \in found[p] \cup given[p]
               PROVE  o \in Published' /\ \E i \in 1..Len(log') : FromEntry(p, o, i)'
    BY DEF ItemsGood, Reads
  <2>1. handle[p] # NoHandle /\ handle[p].start \in Nat /\ handle[p].start <= Len(log)
    BY <1>2 DEF HandleGood, StartGood, Reads, NoHandle, Handles
  <2>2. PICK i \in 1..Len(log) : FromEntry(p, o, i)
    BY DEF HandleGood, ItemsGood
  <2>3. o \in Published
    BY DEF HandleGood, ItemsGood
  <2>4. \A j \in 1..Len(log) : log'[j] = log[j]
    BY DEF Grows
  <2>5. \A j \in i + 1..handle[p].start : j \in 1..Len(log)
    BY <1>1, <2>1
  <2>6. FromEntry(p, o, i)'
    BY <1>1, <2>2, <2>3, <2>4, <2>5 DEF FromEntry
  <2>7. i \in 1..Len(log')
    BY <1>1
  <2> QED
    BY <1>1, <2>3, <2>6, <2>7
<1>6. DueGood(p)'
  <2> SUFFICES ASSUME Reads(p), NEW o \in handle[p].due
               PROVE  Settled(p, o)'
    BY DEF DueGood, Reads
  <2>1. o \in Published
    BY DEF HandleGood, StartGood, Reads, NoHandle
  <2>2. \A g \in found[p] \cup given[p] : g \in Published
    BY DEF HandleGood, ItemsGood
  <2>3. Settled(p, o)
    BY DEF HandleGood, DueGood
  <2> QED
    BY <1>1, <2>1, <2>2, <2>3 DEF Settled
<1>7. WipeGood(p)'
  <2> SUFFICES ASSUME handle[p].kind = "wipe" /\ handle[p].doit, NEW i \in 1..handle[p].start,
                      log'[i].key \in handle[p].query \ rest[p]
               PROVE  log'[i].object \in gone' \cup {0}
    BY DEF WipeGood
  <2>1. handle[p].start \in Nat /\ handle[p].start <= Len(log)
    BY <1>2 DEF HandleGood, StartGood, NoHandle, Handles
  <2>2. i \in 1..Len(log) /\ log'[i] = log[i] /\ gone \subseteq gone'
    BY <1>1, <2>1 DEF Grows
  <2> QED
    BY <2>2 DEF HandleGood, WipeGood
<1> QED
  BY <1>3, <1>4, <1>5, <1>6, <1>7 DEF HandleGood

(* A call makes a handle that owes everything promised so far. *)
LEMMA CallHandle ==
  ASSUME StoreInv, NEW p \in Procs, HandleGood(p), Calls(p)
  PROVE  HandleGood(p)'
<1>1. PICK query \in Queries, kind \in {"retrieve", "list", "wipe", "purge"}, doit \in BOOLEAN :
        Call(p, kind, doit, query)
  BY DEF Calls
<1>2. PICK h \in Handles : h = Handle(kind, doit, query)
  BY NewHandle DEF StoreInv
<1>3. /\ h.kind = kind /\ h.query = query /\ h.start = Len(log) /\ h.due \subseteq promised
      /\ h.phase = IF kind = "retrieve" THEN "call" ELSE "open"
  BY <1>2, NewHandle DEF StoreInv
<1>4. /\ handle'[p] = h /\ rest'[p] = query /\ UNCHANGED <<log, gone, writes>>
      /\ found'[p] = {} /\ given'[p] = {} /\ Published' = Published /\ Len(log) \in Nat
  BY <1>1, <1>2 DEF Call, StoreInv, Types, storeVars, sessionVars, HandleGood, AskedGood, Published
<1>5. h # NoHandle
  BY DEF Handles, NoHandle
<1>6. AskedGood(p)' /\ ItemsGood(p)' /\ WipeGood(p)'
  BY <1>3, <1>4, <1>5 DEF AskedGood, ItemsGood, WipeGood, NoHandle
<1>7. StartGood(p)'
  <2>1. h.due \subseteq Published
    BY <1>3 DEF StoreInv, SessionsGood
  <2> QED
    BY <1>3, <1>4, <2>1 DEF StartGood
<1>8. DueGood(p)'
  BY <1>3, <1>4 DEF DueGood, Settled
<1> QED
  BY <1>6, <1>7, <1>8 DEF HandleGood

(* A handle is freed, or lost with its process. *)
LEMMA FreeHandle ==
  ASSUME StoreInv, NEW p \in Procs, Free(p) \/ Crash(p)
  PROVE  HandleGood(p)'
<1>1. handle'[p] = NoHandle /\ rest'[p] = {} /\ found'[p] = {} /\ given'[p] = {}
  BY DEF Free, Crash, StoreInv, Types
<1>2. NoHandle.kind = "none" /\ NoHandle.phase = "none" /\ NoHandle' = NoHandle
  BY DEF NoHandle
<1> QED
  BY <1>1, <1>2 DEF HandleGood, AskedGood, StartGood, ItemsGood, DueGood, WipeGood, Reads

(* retrieve() returns: the log is at least as long as what it found. *)
LEMMA ReturnHandle ==
  ASSUME StoreInv, NEW p \in Procs, HandleGood(p), RetrieveReturns(p) \/ HandleStops(p)
  PROVE  HandleGood(p)'
<1>1. /\ rest[p] = {} /\ UNCHANGED <<log, gone, writes, rest, found, given>>
      /\ handle[p].phase \in {"call", "open"} /\ Len(log) \in Nat
  BY DEF RetrieveReturns, HandleStops, storeVars, sessionVars, StoreInv, Types
<1>2. handle[p] \in Handles
  BY <1>1, HandleFacts DEF StoreInv
<1>3. PICK h \in Handles : h = handle'[p]
  BY <1>2, HandleTypes, HandleFacts, NextHandle, <1>1
     DEF RetrieveReturns, HandleStops, StoreInv, Types
<1>4. /\ h.kind = handle[p].kind /\ h.doit = handle[p].doit /\ h.query = handle[p].query
      /\ h.start = handle[p].start /\ h.due = handle[p].due
      /\ \/ h.phase = "open" /\ h.end = Len(log)
         \/ /\ h.phase = "stopped" /\ h.end = handle[p].end /\ found[p] = {}
            /\ handle[p].phase = "open"
  BY <1>2, <1>3 DEF RetrieveReturns, HandleStops, StoreInv, Types, Handles
<1>5. h # NoHandle /\ handle[p] # NoHandle
  BY <1>2 DEF Handles, NoHandle
<1>6. /\ Published' = Published
      /\ \A o : KeyOf(o)' = KeyOf(o) /\ Wiped(o)' = Wiped(o)
  BY <1>1 DEF Published, KeyOf, Wiped
<1>7. AskedGood(p)'
  BY <1>1, <1>3, <1>4, <1>5 DEF AskedGood, NoHandle
<1>8. StartGood(p)'
  BY <1>1, <1>3, <1>4, <1>5, <1>6 DEF HandleGood, StartGood
<1>9. ItemsGood(p)'
  <2> SUFFICES ASSUME Reads(p), NEW o \in found[p] \cup given[p]
               PROVE  o \in Published /\ \E i \in 1..Len(log) : FromEntry(p, o, i)'
    BY <1>1, <1>3, <1>4, <1>6 DEF ItemsGood, Reads
  <2>1. PICK i \in 1..Len(log) : FromEntry(p, o, i)
    BY DEF HandleGood, ItemsGood
  <2>2. FromEntry(p, o, i)'
    BY <1>1, <1>3, <1>4, <1>6, <2>1 DEF FromEntry
  <2> QED
    BY <2>2 DEF HandleGood, ItemsGood
<1>10. DueGood(p)'
  BY <1>1, <1>3, <1>4, <1>6 DEF HandleGood, DueGood, Settled, Reads
<1>11. WipeGood(p)'
  BY <1>1, <1>3, <1>4 DEF HandleGood, WipeGood
<1> QED
  BY <1>7, <1>8, <1>9, <1>10, <1>11 DEF HandleGood

LEMMA NextHandleGood ==
  ASSUME StoreInv, NEW p \in Procs, HandleGood(p), HandleNext(p)
  PROVE  HandleGood(p)'
<1>1. /\ UNCHANGED <<log, gone, writes, handle, rest>> /\ handle[p].phase = "open"
      /\ found'[p] \cup given'[p] = found[p] \cup given[p]
  BY DEF HandleNext, storeVars, sessionVars, StoreInv, Types
<1>2. /\ Published' = Published /\ NoHandle' = NoHandle
      /\ \A o : KeyOf(o)' = KeyOf(o) /\ Wiped(o)' = Wiped(o)
  BY <1>1 DEF Published, KeyOf, Wiped, NoHandle
<1>3. AskedGood(p)'
  BY <1>1, <1>2 DEF HandleGood, AskedGood, NoHandle
<1>4. StartGood(p)' /\ WipeGood(p)'
  BY <1>1, <1>2 DEF HandleGood, StartGood, WipeGood
<1>5. \A o, i : FromEntry(p, o, i)' = FromEntry(p, o, i)
  BY <1>1, <1>2 DEF FromEntry
<1>6. ItemsGood(p)' /\ DueGood(p)'
  BY <1>1, <1>2, <1>5 DEF HandleGood, ItemsGood, DueGood, Settled, Reads
<1> QED
  BY <1>3, <1>4, <1>6 DEF HandleGood

(* A retrieve or list visits a key: the key is settled by what is found.    *)
LEMMA ListHandle ==
  ASSUME StoreInv, NEW p \in Procs, HandleGood(p), NEW k \in rest[p], VisitList(p, k)
  PROVE  HandleGood(p)'
<1>1. /\ UNCHANGED <<log, gone, writes, handle, given>> /\ rest'[p] = rest[p] \ {k}
      /\ found'[p] = found[p] \cup ({Newest(k)} \ {0}) /\ Reads(p) /\ k \in Keys
      /\ Len(log) \in Nat
  BY DEF VisitList, Visits, storeVars, sessionVars, StoreInv, Types, Reads
<1>2. /\ Published' = Published /\ NoHandle' = NoHandle
      /\ \A o : KeyOf(o)' = KeyOf(o) /\ Wiped(o)' = Wiped(o)
  BY <1>1 DEF Published, KeyOf, Wiped, NoHandle
<1>3. handle[p] \in Handles /\ handle[p] # NoHandle
  BY <1>1, HandleFacts DEF StoreInv, Reads, Handles, NoHandle
<1>4. handle[p].phase # "stopped" /\ ~(handle[p].kind = "retrieve" /\ handle[p].phase # "call")
  BY <1>1 DEF HandleGood, AskedGood
<1>5. AskedGood(p)' /\ StartGood(p)' /\ WipeGood(p)'
  BY <1>1, <1>2, <1>3, <1>4 DEF HandleGood, AskedGood, StartGood, WipeGood, Reads
<1>6. ItemsGood(p)'
  <2> SUFFICES ASSUME NEW o \in found'[p] \cup given[p]
               PROVE  o \in Published /\ \E i \in 1..Len(log) : FromEntry(p, o, i)'
    BY <1>1, <1>2 DEF ItemsGood
  <2>1. CASE o \in found[p] \cup given[p]
    <3>1. PICK i \in 1..Len(log) : FromEntry(p, o, i)
      BY <1>1, <2>1 DEF HandleGood, ItemsGood
    <3>2. FromEntry(p, o, i)'
      BY <1>1, <1>2, <3>1 DEF FromEntry
    <3> QED
      BY <1>1, <2>1, <3>2 DEF HandleGood, ItemsGood
  <2>2. CASE o = Newest(k) /\ o # 0
    <3>1. o \in Published /\ KeyOf(o) = k
      BY <1>1, <2>2, NewestIs DEF StoreInv
    <3>2. PICK i \in 1..Len(log) : IsLast(i, k) /\ log[i].object = o
      BY <1>1, <2>2, NewestIs DEF StoreInv
    <3>3. handle[p].start \in Nat /\ handle[p].start <= Len(log)
      BY <1>3 DEF HandleGood, StartGood, Handles
    <3>4. \A j \in i + 1..handle[p].start : log[j].key # k
      BY <1>1, <3>2, <3>3 DEF IsLast
    <3>5. FromEntry(p, o, i)'
      BY <1>1, <1>2, <1>4, <3>1, <3>2, <3>4 DEF FromEntry
    <3> QED
      BY <3>1, <3>5
  <2> QED
    BY <1>1, <2>1, <2>2
<1>7. DueGood(p)'
  <2> SUFFICES ASSUME NEW o \in handle[p].due
               PROVE  Settled(p, o)'
    BY <1>1 DEF DueGood
  <2>1. Settled(p, o) /\ o \in Published
    BY <1>1, <1>3 DEF HandleGood, DueGood, StartGood
  <2>2. CASE KeyOf(o) # k
    BY <1>1, <1>2, <2>1, <2>2 DEF Settled
  <2>3. CASE KeyOf(o) = k /\ Newest(k) # 0
    <3>1. KeyOf(Newest(k)) = k
      BY <1>1, <2>3, NewestIs DEF StoreInv
    <3> QED
      BY <1>1, <1>2, <2>3, <3>1 DEF Settled
  <2>4. CASE KeyOf(o) = k /\ Newest(k) = 0
    <3>1. PICK i \in 1..Len(log) : log[i].object = o /\ log[i].key = k /\ o # 0
      BY <2>1, <2>4, PublishedIs DEF StoreInv
    <3>2. Wiped(o)
      BY <1>1, <2>4, <3>1 DEF StoreInv, LogGood, WipedGood
    <3> QED
      BY <1>2, <3>2 DEF Settled
  <2> QED
    BY <2>2, <2>3, <2>4
<1> QED
  BY <1>5, <1>6, <1>7 DEF HandleGood

(* A wipe visits a key: nothing stored under it is left. *)
LEMMA WipeHandle ==
  ASSUME StoreInv, StoreInv', Grows, NEW p \in Procs, HandleGood(p), NEW k \in rest[p],
         VisitWipe(p, k) \/ VisitPurge(p, k)
  PROVE  HandleGood(p)'
<1>1. /\ UNCHANGED <<handle, given, writes>> /\ rest'[p] = rest[p] \ {k} /\ found'[p] = found[p]
      /\ ~Reads(p) /\ k \in Keys /\ handle[p].kind \in {"wipe", "purge"}
      /\ handle[p].kind = "wipe" => VisitWipe(p, k)
  BY DEF VisitWipe, VisitPurge, Visits, sessionVars, StoreInv, Types, Reads
<1>2. /\ Len(log) \in Nat /\ Len(log') \in Nat /\ Len(log) <= Len(log')
      /\ Published \subseteq Published'
  BY StoreKept
<1>3. handle[p] \in Handles /\ handle[p] # NoHandle /\ NoHandle' = NoHandle
  BY <1>1, HandleFacts DEF StoreInv, Handles, NoHandle
<1>4. AskedGood(p)' /\ ItemsGood(p)' /\ DueGood(p)'
  BY <1>1, <1>3 DEF HandleGood, AskedGood, ItemsGood, DueGood, Reads
<1>5. StartGood(p)'
  <2>1. handle[p].start \in Nat /\ handle[p].start <= Len(log)
    BY <1>3 DEF HandleGood, StartGood, Handles
  <2> QED
    BY <1>1, <1>2, <1>3, <2>1 DEF HandleGood, StartGood
<1>6. WipeGood(p)'
  <2> SUFFICES ASSUME handle[p].kind = "wipe", handle[p].doit, NEW i \in 1..handle[p].start,
                      log'[i].key \in handle[p].query \ rest'[p]
               PROVE  log'[i].object \in gone' \cup {0}
    BY <1>1 DEF WipeGood
  <2>1. i \in 1..Len(log) /\ log'[i] = log[i] /\ gone \subseteq gone'
    BY <1>2, <1>3 DEF Grows, HandleGood, StartGood, Handles
  <2>2. CASE log[i].key # k
    BY <1>1, <2>1, <2>2 DEF HandleGood, WipeGood
  <2>3. CASE log[i].key = k /\ log[i].object # 0
    <3>1. log[i].object \in Published /\ KeyOf(log[i].object) = k
      BY <2>1, <2>3, PublishedFacts DEF StoreInv, LogGood, EntriesGood
    <3>2. CASE gone' = gone \cup Stored(k)
      BY <2>1, <3>1, <3>2 DEF Stored
    <3>3. CASE Newest(k) = 0
      BY <1>1, <2>1, <2>3, <3>3 DEF StoreInv, LogGood, WipedGood
    <3> QED
      BY <1>1, <3>2, <3>3 DEF VisitWipe
  <2> QED
    BY <2>1, <2>2, <2>3
<1> QED
  BY <1>4, <1>5, <1>6 DEF HandleGood

(* Steps of a process leave the handles of the others alone. *)
LEMMA OtherHandles ==
  ASSUME StoreInv, NEW p \in Procs, NEW q \in Procs \ {p},
         \/ Calls(p) \/ Free(p) \/ Crash(p) \/ RetrieveReturns(p) \/ HandleStops(p) \/ HandleNext(p)
         \/ \E k \in rest[p] : VisitList(p, k) \/ VisitWipe(p, k) \/ VisitPurge(p, k)
  PROVE  /\ handle'[q] = handle[q] /\ rest'[q] = rest[q]
         /\ found'[q] = found[q] /\ given'[q] = given[q]
BY DEF Calls, Call, Free, Crash, RetrieveReturns, HandleStops, HandleNext,
       VisitList, VisitWipe, VisitPurge, Visits, StoreInv, Types

LEMMA HandlesNext ==
  ASSUME SessionInv, StoreInv', Grows, [Next]_vars, NEW q \in Procs
  PROVE  HandleGood(q)'
<1>1. CASE UNCHANGED handleVars
  BY <1>1, HandleKept DEF SessionInv, handleVars
<1>2. ASSUME NEW p \in Procs,
             \/ Calls(p) \/ Free(p) \/ Crash(p) \/ RetrieveReturns(p) \/ HandleStops(p) \/ HandleNext(p)
             \/ \E k \in rest[p] : VisitList(p, k) \/ VisitWipe(p, k) \/ VisitPurge(p, k)
      PROVE  HandleGood(q)'
  <2>1. CASE q = p
    <3>1. HandleGood(p)'
      BY <1>2, CallHandle, FreeHandle, ReturnHandle, NextHandleGood, ListHandle, WipeHandle
         DEF SessionInv
    <3> QED
      BY <2>1, <3>1
  <2>2. CASE q # p
    BY <1>2, <2>2, OtherHandles, HandleKept DEF SessionInv
  <2> QED
    BY <2>1, <2>2
<1>3. \A p \in Procs :
        /\ Open(p) \/ Flush(p) \/ FlushFails(p) \/ Close(p) \/ FlushReturns(p) \/ CloseReturns(p)
             \/ PublishNext(p) => UNCHANGED handleVars
        /\ \A k \in Keys, b \in Buffers : Archive(p, k, b) \/ Put(p, k, b) => UNCHANGED handleVars
  BY DEF Open, Flush, FlushFails, Close, Begin, FlushReturns, CloseReturns, Returns, PublishNext,
         Archive, Put, HandOver
<1> QED
  BY <1>1, <1>2, <1>3, NextCases

LEMMA SessionInvInit ==
  ASSUME Init
  PROVE  SessionInv
<1>1. StoreInv
  BY StoreInvInit
<1>2. ASSUME NEW p \in Procs PROVE HandleGood(p)
  <2>1. handle[p] = NoHandle /\ rest[p] = {} /\ found[p] = {} /\ given[p] = {}
    BY DEF Init
  <2> QED
    BY <2>1 DEF HandleGood, AskedGood, StartGood, ItemsGood, DueGood, WipeGood, Reads, NoHandle
<1> QED
  BY <1>1, <1>2 DEF SessionInv

LEMMA SessionInvNext ==
  ASSUME SessionInv, [Next]_vars
  PROVE  SessionInv'
<1>1. StoreInv' /\ Grows
  BY StoreInvNext DEF SessionInv
<1>2. \A q \in Procs : HandleGood(q)'
  BY <1>1, HandlesNext
<1> QED
  BY <1>1, <1>2 DEF SessionInv

LEMMA SessionsStayGood == Spec => []SessionInv
<1>1. Init => SessionInv
  BY SessionInvInit
<1>2. SessionInv /\ [Next]_vars => SessionInv'
  BY SessionInvNext
<1> QED
  BY <1>1, <1>2, PTL DEF Spec

-----------------------------------------------------------------------------
(* What was promised before a call is handed out by it or wiped, however    *)
(* many processes archive, wipe and crash meanwhile.                        *)
THEOREM PromisesAreKept == Spec => []FlushedIsFound
<1>1. SessionInv => FlushedIsFound
  <2> SUFFICES ASSUME SessionInv, NEW p \in Procs, Reads(p), handle[p].phase = "stopped",
                      NEW o \in handle[p].due
               PROVE  \/ KeyOf(o) \notin handle[p].query
                      \/ Wiped(o)
                      \/ \E g \in given[p] : KeyOf(g) = KeyOf(o)
    BY DEF FlushedIsFound
  <2>1. rest[p] = {} /\ found[p] = {} /\ Settled(p, o)
    BY DEF SessionInv, HandleGood, AskedGood, DueGood
  <2> QED
    BY <2>1 DEF Settled
<1> QED
  BY <1>1, SessionsStayGood, PTL

(* No call hands out what was masked or wiped before it was made, and no    *)
(* retrieve() what was archived after it returned (Dasi.cc: list is lazy,   *)
(* retrieve drains at once).                                                *)
THEOREM ItemsComeFromTheCall == Spec => []ItemsAreOfCall
<1>1. SessionInv => ItemsAreOfCall
  <2> SUFFICES ASSUME SessionInv, NEW p \in Procs, Reads(p), NEW o \in found[p] \cup given[p]
               PROVE  \E i \in DOMAIN log :
                        /\ log[i].object = o
                        /\ \A j \in i + 1..handle[p].start : log[j].key # KeyOf(o)
                        /\ handle[p].kind = "retrieve" /\ handle[p].phase # "call" => i <= handle[p].end
    BY DEF ItemsAreOfCall
  <2>1. PICK i \in 1..Len(log) : FromEntry(p, o, i)
    BY DEF SessionInv, HandleGood, ItemsGood
  <2>2. i \in DOMAIN log
    BY DEF SessionInv, StoreInv, Types
  <2> QED
    BY <2>1, <2>2 DEF FromEntry
<1> QED
  BY <1>1, SessionsStayGood, PTL

(* A wipe with doit that was iterated to its end left nothing of what was   *)
(* stored when it was called.                                               *)
THEOREM WipesAreComplete == Spec => []WipedIsGone
<1>1. SessionInv => WipedIsGone
  <2> SUFFICES ASSUME SessionInv, NEW p \in Procs, handle[p].kind = "wipe",
                      handle[p].phase = "stopped", handle[p].doit, NEW i \in 1..handle[p].start,
                      log[i].key \in handle[p].query
               PROVE  log[i].object \in gone \cup {0}
    BY DEF WipedIsGone
  <2>1. rest[p] = {} /\ WipeGood(p)
    BY DEF SessionInv, HandleGood, AskedGood
  <2> QED
    BY <2>1 DEF WipeGood
<1> QED
  BY <1>1, SessionsStayGood, PTL

LEMMA RemovalStep ==
  ASSUME SessionInv, SessionInv', [Next]_vars, NEW o \in gone' \ gone
  PROVE  \E p \in Procs : /\ handle[p].kind \in {"wipe", "purge"} /\ handle[p].doit
                          /\ KeyOf(o) \in handle[p].query
<1>1. CASE UNCHANGED <<storeVars, sessionVars, handleVars>>
  BY <1>1 DEF storeVars
<1>2. ASSUME NEW p \in Procs, NEW k \in rest[p], VisitWipe(p, k) \/ VisitPurge(p, k)
      PROVE  /\ handle[p].kind \in {"wipe", "purge"} /\ handle[p].doit
             /\ KeyOf(o) \in handle[p].query
  <2>1. o \in Stored(k) /\ handle[p].kind \in {"wipe", "purge"} /\ handle[p].doit
    BY <1>2 DEF VisitWipe, VisitPurge, Masked, storeVars
  <2>2. k \in handle[p].query
    BY DEF SessionInv, HandleGood, AskedGood
  <2> QED
    BY <2>1, <2>2 DEF Stored
<1>3. ASSUME NEW p \in Procs, NEW k \in rest[p], VisitList(p, k)
      PROVE  FALSE
  BY <1>3 DEF VisitList, storeVars
<1>4. ASSUME NEW p \in Procs, PublishNext(p)
      PROVE  FALSE
  BY <1>4 DEF PublishNext
<1>5. ASSUME NEW p \in Procs, NEW k \in Keys, NEW b \in Buffers, Archive(p, k, b) \/ Put(p, k, b)
      PROVE  FALSE
  BY <1>5 DEF Archive, Put, HandOver, storeVars
<1>6. ASSUME NEW p \in Procs,
             \/ Open(p) \/ Flush(p) \/ FlushFails(p) \/ Close(p)
             \/ FlushReturns(p) \/ CloseReturns(p) \/ Crash(p)
             \/ Calls(p) \/ RetrieveReturns(p) \/ HandleNext(p) \/ HandleStops(p) \/ Free(p)
      PROVE  FALSE
  BY <1>6, QuietStep DEF SessionInv
<1> QED
  BY <1>1, <1>2, <1>3, <1>4, <1>5, <1>6, NextCases

(* Data disappear only under the query of a wipe or purge that was told to  *)
(* do it, and never those of an accessible object.                          *)
THEOREM RemovalsAreAsked == Spec => RemovedAsAsked
<1> DEFINE Step == /\ \A o \in gone' \ gone :
                        \E p \in Procs : handle[p].kind \in {"wipe", "purge"} /\ handle[p].doit
                                        /\ KeyOf(o) \in handle[p].query
                   /\ \A k \in Keys : Newest(k)' \notin gone'
<1>1. SessionInv /\ SessionInv' /\ [Next]_vars => Step
  <2> SUFFICES ASSUME SessionInv, SessionInv', [Next]_vars
               PROVE  Step
    OBVIOUS
  <2>1. \A k \in Keys : Newest(k)' \notin gone'
    BY DEF SessionInv, StoreInv, LogGood
  <2> QED
    BY <2>1, RemovalStep
<1>2. SessionInv /\ SessionInv' /\ [Next]_vars => [Step]_vars
  BY <1>1
<1>3. Spec => [][Step]_vars
  BY <1>2, SessionsStayGood, PTL DEF Spec
<1> QED
  BY <1>3 DEF RemovedAsAsked

-----------------------------------------------------------------------------
(* The configuration: where the lines of texts come from. *)
Lines == Schemas \cup (UNION {ToSet(r) : r \in RootLists}) \cup {"null", "no such file"}

OpeningGood(p) ==
  /\ opening[p].step = "read" =>
       /\ file # Absent
       /\ opening[p].quiet => file \in Texts /\ opening[p].size = Len(file)
  /\ opening[p].step = "parsed" =>
       /\ \E t \in Texts \cup {Null} : IsPrefix(opening[p].text, t)
       /\ opening[p].quiet => opening[p].text \in Texts

ConfigInv ==
  /\ yaml \in Texts \cup {Null}
  /\ file \in Texts \cup {Null, Absent, << >>}
  /\ opening \in [Procs -> [step : {"idle", "read", "parsed"}, size : Nat, text : Seq(Lines),
                           quiet : BOOLEAN]]
  /\ \A p \in Procs : OpeningGood(p)

LEMMA JoinFacts ==
  ASSUME NEW S, NEW s \in S, NEW r \in Seq(S)
  PROVE  /\ <<s>> \o r \in Seq(S) /\ Head(<<s>> \o r) = s /\ Tail(<<s>> \o r) = r
         /\ Len(<<s>> \o r) = Len(r) + 1
<1>1. <<s>> \o r \in Seq(S) /\ Len(<<s>> \o r) = Len(r) + 1 /\ (<<s>> \o r)[1] = s
      /\ \A i \in 1..Len(r) : (<<s>> \o r)[i + 1] = r[i]
  OBVIOUS
<1>2. Tail(<<s>> \o r) \in Seq(S) /\ Len(Tail(<<s>> \o r)) = Len(r)
      /\ \A i \in 1..Len(r) : Tail(<<s>> \o r)[i] = r[i]
  BY <1>1, TailFacts
<1>3. Tail(<<s>> \o r) = r
  BY <1>2
<1> QED
  BY <1>1, <1>3

LEMMA TextsAre == \A t \in Texts : \E s \in Schemas, r \in RootLists : t = Text(s, r)
BY SMT DEF Texts

(* Texts are lines, and the parts of one are those it was made of. *)
LEMMA TextFacts ==
  ASSUME NEW s \in Schemas, NEW r \in RootLists
  PROVE  /\ Text(s, r) \in Seq(Lines) /\ Text(s, r) \in Texts
         /\ Head(Text(s, r)) = s /\ Tail(Text(s, r)) = r /\ Len(Text(s, r)) > 1
<1>1. r \in Seq(ToSet(r)) /\ Len(r) > 0 /\ ToSet(r) \subseteq Lines /\ s \in Lines
  BY RootsAssumption DEF Lines
<1>2. r \in Seq(Lines)
  BY <1>1
<1> QED
  <2>1. Text(s, r) \in Texts
    BY SMT DEF Texts
  <2> QED
    BY <1>1, <1>2, <2>1, JoinFacts DEF Text

LEMMA SingleLine ==
  ASSUME NEW S, NEW s \in S
  PROVE  <<s>> \in Seq(S)
  OBVIOUS

LEMMA TextsAreLines == \A t \in Texts \cup {Null, Absent, << >>} : t \in Seq(Lines)
<1>1. \A t \in Texts : t \in Seq(Lines)
  BY TextsAre, TextFacts
<1>2. "null" \in Lines /\ "no such file" \in Lines
  BY Zenon DEF Lines
<1>3. Null \in Seq(Lines) /\ Absent \in Seq(Lines)
  BY <1>2, SingleLine DEF Null, Absent
<1>4. << >> \in Seq(Lines)
  BY EmptySeq
<1> QED
  BY <1>1, <1>3, <1>4

LEMMA PrefixFacts ==
  ASSUME NEW S, NEW t \in Seq(S), NEW n \in Nat, n <= Len(t)
  PROVE  /\ SubSeq(t, 1, n) \in Seq(S) /\ IsPrefix(SubSeq(t, 1, n), t)
         /\ n = Len(t) => SubSeq(t, 1, n) = t
<1>1. /\ SubSeq(t, 1, n) \in Seq(S) /\ Len(SubSeq(t, 1, n)) = n
      /\ \A i \in 1..n : SubSeq(t, 1, n)[i] = t[i]
  OBVIOUS
<1> DEFINE u == SubSeq(t, 1, n)
<1>2. SubSeq(u, 1, n) \in Seq(S) /\ Len(SubSeq(u, 1, n)) = n
      /\ \A i \in 1..n : SubSeq(u, 1, n)[i] = u[i]
  BY <1>1
<1>3. SubSeq(u, 1, n) = u
  BY <1>1, <1>2
<1>4. IsPrefix(u, t)
  BY <1>1, <1>3 DEF IsPrefix
<1>5. ASSUME n = Len(t) PROVE u = t
  BY <1>1, <1>5
<1> QED
  BY <1>1, <1>4, <1>5

LEMMA ConfigEdits ==
  ASSUME ConfigInv,
         \/ \E t \in Texts : Load(t)
         \/ LoadFails \/ LoadFile \/ DumpDies
         \/ \E s \in Schemas : SetSchema(s)
         \/ \E r \in RootLists : SetRoots(r)
  PROVE  ConfigInv'
<1>1. UNCHANGED <<file, opening>>
  BY DEF Load, LoadFails, LoadFile, DumpDies, SetSchema, SetRoots
<1>2. yaml' \in Texts \cup {Null}
  <2>1. ASSUME NEW s \in Schemas, SetSchema(s) PROVE yaml' \in Texts
    <3>1. PICK x \in Schemas, r \in RootLists : yaml = Text(x, r)
      BY <2>1, TextsAre DEF ConfigInv, SetSchema
    <3>2. Tail(yaml) = r
      BY <3>1, TextFacts
    <3> QED
      BY <2>1, <3>2, TextFacts DEF SetSchema, Load
  <2>2. ASSUME NEW r \in RootLists, SetRoots(r) PROVE yaml' \in Texts
    <3>1. PICK s \in Schemas, x \in RootLists : yaml = Text(s, x)
      BY <2>2, TextsAre DEF ConfigInv, SetRoots
    <3>2. Head(yaml) = s
      BY <3>1, TextFacts
    <3> QED
      BY <2>2, <3>2, TextFacts DEF SetRoots, Load
  <2> QED
    BY <2>1, <2>2 DEF Load, LoadFails, LoadFile, DumpDies
<1>3. \A p \in Procs : OpeningGood(p)'
  BY <1>1 DEF ConfigInv, OpeningGood
<1> QED
  BY <1>1, <1>2, <1>3 DEF ConfigInv

LEMMA ConfigWrites ==
  ASSUME ConfigInv, NEW text \in Texts \cup {Null, << >>}, Write(text), UNCHANGED yaml
  PROVE  ConfigInv'
<1>1. file' = text /\ text # Absent
  <2>1. ASSUME NEW s \in Schemas, NEW r \in RootLists PROVE Text(s, r) # Absent
    <3>1. Len(Text(s, r)) > 1
      BY TextFacts
    <3>2. Len(Absent) = 1
      BY DEF Absent
    <3> QED
      BY <3>1, <3>2
  <2>2. Null # Absent
    BY DEF Null, Absent
  <2>3. << >> # Absent
    BY DEF Absent
  <2> QED
    BY <2>1, <2>2, <2>3, TextsAre DEF Write
<1>2. opening' \in [Procs -> [step : {"idle", "read", "parsed"}, size : Nat, text : Seq(Lines),
                            quiet : BOOLEAN]]
  BY DEF Write, ConfigInv
<1>3. ASSUME NEW p \in Procs PROVE OpeningGood(p)'
  <2>1. CASE opening[p].step = "read"
    <3>1. opening'[p].step = "read" /\ ~opening'[p].quiet
      BY <2>1 DEF Write, ConfigInv
    <3> QED
      BY <1>1, <3>1 DEF OpeningGood, Absent
  <2>2. CASE opening[p].step # "read"
    <3>1. opening'[p] = opening[p]
      BY <2>2 DEF Write
    <3> QED
      BY <2>2, <3>1 DEF ConfigInv, OpeningGood
  <2> QED
    BY <2>1, <2>2
<1> QED
  BY <1>1, <1>2, <1>3 DEF ConfigInv

LEMMA ConfigOpens ==
  ASSUME ConfigInv, NEW p \in Procs, OpenSize(p) \/ OpenRead(p) \/ OpenText(p) \/ OpenFails(p)
  PROVE  ConfigInv'
<1>1. PICK o : Opening(p, o) /\ opening'[p] = o
  BY DEF OpenSize, OpenRead, OpenText, OpenFails, Opening, ConfigInv
<1>2. UNCHANGED <<yaml, file>> /\ \A q \in Procs \ {p} : opening'[q] = opening[q]
  BY <1>1 DEF Opening, ConfigInv
<1>3. yaml \in Seq(Lines) /\ file \in Seq(Lines) /\ Len(file) \in Nat
  BY TextsAreLines DEF ConfigInv
<1>4. /\ opening'[p] \in [step : {"idle", "read", "parsed"}, size : Nat, text : Seq(Lines), quiet : BOOLEAN]
      /\ OpeningGood(p)'
  <2>1. CASE opening'[p] = NotOpening
    BY <2>1, EmptySeq DEF NotOpening, OpeningGood
  <2>2. CASE OpenSize(p) /\ opening'[p] # NotOpening
    <3>1. opening'[p] = [step |-> "read", size |-> Len(file), text |-> << >>, quiet |-> file \in Texts]
      BY <2>2 DEF OpenSize, Opening, ConfigInv
    <3> QED
      <4>1. << >> \in Seq(Lines) /\ file # Absent
        BY <2>2, EmptySeq DEF OpenSize
      <4>2. /\ opening'[p].step = "read" /\ opening'[p].size = Len(file)
            /\ opening'[p].quiet = (file \in Texts)
        BY <3>1
      <4>3. OpeningGood(p)'
        BY <1>2, <4>1, <4>2 DEF OpeningGood
      <4> QED
        BY <1>3, <3>1, <4>1, <4>3
  <2>3. CASE OpenRead(p) /\ opening'[p] # NotOpening
    <3>1. PICK n \in Nat : n = opening[p].size /\ n <= Len(file)
      BY <1>3, <2>3 DEF OpenRead, Opening, ConfigInv
    <3>2. opening'[p] = [opening[p] EXCEPT !.step = "parsed", !.text = SubSeq(file, 1, n)]
      BY <1>3, <2>3, <3>1 DEF OpenRead, Opening, ConfigInv
    <3>3. /\ SubSeq(file, 1, n) \in Seq(Lines) /\ IsPrefix(SubSeq(file, 1, n), file)
          /\ n = Len(file) => SubSeq(file, 1, n) = file
      BY <1>3, <3>1, PrefixFacts
    <3>4. /\ opening'[p].step = "parsed" /\ opening'[p].text = SubSeq(file, 1, n)
          /\ opening'[p].quiet = opening[p].quiet
          /\ opening'[p] \in [step : {"idle", "read", "parsed"}, size : Nat, text : Seq(Lines), quiet : BOOLEAN]
      BY <3>2, <3>3 DEF ConfigInv
    <3>5. opening[p].quiet => SubSeq(file, 1, n) \in Texts
      BY <2>3, <3>1, <3>3 DEF OpenRead, ConfigInv, OpeningGood
    <3>6. \E t \in Texts \cup {Null} : IsPrefix(SubSeq(file, 1, n), t)
      <4>1. CASE file \in Texts \cup {Null}
        BY <3>3, <4>1
      <4>2. CASE file = << >>
        <5>1. n = 0 /\ SubSeq(file, 1, n) = << >>
          BY <3>1, <3>3, <4>2, EmptySeq
        <5>2. Null \in Seq(Lines) /\ Len(Null) = 1
          BY TextsAreLines DEF Null
        <5>3. SubSeq(Null, 1, 0) = << >>
          BY <5>2
        <5>4. IsPrefix(<< >>, Null)
          BY <5>2, <5>3, EmptySeq DEF IsPrefix
        <5> QED
          BY <5>1, <5>4
      <4>3. file # Absent
        BY <2>3 DEF OpenRead, ConfigInv, OpeningGood
      <4> QED
        BY <4>1, <4>2, <4>3 DEF ConfigInv
    <3> QED
      BY <3>4, <3>5, <3>6 DEF OpeningGood
  <2>4. CASE OpenText(p) /\ opening'[p] # NotOpening
    <3>1. /\ opening'[p] = [step |-> "parsed", size |-> 0, text |-> yaml, quiet |-> TRUE]
          /\ yaml \in Texts
      BY <2>4 DEF OpenText, Opening, ConfigInv
    <3>2. IsPrefix(yaml, yaml)
      BY <1>3 DEF IsPrefix
    <3> QED
      BY <1>3, <3>1, <3>2 DEF OpeningGood
  <2> QED
    BY <2>1, <2>2, <2>3, <2>4 DEF OpenFails, Opening, ConfigInv
<1>5. ASSUME NEW q \in Procs \ {p} PROVE OpeningGood(q)'
  BY <1>2, <1>5 DEF ConfigInv, OpeningGood
<1>6. opening' \in [Procs -> [step : {"idle", "read", "parsed"}, size : Nat, text : Seq(Lines),
                            quiet : BOOLEAN]]
  BY <1>1, <1>2, <1>4 DEF ConfigInv, Opening
<1> QED
  BY <1>2, <1>4, <1>5, <1>6 DEF ConfigInv

(* A session is configured with a whole text unless the file was being      *)
(* written (Config.dump_file against construct_config), and never with two  *)
(* texts mixed.                                                             *)
THEOREM SessionsOpenWithAText == Spec => []OpenedIsWritten
<1>1. Init => ConfigInv
  <2> SUFFICES ASSUME Init PROVE ConfigInv
    OBVIOUS
  <2> QED
    BY EmptySeq DEF Init, ConfigInit, ConfigInv, OpeningGood, NotOpening
<1>2. ConfigInv /\ [Next]_vars => ConfigInv'
  <2> SUFFICES ASSUME ConfigInv, [Next]_vars PROVE ConfigInv'
    OBVIOUS
  <2>1. CASE UNCHANGED <<yaml, file, opening>>
    BY <2>1 DEF ConfigInv, OpeningGood
  <2>2. CASE ConfigNext
    <3>1. CASE DumpOpen
      BY <3>1, ConfigWrites DEF DumpOpen
    <3>2. CASE DumpClose
      BY <3>2, ConfigWrites DEF DumpClose, ConfigInv
    <3> QED
      BY <2>2, <3>1, <3>2, ConfigEdits, ConfigOpens DEF ConfigNext
  <2>3. ASSUME NEW p \in Procs, Open(p) PROVE ConfigInv'
    <3>1. UNCHANGED <<yaml, file>> /\ opening' = [opening EXCEPT ![p] = NotOpening]
      BY <2>3 DEF Open
    <3>2. \A q \in Procs : opening'[q] = NotOpening \/ opening'[q] = opening[q]
      BY <3>1 DEF ConfigInv
    <3>3. \A q \in Procs : OpeningGood(q)'
      BY <3>1, <3>2 DEF ConfigInv, OpeningGood, NotOpening
    <3> QED
      BY <3>1, <3>3, EmptySeq DEF ConfigInv, NotOpening
  <2>4. ASSUME NEW p \in Procs,
               \/ Flush(p) \/ FlushFails(p) \/ Close(p) \/ FlushReturns(p) \/ CloseReturns(p)
               \/ Crash(p) \/ PublishNext(p)
               \/ \E k \in Keys, b \in Buffers : Archive(p, k, b) \/ Put(p, k, b)
        PROVE  UNCHANGED configVars
    BY <2>4 DEF Flush, FlushFails, Close, Begin, FlushReturns, CloseReturns, Returns, Crash,
                PublishNext, Archive, Put, HandOver
  <2>5. ASSUME NEW p \in Procs, Calls(p) \/ RetrieveReturns(p) \/ HandleNext(p) \/ HandleStops(p) \/ Free(p)
        PROVE  UNCHANGED configVars
    BY <2>5 DEF Calls, Call, RetrieveReturns, HandleNext, HandleStops, Free
  <2>6. ASSUME NEW p \in Procs, NEW k \in rest[p], VisitList(p, k) \/ VisitWipe(p, k) \/ VisitPurge(p, k)
        PROVE  UNCHANGED configVars
    BY <2>6 DEF VisitList, VisitWipe, VisitPurge, Visits
  <2>7. UNCHANGED configVars => UNCHANGED <<yaml, file, opening>>
    BY DEF configVars
  <2>8. \/ UNCHANGED configVars \/ ConfigNext
        \/ \E p \in Procs :
             \/ Open(p) \/ Flush(p) \/ FlushFails(p) \/ Close(p) \/ FlushReturns(p) \/ CloseReturns(p)
             \/ Crash(p) \/ PublishNext(p)
             \/ \E k \in Keys, b \in Buffers : Archive(p, k, b) \/ Put(p, k, b)
             \/ Calls(p) \/ RetrieveReturns(p) \/ HandleNext(p) \/ HandleStops(p) \/ Free(p)
             \/ \E k \in rest[p] : VisitList(p, k) \/ VisitWipe(p, k) \/ VisitPurge(p, k)
    BY DEF Next, vars, Answer, Search, Iterate, Visit
  <2> QED
    BY <2>1, <2>2, <2>3, <2>4, <2>5, <2>6, <2>7, <2>8
<1>3. ConfigInv => OpenedIsWritten
  BY DEF ConfigInv, OpeningGood, OpenedIsWritten
<1> QED
  BY <1>1, <1>2, <1>3, PTL DEF Spec

-----------------------------------------------------------------------------
(* What the types add to SessionInv: the bound on writes, and that a wipe   *)
(* or purge hands out nothing.                                              *)
WritesBound == Len(writes) <= MaxWrites
OnlyReadersFind == \A p \in Procs : ~Reads(p) => found[p] = {} /\ given[p] = {}

TypeInv == SessionInv /\ WritesBound /\ OnlyReadersFind

LEMMA WritesBoundKept ==
  ASSUME StoreInv, StoreInv', WritesBound, [Next]_vars
  PROVE  WritesBound'
<1>1. CASE UNCHANGED writes
  BY <1>1 DEF WritesBound
<1>2. ASSUME NEW p \in Procs, NEW k \in Keys, NEW b \in Buffers, Archive(p, k, b) \/ Put(p, k, b)
      PROVE  WritesBound'
  <2>1. PICK bytes, length \in Nat : HandOver(p, k, bytes, length)
    BY <1>2, HandOverRecord DEF StoreInv
  <2>2. [key |-> k, bytes |-> bytes, kept |-> length] \in Records
    BY DEF Records
  <2>3. Len(writes') = Len(writes) + 1 /\ Len(writes) \in Nat /\ Len(writes) < MaxWrites
    BY <2>1, <2>2, AppendFacts DEF HandOver, StoreInv, Types
  <2> QED
    BY <2>3, SessionAssumption DEF WritesBound
<1>3. UNCHANGED <<storeVars, sessionVars, handleVars>> => UNCHANGED writes
  BY DEF sessionVars
<1>4. ASSUME NEW p \in Procs, NEW k \in rest[p], VisitList(p, k) \/ VisitWipe(p, k) \/ VisitPurge(p, k)
      PROVE  UNCHANGED writes
  BY <1>4 DEF VisitList, VisitWipe, VisitPurge, Visits, sessionVars
<1>5. ASSUME NEW p \in Procs, PublishNext(p) PROVE UNCHANGED writes
  BY <1>5 DEF PublishNext
<1> QED
  BY <1>1, <1>2, <1>3, <1>4, <1>5, NextCases, QuietStep

(* A handle of a process is changed by steps of that process only.          *)
LEMMA OthersHandles ==
  ASSUME Types, [Next]_vars
  PROVE  \/ UNCHANGED handleVars
         \/ \E p \in Procs :
              /\ \/ Crash(p) \/ Calls(p) \/ RetrieveReturns(p) \/ HandleNext(p)
                 \/ HandleStops(p) \/ Free(p) \/ Visit(p)
              /\ \A q \in Procs : q # p =>
                   UNCHANGED <<handle[q], rest[q], found[q], given[q]>>
<1>1. ASSUME NEW p \in Procs,
             \/ Open(p) \/ Flush(p) \/ FlushFails(p) \/ Close(p)
             \/ FlushReturns(p) \/ CloseReturns(p) \/ PublishNext(p)
             \/ \E k \in Keys, b \in Buffers : Archive(p, k, b) \/ Put(p, k, b)
      PROVE  UNCHANGED handleVars
  BY <1>1 DEF Open, Flush, FlushFails, Close, Begin, FlushReturns, CloseReturns, Returns,
              PublishNext, Archive, Put, HandOver
<1>2. ASSUME NEW p \in Procs,
             \/ Crash(p) \/ Calls(p) \/ RetrieveReturns(p) \/ HandleNext(p)
             \/ HandleStops(p) \/ Free(p) \/ Visit(p)
      PROVE  \A q \in Procs : q # p => UNCHANGED <<handle[q], rest[q], found[q], given[q]>>
  <2>1. CASE Crash(p) \/ Free(p)
    BY <2>1 DEF Crash, Free, Types
  <2>2. CASE Calls(p)
    BY <2>2 DEF Calls, Call, Types
  <2>3. CASE RetrieveReturns(p) \/ HandleNext(p) \/ HandleStops(p)
    BY <2>3 DEF RetrieveReturns, HandleNext, HandleStops, Types
  <2>4. CASE Visit(p)
    BY <2>4 DEF Visit, VisitList, VisitWipe, VisitPurge, Visits, Types
  <2> QED
    BY <1>2, <2>1, <2>2, <2>3, <2>4
<1> QED
  BY <1>1, <1>2, NextCases DEF Visit

LEMMA OnlyReadersKept ==
  ASSUME SessionInv, OnlyReadersFind, [Next]_vars
  PROVE  OnlyReadersFind'
<1>1. Types /\ \A q \in Procs : HandleGood(q)
  BY DEF SessionInv, StoreInv
<1>2. CASE UNCHANGED handleVars
  BY <1>2 DEF OnlyReadersFind, Reads, handleVars
<1>3. ASSUME NEW p \in Procs,
             \/ Crash(p) \/ Calls(p) \/ RetrieveReturns(p) \/ HandleNext(p)
             \/ HandleStops(p) \/ Free(p) \/ Visit(p)
      PROVE  ~Reads(p)' => found'[p] = {} /\ given'[p] = {}
  <2>1. CASE Crash(p) \/ Free(p)
    BY <1>1, <2>1 DEF Crash, Free, Types
  <2>2. CASE Calls(p)
    <3>1. handle[p] = NoHandle /\ UNCHANGED <<found, given>>
      BY <2>2 DEF Calls, Call
    <3> QED
      BY <1>1, <3>1 DEF HandleGood, AskedGood
  <2>3. CASE RetrieveReturns(p) \/ HandleStops(p)
    <3>1. UNCHANGED <<found, given>> /\ handle[p] \in Handles
      BY <1>1, <2>3, HandleFacts DEF RetrieveReturns, HandleStops
    <3>2. handle'[p].kind = handle[p].kind
      BY <1>1, <2>3, <3>1 DEF RetrieveReturns, HandleStops, Types, Handles
    <3> QED
      BY <3>1, <3>2 DEF OnlyReadersFind, Reads
  <2>4. CASE HandleNext(p)
    BY <2>4 DEF HandleNext, OnlyReadersFind, Reads
  <2>5. CASE Visit(p)
    <3>1. PICK k \in rest[p] : VisitList(p, k) \/ VisitWipe(p, k) \/ VisitPurge(p, k)
      BY <2>5 DEF Visit
    <3>2. CASE VisitList(p, k)
      BY <3>2 DEF VisitList, Visits, Reads
    <3>3. CASE VisitWipe(p, k) \/ VisitPurge(p, k)
      <4>1. ~Reads(p) /\ Visits(p, k, {})
        BY <3>3 DEF VisitWipe, VisitPurge, Reads
      <4> QED
        BY <1>1, <4>1 DEF Visits, OnlyReadersFind, Types
    <3> QED
      BY <3>1, <3>2, <3>3
  <2> QED
    BY <1>3, <2>1, <2>2, <2>3, <2>4, <2>5
<1>4. ASSUME NEW p \in Procs, UNCHANGED <<handle[p], rest[p], found[p], given[p]>>
      PROVE  ~Reads(p)' => found'[p] = {} /\ given'[p] = {}
  BY <1>4 DEF OnlyReadersFind, Reads
<1> QED
  BY <1>1, <1>2, <1>3, <1>4, OthersHandles DEF OnlyReadersFind

LEMMA SeqOver ==
  ASSUME NEW S, NEW T, NEW s \in Seq(S), \A i \in 1..Len(s) : s[i] \in T
  PROVE  s \in Seq(T)
  OBVIOUS

LEMMA TypeInvGives == TypeInv => TypeOK
<1> SUFFICES ASSUME TypeInv PROVE TypeOK
  OBVIOUS
<1>1. /\ Types /\ LogGood /\ SessionsGood /\ \A p \in Procs : HandleGood(p)
      /\ WritesBound /\ OnlyReadersFind
  BY DEF TypeInv, SessionInv, StoreInv
<1>2. Published \subseteq Objects
  BY <1>1, PublishedIs
<1>3. log \in Seq([key : Keys, object : 0..MaxWrites])
  <2>1. ASSUME NEW i \in 1..Len(log) PROVE log[i] \in [key : Keys, object : 0..MaxWrites]
    <3>1. log[i] \in Entries
      BY <1>1, ItemFacts DEF Types
    <3>2. log[i].object # 0 => log[i].object \in 1..Len(writes)
      BY <1>1 DEF LogGood, EntriesGood, Objects
    <3>3. log[i].object \in 0..MaxWrites
      BY <1>1, <3>1, <3>2, SessionAssumption DEF WritesBound, Types, Entries
    <3> QED
      BY <3>1, <3>3 DEF Entries
  <2> QED
    BY <1>1, <2>1, SeqOver DEF Types
<1>4. gone \subseteq Objects /\ promised \subseteq Objects
  BY <1>1, <1>2 DEF LogGood, SessionsGood
<1>5. pending \in [Procs -> Seq(Objects)]
  <2>1. ASSUME NEW p \in Procs PROVE pending[p] \in Seq(Objects)
    <3>1. pending[p] \in Seq(Nat) /\ \A i \in 1..Len(pending[p]) : pending[p][i] \in Objects
      BY <1>1 DEF Types, SessionsGood
    <3> QED
      BY <3>1, SeqOver
  <2> QED
    BY <1>1, <2>1 DEF Types
<1>6. mine \in [Procs -> SUBSET Objects]
  <2>1. ASSUME NEW p \in Procs PROVE mine[p] \subseteq Objects
    BY <1>1, <1>2 DEF SessionsGood
  <2> QED
    BY <1>1, <2>1 DEF Types
<1>7. /\ found \in [Procs -> SUBSET Objects]
      /\ given \in [Procs -> SUBSET Objects]
  <2>1. ASSUME NEW p \in Procs PROVE found[p] \subseteq Objects /\ given[p] \subseteq Objects
    BY <1>1, <1>2 DEF HandleGood, ItemsGood, OnlyReadersFind
  <2> QED
    BY <1>1, <2>1 DEF Types
<1>8. \A p \in Procs : handle[p] = NoHandle \/ handle[p].kind \in {"retrieve", "list", "wipe", "purge"}
  BY <1>1, HandleFacts DEF Handles
<1> QED
  BY <1>1, <1>3, <1>4, <1>5, <1>6, <1>7, <1>8 DEF TypeOK, Types, Records

LEMMA TypesStayGood == Spec => []TypeInv
<1>1. Init => TypeInv
  <2> SUFFICES ASSUME Init PROVE TypeInv
    OBVIOUS
  <2>1. Len(writes) = 0 /\ MaxWrites \in Nat
    BY EmptySeq, SessionAssumption DEF Init
  <2> QED
    BY <2>1, SessionInvInit DEF Init, TypeInv, WritesBound, OnlyReadersFind
<1>2. TypeInv /\ [Next]_vars => TypeInv'
  <2> SUFFICES ASSUME TypeInv, [Next]_vars PROVE TypeInv'
    OBVIOUS
  <2>1. SessionInv' /\ StoreInv /\ StoreInv'
    BY SessionInvNext DEF TypeInv, SessionInv
  <2> QED
    BY <2>1, WritesBoundKept, OnlyReadersKept DEF TypeInv
<1> QED
  BY <1>1, <1>2, PTL DEF Spec

(* The types of sessions, store and handles.                                *)
THEOREM SessionsTypeCorrect == Spec => []TypeOK
  BY TypesStayGood, TypeInvGives, PTL

-----------------------------------------------------------------------------
(* The length archive() passes is wrong only for items of several bytes:    *)
(* where every buffer is of bytes, as in the tests, what is kept is what    *)
(* was handed over.                                                         *)
THEOREM BytesAreKeptWhole ==
  ASSUME \A b \in Buffers : b.size = 1
  PROVE  Spec => []ArchivedIsWhole
<1> DEFINE Whole == StoreInv /\ ArchivedIsWhole
<1>1. Init => Whole
  <2> SUFFICES ASSUME Init PROVE Whole
    OBVIOUS
  <2>1. \A o : o \notin Objects
    BY EmptySeq DEF Init, Objects
  <2> QED
    BY <2>1, StoreInvInit DEF ArchivedIsWhole
<1>2. Whole /\ [Next]_vars => Whole'
  <2> SUFFICES ASSUME Whole, [Next]_vars PROVE Whole'
    OBVIOUS
  <2>1. StoreInv' /\ Grows
    BY StoreInvNext
  <2>2. CASE UNCHANGED writes
    BY <2>1, <2>2 DEF ArchivedIsWhole, Objects
  <2>3. ASSUME NEW p \in Procs, NEW k \in Keys, NEW b \in Buffers, Archive(p, k, b) \/ Put(p, k, b)
        PROVE  ArchivedIsWhole'
    <3>1. b.items \in Nat /\ b.items * b.size = b.items
      BY SessionAssumption
    <3>2. HandOver(p, k, b.items, b.items)
      BY <2>3, <3>1 DEF Archive, Put
    <3>3. [key |-> k, bytes |-> b.items, kept |-> b.items] \in Records
      BY <3>1 DEF Records
    <3>4. /\ Len(writes') = Len(writes) + 1 /\ Len(writes) \in Nat
          /\ writes'[Len(writes) + 1] = [key |-> k, bytes |-> b.items, kept |-> b.items]
          /\ \A o \in 1..Len(writes) : writes'[o] = writes[o]
      BY <3>2, <3>3, AppendFacts DEF HandOver, StoreInv, Types
    <3> QED
      BY <3>4 DEF ArchivedIsWhole, Objects
  <2>4. UNCHANGED <<storeVars, sessionVars, handleVars>> => UNCHANGED writes
    BY DEF sessionVars
  <2>5. ASSUME NEW p \in Procs, NEW k \in rest[p], VisitList(p, k) \/ VisitWipe(p, k) \/ VisitPurge(p, k)
        PROVE  UNCHANGED writes
    BY <2>5 DEF VisitList, VisitWipe, VisitPurge, Visits, sessionVars
  <2>6. ASSUME NEW p \in Procs, PublishNext(p) PROVE UNCHANGED writes
    BY <2>6 DEF PublishNext
  <2> QED
    BY <2>1, <2>2, <2>3, <2>4, <2>5, <2>6, NextCases, QuietStep
<1> QED
  BY <1>1, <1>2, PTL DEF Spec

-----------------------------------------------------------------------------
(* What a query still has to do until the end of its iteration: visit the   *)
(* rest of its keys, hand out what it found, return and stop.               *)
Ahead(p) == 2 * Cardinality(rest[p]) + Cardinality(found[p])

QueryLeft(p) ==
  CASE handle[p].phase = "call" -> Ahead(p) + 2
    [] handle[p].phase = "open" -> Ahead(p) + 1
    [] OTHER -> 0

(* Every step of a call brings it nearer to its end, and nothing but a new  *)
(* call of the same process sends it further.                               *)
QueryGoesOn(p) ==
  /\ Search(p) \/ Iterate(p) => QueryLeft(p)' < QueryLeft(p)
  /\ QueryLeft(p)' > QueryLeft(p) => Calls(p)

LEMMA AheadFacts ==
  ASSUME IsFiniteSet(Keys), TypeInv, NEW p \in Procs
  PROVE  /\ IsFiniteSet(rest[p]) /\ IsFiniteSet(found[p])
         /\ Cardinality(rest[p]) \in Nat /\ Cardinality(found[p]) \in Nat
         /\ Ahead(p) \in Nat /\ QueryLeft(p) \in Nat
<1>1. rest[p] \subseteq Keys /\ found[p] \subseteq 1..Len(writes) /\ Len(writes) \in Nat
  BY TypeInvGives DEF TypeOK, Objects
<1>2. IsFiniteSet(1..Len(writes))
  BY <1>1, FS_Interval
<1>3. IsFiniteSet(rest[p]) /\ IsFiniteSet(found[p])
  BY <1>1, <1>2, FS_Subset
<1>4. Cardinality(rest[p]) \in Nat /\ Cardinality(found[p]) \in Nat
  BY <1>3, FS_CardinalityType
<1>5. Ahead(p) \in Nat
  BY <1>4 DEF Ahead
<1> QED
  BY <1>3, <1>4, <1>5 DEF QueryLeft

LEMMA VisitIsNearer ==
  ASSUME IsFiniteSet(Keys), TypeInv, TypeInv', NEW p \in Procs, Visit(p)
  PROVE  QueryLeft(p)' < QueryLeft(p)
<1>1. PICK k \in rest[p] : VisitList(p, k) \/ VisitWipe(p, k) \/ VisitPurge(p, k)
  BY DEF Visit
<1>2. /\ Types /\ AskedGood(p)
      /\ IsFiniteSet(rest[p]) /\ IsFiniteSet(found[p])
      /\ Cardinality(rest[p]) \in Nat /\ Cardinality(found[p]) \in Nat
  BY AheadFacts DEF TypeInv, SessionInv, StoreInv, HandleGood
<1>3. handle[p].phase \in {"call", "open"} /\ handle' = handle
  BY <1>1, <1>2, HandleFacts
  DEF AskedGood, Handles, VisitList, VisitWipe, VisitPurge, Visits, NoHandle
<1>4. Cardinality(rest'[p]) = Cardinality(rest[p]) - 1
  <2>1. rest'[p] = rest[p] \ {k}
    BY <1>1, <1>2 DEF VisitList, VisitWipe, VisitPurge, Visits, Types
  <2> QED
    BY <1>2, <2>1, FS_RemoveElement
<1>5. Cardinality(found'[p]) \in {Cardinality(found[p]), Cardinality(found[p]) + 1}
  <2>1. found'[p] \in {found[p], found[p] \cup {Newest(k)}}
    <3>1. found'[p] = found[p] \cup ({Newest(k)} \ {0}) \/ found'[p] = found[p] \cup {}
      BY <1>1, <1>2 DEF VisitList, VisitWipe, VisitPurge, Visits, Types
    <3>2. {Newest(k)} \ {0} \in {{}, {Newest(k)}} /\ found[p] \cup {} = found[p]
      OBVIOUS
    <3> QED
      BY <3>1, <3>2
  <2> QED
    BY <1>2, <2>1, FS_AddElement
<1>6. /\ Ahead(p)' = 2 * (Cardinality(rest[p]) - 1) + Cardinality(found'[p])
      /\ Ahead(p) = 2 * Cardinality(rest[p]) + Cardinality(found[p])
  BY <1>4 DEF Ahead
<1>7. Ahead(p)' < Ahead(p)
  BY <1>2, <1>5, <1>6
<1>8. Ahead(p) \in Nat /\ Ahead(p)' \in Int
  BY <1>2, <1>5, <1>6
<1> QED
  BY <1>3, <1>7, <1>8 DEF QueryLeft

LEMMA IterateIsNearer ==
  ASSUME IsFiniteSet(Keys), TypeInv, NEW p \in Procs,
         RetrieveReturns(p) \/ HandleNext(p) \/ HandleStops(p)
  PROVE  QueryLeft(p)' < QueryLeft(p)
<1>1. /\ Types /\ IsFiniteSet(rest[p]) /\ IsFiniteSet(found[p])
      /\ Cardinality(rest[p]) \in Nat /\ Cardinality(found[p]) \in Nat /\ Ahead(p) \in Nat
  BY AheadFacts DEF TypeInv, SessionInv, StoreInv
<1>2. CASE RetrieveReturns(p)
  <2>1. /\ handle[p].phase = "call" /\ handle[p] \in Handles /\ UNCHANGED <<rest, found>>
        /\ handle'[p] = [handle[p] EXCEPT !.phase = "open", !.end = Len(log)]
    BY <1>1, <1>2, HandleFacts DEF RetrieveReturns, Types
  <2>2. handle'[p].phase = "open" /\ Ahead(p)' = Ahead(p)
    BY <2>1 DEF Handles, Ahead
  <2> QED
    BY <1>1, <2>1, <2>2 DEF QueryLeft
<1>3. CASE HandleStops(p)
  <2>1. /\ handle[p].phase = "open" /\ handle[p] \in Handles
        /\ handle'[p] = [handle[p] EXCEPT !.phase = "stopped"]
    BY <1>1, <1>3, HandleFacts DEF HandleStops, Types
  <2>2. handle'[p].phase = "stopped"
    BY <2>1 DEF Handles
  <2> QED
    BY <1>1, <2>1, <2>2 DEF QueryLeft
<1>4. CASE HandleNext(p)
  <2>1. PICK o \in found[p] : found' = [found EXCEPT ![p] = @ \ {o}]
    BY <1>4 DEF HandleNext
  <2>2. /\ handle[p].phase = "open" /\ UNCHANGED <<handle, rest>>
        /\ found'[p] = found[p] \ {o}
    BY <1>1, <1>4, <2>1 DEF HandleNext, Types
  <2>3. Cardinality(found'[p]) = Cardinality(found[p]) - 1
    BY <1>1, <2>2, FS_RemoveElement
  <2>4. Ahead(p)' = Ahead(p) - 1
    BY <1>1, <2>2, <2>3 DEF Ahead
  <2> QED
    BY <1>1, <2>2, <2>4 DEF QueryLeft
<1> QED
  BY <1>2, <1>3, <1>4

LEMMA QueryStep ==
  ASSUME IsFiniteSet(Keys), TypeInv, TypeInv', [Next]_vars, NEW p \in Procs,
         QueryLeft(p)' \in Nat
  PROVE  QueryGoesOn(p)
<1>1. Types /\ QueryLeft(p) \in Nat
  BY AheadFacts DEF TypeInv, SessionInv, StoreInv
<1>2. Search(p) \/ Iterate(p) => QueryLeft(p)' < QueryLeft(p)
  BY VisitIsNearer, IterateIsNearer DEF Search, Iterate
<1>3. ASSUME UNCHANGED <<handle[p], rest[p], found[p], given[p]>>
      PROVE  QueryLeft(p)' = QueryLeft(p)
  BY <1>3 DEF QueryLeft, Ahead
<1>4. CASE Crash(p) \/ Free(p)
  <2>1. handle'[p] = NoHandle
    BY <1>1, <1>4 DEF Crash, Free, Types
  <2>2. QueryLeft(p)' = 0
    BY <2>1 DEF QueryLeft, NoHandle
  <2> QED
    BY <1>1, <1>2, <2>2 DEF QueryGoesOn
<1>5. CASE UNCHANGED handleVars
  BY <1>1, <1>2, <1>3, <1>5 DEF QueryGoesOn, handleVars
<1>6. CASE \E q \in Procs \ {p} : \A r \in Procs : r # q =>
             UNCHANGED <<handle[r], rest[r], found[r], given[r]>>
  BY <1>1, <1>2, <1>3, <1>6 DEF QueryGoesOn
<1>7. CASE Calls(p)
  BY <1>2, <1>7 DEF QueryGoesOn
<1>8. CASE Search(p) \/ Iterate(p)
  BY <1>1, <1>2, <1>8 DEF QueryGoesOn
<1> QED
  BY <1>1, <1>4, <1>5, <1>6, <1>7, <1>8, OthersHandles DEF Search, Iterate

(* A query over n keys visits each once, hands out at most n objects,       *)
(* returns and stops: every step of its own brings it nearer to its end, and*)
(* what other processes archive, wipe or purge meanwhile never sends it back*)
(* (Dasi.cc: retrieve drains fdb5's iterator, list and wipe follow it).     *)
THEOREM QueriesTakeFewSteps ==
  ASSUME IsFiniteSet(Keys)
  PROVE  Spec => [](\A p \in Procs : QueryLeft(p) \in Nat) /\ [][\A p \in Procs : QueryGoesOn(p)]_vars
<1> DEFINE Left == \A p \in Procs : QueryLeft(p) \in Nat
<1>1. TypeInv => Left
  BY AheadFacts
<1>2. TypeInv /\ TypeInv' /\ Left' /\ [Next]_vars => \A p \in Procs : QueryGoesOn(p)
  BY QueryStep
<1> QED
  BY <1>1, <1>2, TypesStayGood, PTL DEF Spec
=============================================================================

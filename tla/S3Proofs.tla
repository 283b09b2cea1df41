------------------------------ MODULE S3Proofs ------------------------------
(***************************************************************************)
(* Proofs about S3Protocol for any number of clients, keys and contents,   *)
(* whether or not the service may refuse requests.                         *)
(***************************************************************************)
EXTENDS S3Protocol, TLAPS

Running == [kind : {"rename", "stat"}, key : Keys, to : Keys, seen : Data, touched : BOOLEAN]

Types ==
  /\ bucket \in BOOLEAN
  /\ store \in [Keys -> Data \cup {None}]
  /\ conn \in [Clients -> {"closed", "creating", "open", "denied"}]
  /\ op \in [Clients -> {Idle} \cup Running]
  /\ answer \in [Clients -> Answers]
  /\ temps \in [Clients -> 0..MaxTemps]

(* A method is entered by a connected client, and a connection means there  *)
(* is a bucket.                                                             *)
Connected ==
  \A c \in Clients : /\ Busy(c) => conn[c] = "open"
                     /\ conn[c] = "open" => bucket

(* Until another client writes one of its keys, a method can rely on what   *)
(* its first request saw or did.                                            *)
Undisturbed ==
  \A c \in Clients : Busy(c) =>
    /\ ~op[c].touched => /\ store[op[c].key] = op[c].seen
                         /\ store[op[c].to] = op[c].seen
    /\ op[c].kind = "rename" => op[c].key # op[c].to
    /\ op[c].kind = "stat" => temps[c] < MaxTemps

S3Inv == Types /\ Connected /\ Undisturbed

LEMMA IdleIsNotRunning ==
  \A o \in {Idle} \cup Running : (o.kind # "idle" <=> o \in Running) /\ (o.kind = "idle" <=> o = Idle)
  BY DEF Idle, Running

LEMMA InitInv == Init => S3Inv
<1> SUFFICES ASSUME Init PROVE S3Inv
  OBVIOUS
<1>1. [kind |-> "none"] \in Answers /\ 0 \in 0..MaxTemps
  BY ServiceAssumption DEF Answers
<1>2. Types
  BY <1>1 DEF Init, Types
<1>3. \A c \in Clients : ~Busy(c) /\ conn[c] = "closed"
  BY DEF Init, Busy, Idle
<1> QED
  BY <1>2, <1>3 DEF S3Inv, Connected, Undisturbed

(* A client's own part of what a method relies on. *)
Relies(c) ==
  Busy(c) =>
    /\ ~op[c].touched => /\ store[op[c].key] = op[c].seen
                         /\ store[op[c].to] = op[c].seen
    /\ op[c].kind = "rename" => op[c].key # op[c].to
    /\ op[c].kind = "stat" => temps[c] < MaxTemps

(* What a write of key k by client c does to another client's method. *)
LEMMA TouchFacts ==
  ASSUME Types, NEW c \in Clients, NEW k \in Keys
  PROVE  /\ Touch(c, op, k) \in [Clients -> {Idle} \cup Running]
         /\ Touch(c, op, k)[c] = op[c]
         /\ \A e \in Clients \ {c} :
              LET new == Touch(c, op, k)[e]
              IN  /\ new.kind = op[e].kind
                  /\ new.kind # "idle" =>
                       /\ new.key = op[e].key /\ new.to = op[e].to /\ new.seen = op[e].seen
                       /\ ~new.touched => ~op[e].touched /\ k # op[e].key /\ k # op[e].to
<1>1. \A e \in Clients : op[e] \in {Idle} \cup Running
  BY DEF Types
<1>2. ASSUME NEW o \in Running
      PROVE  LET new == [o EXCEPT !.touched = TRUE]
             IN  /\ new \in Running /\ new.kind = o.kind /\ new.key = o.key /\ new.to = o.to
                 /\ new.seen = o.seen /\ new.touched = TRUE
  BY DEF Running
<1>3. Touch(c, op, k)[c] = op[c]
  BY DEF Touch
<1>4. ASSUME NEW e \in Clients \ {c}
      PROVE  LET new == Touch(c, op, k)[e]
             IN  /\ new \in {Idle} \cup Running /\ new.kind = op[e].kind
                 /\ new.kind # "idle" =>
                      /\ new.key = op[e].key /\ new.to = op[e].to /\ new.seen = op[e].seen
                      /\ ~new.touched => ~op[e].touched /\ k # op[e].key /\ k # op[e].to
  <2>1. CASE op[e].kind # "idle" /\ k \in {op[e].key, op[e].to}
    <3>1. op[e] \in Running /\ Touch(c, op, k)[e] = [op[e] EXCEPT !.touched = TRUE]
      BY <1>1, <2>1, IdleIsNotRunning DEF Touch
    <3> QED
      BY <1>2, <3>1
  <2>2. CASE ~(op[e].kind # "idle" /\ k \in {op[e].key, op[e].to})
    <3>1. Touch(c, op, k)[e] = op[e]
      BY <2>2 DEF Touch
    <3> QED
      BY <1>1, <2>2, <3>1
  <2> QED
    BY <2>1, <2>2
<1>5. Touch(c, op, k) = [e \in Clients |-> Touch(c, op, k)[e]]
  BY DEF Touch
<1> QED
  BY <1>1, <1>3, <1>4, <1>5

-----------------------------------------------------------------------------
(* A step in which client c writes the value d to key k; the method of c    *)
(* becomes o.                                                               *)
LEMMA WriteKeeps ==
  ASSUME S3Inv, NEW c \in Clients, NEW k \in Keys, NEW d \in Data \cup {None},
         NEW o \in {Idle} \cup Running,
         store' = [store EXCEPT ![k] = d], op' = [Touch(c, op, k) EXCEPT ![c] = o],
         conn[c] = "open", UNCHANGED <<bucket, conn, temps>>, answer' \in [Clients -> Answers],
         Relies(c)'
  PROVE  S3Inv'
<1>1. Types'
  BY TouchFacts DEF S3Inv, Types
<1>2. op'[c] = o /\ \A e \in Clients \ {c} : op'[e] = Touch(c, op, k)[e]
  BY TouchFacts DEF S3Inv
<1>3. Connected'
  BY <1>2, TouchFacts DEF S3Inv, Connected, Busy
<1>4. ASSUME NEW e \in Clients \ {c} PROVE Relies(e)'
  <2> SUFFICES ASSUME op'[e].kind # "idle"
               PROVE  /\ ~op'[e].touched => /\ store'[op'[e].key] = op'[e].seen
                                            /\ store'[op'[e].to] = op'[e].seen
                      /\ op'[e].kind = "rename" => op'[e].key # op'[e].to
                      /\ op'[e].kind = "stat" => temps'[e] < MaxTemps
    BY DEF Relies, Busy
  <2>1. /\ op'[e].kind = op[e].kind /\ op'[e].key = op[e].key /\ op'[e].to = op[e].to
        /\ op'[e].seen = op[e].seen
        /\ ~op'[e].touched => ~op[e].touched /\ k # op[e].key /\ k # op[e].to
    BY <1>2, TouchFacts DEF S3Inv
  <2>2. Relies(e) /\ Busy(e) /\ op[e] \in Running
    BY <2>1, IdleIsNotRunning DEF S3Inv, Undisturbed, Relies, Busy, Types
  <2>3. op[e].key \in Keys /\ op[e].to \in Keys
    BY <2>2 DEF Running
  <2> QED
    BY <2>1, <2>2, <2>3 DEF Relies, S3Inv, Types
<1>5. Undisturbed'
  BY <1>4 DEF Undisturbed, Relies
<1> QED
  BY <1>1, <1>3, <1>5 DEF S3Inv

(* A step in which client c does not write: only its method changes. *)
LEMMA LookKeeps ==
  ASSUME S3Inv, NEW c \in Clients, NEW o \in {Idle} \cup Running,
         UNCHANGED <<store, bucket, conn>>, op' = [op EXCEPT ![c] = o],
         o.kind # "idle" => conn[c] = "open",
         answer' \in [Clients -> Answers], temps' \in [Clients -> 0..MaxTemps],
         \A e \in Clients \ {c} : temps'[e] = temps[e],
         Relies(c)'
  PROVE  S3Inv'
<1>1. Types'
  BY DEF S3Inv, Types
<1>2. op'[c] = o /\ \A e \in Clients \ {c} : op'[e] = op[e]
  BY DEF S3Inv, Types
<1>3. Connected'
  BY <1>2 DEF S3Inv, Connected, Busy
<1>4. \A e \in Clients \ {c} : Relies(e)'
  BY <1>2 DEF S3Inv, Undisturbed, Relies, Busy
<1>5. Undisturbed'
  BY <1>4 DEF Undisturbed, Relies
<1> QED
  BY <1>1, <1>3, <1>5 DEF S3Inv

LEMMA AnswerTypes ==
  ASSUME Types, NEW c \in Clients
  PROVE  /\ \A kind \in {"none", "ok", "yes", "no", "SourceNotFound", "ServiceUnavailable"} :
              Returns(c, kind) => answer' \in [Clients -> Answers] /\ answer'[c] = [kind |-> kind]
         /\ \A a, b \in Data : ReturnsAs(c, Stat(a, b)) =>
              answer' \in [Clients -> Answers] /\ answer'[c] = Stat(a, b)
<1>1. \A kind \in {"none", "ok", "yes", "no", "SourceNotFound", "ServiceUnavailable"} :
        [kind |-> kind] \in Answers
  BY DEF Answers
<1>2. \A a, b \in Data : Stat(a, b) \in Answers
  BY DEF Answers, Stat
<1> QED
  BY <1>1, <1>2 DEF Types, Returns, ReturnsAs

-----------------------------------------------------------------------------
LEMMA ConnectStep ==
  ASSUME S3Inv, NEW c \in Clients, HeadBucket(c) \/ HeadBucketRefused(c) \/ CreateBucket(c)
  PROVE  S3Inv'
<1>1. /\ UNCHANGED <<store, op, answer, temps>> /\ conn[c] # "open"
      /\ \A e \in Clients \ {c} : conn'[e] = conn[e]
      /\ conn' \in [Clients -> {"closed", "creating", "open", "denied"}]
      /\ bucket' \in BOOLEAN /\ (bucket => bucket') /\ (conn'[c] = "open" => bucket')
  BY DEF HeadBucket, HeadBucketRefused, CreateBucket, serviceVars, S3Inv, Types
<1>2. ~Busy(c)
  BY <1>1 DEF S3Inv, Connected
<1>3. Types' /\ Undisturbed'
  BY <1>1 DEF S3Inv, Types, Undisturbed, Busy
<1>4. Connected'
  BY <1>1, <1>2 DEF S3Inv, Connected, Busy
<1> QED
  BY <1>3, <1>4 DEF S3Inv

LEMMA ReadStep ==
  ASSUME S3Inv, NEW c \in Clients, NEW k \in Keys, Exists(c, k) \/ Get(c, k) \/ PutFails(c)
  PROVE  S3Inv'
<1>1. UNCHANGED <<store, bucket, conn, op, temps>> /\ answer' \in [Clients -> Answers]
  BY AnswerTypes DEF Exists, Get, PutFails, Unavailable, serviceVars, S3Inv
<1>2. Types' /\ Connected' /\ Undisturbed'
  BY <1>1 DEF S3Inv, Types, Connected, Undisturbed, Busy
<1> QED
  BY <1>2 DEF S3Inv

LEMMA PutDeleteStep ==
  ASSUME S3Inv, NEW c \in Clients, NEW k \in Keys,
         Delete(c, k) \/ \E d \in Data : Put(c, k, d)
  PROVE  S3Inv'
<1>1. ~Busy(c) /\ conn[c] = "open" /\ UNCHANGED <<bucket, conn, temps>>
  BY DEF Delete, Put, Ready
<1>2. answer' \in [Clients -> Answers]
  BY AnswerTypes DEF Delete, Put, Unavailable, S3Inv
<1>3. op[c] = Idle
  BY <1>1, IdleIsNotRunning DEF Busy, S3Inv, Types
<1>4. CASE \E d \in Data \cup {None} : store' = [store EXCEPT ![k] = d] /\ op' = Touch(c, op, k)
  <2>1. op' = [Touch(c, op, k) EXCEPT ![c] = Idle] /\ op'[c] = Idle
    <3>1. Touch(c, op, k)[c] = Idle /\ Touch(c, op, k) \in [Clients -> {Idle} \cup Running]
      BY <1>3, TouchFacts DEF S3Inv
    <3> QED
      BY <1>4, <3>1
  <2>2. Relies(c)'
    BY <2>1 DEF Relies, Busy, Idle
  <2> QED
    BY <1>1, <1>2, <1>4, <2>1, <2>2, WriteKeeps
<1>5. CASE UNCHANGED <<store, op>>
  BY <1>1, <1>2, <1>5 DEF S3Inv, Types, Connected, Undisturbed, Busy
<1> QED
  BY <1>4, <1>5 DEF Delete, Put

LEMMA RenameCopyStep ==
  ASSUME S3Inv, NEW c \in Clients, NEW k \in Keys, NEW to \in Keys, RenameCopy(c, k, to)
  PROVE  S3Inv'
<1>1. ~Busy(c) /\ conn[c] = "open" /\ UNCHANGED <<bucket, conn, temps>>
  BY DEF RenameCopy, Ready
<1>2. CASE /\ store[k] # None /\ to # k /\ store' = [store EXCEPT ![to] = store[k]]
           /\ op' = [Touch(c, op, to) EXCEPT ![c] = Op("rename", k, to, store[k])]
           /\ UNCHANGED answer
  <2> DEFINE o == Op("rename", k, to, store[k])
  <2>1. store[k] \in Data
    BY <1>2 DEF S3Inv, Types
  <2>2. /\ o \in Running /\ o.kind = "rename" /\ o.key = k /\ o.to = to /\ o.seen = store[k]
    BY <2>1 DEF Op, Running
  <2>3. op'[c] = o
    BY <1>2, TouchFacts DEF S3Inv
  <2>4. Relies(c)'
    BY <1>2, <2>2, <2>3 DEF Relies, Busy, S3Inv, Types
  <2>5. answer' \in [Clients -> Answers]
    BY <1>2 DEF S3Inv, Types
  <2> HIDE DEF o
  <2>6. op' = [Touch(c, op, to) EXCEPT ![c] = o]
    BY <1>2 DEF o
  <2> QED
    BY <1>1, <1>2, <2>1, <2>2, <2>4, <2>5, <2>6, WriteKeeps
<1>3. CASE Unavailable(c) /\ UNCHANGED <<store, op>>
  <2>1. answer' \in [Clients -> Answers]
    BY <1>3, AnswerTypes DEF Unavailable, S3Inv
  <2> QED
    BY <1>1, <1>3, <2>1 DEF S3Inv, Types, Connected, Undisturbed, Busy
<1> QED
  BY <1>2, <1>3 DEF RenameCopy

LEMMA RenameDeleteStep ==
  ASSUME S3Inv, NEW c \in Clients, RenameDelete(c)
  PROVE  S3Inv'
<1>1. /\ op[c].kind = "rename" /\ Busy(c) /\ conn[c] = "open"
      /\ UNCHANGED <<bucket, conn, temps>> /\ op[c] \in Running
  BY IdleIsNotRunning DEF RenameDelete, Busy, S3Inv, Connected, Types
<1>2. op[c].key \in Keys /\ answer' \in [Clients -> Answers]
  <2>1. op[c].key \in Keys
    BY <1>1 DEF Running
  <2> QED
    BY <2>1, AnswerTypes DEF RenameDelete, Unavailable, S3Inv
<1>3. CASE /\ store' = [store EXCEPT ![op[c].key] = None]
           /\ op' = [Touch(c, op, op[c].key) EXCEPT ![c] = Idle]
  <2>1. Touch(c, op, op[c].key) \in [Clients -> {Idle} \cup Running]
    BY <1>2, TouchFacts DEF S3Inv
  <2>2. op'[c] = Idle
    BY <1>3, <2>1
  <2>3. Relies(c)'
    BY <2>2 DEF Relies, Busy, Idle
  <2> QED
    BY <1>1, <1>2, <1>3, <2>3, WriteKeeps
<1>4. CASE op' = [op EXCEPT ![c] = Idle] /\ UNCHANGED store
  <2>1. op'[c] = Idle /\ Idle.kind = "idle"
    BY <1>4 DEF S3Inv, Types, Idle
  <2>2. Relies(c)'
    BY <2>1 DEF Relies, Busy
  <2>3. temps' \in [Clients -> 0..MaxTemps] /\ \A e \in Clients \ {c} : temps'[e] = temps[e]
    BY <1>1 DEF S3Inv, Types
  <2> QED
    BY <1>1, <1>2, <1>4, <2>1, <2>2, <2>3, LookKeeps
<1> QED
  BY <1>3, <1>4 DEF RenameDelete

LEMMA StatHeadStep ==
  ASSUME S3Inv, NEW c \in Clients, NEW k \in Keys, StatHead(c, k)
  PROVE  S3Inv'
<1>1. /\ ~Busy(c) /\ conn[c] = "open" /\ temps[c] < MaxTemps
      /\ UNCHANGED <<store, bucket, conn, temps>>
  BY DEF StatHead, Ready, serviceVars
<1>2. CASE /\ store[k] # None /\ op' = [op EXCEPT ![c] = Op("stat", k, k, store[k])]
           /\ UNCHANGED answer
  <2> DEFINE o == Op("stat", k, k, store[k])
  <2>1. store[k] \in Data
    BY <1>2 DEF S3Inv, Types
  <2>2. /\ o \in Running /\ o.kind = "stat" /\ o.key = k /\ o.to = k /\ o.seen = store[k]
    BY <2>1 DEF Op, Running
  <2>3. op'[c] = o
    BY <1>2 DEF S3Inv, Types
  <2>4. Relies(c)'
    BY <1>1, <2>2, <2>3 DEF Relies, Busy
  <2>5. /\ answer' \in [Clients -> Answers] /\ temps' \in [Clients -> 0..MaxTemps]
        /\ \A e \in Clients \ {c} : temps'[e] = temps[e]
    BY <1>1, <1>2 DEF S3Inv, Types
  <2> HIDE DEF o
  <2>6. op' = [op EXCEPT ![c] = o]
    BY <1>2 DEF o
  <2> QED
    BY <1>1, <2>2, <2>4, <2>5, <2>6, LookKeeps
<1>3. CASE UNCHANGED op /\ (Returns(c, "SourceNotFound") \/ Unavailable(c))
  <2>1. answer' \in [Clients -> Answers]
    BY <1>3, AnswerTypes DEF Unavailable, S3Inv
  <2> QED
    BY <1>1, <1>3, <2>1 DEF S3Inv, Types, Connected, Undisturbed, Busy
<1> QED
  BY <1>2, <1>3 DEF StatHead

LEMMA StatDownloadStep ==
  ASSUME S3Inv, NEW c \in Clients, StatDownload(c)
  PROVE  S3Inv'
<1>1. /\ op[c].kind = "stat" /\ Busy(c) /\ temps[c] < MaxTemps /\ op[c] \in Running
      /\ UNCHANGED <<store, bucket, conn>> /\ op' = [op EXCEPT ![c] = Idle]
  BY IdleIsNotRunning DEF StatDownload, Busy, S3Inv, Undisturbed, Types, serviceVars
<1>2. op[c].key \in Keys /\ op[c].seen \in Data
  BY <1>1 DEF Running
<1>3. answer' \in [Clients -> Answers]
  <2>1. store[op[c].key] # None => store[op[c].key] \in Data
    BY <1>2 DEF S3Inv, Types
  <2> QED
    BY <1>2, <2>1, AnswerTypes DEF StatDownload, Unavailable, S3Inv
<1>4. temps' \in [Clients -> 0..MaxTemps] /\ \A e \in Clients \ {c} : temps'[e] = temps[e]
  <2>1. temps[c] + 1 \in 0..MaxTemps
    BY <1>1, ServiceAssumption DEF S3Inv, Types
  <2> QED
    BY <2>1 DEF StatDownload, S3Inv, Types
<1>5. op'[c] = Idle /\ Idle.kind = "idle"
  BY <1>1 DEF S3Inv, Types, Idle
<1>6. Relies(c)'
  BY <1>5 DEF Relies, Busy
<1> QED
  BY <1>1, <1>3, <1>4, <1>5, <1>6, LookKeeps

LEMMA S3Inductive == S3Inv /\ [Next]_vars => S3Inv'
<1> SUFFICES ASSUME S3Inv, [Next]_vars PROVE S3Inv'
  OBVIOUS
<1>1. CASE UNCHANGED vars
  BY <1>1 DEF vars, serviceVars, S3Inv, Types, Connected, Undisturbed, Busy
<1>2. CASE \E c \in Clients : PutFails(c)
  <2>1. PICK c \in Clients : PutFails(c)
    BY <1>2
  <2>2. UNCHANGED <<store, bucket, conn, op, temps>> /\ answer' \in [Clients -> Answers]
    BY <2>1, AnswerTypes DEF PutFails, Unavailable, serviceVars, S3Inv
  <2> QED
    BY <2>2 DEF S3Inv, Types, Connected, Undisturbed, Busy
<1> QED
  BY <1>1, <1>2, ConnectStep, ReadStep, PutDeleteStep, RenameCopyStep, RenameDeleteStep,
     StatHeadStep, StatDownloadStep DEF Next

LEMMA S3Always == Spec => []S3Inv
  BY InitInv, S3Inductive, PTL DEF Spec

-----------------------------------------------------------------------------
(* The types of the service and of the protocol's clients; the temporary    *)
(* files stay within their bound.                                           *)
THEOREM S3TypeCorrect == Spec => []TypeOK
<1>1. S3Inv => TypeOK
  BY DEF S3Inv, Types, Connected, TypeOK, Running
<1> QED
  BY <1>1, S3Always, PTL

(* A rename moves: an object disappears from its key only by a delete of    *)
(* that key, or at the end of a rename that left it under the other key,    *)
(* unless another client wrote to one of the two since.                     *)
THEOREM S3DataOnlyMoves == Spec => DataOnlyMoves
<1>1. ASSUME S3Inv, Next, NEW k \in Keys, store[k] # None, store'[k] = None
      PROVE  \E c \in Clients :
               \/ Delete(c, k)
               \/ /\ op[c].kind = "rename" /\ op[c].key = k
                  /\ op[c].touched \/ store'[op[c].to] = store[k]
  <2>1. store'[k] # store[k] /\ store \in [Keys -> Data \cup {None}] /\ None \notin Data
    BY <1>1, ServiceAssumption DEF S3Inv, Types
  <2>2. CASE \E c \in Clients : \E b \in Keys : Delete(c, b)
    BY <2>1, <2>2 DEF Delete
  <2>3. CASE \E c \in Clients : \E b \in Keys, d \in Data : Put(c, b, d)
    BY <1>1, <2>1, <2>3 DEF Put
  <2>4. CASE \E c \in Clients : \E b \in Keys, to \in Keys : RenameCopy(c, b, to)
    BY <1>1, <2>1, <2>4 DEF RenameCopy
  <2>5. CASE \E c \in Clients : RenameDelete(c)
    <3>1. PICK c \in Clients : RenameDelete(c)
      BY <2>5
    <3>2. op[c].kind = "rename" /\ op[c] \in Running /\ Busy(c)
      BY <1>1, <3>1, IdleIsNotRunning DEF RenameDelete, Busy, S3Inv, Types
    <3>3. op[c].key \in Keys /\ op[c].to \in Keys /\ op[c].key # op[c].to
      BY <1>1, <3>2 DEF Running, S3Inv, Undisturbed
    <3>4. store' = [store EXCEPT ![op[c].key] = None]
      BY <2>1, <3>1 DEF RenameDelete
    <3>5. op[c].key = k /\ store'[op[c].to] = store[op[c].to]
      BY <1>1, <2>1, <3>3, <3>4
    <3>6. ~op[c].touched => store[op[c].key] = op[c].seen /\ store[op[c].to] = op[c].seen
      BY <1>1, <3>2 DEF S3Inv, Undisturbed
    <3> QED
      BY <3>2, <3>5, <3>6
  <2>6. CASE UNCHANGED store
    BY <2>1, <2>6
  <2> QED
    BY <1>1, <2>2, <2>3, <2>4, <2>5, <2>6 DEF Next, HeadBucket, HeadBucketRefused,
       CreateBucket, Exists, Get, PutFails, StatHead, StatDownload, serviceVars
<1>2. S3Inv /\ [Next]_vars =>
        [\A k \in Keys : store[k] # None /\ store'[k] = None =>
           \E c \in Clients :
             \/ Delete(c, k)
             \/ /\ op[c].kind = "rename" /\ op[c].key = k
                /\ op[c].touched \/ store'[op[c].to] = store[k]]_vars
  BY <1>1
<1> QED
  BY <1>2, S3Always, PTL DEF Spec, DataOnlyMoves

(* stat() answers size and checksum of one object and leaves no temporary   *)
(* file, unless another client wrote the key between its two requests or    *)
(* the service refused the second.                                          *)
THEOREM S3StatSound == Spec => StatSound
<1>1. ASSUME S3Inv, Next, NEW c \in Clients, op[c].kind = "stat", ~op'[c].kind = "stat",
             ~op[c].touched
      PROVE  \/ answer'[c] = Stat(op[c].seen, op[c].seen) /\ temps' = temps
             \/ MayRefuse /\ answer'[c].kind = "ServiceUnavailable"
  <2>1. /\ Busy(c) /\ ~Ready(c) /\ op[c] \in Running
    BY <1>1, IdleIsNotRunning DEF Busy, Ready, S3Inv, Types
  <2>2. op[c].key \in Keys /\ op[c].seen \in Data /\ store[op[c].key] = op[c].seen
    BY <1>1, <2>1 DEF Running, S3Inv, Undisturbed
  <2>3. StatDownload(c)
    <3>1. ASSUME NEW e \in Clients \ {c}, NEW k \in Keys PROVE Touch(e, op, k)[c].kind = op[c].kind
      BY <1>1, TouchFacts DEF S3Inv
    <3>2. ASSUME NEW e \in Clients \ {c}, NEW o, NEW k \in Keys,
                 op' = [Touch(e, op, k) EXCEPT ![e] = o] \/ op' = [op EXCEPT ![e] = o]
          PROVE  FALSE
      <4>1. op'[c] = Touch(e, op, k)[c] \/ op'[c] = op[c]
        BY <1>1, <3>2, TouchFacts DEF S3Inv, Types
      <4> QED
        BY <1>1, <3>1, <4>1
    <3>3. ASSUME NEW e \in Clients \ {c}, op[e].kind = "rename" PROVE op[e].key \in Keys
      <4>1. op[e] \in Running
        BY <1>1, <3>3, IdleIsNotRunning DEF S3Inv, Types
      <4> QED
        BY <4>1 DEF Running
    <3>4. ASSUME NEW e \in Clients, NEW k \in Keys, NEW d \in Data, NEW to \in Keys,
                 \/ HeadBucket(e) \/ HeadBucketRefused(e) \/ CreateBucket(e) \/ Exists(e, k)
                 \/ Get(e, k) \/ PutFails(e) \/ Delete(e, k) \/ Put(e, k, d)
          PROVE  FALSE
      BY <1>1, <2>1, <3>1, <3>4 DEF HeadBucket, HeadBucketRefused, CreateBucket, Exists, Get,
         PutFails, Delete, Put, serviceVars
    <3>5. ASSUME NEW e \in Clients, NEW k \in Keys, NEW to \in Keys,
                 RenameCopy(e, k, to) \/ StatHead(e, k)
          PROVE  FALSE
      <4>1. Ready(e) /\ e # c
        BY <2>1, <3>5 DEF RenameCopy, StatHead
      <4>2. \/ UNCHANGED op
            \/ \E o \in {Op("rename", k, to, store[k]), Op("stat", k, k, store[k])} :
                 op' = [Touch(e, op, to) EXCEPT ![e] = o] \/ op' = [op EXCEPT ![e] = o]
        BY <3>5 DEF RenameCopy, StatHead
      <4>3. CASE UNCHANGED op
        BY <1>1, <4>3
      <4>4. CASE \E o \in {Op("rename", k, to, store[k]), Op("stat", k, k, store[k])} :
                   op' = [Touch(e, op, to) EXCEPT ![e] = o] \/ op' = [op EXCEPT ![e] = o]
        <5>1. PICK o : op' = [Touch(e, op, to) EXCEPT ![e] = o] \/ op' = [op EXCEPT ![e] = o]
          BY <4>4
        <5> QED
          BY <3>2, <4>1, <5>1
      <4> QED
        BY <4>2, <4>3, <4>4
    <3>6. ASSUME NEW e \in Clients, RenameDelete(e)
          PROVE  FALSE
      <4>1. e # c /\ op[e].kind = "rename"
        BY <1>1, <3>6 DEF RenameDelete
      <4>2. op' = [Touch(e, op, op[e].key) EXCEPT ![e] = Idle] \/ op' = [op EXCEPT ![e] = Idle]
        BY <3>6 DEF RenameDelete
      <4> QED
        BY <1>1, <3>2, <3>3, <4>1, <4>2
    <3>7. ASSUME NEW e \in Clients \ {c}, StatDownload(e)
          PROVE  FALSE
      BY <1>1, <3>2, <3>7 DEF StatDownload
    <3>8. Keys # {} /\ Data # {}
      BY <2>2
    <3> QED
      BY <1>1, <3>4, <3>5, <3>6, <3>7, <3>8 DEF Next
  <2>4. None \notin Data
    BY ServiceAssumption
  <2>5. CASE ReturnsAs(c, Stat(op[c].seen, store[op[c].key])) /\ UNCHANGED temps
    BY <1>1, <2>2, <2>5, AnswerTypes DEF S3Inv
  <2>6. CASE MayRefuse /\ Unavailable(c)
    <3>1. answer'[c] = [kind |-> "ServiceUnavailable"]
      BY <1>1, <2>6, AnswerTypes DEF S3Inv, Unavailable
    <3> QED
      BY <2>6, <3>1
  <2> QED
    BY <2>2, <2>3, <2>4, <2>5, <2>6 DEF StatDownload
<1>2. S3Inv /\ [Next]_vars =>
        [\A c \in Clients :
           op[c].kind = "stat" /\ ~op'[c].kind = "stat" /\ ~op[c].touched =>
             \/ answer'[c] = Stat(op[c].seen, op[c].seen) /\ temps' = temps
             \/ MayRefuse /\ answer'[c].kind = "ServiceUnavailable"]_vars
  BY <1>1
<1> QED
  BY <1>2, S3Always, PTL DEF Spec, StatSound
=============================================================================

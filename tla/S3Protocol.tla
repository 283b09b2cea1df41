----------------------------- MODULE S3Protocol -----------------------------
(***************************************************************************)
(* rucio_s3boto3.Default, the storage protocol Rucio transfers the objects *)
(* of the backend with.  Every method is one or two requests to a shared   *)
(* S3 service; several clients run at once, so other requests fall between *)
(* the two of connect(), of rename() and of stat().  A request is atomic,  *)
(* and may be refused (ClientError) when MayRefuse is TRUE.                *)
(***************************************************************************)
EXTENDS Naturals, FiniteSets

CONSTANTS Clients,
          Keys,        \* object keys, as _pfn_to_key makes them
          Data,        \* contents of objects
          None,        \* no object
          MayRefuse,   \* whether the service may refuse a request it could serve
          MaxTemps     \* bound on the temporary files a client may leave

ASSUME ServiceAssumption ==
  None \notin Data /\ MayRefuse \in BOOLEAN /\ MaxTemps \in Nat

VARIABLES
  bucket,     \* the bucket exists
  store,      \* the content of every key
  conn,       \* per client: how far connect() got
  op,         \* per client: the method it is inside of
  answer,     \* per client: what its last method returned or raised
  temps       \* per client: files of NamedTemporaryFile(delete=False) not unlinked

serviceVars == <<bucket, store>>
vars == <<serviceVars, conn, op, answer, temps>>

(* A method between its requests.  seen is what the first one saw or moved; *)
(* touched is history: another client wrote one of its keys meanwhile.      *)
Idle == [kind |-> "idle"]
Op(kind, key, to, seen) ==
  [kind |-> kind, key |-> key, to |-> to, seen |-> seen, touched |-> FALSE]

(* What a method returns or raises. *)
Answers ==
  [kind : {"none", "ok", "yes", "no", "SourceNotFound", "ServiceUnavailable"}]
    \cup [kind : {"stat"}, size : Data, sum : Data]
Stat(size, sum) == [kind |-> "stat", size |-> size, sum |-> sum]

Busy(c) == op[c].kind # "idle"
Ready(c) == conn[c] = "open" /\ ~Busy(c)

(* What the operations of the others make of the write of key k by c. *)
Touch(c, ops, k) ==
  [e \in Clients |-> IF e # c /\ ops[e].kind # "idle" /\ k \in {ops[e].key, ops[e].to}
                     THEN [ops[e] EXCEPT !.touched = TRUE] ELSE ops[e]]

ReturnsAs(c, value) == answer' = [answer EXCEPT ![c] = value]
Returns(c, kind) == ReturnsAs(c, [kind |-> kind])
Unavailable(c) == Returns(c, "ServiceUnavailable")

-----------------------------------------------------------------------------
(* connect(): head_bucket, and create_bucket when there is none.  Whatever  *)
(* create_bucket raises, that the bucket exists by now included, is         *)
(* reported as RSEAccessDenied.                                             *)
HeadBucket(c) ==
  /\ conn[c] \in {"closed", "denied"}
  /\ conn' = [conn EXCEPT ![c] = IF bucket THEN "open" ELSE "creating"]
  /\ UNCHANGED <<serviceVars, op, answer, temps>>

HeadBucketRefused(c) ==
  /\ MayRefuse /\ conn[c] \in {"closed", "denied"}
  /\ conn' = [conn EXCEPT ![c] = "denied"]
  /\ UNCHANGED <<serviceVars, op, answer, temps>>

CreateBucket(c) ==
  /\ conn[c] = "creating"
  /\ \/ ~bucket /\ bucket' = TRUE /\ conn' = [conn EXCEPT ![c] = "open"]
     \/ (bucket \/ MayRefuse) /\ conn' = [conn EXCEPT ![c] = "denied"] /\ UNCHANGED bucket
  /\ UNCHANGED <<store, op, answer, temps>>

-----------------------------------------------------------------------------
(* exists(): "404" and "NoSuchKey" are the answer no, the rest is raised. *)
Exists(c, k) ==
  /\ Ready(c)
  /\ \/ Returns(c, IF store[k] # None THEN "yes" ELSE "no")
     \/ MayRefuse /\ Unavailable(c)
  /\ UNCHANGED <<serviceVars, conn, op, temps>>

Get(c, k) ==
  /\ Ready(c)
  /\ \/ Returns(c, IF store[k] # None THEN "ok" ELSE "SourceNotFound")
     \/ MayRefuse /\ Unavailable(c)
  /\ UNCHANGED <<serviceVars, conn, op, temps>>

(* put(): one upload_file, after the test that the local file exists. *)
Put(c, k, d) ==
  /\ Ready(c)
  /\ store' = [store EXCEPT ![k] = d]
  /\ op' = Touch(c, op, k)
  /\ Returns(c, "ok")
  /\ UNCHANGED <<bucket, conn, temps>>

PutFails(c) ==
  /\ Ready(c)
  /\ \/ Returns(c, "SourceNotFound")          \* no such local file
     \/ MayRefuse /\ Unavailable(c)
  /\ UNCHANGED <<serviceVars, conn, op, temps>>

(* delete(): deleting a key without an object succeeds too. *)
Delete(c, k) ==
  /\ Ready(c)
  /\ \/ /\ store' = [store EXCEPT ![k] = None]
        /\ op' = Touch(c, op, k)
        /\ Returns(c, "ok")
     \/ MayRefuse /\ Unavailable(c) /\ UNCHANGED <<store, op>>
  /\ UNCHANGED <<bucket, conn, temps>>

-----------------------------------------------------------------------------
(* Mutant of RenameCopy: the copy is refused and the delete sent all the    *)
(* same.                                                                    *)
RenameCopyUnchecked(c, k, to) ==
  /\ Ready(c) /\ store[k] # None
  /\ \/ /\ to # k
        /\ store' = [store EXCEPT ![to] = store[k]]
        /\ op' = [Touch(c, op, to) EXCEPT ![c] = Op("rename", k, to, store[k])]
     \/ /\ to = k \/ MayRefuse
        /\ op' = [op EXCEPT ![c] = Op("rename", k, to, store[k])] /\ UNCHANGED store
  /\ UNCHANGED <<bucket, conn, answer, temps>>

(* rename(): copy_object, then delete_object.  The service refuses to copy  *)
(* what is not there and to copy an object onto itself.                     *)
RenameCopy(c, k, to) ==
  /\ Ready(c)
  /\ \/ /\ store[k] # None /\ to # k
        /\ store' = [store EXCEPT ![to] = store[k]]
        /\ op' = [Touch(c, op, to) EXCEPT ![c] = Op("rename", k, to, store[k])]
        /\ UNCHANGED answer
     \/ /\ store[k] = None \/ to = k \/ MayRefuse
        /\ Unavailable(c) /\ UNCHANGED <<store, op>>
  /\ UNCHANGED <<bucket, conn, temps>>

RenameDelete(c) ==
  /\ op[c].kind = "rename"
  /\ \/ /\ store' = [store EXCEPT ![op[c].key] = None]
        /\ op' = [Touch(c, op, op[c].key) EXCEPT ![c] = Idle]
        /\ Returns(c, "ok")
     \/ /\ MayRefuse /\ op' = [op EXCEPT ![c] = Idle]
        /\ Unavailable(c) /\ UNCHANGED store
  /\ UNCHANGED <<bucket, conn, temps>>

-----------------------------------------------------------------------------
(* stat(): head_object gives the size. *)
StatHead(c, k) ==
  /\ Ready(c) /\ temps[c] < MaxTemps
  /\ \/ /\ store[k] # None
        /\ op' = [op EXCEPT ![c] = Op("stat", k, k, store[k])]
        /\ UNCHANGED answer
     \/ store[k] = None /\ Returns(c, "SourceNotFound") /\ UNCHANGED op
     \/ MayRefuse /\ Unavailable(c) /\ UNCHANGED op
  /\ UNCHANGED <<serviceVars, conn, temps>>

(* Mutant of StatDownload: the temporary file is unlinked on the way of the *)
(* failure only.                                                            *)
StatKeepsFile(c) ==
  /\ op[c].kind = "stat"
  /\ op' = [op EXCEPT ![c] = Idle]
  /\ \/ /\ store[op[c].key] # None
        /\ ReturnsAs(c, Stat(op[c].seen, store[op[c].key]))
        /\ temps' = [temps EXCEPT ![c] = @ + 1]
     \/ /\ \/ store[op[c].key] = None /\ Returns(c, "SourceNotFound")
           \/ MayRefuse /\ Unavailable(c)
        /\ UNCHANGED temps
  /\ UNCHANGED <<serviceVars, conn>>

(* The checksum is that of a file downloaded by a second request, which is  *)
(* unlinked unless that request failed.                                     *)
StatDownload(c) ==
  /\ op[c].kind = "stat"
  /\ op' = [op EXCEPT ![c] = Idle]
  /\ \/ /\ store[op[c].key] # None
        /\ ReturnsAs(c, Stat(op[c].seen, store[op[c].key]))
        /\ UNCHANGED temps
     \/ /\ \/ store[op[c].key] = None /\ Returns(c, "SourceNotFound")
           \/ MayRefuse /\ Unavailable(c)
        /\ temps' = [temps EXCEPT ![c] = @ + 1]
  /\ UNCHANGED <<serviceVars, conn>>

-----------------------------------------------------------------------------
Init ==
  /\ bucket \in BOOLEAN
  /\ store = [k \in Keys |-> None]
  /\ conn = [c \in Clients |-> "closed"]
  /\ op = [c \in Clients |-> Idle]
  /\ answer = [c \in Clients |-> [kind |-> "none"]]
  /\ temps = [c \in Clients |-> 0]

Next ==
  \E c \in Clients :
    \/ HeadBucket(c) \/ HeadBucketRefused(c) \/ CreateBucket(c)
    \/ \E k \in Keys :
         \/ Exists(c, k) \/ Get(c, k) \/ Delete(c, k) \/ StatHead(c, k)
         \/ \E d \in Data : Put(c, k, d)
         \/ \E to \in Keys : RenameCopy(c, k, to)
    \/ PutFails(c) \/ RenameDelete(c) \/ StatDownload(c)

Spec == Init /\ [][Next]_vars

-----------------------------------------------------------------------------
(* The variables keep their types; a method is entered by a client that is  *)
(* connected, and objects are in a bucket that exists.                      *)
TypeOK ==
  /\ bucket \in BOOLEAN
  /\ store \in [Keys -> Data \cup {None}]
  /\ conn \in [Clients -> {"closed", "creating", "open", "denied"}]
  /\ \A c \in Clients :
       /\ \/ op[c] = Idle
          \/ op[c] \in [kind : {"rename", "stat"}, key : Keys, to : Keys, seen : Data,
                        touched : BOOLEAN]
       /\ Busy(c) => conn[c] = "open"
       /\ conn[c] = "open" => bucket
  /\ answer \in [Clients -> Answers]
  /\ temps \in [Clients -> 0..MaxTemps]

(* A rename moves: whenever the object of a key disappears, either a client *)
(* deletes that very key, or a rename is at its end and the object it       *)
(* removes is there under another key, unless another client wrote to       *)
(* either key since the copy.  A rename that fails half way removes nothing *)
(* (rename, copy_object followed by delete_object).                         *)
DataOnlyMoves ==
  [][\A k \in Keys : store[k] # None /\ store'[k] = None =>
       \E c \in Clients :
         \/ Delete(c, k)
         \/ /\ op[c].kind = "rename" /\ op[c].key = k
            /\ op[c].touched \/ store'[op[c].to] = store[k]]_vars

(* stat() answers the size and the checksum of one and the same object and  *)
(* leaves no temporary file, unless another client wrote the key between    *)
(* its two requests or the service refused the second (stat, head_object    *)
(* and download_file).                                                      *)
StatSound ==
  [][\A c \in Clients :
       op[c].kind = "stat" /\ ~op'[c].kind = "stat" /\ ~op[c].touched =>
         \/ answer'[c] = Stat(op[c].seen, op[c].seen) /\ temps' = temps
         \/ MayRefuse /\ answer'[c].kind = "ServiceUnavailable"]_vars
=============================================================================

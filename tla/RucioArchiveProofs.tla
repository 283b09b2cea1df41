------------------------- MODULE RucioArchiveProofs -------------------------
(***************************************************************************)
(* Proofs about RucioArchive for any clients, keys and derived names, name *)
(* collisions included, and about the readers of RucioSystem next to them. *)
(***************************************************************************)
EXTENDS RucioSystem, FiniteSetTheorems, TLAPS

-----------------------------------------------------------------------------
(* A client in the metadata loop owns its DID: the data are its own, and    *)
(* every item of its key is attached, or still to come, or in its errors.   *)
OwnsDID(c) ==
  /\ Exists(Name(c))
  /\ dids[Name(c)].data = job[c].data
  /\ job[c].key \subseteq dids[Name(c)].metadata \cup todo[c] \cup errors[c]

(* The outcome of a finished archive() is settled on the server. *)
Settled(c) ==
  /\ outcome[c].how = "uploaded" =>
       /\ Exists(Name(c))
       /\ dids[Name(c)].data = job[c].data
       /\ job[c].key \subseteq dids[Name(c)].metadata
  /\ outcome[c].how = "unattached" =>
       /\ Exists(Name(c))
       /\ dids[Name(c)].data = job[c].data
       /\ job[c].key \ dids[Name(c)].metadata \subseteq outcome[c].missing

(* What is local to a client after any step of its own. *)
Local(c) ==
  /\ pc[c] # "idle" => outcome[c] = Pending
  /\ pc[c] = "metadata" => OwnsDID(c)
  /\ todo[c] \subseteq job[c].key /\ errors[c] \subseteq job[c].key
  /\ pc[c] = "upload" => errors[c] = {} /\ todo[c] = job[c].key
  /\ pc[c] = "idle" => errors[c] = {}
  /\ Settled(c)

(* The inductive invariant: types, every client in order, and no DID worked *)
(* on by two clients at once.                                               *)
IInv == TypeOK /\ (\A c \in Clients : Local(c)) /\ OneUploader

(* It holds on an empty server. *)
LEMMA InitInv == Init => IInv
<1> SUFFICES ASSUME Init PROVE IInv
  OBVIOUS
<1>1. (CHOOSE j \in Jobs : TRUE) \in Jobs
  <2>1. PICK k \in Keys, d \in Payloads : TRUE
    BY KeysAssumption, PayloadsAssumption
  <2>2. [key |-> k, data |-> d] \in Jobs
    BY DEF Jobs
  <2> QED
    BY <2>2
<1>2. TypeOK
  BY <1>1 DEF Init, TypeOK, Pending, Hows
<1> QED
  BY <1>2 DEF Init, IInv, Local, Settled, OneUploader, Pending

-----------------------------------------------------------------------------
(* The step of a client as a whole. *)
Move(c) == (\E k \in Keys, d \in Payloads : Archive(c, k, d)) \/ Step(c) \/ Crash(c)

(* The variables of a client that does not move. *)
Still(e) == UNCHANGED <<pc[e], job[e], todo[e], errors[e], outcome[e]>>

(* The ways a call of archive() can end keep the types. *)
LEMMA EndsFacts ==
  ASSUME TypeOK, NEW c \in Clients, NEW how \in Hows, NEW m \in SUBSET Items, Ends(c, how, m)
  PROVE  /\ pc' \in [Clients -> {"idle", "upload", "metadata"}]
         /\ job' \in [Clients -> Jobs]
         /\ todo' \in [Clients -> SUBSET Items]
         /\ errors' \in [Clients -> SUBSET Items]
         /\ outcome' \in [Clients -> [how : Hows, missing : SUBSET Items]]
         /\ pc'[c] = "idle" /\ job'[c] = job[c] /\ todo'[c] = {} /\ errors'[c] = {}
         /\ outcome'[c] = [how |-> how, missing |-> m]
         /\ \A e \in Clients : e # c => Still(e)
  BY DEF TypeOK, Ends, Still

(* The server after the upload of client c: only its DID is new. *)
LEMMA RegisterFacts ==
  ASSUME TypeOK, NEW c \in Clients, ~Exists(Name(c)), Register(c)
  PROVE  /\ dids' \in [Names -> DID \cup {Absent}]
         /\ dids'[Name(c)] # Absent
         /\ dids'[Name(c)].data = job[c].data
         /\ \A n \in Names : Exists(n) => dids'[n] = dids[n]
<1>1. /\ Name(c) \in Names /\ job[c] \in Jobs
      /\ job[c].key \in Keys /\ job[c].data \in Payloads
  BY NameOfAssumption DEF TypeOK, Jobs, Name
<1>2. [data |-> job[c].data, metadata |-> {}, key |-> job[c].key] \in DID
  BY <1>1 DEF DID
<1>3. job[c].data # "none"
  BY <1>1, PayloadsAssumption
<1> QED
  BY <1>1, <1>2, <1>3 DEF TypeOK, Register, Exists, Absent

(* The server after a set_metadata of client c. *)
LEMMA AttachFacts ==
  ASSUME TypeOK, NEW c \in Clients, Exists(Name(c)), NEW i \in Items, Attach(c, i)
  PROVE  /\ dids' \in [Names -> DID \cup {Absent}]
         /\ dids'[Name(c)] # Absent
         /\ dids'[Name(c)].data = dids[Name(c)].data
         /\ dids'[Name(c)].metadata = dids[Name(c)].metadata \cup {i}
         /\ \A n \in Names : n # Name(c) => dids'[n] = dids[n]
<1>1. Name(c) \in Names
  BY NameOfAssumption DEF TypeOK, Jobs, Name
<1>2. dids[Name(c)] \in DID
  BY <1>1 DEF TypeOK, Exists
<1> DEFINE new == [dids[Name(c)] EXCEPT !.metadata = @ \cup {i}]
<1>3. /\ new \in DID /\ new.data = dids[Name(c)].data
      /\ new.metadata = dids[Name(c)].metadata \cup {i} /\ new.data # "none"
  BY <1>2, PayloadsAssumption DEF DID
<1>4. dids' = [dids EXCEPT ![Name(c)] = new]
  BY DEF Attach
<1> HIDE DEF new
<1> QED
  BY <1>1, <1>3, <1>4 DEF TypeOK, Absent

(* Nothing a client does takes data or metadata away from a DID. *)
Grows ==
  \A n \in Names : Exists(n) => /\ dids'[n] # Absent
                                /\ dids'[n].data = dids[n].data
                                /\ dids[n].metadata \subseteq dids'[n].metadata

(* Every step of a client keeps the types, lets the server only grow, moves *)
(* no other client, leaves its own call in order, and enters the metadata   *)
(* loop only for a DID that did not exist.                                  *)
Moved(c) ==
  /\ TypeOK'
  /\ Grows
  /\ Local(c)'
  /\ \A e \in Clients : e # c => Still(e)
  /\ pc'[c] = "metadata" =>
       job'[c] = job[c] /\ (pc[c] = "metadata" \/ (pc[c] = "upload" /\ ~Exists(Name(c))))

LEMMA MoveFacts ==
  ASSUME TypeOK, NEW c \in Clients, Local(c), Move(c)
  PROVE  Moved(c)
<1>1. /\ Name(c) \in Names /\ job[c] \in Jobs /\ job[c].key \in Keys
      /\ job[c].key \subseteq Items /\ {} \in SUBSET Items
  BY NameOfAssumption DEF TypeOK, Jobs, Name, Items
<1>2. UNCHANGED dids => Grows
  BY DEF Grows, Exists
<1>3. ASSUME NEW k \in Keys, NEW d \in Payloads, Archive(c, k, d) PROVE Moved(c)
  <2>1. k \in SUBSET Items /\ [key |-> k, data |-> d] \in Jobs
    BY DEF Items, Jobs
  <2>2. Pending \in [how : Hows, missing : SUBSET Items]
    BY DEF Pending, Hows
  <2>3. TypeOK'
    BY <1>3, <2>1, <2>2 DEF Archive, TypeOK
  <2>4. /\ pc'[c] = "upload" /\ job'[c].key = k /\ todo'[c] = k /\ errors'[c] = {}
        /\ outcome'[c] = Pending
    BY <1>3 DEF Archive, TypeOK, Local
  <2>5. Local(c)'
    BY <2>4 DEF Local, Settled, Pending
  <2>6. \A e \in Clients : e # c => Still(e)
    BY <1>3 DEF Archive, TypeOK, Still
  <2> QED
    BY <1>2, <1>3, <2>3, <2>4, <2>5, <2>6 DEF Moved, Archive
<1>4. ASSUME NEW how \in Hows \ {"uploaded", "unattached"}, Ends(c, how, {}), UNCHANGED dids
      PROVE  Moved(c)
  <2>1. TypeOK'
    BY <1>1, <1>4, EndsFacts DEF TypeOK
  <2>2. Local(c)'
    <3>1. /\ pc'[c] = "idle" /\ todo'[c] = {} /\ errors'[c] = {}
          /\ outcome'[c] = [how |-> how, missing |-> {}]
      BY <1>1, <1>4, EndsFacts
    <3>2. outcome'[c].how = how
      BY <3>1
    <3> QED
      BY <1>4, <3>1, <3>2 DEF Local, Settled
  <2> QED
    BY <1>1, <1>2, <1>4, <2>1, <2>2, EndsFacts DEF Moved
<1>5. CASE Upload(c)
  <2>1. ~Exists(Name(c)) /\ Register(c) /\ pc[c] = "upload"
        /\ pc' = [pc EXCEPT ![c] = "metadata"] /\ UNCHANGED <<job, todo, errors, outcome>>
    BY <1>5 DEF Upload
  <2>2. TypeOK'
    BY <2>1, RegisterFacts DEF TypeOK
  <2>3. Local(c)'
    BY <1>1, <2>1, RegisterFacts DEF Local, Settled, OwnsDID, Exists, Name, TypeOK, Pending
  <2>4. Grows
    BY <2>1, RegisterFacts DEF Grows, Exists
  <2>5. \A e \in Clients : e # c => Still(e)
    BY <2>1 DEF Still, TypeOK
  <2> QED
    BY <2>1, <2>2, <2>3, <2>4, <2>5 DEF Moved
<1>6. CASE UploadPresent(c)
  BY <1>4, <1>6 DEF UploadPresent, Hows
<1>7. CASE UploadFails(c)
  <2>1. Ends(c, "failed", {})
    BY <1>7 DEF UploadFails
  <2>2. CASE UNCHANGED dids
    BY <1>4, <2>1, <2>2 DEF Hows
  <2>3. CASE ~Exists(Name(c)) /\ Register(c)
    <3>1. "failed" \in Hows
      BY DEF Hows
    <3>2. TypeOK'
      BY <1>1, <2>1, <2>3, <3>1, EndsFacts, RegisterFacts DEF TypeOK
    <3>3. Local(c)'
      <4>1. /\ pc'[c] = "idle" /\ todo'[c] = {} /\ errors'[c] = {}
            /\ outcome'[c] = [how |-> "failed", missing |-> {}]
        BY <1>1, <2>1, <3>1, EndsFacts
      <4>2. outcome'[c].how = "failed"
        BY <4>1
      <4> QED
        BY <4>1, <4>2 DEF Local, Settled
    <3>4. Grows
      BY <2>3, RegisterFacts DEF Grows, Exists
    <3> QED
      BY <1>1, <2>1, <3>1, <3>2, <3>3, <3>4, EndsFacts DEF Moved
  <2> QED
    BY <1>7, <2>2, <2>3 DEF UploadFails
<1>8. ASSUME NEW i \in todo[c], SetMetadata(c, i) \/ SetMetadataFails(c, i) PROVE Moved(c)
  <2>1. /\ pc[c] = "metadata" /\ OwnsDID(c) /\ i \in Items /\ i \in job[c].key
        /\ UNCHANGED <<pc, job, outcome>> /\ todo' = [todo EXCEPT ![c] = @ \ {i}]
    BY <1>8 DEF SetMetadata, SetMetadataFails, Local, TypeOK
  <2>2. \/ Attach(c, i) /\ (errors' = errors \/ errors' = [errors EXCEPT ![c] = @ \cup {i}])
        \/ UNCHANGED dids /\ errors' = [errors EXCEPT ![c] = @ \cup {i}]
    BY <1>8 DEF SetMetadata, SetMetadataFails
  <2>3. /\ dids' \in [Names -> DID \cup {Absent}] /\ dids'[Name(c)] # Absent
        /\ dids'[Name(c)].data = dids[Name(c)].data
        /\ dids[Name(c)].metadata \subseteq dids'[Name(c)].metadata
        /\ \A n \in Names : n # Name(c) => dids'[n] = dids[n]
    <3>1. Exists(Name(c))
      BY <2>1 DEF OwnsDID
    <3>2. CASE UNCHANGED dids
      BY <3>1, <3>2 DEF TypeOK, Exists
    <3>3. CASE Attach(c, i)
      BY <2>1, <3>1, <3>3, AttachFacts
    <3> QED
      BY <2>2, <3>2, <3>3
  <2>4. /\ todo' \in [Clients -> SUBSET Items] /\ errors' \in [Clients -> SUBSET Items]
        /\ todo'[c] = todo[c] \ {i}
        /\ errors'[c] = errors[c] \/ errors'[c] = errors[c] \cup {i}
    BY <2>1, <2>2 DEF TypeOK
  <2>5. i \in dids'[Name(c)].metadata \/ i \in errors'[c]
    <3>1. CASE Attach(c, i)
      BY <2>1, <3>1, AttachFacts DEF OwnsDID
    <3>2. CASE errors' = [errors EXCEPT ![c] = @ \cup {i}]
      BY <3>2 DEF TypeOK
    <3> QED
      BY <2>2, <3>1, <3>2
  <2>6. TypeOK'
    BY <2>1, <2>3, <2>4 DEF TypeOK
  <2>7. OwnsDID(c)'
    BY <2>1, <2>3, <2>4, <2>5 DEF OwnsDID, Exists, Name
  <2>8. Local(c)'
    BY <2>1, <2>4, <2>7 DEF Local, Settled, Pending
  <2>9. Grows
    BY <1>1, <2>3 DEF Grows, Exists
  <2>10. \A e \in Clients : e # c => Still(e)
    BY <2>1, <2>2 DEF Still, TypeOK
  <2> QED
    BY <2>1, <2>6, <2>8, <2>9, <2>10 DEF Moved
<1>9. CASE Finish(c)
  <2>1. /\ pc[c] = "metadata" /\ todo[c] = {} /\ UNCHANGED dids /\ OwnsDID(c)
        /\ errors[c] \in SUBSET Items /\ "uploaded" \in Hows /\ "unattached" \in Hows
    BY <1>9 DEF Finish, Local, TypeOK, Hows
  <2>2. \E how \in {"uploaded", "unattached"} :
          Ends(c, how, errors[c]) /\ (how = "uploaded" => errors[c] = {})
    BY <1>9 DEF Finish
  <2>3. PICK how \in {"uploaded", "unattached"} :
          Ends(c, how, errors[c]) /\ (how = "uploaded" => errors[c] = {})
    BY <2>2
  <2>4. TypeOK' /\ pc'[c] = "idle" /\ (\A e \in Clients : e # c => Still(e))
        /\ job'[c] = job[c] /\ todo'[c] = {} /\ errors'[c] = {}
        /\ outcome'[c] = [how |-> how, missing |-> errors[c]]
    BY <2>1, <2>3, EndsFacts DEF TypeOK
  <2>5. Local(c)'
    BY <2>1, <2>3, <2>4 DEF Local, Settled, OwnsDID, Exists, Name, Pending
  <2> QED
    BY <1>2, <2>1, <2>4, <2>5 DEF Moved
<1>10. CASE Crash(c)
  BY <1>4, <1>10 DEF Crash, Hows
<1> QED
  BY <1>3, <1>5, <1>6, <1>7, <1>8, <1>9, <1>10 DEF Move, Step

(* The invariant is inductive: what other clients do only grows the DID     *)
(* that a running or finished archive() relies on.                          *)
LEMMA Inductive == IInv /\ [Next]_vars => IInv'
<1> SUFFICES ASSUME IInv, [Next]_vars PROVE IInv'
  OBVIOUS
<1>1. CASE UNCHANGED vars
  BY <1>1 DEF vars, clientVars, IInv, TypeOK, Local, OwnsDID, Settled, OneUploader, Exists, Name
<1>2. CASE Next
  <2>1. PICK c \in Clients : Move(c)
    BY <1>2 DEF Next, Move
  <2>2. Moved(c)
    BY <2>1, MoveFacts DEF IInv
  <2>3. ASSUME NEW e \in Clients, e # c PROVE Local(e)'
    <3>1. Still(e) /\ Local(e) /\ Grows /\ Name(e) \in Names /\ Name(e)' = Name(e)
      BY <2>2, <2>3, NameOfAssumption DEF Moved, IInv, TypeOK, Jobs, Name, Still
    <3>2. OwnsDID(e) => OwnsDID(e)'
      BY <3>1 DEF OwnsDID, Grows, Exists, Still
    <3>3. Settled(e)'
      BY <3>1 DEF Local, Settled, Grows, Exists, Still
    <3> QED
      BY <3>1, <3>2, <3>3 DEF Local, Still
  <2>4. OneUploader'
    <3> SUFFICES ASSUME NEW e \in Clients, e # c, pc'[e] = "metadata", pc'[c] = "metadata"
                 PROVE  Name(e)' # Name(c)'
      <4>1. ASSUME NEW e \in Clients, NEW f \in Clients, e # c, f # c, e # f,
                   pc'[e] = "metadata", pc'[f] = "metadata"
            PROVE  Name(e)' # Name(f)'
        BY <2>2, <4>1 DEF Moved, Still, IInv, OneUploader, Name
      <4> QED
        BY <4>1 DEF OneUploader
    <3>1. Still(e) /\ pc[e] = "metadata" /\ Exists(Name(e)) /\ Name(e)' = Name(e)
      BY <2>2 DEF Moved, Still, IInv, Local, OwnsDID, Name
    <3>2. Name(c)' = Name(c) /\ (pc[c] = "metadata" \/ ~Exists(Name(c)))
      BY <2>2 DEF Moved, Name
    <3> QED
      BY <3>1, <3>2 DEF IInv, OneUploader
  <2> QED
    BY <2>2, <2>3, <2>4 DEF Moved, IInv
<1> QED
  BY <1>1, <1>2

(* The clients and the server are type correct. *)
THEOREM ArchiveTypeCorrect == Spec => []TypeOK
<1>1. IInv => TypeOK
  BY DEF IInv
<1> QED
  BY <1>1, InitInv, Inductive, PTL DEF Spec

(* However archives of any keys by any number of clients interleave, fail,  *)
(* crash and are repeated: the client that uploaded and returned normally   *)
(* has its data and all its metadata on the server for good, the            *)
(* RuntimeError about metadata names all that is missing, and a DID is      *)
(* never worked on by two clients.                                          *)
THEOREM ArchiveCorrect == Spec => [](UploadedIsComplete /\ MissingIsReported /\ OneUploader)
<1>1. IInv => UploadedIsComplete /\ MissingIsReported /\ OneUploader
  BY DEF IInv, Local, Settled, UploadedIsComplete, MissingIsReported, Target
<1> QED
  BY <1>1, InitInv, Inductive, PTL DEF Spec

(* In particular, the RuntimeError about metadata names all that is missing *)
(* (the end of Rucio.archive).                                              *)
COROLLARY ArchiveReportsMissing == Spec => []MissingIsReported
  BY ArchiveCorrect, PTL

(* And of concurrent archives of one name one at most attaches metadata     *)
(* (the upload of Rucio.archive).                                           *)
COROLLARY ArchiveOneUploader == Spec => []OneUploader
  BY ArchiveCorrect, PTL

-----------------------------------------------------------------------------
(* What any step of the clients does to the server.                         *)
LEMMA NextGrows == IInv /\ [Next]_vars => Grows
<1> SUFFICES ASSUME IInv, [Next]_vars PROVE Grows
  OBVIOUS
<1>1. CASE UNCHANGED vars
  BY <1>1 DEF vars, Grows, Exists
<1>2. CASE Next
  <2>1. PICK c \in Clients : Move(c)
    BY <1>2 DEF Next, Move
  <2> QED
    BY <2>1, MoveFacts DEF IInv, Moved
<1> QED
  BY <1>1, <1>2

(* Whatever clients archive, retry or lose: a DID is never replaced, its    *)
(* data never change and no item is taken off it (archive() only uploads to *)
(* a free name and only adds metadata).                                     *)
THEOREM NothingIsTakenAway == Spec => [][Grows]_vars
  BY InitInv, Inductive, NextGrows, PTL DEF Spec

(* A DID, once registered, belongs to the key whose archive() created it.   *)
KeyGivesName(n) == Exists(n) => dids[n].key \in Keys /\ NameOf[dids[n].key] = n

(* A client that returned normally was about a DID that exists.             *)
Returned(c) == outcome[c].how \in {"uploaded", "present"} => Exists(Name(c))

KeyInv == IInv /\ (\A n \in Names : KeyGivesName(n)) /\ (\A c \in Clients : Returned(c))

(* A step of a client changes at most the DID of its own name, and keeps or *)
(* gives it the key of its call.                                            *)
LEMMA KeyIsKept ==
  ASSUME TypeOK, NEW c \in Clients, Local(c), Move(c), NEW n \in Names, KeyGivesName(n)
  PROVE  KeyGivesName(n)'
<1>1. /\ Name(c) \in Names /\ job[c] \in Jobs /\ job[c].key \in Keys
      /\ NameOf[job[c].key] = Name(c)
  BY NameOfAssumption DEF TypeOK, Jobs, Name
<1>2. UNCHANGED dids \/ Register(c) \/ (pc[c] = "metadata" /\ \E i \in todo[c] : Attach(c, i))
  BY DEF Move, Step, Archive, Upload, UploadPresent, UploadFails, SetMetadata,
         SetMetadataFails, Finish, Crash
<1>3. CASE UNCHANGED dids
  BY <1>3 DEF KeyGivesName, Exists
<1>4. CASE Register(c)
  <2>1. n # Name(c) => dids'[n] = dids[n]
    BY <1>1, <1>4 DEF Register, TypeOK
  <2>2. dids'[Name(c)].key = job[c].key
    BY <1>1, <1>4 DEF Register, TypeOK
  <2> QED
    BY <1>1, <2>1, <2>2 DEF KeyGivesName, Exists
<1>5. ASSUME pc[c] = "metadata", NEW i \in todo[c], Attach(c, i) PROVE KeyGivesName(n)'
  <2>1. n # Name(c) => dids'[n] = dids[n]
    BY <1>1, <1>5 DEF Attach, TypeOK
  <2>2. dids[n] \in DID \cup {Absent}
    BY DEF TypeOK
  <2>3. n = Name(c) => dids'[n] = [dids[n] EXCEPT !.metadata = @ \cup {i}]
    BY <1>1, <1>5 DEF Attach, TypeOK
  <2>4. dids'[n].key = dids[n].key
    BY <2>1, <2>2, <2>3 DEF DID, Absent
  <2>5. dids'[n] # Absent => dids[n] # Absent
    BY <1>5, <2>1 DEF Local, OwnsDID, Exists
  <2> QED
    BY <2>4, <2>5 DEF KeyGivesName, Exists
<1> QED
  BY <1>2, <1>3, <1>4, <1>5

(* A normal return is about a DID that exists.                              *)
LEMMA ReturnIsAboutADID ==
  ASSUME IInv, NEW c \in Clients, Move(c), Returned(c)
  PROVE  Returned(c)'
<1>1. /\ Moved(c) /\ Local(c) /\ Name(c) \in Names /\ {} \in SUBSET Items /\ TypeOK
  BY MoveFacts, NameOfAssumption DEF IInv, TypeOK, Jobs, Name
<1>2. ASSUME outcome'[c].how \notin {"uploaded", "present"} PROVE Returned(c)'
  BY <1>2 DEF Returned
<1>3. CASE \E k \in Keys, d \in Payloads : Archive(c, k, d)
  <2>1. outcome'[c] = Pending
    BY <1>1, <1>3 DEF Archive, TypeOK
  <2> QED
    BY <1>2, <2>1 DEF Pending
<1>4. CASE UploadPresent(c)
  <2>1. Exists(Name(c)) /\ UNCHANGED <<dids, job>>
    BY <1>4 DEF UploadPresent, Ends
  <2> QED
    BY <2>1 DEF Returned, Exists, Name
<1>5. CASE Upload(c) \/ \E i \in todo[c] : SetMetadata(c, i) \/ SetMetadataFails(c, i)
  <2>1. UNCHANGED outcome /\ pc[c] # "idle"
    BY <1>5 DEF Upload, SetMetadata, SetMetadataFails
  <2>2. outcome'[c] = Pending
    BY <1>1, <2>1 DEF Local
  <2> QED
    BY <1>2, <2>2 DEF Pending
<1>6. CASE UploadFails(c) \/ Crash(c)
  <2>1. \E how \in {"failed", "crashed"} : Ends(c, how, {})
    BY <1>6 DEF UploadFails, Crash
  <2>2. outcome'[c].how \in {"failed", "crashed"}
    BY <1>1, <2>1 DEF Ends, TypeOK
  <2> QED
    BY <1>2, <2>2
<1>7. CASE Finish(c)
  <2>1. UNCHANGED <<dids, job>> /\ Exists(Name(c))
    BY <1>1, <1>7 DEF Finish, Ends, Local, OwnsDID
  <2> QED
    BY <2>1 DEF Returned, Exists, Name
<1> QED
  BY <1>3, <1>4, <1>5, <1>6, <1>7 DEF Move, Step

LEMMA KeyInductive == KeyInv /\ [Next]_vars => KeyInv'
<1> SUFFICES ASSUME KeyInv, [Next]_vars PROVE KeyInv'
  OBVIOUS
<1>1. IInv'
  BY Inductive DEF KeyInv
<1>2. CASE UNCHANGED vars
  BY <1>1, <1>2 DEF KeyInv, vars, clientVars, KeyGivesName, Returned, Exists, Name
<1>3. CASE Next
  <2>1. PICK c \in Clients : Move(c)
    BY <1>3 DEF Next, Move
  <2>2. Moved(c)
    BY <2>1, MoveFacts DEF KeyInv, IInv
  <2>3. \A n \in Names : KeyGivesName(n)'
    BY <2>1, KeyIsKept DEF KeyInv, IInv
  <2>4. ASSUME NEW e \in Clients PROVE Returned(e)'
    <3>1. CASE e = c
      BY <2>1, <3>1, ReturnIsAboutADID DEF KeyInv
    <3>2. CASE e # c
      <4>1. Still(e) /\ Grows /\ Name(e) \in Names
        BY <2>2, <3>2, NameOfAssumption DEF Moved, KeyInv, IInv, TypeOK, Jobs, Name
      <4> QED
        BY <4>1 DEF KeyInv, Returned, Still, Grows, Exists, Name
    <3> QED
      BY <3>1, <3>2
  <2> QED
    BY <1>1, <2>3, <2>4 DEF KeyInv
<1> QED
  BY <1>2, <1>3

(* Names that collide are the only way in which a key can come to stand for *)
(* other data: where _derive_name gives different keys different names, a   *)
(* normal return of archive(), by whichever client, leaves a DID with data  *)
(* that were archived under the very key.  (With the names of RucioName it  *)
(* does not: the run RucioCollision.)                                       *)
THEOREM DistinctNamesIdentify ==
  ASSUME \A k, l \in Keys : NameOf[k] = NameOf[l] => k = l
  PROVE  Spec => []KeyIdentifiesData
<1>1. Init => KeyInv
  <2> SUFFICES ASSUME Init PROVE KeyInv
    OBVIOUS
  <2>1. IInv /\ \A n \in Names : ~Exists(n)
    BY InitInv DEF Init, Exists
  <2>2. \A c \in Clients : outcome[c].how = "pending"
    BY DEF Init, Pending
  <2> QED
    BY <2>1, <2>2 DEF KeyInv, KeyGivesName, Returned
<1>2. KeyInv => KeyIdentifiesData
  <2> SUFFICES ASSUME KeyInv, NEW c \in Clients, outcome[c].how \in {"uploaded", "present"}
               PROVE  dids[Name(c)].key = job[c].key
    BY DEF KeyIdentifiesData, Target
  <2>1. job[c].key \in Keys /\ Name(c) \in Names /\ Exists(Name(c))
    BY NameOfAssumption DEF KeyInv, IInv, TypeOK, Jobs, Name, Returned
  <2>2. dids[Name(c)].key \in Keys /\ NameOf[dids[Name(c)].key] = NameOf[job[c].key]
    BY <2>1 DEF KeyInv, KeyGivesName, Name
  <2> QED
    BY <2>1, <2>2
<1> QED
  BY <1>1, <1>2, KeyInductive, PTL DEF Spec

-----------------------------------------------------------------------------
(* The calls an archive() in progress still has to make: its upload, one    *)
(* set_metadata per item, and its return.                                   *)
Remaining(c) ==
  CASE pc[c] = "upload" -> Cardinality(job[c].key) + 2
    [] pc[c] = "metadata" -> Cardinality(todo[c]) + 1
    [] OTHER -> 0

(* A call of the client itself makes the rest shorter, and nobody else      *)
(* touches it.                                                              *)
Nearer(c) ==
  /\ Step(c) => Remaining(c)' < Remaining(c)
  /\ Remaining(c)' > Remaining(c) => \E k \in Keys, d \in Payloads : Archive(c, k, d)

AllFew == \A c \in Clients : IsFiniteSet(todo[c]) /\ Remaining(c) \in Nat

LEMMA RemainingIsNat == IInv => AllFew
<1> SUFFICES ASSUME IInv, NEW c \in Clients
             PROVE  IsFiniteSet(todo[c]) /\ Remaining(c) \in Nat
  BY DEF AllFew
<1>1. IsFiniteSet(job[c].key) /\ todo[c] \subseteq job[c].key
  BY KeysAssumption DEF IInv, TypeOK, Jobs, Local
<1>2. /\ IsFiniteSet(todo[c]) /\ Cardinality(job[c].key) \in Nat
      /\ Cardinality(todo[c]) \in Nat
  BY <1>1, FS_Subset, FS_CardinalityType
<1> QED
  BY <1>2 DEF Remaining

LEMMA StepIsNearer ==
  ASSUME IInv, NEW c \in Clients, Step(c)
  PROVE  Remaining(c)' < Remaining(c)
<1>1. /\ TypeOK /\ Local(c) /\ IsFiniteSet(todo[c]) /\ Remaining(c) \in Nat
      /\ IsFiniteSet(job[c].key) /\ Cardinality(job[c].key) \in Nat
      /\ Cardinality(todo[c]) \in Nat
  <2>1. IsFiniteSet(job[c].key)
    BY KeysAssumption DEF IInv, TypeOK, Jobs
  <2> QED
    BY <2>1, RemainingIsNat, FS_CardinalityType DEF IInv, AllFew
<1>2. CASE Upload(c)
  <2>1. pc[c] = "upload" /\ pc'[c] = "metadata" /\ todo'[c] = job[c].key
    BY <1>1, <1>2 DEF Upload, TypeOK, Local
  <2> QED
    BY <1>1, <2>1 DEF Remaining
<1>3. CASE UploadPresent(c) \/ UploadFails(c) \/ Finish(c)
  <2>1. pc[c] \in {"upload", "metadata"} /\ pc'[c] = "idle"
    BY <1>1, <1>3 DEF UploadPresent, UploadFails, Finish, Ends, TypeOK
  <2> QED
    BY <1>1, <2>1 DEF Remaining
<1>4. ASSUME NEW i \in todo[c], SetMetadata(c, i) \/ SetMetadataFails(c, i)
      PROVE  Remaining(c)' < Remaining(c)
  <2>1. pc[c] = "metadata" /\ pc'[c] = "metadata" /\ todo'[c] = todo[c] \ {i}
    BY <1>1, <1>4 DEF SetMetadata, SetMetadataFails, TypeOK
  <2>2. Cardinality(todo'[c]) = Cardinality(todo[c]) - 1
    BY <1>1, <2>1, FS_RemoveElement
  <2> QED
    BY <1>1, <2>1, <2>2 DEF Remaining
<1> QED
  BY <1>2, <1>3, <1>4 DEF Step

LEMMA NextIsNearer == IInv /\ [Next]_vars => \A c \in Clients : Nearer(c)
<1> SUFFICES ASSUME IInv, [Next]_vars, NEW c \in Clients PROVE Nearer(c)
  OBVIOUS
<1>1. Remaining(c) \in Nat /\ Remaining(c)' \in Nat
  <2>1. IInv'
    BY Inductive
  <2>2. IInv' => AllFew'
    BY RemainingIsNat, PTL
  <2> QED
    BY <2>1, <2>2, RemainingIsNat DEF AllFew
<1>2. Step(c) => Remaining(c)' < Remaining(c)
  BY StepIsNearer
<1>3. ASSUME pc'[c] = pc[c], job'[c] = job[c], todo'[c] = todo[c]
      PROVE  ~(Remaining(c)' > Remaining(c))
  BY <1>1, <1>3 DEF Remaining
<1>4. CASE UNCHANGED vars
  BY <1>2, <1>3, <1>4 DEF Nearer, vars, clientVars
<1>5. ASSUME NEW e \in Clients, Move(e) PROVE Nearer(c)
  <2>1. CASE e # c
    <3>1. Still(c)
      BY <1>5, <2>1, MoveFacts DEF IInv, Moved
    <3> QED
      BY <1>2, <1>3, <3>1 DEF Nearer, Still
  <2>2. CASE e = c
    <3>1. CASE Step(c)
      BY <1>1, <1>2, <3>1 DEF Nearer
    <3>2. CASE Crash(c)
      <4>1. pc'[c] = "idle"
        BY <3>2 DEF Crash, Ends, IInv, TypeOK
      <4> QED
        BY <1>1, <1>2, <4>1 DEF Nearer, Remaining
    <3> QED
      BY <1>2, <1>5, <2>2, <3>1, <3>2 DEF Move, Nearer
  <2> QED
    BY <2>1, <2>2
<1> QED
  BY <1>4, <1>5 DEF Next, Move

(* The safety part of ArchiveEnds: an archive() of a key of n items makes   *)
(* at most n + 2 calls, and only a new archive() starts them again.         *)
THEOREM ArchiveMakesFewCalls ==
  Spec => []AllFew /\ [][\A c \in Clients : Nearer(c)]_vars
  BY RemainingIsNat, InitInv, Inductive, NextIsNearer, PTL DEF Spec

-----------------------------------------------------------------------------
(* The reader: types first. *)
ReaderTypes ==
  /\ api \in {"none", "retrieve", "list"}
  /\ phase \in {"new", "iterating", "download", "metadata", "stopped"}
  /\ listing \in {"none", "open", "dead"}
  /\ didList \in Seq(Names) /\ index \in 0..Len(didList)
  /\ entry \in Names
  /\ skipped \subseteq Names /\ raised \subseteq Names /\ promised \subseteq Names
  /\ IsFiniteSet(got) /\ IsFiniteSet(Got) /\ Got \subseteq Names

(* Only finitely many DIDs are registered at any time. *)
Registered == {n \in Names : Exists(n)}

(* The entries of the snapshot that next() has finished with. *)
Passed == IF phase \in {"download", "metadata"} THEN index - 1 ELSE index

Seen == Got \cup skipped \cup raised

(* A RucioRetrieve: the snapshot holds what was promised, no entry twice,  *)
(* and what was seen is its beginning up to the index.                     *)
SnapshotGood ==
  /\ \A i, j \in 1..Len(didList) : i # j => didList[i] # didList[j]
  /\ \A n \in promised : \E i \in 1..Len(didList) : didList[i] = n
  /\ phase \in {"download", "metadata"} => index > 0 /\ entry = didList[index]
  /\ phase = "stopped" => index = Len(didList)
  /\ \A n \in Names : n \in Seen <=> \E i \in 1..Passed : didList[i] = n

(* A RucioList: what was promised is still there to be listed, and at the   *)
(* end was listed.                                                          *)
ListingGood ==
  /\ phase # "download" /\ skipped = {} /\ raised = {}
  /\ promised \subseteq Matching
  /\ phase = "metadata" => entry \notin Got
  /\ phase = "stopped" /\ listing # "dead" => promised \subseteq Got

(* The inductive invariant of clients and reader together. *)
SysInv ==
  /\ IInv
  /\ IsFiniteSet(Registered)
  /\ ReaderTypes
  /\ EachOnce
  /\ phase = "new" => Seen = {} /\ promised = {}
  /\ api = "none" => phase = "new"
  /\ api = "retrieve" /\ phase # "new" => SnapshotGood
  /\ api = "list" => ListingGood

LEMMA SysInitInv == SysInit => SysInv
<1> SUFFICES ASSUME SysInit PROVE SysInv
  OBVIOUS
<1>1. IInv
  BY InitInv DEF SysInit
<1>2. Registered = {} /\ Got = {} /\ Names # {}
  BY KeysAssumption, NameOfAssumption DEF SysInit, Init, Registered, Exists, Got
<1>3. ReaderTypes
  BY <1>2, FS_EmptySet DEF SysInit, ReaderTypes
<1>4. EachOnce
  BY <1>2 DEF SysInit, EachOnce
<1> QED
  BY <1>1, <1>2, <1>3, <1>4, FS_EmptySet DEF SysInit, SysInv, Seen, ListingGood

(* A step of a client registers at most the DID of its own name. *)
LEMMA OneAtATime ==
  ASSUME TypeOK, NEW c \in Clients, Move(c)
  PROVE  Registered' \subseteq Registered \cup {Name(c)}
<1>1. Name(c) \in Names
  BY NameOfAssumption DEF TypeOK, Jobs, Name
<1>2. \A n \in Names : n # Name(c) => dids'[n] = dids[n]
  <2>1. UNCHANGED dids \/ Register(c) \/ \E i \in todo[c] : Attach(c, i)
    BY DEF Move, Step, Archive, Upload, UploadPresent, UploadFails, SetMetadata,
           SetMetadataFails, Finish, Crash
  <2> QED
    BY <1>1, <2>1 DEF TypeOK, Register, Attach
<1> QED
  BY <1>2 DEF Registered, Exists

(* What archive() does leaves a reader's invariant as it is: what matches a *)
(* filter keeps matching.                                                   *)
LEMMA ClientsKeep == SysInv /\ Next /\ UNCHANGED readerVars => SysInv'
<1> SUFFICES ASSUME SysInv, Next, UNCHANGED readerVars PROVE SysInv'
  OBVIOUS
<1> USE DEF readerVars, queryVars, iterVars, seenVars
<1>1. PICK c \in Clients : Move(c)
  BY DEF Next, Move
<1>2. IInv'
  BY Inductive DEF SysInv
<1>3. Grows
  BY <1>1, MoveFacts DEF SysInv, IInv, Moved
<1>4. Matching \subseteq Matching'
  BY <1>3 DEF Matching, Grows, Exists
<1>5. IsFiniteSet(Registered')
  BY <1>1, OneAtATime, FS_AddElement, FS_Subset DEF SysInv, IInv
<1>6. Got' = Got
  BY DEF Got
<1>7. ReaderTypes' /\ EachOnce'
  BY <1>6 DEF SysInv, ReaderTypes, EachOnce
<1>8. Seen' = Seen
  BY <1>6 DEF Seen
<1>9. api = "retrieve" /\ phase # "new" => SnapshotGood'
  BY <1>8 DEF SysInv, SnapshotGood, Passed
<1>10. api = "list" => ListingGood'
  BY <1>4, <1>6 DEF SysInv, ListingGood
<1> QED
  BY <1>2, <1>5, <1>7, <1>8, <1>9, <1>10 DEF SysInv

(* What was archived completely matches the filter it matches by its key.  *)
LEMMA ArchivedMatches == IInv => FullyArchived \subseteq Matching
<1> SUFFICES ASSUME IInv, NEW c \in Clients, outcome[c].how = "uploaded",
                    filter \subseteq job[c].key
             PROVE  Name(c) \in Matching
  BY DEF FullyArchived
<1>1. Name(c) \in Names
  BY NameOfAssumption DEF IInv, TypeOK, Jobs, Name
<1> QED
  BY <1>1 DEF IInv, Local, Settled, Matching

(* The snapshot of a finite set has every element exactly once. *)
LEMMA SnapshotFacts ==
  ASSUME NEW S, IsFiniteSet(S), NEW s \in SetToSeqs(S)
  PROVE  /\ s \in Seq(S) /\ Len(s) = Cardinality(S)
         /\ \A i, j \in 1..Len(s) : i # j => s[i] # s[j]
         /\ \A x \in S : \E i \in 1..Len(s) : s[i] = x
<1> DEFINE n == Cardinality(S)
<1>1. n \in Nat
  BY FS_CardinalityType
<1>2. s \in [1..n -> S] /\ \A i, j \in 1..n : i # j => s[i] # s[j]
  BY DEF SetToSeqs
<1>3. s \in Seq(S) /\ Len(s) = n
  BY <1>1, <1>2
<1>4. s \in Injection(1..n, S)
  BY <1>2 DEF Injection, IsInjective
<1>5. Cardinality(1..n) = n
  BY <1>1, FS_Interval
<1>6. s \in Surjection(1..n, S)
  BY <1>1, <1>4, <1>5, FS_Injection
<1> QED
  BY <1>2, <1>3, <1>6 DEF Surjection

(* __iter__ of either reader. *)
LEMMA IterKeeps == SysInv /\ Iter => SysInv'
<1> SUFFICES ASSUME SysInv, Iter PROVE SysInv'
  OBVIOUS
<1>1. Start /\ api \in {"retrieve", "list"}
  BY DEF Iter, RetrieveIter, ListIter
<1> USE DEF Start
<1>2. IInv' /\ Registered' = Registered /\ Matching' = Matching
  BY <1>1, Inductive DEF SysInv, Registered, Exists, Matching, vars
<1>3. /\ phase' = "iterating" /\ got' = {} /\ skipped' = {} /\ raised' = {}
      /\ promised' = FullyArchived /\ api' = api /\ entry' = entry
  BY <1>1
<1>4. Got' = {} /\ Seen' = {}
  BY <1>3 DEF Got, Seen
<1>5. EachOnce'
  BY <1>3, <1>4 DEF EachOnce
<1>6. promised' \subseteq Matching /\ Matching \subseteq Names /\ IsFiniteSet(Matching)
  BY <1>3, ArchivedMatches, FS_Subset DEF SysInv, Matching, Registered
<1>7. CASE RetrieveIter
  <2>1. didList' \in SetToSeqs(Matching) /\ index' = 0 /\ listing' = listing /\ api = "retrieve"
    BY <1>7 DEF RetrieveIter
  <2>2. /\ didList' \in Seq(Matching) /\ Len(didList') \in Nat
        /\ \A i, j \in 1..Len(didList') : i # j => didList'[i] # didList'[j]
        /\ \A x \in Matching : \E i \in 1..Len(didList') : didList'[i] = x
    BY <1>6, <2>1, SnapshotFacts
  <2>3. ReaderTypes'
    BY <1>3, <1>4, <1>6, <2>1, <2>2, FS_EmptySet DEF SysInv, ReaderTypes
  <2>4. SnapshotGood'
    BY <1>3, <1>4, <1>6, <2>1, <2>2 DEF SnapshotGood, Passed
  <2> QED
    BY <1>2, <1>3, <1>5, <2>1, <2>3, <2>4 DEF SysInv
<1>8. CASE ListIter
  <2>1. UNCHANGED <<didList, index>> /\ listing' = "open" /\ api = "list"
    BY <1>8 DEF ListIter
  <2>2. ReaderTypes'
    BY <1>3, <1>4, <1>6, <2>1, FS_EmptySet DEF SysInv, ReaderTypes
  <2>3. ListingGood'
    BY <1>2, <1>3, <1>4, <1>6 DEF ListingGood
  <2> QED
    BY <1>2, <1>3, <1>5, <2>1, <2>2, <2>3 DEF SysInv
<1> QED
  BY <1>7, <1>8 DEF Iter

(* The clients and the server stand still while a reader steps. *)
LEMMA ServerStill ==
  SysInv /\ UNCHANGED <<vars, queryVars>> =>
    IInv' /\ IsFiniteSet(Registered') /\ Matching' = Matching
  BY Inductive DEF SysInv, Registered, Exists, Matching, vars, queryVars

(* The next entry of the snapshot, or the end of it. *)
LEMMA RetrieveNextKeeps == SysInv /\ RetrieveNext => SysInv'
<1> SUFFICES ASSUME SysInv, RetrieveNext PROVE SysInv'
  OBVIOUS
<1> USE DEF RetrieveNext
<1>1. IInv' /\ IsFiniteSet(Registered')
  BY ServerStill
<1>2. Got' = Got /\ Seen' = Seen /\ api' = api /\ promised' = promised
  BY DEF Got, Seen, seenVars, queryVars
<1>3. EachOnce'
  BY <1>2 DEF SysInv, EachOnce, seenVars
<1>4. didList \in Seq(Names) /\ Len(didList) \in Nat /\ index \in 0..Len(didList)
  BY DEF SysInv, ReaderTypes
<1>5. ReaderTypes'
  <2>1. index' \in 0..Len(didList) /\ entry' \in Names
    BY <1>4 DEF SysInv, ReaderTypes
  <2> QED
    BY <1>2, <2>1 DEF SysInv, ReaderTypes, seenVars
<1>6. SnapshotGood'
  BY <1>2, <1>4 DEF SysInv, SnapshotGood, Passed
<1> QED
  BY <1>1, <1>2, <1>3, <1>5, <1>6 DEF SysInv

(* A download comes, is skipped or raises. *)
LEMMA DownloadKeeps == SysInv /\ Download => SysInv'
<1> SUFFICES ASSUME SysInv, Download PROVE SysInv'
  OBVIOUS
<1> USE DEF Download
<1>1. IInv' /\ IsFiniteSet(Registered')
  BY ServerStill
<1>2. api = "retrieve" /\ api' = "retrieve" /\ promised' = promised
  BY DEF SysInv, ReaderTypes, ListingGood, queryVars
<1>3. SnapshotGood /\ entry \in Names /\ didList \in Seq(Names) /\ index \in 0..Len(didList)
  BY <1>2 DEF SysInv, ReaderTypes
<1>4. index \in 1..Len(didList) /\ entry = didList[index] /\ Passed = index - 1
  BY <1>3 DEF SnapshotGood, Passed
<1>5. entry \notin Seen
  BY <1>3, <1>4 DEF SnapshotGood
<1>6. CASE phase' = "metadata" /\ UNCHANGED seenVars
  <2>1. Got' = Got /\ Seen' = Seen
    BY <1>6 DEF Got, Seen, seenVars
  <2>2. ReaderTypes' /\ EachOnce'
    BY <1>6, <2>1 DEF SysInv, ReaderTypes, EachOnce, seenVars, iterVars, queryVars
  <2>3. SnapshotGood'
    BY <1>2, <1>3, <1>4, <1>6, <2>1 DEF SnapshotGood, Passed, iterVars
  <2> QED
    BY <1>1, <1>2, <1>6, <2>2, <2>3 DEF SysInv
<1>7. CASE phase' = "iterating" /\ ~UNCHANGED seenVars
  <2>1. /\ got' = got
        /\ \/ skipped' = skipped \cup {entry} /\ raised' = raised
           \/ skipped' = skipped /\ raised' = raised \cup {entry}
    BY <1>7
  <2>2. Got' = Got /\ Seen' = Seen \cup {entry}
    BY <2>1 DEF Got, Seen
  <2>3. EachOnce'
    BY <1>5, <2>1, <2>2 DEF SysInv, EachOnce, Seen
  <2>4. ReaderTypes'
    BY <1>3, <1>7, <2>1, <2>2 DEF SysInv, ReaderTypes, iterVars, queryVars
  <2>5. SnapshotGood'
    <3>1. Passed' = index /\ didList' = didList /\ index' = index
      BY <1>7 DEF Passed, iterVars
    <3>2. \A n \in Names : n \in Seen' <=> \E i \in 1..index : didList[i] = n
      BY <1>3, <1>4, <2>2 DEF SnapshotGood
    <3> QED
      BY <1>2, <1>3, <1>7, <3>1, <3>2 DEF SnapshotGood
  <2> QED
    BY <1>1, <1>2, <1>7, <2>3, <2>4, <2>5 DEF SysInv
<1>8. CASE phase' = "iterating" /\ UNCHANGED seenVars
  <2>1. entry \in Seen
    BY <1>8 DEF seenVars, Seen
  <2> QED
    BY <1>5, <2>1
<1> QED
  BY <1>6, <1>7, <1>8

(* The item is returned. *)
LEMMA CompleteKeeps == SysInv /\ Complete => SysInv'
<1> SUFFICES ASSUME SysInv, Complete PROVE SysInv'
  OBVIOUS
<1> USE DEF Complete
<1>1. IInv' /\ IsFiniteSet(Registered') /\ Matching' = Matching
  BY ServerStill
<1>2. PICK m : got' = got \cup {[name |-> entry, metadata |-> m]}
  OBVIOUS
<1>3. Got' = Got \cup {entry} /\ Seen' = Seen \cup {entry}
  <2> DEFINE g == [name |-> entry, metadata |-> m]
  <2>1. g.name = entry /\ got' = got \cup {g}
    BY <1>2
  <2> HIDE DEF g
  <2>2. Got' = Got \cup {entry}
    BY <2>1 DEF Got
  <2> QED
    BY <2>2 DEF Seen
<1>4. /\ api' = api /\ promised' = promised /\ skipped' = skipped /\ raised' = raised
      /\ entry' = entry /\ didList' = didList /\ index' = index /\ listing' = listing
      /\ phase = "metadata" /\ phase' = "iterating" /\ entry \in Names
      /\ didList \in Seq(Names) /\ index \in 0..Len(didList)
  BY DEF SysInv, ReaderTypes, queryVars, iterVars
<1>5. api \in {"retrieve", "list"}
  BY <1>4 DEF SysInv, ReaderTypes
<1>6. entry \notin Seen
  <2>1. CASE api = "retrieve"
    <3>1. SnapshotGood
      BY <1>4, <2>1 DEF SysInv
    <3> QED
      BY <1>4, <3>1 DEF SnapshotGood, Passed
  <2>2. CASE api = "list"
    BY <1>4, <2>2 DEF SysInv, ListingGood, Seen
  <2> QED
    BY <1>5, <2>1, <2>2
<1>7. [name |-> entry, metadata |-> m] \notin got
  BY <1>6 DEF Seen, Got
<1>8. /\ IsFiniteSet(got') /\ Cardinality(got') = Cardinality(got) + 1
      /\ IsFiniteSet(Got') /\ Cardinality(Got') = Cardinality(Got) + 1
  BY <1>2, <1>3, <1>6, <1>7, FS_AddElement DEF SysInv, ReaderTypes, Seen
<1>9. EachOnce'
  BY <1>3, <1>4, <1>6, <1>8 DEF SysInv, EachOnce, Seen
<1>10. ReaderTypes'
  BY <1>3, <1>4, <1>8 DEF SysInv, ReaderTypes
<1>11. api = "retrieve" => SnapshotGood'
  <2> SUFFICES ASSUME api = "retrieve" PROVE SnapshotGood'
    OBVIOUS
  <2>1. SnapshotGood
    BY <1>4 DEF SysInv
  <2>2. Passed' = index /\ Passed = index - 1 /\ index \in 1..Len(didList)
        /\ entry = didList[index]
    BY <1>4, <2>1 DEF Passed, SnapshotGood
  <2>3. \A n \in Names : n \in Seen' <=> \E i \in 1..index : didList[i] = n
    BY <1>3, <1>4, <2>1, <2>2 DEF SnapshotGood
  <2> QED
    BY <1>4, <2>1, <2>2, <2>3 DEF SnapshotGood
<1>12. api = "list" => ListingGood'
  BY <1>1, <1>3, <1>4 DEF SysInv, ListingGood
<1> QED
  BY <1>1, <1>4, <1>5, <1>9, <1>10, <1>11, <1>12 DEF SysInv

(* The server's next entry, the end of the listing, or its failure. *)
LEMMA ListKeeps == SysInv /\ (ListNext \/ ListFails) => SysInv'
<1> SUFFICES ASSUME SysInv, ListNext \/ ListFails PROVE SysInv'
  OBVIOUS
<1> USE DEF ListNext, ListFails
<1>1. IInv' /\ IsFiniteSet(Registered') /\ Matching' = Matching
  BY ServerStill
<1>2. Got' = Got /\ Seen' = Seen /\ api = "list" /\ api' = api /\ phase = "iterating"
  BY DEF Got, Seen, seenVars, queryVars
<1>3. /\ promised' = promised /\ skipped' = skipped /\ raised' = raised /\ got' = got
      /\ didList' = didList /\ index' = index
  BY DEF seenVars, queryVars
<1>4. EachOnce'
  BY <1>2, <1>3 DEF SysInv, EachOnce
<1>5. ReaderTypes'
  BY <1>2, <1>3 DEF SysInv, ReaderTypes, Matching
<1>6. ListingGood'
  BY <1>1, <1>2, <1>3 DEF SysInv, ListingGood
<1> QED
  BY <1>1, <1>2, <1>4, <1>5, <1>6 DEF SysInv

LEMMA SysInductive == SysInv /\ [SysNext]_sysVars => SysInv'
<1> SUFFICES ASSUME SysInv, [SysNext]_sysVars PROVE SysInv'
  OBVIOUS
<1>1. CASE UNCHANGED sysVars
  <2>1. UNCHANGED <<vars, queryVars, phase, iterVars, seenVars>>
    BY <1>1 DEF sysVars, readerVars
  <2>2. Got' = Got /\ Seen' = Seen /\ Passed' = Passed
    BY <2>1 DEF Got, Seen, Passed, iterVars, seenVars
  <2> QED
    BY <2>1, <2>2, ServerStill
    DEF SysInv, ReaderTypes, EachOnce, SnapshotGood, ListingGood, queryVars, iterVars, seenVars
<1> QED
  BY <1>1, ClientsKeep, IterKeeps, RetrieveNextKeeps, DownloadKeeps, CompleteKeeps, ListKeeps
  DEF SysNext, ReaderStep

(* Next to any number of clients that archive any keys, lose answers, crash *)
(* and retry: an iteration of RucioRetrieve, or of a RucioList that did not *)
(* raise, that came to StopIteration has accounted for all that was fully   *)
(* archived before its __iter__.                                            *)
THEOREM ReadersFindArchived == SysSpec => []ArchivedIsFound
<1>1. SysInv => ArchivedIsFound
  <2> SUFFICES ASSUME SysInv, phase = "stopped", listing # "dead"
               PROVE  promised \subseteq Got \cup skipped \cup raised
    BY DEF ArchivedIsFound
  <2>1. CASE api = "retrieve"
    <3>1. SnapshotGood /\ promised \subseteq Names /\ Passed = Len(didList)
      BY <2>1 DEF SysInv, SnapshotGood, ReaderTypes, Passed
    <3> QED
      BY <3>1 DEF SnapshotGood, Seen
  <2>2. CASE api = "list"
    BY <2>2 DEF SysInv, ListingGood
  <2> QED
    BY <2>1, <2>2 DEF SysInv, ReaderTypes
<1> QED
  BY <1>1, SysInitInv, SysInductive, PTL DEF SysSpec

(* Nor does an iteration of either reader visit a DID twice, whatever       *)
(* raised in between.                                                       *)
THEOREM ReadersVisitOnce == SysSpec => []EachOnce
<1>1. SysInv => EachOnce
  BY DEF SysInv
<1> QED
  BY <1>1, SysInitInv, SysInductive, PTL DEF SysSpec

-----------------------------------------------------------------------------
(* Readers are only readers: whatever they do, the clients and the server   *)
(* behave as without them.                                                  *)
THEOREM ReadersOnlyRead == SysSpec => Spec
<1>1. SysInit => Init
  BY DEF SysInit
<1>2. [SysNext]_sysVars => [Next]_vars
  BY DEF SysNext, sysVars, Iter, RetrieveIter, ListIter, Start, ReaderStep, RetrieveNext,
         Download, ListNext, Complete, ListFails
<1> QED
  BY <1>1, <1>2, PTL DEF SysSpec, Spec

(* So all that holds of archive() holds next to a reader: what was uploaded *)
(* and returned is complete, the RuntimeError names all that is missing, a  *)
(* DID has one uploader, and nothing is taken away (Rucio.archive).         *)
THEOREM ArchiveCorrectNextToReaders ==
  SysSpec => [](UploadedIsComplete /\ MissingIsReported /\ OneUploader) /\ [][Grows]_vars
  BY ReadersOnlyRead, ArchiveCorrect, NothingIsTakenAway, PTL

(* The calls of next() and of its requests that an iteration of             *)
(* RucioRetrieve still has to make.                                         *)
RetrieveLeft ==
  CASE phase = "iterating" -> 3 * (Len(didList) - index) + 1
    [] phase = "download" -> 3 * (Len(didList) - index) + 3
    [] phase = "metadata" -> 3 * (Len(didList) - index) + 2
    [] OTHER -> 0

(* Every request of a RucioRetrieve brings it nearer to StopIteration, and  *)
(* what is archived meanwhile does not send it further.                     *)
ReadsOn ==
  api = "retrieve" =>
    /\ ReaderStep => RetrieveLeft' < RetrieveLeft
    /\ RetrieveLeft' > RetrieveLeft => Iter

LEMMA RetrieveLeftIsNat == SysInv => RetrieveLeft \in Nat
  BY DEF SysInv, ReaderTypes, RetrieveLeft

LEMMA ReaderReadsOn == SysInv /\ [SysNext]_sysVars => ReadsOn
<1> SUFFICES ASSUME SysInv, [SysNext]_sysVars, api = "retrieve" PROVE ReadsOn
  BY DEF ReadsOn
<1>1. didList \in Seq(Names) /\ Len(didList) \in Nat /\ index \in 0..Len(didList)
  BY DEF SysInv, ReaderTypes
<1>2. RetrieveLeft \in Nat /\ RetrieveLeft' \in Nat
  <2>1. SysInv'
    BY SysInductive
  <2>2. SysInv' => (RetrieveLeft \in Nat)'
    BY RetrieveLeftIsNat, PTL
  <2> QED
    BY <2>1, <2>2, RetrieveLeftIsNat
<1>3. ReaderStep => RetrieveLeft' < RetrieveLeft
  <2>1. RetrieveNext => RetrieveLeft' < RetrieveLeft
    BY <1>1 DEF RetrieveNext, RetrieveLeft
  <2>2. Download => RetrieveLeft' < RetrieveLeft
    BY <1>1 DEF Download, RetrieveLeft, iterVars
  <2>3. Complete => RetrieveLeft' < RetrieveLeft
    BY <1>1 DEF Complete, RetrieveLeft, iterVars
  <2> QED
    BY <2>1, <2>2, <2>3 DEF ReaderStep, ListNext
<1>4. UNCHANGED readerVars => RetrieveLeft' = RetrieveLeft
  BY DEF readerVars, iterVars, RetrieveLeft
<1>5. ~ListFails
  BY DEF ListFails
<1>6. \/ UNCHANGED readerVars \/ Iter \/ ReaderStep
  BY <1>5 DEF SysNext, sysVars
<1> QED
  BY <1>2, <1>3, <1>4, <1>6 DEF ReadsOn

(* The safety part of IterationEnds for RucioRetrieve: over n DIDs it makes *)
(* at most 3n + 1 requests, however many DIDs others archive meanwhile.     *)
THEOREM RetrieveMakesFewRequests == SysSpec => [](RetrieveLeft \in Nat) /\ [][ReadsOn]_sysVars
  BY SysInitInv, SysInductive, RetrieveLeftIsNat, ReaderReadsOn, PTL DEF SysSpec
=============================================================================

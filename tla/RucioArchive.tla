---------------------------- MODULE RucioArchive ----------------------------
(***************************************************************************)
(* Rucio.archive of pydasi's Rucio backend: several clients archive into   *)
(* one scope of a Rucio server.                                            *)
(*                                                                         *)
(* archive() is a chain of server calls: one upload, which registers the   *)
(* DID and its replica, and then one set_metadata per item of the key.     *)
(* Nothing makes the chain atomic.  Each call may fail, with or without    *)
(* its effect on the server (a lost answer); a client may die between two  *)
(* calls; other clients work in between; and a caller may try again.       *)
(*                                                                         *)
(* A key is a set of items.  The name of its DID, built from the sanitised *)
(* items (module RucioName), is the constant NameOf.                       *)
(***************************************************************************)
EXTENDS FiniteSets

CONSTANTS Clients,    \* processes that archive
          Keys,       \* the keys they archive: non-empty sets of items
          Names,      \* DID names
          NameOf,     \* [Keys -> Names], see RucioName
          Payloads    \* the data they archive

ASSUME NameOfAssumption == NameOf \in [Keys -> Names]
ASSUME KeysAssumption == Keys # {} /\ \A k \in Keys : IsFiniteSet(k)
ASSUME PayloadsAssumption == Payloads # {} /\ "none" \notin Payloads

Items == UNION Keys

VARIABLES
  dids,      \* external: the registered DIDs, their data and metadata
  pc,        \* per client: "idle", "upload" or "metadata"
  job,       \* per client: key and data of the archive() in progress, or last
  todo,      \* per client: the items whose set_metadata is still to come
  errors,    \* per client: metadata_errors
  outcome    \* history, per client: how its last archive() ended

clientVars == <<pc, job, todo, errors>>
vars == <<dids, clientVars, outcome>>

Jobs == [key : Keys, data : Payloads]

(* A DID: its replica, its metadata and, as history, the key whose          *)
(* archive() created it.                                                    *)
DID == [data : Payloads, metadata : SUBSET Items, key : Keys]
Absent == [data |-> "none", metadata |-> {}, key |-> {}]

Exists(n) == dids[n] # Absent
Name(c) == NameOf[job[c].key]

(* archive() ends for client c: "uploaded" and "present" are normal         *)
(* returns, "failed" and "unattached" exceptions; missing are the items the *)
(* RuntimeError of an unattached key names.  The local variables are gone.  *)
Ends(c, how, missing) ==
  /\ pc' = [pc EXCEPT ![c] = "idle"]
  /\ outcome' = [outcome EXCEPT ![c] = [how |-> how, missing |-> missing]]
  /\ todo' = [todo EXCEPT ![c] = {}]
  /\ errors' = [errors EXCEPT ![c] = {}]
  /\ UNCHANGED job

Hows == {"pending", "uploaded", "present", "failed", "unattached", "crashed"}
Pending == [how |-> "pending", missing |-> {}]

-----------------------------------------------------------------------------
(* archive(key, data): the file name is built and the data are written to a *)
(* temporary file; nothing shared is touched yet.                           *)
Archive(c, k, d) ==
  /\ pc[c] = "idle"
  /\ pc' = [pc EXCEPT ![c] = "upload"]
  /\ job' = [job EXCEPT ![c] = [key |-> k, data |-> d]]
  /\ todo' = [todo EXCEPT ![c] = k]
  /\ outcome' = [outcome EXCEPT ![c] = Pending]
  /\ UNCHANGED <<dids, errors>>

(* UploadClient.upload registers the DID and stores the replica (external). *)
Register(c) ==
  dids' = [dids EXCEPT ![Name(c)] = [data |-> job[c].data, metadata |-> {},
                                      key |-> job[c].key]]

(* Mutant of Upload: an upload to a name that exists replaces its content. *)
UploadReplaces(c) ==
  /\ pc[c] = "upload"
  /\ Register(c)
  /\ pc' = [pc EXCEPT ![c] = "metadata"]
  /\ UNCHANGED <<job, todo, errors, outcome>>

(* The upload succeeds and its result is accepted by                        *)
(* _validate_upload_result.                                                 *)
Upload(c) ==
  /\ pc[c] = "upload"
  /\ ~Exists(Name(c))
  /\ Register(c)
  /\ pc' = [pc EXCEPT ![c] = "metadata"]
  /\ UNCHANGED <<job, todo, errors, outcome>>

(* The name is taken: NoFilesUploaded is only logged, uploaded stays False, *)
(* the metadata loop is skipped and archive() returns normally.             *)
UploadPresent(c) ==
  /\ pc[c] = "upload"
  /\ Exists(Name(c))
  /\ Ends(c, "present", {})
  /\ UNCHANGED dids

(* Mutant of UploadFails: a failed upload is only logged as well. *)
UploadFailureIgnored(c) ==
  /\ pc[c] = "upload"
  /\ UNCHANGED dids
  /\ Ends(c, "uploaded", {})

(* Any other exception of the upload, or a result that                      *)
(* _validate_upload_result refuses, is raised; the server may have          *)
(* registered the DID all the same.                                         *)
UploadFails(c) ==
  /\ pc[c] = "upload"
  /\ \/ UNCHANGED dids
     \/ ~Exists(Name(c)) /\ Register(c)
  /\ Ends(c, "failed", {})

(* set_metadata (external): one item is attached to the DID. *)
Attach(c, i) == dids' = [dids EXCEPT ![Name(c)].metadata = @ \cup {i}]

SetMetadata(c, i) ==
  /\ pc[c] = "metadata"
  /\ i \in todo[c]
  /\ Attach(c, i)
  /\ todo' = [todo EXCEPT ![c] = @ \ {i}]
  /\ UNCHANGED <<pc, job, errors, outcome>>

(* Mutant of SetMetadataFails: the errors list is started anew each time. *)
KeepsLastErrorOnly(c, i) ==
  /\ pc[c] = "metadata"
  /\ i \in todo[c]
  /\ UNCHANGED dids \/ Attach(c, i)
  /\ todo' = [todo EXCEPT ![c] = @ \ {i}]
  /\ errors' = [errors EXCEPT ![c] = {i}]
  /\ UNCHANGED <<pc, job, outcome>>

(* A failing set_metadata is collected and the loop goes on; the item may   *)
(* have been attached all the same.                                         *)
SetMetadataFails(c, i) ==
  /\ pc[c] = "metadata"
  /\ i \in todo[c]
  /\ UNCHANGED dids \/ Attach(c, i)
  /\ todo' = [todo EXCEPT ![c] = @ \ {i}]
  /\ errors' = [errors EXCEPT ![c] = @ \cup {i}]
  /\ UNCHANGED <<pc, job, outcome>>

(* Mutant of Finish: the items that failed are tried again, without limit. *)
FinishRetries(c) ==
  /\ pc[c] = "metadata"
  /\ todo[c] = {}
  /\ \/ errors[c] = {} /\ Ends(c, "uploaded", {})
     \/ /\ errors[c] # {}
        /\ todo' = [todo EXCEPT ![c] = errors[c]]
        /\ errors' = [errors EXCEPT ![c] = {}]
        /\ UNCHANGED <<pc, job, outcome>>
  /\ UNCHANGED dids

(* After the loop: RuntimeError when there were errors, else return. *)
Finish(c) ==
  /\ pc[c] = "metadata"
  /\ todo[c] = {}
  /\ \/ errors[c] = {} /\ Ends(c, "uploaded", {})
     \/ errors[c] # {} /\ Ends(c, "unattached", errors[c])
  /\ UNCHANGED dids

(* The client process dies between two server calls; a new one takes over. *)
Crash(c) ==
  /\ pc[c] # "idle"
  /\ Ends(c, "crashed", {})
  /\ UNCHANGED dids

Init ==
  /\ dids = [n \in Names |-> Absent]
  /\ pc = [c \in Clients |-> "idle"]
  /\ job = [c \in Clients |-> CHOOSE j \in Jobs : TRUE]
  /\ todo = [c \in Clients |-> {}]
  /\ errors = [c \in Clients |-> {}]
  /\ outcome = [c \in Clients |-> Pending]

Step(c) ==
  \/ Upload(c) \/ UploadPresent(c) \/ UploadFails(c)
  \/ \E i \in todo[c] : SetMetadata(c, i) \/ SetMetadataFails(c, i)
  \/ Finish(c)

Next ==
  \E c \in Clients :
    \/ \E k \in Keys, d \in Payloads : Archive(c, k, d)
    \/ Step(c)
    \/ Crash(c)

Spec == Init /\ [][Next]_vars

(* The server calls of an archive() in progress return, with a result or an *)
(* error: the clients set no limit on them, but they do not block forever.  *)
FairSpec == Spec /\ \A c \in Clients : WF_vars(Step(c))

-----------------------------------------------------------------------------
(* Type invariant of the clients and the server. *)
TypeOK ==
  /\ dids \in [Names -> DID \cup {Absent}]
  /\ pc \in [Clients -> {"idle", "upload", "metadata"}]
  /\ job \in [Clients -> Jobs]
  /\ todo \in [Clients -> SUBSET Items]
  /\ errors \in [Clients -> SUBSET Items]
  /\ outcome \in [Clients -> [how : Hows, missing : SUBSET Items]]

(* The DID of the last archive() of a client. *)
Target(c) == dids[Name(c)]

(* A client that did the upload and returned normally left its own data and *)
(* all the items of its key on the server, and they stay there whatever     *)
(* other clients archive, retry or lose later.                              *)
UploadedIsComplete ==
  \A c \in Clients : outcome[c].how = "uploaded" =>
    Target(c).data = job[c].data /\ job[c].key \subseteq Target(c).metadata

(* The RuntimeError about metadata names every item that is missing, and it *)
(* is raised only for data that did get stored.                             *)
MissingIsReported ==
  \A c \in Clients : outcome[c].how = "unattached" =>
    /\ Target(c).data = job[c].data
    /\ job[c].key \ Target(c).metadata \subseteq outcome[c].missing

(* Two clients never both own a DID: of concurrent archives of one name at  *)
(* most one goes on to attach metadata.                                     *)
OneUploader ==
  \A c, e \in Clients :
    c # e /\ pc[c] = "metadata" /\ pc[e] = "metadata" => Name(c) # Name(e)

(* Every archive() ends: it returns, raises, or its process dies. *)
ArchiveEnds == \A c \in Clients : pc[c] # "idle" ~> pc[c] = "idle"

(* A normal return of archive() means that the DID carries every item of    *)
(* the key, so that the data can be found by its metadata                   *)
(* (Rucio_Backend_Integration.md, section 2.1).                             *)
ReturnedIsSearchable ==
  \A c \in Clients : outcome[c].how \in {"uploaded", "present"} =>
    job[c].key \subseteq Target(c).metadata

(* After a normal return of archive() the DID it was about holds data that  *)
(* were archived under this very key: metadata keys identify the data       *)
(* uniquely (README.rst).                                                   *)
KeyIdentifiesData ==
  \A c \in Clients : outcome[c].how \in {"uploaded", "present"} =>
    Target(c).key = job[c].key
=============================================================================

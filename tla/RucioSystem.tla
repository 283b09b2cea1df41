----------------------------- MODULE RucioSystem ----------------------------
(***************************************************************************)
(* A reader of the Rucio backend next to the archiving clients of          *)
(* RucioArchive: a RucioRetrieve or a RucioList iterates over the DIDs     *)
(* that match a metadata filter while other processes archive.             *)
(*                                                                         *)
(* RucioRetrieve.__iter__ takes a snapshot of the matching DIDs, and each  *)
(* __next__ downloads one, skipping those that cannot be downloaded; the   *)
(* metadata of an item are fetched after its data, and a failure there     *)
(* leaves the item without key.  RucioList.__iter__ only starts a server   *)
(* side listing, which __next__ advances lazily.                           *)
(***************************************************************************)
EXTENDS RucioArchive, Sequences, SequencesExt

CONSTANT Filters     \* the filters readers ask for: sets of items

VARIABLES
  api,        \* which of the two the reader is: "retrieve", "list", or "none"
  filter,     \* _filters
  phase,      \* "new", "iterating", "download", "metadata" or "stopped"
  didList,    \* RucioRetrieve._did_list, the snapshot
  index,      \* RucioRetrieve._index
  listing,    \* RucioList._iter: "none", "open" or, once it raised, "dead"
  entry,      \* the entry next() works on
  got,        \* the items next() returned: name and metadata
  skipped,    \* names passed over because they were not downloadable
  raised,     \* names whose download raised out of next()
  promised    \* history: matching names fully archived when __iter__ ran

queryVars == <<api, filter, promised>>
iterVars == <<didList, index, listing, entry>>
seenVars == <<got, skipped, raised>>
readerVars == <<queryVars, phase, iterVars, seenVars>>
sysVars == <<vars, readerVars>>

(* The server's answer to list_dids (external): the registered DIDs that    *)
(* carry every item of the filter.                                          *)
Matching == {n \in Names : Exists(n) /\ filter \subseteq dids[n].metadata}

(* get_metadata: the items attached so far, or nothing when it fails, which *)
(* is only logged.                                                          *)
Metadata(n) == {dids[n].metadata, {}}

Got == {g.name : g \in got}

FullyArchived ==
  {Name(c) : c \in {c \in Clients : outcome[c].how = "uploaded" /\ filter \subseteq job[c].key}}

(* A new iteration, also of an iterator used before. *)
Start ==
  /\ phase \in {"new", "iterating", "stopped"}
  /\ phase' = "iterating"
  /\ got' = {} /\ skipped' = {} /\ raised' = {}
  /\ promised' = FullyArchived
  /\ UNCHANGED <<vars, api, filter, entry>>

-----------------------------------------------------------------------------
(* RucioRetrieve.__iter__: snapshot and rewind. *)
RetrieveIter ==
  /\ api = "retrieve"
  /\ Start
  /\ didList' \in SetToSeqs(Matching)
  /\ index' = 0
  /\ UNCHANGED listing

(* Mutant of RetrieveNext: the bound is off by one, the last entry is lost. *)
NextDropsLast ==
  /\ api = "retrieve" /\ phase = "iterating"
  /\ \/ /\ index + 1 < Len(didList)
        /\ index' = index + 1
        /\ entry' = didList[index + 1]
        /\ phase' = "download"
     \/ /\ index + 1 >= Len(didList)
        /\ phase' = "stopped"
        /\ UNCHANGED <<index, entry>>
  /\ UNCHANGED <<vars, queryVars, didList, listing, seenVars>>

(* RucioRetrieve.__next__ takes the next entry, or raises StopIteration. *)
RetrieveNext ==
  /\ api = "retrieve" /\ phase = "iterating"
  /\ \/ /\ index < Len(didList)
        /\ index' = index + 1
        /\ entry' = didList[index + 1]
        /\ phase' = "download"
     \/ /\ index = Len(didList)
        /\ phase' = "stopped"
        /\ UNCHANGED <<index, entry>>
  /\ UNCHANGED <<vars, queryVars, didList, listing, seenVars>>

(* Mutant of Download: the index moves on only after a download that did   *)
(* not raise.                                                               *)
DownloadRetries ==
  /\ phase = "download"
  /\ \/ phase' = "metadata" /\ UNCHANGED <<iterVars, seenVars>>
     \/ /\ phase' = "iterating" /\ index' = index - 1
        /\ raised' = raised \cup {entry}
        /\ UNCHANGED <<didList, listing, entry, got, skipped>>
  /\ UNCHANGED <<vars, queryVars>>

(* _download: it returns the bytes; or it raises NoFilesDownloaded or       *)
(* FileNotFoundError and the loop goes on with the next entry; or another   *)
(* exception leaves __next__, whose index has already moved on.             *)
Download ==
  /\ phase = "download"
  /\ \/ phase' = "metadata" /\ UNCHANGED seenVars
     \/ phase' = "iterating" /\ skipped' = skipped \cup {entry} /\ UNCHANGED <<got, raised>>
     \/ phase' = "iterating" /\ raised' = raised \cup {entry} /\ UNCHANGED <<got, skipped>>
  /\ UNCHANGED <<vars, queryVars, iterVars>>

(* The item is completed with its metadata, if they can be fetched. *)
Complete ==
  /\ phase = "metadata"
  /\ \E m \in Metadata(entry) : got' = got \cup {[name |-> entry, metadata |-> m]}
  /\ phase' = "iterating"
  /\ UNCHANGED <<vars, queryVars, iterVars, skipped, raised>>

-----------------------------------------------------------------------------
(* RucioList.__iter__: a listing is started, in place of an older one. *)
ListIter ==
  /\ api = "list"
  /\ Start
  /\ listing' = "open"
  /\ UNCHANGED <<didList, index>>

(* Mutant of ListNext: the entry is taken off the listing after its        *)
(* metadata were asked for, so that one whose item was returned may come   *)
(* again.                                                                   *)
ListNextRepeats ==
  /\ api = "list" /\ phase = "iterating"
  /\ \/ listing = "open" /\ entry' \in Matching /\ phase' = "metadata"
     \/ (listing = "dead" \/ Matching \subseteq Got) /\ phase' = "stopped" /\ UNCHANGED entry
  /\ UNCHANGED <<vars, queryVars, didList, index, listing, seenVars>>

(* RucioList.__next__: the server's next entry.  The listing is evaluated   *)
(* lazily: any match not listed yet may come; when none is left it ends.    *)
(* A listing that raised is finished as well.                               *)
ListNext ==
  /\ api = "list" /\ phase = "iterating"
  /\ \/ /\ listing = "open"
        /\ entry' \in Matching \ Got
        /\ phase' = "metadata"
     \/ /\ listing = "dead" \/ Matching \subseteq Got
        /\ phase' = "stopped"
        /\ UNCHANGED entry
  /\ UNCHANGED <<vars, queryVars, didList, index, listing, seenVars>>

(* The listing raises (a lost connection) out of next(); it is a generator, *)
(* so the next call finds it finished.                                      *)
ListFails ==
  /\ api = "list" /\ phase = "iterating" /\ listing = "open"
  /\ listing' = "dead"
  /\ UNCHANGED <<vars, queryVars, phase, didList, index, entry, seenVars>>

SysInit ==
  /\ Init
  /\ api \in {"none", "retrieve", "list"}
  /\ filter \in Filters
  /\ phase = "new"
  /\ didList = << >> /\ index = 0 /\ listing = "none" /\ entry = (CHOOSE n \in Names : TRUE)
  /\ got = {} /\ skipped = {} /\ raised = {} /\ promised = {}

Iter == RetrieveIter \/ ListIter
ReaderStep == RetrieveNext \/ Download \/ ListNext \/ Complete

SysNext ==
  \/ Next /\ UNCHANGED readerVars
  \/ Iter \/ ReaderStep \/ ListFails

SysSpec == SysInit /\ [][SysNext]_sysVars

(* A caller that keeps calling next(); every request to the server returns, *)
(* with a result or an error, to a reader as to an archiving client.        *)
SysFairSpec ==
  /\ SysSpec
  /\ \A c \in Clients : WF_sysVars(Step(c) /\ UNCHANGED readerVars)
  /\ WF_sysVars(ReaderStep)

-----------------------------------------------------------------------------
(* Data whose archive() had returned to the client that uploaded them are   *)
(* never missed by a list() or retrieve() iterated afterwards: when next()  *)
(* raises StopIteration, each was returned, skipped as not downloadable, or *)
(* had its exception.  Only the listing of a RucioList that itself raised   *)
(* ends early.                                                              *)
ArchivedIsFound ==
  phase = "stopped" /\ listing # "dead" => promised \subseteq Got \cup skipped \cup raised

(* No DID is visited twice in an iteration, whatever was raised in between. *)
EachOnce ==
  /\ Cardinality(got) = Cardinality(Got)
  /\ Got \cap (skipped \cup raised) = {}
  /\ skipped \cap raised = {}

(* An iteration that is not begun again comes to StopIteration, whatever is *)
(* archived meanwhile and whatever fails.                                   *)
IterationEnds ==
  <>[][~Iter]_sysVars => (phase = "iterating" ~> phase = "stopped")
=============================================================================

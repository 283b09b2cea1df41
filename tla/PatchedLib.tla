----------------------------- MODULE PatchedLib -----------------------------
(***************************************************************************)
(* PatchedLib of pydasi: the lazy loading of the C library, which every    *)
(* constructor of the package triggers from whatever thread it runs in,    *)
(* and the calls through the wrappers that turn error codes into           *)
(* exceptions.                                                             *)
(*                                                                         *)
(* load() takes no lock.  Threads may switch between any two of its steps, *)
(* and a load() that failed may be tried again.  A wrapped call fetches    *)
(* the error text by a second C call; in between other threads call.       *)
(***************************************************************************)
EXTENDS Naturals, FiniteSets, Sequences

CONSTANTS Threads,
          Functions,     \* the functions of the C API
          Lackable,      \* those a library may lack, by its age or how it was built
          Versions,      \* of libraries, as ordered numbers
          PackageVersion,
          MaxFiles,      \* bound on the files on the search path
          MaxLoads       \* bound on the runs of load() that do not just return

ASSUME LibraryAssumption ==
  /\ Lackable \subseteq Functions /\ MaxLoads \in Nat /\ MaxFiles \in Nat
  /\ Versions \subseteq Nat /\ PackageVersion \in Nat

VARIABLES
  files,        \* external: the files of the search path, in the order of the walk
  loaded,       \* PatchedLib.__loaded
  lib,          \* PatchedLib.__lib: the file dlopen was done on, or NoFile
  wrapped,      \* the functions that are attributes of PatchedLib
  initialised,  \* dasi_initialise_api: "no" call, "failed", or "yes", the flag is set
  cdefs,        \* history: how often ffi.cdef was run
  pc,           \* per thread: the step it is at
  todo,         \* per thread: functions load() still has to wrap
  error,        \* gCurrentErrorString, thread_local: the class it was set by
  thrown,       \* per thread: the class the C++ code threw in the last call
  message       \* per thread: what the last DASIException reports

loadVars == <<files, loaded, lib, wrapped, initialised, cdefs>>
callVars == <<error, thrown, message>>
vars == <<loadVars, pc, todo, callVars>>

(* What lies on the search path: a library of a version with the functions  *)
(* it lacks, a file that only has the name of one somewhere in its path, or *)
(* something else.                                                          *)
NoFile == [kind |-> "none", version |-> 0, lacks |-> {}]
Files ==
  [kind : {"library"}, version : Versions, lacks : SUBSET Lackable]
    \cup [kind : {"decoy", "other"}, version : {0}, lacks : {{}}]

(* version.is_compatible. *)
IsCompatible(version) == version >= PackageVersion

(* FindLib: the directory of the package, those of DASI_DIR, dasi_DIR and   *)
(* LD_LIBRARY_PATH and then /usr/local are walked; the first file whose     *)
(* path contains "libdasi" is the one, or there is none.                    *)
Found ==
  LET named == {i \in DOMAIN files : files[i].kind # "other"}
  IN  IF named = {} THEN NoFile ELSE files[CHOOSE i \in named : \A j \in named : i <= j]

(* The exceptions eckit and the standard library may throw, by class.       *)
Classes == {"SeriousBug", "UserError", "AssertionFailed", "Exception", "std", "other"}

Steps == {"idle", "cdef", "dlopen", "wrap", "version", "init", "main", "mark", "ready",
          "called", "failed"}

Goto(t, step) == pc' = [pc EXCEPT ![t] = step]

-----------------------------------------------------------------------------
(* load() is called: it returns at once when __loaded is set. *)
Load(t) ==
  /\ pc[t] \in {"idle", "failed"}
  /\ \/ loaded /\ Goto(t, "ready")
     \/ ~loaded /\ cdefs < MaxLoads /\ Goto(t, "cdef")
  /\ UNCHANGED <<loadVars, todo, callVars>>

(* ffi.cdef with the declarations of the API; cffi may refuse them when it  *)
(* has them already.                                                        *)
Cdef(t) ==
  /\ pc[t] = "cdef"
  /\ cdefs' = cdefs + 1
  /\ Goto(t, "dlopen") \/ (cdefs > 0 /\ Goto(t, "failed"))
  /\ UNCHANGED <<files, loaded, lib, wrapped, initialised, todo, callVars>>

(* FindLib and ffi.dlopen, or CFFIModuleLoadFailed from either: nothing was *)
(* found, or what was found is no library, or one that cannot be opened.    *)
Dlopen(t) ==
  /\ pc[t] = "dlopen"
  /\ \/ Found.kind = "library" /\ lib' = Found /\ Goto(t, "wrap") /\ todo' = [todo EXCEPT ![t] = Functions]
     \/ Goto(t, "failed") /\ UNCHANGED <<lib, todo>>
  /\ UNCHANGED <<files, loaded, wrapped, initialised, cdefs, callVars>>

(* One round of the loop over the functions: the attribute is set, or the   *)
(* failure to bind one the library lacks is only logged, whatever its       *)
(* version.                                                                 *)
WrapOne(t) ==
  /\ pc[t] = "wrap"
  /\ \E f \in todo[t] :
       /\ wrapped' = wrapped \cup ({f} \ lib.lacks)
       /\ todo' = [todo EXCEPT ![t] = @ \ {f}]
  /\ UNCHANGED <<files, loaded, lib, initialised, cdefs, pc, callVars>>

WrapDone(t) ==
  /\ pc[t] = "wrap" /\ todo[t] = {}
  /\ Goto(t, "version")
  /\ UNCHANGED <<loadVars, todo, callVars>>

(* Mutant of CheckVersion: the flag is set before the library is ready. *)
MarksEarly(t) ==
  /\ pc[t] = "version"
  /\ IF IsCompatible(lib.version) THEN loaded' = TRUE /\ Goto(t, "init") ELSE Goto(t, "failed") /\ UNCHANGED loaded
  /\ UNCHANGED <<files, lib, wrapped, initialised, cdefs, todo, callVars>>

(* check_version: CFFIModuleLoadFailed when the library is older. *)
CheckVersion(t) ==
  /\ pc[t] = "version"
  /\ Goto(t, IF IsCompatible(lib.version) THEN "init" ELSE "failed")
  /\ UNCHANGED <<loadVars, todo, callVars>>

(* dasi_initialise_api, called on the bare library without the GIL: the     *)
(* flag is looked at, ...                                                   *)
InitialiseCheck(t) ==
  /\ pc[t] = "init"
  /\ Goto(t, IF initialised = "yes" THEN "mark" ELSE "main")
  /\ UNCHANGED <<loadVars, todo, callVars>>

(* ... and eckit::Main is set up, by each of several threads that found it  *)
(* unset.  When that throws the flag stays as it is, and load() does not    *)
(* look at the return code.                                                 *)
InitialiseMain(t) ==
  /\ pc[t] = "main"
  /\ initialised' \in IF initialised = "yes" THEN {"yes"} ELSE {"yes", "failed"}
  /\ Goto(t, "mark")
  /\ UNCHANGED <<files, loaded, lib, wrapped, cdefs, todo, callVars>>

(* __loaded is set "AFTER all initialization is complete". *)
Mark(t) ==
  /\ pc[t] = "mark"
  /\ loaded' = TRUE
  /\ Goto(t, "ready")
  /\ UNCHANGED <<files, lib, wrapped, initialised, cdefs, todo, callVars>>

-----------------------------------------------------------------------------
(* Mutant of CallFails: the error text is one for all threads. *)
CallFailsShared(t, class) ==
  /\ pc[t] = "ready"
  /\ error' = [u \in Threads |-> class]
  /\ thrown' = [thrown EXCEPT ![t] = class]
  /\ Goto(t, "called")
  /\ UNCHANGED <<loadVars, todo, message>>

(* A call whose C++ code throws: try_catch records the text of what was     *)
(* thrown in the thread's error string and returns an error code.           *)
CallFails(t, class) ==
  /\ pc[t] = "ready"
  /\ error' = [error EXCEPT ![t] = class]
  /\ thrown' = [thrown EXCEPT ![t] = class]
  /\ Goto(t, "called")
  /\ UNCHANGED <<loadVars, todo, message>>

(* A call that succeeds, dasi_free_* of a finalizer included, leaves the    *)
(* error string as it is and raises nothing.                                *)
CallSucceeds(t) ==
  /\ pc[t] = "ready"
  /\ thrown' = [thrown EXCEPT ![t] = "none"]
  /\ message' = [message EXCEPT ![t] = "none"]
  /\ UNCHANGED <<loadVars, pc, todo, error>>

(* wrapped_fn gets the error text by a call of its own and raises. *)
RaiseError(t) ==
  /\ pc[t] = "called"
  /\ message' = [message EXCEPT ![t] = error[t]]
  /\ Goto(t, "ready")
  /\ UNCHANGED <<loadVars, todo, error, thrown>>

Init ==
  /\ files \in UNION {[1..n -> Files] : n \in 0..MaxFiles}
  /\ loaded = FALSE /\ lib = NoFile /\ wrapped = {} /\ initialised = "no" /\ cdefs = 0
  /\ pc = [t \in Threads |-> "idle"]
  /\ todo = [t \in Threads |-> {}]
  /\ error = [t \in Threads |-> "none"]
  /\ thrown = [t \in Threads |-> "none"]
  /\ message = [t \in Threads |-> "none"]

LoadStep(t) ==
  \/ Cdef(t) \/ Dlopen(t) \/ WrapOne(t) \/ WrapDone(t)
  \/ CheckVersion(t) \/ InitialiseCheck(t) \/ InitialiseMain(t) \/ Mark(t)

Next ==
  \E t \in Threads :
    \/ Load(t) \/ LoadStep(t)
    \/ \E class \in Classes : CallFails(t, class)
    \/ CallSucceeds(t) \/ RaiseError(t)

Spec == Init /\ [][Next]_vars

-----------------------------------------------------------------------------
(* Type invariant of the library wrapper. *)
TypeOK ==
  /\ files \in Seq(Files)
  /\ loaded \in BOOLEAN /\ lib \in Files \cup {NoFile} /\ initialised \in {"no", "failed", "yes"}
  /\ wrapped \subseteq Functions
  /\ cdefs \in 0..(MaxLoads + Cardinality(Threads))
  /\ pc \in [Threads -> Steps]
  /\ todo \in [Threads -> SUBSET Functions]
  /\ error \in [Threads -> Classes \cup {"none"}]
  /\ thrown \in [Threads -> Classes \cup {"none"}]
  /\ message \in [Threads -> Classes \cup {"none"}]

(* A load() that returned found, or made, the first library of the search   *)
(* path open, new enough, with every function it has wrapped and past       *)
(* dasi_initialise_api, also when another thread loads it a second time or  *)
(* a load() before failed.                                                  *)
ReadyIsComplete ==
  \A t \in Threads : pc[t] \in {"ready", "called"} =>
    /\ lib = Found /\ lib.kind = "library" /\ IsCompatible(lib.version)
    /\ wrapped = Functions \ lib.lacks /\ initialised # "no"

(* A DASIException carries the text of the call it is raised for, whatever  *)
(* fails in other threads or was left behind by earlier calls.              *)
OwnMessage == \A t \in Threads : pc[t] = "ready" => message[t] = thrown[t]
=============================================================================

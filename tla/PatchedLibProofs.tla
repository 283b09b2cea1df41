-------------------------- MODULE PatchedLibProofs --------------------------
(***************************************************************************)
(* Proofs about PatchedLib for any number of threads, any search path, any *)
(* set of functions and any number of runs of load().                      *)
(***************************************************************************)
EXTENDS PatchedLib, FiniteSetTheorems, WellFoundedInduction, TLAPS

Types ==
  /\ loaded \in BOOLEAN
  /\ wrapped \subseteq Functions
  /\ pc \in [Threads -> Steps]
  /\ todo \in [Threads -> SUBSET Functions]
  /\ error \in [Threads -> Classes \cup {"none"}]
  /\ thrown \in [Threads -> Classes \cup {"none"}]
  /\ message \in [Threads -> Classes \cup {"none"}]

(* The library that is open is the one of the search path; what a thread    *)
(* knows after each step of load() stays true whatever the others do.       *)
Opened == lib = Found /\ lib.kind = "library"
Complete == Opened /\ IsCompatible(lib.version) /\ wrapped = Functions \ lib.lacks

Progress ==
  /\ (lib = NoFile /\ wrapped = {}) \/ Opened
  /\ wrapped \cap lib.lacks = {}
  /\ loaded => Complete /\ initialised # "no"
  /\ \A t \in Threads :
       /\ pc[t] = "wrap" => Opened /\ Functions \ todo[t] \subseteq wrapped \cup lib.lacks
       /\ pc[t] = "version" => Opened /\ Functions \subseteq wrapped \cup lib.lacks
       /\ pc[t] \in {"init", "main", "mark", "ready", "called"} => Complete
       /\ pc[t] \in {"mark", "ready", "called"} => initialised # "no"

(* What the error string of a thread holds between the two C calls. *)
Reports ==
  \A t \in Threads : IF pc[t] = "called" THEN error[t] = thrown[t]
                                         ELSE message[t] = thrown[t]

LibInv == Types /\ Progress /\ Reports

LEMMA InitInv == Init => LibInv
<1> SUFFICES ASSUME Init PROVE LibInv
  OBVIOUS
<1>1. \A t \in Threads : pc[t] = "idle" /\ message[t] = "none" /\ thrown[t] = "none"
  BY DEF Init
<1> QED
  BY <1>1 DEF Init, LibInv, Types, Progress, Reports, Steps, Classes

(* The search path does not change, nor does the library found on it. *)
LEMMA FoundStays == UNCHANGED files => Found' = Found
  BY DEF Found

LEMMA TypesKept ==
  ASSUME LibInv, [Next]_vars
  PROVE  Types' /\ UNCHANGED files
<1>1. CASE UNCHANGED vars
  BY <1>1 DEF vars, loadVars, callVars, LibInv, Types
<1>2. CASE Next
  <2>1. PICK t \in Threads : \/ Load(t) \/ LoadStep(t)
                             \/ \E class \in Classes : CallFails(t, class)
                             \/ CallSucceeds(t) \/ RaiseError(t)
    BY <1>2 DEF Next
  <2>2. CASE Load(t)
    BY <2>2 DEF Load, Goto, loadVars, callVars, LibInv, Types, Steps
  <2>3. CASE Cdef(t)
    BY <2>3 DEF Cdef, Goto, callVars, LibInv, Types, Steps
  <2>4. CASE Dlopen(t)
    BY <2>4 DEF Dlopen, Goto, callVars, LibInv, Types, Steps
  <2>5. CASE WrapOne(t)
    BY <2>5 DEF WrapOne, callVars, LibInv, Types
  <2>6. CASE WrapDone(t) \/ CheckVersion(t)
    BY <2>6 DEF WrapDone, CheckVersion, Goto, loadVars, callVars, LibInv, Types, Steps
  <2>7. CASE InitialiseCheck(t) \/ InitialiseMain(t) \/ Mark(t)
    BY <2>7 DEF InitialiseCheck, InitialiseMain, Mark, Goto, loadVars, callVars, LibInv, Types, Steps
  <2>8. CASE \E class \in Classes : CallFails(t, class)
    BY <2>8 DEF CallFails, Goto, loadVars, LibInv, Types, Steps
  <2>9. CASE CallSucceeds(t) \/ RaiseError(t)
    BY <2>9 DEF CallSucceeds, RaiseError, Goto, loadVars, LibInv, Types, Steps
  <2> QED
    BY <2>1, <2>2, <2>3, <2>4, <2>5, <2>6, <2>7, <2>8, <2>9 DEF LoadStep
<1> QED
  BY <1>1, <1>2

(* Another thread's step never takes back what a thread relies on: an open  *)
(* library is opened again, functions are only added, a success stays one.  *)
LEMMA NothingTakenBack ==
  ASSUME LibInv, [Next]_vars
  PROVE  /\ Opened => Opened' /\ lib' = lib
         /\ wrapped \subseteq wrapped'
         /\ initialised # "no" => initialised' # "no"
         /\ (lib' = NoFile /\ wrapped' = {}) \/ Opened'
         /\ wrapped' \cap lib'.lacks = {}
<1>1. Found' = Found /\ wrapped \subseteq Functions
  BY TypesKept, FoundStays DEF LibInv, Types
<1>2. lib' = lib \/ (lib' = Found /\ Found.kind = "library")
  BY DEF Next, LoadStep, Load, Cdef, Dlopen, WrapOne, WrapDone, CheckVersion, InitialiseCheck, InitialiseMain,
         Mark, CallFails, CallSucceeds, RaiseError, vars, loadVars
<1>3. wrapped \subseteq wrapped'
  BY DEF Next, LoadStep, Load, Cdef, Dlopen, WrapOne, WrapDone, CheckVersion, InitialiseCheck, InitialiseMain,
         Mark, CallFails, CallSucceeds, RaiseError, vars, loadVars
<1>4. initialised # "no" => initialised' # "no"
  BY DEF Next, LoadStep, Load, Cdef, Dlopen, WrapOne, WrapDone, CheckVersion, InitialiseCheck, InitialiseMain,
         Mark, CallFails, CallSucceeds, RaiseError, vars, loadVars
<1>5. \/ wrapped' = wrapped
      \/ /\ lib' = lib /\ Opened
         /\ \E f \in Functions : wrapped' = wrapped \cup ({f} \ lib.lacks)
  <2>1. ASSUME NEW t \in Threads, WrapOne(t)
        PROVE  /\ lib' = lib /\ Opened
               /\ \E f \in Functions : wrapped' = wrapped \cup ({f} \ lib.lacks)
    BY <2>1 DEF WrapOne, LibInv, Types, Progress
  <2> QED
    BY <2>1 DEF Next, LoadStep, Load, Cdef, Dlopen, WrapDone, CheckVersion, InitialiseCheck,
           InitialiseMain, Mark, CallFails, CallSucceeds, RaiseError, vars, loadVars
<1>6. \/ lib = NoFile /\ wrapped = {}
      \/ Opened
  BY DEF LibInv, Progress
<1>7. Opened => Opened' /\ lib' = lib
  BY <1>1, <1>2 DEF Opened
<1>8. lib # NoFile => lib' = lib
  BY <1>6, <1>7
<1>9. (lib' = NoFile /\ wrapped' = {}) \/ Opened'
  BY <1>1, <1>2, <1>5, <1>6, <1>7 DEF Opened
<1>10. wrapped' \cap lib'.lacks = {}
  <2>1. wrapped \cap lib.lacks = {}
    BY DEF LibInv, Progress
  <2>2. CASE lib' = lib
    BY <1>5, <2>1, <2>2
  <2>3. CASE lib' # lib
    <3>1. wrapped = {} /\ wrapped' = wrapped
      BY <1>5, <1>6, <1>7, <2>3
    <3> QED
      BY <3>1
  <2> QED
    BY <2>2, <2>3
<1> QED
  BY <1>1, <1>3, <1>4, <1>7, <1>9, <1>10

LEMMA CompleteStays ==
  ASSUME LibInv, [Next]_vars, Complete
  PROVE  Complete'
  BY NothingTakenBack, TypesKept DEF Complete, Types, Opened

(* What a thread knows after the step it is about to have done. *)
Knows(t, step) ==
  /\ step = "wrap" => Opened /\ Functions \ todo[t] \subseteq wrapped \cup lib.lacks
  /\ step = "version" => Opened /\ Functions \subseteq wrapped \cup lib.lacks
  /\ step \in {"init", "main", "mark", "ready", "called"} => Complete
  /\ step \in {"mark", "ready", "called"} => initialised # "no"

(* A thread that does not move, or moves only its calls, still knows it. *)
LEMMA OthersKept ==
  ASSUME LibInv, [Next]_vars, NEW t \in Threads, NEW step \in Steps, Knows(t, step),
         todo'[t] = todo[t]
  PROVE  Knows(t, step)'
<1> QED
  BY NothingTakenBack, CompleteStays DEF Knows

(* The thread that does the step knows what its next step asks for. *)
LEMMA MoverKnows ==
  ASSUME LibInv, NEW t \in Threads, LoadStep(t) \/ Load(t), [Next]_vars
  PROVE  Knows(t, pc[t])' 
<1>1. /\ pc[t] \in Steps /\ pc'[t] \in Steps /\ wrapped \subseteq Functions
      /\ Knows(t, pc[t]) /\ todo \in [Threads -> SUBSET Functions]
      /\ pc \in [Threads -> Steps]
  BY TypesKept, NothingTakenBack DEF LibInv, Types, Progress, Knows
<1>2. CASE Load(t)
  <2>1. CASE loaded /\ Goto(t, "ready")
    <3>1. Complete /\ initialised # "no" /\ pc'[t] = "ready"
      BY <1>1, <2>1 DEF Goto, LibInv, Progress
    <3> QED
      BY <3>1, CompleteStays, NothingTakenBack DEF Knows
  <2>2. CASE Goto(t, "cdef")
    BY <1>1, <2>2 DEF Goto, Knows
  <2> QED
    BY <1>2, <2>1, <2>2 DEF Load
<1>3. CASE Cdef(t)
  <2>1. pc'[t] \in {"dlopen", "failed"}
    BY <1>1, <1>3 DEF Cdef, Goto
  <2> QED
    BY <2>1 DEF Knows
<1>4. CASE Dlopen(t)
  <2>1. CASE Goto(t, "failed")
    BY <1>1, <2>1 DEF Goto, Knows
  <2>2. CASE Found.kind = "library" /\ lib' = Found /\ Goto(t, "wrap")
             /\ todo' = [todo EXCEPT ![t] = Functions]
    <3>1. pc'[t] = "wrap" /\ todo'[t] = Functions /\ Opened'
      BY <1>1, <2>2, TypesKept, FoundStays DEF Goto, Opened
    <3> QED
      BY <3>1 DEF Knows
  <2> QED
    BY <1>4, <2>1, <2>2 DEF Dlopen
<1>5. CASE WrapOne(t)
  <2>1. PICK f \in todo[t] : /\ wrapped' = wrapped \cup ({f} \ lib.lacks)
                             /\ todo' = [todo EXCEPT ![t] = @ \ {f}]
    BY <1>5 DEF WrapOne
  <2>2. pc[t] = "wrap" /\ pc'[t] = "wrap" /\ lib' = lib /\ todo'[t] = todo[t] \ {f}
    BY <1>1, <1>5, <2>1 DEF WrapOne
  <2>3. Opened /\ Functions \ todo[t] \subseteq wrapped \cup lib.lacks
    BY <1>1, <2>2 DEF Knows
  <2>4. Opened'
    BY <2>3, NothingTakenBack
  <2> QED
    BY <2>1, <2>2, <2>3, <2>4 DEF Knows
<1>6. CASE WrapDone(t)
  <2>1. /\ pc[t] = "wrap" /\ pc'[t] = "version" /\ todo[t] = {}
        /\ lib' = lib /\ wrapped' = wrapped
    BY <1>1, <1>6 DEF WrapDone, Goto, loadVars
  <2>2. Opened /\ Functions \subseteq wrapped \cup lib.lacks
    BY <1>1, <2>1 DEF Knows
  <2> QED
    BY <2>1, <2>2, NothingTakenBack DEF Knows
<1>7. CASE CheckVersion(t)
  <2>1. /\ pc[t] = "version" /\ lib' = lib /\ wrapped' = wrapped
        /\ pc'[t] = IF IsCompatible(lib.version) THEN "init" ELSE "failed"
    BY <1>1, <1>7 DEF CheckVersion, Goto, loadVars
  <2>2. Opened /\ Functions \subseteq wrapped \cup lib.lacks
    BY <1>1, <2>1 DEF Knows
  <2>3. IsCompatible(lib.version) => Complete
    BY <1>1, <2>2 DEF LibInv, Progress, Complete
  <2> QED
    BY <2>1, <2>3, CompleteStays DEF Knows
<1>8. CASE InitialiseCheck(t)
  <2>1. pc[t] = "init" /\ pc'[t] = IF initialised = "yes" THEN "mark" ELSE "main"
    BY <1>1, <1>8 DEF InitialiseCheck, Goto
  <2> QED
    BY <1>1, <2>1, CompleteStays, NothingTakenBack DEF Knows
<1>9. CASE InitialiseMain(t)
  <2>1. pc[t] = "main" /\ pc'[t] = "mark" /\ initialised' # "no"
    BY <1>1, <1>9 DEF InitialiseMain, Goto
  <2> QED
    BY <1>1, <2>1, CompleteStays DEF Knows
<1>10. CASE Mark(t)
  <2>1. pc[t] = "mark" /\ pc'[t] = "ready"
    BY <1>1, <1>10 DEF Mark, Goto
  <2> QED
    BY <1>1, <2>1, CompleteStays, NothingTakenBack DEF Knows
<1> QED
  BY <1>2, <1>3, <1>4, <1>5, <1>6, <1>7, <1>8, <1>9, <1>10 DEF LoadStep

LEMMA ProgressKept ==
  ASSUME LibInv, [Next]_vars
  PROVE  Progress'
<1>1. \A t \in Threads : pc[t] \in Steps /\ Knows(t, pc[t])
  BY DEF LibInv, Types, Progress, Knows
<1>2. ASSUME NEW t \in Threads PROVE Knows(t, pc[t])'
  <2>1. CASE LoadStep(t) \/ Load(t)
    BY <2>1, MoverKnows
  <2>2. CASE pc'[t] = pc[t] /\ todo'[t] = todo[t]
    <3>1. Knows(t, pc[t]) /\ pc[t] \in Steps
      BY <1>1
    <3> QED
      BY <2>2, <3>1, OthersKept DEF Knows
  <2>3. CASE \/ \E class \in Classes : CallFails(t, class)
             \/ CallSucceeds(t) \/ RaiseError(t)
    <3>1. pc[t] \in {"ready", "called"} /\ pc'[t] \in {"ready", "called"}
      BY <2>3 DEF CallFails, CallSucceeds, RaiseError, Goto, LibInv, Types
    <3>2. Complete /\ initialised # "no"
      BY <1>1, <3>1 DEF Knows
    <3> QED
      BY <3>1, <3>2, CompleteStays, NothingTakenBack DEF Knows
  <2>4. CASE UNCHANGED vars
    BY <2>2, <2>4 DEF vars
  <2>5. CASE \E u \in Threads \ {t} :
               \/ Load(u) \/ LoadStep(u) \/ CallSucceeds(u) \/ RaiseError(u)
               \/ \E class \in Classes : CallFails(u, class)
    <3>1. pc'[t] = pc[t] /\ todo'[t] = todo[t]
      BY <2>5 DEF Load, LoadStep, Cdef, Dlopen, WrapOne, WrapDone, CheckVersion, InitialiseCheck, InitialiseMain,
         Mark, CallFails, CallSucceeds, RaiseError, Goto, LibInv, Types
    <3> QED
      BY <2>2, <3>1
  <2> QED
    BY <2>1, <2>3, <2>4, <2>5 DEF Next
<1>3. loaded' => Complete' /\ initialised' # "no"
  <2>1. CASE loaded
    BY <2>1, CompleteStays, NothingTakenBack DEF LibInv, Progress
  <2>2. CASE ~loaded /\ loaded'
    <3>1. PICK t \in Threads : Mark(t)
      BY <2>2 DEF Next, LoadStep, Load, Cdef, Dlopen, WrapOne, WrapDone, CheckVersion,
         InitialiseCheck, InitialiseMain, CallFails, CallSucceeds, RaiseError, vars, loadVars
    <3>2. Complete /\ initialised # "no"
      BY <1>1, <3>1 DEF Mark, Knows
    <3> QED
      BY <3>2, CompleteStays, NothingTakenBack
  <2> QED
    BY <2>1, <2>2
<1> QED
  BY <1>2, <1>3, NothingTakenBack DEF Progress, Knows

LEMMA ReportsKept ==
  ASSUME LibInv, [Next]_vars
  PROVE  Reports'
<1>1. CASE UNCHANGED vars
  BY <1>1 DEF vars, callVars, LibInv, Reports
<1>2. ASSUME NEW u \in Threads,
             Load(u) \/ LoadStep(u) \/ CallSucceeds(u) \/ RaiseError(u)
             \/ \E class \in Classes : CallFails(u, class)
      PROVE  Reports'
  <2>1. CASE Load(u) \/ LoadStep(u)
    <3>1. UNCHANGED callVars
      BY <2>1 DEF Load, LoadStep, Cdef, Dlopen, WrapOne, WrapDone, CheckVersion,
         InitialiseCheck, InitialiseMain, Mark
    <3>2. \A t \in Threads : pc'[t] = "called" <=> pc[t] = "called"
      BY <2>1 DEF Load, LoadStep, Cdef, Dlopen, WrapOne, WrapDone, CheckVersion,
         InitialiseCheck, InitialiseMain, Mark, Goto, LibInv, Types
    <3> QED
      BY <3>1, <3>2 DEF callVars, LibInv, Reports
  <2>2. CASE CallSucceeds(u)
    BY <2>2 DEF CallSucceeds, LibInv, Types, Reports
  <2>3. CASE RaiseError(u)
    BY <2>3 DEF RaiseError, Goto, LibInv, Types, Reports
  <2>4. CASE \E class \in Classes : CallFails(u, class)
    BY <2>4 DEF CallFails, Goto, LibInv, Types, Reports
  <2> QED
    BY <1>2, <2>1, <2>2, <2>3, <2>4
<1> QED
  BY <1>1, <1>2 DEF Next

LEMMA LibAlways == Spec => []LibInv
<1>1. LibInv /\ [Next]_vars => LibInv'
  BY TypesKept, ProgressKept, ReportsKept DEF LibInv
<1> QED
  BY <1>1, InitInv, PTL DEF Spec

(* A load() that returned has the first library of the search path open,    *)
(* new enough, bound to the last function and past dasi_initialise_api,     *)
(* whatever other threads load meanwhile.                                   *)
THEOREM LoadIsComplete == Spec => []ReadyIsComplete
<1>1. LibInv => ReadyIsComplete
  BY DEF LibInv, Progress, ReadyIsComplete, Complete, Opened
<1> QED
  BY <1>1, LibAlways, PTL

(* A DASIException carries the text of the call it is raised for. *)
THEOREM MessagesAreOwn == Spec => []OwnMessage
<1>1. LibInv => OwnMessage
  BY DEF LibInv, Reports, OwnMessage
<1> QED
  BY <1>1, LibAlways, PTL

-----------------------------------------------------------------------------
(* A set of numbers has a least one. *)
LEMMA LeastNumber ==
  ASSUME NEW T, T \subseteq Nat, T # {}
  PROVE  \E x \in T : \A y \in T : x <= y
<1> DEFINE R == OpToRel(<, Nat)
<1>1. PICK x \in T : \A y \in T : ~(<<y, x>> \in R)
  <2> HIDE DEF R
  <2>1. IsWellFoundedOn(R, Nat)
    BY NatLessThanWellFounded DEF R
  <2> QED
    BY <2>1, WFMin
<1>2. \A y \in T : y < x => <<y, x>> \in R
  BY DEF OpToRel
<1> HIDE DEF R
<1>3. \A y \in T : ~(y < x)
  BY <1>1, <1>2
<1>4. \A y \in T : y \in Int /\ x \in Int
  OBVIOUS
<1> QED
  BY <1>3, <1>4

(* What FindLib answers lies on the search path, or is nothing; it is the   *)
(* first of the files that have the name of the library.                    *)
LEMMA FoundIsFirst ==
  ASSUME files \in Seq(Files)
  PROVE  /\ Found \in Files \cup {NoFile}
         /\ \/ Found = NoFile /\ \A i \in DOMAIN files : files[i].kind = "other"
            \/ \E i \in DOMAIN files :
                 /\ Found = files[i] /\ files[i].kind # "other"
                 /\ \A j \in DOMAIN files : j < i => files[j].kind = "other"
<1> DEFINE named == {i \in DOMAIN files : files[i].kind # "other"}
           first == CHOOSE i \in named : \A j \in named : i <= j
<1>1. /\ DOMAIN files \subseteq Nat
      /\ \A i \in DOMAIN files : files[i] \in Files
  OBVIOUS
<1>2. CASE named = {}
  BY <1>2 DEF Found
<1>3. CASE named # {}
  <2>1. first \in named /\ \A j \in named : first <= j
    <3>1. \E i \in named : \A j \in named : i <= j
      BY <1>1, <1>3, LeastNumber
    <3> QED
      BY <3>1
  <2>2. Found = files[first]
    BY <1>3 DEF Found
  <2>3. \A j \in DOMAIN files : j < first => files[j].kind = "other"
    <3> SUFFICES ASSUME NEW j \in DOMAIN files, j < first, j \in named PROVE FALSE
      OBVIOUS
    <3> HIDE DEF first
    <3>1. first \in Nat /\ j \in Nat /\ first <= j
      BY <1>1, <2>1
    <3> QED
      BY <3>1
  <2> HIDE DEF first
  <2> QED
    BY <1>1, <2>1, <2>2, <2>3
<1> QED
  BY <1>2, <1>3

(* Every run of ffi.cdef was admitted by MaxLoads when its load() began;    *)
(* as many more as there are threads may have been admitted by then.        *)
AtCdef == {t \in Threads : pc[t] = "cdef"}

Walk ==
  /\ files \in Seq(Files)
  /\ lib \in Files \cup {NoFile}
  /\ initialised \in {"no", "failed", "yes"}
  /\ cdefs \in Nat
  /\ cdefs + Cardinality(AtCdef) <= MaxLoads + Cardinality(Threads)

LEMMA WalkInit ==
  ASSUME IsFiniteSet(Threads), Init
  PROVE  Walk
<1>1. files \in Seq(Files)
  BY DEF Init
<1>2. AtCdef = {}
  BY DEF Init, AtCdef
<1>3. Cardinality(AtCdef) = 0 /\ Cardinality(Threads) \in Nat
  BY <1>2, FS_EmptySet, FS_CardinalityType
<1> QED
  BY <1>1, <1>3, LibraryAssumption DEF Init, Walk

LEMMA WalkKept ==
  ASSUME IsFiniteSet(Threads), LibInv, Walk, [Next]_vars
  PROVE  Walk'
<1>1. /\ files' = files
      /\ IsFiniteSet(AtCdef) /\ IsFiniteSet(AtCdef')
      /\ Cardinality(AtCdef) \in Nat /\ Cardinality(AtCdef') \in Nat
      /\ Cardinality(Threads) \in Nat /\ MaxLoads \in Nat /\ cdefs \in Nat
      /\ pc \in [Threads -> Steps]
  <2>1. AtCdef \in SUBSET Threads /\ AtCdef' \in SUBSET Threads
    BY DEF AtCdef
  <2> QED
    BY <2>1, TypesKept, FS_Subset, FS_CardinalityType, LibraryAssumption
    DEF LibInv, Types, Walk
<1>2. lib' \in Files \cup {NoFile}
  <2>1. lib' = lib \/ lib' = Found
    BY DEF Next, LoadStep, Load, Cdef, Dlopen, WrapOne, WrapDone, CheckVersion, InitialiseCheck, InitialiseMain,
           Mark, CallFails, CallSucceeds, RaiseError, vars, loadVars
  <2> QED
    BY <2>1, FoundIsFirst DEF Walk
<1>3. initialised' \in {"no", "failed", "yes"}
  BY DEF Walk, Next, LoadStep, Load, Cdef, Dlopen, WrapOne, WrapDone, CheckVersion,
         InitialiseCheck, InitialiseMain, Mark, CallFails, CallSucceeds, RaiseError, vars, loadVars
<1>4. cdefs' \in Nat /\ cdefs' + Cardinality(AtCdef') <= MaxLoads + Cardinality(Threads)
  <2>1. CASE \E t \in Threads : Load(t)
    <3>1. PICK t \in Threads : Load(t)
      BY <2>1
    <3>2. CASE pc' = [pc EXCEPT ![t] = "ready"]
      <4>1. AtCdef' = AtCdef
        BY <1>1, <3>1, <3>2 DEF AtCdef, Load
      <4> QED
        BY <1>1, <3>1, <4>1 DEF Load, loadVars, Walk
    <3>3. CASE cdefs < MaxLoads
      <4>1. Cardinality(AtCdef') <= Cardinality(Threads)
        BY FS_Subset DEF AtCdef
      <4> QED
        BY <1>1, <3>1, <3>3, <4>1 DEF Load, loadVars
    <3> QED
      BY <3>1, <3>2, <3>3 DEF Load, Goto
  <2>2. CASE \E t \in Threads : Cdef(t)
    <3>1. PICK t \in Threads : Cdef(t)
      BY <2>2
    <3>2. t \in AtCdef /\ AtCdef' = AtCdef \ {t}
      BY <1>1, <3>1 DEF AtCdef, Cdef, Goto
    <3>3. Cardinality(AtCdef') = Cardinality(AtCdef) - 1
      BY <1>1, <3>2, FS_RemoveElement
    <3> QED
      BY <1>1, <3>1, <3>3 DEF Cdef, Walk
  <2>3. CASE \/ UNCHANGED vars
             \/ \E t \in Threads :
                  \/ Dlopen(t) \/ WrapOne(t) \/ WrapDone(t)
                  \/ CheckVersion(t) \/ InitialiseCheck(t) \/ InitialiseMain(t) \/ Mark(t)
                  \/ CallSucceeds(t) \/ RaiseError(t)
                  \/ \E class \in Classes : CallFails(t, class)
    <3>1. cdefs' = cdefs
      BY <2>3 DEF Dlopen, WrapOne, WrapDone, CheckVersion, InitialiseCheck, InitialiseMain, Mark,
                  CallFails, CallSucceeds, RaiseError, vars, loadVars
    <3>2. \A t \in Threads : pc'[t] = "cdef" <=> pc[t] = "cdef"
      BY <1>1, <2>3 DEF Dlopen, WrapOne, WrapDone, CheckVersion, InitialiseCheck, InitialiseMain, Mark,
                  CallFails, CallSucceeds, RaiseError, Goto, vars
    <3>3. AtCdef' = AtCdef
      BY <3>2 DEF AtCdef
    <3> QED
      BY <1>1, <3>1, <3>3 DEF Walk
  <2> QED
    BY <2>1, <2>2, <2>3 DEF Next, LoadStep
<1> QED
  BY <1>1, <1>2, <1>3, <1>4 DEF Walk

(* The type invariant of the library wrapper, for any finite number of      *)
(* threads: however they interleave and fail, ffi.cdef is run at most once  *)
(* more for each of them than MaxLoads says.                                *)
THEOREM LibraryTypeCorrect ==
  ASSUME IsFiniteSet(Threads)
  PROVE  Spec => []TypeOK
<1>1. Init => Walk
  BY WalkInit
<1>2. LibInv /\ Walk /\ [Next]_vars => Walk'
  BY WalkKept
<1>3. LibInv /\ Walk => TypeOK
  <2> SUFFICES ASSUME LibInv, Walk PROVE TypeOK
    OBVIOUS
  <2>1. AtCdef \in SUBSET Threads
    BY DEF AtCdef
  <2>2. Cardinality(AtCdef) \in Nat /\ Cardinality(Threads) \in Nat
    BY <2>1, FS_Subset, FS_CardinalityType
  <2>3. cdefs \in 0..(MaxLoads + Cardinality(Threads))
    BY <2>2, LibraryAssumption DEF Walk
  <2> QED
    BY <2>3 DEF LibInv, Types, Walk, TypeOK
<1> QED
  BY <1>1, <1>2, <1>3, LibAlways, PTL DEF Spec

(* What a load() of another thread, or one that fails, leaves as it was.    *)
NeverTakenBack ==
  /\ loaded => loaded' /\ lib' = lib /\ wrapped' = wrapped
  /\ lib # NoFile => lib' = lib
  /\ wrapped \subseteq wrapped'

(* A library that is marked as loaded stays so and complete, no other file  *)
(* takes the place of an open one, and no function loses its wrapper,       *)
(* however many threads load, fail and load again: __loaded, __lib and the  *)
(* attributes of PatchedLib may be read without a lock.                     *)
THEOREM LibraryStays == Spec => [][NeverTakenBack]_loadVars
<1>1. ASSUME LibInv, [Next]_vars PROVE NeverTakenBack
  <2>1. loaded => loaded'
    BY <1>1 DEF Next, LoadStep, Load, Cdef, Dlopen, WrapOne, WrapDone, CheckVersion, InitialiseCheck, InitialiseMain,
           Mark, CallFails, CallSucceeds, RaiseError, vars, loadVars
  <2>2. lib # NoFile => lib' = lib
    BY <1>1, NothingTakenBack DEF LibInv, Progress
  <2>3. loaded => lib # NoFile /\ wrapped = Functions \ lib.lacks
    BY <1>1 DEF LibInv, Progress, Complete, Opened, NoFile
  <2>4. wrapped' \subseteq Functions \ lib'.lacks
    BY <1>1, TypesKept, NothingTakenBack DEF Types
  <2> QED
    BY <1>1, <2>1, <2>2, <2>3, <2>4, NothingTakenBack DEF NeverTakenBack
<1> QED
  BY <1>1, LibAlways, PTL DEF Spec
=============================================================================

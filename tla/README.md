# DASI in TLA+

DASI is a metadata-driven data store: a C++ library over fdb5 (`src/api`,
`src/impl`), a C API (`src/api/dasi_c.cc`), the Python package `pydasi` over the C
API, and a second backend of `pydasi` that stores the data in Rucio, with its own
S3 storage protocol. This directory holds TLA+ models of the parts of DASI that
keep state, configurations that model-check them with TLC, and theorems about
all of them, checked by TLAPS. Every definition that stands for
code is listed with its lines in `PROJECT.json`, under `map`.

## 1. Inventory

| Component | State | Operations | Interacts with |
|---|---|---|---|
| Retrieve handle (`dasi_c.cc` 342-412, `RetrieveResultImpl`) | drained `values_`, `iter_`, `done_`, `dasiElement_`; `first`; `dh` and its position | `dasi_retrieve`, `_next`, `_attrs`, `_read`, `_count`, `dasi_free_retrieve` | fdb5 `inspect`, the data handle of eckit |
| List, wipe, purge handles (`dasi_c.cc` 203-340, the generators of `src/impl`) | `dasiElement_`, `done_`, `first`, `uri_cache` | `_next`, `_attrs`, `_get_value`, `_count`, `_free` | a lazy fdb5 iterator that may throw |
| pydasi `Retrieve`, `List`, `Wipe` | the handle, pointers it gave out | `__next__`, `value`, `__len__` | two or three C calls for each item |
| `Key`, `Query` (C++), and their Python wrappers | a map; a `cdata` that owns a C object and may be shared | parsing, set, append, erase, clear, insert, compare, finalizers | every call that takes a key or a query |
| `PatchedLib` and `try_catch` | `__loaded`, the library, wrappers, `initialised`, `gCurrentErrorString` | `load`, wrapped calls, `dasi_get_error_string` | every constructor of pydasi, in any thread |
| Policies (`Dasi.cc` 176-222, `PolicyStatusGeneratorImpl`) | the shared `dasiElement_`, the control of databases | `setPolicy`, `queryPolicy`, iteration | fdb5 `control` and `status`, applied in their own thread |
| Rucio backend | on the server: DIDs, replicas, metadata; in the client: locals of `archive`, `_did_list`, `_index` | `archive`, `list`, `retrieve` | Rucio client calls, any of which may fail or lose its answer |
| S3 storage protocol (`rucio_s3boto3.py`) | bucket and objects on the service, temporary files | `connect`, `exists`, `get`, `put`, `rename`, `delete`, `stat` | S3 requests of several clients |
| Session (`Dasi.cc`, `dasi_c.cc`, pydasi `Dasi`, the command line tools) | in fdb5: data not yet published, the table of contents, data files; a running query | `dasi_open`, `archive`, `flush`, `close`, `list`, `retrieve`, `wipe`, `purge` | other processes, through the store |
| Configuration (`construct_config`, pydasi `Config`) | `_yaml`, the file | `default`, `load`, `load_file`, `schema`, `roots`, `dump`, `dump_file`, `dasi_open` | whoever writes the file meanwhile |
| Library location and versions (`find_lib.py`, `version.py`) | none | `FindLib`, `is_compatible` | `PatchedLib.load` |
| Schema tool, backend selection, policy and info tools | none that lasts | command lines, imports | |

What is hard in this code, and what has to hold:

* A retrieve handle has two cursors, one over elements and one over bytes, that
  only the caller keeps together. Python pairs the key of one with the bytes of the
  other. An empty object, whose read is refused by an assertion, a read that fails,
  calls in unusual orders: each may put them out of step.
* Every generator stands on its first element when it is constructed, so the first
  `next` must not advance it; fdb5 may throw in the middle; strings handed out
  by pointer are replaced by the next advance.
* `Key(key)` shares a C object. It must be freed once, not too early, and also when
  a constructor raised half way.
* `load()` runs without a lock in whatever thread comes first, and again after a
  failure; error texts are fetched by a second call.
* A policy is set database by database while others set it too, and all elements
  reported share one object that is never cleared.
* `Rucio.archive` is a chain of server calls without a transaction: lost answers,
  crashes, retries, other clients, and names that collide.
* `connect`, `rename` and `stat` of the S3 protocol are two requests each.
* A session may end with data that nobody flushed; a list, wipe or purge goes on
  in the background of its handle, while other processes archive and wipe; `retrieve`
  drains its query before it returns.
* A configuration file is emptied before it is written, and read in two steps: its
  size, then that many bytes.

The complete list of hazards, each at its line and with the properties aimed at
it, is in `PROJECT.json` under `hazards`.

## 2. Modules

| Module | What it models |
|---|---|
| `Cursor` | abstract: what any iterator handle promises to its client |
| `RetrieveHandle` | the C handle of `dasi_retrieve_*`; implements `Cursor` |
| `PyRetrieve` | `EXTENDS RetrieveHandle`: pydasi's `Retrieve` as its three C calls, and next to it (`AnySpec`) a C client that calls in any order |
| `RetrieveProofs` | theorems about both, and about pydasi and C clients together (`AnySpec`) |
| `GeneratorHandle` | the list, wipe and purge handles; implements `Cursor` |
| `PyGenerator` | `EXTENDS GeneratorHandle`: pydasi's `List` and `Wipe`, next to a C client that may call anything |
| `GeneratorProofs` | theorems about both |
| `Configuration` | `Config`, its file, and processes that open sessions from it |
| `DasiSession` | `EXTENDS Configuration`: sessions of several processes over one store |
| `SessionProofs` | theorems about both |
| `KeyText` | operators: the constructors of `Key` and `Query` from text |
| `MetadataObjects` | Python `Key`/`Query`, their C objects and finalizers |
| `MetadataProofs` | theorems about it, and about `Texts` |
| `PatchedLib` | the search path, lazy loading in several threads, wrapped calls, error strings |
| `PatchedLibProofs` | theorems about it |
| `Policy` | `setPolicy`, `queryPolicy` and the generator of their elements |
| `PolicyProofs` | theorems about it |
| `RucioArchive` | `Rucio.archive` of several clients |
| `RucioName` | operators: `_safe_filename_component` and the DID name |
| `Texts` | `EXTENDS KeyText, RucioName`: the texts they are checked on |
| `RucioSystem` | `EXTENDS RucioArchive`: a `RucioRetrieve` or `RucioList` next to it |
| `RucioArchiveProofs` | theorems about `RucioArchive` and `RucioSystem` |
| `S3Protocol` | the S3 protocol of several clients |
| `S3Proofs` | theorems about it |
| `MC*` | constants of these modules for TLC, and which combinations of them a run looks at |

Each module says, per variable, which member or local of the code it is, and each
action is one call or, where other actors may come in between, one step of a call.
Definitions whose comment begins with "Mutant of" are not part of the model:
they are plausible mistakes in the code, used to see that each property would
notice one.

### Abstractions

* **Elements and bytes.** A query's result is a sequence of offsets (`Results`):
  element i is the bytes `r[i-1] .. r[i]-1` of the concatenated data handle. Bytes
  have no other content: which element they belong to is all that matters.
  `RetrieveNext`, `RetrieveAttrs` and `RetrieveRead` are the three C calls; `ReadFails`
  consumes some bytes and reports an error, `ReadOpenFails` leaves a handle
  assigned that is not open, as the code does.
* **Generators.** fdb5's iterator gives `count` elements and throws up to `MaxThrows`
  times, at any of its calls; `elem` is the element `dasiElement_` was last assigned
  from, 0 before the first. A value pointer is the element whose string it points
  into; `WipeValueFresh` says that this is still the string there.
* **Objects.** Blocks of the heap are used again after they are freed. A Key is a
  map to sequences of length one, so that one model covers `Key` and `Query`.
* **Sessions.** fdb5 is external, modelled by what DASI and its tests rely on. An object
  is `pending` from `archive()` until fdb5 publishes it, at the latest in `flush()` or the
  destructor of the session; `log` is the table of contents, the newest entry about a
  key tells the accessible object, and 0 in it says that the key was wiped; `gone` are objects whose files
  were removed. A query is a set of keys, which fdb5 visits in any order, one at a time.
  That the destructor publishes what is pending is more than `dasi_c.h` 138 promises, which speaks of `flush()` only; `dasi-put`
  relies on it.
  An object is its key and two lengths, that of the buffer and that which was archived. A key
  stands for what the first two levels of the schema tell apart, which is what wipe works on. The
  tools are processes that make one of these calls and end (`Put`, `Calls`, `Close`).
* **Configuration.** A text is the line of the schema and the lines of the roots; a file that is
  being written is empty; a reader takes the length first and that many lines later.
* **Loading.** The search path is a sequence of files of three kinds (a library of some version,
  something else with `libdasi` in its path, anything else), versions are numbers in their order. A library of
  any version may lack functions (`lacks`, out of `Lackable`), since a failure to bind one is only logged; a call of
  one that is missing raises `AttributeError` and changes nothing, and is left out.
  A step of `load()` is what runs between two points where another thread
  may come in: `dasi_initialise_api`, which is called without the GIL, looks at its flag (`InitialiseCheck`) and then
  sets up `eckit::Main` (`InitialiseMain`). A C call and the fetch of its error text are two steps.
* **Policies.** A database is a model value with the set of the identifiers that are
  enabled. `Visit` is fdb5's thread; `Pull` is `PolicyStatusGeneratorImpl::next`.
* **Rucio.** A key is a set of items, data are model values. The server is external:
  an upload registers a DID unless the name is taken, and then raises
  `NoFilesUploaded`; every call may also fail with or without its effect.
* **Names.** Characters are in classes: letters (`Word`), the three punctuation marks
  that are kept, a blank, and one that is replaced.
* **S3.** A request is atomic; the service refuses to copy an object onto itself or
  to create a bucket that exists, as MinIO does, and may refuse any other request
  when `MayRefuse` is TRUE.

## 3. Runs

| Run | States | Bounds | What it shows |
|---|---|---|---|
| `py_retrieve` | 35 593 | results of at most 3 elements of 0-2 bytes, buffers of 0-3 | C clients in any order of calls, and pydasi: exact stream, `Cursor` implemented; the items of pydasi own their bytes; every element is returned or has its exception; `StopIteration` comes and is final |
| `py_generator` | 708 | 3 elements, 2 throws | list, wipe and purge handles, driven by a C client or by pydasi, implement `Cursor`; `List` and `Wipe` return all elements, URI and key belong together, `value` is never stale |
| `texts` | 213 974 | texts of at most 7 of 5 characters and of at most 5 of 6, both ways `split` may treat empty fields | a text that is a key selects, as a query, exactly that key; DID names are safe, and sanitising twice changes nothing |
| `metadata_objects` | 19 000 | 2 variables, blocks, wrappers, keywords, values | no dangling, double free or leak; compare is an order, transitive as well |
| `patched_lib` | 527 754 | 2 threads, 2 functions, one of which a library of either version may lack, 2 versions, up to 2 files on the path, 3 loads | loaded means initialised and bound as far as the library has the functions, and an older library is never ready; own error texts |
| `policy` | 262 672 | 2 clients, 2 databases, 6 dictionaries | elements are their own; what is set is reported; nothing is changed that was not asked for |
| `session` | 970 096 | 2 processes, 2 keys, 2 queries, 2 calls of `archive`, 1 run of `dump_file`, 2 lists of roots | flushed data are found, items are of their call, a wipe is complete, nothing is removed unasked; a session is opened with a whole text |
| `rucio_system` | 85 837 | 2 archiving clients, 2 overlapping keys, 2 payloads; or 1 of them, 1 payload, next to a reader with one of 3 filters | complete on return, errors name what is missing, one uploader, `archive` ends; what was archived completely is found, once, and iterations end |
| `s3_protocol` | 53 870 | 2 clients, keys, contents; 1 temporary file each | a rename moves, a `stat` is of one object unless others interfere |
| `archive_length`, `rucio_retry`, `rucio_collision` | | 1 or 2 clients | end in a violation, see below |

Why the bounds are enough: the cursors need an empty element before, between and after
non-empty ones and a buffer smaller, equal and larger than an element, which three
elements of up to two bytes give. Two clients, processes, threads or variables are what each race
here takes; a second key that contains the first gives both equal and different names,
and filters that match one or both. Texts of seven characters hold two pairs with equal
keywords (`a=b,a=b`) and those of five a run of replaced characters with punctuation
on both sides. Two calls of `archive` mask one object by another or store two keys; two files on
a path hide a library behind another file or another version; a text of two roots next to one of
one root is longer than it, so that a file may grow and shrink. Counters that would grow without end
are bounded by constants that appear in guards: `MaxRead` (buffer sizes), `MaxThrows` (throws of an iterator),
`MaxElements`, the `max` of an alphabet, `MaxLoads` (runs of `load()` that do not just return), `MaxFiles` (files
on the search path), `MaxValues` (values of a keyword), `MaxTemps` (files a client leaves behind), `MaxWrites` (calls of
`archive`), `MaxDumps` (runs of `dump_file`).

Two runs look at a part of what their modules allow, chosen in the MC module. `session`: the configuration is edited
before the first session is opened (`ConfigFirst`); one process reads, that is it lists, retrieves and wipes without `doit`, both keys
each time (`ReaderReads`); the other archives, puts, flushes, closes, crashes, and wipes and purges with `doit`, all of it
next to a handle of the reader, but a wipe of both keys only while the reader has no handle (`WriterDoes`). Two full
sessions side by side exceed what TLC can look at in minutes; `SessionProofs` has no such restriction. The run checks invariants and an
action property only: a step that is left out but due under fairness would make a liveness property true for no reason.
`rucio_system`: the reader runs next to one archiving client, with one payload, and two archiving clients run without a reader;
what is left out are beginnings of an `archive`, which no fairness demands, so that its liveness properties stand.

Deadlock is checked everywhere but in `patched_lib`: when all the loads that
`MaxLoads` allows have failed, nothing is left to do. Type invariants are not checked by a run
where they are proved; `Configuration`, `DasiSession`, `MetadataObjects` and the others each have one, and
it is a conjunct of the inductive invariant of the proof module.

### Where code and documents disagree

Three runs show a statement of the documentation that the code does not keep; each ends
in a violation.

* `rucio_retry`: a client dies between the upload and `set_metadata`, or gets an error,
  and archives again. The upload raises `NoFilesUploaded`, which `archive` takes for
  success, and the metadata loop is skipped: normal return, no searchable metadata.
* `rucio_collision`: two keys whose items are sanitised to one name. The second `archive`
  returns normally and stores nothing; the DID holds the data of the other key.

* `archive_length`: `Dasi.archive` of pydasi (`dasi.py` 64) passes `len(data)` for the length. Of a
  buffer whose items are longer than a byte (an array of numbers) that is their number, and only the
  beginning is archived, while `dasi_c.h` 144 says that the length is in bytes and the docstring (`dasi.py` 57)
  that data is what is stored. The tests archive `bytes` only.

Smaller ones, which are outcomes of the models without a run of their own, or need no model:

* a `load()` that failed after `ffi.cdef` is retried and runs it again, although the comment at
  `_dasi_cffi.py` 154 says that this must be done only once (`Cdef`, `cdefs`);
* of two clients that find no bucket the later one is refused by `create_bucket`, because the bucket
  exists by then, and its `connect` reports that access is denied (`CreateBucket`);
* a library that is new enough but lacks a function is marked loaded nevertheless: the failure to bind is logged and no more
  (`_dasi_cffi.py` 173-187; `WrapOne`, `Mark`). Its version is checked after that, and only its version;
* `dasi_initialise_api` (`dasi_c.cc` 162) and `initialise_eckit_once` (`Dasi.cc` 51) look at a static flag without a lock, and
  `load()` calls the former without the GIL: two threads may both set up `eckit::Main` (`InitialiseCheck`, `InitialiseMain`);
* a `Config` whose `load()` was given an empty text keeps `None`, and dumps `null` (`LoadFails`);
* `Rucio_Backend_Integration.md` 19 says that both backends expose archive, list, retrieve and wipe;
  the Rucio backend has no `wipe`, and no `flush`;
* `examples/rucio/README.md` 176 documents an `archive` with a file name and a lifetime, which
  `Rucio.archive` does not take;
* `docs/source/usage.rst` 51 archives a `str`, which `ffi.from_buffer` refuses;
* comments in `Dasi.cc` name two more themselves: a path of a configuration that does not exist is
  parsed as YAML (89), and `retrieve` relies on `inspect` where `list` asks for deduplication (167). The
  model takes it that `inspect` finds the accessible object.

### Fairness

* `PyRetrieve`, `PyGenerator`: weak fairness of the steps of `__next__` and its caller (`Iterate` in
  `PyGenerator`). A caller in a `for` loop, or one that catches exceptions and goes on, keeps calling;
  each C call returns. What a caller that stops does is not claimed, and a C client owes nothing.
* `MetadataObjects`: weak fairness of `Finalize` for each wrapper: reference counting
  runs the finalizer of what nobody refers to. Nothing is assumed of callers.
* `RucioArchive`, `RucioSystem`: weak fairness of a client's steps after `Archive`, and of the steps of
  a reader within and between calls of `__next__`: server calls return,
  with a result or an error. A client may crash at any point nevertheless, and nobody need begin an
  archive or an iteration.
* No other module has fairness or a liveness property. In `DasiSession` the calls of fdb5 would have to be assumed to
  return for anything to end; what does not depend on that is proved (`QueriesTakeFewSteps`).

No run uses symmetry, since most of them check temporal properties.

## 4. Proofs

Eight modules hold the theorems; `PROJECT.json` lists them under `theorems` with what each
establishes. A proof module has an inductive invariant, one lemma per group of actions that preserves
it, and theorems that conclude from it. Assumptions are those on the constants, named in the modules that declare
them; each is checked by TLC in the runs of that module.

**`RetrieveProofs`** (every member of `Results` is a layout, `MaxRead` is positive).
`HandleInv` adds to the exact iteration and the exact stream `CursorInv`: where `iter`, `done`
and `elem` stand in relation to each other and to the number of elements presented,
with `first` telling apart the position before the first call. Without it `Advance` may
start from a position no execution reaches. `HandleCorrect` and `HandleReadsAll` hold for results of any length;
`HandleIsCursor` is the refinement of `Cursor`: every step opens, gives, ends, closes or stutters. It takes
`EndInv` as well: at `end()` the element left in `dasiElement_` is the last one. For pydasi `PyInv` extends `HandleInv`
by `PcInv`, which ties the program counter to the cursors (the stream stands at the
beginning of the current element when `__read` is about to read, unless a read failed),
and `ItemsInv`: the elements behind the cursor are those returned or raised. From it follow
`PyRetrieveCorrect`, `PyAccountsForAll`, `PyRaisesOnlyEmpty` and `PyStopIsFinal`. The run checks these properties of
`AnySpec`, where either pydasi or a C client owns the handle: `AnyInv` is `PyInv` for the one and
`HandleInv` with `NotBegun`, nothing returned or raised yet, for the other. `RetrievePathCorrect`, `RetrievePathIsCursor`
and `RetrievePathStops` state the run's properties of that specification. `EveryCallCounts` is what is provable of
`IterationEnds`: `CallsLeft`, three for each element not yet presented and what the current `next` still has to do,
is a natural number that every C call makes smaller, so that n elements take at most 3n + 1 calls, whatever raises.

**`GeneratorProofs`** (`MaxElements`, `MaxThrows` are naturals). `Position` relates `first`, `done`, `elem`
and the cursor of fdb5. With it `GeneratorIsCursor` shows the refinement of `Cursor` for each
handle, and `PyIsCursor` the same of the handles pydasi drives. `PyInv` adds `Driven`, what `__next__` knows between two
C calls (it has returned one item less than the element presented, and the cached URI is of that
element), and `PointerKept`, where the pointer of `Wipe.value` may point. Items, end and value follow, that `StopIteration` is final
(`PyStopIsFinal`: behind it the handle stays done), and with the ranking `CallsLeft` that an iteration takes two calls
for an element, one for the end and one for each exception of fdb5 (`PyMakesFewCalls`).

**`SessionProofs`** (queries are sets of keys, buffers have natural sizes; a text has a root). `StoreInv` says that
the entries of the log are of objects handed over, under their own keys and once, that what is pending
was not published, that objects that a session owes are pending or published, and that what
is gone is masked or wiped. `SessionInv` adds, per handle, `HandleGood`:
where it stands, when it was made, which entry of the log each object it found came from (`FromEntry`),
that each object it owes is still to be visited, found, or wiped (`DueGood`), and
that the visited keys of a wipe are gone (`WipeGood`). These are kept by the steps of other processes, since the log only
grows. `ConfigInv` is separate: a process that has read a size has it from a text that may have been written over
since, and what it reads is a prefix of one. `TypeInv` is `SessionInv` with what the types still need: the bound on the calls
of `archive` (`WritesBound`) and that a wipe or purge hands out nothing (`OnlyReadersFind`); `SessionsTypeCorrect` follows.
`BytesAreKeptWhole` names the condition under which the
promise that `archive_length` violates is kept: buffers whose items are bytes, which is what the tests archive.
`QueriesTakeFewSteps` (finitely many keys): `QueryLeft` counts the keys to visit, what is to be handed out, the return and the
stop; each step of the call makes that number smaller, and no other process makes it larger.

**`MetadataProofs`** (keywords and values are numbers, addresses are not "none"). `Owned`: every cdata
that can be reached points to a live block, no two to the same, and every live block has one. It is kept by sharing
(`Key(key)`) and copying alike, and by a constructor that raises, whose cdata is then unreachable but
still owns its object. `ComparesAsAnOrder` is about the definition of `dasi_key_compare`: of two different
maps the least keyword at which they differ decides, both ways round, and of three maps the lesser of
two such keywords does (`LessIsTransitive`).

The same module proves what texts are computed from, for texts of any length over any characters
(`"empty"` is one of `Word`, the blank and `Other` are none of the safe ones). The operators fold over sequences, and the
induction theorems of the library cannot be used; in their place `FoldExists` shows that a fold is the last element of a chain, each
made from the one before, by looking at the least length for which there is none, and what holds along the chain is shown the same way
(`CountingUp`: a set of numbers that has 0 and with k - 1 also k has all up to n). `SplitChain`,
`DropChain`, `ReplaceChain` and `NameChain` state what the chains of the code's loops keep. `KeyMatchesQueryAlways` needs that a
field without a separator is split into itself alone (`SplitOne`), with or without empty fields. `ComponentIsSafeAlways` needs the shape of
what was sanitised (`CleanComponent`), and that text of this shape is left as it is (`CleanIsKept`). `FileNameIsSafe`
joins components to the name of a DID, of which no run looks at more than one.

**`PatchedLibProofs`**. `Progress`: what a thread knows after each step of `load()` (the library on the path is open;
the functions it has been through are wrapped, or the library lacks them; the version is new enough; `eckit::Main`
is set up or was tried) is never undone by another thread that loads as well. `Reports` ties the error string to the
call it is of between the two C calls, which holds because the string is `thread_local`. `LibraryStays` concludes that nothing
of a loaded library is taken back. `LibraryTypeCorrect` (finitely many threads) adds `Walk`: `FoundIsFirst` says that `FindLib` answers
the first file with the name or nothing, and every thread that stands before `ffi.cdef` was
admitted when fewer than `MaxLoads` had run it, so that at most one more per thread can run it.

**`PolicyProofs`** (dictionaries are functions to `BOOLEAN`). `Once` and `NoneLost`: each database is at exactly one place,
not visited, queued or presented. `Element`: the shared element shows the last status only,
which takes that the same identifiers are written each time. `Asked` and `Applied`: what runs is
what was asked for, and every status in the queue was taken after the control.

**`RucioArchiveProofs`** (`NameOf` maps keys to names, keys are finite sets, "none"
is not a payload). `IInv`: a client in the metadata phase owns its DID (its data are there, no
other client in that phase or with an outcome of its own claims it) and
every item of its key is attached, still to do, or in `errors`. The steps of other clients only make a DID
grow (`Grows`), which `NothingIsTakenAway` states of itself. `DistinctNamesIdentify`: where different keys have different names,
a DID holds the data of the key whose `archive` returned, which is what `rucio_collision` finds violated; `KeyInv` adds that
a DID is named as its key is, and that a normal return is about a DID that exists. `ArchiveMakesFewCalls` is the safety part of `ArchiveEnds`: an `archive` of n items is
at most n + 2 steps from its return, and each of its steps brings it nearer. For readers `SysInv` adds that only finitely many DIDs exist, so that a snapshot
holds each of them once (a permutation of a finite set is onto); that what a `RucioRetrieve` has seen is the
beginning of its snapshot up to the index; and that what a `RucioList` owes keeps matching the filter. `ReadersFindArchived`
and `ReadersVisitOnce` hold next to any number of archiving clients. `ReadersOnlyRead` shows that `SysSpec` implements `Spec`, so
that `ArchiveCorrectNextToReaders` need not be proved again for the specification the run checks. `RetrieveMakesFewRequests`: a
`RucioRetrieve` over n DIDs is done after at most 3n + 1 steps. A `RucioList` has no such number, since its listing is
evaluated while others add DIDs.

**`S3Proofs`** (contents are not `None`). `Undisturbed`: until another client writes one of its keys, a method can rely
on what its first request saw. It gives both action properties, `S3DataOnlyMoves` and `S3StatSound`.

Only model-checked: the liveness properties `IterationEnds`, `ArchiveEnds` and `Collected`, since fairness and
ENABLED are out of the prover's reach. Of the first two the rankings are proved, which say that each step that is due
brings the end nearer and that nobody else sends it further; that the steps happen is what fairness adds. For
`Collected` there is no ranking: a wrapper waits for one `Finalize`. The properties of the three runs that end in a violation
are false of the models; `DistinctNamesIdentify` and `BytesAreKeptWhole` prove two of them under the condition whose absence is the
cause, the third (`ReturnedIsSearchable`) fails whenever an `archive` that did not finish is tried again.

## 5. Not modelled

* The internals of fdb5, eckit, Rucio and S3. What the code here relies on is modelled as external: that fdb5
  publishes what is flushed, that list and inspect find the accessible object of a key, that a wipe with `doit` removes what
  is stored under it. The options `all` and `porcelain` of a wipe are handed through and left out.
* Option parsing of the command line tools and what they print; `dasi-policy` and `dasi-info`, which make one call
  each, or none. The schema tool, which parses a file and prints it. The choice of a backend, which is an import.
* The pointer that `dasi_key_get` returns, next to a thread that changes the key (`key.py` 53): such sharing is a
  data race in the C++ map already, and nothing offers it.
* The C key that `__read` leaks when its read raises (`retrieve.py` 68). It happens on each such read.
* The process environment: a second `Rucio` object keeps the `RUCIO_CONFIG` of the first (`rucio/backend.py` 51).
* A handle that is used after the `Dasi` object it came from was collected: the generators hold fdb5's
  iterator, and what that needs of the session is fdb5's.
* `dasi_initialise_api` called on the bare library, whose return code nobody looks at, is modelled
  (`PatchedLib`), what a library that failed to initialise does afterwards is not.
* The refusal of the S3 protocol when boto3 is not installed (`rucio_s3boto3.py` 128): nothing reaches the service then. A client calls
  `connect` before anything else, which is the order of Rucio (`Ready`).
* Classes of hazards without a property say so in a `note` in `PROJECT.json`.

## 6. Plan

Done, in this order: retrieve path and its proofs; generators; Rucio archive, its proofs,
names and readers; keys and queries; loading; policies; S3; sessions and configurations; proofs of
all of these; the parsing of texts; action properties and rankings of every iteration and call.

What could follow:

1. `RucioUpload`: `RucioArchive` over `S3Protocol`, with what Rucio's upload client does between them (put under a
   temporary name, rename), which is code of Rucio and not of this repository.
2. Sessions over the handles: `DasiSession` with `GeneratorHandle` and `RetrieveHandle` in the place of `HandleNext`,
   when TLC can look at the product, or by proof, since both implement `Cursor`.
3. Several handles of one session at a time.
4. Proofs still to write: a ranking for `setPolicy` and `queryPolicy`, whose elements are one per database, and one for the methods of `S3Protocol`;
   of `RucioArchive`, what a client that crashed leaves behind, and that a later `archive` of the same key never completes it.

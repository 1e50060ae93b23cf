# TLA+ models of csi-driver-trusted-ca

The driver is a CSI node plugin.  For every pod that asks for it, it makes an
ephemeral volume filled with trusted CA certificates: the kubelet calls
`NodePublishVolume`, the driver fetches the certificates, writes them atomically
to a directory on its own tmpfs and bind-mounts that directory into the pod; on
`NodeUnpublishVolume` it undoes all this.  This directory holds TLA+ models of
that code, TLC configurations that check them on small instances, and TLAPS
proofs about them.

## Inventory

| Part | State it keeps | Operations | Talks to |
|---|---|---|---|
| Node server (`pkg/driver/nodeserver.go`) | none of its own | `NodePublishVolume` and its deferred cleanup, `NodeUnpublishVolume`, constant answers | manager, storage, the mount table; called by gRPC, one goroutine per call |
| Manager (`pkg/manager`) | `managedVolumes`, under a mutex | `NewManager`, `ManageVolumeImmediate`, `ManageVolume`, `UnmanageVolume`, `IsVolumeReady`, `Stop` (never called) | storage for metadata, certificate source, storage for the write |
| Filesystem storage (`pkg/storage/filesystem.go`) | the tmpfs: `<volume>/metadata.json`, `<volume>/data` | `RegisterMetadata`, `ReadMetadata`, `WriteMetadata`, `ListVolumes`, `WriteFiles`, `RemoveVolume`, `NewFilesystem` | atomic writer, linuxtls |
| Atomic writer (`pkg/util/atomic_writer.go`) | a target directory: timestamped directories, `..data`, `..data_tmp`, user-visible links | `Write` and its helpers | the functions of linuxtls, run in the new directory |
| linuxtls (`pkg/linuxtls`) | none | `CreateCABundle`, `OpenSSLRehash` | the `openssl` program |
| Certificate sources and registry client (`pkg/source`, `pkg/registry`) | none | `GetFiles` | Kubernetes API, OCI registry |
| In-memory storage (`pkg/storage/memory.go`) | a map, for the tests | the storage interface | |
| Driver and gRPC server (`pkg/driver/driver.go`, `server.go`) | the listener and its socket file | `NewGRPCServer`, `Run`, `Stop` | gRPC, which runs the handlers |
| Identity and controller servers (`pkg/driver`) | none | constant answers | |
| Start-up (`cmd`) | the signal context | build store, source, manager, driver; run; stop | everything |

What is hard about it:

* **Overlap.** gRPC runs every call in its own goroutine and nothing locks a
  volume.  The kubelet gives up on a slow call and calls again while the first
  is still running.  The only synchronisation is the manager's set of managed
  volumes.
* **Crashes.** The tmpfs and the bind mounts outlive the driver process; the
  managed set does not, and is rebuilt from the tmpfs.  A crash between any two
  file-system calls leaves a state that the next start has to cope with.
* **Starting and stopping.** A signal may come at any moment of start-up or
  service; the stop waits for the handlers, unless a second signal or a kill
  ends them; the tmpfs and the socket file are found again at the next start.
* **Partial failure.** A publish is a chain of some ten file-system and mount
  calls, any of which may fail after the earlier ones have left something
  behind; the cleanup may fail too and ignores that it does.
* **Atomicity for readers.** A pod reads the volume while it is rewritten, and
  the source of the certificates changes while it is fetched.

What makes each part correct: `..data` always shows one complete rendering, a
call takes effect at most once (atomic writer); what is on disk between calls
is acceptable to the next start (storage); exactly the caller that makes a
volume managed fills it (manager); a published volume is served with
certificates and a gone one leaves nothing, and every wish of the kubelet is
eventually granted (node server); a signal ends the process and a process that
has ended serves again (start-up, gRPC server); a volume holds one whole version of its
source, complete in the bundle and readable for the pod's group (sources,
linuxtls, `fsGroup`).

## Modules

| Module | Models | Correspondence |
|---|---|---|
| `AtomicProjection` | what the atomic writer promises | one content, changed in one step by each call, at most once |
| `AtomicWriter` | `Write` and its helpers | one action per numbered step of `Write`; a step is one file-system call, or a run of calls on a directory nobody else can see; `pc[w]` is where call `w` stands and the other per-call variables are its locals |
| `LinuxTLS` | `CreateCABundle`, `OpenSSLRehash` | operators on directory trees: the files the functions add |
| `Filesystem` | the storage | one operator per file-system call that others can come in between; `meta`, `data` and `dataTmp` abstract what is in a volume directory |
| `Manager` | the manager | `managed` is the key set of `managedVolumes`; each operator is one critical section |
| `Server` | the life of the process: `NewCommand`, `NewFilesystem`'s mount, `NewManagerOrDie`, `NewGRPCServer`, `Run`, `Stop` | `proc` is the next step of start-up or what the process does; one action per constructor |
| `NodeServer` | publish, cleanup and unpublish as concurrent handlers, the kubelet, kills and reboots | `pc[c]` is where handler `c` stands; one action per call the handler makes |
| `VolumeContract` | what the driver promises about a volume | what the pod sees, which call is running, what the kubelet has been told |
| `MemoryFS` | the in-memory storage | one operator per method, on a map of maps |
| `VolumeFiles` | what `WriteFiles` and `Write` make of a group and of file names | operators: the gid or an error, the clean names, what is refused or clashes, what the volume shows in the end |
| `FilesystemCalls` | the filesystem storage again | one operator per method, as a whole call; a method that may fail is the set of its outcomes, errors included |
| `StoreManager` | node server and manager over any storage, `Manager.Stop` included | one action per call, parameterised by the storage's methods |
| `Storages` | two `StoreManager`s, one on each storage, given the same calls | history variables say for which volumes Filesystem returned an error (`refused`), could not remove everything (`kept`), or was given a file `metadata.json` (`shadowed`) |
| `Source` | the certificate sources and the registry client's `Pull` | one action per read of the object or of a tarball entry; the object is changed by others (external) |
| `Provision` | the data's way through one `ManageVolumeImmediate`: `GetFiles`, the gid, the payload, the bundle, the hash links, the commit, the chowns | `pc` is the next step, one action per step |
| `AtomicWriterProofs`, `AtomicTidyProofs` | proofs about `AtomicWriter` | the second extends the first |
| `NodeServerProofs`, `NodeSerialProofs`, `NodeContractProofs` | proofs about `NodeServer` | each extends the one before it and adds a hypothesis |
| `ProvisionProofs`, `StoragesProofs` | proofs about `Provision` and `Storages` | |
| `MCAtomicWriter`, `MCNodeServer`, `MCStorages`, `MCProvision` | the instances TLC checks | |

`Manager` extends `Filesystem`, `Server` extends `Manager` and `NodeServer`
extends `Server`: they share one state.  `Provision` extends `Source` and
`VolumeFiles`, `FilesystemCalls` extends `VolumeFiles`, and both rest on
`LinuxTLS`.  The three models look at one publish from three sides:
`NodeServer` at its interleavings with other calls, crashes and restarts, with
the data abstracted; `AtomicWriter` at every file-system call of the write;
`Provision` at the data that goes through both.

`NodeServer` has the atomic writer in the five steps that matter to its
neighbours: the timestamped directory is made, filled, linked as `..data_tmp`,
renamed, or given up.  A `..data_tmp` that is in the way makes the link fail; it
may be another call's or one that a kill or a failed removal has left.  Nothing
changes for a reader until one step puts the complete files in place, which is
what `AtomicWriter` is shown to provide.  An overlapping call may rename another
call's link: then `data` is that call until it has found its own rename failing
and has removed its directory.

`Storages` asks another question: the manager's tests run on `MemoryFS`, the
driver on `Filesystem`.  Both are put under the same manager and given the same
calls, one after the other.  They are not the same store.  `Filesystem` refuses
an `fsGroup` that is no gid, a name such as `..x`, a file where another needs a
directory; any I/O of it may fail, the removal of a volume too; and it shows a
rendering, with the bundle, the hash links and clean names.  `MemoryFS` takes
everything as it is, and keeps the metadata among the files, so that a file named
`metadata.json` (a legal key) replaces it.  The question is what follows from
this over a sequence of calls.

Directory trees in `AtomicWriter` are functions from paths (one or two
elements) to contents; a content is a set of certificates.  `LinuxTLS` enters
`AtomicWriter` through the constant operator `NewFiles`, so the proofs hold
for any functions that are run in the new directory; only `LeftoversBare` is
about the driver's own two.  With `Synchronized` the
callers of `Write` take turns, as `atomic_writer.go:31-32` asks of them;
without it they overlap.  `IOErrors` lets every call that makes, writes,
renames, removes or compares files fail, and the `Readlink` of `..data` with
which `Write` begins; a `dirFunc` that fails leaves what it has made so far.
Looking up a user-visible link does not fail: `Readlink` in
`createUserVisibleFiles` has its other errors ignored by the code.  Nor does the walk in `pathsToRemove`, whose visitor swallows them.

In `NodeServer` a volume's target path carries a sequence of mounts, each
`"live"` (the volume's present `data/`) or `"stale"` (a removed one).  The
kubelet (external) wants a volume published, retries, may time out (`Timeout`),
may delete the pod (`Delete`), and then unpublishes until that succeeds; a
volume whose last publish definitely failed is not unpublished, which is why
the handler cleans up (`nodeserver.go:39-41`).

The process starts with `NewFilesystem`, which mounts a tmpfs unless one is
there, then builds the source, the manager and the server.  The first signal ends
the context (`Signal`); the goroutine that waits for it exists once the driver is
built and races with `Serve` (`gracefulStop` in `"run"` or `"serving"`).  A stop
ends when the handlers have returned.  A kill, or a second signal, ends the
handlers where they stand and keeps tmpfs, mounts and socket file; a reboot
clears tmpfs and mounts.  `KillBusy` says whether kills come while handlers run.

## What the runs check

Passing runs:

* `writer_turns`: callers of `Write` in turns, a crash between any two steps,
  any call failing.  `LinkIntact` (`..data` never dangles or shows a partial
  directory), `VisibleCovers` (every live top-level name is linked at every
  moment), `VisibleExact` (after clean calls there is no dangling link),
  `LeftoversBare` (what clean calls leave behind has no certificate at its top
  level), `ImplementsProjection` (refinement of `AtomicProjection`).
* `writer_overlap`: two overlapping calls.  `LinkIntact` and
  `ImplementsProjection` hold although the code promises nothing of the kind:
  `..data_tmp` acts as a lock, since `Symlink` fails when it exists.
* `node_serial`: one call at a time per volume, two volumes (one whose request
  is refused), two failures, a signal at any moment, and a reboot or a kill while
  no handler runs.
  `PublishedSound` (a published volume is mounted once, filled, and known to a
  running manager, across restarts), `NoResidue`, `QuietRestartable`,
  `ManagedOnDisk`; the liveness properties `Served`, `Unpublished`,
  `DriverRecovers` and `StopEnds`; and `ImplementsContract`: the handlers, the
  storage, the manager, the mounts and the restarts together implement
  `VolumeContract`.
* `node_crash`: one volume, two kills anywhere, two signals, two failures.
  `NoStaleMount` and `NoStackedMounts`, and `ServedWhileUp`: if the driver comes
  up and stays up, the volume is published in the end, whatever was left on the
  tmpfs.  This run leaves out a failing unmount (see below).
* `node_overlap`: the kubelet gives up twice; fetches and unmounts fail.
  `MountsBounded` and `Served`.
* `storage`: publishes, failing fetches, unpublishes, stops and restarts, with
  payloads and groups that `Filesystem` takes and such that it refuses, and with
  failing I/O.  `SameAnswers` and `SameContents`: a volume for which `Filesystem`
  has returned no error, failed at no removal and been given no `metadata.json`
  since it was last unpublished is answered for alike, managed on both sides or on
  neither, has the same metadata, and shows on disk the rendering of what memory
  holds.  `MemoryLenient`: where they do differ it is in one direction, `MemoryFS`
  lets succeed what `Filesystem` does and has every volume it has.  What a test on
  `MemoryFS` shows is thus good for the driver up to these errors; what the
  driver does after one of them the tests cannot show.
* `provision`: every kind of source, changed by others at any moment, with
  failing fetches and writes.  `VolumeOfOneVersion` (a filled volume is the
  rendering of one whole version that existed during the fetch) and
  `OwnedByGroup` (the group that was asked for is a gid in range, and the data
  directory and the written files have it).

Runs that show a disagreement between the code and what the repository says:

* `node_ready`: `IsVolumeReady` is documented to tell whether certificates have
  been retrieved.  After a crash between registration and the write, the
  restarted manager manages the empty volume and calls it ready.
* `node_recover`: a crash between making the volume directory and completing
  `metadata.json` leaves a tmpfs on which `NewManager` fails at every restart.
* `node_retry`: the cleanup is to "clean up after ourselves".  The kubelet gives
  up on a publish, its retry finds the volume managed, mounts it and succeeds;
  then the first call's fetch fails and its cleanup removes the published volume.
* `provision_keys`: "every key in the configmap" is to be a file.  A key named
  `ca-certificates.crt` is truncated by the bundle, which also skips it.
* `provision_read`: the errors "failed to read" and "failed to copy" of
  `CreateCABundle` are guarded by the wrong variable; a file that cannot be read
  gives a short bundle and a successful publish.

Further behaviours that the models contain and that no run is about:

* When the kubelet gives up on a publish that then fails before it has made the
  target path, every later unpublish fails, because `NodeUnpublishVolume`
  treats the missing path as an error (`nodeserver.go:141`).  `Unpublished` is
  therefore checked only where the kubelet does not give up.
* The cleanup ignores a failing unmount and removes the directory under the
  mount; the next publish takes the stale mount for "nothing more to do" and
  reports success.  `NoStaleMount` is therefore checked without failing unmounts.
* After timeouts one call's unpublish or cleanup unmanages a volume that another
  call is filling, a third one manages it again, and two handlers are in `Write`,
  which "must be synchronized by the caller" (`atomic_writer.go:31`).  The cause
  is that of `node_retry`; `writer_overlap` shows what still holds then.
* Overlapping calls may leave a tmpfs on which the driver does not restart: a
  fetch that ends after the unpublish makes the directory again without metadata,
  and a truncated `metadata.json` read by another call leads to a stray one.
  `node_overlap` therefore has no restarts.
* The "no update required" return of `Write` comes after the rename and before
  step 12, so a payload without top-level certificates, written twice, leaves
  the old timestamped directory.  Any other payload is never found equal: the
  generated bundle is compared with empty data.  `LeftoversBare` is this bound on
  what can pile up.
* The two storages differ inside the manager's protocol as well as outside it.
  Inside, `MemoryFS` publishes what `Filesystem` refuses, and a file named
  `metadata.json` leaves a volume in `MemoryFS` that it can no longer register,
  and with which `NewManager` fails, while `Filesystem` keeps it as a file like any
  other: `Alike` in `Storages` is what is left.  Outside,
  `MemoryFS.WriteFiles` wants a registered volume and adds to the files that are
  there, where `Filesystem` makes directories and replaces the files;
  `SameContents` shows that the manager never writes to a volume that holds files.
* "./..x" passes `validatePath` although names that begin with ".." are reserved.
  An ordinary name does no harm (`VolumeOfOneVersion`); the name of the writer's
  temporary link makes every such `Write` fail.
* The largest gid passes the range test and is `(gid_t)-1` for `chown`, which
  then changes nothing; `OwnedByGroup` leaves it out.

### Bounds

* `Writers`: one call when they take turns, since a finished call leaves no trace
  of who made it; two when they overlap.  The proofs cover any number.
* `TsIds` = 3: the live directory, the new one and a leftover.  It is the room
  on the tmpfs: when it is used up `newTimestampDir` fails, so this case is
  reached as well.
* Payloads: none, one and two files, a file where another payload has a
  directory, a payload that clashes with itself and one that is refused.
* Two handlers (`Calls`), which is what a timed-out call and its successor
  need; two contexts, so that metadata is rewritten.
* `MaxFaults`, `MaxTimeouts`, `MaxCrashes`, `MaxSignals`: one or two.  A fault
  followed by a fault in the retry, a crash in the recovery from a crash, a signal
  in the start-up after a stop, and a second timeout while the first call is still
  running, all occur, in the run whose properties need them.
* `KillBusy` is false in `node_serial`, since after a kill inside a registration
  the driver does not come back (`node_recover`), and true in `node_crash`.
* `storage`: a volume with two contexts, one of them refused, and four payloads:
  a name in two spellings next to one of the bundle's name, a `metadata.json`, a
  clash, a refused name.  The storages treat volumes independently but for
  start-up, which one bad volume makes fail for all; a second volume, with one
  request, is there for that.
* `MaxVersions` = 2: the source changes once during a fetch, which is what a
  fetch that mixes versions would need.  It may change between fetches without
  bound.
* `GidWidth` = 3 (32 in the system), with attributes at and around both ends of
  the range, absent ones and ones that are no number.
* Source objects: config maps with and without `binaryData` and with a key of
  the bundle's name; tarballs with directories, links, repeated and
  non-canonical names, clashing, refused and damaged ones; artifacts without a
  tarball; references that do not exist.
* Symmetry is used for writers and directories in the `AtomicWriter` runs and
  not in runs with liveness.

### Fairness

`FairSpec` assumes that a handler which can take a step eventually does (a
goroutine is scheduled and its system calls return), that start-up, the
goroutine that stops the server and `Serve`'s return go on, that the kubelet keeps
calling for what it wants (its reconciler retries without end), and that an
exited driver is started again (it runs in a DaemonSet).  Faults, timeouts,
signals and crashes are never fair; their bounds say that they stop.  Deleting a pod is not
fair either.  Deadlock is not checked in the `NodeServer` runs: when all pods
are gone there is nothing left to do.  In the `AtomicWriter` runs it is.

### Mutants

Every property of a passing run comes with a variant of a mapped definition, a
plausible mistake in that code, under which TLC finds the property violated.  The
variants stand before the definitions they replace and are named after them
(`symlinkTmp_Replace`, `cleanupUnmount_Skip`).

## What is proved

All invariants of the passing runs, and both refinements, are theorems.  Each
holds for every value of the constants that its hypothesis allows: any number
of writers, volumes, handlers, names and payloads, and any bounds on faults,
crashes, signals and versions.

| Theorem | States | Hypothesis |
|---|---|---|
| `AtomicWriterProofs` `TypeCorrect` | `TypeOK` | |
| `LinkAlwaysIntact` | `LinkIntact` | |
| `WriteImplementsProjection` | `ImplementsProjection` | |
| `LiveAlwaysVisible` | `VisibleCovers` | |
| `AtomicTidyProofs` `LinksExact` | `VisibleExact` | |
| `NothingLeft` | `LeftoversBare` | `DriverDirFuncs` |
| `NodeServerProofs` `TypeCorrect` | `TypeOK` | |
| `MountsAreBounded` | `MountsBounded` | |
| `NodeSerialProofs` `NeverStale` | `NoStaleMount` | `OneAtATime` |
| `NeverStacked` | `NoStackedMounts` | `OneAtATime` |
| `NodeContractProofs` `PublishedIsSound` | `PublishedSound` | `CallsComplete` |
| `GoneLeavesNothing` | `NoResidue` | `CallsComplete` |
| `CanRestart` | `QuietRestartable` | `CallsComplete` |
| `ManagerMatchesDisk` | `ManagedOnDisk` | `CallsComplete` |
| `KeepsContract` | `ImplementsContract` | `CallsComplete` |
| `ProvisionProofs` `TypeCorrect` | `TypeOK` | |
| `GroupOwns` | `OwnedByGroup` | |
| `OneVersion` | `VolumeOfOneVersion` | `"read" \notin Faults` |
| `StoragesProofs` `AnswerAlike` | `SameAnswers` | |
| `HoldAlike` | `SameContents` | |
| `LenientAlways` | `MemoryLenient` | |

### Assumptions and hypotheses

The assumptions on constants say that special values are distinct from ordinary
ones and that data have the shape the code's types give them: `ConstantsOK`
(payloads and what the `dirFuncs` add are trees), `FilesystemConstantsOK`,
`NodeConstantsOK` (finitely many handlers), `SourceConstantsOK` (the files of a
source are trees, a tarball is a sequence of entries), `ProvisionConstantsOK`.
`StoragesConstantsOK` says the same of the metadata, the errors and the files of a
request; any name may occur in them.

The hypotheses are narrower, and each is there because the code needs it:

* `OneAtATime`: the kubelet does not give up on a call, and unmounts do not fail.
  Without the first, `node_retry` shows a published volume removed by the call
  before; without the second, the cleanup removes the directory under a mount.
  Kills in the middle of a call are allowed.
* `CallsComplete`: moreover no kill in the middle of a call and no failing
  removal.  `node_recover` and `node_ready` show what a kill leaves; a failed
  removal in the cleanup is ignored and leaves part of the volume.  Signals,
  graceful stops, reboots, kills between calls and every other failure are
  allowed.
* `"read" \notin Faults`: a file just written can be read back.
  `provision_read` shows the short bundle of one that cannot.
* `DriverDirFuncs`: the functions run in the new directory are `CreateCABundle`
  and `OpenSSLRehash`.  Functions that add nothing would let `Write` take an
  unchanged payload for "no update required" and leave directories with
  certificates.

`node_serial`, `node_crash`, `provision` and `writer_turns` are instances of
these hypotheses.

### The atomic writer

`LinkIntact` is not inductive: nothing in it keeps a directory from changing
after, or being incomplete before, the rename.  The invariant `IInv` adds

* `Private`: the directory a call is filling was made by this call alone, no
  call takes it for the old one, and `..data` does not point to it;
* `Filled`: it holds exactly the files written so far, and the complete
  rendering from the dirFuncs on;
* `TmpIsMine`: a call that is about to rename finds its own `..data_tmp`;
* `OldRetired`, `OldNamed`: the directory a call removes after its rename is not
  the live one;
* `AbsentEmpty`, `HasPayload`, `IdleForgets`, `LinkNamed`: bookkeeping.

`Private` and `FreshIds` give that the rename publishes a complete directory,
`OldRetired` that nothing is removed from under `..data`.  There is one lemma per
action, and `NextIInv` combines them.  For the refinement the same invariant
shows that the rename is a `Commit` of the call's own payload, that every other
step leaves the content alone, and that `"ok"` is returned only past the commit.
`LiveAlwaysVisible` needs a second invariant on top of `IInv`, `VInv`
(one call at a time, `LinksPending`, `PruneSafe`): the links a call has still to
make, together with those that exist, cover its directory, and the links it
prunes belong to no file of it.

`VisibleExact` asks for the converse, and needs to know where a link that is not
live comes from.  `TInv`: every link belongs to the old or to the new directory
of the running call (`LinksMine`), the ones that are to go are in the call's list
of paths to remove (`StaleKnown`), and the old directory is still the complete
rendering it was (`OldRendered`), so that the list computed from it misses none.
`OthersBare`, for `LeftoversBare`, is about the directories that are neither live
nor in use.  The step that matters is "no update required": `SameIsEqual` shows
that the directories compared equal only when the payload has no top-level
certificate, since otherwise the bundle, which exists on one side as a file and
on the other as empty data, tells them apart (`BundleTells`).

### The node server

`MountsBounded` counts: `MountRoom` says that the mounts of a target path and the
handlers that are about to mount on it are together at most the handlers.  A
handler becomes one of them only when nothing is mounted (`isMnt`), and stops
being one when it mounts.

Under `OneAtATime`, `OneCall` says that the kubelet waits for exactly the
handlers that run, so that each volume has one, and `MountsSound` that a target
path has at most one live mount and none while its handler is about to mount or
to remove.  The frame lemmas (`FsFrame` and the ones on it) show once and for
all that a handler changes its own volume only.

Under `CallsComplete`, `DiskInv` describes the volume of every handler step by
step: what is on disk, in the manager and mounted at each value of `pc`
(`Publishing`, `Undoing`), and between calls as a function of what the kubelet
has been told (`Settled`).  The four invariants are read off `Settled`.  One has
to go through the steps: that `NoResidue` holds after an unpublish depends on
what every earlier publish has left.  `KeepsContract` classifies the handlers'
steps (`StepKind`): each is a stutter of `VolumeContract` or its one step that
shows, hides or answers.

### The data

`OneVersion` follows the certificates from the source to the volume.
`FetchInv`: the files fetched are all of one version in `seen`, for a tarball
the overlay of the entries read so far (`ReadOne`, `ReadAll`), so that an error
half-way ends the call before they are used.  `DirInv`: the directory is the
payload, then with the bundle of the files read so far, then with the links.
`MergeApart` and `DirFuncsInTurn` show that running the functions one after the
other on the directory gives what the definition applies to the payload at once.
`OwnInv` ties the owned paths to the step that has chowned them.

### The storages

`StoresInv` relates the two stores volume by volume.  While there are managers,
the one on `MemoryFS` manages exactly the volumes of its store, and so does the
one on `Filesystem` but for volumes in `kept`; this is what makes a volume that is
written to a new one, and merging and replacing files the same.  A volume of
`Filesystem` is one of `MemoryFS` with the same metadata (outside `kept` and
`shadowed`), and one of `MemoryFS` is one of `Filesystem` that shows a rendering of
its files (in `Alike`): the first direction gives `MemoryLenient`, both together
`SameContents`.  `AnswersInv` says the same of the last answers and is not
inductive without `StoresInv`, since the next answer depends on what the stores
hold.  Outside `kept` metadata on disk is complete; of a volume that could not be
removed only its shape is known (`EntryOK`).  Each method has a lemma that says
what it does to its volume and that it leaves the others alone (`Elsewhere`), for
the set of outcomes where it may fail; `OneVolumeInv` then reduces a call to the
volume it is about.

### Only model-checked

The liveness properties `Served`, `ServedWhileUp`, `Unpublished`,
`DriverRecovers` and `StopEnds` (liveness under fairness is beyond the prover),
and the counterexamples of the violation runs, which are facts about one
instance.

## What is not modelled

* File modes, and owners other than the group.
* Path lengths and absolute paths in `validatePath`.  Names with "." elements
  are in `Provision` and not in `AtomicWriter`.
* Hash collisions of `openssl rehash`.
* A `data/` directory removed half-way: `RemoveAll` removes it in one step in
  `Filesystem`.  No checked property depends on it.
* In `FilesystemCalls`, a `metadata.json` truncated by a failed write that the
  cleanup then fails to remove, and I/O errors of `ListVolumes` and
  `ReadMetadata`; `NodeServer` has the former.  Nor, there, the short bundle of
  `provision_read`.
* The Windows branch of `Write`.
* The registry client's options and login, retries of the Kubernetes client.
  Parsing references is a yes or no in `Source`.
* A tarball entry named "./..data".
* Endpoint parsing, the logging interceptor, flags and their defaults, and the
  checks that the manager's options are set: they decide before anything is
  built, and only whether it is.
* The identity and controller servers and the node server's constant answers,
  which have no state.
* `MemoryFS.WriteMetadata` and `GRPCServer.ForceStop`, which have no caller, and
  `Filesystem.ReadFile`, which only tests call and which changes nothing.
* Charts and build files.

## Plan

All modules of the original plan exist and their invariants are proved.  What
is left is to sharpen the hypotheses of the theorems about `NodeServer`:

1. `PublishedSound` with failing removals: a failed removal concerns a volume
   that is not published.
2. What survives kills in the middle of a call: that a filled volume with
   complete metadata stays filled, on top of `NodeSerialProofs`.
3. What survives overlapping calls, besides `MountsBounded`.

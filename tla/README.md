# Pakstak in TLA+

Specifications, model-checking configurations and machine-checked proofs for
pakstak, the program that installs OCI images and runs commands on top of their
layers with Bubblewrap. Paths below are relative to the repository root.

## 1. Inventory

| component | source | state it keeps | operations |
|---|---|---|---|
| storage directory | `src/storage.rs` | `containers/`, `manifests/`, `layers/`, `locks/`, `temporary/` on disk | open for reading, open for writing (clears `temporary/`), publish or remove a container, manifest or layer, each by one rename |
| storage lock | `src/storage.rs:722` | a `flock` on `locks/storage` | try shared (run), try exclusive (all other commands), dropped at exit and at exec |
| layer locks | `src/storage.rs:316,608`, `src/prune.rs` | one lock file per layer, POSIX `fcntl` locks on it | prune: write lock, unlink; run: create the file; bwrap: read lock |
| manifest selection | `src/fetch.rs:123-207`, `src/manifest.rs`, `src/digest.rs` | none | request by tag or digest, follow an index, verify digests |
| image fetch | `src/fetch.rs:87,278`, `src/storage.rs:446,744` | local variables, one staging directory | manifest, then each layer (stage, extract, verify, publish), then the manifest file |
| install, update, switch, uninstall, repair | the files of those names | local variables | see module `Commands` |
| prune | `src/prune.rs` | the sets of manifests and layers in use | drop unused manifests, then unused layers that nobody locks, then stale lock files |
| run and its sandbox | `src/run.rs` | the bwrap command line; afterwards the mounts and locks of bwrap | read manifests, create lock files, exec |
| layer extraction, whiteouts | `src/storage.rs:744-937` | the files of a staged layer | unpack by format, walk the tree, convert each OCI marker for overlayfs, hash the rest |
| stacking | `src/run.rs:28-65,91-115` | the list of layers | stack the layers of several containers, each once; bind one, overlay several |
| publication of entries | `src/storage.rs:238-276,368-438,476-564` | files under `temporary/` | stage, rename, move away, delete |
| removal of trees | `src/storage.rs:638-690` | the modes of a tree | make it writable from the top down, delete it |
| authentication | `src/auth.rs`, `src/fetch.rs:231` | bearer tokens, per registry | retry after a 401 with a new token |
| reference and digest parsing, container names, command line | `src/reference.rs`, `src/digest.rs`, `src/install.rs:29`, `src/main.rs` | none | text to values |

**Interaction.** Every command is a process of its own. Processes share the
storage directory and the kernel's locks and nothing else; there are no threads,
callbacks or messages between them. A command that writes holds `locks/storage`
exclusively from `StorageMutable::new` to its exit. `run` holds it in shared mode
and then replaces itself by bwrap: the lock file is close-on-exec, so the sandbox
lives on without the storage lock, protected only by the read locks that bwrap's
own pid 1 takes. Prune looks for those before it removes a layer.

**What is hard.** Any command can die between any two steps, or fail half way,
and nothing is rolled back: the order of the steps has to leave a usable storage
every time. A saved manifest is taken as proof that its layers are there, so
everything depends on who may remove what, and when. Sandboxes run concurrently
with everything. A tag, an index and several digests may lead to the same image.

**What makes each part correct.**

- storage and fetch: a published layer is whole; a saved manifest is the right
  one and complete;
- commands: an installed container can be run;
- prune: it takes nothing that is needed and leaves nothing that is not;
- locks: a run reads a storage that does not change under it; a sandbox keeps
  its layers; the lock is given back;
- publication: each call is atomic for readers, and never meets leftovers;
- removal: any tree goes, and nothing outside of it is touched;
- extraction: of the markers becomes what overlayfs needs, whatever the order;
- stacking: the root of a sandbox shows the image, later containers on top;
- authentication: cached tokens cannot be noticed and do not leave their registry;
- references: read as they were meant;
- repair: once it has gone through the containers, each one that records a
  canonical digest (section 2, State and code) resolves to a whole image, so that
  what the check still complains of is unused ("unused invalid manifests, unused
  missing layers", `repair.rs:67-68`), and a prune clears it away
  (`repair.rs:69`);
- all of it: the storage is a set of complete images and a map from containers
  to them (`ImageStore`).

`PROJECT.json` lists the hazards one by one, at the line where each bites, with
the property that covers it or the reason why none does yet.

## 2. Modules

| module | models | extends |
|---|---|---|
| `Registry` | references, digests, `fetch_image_manifest` as the set of manifests it may return | |
| `Storage` | the directory tree, both kinds of locks, the mounts of sandboxes; queries and primitive changes | `Registry` |
| `Fetch` | `fetch_image`, `fetch_layers`, `write_layer` | `Storage` |
| `Prune` | `prune` | `Storage` |
| `Commands` | `main`'s dispatch, install, update, switch, uninstall, repair; exit and crash | `Fetch`, `Prune` |
| `Sandbox` | `run` up to its exec; bwrap as `run` uses it (external) | `Storage` |
| `Pakstak` | the system: commands and runs on one storage; the properties | `Commands`, `Sandbox` |
| `ImageStore` | abstract specification: complete images, containers that stand for them | |
| `Images` | the refinement mapping from `Pakstak` to `ImageStore` | `Pakstak` |
| `Corruption` | `Pakstak` with manifests that get damaged and layers that get lost | `Pakstak` |
| `Inductive` | the inductive invariant | `Pakstak` |
| `StepProofs` | the types, the locks and what the commands know, step by step | `Inductive` |
| `PakstakProofs` | the theorems about the system, about repair, and of the refinement | `StepProofs`, `Corruption`, `Images` |
| `MCPakstak` | instances for TLC | `Images`, `Corruption`, `Inductive` |
| `LayerTree` | the files of a layer with OCI markers or overlayfs attributes; what the conversion amounts to | |
| `Whiteouts`, `WhiteoutsProofs`, `MCWhiteouts` | `extract_layer` step by step; the proof that it converts exactly; instances | `LayerTree` |
| `RootFs`, `MCRootFs` | `read_stacked_layers`, bind and overlay, the image by the OCI rules; instances | `LayerTree` |
| `Removal`, `MCRemoval` | `remove_dir_all_writable` with kills; instances | `LayerTree` |
| `TreeProofs` | what is defined by recursion on paths exists and is unique | `LayerTree` |
| `RootFsProofs`, `RemovalProofs` | the proofs about stacks and removals | `RootFs`, `Removal`; `TreeProofs` |
| `Catalog` | abstract specification: entries that are put, amended and dropped at once | |
| `Publishing`, `PublishingProofs`, `MCPublishing` | the calls of `StorageMutable` on containers and manifests, one system call at a time; proofs; instances | refines `Catalog` |
| `Exchange` | abstract specification: calls to registries without any memory | |
| `Tokens` | `call_get_with_auth_retry` and the token cache | refines `Exchange` |
| `Reference` | `Reference::parse` and `Display` as operators on texts | |
| `Client`, `ClientProofs`, `MCClient` | references from a command line, and calls to the repositories they name; proofs; an instance | `Tokens`, `Reference` |

The modules from `LayerTree` on look into what the system model takes as one
step. `Storage.PublishLayer` takes an extraction as exact or refused. Of what the
decoder of the stream yields this is `ConversionIsExact`; that the decoder yields
the whole layer is not shown, and for gzip with several members not true (end of
section 3). The storage's calls on containers and manifests are single steps,
which is `ImplementsCatalog`. `OpenMutable` empties `temporary/` in one step,
which is `TreeIsRemoved`. A fetch step of `Fetch` is a call that is answered or
breaks, which is `ImplementsExchange`. A sandbox whose layers are all mounted
shows the image, which is `RootFs`, under the premises of `OverlayShowsImage`: no layer
above the lowest is opaque at its root (`NoOpaqueRoot`), and a layer that is listed
again is empty (`OnlyEmptyListedAgain`).

### State and code

- `containers[c]` is `containers/<c>/manifest_digest` together with
  `reference.json`; both appear with one rename, and `update` and `switch`
  replace the first file only.
- `manifests[d]` is the content of `manifests/<d>.json`. `layers[l]` is the
  directory `layers/<l>`: absent, whole, or damaged (extracted over leftovers).
- `temporary` is the set of layers that have a directory under `temporary/`.
  Staged files and containers are not kept in it: they are written and renamed
  within one step, and nothing ever reads them again.
- `flock`, `readLock`, `writeLock`, `bound`, `mounted` are the kernel's state.
  They speak of the inode that has the name *now*. Unlinking a lock file or
  renaming a layer away therefore empties the sets: who holds the old inode holds
  nothing that prune, or a later sandbox, would see.
- `pc[p]` is where a process stands. `fetch[p]`, `scan[p]`, `job[p]`, `box[r]` are
  the local variables that survive from one step to the next.

- In `LayerTree`, a marker `<dir>/.wh.<name>` is the path `<dir>/<name>` in
  `whiteouts`, and `<dir>/.wh..wh..opq` the directory in `opaques`. `kind`
  "whiteout" and the set `opaque` are the attributes `user.overlay.whiteout` and
  `user.overlay.opaque`; `denied` are the directories without read, write or search
  permission for their owner. In `Whiteouts`, `pending` is the vector of the same name, as a set:
  nothing may depend on its order, as `read_dir` has none.
- In `Publishing`, `published` is the disk that readers see, `temporary` the
  directory of that name, flat as it is, with files that are torn while they are
  being written; `todo` is what the current call has still to write.
- In `Tokens`, a token is named by the repository it was granted for, and
  `tokens` is the map of `RegistryClient`. `access` and `valid` are the
  registries' business.
- In `RootFs`, `layers` is the vector of `read_stacked_layers` and `given` the
  layers as the manifests list them. A layer is named by its archive.

### Steps

A step is what one process does between two points at which another process, or
its own death, could be observed: one rename, one lock, one request. Reads of
files that only a writer could change are joined to the step that uses them,
since a command holds the storage lock alone. Every failure of I/O or of the
network that leaves nothing behind is `Crash`: the process ends where it
stands. Failures the code handles and survives are actions of their own
(`DiscardLayer`, `LockLayerError`, `RemoveLayerError`, `CleanupLockError`).

A tag may be answered with anything that passes the checks, differently every
time. Bytes are the members of `Blob`; `Denotes` gives the bytes of a digest and
need not be injective, as SHA-256 and SHA-512 or another case of the hexadecimal
digits give one blob several names. A digest is *canonical* when it names a plain
image manifest and is its only name. Commands use the digest of the response
header; `switch` uses the one it was given. For canonical digests the two agree,
and that is where `ContainersResolve` and the abstract image store speak of.

## 3. Runs

| run | instance | distinct states | what it shows |
|---|---|---|---|
| `commands` | 2 containers, 2 commands at a time, no runs; images `<<base, one>>`, `<<base>>`, an index over both, a second digest for the first image, a tag | 510 thousand | `TypeOK`, `SavedManifestsAreComplete`, `PublishedLayersAreWhole`, `ContainersResolve`, `PruneReclaims`, and that `Pakstak` implements `ImageStore` |
| `sandboxes` | 1 container, 1 command, 2 runs; images `<<one, two>>` and `<<two>>` | 1.7 million | `ReadersSeeStableStorage`, `IntactSandboxStaysIntact` |
| `progress` | 1 container, 1 command, 1 run; images `<<one, two>>` and `<<two>>`, a digest whose bytes are no manifest, with fairness | 99 thousand | `LocalWorkEnds`, `AnsweredCommandsEnd` |
| `repair` | 2 containers, 1 command, damaged manifests (also junk bytes) and lost layers | 135 thousand | `RepairRestoresContainers`, `PruneClearsWhatRepairReports` |
| `switch` | as `commands`, 1 container, 1 command | violation | `SwitchedContainersResolve` does not hold |
| `exec` | 1 container, 1 command, 1 run, 1 layer | violation | `RunningSandboxIsIntact` does not hold |
| `publishing` | 2 containers (one is called `manifest_digest`), 1 manifest, 2 values | 11 thousand | `ImplementsCatalog`, `StagingIsFree` |
| `removal` | a tree of three levels with a directory beside it, any modes and links, 2 kills | 4.5 thousand | `TreeIsRemoved`, `RemovalSucceeds`, `OutsideIsUntouched` |
| `whiteouts` | layers on four paths, three levels, with any markers; one directory that may be unreadable, one unsearchable, both read-only | 87 thousand | `ConversionIsExact`, `ExtractionEnds` |
| `readonly` | those of them that only delete, with no directory that is unreadable or unsearchable | violation | `MarkersNeedNoPrivileges` does not hold |
| `rootfs` | stacks of up to 3 of the layers on three paths, the root opaque or not | 144 thousand | `EachLayerOnce`, `OverlayShowsImage`, `BindShowsLayer`, `LatterOnTop` |
| `client` | 3 registries, one with a port, and 4 repositories, two of them on that registry, each with any access; names of one and two parts, with every tag and digest | 139 thousand | `ReadsAsIntended`, `ImplementsExchange`, `TokensStayHome`, `CallsEnd` |

**Bounds.** The system model has no counters to cut off; its state space is finite
once the constants are. Two containers are needed for an image that one of them still uses
while the other lets go of it, two images with a common layer for a layer that is
needed by one manifest and not by the other, an index and a second digest for the
answers whose digest is not the one asked for. Two commands compete for the
storage lock, and one follows the other's crash. Two runs are enough for one
sandbox whose lock prune meets while the other has none yet, and two layers for a
sandbox that has one of its locks and not the other. `commands` and `sandboxes`
are separate because commands and sandboxes meet only in the locks.
Permuting containers, commands or runs changes nothing, so the safety runs use
that symmetry; the runs with liveness do not. Deadlock is checked for the system,
for `Publishing` and for `Tokens`: an idle process can always start something.
`Whiteouts`, `Removal` and `RootFs` describe one piece of work, which ends.

`MaxLayers` (3) bounds the layers of the manifests of one run. Three are the least
for which a shared layer can lie between two others, and for a directory that is
deleted, made anew and added to. Three levels of paths are the least for a
marker in a directory that is itself hidden or made anew; `x` stands in for the
root, which may hold markers like any directory. The one marker at the root itself
is the opaque one, for which overlayfs behaves differently (section 5). `MaxKills` (2) lets a removal be
interrupted once more while it removes what an interrupted one has left.

**Mutants.** Next to some definitions stands a variant with a comment "Mutant":
the definition with a bug it might have had. No specification uses them.
`PROJECT.json` pairs each property with the variant that breaks it.

**Fairness.** `FairSpec` asks for weak fairness of local work only: the steps of
prune, uninstall and exit, and the steps of a run up to its exec. These are
system calls on a local disk that the operating system will not put off for ever.
Nothing is assumed of fetches (the HTTP agent has no timeout, so a registry can
hang a command for ever), of sandboxes (they end when the user says so), or of
errors. `LocalWorkEnds` therefore holds although every sandbox may keep its
layers for ever: prune passes over what it cannot lock.

`Answered`, the premise of `AnsweredCommandsEnd`, adds the steps of fetches and of
the other commands. A registry may
answer whatever it likes, and when no answer can be good the command fails; what
it may not do is never answer. The fairness of `Whiteouts` and `Removal` is again
that of local work: an operating system carries on with a process that is not
waiting. `Removal` excludes by `MaxKills` that somebody kills the command again and
again for ever. In `Tokens`, `GetWithAuthRetry` is the client's next request, so its
fairness says that the servers answer.

### Disagreements

Three places where the code does something else than the repository says of it;
each is a run that TLC finds violated. Two more are behaviour that the
repository says nothing definite about.

`switch` (`src/switch.rs:20`): the container is made to record the digest of
the command line, the manifest is saved under the digest of the last response. For
an image index, or a second digest of the same image, these differ. The command
reports success; the container cannot be run; `prune` fails as long as it is
installed (`read_used_layers`), and `repair` cannot help, because it fetches
the same way. `src/main.rs:47` promises "Switch an installed container to a
specific manifest digest."

`exec` (`src/run.rs:12`): at exec the storage lock is dropped, and bwrap takes its
locks only after it has mounted everything and its pid 1 has started. An
uninstall and a prune fit in between; the sandbox then runs with a lock on an
unlinked file and a root whose layer is deleted. The comment at
`src/storage.rs:622` says that prune's lock serves "to observe running
sandboxes". What does hold is `IntactSandboxStaysIntact`: once a sandbox has all
its locks *and* its layers, it keeps them.

`readonly` (`src/storage.rs:866`): a layer deletes a file from a directory which it
makes read-only for its owner. The overlayfs whiteout is to be created in that
directory, which the file system refuses; the conversion fails, and with it the
install of a correct image, unless it is run by root. `src/README.md:13`: "Require
no special privileges (be rootless)". The instance has only such layers, so that
this is what the trace shows. By the model other markers fail there too: the marker
itself cannot be unlinked (`src/storage.rs:896`; it is made writable, but not the
directory it is in), and a read-only directory cannot be made opaque
(`src/storage.rs:822,860`). (`remove_dir_all_writable` has the same task and does
make directories writable.)

A port without a tag (`src/reference.rs:35`): in `localhost:5000/app` the tag is
split off first, at the colon of the port. The error is "image repository is
missing" (`src/reference.rs:50`), while the check before it,
`registry.contains(':')`, expects ports. With a tag behind it the reference is read
correctly. `Display` drops the tag beside a digest, so a reference with a port,
a tag and a digest is displayed as one that will not be understood.
`ReadsAsIntended` says that these texts are refused, and no others misread.

Gzip members (`src/storage.rs:766`): `GzDecoder` stops after the first member of a
gzip stream. What follows is read for the digest (`src/storage.rs:787`), so the
layer verifies and is published, short of the files in the other members.
`Whiteouts` starts from what the decoder yields and does not show this.

## 4. Proofs

TLAPS proves the following for every value of the constants that satisfies the
assumptions: for the system `RegistryAssumption` (shape of the data: digests denote bytes,
manifests list layers, tags are not digests, `None` is nothing else) and
`ProcessAssumption` (a process is either a command or a run); for the others
`PathAssumption` (every path leads up to the root), `ArchiveAssumption` (what a
layer decodes to is an archive), `HostAssumption` (a repository has one registry)
and `PlaceAssumption` (containers and manifests have different file names).
`LayerAssumption`, `RemovalAssumption` and `WrittenAssumption` say what the
constants of `RootFs`, `Removal` and `Reference` are: layers are archives, the tree
to remove is at a path, and what may be typed is of the grammar
`host[:port]/name{/name}[:tag][@algorithm:hex]` (`IsWellFormed`). `WordAssumption`
says that words are not separators, `ClientAssumption` which registry hosts a
repository.

| theorem | module | statement |
|---|---|---|
| `Inductive` | `PakstakProofs` | `Spec => []IInv` |
| `TypeCorrect` | `PakstakProofs` | `Spec => []TypeOK` |
| `ManifestsComplete` | `PakstakProofs` | `Spec => []SavedManifestsAreComplete` |
| `LayersWhole` | `PakstakProofs` | `Spec => []PublishedLayersAreWhole` |
| `ContainersRun` | `PakstakProofs` | `Spec => []ContainersResolve` |
| `PruneIsThorough` | `PakstakProofs` | `Spec => []PruneReclaims` |
| `ReadersStable` | `PakstakProofs` | `Spec => ReadersSeeStableStorage` |
| `SandboxIsSafe` | `PakstakProofs` | `Spec => IntactSandboxStaysIntact` |
| `RepairRestores` | `PakstakProofs` | `CorruptibleSpec => []RepairRestoresContainers` |
| `PruneFinishesRepair` | `PakstakProofs` | `CorruptibleSpec => []PruneClearsWhatRepairReports` |
| `Implementation` | `PakstakProofs` | `Spec => ImplementsImageStore` |
| `ConversionExact` | `WhiteoutsProofs` | `Spec => []ConversionIsExact` |
| `CallsAreAtomic` | `PublishingProofs` | `Spec => ImplementsCatalog` |
| `NothingInTheWay` | `PublishingProofs` | `Spec => StagingIsFree` |
| `StackIsExact` | `RootFsProofs` | `Spec => []EachLayerOnce` |
| `SandboxShowsImage` | `RootFsProofs` | `Spec => []OverlayShowsImage` |
| `BoundLayerShows` | `RootFsProofs` | `Spec => []BindShowsLayer` |
| `LatterWins` | `RootFsProofs` | `Spec => []LatterOnTop` |
| `RemovalMeetsNoError` | `RemovalProofs` | `Spec => []RemovalSucceeds` |
| `RemovalStaysInside` | `RemovalProofs` | `Spec => OutsideIsUntouched` |
| `GrammarIsRead` | `ClientProofs` | every well-formed reference is read, and read again from its display, as it was meant, or refused for a port without a tag |
| `TextsAreRead` | `ClientProofs` | `Spec => []ReadsAsIntended` |
| `TokensAtHome` | `ClientProofs` | `Spec => []TokensStayHome` |
| `CacheIsTransparent` | `ClientProofs` | `Spec => ImplementsExchange` |

The properties are not inductive by themselves. That `WriteManifest` completes an
image depends on all its layers having been seen by a process that nobody can
have interfered with since; that `RemoveLayer` is harmless depends on manifests
having been removed before. `IInv` (module `Inductive`) is made of what each
process may rely on at each of its program points:

- `StorageLockInv`: the storage lock follows the program counters, and whoever
  has it exclusively has it alone. Every argument about a command rests on it:
  while one is under way, all others are idle (`OthersIdle`), and no run writes.
- `MutatorInv`: per command, `JobOK` (the command line fits the program point),
  `TemporaryOK` (nothing is staged unless a layer is being extracted, so a staging
  directory is always fresh), `FetchOK` (layers passed so far are there; at the
  end the manifest is saved), `ScanOK` (what prune found in use is still what is
  in use; unused manifests are gone before layers go; a layer is removed under its
  write lock only).
- `LayerLockInv` and `RunnerInv`: read and write locks exclude each other; a layer
  that a sandbox still sees is one whose lock it holds, in the file that has the
  name now, or will hold once its pid 1 has come that far.
- `StorageInv`: the three safety properties of what is published.

`StepProofs` has the types and the locks, and the commands, action by action;
`PakstakProofs` adds the storage, puts them together and draws the theorems. `IInv` was checked by TLC on the instances of `commands` and
`sandboxes` before it was proved. The refinement uses that under the invariant
an image is stored exactly when its manifest is saved, so that only
`WriteManifest` (Store), `PruneManifest` (Discard), the publishing steps (Use, or
Forget when the new digest is not canonical) and `Uninstall` (Forget) are visible
to the image store.

`CorruptibleSpec` lets manifests be damaged and layers be lost while no command is
under way, so `StorageInv` is gone. But locks, types and `MutatorInv` do not
rest on it: they speak of what a command has itself seen and written since it took
the storage lock, and damage happens only while no command has it. `DamageInv`
consists of `TypeOK`, `StorageLockInv`, `MutatorInv` and `RepairInv`: the
containers that a repair has updated (`Repaired`) resolve to whole images if they
record canonical digests, because it fetched them under the lock it still holds.
`ScanOK`, in `MutatorInv`, says of a prune that has ended what it has kept, and with
it `PruneClearsWhatRepairReports` follows.

The other invariants are smaller. In `Whiteouts`, the tree is at any moment the
one that `Converted` describes for the markers handled so far and the archive for
the others; each directory whose parent has been walked has been walked itself, is
pending, or is an entry still to handle. That nothing remains when `pending` is empty needs `PathAssumption`: a set
of paths not walked would be closed under `Parent`. In `Tokens`, a token
is of its registry, and at the retry it is the one just granted. In `Publishing`,
what is staged is what the call has written so far, followed by what it has still
to write, and apart from it `temporary/` is empty as long as the command is
past its clearing.

**Recursion.** `Chain` and `IsWithin`, `Merged` and `ImageOf` are recursive functions
on paths or on lists. They are proved about without induction theorems: a set of
paths at which a claim fails has, by `PathAssumption`, a member whose parent is not
in it, and a set of numbers a least one. `TreeProofs` shows in this way that a
definition by recursion on paths defines exactly one function; the proofs then use
its equations.

**Stacks** (`RootFsProofs`). Overlayfs goes down from the root and drops, at each
step, the layers that have been hidden; the OCI rules apply whole layers one after
the other. `MergedIff` turns the first into a closed form: a layer takes part in a
merged directory exactly if it has the directory and no layer above it has, on the
way there, something that hides what is below. From it follows which layer decides
a path (`OverlayAt`), and that a layer on top of an overlay does what applying it
to the image does (`OverlayAppend`), for which the converted layer has to hide
exactly what the archive deletes (`CoversIsHides`). The invariant adds to
`EachLayerOnce` that the stack lists layers in the order in which they were first
listed, from which `LatterOnTop` follows, and that at every moment the stack shows
the image so far. The proof of `OverlayShowsImage` failed at first for a layer that
is opaque at its root; TLC then showed the counterexample, and the property has
`NoOpaqueRoot` as a premise since.

**Removal** (`RemovalProofs`). While the tree is made writable there is a set of
directories that have been visited: none of them is locked, and whatever is in
them has been visited too or is pending. When nothing is pending, that set holds
everything within the tree, so deleting meets no locked directory. A kill at any
point leaves a tree to which the same argument applies again.

**References** (`ClientProofs`). A text is put together from parts of which it is
known what separators they hold. Where a part holds none, the last (or first)
separator of the whole is the one before (behind) that part (`LastCut`,
`FirstCut`), and cutting there gives the parts back (`Cut`). The only reference
whose last colon is not the one of its tag has a port and no tag (`PortIsAlone`).

**Model-checked only.** `LocalWorkEnds`, `AnsweredCommandsEnd`, `CallsEnd`,
`ExtractionEnds` and `TreeIsRemoved`: liveness under fairness is out of TLAPS's
reach. `RemovalSucceeds` and `ConversionIsExact` prove of the last two that what
has ended has ended well.

## 5. Not modelled

- bwrap is not part of the repository. `Mount`, `BindLockFile`, `TakeReadLock`
  and `BoxExit` are read off the command line that `src/run.rs` builds.
- What overlayfs is asked for is in the source; what it does (`Merged`, `Overlay`) is
  modelled from its documentation, for lookups. Directory *listings* are left out:
  from kernel 6.7 on a directory must be marked for whiteouts made of attributes to
  be left out of its listing, which the conversion does not do. So are markers for
  names that are marker names. On the root of a layer overlayfs does not look for the
  opaque attribute, so a layer that deletes everything at once (`.wh..wh..opq` at its
  top) does not hide the layers under it; `NoOpaqueRoot` excludes it from
  `OverlayShowsImage`.
- Files of a layer are "file" or "dir". What the `tar` library refuses or alters
  (absolute paths, links out of the directory, ownership) is its own affair.
- Registries and token services are arbitrary, with two assumptions that module
  `Tokens` names: a token that gives no access is answered with 401 and not 403,
  and a registry that needs no token ignores one. HTTP, TLS, redirects and the
  text of challenges and token responses are left out.
- The text of digests and the algorithms; names of containers (a character check
  before anything happens); the command line and the choice of the storage path.
- Power loss. A crash is the death of a process; what it wrote stays written. The
  code does not sync.
- `schemaVersion`: fetch refuses a manifest with another one, while the readers of
  saved manifests do not look at it. Nothing but damage could bring one there.

## 6. Plan

Done in this order: storage, locks and fetch; prune and the commands; sandboxes;
the abstract image store; the invariant and its proofs; layers (`LayerTree`,
`Whiteouts`, `RootFs`, `Removal`); `Tokens`; `Reference`; `Publishing`; repair
proved; stacks, removals and references proved. Every safety property of a
passing run is now a theorem. What is left:

1. A single bound layer that is later overlaid: the same container alone and
   in a stack shows different roots; a specification of the difference over several
   runs of one storage.
2. Digest texts: two spellings of one digest as two names, down to the hexadecimal
   digits, in place of `Denotes` being any function.

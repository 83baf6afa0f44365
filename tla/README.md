# Cargo in TLA+

Specifications of the parts of Cargo (version 1.30/1.31, `src/src/cargo`) in which
order, concurrency, interruption or search make the code hard to test, checked with
TLC on small instances, with TLAPS proofs about the build loop, downloads, the registry
cache, git updates, the record of installed binaries and `cargo fix` for instances of any size.

Each module starts with a comment that names the files it models; `PROJECT.json` maps
each definition to its lines.  Definitions keep the names of the code.  Those that
`PROJECT.json` lists as mutants, mostly named after a definition with a suffix
(`Recorded_keeping_owner` beside `Recorded`), are plausible mistakes: each replaces one
definition of the model, and makes one property of a run fail.

## The parts and how they interact

A command such as `cargo build` reads the workspace and its manifests (`Workspace`,
`Manifest`), reads `Cargo.lock`, resolves the dependencies (`LockFile`, `Resolver`), gets
the packages from registries and git (`RegistryCache`, `Downloads`, `GitSource`), makes the
graph of units with their profiles (`Profiles`, `Units`, `CompilationFiles`, `CargoCompile`),
decides which units are fresh (`Fingerprint`), and runs the jobs (`JobQueue` on
`DependencyQueue`).  `cargo install` (`Install`) and `cargo fix` (`Fix`) are built on these.
Several Cargo processes may run at once and meet at files, under `FileLock`.

| Module | Code | State and actions |
|---|---|---|
| `DependencyQueue` | `util/dependency_queue.rs` | `dep_map`, `reverse_dep_map`, `dirty`, `pending`, `depth`; `Queue`, `QueueFinished`, `Dequeue`, `Finish`. `DQSpec` is the queue with any client that keeps its rules |
| `JobQueue` | `core/compiler/job_queue.rs` | extends `DependencyQueue`: the local queue, tokens, channel, active jobs; the main thread's steps in the order of `drain_the_queue`, the workers, the job server's helper and the tokens that rustc takes |
| `BuildPromise` | (abstract) | what `JobQueue::execute` promises: jobs requested, started, done, failed, the outcome |
| `Fingerprint` | `core/compiler/fingerprint.rs`, parts of `custom_build.rs`, `job_queue.rs` | sources, outputs, dep-info and stored fingerprints with mtimes; `Prepare` per unit, jobs, `Interrupt`, edits, deletions, changes of flags and environment |
| `FileLock` | `util/flock.rs` | shared and exclusive locks of files |
| `RegistryCache` | `sources/registry/{index,mod,remote}.rs` | the index, its clone, the `.crate` files and unpacked sources, processes with program counters; fetch, query, download, unpack, use |
| `Downloads` | `core/package.rs`, `util/network.rs` | pending transfers, retries, timers of the low-speed check; `start`, `wait`, results, unpacking; the wire |
| `Fix` | `ops/fix.rs`, `util/lockserver.rs`, `util/diagnostic_server.rs` | the rustc wrappers, the lock server's threads, the diagnostics server, the main thread |
| `Resolver` | `core/resolver/*` | `activate_deps_loop` with its context, remaining dependencies, backtrack stack and conflict cache; the `[replace]` table |
| `LockFile` | `ops/{resolve,lockfile,cargo_generate_lockfile}.rs`, `core/registry.rs`, `core/resolver/{encode,resolve}.rs` | `Cargo.lock`, the manifests, the registry, processes that load, resolve, compare, truncate and write |
| `GitSource` | `sources/git/{source,utils}.rs` | the remote, the database, the checkouts with `.cargo-ok` and a submodule, locks |
| `CrateListing` | `ops/cargo_install.rs` | operators: the record in `.crates.toml`, `find_duplicates`, what an installation or an uninstallation makes of it |
| `Install` | `ops/cargo_install.rs` | extends `GitSource` and `CrateListing`: `bin/`, `.crates.toml`, the transaction |
| `Workspace` | `core/workspace.rs` | operators: `find_root`, members, `find_path_deps`, `validate` |
| `Manifest` | `util/toml/targets.rs`, `core/manifest.rs` | operators: a package's targets from sections and files |
| `Profiles` | `core/profiles.rs` | operators: `get_profile` and the merging of overrides |
| `Units` | `unit_dependencies.rs`, `cargo_compile.rs`, `build_context` | operators: `generate_targets`, `compute_deps` |
| `CompilationFiles` | `compilation_files.rs`, `layout.rs`, `custom_build.rs` | operators: metadata, file names, links, the scripts' outputs a unit reads |
| `CargoCompile` | `ops/cargo_compile.rs`, `ops/cargo_clean.rs`, `context/mod.rs` | composes the five above: commands over one target directory, from reading the workspace through the walk of the unit graph with downloads to the files on disk |

The composed modules are `JobQueue` (with `DependencyQueue`), `RegistryCache` and
`GitSource` (with `FileLock`), `Install` (with `GitSource` and `CrateListing`) and
`CargoCompile`.

## Runs

Twelve runs; several ask their questions of many small worlds, which a run chooses in its
initial state (`scene`, `world`).

**`job_queue`** (`MCJobQueue`).  Three jobs in four graphs (a chain, two leaves that join, a
fork, a triangle), two tokens (`-j 2`), jobs that fail or are fresh, printing that fails,
one line of output per job.  `TokensConserved`: no token is lost or made up, the running
workers and rustc's threads respect `-j` inside the loop, and when the main thread blocks
every waiting job has a request open.  `FreshnessPropagates`: a rebuilt dependency rebuilds
what is above it.  `DQSpec`: the loop keeps the rules of the queue's client.
`KeepsPromise`: the loop implements `BuildPromise`.  `Termination`: the build ends.  Three
jobs are the fewest with a diamond edge, a waiting job and a running one; two tokens make
a job wait while another token is under way.  After an early return through `?` the
tokens are dropped while workers still run, so the bound by `-j` is one of the loop only.

**`fingerprint`** (`MCFingerprint.cfg`).  Four projects: two path crates under a coarse clock with
interrupts and failing jobs; a registry crate between path crates; a build script with any
`rerun-if` directives; the same under two sets of flags.  Files have two versions.
`UpToDate`: a unit that counts as done is what a build from scratch would have produced.
`NothingRebuilt`: a second build does nothing (path crates; a registry crate over a path
crate costs one build more).  `Settles`: undisturbed builds reach a state in which all is
fresh.

**`fingerprint_interrupt`** (expected violation): see Findings.

**`registry_cache`** (`MCRegistryCache`).  Three processes, one with a lock file, one without,
one offline, after the same package, with a network that fails; one process that is
killed twice and whose writes are torn; a local registry.  The index has three commits, the
package appears in the second and is yanked in the third; a package has two files.
`WholeWhileUsed`, `NoWaitCycle`, `MarkedWhole`, `LockedFound`, `EveryoneEnds`.  One package
is enough for the wait cycles that the code can form: those of one `.crate` and the index.

**`downloads`** (`MCDownloads`).  Two packages from the network and a local one, each of
two chunks, one retry, both kinds of failure.  `AssertionsHold` (the assertions
of the code), `DeliveredOnce`, `TimeoutEarned`, `SessionEnds`.

**`fix`** (`MCFix.cfg`).  Two crates with one entry point, a good and a bad fix, two
iterations, processes that are killed at any step.  `OneFixer`, `BackedOut`.
`OneUnprinted`: of the messages posted to the diagnostics server at most one is not printed
(the last may be lost, see below).  `FixEnds`: the command ends, its servers shut down.

**`fix_backout`** (expected violation): see Findings.

**`resolver`** (`MCResolver.cfg`).  About 7000 worlds: every diamond over three or four packages
with two versions and exact constraints, puzzles with three choosers, hopeless candidates, features,
versions 0.x and `links`, any lock file with either version preference and a second
member, replaced packages.  `Sound`: a result is a resolution and has nothing in excess.
`Complete`: a failure means that no choice works (against an exhaustive reference
definition).  `LockKept`: a lock file that still fits is followed.  `CacheTrue`: what enters
the conflict cache is unconditionally true.  `Terminates`.

**`resolver_features`** (expected violation): see Findings.

**`git_install`** (`MCInstall`).  Two processes install, replace, uninstall and build, in
twelve scenes: failing moves, compilations, writes and removals; kills; pushes and garbage
collection; a submodule, also one whose commit is missing; manifests that cannot be read; a
database that a killed process half deleted; `net.git-fetch-with-cli`; a frozen and an offline
process; installation from git, of a whole package and in parts.
`CheckoutWhole`: a checkout in use is and stays that of its revision.  `UpdateRecovers`: an update
with the network fails only for what it cannot repair (`BeyondRepair`), whatever killed
processes left behind.  `LedgerTrue`, `NothingLost` (install), `CommandsEnd`.

**`lockfile`** (`MCLockFile`).  Seven scenes.  A scene fixes the processes, the commands each
may give and how many, the manifests the developer may switch to and how often, the kills,
what is published at first and later, what may be yanked or changed by a mirror, and the
commits of the git repository.  Versions 10, 11, 20 stand for 1.0, 1.1, 2.0.  `LockSound`: a
whole lock file describes a resolution, and while nobody is killed only a file just created is
ever read as empty.  `LockStable`: it is followed, without asking
anybody.  `UpdateConservative`: `update -p` moves only what it frees.  `ReResolves`: an old
lock never makes a build fail that would succeed without it.

**`compile`** (`MCCompile`).  Some 73,000 scenes: two dozen builds, most followed by cleaning (a
native library, a procedural macro, every kind of target, `--target`, wasm32, features,
overrides, profiles, benchmarks, crate types without files, downloads), odd manifests and
filters, and every workspace over four directories from each of them.  `SameWorkspace`: all
members agree on root, members and listed default members.  `PlanDetermined`: the
unit graph does not depend on the order of roots or downloads, nor on who asks first.
`BuildStateFound`: each script output that a job looks up is there, and the job waited for it.
`OutputsDistinct`: units share a file only where Cargo gives up the hash.  `CleanComplete`:
`clean -p` leaves only files it has no name for (`Unnamed`) and names with a hash it cannot
arrive at (`Strange`).  The last four state their exceptions, which the scenes reach and the
list of shortcomings below explains.

### Fairness

- `JobQueue`: the main thread runs on, and each worker ends (its process does).  Nothing is
  assumed of the helper or of the tokens rustc takes: the first job runs without one.
- `Fingerprint`: a session goes on, its jobs end, the clock ticks.
- `RegistryCache`, `Install`: each process goes on when it can.  A file lock is not fair, but
  each process gives a bounded number of commands, so that none is overtaken for ever.
- `Downloads`: the main thread goes on, time passes, and curl's wait returns.  No byte need
  ever arrive.
- `Fix`: main thread, server threads and wrappers go on; a killed wrapper's socket is closed
  by the operating system.
- `Resolver`: the one thread runs on.
- `LockFile`, `CargoCompile`: safety only; their behaviours end.

## Proofs

The assumptions on constants are named `ASSUME`s, which TLC evaluates on the instance of the
run.

**The build loop**, for every finite set of keys, every set of acyclic graphs and every
`Jobs >= 1` (`GraphsAssumption`, `JobsAssumption`).

- `JobQueueInvariance`, first part, on the queue with any client: `QueueInvariant` (the
  inductive invariant `DQInv`), `BuildsInOrder`, `AssertionsHold`.  `DQInv` says what the code
  keeps implicitly: the recorded dependencies of a key are exactly those not finished yet,
  and the reverse map is its inverse; without that the assertion in `finish` does not follow.
- `JobQueueInvariance`, second part, and `JobQueueProofs`: the inductive invariant `JInv` of the
  loop: types, `DQInv`, where the main thread is (`PhaseInv`), where each pending job is
  (`WorkInv`), that messages under way tell the truth and that each active job is running or
  has one `Finish` under way (`ChannelInv`), a token per job but one (`TokenPerJob`), freshness
  (`FreshInv`) and outcome (`OutcomeInv`).  `TokenPerJob` alone is not inductive: that a `Finish`
  removes one active job, once, is `ChannelInv`, and that a job waiting is not active is
  `WorkInv`.
- `JobQueueProofs`: `LoopInvariant` and what follows from it: `LoopTypes`, `NobodyForgotten`,
  `TokensSuffice`, `DirtySpreads`, `DependenciesFirst`, `NothingAfterError`, `TruthfulOutcome`;
  `QueueNeverStuck` (by a rank on acyclic graphs); `LoopImplementsClient` (the loop's steps
  are `DQNext` steps or leave the queue alone) and `LoopKeepsPromise` (each step is a step of
  `BuildPromise` under the mapping in `JobQueue`, one lemma per kind of step).

**`cargo fix`**, for any processes, files, entry points and fixes, neither `None` nor the
server's `"stop"` being a process (`FixAssumption`): `FixProofs`.

- `LockServerInvariant` and, from it, `OneFixerAtATime` (`OneFixer`).  `OneFixer` is not
  inductive: it needs that a wrapper between lock and unlock was sent the byte and has its
  socket open, that such a client is the one its file's thread is serving (`HolderInv`), and
  that a thread's queue only has clients of its own file (`ServerInv`).  The step that needs
  most care is `run` replacing a thread that has ended: it has nobody left to serve then.
- `AllButOnePrinted` (`OneUnprinted`).  A message that a process has posted is with the server,
  in its hand, in the channel, or printed, and the server has one in hand at a time
  (`PostInv`).  A process ends only after its messages were read, so all but the one in hand are
  in the channel before the last `Finish` (`LateInv`), and the main thread takes them first.
- `BadFixesBackedOut` (`BackedOut`), if the crates of a file agree on which fixes are bad
  (`Agree`); finding 2 is about the rest.  The code that a process keeps for backing out has no bad
  fix, and while a file has one, some process that changed it has yet to verify its work or
  was killed (`BackInv`).

**Downloads**, for any set of packages, crate size, timeout, number of retries and unpacking
time (`DownloadsAssumption`): `DownloadsProofs`.

- `DownloadsInvariant`, and from it `EachDeliveredOnce` (`DeliveredOnce`), `StallIsEarned`
  (`TimeoutEarned`) and, when `LowSpeedLimit > 0`, `NoAssertionFails` (`AssertionsHold`).  The
  invariant says that the bytes kept for a pending transfer are those of its current attempt
  and that each result is the only one of a transfer still pending (`TransferInv`), that the
  age of `updated_at` is at most the time without a byte, plus that of the unpacking under
  way (`ClockInv`), that the threshold of a batch stays above 0 (`ThresholdInv`), and that what
  is still wanted was not asked for yet (`DeliveryInv`).  The premise `LowSpeedLimit > 0` is
  needed: with `http.low-speed-limit = 0` the threshold is 0 from the start, and the assertion
  in `progress` fails at the first speed check.

**The registry cache**, for any processes, packages, commits, runs and kills
(`RegistryAssumption`).

- `RegistryCacheProofs`, whether or not file locks work: `CacheInvariant`, and from it
  `NoCircularWait` (`NoWaitCycle`) and `LockedIsFound` (`LockedFound`).  The invariant says in
  which places a process holds the lock of the index or of a `.crate` file (`LockPlaces`), and
  that the index never goes back behind what a process has fetched (`IndexInv`).  Who holds a
  `.crate` waits for nothing; of those that hold the index only `is_crate_downloaded` waits, and
  for a `.crate`: this order excludes the cycle in any set of processes.
- `RegistrySourcesProofs`, where the `.crate` files can be locked (`NoLocking \cap Package = {}`):
  `SourcesInvariant`, `MarkedIsWhole` (`MarkedWhole`) and `SourcesStayWhole` (`WholeWhileUsed`).  A
  `.crate` that is half written belongs to its writer (`CrateInv`), who keeps the lock until the
  sources are unpacked from the first file on and marked (`SourceInv`).  The two properties
  are claimed where one process at a time can unpack (`OneUnpacks`): one process, or a remote
  registry and no kill.  The run's scenes are all of that kind.

**Git updates and `cargo install`**, for any processes, packages, binaries, revisions and kills,
over any set of scenes of the right shape (`GitAssumption`, `InstallAssumption`).

- `InstallProofs`, where the lock of the git database works (`"git" \notin NoLocking`):
  `UpdateInvariant`, `CheckoutStaysWhole` (`CheckoutWhole`) and `UpdatesRecover`
  (`UpdateRecovers`).  Who is in an update holds the lock (`LockInv`); the database has the history
  of its branch, and the revision once that is to be checked out; it is whole after a fetch,
  and one that is broken is being made anew or was left by a kill, and serves only a
  revision that `Cargo.lock` names or an offline process (`DbInv`); a checkout with
  `.cargo-ok` is whole, and one that is worked on has none (`CoInv`); while nobody was killed a
  submodule whose `HEAD` is the pinned commit is whole or being reset, and none in use is
  touched (`SubInv`).  `CheckoutWhole` speaks only of checkouts in use, after the lock is
  released; that nobody touches them follows from `.cargo-ok` being written last.  The steps
  of `Install` itself keep all this because a command is in an update only while it selects its
  package (`CmdInv`).
- `LedgerProofs`, where the lock of `.crates.toml` works (`"crates" \notin NoLocking`):
  `LedgerInvariant`, `RecordIsTrue` (`LedgerTrue`) and `NoBinaryLost` (`NothingLost`).  `LedgerTrue`
  is not inductive: most of it is about the states in which nobody holds the lock, and while
  a command works, `bin/` is ahead of the file, or the file is truncated.  `LedgerInv` says, for each place
  of the holder, how the file, `bin/` and its locals (what was moved, what was replaced, the
  listing read and the one to be written) make up a true record (`Working`), and that between
  commands file and `bin/` agree (`Settled`).  What `Recorded` and `Struck` do to a true listing are
  lemmas on their own; each step of the transaction, its undoing included, is one lemma.

**Only model-checked.**

- Liveness, everywhere: it is out of the prover's reach.
- `TokensConserved`: its sums over sets need induction over data.
- `Fingerprint`, `Resolver`, `LockFile`, and the modules that `CargoCompile` composes: their
  properties compare the code with what recursive definitions compute (a build from scratch,
  the exhaustive search, closures over dependency graphs), which again needs induction over data.

Several theorems (`TruthfulOutcome`, `NobodyForgotten`, `TokensSuffice`, `DependenciesFirst`,
`NothingAfterError`, the invariants) state what no run lists among its properties.

## Findings

1. `fingerprint_interrupt`.  A build script that was compiled again, but killed before it was run,
   is not run by the next session: the fingerprint of a run has no dependencies
   (`fingerprint.rs:531`), against the comment at `fingerprint.rs:152-154`.
2. `fix_backout`.  `cargo fix` drops the lock of an entry point before it tries the fixed code and
   backs it out (`fix.rs:182-220`); a second crate with that entry point may put the bad fix
   in again, and the build fails although the code compiled before, against
   `fix.rs:175-177`.
3. `resolver_features`.  A missing feature is blamed on the package with the dependency, although a
   third package asked for the feature (`resolver/mod.rs:538`); backtracking then skips a
   solution, against `resolver/mod.rs:37-38`.

## Where the code stops short of a property

Met while modelling; the properties are stated so as to leave these cases out, and the
models either have them and exempt them, or do not reach them.

- A source edited while rustc runs counts as compiled (`fingerprint.rs:232`).  The model has
  no edits during a session.
- A `.crate` whose download was cut short is not empty and so is taken as there
  (`remote.rs:223`); unpacking it fails from then on.  After a kill, and with local
  registries, two processes may unpack one package at the same time (`registry/mod.rs:433`).
- `http.low-speed-limit = 0` makes the assertion at `package.rs:742` fail.
- The server of `cargo fix` hangs up on a wrapper when it has read its message, before it hands
  the message on (`diagnostic_server.rs:235-239`).  The wrapper, and with it the last job, can end
  first; the job queue's loop leaves when nothing is active (`job_queue.rs:265`), and the last
  message is never printed, although tests expect every one (`tests/testsuite/fix.rs:184-194`).
- A submodule whose reset was interrupted is not reset again (`git/utils.rs:380`), unlike the
  checkout itself.  `-Z offline` without the revision panics at `git/source.rs:185`.
- With `net.git-fetch-with-cli` a broken database is never made anew (`git/utils.rs:701-705`): every
  update fails until someone deletes it.  A kill while a database is being deleted leaves part of it;
  when that part still has the revision in `Cargo.lock`, nothing is fetched (`git/source.rs:171-186`)
  and each checkout from it may fail.  A submodule's commit that its repository does not have is an
  error at every update (`git/utils.rs:403`).
- `cargo install` reports a success when writing its list fails (`cargo_install.rs:397`).
  One revision is recorded for all binaries of a git package (`cargo_install.rs:352-391`): when
  they are installed one by one (`--bin`) and the branch moves in between, the record has the
  last revision for all of them.  `LedgerTrue` exempts such packages (`InParts`).
- A kill between truncating and writing `Cargo.lock` (`lockfile.rs:108`) leaves an empty file,
  which reads as no lock.  So does a file that another process has created and not locked yet
  (`flock.rs:211`).
- When a dependency moves from a registry to git, the pins kept can leave no solution
  (`ops/resolve.rs:388-391`).
- A `build-override` together with an override by name makes the stored dependencies of a
  unit depend on the order of the walk (`unit_dependencies.rs:96-101`).  `PlanDetermined` exempts
  the packages so overridden (`Hides`).
- With `--target`, a package with a build script that depends on a procedural macro with
  `links` looks up the script's output under the wrong kind (`custom_build.rs:302`); a cycle of
  development dependencies between two packages with `links` makes their runs wait for each
  other; two profiles give two runs of one script for one key.  `BuildStateFound` exempts the three.
- Default members are checked before the root package's own path dependencies are
  visited (`workspace.rs:447-465`).
- `cargo clean -p` has no name for dep-info files (`compiler/mod.rs:220`, `output_depinfo.rs:96`), the
  data of incremental compilation, and the `output`, `stderr` and `root-output` files beside
  `OUT_DIR` (`custom_build.rs:349-351`).  It recomputes the other names, and misses those whose hash
  comes out differently: it resolves with every feature on (`cargo_clean.rs:47`), so features that
  were off; benchmarks built without `--release` and runs of build scripts for tests, when the
  profiles differ; dependencies, when the profile depends on the purpose (`panic`,
  `build-override`), since the walk starts from its own purpose for each unit
  (`unit_dependencies.rs:53-89`); build scripts of packages whose tests need a package with `links`;
  and extra arguments to rustc.  At a target that the platform has no files for it stops with
  an error, what comes later untouched (`cargo_clean.rs:117`).
- Binaries of one name in two members share a link, as do the dylib of a path dependency in
  two profiles and an example with `test = true` under `--all-targets`.

## Abstractions

- Hashes are perfect; names, versions and contents are small values; messages to the user
  are left out.
- `Fingerprint`: rustc writes its outputs at once; doc units and overridden scripts are left out.
- `RegistryCache`, `GitSource`, `Install`: in the runs file locks always work.  `NoLocking`, the
  files for which they do not, is a parameter; the theorems say where they need it empty.
- `Downloads`: curl's counters only grow; time between waits counts.
- `Fix`: one file per crate; deduplication of messages is a set.
- `Resolver`: the order of hash maps and ties of the heap are nondeterministic; error reasons,
  warnings and the checks of a finished resolution (`check_cycles`,
  `check_duplicate_pkgs_in_lockfile`) are left out.
- `LockFile`: the resolver is any minimal solution of the locked requirements, more than its search
  could return (that is `Resolver`'s); one member, one path dependency, patches without
  dependencies; `[replace]`, path overrides and the second resolve for selected features are left
  out; a requirement never matches two locked versions in the scenes.
- `GitSource`: a broken database fails to fetch with an error of class Reference; a checkout made from
  one is whole or fails; a local fetch into a checkout is atomic; libgit2's hard reset writes the
  tree before the head.
- `Install`: target directory, `--root` and `--list` are left out; a command installs the
  same binaries whatever revision it finds.
- `CargoCompile`: the resolution is an input, with the features on in a build and those on in
  `clean`; the targets of one kind come in some fixed order; every job runs (freshness is
  `Fingerprint`'s) and dep-info is always written; file types of other platforms, extra arguments,
  build plans and documentation pages are left out.
- Bounds: `MaxVersion`, `MaxCommit`, `MaxRev`, `MaxOutput`, `MaxExtract`, `Retries`, `Iterations` and the
  kills, commands and edits of each scene.  `job_queue` was also run once with three tokens and six
  graphs (3.4 million states) with the same result.

## Not modelled

Git authentication; configuration and credentials; source replacement, directory and path
sources; `package`, `publish`, `login`, `owner`, `yank`, `search` and the web API; `new` and `init`; `cfg`
expressions; running programs, tests and documentation tools; build plans and the contents of
dep-info files; the information commands; feature gates; the shell, progress and messages; process
wrappers; the cache of rustc's version; the command line.  These are input and output, text,
tables, or conversations whose other side is not in the repository: `PROJECT.json` gives
the reason for each.

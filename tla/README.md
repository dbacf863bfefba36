# deb-s3 in TLA+

deb-s3 publishes APT repositories in an S3 bucket.  There is no server: each
invocation of the program reads the metadata of a repository from the bucket,
computes new metadata and writes it back object by object, and any number of
invocations may do so at the same time.  This directory specifies that
program: what its runs do to the bucket, what they promise each other and the
APT clients that read the bucket, and which of these promises hold.

A package file becomes an entry of an index on the way, and every later
command parses and renders that entry again; that way is specified too.

TLC checks the modules on small instances.  TLAPS proves theorems about the
lock, the object store and the repository for any number of runs and any
commands, and about package files and control files of any form.

## The system

| Component | Source | State | Operations | Hard behaviour |
|---|---|---|---|---|
| Repository lock | `internal/lock`, `withRepositoryLock` in `internal/cli/commands.go` | one lock object per codename; the handle (token, ETag) of a run | `Acquire`, `Current`, `Release` | contention, lost and delayed requests, a deadline that cuts requests short, crashes, locks removed by hand |
| Object store | `internal/storage` | objects by key | `Get`, `Head`, `Put` (plain, `CreateOnly`, `FailIfExists`), `Delete`, `DeleteIfMatch`, `List` | `Put` is a Head and a PutObject; SDK retries |
| Upload | `internal/upload` | manifests and Release in memory | `Upload` | five phases of writes, an interruption between any two |
| Copy, delete | `internal/manage` | the same | `Copy`, `Delete` | `Copy` reads one codename and writes another |
| Verify, clean | `internal/maintenance` | lists of missing or unreferenced bodies | `Verify`, `Clean` | long scans, whose results are stale when used |
| Metadata | `internal/apt` | the text of `Packages` and `Release` | `Manifest.Add`, `DeletePackage`, `Publish*`, `Release.UpdateManifest`, `MissingManifests`, `Publish` | order of publication, signatures that must match, by-hash objects |
| Signing | `internal/signing` | temporary files | `Sign`, `ParseOptions` | fails in the middle of a publication |
| Archive reader | `internal/deb` | position in an `ar` stream, the member it is in | `ReadPackageFile`, `arReader.Next` | order of members, files cut short, padding, limits to the byte |
| Package text | `internal/apt/package*.go`, `control.go`, `dependency.go` | none | `ParseParagraph`, `ParsePackage`, `Render`, `normalizeDependency` | what one command renders the next one parses |
| Queries | `internal/query` | what they have read | `List`, `Show`, `Exists` | no lock: the indexes change between two requests |
| Command line, configuration | `internal/cli`, `internal/config`, `cmd` | flags | the commands | which command takes which lock |

The components interact through the store alone.  A command of the command
line takes the lock of a codename if it is asked to (`verify` never does),
runs one operation and releases the lock; the operation reads `Release` and
`Packages` objects, changes them in memory with `internal/apt`, and publishes
package bodies, by-hash objects, canonical indexes, `Release`, `Release.gpg`
and `InRelease` in this order.  `upload` reads each package file first, with
the archive reader and the package text.

What makes each part correct:

- **Lock.** One run at a time operates, on a lock object of its own; a release
  removes no other run's lock and leaves none of its own; who waits is served
  in the end, or stops at its deadline.
- **Object store.** A `Put`, though it is two requests, acts at one moment; a
  conditional one never replaces an object.  It conflicts with other contents,
  and in one case with its own (`SpuriousConflict`, below).
- **Publication.** Every entry of an index has its body; `Release`, the indexes
  and the signatures agree once a run is over; no signature describes another
  `Release`; what a client has fetched stays available by its hash, wherever a
  run stops.
- **Commands together.** A finished upload is not undone by a command that
  nobody asked to; what `clean` deletes nobody refers to; what `verify` repairs
  is repaired; an architecture-all package reaches every architecture.
- **Queries.** What was uploaded when a query began is in its answer, whatever
  is published between its requests.
- **Package files.** The well-formed ones are accepted and no others; the entry
  describes the file; no rewriting of the index changes it.

`PROJECT.json` lists the hazards of the code, each at its line with the
properties that watch it.

## The modules

    LockSpec          what the lock promises: one holder at a time
      ^ implemented by
    RepoLock          Acquire and Release, request by request
      MCRepoLock      its small instances       RepoLockProofs   its theorems

    ObjectStore       what the store promises of one key: atomic calls
      ^ implemented by
    S3Object          S3Store.Put and the deletions, request by request
      MCS3Object      its small instances       S3ObjectProofs   its theorems

    AptIndex          manifests and Release: pure operators
      AptIndexProofs     what they compute, for lists of any length
      ^ used by
    Repository        the store and all the commands on it
      MCRepository    small repositories and their sets of commands
      RepositoryProofs      the order of Release and its signatures; what is
                            stored, remembered and going to be sent
        ^ extended by
      RepositoryPublished   what a publication leaves: FansOut,
                            QuietConsistent, VerifyRepairs
        ^ extended by
      RepositoryContents    what the repository holds: ByHashServed,
                            AckedListed, BodiesMatch, QueriesSeeAcked

    PackageText       paragraphs, packages and dependencies: pure operators
      PackageTextProofs  what is read of what was written, for any lines
      ^ used by
    DebReader         the pass over a package file, member by member
      ^ used by
    Intake            from a file to an index, and from index to index
      MCIntake        package files and control files
      IntakeProofs    files, control archives and control files of any form

### RepoLock

The variables are the lock object (`lock`: whose record it holds, or the record
of an earlier program, `Legacy`, or something that is no record, `Garbage`),
the place of each run in the code (`pc`), the loop variable of `Acquire`, the
ETag in the run's handle, and the requests that a run has given up and that the
network still carries (`latePut`, `lateDelete`).

One action is one request to S3 and what the code does with its answer:
`PutHead` and `PutObjectCreates`/`PutObjectConflicts` are `S3Store.Put` with
`CreateOnly`, `ReadETag` the `Head` after it, `ReadCurrent` is `Current` and the
branches of the loop after it, `BackoffEnds` and `DeadlineExpires` the `select`
on the timer.  `ReleaseGet` and `ReleaseDelete` are `Handle.Release`.  A run's
record carries a random token, so its content and its ETag are represented by
the run itself.  The length of the backoff is abstracted: a wait may end at any
time.

`Faults` names what may go wrong: `retry` (the answer to a PutObject is lost and
the SDK repeats it, which conflicts with the first), `conflict409`,
`storeError`, `delay` (a request whose sender has given up or died is
applied later), `crash`, `operator` (somebody deletes the lock of a run that has
ended, as `docs/LOCKING.md` tells them to) and `rogue` (somebody deletes the
lock of a run that has not).  `Timed` names the runs with a `--lock-timeout`.

`LockSpec` keeps the lock and, for each run, whether it is outside, inside or
gone.  `RepoLock` implements it with the lock itself and the phase of each `pc`
(`phaseBar`).

### S3Object

One key of the bucket, and callers that each make one call at a time: `object`
is the content stored, `call` and `result` are what a caller asked for and was
told, `pc` is the request it has to send.  `PutHead` is the `Head` of
`S3Store.Put` with the three branches after it, `PutObject` the request with
its `If-None-Match` and the mapping of a 412, `DeleteObject` both deletions.
An object is its content; a digest or an ETag tells the same objects apart.

`ObjectStore` has the same calls with the rules of `MemoryStore`, which does each
under one mutex, and names what a network adds to them: `AnswerLost` (an effect
that is repeated), `SpuriousConflict` (a conditional call that conflicts with
its own content), `Abandon` and `LateEffect` (an error after which the effect
may still come).  `S3Object` implements it under the identity mapping: a call
takes effect with its `Head` if that ends it, and with its second request
otherwise.  `SpuriousConflict` is a difference worth knowing: of two callers that
put the same content under a condition, one gets `ErrConflict`, "object already
exists with different contents" (`internal/storage/store.go`), where
`MemoryStore` reports success.

### AptIndex and Repository

`AptIndex` defines the operations of `internal/apt` on values: a `Packages`
index is a sequence of entries, each a package and the pool path of its
`Filename`; a `Release` is its components and architectures in order, the
contents whose hashes it lists, and its by-hash flag.  Hashes are the contents
themselves.  The operators keep the order of the code's slices, because
`MissingManifests`, the propagation of architecture-all packages and the order
of publication depend on it.  A loop that keeps some elements of a slice in
place (`retained` in `Manifest.Add`) is `At`, one that appends what is not there
yet (`appendUnique`) is `AppendNew`; the loop of `Add`s over the files of an
upload is a recursive function.

`Repository` is the store with the commands on it.  A run picks a command with
its flags from `Jobs` (`Start`), reads (`GetSource`, `GetRelease`,
`GetManifest`, `HeadBody`), computes what it will publish (`PrepareUpload`,
`PrepareCopy`, `PrepareDelete`, `PrepareVerify`: all of the code between the last
read and the first write) and sends its requests one by one in two phases:
bodies, by-hash objects and indexes while it is `publishing` (`SendBody`,
`SendByHash`, `SendIndex`), and from `BeginRelease` on, while it is `releasing`,
those of `Release.Publish` (`Sign`, `SendRelease`, `SendSignature`,
`DeleteSignature`).  `ListIndexes`, `ScanIndex`, `ListPool` and `DeleteBody` are
`Clean`.  The queries read in the same way, without a lock, and `Answer`;
`ListOutput` and `Exists` are what they answer.  `Stop` ends a run at any point,
for a request that fails and for a process that dies.

What is abstracted:

- `Packages` and `Packages.gz` are written one after the other with the same
  content; one object stands for both.
- A `Put` is one step, as `S3Object` implements it.  The conflicts without a
  cause and the errors that `ObjectStore` adds end a command like any failed
  request, hence `Stop`.  A request that takes effect after its command has
  ended is left out here; `S3Object` and `RepoLock` have it.
- The lock is what `RepoLock` proves of it: while one run with a codename's lock
  is at work, no other starts.  A stopped run's lock counts as released or
  removed by hand.
- `Release.date` stands for what makes two renderings of one Release differ;
  `Release.signed` is not in the file, it records whether the run signed.
- The order in which `Clean` reads the indexes and deletes the bodies is left
  open.
- A version is one value: the three spellings in which `DeletePackage` takes it
  are one.
- `acked` is a history variable: the packages of finished uploads, by the indexes
  of the published Release that list them (of two builds of one name in an
  upload the later replaces the earlier), less those that a later command is
  asked to remove or to replace.  `since`, another, is
  the part of it that a query must find: what was acknowledged when it began.

### PackageText, DebReader and Intake

`PackageText` works on lines.  A control paragraph is a sequence of lines, each a
field with its text, a continuation with its indentation, or neither; a text is
a word, blank, a single period, the tokens of a version, or a list of
dependencies.  That is as fine as the code's decisions are: the characters of a
word decide nothing.  `ParseParagraph`, `WriteField`, `ParsePackage`, `Render`,
`ParseVersion` and `Normalized` (`normalizeDependency`) are the functions of the
source.

`DebReader` is `ReadPackageFile`.  A file is the members its headers announce and
a length, which may be anything; one action is a call of `arReader.Next` with
what is done with the member.  `pos` counts the bytes read, which are the bytes
hashed, and `left` what `Next` has to skip first, the rest of the member and its
padding.  A decompressor reads all of its member or leaves its last byte; the
control archive is walked entry by entry under the size limit
(`ReadControlTar`).  A context may end before any read.  The decompressors and
`archive/tar` are external: a body is intact or not.

`Intake` puts the two together: `Publish` renders the package that was accepted,
`Republish` is every later command on the index, which parses the entry and
renders it again; `Unreadable` is one that fails because the entry does not
parse.  `WellFormed` is what a package file ought to be, written
without the reader: members, sizes and names of the whole file.

## The runs

| Run | Question | Bounds | Result |
|---|---|---|---|
| `LockSafety` | Are operations exclusive, each on its own lock, and is the abstract lock implemented? | 3 runs, 2 attempts, all with a deadline, all faults but `rogue`; symmetric | holds |
| `LockEnds` | Does every run with a deadline end, whatever is left in the store, and is a run without one served where locks do not stay for good?  May a release remove another's lock, or report one as released that is there, when live locks are deleted by hand? | 3 runs, 2 with a deadline, no attempt bound, all faults but `conflict409` and `delay` | holds |
| `LockLeak` | Is the lock released when the operation is cancelled? | 2 runs with a deadline | violated |
| `RepoLocked` | Do locked commands that may stop keep the bodies, the finished uploads and the signatures right, and serve an InRelease that was fetched by its hashes?  Do queries find what was uploaded? | 3 runs of 11 commands, 2 of them stop, an APT client | holds |
| `RepoSequential` | Do Release, indexes and signatures agree at rest, does verify repair, and do architecture-all packages get everywhere? | 4 runs of 10 commands, two codenames | holds |
| `RepoCopyClean` | Is clean safe beside a locked copy? | 4 runs of 4 commands, two codenames | violated |
| `RepoVerifyRace` | Do locked uploads survive a verify? | 3 runs, 2 at a time | violated |
| `RepoEnableByHash` | Does the promise of by-hash hold once `--by-hash` is given? | 3 runs, one at a time, 1 stops | violated |
| `StoreAtomic` | Does each call on a key act at one moment? | 3 callers, 2 contents, all calls, 1 late request; symmetric | holds |
| `Intake` | Are the well-formed files accepted and no others, does the entry describe the file, are the bounds of `~>` right, and does rewriting an index keep the entry? | below | holds |
| `IntakeFolds` | Does rewriting an index keep the entry of every control file? | folded fields of up to 3 lines | violated |
| `IntakeFields` | Is what a control file says of `Filename`, `Size` and the digests never carried over? | user-defined fields under the names of the index, of up to 2 prefixes | violated |

Why the bounds suffice.  The lock is symmetric in its runs; three of them have
one that holds it, one whose request is delayed and one that waits, the largest
set of roles its actions distinguish, and the theorems cover any number.  Two
attempts take a run through the end of the loop and through a turn of it.  A
hazard of `Repository` involves two commands and the one that prepares their
repository: three runs, and four where two codenames must first be filled.  On one
key, a caller's `Head` and PutObject may have one other caller's write and
another's deletion between them: three callers, and two contents, one of them
its own; one late request (`MaxLost`) is what a third call can meet.  The
command sets contain, between them, every operation, signed and unsigned,
with and without `--preserve-versions`, `--skip-package-upload`, `--arch`,
`--fail-if-exists` and by-hash; the packages have two versions of one name, two
builds of one version, two architectures and an architecture-all one.

`Intake` takes its files from five sets: every order of up to four members out of
the three required ones, one that is ignored and another; members that are
wrong in one respect each; two archives cut to every length, so that each
boundary is met from both sides, with an odd size and its padding among their
members; control archives of up to two entries under eleven names, of sizes
just below, at and above the limits, with every ending; and one control file per
combination of up to three further lines, of dependencies and of versions.  The
limits are five blocks and 600 bytes instead of the code's megabytes: the
reader only compares with them.  Three lines suffice for a value with a blank
line inside and one at its end, and for a field that another follows;
`PessimisticBounds` takes versions of two and three parts, numbers up to 3, and
the theorem any.

`Conforming` is the premise under which an entry keeps its form.  It leaves out
what the code does change when an index is rewritten: a line of a single period
behind more than one space (`IntakeFolds`); user-defined names that hide a name
of the index (`XB-Size` becomes a second `Size`, `IntakeFields`) or another prefix
(`XB-XS-Tag` loses one prefix with each rewriting); `Depends` of inequalities
alone, which becomes empty and is then dropped; an inequality in
parentheses on a continuation line, which `dependencyPattern` does not match, so
that it stays in `Depends` until it has moved to the first line; and an
inequality beside a `Conflicts` whose only text is a line of one period: it is
written as an empty first line and ` , a (= 1)`, and read without the empty
line.  The attempt to prove `RepublishKeepsConforming` found the last of them,
and `ControlFiles` includes it.  The first contradicts `docs/TESTING.md` and the
second `reader.go`, and each has a run that shows it; the others contradict no
document.

`EntryDescribesFile` is about all control files but those of `IntakeFields`: its
premise, `~Hides`, excludes user-defined names that are a name of the index, or no
name, after one prefix or several were taken from them, and nothing else.  In
particular fields named `Filename`, `Size` or after a digest are among its control
files, and all that `Conforming` leaves out for other reasons.  The version it
asks for is that of the control file in its epoch, version and iteration, not in
its text: `ParseVersion` takes a dash at the beginning for no separator,
`FullVersion` writes one behind the version whenever there is a dash anywhere, and
so "-1" is rendered as "-1-", which is parsed to the same three parts.

Fairness.  Only `LockEnds` assumes any: weak fairness of each run's own progress
and of the deadline of a run that has one.  A process that is alive executes its
next statement, a request to the store is answered, the operation under the lock
ends, a timer and `context.WithTimeout` fire.  No fault, no deletion by hand and
no order among the waiting runs is assumed; weak fairness suffices because every
run takes the lock once, so that in the end nobody is left to take it first.
`EveryRunServed`, which is also about runs without a deadline, has a premise of
its own: the lock is again and again not left behind by a run that has ended,
and from some time on nobody deletes the lock of a live run.  Without the first
a run rightly waits for ever; `TimedRunsEnd` has no premise.

## What the violated runs show

- **LockLeak.** `Acquire` creates the lock object and then asks for its ETag.
  If that `Head` fails, or the deadline passes, or the PutObject's own answer is
  an error though it was applied, `Acquire` returns without a handle and the
  object stays until somebody deletes it.  `docs/LOCKING.md` says that the lock
  is released even when the operation fails or is cancelled.
- **RepoCopyClean.** `copy` locks its destination.  A delete and a clean of the
  source, which lock the source, may run between copy's read of the source and
  its publication; the copied entry then has no body, though
  `docs/TESTING.md` says that one can clean safely.
- **RepoVerifyRace.** `verify` has no `--lock`.  With `--sign` it publishes the
  Release it read at its start, and a locked upload that finished meanwhile is
  gone from it.
- **RepoEnableByHash.** Release promises `Acquire-By-Hash` for all the indexes it
  lists, but only those that a command rewrites get by-hash objects.  After the
  first command with `--by-hash` the other indexes have none, and an upload that
  rewrites one of them and is interrupted strands the clients of the previous
  generation, against `docs/SIGNING.md`.  In `RepoLocked`, where by-hash was on
  from the beginning, the promise holds (`ByHashServed`).
- **IntakeFolds.** In a control file, a continuation line of one period stands for
  a blank line.  `ParseParagraph` takes it for one only behind exactly one space;
  behind two the period is kept as text, `writeField` writes it behind one, and
  the next command reads a blank line, which it drops at the end of a value.
  `docs/TESTING.md` says that re-publishing round-trips folded fields byte for
  byte.
- **IntakeFields.** `ReadPackage` clears what a control file says of `Filename`,
  `Size` and the digests: they "describe an entry in a Packages index, not a
  control file", and carrying them over "would let it pick the repository key [...]
  and claim digests that do not match its bytes" (`internal/deb/reader.go`).  A
  user-defined field is not cleared.  `XB-Size` is kept as `Size` among the extra
  fields and written behind the right one, and the next command that parses the
  entry takes the last of the two, as may a client.  `XB-XS-Size` gets there with
  two rewritings, and an `XB-Version` that is no version makes the whole index
  unreadable (`Unreadable`).

One contradiction needs no run, for the order of the calls in `Upload` shows it:
`docs/SIGNING.md` says "Both signatures are verified locally before anything is
uploaded.  If signing or verification fails, nothing new is published", but `Sign`
is called in `Release.Publish`, after the bodies and the indexes were sent.  A gpg
failure leaves them beside the previous Release.  `Repository` has it (`Sign` ends
a run as `unsigned`, one of the stops), so the properties of `RepoLocked` hold
after it: the next command works on, and clients with by-hash are served.

## What is proved

`RepoLockProofs` proves for any set of runs, any bound on the attempts and any
set of faults that the theorem's assumption allows:

| Theorem | States | Assumes of the faults |
|---|---|---|
| `TypeCorrect` | `TypeOK` | nothing |
| `HolderOwns` | `HolderOwnsLock` | no `rogue` |
| `Exclusion` | `MutualExclusion` | no `rogue` |
| `DeletesOnlyOwn` | `OnlyOwnLockDeleted` | no `rogue`, or no `delay` |
| `ReleasedMeansReleased` | `ReleasedLeavesNoLock` | no `delay` |
| `Implementation` | `ImplementsLockSpec` | no `rogue` |

They rest on three inductive invariants.  `TypeInv` adds to the types that no
run waits after its last attempt, which keeps the attempts within their bound.
`OwnershipInv` adds to `HolderOwnsLock` that the runs with a delayed DeleteObject
have ended: without that, a late deletion could remove the lock of a run that
holds it, and ownership would not be inductive.  Mutual exclusion follows, for
the one lock object has one content.  `TokenInv` is for the case in which live
locks are deleted by hand: a handle with a foreign ETag belongs to a run whose
object is gone for good, so the comparison of tokens stops its release, and a
run that passes the comparison has its own ETag.  For the implementation, each
step of `RepoLock` maps to a step of `LockSpec` or to a stutter, one lemma per
kind of step.

`S3ObjectProofs` proves, for any callers, contents, calls and faults, that
`S3Object` keeps its types (`TypeCorrect`: a call is pending exactly while it has
a request to send, and only `Put` begins with a `Head`) and implements
`ObjectStore` (`Implementation`).  `TypeOK` is inductive and is all the
implementation needs: the `If-None-Match` decides again what the `Head` decided.

The three modules `RepositoryProofs`, `RepositoryPublished` and
`RepositoryContents` prove every property of it that a passing run
checks, for any set of runs, codenames and jobs, from an empty repository, under
these hypotheses and no others:

| Theorem | States | Hypotheses |
|---|---|---|
| `InReleaseIsLast` | `InReleaseLast` | `TakeTurns` |
| `NoSignatureIsStale` | `NoStaleSignature` | `TakeTurns` |
| `TypesAreOK` | `TypeOK` | finitely many runs |
| `PackagesFanOut` | `FansOut` | `TakeTurns` |
| `QuietIsConsistent` | `QuietConsistent` | `TakeTurns` |
| `VerifyLeavesBodies` | `VerifyRepairs` | `Alone`, no run stops (`MaxStops = 0`) |
| `ByHashIsServed` | `ByHashServed` | `ByHashGiven` |
| `AckedIsListed` | `AckedListed` | `WritersLocked` |
| `BodiesAlwaysMatch` | `BodiesMatch` | `WritersLocked`, `BodiesGuarded` |
| `QueriesAlwaysSeeAcked` | `QueriesSeeAcked` | `WritersLocked`, `BodiesGuarded` |

- `WritersLocked`: every command that publishes takes the lock of the codename it
  publishes to.  `verify`, which cannot take it, is thereby excluded, and
  `RepoVerifyRace` shows why it must be.  `Alone`: one run at a time, any
  commands, locked or not, `verify` among them.  `TakeTurns` is either of the two.
- `ByHashGiven`: every command that publishes is given `--by-hash`
  (`RepoEnableByHash` shows what happens when it is given later).  No lock.
- `BodiesGuarded`: `clean` takes its lock, a copy stays in its codename
  (`RepoCopyClean` shows the others), and an upload sends its bodies with
  `--fail-if-exists`: without it, a body is replaced before the index that has
  its hashes.
- `NoneIsNoRelease`: the value for a missing object is not a Release.  Four of the
  theorems need it; any model value satisfies it.

The instances of the runs satisfy them: `RepoLocked` those of `WritersLocked`,
`BodiesGuarded` and `ByHashGiven`, `RepoSequential` those of `Alone`.  The modules'
own assumptions are `BoundsAssumption`, `JobsAssumption` (a job is one of the
commands, and an upload has a list of files), `SeedsAssumption` (the default
architectures are a list) and `UnsetAssumption` (an option that was not given is
not a Boolean); TLC evaluates them with every run.

None of these properties is inductive.  The invariants that are, and why they are
needed:

- `Inv` (the signatures) adds that two runs at work never have the same lock
  (`Exclusive`), that nothing stored carries the date of a run that has not begun
  to release (`Dated`: else an old InRelease might happen to be the Release that
  is being written), and what is stored between each two requests of
  `Release.Publish`, with a signer and without (`Ordered`).  Most steps leave
  Release and its signatures alone and are treated at once (`Quiet`); a request of
  one run cannot disturb the order of another, because their codenames differ
  (`Apart`).
- `Typed`: what is stored, what each run has in memory and each request it is
  going to send has its type, with bodies first and each index request carrying
  the content that the Release in memory lists.  It holds of any commands, with
  no lock at all, and the others rest on it.
- `SentInv` (architecture-all packages): what a publication has prepared has all
  of them in every index of its component; each index of the component is in the
  store or among the requests left; and the Release in memory is the stored one
  once it is sent.
- `WholeInv`: as long as nobody has stopped, each codename is whole, Release and
  store agreeing in both directions, or a run is publishing to it, which has read
  or prepared a whole one and has the missing part among its requests.
- `RepairInv`: of each entry that `verify` has read, the body is there, or noted as
  missing, or still to be asked for; what it then publishes has its bodies.
- `HashInv`: every stored Release and InRelease, and the client's, has its by-hash
  objects, and a publishing run has sent those of its Release or is going to,
  before anything that names them.
- `AckedInv`: an acknowledged package is in Release and in the stored index, which
  may differ after an interruption; a run that publishes to its codename has it
  in the Release and the manifests it has in memory.
- `BodyInv`: each stored entry has its body and lies in the pool of its codename; a
  writer has its body, or sends it before the index; and what `clean` is going to
  delete no entry of its codename has, for what it has scanned cannot change
  under its lock.
- `QueryInv`: the manifests that a query has read have what it must find, and no
  other build of it, so that the deduplication of `list` does not hide it.

TLC has checked `WholeInv` and `RepairInv` on the instance of `RepoSequential`
before their proofs.

`AptIndexProofs` has the facts about lists these proofs need, for lists of any
length: what `At`, `AppendNew`, `FlattenSeq`, `Add`, `DeletePackage`,
`UpdateManifests` and `MissingManifests` return, and `AddAllEntries`: after a list
of packages was added to an index, it has the entries that none of them
replaces, each of them that no later one replaces, and no others.  These are
inductions over data.  The induction theorems of the library take an operator
and cannot be instantiated; `SetInduction` states the principle for a set of
numbers instead, follows from the well-foundedness of `<`, and serves for
recursive functions (`[n \in 0..Len(s)]`), which the operators are written with
for that reason.

`IntakeProofs` proves every property of `Intake` that its passing run checks, for
any set of files, each with any number of members of any sizes, names and orders,
cut anywhere, with control archives of any entries and paths, control files of
any lines, and for any limits:

| Theorem | States | Assumes |
|---|---|---|
| `AlwaysTyped` | `TypeOK` | `Absent` is not a package |
| `AlwaysAcceptsWellFormed` | `AcceptsWellFormed` | nothing |
| `AlwaysDescribesFile` | `EntryDescribesFile` | `Absent` is not a package, `NoLists` |
| `AlwaysPessimistic` | `PessimisticBounds` | the same |
| `AlwaysKeepsConforming` | `RepublishKeepsConforming` | the same |

A package is a record, so any model value serves as `Absent`.  `NoLists` says that
`Absent`, `Blank` and `Dot` are no sequences and that `Blank` is not `Dot`;
different model values satisfy it, as those of the runs do.  The constants'
assumptions are `LimitsAssumption` and `FilesAssumption`: a file is its members or the beginning of them, sizes are
numbers, the entries of a control archive have names and texts, and the lines of
a text are what a line can be (`ControlLines`): a name has at least one part, a
continuation has a text, the text of `Version` is tokens, and those of `Depends`
and `Conflicts` are lists of dependencies with any operators and versions.
`ControlLines` says nothing else of a control file: its lines may come in any
order, repeat a field, be no field at all, or continue nothing.

`AcceptsWellFormed` compares what the reader finds on its way, by position and
state, with what a file ought to be as a whole.  `Inv` is what connects them:

- `Types`, the position, the number of the next member and the state;
- `Place`: the end of what was read and is to be skipped is the offset of the next
  header, by the sizes of all the members before it;
- `Seen`: those members are what the state says, the first the version, one of
  them, in `data.tar` and after it, a control archive that is in order, the ones
  between ignored;
- `Verdict`: who has accepted stands at the end of the file, and who has reported
  an error has a file that is not well-formed.

The last is the harder half: each error must be one for every reading of the
file.  `WellFormedAhead` turns a well-formed file, with what was seen of it, into
what its next member must be, and each error of an action contradicts that.  A
cancelled context is no verdict on the file and left out of both.

Two lemmas about operators carry the control archive, each for sequences of any
length.  `SafeNames`: `safeTarName`, which looks at the first segment of the
cleaned name, refuses exactly the paths that go above the root on their way or
begin at it (`SafePath`, which counts depths).  `ReadsControl`:
`readControlTar`, which goes entry by entry and stops at the first error,
accepts exactly the archives in which every entry is in order and within the
limits (`GoodControl`), and returns the text of the last control file.

The other three properties compare an entry with the control file it was made of.
`PackageTextProofs` has what they need of `PackageText`, whose loops are recursive
functions over lines, fields and dependencies of any number.  It goes from the
bottom up: what `WriteField` writes of a value is read as that value without the
blank lines at its end (`Readable` says of which values: no line is a period, and
an empty first line comes before none or another empty one); a list of such
fields is read as a paragraph with each of them in its place, and each field is
then written as it was before (`FieldIsKept`); the version is split and joined to
the version (`VersionIsKept`); dependencies that are joined on one line are read
as the same list (`OneLineIsRead`); and user-defined fields, which have lost their
prefix, keep their names (`ExtraNames`).

- `NormalizedIsStable`: each relation that a dependency is rendered to is rendered
  as it is when it is read again.
- `EntryIsStable` puts these together: a package that is `Printable` is rendered to
  the same lines after they were parsed.  `Printable` is about a package, whatever
  it was made of: readable values, dependencies on one line that are not
  inequalities alone, no `Conflicts` that loses its first line, and user-defined
  fields whose names stay.  `ConformingIsPrintable` shows that the premise of the
  properties, `Conforming`, which is about the lines of a control file, implies
  it.

`Published` is the invariant: a package that was read to its end is that of the
control file with the size of the whole file; the entry of a conforming one
is what was rendered first, however often it was rendered since; and the entry of
any other, but for those that `Hides` excludes, is `Described`.  It is
inductive with `Inv`, for a `Republish` needs `EntryIsStable` and an `EndOfArchive`
needs that the control file is the one in the file (`ControlIsOfFile`).
`EntryOfConforming` then reads the dependencies of `PessimisticBounds` off the
entry.

`EntryDescribesFile` has so weak a premise that entries do change under it, and
`Described` says what stays: the pool path, the size and the digests; a version
that is parsed to the parts of the control file's; user-defined fields whose names
never become those of the index (`UserNames`, which `NameAgain` shows of the name
without its prefix as well); and `Depends` whose lines are lists, which is what
keeps it readable.  `EntryIsRead` says of any package that is `Writable`, not of a
`Printable` one only, that its fields are read in their places, some with other
texts than were written (`ReadsAs`), and `DescribedAgain` follows.

`PessimisticBoundsOfEveryVersion` is the arithmetic under `PessimisticBounds`: the
two relations that replace `~> v`, for a `v` of two parts or more and numbers of
any size, admit of the versions with at least as many parts exactly those from
`v` on that begin with all parts of `v` but the last.  For one part the code
writes `<< 0`, which `dependency_test.go:28` expects and which admits nothing.

Only model-checked: liveness (`EveryRunServed`, `TimedRunsEnd`; the prover has no
fairness or ENABLED).  Every invariant and every action property of the passing
runs has a theorem.  What the violated runs show has no proof: a counterexample
is one.

## Not modelled

- The tokenizer of `--gpg-options` (`ParseOptions`): a function of characters
  without state, read once at the start.
- The backoff's duration (`retryDelay`): a wait may end at any time.  Its doubling
  stops at the maximum, so it could overflow only for one near 292 years.
- The package file is read twice, for its hashes and for its upload; the code
  has no guard against a change in between.
- Characters and white space within a text, the cleaning of a pool path, versions
  in several spellings, `IgnoreIterationInDependencies` and `NoDepends`, which
  the program never sets.
- Flags, configuration, output, the text of files: they hold no state of the
  repository.
- `Store.Copy`, which no command calls, the paging of `List`, and the sanitizing
  of keys.
- Integration tests, demo and packaging.

## Plan

In order of importance:

1. Done: `LockSpec`, `RepoLock` and its proofs; `AptIndex`, `Repository`.
2. Done: `ObjectStore`, `S3Object` and its proofs.
3. Done: the queries in `Repository`; what an upload promises about
   architecture-all packages; the lock with runs that have no deadline.
4. Done: `PackageText`, `DebReader`, `Intake`; the bounds of `~>`, by TLC and for
   all versions.
5. Done: the order of Release and its signatures, proved for locked writers.
6. Done: the lists of `AptIndex` for any length, and with them all properties of
   `Repository`'s passing runs, for any commands and any number of runs.
7. Done: the reader for any file, and the entry for control files of any lines:
   all properties of `Intake`'s passing run.
8. Left: the tokenizer of options as a function with a reference definition.
9. Left: `Repository` with `RepoLock` in place of its lock.  The theorems about
   `RepoLock` are what `LockFree` assumes, so this would check the join, not the
   parts.

----------------------------- MODULE Repository -----------------------------
(***************************************************************************)
(* The repository in the object store and the commands that change it:     *)
(* upload, copy, delete, verify and clean, and the queries list, show and  *)
(* exists, several of them at a time.                                      *)
(*                                                                         *)
(* A run executes one command with its flags, its job.  One action is one  *)
(* request to the store; between two requests of a run the others act, and *)
(* a run may stop for good.  What a run is going to publish it computes in *)
(* one step from what it has read (Prepare...), as a list of requests, and *)
(* then it sends them in that order.                                       *)
(*                                                                         *)
(* --lock is what RepoLock proves of it: while a run with the lock of a    *)
(* codename is at work, no other run with that lock starts.                *)
(***************************************************************************)
EXTENDS AptIndex, FiniteSets

CONSTANTS
  Codename,
  Run,       \* the runs; each executes one command
  Jobs,      \* the commands they choose from
  InitialRepo, \* the repository before the first run
  None,      \* no object
  MaxActive, \* bound: runs at work at the same time
  MaxStops,  \* bound: runs that stop in the middle
  Clients    \* whether an APT client fetches InRelease

ASSUME BoundsAssumption == MaxActive \in Nat /\ MaxStops \in Nat /\ Clients \in BOOLEAN

VARIABLES
  repo,    \* the store: see InitialRepo
  pc,      \* where each run is
  job,     \* the command of each run
  mem,     \* what each run has in memory
  client,  \* the InRelease a client has fetched
  acked    \* history: the packages of finished uploads, by index

vars == <<repo, pc, job, mem, client, acked>>

(* repo is a record of the objects of the store by kind:                   *)
(*   release, gpg, inRelease   by codename; a signature is the release it  *)
(*                             signs                                       *)
(*   index     the canonical Packages indexes, by <<codename, index>>      *)
(*   byHash    the by-hash objects, <<codename, index, content>>           *)
(*   pool      the package bodies by pool path                             *)
EmptyRepo ==
  [release |-> [c \in Codename |-> None], gpg |-> [c \in Codename |-> None],
   inRelease |-> [c \in Codename |-> None],
   index |-> EmptyMap, byHash |-> {}, pool |-> EmptyMap]

NoMemory ==
  [rel |-> EmptyRelease, mans |-> EmptyMap, picked |-> <<>>, noted |-> {},
   left |-> {}, todo |-> <<>>, since |-> {}]

Ended == {"done", "failed", "stopped", "unsigned"}
Active == {r \in Run : pc[r] \notin Ended \cup {"idle"}}
\* The runs that ended in the middle of their work.
Stopped == {r \in Run : pc[r] \in {"stopped", "unsigned"}}

Init ==
  /\ repo = InitialRepo
  /\ pc = [r \in Run |-> "idle"]
  /\ job = [r \in Run |-> Unset]
  /\ mem = [r \in Run |-> NoMemory]
  /\ client = None
  /\ acked = {}

Goto(r, label) == pc' = [pc EXCEPT ![r] = label]
Remember(r, m) == mem' = [mem EXCEPT ![r] = m]
Ends(r, label) == Goto(r, label) /\ Remember(r, NoMemory)

-----------------------------------------------------------------------------
(* Starting a command.                                                     *)

\* The codename of the lock a command takes; verify and the queries take none.
LockOf(j) ==
  CASE j.op \in {"upload", "delete", "clean"} /\ j.lock -> j.codename
    [] j.op = "copy" /\ j.lock -> j.to
    [] OTHER -> None

\* The commands that publish, and the queries; show is exists of one name, which
\* prints what it finds.
Writers == {"upload", "copy", "delete", "verify"}
Queries == {"list", "exists"}

\* The codename and the component whose metadata a command rewrites.
Target(j) == IF j.op = "copy" THEN j.to ELSE j.codename
TargetComp(j) == IF j.op = "copy" THEN j.toComp ELSE j.comp

ASSUME JobsAssumption ==
  /\ Unset \notin Jobs
  /\ \A j \in Jobs :
       /\ j.op \in Writers \cup Queries \cup {"clean"}
       /\ Target(j) \in Codename
       /\ j.op = "upload" => IsList(j.files)

GetRequest(arch) == [op |-> "get", arch |-> arch]

LockIgnored(j) == TRUE  \* mutant
LockFree(j) ==
  LockOf(j) # None => \A r \in Active : LockOf(job[r]) # LockOf(j)

\* The architecture of the manifest an uploaded package goes to.
UploadArch(j, p) == IF j.arch = Unset THEN p.arch ELSE j.arch
ArchAllowed(j, p) == j.arch = Unset \/ p.arch \in {AllArch, j.arch}

\* The packages an upload adds to the manifest of an architecture.
UploadedTo(j, a) == {p \in EntriesOf(j.files) : UploadArch(j, p) \in {a, AllArch}}

\* The acknowledged packages that a command is asked to remove or to replace.
Superseded(j) ==
  {a \in acked :
     \/ /\ j.op = "upload" /\ a.codename = j.codename /\ a.index[1] = j.comp
        /\ \E n \in DOMAIN j.files :
             /\ Replaces(a, [pkg |-> j.files[n]], j.preserve)
             /\ UploadArch(j, j.files[n]) \in {AllArch, a.index[2]}
     \/ /\ j.op = "copy" /\ a.codename = j.to /\ a.index = <<j.toComp, j.arch>>
        /\ a.pkg.name = j.name
     \/ /\ j.op = "delete" /\ a.codename = j.codename /\ a.index[1] = j.comp
        /\ j.arch \in {AllArch, a.index[2]} /\ Selected(a, j.name, j.versions)}

\* History: since is the part of acked that a query must find.
Noting(r, j) ==
  [q \in Run |->
     [mem[q] EXCEPT !.since = IF q = r /\ j.op \in Queries THEN acked ELSE @ \ Superseded(j),
                    !.todo = IF q = r /\ j.op = "exists" THEN <<GetRequest(j.arch)>> ELSE @]]

Start(r) ==
  /\ pc[r] = "idle"
  /\ Cardinality(Active) < MaxActive
  /\ \E j \in Jobs :
       /\ LockFree(j)
       /\ job' = [job EXCEPT ![r] = j]
       /\ acked' = acked \ Superseded(j)
       /\ mem' = Noting(r, j)
       /\ Goto(r, CASE j.op = "copy" -> "getSource"
                    [] j.op = "clean" -> "listIndexes"
                    [] j.op = "exists" -> "reading"
                    [] OTHER -> "getRelease")
  /\ UNCHANGED <<repo, client>>

-----------------------------------------------------------------------------
(* Reading.                                                                *)

IndexAt(codename, index) ==
  IF <<codename, index>> \in DOMAIN repo.index THEN repo.index[<<codename, index>>] ELSE <<>>

OwnArchs(j, release) ==  \* mutant
  AppendNew(IF j.files # <<>> /\ UploadArch(j, j.files[1]) = AllArch THEN DefaultArchs ELSE <<>>,
            Map(LAMBDA p : UploadArch(j, p), j.files))

\* The architectures whose manifests Upload retrieves, in order: those of
\* Release, or the seeds if there are none and the first file goes to all, and
\* then, file by file, the file's own.
UploadArchs(j, release) ==
  AppendNew(IF release.archs = <<>> /\ j.files # <<>> /\ UploadArch(j, j.files[1]) = AllArch
            THEN DefaultArchs ELSE release.archs,
            Map(LAMBDA p : UploadArch(j, p), j.files))

ArchsToRead(j, release) ==
  CASE j.op = "upload" -> UploadArchs(j, release)
    [] j.op = "copy" -> <<j.arch>>
    [] j.op = "delete" -> IF j.arch = AllArch THEN release.archs ELSE <<j.arch>>
    [] j.op = "verify" -> release.archs
    [] j.op = "list" -> At(release.archs, {n \in DOMAIN release.archs :
                                         j.arch \in {Unset, release.archs[n]}})

HeadRequest(arch, e) == [op |-> "head", arch |-> arch, file |-> e.file]

\* Copy reads the source manifest first.
GetSource(r) ==
  /\ pc[r] = "getSource"
  /\ Remember(r, [mem[r] EXCEPT !.picked =
                    IndexAt(job[r].codename, <<job[r].comp, job[r].arch>>)])
  /\ Goto(r, "getRelease")
  /\ UNCHANGED <<repo, job, client, acked>>

\* RetrieveRelease: what is stored, or a new Release, with the options given.
GetRelease(r) ==
  /\ pc[r] = "getRelease"
  /\ LET j == job[r]
         stored == repo.release[Target(j)]
         found == IF stored = None THEN EmptyRelease ELSE stored
         rel == [found EXCEPT !.byHash = IF j.byHash = Unset THEN @ ELSE j.byHash]
     IN Remember(r, [mem[r] EXCEPT !.rel = rel,
                                   !.todo = Map(GetRequest, ArchsToRead(j, rel))])
  /\ Goto(r, "reading")
  /\ UNCHANGED <<repo, job, client, acked>>

\* RetrieveManifest of the next architecture; Verify then asks for the body of
\* each of its packages before it goes on to the next architecture.
GetManifest(r) ==
  /\ pc[r] = "reading"
  /\ mem[r].todo # <<>>
  /\ Head(mem[r].todo).op = "get"
  /\ LET arch == Head(mem[r].todo).arch
         content == IndexAt(Target(job[r]), <<TargetComp(job[r]), arch>>)
         heads == IF job[r].op # "verify" THEN <<>>
                  ELSE Map(LAMBDA e : HeadRequest(arch, e), content)
     IN Remember(r, [mem[r] EXCEPT !.mans = With(@, arch, content),
                                   !.todo = heads \o Tail(@)])
  /\ UNCHANGED <<repo, pc, job, client, acked>>

HeadBody(r) ==
  /\ pc[r] = "reading"
  /\ mem[r].todo # <<>>
  /\ LET request == Head(mem[r].todo) IN
       /\ request.op = "head"
       /\ Remember(r, [mem[r] EXCEPT
            !.todo = Tail(@),
            !.noted = IF request.file \in DOMAIN repo.pool THEN @
                      ELSE @ \cup {<<request.arch, request.file>>}])
  /\ UNCHANGED <<repo, pc, job, client, acked>>

Read(r) == pc[r] = "reading" /\ mem[r].todo = <<>>

-----------------------------------------------------------------------------
(* What is published: the requests of a run, in the order they are sent.   *)

PutBodyAnyway(j, p) ==  \* mutant
  [op |-> "putBody", file |-> PoolFile(j.codename, p), body |-> p, failIfExists |-> FALSE]
PutBody(j, p) ==
  [op |-> "putBody", file |-> PoolFile(j.codename, p), body |-> p, failIfExists |-> j.failIfExists]
PutByHash(codename, index, content) ==
  [op |-> "putByHash", key |-> <<codename, index>>, content |-> content]
PutIndex(codename, index, content) ==
  [op |-> "putIndex", key |-> <<codename, index>>, content |-> content]

InReleaseFirst(signed) ==  \* mutant
  IF signed THEN <<"sign", "putRelease", "putInRelease", "putGpg">>
  ELSE <<"deleteGpg", "deleteInRelease", "putRelease">>
InReleaseKept(signed) ==  \* mutant
  IF signed THEN <<"sign", "putRelease", "putGpg", "putInRelease">>
  ELSE <<"deleteGpg", "putRelease">>

\* Release.Publish after its validation: Sign, Release, Release.gpg, InRelease;
\* without a signer the old signatures are deleted before Release is written.
ReleaseRequests(signed) ==
  IF signed THEN <<"sign", "putRelease", "putGpg", "putInRelease">>
  ELSE <<"deleteGpg", "deleteInRelease", "putRelease">>

ByHashOfNonempty(codename, indexes, rel) ==  \* mutant
  IF rel.byHash
  THEN Map(LAMBDA i : PutByHash(codename, i, rel.files[i]),
           SelectSeq(indexes, LAMBDA i : rel.files[i] # <<>>))
  ELSE <<>>
ByHashRequests(codename, indexes, rel) ==
  IF rel.byHash THEN Map(LAMBDA i : PutByHash(codename, i, rel.files[i]), indexes) ELSE <<>>
IndexRequests(codename, indexes, rel) ==
  Map(LAMBDA i : PutIndex(codename, i, rel.files[i]), indexes)

\* Bodies, then every by-hash object, then every canonical index.
MetadataRequests(codename, indexes, rel) ==
  ByHashRequests(codename, indexes, rel) \o IndexRequests(codename, indexes, rel)

\* Release with the prepared manifests and the missing ones.
WithMissing(rel) ==
  LET missing == MissingManifests(rel)
  IN UpdateManifests(rel, missing, [i \in EntriesOf(missing) |-> <<>>])

Stamp(rel, r) ==
  [comps |-> rel.comps, archs |-> rel.archs, files |-> rel.files, byHash |-> rel.byHash,
   date |-> r, signed |-> job[r].sign]

\* The run goes on with the Release it publishes in memory.
Publish(r, requests, rel) ==
  /\ Remember(r, [mem[r] EXCEPT !.todo = requests, !.rel = rel, !.mans = EmptyMap])
  /\ Goto(r, "publishing")

\* Upload and PublishMetadata: the manifests of archs, then the missing ones,
\* are published phase by phase, and Release at the end.
PublishManifests(r, archs, mans, bodies) ==
  LET j == job[r]
      indexes == Map(LAMBDA a : <<TargetComp(j), a>>, archs)
      updated == UpdateManifests(mem[r].rel, indexes,
                                 [i \in EntriesOf(indexes) |-> mans[i[2]]])
      rel == Stamp(WithMissing(updated), r)
  IN Publish(r, Map(LAMBDA p : PutBody(j, p), bodies)
                  \o MetadataRequests(Target(j), indexes \o MissingManifests(updated), rel),
             rel)

\* Release.Publish alone: each missing manifest is published by itself.
PublishRelease(r) ==
  LET j == job[r]
      rel == Stamp(WithMissing(mem[r].rel), r)
  IN Publish(r, FlattenSeq(Map(LAMBDA i : MetadataRequests(Target(j), <<i>>, rel),
                               MissingManifests(mem[r].rel))),
             rel)

-----------------------------------------------------------------------------
(* The operations on what was read.                                        *)

\* Upload adds each package to its manifest, and then every architecture-all
\* package to every other manifest.
PrepareUpload(r) ==
  /\ Read(r) /\ job[r].op = "upload"
  /\ LET j == job[r]
         archs == UploadArchs(j, mem[r].rel)
         packagesOf(a) == At(j.files, {n \in DOMAIN j.files : UploadArch(j, j.files[n]) = a})
         entriesOf(a) == Map(LAMBDA p : Entry(j.codename, p),
                             packagesOf(a) \o IF a = AllArch THEN <<>> ELSE packagesOf(AllArch))
         added == [a \in DOMAIN mem[r].mans |->
                     AddAll(mem[r].mans[a], entriesOf(a), j.preserve, j.failIfExists)]
         bodies == IF j.skipUpload THEN <<>> ELSE FlattenSeq(Map(packagesOf, archs))
     IN IF /\ \A n \in DOMAIN j.files : ArchAllowed(j, j.files[n])
           /\ \A a \in DOMAIN added : added[a].ok
        THEN PublishManifests(r, archs, [a \in DOMAIN added |-> added[a].content], bodies)
        ELSE Ends(r, "failed")
  /\ UNCHANGED <<repo, job, client, acked>>

PrepareCopy(r) ==
  /\ Read(r) /\ job[r].op = "copy"
  /\ LET j == job[r]
         picked == mem[r].picked
         selected == At(picked, {n \in DOMAIN picked : Selected(picked[n], j.name, j.versions)})
         added == AddAll(mem[r].mans[j.arch], selected, j.preserve, j.failIfExists)
     IN IF selected # <<>> /\ added.ok
        THEN PublishManifests(r, <<j.arch>>, [a \in {j.arch} |-> added.content], <<>>)
        ELSE Ends(r, "failed")
  /\ UNCHANGED <<repo, job, client, acked>>

PrepareDelete(r) ==
  /\ Read(r) /\ job[r].op = "delete"
  /\ LET j == job[r]
         rest == [a \in DOMAIN mem[r].mans |-> DeletePackage(mem[r].mans[a], j.name, j.versions)]
         archs == ArchsToRead(j, mem[r].rel)
         changed == At(archs, {n \in DOMAIN archs : rest[archs[n]] # mem[r].mans[archs[n]]})
     IN IF changed # <<>>
        THEN PublishManifests(r, changed, rest, <<>>)
        ELSE Ends(r, "failed")
  /\ UNCHANGED <<repo, job, client, acked>>

WithBodiesButLast(m, arch) ==  \* mutant
  SelectSeq(m.mans[arch],
    LAMBDA e : <<arch, e.file>> \notin m.noted \/ e = Last(m.mans[arch]))

\* The entries of an architecture whose bodies were found.
WithBodies(m, arch) ==
  At(m.mans[arch], {n \in DOMAIN m.mans[arch] : <<arch, m.mans[arch][n].file>> \notin m.noted})

\* Verify: with --fix-manifests the entries whose bodies were missing go; a
\* signed Release is published even if nothing else changed.
PrepareVerify(r) ==
  /\ Read(r) /\ job[r].op = "verify"
  /\ LET j == job[r]
         rest == [a \in DOMAIN mem[r].mans |-> WithBodies(mem[r], a)]
         archs == mem[r].rel.archs
         changed == IF j.fix
                    THEN At(archs, {n \in DOMAIN archs : rest[archs[n]] # mem[r].mans[archs[n]]})
                    ELSE <<>>
     IN IF changed # <<>> THEN PublishManifests(r, changed, rest, <<>>)
        ELSE IF j.sign THEN PublishRelease(r)
        ELSE Ends(r, "done")
  /\ UNCHANGED <<repo, job, client, acked>>

-----------------------------------------------------------------------------
(* The queries.                                                            *)

NameOnly(e) == e.pkg.name  \* mutant
\* What makes two entries copies of one package.
Identity(e) == <<e.pkg.name, e.pkg.version, e.pkg.arch, e.file>>

\* List: the entries of the manifests in the order of Release, each identity once.
ListOutput(r) ==
  LET all == FlattenSeq(Map(LAMBDA a : mem[r].mans[a], ArchsToRead(job[r], mem[r].rel)))
  IN At(all, {n \in DOMAIN all : \A k \in 1..(n - 1) : Identity(all[k]) # Identity(all[n])})

\* Show and Exists: whether the manifest has the version of a name.
Exists(r, name) ==
  \E e \in EntriesOf(mem[r].mans[job[r].arch]) :
    e.pkg.name = name /\ e.pkg.version = job[r].version

Answer(r) ==
  /\ Read(r) /\ job[r].op \in Queries
  /\ Ends(r, "done")
  /\ UNCHANGED <<repo, job, client, acked>>

-----------------------------------------------------------------------------
(* The requests of a publication.  A Put is atomic: content equal to what  *)
(* is stored is not written again, other content conflicts if the request  *)
(* is conditional.                                                         *)

Sending(r, op) ==
  pc[r] = "publishing" /\ mem[r].todo # <<>> /\ Head(mem[r].todo).op = op

Request(r) == Head(mem[r].todo)

Sent(r) ==
  Remember(r, [mem[r] EXCEPT !.todo = Tail(@)]) /\ UNCHANGED <<pc, job, client, acked>>

SendBody(r) ==
  /\ Sending(r, "putBody")
  /\ LET q == Request(r)
         conflict == q.failIfExists /\ q.file \in DOMAIN repo.pool /\ repo.pool[q.file] # q.body
     IN \/ conflict /\ Ends(r, "failed") /\ UNCHANGED <<repo, job, client, acked>>
        \/ ~conflict /\ repo' = [repo EXCEPT !.pool = With(@, q.file, q.body)] /\ Sent(r)

\* By-hash objects are named by their content: a Put either creates the object
\* or finds it there.
SendByHash(r) ==
  /\ Sending(r, "putByHash")
  /\ repo' = [repo EXCEPT !.byHash = @ \cup {<<Request(r).key[1], Request(r).key[2], Request(r).content>>}]
  /\ Sent(r)

SendIndex(r) ==
  /\ Sending(r, "putIndex")
  /\ repo' = [repo EXCEPT !.index = With(@, Request(r).key, Request(r).content)]
  /\ Sent(r)

\* Release.Publish follows when everything that Release describes is stored.
BeginRelease(r) ==
  /\ pc[r] = "publishing" /\ mem[r].todo = <<>>
  /\ Remember(r, [mem[r] EXCEPT !.todo = ReleaseRequests(job[r].sign)])
  /\ Goto(r, "releasing")
  /\ UNCHANGED <<repo, job, client, acked>>

Releasing(r, op) ==
  pc[r] = "releasing" /\ mem[r].todo # <<>> /\ Head(mem[r].todo) = op

\* Signing is local; when GPG fails, Publish returns its error.
Sign(r) ==
  /\ Releasing(r, "sign")
  /\ \/ Sent(r)
     \/ /\ Cardinality(Stopped) < MaxStops
        /\ Ends(r, "unsigned")
        /\ UNCHANGED <<job, client, acked>>
  /\ UNCHANGED repo

SendRelease(r) ==
  /\ Releasing(r, "putRelease")
  /\ repo' = [repo EXCEPT !.release[Target(job[r])] = mem[r].rel]
  /\ Sent(r)

SendSignature(r) ==
  /\ \/ /\ Releasing(r, "putGpg")
        /\ repo' = [repo EXCEPT !.gpg[Target(job[r])] = mem[r].rel]
     \/ /\ Releasing(r, "putInRelease")
        /\ repo' = [repo EXCEPT !.inRelease[Target(job[r])] = mem[r].rel]
  /\ Sent(r)

DeleteSignature(r) ==
  /\ \/ /\ Releasing(r, "deleteGpg")
        /\ repo' = [repo EXCEPT !.gpg[Target(job[r])] = None]
     \/ /\ Releasing(r, "deleteInRelease")
        /\ repo' = [repo EXCEPT !.inRelease[Target(job[r])] = None]
  /\ Sent(r)

\* The packages a finished upload has put into the repository, by index.
Uploaded(r) ==
  LET j == job[r]
      rel == mem[r].rel
  IN UNION {{[codename |-> j.codename, index |-> <<j.comp, a>>, pkg |-> p] :
               p \in UploadedTo(j, a) \cap Listed(rel.files[<<j.comp, a>>])} :
              a \in EntriesOf(rel.archs)}

Published(r) ==
  /\ pc[r] = "releasing" /\ mem[r].todo = <<>>
  /\ acked' = IF job[r].op = "upload" THEN acked \cup Uploaded(r) ELSE acked
  /\ Ends(r, "done")
  /\ UNCHANGED <<repo, job, client>>

-----------------------------------------------------------------------------
(* Clean.                                                                  *)

\* The Packages indexes of every codename.
ListIndexes(r) ==
  /\ pc[r] = "listIndexes"
  /\ Remember(r, [mem[r] EXCEPT !.left = DOMAIN repo.index])
  /\ Goto(r, "scan")
  /\ UNCHANGED <<repo, job, client, acked>>

ScanIndex(r) ==
  /\ pc[r] = "scan"
  /\ \E key \in mem[r].left :
       Remember(r, [mem[r] EXCEPT
         !.left = @ \ {key},
         !.noted = @ \cup {e.file : e \in EntriesOf(repo.index[key])}])
  /\ UNCHANGED <<repo, pc, job, client, acked>>

\* The objects under pool/<codename>/ that no index refers to.
ListPool(r) ==
  /\ pc[r] = "scan" /\ mem[r].left = {}
  /\ Remember(r, [mem[r] EXCEPT
       !.left = {f \in DOMAIN repo.pool : f[1] = job[r].codename} \ mem[r].noted])
  /\ Goto(r, "sweep")
  /\ UNCHANGED <<repo, job, client, acked>>

DeleteBody(r) ==
  /\ pc[r] = "sweep"
  /\ \E file \in mem[r].left :
       /\ repo' = [repo EXCEPT !.pool = [f \in DOMAIN @ \ {file} |-> @[f]]]
       /\ Remember(r, [mem[r] EXCEPT !.left = @ \ {file}])
  /\ UNCHANGED <<pc, job, client, acked>>

Cleaned(r) ==
  /\ pc[r] = "sweep" /\ mem[r].left = {}
  /\ Ends(r, "done")
  /\ UNCHANGED <<repo, job, client, acked>>

-----------------------------------------------------------------------------
(* The environment.                                                        *)

\* A run stops for good at any request: the request fails, or the process dies;
\* its lock is released, or removed by hand.
Stop(r) ==
  /\ r \in Active
  /\ Cardinality(Stopped) < MaxStops
  /\ Ends(r, "stopped")
  /\ UNCHANGED <<repo, job, client, acked>>

\* An APT client fetches the InRelease of a codename and keeps it.
ClientFetches ==
  /\ Clients
  /\ \E c \in Codename :
       /\ repo.inRelease[c] # None
       /\ client' = [codename |-> c, release |-> repo.inRelease[c]]
  /\ UNCHANGED <<repo, pc, job, mem, acked>>

AllDone == (\A r \in Run : pc[r] \in Ended) /\ UNCHANGED vars

Step(r) ==
  \/ Start(r) \/ GetSource(r) \/ GetRelease(r) \/ GetManifest(r) \/ HeadBody(r)
  \/ PrepareUpload(r) \/ PrepareCopy(r) \/ PrepareDelete(r) \/ PrepareVerify(r)
  \/ Answer(r)
  \/ SendBody(r) \/ SendByHash(r) \/ SendIndex(r)
  \/ BeginRelease(r) \/ Sign(r) \/ SendRelease(r) \/ SendSignature(r) \/ DeleteSignature(r)
  \/ Published(r)
  \/ ListIndexes(r) \/ ScanIndex(r) \/ ListPool(r) \/ DeleteBody(r) \/ Cleaned(r)

Next ==
  \/ \E r \in Run : Step(r) \/ Stop(r)
  \/ ClientFetches
  \/ AllDone

Spec == Init /\ [][Next]_vars

-----------------------------------------------------------------------------
(* Properties.                                                             *)

\* What is stored and remembered has its type.
TypeOK ==
  /\ \A c \in Codename : \A o \in {repo.release[c], repo.gpg[c], repo.inRelease[c]} :
       o = None \/ \A i \in DOMAIN o.files :
                     i[1] \in EntriesOf(o.comps) /\ i[2] \in EntriesOf(o.archs)
  /\ \A key \in DOMAIN repo.index : key[1] \in Codename
  /\ \A r \in Run : pc[r] = "idle" <=> job[r] = Unset
  /\ Cardinality(Active) <= MaxActive /\ Cardinality(Stopped) <= MaxStops

\* SIGNING.md, "With --by-hash, clients that already fetched the previous signed
\* generation keep working even if an upload is interrupted partway through":
\* every index of the InRelease a client has is there by its hash, whatever has
\* been published, half published or deleted since.
ByHashServed ==
  client # None /\ client.release.byHash =>
    \A i \in DOMAIN client.release.files :
      <<client.codename, i, client.release.files[i]>> \in repo.byHash

\* The same promise for a client that falls back on the canonical name of an
\* index when there is no object of its hash.
FetchedGenerationServed ==
  client # None /\ client.release.byHash =>
    \A i \in DOMAIN client.release.files :
      \/ <<client.codename, i, client.release.files[i]>> \in repo.byHash
      \/ IndexAt(client.codename, i) = client.release.files[i]

\* TESTING.md, "copy across codenames, then clean safely": every entry of every
\* canonical index has its body in the pool, with the bytes whose hashes the
\* entry carries, after any publication, copy and clean.
BodiesMatch ==
  \A key \in DOMAIN repo.index : \A e \in EntriesOf(repo.index[key]) :
    e.file \in DOMAIN repo.pool /\ repo.pool[e.file] = e.pkg

\* LOCKING.md, "Pass `--lock` to stop two runs from updating the same repository
\* at once": a package whose upload has finished stays in the Release of its
\* codename until a command is asked to remove or to replace it; no run
\* overwrites the metadata of another with what it read before.
AckedListed ==
  \A a \in acked :
    /\ repo.release[a.codename] # None
    /\ a.index \in DOMAIN repo.release[a.codename].files
    /\ a.pkg \in Listed(repo.release[a.codename].files[a.index])

\* SIGNING.md, "Clients treat InRelease as the final word, so it goes last":
\* once InRelease signs the stored Release, Release.gpg signs no older one.
InReleaseLast ==
  \A c \in Codename :
    repo.inRelease[c] # None /\ repo.inRelease[c] = repo.release[c]
      => repo.gpg[c] \in {repo.release[c], None}

\* SIGNING.md, "an old signature can never keep describing a repository that has
\* moved on": no signature lies beside a Release published without one.
NoStaleSignature ==
  \A c \in Codename :
    repo.release[c] # None /\ ~repo.release[c].signed
      => repo.gpg[c] = None /\ repo.inRelease[c] = None

\* When every run has finished, Release lists every index of its components and
\* architectures with the content stored under its canonical name, and carries
\* the signatures of the last run, if it signed.
QuietConsistent ==
  Active \cup Stopped = {} =>
    \A c \in Codename : repo.release[c] # None =>
      LET rel == repo.release[c] IN
        /\ DOMAIN rel.files = EntriesOf(rel.comps) \X EntriesOf(rel.archs)
        /\ \A i \in DOMAIN rel.files :
             <<c, i>> \in DOMAIN repo.index /\ repo.index[<<c, i>>] = rel.files[i]
        /\ repo.gpg[c] = IF rel.signed THEN rel ELSE None
        /\ repo.inRelease[c] = repo.gpg[c]

\* query.go, "Architecture-all packages are propagated into every architecture's
\* manifest at upload time", and TESTING.md, "An `Architecture: all` package fans
\* out into every architecture manifest": when an upload ends, each of its
\* architecture-all packages is in the index of every architecture of Release,
\* those included that a later file or a new repository has brought.
FansOut ==
  [][\A r \in Run :
       /\ pc[r] = "releasing" /\ pc'[r] = "done"
       /\ job[r].op = "upload"
       => LET j == job[r]
              toAll == {n \in DOMAIN j.files : UploadArch(j, j.files[n]) = AllArch}
          IN \A n \in toAll :
               (\A k \in toAll : k > n =>
                  ~Replaces([pkg |-> j.files[n]], [pkg |-> j.files[k]], j.preserve))
               => \A a \in EntriesOf(repo.release[j.codename].archs) :
                    j.files[n] \in Listed(IndexAt(j.codename, <<j.comp, a>>))]_vars

\* query.go, "identical entries are reported once", and no other is left out: a
\* query, which takes no lock, answers with every package of its component whose
\* upload had finished when it began and that no command was asked to remove or
\* to replace, whatever is published between its requests.
QueriesSeeAcked ==
  \A r \in Run : Read(r) => \A a \in mem[r].since :
    LET j == job[r] IN
      /\ /\ j.op = "list" /\ a.codename = j.codename /\ a.index[1] = j.comp
         /\ j.arch \in {Unset, a.index[2]}
         => a.pkg \in Listed(ListOutput(r))
      /\ /\ j.op = "exists" /\ a.codename = j.codename /\ a.index = <<j.comp, j.arch>>
         /\ a.pkg.version = j.version
         => Exists(r, a.pkg.name)

\* A finished verify --fix-manifests leaves no entry without a body in the
\* indexes of its component.
VerifyRepairs ==
  [][\A r \in Run :
       /\ pc[r] # "done" /\ pc'[r] = "done"
       /\ job[r].op = "verify" /\ job[r].fix
       => \A key \in DOMAIN repo.index :
            key[1] = job[r].codename /\ key[2][1] = job[r].comp =>
              \A e \in EntriesOf(repo.index[key]) : e.file \in DOMAIN repo.pool]_vars
=============================================================================

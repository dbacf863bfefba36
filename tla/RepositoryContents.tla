------------------------- MODULE RepositoryContents -------------------------
(***************************************************************************)
(* What the repository holds, for any number of runs and any commands,     *)
(* however they interleave and wherever they stop.                         *)
(***************************************************************************)
EXTENDS RepositoryPublished

-----------------------------------------------------------------------------
(* --by-hash.                                                              *)

\* Every command that publishes is given --by-hash.
ByHashGiven == \A j \in Jobs : j.op \in Writers => j.byHash = TRUE

Stored1(c, rel, i) == <<c, i, rel.files[i]>> \in repo.byHash

Served(c, rel) == rel.byHash = TRUE /\ \A i \in DOMAIN rel.files : Stored1(c, rel, i)

\* A run that publishes has sent the by-hash object of an index or is going to.
Serving(c, rel, requests) ==
  /\ rel.byHash = TRUE
  /\ \A i \in DOMAIN rel.files :
       Stored1(c, rel, i) \/ PutByHash(c, i, rel.files[i]) \in EntriesOf(requests)

ServingRun(r) ==
  /\ pc[r] = "reading" /\ job[r].op \in Writers => Served(Target(job[r]), mem[r].rel)
  /\ pc[r] = "publishing" => Serving(Target(job[r]), mem[r].rel, mem[r].todo)
  /\ pc[r] = "releasing" => Served(Target(job[r]), mem[r].rel)

ServedStore ==
  /\ \A c \in Codename : repo.release[c] = None \/ Served(c, repo.release[c])
  /\ \A c \in Codename : repo.inRelease[c] = None \/ Served(c, repo.inRelease[c])
  /\ client = None \/ Served(client.codename, client.release)

HashInv == ServedStore /\ \A r \in Run : ServingRun(r)

\* By-hash objects stay.
LEMMA ServedStays ==
  ASSUME repo.byHash \subseteq repo'.byHash, NEW c, NEW rel, Served(c, rel)
  PROVE  Served(c, rel)'
BY DEF Served, Stored1

\* A step of r that stores no Release and no by-hash object but its own.
LEMMA OwnKeepsHashes ==
  ASSUME HashInv, NEW r \in Run, OwnStep(r), repo.byHash \subseteq repo'.byHash,
         UNCHANGED client, ServingRun(r)',
         \A c \in Codename : \/ repo'.release[c] = repo.release[c]
                             \/ repo'.release[c] = None
                             \/ Served(c, repo'.release[c]),
         \A c \in Codename : \/ repo'.inRelease[c] = repo.inRelease[c]
                             \/ repo'.inRelease[c] = None
                             \/ Served(c, repo'.inRelease[c])
  PROVE  HashInv'
<1>1. ServedStore'
  BY ServedStays DEF HashInv, ServedStore
<1>2. ASSUME NEW s \in Run, s # r
      PROVE  ServingRun(s)'
  <2>1. ServingRun(s)
    BY DEF HashInv
  <2>2. pc'[s] = pc[s] /\ job'[s] = job[s] /\ mem'[s].rel = mem[s].rel /\ mem'[s].todo = mem[s].todo
    BY <1>2 DEF OwnStep, SameWork, Fields
  <2>3. CASE pc[s] = "publishing"
    BY <2>1, <2>2, <2>3 DEF ServingRun, Serving, Stored1
  <2>4. CASE pc[s] # "publishing"
    BY <2>1, <2>2, <2>4, ServedStays DEF ServingRun
  <2> QED
    BY <2>3, <2>4
<1> QED
  BY <1>1, <1>2 DEF HashInv

\* The same of a step that stores nothing but bodies, by-hash objects and indexes.
LEMMA QuietKeepsHashes ==
  ASSUME HashInv, NEW r \in Run, OwnStep(r), repo.byHash \subseteq repo'.byHash,
         repo'.release = repo.release, repo'.inRelease = repo.inRelease,
         UNCHANGED client, ServingRun(r)'
  PROVE  HashInv'
BY OwnKeepsHashes

\* A run that is not going to publish.
LEMMA IdlingServes ==
  ASSUME NEW r, pc'[r] \notin {"reading", "publishing", "releasing"}
  PROVE  ServingRun(r)'
BY DEF ServingRun

LEMMA EndsKeepHashes ==
  ASSUME Typed, HashInv, NEW r \in Run, OwnStep(r), NEW label \in Ended, Ends(r, label),
         UNCHANGED <<repo, client>>
  PROVE  HashInv'
<1>1. pc'[r] = label
  BY DEF Ends, Goto, Typed
<1> QED
  BY <1>1, IdlingServes, QuietKeepsHashes DEF Ended

LEMMA ReadingKeepsHashes ==
  ASSUME Typed, ByHashGiven, HashInv, NEW r \in Run, OwnStep(r),
         Start(r) \/ GetSource(r) \/ GetRelease(r) \/ GetManifest(r) \/ HeadBody(r) \/ Answer(r)
  PROVE  HashInv'
<1>1. UNCHANGED <<repo, client>>
  BY DEF Start, GetSource, GetRelease, GetManifest, HeadBody, Answer
<1>2. CASE Start(r)
  <2>1. PICK j \in Jobs : StartsWith(r, j)
    BY <1>2, StartsWithAJob
  <2>2. ServingRun(r)'
    BY <2>1 DEF StartsWith, ServingRun, Writers
  <2> QED
    BY <1>1, <2>2, QuietKeepsHashes
<1>3. CASE GetSource(r)
  <2>1. pc'[r] = "getRelease"
    BY <1>3 DEF GetSource, Goto, Typed
  <2> QED
    BY <1>1, <2>1, IdlingServes, QuietKeepsHashes
<1>4. CASE GetRelease(r)
  <2> DEFINE j == job[r]
             stored == repo.release[Target(j)]
             found == IF stored = None THEN EmptyRelease ELSE stored
             rel == [found EXCEPT !.byHash = IF j.byHash = Unset THEN @ ELSE j.byHash]
  <2>1. /\ mem'[r].rel = rel /\ pc'[r] = "reading" /\ job'[r] = j
    BY <1>4 DEF GetRelease, Goto, Remember, Typed, GoodRun, GoodMemory, Fields
  <2>2. ASSUME j.op \in Writers
        PROVE  Served(Target(j), rel)
    <3>1. j.byHash = TRUE /\ j.byHash # Unset /\ Target(j) \in Codename
      BY <1>4, <2>2, JobsAssumption, UnsetAssumption DEF ByHashGiven, GetRelease, Typed, GoodRun
    <3>2. found = EmptyRelease \/ (GoodRelease(found) /\ Served(Target(j), found))
      BY <3>1 DEF HashInv, ServedStore, Typed, Stored
    <3>3. "byHash" \in DOMAIN found /\ "files" \in DOMAIN found
      BY <3>2, EmptyReleaseIsGood DEF GoodRelease, IsRelease
    <3> HIDE DEF found
    <3>4. rel.byHash = TRUE /\ rel.files = found.files
      BY <3>1, <3>3
    <3>5. \A i \in DOMAIN found.files : Stored1(Target(j), found, i)
      BY <3>2 DEF Served, EmptyRelease, EmptyMap
    <3> HIDE DEF rel
    <3> QED
      BY <3>4, <3>5 DEF Served, Stored1
  <2>3. ServingRun(r)'
    BY <1>1, <2>1, <2>2 DEF ServingRun, Served, Stored1
  <2> QED
    BY <1>1, <2>3, QuietKeepsHashes
<1>5. CASE GetManifest(r) \/ HeadBody(r)
  <2>1. pc[r] = "reading" /\ UNCHANGED <<pc, job>>
    BY <1>5 DEF GetManifest, HeadBody
  <2>2. mem'[r].rel = mem[r].rel
    BY <1>5, ManifestIsRead, BodyIsAskedFor DEF Fields
  <2>3. ServingRun(r)'
    BY <1>1, <2>1, <2>2 DEF HashInv, ServingRun, Served, Stored1
  <2> QED
    BY <1>1, <2>3, QuietKeepsHashes
<1>6. CASE Answer(r)
  BY <1>1, <1>6, EndsKeepHashes DEF Answer, Ended
<1> QED
  BY <1>2, <1>3, <1>4, <1>5, <1>6

LEMMA PrepareKeepsHashes ==
  ASSUME Typed, HashInv, NEW r \in Run, OwnStep(r),
         PrepareUpload(r) \/ PrepareCopy(r) \/ PrepareDelete(r) \/ PrepareVerify(r)
  PROVE  HashInv'
<1>1. Read(r) /\ job[r].op \in Writers /\ UNCHANGED <<repo, job, client>>
  BY PreparePublishes
<1>2. CASE Ends(r, "failed") \/ Ends(r, "done")
  BY <1>1, <1>2, EndsKeepHashes DEF Ended
<1>3. ASSUME NEW rel, NEW archs, NEW mans, Publication(r, rel, archs, mans)
      PROVE  HashInv'
  <2> DEFINE j == job[r]
             c == Target(j)
             old == mem[r].rel
             updated == {TargetComp(j)} \X archs
             fresh == updated \cup (DOMAIN rel.files \ DOMAIN old.files)
  <2>1. PICK requests :
          /\ Publish(r, requests, rel)
          /\ Completes(rel, old, updated, mans)
          /\ EntriesOf(requests) = Bodies(j, UploadedBodies(j)) \cup Indexes(c, fresh, rel)
    BY <1>3 DEF Publication, Publishes
  <2>2. mem'[r].todo = requests /\ mem'[r].rel = rel /\ pc'[r] = "publishing"
    BY <2>1 DEF Publish, Goto, Remember, Typed, GoodRun, GoodMemory, Fields
  <2>3. Served(c, old)
    BY <1>1 DEF HashInv, ServingRun, Read
  <2>4. rel.byHash = TRUE /\ rel.byHash
    BY <2>1, <2>3 DEF Served, Completes
  <2>5. ASSUME NEW i \in DOMAIN rel.files
        PROVE  Stored1(c, rel, i) \/ PutByHash(c, i, rel.files[i]) \in EntriesOf(requests)
    <3>1. CASE i \in fresh
      <4>1. PutByHash(c, i, rel.files[i]) \in Indexes(c, fresh, rel)
        BY <2>4, <3>1 DEF Indexes
      <4> QED
        BY <2>1, <4>1
    <3>2. CASE i \notin fresh
      BY <2>1, <2>3, <3>2 DEF Completes, Served, Stored1
    <3> QED
      BY <3>1, <3>2
  <2>6. ServingRun(r)'
    BY <1>1, <2>2, <2>4, <2>5 DEF ServingRun, Serving, Stored1
  <2> QED
    BY <1>1, <2>6, QuietKeepsHashes
<1> QED
  BY <1>2, <1>3, PreparePublishes

LEMMA BulkKeepsHashes ==
  ASSUME Typed, HashInv, NEW r \in Run, OwnStep(r), SendBody(r) \/ SendByHash(r) \/ SendIndex(r)
  PROVE  HashInv'
<1>1. pc[r] = "publishing" /\ mem[r].todo # <<>> /\ UNCHANGED client
  BY DEF SendBody, SendByHash, SendIndex, Sending, Sent
<1>2. CASE Ends(r, "failed") /\ UNCHANGED repo
  BY <1>1, <1>2, EndsKeepHashes DEF Ended
<1>3. ASSUME Sent(r), repo.byHash \subseteq repo'.byHash,
             repo'.release = repo.release, repo'.inRelease = repo.inRelease,
             Request(r).op # "putByHash"
               \/ <<Request(r).key[1], Request(r).key[2], Request(r).content>> \in repo'.byHash
      PROVE  HashInv'
  <2> DEFINE c == Target(job[r])
             rel == mem[r].rel
  <2>1. /\ mem'[r].rel = rel /\ pc' = pc /\ job' = job
        /\ EntriesOf(mem[r].todo) = EntriesOf(mem'[r].todo) \cup {Request(r)}
    BY <1>1, <1>3, SentLeaves DEF Fields
  <2>2. Serving(c, rel, mem[r].todo)
    BY <1>1 DEF HashInv, ServingRun
  <2>3. ASSUME NEW i \in DOMAIN rel.files, PutByHash(c, i, rel.files[i]) = Request(r)
        PROVE  <<c, i, rel.files[i]>> \in repo'.byHash
    BY <1>3, <2>3 DEF PutByHash
  <2>4. /\ rel.byHash = TRUE
        /\ \A i \in DOMAIN rel.files : \/ <<c, i, rel.files[i]>> \in repo'.byHash
                                       \/ PutByHash(c, i, rel.files[i]) \in EntriesOf(mem'[r].todo)
    BY <1>3, <2>1, <2>2, <2>3 DEF Serving, Stored1
  <2>5. ServingRun(r)'
    BY <1>1, <2>1, <2>4 DEF ServingRun, Serving, Stored1
  <2> QED
    BY <1>1, <1>3, <2>5, QuietKeepsHashes
<1>4. CASE SendBody(r) /\ Sent(r)
  <2>1. \E pool : repo' = [repo EXCEPT !.pool = pool]
    BY <1>4, <1>1 DEF SendBody, Ends, Sent, Goto, Remember, Typed
  <2>2. Request(r).op = "putBody"
    BY <1>4 DEF SendBody, Sending, Request
  <2> QED
    BY <1>3, <1>4, <2>1, <2>2 DEF Typed, Stored
<1>5. CASE SendByHash(r)
  <2>1. /\ Sent(r)
        /\ repo' = [repo EXCEPT !.byHash = @ \cup {<<Request(r).key[1], Request(r).key[2], Request(r).content>>}]
    BY <1>5 DEF SendByHash
  <2> QED
    BY <1>3, <2>1 DEF Typed, Stored
<1>6. CASE SendIndex(r)
  <2>1. Sent(r) /\ \E index : repo' = [repo EXCEPT !.index = index]
    BY <1>6 DEF SendIndex
  <2>2. Request(r).op = "putIndex"
    BY <1>6 DEF SendIndex, Sending, Request
  <2> QED
    BY <1>3, <2>1, <2>2 DEF Typed, Stored
<1> QED
  BY <1>1, <1>2, <1>4, <1>5, <1>6 DEF SendBody

LEMMA ReleasingKeepsHashes ==
  ASSUME Typed, HashInv, NEW r \in Run, OwnStep(r),
         BeginRelease(r) \/ Sign(r) \/ SendRelease(r) \/ SendSignature(r)
           \/ DeleteSignature(r) \/ Published(r)
  PROVE  HashInv'
<1>1. UNCHANGED client
  BY DEF BeginRelease, Sign, SendRelease, SendSignature, DeleteSignature, Published, Sent
<1>2. CASE BeginRelease(r)
  <2>1. /\ pc[r] = "publishing" /\ mem[r].todo = <<>> /\ pc'[r] = "releasing"
        /\ job' = job /\ repo' = repo /\ mem'[r].rel = mem[r].rel
    BY <1>2 DEF BeginRelease, Goto, Remember, Typed, GoodRun, GoodMemory, Fields
  <2>2. Served(Target(job[r]), mem[r].rel)
    BY <2>1, EmptyIsList DEF HashInv, ServingRun, Serving, Served
  <2>3. ServingRun(r)'
    BY <2>1, <2>2 DEF ServingRun, Served, Stored1
  <2> QED
    BY <1>1, <2>1, <2>3, QuietKeepsHashes
<1>3. CASE Ends(r, "unsigned") /\ UNCHANGED repo
  BY <1>1, <1>3, EndsKeepHashes DEF Ended
<1>4. CASE Published(r)
  BY <1>1, <1>4, EndsKeepHashes DEF Published, Ended
\* A request of Release.Publish stores the Release of r, or removes a signature.
<1>5. ASSUME pc[r] = "releasing", Sent(r), mem[r].todo # <<>>,
             repo.byHash = repo'.byHash,
             \A c \in Codename : repo'.release[c] \in
               {repo.release[c]} \cup (IF c = Target(job[r]) THEN {None, mem[r].rel} ELSE {}),
             \A c \in Codename : repo'.inRelease[c] \in
               {repo.inRelease[c]} \cup (IF c = Target(job[r]) THEN {None, mem[r].rel} ELSE {})
      PROVE  HashInv'
  <2>1. mem'[r].rel = mem[r].rel /\ pc' = pc /\ job' = job
    BY <1>5, SentLeaves DEF Fields
  <2>2. Served(Target(job[r]), mem[r].rel)
    BY <1>5 DEF HashInv, ServingRun
  <2>3. ServingRun(r)'
    BY <1>5, <2>1, <2>2 DEF ServingRun, Served, Stored1
  <2> QED
    BY <1>1, <1>5, <2>2, <2>3, OwnKeepsHashes
<1>6. CASE Sign(r) /\ Sent(r)
  BY <1>5, <1>6 DEF Sign, Releasing
<1>7. CASE SendRelease(r)
  BY <1>5, <1>7 DEF SendRelease, Releasing, Typed, Stored
<1>8. CASE SendSignature(r)
  BY <1>5, <1>8 DEF SendSignature, Releasing, Typed, Stored
<1>9. CASE DeleteSignature(r)
  BY <1>5, <1>9 DEF DeleteSignature, Releasing, Typed, Stored
<1> QED
  BY <1>2, <1>3, <1>4, <1>6, <1>7, <1>8, <1>9 DEF Sign

\* clean deletes nothing but bodies.
LEMMA CleanKeepsHashes ==
  ASSUME Typed, HashInv, NEW r \in Run, OwnStep(r),
         ListIndexes(r) \/ ScanIndex(r) \/ ListPool(r) \/ DeleteBody(r) \/ Cleaned(r)
  PROVE  HashInv'
<1>1. pc'[r] \in {"scan", "sweep", "done"}
  BY DEF ListIndexes, ScanIndex, ListPool, DeleteBody, Cleaned, Ends, Goto, Typed
<1>2. /\ UNCHANGED client
      /\ repo' = repo \/ \E pool : repo' = [repo EXCEPT !.pool = pool]
  BY DEF ListIndexes, ScanIndex, ListPool, DeleteBody, Cleaned
<1>3. repo'.byHash = repo.byHash /\ repo'.release = repo.release /\ repo'.inRelease = repo.inRelease
  BY <1>2 DEF Typed, Stored
<1> QED
  BY <1>1, <1>2, <1>3, IdlingServes, QuietKeepsHashes

LEMMA StepKeepsHashes ==
  ASSUME Typed, ByHashGiven, HashInv, NEW r \in Run, Step(r) \/ Stop(r)
  PROVE  HashInv'
<1>1. OwnStep(r)
  BY StepIsOwn
<1>2. CASE Start(r) \/ GetSource(r) \/ GetRelease(r) \/ GetManifest(r) \/ HeadBody(r) \/ Answer(r)
  BY <1>1, <1>2, ReadingKeepsHashes
<1>3. CASE PrepareUpload(r) \/ PrepareCopy(r) \/ PrepareDelete(r) \/ PrepareVerify(r)
  BY <1>1, <1>3, PrepareKeepsHashes
<1>4. CASE SendBody(r) \/ SendByHash(r) \/ SendIndex(r)
  BY <1>1, <1>4, BulkKeepsHashes
<1>5. CASE \/ BeginRelease(r) \/ Sign(r) \/ SendRelease(r) \/ SendSignature(r)
           \/ DeleteSignature(r) \/ Published(r)
  BY <1>1, <1>5, ReleasingKeepsHashes
<1>6. CASE ListIndexes(r) \/ ScanIndex(r) \/ ListPool(r) \/ DeleteBody(r) \/ Cleaned(r)
  BY <1>1, <1>6, CleanKeepsHashes
<1>7. CASE Stop(r)
  BY <1>1, <1>7, EndsKeepHashes DEF Stop, Ended
<1> QED
  BY <1>2, <1>3, <1>4, <1>5, <1>6, <1>7 DEF Step

LEMMA ClientKeepsHashes ==
  ASSUME HashInv, ClientFetches
  PROVE  HashInv'
<1>1. PICK c \in Codename :
        repo.inRelease[c] # None /\ client' = [codename |-> c, release |-> repo.inRelease[c]]
  BY DEF ClientFetches
<1>2. UNCHANGED <<repo, pc, job, mem>>
  BY DEF ClientFetches
<1>3. Served(client'.codename, client'.release)
  BY <1>1 DEF HashInv, ServedStore
<1>4. ServedStore'
  BY <1>2, <1>3 DEF HashInv, ServedStore, Served, Stored1
<1>5. \A r \in Run : ServingRun(r)'
  BY <1>2 DEF HashInv, ServingRun, Serving, Served, Stored1
<1> QED
  BY <1>4, <1>5 DEF HashInv

\* SIGNING.md, "With --by-hash, clients that already fetched the previous signed
\* generation keep working even if an upload is interrupted partway through": in
\* a repository whose commands are all given --by-hash, with or without the lock,
\* whatever verify, copy, delete and clean do meanwhile and wherever they stop.
THEOREM ByHashIsServed ==
  ASSUME ByHashGiven, InitialRepo = EmptyRepo
  PROVE  Spec => []ByHashServed
<1>1. Init => HashInv
  BY DEF Init, HashInv, ServedStore, ServingRun, EmptyRepo
<1>2. Typed /\ HashInv /\ [Next]_vars => HashInv'
  <2> SUFFICES ASSUME Typed, HashInv, [Next]_vars
               PROVE  HashInv'
    OBVIOUS
  <2>1. CASE \E r \in Run : Step(r) \/ Stop(r)
    BY <2>1, StepKeepsHashes
  <2>2. CASE ClientFetches
    BY <2>2, ClientKeepsHashes
  <2>3. CASE AllDone \/ UNCHANGED vars
    BY <2>3 DEF AllDone, vars, HashInv, ServedStore, ServingRun, Serving, Served, Stored1
  <2> QED
    BY <2>1, <2>2, <2>3 DEF Next
<1>3. HashInv => ByHashServed
  BY DEF HashInv, ServedStore, Served, Stored1, ByHashServed
<1> QED
  BY <1>1, <1>2, <1>3, TypedAlways, PTL DEF Spec

-----------------------------------------------------------------------------
(* --lock: what a finished upload has put into the repository stays.       *)

Lists(rel, a) == a.index \in DOMAIN rel.files /\ a.pkg \in Listed(rel.files[a.index])

AckedStored ==
  \A a \in acked :
    /\ a.codename \in Codename
    /\ repo.release[a.codename] # None /\ Lists(repo.release[a.codename], a)
    /\ a.pkg \in Listed(IndexAt(a.codename, a.index))

\* The acknowledged packages of the codename that a run publishes to.
Concerned(r) == {a \in acked : a.codename = Target(job[r])}

\* What a writer has in memory lists what is acknowledged.
AckedMemory(r) ==
  /\ \A a \in Concerned(r) : Lists(mem[r].rel, a)
  /\ pc[r] = "reading" =>
       \A a \in Concerned(r), arch \in DOMAIN mem[r].mans :
         a.index = <<TargetComp(job[r]), arch>> => a.pkg \in Listed(mem[r].mans[arch])

AckedRun(r) ==
  /\ r \in Active => Superseded(job[r]) = {}
  /\ pc[r] \in {"idle", "getSource", "getRelease"} => mem[r].mans = EmptyMap
  /\ pc[r] \in {"reading", "publishing", "releasing"} /\ job[r].op \in Writers => AckedMemory(r)

AckedInv == AckedStored /\ \A r \in Run : AckedRun(r)

\* What concerns a writer: the objects and the acknowledged packages of its codename.
Undisturbed(s) ==
  LET c == Target(job[s])
  IN /\ repo'.release[c] = repo.release[c]
     /\ \A i : IndexAt(c, i)' = IndexAt(c, i)
     /\ \A a \in acked' : a.codename = c => a \in acked

LEMMA UndisturbedKeepsRun ==
  ASSUME Typed, NEW s \in Run, AckedRun(s), SameWork(s),
         s \in Active /\ job[s].op \in Writers => Undisturbed(s)
  PROVE  AckedRun(s)'
<1>1. /\ pc'[s] = pc[s] /\ job'[s] = job[s] /\ mem'[s].rel = mem[s].rel
      /\ mem'[s].todo = mem[s].todo /\ mem'[s].mans = mem[s].mans
  BY DEF SameWork, Fields
<1>2. s \in Active' <=> s \in Active
  BY <1>1 DEF Active
<1>3. ASSUME s \in Active, NEW a \in Superseded(job[s])'
      PROVE  FALSE
  <2>1. job[s].op \in Writers /\ a.codename = Target(job[s]) /\ a \in acked'
    BY <1>1 DEF Superseded, Writers, Target
  <2>2. a \in acked
    BY <1>3, <2>1 DEF Undisturbed
  <2>3. a \in Superseded(job[s])
    BY <1>1, <2>2 DEF Superseded
  <2> QED
    BY <1>3, <2>3 DEF AckedRun
<1>4. pc[s] \in {"reading", "publishing", "releasing"} => s \in Active
  BY DEF Active, Ended
<1>5. pc[s] \in {"publishing", "releasing"} => job[s].op \in Writers
  BY DEF Typed, GoodRun, Work
<1>6. ASSUME Undisturbed(s), AckedMemory(s)
      PROVE  AckedMemory(s)'
  BY <1>1, <1>6 DEF Undisturbed, AckedMemory, Concerned, Lists, Listed
<1> QED
  BY <1>1, <1>2, <1>3, <1>4, <1>5, <1>6 DEF AckedRun, Undisturbed

\* A step that publishes nothing.
LEMMA QuietKeepsAcked ==
  ASSUME Typed, AckedInv, NEW r \in Run, OwnStep(r), acked' \subseteq acked,
         repo'.release = repo.release, repo'.index = repo.index, AckedRun(r)'
  PROVE  AckedInv'
<1>1. \A c, i : IndexAt(c, i)' = IndexAt(c, i)
  BY DEF IndexAt
<1>2. AckedStored'
  BY <1>1 DEF AckedInv, AckedStored, Lists
<1>3. ASSUME NEW s \in Run, s # r
      PROVE  AckedRun(s)'
  <2>1. SameWork(s) /\ job'[s] = job[s]
    BY <1>3 DEF OwnStep, SameWork
  <2>2. Undisturbed(s)
    BY <1>1, <2>1 DEF Undisturbed, Target
  <2> QED
    BY <2>1, <2>2, UndisturbedKeepsRun DEF AckedInv
<1> QED
  BY <1>2, <1>3 DEF AckedInv

LEMMA EndsKeepAcked ==
  ASSUME Typed, AckedInv, NEW r \in Run, OwnStep(r), NEW label \in Ended, Ends(r, label),
         UNCHANGED <<repo, acked>>
  PROVE  AckedInv'
<1>1. pc'[r] = label
  BY DEF Ends, Goto, Typed
<1>2. AckedRun(r)'
  BY <1>1 DEF AckedRun, Active, Ended
<1> QED
  BY <1>2, QuietKeepsAcked

\* A step of a writer, which changes nothing of another codename.
LEMMA WritingKeepsAcked ==
  ASSUME Inv, Typed, WritersLocked, AckedInv, NEW r \in Active, OwnStep(r), job[r].op \in Writers,
         \A c \in Codename : c # Target(job[r]) => repo'.release[c] = repo.release[c],
         \A c, i : c # Target(job[r]) => IndexAt(c, i)' = IndexAt(c, i),
         \A a \in acked' : a \in acked \/ a.codename = Target(job[r]),
         AckedStored', AckedRun(r)'
  PROVE  AckedInv'
<1>1. ASSUME NEW s \in Run, s # r
      PROVE  AckedRun(s)'
  <2>1. ASSUME s \in Active, job[s].op \in Writers
        PROVE  Undisturbed(s)
    <3>1. Target(job[s]) # Target(job[r]) /\ Target(job[s]) \in Codename
      BY <1>1, <2>1, WritersApart, JobsAssumption DEF Typed, GoodRun, Active, TakeTurns
    <3>2. job'[s] = job[s]
      BY <1>1 DEF OwnStep, SameWork
    <3>3. Target(job'[s]) = Target(job[s])
      BY <3>2
    <3> QED
      BY <3>1, <3>3 DEF Undisturbed
  <2> QED
    BY <1>1, <2>1, UndisturbedKeepsRun DEF AckedInv, OwnStep
<1> QED
  BY <1>1 DEF AckedInv

LEMMA ReadingKeepsAcked ==
  ASSUME Typed, AckedInv, NEW r \in Run, OwnStep(r),
         Start(r) \/ GetSource(r) \/ GetRelease(r) \/ GetManifest(r) \/ HeadBody(r) \/ Answer(r)
  PROVE  AckedInv'
<1>1. UNCHANGED repo
  BY DEF Start, GetSource, GetRelease, GetManifest, HeadBody, Answer
<1>2. CASE Start(r)
  <2>1. PICK j \in Jobs : StartsWith(r, j)
    BY <1>2, StartsWithAJob
  <2>2. Superseded(j)' = {}
    BY <2>1 DEF Superseded, StartsWith
  <2>3. AckedRun(r)'
    BY <2>1, <2>2 DEF AckedRun, AckedInv, StartsWith, Writers, Fields, Superseded
  <2> QED
    BY <1>1, <2>1, <2>3, QuietKeepsAcked DEF StartsWith
<1> DEFINE j == job[r]
<1>3. ASSUME ~Start(r)
      PROVE  /\ acked' = acked /\ pc[r] # "idle" /\ job'[r] = j /\ r \in Active
             /\ Superseded(j) = {} /\ Superseded(job[r])' = {}
             /\ AckedRun(r)
  <2>1. acked' = acked /\ pc[r] \in {"getSource", "getRelease", "reading"}
    BY <1>3 DEF GetSource, GetRelease, GetManifest, HeadBody, Answer, Read
  <2>2. job'[r] = j /\ r \in Active /\ AckedRun(r)
    BY <2>1 DEF OwnStep, Active, Ended, AckedInv
  <2> QED
    BY <2>1, <2>2 DEF AckedRun, Superseded
<1>4. CASE GetSource(r)
  <2>1. pc[r] = "getSource" /\ pc'[r] = "getRelease" /\ mem'[r].mans = mem[r].mans
    BY <1>4 DEF GetSource, Goto, Remember, Typed, GoodRun, GoodMemory, Fields
  <2>2. pc[r] # "idle"
    BY <2>1
  <2>3. ~Start(r)
    BY <2>2 DEF Start
  <2>4. AckedRun(r)'
    BY <1>3, <2>1, <2>3 DEF AckedRun
  <2> QED
    BY <1>1, <1>3, <2>3, <2>4, QuietKeepsAcked
<1>5. CASE GetRelease(r)
  <2> DEFINE stored == repo.release[Target(j)]
             found == IF stored = None THEN EmptyRelease ELSE stored
             rel == [found EXCEPT !.byHash = IF j.byHash = Unset THEN @ ELSE j.byHash]
  <2>1. /\ mem'[r].rel = rel /\ mem'[r].mans = mem[r].mans
        /\ pc[r] = "getRelease" /\ pc'[r] = "reading"
    BY <1>5 DEF GetRelease, Goto, Remember, Typed, GoodRun, GoodMemory, Fields
  <2>2. ~Start(r)
    BY <2>1 DEF Start
  <2>3. mem'[r].mans = EmptyMap
    BY <1>3, <2>1, <2>2 DEF AckedRun
  <2>4. rel.files = found.files
    <3>1. "files" \in DOMAIN found
      BY <1>3, <2>2, EmptyReleaseIsGood, JobsAssumption DEF Typed, GoodRun, Stored, GoodRelease, IsRelease
    <3> HIDE DEF found
    <3> QED
      BY <3>1
  <2>5. \A a \in Concerned(r) : Lists(rel, a)
    BY <2>4 DEF AckedInv, AckedStored, Concerned, Lists
  <2> HIDE DEF rel
  <2>6. AckedMemory(r)'
    BY <1>3, <2>1, <2>2, <2>3, <2>5 DEF AckedMemory, Concerned, EmptyMap, Lists
  <2>7. AckedRun(r)'
    BY <1>3, <2>1, <2>2, <2>6 DEF AckedRun
  <2> QED
    BY <1>1, <1>3, <2>2, <2>7, QuietKeepsAcked
<1>6. CASE GetManifest(r)
  <2> DEFINE arch == Head(mem[r].todo).arch
             content == IndexAt(Target(j), <<TargetComp(j), arch>>)
  <2>1. pc[r] = "reading" /\ pc' = pc
    BY <1>6 DEF GetManifest
  <2>2. ~Start(r)
    BY <2>1 DEF Start
  <2>3. mem'[r].mans = With(mem[r].mans, arch, content) /\ mem'[r].rel = mem[r].rel
    BY <1>6, ManifestIsRead DEF Fields
  <2>4. \A a \in Concerned(r) : a.index = <<TargetComp(j), arch>> => a.pkg \in Listed(content)
    BY DEF AckedInv, AckedStored, Concerned
  <2> HIDE DEF arch, content
  <2>5. ASSUME AckedMemory(r)
        PROVE  AckedMemory(r)'
    BY <1>3, <2>1, <2>2, <2>3, <2>4, <2>5 DEF AckedMemory, Concerned, Lists, With
  <2>6. AckedRun(r)'
    BY <1>3, <2>1, <2>2, <2>5 DEF AckedRun
  <2> QED
    BY <1>1, <1>3, <2>2, <2>6, QuietKeepsAcked
<1>7. CASE HeadBody(r)
  <2>1. pc[r] = "reading" /\ pc' = pc /\ mem'[r].mans = mem[r].mans /\ mem'[r].rel = mem[r].rel
    BY <1>7, BodyIsAskedFor DEF HeadBody, Fields
  <2>2. ~Start(r)
    BY <2>1 DEF Start
  <2>3. ASSUME AckedMemory(r)
        PROVE  AckedMemory(r)'
    BY <1>3, <2>1, <2>2, <2>3 DEF AckedMemory, Concerned, Lists
  <2>4. AckedRun(r)'
    BY <1>3, <2>1, <2>2, <2>3 DEF AckedRun
  <2> QED
    BY <1>1, <1>3, <2>2, <2>4, QuietKeepsAcked
<1>8. CASE Answer(r)
  BY <1>8, EndsKeepAcked DEF Answer, Ended
<1> QED
  BY <1>2, <1>4, <1>5, <1>6, <1>7, <1>8

\* A publication takes no acknowledged package out of the manifests it has read
\* but what its command is asked to remove, which is none.
LEMMA NothingAckedRemoved ==
  ASSUME NEW r \in Run, Superseded(job[r]) = {}, NEW a \in Concerned(r), NEW arch,
         a.index = <<TargetComp(job[r]), arch>>,
         arch \in Wanted(job[r], mem[r].rel), job[r].op \in Writers,
         NEW e, e.pkg = a.pkg
  PROVE  RemovedBy(job[r], mem[r], arch, e) => job[r].op = "verify"
<1> DEFINE j == job[r]
<1>1. a \in acked /\ a.codename = Target(j) /\ a.index[1] = TargetComp(j) /\ a.index[2] = arch
  BY DEF Concerned
<1>2. CASE j.op = "upload"
  <2>1. ASSUME NEW p \in UploadedTo(j, arch), Replaces(e, Entry(j.codename, p), j.preserve)
        PROVE  FALSE
    <3>1. PICK n \in DOMAIN j.files : j.files[n] = p
      BY <2>1 DEF UploadedTo, EntriesOf
    <3>2. Replaces(a, [pkg |-> j.files[n]], j.preserve) /\ UploadArch(j, j.files[n]) \in {AllArch, a.index[2]}
      BY <1>1, <2>1, <3>1 DEF Replaces, Entry, UploadedTo
    <3>3. a \in Superseded(j)
      BY <1>1, <1>2, <3>2 DEF Superseded, Target, TargetComp
    <3> QED
      BY <3>3
  <2> QED
    BY <1>2, <2>1 DEF RemovedBy, AddedTo
<1>3. CASE j.op = "copy"
  <2>1. ASSUME NEW x, Selected(x, j.name, j.versions), Replaces(e, x, j.preserve)
        PROVE  FALSE
    <3>1. a.pkg.name = j.name
      BY <2>1 DEF Selected, Replaces
    <3>2. arch = j.arch
      BY <1>3, SingletonIsList DEF Wanted, ArchsToRead
    <3>3. a \in Superseded(j)
      BY <1>1, <1>3, <3>1, <3>2 DEF Superseded, Target, TargetComp
    <3> QED
      BY <3>3
  <2> QED
    BY <1>3, <2>1 DEF RemovedBy, AddedTo
<1>4. CASE j.op = "delete"
  <2>1. j.arch \in {AllArch, arch}
    BY <1>4, SingletonIsList DEF Wanted, ArchsToRead
  <2>2. ASSUME Selected(e, j.name, j.versions)
        PROVE  FALSE
    <3>1. a \in Superseded(j)
      BY <1>1, <1>4, <2>1, <2>2 DEF Superseded, Selected, Target, TargetComp
    <3> QED
      BY <3>1
  <2> QED
    BY <1>4, <2>2 DEF RemovedBy
<1> QED
  BY <1>2, <1>3, <1>4 DEF Writers

LEMMA PrepareKeepsAcked ==
  ASSUME Typed, WritersLocked, AckedInv, NEW r \in Run, OwnStep(r),
         PrepareUpload(r) \/ PrepareCopy(r) \/ PrepareDelete(r) \/ PrepareVerify(r)
  PROVE  AckedInv'
<1>1. Read(r) /\ job[r].op \in Writers /\ UNCHANGED <<repo, job, acked>>
  BY PreparePublishes
<1>2. CASE Ends(r, "failed") \/ Ends(r, "done")
  BY <1>1, <1>2, EndsKeepAcked DEF Ended
<1>3. ASSUME NEW rel, NEW archs, NEW mans, Publication(r, rel, archs, mans)
      PROVE  AckedInv'
  <2> DEFINE j == job[r]
             m == mem[r]
             updated == {TargetComp(j)} \X archs
             fresh == updated \cup (DOMAIN rel.files \ DOMAIN m.rel.files)
  <2>1. PICK requests :
          /\ Publish(r, requests, rel)
          /\ Completes(rel, m.rel, updated, mans)
          /\ EntriesOf(requests) = Bodies(j, UploadedBodies(j)) \cup Indexes(Target(j), fresh, rel)
    BY <1>3 DEF Publication, Publishes
  <2>2. mem'[r].todo = requests /\ mem'[r].rel = rel /\ pc'[r] = "publishing"
    BY <2>1 DEF Publish, Goto, Remember, Typed, GoodRun, GoodMemory, Fields
  <2>3. r \in Active /\ pc[r] = "reading" /\ Superseded(j) = {} /\ AckedMemory(r)
    BY <1>1 DEF AckedInv, AckedRun, Read, Active, Ended
  <2>4. j.op # "verify"
    <3>1. j \in Jobs /\ LockOf(j) # None
      BY <1>1, ReadIsComplete DEF WritersLocked
    <3>2. j.op = "verify" => LockOf(j) = None
      BY DEF LockOf
    <3> QED
      BY <3>1, <3>2
  <2>5. ASSUME NEW a \in Concerned(r)
        PROVE  Lists(rel, a)
    <3>1. Lists(m.rel, a)
      BY <2>3 DEF AckedMemory
    <3>2. a.index \in DOMAIN rel.files
      BY <2>1, <3>1 DEF Lists, Completes
    <3>3. CASE a.index \notin updated
      BY <2>1, <3>1, <3>2, <3>3 DEF Lists, Completes
    <3>4. CASE a.index \in updated
      <4>1. PICK arch \in archs : a.index = <<TargetComp(j), arch>>
        BY <3>4
      <4>2. arch \in Wanted(j, m.rel) /\ Changes(j, m, arch, mans[arch])
        BY <1>3, <4>1 DEF Publication
      <4>3. arch \in DOMAIN m.mans
        BY <1>1, <4>2, ReadIsComplete
      <4>4. a.pkg \in Listed(m.mans[arch])
        BY <2>3, <4>1, <4>3 DEF AckedMemory
      <4>5. PICK e \in EntriesOf(m.mans[arch]) : e.pkg = a.pkg
        BY <4>4 DEF Listed
      <4>6. ~RemovedBy(j, m, arch, e)
        BY <1>1, <2>3, <2>4, <4>1, <4>2, <4>5, NothingAckedRemoved
      <4>7. a.pkg \in Listed(mans[arch])
        BY <4>2, <4>5, <4>6 DEF Changes, Listed
      <4>8. rel.files[a.index] = mans[arch]
        BY <2>1, <3>4, <4>1 DEF Completes
      <4> QED
        BY <3>2, <4>7, <4>8 DEF Lists
    <3> QED
      BY <3>3, <3>4
  <2>6. AckedMemory(r)'
    BY <1>1, <2>2, <2>5 DEF AckedMemory, Concerned, Lists
  <2>7. AckedRun(r)'
    BY <1>1, <2>2, <2>3, <2>6 DEF AckedRun, Superseded
  <2> QED
    BY <1>1, <2>7, QuietKeepsAcked
<1> QED
  BY <1>2, <1>3, PreparePublishes

LEMMA BulkKeepsAcked ==
  ASSUME Inv, Typed, WritersLocked, AckedInv, NEW r \in Run, OwnStep(r),
         SendBody(r) \/ SendByHash(r) \/ SendIndex(r)
  PROVE  AckedInv'
<1>1. pc[r] = "publishing" /\ mem[r].todo # <<>> /\ UNCHANGED acked /\ r \in Active
  BY DEF SendBody, SendByHash, SendIndex, Sending, Sent, Active, Ended
<1>2. /\ job[r].op \in Writers /\ Target(job[r]) \in Codename
      /\ BulkRequest(job[r], mem[r].rel, Request(r))
      /\ AckedRun(r) /\ AckedMemory(r)
  BY <1>1, RequestIsBulk DEF AckedInv, AckedRun
<1>3. CASE Ends(r, "failed") /\ UNCHANGED repo
  BY <1>1, <1>3, EndsKeepAcked DEF Ended
\* The memory of r after a request.
<1>4. ASSUME Sent(r)
      PROVE  AckedRun(r)'
  <2>1. /\ mem'[r].rel = mem[r].rel /\ pc' = pc /\ job' = job
    BY <1>1, <1>4, SentLeaves DEF Fields
  <2>2. AckedMemory(r)'
    BY <1>1, <1>2, <2>1 DEF AckedMemory, Concerned, Lists
  <2> QED
    BY <1>1, <1>2, <1>4, <2>1, <2>2 DEF AckedRun, Superseded
<1>5. ASSUME Sent(r), repo'.index = repo.index, repo'.release = repo.release
      PROVE  AckedInv'
  BY <1>1, <1>4, <1>5, QuietKeepsAcked
<1>6. CASE SendBody(r) /\ Sent(r)
  <2>1. \E pool : repo' = [repo EXCEPT !.pool = pool]
    BY <1>6, <1>1 DEF SendBody, Ends, Sent, Goto, Remember, Typed
  <2> QED
    BY <1>5, <1>6, <2>1 DEF Typed, Stored
<1>7. CASE SendByHash(r)
  <2>1. Sent(r) /\ \E objects : repo' = [repo EXCEPT !.byHash = objects]
    BY <1>7 DEF SendByHash
  <2> QED
    BY <1>5, <2>1 DEF Typed, Stored
<1>8. CASE SendIndex(r)
  <2> DEFINE c == Target(job[r])
             rel == mem[r].rel
  <2>1. PICK i \in DOMAIN rel.files :
          repo' = [repo EXCEPT !.index = With(@, <<c, i>>, rel.files[i])] /\ Sent(r)
    BY <1>8, IndexIsSent
  <2>2. repo'.index = With(repo.index, <<c, i>>, rel.files[i]) /\ repo'.release = repo.release
    BY <2>1 DEF Typed, Stored
  <2>3. /\ \A d, k : <<d, k>> # <<c, i>> => IndexAt(d, k)' = IndexAt(d, k)
        /\ \A d, k : <<d, k>> = <<c, i>> => IndexAt(d, k)' = rel.files[i]
    BY <2>2 DEF IndexAt, With
  <2>4. AckedStored'
    <3> SUFFICES ASSUME NEW a \in acked
                 PROVE  a.pkg \in Listed(IndexAt(a.codename, a.index)')
      BY <1>1, <2>2 DEF AckedInv, AckedStored, Lists, Listed
    <3>1. CASE <<a.codename, a.index>> = <<c, i>>
      <4>1. Lists(rel, a)
        BY <1>2, <3>1 DEF AckedMemory, Concerned
      <4> QED
        BY <2>3, <3>1, <4>1 DEF Lists
    <3>2. CASE <<a.codename, a.index>> # <<c, i>>
      BY <2>3, <3>2 DEF AckedInv, AckedStored
    <3> QED
      BY <3>1, <3>2
  <2>5. AckedRun(r)'
    BY <1>4, <2>1
  <2> QED
    BY <1>1, <1>2, <2>2, <2>3, <2>4, <2>5, WritingKeepsAcked
<1> QED
  BY <1>1, <1>3, <1>6, <1>7, <1>8 DEF SendBody

LEMMA ReleasingKeepsAcked ==
  ASSUME Inv, Typed, WritersLocked, NoneIsNoRelease, SentInv, AckedInv, NEW r \in Run, OwnStep(r),
         BeginRelease(r) \/ Sign(r) \/ SendRelease(r) \/ SendSignature(r)
           \/ DeleteSignature(r) \/ Published(r)
  PROVE  AckedInv'
<1> DEFINE c == Target(job[r])
           rel == mem[r].rel
<1>1. /\ pc[r] \in {"publishing", "releasing"} /\ r \in Active
      /\ job[r] \in Jobs /\ job[r].op \in Writers /\ c \in Codename
      /\ rel # None /\ IsList(mem[r].todo)
  <2>1. pc[r] \in {"publishing", "releasing"}
    BY DEF BeginRelease, Sign, SendRelease, SendSignature, DeleteSignature, Published, Releasing
  <2> QED
    BY <2>1, JobsAssumption DEF Active, Ended, Typed, GoodRun, Work, GoodMemory, NoneIsNoRelease
<1>2. AckedRun(r) /\ AckedMemory(r) /\ Superseded(job[r]) = {}
  BY <1>1 DEF AckedInv, AckedRun
<1>3. CASE BeginRelease(r)
  <2>1. /\ pc[r] = "publishing" /\ mem[r].todo = <<>> /\ pc'[r] = "releasing"
        /\ job' = job /\ repo' = repo /\ acked' = acked
        /\ mem'[r].rel = rel /\ mem'[r].todo = ReleaseRequests(job[r].sign)
    BY <1>3 DEF BeginRelease, Goto, Remember, Typed, GoodRun, GoodMemory, Fields
  <2>2. AckedMemory(r)'
    BY <1>2, <2>1 DEF AckedMemory, Concerned, Lists
  <2>3. AckedRun(r)'
    BY <1>1, <1>2, <2>1, <2>2 DEF AckedRun, Superseded
  <2> QED
    BY <2>1, <2>3, QuietKeepsAcked
<1>4. CASE Ends(r, "unsigned") /\ Sign(r)
  BY <1>4, EndsKeepAcked DEF Ended, Sign, Sent
\* A request of Release.Publish, which changes no index.
<1>5. ASSUME pc[r] = "releasing", Sent(r), mem[r].todo # <<>>, repo'.index = repo.index,
             \A d \in Codename : d # c => repo'.release[d] = repo.release[d],
             repo'.release[c] = IF Request(r) = "putRelease" THEN rel ELSE repo.release[c]
      PROVE  AckedInv'
  <2>1. /\ mem'[r].rel = rel /\ pc' = pc /\ job' = job /\ acked' = acked
        /\ EntriesOf(mem[r].todo) = EntriesOf(mem'[r].todo) \cup {Request(r)}
    BY <1>5, SentLeaves DEF Fields, Sent
  <2>2. \A d, i : IndexAt(d, i)' = IndexAt(d, i)
    BY <1>5 DEF IndexAt
  <2>3. AckedStored'
    <3> SUFFICES ASSUME NEW a \in acked
                 PROVE  repo'.release[a.codename] # None /\ Lists(repo'.release[a.codename], a)
      BY <2>1, <2>2 DEF AckedInv, AckedStored, Lists
    <3>1. CASE a.codename = c
      <4>1. Lists(rel, a)
        BY <1>2, <3>1 DEF AckedMemory, Concerned
      <4> QED
        BY <1>1, <1>5, <3>1, <4>1 DEF AckedInv, AckedStored
    <3>2. CASE a.codename # c
      BY <1>5, <3>2 DEF AckedInv, AckedStored
    <3> QED
      BY <3>1, <3>2
  <2>4. AckedMemory(r)'
    BY <1>2, <1>5, <2>1 DEF AckedMemory, Concerned, Lists
  <2>5. AckedRun(r)'
    BY <1>2, <1>5, <2>1, <2>4 DEF AckedRun, Superseded
  <2> QED
    BY <1>1, <1>5, <2>1, <2>2, <2>3, <2>5, WritingKeepsAcked
<1>6. CASE Sign(r) /\ Sent(r)
  <2>1. Request(r) = "sign"
    BY <1>6 DEF Sign, Releasing, Request
  <2> QED
    BY <1>5, <1>6, <2>1 DEF Sign, Releasing
<1>7. CASE SendRelease(r)
  <2>1. Request(r) = "putRelease"
    BY <1>7 DEF SendRelease, Releasing, Request
  <2>2. repo' = [repo EXCEPT !.release[c] = rel]
    BY <1>7 DEF SendRelease
  <2> QED
    BY <1>1, <1>5, <1>7, <2>1, <2>2 DEF SendRelease, Releasing, Typed, Stored
<1>8. CASE SendSignature(r) \/ DeleteSignature(r)
  <2>1. Request(r) \in {"putGpg", "putInRelease", "deleteGpg", "deleteInRelease"}
    BY <1>8 DEF SendSignature, DeleteSignature, Releasing, Request
  <2>2. repo'.release = repo.release /\ repo'.index = repo.index
    BY <1>8 DEF SendSignature, DeleteSignature, Typed, Stored
  <2> QED
    BY <1>5, <1>8, <2>1, <2>2 DEF SendSignature, DeleteSignature, Releasing
<1>9. CASE Published(r)
  <2>1. /\ pc[r] = "releasing" /\ mem[r].todo = <<>> /\ Ends(r, "done") /\ repo' = repo /\ job' = job
        /\ acked' = IF job[r].op = "upload" THEN acked \cup Uploaded(r) ELSE acked
    BY <1>9 DEF Published
  <2>2. pc'[r] = "done"
    BY <2>1 DEF Ends, Goto, Typed
  <2>3. AckedRun(r)'
    BY <2>2 DEF AckedRun, Active, Ended
  <2>4. repo.release[c] = rel /\ (job[r].op = "upload" => IndexesSent(r, <<>>))
    BY <2>1, EmptyIsList DEF SentInv, SentRun
  <2>5. ASSUME NEW a \in Uploaded(r), job[r].op = "upload"
        PROVE  /\ a.codename = c
               /\ Lists(rel, a) /\ a.pkg \in Listed(IndexAt(c, a.index))
    <3>1. PICK arch \in EntriesOf(rel.archs) :
            \E p \in Listed(rel.files[<<job[r].comp, arch>>]) :
              a = [codename |-> job[r].codename, index |-> <<job[r].comp, arch>>, pkg |-> p]
      BY <2>5 DEF Uploaded
    <3>2. c = job[r].codename /\ TargetComp(job[r]) = job[r].comp
      BY <2>5 DEF Target, TargetComp
    <3>3. /\ <<job[r].comp, arch>> \in DOMAIN rel.files
          /\ IndexAt(c, <<job[r].comp, arch>>) = rel.files[<<job[r].comp, arch>>]
      BY <2>4, <2>5, <3>2, EmptyIsList DEF IndexesSent, Holds, IndexAt
    <3> QED
      BY <3>1, <3>2, <3>3 DEF Lists
  <2>6. AckedStored'
    BY <1>1, <2>1, <2>4, <2>5 DEF AckedInv, AckedStored, Lists, IndexAt
  <2> QED
    BY <1>1, <2>1, <2>3, <2>5, <2>6, WritingKeepsAcked DEF IndexAt
<1> QED
  BY <1>3, <1>4, <1>6, <1>7, <1>8, <1>9 DEF Sign

\* clean changes no index and no Release.
LEMMA CleanKeepsAcked ==
  ASSUME Typed, AckedInv, NEW r \in Run, OwnStep(r),
         ListIndexes(r) \/ ScanIndex(r) \/ ListPool(r) \/ DeleteBody(r) \/ Cleaned(r)
  PROVE  AckedInv'
<1>1. /\ pc[r] \in {"listIndexes", "scan", "sweep"} /\ pc'[r] \in {"scan", "sweep", "done"}
      /\ job' = job /\ acked' = acked
      /\ repo' = repo \/ \E pool : repo' = [repo EXCEPT !.pool = pool]
  BY DEF ListIndexes, ScanIndex, ListPool, DeleteBody, Cleaned, Ends, Goto, Typed
<1>2. repo'.release = repo.release /\ repo'.index = repo.index
  BY <1>1 DEF Typed, Stored
<1>3. r \in Active
  BY <1>1 DEF Active, Ended
<1>4. AckedRun(r)'
  BY <1>1, <1>3 DEF AckedInv, AckedRun, Superseded
<1> QED
  BY <1>1, <1>2, <1>4, QuietKeepsAcked

LEMMA StepKeepsAcked ==
  ASSUME Inv, Typed, WritersLocked, NoneIsNoRelease, SentInv, AckedInv,
         NEW r \in Run, Step(r) \/ Stop(r)
  PROVE  AckedInv'
<1>1. OwnStep(r)
  BY StepIsOwn
<1>2. CASE Start(r) \/ GetSource(r) \/ GetRelease(r) \/ GetManifest(r) \/ HeadBody(r) \/ Answer(r)
  BY <1>1, <1>2, ReadingKeepsAcked
<1>3. CASE PrepareUpload(r) \/ PrepareCopy(r) \/ PrepareDelete(r) \/ PrepareVerify(r)
  BY <1>1, <1>3, PrepareKeepsAcked
<1>4. CASE SendBody(r) \/ SendByHash(r) \/ SendIndex(r)
  BY <1>1, <1>4, BulkKeepsAcked
<1>5. CASE \/ BeginRelease(r) \/ Sign(r) \/ SendRelease(r) \/ SendSignature(r)
           \/ DeleteSignature(r) \/ Published(r)
  BY <1>1, <1>5, ReleasingKeepsAcked
<1>6. CASE ListIndexes(r) \/ ScanIndex(r) \/ ListPool(r) \/ DeleteBody(r) \/ Cleaned(r)
  BY <1>1, <1>6, CleanKeepsAcked
<1>7. CASE Stop(r)
  BY <1>1, <1>7, EndsKeepAcked DEF Stop, Ended
<1> QED
  BY <1>2, <1>3, <1>4, <1>5, <1>6, <1>7 DEF Step

LEMMA StutterKeepsAcked ==
  ASSUME AckedInv, UNCHANGED <<repo, pc, job, mem, acked>>
  PROVE  AckedInv'
<1>1. AckedStored'
  BY DEF AckedInv, AckedStored, Lists, IndexAt
<1>2. \A r \in Run : AckedRun(r)'
  BY DEF AckedInv, AckedRun, AckedMemory, Concerned, Lists, Superseded, Active
<1> QED
  BY <1>1, <1>2 DEF AckedInv

LEMMA AckedAlways ==
  ASSUME WritersLocked, NoneIsNoRelease, InitialRepo = EmptyRepo
  PROVE  Spec => []AckedInv
<1>1. Init => AckedInv
  BY DEF Init, AckedInv, AckedStored, AckedRun, Active, NoMemory
<1>2. Inv /\ Typed /\ SentInv /\ AckedInv /\ [Next]_vars => AckedInv'
  <2> SUFFICES ASSUME Inv, Typed, SentInv, AckedInv, [Next]_vars
               PROVE  AckedInv'
    OBVIOUS
  <2>1. CASE \E r \in Run : Step(r) \/ Stop(r)
    BY <2>1, StepKeepsAcked
  <2>2. CASE ClientFetches \/ AllDone \/ UNCHANGED vars
    BY <2>2, StutterKeepsAcked DEF ClientFetches, AllDone, vars
  <2> QED
    BY <2>1, <2>2 DEF Next
<1>3. TakeTurns
  BY DEF TakeTurns
<1> QED
  BY <1>1, <1>2, <1>3, OrderAlways, TypedAlways, SentAlways, PTL DEF Spec

\* LOCKING.md, "Pass `--lock` to stop two runs from updating the same repository
\* at once": when every command that publishes takes the lock, a package whose
\* upload has finished stays in the Release of its codename until a command is
\* asked to remove or to replace it, however many uploads, copies, deletes and
\* cleans interleave and wherever they stop.
THEOREM AckedIsListed ==
  ASSUME WritersLocked, NoneIsNoRelease, InitialRepo = EmptyRepo
  PROVE  Spec => []AckedListed
<1>1. AckedInv => AckedListed
  BY DEF AckedInv, AckedStored, Lists, AckedListed
<1> QED
  BY <1>1, AckedAlways, PTL

-----------------------------------------------------------------------------
(* Every entry has its body.                                               *)

\* clean takes the lock too, a copy stays in its codename, and an upload sends its
\* bodies and is refused if one of them is there with other bytes.
BodiesGuarded ==
  \A j \in Jobs :
    /\ j.op = "clean" => LockOf(j) = j.codename /\ LockOf(j) # None
    /\ j.op = "copy" => j.to = j.codename
    /\ j.op = "upload" => j.failIfExists = TRUE /\ ~j.skipUpload

HasBody(e) == e.file \in DOMAIN repo.pool /\ repo.pool[e.file] = e.pkg

\* An entry of the indexes of a codename, for a package of its own pool ...
Home(c, e) == e.file = PoolFile(c, e.pkg)

\* ... whose body is there.
Sound(c, e) == Home(c, e) /\ HasBody(e)

SoundStore ==
  \A key \in DOMAIN repo.index : \A e \in EntriesOf(repo.index[key]) : Sound(key[1], e)

\* What a writer has read is sound, and what it sends it sends after the bodies.
SoundWriter(r) ==
  LET j == job[r]
      m == mem[r]
  IN /\ pc[r] \in {"getRelease", "reading"} /\ j.op = "copy" =>
          \A e \in EntriesOf(m.picked) : Sound(Target(j), e)
     /\ pc[r] = "reading" /\ j.op \in Writers =>
          \A arch \in DOMAIN m.mans : \A e \in EntriesOf(m.mans[arch]) : Sound(Target(j), e)
     /\ pc[r] = "publishing" =>
          \A q \in EntriesOf(m.todo) : q.op = "putIndex" =>
            \A e \in EntriesOf(q.content) :
              Home(Target(j), e) /\ (HasBody(e) \/ PutBody(j, e.pkg) \in EntriesOf(m.todo))

\* clean has seen, or is going to see, every entry of its codename before it
\* deletes, and deletes the body of none.
SoundCleaner(r) ==
  LET c == job[r].codename
      m == mem[r]
  IN /\ pc[r] = "scan" =>
          \A key \in DOMAIN repo.index : key[1] = c =>
            key \in m.left \/ \A e \in EntriesOf(repo.index[key]) : e.file \in m.noted
     /\ pc[r] = "sweep" =>
          /\ \A file \in m.left : file[1] = c
          /\ \A key \in DOMAIN repo.index : key[1] = c =>
               \A e \in EntriesOf(repo.index[key]) : e.file \notin m.left

BodyInv == SoundStore /\ \A r \in Run : SoundWriter(r) /\ SoundCleaner(r)

\* The runs that change a codename, or delete from its pool.
Actor(r) == r \in Active /\ job[r].op \in Writers \cup {"clean"}

LEMMA ActorsApart ==
  ASSUME Inv, Typed, WritersLocked, BodiesGuarded, NEW r \in Run, NEW s \in Run, r # s,
         Actor(r), Actor(s)
  PROVE  Target(job[r]) # Target(job[s])
<1>1. \A q \in {r, s} : LockOf(job[q]) = Target(job[q]) /\ LockOf(job[q]) # None
  BY DEF Typed, GoodRun, WritersLocked, BodiesGuarded, Actor, Active, Target
<1> QED
  BY <1>1 DEF Inv, Exclusive, Actor

\* The indexes of a codename are as they were, and no body of theirs is missing.
Unharmed(c) ==
  /\ \A key : key[1] = c =>
       /\ key \in DOMAIN repo'.index <=> key \in DOMAIN repo.index
       /\ key \in DOMAIN repo.index => repo'.index[key] = repo.index[key]
  /\ \A e : Sound(c, e) => HasBody(e)'

LEMMA UnharmedStaysSound ==
  ASSUME Typed, NEW s \in Run, SoundWriter(s), SoundCleaner(s), SameWork(s),
         Actor(s) => Unharmed(Target(job[s]))
  PROVE  SoundWriter(s)' /\ SoundCleaner(s)'
<1> DEFINE c == Target(job[s])
<1>1. /\ pc'[s] = pc[s] /\ job'[s] = job[s]
      /\ mem'[s].picked = mem[s].picked /\ mem'[s].mans = mem[s].mans /\ mem'[s].todo = mem[s].todo
      /\ mem'[s].left = mem[s].left /\ mem'[s].noted = mem[s].noted
  BY DEF SameWork, Fields
<1>2. CASE pc[s] \in {"getRelease", "reading"} /\ job[s].op \in Writers
  <2>1. Actor(s)
    BY <1>2 DEF Actor, Active, Ended
  <2>2. \A e : Sound(c, e) => Home(c, e) /\ HasBody(e)'
    BY <2>1 DEF Unharmed, Sound
  <2>3. SoundWriter(s)'
    BY <1>1, <1>2, <2>2 DEF SoundWriter, Sound, Home
  <2> QED
    BY <1>1, <1>2, <2>3 DEF SoundCleaner
<1>3. CASE pc[s] = "publishing"
  <2>1. Actor(s)
    BY <1>3 DEF Actor, Active, Ended, Typed, GoodRun, Work
  <2>2. \A e : Home(c, e) /\ HasBody(e) => HasBody(e)'
    BY <2>1 DEF Unharmed, Sound
  <2>3. SoundWriter(s)'
    BY <1>1, <1>3, <2>2 DEF SoundWriter, Home
  <2> QED
    BY <1>1, <1>3, <2>3 DEF SoundCleaner
<1>4. CASE pc[s] \in {"scan", "sweep"}
  <2>1. Actor(s) /\ c = job[s].codename
    BY <1>4 DEF Actor, Active, Ended, Typed, GoodRun, Work, Target
  <2>2. \A key : key[1] = c =>
          /\ key \in DOMAIN repo'.index <=> key \in DOMAIN repo.index
          /\ key \in DOMAIN repo.index => repo'.index[key] = repo.index[key]
    BY <2>1 DEF Unharmed
  <2>3. SoundCleaner(s)'
    BY <1>1, <1>4, <2>1, <2>2 DEF SoundCleaner
  <2> QED
    BY <1>1, <1>4, <2>3 DEF SoundWriter
<1>5. CASE ~(pc[s] \in {"publishing", "scan", "sweep"}) /\ ~(pc[s] \in {"getRelease", "reading"} /\ job[s].op \in Writers)
  BY <1>1, <1>5 DEF SoundWriter, SoundCleaner, Writers
<1> QED
  BY <1>2, <1>3, <1>4, <1>5

\* A step of an actor, which harms no other codename.
LEMMA OwnKeepsSound ==
  ASSUME Inv, Typed, WritersLocked, BodiesGuarded, BodyInv, NEW r \in Run, OwnStep(r),
         SoundStore', SoundWriter(r)', SoundCleaner(r)',
         Actor(r), \A c : c # Target(job[r]) => Unharmed(c)
  PROVE  BodyInv'
<1>1. ASSUME NEW s \in Run, s # r
      PROVE  SoundWriter(s)' /\ SoundCleaner(s)'
  <2>1. Actor(s) => Unharmed(Target(job[s]))
    BY <1>1, ActorsApart
  <2> QED
    BY <1>1, <2>1, UnharmedStaysSound DEF OwnStep, BodyInv
<1> QED
  BY <1>1 DEF BodyInv

\* A step that changes no index and removes or changes no body.
LEMMA QuietKeepsSound ==
  ASSUME Typed, BodyInv, NEW r \in Run, OwnStep(r),
         repo'.index = repo.index, \A e : HasBody(e) => HasBody(e)',
         SoundWriter(r)', SoundCleaner(r)'
  PROVE  BodyInv'
<1>1. \A c : Unharmed(c)
  BY DEF Unharmed, Sound
<1>2. SoundStore'
  BY DEF BodyInv, SoundStore, Sound
<1>3. ASSUME NEW s \in Run, s # r
      PROVE  SoundWriter(s)' /\ SoundCleaner(s)'
  BY <1>1, <1>3, UnharmedStaysSound DEF OwnStep, BodyInv
<1> QED
  BY <1>2, <1>3 DEF BodyInv

LEMMA IdlingIsSound ==
  ASSUME NEW r, pc'[r] \notin {"getRelease", "reading", "publishing", "scan", "sweep"}
  PROVE  SoundWriter(r)' /\ SoundCleaner(r)'
BY DEF SoundWriter, SoundCleaner

LEMMA EndsKeepSound ==
  ASSUME Typed, BodyInv, NEW r \in Run, OwnStep(r), NEW label \in Ended, Ends(r, label),
         UNCHANGED repo
  PROVE  BodyInv'
<1>1. pc'[r] = label
  BY DEF Ends, Goto, Typed
<1>2. \A e : HasBody(e) => HasBody(e)'
  BY DEF HasBody
<1> QED
  BY <1>1, <1>2, IdlingIsSound, QuietKeepsSound DEF Ended

LEMMA ReadingKeepsSound ==
  ASSUME Typed, BodiesGuarded, AckedInv, BodyInv, NEW r \in Run, OwnStep(r),
         Start(r) \/ GetSource(r) \/ GetRelease(r) \/ GetManifest(r) \/ HeadBody(r) \/ Answer(r)
  PROVE  BodyInv'
<1> DEFINE j == job[r]
           c == Target(j)
<1>1. UNCHANGED repo
  BY DEF Start, GetSource, GetRelease, GetManifest, HeadBody, Answer
<1>2. \A e : HasBody(e)' <=> HasBody(e)
  BY <1>1 DEF HasBody
<1>3. \A i : \A e \in EntriesOf(IndexAt(c, i)) : Sound(c, e)
  <2> SUFFICES ASSUME NEW i, NEW e \in EntriesOf(IndexAt(c, i))
               PROVE  Sound(c, e)
    OBVIOUS
  <2>1. <<c, i>> \in DOMAIN repo.index /\ IndexAt(c, i) = repo.index[<<c, i>>]
    BY EmptyIsList DEF IndexAt
  <2>2. Sound(<<c, i>>[1], e)
    BY <2>1 DEF BodyInv, SoundStore
  <2> QED
    BY <2>2
<1>4. CASE Start(r)
  <2>1. PICK k \in Jobs : StartsWith(r, k)
    BY <1>4, StartsWithAJob
  <2>2. SoundWriter(r)' /\ SoundCleaner(r)'
    BY <2>1 DEF StartsWith, SoundWriter, SoundCleaner, Writers
  <2> QED
    BY <1>1, <1>2, <2>2, QuietKeepsSound
\* Once a run has started it keeps its command.
<1>5. ASSUME ~Start(r)
      PROVE  job'[r] = j /\ pc[r] # "idle" /\ j \in Jobs
  <2>1. pc[r] \in {"getSource", "getRelease", "reading"}
    BY <1>5 DEF GetSource, GetRelease, GetManifest, HeadBody, Answer, Read
  <2> QED
    BY <2>1 DEF OwnStep, Typed, GoodRun
<1>6. CASE GetSource(r)
  <2>1. /\ pc[r] = "getSource" /\ pc'[r] = "getRelease"
        /\ mem'[r].picked = IndexAt(j.codename, <<j.comp, j.arch>>)
    BY <1>6 DEF GetSource, Goto, Remember, Typed, GoodRun, GoodMemory, Fields
  <2>2. ~Start(r)
    BY <2>1 DEF Start
  <2>3. j.op = "copy" /\ j.codename = c
    BY <1>5, <2>1, <2>2 DEF Typed, GoodRun, Work, BodiesGuarded, Target
  <2>4. \A e \in EntriesOf(mem'[r].picked) : Sound(c, e)
    BY <1>3, <2>1, <2>3
  <2>5. SoundWriter(r)' /\ SoundCleaner(r)'
    BY <1>2, <1>5, <2>1, <2>2, <2>4 DEF SoundWriter, SoundCleaner, Sound, Home
  <2> QED
    BY <1>1, <1>2, <2>5, QuietKeepsSound
<1>7. CASE GetRelease(r)
  <2>1. /\ pc[r] = "getRelease" /\ pc'[r] = "reading"
        /\ mem'[r].picked = mem[r].picked /\ mem'[r].mans = mem[r].mans
    BY <1>7 DEF GetRelease, Goto, Remember, Typed, GoodRun, GoodMemory, Fields
  <2>2. ~Start(r)
    BY <2>1 DEF Start
  <2>3. mem'[r].mans = EmptyMap
    BY <2>1 DEF AckedInv, AckedRun
  <2>4. SoundWriter(r)
    BY DEF BodyInv
  <2>5. SoundWriter(r)' /\ SoundCleaner(r)'
    BY <1>2, <1>5, <2>1, <2>2, <2>3, <2>4 DEF SoundWriter, SoundCleaner, Sound, Home, EmptyMap
  <2> QED
    BY <1>1, <1>2, <2>5, QuietKeepsSound
<1>8. CASE GetManifest(r)
  <2> DEFINE arch == Head(mem[r].todo).arch
             content == IndexAt(c, <<TargetComp(j), arch>>)
  <2>1. pc[r] = "reading" /\ pc' = pc
    BY <1>8 DEF GetManifest
  <2>2. ~Start(r)
    BY <2>1 DEF Start
  <2>3. mem'[r].mans = With(mem[r].mans, arch, content) /\ mem'[r].picked = mem[r].picked
    BY <1>8, ManifestIsRead DEF Fields
  <2>4. \A e \in EntriesOf(content) : Sound(c, e)
    BY <1>3
  <2>5. SoundWriter(r)
    BY DEF BodyInv
  <2> HIDE DEF arch, content
  <2>6. SoundWriter(r)' /\ SoundCleaner(r)'
    BY <1>2, <1>5, <2>1, <2>2, <2>3, <2>4, <2>5 DEF SoundWriter, SoundCleaner, Sound, Home, With
  <2> QED
    BY <1>1, <1>2, <2>6, QuietKeepsSound
<1>9. CASE HeadBody(r)
  <2>1. pc[r] = "reading" /\ pc' = pc /\ mem'[r].mans = mem[r].mans /\ mem'[r].picked = mem[r].picked
    BY <1>9, BodyIsAskedFor DEF HeadBody, Fields
  <2>2. ~Start(r)
    BY <2>1 DEF Start
  <2>3. SoundWriter(r)
    BY DEF BodyInv
  <2>4. SoundWriter(r)' /\ SoundCleaner(r)'
    BY <1>2, <1>5, <2>1, <2>2, <2>3 DEF SoundWriter, SoundCleaner, Sound, Home
  <2> QED
    BY <1>1, <1>2, <2>4, QuietKeepsSound
<1>10. CASE Answer(r)
  BY <1>1, <1>10, EndsKeepSound DEF Answer, Ended
<1> QED
  BY <1>4, <1>6, <1>7, <1>8, <1>9, <1>10

\* What a command adds to a manifest is sound, or its body is sent first.
LEMMA AddedIsSound ==
  ASSUME BodiesGuarded, NEW j \in Jobs, NEW m, NEW a, NEW e \in AddedTo(j, m, a),
         j.op = "copy" => \A x \in EntriesOf(m.picked) : Sound(Target(j), x)
  PROVE  /\ Home(Target(j), e)
         /\ HasBody(e) \/ e.pkg \in UploadedBodies(j)
<1>1. CASE j.op = "upload"
  <2>1. PICK p \in UploadedTo(j, a) : e = Entry(j.codename, p)
    BY <1>1 DEF AddedTo
  <2>2. e.pkg = p /\ e.file = PoolFile(j.codename, p) /\ Target(j) = j.codename
    BY <1>1, <2>1 DEF Entry, Target
  <2>3. p \in UploadedBodies(j)
    BY <1>1, <2>1 DEF UploadedTo, UploadedBodies, BodiesGuarded
  <2> QED
    BY <2>2, <2>3 DEF Home
<1>2. CASE j.op # "upload"
  BY <1>2 DEF AddedTo, Sound
<1> QED
  BY <1>1, <1>2

LEMMA PrepareKeepsSound ==
  ASSUME Typed, BodiesGuarded, BodyInv, NEW r \in Run, OwnStep(r),
         PrepareUpload(r) \/ PrepareCopy(r) \/ PrepareDelete(r) \/ PrepareVerify(r)
  PROVE  BodyInv'
<1>1. Read(r) /\ job[r].op \in Writers /\ UNCHANGED <<repo, job>>
  BY PreparePublishes
<1>2. CASE Ends(r, "failed") \/ Ends(r, "done")
  BY <1>1, <1>2, EndsKeepSound DEF Ended
<1>3. ASSUME NEW rel, NEW archs, NEW mans, Publication(r, rel, archs, mans)
      PROVE  BodyInv'
  <2> DEFINE j == job[r]
             c == Target(j)
             m == mem[r]
             updated == {TargetComp(j)} \X archs
             fresh == updated \cup (DOMAIN rel.files \ DOMAIN m.rel.files)
  <2>1. PICK requests :
          /\ Publish(r, requests, rel)
          /\ Completes(rel, m.rel, updated, mans)
          /\ EntriesOf(requests) = Bodies(j, UploadedBodies(j)) \cup Indexes(c, fresh, rel)
    BY <1>3 DEF Publication, Publishes
  <2>2. mem'[r].todo = requests /\ pc'[r] = "publishing"
    BY <2>1 DEF Publish, Goto, Remember, Typed, GoodRun, GoodMemory, Fields
  <2>3. j \in Jobs /\ SoundWriter(r) /\ pc[r] = "reading"
    BY <1>1, ReadIsComplete DEF BodyInv, Read
  <2>4. ASSUME NEW e, e.pkg \in UploadedBodies(j)
        PROVE  PutBody(j, e.pkg) \in EntriesOf(requests)
    BY <2>1, <2>4 DEF Bodies
  <2>5. ASSUME NEW a \in archs, NEW e \in EntriesOf(mans[a])
        PROVE  Home(c, e) /\ (HasBody(e) \/ PutBody(j, e.pkg) \in EntriesOf(requests))
    <3>1. a \in Wanted(j, m.rel) /\ Changes(j, m, a, mans[a])
      BY <1>3 DEF Publication
    <3>2. a \in DOMAIN m.mans
      BY <1>1, <3>1, ReadIsComplete
    <3>3. CASE e \in EntriesOf(m.mans[a])
      BY <1>1, <2>3, <3>2, <3>3 DEF SoundWriter, Sound
    <3>4. CASE e \in AddedTo(j, m, a)
      BY <2>3, <2>4, <3>4, AddedIsSound DEF SoundWriter
    <3> QED
      BY <3>1, <3>3, <3>4 DEF Changes
  <2>6. ASSUME NEW i \in fresh, NEW e \in EntriesOf(rel.files[i])
        PROVE  Home(c, e) /\ (HasBody(e) \/ PutBody(j, e.pkg) \in EntriesOf(requests))
    <3>1. CASE i \in updated
      <4>1. i[2] \in archs /\ rel.files[i] = mans[i[2]]
        BY <2>1, <3>1 DEF Completes
      <4> QED
        BY <2>5, <2>6, <4>1
    <3>2. CASE i \notin updated
      <4>1. rel.files[i] = <<>>
        BY <2>1, <3>2 DEF Completes
      <4> QED
        BY <2>6, <4>1, EmptyIsList
    <3> QED
      BY <3>1, <3>2
  <2>7. ASSUME NEW q \in EntriesOf(requests), q.op = "putIndex"
        PROVE  \E i \in fresh : q.content = rel.files[i]
    BY <2>1, <2>7 DEF Bodies, PutBody, Indexes, PutIndex, PutByHash
  <2> HIDE DEF fresh
  <2>8. \A e : HasBody(e)' <=> HasBody(e)
    BY <1>1 DEF HasBody
  <2>9. \A q \in EntriesOf(requests) : q.op = "putIndex" =>
          \A e \in EntriesOf(q.content) :
            Home(c, e) /\ (HasBody(e) \/ PutBody(j, e.pkg) \in EntriesOf(requests))
    BY <2>6, <2>7
  <2>10. SoundWriter(r)' /\ SoundCleaner(r)'
    BY <1>1, <2>2, <2>8, <2>9 DEF SoundWriter, SoundCleaner, Home
  <2> QED
    BY <1>1, <2>8, <2>10, QuietKeepsSound
<1> QED
  BY <1>2, <1>3, PreparePublishes

LEMMA BulkKeepsSound ==
  ASSUME Inv, Typed, WritersLocked, BodiesGuarded, BodyInv, NEW r \in Run, OwnStep(r),
         SendBody(r) \/ SendByHash(r) \/ SendIndex(r)
  PROVE  BodyInv'
<1> DEFINE j == job[r]
           c == Target(j)
           q == Request(r)
           todo == mem[r].todo
<1>1. /\ pc[r] = "publishing" /\ todo # <<>> /\ j \in Jobs /\ j.op \in Writers
      /\ BulkRequest(j, mem[r].rel, q) /\ Actor(r)
      /\ BodiesFirst(todo) /\ IsList(todo) /\ DOMAIN repo = DOMAIN EmptyRepo
  <2>1. pc[r] = "publishing" /\ todo # <<>>
    BY DEF SendBody, SendByHash, SendIndex, Sending
  <2> QED
    BY <2>1, RequestIsBulk DEF Actor, Active, Ended, Typed, Stored, GoodRun, GoodMemory, EmptyRepo
<1>2. \A x \in EntriesOf(todo) : x.op = "putIndex" =>
        \A e \in EntriesOf(x.content) :
          Home(c, e) /\ (HasBody(e) \/ PutBody(j, e.pkg) \in EntriesOf(todo))
  BY <1>1 DEF BodyInv, SoundWriter
\* What is left to send stays sound if the request that is sent is no body, or
\* if it leaves its body in the pool.
<1>3. ASSUME Sent(r), \A e : HasBody(e) => HasBody(e)',
             \A e : PutBody(j, e.pkg) = q /\ Home(c, e) => HasBody(e)'
      PROVE  SoundWriter(r)' /\ SoundCleaner(r)'
  <2>1. /\ mem'[r].todo = Tail(todo) /\ pc' = pc /\ job' = job
        /\ EntriesOf(todo) = EntriesOf(mem'[r].todo) \cup {q}
    BY <1>1, <1>3, SentLeaves
  <2>2. ASSUME NEW x \in EntriesOf(mem'[r].todo), x.op = "putIndex", NEW e \in EntriesOf(x.content)
        PROVE  Home(c, e) /\ (HasBody(e)' \/ PutBody(j, e.pkg) \in EntriesOf(mem'[r].todo))
    BY <1>2, <1>3, <2>1, <2>2
  <2> QED
    BY <1>1, <2>1, <2>2 DEF SoundWriter, SoundCleaner, Home
<1>4. CASE SendBody(r) /\ Ends(r, "failed")
  <2>1. UNCHANGED repo
    BY <1>1, <1>4 DEF SendBody, Ends, Sent, Goto, Typed
  <2> QED
    BY <1>4, <2>1, EndsKeepSound DEF Ended
<1>5. CASE SendBody(r) /\ ~Ends(r, "failed")
  <2>1. /\ q.op = "putBody" /\ Sent(r)
        /\ ~(q.failIfExists /\ q.file \in DOMAIN repo.pool /\ repo.pool[q.file] # q.body)
        /\ repo' = [repo EXCEPT !.pool = With(@, q.file, q.body)]
    BY <1>5 DEF SendBody, Sending, Request
  <2>2. j.op = "upload" /\ \E p \in EntriesOf(j.files) : q = PutBody(j, p)
    BY <1>1, <2>1 DEF BulkRequest, Bodies, PutIndex, PutByHash
  <2>3. PICK p \in EntriesOf(j.files) : q = PutBody(j, p)
    BY <2>2
  <2>4. q.failIfExists = TRUE /\ q.file = PoolFile(c, p) /\ q.body = p
    BY <1>1, <2>2, <2>3 DEF BodiesGuarded, PutBody, Target
  <2>5. q.file \in DOMAIN repo.pool => repo.pool[q.file] = p
    BY <2>1, <2>4
  <2>6. repo'.pool = With(repo.pool, q.file, p) /\ repo'.index = repo.index
    BY <1>1, <2>1, <2>4 DEF EmptyRepo
  <2>7. \A e : HasBody(e) => HasBody(e)'
    BY <2>5, <2>6 DEF HasBody, With
  <2>8. ASSUME NEW e, PutBody(j, e.pkg) = q, Home(c, e)
        PROVE  HasBody(e)'
    <3>1. e.pkg = p /\ e.file = q.file
      BY <2>3, <2>4, <2>8 DEF PutBody, Home
    <3> QED
      BY <2>6, <3>1 DEF HasBody, With
  <2> QED
    BY <1>3, <2>1, <2>6, <2>7, <2>8, QuietKeepsSound
<1>6. CASE SendByHash(r)
  <2>1. Sent(r) /\ q.op = "putByHash" /\ \E objects : repo' = [repo EXCEPT !.byHash = objects]
    BY <1>6 DEF SendByHash, Sending, Request
  <2>2. repo'.pool = repo.pool /\ repo'.index = repo.index
    BY <1>1, <2>1 DEF EmptyRepo
  <2>3. \A e : HasBody(e) => HasBody(e)'
    BY <2>2 DEF HasBody
  <2>4. \A p : PutBody(j, p) # q
    BY <2>1 DEF PutBody
  <2> QED
    BY <1>3, <2>1, <2>2, <2>3, <2>4, QuietKeepsSound
<1>7. CASE SendIndex(r)
  <2>1. Sent(r) /\ repo' = [repo EXCEPT !.index = With(@, q.key, q.content)] /\ q.op = "putIndex"
    BY <1>7 DEF SendIndex, Sending, Request
  <2>2. q.key[1] = c
    BY <1>1, <2>1 DEF BulkRequest, Bodies, PutBody, PutByHash, PutIndex
  <2>3. repo'.index = With(repo.index, q.key, q.content) /\ repo'.pool = repo.pool
    BY <1>1, <2>1 DEF EmptyRepo
  <2>4. \A e : HasBody(e)' <=> HasBody(e)
    BY <2>3 DEF HasBody
  <2>5. q \in EntriesOf(todo) /\ q = Head(todo)
    BY <1>1, TailEntries DEF Request
\* No body is left to send.
  <2>6. \A p : PutBody(j, p) \notin EntriesOf(todo)
    <3>1. \A x \in EntriesOf(Tail(todo)) : x.op # "putBody"
      BY <1>1, <2>1, <2>5, TailBodiesFirst
    <3>2. EntriesOf(todo) = EntriesOf(Tail(todo)) \cup {q}
      BY <1>1, <2>5, TailEntries
    <3> QED
      BY <2>1, <3>1, <3>2 DEF PutBody
  <2>7. \A e \in EntriesOf(q.content) : Home(c, e) /\ HasBody(e)
    BY <1>2, <2>1, <2>5, <2>6
  <2>8. SoundStore'
    <3> SUFFICES ASSUME NEW key \in DOMAIN repo'.index, NEW e \in EntriesOf(repo'.index[key])
                 PROVE  Home(key[1], e) /\ HasBody(e)
      BY <2>4 DEF SoundStore, Sound, Home
    <3>1. CASE key = q.key
      <4>1. repo'.index[key] = q.content
        BY <2>3, <3>1 DEF With
      <4> QED
        BY <2>2, <2>7, <3>1, <4>1
    <3>2. CASE key # q.key
      <4>1. key \in DOMAIN repo.index /\ repo'.index[key] = repo.index[key]
        BY <2>3, <3>2 DEF With
      <4> QED
        BY <4>1 DEF BodyInv, SoundStore, Sound
    <3> QED
      BY <3>1, <3>2
  <2>9. ASSUME NEW d, d # c
        PROVE  Unharmed(d)
    BY <2>2, <2>3, <2>4, <2>9 DEF Unharmed, With, Sound
  <2>10. SoundWriter(r)' /\ SoundCleaner(r)'
    BY <1>3, <2>1, <2>4, <2>5, <2>6
  <2> QED
    BY <1>1, <2>8, <2>9, <2>10, OwnKeepsSound
<1> QED
  BY <1>4, <1>5, <1>6, <1>7

\* Release.Publish changes neither indexes nor bodies.
LEMMA ReleasingKeepsSound ==
  ASSUME Typed, BodyInv, NEW r \in Run, OwnStep(r),
         BeginRelease(r) \/ Sign(r) \/ SendRelease(r) \/ SendSignature(r)
           \/ DeleteSignature(r) \/ Published(r)
  PROVE  BodyInv'
<1>1. repo'.index = repo.index /\ repo'.pool = repo.pool
  BY DEF BeginRelease, Sign, SendRelease, SendSignature, DeleteSignature, Published, Typed, Stored
<1>2. pc'[r] \in Ended \cup {"releasing"}
  BY DEF BeginRelease, Sign, SendRelease, SendSignature, DeleteSignature, Published,
         Releasing, Sent, Ends, Goto, Ended, Typed
<1>3. \A e : HasBody(e) => HasBody(e)'
  BY <1>1 DEF HasBody
<1> QED
  BY <1>1, <1>2, <1>3, IdlingIsSound, QuietKeepsSound DEF Ended

\* clean deletes no body of an entry: it has seen all of its codename's, and
\* the others have theirs in other pools.
LEMMA CleanKeepsSound ==
  ASSUME Inv, Typed, WritersLocked, BodiesGuarded, BodyInv, NEW r \in Run, OwnStep(r),
         ListIndexes(r) \/ ScanIndex(r) \/ ListPool(r) \/ DeleteBody(r) \/ Cleaned(r)
  PROVE  BodyInv'
<1> DEFINE c == job[r].codename
           m == mem[r]
<1>1. /\ pc[r] \in {"listIndexes", "scan", "sweep"} /\ job' = job /\ DOMAIN m = Fields
      /\ DOMAIN mem = Run /\ SoundCleaner(r)
  BY DEF ListIndexes, ScanIndex, ListPool, DeleteBody, Cleaned, Typed, GoodRun, GoodMemory, BodyInv
<1>2. Actor(r) /\ Target(job[r]) = c
  BY <1>1 DEF Actor, Active, Ended, Typed, GoodRun, Work, Target
<1>3. ASSUME repo' = repo, SoundCleaner(r)', pc'[r] \in {"scan", "sweep"}
      PROVE  BodyInv'
  <2>1. SoundWriter(r)'
    BY <1>3 DEF SoundWriter
  <2>2. \A e : HasBody(e) => HasBody(e)'
    BY <1>3 DEF HasBody
  <2> QED
    BY <1>3, <2>1, <2>2, QuietKeepsSound
<1>4. CASE ListIndexes(r)
  <2>1. repo' = repo /\ pc'[r] = "scan" /\ mem'[r].left = DOMAIN repo.index
    BY <1>1, <1>4 DEF ListIndexes, Goto, Remember, Typed, Fields
  <2>2. SoundCleaner(r)'
    BY <2>1 DEF SoundCleaner
  <2> QED
    BY <1>3, <2>1, <2>2
<1>5. CASE ScanIndex(r)
  <2>1. PICK key \in m.left :
          mem' = [mem EXCEPT ![r] = [m EXCEPT
            !.left = @ \ {key},
            !.noted = @ \cup {e.file : e \in EntriesOf(repo.index[key])}]]
    BY <1>5 DEF ScanIndex, Remember
  <2>2. /\ repo' = repo /\ pc[r] = "scan" /\ pc' = pc
        /\ mem'[r].left = m.left \ {key}
        /\ mem'[r].noted = m.noted \cup {e.file : e \in EntriesOf(repo.index[key])}
    BY <1>1, <1>5, <2>1 DEF ScanIndex, Fields
  <2>3. SoundCleaner(r)'
    BY <1>1, <2>2 DEF SoundCleaner
  <2> QED
    BY <1>3, <2>2, <2>3
<1>6. CASE ListPool(r)
  <2>1. /\ repo' = repo /\ pc[r] = "scan" /\ m.left = {} /\ pc'[r] = "sweep"
        /\ mem'[r].left = {f \in DOMAIN repo.pool : f[1] = c} \ m.noted
    BY <1>1, <1>6 DEF ListPool, Goto, Remember, Typed, Fields
  <2>2. SoundCleaner(r)'
    BY <1>1, <2>1 DEF SoundCleaner
  <2> QED
    BY <1>3, <2>1, <2>2
<1>7. CASE DeleteBody(r)
  <2>1. PICK file \in m.left :
          /\ repo' = [repo EXCEPT !.pool = [f \in DOMAIN @ \ {file} |-> @[f]]]
          /\ mem' = [mem EXCEPT ![r] = [m EXCEPT !.left = @ \ {file}]]
    BY <1>7 DEF DeleteBody, Remember
  <2>2. /\ pc[r] = "sweep" /\ pc' = pc
        /\ repo'.pool = [f \in DOMAIN repo.pool \ {file} |-> repo.pool[f]]
        /\ repo'.index = repo.index
        /\ mem'[r].left = m.left \ {file}
    BY <1>1, <1>7, <2>1 DEF DeleteBody, Typed, Stored, Fields
  <2>3. /\ file[1] = c
        /\ \A key \in DOMAIN repo.index : key[1] = c =>
             \A e \in EntriesOf(repo.index[key]) : e.file # file
    BY <1>1, <2>2 DEF SoundCleaner
  <2>4. \A e : e.file # file /\ HasBody(e) => HasBody(e)'
    BY <2>2 DEF HasBody
  <2>5. \A d, e : Home(d, e) => e.file[1] = d
    BY DEF Home, PoolFile
  <2>6. ASSUME NEW d, d # c
        PROVE  Unharmed(d)
    BY <2>2, <2>3, <2>4, <2>5, <2>6 DEF Unharmed, Sound
  <2>7. SoundStore'
    <3> SUFFICES ASSUME NEW key \in DOMAIN repo.index, NEW e \in EntriesOf(repo.index[key])
                 PROVE  Home(key[1], e) /\ HasBody(e)'
      BY <2>2 DEF SoundStore, Sound, Home
    <3>1. Home(key[1], e) /\ HasBody(e)
      BY DEF BodyInv, SoundStore, Sound
    <3>2. e.file # file
      BY <2>3, <2>5, <3>1
    <3> QED
      BY <2>4, <3>1, <3>2
  <2>8. SoundWriter(r)' /\ SoundCleaner(r)'
    BY <1>1, <2>2 DEF SoundWriter, SoundCleaner
  <2> QED
    BY <1>2, <2>6, <2>7, <2>8, OwnKeepsSound
<1>8. CASE Cleaned(r)
  BY <1>8, EndsKeepSound DEF Cleaned, Ended
<1> QED
  BY <1>4, <1>5, <1>6, <1>7, <1>8

LEMMA StepKeepsSound ==
  ASSUME Inv, Typed, WritersLocked, BodiesGuarded, AckedInv, BodyInv,
         NEW r \in Run, Step(r) \/ Stop(r)
  PROVE  BodyInv'
<1>1. OwnStep(r)
  BY StepIsOwn
<1>2. CASE Start(r) \/ GetSource(r) \/ GetRelease(r) \/ GetManifest(r) \/ HeadBody(r) \/ Answer(r)
  BY <1>1, <1>2, ReadingKeepsSound
<1>3. CASE PrepareUpload(r) \/ PrepareCopy(r) \/ PrepareDelete(r) \/ PrepareVerify(r)
  BY <1>1, <1>3, PrepareKeepsSound
<1>4. CASE SendBody(r) \/ SendByHash(r) \/ SendIndex(r)
  BY <1>1, <1>4, BulkKeepsSound
<1>5. CASE \/ BeginRelease(r) \/ Sign(r) \/ SendRelease(r) \/ SendSignature(r)
           \/ DeleteSignature(r) \/ Published(r)
  BY <1>1, <1>5, ReleasingKeepsSound
<1>6. CASE ListIndexes(r) \/ ScanIndex(r) \/ ListPool(r) \/ DeleteBody(r) \/ Cleaned(r)
  BY <1>1, <1>6, CleanKeepsSound
<1>7. CASE Stop(r)
  BY <1>1, <1>7, EndsKeepSound DEF Stop, Ended
<1> QED
  BY <1>2, <1>3, <1>4, <1>5, <1>6, <1>7 DEF Step

LEMMA StutterKeepsSound ==
  ASSUME BodyInv, UNCHANGED <<repo, pc, job, mem>>
  PROVE  BodyInv'
<1>1. \A e : HasBody(e)' <=> HasBody(e)
  BY DEF HasBody
<1>2. SoundStore'
  BY <1>1 DEF BodyInv, SoundStore, Sound, Home
<1>3. \A r \in Run : SoundWriter(r)' /\ SoundCleaner(r)'
  BY <1>1 DEF BodyInv, SoundWriter, SoundCleaner, Sound, Home
<1> QED
  BY <1>2, <1>3 DEF BodyInv

LEMMA SoundAlways ==
  ASSUME WritersLocked, BodiesGuarded, NoneIsNoRelease, InitialRepo = EmptyRepo
  PROVE  Spec => []BodyInv
<1>1. Init => BodyInv
  BY DEF Init, BodyInv, SoundStore, SoundWriter, SoundCleaner, EmptyRepo, EmptyMap
<1>2. Inv /\ Typed /\ AckedInv /\ BodyInv /\ [Next]_vars => BodyInv'
  <2> SUFFICES ASSUME Inv, Typed, AckedInv, BodyInv, [Next]_vars
               PROVE  BodyInv'
    OBVIOUS
  <2>1. CASE \E r \in Run : Step(r) \/ Stop(r)
    BY <2>1, StepKeepsSound
  <2>2. CASE ClientFetches \/ AllDone \/ UNCHANGED vars
    BY <2>2, StutterKeepsSound DEF ClientFetches, AllDone, vars
  <2> QED
    BY <2>1, <2>2 DEF Next
<1>3. TakeTurns
  BY DEF TakeTurns
<1> QED
  BY <1>1, <1>2, <1>3, OrderAlways, TypedAlways, AckedAlways, PTL DEF Spec

\* TESTING.md, "copy across codenames, then clean safely", of copies inside a
\* codename (RepoCopyClean shows what the others can do): no index ever has an
\* entry without its body, or with the body of another build, whatever uploads,
\* copies, deletes and cleans run beside each other and wherever they stop.
THEOREM BodiesAlwaysMatch ==
  ASSUME WritersLocked, BodiesGuarded, NoneIsNoRelease, InitialRepo = EmptyRepo
  PROVE  Spec => []BodiesMatch
<1>1. BodyInv => BodiesMatch
  BY DEF BodyInv, SoundStore, Sound, HasBody, BodiesMatch
<1> QED
  BY <1>1, SoundAlways, PTL

-----------------------------------------------------------------------------
(* The queries, which take no lock.                                        *)

\* What a query has read has every package it must find, and no other build of
\* one, wherever it was published in between.
Finds(c, comp, mans, a) ==
  \A arch \in DOMAIN mans :
    /\ a.index = <<comp, arch>> => a.pkg \in Listed(mans[arch])
    /\ \A e \in EntriesOf(mans[arch]) :
         Home(c, e) /\ (e.file = PoolFile(c, a.pkg) => e.pkg = a.pkg)

QueryRun(r) ==
  LET j == job[r]
      m == mem[r]
  IN pc[r] = "reading" /\ j.op \in Queries =>
       \A a \in m.since : a.codename = Target(j) =>
         /\ j.op = "list" => a.index[2] \in EntriesOf(m.rel.archs)
         /\ Finds(Target(j), TargetComp(j), m.mans, a)

Remembered == \A r \in Run : mem[r].since \subseteq acked

QueryInv == Remembered /\ \A r \in Run : QueryRun(r)

\* Nothing but Start changes what a run is asked to find, or takes a package from
\* those that are acknowledged.
LEMMA OnlyStartForgets ==
  ASSUME Typed, NEW r \in Run, Step(r) \/ Stop(r), ~Start(r)
  PROVE  acked \subseteq acked' /\ \A s \in Run : mem'[s].since \subseteq mem[s].since
<1>1. /\ DOMAIN mem = Run /\ GoodMemory(mem[r]) /\ DOMAIN mem[r] = Fields
      /\ NoMemory.since = {}
  BY DEF Typed, GoodRun, GoodMemory, NoMemory
<1>2. ASSUME NEW m, Remember(r, m), m.since \subseteq mem[r].since, acked \subseteq acked'
      PROVE  acked \subseteq acked' /\ \A s \in Run : mem'[s].since \subseteq mem[s].since
  BY <1>1, <1>2 DEF Remember
<1>3. ASSUME NEW label, Ends(r, label), acked \subseteq acked'
      PROVE  acked \subseteq acked' /\ \A s \in Run : mem'[s].since \subseteq mem[s].since
  BY <1>1, <1>2, <1>3 DEF Ends
<1>4. ASSUME Sent(r)
      PROVE  acked \subseteq acked' /\ \A s \in Run : mem'[s].since \subseteq mem[s].since
  BY <1>1, <1>2, <1>4 DEF Sent, Fields
<1>5. CASE GetSource(r) \/ BeginRelease(r)
  BY <1>1, <1>2, <1>5 DEF GetSource, BeginRelease, Fields
<1>6. CASE GetRelease(r)
  <2>1. /\ acked' = acked
        /\ \E rel, todo : Remember(r, [mem[r] EXCEPT !.rel = rel, !.todo = todo])
    BY <1>6 DEF GetRelease
  <2> QED
    BY <1>1, <1>2, <2>1 DEF Fields
<1>7. CASE GetManifest(r)
  <2>1. /\ acked' = acked
        /\ \E mans, todo : Remember(r, [mem[r] EXCEPT !.mans = mans, !.todo = todo])
    BY <1>7 DEF GetManifest
  <2> QED
    BY <1>1, <1>2, <2>1 DEF Fields
<1>8. CASE HeadBody(r)
  <2>1. /\ acked' = acked
        /\ \E noted, todo : Remember(r, [mem[r] EXCEPT !.todo = todo, !.noted = noted])
    BY <1>8 DEF HeadBody
  <2> QED
    BY <1>1, <1>2, <2>1 DEF Fields
<1>9. CASE PrepareUpload(r) \/ PrepareCopy(r) \/ PrepareDelete(r) \/ PrepareVerify(r)
  <2>1. acked' = acked
    BY <1>9, PreparePublishes
  <2>2. CASE Ends(r, "failed") \/ Ends(r, "done")
    BY <1>3, <2>1, <2>2
  <2>3. CASE \E rel, archs, mans : Publication(r, rel, archs, mans)
    <3>1. \E todo, rel : Remember(r, [mem[r] EXCEPT !.todo = todo, !.rel = rel, !.mans = EmptyMap])
      BY <2>3 DEF Publication, Publishes, Publish
    <3> QED
      BY <1>1, <1>2, <2>1, <3>1 DEF Fields
  <2> QED
    BY <1>9, <2>2, <2>3, PreparePublishes
<1>10. CASE SendByHash(r) \/ SendIndex(r) \/ SendRelease(r) \/ SendSignature(r) \/ DeleteSignature(r)
  BY <1>4, <1>10 DEF SendByHash, SendIndex, SendRelease, SendSignature, DeleteSignature
<1>11. CASE SendBody(r) \/ Sign(r)
  BY <1>3, <1>4, <1>11 DEF SendBody, Sign
<1>12. CASE Answer(r) \/ Published(r) \/ Cleaned(r) \/ Stop(r)
  BY <1>3, <1>12 DEF Answer, Published, Cleaned, Stop
<1>13. CASE ListIndexes(r) \/ ScanIndex(r) \/ ListPool(r) \/ DeleteBody(r)
  BY <1>1, <1>2, <1>13 DEF ListIndexes, ScanIndex, ListPool, DeleteBody, Fields
<1> QED
  BY <1>5, <1>6, <1>7, <1>8, <1>9, <1>10, <1>11, <1>12, <1>13 DEF Step

LEMMA StepKeepsRemembered ==
  ASSUME Typed, Remembered, NEW r \in Run, Step(r) \/ Stop(r)
  PROVE  Remembered'
<1>1. CASE Start(r)
  <2>1. PICK j \in Jobs : StartsWith(r, j)
    BY <1>1, StartsWithAJob
  <2>2. j.op \in Queries => Superseded(j) = {}
    BY DEF Superseded, Queries
  <2>3. \A s \in Run : mem'[s].since = IF s = r /\ j.op \in Queries THEN acked
                                      ELSE mem[s].since \ Superseded(j)
    BY <2>1 DEF StartsWith
  <2>4. acked' = acked \ Superseded(j)
    BY <2>1 DEF StartsWith
  <2> QED
    BY <2>2, <2>3, <2>4 DEF Remembered
<1>2. CASE ~Start(r)
  BY <1>2, OnlyStartForgets DEF Remembered
<1> QED
  BY <1>1, <1>2

\* What is stored for an acknowledged package: an entry of it in its index, and
\* no entry with its file name in any other of its codename.
LEMMA AckedIsFound ==
  ASSUME AckedInv, BodyInv, NEW a \in acked, NEW i
  PROVE  LET content == IndexAt(a.codename, i)
         IN /\ a.index = i => a.pkg \in Listed(content)
            /\ \A e \in EntriesOf(content) :
                 Home(a.codename, e) /\ (e.file = PoolFile(a.codename, a.pkg) => e.pkg = a.pkg)
<1> DEFINE c == a.codename
<1>1. \A k : \A e \in EntriesOf(IndexAt(c, k)) : Sound(c, e)
  <2> SUFFICES ASSUME NEW k, NEW e \in EntriesOf(IndexAt(c, k))
               PROVE  Sound(c, e)
    OBVIOUS
  <2>1. <<c, k>> \in DOMAIN repo.index /\ IndexAt(c, k) = repo.index[<<c, k>>]
    BY EmptyIsList DEF IndexAt
  <2>2. Sound(<<c, k>>[1], e)
    BY <2>1 DEF BodyInv, SoundStore
  <2> QED
    BY <2>2
<1>2. a.pkg \in Listed(IndexAt(c, a.index))
  BY DEF AckedInv, AckedStored
<1>3. PICK x \in EntriesOf(IndexAt(c, a.index)) : x.pkg = a.pkg
  BY <1>2 DEF Listed
<1>4. Sound(c, x)
  BY <1>1, <1>3
<1>5. ASSUME NEW e \in EntriesOf(IndexAt(c, i))
      PROVE  Home(c, e) /\ (e.file = PoolFile(c, a.pkg) => e.pkg = a.pkg)
  <2>1. Sound(c, e)
    BY <1>1
  <2> QED
    BY <1>3, <1>4, <2>1 DEF Sound, Home, HasBody
<1> QED
  BY <1>2, <1>5

LEMMA UnmovedQuery ==
  ASSUME NEW s \in Run, QueryRun(s), pc'[s] = pc[s], job'[s] = job[s],
         mem'[s].rel = mem[s].rel, mem'[s].mans = mem[s].mans, mem'[s].since \subseteq mem[s].since
  PROVE  QueryRun(s)'
BY DEF QueryRun, Finds, Home

LEMMA StepKeepsQuery ==
  ASSUME Typed, AckedInv, BodyInv, QueryInv, NEW r \in Run, Step(r) \/ Stop(r), OwnStep(r)
  PROVE  QueryRun(r)'
<1> DEFINE j == job[r]
           c == Target(j)
           comp == TargetComp(j)
<1>1. CASE Start(r)
  <2>1. PICK k \in Jobs : StartsWith(r, k)
    BY <1>1, StartsWithAJob
  <2>2. mem'[r].mans = EmptyMap
    BY <2>1 DEF StartsWith, AckedInv, AckedRun, Fields
  <2>3. job'[r] = k /\ (pc'[r] = "reading" => k.op # "list")
    BY <2>1 DEF StartsWith
  <2> QED
    BY <2>2, <2>3 DEF QueryRun, Finds, EmptyMap
<1>2. CASE ~(pc'[r] = "reading" /\ job'[r].op \in Queries)
  BY <1>2 DEF QueryRun
<1>3. CASE GetRelease(r)
  <2> DEFINE stored == repo.release[c]
             found == IF stored = None THEN EmptyRelease ELSE stored
             rel == [found EXCEPT !.byHash = IF j.byHash = Unset THEN @ ELSE j.byHash]
  <2>1. /\ mem'[r].rel = rel /\ mem'[r].mans = mem[r].mans /\ mem'[r].since = mem[r].since
        /\ pc[r] = "getRelease" /\ job'[r] = j
    BY <1>3 DEF GetRelease, Remember, Typed, GoodRun, GoodMemory, Fields
  <2>2. mem'[r].mans = EmptyMap
    BY <2>1 DEF AckedInv, AckedRun
  <2>3. ASSUME NEW a \in mem[r].since, a.codename = c
        PROVE  a.index[2] \in EntriesOf(rel.archs)
    <3>1. a \in acked
      BY DEF QueryInv, Remembered
    <3>2. c \in Codename /\ stored # None /\ a.index \in DOMAIN stored.files
      BY <2>3, <3>1 DEF AckedInv, AckedStored, Lists
    <3>3. GoodRelease(stored)
      BY <3>2 DEF Typed, Stored
    <3>4. a.index[2] \in EntriesOf(stored.archs)
      BY <3>2, <3>3 DEF GoodRelease
    <3>5. "archs" \in DOMAIN stored
      BY <3>3 DEF GoodRelease, IsRelease
    <3> HIDE DEF stored
    <3>6. rel.archs = stored.archs
      BY <3>2, <3>5
    <3> QED
      BY <3>4, <3>6
  <2> HIDE DEF rel
  <2> QED
    BY <2>1, <2>2, <2>3 DEF QueryRun, Finds, EmptyMap
<1>4. CASE GetManifest(r)
  <2> DEFINE arch == Head(mem[r].todo).arch
             content == IndexAt(c, <<comp, arch>>)
  <2>1. pc[r] = "reading" /\ pc' = pc /\ job' = job
    BY <1>4 DEF GetManifest
  <2>2. /\ mem'[r].mans = With(mem[r].mans, arch, content) /\ mem'[r].rel = mem[r].rel
        /\ mem'[r].since = mem[r].since
    BY <1>4, ManifestIsRead DEF Fields
  <2>3. ASSUME NEW a \in mem[r].since, a.codename = c
        PROVE  /\ a.index = <<comp, arch>> => a.pkg \in Listed(content)
               /\ \A e \in EntriesOf(content) :
                    Home(c, e) /\ (e.file = PoolFile(c, a.pkg) => e.pkg = a.pkg)
    BY <2>3, AckedIsFound DEF QueryInv, Remembered
  <2> HIDE DEF arch, content
  <2>4. ASSUME NEW a \in mem[r].since, a.codename = c, Finds(c, comp, mem[r].mans, a)
        PROVE  Finds(c, comp, mem'[r].mans, a)
    BY <2>2, <2>3, <2>4 DEF Finds, With
  <2>5. QueryRun(r)
    BY DEF QueryInv
  <2> HIDE DEF c, comp
  <2>6. ASSUME j.op \in Queries, NEW a \in mem'[r].since, a.codename = c
        PROVE  /\ j.op = "list" => a.index[2] \in EntriesOf(mem'[r].rel.archs)
               /\ Finds(c, comp, mem'[r].mans, a)
    BY <2>1, <2>2, <2>4, <2>5, <2>6 DEF QueryRun, c, comp
  <2>7. job'[r] = j /\ pc'[r] = "reading"
    BY <2>1
  <2>8. (\A a \in mem[r].since : a.codename = Target(job[r]) =>
           /\ job[r].op = "list" => a.index[2] \in EntriesOf(mem[r].rel.archs)
           /\ Finds(Target(job[r]), TargetComp(job[r]), mem[r].mans, a))'
        \/ job'[r].op \notin Queries
    BY <2>6, <2>7 DEF c, comp, Finds, Home
  <2> QED
    BY <2>8 DEF QueryRun
<1>5. CASE HeadBody(r)
  <2>1. /\ pc' = pc /\ job' = job /\ mem'[r].mans = mem[r].mans /\ mem'[r].rel = mem[r].rel
        /\ mem'[r].since = mem[r].since
    BY <1>5, BodyIsAskedFor DEF HeadBody, Fields
  <2> QED
    BY <2>1, UnmovedQuery DEF QueryInv
\* The rest is done by writers and clean, or ends.
<1>6. ASSUME \/ PrepareUpload(r) \/ PrepareCopy(r) \/ PrepareDelete(r) \/ PrepareVerify(r)
             \/ pc[r] \in {"publishing", "releasing", "listIndexes", "scan", "sweep"}
      PROVE  job'[r].op \notin Queries
  <2>1. pc[r] # "idle" /\ j.op \notin Queries
    BY <1>6, PreparePublishes DEF Read, Typed, GoodRun, Work, Writers, Queries
  <2> QED
    BY <2>1 DEF OwnStep
<1>7. CASE Answer(r) \/ Stop(r) \/ GetSource(r)
  <2>1. pc'[r] # "reading"
    BY <1>7 DEF Answer, Stop, GetSource, Ends, Goto, Typed
  <2> QED
    BY <1>2, <2>1
<1>8. CASE SendBody(r) \/ SendByHash(r) \/ SendIndex(r)
  BY <1>2, <1>6, <1>8 DEF SendBody, SendByHash, SendIndex, Sending
<1>9. CASE \/ BeginRelease(r) \/ Sign(r) \/ SendRelease(r) \/ SendSignature(r)
           \/ DeleteSignature(r) \/ Published(r)
  BY <1>2, <1>6, <1>9
    DEF BeginRelease, Sign, SendRelease, SendSignature, DeleteSignature, Published, Releasing
<1>10. CASE ListIndexes(r) \/ ScanIndex(r) \/ ListPool(r) \/ DeleteBody(r) \/ Cleaned(r)
  BY <1>2, <1>6, <1>10 DEF ListIndexes, ScanIndex, ListPool, DeleteBody, Cleaned
<1> QED
  BY <1>1, <1>2, <1>3, <1>4, <1>5, <1>6, <1>7, <1>8, <1>9, <1>10 DEF Step

LEMMA StepKeepsQueries ==
  ASSUME Typed, AckedInv, BodyInv, QueryInv, NEW r \in Run, Step(r) \/ Stop(r)
  PROVE  QueryInv'
<1>1. OwnStep(r)
  BY StepIsOwn
<1>2. ASSUME NEW s \in Run, s # r
      PROVE  QueryRun(s)'
  <2>1. mem'[s].since \subseteq mem[s].since
    <3>1. CASE Start(r)
      <4>1. PICK j \in Jobs : StartsWith(r, j)
        BY <3>1, StartsWithAJob
      <4>2. mem'[s].since = mem[s].since \ Superseded(j)
        BY <1>2, <4>1 DEF StartsWith
      <4> QED
        BY <4>2
    <3>2. CASE ~Start(r)
      BY <3>2, OnlyStartForgets
    <3> QED
      BY <3>1, <3>2
  <2>2. SameWork(s)
    BY <1>1, <1>2 DEF OwnStep
  <2> QED
    BY <2>1, <2>2, UnmovedQuery DEF SameWork, Fields, QueryInv
<1>3. Remembered'
  BY StepKeepsRemembered DEF QueryInv
<1> QED
  BY <1>1, <1>2, <1>3, StepKeepsQuery DEF QueryInv

LEMMA QueriesAlways ==
  ASSUME WritersLocked, BodiesGuarded, NoneIsNoRelease, InitialRepo = EmptyRepo
  PROVE  Spec => []QueryInv
<1>1. Init => QueryInv
  BY DEF Init, QueryInv, Remembered, QueryRun, NoMemory
<1>2. Typed /\ AckedInv /\ BodyInv /\ QueryInv /\ [Next]_vars => QueryInv'
  <2> SUFFICES ASSUME Typed, AckedInv, BodyInv, QueryInv, [Next]_vars
               PROVE  QueryInv'
    OBVIOUS
  <2>1. CASE \E r \in Run : Step(r) \/ Stop(r)
    BY <2>1, StepKeepsQueries
  <2>2. CASE ClientFetches \/ AllDone \/ UNCHANGED vars
    <3>1. UNCHANGED <<pc, job, mem, acked>>
      BY <2>2 DEF ClientFetches, AllDone, vars
    <3> QED
      BY <3>1, UnmovedQuery DEF QueryInv, Remembered
  <2> QED
    BY <2>1, <2>2 DEF Next
<1> QED
  BY <1>1, <1>2, TypedAlways, AckedAlways, SoundAlways, PTL DEF Spec

\* The first of the copies of a package is in the list.
LEMMA FirstIsListed ==
  ASSUME NEW s, IsList(s), NEW e \in EntriesOf(s)
  PROVE  \E x \in EntriesOf(At(s, {n \in DOMAIN s : \A k \in 1..(n - 1) : Identity(s[k]) # Identity(s[n])})) :
           Identity(x) = Identity(e) /\ x \in EntriesOf(s)
<1> DEFINE first == {n \in DOMAIN s : \A k \in 1..(n - 1) : Identity(s[k]) # Identity(s[n])}
           S == {m \in Nat : \A k \in 1..m : k \in DOMAIN s /\ Identity(s[k]) = Identity(e) =>
                               \E l \in first : Identity(s[l]) = Identity(e)}
<1>1. DOMAIN s = 1..Len(s) /\ Len(s) \in Nat
  BY ListIsFunction
<1>2. PICK n \in DOMAIN s : s[n] = e
  BY DEF EntriesOf
<1>3. 0 \in S
  OBVIOUS
<1>4. ASSUME NEW m \in Nat, m \in S
      PROVE  m + 1 \in S
  <2> SUFFICES ASSUME NEW k \in 1..(m + 1), k \in DOMAIN s, Identity(s[k]) = Identity(e)
               PROVE  \E l \in first : Identity(s[l]) = Identity(e)
    OBVIOUS
  <2>1. CASE k \in first
    BY <2>1
  <2>2. CASE k \notin first
    <3>1. PICK l \in 1..(k - 1) : Identity(s[l]) = Identity(s[k])
      BY <2>2
    <3>2. l \in 1..m /\ l \in DOMAIN s
      BY <1>1
    <3> QED
      BY <1>4, <3>1, <3>2
  <2> QED
    BY <2>1, <2>2
<1>5. n \in S
  <2> HIDE DEF S
  <2> QED
    BY <1>1, <1>3, <1>4, SetInduction
<1>6. PICK l \in first : Identity(s[l]) = Identity(e)
  BY <1>1, <1>2, <1>5
<1>7. l \in DOMAIN s
  OBVIOUS
<1> HIDE DEF first
<1>8. EntriesOf(At(s, first)) = {s[k] : k \in first \cap DOMAIN s}
  BY AtEntries
<1>9. s[l] \in EntriesOf(At(s, first)) /\ s[l] \in EntriesOf(s)
  BY <1>7, <1>8 DEF EntriesOf
<1>10. \E x \in EntriesOf(At(s, first)) : Identity(x) = Identity(e) /\ x \in EntriesOf(s)
  BY <1>6, <1>9
<1> QED
  BY <1>10 DEF first

\* A list shows every package of a manifest it has read.
LEMMA ListShows ==
  ASSUME NEW r, IsList(ArchsToRead(job[r], mem[r].rel)),
         \A arch \in EntriesOf(ArchsToRead(job[r], mem[r].rel)) : IsList(mem[r].mans[arch]),
         NEW arch \in EntriesOf(ArchsToRead(job[r], mem[r].rel)),
         NEW e \in EntriesOf(mem[r].mans[arch])
  PROVE  \E x \in EntriesOf(ListOutput(r)) :
           /\ Identity(x) = Identity(e)
           /\ \E b \in EntriesOf(ArchsToRead(job[r], mem[r].rel)) : x \in EntriesOf(mem[r].mans[b])
<1> DEFINE archs == ArchsToRead(job[r], mem[r].rel)
           mans == mem[r].mans
           each == [n \in DOMAIN archs |-> mans[archs[n]]]
           all == FlattenSeq(each)
<1>1. ListOutput(r) = At(all, {n \in DOMAIN all : \A k \in 1..(n - 1) : Identity(all[k]) # Identity(all[n])})
  BY DEF ListOutput, Map
<1> HIDE DEF archs, mans
<1>2. IsList(each) /\ DOMAIN each = DOMAIN archs /\ \A n \in DOMAIN each : IsList(each[n])
  BY ImageIsList DEF archs, mans, EntriesOf
<1> HIDE DEF each
<1>3. /\ IsList(all)
      /\ EntriesOf(all) = UNION {EntriesOf(each[n]) : n \in DOMAIN each}
  BY <1>2, FlattenEntries
<1> HIDE DEF all
<1>4. EntriesOf(all) = UNION {EntriesOf(mans[b]) : b \in EntriesOf(archs)}
  <2>1. EntriesOf(archs) = {archs[n] : n \in DOMAIN archs}
    BY DEF EntriesOf
  <2>2. \A n \in DOMAIN archs : each[n] = mans[archs[n]]
    BY DEF each
  <2>3. EntriesOf(all) = UNION {EntriesOf(mans[archs[n]]) : n \in DOMAIN archs}
    BY <1>2, <1>3, <2>2
  <2> QED
    BY <2>1, <2>3
<1>5. e \in EntriesOf(all)
  BY <1>4 DEF archs, mans
<1>6. PICK x \in EntriesOf(ListOutput(r)) : Identity(x) = Identity(e) /\ x \in EntriesOf(all)
  BY <1>1, <1>3, <1>5, FirstIsListed
<1>7. \E b \in EntriesOf(archs) : x \in EntriesOf(mans[b])
  BY <1>4, <1>6
<1> QED
  BY <1>6, <1>7 DEF archs, mans

LEMMA ListArchs ==
  ASSUME NEW j, j.op = "list", NEW rel, IsList(rel.archs), NEW arch \in EntriesOf(rel.archs),
         j.arch \in {Unset, arch}
  PROVE  arch \in EntriesOf(ArchsToRead(j, rel))
<1>1. ArchsToRead(j, rel) = At(rel.archs, {n \in DOMAIN rel.archs : j.arch \in {Unset, rel.archs[n]}})
  BY DEF ArchsToRead
<1>2. PICK n \in DOMAIN rel.archs : rel.archs[n] = arch
  BY DEF EntriesOf
<1> DEFINE wanted == {k \in DOMAIN rel.archs : j.arch \in {Unset, rel.archs[k]}}
<1>3. n \in wanted
  BY <1>2
<1> HIDE DEF wanted
<1>4. EntriesOf(At(rel.archs, wanted)) = {rel.archs[k] : k \in wanted \cap DOMAIN rel.archs}
  BY AtEntries
<1> QED
  BY <1>1, <1>2, <1>3, <1>4 DEF wanted

\* query.go, "identical entries are reported once", and no other is left out: when
\* the writers and clean take the lock, an answer to list, show or exists has
\* every package whose upload had finished when the query began and that no
\* command was asked to remove or to replace, whatever is published between its
\* requests; the query takes no lock itself.
THEOREM QueriesAlwaysSeeAcked ==
  ASSUME WritersLocked, BodiesGuarded, NoneIsNoRelease, InitialRepo = EmptyRepo
  PROVE  Spec => []QueriesSeeAcked
<1>1. Typed /\ AckedInv /\ QueryInv => QueriesSeeAcked
  <2> SUFFICES ASSUME Typed, AckedInv, QueryInv,
                      NEW r \in Run, Read(r), NEW a \in mem[r].since
               PROVE  LET j == job[r]
                      IN /\ /\ j.op = "list" /\ a.codename = j.codename /\ a.index[1] = j.comp
                            /\ j.arch \in {Unset, a.index[2]}
                            => a.pkg \in Listed(ListOutput(r))
                         /\ /\ j.op = "exists" /\ a.codename = j.codename
                            /\ a.index = <<j.comp, j.arch>> /\ a.pkg.version = j.version
                            => Exists(r, a.pkg.name)
    BY DEF QueriesSeeAcked
  <2> DEFINE j == job[r]
             m == mem[r]
  <2>1. /\ j \in Jobs /\ GoodMemory(m) /\ pc[r] = "reading"
        /\ \A b \in Wanted(j, m.rel) : b \in DOMAIN m.mans /\ IsList(m.mans[b])
    BY ReadIsComplete DEF Read
  <2>2. a.index = <<a.index[1], a.index[2]>>
    <3>1. a \in acked
      BY DEF QueryInv, Remembered
    <3>2. repo.release[a.codename] # None /\ a.index \in DOMAIN repo.release[a.codename].files
          /\ a.codename \in Codename
      BY <3>1 DEF AckedInv, AckedStored, Lists
    <3>3. GoodRelease(repo.release[a.codename])
      BY <3>2 DEF Typed, Stored
    <3> QED
      BY <3>2, <3>3 DEF GoodRelease
  <2>3. ASSUME j.op \in Queries, a.codename = j.codename
        PROVE  /\ j.op = "list" => a.index[2] \in EntriesOf(m.rel.archs)
               /\ Finds(j.codename, j.comp, m.mans, a)
    BY <2>1, <2>3 DEF QueryInv, QueryRun, Target, TargetComp, Queries
  <2>4. ASSUME j.op = "list", a.codename = j.codename, a.index[1] = j.comp,
               j.arch \in {Unset, a.index[2]}
        PROVE  a.pkg \in Listed(ListOutput(r))
    <3> DEFINE arch == a.index[2]
    <3>1. j.op \in Queries /\ Wanted(j, m.rel) = EntriesOf(ArchsToRead(j, m.rel))
      BY <2>4 DEF Queries, Wanted
    <3>2. Finds(j.codename, j.comp, m.mans, a) /\ arch \in EntriesOf(m.rel.archs)
      BY <2>3, <2>4, <3>1
    <3>3. IsList(m.rel.archs)
      BY <2>1 DEF GoodMemory, GoodRelease, IsRelease
    <3>4. arch \in EntriesOf(ArchsToRead(j, m.rel))
      BY <2>4, <3>2, <3>3, ListArchs
    <3>5. a.pkg \in Listed(m.mans[arch])
      BY <2>1, <2>2, <2>4, <3>1, <3>2, <3>4 DEF Finds
    <3>6. PICK e \in EntriesOf(m.mans[arch]) : e.pkg = a.pkg
      BY <3>5 DEF Listed
    <3>7. e.file = PoolFile(j.codename, a.pkg)
      BY <2>1, <3>1, <3>2, <3>4, <3>6 DEF Finds, Home
    <3>8. IsList(ArchsToRead(j, m.rel))
      BY <2>1, <2>4, ArchsToReadIsList DEF GoodMemory
    <3>9. PICK x \in EntriesOf(ListOutput(r)) :
            /\ Identity(x) = Identity(e)
            /\ \E b \in EntriesOf(ArchsToRead(j, m.rel)) : x \in EntriesOf(m.mans[b])
      BY <2>1, <3>1, <3>4, <3>8, ListShows
    <3>10. x.file = e.file
      BY <3>9 DEF Identity
    <3>11. x.pkg = a.pkg
      BY <2>1, <3>1, <3>2, <3>7, <3>9, <3>10 DEF Finds
    <3> QED
      BY <3>9, <3>11 DEF Listed
  <2>5. ASSUME j.op = "exists", a.codename = j.codename, a.index = <<j.comp, j.arch>>,
               a.pkg.version = j.version
        PROVE  Exists(r, a.pkg.name)
    <3>1. j.op \in Queries /\ j.arch \in DOMAIN m.mans
      BY <2>1, <2>5 DEF Queries, Wanted
    <3>2. a.pkg \in Listed(m.mans[j.arch])
      BY <2>3, <2>5, <3>1 DEF Finds
    <3> QED
      BY <2>5, <3>2 DEF Listed, Exists
  <2> QED
    BY <2>4, <2>5
<1> QED
  BY <1>1, TypedAlways, AckedAlways, QueriesAlways, PTL
=============================================================================

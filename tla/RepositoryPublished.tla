------------------------- MODULE RepositoryPublished -------------------------
(***************************************************************************)
(* What a publication leaves in the repository, for any number of runs:    *)
(* the indexes, Release and the signatures of a codename.                  *)
(***************************************************************************)
EXTENDS RepositoryProofs

-----------------------------------------------------------------------------
(* What a step of one run leaves to the others.                            *)

\* The memory of a run but for what it is asked to find.
SameWork(s) ==
  /\ pc'[s] = pc[s] /\ job'[s] = job[s]
  /\ \A x \in Fields \ {"since"} : mem'[s][x] = mem[s][x]

OwnStep(r) ==
  /\ \A s \in Run \ {r} : SameWork(s)
  /\ pc[r] # "idle" => job'[r] = job[r]

LEMMA OwnMemory ==
  ASSUME Typed, NEW r \in Run, NEW m, Remember(r, m), job' = job,
         \A s \in Run \ {r} : pc'[s] = pc[s]
  PROVE  OwnStep(r)
BY DEF Typed, Remember, OwnStep, SameWork

LEMMA StepIsOwn ==
  ASSUME Typed, NEW r \in Run, Step(r) \/ Stop(r)
  PROVE  OwnStep(r)
<1>1. \A s \in Run \ {r} : pc'[s] = pc[s]
  BY StepMoves DEF Moves
<1>2. CASE Start(r)
  <2>1. PICK j : job' = [job EXCEPT ![r] = j] /\ mem' = Noting(r, j) /\ pc[r] = "idle"
    BY <1>2 DEF Start
  <2>2. ASSUME NEW s \in Run \ {r}
        PROVE  SameWork(s)
    <3>1. DOMAIN mem[s] = Fields
      BY DEF Typed, GoodRun, GoodMemory
    <3>2. job'[s] = job[s]
      BY <2>1 DEF Typed
    <3>3. \E since : mem'[s] = [mem[s] EXCEPT !.since = since, !.todo = @]
      BY <2>1 DEF Noting
    <3> QED
      BY <1>1, <3>1, <3>2, <3>3 DEF SameWork, Fields
  <2> QED
    BY <2>1, <2>2 DEF OwnStep
<1>3. ASSUME ~Start(r)
      PROVE  job' = job /\ \E m : Remember(r, m)
  <2>1. CASE GetSource(r) \/ GetRelease(r) \/ GetManifest(r) \/ HeadBody(r) \/ Answer(r)
    BY <2>1 DEF GetSource, GetRelease, GetManifest, HeadBody, Answer, Ends
  <2>2. CASE PrepareUpload(r) \/ PrepareCopy(r) \/ PrepareDelete(r) \/ PrepareVerify(r)
    BY <2>2, PreparePublishes DEF Publication, Publishes, Publish, Ends
  <2>3. CASE SendByHash(r) \/ SendIndex(r) \/ SendRelease(r) \/ SendSignature(r) \/ DeleteSignature(r)
    BY <2>3 DEF SendByHash, SendIndex, SendRelease, SendSignature, DeleteSignature, Sent
  <2>4. CASE SendBody(r) \/ Sign(r)
    BY <2>4 DEF SendBody, Sign, Sent, Ends
  <2>5. CASE BeginRelease(r) \/ Published(r) \/ Stop(r)
    BY <2>5 DEF BeginRelease, Published, Stop, Ends
  <2>6. CASE ListIndexes(r) \/ ScanIndex(r) \/ ListPool(r) \/ DeleteBody(r) \/ Cleaned(r)
    BY <2>6 DEF ListIndexes, ScanIndex, ListPool, DeleteBody, Cleaned, Ends
  <2> QED
    BY <1>3, <2>1, <2>2, <2>3, <2>4, <2>5, <2>6 DEF Step
<1> QED
  BY <1>1, <1>2, <1>3, OwnMemory

\* A run starts with nothing but its command.
StartsWith(r, j) ==
  /\ pc[r] = "idle" /\ LockFree(j)
  /\ job'[r] = j /\ acked' = acked \ Superseded(j)
  /\ pc'[r] \in {"getSource", "listIndexes", "reading", "getRelease"}
  /\ pc'[r] = "reading" => j.op = "exists"
  /\ j.op = "copy" => pc'[r] = "getSource"
  /\ \A x \in Fields \ {"since", "todo"} : mem'[r][x] = mem[r][x]
  /\ \A s \in Run : mem'[s].since = IF s = r /\ j.op \in Queries THEN acked
                                    ELSE mem[s].since \ Superseded(j)

LEMMA StartsWithAJob ==
  ASSUME Typed, NEW r \in Run, Start(r)
  PROVE  \E j \in Jobs : StartsWith(r, j)
<1>1. PICK j \in Jobs : /\ LockFree(j) /\ job' = [job EXCEPT ![r] = j] /\ mem' = Noting(r, j)
         /\ acked' = acked \ Superseded(j)
         /\ pc' = [pc EXCEPT ![r] = CASE j.op = "copy" -> "getSource"
                                      [] j.op = "clean" -> "listIndexes"
                                      [] j.op = "exists" -> "reading"
                                      [] OTHER -> "getRelease"]
  BY DEF Start, Goto
<1>2. pc[r] = "idle"
  BY DEF Start
<1>3. pc'[r] = CASE j.op = "copy" -> "getSource"
                 [] j.op = "clean" -> "listIndexes"
                 [] j.op = "exists" -> "reading"
                 [] OTHER -> "getRelease"
  BY <1>1 DEF Typed
<1>4. /\ pc'[r] \in {"getSource", "listIndexes", "reading", "getRelease"}
      /\ pc'[r] = "reading" => j.op = "exists"
      /\ j.op = "copy" => pc'[r] = "getSource"
  BY <1>3
<1>5. ASSUME NEW s \in Run
      PROVE  /\ mem'[s].since = IF s = r /\ j.op \in Queries THEN acked
                                ELSE mem[s].since \ Superseded(j)
             /\ \A x \in Fields \ {"since", "todo"} : mem'[s][x] = mem[s][x]
  <2> DEFINE since == IF s = r /\ j.op \in Queries THEN acked ELSE mem[s].since \ Superseded(j)
             todo == IF s = r /\ j.op = "exists" THEN <<GetRequest(j.arch)>> ELSE mem[s].todo
  <2>1. DOMAIN mem[s] = Fields
    BY DEF Typed, GoodRun, GoodMemory
  <2>2. mem'[s] = [mem[s] EXCEPT !.since = since, !.todo = todo]
    BY <1>1, <2>1 DEF Noting, Fields
  <2> HIDE DEF since, todo
  <2>3. mem'[s].since = since /\ \A x \in Fields \ {"since", "todo"} : mem'[s][x] = mem[s][x]
    BY <2>1, <2>2 DEF Fields
  <2> QED
    BY <2>3 DEF since
<1>6. StartsWith(r, j)
  BY <1>1, <1>2, <1>4, <1>5 DEF StartsWith, Typed
<1> QED
  BY <1>6

\* What reading changes in memory.
LEMMA ManifestIsRead ==
  ASSUME Typed, NEW r \in Run, GetManifest(r)
  PROVE  LET arch == Head(mem[r].todo).arch
         IN /\ mem'[r].mans = With(mem[r].mans, arch,
                                   IndexAt(Target(job[r]), <<TargetComp(job[r]), arch>>))
            /\ mem'[r].todo = (IF job[r].op # "verify" THEN <<>>
                               ELSE Map(LAMBDA e : HeadRequest(arch, e),
                                        IndexAt(Target(job[r]), <<TargetComp(job[r]), arch>>)))
                              \o Tail(mem[r].todo)
            /\ \A x \in Fields \ {"mans", "todo"} : mem'[r][x] = mem[r][x]
<1> DEFINE arch == Head(mem[r].todo).arch
           content == IndexAt(Target(job[r]), <<TargetComp(job[r]), arch>>)
           heads == IF job[r].op # "verify" THEN <<>>
                    ELSE Map(LAMBDA e : HeadRequest(arch, e), content)
<1>1. mem' = [mem EXCEPT ![r] = [mem[r] EXCEPT !.mans = With(@, arch, content),
                                               !.todo = heads \o Tail(@)]]
  BY DEF GetManifest, Remember
<1>2. DOMAIN mem = Run /\ DOMAIN mem[r] = Fields
  BY DEF Typed, GoodRun, GoodMemory
<1> HIDE DEF arch, content, heads
<1>3. /\ mem'[r].mans = With(mem[r].mans, arch, content)
      /\ mem'[r].todo = heads \o Tail(mem[r].todo)
      /\ \A x \in Fields \ {"mans", "todo"} : mem'[r][x] = mem[r][x]
  BY <1>1, <1>2 DEF Fields
<1> QED
  BY <1>3 DEF arch, content, heads

LEMMA BodyIsAskedFor ==
  ASSUME Typed, NEW r \in Run, HeadBody(r)
  PROVE  /\ mem'[r].todo = Tail(mem[r].todo)
         /\ mem'[r].noted = IF Head(mem[r].todo).file \in DOMAIN repo.pool THEN mem[r].noted
                            ELSE mem[r].noted \cup {<<Head(mem[r].todo).arch, Head(mem[r].todo).file>>}
         /\ \A x \in Fields \ {"noted", "todo"} : mem'[r][x] = mem[r][x]
<1> DEFINE noted == IF Head(mem[r].todo).file \in DOMAIN repo.pool THEN mem[r].noted
                    ELSE mem[r].noted \cup {<<Head(mem[r].todo).arch, Head(mem[r].todo).file>>}
<1>1. mem' = [mem EXCEPT ![r] = [mem[r] EXCEPT !.todo = Tail(@), !.noted = noted]]
  BY DEF HeadBody, Remember
<1>2. DOMAIN mem = Run /\ DOMAIN mem[r] = Fields
  BY DEF Typed, GoodRun, GoodMemory
<1> HIDE DEF noted
<1>3. /\ mem'[r].todo = Tail(mem[r].todo) /\ mem'[r].noted = noted
      /\ \A x \in Fields \ {"noted", "todo"} : mem'[r][x] = mem[r][x]
  BY <1>1, <1>2 DEF Fields
<1> QED
  BY <1>3 DEF noted

\* A request that is sent leaves the rest to do.
LEMMA SentLeaves ==
  ASSUME Typed, NEW r \in Run, Sent(r), mem[r].todo # <<>>
  PROVE  /\ mem'[r].todo = Tail(mem[r].todo) /\ pc' = pc /\ job' = job
         /\ EntriesOf(mem[r].todo) = EntriesOf(mem'[r].todo) \cup {Request(r)}
         /\ \A x \in Fields \ {"todo"} : mem'[r][x] = mem[r][x]
<1>1. mem' = [mem EXCEPT ![r] = [mem[r] EXCEPT !.todo = Tail(@)]] /\ pc' = pc /\ job' = job
  BY DEF Sent, Remember
<1>2. DOMAIN mem = Run /\ DOMAIN mem[r] = Fields /\ IsList(mem[r].todo)
  BY DEF Typed, GoodRun, GoodMemory
<1>3. /\ mem'[r].todo = Tail(mem[r].todo)
      /\ \A x \in Fields \ {"todo"} : mem'[r][x] = mem[r][x]
  BY <1>1, <1>2 DEF Fields
<1> QED
  BY <1>1, <1>2, <1>3, TailEntries DEF Request

\* None, which stands for a missing object, is not a Release.
NoneIsNoRelease == ~GoodRelease(None)

\* Two writers at work publish to two codenames.
LEMMA WritersApart ==
  ASSUME Inv, Typed, TakeTurns, NEW r \in Active, NEW s \in Active, r # s,
         job[r].op \in Writers, job[s].op \in Writers
  PROVE  Target(job[r]) # Target(job[s])
<1>1. WritersLocked
  BY DEF Inv, Exclusive, TakeTurns
<1>2. \A q \in {r, s} : LockOf(job[q]) = Target(job[q]) /\ LockOf(job[q]) # None
  BY <1>1 DEF Typed, GoodRun, WritersLocked, Active
<1> QED
  BY <1>2 DEF Inv, Exclusive

\* Release is one of the requests of its publication.
LEMMA ReleaseIsRequested == \A signed : "putRelease" \in EntriesOf(ReleaseRequests(signed))
<1>1. ASSUME NEW a, NEW b, NEW c, NEW d
      PROVE  b \in EntriesOf(<<a, b, c, d>>)
  <2>1. 2 \in DOMAIN <<a, b, c, d>> /\ <<a, b, c, d>>[2] = b
    OBVIOUS
  <2> QED
    BY <2>1 DEF EntriesOf
<1>2. ASSUME NEW a, NEW b, NEW c
      PROVE  c \in EntriesOf(<<a, b, c>>)
  <2>1. 3 \in DOMAIN <<a, b, c>> /\ <<a, b, c>>[3] = c
    OBVIOUS
  <2> QED
    BY <2>1 DEF EntriesOf
<1>3. "putRelease" \in EntriesOf(<<"sign", "putRelease", "putGpg", "putInRelease">>)
  BY <1>1, Zenon
<1>4. "putRelease" \in EntriesOf(<<"deleteGpg", "deleteInRelease", "putRelease">>)
  BY <1>2, Zenon
<1> QED
  BY <1>3, <1>4 DEF ReleaseRequests

-----------------------------------------------------------------------------
(* What a step touches.                                                    *)

\* The index i of the codename c is stored with a content.
Holds(c, i, content) == <<c, i>> \in DOMAIN repo.index /\ repo.index[<<c, i>>] = content

\* What concerns a codename: its indexes, its Release and the signatures.
Untouched(c) ==
  /\ \A kind \in {"release", "gpg", "inRelease"} : repo'[kind][c] = repo[kind][c]
  /\ \A i, content : Holds(c, i, content) => Holds(c, i, content)'
  /\ \A key \in DOMAIN repo'.index : key[1] = c => key \in DOMAIN repo.index

\* A run that has sent its bodies and may have sent an index.
PastBodies(r) ==
  \/ pc[r] = "releasing"
  \/ pc[r] = "publishing" /\ \A q \in EntriesOf(mem[r].todo) : q.op # "putBody"

\* A step of r touches no codename but the one it publishes to.
TouchesOwn(r) == \A d \in Codename : Untouched(d) \/ (PastBodies(r) /\ d = Target(job[r]))

\* The request SendIndex sends.
LEMMA IndexIsSent ==
  ASSUME Typed, NEW r \in Run, SendIndex(r)
  PROVE  \E i \in DOMAIN mem[r].rel.files :
           /\ Request(r) = PutIndex(Target(job[r]), i, mem[r].rel.files[i])
           /\ repo' = [repo EXCEPT !.index = With(@, <<Target(job[r]), i>>, mem[r].rel.files[i])]
           /\ Sent(r) /\ PastBodies(r)
<1> DEFINE q == Request(r)
           c == Target(job[r])
           rel == mem[r].rel
<1>1. /\ pc[r] = "publishing" /\ mem[r].todo # <<>> /\ q.op = "putIndex" /\ Sent(r)
      /\ repo' = [repo EXCEPT !.index = With(@, q.key, q.content)]
  BY DEF SendIndex, Sending, Request
<1>2. PICK i \in DOMAIN rel.files : q = PutIndex(c, i, rel.files[i])
  BY <1>1, RequestIsBulk DEF BulkRequest, Bodies, PutBody, PutByHash, PutIndex
<1>3. q.key = <<c, i>> /\ q.content = rel.files[i]
  BY <1>2 DEF PutIndex
<1>4. PastBodies(r)
  <2>1. IsList(mem[r].todo) /\ BodiesFirst(mem[r].todo) /\ Head(mem[r].todo).op # "putBody"
    BY <1>1 DEF Typed, GoodRun, GoodMemory, Request
  <2>2. \A x \in EntriesOf(Tail(mem[r].todo)) : x.op # "putBody"
    BY <1>1, <2>1, TailBodiesFirst
  <2>3. EntriesOf(mem[r].todo) = {Head(mem[r].todo)} \cup EntriesOf(Tail(mem[r].todo))
    BY <1>1, <2>1, TailEntries
  <2> QED
    BY <1>1, <2>1, <2>2, <2>3 DEF PastBodies
<1> QED
  BY <1>1, <1>2, <1>3, <1>4

LEMMA StepTouches ==
  ASSUME Typed, NEW r \in Run, Step(r) \/ Stop(r)
  PROVE  TouchesOwn(r)
<1>1. ASSUME \/ repo' = repo
             \/ \E x : repo' = [repo EXCEPT !.pool = x] \/ repo' = [repo EXCEPT !.byHash = x]
      PROVE  TouchesOwn(r)
  <2>1. /\ \A kind \in {"release", "gpg", "inRelease"} : repo'[kind] = repo[kind]
        /\ repo'.index = repo.index
    BY <1>1 DEF Typed, Stored
  <2> QED
    BY <2>1 DEF TouchesOwn, Untouched, Holds
<1>2. CASE Start(r) \/ GetSource(r) \/ GetRelease(r) \/ GetManifest(r) \/ HeadBody(r) \/ Answer(r)
  BY <1>1, <1>2 DEF Start, GetSource, GetRelease, GetManifest, HeadBody, Answer
<1>3. CASE PrepareUpload(r) \/ PrepareCopy(r) \/ PrepareDelete(r) \/ PrepareVerify(r)
  BY <1>1, <1>3, PreparePublishes
<1>4. CASE SendBody(r) \/ SendByHash(r)
  BY <1>1, <1>4 DEF SendBody, SendByHash
<1>5. CASE SendIndex(r)
  <2>1. PICK i \in DOMAIN mem[r].rel.files :
          /\ repo' = [repo EXCEPT !.index = With(@, <<Target(job[r]), i>>, mem[r].rel.files[i])]
          /\ PastBodies(r)
    BY <1>5, IndexIsSent
  <2>2. /\ \A kind \in {"release", "gpg", "inRelease"} : repo'[kind] = repo[kind]
        /\ repo'.index = With(repo.index, <<Target(job[r]), i>>, mem[r].rel.files[i])
    BY <2>1 DEF Typed, Stored
  <2>3. ASSUME NEW d \in Codename, d # Target(job[r])
        PROVE  Untouched(d)
    <3>1. \A k : <<d, k>> # <<Target(job[r]), i>>
      BY <2>3
    <3>2. \A key \in DOMAIN repo'.index : key[1] = d => key \in DOMAIN repo.index
      BY <2>2, <2>3 DEF With
    <3>3. \A k, content : Holds(d, k, content) => Holds(d, k, content)'
      BY <2>2, <3>1 DEF Holds, With
    <3> QED
      BY <2>2, <3>2, <3>3 DEF Untouched
  <2> QED
    BY <2>1, <2>3 DEF TouchesOwn
<1>6. CASE BeginRelease(r) \/ Sign(r) \/ Published(r) \/ Stop(r)
  BY <1>1, <1>6 DEF BeginRelease, Sign, Published, Stop
<1>7. CASE SendRelease(r) \/ SendSignature(r) \/ DeleteSignature(r)
  <2>1. PastBodies(r)
    BY <1>7 DEF SendRelease, SendSignature, DeleteSignature, Releasing, PastBodies
  <2>2. PICK kind \in {"release", "gpg", "inRelease"} :
          \E x : repo' = [repo EXCEPT ![kind][Target(job[r])] = x]
    BY <1>7 DEF SendRelease, SendSignature, DeleteSignature
  <2>3. /\ repo'.index = repo.index
        /\ \A k \in {"release", "gpg", "inRelease"}, d \in Codename :
             d # Target(job[r]) => repo'[k][d] = repo[k][d]
    BY <2>2 DEF Typed, Stored
  <2> QED
    BY <2>1, <2>3 DEF TouchesOwn, Untouched, Holds
<1>8. CASE ListIndexes(r) \/ ScanIndex(r) \/ ListPool(r) \/ DeleteBody(r) \/ Cleaned(r)
  BY <1>1, <1>8 DEF ListIndexes, ScanIndex, ListPool, DeleteBody, Cleaned
<1> QED
  BY <1>2, <1>3, <1>4, <1>5, <1>6, <1>7, <1>8 DEF Step

\* The other runs go on with their codenames untouched.
LEMMA OthersUntouched ==
  ASSUME Inv, Typed, TakeTurns, NEW r \in Run, OwnStep(r), TouchesOwn(r),
         NEW s \in Run, s # r
  PROVE  /\ SameWork(s)
         /\ s \in Active /\ job[s].op \in Writers => Untouched(Target(job[s]))
<1>1. PastBodies(r) => r \in Active /\ job[r].op \in Writers
  BY DEF PastBodies, Active, Ended, Typed, GoodRun, Work
<1>2. ASSUME s \in Active, job[s].op \in Writers
      PROVE  Untouched(Target(job[s]))
  <2>1. Target(job[s]) \in Codename
    BY <1>2, JobsAssumption DEF Typed, GoodRun, Active
  <2> QED
    BY <1>1, <1>2, <2>1, WritersApart DEF TouchesOwn
<1> QED
  BY <1>2 DEF OwnStep

-----------------------------------------------------------------------------
(* What an upload publishes.                                               *)

\* The indexes of an upload are stored, or going to be, as Release describes them.
IndexesSent(r, requests) ==
  \A arch \in EntriesOf(mem[r].rel.archs) :
    LET i == <<TargetComp(job[r]), arch>>
        content == mem[r].rel.files[i]
    IN /\ i \in DOMAIN mem[r].rel.files
       /\ \/ Holds(Target(job[r]), i, content)
          \/ PutIndex(Target(job[r]), i, content) \in EntriesOf(requests)

\* Its Release has the packages for all architectures in each of them.
AllFan(r) ==
  \A arch \in EntriesOf(mem[r].rel.archs) :
    Fans(job[r], mem[r].rel.files[<<TargetComp(job[r]), arch>>])

SentRun(r) ==
  /\ pc[r] \in {"publishing", "releasing"} /\ job[r].op = "upload" => AllFan(r)
  /\ pc[r] = "publishing" /\ job[r].op = "upload" => IndexesSent(r, mem[r].todo)
  /\ pc[r] = "releasing" /\ job[r].op = "upload" => IndexesSent(r, <<>>)
  /\ pc[r] = "releasing" /\ "putRelease" \notin EntriesOf(mem[r].todo) =>
       repo.release[Target(job[r])] = mem[r].rel

SentInv == \A r \in Run : SentRun(r)

LEMMA UntouchedKeepsSent ==
  ASSUME Typed, NEW s \in Run, SentRun(s), SameWork(s),
         s \in Active /\ job[s].op \in Writers => Untouched(Target(job[s]))
  PROVE  SentRun(s)'
<1>1. /\ pc'[s] = pc[s] /\ job'[s] = job[s]
      /\ mem'[s].rel = mem[s].rel /\ mem'[s].todo = mem[s].todo
  BY DEF SameWork, Fields
<1>2. CASE pc[s] \notin {"publishing", "releasing"}
  BY <1>1, <1>2 DEF SentRun
<1>3. CASE pc[s] \in {"publishing", "releasing"}
  <2>1. Untouched(Target(job[s]))
    BY <1>3 DEF Active, Ended, Typed, GoodRun, Work
  <2>2. Target(job'[s]) = Target(job[s]) /\ TargetComp(job'[s]) = TargetComp(job[s])
    BY <1>1
  <2>3. repo'.release[Target(job[s])] = repo.release[Target(job[s])]
    BY <2>1 DEF Untouched
  <2>4. PICK c : c = Target(job[s])
    OBVIOUS
  <2>5. \A i, content : Holds(c, i, content) => Holds(c, i, content)'
    <3>1. Untouched(c)
      BY <2>1, <2>4
    <3> QED
      BY <3>1 DEF Untouched
  <2>6. \A requests : IndexesSent(s, requests) => IndexesSent(s, requests)'
    BY <1>1, <2>2, <2>4, <2>5 DEF IndexesSent
  <2>7. AllFan(s) => AllFan(s)'
    BY <1>1, <2>2 DEF AllFan
  <2> QED
    BY <1>1, <2>2, <2>3, <2>7, <2>6 DEF SentRun
<1> QED
  BY <1>2, <1>3

\* The manifests of an upload are all in its Release.
LEMMA PrepareSends ==
  ASSUME Typed, NEW r \in Run, OwnStep(r),
         PrepareUpload(r) \/ PrepareCopy(r) \/ PrepareDelete(r) \/ PrepareVerify(r)
  PROVE  SentRun(r)'
<1>1. Read(r) /\ job[r].op \in Writers /\ UNCHANGED <<repo, job>>
  BY PreparePublishes
<1>2. CASE Ends(r, "failed") \/ Ends(r, "done")
  <2>1. pc'[r] \in Ended
    BY <1>2 DEF Ends, Goto, Typed, Ended
  <2> QED
    BY <2>1 DEF SentRun, Ended
<1>3. ASSUME NEW rel, NEW archs, NEW mans, Publication(r, rel, archs, mans)
      PROVE  SentRun(r)'
  <2> DEFINE j == job[r]
             c == Target(j)
             updated == {TargetComp(j)} \X archs
             fresh == updated \cup (DOMAIN rel.files \ DOMAIN mem[r].rel.files)
  <2>1. PICK requests :
          /\ Publish(r, requests, rel)
          /\ Completes(rel, mem[r].rel, updated, mans)
          /\ EntriesOf(requests) = Bodies(j, UploadedBodies(j)) \cup Indexes(c, fresh, rel)
    BY <1>3 DEF Publication, Publishes
  <2>2. mem'[r].todo = requests /\ mem'[r].rel = rel /\ pc'[r] = "publishing"
    BY <2>1 DEF Publish, Goto, Remember, Typed, GoodRun, GoodMemory, Fields
  <2>3. ASSUME j.op = "upload", NEW arch \in EntriesOf(rel.archs)
        PROVE  /\ <<TargetComp(j), arch>> \in DOMAIN rel.files
               /\ PutIndex(c, <<TargetComp(j), arch>>, rel.files[<<TargetComp(j), arch>>])
                    \in EntriesOf(requests)
               /\ Fans(j, rel.files[<<TargetComp(j), arch>>])
    <3>1. arch \in archs
      BY <1>3, <2>1, <2>3 DEF Publication, Completes
    <3>2. <<TargetComp(j), arch>> \in updated
      BY <3>1
    <3>3. <<TargetComp(j), arch>> \in DOMAIN rel.files /\ rel.files[<<TargetComp(j), arch>>] = mans[arch]
      BY <2>1, <3>2 DEF Completes
    <3>4. Fans(j, mans[arch])
      BY <1>3, <2>3, <3>1 DEF Publication
    <3> HIDE DEF updated
    <3>5. PutIndex(c, <<TargetComp(j), arch>>, rel.files[<<TargetComp(j), arch>>])
            \in Indexes(c, fresh, rel)
      BY <3>2 DEF Indexes
    <3> QED
      BY <2>1, <3>3, <3>4, <3>5
  <2>4. j.op = "upload" => IndexesSent(r, mem[r].todo)' /\ AllFan(r)'
    BY <1>1, <2>2, <2>3 DEF IndexesSent, AllFan
  <2> QED
    BY <1>1, <2>2, <2>4 DEF SentRun
<1> QED
  BY <1>2, <1>3, PreparePublishes

LEMMA BulkSends ==
  ASSUME Typed, NEW r \in Run, SentRun(r), SendBody(r) \/ SendByHash(r) \/ SendIndex(r)
  PROVE  SentRun(r)'
<1> DEFINE c == Target(job[r])
           rel == mem[r].rel
<1>1. pc[r] = "publishing" /\ mem[r].todo # <<>>
  BY DEF SendBody, SendByHash, SendIndex, Sending
<1>2. job[r].op = "upload" => IndexesSent(r, mem[r].todo) /\ AllFan(r)
  BY <1>1 DEF SentRun
<1>3. CASE Ends(r, "failed")
  <2>1. pc'[r] = "failed"
    BY <1>3 DEF Ends, Goto, Typed
  <2> QED
    BY <2>1 DEF SentRun
<1>4. ASSUME Sent(r),
             \A i \in DOMAIN rel.files :
               Holds(c, i, rel.files[i]) \/ Request(r) = PutIndex(c, i, rel.files[i]) =>
                 \E d, content : d = c /\ content = rel.files[i] /\ Holds(d, i, content)'
      PROVE  SentRun(r)'
  <2>1. /\ mem'[r].rel = rel /\ pc'[r] = "publishing" /\ job' = job
        /\ EntriesOf(mem[r].todo) = EntriesOf(mem'[r].todo) \cup {Request(r)}
    BY <1>1, <1>4, SentLeaves DEF Fields
  <2>2. IndexesSent(r, mem[r].todo) => IndexesSent(r, mem[r].todo)'
    BY <1>4, <2>1 DEF IndexesSent
  <2>3. AllFan(r) => AllFan(r)'
    BY <2>1 DEF AllFan
  <2> QED
    BY <1>2, <2>1, <2>2, <2>3 DEF SentRun
<1>5. CASE (SendBody(r) \/ SendByHash(r)) /\ Sent(r)
  <2>1. \E x : repo' = [repo EXCEPT !.pool = x] \/ repo' = [repo EXCEPT !.byHash = x]
    BY <1>1, <1>5 DEF SendBody, SendByHash, Ends, Sent, Goto, Remember, Typed
  <2>2. repo'.index = repo.index
    BY <2>1 DEF Typed, Stored
  <2>3. Request(r).op # "putIndex"
    BY <1>5 DEF SendBody, SendByHash, Sending, Request
  <2>4. \A i, content : Request(r) # PutIndex(c, i, content)
    BY <2>3 DEF PutIndex
  <2> QED
    BY <1>4, <1>5, <2>2, <2>4 DEF Holds
<1>6. CASE SendIndex(r)
  <2>1. PICK i \in DOMAIN rel.files :
          /\ Request(r) = PutIndex(c, i, rel.files[i])
          /\ repo' = [repo EXCEPT !.index = With(@, <<c, i>>, rel.files[i])]
          /\ Sent(r)
    BY <1>6, IndexIsSent
  <2>2. repo'.index = With(repo.index, <<c, i>>, rel.files[i])
    BY <2>1 DEF Typed, Stored
  <2>3. /\ \A d, k, content : <<d, k>> # <<c, i>> /\ Holds(d, k, content) => Holds(d, k, content)'
        /\ \A d, k, content : <<d, k>> = <<c, i>> /\ content = rel.files[i] => Holds(d, k, content)'
    BY <2>2 DEF Holds, With
  <2>4. ASSUME NEW k \in DOMAIN rel.files,
               Holds(c, k, rel.files[k]) \/ Request(r) = PutIndex(c, k, rel.files[k])
        PROVE  \E d, content : d = c /\ content = rel.files[k] /\ Holds(d, k, content)'
    <3>1. CASE k = i
      BY <2>3, <3>1
    <3>2. CASE k # i
      <4>1. <<c, k>> # <<c, i>> /\ Request(r) # PutIndex(c, k, rel.files[k])
        BY <2>1, <3>2 DEF PutIndex
      <4> QED
        BY <2>3, <2>4, <4>1
    <3> QED
      BY <3>1, <3>2
  <2> QED
    BY <1>4, <2>1, <2>4
<1> QED
  BY <1>1, <1>3, <1>5, <1>6 DEF SendBody, SendByHash

LEMMA ReleasingSends ==
  ASSUME Typed, NEW r \in Run, SentRun(r),
         BeginRelease(r) \/ Sign(r) \/ SendRelease(r) \/ SendSignature(r)
           \/ DeleteSignature(r) \/ Published(r)
  PROVE  SentRun(r)'
<1> DEFINE c == Target(job[r])
           rel == mem[r].rel
<1>1. pc[r] \in {"publishing", "releasing"} /\ c \in Codename
  <2>1. pc[r] \in {"publishing", "releasing"}
    BY DEF BeginRelease, Sign, SendRelease, SendSignature, DeleteSignature, Published, Releasing
  <2> QED
    BY <2>1, JobsAssumption DEF Typed, GoodRun
<1>2. CASE BeginRelease(r)
  <2>1. /\ pc[r] = "publishing" /\ mem[r].todo = <<>> /\ pc'[r] = "releasing"
        /\ job' = job /\ repo' = repo
        /\ mem'[r].rel = rel /\ mem'[r].todo = ReleaseRequests(job[r].sign)
    BY <1>2 DEF BeginRelease, Goto, Remember, Typed, GoodRun, GoodMemory, Fields
  <2>2. IndexesSent(r, <<>>) => IndexesSent(r, <<>>)'
    BY <2>1 DEF IndexesSent, Holds
  <2>3. AllFan(r) => AllFan(r)'
    BY <2>1 DEF AllFan
  <2> QED
    BY <2>1, <2>2, <2>3, ReleaseIsRequested DEF SentRun
<1>3. CASE \E label \in {"unsigned", "done"} : Ends(r, label)
  <2>1. pc'[r] \in {"unsigned", "done"}
    BY <1>3 DEF Ends, Goto, Typed
  <2> QED
    BY <2>1 DEF SentRun
\* A request of Release.Publish, which changes no index.
<1>4. ASSUME pc[r] = "releasing", Sent(r), mem[r].todo # <<>>, repo'.index = repo.index,
             repo'.release[c] = IF Request(r) = "putRelease" THEN rel ELSE repo.release[c]
      PROVE  SentRun(r)'
  <2>1. /\ mem'[r].rel = rel /\ pc' = pc /\ job' = job
        /\ EntriesOf(mem[r].todo) = EntriesOf(mem'[r].todo) \cup {Request(r)}
    BY <1>4, SentLeaves DEF Fields
  <2>2. IndexesSent(r, <<>>) => IndexesSent(r, <<>>)'
    BY <1>4, <2>1 DEF IndexesSent, Holds
  <2>3. AllFan(r) => AllFan(r)'
    BY <2>1 DEF AllFan
  <2>4. "putRelease" \notin EntriesOf(mem'[r].todo) => repo'.release[c] = rel
    BY <1>4, <2>1 DEF SentRun
  <2> QED
    BY <1>4, <2>1, <2>2, <2>3, <2>4 DEF SentRun
<1>5. CASE Sign(r) /\ Sent(r)
  <2>1. Request(r) = "sign"
    BY <1>5 DEF Sign, Releasing, Request
  <2> QED
    BY <1>4, <1>5, <2>1 DEF Sign, Releasing
<1>6. CASE SendRelease(r)
  <2>1. Request(r) = "putRelease" /\ repo' = [repo EXCEPT !.release[c] = rel]
    BY <1>6 DEF SendRelease, Releasing, Request
  <2> QED
    BY <1>1, <1>4, <1>6, <2>1 DEF SendRelease, Releasing, Typed, Stored
<1>7. CASE SendSignature(r) \/ DeleteSignature(r)
  <2>1. Request(r) \in {"putGpg", "putInRelease", "deleteGpg", "deleteInRelease"}
    BY <1>7 DEF SendSignature, DeleteSignature, Releasing, Request
  <2>2. repo'.release = repo.release /\ repo'.index = repo.index
    BY <1>7 DEF SendSignature, DeleteSignature, Typed, Stored
  <2> QED
    BY <1>4, <1>7, <2>1, <2>2 DEF SendSignature, DeleteSignature, Releasing
<1> QED
  BY <1>2, <1>3, <1>5, <1>6, <1>7 DEF Sign, Published

LEMMA StepSends ==
  ASSUME Inv, Typed, TakeTurns, SentInv, NEW r \in Run, Step(r) \/ Stop(r)
  PROVE  SentInv'
<1>1. OwnStep(r) /\ TouchesOwn(r) /\ SentRun(r)
  BY StepIsOwn, StepTouches DEF SentInv
<1>2. \A s \in Run \ {r} : SentRun(s)'
  BY <1>1, OthersUntouched, UntouchedKeepsSent DEF SentInv
<1> SUFFICES SentRun(r)'
  BY <1>2 DEF SentInv
<1>3. ASSUME pc'[r] \notin {"publishing", "releasing"}
      PROVE  SentRun(r)'
  BY <1>3 DEF SentRun
<1>4. CASE Start(r)
  <2>1. PICK j : StartsWith(r, j)
    BY <1>4, StartsWithAJob
  <2> QED
    BY <1>3, <2>1 DEF StartsWith
<1>5. CASE \/ GetSource(r) \/ GetRelease(r) \/ GetManifest(r) \/ HeadBody(r) \/ Answer(r)
           \/ ListIndexes(r) \/ ScanIndex(r) \/ ListPool(r) \/ DeleteBody(r) \/ Cleaned(r)
           \/ Stop(r)
  <2>1. pc'[r] \in Labels \ {"publishing", "releasing"}
    BY <1>5 DEF GetSource, GetRelease, GetManifest, HeadBody, Answer, Read, ListIndexes, ScanIndex,
               ListPool, DeleteBody, Cleaned, Stop, Ends, Goto, Typed, Labels, Ended
  <2> QED
    BY <1>3, <2>1
<1>6. CASE PrepareUpload(r) \/ PrepareCopy(r) \/ PrepareDelete(r) \/ PrepareVerify(r)
  BY <1>1, <1>6, PrepareSends
<1>7. CASE SendBody(r) \/ SendByHash(r) \/ SendIndex(r)
  BY <1>1, <1>7, BulkSends
<1>8. CASE \/ BeginRelease(r) \/ Sign(r) \/ SendRelease(r) \/ SendSignature(r)
           \/ DeleteSignature(r) \/ Published(r)
  BY <1>1, <1>8, ReleasingSends
<1> QED
  BY <1>4, <1>5, <1>6, <1>7, <1>8 DEF Step

LEMMA SentAlways ==
  ASSUME TakeTurns, InitialRepo = EmptyRepo
  PROVE  Spec => []SentInv
<1>1. Init => SentInv
  BY DEF Init, SentInv, SentRun
<1>2. Inv /\ Typed /\ SentInv /\ [Next]_vars => SentInv'
  <2> SUFFICES ASSUME Inv, Typed, SentInv, [Next]_vars
               PROVE  SentInv'
    OBVIOUS
  <2>1. CASE \E r \in Run : Step(r) \/ Stop(r)
    BY <2>1, StepSends
  <2>2. CASE ClientFetches \/ AllDone \/ UNCHANGED vars
    BY <2>2 DEF ClientFetches, AllDone, vars, SentInv, SentRun, AllFan, IndexesSent, Holds
  <2> QED
    BY <2>1, <2>2 DEF Next
<1> QED
  BY <1>1, <1>2, OrderAlways, TypedAlways, PTL DEF Spec

\* Only Published ends a run with success after Release was sent.
LEMMA PublishedEnds ==
  ASSUME Typed, NEW r \in Run, Step(r) \/ Stop(r), pc[r] = "releasing", pc'[r] = "done"
  PROVE  Published(r)
<1>1. CASE Start(r) \/ GetSource(r) \/ GetRelease(r) \/ GetManifest(r) \/ HeadBody(r) \/ Answer(r)
  BY <1>1 DEF Start, GetSource, GetRelease, GetManifest, HeadBody, Answer, Read
<1>2. CASE PrepareUpload(r) \/ PrepareCopy(r) \/ PrepareDelete(r) \/ PrepareVerify(r)
  BY <1>2, PreparePublishes DEF Read
<1>3. CASE SendBody(r) \/ SendByHash(r) \/ SendIndex(r) \/ BeginRelease(r)
  BY <1>3 DEF SendBody, SendByHash, SendIndex, Sending, BeginRelease
<1>4. CASE Sign(r) \/ SendRelease(r) \/ SendSignature(r) \/ DeleteSignature(r) \/ Stop(r)
  <2>1. Sent(r) => pc'[r] = pc[r]
    BY DEF Sent
  <2>2. Ends(r, "unsigned") \/ Ends(r, "stopped") => pc'[r] # "done"
    BY DEF Ends, Goto, Typed
  <2> QED
    BY <1>4, <2>1, <2>2 DEF Sign, SendRelease, SendSignature, DeleteSignature, Stop
<1>5. CASE ListIndexes(r) \/ ScanIndex(r) \/ ListPool(r) \/ DeleteBody(r) \/ Cleaned(r)
  BY <1>5 DEF ListIndexes, ScanIndex, ListPool, DeleteBody, Cleaned
<1> QED
  BY <1>1, <1>2, <1>3, <1>4, <1>5 DEF Step

LEMMA UploadFansOut ==
  ASSUME Typed, NEW r \in Run, SentRun(r), Published(r), job[r].op = "upload",
         NEW n \in LatestForAll(job[r]),
         NEW a \in EntriesOf(repo.release[job[r].codename].archs)
  PROVE  job[r].files[n] \in Listed(IndexAt(job[r].codename, <<job[r].comp, a>>))
<1> DEFINE i == <<job[r].comp, a>>
<1>1. /\ Target(job[r]) = job[r].codename /\ TargetComp(job[r]) = job[r].comp
      /\ pc[r] = "releasing" /\ mem[r].todo = <<>> /\ EntriesOf(<<>>) = {}
  BY DEF Target, TargetComp, Published, EntriesOf
<1>2. /\ repo.release[job[r].codename] = mem[r].rel
      /\ Fans(job[r], mem[r].rel.files[i])
      /\ Holds(job[r].codename, i, mem[r].rel.files[i])
  BY <1>1 DEF SentRun, AllFan, IndexesSent
<1> QED
  BY <1>2 DEF Holds, IndexAt, Fans

\* query.go, "Architecture-all packages are propagated into every architecture's
\* manifest at upload time": when an upload ends, each of its architecture-all
\* packages is in the index of every architecture of Release, whatever the other
\* commands are doing and wherever runs have stopped, if commands take turns on a
\* codename.
THEOREM PackagesFanOut ==
  ASSUME TakeTurns, InitialRepo = EmptyRepo
  PROVE  Spec => FansOut
<1>1. Typed /\ SentInv /\ [Next]_vars =>
        [\A r \in Run :
           /\ pc[r] = "releasing" /\ pc'[r] = "done"
           /\ job[r].op = "upload"
           => LET j == job[r]
                  toAll == {n \in DOMAIN j.files : UploadArch(j, j.files[n]) = AllArch}
              IN \A n \in toAll :
                   (\A k \in toAll : k > n =>
                      ~Replaces([pkg |-> j.files[n]], [pkg |-> j.files[k]], j.preserve))
                   => \A a \in EntriesOf(repo.release[j.codename].archs) :
                        j.files[n] \in Listed(IndexAt(j.codename, <<j.comp, a>>))]_vars
  <2> SUFFICES ASSUME Typed, SentInv, [Next]_vars, NEW r \in Run,
                      pc[r] = "releasing", pc'[r] = "done", job[r].op = "upload"
               PROVE  \A n \in LatestForAll(job[r]) :
                        \A a \in EntriesOf(repo.release[job[r].codename].archs) :
                          job[r].files[n] \in Listed(IndexAt(job[r].codename, <<job[r].comp, a>>))
    BY DEF LatestForAll, ForAll
  <2>1. PICK s \in Run : Step(s) \/ Stop(s)
    BY DEF Next, ClientFetches, AllDone, vars
  <2>2. s = r
    BY <2>1, StepIsOwn DEF OwnStep, SameWork
  <2> QED
    BY <2>1, <2>2, PublishedEnds, UploadFansOut DEF SentInv
<1> QED
  BY <1>1, SentAlways, TypedAlways, PTL DEF Spec, FansOut

-----------------------------------------------------------------------------
(* What is stored once the commands have finished.                         *)

\* Release lists the indexes of all its components and architectures.
Full(rel) == DOMAIN rel.files = EntriesOf(rel.comps) \X EntriesOf(rel.archs)

\* Every index of rel is stored as rel describes it ...
Describes(c, rel) == \A i \in DOMAIN rel.files : Holds(c, i, rel.files[i])

\* ... and no other is.
Covers(c, rel) ==
  \A key \in DOMAIN repo.index : key[1] = c => \E i \in DOMAIN rel.files : key = <<c, i>>

\* rel is stored with the signatures of its last publication.
SignedAs(c, rel, signed) ==
  /\ repo.release[c] = rel
  /\ repo.gpg[c] = IF signed THEN rel ELSE None
  /\ repo.inRelease[c] = repo.gpg[c]

\* A codename that nobody has left half published.
Whole(c) ==
  LET rel == IF repo.release[c] = None THEN EmptyRelease ELSE repo.release[c]
  IN /\ Describes(c, rel) /\ Covers(c, rel)
     /\ repo.release[c] # None => Full(rel) /\ SignedAs(c, rel, rel.signed)

\* The indexes of rel are stored, or going to be.
Describing(c, rel, requests) ==
  \A i \in DOMAIN rel.files :
    Holds(c, i, rel.files[i]) \/ PutIndex(c, i, rel.files[i]) \in EntriesOf(requests)

WholeRun(r) ==
  LET c == Target(job[r])
      rel == mem[r].rel
      todo == mem[r].todo
  IN /\ pc[r] = "reading" /\ job[r].op \in Writers => Describes(c, rel) /\ Covers(c, rel)
     /\ pc[r] = "publishing" => Full(rel) /\ Describing(c, rel, todo) /\ Covers(c, rel)
     /\ pc[r] = "releasing" =>
          /\ Full(rel) /\ Describes(c, rel) /\ Covers(c, rel)
          /\ todo = <<>> => SignedAs(c, rel, job[r].sign)

Publishing(c) == \E r \in Run : PastBodies(r) /\ Target(job[r]) = c

AllWhole ==
  /\ \A c \in Codename : Whole(c) \/ Publishing(c)
  /\ \A r \in Run : WholeRun(r)

\* A run that stops leaves its codename as it is.
WholeInv == Stopped = {} => AllWhole

LEMMA UntouchedStays ==
  ASSUME NEW c, Untouched(c), NEW rel, NEW signed
  PROVE  /\ Describes(c, rel) => Describes(c, rel)'
         /\ Covers(c, rel) => Covers(c, rel)'
         /\ SignedAs(c, rel, signed) => SignedAs(c, rel, signed)'
         /\ \A requests : Describing(c, rel, requests) => Describing(c, rel, requests)'
BY DEF Untouched, Describes, Covers, SignedAs, Describing

LEMMA UntouchedStaysWhole ==
  ASSUME NEW c, Untouched(c), Whole(c)
  PROVE  Whole(c)'
<1>1. PICK rel : rel = (IF repo.release[c] = None THEN EmptyRelease ELSE repo.release[c])
  OBVIOUS
<1>2. /\ repo'.release[c] = repo.release[c]
      /\ Describes(c, rel)' /\ Covers(c, rel)'
      /\ repo.release[c] # None => SignedAs(c, rel, rel.signed)'
  BY <1>1, UntouchedStays DEF Whole, Untouched
<1> QED
  BY <1>1, <1>2 DEF Whole

\* A run goes on as it was when its codename is untouched.
LEMMA UntouchedKeepsRun ==
  ASSUME Typed, NEW s \in Run, WholeRun(s), SameWork(s),
         s \in Active /\ job[s].op \in Writers => Untouched(Target(job[s]))
  PROVE  WholeRun(s)'
<1>1. PICK c, rel, todo, sign :
        c = Target(job[s]) /\ rel = mem[s].rel /\ todo = mem[s].todo /\ sign = job[s].sign
  OBVIOUS
<1>2. /\ pc'[s] = pc[s] /\ job'[s] = job[s]
      /\ mem'[s].rel = rel /\ mem'[s].todo = todo
  BY <1>1 DEF SameWork, Fields
<1>3. Target(job'[s]) = c
  BY <1>1, <1>2
<1>4. CASE pc[s] \notin {"reading", "publishing", "releasing"} \/ job[s].op \notin Writers
  BY <1>2, <1>4 DEF WholeRun, Typed, GoodRun, Work
<1>5. CASE pc[s] \in {"reading", "publishing", "releasing"} /\ job[s].op \in Writers
  <2>1. Untouched(c)
    BY <1>1, <1>5 DEF Active, Ended
  <2>2. /\ Describes(c, rel) => Describes(c, rel)'
        /\ Covers(c, rel) => Covers(c, rel)'
        /\ SignedAs(c, rel, sign) => SignedAs(c, rel, sign)'
        /\ Describing(c, rel, todo) => Describing(c, rel, todo)'
    BY <2>1, UntouchedStays
  <2> QED
    BY <1>1, <1>2, <1>3, <1>5, <2>2 DEF WholeRun
<1> QED
  BY <1>4, <1>5

\* A step of r but for its own codename.
LEMMA OwnKeepsWhole ==
  ASSUME Inv, Typed, TakeTurns, AllWhole, NEW r \in Run, OwnStep(r), TouchesOwn(r),
         \A d : PastBodies(r) /\ d = Target(job[r]) => Whole(d)' \/ PastBodies(r)',
         WholeRun(r)'
  PROVE  AllWhole'
<1>1. ASSUME NEW s \in Run, PastBodies(s)
      PROVE  /\ s \in Active /\ job[s].op \in Writers /\ Target(job[s]) \in Codename
             /\ pc[s] # "idle"
  BY <1>1, JobsAssumption DEF PastBodies, Active, Ended, Typed, GoodRun, Work
<1>2. ASSUME NEW s \in Run, s # r
      PROVE  SameWork(s) /\ WholeRun(s)'
  BY <1>2, OthersUntouched, UntouchedKeepsRun DEF AllWhole
<1>3. ASSUME NEW s \in Run, s # r, PastBodies(s)
      PROVE  PastBodies(s)' /\ job'[s] = job[s]
  BY <1>2, <1>3 DEF PastBodies, SameWork, Fields
<1>4. PastBodies(r) => job'[r] = job[r]
  BY <1>1 DEF OwnStep
<1>5. ASSUME NEW d \in Codename
      PROVE  Whole(d)' \/ Publishing(d)'
  <2>1. CASE PastBodies(r) /\ d = Target(job[r])
    <3>1. PastBodies(r)' => Publishing(d)'
      BY <1>4, <2>1 DEF Publishing, Target
    <3> QED
      BY <2>1, <3>1
  <2>2. CASE ~(PastBodies(r) /\ d = Target(job[r])) /\ Whole(d)
    BY <2>2, UntouchedStaysWhole DEF TouchesOwn
  <2>3. CASE ~(PastBodies(r) /\ d = Target(job[r])) /\ Publishing(d)
    <3>1. PICK s \in Run : PastBodies(s) /\ Target(job[s]) = d
      BY <2>3 DEF Publishing
    <3>2. s # r
      BY <2>3, <3>1
    <3>3. PastBodies(s)' /\ Target(job'[s]) = d
      BY <1>3, <3>1, <3>2
    <3> QED
      BY <3>3 DEF Publishing
  <2> QED
    BY <2>1, <2>2, <2>3 DEF AllWhole
<1> QED
  BY <1>2, <1>5 DEF AllWhole

\* A step that publishes nothing.
LEMMA QuietKeepsWhole ==
  ASSUME Inv, Typed, TakeTurns, AllWhole, NEW r \in Run, OwnStep(r), TouchesOwn(r),
         repo'.release = repo.release, repo'.gpg = repo.gpg, repo'.inRelease = repo.inRelease,
         repo'.index = repo.index, PastBodies(r) => PastBodies(r)', WholeRun(r)'
  PROVE  AllWhole'
BY OwnKeepsWhole

\* A command that ends before it has touched an index.
LEMMA EndsKeepWhole ==
  ASSUME Inv, Typed, TakeTurns, AllWhole, NEW r \in Run, OwnStep(r), TouchesOwn(r), NEW label \in Ended,
         Ends(r, label), ~PastBodies(r), UNCHANGED repo
  PROVE  AllWhole'
<1>1. pc'[r] = label
  BY DEF Ends, Goto, Typed
<1>2. WholeRun(r)'
  BY <1>1 DEF WholeRun, Ended
<1> QED
  BY <1>2, QuietKeepsWhole

LEMMA ReadingKeepsWhole ==
  ASSUME Inv, Typed, TakeTurns, AllWhole, NEW r \in Run, OwnStep(r), TouchesOwn(r),
         Start(r) \/ GetSource(r) \/ GetRelease(r) \/ GetManifest(r) \/ HeadBody(r) \/ Answer(r)
  PROVE  AllWhole'
<1>1. UNCHANGED repo /\ ~PastBodies(r)
  BY DEF Start, GetSource, GetRelease, GetManifest, HeadBody, Answer, Read, PastBodies
<1>2. CASE Start(r)
  <2>1. PICK j \in Jobs : StartsWith(r, j)
    BY <1>2, StartsWithAJob
  <2>2. WholeRun(r)'
    BY <2>1 DEF WholeRun, StartsWith, Writers
  <2> QED
    BY <1>1, <2>2, QuietKeepsWhole
<1>3. CASE GetSource(r)
  <2>1. pc'[r] = "getRelease"
    BY <1>3 DEF GetSource, Goto, Typed
  <2>2. WholeRun(r)'
    BY <2>1 DEF WholeRun
  <2> QED
    BY <1>1, <2>2, QuietKeepsWhole
<1>4. CASE GetRelease(r)
  <2> DEFINE j == job[r]
             c == Target(j)
             found == IF repo.release[c] = None THEN EmptyRelease ELSE repo.release[c]
             rel == [found EXCEPT !.byHash = IF j.byHash = Unset THEN @ ELSE j.byHash]
  <2>1. /\ mem'[r].rel = rel /\ job' = job /\ pc[r] = "getRelease" /\ pc'[r] = "reading"
    BY <1>4 DEF GetRelease, Goto, Remember, Typed, GoodRun, GoodMemory, Fields
  <2>2. c \in Codename /\ r \in Active
    BY <2>1, JobsAssumption DEF Typed, GoodRun, Active, Ended
  <2>3. rel.files = found.files
    <3>1. "files" \in DOMAIN found
      BY <2>2, EmptyReleaseIsGood DEF Typed, Stored, GoodRelease, IsRelease
    <3> HIDE DEF found
    <3> QED
      BY <3>1
  <2>4. ASSUME j.op \in Writers
        PROVE  Whole(c)
    <3>1. ASSUME NEW s \in Run, PastBodies(s), Target(job[s]) = c
          PROVE  FALSE
      <4>1. s \in Active /\ job[s].op \in Writers /\ s # r
        BY <2>1, <3>1 DEF PastBodies, Active, Ended, Typed, GoodRun, Work
      <4> QED
        BY <2>2, <2>4, <3>1, <4>1, WritersApart
    <3> QED
      BY <2>2, <3>1 DEF AllWhole, Publishing
  <2>5. ASSUME j.op \in Writers
        PROVE  Describes(c, rel) /\ Covers(c, rel)
    BY <2>3, <2>4, <2>5 DEF Whole, Describes, Covers
  <2> HIDE DEF rel
  <2>6. WholeRun(r)'
    BY <1>1, <2>1, <2>5 DEF WholeRun, Describes, Covers, Holds
  <2> QED
    BY <1>1, <2>6, QuietKeepsWhole
<1>5. CASE GetManifest(r) \/ HeadBody(r)
  <2>1. /\ pc[r] = "reading" /\ pc' = pc /\ mem'[r].rel = mem[r].rel /\ job' = job
    BY <1>5, ManifestIsRead, BodyIsAskedFor DEF GetManifest, HeadBody, Fields
  <2>2. WholeRun(r)'
    BY <1>1, <2>1 DEF AllWhole, WholeRun, Describes, Covers, Holds
  <2> QED
    BY <1>1, <2>2, QuietKeepsWhole
<1>6. CASE Answer(r)
  BY <1>1, <1>6, EndsKeepWhole DEF Answer, Ended
<1> QED
  BY <1>2, <1>3, <1>4, <1>5, <1>6

\* A run sends every index of its Release that is not stored as Release has it.
LEMMA PrepareKeepsWhole ==
  ASSUME Inv, Typed, TakeTurns, AllWhole, NEW r \in Run, OwnStep(r), TouchesOwn(r),
         PrepareUpload(r) \/ PrepareCopy(r) \/ PrepareDelete(r) \/ PrepareVerify(r)
  PROVE  AllWhole'
<1>1. Read(r) /\ job[r].op \in Writers /\ UNCHANGED <<repo, job>> /\ ~PastBodies(r)
  BY PreparePublishes DEF Read, PastBodies
<1>2. CASE Ends(r, "failed") \/ Ends(r, "done")
  BY <1>1, <1>2, EndsKeepWhole DEF Ended
<1>3. ASSUME NEW rel, NEW archs, NEW mans, Publication(r, rel, archs, mans)
      PROVE  AllWhole'
  <2> DEFINE c == Target(job[r])
             old == mem[r].rel
             updated == {TargetComp(job[r])} \X archs
             fresh == updated \cup (DOMAIN rel.files \ DOMAIN old.files)
  <2>1. PICK requests :
          /\ Publish(r, requests, rel)
          /\ Completes(rel, old, updated, mans)
          /\ EntriesOf(requests) = Bodies(job[r], UploadedBodies(job[r])) \cup Indexes(c, fresh, rel)
    BY <1>3 DEF Publication, Publishes
  <2>2. mem'[r].todo = requests /\ mem'[r].rel = rel /\ pc'[r] = "publishing"
    BY <2>1 DEF Publish, Goto, Remember, Typed, GoodRun, GoodMemory, Fields
  <2>3. Describes(c, old) /\ Covers(c, old)
    BY <1>1 DEF AllWhole, WholeRun, Read
  <2>4. /\ Full(rel) /\ DOMAIN old.files \subseteq DOMAIN rel.files
        /\ \A i \in DOMAIN rel.files \ fresh : i \in DOMAIN old.files /\ rel.files[i] = old.files[i]
    BY <2>1 DEF Completes, Full
  <2> HIDE DEF fresh
  <2>5. \A i \in fresh : PutIndex(c, i, rel.files[i]) \in EntriesOf(requests)
    BY <2>1 DEF Indexes
  <2>6. Describing(c, rel, requests) /\ Covers(c, rel)
    BY <2>3, <2>4, <2>5 DEF Describes, Describing, Covers
  <2>7. WholeRun(r)'
    BY <1>1, <2>2, <2>4, <2>6 DEF WholeRun, Describing, Covers, Holds
  <2> QED
    BY <1>1, <2>7, QuietKeepsWhole
<1> QED
  BY <1>2, <1>3, PreparePublishes

LEMMA BulkKeepsWhole ==
  ASSUME Inv, Typed, TakeTurns, AllWhole, NEW r \in Run, OwnStep(r), TouchesOwn(r),
         SendBody(r) \/ SendByHash(r) \/ SendIndex(r)
  PROVE  AllWhole'
<1> DEFINE c == Target(job[r])
           rel == mem[r].rel
<1>1. pc[r] = "publishing" /\ mem[r].todo # <<>>
  BY DEF SendBody, SendByHash, SendIndex, Sending
<1>2. /\ c \in Codename /\ BulkRequest(job[r], rel, Request(r))
      /\ Full(rel) /\ Describing(c, rel, mem[r].todo) /\ Covers(c, rel)
  BY <1>1, RequestIsBulk DEF AllWhole, WholeRun
\* What is left after a request.
<1>3. ASSUME Sent(r)
      PROVE  /\ mem'[r].rel = rel /\ pc'[r] = "publishing" /\ job' = job
             /\ EntriesOf(mem[r].todo) = EntriesOf(mem'[r].todo) \cup {Request(r)}
             /\ PastBodies(r) => PastBodies(r)'
  <2>1. /\ mem'[r].rel = rel /\ pc' = pc /\ job' = job
        /\ EntriesOf(mem[r].todo) = EntriesOf(mem'[r].todo) \cup {Request(r)}
    BY <1>1, <1>3, SentLeaves DEF Fields
  <2> QED
    BY <1>1, <2>1 DEF PastBodies
<1>4. ASSUME Sent(r), repo'.index = repo.index, repo'.release = repo.release,
             repo'.gpg = repo.gpg, repo'.inRelease = repo.inRelease, Request(r).op # "putIndex"
      PROVE  AllWhole'
  <2>1. \A i, content : PutIndex(c, i, content) # Request(r)
    BY <1>4 DEF PutIndex
  <2>2. Describing(c, rel, mem'[r].todo) /\ Covers(c, rel)
    BY <1>2, <1>3, <1>4, <2>1 DEF Describing
  <2>3. WholeRun(r)'
    BY <1>2, <1>3, <1>4, <2>2 DEF WholeRun, Describing, Covers, Holds
  <2> QED
    BY <1>3, <1>4, <2>3, QuietKeepsWhole
<1>5. CASE SendBody(r) /\ Ends(r, "failed") /\ UNCHANGED repo
  <2>1. Request(r).op = "putBody" /\ Request(r) \in EntriesOf(mem[r].todo)
    BY <1>1, <1>5, TailEntries DEF SendBody, Sending, Request, Typed, GoodRun, GoodMemory
  <2>2. ~PastBodies(r)
    BY <1>1, <2>1 DEF PastBodies
  <2> QED
    BY <1>5, <2>2, EndsKeepWhole DEF Ended
<1>6. CASE SendBody(r) /\ Sent(r)
  <2>1. \E pool : repo' = [repo EXCEPT !.pool = pool]
    BY <1>6, <1>1 DEF SendBody, Ends, Sent, Goto, Remember, Typed
  <2>2. Request(r).op = "putBody"
    BY <1>6 DEF SendBody, Sending, Request
  <2> QED
    BY <1>4, <1>6, <2>1, <2>2 DEF Typed, Stored
<1>7. CASE SendByHash(r)
  <2>1. Sent(r) /\ \E objects : repo' = [repo EXCEPT !.byHash = objects]
    BY <1>7 DEF SendByHash
  <2>2. Request(r).op = "putByHash"
    BY <1>7 DEF SendByHash, Sending, Request
  <2> QED
    BY <1>4, <2>1, <2>2 DEF Typed, Stored
<1>8. CASE SendIndex(r)
  <2>1. PICK i \in DOMAIN rel.files :
          /\ Request(r) = PutIndex(c, i, rel.files[i])
          /\ repo' = [repo EXCEPT !.index = With(@, <<c, i>>, rel.files[i])]
          /\ Sent(r) /\ PastBodies(r)
    BY <1>8, IndexIsSent
  <2>2. repo'.index = With(repo.index, <<c, i>>, rel.files[i])
    BY <2>1 DEF Typed, Stored
  <2>3. /\ \A d, k, content : <<d, k>> # <<c, i>> /\ Holds(d, k, content) => Holds(d, k, content)'
        /\ \A d, k, content : <<d, k>> = <<c, i>> /\ content = rel.files[i] => Holds(d, k, content)'
        /\ \A key \in DOMAIN repo'.index : key \in DOMAIN repo.index \/ key = <<c, i>>
    BY <2>2 DEF Holds, With
  <2>4. WholeRun(r)'
    <3>1. \A k \in DOMAIN rel.files :
            \/ \E d, l, content : d = c /\ l = k /\ content = rel.files[k] /\ Holds(d, l, content)'
            \/ PutIndex(c, k, rel.files[k]) \in EntriesOf(mem'[r].todo)
      <4> SUFFICES ASSUME NEW k \in DOMAIN rel.files
                   PROVE  \/ \E d, l, content : d = c /\ l = k /\ content = rel.files[k]
                                                /\ Holds(d, l, content)'
                          \/ PutIndex(c, k, rel.files[k]) \in EntriesOf(mem'[r].todo)
        OBVIOUS
      <4>1. Holds(c, k, rel.files[k]) \/ PutIndex(c, k, rel.files[k]) \in EntriesOf(mem[r].todo)
        BY <1>2 DEF Describing
      <4>2. CASE k = i
        BY <2>3, <4>2
      <4>3. CASE k # i
        <5>1. PutIndex(c, k, rel.files[k]) # Request(r)
          BY <2>1, <4>3 DEF PutIndex
        <5>2. <<c, k>> # <<c, i>>
          BY <4>3
        <5> QED
          BY <1>3, <2>1, <2>3, <4>1, <5>1, <5>2
      <4> QED
        BY <4>2, <4>3
    <3>2. \A key \in DOMAIN repo'.index : key[1] = c => \E k \in DOMAIN rel.files : key = <<c, k>>
      BY <1>2, <2>3 DEF Covers
    <3>3. pc'[r] = "publishing" /\ job' = job /\ mem'[r].rel = rel
      BY <1>3, <2>1
    <3> QED
      BY <1>2, <3>1, <3>2, <3>3 DEF WholeRun, Describing, Covers, Holds
  <2>5. PastBodies(r)'
    BY <1>3, <2>1
  <2> QED
    BY <2>1, <2>4, <2>5, OwnKeepsWhole
<1> QED
  BY <1>5, <1>6, <1>7, <1>8 DEF SendBody

LEMMA ReleasingKeepsWhole ==
  ASSUME Inv, Typed, TakeTurns, NoneIsNoRelease, AllWhole, NEW r \in Run, OwnStep(r), TouchesOwn(r),
         BeginRelease(r) \/ ReleaseRequest(r) \/ Published(r)
  PROVE  AllWhole'
<1> DEFINE c == Target(job[r])
           rel == mem[r].rel
           sign == job[r].sign
<1>1. /\ pc[r] \in {"publishing", "releasing"} /\ c \in Codename
      /\ rel # None /\ rel.signed = sign
  <2>1. pc[r] \in {"publishing", "releasing"}
    BY DEF BeginRelease, ReleaseRequest, Published
  <2> QED
    BY <2>1, JobsAssumption DEF Inv, Dated, Typed, GoodRun, GoodMemory, NoneIsNoRelease
<1>2. WholeRun(r)
  BY DEF AllWhole
<1>3. CASE BeginRelease(r)
  <2>1. /\ pc[r] = "publishing" /\ mem[r].todo = <<>> /\ pc'[r] = "releasing"
        /\ job' = job /\ repo' = repo
        /\ mem'[r].rel = rel /\ mem'[r].todo = ReleaseRequests(sign)
    BY <1>3 DEF BeginRelease, Goto, Remember, Typed, GoodRun, GoodMemory, Fields
  <2>2. Full(rel) /\ Describing(c, rel, <<>>) /\ Covers(c, rel)
    BY <1>2, <2>1 DEF WholeRun
  <2>3. Describes(c, rel)
    BY <2>2, EmptyIsList DEF Describing, Describes
  <2>4. ReleaseRequests(sign) # <<>>
    BY DEF ReleaseRequests
  <2>5. WholeRun(r)'
    BY <2>1, <2>2, <2>3, <2>4 DEF WholeRun, Describes, Covers, Holds
  <2>6. PastBodies(r)'
    BY <2>1 DEF PastBodies
  <2> QED
    BY <2>1, <2>5, <2>6, QuietKeepsWhole
<1>4. CASE ReleaseRequest(r)
  <2>1. /\ pc[r] = "releasing" /\ mem[r].todo # <<>> /\ Sent(r)
        /\ Signing(r, c, rel) \/ Unsigning(r, c, rel)
    BY <1>4, NextRequest DEF ReleaseRequest, Releasing, SendRelease, SendSignature, DeleteSignature
  <2>2. mem'[r].rel = rel /\ pc' = pc /\ job' = job
    BY <2>1, SentLeaves DEF Fields
  <2>3. Full(rel) /\ Describes(c, rel) /\ Covers(c, rel)
    BY <1>2, <2>1 DEF WholeRun
  <2>4. repo'.index = repo.index
    BY <2>1 DEF Signing, Unsigning, Typed, Stored
  <2>5. mem'[r].todo = <<>> =>
          /\ repo'.release[c] = rel /\ repo'.gpg[c] = (IF sign THEN rel ELSE None)
          /\ repo'.inRelease[c] = repo'.gpg[c]
    <3>1. CASE Signing(r, c, rel)
      BY <1>1, <3>1 DEF Signing, Typed, Stored
    <3>2. CASE Unsigning(r, c, rel)
      BY <1>1, <3>2 DEF Unsigning, Typed, Stored
    <3> QED
      BY <2>1, <3>1, <3>2
  <2>6. WholeRun(r)'
    BY <2>1, <2>2, <2>3, <2>4, <2>5 DEF WholeRun, Describes, Covers, Holds, SignedAs
  <2>7. PastBodies(r) /\ PastBodies(r)'
    BY <2>1, <2>2 DEF PastBodies
  <2> QED
    BY <2>6, <2>7, OwnKeepsWhole
<1>5. CASE Published(r)
  <2>1. /\ pc[r] = "releasing" /\ mem[r].todo = <<>> /\ Ends(r, "done") /\ repo' = repo
    BY <1>5 DEF Published
  <2>2. pc'[r] = "done"
    BY <2>1 DEF Ends, Goto, Typed
  <2>3. WholeRun(r)'
    BY <2>2 DEF WholeRun
  <2>4. Full(rel) /\ Describes(c, rel) /\ Covers(c, rel) /\ SignedAs(c, rel, rel.signed)
    BY <1>1, <1>2, <2>1 DEF WholeRun
  <2>5. Whole(c)
    BY <1>1, <2>4 DEF Whole, SignedAs
  <2>6. \A d : d = c => Whole(d)'
    BY <2>1, <2>5 DEF Whole, Describes, Covers, SignedAs, Holds
  <2> QED
    BY <2>3, <2>6, OwnKeepsWhole
<1> QED
  BY <1>3, <1>4, <1>5

\* clean leaves the indexes and Release alone.
LEMMA CleanKeepsWhole ==
  ASSUME Inv, Typed, TakeTurns, AllWhole, NEW r \in Run, OwnStep(r), TouchesOwn(r),
         ListIndexes(r) \/ ScanIndex(r) \/ ListPool(r) \/ DeleteBody(r) \/ Cleaned(r)
  PROVE  AllWhole'
<1>1. /\ pc[r] \in {"listIndexes", "scan", "sweep"} /\ pc'[r] \in {"scan", "sweep", "done"}
      /\ repo' = repo \/ \E pool : repo' = [repo EXCEPT !.pool = pool]
  BY DEF ListIndexes, ScanIndex, ListPool, DeleteBody, Cleaned, Ends, Goto, Typed
<1>2. /\ repo'.release = repo.release /\ repo'.gpg = repo.gpg
      /\ repo'.inRelease = repo.inRelease /\ repo'.index = repo.index
  BY <1>1 DEF Typed, Stored
<1>3. ~PastBodies(r) /\ WholeRun(r)'
  BY <1>1 DEF PastBodies, WholeRun
<1> QED
  BY <1>2, <1>3, QuietKeepsWhole

LEMMA StepKeepsWhole ==
  ASSUME Inv, Typed, TakeTurns, NoneIsNoRelease, WholeInv, NEW r \in Run, Step(r) \/ Stop(r)
  PROVE  WholeInv'
<1>1. OwnStep(r) /\ TouchesOwn(r) /\ \A s \in Run \ {r} : pc'[s] = pc[s]
  BY StepIsOwn, StepTouches DEF OwnStep, SameWork
<1>2. ASSUME NEW label \in {"stopped", "unsigned"}, Ends(r, label)
      PROVE  Stopped' # {}
  BY <1>2 DEF Ends, Goto, Typed, Stopped
<1>3. pc[r] \notin {"stopped", "unsigned"}
  BY StepMoves DEF Moves, Active, Ended
<1>4. Stopped' = {} => Stopped = {}
  BY <1>1, <1>3 DEF Stopped
<1> SUFFICES ASSUME AllWhole, Stopped' = {}
             PROVE  AllWhole'
  BY <1>4 DEF WholeInv
<1>5. CASE Start(r) \/ GetSource(r) \/ GetRelease(r) \/ GetManifest(r) \/ HeadBody(r) \/ Answer(r)
  BY <1>1, <1>5, ReadingKeepsWhole
<1>6. CASE PrepareUpload(r) \/ PrepareCopy(r) \/ PrepareDelete(r) \/ PrepareVerify(r)
  BY <1>1, <1>6, PrepareKeepsWhole
<1>7. CASE SendBody(r) \/ SendByHash(r) \/ SendIndex(r)
  BY <1>1, <1>7, BulkKeepsWhole
<1>8. CASE BeginRelease(r) \/ Published(r)
  BY <1>1, <1>8, ReleasingKeepsWhole
<1>9. CASE Sign(r) \/ SendRelease(r) \/ SendSignature(r) \/ DeleteSignature(r)
  <2>1. ReleaseRequest(r)
    BY <1>2, <1>9 DEF ReleaseRequest, Sign, SendRelease, SendSignature, DeleteSignature, Releasing
  <2> QED
    BY <1>1, <2>1, ReleasingKeepsWhole
<1>10. CASE ListIndexes(r) \/ ScanIndex(r) \/ ListPool(r) \/ DeleteBody(r) \/ Cleaned(r)
  BY <1>1, <1>10, CleanKeepsWhole
<1>11. CASE Stop(r)
  BY <1>2, <1>11 DEF Stop
<1> QED
  BY <1>5, <1>6, <1>7, <1>8, <1>9, <1>10, <1>11 DEF Step

LEMMA StutterKeepsWhole ==
  ASSUME WholeInv, UNCHANGED <<repo, pc, job, mem>>
  PROVE  WholeInv'
<1>1. Stopped' = Stopped
  BY DEF Stopped
<1>2. AllWhole => AllWhole'
  BY DEF AllWhole, Whole, Publishing, PastBodies, WholeRun, Describes, Describing, Covers,
         SignedAs, Holds
<1> QED
  BY <1>1, <1>2 DEF WholeInv

LEMMA WholeAlways ==
  ASSUME TakeTurns, NoneIsNoRelease, InitialRepo = EmptyRepo
  PROVE  Spec => []WholeInv
<1>1. Init => WholeInv
  <2> SUFFICES ASSUME Init
               PROVE  AllWhole
    BY DEF WholeInv
  <2>1. \A c \in Codename : repo.release[c] = None
    BY DEF Init, EmptyRepo
  <2>2. DOMAIN EmptyRelease.files = {} /\ DOMAIN repo.index = {}
    BY DEF Init, EmptyRepo, EmptyRelease, EmptyMap
  <2>3. \A c \in Codename : Whole(c)
    BY <2>1, <2>2 DEF Whole, Describes, Covers
  <2>4. \A r \in Run : WholeRun(r)
    BY DEF Init, WholeRun
  <2> QED
    BY <2>3, <2>4 DEF AllWhole
<1>2. Inv /\ Typed /\ WholeInv /\ [Next]_vars => WholeInv'
  <2> SUFFICES ASSUME Inv, Typed, WholeInv, [Next]_vars
               PROVE  WholeInv'
    OBVIOUS
  <2>1. CASE \E r \in Run : Step(r) \/ Stop(r)
    BY <2>1, StepKeepsWhole
  <2>2. CASE ClientFetches \/ AllDone \/ UNCHANGED vars
    BY <2>2, StutterKeepsWhole DEF ClientFetches, AllDone, vars
  <2> QED
    BY <2>1, <2>2 DEF Next
<1> QED
  BY <1>1, <1>2, OrderAlways, TypedAlways, PTL DEF Spec

\* When every run has finished and none was interrupted, Release lists every
\* index of its components and architectures with the content stored under its
\* canonical name, and carries the signatures of the last publication, if it
\* signed: after any commands at all one after the other, and after any number
\* at a time if those that publish take their lock.
THEOREM QuietIsConsistent ==
  ASSUME TakeTurns, NoneIsNoRelease, InitialRepo = EmptyRepo
  PROVE  Spec => []QuietConsistent
<1>1. WholeInv => QuietConsistent
  <2> SUFFICES ASSUME WholeInv, Active \cup Stopped = {}, NEW c \in Codename,
                      repo.release[c] # None
               PROVE  LET rel == repo.release[c]
                      IN /\ Full(rel) /\ Describes(c, rel) /\ SignedAs(c, rel, rel.signed)
    BY DEF QuietConsistent, Full, Describes, Holds, SignedAs
  <2>1. \A r \in Run : ~PastBodies(r)
    BY DEF PastBodies, Active, Ended
  <2>2. Whole(c)
    BY <2>1 DEF WholeInv, AllWhole, Publishing
  <2> QED
    BY <2>2 DEF Whole
<1> QED
  BY <1>1, WholeAlways, PTL

-----------------------------------------------------------------------------
(* What verify --fix-manifests repairs.                                    *)

\* The body of an entry is there.
InPool(e) == e.file \in DOMAIN repo.pool

\* verify has read the index of each of its manifests, and has asked for the body
\* of each entry, or is going to.
Looked(r) ==
  \A a \in DOMAIN mem[r].mans :
    /\ mem[r].mans[a] = IndexAt(Target(job[r]), <<TargetComp(job[r]), a>>)
    /\ \A e \in EntriesOf(mem[r].mans[a]) :
         InPool(e) \/ <<a, e.file>> \in mem[r].noted \/ HeadRequest(a, e) \in EntriesOf(mem[r].todo)

\* What it publishes for its component has all its bodies.
Repaired(r) ==
  \A i \in DOMAIN mem[r].rel.files :
    i[1] = TargetComp(job[r]) => \A e \in EntriesOf(mem[r].rel.files[i]) : InPool(e)

Fixes(j) == j.op = "verify" /\ j.fix

RepairRun(r) ==
  /\ pc[r] \in {"idle", "getSource", "getRelease"} => mem[r].mans = EmptyMap
  /\ pc[r] = "reading" /\ job[r].op = "verify" => Looked(r)
  /\ pc[r] \in {"publishing", "releasing"} /\ Fixes(job[r]) => Repaired(r)

RepairInv == \A r \in Run : RepairRun(r)

\* Nothing stops.
LEMMA NothingStops ==
  ASSUME IsFiniteSet(Run), MaxStops = 0, InitialRepo = EmptyRepo
  PROVE  Spec => [](Stopped = {})
<1>1. Init => Stopped = {}
  BY DEF Init, Stopped
<1>2. Typed /\ Stopped = {} /\ [Next]_vars => (Stopped = {})'
  <2> SUFFICES ASSUME Typed, Stopped = {}, [Next]_vars
               PROVE  Stopped' = {}
    OBVIOUS
  <2>1. ~(Cardinality(Stopped) < MaxStops)
    BY FS_EmptySet
  <2>2. CASE \E r \in Run : Step(r) \/ Stop(r)
    <3>1. PICK r \in Run : Step(r)
      BY <2>1, <2>2 DEF Stop
    <3>2. Moves(r)
      BY <3>1, StepMoves
    <3> QED
      BY <2>1, <3>2 DEF Moves, Stopped
  <2>3. CASE ClientFetches \/ AllDone \/ UNCHANGED vars
    BY <2>3 DEF ClientFetches, AllDone, vars, Stopped
  <2> QED
    BY <2>2, <2>3 DEF Next
<1> QED
  BY <1>1, <1>2, TypedAlways, PTL DEF Spec

\* No other run is at work when one makes a step.
LEMMA OneAtATime ==
  ASSUME Inv, Typed, Alone, NEW r \in Run, Step(r) \/ Stop(r), NEW s \in Active
  PROVE  s = r
<1>1. CASE r \in Active
  BY <1>1 DEF Inv, Exclusive
<1>2. CASE r \notin Active
  <2>1. Cardinality(Active) < MaxActive /\ IsFiniteSet(Active)
    BY <1>2, StepMoves, FS_Subset DEF Moves, Alone, Active
  <2> QED
    BY <2>1, FS_EmptySet, FS_CardinalityType, BoundsAssumption DEF Alone
<1> QED
  BY <1>1, <1>2

LEMMA ReadingRepairs ==
  ASSUME Typed, NEW r \in Run, RepairRun(r), OwnStep(r),
         Start(r) \/ GetSource(r) \/ GetRelease(r) \/ GetManifest(r) \/ HeadBody(r) \/ Answer(r)
  PROVE  RepairRun(r)'
<1>1. UNCHANGED repo
  BY DEF Start, GetSource, GetRelease, GetManifest, HeadBody, Answer
<1>2. CASE Start(r)
  <2>1. PICK j : StartsWith(r, j)
    BY <1>2, StartsWithAJob
  <2> QED
    BY <2>1 DEF StartsWith, RepairRun, Fields
<1>3. CASE GetSource(r)
  <2>1. pc[r] = "getSource" /\ pc'[r] = "getRelease" /\ mem'[r].mans = mem[r].mans
    BY <1>3 DEF GetSource, Goto, Remember, Typed, GoodRun, GoodMemory, Fields
  <2> QED
    BY <2>1 DEF RepairRun
<1>4. CASE GetRelease(r)
  <2>1. pc[r] = "getRelease" /\ pc'[r] = "reading" /\ mem'[r].mans = mem[r].mans
    BY <1>4 DEF GetRelease, Goto, Remember, Typed, GoodRun, GoodMemory, Fields
  <2>2. DOMAIN mem'[r].mans = {}
    BY <2>1 DEF RepairRun, EmptyMap
  <2> QED
    BY <2>1, <2>2 DEF RepairRun, Looked
<1>5. CASE GetManifest(r)
  <2> DEFINE arch == Head(mem[r].todo).arch
             content == IndexAt(Target(job[r]), <<TargetComp(job[r]), arch>>)
  <2>1. /\ pc[r] = "reading" /\ mem[r].todo # <<>> /\ Head(mem[r].todo).op = "get"
        /\ pc' = pc /\ job' = job /\ IsList(mem[r].todo)
    BY <1>5 DEF GetManifest, Typed, GoodRun, GoodMemory
  <2>2. mem'[r].mans = With(mem[r].mans, arch, content)
    BY <1>5, ManifestIsRead
  <2>3. ASSUME job[r].op = "verify"
        PROVE  mem'[r].todo = [n \in DOMAIN content |-> HeadRequest(arch, content[n])] \o Tail(mem[r].todo)
    BY <1>5, <2>3, ManifestIsRead DEF Map
  <2>4. IsList(content)
    BY EmptyIsList DEF IndexAt, Typed, Stored
  <2> HIDE DEF arch, content
  <2>5. ASSUME job[r].op = "verify"
        PROVE  /\ EntriesOf(Tail(mem[r].todo)) \subseteq EntriesOf(mem'[r].todo)
               /\ \A e \in EntriesOf(content) : HeadRequest(arch, e) \in EntriesOf(mem'[r].todo)
    <3> DEFINE heads == [n \in DOMAIN content |-> HeadRequest(arch, content[n])]
    <3>1. IsList(heads) /\ \A e \in EntriesOf(content) : HeadRequest(arch, e) \in EntriesOf(heads)
      BY <2>4, ImageIsList DEF EntriesOf
    <3>2. mem'[r].todo = heads \o Tail(mem[r].todo)
      BY <2>3, <2>5
    <3> HIDE DEF heads
    <3> QED
      BY <2>1, <3>1, <3>2, TailEntries, ConcatEntries
  <2>6. ASSUME job[r].op = "verify", NEW a \in DOMAIN mem'[r].mans
        PROVE  /\ mem'[r].mans[a] = IndexAt(Target(job[r]), <<TargetComp(job[r]), a>>)
               /\ \A e \in EntriesOf(mem'[r].mans[a]) :
                    \/ InPool(e) \/ <<a, e.file>> \in mem[r].noted
                    \/ HeadRequest(a, e) \in EntriesOf(mem'[r].todo)
    <3>1. CASE a = arch
      BY <2>2, <2>5, <2>6, <3>1 DEF With, content
    <3>2. CASE a # arch
      <4>1. a \in DOMAIN mem[r].mans /\ mem'[r].mans[a] = mem[r].mans[a] /\ Looked(r)
        BY <2>1, <2>2, <2>6, <3>2 DEF With, RepairRun
      <4>2. \A e : HeadRequest(a, e) # Head(mem[r].todo)
        BY <2>1 DEF HeadRequest
      <4>3. \A e : HeadRequest(a, e) \in EntriesOf(mem[r].todo) =>
              HeadRequest(a, e) \in EntriesOf(mem'[r].todo)
        BY <2>1, <2>5, <2>6, <4>2, TailEntries
      <4> QED
        BY <4>1, <4>3 DEF Looked
    <3> QED
      BY <3>1, <3>2
  <2>7. mem'[r].noted = mem[r].noted
    BY <1>5, ManifestIsRead DEF Fields
  <2>8. job[r].op = "verify" => Looked(r)'
    BY <1>1, <2>1, <2>6, <2>7 DEF Looked, InPool, IndexAt
  <2> QED
    BY <2>1, <2>8 DEF RepairRun
<1>6. CASE HeadBody(r)
  <2> DEFINE q == Head(mem[r].todo)
  <2>1. /\ pc[r] = "reading" /\ mem[r].todo # <<>>
        /\ pc' = pc /\ job' = job /\ IsList(mem[r].todo)
    BY <1>6 DEF HeadBody, Typed, GoodRun, GoodMemory
  <2>2. /\ mem'[r].todo = Tail(mem[r].todo) /\ mem'[r].mans = mem[r].mans
        /\ mem'[r].noted = IF q.file \in DOMAIN repo.pool THEN mem[r].noted
                           ELSE mem[r].noted \cup {<<q.arch, q.file>>}
    BY <1>6, BodyIsAskedFor DEF Fields
  <2>3. ASSUME NEW a, NEW e, InPool(e) \/ <<a, e.file>> \in mem[r].noted
                               \/ HeadRequest(a, e) \in EntriesOf(mem[r].todo)
        PROVE  InPool(e) \/ <<a, e.file>> \in mem'[r].noted
                 \/ HeadRequest(a, e) \in EntriesOf(mem'[r].todo)
    <3>1. HeadRequest(a, e) = q => q.file = e.file /\ q.arch = a
      BY DEF HeadRequest
    <3>2. HeadRequest(a, e) \in EntriesOf(mem[r].todo) =>
            HeadRequest(a, e) \in EntriesOf(mem'[r].todo) \cup {q}
      BY <2>1, <2>2, TailEntries
    <3> HIDE DEF q
    <3> QED
      BY <2>2, <2>3, <3>1, <3>2 DEF InPool
  <2>4. Looked(r) => Looked(r)'
    BY <1>1, <2>1, <2>2, <2>3 DEF Looked, InPool, IndexAt
  <2> QED
    BY <2>1, <2>4 DEF RepairRun
<1>7. CASE Answer(r)
  <2>1. pc'[r] = "done"
    BY <1>7 DEF Answer, Ends, Goto, Typed
  <2> QED
    BY <2>1 DEF RepairRun
<1> QED
  BY <1>2, <1>3, <1>4, <1>5, <1>6, <1>7

\* When verify has asked for every body, the entries that are left have theirs.
LEMMA FoundIsThere ==
  ASSUME NEW r, RepairRun(r), Read(r), job[r].op = "verify", NEW a \in DOMAIN mem[r].mans
  PROVE  \A e \in EntriesOf(mem[r].mans[a]) : InPool(e) \/ <<a, e.file>> \in mem[r].noted
BY EmptyIsList DEF RepairRun, Looked, Read

LEMMA PrepareRepairs ==
  ASSUME Typed, NEW r \in Run, RepairRun(r), WholeRun(r), OwnStep(r),
         PrepareUpload(r) \/ PrepareCopy(r) \/ PrepareDelete(r) \/ PrepareVerify(r)
  PROVE  RepairRun(r)'
<1>1. Read(r) /\ pc[r] = "reading" /\ job[r].op \in Writers /\ UNCHANGED <<repo, job>>
  BY PreparePublishes DEF Read
<1>2. CASE Ends(r, "failed") \/ Ends(r, "done")
  <2>1. pc'[r] \in Ended
    BY <1>2 DEF Ends, Goto, Typed, Ended
  <2> QED
    BY <2>1 DEF RepairRun, Ended
<1>3. ASSUME NEW rel, NEW archs, NEW mans, Publication(r, rel, archs, mans)
      PROVE  RepairRun(r)'
  <2> DEFINE j == job[r]
             c == Target(j)
             m == mem[r]
             updated == {TargetComp(j)} \X archs
  <2>1. Completes(rel, m.rel, updated, mans) /\ \E requests : Publish(r, requests, rel)
    BY <1>3 DEF Publication, Publishes
  <2>2. mem'[r].rel = rel /\ pc'[r] = "publishing"
    BY <2>1 DEF Publish, Goto, Remember, Typed, GoodRun, GoodMemory, Fields
  <2>3. ASSUME Fixes(j), NEW i \in DOMAIN rel.files, i[1] = TargetComp(j),
               NEW e \in EntriesOf(rel.files[i])
        PROVE  InPool(e)
    <3>1. j.op = "verify" /\ j.fix
      BY <2>3 DEF Fixes
    <3>2. ASSUME NEW a, a \in Wanted(j, m.rel), AllFound(m, a, m.mans[a]), e \in EntriesOf(m.mans[a])
          PROVE  InPool(e)
      BY <1>1, <3>1, <3>2, ReadIsComplete, FoundIsThere DEF AllFound
    <3>3. CASE i \in updated
      <4>1. PICK a \in archs : i = <<TargetComp(j), a>>
        BY <3>3
      <4>2. /\ a \in Wanted(j, m.rel) /\ AllFound(m, a, mans[a]) /\ Changes(j, m, a, mans[a])
        BY <1>3, <3>1 DEF Publication
      <4>3. e \in EntriesOf(m.mans[a]) /\ <<a, e.file>> \notin m.noted
        BY <2>1, <2>3, <3>1, <3>3, <4>1, <4>2 DEF Completes, Changes, AddedTo, AllFound
      <4> QED
        BY <1>1, <3>1, <4>2, <4>3, ReadIsComplete, FoundIsThere
    <3>4. CASE i \in DOMAIN m.rel.files \ updated
      <4>1. PICK a \in EntriesOf(m.rel.archs) : i = <<TargetComp(j), a>>
        BY <1>1, <2>3, <3>4, ReadIsComplete DEF GoodMemory, GoodRelease
      <4>2. a \in Wanted(j, m.rel) /\ a \notin archs
        BY <3>1, <3>4, <4>1 DEF Wanted, ArchsToRead
      <4>3. AllFound(m, a, m.mans[a]) /\ a \in DOMAIN m.mans
        BY <1>1, <1>3, <3>1, <4>2, ReadIsComplete DEF Publication
      <4>4. Holds(c, i, m.rel.files[i])
        BY <1>1, <3>4 DEF WholeRun, Describes
      <4>5. m.mans[a] = m.rel.files[i]
        BY <1>1, <3>1, <4>1, <4>3, <4>4 DEF RepairRun, Looked, Holds, IndexAt
      <4> QED
        BY <2>1, <2>3, <3>2, <3>4, <4>2, <4>3, <4>5 DEF Completes
    <3>5. CASE i \notin DOMAIN m.rel.files \cup updated
      BY <2>1, <2>3, <3>5, EmptyIsList DEF Completes
    <3> QED
      BY <3>3, <3>4, <3>5
  <2>4. Fixes(j) => Repaired(r)'
    BY <1>1, <2>2, <2>3 DEF Repaired, InPool
  <2> QED
    BY <1>1, <2>2, <2>4 DEF RepairRun
<1> QED
  BY <1>2, <1>3, PreparePublishes

\* The requests of a publication take no body away.
LEMMA PublishingRepairs ==
  ASSUME Typed, NEW r \in Run, RepairRun(r), pc[r] \in {"publishing", "releasing"},
         pc'[r] \in {"publishing", "releasing"} => mem'[r].rel = mem[r].rel /\ job' = job,
         pc'[r] \in Ended \cup {"publishing", "releasing"},
         DOMAIN repo.pool \subseteq DOMAIN repo'.pool
  PROVE  RepairRun(r)'
<1>1. CASE pc'[r] \in Ended
  BY <1>1 DEF RepairRun, Ended
<1>2. CASE pc'[r] \in {"publishing", "releasing"}
  BY <1>2 DEF RepairRun, Repaired, InPool
<1> QED
  BY <1>1, <1>2

LEMMA StepRepairs ==
  ASSUME Inv, Typed, Alone, Stopped = {}, WholeInv, RepairInv,
         NEW r \in Run, Step(r) \/ Stop(r)
  PROVE  RepairInv'
<1>1. OwnStep(r) /\ RepairRun(r) /\ WholeRun(r)
  BY StepIsOwn DEF RepairInv, WholeInv, AllWhole
<1>2. ASSUME NEW s \in Run \ {r}
      PROVE  RepairRun(s)'
  <2>1. s \notin Active /\ pc'[s] = pc[s] /\ mem'[s].mans = mem[s].mans
    BY <1>1, OneAtATime DEF OwnStep, SameWork, Fields
  <2> QED
    BY <2>1 DEF RepairInv, RepairRun, Active, Ended
<1> SUFFICES RepairRun(r)'
  BY <1>2 DEF RepairInv
<1>3. CASE Start(r) \/ GetSource(r) \/ GetRelease(r) \/ GetManifest(r) \/ HeadBody(r) \/ Answer(r)
  BY <1>1, <1>3, ReadingRepairs
<1>4. CASE PrepareUpload(r) \/ PrepareCopy(r) \/ PrepareDelete(r) \/ PrepareVerify(r)
  BY <1>1, <1>4, PrepareRepairs
<1>5. ASSUME NEW label \in Ended, Ends(r, label)
      PROVE  RepairRun(r)'
  <2>1. pc'[r] = label
    BY <1>5 DEF Ends, Goto, Typed
  <2> QED
    BY <2>1 DEF RepairRun, Ended
<1>6. ASSUME Sent(r), mem[r].todo # <<>>, pc[r] \in {"publishing", "releasing"},
             DOMAIN repo.pool \subseteq DOMAIN repo'.pool
      PROVE  RepairRun(r)'
  <2>1. mem'[r].rel = mem[r].rel /\ pc' = pc /\ job' = job
    BY <1>6, SentLeaves DEF Fields
  <2> QED
    BY <1>1, <1>6, <2>1, PublishingRepairs
<1>7. CASE SendBody(r)
  <2>1. CASE Ends(r, "failed")
    BY <1>5, <2>1 DEF Ended
  <2>2. CASE Sent(r) /\ \E file, body : repo' = [repo EXCEPT !.pool = With(@, file, body)]
    <3>1. DOMAIN repo.pool \subseteq DOMAIN repo'.pool
      BY <2>2 DEF Typed, Stored, With
    <3> QED
      BY <1>6, <1>7, <2>2, <3>1 DEF SendBody, Sending
  <2> QED
    BY <1>7, <2>1, <2>2 DEF SendBody
<1>8. CASE SendByHash(r) \/ SendIndex(r)
  <2>1. Sent(r) /\ \E x : repo' = [repo EXCEPT !.byHash = x] \/ repo' = [repo EXCEPT !.index = x]
    BY <1>8 DEF SendByHash, SendIndex
  <2>2. repo'.pool = repo.pool
    BY <2>1 DEF Typed, Stored
  <2> QED
    BY <1>6, <1>8, <2>1, <2>2 DEF SendByHash, SendIndex, Sending
<1>9. CASE BeginRelease(r)
  <2>1. /\ pc[r] = "publishing" /\ pc'[r] = "releasing" /\ job' = job /\ repo' = repo
        /\ mem'[r].rel = mem[r].rel
    BY <1>9 DEF BeginRelease, Goto, Remember, Typed, GoodRun, GoodMemory, Fields
  <2> QED
    BY <1>1, <2>1, PublishingRepairs
<1>10. CASE Sign(r)
  BY <1>5, <1>6, <1>10 DEF Sign, Releasing, Ended
<1>11. CASE SendRelease(r) \/ SendSignature(r) \/ DeleteSignature(r)
  <2>1. Sent(r) /\ pc[r] = "releasing" /\ mem[r].todo # <<>>
    BY <1>11 DEF SendRelease, SendSignature, DeleteSignature, Releasing
  <2>2. repo'.pool = repo.pool
    BY <1>11 DEF SendRelease, SendSignature, DeleteSignature, Typed, Stored
  <2> QED
    BY <1>6, <2>1, <2>2
<1>12. CASE Published(r) \/ Cleaned(r) \/ Stop(r)
  BY <1>5, <1>12 DEF Published, Cleaned, Stop, Ended
<1>13. CASE ListIndexes(r) \/ ScanIndex(r) \/ ListPool(r) \/ DeleteBody(r)
  <2>1. pc'[r] \in {"scan", "sweep"}
    BY <1>13 DEF ListIndexes, ScanIndex, ListPool, DeleteBody, Goto, Typed
  <2> QED
    BY <2>1 DEF RepairRun
<1> QED
  BY <1>3, <1>4, <1>7, <1>8, <1>9, <1>10, <1>11, <1>12, <1>13 DEF Step

LEMMA RepairAlways ==
  ASSUME Alone, MaxStops = 0, NoneIsNoRelease, InitialRepo = EmptyRepo
  PROVE  Spec => []RepairInv
<1>1. Init => RepairInv
  BY DEF Init, RepairInv, RepairRun, NoMemory
<1>2. Inv /\ Typed /\ Stopped = {} /\ WholeInv /\ RepairInv /\ [Next]_vars => RepairInv'
  <2> SUFFICES ASSUME Inv, Typed, Stopped = {}, WholeInv, RepairInv, [Next]_vars
               PROVE  RepairInv'
    OBVIOUS
  <2>1. CASE \E r \in Run : Step(r) \/ Stop(r)
    BY <2>1, StepRepairs
  <2>2. CASE ClientFetches \/ AllDone \/ UNCHANGED vars
    BY <2>2 DEF ClientFetches, AllDone, vars, RepairInv, RepairRun, Looked, Repaired, InPool, IndexAt
  <2> QED
    BY <2>1, <2>2 DEF Next
<1>3. TakeTurns /\ IsFiniteSet(Run)
  BY DEF TakeTurns, Alone
<1> QED
  BY <1>1, <1>2, <1>3, OrderAlways, TypedAlways, NothingStops, WholeAlways, PTL DEF Spec

\* A verify that ends without a publication has found every body.
LEMMA VerifyEnds ==
  ASSUME Typed, NEW r \in Run, PrepareVerify(r), pc'[r] = "done", job[r].fix,
         NEW a \in Wanted(job[r], mem[r].rel)
  PROVE  a \in DOMAIN mem[r].mans /\ AllFound(mem[r], a, mem[r].mans[a])
<1> DEFINE j == job[r]
           m == mem[r]
           rest == [x \in DOMAIN m.mans |-> WithBodies(m, x)]
           archs == m.rel.archs
           changed == At(archs, {n \in DOMAIN archs : rest[archs[n]] # m.mans[archs[n]]})
<1>1. Read(r) /\ j.op = "verify" /\ j \in Jobs /\ GoodMemory(m)
  BY ReadIsComplete DEF PrepareVerify
<1>2. changed # <<>> => PublishManifests(r, changed, rest, <<>>)
  BY DEF PrepareVerify
<1>3. IsList(archs) /\ Wanted(j, m.rel) = EntriesOf(archs)
  BY <1>1 DEF Wanted, ArchsToRead, GoodMemory, GoodRelease, IsRelease
<1>4. IsList(changed) /\ EntriesOf(changed) \subseteq EntriesOf(archs)
  BY <1>3, AtArchs
<1>5. ASSUME NEW x \in Wanted(j, m.rel)
      PROVE  /\ x \in DOMAIN m.mans /\ AllFound(m, x, rest[x])
             /\ x \notin EntriesOf(changed) => AllFound(m, x, m.mans[x])
  BY <1>1, VerifyFinds
<1>6. ASSUME NEW x \in EntriesOf(changed)
      PROVE  IsList(rest[x])
  <2>1. x \in DOMAIN m.mans /\ IsList(m.mans[x])
    BY <1>1, <1>3, <1>4, ReadIsComplete
  <2> QED
    BY <2>1, AtEntries DEF WithBodies
<1> HIDE DEF rest, archs, changed
<1>7. changed = <<>>
  <2> SUFFICES ASSUME changed # <<>>
               PROVE  FALSE
    OBVIOUS
  <2>1. PICK rel : Publishes(r, rel, {TargetComp(j)} \X EntriesOf(changed), rest, UploadedBodies(j))
    BY <1>1, <1>2, <1>4, <1>6, NoBodiesPublishes DEF GoodMemory
  <2>2. pc'[r] = "publishing"
    BY <2>1 DEF Publishes, Publish, Goto, Typed
  <2> QED
    BY <2>2
<1> QED
  BY <1>5, <1>7, EmptyIsList

\* The indexes of the component of a finished repair.
LEMMA RepairEnds ==
  ASSUME Typed, NEW r \in Run, WholeRun(r), RepairRun(r), Step(r) \/ Stop(r),
         pc[r] # "done", pc'[r] = "done", job[r].op = "verify", job[r].fix,
         NEW key \in DOMAIN repo.index,
         key[1] = job[r].codename, key[2][1] = job[r].comp
  PROVE  \A e \in EntriesOf(repo.index[key]) : InPool(e)
<1> DEFINE c == job[r].codename
           m == mem[r]
<1>1. Target(job[r]) = c /\ TargetComp(job[r]) = job[r].comp
  BY DEF Target, TargetComp
<1>2. CASE PrepareVerify(r)
  <2>1. Read(r) /\ pc[r] = "reading" /\ GoodMemory(m) /\ job[r].op \in Writers
    BY <1>2, ReadIsComplete DEF PrepareVerify, Read, Writers
  <2>2. PICK i \in DOMAIN m.rel.files : key = <<c, i>>
    BY <1>1, <2>1 DEF WholeRun, Covers
  <2>3. PICK a \in EntriesOf(m.rel.archs) : i = <<job[r].comp, a>>
    BY <2>1, <2>2 DEF GoodMemory, GoodRelease
  <2>4. a \in Wanted(job[r], m.rel)
    BY DEF Wanted, ArchsToRead
  <2>5. a \in DOMAIN m.mans /\ AllFound(m, a, m.mans[a])
    BY <1>2, <2>4, VerifyEnds
  <2>6. m.mans[a] = repo.index[key]
    BY <1>1, <2>1, <2>2, <2>3, <2>5 DEF RepairRun, Looked, IndexAt
  <2> QED
    BY <2>1, <2>5, <2>6, FoundIsThere DEF AllFound
<1>3. CASE pc[r] = "releasing"
  <2>1. Published(r)
    BY <1>3, PublishedEnds
  <2>2. PICK i \in DOMAIN m.rel.files : key = <<c, i>>
    BY <1>1, <1>3 DEF WholeRun, Covers
  <2>3. repo.index[key] = m.rel.files[i]
    BY <1>1, <1>3, <2>2 DEF WholeRun, Describes, Holds
  <2> QED
    BY <1>1, <1>3, <2>2, <2>3 DEF RepairRun, Fixes, Repaired
<1>4. CASE pc[r] \notin {"reading", "releasing"} \/ (pc[r] = "reading" /\ ~PrepareVerify(r))
  <2>1. job[r].op \notin Queries \cup {"upload", "copy", "delete", "clean"}
    BY DEF Queries
  <2>2. ASSUME pc'[r] = pc[r]
        PROVE  FALSE
    BY <2>2
  <2>3. CASE Start(r)
    <3>1. PICK j : StartsWith(r, j)
      BY <2>3, StartsWithAJob
    <3> QED
      BY <3>1 DEF StartsWith
  <2>4. CASE GetSource(r) \/ GetRelease(r) \/ GetManifest(r) \/ HeadBody(r) \/ Answer(r)
    BY <2>1, <2>2, <2>4 DEF GetSource, GetRelease, GetManifest, HeadBody, Answer, Goto, Typed
  <2>5. CASE PrepareUpload(r) \/ PrepareCopy(r) \/ PrepareDelete(r) \/ PrepareVerify(r)
    BY <1>4, <2>5 DEF PrepareUpload, PrepareCopy, PrepareDelete, PrepareVerify, Read
  <2>6. CASE SendBody(r) \/ SendByHash(r) \/ SendIndex(r) \/ BeginRelease(r) \/ Stop(r)
    BY <2>2, <2>6 DEF SendBody, SendByHash, SendIndex, Sent, BeginRelease, Stop, Ends, Goto, Typed
  <2>7. CASE Sign(r) \/ SendRelease(r) \/ SendSignature(r) \/ DeleteSignature(r) \/ Published(r)
    BY <1>4, <2>7 DEF Sign, SendRelease, SendSignature, DeleteSignature, Published, Releasing
  <2>8. CASE ListIndexes(r) \/ ScanIndex(r) \/ ListPool(r) \/ DeleteBody(r) \/ Cleaned(r)
    <3>1. pc[r] \in {"listIndexes", "scan", "sweep"}
      BY <2>8 DEF ListIndexes, ScanIndex, ListPool, DeleteBody, Cleaned
    <3>2. job[r].op \in {"clean"}
      BY <3>1 DEF Typed, GoodRun, Work
    <3> QED
      BY <2>1, <3>2
  <2> QED
    BY <2>3, <2>4, <2>5, <2>6, <2>7, <2>8 DEF Step
<1> QED
  BY <1>2, <1>3, <1>4

\* A finished verify --fix-manifests leaves no entry without a body in the
\* indexes of its component: for any number of commands that are run one after
\* the other and that none interrupts, with any options and in any order.
THEOREM VerifyLeavesBodies ==
  ASSUME Alone, MaxStops = 0, NoneIsNoRelease, InitialRepo = EmptyRepo
  PROVE  Spec => VerifyRepairs
<1>1. Typed /\ Stopped = {} /\ WholeInv /\ RepairInv /\ [Next]_vars =>
        [\A r \in Run :
           /\ pc[r] # "done" /\ pc'[r] = "done"
           /\ job[r].op = "verify" /\ job[r].fix
           => \A key \in DOMAIN repo.index :
                key[1] = job[r].codename /\ key[2][1] = job[r].comp =>
                  \A e \in EntriesOf(repo.index[key]) : e.file \in DOMAIN repo.pool]_vars
  <2> SUFFICES ASSUME Typed, Stopped = {}, WholeInv, RepairInv, [Next]_vars, NEW r \in Run,
                      pc[r] # "done", pc'[r] = "done", job[r].op = "verify", job[r].fix,
                      NEW key \in DOMAIN repo.index,
                      key[1] = job[r].codename, key[2][1] = job[r].comp
               PROVE  \A e \in EntriesOf(repo.index[key]) : InPool(e)
    BY DEF InPool
  <2>1. PICK s \in Run : Step(s) \/ Stop(s)
    BY DEF Next, ClientFetches, AllDone, vars
  <2>2. s = r
    BY <2>1, StepIsOwn DEF OwnStep, SameWork
  <2> QED
    BY <2>1, <2>2, RepairEnds DEF WholeInv, AllWhole, RepairInv
<1>2. TakeTurns /\ IsFiniteSet(Run)
  BY DEF TakeTurns, Alone
<1> QED
  BY <1>1, <1>2, RepairAlways, WholeAlways, NothingStops, TypedAlways, PTL DEF Spec, VerifyRepairs
=============================================================================

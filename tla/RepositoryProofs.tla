-------------------------- MODULE RepositoryProofs --------------------------
(***************************************************************************)
(* The order in which Release and its signatures are published, for any    *)
(* number of runs, wherever they stop, if the commands take the lock of    *)
(* the codename they write to or run one after the other; and what the     *)
(* commands store, remember and are going to send, whatever commands are   *)
(* run, with or without the lock, and wherever they stop.                  *)
(***************************************************************************)
EXTENDS Repository, AptIndexProofs, FiniteSetTheorems, TLAPS

\* The commands that publish take the lock of the codename they publish to;
\* verify, which takes none, is not among them.
WritersLocked ==
  \A j \in Jobs : j.op \in Writers =>
    Target(j) \in Codename /\ LockOf(j) = Target(j) /\ LockOf(j) # None

\* One command runs at a time.
Alone == IsFiniteSet(Run) /\ MaxActive <= 1

TakeTurns == WritersLocked \/ Alone

-----------------------------------------------------------------------------
(* The inductive invariant.                                                *)

Labels ==
  Ended \cup {"idle", "getSource", "getRelease", "reading", "publishing", "releasing",
             "listIndexes", "scan", "sweep"}

\* The domains of what is stored and remembered.
Shape ==
  /\ pc \in [Run -> Labels]
  /\ DOMAIN job = Run
  /\ DOMAIN mem = Run /\ \A r \in Run : {"rel", "todo"} \subseteq DOMAIN mem[r]
  /\ {"release", "gpg", "inRelease"} \subseteq DOMAIN repo
  /\ DOMAIN repo.release = Codename
  /\ DOMAIN repo.gpg = Codename
  /\ DOMAIN repo.inRelease = Codename

\* A run has a command once it has started, and publishes for a writer only.
Employed ==
  \A r \in Run :
    /\ pc[r] # "idle" => job[r] \in Jobs
    /\ pc[r] \in {"publishing", "releasing"} => job[r].op \in Writers

\* No two runs at work hold the lock of one codename.
Exclusive ==
  /\ \A r, s \in Active : r # s /\ LockOf(job[r]) # None => LockOf(job[s]) # LockOf(job[r])
  /\ Alone => \A r, s \in Active : r = s

\* Nothing that is stored was rendered by r.
Unwritten(r) ==
  \A c \in Codename : \A o \in {repo.release[c], repo.gpg[c], repo.inRelease[c]} :
    o # None => o.date # r

\* Before a run publishes its Release nobody has seen that.
Dated ==
  \A r \in Run :
    /\ pc[r] \notin Ended \cup {"releasing"} => Unwritten(r)
    /\ pc[r] \in {"publishing", "releasing"} =>
         mem[r].rel.date = r /\ mem[r].rel.signed = job[r].sign

\* What is stored between the requests of Release.Publish with a signer ...
SignedOrder(r) ==
  LET c == Target(job[r])
      todo == mem[r].todo
  IN \/ /\ \/ todo = <<"sign", "putRelease", "putGpg", "putInRelease">>
           \/ todo = <<"putRelease", "putGpg", "putInRelease">>
        /\ Unwritten(r)
     \/ todo = <<"putGpg", "putInRelease">> /\ repo.release[c] = mem[r].rel
     \/ /\ todo = <<"putInRelease">>
        /\ repo.release[c] = mem[r].rel /\ repo.gpg[c] = mem[r].rel
     \/ todo = <<>>

\* ... and without one.
UnsignedOrder(r) ==
  LET c == Target(job[r])
      todo == mem[r].todo
  IN \/ todo = <<"deleteGpg", "deleteInRelease", "putRelease">> /\ Unwritten(r)
     \/ todo = <<"deleteInRelease", "putRelease">> /\ Unwritten(r) /\ repo.gpg[c] = None
     \/ /\ todo = <<"putRelease">>
        /\ Unwritten(r) /\ repo.gpg[c] = None /\ repo.inRelease[c] = None
     \/ todo = <<>>

Ordered ==
  \A r \in Run : pc[r] = "releasing" =>
    IF job[r].sign THEN SignedOrder(r) ELSE UnsignedOrder(r)

Inv == Shape /\ Employed /\ Exclusive /\ Dated /\ Ordered /\ InReleaseLast /\ NoStaleSignature

-----------------------------------------------------------------------------
(* What most steps have in common.                                         *)

\* A step of r that leaves Release and its signatures alone, and neither begins a
\* publication nor gets to its Release.
Quiet(r) ==
  /\ r \in Active
  /\ {"release", "gpg", "inRelease"} \subseteq DOMAIN repo'
  /\ repo'.release = repo.release
  /\ repo'.gpg = repo.gpg
  /\ repo'.inRelease = repo.inRelease
  /\ job' = job
  /\ pc' \in [Run -> Labels] /\ \A s \in Run \ {r} : pc'[s] = pc[s]
  /\ DOMAIN mem' = Run /\ \A s \in Run \ {r} : mem'[s] = mem[s]
  /\ {"rel", "todo"} \subseteq DOMAIN mem'[r]
  /\ \/ pc'[r] \in Ended
     \/ /\ pc[r] \notin Ended \cup {"publishing", "releasing"}
        /\ pc'[r] \notin {"idle", "publishing", "releasing"}
     \/ pc[r] = "publishing" /\ pc'[r] = "publishing" /\ mem'[r].rel = mem[r].rel

LEMMA QuietKeeps ==
  ASSUME Inv, NEW r \in Run, Quiet(r)
  PROVE  Inv'
<1>1. Shape'
  BY DEF Quiet, Inv, Shape
<1>2. Employed'
  BY DEF Quiet, Inv, Shape, Employed, Active, Ended
<1>3. Active' \subseteq Active
  BY DEF Quiet, Inv, Shape, Active
<1>4. Exclusive'
  BY <1>3 DEF Quiet, Inv, Exclusive, LockOf
<1>5. \A s \in Run : Unwritten(s) => Unwritten(s)'
  BY DEF Quiet, Unwritten
<1>6. Dated'
  BY <1>5 DEF Quiet, Inv, Shape, Dated, Active, Ended
<1>7. Ordered'
  <2> SUFFICES ASSUME NEW s \in Run, pc'[s] = "releasing"
               PROVE  (IF job[s].sign THEN SignedOrder(s) ELSE UnsignedOrder(s))'
    BY DEF Ordered
  <2>1. s # r /\ pc[s] = "releasing" /\ mem'[s] = mem[s]
    BY DEF Quiet, Inv, Shape, Ended
  <2>2. IF job[s].sign THEN SignedOrder(s) ELSE UnsignedOrder(s)
    BY <2>1 DEF Inv, Ordered
  <2> QED
    BY <2>1, <2>2, <1>5 DEF Quiet, SignedOrder, UnsignedOrder, Target
<1>8. InReleaseLast' /\ NoStaleSignature'
  BY DEF Quiet, Inv, InReleaseLast, NoStaleSignature
<1> QED
  BY <1>1, <1>2, <1>4, <1>6, <1>7, <1>8 DEF Inv

\* A command that ends, stops or fails.
LEMMA EndsQuietly ==
  ASSUME Inv, NEW r \in Active, NEW label \in Ended, Ends(r, label), UNCHANGED <<repo, job>>
  PROVE  Quiet(r)
<1>1. {"rel", "todo"} \subseteq DOMAIN NoMemory
  BY DEF NoMemory
<1>2. label \in Labels
  BY DEF Labels
<1> QED
  BY <1>1, <1>2 DEF Quiet, Ends, Goto, Remember, Inv, Shape, Active

\* Reading does not disturb what is stored.
LEMMA ReadingIsQuiet ==
  ASSUME Inv, NEW r \in Run,
         GetSource(r) \/ GetRelease(r) \/ GetManifest(r) \/ HeadBody(r) \/ Answer(r)
  PROVE  Quiet(r)
<1> USE DEF Inv, Shape, Quiet, Active, Ended, Labels
<1>1. CASE GetSource(r)
  BY <1>1 DEF GetSource, Goto, Remember
<1>2. CASE GetRelease(r)
  <2>1. PICK rel, todo : mem' = [mem EXCEPT ![r] = [mem[r] EXCEPT !.rel = rel, !.todo = todo]]
    BY <1>2 DEF GetRelease, Remember
  <2>2. /\ pc[r] = "getRelease" /\ pc' = [pc EXCEPT ![r] = "reading"]
        /\ UNCHANGED <<repo, job>>
    BY <1>2 DEF GetRelease, Goto
  <2> QED
    BY <2>1, <2>2
<1>3. CASE GetManifest(r)
  <2>1. PICK mans, todo : mem' = [mem EXCEPT ![r] = [mem[r] EXCEPT !.mans = mans, !.todo = todo]]
    BY <1>3 DEF GetManifest, Remember
  <2>2. pc[r] = "reading" /\ UNCHANGED <<repo, pc, job>>
    BY <1>3 DEF GetManifest
  <2> QED
    BY <2>1, <2>2
<1>4. CASE HeadBody(r)
  <2>1. PICK noted, todo :
          mem' = [mem EXCEPT ![r] = [mem[r] EXCEPT !.todo = todo, !.noted = noted]]
    BY <1>4 DEF HeadBody, Remember
  <2>2. pc[r] = "reading" /\ UNCHANGED <<repo, pc, job>>
    BY <1>4 DEF HeadBody
  <2> QED
    BY <2>1, <2>2
<1>5. CASE Answer(r)
  BY <1>5, EndsQuietly DEF Answer, Read
<1> QED
  BY <1>1, <1>2, <1>3, <1>4, <1>5

\* Neither do bodies, by-hash objects and indexes, which come before Release.
LEMMA BulkIsQuiet ==
  ASSUME Inv, NEW r \in Run, SendBody(r) \/ SendByHash(r) \/ SendIndex(r)
  PROVE  Quiet(r)
<1>1. pc[r] = "publishing" /\ r \in Active
  BY DEF SendBody, SendByHash, SendIndex, Sending, Active, Ended
<1>2. ASSUME Sent(r),
             \E x : \/ repo' = [repo EXCEPT !.pool = x]
                   \/ repo' = [repo EXCEPT !.byHash = x]
                   \/ repo' = [repo EXCEPT !.index = x]
      PROVE  Quiet(r)
  BY <1>1, <1>2 DEF Sent, Remember, Quiet, Inv, Shape
<1>3. CASE SendBody(r)
  <2>1. CASE Ends(r, "failed") /\ UNCHANGED <<repo, job, client, acked>>
    BY <1>1, <2>1, EndsQuietly DEF Ended
  <2>2. CASE Sent(r) /\ \E x : repo' = [repo EXCEPT !.pool = x]
    BY <1>2, <2>2
  <2> QED
    BY <1>3, <2>1, <2>2 DEF SendBody
<1>4. CASE SendByHash(r)
  BY <1>2, <1>4 DEF SendByHash
<1>5. CASE SendIndex(r)
  <2>1. Sent(r) /\ \E x : repo' = [repo EXCEPT !.index = x]
    BY <1>5 DEF SendIndex
  <2> QED
    BY <1>2, <2>1
<1> QED
  BY <1>3, <1>4, <1>5

\* clean never touches Release.
LEMMA CleanIsQuiet ==
  ASSUME Inv, NEW r \in Run,
         ListIndexes(r) \/ ScanIndex(r) \/ ListPool(r) \/ DeleteBody(r) \/ Cleaned(r)
  PROVE  Quiet(r)
<1> USE DEF Inv, Shape, Quiet, Active, Ended, Labels
<1>1. CASE ListIndexes(r)
  BY <1>1 DEF ListIndexes, Goto, Remember
<1>2. CASE ScanIndex(r)
  BY <1>2 DEF ScanIndex, Remember
<1>3. CASE ListPool(r)
  BY <1>3 DEF ListPool, Goto, Remember
<1>4. CASE DeleteBody(r)
  BY <1>4 DEF DeleteBody, Remember
<1>5. CASE Cleaned(r)
  BY <1>5, EndsQuietly DEF Cleaned
<1> QED
  BY <1>1, <1>2, <1>3, <1>4, <1>5

\* A run that starts leaves the lock of every other run alone.
LEMMA StartKeeps ==
  ASSUME Inv, NEW r \in Run, Start(r)
  PROVE  Inv'
<1>1. PICK j \in Jobs : LockFree(j) /\ job' = [job EXCEPT ![r] = j] /\ mem' = Noting(r, j)
  BY DEF Start
<1>2. /\ pc[r] = "idle"
      /\ \E label \in {"getSource", "listIndexes", "reading", "getRelease"} :
           pc' = [pc EXCEPT ![r] = label]
      /\ UNCHANGED repo
  BY DEF Start, Goto
<1>3. Shape'
  BY <1>1, <1>2 DEF Inv, Shape, Labels, Noting
<1>4. Employed'
  BY <1>1, <1>2 DEF Inv, Shape, Employed
<1>5. Exclusive'
  <2>1. Active' \subseteq Active \cup {r} /\ r \notin Active
    BY <1>2 DEF Inv, Shape, Active
  <2>2. ASSUME Alone
        PROVE  \A s, t \in Active' : s = t
    <3>1. Cardinality(Active) < MaxActive /\ IsFiniteSet(Active)
      BY <2>2, FS_Subset DEF Start, Alone, Active
    <3>2. Active = {}
      BY <2>2, <3>1, FS_EmptySet, FS_CardinalityType, BoundsAssumption DEF Alone
    <3> QED
      BY <2>1, <3>2
  <2> SUFFICES ASSUME NEW s \in Active', NEW t \in Active', s # t, LockOf(job'[s]) # None
               PROVE  LockOf(job'[t]) # LockOf(job'[s])
    BY <2>2 DEF Exclusive, Alone
  <2>3. CASE s # r /\ t # r
    BY <1>1, <2>1, <2>3 DEF Inv, Shape, Exclusive, Active
  <2>4. CASE s = r
    BY <1>1, <2>1, <2>4 DEF Inv, Shape, LockFree, Active
  <2>5. CASE t = r
    BY <1>1, <2>1, <2>5 DEF Inv, Shape, LockFree, Active
  <2> QED
    BY <2>3, <2>4, <2>5
<1>6. Dated'
  <2>1. \A s \in Run : Unwritten(s) => Unwritten(s)'
    BY <1>2 DEF Unwritten
  <2>2. \A s \in Run \ {r} : pc'[s] = pc[s] /\ mem'[s].rel = mem[s].rel /\ job'[s] = job[s]
    BY <1>1, <1>2 DEF Inv, Shape, Noting
  <2>3. Unwritten(r) /\ pc'[r] \notin {"publishing", "releasing"}
    BY <1>2 DEF Inv, Shape, Dated, Ended
  <2> QED
    BY <2>1, <2>2, <2>3 DEF Inv, Dated
<1>7. Ordered'
  <2> SUFFICES ASSUME NEW s \in Run, pc'[s] = "releasing"
               PROVE  (IF job[s].sign THEN SignedOrder(s) ELSE UnsignedOrder(s))'
    BY DEF Ordered
  <2>1. /\ s # r /\ pc[s] = "releasing" /\ job'[s] = job[s]
        /\ mem'[s].rel = mem[s].rel /\ mem'[s].todo = mem[s].todo
    BY <1>1, <1>2 DEF Inv, Shape, Noting
  <2>2. IF job[s].sign THEN SignedOrder(s) ELSE UnsignedOrder(s)
    BY <2>1 DEF Inv, Ordered
  <2> QED
    BY <1>2, <2>1, <2>2 DEF SignedOrder, UnsignedOrder, Unwritten, Target
<1>8. InReleaseLast' /\ NoStaleSignature'
  BY <1>2 DEF Inv, InReleaseLast, NoStaleSignature
<1> QED
  BY <1>3, <1>4, <1>5, <1>6, <1>7, <1>8 DEF Inv

\* A run renders its Release, under its own date, before it sends anything.
LEMMA PublishKeeps ==
  ASSUME Inv, NEW r \in Run, pc[r] = "reading", job[r].op \in Writers,
         NEW requests, NEW rel, Publish(r, requests, Stamp(rel, r)), UNCHANGED <<repo, job>>
  PROVE  Inv'
<1>1. /\ pc' = [pc EXCEPT ![r] = "publishing"]
      /\ DOMAIN mem' = Run
      /\ \A s \in Run \ {r} : mem'[s] = mem[s]
      /\ {"rel", "todo"} \subseteq DOMAIN mem'[r]
      /\ mem'[r].rel = Stamp(rel, r)
  BY DEF Publish, Goto, Remember, Inv, Shape
<1>2. Shape'
  BY <1>1 DEF Inv, Shape, Labels
<1>3. Employed'
  BY <1>1 DEF Inv, Shape, Employed
<1>4. Active' = Active
  BY <1>1 DEF Inv, Shape, Active, Ended
<1>5. Exclusive'
  BY <1>4 DEF Inv, Exclusive
<1>6. Dated'
  BY <1>1 DEF Inv, Shape, Dated, Unwritten, Stamp, Ended
<1>7. Ordered'
  <2> SUFFICES ASSUME NEW s \in Run, pc'[s] = "releasing"
               PROVE  (IF job[s].sign THEN SignedOrder(s) ELSE UnsignedOrder(s))'
    BY DEF Ordered
  <2>1. s # r /\ pc[s] = "releasing" /\ mem'[s] = mem[s]
    BY <1>1 DEF Inv, Shape
  <2>2. IF job[s].sign THEN SignedOrder(s) ELSE UnsignedOrder(s)
    BY <2>1 DEF Inv, Ordered
  <2> QED
    BY <2>1, <2>2 DEF SignedOrder, UnsignedOrder, Unwritten, Target
<1>8. InReleaseLast' /\ NoStaleSignature'
  BY DEF Inv, InReleaseLast, NoStaleSignature
<1> QED
  BY <1>2, <1>3, <1>5, <1>6, <1>7, <1>8 DEF Inv

\* Every operation fails, is done, or publishes what it has computed.
LEMMA PrepareKeeps ==
  ASSUME Inv, NEW r \in Run,
         PrepareUpload(r) \/ PrepareCopy(r) \/ PrepareDelete(r) \/ PrepareVerify(r)
  PROVE  Inv'
<1>1. pc[r] = "reading" /\ job[r].op \in Writers /\ UNCHANGED <<repo, job>>
  BY DEF PrepareUpload, PrepareCopy, PrepareDelete, PrepareVerify, Read, Writers
<1>2. \/ Ends(r, "failed") \/ Ends(r, "done")
      \/ \E archs, mans, bodies : PublishManifests(r, archs, mans, bodies)
      \/ PublishRelease(r)
  <2>1. CASE PrepareUpload(r)
    BY <2>1 DEF PrepareUpload
  <2>2. CASE PrepareCopy(r)
    BY <2>2 DEF PrepareCopy
  <2>3. CASE PrepareDelete(r)
    BY <2>3 DEF PrepareDelete
  <2>4. CASE PrepareVerify(r)
    BY <2>4 DEF PrepareVerify
  <2> QED
    BY <2>1, <2>2, <2>3, <2>4
<1>3. CASE Ends(r, "failed") \/ Ends(r, "done")
  <2>1. r \in Active
    BY <1>1 DEF Active, Ended
  <2> QED
    BY <1>1, <1>3, <2>1, EndsQuietly, QuietKeeps DEF Ended
<1>4. ASSUME \E requests, rel : Publish(r, requests, Stamp(rel, r))
      PROVE  Inv'
  BY <1>1, <1>4, PublishKeeps
<1>5. ASSUME NEW archs, NEW mans, NEW bodies, PublishManifests(r, archs, mans, bodies)
      PROVE  Inv'
  BY <1>4, <1>5 DEF PublishManifests
<1>6. CASE PublishRelease(r)
  BY <1>4, <1>6 DEF PublishRelease
<1> QED
  BY <1>2, <1>3, <1>5, <1>6

-----------------------------------------------------------------------------
(* Release.Publish.                                                        *)

\* Nothing is stored at the beginning; the requests are in their order.
LEMMA BeginReleaseKeeps ==
  ASSUME Inv, NEW r \in Run, BeginRelease(r)
  PROVE  Inv'
<1>1. /\ pc[r] = "publishing"
      /\ pc' = [pc EXCEPT ![r] = "releasing"]
      /\ DOMAIN mem' = Run
      /\ \A s \in Run \ {r} : mem'[s] = mem[s]
      /\ {"rel", "todo"} \subseteq DOMAIN mem'[r]
      /\ mem'[r].rel = mem[r].rel
      /\ mem'[r].todo = ReleaseRequests(job[r].sign)
      /\ UNCHANGED <<repo, job>>
  BY DEF BeginRelease, Goto, Remember, Inv, Shape
<1>2. Shape'
  BY <1>1 DEF Inv, Shape, Labels
<1>3. Employed'
  BY <1>1 DEF Inv, Shape, Employed
<1>4. Active' = Active
  BY <1>1 DEF Inv, Shape, Active, Ended
<1>5. Exclusive'
  BY <1>1, <1>4 DEF Inv, Exclusive
<1>6. \A s \in Run : Unwritten(s)' <=> Unwritten(s)
  BY <1>1 DEF Unwritten
<1>7. Dated'
  BY <1>1, <1>6 DEF Inv, Shape, Dated, Ended
<1>8. Ordered'
  <2> SUFFICES ASSUME NEW s \in Run, pc'[s] = "releasing"
               PROVE  (IF job[s].sign THEN SignedOrder(s) ELSE UnsignedOrder(s))'
    BY DEF Ordered
  <2>1. CASE s = r
    <3>1. Unwritten(r)'
      BY <1>1, <1>6 DEF Inv, Dated, Ended
    <3> QED
      BY <1>1, <2>1, <3>1 DEF ReleaseRequests, SignedOrder, UnsignedOrder
  <2>2. CASE s # r
    <3>1. pc[s] = "releasing" /\ mem'[s] = mem[s]
      BY <1>1, <2>2 DEF Inv, Shape
    <3>2. IF job[s].sign THEN SignedOrder(s) ELSE UnsignedOrder(s)
      BY <3>1 DEF Inv, Ordered
    <3> QED
      BY <1>1, <1>6, <3>1, <3>2 DEF SignedOrder, UnsignedOrder, Target
  <2> QED
    BY <2>1, <2>2
<1>9. InReleaseLast' /\ NoStaleSignature'
  BY <1>1 DEF Inv, InReleaseLast, NoStaleSignature
<1> QED
  BY <1>2, <1>3, <1>5, <1>7, <1>8, <1>9 DEF Inv

\* A request of Release.Publish that is not the failure of Sign.
ReleaseRequest(r) ==
  /\ pc[r] = "releasing" /\ Sent(r)
  /\ \/ Releasing(r, "sign") /\ UNCHANGED repo
     \/ SendRelease(r) \/ SendSignature(r) \/ DeleteSignature(r)

\* The codenames of two runs that publish are apart.
LEMMA Apart ==
  ASSUME Inv, TakeTurns, NEW r \in Run, NEW s \in Run, r # s,
         pc[r] = "releasing", pc[s] = "releasing"
  PROVE  Target(job[r]) # Target(job[s])
<1>1. r \in Active /\ s \in Active
  BY DEF Active, Ended
<1>2. ~Alone
  BY <1>1 DEF Inv, Exclusive
<1>3. \A q \in {r, s} : LockOf(job[q]) = Target(job[q]) /\ LockOf(job[q]) # None
  BY <1>2 DEF Inv, Employed, TakeTurns, WritersLocked
<1> QED
  BY <1>1, <1>3 DEF Inv, Exclusive

\* Release.Publish goes on: what r sends, from what was stored before.
Signing(r, c, rel) ==
  /\ job[r].sign
  /\ \/ /\ mem'[r].todo = <<"putRelease", "putGpg", "putInRelease">>
        /\ Unwritten(r) /\ repo' = repo
     \/ /\ mem'[r].todo = <<"putGpg", "putInRelease">>
        /\ Unwritten(r) /\ repo' = [repo EXCEPT !.release[c] = rel]
     \/ /\ mem'[r].todo = <<"putInRelease">> /\ repo.release[c] = rel
        /\ repo' = [repo EXCEPT !.gpg[c] = rel]
     \/ /\ mem'[r].todo = <<>> /\ repo.release[c] = rel /\ repo.gpg[c] = rel
        /\ repo' = [repo EXCEPT !.inRelease[c] = rel]

Unsigning(r, c, rel) ==
  /\ ~job[r].sign
  /\ \/ /\ mem'[r].todo = <<"deleteInRelease", "putRelease">> /\ Unwritten(r)
        /\ repo' = [repo EXCEPT !.gpg[c] = None]
     \/ /\ mem'[r].todo = <<"putRelease">> /\ Unwritten(r) /\ repo.gpg[c] = None
        /\ repo' = [repo EXCEPT !.inRelease[c] = None]
     \/ /\ mem'[r].todo = <<>> /\ Unwritten(r)
        /\ repo.gpg[c] = None /\ repo.inRelease[c] = None
        /\ repo' = [repo EXCEPT !.release[c] = rel]

LEMMA NextRequest ==
  ASSUME Inv, NEW r \in Run, ReleaseRequest(r)
  PROVE  Signing(r, Target(job[r]), mem[r].rel) \/ Unsigning(r, Target(job[r]), mem[r].rel)
<1> DEFINE todo == mem[r].todo
           c == Target(job[r])
           rel == mem[r].rel
<1>1. mem'[r].todo = Tail(todo)
  BY DEF ReleaseRequest, Sent, Remember, Inv, Shape
<1>2. /\ todo # <<>>
      /\ \/ Head(todo) = "sign" /\ repo' = repo
         \/ Head(todo) = "putRelease" /\ repo' = [repo EXCEPT !.release[c] = rel]
         \/ Head(todo) = "putGpg" /\ repo' = [repo EXCEPT !.gpg[c] = rel]
         \/ Head(todo) = "putInRelease" /\ repo' = [repo EXCEPT !.inRelease[c] = rel]
         \/ Head(todo) = "deleteGpg" /\ repo' = [repo EXCEPT !.gpg[c] = None]
         \/ Head(todo) = "deleteInRelease" /\ repo' = [repo EXCEPT !.inRelease[c] = None]
  BY DEF ReleaseRequest, Releasing, SendRelease, SendSignature, DeleteSignature
<1>3. IF job[r].sign THEN SignedOrder(r) ELSE UnsignedOrder(r)
  BY DEF ReleaseRequest, Inv, Ordered
<1>4. CASE job[r].sign
  <2>1. CASE todo = <<"sign", "putRelease", "putGpg", "putInRelease">> /\ Unwritten(r)
    <3>1. Head(todo) = "sign" /\ Tail(todo) = <<"putRelease", "putGpg", "putInRelease">>
      BY <2>1
    <3> QED
      BY <1>1, <1>2, <1>4, <2>1, <3>1 DEF Signing
  <2>2. CASE todo = <<"putRelease", "putGpg", "putInRelease">> /\ Unwritten(r)
    <3>1. Head(todo) = "putRelease" /\ Tail(todo) = <<"putGpg", "putInRelease">>
      BY <2>2
    <3> QED
      BY <1>1, <1>2, <1>4, <2>2, <3>1 DEF Signing
  <2>3. CASE todo = <<"putGpg", "putInRelease">> /\ repo.release[c] = rel
    <3>1. Head(todo) = "putGpg" /\ Tail(todo) = <<"putInRelease">>
      BY <2>3
    <3> QED
      BY <1>1, <1>2, <1>4, <2>3, <3>1 DEF Signing
  <2>4. CASE todo = <<"putInRelease">> /\ repo.release[c] = rel /\ repo.gpg[c] = rel
    <3>1. Head(todo) = "putInRelease" /\ Tail(todo) = <<>>
      BY <2>4
    <3> QED
      BY <1>1, <1>2, <1>4, <2>4, <3>1 DEF Signing
  <2> QED
    BY <1>2, <1>3, <1>4, <2>1, <2>2, <2>3, <2>4 DEF SignedOrder
<1>5. CASE ~job[r].sign
  <2>1. CASE todo = <<"deleteGpg", "deleteInRelease", "putRelease">> /\ Unwritten(r)
    <3>1. Head(todo) = "deleteGpg" /\ Tail(todo) = <<"deleteInRelease", "putRelease">>
      BY <2>1
    <3> QED
      BY <1>1, <1>2, <1>5, <2>1, <3>1 DEF Unsigning
  <2>2. CASE todo = <<"deleteInRelease", "putRelease">> /\ Unwritten(r) /\ repo.gpg[c] = None
    <3>1. Head(todo) = "deleteInRelease" /\ Tail(todo) = <<"putRelease">>
      BY <2>2
    <3> QED
      BY <1>1, <1>2, <1>5, <2>2, <3>1 DEF Unsigning
  <2>3. CASE /\ todo = <<"putRelease">> /\ Unwritten(r)
             /\ repo.gpg[c] = None /\ repo.inRelease[c] = None
    <3>1. Head(todo) = "putRelease" /\ Tail(todo) = <<>>
      BY <2>3
    <3> QED
      BY <1>1, <1>2, <1>5, <2>3, <3>1 DEF Unsigning
  <2> QED
    BY <1>2, <1>3, <1>5, <2>1, <2>2, <2>3 DEF UnsignedOrder
<1> QED
  BY <1>4, <1>5

LEMMA ReleaseRequestKeeps ==
  ASSUME Inv, TakeTurns, NEW r \in Run, ReleaseRequest(r)
  PROVE  Inv'
<1> DEFINE c == Target(job[r])
           rel == mem[r].rel
<1>1. /\ pc[r] = "releasing" /\ UNCHANGED <<pc, job>>
      /\ DOMAIN mem' = Run
      /\ \A s \in Run \ {r} : mem'[s] = mem[s]
      /\ {"rel", "todo"} \subseteq DOMAIN mem'[r]
      /\ mem'[r].rel = rel
  BY DEF ReleaseRequest, Sent, Remember, Inv, Shape
<1>2. c \in Codename /\ rel.date = r /\ rel.signed = job[r].sign
  BY <1>1, JobsAssumption DEF Inv, Employed, Dated
<1>3. Signing(r, c, rel) \/ Unsigning(r, c, rel)
  BY NextRequest
<1> HIDE DEF c, rel
\* What one request changes: an object of c, to rel or to nothing.
<1>4. /\ {"release", "gpg", "inRelease"} \subseteq DOMAIN repo'
      /\ \A kind \in {"release", "gpg", "inRelease"} :
           /\ DOMAIN repo'[kind] = Codename
           /\ \A d \in Codename \ {c} : repo'[kind][d] = repo[kind][d]
           /\ repo'[kind][c] \in {repo[kind][c], rel, None}
  BY <1>2, <1>3 DEF Signing, Unsigning, Inv, Shape
<1>5. \A s \in Run \ {r} : Unwritten(s) => Unwritten(s)'
  <2> SUFFICES ASSUME NEW s \in Run \ {r}, Unwritten(s),
                      NEW d \in Codename, NEW kind \in {"release", "gpg", "inRelease"},
                      repo'[kind][d] # None
               PROVE  repo'[kind][d].date # s
    BY DEF Unwritten
  <2> QED
    BY <1>2, <1>4 DEF Unwritten
<1>6. Shape'
  BY <1>1, <1>4 DEF Inv, Shape
<1>7. Employed' /\ Exclusive'
  BY <1>1 DEF Inv, Employed, Exclusive, Active
<1>8. Dated'
  BY <1>1, <1>2, <1>5 DEF Inv, Dated, rel
<1>9. Ordered'
  <2> SUFFICES ASSUME NEW s \in Run, pc[s] = "releasing"
               PROVE  (IF job[s].sign THEN SignedOrder(s) ELSE UnsignedOrder(s))'
    BY <1>1 DEF Ordered
  <2>1. CASE s = r
    <3>1. CASE Signing(r, c, rel)
      BY <1>1, <1>2, <2>1, <3>1 DEF Signing, SignedOrder, Unwritten, Inv, Shape, c
    <3>2. CASE Unsigning(r, c, rel)
      BY <1>1, <1>2, <2>1, <3>2 DEF Unsigning, UnsignedOrder, Unwritten, Inv, Shape, c
    <3> QED
      BY <1>3, <3>1, <3>2
  <2>2. CASE s # r
    <3>1. mem'[s] = mem[s] /\ job' = job
      BY <1>1, <2>2
    <3>2. IF job[s].sign THEN SignedOrder(s) ELSE UnsignedOrder(s)
      BY DEF Inv, Ordered
    <3>3. Target(job[s]) \in Codename \ {c}
      BY <1>1, <2>2, Apart, JobsAssumption DEF Inv, Employed, c
    <3> QED
      BY <1>4, <1>5, <2>2, <3>1, <3>2, <3>3 DEF SignedOrder, UnsignedOrder, Target
  <2> QED
    BY <2>1, <2>2
<1>10. InReleaseLast'
  <2> SUFFICES ASSUME NEW d \in Codename,
                      repo'.inRelease[d] # None, repo'.inRelease[d] = repo'.release[d]
               PROVE  repo'.gpg[d] \in {repo'.release[d], None}
    BY DEF InReleaseLast
  <2>1. CASE d # c
    BY <1>4, <2>1 DEF Inv, InReleaseLast
  <2>2. CASE d = c /\ Signing(r, c, rel)
    BY <1>2, <2>2 DEF Signing, Unwritten, Inv, Shape, InReleaseLast
  <2>3. CASE d = c /\ Unsigning(r, c, rel)
    BY <1>2, <2>3 DEF Unsigning, Inv, Shape, InReleaseLast
  <2> QED
    BY <1>3, <2>1, <2>2, <2>3
<1>11. NoStaleSignature'
  <2> SUFFICES ASSUME NEW d \in Codename,
                      repo'.release[d] # None, ~repo'.release[d].signed
               PROVE  repo'.gpg[d] = None /\ repo'.inRelease[d] = None
    BY DEF NoStaleSignature
  <2>1. CASE d # c
    BY <1>4, <2>1 DEF Inv, NoStaleSignature
  <2>2. CASE d = c /\ Signing(r, c, rel)
    BY <1>2, <2>2 DEF Signing, Inv, Shape, NoStaleSignature
  <2>3. CASE d = c /\ Unsigning(r, c, rel)
    BY <1>2, <2>3 DEF Unsigning, Inv, Shape, NoStaleSignature
  <2> QED
    BY <1>3, <2>1, <2>2, <2>3
<1> QED
  BY <1>6, <1>7, <1>8, <1>9, <1>10, <1>11 DEF Inv

\* Sign succeeds or ends the run.
LEMMA SignKeeps ==
  ASSUME Inv, TakeTurns, NEW r \in Run, Sign(r)
  PROVE  Inv'
<1>1. pc[r] = "releasing" /\ r \in Active /\ repo' = repo
  BY DEF Sign, Releasing, Active, Ended
<1>2. CASE Sent(r)
  BY <1>1, <1>2, ReleaseRequestKeeps DEF Sign, ReleaseRequest
<1>3. CASE Ends(r, "unsigned") /\ UNCHANGED <<job, client, acked>>
  BY <1>1, <1>3, EndsQuietly, QuietKeeps DEF Ended
<1> QED
  BY <1>2, <1>3 DEF Sign

-----------------------------------------------------------------------------
(* The specification.                                                      *)

LEMMA StepKeeps ==
  ASSUME Inv, TakeTurns, NEW r \in Run, Step(r) \/ Stop(r)
  PROVE  Inv'
<1>1. CASE Start(r)
  BY <1>1, StartKeeps
<1>2. CASE GetSource(r) \/ GetRelease(r) \/ GetManifest(r) \/ HeadBody(r) \/ Answer(r)
  BY <1>2, ReadingIsQuiet, QuietKeeps
<1>3. CASE PrepareUpload(r) \/ PrepareCopy(r) \/ PrepareDelete(r) \/ PrepareVerify(r)
  BY <1>3, PrepareKeeps
<1>4. CASE SendBody(r) \/ SendByHash(r) \/ SendIndex(r)
  BY <1>4, BulkIsQuiet, QuietKeeps
<1>5. CASE BeginRelease(r)
  BY <1>5, BeginReleaseKeeps
<1>6. CASE Sign(r)
  BY <1>6, SignKeeps
<1>7. CASE SendRelease(r) \/ SendSignature(r) \/ DeleteSignature(r)
  <2>1. ReleaseRequest(r)
    BY <1>7 DEF SendRelease, SendSignature, DeleteSignature, Releasing, ReleaseRequest
  <2> QED
    BY <2>1, ReleaseRequestKeeps
<1>8. CASE Published(r)
  <2>1. r \in Active /\ Ends(r, "done") /\ UNCHANGED <<repo, job>>
    BY <1>8 DEF Published, Active, Ended
  <2> QED
    BY <2>1, EndsQuietly, QuietKeeps DEF Ended
<1>9. CASE ListIndexes(r) \/ ScanIndex(r) \/ ListPool(r) \/ DeleteBody(r) \/ Cleaned(r)
  BY <1>9, CleanIsQuiet, QuietKeeps
<1>10. CASE Stop(r)
  BY <1>10, EndsQuietly, QuietKeeps DEF Stop, Ended
<1> QED
  BY <1>1, <1>2, <1>3, <1>4, <1>5, <1>6, <1>7, <1>8, <1>9, <1>10 DEF Step

LEMMA StutterKeeps ==
  ASSUME Inv, UNCHANGED <<repo, pc, job, mem>>
  PROVE  Inv'
BY DEF Inv, Shape, Employed, Exclusive, Active, Dated, Unwritten, Ordered, SignedOrder,
       UnsignedOrder, Target, InReleaseLast, NoStaleSignature

LEMMA StartsInOrder ==
  ASSUME InitialRepo = EmptyRepo, Init
  PROVE  Inv
<1>1. Shape
  BY DEF Init, Shape, EmptyRepo, NoMemory, Labels
<1>2. Employed /\ Exclusive /\ Ordered
  BY DEF Init, Employed, Exclusive, Ordered, Active, Ended
<1>3. Dated
  BY DEF Init, Dated, Unwritten, EmptyRepo
<1>4. InReleaseLast /\ NoStaleSignature
  BY DEF Init, InReleaseLast, NoStaleSignature, EmptyRepo
<1> QED
  BY <1>1, <1>2, <1>3, <1>4 DEF Inv

\* Whatever runs start, interleave and stop, a run's Release stays its own until
\* it is published, and no other run publishes to its codename meanwhile.
THEOREM OrderAlways ==
  ASSUME TakeTurns, InitialRepo = EmptyRepo
  PROVE  Spec => []Inv
<1>1. Init => Inv
  BY StartsInOrder
<1>2. Inv /\ [Next]_vars => Inv'
  <2> SUFFICES ASSUME Inv, [Next]_vars
               PROVE  Inv'
    OBVIOUS
  <2>1. CASE \E r \in Run : Step(r) \/ Stop(r)
    BY <2>1, StepKeeps
  <2>2. CASE ClientFetches \/ AllDone \/ UNCHANGED vars
    BY <2>2, StutterKeeps DEF ClientFetches, AllDone, vars
  <2> QED
    BY <2>1, <2>2 DEF Next
<1> QED
  BY <1>1, <1>2, PTL DEF Spec

\* SIGNING.md, "Clients treat InRelease as the final word, so it goes last": of
\* the writers that lock, however many run at once and wherever each stops, none
\* leaves an InRelease of the stored Release beside a Release.gpg of another.
THEOREM InReleaseIsLast ==
  ASSUME TakeTurns, InitialRepo = EmptyRepo
  PROVE  Spec => []InReleaseLast
<1>1. Inv => InReleaseLast
  BY DEF Inv
<1> QED
  BY <1>1, OrderAlways, PTL

\* SIGNING.md, "an old signature can never keep describing a repository that has
\* moved on": a Release that was published without a signer has no signature
\* beside it, of itself or of an earlier Release, at any step of a locked writer.
THEOREM NoSignatureIsStale ==
  ASSUME TakeTurns, InitialRepo = EmptyRepo
  PROVE  Spec => []NoStaleSignature
<1>1. Inv => NoStaleSignature
  BY DEF Inv
<1> QED
  BY <1>1, OrderAlways, PTL

-----------------------------------------------------------------------------
(* What a publication sends.                                               *)

\* A Release that lists nothing but indexes of its components and architectures,
\* each with a list of entries.
GoodRelease(rel) ==
  /\ IsRelease(rel)
  /\ DOMAIN rel.files \subseteq EntriesOf(rel.comps) \X EntriesOf(rel.archs)
  /\ \A i \in DOMAIN rel.files : IsList(rel.files[i])

\* The bodies are sent before anything else.
BodiesFirst(requests) ==
  \A n, k \in DOMAIN requests :
    k < n /\ requests[n].op = "putBody" => requests[k].op = "putBody"

Bodies(j, files) == {PutBody(j, p) : p \in files}

\* The requests of a list of indexes, whose contents Release has.
Indexes(codename, indexes, rel) ==
  {PutIndex(codename, i, rel.files[i]) : i \in indexes}
    \cup (IF rel.byHash THEN {PutByHash(codename, i, rel.files[i]) : i \in indexes} ELSE {})

\* rel is what becomes of the Release old when the indexes of a set get new
\* contents, and every index it lacks is added, empty.
Completes(rel, old, updated, contents) ==
  /\ GoodRelease(rel) /\ rel.byHash = old.byHash
  /\ EntriesOf(rel.archs) = EntriesOf(old.archs) \cup {i[2] : i \in updated}
  /\ DOMAIN rel.files = EntriesOf(rel.comps) \X EntriesOf(rel.archs)
  /\ DOMAIN old.files \cup updated \subseteq DOMAIN rel.files
  /\ \A i \in updated : rel.files[i] = contents[i[2]]
  /\ \A i \in DOMAIN old.files \ updated : rel.files[i] = old.files[i]
  /\ \A i \in DOMAIN rel.files \ (DOMAIN old.files \cup updated) : rel.files[i] = <<>>

\* The run r goes on to publish rel: it sends bodies, then every index that was
\* updated or added.
Publishes(r, rel, updated, contents, bodies) ==
  \E requests :
    /\ Publish(r, requests, rel)
    /\ Completes(rel, mem[r].rel, updated, contents)
    /\ rel.date = r /\ rel.signed = job[r].sign
    /\ IsList(requests)
    /\ BodiesFirst(requests)
    /\ EntriesOf(requests) =
         Bodies(job[r], bodies)
           \cup Indexes(Target(job[r]),
                        updated \cup (DOMAIN rel.files \ DOMAIN mem[r].rel.files), rel)

LEMMA StampKeeps ==
  ASSUME NEW rel, NEW r
  PROVE  /\ \A x \in {"comps", "archs", "files", "byHash"} : Stamp(rel, r)[x] = rel[x]
         /\ Stamp(rel, r).date = r /\ Stamp(rel, r).signed = job[r].sign
         /\ {"comps", "archs", "files", "byHash"} \subseteq DOMAIN Stamp(rel, r)
BY DEF Stamp

\* Validating the other manifests completes Release.
LEMMA WithMissingCompletes ==
  ASSUME NEW old, GoodRelease(old), NEW r
  PROVE  /\ Completes(Stamp(WithMissing(old), r), old, {}, <<>>)
         /\ IsList(MissingManifests(old))
         /\ EntriesOf(MissingManifests(old)) =
              DOMAIN Stamp(WithMissing(old), r).files \ DOMAIN old.files
<1> DEFINE missing == MissingManifests(old)
           new == WithMissing(old)
           empty == [i \in EntriesOf(missing) |-> <<>>]
           rel == Stamp(new, r)
<1>1. /\ IsList(missing)
      /\ EntriesOf(missing) =
           (EntriesOf(old.comps) \X EntriesOf(old.archs)) \ DOMAIN old.files
  BY MissingManifestsEntries DEF GoodRelease
<1>2. new = UpdateManifests(old, missing, empty)
  BY DEF WithMissing
<1> HIDE DEF missing, new, empty
<1>3. Updated(new, old, EntriesOf(missing), empty)
  BY <1>1, <1>2, UpdateManifestsEntries DEF GoodRelease
<1>4. EntriesOf(new.comps) = EntriesOf(old.comps) /\ EntriesOf(new.archs) = EntriesOf(old.archs)
  BY <1>1, <1>3 DEF Updated
<1>5. DOMAIN new.files = EntriesOf(new.comps) \X EntriesOf(new.archs)
  BY <1>1, <1>3, <1>4 DEF GoodRelease, Updated
<1>6. /\ rel.comps = new.comps /\ rel.archs = new.archs
      /\ rel.files = new.files /\ rel.byHash = new.byHash
      /\ {"comps", "archs", "files", "byHash"} \subseteq DOMAIN rel
  BY StampKeeps
<1> HIDE DEF rel
<1>7. GoodRelease(rel)
  BY <1>1, <1>3, <1>5, <1>6, EmptyIsList DEF GoodRelease, IsRelease, Updated, empty
<1>8. Completes(rel, old, {}, <<>>)
  BY <1>1, <1>3, <1>4, <1>5, <1>6, <1>7 DEF Completes, Updated, empty
<1>9. EntriesOf(missing) = DOMAIN rel.files \ DOMAIN old.files
  BY <1>1, <1>3, <1>6 DEF Updated
<1> QED
  BY <1>1, <1>8, <1>9 DEF rel, missing, new

\* The requests of a list of indexes.
LEMMA MetadataRequestsEntries ==
  ASSUME NEW codename, NEW indexes, IsList(indexes), NEW rel
  PROVE  /\ IsList(MetadataRequests(codename, indexes, rel))
         /\ EntriesOf(MetadataRequests(codename, indexes, rel)) =
              Indexes(codename, EntriesOf(indexes), rel)
<1> DEFINE put == [n \in DOMAIN indexes |-> PutIndex(codename, indexes[n], rel.files[indexes[n]])]
           hash == [n \in DOMAIN indexes |-> PutByHash(codename, indexes[n], rel.files[indexes[n]])]
           puts == {PutIndex(codename, i, rel.files[i]) : i \in EntriesOf(indexes)}
           hashes == {PutByHash(codename, i, rel.files[i]) : i \in EntriesOf(indexes)}
<1>1. IsList(put) /\ EntriesOf(put) = puts
  BY ImageIsList DEF EntriesOf
<1>2. IsList(hash) /\ EntriesOf(hash) = hashes
  BY ImageIsList DEF EntriesOf
<1>3. /\ IndexRequests(codename, indexes, rel) = put
      /\ ByHashRequests(codename, indexes, rel) = IF rel.byHash THEN hash ELSE <<>>
      /\ Indexes(codename, EntriesOf(indexes), rel) = puts \cup IF rel.byHash THEN hashes ELSE {}
  BY DEF IndexRequests, ByHashRequests, Indexes, Map
<1> HIDE DEF put, hash, puts, hashes
<1>4. CASE rel.byHash
  BY <1>1, <1>2, <1>3, <1>4, ConcatEntries DEF MetadataRequests
<1>5. CASE ~rel.byHash
  BY <1>1, <1>3, <1>5, ConcatEntries, EmptyIsList DEF MetadataRequests
<1> QED
  BY <1>4, <1>5

\* None of them is a body.
LEMMA IndexesAreNoBodies ==
  ASSUME NEW codename, NEW indexes, NEW rel, NEW q \in Indexes(codename, indexes, rel)
  PROVE  q.op # "putBody"
BY DEF Indexes, PutIndex, PutByHash

\* Bodies before indexes.
LEMMA ConcatBodiesFirst ==
  ASSUME NEW s, IsList(s), NEW t, IsList(t),
         \A q \in EntriesOf(s) : q.op = "putBody", \A q \in EntriesOf(t) : q.op # "putBody"
  PROVE  BodiesFirst(s \o t)
<1> DEFINE S == EntriesOf(s) \cup EntriesOf(t)
<1>1. s \in Seq(S) /\ t \in Seq(S)
  BY SeqMonotonic DEF IsList
<1> HIDE DEF S
<1>2. /\ s \o t \in Seq(S)
      /\ Len(s \o t) = Len(s) + Len(t)
      /\ \A i \in 1..(Len(s) + Len(t)) :
           (s \o t)[i] = IF i <= Len(s) THEN s[i] ELSE t[i - Len(s)]
  BY <1>1, ConcatProperties
<1>3. /\ Len(s) \in Nat /\ DOMAIN s = 1..Len(s)
      /\ Len(t) \in Nat /\ DOMAIN t = 1..Len(t)
      /\ DOMAIN (s \o t) = 1..(Len(s) + Len(t))
  BY <1>1, <1>2, LenProperties
<1>4. ASSUME NEW n \in DOMAIN (s \o t)
      PROVE  (s \o t)[n].op = "putBody" <=> n <= Len(s)
  <2>1. CASE n <= Len(s)
    BY <1>2, <1>3, <2>1 DEF EntriesOf
  <2>2. CASE ~(n <= Len(s))
    <3>1. (s \o t)[n] = t[n - Len(s)] /\ n - Len(s) \in DOMAIN t
      BY <1>2, <1>3, <2>2
    <3> QED
      BY <2>2, <3>1 DEF EntriesOf
  <2> QED
    BY <2>1, <2>2
<1> QED
  BY <1>3, <1>4 DEF BodiesFirst

LEMMA TailBodiesFirst ==
  ASSUME NEW s, IsList(s), s # <<>>, BodiesFirst(s)
  PROVE  /\ BodiesFirst(Tail(s))
         /\ Head(s).op # "putBody" => \A q \in EntriesOf(Tail(s)) : q.op # "putBody"
<1>1. /\ Tail(s) \in Seq(EntriesOf(s))
      /\ Len(Tail(s)) = Len(s) - 1
      /\ \A i \in 1..Len(Tail(s)) : Tail(s)[i] = s[i + 1]
  BY HeadTailProperties DEF IsList
<1>2. /\ Len(s) \in Nat \ {0} /\ DOMAIN s = 1..Len(s)
      /\ DOMAIN Tail(s) = 1..(Len(s) - 1)
  BY <1>1, ListIsFunction, EmptySeq, LenProperties DEF IsList
<1>3. Head(s) = s[1]
  BY DEF IsList
<1>4. \A n \in DOMAIN Tail(s) : n + 1 \in DOMAIN s /\ Tail(s)[n] = s[n + 1] /\ 1 < n + 1
  BY <1>1, <1>2
<1>5. BodiesFirst(Tail(s))
  BY <1>2, <1>4 DEF BodiesFirst
<1>6. ASSUME Head(s).op # "putBody", NEW n \in DOMAIN Tail(s)
      PROVE  Tail(s)[n].op # "putBody"
  BY <1>2, <1>3, <1>4, <1>6 DEF BodiesFirst
<1> QED
  BY <1>5, <1>6 DEF EntriesOf

\* A Release stays good when good contents are recorded in it.
LEMMA UpdatedIsGood ==
  ASSUME NEW old, GoodRelease(old), NEW new, NEW updated, NEW filled,
         Updated(new, old, updated, filled),
         \A i \in updated : i = <<i[1], i[2]>> /\ IsList(filled[i])
  PROVE  GoodRelease(new)
<1>1. DOMAIN new.files \subseteq EntriesOf(new.comps) \X EntriesOf(new.archs)
  <2> SUFFICES ASSUME NEW i \in DOMAIN new.files
               PROVE  i \in EntriesOf(new.comps) \X EntriesOf(new.archs)
    OBVIOUS
  <2>1. CASE i \in updated
    BY <2>1 DEF Updated
  <2>2. CASE i \in DOMAIN old.files
    BY <2>2 DEF Updated, GoodRelease
  <2> QED
    BY <2>1, <2>2 DEF Updated
<1>2. \A i \in DOMAIN new.files : IsList(new.files[i])
  BY DEF Updated, GoodRelease
<1> QED
  BY <1>1, <1>2 DEF Updated, GoodRelease

\* Updating manifests and then completing Release.
LEMMA CompletesAfterUpdate ==
  ASSUME NEW old, NEW new, NEW updated, NEW contents, NEW filled,
         Updated(new, old, updated, filled), \A i \in updated : filled[i] = contents[i[2]],
         NEW rel, Completes(rel, new, {}, <<>>)
  PROVE  Completes(rel, old, updated, contents)
<1>1. DOMAIN old.files \cup updated \subseteq DOMAIN rel.files
  BY DEF Updated, Completes
<1>2. \A i \in updated : rel.files[i] = contents[i[2]]
  BY DEF Updated, Completes
<1>3. \A i \in DOMAIN old.files \ updated : rel.files[i] = old.files[i]
  BY DEF Updated, Completes
<1>4. \A i \in DOMAIN rel.files \ (DOMAIN old.files \cup updated) : rel.files[i] = <<>>
  BY DEF Updated, Completes
<1>5. EntriesOf(rel.archs) = EntriesOf(old.archs) \cup {i[2] : i \in updated}
  BY DEF Updated, Completes
<1> QED
  BY <1>1, <1>2, <1>3, <1>4, <1>5 DEF Completes, Updated

\* Upload and PublishMetadata publish the manifests they are given.
LEMMA PublishManifestsPublishes ==
  ASSUME NEW r, GoodRelease(mem[r].rel),
         NEW archs, IsList(archs), NEW mans, \A a \in EntriesOf(archs) : IsList(mans[a]),
         NEW bodies, IsList(bodies), PublishManifests(r, archs, mans, bodies)
  PROVE  \E rel : Publishes(r, rel, {TargetComp(job[r])} \X EntriesOf(archs), mans,
                            EntriesOf(bodies))
<1> DEFINE j == job[r]
           old == mem[r].rel
           indexes == [n \in DOMAIN archs |-> <<TargetComp(j), archs[n]>>]
           filled == [i \in EntriesOf(indexes) |-> mans[i[2]]]
           updated == UpdateManifests(old, indexes, filled)
           missing == MissingManifests(updated)
           rel == Stamp(WithMissing(updated), r)
           puts == [n \in DOMAIN bodies |-> PutBody(j, bodies[n])]
           meta == MetadataRequests(Target(j), indexes \o missing, rel)
           touched == {TargetComp(j)} \X EntriesOf(archs)
<1>1. Publish(r, puts \o meta, rel)
  BY DEF PublishManifests, Map
<1>2. IsList(indexes) /\ EntriesOf(indexes) = touched
  BY ImageIsList DEF EntriesOf
<1>3. \A i \in touched : i[2] \in EntriesOf(archs) /\ i = <<i[1], i[2]>>
  OBVIOUS
<1>4. \A i \in touched : filled[i] = mans[i[2]] /\ IsList(mans[i[2]])
  BY <1>2, <1>3
<1> HIDE DEF indexes, filled, touched
<1>5. Updated(updated, old, touched, filled)
  BY <1>2, UpdateManifestsEntries DEF GoodRelease
<1> HIDE DEF updated
<1>6. GoodRelease(updated)
  BY <1>3, <1>4, <1>5, UpdatedIsGood
<1>7. /\ Completes(rel, updated, {}, <<>>)
      /\ IsList(missing)
      /\ EntriesOf(missing) = DOMAIN rel.files \ DOMAIN updated.files
  BY <1>6, WithMissingCompletes
<1>8. rel.date = r /\ rel.signed = j.sign
  BY StampKeeps
<1> HIDE DEF rel, missing
<1>9. Completes(rel, old, touched, mans)
  BY <1>4, <1>5, <1>7, CompletesAfterUpdate
<1>10. /\ IsList(indexes \o missing)
       /\ EntriesOf(indexes \o missing) = touched \cup (DOMAIN rel.files \ DOMAIN old.files)
  BY <1>2, <1>5, <1>7, ConcatEntries DEF Updated
<1>11. /\ IsList(meta)
       /\ EntriesOf(meta) =
            Indexes(Target(j), touched \cup (DOMAIN rel.files \ DOMAIN old.files), rel)
  BY <1>10, MetadataRequestsEntries
<1>12. IsList(puts) /\ EntriesOf(puts) = Bodies(j, EntriesOf(bodies))
  BY ImageIsList DEF EntriesOf, Bodies
<1>13. \A q \in EntriesOf(puts) : q.op = "putBody"
  BY <1>12 DEF Bodies, PutBody
<1>14. \A q \in EntriesOf(meta) : q.op # "putBody"
  BY <1>11, IndexesAreNoBodies
<1> HIDE DEF puts, meta
<1>15. /\ IsList(puts \o meta)
       /\ EntriesOf(puts \o meta) = EntriesOf(puts) \cup EntriesOf(meta)
       /\ BodiesFirst(puts \o meta)
  BY <1>11, <1>12, <1>13, <1>14, ConcatEntries, ConcatBodiesFirst
<1>16. Publishes(r, rel, touched, mans, EntriesOf(bodies))
  BY <1>1, <1>8, <1>9, <1>11, <1>12, <1>15 DEF Publishes
<1> QED
  BY <1>16 DEF touched

\* Release.Publish alone publishes the missing manifests.
LEMMA PublishReleasePublishes ==
  ASSUME NEW r, GoodRelease(mem[r].rel), PublishRelease(r)
  PROVE  \E rel : Publishes(r, rel, {}, <<>>, {})
<1> DEFINE j == job[r]
           old == mem[r].rel
           missing == MissingManifests(old)
           rel == Stamp(WithMissing(old), r)
           each == [n \in DOMAIN missing |-> MetadataRequests(Target(j), <<missing[n]>>, rel)]
<1>1. Publish(r, FlattenSeq(each), rel)
  BY DEF PublishRelease, Map
<1>2. /\ Completes(rel, old, {}, <<>>)
      /\ IsList(missing)
      /\ EntriesOf(missing) = DOMAIN rel.files \ DOMAIN old.files
  BY WithMissingCompletes
<1>3. rel.date = r /\ rel.signed = j.sign
  BY StampKeeps
<1> HIDE DEF rel, missing
<1>4. \A n \in DOMAIN missing :
        IsList(each[n]) /\ EntriesOf(each[n]) = Indexes(Target(j), {missing[n]}, rel)
  BY SingletonIsList, MetadataRequestsEntries
<1>5. IsList(each) /\ DOMAIN each = DOMAIN missing
  BY <1>2, ImageIsList
<1> HIDE DEF each
<1>6. /\ IsList(FlattenSeq(each))
      /\ EntriesOf(FlattenSeq(each)) = UNION {EntriesOf(each[n]) : n \in DOMAIN each}
  BY <1>4, <1>5, FlattenEntries
<1>7. UNION {EntriesOf(each[n]) : n \in DOMAIN each} = Indexes(Target(j), EntriesOf(missing), rel)
  <2>1. CASE rel.byHash
    BY <1>4, <1>5, <2>1 DEF Indexes, EntriesOf
  <2>2. CASE ~rel.byHash
    BY <1>4, <1>5, <2>2 DEF Indexes, EntriesOf
  <2> QED
    BY <2>1, <2>2
<1>8. BodiesFirst(FlattenSeq(each))
  <2>1. \A q \in EntriesOf(FlattenSeq(each)) : q.op # "putBody"
    BY <1>6, <1>7, IndexesAreNoBodies
  <2> QED
    BY <2>1 DEF BodiesFirst, EntriesOf
<1>9. Bodies(j, {}) = {}
  BY DEF Bodies
<1>10. Publishes(r, rel, {}, <<>>, {})
  BY <1>1, <1>2, <1>3, <1>6, <1>7, <1>8, <1>9 DEF Publishes
<1> QED
  BY <1>10

-----------------------------------------------------------------------------
(* The types.                                                              *)

Fields == {"rel", "mans", "picked", "noted", "left", "todo", "since"}

GoodMemory(m) ==
  /\ DOMAIN m = Fields
  /\ GoodRelease(m.rel) /\ IsList(m.picked) /\ IsList(m.todo)
  /\ \A a \in DOMAIN m.mans : IsList(m.mans[a])

Stored ==
  /\ DOMAIN repo = {"release", "gpg", "inRelease", "index", "byHash", "pool"}
  /\ \A kind \in {"release", "gpg", "inRelease"} :
       /\ DOMAIN repo[kind] = Codename
       /\ \A c \in Codename : repo[kind][c] = None \/ GoodRelease(repo[kind][c])
  /\ \A key \in DOMAIN repo.index : key[1] \in Codename /\ IsList(repo.index[key])

\* The architectures whose manifests a command reads.
Wanted(j, rel) == IF j.op = "exists" THEN {j.arch} ELSE EntriesOf(ArchsToRead(j, rel))

\* The work that a label stands for, and whose it is.
Work(label) ==
  IF label = "getSource" THEN {"copy"}
  ELSE IF label = "getRelease" THEN Writers \cup {"list"}
  ELSE IF label = "reading" THEN Writers \cup Queries
  ELSE IF label \in {"publishing", "releasing"} THEN Writers
  ELSE IF label \in {"listIndexes", "scan", "sweep"} THEN {"clean"}
  ELSE Writers \cup Queries \cup {"clean"}

\* A request of a run on its way to Release.
BulkRequest(j, rel, q) ==
  \/ j.op = "upload" /\ q \in Bodies(j, EntriesOf(j.files))
  \/ \E i \in DOMAIN rel.files :
       q \in {PutByHash(Target(j), i, rel.files[i]), PutIndex(Target(j), i, rel.files[i])}

\* The architectures whose manifests a command needs are read or going to be.
ReadOrPending(j, m) ==
  \A a \in Wanted(j, m.rel) : a \in DOMAIN m.mans \/ GetRequest(a) \in EntriesOf(m.todo)

GoodRun(r) ==
  /\ GoodMemory(mem[r])
  /\ pc[r] = "idle" <=> job[r] = Unset
  /\ pc[r] # "idle" => job[r] \in Jobs /\ job[r].op \in Work(pc[r])
  /\ pc[r] = "publishing" =>
       /\ BodiesFirst(mem[r].todo)
       /\ \A q \in EntriesOf(mem[r].todo) : BulkRequest(job[r], mem[r].rel, q)
  /\ pc[r] = "reading" => ReadOrPending(job[r], mem[r])

Typed ==
  /\ pc \in [Run -> Labels] /\ DOMAIN job = Run /\ DOMAIN mem = Run
  /\ Stored
  /\ \A r \in Run : GoodRun(r)

\* A step of r changes nothing of another run but what it is asked to find.
LEMMA OthersKeep ==
  ASSUME Typed, NEW s \in Run,
         pc'[s] = pc[s], job'[s] = job[s], mem'[s] = mem[s]
  PROVE  GoodRun(s)'
BY DEF Typed, GoodRun

\* A step of r that leaves the store alone.
LEMMA RunKeeps ==
  ASSUME Typed, NEW r \in Run, NEW m, NEW label \in Labels,
         repo' = repo, job' = job, job[r] \in Jobs,
         label # "idle", job[r].op \in Work(label),
         pc' = [pc EXCEPT ![r] = label],
         mem' = [mem EXCEPT ![r] = m], GoodMemory(m),
         label = "publishing" =>
           BodiesFirst(m.todo) /\ \A q \in EntriesOf(m.todo) : BulkRequest(job[r], m.rel, q),
         label = "reading" => ReadOrPending(job[r], m)
  PROVE  Typed'
<1>1. pc' \in [Run -> Labels] /\ DOMAIN job' = Run /\ DOMAIN mem' = Run
  BY DEF Typed
<1>2. Stored'
  BY DEF Typed, Stored
<1>3. GoodRun(r)'
  BY JobsAssumption DEF Typed, GoodRun
<1>4. ASSUME NEW s \in Run, s # r
      PROVE  GoodRun(s)'
  BY <1>4, OthersKeep DEF Typed
<1> QED
  BY <1>1, <1>2, <1>3, <1>4 DEF Typed

LEMMA EmptyReleaseIsGood == GoodRelease(EmptyRelease)
BY EmptyIsList DEF GoodRelease, IsRelease, EmptyRelease, EmptyMap, EntriesOf

LEMMA NoMemoryIsGood == GoodMemory(NoMemory)
BY EmptyReleaseIsGood, EmptyIsList DEF GoodMemory, NoMemory, Fields, EmptyMap

LEMMA EndsKeepTypes ==
  ASSUME Typed, NEW r \in Run, pc[r] # "idle", NEW label \in Ended, Ends(r, label),
         UNCHANGED <<repo, job>>
  PROVE  Typed'
<1>1. job[r] \in Jobs /\ job[r].op \in Work(label) /\ label \in Labels /\ label # "idle"
  BY JobsAssumption DEF Typed, GoodRun, Work, Ended, Labels
<1>2. pc' = [pc EXCEPT ![r] = label] /\ mem' = [mem EXCEPT ![r] = NoMemory]
  BY DEF Ends, Goto, Remember
<1>3. label # "publishing" /\ label # "reading"
  BY DEF Ended
<1> HIDE DEF Ended
<1> QED
  BY <1>1, <1>2, <1>3, NoMemoryIsGood, RunKeeps

\* The architectures a command reads are a list.
LEMMA ArchsToReadIsList ==
  ASSUME NEW j \in Jobs, j.op \in Writers \cup {"list"}, NEW release, GoodRelease(release)
  PROVE  IsList(ArchsToRead(j, release))
<1>1. IsList(release.archs) /\ IsList(<<j.arch>>)
  BY SingletonIsList DEF GoodRelease, IsRelease
<1>2. CASE j.op = "upload"
  <2> DEFINE own == [n \in DOMAIN j.files |-> UploadArch(j, j.files[n])]
  <2>1. IsList(own)
    BY <1>2, ImageIsList, JobsAssumption
  <2> HIDE DEF own
  <2>2. IsList(UploadArchs(j, release))
    BY <1>1, <2>1, AppendNewEntries, SeedsAssumption DEF UploadArchs, Map, own
  <2> QED
    BY <1>2, <2>2 DEF ArchsToRead
<1>3. CASE j.op \in {"copy", "delete", "verify"}
  BY <1>1, <1>3 DEF ArchsToRead
<1>4. CASE j.op = "list"
  BY <1>1, <1>4, AtEntries DEF ArchsToRead
<1> QED
  BY <1>2, <1>3, <1>4 DEF Writers

LEMMA IndexAtIsList ==
  ASSUME Typed, NEW codename, NEW index
  PROVE  IsList(IndexAt(codename, index))
BY EmptyIsList DEF Typed, Stored, IndexAt

LEMMA ReadingKeepsTypes ==
  ASSUME Typed, NEW r \in Run,
         GetSource(r) \/ GetRelease(r) \/ GetManifest(r) \/ HeadBody(r) \/ Answer(r)
  PROVE  Typed'
<1>1. pc[r] # "idle" /\ job[r] \in Jobs /\ job[r].op \in Work(pc[r]) /\ GoodMemory(mem[r])
  BY DEF GetSource, GetRelease, GetManifest, HeadBody, Answer, Read, Typed, GoodRun
<1>2. CASE GetSource(r)
  <2> DEFINE m == [mem[r] EXCEPT !.picked = IndexAt(job[r].codename, <<job[r].comp, job[r].arch>>)]
  <2>1. GoodMemory(m)
    BY <1>1, IndexAtIsList DEF GoodMemory, Fields
  <2>2. mem' = [mem EXCEPT ![r] = m] /\ pc' = [pc EXCEPT ![r] = "getRelease"] /\ UNCHANGED <<repo, job>>
    BY <1>2 DEF GetSource, Remember, Goto
  <2>3. job[r].op \in Work("getRelease") /\ "getRelease" \in Labels
    BY <1>1, <1>2 DEF GetSource, Work, Labels, Writers
  <2> HIDE DEF m
  <2> QED
    BY <1>1, <2>1, <2>2, <2>3, RunKeeps
<1>3. CASE GetRelease(r)
  <2> DEFINE j == job[r]
             stored == repo.release[Target(j)]
             found == IF stored = None THEN EmptyRelease ELSE stored
             rel == [found EXCEPT !.byHash = IF j.byHash = Unset THEN @ ELSE j.byHash]
             todo == [n \in DOMAIN ArchsToRead(j, rel) |-> GetRequest(ArchsToRead(j, rel)[n])]
             m == [mem[r] EXCEPT !.rel = rel, !.todo = todo]
  <2>1. j.op \in Writers \cup {"list"} /\ Target(j) \in Codename
    <3>1. pc[r] = "getRelease"
      BY <1>3 DEF GetRelease
    <3> QED
      BY <1>1, <3>1, JobsAssumption DEF Work
  <2>2. GoodRelease(found)
    BY <2>1, EmptyReleaseIsGood DEF Typed, Stored
  <2> HIDE DEF found
  <2>3. GoodRelease(rel)
    BY <2>2 DEF GoodRelease, IsRelease
  <2> HIDE DEF rel
  <2>4. /\ IsList(todo)
        /\ \A a \in EntriesOf(ArchsToRead(j, rel)) : GetRequest(a) \in EntriesOf(todo)
    BY <1>1, <2>1, <2>3, ArchsToReadIsList, ImageIsList DEF EntriesOf
  <2> HIDE DEF todo
  <2>5. GoodMemory(m)
    BY <1>1, <2>3, <2>4 DEF GoodMemory, Fields
  <2>6. mem' = [mem EXCEPT ![r] = m] /\ pc' = [pc EXCEPT ![r] = "reading"] /\ UNCHANGED <<repo, job>>
    BY <1>3 DEF GetRelease, Remember, Goto, Map, rel, found, todo
  <2>7. job[r].op \in Work("reading") /\ "reading" \in Labels /\ j.op # "exists"
    BY <2>1 DEF Work, Labels, Writers, Queries
  <2>8. m.rel = rel /\ m.todo = todo
    BY <1>1 DEF GoodMemory, Fields
  <2>9. ReadOrPending(j, m)
    BY <2>4, <2>7, <2>8 DEF ReadOrPending, Wanted
  <2> HIDE DEF m
  <2> QED
    BY <1>1, <2>5, <2>6, <2>7, <2>9, RunKeeps
<1>4. ASSUME NEW m, GoodMemory(m), mem' = [mem EXCEPT ![r] = m], pc[r] = "reading",
             UNCHANGED <<repo, pc, job>>, ReadOrPending(job[r], m)
      PROVE  Typed'
  <2>1. pc' = [pc EXCEPT ![r] = "reading"]
    BY <1>4 DEF Typed
  <2> QED
    BY <1>1, <1>4, <2>1, RunKeeps DEF Labels
<1>5. CASE GetManifest(r)
  <2> DEFINE arch == Head(mem[r].todo).arch
             content == IndexAt(Target(job[r]), <<TargetComp(job[r]), arch>>)
             heads == IF job[r].op # "verify" THEN <<>>
                      ELSE [n \in DOMAIN content |-> HeadRequest(arch, content[n])]
             m == [mem[r] EXCEPT !.mans = With(@, arch, content), !.todo = heads \o Tail(@)]
  <2>1. IsList(content)
    BY IndexAtIsList
  <2> HIDE DEF content, arch
  <2>2. IsList(heads)
    BY <2>1, ImageIsList, EmptyIsList
  <2> HIDE DEF heads
  <2>3. IsList(heads \o Tail(mem[r].todo))
    BY <1>1, <1>5, <2>2, ConcatEntries, TailEntries DEF GetManifest, GoodMemory
  <2>4. GoodMemory(m)
    BY <1>1, <2>1, <2>3 DEF GoodMemory, Fields, With
  <2>5. mem' = [mem EXCEPT ![r] = m] /\ pc[r] = "reading" /\ UNCHANGED <<repo, pc, job>>
    BY <1>5 DEF GetManifest, Remember, Map, content, arch, heads
  <2>6. /\ m.rel = mem[r].rel /\ m.todo = heads \o Tail(mem[r].todo)
        /\ DOMAIN m.mans = DOMAIN mem[r].mans \cup {arch}
    BY <1>1 DEF GoodMemory, Fields, With
  <2>7. EntriesOf(mem[r].todo) \subseteq EntriesOf(m.todo) \cup {Head(mem[r].todo)}
    BY <1>1, <1>5, <2>2, <2>6, ConcatEntries, TailEntries DEF GetManifest, GoodMemory
  <2>8. \A a : GetRequest(a) = Head(mem[r].todo) => a = arch
    BY DEF GetRequest, arch
  <2>9. ReadOrPending(job[r], mem[r])
    BY <2>5 DEF Typed, GoodRun
  <2>10. ReadOrPending(job[r], m)
    BY <2>6, <2>7, <2>8, <2>9 DEF ReadOrPending
  <2> HIDE DEF m
  <2> QED
    BY <1>4, <2>4, <2>5, <2>10
<1>6. CASE HeadBody(r)
  <2>1. PICK noted : mem' = [mem EXCEPT ![r] = [mem[r] EXCEPT !.todo = Tail(@), !.noted = noted]]
    BY <1>6 DEF HeadBody, Remember
  <2> DEFINE m == [mem[r] EXCEPT !.todo = Tail(@), !.noted = noted]
  <2>2. GoodMemory(m)
    BY <1>1, <1>6, TailEntries DEF HeadBody, GoodMemory, Fields
  <2>3. /\ pc[r] = "reading" /\ mem[r].todo # <<>> /\ Head(mem[r].todo).op = "head"
        /\ UNCHANGED <<repo, pc, job>>
    BY <1>6 DEF HeadBody
  <2>4. m.rel = mem[r].rel /\ m.mans = mem[r].mans /\ m.todo = Tail(mem[r].todo)
    BY <1>1 DEF GoodMemory, Fields
  <2>5. \A a : GetRequest(a) # Head(mem[r].todo)
    BY <2>3 DEF GetRequest
  <2>6. EntriesOf(mem[r].todo) = EntriesOf(m.todo) \cup {Head(mem[r].todo)}
    BY <1>1, <2>3, <2>4, TailEntries DEF GoodMemory
  <2>7. ReadOrPending(job[r], mem[r])
    BY <2>3 DEF Typed, GoodRun
  <2>8. ReadOrPending(job[r], m)
    BY <2>4, <2>5, <2>6, <2>7 DEF ReadOrPending
  <2> HIDE DEF m
  <2> QED
    BY <1>4, <2>1, <2>2, <2>3, <2>8 DEF m
<1>7. CASE Answer(r)
  BY <1>1, <1>7, EndsKeepTypes DEF Answer, Ended
<1> QED
  BY <1>2, <1>3, <1>5, <1>6, <1>7

LEMMA StartKeepsTypes ==
  ASSUME Typed, NEW r \in Run, Start(r)
  PROVE  Typed'
<1>1. PICK j \in Jobs : job' = [job EXCEPT ![r] = j] /\ mem' = Noting(r, j)
         /\ pc' = [pc EXCEPT ![r] = CASE j.op = "copy" -> "getSource"
                                      [] j.op = "clean" -> "listIndexes"
                                      [] j.op = "exists" -> "reading"
                                      [] OTHER -> "getRelease"]
  BY DEF Start, Goto
<1>2. pc[r] = "idle" /\ repo' = repo
  BY DEF Start
<1> DEFINE label == IF j.op = "copy" THEN "getSource"
                    ELSE IF j.op = "clean" THEN "listIndexes"
                    ELSE IF j.op = "exists" THEN "reading" ELSE "getRelease"
<1>3. /\ pc' = [pc EXCEPT ![r] = label]
      /\ label \in {"getSource", "listIndexes", "reading", "getRelease"}
      /\ j.op \in Work(label) /\ (label = "reading" => j.op = "exists")
  <2>1. CASE j.op = "copy"
    BY <1>1, <2>1 DEF Work
  <2>2. CASE j.op = "clean"
    BY <1>1, <2>2 DEF Work
  <2>3. CASE j.op = "exists"
    BY <1>1, <2>3 DEF Work, Queries
  <2>4. CASE j.op \notin {"copy", "clean", "exists"}
    <3>1. j.op \in Writers \cup {"list"}
      BY <2>4, JobsAssumption DEF Queries
    <3>2. pc' = [pc EXCEPT ![r] = "getRelease"]
      BY <1>1, <2>4
    <3> QED
      BY <2>4, <3>1, <3>2 DEF Work
  <2> QED
    BY <2>1, <2>2, <2>3, <2>4
<1> HIDE DEF label
<1>4. pc' \in [Run -> Labels] /\ DOMAIN job' = Run /\ DOMAIN mem' = Run
  BY <1>1, <1>3 DEF Typed, Labels, Noting
<1>5. Stored'
  BY <1>2 DEF Typed, Stored
<1>6. ASSUME NEW s \in Run
      PROVE  /\ GoodMemory(mem'[s]) /\ mem'[s].rel = mem[s].rel
             /\ s # r => mem'[s].todo = mem[s].todo /\ mem'[s].mans = mem[s].mans
             /\ s = r /\ j.op = "exists" => mem'[s].todo = <<GetRequest(j.arch)>>
  <2> DEFINE since == IF s = r /\ j.op \in Queries THEN acked ELSE mem[s].since \ Superseded(j)
             todo == IF s = r /\ j.op = "exists" THEN <<GetRequest(j.arch)>> ELSE mem[s].todo
  <2>1. GoodMemory(mem[s])
    BY DEF Typed, GoodRun
  <2>2. mem'[s] = [mem[s] EXCEPT !.since = since, !.todo = todo]
    BY <1>1, <2>1 DEF Noting, GoodMemory, Fields
  <2>3. /\ IsList(todo) /\ (s # r => todo = mem[s].todo)
        /\ s = r /\ j.op = "exists" => todo = <<GetRequest(j.arch)>>
    BY <2>1, SingletonIsList DEF GoodMemory
  <2> HIDE DEF since, todo
  <2> QED
    BY <2>1, <2>2, <2>3 DEF GoodMemory, Fields
<1>7. GoodRun(r)'
  <2>1. pc'[r] = label /\ job'[r] = j
    BY <1>1, <1>3 DEF Typed
  <2>2. label = "reading" => ReadOrPending(j, mem'[r])
    BY <1>3, <1>6, SingletonIsList DEF ReadOrPending, Wanted
  <2> QED
    BY <1>3, <1>6, <2>1, <2>2, JobsAssumption DEF GoodRun
<1>8. ASSUME NEW s \in Run, s # r
      PROVE  GoodRun(s)'
  BY <1>1, <1>3, <1>6, <1>8 DEF Typed, GoodRun, ReadOrPending
<1> QED
  BY <1>4, <1>5, <1>7, <1>8 DEF Typed

-----------------------------------------------------------------------------
(* What an operation makes of the manifests it has read.                   *)

\* The packages whose bodies it sends.
UploadedBodies(j) == IF j.op = "upload" /\ ~j.skipUpload THEN EntriesOf(j.files) ELSE {}

\* The entries a command with the memory m adds to an architecture ...
AddedTo(j, m, a) ==
  IF j.op = "upload" THEN {Entry(j.codename, p) : p \in UploadedTo(j, a)}
  ELSE IF j.op = "copy" THEN {e \in EntriesOf(m.picked) : Selected(e, j.name, j.versions)}
  ELSE {}

\* ... and those it may remove from there.
RemovedBy(j, m, a, e) ==
  \/ j.op \in {"upload", "copy"} /\ \E x \in AddedTo(j, m, a) : Replaces(e, x, j.preserve)
  \/ j.op = "delete" /\ Selected(e, j.name, j.versions)
  \/ j.op = "verify" /\ <<a, e.file>> \in m.noted

Changes(j, m, a, new) ==
  /\ IsList(new)
  /\ EntriesOf(new) \subseteq EntriesOf(m.mans[a]) \cup AddedTo(j, m, a)
  /\ \A e \in EntriesOf(m.mans[a]) : RemovedBy(j, m, a, e) \/ e \in EntriesOf(new)

\* The architecture-all packages of an upload that none of the later ones replaces.
ForAll(j) == {n \in DOMAIN j.files : UploadArch(j, j.files[n]) = AllArch}
LatestForAll(j) ==
  {n \in ForAll(j) : \A k \in ForAll(j) : k > n =>
     ~Replaces([pkg |-> j.files[n]], [pkg |-> j.files[k]], j.preserve)}

Fans(j, content) == \A n \in LatestForAll(j) : j.files[n] \in Listed(content)

\* The entries of an architecture have bodies, as far as a run has seen.
AllFound(m, a, content) == \A e \in EntriesOf(content) : <<a, e.file>> \notin m.noted

\* The run publishes rel, with mans for the architectures of a set.
Publication(r, rel, archs, mans) ==
  /\ archs \subseteq Wanted(job[r], mem[r].rel)
  /\ job[r].op = "upload" =>
       /\ archs = Wanted(job[r], mem[r].rel) /\ EntriesOf(mem[r].rel.archs) \subseteq archs
       /\ \A a \in archs : Fans(job[r], mans[a])
  /\ job[r].op = "verify" /\ job[r].fix =>
       \A a \in Wanted(job[r], mem[r].rel) :
         AllFound(mem[r], a, IF a \in archs THEN mans[a] ELSE mem[r].mans[a])
  /\ Publishes(r, rel, {TargetComp(job[r])} \X archs, mans, UploadedBodies(job[r]))
  /\ \A a \in archs : Changes(job[r], mem[r], a, mans[a])

\* A run that has read everything has the manifests it needs.
LEMMA ReadIsComplete ==
  ASSUME Typed, NEW r \in Run, Read(r)
  PROVE  /\ job[r] \in Jobs /\ GoodMemory(mem[r])
         /\ \A a \in Wanted(job[r], mem[r].rel) : a \in DOMAIN mem[r].mans /\ IsList(mem[r].mans[a])
<1>1. ReadOrPending(job[r], mem[r]) /\ EntriesOf(mem[r].todo) = {}
  BY EmptyIsList DEF Typed, GoodRun, Read
<1> QED
  BY <1>1 DEF Typed, GoodRun, Read, ReadOrPending, GoodMemory

\* What AddAll makes of a manifest.
LEMMA AddAllChanges ==
  ASSUME NEW content, IsList(content), NEW entries, IsList(entries), NEW preserve, NEW failIfExists
  PROVE  LET result == AddAll(content, entries, preserve, failIfExists).content
         IN /\ IsList(result)
            /\ EntriesOf(result) \subseteq EntriesOf(content) \cup EntriesOf(entries)
            /\ \A x \in EntriesOf(content) :
                 \/ \E e \in EntriesOf(entries) : Replaces(x, e, preserve)
                 \/ x \in EntriesOf(result)
<1> DEFINE result == AddAll(content, entries, preserve, failIfExists).content
<1>1. IsList(result) /\ EntriesOf(result) = Kept(content, entries, preserve) \cup Latest(entries, preserve)
  BY AddAllEntries
<1>2. Latest(entries, preserve) \subseteq EntriesOf(entries)
  BY DEF Latest, EntriesOf
<1>3. /\ Kept(content, entries, preserve) \subseteq EntriesOf(content)
      /\ \A x \in EntriesOf(content) :
           (\E e \in EntriesOf(entries) : Replaces(x, e, preserve)) \/ x \in Kept(content, entries, preserve)
  BY DEF Kept, EntriesOf
<1> HIDE DEF result
<1> QED
  BY <1>1, <1>2, <1>3 DEF result

LEMMA UploadPublishes ==
  ASSUME Typed, NEW r \in Run, PrepareUpload(r), ~Ends(r, "failed")
  PROVE  \E rel, archs, mans : Publication(r, rel, archs, mans)
<1> DEFINE j == job[r]
           m == mem[r]
           archs == UploadArchs(j, m.rel)
           own(a) == At(j.files, {n \in DOMAIN j.files : UploadArch(j, j.files[n]) = a})
           both(a) == own(a) \o IF a = AllArch THEN <<>> ELSE own(AllArch)
           entries(a) == [n \in DOMAIN both(a) |-> Entry(j.codename, both(a)[n])]
           added == [a \in DOMAIN m.mans |->
                       AddAll(m.mans[a], entries(a), j.preserve, j.failIfExists)]
           mans == [a \in DOMAIN added |-> added[a].content]
           each == [n \in DOMAIN archs |-> own(archs[n])]
           bodies == IF j.skipUpload THEN <<>> ELSE FlattenSeq(each)
<1>1. PublishManifests(r, archs, mans, bodies)
  BY DEF PrepareUpload, Map
<1>2. Read(r) /\ j.op = "upload" /\ j \in Jobs /\ GoodMemory(m) /\ IsList(j.files)
  BY ReadIsComplete, JobsAssumption DEF PrepareUpload
<1>3. EntriesOf(archs) = Wanted(j, m.rel)
  BY <1>2 DEF Wanted, ArchsToRead
<1>4. \A a \in EntriesOf(archs) : a \in DOMAIN m.mans /\ IsList(m.mans[a])
  BY <1>2, <1>3, ReadIsComplete
<1>5. /\ IsList(archs) /\ \A p \in EntriesOf(j.files) : UploadArch(j, p) \in EntriesOf(archs)
      /\ EntriesOf(m.rel.archs) \subseteq EntriesOf(archs)
  <2> DEFINE first == IF m.rel.archs = <<>> /\ j.files # <<>> /\ UploadArch(j, j.files[1]) = AllArch
                      THEN DefaultArchs ELSE m.rel.archs
             theirs == [n \in DOMAIN j.files |-> UploadArch(j, j.files[n])]
  <2>1. archs = AppendNew(first, theirs)
    BY DEF UploadArchs, Map
  <2>2. IsList(first) /\ EntriesOf(m.rel.archs) \subseteq EntriesOf(first)
    BY <1>2, SeedsAssumption, EmptyIsList DEF GoodMemory, GoodRelease, IsRelease
  <2>3. IsList(theirs) /\ \A p \in EntriesOf(j.files) : UploadArch(j, p) \in EntriesOf(theirs)
    BY <1>2, ImageIsList DEF EntriesOf
  <2> HIDE DEF first, theirs, archs
  <2> QED
    BY <2>1, <2>2, <2>3, AppendNewEntries
<1> HIDE DEF archs
<1>6. ASSUME NEW a
      PROVE  /\ IsList(own(a))
             /\ EntriesOf(own(a)) = {p \in EntriesOf(j.files) : UploadArch(j, p) = a}
  <2>1. {n \in DOMAIN j.files : UploadArch(j, j.files[n]) = a} \cap DOMAIN j.files
          = {n \in DOMAIN j.files : UploadArch(j, j.files[n]) = a}
    OBVIOUS
  <2>2. /\ IsList(own(a))
        /\ EntriesOf(own(a)) = {j.files[n] : n \in {k \in DOMAIN j.files : UploadArch(j, j.files[k]) = a}}
    BY <1>2, <2>1, AtEntries
  <2> HIDE DEF own
  <2> QED
    BY <2>2 DEF EntriesOf
\* The latest packages for all architectures end every manifest.
<1>7. ASSUME NEW a, NEW n \in LatestForAll(j)
       PROVE  \E m1 \in DOMAIN both(a) :
                /\ both(a)[m1] = j.files[n]
                /\ \A l \in DOMAIN both(a) : l > m1 =>
                     ~Replaces([pkg |-> j.files[n]], [pkg |-> both(a)[l]], j.preserve)
  <2> DEFINE all == own(AllArch)
  <2>1. n \in ForAll(j) \cap DOMAIN j.files
    BY DEF LatestForAll, ForAll
  <2>2. all = At(j.files, ForAll(j))
    BY DEF own, ForAll
  <2> HIDE DEF all
  <2>3. PICK m0 \in DOMAIN all :
          /\ all[m0] = j.files[n]
          /\ \A l \in DOMAIN all : l > m0 =>
               \E k \in ForAll(j) \cap DOMAIN j.files : k > n /\ all[l] = j.files[k]
    BY <1>2, <2>1, <2>2, AtOrder
  <2>4. \A l \in DOMAIN all : l > m0 =>
          ~Replaces([pkg |-> j.files[n]], [pkg |-> all[l]], j.preserve)
    BY <2>3 DEF LatestForAll
  <2>5. IsList(all) /\ IsList(own(a))
    BY <1>6 DEF all
  <2>6. CASE a = AllArch
    <3>1. both(a) = all
      BY <2>5, <2>6, ConcatEmptySeq DEF all, IsList
    <3> QED
      BY <2>3, <2>4, <3>1
  <2>7. CASE a # AllArch
    <3>1. both(a) = own(a) \o all
      BY <2>7 DEF all
    <3>2. own(a) \in Seq(EntriesOf(own(a)) \cup EntriesOf(all)) /\ all \in Seq(EntriesOf(own(a)) \cup EntriesOf(all))
      BY <2>5, SeqMonotonic DEF IsList
    <3> HIDE DEF both, own
    <3>3. /\ both(a) \in Seq(EntriesOf(own(a)) \cup EntriesOf(all))
          /\ Len(both(a)) = Len(own(a)) + Len(all)
          /\ \A l \in 1..(Len(own(a)) + Len(all)) :
               both(a)[l] = IF l <= Len(own(a)) THEN own(a)[l] ELSE all[l - Len(own(a))]
      BY <3>1, <3>2, ConcatProperties
    <3>4. /\ Len(own(a)) \in Nat /\ Len(all) \in Nat /\ DOMAIN all = 1..Len(all)
          /\ DOMAIN both(a) = 1..(Len(own(a)) + Len(all))
      BY <3>2, <3>3, LenProperties
    <3>5. \A l \in 1..(Len(own(a)) + Len(all)) :
            l > Len(own(a)) => both(a)[l] = all[l - Len(own(a))]
      BY <3>3, <3>4
    <3> DEFINE m1 == Len(own(a)) + m0
    <3>6. m1 \in DOMAIN both(a) /\ both(a)[m1] = all[m0]
      BY <2>3, <3>5, <3>4
    <3>7. \A l \in DOMAIN both(a) : l > m1 =>
            l - Len(own(a)) \in DOMAIN all /\ l - Len(own(a)) > m0 /\ both(a)[l] = all[l - Len(own(a))]
      BY <2>3, <3>5, <3>4
    <3> QED
      BY <2>3, <2>4, <3>6, <3>7
  <2> QED
    BY <2>6, <2>7
<1> HIDE DEF own
<1>8. ASSUME NEW a
      PROVE  IsList(both(a)) /\ EntriesOf(both(a)) = UploadedTo(j, a)
  <2>1. CASE a = AllArch
    <3>1. IsList(both(a)) /\ EntriesOf(both(a)) = EntriesOf(own(a))
      BY <1>6, <2>1, EmptyIsList, ConcatEntries
    <3> QED
      BY <1>6, <2>1, <3>1 DEF UploadedTo
  <2>2. CASE a # AllArch
    <3>1. IsList(both(a)) /\ EntriesOf(both(a)) = EntriesOf(own(a)) \cup EntriesOf(own(AllArch))
      BY <1>6, <2>2, ConcatEntries
    <3> QED
      BY <1>6, <2>2, <3>1 DEF UploadedTo
  <2> QED
    BY <2>1, <2>2
<1> HIDE DEF both
<1>9. ASSUME NEW a \in EntriesOf(archs)
       PROVE  Fans(j, mans[a])
  <2> DEFINE result == AddAll(m.mans[a], entries(a), j.preserve, j.failIfExists).content
  <2>1. mans[a] = result
    BY <1>4
  <2>2. IsList(entries(a)) /\ DOMAIN entries(a) = DOMAIN both(a)
    BY <1>8, ImageIsList
  <2>3. Latest(entries(a), j.preserve) \subseteq EntriesOf(result)
    BY <1>4, <2>2, AddAllEntries
  <2> SUFFICES ASSUME NEW n \in LatestForAll(j)
               PROVE  j.files[n] \in Listed(result)
    BY <2>1 DEF Fans
  <2>4. PICK m1 \in DOMAIN both(a) :
          /\ both(a)[m1] = j.files[n]
          /\ \A l \in DOMAIN both(a) : l > m1 =>
               ~Replaces([pkg |-> j.files[n]], [pkg |-> both(a)[l]], j.preserve)
    BY <1>7
  <2>5. \A l \in DOMAIN both(a) : entries(a)[l].pkg = both(a)[l]
    BY DEF Entry
  <2>6. \A l \in DOMAIN entries(a) : l > m1 => ~Replaces(entries(a)[m1], entries(a)[l], j.preserve)
    BY <2>2, <2>4, <2>5 DEF Replaces
  <2> HIDE DEF entries, result
  <2>7. entries(a)[m1] \in Latest(entries(a), j.preserve)
    BY <2>2, <2>4, <2>6 DEF Latest
  <2>8. entries(a)[m1] \in EntriesOf(result) /\ entries(a)[m1].pkg = j.files[n]
    BY <2>3, <2>4, <2>5, <2>7
  <2> QED
    BY <2>8 DEF Listed
<1>10. ASSUME NEW a
      PROVE  IsList(entries(a)) /\ EntriesOf(entries(a)) = AddedTo(j, m, a)
  <2>1. IsList(entries(a)) /\ EntriesOf(entries(a)) = {Entry(j.codename, p) : p \in EntriesOf(both(a))}
    BY <1>8, ImageIsList DEF EntriesOf
  <2> QED
    BY <1>2, <1>8, <2>1 DEF AddedTo
<1> HIDE DEF entries
<1>11. \A a \in EntriesOf(archs) : Changes(j, m, a, mans[a])
  <2> SUFFICES ASSUME NEW a \in EntriesOf(archs) PROVE Changes(j, m, a, mans[a])
    OBVIOUS
  <2> DEFINE result == AddAll(m.mans[a], entries(a), j.preserve, j.failIfExists).content
  <2>1. mans[a] = result
    BY <1>4
  <2>2. /\ IsList(result)
        /\ EntriesOf(result) \subseteq EntriesOf(m.mans[a]) \cup AddedTo(j, m, a)
        /\ \A x \in EntriesOf(m.mans[a]) :
             (\E e \in AddedTo(j, m, a) : Replaces(x, e, j.preserve)) \/ x \in EntriesOf(result)
    BY <1>4, <1>10, AddAllChanges
  <2> HIDE DEF mans, result
  <2> QED
    BY <1>2, <2>1, <2>2 DEF Changes, RemovedBy
<1> HIDE DEF added, mans
<1>12. IsList(bodies) /\ EntriesOf(bodies) = UploadedBodies(j)
  <2>1. CASE j.skipUpload
    BY <1>2, <2>1, EmptyIsList DEF UploadedBodies
  <2>2. CASE ~j.skipUpload
    <3>1. IsList(each) /\ DOMAIN each = DOMAIN archs /\ \A n \in DOMAIN each : IsList(each[n])
      BY <1>5, <1>6, ImageIsList
    <3>2. IsList(FlattenSeq(each)) /\ EntriesOf(FlattenSeq(each)) = UNION {EntriesOf(each[n]) : n \in DOMAIN each}
      BY <3>1, FlattenEntries
    <3>3. UNION {EntriesOf(each[n]) : n \in DOMAIN each} = EntriesOf(j.files)
      <4>1. \A n \in DOMAIN each : EntriesOf(each[n]) \subseteq EntriesOf(j.files)
        BY <1>6, <3>1 DEF EntriesOf
      <4>2. ASSUME NEW p \in EntriesOf(j.files)
            PROVE  \E n \in DOMAIN each : p \in EntriesOf(each[n])
        <5>1. PICK n \in DOMAIN archs : archs[n] = UploadArch(j, p)
          BY <1>5 DEF EntriesOf
        <5>2. p \in EntriesOf(own(archs[n]))
          BY <1>6, <5>1 DEF EntriesOf
        <5> QED
          BY <3>1, <5>2
      <4> QED
        BY <4>1, <4>2
    <3> QED
      BY <1>2, <2>2, <3>2, <3>3 DEF UploadedBodies
  <2> QED
    BY <2>1, <2>2
<1> HIDE DEF bodies
<1>13. \E rel : Publishes(r, rel, {TargetComp(j)} \X EntriesOf(archs), mans, EntriesOf(bodies))
  BY <1>1, <1>2, <1>5, <1>11, <1>12, PublishManifestsPublishes DEF Changes, GoodMemory
<1> QED
  BY <1>2, <1>3, <1>5, <1>11, <1>12, <1>13, <1>9 DEF Publication

\* The other operations send no bodies.
LEMMA NoBodiesPublishes ==
  ASSUME NEW r, GoodRelease(mem[r].rel),
         NEW archs, IsList(archs), NEW mans, \A a \in EntriesOf(archs) : IsList(mans[a]),
         PublishManifests(r, archs, mans, <<>>), job[r].op # "upload"
  PROVE  \E rel : Publishes(r, rel, {TargetComp(job[r])} \X EntriesOf(archs), mans,
                            UploadedBodies(job[r]))
<1> DEFINE none == <<>>
<1>1. IsList(none) /\ EntriesOf(none) = UploadedBodies(job[r])
  BY EmptyIsList DEF UploadedBodies
<1>2. PublishManifests(r, archs, mans, none)
  OBVIOUS
<1> HIDE DEF none
<1>3. PICK rel : Publishes(r, rel, {TargetComp(job[r])} \X EntriesOf(archs), mans, EntriesOf(none))
  BY <1>1, <1>2, PublishManifestsPublishes
<1> QED
  BY <1>1, <1>3

LEMMA CopyPublishes ==
  ASSUME Typed, NEW r \in Run, PrepareCopy(r), ~Ends(r, "failed")
  PROVE  \E rel, archs, mans : Publication(r, rel, archs, mans)
<1> DEFINE j == job[r]
           m == mem[r]
           selected == At(m.picked, {n \in DOMAIN m.picked : Selected(m.picked[n], j.name, j.versions)})
           result == AddAll(m.mans[j.arch], selected, j.preserve, j.failIfExists).content
           mans == [a \in {j.arch} |-> result]
<1>1. PublishManifests(r, <<j.arch>>, mans, <<>>)
  BY DEF PrepareCopy
<1>2. Read(r) /\ j.op = "copy" /\ GoodMemory(m)
  BY ReadIsComplete DEF PrepareCopy
<1>3. IsList(<<j.arch>>) /\ EntriesOf(<<j.arch>>) = {j.arch} /\ Wanted(j, m.rel) = {j.arch}
  BY <1>2, SingletonIsList DEF Wanted, ArchsToRead
<1>4. IsList(m.mans[j.arch])
  BY <1>2, <1>3, ReadIsComplete
<1>5. IsList(selected) /\ EntriesOf(selected) = AddedTo(j, m, j.arch)
  <2>1. /\ IsList(selected)
        /\ EntriesOf(selected) =
             {m.picked[n] : n \in {n \in DOMAIN m.picked : Selected(m.picked[n], j.name, j.versions)}
                                   \cap DOMAIN m.picked}
    BY <1>2, AtEntries DEF GoodMemory
  <2> HIDE DEF selected
  <2> QED
    BY <1>2, <2>1 DEF AddedTo, EntriesOf
<1> HIDE DEF selected
<1>6. /\ IsList(result)
      /\ EntriesOf(result) \subseteq EntriesOf(m.mans[j.arch]) \cup AddedTo(j, m, j.arch)
      /\ \A x \in EntriesOf(m.mans[j.arch]) :
           (\E e \in AddedTo(j, m, j.arch) : Replaces(x, e, j.preserve)) \/ x \in EntriesOf(result)
  BY <1>4, <1>5, AddAllChanges
<1> HIDE DEF result
<1>7. Changes(j, m, j.arch, result) /\ mans[j.arch] = result
  BY <1>2, <1>6 DEF Changes, RemovedBy
<1> HIDE DEF mans
<1>8. PICK rel : Publishes(r, rel, {TargetComp(j)} \X {j.arch}, mans, UploadedBodies(j))
  BY <1>1, <1>2, <1>3, <1>6, <1>7, NoBodiesPublishes DEF GoodMemory
<1>9. Publication(r, rel, {j.arch}, mans)
  BY <1>2, <1>3, <1>7, <1>8 DEF Publication
<1> QED
  BY <1>9

\* The architectures of a list that a condition selects.
LEMMA AtArchs ==
  ASSUME NEW archs, IsList(archs), NEW positions
  PROVE  IsList(At(archs, positions)) /\ EntriesOf(At(archs, positions)) \subseteq EntriesOf(archs)
<1>1. /\ IsList(At(archs, positions))
      /\ EntriesOf(At(archs, positions)) = {archs[n] : n \in positions \cap DOMAIN archs}
  BY AtEntries
<1> QED
  BY <1>1 DEF EntriesOf

LEMMA DeletePublishes ==
  ASSUME Typed, NEW r \in Run, PrepareDelete(r), ~Ends(r, "failed")
  PROVE  \E rel, archs, mans : Publication(r, rel, archs, mans)
<1> DEFINE j == job[r]
           m == mem[r]
           rest == [a \in DOMAIN m.mans |-> DeletePackage(m.mans[a], j.name, j.versions)]
           archs == ArchsToRead(j, m.rel)
           changed == At(archs, {n \in DOMAIN archs : rest[archs[n]] # m.mans[archs[n]]})
<1>1. PublishManifests(r, changed, rest, <<>>)
  BY DEF PrepareDelete
<1>2. Read(r) /\ j.op = "delete" /\ j \in Jobs /\ GoodMemory(m)
  BY ReadIsComplete DEF PrepareDelete
<1>3. IsList(archs) /\ Wanted(j, m.rel) = EntriesOf(archs)
  BY <1>2, ArchsToReadIsList DEF Wanted, Writers, GoodMemory
<1>4. IsList(changed) /\ EntriesOf(changed) \subseteq Wanted(j, m.rel)
  BY <1>3, AtArchs
<1> HIDE DEF changed, archs
<1>5. ASSUME NEW a \in EntriesOf(changed)
      PROVE  Changes(j, m, a, rest[a])
  <2>1. a \in DOMAIN m.mans /\ IsList(m.mans[a])
    BY <1>2, <1>4, ReadIsComplete
  <2>2. /\ IsList(rest[a])
        /\ EntriesOf(rest[a]) = {x \in EntriesOf(m.mans[a]) : ~Selected(x, j.name, j.versions)}
    BY <2>1, DeletePackageEntries
  <2> HIDE DEF rest
  <2> QED
    BY <1>2, <2>2 DEF Changes, RemovedBy
<1> HIDE DEF rest
<1>6. PICK rel : Publishes(r, rel, {TargetComp(j)} \X EntriesOf(changed), rest, UploadedBodies(j))
  BY <1>1, <1>2, <1>4, <1>5, NoBodiesPublishes DEF Changes, GoodMemory
<1>7. Publication(r, rel, EntriesOf(changed), rest)
  BY <1>2, <1>4, <1>5, <1>6 DEF Publication
<1> QED
  BY <1>7

\* With --fix-manifests every manifest that verify changes, and every one that it
\* does not, has only entries whose bodies were found.
LEMMA VerifyFinds ==
  ASSUME Typed, NEW r \in Run, Read(r), job[r].op = "verify",
         NEW rest, rest = [a \in DOMAIN mem[r].mans |-> WithBodies(mem[r], a)],
         NEW changed,
         changed = At(mem[r].rel.archs, {n \in DOMAIN mem[r].rel.archs :
                       rest[mem[r].rel.archs[n]] # mem[r].mans[mem[r].rel.archs[n]]}),
         NEW a \in Wanted(job[r], mem[r].rel)
  PROVE  /\ a \in DOMAIN mem[r].mans
         /\ AllFound(mem[r], a, rest[a])
         /\ a \notin EntriesOf(changed) => AllFound(mem[r], a, mem[r].mans[a])
<1> DEFINE m == mem[r]
           archs == m.rel.archs
           found == {n \in DOMAIN m.mans[a] : <<a, m.mans[a][n].file>> \notin m.noted}
<1>1. a \in DOMAIN m.mans /\ IsList(m.mans[a]) /\ GoodMemory(m)
  BY ReadIsComplete
<1>2. rest[a] = At(m.mans[a], found)
  BY <1>1 DEF WithBodies
<1>3. AllFound(m, a, rest[a])
  <2>1. EntriesOf(rest[a]) = {m.mans[a][n] : n \in found \cap DOMAIN m.mans[a]}
    <3> HIDE DEF found
    <3> QED
      BY <1>1, <1>2, AtEntries
  <2> QED
    BY <2>1 DEF AllFound
<1>4. IsList(archs) /\ a \in EntriesOf(archs)
  BY <1>1 DEF Wanted, ArchsToRead, GoodMemory, GoodRelease, IsRelease
<1>5. ASSUME a \notin EntriesOf(changed)
      PROVE  rest[a] = m.mans[a]
  <2> DEFINE others == {n \in DOMAIN archs : rest[archs[n]] # m.mans[archs[n]]}
  <2>1. EntriesOf(changed) = {archs[n] : n \in others \cap DOMAIN archs}
    <3> HIDE DEF others
    <3>1. changed = At(archs, others)
      BY DEF others
    <3> QED
      BY <1>4, <3>1, AtEntries
  <2> QED
    BY <1>4, <1>5, <2>1 DEF EntriesOf
<1> QED
  BY <1>1, <1>3, <1>5

LEMMA VerifyPublishes ==
  ASSUME Typed, NEW r \in Run, PrepareVerify(r), ~Ends(r, "done")
  PROVE  \E rel, archs, mans : Publication(r, rel, archs, mans)
<1> DEFINE j == job[r]
           m == mem[r]
           rest == [a \in DOMAIN m.mans |-> WithBodies(m, a)]
           archs == m.rel.archs
           some == At(archs, {n \in DOMAIN archs : rest[archs[n]] # m.mans[archs[n]]})
           changed == IF j.fix THEN some ELSE <<>>
<1>1. PublishManifests(r, changed, rest, <<>>) \/ (changed = <<>> /\ PublishRelease(r))
  BY DEF PrepareVerify
<1>2. Read(r) /\ j.op = "verify" /\ j \in Jobs /\ GoodMemory(m)
  BY ReadIsComplete DEF PrepareVerify
<1>3. ASSUME j.fix, NEW a \in Wanted(j, m.rel)
      PROVE  AllFound(m, a, IF a \in EntriesOf(changed) THEN rest[a] ELSE m.mans[a])
  <2>1. changed = some
    BY <1>3
  <2> HIDE DEF rest, changed, archs
  <2>2. AllFound(m, a, rest[a]) /\ (a \notin EntriesOf(changed) => AllFound(m, a, m.mans[a]))
    BY <1>2, <2>1, VerifyFinds DEF rest, archs
  <2> QED
    BY <2>2
<1>4. IsList(archs) /\ Wanted(j, m.rel) = EntriesOf(archs)
  BY <1>2 DEF Wanted, ArchsToRead, GoodMemory, GoodRelease, IsRelease
<1>5. IsList(changed) /\ EntriesOf(changed) \subseteq Wanted(j, m.rel)
  <2>1. IsList(some) /\ EntriesOf(some) \subseteq EntriesOf(archs)
    BY <1>4, AtArchs
  <2> HIDE DEF some
  <2> QED
    BY <1>4, <2>1, EmptyIsList
<1> HIDE DEF changed, archs
<1>6. ASSUME NEW a \in EntriesOf(changed)
      PROVE  Changes(j, m, a, rest[a])
  <2> DEFINE found == {n \in DOMAIN m.mans[a] : <<a, m.mans[a][n].file>> \notin m.noted}
  <2>1. a \in DOMAIN m.mans /\ IsList(m.mans[a])
    BY <1>2, <1>5, ReadIsComplete
  <2>2. rest[a] = At(m.mans[a], found)
    BY <2>1 DEF WithBodies
  <2> HIDE DEF rest, found
  <2>3. IsList(rest[a]) /\ EntriesOf(rest[a]) = {m.mans[a][n] : n \in found \cap DOMAIN m.mans[a]}
    BY <2>1, <2>2, AtEntries
  <2>4. EntriesOf(rest[a]) = {e \in EntriesOf(m.mans[a]) : <<a, e.file>> \notin m.noted}
    BY <2>3 DEF found, EntriesOf
  <2> QED
    BY <1>2, <2>3, <2>4 DEF Changes, RemovedBy
<1> HIDE DEF rest
<1>7. UploadedBodies(j) = {}
  BY <1>2 DEF UploadedBodies
<1>8. CASE PublishManifests(r, changed, rest, <<>>)
  <2>1. PICK rel : Publishes(r, rel, {TargetComp(j)} \X EntriesOf(changed), rest, UploadedBodies(j))
    BY <1>2, <1>5, <1>6, <1>8, NoBodiesPublishes DEF Changes, GoodMemory
  <2>2. Publication(r, rel, EntriesOf(changed), rest)
    BY <1>2, <1>5, <1>6, <1>3, <2>1 DEF Publication
  <2> QED
    BY <2>2
<1>9. CASE changed = <<>> /\ PublishRelease(r)
  <2>1. PICK rel : Publishes(r, rel, {}, <<>>, {})
    BY <1>2, <1>9, PublishReleasePublishes DEF GoodMemory
  <2>2. {TargetComp(j)} \X {} = {}
    OBVIOUS
  <2>3. Publication(r, rel, {}, <<>>)
    BY <1>2, <1>7, <1>9, <1>3, <2>1, <2>2, EmptyIsList DEF Publication
  <2> QED
    BY <2>3
<1> QED
  BY <1>1, <1>8, <1>9

\* Every operation ends, or publishes the manifests it has read with its changes.
LEMMA PreparePublishes ==
  ASSUME Typed, NEW r \in Run,
         PrepareUpload(r) \/ PrepareCopy(r) \/ PrepareDelete(r) \/ PrepareVerify(r)
  PROVE  /\ Read(r) /\ job[r].op \in Writers /\ UNCHANGED <<repo, job, client, acked>>
         /\ \/ Ends(r, "failed") \/ Ends(r, "done")
            \/ \E rel, archs, mans : Publication(r, rel, archs, mans)
<1>1. Read(r) /\ job[r].op \in Writers /\ UNCHANGED <<repo, job, client, acked>>
  BY DEF PrepareUpload, PrepareCopy, PrepareDelete, PrepareVerify, Writers
<1> QED
  BY <1>1, UploadPublishes, CopyPublishes, DeletePublishes, VerifyPublishes

LEMMA PrepareKeepsTypes ==
  ASSUME Typed, NEW r \in Run,
         PrepareUpload(r) \/ PrepareCopy(r) \/ PrepareDelete(r) \/ PrepareVerify(r)
  PROVE  Typed'
<1>1. Read(r) /\ job[r].op \in Writers /\ UNCHANGED <<repo, job>>
  BY PreparePublishes
<1>2. pc[r] # "idle" /\ job[r] \in Jobs /\ GoodMemory(mem[r])
  BY <1>1, ReadIsComplete DEF Read
<1>3. CASE Ends(r, "failed") \/ Ends(r, "done")
  BY <1>1, <1>2, <1>3, EndsKeepTypes DEF Ended
<1>4. ASSUME NEW rel, NEW archs, NEW mans, Publication(r, rel, archs, mans)
      PROVE  Typed'
  <2> DEFINE j == job[r]
             updated == {TargetComp(j)} \X archs
             missing == DOMAIN rel.files \ DOMAIN mem[r].rel.files
  <2>1. PICK requests :
          /\ Publish(r, requests, rel)
          /\ Completes(rel, mem[r].rel, updated, mans)
          /\ IsList(requests) /\ BodiesFirst(requests)
          /\ EntriesOf(requests) =
               Bodies(j, UploadedBodies(j)) \cup Indexes(Target(j), updated \cup missing, rel)
    BY <1>4 DEF Publication, Publishes
  <2> DEFINE m == [mem[r] EXCEPT !.todo = requests, !.rel = rel, !.mans = EmptyMap]
  <2>2. pc' = [pc EXCEPT ![r] = "publishing"] /\ mem' = [mem EXCEPT ![r] = m]
    BY <2>1 DEF Publish, Goto, Remember
  <2>3. m.todo = requests /\ m.rel = rel
    BY <1>2 DEF GoodMemory, Fields
  <2>4. GoodMemory(m)
    BY <1>2, <2>1 DEF GoodMemory, Fields, Completes, EmptyMap
  <2> HIDE DEF m
  <2>5. updated \cup missing \subseteq DOMAIN rel.files
    BY <2>1 DEF Completes
  <2> HIDE DEF updated, missing
  <2>6. ASSUME NEW q \in EntriesOf(requests)
        PROVE  BulkRequest(j, rel, q)
    <3>1. CASE q \in Bodies(j, UploadedBodies(j))
      BY <3>1 DEF Bodies, UploadedBodies, BulkRequest
    <3>2. CASE q \in Indexes(Target(j), updated \cup missing, rel)
      BY <2>5, <3>2 DEF Indexes, BulkRequest
    <3> QED
      BY <2>1, <3>1, <3>2
  <2>7. "publishing" \in Labels /\ job[r].op \in Work("publishing")
    BY <1>1 DEF Labels, Work
  <2> QED
    BY <1>1, <1>2, <2>1, <2>2, <2>3, <2>4, <2>6, <2>7, RunKeeps
<1> QED
  BY <1>3, <1>4, PreparePublishes

-----------------------------------------------------------------------------
(* The requests.                                                           *)

\* A run that publishes, and its next request.
LEMMA RequestIsBulk ==
  ASSUME Typed, NEW r \in Run, pc[r] = "publishing", mem[r].todo # <<>>
  PROVE  /\ job[r] \in Jobs /\ job[r].op \in Writers /\ Target(job[r]) \in Codename
         /\ GoodMemory(mem[r])
         /\ BulkRequest(job[r], mem[r].rel, Request(r))
<1>1. GoodRun(r)
  BY DEF Typed
<1>2. Request(r) \in EntriesOf(mem[r].todo)
  BY <1>1, TailEntries DEF GoodRun, GoodMemory, Request
<1> QED
  BY <1>1, <1>2, JobsAssumption DEF GoodRun, Work

LEMMA SentKeepsTypes ==
  ASSUME Typed, NEW r \in Run, Sent(r), pc[r] \in {"publishing", "releasing"},
         mem[r].todo # <<>>, Stored'
  PROVE  Typed'
<1> DEFINE m == [mem[r] EXCEPT !.todo = Tail(@)]
<1>1. mem' = [mem EXCEPT ![r] = m] /\ UNCHANGED <<pc, job>>
  BY DEF Sent, Remember
<1>2. GoodMemory(mem[r]) /\ GoodRun(r)
  BY DEF Typed, GoodRun
<1>3. m.rel = mem[r].rel /\ m.todo = Tail(mem[r].todo)
  BY <1>2 DEF GoodMemory, Fields
<1>4. IsList(Tail(mem[r].todo)) /\ EntriesOf(Tail(mem[r].todo)) \subseteq EntriesOf(mem[r].todo)
  BY <1>2, TailEntries DEF GoodMemory
<1>5. GoodMemory(m)
  BY <1>2, <1>4 DEF GoodMemory, Fields
<1>6. pc[r] = "publishing" => BodiesFirst(m.todo)
  BY <1>2, <1>3, TailBodiesFirst DEF GoodRun, GoodMemory
<1>7. mem'[r] = m
  BY <1>1 DEF Typed
<1> HIDE DEF m
<1>8. GoodRun(r)'
  BY <1>1, <1>2, <1>3, <1>4, <1>5, <1>6, <1>7 DEF GoodRun
<1>9. ASSUME NEW s \in Run, s # r
      PROVE  GoodRun(s)'
  BY <1>1, <1>9, OthersKeep DEF Typed
<1> QED
  BY <1>1, <1>8, <1>9 DEF Typed

LEMMA BulkKeepsTypes ==
  ASSUME Typed, NEW r \in Run, SendBody(r) \/ SendByHash(r) \/ SendIndex(r)
  PROVE  Typed'
<1>1. /\ pc[r] = "publishing" /\ mem[r].todo # <<>>
      /\ BulkRequest(job[r], mem[r].rel, Request(r))
      /\ Target(job[r]) \in Codename /\ GoodMemory(mem[r])
  BY RequestIsBulk DEF SendBody, SendByHash, SendIndex, Sending
<1>2. CASE SendBody(r)
  <2>1. CASE Ends(r, "failed") /\ UNCHANGED <<repo, job>>
    BY <1>1, <2>1, EndsKeepTypes DEF Ended
  <2>2. CASE Sent(r) /\ \E pool : repo' = [repo EXCEPT !.pool = pool]
    <3>1. Stored'
      BY <2>2 DEF Typed, Stored
    <3> QED
      BY <1>1, <2>2, <3>1, SentKeepsTypes
  <2> QED
    BY <1>2, <2>1, <2>2 DEF SendBody
<1>3. CASE SendByHash(r)
  <2>1. Sent(r) /\ \E objects : repo' = [repo EXCEPT !.byHash = objects]
    BY <1>3 DEF SendByHash
  <2>2. Stored'
    BY <2>1 DEF Typed, Stored
  <2> QED
    BY <1>1, <2>1, <2>2, SentKeepsTypes
<1>4. CASE SendIndex(r)
  <2> DEFINE q == Request(r)
  <2>1. Sent(r) /\ repo' = [repo EXCEPT !.index = With(@, q.key, q.content)] /\ q.op = "putIndex"
    BY <1>4 DEF SendIndex, Sending, Request
  <2>2. q.key[1] \in Codename /\ IsList(q.content)
    BY <1>1, <2>1 DEF BulkRequest, Bodies, PutBody, PutByHash, PutIndex, GoodMemory, GoodRelease
  <2> HIDE DEF q
  <2>3. Stored'
    BY <2>1, <2>2 DEF Typed, Stored, With
  <2> QED
    BY <1>1, <2>1, <2>3, SentKeepsTypes
<1> QED
  BY <1>2, <1>3, <1>4

LEMMA ReleaseRequestsIsList == \A signed : IsList(ReleaseRequests(signed))
<1>1. ASSUME NEW a, NEW b, NEW c, NEW d
      PROVE  IsList(<<a, b, c, d>>)
  <2>1. <<a, b, c, d>> \in Seq({a, b, c, d})
    OBVIOUS
  <2> QED
    BY <2>1, SequenceIsList
<1>2. ASSUME NEW a, NEW b, NEW c
      PROVE  IsList(<<a, b, c>>)
  <2>1. <<a, b, c>> \in Seq({a, b, c})
    OBVIOUS
  <2> QED
    BY <2>1, SequenceIsList
<1>3. IsList(<<"sign", "putRelease", "putGpg", "putInRelease">>)
  BY <1>1, Zenon
<1>4. IsList(<<"deleteGpg", "deleteInRelease", "putRelease">>)
  BY <1>2, Zenon
<1> QED
  BY <1>3, <1>4 DEF ReleaseRequests

LEMMA ReleasingKeepsTypes ==
  ASSUME Typed, NEW r \in Run,
         BeginRelease(r) \/ Sign(r) \/ SendRelease(r) \/ SendSignature(r)
           \/ DeleteSignature(r) \/ Published(r)
  PROVE  Typed'
<1>1. pc[r] \in {"publishing", "releasing"}
  BY DEF BeginRelease, Sign, SendRelease, SendSignature, DeleteSignature, Published, Releasing
<1>2. /\ pc[r] # "idle" /\ job[r] \in Jobs /\ Target(job[r]) \in Codename
      /\ job[r].op \in Writers /\ GoodMemory(mem[r]) /\ GoodRelease(mem[r].rel)
  BY <1>1, JobsAssumption DEF Typed, GoodRun, Work, GoodMemory
<1>3. CASE BeginRelease(r)
  <2> DEFINE requests == ReleaseRequests(job[r].sign)
             m == [mem[r] EXCEPT !.todo = requests]
  <2>1. /\ UNCHANGED <<repo, job>> /\ pc' = [pc EXCEPT ![r] = "releasing"]
        /\ mem' = [mem EXCEPT ![r] = m]
    BY <1>3 DEF BeginRelease, Goto, Remember
  <2>2. IsList(requests)
    BY ReleaseRequestsIsList
  <2> HIDE DEF requests
  <2>3. GoodMemory(m)
    BY <1>2, <2>2 DEF GoodMemory, Fields
  <2>4. "releasing" \in Labels /\ job[r].op \in Work("releasing")
    BY <1>2 DEF Labels, Work
  <2> HIDE DEF m
  <2> QED
    BY <1>2, <2>1, <2>3, <2>4, RunKeeps
<1>4. ASSUME NEW kind \in {"release", "gpg", "inRelease"},
             NEW object, object = None \/ GoodRelease(object),
             repo' = [repo EXCEPT ![kind] = [@ EXCEPT ![Target(job[r])] = object]]
      PROVE  Stored'
  BY <1>2, <1>4 DEF Typed, Stored
<1>5. ASSUME Sent(r), mem[r].todo # <<>>, Stored'
      PROVE  Typed'
  BY <1>1, <1>5, SentKeepsTypes
<1>6. CASE Sign(r)
  <2>1. repo' = repo /\ mem[r].todo # <<>>
    BY <1>6 DEF Sign, Releasing
  <2>2. CASE Sent(r)
    BY <1>5, <2>1, <2>2 DEF Typed, Stored
  <2>3. CASE Ends(r, "unsigned") /\ UNCHANGED job
    BY <1>2, <2>1, <2>3, EndsKeepTypes DEF Ended
  <2> QED
    BY <1>6, <2>2, <2>3 DEF Sign
<1>7. CASE SendRelease(r)
  <2>1. Stored'
    BY <1>2, <1>4, <1>7 DEF SendRelease
  <2> QED
    BY <1>5, <1>7, <2>1 DEF SendRelease, Releasing
<1>8. CASE SendSignature(r)
  <2>1. Stored'
    BY <1>2, <1>4, <1>8 DEF SendSignature
  <2> QED
    BY <1>5, <1>8, <2>1 DEF SendSignature, Releasing
<1>9. CASE DeleteSignature(r)
  <2>1. Stored'
    BY <1>2, <1>4, <1>9 DEF DeleteSignature
  <2> QED
    BY <1>5, <1>9, <2>1 DEF DeleteSignature, Releasing
<1>10. CASE Published(r)
  BY <1>2, <1>10, EndsKeepTypes DEF Published, Ended
<1> QED
  BY <1>3, <1>6, <1>7, <1>8, <1>9, <1>10

LEMMA CleanKeepsTypes ==
  ASSUME Typed, NEW r \in Run,
         ListIndexes(r) \/ ScanIndex(r) \/ ListPool(r) \/ DeleteBody(r) \/ Cleaned(r)
  PROVE  Typed'
<1>1. pc[r] \in {"listIndexes", "scan", "sweep"}
  BY DEF ListIndexes, ScanIndex, ListPool, DeleteBody, Cleaned
<1>2. pc[r] # "idle" /\ job[r] \in Jobs /\ job[r].op = "clean" /\ GoodMemory(mem[r])
  BY <1>1 DEF Typed, GoodRun, Work
<1>3. ASSUME NEW label \in {"scan", "sweep"}, NEW left, NEW noted, job' = job,
             pc' = [pc EXCEPT ![r] = label],
             mem' = [mem EXCEPT ![r] = [mem[r] EXCEPT !.left = left, !.noted = noted]],
             Stored'
      PROVE  Typed'
  <2>1. pc' \in [Run -> Labels] /\ DOMAIN job' = Run /\ DOMAIN mem' = Run
    BY <1>3 DEF Typed, Labels
  <2>2. GoodMemory(mem[r])'
    BY <1>2, <1>3 DEF GoodMemory, Fields, Typed
  <2>3. pc'[r] = label /\ label # "idle" /\ label # "publishing" /\ label # "reading" /\ job[r].op \in Work(label)
    BY <1>2, <1>3 DEF Typed, Work
  <2>4. GoodRun(r)'
    BY <1>2, <1>3, <2>2, <2>3, JobsAssumption DEF GoodRun
  <2>5. ASSUME NEW s \in Run, s # r
        PROVE  GoodRun(s)'
    BY <1>3, <2>5, OthersKeep DEF Typed
  <2> QED
    BY <1>3, <2>1, <2>4, <2>5 DEF Typed
<1>4. ASSUME NEW left, NEW noted, UNCHANGED <<repo, job>>,
             mem' = [mem EXCEPT ![r] = [mem[r] EXCEPT !.left = left, !.noted = noted]],
             \E label \in {"scan", "sweep"} : pc' = [pc EXCEPT ![r] = label]
      PROVE  Typed'
  BY <1>3, <1>4 DEF Typed, Stored
<1>5. CASE ListIndexes(r)
  <2>1. mem' = [mem EXCEPT ![r] = [mem[r] EXCEPT !.left = DOMAIN repo.index, !.noted = mem[r].noted]]
    BY <1>2, <1>5 DEF ListIndexes, Remember, GoodMemory, Fields
  <2> QED
    BY <1>4, <1>5, <2>1 DEF ListIndexes, Goto
<1>6. CASE ScanIndex(r)
  <2>1. PICK left, noted : mem' = [mem EXCEPT ![r] = [mem[r] EXCEPT !.left = left, !.noted = noted]]
    BY <1>6 DEF ScanIndex, Remember
  <2>2. pc' = [pc EXCEPT ![r] = "scan"]
    BY <1>6 DEF ScanIndex, Typed
  <2> QED
    BY <1>4, <1>6, <2>1, <2>2 DEF ScanIndex
<1>7. CASE ListPool(r)
  <2>1. PICK left : mem' = [mem EXCEPT ![r] = [mem[r] EXCEPT !.left = left, !.noted = mem[r].noted]]
    BY <1>2, <1>7 DEF ListPool, Remember, GoodMemory, Fields
  <2> QED
    BY <1>4, <1>7, <2>1 DEF ListPool, Goto
<1>8. CASE DeleteBody(r)
  <2>1. PICK left : mem' = [mem EXCEPT ![r] = [mem[r] EXCEPT !.left = left, !.noted = mem[r].noted]]
    <3>1. PICK file : Remember(r, [mem[r] EXCEPT !.left = @ \ {file}])
      BY <1>8 DEF DeleteBody
    <3> QED
      BY <1>2, <3>1 DEF Remember, GoodMemory, Fields
  <2>2. pc' = [pc EXCEPT ![r] = "sweep"]
    BY <1>8 DEF DeleteBody, Typed
  <2>3. Stored'
    BY <1>8 DEF DeleteBody, Typed, Stored
  <2> QED
    BY <1>3, <1>8, <2>1, <2>2, <2>3 DEF DeleteBody
<1>9. CASE Cleaned(r)
  BY <1>2, <1>9, EndsKeepTypes DEF Cleaned, Ended
<1> QED
  BY <1>5, <1>6, <1>7, <1>8, <1>9

-----------------------------------------------------------------------------
(* The specification.                                                      *)

LEMMA StepKeepsTypes ==
  ASSUME Typed, NEW r \in Run, Step(r) \/ Stop(r)
  PROVE  Typed'
<1>1. CASE Start(r)
  BY <1>1, StartKeepsTypes
<1>2. CASE GetSource(r) \/ GetRelease(r) \/ GetManifest(r) \/ HeadBody(r) \/ Answer(r)
  BY <1>2, ReadingKeepsTypes
<1>3. CASE PrepareUpload(r) \/ PrepareCopy(r) \/ PrepareDelete(r) \/ PrepareVerify(r)
  BY <1>3, PrepareKeepsTypes
<1>4. CASE SendBody(r) \/ SendByHash(r) \/ SendIndex(r)
  BY <1>4, BulkKeepsTypes
<1>5. CASE \/ BeginRelease(r) \/ Sign(r) \/ SendRelease(r) \/ SendSignature(r)
           \/ DeleteSignature(r) \/ Published(r)
  BY <1>5, ReleasingKeepsTypes
<1>6. CASE ListIndexes(r) \/ ScanIndex(r) \/ ListPool(r) \/ DeleteBody(r) \/ Cleaned(r)
  BY <1>6, CleanKeepsTypes
<1>7. CASE Stop(r)
  BY <1>7, EndsKeepTypes DEF Stop, Ended, Active
<1> QED
  BY <1>1, <1>2, <1>3, <1>4, <1>5, <1>6, <1>7 DEF Step

LEMMA StutterKeepsTypes ==
  ASSUME Typed, UNCHANGED <<repo, pc, job, mem>>
  PROVE  Typed'
BY DEF Typed, Stored, GoodRun

LEMMA StartsTyped ==
  ASSUME InitialRepo = EmptyRepo, Init
  PROVE  Typed
<1>1. Stored
  BY DEF Init, Stored, EmptyRepo, EmptyMap
<1>2. \A r \in Run : GoodRun(r)
  BY NoMemoryIsGood DEF Init, GoodRun
<1> QED
  BY <1>1, <1>2 DEF Init, Typed, Labels

\* Everything that any command stores, remembers or is going to send has its type.
THEOREM TypedAlways ==
  ASSUME InitialRepo = EmptyRepo
  PROVE  Spec => []Typed
<1>1. Init => Typed
  BY StartsTyped
<1>2. Typed /\ [Next]_vars => Typed'
  <2> SUFFICES ASSUME Typed, [Next]_vars
               PROVE  Typed'
    OBVIOUS
  <2>1. CASE \E r \in Run : Step(r) \/ Stop(r)
    BY <2>1, StepKeepsTypes
  <2>2. CASE ClientFetches \/ AllDone \/ UNCHANGED vars
    BY <2>2, StutterKeepsTypes DEF ClientFetches, AllDone, vars
  <2> QED
    BY <2>1, <2>2 DEF Next
<1> QED
  BY <1>1, <1>2, PTL DEF Spec

-----------------------------------------------------------------------------
(* TypeOK, with the bounds on the runs at work and on those that stop.     *)

Bounded == Cardinality(Active) <= MaxActive /\ Cardinality(Stopped) <= MaxStops

\* Only Start adds a run to those at work; stopping is bounded by its guard.
Moves(r) ==
  /\ \A s \in Run \ {r} : pc'[s] = pc[s]
  /\ r \in Active \/ (pc[r] = "idle" /\ Cardinality(Active) < MaxActive)
  /\ pc'[r] \in {"stopped", "unsigned"} => Cardinality(Stopped) < MaxStops

LEMMA StepMoves ==
  ASSUME Typed, NEW r \in Run, Step(r) \/ Stop(r)
  PROVE  Moves(r)
<1> USE DEF Typed, Moves, Active, Ended
<1>1. ASSUME UNCHANGED pc, r \in Active PROVE Moves(r)
  BY <1>1
<1>2. ASSUME NEW label, Goto(r, label), r \in Active, label \notin {"stopped", "unsigned"}
      PROVE Moves(r)
  BY <1>2 DEF Goto
<1>3. CASE Start(r)
  <2>1. pc[r] = "idle" /\ Cardinality(Active) < MaxActive
    BY <1>3 DEF Start
  <2>2. PICK j : /\ pc' = [pc EXCEPT ![r] = CASE j.op = "copy" -> "getSource"
                                             [] j.op = "clean" -> "listIndexes"
                                             [] j.op = "exists" -> "reading"
                                             [] OTHER -> "getRelease"]
    BY <1>3 DEF Start, Goto
  <2>3. \A s \in Run \ {r} : pc'[s] = pc[s]
    BY <2>2
  <2>4. pc'[r] \notin {"stopped", "unsigned"}
    BY <2>2
  <2> QED
    BY <2>1, <2>3, <2>4
<1>4. CASE GetSource(r) \/ GetRelease(r) \/ ListIndexes(r) \/ ListPool(r) \/ BeginRelease(r)
  BY <1>2, <1>4 DEF GetSource, GetRelease, ListIndexes, ListPool, BeginRelease
<1>5. CASE GetManifest(r) \/ HeadBody(r) \/ ScanIndex(r) \/ DeleteBody(r)
  BY <1>1, <1>5 DEF GetManifest, HeadBody, ScanIndex, DeleteBody
<1>6. CASE SendByHash(r) \/ SendIndex(r)
  BY <1>1, <1>6 DEF SendByHash, SendIndex, Sending, Sent
<1>7. CASE SendRelease(r) \/ SendSignature(r) \/ DeleteSignature(r)
  BY <1>1, <1>7 DEF SendRelease, SendSignature, DeleteSignature, Releasing, Sent
<1>8. CASE SendBody(r)
  BY <1>1, <1>2, <1>8 DEF SendBody, Sending, Sent, Ends
<1>9. CASE Answer(r) \/ Published(r) \/ Cleaned(r)
  BY <1>2, <1>9 DEF Answer, Read, Published, Cleaned, Ends
<1>10. CASE PrepareUpload(r) \/ PrepareCopy(r) \/ PrepareDelete(r) \/ PrepareVerify(r)
  <2>1. pc[r] = "reading"
    BY <1>10, PreparePublishes DEF Read
  <2>2. CASE Ends(r, "failed") \/ Ends(r, "done")
    BY <1>2, <2>1, <2>2 DEF Ends
  <2>3. CASE \E rel, archs, mans : Publication(r, rel, archs, mans)
    BY <1>2, <2>1, <2>3 DEF Publication, Publishes, Publish
  <2> QED
    BY <1>10, <2>2, <2>3, PreparePublishes
<1>11. CASE Sign(r)
  <2>1. r \in Active
    BY <1>11 DEF Sign, Releasing
  <2>2. CASE Sent(r)
    BY <1>1, <2>1, <2>2 DEF Sent
  <2>3. CASE Cardinality(Stopped) < MaxStops /\ Goto(r, "unsigned")
    BY <2>1, <2>3 DEF Goto
  <2> QED
    BY <1>11, <2>2, <2>3 DEF Sign, Ends
<1>12. CASE Stop(r)
  BY <1>12 DEF Stop, Ends, Goto
<1> QED
  BY <1>3, <1>4, <1>5, <1>6, <1>7, <1>8, <1>9, <1>10, <1>11, <1>12 DEF Step

LEMMA MovesKeepBounds ==
  ASSUME IsFiniteSet(Run), Bounded, NEW r \in Run, Moves(r)
  PROVE  Bounded'
<1>1. Active \subseteq Run /\ Stopped \subseteq Run
  BY DEF Active, Stopped
<1>2. IsFiniteSet(Active) /\ IsFiniteSet(Stopped)
  BY <1>1, FS_Subset
<1>3. ASSUME NEW S, IsFiniteSet(S), NEW T, T \subseteq S \cup {r}, NEW bound \in Nat,
             Cardinality(S) <= bound, T \subseteq S \/ Cardinality(S) < bound
      PROVE  Cardinality(T) <= bound
  <2>1. IsFiniteSet(S \cup {r}) /\ Cardinality(S) \in Nat
        /\ Cardinality(S \cup {r}) \in {Cardinality(S), Cardinality(S) + 1}
    BY <1>3, FS_AddElement, FS_CardinalityType
  <2>2. CASE T \subseteq S
    BY <1>3, <2>1, <2>2, FS_Subset, FS_CardinalityType
  <2>3. CASE Cardinality(S) < bound
    BY <1>3, <2>1, <2>3, FS_Subset, FS_CardinalityType
  <2> QED
    BY <1>3, <2>2, <2>3
<1>4. Active' \subseteq Active \cup {r} /\ (Active' \subseteq Active \/ Cardinality(Active) < MaxActive)
  BY DEF Moves, Active
<1>5. Stopped' \subseteq Stopped \cup {r} /\ (Stopped' \subseteq Stopped \/ Cardinality(Stopped) < MaxStops)
  BY DEF Moves, Stopped
<1>6. Cardinality(Active)' <= MaxActive
  BY <1>2, <1>3, <1>4, BoundsAssumption DEF Bounded
<1>7. Cardinality(Stopped)' <= MaxStops
  BY <1>2, <1>3, <1>5, BoundsAssumption DEF Bounded
<1> QED
  BY <1>6, <1>7 DEF Bounded

\* The signatures and Release name no index outside the components and
\* architectures they list, no index lies outside a codename, and a run has a
\* command exactly when it has started: for any commands, interleaving and stops.
THEOREM TypesAreOK ==
  ASSUME InitialRepo = EmptyRepo, IsFiniteSet(Run)
  PROVE  Spec => []TypeOK
<1>1. Init => Bounded
  <2> SUFFICES ASSUME Init PROVE Bounded
    OBVIOUS
  <2>1. Active = {} /\ Stopped = {}
    BY DEF Init, Active, Stopped, Ended
  <2> QED
    BY <2>1, FS_EmptySet, BoundsAssumption DEF Bounded
<1>2. Typed /\ Bounded /\ [Next]_vars => Bounded'
  <2> SUFFICES ASSUME Typed, Bounded, [Next]_vars
               PROVE  Bounded'
    OBVIOUS
  <2>1. CASE \E r \in Run : Step(r) \/ Stop(r)
    BY <2>1, StepMoves, MovesKeepBounds
  <2>2. CASE ClientFetches \/ AllDone \/ UNCHANGED vars
    BY <2>2 DEF ClientFetches, AllDone, vars, Bounded, Active, Stopped
  <2> QED
    BY <2>1, <2>2 DEF Next
<1>3. Typed /\ Bounded => TypeOK
  <2> SUFFICES ASSUME Typed, Bounded
               PROVE  TypeOK
    OBVIOUS
  <2>1. ASSUME NEW c \in Codename, NEW o \in {repo.release[c], repo.gpg[c], repo.inRelease[c]}, o # None,
               NEW i \in DOMAIN o.files
        PROVE  i[1] \in EntriesOf(o.comps) /\ i[2] \in EntriesOf(o.archs)
    <3>1. GoodRelease(o)
      BY <2>1 DEF Typed, Stored
    <3> QED
      BY <3>1 DEF GoodRelease
  <2> QED
    BY <2>1 DEF Typed, Stored, GoodRun, Bounded, TypeOK
<1> QED
  BY <1>1, <1>2, <1>3, TypedAlways, PTL DEF Spec
=============================================================================

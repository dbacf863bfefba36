------------------------------ MODULE RepoLock ------------------------------
(***************************************************************************)
(* The repository lock of one codename: the lock object                    *)
(* dists/<codename>/lockfile, and every run of a command started with      *)
(* --lock.  A run is one call of withRepositoryLock: Manager.Acquire, the  *)
(* operation, Handle.Release.  One action is one request to the object     *)
(* store, because other runs act between two requests of a run.            *)
(*                                                                         *)
(* The content of the lock object is the owner record with a fresh random  *)
(* token, so the object is named by the run that wrote it, and so is its   *)
(* ETag (the MD5 of the content).                                          *)
(***************************************************************************)
EXTENDS Integers, FiniteSets

CONSTANTS
  Run,          \* the runs of a command with --lock on this codename
  NoLock,       \* no object under the lock key
  Legacy,       \* a lock the Ruby client wrote: user@host
  Garbage,      \* an object under the lock key that decodeOwner rejects
  MaxAttempts,  \* the bound on acquisition attempts; 0 is Unlimited
  Timed,        \* the runs with a --lock-timeout, which may expire while they acquire
  Faults        \* what may go wrong; see the actions

FaultKinds ==
  { "storeError",  \* a request fails, whether or not the store applied it
    "retry",       \* the SDK repeats a PutObject whose answer was lost
    "conflict409", \* the store answers 409 to a conditional write
    "delay",       \* a request that was given up, or repeated, is applied later
    "crash",       \* a run dies
    "operator",    \* an operator deletes the lock of a run that has ended
    "rogue" }      \* an operator deletes the lock of a run that has not

ASSUME RunAssumption ==
  /\ NoLock \notin Run /\ Legacy \notin Run /\ Garbage \notin Run
  /\ NoLock # Legacy /\ NoLock # Garbage /\ Legacy # Garbage
ASSUME AttemptsAssumption == MaxAttempts \in Nat
ASSUME FaultsAssumption == Faults \subseteq FaultKinds /\ Timed \subseteq Run

VARIABLES
  lock,     \* the lock object in the store
  pc,       \* where each run is
  attempt,  \* Acquire's loop variable
  etag,     \* the ETag in each run's Handle
  latePut,  \* runs with a PutObject still in the network
  lateDelete \* runs with a DeleteObject still in the network

vars == <<lock, pc, attempt, etag, latePut, lateDelete>>

Objects == Run \cup {Legacy, Garbage}

\* Acquire: the Head and the PutObject of S3Store.Put, the Head that reads the
\* ETag, the Get of Current, the timer.
AcquireRequests == {"putHead", "putObject", "readETag", "readCurrent"}
Acquiring == AcquireRequests \cup {"waiting"}
ReleaseRequests == {"releaseGet", "releaseDelete"}
Ended == {"failed", "released", "notOwner", "releaseFailed", "crashed"}
Live == Acquiring \cup {"operating"} \cup ReleaseRequests

TypeOK ==
  /\ lock \in Objects \cup {NoLock}
  /\ pc \in [Run -> Live \cup Ended]
  /\ attempt \in [Run -> Nat]
  /\ MaxAttempts > 0 => \A r \in Run : attempt[r] \in 1 .. MaxAttempts
  /\ etag \in [Run -> Objects \cup {NoLock}]
  /\ latePut \subseteq Run
  /\ lateDelete \subseteq Run

Init ==
  /\ lock \in {NoLock, Legacy, Garbage}
  /\ pc = [r \in Run |-> "putHead"]
  /\ attempt = [r \in Run |-> 1]
  /\ etag = [r \in Run |-> NoLock]
  /\ latePut = {}
  /\ lateDelete = {}

Goto(r, label) == pc' = [pc EXCEPT ![r] = label]

\* A request that was sent and not answered may still be under way.
MayBeDelayed(set, r) == {set} \cup (IF "delay" \in Faults THEN {set \cup {r}} ELSE {})

-----------------------------------------------------------------------------
(* Manager.Acquire.                                                        *)

\* The comparison of the MD5 of an existing object with that of the run's record.
AnyContent(r) == lock # NoLock  \* mutant: an existing object is taken for one's own
NoContent(r) == FALSE           \* mutant: one's own object is a conflict
SameContent(r) == lock = r

\* The Head with which S3Store.Put begins.  Content equal to the run's own
\* record makes Put return nil without writing.
PutHead(r) ==
  /\ pc[r] = "putHead"
  /\ \/ lock = NoLock /\ Goto(r, "putObject")
     \/ lock # NoLock /\ SameContent(r) /\ Goto(r, "readETag")
     \/ lock # NoLock /\ ~SameContent(r) /\ Goto(r, "readCurrent")
  /\ UNCHANGED <<lock, attempt, etag, latePut, lateDelete>>

Unconditionally == TRUE  \* mutant: the header is not sent
IfNoneMatch == lock = NoLock

\* PutObject with If-None-Match: * is applied.  When the answer to a first
\* request is lost and the SDK repeats it, the answer is 412: a conflict.
PutObjectCreates(r) ==
  /\ pc[r] = "putObject"
  /\ IfNoneMatch
  /\ lock' = r
  /\ \/ Goto(r, "readETag") /\ latePut' \in MayBeDelayed(latePut, r)
     \/ "retry" \in Faults /\ Goto(r, "readCurrent") /\ latePut' = latePut
  /\ UNCHANGED <<attempt, etag, lateDelete>>

\* 412 PreconditionFailed or 409 ConditionalRequestConflict.
PutObjectConflicts(r) ==
  /\ pc[r] = "putObject"
  /\ ~IfNoneMatch \/ "conflict409" \in Faults
  /\ Goto(r, "readCurrent")
  /\ UNCHANGED <<lock, attempt, etag, latePut, lateDelete>>

\* The Head after a successful Put: whatever object is there gives the Handle
\* its ETag.
ReadETag(r) ==
  /\ pc[r] = "readETag"
  /\ \/ lock = NoLock /\ Goto(r, "failed") /\ UNCHANGED etag
     \/ /\ lock # NoLock
        /\ etag' = [etag EXCEPT ![r] = lock]
        /\ Goto(r, "operating")
  /\ UNCHANGED <<lock, attempt, latePut, lateDelete>>

PastLastAttempt(r) == attempt[r] > MaxAttempts /\ MaxAttempts > 0  \* mutant
LastAttempt(r) == attempt[r] = MaxAttempts

\* The next turn of the loop; an unbounded loop does not count.
NextAttempt(r) ==
  /\ attempt' = IF MaxAttempts = 0 THEN attempt ELSE [attempt EXCEPT ![r] = @ + 1]
  /\ Goto(r, "putHead")

\* Manager.Current after a conflict, and what the loop makes of its answer.
ReadCurrent(r) ==
  /\ pc[r] = "readCurrent"
  /\ \/ /\ lock = Garbage \/ LastAttempt(r)
        /\ Goto(r, "failed") /\ UNCHANGED attempt
     \/ /\ lock = NoLock /\ ~LastAttempt(r)
        /\ NextAttempt(r)
     \/ /\ lock \in Run \cup {Legacy} /\ ~LastAttempt(r)
        /\ Goto(r, "waiting") /\ UNCHANGED attempt
  /\ UNCHANGED <<lock, etag, latePut, lateDelete>>

BackoffEnds(r) ==
  /\ pc[r] = "waiting"
  /\ NextAttempt(r)
  /\ UNCHANGED <<lock, etag, latePut, lateDelete>>

\* Acquire returns an error.  A PutObject that was sent may have been applied,
\* or may be applied later.
GiveUp(r) ==
  /\ \/ UNCHANGED <<lock, latePut>>
     \/ pc[r] = "putObject" /\ IfNoneMatch /\ lock' = r /\ UNCHANGED latePut
     \/ pc[r] = "putObject" /\ latePut' \in MayBeDelayed(latePut, r) /\ UNCHANGED lock
  /\ Goto(r, "failed")
  /\ UNCHANGED <<attempt, etag, lateDelete>>

\* What the context with the deadline interrupts: requests and the timer.
RequestsOnly == AcquireRequests  \* mutant: the backoff does not watch the context
UnderDeadline == Acquiring

DeadlineExpires(r) ==
  /\ pc[r] \in UnderDeadline /\ r \in Timed
  /\ GiveUp(r)

AcquireRequestFails(r) ==
  /\ pc[r] \in AcquireRequests /\ "storeError" \in Faults
  /\ GiveUp(r)

-----------------------------------------------------------------------------
(* The operation, which ends whether or not it succeeds, and               *)
(* Handle.Release.                                                         *)

OperationEnds(r) ==
  /\ pc[r] = "operating"
  /\ Goto(r, "releaseGet")
  /\ UNCHANGED <<lock, attempt, etag, latePut, lateDelete>>

AnyToken(r) == lock # NoLock  \* mutant: the token is not compared
TokenMatches(r) == lock = r

ReleaseGet(r) ==
  /\ pc[r] = "releaseGet"
  /\ \/ lock = NoLock /\ Goto(r, "released")
     \/ lock # NoLock /\ TokenMatches(r) /\ Goto(r, "releaseDelete")
     \/ lock # NoLock /\ ~TokenMatches(r) /\ Goto(r, "notOwner")
  /\ UNCHANGED <<lock, attempt, etag, latePut, lateDelete>>

\* DeleteObject with If-Match: the Handle's ETag.
ReleaseDelete(r) ==
  /\ pc[r] = "releaseDelete"
  /\ \/ lock = NoLock /\ Goto(r, "released") /\ UNCHANGED lock
     \/ lock # NoLock /\ lock = etag[r] /\ lock' = NoLock /\ Goto(r, "released")
     \/ lock # NoLock /\ lock # etag[r] /\ Goto(r, "notOwner") /\ UNCHANGED lock
  /\ UNCHANGED <<attempt, etag, latePut, lateDelete>>

ReleaseErrorDropped == "released"  \* mutant: the error is not returned
ReleaseError == "releaseFailed"

\* A request of Release fails or outlasts its thirty seconds.
ReleaseFails(r) ==
  /\ pc[r] \in ReleaseRequests
  /\ "storeError" \in Faults
  /\ \/ UNCHANGED <<lock, lateDelete>>
     \/ pc[r] = "releaseDelete" /\ lock = etag[r] /\ lock' = NoLock /\ UNCHANGED lateDelete
     \/ /\ pc[r] = "releaseDelete"
        /\ lateDelete' \in MayBeDelayed(lateDelete, r)
        /\ UNCHANGED lock
  /\ Goto(r, ReleaseError)
  /\ UNCHANGED <<attempt, etag, latePut>>

-----------------------------------------------------------------------------
(* The environment.                                                        *)

Crash(r) ==
  /\ "crash" \in Faults
  /\ pc[r] \in Live
  /\ latePut' \in IF pc[r] = "putObject" THEN MayBeDelayed(latePut, r) ELSE {latePut}
  /\ lateDelete' \in IF pc[r] = "releaseDelete" THEN MayBeDelayed(lateDelete, r) ELSE {lateDelete}
  /\ Goto(r, "crashed")
  /\ UNCHANGED <<lock, attempt, etag>>

LatePutArrives(r) ==
  /\ r \in latePut
  /\ latePut' = latePut \ {r}
  /\ lock' = IF IfNoneMatch THEN r ELSE lock
  /\ UNCHANGED <<pc, attempt, etag, lateDelete>>

LateDeleteArrives(r) ==
  /\ r \in lateDelete
  /\ lateDelete' = lateDelete \ {r}
  /\ lock' = IF lock = etag[r] THEN NoLock ELSE lock
  /\ UNCHANGED <<pc, attempt, etag, latePut>>

\* "check the recorded owner and delete the lock object by hand"
OperatorDeletes ==
  /\ lock # NoLock
  /\ \/ "rogue" \in Faults
     \/ "operator" \in Faults /\ (lock \in Run => pc[lock] \in Ended)
  /\ lock' = NoLock
  /\ UNCHANGED <<pc, attempt, etag, latePut, lateDelete>>

AllEnded == (\A r \in Run : pc[r] \in Ended) /\ UNCHANGED vars

\* The steps the program takes by itself, and those a fault causes.
Progress(r) ==
  \/ PutHead(r) \/ PutObjectCreates(r) \/ PutObjectConflicts(r) \/ ReadETag(r)
  \/ ReadCurrent(r) \/ BackoffEnds(r)
  \/ OperationEnds(r) \/ ReleaseGet(r) \/ ReleaseDelete(r)

Fault(r) ==
  \/ DeadlineExpires(r) \/ AcquireRequestFails(r) \/ ReleaseFails(r)
  \/ Crash(r) \/ LatePutArrives(r) \/ LateDeleteArrives(r)

Next ==
  \/ \E r \in Run : Progress(r) \/ Fault(r)
  \/ OperatorDeletes
  \/ AllEnded

Spec == Init /\ [][Next]_vars

\* Every run that is alive gets its requests answered, its operation ends, its
\* timer fires, and a deadline that is set comes.  Nothing makes an operator
\* act, a store fail or a process die.
Fairness ==
  \A r \in Run : /\ WF_vars(Progress(r))
                 /\ WF_vars(DeadlineExpires(r))

FairSpec == Spec /\ Fairness

-----------------------------------------------------------------------------
(* Properties.                                                             *)

\* Two runs never work on the repository at once: at most one run is between
\* the return of Acquire and its Release (withRepositoryLock).
MutualExclusion ==
  \A r, s \in Run : pc[r] = "operating" /\ pc[s] = "operating" => r = s

\* From the successful Put to the end of Release, the lock object is the run's
\* own, and so is the ETag in its Handle.
HolderOwnsLock ==
  \A r \in Run :
    /\ pc[r] \in {"readETag", "operating", "releaseGet", "releaseDelete"} => lock = r
    /\ pc[r] \in {"operating", "releaseGet", "releaseDelete"} \/ r \in lateDelete
         => etag[r] = r

\* Release never deletes the lock of another run, even when an operator deleted
\* the lock under a run that was alive: LOCKING.md, "it can never delete a lock
\* that has since been replaced by another run".
OnlyOwnLockDeleted ==
  [][\A r \in Run :
       /\ \/ pc[r] = "releaseDelete" /\ pc'[r] # pc[r]
          \/ r \in lateDelete \ lateDelete'
       /\ lock' # lock
       => lock = r]_vars

\* A run whose Release returned no error has left no lock behind, whatever was
\* lost, repeated or deleted on the way.
ReleasedLeavesNoLock ==
  \A r \in Run : pc[r] = "released" => lock # r

\* LOCKING.md, "The lock is released even when the operation fails or is
\* cancelled": a run that ended other than by dying has left no lock behind.
EndedLeavesNoLock ==
  \A r \in Run : pc[r] \in Ended \ {"crashed"} => lock # r

\* The lock object is there and no run that is alive will release it.
LeftBehind ==
  lock \in {Legacy, Garbage} \/ (lock \in Run /\ pc[lock] \in Ended)

\* A lock that is taken away is not that of a live run, but by that run itself.
LiveLocksSpared ==
  lock \in Run /\ pc[lock] \in Live /\ lock' = NoLock => pc'[lock] # pc[lock]

\* Every run ends, however it waits, where no lock stays behind for good and live
\* locks are not deleted by hand for ever: the runs before it release, or
\* operators remove what they leave, and the unbounded loop gets its turn.  A run
\* whose PutObject was applied and not answered must not wait behind its own lock.
EveryRunServed ==
  []<>~LeftBehind /\ <>[][LiveLocksSpared]_vars => \A r \in Run : <>(pc[r] \in Ended)

\* A run with a deadline ends, whatever lock was left behind.
TimedRunsEnd == \A r \in Timed : <>(pc[r] \in Ended)

-----------------------------------------------------------------------------
(* The mapping to LockSpec.                                                *)

\* A run is inside from the PutObject that created its lock, or the Head that
\* found it, to the last request of Release.
PhaseOf(label) ==
  IF label \in {"readETag", "operating", "releaseGet", "releaseDelete"} THEN "inside"
  ELSE IF label \in Acquiring THEN "outside"
  ELSE "gone"

phaseBar == [r \in Run |-> PhaseOf(pc[r])]

Promise == INSTANCE LockSpec
             WITH cell <- lock, phase <- phaseBar,
                  Foreign <- {Legacy, Garbage}, Empty <- NoLock

\* The requests of Acquire and Release implement the promise of the lock: every
\* step of a run, of the network and of an operator who only deletes the locks
\* of runs that have ended is a step of LockSpec or none.
ImplementsLockSpec == Promise!Spec
=============================================================================

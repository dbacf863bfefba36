--------------------------- MODULE RepoLockProofs ---------------------------
(***************************************************************************)
(* Theorems about RepoLock for every set of runs, every bound on the       *)
(* attempts and every combination of faults an assumption does not exclude.*)
(***************************************************************************)
EXTENDS RepoLock, TLAPS

USE DEF IfNoneMatch, SameContent, TokenMatches, ReleaseError, UnderDeadline

\* A run that waits for its next attempt has one: TypeOK's bound on the attempts
\* is not inductive without it.
NotLastWaiting ==
  \A r \in Run : pc[r] = "waiting" => ~LastAttempt(r)

TypeInv == TypeOK /\ NotLastWaiting

\* The sets a location belongs to.
LEMMA Locations ==
  /\ AcquireRequests = {"putHead", "putObject", "readETag", "readCurrent"}
  /\ Acquiring = {"putHead", "putObject", "readETag", "readCurrent", "waiting"}
  /\ ReleaseRequests = {"releaseGet", "releaseDelete"}
  /\ Ended = {"failed", "released", "notOwner", "releaseFailed", "crashed"}
  /\ Live = {"putHead", "putObject", "readETag", "readCurrent", "waiting",
             "operating", "releaseGet", "releaseDelete"}
BY DEF AcquireRequests, Acquiring, ReleaseRequests, Ended, Live

\* The next attempt stays within the bound: the attempt that was not the last
\* one has a successor (the loop condition of Acquire, and its break).
LEMMA AttemptBounded ==
  ASSUME TypeOK, NEW r \in Run, NextAttempt(r), ~LastAttempt(r)
  PROVE  /\ attempt' \in [Run -> Nat]
         /\ MaxAttempts > 0 => \A s \in Run : attempt'[s] \in 1 .. MaxAttempts
         /\ \A s \in Run : s # r => attempt'[s] = attempt[s]
BY AttemptsAssumption DEF NextAttempt, LastAttempt, TypeOK

\* A request that is given up adds at most its run to those under way.
LEMMA DelayedRun ==
  ASSUME NEW S, S \subseteq Run, NEW r \in Run, NEW T \in MayBeDelayed(S, r)
  PROVE  /\ T \subseteq Run
         /\ T \subseteq S \cup {r}
         /\ "delay" \notin Faults => T = S
BY DEF MayBeDelayed

\* Every step preserves the types and the bound on the attempts.
LEMMA TypeInvStep ==
  ASSUME TypeInv, [Next]_vars
  PROVE  TypeInv'
<1> USE Locations DEF TypeInv, TypeOK, NotLastWaiting, Objects, Goto
<1>1. ASSUME NEW r \in Run, PutHead(r)
      PROVE  TypeInv'
  BY <1>1 DEF PutHead, LastAttempt
<1>2. ASSUME NEW r \in Run, PutObjectCreates(r)
      PROVE  TypeInv'
  BY <1>2, DelayedRun DEF PutObjectCreates, LastAttempt
<1>3. ASSUME NEW r \in Run, PutObjectConflicts(r)
      PROVE  TypeInv'
  BY <1>3 DEF PutObjectConflicts, LastAttempt
<1>4. ASSUME NEW r \in Run, ReadETag(r)
      PROVE  TypeInv'
  BY <1>4 DEF ReadETag, LastAttempt
<1>5. ASSUME NEW r \in Run, ReadCurrent(r)
      PROVE  TypeInv'
  <2>1. CASE NextAttempt(r) /\ ~LastAttempt(r)
    BY <1>5, <2>1, AttemptBounded DEF ReadCurrent, LastAttempt, NextAttempt
  <2>2. CASE Goto(r, "failed") /\ UNCHANGED attempt
    BY <1>5, <2>2 DEF ReadCurrent, LastAttempt
  <2>3. CASE Goto(r, "waiting") /\ UNCHANGED attempt /\ ~LastAttempt(r)
    BY <1>5, <2>3 DEF ReadCurrent, LastAttempt
  <2> QED BY <1>5, <2>1, <2>2, <2>3 DEF ReadCurrent
<1>6. ASSUME NEW r \in Run, BackoffEnds(r)
      PROVE  TypeInv'
  BY <1>6, AttemptBounded DEF BackoffEnds, LastAttempt, NextAttempt
<1>7. ASSUME NEW r \in Run, GiveUp(r)
      PROVE  TypeInv'
  BY <1>7, DelayedRun DEF GiveUp, LastAttempt
<1>8. ASSUME NEW r \in Run, OperationEnds(r)
      PROVE  TypeInv'
  BY <1>8 DEF OperationEnds, LastAttempt
<1>9. ASSUME NEW r \in Run, ReleaseGet(r)
      PROVE  TypeInv'
  BY <1>9 DEF ReleaseGet, LastAttempt
<1>10. ASSUME NEW r \in Run, ReleaseDelete(r)
       PROVE  TypeInv'
  BY <1>10 DEF ReleaseDelete, LastAttempt
<1>11. ASSUME NEW r \in Run, ReleaseFails(r)
       PROVE  TypeInv'
  BY <1>11, DelayedRun DEF ReleaseFails, LastAttempt
<1>12. ASSUME NEW r \in Run, Crash(r)
       PROVE  TypeInv'
  BY <1>12, DelayedRun DEF Crash, LastAttempt
<1>13. ASSUME NEW r \in Run, LatePutArrives(r)
       PROVE  TypeInv'
  BY <1>13 DEF LatePutArrives, LastAttempt
<1>14. ASSUME NEW r \in Run, LateDeleteArrives(r)
       PROVE  TypeInv'
  BY <1>14 DEF LateDeleteArrives, LastAttempt
<1>15. ASSUME OperatorDeletes
       PROVE  TypeInv'
  BY <1>15 DEF OperatorDeletes, LastAttempt
<1>16. ASSUME UNCHANGED vars
       PROVE  TypeInv'
  BY <1>16 DEF vars, LastAttempt
<1> QED
  BY <1>1, <1>2, <1>3, <1>4, <1>5, <1>6, <1>7, <1>8, <1>9, <1>10, <1>11, <1>12,
     <1>13, <1>14, <1>15, <1>16
  DEF Next, Progress, Fault, DeadlineExpires, AcquireRequestFails, AllEnded

\* The types hold initially.
LEMMA TypeInvInit == Init => TypeInv
BY AttemptsAssumption, Locations
DEF Init, TypeInv, TypeOK, NotLastWaiting, Objects

\* The types, with the places a run may be in, hold throughout.
LEMMA TypeInvAlways == Spec => []TypeInv
<1>1. TypeInv /\ [Next]_vars => TypeInv'
  BY TypeInvStep
<1> QED BY <1>1, TypeInvInit, PTL DEF Spec

\* Type correctness, with the bound on the attempts of Manager.Acquire.
THEOREM TypeCorrect == Spec => []TypeOK
<1>1. TypeInv => TypeOK
  BY DEF TypeInv
<1> QED BY <1>1, TypeInvAlways, PTL

-----------------------------------------------------------------------------
(* Ownership, with every fault but an operator who deletes the lock of a   *)
(* run that is alive.                                                      *)

\* A DeleteObject under way outlives its run only.
LateDeleteEnded ==
  \A r \in lateDelete : pc[r] \in Ended

OwnershipInv == TypeInv /\ HolderOwnsLock /\ LateDeleteEnded

\* Without deletions of live locks by hand, every step preserves ownership.
LEMMA OwnershipStep ==
  ASSUME "rogue" \notin Faults, OwnershipInv, [Next]_vars
  PROVE  OwnershipInv'
<1>0. TypeInv'
  BY TypeInvStep DEF OwnershipInv
<1> SUFFICES (HolderOwnsLock /\ LateDeleteEnded)'
  BY <1>0 DEF OwnershipInv
<1> USE Locations, RunAssumption
    DEF OwnershipInv, HolderOwnsLock, LateDeleteEnded, TypeInv, TypeOK, Objects, Goto
<1>1. ASSUME NEW r \in Run, PutHead(r)
      PROVE  (HolderOwnsLock /\ LateDeleteEnded)'
  BY <1>1 DEF PutHead
<1>2. ASSUME NEW r \in Run, PutObjectCreates(r)
      PROVE  (HolderOwnsLock /\ LateDeleteEnded)'
  BY <1>2 DEF PutObjectCreates
<1>3. ASSUME NEW r \in Run, PutObjectConflicts(r)
      PROVE  (HolderOwnsLock /\ LateDeleteEnded)'
  BY <1>3 DEF PutObjectConflicts
<1>4. ASSUME NEW r \in Run, ReadETag(r)
      PROVE  (HolderOwnsLock /\ LateDeleteEnded)'
  BY <1>4 DEF ReadETag
<1>5. ASSUME NEW r \in Run, ReadCurrent(r)
      PROVE  (HolderOwnsLock /\ LateDeleteEnded)'
  BY <1>5 DEF ReadCurrent, NextAttempt
<1>6. ASSUME NEW r \in Run, BackoffEnds(r)
      PROVE  (HolderOwnsLock /\ LateDeleteEnded)'
  BY <1>6 DEF BackoffEnds, NextAttempt
<1>7. ASSUME NEW r \in Run, GiveUp(r), pc[r] \in Acquiring
      PROVE  (HolderOwnsLock /\ LateDeleteEnded)'
  BY <1>7 DEF GiveUp
<1>8. ASSUME NEW r \in Run, OperationEnds(r)
      PROVE  (HolderOwnsLock /\ LateDeleteEnded)'
  BY <1>8 DEF OperationEnds
<1>9. ASSUME NEW r \in Run, ReleaseGet(r)
      PROVE  (HolderOwnsLock /\ LateDeleteEnded)'
  BY <1>9 DEF ReleaseGet
<1>10. ASSUME NEW r \in Run, ReleaseDelete(r)
       PROVE  (HolderOwnsLock /\ LateDeleteEnded)'
  BY <1>10 DEF ReleaseDelete
<1>11. ASSUME NEW r \in Run, ReleaseFails(r)
       PROVE  (HolderOwnsLock /\ LateDeleteEnded)'
  BY <1>11, DelayedRun DEF ReleaseFails
<1>12. ASSUME NEW r \in Run, Crash(r)
       PROVE  (HolderOwnsLock /\ LateDeleteEnded)'
  BY <1>12, DelayedRun DEF Crash
<1>13. ASSUME NEW r \in Run, LatePutArrives(r)
       PROVE  (HolderOwnsLock /\ LateDeleteEnded)'
  BY <1>13 DEF LatePutArrives
<1>14. ASSUME NEW r \in Run, LateDeleteArrives(r)
       PROVE  (HolderOwnsLock /\ LateDeleteEnded)'
  BY <1>14 DEF LateDeleteArrives
<1>15. ASSUME OperatorDeletes
       PROVE  (HolderOwnsLock /\ LateDeleteEnded)'
  BY <1>15 DEF OperatorDeletes
<1>16. ASSUME UNCHANGED vars
       PROVE  (HolderOwnsLock /\ LateDeleteEnded)'
  BY <1>16 DEF vars
<1> QED
  BY <1>1, <1>2, <1>3, <1>4, <1>5, <1>6, <1>7, <1>8, <1>9, <1>10, <1>11, <1>12,
     <1>13, <1>14, <1>15, <1>16
  DEF Next, Progress, Fault, DeadlineExpires, AcquireRequestFails, AllEnded

\* Ownership of the lock by its holder holds throughout.
LEMMA OwnershipAlways ==
  ASSUME "rogue" \notin Faults
  PROVE  Spec => []OwnershipInv
<1>1. Init => OwnershipInv
  BY TypeInvInit, Locations DEF Init, OwnershipInv, HolderOwnsLock, LateDeleteEnded
<1>2. OwnershipInv /\ [Next]_vars => OwnershipInv'
  BY OwnershipStep
<1> QED BY <1>1, <1>2, PTL DEF Spec

\* Between its Put and the end of its Release a run owns the lock object, as
\* long as no operator deletes the lock of a live run (Manager.Acquire,
\* Handle.Release).
THEOREM HolderOwns ==
  ASSUME "rogue" \notin Faults
  PROVE  Spec => []HolderOwnsLock
<1>1. OwnershipInv => HolderOwnsLock
  BY DEF OwnershipInv
<1> QED BY <1>1, OwnershipAlways, PTL

\* At most one run is inside withRepositoryLock's operation: two runs that own
\* the one lock object are the same run.
THEOREM Exclusion ==
  ASSUME "rogue" \notin Faults
  PROVE  Spec => []MutualExclusion
<1>1. OwnershipInv => MutualExclusion
  BY DEF OwnershipInv, HolderOwnsLock, MutualExclusion
<1> QED BY <1>1, OwnershipAlways, PTL

-----------------------------------------------------------------------------
(* What the token and the ETag together protect, when an operator deletes  *)
(* locks of live runs too, and no request outlives its run.                *)

\* A Handle with a foreign ETag means that the run's own object is gone for
\* good, so the token comparison of Release stops the run; past it the ETag is
\* the run's own.
TokenInv ==
  /\ latePut = {} /\ lateDelete = {}
  /\ \A r \in Run :
       /\ pc[r] \in {"operating", "releaseGet", "releaseDelete"} /\ etag[r] # r
            => lock # r
       /\ pc[r] = "releaseDelete" => etag[r] = r
       /\ pc[r] = "released" => lock # r

\* Every step preserves what is known of the ETag a handle was given.
LEMMA TokenStep ==
  ASSUME "delay" \notin Faults, TypeInv, TokenInv, [Next]_vars
  PROVE  TokenInv'
<1> USE Locations, RunAssumption DEF TokenInv, TypeInv, TypeOK, Objects, Goto
<1>1. ASSUME NEW r \in Run, PutHead(r)
      PROVE  TokenInv'
  BY <1>1 DEF PutHead
<1>2. ASSUME NEW r \in Run, PutObjectCreates(r)
      PROVE  TokenInv'
  BY <1>2, DelayedRun DEF PutObjectCreates
<1>3. ASSUME NEW r \in Run, PutObjectConflicts(r)
      PROVE  TokenInv'
  BY <1>3 DEF PutObjectConflicts
<1>4. ASSUME NEW r \in Run, ReadETag(r)
      PROVE  TokenInv'
  BY <1>4 DEF ReadETag
<1>5. ASSUME NEW r \in Run, ReadCurrent(r)
      PROVE  TokenInv'
  BY <1>5 DEF ReadCurrent, NextAttempt
<1>6. ASSUME NEW r \in Run, BackoffEnds(r)
      PROVE  TokenInv'
  BY <1>6 DEF BackoffEnds, NextAttempt
<1>7. ASSUME NEW r \in Run, GiveUp(r), pc[r] \in Acquiring
      PROVE  TokenInv'
  BY <1>7, DelayedRun DEF GiveUp
<1>8. ASSUME NEW r \in Run, OperationEnds(r)
      PROVE  TokenInv'
  BY <1>8 DEF OperationEnds
<1>9. ASSUME NEW r \in Run, ReleaseGet(r)
      PROVE  TokenInv'
  BY <1>9 DEF ReleaseGet
<1>10. ASSUME NEW r \in Run, ReleaseDelete(r)
       PROVE  TokenInv'
  BY <1>10 DEF ReleaseDelete
<1>11. ASSUME NEW r \in Run, ReleaseFails(r)
       PROVE  TokenInv'
  BY <1>11, DelayedRun DEF ReleaseFails
<1>12. ASSUME NEW r \in Run, Crash(r)
       PROVE  TokenInv'
  BY <1>12, DelayedRun DEF Crash
<1>13. ASSUME NEW r \in Run, LatePutArrives(r)
       PROVE  TokenInv'
  BY <1>13 DEF LatePutArrives
<1>14. ASSUME NEW r \in Run, LateDeleteArrives(r)
       PROVE  TokenInv'
  BY <1>14 DEF LateDeleteArrives
<1>15. ASSUME OperatorDeletes
       PROVE  TokenInv'
  BY <1>15 DEF OperatorDeletes
<1>16. ASSUME UNCHANGED vars
       PROVE  TokenInv'
  BY <1>16 DEF vars
<1> QED
  BY <1>1, <1>2, <1>3, <1>4, <1>5, <1>6, <1>7, <1>8, <1>9, <1>10, <1>11, <1>12,
     <1>13, <1>14, <1>15, <1>16
  DEF Next, Progress, Fault, DeadlineExpires, AcquireRequestFails, AllEnded

\* What is known of the ETag of a handle holds throughout.
LEMMA TokenAlways ==
  ASSUME "delay" \notin Faults
  PROVE  Spec => []TokenInv
<1>1. Init => TokenInv
  BY Locations DEF Init, TokenInv
<1>2. TypeInv /\ TokenInv /\ [Next]_vars => TokenInv'
  BY TokenStep
<1> QED BY <1>1, <1>2, TypeInvAlways, PTL DEF Spec

\* Handle.Release never deletes another run's lock: with arbitrary deletions by
\* hand as long as no request is delayed, and with delayed requests as long as
\* the deletions by hand spare live runs.
THEOREM DeletesOnlyOwn ==
  ASSUME "rogue" \notin Faults \/ "delay" \notin Faults
  PROVE  Spec => OnlyOwnLockDeleted
<1> DEFINE OnlyOwn ==
      \A r \in Run :
        /\ \/ pc[r] = "releaseDelete" /\ pc'[r] # pc[r]
           \/ r \in lateDelete \ lateDelete'
        /\ lock' # lock
        => lock = r
    ETags == \A r \in Run : pc[r] = "releaseDelete" \/ r \in lateDelete => etag[r] = r
<1>1. Spec => []ETags
  <2>1. CASE "rogue" \notin Faults
    <3>1. OwnershipInv => ETags
      BY DEF OwnershipInv, HolderOwnsLock
    <3> HIDE DEF ETags
    <3> QED BY <2>1, <3>1, OwnershipAlways, PTL
  <2>2. CASE "delay" \notin Faults
    <3>1. TokenInv => ETags
      BY DEF TokenInv
    <3> HIDE DEF ETags
    <3> QED BY <2>2, <3>1, TokenAlways, PTL
  <2> QED BY <2>1, <2>2
<1>2. TypeInv /\ ETags /\ [Next]_vars => [OnlyOwn]_vars
  <2> SUFFICES ASSUME TypeInv, ETags, Next PROVE OnlyOwn
    BY DEF OnlyOwn, vars
  <2> QED
    BY Locations
    DEF TypeInv, TypeOK, Next, Progress, Fault, PutHead, PutObjectCreates,
        PutObjectConflicts, ReadETag, ReadCurrent, NextAttempt, BackoffEnds,
        DeadlineExpires, AcquireRequestFails, GiveUp, OperationEnds, ReleaseGet,
        ReleaseDelete, ReleaseFails, Crash, LatePutArrives, LateDeleteArrives,
        OperatorDeletes, AllEnded, vars, Goto
<1>3. Spec => [][OnlyOwn]_vars
  <2> HIDE DEF ETags, OnlyOwn
  <2> QED BY <1>1, <1>2, TypeInvAlways, PTL DEF Spec
<1> QED BY <1>3 DEF OnlyOwnLockDeleted

\* A run that reports a release has no lock in the store, whatever failed, was
\* repeated or was deleted by hand, as long as no request is delayed.
THEOREM ReleasedMeansReleased ==
  ASSUME "delay" \notin Faults
  PROVE  Spec => []ReleasedLeavesNoLock
<1>1. TokenInv => ReleasedLeavesNoLock
  BY DEF TokenInv, ReleasedLeavesNoLock
<1> QED BY <1>1, TokenAlways, PTL

-----------------------------------------------------------------------------
(* RepoLock implements LockSpec.                                           *)

\* The phase of each location.
LEMMA Phases ==
  /\ \A l \in {"readETag", "operating", "releaseGet", "releaseDelete"} : PhaseOf(l) = "inside"
  /\ \A l \in {"putHead", "putObject", "readCurrent", "waiting"} : PhaseOf(l) = "outside"
  /\ \A l \in Ended : PhaseOf(l) = "gone"
BY Locations DEF PhaseOf

\* A step of one run changes the phase of that run only.
LEMMA PhaseMoves ==
  ASSUME TypeOK, NEW r \in Run, NEW label, Goto(r, label)
  PROVE  /\ phaseBar' = [phaseBar EXCEPT ![r] = PhaseOf(label)]
         /\ PhaseOf(label) = phaseBar[r] => phaseBar' = phaseBar
BY DEF phaseBar, TypeOK, Goto

\* The phase read through the mapping is that of the location.
LEMMA PhaseAt ==
  ASSUME NEW r \in Run
  PROVE  phaseBar[r] = PhaseOf(pc[r])
BY DEF phaseBar

\* A step that keeps the lock and moves a run within its phase is a stutter.
LEMMA SamePhaseStutters ==
  ASSUME TypeOK, NEW r \in Run, NEW label, Goto(r, label), UNCHANGED lock,
         PhaseOf(label) = PhaseOf(pc[r])
  PROVE  UNCHANGED Promise!vars
BY PhaseMoves, PhaseAt DEF Promise!vars

\* A run that leaves the acquisition without the lock gives up.
LEMMA OutsideEnds ==
  ASSUME TypeOK, NEW r \in Run, NEW label \in Ended, Goto(r, label), UNCHANGED lock,
         pc[r] \in {"putHead", "putObject", "readCurrent", "waiting"}
  PROVE  Promise!Next
<1>1. Promise!GiveUp(r)
  BY Phases, PhaseMoves, PhaseAt DEF Promise!GiveUp
<1> QED BY <1>1 DEF Promise!Next

\* A run that holds the lock and ends leaves, with its lock removed or not.
LEMMA InsideEnds ==
  ASSUME TypeOK, NEW r \in Run, NEW label \in Ended, Goto(r, label),
         pc[r] \in {"readETag", "operating", "releaseGet", "releaseDelete"},
         lock = r, lock' \in {NoLock, lock}
  PROVE  Promise!Next
<1>1. Promise!Leave(r)
  BY Phases, PhaseMoves, PhaseAt DEF Promise!Leave
<1> QED BY <1>1 DEF Promise!Next

\* The lock of a run that has ended, or of a foreign client, goes.
LEMMA RemovalStep ==
  ASSUME TypeOK, lock # NoLock, lock \in Run => pc[lock] \in Ended,
         lock' = NoLock, UNCHANGED pc
  PROVE  Promise!Next
<1>1. UNCHANGED phaseBar
  BY DEF phaseBar
<1>2. Promise!Remove
  BY <1>1, Phases, PhaseAt DEF Promise!Remove
<1> QED BY <1>2 DEF Promise!Next

\* A PutObject is applied: the run gets in, stays outside, or has given up.
LEMMA ClaimStep ==
  ASSUME TypeOK, NEW r \in Run, lock = NoLock, lock' = r,
         PhaseOf(pc[r]) # "inside",
         \/ UNCHANGED pc
         \/ PhaseOf(pc[r]) = "outside" /\ \E label \in Live \cup Ended : Goto(r, label)
  PROVE  Promise!Next
<1>1. CASE UNCHANGED pc
  <2>1. UNCHANGED phaseBar
    BY <1>1 DEF phaseBar
  <2>2. Promise!Claim(r)
    BY <2>1, PhaseAt DEF Promise!Claim
  <2> QED BY <2>2 DEF Promise!Next
<1>2. ASSUME NEW label \in Live \cup Ended, Goto(r, label), PhaseOf(pc[r]) = "outside"
      PROVE  Promise!Next
  <2>1. PhaseOf(label) \in {"inside", "outside", "gone"}
    BY DEF PhaseOf
  <2>2. Promise!Claim(r)
    BY <1>2, <2>1, PhaseMoves, PhaseAt DEF Promise!Claim
  <2> QED BY <2>2 DEF Promise!Next
<1> QED BY <1>1, <1>2

\* Every step of RepoLock is a step of LockSpec, or changes neither the cell
\* nor a phase.
LEMMA StepImplements ==
  ASSUME OwnershipInv, [Next]_vars, "rogue" \notin Faults
  PROVE  [Promise!Next]_(Promise!vars)
<1>0. TypeOK /\ HolderOwnsLock /\ LateDeleteEnded
  BY DEF OwnershipInv, TypeInv
<1> USE <1>0
<1>1. ASSUME NEW r \in Run, PutHead(r)
      PROVE  [Promise!Next]_(Promise!vars)
  <2>1. CASE lock = r /\ lock # NoLock
    <3>1. Goto(r, "readETag") /\ UNCHANGED lock /\ pc[r] = "putHead"
      BY <1>1, <2>1 DEF PutHead
    <3>2. Promise!Enter(r)
      BY <2>1, <3>1, Phases, PhaseMoves, PhaseAt DEF Promise!Enter
    <3> QED BY <3>2 DEF Promise!Next
  <2>2. CASE ~(lock = r /\ lock # NoLock)
    <3>1. PICK label \in {"putObject", "readCurrent"} :
            Goto(r, label) /\ UNCHANGED lock /\ pc[r] = "putHead"
      BY <1>1, <2>2 DEF PutHead
    <3> QED BY <3>1, Phases, SamePhaseStutters
  <2> QED BY <2>1, <2>2
<1>2. ASSUME NEW r \in Run, PutObjectCreates(r)
      PROVE  [Promise!Next]_(Promise!vars)
  <2>1. PICK label \in Live : Goto(r, label)
    BY <1>2, Locations DEF PutObjectCreates
  <2>2. lock = NoLock /\ lock' = r /\ PhaseOf(pc[r]) = "outside"
    BY <1>2, Phases DEF PutObjectCreates
  <2> QED BY <2>1, <2>2, ClaimStep
<1>3. ASSUME NEW r \in Run, PutObjectConflicts(r)
      PROVE  [Promise!Next]_(Promise!vars)
  BY <1>3, Phases, SamePhaseStutters DEF PutObjectConflicts
<1>4. ASSUME NEW r \in Run, ReadETag(r)
      PROVE  [Promise!Next]_(Promise!vars)
  <2>1. lock = r
    BY <1>4 DEF ReadETag, HolderOwnsLock
  <2>2. Goto(r, "operating") /\ UNCHANGED lock /\ pc[r] = "readETag"
    BY <1>4, <2>1, RunAssumption DEF ReadETag
  <2> QED BY <2>2, Phases, SamePhaseStutters
<1>5. ASSUME NEW r \in Run, ReadCurrent(r)
      PROVE  [Promise!Next]_(Promise!vars)
  <2>1. CASE Goto(r, "failed")
    BY <1>5, <2>1, OutsideEnds, Locations DEF ReadCurrent
  <2>2. CASE Goto(r, "putHead") \/ Goto(r, "waiting")
    BY <1>5, <2>2, Phases, SamePhaseStutters DEF ReadCurrent
  <2> QED BY <1>5, <2>1, <2>2 DEF ReadCurrent, NextAttempt
<1>6. ASSUME NEW r \in Run, BackoffEnds(r)
      PROVE  [Promise!Next]_(Promise!vars)
  BY <1>6, Phases, SamePhaseStutters DEF BackoffEnds, NextAttempt
<1>7. ASSUME NEW r \in Run, GiveUp(r), pc[r] \in Acquiring
      PROVE  [Promise!Next]_(Promise!vars)
  <2>1. CASE UNCHANGED lock /\ pc[r] = "readETag"
    BY <1>7, <2>1, InsideEnds, Locations DEF GiveUp, HolderOwnsLock
  <2>2. CASE UNCHANGED lock /\ pc[r] # "readETag"
    BY <1>7, <2>2, OutsideEnds, Locations DEF GiveUp
  <2>3. CASE pc[r] = "putObject" /\ lock = NoLock /\ lock' = r
    BY <1>7, <2>3, ClaimStep, Phases, Locations DEF GiveUp
  <2> QED BY <1>7, <2>1, <2>2, <2>3 DEF GiveUp
<1>8. ASSUME NEW r \in Run, OperationEnds(r)
      PROVE  [Promise!Next]_(Promise!vars)
  BY <1>8, Phases, SamePhaseStutters DEF OperationEnds
<1>9. ASSUME NEW r \in Run, ReleaseGet(r)
      PROVE  [Promise!Next]_(Promise!vars)
  <2>1. Goto(r, "releaseDelete") /\ UNCHANGED lock /\ pc[r] = "releaseGet"
    BY <1>9, RunAssumption DEF ReleaseGet, HolderOwnsLock
  <2> QED BY <2>1, Phases, SamePhaseStutters
<1>10. ASSUME NEW r \in Run, ReleaseDelete(r)
       PROVE  [Promise!Next]_(Promise!vars)
  BY <1>10, InsideEnds, Locations DEF ReleaseDelete, HolderOwnsLock
<1>11. ASSUME NEW r \in Run, ReleaseFails(r)
       PROVE  [Promise!Next]_(Promise!vars)
  BY <1>11, InsideEnds, Locations DEF ReleaseFails, HolderOwnsLock
<1>12. ASSUME NEW r \in Run, Crash(r)
       PROVE  [Promise!Next]_(Promise!vars)
  <2>1. CASE pc[r] \in {"readETag", "operating", "releaseGet", "releaseDelete"}
    BY <1>12, <2>1, InsideEnds, Locations DEF Crash, HolderOwnsLock
  <2>2. CASE pc[r] \in {"putHead", "putObject", "readCurrent", "waiting"}
    BY <1>12, <2>2, OutsideEnds, Locations DEF Crash
  <2> QED BY <1>12, <2>1, <2>2, Locations DEF Crash
<1>13. ASSUME NEW r \in Run, LatePutArrives(r)
       PROVE  [Promise!Next]_(Promise!vars)
  <2>1. CASE lock = NoLock
    <3>1. PhaseOf(pc[r]) # "inside"
      BY <2>1, Locations, RunAssumption DEF HolderOwnsLock, PhaseOf
    <3> QED BY <1>13, <2>1, <3>1, ClaimStep DEF LatePutArrives
  <2>2. CASE lock # NoLock
    <3>1. UNCHANGED phaseBar
      BY <1>13 DEF LatePutArrives, phaseBar
    <3> QED BY <1>13, <2>2, <3>1 DEF LatePutArrives, Promise!vars
  <2> QED BY <2>1, <2>2
<1>14. ASSUME NEW r \in Run, LateDeleteArrives(r)
       PROVE  [Promise!Next]_(Promise!vars)
  <2>1. CASE lock = etag[r]
    <3>1. lock = r /\ pc[r] \in Ended
      BY <1>14, <2>1 DEF LateDeleteArrives, HolderOwnsLock, LateDeleteEnded
    <3> QED BY <1>14, <2>1, <3>1, RemovalStep, RunAssumption DEF LateDeleteArrives
  <2>2. CASE lock # etag[r]
    <3>1. UNCHANGED phaseBar
      BY <1>14 DEF LateDeleteArrives, phaseBar
    <3> QED BY <1>14, <2>2, <3>1 DEF LateDeleteArrives, Promise!vars
  <2> QED BY <2>1, <2>2
<1>15. ASSUME OperatorDeletes
       PROVE  [Promise!Next]_(Promise!vars)
  BY <1>15, RemovalStep DEF OperatorDeletes
<1>16. ASSUME UNCHANGED vars
       PROVE  [Promise!Next]_(Promise!vars)
  BY <1>16 DEF vars, Promise!vars, phaseBar
<1> QED
  BY <1>1, <1>2, <1>3, <1>4, <1>5, <1>6, <1>7, <1>8, <1>9, <1>10, <1>11, <1>12,
     <1>13, <1>14, <1>15, <1>16, Locations
  DEF Next, Progress, Fault, DeadlineExpires, AcquireRequestFails, AllEnded

\* The requests of Manager.Acquire and Handle.Release implement the promise of
\* the lock, as long as deletions by hand spare live runs.
THEOREM Implementation ==
  ASSUME "rogue" \notin Faults
  PROVE  Spec => ImplementsLockSpec
<1>1. Init => Promise!Init
  BY Phases, Locations DEF Init, Promise!Init, phaseBar
<1>2. OwnershipInv /\ [Next]_vars => [Promise!Next]_(Promise!vars)
  BY StepImplements
<1> QED
  BY <1>1, <1>2, OwnershipAlways, PTL DEF Spec, ImplementsLockSpec, Promise!Spec
=============================================================================

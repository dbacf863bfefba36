-------------------------- MODULE S3ObjectProofs --------------------------
(***************************************************************************)
(* S3Store.Put, a Head and a PutObject, and the deletions implement the    *)
(* atomic calls of ObjectStore, for any number of callers.                 *)
(***************************************************************************)
EXTENDS S3Object, TLAPS

\* The types hold initially.
LEMMA TypeInit == Init => TypeOK
  BY DEF Init, TypeOK, Promise!Init, Promise!Results

\* Every step preserves the types.
LEMMA TypeStep == TypeOK /\ [Next]_vars => TypeOK'
<1> SUFFICES ASSUME TypeOK, [Next]_vars
             PROVE  TypeOK'
  OBVIOUS
<1> USE S3CallsAssumption DEF TypeOK, Goto, Ends, IsPut, Promise!Results
<1>1. ASSUME NEW c \in Caller, Invoke(c)
      PROVE  TypeOK'
  BY <1>1 DEF Invoke
<1>2. ASSUME NEW c \in Caller, PutHead(c)
      PROVE  TypeOK'
  BY <1>2 DEF PutHead
<1>3. ASSUME NEW c \in Caller, PutObject(c)
      PROVE  TypeOK'
  BY <1>3 DEF PutObject
<1>4. ASSUME NEW c \in Caller, DeleteObject(c)
      PROVE  TypeOK'
  BY <1>4 DEF DeleteObject
<1>5. ASSUME NEW c \in Caller, Refused(c)
      PROVE  TypeOK'
  BY <1>5 DEF Refused
<1>6. ASSUME NEW c \in Caller, Fails(c)
      PROVE  TypeOK'
  BY <1>6 DEF Fails
<1>7. CASE LateRequest
  BY <1>7 DEF LateRequest, Promise!LateEffect, Promise!After
<1>8. CASE UNCHANGED vars
  BY <1>8 DEF vars
<1> QED
  BY <1>1, <1>2, <1>3, <1>4, <1>5, <1>6, <1>7, <1>8 DEF Next

\* Type correctness: a call is pending exactly while it has a request to send,
\* and only Put begins with a Head (S3Store.Put, Delete, DeleteIfMatch).
THEOREM TypeCorrect == Spec => []TypeOK
  BY TypeInit, TypeStep, PTL DEF Spec

-----------------------------------------------------------------------------
(* The implementation.                                                     *)

\* The Head of a Put ends the call as the atomic call would, or does nothing.
LEMMA HeadStep ==
  ASSUME TypeOK, NEW c \in Caller, PutHead(c)
  PROVE  Promise!Apply(c) \/ UNCHANGED Promise!objectVars
<1> USE S3NoObjectAssumption, S3CallsAssumption
    DEF TypeOK, PutHead, Ends, IsConditional, Promise!Apply, Promise!Returns,
        Promise!After, Promise!ResultOf, Promise!objectVars
<1>1. CASE object = call[c].content
  BY <1>1
<1>2. CASE object \notin {NoObject, call[c].content} /\ IsConditional(c) /\ Ends(c, "conflict")
  BY <1>2 DEF Promise!Puts
<1>3. CASE Goto(c, "request") /\ UNCHANGED result
  BY <1>3
<1> QED
  BY <1>1, <1>2, <1>3

\* A PutObject that is applied has the effect of the atomic call, whether or not
\* its answer arrives; one that is refused changes nothing.
LEMMA PutStep ==
  ASSUME TypeOK, NEW c \in Caller, PutObject(c)
  PROVE  Promise!Apply(c) \/ Promise!AnswerLost(c) \/ Promise!SpuriousConflict(c)
<1> USE DEF TypeOK, PutObject, IsPut, Promise!Returns, Goto
<1>1. CASE Precondition(c) /\ object' = call[c].content
  <2>1. /\ object' = Promise!After(object, call[c])
        /\ Promise!ResultOf(object, call[c]) = "ok"
    BY <1>1 DEF Precondition, IfNoneMatch, IsConditional, Promise!After, Promise!ResultOf
  <2> QED
    BY <1>1, <2>1 DEF Ends, Promise!Apply, Promise!AnswerLost
<1>2. CASE ~Precondition(c) /\ Ends(c, "conflict") /\ UNCHANGED object
  BY <1>2 DEF Precondition, IfNoneMatch, IsConditional, Ends, Promise!SpuriousConflict
<1> QED
  BY <1>1, <1>2

\* A deletion is one request.
LEMMA DeleteStep ==
  ASSUME TypeOK, NEW c \in Caller, DeleteObject(c)
  PROVE  Promise!Apply(c) \/ Promise!AnswerLost(c)
<1> USE DEF TypeOK, DeleteObject, IsPut, Ends, Promise!Apply, Promise!AnswerLost,
            Promise!Returns, Promise!After, Promise!ResultOf
<1>1. CASE object' = NoObject
  BY <1>1
<1>2. CASE Ends(c, IF object = NoObject THEN "notFound" ELSE "conflict") /\ UNCHANGED object
  BY <1>2
<1> QED
  BY <1>1, <1>2

\* Every step of S3Object is a step of ObjectStore or changes none of its
\* variables.
LEMMA StepImplements ==
  ASSUME TypeOK, [Next]_vars
  PROVE  [Promise!Next]_(Promise!objectVars)
<1>1. ASSUME NEW c \in Caller, Invoke(c)
      PROVE  Promise!Invoke(c)
  BY <1>1 DEF Invoke, TypeOK, Promise!Invoke, Promise!Returns
<1>2. ASSUME NEW c \in Caller, Refused(c)
      PROVE  Promise!SpuriousConflict(c)
  BY <1>2 DEF Refused, TypeOK, IfNoneMatch, IsConditional, Ends,
              Promise!SpuriousConflict, Promise!Returns
<1>3. ASSUME NEW c \in Caller, Fails(c)
      PROVE  Promise!Abandon(c)
  BY <1>3 DEF Fails, TypeOK, Ends, Promise!Abandon, Promise!Returns
<1>4. CASE LateRequest
  BY <1>4 DEF LateRequest, Promise!Next
<1>5. CASE UNCHANGED vars
  BY <1>5 DEF vars, Promise!objectVars
<1> QED
  BY <1>1, <1>2, <1>3, <1>4, <1>5, HeadStep, PutStep, DeleteStep DEF Next, Promise!Next

\* The Head and the conditional PutObject of S3Store.Put, with the deletions, act
\* as the atomic operations of MemoryStore, up to the conflicts, repetitions and
\* late effects that ObjectStore names.
THEOREM Implementation == Spec => ImplementsObjectStore
<1>1. Init => Promise!Init
  BY DEF Init
<1>2. TypeOK /\ [Next]_vars => [Promise!Next]_(Promise!objectVars)
  BY StepImplements
<1> QED
  BY <1>1, <1>2, TypeCorrect, PTL DEF Spec, ImplementsObjectStore, Promise!Spec
=============================================================================

------------------------------ MODULE S3Object ------------------------------
(***************************************************************************)
(* S3Store on one key, request by request.  Put asks for the object's      *)
(* digest with a Head before it sends the PutObject, and between the two   *)
(* requests of a call the others act; a deletion is one request.           *)
(***************************************************************************)
EXTENDS Integers, FiniteSets

CONSTANTS
  Caller, Content, NoObject, Calls,
  Faults,  \* what may go wrong, a subset of FaultKinds
  MaxLost  \* bound: different requests under way after their calls gave up

FaultKinds ==
  { "retry",        \* the answer to a request is lost and the SDK repeats it
    "conflict409",  \* a conditional request is refused because of a concurrent one
    "error" }       \* a request fails; it was applied, is applied later, or never

VARIABLES object, call, result, lost,
          pc  \* the request each caller has to send

vars == <<object, call, result, lost, pc>>

Promise == INSTANCE ObjectStore

ASSUME FaultsAssumption == Faults \subseteq FaultKinds /\ MaxLost \in Nat
ASSUME S3CallsAssumption == Calls \subseteq [op : Promise!Ops, content : Content]
ASSUME S3NoObjectAssumption == NoObject \notin Content

\* A call is pending exactly while it has a request to send, and only Put begins
\* with a Head.
TypeOK ==
  /\ object \in Content \cup {NoObject}
  /\ call \in [Caller -> Calls]
  /\ result \in [Caller -> Promise!Results \cup {"pending"}]
  /\ lost \subseteq Calls
  /\ pc \in [Caller -> {"idle", "head", "request"}]
  /\ \A c \in Caller :
       /\ result[c] = "pending" <=> pc[c] # "idle"
       /\ pc[c] = "head" => call[c].op \in Promise!Puts

Init == Promise!Init /\ pc = [c \in Caller |-> "idle"]

Goto(c, label) == pc' = [pc EXCEPT ![c] = label]

\* The call returns r.
Ends(c, r) == result' = [result EXCEPT ![c] = r] /\ Goto(c, "idle")

IsPut(c) == call[c].op \in Promise!Puts
IsConditional(c) == call[c].op \in Promise!Conditional

InvokeWithHead(c) ==  \* mutant
  /\ pc[c] = "idle"
  /\ \E q \in Calls : call' = [call EXCEPT ![c] = q]
  /\ Goto(c, "head")
  /\ result' = [result EXCEPT ![c] = "pending"]
  /\ UNCHANGED <<object, lost>>
Invoke(c) ==
  /\ pc[c] = "idle"
  /\ \E q \in Calls :
       /\ call' = [call EXCEPT ![c] = q]
       /\ Goto(c, IF q.op \in Promise!Puts THEN "head" ELSE "request")
  /\ result' = [result EXCEPT ![c] = "pending"]
  /\ UNCHANGED <<object, lost>>

\* The Head of Put: the same digest ends the call, and so does any object if the
\* call is conditional.
PutHead(c) ==
  /\ pc[c] = "head"
  /\ \/ object = call[c].content /\ Ends(c, "ok")
     \/ object \notin {NoObject, call[c].content} /\ IsConditional(c) /\ Ends(c, "conflict")
     \/ /\ object # call[c].content
        /\ object = NoObject \/ ~IsConditional(c)
        /\ Goto(c, "request") /\ UNCHANGED result
  /\ UNCHANGED <<object, call, lost>>

\* PutObject is sent with If-None-Match: * if the call is CreateOnly, or if it
\* is FailIfExists and the Head found nothing.
HeaderOfCreateOnly(c) == call[c].op = "createOnly"  \* mutant
IfNoneMatch(c) == IsConditional(c)
Precondition(c) == IfNoneMatch(c) => object = NoObject

PutObject(c) ==
  /\ pc[c] = "request" /\ IsPut(c)
  /\ \/ /\ Precondition(c)
        /\ object' = call[c].content
        /\ \/ Ends(c, "ok")
           \/ "retry" \in Faults /\ UNCHANGED <<result, pc>>
     \/ ~Precondition(c) /\ Ends(c, "conflict") /\ UNCHANGED object
  /\ UNCHANGED <<call, lost>>

\* Delete asks for no particular object and succeeds without one; DeleteIfMatch
\* sends If-Match.
DeleteObject(c) ==
  /\ pc[c] = "request" /\ ~IsPut(c)
  /\ \/ /\ call[c].op = "delete" \/ object = call[c].content
        /\ object' = NoObject
        /\ \/ Ends(c, "ok")
           \/ "retry" \in Faults /\ UNCHANGED <<result, pc>>
     \/ /\ call[c].op = "deleteIfMatch" /\ object # call[c].content
        /\ Ends(c, IF object = NoObject THEN "notFound" ELSE "conflict")
        /\ UNCHANGED object
  /\ UNCHANGED <<call, lost>>

Refused(c) ==
  /\ "conflict409" \in Faults
  /\ pc[c] = "request"
  /\ IfNoneMatch(c) \/ call[c].op = "deleteIfMatch"
  /\ Ends(c, "conflict")
  /\ UNCHANGED <<object, call, lost>>

\* The call gives up with an error; the request it has sent may still arrive.
Fails(c) ==
  /\ "error" \in Faults
  /\ pc[c] # "idle"
  /\ Ends(c, "error")
  /\ \/ UNCHANGED lost
     \/ pc[c] = "request" /\ Cardinality(lost) < MaxLost /\ lost' = lost \cup {call[c]}
  /\ UNCHANGED <<object, call>>

LateRequest == Promise!LateEffect /\ UNCHANGED pc

Next ==
  \/ \E c \in Caller : Invoke(c) \/ PutHead(c) \/ PutObject(c) \/ DeleteObject(c)
                       \/ Refused(c) \/ Fails(c)
  \/ LateRequest

Spec == Init /\ [][Next]_vars

-----------------------------------------------------------------------------
(* Properties.                                                             *)

\* The Head and the conditional PutObject of S3Store.Put act as one operation of
\* MemoryStore, however the requests of several callers interleave, but for the
\* conflicts, repetitions and late effects that ObjectStore names.
ImplementsObjectStore == Promise!Spec
=============================================================================

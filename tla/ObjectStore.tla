---------------------------- MODULE ObjectStore ----------------------------
(***************************************************************************)
(* What internal/storage promises of one key: every call takes effect at   *)
(* one moment between its start and its end, by the rules of MemoryStore,  *)
(* which holds a mutex.  To these rules a network adds what a caller must  *)
(* reckon with: a conflict with its own content, an effect whose answer is *)
(* lost and that is repeated, and an error after which the effect has      *)
(* happened, will happen later, or never will.                             *)
(*                                                                         *)
(* An object is its content; its MD5 and its ETag stand for nothing else.  *)
(***************************************************************************)

CONSTANTS
  Caller,
  Content,
  NoObject,  \* no object has the key
  Calls      \* the calls that are made: [op, content]

\* CreateOnly and FailIfExists of PutOptions.
Conditional == {"createOnly", "failIfExists"}
Puts == {"put"} \cup Conditional
Ops == Puts \cup {"delete", "deleteIfMatch"}
Results == {"ok", "conflict", "notFound", "error"}

VARIABLES
  object,  \* the content of the object, or NoObject
  call,    \* the call each caller makes, or made last
  result,  \* its result; "pending" while it runs
  lost     \* the calls whose effect may still come after their error

objectVars == <<object, call, result, lost>>

Init ==
  /\ object \in Content \cup {NoObject}
  /\ call \in [Caller -> Calls]
  /\ result = [c \in Caller |-> "error"]
  /\ lost = {}

\* The object after a call that finds o, and the result of the call.
After(o, q) ==
  IF q.op \in Puts
  THEN IF q.op \in Conditional /\ o # NoObject THEN o ELSE q.content
  ELSE IF q.op = "delete" \/ o = q.content THEN NoObject ELSE o

ResultOf(o, q) ==
  IF q.op \in Puts
  THEN IF q.op \in Conditional /\ o \notin {NoObject, q.content} THEN "conflict" ELSE "ok"
  ELSE IF q.op = "delete" \/ o = q.content THEN "ok"
  ELSE IF o = NoObject THEN "notFound" ELSE "conflict"

Returns(c, r) == result' = [result EXCEPT ![c] = r]

Invoke(c) ==
  /\ result[c] # "pending"
  /\ \E q \in Calls : call' = [call EXCEPT ![c] = q]
  /\ Returns(c, "pending")
  /\ UNCHANGED <<object, lost>>

\* The call takes effect and returns.
Apply(c) ==
  /\ result[c] = "pending"
  /\ object' = After(object, call[c])
  /\ Returns(c, ResultOf(object, call[c]))
  /\ UNCHANGED <<call, lost>>

\* The call takes effect; it goes on, for the answer is lost.
AnswerLost(c) ==
  /\ result[c] = "pending"
  /\ object' = After(object, call[c])
  /\ UNCHANGED <<call, result, lost>>

\* A conditional call returns a conflict that its content does not justify.
SpuriousConflict(c) ==
  /\ result[c] = "pending"
  /\ call[c].op \in Conditional \cup {"deleteIfMatch"}
  /\ Returns(c, "conflict")
  /\ UNCHANGED <<object, call, lost>>

Abandon(c) ==
  /\ result[c] = "pending"
  /\ Returns(c, "error")
  /\ lost' \in {lost, lost \cup {call[c]}}
  /\ UNCHANGED <<object, call>>

LateEffect ==
  \E q \in lost :
    /\ object' = After(object, q)
    /\ lost' = lost \ {q}
    /\ UNCHANGED <<call, result>>

Next ==
  \/ \E c \in Caller : Invoke(c) \/ Apply(c) \/ AnswerLost(c) \/ SpuriousConflict(c) \/ Abandon(c)
  \/ LateEffect

Spec == Init /\ [][Next]_objectVars
=============================================================================

----------------------------- MODULE MCS3Object -----------------------------
(* S3Object on small instances. *)
EXTENDS S3Object, TLC

CONSTANTS c1, c2, c3, x, y

AllCalls ==
  [op : {"put", "createOnly", "failIfExists", "delete", "deleteIfMatch"}, content : Content]

\* Callers differ in their calls only, contents in their bytes only.
Symmetry == Permutations(Caller) \cup Permutations(Content)
=============================================================================

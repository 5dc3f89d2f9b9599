--------------------------- MODULE TypeValidator ---------------------------
(***************************************************************************)
(* Whether a value fits a type (typeValidator.mjs): what ProblemAuthoring  *)
(* takes as a parameter.                                                   *)
(***************************************************************************)
EXTENDS ProblemAuthoring

RECURSIVE fits(_, _)
fits(v, t) ==
    LET all(items) == \A x \in items : fits(x, Tail(t))
    IN  CASE Head(t) \in {"number", "string", "boolean"} -> v[1] = Head(t)
          [] Head(t) = "void" -> v \in {Null, String("")}
          [] Head(t) \in {"array", "linkedlist"} -> v[1] = "array" /\ all(Range(v[2]))
          [] Head(t) = "tree" -> v[1] = "array" /\ all(Range(v[2]) \ {Null})
          [] Head(t) \in {"matrix", "graph"} ->
                /\ v[1] = "array"
                /\ \A row \in Range(v[2]) : row[1] = "array" /\ all(Range(row[2]))
=============================================================================

-------------------------- MODULE MCServiceRegistry --------------------------
(* Two processes that may overlap and may have the same instance id, and a *)
(* third one, of another instance, that runs before, between or after.     *)
EXTENDS ServiceRegistry
CONSTANTS p1, p2, p3, a, b, c, x
MCProcs == {p1, p2, p3}
MCInstances == {a, b, c}
MCInstanceIds == [p \in MCProcs |-> CASE p = p1 -> {a} [] p = p2 -> {a, b}
                                      [] OTHER -> {c}]
MCOverlap == [p \in MCProcs |-> IF p = p3 THEN {} ELSE {p1, p2} \ {p}]
MCSubscribed == [p \in MCProcs |-> {x}]
MCStatic == [p \in MCProcs |-> IF p = p2 THEN {} ELSE {x}]
=============================================================================

--------------------------- MODULE MCTaskExecution ---------------------------
(***************************************************************************)
(* Instances of TaskExecution for TLC: b requires a; any other task is     *)
(* independent.                                                            *)
(***************************************************************************)
EXTENDS TaskExecution, TLC

CONSTANTS a, b, c, w1, w2

MCRequires == [t \in Tasks |-> IF t = b THEN {a} ELSE {}]

\* Two workflows whose tasks overlap (w2 executes a, which w1 needs) or do not.
OverlappingOperations ==
  {<<w1, "execute", b>>, <<w2, "execute", a>>, <<w2, "dispatch", c>>}

\* One workflow, of either kind.
SingleOperations == {<<w1, "execute", b>>, <<w1, "dispatch", a>>}

RequestSymmetry == Permutations(Requests)
\* The daemon does not crash beside the workflow of the task another one needs.
CrashesApart ==
  crashes > 0 => \A w \in Workflows : workflow[w].state # "absent" => workflow[w].target # a
=============================================================================

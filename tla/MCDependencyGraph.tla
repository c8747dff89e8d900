------------------------- MODULE MCDependencyGraph -------------------------
(***************************************************************************)
(* Instances of DependencyGraph: the kernel and two modules.               *)
(***************************************************************************)
EXTENDS DependencyGraph

CONSTANTS kernel, a, b

F(n, k) == [name |-> n, kernel |-> k]

\* Files of which some mention the kernel; names listed twice, with files that agree
\* and that do not; a list without the kernel.
MCFileLists == {
  <<F(kernel, FALSE), F(a, TRUE), F(b, FALSE)>>,
  <<F(a, TRUE), F(kernel, FALSE), F(a, TRUE), F(b, TRUE)>>,
  <<F(a, TRUE), F(b, FALSE)>>,
  <<F(b, FALSE), F(a, TRUE), F(kernel, FALSE), F(b, TRUE), F(a, FALSE)>>,
  <<F(kernel, TRUE), F(a, TRUE)>> }
============================================================================

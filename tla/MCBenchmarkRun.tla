--------------------------- MODULE MCBenchmarkRun ---------------------------
(* Two turns of a policy that may repeat a key, ask for more than a        *)
(* decision may hold, assess or do nothing.                                *)
EXTENDS BenchmarkRun

CONSTANTS k1, k2

MCDecisions ==
  { [commands |-> <<k1, k2>>, assessments |-> <<>>],
    [commands |-> <<k2>>, assessments |-> <<>>],
    [commands |-> <<>>, assessments |-> <<k1>>] }
=============================================================================

---------------------------- MODULE MCTelemetry ----------------------------
(***************************************************************************)
(* An instance of Telemetry: invocations, codes, tokens and runs are       *)
(* interchangeable.                                                        *)
(***************************************************************************)
EXTENDS Telemetry, TLC

CONSTANTS a, b, q1, q2, q3, c1, c2, t1, t2, r1, r2

Symmetry ==
  Permutations({q1, q2, q3}) \cup Permutations({c1, c2}) \cup Permutations({t1, t2}) \cup Permutations({r1, r2})

=============================================================================

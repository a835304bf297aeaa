----------------------------- MODULE MCRunStore -----------------------------
(* Instances of RunStore for TLC. *)
EXTENDS RunStore, TLC

Symmetry == Permutations(RunId)

Single == \A r, s \in RunId : Exists(mem[r]) /\ Exists(mem[s]) => r = s

\* One Run is executed; the others are there to be retries of an interrupted one,
\* and then one write fails at most.
OneOriginalRun ==
    /\ \A r, s \in RunId : HasClaim(mem[r]) /\ HasClaim(mem[s]) => r = s
    /\ \/ Single
       \/ faults <= 1 /\ \E r \in RunId : Status(mem[r]) = "interrupted"
=============================================================================

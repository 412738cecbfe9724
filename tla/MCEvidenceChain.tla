-------------------------- MODULE MCEvidenceChain --------------------------
(***************************************************************************)
(* Two runs of two agents share the store of bundles; the administrator's  *)
(* directory may hold a lax bundle that passes every artifact.             *)
(***************************************************************************)
EXTENDS EvidenceChain, TLC

CONSTANTS pinned, lax, good, bad, r1, r2

MCVerdict == [b \in {pinned, lax} |-> [a \in {good, bad} |->
                 IF b = pinned /\ a = bad THEN "FAIL" ELSE "PASS"]]

\* The runs differ by name only.
Symmetry == Permutations(Run)
=============================================================================

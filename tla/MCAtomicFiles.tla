----------------------------- MODULE MCAtomicFiles -----------------------------
(* Instances of AtomicFiles for TLC.                                       *)
EXTENDS AtomicFiles

CONSTANTS c1, c2, artifact, bundle

MCCalls == {c1, c2}
MCPaths == {artifact, bundle}

(* A bundle, and a plan that names a destination twice.                    *)
MCPlans == {<<artifact, bundle>>, <<artifact, artifact>>}
=============================================================================

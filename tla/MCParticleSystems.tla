-------------------------- MODULE MCParticleSystems --------------------------
(* A template with a slave of lower priority, and one that is always          *)
(* rendered; one particle is the limit, so that with two of them another       *)
(* forces one out.                                                            *)
EXTENDS ParticleSystems, TLC

CONSTANTS leader, follower, always

MCTemplates == {leader, follower, always}
MCPriority == (leader :> 1) @@ (follower :> 0) @@ (always :> 2)
MCSlaveTemplate == (leader :> follower) @@ (follower :> NoTemplate) @@ (always :> NoTemplate)

Symmetry == Permutations(Systems) \cup Permutations(Particles)
=============================================================================

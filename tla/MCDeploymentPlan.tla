-------------------------- MODULE MCDeploymentPlan --------------------------
(* DeploymentPlan on small instances. *)
EXTENDS DeploymentPlan, TLC

CONSTANTS site, room, rack, device

Slots == Permutations(Executors) \cup Permutations(Rollbackers)

\* A rack of a site, with a device in it.
OneRack ==
    site :> [type |-> "site", inside |-> {}]
    @@ rack :> [type |-> "rack", inside |-> {site}]
    @@ device :> [type |-> "device", inside |-> {rack, site}]

\* A room that is filled by the stamps.
EmptyRoom ==
    site :> [type |-> "site", inside |-> {}]
    @@ room :> [type |-> "location", inside |-> {site}]
=============================================================================

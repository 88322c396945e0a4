----------------------------- MODULE MCRegistry -----------------------------
(***************************************************************************)
(* Small instances of Registry for TLC.                                    *)
(***************************************************************************)
EXTENDS Registry, TLC

CONSTANTS a, b, l, v1, v2

NoSites == [d \in {} |-> a]
VerifiedSite == [owner |-> a, status |-> "VERIFIED", pendingOwner |-> NoOwner,
                 cooldownUntil |-> 0, cooldownCount |-> 0]
SiteA == 1 :> VerifiedSite
\* The second site comes with a cooldown that is over when the first round starts.
SitesA == SiteA @@ 2 :> [VerifiedSite EXCEPT !.status = "PENDING", !.cooldownUntil = 4,
                                             !.cooldownCount = 1]
OwnPrimary == [d \in Domains |-> d]
SharedPrimary == [d \in Domains |-> 0]
NoBonds == [v \in {} |-> 1]
Bonded1 == v1 :> 1
Bonded12 == v1 :> 1 @@ v2 :> 1
Deposits == [v \in Verifiers |-> IF v \in DOMAIN GenesisBonds THEN GenesisBonds[v] ELSE 0]
VerifierSymmetry == Permutations({v1, v2})
=============================================================================

-------------------------- MODULE MCCloudInfraStore --------------------------
(* Instances of CloudInfraStore for TLC: two fast runs around a slow one.  *)
EXTENDS CloudInfraStore, TLC

CONSTANTS f1, f2, s1

ThreeTrackOf == (f1 :> "fast") @@ (f2 :> "fast") @@ (s1 :> "slow")
TwoTrackOf == (f1 :> "fast") @@ (s1 :> "slow")
==============================================================================

----------------------------- MODULE MCReferences -----------------------------
(* A task, its instance and the instance's subnet group; the endpoints are given by their ARNs. *)
EXTENDS ReferencesLive, TLC

CONSTANTS task, instance, group

MCKindOf ==
  task :> "ReplicationTask" @@ instance :> "ReplicationInstance" @@ group :> "ReplicationSubnetGroup"

MCReferents == task :> <<instance>> @@ instance :> <<group>> @@ group :> <<>>
=============================================================================

------------------------------ MODULE PlainKinds ------------------------------
(***************************************************************************)
(* One custom resource of one of the kinds that PlainResource describes.   *)
(* The controller treats resources of different kinds independently; a     *)
(* behaviour is about one, and the kind is chosen at its beginning.        *)
(***************************************************************************)
EXTENDS Certificate, EventSubscription, ReplicationSubnetGroup

VARIABLE kind  \* the kind of the resource

kindVars == <<vars, kind>>

Kind == {"Certificate", "EventSubscription", "ReplicationSubnetGroup"}

TypeOK ==
  /\ kind \in Kind
  /\ kind = "Certificate" => CertificateTypeOK
  /\ kind = "EventSubscription" => SubscriptionTypeOK
  /\ kind = "ReplicationSubnetGroup" => GroupTypeOK

Init == kind \in Kind /\ PlainInit

Next ==
  /\ \/ kind = "Certificate" /\ CertificateNext
     \/ kind = "EventSubscription" /\ SubscriptionNext
     \/ kind = "ReplicationSubnetGroup" /\ GroupNext
  /\ UNCHANGED kind

Spec == Init /\ [][Next]_kindVars

-----------------------------------------------------------------------------
(* Safety *)

\* An edit of a certificate that is refused for good does not cost it the tags asked for with it:
\* when there is nothing left to do, the tags are in place.
TagsDespiteRefusal == [][kind = "Certificate" => CertificateTagged]_kindVars

\* Synced becomes True, without a terminal error, only if AWS has what Spec sets, but for what it
\* never reports (the secrets of a certificate) and for the case of a group's name.
SyncedMeansConfigured ==
  [][/\ kind = "Certificate" => CertificateConfigured
     /\ kind = "EventSubscription" => SubscriptionConfigured
     /\ kind = "ReplicationSubnetGroup" => GroupConfigured]_kindVars

\* No edit that a pass has seen is undone by what AWS answers.
KeepsEdits ==
  [][/\ kind = "EventSubscription" => SubscriptionKeepsEdits
     /\ kind = "ReplicationSubnetGroup" => GroupKeepsEdits]_kindVars

\* What a pass writes into the resource holds: the condition is true of AWS, and Spec is the user's.
WritesWhatHolds == SyncedMeansConfigured /\ KeepsEdits

\* When a subscription is modified AWS is not at work on it: the status read before the tags were
\* changed still holds after.
ModifyFits == kind = "EventSubscription" => SubscriptionModifyFits

\* Every pass takes a bounded number of steps, whatever fails (Advances).
PassesAdvance ==
  [][/\ kind = "Certificate" => Advances(CertificateController)
     /\ kind = "EventSubscription" => Advances(SubscriptionController)
     /\ kind = "ReplicationSubnetGroup" => Advances(GroupController)]_kindVars

-----------------------------------------------------------------------------
(* What the documentation says and the code does not do *)

\* "This value is stored as a lowercase string", and it is "immutable once set": after a creation
\* the API server is not asked to change a name.
NameIsKept ==
  [][kind = "ReplicationSubnetGroup" /\ pc = "patchSpec" /\ PatchPlainSpec({"Name"})
     => pc' # "patchError"]_kindVars
=============================================================================

----------------------------- MODULE Certificate -----------------------------
(***************************************************************************)
(* The reconciliation of one Certificate custom resource with one AWS DMS  *)
(* certificate (pkg/resource/certificate).  AWS has no call to modify a    *)
(* certificate: only its tags can change.  A certificate is imported, and  *)
(* deleted, at once.                                                       *)
(***************************************************************************)
EXTENDS PlainResource

\* The fields of Spec but for Name, KMSKeyRef and the tags; the first two are references to
\* Kubernetes secrets.
CertificateField == {"CertificatePem", "CertificateWallet", "KMSKeyID"}

CertificateImmutable == {"KMSKeyID"}

\* DescribeCertificates answers no secrets.
CertificateFound == {"KMSKeyID"}

\* ImportCertificate
ImportSent == CertificateField
ImportAnswered == {"KMSKeyID"}

CertificateTypeOK == TypeOKOf({"present"})

-----------------------------------------------------------------------------

\* The tags are asked for in any case.
FindCertificate(ko) == [Observed(CertificateFound, ko, object) EXCEPT !.spec.tags = object.tags]

\* customSdkUpdate: what follows the tags.
AfterCertificateTags(want, have) ==
  IF Delta(want, have) = {} THEN "patchStatus" ELSE "patchTerminal"

\* Mutant: what is not supported is refused before the tags are changed.
CustomSdkUpdate_RefusesFirst(want, have) ==
  IF Delta(want, have) = {} THEN UpdateStep(want, have, "patchStatus") ELSE "patchTerminal"

CustomSdkUpdate(want, have) == UpdateStep(want, have, AfterCertificateTags(want, have))

ReadCertificate ==
  LET found == FindCertificate(desired) IN
    ReadFound(desired, found,
              IF DeleteRequested(desired) THEN "delete" ELSE CustomSdkUpdate(desired, found))

\* AWS uses a default key if none is named.
ImportCertificate ==
  /\ pc = "create" /\ object.status = "none"
  /\ \E default \in Filled({"KMSKeyID"}, Plain) :
       LET i == [status |-> "present", tags |-> desired.spec.tags,
                 value |-> Given(ImportSent, [value |-> default])]
       IN object' = i /\ latest' = Observed(ImportAnswered, desired, i)
  /\ pc' = "readCreated"
  /\ UNCHANGED <<cr, desired, edits>>

ReadImported == ReadCreated(FindCertificate(latest))

RemoveCertificateTags == RemoveTags(AfterCertificateTags(desired, latest), Updated)
AddCertificateTags == AddTags(AfterCertificateTags(desired, latest), Updated)

\* The finalizer is removed in the same pass.
DeleteCertificate ==
  /\ pc = "delete" /\ object.status = "present"
  /\ object' = NoObject /\ pc' = "removeFinalizer"
  /\ UNCHANGED <<cr, local, edits>>

\* A certificate is always as synced as it can be.
CertificateIsSynced == TRUE

CertificateReads == ReadCertificate \/ ReadNotFound \/ ReadImported
CertificateChanges ==
  ImportCertificate \/ RemoveCertificateTags \/ AddCertificateTags \/ DeleteCertificate
CertificatePatches == MarkManaged \/ PatchPlainSpec(CertificateImmutable) \/ RemoveFinalizer

CertificateController ==
  \/ Reconcile \/ CertificateReads \/ CertificateChanges \/ CertificatePatches
  \/ PatchStatus(CertificateIsSynced) \/ CallFailsOr({}) \/ Crash

CertificateNext == User(CertificateField, CertificateImmutable) \/ CertificateController

-----------------------------------------------------------------------------

\* Whatever is reported with nothing left to do, a refused edit among it, the tags have been
\* brought to what is asked for.
CertificateTagged == Reports(CertificateIsSynced) => Has({})

\* A certificate that is reported without an error has the key that Spec names.
CertificateConfigured == ReportsSuccess(CertificateIsSynced) => Has({"KMSKeyID"})
=============================================================================

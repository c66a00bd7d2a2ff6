--------------------------- MODULE ReferenceFields ---------------------------
(***************************************************************************)
(* The fields of Spec that may be given as a reference to another custom   *)
(* resource (references.go of each package), and what they are resolved    *)
(* to: a field of the referent, which must be synced, must not have failed *)
(* terminally and must have the field.  A field is a group of settings     *)
(* (TopLevel for Spec itself) and a name in it.                            *)
(***************************************************************************)
\* A referent: its kind, and the field of it that is used.
Referent(kind, value) == [kind |-> kind, value |-> value]

\* A reference: the field that it stands for, and the referent.
Reference(field, referent) == [field |-> field, referent |-> referent]

(* Certificate *)

Certificate_Key == Referent("Key", "Status.KeyID")

Certificate_KMSKeyID == Reference(<<"TopLevel", "KMSKeyID">>, Certificate_Key)

(* Endpoint *)

Endpoint_Certificate == Referent("Certificate", "Status.ARN")
Endpoint_Role == Referent("Role", "Status.ARN")
Endpoint_Key == Referent("Key", "Status.KeyID")
Endpoint_Secret == Referent("Secret", "Status.ARN")
Endpoint_Stream == Referent("Stream", "Status.ARN")
Endpoint_Bucket == Referent("Bucket", "Spec.Name")

Endpoint_CertificateARN == Reference(<<"TopLevel", "CertificateARN">>, Endpoint_Certificate)
Endpoint_DmsTransfer_ServiceAccessRoleARN ==
  Reference(<<"DmsTransfer", "ServiceAccessRoleARN">>, Endpoint_Role)
Endpoint_DocDB_KMSKeyID == Reference(<<"DocDB", "KMSKeyID">>, Endpoint_Key)
Endpoint_DocDB_SecretsManagerAccessRoleARN ==
  Reference(<<"DocDB", "SecretsManagerAccessRoleARN">>, Endpoint_Role)
Endpoint_DocDB_SecretsManagerSecretID ==
  Reference(<<"DocDB", "SecretsManagerSecretID">>, Endpoint_Secret)
Endpoint_DynamoDB_ServiceAccessRoleARN ==
  Reference(<<"DynamoDB", "ServiceAccessRoleARN">>, Endpoint_Role)
Endpoint_Elasticsearch_ServiceAccessRoleARN ==
  Reference(<<"Elasticsearch", "ServiceAccessRoleARN">>, Endpoint_Role)
Endpoint_GcpMySQL_SecretsManagerAccessRoleARN ==
  Reference(<<"GcpMySQL", "SecretsManagerAccessRoleARN">>, Endpoint_Role)
Endpoint_GcpMySQL_SecretsManagerSecretID ==
  Reference(<<"GcpMySQL", "SecretsManagerSecretID">>, Endpoint_Secret)
Endpoint_IBMDB2_SecretsManagerAccessRoleARN ==
  Reference(<<"IBMDB2", "SecretsManagerAccessRoleARN">>, Endpoint_Role)
Endpoint_IBMDB2_SecretsManagerSecretID ==
  Reference(<<"IBMDB2", "SecretsManagerSecretID">>, Endpoint_Secret)
Endpoint_KMSKeyID == Reference(<<"TopLevel", "KMSKeyID">>, Endpoint_Key)
Endpoint_Kafka_SSLCaCertificateARN ==
  Reference(<<"Kafka", "SSLCaCertificateARN">>, Endpoint_Certificate)
Endpoint_Kafka_SSLClientCertificateARN ==
  Reference(<<"Kafka", "SSLClientCertificateARN">>, Endpoint_Certificate)
Endpoint_Kafka_SSLClientKeyARN ==
  Reference(<<"Kafka", "SSLClientKeyARN">>, Endpoint_Certificate)
Endpoint_Kinesis_ServiceAccessRoleARN ==
  Reference(<<"Kinesis", "ServiceAccessRoleARN">>, Endpoint_Role)
Endpoint_Kinesis_StreamARN == Reference(<<"Kinesis", "StreamARN">>, Endpoint_Stream)
Endpoint_MicrosoftSQLServer_SecretsManagerAccessRoleARN ==
  Reference(<<"MicrosoftSQLServer", "SecretsManagerAccessRoleARN">>, Endpoint_Role)
Endpoint_MicrosoftSQLServer_SecretsManagerSecretID ==
  Reference(<<"MicrosoftSQLServer", "SecretsManagerSecretID">>, Endpoint_Secret)
Endpoint_MongoDB_KMSKeyID == Reference(<<"MongoDB", "KMSKeyID">>, Endpoint_Key)
Endpoint_MongoDB_SecretsManagerAccessRoleARN ==
  Reference(<<"MongoDB", "SecretsManagerAccessRoleARN">>, Endpoint_Role)
Endpoint_MongoDB_SecretsManagerSecretID ==
  Reference(<<"MongoDB", "SecretsManagerSecretID">>, Endpoint_Secret)
Endpoint_MySQL_SecretsManagerAccessRoleARN ==
  Reference(<<"MySQL", "SecretsManagerAccessRoleARN">>, Endpoint_Role)
Endpoint_MySQL_SecretsManagerSecretID ==
  Reference(<<"MySQL", "SecretsManagerSecretID">>, Endpoint_Secret)
Endpoint_MySQL_ServiceAccessRoleARN ==
  Reference(<<"MySQL", "ServiceAccessRoleARN">>, Endpoint_Role)
Endpoint_Neptune_S3BucketName == Reference(<<"Neptune", "S3BucketName">>, Endpoint_Bucket)
Endpoint_Neptune_ServiceAccessRoleARN ==
  Reference(<<"Neptune", "ServiceAccessRoleARN">>, Endpoint_Role)
Endpoint_Oracle_SecretsManagerAccessRoleARN ==
  Reference(<<"Oracle", "SecretsManagerAccessRoleARN">>, Endpoint_Role)
Endpoint_Oracle_SecretsManagerSecretID ==
  Reference(<<"Oracle", "SecretsManagerSecretID">>, Endpoint_Secret)
Endpoint_PostgreSQL_SecretsManagerAccessRoleARN ==
  Reference(<<"PostgreSQL", "SecretsManagerAccessRoleARN">>, Endpoint_Role)
Endpoint_PostgreSQL_SecretsManagerSecretID ==
  Reference(<<"PostgreSQL", "SecretsManagerSecretID">>, Endpoint_Secret)
Endpoint_PostgreSQL_ServiceAccessRoleARN ==
  Reference(<<"PostgreSQL", "ServiceAccessRoleARN">>, Endpoint_Role)
Endpoint_Redis_SSLCaCertificateARN ==
  Reference(<<"Redis", "SSLCaCertificateARN">>, Endpoint_Certificate)
Endpoint_Redshift_BucketName == Reference(<<"Redshift", "BucketName">>, Endpoint_Bucket)
Endpoint_Redshift_SecretsManagerAccessRoleARN ==
  Reference(<<"Redshift", "SecretsManagerAccessRoleARN">>, Endpoint_Role)
Endpoint_Redshift_SecretsManagerSecretID ==
  Reference(<<"Redshift", "SecretsManagerSecretID">>, Endpoint_Secret)
Endpoint_Redshift_ServerSideEncryptionKMSKeyID ==
  Reference(<<"Redshift", "ServerSideEncryptionKMSKeyID">>, Endpoint_Key)
Endpoint_Redshift_ServiceAccessRoleARN ==
  Reference(<<"Redshift", "ServiceAccessRoleARN">>, Endpoint_Role)
Endpoint_S3_BucketName == Reference(<<"S3", "BucketName">>, Endpoint_Bucket)
Endpoint_S3_ServerSideEncryptionKMSKeyID ==
  Reference(<<"S3", "ServerSideEncryptionKMSKeyID">>, Endpoint_Key)
Endpoint_S3_ServiceAccessRoleARN == Reference(<<"S3", "ServiceAccessRoleARN">>, Endpoint_Role)
Endpoint_ServiceAccessRoleARN ==
  Reference(<<"TopLevel", "ServiceAccessRoleARN">>, Endpoint_Role)
Endpoint_Sybase_SecretsManagerAccessRoleARN ==
  Reference(<<"Sybase", "SecretsManagerAccessRoleARN">>, Endpoint_Role)
Endpoint_Sybase_SecretsManagerSecretID ==
  Reference(<<"Sybase", "SecretsManagerSecretID">>, Endpoint_Secret)

(* EventSubscription *)

EventSubscription_Topic == Referent("Topic", "Status.ARN")

EventSubscription_SNSTopicARN ==
  Reference(<<"TopLevel", "SNSTopicARN">>, EventSubscription_Topic)

(* ReplicationInstance *)

ReplicationInstance_Key == Referent("Key", "Status.KeyID")
ReplicationInstance_Role == Referent("Role", "Status.ARN")
ReplicationInstance_Secret == Referent("Secret", "Status.ARN")
ReplicationInstance_SecurityGroup == Referent("SecurityGroup", "Status.ID")
ReplicationInstance_ReplicationSubnetGroup == Referent("ReplicationSubnetGroup", "Spec.Name")

ReplicationInstance_KMSKeyID == Reference(<<"TopLevel", "KMSKeyID">>, ReplicationInstance_Key)
ReplicationInstance_KerberosAuthentication_KeyCacheSecretIAMARN ==
  Reference(<<"KerberosAuthentication", "KeyCacheSecretIAMARN">>, ReplicationInstance_Role)
ReplicationInstance_KerberosAuthentication_KeyCacheSecretID ==
  Reference(<<"KerberosAuthentication", "KeyCacheSecretID">>, ReplicationInstance_Secret)
ReplicationInstance_SecurityGroupIDs ==
  Reference(<<"TopLevel", "SecurityGroupIDs">>, ReplicationInstance_SecurityGroup)
ReplicationInstance_SubnetGroupID ==
  Reference(<<"TopLevel", "SubnetGroupID">>, ReplicationInstance_ReplicationSubnetGroup)

(* ReplicationSubnetGroup *)

ReplicationSubnetGroup_Subnet == Referent("Subnet", "Status.SubnetID")

ReplicationSubnetGroup_SubnetIDs ==
  Reference(<<"TopLevel", "SubnetIDs">>, ReplicationSubnetGroup_Subnet)

(* ReplicationTask *)

ReplicationTask_ReplicationInstance == Referent("ReplicationInstance", "Status.ARN")
ReplicationTask_Endpoint == Referent("Endpoint", "Status.ARN")

ReplicationTask_ReplicationInstanceARN ==
  Reference(<<"TopLevel", "ReplicationInstanceARN">>, ReplicationTask_ReplicationInstance)
ReplicationTask_SourceEndpointARN ==
  Reference(<<"TopLevel", "SourceEndpointARN">>, ReplicationTask_Endpoint)
ReplicationTask_TargetEndpointARN ==
  Reference(<<"TopLevel", "TargetEndpointARN">>, ReplicationTask_Endpoint)

-----------------------------------------------------------------------------
(* The references of each kind *)

CertificateReference ==
  {Certificate_KMSKeyID}

EndpointReference ==
  {Endpoint_CertificateARN, Endpoint_DmsTransfer_ServiceAccessRoleARN,
   Endpoint_DocDB_KMSKeyID, Endpoint_DocDB_SecretsManagerAccessRoleARN,
   Endpoint_DocDB_SecretsManagerSecretID, Endpoint_DynamoDB_ServiceAccessRoleARN,
   Endpoint_Elasticsearch_ServiceAccessRoleARN, Endpoint_GcpMySQL_SecretsManagerAccessRoleARN,
   Endpoint_GcpMySQL_SecretsManagerSecretID, Endpoint_IBMDB2_SecretsManagerAccessRoleARN,
   Endpoint_IBMDB2_SecretsManagerSecretID, Endpoint_KMSKeyID,
   Endpoint_Kafka_SSLCaCertificateARN, Endpoint_Kafka_SSLClientCertificateARN,
   Endpoint_Kafka_SSLClientKeyARN, Endpoint_Kinesis_ServiceAccessRoleARN,
   Endpoint_Kinesis_StreamARN, Endpoint_MicrosoftSQLServer_SecretsManagerAccessRoleARN,
   Endpoint_MicrosoftSQLServer_SecretsManagerSecretID, Endpoint_MongoDB_KMSKeyID,
   Endpoint_MongoDB_SecretsManagerAccessRoleARN, Endpoint_MongoDB_SecretsManagerSecretID,
   Endpoint_MySQL_SecretsManagerAccessRoleARN, Endpoint_MySQL_SecretsManagerSecretID,
   Endpoint_MySQL_ServiceAccessRoleARN, Endpoint_Neptune_S3BucketName,
   Endpoint_Neptune_ServiceAccessRoleARN, Endpoint_Oracle_SecretsManagerAccessRoleARN,
   Endpoint_Oracle_SecretsManagerSecretID, Endpoint_PostgreSQL_SecretsManagerAccessRoleARN,
   Endpoint_PostgreSQL_SecretsManagerSecretID, Endpoint_PostgreSQL_ServiceAccessRoleARN,
   Endpoint_Redis_SSLCaCertificateARN, Endpoint_Redshift_BucketName,
   Endpoint_Redshift_SecretsManagerAccessRoleARN, Endpoint_Redshift_SecretsManagerSecretID,
   Endpoint_Redshift_ServerSideEncryptionKMSKeyID, Endpoint_Redshift_ServiceAccessRoleARN,
   Endpoint_S3_BucketName, Endpoint_S3_ServerSideEncryptionKMSKeyID,
   Endpoint_S3_ServiceAccessRoleARN, Endpoint_ServiceAccessRoleARN,
   Endpoint_Sybase_SecretsManagerAccessRoleARN, Endpoint_Sybase_SecretsManagerSecretID}

EventSubscriptionReference ==
  {EventSubscription_SNSTopicARN}

ReplicationInstanceReference ==
  {ReplicationInstance_KMSKeyID,
   ReplicationInstance_KerberosAuthentication_KeyCacheSecretIAMARN,
   ReplicationInstance_KerberosAuthentication_KeyCacheSecretID,
   ReplicationInstance_SecurityGroupIDs, ReplicationInstance_SubnetGroupID}

ReplicationSubnetGroupReference ==
  {ReplicationSubnetGroup_SubnetIDs}

ReplicationTaskReference ==
  {ReplicationTask_ReplicationInstanceARN, ReplicationTask_SourceEndpointARN,
   ReplicationTask_TargetEndpointARN}
=============================================================================

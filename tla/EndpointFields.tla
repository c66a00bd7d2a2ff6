---------------------------- MODULE EndpointFields ----------------------------
(***************************************************************************)
(* The fields of an Endpoint's Spec, and in which of them each operation   *)
(* of pkg/resource/endpoint takes part.  They come in groups, one for each *)
(* database engine (DocDBSettings and so on, here without "Settings"); the *)
(* fields outside the groups are in TopLevel.  Per group:                  *)
(*                                                                         *)
(*   Compared        newResourceDelta compares them                        *)
(*   Found           sdkFind sets them from what AWS answers               *)
(*   CreateSent      newCreateRequestPayload sends those that are set      *)
(*   CreateAnswered  sdkCreate sets them from what AWS answers             *)
(*   ModifySent      newUpdateRequestPayload sends those that are set      *)
(*   ModifyAnswered  sdkUpdate sets them from what AWS answers             *)
(*   Secret          their values are keys of Kubernetes secrets           *)
(*   Number          Spec has 64 bits for them and AWS has 32              *)
(***************************************************************************)
DmsTransfer == {"DmsTransfer"} \X {"BucketName", "ServiceAccessRoleARN"}
DmsTransferCompared == DmsTransfer
DmsTransferFound == DmsTransfer
DmsTransferCreateSent == DmsTransfer
DmsTransferCreateAnswered == DmsTransfer
DmsTransferModifySent == DmsTransfer
DmsTransferModifyAnswered == DmsTransfer

DocDB == {"DocDB"} \X
  {"DatabaseName", "DocsToInvestigate", "ExtractDocID", "KMSKeyID", "NestingLevel",
   "Password", "Port", "ReplicateShardCollections", "SecretsManagerAccessRoleARN",
   "SecretsManagerSecretID", "ServerName", "UseUpdateLookUp", "Username"}
DocDBSecret == {"DocDB"} \X {"Password"}
DocDBNumber == {"DocDB"} \X {"DocsToInvestigate", "Port"}
DocDBCompared == DocDB
DocDBFound == DocDB \ DocDBSecret
DocDBCreateSent == DocDB
DocDBCreateAnswered == DocDB \ DocDBSecret
DocDBModifySent == DocDB
DocDBModifyAnswered == DocDB \ DocDBSecret

DynamoDB == {"DynamoDB"} \X {"ServiceAccessRoleARN"}
DynamoDBCompared == DynamoDB
DynamoDBFound == DynamoDB
DynamoDBCreateSent == DynamoDB
DynamoDBCreateAnswered == DynamoDB
DynamoDBModifySent == DynamoDB
DynamoDBModifyAnswered == DynamoDB

Elasticsearch == {"Elasticsearch"} \X
  {"EndpointURI", "ErrorRetryDuration", "FullLoadErrorPercentage", "ServiceAccessRoleARN",
   "UseNewMappingType"}
ElasticsearchNumber == {"Elasticsearch"} \X {"ErrorRetryDuration", "FullLoadErrorPercentage"}
ElasticsearchCompared == Elasticsearch
ElasticsearchFound == Elasticsearch
ElasticsearchCreateSent == Elasticsearch
ElasticsearchCreateAnswered == Elasticsearch
ElasticsearchModifySent == Elasticsearch
ElasticsearchModifyAnswered == Elasticsearch

GcpMySQL == {"GcpMySQL"} \X
  {"AfterConnectScript", "CleanSourceMetadataOnMismatch", "DatabaseName",
   "EventsPollInterval", "MaxFileSize", "ParallelLoadThreads", "Password", "Port",
   "SecretsManagerAccessRoleARN", "SecretsManagerSecretID", "ServerName", "ServerTimezone",
   "TargetDBType", "Username"}
GcpMySQLSecret == {"GcpMySQL"} \X {"Password"}
GcpMySQLNumber == {"GcpMySQL"} \X
  {"EventsPollInterval", "MaxFileSize", "ParallelLoadThreads", "Port"}
GcpMySQLCompared == GcpMySQL
GcpMySQLFound == GcpMySQL \ GcpMySQLSecret
GcpMySQLCreateSent == GcpMySQL
GcpMySQLCreateAnswered == GcpMySQL \ GcpMySQLSecret
GcpMySQLModifySent == GcpMySQL
GcpMySQLModifyAnswered == GcpMySQL \ GcpMySQLSecret

IBMDB2 == {"IBMDB2"} \X
  {"CurrentLsn", "DatabaseName", "KeepCsvFiles", "LoadTimeout", "MaxFileSize",
   "MaxKBytesPerRead", "Password", "Port", "SecretsManagerAccessRoleARN",
   "SecretsManagerSecretID", "ServerName", "SetDataCaptureChanges", "Username",
   "WriteBufferSize"}
IBMDB2Secret == {"IBMDB2"} \X {"Password"}
IBMDB2Number == {"IBMDB2"} \X
  {"LoadTimeout", "MaxFileSize", "MaxKBytesPerRead", "Port", "WriteBufferSize"}
IBMDB2Compared == IBMDB2
IBMDB2Found == IBMDB2 \ IBMDB2Secret
IBMDB2CreateSent == IBMDB2
IBMDB2CreateAnswered == IBMDB2 \ IBMDB2Secret
IBMDB2ModifySent == IBMDB2
IBMDB2ModifyAnswered == IBMDB2 \ IBMDB2Secret

Kafka == {"Kafka"} \X
  {"Broker", "IncludeControlDetails", "IncludeNullAndEmpty", "IncludePartitionValue",
   "IncludeTableAlterOperations", "IncludeTransactionDetails", "MessageFormat",
   "MessageMaxBytes", "NoHexPrefix", "PartitionIncludeSchemaTable", "SASLMechanism",
   "SASLPassword", "SASLUsername", "SecurityProtocol", "SSLCaCertificateARN",
   "SSLClientCertificateARN", "SSLClientKeyARN", "SSLClientKeyPassword",
   "SSLEndpointIDentificationAlgorithm", "Topic", "UseLargeIntegerValue"}
KafkaSecret == {"Kafka"} \X {"SASLPassword", "SSLClientKeyPassword"}
KafkaNumber == {"Kafka"} \X {"MessageMaxBytes"}
KafkaCompared == Kafka
KafkaFound == Kafka \ KafkaSecret
KafkaCreateSent == Kafka
KafkaCreateAnswered == Kafka \ KafkaSecret
KafkaModifySent == Kafka
KafkaModifyAnswered == Kafka \ KafkaSecret

Kinesis == {"Kinesis"} \X
  {"IncludeControlDetails", "IncludeNullAndEmpty", "IncludePartitionValue",
   "IncludeTableAlterOperations", "IncludeTransactionDetails", "MessageFormat",
   "NoHexPrefix", "PartitionIncludeSchemaTable", "ServiceAccessRoleARN", "StreamARN",
   "UseLargeIntegerValue"}
KinesisCompared == Kinesis
KinesisFound == Kinesis
KinesisCreateSent == Kinesis
KinesisCreateAnswered == Kinesis
KinesisModifySent == Kinesis
KinesisModifyAnswered == Kinesis

MicrosoftSQLServer == {"MicrosoftSQLServer"} \X
  {"AuthenticationMethod", "BcpPacketSize", "ControlTablesFileGroup", "DatabaseName",
   "ForceLobLookup", "Password", "Port", "QuerySingleAlwaysOnNode", "ReadBackupOnly",
   "SafeguardPolicy", "SecretsManagerAccessRoleARN", "SecretsManagerSecretID", "ServerName",
   "TlogAccessMode", "TrimSpaceInChar", "UseBcpFullLoad", "UseThirdPartyBackupDevice",
   "Username"}
MicrosoftSQLServerSecret == {"MicrosoftSQLServer"} \X {"Password"}
MicrosoftSQLServerNumber == {"MicrosoftSQLServer"} \X {"BcpPacketSize", "Port"}
MicrosoftSQLServerCompared == MicrosoftSQLServer
MicrosoftSQLServerFound == MicrosoftSQLServer \ MicrosoftSQLServerSecret
MicrosoftSQLServerCreateSent == MicrosoftSQLServer
MicrosoftSQLServerCreateAnswered == MicrosoftSQLServer \ MicrosoftSQLServerSecret
MicrosoftSQLServerModifySent == MicrosoftSQLServer
MicrosoftSQLServerModifyAnswered == MicrosoftSQLServer \ MicrosoftSQLServerSecret

MongoDB == {"MongoDB"} \X
  {"AuthMechanism", "AuthSource", "AuthType", "DatabaseName", "DocsToInvestigate",
   "ExtractDocID", "KMSKeyID", "NestingLevel", "Password", "Port",
   "ReplicateShardCollections", "SecretsManagerAccessRoleARN", "SecretsManagerSecretID",
   "ServerName", "UseUpdateLookUp", "Username"}
MongoDBSecret == {"MongoDB"} \X {"Password"}
MongoDBNumber == {"MongoDB"} \X {"Port"}
MongoDBCompared == MongoDB
MongoDBFound == MongoDB \ MongoDBSecret
MongoDBCreateSent == MongoDB
MongoDBCreateAnswered == MongoDB \ MongoDBSecret
MongoDBModifySent == MongoDB
MongoDBModifyAnswered == MongoDB \ MongoDBSecret

MySQL == {"MySQL"} \X
  {"AfterConnectScript", "AuthenticationMethod", "CleanSourceMetadataOnMismatch",
   "DatabaseName", "EventsPollInterval", "ExecuteTimeout", "MaxFileSize",
   "ParallelLoadThreads", "Password", "Port", "SecretsManagerAccessRoleARN",
   "SecretsManagerSecretID", "ServerName", "ServerTimezone", "ServiceAccessRoleARN",
   "TargetDBType", "Username"}
MySQLSecret == {"MySQL"} \X {"Password"}
MySQLNumber == {"MySQL"} \X
  {"EventsPollInterval", "ExecuteTimeout", "MaxFileSize", "ParallelLoadThreads", "Port"}
MySQLCompared == MySQL
MySQLFound == MySQL \ MySQLSecret
MySQLCreateSent == MySQL
MySQLCreateAnswered == MySQL \ MySQLSecret
MySQLModifySent == MySQL
MySQLModifyAnswered == MySQL \ MySQLSecret

Neptune == {"Neptune"} \X
  {"ErrorRetryDuration", "IAMAuthEnabled", "MaxFileSize", "MaxRetryCount", "S3BucketFolder",
   "S3BucketName", "ServiceAccessRoleARN"}
NeptuneNumber == {"Neptune"} \X {"ErrorRetryDuration", "MaxFileSize", "MaxRetryCount"}
NeptuneCompared == Neptune
NeptuneFound == Neptune
NeptuneCreateSent == Neptune
NeptuneCreateAnswered == Neptune
NeptuneModifySent == Neptune
NeptuneModifyAnswered == Neptune

Oracle == {"Oracle"} \X
  {"AccessAlternateDirectly", "AddSupplementalLogging", "AdditionalArchivedLogDestID",
   "AllowSelectNestedTables", "ArchivedLogDestID", "ArchivedLogsOnly", "AsmPassword",
   "AsmServer", "AsmUser", "AuthenticationMethod", "CharLengthSemantics",
   "ConvertTimestampWithZoneToUTC", "DatabaseName", "DirectPathNoLog",
   "DirectPathParallelLoad", "EnableHomogenousTablespace", "ExtraArchivedLogDestIDs",
   "FailTasksOnLobTruncation", "NumberDatatypeScale", "OpenTransactionWindow",
   "OraclePathPrefix", "ParallelAsmReadThreads", "Password", "Port", "ReadAheadBlocks",
   "ReadTableSpaceName", "ReplacePathPrefix", "RetryInterval", "SecretsManagerAccessRoleARN",
   "SecretsManagerOracleAsmAccessRoleARN", "SecretsManagerOracleAsmSecretID",
   "SecretsManagerSecretID", "SecurityDBEncryption", "SecurityDBEncryptionName",
   "ServerName", "SpatialDataOptionToGeoJSONFunctionName", "StandbyDelayTime",
   "TrimSpaceInChar", "UseAlternateFolderForOnline", "UseBFile", "UseDirectPathFullLoad",
   "UseLogminerReader", "UsePathPrefix", "Username"}
OracleSecret == {"Oracle"} \X {"AsmPassword", "Password"}
OracleNumber == {"Oracle"} \X
  {"AdditionalArchivedLogDestID", "ArchivedLogDestID", "ExtraArchivedLogDestIDs",
   "NumberDatatypeScale", "OpenTransactionWindow", "ParallelAsmReadThreads", "Port",
   "ReadAheadBlocks", "RetryInterval", "StandbyDelayTime"}
OracleCompared == Oracle
OracleFound == Oracle \ OracleSecret
OracleCreateSent == Oracle
OracleCreateAnswered == Oracle \ OracleSecret
OracleModifySent == Oracle
OracleModifyAnswered == Oracle \ OracleSecret

PostgreSQL == {"PostgreSQL"} \X
  {"AfterConnectScript", "AuthenticationMethod", "BabelfishDatabaseName", "CaptureDdls",
   "DatabaseMode", "DatabaseName", "DdlArtifactsSchema", "DisableUnicodeSourceFilter",
   "ExecuteTimeout", "FailTasksOnLobTruncation", "HeartbeatEnable", "HeartbeatFrequency",
   "HeartbeatSchema", "MapBooleanAsBoolean", "MapJSONbAsClob", "MapLongVarcharAs",
   "MaxFileSize", "Password", "PluginName", "Port", "SecretsManagerAccessRoleARN",
   "SecretsManagerSecretID", "ServerName", "ServiceAccessRoleARN", "SlotName",
   "TrimSpaceInChar", "Username"}
PostgreSQLSecret == {"PostgreSQL"} \X {"Password"}
PostgreSQLNumber == {"PostgreSQL"} \X
  {"ExecuteTimeout", "HeartbeatFrequency", "MaxFileSize", "Port"}
PostgreSQLCompared == PostgreSQL
PostgreSQLFound == PostgreSQL \ PostgreSQLSecret
PostgreSQLCreateSent == PostgreSQL
PostgreSQLCreateAnswered == PostgreSQL \ PostgreSQLSecret
PostgreSQLModifySent == PostgreSQL
PostgreSQLModifyAnswered == PostgreSQL \ PostgreSQLSecret

Redis == {"Redis"} \X
  {"AuthPassword", "AuthType", "AuthUserName", "Port", "ServerName", "SSLCaCertificateARN",
   "SSLSecurityProtocol"}
RedisSecret == {"Redis"} \X {"AuthPassword"}
RedisNumber == {"Redis"} \X {"Port"}
\* Mutant: a field is not compared.
RedisCompared_NoPort == Redis \ RedisNumber
RedisCompared == Redis
\* Mutant: sdkFind leaves a field out.
RedisFound_NoPort == Redis \ (RedisSecret \union RedisNumber)
RedisFound == Redis \ RedisSecret
RedisCreateSent == Redis
RedisCreateAnswered == Redis \ RedisSecret
RedisModifySent == Redis
RedisModifyAnswered == Redis \ RedisSecret

Redshift == {"Redshift"} \X
  {"AcceptAnyDate", "AfterConnectScript", "BucketFolder", "BucketName",
   "CaseSensitiveNames", "CompUpdate", "ConnectionTimeout", "DatabaseName", "DateFormat",
   "EmptyAsNull", "EncryptionMode", "ExplicitIDs", "FileTransferUploadStreams",
   "LoadTimeout", "MapBooleanAsBoolean", "MaxFileSize", "Password", "Port", "RemoveQuotes",
   "ReplaceChars", "ReplaceInvalidChars", "SecretsManagerAccessRoleARN",
   "SecretsManagerSecretID", "ServerName", "ServerSideEncryptionKMSKeyID",
   "ServiceAccessRoleARN", "TimeFormat", "TrimBlanks", "TruncateColumns", "Username",
   "WriteBufferSize"}
RedshiftSecret == {"Redshift"} \X {"Password"}
RedshiftNumber == {"Redshift"} \X
  {"ConnectionTimeout", "FileTransferUploadStreams", "LoadTimeout", "MaxFileSize", "Port",
   "WriteBufferSize"}
RedshiftCompared == Redshift
RedshiftFound == Redshift \ RedshiftSecret
RedshiftCreateSent == Redshift
RedshiftCreateAnswered == Redshift \ RedshiftSecret
RedshiftModifySent == Redshift
RedshiftModifyAnswered == Redshift \ RedshiftSecret

S3 == {"S3"} \X
  {"AddColumnName", "AddTrailingPaddingCharacter", "BucketFolder", "BucketName",
   "CannedACLForObjects", "CdcInsertsAndUpdates", "CdcInsertsOnly", "CdcMaxBatchInterval",
   "CdcMinFileSize", "CdcPath", "CompressionType", "CsvDelimiter", "CsvNoSupValue",
   "CsvNullValue", "CsvRowDelimiter", "DataFormat", "DataPageSize", "DatePartitionDelimiter",
   "DatePartitionEnabled", "DatePartitionSequence", "DatePartitionTimezone",
   "DictPageSizeLimit", "EnableStatistics", "EncodingType", "EncryptionMode",
   "ExpectedBucketOwner", "ExternalTableDefinition", "GlueCatalogGeneration",
   "IgnoreHeaderRows", "IncludeOpForFullLoad", "MaxFileSize",
   "ParquetTimestampInMillisecond", "ParquetVersion", "PreserveTransactions", "RFC4180",
   "RowGroupLength", "ServerSideEncryptionKMSKeyID", "ServiceAccessRoleARN",
   "TimestampColumnName", "UseCsvNoSupValue", "UseTaskStartTimeForFullLoadTimestamp"}
S3Number == {"S3"} \X
  {"CdcMaxBatchInterval", "CdcMinFileSize", "DataPageSize", "DictPageSizeLimit",
   "IgnoreHeaderRows", "MaxFileSize", "RowGroupLength"}
S3Compared == S3
S3Found == S3
S3CreateSent == S3
S3CreateAnswered == S3
S3ModifySent == S3
S3ModifyAnswered == S3

Sybase == {"Sybase"} \X
  {"DatabaseName", "Password", "Port", "SecretsManagerAccessRoleARN",
   "SecretsManagerSecretID", "ServerName", "Username"}
SybaseSecret == {"Sybase"} \X {"Password"}
SybaseNumber == {"Sybase"} \X {"Port"}
SybaseCompared == Sybase
SybaseFound == Sybase \ SybaseSecret
SybaseCreateSent == Sybase
SybaseCreateAnswered == Sybase \ SybaseSecret
SybaseModifySent == Sybase
SybaseModifyAnswered == Sybase \ SybaseSecret

Timestream == {"Timestream"} \X
  {"CdcInsertsAndUpdates", "DatabaseName", "EnableMagneticStoreWrites", "MagneticDuration",
   "MemoryDuration"}
TimestreamNumber == {"Timestream"} \X {"MagneticDuration", "MemoryDuration"}
TimestreamCompared == Timestream
TimestreamFound == Timestream
TimestreamCreateSent == Timestream
TimestreamCreateAnswered == Timestream
TimestreamModifySent == Timestream
TimestreamModifyAnswered == Timestream

-----------------------------------------------------------------------------
(* Spec itself, but for the references and the tags *)

TopLevel == {"TopLevel"} \X
  {"CertificateARN", "DatabaseName", "EndpointType", "EngineName", "ExternalTableDefinition",
   "ExtraConnectionAttributes", "KMSKeyID", "Name", "Password", "Port", "ResourceIdentifier",
   "SSLMode", "ServerName", "ServiceAccessRoleARN", "Username"}
TopLevelSecret == {"TopLevel"} \X {"Password"}
TopLevelNumber == {"TopLevel"} \X {"Port"}
TopLevelCompared == TopLevel
TopLevelFound == TopLevel \ ({"TopLevel"} \X {"Name", "Password", "ResourceIdentifier"})
TopLevelCreateSent == TopLevel
TopLevelCreateAnswered == TopLevel \ ({"TopLevel"} \X {"Password", "ResourceIdentifier"})
TopLevelModifySent ==
  TopLevel \ ({"TopLevel"} \X {"KMSKeyID", "Name", "ResourceIdentifier"})
TopLevelModifyAnswered ==
  TopLevel \ ({"TopLevel"} \X {"Name", "Password", "ResourceIdentifier"})

\* They are required.
Required == {"TopLevel"} \X {"EndpointType", "EngineName", "Name"}
\* Once set they cannot be set to something else.
Immutable == Required \union {<<"TopLevel", "ResourceIdentifier">>}

-----------------------------------------------------------------------------
(* All groups, by operation *)

EndpointField == UNION
  {TopLevel, DmsTransfer, DocDB, DynamoDB, Elasticsearch, GcpMySQL, IBMDB2, Kafka, Kinesis,
   MicrosoftSQLServer, MongoDB, MySQL, Neptune, Oracle, PostgreSQL, Redis, Redshift, S3,
   Sybase, Timestream}

Secret == UNION
  {TopLevelSecret, DocDBSecret, GcpMySQLSecret, IBMDB2Secret, KafkaSecret,
   MicrosoftSQLServerSecret, MongoDBSecret, MySQLSecret, OracleSecret, PostgreSQLSecret,
   RedisSecret, RedshiftSecret, SybaseSecret}

Number == UNION
  {TopLevelNumber, DocDBNumber, ElasticsearchNumber, GcpMySQLNumber, IBMDB2Number,
   KafkaNumber, MicrosoftSQLServerNumber, MongoDBNumber, MySQLNumber, NeptuneNumber,
   OracleNumber, PostgreSQLNumber, RedisNumber, RedshiftNumber, S3Number, SybaseNumber,
   TimestreamNumber}

Compared == UNION
  {TopLevelCompared, DmsTransferCompared, DocDBCompared, DynamoDBCompared,
   ElasticsearchCompared, GcpMySQLCompared, IBMDB2Compared, KafkaCompared, KinesisCompared,
   MicrosoftSQLServerCompared, MongoDBCompared, MySQLCompared, NeptuneCompared,
   OracleCompared, PostgreSQLCompared, RedisCompared, RedshiftCompared, S3Compared,
   SybaseCompared, TimestreamCompared}

Found == UNION
  {TopLevelFound, DmsTransferFound, DocDBFound, DynamoDBFound, ElasticsearchFound,
   GcpMySQLFound, IBMDB2Found, KafkaFound, KinesisFound, MicrosoftSQLServerFound,
   MongoDBFound, MySQLFound, NeptuneFound, OracleFound, PostgreSQLFound, RedisFound,
   RedshiftFound, S3Found, SybaseFound, TimestreamFound}

CreateSent == UNION
  {TopLevelCreateSent, DmsTransferCreateSent, DocDBCreateSent, DynamoDBCreateSent,
   ElasticsearchCreateSent, GcpMySQLCreateSent, IBMDB2CreateSent, KafkaCreateSent,
   KinesisCreateSent, MicrosoftSQLServerCreateSent, MongoDBCreateSent, MySQLCreateSent,
   NeptuneCreateSent, OracleCreateSent, PostgreSQLCreateSent, RedisCreateSent,
   RedshiftCreateSent, S3CreateSent, SybaseCreateSent, TimestreamCreateSent}

CreateAnswered == UNION
  {TopLevelCreateAnswered, DmsTransferCreateAnswered, DocDBCreateAnswered,
   DynamoDBCreateAnswered, ElasticsearchCreateAnswered, GcpMySQLCreateAnswered,
   IBMDB2CreateAnswered, KafkaCreateAnswered, KinesisCreateAnswered,
   MicrosoftSQLServerCreateAnswered, MongoDBCreateAnswered, MySQLCreateAnswered,
   NeptuneCreateAnswered, OracleCreateAnswered, PostgreSQLCreateAnswered,
   RedisCreateAnswered, RedshiftCreateAnswered, S3CreateAnswered, SybaseCreateAnswered,
   TimestreamCreateAnswered}

ModifySent == UNION
  {TopLevelModifySent, DmsTransferModifySent, DocDBModifySent, DynamoDBModifySent,
   ElasticsearchModifySent, GcpMySQLModifySent, IBMDB2ModifySent, KafkaModifySent,
   KinesisModifySent, MicrosoftSQLServerModifySent, MongoDBModifySent, MySQLModifySent,
   NeptuneModifySent, OracleModifySent, PostgreSQLModifySent, RedisModifySent,
   RedshiftModifySent, S3ModifySent, SybaseModifySent, TimestreamModifySent}

ModifyAnswered == UNION
  {TopLevelModifyAnswered, DmsTransferModifyAnswered, DocDBModifyAnswered,
   DynamoDBModifyAnswered, ElasticsearchModifyAnswered, GcpMySQLModifyAnswered,
   IBMDB2ModifyAnswered, KafkaModifyAnswered, KinesisModifyAnswered,
   MicrosoftSQLServerModifyAnswered, MongoDBModifyAnswered, MySQLModifyAnswered,
   NeptuneModifyAnswered, OracleModifyAnswered, PostgreSQLModifyAnswered,
   RedisModifyAnswered, RedshiftModifyAnswered, S3ModifyAnswered, SybaseModifyAnswered,
   TimestreamModifyAnswered}
=============================================================================

---------------------------- MODULE CloudActions ----------------------------
(***************************************************************************)
(* The AWS and Google Cloud connectors.  Their clients refuse every        *)
(* command that is not on a list of commands that only read, and make each *)
(* request once: there is no retry loop.                                   *)
(***************************************************************************)
EXTENDS ServiceTerms, TLC

\* ALLOWED_COMMANDS: AwsClient.send refuses any other, before it throttles.
AwsCommands ==
  [describeDBInstances |-> SeekOnce, listTables |-> GetOnce, describeTable |-> GetOnce,
   listBuckets |-> GetOnce, listLambdaFunctions |-> GetOnce,
   getMetricStatistics |-> GetOnce]

\* describe_db needs an instance in the answer.
Aws ==
  Labelled("aws",
    [list_functions |-> Reads(<<AwsCommands.listLambdaFunctions>>),
     describe_db |-> Reads(<<AwsCommands.describeDBInstances>>),
     list_buckets |-> Reads(<<AwsCommands.listBuckets>>),
     get_metrics |-> Reads(<<AwsCommands.getMetricStatistics>>)])

\* A gcloud or bq child process, whose output must parse as JSON.
GcloudCommands ==
  [listServices |-> SeekOnce, describeSqlInstance |-> SeekOnce,
   listPubsubTopics |-> SeekOnce, queryLogs |-> SeekOnce,
   queryLogsStructured |-> SeekOnce, bqQuery |-> SeekOnce]

\* query_logs takes a raw filter or a structured one.
Gcp ==
  Labelled("gcp",
    [list_services |-> Reads(<<GcloudCommands.listServices>>),
     describe_db |-> Reads(<<GcloudCommands.describeSqlInstance>>),
     list_topics |-> Reads(<<GcloudCommands.listPubsubTopics>>),
     query_logs |-> Reads(<<GcloudCommands.queryLogs>>)])

=============================================================================

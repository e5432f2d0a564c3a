------------------------ MODULE NotionLinearActions -------------------------
(***************************************************************************)
(* The Notion and Linear connectors: the methods of their clients by what  *)
(* they do to the service, and the actions built on them.                  *)
(***************************************************************************)
EXTENDS ServiceTerms, TLC

\* fetchAttachment downloads a file from wherever the service keeps it: one
\* fetch, with a cap on its size.
FetchAttachment == GetOnce

\* search and query_database are POSTs that change nothing; init() asks for
\* the workspace when the client is made.
NotionReadClient ==
  [search |-> Get, getPage |-> Get, getDatabase |-> Get, queryDatabase |-> Get,
   listPageFileBlocks |-> Get, getBlock |-> Seek, getComments |-> Get]

\* updatePage sends the `archived` its caller gave and updateBlock whatever
\* object its caller gave, which may say archived or in_trash as well.
NotionWriteClient ==
  [createPage |-> Write({"create"}),
   updatePage |-> Write({"change", "remove"}),
   archivePage |-> Write({"remove"}),
   appendBlocks |-> Write({"create"}),
   updateBlock |-> Write({"change", "remove"}),
   deleteBlock |-> Write({"remove"}),
   createDatabaseEntry |-> Write({"create"}),
   updateDatabaseEntry |-> Write({"change"})]

NotionReads ==
  [search |-> Reads(<<NotionReadClient.search>>),
   get_page |-> Reads(<<NotionReadClient.getPage>>),
   get_database |-> Reads(<<NotionReadClient.getDatabase>>),
   query_database |-> Reads(<<NotionReadClient.queryDatabase>>),
   list_attachments |-> Reads(<<NotionReadClient.listPageFileBlocks>>),
   get_comments |-> Reads(<<NotionReadClient.getComments>>)]

\* The block must be a file and a direct child of the page named.
NotionAttachments ==
  [get_attachment |-> Reads(<<NotionReadClient.getBlock, FetchAttachment>>)]

NotionWrites ==
  [create_page |-> Writes(<<NotionWriteClient.createPage>>),
   update_page |-> Writes(<<NotionWriteClient.updatePage>>),
   archive_page |-> Deletes(<<NotionWriteClient.archivePage>>),
   append_blocks |-> Writes(<<NotionWriteClient.appendBlocks>>),
   update_block |-> Writes(<<NotionWriteClient.updateBlock>>),
   delete_block |-> Deletes(<<NotionWriteClient.deleteBlock>>),
   create_database_entry |-> Writes(<<NotionWriteClient.createDatabaseEntry>>),
   update_database_entry |-> Writes(<<NotionWriteClient.updateDatabaseEntry>>)]

Notion == Labelled("notion", NotionReads @@ NotionAttachments @@ NotionWrites)

----------------------------------------------------------------------------
\* Every method is a POST of a GraphQL document; the queries may find nothing.
LinearQueries ==
  [getIssue |-> Seek, searchIssues |-> Get, getProject |-> Seek, getTeam |-> Seek,
   getComments |-> Seek, listAttachments |-> Seek]

LinearMutations ==
  [createIssue |-> Mutation({"create"}),
   updateIssue |-> Mutation({"change"}),
   archiveIssue |-> Mutation({"remove"}),
   addComment |-> Mutation({"create"}),
   updateComment |-> Mutation({"change"}),
   deleteComment |-> Mutation({"remove"}),
   attachmentLink |-> Mutation({"create"})]

LinearReads ==
  [get_issue |-> Reads(<<LinearQueries.getIssue>>),
   search_issues |-> Reads(<<LinearQueries.searchIssues>>),
   get_project |-> Reads(<<LinearQueries.getProject>>),
   get_team |-> Reads(<<LinearQueries.getTeam>>),
   get_comments |-> Reads(<<LinearQueries.getComments>>),
   list_attachments |-> Reads(<<LinearQueries.listAttachments>>)]

LinearAttachments ==
  [get_attachment |-> Reads(<<LinearQueries.listAttachments, FetchAttachment>>)]

LinearWrites ==
  [create_issue |-> Writes(<<LinearMutations.createIssue>>),
   update_issue |-> Writes(<<LinearMutations.updateIssue>>),
   archive_issue |-> Deletes(<<LinearMutations.archiveIssue>>),
   add_comment |-> Writes(<<LinearMutations.addComment>>),
   update_comment |-> Writes(<<LinearMutations.updateComment>>),
   delete_comment |-> Deletes(<<LinearMutations.deleteComment>>),
   attachment_link |-> Writes(<<LinearMutations.attachmentLink>>)]

Linear == Labelled("linear", LinearReads @@ LinearAttachments @@ LinearWrites)

=============================================================================

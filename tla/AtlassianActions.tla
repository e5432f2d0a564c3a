-------------------------- MODULE AtlassianActions --------------------------
(***************************************************************************)
(* The Jira and Confluence connectors: the methods of JiraClient and       *)
(* ConfluenceClient by what they do to the service, and the actions built  *)
(* on them.                                                                *)
(***************************************************************************)
EXTENDS ServiceTerms, TLC

\* The attachment of an issue is looked up in the list of its attachments.
JiraReadClient ==
  [searchJql |-> Get, getIssue |-> Get, getProject |-> Get,
   listAttachments |-> Seek, getAttachmentDownload |-> Get, getComments |-> Get]

JiraWriteClient ==
  [createIssue |-> Write({"create"}),
   updateIssue |-> Write({"change"}),
   deleteIssue |-> Write({"remove"}),
   addComment |-> Write({"create"}),
   updateComment |-> Write({"change"}),
   deleteComment |-> Write({"remove"}),
   transitionIssue |-> Write({"change"}),
   postAttachment |-> Write({"create"})]

\* A list of attachments by itself is taken as it comes.
JiraIssueReads ==
  [jql_search |-> Reads(<<JiraReadClient.searchJql>>),
   get_issue |-> Reads(<<JiraReadClient.getIssue>>),
   get_project |-> Reads(<<JiraReadClient.getProject>>),
   list_attachments |-> Reads(<<[JiraReadClient.listAttachments EXCEPT !.checked = FALSE]>>)]

JiraContentReads ==
  [get_attachment |-> Reads(<<JiraReadClient.listAttachments,
                              JiraReadClient.getAttachmentDownload>>),
   get_comments |-> Reads(<<JiraReadClient.getComments>>)]

\* transition_issue sends its comment along with the transition.
JiraWrites ==
  [create_issue |-> Writes(<<JiraWriteClient.createIssue>>),
   update_issue |-> Writes(<<JiraWriteClient.updateIssue>>),
   delete_issue |-> Deletes(<<JiraWriteClient.deleteIssue>>),
   add_comment |-> Writes(<<JiraWriteClient.addComment>>),
   update_comment |-> Writes(<<JiraWriteClient.updateComment>>),
   delete_comment |-> Deletes(<<JiraWriteClient.deleteComment>>),
   transition_issue |-> Writes(<<JiraWriteClient.transitionIssue>>)]

\* A path outside the working directory fails the action before its request.
JiraUploads ==
  [post_attachment |-> Writes(<<JiraWriteClient.postAttachment>>)]

Jira ==
  Labelled("jira", JiraIssueReads @@ JiraContentReads @@ JiraWrites @@ JiraUploads)

----------------------------------------------------------------------------
ConfluenceReadClient ==
  [searchCql |-> Get, getContent |-> Get, getSpace |-> Get, listAttachments |-> Seek,
   getComments |-> Get, getAttachmentDownload |-> Get]

\* A comment is a content of its own, created like a page.
ConfluenceWriteClient ==
  [createPage |-> Write({"create"}),
   updatePage |-> Write({"change"}),
   deletePage |-> Write({"remove"}),
   addComment |-> Write({"create"}),
   postAttachment |-> Write({"create"})]

ConfluencePageReads ==
  [cql_search |-> Reads(<<ConfluenceReadClient.searchCql>>),
   get_page |-> Reads(<<ConfluenceReadClient.getContent>>),
   get_space |-> Reads(<<ConfluenceReadClient.getSpace>>),
   list_attachments |->
     Reads(<<[ConfluenceReadClient.listAttachments EXCEPT !.checked = FALSE]>>)]

ConfluenceContentReads ==
  [get_attachment |-> Reads(<<ConfluenceReadClient.listAttachments,
                              ConfluenceReadClient.getAttachmentDownload>>),
   get_comments |-> Reads(<<ConfluenceReadClient.getComments>>)]

ConfluenceWrites ==
  [create_page |-> Writes(<<ConfluenceWriteClient.createPage>>),
   update_page |-> Writes(<<ConfluenceWriteClient.updatePage>>),
   delete_page |-> Deletes(<<ConfluenceWriteClient.deletePage>>),
   add_comment |-> Writes(<<ConfluenceWriteClient.addComment>>)]

ConfluenceUploads ==
  [post_attachment |-> Writes(<<ConfluenceWriteClient.postAttachment>>)]

Confluence ==
  Labelled("confluence", ConfluencePageReads @@ ConfluenceContentReads
                         @@ ConfluenceWrites @@ ConfluenceUploads)

=============================================================================

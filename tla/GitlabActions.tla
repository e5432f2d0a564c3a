--------------------------- MODULE GitlabActions ----------------------------
(***************************************************************************)
(* The GitLab connector: the methods of GitlabClient by what they do to    *)
(* the service, and the actions built on them, file by file.               *)
(***************************************************************************)
EXTENDS ServiceTerms, TLC

GitlabLookupClient ==
  [getProject |-> Get, searchCode |-> Get, listIssues |-> Get, getIssue |-> Get,
   listMergeRequests |-> Get, getMergeRequest |-> Get, getFile |-> Get,
   getNotes |-> Get, getDiscussions |-> Get]

GitlabBuildClient ==
  [listReleaseLinks |-> Get, getReleaseLink |-> Get, listPipelines |-> Get,
   getPipeline |-> Get, listPipelineJobs |-> Get, getJobLogs |-> Get]

\* The update methods can reopen and never close.
GitlabIssueClient ==
  [createIssue |-> Write({"create"}),
   updateIssue |-> Write({"change"}),
   closeIssue |-> Write({"remove"})]

GitlabMergeClient ==
  [createMergeRequest |-> Write({"create"}),
   updateMergeRequest |-> Write({"change"}),
   closeMergeRequest |-> Write({"remove"}),
   mergeMergeRequest |-> Write({"merge"})]

\* A note with a position is a discussion, whose answer must hold its note.
GitlabNoteClient ==
  [addNote |-> CheckedWrite({"create"}),
   updateNote |-> Write({"change"}),
   deleteNote |-> Write({"remove"})]

GitlabReleaseClient ==
  [createRelease |-> Write({"create"}),
   updateRelease |-> Write({"change"}),
   deleteRelease |-> Write({"remove"}),
   deleteReleaseLink |-> Write({"remove"})]

GitlabPipelineClient ==
  [retryPipeline |-> Write({"create"}),
   cancelPipeline |-> Write({"change"}),
   triggerPipeline |-> Write({"create"}),
   playJob |-> Write({"create"})]

----------------------------------------------------------------------------
GitlabProjects ==
  [project_info |-> Reads(<<GitlabLookupClient.getProject>>),
   search_code |-> Reads(<<GitlabLookupClient.searchCode>>),
   get_issues |-> Reads(<<GitlabLookupClient.listIssues>>),
   get_issue |-> Reads(<<GitlabLookupClient.getIssue>>)]

GitlabReviews ==
  [get_merge_requests |-> Reads(<<GitlabLookupClient.listMergeRequests>>),
   get_merge_request |-> Reads(<<GitlabLookupClient.getMergeRequest>>),
   get_file |-> Reads(<<GitlabLookupClient.getFile>>)]

\* The notes of an issue; the two ways of listing end in one request each,
\* and those of a merge request come out of its discussions.
GitlabNoteLists ==
  [get_notes |-> Reads(<<GitlabLookupClient.getDiscussions>>)]

GitlabBuilds ==
  [list_release_links |-> Reads(<<GitlabBuildClient.listReleaseLinks>>),
   get_release_link |-> Reads(<<GitlabBuildClient.getReleaseLink>>),
   list_pipelines |-> Reads(<<GitlabBuildClient.listPipelines>>),
   get_pipeline |-> Reads(<<GitlabBuildClient.getPipeline>>),
   list_pipeline_jobs |-> Reads(<<GitlabBuildClient.listPipelineJobs>>),
   get_job_logs |-> Reads(<<GitlabBuildClient.getJobLogs>>)]

GitlabIssues ==
  [create_issue |-> Writes(<<GitlabIssueClient.createIssue>>),
   update_issue |-> Writes(<<GitlabIssueClient.updateIssue>>),
   close_issue |-> Deletes(<<GitlabIssueClient.closeIssue>>)]

GitlabMerges ==
  [create_merge_request |-> Writes(<<GitlabMergeClient.createMergeRequest>>),
   update_merge_request |-> Writes(<<GitlabMergeClient.updateMergeRequest>>),
   close_merge_request |-> Deletes(<<GitlabMergeClient.closeMergeRequest>>),
   merge_merge_request |-> Administers(<<GitlabMergeClient.mergeMergeRequest>>)]

GitlabNotes ==
  [add_note |-> Writes(<<GitlabNoteClient.addNote>>),
   update_note |-> Writes(<<GitlabNoteClient.updateNote>>),
   delete_note |-> Deletes(<<GitlabNoteClient.deleteNote>>)]

GitlabReleases ==
  [create_release |-> Writes(<<GitlabReleaseClient.createRelease>>),
   update_release |-> Writes(<<GitlabReleaseClient.updateRelease>>),
   delete_release |-> Deletes(<<GitlabReleaseClient.deleteRelease>>),
   delete_release_link |-> Deletes(<<GitlabReleaseClient.deleteReleaseLink>>)]

\* retry_pipeline and retry_failed_jobs are one and the same request.
GitlabPipelines ==
  [retry_pipeline |-> Writes(<<GitlabPipelineClient.retryPipeline>>),
   retry_failed_jobs |-> Writes(<<GitlabPipelineClient.retryPipeline>>),
   cancel_pipeline |-> Writes(<<GitlabPipelineClient.cancelPipeline>>),
   trigger_pipeline |-> Writes(<<GitlabPipelineClient.triggerPipeline>>),
   play_job |-> Writes(<<GitlabPipelineClient.playJob>>)]

Gitlab ==
  Labelled("gitlab", GitlabProjects @@ GitlabReviews @@ GitlabNoteLists @@ GitlabBuilds
                     @@ GitlabIssues @@ GitlabMerges @@ GitlabNotes @@ GitlabReleases
                     @@ GitlabPipelines)

=============================================================================

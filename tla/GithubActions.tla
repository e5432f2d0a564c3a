--------------------------- MODULE GithubActions ----------------------------
(***************************************************************************)
(* The GitHub connector: the methods of GithubClient by what they do to    *)
(* the service, and the actions built on them, file by file.  A paginated  *)
(* listing is a single request here; Listing models its pages.             *)
(***************************************************************************)
EXTENDS ServiceTerms, TLC

GithubReadClient ==
  [getRepo |-> Get, listIssues |-> Get, listPulls |-> Get, getFile |-> Get,
   searchCode |-> Get, getIssueComments |-> Get, getPullReviews |-> Get,
   getPullReviewComments |-> Get, listReleaseByTag |-> Get,
   getReleaseAssetDownload |-> Get]

\* updatePull can reopen and never close; closing has a method of its own.
GithubPullClient ==
  [getPull |-> Get,
   createPull |-> Write({"create"}),
   updatePull |-> Write({"change"}),
   closePull |-> Write({"remove"}),
   mergePull |-> Write({"merge"})]

GithubIssueClient ==
  [getIssue |-> Get,
   createIssue |-> Write({"create"}),
   updateIssue |-> Write({"change"}),
   closeIssue |-> Write({"remove"}),
   listWikiPages |-> Get]

GithubCommentClient ==
  [addIssueComment |-> Write({"create"}),
   updateIssueComment |-> Write({"change"}),
   deleteIssueComment |-> Write({"remove"}),
   addPrReviewComment |-> Write({"create"}),
   updatePrReviewComment |-> Write({"change"}),
   deletePrReviewComment |-> Write({"remove"})]

GithubReleaseClient ==
  [createRelease |-> Write({"create"}),
   updateRelease |-> Write({"change"}),
   deleteRelease |-> Write({"remove"}),
   deleteReleaseAsset |-> Write({"remove"})]

\* getRunLogsRedirect fetches by itself, with a timer of its own, and wants a
\* Location header.
GithubRunClient ==
  [listWorkflowRuns |-> Get, getWorkflowRun |-> Get, listRunJobs |-> Get,
   getRunLogsRedirect |-> SeekOnce,
   rerunRun |-> Write({"create"}),
   rerunFailedJobs |-> Write({"create"}),
   cancelRun |-> Write({"change"}),
   triggerWorkflowDispatch |-> Write({"create"})]

----------------------------------------------------------------------------
GithubLookups ==
  [repo_info |-> Reads(<<GithubReadClient.getRepo>>),
   search_code |-> Reads(<<GithubReadClient.searchCode>>),
   get_issues |-> Reads(<<GithubReadClient.listIssues>>),
   get_pulls |-> Reads(<<GithubReadClient.listPulls>>)]

GithubContents ==
  [get_file |-> Reads(<<GithubReadClient.getFile>>),
   get_issue_comments |-> Reads(<<GithubReadClient.getIssueComments>>),
   get_pr_review_comments |-> Reads(<<GithubReadClient.getPullReviews,
                                      GithubReadClient.getPullReviewComments>>)]

\* An asset that cannot be extracted is reported as skipped, not as an error.
GithubAssets ==
  [list_release_assets |-> Reads(<<GithubReadClient.listReleaseByTag>>),
   get_release_asset |-> Reads(<<GithubReadClient.getReleaseAssetDownload>>)]

GithubPulls ==
  [get_pull_request |-> Reads(<<GithubPullClient.getPull>>),
   create_pull_request |-> Writes(<<GithubPullClient.createPull>>),
   update_pull_request |-> Writes(<<GithubPullClient.updatePull>>),
   close_pull_request |-> Deletes(<<GithubPullClient.closePull>>),
   merge_pull_request |-> Administers(<<GithubPullClient.mergePull>>)]

GithubIssues ==
  [get_issue |-> Reads(<<GithubIssueClient.getIssue>>),
   create_issue |-> Writes(<<GithubIssueClient.createIssue>>),
   update_issue |-> Writes(<<GithubIssueClient.updateIssue>>),
   close_issue |-> Deletes(<<GithubIssueClient.closeIssue>>)]

GithubComments ==
  [add_issue_comment |-> Writes(<<GithubCommentClient.addIssueComment>>),
   update_issue_comment |-> Writes(<<GithubCommentClient.updateIssueComment>>),
   delete_issue_comment |-> Deletes(<<GithubCommentClient.deleteIssueComment>>),
   add_pr_review_comment |-> Writes(<<GithubCommentClient.addPrReviewComment>>),
   update_pr_review_comment |-> Writes(<<GithubCommentClient.updatePrReviewComment>>),
   delete_pr_review_comment |-> Deletes(<<GithubCommentClient.deletePrReviewComment>>)]

GithubReleases ==
  [create_release |-> Writes(<<GithubReleaseClient.createRelease>>),
   update_release |-> Writes(<<GithubReleaseClient.updateRelease>>),
   delete_release |-> Deletes(<<GithubReleaseClient.deleteRelease>>),
   delete_release_asset |-> Deletes(<<GithubReleaseClient.deleteReleaseAsset>>)]

GithubRuns ==
  [list_workflow_runs |-> Reads(<<GithubRunClient.listWorkflowRuns>>),
   get_workflow_run |-> Reads(<<GithubRunClient.getWorkflowRun>>),
   list_workflow_run_jobs |-> Reads(<<GithubRunClient.listRunJobs>>),
   get_workflow_run_logs |-> Reads(<<GithubRunClient.getRunLogsRedirect>>),
   rerun_workflow_run |-> Writes(<<GithubRunClient.rerunRun>>),
   rerun_failed_jobs |-> Writes(<<GithubRunClient.rerunFailedJobs>>),
   cancel_workflow_run |-> Writes(<<GithubRunClient.cancelRun>>),
   trigger_workflow_dispatch |-> Writes(<<GithubRunClient.triggerWorkflowDispatch>>)]

Github ==
  Labelled("github", GithubLookups @@ GithubContents @@ GithubAssets @@ GithubPulls
                     @@ GithubIssues @@ GithubComments @@ GithubReleases @@ GithubRuns)

=============================================================================

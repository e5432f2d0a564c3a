--------------------------- MODULE MCServiceCall ----------------------------
(***************************************************************************)
(* Every action of the eight service connectors, for ServiceCall; their    *)
(* listings, for Listing; and the client through which all of them go, for *)
(* HttpClient: two requests under a limit of two per window, so that both  *)
(* can be throttled at once, with stamps of different ages in the window.  *)
(* The three share no state.  A behaviour is one of a single part, and the *)
(* others stay where they begin; each part is fair where it is the one.    *)
(***************************************************************************)
EXTENDS ServiceCall, Listing, HttpClient, GithubActions, GitlabActions,
        AtlassianActions, NotionLinearActions, CloudActions

MCFloorOf ==
  [c \in {"github", "gitlab", "jira", "confluence", "notion", "linear", "aws", "gcp"} |->
     IF c \in {"github", "gitlab"} THEN {"delete"} ELSE {}]

MCActions == UNION {Github, Gitlab, Jira, Confluence, Notion, Linear, Aws, Gcp}

VARIABLE part

MCInit ==
  /\ part \in {"call", "listing", "http"}
  /\ Init /\ InitListing /\ InitHttp
  /\ part # "listing" => list = <<>> /\ maxResults = 1
  /\ part # "call" => /\ call.connector = "github" /\ call.name = "repo_info"
                      /\ rules = DefaultPolicy

MCNext ==
  /\ \/ part = "call" /\ Next /\ UNCHANGED <<lvars, hvars>>
     \/ part = "listing" /\ ListingNext /\ UNCHANGED <<vars, hvars>>
     \/ part = "http" /\ HttpNext /\ UNCHANGED <<vars, lvars>>
  /\ UNCHANGED part

\* Fairness and HttpFairness, each in its own part.
MCFairness ==
  /\ part = "call" => Fairness
  /\ part = "http" => HttpFairness

MCSpec == MCInit /\ [][MCNext]_<<vars, lvars, hvars, part>> /\ MCFairness
=============================================================================

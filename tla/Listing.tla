------------------------------- MODULE Listing ------------------------------
(***************************************************************************)
(* The listings of the service connectors.  paginate (GitHub) and          *)
(* paginateGitlab walk the pages of a list one request at a time, while    *)
(* others add to it at its newest end and remove from it.                  *)
(***************************************************************************)
EXTENDS Naturals, Sequences, FiniteSets, SequencesExt

CONSTANTS
  MaxItems,  \* bound: the items there ever are
  Limits,    \* the values of max_results considered, capped
  PageCap    \* GITHUB_MAX_PER_PAGE and GITLAB_MAX_PER_PAGE

ASSUME PagesArePositive ==
  Limits \subseteq Nat \ {0} /\ PageCap \in Nat \ {0} /\ MaxItems \in Nat

Item == 1..MaxItems

VARIABLES
  list,       \* the list on the server, newest first
  maxResults, \* what the caller asked for
  page,       \* the next page to fetch, 0 once the listing has returned
  acc,        \* the items fetched
  items,      \* what was returned
  truncated,  \* and whether it was said to be truncated
  original,   \* history: the list when the listing began
  added,      \* history: an item was added meanwhile
  removed     \* history: the items removed meanwhile

lvars == <<list, maxResults, page, acc, items, truncated, original, added, removed>>
answer == <<items, truncated>>

Least(a, b) == IF a < b THEN a ELSE b

ListingTypeOK ==
  /\ list \in Seq(Item) /\ IsInjective(list)
  /\ maxResults \in Limits
  /\ page \in Nat
  /\ acc \in Seq(Item)
  /\ items \in Seq(Item) /\ Len(items) <= maxResults
  /\ truncated \in BOOLEAN
  /\ original \in Seq(Item)
  /\ added \in BOOLEAN
  /\ removed \subseteq Item

\* The items are named by their place at the beginning.
InitListing ==
  /\ \E n \in 0..MaxItems : list = [i \in 1..n |-> i]
  /\ maxResults \in Limits
  /\ page = 1
  /\ acc = <<>>
  /\ items = <<>>
  /\ truncated = FALSE
  /\ original = list
  /\ added = FALSE
  /\ removed = {}

----------------------------------------------------------------------------
perPage == Least(PageCap, maxResults)

\* Page n as the server cuts it: by offset, in the list of the moment.
Chunk(n) == SubSeq(list, (n - 1) * perPage + 1, Least(n * perPage, Len(list)))

\* A bug: what the last page brings too much is returned with the rest.
GiveAll(got, more) ==
  /\ page' = 0
  /\ items' = got
  /\ truncated' = more

Give(got, more) ==
  /\ page' = 0
  /\ items' = SubSeq(got, 1, Least(maxResults, Len(got)))
  /\ truncated' = more

\* A bug: a full last page is taken for the end of the list.
FetchPageHasty ==
  /\ page > 0
  /\ acc' = acc \o Chunk(page)
  /\ IF Len(Chunk(page)) < perPage \/ Len(acc') >= maxResults
     THEN Give(acc', FALSE)
     ELSE page' = page + 1 /\ UNCHANGED answer
  /\ UNCHANGED <<list, maxResults, original, added, removed>>

\* A bug: the pages are counted from 0, and the server takes 0 for 1.
FetchPageTwice ==
  /\ page > 0
  /\ acc' = acc \o Chunk(IF page = 1 THEN 1 ELSE page - 1)
  /\ \/ Len(Chunk(page)) < perPage /\ Give(acc', FALSE)
     \/ Len(Chunk(page)) = perPage /\ Len(acc') >= maxResults /\ Give(acc', TRUE)
     \/ /\ Len(Chunk(page)) = perPage /\ Len(acc') < maxResults
        /\ page' = page + 1 /\ UNCHANGED answer
  /\ UNCHANGED <<list, maxResults, original, added, removed>>

\* One turn of the loop: a short page ends it, and is looked at before the
\* number of items is; a full page with enough items ends it as truncated.
FetchPage ==
  /\ page > 0
  /\ acc' = acc \o Chunk(page)
  /\ \/ Len(Chunk(page)) < perPage /\ Give(acc', FALSE)
     \/ Len(Chunk(page)) = perPage /\ Len(acc') >= maxResults /\ Give(acc', TRUE)
     \/ /\ Len(Chunk(page)) = perPage /\ Len(acc') < maxResults
        /\ page' = page + 1 /\ UNCHANGED answer
  /\ UNCHANGED <<list, maxResults, original, added, removed>>

\* Somebody else adds an item, or removes one, between two pages.
Add ==
  /\ page > 1
  /\ \E i \in Item \ (Range(list) \cup removed \cup Range(original)) : list' = <<i>> \o list
  /\ added' = TRUE
  /\ UNCHANGED <<maxResults, page, acc, answer, original, removed>>

Withdraw ==
  /\ page > 1
  /\ \E n \in DOMAIN list :
       /\ list' = RemoveAt(list, n)
       /\ removed' = removed \cup {list[n]}
  /\ UNCHANGED <<maxResults, page, acc, answer, original, added>>

ListingNext == FetchPage \/ Add \/ Withdraw

ListingSpec == InitListing /\ [][ListingNext]_lvars

----------------------------------------------------------------------------
\* Properties.

returned == page = 0
still == list = original
whole == maxResults <= PageCap \/ maxResults % PageCap = 0

\* Over a list that does not change, a listing returns its first items in
\* order and once each, as many as were asked for.
AnswerIsThePrefix ==
  returned /\ removed = {} /\ ~added =>
    items = SubSeq(original, 1, Least(maxResults, Len(original)))

\* A listing that does not say it is truncated holds every item that was there
\* from beginning to end, even when items are added between its pages.  Its
\* limit must be made of whole pages (see ExceedingIsTruncated), and nothing
\* removed: a removal moves an item onto a page already read.
UntruncatedIsWhole ==
  returned /\ ~truncated /\ whole /\ removed = {} => Range(original) \subseteq Range(items)

\* "sets truncated=true when results exceed max_results" (a unit test's name):
\* this one does not hold, for a short last page is looked at first.
ExceedingIsTruncated ==
  returned /\ still /\ Len(original) > maxResults => truncated

=============================================================================

---------------------------- MODULE ServiceTerms ----------------------------
(***************************************************************************)
(* The terms the service connectors (github, gitlab, jira, confluence,     *)
(* notion, linear, aws, gcp) are written in.  A client method is a         *)
(* request: what the caller's arguments can make it do to the service, and *)
(* how it is sent.  An action is its classification and the script of      *)
(* requests its handler makes, one after the other.                        *)
(***************************************************************************)
EXTENDS Naturals, Sequences

\* Creating, commenting and starting a run add something each time they are
\* done; changing, removing and merging leave the same thing done twice.
Effect == {"create", "change", "remove", "merge"}

Request == [effects : SUBSET Effect,
            retried : BOOLEAN,   \* sent through HttpClient's retry loop
            graphql : BOOLEAN,   \* a 2xx answer may say that nothing was done
            checked : BOOLEAN]   \* the caller may reject what a 2xx answer holds

Get == [effects |-> {}, retried |-> TRUE, graphql |-> FALSE, checked |-> FALSE]

\* A request whose answer is searched for what the next step needs, or whose
\* body may lack what the caller wants.
Seek == [Get EXCEPT !.checked = TRUE]

\* A request made without the retry loop.
GetOnce == [Get EXCEPT !.retried = FALSE]
SeekOnce == [GetOnce EXCEPT !.checked = TRUE]

\* POST, PATCH, PUT and DELETE; E is what the arguments may ask for.
Write(E) == [Get EXCEPT !.effects = E]
CheckedWrite(E) == [Write(E) EXCEPT !.checked = TRUE]

\* A GraphQL mutation.
Mutation(E) == [Write(E) EXCEPT !.graphql = TRUE]

\* The classifications the actions declare.
Action(kind, aspects, script) ==
  [class |-> [kind |-> kind, aspects |-> aspects], script |-> script]

Reads(script) == Action("read", {}, script)
Writes(script) == Action("write", {}, script)

\* A bug: the aspect is left out of the classification.
DeletesAsWrites(script) == Action("write", {}, script)

Deletes(script) == Action("write", {"delete"}, script)
Administers(script) == Action("admin", {}, script)

\* The actions of one connector, labelled.
Labelled(connector, table) ==
  {[connector |-> connector, name |-> n, class |-> table[n].class,
    script |-> table[n].script] : n \in DOMAIN table}

=============================================================================

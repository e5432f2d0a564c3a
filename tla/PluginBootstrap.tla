--------------------------- MODULE PluginBootstrap ---------------------------
(***************************************************************************)
(* How the plugins come by the package their hooks run from.  At the start *)
(* of a session two commands of each plugin's hooks.json run: a shell line *)
(* that runs `npm install` when the plugin's package.json has changed, and *)
(* the dispatcher (plugin-hooks/dispatcher.mjs), found inside the package, *)
(* whose ensureBootstrap links the plugin's node_modules to those of a     *)
(* sibling that has the wanted version, or installs.                       *)
(*                                                                         *)
(* The plugins' data directories are shared by the processes of all        *)
(* sessions, without a lock; any of them may be killed, its session ended  *)
(* or its time spent, between two steps.  npm and the host that starts the *)
(* hooks are external.                                                     *)
(***************************************************************************)
EXTENDS Naturals, FiniteSets

CONSTANTS
  Plugin,      \* the plugins installed
  Hook,        \* bound: the hook processes at work at once
  MaxVersion,  \* bound: the versions of narai-primitives ever published
  Nothing

ASSUME PluginsAreFinite == IsFiniteSet(Plugin)
ASSUME SomeVersion == MaxVersion \in Nat \ {0}

VARIABLES
  want,        \* the least version each plugin's package.json asks for
  newest,      \* the newest version published
  stamp,       \* the version in the copy of package.json in its data directory
  modules,     \* its node_modules
  job,         \* what each hook process is at
  hurt,        \* history: the plugins one of whose processes was killed after it
               \* removed the tree or with npm at work, or whose dispatcher's npm
               \* brought nothing
  served       \* history: the plugins that have had a node_modules

bvars == <<want, newest, stamp, modules, job, hurt, served>>
registry == <<want, newest>>

Version == 1..MaxVersion
Absent == [kind |-> "absent"]
LinkTo(p) == [kind |-> "link", to |-> p]
Tree(v, whole) == [kind |-> "tree", version |-> v, whole |-> whole]
Modules ==
  {Absent} \cup [kind : {"link"}, to : Plugin]
           \cup [kind : {"tree"}, version : Version \cup {Nothing}, whole : BOOLEAN]

\* A process: its plugin, whether it is the dispatcher, the version it is
\* after, the sibling it found, whether it removed the old tree.
Job == [pc : {"find", "remove", "link", "install", "unpack"}, plugin : Plugin,
        dispatcher : BOOLEAN, version : Version, sibling : Plugin \cup {Nothing},
        stripped : BOOLEAN]

ASSUME NothingIsNothing == Nothing \notin Version \cup Plugin \cup Job

BootstrapTypeOK ==
  /\ want \in [Plugin -> Version]
  /\ newest \in Version
  /\ stamp \in [Plugin -> Version \cup {Nothing}]
  /\ modules \in [Plugin -> Modules]
  /\ job \in [Hook -> Job \cup {Nothing}]
  /\ hurt \subseteq Plugin
  /\ served \subseteq Plugin

InitBootstrap ==
  /\ newest \in Version
  /\ want \in [Plugin -> 1..newest]
  /\ stamp = [p \in Plugin |-> Nothing]
  /\ modules = [p \in Plugin |-> Absent]
  /\ job = [h \in Hook |-> Nothing]
  /\ hurt = {}
  /\ served = {}

----------------------------------------------------------------------------
\* The file system, as a path through node_modules sees it.

\* The plugins that a path through p's node_modules passes, as many links as
\* there can be without a circle.
Path(p) ==
  LET at[n \in 0..Cardinality(Plugin)] ==
        IF n = 0 THEN p
        ELSE IF modules[at[n - 1]].kind = "link" THEN modules[at[n - 1]].to ELSE at[n - 1]
  IN  at

\* Where it leads: to a tree, to nothing, or, in a circle, to a link.
Found(p) == modules[Path(p)[Cardinality(Plugin)]]

Exists(p) == Found(p).kind = "tree"
Usable(p) == Exists(p) /\ Found(p).whole
Installed(p) == IF Exists(p) THEN Found(p).version ELSE Nothing

Working == {h \in Hook : job[h] # Nothing}

\* The host starts a process, for any plugin and beside any others: nobody
\* takes a lock.
Start(h, j) == job[h] = Nothing /\ job' = [job EXCEPT ![h] = j]

GoOn(h, next) == job' = [job EXCEPT ![h].pc = next]
End(h) == job' = [job EXCEPT ![h] = Nothing]

AJob(p, dispatcher, first) ==
  [pc |-> first, plugin |-> p, dispatcher |-> dispatcher, version |-> want[p],
   sibling |-> Nothing, stripped |-> FALSE]

----------------------------------------------------------------------------
\* The shell line of hooks.json: `diff` the two package.json, and if they
\* differ copy the one and run npm.
Command(h, p) ==
  /\ stamp[p] # want[p]
  /\ Start(h, AJob(p, FALSE, "install"))
  /\ stamp' = [stamp EXCEPT ![p] = want[p]]
  /\ UNCHANGED <<registry, modules, hurt>>

\* The dispatcher, if node finds it: ensureBootstrap looks at the version that
\* is installed, and is done when it is the wanted one.
Dispatch(h, p) ==
  /\ Exists(p) /\ Installed(p) # want[p]
  /\ Start(h, AJob(p, TRUE, "find"))
  /\ UNCHANGED <<registry, stamp, modules, hurt>>

Fallback(h) ==
  /\ stamp' = [stamp EXCEPT ![job[h].plugin] = want[job[h].plugin]]
  /\ job' = [job EXCEPT ![h].pc = "install", ![h].sibling = Nothing]

\* A bug: the old tree is removed before there is a sibling to link to.
RemoveThenFind(h) ==
  /\ job[h] # Nothing /\ job[h].pc = "find"
  /\ LET p == job[h].plugin
         siblings == {q \in Plugin \ {p} : Installed(q) = job[h].version}
     IN  /\ modules' = [modules EXCEPT ![p] = Absent]
         /\ IF siblings = {} THEN Fallback(h)
            ELSE /\ \E q \in siblings :
                      job' = [job EXCEPT ![h].sibling = q, ![h].pc = "link"]
                 /\ UNCHANGED stamp
  /\ UNCHANGED <<registry, hurt>>

\* findSiblingInstall, in whatever order the directories are listed.
Find(h) ==
  /\ job[h] # Nothing /\ job[h].pc = "find"
  /\ LET siblings == {q \in Plugin \ {job[h].plugin} : Installed(q) = job[h].version}
     IN  IF siblings = {} THEN Fallback(h)
         ELSE /\ \E q \in siblings :
                   job' = [job EXCEPT ![h].sibling = q, ![h].pc = "remove"]
              /\ UNCHANGED stamp
  /\ UNCHANGED <<registry, modules, hurt>>

\* rmSync, of a tree or of a link.
Remove(h) ==
  /\ job[h] # Nothing /\ job[h].pc = "remove"
  /\ IF Exists(job[h].plugin)
     THEN /\ modules' = [modules EXCEPT ![job[h].plugin] = Absent]
          /\ job' = [job EXCEPT ![h].pc = "link", ![h].stripped = TRUE]
     ELSE GoOn(h, "link") /\ UNCHANGED modules
  /\ UNCHANGED <<registry, stamp, hurt>>

Link(h) ==
  /\ job[h] # Nothing /\ job[h].pc = "link"
  /\ modules[job[h].plugin] = Absent
  /\ modules' = [modules EXCEPT ![job[h].plugin] = LinkTo(job[h].sibling)]
  /\ End(h)
  /\ UNCHANGED <<registry, stamp, hurt>>

\* symlinkSync throws: something is there, or links are not allowed.
LinkFails(h) ==
  /\ job[h] # Nothing /\ job[h].pc = "link"
  /\ Fallback(h)
  /\ UNCHANGED <<registry, modules, hurt>>

----------------------------------------------------------------------------
\* npm install (external).  It replaces a link by a tree of its own, with a
\* version in the range that package.json asks for; without a package.json it
\* finds nothing to do.  What it has unpacked may show a version before it is
\* whole.

Unpack(h) ==
  /\ job[h] # Nothing /\ job[h].pc = "install"
  /\ stamp[job[h].plugin] # Nothing
  /\ \E v \in stamp[job[h].plugin]..newest : \E shown \in {Nothing, v} :
       /\ job' = [job EXCEPT ![h].pc = "unpack", ![h].version = v]
       /\ modules' = [modules EXCEPT ![job[h].plugin] = Tree(shown, FALSE)]
  /\ UNCHANGED <<registry, stamp, hurt>>

NothingToUnpack(h) ==
  /\ job[h] # Nothing /\ job[h].pc = "install"
  /\ LET p == job[h].plugin
     IN  /\ stamp[p] # Nothing =>
              modules[p].kind = "tree" /\ modules[p].whole /\ modules[p].version >= stamp[p]
         /\ hurt' = IF stamp[p] = Nothing /\ job[h].dispatcher THEN hurt \cup {p} ELSE hurt
  /\ End(h)
  /\ UNCHANGED <<registry, stamp, modules>>

Unpacked(h) ==
  /\ job[h] # Nothing /\ job[h].pc = "unpack"
  /\ modules' = IF modules[job[h].plugin].kind = "tree"
                THEN [modules EXCEPT ![job[h].plugin] = Tree(job[h].version, TRUE)]
                ELSE modules
  /\ End(h)
  /\ UNCHANGED <<registry, stamp, hurt>>

\* A bug: the shell line without its `|| rm -f`.
InstallFailsSilently(h) ==
  /\ job[h] # Nothing /\ job[h].pc = "install"
  /\ hurt' = IF job[h].dispatcher THEN hurt \cup {job[h].plugin} ELSE hurt
  /\ End(h)
  /\ UNCHANGED <<registry, stamp, modules>>

\* npm fails before it changes anything.  The shell line then takes its copy of
\* package.json back; ensureBootstrap does not look at how npm ended.
InstallFails(h) ==
  /\ job[h] # Nothing /\ job[h].pc = "install"
  /\ IF job[h].dispatcher
     THEN hurt' = hurt \cup {job[h].plugin} /\ UNCHANGED stamp
     ELSE stamp' = [stamp EXCEPT ![job[h].plugin] = Nothing] /\ UNCHANGED hurt
  /\ End(h)
  /\ UNCHANGED <<registry, modules>>

----------------------------------------------------------------------------
\* The surroundings.

\* Where a kill leaves the plugin with less than it had, or with a copy of
\* package.json that says it has what it has not.
Exposed(h) == job[h].stripped \/ job[h].pc \in {"install", "unpack"}

Kill(h) ==
  /\ job[h] # Nothing
  /\ End(h)
  /\ hurt' = IF Exposed(h) THEN hurt \cup {job[h].plugin} ELSE hurt
  /\ UNCHANGED <<registry, stamp, modules>>

\* A bug: plugins are released before the package they ask for.
UpdateAhead(p) ==
  /\ want[p] <= newest
  /\ want' = [want EXCEPT ![p] = @ + 1]
  /\ UNCHANGED <<newest, stamp, modules, job, hurt>>

\* The plugin is updated, to ask for a newer version.
Update(p) ==
  /\ want[p] < newest
  /\ want' = [want EXCEPT ![p] = @ + 1]
  /\ UNCHANGED <<newest, stamp, modules, job, hurt>>

Publish ==
  /\ newest < MaxVersion
  /\ newest' = newest + 1
  /\ UNCHANGED <<want, stamp, modules, job, hurt>>

BootstrapNext ==
  /\ \/ \E h \in Hook :
          \/ \E p \in Plugin : Command(h, p) \/ Dispatch(h, p)
          \/ Find(h) \/ Remove(h) \/ Link(h) \/ LinkFails(h)
          \/ Unpack(h) \/ NothingToUnpack(h) \/ Unpacked(h) \/ InstallFails(h)
          \/ Kill(h)
     \/ \E p \in Plugin : Update(p)
     \/ Publish
  /\ served' = served \cup {p \in Plugin : modules'[p] # Absent}

BootstrapSpec == InitBootstrap /\ [][BootstrapNext]_bvars

----------------------------------------------------------------------------
\* Properties.

Quiet == Working = {}
\* The plugin whose own node_modules p uses, through its links.
Owner(p) == Path(p)[Cardinality(Plugin)]
Circular(p) == Found(p).kind = "link"

\* A plugin that has once had a package has one when no process is at work,
\* whichever processes of it and of its siblings installed, linked to, removed
\* or updated what in between, and however often npm failed or processes were
\* killed elsewhere; but for the plugins that find their package, through
\* their links, at a plugin hurt in an exposed step, and for those whose links
\* have come to lead in a circle (see LinksEnd).
ServedStaysServed == Quiet => \A p \in served : Usable(p) \/ Owner(p) \in hurt \/ Circular(p)

\* "If the install fails, removes the stale copy so the hook re-runs next
\* session": a plugin that never had a package does not look as if it had.
\* But for a killed install, which leaves the copy.
BrokenIsRetried == Quiet => \A p \in Plugin \ served : stamp[p] # want[p] \/ p \in hurt

\* A sibling's package is what a plugin is linked to: the links lead to a
\* package or to nothing, never in a circle.
LinksEnd == \A p \in Plugin : ~Circular(p)
=============================================================================

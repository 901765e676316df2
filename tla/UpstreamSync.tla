------------------------------- MODULE UpstreamSync -------------------------------
(***************************************************************************)
(* Delivering a docs site to its own repository                            *)
(* (.github/workflows/uc-docs-sync.yml, scripts/mirror-site.sh): every     *)
(* push to main cancels the run in progress and starts another, which      *)
(* emits into a fresh checkout, mirrors the site over a checkout of        *)
(* upstream, and keeps one pull request up to date.  Or, in another        *)
(* behaviour, the emitter works in a developer's directory, which keeps    *)
(* what earlier emits left there.                                          *)
(***************************************************************************)
EXTENDS SiteSync

CONSTANTS
    FirstSource,   \* the content to begin with
    NoRun, NoBranch,
    MaxPushes, MaxMerges, MaxFailures    \* bounds

VARIABLES
    place,      \* where this behaviour emits: a developer's directory or the workflow's
    run,        \* the workflow run in progress
    pushed,     \* main was pushed to and no run has started for it
    upstream,   \* the main branch of the site's own repository
    branch,     \* docs-factory/sync there
    pr,         \* whether its pull request is open
    events,     \* how many pushes, merges and failures there have been
    failed,     \* history: the latest run failed
    raced       \* history: the pull request was merged while a run was in progress

upVars == <<run, pushed, upstream, branch, pr, events, failed, raced>>
vars == <<source, siteVars, place, upVars>>

EmptySite == [files |-> File(Shell, "shell"), manifest |-> NoManifest]

Site(src) == Onto(Render(src, FALSE), EmptySite.files)

Checkout ==
    {EmptySite} \cup [ files    : {Site(src) : src \in Source},
                       manifest : {NextManifest(src, FALSE) : src \in Source} ]
Branch == [tree : Checkout, base : Checkout]

ASSUME SyncAssumption == FirstSource \in Source /\ NoBranch \notin Branch

Init ==
    /\ place \in {"developer", "workflow"}
    /\ source = FirstSource
    /\ disk = EmptySite.files
    /\ manifest = NoManifest
    /\ emit = Idle
    /\ bounds = [emits |-> 0, crashes |-> 0, edits |-> 0]
    /\ strays = {}
    /\ run = NoRun
    /\ pushed = FALSE
    /\ upstream = EmptySite
    /\ branch = NoBranch
    /\ pr = FALSE
    /\ events = [pushes |-> 0, merges |-> 0, failures |-> 0]
    /\ failed = FALSE
    /\ raced = FALSE

(* A push of other content, which the paths of the trigger cover, cancels   *)
(* the run in progress.                                                     *)
Push(src) ==
    /\ src # source
    /\ events.pushes < MaxPushes
    /\ source' = src
    /\ events' = [events EXCEPT !.pushes = @ + 1]
    /\ run' = NoRun
    /\ pushed' = (place = "workflow")
    /\ UNCHANGED <<siteVars, place, upstream, branch, pr, failed, raced>>

(* So does starting the workflow by hand, or pushing to those paths what    *)
(* leaves the site's content as it was.                                     *)
Dispatch ==
    /\ place = "workflow"
    /\ events.pushes < MaxPushes
    /\ events' = [events EXCEPT !.pushes = @ + 1]
    /\ run' = NoRun
    /\ pushed' = TRUE
    /\ UNCHANGED <<source, siteVars, place, upstream, branch, pr, failed, raced>>

(* Checks out main and upstream main, and seeds the manifest of the latter. *)
StartRun ==
    /\ pushed
    /\ pushed' = FALSE
    /\ run' = [pc |-> "emit", source |-> source, base |-> upstream, tree |-> upstream]
    /\ failed' = FALSE
    /\ UNCHANGED <<source, siteVars, place, upstream, branch, pr, events, raced>>

Goto(pc) == run' = [run EXCEPT !.pc = pc]

EmitReadyPages ==
    /\ run # NoRun /\ run.pc = "emit"
    /\ IF EmitFails(run.source, FALSE)
       THEN /\ run' = NoRun
            /\ failed' = TRUE
       ELSE LET next == NextManifest(run.source, FALSE)
                dir  == EmptySite.files
                plan == PlanSync(next.files, run.base.manifest, dir)
                kept == [path \in DOMAIN dir \ plan.remove |-> dir[path]]
                tree == Onto([path \in plan.write |-> next.files[path]], kept)
            IN  /\ run' = [run EXCEPT !.pc = "mirror", !.tree = [files |-> tree, manifest |-> next]]
                /\ UNCHANGED failed
    /\ UNCHANGED <<source, siteVars, place, pushed, upstream, branch, pr, events, raced>>

(* Mutant: rsync without --delete. *)
MirroredOver(tree, base) == [tree EXCEPT !.files = Onto(@, base.files)]

Mirrored(tree, base) == tree

(* Nothing but the manifest changed: leave the pull request alone. *)
MirrorIntoUpstream ==
    /\ run # NoRun /\ run.pc = "mirror"
    /\ LET tree == Mirrored(run.tree, run.base)
       IN  run' = [run EXCEPT !.tree = tree,
                              !.pc = IF tree.files = run.base.files THEN "close" ELSE "push"]
    /\ UNCHANGED <<source, siteVars, place, pushed, upstream, branch, pr, events, failed, raced>>

(* Mutant: a branch that exists is not pushed to. *)
PushOnce ==
    /\ run # NoRun /\ run.pc = "push"
    /\ branch' = IF branch # NoBranch THEN branch ELSE [tree |-> run.tree, base |-> run.base]
    /\ Goto("pr")
    /\ UNCHANGED <<source, siteVars, place, pushed, upstream, pr, events, failed, raced>>

PushBranch ==
    /\ run # NoRun /\ run.pc = "push"
    /\ branch' = IF branch # NoBranch /\ branch.tree.files = run.tree.files THEN branch
                 ELSE [tree |-> run.tree, base |-> run.base]
    /\ Goto("pr")
    /\ UNCHANGED <<source, siteVars, place, pushed, upstream, pr, events, failed, raced>>

OpenPullRequest ==
    /\ run # NoRun /\ run.pc = "pr"
    /\ pr' = TRUE
    /\ run' = NoRun
    /\ UNCHANGED <<source, siteVars, place, pushed, upstream, branch, events, failed, raced>>

CloseStalePullRequest ==
    /\ run # NoRun /\ run.pc = "close"
    /\ pr' = FALSE
    /\ branch' = IF pr THEN NoBranch ELSE branch
    /\ run' = NoRun
    /\ UNCHANGED <<source, siteVars, place, pushed, upstream, events, failed, raced>>

(* A step fails, the build of the site among them. *)
FailRun ==
    /\ run # NoRun
    /\ events.failures < MaxFailures
    /\ events' = [events EXCEPT !.failures = @ + 1]
    /\ run' = NoRun
    /\ failed' = TRUE
    /\ UNCHANGED <<source, siteVars, place, pushed, upstream, branch, pr, raced>>

(* A three-way merge, file by file; a file both sides changed is a conflict.  *)
(* One in the manifest is taken to be settled as the branch has it: more is  *)
(* merged here than git would merge by itself.                               *)
FileOf(site, path) == IF path \in DOMAIN site.files THEN {site.files[path]} ELSE {}
Theirs(path) == FileOf(branch.tree, path) # FileOf(branch.base, path)
Ours(path) == FileOf(upstream, path) # FileOf(branch.base, path)

MergePullRequest ==
    /\ pr
    /\ events.merges < MaxMerges
    /\ \A path \in Path :
          Theirs(path) /\ Ours(path) => FileOf(branch.tree, path) = FileOf(upstream, path)
    /\ LET kept == {path \in Path : FileOf(IF Theirs(path) THEN branch.tree ELSE upstream, path) # {}}
       IN  upstream' = [ files    |-> [path \in kept |-> IF Theirs(path) THEN branch.tree.files[path]
                                                        ELSE upstream.files[path]],
                         manifest |-> branch.tree.manifest ]
    /\ pr' = FALSE
    /\ events' = [events EXCEPT !.merges = @ + 1]
    /\ raced' = (raced \/ run # NoRun)
    /\ UNCHANGED <<source, siteVars, place, run, pushed, branch, failed>>

RunStep ==
    \/ StartRun \/ EmitReadyPages \/ MirrorIntoUpstream
    \/ PushBranch \/ OpenPullRequest \/ CloseStalePullRequest

Next ==
    \/ \E src \in Source : Push(src)
    \/ Dispatch
    \/ place = "developer" /\ EmitterNext /\ UNCHANGED <<place, upVars>>
    \/ RunStep \/ FailRun \/ MergePullRequest

Fairness == WF_vars(RunStep)

Spec == Init /\ [][Next]_vars /\ Fairness

(***************************************************************************)
(* Properties                                                              *)
(***************************************************************************)
(* Directories and branches hold files of the site, and the site's own file *)
(* among them; an emit only has the emitter's files to write and to remove, *)
(* whatever the manifest lists.                                             *)
TypeOK ==
    /\ source \in Source
    /\ DOMAIN disk \subseteq Path /\ Shell \in DOMAIN disk
    /\ manifest # NoManifest => DOMAIN manifest.pages \subseteq Page /\ DOMAIN manifest.files \subseteq Path
    /\ emit # Idle => Shell \notin emit.write \cup emit.remove
    /\ strays \subseteq Path \ {Shell}
    /\ place \in {"developer", "workflow"}
    /\ run # NoRun => run.pc \in {"emit", "mirror", "push", "pr", "close"}
    /\ DOMAIN upstream.files \subseteq Path
    /\ branch # NoBranch => DOMAIN branch.tree.files \subseteq Path
    /\ pr => branch # NoBranch
    /\ {pushed, pr, failed, raced} \subseteq BOOLEAN

(* An emit that ends has repaired what hands and earlier crashes did to the *)
(* files it renders, and has left nothing else of the emitter's behind but  *)
(* strays: files that no manifest listed right after a crash, the crash     *)
(* having come before the manifest was written, or torn it in the writing.  *)
EmitEnds == emit # Idle /\ emit' = Idle /\ bounds'.crashes = bounds.crashes

EmitRepairsSite ==
    [][EmitEnds =>
         /\ \A path \in DOMAIN emit.manifest.files : Holds(disk', path, emit.manifest.files[path])
         /\ DOMAIN disk' \subseteq DOMAIN emit.manifest.files \cup {Shell} \cup strays']_vars

(* The change report accounts for every page once: a page that came, went,  *)
(* or differs from the previous manifest in its content, the code it        *)
(* includes or its output is in one class, and as a rename it is one half   *)
(* of a pair of equal bodies; a page that is the same is in none.           *)
Classes(report, p) ==
    {name \in {"added", "removed", "changed", "renderOnly"} : p \in report[name]}
      \cup {<<pair>> : pair \in {pr1 \in report.renamed : p \in {pr1[1], pr1[2]}}}

SamePage(p, old, new) ==
    /\ p \in DOMAIN PreviousPages(old) \cap DOMAIN new.pages
    /\ PreviousPages(old)[p] = new.pages[p]
    /\ \A out \in {"src/content", "public"} : Holds(PreviousFiles(old), <<out, p>>, new.files[<<out, p>>])

ReportAccounts ==
    emit # Idle =>
        \A p \in DOMAIN PreviousPages(emit.previous) \cup DOMAIN emit.manifest.pages :
            Cardinality(Classes(emit.report, p)) =
                IF SamePage(p, emit.previous, emit.manifest) THEN 0 ELSE 1

(* What is upstream is the site of one content in every file, never pages   *)
(* of two, nor a page its content no longer publishes, whichever branch was *)
(* merged over which main.                                                  *)
UpstreamIsOneSite ==
    upstream = EmptySite \/ \E src \in Source : upstream.files = Site(src)

(* Once pushes, merges and failures stop, main is upstream or in the open   *)
(* pull request, whatever was cancelled, superseded or reverted before.     *)
Delivered ==
    \/ upstream.files = Site(source) /\ ~pr
    \/ pr /\ branch.tree.files = Site(source)

EventuallyDelivered ==
    <>[](events.pushes > 0 /\ place = "workflow" /\ ~failed /\ ~raced => Delivered)
=============================================================================

-------------------------------- MODULE SiteSync --------------------------------
(***************************************************************************)
(* The docs emitter and the directory it keeps in step with the content    *)
(* (emit/docs/emit-docs.mjs, sync.mjs).  An emit renders the whole site in *)
(* memory, then writes what differs on disk, removes what the previous     *)
(* manifest lists and this emit does not, and writes its manifest last.    *)
(***************************************************************************)
EXTENDS Naturals, FiniteSets, Sequences

CONSTANTS
    PageOrder,    \* the keys of pages, in the order of the navigation
    Source,       \* what the content of the repository may be
    NoPage,       \* no link
    NoManifest,   \* a manifest that is missing or cannot be parsed
    Idle,         \* no emit is running
    Torn, Edited, \* bytes of a half-written file, and of one edited by hand
    MaxEmits, MaxCrashes, MaxEdits   \* bounds

Page == {PageOrder[i] : i \in DOMAIN PageOrder}
Index == <<"public", NoPage>>       \* llms.txt, search index, sitemap, site data
Shell == <<"shell", NoPage>>        \* a file of the site's own
Path == ({"src/content", "public"} \X Page) \cup {Index, Shell}

ASSUME PageAssumption ==
    /\ PageOrder \in Seq(Page)
    /\ \A i, j \in DOMAIN PageOrder : PageOrder[i] = PageOrder[j] => i = j
    /\ NoPage \notin Page

ASSUME SourceAssumption ==
    \A src \in Source :
        /\ DOMAIN src \subseteq Page
        /\ \A p \in DOMAIN src : src[p].status \in {"ready", "draft", "private"}

(* A directory with some of its files written. *)
Onto(files, dir) ==
    [path \in DOMAIN files \cup DOMAIN dir |-> IF path \in DOMAIN files THEN files[path] ELSE dir[path]]
File(path, bytes) == [only \in {path} |-> bytes]

VARIABLES
    source,     \* the content on main
    disk,       \* the directory: bytes of each file
    manifest,   \* .docs-emit.json of the directory
    emit,       \* the emit in progress
    bounds,     \* how many emits, crashes and edits there have been
    strays      \* history: files the manifest a crash left, torn if so, did not list

siteVars == <<disk, manifest, emit, bounds, strays>>

Rank(p) == CHOOSE i \in DOMAIN PageOrder : PageOrder[i] = p
FirstPage(S) == CHOOSE p \in S : \A q \in S : Rank(p) <= Rank(q)
Under(dir) == [i \in DOMAIN PageOrder |-> <<dir, PageOrder[i]>>]
PathOrder == Under("public") \o <<Index>> \o Under("src/content") \o <<Shell>>
FirstPath(S) ==
    PathOrder[CHOOSE i \in DOMAIN PathOrder :
                 PathOrder[i] \in S /\ \A j \in 1 .. (i - 1) : PathOrder[j] \notin S]

(***************************************************************************)
(* emitDocs: everything is built in memory                                 *)
(***************************************************************************)
Selected(src, drafts) ==
    {p \in DOMAIN src : src[p].status = "ready" \/ (drafts /\ src[p].status = "draft")}

Resolves(src, drafts, p) == src[p].link \in Selected(src, drafts)

(* A link that leads nowhere fails a publish emit, and a preview unwraps it. *)
EmitFails(src, drafts) ==
    ~drafts /\ \E p \in Selected(src, drafts) : src[p].link # NoPage /\ ~Resolves(src, drafts, p)

RenderedPage(src, drafts, p) == <<src[p].body, src[p].code, Resolves(src, drafts, p)>>

Render(src, drafts) ==
    LET pages == Selected(src, drafts)
    IN  [path \in ({"src/content", "public"} \X pages) \cup {Index} |->
           IF path = Index THEN [p \in pages |-> RenderedPage(src, drafts, p)]
           ELSE RenderedPage(src, drafts, path[2])]

ManifestPages(src, drafts) ==
    [p \in Selected(src, drafts) |-> [contentHash |-> src[p].body,
                                      rootHash    |-> <<src[p].body, src[p].code>>]]

NextManifest(src, drafts) == [pages |-> ManifestPages(src, drafts), files |-> Render(src, drafts)]

(***************************************************************************)
(* planSync                                                                *)
(***************************************************************************)
IsOwned(path) == path # Shell

Holds(dir, path, bytes) == path \in DOMAIN dir /\ dir[path] = bytes

PreviousFiles(previous) == IF previous = NoManifest THEN <<>> ELSE previous.files
PreviousPages(previous) == IF previous = NoManifest THEN <<>> ELSE previous.pages

(* Mutant: whatever the manifest lists is removed. *)
RemoveListed(files, previous, dir) ==
    [ write  |-> {path \in DOMAIN files : ~Holds(dir, path, files[path])},
      remove |-> DOMAIN PreviousFiles(previous) \ DOMAIN files ]

(* Mutant: files are compared with the manifest. *)
PlanByManifest(files, previous, dir) ==
    [ write  |-> {path \in DOMAIN files : ~Holds(PreviousFiles(previous), path, files[path])},
      remove |-> {path \in DOMAIN PreviousFiles(previous) \ DOMAIN files : IsOwned(path)} ]

PlanSync(files, previous, dir) ==
    [ write  |-> {path \in DOMAIN files : ~Holds(dir, path, files[path])},
      remove |-> {path \in DOMAIN PreviousFiles(previous) \ DOMAIN files : IsOwned(path)} ]

(***************************************************************************)
(* diffPages                                                               *)
(***************************************************************************)
(* Mutant: a page that was paired can be paired again. *)
PairAny(before, after, acc, from) ==
    LET same == {k \in acc.added : after[k].contentHash = before[from].contentHash}
    IN  IF same = {} THEN acc
        ELSE [acc EXCEPT !.renamed = @ \cup {<<from, FirstPage(same)>>}]

Pair(before, after, acc, from) ==
    LET same == {k \in acc.added : after[k].contentHash = before[from].contentHash}
    IN  IF same = {} THEN acc
        ELSE [ renamed |-> acc.renamed \cup {<<from, FirstPage(same)>>},
               added   |-> acc.added \ {FirstPage(same)} ]

(* The renames found among the pages up to each, and the added pages left. *)
Pairings(before, after) ==
    LET upTo[i \in 0 .. Len(PageOrder)] ==
            IF i = 0 THEN [renamed |-> {}, added |-> DOMAIN after \ DOMAIN before]
            ELSE IF PageOrder[i] \in DOMAIN before \ DOMAIN after
            THEN Pair(before, after, upTo[i - 1], PageOrder[i])
            ELSE upTo[i - 1]
    IN  upTo

DiffPages(previous, next) ==
    LET before  == PreviousPages(previous)
        after   == next.pages
        paired  == Pairings(before, after)[Len(PageOrder)]
        kept    == DOMAIN before \cap DOMAIN after
        changed == {p \in kept : before[p] # after[p]}
        outputs == {"src/content", "public"}
    IN  [ added      |-> paired.added,
          removed    |-> (DOMAIN before \ DOMAIN after) \ {pair[1] : pair \in paired.renamed},
          renamed    |-> paired.renamed,
          changed    |-> changed,
          renderOnly |-> {p \in kept \ changed : \E out \in outputs :
                            PreviousFiles(previous)[<<out, p>>] # next.files[<<out, p>>]} ]

(***************************************************************************)
(* One emit into the directory                                             *)
(***************************************************************************)
Damaged(kept) == [kept EXCEPT !.files = Onto(File(Shell, Edited), @)]

Emitted == {NextManifest(src, drafts) : src \in Source, drafts \in BOOLEAN}
Manifest == Emitted \cup {Damaged(kept) : kept \in Emitted}
Previous == Manifest \cup {NoManifest}
Emit ==
    [ write    : SUBSET Path,    \* files to write
      remove   : SUBSET Path,    \* files to remove, after that
      manifest : Emitted,        \* the manifest to write last
      previous : Previous,       \* the one the plan and the report were made from
      report   : {DiffPages(before, after) : before \in Previous, after \in Emitted} ]

ASSUME AbsenceAssumption == NoManifest \notin Manifest /\ Idle \notin Emit

StartEmit(drafts) ==
    /\ emit = Idle
    /\ bounds.emits < MaxEmits
    /\ ~EmitFails(source, drafts)
    /\ LET next == NextManifest(source, drafts)
           plan == PlanSync(next.files, manifest, disk)
       IN  emit' = [ write |-> plan.write, remove |-> plan.remove, manifest |-> next,
                     previous |-> manifest, report |-> DiffPages(manifest, next) ]
    /\ bounds' = [bounds EXCEPT !.emits = @ + 1]
    /\ UNCHANGED <<source, disk, manifest, strays>>

WriteFile ==
    /\ emit # Idle /\ emit.write # {}
    /\ LET path == FirstPath(emit.write)
       IN  /\ disk' = Onto(File(path, emit.manifest.files[path]), disk)
           /\ emit' = [emit EXCEPT !.write = @ \ {path}]
    /\ UNCHANGED <<source, manifest, bounds, strays>>

RemoveFile ==
    /\ emit # Idle /\ emit.write = {} /\ emit.remove # {}
    /\ LET path == FirstPath(emit.remove)
       IN  /\ disk' = [other \in DOMAIN disk \ {path} |-> disk[other]]
           /\ emit' = [emit EXCEPT !.remove = @ \ {path}]
    /\ UNCHANGED <<source, manifest, bounds, strays>>

WriteManifest ==
    /\ emit # Idle /\ emit.write = {} /\ emit.remove = {}
    /\ manifest' = emit.manifest
    /\ strays' = strays \ DOMAIN emit.manifest.files
    /\ emit' = Idle
    /\ UNCHANGED <<source, disk, bounds>>

(* The files nothing lists any more when an emit stops here. *)
Unlisted(listed) == {path \in DOMAIN disk : IsOwned(path) /\ path \notin DOMAIN listed}

(* An emit stops between two files, or in the middle of one. *)
Crash ==
    /\ emit # Idle
    /\ bounds.crashes < MaxCrashes
    /\ \/ /\ UNCHANGED <<disk, manifest>>
       \/ /\ emit.write # {}
          /\ disk' = Onto(File(FirstPath(emit.write), Torn), disk)
          /\ UNCHANGED manifest
       \/ /\ emit.write = {} /\ emit.remove = {}
          /\ manifest' = NoManifest
          /\ UNCHANGED disk
    /\ strays' = strays \cup Unlisted(PreviousFiles(manifest))'
    /\ emit' = Idle
    /\ bounds' = [bounds EXCEPT !.crashes = @ + 1]
    /\ UNCHANGED source

(* Somebody edits a file, or the manifest is damaged by a merge. *)
HandEdit ==
    /\ emit = Idle
    /\ bounds.edits < MaxEdits
    /\ \/ /\ \E path \in DOMAIN disk : disk' = [disk EXCEPT ![path] = Edited]
          /\ UNCHANGED manifest
       \/ /\ manifest # NoManifest
          /\ manifest' = Damaged(manifest)
          /\ UNCHANGED disk
    /\ bounds' = [bounds EXCEPT !.edits = @ + 1]
    /\ UNCHANGED <<source, emit, strays>>

EmitStep == WriteFile \/ RemoveFile \/ WriteManifest

EmitterNext == (\E drafts \in BOOLEAN : StartEmit(drafts)) \/ EmitStep \/ Crash \/ HandEdit
=============================================================================

-------------------------------- MODULE Threads --------------------------------
(***************************************************************************)
(* The comment threads of one page, between reviewers who write them and   *)
(* the build that registers new versions of the page under them            *)
(* (server/src/services/review.ts): registerVersion is one transaction,    *)
(* createComment reads the latest version and its section, and then        *)
(* inserts, without one.                                                   *)
(***************************************************************************)
EXTENDS Anchoring

CONSTANTS
    Build,         \* what the build may register
    RootId,        \* ids of thread roots
    NoVersion,     \* no version, or no section of it
    MaxVersions,   \* bound: rows of content_version
    MaxRegistrations, \* bound: calls of registerVersion
    Draft          \* what a reviewer may write, and the build they wrote it on

(* A build of a page: its body's hash, the page, the named regions of the   *)
(* code it includes and the lines of that code, by their hashes. (The empty *)
(* anchor is no heading's: a heading has a letter or a digit.)              *)
ASSUME BuildAssumption ==
    \A b \in Build :
        /\ DOMAIN b = {"hash", "page", "regions", "lines"}
        /\ IsPage(b.page) /\ DOMAIN b.lines \subseteq Nat
        /\ Top \notin AnchorSlugs(b.page)

(* A thread starts on something its author sees, under the anchor of its    *)
(* section or the empty one, which the browser sends above all headings.    *)
ProseDraft(d) ==
    /\ d.kind = "prose"
    /\ d.anchor \in {d.slug, Top}
    /\ \E i \in SectionAt(d.on.page, d.slug) :
          \/ d.quote = NoQuote /\ ~d.suggests
          \/ LocateQuote(BodyText(d.on.page, i), d.quote) \in {"framed", "exact"}
CodeDraft(d) ==
    /\ d.kind = "code"
    /\ d.anchor \in AnchorSlugs(d.on.page) \cup {Top}
    /\ d.line \in DOMAIN d.on.lines

ASSUME DraftAssumption == \A d \in Draft : d.on \in Build /\ (ProseDraft(d) \/ CodeDraft(d))
ASSUME FitAssumption ==
    \A b \in Build : \A i \in DOMAIN b.page, q \in Quote :
        /\ Fit(q, b.page[i].prose) \in FitKind
        /\ Fit(q, b.page[i].prose) = "framed" => HasContext(q)

VARIABLES
    versions,    \* content_version and its sections, in the order of created_at
    roots,       \* comment, the thread roots
    creating,    \* createComment calls that have read and not yet inserted
    main,        \* the build registered last
    calls,       \* how many registrations there have been
    placedOn     \* history: the build each root was placed on

vars == <<versions, roots, creating, main, calls, placedOn>>

(* The comparisons of any two pages, each made once. *)
Page == {b.page : b \in Build}
Unchanged == [before \in Page \cup {NoPage} |-> [after \in Page |-> UnchangedSlugs(before, after)]]
Diff == [before \in Page |-> [after \in Page |-> ReviewDiff(before, after)]]

Prior == IF versions = <<>> THEN NoPage ELSE versions[Len(versions)].page
Hashes == {versions[n].hash : n \in DOMAIN versions}
Sections(v) == {<<v.hash, slug>> : slug \in AnchorSlugs(v.page)}
SectionRows == UNION {Sections(versions[n]) : n \in DOMAIN versions}

Init ==
    /\ versions = <<>>
    /\ roots = <<>>
    /\ creating = <<>>
    /\ main = NoPage
    /\ calls = 0
    /\ placedOn = <<>>

(* A table with one more row. *)
Including(table, id, row) == [k \in DOMAIN table \cup {id} |-> IF k = id THEN row ELSE table[k]]

(***************************************************************************)
(* registerVersion                                                         *)
(***************************************************************************)

(* Registering a hash again rewrites its row, which keeps its created_at. *)
Upsert(b) ==
    IF b.hash \in Hashes
    THEN [n \in DOMAIN versions |-> IF versions[n].hash = b.hash THEN b ELSE versions[n]]
    ELSE Append(versions, b)

(* Mutant: comments keep the ids of the sections that are deleted. *)
KeepSectionRef(root, b) == root

(* A comment lets go of a section its version no longer has. *)
ReleaseSection(root, b) ==
    IF root.section # NoVersion /\ root.section[1] = b.hash /\ root.section \notin Sections(b)
    THEN [root EXCEPT !.section = NoVersion] ELSE root

(* A thread the fast path keeps is placed on the new build only if it had    *)
(* been placed on the version the build is compared with.                   *)
PlacedBy(id, b) ==
    IF /\ roots[id].kind = "prose" /\ ~roots[id].orphaned
       /\ roots[id].slug \in Unchanged[Prior][b.page]
       /\ placedOn[id] = NoPage \/ placedOn[id].page # Prior
    THEN placedOn[id] ELSE b

ReanchorRoot(root, b) ==
    IF root.kind = "code" THEN ReanchorCode(root, b)
    ELSE Reanchor(root, b.page, Unchanged[Prior][b.page])

(* One transaction: a comment inserted on a section between the statement   *)
(* that makes comments let go of it and the one that deletes it makes the   *)
(* deletion fail, and what is left is what the insert alone leaves.         *)
RegisterVersion(b) ==
    /\ calls < MaxRegistrations
    /\ b.hash \in Hashes \/ Len(versions) < MaxVersions
    /\ versions' = Upsert(b)
    /\ roots' = [id \in DOMAIN roots |-> ReanchorRoot(ReleaseSection(roots[id], b), b)]
    /\ placedOn' = [id \in DOMAIN roots |-> PlacedBy(id, b)]
    /\ main' = b
    /\ calls' = calls + 1
    /\ UNCHANGED creating

(***************************************************************************)
(* createComment, for the root of a thread                                 *)
(***************************************************************************)

(* The section the draft's anchor names, in the latest version: none for    *)
(* the empty anchor.                                                        *)
ReadLatest(id, d) ==
    /\ id \notin DOMAIN creating \cup DOMAIN roots
    /\ LET latest == versions[Len(versions)]
           section == IF versions = <<>> THEN {}
                      ELSE {<<latest.hash, d.anchor>>} \cap Sections(latest)
       IN  creating' = Including(creating, id, [draft |-> d, section |-> section])
    /\ UNCHANGED <<versions, roots, main, calls, placedOn>>

SectionId(section) == IF section = {} THEN NoVersion ELSE CHOOSE s \in section : TRUE

NewRoot(d, section) ==
    IF d.kind = "code"
    THEN [ kind       |-> "code",
           region     |-> d.region,
           hash       |-> d.on.lines[d.line],
           line       |-> d.line,
           suggestion |-> "none",
           section    |-> SectionId(section),
           orphaned   |-> FALSE,
           state      |-> "exact" ]
    ELSE [ kind       |-> "prose",
           slug       |-> d.anchor,
           authored   |-> d.anchor,
           heading    |-> d.slug[1],
           quote      |-> d.quote,
           suggestion |-> IF d.suggests THEN "open" ELSE "none",
           section    |-> SectionId(section),
           orphaned   |-> FALSE,
           state      |-> "exact" ]

(* The insert fails if the section was deleted since it was read. *)
InsertRoot(id) ==
    /\ id \in DOMAIN creating
    /\ LET call == creating[id]
       IN  IF call.section \subseteq SectionRows
           THEN /\ roots' = Including(roots, id, NewRoot(call.draft, call.section))
                /\ placedOn' = Including(placedOn, id, call.draft.on)
           ELSE UNCHANGED <<roots, placedOn>>
    /\ creating' = [other \in DOMAIN creating \ {id} |-> creating[other]]
    /\ UNCHANGED <<versions, main, calls>>

(* Whoever settles a suggestion by hand may know better than the page: its  *)
(* thread is on no build in particular any more.                            *)
SetSuggestionState(id, state) ==
    /\ id \in DOMAIN roots
    /\ roots[id].suggestion \notin {"none", state}
    /\ roots' = [roots EXCEPT ![id].suggestion = state]
    /\ placedOn' = [placedOn EXCEPT ![id] = NoPage]
    /\ UNCHANGED <<versions, creating, main, calls>>

Next ==
    \/ \E b \in Build : RegisterVersion(b)
    \/ \E id \in RootId, d \in Draft : ReadLatest(id, d)
    \/ \E id \in RootId : InsertRoot(id)
    \/ \E id \in RootId, state \in {"open", "applied", "dismissed"} : SetSuggestionState(id, state)

Spec == Init /\ [][Next]_vars

(***************************************************************************)
(* Properties                                                              *)
(***************************************************************************)

(* Rows are of their tables' types, and no comment points at a section that *)
(* is gone, though a version's sections are replaced under it while it is   *)
(* written. (The foreign key would refuse the deletion, and with it the     *)
(* whole registration.)                                                     *)
TypeOK ==
    /\ \A n \in DOMAIN versions : versions[n] \in Build
    /\ DOMAIN roots \subseteq RootId /\ DOMAIN creating \subseteq RootId
    /\ DOMAIN placedOn = DOMAIN roots
    /\ \A id \in DOMAIN roots :
          /\ roots[id].kind \in {"prose", "code"}
          /\ roots[id].state \in AnchorState
          /\ roots[id].suggestion \in SuggestionState
          /\ roots[id].section \in SectionRows \cup {NoVersion}

Registers(b) == calls' = calls + 1 /\ main' = b

(* After a registration every prose thread is on a section of the page that *)
(* was registered, or is an orphan because the page has none for it: also   *)
(* one that was written on another version, or that was an orphan before.   *)
AnchorsResolve ==
    [][\A b \in Build : Registers(b) =>
          \A id \in DOMAIN roots : roots[id].kind = "prose" =>
              (roots'[id].orphaned <=> SectionAt(b.page, roots'[id].slug) = {})]_vars

(* A thread on code that lost its named region is on a line that reads like *)
(* the one it was written on, in the code of the page as registered.        *)
CodeThreadsOnTheirLine ==
    [][\A b \in Build : Registers(b) =>
          \A id \in DOMAIN roots :
              roots[id].kind = "code" /\ roots[id].region \notin b.regions /\ ~roots'[id].orphaned =>
                  b.lines[roots'[id].line] = roots[id].hash]_vars

(* Skipping the search for threads on unchanged sections loses nothing for  *)
(* a thread that was placed on the very version the registration compares   *)
(* with and found there: the search would have left it where it is. (Not so *)
(* for an open suggestion that was carried, by a quote that fits loosely,   *)
(* to a section which already reads like the edit: the search looks for the *)
(* edit in the thread's own section only, and would find it there now.)     *)
FastPathLosesNothing ==
    [][\A b \in Build : Registers(b) =>
          \A id \in DOMAIN roots :
              /\ roots[id].kind = "prose" /\ roots[id].state # "section"
              /\ ~(roots[id].state = "rewritten" /\ roots[id].suggestion = "open")
              /\ placedOn[id] # NoPage /\ placedOn[id].page = Prior
              => LET full == Scan(roots[id], b.page)
                 IN  /\ roots'[id].slug = full.slug
                     /\ roots'[id].state = full.state
                     /\ roots'[id].orphaned = full.orphaned]_vars

(* A suggestion that was applied stays under its heading for as long as the *)
(* page has it: no other passage that reads like the original takes over    *)
(* the thread. And no registration reopens or dismisses a suggestion.       *)
AppliedStaysHome ==
    [][\A b \in Build : Registers(b) =>
          \A id \in DOMAIN roots :
              /\ roots'[id].suggestion = roots[id].suggestion
                    \/ (roots[id].suggestion = "open" /\ roots'[id].suggestion = "applied")
              /\ roots[id].suggestion = "applied" /\ roots[id].kind = "prose"
                    /\ SectionAt(b.page, roots[id].slug) # {}
                 => roots'[id].slug = roots[id].slug]_vars

(* Section i of a page, as a reviewer tells it from another.                *)
Own(page, i) == <<page[i].level, ProseHash(page, i), page[i].code>>

(* An entry names the section itself, or a subtree that came or went with it. *)
Explained(diff, page, i, other) ==
    \E e \in diff :
        \/ e[1].path = DepthPath(page, i)
        \/ /\ e[2] \in {"added", "removed"}
           /\ \E n \in 1..(Len(DepthPath(page, i)) - 1) : e[1].path = SubSeq(DepthPath(page, i), 1, n)
           /\ \A j \in DOMAIN other : DepthPath(other, j) # DepthPath(page, i)

(* No two sections have one heading under one parent, and none includes a    *)
(* snippet twice: of such a pair the index keeps the later.                  *)
NothingCollides(page) ==
    /\ \A i, j \in DOMAIN page : DepthPath(page, i) = DepthPath(page, j) => i = j
    /\ \A i \in DOMAIN page : \A k, l \in DOMAIN page[i].code :
          page[i].code[k].region = page[i].code[l].region /\ page[i].code[k].region # Fenced => k = l

(* The review diff of a new version against the one before it explains       *)
(* every section that differs, and is empty if the page is the same. (The    *)
(* promise is made for pages whose nodes have keys of their own.)            *)
ChangesAreExplained ==
    [][\A b \in Build : Registers(b) /\ Prior # NoPage /\ NothingCollides(Prior)
                            /\ NothingCollides(b.page) =>
          LET diff == Diff[Prior][b.page]
              Same(i, j) == /\ DepthPath(Prior, i) = DepthPath(b.page, j)
                            /\ Own(Prior, i) = Own(b.page, j)
          IN  /\ \A j \in DOMAIN b.page :
                     Explained(diff, b.page, j, Prior) \/ \E i \in DOMAIN Prior : Same(i, j)
              /\ \A i \in DOMAIN Prior :
                     Explained(diff, Prior, i, b.page) \/ \E j \in DOMAIN b.page : Same(i, j)
              /\ Prior = b.page => diff = {}]_vars

=============================================================================

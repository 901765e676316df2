# docs-factory in TLA+

Specifications, model checking and proofs for docs-factory, a documentation
factory whose pages are written in git and reviewed in an app of their own. The
review app is where people meet: a Connect/Hono server over PostgreSQL
(`server/`), a single-page site (`site/src`), and agents that act through access
tokens. Emitters turn the content into static sites (`emit/`), one of which a
workflow delivers to a repository of its own.

Contents: [the system](#the-system), [the modules](#the-modules),
[runs](#runs), [where code and documentation part](#where-code-and-documentation-part),
[proofs](#proofs), [what is abstracted](#what-is-abstracted),
[not modelled](#not-modelled), [plan](#plan).

## The system

| Component | State it keeps | Operations | Modules |
|---|---|---|---|
| Review lifecycle (`server/src/services/review.ts`) | `content_version`, `review_state`, `content_approval`, `review_request`, `content_event` | registerVersion, transitionReview, recordApproval, markReviewed, dismissApproval, requestReview, cancelReviewRequest, deleteContent, manageAllowlist, eraseUser | `ReviewLifecycle`, `SignOffPromise`; statement by statement `ReviewTransactions` |
| Review state derivation (same file) | none: computed on every read | deriveReviewState | `DeriveState` |
| Versions and anchoring (`anchor.ts`, `tree-diff.ts`, `review.ts`) | `content_section`, `content_snippet`, the thread columns of `comment` | registerVersion's second half: sections, re-anchoring of prose and code threads, suggestions applied; the review diff | `Threads`, `Anchoring`, `ContentTree` |
| Comments (`review.ts`, `comments.ts`) | `comment`, `comment_seen` | create, list, mark seen, suggestion state | `Threads`, `ReviewPage` |
| Ratings (`review.ts`, `ratings.ts`) | `content_rating` | record, withdraw; erasure and deletion | `Ratings` |
| Content requests (`content-requests.ts`) | `content_request` | create, update | `ContentRequests` |
| Access (`allowlist.ts`, `auth/`) | `reviewer_allowlist`, `user_identity`, `api_token` | viewer resolution, grants through requests, token create/revoke/expiry, allowlist changes | `Access` |
| Live updates (`notify.ts`, `app.ts`) | none durable | NOTIFY after commit, SSE stream | `ReviewPage` |
| Review client (`site/src/components/review`) | query cache, optimistic edits | poll, mark read with rollback, post, hints | `ReviewPage` |
| Content core (`site/src/content-core`) | files | headings, anchors, Merkle tree | `ContentTree` |
| Docs emitter (`emit/docs`) | a site's directory, its manifest | emit: plan, write, remove, report | `SiteSync` |
| Upstream sync (`.github/workflows/uc-docs-sync.yml`) | a branch and a pull request upstream | emit, mirror, push, open or close | `UpstreamSync` |

What makes it hard:

* **Derivation over history.** The review state is a function of rows written at
  different times by different people: a change request holds until a *newer*
  sign-off, a request must outdate an earlier approval, a dismissal may bring an
  old change request back. Each handler is short; the properties are about
  sequences of them.
* **READ COMMITTED.** Several handlers check on one statement and write on
  another, some of them in different transactions. Locks (`for update`) and
  partial unique indexes cover part of this.
* **Erasure.** An erased person's rows move to one shared tombstone identity,
  under the same unique indexes, while calls of that person may be in flight.
* **Git drives content.** Registrations arrive in any order relative to people's
  actions, the same body may be registered again, and every registration moves
  the threads people are writing.
* **Access changes under calls.** The viewer is resolved once, then statements
  follow; roles, grants and tokens change meanwhile.
* **Optimism.** A page marks threads read before the server answers, restores a
  whole snapshot when it fails, and races that with polls.
* **Half-done work.** Emits crash between and inside files; workflow runs are
  cancelled, fail, and meet merges made meanwhile.

`PROJECT.json` lists the hazards at their lines, with the properties about them.

## The modules

```
DeriveState            SignOffPromise       deriveReviewState; what reviews promise
     \ EXTENDS          / INSTANCE ... WITH
     ReviewLifecycle                        one artifact, one action per RPC
ReviewTransactions                          the same handlers, one action per SQL statement
Ratings                                     ratings, one action per SQL statement

ContentTree  <-  Anchoring  <-  Threads     pages, the tiers, comments against registrations

Access  <-  ContentRequests                 who may do what, and the backlog under it

ReviewPage                                  a page's comments: cache, marks, polls, hints

SiteSync  <-  UpstreamSync                  an emit into a directory, and its delivery
```

`A <- B`: B extends A. Each run has an `MC...` module with its constants; eight
`...Proofs` modules hold theorems.

### DeriveState, ReviewLifecycle, SignOffPromise

`DeriveReviewState(in)` is `deriveReviewState` branch by branch. A timestamp is a
natural number and `Null = 0` an absent one.

The state of `ReviewLifecycle` is one artifact's rows and the two tables that say
who people are:

| Variable | Table |
|---|---|
| `versions` | `content_version`: hash, frontmatter status, `created_at` |
| `outcome` | the latest `review_state` row (older ones are never read) |
| `approvals` | `content_approval` rows that are not dismissed |
| `requests` | `review_request`, open, satisfied and cancelled |
| `role`, `registered` | `reviewer_allowlist`, `user_identity` |
| `logged` | the `content_event` rows the last transaction wrote |
| `clock` | `now()` of the next transaction that stamps a row |

An action is a whole RPC: authorization, every check, every table it writes and
the events it logs. For example `RequestReview` takes a set of targets (the code
collapses a target listed twice), coerces external invitees to `optional`,
upgrades or leaves alone an open request, opens one for everyone else, and
withdraws the approval of exactly those for whom something changed. A refused
call or one that changes nothing is a stuttering step.

`SignOffPromise` is the abstract specification: two sets of people, `asked` and
`signed`, and four actions (several are asked and their sign-offs are void; one
signs off; one is let go; all is forgotten). `ReviewLifecycle` implements it
(`KeepsPromise`) with `asked` the people with an open request and `signed` those
with an active approval. What the mapping hides is what could go wrong: rows,
requirements, roles, stamps, upgrades, external coercion, the tombstone.

### ReviewTransactions

`recordApproval`, `requestReview`, `cancelReviewRequest` and `dismissApproval`,
one action per SQL statement. Each call has a transaction: the rows it has
written and not committed, the request rows it has locked, the events it has
logged. A statement

* sees what is committed, under its own writes (`SeenRequests`, `SeenApprovals`),
  and picks among it the rows it looks for when it begins (`PickRows`);
* waits (`WaitsFor`) for calls that hold a row it would lock or write, or have
  inserted a row a partial unique index would refuse;
* then works on those of the rows it picked that still qualify, as READ COMMITTED
  re-evaluates them, and does not see rows committed while it waited. A revival
  that waited for another call's approval to be committed is refused by the index.

A cycle of waits is broken by rolling one call back. `cancelReviewRequest`
checks the status before its transaction begins: `Begin` is that check. A unique
violation fails the whole call: the `catch` in `upsertOpenReviewRequest` runs its
select in a transaction PostgreSQL has already aborted. `met` is a history
variable: which calls were in flight together. No guard reads it.

### Ratings

`recordRating`, `withdrawRating`, `eraseUser` and `deleteContent` on the ratings
of one artifact, with registrations between. An update has two steps where the
database has two: `Find` (the committed rows its condition matches) and the write,
which waits for whoever holds one of them, then skips those that no longer match,
and never sees rows committed while it waited. `recordRating` reads the latest
version before its transaction. `order` is a history variable.

### ContentTree, Anchoring, Threads

`ContentTree` is a page as a sequence of sections, its anchors (`slug.mjs`), its
Merkle tree (`tree.mjs`; a hash is modelled by what it hashes) and the diff of two
trees (`tree-diff.ts`). `Anchoring` has the tiers of `anchor.ts` in their order,
for prose (applied edit, own section, other sections with context, fuzzy,
heading, orphan) and for code (region, line hash). How well a quote fits a text is
a constant, `Fit`. `Threads` runs them: `RegisterVersion` is one transaction, with
the release of comments from deleted sections, the fast path for unchanged
sections and the search for the others; `createComment` reads the latest version
and, by the anchor the browser sent, its section in one step, and inserts in another.
A node of the tree has the key the code gives it: a fenced block its place in the
section, a snippet its file and region, so that two includes of one snippet are one
node.

### Access, ContentRequests

A call in a session begins with its viewer resolved (`BeginInSession`); one by a
token looks the token up (`BeginWithToken`) and then its owner's role
(`ResolveOwner`). It goes on statement by statement: `manageAllowlist` reads the role,
counts, writes; `createComment` looks up the grant and inserts;
`setSuggestionState` updates, by a token to `applied` only; `updateContentRequest`
locks the row, then updates. Roles, grants and tokens change in between. `held` records what
a call has been entitled to at some time since it began, `overlapped` whether two
changes of the allowlist have been in flight at once; no guard reads either.

### ReviewPage

`listComments` is two statements (`ReadComments`, `ReadMarks`) and an answer
(`Fill`) that replaces the cache unless the fetch was cancelled. Opening a thread
(`OpenThread`) cancels a fetch in flight, takes a snapshot and shows the thread as
read; `MarkThreadSeen` writes the row; success refetches, failure restores the
snapshot and refetches. A page that streams polls more slowly, and stops when its
tab does. Hints travel with the area the database uses, which is how the code
fails to match them; resolving a thread or settling its suggestion (`UpdateThread`)
sends one without a comment.

### SiteSync, UpstreamSync

An emit renders the site in memory (drafts or not), is refused for a link to a page
it does not publish, plans writes and removals from the previous manifest, applies
them file by file and writes its manifest last. A crash falls between two files or
inside one, the manifest included. `UpstreamSync` has two kinds of behaviour: a
developer's directory that keeps what earlier emits left, and the workflow, which
emits into a fresh checkout, mirrors over upstream, force-pushes a branch and keeps
one pull request. A push to main that changes the site cancels the run wherever it is; so does
starting the workflow by hand, or a push to the trigger's paths that leaves the site
as it was (`Dispatch`). A merge is
three-way, file by file.

## Runs

All on two workers; sizes are distinct states.

| Run | What it asks | Bounds |
|---|---|---|
| `LifecycleReview` (1.3M) | `AskedOrSignedOff`, `SignOffAnswersLatestRequest`: is a sign-off ever older than what it was asked for? `TimelineMatchesRows`, `ChangeRequestHonoured`, and the refinement `KeepsPromise` | 2 people of any roles, no site admin, 1 body, draft/ready/private, 2 request rows, 4 stamps |
| `LifecycleAdmin` (1.6M) | `TypeOK`, `UniqueActiveRows`, `RequiredOnlyForAllowlisted`, `EraseKeepsSignOff`: the same life with a site admin changing roles and erasing people | one of the two is a site admin, drafts only, 3 stamps |
| `Transactions` (0.8M) | `TypeOK`, `SkewOnlyFromOverlap`, `TimelineAgrees`, `DuplicatesOnlyFromOverlap`, `ClosedRequestsKeepTheirTerms`, `CallsEnd`: what survives interleaving, and does every call end? | 3 concurrent calls out of 8, 2 reviewers, past rows of one |
| `Ratings` (2.5M) | `TypeOK`, `OlderRatingOnlyFromOverlap`, `ErasedProseIsGone`, `RemovedIsGone`, `RefusedOnlyByOverlap`, `HistoryKept` | 3 calls of any kind, 2 raters, 2 past rows, 2 further versions |
| `Threads` (0.9M) | `TypeOK`, `AnchorsResolve`, `CodeThreadsOnTheirLine`, `FastPathLosesNothing`, `AppliedStaysHome`, `ChangesAreExplained` | 8 builds of one page, 6 drafts, 1 thread, 4 versions, 5 registrations |
| `Access` (0.8M) | `TypeOK`, `LockedOutOnlyByOverlap`, `WritesWereAllowed`, `DoneIsFinal` | a site admin, a maintainer, an outsider and an id that is nobody's, 4 calls of 17 kinds, 2 at a time, 1 token, 1 suggestion, 1 request |
| `ReviewPage` (1.2M) | `TypeOK`, `WrongIsUnderRepair`, `ReadIsShownSoon`, `PagesConverge` | 2 reviewers, 1 with the page open, 2 threads, 2 posts, 2 marks, 2 failures |
| `SiteSync` (1.3M) | `TypeOK`, `ReportAccounts`, `EmitRepairsSite`, `UpstreamIsOneSite`, `EventuallyDelivered` | 3 pages in 5 contents; 4 emits, 2 crashes, 1 hand edit; 3 pushes, 2 merges, 1 failed run |
| `DocReleaseEvents`, `DocCancelRace`, `DocLastMaintainer`, `DocHints` | a statement of the documentation each, which the code does not keep | as above, smaller |

Why the bounds suffice.

* *Lifecycle.* The interesting cases relate at most two people (who asks and who
  answers; who erases and who is left), two requests to one person (an earlier,
  answered one and a new one), and four stamped rows (approval, change request,
  newer approval, second change request). Two bodies matter for the release events
  only, and `DocReleaseEvents` has them.
* *Transactions, Ratings.* A third call is what lets a dismissal fall between the
  two approval statements of another, and a registration or a commit between the
  find and the write of an update; two batches in opposite order already deadlock.
  Calls are made at most once; a retry is another call.
* *Threads.* Five registrations revisit a version, leave it and come back, which is
  what separates the version a thread was placed on from the one a registration
  compares with. The builds have the quote in no, one and two sections, reworded,
  edited, under a renamed, nested, repeated or preamble heading, one body cut in two
  ways, and a snippet included once and twice, alone and beside a fenced block. One thread is enough: threads do not read each other.
* *Access.* Two calls at a time are the least that overlap; four in a behaviour
  let a token be made, used, revoked, and used again.
* *ReviewPage.* One page is enough, since pages meet only through the server, where
  the other reviewer stands for all of them; two threads are what a whole-cache
  snapshot can confuse.
* *SiteSync.* Three pages give a rename beside a page that stays and one that links
  to it. Three pushes let one cancel a run and another revert it.

`LifecycleReview` and `LifecycleAdmin` use a `VIEW` that leaves `logged` out. It
is written by every action and read by none, and the properties that mention it
read `logged'` only, in the step that writes it, so the view loses no behaviour
they can tell apart. `DocReleaseEvents`, whose invariant reads `logged` in a
state, has no view. Symmetry permutes ids that no action tells apart: of requests
and bodies, of calls in `Access`, of calls, raters and past rows in `Ratings`; no
run with symmetry has a liveness property.

Deadlock is not checked: with the bounds used up and every call ended the models
may stop, as the real system idles. That what was begun ends is `CallsEnd`,
`PagesConverge` and `EventuallyDelivered`.

Fairness.

* `ReviewTransactions`: weak fairness of each call's next statement. PostgreSQL
  runs a statement that is not blocked, and breaks a cycle of waits after
  `deadlock_timeout`. Whether a call is made is left to its caller.
* `ReviewPage`: weak fairness, per page, of each read of a fetch under way and its
  answer, of the poll timer of an active tab, of the answers to posts and marks,
  and of hints that arrive. Opening threads, posting, failing, and losing a hint
  are not fair.
* `UpstreamSync`: weak fairness of the steps of the workflow. GitHub starts a run
  for the latest push and runs it on; nobody has to push or merge, and no emit of a
  developer has to finish.
* The others are safety only.

Every property of a passing run has a mutant: a change of one definition, such as
a dropped `for update` or an approval withdrawn only by an upgrade, that makes
TLC find the property violated.

### What the properties say

* `AskedOrSignedOff` and `SignOffAnswersLatestRequest`: whoever is asked anew is no
  longer signed off, so `approved` never rests on a sign-off given before the
  question. This holds of whole handlers. It does not hold of interleaved ones: a
  request and an approval in flight together miss each other's rows (write skew).
  `SkewOnlyFromOverlap` bounds that: it takes a real overlap in time, and no call
  that began after the other ended is concerned. `OlderRatingOnlyFromOverlap`,
  `RefusedOnlyByOverlap`, `DuplicatesOnlyFromOverlap` and `LockedOutOnlyByOverlap`
  are of the same kind.
* `TimelineMatchesRows` and `TimelineAgrees` compare the append-only timeline with
  the mutable rows, in a step and over a history.
* `ChangeRequestHonoured` lists every way a change request may begin or cease to
  hold. Writing it down showed one that reads like an accident: a page moved into
  or out of `private` compares the change request with a different kind of
  sign-off, so git can lift or revive it.
* `EraseKeepsSignOff`: an erasure may cancel the last open request (and so let an
  approved page show as approved), and changes the review state in no other way.
* `ErasedProseIsGone`, `RemovedIsGone`: what an erasure or a deletion leaves, with
  calls of the same person in flight. Rows a call inserts while it waits do survive
  a deletion; `RemovedIsGone` says that only such rows do.
* `AnchorsResolve`, `CodeThreadsOnTheirLine`, `AppliedStaysHome`: a registration
  leaves every thread on a place that exists, or orphaned. `FastPathLosesNothing`
  compares the fast path with the full search as a reference; its exceptions are the
  cases in which they differ. `ChangesAreExplained` says the review diff names
  every section that differs, although it drops entries under entries.
* `WritesWereAllowed`: nothing is written for a caller, or by a token, that had no
  access at any time since the call began.
* `WrongIsUnderRepair`, `ReadIsShownSoon`: what a page shows wrongly is being
  fetched again; `PagesConverge`: an active page ends up right.
* `EmitRepairsSite`, `UpstreamIsOneSite`, `EventuallyDelivered`: a finished emit has
  undone earlier damage, what is upstream is never a mixture of two contents, and
  main arrives or waits in the open pull request.

## Where code and documentation part

Each has a run whose counterexample is the scenario.

1. `DocReleaseEvents`: registering a body again keeps its `created_at`, so after a
   revert on main the "latest version" is still the reverted one, while
   `released`/`unreleased` is logged from the row just written.
2. `DocCancelRace`: a cancel that passed its check overwrites an answer.
3. `DocLastMaintainer` (`review.ts:1735`): two changes of the allowlist at once can
   leave it without a maintainer.
4. `DocHints` (`review-context.tsx:198`, `notify.ts:35`): hints name the area as
   text, the page compares a number, so no hint refetches anything.

Smaller ones have no run, because the code contains two statements that differ or
because a model of one component cannot show them:

* the comment above `requestReview` (`review.ts:1443-1447`) says an off-list target
  is rejected, while the code invites them as an external contributor, as the
  comment inside it says;
* approving again after a change request logs an approval and keeps the old stamp;
  one has to dismiss the old approval first;
* a required reviewer who withdraws their approval is no longer needed
  (`review.ts:309-311` says so, `0001_init.sql:319-321` says otherwise);
* the reconciliation in `upsertOpenReviewRequest` runs in an aborted transaction
  and cannot succeed;
* `tree.mjs:253` calls the depth path unique per section; two headings of one text
  under one parent share it;
* an open suggestion carried by a fuzzy quote to a renamed section that already
  shows the edit is never marked applied once that section is unchanged: the fast
  path (`anchor.ts:270-272`) skips the check the search would make there
  (`anchor.ts:178-181`, `review.ts:2180-2182`);
* the comment of `transition` (`review.ts:2682`) says it returns the effective state;
  it returns the state it was asked for (`:2737`), also where a page that has become
  `ready` derives to released;
* `EventSource` sends no bearer token, so with Neon sign-in the stream is refused.

## Proofs

Eight modules, checked by TLAPS to the last leaf, for every value of the constants:

| Module | Theorems |
|---|---|
| `ReviewLifecycleProofs` | `TypeCorrect`, `RowsUnique`, `NeverAskedAndSignedOff`, `SignOffsAreCurrent`, `RequiredAreAllowlisted`, `TimelineAccountsForRows`, `ImplementsPromise` (`Spec => KeepsPromise`); `PrivateIsNeverApproved`, `ApprovedMeansSignedOff`, `FreshApprovalOnlyHelps` (what `DeriveReviewState` returns, for every input) |
| `ReviewStateProofs` | `ErasureKeepsSignOffs`, `ChangeRequestsHold` |
| `ReviewTransactionsProofs` | `TypeCorrect`, `TimelineAlwaysAgrees`, `ClosedStayClosed`, `SkewNeedsOverlap`, `DuplicatesNeedOverlap` |
| `RatingsProofs` | `TypeCorrect`, `ErasedProseGoes`, `HistoryStays`, `OlderRatingNeedsOverlap`, `RemovedGoes`, `RefusalNeedsOverlap` |
| `ThreadsProofs` | `TypeCorrect`, `ThreadsResolve`, `CodeThreadsFollowTheirLine`, `AppliedSuggestionsStay`, `FastPathKeepsWhatSearchFinds`, `DiffExplainsChanges` |
| `ContentRequestsProofs` | `TypeCorrect`, `LockedOutTakesOverlap`, `WritesAllowed`, `DoneStaysDone` |
| `ReviewPageProofs` | `TypeCorrect`, `WrongIsRepaired`, `ReadIsShown` |
| `UpstreamSyncProofs` | `TypeCorrect`, `EmitRepairs`, `UpstreamStaysOneSite`, `ReportIsComplete` |

Each has an inductive invariant `IInv`, shown to hold initially and to be kept by
every action, and the properties follow from it.

*ReviewLifecycle.* `SignOffAnswersLatestRequest` is not inductive: a new approval
is stamped `clock`, which must be at least as late as every answer of that
reviewer, hence `AnsweredInThePast`; and an answer given by *somebody who already
has an approval* would outdate it, which only happens if they have an open request,
and `AskedOrSignedOff` excludes that. `AskedOrSignedOff` in turn needs
`UniqueActiveRows` where a request is upgraded or an erasure renames rows.
Assumptions: site admins are people, the tombstone is nobody who signs in, the
statuses are frontmatter statuses, the clock bound is a natural number.
*ReviewState* adds that every stamp is older than the clock (`StampedInThePast`). The
derivation compares a change request with the *latest* sign-off; that a set of
stamps has a latest one follows from the bound, by the least number above them all
(the naturals are well-founded), and an answer given now is the latest because the
others are in the past. Then each handler moves the outcome, the last approval or
the last answer in one direction only, which is what `ChangeRequestsHold` says.
`ImplementsPromise` uses the same invariant: each handler's effect on the two sets
of `SignOffPromise` is computed from its effect on the rows.

*ReviewTransactions.* A request row is written only under its lock, and locks are
exclusive (`Exclusive`); rows a call has locked are in the table or its own, which
nobody can have seen (`LocksFit`); what a batch found open stays open until it
commits (`FoundOpen`); a call never rewrites a closed row into an open or different
one (`KeepsClosed`); and *the table with a call's rows over it agrees with the
timeline with its events* (`LogFits`). The last is what survives another call's
commit: rows one has locked and the other has written are disjoint, and so are the
events about them. `Sound` states once what a statement must satisfy to keep all
this, and each statement is shown to be. Assumptions: calls have the shape of
their messages, a request names somebody, rows of earlier calls are not of these
and are finitely many (they are in a table).

`SkewNeedsOverlap` and `DuplicatesNeedOverlap` need to know who met whom. `HInv`
adds that calls in flight together have met (`AllMet`); that only a recorded
approval makes one active, under its own name, and only an asking opens a request
(`WritesOwn`); that a recorded approval about to commit has closed every request
open now, but for those of calls it met (`AnswersAll`; before, while it waits, it has
picked them), and a batch has withdrawn every approval active now of whom it is done
with, but for those of calls it met (`WithdrawsAll`); and that what a call found absent is still absent, or somebody it
met has committed since (`StillSo`). The argument is the same for each: a row that
appears after a call looked is committed by a call in flight with it, because
closed requests never reopen and dismissed approvals are revived only under the
reviver's name.

*Ratings.* Rows are written by one call at a time (`WritesOK`), a superseded row is
written only to be forgotten (`SupersededKept`), active rows are unique in the table
under each call's writes (`ActiveUnique`), and no row of the tombstone has prose.
The three properties about time need a second invariant, `HInv`, on `order`: who
had ended before whom began. A call that rates takes a version no older than any
that calls which had ended before had rated (`NotNewer`: the latest version only
grows), and when it is about to commit it has displaced what such calls left active
(`Displaced`); so of two rows of a rater the older in time is not the newer in
version, and not active, unless their calls overlapped (`InTurn`). What a removal
did not find was not there when it began (`Removal`). Refusals are an alternative:
somebody has committed since the call began (`Late`), or what it found is still what
there is and nothing is in the way of its next statement (`Fresh`). `Provenance` says
who may have written a row, and `Registered` that no row names a version that is gone.

*Threads.* Threads keep what `Whole` says (fields, states, sections that exist);
then a case analysis of the tiers, which are shown to be exhaustive. First and last
sections exist because every non-empty set of naturals has a least element, which
is taken from the library's well-foundedness of the naturals.

For the fast path, `HInv` says what a placed thread was found by: its section is on
the page it was placed on, and its quote fits there as its state says (`AllFound`).
This is what the search, an author and the fast path itself leave behind. An anchor
names one section (`SlugsAreDistinct`), a subtree is a run of sections
(`SubtreeIsInterval`), hence equal subtree hashes mean equal text under an equal
anchor (`SameSubtreeSameText`), and the search decides by those alone
(`ScanKeepsWhatIsFound`). For the diff, each first part of a path is the path of an
enclosing section (`PrefixIsPath`: sections of a trail are counted by their rank, and
each rank is taken once), so where a section stays, its ancestors are in both trees
and hide none of its leaves (`LeafIsShown`); where it came or went, the topmost entry
on its path is shown (`TopmostIsShown`). Where paths are unique, the tree holds every
section's own nodes (`TreeOfUniquePaths`), and where no snippet is included twice in a
section, each piece of its code has a node of its own (`LeafNames`, `LeafOfPath`); so
two sections that differ have nodes that do (`DifferenceIsShown`).

Assumptions: a page is a finite sequence of sections, the preamble first; a draft's
quote is found in its section; the place of a fenced block is not
taken for a snippet's region; and the empty anchor, which the browser sends above
all headings, is no heading's. (`github-slugger` would give it to a heading with
neither a letter nor a digit.)

*ContentRequests.* Calls in flight are of people and tokens that existed
(`Existed`), have held what they need (`Covered`), hold the only lock on a request
(`LocksOK`); and unless changes of the allowlist have overlapped, there is a
maintainer and whoever is about to take one away has seen another (`AloneOK`).

*ReviewPage.* Per page: cache and read marks agree unless a refetch is due
(`CacheAgrees`), a fetch that is under way reads enough to repair what is wrong
(`ReadEnough`), what a snapshot lacks is shown again (`Behind`), and a mark has data
to restore (`MarksHaveData`). Assumption: the values for "none" are no answers.

*SiteSync, UpstreamSync.* Between emits the manifest lists all there is in the
directory but the shell and strays (`Listed`); during one, what it need not write any
more holds what it renders, and what it does not render it is about to remove, or is
a stray (`EmitFits`). For the workflow, every tree of a run, a branch or upstream is
in `Checkout`: the empty site, or the whole site of one source. That a three-way merge,
file by file, keeps this is the point: the index of a site lists its pages with what
they are rendered to, so it decides every other file (`IndexDecides`). Hence a branch
that changes anything changes the index, and if upstream has changed too, the merge
is a conflict, or both are the same site (`MergedTree`). The report's pairing is a
recursive function on the page order; that there is such a function is shown by the
least length for which there would be none (`PairingsExist`), and an invariant along
it says that no page is in two pairs (`Paired`). Assumptions: the page order lists each
page once, the values for "none" are nothing else, and main starts as one of the
sources.

TLC checked each invariant on the constants of the module's run before it was proved;
the runs list the properties only.

Model-checked only: liveness (`CallsEnd`, `PagesConverge`, `EventuallyDelivered`), as
the prover does not support fairness and ENABLED. Every other property of a passing
run is a theorem. (Nor does the prover support induction over data: the proofs take a
least counterexample or a last element instead.)

## What is abstracted

* One artifact, except where two matter. Only an erasure reaches into several at
  once; it is refused if it would collide on any of them, and a refused call is a
  stuttering step in `ReviewLifecycle`.
* Stamps are distinct. In the code two transactions may share a millisecond, and
  `getTime()` drops the microseconds; the change request then wins.
* Dismissed approvals are absent from `ReviewLifecycle`, where nothing reads
  them, and present in `ReviewTransactions`, where a statement revives them.
* Notes, titles, logins, scores and commit hashes are data nothing here depends on.
  A comment is one of a count; a rating's prose is there or not.
* People in `User` have signed in before; new sign-ins are in `Access` only.
* In `ReviewTransactions` every reviewer is allowlisted and the page is not
  private; the reads before a transaction other than that of
  `cancelReviewRequest` (allowlist, `private`, latest version) are left out.
* An insert of a foreign key locks the referenced row; those locks never
  conflict with each other and are left out.
* The writes of a registration are one step in `Threads`. A comment inserted between
  the statement that makes comments let go of a section and the one that deletes it
  would make the deletion, and so the registration, fail on the foreign key, and
  leave what the insert alone leaves. A suggestion settled by hand between a
  registration's read of the threads and its update of them is not interleaved.
* `Threads` has one code file, and a `Fit` that is a table and not a text search.
* A focused window that refetches is a poll of `ReviewPage`, which may come at any
  time. A reviewer has one page open; a comment's `created_at` is the time
  it becomes visible.
* Where git would stop at a conflict in the manifest alone, `MergePullRequest` merges
  and takes the branch's: more may be merged than git merges by itself, and
  `UpstreamIsOneSite` holds of that, too.
* `EventuallyDelivered` says nothing after a run that failed with no push since, nor
  after a pull request merged while a run was under way: the workflow runs again at
  the next push only.

## Not modelled

Presentation, Markdown processing and code generation, container environments and
other pipelines, JWT and OIDC verification (cryptography and I/O), list queries and
message mappings (no state), workspace tabs and the placement of anchors in the
DOM, `changedSections` and the wording of reports, the Python linters (pure, single
pass). Editing and deleting comments are single statements on single
rows, and so is resolving a thread, of which `ReviewPage` has the hint. `transitionReview`, `markReviewed` and `registerVersion` are not interleaved
statement by statement with the review handlers. `PROJECT.json` gives the reason
for each component.

Most of the repository's lines are generated protobuf code, presentation and
single-pass text processing, which is why the specifications stand for a small
share of them.

## Plan

1. **Transactions.** `transitionReview`, `markReviewed` and `registerVersion`
   between the statements of the others, with stamps taken at the start of a
   transaction: rows are ordered by them, and commits are not.
2. **Comments.** Replies, resolution and deletion with the depth limits.
3. **Client.** Workspace tabs and the comment queue.

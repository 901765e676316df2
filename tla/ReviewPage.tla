-------------------------------- MODULE ReviewPage --------------------------------
(***************************************************************************)
(* The comments of one page as its readers see them                        *)
(* (site/src/components/review/review-context.tsx) over the read marks the *)
(* server keeps (comment_seen, written by markThreadSeen).  A page holds a *)
(* cached answer of listComments, which polls, optimistic read marks and   *)
(* live hints race to replace.                                             *)
(*                                                                         *)
(* created_at and seen_at are both the server's now(), so a thread is the  *)
(* number of comments posted to it and a read mark is how many of them it  *)
(* covers; 0 stands for a thread never opened, whose comments all count.   *)
(***************************************************************************)
EXTENDS Integers, FiniteSets

CONSTANTS
    Viewers,             \* the allowlisted reviewers
    Readers,             \* those of them with the page open
    Threads,             \* the page's threads
    ThisPage, SameSlug,  \* the page's ref, and one in another area with its slug
    Sse,                 \* whether live updates are enabled
    NoData, NoFetch, Unread, NoMark,
    MaxPosts, MaxMarks, MaxFailures    \* bounds

ASSUME ReadersAssumption == Readers \subseteq Viewers

VARIABLES
    posted,    \* posted[t]: how many comments the thread has
    seen,      \* seen[v][t]: how many of them the viewer's comment_seen row covers
    cache,     \* cache[v]: the answer of listComments the page shows
    fetch,     \* fetch[v]: the listComments call in flight
    mark,      \* mark[v][t]: the markThreadSeen call in flight, with its snapshot
    sending,   \* sending[v]: a call of the page that posts or settles awaits its answer
    hints,     \* hints[v]: the refs of the `invalidate` events on their way
    live,      \* live[v]: the tab is active, so it polls and streams
    events,    \* how many posts and updates, marks and failures there have been
    best,      \* history: best[v][t], the most comments the page ever showed
    lapsed     \* history: lapsed[v], the latest fetch failed

Showing == [posted : Nat, unread : Nat]
Answer == [Threads -> Showing]
Counted == [Threads -> Nat] \cup {Unread}
Asked == [comments |-> Unread, seen |-> Unread]
FetchCall == {Asked} \cup [comments : [Threads -> Nat], seen : Counted]
MarkCall == [written : BOOLEAN, previous : Answer]

ASSUME AbsenceAssumption ==
    /\ NoData \notin Answer /\ Unread \notin [Threads -> Nat]
    /\ NoFetch \notin FetchCall /\ NoMark \notin MarkCall

server == <<posted, seen>>
vars == <<posted, seen, cache, fetch, mark, sending, hints, live, events, best, lapsed>>

Init ==
    /\ posted = [t \in Threads |-> 1]
    /\ seen = [v \in Viewers |-> [t \in Threads |-> 0]]
    /\ cache = [v \in Readers |-> NoData]
    /\ fetch = [v \in Readers |-> Asked]
    /\ mark = [v \in Readers |-> [t \in Threads |-> NoMark]]
    /\ sending = [v \in Readers |-> FALSE]
    /\ hints = [v \in Readers |-> {}]
    /\ live = [v \in Readers |-> TRUE]
    /\ events = [posts |-> 0, marks |-> 0, failures |-> 0]
    /\ best = [v \in Readers |-> [t \in Threads |-> 0]]
    /\ lapsed = [v \in Readers |-> FALSE]
-----------------------------------------------------------------------------
(* The query cache: invalidating a query that has data cancels the fetch in  *)
(* flight and starts another; one that has none keeps waiting for its first. *)
InvalidateJoining(v) == IF fetch[v] = NoFetch THEN Asked ELSE fetch[v]

Invalidate(v) ==
    IF cache[v] = NoData /\ fetch[v] # NoFetch THEN fetch[v] ELSE Asked

(* How many of the comments read are newer than the read mark. *)
DifferenceFrom(comments, watermark) == comments - watermark

UnreadCount(comments, watermark) ==
    IF comments > watermark THEN comments - watermark ELSE 0

(* listComments reads the comments and then, in a second statement, the      *)
(* viewer's read marks.                                                      *)
ReadComments(v) ==
    /\ fetch[v] = Asked
    /\ fetch' = [fetch EXCEPT ![v].comments = posted]
    /\ UNCHANGED <<server, cache, mark, sending, hints, live, events, best, lapsed>>

ReadMarks(v) ==
    /\ fetch[v] # NoFetch
    /\ fetch[v].comments # Unread
    /\ fetch[v].seen = Unread
    /\ fetch' = [fetch EXCEPT ![v].seen = seen[v]]
    /\ UNCHANGED <<server, cache, mark, sending, hints, live, events, best, lapsed>>

AssembleThreads(comments, watermarks) ==
    [t \in Threads |-> [posted |-> comments[t],
                        unread |-> UnreadCount(comments[t], watermarks[t])]]

(* The answer arrives and the page shows it. *)
Fill(v) ==
    /\ fetch[v] # NoFetch
    /\ fetch[v].seen # Unread
    /\ cache' = [cache EXCEPT ![v] = AssembleThreads(fetch[v].comments, fetch[v].seen)]
    /\ fetch' = [fetch EXCEPT ![v] = NoFetch]
    /\ best' = [best EXCEPT ![v] = [t \in Threads |->
                   IF @[t] < fetch[v].comments[t] THEN fetch[v].comments[t] ELSE @[t]]]
    /\ lapsed' = [lapsed EXCEPT ![v] = FALSE]
    /\ UNCHANGED <<server, mark, sending, hints, live, events>>

(* Every retry of the call fails: the page keeps what it shows. *)
FailFetch(v) ==
    /\ fetch[v] # NoFetch
    /\ events.failures < MaxFailures
    /\ fetch' = [fetch EXCEPT ![v] = NoFetch]
    /\ events' = [events EXCEPT !.failures = @ + 1]
    /\ lapsed' = [lapsed EXCEPT ![v] = TRUE]
    /\ UNCHANGED <<server, cache, mark, sending, hints, live, best>>

(* refetchInterval, which only an active tab has, with live updates or not;  *)
(* it joins a fetch in flight.  It may fire at any time, and so stands for   *)
(* the refetch of a window that is focused again, too.                       *)
PollsUnlessStreaming(v) == live[v] /\ ~Sse

Polls(v) == live[v]

Poll(v) ==
    /\ Polls(v)
    /\ fetch[v] = NoFetch
    /\ fetch' = [fetch EXCEPT ![v] = Asked]
    /\ UNCHANGED <<server, cache, mark, sending, hints, live, events, best, lapsed>>

(* An editor tab is activated or deactivated, with its stream. *)
Switch(v) ==
    /\ live' = [live EXCEPT ![v] = ~@]
    /\ hints' = [hints EXCEPT ![v] = {}]
    /\ UNCHANGED <<server, cache, fetch, mark, sending, events, best, lapsed>>
-----------------------------------------------------------------------------
(* Optimistic read marks.  onMutate cancels the fetch in flight, keeps what  *)
(* the page shows, and clears the thread's badge.                            *)
OpenThread(v, t) ==
    /\ cache[v] # NoData
    /\ mark[v][t] = NoMark
    /\ events.marks < MaxMarks
    /\ fetch' = [fetch EXCEPT ![v] = NoFetch]
    /\ mark' = [mark EXCEPT ![v][t] = [written |-> FALSE, previous |-> cache[v]]]
    /\ cache' = [cache EXCEPT ![v][t].unread = 0]
    /\ events' = [events EXCEPT !.marks = @ + 1]
    /\ UNCHANGED <<server, sending, hints, live, best, lapsed>>

(* markThreadSeen upserts the mark as of now(), whatever the page showed. *)
MarkThreadSeen(v, t) ==
    /\ mark[v][t] # NoMark
    /\ ~mark[v][t].written
    /\ mark' = [mark EXCEPT ![v][t].written = TRUE]
    /\ seen' = [seen EXCEPT ![v][t] = posted[t]]
    /\ UNCHANGED <<posted, cache, fetch, sending, hints, live, events, best, lapsed>>

(* onSettled, after a success or a failure, invalidates. *)
SettleOnSuccess(v, failed) == IF failed THEN fetch[v] ELSE Invalidate(v)

Settle(v, failed) == Invalidate(v)

MarkDone(v, t) ==
    /\ mark[v][t] # NoMark
    /\ mark[v][t].written
    /\ mark' = [mark EXCEPT ![v][t] = NoMark]
    /\ fetch' = [fetch EXCEPT ![v] = Settle(v, FALSE)]
    /\ UNCHANGED <<server, cache, sending, hints, live, events, best, lapsed>>

(* The call fails, before the server ran it or with its answer lost: onError *)
(* puts back everything the page showed when the thread was opened.          *)
MarkFailed(v, t) ==
    /\ mark[v][t] # NoMark
    /\ events.failures < MaxFailures
    /\ cache' = [cache EXCEPT ![v] = mark[v][t].previous]
    /\ mark' = [mark EXCEPT ![v][t] = NoMark]
    /\ fetch' = [fetch EXCEPT ![v] = Settle(v, TRUE)]
    /\ events' = [events EXCEPT !.failures = @ + 1]
    /\ UNCHANGED <<server, sending, hints, live, best, lapsed>>
-----------------------------------------------------------------------------
(* Comments and live hints.  The hint carries the area as the database names *)
(* it; the page compares it with the enum of its ContentRef.                 *)
Payload(ref) == [area |-> <<"text", ref.area>>, slug |-> ref.slug]

Mismatch(hint) ==
    \/ hint.area # <<"enum", ThisPage.area>>
    \/ hint.slug # ThisPage.slug

(* NOTIFY reaches every stream that is open, or is lost. *)
Notify(ref) ==
    \E reached \in SUBSET {v \in Readers : Sse /\ live[v]} :
        hints' = [v \in Readers |-> IF v \in reached THEN hints[v] \cup {Payload(ref)}
                                                     ELSE hints[v]]

CreateComment(v, t) ==
    /\ events.posts < MaxPosts
    /\ v \in Readers => ~sending[v]
    /\ posted' = [posted EXCEPT ![t] = @ + 1]
    /\ sending' = [r \in Readers |-> sending[r] \/ r = v]
    /\ events' = [events EXCEPT !.posts = @ + 1]
    /\ Notify(ThisPage)
    /\ UNCHANGED <<seen, cache, fetch, mark, live, best, lapsed>>

(* A thread is resolved or reopened, or its suggestion is settled: a hint    *)
(* without a comment.                                                        *)
UpdateThread(v) ==
    /\ events.posts < MaxPosts
    /\ v \in Readers => ~sending[v]
    /\ sending' = [r \in Readers |-> sending[r] \/ r = v]
    /\ events' = [events EXCEPT !.posts = @ + 1]
    /\ Notify(ThisPage)
    /\ UNCHANGED <<server, cache, fetch, mark, live, best, lapsed>>

(* A comment on the page with the same slug in another area. *)
CommentElsewhere ==
    /\ events.posts < MaxPosts
    /\ events' = [events EXCEPT !.posts = @ + 1]
    /\ Notify(SameSlug)
    /\ UNCHANGED <<server, cache, fetch, mark, sending, live, best, lapsed>>

(* Their onSuccess on the page. *)
CommentSent(v) ==
    /\ sending[v]
    /\ sending' = [sending EXCEPT ![v] = FALSE]
    /\ fetch' = [fetch EXCEPT ![v] = Invalidate(v)]
    /\ UNCHANGED <<server, cache, mark, hints, live, events, best, lapsed>>

ReceiveHint(v) ==
    \E hint \in hints[v] :
        /\ hints' = [hints EXCEPT ![v] = @ \ {hint}]
        /\ fetch' = [fetch EXCEPT ![v] = IF Mismatch(hint) THEN @ ELSE Invalidate(v)]
        /\ UNCHANGED <<server, cache, mark, sending, live, events, best, lapsed>>
-----------------------------------------------------------------------------
PageStep(v) ==
    \/ ReadComments(v) \/ ReadMarks(v) \/ Fill(v) \/ Poll(v)
    \/ CommentSent(v) \/ ReceiveHint(v)
    \/ \E t \in Threads : MarkThreadSeen(v, t) \/ MarkDone(v, t)

Next ==
    \/ \E v \in Readers : PageStep(v) \/ FailFetch(v) \/ Switch(v)
    \/ \E v \in Readers, t \in Threads : OpenThread(v, t) \/ MarkFailed(v, t)
    \/ \E v \in Viewers, t \in Threads : CreateComment(v, t)
    \/ \E v \in Viewers : UpdateThread(v)
    \/ CommentElsewhere

(* The timer fires, calls are answered and events are delivered.  People may *)
(* stop opening threads, posting and switching tabs, and nothing need fail.  *)
Fairness ==
    \A v \in Readers :
        /\ WF_vars(ReadComments(v))
        /\ WF_vars(ReadMarks(v))
        /\ WF_vars(Fill(v))
        /\ WF_vars(Poll(v))
        /\ WF_vars(CommentSent(v))
        /\ WF_vars(ReceiveHint(v))
        /\ \A t \in Threads : WF_vars(MarkThreadSeen(v, t)) /\ WF_vars(MarkDone(v, t))

Spec == Init /\ [][Next]_vars /\ Fairness
-----------------------------------------------------------------------------
(* Types. An unread count is never negative, although the comments and the   *)
(* read marks it compares are read in two statements.                        *)
TypeOK ==
    /\ posted \in [Threads -> Nat]
    /\ seen \in [Viewers -> [Threads -> Nat]]
    /\ cache \in [Readers -> Answer \cup {NoData}]
    /\ fetch \in [Readers -> FetchCall \cup {NoFetch}]
    /\ mark \in [Readers -> [Threads -> MarkCall \cup {NoMark}]]
    /\ sending \in [Readers -> BOOLEAN]
    /\ live \in [Readers -> BOOLEAN]
    /\ best \in [Readers -> [Threads -> Nat]]
    /\ lapsed \in [Readers -> BOOLEAN]

(* Something in flight will bring the page a fresh answer, or the latest     *)
(* fetch failed and the next poll has to.                                    *)
UnderRepair(v) ==
    \/ fetch[v] # NoFetch
    \/ \E t \in Threads : mark[v][t] # NoMark
    \/ lapsed[v]

(* A comment the page has shown is missing from it, or a badge disagrees     *)
(* with the read mark of the comments it shows, only while the page is being *)
(* fetched again: a failed read mark puts back everything the page showed    *)
(* when the thread was opened (review-context.tsx onError), and no           *)
(* interleaving of two marks, their failures and polls leaves that standing. *)
WrongIsUnderRepair ==
    \A v \in Readers : cache[v] # NoData =>
        \A t \in Threads :
            \/ cache[v][t].posted < best[v][t]
            \/ cache[v][t].unread # UnreadCount(cache[v][t].posted, seen[v][t])
            => UnderRepair(v)

(* A comment that counts as read although the page never showed it, because  *)
(* it was posted between the answer the page shows and the mark's now(), is  *)
(* on its way to the page.                                                   *)
ReadIsShownSoon ==
    \A v \in Readers : cache[v] # NoData =>
        \A t \in Threads : seen[v][t] > cache[v][t].posted => UnderRepair(v)

(* Whatever was lost, failed or raced, a page that stays active ends up      *)
(* showing every comment, and a badge for exactly the unread ones.           *)
Shows(v) ==
    cache[v] = AssembleThreads(posted, seen[v])

PagesConverge ==
    \A v \in Readers : <>[]live[v] => <>[]Shows(v)

(* review-context.tsx:168-170: "subscribe to the SSE hint channel and        *)
(* invalidate the shared listComments cache when a matching ref changes": a  *)
(* hint about this page, once handled, leaves a fetch in flight.             *)
HintsRefetch ==
    [][\A v \in Readers :
          Payload(ThisPage) \in hints[v] /\ hints'[v] = hints[v] \ {Payload(ThisPage)}
              /\ live'[v] = live[v]
          => fetch'[v] # NoFetch]_vars
=============================================================================

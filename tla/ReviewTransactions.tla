-------------------------- MODULE ReviewTransactions --------------------------
(***************************************************************************)
(* The review handlers of server/src/services/review.ts statement by       *)
(* statement: recordApproval, requestReview, cancelReviewRequest and       *)
(* dismissApproval on one artifact, each call in a transaction of its own  *)
(* at READ COMMITTED.  ReviewLifecycle has them one whole call at a time.  *)
(*                                                                         *)
(* A statement that looks for rows picks them among the committed ones,    *)
(* under its own transaction's writes, when it begins.  It waits while     *)
(* another transaction holds a row it would lock or write, or has inserted *)
(* the row a unique index would refuse, and then does its work on those of *)
(* the rows it picked that still qualify.  PostgreSQL breaks a cycle of    *)
(* waits by rolling one transaction back.                                  *)
(***************************************************************************)
EXTENDS Naturals, FiniteSets, Sequences

CONSTANTS
    Process,   \* concurrent calls: each one runs once
    Reviewer,
    Call,      \* what they may be calls of
    PastRow    \* rows, of either table, that may be there at the start

(* A row is known by the call that inserted it and the reviewer it is for. *)
RowId == (Process \X Reviewer) \cup PastRow

Requirement == {"optional", "required"}
RequestRow == [requirement : Requirement, status : {"open", "satisfied", "cancelled"}]
ApprovalRow == [active : BOOLEAN, by : {id[1] : id \in RowId}]   \* by: who made it active

CallShape ==
    [op : {"record", "dismiss"}, who : Reviewer]
        \cup [op : {"request"}, targets : Seq(Reviewer), requirement : Requirement]
        \cup [op : {"cancel"}, row : RowId]

(* requestReview refuses a request that names nobody. *)
ASSUME CallAssumption ==
    /\ Call \subseteq CallShape
    /\ \A call \in Call : call.op = "request" => call.targets # <<>>
(* Earlier rows are of earlier calls, and there are only so many. *)
ASSUME PastAssumption ==
    /\ IsFiniteSet(PastRow)
    /\ \A id \in PastRow : id[1] \notin Process /\ id[2] \in Reviewer

VARIABLES
    requests,   \* review_request, as committed: a row for each RowId in its domain
    approvals,  \* content_approval, likewise, the dismissed rows included
    events,     \* content_event, as committed
    tx,         \* what each call is doing, and what it has not committed
    met         \* pairs of calls that were in flight at the same time

vars == <<requests, approvals, events, tx, met>>

NoRows == [id \in {} |-> "none"]
NoCall == [op |-> "none"]

Blank(call, step) ==
    [ call      |-> call,
      step      |-> step,      \* the next statement, or how the call ended
      began     |-> FALSE,     \* whether that statement has picked its rows
      picked    |-> {},        \* and which
      targets   |-> <<>>,      \* of requestReview: reviewers still to be asked
      found     |-> {},        \* the open request it found for the first of them
      locks     |-> {},        \* review_request rows locked
      requests  |-> NoRows,    \* rows written
      approvals |-> NoRows,
      log       |-> {} ]       \* events written

Ended == {"idle", "done", "duplicate", "deadlock"}
InFlight == {p \in Process : tx[p].step \notin Ended}

(***************************************************************************)
(* What a statement of call p sees and what it waits for                   *)
(***************************************************************************)
Over(writes, table) ==
    [id \in DOMAIN writes \cup DOMAIN table |-> IF id \in DOMAIN writes THEN writes[id] ELSE table[id]]

SeenRequests(p) == Over(tx[p].requests, requests)
SeenApprovals(p) == Over(tx[p].approvals, approvals)

OpenRows(table, u) == {id \in DOMAIN table : id[2] = u /\ table[id].status = "open"}
ActiveRows(table, u) == {id \in DOMAIN table : id[2] = u /\ table[id].active}
DismissedRows(table, u) == {id \in DOMAIN table : id[2] = u /\ ~table[id].active}

(* The reviewer the next statement is about. *)
Who(p) == IF tx[p].call.op = "request" THEN Head(tx[p].targets) ELSE tx[p].call.who

Others(p) == Process \ {p}
HoldRequests(p, rows) == {q \in Others(p) : tx[q].locks \cap rows # {}}
HoldApprovals(p, rows) == {q \in Others(p) : DOMAIN tx[q].approvals \cap rows # {}}

(* Calls with an uncommitted row the partial unique index would refuse. *)
InsertedRequest(p, u) == {q \in Others(p) : OpenRows(tx[q].requests, u) # {}}
InsertedApproval(p, u) == {q \in Others(p) : ActiveRows(tx[q].approvals, u) # {}}

(* The statements that look for rows, and what they look for. *)
Picking == {"revive", "satisfy", "find", "withdraw", "dismiss"}

Matching(p) ==
    CASE tx[p].step = "revive"                -> DismissedRows(SeenApprovals(p), Who(p))
      [] tx[p].step \in {"withdraw", "dismiss"} -> ActiveRows(SeenApprovals(p), Who(p))
      [] tx[p].step \in {"satisfy", "find"}     -> OpenRows(SeenRequests(p), Who(p))

(* The rows a statement picked that are still what it looks for. *)
Qualifying(p) == tx[p].picked \cap Matching(p)

WaitsFor(p) ==
    CASE tx[p].step = "insert" ->
            HoldApprovals(p, ActiveRows(approvals, Who(p))) \cup InsertedApproval(p, Who(p))
      [] tx[p].step = "revive" ->
            HoldApprovals(p, tx[p].picked)
               \cup (IF Qualifying(p) = {} THEN {} ELSE InsertedApproval(p, Who(p)))
      [] tx[p].step \in {"satisfy", "find"} -> HoldRequests(p, tx[p].picked)
      [] tx[p].step = "open" ->
            IF tx[p].found # {} THEN HoldRequests(p, tx[p].found)
            ELSE InsertedRequest(p, Who(p))
      [] tx[p].step \in {"withdraw", "dismiss"} -> HoldApprovals(p, tx[p].picked)
      [] tx[p].step = "cancel" -> HoldRequests(p, {tx[p].call.row})
      [] OTHER -> {}

At(p, step) ==
    /\ tx[p].step = step
    /\ step \in Picking => tx[p].began
    /\ WaitsFor(p) = {}

(***************************************************************************)
(* Running statements                                                      *)
(***************************************************************************)
Rows(ids, row(_)) == [id \in ids |-> row(id)]

(* Call p goes on with the given statement. *)
Turn(t, step) == [t EXCEPT !.step = step, !.began = FALSE, !.picked = {}]

(* Write request rows (locking them), approval rows and events, and go on.  *)
Write(p, newRequests, newApprovals, log, step) ==
    tx' = [tx EXCEPT ![p] =
              [Turn(tx[p], step) EXCEPT !.requests = Over(newRequests, @),
                                    !.locks = @ \cup DOMAIN newRequests,
                                    !.approvals = Over(newApprovals, @),
                                    !.log = @ \cup log]]

Event(p, kind, ids) == {<<kind, id, p>> : id \in ids}

(* Mutant: the locks and writes of the failed transaction are kept. *)
FailAndHold(p, reason) ==
    /\ tx' = [tx EXCEPT ![p].step = reason]
    /\ UNCHANGED <<requests, approvals, events, met>>

(* A transaction that failed is rolled back whole. *)
Fail(p, reason) ==
    /\ tx' = [tx EXCEPT ![p] = Blank(@.call, reason)]
    /\ UNCHANGED <<requests, approvals, events, met>>

Commit(p) ==
    /\ At(p, "commit")
    /\ requests' = SeenRequests(p)
    /\ approvals' = SeenApprovals(p)
    /\ events' = events \cup tx[p].log
    /\ tx' = [tx EXCEPT ![p] = Blank(@.call, "done")]
    /\ UNCHANGED met

Deadlocked(p) ==
    \E cycle \in SUBSET InFlight :
        /\ p \in cycle
        /\ \A q \in cycle : /\ WaitsFor(q) \cap cycle # {}
                            /\ \E w \in cycle : q \in WaitsFor(w)

DeadlockVictim(p) == Deadlocked(p) /\ Fail(p, "deadlock")

(***************************************************************************)
(* The calls                                                               *)
(***************************************************************************)
FirstStep(call) ==
    CASE call.op = "record"  -> "insert"
      [] call.op = "request" -> "find"
      [] call.op = "cancel"  -> "cancel"
      [] call.op = "dismiss" -> "dismiss"

(* cancelReviewRequest reads the row, and refuses one that is not open,     *)
(* before its transaction begins.                                           *)
Begin(p, call) ==
    /\ tx[p].step = "idle"
    /\ call.op = "cancel" =>
          call.row \in DOMAIN requests /\ requests[call.row].status = "open"
    /\ tx' = [tx EXCEPT ![p] =
                 [Blank(call, FirstStep(call)) EXCEPT
                     !.targets = IF call.op = "request" THEN call.targets ELSE <<>>]]
    /\ met' = met \cup {{p, q} : q \in InFlight}
    /\ UNCHANGED <<requests, approvals, events>>

(* The update of a revival is for those who have no active approval. *)
PickRows(p) ==
    /\ tx[p].step \in Picking
    /\ ~tx[p].began
    /\ LET none == tx[p].step = "revive" /\ ActiveRows(SeenApprovals(p), Who(p)) # {}
       IN  tx' = [tx EXCEPT ![p].began = TRUE, ![p].picked = IF none THEN {} ELSE Matching(p)]
    /\ UNCHANGED <<requests, approvals, events, met>>

(* recordApproval: insert ... on conflict do nothing *)
InsertApproval(p) ==
    /\ At(p, "insert")
    /\ LET inserted == IF ActiveRows(SeenApprovals(p), Who(p)) = {} THEN {<<p, Who(p)>>} ELSE {}
       IN  Write(p, NoRows, Rows(inserted, LAMBDA id : [active |-> TRUE, by |-> p]), {}, "revive")
    /\ UNCHANGED <<requests, approvals, events, met>>

(* ... update the dismissed rows, which had no active one beside them: two   *)
(* of them cannot both be revived, nor one beside an approval that has been  *)
(* committed since.                                                          *)
ReviveApproval(p) ==
    /\ At(p, "revive")
    /\ LET dismissed == Qualifying(p)
           active == ActiveRows(SeenApprovals(p), Who(p))
       IN  IF dismissed # {} /\ Cardinality(dismissed \cup active) > 1 THEN Fail(p, "duplicate")
           ELSE /\ Write(p, NoRows, Rows(dismissed, LAMBDA id : [active |-> TRUE, by |-> p]), {}, "satisfy")
                /\ UNCHANGED <<requests, approvals, events, met>>

(* Mutant: the statement does not ask for open requests. *)
SatisfyAllRequests(p) ==
    /\ At(p, "satisfy")
    /\ LET mine == {id \in DOMAIN SeenRequests(p) : id[2] = Who(p)}
       IN  Write(p, Rows(mine, LAMBDA id : [SeenRequests(p)[id] EXCEPT !.status = "satisfied"]),
                 NoRows, Event(p, "request-satisfied", mine), "commit")
    /\ UNCHANGED <<requests, approvals, events, met>>

(* ... and close the reviewer's open requests. *)
SatisfyRequests(p) ==
    /\ At(p, "satisfy")
    /\ LET mine == Qualifying(p)
       IN  Write(p, Rows(mine, LAMBDA id : [SeenRequests(p)[id] EXCEPT !.status = "satisfied"]),
                 NoRows, Event(p, "request-satisfied", mine), "commit")
    /\ UNCHANGED <<requests, approvals, events, met>>

(* Mutant: select without `for update`. *)
ReadOpenRequest(p) ==
    /\ At(p, "find")
    /\ tx' = [tx EXCEPT ![p] = [Turn(tx[p], "open") EXCEPT !.found = Qualifying(p)]]
    /\ UNCHANGED <<requests, approvals, events, met>>

(* Mutant: the select asks for a request on the same terms. *)
FindSameTerms(p) ==
    /\ At(p, "find")
    /\ LET open == {id \in Qualifying(p) :
                       SeenRequests(p)[id].requirement = tx[p].call.requirement}
       IN  tx' = [tx EXCEPT ![p] = [Turn(tx[p], "open") EXCEPT !.found = open, !.locks = @ \cup open]]
    /\ UNCHANGED <<requests, approvals, events, met>>

(* requestReview, for the first target left: select ... for update *)
FindOpenRequest(p) ==
    /\ At(p, "find")
    /\ LET open == Qualifying(p)
       IN  tx' = [tx EXCEPT ![p] = [Turn(tx[p], "open") EXCEPT !.found = open, !.locks = @ \cup open]]
    /\ UNCHANGED <<requests, approvals, events, met>>

(* What follows a target: the next one, or the commit. *)
Following(p) == IF Len(tx[p].targets) = 1 THEN "commit" ELSE "find"

NextTarget(p) == tx' = [tx EXCEPT ![p] = [Turn(tx[p], Following(p)) EXCEPT !.targets = Tail(@)]]

UpgradeRequest(p) ==
    /\ At(p, "open")
    /\ tx[p].found # {}
    /\ LET upgraded == {id \in tx[p].found :
                           /\ SeenRequests(p)[id].requirement = "optional"
                           /\ tx[p].call.requirement = "required"}
       IN  IF upgraded = {} THEN NextTarget(p)
           ELSE Write(p, Rows(upgraded, LAMBDA id :
                                 [SeenRequests(p)[id] EXCEPT !.requirement = "required"]),
                      NoRows, Event(p, "review-requested", upgraded), "withdraw")
    /\ UNCHANGED <<requests, approvals, events, met>>

(* An open request committed since the select makes the insert fail, and    *)
(* with it the transaction: the statement that would reconcile the two runs *)
(* in an aborted transaction and fails too.                                 *)
InsertRequest(p) ==
    /\ At(p, "open")
    /\ tx[p].found = {}
    /\ LET inserted == {<<p, Who(p)>>}
       IN  IF OpenRows(requests, Who(p)) # {} THEN Fail(p, "duplicate")
           ELSE /\ Write(p, Rows(inserted, LAMBDA id :
                                    [requirement |-> tx[p].call.requirement, status |-> "open"]),
                         NoRows, Event(p, "review-requested", inserted), "withdraw")
                /\ UNCHANGED <<requests, approvals, events, met>>

(* Mutant: asking again withdraws nothing. *)
KeepApproval(p) ==
    /\ At(p, "withdraw")
    /\ NextTarget(p)
    /\ UNCHANGED <<requests, approvals, events, met>>

(* dismissActiveApprovalForReviewer: the approval of whoever is asked anew *)
WithdrawApproval(p) ==
    /\ At(p, "withdraw")
    /\ LET active == Qualifying(p)
           rows == Rows(active, LAMBDA id : [SeenApprovals(p)[id] EXCEPT !.active = FALSE])
       IN  tx' = [tx EXCEPT ![p] =
                     [Turn(tx[p], Following(p)) EXCEPT
                         !.approvals = Over(rows, @),
                         !.log = @ \cup Event(p, "approval-dismissed", active),
                         !.targets = Tail(@)]]
    /\ UNCHANGED <<requests, approvals, events, met>>

(* cancelReviewRequest: the update names the row and not its status. *)
CancelRequest(p) ==
    /\ At(p, "cancel")
    /\ LET row == {tx[p].call.row}
       IN  Write(p, Rows(row, LAMBDA id : [SeenRequests(p)[id] EXCEPT !.status = "cancelled"]),
                 NoRows, Event(p, "request-cancelled", row), "commit")
    /\ UNCHANGED <<requests, approvals, events, met>>

DismissApproval(p) ==
    /\ At(p, "dismiss")
    /\ LET active == Qualifying(p)
       IN  Write(p, NoRows,
                 Rows(active, LAMBDA id : [SeenApprovals(p)[id] EXCEPT !.active = FALSE]),
                 Event(p, "approval-dismissed", active), "commit")
    /\ UNCHANGED <<requests, approvals, events, met>>

(***************************************************************************)
(* Specification                                                           *)
(***************************************************************************)

(* Rows of earlier calls: a reviewer was asked, or has signed off, and may  *)
(* have withdrawn an earlier approval.                                      *)
Init ==
    /\ requests \in UNION {[ids -> [requirement : {"optional"}, status : {"open"}]] :
                              ids \in SUBSET PastRow}
    /\ approvals \in UNION {[ids -> ApprovalRow] : ids \in SUBSET PastRow}
    /\ \A id \in DOMAIN approvals : approvals[id].by = id[1]
    /\ \A u \in Reviewer :
          Cardinality(OpenRows(requests, u)) + Cardinality(ActiveRows(approvals, u)) <= 1
    /\ events = {}
    /\ tx = [p \in Process |-> Blank(NoCall, "idle")]
    /\ met = {}

Statement(p) ==
    \/ PickRows(p)
    \/ InsertApproval(p) \/ ReviveApproval(p) \/ SatisfyRequests(p)
    \/ FindOpenRequest(p) \/ UpgradeRequest(p) \/ InsertRequest(p) \/ WithdrawApproval(p)
    \/ CancelRequest(p) \/ DismissApproval(p)
    \/ Commit(p) \/ DeadlockVictim(p)

Next == \E p \in Process : (\E call \in Call : Begin(p, call)) \/ Statement(p)

(* The database runs whatever statement can run, and looks for cycles of    *)
(* waits (deadlock_timeout); whether a call is made is up to its caller.    *)
Spec == Init /\ [][Next]_vars /\ \A p \in Process : WF_vars(Statement(p))

(***************************************************************************)
(* Properties                                                              *)
(***************************************************************************)
EventKind == {"review-requested", "request-satisfied", "request-cancelled", "approval-dismissed"}

(* Committed rows are of their tables' types, and calls hold locks and      *)
(* unwritten rows only while they run.                                      *)
TypeOK ==
    /\ DOMAIN requests \subseteq RowId /\ \A id \in DOMAIN requests : requests[id] \in RequestRow
    /\ DOMAIN approvals \subseteq RowId /\ \A id \in DOMAIN approvals : approvals[id] \in ApprovalRow
    /\ events \subseteq EventKind \X RowId \X Process
    /\ \A p \in Process \ InFlight : tx[p] = Blank(tx[p].call, tx[p].step)

(* A reviewer can end up both asked and signed off, which handlers run one  *)
(* at a time never allow (AskedOrSignedOff), but only if the request and    *)
(* the approval were in flight together: a call that began after the other  *)
(* one ended always takes it into account.                                  *)
SkewOnlyFromOverlap ==
    \A u \in Reviewer : \A r \in OpenRows(requests, u), a \in ActiveRows(approvals, u) :
        {r[1], approvals[a].by} \in met

(* What is on the timeline of a request and what its row says agree, though *)
(* several calls decided about it at once: it was answered at most once,    *)
(* and never after it had been cancelled.                                   *)
About(id, kind, log) == {e \in log : e[1] = kind /\ e[2] = id}

Agrees(row, answers, cancels) ==
    CASE row.status = "open"      -> answers = {} /\ cancels = {}
      [] row.status = "satisfied" -> Cardinality(answers) = 1 /\ cancels = {}
      [] row.status = "cancelled" -> Cardinality(answers) <= 1 /\ cancels # {}

TimelineAgrees ==
    \A id \in DOMAIN requests :
        Agrees(requests[id], About(id, "request-satisfied", events),
                             About(id, "request-cancelled", events))

(* An upgrade decided on an open request lands on an open request: once     *)
(* closed, a request neither reopens nor becomes a required one.            *)
ClosedRequestsKeepTheirTerms ==
    [][\A id \in DOMAIN requests : requests[id].status # "open" =>
          /\ requests'[id].status # "open"
          /\ requests'[id].requirement = requests[id].requirement]_vars

(* Asking somebody who is already asked is a no-op or an upgrade, and       *)
(* approving again revives the approval: a unique index refuses a call only *)
(* for the rows of one that was in flight with it and has committed.        *)
DuplicatesOnlyFromOverlap ==
    \A p \in Process : tx[p].step = "duplicate" =>
        \E q \in Process : {p, q} \in met /\ p # q /\ tx[q].step = "done"

(* Every call ends, with a commit or an error: batches that lock the same   *)
(* reviewers in opposite orders included.                                   *)
CallsEnd == \A p \in Process : tx[p].step \notin Ended ~> tx[p].step \in Ended

(***************************************************************************)
(* What the documentation says and the code does not do                    *)
(***************************************************************************)

(* Only open requests can be cancelled: an answered request stays answered. *)
AnsweredStaysAnswered ==
    [][\A id \in DOMAIN requests :
          requests[id].status = "satisfied" => requests'[id].status = "satisfied"]_vars

=============================================================================

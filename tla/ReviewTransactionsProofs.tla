------------------------ MODULE ReviewTransactionsProofs ------------------------
(***************************************************************************)
(* What row locks guarantee about requests and their timeline, whatever    *)
(* order statements run in: proved for any number of calls, of reviewers   *)
(* and of targets in a batch.                                              *)
(***************************************************************************)
EXTENDS ReviewTransactions, FiniteSetTheorems, TLAPS

Table(S) == UNION {[ids -> S] : ids \in SUBSET RowId}
EventSet == EventKind \X RowId \X Process

Statements == {"insert", "revive", "satisfy", "find", "open", "withdraw", "cancel", "dismiss"}
Recording == {"insert", "revive", "satisfy"}
Asking == {"find", "open", "withdraw"}

Tx ==
    [ call      : Call \cup {NoCall},
      step      : Statements \cup {"commit"} \cup Ended,
      began     : BOOLEAN,
      picked    : SUBSET RowId,
      targets   : Seq(Reviewer),
      found     : SUBSET RowId,
      locks     : SUBSET RowId,
      requests  : Table(RequestRow),
      approvals : Table(ApprovalRow),
      log       : SUBSET EventSet ]

(***************************************************************************)
(* The invariant                                                           *)
(***************************************************************************)
TypesOK ==
    /\ tx \in [Process -> Tx]
    /\ requests \in Table(RequestRow)
    /\ approvals \in Table(ApprovalRow)
    /\ events \subseteq EventSet

(* The step a call has reached is one of its own. *)
StepFits(p, t) ==
    /\ t.step \in Ended => t = Blank(t.call, t.step)
    /\ t.step \notin Ended => t.call \in Call
    /\ t.step \in Recording => t.call.op = "record"
    /\ t.step = "dismiss" => t.call.op = "dismiss"
    /\ t.step \in Asking => t.call.op = "request" /\ t.targets # <<>>
    /\ t.step = "cancel" => t.call.op = "cancel" /\ t.call.row \in DOMAIN requests

Own(p) == {p} \X Reviewer

(* Rows are locked before they are written; they are in the table, or the   *)
(* call's own, which nobody else can have seen.                             *)
LocksFit(p, t) ==
    /\ DOMAIN t.requests \subseteq t.locks
    /\ t.locks \subseteq DOMAIN requests \cup Own(p)
    /\ t.step \notin Ended \ {"idle"} => Own(p) \cap DOMAIN requests = {}

(* What a batch has found open, or opened, is open until it commits. *)
FoundOpen(p, t) ==
    /\ t.step = "open" =>
          /\ t.found \subseteq t.locks
          /\ \A id \in t.found : \/ id \in DOMAIN t.requests
                                 \/ id \in DOMAIN requests /\ requests[id].status = "open"
    /\ t.step \in Asking => \A id \in DOMAIN t.requests : t.requests[id].status = "open"

(* Closed requests are written as they are, but for how they were closed. *)
KeepsClosed(t) ==
    \A id \in DOMAIN t.requests \cap DOMAIN requests : requests[id].status # "open" =>
        /\ t.requests[id].status # "open"
        /\ t.requests[id].requirement = requests[id].requirement

(* The timeline of a request agrees with its row. *)
Agreed(row, answers, cancels) ==
    /\ row.status = "open" => answers = {} /\ cancels = {}
    /\ row.status = "satisfied" => (\E e : answers = {e}) /\ cancels = {}
    /\ row.status = "cancelled" => (answers = {} \/ \E e : answers = {e}) /\ cancels # {}

Answers(id, log) == About(id, "request-satisfied", log)
Cancels(id, log) == About(id, "request-cancelled", log)

AgreedIn(table, log) ==
    \A id \in RowId :
        IF id \in DOMAIN table THEN Agreed(table[id], Answers(id, log), Cancels(id, log))
        ELSE Answers(id, log) = {} /\ Cancels(id, log) = {}

LogFits(p, t) ==
    /\ AgreedIn(Over(t.requests, requests), events \cup t.log)
    /\ \A id \in RowId \ DOMAIN t.requests : Answers(id, t.log) = {} /\ Cancels(id, t.log) = {}

CallOK(p, t) ==
    /\ StepFits(p, t)
    /\ LocksFit(p, t)
    /\ FoundOpen(p, t)
    /\ KeepsClosed(t)
    /\ LogFits(p, t)

Exclusive ==
    \A p \in Process : \A q \in Process \ {p} : tx[p].locks \cap tx[q].locks = {}

IInv ==
    /\ TypesOK
    /\ Exclusive
    /\ AgreedIn(requests, events)
    /\ \A p \in Process : CallOK(p, tx[p])

(***************************************************************************)
(* Tables and logs                                                         *)
(***************************************************************************)

(* A table of the right type is a function on rows that has its values there. *)
LEMMA TableType ==
    ASSUME NEW S, NEW f
    PROVE  f \in Table(S) <=>
              /\ f = [id \in DOMAIN f |-> f[id]]
              /\ DOMAIN f \subseteq RowId
              /\ \A id \in DOMAIN f : f[id] \in S
BY DEF Table

(* What rewriting rows gives, and that it keeps the type. *)
LEMMA OverValues ==
    \A f, g :
        /\ DOMAIN Over(f, g) = DOMAIN f \cup DOMAIN g
        /\ \A id \in DOMAIN f : Over(f, g)[id] = f[id]
        /\ \A id \in DOMAIN g \ DOMAIN f : Over(f, g)[id] = g[id]
BY DEF Over

LEMMA OverType ==
    ASSUME NEW S, NEW f \in Table(S), NEW g \in Table(S)
    PROVE  Over(f, g) \in Table(S)
BY TableType DEF Over

LEMMA NothingWritten ==
    /\ DOMAIN NoRows = {}
    /\ \A S : NoRows \in Table(S)
    /\ \A S, f : f \in Table(S) => Over(NoRows, f) = f
<1>1. DOMAIN NoRows = {} /\ \A S : NoRows \in Table(S)
  BY TableType DEF NoRows
<1>2. ASSUME NEW S, NEW f \in Table(S) PROVE Over(NoRows, f) = f
  BY <1>1, TableType DEF Over
<1> QED BY <1>1, <1>2

(* What a log says of a row when more is written to it. *)
LEMMA LongerLog ==
    ASSUME NEW id, NEW kind, NEW old, NEW new
    PROVE  About(id, kind, old \cup new) = About(id, kind, old) \cup About(id, kind, new)
BY DEF About

LEMMA LoggedEvents ==
    ASSUME NEW p \in Process, NEW kind \in EventKind, NEW ids \in SUBSET RowId
    PROVE  /\ Event(p, kind, ids) \in SUBSET EventSet
           /\ \A id, other : About(id, other, Event(p, kind, ids))
                 = IF id \in ids /\ other = kind THEN {<<kind, id, p>>} ELSE {}
BY DEF Event, About, EventSet

(***************************************************************************)
(* Calls                                                                   *)
(***************************************************************************)

(* What the arguments of a call are. *)
LEMMA CallFacts ==
    ASSUME NEW call \in Call
    PROVE  /\ call.op \in {"record", "dismiss"} => call.who \in Reviewer
           /\ call.op = "request" => /\ call.targets \in Seq(Reviewer) /\ call.targets # <<>>
                                     /\ call.requirement \in Requirement
           /\ call.op = "cancel" => call.row \in RowId
           /\ call.op \in {"record", "dismiss", "request", "cancel"}
BY CallAssumption DEF CallShape

(* A statement is about a reviewer. *)
LEMMA WhoType ==
    ASSUME IInv, NEW p \in Process, tx[p].step \in Statements \ {"cancel"}
    PROVE  /\ Who(p) \in Reviewer
           /\ <<p, Who(p)>> \in RowId /\ <<p, Who(p)>> \in Own(p)
           /\ p \in {id[1] : id \in RowId}
<1>1. tx[p] \in Tx /\ StepFits(p, tx[p])
  BY DEF IInv, TypesOK, CallOK
<1>2. tx[p].call \in Call
  BY <1>1 DEF StepFits, Statements, Ended
<1>3. CASE tx[p].step \in Asking
  <2>1. tx[p].targets \in Seq(Reviewer) /\ tx[p].targets # <<>> /\ tx[p].call.op = "request"
    BY <1>1, <1>3 DEF Tx, StepFits
  <2>2. Head(tx[p].targets) \in Reviewer
    BY <2>1
  <2> QED BY <2>1, <2>2 DEF Who, RowId, Own
<1>4. CASE tx[p].step \notin Asking
  <2>1. tx[p].call.op \in {"record", "dismiss"}
    BY <1>1, <1>4 DEF StepFits, Statements, Asking, Recording
  <2>2. Who(p) \in Reviewer
    BY <1>2, <2>1, CallFacts DEF Who
  <2> QED BY <2>2 DEF RowId, Own
<1> QED BY <1>3, <1>4

(* Rows a call has not written are as in the table. *)
LEMMA SeenRows ==
    ASSUME IInv, NEW p \in Process
    PROVE  /\ SeenRequests(p) \in Table(RequestRow)
           /\ DOMAIN SeenRequests(p) = DOMAIN tx[p].requests \cup DOMAIN requests
           /\ \A id \in DOMAIN tx[p].requests : SeenRequests(p)[id] = tx[p].requests[id]
           /\ \A id \in DOMAIN requests \ DOMAIN tx[p].requests : SeenRequests(p)[id] = requests[id]
           /\ SeenApprovals(p) \in Table(ApprovalRow)
<1>1. /\ requests \in Table(RequestRow) /\ tx[p].requests \in Table(RequestRow)
      /\ approvals \in Table(ApprovalRow) /\ tx[p].approvals \in Table(ApprovalRow)
  BY DEF IInv, TypesOK, Tx
<1>2. SeenRequests(p) \in Table(RequestRow) /\ SeenApprovals(p) \in Table(ApprovalRow)
  BY <1>1, OverType DEF SeenRequests, SeenApprovals
<1>3. /\ DOMAIN SeenRequests(p) = DOMAIN tx[p].requests \cup DOMAIN requests
      /\ \A id \in DOMAIN tx[p].requests : SeenRequests(p)[id] = tx[p].requests[id]
      /\ \A id \in DOMAIN requests \ DOMAIN tx[p].requests : SeenRequests(p)[id] = requests[id]
  BY DEF SeenRequests, Over
<1> QED BY <1>2, <1>3

(* The invariant of a call is about the call and the tables. *)
LEMMA CallTurns ==
    ASSUME requests' = requests, events' = events,
           NEW p \in Process, NEW t, CallOK(p, t), tx'[p] = t
    PROVE  CallOK(p, tx[p])'
<1>1. StepFits(p, tx[p])'
  BY DEF CallOK, StepFits
<1>2. LocksFit(p, tx[p])' /\ FoundOpen(p, tx[p])' /\ KeepsClosed(tx[p])'
  BY DEF CallOK, LocksFit, FoundOpen, KeepsClosed
<1>3. LogFits(p, tx[p])'
  BY DEF CallOK, LogFits, AgreedIn, Agreed, Answers, Cancels, About
<1> QED BY <1>1, <1>2, <1>3 DEF CallOK

(* A call's step that changes no table keeps the invariant if the call is   *)
(* still all right by itself and holds nothing somebody else does.          *)
LEMMA StatementStep ==
    ASSUME IInv, NEW p \in Process, NEW t \in Tx, tx' = [tx EXCEPT ![p] = t],
           requests' = requests, approvals' = approvals, events' = events,
           CallOK(p, t), \A q \in Process \ {p} : t.locks \cap tx[q].locks = {}
    PROVE  IInv'
<1>1. TypesOK' /\ tx'[p] = t /\ \A q \in Process \ {p} : tx'[q] = tx[q]
  BY DEF IInv, TypesOK
<1>2. Exclusive'
  BY <1>1 DEF IInv, Exclusive
<1>3. AgreedIn(requests, events)'
  BY DEF IInv, AgreedIn, Agreed, Answers, Cancels, About
<1>4. ASSUME NEW q \in Process PROVE CallOK(q, tx[q])'
  <2>1. CASE q = p
    BY <1>1, <2>1, CallTurns
  <2>2. CASE q # p
    BY <1>1, <2>2, CallTurns DEF IInv
  <2> QED BY <2>1, <2>2
<1> QED BY <1>1, <1>2, <1>3, <1>4 DEF IInv

(* Going on with another statement changes nothing else. *)
LEMMA TurnFields ==
    ASSUME NEW c \in Tx, NEW step \in Statements \cup {"commit"}
    PROVE  LET t == Turn(c, step)
           IN  /\ t \in Tx /\ t.step = step /\ t.began = FALSE /\ t.picked = {}
               /\ t.call = c.call /\ t.targets = c.targets /\ t.found = c.found
               /\ t.locks = c.locks /\ t.requests = c.requests /\ t.approvals = c.approvals
               /\ t.log = c.log
<1> DEFINE one == [c EXCEPT !.step = step]
           two == [one EXCEPT !.began = FALSE]
           three == [two EXCEPT !.picked = {}]
<1>1. one \in Tx /\ one.step = step
      /\ one.call = c.call /\ one.targets = c.targets /\ one.found = c.found
      /\ one.locks = c.locks /\ one.requests = c.requests /\ one.approvals = c.approvals
      /\ one.log = c.log
  BY DEF Tx
<1> HIDE DEF one
<1>2. two \in Tx /\ two.step = step /\ two.began = FALSE
      /\ two.call = c.call /\ two.targets = c.targets /\ two.found = c.found
      /\ two.locks = c.locks /\ two.requests = c.requests /\ two.approvals = c.approvals
      /\ two.log = c.log
  BY <1>1 DEF Tx
<1> HIDE DEF two
<1>3. three \in Tx /\ three.step = step /\ three.began = FALSE /\ three.picked = {}
      /\ three.call = c.call /\ three.targets = c.targets /\ three.found = c.found
      /\ three.locks = c.locks /\ three.requests = c.requests /\ three.approvals = c.approvals
      /\ three.log = c.log
  BY <1>2 DEF Tx
<1> HIDE DEF three
<1>4. three = Turn(c, step)
  BY DEF three, two, one, Turn
<1> QED BY <1>3, <1>4

(* What a statement may pick are rows of its table. *)
LEMMA QualifyingRows ==
    ASSUME IInv, NEW p \in Process, tx[p].step \in Picking
    PROVE  /\ Matching(p) \subseteq RowId
           /\ Qualifying(p) \subseteq tx[p].picked /\ Qualifying(p) \subseteq Matching(p)
           /\ tx[p].step = "revive" => Matching(p) = DismissedRows(SeenApprovals(p), Who(p))
           /\ tx[p].step \in {"withdraw", "dismiss"} =>
                 Matching(p) = ActiveRows(SeenApprovals(p), Who(p))
           /\ tx[p].step \in {"satisfy", "find"} =>
                 Matching(p) = OpenRows(SeenRequests(p), Who(p))
<1>1. DOMAIN SeenApprovals(p) \subseteq RowId /\ DOMAIN SeenRequests(p) \subseteq RowId
  BY SeenRows, TableType
<1>2. /\ DismissedRows(SeenApprovals(p), Who(p)) \subseteq RowId
      /\ ActiveRows(SeenApprovals(p), Who(p)) \subseteq RowId
      /\ OpenRows(SeenRequests(p), Who(p)) \subseteq RowId
  BY <1>1 DEF DismissedRows, ActiveRows, OpenRows
<1>3. /\ tx[p].step = "revive" => Matching(p) = DismissedRows(SeenApprovals(p), Who(p))
      /\ tx[p].step \in {"withdraw", "dismiss"} =>
            Matching(p) = ActiveRows(SeenApprovals(p), Who(p))
      /\ tx[p].step \in {"satisfy", "find"} =>
            Matching(p) = OpenRows(SeenRequests(p), Who(p))
  BY DEF Matching
<1> QED BY <1>2, <1>3 DEF Qualifying, Picking

(***************************************************************************)
(* Writes                                                                  *)
(***************************************************************************)

(* Writing changes one call's transaction. *)
LEMMA WriteFields ==
    ASSUME IInv, NEW p \in Process,
           NEW newRequests \in Table(RequestRow), NEW newApprovals \in Table(ApprovalRow),
           NEW log \in SUBSET EventSet, NEW step \in Statements \cup {"commit"},
           Write(p, newRequests, newApprovals, log, step)
    PROVE  LET t == [ call |-> tx[p].call, step |-> step, began |-> FALSE, picked |-> {},
                      targets |-> tx[p].targets,
                      found |-> tx[p].found, locks |-> tx[p].locks \cup DOMAIN newRequests,
                      requests |-> Over(newRequests, tx[p].requests),
                      approvals |-> Over(newApprovals, tx[p].approvals),
                      log |-> tx[p].log \cup log ]
           IN  t \in Tx /\ tx' = [tx EXCEPT ![p] = t]
<1> DEFINE c == tx[p]
           moreRequests == Over(newRequests, c.requests)
           moreLocks == c.locks \cup DOMAIN newRequests
           moreApprovals == Over(newApprovals, c.approvals)
           moreLog == c.log \cup log
           t == [ call |-> c.call, step |-> step, began |-> FALSE, picked |-> {},
                  targets |-> c.targets, found |-> c.found,
                  locks |-> moreLocks, requests |-> moreRequests, approvals |-> moreApprovals,
                  log |-> moreLog ]
           zero == Turn(c, step)
           one == [zero EXCEPT !.requests = moreRequests]
           two == [one EXCEPT !.locks = moreLocks]
           three == [two EXCEPT !.approvals = moreApprovals]
           four == [three EXCEPT !.log = moreLog]
<1>1. c \in Tx
  BY DEF IInv, TypesOK
<1>2. moreRequests \in Table(RequestRow) /\ moreApprovals \in Table(ApprovalRow)
  BY <1>1, OverType DEF Tx
<1>3. moreLocks \in SUBSET RowId /\ moreLog \in SUBSET EventSet
  BY <1>1, TableType DEF Tx
<1>4. zero \in Tx
      /\ zero.call = c.call /\ zero.step = step /\ zero.began = FALSE /\ zero.picked = {}
      /\ zero.targets = c.targets /\ zero.found = c.found
      /\ zero.locks = c.locks /\ zero.requests = c.requests /\ zero.approvals = c.approvals
      /\ zero.log = c.log
  BY <1>1, TurnFields
<1>5. tx' = [tx EXCEPT ![p] = four]
  <2>1. tx' = [tx EXCEPT ![p] =
                 [zero EXCEPT !.requests = Over(newRequests, @),
                              !.locks = @ \cup DOMAIN newRequests,
                              !.approvals = Over(newApprovals, @),
                              !.log = @ \cup log]]
    BY DEF Write
  <2> HIDE DEF zero
  <2>2. [zero EXCEPT !.requests = Over(newRequests, @), !.locks = @ \cup DOMAIN newRequests,
                     !.approvals = Over(newApprovals, @), !.log = @ \cup log]
        = [zero EXCEPT !.requests = moreRequests, !.locks = moreLocks,
                       !.approvals = moreApprovals, !.log = moreLog]
    BY <1>4 DEF Tx
  <2> QED BY <2>1, <2>2
<1> HIDE DEF c, moreRequests, moreLocks, moreApprovals, moreLog, zero
<1>6. t \in Tx
  BY <1>1, <1>2, <1>3, <1>4 DEF Tx
<1>7. one \in Tx
      /\ one.call = c.call /\ one.step = step /\ one.began = FALSE /\ one.picked = {}
      /\ one.targets = c.targets /\ one.found = c.found
      /\ one.locks = c.locks /\ one.requests = moreRequests /\ one.approvals = c.approvals
      /\ one.log = c.log
  BY <1>2, <1>4 DEF Tx
<1> HIDE DEF one
<1>8. two \in Tx
      /\ two.call = c.call /\ two.step = step /\ two.began = FALSE /\ two.picked = {}
      /\ two.targets = c.targets /\ two.found = c.found
      /\ two.locks = moreLocks /\ two.requests = moreRequests /\ two.approvals = c.approvals
      /\ two.log = c.log
  BY <1>3, <1>7 DEF Tx
<1> HIDE DEF two
<1>9. three \in Tx
      /\ three.call = c.call /\ three.step = step /\ three.began = FALSE /\ three.picked = {}
      /\ three.targets = c.targets
      /\ three.found = c.found /\ three.locks = moreLocks /\ three.requests = moreRequests
      /\ three.approvals = moreApprovals /\ three.log = c.log
  BY <1>2, <1>8 DEF Tx
<1> HIDE DEF three
<1>10. four \in Tx
      /\ four.call = c.call /\ four.step = step /\ four.began = FALSE /\ four.picked = {}
      /\ four.targets = c.targets
      /\ four.found = c.found /\ four.locks = moreLocks /\ four.requests = moreRequests
      /\ four.approvals = moreApprovals /\ four.log = moreLog
  BY <1>3, <1>9 DEF Tx
<1> HIDE DEF four
<1>11. four = t
  BY <1>10 DEF Tx
<1> QED BY <1>5, <1>6, <1>11 DEF c, moreRequests, moreLocks, moreApprovals, moreLog

(* What a statement may write: rows nobody else has locked, closed ones     *)
(* only as they are, and events that agree with them.                       *)
Sound(p, newRequests, log, step) ==
    /\ DOMAIN newRequests \subseteq DOMAIN SeenRequests(p) \cup Own(p)
    /\ \A q \in Process \ {p} : DOMAIN newRequests \cap tx[q].locks = {}
    /\ \A id \in DOMAIN newRequests \cap DOMAIN requests : requests[id].status # "open" =>
          /\ newRequests[id].status # "open"
          /\ newRequests[id].requirement = requests[id].requirement
    /\ \A id \in DOMAIN newRequests :
          Agreed(newRequests[id], Answers(id, events \cup tx[p].log \cup log),
                                  Cancels(id, events \cup tx[p].log \cup log))
    /\ \A id \in RowId \ DOMAIN newRequests : Answers(id, log) = {} /\ Cancels(id, log) = {}
    /\ step \in Asking =>
          tx[p].step \in Asking /\ \A id \in DOMAIN newRequests : newRequests[id].status = "open"

LEMMA WriteStep ==
    ASSUME IInv, NEW p \in Process, tx[p].step \in Statements,
           NEW newRequests \in Table(RequestRow), NEW newApprovals \in Table(ApprovalRow),
           NEW log \in SUBSET EventSet,
           NEW step \in Recording \cup {"withdraw", "commit"},
           step \in Recording => tx[p].step \in Recording,
           Write(p, newRequests, newApprovals, log, step),
           requests' = requests, approvals' = approvals, events' = events,
           Sound(p, newRequests, log, step)
    PROVE  IInv'
<1> DEFINE t == [ call |-> tx[p].call, step |-> step, began |-> FALSE, picked |-> {},
                  targets |-> tx[p].targets,
                  found |-> tx[p].found, locks |-> tx[p].locks \cup DOMAIN newRequests,
                  requests |-> Over(newRequests, tx[p].requests),
                  approvals |-> Over(newApprovals, tx[p].approvals),
                  log |-> tx[p].log \cup log ]
<1>1. t \in Tx /\ tx' = [tx EXCEPT ![p] = t]
  <2>1. step \in Statements \cup {"commit"}
    BY DEF Statements, Recording
  <2> QED BY <2>1, WriteFields
<1>2. /\ t.call = tx[p].call /\ t.step = step /\ t.targets = tx[p].targets
      /\ t.locks = tx[p].locks \cup DOMAIN newRequests
      /\ t.requests = Over(newRequests, tx[p].requests)
      /\ t.log = tx[p].log \cup log
  OBVIOUS
<1> HIDE DEF t
<1>3. /\ DOMAIN t.requests = DOMAIN newRequests \cup DOMAIN tx[p].requests
      /\ \A id \in DOMAIN newRequests : t.requests[id] = newRequests[id]
      /\ \A id \in DOMAIN tx[p].requests \ DOMAIN newRequests : t.requests[id] = tx[p].requests[id]
  BY <1>2 DEF Over
<1>4. CallOK(p, tx[p])
  BY DEF IInv
<1>5. step \notin Ended /\ step \notin {"open", "cancel", "dismiss"} /\ tx[p].step \notin Ended
  BY DEF Ended, Recording, Statements
<1>6. StepFits(p, t)
  <2>1. step \in Asking => tx[p].step \in Asking
    BY DEF Sound
  <2> QED BY <1>2, <1>4, <1>5, <2>1 DEF CallOK, StepFits
<1>7. LocksFit(p, t)
  <2>1. DOMAIN newRequests \subseteq DOMAIN requests \cup Own(p)
    BY <1>4, SeenRows DEF Sound, CallOK, LocksFit
  <2> QED BY <1>2, <1>3, <1>4, <1>5, <2>1 DEF CallOK, LocksFit
<1>8. FoundOpen(p, t)
  BY <1>2, <1>3, <1>4, <1>5 DEF CallOK, FoundOpen, Sound
<1>9. KeepsClosed(t)
  BY <1>3, <1>4 DEF CallOK, KeepsClosed, Sound
<1>10. LogFits(p, t)
  <2> DEFINE now == Over(t.requests, requests)
             old == Over(tx[p].requests, requests)
  <2>1. /\ DOMAIN now = DOMAIN newRequests \cup DOMAIN old
        /\ \A id \in DOMAIN newRequests : now[id] = newRequests[id]
        /\ \A id \in DOMAIN old \ DOMAIN newRequests : now[id] = old[id]
    BY <1>3 DEF Over
  <2>2. events \cup t.log = events \cup tx[p].log \cup log
    BY <1>2
  <2>3. AgreedIn(old, events \cup tx[p].log)
    BY <1>4 DEF CallOK, LogFits
  <2> HIDE DEF now, old
  <2>4. DOMAIN newRequests \subseteq RowId
    BY TableType
  <2>5. ASSUME NEW id \in RowId
        PROVE  IF id \in DOMAIN now
               THEN Agreed(now[id], Answers(id, events \cup t.log), Cancels(id, events \cup t.log))
               ELSE Answers(id, events \cup t.log) = {} /\ Cancels(id, events \cup t.log) = {}
    <3>1. CASE id \in DOMAIN newRequests
      BY <2>1, <2>2, <3>1 DEF Sound
    <3>2. CASE id \notin DOMAIN newRequests
      <4>1. Answers(id, events \cup t.log) = Answers(id, events \cup tx[p].log)
            /\ Cancels(id, events \cup t.log) = Cancels(id, events \cup tx[p].log)
        <5>1. Answers(id, log) = {} /\ Cancels(id, log) = {}
          BY <3>2 DEF Sound
        <5>2. Answers(id, (events \cup tx[p].log) \cup log)
                 = Answers(id, events \cup tx[p].log) \cup Answers(id, log)
              /\ Cancels(id, (events \cup tx[p].log) \cup log)
                 = Cancels(id, events \cup tx[p].log) \cup Cancels(id, log)
          BY LongerLog DEF Answers, Cancels
        <5> QED BY <2>2, <5>1, <5>2
      <4> QED BY <2>1, <2>3, <3>2, <4>1 DEF AgreedIn
    <3> QED BY <3>1, <3>2
  <2>6. AgreedIn(now, events \cup t.log)
    BY <2>5 DEF AgreedIn
  <2>7. ASSUME NEW id \in RowId \ DOMAIN t.requests
        PROVE  Answers(id, t.log) = {} /\ Cancels(id, t.log) = {}
    <3>1. id \notin DOMAIN newRequests /\ id \notin DOMAIN tx[p].requests
      BY <1>3
    <3> QED BY <1>2, <1>4, <3>1, LongerLog DEF Sound, Answers, Cancels, CallOK, LogFits
  <2> QED BY <2>6, <2>7 DEF LogFits, now
<1>11. \A q \in Process \ {p} : t.locks \cap tx[q].locks = {}
  BY <1>2 DEF IInv, Exclusive, Sound
<1> QED BY <1>1, <1>6, <1>7, <1>8, <1>9, <1>10, <1>11, StatementStep DEF CallOK

(* A statement that writes no request is sound. *)
LEMMA NoRequestIsSound ==
    ASSUME IInv, NEW p \in Process, NEW log \in SUBSET EventSet, NEW step,
           step \in Asking => tx[p].step \in Asking,
           \A id \in RowId : Answers(id, log) = {} /\ Cancels(id, log) = {}
    PROVE  Sound(p, NoRows, log, step)
BY NothingWritten DEF Sound

(***************************************************************************)
(* The statements                                                          *)
(***************************************************************************)

(* recordApproval's statements on approvals *)
LEMMA InsertApprovalStep ==
    ASSUME IInv, NEW p \in Process, InsertApproval(p)
    PROVE  IInv'
<1> DEFINE inserted == IF ActiveRows(SeenApprovals(p), Who(p)) = {} THEN {<<p, Who(p)>>} ELSE {}
           rows == [id \in inserted |-> [active |-> TRUE, by |-> p]]
<1>1. tx[p].step = "insert" /\ tx[p].step \in Statements /\ tx[p].step \in Recording
  BY DEF InsertApproval, At, Statements, Recording
<1>2. Write(p, NoRows, rows, {}, "revive") /\ UNCHANGED <<requests, approvals, events, met>>
  BY DEF InsertApproval, Rows
<1>3. rows \in Table(ApprovalRow)
  <2>1. <<p, Who(p)>> \in RowId /\ p \in {id[1] : id \in RowId}
    BY <1>1, WhoType DEF Statements
  <2>2. [active |-> TRUE, by |-> p] \in ApprovalRow
    BY <2>1 DEF ApprovalRow
  <2>3. inserted \subseteq RowId
    BY <2>1
  <2> HIDE DEF inserted
  <2> QED BY <2>2, <2>3, TableType
<1> HIDE DEF rows
<1>4. Sound(p, NoRows, {}, "revive")
  BY NoRequestIsSound DEF Answers, Cancels, About, Asking
<1> QED BY <1>1, <1>2, <1>3, <1>4, NothingWritten, WriteStep DEF Recording

(* A failed call leaves nothing. *)
LEMMA FailStep ==
    ASSUME IInv, NEW p \in Process, NEW reason \in {"duplicate", "deadlock"}, Fail(p, reason)
    PROVE  IInv'
<1> DEFINE t == Blank(tx[p].call, reason)
<1>1. /\ tx' = [tx EXCEPT ![p] = t] /\ requests' = requests /\ approvals' = approvals
      /\ events' = events
  BY DEF Fail
<1>2. /\ t.call = tx[p].call /\ t.step = reason /\ t.targets = <<>> /\ t.found = {}
      /\ t.locks = {} /\ t.requests = NoRows /\ t.approvals = NoRows /\ t.log = {}
  BY DEF Blank
<1>3. t \in Tx
  <2>1. tx[p].call \in Call \cup {NoCall} /\ reason \in Ended
    BY DEF IInv, TypesOK, Tx, Ended
  <2> QED BY <2>1, NothingWritten DEF Tx, Blank
<1>4. t = Blank(t.call, t.step)
  BY <1>2
<1> HIDE DEF t
<1>5. StepFits(p, t) /\ LocksFit(p, t) /\ FoundOpen(p, t) /\ KeepsClosed(t)
  BY <1>2, <1>4, NothingWritten
     DEF StepFits, LocksFit, FoundOpen, KeepsClosed, Ended, Recording, Asking
<1>6. LogFits(p, t)
  <2>1. Over(t.requests, requests) = requests
    BY <1>2, NothingWritten DEF IInv, TypesOK
  <2>2. events \cup t.log = events
    BY <1>2
  <2> QED BY <1>2, <2>1, <2>2 DEF LogFits, IInv, Answers, Cancels, About
<1> QED BY <1>1, <1>2, <1>3, <1>5, <1>6, StatementStep DEF CallOK

LEMMA ReviveApprovalStep ==
    ASSUME IInv, NEW p \in Process, ReviveApproval(p)
    PROVE  IInv'
<1> DEFINE dismissed == Qualifying(p)
           rows == [id \in dismissed |-> [active |-> TRUE, by |-> p]]
<1>1. tx[p].step = "revive" /\ tx[p].step \in Statements /\ tx[p].step \in Recording
  BY DEF ReviveApproval, At, Statements, Recording
<1>2. CASE Fail(p, "duplicate")
  BY <1>2, FailStep
<1>3. CASE ~Fail(p, "duplicate")
  <2>1. Write(p, NoRows, rows, {}, "satisfy") /\ UNCHANGED <<requests, approvals, events, met>>
    BY <1>3 DEF ReviveApproval, Rows
  <2>2. rows \in Table(ApprovalRow)
    <3>1. [active |-> TRUE, by |-> p] \in ApprovalRow
      BY <1>1, WhoType DEF Statements, ApprovalRow
    <3>2. dismissed \subseteq RowId
      BY <1>1, QualifyingRows DEF Picking
    <3> HIDE DEF dismissed
    <3> QED BY <3>1, <3>2, TableType
  <2> HIDE DEF rows
  <2>3. Sound(p, NoRows, {}, "satisfy")
    BY NoRequestIsSound DEF Answers, Cancels, About, Asking
  <2> QED BY <1>1, <2>1, <2>2, <2>3, NothingWritten, WriteStep DEF Recording
<1> QED BY <1>2, <1>3

(* Approvals that are dismissed stay rows of their table. *)
LEMMA DismissedType ==
    ASSUME IInv, NEW p \in Process, tx[p].step \in {"withdraw", "dismiss"}
    PROVE  LET active == Qualifying(p)
           IN  /\ active \subseteq RowId
               /\ [id \in active |-> [SeenApprovals(p)[id] EXCEPT !.active = FALSE]]
                     \in Table(ApprovalRow)
<1> DEFINE active == Qualifying(p)
           rows == [id \in active |-> [SeenApprovals(p)[id] EXCEPT !.active = FALSE]]
<1>1. /\ DOMAIN SeenApprovals(p) \subseteq RowId
      /\ \A id \in DOMAIN SeenApprovals(p) : SeenApprovals(p)[id] \in ApprovalRow
  BY SeenRows, TableType
<1>2. active \subseteq DOMAIN SeenApprovals(p)
  BY QualifyingRows DEF ActiveRows, Picking
<1> HIDE DEF active
<1>3. \A id \in active : [SeenApprovals(p)[id] EXCEPT !.active = FALSE] \in ApprovalRow
  BY <1>1, <1>2 DEF ApprovalRow
<1>4. rows \in Table(ApprovalRow)
  BY <1>1, <1>2, <1>3, TableType
<1> QED BY <1>1, <1>2, <1>4 DEF active

LEMMA DismissApprovalStep ==
    ASSUME IInv, NEW p \in Process, DismissApproval(p)
    PROVE  IInv'
<1> DEFINE active == Qualifying(p)
           rows == [id \in active |-> [SeenApprovals(p)[id] EXCEPT !.active = FALSE]]
           log == Event(p, "approval-dismissed", active)
<1>1. tx[p].step = "dismiss" /\ tx[p].step \in Statements
  BY DEF DismissApproval, At, Statements
<1>2. Write(p, NoRows, rows, log, "commit") /\ UNCHANGED <<requests, approvals, events, met>>
  BY DEF DismissApproval, Rows
<1>3. active \in SUBSET RowId /\ rows \in Table(ApprovalRow)
  BY <1>1, DismissedType
<1> HIDE DEF active, rows
<1>4. /\ log \in SUBSET EventSet
      /\ \A id \in RowId : Answers(id, log) = {} /\ Cancels(id, log) = {}
  BY <1>3, LoggedEvents DEF EventKind, Answers, Cancels
<1> HIDE DEF log
<1>5. Sound(p, NoRows, log, "commit")
  BY <1>4, NoRequestIsSound DEF Asking
<1> QED BY <1>1, <1>2, <1>3, <1>4, <1>5, NothingWritten, WriteStep DEF Recording

(* An open request that a call sees is open in the table, if it is there,   *)
(* and the timeline has neither an answer nor a cancel of it.               *)
LEMMA OpenSeen ==
    ASSUME IInv, NEW p \in Process, NEW id \in DOMAIN SeenRequests(p),
           SeenRequests(p)[id].status = "open"
    PROVE  /\ id \in RowId
           /\ id \in DOMAIN requests => requests[id].status = "open"
           /\ Answers(id, events \cup tx[p].log) = {} /\ Cancels(id, events \cup tx[p].log) = {}
<1>1. id \in RowId
  BY SeenRows, TableType
<1>2. id \in DOMAIN requests => requests[id].status = "open"
  BY SeenRows DEF IInv, CallOK, KeepsClosed
<1>3. AgreedIn(SeenRequests(p), events \cup tx[p].log)
  BY DEF IInv, CallOK, LogFits, SeenRequests
<1>4. Agreed(SeenRequests(p)[id], Answers(id, events \cup tx[p].log),
             Cancels(id, events \cup tx[p].log))
  BY <1>1, <1>3 DEF AgreedIn
<1> QED BY <1>1, <1>2, <1>4 DEF Agreed

(* Rows a statement may take, nobody else has: those of its own, and those  *)
(* in the table it need not wait for.                                       *)
LEMMA OpenRowsFree ==
    ASSUME IInv, NEW p \in Process, tx[p].step \in {"satisfy", "find"}, WaitsFor(p) = {},
           NEW id \in Qualifying(p)
    PROVE  /\ id \in DOMAIN SeenRequests(p) /\ SeenRequests(p)[id].status = "open"
           /\ \A q \in Process \ {p} : id \notin tx[q].locks
<1>1. id \in tx[p].picked /\ id \in OpenRows(SeenRequests(p), Who(p))
  BY QualifyingRows DEF Picking
<1>2. id \in DOMAIN SeenRequests(p) /\ SeenRequests(p)[id].status = "open"
  BY <1>1 DEF OpenRows
<1>3. HoldRequests(p, tx[p].picked) = {}
  BY DEF WaitsFor
<1> QED BY <1>1, <1>2, <1>3 DEF HoldRequests, Others

LEMMA SatisfyRequestsStep ==
    ASSUME IInv, NEW p \in Process, SatisfyRequests(p)
    PROVE  IInv'
<1> DEFINE mine == Qualifying(p)
           rows == [id \in mine |-> [SeenRequests(p)[id] EXCEPT !.status = "satisfied"]]
           log == Event(p, "request-satisfied", mine)
<1>1. tx[p].step = "satisfy" /\ tx[p].step \in Statements /\ WaitsFor(p) = {}
  BY DEF SatisfyRequests, At, Statements
<1>2. Write(p, rows, NoRows, log, "commit") /\ UNCHANGED <<requests, approvals, events, met>>
  BY DEF SatisfyRequests, Rows
<1>3. \A id \in mine : /\ id \in DOMAIN SeenRequests(p) /\ SeenRequests(p)[id].status = "open"
                       /\ \A q \in Process \ {p} : id \notin tx[q].locks
  BY <1>1, OpenRowsFree
<1> HIDE DEF mine
<1>4. /\ mine \in SUBSET RowId
      /\ \A id \in mine : rows[id] \in RequestRow /\ rows[id].status = "satisfied"
  <2>1. ASSUME NEW id \in mine
        PROVE  id \in RowId /\ SeenRequests(p)[id] \in RequestRow
    BY <1>3, SeenRows, TableType
  <2> QED BY <2>1 DEF RequestRow
<1>5. DOMAIN rows = mine /\ rows = [id \in DOMAIN rows |-> rows[id]]
  OBVIOUS
<1> HIDE DEF rows
<1>6. rows \in Table(RequestRow)
  BY <1>4, <1>5, TableType
<1>7. /\ log \in SUBSET EventSet
      /\ \A id : Answers(id, log) = (IF id \in mine THEN {<<"request-satisfied", id, p>>} ELSE {})
                /\ Cancels(id, log) = {}
  BY <1>4, LoggedEvents DEF EventKind, Answers, Cancels
<1> HIDE DEF log
<1>8. ASSUME NEW id \in mine
      PROVE  Agreed(rows[id], Answers(id, events \cup tx[p].log \cup log),
                              Cancels(id, events \cup tx[p].log \cup log))
  <2>1. Answers(id, events \cup tx[p].log) = {} /\ Cancels(id, events \cup tx[p].log) = {}
    BY <1>3, OpenSeen
  <2>2. /\ Answers(id, events \cup tx[p].log \cup log) = {<<"request-satisfied", id, p>>}
        /\ Cancels(id, events \cup tx[p].log \cup log) = {}
    BY <1>7, <2>1, LongerLog DEF Answers, Cancels
  <2> QED BY <1>4, <2>2 DEF Agreed
<1>9. \A id \in mine \cap DOMAIN requests : requests[id].status = "open"
  BY <1>3, OpenSeen
<1>10. Sound(p, rows, log, "commit")
  BY <1>3, <1>5, <1>7, <1>8, <1>9 DEF Sound, Asking
<1> QED BY <1>1, <1>2, <1>6, <1>7, <1>10, NothingWritten, WriteStep DEF Recording

LEMMA CancelRequestStep ==
    ASSUME IInv, NEW p \in Process, CancelRequest(p)
    PROVE  IInv'
<1> DEFINE id == tx[p].call.row
           rows == [r \in {id} |-> [SeenRequests(p)[r] EXCEPT !.status = "cancelled"]]
           log == Event(p, "request-cancelled", {id})
<1>1. tx[p].step = "cancel" /\ tx[p].step \in Statements /\ WaitsFor(p) = {}
  BY DEF CancelRequest, At, Statements
<1>2. Write(p, rows, NoRows, log, "commit") /\ UNCHANGED <<requests, approvals, events, met>>
  BY DEF CancelRequest, Rows
<1>3. id \in DOMAIN requests /\ id \in RowId
  BY <1>1, TableType DEF IInv, CallOK, StepFits, TypesOK
<1>4. \A q \in Process \ {p} : id \notin tx[q].locks
  BY <1>1 DEF WaitsFor, HoldRequests, Others
<1> HIDE DEF id
<1>5. SeenRequests(p)[id] \in RequestRow /\ id \in DOMAIN SeenRequests(p)
  <2>1. id \in DOMAIN SeenRequests(p)
    BY <1>3, SeenRows
  <2>2. \A r \in DOMAIN SeenRequests(p) : SeenRequests(p)[r] \in RequestRow
    BY SeenRows, TableType
  <2> QED BY <2>1, <2>2
<1>6. requests[id].status # "open" => SeenRequests(p)[id].requirement = requests[id].requirement
  BY <1>3, SeenRows DEF IInv, CallOK, KeepsClosed
<1>7. /\ DOMAIN rows = {id} /\ rows = [r \in DOMAIN rows |-> rows[r]]
      /\ rows[id] \in RequestRow /\ rows[id].status = "cancelled"
      /\ rows[id].requirement = SeenRequests(p)[id].requirement
  BY <1>5 DEF RequestRow
<1> HIDE DEF rows
<1>8. rows \in Table(RequestRow)
  BY <1>3, <1>7, TableType
<1>9. /\ log \in SUBSET EventSet
      /\ \A r : /\ Answers(r, log) = {}
                /\ Cancels(r, log) = IF r \in {id} THEN {<<"request-cancelled", r, p>>} ELSE {}
  BY <1>3, LoggedEvents DEF EventKind, Answers, Cancels
<1> HIDE DEF log
<1>10. Agreed(rows[id], Answers(id, events \cup tx[p].log \cup log),
                        Cancels(id, events \cup tx[p].log \cup log))
  <2>1. AgreedIn(SeenRequests(p), events \cup tx[p].log)
    BY DEF IInv, CallOK, LogFits, SeenRequests
  <2>2. Agreed(SeenRequests(p)[id], Answers(id, events \cup tx[p].log),
               Cancels(id, events \cup tx[p].log))
    BY <1>3, <1>5, <2>1 DEF AgreedIn
  <2>3. Answers(id, events \cup tx[p].log) = {} \/ \E e : Answers(id, events \cup tx[p].log) = {e}
    BY <1>5, <2>2 DEF Agreed, RequestRow
  <2>4. Answers(id, events \cup tx[p].log \cup log) = Answers(id, events \cup tx[p].log)
    <3>1. Answers(id, log) = {}
      BY <1>9
    <3>2. Answers(id, (events \cup tx[p].log) \cup log)
             = Answers(id, events \cup tx[p].log) \cup Answers(id, log)
      BY LongerLog DEF Answers
    <3> QED BY <3>1, <3>2
  <2>5. Cancels(id, events \cup tx[p].log \cup log) # {}
    <3>1. Cancels(id, log) = {<<"request-cancelled", id, p>>}
      BY <1>9
    <3>2. Cancels(id, (events \cup tx[p].log) \cup log)
             = Cancels(id, events \cup tx[p].log) \cup Cancels(id, log)
      BY LongerLog DEF Cancels
    <3> QED BY <3>1, <3>2
  <2> QED BY <1>7, <2>3, <2>4, <2>5 DEF Agreed
<1>11. Sound(p, rows, log, "commit")
  BY <1>4, <1>5, <1>6, <1>7, <1>9, <1>10 DEF Sound, Asking
<1> QED BY <1>1, <1>2, <1>8, <1>9, <1>11, NothingWritten, WriteStep DEF Recording

(* requestReview's statements, for the first target left *)
LEMMA FindOpenRequestStep ==
    ASSUME IInv, NEW p \in Process, FindOpenRequest(p)
    PROVE  IInv'
<1> DEFINE c == tx[p]
           open == Qualifying(p)
           zero == Turn(c, "open")
           one == [zero EXCEPT !.found = open]
           t == [one EXCEPT !.locks = c.locks \cup open]
<1>1. c.step = "find" /\ WaitsFor(p) = {}
  BY DEF FindOpenRequest, At
<1>3. c \in Tx /\ CallOK(p, c)
  BY DEF IInv, TypesOK
<1>16. zero \in Tx /\ zero.call = c.call /\ zero.targets = c.targets /\ zero.step = "open"
       /\ zero.locks = c.locks /\ zero.requests = c.requests /\ zero.approvals = c.approvals
       /\ zero.log = c.log
  BY <1>3, TurnFields DEF Statements
<1>2. /\ tx' = [tx EXCEPT ![p] = t] /\ requests' = requests /\ approvals' = approvals
      /\ events' = events
  <2>1. tx' = [tx EXCEPT ![p] = [zero EXCEPT !.found = open, !.locks = @ \cup open]]
        /\ UNCHANGED <<requests, approvals, events>>
    BY DEF FindOpenRequest
  <2> HIDE DEF zero
  <2>2. [zero EXCEPT !.found = open, !.locks = @ \cup open] = t
    BY <1>16 DEF Tx
  <2> QED BY <2>1, <2>2
<1>4. \A id \in open : /\ id \in RowId
                       /\ id \in DOMAIN requests \cup DOMAIN c.requests
                       /\ id \in DOMAIN requests => requests[id].status = "open"
                       /\ \A q \in Process \ {p} : id \notin tx[q].locks
  BY <1>1, OpenRowsFree, OpenSeen, SeenRows
<1>5. Over(c.requests, requests) = SeenRequests(p)
  BY DEF SeenRequests
<1>6. \A q \in Process \ {p} : c.locks \cap tx[q].locks = {}
  BY DEF IInv, Exclusive
<1> HIDE DEF c, open, zero
<1>7. open \subseteq RowId
  BY <1>4
<1>8. one \in Tx /\ one.call = c.call /\ one.targets = c.targets /\ one.found = open
      /\ one.locks = c.locks /\ one.requests = c.requests /\ one.step = "open"
      /\ one.log = c.log
  BY <1>7, <1>16 DEF Tx
<1> HIDE DEF one
<1>10. t \in Tx /\ t.call = c.call /\ t.targets = c.targets /\ t.found = open
       /\ t.locks = c.locks \cup open /\ t.requests = c.requests /\ t.log = c.log
       /\ t.step = "open"
  BY <1>3, <1>7, <1>8 DEF Tx
<1> HIDE DEF t
<1>11. StepFits(p, t)
  BY <1>1, <1>3, <1>10 DEF CallOK, StepFits, Ended, Recording, Asking
<1>12. LocksFit(p, t)
  <2>1. DOMAIN c.requests \subseteq c.locks /\ c.locks \subseteq DOMAIN requests \cup Own(p)
        /\ Own(p) \cap DOMAIN requests = {}
    BY <1>1, <1>3 DEF CallOK, LocksFit, Ended
  <2> QED BY <1>4, <1>10, <2>1 DEF LocksFit
<1>13. FoundOpen(p, t)
  <2>1. \A id \in open : \/ id \in DOMAIN c.requests
                         \/ id \in DOMAIN requests /\ requests[id].status = "open"
    BY <1>4
  <2>2. \A id \in DOMAIN c.requests : c.requests[id].status = "open"
    BY <1>1, <1>3 DEF CallOK, FoundOpen, Asking
  <2> QED BY <1>10, <2>1, <2>2 DEF FoundOpen
<1>14. KeepsClosed(t) /\ LogFits(p, t)
  BY <1>3, <1>10 DEF CallOK, KeepsClosed, LogFits
<1>15. \A q \in Process \ {p} : t.locks \cap tx[q].locks = {}
  BY <1>4, <1>6, <1>10
<1> QED BY <1>2, <1>10, <1>11, <1>12, <1>13, <1>14, <1>15, StatementStep DEF CallOK

(* Going on to the next target keeps what has been written. *)
LEMMA NextTargetFits ==
    ASSUME IInv, NEW p \in Process, tx[p].step \in {"open", "withdraw"}, NEW t \in Tx,
           NEW log \in SUBSET EventSet,
           \A id \in RowId : Answers(id, log) = {} /\ Cancels(id, log) = {},
           t.call = tx[p].call, t.targets = Tail(tx[p].targets),
           t.locks = tx[p].locks, t.requests = tx[p].requests, t.log = tx[p].log \cup log,
           t.step = (IF Len(tx[p].targets) = 1 THEN "commit" ELSE "find"),
           tx' = [tx EXCEPT ![p] = t],
           requests' = requests, approvals' = approvals, events' = events
    PROVE  IInv'
<1>1. CallOK(p, tx[p]) /\ tx[p] \in Tx
  BY DEF IInv, TypesOK
<1>2. tx[p].targets \in Seq(Reviewer) /\ tx[p].targets # <<>> /\ tx[p].call.op = "request"
      /\ tx[p].call \in Call
  BY <1>1 DEF CallOK, StepFits, Asking, Tx, Ended
<1>3. t.step = "find" => t.targets # <<>>
  <2> DEFINE targets == tx[p].targets
  <2>1. targets \in Seq(Reviewer) /\ targets # <<>> /\ t.targets = Tail(targets)
        /\ (t.step = "find" => Len(targets) # 1)
    BY <1>2
  <2> HIDE DEF targets
  <2>2. Len(targets) \in Nat /\ Len(targets) # 0
    BY <2>1
  <2>3. Len(Tail(targets)) = Len(targets) - 1
    BY <2>1
  <2>4. ASSUME t.step = "find" PROVE Len(Tail(targets)) # 0
    BY <2>1, <2>2, <2>3, <2>4
  <2>5. Tail(targets) \in Seq(Reviewer)
    BY <2>1
  <2>6. \A rest \in Seq(Reviewer) : rest = <<>> => Len(rest) = 0
    OBVIOUS
  <2> QED BY <2>1, <2>4, <2>5, <2>6
<1>4. t.step \in {"commit", "find"}
  OBVIOUS
<1>5. StepFits(p, t)
  BY <1>2, <1>3, <1>4 DEF StepFits, Ended, Recording, Asking
<1>6. LocksFit(p, t) /\ FoundOpen(p, t) /\ KeepsClosed(t)
  BY <1>1, <1>4 DEF CallOK, LocksFit, FoundOpen, KeepsClosed, Asking, Ended
<1>7. LogFits(p, t)
  <2>1. events \cup t.log = (events \cup tx[p].log) \cup log
    OBVIOUS
  <2>2. ASSUME NEW id \in RowId
        PROVE  /\ Answers(id, events \cup t.log) = Answers(id, events \cup tx[p].log)
               /\ Cancels(id, events \cup t.log) = Cancels(id, events \cup tx[p].log)
               /\ Answers(id, t.log) = Answers(id, tx[p].log)
               /\ Cancels(id, t.log) = Cancels(id, tx[p].log)
    <3>1. \A old : /\ Answers(id, old \cup log) = Answers(id, old) \cup Answers(id, log)
                   /\ Cancels(id, old \cup log) = Cancels(id, old) \cup Cancels(id, log)
      BY LongerLog DEF Answers, Cancels
    <3>2. \A old : Answers(id, old \cup log) = Answers(id, old)
                   /\ Cancels(id, old \cup log) = Cancels(id, old)
      BY <3>1
    <3> QED BY <2>1, <3>2
  <2> QED BY <1>1, <2>2 DEF CallOK, LogFits, AgreedIn
<1>8. \A q \in Process \ {p} : t.locks \cap tx[q].locks = {}
  BY DEF IInv, Exclusive
<1> QED BY <1>5, <1>6, <1>7, <1>8, StatementStep DEF CallOK

LEMMA NextTargetStep ==
    ASSUME IInv, NEW p \in Process, tx[p].step \in {"open", "withdraw"}, NextTarget(p),
           requests' = requests, approvals' = approvals, events' = events
    PROVE  IInv'
<1> DEFINE c == tx[p]
           left == Tail(c.targets)
           next == Following(p)
           zero == Turn(c, next)
           t == [zero EXCEPT !.targets = left]
<1>1. c \in Tx /\ left \in Seq(Reviewer)
  <2>1. c \in Tx /\ c.targets \in Seq(Reviewer) /\ c.targets # <<>>
    BY DEF IInv, TypesOK, CallOK, StepFits, Asking, Tx
  <2> QED BY <2>1
<1>2. next \in {"commit", "find"} /\ left = Tail(tx[p].targets)
      /\ next = (IF Len(tx[p].targets) = 1 THEN "commit" ELSE "find")
  BY DEF Following
<1>3. zero \in Tx /\ zero.call = c.call /\ zero.locks = c.locks /\ zero.targets = c.targets
      /\ zero.requests = c.requests /\ zero.log = c.log /\ zero.step = next
  BY <1>1, <1>2, TurnFields DEF Statements
<1>4. tx' = [tx EXCEPT ![p] = t]
  <2>1. tx' = [tx EXCEPT ![p] = [zero EXCEPT !.targets = Tail(@)]]
    BY DEF NextTarget
  <2> HIDE DEF zero
  <2>2. [zero EXCEPT !.targets = Tail(@)] = t
    BY <1>3 DEF Tx
  <2> QED BY <2>1, <2>2
<1> HIDE DEF left, next, zero
<1>6. t \in Tx /\ t.call = c.call /\ t.targets = left /\ t.locks = c.locks
      /\ t.requests = c.requests /\ t.log = c.log /\ t.step = next
  BY <1>1, <1>3 DEF Tx
<1> HIDE DEF t
<1>7. t.log = tx[p].log \cup {} /\ \A id \in RowId : Answers(id, {}) = {} /\ Cancels(id, {}) = {}
  BY <1>6 DEF Answers, Cancels, About
<1> QED BY <1>2, <1>4, <1>6, <1>7, NextTargetFits

LEMMA UpgradeRequestStep ==
    ASSUME IInv, NEW p \in Process, UpgradeRequest(p)
    PROVE  IInv'
<1> DEFINE upgraded == {id \in tx[p].found :
                           /\ SeenRequests(p)[id].requirement = "optional"
                           /\ tx[p].call.requirement = "required"}
           rows == [id \in upgraded |-> [SeenRequests(p)[id] EXCEPT !.requirement = "required"]]
           log == Event(p, "review-requested", upgraded)
<1>1. tx[p].step = "open" /\ tx[p].step \in Statements /\ tx[p].step \in Asking
  BY DEF UpgradeRequest, At, Statements, Asking
<1>2. CASE upgraded = {}
  BY <1>1, <1>2, NextTargetStep DEF UpgradeRequest
<1>3. CASE upgraded # {}
  <2>1. Write(p, rows, NoRows, log, "withdraw") /\ UNCHANGED <<requests, approvals, events, met>>
    BY <1>3 DEF UpgradeRequest, Rows
  <2>2. ASSUME NEW id \in upgraded
        PROVE  /\ id \in DOMAIN SeenRequests(p) /\ SeenRequests(p)[id].status = "open"
               /\ \A q \in Process \ {p} : id \notin tx[q].locks
    <3>1. id \in tx[p].found /\ CallOK(p, tx[p])
      BY DEF IInv
    <3> HIDE DEF upgraded
    <3>2. /\ id \in tx[p].locks
          /\ \/ id \in DOMAIN tx[p].requests
             \/ id \in DOMAIN requests /\ requests[id].status = "open"
      BY <1>1, <3>1 DEF CallOK, FoundOpen
    <3>3. \A r \in DOMAIN tx[p].requests : tx[p].requests[r].status = "open"
      BY <1>1, <3>1 DEF CallOK, FoundOpen
    <3>4. id \in DOMAIN SeenRequests(p) /\ SeenRequests(p)[id].status = "open"
      BY <3>2, <3>3, SeenRows
    <3> QED BY <3>2, <3>4 DEF IInv, Exclusive
  <2> HIDE DEF upgraded
  <2>3. /\ upgraded \in SUBSET RowId
        /\ \A id \in upgraded : rows[id] \in RequestRow /\ rows[id].status = "open"
    <3>1. ASSUME NEW id \in upgraded
          PROVE  id \in RowId /\ SeenRequests(p)[id] \in RequestRow
      BY <2>2, SeenRows, TableType
    <3>2. ASSUME NEW id \in upgraded
          PROVE  rows[id] \in RequestRow /\ rows[id].status = "open"
      BY <2>2, <3>1 DEF RequestRow, Requirement
    <3> QED BY <3>1, <3>2
  <2>4. DOMAIN rows = upgraded /\ rows = [id \in DOMAIN rows |-> rows[id]]
    OBVIOUS
  <2> HIDE DEF rows
  <2>5. rows \in Table(RequestRow)
    BY <2>3, <2>4, TableType
  <2>6. log \in SUBSET EventSet /\ \A id : Answers(id, log) = {} /\ Cancels(id, log) = {}
    BY <2>3, LoggedEvents DEF EventKind, Answers, Cancels
  <2> HIDE DEF log
  <2>7. ASSUME NEW id \in upgraded
        PROVE  Agreed(rows[id], Answers(id, events \cup tx[p].log \cup log),
                                Cancels(id, events \cup tx[p].log \cup log))
    <3>1. Answers(id, events \cup tx[p].log) = {} /\ Cancels(id, events \cup tx[p].log) = {}
      BY <2>2, OpenSeen
    <3>2. /\ Answers(id, events \cup tx[p].log \cup log) = {}
          /\ Cancels(id, events \cup tx[p].log \cup log) = {}
      BY <2>6, <3>1, LongerLog DEF Answers, Cancels
    <3> QED BY <2>3, <3>2 DEF Agreed
  <2>8. \A id \in upgraded \cap DOMAIN requests : requests[id].status = "open"
    BY <2>2, OpenSeen
  <2>9. Sound(p, rows, log, "withdraw")
    BY <1>1, <2>2, <2>3, <2>4, <2>6, <2>7, <2>8 DEF Sound
  <2> QED BY <1>1, <2>1, <2>5, <2>6, <2>9, NothingWritten, WriteStep DEF Recording
<1> QED BY <1>2, <1>3

LEMMA InsertRequestStep ==
    ASSUME IInv, NEW p \in Process, InsertRequest(p)
    PROVE  IInv'
<1> DEFINE id == <<p, Who(p)>>
           row == [requirement |-> tx[p].call.requirement, status |-> "open"]
           rows == [r \in {id} |-> row]
           log == Event(p, "review-requested", {id})
<1>1. tx[p].step = "open" /\ tx[p].step \in Statements /\ tx[p].step \in Asking
  BY DEF InsertRequest, At, Statements, Asking
<1>2. CASE Fail(p, "duplicate")
  BY <1>2, FailStep
<1>3. CASE ~Fail(p, "duplicate")
  <2>1. Write(p, rows, NoRows, log, "withdraw") /\ UNCHANGED <<requests, approvals, events, met>>
    BY <1>3 DEF InsertRequest, Rows
  <2>2. id \in RowId /\ id \in Own(p) /\ \A q \in Process \ {p} : id \notin Own(q)
    BY <1>1, WhoType DEF Own, Statements
  <2>3. CallOK(p, tx[p]) /\ \A q \in Process : CallOK(q, tx[q])
    BY DEF IInv
  <2>4. id \notin DOMAIN requests /\ \A q \in Process \ {p} : id \notin tx[q].locks
    BY <1>1, <2>2, <2>3 DEF CallOK, LocksFit, Ended
  <2>5. row \in RequestRow /\ row.status = "open"
    <3>1. tx[p].call \in Call /\ tx[p].call.op = "request"
      BY <1>1, <2>3 DEF CallOK, StepFits, Ended, Statements
    <3> QED BY <3>1, CallFacts DEF RequestRow
  <2>6. Answers(id, events \cup tx[p].log) = {} /\ Cancels(id, events \cup tx[p].log) = {}
    <3> HIDE DEF id
    <3>1. CASE id \in DOMAIN SeenRequests(p)
      <4>1. id \in DOMAIN tx[p].requests
        BY <2>4, <3>1, SeenRows
      <4>2. SeenRequests(p)[id].status = "open"
        BY <1>1, <2>3, <4>1, SeenRows DEF CallOK, FoundOpen
      <4> QED BY <3>1, <4>2, OpenSeen
    <3>2. CASE id \notin DOMAIN SeenRequests(p)
      BY <2>2, <2>3, <3>2 DEF CallOK, LogFits, AgreedIn, SeenRequests
    <3> QED BY <3>1, <3>2
  <2> HIDE DEF id, row
  <2>7. DOMAIN rows = {id} /\ rows = [r \in DOMAIN rows |-> rows[r]] /\ rows[id] = row
    OBVIOUS
  <2> HIDE DEF rows
  <2>8. rows \in Table(RequestRow)
    BY <2>2, <2>5, <2>7, TableType
  <2>9. log \in SUBSET EventSet /\ \A r : Answers(r, log) = {} /\ Cancels(r, log) = {}
    BY <2>2, LoggedEvents DEF EventKind, Answers, Cancels
  <2> HIDE DEF log
  <2>10. Agreed(rows[id], Answers(id, events \cup tx[p].log \cup log),
                          Cancels(id, events \cup tx[p].log \cup log))
    <3>1. /\ Answers(id, events \cup tx[p].log \cup log) = {}
          /\ Cancels(id, events \cup tx[p].log \cup log) = {}
      BY <2>6, <2>9, LongerLog DEF Answers, Cancels
    <3> QED BY <2>5, <2>7, <3>1 DEF Agreed
  <2>11. Sound(p, rows, log, "withdraw")
    BY <1>1, <2>2, <2>4, <2>5, <2>7, <2>9, <2>10 DEF Sound
  <2> QED BY <1>1, <2>1, <2>8, <2>9, <2>11, NothingWritten, WriteStep DEF Recording
<1> QED BY <1>2, <1>3

LEMMA WithdrawApprovalStep ==
    ASSUME IInv, NEW p \in Process, WithdrawApproval(p)
    PROVE  IInv'
<1> DEFINE c == tx[p]
           active == Qualifying(p)
           rows == [id \in active |-> [SeenApprovals(p)[id] EXCEPT !.active = FALSE]]
           written == Over(rows, c.approvals)
           log == Event(p, "approval-dismissed", active)
           left == Tail(c.targets)
           next == Following(p)
           moreLog == c.log \cup log
           zero == Turn(c, next)
           one == [zero EXCEPT !.approvals = written]
           two == [one EXCEPT !.log = moreLog]
           t == [two EXCEPT !.targets = left]
<1>1. c.step = "withdraw"
  BY DEF WithdrawApproval, At
<1>3. c \in Tx /\ left \in Seq(Reviewer)
  <2>1. c \in Tx /\ c.targets \in Seq(Reviewer) /\ c.targets # <<>>
    BY <1>1 DEF IInv, TypesOK, CallOK, StepFits, Asking, Tx
  <2> QED BY <2>1
<1>5. next \in {"commit", "find"} /\ left = Tail(tx[p].targets)
      /\ next = (IF Len(tx[p].targets) = 1 THEN "commit" ELSE "find")
  BY DEF Following
<1>9. zero \in Tx /\ zero.call = c.call /\ zero.locks = c.locks /\ zero.requests = c.requests
      /\ zero.targets = c.targets /\ zero.approvals = c.approvals /\ zero.log = c.log
      /\ zero.step = next
  BY <1>3, <1>5, TurnFields DEF Statements
<1>2. /\ tx' = [tx EXCEPT ![p] = t] /\ requests' = requests /\ approvals' = approvals
      /\ events' = events
  <2>1. /\ tx' = [tx EXCEPT ![p] = [zero EXCEPT !.approvals = Over(rows, @),
                                               !.log = @ \cup log, !.targets = Tail(@)]]
        /\ UNCHANGED <<requests, approvals, events>>
    BY DEF WithdrawApproval, Rows
  <2> HIDE DEF zero, rows, log
  <2>2. [zero EXCEPT !.approvals = Over(rows, @), !.log = @ \cup log, !.targets = Tail(@)] = t
    BY <1>9 DEF Tx
  <2> QED BY <2>1, <2>2
<1>4. active \in SUBSET RowId /\ rows \in Table(ApprovalRow)
  BY <1>1, DismissedType
<1> HIDE DEF active, rows, left, next, zero
<1>6. written \in Table(ApprovalRow)
  BY <1>3, <1>4, OverType DEF Tx
<1>7. log \in SUBSET EventSet /\ \A id \in RowId : Answers(id, log) = {} /\ Cancels(id, log) = {}
  BY <1>4, LoggedEvents DEF EventKind, Answers, Cancels
<1> HIDE DEF written, log
<1>8. moreLog \in SUBSET EventSet /\ moreLog = tx[p].log \cup log
  BY <1>3, <1>7 DEF Tx
<1> HIDE DEF moreLog
<1>10. one \in Tx /\ one.call = c.call /\ one.locks = c.locks /\ one.requests = c.requests
       /\ one.step = next
  BY <1>6, <1>9 DEF Tx
<1> HIDE DEF one
<1>11. two \in Tx /\ two.call = c.call /\ two.locks = c.locks /\ two.requests = c.requests
       /\ two.log = moreLog /\ two.step = next
  BY <1>8, <1>10 DEF Tx
<1> HIDE DEF two
<1>12. t \in Tx /\ t.call = c.call /\ t.locks = c.locks
       /\ t.requests = c.requests /\ t.log = moreLog /\ t.targets = left /\ t.step = next
  BY <1>3, <1>11 DEF Tx
<1> HIDE DEF t
<1> QED BY <1>1, <1>2, <1>5, <1>7, <1>8, <1>12, NextTargetFits

(* A statement that picks its rows has changed nothing yet. *)
LEMMA PickRowsStep ==
    ASSUME IInv, NEW p \in Process, PickRows(p)
    PROVE  IInv'
<1> DEFINE c == tx[p]
           none == c.step = "revive" /\ ActiveRows(SeenApprovals(p), Who(p)) # {}
           rows == IF none THEN {} ELSE Matching(p)
           one == [c EXCEPT !.began = TRUE]
           t == [one EXCEPT !.picked = rows]
<1>1. /\ tx' = [tx EXCEPT ![p] = t] /\ requests' = requests /\ approvals' = approvals
      /\ events' = events
  BY DEF PickRows
<1>2. c \in Tx /\ CallOK(p, c) /\ c.step \in Picking
  BY DEF IInv, TypesOK, PickRows
<1>3. rows \in SUBSET RowId
  BY <1>2, QualifyingRows
<1> HIDE DEF rows
<1>4. one \in Tx /\ one.call = c.call /\ one.step = c.step /\ one.targets = c.targets
      /\ one.found = c.found /\ one.locks = c.locks /\ one.requests = c.requests
      /\ one.log = c.log
  BY <1>2 DEF Tx
<1> HIDE DEF one
<1>5. t \in Tx /\ t.call = c.call /\ t.step = c.step /\ t.targets = c.targets
      /\ t.found = c.found /\ t.locks = c.locks /\ t.requests = c.requests
      /\ t.log = c.log
  BY <1>3, <1>4 DEF Tx
<1> HIDE DEF t
<1>6. CallOK(p, t)
  <2>1. c.step \notin Ended
    BY <1>2 DEF Picking, Ended
  <2>2. StepFits(p, t)
    BY <1>2, <1>5, <2>1 DEF CallOK, StepFits
  <2>3. LocksFit(p, t) /\ FoundOpen(p, t) /\ KeepsClosed(t) /\ LogFits(p, t)
    BY <1>2, <1>5 DEF CallOK, LocksFit, FoundOpen, KeepsClosed, LogFits
  <2> QED BY <2>2, <2>3 DEF CallOK
<1>7. \A q \in Process \ {p} : t.locks \cap tx[q].locks = {}
  BY <1>5 DEF IInv, Exclusive
<1> QED BY <1>1, <1>5, <1>6, <1>7, StatementStep

(* A call begins with nothing found, locked or written. *)
LEMMA BeginStep ==
    ASSUME IInv, NEW p \in Process, NEW call \in Call, Begin(p, call)
    PROVE  IInv'
<1> DEFINE step == FirstStep(call)
           targets == IF call.op = "request" THEN call.targets ELSE <<>>
           blank == Blank(call, step)
           t == [blank EXCEPT !.targets = targets]
<1>1. /\ tx' = [tx EXCEPT ![p] = t] /\ requests' = requests /\ approvals' = approvals
      /\ events' = events /\ tx[p].step = "idle"
      /\ call.op = "cancel" => call.row \in DOMAIN requests
  BY DEF Begin
<1>2. /\ step \in Statements /\ step \notin Ended /\ step # "open"
      /\ step \in Recording => call.op = "record"
      /\ step = "dismiss" => call.op = "dismiss"
      /\ step \in Asking => call.op = "request"
      /\ step = "cancel" => call.op = "cancel"
  BY CallFacts DEF FirstStep, Statements, Ended, Recording, Asking
<1>3. targets \in Seq(Reviewer) /\ (call.op = "request" => targets # <<>>)
  <2>1. CASE call.op = "request"
    BY <2>1, CallFacts
  <2>2. CASE call.op # "request"
    BY <2>2
  <2> QED BY <2>1, <2>2
<1> HIDE DEF step, targets
<1>4. blank \in Tx /\ blank.call = call /\ blank.step = step /\ blank.found = {}
      /\ blank.locks = {} /\ blank.requests = NoRows /\ blank.log = {}
  <2>1. <<>> \in Seq(Reviewer)
    OBVIOUS
  <2> QED BY <1>2, <2>1, NothingWritten DEF Tx, Blank
<1> HIDE DEF blank
<1>5. t \in Tx /\ t.call = call /\ t.step = step /\ t.found = {} /\ t.targets = targets
      /\ t.locks = {} /\ t.requests = NoRows /\ t.log = {}
  BY <1>3, <1>4 DEF Tx
<1> HIDE DEF t
<1>6. StepFits(p, t)
  BY <1>1, <1>2, <1>3, <1>5 DEF StepFits
<1>7. LocksFit(p, t)
  <2>1. Own(p) \cap DOMAIN requests = {}
    BY <1>1 DEF IInv, CallOK, LocksFit
  <2> QED BY <1>5, <2>1, NothingWritten DEF LocksFit
<1>8. FoundOpen(p, t) /\ KeepsClosed(t)
  BY <1>5, NothingWritten DEF FoundOpen, KeepsClosed
<1>9. LogFits(p, t)
  <2>1. Over(t.requests, requests) = requests
    BY <1>5, NothingWritten DEF IInv, TypesOK
  <2>2. events \cup t.log = events
    BY <1>5
  <2> QED BY <1>5, <2>1, <2>2 DEF LogFits, IInv, Answers, Cancels, About
<1> QED BY <1>1, <1>5, <1>6, <1>7, <1>8, <1>9, StatementStep DEF CallOK

(* What a call commits is its own: others' rows stay as they saw them, and  *)
(* what they write still agrees with the timeline.                          *)
LEMMA CommitStep ==
    ASSUME IInv, NEW p \in Process, Commit(p)
    PROVE  IInv'
<1> DEFINE c == tx[p]
<1> PICK t : t = Blank(c.call, "done")
  OBVIOUS
<1>1. /\ requests' = SeenRequests(p) /\ approvals' = SeenApprovals(p)
      /\ events' = events \cup c.log /\ tx' = [tx EXCEPT ![p] = t]
  BY DEF Commit
<1>2. c \in Tx /\ CallOK(p, c)
  BY DEF IInv, TypesOK
<1>3. /\ t.call = c.call /\ t.step = "done" /\ t.targets = <<>> /\ t.found = {}
      /\ t.locks = {} /\ t.requests = NoRows /\ t.approvals = NoRows /\ t.log = {}
  BY DEF Blank
<1>4. t \in Tx /\ t = Blank(t.call, t.step)
  <2>1. <<>> \in Seq(Reviewer) /\ "done" \in Ended
    BY DEF Ended
  <2> QED BY <1>2, <1>3, <2>1, NothingWritten DEF Tx, Blank
<1>5. Over(c.requests, requests) = SeenRequests(p)
  BY DEF SeenRequests
<1>6. tx'[p] = t /\ \A q \in Process \ {p} : tx'[q] = tx[q]
  BY <1>1 DEF IInv, TypesOK
<1>7. TypesOK'
  <2>1. tx' \in [Process -> Tx]
    BY <1>1, <1>4 DEF IInv, TypesOK
  <2>2. requests' \in Table(RequestRow) /\ approvals' \in Table(ApprovalRow)
    BY <1>1, SeenRows
  <2>3. events' \subseteq EventSet
    BY <1>1, <1>2 DEF IInv, TypesOK, Tx
  <2> QED BY <2>1, <2>2, <2>3 DEF TypesOK
<1>8. Exclusive'
  BY <1>3, <1>6 DEF IInv, Exclusive
<1>9. AgreedIn(requests', events')
  BY <1>1, <1>2, <1>5 DEF CallOK, LogFits
<1>10. /\ DOMAIN requests' = DOMAIN c.requests \cup DOMAIN requests
       /\ \A id \in DOMAIN requests \ DOMAIN c.requests : requests'[id] = requests[id]
  BY <1>1, SeenRows
<1>11. CallOK(p, t)'
  <2>1. StepFits(p, t)' /\ LocksFit(p, t)' /\ FoundOpen(p, t)' /\ KeepsClosed(t)'
    BY <1>3, <1>4, NothingWritten
       DEF StepFits, LocksFit, FoundOpen, KeepsClosed, Ended, Recording, Asking
  <2>2. Over(t.requests, requests') = requests' /\ events' \cup t.log = events'
    BY <1>3, <1>7, NothingWritten DEF TypesOK
  <2>3. LogFits(p, t)'
    <3>1. AgreedIn(Over(t.requests, requests'), events' \cup t.log)
      BY <1>9, <2>2
    <3>2. \A id : Answers(id, t.log) = {} /\ Cancels(id, t.log) = {}
      BY <1>3 DEF Answers, Cancels, About
    <3> QED BY <3>1, <3>2 DEF LogFits
  <2> QED BY <2>1, <2>3 DEF CallOK
<1>12. ASSUME NEW q \in Process \ {p}
       PROVE  CallOK(q, tx[q])'
  <2> PICK d : d = tx[q]
    OBVIOUS
  <2>1. CallOK(q, d) /\ d \in Tx
    BY DEF IInv, TypesOK
  <2>2. c.locks \cap d.locks = {} /\ Own(p) \cap Own(q) = {}
    BY DEF IInv, Exclusive, Own
  <2>3. DOMAIN c.requests \subseteq c.locks /\ c.locks \subseteq DOMAIN requests \cup Own(p)
        /\ DOMAIN d.requests \subseteq d.locks
    BY <1>2, <2>1 DEF CallOK, LocksFit
  <2>4. \A id \in d.locks : /\ id \notin DOMAIN c.requests
                            /\ id \in DOMAIN requests' <=> id \in DOMAIN requests
                            /\ id \in DOMAIN requests => requests'[id] = requests[id]
    BY <1>10, <2>2, <2>3
  <2>5. tx'[q] = d
    BY <1>6
  <2> HIDE DEF c
  <2>6. StepFits(q, d)'
    BY <1>10, <2>1 DEF CallOK, StepFits
  <2>7. LocksFit(q, d)'
    BY <1>10, <2>1, <2>2, <2>3 DEF CallOK, LocksFit
  <2>8. FoundOpen(q, d)'
    BY <2>1, <2>4 DEF CallOK, FoundOpen
  <2>9. KeepsClosed(d)'
    BY <2>1, <2>3, <2>4 DEF CallOK, KeepsClosed
  <2>10. LogFits(q, d)'
    <3> DEFINE now == Over(d.requests, requests')
               was == Over(d.requests, requests)
               nowLog == events \cup c.log \cup d.log
    <3>1. /\ DOMAIN now = DOMAIN d.requests \cup DOMAIN requests'
          /\ \A id \in DOMAIN d.requests : now[id] = d.requests[id]
          /\ \A id \in DOMAIN requests' \ DOMAIN d.requests : now[id] = requests'[id]
      BY DEF Over
    <3>2. /\ DOMAIN was = DOMAIN d.requests \cup DOMAIN requests
          /\ \A id \in DOMAIN d.requests : was[id] = d.requests[id]
      BY DEF Over
    <3>3. AgreedIn(was, events \cup d.log) /\ AgreedIn(requests', events \cup c.log)
      BY <1>1, <1>2, <1>5, <2>1 DEF CallOK, LogFits
    <3>4. \A id \in RowId \ DOMAIN c.requests : Answers(id, c.log) = {} /\ Cancels(id, c.log) = {}
      BY <1>2 DEF CallOK, LogFits
    <3>5. \A id \in RowId \ DOMAIN d.requests : Answers(id, d.log) = {} /\ Cancels(id, d.log) = {}
      BY <2>1 DEF CallOK, LogFits
    <3>6. \A id, one, two :
             /\ Answers(id, one \cup two) = Answers(id, one) \cup Answers(id, two)
             /\ Cancels(id, one \cup two) = Cancels(id, one) \cup Cancels(id, two)
      BY LongerLog DEF Answers, Cancels
    <3>7. nowLog = (events \cup c.log) \cup d.log /\ nowLog = (events \cup d.log) \cup c.log
      OBVIOUS
    <3> HIDE DEF now, was, nowLog
    <3>8. ASSUME NEW id \in RowId
          PROVE  IF id \in DOMAIN now
                 THEN Agreed(now[id], Answers(id, nowLog), Cancels(id, nowLog))
                 ELSE Answers(id, nowLog) = {} /\ Cancels(id, nowLog) = {}
      <4>1. CASE id \in DOMAIN d.requests
        <5>1. id \notin DOMAIN c.requests
          BY <2>3, <2>4, <4>1
        <5>2. Answers(id, nowLog) = Answers(id, events \cup d.log)
              /\ Cancels(id, nowLog) = Cancels(id, events \cup d.log)
          <6>1. Answers(id, nowLog) = Answers(id, events \cup d.log) \cup Answers(id, c.log)
                /\ Cancels(id, nowLog) = Cancels(id, events \cup d.log) \cup Cancels(id, c.log)
            BY <3>6, <3>7
          <6> QED BY <3>4, <5>1, <6>1
        <5> QED BY <3>1, <3>2, <3>3, <4>1, <5>2 DEF AgreedIn
      <4>2. CASE id \notin DOMAIN d.requests
        <5>1. Answers(id, nowLog) = Answers(id, events \cup c.log)
              /\ Cancels(id, nowLog) = Cancels(id, events \cup c.log)
          <6>1. Answers(id, nowLog) = Answers(id, events \cup c.log) \cup Answers(id, d.log)
                /\ Cancels(id, nowLog) = Cancels(id, events \cup c.log) \cup Cancels(id, d.log)
            BY <3>6, <3>7
          <6> QED BY <3>5, <4>2, <6>1
        <5> QED BY <3>1, <3>3, <4>2, <5>1 DEF AgreedIn
      <4> QED BY <4>1, <4>2
    <3>9. AgreedIn(now, nowLog)
      BY <3>8 DEF AgreedIn
    <3>10. events' \cup d.log = nowLog
      BY <1>1 DEF nowLog
    <3> QED BY <3>5, <3>9, <3>10, <2>5 DEF LogFits, now
  <2> QED BY <2>5, <2>6, <2>7, <2>8, <2>9, <2>10 DEF CallOK
<1> QED BY <1>6, <1>7, <1>8, <1>9, <1>11, <1>12 DEF IInv

(***************************************************************************)
(* The invariant holds, and what follows from it                           *)
(***************************************************************************)
LEMMA InitInv ==
    ASSUME Init
    PROVE  IInv
<1>1. requests \in Table(RequestRow) /\ \A id \in DOMAIN requests : requests[id].status = "open"
  <2>1. PICK ids \in SUBSET PastRow :
            requests \in [ids -> [requirement : {"optional"}, status : {"open"}]]
    BY DEF Init
  <2>2. ids \subseteq RowId
    BY DEF RowId
  <2>3. requests = [id \in DOMAIN requests |-> requests[id]] /\ DOMAIN requests = ids
    BY <2>1
  <2>4. ASSUME NEW id \in DOMAIN requests
        PROVE  requests[id] \in RequestRow /\ requests[id].status = "open"
    <3>1. requests[id] \in [requirement : {"optional"}, status : {"open"}]
      BY <2>1, <2>3
    <3> QED BY <3>1 DEF RequestRow, Requirement
  <2>5. requests \in Table(RequestRow)
    BY <2>2, <2>3, <2>4, TableType
  <2> QED BY <2>4, <2>5
<1>2. approvals \in Table(ApprovalRow)
  <2>1. PICK ids \in SUBSET PastRow : approvals \in [ids -> ApprovalRow]
    BY DEF Init
  <2>2. ids \in SUBSET RowId
    BY <2>1 DEF RowId
  <2>3. approvals = [id \in DOMAIN approvals |-> approvals[id]] /\ DOMAIN approvals = ids
    BY <2>1
  <2>4. \A id \in DOMAIN approvals : approvals[id] \in ApprovalRow
    BY <2>1, <2>3
  <2> QED BY <2>2, <2>3, <2>4, TableType
<1>3. DOMAIN requests \subseteq PastRow
  BY DEF Init
<1>4. events = {} /\ tx = [p \in Process |-> Blank(NoCall, "idle")]
  BY DEF Init
<1>5. AgreedIn(requests, events)
  BY <1>1, <1>4 DEF AgreedIn, Agreed, Answers, Cancels, About
<1> PICK t : t = Blank(NoCall, "idle")
  OBVIOUS
<1>6. /\ t.call = NoCall /\ t.step = "idle" /\ t.targets = <<>> /\ t.found = {}
      /\ t.locks = {} /\ t.requests = NoRows /\ t.approvals = NoRows /\ t.log = {}
  BY DEF Blank
<1>7. t \in Tx /\ t = Blank(t.call, t.step)
  <2>1. <<>> \in Seq(Reviewer) /\ "idle" \in Ended
    BY DEF Ended
  <2> QED BY <1>6, <2>1, NothingWritten DEF Tx, Blank
<1>8. \A p \in Process : tx[p] = t
  BY <1>4
<1>9. TypesOK /\ Exclusive
  <2>1. tx \in [Process -> Tx]
    BY <1>4, <1>7
  <2> QED BY <1>1, <1>2, <1>4, <1>6, <1>8, <2>1 DEF TypesOK, Exclusive
<1>10. ASSUME NEW p \in Process PROVE CallOK(p, t)
  <2>1. Own(p) \cap DOMAIN requests = {}
    BY <1>3, PastAssumption DEF Own
  <2>2. StepFits(p, t) /\ LocksFit(p, t) /\ FoundOpen(p, t) /\ KeepsClosed(t)
    BY <1>6, <1>7, <2>1, NothingWritten
       DEF StepFits, LocksFit, FoundOpen, KeepsClosed, Ended, Recording, Asking
  <2>3. Over(t.requests, requests) = requests /\ events \cup t.log = events
    BY <1>1, <1>6, NothingWritten
  <2>4. LogFits(p, t)
    BY <1>5, <1>6, <2>3 DEF LogFits, Answers, Cancels, About
  <2> QED BY <2>2, <2>4 DEF CallOK
<1> QED BY <1>5, <1>8, <1>9, <1>10 DEF IInv

LEMMA StutterStep ==
    ASSUME IInv, UNCHANGED vars
    PROVE  IInv'
<1>1. requests' = requests /\ approvals' = approvals /\ events' = events /\ tx' = tx
  BY DEF vars
<1>2. TypesOK' /\ Exclusive'
  BY <1>1 DEF IInv, TypesOK, Exclusive
<1>3. AgreedIn(requests, events)'
  BY <1>1 DEF IInv, AgreedIn, Agreed, Answers, Cancels, About
<1>4. ASSUME NEW p \in Process PROVE CallOK(p, tx[p])'
  BY <1>1, CallTurns DEF IInv
<1> QED BY <1>2, <1>3, <1>4 DEF IInv

LEMMA NextStep ==
    ASSUME IInv, [Next]_vars
    PROVE  IInv'
<1>1. ASSUME NEW p \in Process, NEW call \in Call, Begin(p, call) PROVE IInv'
  BY <1>1, BeginStep
<1>2. ASSUME NEW p \in Process, Statement(p) PROVE IInv'
  <2>1. CASE InsertApproval(p)
    BY <2>1, InsertApprovalStep
  <2>2. CASE ReviveApproval(p)
    BY <2>2, ReviveApprovalStep
  <2>3. CASE SatisfyRequests(p)
    BY <2>3, SatisfyRequestsStep
  <2>4. CASE FindOpenRequest(p)
    BY <2>4, FindOpenRequestStep
  <2>5. CASE UpgradeRequest(p)
    BY <2>5, UpgradeRequestStep
  <2>6. CASE InsertRequest(p)
    BY <2>6, InsertRequestStep
  <2>7. CASE WithdrawApproval(p)
    BY <2>7, WithdrawApprovalStep
  <2>8. CASE CancelRequest(p)
    BY <2>8, CancelRequestStep
  <2>9. CASE DismissApproval(p)
    BY <2>9, DismissApprovalStep
  <2>10. CASE Commit(p)
    BY <2>10, CommitStep
  <2>11. CASE DeadlockVictim(p)
    BY <2>11, FailStep DEF DeadlockVictim
  <2>12. CASE PickRows(p)
    BY <2>12, PickRowsStep
  <2> QED BY <1>2, <2>1, <2>2, <2>3, <2>4, <2>5, <2>6, <2>7, <2>8, <2>9, <2>10, <2>11, <2>12
          DEF Statement
<1>3. CASE UNCHANGED vars
  BY <1>3, StutterStep
<1> QED BY <1>1, <1>2, <1>3 DEF Next

(* The invariant: request rows are written under their locks, to values the *)
(* call's own events agree with (server/src/services/review.ts).            *)
THEOREM Inductive == Spec => []IInv
BY InitInv, NextStep, PTL DEF Spec

(* The tables keep their types, and a call that has ended holds nothing.    *)
THEOREM TypeCorrect == Spec => []TypeOK
<1>1. ASSUME IInv PROVE TypeOK
  <2>1. /\ DOMAIN requests \subseteq RowId /\ \A id \in DOMAIN requests : requests[id] \in RequestRow
        /\ DOMAIN approvals \subseteq RowId
        /\ \A id \in DOMAIN approvals : approvals[id] \in ApprovalRow
        /\ events \subseteq EventKind \X RowId \X Process
    BY <1>1, TableType DEF IInv, TypesOK, EventSet
  <2>2. ASSUME NEW p \in Process \ InFlight PROVE tx[p] = Blank(tx[p].call, tx[p].step)
    BY <1>1, <2>2 DEF IInv, CallOK, StepFits, InFlight
  <2> QED BY <2>1, <2>2 DEF TypeOK
<1> QED BY <1>1, Inductive, PTL

(* The timeline of a request and its row agree, whatever calls decided      *)
(* about it at once: recordApproval's `where status = 'open'` and the row   *)
(* locks leave it one answer, and none after a cancel.                      *)
THEOREM TimelineAlwaysAgrees == Spec => []TimelineAgrees
<1>1. ASSUME IInv PROVE TimelineAgrees
  <2>1. ASSUME NEW id \in DOMAIN requests
        PROVE  Agrees(requests[id], About(id, "request-satisfied", events),
                                    About(id, "request-cancelled", events))
    <3>1. id \in RowId /\ requests[id] \in RequestRow
      BY <1>1, TableType DEF IInv, TypesOK
    <3>2. Agreed(requests[id], Answers(id, events), Cancels(id, events))
      BY <1>1, <3>1 DEF IInv, AgreedIn
    <3>3. Cardinality({}) = 0 /\ \A e : Cardinality({e}) = 1
      BY FS_EmptySet, FS_Singleton
    <3>4. CASE requests[id].status = "open"
      BY <3>2, <3>4 DEF Agreed, Agrees, Answers, Cancels
    <3>5. CASE requests[id].status = "satisfied"
      BY <3>2, <3>3, <3>5 DEF Agreed, Agrees, Answers, Cancels
    <3>6. CASE requests[id].status = "cancelled"
      <4>1. Cardinality(Answers(id, events)) <= 1 /\ Cancels(id, events) # {}
        <5>1. (Answers(id, events) = {} \/ \E e : Answers(id, events) = {e})
              /\ Cancels(id, events) # {}
          BY <3>2, <3>6 DEF Agreed
        <5>2. CASE Answers(id, events) = {}
          BY <3>3, <5>1, <5>2
        <5>3. CASE \E e : Answers(id, events) = {e}
          <6>1. Cardinality(Answers(id, events)) = 1
            BY <3>3, <5>3
          <6> QED BY <5>1, <6>1
        <5> QED BY <5>1, <5>2, <5>3
      <4> QED BY <3>6, <4>1 DEF Agrees, Answers, Cancels
    <3> QED BY <3>1, <3>4, <3>5, <3>6 DEF RequestRow
  <2> QED BY <2>1 DEF TimelineAgrees
<1> QED BY <1>1, Inductive, PTL

(* A closed request neither reopens nor becomes a required one: an upgrade  *)
(* was decided under the row's lock, so no close comes between.             *)
THEOREM ClosedStayClosed == Spec => ClosedRequestsKeepTheirTerms
<1> DEFINE Kept == \A id \in DOMAIN requests : requests[id].status # "open" =>
                      /\ requests'[id].status # "open"
                      /\ requests'[id].requirement = requests[id].requirement
<1>1. ASSUME IInv, [Next]_vars PROVE Kept \/ UNCHANGED vars
  <2>1. ASSUME requests' = requests PROVE Kept
    BY <2>1
  <2>2. ASSUME NEW p \in Process, Commit(p) PROVE Kept
    <3>1. requests' = SeenRequests(p) /\ KeepsClosed(tx[p])
      BY <1>1, <2>2 DEF Commit, IInv, CallOK
    <3>2. /\ \A id \in DOMAIN tx[p].requests : SeenRequests(p)[id] = tx[p].requests[id]
          /\ \A id \in DOMAIN requests \ DOMAIN tx[p].requests : SeenRequests(p)[id] = requests[id]
      BY <1>1, SeenRows
    <3> QED BY <3>1, <3>2 DEF KeepsClosed
  <2>3. ASSUME NEW p \in Process, Statement(p), ~Commit(p) PROVE requests' = requests
    BY <2>3 DEF Statement, PickRows, InsertApproval, ReviveApproval, SatisfyRequests,
                FindOpenRequest,
        UpgradeRequest, InsertRequest, WithdrawApproval, CancelRequest, DismissApproval,
        DeadlockVictim, Fail
  <2>4. ASSUME NEW p \in Process, NEW call \in Call, Begin(p, call) PROVE requests' = requests
    BY <2>4 DEF Begin
  <2> QED BY <1>1, <2>1, <2>2, <2>3, <2>4 DEF Next
<1> QED BY <1>1, Inductive, PTL DEF Spec, ClosedRequestsKeepTheirTerms

(***************************************************************************)
(* Who was in flight with whom                                             *)
(***************************************************************************)

(* A call that met p has committed. *)
Overtaken(p) ==
    \E q \in Process \ {p} : {p, q} \in met /\ tx[q].step = "done"

(* Calls that are in flight together have met. *)
AllMet ==
    \A p \in Process : \A q \in Process \ {p} :
        tx[p].step \notin Ended /\ tx[q].step \notin Ended => {p, q} \in met

(* Only a recorded approval makes one active, and only an asking opens a    *)
(* request.                                                                 *)
WritesOwn(p, t) ==
    /\ \A a \in DOMAIN t.approvals : t.approvals[a].active =>
          t.call.op = "record" /\ t.approvals[a].by = p /\ a[2] = t.call.who
    /\ \A r \in DOMAIN t.requests : t.requests[r].status = "open" => t.call.op = "request"

(* Requests open now that a recorded approval has not answered, and is not  *)
(* about to, are those of calls it met.                                     *)
AnswersAll(p, t) ==
    t.call.op = "record" =>
        /\ t.step = "commit" =>
              \A r \in OpenRows(requests, t.call.who) \ DOMAIN t.requests : {r[1], p} \in met
        /\ t.step = "satisfy" /\ t.began =>
              \A r \in OpenRows(requests, t.call.who) \ (DOMAIN t.requests \cup t.picked) :
                 {r[1], p} \in met

(* Approvals active now that a batch has not withdrawn, of reviewers it has *)
(* asked anew and is done with, are those of calls it met.                  *)
WithdrawsAll(p, t) ==
    t.call.op = "request" =>
        \A r \in DOMAIN t.requests \cap Own(p) :
            \/ /\ t.step = "withdraw" /\ r[2] = Head(t.targets)
               /\ t.began =>
                     \A a \in ActiveRows(approvals, r[2]) \ (DOMAIN t.approvals \cup t.picked) :
                        {p, approvals[a].by} \in met
            \/ \A a \in ActiveRows(approvals, r[2]) \ DOMAIN t.approvals :
                  {p, approvals[a].by} \in met

(* What a call found is still so, unless another has committed since. *)
StillSo(p, t) ==
    /\ t.step = "duplicate" => Overtaken(p)
    /\ t.step = "revive" =>
          IF t.began THEN Overtaken(p) \/ t.picked = {}
          ELSE Overtaken(p) \/ ActiveRows(Over(t.approvals, approvals), t.call.who) # {}
    /\ t.step = "find" /\ t.began =>
          Overtaken(p) \/ OpenRows(requests, Head(t.targets)) \subseteq t.picked
    /\ t.step = "open" /\ t.found = {} =>
          Overtaken(p) \/ OpenRows(requests, Head(t.targets)) = {}

PastOK(p, t) ==
    /\ WritesOwn(p, t)
    /\ AnswersAll(p, t)
    /\ WithdrawsAll(p, t)
    /\ StillSo(p, t)

HInv ==
    /\ AllMet
    /\ SkewOnlyFromOverlap
    /\ \A p \in Process : PastOK(p, tx[p])

(* A step of one call that changes no table, meets everybody in flight, and *)
(* leaves the call as it should be, leaves the others as they were.         *)
LEMMA OvertakenStays ==
    ASSUME NEW p \in Process, tx[p].step # "done",
           \A q \in Process \ {p} : tx'[q] = tx[q], met \subseteq met',
           NEW q \in Process, Overtaken(q)
    PROVE  Overtaken(q)'
<1>1. PICK w \in Process \ {q} : {q, w} \in met /\ tx[w].step = "done"
  BY DEF Overtaken
<1>2. tx'[w].step = "done" /\ {q, w} \in met'
  BY <1>1
<1> QED BY <1>2 DEF Overtaken

LEMMA TurnHistory ==
    ASSUME HInv, NEW p \in Process, tx[p].step # "done", NEW t,
           tx'[p] = t, \A q \in Process \ {p} : tx'[q] = tx[q],
           requests' = requests, approvals' = approvals, met \subseteq met',
           t.step \notin Ended =>
              \A q \in Process \ {p} : tx[q].step \notin Ended => {p, q} \in met',
           PastOK(p, t)
    PROVE  HInv'
<1>1. ASSUME NEW q \in Process, NEW d, tx'[q] = d, PastOK(q, d)
      PROVE  PastOK(q, tx[q])'
  <2>1. Overtaken(q) => Overtaken(q)'
    BY OvertakenStays
  <2>2. WritesOwn(q, tx[q])' /\ AnswersAll(q, tx[q])' /\ WithdrawsAll(q, tx[q])'
    BY <1>1 DEF PastOK, WritesOwn, AnswersAll, WithdrawsAll, OpenRows, ActiveRows
  <2>3. StillSo(q, tx[q])'
    BY <1>1, <2>1 DEF PastOK, StillSo, OpenRows, ActiveRows, Over
  <2> QED BY <2>2, <2>3 DEF PastOK
<1>2. ASSUME NEW q \in Process PROVE PastOK(q, tx[q])'
  <2>1. CASE q = p
    BY <1>1, <2>1
  <2>2. CASE q # p
    BY <1>1, <2>2 DEF HInv
  <2> QED BY <2>1, <2>2
<1>3. SkewOnlyFromOverlap'
  BY DEF HInv, SkewOnlyFromOverlap, OpenRows, ActiveRows
<1>4. AllMet'
  <2>1. ASSUME NEW q \in Process, NEW r \in Process \ {q},
               tx'[q].step \notin Ended, tx'[r].step \notin Ended
        PROVE  {q, r} \in met'
    <3>1. CASE q = p
      BY <2>1, <3>1
    <3>2. CASE r = p
      <4>1. {p, q} \in met' /\ {p, q} = {q, r}
        BY <2>1, <3>2
      <4> QED BY <4>1
    <3>3. CASE q # p /\ r # p
      BY <2>1, <3>3 DEF HInv, AllMet
    <3> QED BY <3>1, <3>2, <3>3
  <2> QED BY <2>1 DEF AllMet
<1> QED BY <1>2, <1>3, <1>4 DEF HInv

(* A statement of a call that runs meets nobody new. *)
LEMMA StatementHistory ==
    ASSUME IInv, HInv, NEW p \in Process, tx[p].step \notin Ended, NEW t,
           tx' = [tx EXCEPT ![p] = t], PastOK(p, t),
           UNCHANGED <<requests, approvals, events, met>>
    PROVE  HInv'
<1>1. tx'[p] = t /\ \A q \in Process \ {p} : tx'[q] = tx[q]
  BY DEF IInv, TypesOK
<1>2. \A q \in Process \ {p} : tx[q].step \notin Ended => {p, q} \in met'
  BY DEF HInv, AllMet
<1>3. tx[p].step # "done"
  BY DEF Ended
<1>4. requests' = requests /\ approvals' = approvals /\ met \subseteq met'
  OBVIOUS
<1> QED BY <1>1, <1>2, <1>3, <1>4, TurnHistory

LEMMA WriteHistory ==
    ASSUME IInv, HInv, NEW p \in Process, tx[p].step \in Statements,
           NEW newRequests \in Table(RequestRow), NEW newApprovals \in Table(ApprovalRow),
           NEW log \in SUBSET EventSet, NEW step \in Statements \cup {"commit"},
           Write(p, newRequests, newApprovals, log, step),
           UNCHANGED <<requests, approvals, events, met>>,
           \A t : (/\ t.call = tx[p].call /\ t.step = step /\ t.targets = tx[p].targets
                   /\ t.began = FALSE /\ t.found = tx[p].found
                   /\ t.requests = Over(newRequests, tx[p].requests)
                   /\ t.approvals = Over(newApprovals, tx[p].approvals))
                  => PastOK(p, t)
    PROVE  HInv'
<1>1. PICK t \in Tx : /\ tx' = [tx EXCEPT ![p] = t]
                      /\ t.call = tx[p].call /\ t.step = step /\ t.targets = tx[p].targets
                      /\ t.began = FALSE /\ t.found = tx[p].found
                      /\ t.requests = Over(newRequests, tx[p].requests)
                      /\ t.approvals = Over(newApprovals, tx[p].approvals)
  <2> DEFINE t == [ call |-> tx[p].call, step |-> step, began |-> FALSE, picked |-> {},
                    targets |-> tx[p].targets, found |-> tx[p].found, locks |-> tx[p].locks \cup DOMAIN newRequests,
                    requests |-> Over(newRequests, tx[p].requests),
                    approvals |-> Over(newApprovals, tx[p].approvals),
                    log |-> tx[p].log \cup log ]
  <2>1. t \in Tx /\ tx' = [tx EXCEPT ![p] = t]
    BY WriteFields
  <2>2. /\ t.call = tx[p].call /\ t.step = step /\ t.targets = tx[p].targets
        /\ t.began = FALSE /\ t.found = tx[p].found /\ t.requests = Over(newRequests, tx[p].requests)
        /\ t.approvals = Over(newApprovals, tx[p].approvals)
    OBVIOUS
  <2> HIDE DEF t
  <2> QED BY <2>1, <2>2
<1>2. tx[p].step \notin Ended
  BY DEF Statements, Ended
<1>3. PastOK(p, t)
  BY <1>1
<1> QED BY <1>1, <1>2, <1>3, StatementHistory

LEMMA FailHistory ==
    ASSUME IInv, HInv, NEW p \in Process, tx[p].step \notin Ended,
           NEW reason \in {"duplicate", "deadlock"}, Fail(p, reason),
           reason = "duplicate" => Overtaken(p)
    PROVE  HInv'
<1> PICK t : t = Blank(tx[p].call, reason)
  OBVIOUS
<1>1. tx' = [tx EXCEPT ![p] = t] /\ UNCHANGED <<requests, approvals, events, met>>
  BY DEF Fail
<1>2. t.step = reason /\ t.requests = NoRows /\ t.approvals = NoRows
  BY DEF Blank
<1>3. PastOK(p, t)
  BY <1>2, NothingWritten DEF PastOK, WritesOwn, AnswersAll, WithdrawsAll, StillSo
<1> QED BY <1>1, <1>3, StatementHistory

(* What a call is about, in terms of the call. *)
LEMMA WhoIs ==
    ASSUME IInv, NEW p \in Process
    PROVE  /\ tx[p].step \in Asking =>
                 tx[p].call.op = "request" /\ Who(p) = Head(tx[p].targets)
           /\ tx[p].step \in Recording => tx[p].call.op = "record" /\ Who(p) = tx[p].call.who
           /\ tx[p].step = "dismiss" => tx[p].call.op = "dismiss"
           /\ tx[p].step = "cancel" => tx[p].call.op = "cancel"
BY DEF IInv, CallOK, StepFits, Who, Asking, Recording

LEMMA InsertApprovalHistory ==
    ASSUME IInv, HInv, NEW p \in Process, InsertApproval(p)
    PROVE  HInv'
<1> DEFINE active == ActiveRows(SeenApprovals(p), Who(p))
           inserted == IF active = {} THEN {<<p, Who(p)>>} ELSE {}
           rows == [id \in inserted |-> [active |-> TRUE, by |-> p]]
<1>1. tx[p].step = "insert" /\ tx[p].step \in Statements /\ tx[p].step \in Recording
  BY DEF InsertApproval, At, Statements, Recording
<1>2. Write(p, NoRows, rows, {}, "revive") /\ UNCHANGED <<requests, approvals, events, met>>
  BY DEF InsertApproval, Rows
<1>3. tx[p].call.op = "record" /\ Who(p) = tx[p].call.who
  BY <1>1, WhoIs
<1>4. inserted \subseteq {<<p, Who(p)>>} /\ inserted \subseteq RowId
  BY <1>1, WhoType DEF Statements
<1>5. \A id \in inserted : rows[id].active /\ rows[id].by = p /\ id[2] = Who(p)
  BY <1>4
<1>6. rows \in Table(ApprovalRow)
  <2>1. [active |-> TRUE, by |-> p] \in ApprovalRow
    BY <1>1, WhoType DEF Statements, ApprovalRow
  <2> HIDE DEF inserted
  <2> QED BY <1>4, <2>1, TableType
<1>7. DOMAIN rows = inserted
  OBVIOUS
<1>8. active # {} \/ inserted = {<<p, Who(p)>>}
  OBVIOUS
<1>9. active # {} => inserted = {}
  OBVIOUS
<1>10. active = ActiveRows(Over(tx[p].approvals, approvals), Who(p))
  BY DEF SeenApprovals
<1> HIDE DEF active, inserted, rows
<1>11. ASSUME NEW t, t.call = tx[p].call, t.step = "revive", t.began = FALSE,
              t.requests = Over(NoRows, tx[p].requests),
              t.approvals = Over(rows, tx[p].approvals)
       PROVE  PastOK(p, t)
  <2>1. t.requests = tx[p].requests
    BY <1>11, NothingWritten DEF IInv, TypesOK, Tx
  <2>2. WritesOwn(p, t)
    <3>1. ASSUME NEW a \in DOMAIN t.approvals, t.approvals[a].active
          PROVE  t.call.op = "record" /\ t.approvals[a].by = p /\ a[2] = t.call.who
      <4>1. CASE a \in DOMAIN rows
        BY <1>3, <1>5, <1>7, <1>11, <4>1, OverValues
      <4>2. CASE a \notin DOMAIN rows
        <5>1. a \in DOMAIN tx[p].approvals /\ t.approvals[a] = tx[p].approvals[a]
          BY <1>11, <3>1, <4>2 DEF Over
        <5> QED BY <1>11, <3>1, <5>1 DEF HInv, PastOK, WritesOwn
      <4> QED BY <4>1, <4>2
    <3>2. ASSUME NEW r \in DOMAIN t.requests, t.requests[r].status = "open"
          PROVE  t.call.op = "request"
      BY <1>11, <2>1, <3>2 DEF HInv, PastOK, WritesOwn
    <3> QED BY <3>1, <3>2 DEF WritesOwn
  <2>3. StillSo(p, t)
    <3>1. ActiveRows(Over(t.approvals, approvals), t.call.who) # {}
      <4>1. CASE active # {}
        <5>2. tx[p].approvals \in Table(ApprovalRow)
          BY DEF IInv, TypesOK, Tx
        <5>1. t.approvals = tx[p].approvals
          BY <1>7, <1>9, <1>11, <4>1, <5>2, TableType DEF Over
        <5> QED BY <1>3, <1>10, <1>11, <4>1, <5>1
      <4>2. CASE inserted = {<<p, Who(p)>>}
        <5>1. /\ <<p, Who(p)>> \in DOMAIN rows
              /\ rows[<<p, Who(p)>>].active
          BY <1>5, <1>7, <4>2
        <5>2. /\ <<p, Who(p)>> \in DOMAIN t.approvals
              /\ t.approvals[<<p, Who(p)>>].active
          BY <1>11, <5>1 DEF Over
        <5>3. /\ <<p, Who(p)>> \in DOMAIN Over(t.approvals, approvals)
              /\ Over(t.approvals, approvals)[<<p, Who(p)>>].active
          BY <5>2 DEF Over
        <5> QED BY <1>3, <1>11, <5>3 DEF ActiveRows
      <4> QED BY <1>8, <4>1, <4>2
    <3> QED BY <1>11, <3>1 DEF StillSo
  <2> QED BY <1>3, <1>11, <2>2, <2>3 DEF PastOK, AnswersAll, WithdrawsAll
<1> QED BY <1>1, <1>2, <1>6, <1>11, NothingWritten, WriteHistory DEF Statements

(* The unique index refuses a revival of several rows at once, or beside an  *)
(* active one: there was an active one when the insert ran, or it made one.  *)
LEMMA ReviveApprovalHistory ==
    ASSUME IInv, HInv, NEW p \in Process, ReviveApproval(p)
    PROVE  HInv'
<1> DEFINE active == ActiveRows(SeenApprovals(p), Who(p))
           dismissed == Qualifying(p)
           fails == dismissed # {} /\ Cardinality(dismissed \cup active) > 1
           rows == [id \in dismissed |-> [active |-> TRUE, by |-> p]]
<1>1. /\ tx[p].step = "revive" /\ tx[p].step \in Statements /\ tx[p].step \in Recording
      /\ tx[p].step \notin Ended /\ tx[p].step \in Picking /\ tx[p].began
  BY DEF ReviveApproval, At, Statements, Recording, Ended, Picking
<1>2. tx[p].call.op = "record" /\ Who(p) = tx[p].call.who
  BY <1>1, WhoIs
<1>3. CASE fails
  <2>1. Fail(p, "duplicate")
    BY <1>3 DEF ReviveApproval
  <2>2. tx[p].picked # {}
    BY <1>1, <1>3, QualifyingRows
  <2>3. Overtaken(p)
    BY <1>1, <2>2 DEF HInv, PastOK, StillSo
  <2> QED BY <1>1, <2>1, <2>3, FailHistory
<1>4. CASE ~fails
  <2>1. Write(p, NoRows, rows, {}, "satisfy") /\ UNCHANGED <<requests, approvals, events, met>>
    BY <1>4 DEF ReviveApproval, Rows
  <2>2. \A id \in dismissed : id[2] = Who(p) /\ id \in RowId
    <3>1. dismissed \subseteq DOMAIN SeenApprovals(p) /\ \A id \in dismissed : id[2] = Who(p)
      BY <1>1, QualifyingRows DEF DismissedRows
    <3>2. DOMAIN SeenApprovals(p) \subseteq RowId
      BY SeenRows, TableType
    <3> QED BY <3>1, <3>2
  <2> HIDE DEF dismissed
  <2>3. rows \in Table(ApprovalRow)
    <3>1. [active |-> TRUE, by |-> p] \in ApprovalRow
      BY <1>1, WhoType DEF Statements, ApprovalRow
    <3> QED BY <2>2, <3>1, TableType
  <2>4. DOMAIN rows = dismissed /\ \A id \in dismissed : rows[id].by = p
    OBVIOUS
  <2> HIDE DEF rows
  <2>5. ASSUME NEW t, t.call = tx[p].call, t.step = "satisfy", t.began = FALSE,
               t.requests = Over(NoRows, tx[p].requests),
               t.approvals = Over(rows, tx[p].approvals)
        PROVE  PastOK(p, t)
    <3>1. t.requests = tx[p].requests
      BY <2>5, NothingWritten DEF IInv, TypesOK, Tx
    <3>2. ASSUME NEW a \in DOMAIN t.approvals, t.approvals[a].active
          PROVE  t.call.op = "record" /\ t.approvals[a].by = p /\ a[2] = t.call.who
      <4>1. CASE a \in DOMAIN rows
        BY <1>2, <2>2, <2>4, <2>5, <4>1, OverValues
      <4>2. CASE a \notin DOMAIN rows
        <5>1. a \in DOMAIN tx[p].approvals /\ t.approvals[a] = tx[p].approvals[a]
          BY <2>5, <3>2, <4>2 DEF Over
        <5> QED BY <2>5, <3>2, <5>1 DEF HInv, PastOK, WritesOwn
      <4> QED BY <4>1, <4>2
    <3>3. ASSUME NEW r \in DOMAIN t.requests, t.requests[r].status = "open"
          PROVE  t.call.op = "request"
      BY <2>5, <3>1, <3>3 DEF HInv, PastOK, WritesOwn
    <3> QED BY <1>2, <2>5, <3>2, <3>3 DEF PastOK, WritesOwn, AnswersAll, WithdrawsAll, StillSo
  <2> QED BY <1>1, <2>1, <2>3, <2>5, NothingWritten, WriteHistory DEF Statements
<1> QED BY <1>3, <1>4

LEMMA SatisfyRequestsHistory ==
    ASSUME IInv, HInv, NEW p \in Process, SatisfyRequests(p)
    PROVE  HInv'
<1> DEFINE mine == Qualifying(p)
           rows == [id \in mine |-> [SeenRequests(p)[id] EXCEPT !.status = "satisfied"]]
           log == Event(p, "request-satisfied", mine)
<1>1. /\ tx[p].step = "satisfy" /\ tx[p].step \in Statements /\ tx[p].step \in Recording
      /\ tx[p].step \in Picking /\ tx[p].began
  BY DEF SatisfyRequests, At, Statements, Recording, Picking
<1>2. Write(p, rows, NoRows, log, "commit") /\ UNCHANGED <<requests, approvals, events, met>>
  BY DEF SatisfyRequests, Rows
<1>3. tx[p].call.op = "record" /\ Who(p) = tx[p].call.who
  BY <1>1, WhoIs
<1>4. mine \subseteq DOMAIN SeenRequests(p)
  BY <1>1, QualifyingRows DEF OpenRows
<1>5. ASSUME NEW id \in OpenRows(requests, Who(p)), id \notin DOMAIN tx[p].requests
      PROVE  id \in mine \/ {id[1], p} \in met
  <2>1. id \in DOMAIN requests /\ id[2] = Who(p) /\ requests[id].status = "open"
    BY <1>5 DEF OpenRows
  <2>2. id \in DOMAIN SeenRequests(p) /\ SeenRequests(p)[id] = requests[id]
    BY <1>5, <2>1, SeenRows
  <2>3. id \in Matching(p)
    BY <1>1, <2>1, <2>2, QualifyingRows DEF OpenRows
  <2>4. CASE id \in tx[p].picked
    BY <2>3, <2>4 DEF Qualifying
  <2>5. CASE id \notin tx[p].picked
    BY <1>1, <1>3, <1>5, <2>5 DEF HInv, PastOK, AnswersAll
  <2> QED BY <2>4, <2>5
<1> HIDE DEF mine
<1>6. \A id \in mine : /\ id \in RowId /\ rows[id] \in RequestRow
                       /\ rows[id].status = "satisfied"
  <2>1. ASSUME NEW id \in mine
        PROVE  id \in RowId /\ SeenRequests(p)[id] \in RequestRow
    BY <1>4, SeenRows, TableType
  <2> QED BY <2>1 DEF RequestRow
<1>7. DOMAIN rows = mine /\ rows = [id \in DOMAIN rows |-> rows[id]]
  OBVIOUS
<1> HIDE DEF rows
<1>8. rows \in Table(RequestRow)
  BY <1>6, <1>7, TableType
<1>9. log \in SUBSET EventSet
  BY <1>6, LoggedEvents DEF EventKind
<1> HIDE DEF log
<1>10. ASSUME NEW t, t.call = tx[p].call, t.step = "commit",
              t.requests = Over(rows, tx[p].requests),
              t.approvals = Over(NoRows, tx[p].approvals)
       PROVE  PastOK(p, t)
  <2>1. t.approvals = tx[p].approvals
    BY <1>10, NothingWritten DEF IInv, TypesOK, Tx
  <2>2. ASSUME NEW r \in DOMAIN t.requests, t.requests[r].status = "open"
        PROVE  t.call.op = "request"
    <3>1. r \notin DOMAIN rows
      BY <1>6, <1>7, <1>10, <2>2 DEF Over
    <3>2. r \in DOMAIN tx[p].requests /\ t.requests[r] = tx[p].requests[r]
      BY <1>10, <2>2, <3>1 DEF Over
    <3> QED BY <1>10, <2>2, <3>2 DEF HInv, PastOK, WritesOwn
  <2>3. WritesOwn(p, t)
    BY <1>10, <2>1, <2>2 DEF HInv, PastOK, WritesOwn
  <2>4. DOMAIN t.requests = mine \cup DOMAIN tx[p].requests
    BY <1>7, <1>10 DEF Over
  <2>5. \A r \in OpenRows(requests, t.call.who) \ DOMAIN t.requests : {r[1], p} \in met
    BY <1>3, <1>5, <1>10, <2>4
  <2> QED BY <1>3, <1>10, <2>3, <2>5 DEF PastOK, AnswersAll, WithdrawsAll, StillSo
<1> QED BY <1>1, <1>2, <1>8, <1>9, <1>10, NothingWritten, WriteHistory

LEMMA CancelRequestHistory ==
    ASSUME IInv, HInv, NEW p \in Process, CancelRequest(p)
    PROVE  HInv'
<1> DEFINE id == tx[p].call.row
           rows == [r \in {id} |-> [SeenRequests(p)[r] EXCEPT !.status = "cancelled"]]
           log == Event(p, "request-cancelled", {id})
<1>1. tx[p].step = "cancel" /\ tx[p].step \in Statements
  BY DEF CancelRequest, At, Statements
<1>2. Write(p, rows, NoRows, log, "commit") /\ UNCHANGED <<requests, approvals, events, met>>
  BY DEF CancelRequest, Rows
<1>3. tx[p].call.op = "cancel"
  BY <1>1, WhoIs
<1>4. id \in DOMAIN requests /\ id \in RowId
  BY <1>1, TableType DEF IInv, CallOK, StepFits, TypesOK
<1> HIDE DEF id
<1>5. SeenRequests(p)[id] \in RequestRow
  <2>1. id \in DOMAIN SeenRequests(p)
    BY <1>4, SeenRows
  <2>2. \A r \in DOMAIN SeenRequests(p) : SeenRequests(p)[r] \in RequestRow
    BY SeenRows, TableType
  <2> QED BY <2>1, <2>2
<1>6. rows[id] \in RequestRow /\ rows[id].status = "cancelled"
  BY <1>5 DEF RequestRow
<1>7. DOMAIN rows = {id} /\ rows = [r \in DOMAIN rows |-> rows[r]]
  OBVIOUS
<1> HIDE DEF rows
<1>8. rows \in Table(RequestRow)
  BY <1>4, <1>6, <1>7, TableType
<1>9. log \in SUBSET EventSet
  BY <1>4, LoggedEvents DEF EventKind
<1> HIDE DEF log
<1>10. ASSUME NEW t, t.call = tx[p].call, t.step = "commit",
              t.requests = Over(rows, tx[p].requests),
              t.approvals = Over(NoRows, tx[p].approvals)
       PROVE  PastOK(p, t)
  <2>1. t.approvals = tx[p].approvals
    BY <1>10, NothingWritten DEF IInv, TypesOK, Tx
  <2>2. ASSUME NEW r \in DOMAIN t.requests, t.requests[r].status = "open"
        PROVE  t.call.op = "request"
    <3>1. r \notin DOMAIN rows
      BY <1>6, <1>7, <1>10, <2>2 DEF Over
    <3>2. r \in DOMAIN tx[p].requests /\ t.requests[r] = tx[p].requests[r]
      BY <1>10, <2>2, <3>1 DEF Over
    <3> QED BY <1>10, <2>2, <3>2 DEF HInv, PastOK, WritesOwn
  <2>3. WritesOwn(p, t)
    BY <1>10, <2>1, <2>2 DEF HInv, PastOK, WritesOwn
  <2> QED BY <1>3, <1>10, <2>3 DEF PastOK, AnswersAll, WithdrawsAll, StillSo
<1> QED BY <1>1, <1>2, <1>8, <1>9, <1>10, NothingWritten, WriteHistory

(* Dismissed rows are inactive. *)
LEMMA DismissedRowsInactive ==
    ASSUME IInv, NEW p \in Process, tx[p].step \in {"withdraw", "dismiss"}
    PROVE  \A id \in Qualifying(p) :
              ~[SeenApprovals(p)[id] EXCEPT !.active = FALSE].active
<1>1. /\ DOMAIN SeenApprovals(p) \subseteq RowId
      /\ \A id \in DOMAIN SeenApprovals(p) : SeenApprovals(p)[id] \in ApprovalRow
  BY SeenRows, TableType
<1>2. Qualifying(p) \subseteq DOMAIN SeenApprovals(p)
  BY QualifyingRows DEF ActiveRows, Picking
<1> QED BY <1>1, <1>2 DEF ApprovalRow

LEMMA DismissApprovalHistory ==
    ASSUME IInv, HInv, NEW p \in Process, DismissApproval(p)
    PROVE  HInv'
<1> DEFINE active == Qualifying(p)
           rows == [id \in active |-> [SeenApprovals(p)[id] EXCEPT !.active = FALSE]]
           log == Event(p, "approval-dismissed", active)
<1>1. tx[p].step = "dismiss" /\ tx[p].step \in Statements
  BY DEF DismissApproval, At, Statements
<1>2. Write(p, NoRows, rows, log, "commit") /\ UNCHANGED <<requests, approvals, events, met>>
  BY DEF DismissApproval, Rows
<1>3. tx[p].call.op = "dismiss"
  BY <1>1, WhoIs
<1>4. active \in SUBSET RowId /\ rows \in Table(ApprovalRow)
  BY <1>1, DismissedType
<1>5. DOMAIN rows = active /\ \A id \in active : ~rows[id].active
  BY <1>1, DismissedRowsInactive
<1> HIDE DEF active, rows
<1>6. log \in SUBSET EventSet
  BY <1>4, LoggedEvents DEF EventKind
<1> HIDE DEF log
<1>7. ASSUME NEW t, t.call = tx[p].call, t.step = "commit",
             t.requests = Over(NoRows, tx[p].requests),
             t.approvals = Over(rows, tx[p].approvals)
      PROVE  PastOK(p, t)
  <2>1. t.requests = tx[p].requests
    BY <1>7, NothingWritten DEF IInv, TypesOK, Tx
  <2>2. ASSUME NEW a \in DOMAIN t.approvals, t.approvals[a].active
        PROVE  t.call.op = "record" /\ t.approvals[a].by = p /\ a[2] = t.call.who
    <3>1. a \notin DOMAIN rows
      BY <1>5, <1>7, <2>2 DEF Over
    <3>2. a \in DOMAIN tx[p].approvals /\ t.approvals[a] = tx[p].approvals[a]
      BY <1>7, <2>2, <3>1 DEF Over
    <3> QED BY <1>7, <2>2, <3>2 DEF HInv, PastOK, WritesOwn
  <2>3. WritesOwn(p, t)
    BY <1>7, <2>1, <2>2 DEF HInv, PastOK, WritesOwn
  <2> QED BY <1>3, <1>7, <2>3 DEF PastOK, AnswersAll, WithdrawsAll, StillSo
<1> QED BY <1>1, <1>2, <1>4, <1>6, <1>7, NothingWritten, WriteHistory

(* What finding a request, and going on to the next target, change. *)
LEMMA FindFields ==
    ASSUME IInv, NEW p \in Process, FindOpenRequest(p)
    PROVE  \E t : /\ tx' = [tx EXCEPT ![p] = t]
                  /\ t.call = tx[p].call /\ t.step = "open" /\ t.targets = tx[p].targets
                  /\ t.found = Qualifying(p)
                  /\ t.requests = tx[p].requests /\ t.approvals = tx[p].approvals
<1> DEFINE c == tx[p]
           open == Qualifying(p)
           zero == Turn(c, "open")
           t == [zero EXCEPT !.found = open, !.locks = c.locks \cup open]
<1>1. zero \in Tx /\ zero.step = "open" /\ zero.call = c.call /\ zero.targets = c.targets
      /\ zero.requests = c.requests /\ zero.approvals = c.approvals /\ zero.locks = c.locks
  <2>1. c \in Tx /\ "open" \in Statements \cup {"commit"}
    BY DEF IInv, TypesOK, Statements
  <2> QED BY <2>1, TurnFields
<1>2. tx' = [tx EXCEPT ![p] = t]
  <2>1. tx' = [tx EXCEPT ![p] = [zero EXCEPT !.found = open, !.locks = @ \cup open]]
    BY DEF FindOpenRequest
  <2> HIDE DEF zero
  <2>2. [zero EXCEPT !.found = open, !.locks = @ \cup open] = t
    BY <1>1 DEF Tx
  <2> QED BY <2>1, <2>2
<1> HIDE DEF c, open, zero
<1>3. /\ t.call = c.call /\ t.step = "open" /\ t.targets = c.targets /\ t.found = open
      /\ t.requests = c.requests /\ t.approvals = c.approvals
  BY <1>1 DEF Tx
<1> HIDE DEF t
<1> QED BY <1>2, <1>3 DEF c, open

LEMMA NextTargetFields ==
    ASSUME IInv, NEW p \in Process, NextTarget(p)
    PROVE  \E t : /\ tx' = [tx EXCEPT ![p] = t]
                  /\ t.call = tx[p].call /\ t.step \in {"commit", "find"} /\ t.began = FALSE
                  /\ t.requests = tx[p].requests /\ t.approvals = tx[p].approvals
<1> DEFINE c == tx[p]
           left == Tail(c.targets)
           next == Following(p)
           zero == Turn(c, next)
           t == [zero EXCEPT !.targets = left]
<1>1. next \in {"commit", "find"}
  BY DEF Following
<1>2. zero \in Tx /\ zero.step = next /\ zero.began = FALSE /\ zero.call = c.call
      /\ zero.targets = c.targets /\ zero.requests = c.requests /\ zero.approvals = c.approvals
  <2>1. c \in Tx /\ next \in Statements \cup {"commit"}
    BY <1>1 DEF IInv, TypesOK, Statements
  <2> HIDE DEF next
  <2> QED BY <2>1, TurnFields
<1>3. tx' = [tx EXCEPT ![p] = t]
  <2>1. tx' = [tx EXCEPT ![p] = [zero EXCEPT !.targets = Tail(@)]]
    BY DEF NextTarget
  <2> HIDE DEF zero
  <2>2. [zero EXCEPT !.targets = Tail(@)] = t
    BY <1>2 DEF Tx
  <2> QED BY <2>1, <2>2
<1> HIDE DEF c, left, next, zero
<1>4. /\ t.call = c.call /\ t.step = next /\ t.began = FALSE
      /\ t.requests = c.requests /\ t.approvals = c.approvals
  BY <1>2 DEF Tx
<1> HIDE DEF t
<1> QED BY <1>1, <1>3, <1>4 DEF c

LEMMA WithdrawFields ==
    ASSUME IInv, NEW p \in Process, WithdrawApproval(p)
    PROVE  LET active == Qualifying(p)
               rows == [id \in active |-> [SeenApprovals(p)[id] EXCEPT !.active = FALSE]]
           IN  \E t : /\ tx' = [tx EXCEPT ![p] = t]
                      /\ t.call = tx[p].call /\ t.step \in {"commit", "find"} /\ t.began = FALSE
                      /\ t.requests = tx[p].requests
                      /\ t.approvals = Over(rows, tx[p].approvals)
<1> DEFINE c == tx[p]
           active == Qualifying(p)
           rows == [id \in active |-> [SeenApprovals(p)[id] EXCEPT !.active = FALSE]]
           log == Event(p, "approval-dismissed", active)
           written == Over(rows, c.approvals)
           moreLog == c.log \cup log
           left == Tail(c.targets)
           next == Following(p)
           zero == Turn(c, next)
           t == [zero EXCEPT !.approvals = written, !.log = moreLog, !.targets = left]
<1>1. next \in {"commit", "find"}
  BY DEF Following
<1>2. zero \in Tx /\ zero.step = next /\ zero.began = FALSE /\ zero.call = c.call
      /\ zero.targets = c.targets /\ zero.requests = c.requests /\ zero.approvals = c.approvals
      /\ zero.log = c.log
  <2>1. c \in Tx /\ next \in Statements \cup {"commit"}
    BY <1>1 DEF IInv, TypesOK, Statements
  <2> HIDE DEF next
  <2> QED BY <2>1, TurnFields
<1>3. tx' = [tx EXCEPT ![p] = t]
  <2>1. tx' = [tx EXCEPT ![p] = [zero EXCEPT !.approvals = Over(rows, @),
                                            !.log = @ \cup log, !.targets = Tail(@)]]
    BY DEF WithdrawApproval, Rows
  <2> HIDE DEF zero, rows, log
  <2>2. [zero EXCEPT !.approvals = Over(rows, @), !.log = @ \cup log, !.targets = Tail(@)] = t
    BY <1>2 DEF Tx
  <2> QED BY <2>1, <2>2
<1> HIDE DEF c, rows, written, moreLog, left, next, zero
<1>4. /\ t.call = c.call /\ t.step = next /\ t.began = FALSE
      /\ t.requests = c.requests /\ t.approvals = written
  BY <1>2 DEF Tx
<1> HIDE DEF t
<1> QED BY <1>1, <1>3, <1>4 DEF c, written, rows

(* A batch sees the open requests of the table: it has closed none.          *)
LEMMA OpenRowsSeen ==
    ASSUME IInv, NEW p \in Process, tx[p].step \in Asking
    PROVE  OpenRows(requests, Who(p)) \subseteq OpenRows(SeenRequests(p), Who(p))
<1>1. ASSUME NEW r \in OpenRows(requests, Who(p))
      PROVE  r \in OpenRows(SeenRequests(p), Who(p))
  <2>1. r \in DOMAIN requests /\ r[2] = Who(p) /\ requests[r].status = "open"
    BY DEF OpenRows
  <2>2. r \in DOMAIN SeenRequests(p)
    BY <2>1, SeenRows
  <2>3. SeenRequests(p)[r].status = "open"
    <3>1. CASE r \in DOMAIN tx[p].requests
      BY <3>1, SeenRows DEF IInv, CallOK, FoundOpen
    <3>2. CASE r \notin DOMAIN tx[p].requests
      BY <2>1, <3>2, SeenRows
    <3> QED BY <3>1, <3>2
  <2> QED BY <2>1, <2>2, <2>3 DEF OpenRows
<1> QED BY <1>1

LEMMA FindOpenRequestHistory ==
    ASSUME IInv, HInv, NEW p \in Process, FindOpenRequest(p)
    PROVE  HInv'
<1>1. /\ tx[p].step = "find" /\ tx[p].step \notin Ended /\ tx[p].step \in Asking
      /\ tx[p].step \in Picking /\ tx[p].began
  BY DEF FindOpenRequest, At, Ended, Asking, Picking
<1>2. PICK t : /\ tx' = [tx EXCEPT ![p] = t]
               /\ t.call = tx[p].call /\ t.step = "open" /\ t.targets = tx[p].targets
               /\ t.found = Qualifying(p)
               /\ t.requests = tx[p].requests /\ t.approvals = tx[p].approvals
  BY FindFields
<1>3. tx[p].call.op = "request" /\ Who(p) = Head(tx[p].targets)
  BY <1>1, WhoIs
<1>4. PastOK(p, tx[p])
  BY DEF HInv
<1>5. WritesOwn(p, t)
  BY <1>2, <1>4 DEF PastOK, WritesOwn
<1>6. WithdrawsAll(p, t)
  <2>1. ASSUME NEW r \in DOMAIN tx[p].requests \cap Own(p)
        PROVE  \A a \in ActiveRows(approvals, r[2]) \ DOMAIN tx[p].approvals :
                  {p, approvals[a].by} \in met
    BY <1>1, <1>3, <1>4 DEF PastOK, WithdrawsAll
  <2> QED BY <1>2, <2>1 DEF WithdrawsAll
<1>7. t.found = {} => Overtaken(p) \/ OpenRows(requests, Head(t.targets)) = {}
  <2>1. OpenRows(requests, Who(p)) \subseteq Matching(p)
    BY <1>1, OpenRowsSeen, QualifyingRows
  <2>2. Overtaken(p) \/ OpenRows(requests, Who(p)) \subseteq tx[p].picked
    BY <1>1, <1>3, <1>4 DEF PastOK, StillSo
  <2> QED BY <1>2, <1>3, <2>1, <2>2 DEF Qualifying
<1>8. PastOK(p, t)
  BY <1>2, <1>3, <1>5, <1>6, <1>7 DEF PastOK, AnswersAll, StillSo
<1>9. UNCHANGED <<requests, approvals, events, met>>
  BY DEF FindOpenRequest
<1> QED BY <1>1, <1>2, <1>8, <1>9, StatementHistory

LEMMA UpgradeRequestHistory ==
    ASSUME IInv, HInv, NEW p \in Process, UpgradeRequest(p)
    PROVE  HInv'
<1> DEFINE upgraded == {id \in tx[p].found :
                           /\ SeenRequests(p)[id].requirement = "optional"
                           /\ tx[p].call.requirement = "required"}
           rows == [id \in upgraded |-> [SeenRequests(p)[id] EXCEPT !.requirement = "required"]]
           log == Event(p, "review-requested", upgraded)
<1>1. /\ tx[p].step = "open" /\ tx[p].step \notin Ended /\ tx[p].step \in Asking
      /\ tx[p].step \in Statements
  BY DEF UpgradeRequest, At, Ended, Asking, Statements
<1>2. tx[p].call.op = "request" /\ Who(p) = Head(tx[p].targets)
  BY <1>1, WhoIs
<1>3. PastOK(p, tx[p]) /\ tx[p] \in Tx /\ CallOK(p, tx[p])
  BY DEF HInv, IInv, TypesOK
<1>4. ASSUME NEW r \in DOMAIN tx[p].requests \cap Own(p)
      PROVE  \A a \in ActiveRows(approvals, r[2]) \ DOMAIN tx[p].approvals :
                {p, approvals[a].by} \in met
  BY <1>1, <1>2, <1>3 DEF PastOK, WithdrawsAll
<1>5. UNCHANGED <<requests, approvals, events, met>>
  BY DEF UpgradeRequest
<1>6. CASE upgraded = {}
  <2>1. NextTarget(p)
    BY <1>6 DEF UpgradeRequest
  <2>2. PICK t : /\ tx' = [tx EXCEPT ![p] = t]
                 /\ t.call = tx[p].call /\ t.step \in {"commit", "find"} /\ t.began = FALSE
                 /\ t.requests = tx[p].requests /\ t.approvals = tx[p].approvals
    BY <2>1, NextTargetFields
  <2>3. WritesOwn(p, t)
    BY <1>3, <2>2 DEF PastOK, WritesOwn
  <2>4. WithdrawsAll(p, t)
    BY <1>4, <2>2 DEF WithdrawsAll
  <2>5. PastOK(p, t)
    BY <1>2, <2>2, <2>3, <2>4 DEF PastOK, AnswersAll, StillSo
  <2> QED BY <1>1, <1>5, <2>2, <2>5, StatementHistory
<1>7. CASE upgraded # {}
  <2>1. Write(p, rows, NoRows, log, "withdraw")
    BY <1>7 DEF UpgradeRequest, Rows
  <2>2. upgraded \subseteq tx[p].found
    OBVIOUS
  <2> HIDE DEF upgraded
  <2>3. \A id \in upgraded : id \in DOMAIN tx[p].requests \cup DOMAIN requests
    BY <1>1, <1>3, <2>2 DEF CallOK, FoundOpen
  <2>4. \A id \in upgraded : id \in RowId /\ SeenRequests(p)[id] \in RequestRow
    <3>1. \A id \in upgraded : id \in DOMAIN SeenRequests(p)
      BY <2>3, SeenRows
    <3>2. /\ DOMAIN SeenRequests(p) \subseteq RowId
          /\ \A r \in DOMAIN SeenRequests(p) : SeenRequests(p)[r] \in RequestRow
      BY SeenRows, TableType
    <3> QED BY <3>1, <3>2
  <2>5. \A id \in upgraded : rows[id] \in RequestRow
    BY <2>4 DEF RequestRow, Requirement
  <2>6. DOMAIN rows = upgraded /\ rows = [id \in DOMAIN rows |-> rows[id]]
    OBVIOUS
  <2> HIDE DEF rows
  <2>7. rows \in Table(RequestRow)
    BY <2>4, <2>5, <2>6, TableType
  <2>8. log \in SUBSET EventSet
    BY <2>4, LoggedEvents DEF EventKind
  <2> HIDE DEF log
  <2>9. \A id \in upgraded \cap Own(p) : id \in DOMAIN tx[p].requests
    BY <1>1, <1>3, <2>3 DEF CallOK, LocksFit, Ended
  <2>10. ASSUME NEW t, t.call = tx[p].call, t.step = "withdraw", t.began = FALSE,
                t.requests = Over(rows, tx[p].requests),
                t.approvals = Over(NoRows, tx[p].approvals)
         PROVE  PastOK(p, t)
    <3>1. t.approvals = tx[p].approvals
      BY <1>3, <2>10, NothingWritten DEF Tx
    <3>2. WritesOwn(p, t)
      BY <1>2, <1>3, <2>10, <3>1 DEF PastOK, WritesOwn
    <3>3. DOMAIN t.requests \cap Own(p) \subseteq DOMAIN tx[p].requests
      BY <2>6, <2>9, <2>10 DEF Over
    <3>4. WithdrawsAll(p, t)
      BY <1>4, <3>1, <3>3 DEF WithdrawsAll
    <3> QED BY <1>2, <2>10, <3>2, <3>4 DEF PastOK, AnswersAll, StillSo
  <2> QED BY <1>1, <1>5, <2>1, <2>7, <2>8, <2>10, NothingWritten, WriteHistory DEF Statements
<1> QED BY <1>6, <1>7

(* The unique index refuses an insert: there was no open request when the    *)
(* call looked for one.                                                      *)
LEMMA InsertRequestHistory ==
    ASSUME IInv, HInv, NEW p \in Process, InsertRequest(p)
    PROVE  HInv'
<1> DEFINE id == <<p, Who(p)>>
           row == [requirement |-> tx[p].call.requirement, status |-> "open"]
           rows == [r \in {id} |-> row]
           log == Event(p, "review-requested", {id})
<1>1. /\ tx[p].step = "open" /\ tx[p].step \notin Ended /\ tx[p].step \in Asking
      /\ tx[p].step \in Statements /\ tx[p].found = {}
  BY DEF InsertRequest, At, Ended, Asking, Statements
<1>2. tx[p].call.op = "request" /\ Who(p) = Head(tx[p].targets)
  BY <1>1, WhoIs
<1>3. PastOK(p, tx[p]) /\ tx[p] \in Tx /\ StepFits(p, tx[p])
  BY DEF HInv, IInv, TypesOK, CallOK
<1>4. CASE OpenRows(requests, Who(p)) # {}
  <2>1. Fail(p, "duplicate")
    BY <1>4 DEF InsertRequest
  <2>2. Overtaken(p)
    BY <1>1, <1>2, <1>3, <1>4 DEF PastOK, StillSo
  <2> QED BY <1>1, <2>1, <2>2, FailHistory
<1>5. CASE OpenRows(requests, Who(p)) = {}
  <2>1. Write(p, rows, NoRows, log, "withdraw") /\ UNCHANGED <<requests, approvals, events, met>>
    BY <1>5 DEF InsertRequest, Rows
  <2>2. id \in RowId
    BY <1>1, WhoType
  <2>3. row \in RequestRow
    <3>1. tx[p].call \in Call
      BY <1>1, <1>3 DEF StepFits
    <3> QED BY <1>2, <3>1, CallFacts DEF RequestRow
  <2> HIDE DEF row
  <2>4. DOMAIN rows = {id} /\ rows = [r \in DOMAIN rows |-> rows[r]] /\ rows[id] = row
    OBVIOUS
  <2> HIDE DEF rows
  <2>5. rows \in Table(RequestRow)
    BY <2>2, <2>3, <2>4, TableType
  <2>6. log \in SUBSET EventSet
    BY <2>2, LoggedEvents DEF EventKind
  <2> HIDE DEF log
  <2>7. ASSUME NEW t, t.call = tx[p].call, t.step = "withdraw", t.began = FALSE,
               t.targets = tx[p].targets,
               t.requests = Over(rows, tx[p].requests),
               t.approvals = Over(NoRows, tx[p].approvals)
        PROVE  PastOK(p, t)
    <3>1. t.approvals = tx[p].approvals
      BY <1>3, <2>7, NothingWritten DEF Tx
    <3>2. WritesOwn(p, t)
      BY <1>2, <1>3, <2>7, <3>1 DEF PastOK, WritesOwn
    <3>3. ASSUME NEW r \in DOMAIN t.requests \cap Own(p)
          PROVE  \/ r[2] = Head(t.targets)
                 \/ \A a \in ActiveRows(approvals, r[2]) \ DOMAIN t.approvals :
                       {p, approvals[a].by} \in met
      <4>1. CASE r = id
        BY <1>2, <2>7, <4>1
      <4>2. CASE r # id
        <5>1. r \in DOMAIN tx[p].requests
          BY <2>4, <2>7, <4>2 DEF Over
        <5> QED BY <1>1, <1>2, <1>3, <3>1, <5>1 DEF PastOK, WithdrawsAll
      <4> QED BY <4>1, <4>2
    <3>4. WithdrawsAll(p, t)
      BY <2>7, <3>3 DEF WithdrawsAll
    <3> QED BY <1>2, <2>7, <3>2, <3>4 DEF PastOK, AnswersAll, StillSo
  <2> QED BY <1>1, <2>1, <2>5, <2>6, <2>7, NothingWritten, WriteHistory DEF Statements
<1> QED BY <1>4, <1>5

(* Asked anew, a reviewer loses the approval that is active now. *)
LEMMA WithdrawApprovalHistory ==
    ASSUME IInv, HInv, NEW p \in Process, WithdrawApproval(p)
    PROVE  HInv'
<1> DEFINE active == Qualifying(p)
           rows == [id \in active |-> [SeenApprovals(p)[id] EXCEPT !.active = FALSE]]
<1>1. /\ tx[p].step = "withdraw" /\ tx[p].step \notin Ended /\ tx[p].step \in Asking
      /\ tx[p].step \in Picking /\ tx[p].began
  BY DEF WithdrawApproval, At, Ended, Asking, Picking
<1>2. tx[p].call.op = "request" /\ Who(p) = Head(tx[p].targets)
  BY <1>1, WhoIs
<1>3. PastOK(p, tx[p])
  BY DEF HInv
<1>4. PICK t : /\ tx' = [tx EXCEPT ![p] = t]
               /\ t.call = tx[p].call /\ t.step \in {"commit", "find"} /\ t.began = FALSE
               /\ t.requests = tx[p].requests
               /\ t.approvals = Over(rows, tx[p].approvals)
  BY WithdrawFields
<1>5. DOMAIN rows = active /\ \A id \in active : ~rows[id].active
  BY <1>1, DismissedRowsInactive
<1>6. ASSUME NEW a \in ActiveRows(approvals, Who(p)), a \notin DOMAIN tx[p].approvals,
             a \in tx[p].picked
      PROVE  a \in active
  <2>1. a \in DOMAIN approvals /\ a[2] = Who(p) /\ approvals[a].active
    BY DEF ActiveRows
  <2>2. a \in DOMAIN SeenApprovals(p) /\ SeenApprovals(p)[a] = approvals[a]
    BY <1>6, <2>1 DEF SeenApprovals, Over
  <2>3. a \in Matching(p)
    BY <1>1, <2>1, <2>2, QualifyingRows DEF ActiveRows
  <2> QED BY <1>6, <2>3 DEF Qualifying
<1> HIDE DEF active, rows
<1>7. ASSUME NEW a \in DOMAIN t.approvals, t.approvals[a].active
      PROVE  t.call.op = "record" /\ t.approvals[a].by = p /\ a[2] = t.call.who
  <2>1. a \notin DOMAIN rows
    BY <1>4, <1>5, <1>7 DEF Over
  <2>2. a \in DOMAIN tx[p].approvals /\ t.approvals[a] = tx[p].approvals[a]
    BY <1>4, <1>7, <2>1 DEF Over
  <2> QED BY <1>3, <1>4, <1>7, <2>2 DEF PastOK, WritesOwn
<1>8. WritesOwn(p, t)
  BY <1>2, <1>4, <1>7 DEF WritesOwn
<1>9. DOMAIN t.approvals = active \cup DOMAIN tx[p].approvals
  BY <1>4, <1>5 DEF Over
<1>10. ASSUME NEW r \in DOMAIN t.requests \cap Own(p),
              NEW a \in ActiveRows(approvals, r[2]) \ DOMAIN t.approvals
       PROVE  {p, approvals[a].by} \in met
  <2>1. r[2] # Who(p) \/ a \notin tx[p].picked
    BY <1>6, <1>9
  <2>2. r \in DOMAIN tx[p].requests /\ a \notin DOMAIN tx[p].approvals
    BY <1>4, <1>9
  <2> QED BY <1>1, <1>2, <1>3, <2>1, <2>2 DEF PastOK, WithdrawsAll
<1>11. PastOK(p, t)
  BY <1>2, <1>4, <1>8, <1>10 DEF PastOK, AnswersAll, WithdrawsAll, StillSo
<1>12. UNCHANGED <<requests, approvals, events, met>>
  BY DEF WithdrawApproval
<1> QED BY <1>1, <1>4, <1>11, <1>12, StatementHistory

(* What a statement picks is what there is. *)
LEMMA PickRowsHistory ==
    ASSUME IInv, HInv, NEW p \in Process, PickRows(p)
    PROVE  HInv'
<1> DEFINE c == tx[p]
           none == c.step = "revive" /\ ActiveRows(SeenApprovals(p), Who(p)) # {}
           rows == IF none THEN {} ELSE Matching(p)
           t == [c EXCEPT !.began = TRUE, !.picked = rows]
<1>1. tx' = [tx EXCEPT ![p] = t] /\ UNCHANGED <<requests, approvals, events, met>>
  BY DEF PickRows
<1>2. c \in Tx /\ c.step \in Picking /\ ~c.began /\ PastOK(p, c) /\ c.step \notin Ended
  BY DEF IInv, TypesOK, PickRows, HInv, Picking, Ended
<1>3. c.step = "revive" => rows = {} \/ Overtaken(p)
  <2>1. c.step = "revive" => Who(p) = c.call.who
    BY WhoIs DEF Recording
  <2> QED BY <1>2, <2>1 DEF PastOK, StillSo, SeenApprovals
<1>4. c.step = "satisfy" /\ c.call.op = "record" =>
         OpenRows(requests, c.call.who) \ DOMAIN c.requests \subseteq rows
  <2>1. ASSUME c.step = "satisfy", NEW r \in OpenRows(requests, c.call.who),
               r \notin DOMAIN c.requests
        PROVE  r \in rows
    <3>1. Who(p) = c.call.who /\ rows = OpenRows(SeenRequests(p), Who(p))
      BY <1>2, <2>1, WhoIs, QualifyingRows DEF Recording
    <3>2. r \in DOMAIN requests /\ r[2] = c.call.who /\ requests[r].status = "open"
      BY DEF OpenRows
    <3>3. r \in DOMAIN SeenRequests(p) /\ SeenRequests(p)[r] = requests[r]
      BY <2>1, <3>2, SeenRows
    <3> QED BY <3>1, <3>2, <3>3 DEF OpenRows
  <2> QED BY <2>1
<1>5. c.step = "find" => OpenRows(requests, Head(c.targets)) \subseteq rows
  BY <1>2, OpenRowsSeen, QualifyingRows, WhoIs DEF Asking
<1>6. c.step = "withdraw" =>
         ActiveRows(approvals, Head(c.targets)) \ DOMAIN c.approvals \subseteq rows
  <2>1. ASSUME c.step = "withdraw", NEW a \in ActiveRows(approvals, Head(c.targets)),
               a \notin DOMAIN c.approvals
        PROVE  a \in rows
    <3>1. Who(p) = Head(c.targets) /\ rows = ActiveRows(SeenApprovals(p), Who(p))
      BY <1>2, <2>1, WhoIs, QualifyingRows DEF Asking
    <3>2. a \in DOMAIN approvals /\ a[2] = Head(c.targets) /\ approvals[a].active
      BY DEF ActiveRows
    <3>3. a \in DOMAIN SeenApprovals(p) /\ SeenApprovals(p)[a] = approvals[a]
      BY <2>1, <3>2 DEF SeenApprovals, Over
    <3> QED BY <3>1, <3>2, <3>3 DEF ActiveRows
  <2> QED BY <2>1
<1>7. tx[p].step \notin Ended
  BY <1>2
<1> HIDE DEF c, rows
<1>8. /\ t.call = c.call /\ t.step = c.step /\ t.targets = c.targets /\ t.found = c.found
      /\ t.requests = c.requests /\ t.approvals = c.approvals /\ t.began /\ t.picked = rows
  BY <1>2 DEF Tx
<1> HIDE DEF t
<1>9. WritesOwn(p, t)
  BY <1>2, <1>8 DEF PastOK, WritesOwn
<1>10. AnswersAll(p, t)
  BY <1>2, <1>4, <1>8 DEF AnswersAll, Picking
<1>11. WithdrawsAll(p, t)
  BY <1>2, <1>6, <1>8 DEF PastOK, WithdrawsAll
<1>12. StillSo(p, t)
  BY <1>2, <1>3, <1>5, <1>8 DEF StillSo, Picking
<1> QED BY <1>1, <1>7, <1>9, <1>10, <1>11, <1>12, StatementHistory DEF PastOK

LEMMA BeginHistory ==
    ASSUME IInv, HInv, NEW p \in Process, NEW call \in Call, Begin(p, call)
    PROVE  HInv'
<1> DEFINE step == FirstStep(call)
           targets == IF call.op = "request" THEN call.targets ELSE <<>>
           blank == Blank(call, step)
           t == [blank EXCEPT !.targets = targets]
<1>1. /\ tx' = [tx EXCEPT ![p] = t] /\ requests' = requests /\ approvals' = approvals
      /\ met' = met \cup {{p, q} : q \in InFlight} /\ tx[p].step = "idle"
  BY DEF Begin
<1>2. step \notin {"duplicate", "revive", "satisfy", "open", "commit"}
  BY CallFacts DEF FirstStep
<1> HIDE DEF step, targets
<1>3. t.step = step /\ t.began = FALSE /\ t.requests = NoRows /\ t.approvals = NoRows
  BY DEF Blank
<1> HIDE DEF t
<1>4. PastOK(p, t)
  BY <1>2, <1>3, NothingWritten DEF PastOK, WritesOwn, AnswersAll, WithdrawsAll, StillSo
<1>5. \A q \in Process \ {p} : tx[q].step \notin Ended => {p, q} \in met'
  BY <1>1 DEF InFlight
<1>6. tx'[p] = t /\ \A q \in Process \ {p} : tx'[q] = tx[q]
  BY <1>1 DEF IInv, TypesOK
<1> QED BY <1>1, <1>4, <1>5, <1>6, TurnHistory

(* A commit overtakes every call in flight.  The requests it opens and the   *)
(* approvals it makes active are its own, so whoever has not seen them met   *)
(* it; and it has itself dealt with what was there, but for what calls it    *)
(* met have committed.                                                       *)
LEMMA CommitHistory ==
    ASSUME IInv, HInv, NEW p \in Process, Commit(p)
    PROVE  HInv'
<1> DEFINE c == tx[p]
<1> PICK t : t = Blank(c.call, "done")
  OBVIOUS
<1>1. /\ requests' = SeenRequests(p) /\ approvals' = SeenApprovals(p) /\ met' = met
      /\ tx' = [tx EXCEPT ![p] = t] /\ c.step = "commit" /\ c.step \notin Ended
  BY DEF Commit, At, Ended
<1>2. c \in Tx /\ CallOK(p, c) /\ PastOK(p, c)
  BY DEF IInv, TypesOK, HInv
<1>3. t.step = "done" /\ t.requests = NoRows /\ t.approvals = NoRows
  BY DEF Blank
<1>4. tx'[p] = t /\ \A q \in Process \ {p} : tx'[q] = tx[q]
  BY <1>1 DEF IInv, TypesOK
<1>5. \A q \in Process \ {p} : tx[q].step \notin Ended => {p, q} \in met
  BY <1>1 DEF HInv, AllMet
<1>6. /\ DOMAIN requests' = DOMAIN c.requests \cup DOMAIN requests
      /\ \A id \in DOMAIN c.requests : requests'[id] = c.requests[id]
      /\ \A id \in DOMAIN requests \ DOMAIN c.requests : requests'[id] = requests[id]
  BY <1>1 DEF SeenRequests, Over
<1>7. /\ DOMAIN approvals' = DOMAIN c.approvals \cup DOMAIN approvals
      /\ \A id \in DOMAIN c.approvals : approvals'[id] = c.approvals[id]
      /\ \A id \in DOMAIN approvals \ DOMAIN c.approvals : approvals'[id] = approvals[id]
  BY <1>1 DEF SeenApprovals, Over
<1> HIDE DEF c
(* What is open or active now *)
<1>8. ASSUME NEW r \in DOMAIN requests', requests'[r].status = "open"
      PROVE  \/ r \in DOMAIN requests /\ requests[r].status = "open"
             \/ r \in DOMAIN c.requests \cap Own(p) /\ c.call.op = "request"
  <2>1. CASE r \notin DOMAIN c.requests
    BY <1>6, <1>8, <2>1
  <2>2. CASE r \in DOMAIN c.requests
    <3>1. c.requests[r].status = "open" /\ c.call.op = "request"
      BY <1>2, <1>6, <1>8, <2>2 DEF PastOK, WritesOwn
    <3>2. r \in DOMAIN requests \cup Own(p)
      BY <1>2, <2>2 DEF CallOK, LocksFit
    <3>3. r \in DOMAIN requests => requests[r].status = "open"
      BY <1>2, <2>2, <3>1 DEF CallOK, KeepsClosed
    <3> QED BY <2>2, <3>1, <3>2, <3>3
  <2> QED BY <2>1, <2>2
<1>9. ASSUME NEW a \in DOMAIN approvals', approvals'[a].active
      PROVE  \/ /\ a \in DOMAIN approvals \ DOMAIN c.approvals /\ approvals[a].active
                /\ approvals'[a] = approvals[a]
             \/ approvals'[a].by = p /\ c.call.op = "record" /\ a[2] = c.call.who
  <2>1. CASE a \notin DOMAIN c.approvals
    BY <1>7, <1>9, <2>1
  <2>2. CASE a \in DOMAIN c.approvals
    BY <1>2, <1>7, <1>9, <2>2 DEF PastOK, WritesOwn
  <2> QED BY <2>1, <2>2
<1>10. SkewOnlyFromOverlap'
  <2>1. ASSUME NEW r \in DOMAIN requests', requests'[r].status = "open",
               NEW a \in DOMAIN approvals', approvals'[a].active, r[2] = a[2],
               r[2] \in Reviewer
        PROVE  {r[1], approvals'[a].by} \in met
    <3>1. CASE /\ r \in DOMAIN requests /\ requests[r].status = "open"
               /\ a \in DOMAIN approvals \ DOMAIN c.approvals /\ approvals[a].active
               /\ approvals'[a] = approvals[a]
      BY <2>1, <3>1 DEF HInv, SkewOnlyFromOverlap, OpenRows, ActiveRows
    <3>2. CASE /\ r \in DOMAIN requests /\ requests[r].status = "open"
               /\ approvals'[a].by = p /\ c.call.op = "record" /\ a[2] = c.call.who
      <4>1. r \notin DOMAIN c.requests
        BY <1>2, <1>6, <2>1, <3>2 DEF PastOK, WritesOwn
      <4>2. r \in OpenRows(requests, c.call.who) \ DOMAIN c.requests
        BY <2>1, <3>2, <4>1 DEF OpenRows
      <4> QED BY <1>1, <1>2, <3>2, <4>2 DEF PastOK, AnswersAll, c
    <3>3. CASE /\ r \in DOMAIN c.requests \cap Own(p) /\ c.call.op = "request"
               /\ a \in DOMAIN approvals \ DOMAIN c.approvals /\ approvals[a].active
               /\ approvals'[a] = approvals[a]
      <4>1. a \in ActiveRows(approvals, r[2]) \ DOMAIN c.approvals
        BY <2>1, <3>3 DEF ActiveRows
      <4>2. c.step # "withdraw"
        BY <1>1 DEF c
      <4>3. {p, approvals[a].by} \in met
        BY <1>2, <3>3, <4>1, <4>2 DEF PastOK, WithdrawsAll
      <4>4. r[1] = p
        BY <3>3 DEF Own
      <4> QED BY <3>3, <4>3, <4>4
    <3> QED BY <1>8, <1>9, <2>1, <3>1, <3>2, <3>3
  <2>2. \A u, r : r \in OpenRows(requests, u)'
                     => r \in DOMAIN requests' /\ requests'[r].status = "open" /\ r[2] = u
    BY DEF OpenRows
  <2>3. \A u, a : a \in ActiveRows(approvals, u)'
                     => a \in DOMAIN approvals' /\ approvals'[a].active /\ a[2] = u
    BY DEF ActiveRows
  <2> QED BY <1>1, <2>1, <2>2, <2>3 DEF SkewOnlyFromOverlap
<1>11. AllMet'
  BY <1>1, <1>3, <1>4 DEF HInv, AllMet, Ended
<1>12. PastOK(p, tx[p])'
  BY <1>3, <1>4, NothingWritten DEF PastOK, WritesOwn, AnswersAll, WithdrawsAll, StillSo
<1>13. ASSUME NEW q \in Process \ {p} PROVE PastOK(q, tx[q])'
  <2> PICK d : d = tx[q]
    OBVIOUS
  <2>1. tx'[q] = d /\ PastOK(q, d) /\ StepFits(q, d)
    BY <1>4 DEF HInv, IInv, CallOK
  <2>2. CASE d.step \in Ended
    <3>1. d = Blank(d.call, d.step)
      BY <2>1, <2>2 DEF StepFits
    <3>2. d.requests = NoRows /\ d.approvals = NoRows
      BY <3>1 DEF Blank
    <3>3. Overtaken(q) => Overtaken(q)'
      <4>1. tx[p].step # "done" /\ met \subseteq met'
        BY <1>1 DEF c
      <4> QED BY <1>4, <4>1, OvertakenStays
    <3>4. d.step \notin {"revive", "find", "open", "satisfy", "commit"}
      BY <2>2 DEF Ended
    <3>5. d.step = "duplicate" => Overtaken(q)
      BY <2>1 DEF PastOK, StillSo
    <3> QED BY <2>1, <3>2, <3>3, <3>4, <3>5, NothingWritten
            DEF PastOK, WritesOwn, AnswersAll, WithdrawsAll, StillSo
  <2>3. CASE d.step \notin Ended
    <3>1. {p, q} \in met /\ {q, p} = {p, q}
      BY <1>5, <2>3
    <3>2. Overtaken(q)'
      BY <1>1, <1>3, <1>4, <3>1 DEF Overtaken
    <3>3. StillSo(q, tx[q])'
      BY <3>2 DEF StillSo
    <3>4. WritesOwn(q, tx[q])'
      BY <2>1 DEF PastOK, WritesOwn
    <3>5. ASSUME d.call.op = "record", d.step = "commit",
                 NEW r, r \in DOMAIN requests', requests'[r].status = "open",
                 r[2] = d.call.who, r \notin DOMAIN d.requests
          PROVE  {r[1], q} \in met
      <4>1. CASE r \in DOMAIN requests /\ requests[r].status = "open"
        BY <2>1, <3>5, <4>1 DEF PastOK, AnswersAll, OpenRows
      <4>2. CASE r \in DOMAIN c.requests \cap Own(p)
        <5>1. r[1] = p
          BY <4>2 DEF Own
        <5> QED BY <3>1, <5>1
      <4> QED BY <1>8, <3>5, <4>1, <4>2
    <3>9. ASSUME d.call.op = "record", d.step = "satisfy", d.began,
                 NEW r, r \in DOMAIN requests', requests'[r].status = "open",
                 r[2] = d.call.who, r \notin DOMAIN d.requests \cup d.picked
          PROVE  {r[1], q} \in met
      <4>1. CASE r \in DOMAIN requests /\ requests[r].status = "open"
        BY <2>1, <3>9, <4>1 DEF PastOK, AnswersAll, OpenRows
      <4>2. CASE r \in DOMAIN c.requests \cap Own(p)
        <5>1. r[1] = p
          BY <4>2 DEF Own
        <5> QED BY <3>1, <5>1
      <4> QED BY <1>8, <3>9, <4>1, <4>2
    <3>6. AnswersAll(q, tx[q])'
      <4>1. \A u, r : r \in OpenRows(requests, u)'
                         => r \in DOMAIN requests' /\ requests'[r].status = "open" /\ r[2] = u
        BY DEF OpenRows
      <4> QED BY <1>1, <2>1, <3>5, <3>9, <4>1 DEF AnswersAll
    <3>7. ASSUME NEW u, NEW a \in ActiveRows(approvals, u)'
          PROVE  \/ a \in ActiveRows(approvals, u) /\ approvals'[a] = approvals[a]
                 \/ {q, approvals'[a].by} \in met
      <4>1. a \in DOMAIN approvals' /\ approvals'[a].active /\ a[2] = u
        BY <3>7 DEF ActiveRows
      <4>2. CASE /\ a \in DOMAIN approvals /\ approvals[a].active
                 /\ approvals'[a] = approvals[a]
        BY <4>1, <4>2 DEF ActiveRows
      <4>3. CASE approvals'[a].by = p
        BY <3>1, <4>3
      <4> QED BY <1>9, <4>1, <4>2, <4>3
    <3>8. WithdrawsAll(q, tx[q])'
      <4>2. ASSUME d.call.op = "request", NEW r \in DOMAIN d.requests \cap Own(q)
            PROVE  \/ /\ d.step = "withdraw" /\ r[2] = Head(d.targets)
                      /\ d.began =>
                            \A a \in ActiveRows(approvals, r[2])' \ (DOMAIN d.approvals \cup d.picked) :
                               {q, approvals'[a].by} \in met
                   \/ \A a \in ActiveRows(approvals, r[2])' \ DOMAIN d.approvals :
                         {q, approvals'[a].by} \in met
        <5>1. CASE \A a \in ActiveRows(approvals, r[2]) \ DOMAIN d.approvals :
                      {q, approvals[a].by} \in met
          BY <3>7, <5>1
        <5>2. CASE /\ d.step = "withdraw" /\ r[2] = Head(d.targets)
                   /\ d.began =>
                         \A a \in ActiveRows(approvals, r[2]) \ (DOMAIN d.approvals \cup d.picked) :
                            {q, approvals[a].by} \in met
          BY <3>7, <5>2
        <5> QED BY <2>1, <4>2, <5>1, <5>2 DEF PastOK, WithdrawsAll
      <4> QED BY <1>1, <2>1, <4>2 DEF WithdrawsAll, Own
    <3> QED BY <3>3, <3>4, <3>6, <3>8 DEF PastOK
  <2> QED BY <2>2, <2>3
<1>14. \A q \in Process : PastOK(q, tx[q])'
  BY <1>12, <1>13
<1> QED BY <1>10, <1>11, <1>14 DEF HInv

(* At the start a reviewer is asked or has signed off, and nobody is there. *)
LEMMA InitHistory ==
    ASSUME Init
    PROVE  HInv
<1>1. \A p \in Process : tx[p] = Blank(NoCall, "idle")
  BY DEF Init
<1> PICK t : t = Blank(NoCall, "idle")
  OBVIOUS
<1>2. t.step = "idle" /\ t.requests = NoRows /\ t.approvals = NoRows
  BY DEF Blank
<1>3. \A p \in Process : tx[p].step = "idle"
  BY <1>1, <1>2
<1>4. AllMet
  BY <1>3 DEF AllMet, Ended
<1>5. ASSUME NEW p \in Process PROVE PastOK(p, tx[p])
  BY <1>1, <1>2, NothingWritten DEF PastOK, WritesOwn, AnswersAll, WithdrawsAll, StillSo
<1>6. SkewOnlyFromOverlap
  <2>1. ASSUME NEW u \in Reviewer, NEW r \in OpenRows(requests, u),
               NEW a \in ActiveRows(approvals, u)
        PROVE  FALSE
    <3>1. DOMAIN requests \subseteq PastRow /\ DOMAIN approvals \subseteq PastRow
      BY DEF Init
    <3>2. OpenRows(requests, u) \subseteq PastRow /\ ActiveRows(approvals, u) \subseteq PastRow
      BY <3>1 DEF OpenRows, ActiveRows
    <3>3. IsFiniteSet(OpenRows(requests, u)) /\ IsFiniteSet(ActiveRows(approvals, u))
      BY <3>2, PastAssumption, FS_Subset
    <3>4. /\ Cardinality(OpenRows(requests, u)) \in Nat
          /\ Cardinality(OpenRows(requests, u)) # 0
      BY <3>3, FS_CardinalityType, FS_EmptySet
    <3>5. /\ Cardinality(ActiveRows(approvals, u)) \in Nat
          /\ Cardinality(ActiveRows(approvals, u)) # 0
      BY <3>3, FS_CardinalityType, FS_EmptySet
    <3>6. Cardinality(OpenRows(requests, u)) + Cardinality(ActiveRows(approvals, u)) <= 1
      BY DEF Init
    <3> QED BY <3>4, <3>5, <3>6
  <2> QED BY <2>1 DEF SkewOnlyFromOverlap
<1> QED BY <1>4, <1>5, <1>6 DEF HInv

LEMMA StutterHistory ==
    ASSUME HInv, UNCHANGED vars
    PROVE  HInv'
<1>1. requests' = requests /\ approvals' = approvals /\ met' = met /\ tx' = tx
  BY DEF vars
<1>2. AllMet' /\ SkewOnlyFromOverlap'
  BY <1>1 DEF HInv, AllMet, SkewOnlyFromOverlap, OpenRows, ActiveRows
<1>3. ASSUME NEW p \in Process PROVE PastOK(p, tx[p])'
  BY <1>1 DEF HInv, PastOK, WritesOwn, AnswersAll, WithdrawsAll, StillSo, Overtaken,
         OpenRows, ActiveRows, Over
<1> QED BY <1>2, <1>3 DEF HInv

LEMMA NextHistory ==
    ASSUME IInv, HInv, [Next]_vars
    PROVE  HInv'
<1>1. ASSUME NEW p \in Process, NEW call \in Call, Begin(p, call) PROVE HInv'
  BY <1>1, BeginHistory
<1>2. ASSUME NEW p \in Process, Statement(p) PROVE HInv'
  <2>1. CASE InsertApproval(p)
    BY <2>1, InsertApprovalHistory
  <2>2. CASE ReviveApproval(p)
    BY <2>2, ReviveApprovalHistory
  <2>3. CASE SatisfyRequests(p)
    BY <2>3, SatisfyRequestsHistory
  <2>4. CASE FindOpenRequest(p)
    BY <2>4, FindOpenRequestHistory
  <2>5. CASE UpgradeRequest(p)
    BY <2>5, UpgradeRequestHistory
  <2>6. CASE InsertRequest(p)
    BY <2>6, InsertRequestHistory
  <2>7. CASE WithdrawApproval(p)
    BY <2>7, WithdrawApprovalHistory
  <2>8. CASE CancelRequest(p)
    BY <2>8, CancelRequestHistory
  <2>9. CASE DismissApproval(p)
    BY <2>9, DismissApprovalHistory
  <2>10. CASE Commit(p)
    BY <2>10, CommitHistory
  <2>11. CASE DeadlockVictim(p)
    <3>1. Fail(p, "deadlock")
      BY <2>11 DEF DeadlockVictim
    <3>2. tx[p].step \notin Ended
      BY <2>11 DEF DeadlockVictim, Deadlocked, InFlight
    <3> QED BY <3>1, <3>2, FailHistory
  <2>12. CASE PickRows(p)
    BY <2>12, PickRowsHistory
  <2> QED BY <1>2, <2>1, <2>2, <2>3, <2>4, <2>5, <2>6, <2>7, <2>8, <2>9, <2>10, <2>11, <2>12
          DEF Statement
<1>3. CASE UNCHANGED vars
  BY <1>3, StutterHistory
<1> QED BY <1>1, <1>2, <1>3 DEF Next

(* The invariant with what it says of who was in flight with whom. *)
THEOREM History == Spec => [](IInv /\ HInv)
<1>1. Init => IInv /\ HInv
  BY InitInv, InitHistory
<1>2. IInv /\ HInv /\ [Next]_vars => (IInv /\ HInv)'
  BY NextStep, NextHistory
<1> QED BY <1>1, <1>2, PTL DEF Spec

(* A reviewer is asked and signed off at once only if the request and the   *)
(* approval were in flight together: requestReview withdraws every approval *)
(* committed before it looks, recordApproval answers every such request.    *)
THEOREM SkewNeedsOverlap == Spec => []SkewOnlyFromOverlap
<1>1. HInv => SkewOnlyFromOverlap
  BY DEF HInv
<1> QED BY <1>1, History, PTL

(* The unique indexes on open requests and active approvals refuse a call   *)
(* only for the rows of one it was in flight with, and which has committed. *)
THEOREM DuplicatesNeedOverlap == Spec => []DuplicatesOnlyFromOverlap
<1>1. ASSUME HInv PROVE DuplicatesOnlyFromOverlap
  <2>1. ASSUME NEW p \in Process, tx[p].step = "duplicate"
        PROVE  \E q \in Process : {p, q} \in met /\ p # q /\ tx[q].step = "done"
    <3>1. Overtaken(p)
      BY <1>1, <2>1 DEF HInv, PastOK, StillSo
    <3> QED BY <3>1 DEF Overtaken
  <2> QED BY <2>1 DEF DuplicatesOnlyFromOverlap
<1> QED BY <1>1, History, PTL

=============================================================================

---------------------------------- MODULE Ratings ----------------------------------
(***************************************************************************)
(* The ratings of one artifact (content_rating), statement by statement:   *)
(* recordRating, withdrawRating, and what eraseUser and deleteContent do   *)
(* to the same rows (server/src/services/review.ts), each call in its own  *)
(* transaction at READ COMMITTED.                                          *)
(*                                                                         *)
(* An update or delete first finds its rows among the committed ones; it   *)
(* waits for whoever holds one, and then writes those that still match.    *)
(* Unlike an upsert it never sees a row committed while it waited.  One    *)
(* statement takes all its rows at once.                                   *)
(***************************************************************************)
EXTENDS Naturals, FiniteSets

CONSTANTS
    Process,     \* concurrent calls: each one runs once
    Rater,
    Tombstone,   \* the identity erased raters share
    PastRow,     \* rows that may be there at the start
    NotYet,      \* a statement that has not looked for its rows
    MaxVersion   \* bound: registered versions

ASSUME RatingAssumption ==
    /\ Tombstone \notin Rater
    /\ PastRow \cap Process = {} /\ IsFiniteSet(PastRow)
    /\ NotYet \notin Process \cup PastRow
    /\ MaxVersion \in Nat

RowId == Process \cup PastRow    \* a call inserts at most one row
Version == 0 .. MaxVersion       \* 0: the artifact was not registered

Rating ==
    [ rater   : Rater \cup {Tombstone},
      version : Version,
      active  : BOOLEAN,      \* not superseded
      prose   : BOOLEAN,      \* pros and cons are kept
      by      : RowId ]       \* whose judgement it holds

CallShape ==
    [op : {"record", "withdraw", "erase"}, who : Rater] \cup [op : {"delete"}, who : {Tombstone}]

VARIABLES
    rows,      \* content_rating, as committed
    versions,  \* the registered versions there are
    newest,    \* the latest version ever registered
    tx,        \* what each call is doing
    order      \* history: <<p, q>> if p had ended when q began

vars == <<rows, versions, newest, tx, order>>

NoWrites == [id \in {} |-> NotYet]
NoCall == [op |-> "none", who |-> Tombstone]
Gone == [rater |-> Tombstone, version |-> 0, active |-> FALSE, prose |-> FALSE, by |-> NotYet]

Blank(call, step) ==
    [ call     |-> call,
      step     |-> step,       \* the next statement, or how the call ended
      version  |-> 0,          \* of recordRating: the version it read as the latest
      found    |-> NotYet,     \* the rows the statement found
      writes   |-> NoWrites,   \* rows written
      dropped  |-> {} ]        \* versions deleted

Ended == {"idle", "done", "duplicate", "refused"}
InFlight == {p \in Process : tx[p].step \notin Ended}

(* latestVersionId *)
LatestVersion ==
    IF versions = {} THEN 0 ELSE CHOOSE v \in versions : \A w \in versions : w <= v

(* A table with some of its rows rewritten, or with new ones. *)
Over(writes, table) ==
    [id \in DOMAIN writes \cup DOMAIN table |-> IF id \in DOMAIN writes THEN writes[id] ELSE table[id]]

Present(table) == {id \in DOMAIN table : table[id] # Gone}
Seen(p) == Over(tx[p].writes, rows)
Who(p) == tx[p].call.who

RatingsOf(table, u) == {id \in Present(table) : table[id].rater = u}
ActiveOf(table, u) == {id \in RatingsOf(table, u) : table[id].active}

(***************************************************************************)
(* Statements                                                              *)
(***************************************************************************)

(* The rows the where clause of the next statement names. *)
EditedLoosely(table, p) == {id \in RatingsOf(table, Who(p)) : table[id].version = tx[p].version}

Edited(table, p) == {id \in ActiveOf(table, Who(p)) : table[id].version = tx[p].version}

NoneClash(table, p) == {}

Clashing(table, p) ==
    IF ActiveOf(table, Tombstone) = {} THEN {} ELSE ActiveOf(table, Who(p))

ReassignActive(table, p) == ActiveOf(table, Who(p))

Reassigned(table, p) == RatingsOf(table, Who(p))

Wiped(table, p) == Present(table)

Named(table, p) ==
    CASE tx[p].step = "edit"                    -> Edited(table, p)
      [] tx[p].step \in {"supersede", "withdraw"} -> ActiveOf(table, Who(p))
      [] tx[p].step = "clash"                   -> Clashing(table, p)
      [] tx[p].step = "reassign"                -> Reassigned(table, p)
      [] tx[p].step = "wipe"                    -> Wiped(table, p)

Updates == {"edit", "supersede", "withdraw", "clash", "reassign", "wipe"}

Find(p) ==
    /\ tx[p].step \in Updates
    /\ tx[p].found = NotYet
    /\ tx' = [tx EXCEPT ![p].found = Named(Seen(p), p)]
    /\ UNCHANGED <<rows, versions, newest, order>>

(* Those found that the where clause still names once nobody holds them.    *)
(* (The clash is with a row of the tombstone's that was there at the start.) *)
ByIdAlone(p) == tx[p].found \cap Present(Seen(p))

StillNamed(p) ==
    LET table == Seen(p)
    IN  tx[p].found \cap (IF tx[p].step = "clash" THEN ActiveOf(table, Who(p)) ELSE Named(table, p))

Holders(p, ids) == {q \in Process \ {p} : DOMAIN tx[q].writes \cap ids # {}}

(* Calls whose uncommitted rows the unique index on active ratings would    *)
(* have to wait for, to let `u` have another.                                *)
Deciding(p, u) ==
    Holders(p, ActiveOf(rows, u)) \cup {q \in Process \ {p} : ActiveOf(tx[q].writes, u) # {}}

Refused(p, u) == ActiveOf(Seen(p), u) # {}

(* Calls that have inserted ratings of registered versions, uncommitted. *)
Inserting(p) ==
    {q \in Process \ {p} : \E id \in DOMAIN tx[q].writes \ DOMAIN rows : tx[q].writes[id].version # 0}

WaitsFor(p) ==
    CASE tx[p].step \in Updates ->
            Holders(p, tx[p].found)
              \cup (IF tx[p].step = "reassign" /\ StillNamed(p) \cap ActiveOf(Seen(p), Who(p)) # {}
                    THEN Deciding(p, Tombstone) ELSE {})
      [] tx[p].step = "insert" ->
            Deciding(p, Who(p))
              \cup {q \in Process \ {p} : tx[p].version \in tx[q].dropped}
      [] tx[p].step = "drop" -> Inserting(p)
      [] OTHER -> {}

At(p, step) == /\ tx[p].step = step
               /\ step \in Updates => tx[p].found # NotYet
               /\ WaitsFor(p) = {}

Write(p, writes, step) ==
    /\ tx' = [tx EXCEPT ![p].writes = Over(writes, tx[p].writes), ![p].found = NotYet, ![p].step = step]
    /\ UNCHANGED <<rows, versions, newest, order>>

Update(p, ids, row(_), step) == Write(p, [id \in ids |-> row(Seen(p)[id])], step)

FailAndHold(p, reason) ==
    /\ tx' = [tx EXCEPT ![p].step = reason]
    /\ UNCHANGED <<rows, versions, newest, order>>

Fail(p, reason) ==
    /\ tx' = [tx EXCEPT ![p] = Blank(@.call, reason)]
    /\ UNCHANGED <<rows, versions, newest, order>>

Commit(p) ==
    /\ At(p, "commit")
    /\ rows' = [id \in Present(Seen(p)) |-> Seen(p)[id]]
    /\ versions' = versions \ tx[p].dropped
    /\ tx' = [tx EXCEPT ![p] = Blank(@.call, "done")]
    /\ UNCHANGED <<newest, order>>

(***************************************************************************)
(* The calls                                                               *)
(***************************************************************************)
FirstStep(call) ==
    CASE call.op = "record"   -> "edit"
      [] call.op = "withdraw" -> "withdraw"
      [] call.op = "erase"    -> "clash"
      [] call.op = "delete"   -> "wipe"

(* recordRating reads the latest version before its transaction. *)
OldestVersion == IF versions = {} THEN 0 ELSE 1

RatedVersion == LatestVersion

Begin(p, call) ==
    /\ tx[p].step = "idle"
    /\ tx' = [tx EXCEPT ![p] = [Blank(call, FirstStep(call)) EXCEPT
                 !.version = IF call.op = "record" THEN RatedVersion ELSE 0]]
    /\ order' = order \cup {<<q, p>> : q \in {r \in Process : tx[r].step \in Ended \ {"idle"}}}
    /\ UNCHANGED <<rows, versions, newest>>

(* recordRating: a rating of the same version is edited in place, ... *)
EditRating(p) ==
    /\ At(p, "edit")
    /\ Update(p, StillNamed(p), LAMBDA row : [row EXCEPT !.by = p, !.prose = TRUE],
              IF StillNamed(p) = {} THEN "supersede" ELSE "commit")

(* ... and one of another version is superseded and followed by a new row. *)
SupersedeRating(p) ==
    /\ At(p, "supersede")
    /\ Update(p, StillNamed(p), LAMBDA row : [row EXCEPT !.active = FALSE], "insert")

InsertRating(p) ==
    /\ At(p, "insert")
    /\ IF Refused(p, Who(p)) THEN Fail(p, "duplicate")
       ELSE IF tx[p].version \notin versions \cup {0} THEN Fail(p, "refused")
       ELSE Write(p, [id \in {p} |-> [rater |-> Who(p), version |-> tx[p].version,
                                      active |-> TRUE, prose |-> TRUE, by |-> p]], "commit")

WithdrawRating(p) ==
    /\ At(p, "withdraw")
    /\ Update(p, StillNamed(p), LAMBDA row : [row EXCEPT !.active = FALSE], "commit")

(* eraseUser: a rating that would collide with the tombstone's is           *)
(* superseded, and all of them go to the tombstone without their prose.      *)
SupersedeClashing(p) ==
    /\ At(p, "clash")
    /\ Update(p, StillNamed(p), LAMBDA row : [row EXCEPT !.active = FALSE], "reassign")

ReassignRatings(p) ==
    /\ At(p, "reassign")
    /\ IF StillNamed(p) \cap ActiveOf(Seen(p), Who(p)) # {} /\ Refused(p, Tombstone)
       THEN Fail(p, "duplicate")
       ELSE Update(p, StillNamed(p),
                   LAMBDA row : [row EXCEPT !.rater = Tombstone, !.prose = FALSE], "commit")

(* deleteContent: the ratings, then the versions they refer to. *)
WipeRatings(p) ==
    /\ At(p, "wipe")
    /\ Update(p, StillNamed(p), LAMBDA row : Gone, "drop")

DropVersions(p) ==
    /\ At(p, "drop")
    /\ IF \E id \in Present(Seen(p)) : Seen(p)[id].version \in versions
       THEN Fail(p, "refused")
       ELSE /\ tx' = [tx EXCEPT ![p].dropped = versions, ![p].step = "commit"]
            /\ UNCHANGED <<rows, versions, newest, order>>

(* registerVersion, as far as a rating can tell. *)
RegisterVersion ==
    /\ newest < MaxVersion
    /\ newest' = newest + 1
    /\ versions' = versions \cup {newest + 1}
    /\ UNCHANGED <<rows, tx, order>>

(***************************************************************************)
(* Specification                                                           *)
(***************************************************************************)
Init ==
    /\ newest \in Version
    /\ versions = 1 .. newest
    /\ rows \in UNION {[ids -> [rater : Rater, version : 0 .. newest, active : BOOLEAN,
                                prose : {TRUE}, by : PastRow]] : ids \in SUBSET PastRow}
    /\ \A id \in DOMAIN rows : rows[id].by = id
    /\ \A u \in Rater : Cardinality(ActiveOf(rows, u)) <= 1
    /\ \A i, j \in DOMAIN rows :
          rows[i].rater = rows[j].rater /\ rows[i].active => rows[j].version <= rows[i].version
    /\ tx = [p \in Process |-> Blank(NoCall, "idle")]
    /\ order = {}

Next ==
    \/ RegisterVersion
    \/ \E p \in Process :
          \/ \E call \in CallShape : Begin(p, call)
          \/ Find(p) \/ Commit(p)
          \/ EditRating(p) \/ SupersedeRating(p) \/ InsertRating(p) \/ WithdrawRating(p)
          \/ SupersedeClashing(p) \/ ReassignRatings(p)
          \/ WipeRatings(p) \/ DropVersions(p)

Spec == Init /\ [][Next]_vars

(***************************************************************************)
(* Properties                                                              *)
(***************************************************************************)

(* Committed rows are ratings, the unique index holds, and a call that has  *)
(* ended holds nothing.                                                     *)
TypeOK ==
    /\ DOMAIN rows \subseteq RowId
    /\ \A id \in DOMAIN rows : rows[id] \in Rating
    /\ \A u \in Rater \cup {Tombstone} : Cardinality(ActiveOf(rows, u)) <= 1
    /\ versions \subseteq 1 .. newest /\ newest \in Version
    /\ \A p \in Process \ InFlight : tx[p] = Blank(tx[p].call, tx[p].step)

Overlapped(p, q) ==
    p \in Process /\ q \in Process /\ p # q /\ <<p, q>> \notin order /\ <<q, p>> \notin order

(* The earlier (version, score) pairs stay: a superseded rating is never    *)
(* edited or revived, not even by a call that found it while it was active. *)
(* Erasure alone takes its author and prose.                                *)
HistoryKept ==
    [][\A id \in DOMAIN rows \cap DOMAIN rows' : ~rows[id].active =>
          rows'[id] \in {rows[id], [rows[id] EXCEPT !.rater = Tombstone, !.prose = FALSE]}]_vars

(* A rater's active rating is of an older version than one they gave before *)
(* only if the two calls were in flight together: recordRating takes the    *)
(* latest version before its transaction.                                   *)
OlderRatingOnlyFromOverlap ==
    \A u \in Rater : \A r \in ActiveOf(rows, u), s \in RatingsOf(rows, u) :
        rows[s].version > rows[r].version => Overlapped(rows[r].by, rows[s].by)

(* No prose survives under the tombstone's name, although a rating may be   *)
(* edited while its rater is being erased.                                  *)
ErasedProseIsGone == \A id \in RatingsOf(rows, Tombstone) : ~rows[id].prose

(* What the database still has of an erased rater, or of a deleted artifact, *)
(* was written by a call that had not ended when the erasure began.          *)
RemovedIsGone ==
    \A p \in Process, id \in DOMAIN rows :
        /\ tx[p].step = "done"
        /\ \/ tx[p].call.op = "erase" /\ rows[id].rater = Who(p)
           \/ tx[p].call.op = "delete"
        => rows[id].by \in Process /\ <<rows[id].by, p>> \notin order

(* A call is refused only for a row another call wrote while it ran: two    *)
(* people erased one after the other never collide on the shared identity,  *)
(* and content deleted while nobody works on it is deleted.                 *)
RefusedOnlyByOverlap ==
    \A p \in Process : tx[p].step \in {"duplicate", "refused"} =>
        \E q \in Process : Overlapped(p, q) /\ tx[q].step = "done"
=============================================================================

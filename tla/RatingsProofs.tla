------------------------------ MODULE RatingsProofs ------------------------------
(***************************************************************************)
(* What the statements on content_rating guarantee whatever their order:   *)
(* proved for any number of calls, raters, past rows and versions.         *)
(***************************************************************************)
EXTENDS Ratings, FiniteSetTheorems, WellFoundedInduction, TLAPS

Clean == {r \in Rating : r.rater = Tombstone => ~r.prose}
Table(S) == UNION {[ids -> S] : ids \in SUBSET RowId}

(* Statements that act on behalf of a rater. *)
Personal == {"edit", "supersede", "insert", "withdraw", "clash", "reassign"}

(***************************************************************************)
(* The invariant                                                           *)
(***************************************************************************)

Step == Updates \cup {"insert", "drop", "commit"} \cup Ended

Tx ==
    [ call    : CallShape \cup {NoCall},
      step    : Step,
      version : Version,
      found   : (SUBSET RowId) \cup {NotYet},
      writes  : Table(Clean \cup {Gone}),
      dropped : SUBSET Version ]

TxOK == tx \in [Process -> Tx]

StepsFit ==
    \A p \in Process :
        /\ tx[p].step \in Personal => Who(p) \in Rater
        /\ tx[p].step \in Ended => tx[p] = Blank(tx[p].call, tx[p].step)
        /\ tx[p].step \in {"idle"} \cup Updates \cup {"insert"} => p \notin DOMAIN rows

RowsOK ==
    /\ rows \in Table(Clean)
    /\ versions \subseteq 1 .. newest /\ newest \in Version

(* A call holds rows nobody else holds: committed ones, and the one it inserts. *)
WritesOK ==
    \A p \in Process :
        /\ DOMAIN tx[p].writes \subseteq DOMAIN rows \cup {p}
        /\ \A q \in Process \ {p} : DOMAIN tx[p].writes \cap DOMAIN tx[q].writes = {}

(* A superseded rating is held only to stay, to lose its author or to go. *)
Anonymous(row) == [row EXCEPT !.rater = Tombstone, !.prose = FALSE]

Kept(row) == {row, Anonymous(row), Gone}

SupersededKept ==
    \A p \in Process : \A id \in DOMAIN tx[p].writes \cap DOMAIN rows :
        ~rows[id].active => tx[p].writes[id] \in Kept(rows[id])

(* Nobody has two active ratings, neither in the table nor in what a call   *)
(* sees, and no two calls are about to give somebody one each.              *)
Rival(row, other) == row.active /\ other.active /\ row.rater = other.rater

OneActive(table) == \A i, j \in DOMAIN table : Rival(table[i], table[j]) => i = j

ActiveUnique ==
    /\ OneActive(rows)
    /\ \A p \in Process : OneActive(Seen(p))
    /\ \A p \in Process : \A q \in Process \ {p} :
          \A i \in DOMAIN tx[p].writes, j \in DOMAIN tx[q].writes :
              ~Rival(tx[p].writes[i], tx[q].writes[j])

IInv ==
    /\ TxOK
    /\ StepsFit
    /\ RowsOK
    /\ WritesOK
    /\ SupersededKept
    /\ ActiveUnique

(***************************************************************************)
(* Tables                                                                  *)
(***************************************************************************)

(* A table of the right type is a function on rows that has its values there. *)
LEMMA TableType ==
    ASSUME NEW S, NEW f
    PROVE  f \in Table(S) <=>
              /\ f = [id \in DOMAIN f |-> f[id]]
              /\ DOMAIN f \subseteq RowId
              /\ \A id \in DOMAIN f : f[id] \in S
BY DEF Table

(* What rewriting rows gives. *)
LEMMA OverValues ==
    \A f, g :
        /\ DOMAIN Over(f, g) = DOMAIN f \cup DOMAIN g
        /\ \A id \in DOMAIN f : Over(f, g)[id] = f[id]
        /\ \A id \in DOMAIN g \ DOMAIN f : Over(f, g)[id] = g[id]
BY DEF Over

(* Rewriting rows keeps the type. *)
LEMMA OverType ==
    ASSUME NEW S, NEW f \in Table(S), NEW g \in Table(S)
    PROVE  Over(f, g) \in Table(S)
BY TableType DEF Over

(* A deleted row is nobody's active rating. *)
LEMMA ActiveRows ==
    ASSUME NEW table, NEW u, NEW id
    PROVE  id \in ActiveOf(table, u)
              <=> id \in DOMAIN table /\ table[id].rater = u /\ table[id].active
BY DEF ActiveOf, RatingsOf, Present, Gone

(* At most one active rating, counted. *)
LEMMA OneIsUnique ==
    ASSUME NEW table, OneActive(table), NEW u
    PROVE  Cardinality(ActiveOf(table, u)) <= 1
<1>1. CASE ActiveOf(table, u) = {}
  BY <1>1, FS_EmptySet
<1>2. CASE ActiveOf(table, u) # {}
  <2>1. PICK id : id \in ActiveOf(table, u)
    BY <1>2
  <2>2. ActiveOf(table, u) = {id}
    BY <2>1, ActiveRows DEF OneActive, Rival
  <2> QED BY <2>2, FS_Singleton
<1> QED BY <1>1, <1>2

(* The same the other way round, for a finite table. *)
LEMMA UniqueIsOne ==
    ASSUME NEW table, IsFiniteSet(DOMAIN table),
           \A id \in DOMAIN table : Cardinality(ActiveOf(table, table[id].rater)) <= 1
    PROVE  OneActive(table)
<1> SUFFICES ASSUME NEW i \in DOMAIN table, NEW j \in DOMAIN table,
                    Rival(table[i], table[j]), i # j
             PROVE FALSE
  BY DEF OneActive
<1> DEFINE S == ActiveOf(table, table[i].rater)
<1>1. i \in S /\ j \in S
  BY ActiveRows DEF Rival
<1>2. S \subseteq DOMAIN table
  BY DEF ActiveOf, RatingsOf, Present
<1>3. IsFiniteSet(S)
  BY <1>2, FS_Subset
<1>4. Cardinality(S) = 0 \/ Cardinality(S) = 1
  BY <1>3, FS_CardinalityType
<1> QED BY <1>1, <1>3, <1>4, FS_EmptySet, FS_Singleton

(***************************************************************************)
(* Writes                                                                  *)
(***************************************************************************)

(* Writing changes one call's transaction. *)
LEMMA WriteFields ==
    ASSUME TxOK, NEW p \in Process, NEW w \in Table(Clean \cup {Gone}), NEW step \in Step,
           Write(p, w, step)
    PROVE  /\ TxOK'
           /\ tx'[p].call = tx[p].call /\ tx'[p].step = step /\ tx'[p].found = NotYet
           /\ tx'[p].writes = Over(w, tx[p].writes)
           /\ \A q \in Process \ {p} : tx'[q] = tx[q]
           /\ rows' = rows /\ versions' = versions /\ newest' = newest
<1> DEFINE t == [ call |-> tx[p].call, step |-> step, version |-> tx[p].version, found |-> NotYet,
                  writes |-> Over(w, tx[p].writes), dropped |-> tx[p].dropped ]
<1>1. tx[p] \in Tx
  BY DEF TxOK
<1>2. Over(w, tx[p].writes) \in Table(Clean \cup {Gone})
  BY <1>1, OverType DEF Tx
<1>3. t \in Tx
  BY <1>1, <1>2 DEF Tx
<1>4. [tx[p] EXCEPT !.writes = Over(w, tx[p].writes), !.found = NotYet, !.step = step] = t
  <2> DEFINE a == [tx[p] EXCEPT !.writes = Over(w, tx[p].writes)]
             b == [a EXCEPT !.found = NotYet]
  <2>1. a = [ call |-> tx[p].call, step |-> tx[p].step, version |-> tx[p].version,
              found |-> tx[p].found, writes |-> Over(w, tx[p].writes), dropped |-> tx[p].dropped ]
    BY <1>1 DEF Tx
  <2> HIDE DEF a
  <2>2. b = [ call |-> tx[p].call, step |-> tx[p].step, version |-> tx[p].version,
              found |-> NotYet, writes |-> Over(w, tx[p].writes), dropped |-> tx[p].dropped ]
    BY <2>1
  <2> HIDE DEF b
  <2>3. [b EXCEPT !.step = step] = t
    BY <2>2
  <2> QED BY <2>3 DEF a, b
<1>5. tx' = [tx EXCEPT ![p] = t]
  BY <1>4 DEF Write
<1>6. /\ t.call = tx[p].call /\ t.step = step /\ t.found = NotYet
      /\ t.writes = Over(w, tx[p].writes)
  OBVIOUS
<1> HIDE DEF t
<1> QED BY <1>3, <1>5, <1>6 DEF Write, TxOK

(* What a write has to be for the invariant to hold of it: rows of its type *)
(* that nobody else holds, superseded ratings left alone, and no second     *)
(* active rating for anybody.                                               *)
Sound(p, w) ==
    /\ w \in Table(Clean \cup {Gone})
    /\ DOMAIN w \subseteq DOMAIN rows \cup {p}
    /\ \A q \in Process \ {p} : DOMAIN w \cap DOMAIN tx[q].writes = {}
    /\ \A id \in DOMAIN w \cap DOMAIN rows : ~rows[id].active => w[id] \in Kept(rows[id])
    /\ OneActive(Over(w, Seen(p)))
    /\ \A q \in Process \ {p} : \A i \in DOMAIN w, j \in DOMAIN tx[q].writes :
          ~Rival(w[i], tx[q].writes[j])

LEMMA WriteStep ==
    ASSUME IInv, NEW p \in Process, NEW w, NEW step, Write(p, w, step), Sound(p, w),
           step \in {"commit", "drop"} \/ (step \in Personal /\ tx[p].step \in Personal)
    PROVE  IInv'
<1>1. /\ TxOK'
      /\ tx'[p].call = tx[p].call /\ tx'[p].step = step /\ tx'[p].found = NotYet
      /\ tx'[p].writes = Over(w, tx[p].writes)
      /\ \A q \in Process \ {p} : tx'[q] = tx[q]
      /\ rows' = rows /\ versions' = versions /\ newest' = newest
  <2>1. step \in Step
    BY DEF Step, Personal, Updates
  <2> QED BY <2>1, WriteFields DEF IInv, Sound
<1>2. StepsFit'
  BY <1>1 DEF IInv, StepsFit, Who, Ended, Updates, Personal
<1>3. RowsOK'
  BY <1>1 DEF IInv, RowsOK
<1>4. DOMAIN tx'[p].writes = DOMAIN w \cup DOMAIN tx[p].writes
  BY <1>1, OverValues
<1>5. /\ \A id \in DOMAIN w : tx'[p].writes[id] = w[id]
      /\ \A id \in DOMAIN tx[p].writes \ DOMAIN w : tx'[p].writes[id] = tx[p].writes[id]
  BY <1>1, OverValues
<1>6. WritesOK'
  BY <1>1, <1>4 DEF Sound, IInv, WritesOK
<1>7. SupersededKept'
  <2>1. ASSUME NEW id \in DOMAIN tx'[p].writes \cap DOMAIN rows, ~rows[id].active
        PROVE  tx'[p].writes[id] \in Kept(rows[id])
    BY <1>4, <1>5, <2>1 DEF Sound, IInv, SupersededKept
  <2> QED BY <1>1, <2>1 DEF IInv, SupersededKept, Kept, Anonymous
<1>8. ActiveUnique'
  <2>1. Over(tx'[p].writes, rows) = Over(w, Seen(p))
    BY <1>1 DEF Over, Seen
  <2>2. \A q \in Process : OneActive(Over(tx'[q].writes, rows))
    BY <1>1, <2>1 DEF Sound, IInv, ActiveUnique, Seen
  <2>3. ASSUME NEW q \in Process \ {p}, NEW i \in DOMAIN tx'[p].writes,
               NEW j \in DOMAIN tx[q].writes
        PROVE  ~Rival(tx'[p].writes[i], tx[q].writes[j])
    BY <1>4, <1>5 DEF Sound, IInv, ActiveUnique
  <2>4. ASSUME NEW q \in Process, NEW r \in Process \ {q},
               NEW i \in DOMAIN tx'[q].writes, NEW j \in DOMAIN tx'[r].writes
        PROVE  ~Rival(tx'[q].writes[i], tx'[r].writes[j])
    <3>1. CASE q = p
      BY <1>1, <2>3, <3>1
    <3>2. CASE r = p
      BY <1>1, <2>3, <3>2 DEF Rival
    <3>3. CASE q # p /\ r # p
      BY <1>1, <3>3 DEF IInv, ActiveUnique
    <3> QED BY <3>1, <3>2, <3>3
  <2> QED BY <1>1, <2>2, <2>4 DEF IInv, ActiveUnique, OneActive, Seen, Rival
<1> QED BY <1>1, <1>2, <1>3, <1>6, <1>7, <1>8 DEF IInv

(* What a call sees: what it has written, and the table. *)
LEMMA SeenRows ==
    ASSUME IInv, NEW p \in Process
    PROVE  /\ Seen(p) \in Table(Clean \cup {Gone})
           /\ DOMAIN Seen(p) = DOMAIN tx[p].writes \cup DOMAIN rows
           /\ \A id \in DOMAIN tx[p].writes : Seen(p)[id] = tx[p].writes[id]
           /\ \A id \in DOMAIN rows \ DOMAIN tx[p].writes : Seen(p)[id] = rows[id]
<1>1. rows \in Table(Clean \cup {Gone}) /\ tx[p].writes \in Table(Clean \cup {Gone})
  BY TableType DEF IInv, RowsOK, TxOK, Tx
<1>2. Seen(p) \in Table(Clean \cup {Gone})
  BY <1>1, OverType DEF Seen
<1> HIDE DEF Seen
<1>3. Seen(p) = Over(tx[p].writes, rows)
  BY DEF Seen
<1>4. DOMAIN Seen(p) = DOMAIN tx[p].writes \cup DOMAIN rows
  BY <1>3, OverValues
<1>5. \A id \in DOMAIN tx[p].writes : Seen(p)[id] = tx[p].writes[id]
  BY <1>3, OverValues
<1>6. \A id \in DOMAIN rows \ DOMAIN tx[p].writes : Seen(p)[id] = rows[id]
  BY <1>3, OverValues
<1> QED BY <1>2, <1>4, <1>5, <1>6

(* What a call has done to a superseded rating is to keep it. *)
LEMMA SeenKept ==
    ASSUME IInv, NEW p \in Process, NEW id \in DOMAIN rows, ~rows[id].active
    PROVE  Seen(p)[id] \in Kept(rows[id]) /\ ~Seen(p)[id].active
<1>1. Seen(p)[id] \in Kept(rows[id])
  BY SeenRows DEF IInv, SupersededKept, Kept
<1>2. rows[id] \in Rating
  BY TableType DEF IInv, RowsOK, Clean
<1>3. Anonymous(rows[id]).active = rows[id].active
  BY <1>2 DEF Anonymous, Rating
<1> QED BY <1>1, <1>3 DEF Kept, Gone

(* A statement that may run writes rows nobody else holds. *)
LEMMA FreeRows ==
    ASSUME IInv, NEW p \in Process, tx[p].step \in Updates, WaitsFor(p) = {}
    PROVE  /\ \A q \in Process \ {p} : StillNamed(p) \cap DOMAIN tx[q].writes = {}
           /\ StillNamed(p) \subseteq DOMAIN Seen(p)
           /\ StillNamed(p) \subseteq DOMAIN rows \cup {p}
           /\ \A id \in StillNamed(p) : Seen(p)[id] \in Clean
<1>1. Holders(p, tx[p].found) = {}
  BY DEF WaitsFor, Updates
<1>2. \A q \in Process \ {p} : StillNamed(p) \cap DOMAIN tx[q].writes = {}
  BY <1>1 DEF Holders, StillNamed
<1>3. StillNamed(p) \subseteq Present(Seen(p))
  BY DEF StillNamed, Named, Updates, Edited, ActiveOf, RatingsOf, Clashing, Reassigned, Wiped
<1>4. DOMAIN Seen(p) \subseteq DOMAIN rows \cup {p}
  BY SeenRows DEF IInv, WritesOK
<1>5. \A id \in DOMAIN Seen(p) : Seen(p)[id] \in Clean \cup {Gone}
  BY SeenRows, TableType
<1> QED BY <1>2, <1>3, <1>4, <1>5 DEF Present

(* An update that makes no row active and moves no active one to another    *)
(* rater is sound.                                                          *)
LEMMA KeepingIsSound ==
    ASSUME IInv, NEW p \in Process, tx[p].step \in Updates, WaitsFor(p) = {},
           NEW w, DOMAIN w = StillNamed(p), w \in Table(Clean \cup {Gone}),
           \A id \in DOMAIN w :
               /\ w[id].active => Seen(p)[id].active /\ w[id].rater = Seen(p)[id].rater
               /\ id \in DOMAIN rows /\ ~rows[id].active => w[id] \in Kept(rows[id])
    PROVE  Sound(p, w)
<1>1. /\ \A q \in Process \ {p} : DOMAIN w \cap DOMAIN tx[q].writes = {}
      /\ DOMAIN w \subseteq DOMAIN rows \cup {p}
      /\ DOMAIN w \subseteq DOMAIN Seen(p)
  BY FreeRows
<1>2. OneActive(Over(w, Seen(p)))
  <2>1. OneActive(Seen(p))
    BY DEF IInv, ActiveUnique
  <2>2. DOMAIN Over(w, Seen(p)) = DOMAIN Seen(p)
    BY <1>1, OverValues
  <2>3. ASSUME NEW i \in DOMAIN Seen(p), Over(w, Seen(p))[i].active
        PROVE  Seen(p)[i].active /\ Over(w, Seen(p))[i].rater = Seen(p)[i].rater
    BY <2>3, OverValues
  <2> QED BY <2>1, <2>2, <2>3 DEF OneActive, Rival
<1>3. ASSUME NEW q \in Process \ {p}, NEW i \in DOMAIN w, NEW j \in DOMAIN tx[q].writes,
             Rival(w[i], tx[q].writes[j])
      PROVE FALSE
  <2>1. Rival(Seen(p)[i], tx[q].writes[j])
    BY <1>3 DEF Rival
  <2>2. i \notin DOMAIN tx[p].writes
    BY <1>3, <2>1, SeenRows DEF IInv, ActiveUnique
  <2>3. i \in DOMAIN rows /\ Seen(p)[i] = rows[i]
    BY <1>1, <1>3, <2>2, SeenRows
  <2>4. i \notin DOMAIN tx[q].writes
    BY <1>1, <1>3
  <2>5. /\ i \in DOMAIN Seen(q) /\ Seen(q)[i] = rows[i]
        /\ j \in DOMAIN Seen(q) /\ Seen(q)[j] = tx[q].writes[j]
    BY <1>3, <2>3, <2>4, SeenRows
  <2>6. i = j
    BY <1>3, <2>1, <2>3, <2>5 DEF IInv, ActiveUnique, OneActive
  <2> QED BY <1>3, <2>4, <2>6
<1> QED BY <1>1, <1>2, <1>3 DEF Sound

(***************************************************************************)
(* Steps that write no row                                                 *)
(***************************************************************************)

(* A call that has written nothing sees the table. *)
LEMMA NothingWritten ==
    /\ NoWrites \in Table(Clean \cup {Gone}) /\ DOMAIN NoWrites = {}
    /\ \A table : OneActive(table) => OneActive(Over(NoWrites, table))
<1>1. NoWrites \in Table(Clean \cup {Gone}) /\ DOMAIN NoWrites = {}
  BY TableType DEF NoWrites
<1>2. \A table : DOMAIN Over(NoWrites, table) = DOMAIN table
                  /\ \A id \in DOMAIN table : Over(NoWrites, table)[id] = table[id]
  <2> TAKE table
  <2>1. DOMAIN Over(NoWrites, table) = DOMAIN NoWrites \cup DOMAIN table
        /\ \A id \in DOMAIN table \ DOMAIN NoWrites : Over(NoWrites, table)[id] = table[id]
    BY DEF Over
  <2> QED BY <1>1, <2>1
<1> QED BY <1>1, <1>2 DEF OneActive

(* A blank transaction is one. *)
LEMMA BlankType ==
    ASSUME NEW call \in CallShape \cup {NoCall}, NEW step \in Step
    PROVE  Blank(call, step) \in Tx
<1>1. 0 \in Version
  BY RatingAssumption DEF Version
<1> QED BY <1>1, NothingWritten DEF Blank, Tx

(* A call goes on without writing, or gives up what it has written. *)
LEMMA TurnStep ==
    ASSUME IInv, NEW p \in Process, NEW t \in Tx, tx' = [tx EXCEPT ![p] = t],
           rows' = rows, versions' = versions, newest' = newest,
           t.writes = tx[p].writes \/ t.writes = NoWrites,
           t.step \in Personal => t.call.who \in Rater,
           t.step \in Ended => t = Blank(t.call, t.step),
           t.step \in {"idle"} \cup Updates \cup {"insert"} => p \notin DOMAIN rows
    PROVE  IInv'
<1>1. /\ TxOK'
      /\ tx'[p] = t
      /\ \A q \in Process \ {p} : tx'[q] = tx[q]
  BY DEF IInv, TxOK
<1>2. StepsFit'
  BY <1>1 DEF IInv, StepsFit, Who
<1>3. RowsOK'
  BY DEF IInv, RowsOK
<1>4. \A q \in Process : tx'[q].writes = tx[q].writes \/ tx'[q].writes = NoWrites
  BY <1>1
<1>5. WritesOK'
  BY <1>4, NothingWritten DEF IInv, WritesOK
<1>6. SupersededKept'
  BY <1>4, NothingWritten DEF IInv, SupersededKept, Kept, Anonymous
<1>7. ActiveUnique'
  <2>1. \A q \in Process : OneActive(Over(tx'[q].writes, rows))
    BY <1>4, NothingWritten DEF IInv, ActiveUnique, Seen
  <2>2. ASSUME NEW q \in Process, NEW r \in Process \ {q},
               NEW i \in DOMAIN tx'[q].writes, NEW j \in DOMAIN tx'[r].writes
        PROVE  ~Rival(tx'[q].writes[i], tx'[r].writes[j])
    BY <1>4, NothingWritten DEF IInv, ActiveUnique
  <2> QED BY <2>1, <2>2 DEF IInv, ActiveUnique, OneActive, Seen, Rival
<1> QED BY <1>1, <1>2, <1>3, <1>5, <1>6, <1>7 DEF IInv

(* A failed call leaves nothing. *)
LEMMA FailStep ==
    ASSUME IInv, NEW p \in Process, NEW reason \in {"duplicate", "refused"}, Fail(p, reason)
    PROVE  IInv'
<1> DEFINE t == Blank(tx[p].call, reason)
<1>1. t \in Tx
  BY BlankType DEF IInv, TxOK, Tx, Step, Ended
<1>2. t.step = reason /\ t.call = tx[p].call /\ t.writes = NoWrites
  BY DEF Blank
<1>3. tx' = [tx EXCEPT ![p] = t] /\ rows' = rows /\ versions' = versions /\ newest' = newest
  BY DEF Fail
<1> HIDE DEF t
<1>4. t = Blank(t.call, t.step)
  BY <1>2 DEF t
<1> QED BY <1>1, <1>2, <1>3, <1>4, TurnStep DEF Personal, Updates

(* A statement looks for its rows. *)
LEMMA FindStep ==
    ASSUME IInv, NEW p \in Process, Find(p)
    PROVE  IInv'
<1> DEFINE t == [tx[p] EXCEPT !.found = Named(Seen(p), p)]
<1>1. tx[p] \in Tx /\ tx[p].step \in Updates
  BY DEF IInv, TxOK, Find
<1>2. Named(Seen(p), p) \in SUBSET RowId
  <2>1. DOMAIN Seen(p) \subseteq RowId
    BY SeenRows, TableType
  <2>2. Named(Seen(p), p) \subseteq DOMAIN Seen(p)
    BY <1>1 DEF Named, Updates, Edited, ActiveOf, RatingsOf, Clashing, Reassigned, Wiped, Present
  <2> QED BY <2>1, <2>2
<1>3. t \in Tx /\ t.writes = tx[p].writes /\ t.step = tx[p].step /\ t.call = tx[p].call
  BY <1>1, <1>2 DEF Tx
<1>4. tx' = [tx EXCEPT ![p] = t] /\ rows' = rows /\ versions' = versions /\ newest' = newest
  BY DEF Find
<1> HIDE DEF t
<1>5. t.step \notin Ended
  BY <1>1, <1>3 DEF Ended, Updates
<1>6. t.step \in Personal => t.call.who \in Rater
  BY <1>3 DEF IInv, StepsFit, Who
<1>7. p \notin DOMAIN rows
  BY <1>1 DEF IInv, StepsFit
<1> QED BY <1>3, <1>4, <1>5, <1>6, <1>7, TurnStep

(* A deletion drops the versions. *)
LEMMA DropStep ==
    ASSUME IInv, NEW p \in Process, DropVersions(p)
    PROVE  IInv'
<1>1. CASE Fail(p, "refused")
  BY <1>1, FailStep
<1>2. CASE ~Fail(p, "refused")
  <2> DEFINE t == [tx[p] EXCEPT !.dropped = versions, !.step = "commit"]
  <2>1. tx' = [tx EXCEPT ![p].dropped = versions, ![p].step = "commit"]
        /\ rows' = rows /\ versions' = versions /\ newest' = newest
    BY <1>2 DEF DropVersions
  <2>2. tx[p] \in Tx /\ versions \in SUBSET Version
    BY RatingAssumption DEF IInv, TxOK, RowsOK, Version
  <2>3. t \in Tx /\ t.writes = tx[p].writes /\ t.step = "commit"
    BY <2>2 DEF Tx, Step
  <2>4. tx' = [tx EXCEPT ![p] = t]
    BY <2>1
  <2> HIDE DEF t
  <2> QED BY <2>1, <2>3, <2>4, TurnStep DEF Personal, Ended, Updates
<1> QED BY <1>1, <1>2

(* Commit: the table is what the call saw. *)
LEMMA CommitStep ==
    ASSUME IInv, NEW p \in Process, Commit(p)
    PROVE  /\ IInv'
           /\ \A id \in DOMAIN rows \cap DOMAIN rows' : rows'[id] = Seen(p)[id]
<1> DEFINE t == Blank(tx[p].call, "done")
<1>1. /\ tx' = [tx EXCEPT ![p] = t]
      /\ rows' = [id \in Present(Seen(p)) |-> Seen(p)[id]]
      /\ versions' = versions \ tx[p].dropped /\ newest' = newest
  BY DEF Commit
<1>2. t \in Tx /\ t.call = tx[p].call /\ t.step = "done" /\ t.writes = NoWrites
  <2>1. tx[p].call \in CallShape \cup {NoCall} /\ "done" \in Step
    BY DEF IInv, TxOK, Tx, Step, Ended
  <2>2. t \in Tx
    BY <2>1, BlankType
  <2> QED BY <2>2 DEF Blank
<1>3. t = Blank(t.call, t.step)
  BY <1>2
<1> HIDE DEF t
<1>4. TxOK' /\ tx'[p] = t /\ \A q \in Process \ {p} : tx'[q] = tx[q]
  BY <1>1, <1>2 DEF IInv, TxOK
<1>5. DOMAIN rows' = Present(Seen(p)) /\ \A id \in DOMAIN rows' : rows'[id] = Seen(p)[id]
  BY <1>1
<1>6. DOMAIN rows' \subseteq DOMAIN tx[p].writes \cup DOMAIN rows
  BY <1>5, SeenRows DEF Present
<1>7. \A id \in DOMAIN rows \ DOMAIN tx[p].writes : id \in DOMAIN rows' /\ rows'[id] = rows[id]
  <2> SUFFICES ASSUME NEW id \in DOMAIN rows \ DOMAIN tx[p].writes
               PROVE  id \in DOMAIN rows' /\ rows'[id] = rows[id]
    OBVIOUS
  <2>1. Seen(p)[id] = rows[id] /\ id \in DOMAIN Seen(p)
    BY SeenRows
  <2>2. rows[id] \in Clean
    BY TableType DEF IInv, RowsOK
  <2>3. rows[id] # Gone
    BY <2>2, RatingAssumption DEF Clean, Rating, Gone, RowId
  <2> QED BY <1>5, <2>1, <2>3 DEF Present
<1>8. RowsOK'
  <2>1. DOMAIN Seen(p) \subseteq RowId
        /\ \A id \in DOMAIN Seen(p) : Seen(p)[id] \in Clean \cup {Gone}
    BY SeenRows, TableType
  <2>2. DOMAIN rows' \subseteq RowId /\ \A id \in DOMAIN rows' : rows'[id] \in Clean
    BY <1>5, <2>1 DEF Present
  <2>3. rows' = [id \in DOMAIN rows' |-> rows'[id]]
    BY <1>1
  <2>4. rows' \in Table(Clean)
    BY <2>2, <2>3, TableType
  <2> QED BY <1>1, <2>4 DEF IInv, RowsOK
<1>9. StepsFit'
  <2>1. \A q \in Process \ {p} : q \in DOMAIN rows' => q \in DOMAIN rows
    BY <1>6 DEF IInv, WritesOK
  <2> QED BY <1>2, <1>3, <1>4, <2>1 DEF IInv, StepsFit, Who, Ended, Personal, Updates
<1>10. \A q \in Process \ {p} : /\ tx'[q].writes = tx[q].writes
                                 /\ DOMAIN tx[q].writes \cap DOMAIN tx[p].writes = {}
  BY <1>4 DEF IInv, WritesOK
<1>11. DOMAIN tx'[p].writes = {}
  BY <1>2, <1>4, NothingWritten
<1>12. WritesOK'
  <2>1. ASSUME NEW q \in Process \ {p}
        PROVE  DOMAIN tx[q].writes \subseteq DOMAIN rows' \cup {q}
    BY <1>7, <1>10 DEF IInv, WritesOK
  <2> QED BY <1>4, <1>10, <1>11, <2>1 DEF IInv, WritesOK
<1>13. SupersededKept'
  <2>1. ASSUME NEW q \in Process \ {p}, NEW id \in DOMAIN tx[q].writes \cap DOMAIN rows'
        PROVE  id \in DOMAIN rows /\ rows'[id] = rows[id]
    BY <1>6, <1>7, <1>10
  <2>2. ASSUME NEW q \in Process \ {p}, NEW id \in DOMAIN tx[q].writes \cap DOMAIN rows',
               ~rows'[id].active
        PROVE  tx[q].writes[id] \in Kept(rows'[id])
    BY <2>1, <2>2 DEF IInv, SupersededKept
  <2> QED BY <1>10, <1>11, <2>2 DEF IInv, SupersededKept, Kept, Anonymous
<1>14. OneActive(rows')
  <2>1. OneActive(Seen(p))
    BY DEF IInv, ActiveUnique
  <2> QED BY <1>5, <2>1 DEF OneActive, Present
<1>15. ASSUME NEW q \in Process \ {p} PROVE OneActive(Over(tx[q].writes, rows'))
  <2> DEFINE now == Over(tx[q].writes, rows')
  <2>1. /\ DOMAIN now = DOMAIN tx[q].writes \cup DOMAIN rows'
        /\ \A id \in DOMAIN tx[q].writes : now[id] = tx[q].writes[id]
        /\ \A id \in DOMAIN rows' \ DOMAIN tx[q].writes : now[id] = rows'[id]
    BY DEF Over
  <2>2. OneActive(Seen(q))
    BY DEF IInv, ActiveUnique
  <2>3. ASSUME NEW i \in DOMAIN tx[q].writes, NEW j \in DOMAIN rows' \ DOMAIN tx[q].writes
        PROVE  ~Rival(tx[q].writes[i], rows'[j])
    <3>1. CASE j \in DOMAIN tx[p].writes
      <4>1. rows'[j] = tx[p].writes[j]
        BY <1>5, <3>1, SeenRows
      <4> QED BY <3>1, <4>1 DEF IInv, ActiveUnique, Rival
    <3>2. CASE j \notin DOMAIN tx[p].writes
      <4>1. j \in DOMAIN rows /\ rows'[j] = rows[j]
        BY <1>6, <1>7, <3>2
      <4>2. Seen(q)[i] = tx[q].writes[i] /\ Seen(q)[j] = rows[j]
            /\ i \in DOMAIN Seen(q) /\ j \in DOMAIN Seen(q)
        BY <4>1, SeenRows
      <4> QED BY <2>2, <4>1, <4>2 DEF OneActive
    <3> QED BY <3>1, <3>2
  <2>4. ASSUME NEW i \in DOMAIN tx[q].writes, NEW j \in DOMAIN tx[q].writes,
               Rival(tx[q].writes[i], tx[q].writes[j])
        PROVE  i = j
    BY <2>2, <2>4, SeenRows DEF OneActive
  <2> HIDE DEF now
  <2>5. OneActive(now)
    BY <1>14, <2>1, <2>3, <2>4 DEF OneActive, Rival
  <2> QED BY <2>5 DEF now
<1>16. ActiveUnique'
  <2>1. \A q \in Process : OneActive(Over(tx'[q].writes, rows'))
    BY <1>2, <1>4, <1>14, <1>15, NothingWritten
  <2>2. ASSUME NEW q \in Process, NEW r \in Process \ {q},
               NEW i \in DOMAIN tx'[q].writes, NEW j \in DOMAIN tx'[r].writes
        PROVE  ~Rival(tx'[q].writes[i], tx'[r].writes[j])
    BY <1>10, <1>11 DEF IInv, ActiveUnique
  <2> QED BY <1>14, <2>1, <2>2 DEF ActiveUnique, OneActive, Seen, Rival
<1> QED BY <1>4, <1>5, <1>8, <1>9, <1>12, <1>13, <1>16 DEF IInv

(***************************************************************************)
(* The statements that write                                               *)
(***************************************************************************)

(* What a statement that may run names: rows of its call's rater, and only  *)
(* active ones unless it hands them to the tombstone or deletes them.       *)
LEMMA NamedRows ==
    ASSUME IInv, NEW p \in Process, tx[p].step \in Updates
    PROVE  \A id \in StillNamed(p) :
              /\ tx[p].step # "wipe" => Seen(p)[id].rater = Who(p)
              /\ tx[p].step \notin {"reassign", "wipe"} => Seen(p)[id].active
BY DEF StillNamed, Named, Updates, Edited, ActiveOf, RatingsOf, Clashing, Reassigned, Wiped

(* An update of active rows that keeps them its rater's. *)
LEMMA ActiveRowsStep ==
    ASSUME IInv, NEW p \in Process, tx[p].step \in {"edit", "supersede", "withdraw", "clash"},
           WaitsFor(p) = {}, NEW w, NEW step, Write(p, w, step),
           w = [id \in StillNamed(p) |-> w[id]],
           \A id \in StillNamed(p) :
              w[id] \in Rating /\ w[id].rater = Seen(p)[id].rater,
           step \in {"commit", "insert", "supersede", "reassign"}
    PROVE  IInv'
<1>1. tx[p].step \in Updates /\ tx[p].step \in Personal /\ Who(p) \in Rater
  BY DEF Updates, Personal, IInv, StepsFit
<1>2. \A id \in StillNamed(p) : Seen(p)[id].rater = Who(p) /\ Seen(p)[id].active
  BY <1>1, NamedRows
<1>3. \A id \in DOMAIN w : w[id] \in Clean \cup {Gone}
  BY <1>1, <1>2, RatingAssumption DEF Clean
<1>4. DOMAIN w = StillNamed(p)
  OBVIOUS
<1>5. StillNamed(p) \subseteq RowId
  <2>1. DOMAIN Seen(p) \subseteq RowId
    BY SeenRows, TableType
  <2> QED BY <1>1, <2>1, FreeRows
<1>6. w \in Table(Clean \cup {Gone})
  BY <1>3, <1>4, <1>5, TableType
<1>7. \A id \in StillNamed(p) \cap DOMAIN rows : rows[id].active
  BY <1>2, SeenKept
<1>8. Sound(p, w)
  BY <1>1, <1>2, <1>4, <1>6, <1>7, KeepingIsSound
<1> QED BY <1>1, <1>8, WriteStep DEF Personal

(* A rating seen can be edited or superseded. *)
LEMMA SeenRating ==
    ASSUME IInv, NEW p \in Process, tx[p].step \in Updates, WaitsFor(p) = {},
           NEW id \in StillNamed(p)
    PROVE  /\ Seen(p)[id] \in Clean /\ Seen(p)[id] \in Rating
           /\ [Seen(p)[id] EXCEPT !.active = FALSE] \in Rating
           /\ [Seen(p)[id] EXCEPT !.active = FALSE].rater = Seen(p)[id].rater
           /\ [Seen(p)[id] EXCEPT !.by = p, !.prose = TRUE] \in Rating
           /\ [Seen(p)[id] EXCEPT !.by = p, !.prose = TRUE].rater = Seen(p)[id].rater
<1> DEFINE row == Seen(p)[id]
<1>1. row \in Clean /\ row \in Rating
  BY FreeRows DEF Clean
<1>2. p \in RowId
  BY DEF RowId
<1> HIDE DEF row
<1>3. /\ [row EXCEPT !.active = FALSE] \in Rating
      /\ [row EXCEPT !.active = FALSE].rater = row.rater
  BY <1>1 DEF Rating
<1>4. /\ [row EXCEPT !.by = p, !.prose = TRUE] \in Rating
      /\ [row EXCEPT !.by = p, !.prose = TRUE].rater = row.rater
  BY <1>1, <1>2 DEF Rating
<1> QED BY <1>1, <1>3, <1>4 DEF row

LEMMA EditStep ==
    ASSUME IInv, NEW p \in Process, EditRating(p)
    PROVE  IInv'
<1> DEFINE w == [id \in StillNamed(p) |-> [Seen(p)[id] EXCEPT !.by = p, !.prose = TRUE]]
           step == IF StillNamed(p) = {} THEN "supersede" ELSE "commit"
<1>1. tx[p].step = "edit" /\ WaitsFor(p) = {} /\ tx[p].step \in Updates
  BY DEF EditRating, At, Updates
<1>2. Write(p, w, step)
  BY DEF EditRating, Update
<1>3. \A id \in StillNamed(p) : w[id] \in Rating /\ w[id].rater = Seen(p)[id].rater
  BY <1>1, SeenRating
<1>4. w = [id \in StillNamed(p) |-> w[id]]
  OBVIOUS
<1>5. step \in {"commit", "insert", "supersede", "reassign"}
  OBVIOUS
<1> HIDE DEF w, step
<1> QED BY <1>1, <1>2, <1>3, <1>4, <1>5, ActiveRowsStep

(* Superseding rows: recordRating, withdrawRating and the clash of eraseUser. *)
LEMMA SupersedeStep ==
    ASSUME IInv, NEW p \in Process,
           SupersedeRating(p) \/ WithdrawRating(p) \/ SupersedeClashing(p)
    PROVE  IInv'
<1> DEFINE w == [id \in StillNamed(p) |-> [Seen(p)[id] EXCEPT !.active = FALSE]]
<1>1. /\ tx[p].step \in {"supersede", "withdraw", "clash"}
      /\ WaitsFor(p) = {} /\ tx[p].step \in Updates
  BY DEF SupersedeRating, WithdrawRating, SupersedeClashing, At, Updates
<1>2. PICK step \in {"insert", "commit", "reassign"} : Write(p, w, step)
  BY DEF SupersedeRating, WithdrawRating, SupersedeClashing, Update
<1>3. \A id \in StillNamed(p) : w[id] \in Rating /\ w[id].rater = Seen(p)[id].rater
  BY <1>1, SeenRating
<1>4. w = [id \in StillNamed(p) |-> w[id]]
  OBVIOUS
<1> HIDE DEF w
<1> QED BY <1>1, <1>2, <1>3, <1>4, ActiveRowsStep

(* Deleting all of them. *)
LEMMA WipeStep ==
    ASSUME IInv, NEW p \in Process, WipeRatings(p)
    PROVE  IInv'
<1> DEFINE w == [id \in StillNamed(p) |-> Gone]
<1>1. tx[p].step = "wipe" /\ WaitsFor(p) = {} /\ tx[p].step \in Updates
  BY DEF WipeRatings, At, Updates
<1>2. Write(p, w, "drop")
  BY DEF WipeRatings, Update
<1>3. DOMAIN w = StillNamed(p) /\ w = [id \in DOMAIN w |-> w[id]]
      /\ \A id \in DOMAIN w : w[id] = Gone
  OBVIOUS
<1> HIDE DEF w
<1>4. StillNamed(p) \subseteq RowId
  <2>1. DOMAIN Seen(p) \subseteq RowId
    BY SeenRows, TableType
  <2> QED BY <1>1, <2>1, FreeRows
<1>5. w \in Table(Clean \cup {Gone})
  BY <1>3, <1>4, TableType
<1>6. ~Gone.active
  BY DEF Gone
<1>7. Sound(p, w)
  BY <1>1, <1>3, <1>5, <1>6, KeepingIsSound DEF Kept
<1> QED BY <1>2, <1>7, WriteStep

(* Handing the ratings of somebody erased to the tombstone: at most one of  *)
(* them is active, and the tombstone has none.                              *)
LEMMA ReassignStep ==
    ASSUME IInv, NEW p \in Process, ReassignRatings(p)
    PROVE  IInv'
<1> DEFINE active == StillNamed(p) \cap ActiveOf(Seen(p), Who(p))
           w == [id \in StillNamed(p) |-> [Seen(p)[id] EXCEPT !.rater = Tombstone, !.prose = FALSE]]
<1>1. /\ tx[p].step = "reassign" /\ WaitsFor(p) = {} /\ tx[p].step \in Updates
      /\ Who(p) \in Rater
  BY DEF ReassignRatings, At, Updates, IInv, StepsFit, Personal
<1>2. CASE active # {} /\ Refused(p, Tombstone)
  BY <1>2, FailStep DEF ReassignRatings
<1>3. CASE active = {} \/ ~Refused(p, Tombstone)
  <2>1. Write(p, w, "commit")
    BY <1>3 DEF ReassignRatings, Update
  <2>2. DOMAIN w = StillNamed(p) /\ w = [id \in DOMAIN w |-> w[id]]
        /\ \A id \in DOMAIN w : w[id] = Anonymous(Seen(p)[id])
    BY DEF Anonymous
  <2> HIDE DEF w
  <2>3. /\ DOMAIN w \subseteq DOMAIN Seen(p) /\ DOMAIN w \subseteq DOMAIN rows \cup {p}
        /\ \A q \in Process \ {p} : DOMAIN w \cap DOMAIN tx[q].writes = {}
    BY <1>1, <2>2, FreeRows
  <2>4. ASSUME NEW id \in DOMAIN w
        PROVE  /\ w[id] \in Clean /\ w[id].rater = Tombstone
               /\ w[id].active = Seen(p)[id].active
               /\ Seen(p)[id].rater = Who(p)
    <3>1. Seen(p)[id] \in Rating
      BY <1>1, <2>2, SeenRating
    <3>2. /\ Anonymous(Seen(p)[id]) \in Clean /\ Anonymous(Seen(p)[id]).rater = Tombstone
          /\ Anonymous(Seen(p)[id]).active = Seen(p)[id].active
      BY <3>1 DEF Anonymous, Rating, Clean
    <3> QED BY <1>1, <2>2, <3>2, NamedRows
  <2>5. w \in Table(Clean \cup {Gone})
    <3>1. DOMAIN Seen(p) \subseteq RowId
      BY SeenRows, TableType
    <3> QED BY <2>2, <2>3, <2>4, <3>1, TableType
  <2>6. ASSUME NEW id \in DOMAIN w \cap DOMAIN rows, ~rows[id].active
        PROVE  w[id] \in Kept(rows[id])
    <3>1. rows[id] \in Rating
      BY TableType DEF IInv, RowsOK, Clean
    <3>2. Anonymous(Anonymous(rows[id])) = Anonymous(rows[id])
      BY <3>1 DEF Anonymous, Rating
    <3>3. Seen(p)[id] \in Kept(rows[id]) /\ Seen(p)[id] # Gone
      BY <1>1, <2>2, <2>6, SeenKept, FreeRows, RatingAssumption DEF Clean, Rating, Gone, RowId
    <3> QED BY <2>2, <3>2, <3>3 DEF Kept
  <2>7. \A i, j \in DOMAIN w : w[i].active /\ w[j].active => i = j
    BY <2>3, <2>4 DEF IInv, ActiveUnique, OneActive, Rival
  <2>8. ASSUME NEW i \in DOMAIN w, w[i].active
        PROVE  /\ \A j \in DOMAIN Seen(p) : ~Rival(w[i], Seen(p)[j])
               /\ \A q \in Process \ {p} : \A j \in DOMAIN tx[q].writes : ~Rival(w[i], tx[q].writes[j])
    <3>1. active # {}
      BY <2>2, <2>3, <2>4, <2>8, ActiveRows
    <3>2. ActiveOf(Seen(p), Tombstone) = {}
      BY <1>3, <3>1 DEF Refused
    <3>3. Deciding(p, Tombstone) = {}
      BY <1>1, <3>1 DEF WaitsFor, Updates
    <3>4. \A q \in Process \ {p} : ActiveOf(tx[q].writes, Tombstone) = {}
      BY <3>3 DEF Deciding
    <3> QED BY <2>4, <3>2, <3>4, ActiveRows DEF Rival
  <2>9. OneActive(Over(w, Seen(p)))
    <3> DEFINE now == Over(w, Seen(p))
    <3>1. /\ DOMAIN now = DOMAIN Seen(p)
          /\ \A id \in DOMAIN w : now[id] = w[id]
          /\ \A id \in DOMAIN Seen(p) \ DOMAIN w : now[id] = Seen(p)[id]
      BY <2>3 DEF Over
    <3>2. OneActive(Seen(p))
      BY DEF IInv, ActiveUnique
    <3> HIDE DEF now
    <3>3. OneActive(now)
      BY <2>7, <2>8, <3>1, <3>2 DEF OneActive, Rival
    <3> QED BY <3>3 DEF now
  <2>10. Sound(p, w)
    BY <2>3, <2>5, <2>6, <2>8, <2>9 DEF Sound, Rival
  <2> QED BY <2>1, <2>10, WriteStep
<1> QED BY <1>2, <1>3

(* A new rating of somebody who has no active one. *)
LEMMA InsertStep ==
    ASSUME IInv, NEW p \in Process, InsertRating(p)
    PROVE  IInv'
<1> DEFINE new == [rater |-> Who(p), version |-> tx[p].version,
                   active |-> TRUE, prose |-> TRUE, by |-> p]
           w == [id \in {p} |-> new]
<1>1. tx[p].step = "insert" /\ WaitsFor(p) = {} /\ Who(p) \in Rater /\ p \notin DOMAIN rows
  BY DEF InsertRating, At, IInv, StepsFit, Personal
<1>2. CASE Fail(p, "duplicate") \/ Fail(p, "refused")
  BY <1>2, FailStep
<1>3. CASE ~(Fail(p, "duplicate") \/ Fail(p, "refused"))
  <2>1. Write(p, w, "commit") /\ ~Refused(p, Who(p))
    BY <1>3 DEF InsertRating
  <2>2. tx[p].version \in Version
    BY DEF IInv, TxOK, Tx
  <2>3. new \in Clean /\ new.rater = Who(p)
    BY <1>1, <2>2, RatingAssumption DEF Clean, Rating, RowId
  <2> HIDE DEF new
  <2>4. DOMAIN w = {p} /\ w = [id \in DOMAIN w |-> w[id]] /\ w[p] = new
    OBVIOUS
  <2> HIDE DEF w
  <2>5. w \in Table(Clean \cup {Gone})
    BY <2>3, <2>4, TableType DEF RowId
  <2>6. \A q \in Process \ {p} : p \notin DOMAIN tx[q].writes
    BY <1>1 DEF IInv, WritesOK
  <2>7. ActiveOf(Seen(p), Who(p)) = {}
    BY <2>1 DEF Refused
  <2>8. \A q \in Process \ {p} : ActiveOf(tx[q].writes, Who(p)) = {}
    BY <1>1 DEF WaitsFor, Updates, Deciding
  <2>9. \A j \in DOMAIN Seen(p) : ~Rival(new, Seen(p)[j])
    BY <2>3, <2>7, ActiveRows DEF Rival
  <2>10. \A q \in Process \ {p} : \A j \in DOMAIN tx[q].writes : ~Rival(new, tx[q].writes[j])
    BY <2>3, <2>8, ActiveRows DEF Rival
  <2>11. OneActive(Over(w, Seen(p)))
    <3> DEFINE now == Over(w, Seen(p))
    <3>1. /\ DOMAIN now = {p} \cup DOMAIN Seen(p) /\ now[p] = new
          /\ \A id \in DOMAIN Seen(p) \ {p} : now[id] = Seen(p)[id]
      BY <2>4 DEF Over
    <3>2. OneActive(Seen(p))
      BY DEF IInv, ActiveUnique
    <3> HIDE DEF now
    <3>3. OneActive(now)
      BY <2>9, <3>1, <3>2 DEF OneActive, Rival
    <3> QED BY <3>3 DEF now
  <2>12. Sound(p, w)
    BY <1>1, <2>4, <2>5, <2>6, <2>10, <2>11 DEF Sound
  <2> QED BY <2>1, <2>12, WriteStep
<1> QED BY <1>2, <1>3

(***************************************************************************)
(* The latest version                                                      *)
(***************************************************************************)

(* Nat is well-ordered. *)
LEMMA LeastExists ==
    ASSUME NEW S \in SUBSET Nat, S # {}
    PROVE  \E i \in S : \A j \in S : i <= j
<1> DEFINE Below == {pair \in Nat \X Nat : pair[1] < pair[2]}
<1>1. IsWellFoundedOn(Below, Nat)
  BY NatLessThanWellFounded, Zenon DEF OpToRel
<1>2. \A i, j \in Nat : <<j, i>> \in Below <=> j < i
  OBVIOUS
<1> HIDE DEF Below
<1>3. PICK i \in S : \A j \in S : <<j, i>> \notin Below
  BY <1>1, WFMin
<1>4. \A j \in S : ~(j < i)
  BY <1>2, <1>3
<1>5. \A j \in S : i <= j
  BY <1>4
<1> QED BY <1>5

(* If any version is registered, one is the latest. *)
LEMMA LatestExists ==
    ASSUME NEW n \in Nat, versions \subseteq 1..n, versions # {}
    PROVE  \E v \in versions : \A u \in versions : u <= v
<1> DEFINE bounds == {m \in Nat : \A v \in versions : v <= m}
<1>1. n \in bounds /\ bounds \in SUBSET Nat
  OBVIOUS
<1> HIDE DEF bounds
<1>2. PICK m \in bounds : \A k \in bounds : m <= k
  BY <1>1, LeastExists
<1>3. m \in Nat /\ \A v \in versions : v <= m
  BY <1>2 DEF bounds
<1>4. m \in versions
  <2> SUFFICES ASSUME m \notin versions PROVE FALSE
    OBVIOUS
  <2>1. PICK v \in versions : TRUE
    OBVIOUS
  <2>2. \A u \in versions : u \in 1..n /\ u <= m - 1
    BY <1>3
  <2>3. m - 1 \in bounds
    BY <1>3, <2>1, <2>2 DEF bounds
  <2> QED BY <1>2, <1>3, <2>3
<1> QED BY <1>3, <1>4

(* A rating is filed under a registered version, or under none. *)
LEMMA LatestType ==
    ASSUME NEW n \in Nat, versions \subseteq 1..n
    PROVE  LatestVersion \in versions \cup {0}
BY LatestExists DEF LatestVersion

(***************************************************************************)
(* The invariant is inductive                                              *)
(***************************************************************************)

LEMMA BeginStep ==
    ASSUME IInv, NEW p \in Process, NEW call \in CallShape, Begin(p, call)
    PROVE  IInv'
<1> DEFINE t == [Blank(call, FirstStep(call)) EXCEPT
                   !.version = IF call.op = "record" THEN RatedVersion ELSE 0]
<1>1. /\ FirstStep(call) \in {"edit", "withdraw", "clash", "wipe"}
      /\ FirstStep(call) \in Personal => call.who \in Rater
  BY DEF CallShape, FirstStep, Personal
<1>2. FirstStep(call) \in Updates /\ FirstStep(call) \in Step /\ FirstStep(call) \notin Ended
  BY <1>1 DEF Updates, Step, Ended
<1>3. Blank(call, FirstStep(call)) \in Tx
  BY <1>2, BlankType
<1>4. RatedVersion \in Version /\ 0 \in Version
  <2>1. newest \in Nat /\ 1..newest \subseteq Version /\ versions \subseteq 1..newest
    BY RatingAssumption DEF IInv, RowsOK, Version
  <2>2. 0 \in Version
    BY RatingAssumption DEF Version
  <2> QED BY <2>1, <2>2, LatestType DEF RatedVersion
<1>5. /\ t \in Tx /\ t.call = call /\ t.step = FirstStep(call) /\ t.writes = NoWrites
  <2>1. /\ Blank(call, FirstStep(call)).call = call
        /\ Blank(call, FirstStep(call)).step = FirstStep(call)
        /\ Blank(call, FirstStep(call)).writes = NoWrites
    BY DEF Blank
  <2> QED BY <1>3, <1>4, <2>1 DEF Tx
<1>6. tx' = [tx EXCEPT ![p] = t] /\ rows' = rows /\ versions' = versions /\ newest' = newest
  BY DEF Begin
<1> HIDE DEF t
<1>7. p \notin DOMAIN rows
  BY DEF Begin, IInv, StepsFit
<1> QED BY <1>1, <1>2, <1>5, <1>6, <1>7, TurnStep

(* The rest of the invariant is about the rows and the calls alone. *)
LEMMA SameRowsStep ==
    ASSUME IInv, rows' = rows, tx' = tx, RowsOK'
    PROVE  IInv'
<1>1. TxOK' /\ WritesOK'
  BY DEF IInv, TxOK, WritesOK
<1>2. StepsFit'
  BY DEF IInv, StepsFit, Who
<1>3. SupersededKept'
  BY DEF IInv, SupersededKept, Kept, Anonymous
<1>4. ActiveUnique'
  BY DEF IInv, ActiveUnique, OneActive, Seen, Rival
<1> QED BY <1>1, <1>2, <1>3, <1>4 DEF IInv

LEMMA RegisterStep ==
    ASSUME IInv, RegisterVersion
    PROVE  IInv'
<1>1. RowsOK'
  BY RatingAssumption DEF IInv, RowsOK, RegisterVersion, Version
<1> QED BY <1>1, SameRowsStep DEF RegisterVersion

LEMMA IInvInit == Init => IInv
<1> SUFFICES ASSUME Init PROVE IInv
  OBVIOUS
<1>1. newest \in Version /\ versions = 1..newest /\ newest \in Nat
  BY RatingAssumption DEF Init, Version
<1>2. PICK ids \in SUBSET PastRow :
         rows \in [ids -> [rater : Rater, version : 0..newest, active : BOOLEAN,
                          prose : {TRUE}, by : PastRow]]
  BY DEF Init
<1>3. DOMAIN rows \subseteq PastRow /\ IsFiniteSet(DOMAIN rows)
  BY <1>2, RatingAssumption, FS_Subset
<1>4. \A id \in DOMAIN rows : rows[id] \in Clean /\ rows[id].rater \in Rater
  <2> SUFFICES ASSUME NEW id \in DOMAIN rows
               PROVE  rows[id] \in Clean /\ rows[id].rater \in Rater
    OBVIOUS
  <2>1. rows[id] \in [rater : Rater, version : 0..newest, active : BOOLEAN,
                      prose : {TRUE}, by : PastRow]
    BY <1>2
  <2>2. 0..newest \subseteq Version
    BY <1>1, RatingAssumption DEF Version
  <2> QED BY <2>1, <2>2, RatingAssumption DEF Clean, Rating, RowId
<1>5. RowsOK
  <2>1. rows = [id \in DOMAIN rows |-> rows[id]]
    BY <1>2
  <2>2. rows \in Table(Clean)
    BY <1>3, <1>4, <2>1, TableType DEF RowId
  <2> QED BY <1>1, <2>2 DEF RowsOK
<1>6. \A p \in Process : tx[p] = Blank(NoCall, "idle")
  BY DEF Init
<1>7. TxOK
  <2>1. Blank(NoCall, "idle") \in Tx
    BY BlankType DEF Step, Ended
  <2> QED BY <2>1 DEF Init, TxOK
<1>8. \A p \in Process : tx[p].call = NoCall /\ tx[p].step = "idle" /\ tx[p].writes = NoWrites
  BY <1>6 DEF Blank
<1>9. StepsFit
  <2>1. \A p \in Process : p \notin DOMAIN rows
    BY <1>3, RatingAssumption
  <2> QED BY <1>6, <1>8, <2>1 DEF StepsFit, Personal
<1>10. WritesOK /\ SupersededKept
  BY <1>8, NothingWritten DEF WritesOK, SupersededKept
<1>11. OneActive(rows)
  BY <1>3, <1>4, UniqueIsOne DEF Init
<1>12. ActiveUnique
  <2>1. \A p \in Process : OneActive(Seen(p))
    BY <1>8, <1>11, NothingWritten DEF Seen
  <2> QED BY <1>8, <1>11, <2>1, NothingWritten DEF ActiveUnique
<1> QED BY <1>5, <1>7, <1>9, <1>10, <1>12 DEF IInv

LEMMA IInvNext == IInv /\ [Next]_vars => IInv'
<1> SUFFICES ASSUME IInv, [Next]_vars PROVE IInv'
  OBVIOUS
<1>1. CASE RegisterVersion
  BY <1>1, RegisterStep
<1>2. ASSUME NEW p \in Process, NEW call \in CallShape, Begin(p, call) PROVE IInv'
  BY <1>2, BeginStep
<1>3. ASSUME NEW p \in Process, Find(p) PROVE IInv'
  BY <1>3, FindStep
<1>4. ASSUME NEW p \in Process, Commit(p) PROVE IInv'
  BY <1>4, CommitStep
<1>5. ASSUME NEW p \in Process, EditRating(p) PROVE IInv'
  BY <1>5, EditStep
<1>6. ASSUME NEW p \in Process, SupersedeRating(p) \/ WithdrawRating(p) \/ SupersedeClashing(p)
      PROVE IInv'
  BY <1>6, SupersedeStep
<1>7. ASSUME NEW p \in Process, InsertRating(p) PROVE IInv'
  BY <1>7, InsertStep
<1>8. ASSUME NEW p \in Process, ReassignRatings(p) PROVE IInv'
  BY <1>8, ReassignStep
<1>9. ASSUME NEW p \in Process, WipeRatings(p) PROVE IInv'
  BY <1>9, WipeStep
<1>10. ASSUME NEW p \in Process, DropVersions(p) PROVE IInv'
  BY <1>10, DropStep
<1>11. CASE UNCHANGED vars
  BY <1>11, SameRowsStep DEF vars, IInv, RowsOK
<1> QED BY <1>1, <1>2, <1>3, <1>4, <1>5, <1>6, <1>7, <1>8, <1>9, <1>10, <1>11 DEF Next

(* The invariant holds in every reachable state. *)
THEOREM Inductive == Spec => []IInv
BY IInvInit, IInvNext, PTL DEF Spec

(***************************************************************************)
(* What follows                                                            *)
(***************************************************************************)

(* Rows are ratings, nobody has two active ones, and ended calls hold none. *)
THEOREM TypeCorrect == Spec => []TypeOK
<1>1. IInv => TypeOK
  <2> SUFFICES ASSUME IInv PROVE TypeOK
    OBVIOUS
  <2>1. DOMAIN rows \subseteq RowId /\ \A id \in DOMAIN rows : rows[id] \in Rating
    BY TableType DEF IInv, RowsOK, Clean
  <2>2. \A u \in Rater \cup {Tombstone} : Cardinality(ActiveOf(rows, u)) <= 1
    BY OneIsUnique DEF IInv, ActiveUnique
  <2>3. \A p \in Process \ InFlight : tx[p] = Blank(tx[p].call, tx[p].step)
    BY DEF IInv, StepsFit, InFlight
  <2> QED BY <2>1, <2>2, <2>3 DEF IInv, RowsOK, TypeOK
<1> QED BY <1>1, Inductive, PTL

(* No prose is kept under the tombstone's name, however an edit and an      *)
(* erasure of one rater interleave.                                         *)
THEOREM ErasedProseGoes == Spec => []ErasedProseIsGone
<1>1. IInv => ErasedProseIsGone
  BY TableType DEF IInv, RowsOK, Clean, ErasedProseIsGone, RatingsOf, Present
<1> QED BY <1>1, Inductive, PTL

(* A superseded rating is never edited or revived. *)
THEOREM HistoryStays == Spec => HistoryKept
<1> DEFINE Stays == \A id \in DOMAIN rows \cap DOMAIN rows' : ~rows[id].active =>
                       rows'[id] \in {rows[id], [rows[id] EXCEPT !.rater = Tombstone, !.prose = FALSE]}
<1>1. IInv /\ [Next]_vars => [Stays]_vars
  <2> SUFFICES ASSUME IInv, [Next]_vars PROVE Stays
    OBVIOUS
  <2>1. ASSUME NEW p \in Process, Commit(p) PROVE Stays
    <3>1. \A id \in DOMAIN rows \cap DOMAIN rows' : rows'[id] = Seen(p)[id] /\ rows'[id] # Gone
      BY <2>1, CommitStep DEF Commit, Present
    <3> QED BY <3>1, SeenKept DEF Kept, Anonymous
  <2>2. ASSUME rows' = rows PROVE Stays
    BY <2>2
  <2>3. rows' = rows \/ \E p \in Process : Commit(p)
    BY DEF Next, vars, RegisterVersion, Begin, Find, EditRating, SupersedeRating, InsertRating,
           WithdrawRating, SupersedeClashing, ReassignRatings, WipeRatings, DropVersions,
           Update, Write, Fail
  <2> QED BY <2>1, <2>2, <2>3
<1> QED BY <1>1, Inductive, PTL DEF Spec, HistoryKept

(***************************************************************************)
(* What calls do to each other's ratings                                   *)
(*                                                                         *)
(* The remaining invariants compare a call with those that had ended when  *)
(* it began.  HInv says, for a call in flight, what it may rely on of the  *)
(* rows those left, as long as nobody has committed since (Fresh) or for   *)
(* good (NotNewer, Displaced, Removal).                                    *)
(***************************************************************************)

Before(by, p) == by \in PastRow \/ <<by, p>> \in order

OrderOK ==
    \A p, q \in Process : <<p, q>> \in order =>
        tx[p].step \in Ended \ {"idle"} /\ tx[q].step # "idle" /\ p # q

(* Each step belongs to one kind of call. *)
OpFit(p) ==
    /\ tx[p].step \in {"edit", "supersede", "insert"} => tx[p].call.op = "record"
    /\ tx[p].step = "withdraw" => tx[p].call.op = "withdraw"
    /\ tx[p].step \in {"clash", "reassign"} => tx[p].call.op = "erase"
    /\ tx[p].step \in {"wipe", "drop"} => tx[p].call.op = "delete"
    /\ tx[p].step \in {"idle", "edit", "supersede", "withdraw", "clash", "wipe"} => DOMAIN tx[p].writes = {}
    /\ tx[p].step # "commit" => tx[p].dropped = {}

OpFits == \A p \in Process : OpFit(p)

(* A row that is written keeps its version and its author, but for the call *)
(* that judges anew and the erasure that hands it to the tombstone.         *)
FromRow(row, old, p) ==
    \/ row = Gone
    \/ /\ row.by \in {old.by, p} /\ row.version = old.version
       /\ row.rater = old.rater \/ (row.rater = Tombstone /\ tx[p].call.op = "erase")

WrittenBy(p) ==
    \A id \in DOMAIN tx[p].writes :
        /\ IF id \in DOMAIN rows THEN FromRow(tx[p].writes[id], rows[id], p)
           ELSE tx[p].writes[id].by = p
        /\ tx[p].writes[id].by = p =>
               /\ tx[p].writes[id].version = tx[p].version
               /\ tx[p].writes[id].rater = Who(p) /\ tx[p].call.op = "record"

Provenance ==
    /\ \A id \in DOMAIN rows :
          rows[id].by \in PastRow \/ (rows[id].by \in Process /\ tx[rows[id].by].step = "done")
    /\ \A p \in Process : WrittenBy(p)

(* No rating is of a version that is gone, and none will be. *)
Registered ==
    /\ \A id \in DOMAIN rows : rows[id].version \in versions \cup {0}
    /\ \A p \in Process :
          /\ tx[p].dropped \subseteq 1 .. newest
          /\ \A id \in DOMAIN Seen(p) : Seen(p)[id].version \notin tx[p].dropped
          /\ \A id \in DOMAIN tx[p].writes \ DOMAIN rows :
                /\ tx[p].writes[id].version \in versions \cup {0}
                /\ \A q \in Process : tx[p].writes[id].version \notin tx[q].dropped

(* What a call takes for the latest version is no older than any it could   *)
(* have seen rated.                                                         *)
NotNewer ==
    \A p \in InFlight : tx[p].call.op = "record" =>
        \A id \in DOMAIN rows : Before(rows[id].by, p) => rows[id].version <= tx[p].version

(* A call about to commit a judgement has dealt with the active one before. *)
DisplacedBy(p) ==
    tx[p].step = "commit" /\ tx[p].call.op = "record" =>
        \A id \in DOMAIN rows :
            rows[id].rater = Who(p) /\ rows[id].active /\ Before(rows[id].by, p) =>
                /\ id \in DOMAIN tx[p].writes
                /\ ~tx[p].writes[id].active \/ tx[p].writes[id].by = p

Displaced == \A p \in Process : DisplacedBy(p)

SameRater(r, s) == rows[r].rater = rows[s].rater /\ rows[r].rater \in Rater

InTurn ==
    \A r, s \in DOMAIN rows :
        /\ rows[r].by \in Process /\ Before(rows[s].by, rows[r].by) => rows[s].version <= rows[r].version
        /\ rows[r].by \in Process /\ rows[r].by = rows[s].by => rows[s].version = rows[r].version
        /\ SameRater(r, s) /\ rows[r].active =>
              /\ ~(rows[s].by \in Process /\ Before(rows[r].by, rows[s].by))
              /\ rows[r].by \in PastRow /\ rows[s].by \in PastRow => rows[s].version <= rows[r].version

(* The rows a removal is to remove are those it finds, and it removes them. *)
Removes(p) == tx[p].call.op \in {"erase", "delete"}
ToRemove(id, p) ==
    Before(rows[id].by, p) /\ (tx[p].call.op = "erase" => rows[id].rater = Who(p))
Removed(row, p) == IF tx[p].call.op = "erase" THEN row.rater = Tombstone ELSE row = Gone

RemovalBy(p) ==
    Removes(p) =>
        /\ \A id \in DOMAIN rows : ToRemove(id, p) =>
              /\ tx[p].step \in {"reassign", "wipe"} /\ tx[p].found # NotYet => id \in tx[p].found
              /\ tx[p].step \in {"drop", "commit"} =>
                    id \in DOMAIN tx[p].writes /\ Removed(tx[p].writes[id], p)
              /\ tx[p].step # "done"
        /\ tx[p].step = "reassign" =>
              \A id \in DOMAIN tx[p].writes \cap DOMAIN rows : tx[p].writes[id].rater = rows[id].rater

Removal == \A p \in Process : RemovalBy(p)

(* Somebody has committed since the call began; or what it found is what    *)
(* there is, and nothing is in the way of what it will do next.             *)
Late(p) == \E q \in Process \ {p} : tx[q].step = "done" /\ <<q, p>> \notin order

Fresh(p) ==
    /\ tx[p].version \in versions \cup {0}
    /\ tx[p].step \in Updates /\ tx[p].found # NotYet => tx[p].found = Named(Seen(p), p)
    /\ tx[p].step = "insert" => ActiveOf(Seen(p), Who(p)) = {}
    /\ tx[p].step = "reassign" =>
          ActiveOf(Seen(p), Tombstone) = {} \/ ActiveOf(Seen(p), Who(p)) = {}
    /\ tx[p].step = "drop" => Present(Seen(p)) = {}

Refusals ==
    \A p \in Process :
        /\ p \in InFlight => Late(p) \/ Fresh(p)
        /\ tx[p].step \in {"duplicate", "refused"} =>
              \E q \in Process : Overlapped(p, q) /\ tx[q].step = "done"

HInv ==
    /\ OrderOK /\ OpFits /\ Provenance /\ Registered
    /\ NotNewer /\ Displaced /\ InTurn
    /\ Removal
    /\ Refusals

(***************************************************************************)
(* Steps that leave what is written alone                                  *)
(***************************************************************************)

(* What a call may rely on, it still may when another one moves. *)
LEMMA FreshStays ==
    ASSUME NEW q \in Process, tx'[q] = tx[q], rows' = rows, versions \subseteq versions', Fresh(q)
    PROVE  Fresh(q)'
BY DEF Fresh, Named, Updates, Edited, ActiveOf, RatingsOf, Clashing, Reassigned, Wiped, Present, Seen, Who

LEMMA WrittenStays ==
    ASSUME NEW q \in Process, rows' = rows, WrittenBy(q), tx'[q].call = tx[q].call,
           tx'[q].version = tx[q].version, tx'[q].writes = tx[q].writes
    PROVE  WrittenBy(q)'
BY DEF WrittenBy, FromRow, Who

(* A step of one call leaves the others where they are. *)
LEMMA OthersStay ==
    ASSUME NEW q \in Process, tx'[q] = tx[q], rows' = rows,
           \A by : <<by, q>> \in order' <=> <<by, q>> \in order
    PROVE  (DisplacedBy(q) => DisplacedBy(q)') /\ (RemovalBy(q) => RemovalBy(q)')
BY DEF DisplacedBy, RemovalBy, Removes, ToRemove, Removed, Before, Who

(* Nothing but a version is registered. *)
LEMMA RegisterHistory ==
    ASSUME IInv, HInv, RowsOK', rows' = rows, tx' = tx, order' = order, newest' \in {newest, newest + 1},
           versions \subseteq versions'
    PROVE  HInv'
<1> USE DEF HInv
<1>1. OrderOK' /\ OpFits' /\ Provenance'
  BY WrittenStays DEF OrderOK, OpFits, OpFit, Provenance
<1>2. Registered'
  <2>1. 1 .. newest \subseteq 1 .. newest'
    BY RatingAssumption DEF IInv, RowsOK, Version
  <2> QED BY <2>1 DEF Registered, Seen
<1>3. NotNewer' /\ Displaced' /\ InTurn'
  BY OthersStay DEF NotNewer, InFlight, Displaced, InTurn, SameRater, Before
<1>4. Removal'
  BY OthersStay DEF Removal
<1>5. Refusals'
  <2>1. \A q \in Process : Fresh(q) => Fresh(q)'
    BY FreshStays
  <2> QED BY <2>1 DEF Refusals, Late, Overlapped, InFlight
<1> QED BY <1>1, <1>2, <1>3, <1>4, <1>5

(* Nobody is rated a version later than the latest. *)
LEMMA LatestIsLast ==
    ASSUME NEW n \in Nat, versions \subseteq 1..n, NEW v \in versions \cup {0}
    PROVE  v <= LatestVersion
<1>1. LatestVersion \in versions \cup {0} /\ versions \subseteq Nat
  BY LatestType
<1>2. CASE versions = {}
  BY <1>2 DEF LatestVersion
<1>3. CASE versions # {}
  <2>1. \E u \in versions : \A w \in versions : w <= u
    BY LatestExists, <1>3
  <2>2. \A w \in versions : w <= LatestVersion
    BY <1>3, <2>1 DEF LatestVersion
  <2>3. 0 <= LatestVersion
    BY <1>1
  <2> QED BY <2>2, <2>3
<1> QED BY <1>2, <1>3

LEMMA BeginHistory ==
    ASSUME IInv, HInv, NEW p \in Process, NEW call \in CallShape, Begin(p, call)
    PROVE  HInv'
<1> USE DEF HInv
<1> DEFINE t == [Blank(call, FirstStep(call)) EXCEPT
                   !.version = IF call.op = "record" THEN RatedVersion ELSE 0]
<1>1. /\ tx[p].step = "idle" /\ tx' = [tx EXCEPT ![p] = t]
      /\ order' = order \cup {<<q, p>> : q \in {r \in Process : tx[r].step \in Ended \ {"idle"}}}
      /\ rows' = rows /\ versions' = versions /\ newest' = newest
  BY DEF Begin
<1>2. /\ t.call = call /\ t.step = FirstStep(call) /\ DOMAIN t.writes = {} /\ t.found = NotYet
      /\ t.dropped = {} /\ t.writes = NoWrites
      /\ t.version = IF call.op = "record" THEN RatedVersion ELSE 0
  BY NothingWritten DEF Blank
<1> HIDE DEF t
<1>3. /\ FirstStep(call) \in {"edit", "withdraw", "clash", "wipe"}
      /\ FirstStep(call) = "edit" => call.op = "record"
      /\ FirstStep(call) = "withdraw" => call.op = "withdraw"
      /\ FirstStep(call) = "clash" => call.op = "erase"
      /\ FirstStep(call) = "wipe" => call.op = "delete"
  BY DEF CallShape, FirstStep
<1>4. tx'[p] = t /\ \A q \in Process \ {p} : tx'[q] = tx[q]
  BY <1>1 DEF IInv, TxOK
<1>5. \A q \in Process \ {p} : \A by : <<by, q>> \in order' <=> <<by, q>> \in order
  BY <1>1
<1>6. \A q \in Process : tx[q].step = "done" => q # p
  BY <1>1
<1>7. OrderOK'
  <2> SUFFICES ASSUME NEW a \in Process, NEW b \in Process, <<a, b>> \in order'
               PROVE  tx'[a].step \in Ended \ {"idle"} /\ tx'[b].step # "idle" /\ a # b
    BY DEF OrderOK
  <2>1. CASE <<a, b>> \in order
    <3>1. tx[a].step \in Ended \ {"idle"} /\ tx[b].step # "idle" /\ a # b
      BY <2>1 DEF OrderOK
    <3> QED BY <1>1, <1>4, <3>1
  <2>2. CASE <<a, b>> \notin order
    <3>1. b = p /\ tx[a].step \in Ended \ {"idle"}
      BY <1>1, <2>2
    <3> QED BY <1>1, <1>2, <1>3, <1>4, <3>1
  <2> QED BY <2>1, <2>2
<1>8. OpFits'
  BY <1>2, <1>3, <1>4 DEF OpFits, OpFit
<1>9. Provenance'
  <2>1. \A id \in DOMAIN rows : rows[id].by \in PastRow \/ (rows[id].by \in Process /\ tx'[rows[id].by].step = "done")
    BY <1>4, <1>6 DEF Provenance
  <2>2. WrittenBy(p)'
    BY <1>2, <1>4 DEF WrittenBy
  <2> QED BY <1>1, <1>4, <2>1, <2>2, WrittenStays DEF Provenance
<1>10. Registered'
  <2>1. \A q \in Process \ {p} : Seen(q)' = Seen(q)
    BY <1>1, <1>4 DEF Seen
  <2> QED BY <1>1, <1>2, <1>4, <2>1 DEF Registered
<1>11. NotNewer'
  <2>1. ASSUME call.op = "record", NEW id \in DOMAIN rows PROVE rows[id].version <= t.version
    <3>1. newest \in Nat /\ versions \subseteq 1 .. newest
      BY RatingAssumption DEF IInv, RowsOK, Version
    <3> QED BY <1>2, <2>1, <3>1, LatestIsLast DEF RatedVersion, Registered
  <2> QED BY <1>1, <1>2, <1>4, <1>5, <2>1 DEF NotNewer, InFlight, Before
<1>12. Displaced'
  <2>1. DisplacedBy(p)'
    BY <1>2, <1>3, <1>4 DEF DisplacedBy
  <2> QED BY <1>1, <1>4, <1>5, <2>1, OthersStay DEF Displaced
<1>13. InTurn'
  <2>1. \A r \in DOMAIN rows : rows[r].by \in Process => rows[r].by \in Process \ {p}
    BY <1>6, RatingAssumption DEF Provenance
  <2> QED BY <1>1, <1>5, <2>1 DEF InTurn, SameRater, Before
<1>14. Removal'
  <2>1. RemovalBy(p)'
    BY <1>2, <1>3, <1>4 DEF RemovalBy
  <2> QED BY <1>1, <1>4, <1>5, <2>1, OthersStay DEF Removal
<1>15. Refusals'
  <2>1. Fresh(p)'
    <3>1. RatedVersion \in versions \cup {0}
      BY RatingAssumption, LatestType DEF IInv, RowsOK, Version, RatedVersion
    <3> QED BY <1>1, <1>2, <1>3, <1>4, <3>1 DEF Fresh
  <2>2. ASSUME NEW q \in Process \ {p} PROVE (Late(q) => Late(q)') /\ (Fresh(q) => Fresh(q)')
    <3>1. Fresh(q) => Fresh(q)'
      BY <1>1, <1>4, FreshStays
    <3> QED BY <1>1, <1>4, <1>6, <3>1 DEF Late
  <2>3. ASSUME NEW q \in Process \ {p}, NEW a \in Process, Overlapped(q, a), tx[a].step = "done"
        PROVE  Overlapped(q, a)' /\ tx'[a].step = "done"
    BY <1>1, <1>4, <1>6, <2>3 DEF Overlapped
  <2>4. tx'[p].step \notin {"duplicate", "refused"}
    BY <1>2, <1>3, <1>4
  <2> QED BY <1>4, <2>1, <2>2, <2>3, <2>4 DEF Refusals, InFlight
<1> QED BY <1>7, <1>8, <1>9, <1>10, <1>11, <1>12, <1>13, <1>14, <1>15

(* A row in the table is no deleted one. *)
LEMMA RowsThere ==
    ASSUME IInv, NEW id \in DOMAIN rows
    PROVE  /\ rows[id] # Gone /\ rows[id] \in Rating /\ rows[id].by # NotYet
           /\ rows[id].by \in RowId
<1>1. rows[id] \in Clean
  BY TableType DEF IInv, RowsOK
<1> QED BY <1>1, RatingAssumption DEF Clean, Rating, Gone, RowId

(* What a removal looks for it finds. *)
LEMMA FindsToRemove ==
    ASSUME IInv, OpFits, NEW p \in Process, RemovalBy(p), tx[p].step \in {"reassign", "wipe"},
           Removes(p), NEW id \in DOMAIN rows, ToRemove(id, p)
    PROVE  id \in Named(Seen(p), p)
<1>1. id \in DOMAIN Seen(p)
  BY SeenRows
<1>2. CASE tx[p].step = "reassign"
  <2>1. tx[p].call.op = "erase" /\ Who(p) \in Rater
    BY <1>2 DEF OpFits, OpFit, IInv, StepsFit, Personal
  <2>2. Seen(p)[id].rater = rows[id].rater
    BY <1>2, SeenRows DEF RemovalBy
  <2>3. Seen(p)[id].rater = Who(p)
    BY <2>1, <2>2 DEF ToRemove
  <2>4. Seen(p)[id] # Gone
    BY <2>1, <2>3, RatingAssumption DEF Gone
  <2> QED BY <1>1, <1>2, <2>3, <2>4 DEF Named, Reassigned, RatingsOf, Present
<1>3. CASE tx[p].step = "wipe"
  <2>1. id \notin DOMAIN tx[p].writes
    BY <1>3 DEF OpFits, OpFit
  <2>2. Seen(p)[id] # Gone
    BY <2>1, SeenRows, RowsThere
  <2> QED BY <1>1, <1>3, <2>2 DEF Named, Wiped, Present
<1> QED BY <1>2, <1>3

LEMMA FindHistory ==
    ASSUME IInv, HInv, NEW p \in Process, Find(p)
    PROVE  HInv'
<1> USE DEF HInv
<1> DEFINE t == [tx[p] EXCEPT !.found = Named(Seen(p), p)]
<1>1. /\ tx[p] \in Tx /\ tx[p].step \in Updates
      /\ tx' = [tx EXCEPT ![p] = t]
      /\ rows' = rows /\ versions' = versions /\ newest' = newest /\ order' = order
  BY DEF Find, IInv, TxOK
<1>2. /\ t.call = tx[p].call /\ t.step = tx[p].step /\ t.version = tx[p].version
      /\ t.writes = tx[p].writes /\ t.dropped = tx[p].dropped /\ t.found = Named(Seen(p), p)
  BY <1>1 DEF Tx
<1> HIDE DEF t
<1>3. tx'[p] = t /\ \A q \in Process \ {p} : tx'[q] = tx[q]
  BY <1>1 DEF IInv, TxOK
<1>4. \A q \in Process :
        /\ tx'[q].call = tx[q].call /\ tx'[q].step = tx[q].step /\ tx'[q].version = tx[q].version
        /\ tx'[q].writes = tx[q].writes /\ tx'[q].dropped = tx[q].dropped
  BY <1>2, <1>3
<1>5. OrderOK' /\ OpFits' /\ Provenance'
  BY <1>1, <1>4, WrittenStays DEF OrderOK, OpFits, OpFit, Provenance
<1>6. Registered'
  <2>1. \A q \in Process : Seen(q)' = Seen(q)
    BY <1>1, <1>4 DEF Seen
  <2> QED BY <1>1, <1>4, <2>1 DEF Registered
<1>7. NotNewer' /\ Displaced' /\ InTurn'
  BY <1>1, <1>4 DEF NotNewer, InFlight, Displaced, DisplacedBy, InTurn, SameRater, Before, Who
<1>8. Removal'
  <2>1. ASSUME Removes(p)', NEW id \in DOMAIN rows, ToRemove(id, p)', tx'[p].step \in {"reassign", "wipe"}
        PROVE  id \in tx'[p].found
    <3>1. Removes(p) /\ ToRemove(id, p) /\ RemovalBy(p) /\ tx[p].step \in {"reassign", "wipe"}
      BY <1>1, <1>4, <2>1 DEF Removal, Removes, ToRemove, Before, Who
    <3> QED BY <1>2, <1>3, <3>1, FindsToRemove
  <2>2. RemovalBy(p)'
    BY <1>1, <1>4, <2>1 DEF Removal, RemovalBy, Updates, Removes
  <2> QED BY <1>1, <1>3, <2>2, OthersStay DEF Removal
<1>9. Refusals'
  <2>1. Seen(p)' = Seen(p)
    BY <1>1, <1>4 DEF Seen
  <2>2. Named(Seen(p), p)' = Named(Seen(p), p)
    BY <1>4, <2>1 DEF Named, Edited, ActiveOf, RatingsOf, Clashing, Reassigned, Wiped, Present, Who
  <2>3. Fresh(p) => Fresh(p)'
    BY <1>1, <1>2, <1>3, <2>1, <2>2 DEF Fresh, Updates, ActiveOf, RatingsOf, Present, Who
  <2>4. \A q \in Process \ {p} : Fresh(q) => Fresh(q)'
    BY <1>1, <1>3, FreshStays
  <2>5. \A q \in Process : Late(q)' <=> Late(q)
    BY <1>1, <1>4 DEF Late
  <2>6. \A q, a \in Process : Overlapped(q, a)' <=> Overlapped(q, a)
    BY <1>1 DEF Overlapped
  <2> QED BY <1>4, <2>3, <2>4, <2>5, <2>6 DEF Refusals, InFlight
<1> QED BY <1>5, <1>6, <1>7, <1>8, <1>9

(* A call may fail once somebody has committed since it began. *)
LEMMA FailHistory ==
    ASSUME IInv, HInv, NEW p \in Process, tx[p].step \notin Ended, Late(p),
           NEW reason \in {"duplicate", "refused"}, Fail(p, reason)
    PROVE  HInv'
<1> USE DEF HInv
<1> DEFINE t == Blank(tx[p].call, reason)
<1>1. /\ tx' = [tx EXCEPT ![p] = t]
      /\ rows' = rows /\ versions' = versions /\ newest' = newest /\ order' = order
  BY DEF Fail
<1>2. t.call = tx[p].call /\ t.step = reason /\ DOMAIN t.writes = {} /\ t.dropped = {}
  BY NothingWritten DEF Blank
<1> HIDE DEF t
<1>3. tx'[p] = t /\ \A q \in Process \ {p} : tx'[q] = tx[q]
  BY <1>1 DEF IInv, TxOK
<1>4. \A q \in Process : tx[q].step = "done" => q # p
  BY DEF Ended
<1>5. OrderOK' /\ OpFits'
  BY <1>1, <1>2, <1>3 DEF OrderOK, OpFits, OpFit, Ended
<1>6. Provenance'
  <2>1. WrittenBy(p)'
    BY <1>2, <1>3 DEF WrittenBy
  <2> QED BY <1>1, <1>3, <1>4, <2>1, WrittenStays DEF Provenance
<1>7. Registered'
  <2>1. \A q \in Process \ {p} : Seen(q)' = Seen(q)
    BY <1>1, <1>3 DEF Seen
  <2> QED BY <1>1, <1>2, <1>3, <2>1 DEF Registered
<1>8. NotNewer' /\ InTurn'
  BY <1>1, <1>2, <1>3 DEF NotNewer, InFlight, InTurn, SameRater, Before, Ended
<1>9. Displaced' /\ Removal'
  <2>1. DisplacedBy(p)' /\ RemovalBy(p)'
    BY <1>2, <1>3 DEF DisplacedBy, RemovalBy
  <2> QED BY <1>1, <1>3, <2>1, OthersStay DEF Displaced, Removal
<1>10. Refusals'
  <2>1. \A q \in Process \ {p} : (Late(q) => Late(q)') /\ (Fresh(q) => Fresh(q)')
    <3>1. \A q \in Process \ {p} : Fresh(q) => Fresh(q)'
      BY <1>1, <1>3, FreshStays
    <3> QED BY <1>1, <1>3, <1>4, <3>1 DEF Late
  <2>2. PICK a \in Process \ {p} : tx[a].step = "done" /\ <<a, p>> \notin order
    BY DEF Late
  <2>3. <<p, a>> \notin order
    BY DEF OrderOK
  <2>4. Overlapped(p, a)' /\ tx'[a].step = "done"
    BY <1>1, <1>3, <2>2, <2>3 DEF Overlapped
  <2>5. ASSUME NEW q \in Process \ {p}, NEW b \in Process, Overlapped(q, b), tx[b].step = "done"
        PROVE  Overlapped(q, b)' /\ tx'[b].step = "done"
    BY <1>1, <1>3, <1>4, <2>5 DEF Overlapped
  <2> QED BY <1>2, <1>3, <2>1, <2>4, <2>5 DEF Refusals, InFlight, Ended
<1> QED BY <1>5, <1>6, <1>7, <1>8, <1>9, <1>10

(* A deletion fails over a row it did not delete, which is no old one. *)
LEMMA DropHistory ==
    ASSUME IInv, HInv, NEW p \in Process, DropVersions(p)
    PROVE  HInv'
<1> USE DEF HInv
<1>1. tx[p].step = "drop" /\ Inserting(p) = {} /\ tx[p].step \notin Ended /\ tx[p].call.op = "delete"
  BY DEF DropVersions, At, WaitsFor, Updates, Ended, OpFits, OpFit
<1>2. CASE \E id \in Present(Seen(p)) : Seen(p)[id].version \in versions
  <2>1. Fail(p, "refused")
    BY <1>2 DEF DropVersions
  <2>2. ~Fresh(p)
    BY <1>1, <1>2 DEF Fresh
  <2>3. Late(p)
    BY <1>1, <2>2 DEF Refusals, InFlight
  <2> QED BY <1>1, <2>1, <2>3, FailHistory
<1>3. CASE ~\E id \in Present(Seen(p)) : Seen(p)[id].version \in versions
  <2> DEFINE t == [tx[p] EXCEPT !.dropped = versions, !.step = "commit"]
  <2>1. /\ tx' = [tx EXCEPT ![p].dropped = versions, ![p].step = "commit"]
        /\ rows' = rows /\ versions' = versions /\ newest' = newest /\ order' = order
    BY <1>3 DEF DropVersions
  <2>2. tx[p] \in Tx
    BY DEF IInv, TxOK
  <2>3. /\ t.call = tx[p].call /\ t.step = "commit" /\ t.version = tx[p].version
        /\ t.writes = tx[p].writes /\ t.dropped = versions /\ t.found = tx[p].found
    BY <2>2 DEF Tx
  <2>4. tx' = [tx EXCEPT ![p] = t]
    BY <2>1
  <2> HIDE DEF t
  <2>5. tx'[p] = t /\ \A q \in Process \ {p} : tx'[q] = tx[q]
    BY <2>4 DEF IInv, TxOK
  <2>6. \A q \in Process : tx'[q].call = tx[q].call /\ tx'[q].writes = tx[q].writes /\ tx'[q].version = tx[q].version
    BY <2>3, <2>5
  <2>7. OrderOK' /\ OpFits'
    BY <1>1, <2>1, <2>3, <2>5 DEF OrderOK, OpFits, OpFit, Ended
  <2>8. Provenance'
    <3>1. \A q \in Process : tx[q].step = "done" => q # p
      BY <1>1
    <3>2. \A id \in DOMAIN rows : rows[id].by \in PastRow \/ (rows[id].by \in Process /\ tx'[rows[id].by].step = "done")
      BY <2>5, <3>1 DEF Provenance
    <3> QED BY <2>1, <2>6, <3>2, WrittenStays DEF Provenance
  <2>9. Registered'
    <3>1. \A q \in Process : Seen(q)' = Seen(q)
      BY <2>1, <2>6 DEF Seen
    <3>2. versions \subseteq 1 .. newest /\ 0 \notin versions
      BY RatingAssumption DEF IInv, RowsOK, Version
    <3>3. \A id \in DOMAIN Seen(p) : Seen(p)[id].version \notin versions
      BY <1>3, <3>2 DEF Present, Gone
    <3>4. ASSUME NEW q \in Process, NEW id \in DOMAIN tx[q].writes \ DOMAIN rows
          PROVE  tx[q].writes[id].version \notin versions
      <4>1. CASE q = p
        BY <3>3, <4>1, SeenRows
      <4>2. CASE q # p
        BY <1>1, <3>2, <4>2 DEF Inserting
      <4> QED BY <4>1, <4>2
    <3>5. tx'[p].dropped = versions /\ \A q \in Process \ {p} : tx'[q].dropped = tx[q].dropped
      BY <2>3, <2>5
    <3> QED BY <2>1, <2>6, <3>1, <3>2, <3>3, <3>4, <3>5 DEF Registered
  <2>10. NotNewer' /\ InTurn'
    <3>1. \A q \in InFlight' : tx'[q].call.op = "record" => q \in InFlight /\ q # p
      BY <1>1, <2>5, <2>6 DEF InFlight
    <3> QED BY <2>1, <2>6, <3>1 DEF NotNewer, InTurn, SameRater, Before, InFlight
  <2>11. Displaced' /\ Removal'
    <3>1. DisplacedBy(p)'
      BY <1>1, <2>6 DEF DisplacedBy
    <3>2. RemovalBy(p)'
      BY <1>1, <2>1, <2>3, <2>5 DEF Removal, RemovalBy, Removes, ToRemove, Removed, Before, Who
    <3> QED BY <2>1, <2>5, <3>1, <3>2, OthersStay DEF Displaced, Removal
  <2>12. Refusals'
    <3>1. Fresh(p) => Fresh(p)'
      BY <2>1, <2>3, <2>5 DEF Fresh, Updates
    <3>2. \A q \in Process \ {p} : Fresh(q) => Fresh(q)'
      BY <2>1, <2>5, FreshStays
    <3>3. \A q \in Process : (tx'[q].step = "done" <=> tx[q].step = "done") /\ (q \in InFlight' <=> q \in InFlight)
      BY <1>1, <2>3, <2>5 DEF InFlight, Ended
    <3>4. \A q \in Process : tx'[q].step \in {"duplicate", "refused"} => tx[q].step \in {"duplicate", "refused"}
      BY <2>3, <2>5
    <3> QED BY <2>1, <3>1, <3>2, <3>3, <3>4 DEF Refusals, Late, Overlapped
  <2> QED BY <2>7, <2>8, <2>9, <2>10, <2>11, <2>12
<1> QED BY <1>2, <1>3

(***************************************************************************)
(* Statements and what others may rely on                                  *)
(***************************************************************************)

(* What a write leaves alone. *)
LEMMA WriteKeeps ==
    ASSUME TxOK, NEW p \in Process, NEW w, NEW step, Write(p, w, step)
    PROVE  /\ tx'[p].call = tx[p].call /\ tx'[p].step = step /\ tx'[p].found = NotYet
           /\ tx'[p].writes = Over(w, tx[p].writes)
           /\ tx'[p].version = tx[p].version /\ tx'[p].dropped = tx[p].dropped
           /\ \A q \in Process \ {p} : tx'[q] = tx[q]
           /\ rows' = rows /\ versions' = versions /\ newest' = newest /\ order' = order
<1> DEFINE t == [[[tx[p] EXCEPT !.writes = Over(w, tx[p].writes)] EXCEPT !.found = NotYet] EXCEPT !.step = step]
<1>1. tx[p] \in Tx
  BY DEF TxOK
<1>2. tx' = [tx EXCEPT ![p] = t]
  BY DEF Write
<1>3. /\ t.call = tx[p].call /\ t.step = step /\ t.found = NotYet
      /\ t.writes = Over(w, tx[p].writes)
      /\ t.version = tx[p].version /\ t.dropped = tx[p].dropped
  BY <1>1 DEF Tx
<1> HIDE DEF t
<1> QED BY <1>2, <1>3 DEF Write, TxOK

LEMMA WriteValues ==
    ASSUME TxOK, NEW p \in Process, NEW w, NEW step, Write(p, w, step)
    PROVE  /\ DOMAIN tx'[p].writes = DOMAIN w \cup DOMAIN tx[p].writes
           /\ \A id \in DOMAIN w : tx'[p].writes[id] = w[id]
           /\ \A id \in DOMAIN tx[p].writes \ DOMAIN w : tx'[p].writes[id] = tx[p].writes[id]
<1>1. tx'[p].writes = Over(w, tx[p].writes)
  BY WriteKeeps
<1>2. DOMAIN tx'[p].writes = DOMAIN w \cup DOMAIN tx[p].writes
  BY <1>1 DEF Over
<1>3. \A id \in DOMAIN w : tx'[p].writes[id] = w[id]
  BY <1>1, OverValues
<1>4. \A id \in DOMAIN tx[p].writes \ DOMAIN w : tx'[p].writes[id] = tx[p].writes[id]
  BY <1>1, OverValues
<1> QED BY <1>2, <1>3, <1>4

(* A statement keeps the invariant if it writes rows as their provenance    *)
(* demands and leads to a step its call may rely on as before.              *)
LEMMA WriteHistory ==
    ASSUME IInv, HInv, NEW p \in Process, NEW w, NEW step, Write(p, w, step),
           tx[p].step \notin Ended \cup {"commit"}, step \notin Ended,
           \A id \in DOMAIN w :
               /\ IF id \in DOMAIN rows THEN FromRow(w[id], rows[id], p)
                  ELSE /\ w[id].by = p /\ w[id].version \in versions \cup {0}
                       /\ \A q \in Process \ {p} : w[id].version \notin tx[q].dropped
               /\ w[id].by = p =>
                      w[id].version = tx[p].version /\ w[id].rater = Who(p) /\ tx[p].call.op = "record",
           OpFit(p)', DisplacedBy(p)', RemovalBy(p)', Fresh(p) => Fresh(p)'
    PROVE  HInv'
<1> USE DEF HInv
<1>1. /\ tx'[p].call = tx[p].call /\ tx'[p].step = step /\ tx'[p].found = NotYet
      /\ tx'[p].writes = Over(w, tx[p].writes)
      /\ tx'[p].version = tx[p].version /\ tx'[p].dropped = tx[p].dropped
      /\ \A q \in Process \ {p} : tx'[q] = tx[q]
      /\ rows' = rows /\ versions' = versions /\ newest' = newest /\ order' = order
  BY WriteKeeps DEF IInv
<1>2. \A q \in Process : /\ tx'[q].step = "done" <=> tx[q].step = "done"
                         /\ q \in InFlight' <=> q \in InFlight
                         /\ tx'[q].call = tx[q].call /\ tx'[q].version = tx[q].version
                         /\ tx'[q].dropped = tx[q].dropped
  BY <1>1 DEF InFlight, Ended
<1>3. /\ DOMAIN tx'[p].writes = DOMAIN w \cup DOMAIN tx[p].writes
      /\ \A id \in DOMAIN w : tx'[p].writes[id] = w[id]
      /\ \A id \in DOMAIN tx[p].writes \ DOMAIN w : tx'[p].writes[id] = tx[p].writes[id]
  BY WriteValues DEF IInv
<1>4. OrderOK'
  BY <1>1 DEF OrderOK, Ended
<1>5. OpFits'
  BY <1>1 DEF OpFits, OpFit
<1>6. Provenance'
  <2>1. WrittenBy(p)'
    <3> SUFFICES ASSUME NEW id \in DOMAIN tx'[p].writes
                 PROVE  /\ IF id \in DOMAIN rows THEN FromRow(tx'[p].writes[id], rows[id], p)
                           ELSE tx'[p].writes[id].by = p
                        /\ tx'[p].writes[id].by = p =>
                               /\ tx'[p].writes[id].version = tx[p].version
                               /\ tx'[p].writes[id].rater = Who(p) /\ tx[p].call.op = "record"
      BY <1>1 DEF WrittenBy, FromRow, Who
    <3>1. CASE id \in DOMAIN w
      BY <1>3, <3>1
    <3>2. CASE id \in DOMAIN tx[p].writes \ DOMAIN w
      BY <1>3, <3>2 DEF Provenance, WrittenBy
    <3> QED BY <1>3, <3>1, <3>2
  <2> QED BY <1>1, <1>2, <2>1, WrittenStays DEF Provenance
<1>7. Registered'
  <2>1. \A q \in Process \ {p} : Seen(q)' = Seen(q)
    BY <1>1 DEF Seen
  <2>2. tx'[p].dropped = {}
    BY <1>1 DEF OpFits, OpFit
  <2>3. ASSUME NEW id \in DOMAIN tx'[p].writes \ DOMAIN rows
        PROVE  /\ tx'[p].writes[id].version \in versions \cup {0}
               /\ \A q \in Process : tx'[p].writes[id].version \notin tx'[q].dropped
    <3>1. CASE id \in DOMAIN w
      <4>1. /\ tx'[p].writes[id] = w[id] /\ w[id].version \in versions \cup {0}
            /\ \A q \in Process \ {p} : w[id].version \notin tx[q].dropped
        BY <1>3, <2>3, <3>1
      <4> QED BY <1>2, <2>2, <4>1
    <3>2. CASE id \in DOMAIN tx[p].writes \ DOMAIN w
      BY <1>2, <1>3, <3>2 DEF Registered
    <3> QED BY <1>3, <3>1, <3>2
  <2>4. \A q \in Process : tx'[q].dropped \subseteq 1 .. newest
    BY <1>2 DEF Registered
  <2>5. ASSUME NEW q \in Process, NEW id \in DOMAIN Seen(q)'
        PROVE  Seen(q)'[id].version \notin tx'[q].dropped
    <3>1. CASE q = p
      BY <2>2, <3>1
    <3>2. CASE q # p
      BY <1>2, <2>1, <3>2 DEF Registered
    <3> QED BY <3>1, <3>2
  <2>6. ASSUME NEW q \in Process, NEW id \in DOMAIN tx'[q].writes \ DOMAIN rows
        PROVE  /\ tx'[q].writes[id].version \in versions \cup {0}
               /\ \A r \in Process : tx'[q].writes[id].version \notin tx'[r].dropped
    <3>1. CASE q = p
      BY <2>3, <3>1
    <3>2. CASE q # p
      BY <1>1, <1>2, <3>2 DEF Registered
    <3> QED BY <3>1, <3>2
  <2>7. \A id \in DOMAIN rows' : rows'[id].version \in versions' \cup {0}
    BY <1>1 DEF Registered
  <2>8. ASSUME NEW q \in Process
        PROVE  /\ tx'[q].dropped \subseteq 1 .. newest'
               /\ \A id \in DOMAIN Seen(q)' : Seen(q)'[id].version \notin tx'[q].dropped
               /\ \A id \in DOMAIN tx'[q].writes \ DOMAIN rows' :
                     /\ tx'[q].writes[id].version \in versions' \cup {0}
                     /\ \A r \in Process : tx'[q].writes[id].version \notin tx'[r].dropped
    BY <1>1, <2>4, <2>5, <2>6
  <2> QED BY <2>7, <2>8 DEF Registered
<1>8. NotNewer' /\ InTurn'
  <2>1. NotNewer'
    <3>1. \A q \in InFlight' : q \in InFlight /\ tx'[q].call = tx[q].call /\ tx'[q].version = tx[q].version
      BY <1>2 DEF InFlight
    <3> QED BY <1>1, <3>1 DEF NotNewer, Before
  <2>2. InTurn'
    BY <1>1 DEF InTurn, SameRater, Before
  <2> QED BY <2>1, <2>2
<1>9. Displaced' /\ Removal'
  BY <1>1, OthersStay DEF Displaced, Removal
<1>10. Refusals'
  <2>1. \A q \in Process : Fresh(q) => Fresh(q)'
    BY <1>1, FreshStays
  <2>2. \A q \in Process : Late(q)' <=> Late(q)
    BY <1>1, <1>2 DEF Late
  <2>3. \A q, a \in Process : Overlapped(q, a)' <=> Overlapped(q, a)
    BY <1>1 DEF Overlapped
  <2>4. \A q \in Process : tx'[q].step \in {"duplicate", "refused"} => tx[q].step \in {"duplicate", "refused"}
    BY <1>1 DEF Ended
  <2> QED BY <1>2, <2>1, <2>2, <2>3, <2>4 DEF Refusals
<1> QED BY <1>4, <1>5, <1>6, <1>7, <1>8, <1>9, <1>10

(* What rewriting a rating leaves alone. *)
LEMMA RowFields ==
    ASSUME NEW row \in Rating, NEW p
    PROVE  /\ [row EXCEPT !.by = p, !.prose = TRUE].by = p
           /\ [row EXCEPT !.by = p, !.prose = TRUE].version = row.version
           /\ [row EXCEPT !.by = p, !.prose = TRUE].rater = row.rater
           /\ [row EXCEPT !.active = FALSE].by = row.by
           /\ [row EXCEPT !.active = FALSE].version = row.version
           /\ [row EXCEPT !.active = FALSE].rater = row.rater
           /\ ~[row EXCEPT !.active = FALSE].active
           /\ [row EXCEPT !.rater = Tombstone, !.prose = FALSE].by = row.by
           /\ [row EXCEPT !.rater = Tombstone, !.prose = FALSE].version = row.version
           /\ [row EXCEPT !.rater = Tombstone, !.prose = FALSE].rater = Tombstone
BY DEF Rating

(* Nothing committed is the work of a call in flight. *)
LEMMA NotItsOwn ==
    ASSUME IInv, HInv, NEW p \in Process, tx[p].step # "done", NEW id \in DOMAIN rows
    PROVE  rows[id].by # p
BY RatingAssumption DEF HInv, Provenance

(* A statement rewrites committed rows, as they are but for a rating that   *)
(* its own call has superseded.                                             *)
LEMMA NamedInTable ==
    ASSUME IInv, HInv, NEW p \in Process, tx[p].step \in Updates, WaitsFor(p) = {},
           NEW id \in StillNamed(p)
    PROVE  /\ id \in DOMAIN rows /\ Seen(p)[id] \in Rating
           /\ Seen(p)[id].by = rows[id].by /\ Seen(p)[id].version = rows[id].version
           /\ Seen(p)[id].by # p
           /\ tx[p].step # "reassign" => Seen(p)[id] = rows[id]
           /\ Seen(p)[id].rater = rows[id].rater
<1> USE DEF HInv
<1>1. id \in DOMAIN Seen(p) /\ Seen(p)[id] \in Rating
  BY FreeRows, SeenRating
<1>2. tx[p].step \notin Ended
  BY DEF Updates, Ended
<1>3. CASE id \notin DOMAIN tx[p].writes
  <2>1. id \in DOMAIN rows /\ Seen(p)[id] = rows[id]
    BY <1>1, <1>3, SeenRows
  <2> QED BY <1>1, <1>2, <2>1, NotItsOwn DEF Ended
<1>4. CASE id \in DOMAIN tx[p].writes
  <2>1. tx[p].step = "reassign" /\ tx[p].call.op = "erase" /\ RemovalBy(p)
    BY <1>4 DEF OpFits, OpFit, Updates, Removal
  <2>2. Seen(p)[id] = tx[p].writes[id] /\ Seen(p)[id] # Gone
    <3>1. Seen(p)[id].by \in RowId
      BY <1>1 DEF Rating
    <3>2. Gone.by \notin RowId
      BY RatingAssumption DEF Gone, RowId
    <3> QED BY <1>4, <3>1, <3>2, SeenRows
  <2>3. tx[p].writes[id].by # p /\ id \in DOMAIN rows
    BY <1>4, <2>1 DEF Provenance, WrittenBy
  <2>4. FromRow(tx[p].writes[id], rows[id], p)
    BY <1>4, <2>3 DEF Provenance, WrittenBy
  <2>5. tx[p].writes[id].by = rows[id].by /\ tx[p].writes[id].version = rows[id].version
    BY <2>2, <2>3, <2>4 DEF FromRow
  <2>6. tx[p].writes[id].rater = rows[id].rater
    BY <1>4, <2>1, <2>3 DEF RemovalBy, Removes
  <2> QED BY <1>1, <2>1, <2>2, <2>3, <2>5, <2>6
<1> QED BY <1>3, <1>4

(* What a call sees once it has written. *)
LEMMA SeenAfter ==
    ASSUME TxOK, NEW p \in Process, NEW w, NEW step, Write(p, w, step)
    PROVE  /\ DOMAIN Seen(p)' = DOMAIN w \cup DOMAIN Seen(p)
           /\ \A id \in DOMAIN w : Seen(p)'[id] = w[id]
           /\ \A id \in DOMAIN Seen(p) \ DOMAIN w : Seen(p)'[id] = Seen(p)[id]
<1>1. tx'[p].writes = Over(w, tx[p].writes) /\ rows' = rows
  BY WriteKeeps
<1>2. Seen(p)' = Over(w, Seen(p))
  BY <1>1 DEF Over, Seen
<1>3. DOMAIN Seen(p)' = DOMAIN w \cup DOMAIN Seen(p)
  BY <1>2 DEF Over
<1>4. \A id \in DOMAIN w : Seen(p)'[id] = w[id]
  BY <1>2, OverValues
<1>5. \A id \in DOMAIN Seen(p) \ DOMAIN w : Seen(p)'[id] = Seen(p)[id]
  BY <1>2, OverValues
<1> QED BY <1>3, <1>4, <1>5

(* Superseding ratings leaves fewer active ones to see. *)
LEMMA FewerActive ==
    ASSUME NEW table, NEW after, NEW w, NEW u,
           DOMAIN after = DOMAIN w \cup DOMAIN table,
           \A id \in DOMAIN w : after[id] = w[id] /\ ~w[id].active,
           \A id \in DOMAIN table \ DOMAIN w : after[id] = table[id]
    PROVE  ActiveOf(after, u) \subseteq ActiveOf(table, u) \ DOMAIN w
<1> SUFFICES ASSUME NEW id \in ActiveOf(after, u)
             PROVE  id \in ActiveOf(table, u) /\ id \notin DOMAIN w
  OBVIOUS
<1>1. id \in DOMAIN after /\ after[id].rater = u /\ after[id].active
  BY ActiveRows
<1>2. id \notin DOMAIN w /\ id \in DOMAIN table /\ after[id] = table[id]
  BY <1>1
<1> QED BY <1>1, <1>2, ActiveRows

(* A rating edited in place was the only active one of its rater's.         *)
LEMMA EditHistory ==
    ASSUME IInv, HInv, NEW p \in Process, EditRating(p)
    PROVE  HInv'
<1> USE DEF HInv
<1> DEFINE w == [id \in StillNamed(p) |-> [Seen(p)[id] EXCEPT !.by = p, !.prose = TRUE]]
           step == IF StillNamed(p) = {} THEN "supersede" ELSE "commit"
<1>1. tx[p].step = "edit" /\ WaitsFor(p) = {} /\ tx[p].step \in Updates /\ tx[p].call.op = "record"
  BY DEF EditRating, At, Updates, OpFits, OpFit
<1>2. Write(p, w, step) /\ DOMAIN w = StillNamed(p)
  BY DEF EditRating, Update
<1>3. \A id \in StillNamed(p) : /\ id \in DOMAIN rows /\ Seen(p)[id] = rows[id]
                                 /\ w[id].by = p /\ w[id].version = rows[id].version
                                 /\ w[id].rater = rows[id].rater
  <2> TAKE id \in StillNamed(p)
  <2>1. id \in DOMAIN rows /\ Seen(p)[id] = rows[id] /\ rows[id] \in Rating
    BY <1>1, NamedInTable
  <2>2. w[id] = [rows[id] EXCEPT !.by = p, !.prose = TRUE]
    BY <2>1
  <2> QED BY <2>1, <2>2 DEF Rating
<1>4. \A id \in StillNamed(p) : rows[id].version = tx[p].version /\ rows[id].rater = Who(p) /\ rows[id].active
  BY <1>1, <1>3 DEF StillNamed, Named, Edited, ActiveOf, RatingsOf
<1>5. step \in {"supersede", "commit"} /\ (step = "supersede" <=> StillNamed(p) = {})
  OBVIOUS
<1> HIDE DEF w, step
<1>6. /\ tx'[p].call = tx[p].call /\ tx'[p].step = step /\ tx'[p].version = tx[p].version
      /\ tx'[p].dropped = tx[p].dropped /\ tx'[p].found = NotYet
      /\ rows' = rows /\ versions' = versions /\ order' = order
  BY <1>2, WriteKeeps DEF IInv
<1>7. /\ DOMAIN tx'[p].writes = DOMAIN w \cup DOMAIN tx[p].writes
      /\ \A id \in DOMAIN w : tx'[p].writes[id] = w[id]
  BY <1>2, WriteValues DEF IInv
<1>8. OpFit(p)'
  BY <1>1, <1>2, <1>5, <1>6, <1>7 DEF OpFits, OpFit
<1>9. DisplacedBy(p)'
  <2> SUFFICES ASSUME step = "commit", NEW id \in DOMAIN rows, rows[id].rater = Who(p), rows[id].active
               PROVE  id \in DOMAIN tx'[p].writes /\ tx'[p].writes[id].by = p
    BY <1>6 DEF DisplacedBy, Before, Who
  <2>1. PICK e \in StillNamed(p) : TRUE
    BY <1>5
  <2>2. id = e
    BY <1>3, <1>4 DEF IInv, ActiveUnique, OneActive, Rival
  <2> QED BY <1>2, <1>3, <1>7, <2>2
<1>10. RemovalBy(p)'
  BY <1>1, <1>6 DEF RemovalBy, Removes
<1>11. Fresh(p) => Fresh(p)'
  BY <1>5, <1>6 DEF Fresh, Updates
<1>12. \A id \in DOMAIN w : FromRow(w[id], rows[id], p)
  BY <1>2, <1>3 DEF FromRow
<1>13. tx[p].step \notin Ended \cup {"commit"} /\ step \notin Ended
  BY <1>1, <1>5 DEF Ended
<1> QED BY <1>1, <1>2, <1>3, <1>4, <1>8, <1>9, <1>10, <1>11, <1>12, <1>13, WriteHistory

(* Superseding a rating, to follow it, to withdraw it or to hand over the   *)
(* others.                                                                  *)
LEMMA SupersedeHistory ==
    ASSUME IInv, HInv, NEW p \in Process,
           SupersedeRating(p) \/ WithdrawRating(p) \/ SupersedeClashing(p)
    PROVE  HInv'
<1> USE DEF HInv
<1> DEFINE w == [id \in StillNamed(p) |-> [Seen(p)[id] EXCEPT !.active = FALSE]]
<1>1. /\ tx[p].step \in {"supersede", "withdraw", "clash"} /\ tx[p].found # NotYet
      /\ WaitsFor(p) = {} /\ tx[p].step \in Updates /\ OpFit(p)
  BY DEF SupersedeRating, WithdrawRating, SupersedeClashing, At, Updates, OpFits
<1>2. PICK step : /\ Write(p, w, step)
                  /\ \/ tx[p].step = "supersede" /\ step = "insert"
                     \/ tx[p].step = "withdraw" /\ step = "commit"
                     \/ tx[p].step = "clash" /\ step = "reassign"
  BY DEF SupersedeRating, WithdrawRating, SupersedeClashing, Update, At
<1>3. \A id \in StillNamed(p) : /\ id \in DOMAIN rows /\ Seen(p)[id] = rows[id] /\ rows[id].by # p
                                 /\ w[id].by = rows[id].by /\ w[id].version = rows[id].version
                                 /\ w[id].rater = rows[id].rater /\ ~w[id].active
  <2> TAKE id \in StillNamed(p)
  <2>1. id \in DOMAIN rows /\ Seen(p)[id] = rows[id] /\ rows[id] \in Rating /\ rows[id].by # p
    BY <1>1, NamedInTable
  <2>2. w[id] = [rows[id] EXCEPT !.active = FALSE]
    BY <2>1
  <2> QED BY <2>1, <2>2 DEF Rating
<1>4. DOMAIN w = StillNamed(p)
  OBVIOUS
<1> HIDE DEF w
<1>5. /\ tx'[p].call = tx[p].call /\ tx'[p].step = step /\ tx'[p].version = tx[p].version
      /\ tx'[p].dropped = tx[p].dropped /\ tx'[p].found = NotYet
      /\ rows' = rows /\ versions' = versions /\ order' = order
  BY <1>2, WriteKeeps DEF IInv
<1>6. /\ DOMAIN tx'[p].writes = DOMAIN w \cup DOMAIN tx[p].writes
      /\ \A id \in DOMAIN w : tx'[p].writes[id] = w[id]
  BY <1>2, WriteValues DEF IInv
<1>7. OpFit(p)'
  BY <1>1, <1>2, <1>5 DEF OpFit
<1>8. DisplacedBy(p)'
  BY <1>1, <1>2, <1>5 DEF OpFit, DisplacedBy
<1>9. RemovalBy(p)'
  <2>1. DOMAIN tx[p].writes = {}
    BY <1>1 DEF OpFit
  <2>2. Removes(p)' => step = "reassign"
    BY <1>1, <1>2, <1>5 DEF Removes, OpFit
  <2>3. \A id \in DOMAIN tx'[p].writes : tx'[p].writes[id].rater = rows[id].rater
    BY <1>3, <1>4, <1>6, <2>1
  <2> QED BY <1>5, <2>2, <2>3 DEF RemovalBy
<1>10. Fresh(p) => Fresh(p)'
  <2> SUFFICES ASSUME Fresh(p) PROVE Fresh(p)'
    OBVIOUS
  <2>1. tx[p].found = Named(Seen(p), p)
    BY <1>1 DEF Fresh
  <2> PICK after : after = Seen(p)'
    OBVIOUS
  <2>0. /\ DOMAIN after = DOMAIN w \cup DOMAIN Seen(p)
        /\ \A id \in DOMAIN w : after[id] = w[id]
        /\ \A id \in DOMAIN Seen(p) \ DOMAIN w : after[id] = Seen(p)[id]
    BY <1>2, SeenAfter DEF IInv
  <2>2. \A u : ActiveOf(after, u) \subseteq ActiveOf(Seen(p), u) \ DOMAIN w
    <3> TAKE u
    <3>1. \A id \in DOMAIN w : after[id] = w[id] /\ ~w[id].active
      BY <1>3, <1>4, <2>0
    <3> QED BY <2>0, <3>1, FewerActive
  <2>3. ActiveOf(Seen(p), Tombstone) = {} \/ StillNamed(p) = ActiveOf(Seen(p), Who(p))
    BY <1>1, <2>1 DEF StillNamed, Named, Clashing
  <2>4. tx[p].step # "clash" => StillNamed(p) = ActiveOf(Seen(p), Who(p))
    BY <1>1, <2>1 DEF StillNamed, Named
  <2>5. /\ step = "insert" => ActiveOf(after, Who(p)) = {}
        /\ ActiveOf(after, Tombstone) = {} \/ ActiveOf(after, Who(p)) = {}
    BY <1>2, <1>4, <2>2, <2>3, <2>4
  <2>6. tx[p].version \in versions \cup {0}
    BY DEF Fresh
  <2>7. ActiveOf(Seen(p), Who(p))' = ActiveOf(after, Who(p)) /\ ActiveOf(Seen(p), Tombstone)' = ActiveOf(after, Tombstone)
    BY <1>5 DEF ActiveOf, RatingsOf, Present, Who
  <2> QED BY <1>2, <1>5, <2>5, <2>6, <2>7 DEF Fresh
<1>11. \A id \in DOMAIN w : FromRow(w[id], rows[id], p)
  BY <1>3, <1>4 DEF FromRow
<1>12. tx[p].step \notin Ended \cup {"commit"} /\ step \notin Ended
  BY <1>1, <1>2 DEF Ended
<1> QED BY <1>2, <1>3, <1>4, <1>7, <1>8, <1>9, <1>10, <1>11, <1>12, WriteHistory

(* A new rating follows the active one its call superseded, of a version    *)
(* that is there to stay.                                                   *)
LEMMA InsertHistory ==
    ASSUME IInv, HInv, NEW p \in Process, InsertRating(p)
    PROVE  HInv'
<1> USE DEF HInv
<1>1. /\ tx[p].step = "insert" /\ WaitsFor(p) = {} /\ tx[p].step \notin Ended \cup {"commit"}
      /\ OpFit(p) /\ tx[p].call.op = "record" /\ p \notin DOMAIN rows
  BY DEF InsertRating, At, Ended, OpFits, OpFit, IInv, StepsFit
<1>2. CASE Refused(p, Who(p)) \/ tx[p].version \notin versions \cup {0}
  <2>1. ~Fresh(p)
    BY <1>1, <1>2 DEF Fresh, Refused
  <2>2. Late(p)
    BY <1>1, <2>1 DEF Refusals, InFlight
  <2>3. Fail(p, "duplicate") \/ Fail(p, "refused")
    BY <1>2 DEF InsertRating
  <2> QED BY <1>1, <2>2, <2>3, FailHistory
<1>3. CASE ~(Refused(p, Who(p)) \/ tx[p].version \notin versions \cup {0})
  <2> DEFINE w == [id \in {p} |-> [rater |-> Who(p), version |-> tx[p].version,
                                   active |-> TRUE, prose |-> TRUE, by |-> p]]
  <2>1. Write(p, w, "commit")
    BY <1>3 DEF InsertRating
  <2>2. DOMAIN w = {p} /\ w[p].by = p /\ w[p].version = tx[p].version /\ w[p].rater = Who(p)
    OBVIOUS
  <2> HIDE DEF w
  <2>3. /\ tx'[p].call = tx[p].call /\ tx'[p].step = "commit" /\ tx'[p].version = tx[p].version
        /\ tx'[p].dropped = tx[p].dropped /\ tx'[p].found = NotYet
        /\ rows' = rows /\ versions' = versions /\ order' = order
    BY <2>1, WriteKeeps DEF IInv
  <2>4. /\ DOMAIN tx'[p].writes = DOMAIN w \cup DOMAIN tx[p].writes
        /\ \A id \in DOMAIN tx[p].writes \ DOMAIN w : tx'[p].writes[id] = tx[p].writes[id]
    BY <2>1, WriteValues DEF IInv
  <2>5. OpFit(p)'
    BY <1>1, <2>3 DEF OpFit
  <2>6. DisplacedBy(p)'
    <3> SUFFICES ASSUME NEW id \in DOMAIN rows, rows[id].rater = Who(p), rows[id].active
                 PROVE  id \in DOMAIN tx'[p].writes /\ ~tx'[p].writes[id].active
      BY <2>3 DEF DisplacedBy, Before, Who
    <3>1. id \in DOMAIN Seen(p) /\ ~(Seen(p)[id].rater = Who(p) /\ Seen(p)[id].active)
      <4>1. id \in DOMAIN Seen(p)
        BY SeenRows
      <4>2. ActiveOf(Seen(p), Who(p)) = {}
        BY <1>3 DEF Refused
      <4> QED BY <4>1, <4>2, ActiveRows
    <3>2. id \in DOMAIN tx[p].writes /\ Seen(p)[id] = tx[p].writes[id]
      BY <3>1, SeenRows
    <3>3. FromRow(tx[p].writes[id], rows[id], p)
      BY <3>2 DEF Provenance, WrittenBy
    <3>4. ~tx[p].writes[id].active
      BY <1>1, <3>1, <3>2, <3>3 DEF FromRow, Gone
    <3> QED BY <1>1, <2>2, <2>4, <3>2, <3>4
  <2>7. RemovalBy(p)'
    BY <1>1, <2>3 DEF RemovalBy, Removes
  <2>8. Fresh(p) => Fresh(p)'
    BY <2>3 DEF Fresh, Updates
  <2>9. \A q \in Process \ {p} : tx[p].version \notin tx[q].dropped
    BY <1>1 DEF WaitsFor, Updates
  <2> QED BY <1>1, <1>3, <2>1, <2>2, <2>5, <2>6, <2>7, <2>8, <2>9, WriteHistory DEF Ended
<1> QED BY <1>2, <1>3

(* What a removal is to remove is there for its statement to write.         *)
LEMMA StillToRemove ==
    ASSUME IInv, HInv, NEW p \in Process, Removes(p), tx[p].step \in {"reassign", "wipe"},
           tx[p].found # NotYet, NEW id \in DOMAIN rows, ToRemove(id, p)
    PROVE  id \in StillNamed(p)
<1>1. RemovalBy(p)
  BY DEF HInv, Removal
<1>2. id \in tx[p].found
  BY <1>1 DEF RemovalBy
<1>3. id \in Named(Seen(p), p)
  BY <1>1, FindsToRemove DEF HInv
<1> QED BY <1>2, <1>3 DEF StillNamed

(* The tombstone takes over every rating that is its to take over. *)
LEMMA ReassignHistory ==
    ASSUME IInv, HInv, NEW p \in Process, ReassignRatings(p)
    PROVE  HInv'
<1> USE DEF HInv
<1>1. /\ tx[p].step = "reassign" /\ WaitsFor(p) = {} /\ tx[p].step \in Updates
      /\ tx[p].step \notin Ended \cup {"commit"} /\ tx[p].found # NotYet
      /\ OpFit(p) /\ tx[p].call.op = "erase"
  BY DEF ReassignRatings, At, Updates, Ended, OpFits, OpFit
<1>2. CASE StillNamed(p) \cap ActiveOf(Seen(p), Who(p)) # {} /\ Refused(p, Tombstone)
  <2>1. ~Fresh(p)
    BY <1>1, <1>2 DEF Fresh, Refused
  <2>2. Late(p)
    BY <1>1, <2>1 DEF Refusals, InFlight
  <2>3. Fail(p, "duplicate")
    BY <1>2 DEF ReassignRatings
  <2> QED BY <1>1, <2>2, <2>3, FailHistory
<1>3. CASE ~(StillNamed(p) \cap ActiveOf(Seen(p), Who(p)) # {} /\ Refused(p, Tombstone))
  <2> DEFINE w == [id \in StillNamed(p) |-> [Seen(p)[id] EXCEPT !.rater = Tombstone, !.prose = FALSE]]
  <2>1. Write(p, w, "commit") /\ DOMAIN w = StillNamed(p)
    BY <1>3 DEF ReassignRatings, Update
  <2>2. \A id \in StillNamed(p) : /\ id \in DOMAIN rows /\ rows[id].by # p
                                   /\ w[id].by = rows[id].by /\ w[id].version = rows[id].version
                                   /\ w[id].rater = Tombstone
    <3> TAKE id \in StillNamed(p)
    <3>1. /\ id \in DOMAIN rows /\ Seen(p)[id] \in Rating /\ Seen(p)[id].by # p
          /\ Seen(p)[id].by = rows[id].by /\ Seen(p)[id].version = rows[id].version
      BY <1>1, NamedInTable
    <3>2. w[id] = [Seen(p)[id] EXCEPT !.rater = Tombstone, !.prose = FALSE]
      OBVIOUS
    <3> HIDE DEF w
    <3>3. w[id].by = Seen(p)[id].by /\ w[id].version = Seen(p)[id].version /\ w[id].rater = Tombstone
      BY <3>1, <3>2 DEF Rating
    <3> QED BY <3>1, <3>3
  <2> HIDE DEF w
  <2>3. /\ tx'[p].call = tx[p].call /\ tx'[p].step = "commit" /\ tx'[p].version = tx[p].version
        /\ tx'[p].dropped = tx[p].dropped /\ tx'[p].found = NotYet
        /\ rows' = rows /\ versions' = versions /\ order' = order
    BY <2>1, WriteKeeps DEF IInv
  <2>4. /\ DOMAIN tx'[p].writes = DOMAIN w \cup DOMAIN tx[p].writes
        /\ \A id \in DOMAIN w : tx'[p].writes[id] = w[id]
    BY <2>1, WriteValues DEF IInv
  <2>5. OpFit(p)' /\ DisplacedBy(p)'
    BY <1>1, <2>3 DEF OpFit, DisplacedBy
  <2>6. RemovalBy(p)'
    <3>1. ASSUME NEW id \in DOMAIN rows, ToRemove(id, p)
          PROVE  id \in DOMAIN tx'[p].writes /\ tx'[p].writes[id].rater = Tombstone
      BY <1>1, <2>1, <2>2, <2>4, <3>1, StillToRemove DEF Removes
    <3>2. \A id : ToRemove(id, p)' => ToRemove(id, p)
      BY <2>3 DEF ToRemove, Before, Who
    <3> QED BY <1>1, <2>3, <3>1, <3>2 DEF RemovalBy, Removed
  <2>7. Fresh(p) => Fresh(p)'
    BY <2>3 DEF Fresh, Updates
  <2>8. \A id \in DOMAIN w : FromRow(w[id], rows[id], p)
    BY <1>1, <2>1, <2>2 DEF FromRow
  <2> QED BY <1>1, <2>1, <2>2, <2>5, <2>6, <2>7, <2>8, WriteHistory DEF Ended
<1> QED BY <1>2, <1>3

(* A deletion leaves no rating it is to delete. *)
LEMMA WipeHistory ==
    ASSUME IInv, HInv, NEW p \in Process, WipeRatings(p)
    PROVE  HInv'
<1> USE DEF HInv
<1> DEFINE w == [id \in StillNamed(p) |-> Gone]
<1>1. /\ tx[p].step = "wipe" /\ WaitsFor(p) = {} /\ tx[p].step \in Updates
      /\ tx[p].step \notin Ended \cup {"commit"} /\ tx[p].found # NotYet
      /\ OpFit(p) /\ tx[p].call.op = "delete"
  BY DEF WipeRatings, At, Updates, Ended, OpFits, OpFit
<1>2. Write(p, w, "drop") /\ DOMAIN w = StillNamed(p)
  BY DEF WipeRatings, Update
<1>3. \A id \in StillNamed(p) : id \in DOMAIN rows /\ w[id] = Gone
  BY <1>1, NamedInTable
<1> HIDE DEF w
<1>4. /\ tx'[p].call = tx[p].call /\ tx'[p].step = "drop" /\ tx'[p].version = tx[p].version
      /\ tx'[p].dropped = tx[p].dropped /\ tx'[p].found = NotYet
      /\ rows' = rows /\ versions' = versions /\ order' = order
  BY <1>2, WriteKeeps DEF IInv
<1>5. /\ DOMAIN tx'[p].writes = DOMAIN w \cup DOMAIN tx[p].writes
      /\ \A id \in DOMAIN w : tx'[p].writes[id] = w[id]
  BY <1>2, WriteValues DEF IInv
<1>6. OpFit(p)' /\ DisplacedBy(p)'
  BY <1>1, <1>4 DEF OpFit, DisplacedBy
<1>7. RemovalBy(p)'
  <2>1. ASSUME NEW id \in DOMAIN rows, ToRemove(id, p)
        PROVE  id \in DOMAIN tx'[p].writes /\ tx'[p].writes[id] = Gone
    BY <1>1, <1>2, <1>3, <1>5, <2>1, StillToRemove DEF Removes
  <2>2. \A id : ToRemove(id, p)' => ToRemove(id, p)
    BY <1>4 DEF ToRemove, Before, Who
  <2> QED BY <1>1, <1>4, <2>1, <2>2 DEF RemovalBy, Removed
<1>8. Fresh(p) => Fresh(p)'
  <2> SUFFICES ASSUME Fresh(p) PROVE Fresh(p)'
    OBVIOUS
  <2>1. StillNamed(p) = Present(Seen(p))
    BY <1>1 DEF Fresh, StillNamed, Named, Wiped
  <2>2. Present(Seen(p))' = {}
    <3>1. /\ DOMAIN Seen(p)' = DOMAIN w \cup DOMAIN Seen(p)
          /\ \A id \in DOMAIN w : Seen(p)'[id] = w[id]
          /\ \A id \in DOMAIN Seen(p) \ DOMAIN w : Seen(p)'[id] = Seen(p)[id]
      BY <1>2, SeenAfter DEF IInv
    <3> QED BY <1>2, <1>3, <2>1, <3>1 DEF Present
  <2> QED BY <1>4, <2>2 DEF Fresh, Updates
<1>9. \A id \in DOMAIN w : id \in DOMAIN rows /\ FromRow(w[id], rows[id], p) /\ w[id].by # p
  BY <1>2, <1>3, RatingAssumption DEF FromRow, Gone
<1> QED BY <1>1, <1>2, <1>6, <1>7, <1>8, <1>9, WriteHistory DEF Ended

(***************************************************************************)
(* Commit, and the invariant                                               *)
(***************************************************************************)

(* Only raters judge and are erased. *)
LEMMA CallsOfRaters ==
    ASSUME IInv, NEW p \in Process, tx[p].call.op \in {"record", "erase"}
    PROVE  Who(p) \in Rater /\ Who(p) # Tombstone
<1>1. tx[p].call \in CallShape \cup {NoCall}
  BY DEF IInv, TxOK, Tx
<1> QED BY <1>1, RatingAssumption DEF CallShape, NoCall, Who

(* A row in the table after a commit is the judgement of the call, or what  *)
(* it was but for what the call may do to it.                               *)
Judged(id, p) ==
    /\ rows'[id].by = p /\ rows'[id].version = tx[p].version /\ rows'[id].rater = Who(p)
    /\ tx[p].call.op = "record"

Inherited(id, p) ==
    /\ id \in DOMAIN rows /\ rows'[id].by # p
    /\ rows'[id].by = rows[id].by /\ rows'[id].version = rows[id].version
    /\ rows'[id].rater # Tombstone => rows'[id].rater = rows[id].rater
    /\ rows'[id].active => rows[id].active

LEMMA CommitRows ==
    ASSUME IInv, HInv, NEW p \in Process, Commit(p)
    PROVE  /\ \A id \in DOMAIN rows' :
                 /\ id \in DOMAIN Seen(p) /\ rows'[id] = Seen(p)[id] /\ rows'[id] # Gone
                 /\ Judged(id, p) \/ Inherited(id, p)
           /\ \A id \in DOMAIN tx[p].writes :
                 id \in DOMAIN rows' => rows'[id] = tx[p].writes[id]
           /\ \A id \in DOMAIN rows \ DOMAIN tx[p].writes :
                 id \in DOMAIN rows' /\ rows'[id] = rows[id]
           /\ tx[p].step = "commit" /\ versions' = versions \ tx[p].dropped
           /\ newest' = newest /\ order' = order
           /\ \A q \in Process \ {p} : tx'[q] = tx[q]
           /\ tx'[p].call = tx[p].call /\ tx'[p].step = "done" /\ tx'[p].dropped = {}
           /\ DOMAIN tx'[p].writes = {}
<1> USE DEF HInv
<1> DEFINE t == Blank(tx[p].call, "done")
<1>1. /\ tx[p].step = "commit" /\ tx' = [tx EXCEPT ![p] = t]
      /\ rows' = [id \in Present(Seen(p)) |-> Seen(p)[id]]
      /\ versions' = versions \ tx[p].dropped /\ newest' = newest /\ order' = order
  BY DEF Commit, At
<1>2. t.call = tx[p].call /\ t.step = "done" /\ t.dropped = {} /\ DOMAIN t.writes = {}
  BY NothingWritten DEF Blank
<1> HIDE DEF t
<1>3. tx'[p] = t /\ \A q \in Process \ {p} : tx'[q] = tx[q]
  BY <1>1 DEF IInv, TxOK
<1>4. \A id \in DOMAIN rows' : id \in DOMAIN Seen(p) /\ rows'[id] = Seen(p)[id] /\ rows'[id] # Gone
  BY <1>1 DEF Present
<1>5. \A id \in DOMAIN tx[p].writes : id \in DOMAIN rows' => rows'[id] = tx[p].writes[id]
  BY <1>4, SeenRows
<1>6. ASSUME NEW id \in DOMAIN rows \ DOMAIN tx[p].writes
      PROVE  id \in DOMAIN rows' /\ rows'[id] = rows[id]
  <2>1. id \in DOMAIN Seen(p) /\ Seen(p)[id] = rows[id] /\ rows[id] # Gone
    BY SeenRows, RowsThere
  <2> QED BY <1>1, <2>1 DEF Present
<1>7. ASSUME NEW id \in DOMAIN rows' PROVE Judged(id, p) \/ Inherited(id, p)
  <2>1. \A i \in DOMAIN rows : rows[i].by # p
    BY <1>1, NotItsOwn
  <2>2. CASE id \in DOMAIN tx[p].writes
    <3>1. rows'[id] = tx[p].writes[id] /\ WrittenBy(p)
      BY <1>5, <2>2 DEF Provenance
    <3>2. CASE rows'[id].by = p
      BY <2>2, <3>1, <3>2 DEF WrittenBy, Judged
    <3>3. CASE rows'[id].by # p
      <4>1. id \in DOMAIN rows /\ FromRow(rows'[id], rows[id], p)
        BY <2>2, <3>1, <3>3 DEF WrittenBy
      <4>2. rows'[id].active => rows[id].active
        BY <1>4, <4>1, SeenKept
      <4> QED BY <1>4, <3>3, <4>1, <4>2 DEF FromRow, Inherited
    <3> QED BY <3>2, <3>3
  <2>3. CASE id \notin DOMAIN tx[p].writes
    <3>1. id \in DOMAIN rows /\ rows'[id] = rows[id]
      BY <1>4, <1>6, <2>3, SeenRows
    <3> QED BY <2>1, <3>1 DEF Inherited
  <2> QED BY <2>2, <2>3
<1> QED BY <1>1, <1>2, <1>3, <1>4, <1>5, <1>6, <1>7

LEMMA CommitHistory ==
    ASSUME IInv, HInv, NEW p \in Process, Commit(p)
    PROVE  HInv'
<1> USE DEF HInv
<1>1. /\ tx[p].step = "commit" /\ versions' = versions \ tx[p].dropped
      /\ newest' = newest /\ order' = order
      /\ \A q \in Process \ {p} : tx'[q] = tx[q]
      /\ tx'[p].call = tx[p].call /\ tx'[p].step = "done" /\ tx'[p].dropped = {}
      /\ DOMAIN tx'[p].writes = {}
  BY CommitRows
<1>2. \A id \in DOMAIN rows' :
         /\ id \in DOMAIN Seen(p) /\ rows'[id] = Seen(p)[id] /\ rows'[id] # Gone
         /\ Judged(id, p) \/ Inherited(id, p)
  BY CommitRows
<1>3. /\ \A id \in DOMAIN tx[p].writes : id \in DOMAIN rows' => rows'[id] = tx[p].writes[id]
      /\ \A id \in DOMAIN rows \ DOMAIN tx[p].writes : id \in DOMAIN rows' /\ rows'[id] = rows[id]
  BY CommitRows
<1>4. \A q \in Process \ {p} : DOMAIN tx[q].writes \cap DOMAIN tx[p].writes = {}
  BY DEF IInv, WritesOK
<1>5. DOMAIN rows' \subseteq DOMAIN rows \cup DOMAIN tx[p].writes
  BY <1>2, SeenRows
<1>6. /\ p \in InFlight /\ tx[p].step \notin Ended
      /\ \A q \in Process : <<p, q>> \notin order
      /\ p \notin PastRow
  BY <1>1, RatingAssumption DEF InFlight, Ended, OrderOK
<1>7. ASSUME NEW id \in DOMAIN rows', NEW q \in Process, Before(rows'[id].by, q)
      PROVE  Inherited(id, p) /\ Before(rows[id].by, q) /\ Before(rows[id].by, q)'
  <2>1. rows'[id].by # p
    BY <1>6, <1>7 DEF Before
  <2>2. Inherited(id, p)
    BY <1>2, <2>1 DEF Judged
  <2> QED BY <1>1, <1>7, <2>2 DEF Before, Inherited
<1>8. \A by, q : Before(by, q)' <=> Before(by, q)
  BY <1>1 DEF Before
<1>9. OrderOK' /\ OpFits'
  BY <1>1, <1>6 DEF OrderOK, OpFits, OpFit, Ended
<1>10. Provenance'
  <2>1. ASSUME NEW id \in DOMAIN rows'
        PROVE  rows'[id].by \in PastRow \/ (rows'[id].by \in Process /\ tx'[rows'[id].by].step = "done")
    <3>1. CASE Judged(id, p)
      BY <1>1, <3>1 DEF Judged
    <3>2. CASE Inherited(id, p)
      BY <1>1, <3>2 DEF Inherited, Provenance
    <3> QED BY <1>2, <3>1, <3>2
  <2>2. ASSUME NEW q \in Process \ {p} PROVE WrittenBy(q)'
    <3>1. tx'[q] = tx[q] /\ WrittenBy(q)
      BY <1>1 DEF Provenance
    <3>2. \A id \in DOMAIN tx[q].writes :
             /\ id \in DOMAIN rows' <=> id \in DOMAIN rows
             /\ id \in DOMAIN rows => rows'[id] = rows[id]
      BY <1>3, <1>4, <1>5
    <3> QED BY <3>1, <3>2 DEF WrittenBy, FromRow, Who
  <2>3. WrittenBy(p)'
    BY <1>1 DEF WrittenBy
  <2> QED BY <2>1, <2>2, <2>3 DEF Provenance
<1>11. Registered'
  <2>1. ASSUME NEW id \in DOMAIN rows'
        PROVE  /\ rows'[id].version \in versions \cup {0} /\ rows'[id].version \notin tx[p].dropped
               /\ id \in DOMAIN rows => rows'[id].version = rows[id].version
               /\ id \notin DOMAIN rows => \A q \in Process : rows'[id].version \notin tx[q].dropped
    <3>1. rows'[id].version \notin tx[p].dropped
      BY <1>2 DEF Registered
    <3>2. CASE id \in DOMAIN rows
      <4>1. rows'[id].version = rows[id].version
        <5>1. CASE id \in DOMAIN tx[p].writes
          <6>1. FromRow(rows'[id], rows[id], p)
            BY <1>3, <3>2, <5>1 DEF Provenance, WrittenBy
          <6> QED BY <1>2, <6>1 DEF FromRow
        <5>2. CASE id \notin DOMAIN tx[p].writes
          BY <1>3, <3>2, <5>2
        <5> QED BY <5>1, <5>2
      <4> QED BY <3>1, <3>2, <4>1 DEF Registered
    <3>3. CASE id \notin DOMAIN rows
      <4>1. id \in DOMAIN tx[p].writes \ DOMAIN rows /\ rows'[id] = tx[p].writes[id]
        BY <1>3, <1>5, <3>3
      <4> QED BY <3>1, <3>3, <4>1 DEF Registered
    <3> QED BY <3>2, <3>3
  <2>2. ASSUME NEW q \in Process \ {p}, NEW id \in DOMAIN Seen(q)'
        PROVE  Seen(q)'[id].version \notin tx[q].dropped
    <3>1. /\ DOMAIN Seen(q)' = DOMAIN tx[q].writes \cup DOMAIN rows'
          /\ \A i \in DOMAIN tx[q].writes : Seen(q)'[i] = tx[q].writes[i]
          /\ \A i \in DOMAIN rows' \ DOMAIN tx[q].writes : Seen(q)'[i] = rows'[i]
      BY <1>1 DEF Seen, Over
    <3>2. \A i \in DOMAIN Seen(q) : Seen(q)[i].version \notin tx[q].dropped
      BY DEF Registered
    <3>3. CASE id \in DOMAIN tx[q].writes
      BY <3>1, <3>2, <3>3, SeenRows
    <3>4. CASE id \in DOMAIN rows \ DOMAIN tx[q].writes
      <4>1. Seen(q)[id] = rows[id] /\ id \in DOMAIN Seen(q)
        BY <3>4, SeenRows
      <4> QED BY <2>1, <3>1, <3>2, <3>4, <4>1
    <3>5. CASE id \notin DOMAIN rows \cup DOMAIN tx[q].writes
      BY <2>1, <3>1, <3>5
    <3> QED BY <3>3, <3>4, <3>5
  <2>3. ASSUME NEW q \in Process \ {p}, NEW id \in DOMAIN tx[q].writes \ DOMAIN rows'
        PROVE  /\ tx[q].writes[id].version \in versions' \cup {0}
               /\ \A r \in Process : tx[q].writes[id].version \notin tx'[r].dropped
    <3>1. id \notin DOMAIN rows
      BY <1>3, <1>4
    <3> QED BY <1>1, <3>1 DEF Registered
  <2>4. \A q \in Process : tx'[q].dropped \subseteq 1 .. newest
    BY <1>1 DEF Registered
  <2>5. \A id \in DOMAIN rows' : rows'[id].version \in versions' \cup {0}
    BY <1>1, <2>1
  <2>6. ASSUME NEW q \in Process
        PROVE  /\ tx'[q].dropped \subseteq 1 .. newest'
               /\ \A id \in DOMAIN Seen(q)' : Seen(q)'[id].version \notin tx'[q].dropped
               /\ \A id \in DOMAIN tx'[q].writes \ DOMAIN rows' :
                     /\ tx'[q].writes[id].version \in versions' \cup {0}
                     /\ \A r \in Process : tx'[q].writes[id].version \notin tx'[r].dropped
    <3>1. CASE q = p
      BY <1>1, <2>4, <3>1
    <3>2. CASE q # p
      BY <1>1, <2>2, <2>3, <2>4, <3>2
    <3> QED BY <3>1, <3>2
  <2> QED BY <2>5, <2>6 DEF Registered
<1>12. NotNewer'
  <2> SUFFICES ASSUME NEW q \in Process \ {p}, q \in InFlight, tx[q].call.op = "record",
                      NEW id \in DOMAIN rows', Before(rows'[id].by, q)
               PROVE  rows'[id].version <= tx[q].version
    BY <1>1, <1>8 DEF NotNewer, InFlight, Ended
  <2>1. Inherited(id, p) /\ Before(rows[id].by, q)
    BY <1>7
  <2> QED BY <2>1 DEF NotNewer, Inherited
<1>13. Displaced'
  <2>1. DisplacedBy(p)'
    BY <1>1 DEF DisplacedBy
  <2>2. ASSUME NEW q \in Process \ {p} PROVE DisplacedBy(q)'
    <3> SUFFICES ASSUME tx[q].step = "commit", tx[q].call.op = "record", NEW id \in DOMAIN rows',
                        rows'[id].rater = Who(q), rows'[id].active, Before(rows'[id].by, q)
                 PROVE  /\ id \in DOMAIN tx[q].writes
                        /\ ~tx[q].writes[id].active \/ tx[q].writes[id].by = q
      BY <1>1, <1>8 DEF DisplacedBy, Who
    <3>1. Inherited(id, p) /\ Before(rows[id].by, q)
      BY <1>7
    <3>2. rows[id].rater = Who(q) /\ rows[id].active /\ id \in DOMAIN rows
      BY <3>1, CallsOfRaters DEF Inherited
    <3> QED BY <3>1, <3>2 DEF Displaced, DisplacedBy
  <2> QED BY <2>1, <2>2 DEF Displaced
<1>14. InTurn'
  <2> SUFFICES ASSUME NEW r \in DOMAIN rows', NEW s \in DOMAIN rows'
               PROVE  /\ rows'[r].by \in Process /\ Before(rows'[s].by, rows'[r].by) =>
                             rows'[s].version <= rows'[r].version
                      /\ rows'[r].by \in Process /\ rows'[r].by = rows'[s].by =>
                             rows'[s].version = rows'[r].version
                      /\ rows'[r].rater = rows'[s].rater /\ rows'[r].rater \in Rater /\ rows'[r].active =>
                             /\ ~(rows'[s].by \in Process /\ Before(rows'[r].by, rows'[s].by))
                             /\ rows'[r].by \in PastRow /\ rows'[s].by \in PastRow =>
                                    rows'[s].version <= rows'[r].version
    BY <1>8 DEF InTurn, SameRater
  <2>1. ASSUME rows'[r].by \in Process, Before(rows'[s].by, rows'[r].by)
        PROVE  rows'[s].version <= rows'[r].version
    <3>1. Inherited(s, p) /\ Before(rows[s].by, rows'[r].by)
      BY <1>7, <2>1
    <3>2. CASE Judged(r, p)
      BY <1>6, <3>1, <3>2 DEF Judged, Inherited, NotNewer
    <3>3. CASE Inherited(r, p)
      BY <2>1, <3>1, <3>3 DEF Inherited, InTurn
    <3> QED BY <1>2, <3>2, <3>3
  <2>2. ASSUME rows'[r].by \in Process, rows'[r].by = rows'[s].by
        PROVE  rows'[s].version = rows'[r].version
    <3>1. CASE Judged(r, p)
      BY <1>2, <2>2, <3>1 DEF Judged, Inherited
    <3>2. CASE Inherited(r, p)
      <4>1. Inherited(s, p)
        BY <1>2, <2>2, <3>2 DEF Judged, Inherited
      <4> QED BY <2>2, <3>2, <4>1 DEF Inherited, InTurn
    <3> QED BY <1>2, <3>1, <3>2
  <2>3. ASSUME rows'[r].rater = rows'[s].rater, rows'[r].rater \in Rater, rows'[r].active,
               rows'[s].by \in Process, Before(rows'[r].by, rows'[s].by)
        PROVE  FALSE
    <3>1. Inherited(r, p) /\ Before(rows[r].by, rows'[s].by)
      BY <1>7, <2>3
    <3>2. rows[r].rater = rows'[r].rater /\ rows[r].active /\ r \in DOMAIN rows
      BY <2>3, <3>1, RatingAssumption DEF Inherited
    <3>3. CASE Judged(s, p)
      <4>1. r \in DOMAIN tx[p].writes /\ (~tx[p].writes[r].active \/ tx[p].writes[r].by = p)
        BY <1>1, <2>3, <3>1, <3>2, <3>3 DEF Judged, Displaced, DisplacedBy
      <4> QED BY <1>3, <2>3, <3>1, <4>1 DEF Inherited
    <3>4. CASE Inherited(s, p)
      BY <2>3, <3>1, <3>2, <3>4, RatingAssumption DEF Inherited, InTurn, SameRater
    <3> QED BY <1>2, <3>3, <3>4
  <2>4. ASSUME rows'[r].rater = rows'[s].rater, rows'[r].rater \in Rater, rows'[r].active,
               rows'[r].by \in PastRow, rows'[s].by \in PastRow
        PROVE  rows'[s].version <= rows'[r].version
    <3>1. Inherited(r, p) /\ Inherited(s, p)
      BY <1>2, <1>6, <2>4 DEF Judged
    <3> QED BY <2>4, <3>1, RatingAssumption DEF Inherited, InTurn, SameRater
  <2> QED BY <2>1, <2>2, <2>3, <2>4
<1>15. Removal'
  <2>1. ASSUME NEW q \in Process, Removes(q), NEW id \in DOMAIN rows', ToRemove(id, q)'
        PROVE  Inherited(id, p) /\ ToRemove(id, q)
    <3>1. /\ Before(rows'[id].by, q) /\ Who(q)' = Who(q) /\ tx'[q].call = tx[q].call
          /\ tx[q].call.op = "erase" => rows'[id].rater = Who(q)
      BY <1>1, <1>8, <2>1 DEF ToRemove, Who
    <3>2. Inherited(id, p) /\ Before(rows[id].by, q)
      BY <1>7, <3>1
    <3>3. tx[q].call.op = "erase" => rows[id].rater = Who(q)
      BY <3>1, <3>2, CallsOfRaters DEF Inherited
    <3> QED BY <3>2, <3>3 DEF ToRemove
  <2>2. \A q \in Process : Removes(q)' <=> Removes(q)
    BY <1>1 DEF Removes
  <2>3. RemovalBy(p)'
    <3>1. ASSUME Removes(p), NEW id \in DOMAIN rows', ToRemove(id, p)' PROVE FALSE
      <4>1. Inherited(id, p) /\ ToRemove(id, p) /\ RemovalBy(p)
        BY <2>1, <3>1 DEF Removal
      <4>2. id \in DOMAIN tx[p].writes /\ Removed(tx[p].writes[id], p)
        BY <1>1, <3>1, <4>1 DEF RemovalBy, Inherited
      <4>3. Removed(rows'[id], p)
        BY <1>3, <4>2
      <4>4. CASE tx[p].call.op = "erase"
        <5>1. rows'[id].rater = Who(p)
          BY <1>1, <3>1, <4>4 DEF ToRemove, Who
        <5> QED BY <4>3, <4>4, <5>1, CallsOfRaters DEF Removed
      <4>5. CASE tx[p].call.op # "erase"
        BY <1>2, <4>3, <4>5 DEF Removed
      <4> QED BY <4>4, <4>5
    <3> QED BY <1>1, <2>2, <3>1 DEF RemovalBy
  <2>4. ASSUME NEW q \in Process \ {p} PROVE RemovalBy(q)'
    <3>1. tx'[q] = tx[q] /\ RemovalBy(q)
      BY <1>1 DEF Removal
    <3>2. \A id \in DOMAIN tx[q].writes \cap DOMAIN rows' : id \in DOMAIN rows /\ rows'[id] = rows[id]
      BY <1>3, <1>4, <1>5
    <3>3. \A row : Removed(row, q)' <=> Removed(row, q)
      BY <3>1 DEF Removed
    <3>4. \A id \in DOMAIN rows' : Removes(q) /\ ToRemove(id, q)' => id \in DOMAIN rows /\ ToRemove(id, q)
      BY <2>1 DEF Inherited
    <3> QED BY <2>2, <3>1, <3>2, <3>3, <3>4 DEF RemovalBy, Removed
  <2> QED BY <2>3, <2>4 DEF Removal
<1>16. Refusals'
  <2>1. ASSUME NEW q \in Process \ {p} PROVE Late(q)'
    BY <1>1, <1>6 DEF Late
  <2>2. ASSUME NEW q \in Process \ {p}, NEW a \in Process, Overlapped(q, a), tx[a].step = "done"
        PROVE  Overlapped(q, a)' /\ tx'[a].step = "done"
    BY <1>1, <2>2 DEF Overlapped
  <2> QED BY <1>1, <2>1, <2>2 DEF Refusals, InFlight, Ended
<1> QED BY <1>9, <1>10, <1>11, <1>12, <1>13, <1>14, <1>15, <1>16

LEMMA HistoryInit == Init => HInv
<1> SUFFICES ASSUME Init PROVE HInv
  OBVIOUS
<1>1. \A p \in Process : /\ tx[p].call = NoCall /\ tx[p].step = "idle"
                          /\ DOMAIN tx[p].writes = {} /\ tx[p].dropped = {}
  <2>1. \A p \in Process : tx[p] = Blank(NoCall, "idle")
    BY DEF Init
  <2> QED BY <2>1, NothingWritten DEF Blank
<1>2. PICK ids \in SUBSET PastRow :
         rows \in [ids -> [rater : Rater, version : 0..newest, active : BOOLEAN,
                          prose : {TRUE}, by : PastRow]]
  BY DEF Init
<1>3. \A id \in DOMAIN rows : rows[id].by \in PastRow /\ rows[id].version \in 0..newest
  BY <1>2
<1>4. OrderOK /\ OpFits /\ Displaced /\ Refusals
  BY <1>1 DEF Init, OrderOK, OpFits, OpFit, Displaced, DisplacedBy, Refusals, InFlight, Ended
<1>5. Provenance
  BY <1>1, <1>3 DEF Provenance, WrittenBy
<1>6. Registered
  <2>1. newest \in Nat /\ versions = 1..newest
    BY RatingAssumption DEF Init, Version
  <2> QED BY <1>1, <1>3, <2>1 DEF Registered
<1>7. NotNewer
  BY <1>1 DEF NotNewer, InFlight, Ended
<1>8. InTurn
  <2>1. \A i, j \in DOMAIN rows :
           rows[i].rater = rows[j].rater /\ rows[i].active => rows[j].version <= rows[i].version
    BY DEF Init
  <2> QED BY <1>3, <2>1, RatingAssumption DEF InTurn, SameRater
<1>9. Removal
  BY <1>1 DEF Removal, RemovalBy, Removes, NoCall
<1> QED BY <1>4, <1>5, <1>6, <1>7, <1>8, <1>9 DEF HInv

LEMMA HistoryNext == IInv /\ HInv /\ [Next]_vars => HInv'
<1> SUFFICES ASSUME IInv, HInv, [Next]_vars PROVE HInv'
  OBVIOUS
<1>1. RowsOK'
  BY IInvNext DEF IInv
<1>2. CASE RegisterVersion
  BY <1>1, <1>2, RegisterHistory DEF RegisterVersion
<1>3. ASSUME NEW p \in Process, NEW call \in CallShape, Begin(p, call) PROVE HInv'
  BY <1>3, BeginHistory
<1>4. ASSUME NEW p \in Process, Find(p) PROVE HInv'
  BY <1>4, FindHistory
<1>5. ASSUME NEW p \in Process, Commit(p) PROVE HInv'
  BY <1>5, CommitHistory
<1>6. ASSUME NEW p \in Process, EditRating(p) PROVE HInv'
  BY <1>6, EditHistory
<1>7. ASSUME NEW p \in Process, SupersedeRating(p) \/ WithdrawRating(p) \/ SupersedeClashing(p)
      PROVE HInv'
  BY <1>7, SupersedeHistory
<1>8. ASSUME NEW p \in Process, InsertRating(p) PROVE HInv'
  BY <1>8, InsertHistory
<1>9. ASSUME NEW p \in Process, ReassignRatings(p) PROVE HInv'
  BY <1>9, ReassignHistory
<1>10. ASSUME NEW p \in Process, WipeRatings(p) PROVE HInv'
  BY <1>10, WipeHistory
<1>11. ASSUME NEW p \in Process, DropVersions(p) PROVE HInv'
  BY <1>11, DropHistory
<1>12. CASE UNCHANGED vars
  BY <1>1, <1>12, RegisterHistory DEF vars
<1> QED BY <1>2, <1>3, <1>4, <1>5, <1>6, <1>7, <1>8, <1>9, <1>10, <1>11, <1>12 DEF Next

(* What calls rely on of those that had ended before them, they rely on in  *)
(* every reachable state.                                                   *)
THEOREM History == Spec => [](IInv /\ HInv)
<1>1. Init => IInv /\ HInv
  BY IInvInit, HistoryInit
<1>2. IInv /\ HInv /\ [Next]_vars => (IInv /\ HInv)'
  BY IInvNext, HistoryNext
<1> QED BY <1>1, <1>2, PTL DEF Spec

(* A rater's active rating is of an older version than another of theirs    *)
(* only if the calls that wrote the two were in flight together.            *)
THEOREM OlderRatingNeedsOverlap == Spec => []OlderRatingOnlyFromOverlap
<1>1. IInv /\ HInv => OlderRatingOnlyFromOverlap
  <2> SUFFICES ASSUME IInv, HInv, NEW u \in Rater, NEW r \in ActiveOf(rows, u), NEW s \in RatingsOf(rows, u),
                      rows[s].version > rows[r].version
               PROVE  Overlapped(rows[r].by, rows[s].by)
    BY DEF OlderRatingOnlyFromOverlap
  <2> USE DEF HInv
  <2>1. /\ r \in DOMAIN rows /\ s \in DOMAIN rows /\ rows[r].active
        /\ rows[r].rater = rows[s].rater /\ rows[r].rater \in Rater
    BY DEF ActiveOf, RatingsOf, Present
  <2>2. rows[r].version \in Nat /\ rows[s].version \in Nat /\ ~(rows[s].version <= rows[r].version)
    BY <2>1, RowsThere, RatingAssumption DEF Rating, Version
  <2>3. /\ rows[r].by \in Process => ~Before(rows[s].by, rows[r].by) /\ rows[r].by # rows[s].by
        /\ ~(rows[s].by \in Process /\ Before(rows[r].by, rows[s].by))
        /\ ~(rows[r].by \in PastRow /\ rows[s].by \in PastRow)
    <3>1. rows[r].by \in Process /\ rows[r].by = rows[s].by => rows[s].version = rows[r].version
      BY <2>1 DEF InTurn
    <3>2. rows[r].by \in Process /\ Before(rows[s].by, rows[r].by) => rows[s].version <= rows[r].version
      BY <2>1 DEF InTurn
    <3> QED BY <2>1, <2>2, <3>1, <3>2 DEF InTurn, SameRater
  <2>4. rows[r].by \in PastRow \cup Process /\ rows[s].by \in PastRow \cup Process
    BY <2>1 DEF Provenance
  <2> QED BY <2>3, <2>4 DEF Before, Overlapped
<1> QED BY <1>1, History, PTL

(* Nothing is left of an erased rater, or of a deleted artifact, but what a *)
(* call wrote that had not ended when the erasure or deletion began.        *)
THEOREM RemovedGoes == Spec => []RemovedIsGone
<1>1. IInv /\ HInv => RemovedIsGone
  <2> SUFFICES ASSUME IInv, HInv, NEW p \in Process, NEW id \in DOMAIN rows, tx[p].step = "done",
                      \/ tx[p].call.op = "erase" /\ rows[id].rater = Who(p)
                      \/ tx[p].call.op = "delete"
               PROVE  rows[id].by \in Process /\ <<rows[id].by, p>> \notin order
    BY DEF RemovedIsGone
  <2>1. RemovalBy(p) /\ Removes(p)
    BY DEF HInv, Removal, Removes
  <2>2. ~Before(rows[id].by, p)
    BY <2>1 DEF RemovalBy, ToRemove
  <2> QED BY <2>2 DEF Before, HInv, Provenance
<1> QED BY <1>1, History, PTL

(* A call is refused only if another one overlapped it and committed.       *)
THEOREM RefusalNeedsOverlap == Spec => []RefusedOnlyByOverlap
<1>1. HInv => RefusedOnlyByOverlap
  BY DEF HInv, Refusals, RefusedOnlyByOverlap
<1> QED BY <1>1, History, PTL
=============================================================================

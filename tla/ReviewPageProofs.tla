---------------------------- MODULE ReviewPageProofs ----------------------------
(***************************************************************************)
(* What a page shows is right or about to be fetched again: proved for any *)
(* number of reviewers and threads, and any number of posts, read marks    *)
(* and failures.                                                           *)
(***************************************************************************)
EXTENDS ReviewPage, TLAPS

(***************************************************************************)
(* Types                                                                   *)
(***************************************************************************)

(* The badges computed from any two answers of the server are counts. *)
LEMMA AnswerType ==
    ASSUME NEW comments \in [Threads -> Nat], NEW watermarks \in [Threads -> Nat]
    PROVE  /\ AssembleThreads(comments, watermarks) \in Answer
           /\ \A t \in Threads :
                 /\ AssembleThreads(comments, watermarks)[t].posted = comments[t]
                 /\ AssembleThreads(comments, watermarks)[t].unread
                       = UnreadCount(comments[t], watermarks[t])
<1>1. \A t \in Threads : UnreadCount(comments[t], watermarks[t]) \in Nat
  BY DEF UnreadCount
<1> QED BY <1>1 DEF AssembleThreads, Answer, Showing

(* Invalidating leaves a fetch in flight. *)
LEMMA InvalidateType ==
    ASSUME TypeOK, NEW v \in Readers
    PROVE  Invalidate(v) \in FetchCall
BY AbsenceAssumption DEF TypeOK, Invalidate, Asked, FetchCall, Counted

(* The initial state and every step are well typed. *)
LEMMA TypeInit == Init => TypeOK
BY ReadersAssumption, AbsenceAssumption DEF Init, TypeOK, Asked, FetchCall, Counted

LEMMA TypeStep == TypeOK /\ [Next]_vars => TypeOK'
<1> SUFFICES ASSUME TypeOK, [Next]_vars PROVE TypeOK'
  OBVIOUS
<1> USE DEF TypeOK
<1>1. ASSUME NEW v \in Readers, ReadComments(v) PROVE TypeOK'
  BY <1>1, AbsenceAssumption DEF ReadComments, server, FetchCall, Counted, Asked
<1>2. ASSUME NEW v \in Readers, ReadMarks(v) PROVE TypeOK'
  <2>1. fetch[v] \in [comments : [Threads -> Nat], seen : Counted]
    BY <1>2 DEF ReadMarks, FetchCall, Asked
  <2>2. seen[v] \in Counted
    BY ReadersAssumption DEF Counted
  <2>3. fetch' \in [Readers -> FetchCall \cup {NoFetch}]
    BY <1>2, <2>1, <2>2 DEF ReadMarks, FetchCall
  <2> QED BY <1>2, <2>3 DEF ReadMarks, server
<1>3. ASSUME NEW v \in Readers, Fill(v) PROVE TypeOK'
  <2>1. fetch[v].comments \in [Threads -> Nat] /\ fetch[v].seen \in [Threads -> Nat]
    BY <1>3 DEF Fill, FetchCall, Counted, Asked
  <2>2. AssembleThreads(fetch[v].comments, fetch[v].seen) \in Answer
    BY <2>1, AnswerType
  <2>3. best' \in [Readers -> [Threads -> Nat]]
    BY <1>3, <2>1 DEF Fill
  <2> QED BY <1>3, <2>2, <2>3 DEF Fill, server
<1>4. ASSUME NEW v \in Readers, Poll(v) PROVE TypeOK'
  BY <1>4 DEF Poll, server, Asked, FetchCall, Counted
<1>5. ASSUME NEW v \in Readers, CommentSent(v) PROVE TypeOK'
  BY <1>5, InvalidateType DEF CommentSent, server
<1>6. ASSUME NEW v \in Readers, ReceiveHint(v) PROVE TypeOK'
  BY <1>6, InvalidateType DEF ReceiveHint, server
<1>7. ASSUME NEW v \in Readers, NEW t \in Threads, MarkThreadSeen(v, t) PROVE TypeOK'
  <2>1. mark[v][t] \in MarkCall
    BY <1>7 DEF MarkThreadSeen
  <2>2. [mark[v][t] EXCEPT !.written = TRUE] \in MarkCall
    BY <2>1 DEF MarkCall
  <2>3. mark' \in [Readers -> [Threads -> MarkCall \cup {NoMark}]]
    BY <1>7, <2>2 DEF MarkThreadSeen
  <2>4. seen' \in [Viewers -> [Threads -> Nat]]
    BY <1>7, ReadersAssumption DEF MarkThreadSeen
  <2> QED BY <1>7, <2>3, <2>4 DEF MarkThreadSeen
<1>8. ASSUME NEW v \in Readers, NEW t \in Threads, MarkDone(v, t) PROVE TypeOK'
  BY <1>8, InvalidateType DEF MarkDone, Settle, server
<1>9. ASSUME NEW v \in Readers, NEW t \in Threads, MarkFailed(v, t) PROVE TypeOK'
  BY <1>9, InvalidateType DEF MarkFailed, Settle, server, MarkCall
<1>10. ASSUME NEW v \in Readers, NEW t \in Threads, OpenThread(v, t) PROVE TypeOK'
  BY <1>10 DEF OpenThread, server, MarkCall, Answer, Showing
<1>11. ASSUME NEW v \in Readers, FailFetch(v) PROVE TypeOK'
  BY <1>11 DEF FailFetch, server
<1>12. ASSUME NEW v \in Readers, Switch(v) PROVE TypeOK'
  BY <1>12 DEF Switch, server
<1>13. ASSUME NEW v \in Viewers, NEW t \in Threads, CreateComment(v, t) PROVE TypeOK'
  <2>1. sending' \in [Readers -> BOOLEAN]
    BY <1>13 DEF CreateComment
  <2>2. posted' \in [Threads -> Nat]
    BY <1>13 DEF CreateComment
  <2> QED BY <1>13, <2>1, <2>2 DEF CreateComment
<1>14. CASE CommentElsewhere
  BY <1>14 DEF CommentElsewhere, server
<1>16. ASSUME NEW v \in Viewers, UpdateThread(v) PROVE TypeOK'
  BY <1>16 DEF UpdateThread, server
<1>15. CASE UNCHANGED vars
  BY <1>15 DEF vars, server
<1> QED
  BY <1>1, <1>2, <1>3, <1>4, <1>5, <1>6, <1>7, <1>8, <1>9, <1>10, <1>11, <1>12, <1>13, <1>14, <1>15,
     <1>16
  DEF Next, PageStep

(* TypeOK, for any number of reviewers and threads: among the rest, a badge *)
(* never counts below zero though comments and marks are read apart.        *)
THEOREM TypeCorrect == Spec => []TypeOK
<1>1. Init => TypeOK
  BY TypeInit
<1>2. TypeOK /\ [Next]_vars => TypeOK'
  BY TypeStep
<1> QED BY <1>1, <1>2, PTL DEF Spec

(***************************************************************************)
(* What a page shows                                                       *)
(***************************************************************************)
Marking(v) == \E t \in Threads : mark[v][t] # NoMark

(* Why the page may show what it shows: its answer is the latest, or it is  *)
(* being fetched again; and an answer on its way is as good as its marks    *)
(* allow.                                                                   *)
CacheAgrees(v) ==
    cache[v] # NoData =>
        \A t \in Threads :
            \/ /\ cache[v][t].posted >= best[v][t]
               /\ cache[v][t].posted >= seen[v][t]
               /\ cache[v][t].unread = UnreadCount(cache[v][t].posted, seen[v][t])
            \/ UnderRepair(v)

ReadEnough(v) ==
    fetch[v] # NoFetch /\ fetch[v].comments # Unread =>
        \A t \in Threads :
            /\ fetch[v].comments[t] >= best[v][t]
            /\ fetch[v].comments[t] <= posted[t]
            /\ fetch[v].comments[t] >= seen[v][t] \/ Marking(v)
            /\ fetch[v].seen # Unread => fetch[v].seen[t] = seen[v][t] \/ Marking(v)

Behind(v) == \A t \in Threads : best[v][t] <= posted[t] /\ seen[v][t] <= posted[t]

MarksHaveData(v) == Marking(v) => cache[v] # NoData

PageInv(v) == CacheAgrees(v) /\ ReadEnough(v) /\ Behind(v) /\ MarksHaveData(v)

IInv == TypeOK /\ \A v \in Readers : PageInv(v)

LEMMA PageInit == Init => \A v \in Readers : PageInv(v)
BY ReadersAssumption, AbsenceAssumption
DEF Init, PageInv, CacheAgrees, ReadEnough, Behind, MarksHaveData, Marking, Asked

(* A step of somebody else leaves a page as it was. *)
LEMMA Undisturbed ==
    ASSUME TypeOK, NEW v \in Readers, PageInv(v),
           cache'[v] = cache[v], fetch'[v] = fetch[v], mark'[v] = mark[v], best'[v] = best[v],
           lapsed'[v] = lapsed[v], seen'[v] = seen[v],
           posted' \in [Threads -> Nat], \A t \in Threads : posted'[t] >= posted[t]
    PROVE  PageInv(v)'
<1>1. Marking(v)' <=> Marking(v)
  BY DEF Marking
<1>2. UnderRepair(v)' <=> UnderRepair(v)
  BY DEF UnderRepair
<1>3. CacheAgrees(v)'
  BY <1>2 DEF PageInv, CacheAgrees, UnreadCount
<1>4. ReadEnough(v)'
  <2> SUFFICES ASSUME fetch[v] # NoFetch, fetch[v].comments # Unread, NEW t \in Threads
               PROVE  fetch[v].comments[t] <= posted'[t]
    BY <1>1 DEF PageInv, ReadEnough
  <2>1. fetch[v].comments \in [Threads -> Nat]
    BY DEF TypeOK, FetchCall, Asked
  <2>2. fetch[v].comments[t] <= posted[t]
    BY DEF PageInv, ReadEnough
  <2>3. fetch[v].comments[t] \in Nat /\ posted[t] \in Nat /\ posted'[t] \in Nat
    BY <2>1 DEF TypeOK
  <2> QED BY <2>2, <2>3
<1>5. Behind(v)'
  <2> SUFFICES ASSUME NEW t \in Threads
               PROVE  best[v][t] <= posted'[t] /\ seen[v][t] <= posted'[t]
    BY DEF Behind
  <2>1. best[v][t] \in Nat /\ seen[v][t] \in Nat /\ posted[t] \in Nat /\ posted'[t] \in Nat
    BY ReadersAssumption DEF TypeOK
  <2> QED BY <2>1 DEF PageInv, Behind
<1>6. MarksHaveData(v)'
  BY <1>1 DEF PageInv, MarksHaveData
<1> QED BY <1>3, <1>4, <1>5, <1>6 DEF PageInv

(* A step that leaves a fetch in flight that has read nothing yet, or that  *)
(* asks for one later. *)
LEMMA Refetching ==
    ASSUME TypeOK, TypeOK', NEW v \in Readers, PageInv(v),
           seen'[v] = seen[v], posted' = posted, best'[v] = best[v],
           MarksHaveData(v)',
           fetch'[v] = Asked \/ (fetch'[v] = NoFetch /\ UnderRepair(v)')
    PROVE  PageInv(v)'
<1>1. Asked # NoFetch /\ Asked.comments = Unread
  BY AbsenceAssumption DEF FetchCall, Asked
<1>2. CacheAgrees(v)'
  BY <1>1 DEF CacheAgrees, UnderRepair
<1>3. ReadEnough(v)'
  BY <1>1 DEF ReadEnough
<1>4. Behind(v)'
  BY DEF PageInv, Behind
<1> QED BY <1>2, <1>3, <1>4 DEF PageInv

(* One step per handler of the page. *)
LEMMA PageKeeps ==
    ASSUME TypeOK, TypeOK', [Next]_vars, NEW v \in Readers, PageInv(v)
    PROVE  PageInv(v)'
<1> USE ReadersAssumption
<1>0. \A t \in Threads : /\ posted[t] \in Nat /\ seen[v][t] \in Nat /\ best[v][t] \in Nat
                         /\ posted[t] >= posted[t]
  BY DEF TypeOK
<1>1. ASSUME NEW w \in Readers, ReadComments(w) PROVE PageInv(v)'
  <2>1. CASE w = v
    <3>1. fetch'[v] = [comments |-> posted, seen |-> Unread]
      BY <1>1, <2>1 DEF ReadComments, Asked, TypeOK
    <3>2. fetch'[v] # NoFetch /\ fetch[v] # NoFetch
      BY <1>1, <2>1, <3>1, AbsenceAssumption DEF ReadComments, FetchCall, Asked, Counted, TypeOK
    <3>3. CacheAgrees(v)'
      BY <3>2 DEF CacheAgrees, UnderRepair
    <3>4. ReadEnough(v)'
      BY <1>0, <1>1, <3>1 DEF ReadEnough, PageInv, Behind, ReadComments, server
    <3> QED BY <1>1, <3>3, <3>4 DEF PageInv, Behind, MarksHaveData, Marking, ReadComments, server
  <2>2. CASE w # v
    BY <1>0, <1>1, <2>2, Undisturbed DEF ReadComments, server, TypeOK
  <2> QED BY <2>1, <2>2
<1>2. ASSUME NEW w \in Readers, ReadMarks(w) PROVE PageInv(v)'
  <2>1. CASE w = v
    <3>1. fetch[v].comments \in [Threads -> Nat]
      BY <1>2, <2>1 DEF ReadMarks, TypeOK, FetchCall, Asked
    <3>2. fetch'[v] = [comments |-> fetch[v].comments, seen |-> seen[v]]
      BY <1>2, <2>1 DEF ReadMarks, TypeOK, FetchCall, Asked
    <3>3. fetch'[v] # NoFetch
      <4>1. seen[v] \in Counted
        BY DEF TypeOK, Counted
      <4> QED BY <3>1, <3>2, <4>1, AbsenceAssumption DEF FetchCall
    <3>4. CacheAgrees(v)'
      BY <3>3 DEF CacheAgrees, UnderRepair
    <3>5. ReadEnough(v)'
      <4>1. fetch[v] # NoFetch /\ fetch[v].comments # Unread
        BY <1>2, <2>1 DEF ReadMarks
      <4>2. Marking(v)' <=> Marking(v)
        BY <1>2 DEF Marking, ReadMarks
      <4>3. seen' = seen /\ best' = best /\ posted' = posted
        BY <1>2 DEF ReadMarks, server
      <4> QED BY <3>2, <4>1, <4>2, <4>3 DEF ReadEnough, PageInv
    <3> QED BY <1>2, <3>4, <3>5 DEF PageInv, Behind, MarksHaveData, Marking, ReadMarks, server
  <2>2. CASE w # v
    BY <1>0, <1>2, <2>2, Undisturbed DEF ReadMarks, server, TypeOK
  <2> QED BY <2>1, <2>2
<1>3. ASSUME NEW w \in Readers, Fill(w) PROVE PageInv(v)'
  <2>1. CASE w = v
    <3>1. fetch[v] # NoFetch /\ fetch[v].comments # Unread /\ fetch[v].seen # Unread
      BY <1>3, <2>1, AbsenceAssumption DEF Fill, TypeOK, FetchCall, Asked
    <3>2. fetch[v].comments \in [Threads -> Nat] /\ fetch[v].seen \in [Threads -> Nat]
      BY <1>3, <2>1 DEF Fill, TypeOK, FetchCall, Asked, Counted
    <3>3. cache'[v] = AssembleThreads(fetch[v].comments, fetch[v].seen) /\ fetch'[v] = NoFetch
      BY <1>3, <2>1 DEF Fill, TypeOK
    <3>4. best'[v] = fetch[v].comments
      <4>1. best'[v] = [t \in Threads |-> IF best[v][t] < fetch[v].comments[t]
                                          THEN fetch[v].comments[t] ELSE best[v][t]]
        BY <1>3, <2>1 DEF Fill, TypeOK
      <4>2. \A t \in Threads : /\ fetch[v].comments[t] \in Nat
                              /\ fetch[v].comments[t] >= best[v][t]
        BY <3>1, <3>2 DEF PageInv, ReadEnough
      <4>3. \A t \in Threads : best'[v][t] = fetch[v].comments[t]
        BY <1>0, <4>1, <4>2
      <4> QED BY <3>2, <4>1, <4>3
    <3>5. seen' = seen /\ mark' = mark /\ posted' = posted
      BY <1>3 DEF Fill, server
    <3>6. CacheAgrees(v)'
      <4> SUFFICES ASSUME NEW t \in Threads, ~Marking(v)
                   PROVE  /\ cache'[v][t].posted >= best'[v][t]
                          /\ cache'[v][t].posted >= seen'[v][t]
                          /\ cache'[v][t].unread = UnreadCount(cache'[v][t].posted, seen'[v][t])
        BY <3>5 DEF CacheAgrees, UnderRepair, Marking
      <4>1. /\ cache'[v][t].posted = fetch[v].comments[t]
            /\ cache'[v][t].unread = UnreadCount(fetch[v].comments[t], fetch[v].seen[t])
        BY <3>2, <3>3, AnswerType
      <4>2. fetch[v].seen[t] = seen[v][t] /\ fetch[v].comments[t] >= seen[v][t]
        BY <3>1 DEF PageInv, ReadEnough
      <4>3. fetch[v].comments[t] >= fetch[v].comments[t]
        BY <3>2
      <4> QED BY <3>4, <3>5, <4>1, <4>2, <4>3
    <3>7. ReadEnough(v)'
      BY <3>3 DEF ReadEnough
    <3>8. Behind(v)'
      <4> SUFFICES ASSUME NEW t \in Threads
                   PROVE  best'[v][t] <= posted'[t] /\ seen'[v][t] <= posted'[t]
        BY DEF Behind
      <4> QED BY <3>1, <3>4, <3>5 DEF PageInv, ReadEnough, Behind
    <3>9. MarksHaveData(v)'
      <4>1. cache'[v] \in Answer
        BY <3>2, <3>3, AnswerType
      <4> QED BY <4>1, AbsenceAssumption DEF MarksHaveData
    <3> QED BY <3>6, <3>7, <3>8, <3>9 DEF PageInv
  <2>2. CASE w # v
    BY <1>0, <1>3, <2>2, Undisturbed DEF Fill, server, TypeOK
  <2> QED BY <2>1, <2>2
<1>4. ASSUME NEW w \in Readers, Poll(w) PROVE PageInv(v)'
  <2>1. CASE w = v
    <3>1. fetch'[v] = Asked
      BY <1>4, <2>1 DEF Poll, TypeOK
    <3>2. MarksHaveData(v)'
      BY <1>4 DEF Poll, PageInv, MarksHaveData, Marking
    <3> QED BY <1>4, <3>1, <3>2, Refetching DEF Poll, server
  <2>2. CASE w # v
    BY <1>0, <1>4, <2>2, Undisturbed DEF Poll, server, TypeOK
  <2> QED BY <2>1, <2>2
<1>5. ASSUME NEW w \in Readers, FailFetch(w) PROVE PageInv(v)'
  <2>1. CASE w = v
    <3>1. fetch'[v] = NoFetch /\ UnderRepair(v)'
      BY <1>5, <2>1 DEF FailFetch, TypeOK, UnderRepair
    <3>2. MarksHaveData(v)'
      BY <1>5 DEF FailFetch, PageInv, MarksHaveData, Marking
    <3> QED BY <1>5, <3>1, <3>2, Refetching DEF FailFetch, server
  <2>2. CASE w # v
    BY <1>0, <1>5, <2>2, Undisturbed DEF FailFetch, server, TypeOK
  <2> QED BY <2>1, <2>2
<1>6. ASSUME NEW w \in Readers, Switch(w) PROVE PageInv(v)'
  BY <1>0, <1>6, Undisturbed DEF Switch, server, TypeOK
<1>7. ASSUME NEW w \in Readers, NEW t \in Threads, OpenThread(w, t) PROVE PageInv(v)'
  <2>1. CASE w = v
    <3>1. cache[v] # NoData /\ cache'[v] \in Answer /\ fetch'[v] = NoFetch
      <4>1. cache[v] # NoData /\ cache[v] \in Answer
        BY <1>7, <2>1 DEF OpenThread, TypeOK
      <4>2. [cache[v] EXCEPT ![t].unread = 0] \in Answer
        BY <4>1 DEF Answer, Showing
      <4>3. cache'[v] = [cache[v] EXCEPT ![t].unread = 0] /\ fetch'[v] = NoFetch
        BY <1>7, <2>1 DEF OpenThread, TypeOK
      <4> QED BY <4>1, <4>2, <4>3
    <3>2. mark'[v][t] # NoMark
      <4>1. mark'[v][t] = [written |-> FALSE, previous |-> cache[v]]
        BY <1>7, <2>1 DEF OpenThread, TypeOK
      <4>2. cache[v] \in Answer
        BY <3>1 DEF TypeOK
      <4>3. mark'[v][t] \in MarkCall
        BY <4>1, <4>2 DEF MarkCall
      <4> QED BY <4>3, AbsenceAssumption
    <3>3. UnderRepair(v)' /\ MarksHaveData(v)'
      BY <3>1, <3>2, AbsenceAssumption DEF UnderRepair, MarksHaveData
    <3> QED BY <1>7, <3>1, <3>3, Refetching DEF OpenThread, server
  <2>2. CASE w # v
    BY <1>0, <1>7, <2>2, Undisturbed DEF OpenThread, server, TypeOK
  <2> QED BY <2>1, <2>2
<1>8. ASSUME NEW w \in Readers, NEW t \in Threads, MarkThreadSeen(w, t) PROVE PageInv(v)'
  <2>1. CASE w = v
    <3>1. Marking(v)' /\ cache'[v] = cache[v] /\ fetch' = fetch /\ posted' = posted /\ best' = best
      <4>1. mark[v][t] \in MarkCall
        BY <1>8, <2>1 DEF MarkThreadSeen, TypeOK
      <4>2. [mark[v][t] EXCEPT !.written = TRUE] \in MarkCall
        BY <4>1 DEF MarkCall
      <4>3. mark'[v][t] = [mark[v][t] EXCEPT !.written = TRUE]
        BY <1>8, <2>1 DEF MarkThreadSeen, TypeOK
      <4>4. Marking(v)'
        BY <4>2, <4>3, AbsenceAssumption DEF Marking
      <4> QED BY <1>8, <4>4 DEF MarkThreadSeen
    <3>2. CacheAgrees(v)' 
      BY <3>1 DEF CacheAgrees, UnderRepair, Marking
    <3>3. ReadEnough(v)'
      BY <3>1 DEF ReadEnough, PageInv
    <3>4. Behind(v)'
      <4>1. \A r \in Threads : seen'[v][r] \in {seen[v][r], posted[r]}
        BY <1>8, <2>1 DEF MarkThreadSeen, TypeOK
      <4> QED BY <1>0, <3>1, <4>1 DEF Behind, PageInv
    <3>5. MarksHaveData(v)'
      BY <1>8, <2>1, <3>1 DEF MarksHaveData, Marking, PageInv, MarkThreadSeen
    <3> QED BY <3>2, <3>3, <3>4, <3>5 DEF PageInv
  <2>2. CASE w # v
    BY <1>0, <1>8, <2>2, Undisturbed DEF MarkThreadSeen, TypeOK
  <2> QED BY <2>1, <2>2
<1>9. ASSUME NEW w \in Readers, NEW t \in Threads, MarkDone(w, t) PROVE PageInv(v)'
  <2>1. CASE w = v
    <3>1. cache[v] # NoData
      BY <1>9, <2>1 DEF MarkDone, PageInv, MarksHaveData, Marking
    <3>2. fetch'[v] = Asked
      BY <1>9, <2>1, <3>1 DEF MarkDone, Settle, Invalidate, TypeOK
    <3>3. MarksHaveData(v)'
      BY <1>9, <3>1 DEF MarkDone, MarksHaveData, server
    <3> QED BY <1>9, <3>2, <3>3, Refetching DEF MarkDone, server
  <2>2. CASE w # v
    BY <1>0, <1>9, <2>2, Undisturbed DEF MarkDone, server, TypeOK
  <2> QED BY <2>1, <2>2
<1>10. ASSUME NEW w \in Readers, NEW t \in Threads, MarkFailed(w, t) PROVE PageInv(v)'
  <2>1. CASE w = v
    <3>1. cache[v] # NoData
      BY <1>10, <2>1 DEF MarkFailed, PageInv, MarksHaveData, Marking
    <3>2. fetch'[v] = Asked
      BY <1>10, <2>1, <3>1 DEF MarkFailed, Settle, Invalidate, TypeOK
    <3>3. MarksHaveData(v)'
      <4>1. mark[v][t].previous \in Answer
        BY <1>10, <2>1 DEF MarkFailed, TypeOK, MarkCall
      <4>2. cache'[v] = mark[v][t].previous
        BY <1>10, <2>1 DEF MarkFailed, TypeOK
      <4> QED BY <4>1, <4>2, AbsenceAssumption DEF MarksHaveData
    <3> QED BY <1>10, <3>2, <3>3, Refetching DEF MarkFailed, server
  <2>2. CASE w # v
    BY <1>0, <1>10, <2>2, Undisturbed DEF MarkFailed, server, TypeOK
  <2> QED BY <2>1, <2>2
<1>11. ASSUME NEW w \in Viewers, NEW t \in Threads, CreateComment(w, t) PROVE PageInv(v)'
  <2>1. posted' \in [Threads -> Nat] /\ \A r \in Threads : posted'[r] >= posted[r]
    BY <1>0, <1>11 DEF CreateComment, TypeOK
  <2> QED BY <1>11, <2>1, Undisturbed DEF CreateComment
<1>12. CASE CommentElsewhere
  BY <1>0, <1>12, Undisturbed DEF CommentElsewhere, server, TypeOK
<1>15. ASSUME NEW w \in Viewers, UpdateThread(w) PROVE PageInv(v)'
  BY <1>0, <1>15, Undisturbed DEF UpdateThread, server, TypeOK
<1>13. ASSUME NEW w \in Readers, CommentSent(w) \/ ReceiveHint(w) PROVE PageInv(v)'
  <2>1. /\ cache' = cache /\ mark' = mark /\ best' = best /\ lapsed' = lapsed
        /\ seen' = seen /\ posted' = posted
        /\ fetch'[v] \in {fetch[v], Invalidate(v)}
    BY <1>13 DEF CommentSent, ReceiveHint, server, TypeOK
  <2>2. CASE fetch'[v] = fetch[v]
    BY <1>0, <2>1, <2>2, Undisturbed DEF TypeOK
  <2>3. CASE fetch'[v] = Asked
    <3>1. MarksHaveData(v)'
      BY <2>1 DEF PageInv, MarksHaveData, Marking
    <3> QED BY <2>1, <2>3, <3>1, Refetching
  <2> QED BY <2>1, <2>2, <2>3 DEF Invalidate
<1>14. CASE UNCHANGED vars
  BY <1>0, <1>14, Undisturbed DEF vars, server, TypeOK
<1> QED
  BY <1>1, <1>2, <1>3, <1>4, <1>5, <1>6, <1>7, <1>8, <1>9, <1>10, <1>11, <1>12, <1>13, <1>14, <1>15
  DEF Next, PageStep

LEMMA Inductive == Spec => []IInv
<1>1. Init => IInv
  BY TypeInit, PageInit DEF IInv
<1>2. IInv /\ [Next]_vars => IInv'
  BY TypeStep, PageKeeps DEF IInv
<1> QED BY <1>1, <1>2, PTL DEF Spec

(* WrongIsUnderRepair: whatever marks, failures, polls and posts did, in    *)
(* whatever order, a missing comment or a wrong badge is on its way out.    *)
THEOREM WrongIsRepaired == Spec => []WrongIsUnderRepair
<1>1. IInv => WrongIsUnderRepair
  <2> SUFFICES ASSUME IInv, NEW v \in Readers, cache[v] # NoData, NEW t \in Threads,
                      ~UnderRepair(v)
               PROVE  /\ ~(cache[v][t].posted < best[v][t])
                      /\ cache[v][t].unread = UnreadCount(cache[v][t].posted, seen[v][t])
    BY DEF WrongIsUnderRepair
  <2>1. cache[v][t].posted \in Nat /\ best[v][t] \in Nat
    BY DEF IInv, TypeOK, Answer, Showing
  <2> QED BY <2>1 DEF IInv, PageInv, CacheAgrees
<1> QED BY <1>1, Inductive, PTL

(* ReadIsShownSoon: a comment that counts as read but was never shown is on *)
(* its way to the page.                                                     *)
THEOREM ReadIsShown == Spec => []ReadIsShownSoon
<1>1. IInv => ReadIsShownSoon
  <2> SUFFICES ASSUME IInv, NEW v \in Readers, cache[v] # NoData, NEW t \in Threads,
                      ~UnderRepair(v)
               PROVE  ~(seen[v][t] > cache[v][t].posted)
    BY DEF ReadIsShownSoon
  <2>1. cache[v][t].posted \in Nat /\ seen[v][t] \in Nat
    BY ReadersAssumption DEF IInv, TypeOK, Answer, Showing
  <2> QED BY <2>1 DEF IInv, PageInv, CacheAgrees
<1> QED BY <1>1, Inductive, PTL
=============================================================================

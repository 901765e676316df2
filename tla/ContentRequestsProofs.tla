-------------------------- MODULE ContentRequestsProofs --------------------------
(***************************************************************************)
(* Nothing is written without access, a finished request is final, and the *)
(* allowlist keeps a maintainer while its changes do not overlap: proved   *)
(* for any people, tokens, artifacts, requests and calls.                  *)
(***************************************************************************)
EXTENDS ContentRequests, FiniteSetTheorems, TLAPS

AllowlistOp == {"add", "remove"}

CallRow ==
    [ op     : Op,
      by     : Person,
      via    : Token \cup {NoToken},
      viewer : [role : RoleSet, admin : BOOLEAN, scoped : BOOLEAN],
      pc     : {"token", "begun", "count", "write", "insert", "locked"},
      seen   : RoleSet ]

(* A call in flight is one its caller and token existed for. *)
Existed(c) ==
    /\ calls[c] \in CallRow
    /\ calls[c].by \in known
    /\ calls[c].via # NoToken => calls[c].via \in DOMAIN tokens
    /\ calls[c].op.name = "add" /\ calls[c].pc \in {"count", "write"}
          => calls[c].op.target \in known

(* It has been entitled to what it asks for once its viewer is known, but   *)
(* for a comment on content whose grant it has yet to look up.              *)
Covered(c) ==
    /\ held[c] \subseteq {"access", "token"}
    /\ "token" \in held[c]
    /\ /\ calls[c].pc # "token"
       /\ \/ calls[c].op.name # "comment"
          \/ calls[c].viewer.role # "none"
          \/ calls[c].pc = "insert"
       => "access" \in held[c]

CallsOK == \A c \in DOMAIN calls : Existed(c) /\ Covered(c)

(* Whoever has locked a request moves it where it may go, and is alone. *)
Locked(c) == At(c, "update", "locked")

LocksOK ==
    /\ \A c \in Call : Locked(c) =>
          /\ calls[c].op.request \in DOMAIN backlog
          /\ ~UpdateError(backlog[calls[c].op.request].status, calls[c].op)
    /\ \A c, d \in Call :
          Locked(c) /\ Locked(d) /\ calls[c].op.request = calls[d].op.request => c = d

(* While changes of the allowlist come one by one, each knows its target's  *)
(* role, and takes it from a maintainer only if there is another.           *)
MaintainerLeft(others) == \E p \in Person \ others : role[p] = "maintainer"

Demotes(c) == calls[c].seen = "maintainer" /\ NewRole(calls[c].op) # "maintainer"

AloneOK ==
    ~overlapped =>
        /\ MaintainerLeft({})
        /\ \A c, d \in DOMAIN calls :
              {calls[c].op.name, calls[d].op.name} \subseteq AllowlistOp => c = d
        /\ \A c \in DOMAIN calls :
              calls[c].op.name \in AllowlistOp /\ calls[c].pc \in {"count", "write"} =>
                  /\ calls[c].seen = role[calls[c].op.target]
                  /\ calls[c].pc = "write" /\ Demotes(c)
                        => MaintainerLeft({calls[c].op.target})

IInv == TypeOK /\ CallsOK /\ LocksOK /\ AloneOK

(***************************************************************************)
(* Helpers                                                                 *)
(***************************************************************************)
LEMMA IncludingIs ==
    ASSUME NEW table, NEW id, NEW row
    PROVE  /\ DOMAIN Including(table, id, row) = DOMAIN table \cup {id}
           /\ Including(table, id, row)[id] = row
           /\ \A k \in DOMAIN table \ {id} : Including(table, id, row)[k] = table[k]
BY DEF Including

(* A count of no maintainers is a set of none, and one of more than one     *)
(* leaves another beside anyone. *)
LEMMA Counting ==
    ASSUME NEW target
    PROVE  /\ MaintainerCount = 0 => ~MaintainerLeft({})
           /\ ~(MaintainerCount <= 1) => MaintainerLeft({target})
<1> DEFINE S == {p \in Person : role[p] = "maintainer"}
<1>1. IsFiniteSet(S)
  BY AccessAssumption, FS_Subset
<1>2. Cardinality(S) \in Nat
  BY <1>1, FS_CardinalityType
<1>3. Cardinality(S) = 0 => S = {}
  BY <1>1, FS_EmptySet
<1>4. ASSUME ~(Cardinality(S) <= 1) PROVE \E p \in S : p # target
  <2> SUFFICES ASSUME S \subseteq {target} PROVE FALSE
    OBVIOUS
  <2>1. IsFiniteSet({target}) /\ Cardinality({target}) = 1
    BY FS_Singleton
  <2>2. Cardinality(S) <= 1
    BY <2>1, FS_Subset
  <2> QED BY <1>4, <2>2
<1> QED BY <1>3, <1>4 DEF MaintainerCount, MaintainerLeft

(***************************************************************************)
(* The steps of a call                                                     *)
(***************************************************************************)
(* What a call is entitled to when it begins is what its viewer may do. *)
LEMMA AdmittedIsEntitled ==
    ASSUME NEW p \in Person, NEW op \in Op, NEW via, Admitted(op, ViewerOf(p), via),
           op.name # "comment" \/ ViewerOf(p).role # "none"
    PROVE  Entitled(p, op)
<1>1. ViewerOf(p).role # "none" => IsReviewer(p)
  BY DEF ViewerOf, IsReviewer
<1>2. ViewerOf(p).scoped => grant[p] # {}
  BY DEF ViewerOf, HasContentGrant
<1>3. ViewerOf(p).admin => p \in Admin
  BY DEF ViewerOf
<1>4. ViewerOf(p).role = "maintainer" => p \in Admin \/ role[p] = "maintainer"
  BY DEF ViewerOf
<1>5. op.name \in {"add", "remove", "mint", "revoke", "request", "suggest", "update", "comment"}
  BY OpAssumption
<1> QED BY <1>1, <1>2, <1>3, <1>4, <1>5 DEF Admitted, Entitled

LEMMA ViewerType ==
    ASSUME TypeOK, NEW p \in Person
    PROVE  ViewerOf(p) \in [role : RoleSet, admin : BOOLEAN, scoped : BOOLEAN]
BY DEF TypeOK, ViewerOf, RoleSet

LEMMA ObserveIs ==
    ASSUME TypeOK, Observe
    PROVE  /\ DOMAIN held' = DOMAIN calls'
           /\ \A c \in DOMAIN calls' :
                 held'[c] = EntitledNow(calls[c])' \cup (IF c \in DOMAIN calls THEN held[c] ELSE {})
           /\ \A c \in DOMAIN calls' : EntitledNow(calls[c])' \subseteq {"access", "token"}
BY DEF Observe, EntitledNow

(* A call that goes on has been entitled to no less. *)
LEMMA OthersCovered ==
    ASSUME TypeOK, CallsOK, Observe, NEW c \in DOMAIN calls, c \in DOMAIN calls',
           calls'[c].op = calls[c].op, calls'[c].viewer = calls[c].viewer,
           calls[c].pc = "token" => calls'[c].pc = "token",
           calls'[c].op.name = "comment" /\ calls'[c].pc = "insert"
              => calls[c].pc = "insert" \/ "access" \in held'[c]
    PROVE  Covered(c)'
<1>1. held[c] \subseteq held'[c] /\ held'[c] \subseteq held[c] \cup {"access", "token"}
  BY ObserveIs
<1> QED BY <1>1 DEF CallsOK, Covered

LEMMA OthersExisted ==
    ASSUME CallsOK, NEW c \in DOMAIN calls, calls'[c] = calls[c],
           known \subseteq known', DOMAIN tokens \subseteq DOMAIN tokens'
    PROVE  Existed(c)'
BY DEF CallsOK, Existed

(* A call ends. *)
LEMMA Ended ==
    ASSUME TypeOK, CallsOK, Observe, NEW c, End(c),
           known \subseteq known', DOMAIN tokens \subseteq DOMAIN tokens'
    PROVE  CallsOK'
<1>1. \A d \in DOMAIN calls' : d \in DOMAIN calls /\ calls'[d] = calls[d]
  BY DEF End
<1> QED BY <1>1, OthersCovered, OthersExisted DEF CallsOK

LEMMA Untouched ==
    ASSUME TypeOK, CallsOK, Observe, calls' = calls,
           known \subseteq known', DOMAIN tokens \subseteq DOMAIN tokens'
    PROVE  CallsOK'
BY OthersCovered, OthersExisted DEF CallsOK

(* A call goes on to another statement. *)
LEMMA MovedIs ==
    ASSUME CallsOK, NEW c \in DOMAIN calls, NEW pc, NEW seen, GoTo(c, pc, seen)
    PROVE  /\ DOMAIN calls' = DOMAIN calls
           /\ \A d \in DOMAIN calls \ {c} : calls'[d] = calls[d]
           /\ calls'[c] = [calls[c] EXCEPT !.pc = pc, !.seen = seen]
           /\ calls'[c].op = calls[c].op /\ calls'[c].viewer = calls[c].viewer
           /\ calls'[c].by = calls[c].by /\ calls'[c].via = calls[c].via
           /\ calls'[c].pc = pc /\ calls'[c].seen = seen
<1>1. calls[c] \in CallRow
  BY DEF CallsOK, Existed
<1> QED BY <1>1 DEF GoTo, CallRow

LEMMA Moved ==
    ASSUME TypeOK, CallsOK, Observe, NEW c \in DOMAIN calls, calls[c].pc # "token",
           NEW pc \in {"begun", "count", "write", "insert", "locked"}, NEW seen \in RoleSet,
           GoTo(c, pc, seen), known \subseteq known', DOMAIN tokens \subseteq DOMAIN tokens',
           calls[c].op.name = "add" /\ pc \in {"count", "write"} => calls[c].op.target \in known',
           calls[c].op.name = "comment" /\ pc = "insert" => "access" \in held'[c]
    PROVE  CallsOK'
<1>0. /\ DOMAIN calls' = DOMAIN calls
      /\ \A d \in DOMAIN calls \ {c} : calls'[d] = calls[d]
      /\ calls'[c] = [calls[c] EXCEPT !.pc = pc, !.seen = seen]
      /\ calls'[c].op = calls[c].op /\ calls'[c].viewer = calls[c].viewer
      /\ calls'[c].by = calls[c].by /\ calls'[c].via = calls[c].via
      /\ calls'[c].pc = pc
  <2>1. calls[c] \in CallRow
    BY DEF CallsOK, Existed
  <2> QED BY <2>1 DEF GoTo, CallRow
<1>1. ASSUME NEW d \in DOMAIN calls' PROVE Covered(d)'
  BY <1>0, OthersCovered
<1>2. ASSUME NEW d \in DOMAIN calls' \ {c} PROVE Existed(d)'
  BY <1>0, OthersExisted
<1>3. Existed(c)'
  <2>1. calls[c] \in CallRow /\ Existed(c)
    BY DEF CallsOK, Existed
  <2>2. calls'[c] \in CallRow
    BY <1>0, <2>1 DEF CallRow
  <2> QED BY <1>0, <2>1, <2>2 DEF Existed
<1> QED BY <1>1, <1>2, <1>3 DEF CallsOK

(* A call begins, its viewer known or not. *)
LEMMA Begun ==
    ASSUME TypeOK, CallsOK, Observe, NEW c, NEW p \in known', NEW via \in Token \cup {NoToken},
           NEW op \in Op, NEW viewer, NEW pc, Start(c, CallOf(op, p, via, viewer, pc)),
           \/ pc = "begun" /\ viewer = ViewerOf(p) /\ Admitted(op, viewer, via)
           \/ pc = "token" /\ viewer = Unresolved,
           via # NoToken => LookupToken(via),
           role' = role, grant' = grant, tokens' = tokens, known \subseteq known',
           known' \subseteq Registered
    PROVE  CallsOK'
<1> DEFINE row == CallOf(op, p, via, viewer, pc)
<1>1. c \notin DOMAIN calls /\ calls' = Including(calls, c, row)
  BY DEF Start, TypeOK
<1>2. DOMAIN calls' = DOMAIN calls \cup {c} /\ calls'[c] = row
      /\ \A d \in DOMAIN calls : calls'[d] = calls[d]
  <2> HIDE DEF row
  <2> QED BY <1>1 DEF Including
<1>3. ASSUME NEW d \in DOMAIN calls PROVE Existed(d)' /\ Covered(d)'
  BY <1>2, OthersCovered, OthersExisted DEF CallsOK
<1>4. p \in Person
  BY AccessAssumption
<1>5. Existed(c)'
  <2>1. viewer \in [role : RoleSet, admin : BOOLEAN, scoped : BOOLEAN]
    <3>1. ViewerOf(p) \in [role : RoleSet, admin : BOOLEAN, scoped : BOOLEAN]
      BY <1>4, ViewerType
    <3>2. Unresolved \in [role : RoleSet, admin : BOOLEAN, scoped : BOOLEAN]
      BY DEF Unresolved, RoleSet
    <3> QED BY <3>1, <3>2
  <2>2. row \in CallRow
    BY <1>4, <2>1 DEF CallOf, CallRow, RoleSet
  <2> QED BY <1>2, <2>2 DEF Existed, LookupToken, CallOf
<1>6. Covered(c)'
  <2>1. "token" \in EntitledNow(calls[c])'
    BY <1>2 DEF EntitledNow, LookupToken, CallOf
  <2>2. pc = "begun" /\ (op.name # "comment" \/ viewer.role # "none") => "access" \in EntitledNow(calls[c])'
    <3>1. pc = "begun" /\ (op.name # "comment" \/ viewer.role # "none") => Entitled(p, op)
      BY <1>4, AdmittedIsEntitled
    <3>2. Entitled(p, op)' <=> Entitled(p, op)
      BY DEF Entitled, IsReviewer
    <3> QED BY <1>2, <3>1, <3>2 DEF EntitledNow, CallOf
  <2>3. held'[c] = EntitledNow(calls[c])' /\ held'[c] \subseteq {"access", "token"}
    BY <1>1, <1>2, ObserveIs
  <2> QED BY <1>2, <2>1, <2>2, <2>3 DEF Covered, CallOf
<1> QED BY <1>2, <1>3, <1>5, <1>6 DEF CallsOK

(* The viewer of a call through a token is the one its owner is now. *)
LEMMA Resolved ==
    ASSUME TypeOK, CallsOK, Observe, NEW c, ResolveOwner(c)
    PROVE  CallsOK'
<1> DEFINE call == calls[c]
           viewer == ViewerOf(call.by)
           row == CallOf(call.op, call.by, call.via, viewer, "begun")
<1>0. /\ c \in DOMAIN calls /\ call.pc = "token"
      /\ known' = known /\ role' = role /\ grant' = grant /\ tokens' = tokens
  BY DEF ResolveOwner
<1>1. call \in CallRow /\ call.by \in known /\ Covered(c)
  BY <1>0 DEF CallsOK, Existed
<1>2. CASE End(c)
  BY <1>0, <1>2, Ended
<1>3. CASE Admitted(call.op, viewer, call.via) /\ calls' = [calls EXCEPT ![c] = row]
  <2>1. DOMAIN calls' = DOMAIN calls /\ calls'[c] = row /\ \A d \in DOMAIN calls \ {c} : calls'[d] = calls[d]
    BY <1>0, <1>3
  <2>2. ASSUME NEW d \in DOMAIN calls \ {c} PROVE Existed(d)' /\ Covered(d)'
    BY <1>0, <2>1, OthersCovered, OthersExisted DEF CallsOK
  <2>3. call.by \in Person /\ call.op \in Op
    BY <1>1, AccessAssumption DEF TypeOK, CallRow
  <2>4. Existed(c)'
    <3>1. row \in CallRow
      BY <1>1, <2>3, ViewerType DEF CallOf, CallRow, RoleSet
    <3>2. calls[c].via # NoToken => calls[c].via \in DOMAIN tokens
      BY <1>0 DEF CallsOK, Existed
    <3> QED BY <1>0, <1>1, <2>1, <3>1, <3>2 DEF Existed, CallOf
  <2>5. held'[c] = EntitledNow(calls[c])' \cup held[c] /\ EntitledNow(calls[c])' \subseteq {"access", "token"}
    BY <1>0, <2>1, ObserveIs
  <2>6. call.op.name # "comment" \/ viewer.role # "none" => "access" \in EntitledNow(calls[c])'
    <3>1. call.op.name # "comment" \/ viewer.role # "none" => Entitled(call.by, call.op)
      BY <1>3, <2>3, AdmittedIsEntitled
    <3>2. Entitled(call.by, call.op)' <=> Entitled(call.by, call.op)
      <4>1. calls'[c].by = call.by /\ calls'[c].op = call.op
        BY <2>1 DEF CallOf
      <4> QED BY <1>0, <4>1 DEF Entitled, IsReviewer
    <3>3. calls'[c].by = call.by /\ calls'[c].op = call.op
      BY <2>1 DEF CallOf
    <3> QED BY <3>1, <3>2, <3>3 DEF EntitledNow
  <2>7. Covered(c)'
    <3>1. /\ calls'[c].op = call.op /\ calls'[c].viewer = viewer /\ calls'[c].pc = "begun"
          /\ held[c] \subseteq {"access", "token"} /\ "token" \in held[c]
      BY <1>1, <2>1 DEF CallOf, Covered
    <3> HIDE DEF call, viewer, row
    <3> QED BY <2>5, <2>6, <3>1 DEF Covered
  <2> QED BY <2>1, <2>2, <2>4, <2>7 DEF CallsOK
<1> QED BY <1>2, <1>3 DEF ResolveOwner

(***************************************************************************)
(* Types                                                                   *)
(***************************************************************************)
LEMMA TypeInit == Init => TypeOK
BY AccessAssumption DEF Init, AccessInit, TypeOK, RoleSet, SuggestionState

LEMMA NewRoleType ==
    ASSUME NEW op \in Op, op.name \in AllowlistOp
    PROVE  NewRole(op) \in RoleSet
BY OpAssumption DEF NewRole, AllowlistOp, RoleSet

LEMMA TypeStep == TypeOK /\ CallsOK /\ LocksOK /\ [Next]_vars => TypeOK'
<1> SUFFICES ASSUME TypeOK, CallsOK, LocksOK, [Next]_vars PROVE TypeOK'
  OBVIOUS
<1> USE DEF TypeOK
<1>1. Next => DOMAIN held' = DOMAIN calls'
  BY DEF Next, Observe
<1>2. ASSUME NEW c \in Call, NEW op \in Op, NEW p \in Person, BeginInSession(c, p, op),
             UNCHANGED backlog, Next
      PROVE  TypeOK'
  <2>1. DOMAIN calls' = DOMAIN calls \cup {c}
    BY <1>2 DEF BeginInSession, Start, Including
  <2>2. tokens \in [DOMAIN tokens -> [owner : known', scopes : ScopeSet, live : BOOLEAN]]
    BY <1>2 DEF BeginInSession
  <2> QED BY <1>1, <1>2, <2>1, <2>2 DEF BeginInSession, Start
<1>3. ASSUME NEW c \in Call, NEW op \in Op, NEW t \in Token, BeginWithToken(c, t, op),
             UNCHANGED backlog, Next
      PROVE  TypeOK'
  <2>1. DOMAIN calls' = DOMAIN calls \cup {c}
    BY <1>3 DEF BeginWithToken, Start, Including
  <2> QED BY <1>1, <1>3, <2>1 DEF BeginWithToken, Start
<1>18. ASSUME NEW c \in Call, ResolveOwner(c), UNCHANGED backlog, Next PROVE TypeOK'
  BY <1>1, <1>18 DEF ResolveOwner, End
<1>19. ASSUME NEW c \in Call, SetSuggestionState(c), UNCHANGED backlog, Next PROVE TypeOK'
  <2>1. calls[c].op.state \in SuggestionState
    BY <1>19, OpAssumption DEF SetSuggestionState, At, CallsOK, Existed, CallRow
  <2>2. suggestion' \in [Suggestion -> SuggestionState]
    BY <1>19, <2>1 DEF SetSuggestionState
  <2> QED BY <1>1, <1>19, <2>2 DEF SetSuggestionState, End
<1>4. ASSUME NEW c \in Call, ReadTarget(c), UNCHANGED backlog, Next PROVE TypeOK'
  BY <1>1, <1>4 DEF ReadTarget, End, GoTo
<1>5. ASSUME NEW c \in Call, CountMaintainers(c), UNCHANGED backlog, Next PROVE TypeOK'
  BY <1>1, <1>5 DEF CountMaintainers, End, GoTo
<1>6. ASSUME NEW c \in Call, WriteAllowlist(c), UNCHANGED backlog, Next PROVE TypeOK'
  <2>1. c \in DOMAIN calls /\ calls[c].op \in Op /\ calls[c].op.name \in AllowlistOp
    BY <1>6 DEF WriteAllowlist, At, CallsOK, Existed, CallRow, AllowlistOp
  <2>2. calls[c].op.name = "add" => calls[c].op.target \in known
    BY <1>6 DEF WriteAllowlist, At, CallsOK, Existed
  <2>3. calls[c].op.name = "remove" => NewRole(calls[c].op) = "none"
    BY DEF NewRole
  <2>4. role' = [role EXCEPT ![calls[c].op.target] = NewRole(calls[c].op)]
    BY <1>6 DEF WriteAllowlist
  <2>5. \A p \in Person : role'[p] # "none" => p \in known
    BY <2>1, <2>2, <2>3, <2>4 DEF AllowlistOp
  <2>6. role' \in [Person -> RoleSet]
    BY <2>1, <2>4, NewRoleType
  <2>7. DOMAIN calls' \subseteq DOMAIN calls
    BY <1>6 DEF WriteAllowlist, End
  <2> QED BY <1>1, <1>6, <2>5, <2>6, <2>7 DEF WriteAllowlist
<1>7. ASSUME NEW c \in Call, NEW t \in Token, CreateApiToken(c, t), UNCHANGED backlog, Next
      PROVE  TypeOK'
  <2>1. c \in DOMAIN calls /\ calls[c].op \in Op /\ calls[c].op.name = "mint" /\ calls[c].by \in known
    BY <1>7 DEF CreateApiToken, At, CallsOK, Existed, CallRow
  <2>2. calls[c].op.scopes \in ScopeSet
    BY <2>1, OpAssumption
  <2> DEFINE row == [owner |-> calls[c].by, scopes |-> calls[c].op.scopes, live |-> TRUE]
  <2>3. row \in [owner : known, scopes : ScopeSet, live : BOOLEAN]
    BY <2>1, <2>2
  <2>4. tokens' = Including(tokens, t, row)
    BY <1>7 DEF CreateApiToken
  <2> HIDE DEF row
  <2>5. DOMAIN tokens' = DOMAIN tokens \cup {t}
        /\ tokens' \in [DOMAIN tokens' -> [owner : known, scopes : ScopeSet, live : BOOLEAN]]
    BY <2>3, <2>4 DEF Including
  <2> QED BY <1>1, <1>7, <2>5 DEF CreateApiToken, End
<1>8. ASSUME NEW c \in Call, RevokeApiToken(c), UNCHANGED backlog, Next PROVE TypeOK'
  <2> DEFINE t == calls[c].op.token
  <2>1. tokens' = tokens \/ (t \in DOMAIN tokens /\ tokens' = [tokens EXCEPT ![t].live = FALSE])
    BY <1>8 DEF RevokeApiToken
  <2> HIDE DEF t
  <2>2. tokens' \in [DOMAIN tokens -> [owner : known, scopes : ScopeSet, live : BOOLEAN]]
    BY <2>1
  <2> QED BY <1>1, <1>8, <2>2 DEF RevokeApiToken, End
<1>9. ASSUME NEW t \in Token, Expire(t), UNCHANGED backlog, Next PROVE TypeOK'
  BY <1>1, <1>9 DEF Expire, LookupToken
<1>10. ASSUME NEW p \in Person, NEW a \in Artifact, RequestReview(p, a), UNCHANGED backlog, Next
       PROVE  TypeOK'
  BY <1>1, <1>10 DEF RequestReview
<1>11. ASSUME NEW p \in Person, NEW a \in Artifact, NEW outcome \in SUBSET {<<a, "satisfied">>},
              CloseRequest(p, a, outcome), UNCHANGED backlog, Next
       PROVE  TypeOK'
  BY <1>1, <1>11 DEF CloseRequest
<1>12. ASSUME NEW c \in Call, CheckAccess(c), UNCHANGED backlog, Next PROVE TypeOK'
  BY <1>1, <1>12 DEF CheckAccess, End, GoTo
<1>13. ASSUME NEW c \in Call, InsertComment(c), UNCHANGED backlog, Next PROVE TypeOK'
  <2>1. calls[c].by \in known /\ calls[c].op.on \in Artifact
    BY <1>13, OpAssumption DEF InsertComment, At, CallsOK, Existed, CallRow
  <2> QED BY <1>1, <1>13, <2>1 DEF InsertComment, End
<1>14. ASSUME NEW c \in Call, NEW r \in Request, CreateContentRequest(c, r), Next PROVE TypeOK'
  <2>1. \A k \in DOMAIN backlog' :
          backlog'[k].status \in Status /\ (backlog'[k].status = "done" => backlog'[k].planned)
    BY <1>14 DEF CreateContentRequest, Including, Status
  <2>2. DOMAIN backlog' = DOMAIN backlog \cup {r}
    BY <1>14 DEF CreateContentRequest, Including
  <2> QED BY <1>1, <1>14, <2>1, <2>2 DEF CreateContentRequest, End
<1>15. ASSUME NEW c \in Call, SelectRequestForUpdate(c), Next PROVE TypeOK'
  BY <1>1, <1>15 DEF SelectRequestForUpdate, End, GoTo
<1>16. ASSUME NEW c \in Call, UpdateContentRequest(c), Next PROVE TypeOK'
  <2> DEFINE op == calls[c].op
  <2>1. op \in Op /\ op.name = "update" /\ op.to \in Status
    BY <1>16, OpAssumption DEF UpdateContentRequest, At, CallsOK, Existed, CallRow
  <2>2. op.request \in DOMAIN backlog /\ (op.to = "done" => op.planned)
    BY <1>16 DEF UpdateContentRequest, LocksOK, Locked, UpdateError
  <2>3. \A k \in DOMAIN backlog' :
          backlog'[k].status \in Status /\ (backlog'[k].status = "done" => backlog'[k].planned)
    BY <1>16, <2>1, <2>2 DEF UpdateContentRequest
  <2>4. DOMAIN backlog' = DOMAIN backlog
    BY <1>16 DEF UpdateContentRequest
  <2> QED BY <1>1, <1>16, <2>3, <2>4 DEF UpdateContentRequest, End
<1>17. CASE UNCHANGED vars
  BY <1>17 DEF vars
<1> QED
  BY <1>2, <1>3, <1>4, <1>5, <1>6, <1>7, <1>8, <1>9, <1>10, <1>11, <1>12, <1>13, <1>14, <1>15, <1>16,
     <1>17, <1>18, <1>19, AccessAssumption
  DEF Next, AccessNext

(***************************************************************************)
(* Calls, locks and changes of the allowlist in flight                     *)
(***************************************************************************)

(* Identities and tokens are never removed. *)
LEMMA Grows ==
    ASSUME TypeOK, [Next]_vars
    PROVE  known \subseteq known' /\ DOMAIN tokens \subseteq DOMAIN tokens'
BY DEF Next, AccessNext, BeginInSession, BeginWithToken, ReadTarget, CountMaintainers,
       WriteAllowlist, CreateApiToken, RevokeApiToken, Expire, RequestReview, CloseRequest,
       CheckAccess, InsertComment, ResolveOwner, SetSuggestionState, CreateContentRequest,
       SelectRequestForUpdate, UpdateContentRequest, vars, Including

(* Every call in flight stays accounted for. *)
LEMMA CallsStep ==
    ASSUME TypeOK, TypeOK', CallsOK, [Next]_vars
    PROVE  CallsOK'
<1>0. known \subseteq known' /\ DOMAIN tokens \subseteq DOMAIN tokens'
  BY Grows
<1>1. CASE UNCHANGED vars
  BY <1>1 DEF vars, CallsOK, Existed, Covered
<1>2. CASE Next
  <2>0. Observe
    BY <1>2 DEF Next
  <2>1. ASSUME NEW c, End(c) PROVE CallsOK'
    BY <1>0, <2>0, <2>1, Ended
  <2>2. CASE calls' = calls
    BY <1>0, <2>0, <2>2, Untouched
  <2>3. ASSUME NEW c \in Call, NEW op \in Op, NEW p \in Person, BeginInSession(c, p, op)
        PROVE  CallsOK'
    <3>1. p \in known' /\ known' \subseteq Registered
      BY <2>3 DEF BeginInSession, TypeOK
    <3> QED BY <1>0, <2>0, <2>3, <3>1, Begun DEF BeginInSession
  <2>4. ASSUME NEW c \in Call, NEW op \in Op, NEW t \in Token, BeginWithToken(c, t, op)
        PROVE  CallsOK'
    <3>1. tokens[t].owner \in known' /\ known' \subseteq Registered
      BY <2>4 DEF BeginWithToken, LookupToken, TypeOK
    <3> QED BY <1>0, <2>0, <2>4, <3>1, Begun DEF BeginWithToken, LookupToken
  <2>9. ASSUME NEW c \in Call, ResolveOwner(c) PROVE CallsOK'
    BY <2>0, <2>9, Resolved
  <2>5. ASSUME NEW c \in Call, ReadTarget(c) PROVE CallsOK'
    <3> DEFINE op == calls[c].op
               existing == role[op.target]
               pc == IF existing = "none" THEN "write" ELSE "count"
    <3>1. c \in DOMAIN calls /\ calls[c].pc # "token" /\ op \in Op /\ op.name \in AllowlistOp
      BY <2>5 DEF ReadTarget, At, CallsOK, Existed, CallRow, AllowlistOp
    <3>2. existing \in RoleSet
      BY <3>1, OpAssumption DEF TypeOK, AllowlistOp
    <3>3. CASE End(c)
      BY <2>1, <3>3
    <3>4. CASE GoTo(c, pc, existing) /\ (op.name = "add" => op.target \in known')
      <4>1. op.name # "comment"
        BY <3>1 DEF AllowlistOp
      <4>2. pc \in {"count", "write"}
        OBVIOUS
      <4> HIDE DEF pc, existing
      <4> QED BY <1>0, <2>0, <3>1, <3>2, <3>4, <4>1, <4>2, Moved
    <3> QED BY <2>5, <3>3, <3>4 DEF ReadTarget
  <2>6. ASSUME NEW c \in Call, CountMaintainers(c) PROVE CallsOK'
    <3>1. /\ c \in DOMAIN calls /\ calls[c].pc # "token" /\ calls[c].seen \in RoleSet
          /\ calls[c].op.name # "comment"
          /\ calls[c].op.name = "add" => calls[c].op.target \in known
      BY <2>6 DEF CountMaintainers, At, CallsOK, Existed, CallRow
    <3>2. CASE End(c)
      BY <2>1, <3>2
    <3>3. CASE GoTo(c, "write", calls[c].seen)
      BY <1>0, <2>0, <3>1, <3>3, Moved
    <3> QED BY <2>6, <3>2, <3>3 DEF CountMaintainers
  <2>7. ASSUME NEW c \in Call, CheckAccess(c), calls' # calls PROVE CallsOK'
    <3>1. c \in DOMAIN calls /\ calls[c].pc # "token" /\ calls[c].op.name = "comment"
      BY <2>7 DEF CheckAccess, At
    <3>2. CASE End(c)
      BY <2>1, <3>2
    <3>3. CASE RequireContentAccess(c) /\ GoTo(c, "insert", "none")
      <4>1. c \in DOMAIN calls' /\ calls'[c].op = calls[c].op /\ calls'[c].by = calls[c].by
        BY <3>1, <3>3, MovedIs, Zenon
      <4>2. calls[c].viewer.role # "none" => "access" \in held[c]
        BY <3>1 DEF CallsOK, Covered
      <4>3. HasContentGrant(calls[c].by, calls[c].op.on) => "access" \in EntitledNow(calls[c])'
        <5>1. ASSUME HasContentGrant(calls[c].by, calls[c].op.on) PROVE Entitled(calls[c].by, calls[c].op)
          <6>1. \A row \in grant[calls[c].by] :
                   row[1] = calls[c].op.on => row = <<calls[c].op.on, row[2]>>
            BY <3>1 DEF TypeOK, CallsOK, Existed, CallRow
          <6> QED BY <3>1, <5>1, <6>1 DEF HasContentGrant, Entitled
        <5>2. grant' = grant /\ role' = role
          BY <2>7 DEF CheckAccess
        <5> QED BY <4>1, <5>1, <5>2 DEF EntitledNow, Entitled, IsReviewer
      <4>4. "access" \in held'[c]
        <5>1. held'[c] = EntitledNow(calls[c])' \cup held[c]
          BY <2>0, <3>1, <4>1, ObserveIs
        <5> QED BY <3>3, <4>2, <4>3, <5>1 DEF RequireContentAccess
      <4> QED BY <1>0, <2>0, <3>1, <3>3, <4>4, Moved DEF RoleSet
    <3> QED BY <2>7, <3>2, <3>3 DEF CheckAccess
  <2>8. ASSUME NEW c \in Call, SelectRequestForUpdate(c) PROVE CallsOK'
    <3>1. c \in DOMAIN calls /\ calls[c].pc # "token" /\ calls[c].op.name = "update"
      BY <2>8 DEF SelectRequestForUpdate, At
    <3>2. End(c) \/ GoTo(c, "locked", "none")
      BY <2>8 DEF SelectRequestForUpdate
    <3> QED BY <1>0, <2>0, <2>1, <3>1, <3>2, Moved DEF RoleSet
  <2> QED
    BY <1>2, <2>1, <2>2, <2>3, <2>4, <2>5, <2>6, <2>7, <2>8, <2>9
    DEF Next, AccessNext, WriteAllowlist, CreateApiToken, RevokeApiToken, Expire, RequestReview,
        CloseRequest, InsertComment, SetSuggestionState, CreateContentRequest, UpdateContentRequest
<1> QED BY <1>1, <1>2

(* Of the calls that move a request, one holds it at a time. *)
LEMMA LocksStep ==
    ASSUME TypeOK, CallsOK, LocksOK, [Next]_vars
    PROVE  LocksOK'
<1>1. ASSUME backlog' = backlog, \A c \in Call : Locked(c)' => Locked(c) /\ calls'[c].op = calls[c].op
      PROVE  LocksOK'
  BY <1>1 DEF LocksOK
<1>2. CASE UNCHANGED vars
  BY <1>1, <1>2 DEF vars, Locked, At
<1>3. CASE Next
  <2>1. ASSUME NEW c, End(c) PROVE \A d \in Call : Locked(d)' =>
                                      d # c /\ Locked(d) /\ calls'[d].op = calls[d].op
    BY <2>1 DEF End, Locked, At
  <2>2. CASE UNCHANGED <<backlog, calls>>
    BY <1>1, <2>2 DEF Locked, At
  <2>3. ASSUME NEW c, End(c), UNCHANGED backlog PROVE LocksOK'
    BY <1>1, <2>1, <2>3
  <2>4. ASSUME NEW c \in DOMAIN calls, NEW pc, NEW seen, GoTo(c, pc, seen), pc # "locked",
               UNCHANGED backlog
        PROVE  LocksOK'
    <3>1. \A d \in Call : Locked(d)' => Locked(d) /\ calls'[d].op = calls[d].op
      <4>1. calls[c] \in CallRow
        BY DEF CallsOK, Existed
      <4> QED BY <2>4, <4>1 DEF GoTo, Locked, At, CallRow
    <3> QED BY <1>1, <2>4, <3>1
  <2>5. ASSUME NEW c \in Call, NEW p, NEW via, NEW viewer, NEW op, NEW pc, pc # "locked",
               Start(c, CallOf(op, p, via, viewer, pc)), UNCHANGED backlog
        PROVE  LocksOK'
    <3>1. \A d \in Call : Locked(d)' => Locked(d) /\ calls'[d].op = calls[d].op
      BY <2>5 DEF Start, CallOf, Including, Locked, At
    <3> QED BY <1>1, <2>5, <3>1
  <2>10. ASSUME NEW c \in Call, ResolveOwner(c), UNCHANGED backlog PROVE LocksOK'
    <3>1. \A d \in Call : Locked(d)' => Locked(d) /\ calls'[d].op = calls[d].op
      BY <2>10 DEF ResolveOwner, End, CallOf, Locked, At
    <3> QED BY <1>1, <2>10, <3>1
  <2>6. ASSUME NEW c \in Call, NEW r \in Request, CreateContentRequest(c, r) PROVE LocksOK'
    <3>1. r \notin DOMAIN backlog /\ End(c)
      BY <2>6 DEF CreateContentRequest
    <3>2. DOMAIN backlog' = DOMAIN backlog \cup {r} /\ \A k \in DOMAIN backlog : backlog'[k] = backlog[k]
      BY <2>6 DEF CreateContentRequest, Including
    <3> QED BY <2>1, <3>1, <3>2 DEF LocksOK
  <2>7. ASSUME NEW c \in Call, SelectRequestForUpdate(c) PROVE LocksOK'
    <3> DEFINE r == calls[c].op.request
    <3>1. c \in DOMAIN calls /\ backlog' = backlog
      BY <2>7 DEF SelectRequestForUpdate, At
    <3>2. CASE End(c)
      BY <2>3, <3>1, <3>2
    <3>3. CASE r \in DOMAIN backlog /\ ~UpdateError(backlog[r].status, calls[c].op)
               /\ GoTo(c, "locked", "none")
      <4>1. \A d \in Call : /\ Locked(d)' => d = c \/ Locked(d)
                            /\ d \in DOMAIN calls => calls'[d].op = calls[d].op
        BY <3>1, <3>3, MovedIs DEF Locked, At
      <4>2. \A d \in Call : Locked(d) => calls[d].op.request # r
        BY <2>7 DEF SelectRequestForUpdate, Locked
      <4>3. \A d \in Call : Locked(d) => d \in DOMAIN calls
        BY DEF Locked, At
      <4> QED BY <3>1, <3>3, <4>1, <4>2, <4>3 DEF LocksOK
    <3> QED BY <2>7, <3>2, <3>3 DEF SelectRequestForUpdate
  <2>8. ASSUME NEW c \in Call, UpdateContentRequest(c) PROVE LocksOK'
    <3>1. End(c) /\ Locked(c)
      BY <2>8 DEF UpdateContentRequest, Locked
    <3>2. DOMAIN backlog' = DOMAIN backlog
          /\ \A k \in DOMAIN backlog : k # calls[c].op.request => backlog'[k] = backlog[k]
      BY <2>8 DEF UpdateContentRequest
    <3>3. \A d \in Call : Locked(d) /\ d # c => calls[d].op.request # calls[c].op.request
      BY <3>1 DEF LocksOK
    <3> QED BY <2>1, <3>1, <3>2, <3>3 DEF LocksOK
  <2>9. ASSUME NEW c \in Call, ReadTarget(c) \/ CountMaintainers(c) \/ CheckAccess(c), UNCHANGED backlog
        PROVE  LocksOK'
    <3>1. c \in DOMAIN calls
      BY <2>9 DEF ReadTarget, CountMaintainers, CheckAccess, At
    <3>2. \/ End(c)
          \/ \E pc \in {"count", "write", "insert"}, seen \in {"none", role[calls[c].op.target], calls[c].seen} :
                GoTo(c, pc, seen)
      BY <2>9 DEF ReadTarget, CountMaintainers, CheckAccess
    <3> QED BY <2>3, <2>4, <2>9, <3>1, <3>2
  <2> QED
    BY <1>3, <2>2, <2>3, <2>5, <2>6, <2>7, <2>8, <2>9, <2>10
    DEF Next, AccessNext, BeginInSession, BeginWithToken, WriteAllowlist, CreateApiToken,
        RevokeApiToken, Expire, RequestReview, CloseRequest, InsertComment, SetSuggestionState
<1> QED BY <1>2, <1>3

(* What a change of the allowlist knows of its target stays true while it   *)
(* is alone. *)
Changes(c) == c \in DOMAIN calls /\ calls[c].op.name \in AllowlistOp

Informed(c) ==
    calls[c].pc \in {"count", "write"} =>
        /\ calls[c].seen = role[calls[c].op.target]
        /\ calls[c].pc = "write" /\ Demotes(c) => MaintainerLeft({calls[c].op.target})

LEMMA AloneIs ==
    AloneOK <=> (~overlapped =>
        /\ MaintainerLeft({})
        /\ \A c, d : Changes(c) /\ Changes(d) => c = d
        /\ \A c : Changes(c) => Informed(c))
BY DEF AloneOK, Changes, Informed

LEMMA AloneStep ==
    ASSUME TypeOK, CallsOK, AloneOK, [Next]_vars
    PROVE  AloneOK'
<1>1. CASE UNCHANGED vars
  BY <1>1 DEF vars, AloneOK, MaintainerLeft, Demotes
<1>2. ASSUME Next, ~overlapped'
      PROVE  /\ MaintainerLeft({})'
             /\ \A c, d : Changes(c)' /\ Changes(d)' => c = d
             /\ \A c : Changes(c)' => Informed(c)'
  <2>0. /\ ~overlapped /\ MaintainerLeft({})
        /\ \A c, d : Changes(c) /\ Changes(d) => c = d
        /\ \A c : Changes(c) => Informed(c)
    BY <1>2, AloneIs DEF Next, Observe
  <2>1. \A c, d : Changes(c)' /\ Changes(d)' => c = d
    BY <1>2 DEF Next, Observe, Changes, AllowlistOp
  <2>2. ASSUME role' = role, \A c : Changes(c)' => Changes(c) /\ calls'[c] = calls[c]
        PROVE  MaintainerLeft({})' /\ \A c : Changes(c)' => Informed(c)'
    BY <2>0, <2>2 DEF MaintainerLeft, Informed, Demotes
  <2>3. ASSUME NEW c, End(c) PROVE \A d : Changes(d)' => d # c /\ Changes(d) /\ calls'[d] = calls[d]
    BY <2>3 DEF End, Changes
  <2>4. ASSUME NEW c, End(c), UNCHANGED role PROVE MaintainerLeft({})' /\ \A d : Changes(d)' => Informed(d)'
    BY <2>2, <2>3, <2>4
  <2>5. ASSUME UNCHANGED <<role, calls>> PROVE MaintainerLeft({})' /\ \A d : Changes(d)' => Informed(d)'
    BY <2>2, <2>5 DEF Changes
  <2>6. ASSUME NEW c \in Call, UNCHANGED role,
               \/ \E p, via, viewer, op : \E pc \in {"token", "begun"} :
                     Start(c, CallOf(op, p, via, viewer, pc))
               \/ ResolveOwner(c)
        PROVE  MaintainerLeft({})' /\ \A d : Changes(d)' => Informed(d)'
    <3>1. \A d : Changes(d)' => calls'[d].pc \in {"token", "begun"} \/ (Changes(d) /\ calls'[d] = calls[d])
      BY <2>6 DEF Start, CallOf, Including, Changes, ResolveOwner, End
    <3> QED BY <2>0, <2>6, <3>1 DEF MaintainerLeft, Informed, Demotes
  <2>7. ASSUME NEW c \in DOMAIN calls, NEW pc, NEW seen, GoTo(c, pc, seen), UNCHANGED role,
               Changes(c) /\ pc \in {"count", "write"} =>
                   /\ seen = role[calls[c].op.target]
                   /\ pc = "write" /\ seen = "maintainer" /\ NewRole(calls[c].op) # "maintainer"
                         => MaintainerLeft({calls[c].op.target})
        PROVE  MaintainerLeft({})' /\ \A d : Changes(d)' => Informed(d)'
    <3>1. calls[c] \in CallRow
      BY DEF CallsOK, Existed
    <3>2. /\ DOMAIN calls' = DOMAIN calls
          /\ \A d \in DOMAIN calls \ {c} : calls'[d] = calls[d]
          /\ calls'[c].op = calls[c].op /\ calls'[c].pc = pc /\ calls'[c].seen = seen
      BY <2>7, <3>1 DEF GoTo, CallRow
    <3>3. \A d : Changes(d)' => Changes(d)
      BY <3>2 DEF Changes
    <3>4. \A d : Changes(d)' => Informed(d)'
      BY <2>0, <2>7, <3>2, <3>3 DEF Informed, Demotes, MaintainerLeft, Changes
    <3> QED BY <2>0, <2>7, <3>4 DEF MaintainerLeft
  <2>12. ASSUME NEW c \in Call, NEW op, NEW p, NEW t,
                BeginInSession(c, p, op) \/ BeginWithToken(c, t, op) \/ ResolveOwner(c)
         PROVE  MaintainerLeft({})' /\ \A d : Changes(d)' => Informed(d)'
    BY <2>6, <2>12 DEF BeginInSession, BeginWithToken, ResolveOwner
  <2>8. ASSUME NEW c \in Call, ReadTarget(c)
        PROVE  MaintainerLeft({})' /\ \A d : Changes(d)' => Informed(d)'
    <3> DEFINE existing == role[calls[c].op.target]
    <3>1. c \in DOMAIN calls /\ role' = role
      BY <2>8 DEF ReadTarget, At
    <3>2. CASE End(c)
      BY <2>4, <3>1, <3>2
    <3>3. CASE GoTo(c, IF existing = "none" THEN "write" ELSE "count", existing)
      BY <2>7, <3>1, <3>3
    <3> QED BY <2>8, <3>2, <3>3 DEF ReadTarget
  <2>9. ASSUME NEW c \in Call, CountMaintainers(c)
        PROVE  MaintainerLeft({})' /\ \A d : Changes(d)' => Informed(d)'
    <3> DEFINE op == calls[c].op
               seen == calls[c].seen
    <3>1. c \in DOMAIN calls /\ role' = role /\ Changes(c) /\ calls[c].pc = "count"
      BY <2>9 DEF CountMaintainers, At, Changes, AllowlistOp
    <3>2. CASE End(c)
      BY <2>4, <3>1, <3>2
    <3>3. CASE /\ GoTo(c, "write", seen)
               /\ ~RemovesLastMaintainer(MaintainerCount, seen = "maintainer", NewRole(op) # "maintainer")
      <4>1. seen = role[op.target]
        BY <2>0, <3>1 DEF Informed
      <4>2. seen = "maintainer" /\ NewRole(op) # "maintainer" => MaintainerLeft({op.target})
        BY <3>3, Counting DEF RemovesLastMaintainer
      <4> QED BY <2>7, <3>1, <3>3, <4>1, <4>2
    <3> QED BY <2>9, <3>2, <3>3 DEF CountMaintainers
  <2>10. ASSUME NEW c \in Call, WriteAllowlist(c)
         PROVE  MaintainerLeft({})' /\ \A d : Changes(d)' => Informed(d)'
    <3> DEFINE op == calls[c].op
    <3>1. /\ Changes(c) /\ calls[c].pc = "write" /\ End(c)
          /\ role' = [role EXCEPT ![op.target] = NewRole(op)]
      BY <2>10 DEF WriteAllowlist, At, Changes, AllowlistOp
    <3>2. \A d : ~Changes(d)'
      BY <2>0, <2>3, <3>1
    <3>3. op.target \in Person
      BY <3>1, OpAssumption DEF Changes, CallsOK, Existed, CallRow, AllowlistOp
    <3>4. CASE role[op.target] = "maintainer" /\ NewRole(op) # "maintainer"
      <4>1. MaintainerLeft({op.target})
        BY <2>0, <3>1, <3>4 DEF Informed, Demotes
      <4>2. MaintainerLeft({})'
        BY <3>1, <4>1 DEF MaintainerLeft, TypeOK
      <4> QED BY <3>2, <4>2
    <3>5. CASE ~(role[op.target] = "maintainer" /\ NewRole(op) # "maintainer")
      <4>1. MaintainerLeft({})'
        BY <2>0, <3>1, <3>3, <3>5 DEF MaintainerLeft, TypeOK
      <4> QED BY <3>2, <4>1
    <3> QED BY <3>4, <3>5
  <2>11. ASSUME NEW c \in Call, CheckAccess(c) \/ SelectRequestForUpdate(c)
         PROVE  MaintainerLeft({})' /\ \A d : Changes(d)' => Informed(d)'
    <3>1. /\ c \in DOMAIN calls /\ role' = role /\ ~Changes(c)
          /\ End(c) \/ GoTo(c, "insert", "none") \/ GoTo(c, "locked", "none")
      BY <2>11 DEF CheckAccess, SelectRequestForUpdate, At, Changes, AllowlistOp
    <3> QED BY <2>4, <2>7, <3>1
  <2> QED
    BY <1>2, <2>1, <2>4, <2>5, <2>12, <2>8, <2>9, <2>10, <2>11
    DEF Next, AccessNext, CreateApiToken, RevokeApiToken, Expire, RequestReview, CloseRequest,
        InsertComment, SetSuggestionState, CreateContentRequest, UpdateContentRequest
<1> QED BY <1>1, <1>2 DEF AloneOK, Changes, Informed

(***************************************************************************)
(* The invariant, and what follows from it                                 *)
(***************************************************************************)
LEMMA Inductive == Spec => []IInv
<1>1. Init => IInv
  <2> SUFFICES ASSUME Init PROVE IInv
    OBVIOUS
  <2>1. CallsOK /\ LocksOK
    BY DEF Init, AccessInit, CallsOK, LocksOK, Locked, At
  <2>2. AloneOK
    BY AccessAssumption DEF Init, AccessInit, AloneOK, MaintainerLeft
  <2> QED BY <2>1, <2>2, TypeInit DEF IInv
<1>2. IInv /\ [Next]_vars => IInv'
  BY TypeStep, CallsStep, LocksStep, AloneStep DEF IInv
<1> QED BY <1>1, <1>2, PTL DEF Spec

(* TypeOK, for any people, tokens and calls: among the rest, whoever is on  *)
(* the allowlist or owns a token has an identity, and `done` is planned.    *)
THEOREM TypeCorrect == Spec => []TypeOK
BY Inductive, PTL DEF IInv

(* LockedOutOnlyByOverlap: removesLastMaintainer keeps a maintainer as long *)
(* as no two changes of the allowlist are in flight at once.                *)
THEOREM LockedOutTakesOverlap == Spec => []LockedOutOnlyByOverlap
<1>1. IInv => LockedOutOnlyByOverlap
  BY Counting DEF IInv, AloneOK, LockedOutOnlyByOverlap
<1> QED BY <1>1, Inductive, PTL

(* WritesWereAllowed: no handler writes for a caller, or through a token,   *)
(* that had no access at any time since the call began.                     *)
THEOREM WritesAllowed == Spec => WritesWereAllowed
<1>1. IInv /\ [Next]_vars =>
          [\A c \in DOMAIN calls : Writes(c) => held[c] = {"access", "token"}]_vars
  <2> SUFFICES ASSUME IInv, Next, NEW c \in DOMAIN calls, Writes(c)
               PROVE  held[c] = {"access", "token"}
    BY DEF vars
  <2>1. c \in Call /\ Covered(c) /\ c \notin DOMAIN calls'
    BY DEF IInv, TypeOK, CallsOK, Writes
  <2>2. calls[c].pc # "token" /\ (calls[c].op.name = "comment" => calls[c].pc = "insert")
    <3>1. ASSUME NEW d, End(d) PROVE d = c
      BY <2>1, <3>1 DEF End
    <3> DEFINE Writing == calls[c].pc # "token" /\ (calls[c].op.name = "comment" => calls[c].pc = "insert")
    <3>2. ASSUME NEW d \in Call, InsertComment(d) PROVE Writing
      BY <3>1, <3>2 DEF InsertComment, At
    <3>3. ASSUME NEW d \in Call, CheckAccess(d), UNCHANGED backlog PROVE FALSE
      BY <3>3 DEF CheckAccess, Writes
    <3>4. ASSUME NEW d \in Call,
                 \/ WriteAllowlist(d) \/ (\E t \in Token : CreateApiToken(d, t)) \/ RevokeApiToken(d)
                 \/ SetSuggestionState(d)
                 \/ (\E r \in Request : CreateContentRequest(d, r)) \/ UpdateContentRequest(d)
          PROVE  Writing
      BY <3>1, <3>4 DEF WriteAllowlist, CreateApiToken, RevokeApiToken, SetSuggestionState,
                        CreateContentRequest, UpdateContentRequest, At
    <3>5. ASSUME NEW d \in Call,
                 ReadTarget(d) \/ CountMaintainers(d) \/ ResolveOwner(d), UNCHANGED backlog
          PROVE  FALSE
      BY <3>5 DEF ReadTarget, CountMaintainers, ResolveOwner, Writes
    <3>6. ASSUME NEW d \in Call, SelectRequestForUpdate(d) PROVE FALSE
      BY <3>6 DEF SelectRequestForUpdate, Writes
    <3>7. ASSUME DOMAIN calls \subseteq DOMAIN calls' PROVE FALSE
      BY <2>1, <3>7
    <3> QED
      BY <3>2, <3>3, <3>4, <3>5, <3>6, <3>7
      DEF Next, AccessNext, BeginInSession, BeginWithToken, Start, Including, Expire, RequestReview,
          CloseRequest
  <2> QED BY <2>1, <2>2 DEF Covered
<1> QED BY <1>1, Inductive, PTL DEF Spec, WritesWereAllowed

(* DoneIsFinal: the lock between the check of a request's status and its    *)
(* update keeps every other call from moving a request that is done.        *)
THEOREM DoneStaysDone == Spec => DoneIsFinal
<1>1. IInv /\ [Next]_vars =>
          [\A r \in DOMAIN backlog : backlog[r].status = "done" => backlog'[r] = backlog[r]]_vars
  <2> SUFFICES ASSUME IInv, Next, NEW r \in DOMAIN backlog, backlog[r].status = "done"
               PROVE  backlog'[r] = backlog[r]
    BY DEF vars
  <2>1. ASSUME NEW c \in Call, UpdateContentRequest(c) PROVE backlog'[r] = backlog[r]
    <3>1. calls[c].op.request # r
      BY <2>1 DEF UpdateContentRequest, IInv, LocksOK, Locked, UpdateError, Allowed
    <3> QED BY <2>1, <3>1 DEF UpdateContentRequest
  <2>2. ASSUME NEW c \in Call, NEW k \in Request, CreateContentRequest(c, k)
        PROVE  backlog'[r] = backlog[r]
    BY <2>2 DEF CreateContentRequest, Including
  <2> QED BY <2>1, <2>2 DEF Next, SelectRequestForUpdate
<1> QED BY <1>1, Inductive, PTL DEF Spec, DoneIsFinal
=============================================================================

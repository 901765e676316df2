--------------------------------- MODULE Access ---------------------------------
(***************************************************************************)
(* Who may do what, and how that changes under a call in flight: the       *)
(* reviewer allowlist, site admins, review requests as scoped grants, and  *)
(* the personal access tokens of agents (server/src/auth, allowlist.ts,    *)
(* services/api-tokens.ts, and manageAllowlist, createComment and          *)
(* setSuggestionState of services/review.ts).  The viewer is resolved once,*)
(* when a call begins; the statements that follow run one by one.          *)
(***************************************************************************)
EXTENDS Naturals, FiniteSets

CONSTANTS
    Person,       \* user ids
    Admin,        \* those whom Neon Auth marks as site admins
    Registered,   \* those Neon Auth knows
    Artifact,     \* what a review request can be about
    Suggestion,   \* the threads that were opened with a suggestion
    Token,        \* ids of access tokens
    NoToken,      \* a call made in a browser session
    Call,         \* ids of calls, each used once
    MaxInFlight,  \* bound: calls in flight at once
    FirstRole,    \* the allowlist to begin with
    Op,           \* what a call may ask for
    Asked         \* pairs of a person and an artifact reviews are asked for

RoleSet == {"none", "reviewer", "maintainer"}

ASSUME AccessAssumption ==
    /\ IsFiniteSet(Person) /\ Admin \subseteq Registered /\ Registered \subseteq Person
    /\ FirstRole \in [Person -> RoleSet]
    /\ \A p \in Person : FirstRole[p] # "none" => p \in Registered
    /\ \E p \in Person : FirstRole[p] = "maintainer"
    /\ NoToken \notin Token
    /\ Asked \subseteq Person \X Artifact

VARIABLES
    role,      \* reviewer_allowlist
    known,     \* user_identity
    grant,     \* review_request: the rows of each person that are not cancelled
    tokens,    \* api_token
    comments,  \* comment
    suggestion,\* comment.suggestion_state, of each of those threads
    calls,     \* calls in flight
    begun,     \* ids of calls used so far
    held,      \* history: what each call in flight was entitled to since it began
    overlapped \* history: two allowlist changes have been in flight at once

accessVars == <<role, known, grant, tokens, comments, suggestion, calls, begun>>

AccessInit ==
    /\ role = FirstRole
    /\ known = {p \in Person : FirstRole[p] # "none"}
    /\ grant = [p \in Person |-> {}]
    /\ tokens = <<>>
    /\ comments = {}
    /\ suggestion = [t \in Suggestion |-> "open"]
    /\ calls = <<>>
    /\ begun = {}

(* A table with one more row. *)
Including(table, id, row) == [k \in DOMAIN table \cup {id} |-> IF k = id THEN row ELSE table[k]]

(***************************************************************************)
(* The viewer of a call                                                    *)
(***************************************************************************)
HasContentGrant(p, artifact) ==
    \E row \in grant[p] : row[1] = artifact /\ row[2] \in {"open", "satisfied"}

ViewerOf(p) ==
    LET admitted == IF p \in Admin THEN "maintainer" ELSE role[p]
    IN  [ role   |-> admitted,
          admin  |-> p \in Admin,
          scoped |-> admitted = "none" /\ \E a \in Artifact : HasContentGrant(p, a) ]

TokenMayCall(op, scopes) ==
    \/ op.name = "comment" /\ op.reply /\ "feedback:reply" \in scopes
    \/ op.name = "suggest" /\ op.state = "applied" /\ "feedback:reply" \in scopes
    \/ op.name = "update" /\ op.to = "done" /\ "requests:write" \in scopes

(* What a handler asks of the viewer before its first statement. *)
Admitted(op, viewer, via) ==
    CASE op.name \in {"add", "remove"}  -> viewer.admin
      [] op.name \in {"mint", "revoke"} -> via = NoToken /\ (viewer.role # "none" \/ viewer.scoped)
      [] op.name \in {"request", "suggest"} -> viewer.role # "none"
      [] op.name = "update"             -> IF op.to = "done" THEN viewer.role # "none"
                                           ELSE viewer.role = "maintainer"
      [] op.name = "comment"            -> TRUE

(* Mutant: a token is looked up by its hash alone. *)
KnownToken(t) == t \in DOMAIN tokens

LookupToken(t) == t \in DOMAIN tokens /\ tokens[t].live

CallOf(op, p, via, viewer, pc) ==
    [op |-> op, by |-> p, via |-> via, viewer |-> viewer, pc |-> pc, seen |-> "none"]

Start(c, call) ==
    /\ c \notin begun
    /\ Cardinality(DOMAIN calls) < MaxInFlight
    /\ begun' = begun \cup {c}
    /\ calls' = Including(calls, c, call)

BeginInSession(c, p, op) ==
    /\ p \in Registered
    /\ Admitted(op, ViewerOf(p), NoToken)
    /\ Start(c, CallOf(op, p, NoToken, ViewerOf(p), "begun"))
    /\ known' = known \cup {p}
    /\ UNCHANGED <<role, grant, tokens, comments, suggestion>>

(* The token first, then its owner's role.  What the scopes do not allow is *)
(* refused after both, and is left out here: it has written nothing.        *)
Unresolved == [role |-> "none", admin |-> FALSE, scoped |-> FALSE]

BeginWithToken(c, t, op) ==
    /\ LookupToken(t)
    /\ TokenMayCall(op, tokens[t].scopes)
    /\ Start(c, CallOf(op, tokens[t].owner, t, Unresolved, "token"))
    /\ UNCHANGED <<role, known, grant, tokens, comments, suggestion>>

At(c, name, pc) == c \in DOMAIN calls /\ calls[c].op.name = name /\ calls[c].pc = pc

GoTo(c, pc, seen) == calls' = [calls EXCEPT ![c].pc = pc, ![c].seen = seen]

End(c) == calls' = [other \in DOMAIN calls \ {c} |-> calls[other]]

ResolveOwner(c) ==
    /\ c \in DOMAIN calls /\ calls[c].pc = "token"
    /\ LET call == calls[c]
           viewer == ViewerOf(call.by)
       IN  IF Admitted(call.op, viewer, call.via)
           THEN calls' = [calls EXCEPT ![c] = CallOf(call.op, call.by, call.via, viewer, "begun")]
           ELSE End(c)
    /\ UNCHANGED <<role, known, grant, tokens, comments, suggestion, begun>>

(***************************************************************************)
(* manageAllowlist: each statement on its own, without a transaction       *)
(***************************************************************************)
MaintainerCount == Cardinality({p \in Person : role[p] = "maintainer"})

(* Mutant: the last maintainer is taken for one of several. *)
LeavesNone(count, targetIsMaintainer, demotesTarget) ==
    targetIsMaintainer /\ demotesTarget /\ count < 1

RemovesLastMaintainer(count, targetIsMaintainer, demotesTarget) ==
    targetIsMaintainer /\ demotesTarget /\ count <= 1

NewRole(op) == IF op.name = "remove" THEN "none" ELSE op.role

(* ADD makes sure the target has an identity first, of a stub if need be. *)
ReadTarget(c) ==
    /\ At(c, "add", "begun") \/ At(c, "remove", "begun")
    /\ LET op == calls[c].op
           existing == role[op.target]
       IN  IF op.name = "add" /\ op.target \notin known \cup Registered
           THEN End(c) /\ UNCHANGED known
           ELSE /\ GoTo(c, IF existing = "none" THEN "write" ELSE "count", existing)
                /\ known' = IF op.name = "add" THEN known \cup {op.target} ELSE known
    /\ UNCHANGED <<role, grant, tokens, comments, suggestion, begun>>

CountMaintainers(c) ==
    /\ At(c, "add", "count") \/ At(c, "remove", "count")
    /\ LET seen == calls[c].seen
       IN  IF RemovesLastMaintainer(MaintainerCount, seen = "maintainer",
                                    NewRole(calls[c].op) # "maintainer")
           THEN End(c)
           ELSE GoTo(c, "write", seen)
    /\ UNCHANGED <<role, known, grant, tokens, comments, suggestion, begun>>

WriteAllowlist(c) ==
    /\ At(c, "add", "write") \/ At(c, "remove", "write")
    /\ role' = [role EXCEPT ![calls[c].op.target] = NewRole(calls[c].op)]
    /\ End(c)
    /\ UNCHANGED <<known, grant, tokens, comments, suggestion, begun>>

(***************************************************************************)
(* Access tokens                                                           *)
(***************************************************************************)
CreateApiToken(c, t) ==
    /\ At(c, "mint", "begun")
    /\ t \notin DOMAIN tokens
    /\ tokens' = Including(tokens, t,
          [owner |-> calls[c].by, scopes |-> calls[c].op.scopes, live |-> TRUE])
    /\ End(c)
    /\ UNCHANGED <<role, known, grant, comments, suggestion, begun>>

RevokeApiToken(c) ==
    /\ At(c, "revoke", "begun")
    /\ LET t == calls[c].op.token
       IN  IF t \in DOMAIN tokens /\ tokens[t].owner = calls[c].by
           THEN tokens' = [tokens EXCEPT ![t].live = FALSE] ELSE UNCHANGED tokens
    /\ End(c)
    /\ UNCHANGED <<role, known, grant, comments, suggestion, begun>>

Expire(t) ==
    /\ LookupToken(t)
    /\ tokens' = [tokens EXCEPT ![t].live = FALSE]
    /\ UNCHANGED <<role, known, grant, comments, suggestion, calls, begun>>

(***************************************************************************)
(* Scoped grants, and the comments they allow                              *)
(***************************************************************************)
RequestReview(p, artifact) ==
    /\ p \in known
    /\ grant' = [grant EXCEPT ![p] = @ \cup {<<artifact, "open">>}]
    /\ UNCHANGED <<role, known, tokens, comments, suggestion, calls, begun>>

CloseRequest(p, artifact, outcome) ==
    /\ <<artifact, "open">> \in grant[p]
    /\ grant' = [grant EXCEPT ![p] = (@ \ {<<artifact, "open">>}) \cup outcome]
    /\ UNCHANGED <<role, known, tokens, comments, suggestion, calls, begun>>

RequireContentAccess(c) ==
    calls[c].viewer.role # "none" \/ HasContentGrant(calls[c].by, calls[c].op.on)

CheckAccess(c) ==
    /\ At(c, "comment", "begun")
    /\ IF RequireContentAccess(c) THEN GoTo(c, "insert", "none") ELSE End(c)
    /\ UNCHANGED <<role, known, grant, tokens, comments, suggestion, begun>>

InsertComment(c) ==
    /\ At(c, "comment", "insert")
    /\ comments' = comments \cup
          {[by |-> calls[c].by, on |-> calls[c].op.on, agent |-> calls[c].via # NoToken]}
    /\ End(c)
    /\ UNCHANGED <<role, known, grant, tokens, suggestion, begun>>

(***************************************************************************)
(* Suggestions: one update, by any reviewer                                *)
(***************************************************************************)
SetSuggestionState(c) ==
    /\ At(c, "suggest", "begun")
    /\ LET t == calls[c].op.thread
       IN  suggestion' = IF t \in Suggestion THEN [suggestion EXCEPT ![t] = calls[c].op.state]
                         ELSE suggestion
    /\ End(c)
    /\ UNCHANGED <<role, known, grant, tokens, comments, begun>>

AccessNext ==
    \/ \E c \in Call, op \in Op :
          \/ \E p \in Person : BeginInSession(c, p, op)
          \/ \E t \in Token : BeginWithToken(c, t, op)
    \/ \E c \in Call :
          \/ ResolveOwner(c) \/ SetSuggestionState(c)
          \/ ReadTarget(c) \/ CountMaintainers(c) \/ WriteAllowlist(c)
          \/ \E t \in Token : CreateApiToken(c, t)
          \/ RevokeApiToken(c)
          \/ CheckAccess(c) \/ InsertComment(c)
    \/ \E t \in Token : Expire(t)
    \/ \E p \in Person, a \in Artifact :
          /\ <<p, a>> \in Asked
          /\ \/ RequestReview(p, a)
             \/ CloseRequest(p, a, {})                       \* cancelled
             \/ CloseRequest(p, a, {<<a, "satisfied">>})     \* answered

(***************************************************************************)
(* What a call is entitled to, from the tables alone                       *)
(***************************************************************************)
IsReviewer(p) == p \in Admin \/ role[p] # "none"

Entitled(p, op) ==
    CASE op.name \in {"add", "remove"}  -> p \in Admin
      [] op.name \in {"mint", "revoke"} -> IsReviewer(p) \/ grant[p] # {}
      [] op.name \in {"request", "suggest"} -> IsReviewer(p)
      [] op.name = "update"             -> IF op.to = "done" THEN IsReviewer(p)
                                           ELSE p \in Admin \/ role[p] = "maintainer"
      [] op.name = "comment"            -> IsReviewer(p) \/ \E s \in {"open", "satisfied"} :
                                                               <<op.on, s>> \in grant[p]

EntitledNow(call) ==
    (IF Entitled(call.by, call.op) THEN {"access"} ELSE {})
      \cup (IF call.via = NoToken \/ tokens[call.via].live THEN {"token"} ELSE {})

Observe ==
    /\ held' = [c \in DOMAIN calls' |->
                  EntitledNow(calls[c])' \cup (IF c \in DOMAIN calls THEN held[c] ELSE {})]
    /\ overlapped' = (overlapped \/
          \E c, d \in DOMAIN calls' :
             c # d /\ {calls'[c].op.name, calls'[d].op.name} \subseteq {"add", "remove"})
=============================================================================

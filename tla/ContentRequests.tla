----------------------------- MODULE ContentRequests -----------------------------
(***************************************************************************)
(* The backlog of content requests (server/src/services/content-requests.ts)*)
(* among the calls that change who may touch it.  An update is one          *)
(* transaction that locks the request it reads.                             *)
(***************************************************************************)
EXTENDS Access

CONSTANTS Request    \* ids of content requests

VARIABLE backlog     \* content_request

vars == <<role, known, grant, tokens, comments, suggestion, calls, begun, held, overlapped, backlog>>

Status == {"open", "accepted", "declined", "done"}

SuggestionState == {"open", "applied", "dismissed"}

ScopeSet == SUBSET {"feedback:reply", "requests:write"}

(* What a call of each kind says. *)
ASSUME OpAssumption ==
    \A op \in Op :
        /\ op.name \in {"add", "remove", "mint", "revoke", "comment", "suggest", "request", "update"}
        /\ op.name \in {"add", "remove"} => op.target \in Person
        /\ op.name = "add" => op.role \in RoleSet \ {"none"}
        /\ op.name = "mint" => op.scopes \in ScopeSet
        /\ op.name = "comment" => op.on \in Artifact
        /\ op.name = "suggest" => op.state \in SuggestionState
        /\ op.name = "update" => op.to \in Status /\ op.planned \in BOOLEAN

Allowed(from) ==
    CASE from = "open"     -> {"accepted", "declined", "done"}
      [] from = "accepted" -> {"done", "declined", "open"}
      [] from = "declined" -> {"open"}
      [] from = "done"     -> {}

CreateContentRequest(c, r) ==
    /\ At(c, "request", "begun")
    /\ r \notin DOMAIN backlog
    /\ backlog' = Including(backlog, r, [status |-> "open", planned |-> FALSE])
    /\ End(c)
    /\ UNCHANGED <<role, known, grant, tokens, comments, suggestion, begun>>

(* Mutant: nobody asks what a finished request is planned as. *)
TransitionError(from, op) == op.to \notin Allowed(from)

UpdateError(from, op) == op.to \notin Allowed(from) \/ (op.to = "done" /\ ~op.planned)

(* Mutant: the status is read without locking the row. *)
SelectRequest(c) ==
    /\ At(c, "update", "begun")
    /\ LET r == calls[c].op.request
       IN  IF r \notin DOMAIN backlog \/ UpdateError(backlog[r].status, calls[c].op)
           THEN End(c) ELSE GoTo(c, "locked", "none")
    /\ UNCHANGED <<role, known, grant, tokens, comments, suggestion, begun, backlog>>

SelectRequestForUpdate(c) ==
    /\ At(c, "update", "begun")
    /\ LET r == calls[c].op.request
       IN  /\ \A other \in Call :
                 At(other, "update", "locked") => calls[other].op.request # r
           /\ IF r \notin DOMAIN backlog \/ UpdateError(backlog[r].status, calls[c].op)
              THEN End(c) ELSE GoTo(c, "locked", "none")
    /\ UNCHANGED <<role, known, grant, tokens, comments, suggestion, begun, backlog>>

UpdateContentRequest(c) ==
    /\ At(c, "update", "locked")
    /\ LET op == calls[c].op
       IN  backlog' = [backlog EXCEPT ![op.request] =
                         [status |-> op.to, planned |-> @.planned \/ op.planned]]
    /\ End(c)
    /\ UNCHANGED <<role, known, grant, tokens, comments, suggestion, begun>>

Init ==
    /\ AccessInit
    /\ backlog = <<>>
    /\ held = <<>>
    /\ overlapped = FALSE

Next ==
    /\ \/ AccessNext /\ UNCHANGED backlog
       \/ \E c \in Call :
             \/ \E r \in Request : CreateContentRequest(c, r)
             \/ SelectRequestForUpdate(c) \/ UpdateContentRequest(c)
    /\ Observe

Spec == Init /\ [][Next]_vars

(***************************************************************************)
(* Properties                                                              *)
(***************************************************************************)
(* Every table holds rows of its type; the allowlist and the owners of      *)
(* tokens have identities.                                                  *)
TypeOK ==
    /\ role \in [Person -> RoleSet]
    /\ known \subseteq Registered
    /\ \A p \in Person : role[p] # "none" => p \in known
    /\ grant \in [Person -> SUBSET (Artifact \X {"open", "satisfied"})]
    /\ DOMAIN tokens \subseteq Token
    /\ tokens \in [DOMAIN tokens -> [owner : known, scopes : ScopeSet, live : BOOLEAN]]
    /\ \A k \in comments : k.by \in known /\ k.on \in Artifact
    /\ suggestion \in [Suggestion -> SuggestionState]
    /\ DOMAIN calls \subseteq begun /\ begun \subseteq Call
    /\ DOMAIN held = DOMAIN calls
    /\ DOMAIN backlog \subseteq Request
    /\ \A r \in DOMAIN backlog :
          backlog[r].status \in Status /\ (backlog[r].status = "done" => backlog[r].planned)

(* The allowlist runs out of maintainers only if two changes of it have     *)
(* been in flight at once: one after the other, the last one is kept.       *)
LockedOutOnlyByOverlap == MaintainerCount = 0 => overlapped

(* What manageAllowlist promises: it never leaves the site without one.     *)
MaintainerRemains == MaintainerCount > 0

(* What a call writes is something its caller was entitled to at some time  *)
(* since the call began, and with a token that was live at some time since: *)
(* an access withdrawn before a call begins is withdrawn for good, for      *)
(* whoever calls and however (api-token.ts: a token never outlives or       *)
(* exceeds its owner's access).                                             *)
Writes(c) ==
    /\ c \notin DOMAIN calls'
    /\ <<role, tokens, comments, suggestion, backlog>>' # <<role, tokens, comments, suggestion, backlog>>

WritesWereAllowed ==
    [][\A c \in DOMAIN calls : Writes(c) => held[c] = {"access", "token"}]_vars

(* A request that is done stays as it is, whoever else is about to move it. *)
DoneIsFinal ==
    [][\A r \in DOMAIN backlog : backlog[r].status = "done" => backlog'[r] = backlog[r]]_vars
=============================================================================

---------------------------- MODULE MCContentRequests ----------------------------
(* Two maintainers, one of them a site admin, somebody from outside, and an  *)
(* id that is nobody's.                                                      *)
EXTENDS ContentRequests, TLC

CONSTANTS m, n, e, nobody, page, other, t1, s1, r1, c1, c2, c3, c4

MCPerson == {m, n, e, nobody}
MCRegistered == {m, n, e}
MCAdmin == {m}
MCFirstRole == (m :> "maintainer") @@ (n :> "maintainer") @@ (e :> "none") @@ (nobody :> "none")
MCArtifact == {page, other}
MCToken == {t1}
MCSuggestion == {s1}
MCCall == {c1, c2, c3, c4}
MCRequest == {r1}
MCAsked == {<<e, page>>}
MCOp ==
    {[name |-> "add", target |-> n, role |-> "reviewer"],
     [name |-> "add", target |-> nobody, role |-> "reviewer"],
     [name |-> "remove", target |-> m],
     [name |-> "remove", target |-> n],
     [name |-> "mint", scopes |-> {"feedback:reply"}],
     [name |-> "mint", scopes |-> {"requests:write"}],
     [name |-> "revoke", token |-> t1],
     [name |-> "comment", on |-> page, reply |-> TRUE],
     [name |-> "comment", on |-> other, reply |-> FALSE],
     [name |-> "suggest", thread |-> s1, state |-> "applied"],
     [name |-> "suggest", thread |-> s1, state |-> "dismissed"],
     [name |-> "request"]}
    \cup [name : {"update"}, request : {r1}, to : {"open", "accepted", "done"}, planned : {FALSE}]
    \cup [name : {"update"}, request : {r1}, to : {"done", "declined"}, planned : {TRUE}]

Symmetry == Permutations(MCCall)
=============================================================================

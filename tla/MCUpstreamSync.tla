------------------------------ MODULE MCUpstreamSync ------------------------------
(* Three pages, one of which is renamed, withdrawn, drafted and linked to.    *)
EXTENDS UpstreamSync, TLC

CONSTANTS a, b, c

P(status, body, code, link) == [status |-> status, body |-> body, code |-> code, link |-> link]

Both    == (a :> P("ready", 1, 1, NoPage)) @@ (b :> P("ready", 1, 1, a))
Merged  == (c :> P("ready", 1, 1, NoPage))
Drafted == (a :> P("ready", 2, 1, NoPage)) @@ (b :> P("draft", 1, 1, c)) @@ (c :> P("draft", 1, 1, a))
Broken  == (a :> P("private", 1, 1, NoPage)) @@ (b :> P("ready", 1, 1, a))
Alone   == (a :> P("ready", 1, 2, NoPage)) @@ (b :> P("private", 1, 1, a))

MCSource == {Both, Merged, Drafted, Broken, Alone}
MCPageOrder == <<a, b, c>>
=============================================================================

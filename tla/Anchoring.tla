------------------------------- MODULE Anchoring -------------------------------
(***************************************************************************)
(* What becomes of a comment thread when its page changes: the matching    *)
(* tiers of server/src/anchor.ts, for threads on prose and on code.        *)
(***************************************************************************)
EXTENDS ContentTree

CONSTANTS
    Quote,              \* quoted passages, each with its context and suggested edit
    NoQuote,            \* a thread on a whole section
    Top,                \* the anchor the browser sends for the preamble
    HasContext(_),      \* a quote was stored with some text around it
    Fit(_, _),          \* how a quote is found in a piece of prose
    ShowsEdit(_, _)     \* prose reads as if the suggested edit had been made

FitKind == {"framed", "exact", "fuzzy", "none"}

PreambleSlug == <<Preamble, 0>>
AnchorState == {"exact", "moved", "rewritten", "section", "orphaned"}
SuggestionState == {"none", "open", "applied", "dismissed"}

(* Both anchors of the preamble mean the same place. *)
SameAnchor(a, b) == a = b \/ (a \in {Top, PreambleSlug} /\ b \in {Top, PreambleSlug})

PlacedAt(root, slug) == IF SameAnchor(slug, root.authored) THEN "exact" ELSE "moved"

Place(root, slug, state) ==
    [root EXCEPT !.slug = slug, !.state = state, !.orphaned = FALSE]

(* The best way a quote is found in a text: framed by its context, word for *)
(* word, nearly so, or not at all.                                          *)
LocateQuote(text, quote) ==
    LET found == {Fit(quote, prose) : prose \in text}
    IN  IF "framed" \in found THEN "framed"
        ELSE IF "exact" \in found THEN "exact"
        ELSE IF "fuzzy" \in found THEN "fuzzy" ELSE "none"

SuggestionApplied(text, quote) == \E prose \in text : ShowsEdit(quote, prose)

First(S) == CHOOSE i \in S : \A j \in S : i <= j
LastOf(S) == CHOOSE i \in S : \A j \in S : j <= i

(* Sections, other than the thread's own, a quote may have moved to: while  *)
(* its own is there, only one where its context frames it.                  *)
Elsewhere(page, root, framedOnly) ==
    LET fit(i) == LocateQuote(BodyText(page, i), root.quote)
        others == {i \in DOMAIN page : AnchorSlug(page, i) # root.slug}
        framed == {i \in others : fit(i) = "framed"}
        found == {i \in others : fit(i) # "none"}
    IN  IF framed # {} THEN {First(framed)}
        ELSE IF ~framedOnly /\ found # {} THEN {First(found)} ELSE {}

(* Sections of the heading the thread was written under. *)
ByFingerprint(page, root) == {i \in DOMAIN page : page[i].heading = root.heading}

(* Mutant: only this registration's finding counts. *)
LandsNow(root, lands) == lands

(* The edit is found in the text now, or was settled before. *)
IsApplied(root, lands) == lands \/ root.suggestion = "applied"

(* The tiers, for a thread whose section is not known to be unchanged.      *)
Scan(root, page) ==
    LET own == SectionAt(page, root.slug)
        text == BodyText(page, First(own))
        fit == IF own = {} \/ root.quote = NoQuote THEN "none" ELSE LocateQuote(text, root.quote)
        lands == /\ root.suggestion = "open" /\ own # {} /\ fit # "framed"
                 /\ SuggestionApplied(text, root.quote)
        applied == IsApplied(root, lands)
        thread == [root EXCEPT !.suggestion = IF lands THEN "applied" ELSE @]
        elsewhere == IF root.quote = NoQuote \/ applied THEN {}
                     ELSE Elsewhere(page, root, own # {} /\ HasContext(root.quote))
        quoted(slug) == IF root.quote = NoQuote \/ applied THEN PlacedAt(root, slug) ELSE "section"
    IN  CASE fit = "framed" \/ (own # {} /\ applied) \/ fit = "exact" ->
                Place(thread, root.slug, PlacedAt(root, root.slug))
          [] fit = "fuzzy" /\ ~applied ->
                Place(thread, root.slug, "rewritten")
          [] fit = "none" /\ elsewhere # {} ->
                LET i == First(elsewhere)
                IN  Place(thread, AnchorSlug(page, i),
                          IF LocateQuote(BodyText(page, i), root.quote) = "fuzzy" THEN "rewritten"
                          ELSE PlacedAt(root, AnchorSlug(page, i)))
          [] fit = "none" /\ elsewhere = {} /\ ~(own # {} /\ applied) /\ own # {} ->
                Place(thread, root.slug, quoted(root.slug))
          [] own = {} /\ elsewhere = {} /\ ByFingerprint(page, root) # {} ->
                LET slug == AnchorSlug(page, LastOf(ByFingerprint(page, root)))
                IN  Place(thread, slug, quoted(slug))
          [] OTHER -> [thread EXCEPT !.orphaned = TRUE, !.state = "orphaned"]

(* Mutant: orphans take the fast path too. *)
KeepOrphans(root, page, unchanged) ==
    IF root.slug \in unchanged THEN root ELSE Scan(root, page)

(* A thread on a section that is as it was in the prior version is kept,    *)
(* unless it is an orphan.                                                  *)
Reanchor(root, page, unchanged) ==
    IF root.slug \in unchanged /\ root.slug \in AnchorSlugs(page) /\ ~root.orphaned
    THEN root ELSE Scan(root, page)

(* Mutant: the line is marked as moved and its number is left as it was. *)
KeepLineNumber(root, build) ==
    IF root.region \in build.regions
    THEN IF root.orphaned THEN [root EXCEPT !.orphaned = FALSE, !.state = "exact"] ELSE root
    ELSE IF \E n \in DOMAIN build.lines : build.lines[n] = root.hash
    THEN [root EXCEPT !.orphaned = FALSE, !.state = "moved"]
    ELSE [root EXCEPT !.orphaned = TRUE, !.state = "orphaned"]

(* A thread on code goes with its named region, else with the first line    *)
(* that hashes like its own.                                                *)
ReanchorCode(root, build) ==
    LET found == {n \in DOMAIN build.lines : build.lines[n] = root.hash}
    IN  CASE root.region \in build.regions /\ ~root.orphaned -> root
          [] root.region \in build.regions /\ root.orphaned ->
                [root EXCEPT !.orphaned = FALSE, !.state = "exact"]
          [] root.region \notin build.regions /\ found # {} ->
                [root EXCEPT !.line = First(found), !.orphaned = FALSE, !.state = "moved"]
          [] OTHER -> [root EXCEPT !.orphaned = TRUE, !.state = "orphaned"]

=============================================================================

------------------------------ MODULE MCThreads ------------------------------
(* A page of two or three short sections, registered in the forms an edit     *)
(* can give it, with a quote that two pieces of prose contain, one reworded.  *)
EXTENDS Threads

CONSTANTS setup, usage, install, preamble, fenced, noPage, q, noQuote, top, noVersion,
          original, again, reworded, edited, other, t1, region, l1, l2

S(heading, level, prose) == [heading |-> heading, level |-> level, prose |-> prose, code |-> <<>>]
WithCode(section, code) == [section EXCEPT !.code = code]
Fence(hash) == [region |-> fenced, hash |-> hash]
Snippet(hash) == [region |-> region, hash |-> hash]
B(hash, page, regions, lines) ==
    [hash |-> hash, page |-> page, regions |-> regions, lines |-> lines]

MCFit(quote, prose) ==
    CASE prose = original -> "framed"
      [] prose = again    -> "exact"
      [] prose = reworded -> "fuzzy"
      [] OTHER            -> "none"
MCHasContext(quote) == TRUE
MCShowsEdit(quote, prose) == prose \in {edited, reworded}

Plain   == B("plain", <<WithCode(S(setup, 1, original), <<Snippet(l1)>>), S(usage, 1, other)>>,
             {region}, <<l1, l2>>)
Edited  == B("edited", <<S(setup, 1, edited), S(usage, 1, again)>>, {}, <<l2, l1>>)
(* The snippet is in the section twice.                                      *)
Dropped == B("dropped", <<WithCode(S(setup, 1, other), <<Snippet(l2), Fence(l1), Snippet(l2)>>),
                          S(usage, 1, original)>>, {}, <<l2>>)
Renamed == B("renamed", <<S(install, 1, reworded), S(usage, 1, other)>>, {}, <<l2, l2, l1>>)
Nested  == B("nested", <<WithCode(S(usage, 1, other), <<Snippet(l2), Fence(l1)>>),
                         S(setup, 2, again)>>, {region}, <<l2>>)
Intro   == B("intro", <<S(preamble, 7, original), S(setup, 1, other), S(setup, 1, other)>>,
             {}, <<l1>>)
(* The nested page again, its top section moved down, its code turned round, *)
(* and the one under it edited.                                              *)
Grown   == B("grown", <<S(install, 1, reworded),
                        WithCode(S(usage, 1, other), <<Fence(l1), Snippet(l1)>>),
                        S(setup, 2, edited)>>, {}, <<l1>>)
(* The sections of one body, cut differently: an extractor that no longer    *)
(* takes the second heading for one.                                         *)
Recut   == B("plain", <<WithCode(S(setup, 1, original), <<Snippet(l2)>>)>>, {}, <<l1>>)

Builds == {Plain, Edited, Dropped, Renamed, Nested, Intro, Grown, Recut}

On(build, slug, anchor, quote, suggests) ==
    [kind |-> "prose", on |-> build, slug |-> slug, anchor |-> anchor, quote |-> quote,
     suggests |-> suggests]

Suggestion == On(Plain, <<setup, 0>>, <<setup, 0>>, q, TRUE)
InUsage    == On(Dropped, <<usage, 0>>, <<usage, 0>>, q, FALSE)
OnHeading  == On(Plain, <<usage, 0>>, <<usage, 0>>, noQuote, FALSE)
OnRepeat   == On(Intro, <<setup, 1>>, <<setup, 1>>, noQuote, FALSE)
InPreamble == On(Intro, <<preamble, 0>>, top, q, FALSE)
OnCode     == [kind |-> "code", on |-> Plain, anchor |-> <<setup, 0>>, region |-> region, line |-> 1]

Drafts == {Suggestion, InUsage, OnHeading, OnRepeat, InPreamble, OnCode}
Quotes == {q}
OneRoot == {t1}
=============================================================================

---------------------------- MODULE MCWebClient -----------------------------
(***************************************************************************)
(* Pages, rows and settings for each of the cases that WebClient tells     *)
(* apart.                                                                  *)
(***************************************************************************)
EXTENDS WebClient

CONSTANTS g1, u1, badUrl, tag, plusTag, plusTag1, plusTag2, badTag, template, fixed, s1

-----------------------------------------------------------------------------
\* Pages of every kind, with and without a version, opened at anchors of tabs
\* and of rows; titles that collide once cleaned, titles whose names are no ids, one
\* of them refused by jQuery, and one that is encoded in the address.
Page == [kind |-> "root", version |-> TRUE, titles |-> <<>>, mayModify |-> TRUE,
         analytics |-> TRUE, issues |-> FALSE, view |-> "expanded", hash |-> <<>>]

MCSite ==
    {[Page EXCEPT !.kind = "submodule", !.hash = OutputAnchor],
     [Page EXCEPT !.kind = "example", !.hash = ReadmeAnchor],
     [Page EXCEPT !.version = FALSE, !.mayModify = FALSE, !.hash = <<"settings">>],
     [Page EXCEPT !.titles = <<<<"a", "_">>, <<"a", "-">>>>, !.hash = <<"custom-", "a", "-">>],
     [Page EXCEPT !.titles = <<<<"_", " ">>>>, !.hash = <<"usage-builder">>,
                  !.analytics = FALSE, !.issues = TRUE, !.view = "table"],
     [Page EXCEPT !.titles = <<<<"a", "+", "+">>>>, !.hash = <<"custom-", "a", "-", "+">>],
     [Page EXCEPT !.titles = <<<<"_", "(">>, <<"_", "ue">>>>, !.hash = OutputAnchor]}

MCRefused == {<<"custom-", "-", "(">>}

\* Rows of every type, some of them optional, quoted or without default; lists
\* grow to three inputs, so that one in the middle can be emptied.
RowOf(type) == [type |-> type, required |-> TRUE, quoted |-> TRUE, default |-> "none",
                choices |-> <<"one">>, custom |-> TRUE, value |-> <<"s">>]

Optional(r) == [r EXCEPT !.required = FALSE]
Bare(r)     == [r EXCEPT !.quoted = FALSE]

MCVariables ==
    {<<RowOf("list")>>,
     <<Optional(RowOf("list")), RowOf("static")>>,
     <<Optional(RowOf("text")), Bare([RowOf("boolean") EXCEPT !.default = "true"]),
       Bare(RowOf("number"))>>,
     <<Optional(RowOf("select")), Bare(Optional([RowOf("boolean") EXCEPT !.default = "null"]))>>}

MCValue == {<<>>, <<"a">>, <<"\"">>}

MCChoice == [one |-> <<"1">>]

\* Two values of each attribute, one of which the server refuses where it
\* checks; module providers with and without a git provider and URL.
Saved == [git |-> Null, url |-> Null, tag |-> tag, path |-> Null, verified |-> FALSE, source |-> s1]

MCResolved(p) == IF p = template THEN fixed ELSE p

\* The git provider has a git path of its own.
MCPathOf(g) == template

\* plusTag has a character that is percent-encoded: once in plusTag1, and once
\* more in plusTag2, which no behaviour encodes again.
MCQuoted(f, v) ==
    IF f = "tag" THEN CASE v = plusTag -> plusTag1 [] v = plusTag1 -> plusTag2 [] OTHER -> v
    ELSE v

MCSetting == {[Saved EXCEPT !.url = u1], [Saved EXCEPT !.git = g1, !.path = template],
              [Saved EXCEPT !.git = g1, !.url = u1, !.source = Null, !.tag = plusTag1]}
=============================================================================

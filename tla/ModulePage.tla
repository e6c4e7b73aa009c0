----------------------------- MODULE ModulePage -----------------------------
(***************************************************************************)
(* The page of a module version, submodule or example in the browser: its  *)
(* tabs are filled by answers of the server that arrive in any order,      *)
(* while the user already clicks.  When all tabs are settled the page      *)
(* chooses the tab to show (TabFactory.setDefaultTab).                     *)
(*                                                                         *)
(* JavaScript runs to completion: an answer, with all the code that was    *)
(* awaiting it, is one action, and so is a click.                          *)
(*                                                                         *)
(* A tab is <<"readme">>, <<"inputs">>, ... or <<"extra", i>>, the i-th    *)
(* additional tab.  Its name, which is also its address in the URL and     *)
(* part of its id in the DOM, is a sequence too.                           *)
(***************************************************************************)
EXTENDS Naturals, Sequences, FiniteSets, SequencesExt

CONSTANTS
    Letter,   \* the characters of titles that are letters
    IdChar,   \* the characters that an id may have in a selector
    Escaped,  \* the characters that the address bar percent-encodes
    Refused,  \* names that make a selector which jQuery refuses with an error
    Site      \* the pages there are, records of
              \*   kind:      "root", "submodule" or "example"
              \*   version:   whether a version is shown (root pages)
              \*   titles:    titles of the additional tabs, sequences of characters
              \*   mayModify: whether the user may change the module provider
              \*   analytics: whether analytics are enabled
              \*   issues:    whether there are security results
              \*   view:      the view of inputs and outputs the user prefers
              \*   hash:      the anchor of the URL by which the page is opened

\* "%XX" stands for the characters that an escaped one becomes in an address.
\* Left out are titles with a character that ends a string or an attribute of
\* the HTML made from them, separates selectors or starts an escape.
TitleChar == STRING \ {"%XX", "%", "&", ",", "'", "\"", "\\"}

ASSUME SiteAssumption ==
    Site \subseteq [kind : {"root", "submodule", "example"}, version : BOOLEAN,
                   titles : Seq(Seq(TitleChar)), mayModify : BOOLEAN,
                   analytics : BOOLEAN, issues : BOOLEAN, view : {"table", "expanded"},
                   hash : Seq(STRING)]

VARIABLES
    site,      \* the page that is open
    tabs,      \* TabFactory._tabs: the tabs in the order in which they registered
    answer,    \* request -> "unsent", "pending", "ok", "empty", "moved" or "failed"
    inserted,  \* additional tabs in the DOM, in the order of the DOM
    view,      \* "table" or "expanded"
    hash,      \* the anchor in the address bar
    shown,     \* the tab that is shown, None or Blank
    chosen     \* the tab the user clicked last, or None

pageVars == <<site, tabs, answer, inserted, view, hash, shown, chosen>>

None  == <<>>
Blank == <<"blank">>  \* no tab is shown although one was selected

InputAnchor  == <<"terrareg-anchor", "input">>
OutputAnchor == <<"terrareg-anchor", "output">>
ReadmeAnchor == <<"terrareg-anchor", "readme">>
Anchors == {InputAnchor, OutputAnchor, ReadmeAnchor}

-----------------------------------------------------------------------------
\* AdditionalTab: the first character that is not a letter becomes "-".
AdditionalName(title) ==
    [n \in DOMAIN title |->
        IF title[n] \notin Letter /\ \A m \in 1..(n - 1) : title[m] \in Letter
        THEN "-" ELSE title[n]]

CustomName(title) == <<"custom-">> \o AdditionalName(title)

\* Whether a name is an id as a selector has it.  AdditionalTab replaces one
\* character only, so that the name of "C++" still has a "+".
IsId(name) == \A n \in DOMAIN name : n > 1 => name[n] \in IdChar

\* A selector made from a name that is no id finds nothing: what comes before
\* the first other character is not the name of another tab, as that of "C#"
\* would be for "C++".
ASSUME NamesAssumption ==
    /\ \A name \in Refused : ~IsId(name)
    /\ \A s \in Site : \A i, j \in DOMAIN s.titles :
          LET name == CustomName(s.titles[i])
          IN  \A n \in DOMAIN name :
                 n > 1 /\ name[n] \notin IdChar => CustomName(s.titles[j]) # SubSeq(name, 1, n - 1)

Extras == [i \in DOMAIN site.titles |-> <<"extra", i>>]

IsExtra(t) == t[1] = "extra"

Name(t) == IF IsExtra(t) THEN CustomName(site.titles[t[2]]) ELSE t

\* What the address bar makes of a name.
Encoded(name) == [n \in DOMAIN name |-> IF name[n] \in Escaped THEN "%XX" ELSE name[n]]

Tabs(names) == [n \in DOMAIN names |-> <<names[n]>>]

\* The tabs each kind of page registers, in this order.
TabsToRegister ==
    IF site.kind = "root"
    THEN IF site.version
         THEN Tabs(<<"readme", "inputs">>) \o Extras
                 \o Tabs(<<"integrations", "settings", "outputs", "providers", "modules",
                           "resources", "security-issues", "analytics", "usage-builder">>)
         ELSE Tabs(<<"integrations", "settings">>)
    ELSE Tabs(<<"readme">>) \o (IF site.kind = "example" THEN Tabs(<<"example-files">>) ELSE <<>>)
            \o Tabs(<<"inputs", "outputs", "providers", "modules", "resources", "security-issues">>)

\* The requests of the page.  The tabs that ask the server for their content
\* are requests themselves.
Details == <<"details">>
Part    == <<"part">>
Login   == <<"login">>
Config  == <<"config">>

IsFetched(t) == IsExtra(t) \/ t \in {<<"readme">>, <<"example-files">>, <<"usage-builder">>}

Requests == {Details, Part, Login, Config} \cup {t \in ToSet(TabsToRegister) : IsFetched(t)}

\* A fault: the request of usage-builder has no handler for failures either.
FetchedPromise_NoFailureHandler(a, t) ==
    CASE a[t] = "ok" -> "valid" [] a[t] = "empty" -> "invalid" [] OTHER -> "waiting"

\* Requests for the content of a tab have no handler for failures, but
\* usage-builder's resolves.
FetchedPromise(a, t) ==
    CASE a[t] = "ok" -> "valid"
      [] a[t] = "empty" -> "invalid"
      [] a[t] = "failed" /\ t = <<"usage-builder">> -> "invalid"
      [] OTHER -> "waiting"

IntegrationsPromise(a) == IF a[Login] = "ok" THEN "valid" ELSE "waiting"

SettingsPromise(a) ==
    IF a[Login] = "ok" /\ ~site.mayModify THEN "invalid" ELSE IntegrationsPromise(a)

AnalyticsPromise == IF site.analytics THEN "valid" ELSE "invalid"

\* The promise of a tab: "waiting", "valid" or "invalid".  The configuration is
\* there before the details are asked for, and so are the user's preferences,
\* so that the tabs that list parts of the details are valid at once.
PromiseWith(a, t) ==
    CASE IsFetched(t) -> FetchedPromise(a, t)
      [] t = <<"integrations">> -> IntegrationsPromise(a)
      [] t = <<"settings">> -> SettingsPromise(a)
      [] t = <<"analytics">> -> AnalyticsPromise
      [] OTHER -> "valid"

\* renderTabs is done: all promises are resolved.
AllSettled(ts, a) == ts # <<>> /\ \A n \in DOMAIN ts : PromiseWith(a, ts[n]) # "waiting"

Settled == AllSettled(tabs, answer)

Valid(t) == PromiseWith(answer, t) = "valid"

\* Whether the tab bar has a link to the tab.
HasLink(t) ==
    /\ Valid(t)
    /\ t = <<"security-issues">> => site.issues

-----------------------------------------------------------------------------
\* selectModuleTab: all tabs are hidden, and the one whose id is made from the
\* name is shown.  For a name that is no id the selector finds nothing or is
\* refused; of additional tabs with the same name it finds the first in the DOM.
Selected(name, dom) ==
    IF name[1] # "custom-" THEN name
    ELSE IF ~IsId(name) \/ \A n \in DOMAIN dom : Name(dom[n]) # name THEN Blank
    ELSE dom[CHOOSE n \in DOMAIN dom :
                 Name(dom[n]) = name /\ \A m \in 1..(n - 1) : Name(dom[m]) # name]

\* _tabsLookup: the last tab that registered itself under the name.
Lookup(ts, name) == SelectLastInSeq(ts, LAMBDA t : Name(t) = name)

\* The anchors in the content of the tabs.  Inputs and outputs have one each in
\* the expanded view only.
HasInputAnchors(t)    == t = <<"inputs">> /\ view = "expanded"
HasOutputAnchors(t)   == t = <<"outputs">> /\ view = "expanded"
HasReadmeAnchor(t, a) == t = <<"readme">> /\ a[t] = "ok"

HasAnchor(t, a) ==
    \/ hash = InputAnchor  /\ HasInputAnchors(t)
    \/ hash = OutputAnchor /\ HasOutputAnchors(t)
    \/ hash = ReadmeAnchor /\ HasReadmeAnchor(t, a)

\* A fault: the anchor of the URL is not looked at.
DefaultTab_First(ts, a) == SelectInSeq(ts, LAMBDA t : PromiseWith(a, t) = "valid")

\* A fault: the tab that the address names is not asked whether it is valid.
DefaultTab_Unchecked(ts, a) ==
    LET named == Lookup(ts, hash)
    IN  IF named # 0 THEN named ELSE SelectInSeq(ts, LAMBDA t : PromiseWith(a, t) = "valid")

\* The search for the anchor in the content of one tab after the other.  It
\* ends with an error at a tab whose name jQuery refuses.
SearchEnds(ts, a) == SelectInSeq(ts, LAMBDA t : HasAnchor(t, a) \/ Name(t) \in Refused)

IsAnchor == hash # <<>> /\ hash[1] = "terrareg-anchor"

\* setDefaultTab: the place of the tab the address names if it is valid, else
\* of the tab that has the anchor, else of the first valid tab; 0 if the search
\* for the anchor ends with an error.
DefaultTab(ts, a) ==
    LET named == Lookup(ts, hash)
        found == SearchEnds(ts, a)
    IN  IF named # 0 /\ PromiseWith(a, ts[named]) = "valid" THEN named
        ELSE IF IsAnchor /\ found # 0 THEN IF Name(ts[found]) \in Refused THEN 0 ELSE found
        ELSE SelectInSeq(ts, LAMBDA t : PromiseWith(a, t) = "valid")

-----------------------------------------------------------------------------
Init ==
    /\ site \in Site
    /\ tabs = <<>>
    /\ answer = [q \in Requests |-> IF q \in {Config, Login} THEN "pending" ELSE "unsent"]
    /\ inserted = <<>>
    /\ view = site.view
    /\ hash = site.hash
    /\ shown = None
    /\ chosen = None

\* What a request may be answered.  Failures of the details resolve to null,
\* and the details may be those of a module that has moved.
Answers(q) ==
    {"ok", "failed"} \cup (IF q = Details THEN {"moved"} ELSE {})
        \cup (IF IsFetched(q) THEN {"empty"} ELSE {})

\* The last details of the page: its tabs are registered and rendered.
Registers(q, r) == r = "ok" /\ q = IF site.kind = "root" THEN Details ELSE Part

\* The requests that are sent when q is answered.
SentAfter(q, r) ==
    CASE Registers(q, r) -> {p \in Requests : IsFetched(p)}
      [] r = "ok" /\ q = Config -> {Details}
      [] r = "ok" /\ q = Details /\ site.kind # "root" -> {Part}
      [] OTHER -> {}

Here == answer[Details] # "moved"

\* An answer arrives: requests that waited for it are sent, an additional tab
\* is inserted after "Resources", and the default tab is shown if there is one
\* and this was the last answer that the tabs waited for.
Arrives(q, r) ==
    /\ Here /\ answer[q] = "pending" /\ r \in Answers(q)
    /\ tabs' = IF Registers(q, r) THEN TabsToRegister ELSE tabs
    /\ answer' = [p \in Requests |->
                    IF p = q THEN r ELSE IF p \in SentAfter(q, r) THEN "pending" ELSE answer[p]]
    /\ inserted' = IF IsExtra(q) /\ r = "ok" THEN <<q>> \o inserted ELSE inserted
    /\ shown' = IF AllSettled(tabs', answer') /\ ~Settled /\ DefaultTab(tabs', answer') # 0
                THEN Selected(Name(tabs'[DefaultTab(tabs', answer')]), inserted')
                ELSE shown
    /\ UNCHANGED <<site, view, hash, chosen>>

\* The user clicks on the link of a tab.
ClickTab(t) ==
    /\ Here /\ HasLink(t)
    /\ hash' = Encoded(Name(t))
    /\ shown' = Selected(Name(t), inserted)
    /\ chosen' = t
    /\ UNCHANGED <<site, tabs, answer, inserted, view>>

\* The user follows a link in the list of inputs or outputs.
ClickAnchor ==
    /\ Here /\ (HasInputAnchors(shown) \/ HasOutputAnchors(shown))
    /\ hash' = IF shown = <<"inputs">> THEN InputAnchor ELSE OutputAnchor
    /\ UNCHANGED <<site, tabs, answer, inserted, view, shown, chosen>>

\* The user selects the other view; both tabs are rendered again.
SwitchView ==
    /\ Here /\ shown \in {<<"inputs">>, <<"outputs">>}
    /\ view' = IF view = "table" THEN "expanded" ELSE "table"
    /\ UNCHANGED <<site, tabs, answer, inserted, hash, shown, chosen>>

Next ==
    \/ \E q \in Requests, r \in {"ok", "empty", "moved", "failed"} : Arrives(q, r)
    \/ \E t \in ToSet(tabs) : ClickTab(t)
    \/ ClickAnchor
    \/ SwitchView

Answered == \E q \in Requests : \E r \in Answers(q) : Arrives(q, r)

\* Requests that were sent are answered, or their connections fail.  Each is
\* answered once, so that none is left out.
Fairness == WF_pageVars(Answered)

Spec == Init /\ [][Next]_pageVars /\ Fairness
-----------------------------------------------------------------------------
TypeOK ==
    /\ site \in Site
    /\ tabs \in {<<>>, TabsToRegister}
    /\ answer \in [Requests -> {"unsent", "pending", "ok", "empty", "moved", "failed"}]
    /\ ToSet(inserted) \subseteq {t \in ToSet(Extras) \cap Requests : answer[t] = "ok"}
    /\ view \in {"table", "expanded"}
    /\ shown \in {None, Blank} \cup ToSet(tabs)
    /\ chosen \in {None} \cup ToSet(tabs)

\* A tab whose name is an id, and its own.
HasOwnName(t) ==
    /\ IsId(Name(t))
    /\ \A u \in ToSet(tabs) : Name(u) = Name(t) => u = t

\* The address and the tab agree: the tab the user clicked stays when the
\* page settles later, and a page that is opened at the address of a tab with
\* content shows that tab in the end (selectModuleTab, setDefaultTab).  For a
\* title whose name is no id, or is encoded in the address, it may not.
AddressNamesShownTab ==
    \A t \in ToSet(tabs) :
        (Settled \/ chosen = t) /\ Valid(t) /\ HasOwnName(t) /\ hash = Name(t) => shown = t

\* The address is that of an additional tab whose name is no id.
AddressIsNoId ==
    \E t \in ToSet(Extras) : ~IsId(Name(t)) /\ hash \in {Name(t), Encoded(Name(t))}

\* What is shown has content, whatever titles collide and whichever answers
\* are missing; nothing is shown in place of a tab only at the address of a
\* title that leaves a character in the name which no id has (AdditionalTab,
\* selectModuleTab).
ShownTabHasContent ==
    /\ shown \notin {None, Blank} => Valid(shown)
    /\ shown = Blank => AddressIsNoId

\* jQuery refuses the search for the anchor of the address.
SearchIsRefused == IsAnchor /\ \E t \in ToSet(Extras) : Name(t) \in Refused

\* A page whose requests succeed shows a tab in the end, in whatever order the
\* answers arrive; a failure of usage-builder's request does not prevent it.
\* A title that leaves a character in the name which no id has does: at the
\* address of that tab, or at the anchor of a row if jQuery refuses the name.
PageGetsATab ==
    <>(\/ shown \notin {None, Blank}
       \/ shown = Blank /\ AddressIsNoId
       \/ SearchIsRefused
       \/ ~Here
       \/ \E q \in Requests \ {<<"usage-builder">>} : answer[q] = "failed")
=============================================================================

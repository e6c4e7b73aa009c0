---------------------------- MODULE SettingsForm ----------------------------
(***************************************************************************)
(* The "Settings" tab of a module provider and the request it sends.       *)
(*                                                                         *)
(* The form is filled from the details the page was loaded with; its two   *)
(* drop-downs get their options from answers that arrive later.  The       *)
(* server updates one attribute after the other, each in a transaction of  *)
(* its own, and returns early when it refuses one.                         *)
(*                                                                         *)
(* url stands for the three URL templates, verified for the flags and the  *)
(* archive path, which the server treats alike.                            *)
(***************************************************************************)
EXTENDS Naturals, FiniteSets, Sequences, SequencesExt

CONSTANTS
    GitProvider, GitPath, Url, TagFormat, Source,
    Wrong,           \* the values among these that the server refuses
    Template,        \* git paths with placeholders
    PathOf(_),       \* the git path that a git provider suggests, or Null
    Quoted(_, _),    \* what the server stores for a value of a field: URLs and tag
                     \* formats are percent-encoded, tag formats each time anew
    Resolved(_),     \* what a git path is once its placeholders are replaced
    Setting,         \* the settings a module provider may have at first
    Null,            \* NULL in the row, "" in the form
    NoOption,       \* the value of a drop-down without options
    MaxEdits, MaxSubmissions  \* bounds: what the user does

Fields == <<"git", "url", "tag", "path", "verified", "source">>

\* The tag formats that a form may have: stored ones and those that are typed.
Tags == TagFormat \cup {s.tag : s \in Setting}

Values(f) ==
    CASE f = "git" -> GitProvider \cup {Null}
      [] f = "url" -> Url \cup {Null}
      [] f = "tag" -> Tags
      [] f = "path" -> GitPath \cup {Null}
      [] f = "verified" -> BOOLEAN
      [] OTHER -> Source \cup {Null}

\* What is stored has passed the checks.  Percent-encoding does not take a "%"
\* or a brace of a URL for a character to encode, so that stored URLs stay as
\* they are, nor does it change whether a URL or a tag format is refused; URLs
\* whose host is an IPv6 address, which it breaks, are not considered.
ASSUME SettingsAssumption ==
    /\ Setting \subseteq [git : Values("git"), url : Values("url"), tag : Tags, path : Values("path"),
                          verified : BOOLEAN, source : Values("source")]
    /\ \A s \in Setting : /\ \A f \in DOMAIN s : s[f] \notin Wrong
                          /\ Quoted("url", s.url) = s.url
    /\ Null \notin Wrong \cup Tags /\ Wrong \cap BOOLEAN = {}
    /\ \A f \in {"git", "path", "verified", "source"} : \A v \in Values(f) : Quoted(f, v) = v
    /\ \A f \in {"url", "tag"} : \A v \in Values(f) \ Wrong : Quoted(f, v) \notin Wrong
    /\ \A v \in Values("url") : Quoted("url", v) \in Values("url")
    /\ \A v \in Tags : Quoted("tag", v) # Null
    /\ \A p \in Values("path") : /\ Resolved(p) \in Values("path")
                                 /\ p \notin Template => Resolved(p) = p
    /\ \A g \in GitProvider : PathOf(g) \in Values("path")
    /\ MaxEdits \in Nat /\ MaxSubmissions \in Nat

VARIABLES
    custom,     \* ALLOW_CUSTOM_GIT_URL_MODULE_PROVIDER
    saved,      \* the row of the module provider
    details,    \* the row as the page knows it
    form,       \* what the inputs hold
    arrived,    \* which of "git" and "source" have their options
    touched,    \* the fields the user has edited, or chosen with the git provider
    edits,      \* how many edits were made
    requests,   \* the submissions: their bodies and how far the server is
    message     \* "none", "success" or "error"

settingsVars == <<custom, saved, details, form, arrived, touched, edits, requests, message>>

-----------------------------------------------------------------------------
\* The first option of the git providers: "Custom", which is there from the
\* start if it is allowed, else the first provider once they have arrived.
FirstProvider == CHOOSE g \in GitProvider : TRUE

\* A fault: the option of the module's git provider is not selected.
SelectedGit_First(there) ==
    IF custom THEN Null ELSE IF "git" \in there THEN FirstProvider ELSE NoOption

\* What the drop-down of git providers shows before the user touches it.
SelectedGit(there) ==
    IF "git" \in there /\ details.git # Null THEN details.git
    ELSE IF custom THEN Null
    ELSE IF "git" \in there /\ GitProvider # {} THEN FirstProvider
    ELSE NoOption

\* The drop-down of provider sources has "None" from the start.
SelectedSource(there) == IF "source" \in there THEN details.source ELSE Null

\* SettingsTab.render: the inputs get what the details say, in which the
\* placeholders of the git path are replaced already.
Filled ==
    [git |-> SelectedGit({}), url |-> details.url, tag |-> details.tag,
     path |-> Resolved(details.path), verified |-> details.verified,
     source |-> SelectedSource({})]

SettingsInit ==
    /\ custom \in BOOLEAN
    /\ saved \in Setting
    /\ details = saved
    /\ form = Filled
    /\ arrived = {}
    /\ touched = {}
    /\ edits = 0
    /\ requests = <<>>
    /\ message = "none"

\* The options of a drop-down arrive; one of them is marked as selected.
OptionsArrive(list) ==
    /\ list \in {"git", "source"} \ arrived
    /\ arrived' = arrived \cup {list}
    /\ form' = IF list \in touched THEN form
               ELSE IF list = "git" THEN [form EXCEPT !.git = SelectedGit(arrived')]
               ELSE [form EXCEPT !.source = SelectedSource(arrived')]
    /\ UNCHANGED <<custom, saved, details, touched, edits, requests, message>>

\* The values the user can give to a field.
Options(f) ==
    CASE f = "git" -> IF "git" \in arrived
                      THEN GitProvider \cup (IF custom THEN {Null} ELSE {})
                      ELSE {}
      [] f = "url" -> IF form.git = Null THEN Url \cup {Null} ELSE {}
      [] f = "tag" -> TagFormat
      [] f = "path" -> GitPath \cup {Null}
      [] f = "verified" -> BOOLEAN
      [] OTHER -> IF "source" \in arrived THEN Source \cup {Null} ELSE {}

\* Choosing a git provider that has a git path puts it into the form.
Suggests(f, v) == f = "git" /\ v # Null /\ PathOf(v) # Null

\* Bound: MaxEdits.
Edit(f, v) ==
    /\ edits < MaxEdits
    /\ v \in Options(f) /\ v # form[f]
    /\ form' = [form EXCEPT ![f] = v, !.path = IF f = "path" THEN v
                                           ELSE IF Suggests(f, v) THEN PathOf(v)
                                           ELSE @]
    /\ touched' = touched \cup {f} \cup (IF Suggests(f, v) THEN {"path"} ELSE {})
    /\ edits' = edits + 1
    /\ UNCHANGED <<custom, saved, details, arrived, requests, message>>

-----------------------------------------------------------------------------
\* updateModuleProviderSettings: URLs are sent for the custom git provider only.
Body == [form EXCEPT !.url = IF form.git = Null THEN form.url ELSE Null]

\* Bound: MaxSubmissions.  A request may be sent while another is running.
Submit ==
    /\ Len(requests) < MaxSubmissions
    /\ requests' = Append(requests, [body |-> Body, next |-> 1, refused |-> FALSE,
                                     loaded |-> arrived, edited |-> touched, before |-> saved])
    /\ message' = "none"
    /\ UNCHANGED <<custom, saved, details, form, arrived, touched, edits>>

\* A fault: the server does not check what it is sent.
Refuses_Never(f, v) == FALSE

\* The checks of update_repo_..._template, update_git_tag_format and
\* update_provider_source, made just before the attribute is written.
Refuses(f, v) == f \in {"git", "url", "tag", "path", "source"} /\ v \in Wrong

Running(n) == ~requests[n].refused /\ requests[n].next \in DOMAIN Fields

\* A fault: the handler goes on after it has refused an attribute.
Update_GoesOn(n) ==
    /\ Running(n)
    /\ LET f == Fields[requests[n].next]
           v == requests[n].body[f]
       IN  /\ saved' = IF v = NoOption \/ Refuses(f, v) THEN saved ELSE [saved EXCEPT ![f] = Quoted(f, v)]
           /\ requests' = [requests EXCEPT ![n].next = @ + 1]
           /\ message' = IF Refuses(f, v) THEN "error" ELSE message
    /\ UNCHANGED <<custom, details, form, arrived, touched, edits>>

\* The server handles the next attribute of a request: it leaves out what the
\* body does not have, refuses with an error, or commits the attribute.  After
\* the last one the page shows "success".
Update(n) ==
    /\ Running(n)
    /\ LET f == Fields[requests[n].next]
           v == requests[n].body[f]
       IN  /\ saved' = IF v = NoOption \/ Refuses(f, v) THEN saved ELSE [saved EXCEPT ![f] = Quoted(f, v)]
           /\ requests' = IF Refuses(f, v) THEN [requests EXCEPT ![n].refused = TRUE]
                                           ELSE [requests EXCEPT ![n].next = @ + 1]
           /\ message' = CASE Refuses(f, v) -> "error"
                           [] ~Refuses(f, v) /\ f = Last(Fields) -> "success"
                           [] OTHER -> message
    /\ UNCHANGED <<custom, details, form, arrived, touched, edits>>

SettingsNext ==
    \/ \E list \in {"git", "source"} : OptionsArrive(list)
    \/ \E f \in ToSet(Fields) : \E v \in Options(f) : Edit(f, v)
    \/ Submit
    \/ \E n \in DOMAIN requests : Update(n)

SettingsSpec == SettingsInit /\ [][SettingsNext]_settingsVars

-----------------------------------------------------------------------------
SettingsTypeOK ==
    /\ custom \in BOOLEAN
    /\ saved.git \in GitProvider \cup {Null} /\ saved.url \in Url \cup {Null}
    /\ saved.tag # Null /\ saved.path \in GitPath \cup {Null}
    /\ saved.verified \in BOOLEAN /\ saved.source \in Source \cup {Null}
    /\ \A f \in ToSet(Fields) : saved[f] \notin Wrong
    /\ form.git \in GitProvider \cup {Null, NoOption}
    /\ arrived \subseteq {"git", "source"} /\ touched \subseteq ToSet(Fields)
    /\ edits \in 0..MaxEdits
    /\ Len(requests) <= MaxSubmissions
    /\ message \in {"none", "success", "error"}

\* Settings the user did not touch survive submissions, one or several at once,
\* if the drop-downs had their options by then.  The code has four exceptions:
\* where no custom URLs are allowed the first git provider is taken
\* by a module provider without one; URLs are dropped beside a git provider;
\* placeholders of the git path are replaced; and a tag format in which
\* something was percent-encoded is encoded once more.
UntouchedSettingsSurvive ==
    [][(\A n \in DOMAIN requests : requests[n].loaded = {"git", "source"}) =>
         \A f \in ToSet(Fields) :
              saved'[f] # saved[f] =>
                 \/ \E n \in DOMAIN requests : f \in requests[n].edited
                 \/ f = "git" /\ ~custom /\ details.git = Null
                 \/ f = "url" /\ \E n \in DOMAIN requests : requests[n].body.git # Null
                 \/ f = "path" /\ details.path \in Template
                 \/ f = "tag" /\ Quoted("tag", details.tag) # details.tag]_settingsVars

\* A submission that ran alone has had the effect its message tells of: after
\* "success" every attribute is what was sent, percent-encoded where it has to
\* be, after "error" those before the refused one are, and the others are as
\* they were (the settings endpoint, updateModuleProviderSettings).
OutcomeIsHonest ==
    Len(requests) = 1 /\ ~Running(1) =>
      /\ message = IF requests[1].refused THEN "error" ELSE "success"
      /\ \A k \in DOMAIN Fields :
           LET f == Fields[k] IN
           saved[f] = IF k < requests[1].next /\ requests[1].body[f] # NoOption
                      THEN Quoted(f, requests[1].body[f]) ELSE requests[1].before[f]
=============================================================================

-------------------------- MODULE WebClient_proofs --------------------------
(***************************************************************************)
(* Proofs about the two other parts of WebClient, and about WebClient.     *)
(*                                                                         *)
(* SettingsForm, for every module provider, any number of edits and of     *)
(* requests at once: fields that nobody touched hold what the details say  *)
(* (FormIsFilled, BodyIsFilled), so that the server stores what was there; *)
(* and of a request that runs alone one can tell from how far it has come  *)
(* what is stored (Progress).                                              *)
(*                                                                         *)
(* UsageBuilder, for every module and lists of any length: what Sublist    *)
(* gathers are the elements at the positions (SublistGathers), and the     *)
(* last of them is the last of the list, if it is one (SublistStep).       *)
(*                                                                         *)
(* WebClient: a step of it is a step of one part and leaves the others, so *)
(* that their inductive invariants hold side by side (WebInv).             *)
(***************************************************************************)
EXTENDS WebClient, ModulePage_proofs

(* SettingsForm *)

FieldNames == {"git", "url", "tag", "path", "verified", "source"}
DropDowns == {"git", "source"}

\* What the inputs hold, and what is stored.
FormType == [git : GitProvider \cup {Null, NoOption}, url : Url \cup {Null}, tag : Tags,
             path : GitPath \cup {Null}, verified : BOOLEAN, source : Source \cup {Null}]

SavedType == [git : GitProvider \cup {Null}, url : Url \cup {Null},
              tag : Tags \cup {Quoted("tag", v) : v \in Tags},
              path : GitPath \cup {Null}, verified : BOOLEAN, source : Source \cup {Null}]

RequestType == [body : FormType, next : 1..7, refused : BOOLEAN, loaded : SUBSET DropDowns,
                edited : SUBSET FieldNames, before : SavedType]

SettingsTypes ==
    /\ custom \in BOOLEAN
    /\ saved \in SavedType /\ \A f \in FieldNames : saved[f] \notin Wrong
    /\ details \in Setting
    /\ form \in FormType
    /\ arrived \subseteq DropDowns /\ touched \subseteq FieldNames
    /\ edits \in 0..MaxEdits
    /\ requests \in Seq(RequestType) /\ Len(requests) <= MaxSubmissions
    /\ message \in {"none", "success", "error"}

\* What a form holds in a field that the user did not touch.
Untouched(f, there) ==
    CASE f = "git" -> SelectedGit(there)
      [] f = "path" -> Resolved(details.path)
      [] f = "source" -> SelectedSource(there)
      [] OTHER -> details[f]

FormIsFilled == \A f \in FieldNames \ touched : form[f] = Untouched(f, arrived)

BodyIsFilled(r) ==
    \A f \in FieldNames \ r.edited :
        r.body[f] = IF f = "url" /\ r.body.git # Null THEN Null ELSE Untouched(f, r.loaded)

\* The exceptions: what a request may change although nobody touched it.
Excused(f) ==
    \/ \E n \in DOMAIN requests : f \in requests[n].edited
    \/ f = "git" /\ ~custom /\ details.git = Null
    \/ f = "url" /\ \E n \in DOMAIN requests : requests[n].body.git # Null
    \/ f = "path" /\ details.path \in Template
    \/ f = "tag" /\ Quoted("tag", details.tag) # details.tag

AllLoaded == \A n \in DOMAIN requests : requests[n].loaded = {"git", "source"}

Surviving == AllLoaded => \A f \in FieldNames : saved[f] = details[f] \/ Excused(f)

\* How far a request that runs alone has come.
Progress(r) ==
    /\ message = IF r.refused THEN "error" ELSE IF r.next = 7 THEN "success" ELSE "none"
    /\ \A k \in 1..6 :
          saved[Fields[k]] = IF k < r.next /\ r.body[Fields[k]] # NoOption
                             THEN Quoted(Fields[k], r.body[Fields[k]]) ELSE r.before[Fields[k]]

SettingsInv ==
    /\ SettingsTypes
    /\ FormIsFilled
    /\ \A n \in DOMAIN requests : BodyIsFilled(requests[n])
    /\ Surviving
    /\ requests = <<>> => message = "none"
    /\ Len(requests) = 1 => Progress(requests[1])

LEMMA FieldsAre ==
    /\ DOMAIN Fields = 1..6 /\ Last(Fields) = "source" /\ ToSet(Fields) = FieldNames
    /\ Fields[1] = "git" /\ Fields[2] = "url" /\ Fields[3] = "tag"
    /\ Fields[4] = "path" /\ Fields[5] = "verified" /\ Fields[6] = "source"
    /\ \A k \in 1..6 : Fields[k] \in FieldNames
    /\ \A k, l \in 1..6 : Fields[k] = Fields[l] => k = l
    /\ \A k \in 1..6 : Fields[k] = "source" <=> k = 6
  BY DEF Fields, Last, ToSet, FieldNames

\* The assumptions, field by field.
LEMMA SettingsFacts ==
    /\ Setting \subseteq [git : GitProvider \cup {Null}, url : Url \cup {Null}, tag : Tags,
                          path : GitPath \cup {Null}, verified : BOOLEAN,
                          source : Source \cup {Null}]
    /\ \A s \in Setting : /\ \A f \in FieldNames : s[f] \notin Wrong
                          /\ Quoted("url", s.url) = s.url
    /\ Null \notin Wrong \cup Tags /\ Wrong \cap BOOLEAN = {}
    /\ \A v \in GitProvider \cup {Null} : Quoted("git", v) = v
    /\ \A v \in GitPath \cup {Null} : Quoted("path", v) = v
    /\ \A v \in BOOLEAN : Quoted("verified", v) = v
    /\ \A v \in Source \cup {Null} : Quoted("source", v) = v
    /\ \A v \in (Url \cup {Null}) \ Wrong : Quoted("url", v) \notin Wrong
    /\ \A v \in Tags \ Wrong : Quoted("tag", v) \notin Wrong
    /\ \A v \in Url \cup {Null} : Quoted("url", v) \in Url \cup {Null}
    /\ \A v \in Tags : Quoted("tag", v) # Null
    /\ \A p \in GitPath \cup {Null} : /\ Resolved(p) \in GitPath \cup {Null}
                                      /\ p \notin Template => Resolved(p) = p
    /\ \A g \in GitProvider : PathOf(g) \in GitPath \cup {Null}
    /\ MaxEdits \in Nat /\ MaxSubmissions \in Nat
  <1>1. /\ Values("git") = GitProvider \cup {Null} /\ Values("url") = Url \cup {Null}
        /\ Values("tag") = Tags /\ Values("path") = GitPath \cup {Null}
        /\ Values("verified") = BOOLEAN /\ Values("source") = Source \cup {Null}
    BY DEF Values
  <1>2. Setting \subseteq [git : GitProvider \cup {Null}, url : Url \cup {Null}, tag : Tags,
                           path : GitPath \cup {Null}, verified : BOOLEAN,
                           source : Source \cup {Null}]
    BY <1>1, SettingsAssumption
  <1>3. \A s \in Setting : DOMAIN s = FieldNames
    BY <1>2 DEF FieldNames
  <1>4. \A s \in Setting : /\ \A f \in FieldNames : s[f] \notin Wrong
                           /\ Quoted("url", s.url) = s.url
    BY <1>3, SettingsAssumption
  <1>5. \A f \in {"git", "path", "verified", "source"} : \A v \in Values(f) : Quoted(f, v) = v
    BY SettingsAssumption
  <1>6. /\ \A v \in Values("git") : Quoted("git", v) = v
        /\ \A v \in Values("path") : Quoted("path", v) = v
        /\ \A v \in Values("verified") : Quoted("verified", v) = v
        /\ \A v \in Values("source") : Quoted("source", v) = v
    BY <1>5
  <1>7. \A f \in {"url", "tag"} : \A v \in Values(f) \ Wrong : Quoted(f, v) \notin Wrong
    BY SettingsAssumption
  <1>8. /\ \A v \in Values("url") \ Wrong : Quoted("url", v) \notin Wrong
        /\ \A v \in Values("tag") \ Wrong : Quoted("tag", v) \notin Wrong
    BY <1>7
  <1>9. /\ Null \notin Wrong \cup Tags /\ Wrong \cap BOOLEAN = {}
        /\ \A v \in Tags : Quoted("tag", v) # Null
        /\ MaxEdits \in Nat /\ MaxSubmissions \in Nat
    BY SettingsAssumption
  <1>10. \A v \in Values("url") : Quoted("url", v) \in Values("url")
    BY SettingsAssumption
  <1>11. \A p \in Values("path") : /\ Resolved(p) \in Values("path")
                                   /\ p \notin Template => Resolved(p) = p
    BY SettingsAssumption
  <1>12. \A g \in GitProvider : PathOf(g) \in Values("path")
    BY SettingsAssumption
  <1> QED BY <1>1, <1>2, <1>4, <1>6, <1>8, <1>9, <1>10, <1>11, <1>12

LEMMA SelectedAre ==
    ASSUME SettingsTypes, NEW there
    PROVE  /\ SelectedGit(there) \in GitProvider \cup {Null, NoOption}
           /\ SelectedSource(there) \in Source \cup {Null}
  BY SettingsFacts DEF SettingsTypes, SelectedGit, SelectedSource, FirstProvider

LEMMA SettingsStart == SettingsInit => SettingsInv
  <1> SUFFICES ASSUME SettingsInit PROVE SettingsInv
    OBVIOUS
  <1>1. SelectedGit({}) \in {Null, NoOption} /\ SelectedSource({}) = Null
    BY DEF SelectedGit, SelectedSource
  <1>2. details \in Setting /\ details = saved
    BY DEF SettingsInit
  <1>3. form \in FormType
    BY <1>1, <1>2, SettingsFacts DEF SettingsInit, Filled, FormType
  <1>4. saved \in SavedType /\ \A f \in FieldNames : saved[f] \notin Wrong
    BY <1>2, SettingsFacts DEF SavedType
  <1>5. SettingsTypes
    BY <1>2, <1>3, <1>4, SettingsFacts DEF SettingsInit, SettingsTypes
  <1>6. FormIsFilled
    BY DEF SettingsInit, Filled, FormIsFilled, Untouched, FieldNames
  <1> QED BY <1>2, <1>5, <1>6 DEF SettingsInit, SettingsInv, Surviving

\* Requests and what is stored keep what holds of them while the user acts.
LEMMA RestKept ==
    ASSUME SettingsInv, UNCHANGED <<custom, saved, details, requests, message>>
    PROVE  /\ \A n \in DOMAIN requests' : BodyIsFilled(requests[n])'
           /\ Surviving'
           /\ requests' = <<>> => message' = "none"
           /\ Len(requests') = 1 => Progress(requests[1])'
  BY DEF SettingsInv, BodyIsFilled, Untouched, SelectedGit, SelectedSource, Surviving, AllLoaded,
         Excused, Progress

LEMMA OptionsArriveStep ==
    ASSUME SettingsInv, NEW list \in {"git", "source"}, OptionsArrive(list)
    PROVE  SettingsInv'
  <1>1. UNCHANGED <<custom, saved, details, touched, edits, requests, message>>
    BY DEF OptionsArrive
  <1>2. list \notin arrived /\ arrived' = arrived \cup {list}
    BY DEF OptionsArrive
  <1>3. SelectedGit(arrived') \in GitProvider \cup {Null, NoOption}
        /\ SelectedSource(arrived') \in Source \cup {Null}
    BY SelectedAre DEF SettingsInv
  <1>4. form' = IF list \in touched THEN form
                ELSE IF list = "git" THEN [form EXCEPT !.git = SelectedGit(arrived')]
                ELSE [form EXCEPT !.source = SelectedSource(arrived')]
    BY DEF OptionsArrive
  <1>5. form' \in FormType
    BY <1>3, <1>4 DEF SettingsInv, SettingsTypes, FormType
  <1>6. SettingsTypes'
    BY <1>1, <1>2, <1>5 DEF SettingsInv, SettingsTypes, DropDowns
  <1>7. FormIsFilled'
    <2> SUFFICES ASSUME NEW f \in FieldNames \ touched
                 PROVE  form'[f] = Untouched(f, arrived)'
      BY <1>1 DEF FormIsFilled
    <2>1. form[f] = Untouched(f, arrived)
      BY DEF SettingsInv, FormIsFilled
    <2>2. CASE f = "git"
      <3>1. Untouched(f, arrived) = SelectedGit(arrived)
            /\ Untouched(f, arrived)' = SelectedGit(arrived')
        BY <1>1, <2>2 DEF Untouched, SelectedGit
      <3>2. CASE list = "git"
        BY <1>4, <2>2, <3>1, <3>2 DEF SettingsInv, SettingsTypes, FormType
      <3>3. CASE list = "source"
        <4>1. form'.git = form.git
          BY <1>4, <3>3 DEF SettingsInv, SettingsTypes, FormType
        <4>2. SelectedGit(arrived') = SelectedGit(arrived)
          BY <1>2, <3>3 DEF SelectedGit
        <4> QED BY <2>1, <2>2, <3>1, <4>1, <4>2
      <3> QED BY <3>2, <3>3
    <2>3. CASE f = "source"
      <3>1. Untouched(f, arrived) = SelectedSource(arrived)
            /\ Untouched(f, arrived)' = SelectedSource(arrived')
        BY <1>1, <2>3 DEF Untouched, SelectedSource
      <3>2. CASE list = "source"
        BY <1>4, <2>3, <3>1, <3>2 DEF SettingsInv, SettingsTypes, FormType
      <3>3. CASE list = "git"
        <4>1. form'.source = form.source
          BY <1>4, <3>3 DEF SettingsInv, SettingsTypes, FormType
        <4>2. SelectedSource(arrived') = SelectedSource(arrived)
          BY <1>2, <3>3 DEF SelectedSource
        <4> QED BY <2>1, <2>3, <3>1, <4>1, <4>2
      <3> QED BY <3>2, <3>3
    <2>4. CASE f \notin {"git", "source"}
      <3>1. form'[f] = form[f]
        BY <1>4, <2>4 DEF SettingsInv, SettingsTypes, FormType, FieldNames
      <3>2. Untouched(f, arrived)' = Untouched(f, arrived)
        BY <1>1, <2>4 DEF Untouched, FieldNames
      <3> QED BY <2>1, <3>1, <3>2
    <2> QED BY <2>2, <2>3, <2>4
  <1> QED BY <1>1, <1>6, <1>7, RestKept DEF SettingsInv

LEMMA EditStep ==
    ASSUME SettingsInv, NEW f \in FieldNames, NEW v \in Options(f), Edit(f, v)
    PROVE  SettingsInv'
  <1>1. UNCHANGED <<custom, saved, details, arrived, requests, message>>
    BY DEF Edit
  <1>2. /\ f = "git" => v \in GitProvider \cup {Null}
        /\ f = "url" => v \in Url \cup {Null}
        /\ f = "tag" => v \in Tags
        /\ f = "path" => v \in GitPath \cup {Null}
        /\ f = "verified" => v \in BOOLEAN
        /\ f = "source" => v \in Source \cup {Null}
    BY DEF Options, Tags
  <1>3. Suggests(f, v) => f = "git" /\ PathOf(v) \in GitPath \cup {Null}
    BY <1>2, SettingsFacts DEF Suggests
  <1>4. form' = [form EXCEPT ![f] = v, !.path = IF f = "path" THEN v
                                                ELSE IF Suggests(f, v) THEN PathOf(v)
                                                ELSE @]
    BY DEF Edit
  <1>5. /\ form' \in FormType
        /\ \A g \in FieldNames \ {f} : g # "path" \/ ~Suggests(f, v) => form'[g] = form[g]
    <2>1. PICK a : a = [form EXCEPT ![f] = v]
      OBVIOUS
    <2>2. form \in FormType
      BY DEF SettingsInv, SettingsTypes
    <2>3. a \in FormType
      BY <1>2, <2>1, <2>2 DEF FormType, FieldNames
    <2>4. \A g \in FieldNames \ {f} : a[g] = form[g]
      BY <2>1, <2>2 DEF FormType, FieldNames
    <2>5. PICK q : q = IF f = "path" THEN v ELSE IF Suggests(f, v) THEN PathOf(v) ELSE a.path
      OBVIOUS
    <2>6. form' = [a EXCEPT !.path = q]
      BY <1>4, <2>1, <2>5
    <2>7. q \in GitPath \cup {Null}
      BY <1>2, <1>3, <2>3, <2>5 DEF FormType
    <2>8. form' \in FormType
      BY <2>3, <2>6, <2>7 DEF FormType
    <2>9. ASSUME NEW g \in FieldNames \ {f}, g # "path" \/ ~Suggests(f, v)
          PROVE  form'[g] = form[g]
      <3>1. form'[g] = IF g = "path" THEN q ELSE a[g]
        BY <2>3, <2>6 DEF FormType, FieldNames
      <3>2. CASE g = "path"
        <4>1. q = a.path
          BY <2>5, <2>9, <3>2
        <4> QED BY <2>4, <3>1, <3>2, <4>1
      <3>3. CASE g # "path"
        BY <2>4, <3>1, <3>3
      <3> QED BY <3>2, <3>3
    <2> QED BY <2>8, <2>9
  <1>6. /\ touched' = touched \cup {f} \cup (IF Suggests(f, v) THEN {"path"} ELSE {})
        /\ edits' = edits + 1 /\ edits < MaxEdits
    BY DEF Edit
  <1>7. SettingsTypes'
    <2>1. edits' \in 0..MaxEdits
      BY <1>6, SettingsFacts DEF SettingsInv, SettingsTypes
    <2>2. touched' \subseteq FieldNames
      BY <1>6 DEF SettingsInv, SettingsTypes, FieldNames
    <2> QED BY <1>1, <1>5, <2>1, <2>2 DEF SettingsInv, SettingsTypes
  <1>8. FormIsFilled'
    <2> SUFFICES ASSUME NEW g \in FieldNames \ touched'
                 PROVE  form'[g] = Untouched(g, arrived)'
      BY DEF FormIsFilled
    <2>1. form[g] = Untouched(g, arrived) /\ g # f /\ (g = "path" => ~Suggests(f, v))
      BY <1>6 DEF SettingsInv, FormIsFilled
    <2>2. form'[g] = form[g]
      BY <1>5, <2>1
    <2>3. Untouched(g, arrived)' = Untouched(g, arrived)
      BY <1>1 DEF Untouched, SelectedGit, SelectedSource
    <2> QED BY <2>1, <2>2, <2>3
  <1> QED BY <1>1, <1>7, <1>8, RestKept DEF SettingsInv


LEMMA SubmitStep ==
    ASSUME SettingsInv, Submit
    PROVE  SettingsInv'
  <1>1. UNCHANGED <<custom, saved, details, form, arrived, touched, edits>> /\ message' = "none"
    BY DEF Submit
  <1>2. PICK r : r = [body |-> Body, next |-> 1, refused |-> FALSE,
                      loaded |-> arrived, edited |-> touched, before |-> saved]
    OBVIOUS
  <1>3. requests' = Append(requests, r) /\ Len(requests) < MaxSubmissions
    BY <1>2 DEF Submit
  <1>4. Body \in FormType /\ Body.git = form.git
    BY DEF Body, SettingsInv, SettingsTypes, FormType
  <1>5. r \in RequestType
    BY <1>2, <1>4 DEF SettingsInv, SettingsTypes, RequestType
  <1>6. /\ requests \in Seq(RequestType) /\ Len(requests) \in Nat
        /\ requests' \in Seq(RequestType) /\ Len(requests') = Len(requests) + 1
        /\ DOMAIN requests = 1..Len(requests) /\ DOMAIN requests' = 1..(Len(requests) + 1)
        /\ \A n \in DOMAIN requests : requests'[n] = requests[n]
        /\ requests'[Len(requests) + 1] = r
    BY <1>3, <1>5 DEF SettingsInv, SettingsTypes
  <1>7. SettingsTypes'
    BY <1>1, <1>3, <1>6, SettingsFacts DEF SettingsInv, SettingsTypes
  <1>8. FormIsFilled'
    BY <1>1 DEF SettingsInv, FormIsFilled, Untouched, SelectedGit, SelectedSource
  <1>9. BodyIsFilled(r)
    <2> SUFFICES ASSUME NEW f \in FieldNames \ touched
                 PROVE  Body[f] = IF f = "url" /\ Body.git # Null THEN Null
                                  ELSE Untouched(f, arrived)
      BY <1>2 DEF BodyIsFilled
    <2>1. form[f] = Untouched(f, arrived)
      BY DEF SettingsInv, FormIsFilled
    <2>2. CASE f = "url"
      BY <2>1, <2>2, <1>4 DEF Body, SettingsInv, SettingsTypes, FormType
    <2>3. CASE f # "url"
      <3>1. Body[f] = form[f]
        BY <2>3 DEF Body, SettingsInv, SettingsTypes, FormType, FieldNames
      <3> QED BY <2>1, <2>3, <3>1
    <2> QED BY <2>2, <2>3
  <1>10. \A n \in DOMAIN requests' : BodyIsFilled(requests[n])'
    <2> SUFFICES ASSUME NEW n \in DOMAIN requests' PROVE BodyIsFilled(requests[n])'
      OBVIOUS
    <2>1. requests'[n] = r \/ (n \in DOMAIN requests /\ requests'[n] = requests[n])
      BY <1>6
    <2>2. PICK q : q = requests'[n] /\ BodyIsFilled(q)
      BY <1>9, <2>1 DEF SettingsInv
    <2> QED BY <1>1, <2>2 DEF BodyIsFilled, Untouched, SelectedGit, SelectedSource
  <1>11. Surviving'
    <2> SUFFICES ASSUME AllLoaded', NEW f \in FieldNames
                 PROVE  saved[f] = details[f] \/ Excused(f)'
      BY <1>1 DEF Surviving
    <2>1. AllLoaded
      BY <1>6 DEF AllLoaded
    <2>2. saved[f] = details[f] \/ Excused(f)
      BY <2>1 DEF SettingsInv, Surviving
    <2>3. Excused(f) => Excused(f)'
      BY <1>1, <1>6 DEF Excused
    <2> QED BY <2>2, <2>3
  <1>12. Len(requests') = 1 => Progress(requests[1])'
    <2> SUFFICES ASSUME Len(requests') = 1 PROVE Progress(requests[1])'
      OBVIOUS
    <2>1. requests'[1] = r
      BY <1>6
    <2> QED BY <1>1, <1>2, <2>1 DEF Progress
  <1>13. requests' # <<>>
    BY <1>6
  <1> QED BY <1>7, <1>8, <1>10, <1>11, <1>12, <1>13 DEF SettingsInv

\* What the server does with the next attribute of the n-th request.
LEMMA UpdateDoes ==
    ASSUME SettingsInv, NEW n \in DOMAIN requests, Update(n),
           NEW k, k = requests[n].next, NEW f, f = Fields[k], NEW v, v = requests[n].body[f]
    PROVE  /\ UNCHANGED <<custom, details, form, arrived, touched, edits>>
           /\ k \in 1..6 /\ f \in FieldNames /\ ~requests[n].refused
           /\ saved' = IF v = NoOption \/ Refuses(f, v) THEN saved
                       ELSE [saved EXCEPT ![f] = Quoted(f, v)]
           /\ message' = IF Refuses(f, v) THEN "error" ELSE IF k = 6 THEN "success" ELSE message
           /\ requests' \in Seq(RequestType) /\ Len(requests') = Len(requests)
           /\ DOMAIN requests' = DOMAIN requests
           /\ \A m \in DOMAIN requests :
                 /\ requests'[m].body = requests[m].body
                 /\ requests'[m].loaded = requests[m].loaded
                 /\ requests'[m].edited = requests[m].edited
                 /\ requests'[m].before = requests[m].before
           /\ requests'[n].refused <=> Refuses(f, v)
           /\ requests'[n].next = IF Refuses(f, v) THEN k ELSE k + 1
  <1>1. requests \in Seq(RequestType) /\ DOMAIN requests = 1..Len(requests)
        /\ Len(requests) \in Nat /\ requests[n] \in RequestType
    BY DEF SettingsInv, SettingsTypes
  <1>2. k \in 1..6 /\ ~requests[n].refused
    BY FieldsAre DEF Update, Running
  <1>3. f \in FieldNames /\ (f = Last(Fields) <=> k = 6)
    BY <1>2, FieldsAre
  <1>4. PICK r : r = IF Refuses(f, v) THEN [requests[n] EXCEPT !.refused = TRUE]
                     ELSE [requests[n] EXCEPT !.next = k + 1]
    OBVIOUS
  <1>5. requests' = [requests EXCEPT ![n] = r]
    BY <1>4 DEF Update
  <1>6. /\ r \in RequestType
        /\ r.body = requests[n].body /\ r.loaded = requests[n].loaded
        /\ r.edited = requests[n].edited /\ r.before = requests[n].before
        /\ r.refused <=> Refuses(f, v)
        /\ r.next = IF Refuses(f, v) THEN k ELSE k + 1
    <2>1. CASE Refuses(f, v)
      <3>1. r = [requests[n] EXCEPT !.refused = TRUE]
        BY <1>4, <2>1
      <3> QED BY <1>1, <2>1, <3>1 DEF RequestType
    <2>2. CASE ~Refuses(f, v)
      <3>1. r = [requests[n] EXCEPT !.next = k + 1]
        BY <1>4, <2>2
      <3> QED BY <1>1, <1>2, <2>2, <3>1 DEF RequestType
    <2> QED BY <2>1, <2>2
  <1>7. /\ requests' \in Seq(RequestType) /\ Len(requests') = Len(requests)
        /\ DOMAIN requests' = DOMAIN requests
        /\ requests'[n] = r /\ \A m \in DOMAIN requests \ {n} : requests'[m] = requests[m]
    BY <1>1, <1>5, <1>6
  <1>8. UNCHANGED <<custom, details, form, arrived, touched, edits>>
    BY DEF Update
  <1>9. saved' = IF v = NoOption \/ Refuses(f, v) THEN saved ELSE [saved EXCEPT ![f] = Quoted(f, v)]
    BY DEF Update
  <1>10. message' = IF Refuses(f, v) THEN "error" ELSE IF k = 6 THEN "success" ELSE message
    BY <1>3 DEF Update
  <1> QED BY <1>2, <1>3, <1>6, <1>7, <1>8, <1>9, <1>10


\* What the server stores for a value that it does not refuse is of the type
\* of the field, and would not be refused.
LEMMA StoredIsFine ==
    ASSUME SettingsInv, NEW b \in FormType, NEW f \in FieldNames,
           b[f] # NoOption, ~Refuses(f, b[f])
    PROVE  /\ Quoted(f, b[f]) \notin Wrong
           /\ [saved EXCEPT ![f] = Quoted(f, b[f])] \in SavedType
  <1>1. saved \in SavedType
    BY DEF SettingsInv, SettingsTypes
  <1>2. CASE f = "git"
    <2>1. b.git \in GitProvider \cup {Null} /\ b.git \notin Wrong /\ Quoted("git", b.git) = b.git
      BY <1>2, SettingsFacts DEF FormType, Refuses
    <2> QED BY <1>1, <1>2, <2>1 DEF SavedType
  <1>3. CASE f = "url"
    <2>1. b.url \in (Url \cup {Null}) \ Wrong
      BY <1>3 DEF FormType, Refuses
    <2>2. Quoted("url", b.url) \notin Wrong /\ Quoted("url", b.url) \in Url \cup {Null}
      BY <2>1, SettingsFacts
    <2> QED BY <1>1, <1>3, <2>2 DEF SavedType
  <1>4. CASE f = "tag"
    <2>1. b.tag \in Tags \ Wrong
      BY <1>4 DEF FormType, Refuses
    <2>2. Quoted("tag", b.tag) \notin Wrong
      BY <2>1, SettingsFacts
    <2> QED BY <1>1, <1>4, <2>1, <2>2 DEF SavedType
  <1>5. CASE f = "path"
    <2>1. b.path \in GitPath \cup {Null} /\ b.path \notin Wrong /\ Quoted("path", b.path) = b.path
      BY <1>5, SettingsFacts DEF FormType, Refuses
    <2> QED BY <1>1, <1>5, <2>1 DEF SavedType
  <1>6. CASE f = "verified"
    <2>1. b.verified \in BOOLEAN /\ b.verified \notin Wrong
      BY SettingsFacts DEF FormType
    <2>2. Quoted("verified", b.verified) = b.verified
      BY <2>1, SettingsFacts
    <2> QED BY <1>1, <1>6, <2>1, <2>2 DEF SavedType
  <1>7. CASE f = "source"
    <2>1. b.source \in Source \cup {Null} /\ b.source \notin Wrong
          /\ Quoted("source", b.source) = b.source
      BY <1>7, SettingsFacts DEF FormType, Refuses
    <2> QED BY <1>1, <1>7, <2>1 DEF SavedType
  <1> QED BY <1>2, <1>3, <1>4, <1>5, <1>6, <1>7 DEF FieldNames

\* Of a field that nobody touched the server stores what was there, but for
\* the exceptions.
LEMMA StoredIsOld ==
    ASSUME SettingsInv, AllLoaded, NEW n \in DOMAIN requests, NEW f \in FieldNames, ~Excused(f)
    PROVE  Quoted(f, requests[n].body[f]) = details[f]
  <1>1. f \notin requests[n].edited /\ requests[n].loaded = {"git", "source"}
    BY DEF Excused, AllLoaded
  <1>2. requests[n].body[f] = IF f = "url" /\ requests[n].body.git # Null THEN Null
                              ELSE Untouched(f, {"git", "source"})
    BY <1>1 DEF SettingsInv, BodyIsFilled
  <1>3. /\ details.git \in GitProvider \cup {Null} /\ details.url \in Url \cup {Null}
        /\ details.path \in GitPath \cup {Null} /\ details.verified \in BOOLEAN
        /\ details.source \in Source \cup {Null} /\ Quoted("url", details.url) = details.url
    BY SettingsFacts DEF SettingsInv, SettingsTypes
  <1>4. CASE f = "git"
    <2>1. requests[n].body[f] = details.git
      BY <1>2, <1>4 DEF Excused, Untouched, SelectedGit
    <2> QED BY <1>3, <1>4, <2>1, SettingsFacts
  <1>5. CASE f = "url"
    <2>1. requests[n].body[f] = details.url
      BY <1>2, <1>5 DEF Excused, Untouched
    <2> QED BY <1>3, <1>5, <2>1
  <1>6. CASE f = "tag"
    <2>1. requests[n].body[f] = details.tag
      BY <1>2, <1>6 DEF Untouched
    <2> QED BY <1>6, <2>1 DEF Excused
  <1>7. CASE f = "path"
    <2>1. requests[n].body[f] = Resolved(details.path) /\ Resolved(details.path) = details.path
      BY <1>2, <1>3, <1>7, SettingsFacts DEF Excused, Untouched
    <2> QED BY <1>3, <1>7, <2>1, SettingsFacts
  <1>8. CASE f = "verified"
    <2>1. requests[n].body[f] = details.verified
      BY <1>2, <1>8 DEF Untouched
    <2> QED BY <1>3, <1>8, <2>1, SettingsFacts
  <1>9. CASE f = "source"
    <2>1. requests[n].body[f] = details.source
      BY <1>2, <1>9 DEF Untouched, SelectedSource
    <2> QED BY <1>3, <1>9, <2>1, SettingsFacts
  <1> QED BY <1>4, <1>5, <1>6, <1>7, <1>8, <1>9 DEF FieldNames

\* What may change in the row of the module provider at a step.
Survives == AllLoaded => \A f \in FieldNames : saved'[f] # saved[f] => Excused(f)

LEMMA UpdateStep ==
    ASSUME SettingsInv, NEW n \in DOMAIN requests, Update(n)
    PROVE  SettingsInv' /\ Survives
  <1>1. PICK k, f, v : k = requests[n].next /\ f = Fields[k] /\ v = requests[n].body[f]
    OBVIOUS
  <1>2. /\ UNCHANGED <<custom, details, form, arrived, touched, edits>>
        /\ k \in 1..6 /\ f \in FieldNames /\ ~requests[n].refused
        /\ saved' = IF v = NoOption \/ Refuses(f, v) THEN saved
                    ELSE [saved EXCEPT ![f] = Quoted(f, v)]
        /\ message' = IF Refuses(f, v) THEN "error" ELSE IF k = 6 THEN "success" ELSE message
        /\ requests' \in Seq(RequestType) /\ Len(requests') = Len(requests)
        /\ DOMAIN requests' = DOMAIN requests
        /\ \A m \in DOMAIN requests :
              /\ requests'[m].body = requests[m].body
              /\ requests'[m].loaded = requests[m].loaded
              /\ requests'[m].edited = requests[m].edited
              /\ requests'[m].before = requests[m].before
        /\ requests'[n].refused <=> Refuses(f, v)
        /\ requests'[n].next = IF Refuses(f, v) THEN k ELSE k + 1
    BY <1>1, UpdateDoes
  <1>3. /\ saved \in SavedType /\ requests \in Seq(RequestType)
        /\ \A g \in FieldNames : saved[g] \notin Wrong
    BY DEF SettingsInv, SettingsTypes
  <1>4. saved' \in SavedType /\ \A g \in FieldNames \ {f} : saved'[g] = saved[g]
    <2>1. requests[n] \in RequestType
      BY <1>3
    <2>2. requests[n].body \in FormType
      BY <2>1 DEF RequestType
    <2>3. CASE v = NoOption \/ Refuses(f, v)
      BY <1>2, <1>3, <2>3
    <2>4. CASE ~(v = NoOption \/ Refuses(f, v))
      <3>1. saved' = [saved EXCEPT ![f] = Quoted(f, v)]
        BY <1>2, <2>4
      <3>2. saved' \in SavedType
        <4>1. PICK b \in FormType : b = requests[n].body
          BY <2>2
        <4>2. b[f] = v
          BY <1>1, <4>1
        <4>3. [saved EXCEPT ![f] = Quoted(f, b[f])] \in SavedType
          BY <1>2, <2>4, <4>2, StoredIsFine
        <4> QED BY <3>1, <4>2, <4>3
      <3> QED BY <1>2, <1>3, <3>1, <3>2 DEF SavedType, FieldNames
    <2> QED BY <2>3, <2>4
  <1>5. saved'[f] = IF v = NoOption \/ Refuses(f, v) THEN saved[f] ELSE Quoted(f, v)
    BY <1>2, <1>3 DEF SavedType, FieldNames
  <1>6. \A g \in FieldNames : saved'[g] \notin Wrong
    <2>1. requests[n] \in RequestType
      BY <1>3
    <2>2. requests[n].body \in FormType
      BY <2>1 DEF RequestType
    <2>3. saved'[f] \notin Wrong
      BY <1>1, <1>2, <1>3, <1>5, <2>2, StoredIsFine
    <2> QED BY <1>3, <1>4, <2>3
  <1>7. SettingsTypes'
    BY <1>2, <1>4, <1>6 DEF SettingsInv, SettingsTypes
  <1>8. FormIsFilled'
    BY <1>2 DEF SettingsInv, FormIsFilled, Untouched, SelectedGit, SelectedSource
  <1>9. ASSUME NEW m \in DOMAIN requests' PROVE BodyIsFilled(requests[m])'
    <2>1. BodyIsFilled(requests[m])
      BY <1>2 DEF SettingsInv
    <2> QED BY <1>2, <2>1 DEF BodyIsFilled, Untouched, SelectedGit, SelectedSource
  <1>10. \A g \in FieldNames : Excused(g)' <=> Excused(g)
    BY <1>2 DEF Excused
  <1>11. AllLoaded' <=> AllLoaded
    BY <1>2 DEF AllLoaded
  <1>12. ASSUME AllLoaded, NEW g \in FieldNames, ~Excused(g)
         PROVE  saved'[g] = details[g] /\ saved[g] = details[g]
    <2>1. saved[g] = details[g]
      BY <1>12 DEF SettingsInv, Surviving
    <2>2. g = f => Quoted(f, v) = details[g]
      BY <1>1, <1>12, StoredIsOld
    <2> QED BY <1>4, <1>5, <2>1, <2>2
  <1>13. Surviving' /\ Survives
    BY <1>2, <1>10, <1>11, <1>12 DEF Surviving, Survives
  <1>14. Len(requests') = 1 => Progress(requests[1])'
    <2> SUFFICES ASSUME Len(requests') = 1 PROVE Progress(requests[1])'
      OBVIOUS
    <2>1. n = 1 /\ Progress(requests[1])
      BY <1>2, <1>3 DEF SettingsInv
    <2>2. requests[1].next = k /\ message = "none"
      BY <1>1, <1>2, <2>1 DEF Progress
    <2>3. message' = IF requests'[1].refused THEN "error"
                     ELSE IF requests'[1].next = 7 THEN "success" ELSE "none"
      BY <1>2, <2>1, <2>2
    <2>4. ASSUME NEW l \in 1..6
          PROVE  saved'[Fields[l]] =
                     IF l < requests'[1].next /\ requests'[1].body[Fields[l]] # NoOption
                     THEN Quoted(Fields[l], requests'[1].body[Fields[l]])
                     ELSE requests'[1].before[Fields[l]]
      <3>1. saved[Fields[l]] = IF l < k /\ requests[1].body[Fields[l]] # NoOption
                               THEN Quoted(Fields[l], requests[1].body[Fields[l]])
                               ELSE requests[1].before[Fields[l]]
        BY <2>1, <2>2 DEF Progress
      <3>2. requests'[1].body = requests[1].body /\ requests'[1].before = requests[1].before
        BY <1>2, <2>1
      <3>3. CASE l # k
        <4>1. Fields[l] \in FieldNames \ {f}
          BY <1>1, <1>2, <3>3, FieldsAre
        <4>2. saved'[Fields[l]] = saved[Fields[l]]
          BY <1>4, <4>1
        <4>3. l < requests'[1].next <=> l < k
          BY <1>2, <2>1, <3>3
        <4> QED BY <3>1, <3>2, <4>2, <4>3
      <3>4. CASE l = k
        <4>1. Fields[l] = f /\ v = requests[1].body[f]
          BY <1>1, <2>1, <3>4
        <4>2. l < requests'[1].next <=> ~Refuses(f, v)
          BY <1>2, <2>1, <3>4
        <4>3. saved[f] = requests[1].before[f]
          BY <1>2, <3>1, <3>4, <4>1
        <4> QED BY <1>5, <3>2, <4>1, <4>2, <4>3
      <3> QED BY <3>3, <3>4
    <2> QED BY <2>3, <2>4 DEF Progress
  <1>15. requests' # <<>>
    BY <1>2, <1>3
  <1> QED BY <1>7, <1>8, <1>9, <1>13, <1>14, <1>15 DEF SettingsInv

LEMMA SettingsStep ==
    ASSUME SettingsInv, [SettingsNext]_settingsVars
    PROVE  SettingsInv' /\ Survives
  <1>1. UNCHANGED saved => Survives
    BY DEF Survives
  <1>2. CASE \E list \in {"git", "source"} : OptionsArrive(list)
    BY <1>1, <1>2, OptionsArriveStep DEF OptionsArrive
  <1>3. CASE \E f \in ToSet(Fields) : \E v \in Options(f) : Edit(f, v)
    BY <1>1, <1>3, EditStep, FieldsAre DEF Edit
  <1>4. CASE Submit
    BY <1>1, <1>4, SubmitStep DEF Submit
  <1>5. CASE \E n \in DOMAIN requests : Update(n)
    BY <1>5, UpdateStep
  <1>6. CASE UNCHANGED settingsVars
    <2>1. SettingsTypes' /\ FormIsFilled'
      BY <1>6 DEF settingsVars, SettingsInv, SettingsTypes, FormIsFilled, Untouched, SelectedGit,
                  SelectedSource
    <2> QED BY <1>1, <1>6, <2>1, RestKept DEF settingsVars, SettingsInv
  <1> QED BY <1>2, <1>3, <1>4, <1>5, <1>6 DEF SettingsNext

LEMMA SettingsAlways == SettingsSpec => []SettingsInv
  <1>1. SettingsInv /\ [SettingsNext]_settingsVars => SettingsInv'
    BY SettingsStep
  <1> QED BY <1>1, SettingsStart, PTL DEF SettingsSpec

LEMMA SettingsShow == SettingsInv => SettingsTypeOK /\ OutcomeIsHonest
  <1> SUFFICES ASSUME SettingsInv PROVE SettingsTypeOK /\ OutcomeIsHonest
    OBVIOUS
  <1>1. saved.tag # Null
    BY SettingsFacts DEF SettingsInv, SettingsTypes, SavedType
  <1>2. SettingsTypeOK
    BY <1>1, FieldsAre
    DEF SettingsInv, SettingsTypes, SavedType, FormType, DropDowns, SettingsTypeOK
  <1>3. OutcomeIsHonest
    <2> SUFFICES ASSUME Len(requests) = 1, ~Running(1)
                 PROVE  /\ message = IF requests[1].refused THEN "error" ELSE "success"
                        /\ \A k \in 1..6 :
                             saved[Fields[k]] =
                                 IF k < requests[1].next /\ requests[1].body[Fields[k]] # NoOption
                                 THEN Quoted(Fields[k], requests[1].body[Fields[k]])
                                 ELSE requests[1].before[Fields[k]]
      BY FieldsAre DEF OutcomeIsHonest
    <2>1. Progress(requests[1]) /\ requests[1] \in RequestType
      BY SMTT(30) DEF SettingsInv, SettingsTypes
    <2>2. requests[1].refused \/ requests[1].next = 7
      BY <2>1, FieldsAre DEF Running, RequestType
    <2> QED BY <2>1, <2>2 DEF Progress
  <1> QED BY <1>2, <1>3

\* Whatever the user edits and however often and soon the form is submitted,
\* fields that nobody touched keep what they had when the page was loaded,
\* but for the exceptions of the code (updateModuleProviderSettings).
THEOREM UntouchedSettingsStay == SettingsSpec => UntouchedSettingsSurvive
  <1> DEFINE A == (\A n \in DOMAIN requests : requests[n].loaded = {"git", "source"}) =>
                     \A f \in ToSet(Fields) :
                        saved'[f] # saved[f] =>
                          \/ \E n \in DOMAIN requests : f \in requests[n].edited
                          \/ f = "git" /\ ~custom /\ details.git = Null
                          \/ f = "url" /\ \E n \in DOMAIN requests : requests[n].body.git # Null
                          \/ f = "path" /\ details.path \in Template
                          \/ f = "tag" /\ Quoted("tag", details.tag) # details.tag
  <1>1. SettingsInv /\ [SettingsNext]_settingsVars => [A]_settingsVars
    BY SettingsStep, FieldsAre DEF Survives, AllLoaded, Excused
  <1> QED BY <1>1, SettingsAlways, PTL DEF SettingsSpec, UntouchedSettingsSurvive

\* A submission that runs alone does what its message says, for every body and
\* whichever attribute the server refuses.
THEOREM MessagesAreHonest == SettingsSpec => []OutcomeIsHonest
  BY SettingsAlways, SettingsShow, PTL


-----------------------------------------------------------------------------
(* UsageBuilder: the elements of a list at some of its positions. *)

\* What Sublist has gathered from the first elements of a list, up to the m-th.
IsUpTo(u, list, positions, m) ==
    u = [n \in 0..m |-> IF n = 0 THEN <<>>
                        ELSE IF n \in positions THEN Append(u[n - 1], list[n])
                        ELSE u[n - 1]]

LEMMA UpToExists ==
    ASSUME NEW list, NEW positions, NEW L \in Nat
    PROVE  \E u : IsUpTo(u, list, positions, L)
  <1> DEFINE I == {m \in 0..L : ~\E u : IsUpTo(u, list, positions, m)}
  <1> SUFFICES ASSUME I # {} PROVE FALSE
    OBVIOUS
  <1>1. PICK m \in I : \A j \in I : m <= j
    <2> HIDE DEF I
    <2>1. I \subseteq Nat
      BY DEF I
    <2> QED BY <2>1, LowestExists
  <1>2. m \in 0..L /\ ~\E u : IsUpTo(u, list, positions, m)
    OBVIOUS
  <1>3. CASE m = 0
    <2>1. IsUpTo([n \in 0..0 |-> <<>>], list, positions, 0)
      BY DEF IsUpTo
    <2> QED BY <1>2, <1>3, <2>1
  <1>4. CASE m # 0
    <2>1. m - 1 \in 0..L /\ ~(m <= m - 1)
      BY <1>2, <1>4
    <2>2. PICK v : IsUpTo(v, list, positions, m - 1)
      BY <1>1, <2>1
    <2>3. PICK w : w = IF m \in positions THEN Append(v[m - 1], list[m]) ELSE v[m - 1]
      OBVIOUS
    <2>4. PICK u : u = [n \in 0..m |-> IF n = m THEN w ELSE v[n]]
      OBVIOUS
    <2>5. IsUpTo(u, list, positions, m)
      <3> SUFFICES ASSUME NEW n \in 0..m
                   PROVE  u[n] = IF n = 0 THEN <<>>
                                 ELSE IF n \in positions THEN Append(u[n - 1], list[n])
                                 ELSE u[n - 1]
        BY <2>4 DEF IsUpTo
      <3>1. CASE n = m
        <4>1. u[n] = w /\ u[n - 1] = v[n - 1]
          BY <1>2, <1>4, <2>4, <3>1
        <4> QED BY <1>4, <2>3, <3>1, <4>1
      <3>2. CASE n # m
        <4>1. n \in 0..(m - 1) /\ u[n] = v[n] /\ (n # 0 => u[n - 1] = v[n - 1])
          BY <1>2, <2>4, <3>2
        <4>2. v[n] = IF n = 0 THEN <<>>
                     ELSE IF n \in positions THEN Append(v[n - 1], list[n])
                     ELSE v[n - 1]
          BY <2>2, <4>1 DEF IsUpTo
        <4> QED BY <4>1, <4>2
      <3> QED BY <3>1, <3>2
    <2> QED BY <1>2, <2>5
  <1> QED BY <1>3, <1>4

LEMMA SublistIs ==
    ASSUME NEW list, Len(list) \in Nat, NEW positions
    PROVE  \E u : IsUpTo(u, list, positions, Len(list)) /\ Sublist(list, positions) = u[Len(list)]
  <1>1. \E u : IsUpTo(u, list, positions, Len(list))
    BY UpToExists
  <1> QED BY <1>1 DEF IsUpTo, Sublist

LEMMA UpToStep ==
    ASSUME NEW u, NEW list, NEW positions, NEW m \in Nat, IsUpTo(u, list, positions, m)
    PROVE  /\ u[0] = <<>>
           /\ \A n \in 1..m : u[n] = IF n \in positions THEN Append(u[n - 1], list[n]) ELSE u[n - 1]
  <1>1. \A n \in 0..m : u[n] = IF n = 0 THEN <<>>
                               ELSE IF n \in positions THEN Append(u[n - 1], list[n])
                               ELSE u[n - 1]
    BY DEF IsUpTo
  <1>2. u[0] = <<>>
    <2>1. 0 \in 0..m
      OBVIOUS
    <2>2. u[0] = IF 0 = 0 THEN <<>> ELSE IF 0 \in positions THEN Append(u[0 - 1], list[0])
                                         ELSE u[0 - 1]
      BY <1>1, <2>1, Zenon
    <2> QED BY <2>2
  <1>3. ASSUME NEW n \in 1..m
        PROVE  u[n] = IF n \in positions THEN Append(u[n - 1], list[n]) ELSE u[n - 1]
    <2>1. n \in 0..m /\ n # 0
      OBVIOUS
    <2> QED BY <1>1, <2>1
  <1> QED BY <1>2, <1>3

\* What is gathered up to an element does not depend on those behind it.
LEMMA UpToSame ==
    ASSUME NEW u, NEW list, NEW positions, NEW m \in Nat, IsUpTo(u, list, positions, m),
           NEW v, NEW front, NEW places, NEW k \in 0..m, IsUpTo(v, front, places, k),
           \A n \in 1..k : front[n] = list[n] /\ (n \in places <=> n \in positions)
    PROVE  v[k] = u[k]
  <1> DEFINE I == {n \in 0..k : v[n] # u[n]}
  <1> SUFFICES I = {}
    OBVIOUS
  <1> SUFFICES ASSUME I # {} PROVE FALSE
    OBVIOUS
  <1>1. PICK n \in I : \A j \in I : n <= j
    <2> HIDE DEF I
    <2>1. I \subseteq Nat
      BY DEF I
    <2> QED BY <2>1, LowestExists
  <1>2. v[0] = <<>> /\ u[0] = <<>>
    BY UpToStep
  <1>3. n \in 1..k /\ n \in 1..m /\ n - 1 \in 0..k /\ ~(n <= n - 1)
    BY <1>2
  <1>4. v[n - 1] = u[n - 1]
    BY <1>1, <1>3
  <1>5. u[n] = IF n \in positions THEN Append(u[n - 1], list[n]) ELSE u[n - 1]
    BY <1>3, UpToStep
  <1>6. v[n] = IF n \in places THEN Append(v[n - 1], front[n]) ELSE v[n - 1]
    BY <1>3, UpToStep
  <1> QED BY <1>3, <1>4, <1>5, <1>6

\* What is gathered are the elements at the positions, and nothing else.
Gathered(s, list, positions, n) ==
    \A e : (\E k \in DOMAIN s : s[k] = e) <=> \E p \in 1..n : p \in positions /\ list[p] = e

LEMMA GatheredStep ==
    ASSUME NEW S, NEW list, NEW positions, NEW n \in Nat, NEW s \in Seq(S), NEW x \in S,
           Gathered(s, list, positions, n), x = list[n + 1]
    PROVE  /\ n + 1 \in positions => Gathered(Append(s, x), list, positions, n + 1)
           /\ n + 1 \notin positions => Gathered(s, list, positions, n + 1)
  <1>1. ASSUME n + 1 \in positions, NEW e
        PROVE  (\E k \in DOMAIN Append(s, x) : Append(s, x)[k] = e)
                   <=> \E p \in 1..(n + 1) : p \in positions /\ list[p] = e
    <2>1. (\E k \in DOMAIN Append(s, x) : Append(s, x)[k] = e)
              <=> (\E k \in DOMAIN s : s[k] = e) \/ x = e
      <3>1. /\ DOMAIN s = 1..Len(s) /\ Len(s) \in Nat /\ DOMAIN Append(s, x) = 1..(Len(s) + 1)
            /\ Append(s, x)[Len(s) + 1] = x /\ \A k \in 1..Len(s) : Append(s, x)[k] = s[k]
        OBVIOUS
      <3>2. \A k \in 1..(Len(s) + 1) : k = Len(s) + 1 \/ k \in 1..Len(s)
        BY <3>1
      <3> QED BY <3>1, <3>2
    <2>2. (\E k \in DOMAIN s : s[k] = e) <=> \E p \in 1..n : p \in positions /\ list[p] = e
      BY DEF Gathered
    <2>3. \A p : p \in 1..(n + 1) <=> p \in 1..n \/ p = n + 1
      OBVIOUS
    <2> QED BY <1>1, <2>1, <2>2, <2>3
  <1>2. ASSUME n + 1 \notin positions, NEW e
        PROVE  (\E k \in DOMAIN s : s[k] = e)
                   <=> \E p \in 1..(n + 1) : p \in positions /\ list[p] = e
    <2>1. (\E k \in DOMAIN s : s[k] = e) <=> \E p \in 1..n : p \in positions /\ list[p] = e
      BY DEF Gathered
    <2>2. \A p : p \in 1..(n + 1) <=> p \in 1..n \/ p = n + 1
      OBVIOUS
    <2> QED BY <1>2, <2>1, <2>2
  <1> QED BY <1>1, <1>2 DEF Gathered

LEMMA UpToGathers ==
    ASSUME NEW S, NEW list \in Seq(S), NEW positions, NEW u, IsUpTo(u, list, positions, Len(list))
    PROVE  \A n \in 0..Len(list) : u[n] \in Seq(S) /\ Gathered(u[n], list, positions, n)
  <1> DEFINE I == {n \in 0..Len(list) : ~(u[n] \in Seq(S) /\ Gathered(u[n], list, positions, n))}
  <1> SUFFICES ASSUME I # {} PROVE FALSE
    OBVIOUS
  <1>1. PICK n \in I : \A j \in I : n <= j
    <2> HIDE DEF I
    <2>1. I \subseteq Nat
      BY DEF I
    <2> QED BY <2>1, LowestExists
  <1>2. u[0] \in Seq(S) /\ Gathered(u[0], list, positions, 0)
    <2>1. u[0] = <<>>
      BY UpToStep
    <2> QED BY <2>1 DEF Gathered
  <1>3. n \in 1..Len(list) /\ n - 1 \in 0..Len(list) /\ ~(n <= n - 1) /\ n - 1 \in Nat
    BY <1>2
  <1>4. PICK m \in Nat, s \in Seq(S) : /\ m = n - 1 /\ s = u[n - 1]
                                       /\ Gathered(s, list, positions, m)
    BY <1>1, <1>3
  <1>5. n = m + 1 /\ list[m + 1] \in S
    BY <1>3, <1>4
  <1>6. u[n] = IF n \in positions THEN Append(s, list[n]) ELSE s
    BY <1>3, <1>4, UpToStep
  <1>7. u[n] \in Seq(S)
    BY <1>5, <1>6
  <1>8. Gathered(u[n], list, positions, n)
    <2>1. /\ m + 1 \in positions => Gathered(Append(s, list[m + 1]), list, positions, m + 1)
          /\ m + 1 \notin positions => Gathered(s, list, positions, m + 1)
      BY <1>4, <1>5, GatheredStep
    <2> QED BY <1>5, <1>6, <2>1
  <1> QED BY <1>7, <1>8

LEMMA SublistGathers ==
    ASSUME NEW S, NEW list \in Seq(S), NEW positions
    PROVE  /\ Sublist(list, positions) \in Seq(S)
           /\ Gathered(Sublist(list, positions), list, positions, Len(list))
  <1>1. PICK u : IsUpTo(u, list, positions, Len(list)) /\ Sublist(list, positions) = u[Len(list)]
    BY SublistIs
  <1> QED BY <1>1, UpToGathers

LEMMA SublistStep ==
    ASSUME NEW S, NEW list \in Seq(S), NEW front \in Seq(S), Len(list) = Len(front) + 1,
           NEW positions, NEW places,
           \A n \in 1..Len(front) : front[n] = list[n] /\ (n \in places <=> n \in positions)
    PROVE  Sublist(list, positions) =
               IF Len(list) \in positions THEN Append(Sublist(front, places), list[Len(list)])
               ELSE Sublist(front, places)
  <1>1. PICK u : IsUpTo(u, list, positions, Len(list)) /\ Sublist(list, positions) = u[Len(list)]
    BY SublistIs
  <1>2. PICK v : IsUpTo(v, front, places, Len(front)) /\ Sublist(front, places) = v[Len(front)]
    BY SublistIs
  <1>3. v[Len(front)] = u[Len(front)]
    BY <1>1, <1>2, UpToSame
  <1>4. u[Len(list)] = IF Len(list) \in positions THEN Append(u[Len(list) - 1], list[Len(list)])
                       ELSE u[Len(list) - 1]
    BY <1>1, UpToStep
  <1>5. Len(list) - 1 = Len(front)
    OBVIOUS
  <1> QED BY <1>1, <1>2, <1>3, <1>4, <1>5

\* The last value of a list, if it is not empty, is the last of those that are
\* not empty.
LEMMA NonEmptyStep ==
    ASSUME NEW S, NEW list \in Seq(S), list # <<>>
    PROVE  /\ Front(list) \in Seq(S) /\ Last(list) \in S
           /\ NonEmpty(list) \in Seq(S) /\ NonEmpty(Front(list)) \in Seq(S)
           /\ NonEmpty(list) = IF NotEmpty(Last(list))
                               THEN Append(NonEmpty(Front(list)), Last(list))
                               ELSE NonEmpty(Front(list))
  <1>1. /\ Front(list) \in Seq(S) /\ Len(list) = Len(Front(list)) + 1
        /\ \A n \in 1..Len(Front(list)) : Front(list)[n] = list[n]
        /\ Last(list) = list[Len(list)] /\ Last(list) \in S
    <2>1. Len(list) \in Nat \ {0} /\ DOMAIN list = 1..Len(list)
      OBVIOUS
    <2>2. Front(list) = SubSeq(list, 1, Len(list) - 1)
      BY DEF Front
    <2>3. /\ SubSeq(list, 1, Len(list) - 1) \in Seq(S)
          /\ Len(SubSeq(list, 1, Len(list) - 1)) = Len(list) - 1
          /\ \A n \in 1..(Len(list) - 1) : SubSeq(list, 1, Len(list) - 1)[n] = list[n]
      BY <2>1
    <2>4. Last(list) = list[Len(list)] /\ list[Len(list)] \in S
      BY <2>1 DEF Last
    <2> QED BY <2>1, <2>2, <2>3, <2>4
  <1>2. PICK front : front = Front(list)
    OBVIOUS
  <1>3. /\ front \in Seq(S) /\ Len(list) = Len(front) + 1
        /\ \A n \in 1..Len(front) : front[n] = list[n]
    BY <1>1, <1>2
  <1> DEFINE P == {n \in DOMAIN list : NotEmpty(list[n])}
             Q == {n \in DOMAIN front : NotEmpty(front[n])}
  <1>4. \A n \in 1..Len(front) : n \in Q <=> n \in P
    BY <1>3
  <1>5. Len(list) \in P <=> NotEmpty(Last(list))
    BY <1>1
  <1>6. NonEmpty(list) = Sublist(list, P) /\ NonEmpty(front) = Sublist(front, Q)
    BY DEF NonEmpty
  <1> HIDE DEF P, Q
  <1>7. Sublist(list, P) = IF Len(list) \in P THEN Append(Sublist(front, Q), list[Len(list)])
                           ELSE Sublist(front, Q)
    BY <1>3, <1>4, SublistStep
  <1>8. NonEmpty(list) \in Seq(S) /\ NonEmpty(front) \in Seq(S)
    BY <1>3, <1>6, SublistGathers
  <1> QED BY <1>1, <1>2, <1>5, <1>6, <1>7, <1>8

LEMMA NonEmptyOfNone == NonEmpty(<<>>) = <<>>
  <1>1. PICK P : P = {n \in DOMAIN <<>> : NotEmpty(<<>>[n])}
    OBVIOUS
  <1>2. PICK u : IsUpTo(u, <<>>, P, Len(<<>>)) /\ Sublist(<<>>, P) = u[Len(<<>>)]
    BY SublistIs
  <1>3. Len(<<>>) = 0
    OBVIOUS
  <1>4. u[0] = <<>>
    BY <1>2, <1>3, UpToStep
  <1> QED BY <1>1, <1>2, <1>3, <1>4 DEF NonEmpty

-----------------------------------------------------------------------------
(* UsageBuilder: the inputs *)

InputType == [values : Seq(Value), checked : BOOLEAN, shown : BOOLEAN,
              choice : DOMAIN Choice \cup {Custom}]

\* Rows have an input at least, and those that are not lists have one.
UsageInv ==
    /\ row \in Variables
    /\ input \in [Rows -> InputType]
    /\ \A i \in Rows : /\ Len(input[i].values) \in 1..MaxInputs
                       /\ row[i].type # "list" => Len(input[i].values) = 1
    /\ optional \in BOOLEAN
    /\ \A n \in DOMAIN output : output[n].row \in Rows

\* A step that a list row may make.
ListsChange ==
    \A i \in Rows :
        \/ /\ Len(input'[i].values) = Len(input[i].values)
           /\ \E k \in DOMAIN input[i].values :
                  input'[i].values = [input[i].values EXCEPT ![k] = input'[i].values[k]]
        \/ input'[i].values = NonEmpty(input[i].values) \o <<<<>>>>

LEMMA RowsAre ==
    ASSUME row \in Variables
    PROVE  /\ Rows = 1..Len(row) /\ Len(row) \in Nat
           /\ \A i \in Rows : /\ row[i] \in Row
                              /\ row[i].type = "select" => row[i].choices # <<>>
  BY UsageAssumption DEF Rows

LEMMA NewInputIs ==
    ASSUME row \in Variables, NEW i \in Rows
    PROVE  NewInput(i) \in InputType /\ NewInput(i).values = <<<<>>>>
  <1>1. row[i] \in Row /\ (row[i].type = "select" => row[i].choices # <<>>)
    BY RowsAre
  <1>2. row[i].type = "select" => row[i].choices[1] \in DOMAIN Choice
    BY <1>1 DEF Row
  <1>3. <<<<>>>> \in Seq(Value)
    BY UsageAssumption
  <1>4. Nullable(i) \in BOOLEAN
    BY DEF Nullable
  <1> QED BY <1>2, <1>3, <1>4 DEF NewInput, NoInput, InputType

LEMMA UsageStart == UsageInit => UsageInv
  <1> SUFFICES ASSUME UsageInit PROVE UsageInv
    OBVIOUS
  <1>1. \A i \in Rows : input[i] \in InputType /\ input[i].values = <<<<>>>>
    BY NewInputIs DEF UsageInit
  <1>2. Len(<<<<>>>>) = 1 /\ 1 \in 1..MaxInputs
    BY UsageAssumption
  <1>3. input \in [Rows -> InputType]
    BY <1>1 DEF UsageInit
  <1>4. DOMAIN output = {}
    BY DEF UsageInit
  <1>5. row \in Variables /\ optional \in BOOLEAN
    BY DEF UsageInit
  <1>6. \A i \in Rows : Len(input[i].values) = 1
    BY <1>1, <1>2
  <1> QED BY <1>2, <1>3, <1>4, <1>5, <1>6 DEF UsageInv

LEMMA SameList ==
    ASSUME NEW list \in Seq(Value), 1 \in DOMAIN list
    PROVE  list = [list EXCEPT ![1] = list[1]]
  OBVIOUS

LEMMA SingleList ==
    ASSUME NEW list \in Seq(Value), NEW new \in Seq(Value), Len(list) = 1, Len(new) = 1
    PROVE  new = [list EXCEPT ![1] = new[1]]
  <1>1. new[1] \in Value
    OBVIOUS
  <1>2. PICK s : s = [list EXCEPT ![1] = new[1]]
    OBVIOUS
  <1>3. s \in Seq(Value) /\ Len(s) = 1 /\ s[1] = new[1]
    BY <1>1, <1>2
  <1>4. \A n \in 1..Len(new) : new[n] = s[n]
    BY <1>3
  <1>5. new = s
    BY <1>3, <1>4, SeqEqual
  <1> QED BY <1>2, <1>5

\* Steps that change one input of the i-th row.
LEMMA InputStep ==
    ASSUME UsageInv, UNCHANGED <<row, optional, output>>, NEW i \in Rows, NEW x \in InputType,
           input' = [input EXCEPT ![i] = x],
           Len(x.values) \in 1..MaxInputs, row[i].type # "list" => Len(x.values) = 1,
           \/ /\ Len(x.values) = Len(input[i].values)
              /\ \E k \in DOMAIN input[i].values :
                     x.values = [input[i].values EXCEPT ![k] = x.values[k]]
           \/ x.values = NonEmpty(input[i].values) \o <<<<>>>>
    PROVE  UsageInv' /\ ListsChange
  <1>1. Rows' = Rows
    BY DEF Rows
  <1>2. input'[i] = x /\ \A j \in Rows \ {i} : input'[j] = input[j]
    BY DEF UsageInv
  <1>3. input' \in [Rows -> InputType]
    BY DEF UsageInv
  <1>4. UsageInv'
    BY <1>1, <1>2, <1>3 DEF UsageInv
  <1>5. ASSUME NEW j \in Rows \ {i}
        PROVE  \E k \in DOMAIN input[j].values :
                   input'[j].values = [input[j].values EXCEPT ![k] = input'[j].values[k]]
    <2>1. input[j].values \in Seq(Value) /\ 1 \in DOMAIN input[j].values
      BY DEF UsageInv, InputType
    <2>2. input'[j].values = input[j].values
      BY <1>2
    <2>3. input[j].values = [input[j].values EXCEPT ![1] = input[j].values[1]]
      BY <2>1, SameList
    <2> QED BY <2>1, <2>2, <2>3
  <1> QED BY ZenonT(60), <1>2, <1>4, <1>5 DEF ListsChange


LEMMA EnterStep ==
    ASSUME UsageInv, NEW i \in Rows, NEW k \in 1..MaxInputs, NEW v \in Value, Enter(i, k, v)
    PROVE  UsageInv' /\ ListsChange
  <1>1. PICK list \in Seq(Value) : list = input[i].values
    BY DEF UsageInv, InputType
  <1>2. k \in DOMAIN list
    BY <1>1 DEF Enter
  <1>3. PICK new : new = [list EXCEPT ![k] = v]
    OBVIOUS
  <1>4. new \in Seq(Value) /\ Len(new) = Len(list) /\ new[k] = v
    BY <1>2, <1>3
  <1>5. PICK x : x = [input[i] EXCEPT !.values = new]
    OBVIOUS
  <1>6. x \in InputType /\ x.values = new
    BY <1>4, <1>5 DEF UsageInv, InputType
  <1>7. input' = [input EXCEPT ![i] = x]
    BY <1>1, <1>3, <1>5 DEF Enter
  <1>8. /\ Len(x.values) \in 1..MaxInputs
        /\ row[i].type # "list" => Len(x.values) = 1
        /\ Len(x.values) = Len(input[i].values)
    BY <1>1, <1>4, <1>6 DEF UsageInv
  <1>9. x.values = [input[i].values EXCEPT ![k] = x.values[k]]
    BY <1>1, <1>3, <1>4, <1>6
  <1> QED BY <1>1, <1>2, <1>6, <1>7, <1>8, <1>9, InputStep DEF Enter

\* The keyup handler, for every list of values.
LEMMA KeyupKeeps ==
    ASSUME NEW list \in Seq(Value), list # <<>>
    PROVE  /\ ListAfterKeyup(list) = NonEmpty(list) \o <<<<>>>>
           /\ ListAfterKeyup(list) \in Seq(Value) /\ Len(ListAfterKeyup(list)) >= 1
  <1>1. PICK s \in Seq(Value), x \in Value : s = NonEmpty(Front(list)) /\ x = Last(list)
    BY NonEmptyStep
  <1>2. NonEmpty(list) = IF NotEmpty(x) THEN Append(s, x) ELSE s
    BY <1>1, NonEmptyStep
  <1>3. ListAfterKeyup(list) = s \o <<x>> \o (IF NotEmpty(x) THEN <<<<>>>> ELSE <<>>)
    BY <1>1 DEF ListAfterKeyup
  <1>4. <<>> \in Value
    BY UsageAssumption
  <1>5. CASE NotEmpty(x)
    <2>1. Append(s, x) = s \o <<x>>
      OBVIOUS
    <2> QED BY <1>2, <1>3, <1>4, <1>5, <2>1
  <1>6. CASE ~NotEmpty(x)
    <2>1. x = <<>>
      BY <1>6 DEF NotEmpty
    <2>2. s \o <<x>> \o <<>> = s \o <<x>>
      OBVIOUS
    <2> QED BY <1>2, <1>3, <1>4, <1>6, <2>1, <2>2
  <1> QED BY <1>5, <1>6

LEMMA KeyupStep ==
    ASSUME UsageInv, NEW i \in Rows, Keyup(i)
    PROVE  UsageInv' /\ ListsChange
  <1>1. PICK list \in Seq(Value) : list = input[i].values
    BY DEF UsageInv, InputType
  <1>2. list # <<>>
    BY <1>1 DEF UsageInv
  <1>3. PICK new : new = ListAfterKeyup(list)
    OBVIOUS
  <1>4. new \in Seq(Value) /\ Len(new) >= 1 /\ new = NonEmpty(list) \o <<<<>>>>
    BY <1>2, <1>3, KeyupKeeps
  <1>5. PICK x : x = [input[i] EXCEPT !.values = new]
    OBVIOUS
  <1>6. x \in InputType /\ x.values = new
    BY <1>4, <1>5 DEF UsageInv, InputType
  <1>7. /\ input' = [input EXCEPT ![i] = x] /\ UNCHANGED <<row, optional, output>>
        /\ Len(new) <= MaxInputs /\ row[i].type = "list"
    BY <1>1, <1>3, <1>5 DEF Keyup
  <1>8. Len(x.values) \in 1..MaxInputs
    BY <1>4, <1>6, <1>7, UsageAssumption
  <1>9. x.values = NonEmpty(input[i].values) \o <<<<>>>>
    BY <1>1, <1>4, <1>6
  <1> QED BY <1>6, <1>7, <1>8, <1>9, InputStep

\* The values stay, or those of a row that is no list start anew.
LEMMA OthersStep ==
    ASSUME UsageInv, NEW i \in Rows,
           Check(i) \/ Modify(i) \/ \E c \in DOMAIN Choice \cup {Custom} : Select(i, c)
    PROVE  UsageInv' /\ ListsChange
  <1>1. UNCHANGED <<row, optional, output>>
    BY DEF Check, Modify, Select
  <1>2. PICK list \in Seq(Value) : list = input[i].values
    BY DEF UsageInv, InputType
  <1>3. /\ Len(list) \in 1..MaxInputs /\ 1 \in DOMAIN list
        /\ row[i].type # "list" => Len(list) = 1
    BY <1>2 DEF UsageInv
  <1>4. \E x \in InputType : /\ input' = [input EXCEPT ![i] = x]
                             /\ \/ x.values = list
                                \/ row[i].type # "list" /\ x.values = <<<<>>>>
    <2>1. CASE Check(i)
      <3>1. input' = [input EXCEPT ![i] = [input[i] EXCEPT !.checked = ~input[i].checked]]
        BY <2>1 DEF Check
      <3>2. [input[i] EXCEPT !.checked = ~input[i].checked] \in InputType
        BY DEF UsageInv, InputType
      <3>3. [input[i] EXCEPT !.checked = ~input[i].checked].values = list
        BY <1>2 DEF UsageInv, InputType
      <3> QED BY <3>1, <3>2, <3>3
    <2>2. CASE Modify(i)
      <3>1. row \in Variables
        BY DEF UsageInv
      <3>2. PICK y \in InputType : y = NewInput(i) /\ y.values = <<<<>>>>
        BY <3>1, NewInputIs
      <3>3. PICK b \in BOOLEAN : b <=> ~input[i].shown
        OBVIOUS
      <3>4. [y EXCEPT !.shown = ~input[i].shown] \in InputType
            /\ [y EXCEPT !.shown = ~input[i].shown].values = <<<<>>>>
        BY <3>2 DEF UsageInv, InputType
      <3>5. input' = [input EXCEPT ![i] = [y EXCEPT !.shown = ~input[i].shown]]
        BY <2>2, <3>2 DEF Modify
      <3>6. row[i].type # "list"
        BY <2>2 DEF Modify, Nullable
      <3> QED BY <3>4, <3>5, <3>6
    <2>3. CASE \E c \in DOMAIN Choice \cup {Custom} : Select(i, c)
      <3>1. PICK c \in DOMAIN Choice \cup {Custom} : Select(i, c)
        BY <2>3
      <3>2. input' = [input EXCEPT ![i] = [input[i] EXCEPT !.choice = c]]
        BY <3>1 DEF Select
      <3>3. [input[i] EXCEPT !.choice = c] \in InputType
        BY DEF UsageInv, InputType
      <3>4. [input[i] EXCEPT !.choice = c].values = list
        BY <1>2 DEF UsageInv, InputType
      <3> QED BY <3>2, <3>3, <3>4
    <2> QED BY <2>1, <2>2, <2>3
  <1>5. PICK x \in InputType : /\ input' = [input EXCEPT ![i] = x]
                              /\ \/ x.values = list
                                 \/ row[i].type # "list" /\ x.values = <<<<>>>>
    BY <1>4
  <1>6. x.values \in Seq(Value) /\ Len(<<<<>>>>) = 1
    BY DEF InputType
  <1>7. Len(x.values) = Len(list) /\ 1 \in DOMAIN x.values
    BY <1>3, <1>5, <1>6
  <1>8. x.values = [list EXCEPT ![1] = x.values[1]]
    <2>1. CASE x.values = list
      BY <1>3, <2>1, SameList
    <2>2. CASE row[i].type # "list" /\ x.values = <<<<>>>>
      <3>1. Len(list) = 1 /\ Len(x.values) = 1
        BY <1>3, <1>7, <2>2
      <3> QED BY <1>6, <3>1, SingleList
    <2> QED BY <1>5, <2>1, <2>2
  <1>9. Len(x.values) \in 1..MaxInputs /\ (row[i].type # "list" => Len(x.values) = 1)
    BY <1>3, <1>7
  <1> QED BY <1>1, <1>2, <1>3, <1>5, <1>7, <1>8, <1>9, InputStep


\* What is generated at a step, if anything is.
Follows ==
    output' # output =>
        \A i \in Rows :
            row[i].type \in {"text", "number", "list"} /\ ListValues(i) # <<>> =>
                /\ Visible(i) <=> \E n \in DOMAIN output' : output'[n].row = i
                /\ \A n \in DOMAIN output' :
                      output'[n].row = i => Len(output'[n].text) = Len(ListValues(i))

\* A row with something typed into it has a line, of as many values as it has.
LEMMA ValuesAreGenerated ==
    ASSUME UsageInv, NEW i \in Rows, row[i].type \in {"text", "number", "list"},
           ListValues(i) # <<>>
    PROVE  /\ Generates(i) <=> Visible(i)
           /\ DOMAIN Argument(i) = 1..Len(ListValues(i)) /\ Len(ListValues(i)) \in Nat
  <1>1. PICK list \in Seq(Value) : list = input[i].values
    BY DEF UsageInv, InputType
  <1>2. list # <<>>
    BY <1>1 DEF UsageInv
  <1>3. ListValues(i) = NonEmpty(list) /\ NonEmpty(list) \in Seq(Value)
    BY <1>1, <1>2, NonEmptyStep DEF ListValues
  <1>4. CASE row[i].type = "list"
    <2>1. Argument(i) = [k \in DOMAIN ListValues(i) |-> QuoteString(i, ListValues(i)[k])]
      BY <1>4 DEF Argument
    <2>2. ListHasLine(i)
      BY DEF ListHasLine, NotEmpty
    <2> QED BY <1>3, <1>4, <2>1, <2>2 DEF Generates, Visible
  <1>5. CASE row[i].type \in {"text", "number"}
    <2>1. Len(list) = 1
      BY <1>1, <1>5 DEF UsageInv
    <2>2. Front(list) = <<>> /\ Last(list) = list[1]
      BY <2>1 DEF Front, Last
    <2>3. NonEmpty(list) = IF NotEmpty(list[1]) THEN <<list[1]>> ELSE <<>>
      <3>1. NonEmpty(list) = IF NotEmpty(list[1]) THEN Append(<<>>, list[1]) ELSE <<>>
        BY <1>2, <2>2, NonEmptyStep, NonEmptyOfNone
      <3>2. Append(<<>>, list[1]) = <<list[1]>>
        OBVIOUS
      <3> QED BY <3>1, <3>2
    <2>4. NotEmpty(list[1]) /\ Len(ListValues(i)) = 1
      BY <1>3, <2>3
    <2>5. TextHasLine(i)
      BY <1>1, <2>4 DEF TextHasLine
    <2>6. DOMAIN Argument(i) = 1..1
      BY <1>5 DEF Argument
    <2> QED BY <1>5, <2>4, <2>5, <2>6 DEF Generates, Visible
  <1> QED BY <1>4, <1>5

LEMMA GenerateStep ==
    ASSUME UsageInv, GenerateTerraform
    PROVE  UsageInv' /\ ListsChange /\ Follows
  <1>1. UNCHANGED <<row, input, optional>>
    BY DEF GenerateTerraform
  <1>2. Rows = 1..Len(row) /\ Len(row) \in Nat
    BY RowsAre DEF UsageInv
  <1>3. PICK list, G : list = [i \in Rows |-> i] /\ G = {i \in Rows : Generates(i)}
    OBVIOUS
  <1>4. list \in Seq(Rows) /\ Len(list) = Len(row)
    BY <1>2, <1>3
  <1>5. PICK lines : lines = Sublist(list, G)
    OBVIOUS
  <1>6. lines \in Seq(Rows) /\ Gathered(lines, list, G, Len(list))
    BY <1>4, <1>5, SublistGathers
  <1>7. ASSUME NEW i \in Rows
        PROVE  (\E n \in DOMAIN lines : lines[n] = i) <=> Generates(i)
    <2>1. (\E n \in DOMAIN lines : lines[n] = i) <=> \E p \in 1..Len(list) : p \in G /\ list[p] = i
      BY <1>6 DEF Gathered
    <2>2. \A p \in 1..Len(list) : p \in Rows /\ list[p] = p
      BY <1>2, <1>3, <1>4
    <2> QED BY <1>2, <1>3, <1>4, <2>1, <2>2
  <1>8. output' = [n \in DOMAIN lines |->
                     [row |-> lines[n],
                      text |-> [k \in DOMAIN Argument(lines[n]) |->
                                   EscapeHtml(Argument(lines[n])[k])]]]
    BY <1>3, <1>5 DEF GenerateTerraform
  <1>9. /\ DOMAIN output' = DOMAIN lines
        /\ \A n \in DOMAIN lines :
              /\ output'[n].row = lines[n] /\ lines[n] \in Rows
              /\ output'[n].text = [k \in DOMAIN Argument(lines[n]) |->
                                       EscapeHtml(Argument(lines[n])[k])]
    BY <1>6, <1>8
  <1>10. UsageInv'
    <2>1. Rows' = Rows
      BY <1>1 DEF Rows
    <2> QED BY <1>1, <1>9, <2>1 DEF UsageInv
  <1>11. ListsChange
    <2> SUFFICES ASSUME NEW i \in Rows
                 PROVE  \E k \in DOMAIN input[i].values :
                            input'[i].values = [input[i].values EXCEPT ![k] = input'[i].values[k]]
      BY <1>1 DEF ListsChange
    <2>1. input[i].values \in Seq(Value) /\ 1 \in DOMAIN input[i].values
      BY DEF UsageInv, InputType
    <2> QED BY <1>1, <2>1, SameList
  <1>12. Follows
    <2> SUFFICES ASSUME NEW i \in Rows, row[i].type \in {"text", "number", "list"},
                        ListValues(i) # <<>>
                 PROVE  /\ Visible(i) <=> \E n \in DOMAIN output' : output'[n].row = i
                        /\ \A n \in DOMAIN output' :
                              output'[n].row = i => Len(output'[n].text) = Len(ListValues(i))
      BY DEF Follows
    <2>1. /\ Generates(i) <=> Visible(i)
          /\ DOMAIN Argument(i) = 1..Len(ListValues(i)) /\ Len(ListValues(i)) \in Nat
      BY ValuesAreGenerated
    <2>2. Visible(i) <=> \E n \in DOMAIN output' : output'[n].row = i
      BY ZenonT(60), <1>7, <1>9, <2>1
    <2>3. ASSUME NEW n \in DOMAIN output', output'[n].row = i
          PROVE  Len(output'[n].text) = Len(ListValues(i))
      <3>1. output'[n].text = [k \in DOMAIN Argument(i) |-> EscapeHtml(Argument(i)[k])]
        <4>1. n \in DOMAIN lines /\ lines[n] = i
          BY <1>9, <2>3
        <4>2. output'[n].text = [k \in DOMAIN Argument(lines[n]) |->
                                    EscapeHtml(Argument(lines[n])[k])]
          BY <1>9, <4>1
        <4> QED BY <4>1, <4>2, Zenon
      <3>2. DOMAIN output'[n].text = 1..Len(ListValues(i))
        BY <2>1, <3>1
      <3> QED BY <2>1, <3>1, <3>2
    <2> QED BY <2>2, <2>3
  <1> QED BY <1>10, <1>11, <1>12

LEMMA UsageStep ==
    ASSUME UsageInv, [UsageNext]_usageVars
    PROVE  UsageInv' /\ ListsChange /\ Follows
  <1>1. UNCHANGED output => Follows
    BY DEF Follows
  <1>2. CASE GenerateTerraform
    BY <1>2, GenerateStep
  <1>3. ASSUME NEW i \in Rows, NEW k \in 1..MaxInputs, NEW v \in Value, Enter(i, k, v)
        PROVE  UsageInv' /\ ListsChange /\ Follows
    BY <1>1, <1>3, EnterStep DEF Enter
  <1>4. ASSUME NEW i \in Rows, Keyup(i) PROVE UsageInv' /\ ListsChange /\ Follows
    BY <1>1, <1>4, KeyupStep DEF Keyup
  <1>5. ASSUME NEW i \in Rows,
               Check(i) \/ Modify(i) \/ \E c \in DOMAIN Choice \cup {Custom} : Select(i, c)
        PROVE  UsageInv' /\ ListsChange /\ Follows
    <2>1. UNCHANGED output
      BY <1>5 DEF Check, Modify, Select
    <2> QED BY <1>1, <1>5, <2>1, OthersStep
  <1>6. CASE ShowOptional \/ UNCHANGED usageVars
    <2>1. UNCHANGED <<row, input, output>> /\ optional' \in BOOLEAN
      BY <1>6 DEF ShowOptional, usageVars, UsageInv
    <2>2. UsageInv'
      BY <2>1 DEF UsageInv, Rows
    <2>3. ListsChange
      <3> SUFFICES ASSUME NEW i \in Rows
                   PROVE  \E k \in DOMAIN input[i].values :
                              input'[i].values = [input[i].values EXCEPT ![k] = input'[i].values[k]]
        BY <2>1 DEF ListsChange
      <3>1. input[i].values \in Seq(Value) /\ 1 \in DOMAIN input[i].values
        BY DEF UsageInv, InputType
      <3> QED BY <2>1, <3>1, SameList
    <2> QED BY <1>1, <2>1, <2>2, <2>3
  <1> QED BY <1>2, <1>3, <1>4, <1>5, <1>6 DEF UsageNext

LEMMA UsageAlways == UsageSpec => []UsageInv
  <1>1. UsageInv /\ [UsageNext]_usageVars => UsageInv'
    BY UsageStep
  <1> QED BY <1>1, UsageStart, PTL DEF UsageSpec

\* The keyup handler loses no value and changes none, for lists of any length.
THEOREM TypedListsAreKept == UsageSpec => ListsKeepValues
  <1> DEFINE A == \A i \in Rows :
                    LET old == input[i].values
                        new == input'[i].values
                    IN  \/ Len(new) = Len(old) /\ \E k \in DOMAIN old : new = [old EXCEPT ![k] = new[k]]
                        \/ new = NonEmpty(old) \o <<<<>>>>
  <1>1. UsageInv /\ [UsageNext]_usageVars => [A]_usageVars
    BY UsageStep DEF ListsChange
  <1> QED BY <1>1, UsageAlways, PTL DEF UsageSpec, ListsKeepValues

\* What is generated has all that the user typed into rows that are shown, and
\* nothing of other rows, whether or not a keyup event followed.
THEOREM GeneratedIsTyped == UsageSpec => OutputFollowsInputs
  <1> DEFINE A == output' # output =>
                    \A i \in Rows :
                      /\ row[i].type \in {"text", "number", "list"}
                      /\ ListValues(i) # <<>>
                      => /\ Visible(i) <=> \E n \in DOMAIN output' : output'[n].row = i
                         /\ \A n \in DOMAIN output' :
                               output'[n].row = i => Len(output'[n].text) = Len(ListValues(i))
  <1>1. UsageInv /\ [UsageNext]_usageVars => [A]_usageVars
    BY UsageStep DEF Follows
  <1> QED BY <1>1, UsageAlways, PTL DEF UsageSpec, OutputFollowsInputs


LEMMA UsageTypes == UsageInv => UsageTypeOK
  <1> SUFFICES ASSUME UsageInv PROVE UsageTypeOK
    OBVIOUS
  <1>1. \A i \in Rows : row[i] \in Row
    BY RowsAre DEF UsageInv
  <1> QED BY <1>1 DEF UsageInv, InputType, Row, UsageTypeOK

-----------------------------------------------------------------------------
(* WebClient: the parts side by side. *)

WebInv == PageInv /\ UsageInv /\ SettingsInv

LEMMA WebStart == WebInit => WebInv
  BY PageInit, UsageStart, SettingsStart DEF WebInit, WebInv

\* Whatever the behaviour is about, a step is allowed by each part.
LEMMA WebStep ==
    ASSUME [WebNext]_webVars
    PROVE  [Next]_pageVars /\ [UsageNext]_usageVars /\ [SettingsNext]_settingsVars
  BY DEF WebNext, webVars

LEMMA WebInductive == WebInv /\ [WebNext]_webVars => WebInv'
  <1> SUFFICES ASSUME WebInv, [WebNext]_webVars PROVE WebInv'
    OBVIOUS
  <1>1. [Next]_pageVars /\ [UsageNext]_usageVars /\ [SettingsNext]_settingsVars
    BY WebStep
  <1>2. PageInv'
    BY <1>1, StepKeeps DEF WebInv
  <1>3. UsageInv'
    BY <1>1, UsageStep DEF WebInv
  <1>4. SettingsInv'
    BY <1>1, SettingsStep DEF WebInv
  <1> QED BY <1>2, <1>3, <1>4 DEF WebInv

LEMMA WebAlways == WebSpec => []WebInv
  BY WebStart, WebInductive, PTL DEF WebSpec

\* The page, the inputs of the usage builder and the settings form keep their
\* types: every row has an input, what is generated is of rows of the module,
\* and nothing that the server refuses is ever stored.
THEOREM WebTypes == WebSpec => []TypesOK
  <1>1. WebInv => TypesOK
    BY UsageTypes, SettingsShow DEF WebInv, PageInv, TypesOK
  <1> QED BY <1>1, WebAlways, PTL

\* Beside the tabs with a state of their own the page goes on as if alone: its
\* address names the tab that is shown, and that has content.
THEOREM WebKeepsPage == WebSpec => []AddressNamesShownTab /\ []ShownTabHasContent
  <1>1. WebInv => AddressNamesShownTab /\ ShownTabHasContent
    BY DEF WebInv, PageInv
  <1> QED BY <1>1, WebAlways, PTL

\* The usage builder keeps what is typed and generates it, whatever answers
\* arrive for the rest of the page.
THEOREM WebKeepsUsage == WebSpec => ListsKeepValues /\ OutputFollowsInputs
  <1>1. WebInit => UsageInit
    BY DEF WebInit
  <1>2. [WebNext]_webVars => [UsageNext]_usageVars
    BY WebStep
  <1>3. WebSpec => UsageSpec
    BY <1>1, <1>2, PTL DEF WebSpec, UsageSpec
  <1> QED BY <1>3, TypedListsAreKept, GeneratedIsTyped

\* So does the settings form keep what nobody touched, and its messages stay
\* honest.
THEOREM WebKeepsSettings == WebSpec => UntouchedSettingsSurvive /\ []OutcomeIsHonest
  <1>1. WebInit => SettingsInit
    BY DEF WebInit
  <1>2. [WebNext]_webVars => [SettingsNext]_settingsVars
    BY WebStep
  <1>3. WebSpec => SettingsSpec
    BY <1>1, <1>2, PTL DEF WebSpec, SettingsSpec
  <1> QED BY <1>3, UntouchedSettingsStay, MessagesAreHonest

=============================================================================

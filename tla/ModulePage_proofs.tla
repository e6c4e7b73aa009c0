-------------------------- MODULE ModulePage_proofs -------------------------
(***************************************************************************)
(* Proofs about ModulePage, for every page with any additional tabs,       *)
(* opened at any address, and every order of answers and clicks.           *)
(*                                                                         *)
(* The address agrees with the tab in a settled page because the default   *)
(* tab is the one the address names (DefaultShows), and no answer changes  *)
(* what a settled tab resolved to: requests are sent in order, each once   *)
(* (SentInOrder, PromiseKept).  A selection finds a valid tab because an   *)
(* additional tab is in the DOM exactly when it is valid, and names are    *)
(* told apart by the first word (SelectProper).                            *)
(***************************************************************************)
EXTENDS ModulePage, WellFoundedInduction, SequenceTheorems, TLAPS

\* The details whose arrival registers the tabs.
Main == IF site.kind = "root" THEN Details ELSE Part

\* Requests are sent once: each waits for another, which is answered once.
SentInOrder ==
    /\ tabs = IF answer[Main] = "ok" THEN TabsToRegister ELSE <<>>
    /\ answer[Config] # "ok" => answer[Details] = "unsent"
    /\ answer[Details] # "ok" => answer[Part] = "unsent"
    /\ tabs = <<>> => \A p \in Requests : IsFetched(p) => answer[p] = "unsent"

ValidExtrasAreInserted ==
    \A t \in ToSet(tabs) : IsExtra(t) /\ Valid(t) => t \in ToSet(inserted)

PageInv ==
    /\ TypeOK
    /\ SentInOrder
    /\ inserted \in Seq(ToSet(TabsToRegister)) /\ ValidExtrasAreInserted
    /\ chosen # None => Valid(chosen)
    /\ AddressNamesShownTab
    /\ ShownTabHasContent

\* The tabs that are not additional ones.
Words == {"readme", "inputs", "integrations", "settings", "outputs", "providers", "modules",
          "resources", "security-issues", "analytics", "usage-builder", "example-files"}

Plain == {<<w>> : w \in Words}

-----------------------------------------------------------------------------
(* Sequences and what is found in them *)

LEMMA LowestExists ==
    ASSUME NEW I \in SUBSET Nat, I # {}
    PROVE  \E i \in I : \A j \in I : i <= j
  <1>1. PICK i \in I : \A j \in I : ~ (<<j, i>> \in OpToRel(<, Nat))
    BY WFMin, NatLessThanWellFounded
  <1>2. ASSUME NEW j \in I PROVE i <= j
    <2>1. ~ (j < i)
      BY <1>1 DEF OpToRel
    <2> QED BY <2>1
  <1> QED BY <1>2

LEMMA MinIsIn ==
    ASSUME NEW I \in SUBSET Nat, I # {}
    PROVE  Min(I) \in I /\ \A j \in I : Min(I) <= j
  BY LowestExists DEF Min

LEMMA MaxIsIn ==
    ASSUME NEW n \in Nat, NEW I \in SUBSET (0..n), I # {}
    PROVE  Max(I) \in I
  <1> DEFINE T == {n - i : i \in I}
  <1>1. T \subseteq Nat /\ T # {}
    <2>1. \A i \in I : n - i \in Nat
      OBVIOUS
    <2> QED BY <2>1
  <1>2. PICK x \in T : \A y \in T : x <= y
    <2> HIDE DEF T
    <2> QED BY <1>1, LowestExists
  <1>3. PICK i \in I : x = n - i
    OBVIOUS
  <1>4. ASSUME NEW j \in I PROVE i >= j
    <2>1. x <= n - j
      BY <1>2
    <2> QED BY <1>3, <2>1
  <1> QED BY <1>4 DEF Max

LEMMA ElementsOfConcat ==
    ASSUME NEW S, NEW s \in Seq(S), NEW r \in Seq(S)
    PROVE  s \o r \in Seq(S) /\ ToSet(s \o r) = ToSet(s) \cup ToSet(r)
  <1>1. /\ s \o r \in Seq(S) /\ Len(s \o r) = Len(s) + Len(r)
        /\ \A i \in 1..(Len(s) + Len(r)) :
              (s \o r)[i] = IF i <= Len(s) THEN s[i] ELSE r[i - Len(s)]
    BY ConcatProperties
  <1> DEFINE c == s \o r
  <1>2. Len(s) \in Nat /\ Len(r) \in Nat /\ DOMAIN c = 1..(Len(s) + Len(r))
        /\ DOMAIN s = 1..Len(s) /\ DOMAIN r = 1..Len(r)
    BY <1>1
  <1> HIDE DEF c
  <1>3. \A i \in 1..(Len(s) + Len(r)) : c[i] = IF i <= Len(s) THEN s[i] ELSE r[i - Len(s)]
    BY <1>1 DEF c
  <1>4. ASSUME NEW i \in DOMAIN s PROVE s[i] \in ToSet(c)
    <2>1. i \in DOMAIN c /\ c[i] = s[i]
      BY <1>2, <1>3
    <2> QED BY <2>1 DEF ToSet
  <1>5. ASSUME NEW i \in DOMAIN r PROVE r[i] \in ToSet(c)
    <2>1. Len(s) + i \in DOMAIN c /\ c[Len(s) + i] = r[i]
      BY <1>2, <1>3
    <2> QED BY <2>1 DEF ToSet
  <1>6. ASSUME NEW i \in DOMAIN c PROVE c[i] \in ToSet(s) \cup ToSet(r)
    <2>1. CASE i <= Len(s)
      <3>1. i \in DOMAIN s /\ c[i] = s[i]
        BY <1>2, <1>3, <2>1
      <3> QED BY <3>1 DEF ToSet
    <2>2. CASE ~ (i <= Len(s))
      <3>1. i - Len(s) \in DOMAIN r /\ c[i] = r[i - Len(s)]
        BY <1>2, <1>3, <2>2
      <3> QED BY <3>1 DEF ToSet
    <2> QED BY <2>1, <2>2
  <1>7. ToSet(c) = ToSet(s) \cup ToSet(r)
    <2>1. ToSet(c) \subseteq ToSet(s) \cup ToSet(r)
      BY <1>6 DEF ToSet
    <2>2. ToSet(s) \subseteq ToSet(c)
      BY <1>4 DEF ToSet
    <2>3. ToSet(r) \subseteq ToSet(c)
      BY <1>5 DEF ToSet
    <2> QED BY <2>1, <2>2, <2>3
  <1> QED BY <1>1, <1>7 DEF c

-----------------------------------------------------------------------------
(* The tabs of a page and their names *)

LEMMA ExtrasAre ==
    ASSUME site \in Site
    PROVE  /\ Extras \in Seq(Plain \cup ToSet(Extras))
           /\ ToSet(Extras) = {<<"extra", i>> : i \in DOMAIN site.titles}
           /\ site.titles \in Seq(Seq(TitleChar))
  <1>1. site.titles \in Seq(Seq(TitleChar))
    BY SiteAssumption
  <1>2. DOMAIN site.titles = 1..Len(site.titles) /\ Len(site.titles) \in Nat
    BY <1>1
  <1>3. DOMAIN Extras = 1..Len(site.titles) /\ \A i \in DOMAIN Extras : Extras[i] = <<"extra", i>>
    BY <1>2 DEF Extras
  <1>4. ToSet(Extras) = {<<"extra", i>> : i \in DOMAIN site.titles}
    BY <1>2, <1>3 DEF ToSet
  <1>5. Extras \in [1..Len(site.titles) -> Plain \cup ToSet(Extras)]
    BY <1>3 DEF Extras, ToSet
  <1>6. Extras \in Seq(Plain \cup ToSet(Extras))
    <2> HIDE DEF Extras
    <2> QED BY <1>2, <1>5, IsASeq
  <1> QED BY <1>1, <1>4, <1>6

LEMMA TabsAre ==
    ASSUME NEW T, Plain \subseteq T, NEW names \in Seq(Words)
    PROVE  /\ Tabs(names) \in Seq(T)
           /\ \A n \in DOMAIN names : <<names[n]>> \in ToSet(Tabs(names))
  <1>1. DOMAIN names = 1..Len(names) /\ Len(names) \in Nat
    OBVIOUS
  <1>2. \A n \in 1..Len(names) : <<names[n]>> \in T
    BY DEF Plain
  <1>3. Tabs(names) \in [1..Len(names) -> T]
    BY <1>1, <1>2 DEF Tabs
  <1>4. Tabs(names) \in Seq(T)
    <2> HIDE DEF Tabs
    <2> QED BY <1>1, <1>3, IsASeq
  <1> QED BY <1>4 DEF Tabs, ToSet

\* The tabs that each kind of page registers.
LEMMA TabsOfPages ==
    ASSUME site \in Site
    PROVE  /\ TabsToRegister \in Seq(Plain \cup ToSet(Extras))
           /\ TabsToRegister # <<>>
           /\ site.kind = "root" /\ ~ site.version => <<"integrations">> \in ToSet(TabsToRegister)
           /\ ~ (site.kind = "root" /\ ~ site.version) => <<"inputs">> \in ToSet(TabsToRegister)
  <1> DEFINE T == Plain \cup ToSet(Extras)
             A == <<"readme", "inputs">>
             B == <<"integrations", "settings", "outputs", "providers", "modules",
                    "resources", "security-issues", "analytics", "usage-builder">>
             C == <<"integrations", "settings">>
             D == <<"readme">>
             E == <<"example-files">>
             F == <<"inputs", "outputs", "providers", "modules", "resources", "security-issues">>
  <1>1. Extras \in Seq(T)
    BY ExtrasAre
  <1> HIDE DEF T
  <1>2. Plain \subseteq T
    BY DEF T
  <1>4. Tabs(A) \in Seq(T) /\ <<"inputs">> \in ToSet(Tabs(A))
    <2>1. A \in Seq(Words) /\ 2 \in DOMAIN A /\ A[2] = "inputs"
      BY DEF Words
    <2> HIDE DEF A
    <2> QED BY <1>2, <2>1, TabsAre
  <1>5. Tabs(B) \in Seq(T)
    <2>1. B \in Seq(Words)
      BY DEF Words
    <2> HIDE DEF B
    <2> QED BY <1>2, <2>1, TabsAre
  <1>6. Tabs(C) \in Seq(T) /\ <<"integrations">> \in ToSet(Tabs(C))
    <2>1. C \in Seq(Words) /\ 1 \in DOMAIN C /\ C[1] = "integrations"
      BY DEF Words
    <2> HIDE DEF C
    <2> QED BY <1>2, <2>1, TabsAre
  <1>7. Tabs(D) \in Seq(T)
    <2>1. D \in Seq(Words)
      BY DEF Words
    <2> HIDE DEF D
    <2> QED BY <1>2, <2>1, TabsAre
  <1>8. Tabs(E) \in Seq(T) /\ <<>> \in Seq(T)
    <2>1. E \in Seq(Words)
      BY DEF Words
    <2> HIDE DEF E
    <2> QED BY <1>2, <2>1, TabsAre
  <1>9. Tabs(F) \in Seq(T) /\ <<"inputs">> \in ToSet(Tabs(F))
    <2>1. F \in Seq(Words) /\ 1 \in DOMAIN F /\ F[1] = "inputs"
      BY DEF Words
    <2> HIDE DEF F
    <2> QED BY <1>2, <2>1, TabsAre
  <1>10. TabsToRegister = IF site.kind = "root"
                          THEN IF site.version THEN Tabs(A) \o Extras \o Tabs(B) ELSE Tabs(C)
                          ELSE Tabs(D) \o (IF site.kind = "example" THEN Tabs(E) ELSE <<>>) \o Tabs(F)
    BY DEF TabsToRegister
  <1> HIDE DEF A, B, C, D, E, F
  <1>11. /\ Tabs(A) \o Extras \in Seq(T)
         /\ ToSet(Tabs(A) \o Extras) = ToSet(Tabs(A)) \cup ToSet(Extras)
    BY <1>1, <1>4, ElementsOfConcat
  <1> DEFINE X == Tabs(A) \o Extras
  <1>12. X \o Tabs(B) \in Seq(T) /\ <<"inputs">> \in ToSet(X \o Tabs(B))
    <2>1. X \in Seq(T) /\ <<"inputs">> \in ToSet(X)
      BY <1>4, <1>11
    <2> HIDE DEF X
    <2> QED BY <1>5, <2>1, ElementsOfConcat
  <1> DEFINE M == IF site.kind = "example" THEN Tabs(E) ELSE <<>>
  <1>13. M \in Seq(T)
    BY <1>8
  <1> HIDE DEF M
  <1>14. Tabs(D) \o M \in Seq(T)
    BY <1>7, <1>13, ElementsOfConcat
  <1> DEFINE Y == Tabs(D) \o M
  <1>15. Y \o Tabs(F) \in Seq(T) /\ <<"inputs">> \in ToSet(Y \o Tabs(F))
    <2>1. Y \in Seq(T)
      BY <1>14
    <2> HIDE DEF Y
    <2> QED BY <1>9, <2>1, ElementsOfConcat
  <1>16. /\ TabsToRegister \in Seq(T)
         /\ site.kind = "root" /\ ~ site.version => <<"integrations">> \in ToSet(TabsToRegister)
         /\ ~ (site.kind = "root" /\ ~ site.version) => <<"inputs">> \in ToSet(TabsToRegister)
    BY <1>6, <1>10, <1>12, <1>15 DEF M
  <1>17. TabsToRegister # <<>>
    <2>1. ToSet(<<>>) = {}
      BY DEF ToSet
    <2> QED BY <1>16, <2>1
  <1> QED BY <1>16, <1>17 DEF T

\* What is in the concatenation of two sequences at a place of the first.
LEMMA ConcatStarts ==
    ASSUME NEW S, NEW s \in Seq(S), NEW r \in Seq(S), NEW n \in 1..Len(s)
    PROVE  n \in DOMAIN (s \o r) /\ n \in 1..Len(s \o r) /\ (s \o r)[n] = s[n]
  <1>1. Len(s) \in Nat /\ Len(r) \in Nat
    OBVIOUS
  <1>2. /\ s \o r \in Seq(S) /\ Len(s \o r) = Len(s) + Len(r)
        /\ \A i \in 1..(Len(s) + Len(r)) :
              (s \o r)[i] = IF i <= Len(s) THEN s[i] ELSE r[i - Len(s)]
    BY ConcatProperties
  <1> DEFINE c == s \o r
  <1>3. c \in Seq(S) /\ n \in 1..(Len(s) + Len(r)) /\ n <= Len(s)
    BY <1>1, <1>2
  <1>4. c[n] = s[n]
    BY <1>2, <1>3
  <1> HIDE DEF c
  <1>5. DOMAIN c = 1..Len(c)
    BY <1>3
  <1> QED BY <1>2, <1>3, <1>4, <1>5 DEF c

\* No additional tab comes before the inputs, which are always valid.
LEMMA InputsComeFirst ==
    ASSUME site \in Site, NEW n \in DOMAIN TabsToRegister, IsExtra(TabsToRegister[n])
    PROVE  \E m \in DOMAIN TabsToRegister : m < n /\ TabsToRegister[m] = <<"inputs">>
  <1> DEFINE T == Plain \cup ToSet(Extras)
             A == <<"readme", "inputs">>
             B == <<"integrations", "settings", "outputs", "providers", "modules",
                    "resources", "security-issues", "analytics", "usage-builder">>
             C == <<"integrations", "settings">>
             D == <<"readme">>
             E == <<"example-files">>
             F == <<"inputs", "outputs", "providers", "modules", "resources", "security-issues">>
  <1>1. TabsToRegister = IF site.kind = "root"
                         THEN IF site.version THEN Tabs(A) \o Extras \o Tabs(B) ELSE Tabs(C)
                         ELSE Tabs(D) \o (IF site.kind = "example" THEN Tabs(E) ELSE <<>>) \o Tabs(F)
    BY DEF TabsToRegister
  <1>2. \A t \in Plain : ~ IsExtra(t)
    BY DEF Plain, Words, IsExtra
  <1>3. DOMAIN TabsToRegister \subseteq Nat
    <2>1. TabsToRegister \in Seq(T)
      BY TabsOfPages
    <2> HIDE DEF T
    <2>2. DOMAIN TabsToRegister = 1..Len(TabsToRegister)
      BY <2>1
    <2> QED BY <2>2
  <1>4. CASE site.kind = "root" /\ site.version
    <2>1. A \in Seq(Words) /\ B \in Seq(Words) /\ Plain \subseteq T
      BY DEF Words
    <2>2. Tabs(A) \in Seq(T) /\ Tabs(B) \in Seq(T) /\ Extras \in Seq(T)
      <3> HIDE DEF A, B
      <3>1. Tabs(A) \in Seq(T) /\ Tabs(B) \in Seq(T)
        <4> HIDE DEF T
        <4> QED BY <2>1, TabsAre
      <3> QED BY <3>1, ExtrasAre
    <2>3. Len(Tabs(A)) = 2 /\ Tabs(A)[1] = <<"readme">> /\ Tabs(A)[2] = <<"inputs">>
      <3>1. DOMAIN Tabs(A) = 1..2 /\ Tabs(A)[1] = <<"readme">> /\ Tabs(A)[2] = <<"inputs">>
        BY DEF Tabs
      <3>2. Tabs(A) \in Seq(T)
        BY <2>2
      <3> DEFINE ta == Tabs(A)
      <3> HIDE DEF ta, T, A
      <3>3. ta \in Seq(T) /\ DOMAIN ta = 1..2
        BY <3>1, <3>2 DEF ta
      <3>4. Len(ta) = 2
        BY <3>3
      <3> QED BY <3>1, <3>4 DEF ta
    <2> HIDE DEF A, B, T
    <2>4. \A i \in 1..2 : /\ i \in 1..Len(Tabs(A) \o Extras)
                          /\ (Tabs(A) \o Extras)[i] = Tabs(A)[i]
      <3> DEFINE ta == Tabs(A)
                 ex == Extras
      <3>1. ta \in Seq(T) /\ ex \in Seq(T) /\ Len(ta) = 2
        BY <2>2, <2>3
      <3> HIDE DEF ta, ex
      <3>2. ASSUME NEW i \in 1..2
            PROVE  i \in 1..Len(ta \o ex) /\ (ta \o ex)[i] = ta[i]
        <4>1. i \in 1..Len(ta)
          BY <3>1
        <4> QED BY <3>1, <4>1, ConcatStarts
      <3> QED BY <3>2 DEF ta, ex
    <2>5. Tabs(A) \o Extras \in Seq(T)
      BY <2>2, ElementsOfConcat
    <2> DEFINE X == Tabs(A) \o Extras
    <2>6. X \in Seq(T) /\ \A i \in 1..2 : i \in 1..Len(X) /\ X[i] = Tabs(A)[i]
      BY <2>4, <2>5
    <2>7. TabsToRegister = X \o Tabs(B)
      BY <1>1, <1>4
    <2> HIDE DEF X
    <2>8. \A i \in 1..2 : i \in DOMAIN TabsToRegister /\ TabsToRegister[i] = Tabs(A)[i]
      BY <2>2, <2>6, <2>7, ConcatStarts
    <2>9. 1 \in 1..2 /\ 2 \in 1..2
      OBVIOUS
    <2>10. /\ 2 \in DOMAIN TabsToRegister /\ TabsToRegister[2] = <<"inputs">>
           /\ TabsToRegister[1] = <<"readme">>
      BY <2>3, <2>8, <2>9
    <2>11. n # 1 /\ n # 2
      BY <2>10 DEF IsExtra
    <2>12. n \in Nat /\ n # 0
      <3>1. PICK S : TabsToRegister \in Seq(S)
        BY TabsOfPages
      <3>2. DOMAIN TabsToRegister = 1..Len(TabsToRegister)
        BY <3>1
      <3> QED BY <3>2
    <2>13. 2 < n
      BY <2>11, <2>12
    <2> QED BY <2>10, <2>13
  <1>5. CASE ~ (site.kind = "root" /\ site.version)
    <2>1. C \in Seq(Words) /\ D \in Seq(Words) /\ E \in Seq(Words) /\ F \in Seq(Words)
      BY DEF Words
    <2> HIDE DEF A, B, C, D, E, F
    <2>2. /\ Tabs(C) \in Seq(Plain) /\ Tabs(D) \in Seq(Plain) /\ Tabs(E) \in Seq(Plain)
          /\ Tabs(F) \in Seq(Plain)
      BY <2>1, TabsAre
    <2> DEFINE M == IF site.kind = "example" THEN Tabs(E) ELSE <<>>
    <2>3. M \in Seq(Plain)
      BY <2>2
    <2> HIDE DEF M
    <2>4. Tabs(D) \o M \in Seq(Plain)
      BY <2>2, <2>3, ElementsOfConcat
    <2> DEFINE Y == Tabs(D) \o M
    <2>5. Y \o Tabs(F) \in Seq(Plain)
      <3>1. Y \in Seq(Plain)
        BY <2>4
      <3> HIDE DEF Y
      <3> QED BY <2>2, <3>1, ElementsOfConcat
    <2>6. TabsToRegister \in Seq(Plain)
      BY <1>1, <1>5, <2>2, <2>5 DEF M
    <2>7. TabsToRegister[n] \in Plain
      BY <2>6
    <2> QED BY <1>2, <2>7
  <1> QED BY <1>4, <1>5

\* What names consist of: "%XX" is not among it.
Chars == TitleChar \cup Words \cup {"-", "custom-"}

LEMMA NamesOfTabs ==
    ASSUME site \in Site, NEW t \in ToSet(TabsToRegister)
    PROVE  /\ Name(t) \in Seq(Chars) /\ t # None /\ t # Blank
           /\ ~ IsExtra(t) => /\ t \in Plain /\ Name(t) = t /\ Name(t)[1] # "custom-"
                              /\ Len(t) = 1
           /\ IsExtra(t) => t \in ToSet(Extras) /\ Name(t)[1] = "custom-"
  <1>1. t \in Plain \cup ToSet(Extras)
    <2> DEFINE T == Plain \cup ToSet(Extras)
    <2>1. TabsToRegister \in Seq(T)
      BY TabsOfPages
    <2> HIDE DEF T
    <2>2. \A n \in DOMAIN TabsToRegister : TabsToRegister[n] \in T
      BY <2>1
    <2>3. t \in T
      BY <2>2 DEF ToSet
    <2> QED BY <2>3 DEF T
  <1>2. CASE t \in Plain
    <2>1. PICK w \in Words : t = <<w>>
      BY <1>2 DEF Plain
    <2>2. /\ w # "extra" /\ w # "custom-" /\ w # "blank" /\ t[1] = w /\ Len(t) = 1
      BY <2>1 DEF Words
    <2>3. ~ IsExtra(t) /\ Name(t) = t
      BY <2>2 DEF IsExtra, Name
    <2>4. t \in Seq(Chars)
      BY <2>1 DEF Chars
    <2>5. t # None /\ t # Blank
      BY <2>2 DEF None, Blank
    <2> QED BY <1>2, <2>2, <2>3, <2>4, <2>5
  <1>3. CASE t \in ToSet(Extras)
    <2>1. PICK i \in DOMAIN site.titles : t = <<"extra", i>>
      BY <1>3, ExtrasAre
    <2>2. IsExtra(t) /\ t # None /\ t # Blank /\ t[2] = i
      BY <2>1 DEF IsExtra, None, Blank
    <2> DEFINE S == TitleChar
               title == site.titles[i]
               rest == AdditionalName(title)
    <2>3. title \in Seq(S)
      <3>1. site.titles \in Seq(Seq(S))
        BY ExtrasAre
      <3> DEFINE Q == Seq(S)
      <3>2. \A n \in DOMAIN site.titles : site.titles[n] \in Q
        <4>1. site.titles \in Seq(Q)
          BY <3>1
        <4> HIDE DEF Q
        <4> QED BY <4>1
      <3> QED BY <3>2
    <2>4. rest \in Seq(Chars)
      <3>1. DOMAIN title = 1..Len(title) /\ Len(title) \in Nat /\ \A n \in 1..Len(title) : title[n] \in S
        <4> HIDE DEF title, S
        <4> QED BY <2>3
      <3> HIDE DEF title
      <3>2. \A n \in 1..Len(title) : title[n] \in Chars
        BY <3>1 DEF Chars
      <3>3. rest \in [1..Len(title) -> Chars]
        BY <3>1, <3>2 DEF AdditionalName, Chars
      <3> HIDE DEF rest
      <3> QED BY <3>1, <3>3, IsASeq
    <2> HIDE DEF rest, title, S
    <2>5. <<"custom-">> \in Seq(Chars) /\ Len(<<"custom-">>) = 1 /\ <<"custom-">>[1] = "custom-"
      BY DEF Chars
    <2> DEFINE first == <<"custom-">>
    <2>6. first \o rest \in Seq(Chars) /\ (first \o rest)[1] = "custom-"
      <3>1. first \in Seq(Chars) /\ Len(first) = 1 /\ first[1] = "custom-" /\ Len(rest) \in Nat
        BY <2>4, <2>5
      <3> HIDE DEF first
      <3>2. 1 \in 1..(Len(first) + Len(rest)) /\ 1 <= Len(first)
        BY <3>1
      <3> QED BY <2>4, <3>1, <3>2, ConcatProperties
    <2>7. Name(t) = first \o rest
      BY <2>2 DEF Name, CustomName, rest, title
    <2> QED BY <1>3, <2>2, <2>6, <2>7
  <1> QED BY <1>1, <1>2, <1>3

\* The address of a tab is that of no other name, even where characters are
\* encoded.
LEMMA EncodedIsName ==
    ASSUME NEW x \in Seq(Chars), NEW y \in Seq(Chars), Encoded(x) = y
    PROVE  x = y
  <1>1. "%XX" \notin Chars
    BY DEF Chars, TitleChar, Words
  <1>2. DOMAIN y = DOMAIN x /\ \A n \in DOMAIN x : y[n] = IF x[n] \in Escaped THEN "%XX" ELSE x[n]
    BY DEF Encoded
  <1>3. \A n \in DOMAIN y : y[n] \in Chars
    OBVIOUS
  <1>4. \A n \in DOMAIN x : x[n] = y[n]
    BY <1>1, <1>2, <1>3
  <1>5. DOMAIN x = 1..Len(x) /\ DOMAIN y = 1..Len(y) /\ Len(x) \in Nat /\ Len(y) \in Nat
    OBVIOUS
  <1>6. Len(x) = Len(y)
    <2>1. \A a, b \in Nat : 1..a = 1..b => a = b
      <3> SUFFICES ASSUME NEW a \in Nat, NEW b \in Nat, 1..a = 1..b, a < b \/ b < a PROVE FALSE
        OBVIOUS
      <3>1. CASE a < b
        <4>1. b \in 1..b /\ b \notin 1..a
          BY <3>1
        <4> QED BY <4>1
      <3>2. CASE b < a
        <4>1. a \in 1..a /\ a \notin 1..b
          BY <3>2
        <4> QED BY <4>1
      <3> QED BY <3>1, <3>2
    <2> QED BY <1>2, <1>5, <2>1
  <1> QED BY <1>4, <1>5, <1>6, SeqEqual

\* What is shown when a tab is selected whose content is in the DOM if it is
\* an additional tab.
LEMMA SelectedShows ==
    ASSUME site \in Site, NEW t \in ToSet(TabsToRegister),
           NEW dom \in Seq(ToSet(TabsToRegister)), IsExtra(t) => t \in ToSet(dom)
    PROVE  LET s == Selected(Name(t), dom) IN
           /\ ~ IsExtra(t) => s = t
           /\ IsExtra(t) /\ ~ IsId(Name(t)) => s = Blank
           /\ IsExtra(t) /\ IsId(Name(t)) => s \in ToSet(dom) /\ Name(s) = Name(t)
  <1>1. CASE ~ IsExtra(t)
    BY <1>1, NamesOfTabs DEF Selected
  <1>2. CASE IsExtra(t) /\ ~ IsId(Name(t))
    BY <1>2, NamesOfTabs DEF Selected
  <1>3. CASE IsExtra(t) /\ IsId(Name(t))
    <2> DEFINE name == Name(t)
               I == {n \in DOMAIN dom : Name(dom[n]) = name}
    <2>1. DOMAIN dom = 1..Len(dom)
      OBVIOUS
    <2>2. I \subseteq Nat
      BY <2>1
    <2>3. PICK n \in I : \A m \in I : n <= m
      <3>1. I # {}
        BY <1>3 DEF ToSet
      <3> HIDE DEF I
      <3> QED BY <2>2, <3>1, LowestExists
    <2>4. n \in DOMAIN dom /\ Name(dom[n]) = name /\ \A m \in 1..(n - 1) : Name(dom[m]) # name
      <3>1. ASSUME NEW m \in 1..(n - 1), Name(dom[m]) = name PROVE FALSE
        <4>1. m \in DOMAIN dom /\ ~ (n <= m)
          BY <2>1
        <4> QED BY <2>3, <3>1, <4>1
      <3> QED BY <3>1
    <2> DEFINE k == CHOOSE j \in DOMAIN dom :
                       Name(dom[j]) = name /\ \A m \in 1..(j - 1) : Name(dom[m]) # name
    <2>5. k \in DOMAIN dom /\ Name(dom[k]) = name
      BY <2>4
    <2>6. name[1] = "custom-" /\ IsId(name)
      BY <1>3, NamesOfTabs
    <2>7. Selected(name, dom) = dom[k]
      BY <2>4, <2>6 DEF Selected
    <2>8. dom[k] \in ToSet(dom)
      BY <2>5 DEF ToSet
    <2> HIDE DEF k, name
    <2>9. Selected(name, dom) \in ToSet(dom) /\ Name(Selected(name, dom)) = name
      BY <2>5, <2>7, <2>8
    <2> QED BY <1>3, <2>9 DEF name
  <1> QED BY <1>1, <1>2, <1>3

-----------------------------------------------------------------------------
(* The default tab *)

\* A page that is settled has a valid tab.
LEMMA ValidTabExists ==
    ASSUME site \in Site, NEW a, AllSettled(TabsToRegister, a)
    PROVE  \E n \in DOMAIN TabsToRegister : PromiseWith(a, TabsToRegister[n]) = "valid"
  <1>1. \A t \in ToSet(TabsToRegister) : PromiseWith(a, t) # "waiting"
    BY DEF AllSettled, ToSet
  <1>2. CASE site.kind = "root" /\ ~ site.version
    <2>1. <<"integrations">> \in ToSet(TabsToRegister)
      BY <1>2, TabsOfPages
    <2>2. PromiseWith(a, <<"integrations">>) # "waiting"
      BY <1>1, <2>1
    <2>3. ~ IsFetched(<<"integrations">>)
      BY DEF IsFetched, IsExtra
    <2>4. PromiseWith(a, <<"integrations">>) = "valid"
      BY <2>2, <2>3 DEF PromiseWith, IntegrationsPromise
    <2> QED BY <2>1, <2>4 DEF ToSet
  <1>3. CASE ~ (site.kind = "root" /\ ~ site.version)
    <2>1. <<"inputs">> \in ToSet(TabsToRegister)
      BY <1>3, TabsOfPages
    <2>2. PromiseWith(a, <<"inputs">>) = "valid"
      BY DEF PromiseWith, IsFetched, IsExtra
    <2> QED BY <2>1, <2>2 DEF ToSet
  <1> QED BY <1>2, <1>3

\* A tab with an anchor in its content is valid.
LEMMA AnchoredIsValid ==
    ASSUME NEW a, NEW t, HasAnchor(t, a)
    PROVE  PromiseWith(a, t) = "valid"
  <1>1. CASE t = <<"inputs">> \/ t = <<"outputs">>
    BY <1>1 DEF PromiseWith, IsFetched, IsExtra
  <1>2. CASE t = <<"readme">> /\ a[t] = "ok"
    BY <1>2 DEF PromiseWith, FetchedPromise, IsFetched
  <1> QED BY <1>1, <1>2 DEF HasAnchor, HasInputAnchors, HasOutputAnchors, HasReadmeAnchor

\* A tab with an anchor is not an additional one, and no tab of the page has a
\* name that starts as an anchor does.
LEMMA AnchorsAreElsewhere ==
    ASSUME site \in Site
    PROVE  /\ \A a, t : HasAnchor(t, a) => ~ IsExtra(t)
           /\ IsAnchor => \A t \in ToSet(TabsToRegister) : Name(t) # hash
  <1>1. \A a, t : HasAnchor(t, a) => ~ IsExtra(t)
    BY DEF HasAnchor, HasInputAnchors, HasOutputAnchors, HasReadmeAnchor, IsExtra
  <1>2. ASSUME IsAnchor, NEW t \in ToSet(TabsToRegister), Name(t) = hash
        PROVE  FALSE
    <2>1. Name(t)[1] = "terrareg-anchor"
      BY <1>2 DEF IsAnchor
    <2>2. CASE IsExtra(t)
      BY <2>1, <2>2, NamesOfTabs
    <2>3. CASE ~ IsExtra(t)
      <3>1. t \in Plain /\ Name(t) = t
        BY <2>3, NamesOfTabs
      <3> QED BY <2>1, <3>1 DEF Plain, Words
    <2> QED BY <2>2, <2>3
  <1> QED BY <1>1, <1>2

LEMMA LookupFinds ==
    ASSUME NEW S, NEW ts \in Seq(S), NEW name
    PROVE  /\ Lookup(ts, name) # 0 => /\ Lookup(ts, name) \in DOMAIN ts
                                      /\ Name(ts[Lookup(ts, name)]) = name
           /\ (\E n \in DOMAIN ts : Name(ts[n]) = name) => Lookup(ts, name) # 0
  <1> DEFINE I == {i \in 1..Len(ts) : Name(ts[i]) = name}
  <1>1. Lookup(ts, name) = IF I # {} THEN Max(I) ELSE 0
    BY DEF Lookup, SelectLastInSeq
  <1>2. Len(ts) \in Nat /\ DOMAIN ts = 1..Len(ts)
    OBVIOUS
  <1>3. I # {} => Max(I) \in I
    <2>1. I \in SUBSET (0..Len(ts))
      BY <1>2
    <2> HIDE DEF I
    <2> QED BY <1>2, <2>1, MaxIsIn
  <1> QED BY <1>1, <1>2, <1>3

\* The default tab of a settled page is valid, and it is the one that the
\* address names if that is valid.  It is an additional tab only if the address
\* names it, and is missing only if the address is an anchor.
LEMMA DefaultTabIsValid ==
    ASSUME site \in Site, NEW a, AllSettled(TabsToRegister, a)
    PROVE  LET k == DefaultTab(TabsToRegister, a)
               named == Lookup(TabsToRegister, hash)
           IN  /\ k # 0 => /\ k \in DOMAIN TabsToRegister
                           /\ PromiseWith(a, TabsToRegister[k]) = "valid"
                           /\ k = named \/ ~ IsExtra(TabsToRegister[k])
               /\ k = 0 => IsAnchor
               /\ named # 0 /\ PromiseWith(a, TabsToRegister[named]) = "valid" => k = named
  <1> DEFINE ts == TabsToRegister
             named == Lookup(ts, hash)
             A == {i \in 1..Len(ts) : HasAnchor(ts[i], a) \/ Name(ts[i]) \in Refused}
             V == {i \in 1..Len(ts) : PromiseWith(a, ts[i]) = "valid"}
             found == IF A # {} THEN Min(A) ELSE 0
             first == IF V # {} THEN Min(V) ELSE 0
             k == DefaultTab(ts, a)
  <1>1. ts \in Seq(Plain \cup ToSet(Extras))
    BY TabsOfPages
  <1>2. \E n \in DOMAIN ts : PromiseWith(a, ts[n]) = "valid"
    BY ValidTabExists
  <1>3. \A n \in DOMAIN ts :
           HasAnchor(ts[n], a) => PromiseWith(a, ts[n]) = "valid" /\ ~ IsExtra(ts[n])
    BY AnchoredIsValid, AnchorsAreElsewhere
  <1>4. k = IF named # 0 /\ PromiseWith(a, ts[named]) = "valid" THEN named
            ELSE IF IsAnchor /\ found # 0
                 THEN IF Name(ts[found]) \in Refused THEN 0 ELSE found
                 ELSE first
    BY DEF DefaultTab, SearchEnds, SelectInSeq
  <1>5. \A n \in DOMAIN ts :
           IsExtra(ts[n]) => \E m \in DOMAIN ts : m < n /\ PromiseWith(a, ts[m]) = "valid"
    <2>1. PromiseWith(a, <<"inputs">>) = "valid"
      BY DEF PromiseWith, IsFetched, IsExtra
    <2> QED BY <2>1, InputsComeFirst
  <1> HIDE DEF ts
  <1>6. DOMAIN ts = 1..Len(ts) /\ Len(ts) \in Nat
    BY <1>1
  <1>7. V # {} /\ V \in SUBSET Nat /\ A \in SUBSET Nat
    BY <1>2, <1>6
  <1>8. first \in V /\ \A m \in V : first <= m
    <2> HIDE DEF V
    <2> QED BY <1>7, MinIsIn
  <1>9. found # 0 => found \in A
    <2> HIDE DEF A
    <2> QED BY <1>7, MinIsIn
  <1>10. named # 0 => named \in DOMAIN ts
    BY <1>1, LookupFinds
  <1>11. ~ IsExtra(ts[first])
    <2>1. SUFFICES ASSUME IsExtra(ts[first]) PROVE FALSE
      OBVIOUS
    <2>2. first \in DOMAIN ts
      <3> HIDE DEF first
      <3> QED BY <1>6, <1>8
    <2> HIDE DEF first
    <2>3. PICK m \in DOMAIN ts : m < first /\ PromiseWith(a, ts[m]) = "valid"
      BY <1>5, <2>1, <2>2
    <2>4. m \in V
      BY <1>6, <2>3
    <2> HIDE DEF V
    <2> QED BY <1>6, <1>8, <2>2, <2>3, <2>4
  <1> HIDE DEF k, named, found, first
  <1>12. CASE named # 0 /\ PromiseWith(a, ts[named]) = "valid"
    <2>1. k = named
      BY <1>4, <1>12
    <2> QED BY <1>10, <1>12, <2>1 DEF ts, k, named
  <1>13. CASE ~ (named # 0 /\ PromiseWith(a, ts[named]) = "valid") /\ IsAnchor /\ found # 0
    <2>1. k = IF Name(ts[found]) \in Refused THEN 0 ELSE found
      BY <1>4, <1>13
    <2>2. k # 0 => /\ k \in DOMAIN ts /\ HasAnchor(ts[k], a)
      BY <1>6, <1>9, <1>13, <2>1
    <2>3. k # 0 => /\ k \in DOMAIN ts /\ PromiseWith(a, ts[k]) = "valid" /\ ~ IsExtra(ts[k])
      BY <1>3, <2>2
    <2> QED BY <1>13, <2>3 DEF ts, k, named
  <1>14. CASE ~ (named # 0 /\ PromiseWith(a, ts[named]) = "valid") /\ ~ (IsAnchor /\ found # 0)
    <2>1. k = first
      BY <1>4, <1>14
    <2>2. /\ k \in DOMAIN ts /\ PromiseWith(a, ts[k]) = "valid" /\ ~ IsExtra(ts[k]) /\ k # 0
      BY <1>6, <1>8, <1>11, <2>1
    <2> QED BY <1>14, <2>2 DEF ts, k, named
  <1> QED BY <1>12, <1>13, <1>14

-----------------------------------------------------------------------------
(* Answers *)

\* The page itself is the same after a step.
LEMMA SiteKept ==
    ASSUME UNCHANGED site
    PROVE  /\ TabsToRegister' = TabsToRegister /\ Extras' = Extras /\ Main' = Main
           /\ Requests' = Requests
  <1>1. TabsToRegister' = TabsToRegister /\ Extras' = Extras /\ Main' = Main
    BY DEF TabsToRegister, Extras, Main
  <1> QED BY <1>1 DEF Requests

LEMMA AfterStep ==
    ASSUME UNCHANGED site, NEW a, a = answer', NEW ts, ts = tabs'
    PROVE  /\ \A t : Valid(t)' <=> PromiseWith(a, t) = "valid"
           /\ Settled' <=> AllSettled(ts, a)
           /\ \A t : HasOwnName(t)' <=>
                        /\ IsId(Name(t))
                        /\ \A u \in ToSet(ts) : Name(u) = Name(t) => u = t
  <1>1. \A t : Valid(t)' <=> PromiseWith(a, t) = "valid"
    BY DEF Valid, PromiseWith, FetchedPromise, IntegrationsPromise, SettingsPromise, AnalyticsPromise
  <1>2. Settled' <=> AllSettled(ts, a)
    BY DEF Settled, AllSettled, PromiseWith, FetchedPromise, IntegrationsPromise,
           SettingsPromise, AnalyticsPromise
  <1>3. \A t : HasOwnName(t)' <=>
                  /\ IsId(Name(t))
                  /\ \A u \in ToSet(ts) : Name(u) = Name(t) => u = t
    BY DEF HasOwnName, Name, ToSet
  <1> QED BY <1>1, <1>2, <1>3

LEMMA RequestsDiffer ==
    /\ Details # Part /\ Details # Login /\ Details # Config
    /\ Part # Login /\ Part # Config /\ Login # Config
    /\ \A p \in {Details, Part, Login, Config} : ~ IsFetched(p)
    /\ {Details, Part, Login, Config} \subseteq Requests
  BY DEF Details, Part, Login, Config, IsFetched, IsExtra, Requests

LEMMA SentAfterWhat ==
    ASSUME NEW q, NEW r
    PROVE  /\ Registers(q, r) <=> r = "ok" /\ q = Main
           /\ Registers(q, r) => SentAfter(q, r) = {p \in Requests : IsFetched(p)}
           /\ ~ Registers(q, r) /\ r = "ok" /\ q = Config => SentAfter(q, r) = {Details}
           /\ ~ Registers(q, r) /\ r = "ok" /\ q = Details => SentAfter(q, r) = {Part}
           /\ ~ Registers(q, r) /\ ~ (r = "ok" /\ q \in {Config, Details}) => SentAfter(q, r) = {}
  <1>1. Registers(q, r) <=> r = "ok" /\ q = Main
    BY DEF Registers, Main
  <1>2. ~ Registers(q, r) /\ r = "ok" /\ q = Details => site.kind # "root"
    BY <1>1 DEF Main
  <1>3. Registers(q, r) /\ r = "ok" => q # Config
    BY <1>1, RequestsDiffer DEF Main
  <1> DEFINE R == Registers(q, r)
             C == r = "ok" /\ q = Config
             D == r = "ok" /\ q = Details /\ site.kind # "root"
  <1>4. SentAfter(q, r) = CASE R -> {p \in Requests : IsFetched(p)}
                            [] C -> {Details} [] D -> {Part} [] OTHER -> {}
    BY DEF SentAfter
  <1>5. (R => ~C) /\ (R => ~D) /\ (C => ~D)
    <2>1. C => ~R
      BY <1>1, RequestsDiffer DEF Main
    <2>2. D => ~R
      BY <1>1, RequestsDiffer DEF Main
    <2>3. C => ~D
      BY RequestsDiffer
    <2> QED BY <2>1, <2>2, <2>3
  <1>6. ~R /\ r = "ok" /\ q = Details => D
    BY <1>2
  <1>7. ~ (r = "ok" /\ q \in {Config, Details}) => ~C /\ ~D
    OBVIOUS
  <1>8. r = "ok" /\ q = Config => C
    OBVIOUS
  <1> HIDE DEF R, C, D
  <1>9. /\ R => SentAfter(q, r) = {p \in Requests : IsFetched(p)}
        /\ ~R /\ C => SentAfter(q, r) = {Details}
        /\ ~R /\ D => SentAfter(q, r) = {Part}
        /\ ~R /\ ~C /\ ~D => SentAfter(q, r) = {}
    BY <1>4, <1>5
  <1> QED BY <1>1, <1>6, <1>7, <1>8, <1>9 DEF R

\* What is registered stays registered, and only requests for other things
\* are sent after it.
LEMMA AnswersKept ==
    ASSUME SentInOrder, NEW q \in Requests, NEW r, Arrives(q, r), tabs # <<>>
    PROVE  /\ tabs' = tabs /\ ~ Registers(q, r)
           /\ \A p \in Requests \ {q, Details, Part} : answer'[p] = answer[p]
  <1>1. answer[Main] = "ok" /\ answer[q] = "pending"
    BY DEF SentInOrder, Arrives
  <1>2. ~ Registers(q, r)
    BY <1>1, SentAfterWhat
  <1>3. SentAfter(q, r) \subseteq {Details, Part}
    BY <1>2, SentAfterWhat
  <1> QED BY <1>2, <1>3 DEF Arrives

LEMMA FetchedFirst ==
    ASSUME NEW a, NEW t, IsFetched(t)
    PROVE  PromiseWith(a, t) = FetchedPromise(a, t)
  <1>1. t \notin {<<"integrations">>, <<"settings">>, <<"analytics">>}
    BY DEF IsFetched, IsExtra
  <1> HIDE DEF IsFetched
  <1> QED BY <1>1 DEF PromiseWith

LEMMA ValidIsAnswered ==
    ASSUME NEW a, NEW t, FetchedPromise(a, t) = "valid"
    PROVE  a[t] = "ok"
  <1>1. SUFFICES ASSUME a[t] # "ok" PROVE FetchedPromise(a, t) # "valid"
    OBVIOUS
  <1>2. CASE a[t] = "empty"
    BY <1>2 DEF FetchedPromise
  <1>3. CASE a[t] = "failed" /\ t = <<"usage-builder">>
    BY <1>3 DEF FetchedPromise
  <1>4. CASE ~ (a[t] = "empty") /\ ~ (a[t] = "failed" /\ t = <<"usage-builder">>)
    BY <1>1, <1>4 DEF FetchedPromise
  <1> QED BY <1>2, <1>3, <1>4

LEMMA PromiseKept ==
    ASSUME TypeOK, SentInOrder, NEW q \in Requests, NEW r, Arrives(q, r),
           NEW a, a = answer', NEW t \in ToSet(tabs), PromiseWith(answer, t) # "waiting"
    PROVE  PromiseWith(a, t) = PromiseWith(answer, t)
  <1>1. tabs # <<>> /\ tabs = TabsToRegister
    <2>1. ToSet(<<>>) = {}
      BY DEF ToSet
    <2> QED BY <2>1 DEF SentInOrder
  <1>2. /\ \A p \in Requests \ {q, Details, Part} : a[p] = answer[p]
        /\ answer[q] = "pending"
    BY <1>1, AnswersKept DEF Arrives
  <1>3. CASE IsFetched(t)
    <2>1. t \in Requests /\ t \notin {Details, Part}
      BY <1>1, <1>3, RequestsDiffer DEF Requests
    <2>2. t # q
      <3>1. answer[t] = "pending" => FetchedPromise(answer, t) = "waiting"
        BY DEF FetchedPromise
      <3>2. PromiseWith(answer, t) = FetchedPromise(answer, t)
        BY <1>3, FetchedFirst
      <3> QED BY <1>2, <3>1, <3>2
    <2>3. a[t] = answer[t]
      BY <1>2, <2>1, <2>2
    <2> QED BY <1>3, <2>3 DEF PromiseWith, FetchedPromise
  <1>4. CASE ~ IsFetched(t) /\ t \in {<<"integrations">>, <<"settings">>}
    <2>1. answer[Login] = "ok"
      BY <1>4 DEF PromiseWith, IntegrationsPromise, SettingsPromise
    <2>2. a[Login] = answer[Login]
      BY <1>2, <2>1, RequestsDiffer
    <2> QED BY <1>4, <2>2 DEF PromiseWith, IntegrationsPromise, SettingsPromise
  <1>5. CASE ~ IsFetched(t) /\ t \notin {<<"integrations">>, <<"settings">>}
    BY <1>5 DEF PromiseWith
  <1> QED BY <1>3, <1>4, <1>5

LEMMA OrderKept ==
    ASSUME TypeOK, SentInOrder, NEW q \in Requests, NEW r, Arrives(q, r)
    PROVE  SentInOrder'
  <1> DEFINE a == answer'
  <1>1. UNCHANGED site /\ answer[q] = "pending"
    BY DEF Arrives
  <1>2. \A p \in Requests : a[p] = IF p = q THEN r
                                   ELSE IF p \in SentAfter(q, r) THEN "pending" ELSE answer[p]
    BY DEF Arrives
  <1>3. tabs' = IF Registers(q, r) THEN TabsToRegister ELSE tabs
    BY DEF Arrives
  <1> HIDE DEF a
  <1>4. Main \in {Details, Part} /\ Main \in Requests
    BY RequestsDiffer DEF Main
  <1>5. CASE Registers(q, r)
    <2>1. q = Main /\ r = "ok" /\ \A p \in SentAfter(q, r) : IsFetched(p)
      BY <1>5, SentAfterWhat
    <2>2. \A p \in {Details, Part, Login, Config} : p \in Requests /\ p \notin SentAfter(q, r)
      BY <2>1, RequestsDiffer
    <2>3. a[Main] = "ok" /\ tabs' = TabsToRegister /\ TabsToRegister # <<>>
      BY <1>2, <1>3, <1>4, <1>5, <2>1, TabsOfPages DEF TypeOK
    <2>4. a[Config] = answer[Config] /\ answer[Config] = "ok"
      BY <1>1, <1>2, <1>4, <2>1, <2>2, RequestsDiffer DEF SentInOrder
    <2>5. a[Details] # "ok" => a[Part] = "unsent"
      BY <1>1, <1>2, <1>4, <2>1, <2>2, RequestsDiffer DEF SentInOrder
    <2> QED BY <1>1, <2>3, <2>4, <2>5, SiteKept DEF SentInOrder, a
  <1>6. CASE ~ Registers(q, r)
    <2>1. /\ q = Config /\ r = "ok" => SentAfter(q, r) = {Details}
          /\ q = Details /\ r = "ok" => SentAfter(q, r) = {Part}
          /\ ~ (r = "ok" /\ q \in {Config, Details}) => SentAfter(q, r) = {}
          /\ ~ (r = "ok" /\ q = Main)
      BY <1>6, SentAfterWhat
    <2>2. a[Main] = "ok" <=> answer[Main] = "ok"
      BY <1>1, <1>2, <1>4, <2>1, RequestsDiffer DEF SentInOrder
    <2>3. a[Config] # "ok" => a[Details] = "unsent"
      BY <1>1, <1>2, <2>1, RequestsDiffer DEF SentInOrder
    <2>4. a[Details] # "ok" => a[Part] = "unsent"
      BY <1>1, <1>2, <2>1, RequestsDiffer DEF SentInOrder
    <2>5. tabs = <<>> => \A p \in Requests : IsFetched(p) => a[p] = "unsent"
      BY <1>1, <1>2, <2>1, RequestsDiffer DEF SentInOrder
    <2> QED BY <1>1, <1>3, <1>6, <2>2, <2>3, <2>4, <2>5, SiteKept DEF SentInOrder, a
  <1> QED BY <1>5, <1>6

-----------------------------------------------------------------------------
(* Selections *)

\* What the additional tabs in the DOM are when the answers are a.
Inserted(dom, a) ==
    /\ dom \in Seq(ToSet(TabsToRegister))
    /\ \A u \in ToSet(dom) : u \in ToSet(Extras) /\ IsExtra(u) /\ u \in Requests /\ a[u] = "ok"
    /\ \A u \in ToSet(TabsToRegister) :
          IsExtra(u) /\ PromiseWith(a, u) = "valid" => u \in ToSet(dom)

\* The link of a valid tab shows a valid tab of that name, or nothing if its
\* name is no id.
LEMMA SelectProper ==
    ASSUME site \in Site, NEW t \in ToSet(TabsToRegister), NEW a, NEW dom, Inserted(dom, a),
           PromiseWith(a, t) = "valid", NEW s, s = Selected(Name(t), dom)
    PROVE  \/ s = Blank /\ t \in ToSet(Extras) /\ ~ IsId(Name(t))
           \/ /\ s \in ToSet(TabsToRegister) /\ s # Blank /\ s # None
              /\ PromiseWith(a, s) = "valid" /\ Name(s) = Name(t)
  <1>1. dom \in Seq(ToSet(TabsToRegister)) /\ (IsExtra(t) => t \in ToSet(dom))
    BY DEF Inserted
  <1>2. /\ ~ IsExtra(t) => s = t
        /\ IsExtra(t) /\ ~ IsId(Name(t)) => s = Blank
        /\ IsExtra(t) /\ IsId(Name(t)) => s \in ToSet(dom) /\ Name(s) = Name(t)
    BY <1>1, SelectedShows
  <1>3. CASE ~ IsExtra(t)
    BY <1>2, <1>3, NamesOfTabs
  <1>4. CASE IsExtra(t) /\ ~ IsId(Name(t))
    BY <1>2, <1>4, NamesOfTabs
  <1>5. CASE IsExtra(t) /\ IsId(Name(t))
    <2>1. s \in ToSet(dom) /\ Name(s) = Name(t)
      BY <1>2, <1>5
    <2>2. s \in ToSet(TabsToRegister)
      BY <1>1, <2>1 DEF ToSet
    <2>3. IsExtra(s) /\ a[s] = "ok"
      BY <2>1 DEF Inserted
    <2>4. PromiseWith(a, s) = "valid"
      <3>1. IsFetched(s)
        BY <2>3 DEF IsFetched
      <3>2. FetchedPromise(a, s) = "valid"
        BY <2>3 DEF FetchedPromise
      <3> QED BY <3>1, <3>2, FetchedFirst
    <2> QED BY <2>1, <2>2, <2>4, NamesOfTabs
  <1> QED BY <1>3, <1>4, <1>5

\* No other tab is the one that the address names.
Names(u, ts) == IsId(Name(u)) /\ \A v \in ToSet(ts) : Name(v) = Name(u) => v = u

\* The tab s has content, or there is none because h is the address of a name
\* that is no id.
HasContent(s, ts, a, h) ==
    /\ s = Blank => \E t \in ToSet(Extras) : ~ IsId(Name(t)) /\ h \in {Name(t), Encoded(Name(t))}
    /\ s # Blank => s \in ToSet(ts) /\ PromiseWith(a, s) = "valid"

\* If the address h names a valid tab, that is the tab s.
ShowsNamed(s, ts, a, h) ==
    \A u \in ToSet(ts) : PromiseWith(a, u) = "valid" /\ Names(u, ts) /\ h = Name(u) => s = u

LEMMA DefaultShows ==
    ASSUME site \in Site, NEW a, NEW ts, ts = TabsToRegister, AllSettled(ts, a),
           DefaultTab(ts, a) # 0,
           NEW dom, Inserted(dom, a),
           NEW s, s = Selected(Name(ts[DefaultTab(ts, a)]), dom)
    PROVE  HasContent(s, ts, a, hash) /\ ShowsNamed(s, ts, a, hash)
  <1> DEFINE k == DefaultTab(ts, a)
             named == Lookup(ts, hash)
  <1>1. /\ k \in DOMAIN ts
        /\ PromiseWith(a, ts[k]) = "valid"
        /\ k = named \/ ~ IsExtra(ts[k])
        /\ k # 0
        /\ named # 0 /\ PromiseWith(a, ts[named]) = "valid" => k = named
    BY DefaultTabIsValid
  <1>2. PICK S : ts \in Seq(S)
    BY TabsOfPages
  <1>3. /\ named # 0 => named \in DOMAIN ts /\ Name(ts[named]) = hash
        /\ (\E n \in DOMAIN ts : Name(ts[n]) = hash) => named # 0
    BY <1>2, LookupFinds
  <1> HIDE DEF k, named
  <1>4. ts[k] \in ToSet(ts)
    BY <1>1 DEF ToSet
  <1> DEFINE t == ts[k]
  <1>5. \/ s = Blank /\ t \in ToSet(Extras) /\ ~ IsId(Name(t))
        \/ s \in ToSet(ts) /\ s # Blank /\ PromiseWith(a, s) = "valid" /\ Name(s) = Name(t)
    <2>1. t \in ToSet(TabsToRegister) /\ PromiseWith(a, t) = "valid" /\ s = Selected(Name(t), dom)
      BY <1>1, <1>4 DEF k
    <2> HIDE DEF t
    <2> QED BY <2>1, SelectProper
  <1>7. HasContent(s, ts, a, hash)
    <2>1. t \in ToSet(Extras) => Name(t) = hash
      <3>1. t \in ToSet(Extras) => IsExtra(t)
        BY ExtrasAre DEF IsExtra
      <3> QED BY <1>1, <1>3, <3>1
    <2> HIDE DEF t
    <2> QED BY <1>5, <2>1 DEF HasContent
  <1>6. ASSUME NEW u \in ToSet(ts), PromiseWith(a, u) = "valid", Names(u, ts), hash = Name(u)
        PROVE  s = u
    <2>1. \E n \in DOMAIN ts : ts[n] = u
      BY <1>6 DEF ToSet
    <2>2. named \in DOMAIN ts /\ Name(ts[named]) = Name(u) /\ named # 0
      BY <1>3, <1>6, <2>1
    <2>3. ts[named] \in ToSet(ts)
      BY <2>2 DEF ToSet
    <2>4. ts[named] = u
      BY <1>6, <2>2, <2>3 DEF Names
    <2>5. t = u
      BY <1>1, <1>6, <2>2, <2>4
    <2> HIDE DEF t
    <2> QED BY <1>5, <1>6, <2>5 DEF Names
  <1> QED BY <1>6, <1>7 DEF ShowsNamed

-----------------------------------------------------------------------------
(* Steps *)

LEMMA InvInserts ==
    ASSUME PageInv, tabs # <<>>
    PROVE  Inserted(inserted, answer) /\ tabs = TabsToRegister /\ site \in Site
  <1>1. tabs = TabsToRegister /\ site \in Site
    BY DEF PageInv, TypeOK
  <1>2. ASSUME NEW u \in ToSet(inserted)
        PROVE  u \in ToSet(Extras) /\ IsExtra(u) /\ u \in Requests /\ answer[u] = "ok"
    <2>1. u \in ToSet(Extras) /\ u \in Requests /\ answer[u] = "ok"
      BY <1>2 DEF PageInv, TypeOK
    <2>2. IsExtra(u)
      BY <1>1, <2>1, ExtrasAre DEF IsExtra
    <2> QED BY <2>1, <2>2
  <1> QED BY <1>1, <1>2 DEF PageInv, Inserted, ValidExtrasAreInserted, Valid

\* An additional tab with an answer is in the DOM, and only such a tab is.
LEMMA ArrivesInserts ==
    ASSUME PageInv, NEW q \in Requests, NEW r, Arrives(q, r), NEW a, a = answer',
           NEW dom, dom = inserted'
    PROVE  /\ dom \in Seq(ToSet(TabsToRegister))
           /\ \A u \in ToSet(dom) : u \in ToSet(Extras) /\ IsExtra(u) /\ u \in Requests /\ a[u] = "ok"
           /\ tabs' # <<>> => Inserted(dom, a)
  <1>1. /\ site \in Site /\ inserted \in Seq(ToSet(TabsToRegister)) /\ answer[q] = "pending"
        /\ SentInOrder /\ ValidExtrasAreInserted
        /\ \A u \in ToSet(inserted) : u \in ToSet(Extras) /\ u \in Requests /\ answer[u] = "ok"
    BY DEF PageInv, TypeOK, Arrives
  <1>2. \A p \in Requests : a[p] = IF p = q THEN r
                                   ELSE IF p \in SentAfter(q, r) THEN "pending" ELSE answer[p]
    BY DEF Arrives
  <1>3. /\ IsExtra(q) /\ r = "ok" => dom = <<q>> \o inserted
        /\ ~ (IsExtra(q) /\ r = "ok") => dom = inserted
    BY DEF Arrives
  <1>4. IsExtra(q) => q \in ToSet(TabsToRegister) /\ q \in ToSet(Extras)
    <2>1. IsExtra(q) => q \in ToSet(TabsToRegister)
      BY RequestsDiffer DEF Requests, IsFetched
    <2> QED BY <1>1, <2>1, NamesOfTabs
  <1>5. /\ dom \in Seq(ToSet(TabsToRegister))
        /\ ToSet(inserted) \subseteq ToSet(dom)
        /\ IsExtra(q) /\ r = "ok" => q \in ToSet(dom)
        /\ \A u \in ToSet(dom) : u \in ToSet(inserted) \/ (u = q /\ IsExtra(q) /\ r = "ok")
    <2>1. CASE IsExtra(q) /\ r = "ok"
      <3> DEFINE T == ToSet(TabsToRegister)
                 one == <<q>>
      <3>1. one \in Seq(T) /\ ToSet(one) = {q}
        BY <1>4, <2>1 DEF ToSet
      <3>2. inserted \in Seq(T) /\ dom = one \o inserted
        BY <1>1, <1>3, <2>1
      <3> HIDE DEF T, one
      <3>3. dom \in Seq(T) /\ ToSet(dom) = {q} \cup ToSet(inserted)
        BY <3>1, <3>2, ElementsOfConcat
      <3> QED BY <2>1, <3>3 DEF T
    <2>2. CASE ~ (IsExtra(q) /\ r = "ok")
      BY <1>1, <1>3, <2>2
    <2> QED BY <2>1, <2>2
  <1>6. ASSUME NEW u \in Requests, IsFetched(u), answer[u] = "ok"
        PROVE  a[u] = "ok" /\ tabs # <<>>
    <2>1. tabs # <<>> /\ u \notin {Details, Part}
      BY <1>1, <1>6, RequestsDiffer DEF SentInOrder
    <2>2. a[u] = answer[u]
      BY <1>1, <1>6, <2>1, AnswersKept
    <2> QED BY <1>6, <2>1, <2>2
  <1>7. ASSUME NEW u \in ToSet(dom)
        PROVE  u \in ToSet(Extras) /\ IsExtra(u) /\ u \in Requests /\ a[u] = "ok"
    <2>1. CASE u = q /\ IsExtra(q) /\ r = "ok"
      BY <1>2, <1>4, <2>1
    <2>2. CASE u \in ToSet(inserted)
      <3>1. u \in ToSet(Extras) /\ u \in Requests /\ answer[u] = "ok" /\ IsExtra(u)
        BY <1>1, <2>2, ExtrasAre DEF IsExtra
      <3> QED BY <1>6, <3>1 DEF IsFetched
    <2> QED BY <1>5, <2>1, <2>2
  <1>8. ASSUME NEW u \in ToSet(TabsToRegister), IsExtra(u), PromiseWith(a, u) = "valid"
        PROVE  u \in ToSet(dom)
    <2>1. IsFetched(u) /\ u \in Requests
      BY <1>8 DEF IsFetched, Requests
    <2>2. a[u] = "ok"
      BY <1>8, <2>1, FetchedFirst, ValidIsAnswered
    <2>3. CASE u = q
      BY <1>2, <1>5, <1>8, <2>1, <2>2, <2>3
    <2>4. CASE u # q
      <3>1. answer[u] = "ok"
        BY <1>2, <2>1, <2>2, <2>4
      <3>2. tabs = TabsToRegister
        BY <1>6, <2>1, <3>1 DEF PageInv, TypeOK
      <3>3. Valid(u)
        <4>1. FetchedPromise(answer, u) = "valid"
          BY <3>1 DEF FetchedPromise
        <4> QED BY <2>1, <4>1, FetchedFirst DEF Valid
      <3> QED BY <1>1, <1>5, <1>8, <3>2, <3>3 DEF ValidExtrasAreInserted
    <2> QED BY <2>3, <2>4
  <1> QED BY <1>5, <1>7, <1>8 DEF Inserted

LEMMA NamesKept ==
    ASSUME UNCHANGED site, NEW ts, ts = tabs'
    PROVE  /\ \A t : (Name(t) = Name(t)') /\ (IsExtra(t)' <=> IsExtra(t))
           /\ \A t : HasOwnName(t)' <=> Names(t, ts)
           /\ \A t : HasOwnName(t) <=> Names(t, tabs)
  <1>1. \A t : (Name(t) = Name(t)') /\ (IsExtra(t)' <=> IsExtra(t))
    BY DEF Name, IsExtra
  <1>2. \A t : HasOwnName(t)' <=> Names(t, ts)
    BY DEF HasOwnName, Names, Name, ToSet
  <1> QED BY <1>1, <1>2 DEF HasOwnName, Names

LEMMA EmptyHasNone == ToSet(<<>>) = {}
  BY DEF ToSet

LEMMA SetsKept ==
    ASSUME UNCHANGED site, NEW ts, ts = tabs', NEW dom, dom = inserted'
    PROVE  /\ ToSet(TabsToRegister)' = ToSet(TabsToRegister)
           /\ ToSet(Extras)' = ToSet(Extras)
           /\ ToSet(tabs)' = ToSet(ts)
           /\ ToSet(inserted)' = ToSet(dom)
  BY SiteKept DEF ToSet

\* The invariant, in terms of the values of the variables.
Good(a, ts, dom, s, h, c, v) ==
    /\ ts \in {<<>>, TabsToRegister}
    /\ a \in [Requests -> {"unsent", "pending", "ok", "empty", "moved", "failed"}]
    /\ v \in {"table", "expanded"}
    /\ dom \in Seq(ToSet(TabsToRegister))
    /\ \A u \in ToSet(dom) : u \in ToSet(Extras) /\ u \in Requests /\ a[u] = "ok"
    /\ ts # <<>> => Inserted(dom, a)
    /\ c # None => c \in ToSet(ts) /\ PromiseWith(a, c) = "valid"
    /\ s # None => HasContent(s, ts, a, h)
    /\ \A u \in ToSet(ts) :
          (AllSettled(ts, a) \/ c = u) /\ PromiseWith(a, u) = "valid"
             /\ Names(u, ts) /\ h = Name(u) => s = u

LEMMA InvAfter ==
    ASSUME UNCHANGED site, site \in Site, SentInOrder',
           NEW a, a = answer', NEW ts, ts = tabs', NEW dom, dom = inserted',
           NEW s, s = shown', NEW h, h = hash', NEW c, c = chosen', NEW v, v = view',
           Good(a, ts, dom, s, h, c, v)
    PROVE  PageInv'
  <1>1. /\ ts \in {<<>>, TabsToRegister} /\ v \in {"table", "expanded"}
        /\ a \in [Requests -> {"unsent", "pending", "ok", "empty", "moved", "failed"}]
        /\ dom \in Seq(ToSet(TabsToRegister))
        /\ \A u \in ToSet(dom) : u \in ToSet(Extras) /\ u \in Requests /\ a[u] = "ok"
        /\ ts # <<>> => Inserted(dom, a)
        /\ c # None => c \in ToSet(ts) /\ PromiseWith(a, c) = "valid"
    BY DEF Good
  <1>2. /\ s \notin {None, Blank} => s \in ToSet(ts) /\ PromiseWith(a, s) = "valid"
        /\ s = Blank => \E t \in ToSet(Extras) :
                           ~ IsId(Name(t)) /\ h \in {Name(t), Encoded(Name(t))}
    <2>1. s # None => HasContent(s, ts, a, h)
      BY DEF Good
    <2>2. None # Blank
      BY DEF None, Blank
    <2> QED BY <2>1, <2>2 DEF HasContent
  <1>3. \A u \in ToSet(ts) :
           (AllSettled(ts, a) \/ c = u) /\ PromiseWith(a, u) = "valid"
              /\ Names(u, ts) /\ h = Name(u) => s = u
    BY DEF Good
  <1>4. TabsToRegister' = TabsToRegister /\ Requests' = Requests
    BY SiteKept
  <1>5. /\ ToSet(TabsToRegister)' = ToSet(TabsToRegister) /\ ToSet(Extras)' = ToSet(Extras)
        /\ ToSet(tabs)' = ToSet(ts) /\ ToSet(inserted)' = ToSet(dom)
    BY SetsKept
  <1>6. \A t : Valid(t)' <=> PromiseWith(a, t) = "valid"
    BY AfterStep
  <1>7. Settled' <=> AllSettled(ts, a)
    BY AfterStep
  <1>8. TypeOK'
    <2>1. ToSet(dom) \subseteq {t \in ToSet(Extras) \cap Requests : a[t] = "ok"}
      BY <1>1
    <2>2. (ToSet(inserted) \subseteq {t \in ToSet(Extras) \cap Requests : answer[t] = "ok"})'
      BY <1>4, <1>5, <2>1
    <2>3. s \in {None, Blank} \cup ToSet(ts) /\ c \in {None} \cup ToSet(ts)
      BY <1>1, <1>2
    <2>4. (shown \in {None, Blank} \cup ToSet(tabs))' /\ (chosen \in {None} \cup ToSet(tabs))'
      BY <1>5, <2>3 DEF None, Blank
    <2> QED BY <1>1, <1>4, <2>2, <2>4 DEF TypeOK
  <1>9. ASSUME NEW t \in ToSet(ts), IsExtra(t), PromiseWith(a, t) = "valid"
        PROVE  t \in ToSet(dom)
    <2>1. ts = TabsToRegister /\ ts # <<>>
      BY <1>1, <1>9, EmptyHasNone
    <2> QED BY <1>1, <1>9, <2>1 DEF Inserted
  <1>10. ValidExtrasAreInserted'
    <2>1. \A t : IsExtra(t)' <=> IsExtra(t)
      BY NamesKept
    <2> QED BY <1>5, <1>6, <1>9, <2>1 DEF ValidExtrasAreInserted
  <1>11. AddressNamesShownTab'
    <2>1. \A t : (Name(t) = Name(t)') /\ (HasOwnName(t)' <=> Names(t, ts))
      BY NamesKept
    <2> QED BY <1>5, <1>6, <1>7, <1>3, <2>1 DEF AddressNamesShownTab
  <1>12. ShownTabHasContent'
    <2>1. \A t : /\ Name(t)' = Name(t) /\ (IsId(Name(t))' <=> IsId(Name(t)))
                 /\ Encoded(Name(t))' = Encoded(Name(t))
      BY NamesKept DEF IsId, Encoded, Name
    <2>2. (shown \notin {None, Blank} => Valid(shown))'
      <3>1. s \notin {None, Blank} => PromiseWith(a, s) = "valid"
        BY <1>2
      <3>2. Valid(shown)' <=> PromiseWith(a, s) = "valid"
        BY DEF Valid, PromiseWith, FetchedPromise, IntegrationsPromise, SettingsPromise, AnalyticsPromise
      <3> QED BY <3>1, <3>2 DEF None, Blank
    <2>3. (shown = Blank => AddressIsNoId)'
      BY <1>5, <1>2, <2>1 DEF Blank, AddressIsNoId
    <2> QED BY <2>2, <2>3 DEF ShownTabHasContent
  <1>13. (inserted \in Seq(ToSet(TabsToRegister)))'
    <2>1. dom \in Seq(ToSet(TabsToRegister))
      BY <1>1
    <2> QED BY <1>5, <2>1
  <1>14. (chosen # None => Valid(chosen))'
    <2>1. Valid(chosen)' <=> PromiseWith(a, c) = "valid"
      BY DEF Valid, PromiseWith, FetchedPromise, IntegrationsPromise, SettingsPromise, AnalyticsPromise
    <2> QED BY <1>1, <2>1 DEF None
  <1> QED BY <1>8, <1>10, <1>11, <1>12, <1>13, <1>14 DEF PageInv

LEMMA PageInit ==
    ASSUME Init
    PROVE  PageInv
  <1>1. site \in Site /\ tabs = <<>> /\ inserted = <<>> /\ shown = None /\ chosen = None
    BY DEF Init
  <1>2. /\ \A p \in Requests : answer[p] = IF p \in {Config, Login} THEN "pending" ELSE "unsent"
        /\ answer \in [Requests -> {"unsent", "pending", "ok", "empty", "moved", "failed"}]
    BY DEF Init
  <1>3. Main \in {Details, Part}
    BY DEF Main
  <1>4. SentInOrder
    BY <1>1, <1>2, <1>3, RequestsDiffer DEF SentInOrder
  <1>5. TypeOK
    <2>1. view \in {"table", "expanded"}
      BY SiteAssumption DEF Init
    <2> QED BY <1>1, <1>2, <2>1, EmptyHasNone DEF TypeOK
  <1>6. ValidExtrasAreInserted /\ AddressNamesShownTab
    BY <1>1, EmptyHasNone DEF ValidExtrasAreInserted, AddressNamesShownTab
  <1>7. ShownTabHasContent
    BY <1>1 DEF ShownTabHasContent, None, Blank
  <1> QED BY <1>1, <1>4, <1>5, <1>6, <1>7 DEF PageInv

\* An answer.
LEMMA ArrivesKeeps ==
    ASSUME PageInv, NEW q \in Requests, NEW r \in {"ok", "empty", "moved", "failed"}, Arrives(q, r)
    PROVE  PageInv'
  <1>1. PICK a, ts, dom, s : a = answer' /\ ts = tabs' /\ dom = inserted' /\ s = shown'
    OBVIOUS
  <1>2. PICK h, c, v : h = hash' /\ c = chosen' /\ v = view'
    OBVIOUS
  <1>3. UNCHANGED <<site, view, hash, chosen>> /\ site \in Site /\ TypeOK /\ SentInOrder
    BY DEF Arrives, PageInv, TypeOK
  <1>4. SentInOrder'
    BY <1>3, OrderKept
  <1>5. a \in [Requests -> {"unsent", "pending", "ok", "empty", "moved", "failed"}]
    BY <1>1, <1>3 DEF Arrives, TypeOK
  <1>6. ts \in {<<>>, TabsToRegister} /\ (tabs # <<>> => ts = tabs)
    BY <1>1, <1>3, AnswersKept DEF Arrives, TypeOK
  <1>7. /\ dom \in Seq(ToSet(TabsToRegister))
        /\ \A u \in ToSet(dom) : u \in ToSet(Extras) /\ IsExtra(u) /\ u \in Requests /\ a[u] = "ok"
        /\ ts # <<>> => Inserted(dom, a)
    BY <1>1, ArrivesInserts
  \* What was settled for a tab stays so.
  <1>8. ASSUME NEW t \in ToSet(tabs), PromiseWith(answer, t) # "waiting"
        PROVE  t \in ToSet(ts) /\ PromiseWith(a, t) = PromiseWith(answer, t)
    <2>1. tabs # <<>>
      BY <1>8, EmptyHasNone
    <2> QED BY <1>1, <1>3, <1>6, <1>8, <2>1, PromiseKept
  <1>9. chosen # None => chosen \in ToSet(ts) /\ PromiseWith(a, chosen) = "valid"
    BY <1>3, <1>8 DEF PageInv, TypeOK, Valid
  <1> DEFINE chooses == AllSettled(ts, a) /\ ~Settled /\ DefaultTab(ts, a) # 0
  <1>10. /\ chooses => s = Selected(Name(ts[DefaultTab(ts, a)]), dom)
         /\ ~ chooses => s = shown
    <2>1. DefaultTab(tabs', answer') = DefaultTab(ts, a)
      BY <1>1
    <2> QED BY <1>1, <2>1 DEF Arrives
  <1>11. CASE chooses
    <2>1. ts # <<>> /\ ts = TabsToRegister
      BY <1>6, <1>11 DEF AllSettled
    <2>2. Inserted(dom, a) /\ s = Selected(Name(ts[DefaultTab(ts, a)]), dom)
      BY <1>7, <1>10, <1>11, <2>1
    <2>3. HasContent(s, ts, a, hash) /\ ShowsNamed(s, ts, a, hash)
      BY <1>3, <1>11, <2>1, <2>2, DefaultShows
    <2>4. Good(a, ts, dom, s, h, c, v)
      BY <1>2, <1>3, <1>5, <1>6, <1>7, <1>9, <2>3 DEF Good, ShowsNamed, TypeOK
    <2> QED BY <1>2, <1>1, <1>3, <1>4, <2>4, InvAfter
  <1>12. CASE ~ chooses
    <2>1. s = shown
      BY <1>10, <1>12
    <2>2. s \notin {None, Blank} => s \in ToSet(ts) /\ PromiseWith(a, s) = "valid"
      BY <1>8, <2>1 DEF PageInv, TypeOK, ShownTabHasContent, Valid
    <2>3. s = Blank => \E t \in ToSet(Extras) :
                          ~ IsId(Name(t)) /\ hash \in {Name(t), Encoded(Name(t))}
      BY <2>1 DEF PageInv, ShownTabHasContent, AddressIsNoId
    <2>4. ASSUME NEW u \in ToSet(ts), AllSettled(ts, a) \/ chosen = u, PromiseWith(a, u) = "valid",
                 Names(u, ts), hash = Name(u)
          PROVE  s = u
      <3>0. AllSettled(ts, a) => Settled
        \* The search for an anchor ended with an error, and no tab has that name.
        <4> SUFFICES ASSUME AllSettled(ts, a), ~ Settled PROVE FALSE
          OBVIOUS
        <4>1. ts = TabsToRegister /\ DefaultTab(ts, a) = 0
          BY <1>6, <1>12 DEF AllSettled
        <4>2. IsAnchor
          BY <1>3, <4>1, DefaultTabIsValid
        <4> QED BY <1>3, <2>4, <4>1, <4>2, AnchorsAreElsewhere
      <3>1. tabs # <<>> /\ tabs = ts
        <4>1. CASE AllSettled(ts, a)
          BY <1>6, <3>0, <4>1 DEF Settled, AllSettled
        <4>2. CASE chosen = u
          <5>1. u \in ToSet(TabsToRegister)
            BY <1>6, <2>4, EmptyHasNone
          <5>2. chosen # None
            BY <1>3, <4>2, <5>1, NamesOfTabs
          <5>3. chosen \in ToSet(tabs)
            BY <1>3, <5>2 DEF TypeOK
          <5> QED BY <1>6, <5>3, EmptyHasNone
        <4> QED BY <2>4, <4>1, <4>2
      <3>2. PromiseWith(answer, u) # "waiting"
        <4>1. CASE AllSettled(ts, a)
          <5>1. Settled /\ u \in ToSet(tabs)
            BY <2>4, <3>0, <3>1, <4>1
          <5> QED BY <5>1 DEF Settled, AllSettled, ToSet
        <4>2. CASE chosen = u
          <5>1. u \in ToSet(TabsToRegister)
            BY <1>6, <2>4, EmptyHasNone
          <5>2. chosen # None
            BY <1>3, <4>2, <5>1, NamesOfTabs
          <5> QED BY <4>2, <5>2 DEF PageInv, Valid
        <4> QED BY <2>4, <4>1, <4>2
      <3>3. Valid(u)
        BY <1>8, <2>4, <3>1, <3>2 DEF Valid
      <3>4. Settled \/ chosen = u
        BY <2>4, <3>0
      <3>5. HasOwnName(u)
        BY <2>4, <3>1 DEF HasOwnName, Names
      <3> QED BY <2>1, <2>4, <3>1, <3>3, <3>4, <3>5 DEF PageInv, AddressNamesShownTab
    <2>5. s # None => HasContent(s, ts, a, hash)
      BY <2>2, <2>3 DEF HasContent
    <2>6. Good(a, ts, dom, s, h, c, v)
      BY <1>2, <1>3, <1>5, <1>6, <1>7, <1>9, <2>4, <2>5 DEF Good, TypeOK
    <2> QED BY <1>2, <1>1, <1>3, <1>4, <2>6, InvAfter
  <1> QED BY <1>11, <1>12

\* A click on the link of a tab.
LEMMA ClickTabKeeps ==
    ASSUME PageInv, NEW t \in ToSet(tabs), ClickTab(t)
    PROVE  PageInv'
  <1>1. PICK s, h : s = shown' /\ h = hash'
    OBVIOUS
  <1>2. UNCHANGED <<site, tabs, answer, inserted, view>> /\ chosen' = t
    BY DEF ClickTab
  <1>3. h = Encoded(Name(t)) /\ s = Selected(Name(t), inserted) /\ PromiseWith(answer, t) = "valid"
    BY <1>1 DEF ClickTab, HasLink, Valid
  <1>4. tabs # <<>> /\ tabs = TabsToRegister /\ site \in Site /\ Inserted(inserted, answer)
    BY EmptyHasNone, InvInserts
  <1>5. \/ s = Blank /\ t \in ToSet(Extras) /\ ~ IsId(Name(t))
        \/ s \in ToSet(tabs) /\ s # Blank /\ PromiseWith(answer, s) = "valid" /\ Name(s) = Name(t)
    BY <1>3, <1>4, SelectProper
  <1>6. ASSUME NEW u \in ToSet(tabs), Names(u, tabs), h = Name(u)
        PROVE  s = u
    <2>1. Name(t) \in Seq(Chars) /\ Name(u) \in Seq(Chars)
      BY <1>4, <1>6, NamesOfTabs
    <2>2. Name(t) = Name(u)
      BY <1>3, <1>6, <2>1, EncodedIsName
    <2> QED BY <1>5, <1>6, <2>2 DEF Names
  <1>7. SentInOrder'
    BY <1>2, SiteKept DEF PageInv, SentInOrder, Requests, IsFetched, IsExtra, Details, Config, Part
  <1>8. /\ answer \in [Requests -> {"unsent", "pending", "ok", "empty", "moved", "failed"}]
        /\ view \in {"table", "expanded"}
    BY DEF PageInv, TypeOK
  <1>9. /\ inserted \in Seq(ToSet(TabsToRegister))
        /\ \A u \in ToSet(inserted) : u \in ToSet(Extras) /\ u \in Requests /\ answer[u] = "ok"
    BY <1>4 DEF Inserted
  <1>10. UNCHANGED <<answer, tabs, inserted, view, site>>
    BY <1>2
  <1>11. HasContent(s, tabs, answer, h)
    BY <1>3, <1>5 DEF HasContent
  <1>12. Good(answer, tabs, inserted, s, h, t, view)
    BY <1>3, <1>4, <1>6, <1>8, <1>9, <1>11 DEF Good
  <1>13. PICK a, ts, dom, v : a = answer' /\ ts = tabs' /\ dom = inserted' /\ v = view'
    OBVIOUS
  <1>14. Good(a, ts, dom, s, h, t, v)
    BY <1>10, <1>12, <1>13
  <1> QED BY <1>1, <1>2, <1>4, <1>7, <1>13, <1>14, InvAfter

\* What the other steps leave alone.
LEMMA OthersKeep ==
    ASSUME PageInv, UNCHANGED <<site, tabs, answer, inserted, shown, chosen>>,
           view' \in {"table", "expanded"},
           hash' = hash \/ (hash' \in Anchors /\ shown # Blank)
    PROVE  PageInv'
  <1>1. PICK h : h = hash'
    OBVIOUS
  <1>2. SentInOrder'
    BY SiteKept DEF PageInv, SentInOrder, Requests, IsFetched, IsExtra, Details, Config, Part
  <1>3. /\ answer \in [Requests -> {"unsent", "pending", "ok", "empty", "moved", "failed"}]
        /\ site \in Site /\ tabs \in {<<>>, TabsToRegister}
        /\ inserted \in Seq(ToSet(TabsToRegister))
        /\ \A u \in ToSet(inserted) : u \in ToSet(Extras) /\ u \in Requests /\ answer[u] = "ok"
        /\ chosen # None => chosen \in ToSet(tabs) /\ PromiseWith(answer, chosen) = "valid"
        /\ shown \notin {None, Blank} => shown \in ToSet(tabs) /\ PromiseWith(answer, shown) = "valid"
        /\ shown = Blank => \E t \in ToSet(Extras) :
                               ~ IsId(Name(t)) /\ hash \in {Name(t), Encoded(Name(t))}
    BY DEF PageInv, TypeOK, ShownTabHasContent, AddressIsNoId, Valid
  <1>4. tabs # <<>> => Inserted(inserted, answer)
    BY InvInserts
  <1>5. ASSUME NEW u \in ToSet(tabs), AllSettled(tabs, answer) \/ chosen = u,
               PromiseWith(answer, u) = "valid", Names(u, tabs), h = Name(u)
        PROVE  shown = u
    <2>1. h \notin Anchors
      <3>1. u \in ToSet(TabsToRegister)
        BY <1>3, <1>5, EmptyHasNone
      <3>2. /\ ~ IsExtra(u) => Name(u) = u /\ Len(u) = 1
            /\ IsExtra(u) => Name(u)[1] = "custom-"
        BY <1>3, <3>1, NamesOfTabs
      <3>3. \A x \in Anchors : x[1] = "terrareg-anchor" /\ Len(x) = 2
        BY DEF Anchors, InputAnchor, OutputAnchor, ReadmeAnchor
      <3> QED BY <1>5, <3>2, <3>3
    <2>2. hash = Name(u)
      BY <1>1, <1>5, <2>1
    <2> QED BY <1>5, <2>2 DEF PageInv, AddressNamesShownTab, Settled, Valid, HasOwnName, Names
  <1>6. UNCHANGED <<answer, tabs, inserted, site, shown, chosen>>
    OBVIOUS
  <1>7. shown # None => HasContent(shown, tabs, answer, h)
    BY <1>1, <1>3 DEF HasContent
  <1>8. Good(answer, tabs, inserted, shown, h, chosen, view')
    BY <1>3, <1>4, <1>5, <1>7 DEF Good
  <1>9. PICK a, ts, dom, s, c, v : /\ a = answer' /\ ts = tabs' /\ dom = inserted'
                                   /\ s = shown' /\ c = chosen' /\ v = view'
    OBVIOUS
  <1>10. Good(a, ts, dom, s, h, c, v)
    BY <1>6, <1>8, <1>9
  <1> QED BY <1>1, <1>2, <1>3, <1>6, <1>9, <1>10, InvAfter

LEMMA StepKeeps ==
    ASSUME PageInv, [Next]_pageVars
    PROVE  PageInv'
  <1>1. ASSUME NEW q \in Requests, NEW r \in {"ok", "empty", "moved", "failed"}, Arrives(q, r)
        PROVE  PageInv'
    BY <1>1, ArrivesKeeps
  <1>2. ASSUME NEW t \in ToSet(tabs), ClickTab(t)
        PROVE  PageInv'
    BY <1>2, ClickTabKeeps
  <1>3. view \in {"table", "expanded"}
    BY DEF PageInv, TypeOK
  <1>4. CASE ClickAnchor
    <2>1. shown # Blank
      BY <1>4 DEF ClickAnchor, HasInputAnchors, HasOutputAnchors, Blank
    <2> QED BY <1>3, <1>4, <2>1, OthersKeep DEF ClickAnchor, Anchors
  <1>5. CASE SwitchView
    BY <1>3, <1>5, OthersKeep DEF SwitchView
  <1>6. CASE UNCHANGED pageVars
    BY <1>3, <1>6, OthersKeep DEF pageVars
  <1> QED BY <1>1, <1>2, <1>4, <1>5, <1>6 DEF Next

-----------------------------------------------------------------------------
LEMMA Invariance == Spec => []PageInv
  <1>1. Init => PageInv
    BY PageInit
  <1>2. PageInv /\ [Next]_pageVars => PageInv'
    BY StepKeeps
  <1> QED BY <1>1, <1>2, PTL DEF Spec

\* The state of a page keeps its types: its tabs register together, and only
\* additional tabs whose files the server has are in the DOM
\* (renderTabs, AdditionalTab.render).
THEOREM TypeCorrect == Spec => []TypeOK
  <1>1. PageInv => TypeOK
    BY DEF PageInv
  <1> QED BY <1>1, Invariance, PTL

\* The address and the tab that is shown agree, on every page and for every
\* order of answers and clicks: the tab the user clicked stays when the page
\* settles later, and the tab at whose address the page was opened is shown
\* (selectModuleTab, setDefaultTab).
THEOREM AddressesNameTabs == Spec => []AddressNamesShownTab
  <1>1. PageInv => AddressNamesShownTab
    BY DEF PageInv
  <1> QED BY <1>1, Invariance, PTL

\* The page never shows a tab without content, whatever titles collide and
\* whichever answers are missing, and shows nothing in place of a tab only at
\* the address of a title that leaves a character in the name which no id has:
\* AdditionalTab replaces one (AdditionalTab, selectModuleTab).
THEOREM ShownTabsHaveContent == Spec => []ShownTabHasContent
  <1>1. PageInv => ShownTabHasContent
    BY DEF PageInv
  <1> QED BY <1>1, Invariance, PTL
=============================================================================

------------------------- MODULE Redirects_proofs ---------------------------
(***************************************************************************)
(* Proofs about Redirects, for every set of namespaces, module providers   *)
(* and names, every set of databases, and any bounds.  No redirect can     *)
(* dangle because no module provider does (Housed); names stay unique, if  *)
(* LIKE has no wildcards, because no two module providers of a namespace   *)
(* even have names that LIKE takes for one another (Apart).  A name leads   *)
(* to one provider because no redirect has the name of a provider other    *)
(* than its target, or of a redirect with another target (Leads): a name   *)
(* can be taken only if nothing is found under it, or the provider itself. *)
(***************************************************************************)
EXTENDS Redirects, TLAPS

Housed == \A p \in Provider : home[p] # None => Exists(home[p].ns)

IInv == TypeOK /\ Housed /\ NoDanglingRedirects

Apart ==
    \A p, q \in Provider :
        /\ home[p] # None /\ home[q] # None
        /\ home[p].ns = home[q].ns
        /\ Like(home[p].name, home[q].name)
        => p = q

-----------------------------------------------------------------------------
(* Type correctness *)

LEMMA TypeInit == Init => TypeOK
  BY DEF Init, TypeOK

LEMMA TypeNamespaces ==
    ASSUME TypeOK, NEW i \in NsId, NEW n \in NsName,
           CreateNamespace(i, n) \/ RenameNamespace(i, n)
    PROVE  TypeOK'
  <1>1. CASE CreateNamespace(i, n)
    BY <1>1 DEF TypeOK, CreateNamespace
  <1>2. CASE RenameNamespace(i, n)
    <2>1. nsName[i] \in NsName
      BY <1>2 DEF TypeOK, RenameNamespace, Exists
    <2>2. nsRedirects' \subseteq NsRedirect
      BY <1>2, <2>1 DEF TypeOK, RenameNamespace, NsRedirect
    <2> QED BY <1>2, <2>2 DEF TypeOK, RenameNamespace
  <1> QED BY <1>1, <1>2

LEMMA TypeProviders ==
    ASSUME TypeOK, NEW p \in Provider, NEW i \in NsId, NEW n \in Name,
           CreateProvider(p, i, n) \/ RenameProvider(p, i, n)
    PROVE  TypeOK'
  <1>1. CASE CreateProvider(p, i, n)
    BY <1>1 DEF TypeOK, CreateProvider
  <1>2. CASE RenameProvider(p, i, n)
    <2>1. home' \in [Provider -> [ns : NsId, name : Name] \cup {None}]
      BY <1>2 DEF TypeOK, RenameProvider
    <2>2. home[p].ns \in NsId
      BY <1>2 DEF TypeOK, RenameProvider
    <2>3. redirects' \subseteq Redirect
      BY <1>2, <2>2 DEF TypeOK, RenameProvider, Redirect
    <2> QED BY <1>2, <2>1, <2>3 DEF TypeOK, RenameProvider
  <1> QED BY <1>1, <1>2

LEMMA TypeUse ==
    ASSUME TypeOK, NEW t \in Token, NEW n \in NsName, NEW m \in Name, Use(t, n, m)
    PROVE  TypeOK'
  <1>1. PICK q \in Provider : lastUse' = [lastUse EXCEPT ![<<t, q>>] = [ns |-> n, name |-> m]]
    BY DEF Use, Resolve, ProvidersNamed, RedirectedFrom
  <1>2. [ns |-> n, name |-> m] \in [ns : NsName, name : Name]
    OBVIOUS
  <1> QED BY <1>1, <1>2 DEF TypeOK, Use

LEMMA TypeNext == TypeOK /\ [Next]_vars => TypeOK'
  <1> SUFFICES ASSUME TypeOK, [Next]_vars PROVE TypeOK'
    OBVIOUS
  <1>1. CASE \E i \in NsId, n \in NsName : CreateNamespace(i, n) \/ RenameNamespace(i, n)
    BY <1>1, TypeNamespaces
  <1>2. ASSUME NEW i \in NsId, DeleteNamespace(i) PROVE TypeOK'
    BY <1>2 DEF TypeOK, DeleteNamespace
  <1>3. CASE \E p \in Provider, i \in NsId, n \in Name :
                CreateProvider(p, i, n) \/ RenameProvider(p, i, n)
    BY <1>3, TypeProviders
  <1>4. ASSUME NEW p \in Provider, DeleteProvider(p) PROVE TypeOK'
    <2>1. lastUse' \in [Token \X Provider -> [ns : NsName, name : Name] \cup {None}]
      BY <1>4 DEF TypeOK, DeleteProvider
    <2> QED BY <1>4, <2>1 DEF TypeOK, DeleteProvider
  <1>5. ASSUME NEW r \in redirects, NEW force \in BOOLEAN, DeleteRedirect(r, force)
        PROVE  TypeOK'
    BY <1>5 DEF TypeOK, DeleteRedirect
  <1>6. CASE \E t \in Token, n \in NsName, m \in Name : Use(t, n, m)
    BY <1>6, TypeUse
  <1>7. ASSUME NEW t \in Token, NEW p \in Provider, Forget(t, p) PROVE TypeOK'
    BY <1>7 DEF TypeOK, Forget
  <1>8. CASE UNCHANGED vars
    BY <1>8 DEF vars, TypeOK
  <1> QED BY <1>1, <1>2, <1>3, <1>4, <1>5, <1>6, <1>7, <1>8 DEF Next

\* Every variable keeps its type: in particular no redirect is made from a
\* namespace or a module provider that has no row.
THEOREM TypeCorrect == Spec => []TypeOK
  BY TypeInit, TypeNext, PTL DEF Spec

-----------------------------------------------------------------------------
(* Redirects do not dangle *)

LEMMA HousedInit == Init => IInv
  BY TypeInit DEF Init, IInv, Housed, NoDanglingRedirects, TypeOK

LEMMA HousedRename ==
    ASSUME IInv, NEW p \in Provider, NEW i \in NsId, NEW n \in Name, RenameProvider(p, i, n)
    PROVE  Housed' /\ NoDanglingRedirects'
  <1>1. home' = [home EXCEPT ![p] = [ns |-> i, name |-> n]] /\ home'[p] # None
    BY RedirectsAssumption DEF RenameProvider, IInv, TypeOK
  <1>2. Exists(i) /\ UNCHANGED <<database, nsName, nsRedirects>>
    BY DEF RenameProvider
  <1>3. Housed'
    BY <1>1, <1>2 DEF IInv, Housed, TypeOK, Exists
  <1>4. \A r \in redirects' : r \in redirects \/ (r.ns = home[p].ns /\ r.target = p)
    BY DEF RenameProvider
  <1>5. Exists(home[p].ns)
    BY DEF RenameProvider, IInv, Housed
  <1>6. \A r \in redirects' : home'[r.target] # None
    <2>1. \A r \in redirects : r.target \in Provider
      BY DEF IInv, TypeOK, Redirect
    <2> QED BY <1>1, <1>4, <2>1 DEF IInv, TypeOK, NoDanglingRedirects
  <1>7. database # "sqlite" => \A r \in redirects' : Exists(r.ns)
    BY <1>4, <1>5 DEF IInv, NoDanglingRedirects
  <1> QED BY <1>2, <1>3, <1>6, <1>7 DEF NoDanglingRedirects, IInv, Exists

LEMMA HousedNext == IInv /\ [Next]_vars => IInv'
  <1> SUFFICES ASSUME IInv, [Next]_vars PROVE Housed' /\ NoDanglingRedirects'
    BY TypeNext DEF IInv
  <1> USE DEF IInv, Housed, NoDanglingRedirects, Exists
  <1>1. ASSUME NEW i \in NsId, NEW n \in NsName, CreateNamespace(i, n)
        PROVE  Housed' /\ NoDanglingRedirects'
    <2>1. n # None
      BY RedirectsAssumption
    <2> QED BY <1>1, <2>1 DEF CreateNamespace, TypeOK
  <1>2. ASSUME NEW i \in NsId, NEW n \in NsName, RenameNamespace(i, n)
        PROVE  Housed' /\ NoDanglingRedirects'
    <2>1. n # None
      BY RedirectsAssumption
    <2> QED BY <1>2, <2>1 DEF RenameNamespace, TypeOK
  <1>3. ASSUME NEW i \in NsId, DeleteNamespace(i) PROVE Housed' /\ NoDanglingRedirects'
    BY <1>3 DEF DeleteNamespace, TypeOK
  <1>4. ASSUME NEW p \in Provider, NEW i \in NsId, NEW n \in Name, CreateProvider(p, i, n)
        PROVE  Housed' /\ NoDanglingRedirects'
    <2>1. [ns |-> i, name |-> n] # None
      BY RedirectsAssumption
    <2>2. \A r \in redirects : r.target \in Provider
      BY DEF TypeOK, Redirect
    <2> QED BY <1>4, <2>1, <2>2 DEF CreateProvider, TypeOK
  <1>5. ASSUME NEW p \in Provider, NEW i \in NsId, NEW n \in Name, RenameProvider(p, i, n)
        PROVE  Housed' /\ NoDanglingRedirects'
    BY <1>5, HousedRename
  <1>6. ASSUME NEW p \in Provider, DeleteProvider(p) PROVE Housed' /\ NoDanglingRedirects'
    <2>1. \A r \in redirects : r.target \in Provider
      BY DEF TypeOK, Redirect
    <2> QED BY <1>6, <2>1 DEF DeleteProvider, TypeOK
  <1>7. ASSUME NEW r \in redirects, NEW force \in BOOLEAN, DeleteRedirect(r, force)
        PROVE  Housed' /\ NoDanglingRedirects'
    BY <1>7 DEF DeleteRedirect
  <1>8. ASSUME NEW t \in Token, NEW n \in NsName, NEW m \in Name, Use(t, n, m)
        PROVE  Housed' /\ NoDanglingRedirects'
    BY <1>8 DEF Use
  <1>9. ASSUME NEW t \in Token, NEW p \in Provider, Forget(t, p)
        PROVE  Housed' /\ NoDanglingRedirects'
    BY <1>9 DEF Forget
  <1>10. CASE UNCHANGED vars
    BY <1>10 DEF vars
  <1> QED BY <1>1, <1>2, <1>3, <1>4, <1>5, <1>6, <1>7, <1>8, <1>9, <1>10 DEF Next

\* Redirects lead from namespaces that exist (where foreign keys are enforced)
\* to module providers that exist (everywhere).
THEOREM RedirectsDoNotDangle == Spec => []NoDanglingRedirects
  <1>1. IInv => NoDanglingRedirects
    BY DEF IInv
  <1> QED BY <1>1, HousedInit, HousedNext, PTL DEF Spec

-----------------------------------------------------------------------------
(* Names are unique *)

LEMMA ApartStep ==
    ASSUME TypeOK, Apart, Wild = {}, NEW p \in Provider, NEW i \in NsId, NEW n \in Name,
           \A q \in ProvidersNamed(i, n) : q = p,
           home' = [home EXCEPT ![p] = [ns |-> i, name |-> n]], UNCHANGED database
    PROVE  Apart'
  <1>1. \A q \in Provider : q # p => home'[q] = home[q]
    BY DEF TypeOK
  <1>2. home'[p].ns = i /\ home'[p].name = n
    BY DEF TypeOK
  <1>3. \A q \in Provider :
          q # p /\ home[q] # None /\ home[q].ns = i => ~ Like(home[q].name, n)
    BY DEF ProvidersNamed
  <1>4. \A x, y : Like(x, y) => Like(y, x)
    BY DEF Like
  <1>5. \A x, y : Like(x, y)' <=> Like(x, y)
    BY DEF Like
  <1> HIDE DEF Like
  <1> QED BY <1>1, <1>2, <1>3, <1>4, <1>5 DEF Apart

LEMMA ApartNext == Wild = {} /\ TypeOK /\ Apart /\ [Next]_vars => Apart'
  <1> SUFFICES ASSUME Wild = {}, TypeOK, Apart, [Next]_vars PROVE Apart'
    OBVIOUS
  <1>1. ASSUME NEW p \in Provider, NEW i \in NsId, NEW n \in Name, CreateProvider(p, i, n)
        PROVE  Apart'
    <2>1. ProvidersNamed(i, n) = {}
      BY <1>1 DEF CreateProvider, Resolve
    <2> QED BY <1>1, <2>1, ApartStep DEF CreateProvider
  <1>2. ASSUME NEW p \in Provider, NEW i \in NsId, NEW n \in Name, RenameProvider(p, i, n)
        PROVE  Apart'
    <2>1. CASE Resolve(i, n) = {}
      <3>1. ProvidersNamed(i, n) = {}
        BY <2>1 DEF Resolve
      <3> QED BY <1>2, <3>1, ApartStep DEF RenameProvider
    <2>2. CASE MayTake(p, i, n)
      <3>1. ASSUME NEW q \in ProvidersNamed(i, n) PROVE q = p
        <4>1. p \in ProvidersNamed(i, n)
          BY <2>2, <3>1 DEF MayTake
        <4>2. Like(home[q].name, home[p].name)
          BY <3>1, <4>1 DEF ProvidersNamed, Like
        <4> QED BY <3>1, <4>1, <4>2 DEF Apart, ProvidersNamed
      <3> QED BY <1>2, <3>1, ApartStep DEF RenameProvider
    <2> QED BY <1>2, <2>1, <2>2 DEF RenameProvider
  <1>3. ASSUME NEW p \in Provider, DeleteProvider(p) PROVE Apart'
    <2>1. \A q \in Provider : home'[q] = IF q = p THEN None ELSE home[q]
      BY <1>3 DEF DeleteProvider, TypeOK
    <2>2. UNCHANGED database
      BY <1>3 DEF DeleteProvider
    <2> QED BY <2>1, <2>2 DEF Apart, Like
  <1>4. CASE UNCHANGED <<home, database>>
    BY <1>4 DEF Apart, Like
  <1>5. ASSUME NEW i \in NsId, NEW n \in NsName,
               CreateNamespace(i, n) \/ RenameNamespace(i, n)
        PROVE  UNCHANGED <<home, database>>
    BY <1>5 DEF CreateNamespace, RenameNamespace
  <1>6. ASSUME NEW i \in NsId, DeleteNamespace(i) PROVE UNCHANGED <<home, database>>
    BY <1>6 DEF DeleteNamespace
  <1>7. ASSUME NEW r, NEW force, DeleteRedirect(r, force) PROVE UNCHANGED <<home, database>>
    BY <1>7 DEF DeleteRedirect
  <1>8. ASSUME NEW t \in Token, NEW n, NEW m, NEW p,
               Use(t, n, m) \/ Forget(t, p)
        PROVE  UNCHANGED <<home, database>>
    BY <1>8 DEF Use, Forget
  <1>9. CASE UNCHANGED vars
    BY <1>4, <1>9 DEF vars
  <1> QED BY <1>1, <1>2, <1>3, <1>4, <1>5, <1>6, <1>7, <1>8, <1>9 DEF Next

\* If no name has a "_" where another has some other character, no two module
\* providers of a namespace ever have the same name, on any database.
THEOREM NamesAreUnique == Wild = {} => (Spec => []NamesAreTheirOwn)
  <1> SUFFICES ASSUME Wild = {} PROVE Spec => []NamesAreTheirOwn
    OBVIOUS
  <1>1. Init => Apart
    BY DEF Init, Apart
  <1>2. TypeOK /\ Apart /\ [Next]_vars => Apart'
    BY ApartNext
  <1>3. Apart => NamesAreTheirOwn
    BY DEF Apart, NamesAreTheirOwn, Like
  <1> QED BY <1>1, <1>2, <1>3, TypeCorrect, PTL DEF Spec

-----------------------------------------------------------------------------
(* Names lead to one module provider *)

\* Where "=" and LIKE are one relation, that is everywhere but on SQLite, a
\* former name leads to one module provider, and a present name is no former
\* name of another one.
Leads ==
    database # "sqlite" =>
        /\ \A r, s \in redirects : r.ns = s.ns /\ Equal(r.name, s.name) => r.target = s.target
        /\ \A p \in Provider : \A r \in redirects :
              home[p] # None /\ r.ns = home[p].ns /\ Equal(r.name, home[p].name) => r.target = p

NamesInv == IInv /\ Apart /\ Leads

\* Nothing but p has the name, now or formerly.
Free(p, i, n) ==
    /\ \A q \in Provider :
          home[q] # None /\ home[q].ns = i /\ Equal(home[q].name, n) => q = p
    /\ \A r \in redirects : r.ns = i /\ Equal(r.name, n) => r.target = p

LEMMA OneRelation ==
    ASSUME TypeOK, Wild = {}, database # "sqlite"
    PROVE  /\ \A x, y : Like(x, y) <=> Equal(x, y)
           /\ \A x : Equal(x, x)
           /\ \A x, y : Equal(x, y) => Equal(y, x)
           /\ \A x, y, z : Equal(x, y) /\ Equal(y, z) => Equal(x, z)
           /\ \A x, y : Equal(x, y) => Fold[x] = Fold[y]
  <1>1. CASE database = "mysql"
    BY <1>1 DEF Like, Equal
  <1>2. CASE database = "postgres"
    BY <1>2 DEF Like, Equal
  <1> QED BY <1>1, <1>2, RedirectsAssumption DEF TypeOK

LEMMA SameDatabase ==
    ASSUME UNCHANGED database
    PROVE  \A x, y : Equal(x, y)' <=> Equal(x, y)
  BY DEF Equal

\* What create and update_name look for before a name is taken.
LEMMA TakesFree ==
    ASSUME NamesInv, Wild = {}, database # "sqlite",
           NEW p \in Provider, NEW i \in NsId, NEW n \in Name,
           Resolve(i, n) = {} \/ (home[p] # None /\ MayTake(p, i, n))
    PROVE  Free(p, i, n)
  <1>1. TypeOK /\ Apart /\ Leads /\ NoDanglingRedirects
    BY DEF NamesInv, IInv
  <1>2. \A r \in redirects : r.target \in Provider /\ home[r.target] # None
    BY <1>1 DEF TypeOK, Redirect, NoDanglingRedirects
  <1> HIDE DEF Equal, Like
  <1>3. \A q \in Provider : q \in ProvidersNamed(i, n)
                            <=> home[q] # None /\ home[q].ns = i /\ Equal(home[q].name, n)
    BY <1>1, OneRelation DEF ProvidersNamed
  <1>4. CASE Resolve(i, n) = {}
    <2>1. ProvidersNamed(i, n) = {} /\ RedirectedFrom(i, n) = {}
      BY <1>4 DEF Resolve
    <2> QED BY <1>2, <1>3, <2>1 DEF Free, RedirectedFrom
  <1>5. CASE home[p] # None /\ p \in ProvidersNamed(i, n)
    <2>1. home[p].ns = i /\ Equal(home[p].name, n)
      BY <1>3, <1>5
    <2>2. ASSUME NEW q \in Provider, home[q] # None, home[q].ns = i, Equal(home[q].name, n)
          PROVE  q = p
      <3>1. Like(home[q].name, home[p].name)
        BY <1>1, <2>1, <2>2, OneRelation
      <3> QED BY <1>1, <1>5, <2>1, <2>2, <3>1 DEF Apart
    <2>3. ASSUME NEW r \in redirects, r.ns = i, Equal(r.name, n) PROVE r.target = p
      <3>1. Equal(r.name, home[p].name)
        BY <1>1, <2>1, <2>3, OneRelation
      <3> QED BY <1>1, <1>5, <2>1, <2>3, <3>1 DEF Leads
    <2> QED BY <2>2, <2>3 DEF Free
  <1>6. CASE ProvidersNamed(i, n) = {} /\ p \in RedirectedFrom(i, n)
    <2>1. PICK s \in redirects : s.ns = i /\ Equal(s.name, n) /\ s.target = p
      BY <1>6 DEF RedirectedFrom
    <2>2. ASSUME NEW r \in redirects, r.ns = i, Equal(r.name, n) PROVE r.target = p
      <3>1. Equal(r.name, s.name)
        BY <1>1, <2>1, <2>2, OneRelation
      <3> QED BY <1>1, <2>1, <2>2, <3>1 DEF Leads
    <2> QED BY <1>3, <1>6, <2>2 DEF Free
  <1> QED BY <1>4, <1>5, <1>6 DEF MayTake

\* p takes a name that is free for it, and leaves at most a redirect from the
\* name it had.
LEMMA LeadsStep ==
    ASSUME NamesInv, Wild = {}, database # "sqlite",
           NEW p \in Provider, NEW i \in NsId, NEW n \in Name, Free(p, i, n),
           home' = [home EXCEPT ![p] = [ns |-> i, name |-> n]], UNCHANGED database,
           \A r \in redirects' : \/ r \in redirects
                                 \/ /\ home[p] # None /\ r.target = p
                                    /\ r.ns = home[p].ns /\ Equal(r.name, home[p].name)
    PROVE  Leads'
  <1>1. TypeOK /\ Apart /\ Leads
    BY DEF NamesInv, IInv
  <1>2. home'[p] # None /\ home'[p].ns = i /\ home'[p].name = n
    BY <1>1, RedirectsAssumption DEF TypeOK
  <1>3. \A q \in Provider : q # p => home'[q] = home[q]
    BY <1>1 DEF TypeOK
  <1> HIDE DEF Equal, Like
  <1>4. ASSUME NEW r \in redirects', NEW s \in redirects', r.ns = s.ns, Equal(r.name, s.name)
        PROVE  r.target = s.target
    <2>1. CASE r \in redirects /\ s \in redirects
      BY <1>1, <1>4, <2>1 DEF Leads
    <2>2. ASSUME NEW x \in redirects, home[p] # None, NEW y, x.ns = home[p].ns,
                 Equal(y, home[p].name), Equal(x.name, y)
          PROVE  x.target = p
      <3>1. Equal(x.name, home[p].name)
        BY <1>1, <2>2, OneRelation
      <3> QED BY <1>1, <2>2, <3>1 DEF Leads
    <2>3. CASE r \in redirects /\ s \notin redirects
      BY <1>4, <2>2, <2>3
    <2>4. CASE r \notin redirects /\ s \in redirects
      <3>1. Equal(s.name, r.name)
        BY <1>1, <1>4, OneRelation
      <3> QED BY <1>4, <2>2, <2>4, <3>1
    <2> QED BY <2>1, <2>3, <2>4
  <1>5. ASSUME NEW q \in Provider, NEW r \in redirects', home'[q] # None,
               r.ns = home'[q].ns, Equal(r.name, home'[q].name)
        PROVE  r.target = q
    <2>1. CASE q = p
      BY <1>2, <1>5, <2>1 DEF Free
    <2>2. CASE q # p /\ r \in redirects
      BY <1>1, <1>3, <1>5, <2>2 DEF Leads
    <2>3. CASE q # p /\ r \notin redirects
      <3>1. Equal(home[q].name, home[p].name)
        BY <1>1, <1>3, <1>5, <2>3, OneRelation
      <3> QED BY <1>1, <1>3, <1>5, <2>3, <3>1, OneRelation DEF Apart
    <2> QED BY <2>1, <2>2, <2>3
  <1>6. \A x, y : Equal(x, y)' <=> Equal(x, y)
    BY SameDatabase
  <1> QED BY <1>4, <1>5, <1>6 DEF Leads

LEMMA LeadsNext == Wild = {} /\ NamesInv /\ [Next]_vars => NamesInv'
  <1> SUFFICES ASSUME Wild = {}, NamesInv, [Next]_vars PROVE Leads'
    BY ApartNext, HousedNext DEF NamesInv, IInv
  <1>1. TypeOK /\ Leads
    BY DEF NamesInv, IInv
  <1>2. ASSUME UNCHANGED database, redirects' \subseteq redirects,
               \A p \in Provider : home'[p] \in {home[p], None}
        PROVE  Leads'
    <2>1. \A x, y : Equal(x, y)' <=> Equal(x, y)
      BY <1>2, SameDatabase
    <2> HIDE DEF Equal
    <2> QED BY <1>1, <1>2, <2>1 DEF Leads
  <1>3. ASSUME NEW p \in Provider, NEW i \in NsId, NEW n \in Name, CreateProvider(p, i, n)
        PROVE  Leads'
    <2>1. CASE database = "sqlite"
      BY <1>3, <2>1 DEF CreateProvider, Leads
    <2>2. CASE database # "sqlite"
      <3>1. Free(p, i, n)
        BY <1>3, <2>2, TakesFree DEF CreateProvider
      <3> QED BY <1>3, <2>2, <3>1, LeadsStep DEF CreateProvider
    <2> QED BY <2>1, <2>2
  <1>4. ASSUME NEW p \in Provider, NEW i \in NsId, NEW n \in Name, RenameProvider(p, i, n)
        PROVE  Leads'
    <2>1. CASE database = "sqlite"
      BY <1>4, <2>1 DEF RenameProvider, Leads
    <2>2. CASE database # "sqlite"
      <3>1. Free(p, i, n)
        BY <1>4, <2>2, TakesFree DEF RenameProvider
      <3>2. ASSUME NEW r \in redirects', r \notin redirects
            PROVE  r.target = p /\ r.ns = home[p].ns /\ Equal(r.name, home[p].name)
        <4>1. PICK m \in Name : /\ p \in ProvidersNamed(home[p].ns, m)
                                /\ r = [ns |-> home[p].ns, name |-> m, target |-> p]
          BY <1>4, <3>2 DEF RenameProvider
        <4>2. Like(home[p].name, m)
          BY <4>1 DEF ProvidersNamed
        <4> HIDE DEF Like, Equal
        <4> QED BY <1>1, <2>2, <4>1, <4>2, OneRelation
      <3> QED BY <1>4, <2>2, <3>1, <3>2, LeadsStep DEF RenameProvider
    <2> QED BY <2>1, <2>2
  <1>5. ASSUME NEW p \in Provider, DeleteProvider(p) PROVE Leads'
    <2>1. \A q \in Provider : home'[q] \in {home[q], None}
      BY <1>1, <1>5 DEF DeleteProvider, TypeOK
    <2> QED BY <1>2, <1>5, <2>1 DEF DeleteProvider
  <1>6. ASSUME NEW i \in NsId, NEW n \in NsName, CreateNamespace(i, n) \/ RenameNamespace(i, n)
        PROVE  Leads'
    BY <1>2, <1>6 DEF CreateNamespace, RenameNamespace
  <1>7. ASSUME NEW i \in NsId, DeleteNamespace(i) PROVE Leads'
    BY <1>2, <1>7 DEF DeleteNamespace
  <1>8. ASSUME NEW r, NEW force, DeleteRedirect(r, force) PROVE Leads'
    BY <1>2, <1>8 DEF DeleteRedirect
  <1>9. ASSUME NEW t \in Token, NEW n, NEW m, NEW p, Use(t, n, m) \/ Forget(t, p) PROVE Leads'
    BY <1>2, <1>9 DEF Use, Forget
  <1>10. CASE UNCHANGED vars
    BY <1>2, <1>10 DEF vars
  <1> QED BY <1>3, <1>4, <1>5, <1>6, <1>7, <1>8, <1>9, <1>10 DEF Next

LEMMA LeadsInit == Init => NamesInv
  BY HousedInit DEF Init, NamesInv, Apart, Leads

\* If no name has a "_" where another has some other character, a name leads
\* to one module provider at most, whether it is a present or a former name,
\* on the databases where "=" and LIKE agree: no redirect has a name that a
\* module provider other than its target has, or that another redirect has.
THEOREM NamesLeadToOne == Wild = {} => (Spec => []NamesAreUnambiguous)
  <1> SUFFICES ASSUME Wild = {} PROVE Spec => []NamesAreUnambiguous
    OBVIOUS
  <1>1. NamesInv /\ [Next]_vars => NamesInv'
    BY LeadsNext
  <1>2. NamesInv => NamesAreUnambiguous
    <2> SUFFICES ASSUME NamesInv, database # "sqlite", NEW i \in NsId, NEW n \in Name,
                        NEW p \in Resolve(i, n), NEW q \in Resolve(i, n)
                 PROVE  p = q
      BY DEF NamesAreUnambiguous
    <2>1. TypeOK /\ Apart /\ Leads
      BY DEF NamesInv, IInv
    <2> HIDE DEF Equal, Like
    <2>2. CASE ProvidersNamed(i, n) # {}
      <3>1. p \in ProvidersNamed(i, n) /\ q \in ProvidersNamed(i, n)
        BY <2>2 DEF Resolve
      <3>2. Like(home[p].name, home[q].name)
        BY <2>1, <3>1, OneRelation DEF ProvidersNamed
      <3> QED BY <2>1, <3>1, <3>2 DEF Apart, ProvidersNamed
    <2>3. CASE ProvidersNamed(i, n) = {}
      <3>1. PICK r \in redirects, s \in redirects :
              /\ r.ns = i /\ Equal(r.name, n) /\ r.target = p
              /\ s.ns = i /\ Equal(s.name, n) /\ s.target = q
        BY <2>3 DEF Resolve, RedirectedFrom
      <3>2. Equal(r.name, s.name)
        BY <2>1, <3>1, OneRelation
      <3> QED BY <2>1, <3>1, <3>2 DEF Leads
    <2> QED BY <2>2, <2>3
  <1> QED BY <1>1, <1>2, LeadsInit, PTL DEF Spec

-----------------------------------------------------------------------------
(* Names go on leading there *)

\* It does not matter that a present name is looked up before a former one.
BothWays ==
    database # "sqlite" =>
        \A i \in NsId, n \in Name :
            Resolve(i, n) = ProvidersNamed(i, n) \cup RedirectedFrom(i, n)

LEMMA ResolvesBothWays == Wild = {} /\ NamesInv => BothWays
  <1> SUFFICES ASSUME Wild = {}, NamesInv, database # "sqlite", NEW i \in NsId, NEW n \in Name,
                      NEW p \in ProvidersNamed(i, n), NEW q \in RedirectedFrom(i, n)
               PROVE  p = q
    BY DEF BothWays, Resolve
  <1>1. TypeOK /\ Leads
    BY DEF NamesInv, IInv
  <1>2. PICK r \in redirects : r.ns = i /\ Equal(r.name, n) /\ r.target = q
    BY DEF RedirectedFrom
  <1> HIDE DEF Equal, Like
  <1>3. p \in Provider /\ home[p] # None /\ home[p].ns = i /\ Equal(home[p].name, n)
    BY <1>1, OneRelation DEF ProvidersNamed
  <1>4. Equal(r.name, home[p].name)
    BY <1>1, <1>2, <1>3, OneRelation
  <1> QED BY <1>1, <1>2, <1>3, <1>4 DEF Leads

\* Whatever name a module provider was found by, a new name that is not the
\* old one in other case leaves a redirect from it; on MySQL the name is
\* found whatever its case.
LEMMA RenameKeeps ==
    ASSUME NamesInv, Wild = {}, database # "sqlite",
           NEW p \in Provider, NEW j \in NsId, NEW k \in Name, RenameProvider(p, j, k),
           NEW i, NEW m, home[p].ns = i, Equal(home[p].name, m),
           database = "mysql" \/ Fold[k] # Fold[home[p].name]
    PROVE  p \in ProvidersNamed(i, m)' \cup RedirectedFrom(i, m)'
  <1>1. TypeOK
    BY DEF NamesInv, IInv
  <1>2. home'[p] # None /\ home'[p].ns = j /\ home'[p].name = k
    BY <1>1, RedirectsAssumption DEF RenameProvider, TypeOK
  <1>3. UNCHANGED database
    BY DEF RenameProvider
  <1>4. CASE Resolve(j, k) = {}
    <2>1. PICK n \in Name :
            /\ p \in ProvidersNamed(home[p].ns, n)
            /\ redirects' = redirects \cup {[ns |-> home[p].ns, name |-> n, target |-> p]}
      BY <1>4 DEF RenameProvider, MayTake, Resolve
    <2>2. Like(home[p].name, n)
      BY <2>1 DEF ProvidersNamed
    <2> DEFINE r == [ns |-> i, name |-> n, target |-> p]
    <2>3. r \in redirects' /\ r.ns = i /\ r.name = n /\ r.target = p
      BY <2>1
    <2>4. Equal(n, m)
      <3> HIDE DEF Like, Equal
      <3> QED BY <1>1, <2>2, OneRelation
    <2>5. Equal(n, m)'
      BY <1>3, <2>4 DEF Equal
    <2> HIDE DEF Equal, r
    <2> QED BY <1>2, <2>3, <2>5 DEF RedirectedFrom
  <1>5. CASE MayTake(p, j, k)
    <2>1. i = j /\ Fold[home[p].name] = Fold[k]
      <3>1. CASE p \in ProvidersNamed(j, k)
        <4>1. home[p].ns = j /\ Like(home[p].name, k)
          BY <3>1 DEF ProvidersNamed
        <4> HIDE DEF Equal, Like
        <4> QED BY <1>1, <4>1, OneRelation
      <3>2. CASE p \notin ProvidersNamed(j, k)
        BY <1>5, <3>2 DEF MayTake
      <3> QED BY <3>1, <3>2
    <2>2. database = "mysql"
      BY <2>1
    <2>3. Like(k, m)'
      BY <1>3, <2>1, <2>2 DEF Like, Equal
    <2> QED BY <1>2, <2>1, <2>3 DEF ProvidersNamed
  <1> QED BY <1>4, <1>5 DEF RenameProvider

\* If no name has a "_" where another has some other character, a module
\* provider that is renamed or moved is found under its old name right after,
\* and nothing else is.
THEOREM OldNamesLeadThere == Wild = {} => (Spec => RenamedProvidersStayReachable)
  <1> SUFFICES ASSUME Wild = {} PROVE Spec => RenamedProvidersStayReachable
    OBVIOUS
  <1> DEFINE Step ==
        database # "sqlite" =>
        \A p \in Provider, i \in NsId, n \in Name :
            /\ home[p] = [ns |-> i, name |-> n]
            /\ home'[p] \notin {home[p], None}
            /\ database = "mysql" \/ Fold[home'[p].name] # Fold[n]
            => Resolve(i, n)' = {p}
  <1>1. NamesInv /\ BothWays' /\ NamesAreUnambiguous' /\ [Next]_vars => Step
    <2> SUFFICES ASSUME NamesInv, BothWays', NamesAreUnambiguous', [Next]_vars,
                        database # "sqlite",
                        NEW p \in Provider, NEW i \in NsId, NEW n \in Name,
                        home[p] = [ns |-> i, name |-> n], home'[p] \notin {home[p], None},
                        database = "mysql" \/ Fold[home'[p].name] # Fold[n]
                 PROVE  Resolve(i, n)' = {p}
      OBVIOUS
    <2>1. TypeOK /\ home[p] # None /\ home[p].ns = i /\ home[p].name = n
      BY RedirectsAssumption DEF NamesInv, IInv
    <2>2. PICK j \in NsId, k \in Name : RenameProvider(p, j, k)
      <3>1. ASSUME NEW q \in Provider, NEW j \in NsId, NEW k \in Name, CreateProvider(q, j, k)
            PROVE  home'[p] = home[p]
        BY <2>1, <3>1 DEF CreateProvider, TypeOK
      <3>2. ASSUME NEW q \in Provider, NEW j \in NsId, NEW k \in Name, RenameProvider(q, j, k)
            PROVE  q = p \/ home'[p] = home[p]
        BY <2>1, <3>2 DEF RenameProvider, TypeOK
      <3>3. ASSUME NEW q \in Provider, DeleteProvider(q) PROVE home'[p] \in {home[p], None}
        BY <2>1, <3>3 DEF DeleteProvider, TypeOK
      <3>4. UNCHANGED home \/ (\E q \in Provider : DeleteProvider(q))
              \/ (\E q \in Provider, j \in NsId, k \in Name :
                     CreateProvider(q, j, k) \/ RenameProvider(q, j, k))
        BY DEF Next, vars, CreateNamespace, RenameNamespace, DeleteNamespace, DeleteRedirect,
               Use, Forget
      <3> QED BY <3>1, <3>2, <3>3, <3>4
    <2>3. home'[p].name = k /\ UNCHANGED database
      BY <2>1, <2>2 DEF RenameProvider, TypeOK
    <2>4. Equal(n, n)
      BY DEF Equal
    <2>5. p \in ProvidersNamed(i, n)' \cup RedirectedFrom(i, n)'
      BY <2>1, <2>2, <2>3, <2>4, RenameKeeps
    <2>6. p \in Resolve(i, n)'
      BY <2>3, <2>5 DEF BothWays
    <2> QED BY <2>3, <2>6 DEF NamesAreUnambiguous, Resolve, ProvidersNamed, RedirectedFrom
  <1>2. NamesInv /\ [Next]_vars => NamesInv'
    BY LeadsNext
  <1>3. NamesInv => BothWays
    BY ResolvesBothWays
  <1>4. Step => [Step]_home
    OBVIOUS
  <1> HIDE DEF Step
  <1>5. Spec => [][Step]_home
    BY <1>1, <1>2, <1>3, <1>4, LeadsInit, NamesLeadToOne, PTL DEF Spec
  <1> QED BY <1>5 DEF Step, RenamedProvidersStayReachable

LEMMA RedirectInUse ==
    ASSUME NamesInv, Wild = {}, database # "sqlite",
           NEW t \in Token, NEW r \in redirects, NEW i \in NamespacesNamed(lastUse[<<t, r.target>>].ns),
           lastUse[<<t, r.target>>] # None, r.ns = i,
           Equal(r.name, lastUse[<<t, r.target>>].name)
    PROVE  InUse(r)
  <1> DEFINE use == lastUse[<<t, r.target>>]
             names == {nsName[r.ns]} \cup {x.name : x \in {y \in nsRedirects : y.ns = r.ns}}
  <1>1. TypeOK
    BY DEF NamesInv, IInv
  <1>2. \E n \in names : Equal(use.ns, n)
    <2>1. Equal(nsName[i], use.ns) \/ \E y \in nsRedirects : y.ns = i /\ Like(y.name, use.ns)
      BY DEF NamespacesNamed
    <2>2. CASE Equal(nsName[i], use.ns)
      <3> HIDE DEF Equal, use
      <3> QED BY <1>1, <2>2, OneRelation
    <2>3. ASSUME NEW y \in nsRedirects, y.ns = i, Like(y.name, use.ns)
          PROVE  \E n \in names : Equal(use.ns, n)
      <3>1. y.name \in names
        BY <2>3
      <3> HIDE DEF Equal, Like, use, names
      <3> QED BY <1>1, <2>3, <3>1, OneRelation
    <2> QED BY <2>1, <2>2, <2>3
  <1>3. Equal(use.name, r.name)
    <2> HIDE DEF Equal
    <2> QED BY <1>1, OneRelation
  <1> HIDE DEF Equal
  <1> QED BY <1>2, <1>3 DEF InUse

\* The step from a state in which a used name leads to p, to one in which p is
\* there and so is the namespace i.
LEMMA UsedNameKept ==
    ASSUME NamesInv, Wild = {}, [Next]_vars, ~ AllowForce, database # "sqlite",
           database = "mysql" \/ home' = home,
           NEW t \in Token, NEW p \in Provider, lastUse[<<t, p>>] # None,
           NEW i \in NamespacesNamed(lastUse[<<t, p>>].ns), Exists(i)',
           home'[p] # None,
           NEW m, m = lastUse[<<t, p>>].name,
           p \in ProvidersNamed(i, m) \cup RedirectedFrom(i, m)
    PROVE  p \in ProvidersNamed(i, m)' \cup RedirectedFrom(i, m)'
  <1>1. TypeOK
    BY DEF NamesInv, IInv
  <1>2. home[p] # None
    BY DEF ProvidersNamed, RedirectedFrom
  <1>3. UNCHANGED database
    BY DEF Next, vars, CreateNamespace, RenameNamespace, DeleteNamespace, CreateProvider,
           RenameProvider, DeleteProvider, DeleteRedirect, Use, Forget
  <1>4. /\ \A x, y : Equal(x, y)' <=> Equal(x, y)
        /\ \A x, y : Like(x, y)' <=> Like(x, y)
    BY <1>3 DEF Equal, Like
  <1> HIDE DEF Equal, Like
  <1>5. ASSUME home'[p] = home[p],
               \A r \in redirects : r.target = p /\ r.ns = i /\ Equal(r.name, m) => r \in redirects'
        PROVE  p \in ProvidersNamed(i, m)' \cup RedirectedFrom(i, m)'
    <2>1. CASE p \in ProvidersNamed(i, m)
      BY <1>4, <1>5, <2>1 DEF ProvidersNamed
    <2>2. CASE p \in RedirectedFrom(i, m)
      <3>1. PICK r \in redirects : r.ns = i /\ Equal(r.name, m) /\ r.target = p
        BY <2>2 DEF RedirectedFrom
      <3>2. r \in redirects' /\ Equal(r.name, m)'
        BY <1>4, <1>5, <3>1
      <3> QED BY <1>2, <1>5, <3>1, <3>2 DEF RedirectedFrom
    <2> QED BY <2>1, <2>2
  <1>6. ASSUME NEW j \in NsId, NEW n \in NsName, CreateNamespace(j, n) \/ RenameNamespace(j, n)
        PROVE  p \in ProvidersNamed(i, m)' \cup RedirectedFrom(i, m)'
    BY <1>5, <1>6 DEF CreateNamespace, RenameNamespace
  <1>7. ASSUME NEW j \in NsId, DeleteNamespace(j)
        PROVE  p \in ProvidersNamed(i, m)' \cup RedirectedFrom(i, m)'
    <2>1. i # j
      BY <1>1, <1>7 DEF DeleteNamespace, Exists, TypeOK
    <2> QED BY <1>5, <1>7, <2>1 DEF DeleteNamespace
  <1>8. ASSUME NEW q \in Provider, NEW j \in NsId, NEW k \in Name, CreateProvider(q, j, k)
        PROVE  p \in ProvidersNamed(i, m)' \cup RedirectedFrom(i, m)'
    <2>1. home'[p] = home[p]
      BY <1>1, <1>2, <1>8 DEF CreateProvider, TypeOK
    <2> QED BY <1>5, <1>8, <2>1 DEF CreateProvider
  <1>9. ASSUME NEW q \in Provider, NEW j \in NsId, NEW k \in Name, RenameProvider(q, j, k)
        PROVE  p \in ProvidersNamed(i, m)' \cup RedirectedFrom(i, m)'
    <2>1. redirects \subseteq redirects'
      BY <1>9 DEF RenameProvider
    <2>2. CASE home'[p] = home[p]
      BY <1>5, <2>1, <2>2
    <2>3. CASE home'[p] # home[p]
      <3>1. q = p /\ database = "mysql"
        BY <1>1, <1>9, <2>3 DEF RenameProvider, TypeOK
      <3>2. CASE p \in ProvidersNamed(i, m)
        <4>1. home[p].ns = i /\ Equal(home[p].name, m)
          BY <1>1, <3>2, OneRelation DEF ProvidersNamed
        <4> QED BY <1>9, <3>1, <4>1, RenameKeeps
      <3>3. CASE p \in RedirectedFrom(i, m)
        <4>1. PICK r \in redirects : r.ns = i /\ Equal(r.name, m) /\ r.target = p
          BY <3>3 DEF RedirectedFrom
        <4>2. r \in redirects' /\ Equal(r.name, m)'
          BY <1>4, <2>1, <4>1
        <4> QED BY <4>1, <4>2 DEF RedirectedFrom
      <3> QED BY <3>2, <3>3
    <2> QED BY <2>2, <2>3
  <1>10. ASSUME NEW q \in Provider, DeleteProvider(q)
         PROVE  p \in ProvidersNamed(i, m)' \cup RedirectedFrom(i, m)'
    <2>1. q # p /\ home'[p] = home[p]
      BY <1>1, <1>10 DEF DeleteProvider, TypeOK
    <2>2. \A r \in redirects : r.target = p => r \in redirects'
      BY <1>10, <2>1 DEF DeleteProvider
    <2> QED BY <1>5, <2>1, <2>2
  <1>11. ASSUME NEW r \in redirects, NEW force \in BOOLEAN, DeleteRedirect(r, force)
         PROVE  p \in ProvidersNamed(i, m)' \cup RedirectedFrom(i, m)'
    <2>1. ~ InUse(r) /\ redirects' = redirects \ {r} /\ UNCHANGED home
      BY <1>11 DEF DeleteRedirect
    <2>2. ~ (r.target = p /\ r.ns = i /\ Equal(r.name, m))
      BY <2>1, RedirectInUse
    <2> QED BY <1>5, <2>1, <2>2
  <1>12. ASSUME NEW u \in Token, NEW n, NEW k, NEW q, Use(u, n, k) \/ Forget(u, q)
         PROVE  p \in ProvidersNamed(i, m)' \cup RedirectedFrom(i, m)'
    BY <1>5, <1>12 DEF Use, Forget
  <1>13. CASE UNCHANGED vars
    BY <1>5, <1>13 DEF vars
  <1> QED BY <1>6, <1>7, <1>8, <1>9, <1>10, <1>11, <1>12, <1>13 DEF Next

\* If no name has a "_" where another has some other character, and redirects
\* cannot be deleted by force, the names that a user last downloaded a module
\* provider by go on leading to it, on the databases where "=" and LIKE agree.
THEOREM UsedNamesLeadThere == Wild = {} => (Spec => UsedNamesKeepLeading)
  <1> SUFFICES ASSUME Wild = {} PROVE Spec => UsedNamesKeepLeading
    OBVIOUS
  <1> DEFINE Step ==
       /\ ~ AllowForce /\ database # "sqlite"
       /\ database = "mysql" \/ home' = home
       =>
        \A t \in Token, p \in Provider :
        \A use \in {lastUse[<<t, p>>]} \ {None} :
        \A i \in NamespacesNamed(use.ns) :
            /\ home'[p] # None
            /\ NamespacesNamed(use.ns)' = {i}
            /\ Resolve(i, use.name) = {p}
            => Resolve(i, use.name)' = {p}
  <1>1. /\ NamesInv /\ BothWays /\ BothWays' /\ NamesAreUnambiguous' /\ [Next]_vars
        => Step
    <2> SUFFICES ASSUME NamesInv, BothWays, BothWays', NamesAreUnambiguous', [Next]_vars,
                        ~ AllowForce, database # "sqlite", database = "mysql" \/ home' = home,
                        NEW t \in Token, NEW p \in Provider,
                        NEW use \in {lastUse[<<t, p>>]} \ {None},
                        NEW i \in NamespacesNamed(use.ns),
                        home'[p] # None, NamespacesNamed(use.ns)' = {i},
                        Resolve(i, use.name) = {p}
                 PROVE  Resolve(i, use.name)' = {p}
      OBVIOUS
    <2>1. use = lastUse[<<t, p>>] /\ use # None /\ use.name \in Name /\ i \in NsId
      BY DEF NamesInv, IInv, TypeOK, NamespacesNamed
    <2>2. Exists(i)'
      BY DEF NamespacesNamed
    <2>3. UNCHANGED database
      BY DEF Next, vars, CreateNamespace, RenameNamespace, DeleteNamespace, CreateProvider,
             RenameProvider, DeleteProvider, DeleteRedirect, Use, Forget
    <2>4. p \in ProvidersNamed(i, use.name) \cup RedirectedFrom(i, use.name)
      BY <2>1 DEF BothWays
    <2>5. p \in ProvidersNamed(i, use.name)' \cup RedirectedFrom(i, use.name)'
      BY <2>1, <2>2, <2>4, UsedNameKept
    <2>6. p \in Resolve(i, use.name)'
      BY <2>1, <2>3, <2>5 DEF BothWays
    <2> QED BY <2>1, <2>3, <2>6 DEF NamesAreUnambiguous, Resolve, ProvidersNamed, RedirectedFrom
  <1>2. NamesInv /\ [Next]_vars => NamesInv'
    BY LeadsNext
  <1>3. NamesInv => BothWays
    BY ResolvesBothWays
  <1>4. Step => [Step]_<<nsName, nsRedirects, home, redirects>>
    OBVIOUS
  <1> HIDE DEF Step
  <1>5. Spec => [][Step]_<<nsName, nsRedirects, home, redirects>>
    BY <1>1, <1>2, <1>3, <1>4, LeadsInit, NamesLeadToOne, PTL DEF Spec
  <1> QED BY <1>5 DEF Step, UsedNamesKeepLeading
=============================================================================

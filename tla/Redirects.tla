----------------------------- MODULE Redirects ------------------------------
(***************************************************************************)
(* The names of namespaces and module providers, and the redirects that    *)
(* keep their old names working (src/terrareg/models.py).  A namespace     *)
(* that is renamed leaves a namespace_redirect row, a module provider that *)
(* is renamed or moved a module_provider_redirect row; both hold the id of *)
(* what they lead to, so that chains never form.  Nothing in the schema    *)
(* makes a name unique: every operation looks first.                       *)
(*                                                                         *)
(* How a name is looked up depends on the database.  LIKE ignores case on  *)
(* SQLite and MySQL, "=" on MySQL alone, and "_" in a LIKE pattern matches *)
(* any character everywhere.  SQLite does not enforce foreign keys and     *)
(* gives the id of a deleted row to a later one.  One request runs at a    *)
(* time.                                                                   *)
(***************************************************************************)
EXTENDS FiniteSets, Naturals

CONSTANTS
    NsId,         \* primary keys of namespace
    Provider,     \* primary keys of module_provider
    NsName, Name, \* names of namespaces; names of modules with their provider
    Fold,         \* name -> the name without case
    Wild,         \* <<name, pattern>> that LIKE matches on account of a "_"
    Token,        \* analytics tokens
    Databases,    \* those it may be deployed on
    AllowForce,   \* ALLOW_FORCEFUL_MODULE_PROVIDER_REDIRECT_DELETION
    MaxNsRedirects, MaxRedirects, \* bounds: rows in the redirect tables
    None

ASSUME RedirectsAssumption ==
    /\ Databases \subseteq {"sqlite", "mysql", "postgres"}
    /\ AllowForce \in BOOLEAN /\ MaxNsRedirects \in Nat /\ MaxRedirects \in Nat
    /\ None \notin NsName \cup [ns : NsId, name : Name] \cup [ns : NsName, name : Name]

VARIABLES
    database,    \* the database in use, which never changes
    nsName,      \* id -> name of the namespace, or None
    nsRedirects, \* namespace_redirect rows
    home,        \* id -> namespace and name of the module provider, or None
    redirects,   \* module_provider_redirect rows
    lastUse      \* <<token, provider>> -> the names in its last download, or None

vars == <<database, nsName, nsRedirects, home, redirects, lastUse>>

NsRedirect == [name : NsName, ns : NsId]
Redirect   == [ns : NsId, name : Name, target : Provider]

TypeOK ==
    /\ database \in Databases
    /\ nsName \in [NsId -> NsName \cup {None}]
    /\ nsRedirects \subseteq NsRedirect
    /\ home \in [Provider -> [ns : NsId, name : Name] \cup {None}]
    /\ redirects \subseteq Redirect
    /\ lastUse \in [Token \X Provider -> [ns : NsName, name : Name] \cup {None}]

-----------------------------------------------------------------------------
(* Looking names up *)

Like(row, pattern) ==
    \/ IF database = "postgres" THEN row = pattern ELSE Fold[row] = Fold[pattern]
    \/ <<row, pattern>> \in Wild

Equal(row, value) ==
    IF database = "mysql" THEN Fold[row] = Fold[value] ELSE row = value

Exists(i) == nsName[i] # None

\* Namespace.get: the namespaces its name may be found to be.  The redirect is
\* looked up with LIKE, for the case_insensitive flag is inverted.
NamespacesNamed(n) ==
    LET exact == {i \in NsId : Exists(i) /\ Equal(nsName[i], n)}
    IN  IF exact # {} THEN exact
        ELSE {i \in NsId : Exists(i) /\ \E r \in nsRedirects : r.ns = i /\ Like(r.name, n)}

ProvidersNamed(i, n) ==
    {p \in Provider : home[p] # None /\ home[p].ns = i /\ Like(home[p].name, n)}

\* get_module_provider_by_original_details, as ModuleProvider.get calls it:
\* with "=", again for the inverted flag.
RedirectedFrom(i, n) ==
    {p \in Provider : home[p] # None
        /\ \E r \in redirects : r.ns = i /\ Equal(r.name, n) /\ r.target = p}

\* ModuleProvider.get: the providers that it may return (a SELECT with
\* several rows gives any of them).
Resolve(i, n) ==
    IF ProvidersNamed(i, n) # {} THEN ProvidersNamed(i, n) ELSE RedirectedFrom(i, n)

Init ==
    /\ database \in Databases
    /\ nsName = [i \in NsId |-> None]
    /\ nsRedirects = {}
    /\ home = [p \in Provider |-> None]
    /\ redirects = {}
    /\ lastUse = [u \in Token \X Provider |-> None]

-----------------------------------------------------------------------------
(* Namespaces *)

NamespacesLike(n) == {i \in NsId : Exists(i) /\ Like(nsName[i], n)}

\* Redirects are not looked at: a new namespace may take a name that leads
\* to another one.
CreateNamespace(i, n) ==
    /\ ~ Exists(i)
    /\ NamespacesLike(n) = {}
    /\ nsName' = [nsName EXCEPT ![i] = n]
    /\ UNCHANGED <<database, nsRedirects, home, redirects, lastUse>>

\* A fault: a namespace that is gone can be renamed.
RenameNamespace_NoRow(i, n) ==
    /\ NamespacesLike(n) = {} /\ Cardinality(nsRedirects) < MaxNsRedirects
    /\ nsRedirects' = nsRedirects \cup {[name |-> nsName[i], ns |-> i]}
    /\ nsName' = [nsName EXCEPT ![i] = n]
    /\ UNCHANGED <<database, home, redirects, lastUse>>

RenameNamespace(i, n) ==
    /\ Exists(i)
    /\ n # nsName[i]
    /\ NamespacesLike(n) # {} => i \in NamespacesLike(n)
    /\ Cardinality(nsRedirects) < MaxNsRedirects
    /\ nsRedirects' = nsRedirects \cup {[name |-> nsName[i], ns |-> i]}
    /\ nsName' = [nsName EXCEPT ![i] = n]
    /\ UNCHANGED <<database, home, redirects, lastUse>>

\* Only an empty namespace can be deleted.  The redirects of module providers
\* that left it are not deleted by the code, but by the foreign key, if that
\* is enforced.
DeleteNamespace(i) ==
    /\ Exists(i)
    /\ \A p \in Provider : home[p] # None => home[p].ns # i
    /\ nsName' = [nsName EXCEPT ![i] = None]
    /\ nsRedirects' = {r \in nsRedirects : r.ns # i}
    /\ redirects' = IF database = "sqlite" THEN redirects ELSE {r \in redirects : r.ns # i}
    /\ UNCHANGED <<database, home, lastUse>>

-----------------------------------------------------------------------------
(* Module providers *)

\* A fault: a name that leads elsewhere can be taken.
CreateProvider_NoRedirects(p, i, n) ==
    /\ home[p] = None /\ Exists(i)
    /\ ProvidersNamed(i, n) = {}
    /\ home' = [home EXCEPT ![p] = [ns |-> i, name |-> n]]
    /\ UNCHANGED <<database, nsName, nsRedirects, redirects, lastUse>>

CreateProvider(p, i, n) ==
    /\ home[p] = None
    /\ Exists(i)
    /\ Resolve(i, n) = {}
    /\ home' = [home EXCEPT ![p] = [ns |-> i, name |-> n]]
    /\ UNCHANGED <<database, nsName, nsRedirects, redirects, lastUse>>

\* A fault: the duplicate is not compared with the provider itself.
MayTake_Any(p, i, n) == Resolve(i, n) # {}

\* update_name.  What is found under the new name may only be the provider
\* itself: by its own row, or by a redirect from its own name in other case.
\* Then no redirect is created, "as module name matching is already
\* case-insensitive".
MayTake(p, i, n) ==
    IF ProvidersNamed(i, n) # {}
    THEN p \in ProvidersNamed(i, n)
    ELSE p \in RedirectedFrom(i, n) /\ home[p].ns = i /\ Fold[home[p].name] = Fold[n]

\* A fault: no redirect is created.
RenameProvider_NoRedirect(p, i, n) ==
    /\ home[p] # None /\ Exists(i)
    /\ Resolve(i, n) = {} \/ MayTake(p, i, n)
    /\ home' = [home EXCEPT ![p] = [ns |-> i, name |-> n]]
    /\ UNCHANGED <<database, nsName, nsRedirects, redirects, lastUse>>

\* The redirect has the old name as the request spells it.
RenameProvider(p, i, n) ==
    /\ home[p] # None
    /\ Exists(i)
    /\ \/ /\ Resolve(i, n) = {}
          /\ Cardinality(redirects) < MaxRedirects
          /\ \E m \in Name :
                /\ p \in ProvidersNamed(home[p].ns, m)
                /\ redirects' = redirects \cup {[ns |-> home[p].ns, name |-> m, target |-> p]}
       \/ /\ MayTake(p, i, n)
          /\ UNCHANGED redirects
    /\ home' = [home EXCEPT ![p] = [ns |-> i, name |-> n]]
    /\ UNCHANGED <<database, nsName, nsRedirects, lastUse>>

\* A fault: redirects are left to the foreign key.
DeleteProvider_LeavesRedirects(p) ==
    /\ home[p] # None
    /\ home' = [home EXCEPT ![p] = None]
    /\ lastUse' = [u \in Token \X Provider |-> IF u[2] = p THEN None ELSE lastUse[u]]
    /\ UNCHANGED <<database, nsName, nsRedirects, redirects>>

\* Its redirects and, with its versions, its analytics go with it.
DeleteProvider(p) ==
    /\ home[p] # None
    /\ home' = [home EXCEPT ![p] = None]
    /\ redirects' = {r \in redirects : r.target # p}
    /\ lastUse' = [u \in Token \X Provider |-> IF u[2] = p THEN None ELSE lastUse[u]]
    /\ UNCHANGED <<database, nsName, nsRedirects>>

\* A fault: downloads by a former name of the namespace are not counted.
InUse_PresentNameOnly(r) ==
    \E t \in Token : LET use == lastUse[<<t, r.target>>] IN
        use # None /\ Equal(use.name, r.name) /\ Equal(use.ns, nsName[r.ns])

\* check_module_provider_redirect_usage: the last download of some token from
\* the redirect's target used its names, or a former name of its namespace.
InUse(r) ==
    LET names == {nsName[r.ns]} \cup {x.name : x \in {y \in nsRedirects : y.ns = r.ns}} IN
    \E t \in Token : LET use == lastUse[<<t, r.target>>] IN
        /\ use # None
        /\ Equal(use.name, r.name)
        /\ \E n \in names : Equal(use.ns, n)

DeleteRedirect(r, force) ==
    /\ r \in redirects
    /\ Exists(r.ns)
    /\ IF force THEN AllowForce ELSE ~ InUse(r)
    /\ redirects' = redirects \ {r}
    /\ UNCHANGED <<database, nsName, nsRedirects, home, lastUse>>

\* A download by names: found, and recorded with the names as they were given.
Use(t, n, m) ==
    /\ \E i \in NamespacesNamed(n) : \E p \in Resolve(i, m) :
          lastUse' = [lastUse EXCEPT ![<<t, p>>] = [ns |-> n, name |-> m]]
    /\ UNCHANGED <<database, nsName, nsRedirects, home, redirects>>

\* A last download falls out of REDIRECT_DELETION_LOOKBACK_DAYS, or is deleted
\* with the version that it was of.
Forget(t, p) ==
    /\ lastUse[<<t, p>>] # None
    /\ lastUse' = [lastUse EXCEPT ![<<t, p>>] = None]
    /\ UNCHANGED <<database, nsName, nsRedirects, home, redirects>>

Next ==
    \/ \E i \in NsId, n \in NsName : CreateNamespace(i, n) \/ RenameNamespace(i, n)
    \/ \E i \in NsId : DeleteNamespace(i)
    \/ \E p \in Provider, i \in NsId, n \in Name : CreateProvider(p, i, n) \/ RenameProvider(p, i, n)
    \/ \E p \in Provider : DeleteProvider(p)
    \/ \E r \in redirects, force \in BOOLEAN : DeleteRedirect(r, force)
    \/ \E t \in Token, n \in NsName, m \in Name : Use(t, n, m)
    \/ \E t \in Token, p \in Provider : Forget(t, p)

Spec == Init /\ [][Next]_vars

-----------------------------------------------------------------------------
\* No two module providers of a namespace have the same name, though the
\* schema does not say so: create and update_name refuse a name for which "a
\* module/provider already exists", and only update_name lets a provider take
\* a name under which it finds itself.
NamesAreTheirOwn ==
    \A p, q \in Provider : home[p] # None /\ home[p] = home[q] => p = q

\* A name leads to one module provider at most, whether it is a present or a
\* former name.  On SQLite "=" and LIKE differ, and a name in other case can
\* be taken while a redirect has it.
NamesAreUnambiguous ==
    database # "sqlite" =>
        \A i \in NsId, n \in Name : \A p, q \in Resolve(i, n) : p = q

\* Every redirect starts in a namespace that exists and ends at a module
\* provider that exists, or else a later row with a reused id would inherit
\* it.  On SQLite deleting a namespace leaves redirects behind.
NoDanglingRedirects ==
    /\ \A r \in nsRedirects : Exists(r.ns)
    /\ \A r \in redirects : home[r.target] # None
    /\ database # "sqlite" => \A r \in redirects : Exists(r.ns)

\* "The module will initially still be accessible using the old URL"
\* (templates/module_provider.html): whatever is renamed or moved is still
\* found where it was.  On SQLite a redirect may spell the old name in other
\* case and is looked up with "="; on PostgreSQL a change of case may leave
\* no redirect.
RenamedProvidersStayReachable ==
    [][database # "sqlite" =>
        \A p \in Provider, i \in NsId, n \in Name :
            /\ home[p] = [ns |-> i, name |-> n]
            /\ home'[p] \notin {home[p], None}
            /\ database = "mysql" \/ Fold[home'[p].name] # Fold[n]
            => Resolve(i, n)' = {p}]_home

\* The names a user last downloaded a module provider by go on leading there,
\* unless the provider is deleted, its namespace is, a new namespace takes
\* the name, or deletion of the redirect is forced.  (On PostgreSQL: unless a
\* module provider is renamed, see above.)
UsedNamesKeepLeading ==
    [][/\ ~ AllowForce /\ database # "sqlite"
       /\ database = "mysql" \/ home' = home
       =>
        \A t \in Token, p \in Provider :
        \A use \in {lastUse[<<t, p>>]} \ {None} :
        \A i \in NamespacesNamed(use.ns) :
            /\ home'[p] # None
            /\ NamespacesNamed(use.ns)' = {i}
            /\ Resolve(i, use.name) = {p}
            => Resolve(i, use.name)' = {p}]_<<nsName, nsRedirects, home, redirects>>

\* "After changing the namespace name, URLs with the old namespace will
\* continue to work" (templates/edit_namespace.html).
RenamedNamespacesStayReachable ==
    [][\A i \in NsId, n \in NsName :
          nsName[i] = n /\ nsName'[i] # None => NamespacesNamed(n)' = {i}]_vars
=============================================================================

--------------------------- MODULE ProviderIndex ---------------------------
(***************************************************************************)
(* The versions of one Terraform provider and the GPG keys that verify     *)
(* them.  A provider is published with the newest of its releases that can *)
(* be indexed, in one transaction with a savepoint for each release; later *)
(* versions are indexed one by one.  Keys are added and deleted meanwhile. *)
(*                                                                         *)
(* What a transaction has written is part of its request until it commits. *)
(***************************************************************************)
EXTENDS ServerThreads, Naturals, FiniteSets, Sequences, FiniteSetsExt

CONSTANTS
    Key,         \* the GPG keys of the namespace
    Releases,    \* of the repository, newest first: their version, a number;
                 \* whether it is a beta; their signer, or None without signature
    MaxId,       \* bound: the ids given to rows
    Deployment   \* what is served, records of
                 \*   kinds:       the kinds of requests that each thread serves
                 \*   alone:       whether requests come one at a time
                 \*   foreignKeys: whether the database enforces foreign keys

Kinds == {"publish", "index", "delete", "add"}

Row == [id : Nat \ {0}, version : Nat, beta : BOOLEAN, key : Key, whole : BOOLEAN]

\* One thread indexes, unless requests come one at a time anyway: what two
\* transactions insert at once is not modelled.
ProviderIndexAssumption ==
    /\ Releases \in Seq([version : Nat, beta : BOOLEAN, signer : Key \cup {None}])
    /\ MaxId \in Nat
    /\ None \notin Key \cup Nat \cup Row
    /\ Deployment \subseteq [kinds : [Thread -> SUBSET Kinds], alone : BOOLEAN,
                             foreignKeys : BOOLEAN]
    /\ \A d \in Deployment : d.alone \/ \A t, u \in Thread :
          /\ d.kinds[t] \cap {"publish", "index"} # {}
          /\ d.kinds[u] \cap {"publish", "index"} # {}
          => t = u

ASSUME ProviderConstants == ProviderIndexAssumption

VARIABLES
    deployment,
    keys,      \* gpg_key
    provider,  \* whether the provider has a row
    versions,  \* provider_version
    latest,    \* latest_version_id of the provider
    request    \* of each thread

providerVars == <<deployment, keys, provider, versions, latest, request>>

NoRequest ==
    [kind |-> "none", pc |-> "idle", at |-> 0, key |-> None, row |-> None, isLatest |-> FALSE]

-----------------------------------------------------------------------------
May(t, kind) ==
    /\ request[t].pc = "idle" /\ kind \in deployment.kinds[t]
    /\ deployment.alone => \A u \in Thread : request[u].pc = "idle"

In(t, pc) == request[t].pc = pc

\* The release that a request is at.
Release(t) == Releases[request[t].at]

\* The rows a transaction sees.
Visible(t) == versions \cup (IF request[t].row = None THEN {} ELSE {request[t].row})

\* The request goes on to pc, or ends: what it has written is rolled back.
GoesOn(t, pc) == request' = [request EXCEPT ![t].pc = pc]
Ends(t) == request' = [request EXCEPT ![t] = NoRequest]

\* A fault: the error is caught inside the extraction wrapper, which publishes.
NextRelease_Publishes(t) ==
    request' = [request EXCEPT ![t].pc = IF request[t].row = None THEN "key" ELSE "publish",
                               ![t].at = @ + (IF request[t].row = None THEN 1 ELSE 0)]

\* refresh_versions: the savepoint is rolled back and the loop continues.
NextRelease(t) ==
    request' = [request EXCEPT ![t].pc = "key", ![t].at = @ + 1, ![t].row = None]

\* What an error of terrareg does: publishing tries the next release, while
\* index_version passes it on.
Refused(t) == IF request[t].kind = "publish" THEN NextRelease(t) ELSE Ends(t)

ProviderInit ==
    /\ deployment \in Deployment
    /\ keys = {}
    /\ provider = FALSE
    /\ versions = {}
    /\ latest = None
    /\ request = [t \in Thread |-> NoRequest]

-----------------------------------------------------------------------------
\* Provider.create and get_new_releases: the row is written in the transaction.
StartPublish(t) ==
    /\ May(t, "publish") /\ ~provider
    /\ request' = [request EXCEPT ![t] =
           [NoRequest EXCEPT !.kind = "publish", !.pc = "key", !.at = 1]]
    /\ UNCHANGED <<deployment, keys, provider, versions, latest>>

\* index_version: a version that is indexed is refused at once.
StartIndex(t, n) ==
    /\ May(t, "index") /\ provider
    /\ \A r \in versions : r.version # Releases[n].version
    /\ request' = [request EXCEPT ![t] =
           [NoRequest EXCEPT !.kind = "index", !.pc = "key", !.at = n]]
    /\ UNCHANGED <<deployment, keys, provider, versions, latest>>

\* obtain_gpg_key: a release without signature is refused; if no key verifies
\* the signature the request fails.
ObtainKey(t) ==
    /\ In(t, "key") /\ request[t].at \in DOMAIN Releases
    /\ CASE Release(t).signer = None -> Refused(t)
         [] Release(t).signer # None /\ Release(t).signer \notin keys -> Ends(t)
         [] OTHER -> request' = [request EXCEPT ![t].pc = "row", ![t].key = Release(t).signer]
    /\ UNCHANGED <<deployment, keys, provider, versions, latest>>

\* A fault: a provider without versions is committed.
NothingFound_KeepsProvider(t) ==
    /\ In(t, "key") /\ request[t].at \notin DOMAIN Releases
    /\ provider' = TRUE
    /\ Ends(t)
    /\ UNCHANGED <<deployment, keys, versions, latest>>

\* "No valid releases found for provider": the row of the provider goes, too.
NothingFound(t) ==
    /\ In(t, "key") /\ request[t].at \notin DOMAIN Releases
    /\ Ends(t)
    /\ UNCHANGED <<deployment, keys, provider, versions, latest>>

NextId(t) == 1 + Max({0} \cup {r.id : r \in Visible(t)})

\* _create_db_row, after the savepoint or transaction has begun.  Where foreign
\* keys are enforced the key must still be there.  Bound: MaxId.
InsertRow(t) ==
    /\ In(t, "row") /\ NextId(t) <= MaxId
    /\ CASE \E r \in Visible(t) : r.version = Release(t).version -> Refused(t)
         [] (\A r \in Visible(t) : r.version # Release(t).version)
                 /\ deployment.foreignKeys /\ request[t].key \notin keys -> Ends(t)
         [] OTHER ->
              request' = [request EXCEPT
                  ![t].pc = "extract",
                  ![t].row = [id |-> NextId(t), version |-> Release(t).version,
                              beta |-> Release(t).beta, key |-> request[t].key, whole |-> FALSE]]
    /\ UNCHANGED <<deployment, keys, provider, versions, latest>>

\* process_version: manifest, binaries and documentation.
ExtractVersion(t) ==
    /\ In(t, "extract")
    /\ request' = [request EXCEPT ![t].pc = "publish", ![t].row.whole = TRUE]
    /\ UNCHANGED <<deployment, keys, provider, versions, latest>>

ExtractionRefused(t) ==
    /\ In(t, "extract")
    /\ Refused(t)
    /\ UNCHANGED <<deployment, keys, provider, versions, latest>>

\* A fault: betas are candidates as well.
HighestFinal_OrBeta(vs) == {r \in vs : \A s \in vs : s.version <= r.version}

\* calculate_latest_version: the highest version that is not a beta, if any.
HighestFinal(vs) == {r \in vs : ~r.beta /\ \A s \in vs : ~s.beta => s.version <= r.version}

\* ProviderVersion.publish.
PublishVersion(t) ==
    /\ In(t, "publish")
    /\ request' = [request EXCEPT ![t].pc = "commit",
                                  ![t].isLatest = request[t].row \in HighestFinal(Visible(t))]
    /\ UNCHANGED <<deployment, keys, provider, versions, latest>>

Commit(t) ==
    /\ In(t, "commit")
    /\ provider' = TRUE
    /\ versions' = versions \cup {request[t].row}
    /\ latest' = IF request[t].isLatest THEN request[t].row.id ELSE latest
    /\ Ends(t)
    /\ UNCHANGED <<deployment, keys>>

\* Any other exception, at any moment, and the end of the process.
RequestFails(t) ==
    /\ request[t].pc # "idle"
    /\ Ends(t)
    /\ UNCHANGED <<deployment, keys, provider, versions, latest>>

-----------------------------------------------------------------------------
\* GpgKey.create.
AddKey(t, k) ==
    /\ May(t, "add") /\ k \notin keys
    /\ keys' = keys \cup {k}
    /\ UNCHANGED <<deployment, provider, versions, latest, request>>

\* A fault: keys are deleted whether or not they are used.
CheckKey_Never(t, k) ==
    /\ May(t, "delete") /\ k \in keys
    /\ request' = [request EXCEPT ![t] =
           [NoRequest EXCEPT !.kind = "delete", !.pc = "delete", !.key = k]]
    /\ UNCHANGED <<deployment, keys, provider, versions, latest>>

\* GpgKey.delete looks for versions that use the key, and deletes the key in
\* another transaction.
CheckKey(t, k) ==
    /\ May(t, "delete") /\ k \in keys
    /\ \A r \in versions : r.key # k
    /\ request' = [request EXCEPT ![t] =
           [NoRequest EXCEPT !.kind = "delete", !.pc = "delete", !.key = k]]
    /\ UNCHANGED <<deployment, keys, provider, versions, latest>>

\* A fault: the schema leaves latest_version_id alone (no SET NULL).
DeleteKey_KeepsLatest(t) ==
    LET k     == request[t].key
        stays == IF deployment.foreignKeys THEN {r \in versions : r.key # k} ELSE versions
    IN  /\ In(t, "delete")
        /\ deployment.foreignKeys =>
              \A u \in Thread : request[u].row # None => request[u].row.key # k
        /\ keys' = keys \ {k}
        /\ versions' = stays
        /\ Ends(t)
        /\ UNCHANGED <<deployment, provider, latest>>

\* Foreign keys: the deletion waits for transactions that refer to the key,
\* and takes versions that refer to it with it (CASCADE, SET NULL).
DeleteKey(t) ==
    LET k     == request[t].key
        stays == IF deployment.foreignKeys THEN {r \in versions : r.key # k} ELSE versions
    IN  /\ In(t, "delete")
        /\ deployment.foreignKeys =>
              \A u \in Thread : request[u].row # None => request[u].row.key # k
        /\ keys' = keys \ {k}
        /\ versions' = stays
        /\ latest' = IF \E r \in versions \ stays : r.id = latest THEN None ELSE latest
        /\ Ends(t)
        /\ UNCHANGED <<deployment, provider>>

ProviderNext ==
    \E t \in Thread :
        \/ StartPublish(t)
        \/ \E n \in DOMAIN Releases : StartIndex(t, n)
        \/ ObtainKey(t) \/ NothingFound(t)
        \/ InsertRow(t)
        \/ ExtractVersion(t) \/ ExtractionRefused(t)
        \/ PublishVersion(t) \/ Commit(t)
        \/ RequestFails(t)
        \/ \E k \in Key : AddKey(t, k) \/ CheckKey(t, k)
        \/ DeleteKey(t)

ProviderSpec == ProviderInit /\ [][ProviderNext]_providerVars

-----------------------------------------------------------------------------
ProviderTypeOK ==
    /\ deployment \in Deployment
    /\ keys \subseteq Key
    /\ provider \in BOOLEAN
    /\ versions \subseteq Row
    /\ latest \in {None} \cup {r.id : r \in versions}
    /\ \A t \in Thread :
          /\ request[t].kind \in Kinds \cup {"none"}
          /\ request[t].pc \in {"idle", "key", "row", "extract", "publish", "commit", "delete"}
          /\ request[t].at \in 0..(Len(Releases) + 1)
          /\ request[t].key \in Key \cup {None}
          /\ request[t].row \in Row \cup {None}
          /\ request[t].isLatest \in BOOLEAN

\* Every version that is there was extracted to the end, is verified by the key
\* that signed its release, and is there once, whatever releases before it
\* were refused in the same transaction (refresh_versions, index_version).
VersionsAreWhole ==
    /\ \A r \in versions : r.whole
    /\ \A r \in versions : \E n \in DOMAIN Releases :
           r.version = Releases[n].version /\ r.key = Releases[n].signer
    /\ \A r, s \in versions : r.version = s.version => r = s

\* The latest version is the highest that is not a beta, in whatever order
\* versions are indexed (ProviderVersion.publish).  A deletion of a key
\* between requests' steps may leave none, but no version that is a beta or gone.
LatestIsHighestFinal ==
    /\ deployment.alone =>
          \A r \in versions : ~r.beta => \E s \in versions : s.id = latest /\ s.version >= r.version
    /\ latest # None => \E r \in versions : r.id = latest /\ ~r.beta

\* The key of every version is there, although a key is checked and deleted in
\* two steps: foreign keys or serving one request at a time see to it.
VersionsHaveKeys ==
    deployment.alone \/ deployment.foreignKeys => \A r \in versions : r.key \in keys

\* A provider is never left without versions by requests that come one at a
\* time: it is published with its first or not at all, and its keys stay.
ProviderHasAVersion == deployment.alone /\ provider => versions # {}
=============================================================================

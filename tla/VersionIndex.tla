---------------------------- MODULE VersionIndex ----------------------------
(***************************************************************************)
(* The rows that back the versions of one module provider, as              *)
(* src/terrareg/models.py keeps them: module_version rows found by a       *)
(* version string, the module_provider.latest_version_id pointer, and      *)
(* analytics rows that name a module_version row by its id.  There is no   *)
(* unique constraint on (module provider, version) and no foreign key      *)
(* from analytics, so uniqueness, the pointer and the ownership of         *)
(* analytics all rest on what the operations do.                           *)
(*                                                                         *)
(* An action is one whole request, run with no other request in progress   *)
(* and to its end; VersionRequests takes the same requests apart into      *)
(* their statements.  A request that fails changes nothing here: indexing  *)
(* runs in a transaction, and the others fail only before they write.      *)
(***************************************************************************)
EXTENDS Naturals, FiniteSets

CONSTANTS
    MaxVersion, \* versions are numbered 1..MaxVersion in LooseVersion order
    Beta,       \* the versions with a pre-release suffix (_validate_version)
    RowId,      \* primary keys of module_version
    Download,   \* download events
    NoRow       \* NULL

Version == 1..MaxVersion
ReindexModes == {"legacy", "auto-publish", "prohibit"}

ASSUME IndexAssumption ==
    /\ MaxVersion \in Nat
    /\ Beta \subseteq Version
    /\ NoRow \notin RowId

VARIABLES
    rows,       \* ids present in module_version
    versionOf,  \* id -> its version column
    published,  \* ids whose published column is true
    latest,     \* module_provider.latest_version_id
    parentOf,   \* download -> analytics.parent_module_version, NoRow if unrecorded
    mode,       \* MODULE_VERSION_REINDEX_MODE of the server
    auto        \* AUTO_PUBLISH_MODULE_VERSIONS of the server

tables == <<rows, versionOf, published, latest, parentOf>>
settings == <<mode, auto>>
vars == <<tables, settings>>

TypeOK ==
    /\ rows \subseteq RowId
    /\ versionOf \in [RowId -> Version]
    /\ published \subseteq rows
    /\ latest \in RowId \cup {NoRow}
    /\ parentOf \in [Download -> RowId \cup {NoRow}]
    /\ mode \in ReindexModes /\ auto \in BOOLEAN

-----------------------------------------------------------------------------
RowsFor(v) == {i \in rows : versionOf[i] = v}

Eligible(R, V, P) == {i \in R \cap P : V[i] \notin Beta}

\* ModuleProvider.calculate_latest_version: of the published rows that are
\* not betas, one with the highest version.
CalculateLatest(R, V, P) ==
    IF Eligible(R, V, P) = {}
    THEN NoRow
    ELSE CHOOSE i \in Eligible(R, V, P) : \A j \in Eligible(R, V, P) : V[j] <= V[i]

\* The test at the end of ModuleVersion.publish: the row just published only
\* becomes the latest if the calculation returns its version.
LatestAfterPublish(i, R, V, P, old) ==
    LET top == CalculateLatest(R, V, P)
    IN  IF top # NoRow /\ V[top] = V[i] THEN i ELSE old

Init ==
    /\ rows = {}
    /\ versionOf \in [RowId -> Version]
    /\ published = {}
    /\ latest = NoRow
    /\ parentOf = [d \in Download |-> NoRow]
    /\ mode \in ReindexModes /\ auto \in BOOLEAN

-----------------------------------------------------------------------------
\* A fault: the old row is deleted before it is asked whether it was published.
ShouldPublish_Forgets(v) == auto

\* The flag _create_db_row returns: publish the new row after extraction.
ShouldPublish(v) ==
    \/ auto
    \/ mode = "auto-publish" /\ RowsFor(v) \cap published # {}

\* A fault: the row that is replaced is left behind.
Index_KeepsOldRow(v, new) ==
    /\ new \notin rows
    /\ rows' = rows \cup {new}
    /\ versionOf' = [versionOf EXCEPT ![new] = v]
    /\ UNCHANGED <<published, latest, parentOf, settings>>

\* A fault: the analytics do not move to the new row.
Index_ForgetsAnalytics(v, new) ==
    /\ new \notin rows
    /\ rows' = (rows \ RowsFor(v)) \cup {new}
    /\ versionOf' = [versionOf EXCEPT ![new] = v]
    /\ published' = published \ RowsFor(v)
    /\ latest' = CalculateLatest(rows', versionOf', published')
    /\ UNCHANGED <<parentOf, settings>>

(***************************************************************************)
(* Index version v in row `new`: module_create_extraction_wrapper with an  *)
(* extraction that succeeds.  A row that already exists is deleted first   *)
(* (its analytics stay), which recalculates the latest version; the new    *)
(* row is unpublished; the analytics move to it; and it is published if    *)
(* the configuration says so.  SQLite may give the new row the id of the   *)
(* one just deleted, other databases never do: `new` is any free id.       *)
(***************************************************************************)
Index(v, new) ==
    LET old  == RowsFor(v)
        kept == published \ (old \cup {new})
    IN
    /\ mode = "prohibit" => old = {}
    /\ new \notin rows \ old
    /\ rows' = (rows \ old) \cup {new}
    /\ versionOf' = [versionOf EXCEPT ![new] = v]
    /\ parentOf' = [d \in Download |-> IF parentOf[d] \in old THEN new ELSE parentOf[d]]
    /\ LET before == IF old = {} THEN latest
                     ELSE CalculateLatest(rows \ old, versionOf, published)
       IN IF ShouldPublish(v)
          THEN /\ published' = kept \cup {new}
               /\ latest' = LatestAfterPublish(new, rows', versionOf', published', before)
          ELSE /\ published' = kept
               /\ latest' = before
    /\ UNCHANGED settings

\* POST .../publish.  Publishing a published version again is allowed.
Publish(i) ==
    /\ published' = published \cup RowsFor(versionOf[i])
    /\ latest' = LatestAfterPublish(i, rows, versionOf, published', latest)
    /\ UNCHANGED <<rows, versionOf, parentOf, settings>>

\* A fault: the latest version is only cleared, not recalculated.
Delete_ClearsLatest(i) ==
    /\ rows' = rows \ {i}
    /\ published' = published \ {i}
    /\ latest' = IF latest = i THEN NoRow ELSE latest
    /\ parentOf' = [d \in Download |-> IF parentOf[d] = i THEN NoRow ELSE parentOf[d]]
    /\ UNCHANGED <<versionOf, settings>>

\* A fault: 0 stands for "no parent" instead of NULL.
Delete_Zero(i) ==
    /\ rows' = rows \ {i}
    /\ published' = published \ {i}
    /\ latest' = CalculateLatest(rows', versionOf, published')
    /\ parentOf' = [d \in Download |-> IF parentOf[d] = i THEN 0 ELSE parentOf[d]]
    /\ UNCHANGED <<versionOf, settings>>

\* DELETE .../delete, and the GitHub hook's release "deleted"/"unpublished".
Delete(i) ==
    /\ rows' = rows \ {i}
    /\ published' = published \ {i}
    /\ latest' = CalculateLatest(rows', versionOf, published')
    /\ parentOf' = [d \in Download |-> IF parentOf[d] = i THEN NoRow ELSE parentOf[d]]
    /\ UNCHANGED <<versionOf, settings>>

\* ModuleProvider.delete: every version is deleted in turn, then the module
\* provider itself; a module provider of that name may be created again.
DeleteProvider ==
    /\ rows # {}
    /\ rows' = {}
    /\ published' = {}
    /\ latest' = NoRow
    /\ parentOf' = [d \in Download |-> IF parentOf[d] \in rows THEN NoRow ELSE parentOf[d]]
    /\ UNCHANGED <<versionOf, settings>>

\* record_module_version_download: a new analytics row for the version.
RecordDownload(i, d) ==
    /\ parentOf[d] = NoRow
    /\ parentOf' = [parentOf EXCEPT ![d] = i]
    /\ UNCHANGED <<rows, versionOf, published, latest, settings>>

\* The server is started again with other settings; the tables stay.
Reconfigure ==
    /\ mode' \in ReindexModes /\ auto' \in BOOLEAN
    /\ UNCHANGED tables

Next ==
    \/ \E v \in Version, new \in RowId : Index(v, new)
    \/ \E i \in rows : Publish(i) \/ Delete(i)
    \/ DeleteProvider
    \/ \E i \in rows, d \in Download : RecordDownload(i, d)
    \/ Reconfigure

Spec == Init /\ [][Next]_vars

-----------------------------------------------------------------------------
\* A version string is held by at most one row, though the schema has no
\* unique constraint: _create_db_row deletes the old row before it inserts.
OneRowPerVersion ==
    \A i, j \in rows : versionOf[i] = versionOf[j] => i = j

\* latest_version_id is NULL exactly when no version is eligible, and else
\* points at the highest published version that is not a beta, although
\* publish only ever raises it and only delete recalculates it.
LatestIsHighestPublished == latest = CalculateLatest(rows, versionOf, published)

\* Every analytics row names a row that exists: deletion takes them along and
\* re-indexing hands them over, with no foreign key to fall back on.
DownloadsHaveRows == \A d \in Download : parentOf[d] \in rows \cup {NoRow}

\* "Until the version is re-published, it will not be available to Terraform"
\* (docs/CONFIG.md): only a published version is ever served and counted.
OnlyPublishedAreServed ==
    [][\A d \in Download :
          parentOf[d] = NoRow /\ parentOf'[d] # NoRow => parentOf'[d] \in published]_vars

\* What the tables say of each version, in the catalogue's terms.
VersionState ==
    [v \in Version |-> IF RowsFor(v) = {} THEN "absent"
                       ELSE IF RowsFor(v) \cap published = {} THEN "indexed"
                       ELSE "published"]

LatestVersion == IF latest = NoRow THEN 0 ELSE versionOf[latest]

DownloadsByVersion ==
    [v \in Version |-> {d \in Download : parentOf[d] \in RowsFor(v)}]

\* mode and auto are the catalogue's own: the same settings on both sides.
Catalogue == INSTANCE VersionCatalogue WITH
    NoVersion <- 0,
    state     <- VersionState,
    latest    <- LatestVersion,
    downloads <- DownloadsByVersion

\* The rows implement the catalogue of versions that Terrareg promises: in
\* particular no re-index loses a download, and each publishes the version
\* exactly if the settings in force ask for it.
ImplementsCatalogue == Catalogue!Spec
=============================================================================

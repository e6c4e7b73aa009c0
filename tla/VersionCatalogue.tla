-------------------------- MODULE VersionCatalogue --------------------------
(***************************************************************************)
(* What Terrareg promises about the versions of one module provider,       *)
(* whatever tables it keeps them in: each version is absent, indexed or    *)
(* published; one of them is the latest; downloads are counted per         *)
(* version.  docs/CONFIG.md (MODULE_VERSION_REINDEX_MODE) and              *)
(* docs/modules/uploading.md say what indexing a version again does, and   *)
(* ModuleProvider.get_latest_version says what "latest" means.             *)
(***************************************************************************)
EXTENDS Naturals, FiniteSets

CONSTANTS
    Version,    \* the version strings, as naturals in LooseVersion order
    Beta,       \* those with a pre-release suffix
    Download,   \* download events that may be recorded
    NoVersion   \* "there is no latest version"

ReindexModes == {"legacy", "auto-publish", "prohibit"}
States == {"absent", "indexed", "published"}

VARIABLES
    state,      \* version -> one of States
    latest,     \* a version, or NoVersion
    downloads,  \* version -> the downloads counted for it
    mode,       \* MODULE_VERSION_REINDEX_MODE
    auto        \* AUTO_PUBLISH_MODULE_VERSIONS

settings == <<mode, auto>>
vars == <<state, latest, downloads, settings>>

\* l is the highest published version that is not a beta, if there is one.
IsLatest(l, st) ==
    LET Eligible == {v \in Version \ Beta : st[v] = "published"}
    IN  IF Eligible = {}
        THEN l = NoVersion
        ELSE l \in Eligible /\ \A v \in Eligible : v <= l

TypeOK ==
    /\ state \in [Version -> States]
    /\ latest \in Version \cup {NoVersion}
    /\ downloads \in [Version -> SUBSET Download]
    /\ mode \in ReindexModes /\ auto \in BOOLEAN

Init ==
    /\ state = [v \in Version |-> "absent"]
    /\ latest = NoVersion
    /\ downloads = [v \in Version |-> {}]
    /\ mode \in ReindexModes /\ auto \in BOOLEAN

\* A version is indexed (again).  Its downloads stay with it.
Index(v) ==
    /\ mode = "prohibit" => state[v] = "absent"
    /\ LET republish == mode = "auto-publish" /\ state[v] = "published"
       IN  state' = [state EXCEPT ![v] = IF republish \/ auto
                                         THEN "published" ELSE "indexed"]
    /\ IsLatest(latest', state')
    /\ UNCHANGED <<downloads, settings>>

Publish(v) ==
    /\ state[v] # "absent"
    /\ state' = [state EXCEPT ![v] = "published"]
    /\ IsLatest(latest', state')
    /\ UNCHANGED <<downloads, settings>>

Delete(v) ==
    /\ state[v] # "absent"
    /\ state' = [state EXCEPT ![v] = "absent"]
    /\ IsLatest(latest', state')
    /\ downloads' = [downloads EXCEPT ![v] = {}]
    /\ UNCHANGED settings

DeleteAll ==
    /\ state' = [v \in Version |-> "absent"]
    /\ latest' = NoVersion
    /\ downloads' = [v \in Version |-> {}]
    /\ UNCHANGED settings

RecordDownload(v, d) ==
    /\ state[v] # "absent"
    /\ \A w \in Version : d \notin downloads[w]
    /\ downloads' = [downloads EXCEPT ![v] = @ \cup {d}]
    /\ UNCHANGED <<state, latest, settings>>

\* The settings are read when the server starts.
Reconfigure ==
    /\ mode' \in ReindexModes /\ auto' \in BOOLEAN
    /\ UNCHANGED <<state, latest, downloads>>

Next ==
    \/ \E v \in Version : Index(v) \/ Publish(v) \/ Delete(v)
    \/ DeleteAll
    \/ Reconfigure
    \/ \E v \in Version, d \in Download : RecordDownload(v, d)

Spec == Init /\ [][Next]_vars
=============================================================================

------------------------ MODULE VersionIndex_proofs -------------------------
(***************************************************************************)
(* Proofs about VersionIndex, for every number of versions, choice of      *)
(* betas, set of row ids and set of downloads.  The inductive invariant is *)
(* IInv: the latest-version pointer can only be shown right together with  *)
(* the uniqueness of rows (publish compares version strings, not ids).     *)
(***************************************************************************)
EXTENDS VersionIndex, WellFoundedInduction, TLAPS

IInv == TypeOK /\ OneRowPerVersion /\ LatestIsHighestPublished /\ DownloadsHaveRows

Unique(R, V) == \A i, j \in R : V[i] = V[j] => i = j

-----------------------------------------------------------------------------
\* A set of eligible rows that is not empty has one with the highest version.
LEMMA HighestExists ==
    ASSUME NEW V \in [RowId -> Version], NEW E \in SUBSET RowId, E # {}
    PROVE  \E i \in E : \A j \in E : V[j] <= V[i]
  <1> DEFINE T == {MaxVersion - V[i] : i \in E}
  <1>1. \A i \in E : V[i] \in 1..MaxVersion
    BY DEF Version
  <1>2. T \subseteq Nat /\ T # {}
    BY <1>1, IndexAssumption
  <1>3. PICK x \in T : \A y \in T : ~ (<<y, x>> \in OpToRel(<, Nat))
    <2> HIDE DEF T
    <2> QED BY <1>2, WFMin, NatLessThanWellFounded
  <1>4. PICK i \in E : x = MaxVersion - V[i]
    OBVIOUS
  <1>5. ASSUME NEW j \in E PROVE V[j] <= V[i]
    <2> DEFINE y == MaxVersion - V[j]
    <2>1. y \in T /\ y \in Nat /\ x \in Nat
      BY <1>2, <1>3
    <2>2. ~ (y < x)
      BY <2>1, <1>3 DEF OpToRel
    <2> QED BY <2>2, <1>1, <1>4, <1>5, IndexAssumption
  <1> QED BY <1>5

\* What calculate_latest_version returns when some row is eligible.
LEMMA LatestIsEligible ==
    ASSUME NEW R \in SUBSET RowId, NEW V \in [RowId -> Version], NEW P,
           Eligible(R, V, P) # {}
    PROVE  /\ CalculateLatest(R, V, P) \in Eligible(R, V, P)
           /\ \A j \in Eligible(R, V, P) : V[j] <= V[CalculateLatest(R, V, P)]
  <1> DEFINE E == Eligible(R, V, P)
  <1>1. E \in SUBSET RowId /\ E # {}
    BY DEF Eligible
  <1>2. \E i \in E : \A j \in E : V[j] <= V[i]
    <2> HIDE DEF E
    <2> QED BY <1>1, HighestExists
  <1> QED BY <1>2 DEF CalculateLatest

LEMMA CalculatedType ==
    ASSUME NEW R \in SUBSET RowId, NEW V \in [RowId -> Version], NEW P
    PROVE  CalculateLatest(R, V, P) \in RowId \cup {NoRow}
  <1>1. CASE Eligible(R, V, P) = {}
    BY <1>1 DEF CalculateLatest
  <1>2. CASE Eligible(R, V, P) # {}
    BY <1>2, LatestIsEligible DEF Eligible
  <1> QED BY <1>1, <1>2

\* Where versions are unique, the highest eligible row is the only answer.
LEMMA LatestIsUnique ==
    ASSUME NEW R \in SUBSET RowId, NEW V \in [RowId -> Version], NEW P,
           Unique(R, V),
           NEW i \in Eligible(R, V, P),
           \A j \in Eligible(R, V, P) : V[j] <= V[i]
    PROVE  CalculateLatest(R, V, P) = i
  <1> DEFINE c == CalculateLatest(R, V, P)
  <1>1. c \in Eligible(R, V, P) /\ V[i] <= V[c] /\ V[c] <= V[i]
    BY LatestIsEligible
  <1>2. c \in R /\ i \in R /\ V[c] \in Int /\ V[i] \in Int
    BY <1>1 DEF Eligible, Version
  <1>3. V[c] = V[i]
    BY <1>1, <1>2
  <1> QED BY <1>2, <1>3 DEF Unique

\* The answer depends only on the eligible rows and their versions.
LEMMA LatestDependsOnEligible ==
    ASSUME NEW R \in SUBSET RowId, NEW V \in [RowId -> Version], NEW P,
           NEW R2 \in SUBSET RowId, NEW V2 \in [RowId -> Version], NEW P2,
           Eligible(R, V, P) = Eligible(R2, V2, P2),
           \A i \in Eligible(R, V, P) : V2[i] = V[i],
           Unique(R2, V2)
    PROVE  CalculateLatest(R, V, P) = CalculateLatest(R2, V2, P2)
  <1>1. CASE Eligible(R, V, P) = {}
    BY <1>1 DEF CalculateLatest
  <1>2. CASE Eligible(R, V, P) # {}
    <2> DEFINE c == CalculateLatest(R, V, P)
    <2>1. c \in Eligible(R2, V2, P2) /\ \A j \in Eligible(R2, V2, P2) : V2[j] <= V2[c]
      BY <1>2, LatestIsEligible
    <2> QED BY <2>1, LatestIsUnique
  <1> QED BY <1>1, <1>2

\* The test at the end of publish is enough: if the pointer was right before
\* row i was marked as published, it is right after.
LEMMA PublishKeepsLatest ==
    ASSUME NEW R \in SUBSET RowId, NEW V \in [RowId -> Version], NEW P,
           Unique(R, V), NEW i \in R
    PROVE  LatestAfterPublish(i, R, V, P \cup {i}, CalculateLatest(R, V, P))
             = CalculateLatest(R, V, P \cup {i})
  <1> DEFINE P2 == P \cup {i}
             top == CalculateLatest(R, V, P2)
  <1>1. Eligible(R, V, P) \subseteq Eligible(R, V, P2)
    BY DEF Eligible
  <1>2. CASE Eligible(R, V, P2) = {}
    BY <1>1, <1>2 DEF CalculateLatest, LatestAfterPublish
  <1>3. CASE Eligible(R, V, P2) # {}
    <2>1. top \in Eligible(R, V, P2) /\ \A j \in Eligible(R, V, P2) : V[j] <= V[top]
      BY <1>3, LatestIsEligible
    <2>2. top \in R /\ top # NoRow
      BY <2>1, IndexAssumption DEF Eligible
    <2>3. CASE V[top] = V[i]
      BY <2>2, <2>3 DEF LatestAfterPublish, Unique
    <2>4. CASE V[top] # V[i]
      <3>1. top \in Eligible(R, V, P)
        BY <2>1, <2>4 DEF Eligible
      <3>2. CalculateLatest(R, V, P) = top
        BY <3>1, <1>1, <2>1, LatestIsUnique
      <3> QED BY <3>2, <2>4 DEF LatestAfterPublish
    <2> QED BY <2>3, <2>4
  <1> QED BY <1>2, <1>3
-----------------------------------------------------------------------------
LEMMA InitIInv == Init => IInv
  BY DEF Init, IInv, TypeOK, OneRowPerVersion, LatestIsHighestPublished,
         DownloadsHaveRows, CalculateLatest, Eligible

\* Under the invariant a version has no row or exactly one.
LEMMA RowsOfVersion ==
    ASSUME IInv, NEW i \in rows
    PROVE  RowsFor(versionOf[i]) = {i}
  BY DEF IInv, OneRowPerVersion, RowsFor

\* What indexing leaves in the tables, the pointer aside.
LEMMA IndexTables ==
    ASSUME IInv, NEW v \in Version, NEW new \in RowId, Index(v, new)
    PROVE  /\ rows' \subseteq RowId /\ published' \subseteq rows'
           /\ versionOf' \in [RowId -> Version]
           /\ OneRowPerVersion' /\ DownloadsHaveRows'
           /\ parentOf' \in [Download -> RowId \cup {NoRow}]
  <1>1. rows' = (rows \ RowsFor(v)) \cup {new} /\ new \notin rows \ RowsFor(v)
    BY DEF Index
  <1>2. rows' \subseteq RowId
    BY <1>1 DEF IInv, TypeOK
  <1>3. versionOf' \in [RowId -> Version]
    BY DEF Index, IInv, TypeOK
  <1>4. published' \subseteq rows'
    BY <1>1 DEF Index, IInv, TypeOK
  <1>5. /\ versionOf'[new] = v
        /\ \A j \in rows' \ {new} : versionOf'[j] = versionOf[j] /\ versionOf[j] # v /\ j \in rows
    BY <1>1 DEF Index, IInv, TypeOK, RowsFor
  <1>6. OneRowPerVersion'
    BY <1>5, <1>1 DEF OneRowPerVersion, IInv
  <1>7. \A d \in Download : parentOf'[d] = IF parentOf[d] \in RowsFor(v) THEN new ELSE parentOf[d]
    BY DEF Index
  <1>8. DownloadsHaveRows'
    BY <1>1, <1>7 DEF IInv, DownloadsHaveRows
  <1>9. parentOf' \in [Download -> RowId \cup {NoRow}]
    BY DEF Index, IInv, TypeOK
  <1> QED BY <1>2, <1>3, <1>4, <1>6, <1>8, <1>9

\* After a re-index the pointer is right: deleting the old row recalculated
\* it, and publishing the new one raises it when it has to be raised.
LEMMA IndexLatest ==
    ASSUME IInv, NEW v \in Version, NEW new \in RowId, Index(v, new)
    PROVE  LatestIsHighestPublished'
  <1> DEFINE old    == RowsFor(v)
             kept   == published \ (old \cup {new})
             before == IF old = {} THEN latest
                       ELSE CalculateLatest(rows \ old, versionOf, published)
  <1>1. /\ rows \in SUBSET RowId /\ rows \ old \in SUBSET RowId /\ rows' \in SUBSET RowId
        /\ versionOf \in [RowId -> Version] /\ versionOf' \in [RowId -> Version]
        /\ Unique(rows', versionOf') /\ Unique(rows, versionOf)
    BY IndexTables DEF IInv, TypeOK, Unique, OneRowPerVersion
  <1>2. rows' = (rows \ old) \cup {new} /\ new \notin rows \ old
    BY DEF Index
  <1>3. \A i \in rows \ old : versionOf'[i] = versionOf[i]
    BY <1>2 DEF Index, IInv, TypeOK
  <1>4. Eligible(rows \ old, versionOf, published) = Eligible(rows', versionOf', kept)
    BY <1>2, <1>3 DEF Eligible
  <1>5. CalculateLatest(rows \ old, versionOf, published) = CalculateLatest(rows', versionOf', kept)
    <2>1. \A i \in Eligible(rows \ old, versionOf, published) : versionOf'[i] = versionOf[i]
      BY <1>3 DEF Eligible
    <2> HIDE DEF old, kept
    <2> QED BY <1>1, <1>4, <2>1, LatestDependsOnEligible
  <1>6. before = CalculateLatest(rows', versionOf', kept)
    <2>1. CASE old = {}
      <3>1. rows \ old = rows
        BY <2>1
      <3>2. latest = CalculateLatest(rows \ old, versionOf, published)
        BY <3>1 DEF IInv, LatestIsHighestPublished
      <3> HIDE DEF old, kept
      <3> QED BY <3>2, <2>1, <1>5
    <2>2. CASE old # {}
      BY <2>2, <1>5
    <2> QED BY <2>1, <2>2
  <1>7. CASE ShouldPublish(v)
    <2>1. /\ published' = kept \cup {new}
          /\ latest' = LatestAfterPublish(new, rows', versionOf', published', before)
      BY <1>7 DEF Index
    <2> HIDE DEF kept, before
    <2>2. latest' = CalculateLatest(rows', versionOf', published')
      BY <2>1, <1>6, <1>1, <1>2, PublishKeepsLatest
    <2> QED BY <2>2 DEF LatestIsHighestPublished
  <1>8. CASE ~ ShouldPublish(v)
    <2>1. published' = kept /\ latest' = before
      BY <1>8 DEF Index
    <2> QED BY <2>1, <1>6 DEF LatestIsHighestPublished
  <1> QED BY <1>7, <1>8

LEMMA IndexIInv ==
    ASSUME IInv, NEW v \in Version, NEW new \in RowId, Index(v, new)
    PROVE  IInv'
  <1>1. LatestIsHighestPublished'
    BY IndexLatest
  <1>2. latest' \in RowId \cup {NoRow}
    <2>1. rows' \in SUBSET RowId /\ versionOf' \in [RowId -> Version]
      BY IndexTables
    <2> QED BY <1>1, <2>1, CalculatedType DEF LatestIsHighestPublished
  <1>3. UNCHANGED settings
    BY DEF Index
  <1> QED BY <1>1, <1>2, <1>3, IndexTables DEF IInv, TypeOK, settings

LEMMA PublishIInv ==
    ASSUME IInv, NEW i \in rows, Publish(i)
    PROVE  IInv'
  <1>1. published' = published \cup {i}
    BY RowsOfVersion DEF Publish
  <1>2. /\ rows \in SUBSET RowId /\ versionOf \in [RowId -> Version] /\ Unique(rows, versionOf)
        /\ latest = CalculateLatest(rows, versionOf, published)
    BY DEF IInv, TypeOK, Unique, OneRowPerVersion, LatestIsHighestPublished
  <1>3. latest' = CalculateLatest(rows, versionOf, published')
    BY <1>1, <1>2, PublishKeepsLatest DEF Publish
  <1>4. latest' \in RowId \cup {NoRow}
    BY <1>2, <1>3, CalculatedType
  <1> QED BY <1>1, <1>3, <1>4
        DEF Publish, settings, IInv, TypeOK, OneRowPerVersion, LatestIsHighestPublished,
            DownloadsHaveRows

LEMMA DeleteIInv ==
    ASSUME IInv, NEW i \in rows, Delete(i)
    PROVE  IInv'
  <1>1. /\ rows' \in SUBSET RowId /\ versionOf \in [RowId -> Version]
        /\ latest' = CalculateLatest(rows', versionOf, published')
    BY DEF IInv, TypeOK, Delete
  <1>2. latest' \in RowId \cup {NoRow}
    BY <1>1, CalculatedType
  <1>3. DownloadsHaveRows'
    BY DEF IInv, DownloadsHaveRows, Delete
  <1> QED BY <1>1, <1>2, <1>3
        DEF Delete, settings, IInv, TypeOK, OneRowPerVersion, LatestIsHighestPublished

LEMMA DeleteProviderIInv ==
    ASSUME IInv, DeleteProvider
    PROVE  IInv'
  BY DEF IInv, TypeOK, OneRowPerVersion, LatestIsHighestPublished, DownloadsHaveRows,
         DeleteProvider, settings, CalculateLatest, Eligible

LEMMA RecordDownloadIInv ==
    ASSUME IInv, NEW i \in rows, NEW d \in Download, RecordDownload(i, d)
    PROVE  IInv'
  BY DEF IInv, TypeOK, OneRowPerVersion, LatestIsHighestPublished, DownloadsHaveRows,
         RecordDownload, settings

LEMMA ReconfigureIInv ==
    ASSUME IInv, Reconfigure
    PROVE  IInv'
  BY DEF IInv, TypeOK, OneRowPerVersion, LatestIsHighestPublished, DownloadsHaveRows,
         Reconfigure, tables

LEMMA NextIInv == IInv /\ [Next]_vars => IInv'
  <1> SUFFICES ASSUME IInv, [Next]_vars PROVE IInv'
    OBVIOUS
  <1>1. ASSUME NEW v \in Version, NEW new \in RowId, Index(v, new)
        PROVE  IInv'
    BY <1>1, IndexIInv
  <1>2. ASSUME NEW i \in rows, Publish(i) PROVE IInv'
    BY <1>2, PublishIInv
  <1>3. ASSUME NEW i \in rows, Delete(i) PROVE IInv'
    BY <1>3, DeleteIInv
  <1>4. CASE DeleteProvider
    BY <1>4, DeleteProviderIInv
  <1>5. ASSUME NEW i \in rows, NEW d \in Download, RecordDownload(i, d) PROVE IInv'
    BY <1>5, RecordDownloadIInv
  <1>6. CASE Reconfigure
    BY <1>6, ReconfigureIInv
  <1>7. CASE UNCHANGED vars
    BY <1>7 DEF vars, tables, settings, IInv, TypeOK, OneRowPerVersion,
                LatestIsHighestPublished, DownloadsHaveRows
  <1> QED BY <1>1, <1>2, <1>3, <1>4, <1>5, <1>6, <1>7 DEF Next

\* The inductive invariant holds in every reachable state.
THEOREM Invariance == Spec => []IInv
  BY InitIInv, NextIInv, PTL DEF Spec

\* The tables always have their types.
THEOREM TypeCorrect == Spec => []TypeOK
  <1>1. IInv => TypeOK BY DEF IInv
  <1> QED BY <1>1, Invariance, PTL

\* Re-indexing never leaves two rows for one version string.
THEOREM RowsAreUnique == Spec => []OneRowPerVersion
  <1>1. IInv => OneRowPerVersion BY DEF IInv
  <1> QED BY <1>1, Invariance, PTL

\* latest_version_id always points at the highest published version that is
\* not a beta, and is NULL when there is none.
THEOREM LatestIsCorrect == Spec => []LatestIsHighestPublished
  <1>1. IInv => LatestIsHighestPublished BY DEF IInv
  <1> QED BY <1>1, Invariance, PTL

\* No analytics row is ever left naming a row that is gone.
THEOREM NoOrphanedDownloads == Spec => []DownloadsHaveRows
  <1>1. IInv => DownloadsHaveRows BY DEF IInv
  <1> QED BY <1>1, Invariance, PTL

-----------------------------------------------------------------------------
(***************************************************************************)
(* Refinement: every request does to the catalogue what is promised of it. *)
(***************************************************************************)
LEMMA LatestRefines == IInv => Catalogue!IsLatest(LatestVersion, VersionState)
  <1> SUFFICES ASSUME IInv PROVE Catalogue!IsLatest(LatestVersion, VersionState)
    OBVIOUS
  <1> DEFINE E == Eligible(rows, versionOf, published)
             A == {v \in Version \ Beta : VersionState[v] = "published"}
  <1>1. \A v \in Version : VersionState[v] = "published" <=> \E i \in rows \cap published : versionOf[i] = v
    BY DEF VersionState, RowsFor
  <1>2. A = {versionOf[i] : i \in E}
    BY <1>1 DEF Eligible, IInv, TypeOK
  <1>3. CASE E = {}
    <2>1. LatestVersion = 0
      BY <1>3 DEF LatestVersion, IInv, LatestIsHighestPublished, CalculateLatest
    <2> QED BY <2>1, <1>2, <1>3 DEF Catalogue!IsLatest
  <1>4. CASE E # {}
    <2>1. latest \in E /\ \A j \in E : versionOf[j] <= versionOf[latest]
      BY <1>4, LatestIsEligible DEF IInv, TypeOK, LatestIsHighestPublished
    <2>2. LatestVersion = versionOf[latest]
      BY <2>1, IndexAssumption DEF LatestVersion, Eligible, IInv, TypeOK
    <2> QED BY <2>1, <2>2, <1>2 DEF Catalogue!IsLatest
  <1> QED BY <1>3, <1>4

LEMMA InitRefines == Init => Catalogue!Init
  BY DEF Init, Catalogue!Init, VersionState, LatestVersion, DownloadsByVersion, RowsFor,
         ReindexModes, Catalogue!ReindexModes

LEMMA IndexRefines ==
    ASSUME IInv, IInv', NEW v \in Version, NEW new \in RowId, Index(v, new),
           Catalogue!IsLatest(LatestVersion', VersionState')
    PROVE  Catalogue!Index(v)
  <1> DEFINE old == RowsFor(v)
  <1>1. /\ rows' = (rows \ old) \cup {new} /\ new \notin rows \ old
        /\ versionOf'[new] = v
        /\ \A j \in rows' \ {new} : versionOf'[j] = versionOf[j] /\ j \in rows \ old
    BY DEF Index, IInv, TypeOK
  <1>2. RowsFor(v)' = {new}
    BY <1>1 DEF RowsFor
  <1>3. \A w \in Version \ {v} : RowsFor(w)' = RowsFor(w)
    BY <1>1 DEF RowsFor
  <1>4. \A j \in rows' \ {new} : j \in published' <=> j \in published
    BY <1>1 DEF Index
  <1>5. new \in published' <=> ShouldPublish(v)
    BY DEF Index
  <1>6. VersionState[v] = "absent" <=> old = {}
    BY DEF VersionState
  <1>7. VersionState[v] = "published" <=> old \cap published # {}
    BY DEF VersionState
  <1>8. VersionState' = [VersionState EXCEPT ![v] = IF (mode = "auto-publish" /\ VersionState[v] = "published") \/ auto
                                                    THEN "published" ELSE "indexed"]
    <2>1. VersionState'[v] = IF ShouldPublish(v) THEN "published" ELSE "indexed"
      BY <1>2, <1>5 DEF VersionState
    <2>2. ASSUME NEW w \in Version \ {v} PROVE VersionState'[w] = VersionState[w]
      <3>1. RowsFor(w) \subseteq rows' \ {new}
        BY <2>2, <1>1, <1>3 DEF RowsFor
      <3>2. RowsFor(w) \cap published' = RowsFor(w) \cap published
        BY <3>1, <1>4
      <3> QED BY <3>2, <1>3 DEF VersionState
    <2> QED BY <2>1, <2>2, <1>7 DEF VersionState, ShouldPublish
  <1>9. DownloadsByVersion' = DownloadsByVersion
    <2>1. \A d \in Download : parentOf'[d] = IF parentOf[d] \in old THEN new ELSE parentOf[d]
      BY DEF Index
    <2>2. \A d \in Download : parentOf'[d] \in RowsFor(v)' <=> parentOf[d] \in RowsFor(v)
      BY <2>1, <1>1, <1>2, IndexAssumption DEF IInv, DownloadsHaveRows
    <2>3. ASSUME NEW w \in Version \ {v}, NEW d \in Download
          PROVE  parentOf'[d] \in RowsFor(w)' <=> parentOf[d] \in RowsFor(w)
      BY <2>3, <2>1, <1>1, <1>3 DEF RowsFor
    <2> QED BY <2>2, <2>3 DEF DownloadsByVersion
  <1>10. mode = "prohibit" => VersionState[v] = "absent"
    BY <1>6 DEF Index
  <1> QED BY <1>8, <1>9, <1>10 DEF Catalogue!Index, Catalogue!settings, Index, settings

LEMMA PublishRefines ==
    ASSUME IInv, NEW i \in rows, Publish(i),
           Catalogue!IsLatest(LatestVersion', VersionState')
    PROVE  Catalogue!Publish(versionOf[i])
  <1>1. RowsFor(versionOf[i]) = {i} /\ versionOf[i] \in Version
    BY RowsOfVersion DEF IInv, TypeOK
  <1>2. published' = published \cup {i} /\ UNCHANGED <<rows, versionOf, parentOf>>
    BY <1>1 DEF Publish
  <1>3. \A w \in Version : RowsFor(w)' = RowsFor(w) /\ (i \in RowsFor(w) => w = versionOf[i])
    BY <1>2 DEF RowsFor
  <1>4. VersionState' = [VersionState EXCEPT ![versionOf[i]] = "published"]
    BY <1>1, <1>2, <1>3 DEF VersionState
  <1>5. DownloadsByVersion' = DownloadsByVersion
    BY <1>2, <1>3 DEF DownloadsByVersion
  <1>6. VersionState[versionOf[i]] # "absent"
    BY <1>1 DEF VersionState
  <1> QED BY <1>4, <1>5, <1>6 DEF Catalogue!Publish, Catalogue!settings, Publish, settings

LEMMA DeleteRefines ==
    ASSUME IInv, NEW i \in rows, Delete(i),
           Catalogue!IsLatest(LatestVersion', VersionState')
    PROVE  Catalogue!Delete(versionOf[i])
  <1>1. RowsFor(versionOf[i]) = {i} /\ versionOf[i] \in Version
    BY RowsOfVersion DEF IInv, TypeOK
  <1>2. rows' = rows \ {i} /\ published' = published \ {i} /\ versionOf' = versionOf
    BY DEF Delete
  <1>3. RowsFor(versionOf[i])' = {}
    BY <1>1, <1>2 DEF RowsFor
  <1>4. \A w \in Version \ {versionOf[i]} : RowsFor(w)' = RowsFor(w) /\ i \notin RowsFor(w)
    BY <1>2 DEF RowsFor
  <1>5. VersionState' = [VersionState EXCEPT ![versionOf[i]] = "absent"]
    BY <1>1, <1>2, <1>3, <1>4 DEF VersionState
  <1>6. DownloadsByVersion' = [DownloadsByVersion EXCEPT ![versionOf[i]] = {}]
    <2>1. \A d \in Download : parentOf'[d] = IF parentOf[d] = i THEN NoRow ELSE parentOf[d]
      BY DEF Delete
    <2>2. \A w \in Version : NoRow \notin RowsFor(w)
      BY IndexAssumption DEF RowsFor, IInv, TypeOK
    <2>3. ASSUME NEW w \in Version \ {versionOf[i]}, NEW d \in Download
          PROVE  parentOf'[d] \in RowsFor(w)' <=> parentOf[d] \in RowsFor(w)
      BY <2>1, <2>2, <1>4
    <2>4. DOMAIN DownloadsByVersion = Version /\ DOMAIN DownloadsByVersion' = Version
      BY DEF DownloadsByVersion
    <2>5. \A w \in Version \ {versionOf[i]} : DownloadsByVersion'[w] = DownloadsByVersion[w]
      BY <2>3 DEF DownloadsByVersion
    <2>6. DownloadsByVersion'[versionOf[i]] = {}
      <3>1. DownloadsByVersion'[versionOf[i]] = {d \in Download : parentOf'[d] \in RowsFor(versionOf[i])'}
        BY <1>1, <1>2 DEF DownloadsByVersion, RowsFor
      <3> QED BY <3>1, <1>3
    <2> QED BY <2>4, <2>5, <2>6, <1>1 DEF DownloadsByVersion
  <1>7. VersionState[versionOf[i]] # "absent"
    BY <1>1 DEF VersionState
  <1> QED BY <1>5, <1>6, <1>7 DEF Catalogue!Delete, Catalogue!settings, Delete, settings

LEMMA DeleteProviderRefines ==
    ASSUME IInv, DeleteProvider
    PROVE  Catalogue!DeleteAll
  <1>1. \A w \in Version : RowsFor(w)' = {}
    BY DEF RowsFor, DeleteProvider
  <1>2. VersionState' = [w \in Version |-> "absent"] /\ DownloadsByVersion' = [w \in Version |-> {}]
    BY <1>1 DEF VersionState, DownloadsByVersion
  <1>3. LatestVersion' = 0
    BY DEF LatestVersion, DeleteProvider
  <1> QED BY <1>2, <1>3 DEF Catalogue!DeleteAll, Catalogue!settings, DeleteProvider, settings

LEMMA RecordDownloadRefines ==
    ASSUME IInv, NEW i \in rows, NEW d \in Download, RecordDownload(i, d)
    PROVE  Catalogue!RecordDownload(versionOf[i], d)
  <1>1. RowsFor(versionOf[i]) = {i} /\ versionOf[i] \in Version
    BY RowsOfVersion DEF IInv, TypeOK
  <1>2. \A w \in Version : RowsFor(w)' = RowsFor(w) /\ NoRow \notin RowsFor(w)
                           /\ (i \in RowsFor(w) => w = versionOf[i])
    BY IndexAssumption DEF RowsFor, RecordDownload, IInv, TypeOK
  <1>3. VersionState' = VersionState /\ LatestVersion' = LatestVersion
    BY <1>2 DEF VersionState, LatestVersion, RecordDownload
  <1>4. \A w \in Version : d \notin DownloadsByVersion[w]
    BY <1>2 DEF DownloadsByVersion, RecordDownload
  <1>5. DownloadsByVersion' = [DownloadsByVersion EXCEPT ![versionOf[i]] = @ \cup {d}]
    <2>1. parentOf'[d] = i /\ \A e \in Download \ {d} : parentOf'[e] = parentOf[e]
      BY DEF RecordDownload, IInv, TypeOK
    <2>2. \A w \in Version, e \in Download \ {d} : parentOf'[e] \in RowsFor(w)' <=> parentOf[e] \in RowsFor(w)
      BY <2>1, <1>2
    <2>3. \A w \in Version : parentOf'[d] \in RowsFor(w)' <=> w = versionOf[i]
      BY <2>1, <1>1, <1>2
    <2>4. DOMAIN DownloadsByVersion = Version /\ DOMAIN DownloadsByVersion' = Version
      BY DEF DownloadsByVersion
    <2>5. \A w \in Version \ {versionOf[i]} : DownloadsByVersion'[w] = DownloadsByVersion[w]
      BY <2>2, <2>3, <1>4 DEF DownloadsByVersion
    <2>6. DownloadsByVersion'[versionOf[i]] = DownloadsByVersion[versionOf[i]] \cup {d}
      BY <2>2, <2>3, <1>1 DEF DownloadsByVersion
    <2> QED BY <2>4, <2>5, <2>6, <1>1 DEF DownloadsByVersion
  <1>6. VersionState[versionOf[i]] # "absent"
    BY <1>1 DEF VersionState
  <1> QED BY <1>3, <1>4, <1>5, <1>6
        DEF Catalogue!RecordDownload, Catalogue!settings, RecordDownload, settings

LEMMA NextRefines ==
    IInv /\ IInv' /\ Catalogue!IsLatest(LatestVersion', VersionState') /\ [Next]_vars
      => [Catalogue!Next]_(Catalogue!vars)
  <1> SUFFICES ASSUME IInv, IInv', Catalogue!IsLatest(LatestVersion', VersionState'), [Next]_vars
               PROVE  [Catalogue!Next]_(Catalogue!vars)
    OBVIOUS
  <1>1. ASSUME NEW v \in Version, NEW new \in RowId, Index(v, new)
        PROVE  Catalogue!Next
    BY <1>1, IndexRefines DEF Catalogue!Next
  <1>2. ASSUME NEW i \in rows, Publish(i) \/ Delete(i) PROVE Catalogue!Next
    <2>1. versionOf[i] \in Version
      BY DEF IInv, TypeOK
    <2> QED BY <1>2, <2>1, PublishRefines, DeleteRefines DEF Catalogue!Next
  <1>3. CASE DeleteProvider
    BY <1>3, DeleteProviderRefines DEF Catalogue!Next
  <1>4. ASSUME NEW i \in rows, NEW d \in Download, RecordDownload(i, d) PROVE Catalogue!Next
    <2>1. versionOf[i] \in Version
      BY DEF IInv, TypeOK
    <2> QED BY <1>4, <2>1, RecordDownloadRefines DEF Catalogue!Next
  <1>5. CASE Reconfigure
    <2>1. UNCHANGED <<VersionState, LatestVersion, DownloadsByVersion>>
      BY <1>5 DEF Reconfigure, tables, VersionState, LatestVersion, DownloadsByVersion, RowsFor
    <2>2. mode' \in Catalogue!ReindexModes /\ auto' \in BOOLEAN
      BY <1>5 DEF Reconfigure, ReindexModes, Catalogue!ReindexModes
    <2> QED BY <2>1, <2>2 DEF Catalogue!Reconfigure, Catalogue!Next
  <1>6. CASE UNCHANGED vars
    BY <1>6 DEF vars, tables, settings, Catalogue!vars, Catalogue!settings,
                VersionState, LatestVersion, DownloadsByVersion, RowsFor
  <1> QED BY <1>1, <1>2, <1>3, <1>4, <1>5, <1>6 DEF Next

\* The tables implement the catalogue: every behaviour of the rows, read
\* through VersionState, LatestVersion and DownloadsByVersion, is one the
\* documentation promises.
THEOREM Refinement == Spec => ImplementsCatalogue
  <1>1. Catalogue!Spec <=> Catalogue!Init /\ [][Catalogue!Next]_(Catalogue!vars)
    BY DEF Catalogue!Spec
  <1>2. Catalogue!IsLatest(LatestVersion, VersionState)'
          => Catalogue!IsLatest(LatestVersion', VersionState')
    BY DEF Catalogue!IsLatest
  <1>3. Spec => Catalogue!Init /\ [][Catalogue!Next]_(Catalogue!vars)
    BY <1>2, Invariance, InitRefines, LatestRefines, NextRefines, PTL DEF Spec
  <1> QED BY <1>1, <1>3 DEF ImplementsCatalogue
=============================================================================

-------------------------- MODULE ServerJobs_proofs -------------------------
(***************************************************************************)
(* Proofs about ServerJobs and two of its parts.                           *)
(*                                                                         *)
(* ProviderIndex, for every list of releases, set of keys and threads,     *)
(* with and without foreign keys: what holds of the committed versions     *)
(* holds because of what each request carries from one step to the next    *)
(* (Own): the version it writes is not there, its key still is, and what   *)
(* it found when it looked is still so.                                    *)
(*                                                                         *)
(* IdpStore, for any number of threads, keys and values: of the threads    *)
(* that have written the row of a key and not yet committed there is one   *)
(* at most, and it keeps the row's expiry (SetterInv).                     *)
(*                                                                         *)
(* ServerJobs: a step of it is a step of one part and leaves the others,   *)
(* so that their inductive invariants hold side by side (JobsInv).         *)
(***************************************************************************)
EXTENDS ServerJobs, BulkImport_proofs, WellFoundedInduction, TLAPS

(* ProviderIndex *)

Request == [kind : Kinds \cup {"none"},
            pc : {"idle", "key", "row", "extract", "publish", "commit", "delete"},
            at : 0..(Len(Releases) + 1), key : Key \cup {None}, row : Row \cup {None},
            isLatest : BOOLEAN]

IndexTypes ==
    /\ deployment \in Deployment
    /\ keys \subseteq Key
    /\ provider \in BOOLEAN
    /\ versions \subseteq Row /\ \A r \in versions : r.id <= MaxId
    /\ latest \in {None} \cup {r.id : r \in versions}
    /\ request \in [Thread -> Request]

Written == {"extract", "publish", "commit"}

\* What a request has read and written is of the release it is at.
Fits(q) ==
    /\ q.pc \notin {"idle", "delete"} => q.kind \in {"publish", "index"}
    /\ q.pc = "delete" => q.kind = "delete" /\ q.key \in Key
    /\ q.pc = "key" => q.at \in 1..(Len(Releases) + 1)
    /\ q.pc \in {"row"} \cup Written =>
          /\ q.at \in DOMAIN Releases
          /\ q.key = Releases[q.at].signer /\ q.key \in Key
    /\ q.pc \notin Written => q.row = None
    /\ q.pc \in Written =>
          /\ q.row \in Row /\ q.row.id <= MaxId
          /\ q.row.version = Releases[q.at].version /\ q.row.key = q.key
    /\ q.pc \in {"publish", "commit"} => q.row.whole
    /\ q.pc = "commit" /\ q.isLatest => ~ q.row.beta

\* What a request goes by still holds.
Own(q) ==
    /\ q.row # None => \A r \in versions : r.id # q.row.id /\ r.version # q.row.version
    /\ deployment.foreignKeys /\ q.row # None => q.row.key \in keys
    /\ deployment.alone /\ q.pc \in {"row"} \cup Written => q.key \in keys
    /\ deployment.alone /\ q.pc = "delete" => \A r \in versions : r.key # q.key
    /\ deployment.alone /\ q.pc = "commit" =>
          (q.isLatest <=> q.row \in HighestFinal(versions \cup {q.row}))

OneAtATime ==
    deployment.alone =>
        \A t, u \in Thread : request[t].pc # "idle" /\ request[u].pc # "idle" => t = u

Served == \A t \in Thread : request[t].pc # "idle" => request[t].kind \in deployment.kinds[t]

Tables == VersionsAreWhole /\ LatestIsHighestFinal /\ VersionsHaveKeys /\ ProviderHasAVersion

IndexInv ==
    /\ IndexTypes
    /\ OneAtATime /\ Served
    /\ \A t \in Thread : Fits(request[t]) /\ Own(request[t])
    /\ Tables

-----------------------------------------------------------------------------
(* Lemmas *)

\* Ids are given above the highest that is seen.
LEMMA NextIdIsFresh ==
    ASSUME NEW S \in SUBSET Row, NEW n \in Nat, \A r \in S : r.id <= n
    PROVE  LET id == 1 + Max({0} \cup {r.id : r \in S}) IN
           id \in Nat \ {0} /\ \A r \in S : r.id < id
  <1> DEFINE I == {0} \cup {r.id : r \in S}
             T == {n - i : i \in I}
  <1>1. I \subseteq Nat /\ \A i \in I : i <= n
    BY DEF Row
  <1>2. T \subseteq Nat /\ n \in T
    <2> HIDE DEF I
    <2>1. 0 \in I
      BY DEF I
    <2> QED BY <1>1, <2>1
  <1>3. PICK x \in T : \A y \in T : ~ (<<y, x>> \in OpToRel(<, Nat))
    <2> HIDE DEF T
    <2> QED BY <1>2, WFMin, NatLessThanWellFounded
  <1> HIDE DEF I
  <1>4. PICK i \in I : x = n - i
    OBVIOUS
  <1>5. ASSUME NEW j \in I PROVE i >= j
    <2>1. n - j \in T /\ n - j \in Nat /\ x \in Nat
      BY <1>2
    <2>2. ~ (n - j < x)
      BY <1>3, <2>1 DEF OpToRel
    <2> QED BY <1>1, <1>4, <2>2
  <1>6. Max(I) \in I /\ \A j \in I : Max(I) >= j
    BY <1>5 DEF Max
  <1>7. \A r \in S : r.id \in I
    BY DEF I
  <1> DEFINE id == 1 + Max(I)
  <1>8. id \in Nat \ {0} /\ \A r \in S : r.id < id
    <2>1. PICK m \in I : m = Max(I) /\ \A j \in I : m >= j
      BY <1>6
    <2>2. id = 1 + m /\ m \in Nat
      BY <1>1, <2>1
    <2> HIDE DEF id
    <2>3. ASSUME NEW r \in S PROVE r.id < id
      <3>1. r.id \in I /\ r.id \in Nat /\ m >= r.id
        BY <1>1, <1>7, <2>1
      <3> QED BY <2>2, <3>1
    <2>4. id \in Nat \ {0}
      BY <2>2
    <2> QED BY <2>3, <2>4
  <1> QED BY <1>8 DEF I

\* Of requests that index, there is one at a time.
LEMMA OneWriter ==
    ASSUME ProviderIndexAssumption, IndexInv, NEW t \in Thread, NEW u \in Thread,
           request[t].pc \notin {"idle", "delete"}, request[u].pc \notin {"idle", "delete"}
    PROVE  t = u
  <1>1. CASE deployment.alone
    BY <1>1 DEF IndexInv, OneAtATime
  <1>2. CASE ~ deployment.alone
    <2>1. request[t].kind \in {"publish", "index"} /\ request[u].kind \in {"publish", "index"}
      BY DEF IndexInv, Fits
    <2>2. request[t].kind \in deployment.kinds[t] /\ request[u].kind \in deployment.kinds[u]
      BY DEF IndexInv, Served
    <2>3. deployment \in Deployment
      BY DEF IndexInv, IndexTypes
    <2> QED BY <1>2, <2>1, <2>2, <2>3 DEF ProviderIndexAssumption
  <1> QED BY <1>1, <1>2

\* A step that changes nothing but the request of t.
LEMMA RequestStep ==
    ASSUME IndexInv, NEW t \in Thread, NEW q \in Request,
           request' = [request EXCEPT ![t] = q],
           UNCHANGED <<deployment, keys, provider, versions, latest>>,
           Fits(q), Own(q),
           q.pc # "idle" => /\ q.kind \in deployment.kinds[t]
                            /\ \/ request[t].pc # "idle"
                               \/ deployment.alone => \A u \in Thread : request[u].pc = "idle"
    PROVE  IndexInv'
  <1>1. request'[t] = q /\ \A u \in Thread : u # t => request'[u] = request[u]
    BY DEF IndexInv, IndexTypes
  <1>2. IndexTypes'
    BY DEF IndexInv, IndexTypes
  <1>3. OneAtATime' /\ Served'
    BY <1>1 DEF IndexInv, OneAtATime, Served
  <1>5. ASSUME NEW u \in Thread PROVE (Fits(request[u]) /\ Own(request[u]))'
    <2>1. CASE u = t
      BY <1>1, <2>1 DEF Fits, Own, HighestFinal
    <2>2. CASE u # t
      BY <1>1, <2>2 DEF IndexInv, Fits, Own, HighestFinal
    <2> QED BY <2>1, <2>2
  <1>6. Tables'
    BY DEF IndexInv, Tables, VersionsAreWhole, LatestIsHighestFinal, VersionsHaveKeys,
           ProviderHasAVersion
  <1> QED BY <1>2, <1>3, <1>5, <1>6 DEF IndexInv

LEMMA IdleFits ==
    ASSUME ProviderIndexAssumption
    PROVE  NoRequest \in Request /\ Fits(NoRequest) /\ Own(NoRequest)
  <1>1. Len(Releases) \in Nat
    BY DEF ProviderIndexAssumption
  <1>2. NoRequest \in Request
    BY <1>1 DEF NoRequest, Request
  <1> QED BY <1>2 DEF NoRequest, Fits, Own, Written

LEMMA RequestEnds ==
    ASSUME ProviderIndexAssumption, IndexInv, NEW t \in Thread, Ends(t),
           UNCHANGED <<deployment, keys, provider, versions, latest>>
    PROVE  IndexInv'
  <1>1. NoRequest.pc = "idle"
    BY DEF NoRequest
  <1> QED BY <1>1, IdleFits, RequestStep DEF Ends

LEMMA NextReleaseStep ==
    ASSUME ProviderIndexAssumption, IndexInv, NEW t \in Thread,
           request[t].pc \in {"key", "row", "extract"}, request[t].at \in DOMAIN Releases,
           NextRelease(t), UNCHANGED <<deployment, keys, provider, versions, latest>>
    PROVE  IndexInv'
  <1> DEFINE p == request[t]
             q == [p EXCEPT !.pc = "key", !.at = @ + 1, !.row = None]
  <1>1. p \in Request /\ Fits(p) /\ Served
    BY DEF IndexInv, IndexTypes
  <1>2. Len(Releases) \in Nat /\ p.at \in 1..Len(Releases)
    BY DEF ProviderIndexAssumption
  <1>3. q.pc = "key" /\ q.at = p.at + 1 /\ q.row = None /\ q.kind = p.kind
    BY <1>1 DEF Request
  <1>4. q \in Request /\ Fits(q)
    <2>1. p.at + 1 \in 1..(Len(Releases) + 1) /\ p.at + 1 \in 0..(Len(Releases) + 1)
      BY <1>2
    <2>2. q \in Request
      BY <1>1, <2>1 DEF Request
    <2>3. p.kind \in {"publish", "index"}
      BY <1>1 DEF Fits
    <2> HIDE DEF q
    <2> QED BY <1>3, <2>1, <2>2, <2>3 DEF Fits, Written
  <1>5. Own(q)
    BY <1>3 DEF Own, Written
  <1>6. request' = [request EXCEPT ![t] = q]
    BY DEF NextRelease, IndexInv, IndexTypes
  <1>7. p.kind \in deployment.kinds[t] /\ p.pc # "idle"
    BY <1>1 DEF Served
  <1> HIDE DEF q
  <1> QED BY <1>3, <1>4, <1>5, <1>6, <1>7, RequestStep

LEMMA RefusedStep ==
    ASSUME ProviderIndexAssumption, IndexInv, NEW t \in Thread,
           request[t].pc \in {"key", "row", "extract"}, request[t].at \in DOMAIN Releases,
           Refused(t), UNCHANGED <<deployment, keys, provider, versions, latest>>
    PROVE  IndexInv'
  BY NextReleaseStep, RequestEnds DEF Refused

-----------------------------------------------------------------------------
(* Indexing *)

LEMMA StartStep ==
    ASSUME ProviderIndexAssumption, IndexInv, NEW t \in Thread,
           NEW kind \in {"publish", "index"}, NEW n \in 1..(Len(Releases) + 1),
           May(t, kind),
           request' = [request EXCEPT ![t] =
                          [NoRequest EXCEPT !.kind = kind, !.pc = "key", !.at = n]],
           UNCHANGED <<deployment, keys, provider, versions, latest>>
    PROVE  IndexInv'
  <1> DEFINE q == [NoRequest EXCEPT !.kind = kind, !.pc = "key", !.at = n]
  <1>1. Len(Releases) \in Nat
    BY DEF ProviderIndexAssumption
  <1>2. q.kind = kind /\ q.pc = "key" /\ q.at = n /\ q.row = None
    BY DEF NoRequest
  <1>3. q \in Request
    <2>1. n \in 0..(Len(Releases) + 1)
      BY <1>1
    <2> QED BY <1>1, <2>1, IdleFits DEF Request, Kinds
  <1>4. request' = [request EXCEPT ![t] = q]
    OBVIOUS
  <1> HIDE DEF q
  <1>5. Fits(q) /\ Own(q)
    BY <1>2 DEF Fits, Own, Written
  <1>6. kind \in deployment.kinds[t] /\ (deployment.alone => \A u \in Thread : request[u].pc = "idle")
    BY DEF May
  <1> QED BY <1>2, <1>3, <1>4, <1>5, <1>6, RequestStep

LEMMA ObtainKeyStep ==
    ASSUME ProviderIndexAssumption, IndexInv, NEW t \in Thread, ObtainKey(t)
    PROVE  IndexInv'
  <1> DEFINE p == request[t]
             q == [p EXCEPT !.pc = "row", !.key = Release(t).signer]
  <1>1. /\ p \in Request /\ p.pc = "key" /\ Fits(p)
        /\ p.at \in DOMAIN Releases
        /\ UNCHANGED <<deployment, keys, provider, versions, latest>>
    BY DEF ObtainKey, In, IndexInv, IndexTypes
  <1>2. CASE Refused(t)
    BY <1>1, <1>2, RefusedStep
  <1>3. CASE Ends(t)
    BY <1>1, <1>3, RequestEnds
  <1>4. CASE /\ Release(t).signer # None /\ Release(t).signer \in keys
             /\ request' = [request EXCEPT ![t].pc = "row", ![t].key = Release(t).signer]
    <2>1. request' = [request EXCEPT ![t] = q]
      BY <1>4 DEF IndexInv, IndexTypes
    <2>2. Release(t) = Releases[p.at] /\ Release(t).signer \in Key
      BY <1>4 DEF Release, IndexInv, IndexTypes
    <2>3. /\ q.pc = "row" /\ q.key = Releases[p.at].signer /\ q.kind = p.kind
          /\ q.at = p.at /\ q.row = p.row
      BY <1>1, <2>2 DEF Request
    <2>4. q \in Request
      BY <1>1, <2>2 DEF Request
    <2>5. p.kind \in {"publish", "index"} /\ p.row = None
      BY <1>1 DEF Fits, Written
    <2>6. p.kind \in deployment.kinds[t]
      BY <1>1 DEF IndexInv, Served
    <2>7. q.key \in keys /\ q.key \in Key
      BY <1>4, <2>2, <2>3
    <2> HIDE DEF q
    <2>8. Fits(q)
      BY <1>1, <2>3, <2>5, <2>7 DEF Fits, Written
    <2>9. Own(q)
      BY <2>3, <2>5, <2>7 DEF Own, Written
    <2> QED BY <1>1, <2>1, <2>3, <2>4, <2>6, <2>8, <2>9, RequestStep
  <1>5. Refused(t) \/ Ends(t)
          \/ /\ Release(t).signer # None /\ Release(t).signer \in keys
             /\ request' = [request EXCEPT ![t].pc = "row", ![t].key = Release(t).signer]
    <2> HIDE DEF q
    <2>1. CASE Release(t).signer = None
      BY <2>1 DEF ObtainKey
    <2>2. CASE Release(t).signer # None /\ Release(t).signer \notin keys
      BY <2>2 DEF ObtainKey
    <2>3. CASE Release(t).signer # None /\ Release(t).signer \in keys
      BY <2>3 DEF ObtainKey
    <2> QED BY <2>1, <2>2, <2>3
  <1> QED BY <1>2, <1>3, <1>4, <1>5

LEMMA InsertRowStep ==
    ASSUME ProviderIndexAssumption, IndexInv, NEW t \in Thread, InsertRow(t)
    PROVE  IndexInv'
  <1> DEFINE p == request[t]
             x == [id |-> NextId(t), version |-> Release(t).version,
                   beta |-> Release(t).beta, key |-> p.key, whole |-> FALSE]
             q == [p EXCEPT !.pc = "extract", !.row = x]
  <1>1. /\ p \in Request /\ p.pc = "row" /\ Fits(p) /\ Own(p)
        /\ UNCHANGED <<deployment, keys, provider, versions, latest>>
    BY DEF InsertRow, In, IndexInv, IndexTypes
  <1>2. /\ p.at \in DOMAIN Releases /\ p.key = Releases[p.at].signer /\ p.key \in Key
        /\ p.row = None /\ p.kind \in {"publish", "index"}
    BY <1>1 DEF Fits, Written
  <1>3. Visible(t) = versions
    BY <1>2 DEF Visible
  <1>4. /\ Release(t) = Releases[p.at]
        /\ Releases[p.at].version \in Nat /\ Releases[p.at].beta \in BOOLEAN
    <2> DEFINE R == [version : Nat, beta : BOOLEAN, signer : Key \cup {None}]
    <2>1. Releases \in Seq(R)
      BY DEF ProviderIndexAssumption
    <2>2. \A i \in DOMAIN Releases : Releases[i] \in R
      <3> HIDE DEF R
      <3> QED BY <2>1
    <2>3. Releases[p.at] \in R
      BY <1>2, <2>2
    <2> QED BY <2>3 DEF Release
  <1>5. /\ NextId(t) \in Nat \ {0} /\ NextId(t) <= MaxId
        /\ \A r \in versions : r.id < NextId(t)
    <2>1. versions \subseteq Row /\ (\A r \in versions : r.id <= MaxId) /\ MaxId \in Nat
      BY DEF IndexInv, IndexTypes, ProviderIndexAssumption
    <2> QED BY <1>3, <2>1, NextIdIsFresh DEF InsertRow, NextId
  <1>6. CASE Refused(t)
    BY <1>1, <1>2, <1>6, RefusedStep
  <1>7. CASE Ends(t)
    BY <1>1, <1>7, RequestEnds
  <1>8. CASE /\ \A r \in versions : r.version # Release(t).version
             /\ deployment.foreignKeys => p.key \in keys
             /\ request' = [request EXCEPT ![t].pc = "extract", ![t].row = x]
    <2>1. /\ x \in Row /\ x.id = NextId(t) /\ x.version = Releases[p.at].version
          /\ x.key = p.key
      BY <1>2, <1>4, <1>5 DEF Row
    <2>2. x # None
      BY <2>1 DEF ProviderIndexAssumption
    <2> HIDE DEF x
    <2>3. request' = [request EXCEPT ![t] = q]
      BY <1>8 DEF IndexInv, IndexTypes
    <2>4. /\ q.pc = "extract" /\ q.row = x /\ q.kind = p.kind /\ q.at = p.at /\ q.key = p.key
          /\ q \in Request
      BY <1>1, <2>1 DEF Request
    <2>5. p.kind \in deployment.kinds[t]
      BY <1>1 DEF IndexInv, Served
    <2> HIDE DEF q
    <2>6. Fits(q)
      BY <1>2, <1>5, <2>1, <2>4 DEF Fits, Written
    <2>7. Own(q)
      <3>1. \A r \in versions : r.id # x.id /\ r.version # x.version
        <4>1. \A r \in versions : r.id \in Nat
          BY DEF IndexInv, IndexTypes, Row
        <4> QED BY <1>4, <1>5, <1>8, <2>1, <4>1
      <3>2. deployment.alone => p.key \in keys
        BY <1>1 DEF Own
      <3> QED BY <1>8, <2>1, <2>4, <3>1, <3>2 DEF Own, Written
    <2> QED BY <1>1, <2>3, <2>4, <2>5, <2>6, <2>7, RequestStep
  <1>9. Refused(t) \/ Ends(t)
          \/ /\ \A r \in versions : r.version # Release(t).version
             /\ deployment.foreignKeys => p.key \in keys
             /\ request' = [request EXCEPT ![t].pc = "extract", ![t].row = x]
    <2>1. CASE \E r \in versions : r.version = Release(t).version
      BY <1>3, <2>1 DEF InsertRow
    <2>2. CASE (\A r \in versions : r.version # Release(t).version)
               /\ deployment.foreignKeys /\ p.key \notin keys
      BY <1>3, <2>2 DEF InsertRow
    <2>3. CASE (\A r \in versions : r.version # Release(t).version)
               /\ ~ (deployment.foreignKeys /\ p.key \notin keys)
      BY <1>3, <2>3 DEF InsertRow
    <2> QED BY <2>1, <2>2, <2>3
  <1> QED BY <1>6, <1>7, <1>8, <1>9

LEMMA ExtractStep ==
    ASSUME ProviderIndexAssumption, IndexInv, NEW t \in Thread, ExtractVersion(t)
    PROVE  IndexInv'
  <1> DEFINE p == request[t]
             x == [p.row EXCEPT !.whole = TRUE]
             q == [p EXCEPT !.pc = "publish", !.row = x]
  <1>1. /\ p \in Request /\ p.pc = "extract" /\ Fits(p) /\ Own(p)
        /\ UNCHANGED <<deployment, keys, provider, versions, latest>>
    BY DEF ExtractVersion, In, IndexInv, IndexTypes
  <1>2. /\ p.at \in DOMAIN Releases /\ p.key = Releases[p.at].signer /\ p.key \in Key
        /\ p.row \in Row /\ p.row.id <= MaxId /\ p.kind \in {"publish", "index"}
        /\ p.row.version = Releases[p.at].version /\ p.row.key = p.key
    BY <1>1 DEF Fits, Written
  <1>3. /\ x \in Row /\ x.id = p.row.id /\ x.version = p.row.version /\ x.key = p.row.key
        /\ x.whole
    BY <1>2 DEF Row
  <1>4. x # None /\ p.row # None
    BY <1>2, <1>3 DEF ProviderIndexAssumption
  <1>5. request' = [request EXCEPT ![t] = q]
    BY DEF ExtractVersion, IndexInv, IndexTypes
  <1> HIDE DEF x
  <1>6. /\ q.pc = "publish" /\ q.row = x /\ q.kind = p.kind /\ q.at = p.at /\ q.key = p.key
        /\ q \in Request
    BY <1>1, <1>3 DEF Request
  <1>7. p.kind \in deployment.kinds[t]
    BY <1>1 DEF IndexInv, Served
  <1> HIDE DEF q
  <1>8. Fits(q)
    BY <1>2, <1>3, <1>6 DEF Fits, Written
  <1>9. Own(q)
    BY <1>1, <1>3, <1>4, <1>6 DEF Own, Written
  <1> QED BY <1>1, <1>5, <1>6, <1>7, <1>8, <1>9, RequestStep

LEMMA PublishStep ==
    ASSUME ProviderIndexAssumption, IndexInv, NEW t \in Thread, PublishVersion(t)
    PROVE  IndexInv'
  <1> DEFINE p == request[t]
             latestNow == p.row \in HighestFinal(Visible(t))
             q == [p EXCEPT !.pc = "commit", !.isLatest = latestNow]
  <1>1. /\ p \in Request /\ p.pc = "publish" /\ Fits(p) /\ Own(p)
        /\ UNCHANGED <<deployment, keys, provider, versions, latest>>
    BY DEF PublishVersion, In, IndexInv, IndexTypes
  <1>2. p.row \in Row /\ p.row # None
    BY <1>1 DEF Fits, Written, ProviderIndexAssumption
  <1>3. latestNow \in BOOLEAN
    OBVIOUS
  <1>4. latestNow <=> p.row \in HighestFinal(versions \cup {p.row})
    BY <1>2 DEF Visible
  <1>5. request' = [request EXCEPT ![t] = q]
    BY DEF PublishVersion, IndexInv, IndexTypes
  <1>6. latestNow => ~ p.row.beta
    BY DEF HighestFinal
  <1> HIDE DEF latestNow
  <1>7. /\ q.pc = "commit" /\ q.row = p.row /\ q.kind = p.kind /\ q.at = p.at /\ q.key = p.key
        /\ q.isLatest = latestNow
        /\ q \in Request
    BY <1>1, <1>3 DEF Request
  <1>8. p.kind \in deployment.kinds[t]
    BY <1>1 DEF IndexInv, Served
  <1> HIDE DEF q
  <1>9. Fits(q)
    BY <1>1, <1>6, <1>7 DEF Fits, Written
  <1>10. Own(q)
    BY <1>1, <1>4, <1>7 DEF Own, Written
  <1> QED BY <1>1, <1>5, <1>7, <1>8, <1>9, <1>10, RequestStep

-----------------------------------------------------------------------------
(* Steps that change the tables *)

LEMMA CommitVersionStep ==
    ASSUME ProviderIndexAssumption, IndexInv, NEW t \in Thread, Commit(t)
    PROVE  IndexInv'
  <1> DEFINE p == request[t]
  <1>1. /\ p \in Request /\ p.pc = "commit" /\ Fits(p) /\ Own(p)
        /\ UNCHANGED <<deployment, keys>> /\ provider' = TRUE
        /\ request' = [request EXCEPT ![t] = NoRequest]
    BY DEF Commit, Ends, In, IndexInv, IndexTypes
  <1>2. PICK x \in Row : x = p.row
    BY <1>1 DEF Fits, Written
  <1>3. /\ x.id <= MaxId /\ x.whole /\ x.key = p.key /\ p.at \in DOMAIN Releases
        /\ x.version = Releases[p.at].version /\ x.key = Releases[p.at].signer
        /\ p.isLatest => ~ x.beta
    BY <1>1, <1>2 DEF Fits, Written
  <1>4. x # None
    BY <1>2 DEF ProviderIndexAssumption
  <1>5. /\ \A r \in versions : r.id # x.id /\ r.version # x.version
        /\ deployment.foreignKeys => x.key \in keys
        /\ deployment.alone => x.key \in keys
        /\ deployment.alone => (p.isLatest <=> x \in HighestFinal(versions \cup {x}))
    BY <1>1, <1>2, <1>3, <1>4 DEF Own, Written
  <1>6. versions' = versions \cup {x} /\ latest' = IF p.isLatest THEN x.id ELSE latest
    BY <1>2 DEF Commit
  <1>7. IndexTypes'
    BY <1>1, <1>2, <1>3, <1>6, IdleFits DEF IndexInv, IndexTypes
  <1>8. request'[t] = NoRequest /\ \A u \in Thread : u # t => request'[u] = request[u]
    BY <1>1 DEF IndexInv, IndexTypes
  <1>9. OneAtATime' /\ Served'
    BY <1>1, <1>8 DEF IndexInv, OneAtATime, Served, NoRequest
  <1>10. ASSUME NEW u \in Thread PROVE (Fits(request[u]) /\ Own(request[u]))'
    <2>1. CASE u = t
      BY <1>8, <2>1 DEF Fits, Own, Written, NoRequest
    <2>2. CASE u # t
      <3>1. request[u].pc \in {"idle", "delete"} /\ Fits(request[u])
        BY <1>1, <2>2, OneWriter DEF IndexInv, IndexTypes, Request
      <3>2. deployment.alone => request[u].pc = "idle"
        BY <1>1, <2>2 DEF IndexInv, OneAtATime
      <3>3. request[u].row = None
        BY <3>1 DEF Fits, Written
      <3> QED BY <1>1, <1>8, <2>2, <3>1, <3>2, <3>3 DEF Fits, Own, Written
    <2> QED BY <2>1, <2>2
  <1>11. VersionsAreWhole'
    <2>1. \A r \in versions' : r \in versions \/ r = x
      BY <1>6
    <2> QED BY <1>3, <1>5, <2>1 DEF IndexInv, Tables, VersionsAreWhole
  <1>12. LatestIsHighestFinal'
    <2> USE DEF IndexInv, Tables, LatestIsHighestFinal
    <2>1. \A r \in versions' : r.version \in Nat
      BY <1>7 DEF IndexTypes, Row
    <2>2. latest' # None => \E r \in versions' : r.id = latest' /\ ~ r.beta
      BY <1>3, <1>6
    <2>3. ASSUME deployment.alone, NEW r \in versions', ~ r.beta
          PROVE  \E s \in versions' : s.id = latest' /\ s.version >= r.version
      <3>1. CASE p.isLatest
        <4>1. \A s \in versions \cup {x} : ~ s.beta => s.version <= x.version
          BY <1>5, <2>3, <3>1 DEF HighestFinal
        <4> QED BY <1>6, <2>1, <2>3, <3>1, <4>1
      <3>2. CASE ~ p.isLatest
        <4>1. latest' = latest /\ versions \subseteq versions'
          BY <1>6, <3>2
        <4>2. CASE r \in versions
          BY <2>3, <4>1, <4>2
        <4>3. CASE r = x
          <5>1. PICK s \in versions : ~ s.beta /\ ~ (s.version <= x.version)
            BY <1>5, <2>1, <2>3, <3>2, <4>3, <1>6 DEF HighestFinal
          <5>2. PICK y \in versions : y.id = latest /\ y.version >= s.version
            BY <2>3, <5>1
          <5>3. s.version \in Nat /\ y.version \in Nat /\ x.version \in Nat
            BY <1>6, <2>1, <4>1
          <5> QED BY <4>1, <4>3, <5>1, <5>2, <5>3
        <4> QED BY <1>6, <4>2, <4>3
      <3> QED BY <3>1, <3>2
    <2> QED BY <1>1, <2>2, <2>3
  <1>13. VersionsHaveKeys'
    BY <1>1, <1>5, <1>6 DEF IndexInv, Tables, VersionsHaveKeys
  <1>14. ProviderHasAVersion'
    BY <1>6 DEF ProviderHasAVersion
  <1> QED BY <1>7, <1>9, <1>10, <1>11, <1>12, <1>13, <1>14 DEF IndexInv, Tables

LEMMA AddKeyStep ==
    ASSUME IndexInv, NEW t \in Thread, NEW k \in Key, AddKey(t, k)
    PROVE  IndexInv'
  <1>1. keys' = keys \cup {k} /\ UNCHANGED <<deployment, provider, versions, latest, request>>
    BY DEF AddKey
  <1>2. IndexTypes' /\ OneAtATime' /\ Served'
    BY <1>1 DEF IndexInv, IndexTypes, OneAtATime, Served
  <1>3. ASSUME NEW u \in Thread PROVE (Fits(request[u]) /\ Own(request[u]))'
    BY <1>1 DEF IndexInv, Fits, Own, HighestFinal
  <1>4. Tables'
    BY <1>1 DEF IndexInv, Tables, VersionsAreWhole, LatestIsHighestFinal, VersionsHaveKeys,
                ProviderHasAVersion
  <1> QED BY <1>2, <1>3, <1>4 DEF IndexInv

LEMMA CheckKeyStep ==
    ASSUME ProviderIndexAssumption, IndexInv, NEW t \in Thread, NEW k \in Key, CheckKey(t, k)
    PROVE  IndexInv'
  <1> DEFINE q == [NoRequest EXCEPT !.kind = "delete", !.pc = "delete", !.key = k]
  <1>1. q.kind = "delete" /\ q.pc = "delete" /\ q.key = k /\ q.row = None
    BY DEF NoRequest
  <1>2. q \in Request
    BY IdleFits DEF Request, Kinds
  <1>3. /\ request' = [request EXCEPT ![t] = q]
        /\ UNCHANGED <<deployment, keys, provider, versions, latest>>
        /\ \A r \in versions : r.key # k
    BY DEF CheckKey
  <1>4. "delete" \in deployment.kinds[t]
          /\ (deployment.alone => \A u \in Thread : request[u].pc = "idle")
    BY DEF CheckKey, May
  <1> HIDE DEF q
  <1>5. Fits(q) /\ Own(q)
    BY <1>1, <1>3 DEF Fits, Own, Written
  <1> QED BY <1>1, <1>2, <1>3, <1>4, <1>5, RequestStep

LEMMA DeleteKeyStep ==
    ASSUME ProviderIndexAssumption, IndexInv, NEW t \in Thread, DeleteKey(t)
    PROVE  IndexInv'
  <1> DEFINE k == request[t].key
             stays == IF deployment.foreignKeys THEN {r \in versions : r.key # k} ELSE versions
  <1>1. /\ request[t].pc = "delete" /\ Own(request[t])
        /\ UNCHANGED <<deployment, provider>>
        /\ keys' = keys \ {k} /\ versions' = stays
        /\ latest' = IF \E r \in versions \ stays : r.id = latest THEN None ELSE latest
        /\ request' = [request EXCEPT ![t] = NoRequest]
        /\ deployment.foreignKeys =>
              \A u \in Thread : request[u].row # None => request[u].row.key # k
    BY DEF DeleteKey, Ends, In, IndexInv
  <1>2. versions' \subseteq versions /\ (deployment.foreignKeys => \A r \in versions' : r.key # k)
    BY <1>1
  <1>3. deployment.alone => /\ \A r \in versions : r.key # k
                            /\ versions' = versions /\ latest' = latest
    <2>1. deployment.alone => \A r \in versions : r.key # k
      BY <1>1 DEF Own
    <2>2. deployment.alone => stays = versions
      BY <2>1
    <2> QED BY <1>1, <2>1, <2>2
  <1>4. latest' # None => latest' = latest /\ \A r \in versions : r.id = latest => r \in versions'
    BY <1>1
  <1> HIDE DEF stays
  <1>5. IndexTypes'
    <2>1. latest' \in {None} \cup {r.id : r \in versions'}
      BY <1>4 DEF IndexInv, IndexTypes
    <2>2. request' \in [Thread -> Request]
      BY <1>1, IdleFits DEF IndexInv, IndexTypes
    <2> QED BY <1>1, <1>2, <2>1, <2>2 DEF IndexInv, IndexTypes
  <1>6. request'[t] = NoRequest /\ \A u \in Thread : u # t => request'[u] = request[u]
    BY <1>1 DEF IndexInv, IndexTypes
  <1>7. OneAtATime' /\ Served'
    BY <1>1, <1>6 DEF IndexInv, OneAtATime, Served, NoRequest
  <1>8. ASSUME NEW u \in Thread PROVE (Fits(request[u]) /\ Own(request[u]))'
    <2>1. CASE u = t
      BY <1>6, <2>1 DEF Fits, Own, Written, NoRequest
    <2>2. CASE u # t
      <3>1. deployment.alone => request[u].pc = "idle"
        BY <1>1, <2>2 DEF IndexInv, OneAtATime
      <3>2. Fits(request[u]) /\ Own(request[u])
        BY DEF IndexInv
      <3> QED BY <1>1, <1>2, <1>6, <2>2, <3>1, <3>2 DEF Fits, Own, Written
    <2> QED BY <2>1, <2>2
  <1>9. VersionsAreWhole'
    BY <1>2 DEF IndexInv, Tables, VersionsAreWhole
  <1>10. LatestIsHighestFinal'
    BY <1>1, <1>3, <1>4 DEF IndexInv, Tables, LatestIsHighestFinal
  <1>11. VersionsHaveKeys'
    BY <1>1, <1>2, <1>3 DEF IndexInv, Tables, VersionsHaveKeys
  <1>12. ProviderHasAVersion'
    BY <1>1, <1>3 DEF IndexInv, Tables, ProviderHasAVersion
  <1> QED BY <1>5, <1>7, <1>8, <1>9, <1>10, <1>11, <1>12 DEF IndexInv, Tables

-----------------------------------------------------------------------------
LEMMA IndexInit ==
    ASSUME ProviderIndexAssumption, ProviderInit
    PROVE  IndexInv
  <1>1. IndexTypes
    BY IdleFits DEF ProviderInit, IndexTypes
  <1>2. \A t \in Thread : request[t] = NoRequest /\ request[t].pc = "idle"
    BY DEF ProviderInit, NoRequest
  <1>3. Tables
    BY DEF ProviderInit, Tables, VersionsAreWhole, LatestIsHighestFinal, VersionsHaveKeys,
           ProviderHasAVersion
  <1>4. \A t \in Thread : Fits(request[t]) /\ Own(request[t])
    BY <1>2, IdleFits
  <1> QED BY <1>1, <1>2, <1>3, <1>4 DEF IndexInv, OneAtATime, Served

LEMMA IndexNext ==
    ASSUME ProviderIndexAssumption, IndexInv, [ProviderNext]_providerVars
    PROVE  IndexInv'
  <1>1. CASE UNCHANGED providerVars
    <2>1. IndexTypes' /\ OneAtATime' /\ Served' /\ Tables'
      BY <1>1 DEF providerVars, IndexInv, IndexTypes, OneAtATime, Served, Tables, VersionsAreWhole,
                  LatestIsHighestFinal, VersionsHaveKeys, ProviderHasAVersion
    <2>2. ASSUME NEW u \in Thread PROVE (Fits(request[u]) /\ Own(request[u]))'
      BY <1>1 DEF providerVars, IndexInv, Fits, Own, HighestFinal
    <2> QED BY <2>1, <2>2 DEF IndexInv
  <1>2. ASSUME NEW t \in Thread, StartPublish(t) PROVE IndexInv'
    <2>1. 1 \in 1..(Len(Releases) + 1)
      BY DEF ProviderIndexAssumption
    <2> QED BY <1>2, <2>1, StartStep DEF StartPublish
  <1>3. ASSUME NEW t \in Thread, NEW n \in DOMAIN Releases, StartIndex(t, n) PROVE IndexInv'
    <2>1. n \in 1..(Len(Releases) + 1)
      BY DEF ProviderIndexAssumption
    <2> QED BY <1>3, <2>1, StartStep DEF StartIndex
  <1>4. ASSUME NEW t \in Thread, NothingFound(t) \/ RequestFails(t) PROVE IndexInv'
    BY <1>4, RequestEnds DEF NothingFound, RequestFails
  <1>5. ASSUME NEW t \in Thread, ExtractionRefused(t) PROVE IndexInv'
    <2>1. request[t].pc = "extract" /\ request[t].at \in DOMAIN Releases
      BY <1>5 DEF ExtractionRefused, In, IndexInv, Fits, Written
    <2> QED BY <1>5, <2>1, RefusedStep DEF ExtractionRefused
  <1> QED BY <1>1, <1>2, <1>3, <1>4, <1>5, ObtainKeyStep, InsertRowStep, ExtractStep, PublishStep,
             CommitVersionStep, AddKeyStep, CheckKeyStep, DeleteKeyStep DEF ProviderNext

LEMMA IndexAlways == ProviderSpec => []IndexInv
  <1>1. ProviderInit => IndexInv
    BY IndexInit, ProviderConstants
  <1>2. IndexInv /\ [ProviderNext]_providerVars => IndexInv'
    BY IndexNext, ProviderConstants
  <1> QED BY <1>1, <1>2, PTL DEF ProviderSpec

\* Every variable keeps its type, whatever releases a repository has.
THEOREM ProviderTypes == ProviderSpec => []ProviderTypeOK
  <1>1. IndexInv => ProviderTypeOK
    BY DEF IndexInv, IndexTypes, ProviderTypeOK, Request
  <1> QED BY <1>1, IndexAlways, PTL

\* Whatever releases were refused before it in the same transaction, and
\* wherever a request failed, a version that is there was extracted to the
\* end, has the key that signed its release, and is there once.
THEOREM ProviderVersionsAreWhole == ProviderSpec => []VersionsAreWhole
  <1>1. IndexInv => VersionsAreWhole
    BY DEF IndexInv, Tables
  <1> QED BY <1>1, IndexAlways, PTL

\* The latest version is one that is there and not a beta, or none, also after
\* deletions of keys; and where requests come one at a time it is the highest
\* that is not a beta, in whatever order versions are indexed.
THEOREM ProviderLatestIsRight == ProviderSpec => []LatestIsHighestFinal
  <1>1. IndexInv => LatestIsHighestFinal
    BY DEF IndexInv, Tables
  <1> QED BY <1>1, IndexAlways, PTL

\* The key of every version is there, because foreign keys are enforced or
\* because requests come one at a time.
THEOREM ProviderVersionsHaveKeys == ProviderSpec => []VersionsHaveKeys
  <1>1. IndexInv => VersionsHaveKeys
    BY DEF IndexInv, Tables
  <1> QED BY <1>1, IndexAlways, PTL

\* Requests that come one at a time never leave a provider without versions.
THEOREM ProvidersAreNotEmpty == ProviderSpec => []ProviderHasAVersion
  <1>1. IndexInv => ProviderHasAVersion
    BY DEF IndexInv, Tables
  <1> QED BY <1>1, IndexAlways, PTL
-----------------------------------------------------------------------------
(* IdpStore *)

SetterType ==
    /\ now \in Nat
    /\ stored \in [StoredKey -> StoredRow \cup {None}]
    /\ setter \in [Thread -> [pc : {"idle", "insert", "clean"}, key : StoredKey \cup {None},
                              value : Value \cup {None}, expiry : Nat]]

\* A thread between its write and its commit.
Writes(t, k) == setter[t].pc = "clean" /\ setter[t].key = k

Setting(t) == setter[t].pc # "idle" => setter[t].key \in StoredKey /\ setter[t].value \in Value

SetterInv ==
    /\ SetterType
    /\ \A t \in Thread : Setting(t)
    /\ \A t, u \in Thread, k \in StoredKey : Writes(t, k) /\ Writes(u, k) => t = u
    /\ \A t \in Thread, k \in StoredKey :
          Writes(t, k) /\ stored[k] # None => setter[t].expiry = stored[k].expiry

\* A value stays unless it has expired, with its expiry.
Kept == \A k \in StoredKey :
            stored[k] # None /\ ~Expired(stored[k]) =>
                stored'[k] # None /\ stored'[k].expiry = stored[k].expiry

-----------------------------------------------------------------------------
LEMMA UpdateValueStep ==
    ASSUME SetterInv, NEW t \in Thread, NEW k \in StoredKey, NEW v \in Value, UpdateValue(t, k, v)
    PROVE  SetterInv' /\ Kept
  <1>1. stored' = stored /\ now' = now /\ \A u \in Thread \ {t} : setter'[u] = setter[u]
    BY DEF UpdateValue, SetterInv, SetterType
  <1>2. CASE stored[k] = None
    <2>1. setter' = [setter EXCEPT ![t] = [pc |-> "insert", key |-> k, value |-> v, expiry |-> 0]]
      BY <1>2 DEF UpdateValue
    <2>2. setter'[t] = [pc |-> "insert", key |-> k, value |-> v, expiry |-> 0]
      BY <2>1 DEF SetterInv, SetterType
    <2>3. SetterType'
      BY <1>1, <2>1 DEF SetterInv, SetterType
    <2> QED BY <1>1, <2>2, <2>3 DEF SetterInv, Setting, Writes, Kept
  <1>3. CASE stored[k] # None
    <2> DEFINE s == [pc |-> "clean", key |-> k, value |-> v, expiry |-> stored[k].expiry]
    <2>1. setter' = [setter EXCEPT ![t] = s]
      BY <1>3 DEF UpdateValue
    <2>2. setter'[t] = s /\ stored[k].expiry \in Nat
      BY <1>3, <2>1 DEF SetterInv, SetterType, StoredRow
    <2>3. \A u \in Thread \ {t} : ~Writes(u, k)
      BY <1>3 DEF UpdateValue, Blocked, Writes
    <2>4. SetterType'
      BY <1>1, <2>1, <2>2 DEF SetterInv, SetterType
    <2> QED BY <1>1, <2>2, <2>3, <2>4 DEF SetterInv, Setting, Writes, Kept
  <1> QED BY <1>2, <1>3

\* A thread ends without having changed anything.
LEMMA SetterEnds ==
    ASSUME SetterInv, NEW t \in Thread,
           setter' = [setter EXCEPT ![t] = NotSetting], UNCHANGED <<now, stored>>
    PROVE  SetterInv' /\ Kept
  <1>1. \A u \in Thread \ {t} : setter'[u] = setter[u]
    BY DEF SetterInv, SetterType
  <1>2. setter'[t] = NotSetting
    BY DEF SetterInv, SetterType
  <1>3. SetterType'
    BY DEF SetterInv, SetterType, NotSetting
  <1> QED BY <1>1, <1>2, <1>3 DEF SetterInv, Setting, Writes, NotSetting, Kept

LEMMA InsertValueStep ==
    ASSUME SetterInv, Lifetime \in Nat, NEW t \in Thread, InsertValue(t)
    PROVE  SetterInv' /\ Kept
  <1> DEFINE k == setter[t].key
  <1>1. CASE stored[k] # None
    BY <1>1, SetterEnds DEF InsertValue
  <1>2. CASE stored[k] = None
    <2> DEFINE s == [setter[t] EXCEPT !.pc = "clean", !.expiry = now + Lifetime]
    <2>1. setter' = [setter EXCEPT ![t] = s] /\ stored' = stored /\ now' = now
      BY <1>2 DEF InsertValue
    <2>2. k \in StoredKey /\ setter[t].value \in Value /\ now + Lifetime \in Nat
      BY DEF InsertValue, SetterInv, SetterType, Setting
    <2>3. setter'[t] = s /\ \A u \in Thread \ {t} : setter'[u] = setter[u]
      BY <2>1 DEF SetterInv, SetterType
    <2>4. s.pc = "clean" /\ s.key = k /\ s.value = setter[t].value
      BY DEF SetterInv, SetterType
    <2>5. \A u \in Thread \ {t} : ~Writes(u, k)
      BY DEF InsertValue, Blocked, Writes
    <2>6. SetterType'
      <3>1. s \in [pc : {"idle", "insert", "clean"}, key : StoredKey \cup {None},
                   value : Value \cup {None}, expiry : Nat]
        BY <2>2 DEF SetterInv, SetterType
      <3> HIDE DEF s
      <3> QED BY <2>1, <3>1 DEF SetterInv, SetterType
    <2>7. \A u \in Thread : Setting(u)'
      BY <2>2, <2>3, <2>4 DEF SetterInv, Setting
    <2>8. /\ \A j \in StoredKey : Writes(t, j)' => j = k
          /\ \A u \in Thread \ {t}, j \in StoredKey : Writes(u, j)' <=> Writes(u, j)
      BY <2>3, <2>4 DEF Writes
    <2>9. \A u, w \in Thread, j \in StoredKey : Writes(u, j)' /\ Writes(w, j)' => u = w
      BY <2>5, <2>8 DEF SetterInv
    <2>10. \A u \in Thread, j \in StoredKey :
              Writes(u, j)' /\ stored'[j] # None => setter'[u].expiry = stored'[j].expiry
      BY <1>2, <2>1, <2>3, <2>8 DEF SetterInv
    <2> QED BY <2>1, <2>6, <2>7, <2>9, <2>10 DEF SetterInv, Kept
  <1> QED BY <1>1, <1>2

LEMMA CommitValueStep ==
    ASSUME SetterInv, None \notin StoredRow, NEW t \in Thread, CleanAndCommit(t)
    PROVE  SetterInv' /\ Kept
  <1> DEFINE k   == setter[t].key
             row == [value |-> setter[t].value, expiry |-> setter[t].expiry]
             written == [stored EXCEPT ![k] = row]
  <1>1. /\ Writes(t, k) /\ k \in StoredKey /\ row \in StoredRow
        /\ setter' = [setter EXCEPT ![t] = NotSetting] /\ now' = now
        /\ stored' = [j \in StoredKey |-> IF shouldExpire /\ Expired(written[j]) THEN None
                                                                                 ELSE written[j]]
    BY DEF CleanAndCommit, SetterInv, SetterType, Setting, Writes, StoredRow
  <1>2. /\ setter'[t] = NotSetting
        /\ \A u \in Thread \ {t} : setter'[u] = setter[u]
    BY <1>1 DEF SetterInv, SetterType
  <1>3. /\ written[k] = row
        /\ \A j \in StoredKey \ {k} : written[j] = stored[j]
        /\ \A j \in StoredKey : written[j] \in StoredRow \cup {None}
    BY <1>1 DEF SetterInv, SetterType
  <1>4. \A j \in StoredKey : stored'[j] = None \/ stored'[j] = written[j]
    BY <1>1
  <1>5. SetterType'
    <2>1. stored' \in [StoredKey -> StoredRow \cup {None}]
      BY <1>1, <1>3
    <2> QED BY <1>1, <2>1 DEF SetterInv, SetterType, NotSetting
  <1>6. ~Writes(t, k)' /\ (\A j \in StoredKey : ~Writes(t, j)')
        /\ \A u \in Thread \ {t}, j \in StoredKey : Writes(u, j)' <=> Writes(u, j)
    BY <1>2 DEF Writes, NotSetting
  <1>7. \A u \in Thread \ {t} : ~Writes(u, k)
    BY <1>1 DEF SetterInv
  <1>8. SetterInv'
    <2>1. \A u \in Thread : Setting(u)'
      BY <1>2 DEF SetterInv, Setting, NotSetting
    <2>2. \A u, w \in Thread, j \in StoredKey : Writes(u, j)' /\ Writes(w, j)' => u = w
      BY <1>6 DEF SetterInv
    <2>3. \A u \in Thread, j \in StoredKey :
              Writes(u, j)' /\ stored'[j] # None => setter'[u].expiry = stored'[j].expiry
      <3> SUFFICES ASSUME NEW u \in Thread, NEW j \in StoredKey, Writes(u, j)', stored'[j] # None
                   PROVE  setter'[u].expiry = stored'[j].expiry
        OBVIOUS
      <3>1. u # t /\ j # k /\ Writes(u, j)
        BY <1>6, <1>7
      <3>2. stored'[j] = stored[j]
        BY <1>3, <1>4, <3>1
      <3> QED BY <1>2, <3>1, <3>2 DEF SetterInv
    <2> QED BY <1>5, <2>1, <2>2, <2>3 DEF SetterInv
  <1>9. Kept
    <2> SUFFICES ASSUME NEW j \in StoredKey, stored[j] # None, ~Expired(stored[j])
                 PROVE  stored'[j] # None /\ stored'[j].expiry = stored[j].expiry
      BY DEF Kept
    <2>1. written[j] # None /\ written[j].expiry = stored[j].expiry
      BY <1>1, <1>3 DEF SetterInv
    <2>2. ~Expired(written[j])
      BY <2>1 DEF Expired
    <2> QED BY <1>1, <2>1, <2>2
  <1> QED BY <1>8, <1>9

-----------------------------------------------------------------------------
LEMMA SetterStep ==
    ASSUME SetterInv, None \notin StoredRow, Lifetime \in Nat, [StoreNext]_storeVars
    PROVE  SetterInv' /\ Kept
  <1>1. CASE \E t \in Thread, k \in StoredKey, v \in Value : UpdateValue(t, k, v)
    BY <1>1, UpdateValueStep
  <1>2. CASE \E t \in Thread : InsertValue(t)
    BY <1>2, InsertValueStep
  <1>3. CASE \E t \in Thread : CleanAndCommit(t)
    BY <1>3, CommitValueStep
  <1>4. CASE \E t \in Thread : SetterFails(t)
    BY <1>4, SetterEnds DEF SetterFails
  <1>5. CASE Tick \/ UNCHANGED storeVars
    <2>1. UNCHANGED <<stored, setter>> /\ now' \in Nat
      BY <1>5 DEF Tick, storeVars, SetterInv, SetterType
    <2> QED BY <2>1 DEF SetterInv, SetterType, Setting, Writes, Kept
  <1> QED BY <1>1, <1>2, <1>3, <1>4, <1>5 DEF StoreNext

LEMMA SetterInit == StoreInit => SetterInv
  BY DEF StoreInit, SetterInv, SetterType, Setting, Writes, NotSetting

LEMMA SetterAlways == StoreSpec => []SetterInv
  <1>1. SetterInv /\ [StoreNext]_storeVars => SetterInv'
    BY SetterStep, StoreAssumption
  <1> QED BY <1>1, SetterInit, PTL DEF StoreSpec

\* No thread that sets, inserts or cleans up loses another one's value
\* (__setitem__): for every set of threads and keys, and every lifetime.
THEOREM StoreKeepsValues == StoreSpec => ValuesAreKept
  <1>1. SetterInv /\ [StoreNext]_storeVars => [Kept]_storeVars
    BY SetterStep, StoreAssumption
  <1> QED BY <1>1, SetterAlways, PTL DEF StoreSpec, ValuesAreKept, Kept

\* No expiry is later than the clock allows.
ClockInv ==
    /\ shouldExpire \in BOOLEAN /\ onSqlite \in BOOLEAN
    /\ now \in 0..MaxTime
    /\ \A k \in StoredKey : stored[k] # None => stored[k].expiry <= MaxTime + Lifetime
    /\ \A t \in Thread : setter[t].expiry <= MaxTime + Lifetime

LEMMA ClockStep ==
    ASSUME SetterInv, ClockInv, [StoreNext]_storeVars
    PROVE  ClockInv'
  <1> USE StoreAssumption
  <1>1. ASSUME NEW t \in Thread, NEW k \in StoredKey, NEW v \in Value, UpdateValue(t, k, v)
        PROVE  ClockInv'
    <2>1. UNCHANGED <<shouldExpire, onSqlite, now, stored>>
      BY <1>1 DEF UpdateValue
    <2>2. setter'[t].expiry <= MaxTime + Lifetime
      <3>1. CASE stored[k] = None
        <4>1. setter'[t].expiry = 0
          BY <1>1, <3>1 DEF UpdateValue, SetterInv, SetterType
        <4> QED BY <4>1
      <3>2. CASE stored[k] # None
        <4>1. setter'[t].expiry = stored[k].expiry
          BY <1>1, <3>2 DEF UpdateValue, SetterInv, SetterType
        <4> QED BY <3>2, <4>1 DEF ClockInv
      <3> QED BY <3>1, <3>2
    <2>3. \A u \in Thread \ {t} : setter'[u] = setter[u]
      BY <1>1 DEF UpdateValue, SetterInv, SetterType
    <2> QED BY <2>1, <2>2, <2>3 DEF ClockInv
  <1>2. ASSUME NEW t \in Thread, InsertValue(t) PROVE ClockInv'
    <2>1. UNCHANGED <<shouldExpire, onSqlite, now, stored>>
      BY <1>2 DEF InsertValue
    <2>2. setter'[t].expiry \in {0, now + Lifetime}
      BY <1>2 DEF InsertValue, SetterInv, SetterType, NotSetting
    <2>3. \A u \in Thread \ {t} : setter'[u] = setter[u]
      BY <1>2 DEF InsertValue, SetterInv, SetterType
    <2> QED BY <2>1, <2>2, <2>3 DEF ClockInv
  <1>3. ASSUME NEW t \in Thread, CleanAndCommit(t) PROVE ClockInv'
    <2>1. UNCHANGED <<shouldExpire, onSqlite, now>>
      BY <1>3 DEF CleanAndCommit
    <2>2. \A k \in StoredKey :
              stored'[k] # None => stored'[k] = stored[k] \/ stored'[k].expiry = setter[t].expiry
      BY <1>3 DEF CleanAndCommit, SetterInv, SetterType
    <2>3. \A u \in Thread : setter'[u] = setter[u] \/ setter'[u].expiry = 0
      BY <1>3 DEF CleanAndCommit, SetterInv, SetterType, NotSetting
    <2> QED BY <2>1, <2>2, <2>3 DEF ClockInv
  <1>4. ASSUME NEW t \in Thread, SetterFails(t) PROVE ClockInv'
    <2>1. UNCHANGED <<shouldExpire, onSqlite, now, stored>>
      BY <1>4 DEF SetterFails
    <2>2. \A u \in Thread : setter'[u] = setter[u] \/ setter'[u].expiry = 0
      BY <1>4 DEF SetterFails, SetterInv, SetterType, NotSetting
    <2> QED BY <2>1, <2>2 DEF ClockInv
  <1>5. CASE Tick
    BY <1>5 DEF Tick, ClockInv
  <1>6. CASE UNCHANGED storeVars
    BY <1>6 DEF storeVars, ClockInv
  <1> QED BY <1>1, <1>2, <1>3, <1>4, <1>5, <1>6 DEF StoreNext

LEMMA ClockInit == StoreInit => ClockInv
  BY StoreAssumption, DatabaseAssumption DEF StoreInit, ClockInv, NotSetting

LEMMA StoreTypes == SetterInv /\ ClockInv => StoreTypeOK
  BY StoreAssumption DEF SetterInv, SetterType, ClockInv, StoreTypeOK, StoredRow

-----------------------------------------------------------------------------
(* ServerJobs: the parts side by side. *)

JobsInv == ImportInv /\ IndexInv /\ SetterInv /\ ClockInv

LEMMA JobsStart == JobsInit => JobsInv
  BY ImportInit, IndexInit, SetterInit, ClockInit, ProviderConstants DEF JobsInit, JobsInv

\* Whatever the behaviour is about, a step is allowed by each part.
LEMMA JobsStep ==
    ASSUME [JobsNext]_jobVars
    PROVE  [Next]_importVars /\ [ProviderNext]_providerVars /\ [StoreNext]_storeVars
  BY DEF JobsNext, jobVars

LEMMA JobsInductive == JobsInv /\ [JobsNext]_jobVars => JobsInv'
  <1> SUFFICES ASSUME JobsInv, [JobsNext]_jobVars PROVE JobsInv'
    OBVIOUS
  <1>1. [Next]_importVars /\ [ProviderNext]_providerVars /\ [StoreNext]_storeVars
    BY JobsStep
  <1>2. ImportInv'
    BY <1>1, ImportNext DEF JobsInv
  <1>3. IndexInv'
    BY <1>1, IndexNext, ProviderConstants DEF JobsInv
  <1>4. SetterInv'
    BY <1>1, SetterStep, StoreAssumption DEF JobsInv
  <1>5. ClockInv'
    BY <1>1, ClockStep DEF JobsInv
  <1> QED BY <1>2, <1>3, <1>4, <1>5 DEF JobsInv

LEMMA JobsAlways == JobsSpec => []JobsInv
  BY JobsStart, JobsInductive, PTL DEF JobsSpec

\* The state of imports, provider versions and stored values keeps its type,
\* whatever the threads do: nobody but one thread holds the lock for Terraform
\* or writes to SQLite, what is told of a version is one of the changes, and
\* latest_version_id is the id of a version (foreign keys are set to NULL).
THEOREM JobsTypes == JobsSpec => []TypesOK
  <1>1. JobsInv => TypesOK
    <2>1. ImportInv => TypeOK
      BY ImportTypes
    <2>2. IndexInv => ProviderTypeOK
      BY DEF IndexInv, IndexTypes, ProviderTypeOK, Request
    <2>3. SetterInv /\ ClockInv => StoreTypeOK
      BY StoreTypes
    <2> QED BY <2>1, <2>2, <2>3 DEF JobsInv, TypesOK
  <1> QED BY <1>1, JobsAlways, PTL

\* Neither imports nor stored values disturb what holds of the versions of a
\* provider: the parts share threads and a database, and no table.
THEOREM JobsKeepProviders ==
    JobsSpec => []VersionsAreWhole /\ []LatestIsHighestFinal
                /\ []VersionsHaveKeys /\ []ProviderHasAVersion
  <1>1. JobsSpec => ProviderSpec
    <2>1. JobsInit => ProviderInit
      BY DEF JobsInit
    <2>2. [JobsNext]_jobVars => [ProviderNext]_providerVars
      BY JobsStep
    <2> QED BY <2>1, <2>2, PTL DEF JobsSpec, ProviderSpec
  <1> QED
    BY <1>1, ProviderVersionsAreWhole, ProviderLatestIsRight, ProviderVersionsHaveKeys,
       ProvidersAreNotEmpty

\* Nor do imports and the indexing of providers disturb the tables in which
\* the identity provider keeps its values.
THEOREM JobsKeepValues == JobsSpec => ValuesAreKept
  <1>1. JobsInit => StoreInit
    BY DEF JobsInit
  <1>2. [JobsNext]_jobVars => [StoreNext]_storeVars
    BY JobsStep
  <1>3. JobsSpec => StoreSpec
    BY <1>1, <1>2, PTL DEF JobsSpec, StoreSpec
  <1> QED BY <1>3, StoreKeepsValues

\* And imports go on as if they were alone: what is looked at beside them
\* leaves the lock for Terraform and the transactions of hooks as they are.
THEOREM JobsKeepImports ==
    JobsSpec => []RightTerraform /\ []ResponseTellsRows /\ []OnlyWholeTags
                /\ OnlyBusyTerraformFails
  <1>1. JobsInv => RightTerraform /\ ResponseTellsRows /\ OnlyWholeTags
    BY WholeTells DEF JobsInv, ImportInv, LockInv
  <1>2. JobsInv /\ [JobsNext]_jobVars => [Busy]_importVars
    BY JobsStep, BusyStep DEF JobsInv, ImportInv
  <1> QED BY <1>1, <1>2, JobsAlways, PTL DEF JobsSpec, OnlyBusyTerraformFails, Busy

=============================================================================

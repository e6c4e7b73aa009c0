----------------------- MODULE VersionRequests_proofs -----------------------
(***************************************************************************)
(* Proofs about VersionRequests, for every number of threads, versions and *)
(* row ids, every choice of betas and every deployment.                    *)
(***************************************************************************)
EXTENDS VersionRequests, WellFoundedInduction, TLAPS

-----------------------------------------------------------------------------
(* The highest version, and the tables a statement sees and leaves.        *)

LEMMA HighestExists ==
    ASSUME NEW S \in SUBSET Nat, NEW n \in Nat, \A i \in S : i <= n, S # {}
    PROVE  \E i \in S : \A j \in S : j <= i
  <1> DEFINE T == {n - i : i \in S}
  <1>1. T \subseteq Nat /\ T # {}
    <2>1. \A i \in S : i \in Nat /\ i <= n
      OBVIOUS
    <2>2. \A i \in S : n - i \in Nat
      BY <2>1
    <2> QED BY <2>2
  <1>2. PICK x \in T : \A y \in T : ~ (<<y, x>> \in OpToRel(<, Nat))
    <2> HIDE DEF T
    <2> QED BY <1>1, WFMin, NatLessThanWellFounded
  <1>3. PICK i \in S : x = n - i
    OBVIOUS
  <1>4. ASSUME NEW j \in S PROVE j <= i
    <2>1. n - j \in T /\ n - j \in Nat /\ x \in Nat
      BY <1>1
    <2>2. ~ (n - j < x)
      BY <2>1, <1>2 DEF OpToRel
    <2> QED BY <2>2, <1>3
  <1> QED BY <1>4

\* calculate_latest_version finds the highest eligible version, if any is.
LEMMA HighestIsEligible ==
    ASSUME NEW T \in Tables
    PROVE  /\ HighestVersion(T) \in 0..MaxVersion
           /\ HighestVersion(T) = 0 <=> Eligible(T) = {}
           /\ Eligible(T) # {} => \E x \in Eligible(T) : x.version = HighestVersion(T)
  <1> DEFINE V == {r.version : r \in Eligible(T)}
  <1>1. V \subseteq 1..MaxVersion
    BY DEF Tables, Row, Eligible, Version
  <1>2. CASE V = {}
    BY <1>2, RequestsAssumption DEF HighestVersion
  <1>3. CASE V # {}
    <2>1. \E i \in V : \A j \in V : j <= i
      <3> HIDE DEF V
      <3>1. V \in SUBSET Nat /\ \A i \in V : i <= MaxVersion
        BY <1>1, RequestsAssumption
      <3> QED BY <3>1, <1>3, HighestExists, RequestsAssumption
    <2>2. HighestVersion(T) \in V
      BY <1>3, <2>1 DEF HighestVersion
    <2> QED BY <1>1, <1>3, <2>2, RequestsAssumption
  <1> QED BY <1>2, <1>3

\* The tables of the type invariant, and its requests.
StoreType ==
    /\ db \in Tables
    /\ holder \in Thread \cup {NoThread}
    /\ IF holder = NoThread THEN work = Nothing ELSE work \in Tables

LEMMA ViewType ==
    ASSUME StoreType, NEW t \in Thread
    PROVE  View(t) \in Tables
  BY RequestsAssumption DEF StoreType, View

LEMMA WriteType ==
    ASSUME StoreType, NEW t \in Thread, NEW T \in Tables, Write(t, T)
    PROVE  StoreType'
  BY RequestsAssumption DEF StoreType, Write

LEMMA NoWriteType ==
    ASSUME StoreType, NoWrite
    PROVE  StoreType'
  BY DEF StoreType, NoWrite

LEMMA NoRequestType == NoRequest \in Request
  BY RequestsAssumption DEF NoRequest, Request, RequestKinds, Version

LEMMA AbandonType ==
    ASSUME TypeOK, NEW t \in Thread, Abandon(t), UNCHANGED config
    PROVE  TypeOK'
  BY NoRequestType DEF TypeOK, Abandon, Goto, Labels

-----------------------------------------------------------------------------
(* Type correctness, action by action.                                     *)

LEMMA TypeInit == Init => TypeOK
  <1> SUFFICES ASSUME Init PROVE TypeOK
    OBVIOUS
  <1>1. PICK R \in SUBSET Version, P \in SUBSET Version, c \in Content :
          /\ P \subseteq R
          /\ db = [rows |-> {[id |-> i, version |-> i, published |-> i \in P, content |-> c] : i \in R},
                   latest |-> IF P \subseteq Beta THEN NoRow
                              ELSE CHOOSE i \in P \ Beta : \A j \in P \ Beta : j <= i,
                   parentOf |-> [d \in Download |-> NoRow]]
          /\ archive = [v \in Version |-> IF v \in R THEN c ELSE Nothing]
    BY DEF Init
  <1>2. {[id |-> i, version |-> i, published |-> i \in P, content |-> c] : i \in R} \subseteq Row
    <2>1. ASSUME NEW i \in R, NEW p \in BOOLEAN
          PROVE  [id |-> i, version |-> i, published |-> p, content |-> c] \in Row
      BY RequestsAssumption DEF Row
    <2>2. \A i \in R : (i \in P) \in BOOLEAN
      OBVIOUS
    <2> QED BY <2>1, <2>2
  <1>3. P \ Beta # {} => \E i \in P \ Beta : \A j \in P \ Beta : j <= i
    <2>1. \A i \in P : i \in 1..MaxVersion
      BY DEF Version
    <2>2. P \ Beta \in SUBSET Nat /\ \A i \in P \ Beta : i <= MaxVersion
      BY <2>1, RequestsAssumption
    <2> QED BY <2>2, HighestExists, RequestsAssumption
  <1>4. db \in Tables
    BY <1>1, <1>2, <1>3, RequestsAssumption DEF Tables
  <1> QED BY <1>1, <1>4, NoRequestType DEF Init, TypeOK, Labels

LEMMA StartType ==
    ASSUME TypeOK, UNCHANGED config, NEW t \in Thread, NEW r \in Request, NEW label \in Labels,
           Start(t, r, label)
    PROVE  TypeOK'
  BY DEF TypeOK, Start, Goto, NoWrite

LEMMA ArriveType ==
    ASSUME TypeOK, NEW t \in Thread, Arrive(t)
    PROVE  TypeOK'
  <1>1. PICK v \in Version :
          \/ \E c \in Content : StartIndex(t, v, c)
          \/ StartPublish(t, v)
          \/ \E kind \in {"delete", "hookDelete"} : StartDelete(t, v, kind)
          \/ StartDownload(t, v)
    BY DEF Arrive
  <1>2. /\ UNCHANGED config
        /\ \A x \in RowsFor(db, v) :
              x \in Row /\ x.id \in RowId /\ x.content \in Content \cup {Nothing}
    BY DEF Arrive, TypeOK, Tables, RowsFor, Row
  <1>a. {"insert", "mark", "parts", "record"} \subseteq Labels
    BY DEF Labels
  <1>3. ASSUME NEW c \in Content, StartIndex(t, v, c) PROVE TypeOK'
    <2> DEFINE r == [NoRequest EXCEPT !.kind = "index", !.v = v, !.content = c]
    <2>1. config.auto \in BOOLEAN
      BY RequestsAssumption DEF TypeOK
    <2>2. [r EXCEPT !.publish = config.auto] \in Request
      BY <2>1, NoRequestType DEF Request, RequestKinds
    <2> DEFINE again(x) == [r EXCEPT !.old = x.id, !.row = x.id, !.had = x.content,
                                     !.then = "insert",
                                     !.publish = \/ config.auto
                                                 \/ config.mode = "auto-publish" /\ x.published]
    <2>3. ASSUME NEW x \in RowsFor(db, v) PROVE again(x) \in Request
      <3>1. (config.auto \/ (config.mode = "auto-publish" /\ x.published)) \in BOOLEAN
        OBVIOUS
      <3> QED BY <1>2, <1>a, <2>3, <3>1, NoRequestType DEF Request, RequestKinds
    <2>4. \/ Start(t, [r EXCEPT !.publish = config.auto], "insert")
          \/ \E x \in RowsFor(db, v) : Start(t, again(x), "parts")
      BY <1>3 DEF StartIndex
    <2> HIDE DEF again
    <2>5. CASE Start(t, [r EXCEPT !.publish = config.auto], "insert")
      BY <1>2, <1>a, <2>2, <2>5, StartType
    <2>6. ASSUME NEW x \in RowsFor(db, v), Start(t, again(x), "parts") PROVE TypeOK'
      BY <1>2, <1>a, <2>3, <2>6, StartType
    <2> QED BY <2>4, <2>5, <2>6
  <1>4. ASSUME StartPublish(t, v) PROVE TypeOK'
    <2>1. [NoRequest EXCEPT !.kind = "publish", !.v = v] \in Request
      BY NoRequestType DEF Request, RequestKinds
    <2> QED BY <1>2, <1>a, <1>4, <2>1, StartType DEF StartPublish
  <1>5. ASSUME NEW kind \in {"delete", "hookDelete"}, StartDelete(t, v, kind) PROVE TypeOK'
    <2> DEFINE q(x) == [NoRequest EXCEPT !.kind = kind, !.v = v, !.row = x.id, !.had = x.content]
    <2>1. PICK x \in RowsFor(db, v) : Start(t, q(x), "parts")
      BY <1>5 DEF StartDelete
    <2>2. q(x) \in Request
      BY <1>2, <1>a, <2>1, NoRequestType DEF Request, RequestKinds
    <2> HIDE DEF q
    <2> QED BY <1>2, <1>a, <2>1, <2>2, StartType
  <1>6. ASSUME StartDownload(t, v) PROVE TypeOK'
    <2> DEFINE q(x) == [NoRequest EXCEPT !.kind = "download", !.v = v, !.row = x.id]
    <2>1. PICK x \in RowsFor(db, v) : Start(t, q(x), "record")
      BY <1>6 DEF StartDownload
    <2>2. q(x) \in Request
      BY <1>2, <1>a, <2>1, NoRequestType DEF Request, RequestKinds
    <2> HIDE DEF q
    <2> QED BY <1>2, <1>a, <2>1, <2>2, StartType
  <1> QED BY <1>1, <1>3, <1>4, <1>5, <1>6

\* A statement that writes tables or nothing, and goes on with its request.
LEMMA GoesOnType ==
    ASSUME TypeOK, UNCHANGED config, NEW t \in Thread,
           StoreType', archive' \in [Version -> Content \cup {Nothing}],
           NEW label \in Labels, Goto(t, label), req' \in [Thread -> Request]
    PROVE  TypeOK'
  BY DEF TypeOK, StoreType, Goto

\* The tables that statements write.
LEMMA RowsType ==
    ASSUME NEW T \in Tables, NEW R \in SUBSET Row
    PROVE  [T EXCEPT !.rows = R] \in Tables
  BY DEF Tables

LEMMA LatestType ==
    ASSUME NEW T \in Tables, NEW i \in RowId \cup {NoRow}
    PROVE  [T EXCEPT !.latest = i] \in Tables
  BY DEF Tables

LEMMA ParentType ==
    ASSUME NEW T \in Tables, NEW f \in [Download -> RowId \cup {NoRow}]
    PROVE  [T EXCEPT !.parentOf = f] \in Tables
  BY DEF Tables

LEMMA DeleteType ==
    ASSUME TypeOK, UNCHANGED config, NEW t \in Thread,
           \/ DeleteSubmodules(t) \/ DeleteAnalytics(t) \/ DeleteDetails(t)
           \/ CreateAuditEvent(t) \/ DeleteFiles(t) \/ DropRow(t) \/ Recalculate(t)
    PROVE  TypeOK'
  <1> DEFINE V == View(t)
  <1>1. StoreType /\ V \in Tables /\ req[t] \in Request
    BY ViewType DEF TypeOK, StoreType
  <1>2. archive \in [Version -> Content \cup {Nothing}] /\ req \in [Thread -> Request]
    BY DEF TypeOK
  <1>3. CASE DeleteAnalytics(t)
    <2> DEFINE f == [d \in Download |-> IF V.parentOf[d] = req[t].row THEN NoRow ELSE V.parentOf[d]]
    <2>1. f \in [Download -> RowId \cup {NoRow}]
      BY <1>1 DEF Tables
    <2>2. Write(t, [V EXCEPT !.parentOf = f])
      BY <1>3, <1>1 DEF DeleteAnalytics, Tables
    <2>3. StoreType'
      <3> HIDE DEF f, V
      <3> QED BY <1>1, <2>1, <2>2, ParentType, WriteType
    <2> QED BY <1>2, <1>3, <2>3, GoesOnType DEF DeleteAnalytics, Labels
  <1>a. \A x \in Row : [x EXCEPT !.content = Nothing] \in Row
    BY DEF Row
  <1>b. V.rows \in SUBSET Row
    BY <1>1 DEF Tables
  <1>4. CASE DeleteDetails(t)
    <2> DEFINE R == {IF x.version = req[t].v /\ x.content = req[t].had
                     THEN [x EXCEPT !.content = Nothing] ELSE x : x \in V.rows}
    <2>1. R \in SUBSET Row
      BY <1>a, <1>b
    <2>2. NoWrite \/ Write(t, [V EXCEPT !.rows = R])
      BY <1>1, <1>4 DEF DeleteDetails, Tables
    <2>3. StoreType'
      <3> HIDE DEF R, V
      <3> QED BY <1>1, <2>1, <2>2, RowsType, WriteType, NoWriteType
    <2>4. req' \in [Thread -> Request] /\ UNCHANGED archive
      BY <1>1, <1>2, <1>4 DEF DeleteDetails, Request
    <2> QED BY <1>2, <1>4, <2>3, <2>4, GoesOnType DEF DeleteDetails, Labels
  <1>8. CASE DeleteSubmodules(t)
    <2> DEFINE R == {IF x.id = req[t].row THEN [x EXCEPT !.content = Nothing] ELSE x : x \in V.rows}
    <2>1. R \in SUBSET Row
      BY <1>a, <1>b
    <2>2. NoWrite \/ Write(t, [V EXCEPT !.rows = R])
      BY <1>1, <1>8 DEF DeleteSubmodules, Tables
    <2>3. StoreType'
      <3> HIDE DEF R, V
      <3> QED BY <1>1, <2>1, <2>2, RowsType, WriteType, NoWriteType
    <2>4. \E label \in {"erase", "analytics"} : Goto(t, label)
      BY <1>8 DEF DeleteSubmodules
    <2> QED BY <1>2, <1>8, <2>3, <2>4, GoesOnType DEF DeleteSubmodules, Labels
  <1>9. CASE CreateAuditEvent(t)
    <2>1. StoreType'
      BY <1>1, <1>9, WriteType DEF CreateAuditEvent
    <2> QED BY <1>2, <1>9, <2>1, GoesOnType DEF CreateAuditEvent, Labels
  <1>5. CASE DeleteFiles(t)
    <2>1. StoreType' /\ archive' \in [Version -> Content \cup {Nothing}]
      BY <1>1, <1>2, <1>5, NoWriteType DEF DeleteFiles
    <2> QED BY <1>2, <1>5, <2>1, GoesOnType DEF DeleteFiles, Labels
  <1>6. CASE DropRow(t)
    <2> DEFINE R == {x \in V.rows : x.id # req[t].row}
    <2>1. R \in SUBSET Row /\ Write(t, [V EXCEPT !.rows = R])
      BY <1>1, <1>6 DEF DropRow, Tables
    <2>2. StoreType'
      <3> HIDE DEF R, V
      <3> QED BY <1>1, <2>1, RowsType, WriteType
    <2> QED BY <1>2, <1>6, <2>2, GoesOnType DEF DropRow, Labels
  <1>7. CASE Recalculate(t)
    <2>1. HighestVersion(V) \in 0..MaxVersion
      BY <1>1, HighestIsEligible
    <2>2. req' \in [Thread -> Request]
      BY <1>1, <1>2, <1>7, <2>1 DEF Recalculate, Request
    <2>3. StoreType' /\ UNCHANGED archive
      BY <1>1, <1>7, NoWriteType DEF Recalculate
    <2>4. \E label \in {"point", "pk"} : Goto(t, label)
      BY <1>7 DEF Recalculate
    <2> QED BY <1>2, <2>2, <2>3, <2>4, GoesOnType DEF Labels
  <1> QED BY <1>3, <1>4, <1>5, <1>6, <1>7, <1>8, <1>9

LEMMA IndexType ==
    ASSUME TypeOK, UNCHANGED config, NEW t \in Thread,
           InsertRow(t) \/ GenerateArchive(t) \/ InsertDetails(t) \/ ScanSubmodules(t)
    PROVE  TypeOK'
  <1> DEFINE V == View(t)
  <1>1. StoreType /\ V \in Tables /\ req[t] \in Request
    BY ViewType DEF TypeOK, StoreType
  <1>2. archive \in [Version -> Content \cup {Nothing}] /\ req \in [Thread -> Request]
    BY DEF TypeOK
  <1>3. CASE InsertRow(t)
    <2>1. PICK new \in RowId \ Ids(V) :
            \E x \in V.rows \cup {[id |-> new, version |-> req[t].v, published |-> FALSE,
                                   content |-> Nothing]} :
               Write(t, [[V EXCEPT !.rows = @ \cup {[id |-> new, version |-> req[t].v,
                                                     published |-> FALSE, content |-> Nothing]}]
                           EXCEPT !.parentOf = [d \in Download |->
                              IF req[t].old # NoRow /\ @[d] = req[t].old THEN x.id ELSE @[d]]])
      BY <1>1, <1>3 DEF InsertRow, RowsFor, Tables
    <2> DEFINE row == [id |-> new, version |-> req[t].v, published |-> FALSE, content |-> Nothing]
               R   == V.rows \cup {row}
               T   == [V EXCEPT !.rows = R]
    <2>a. new \in RowId /\ req[t].v \in Version /\ V.rows \in SUBSET Row
      BY <1>1 DEF Request, Tables
    <2>b. row \in Row
      BY <2>a DEF Row
    <2>2. row \in Row /\ R \in SUBSET Row
      BY <2>a, <2>b
    <2>3. T \in Tables /\ T.parentOf = V.parentOf
      BY <1>1, <2>2 DEF Tables
    <2>4. PICK x \in R :
            Write(t, [T EXCEPT !.parentOf = [d \in Download |->
                         IF req[t].old # NoRow /\ V.parentOf[d] = req[t].old THEN x.id ELSE V.parentOf[d]]])
      BY <1>1, <2>1, <2>3 DEF Tables
    <2> DEFINE f == [d \in Download |->
                        IF req[t].old # NoRow /\ V.parentOf[d] = req[t].old THEN x.id ELSE V.parentOf[d]]
    <2>5. x.id \in RowId
      BY <2>2, <2>4 DEF Row
    <2>6. f \in [Download -> RowId \cup {NoRow}]
      BY <1>1, <2>5 DEF Tables
    <2>7. StoreType'
      <3> HIDE DEF f, T
      <3> QED BY <1>1, <2>3, <2>4, <2>6, ParentType, WriteType DEF f
    <2>8. req' \in [Thread -> Request]
      BY <1>1, <1>2, <1>3 DEF InsertRow, Request
    <2> QED BY <1>2, <1>3, <2>7, <2>8, GoesOnType DEF InsertRow, Labels
  <1>4. CASE GenerateArchive(t)
    <2>1. StoreType' /\ archive' \in [Version -> Content \cup {Nothing}]
      BY <1>1, <1>2, <1>4, NoWriteType DEF GenerateArchive, Request
    <2> QED BY <1>2, <1>4, <2>1, GoesOnType DEF GenerateArchive, Labels
  <1>5. CASE InsertDetails(t)
    <2> DEFINE R == {IF x.version = req[t].v
                     THEN [x EXCEPT !.published = FALSE, !.content = req[t].content]
                     ELSE x : x \in V.rows}
    <2>a. V.rows \in SUBSET Row /\ req[t].content \in Content \cup {Nothing}
      BY <1>1 DEF Request, Tables
    <2>b. \A x \in Row : [x EXCEPT !.published = FALSE, !.content = req[t].content] \in Row
      BY <2>a DEF Row
    <2>1. R \in SUBSET Row
      BY <2>a, <2>b
    <2>2. Write(t, [V EXCEPT !.rows = R])
      BY <1>1, <1>5 DEF InsertDetails, Tables
    <2>3. StoreType'
      <3> HIDE DEF R, V
      <3> QED BY <1>1, <2>1, <2>2, RowsType, WriteType
    <2> QED BY <1>2, <1>5, <2>3, GoesOnType DEF InsertDetails, Labels
  <1>6. CASE ScanSubmodules(t)
    <2>1. StoreType' /\ \E label \in {"mark", "commit"} : Goto(t, label)
      BY <1>1, <1>6, NoWriteType DEF ScanSubmodules
    <2> QED BY <1>2, <1>6, <2>1, GoesOnType DEF ScanSubmodules, Labels
  <1> QED BY <1>3, <1>4, <1>5, <1>6

LEMMA PublishType ==
    ASSUME TypeOK, UNCHANGED config, NEW t \in Thread,
           \/ MarkPublished(t) \/ AnyLatest(t) \/ IsLatest(t) \/ ReadPk(t) \/ PointLatest(t)
           \/ \E d \in Download : RecordDownload(t, d)
    PROVE  TypeOK'
  <1> DEFINE V == View(t)
  <1>1. StoreType /\ V \in Tables /\ req[t] \in Request
    BY ViewType DEF TypeOK, StoreType
  <1>2. archive \in [Version -> Content \cup {Nothing}] /\ req \in [Thread -> Request]
    BY DEF TypeOK
  <1>3. CASE MarkPublished(t)
    <2> DEFINE R == {IF x.version = req[t].v THEN [x EXCEPT !.published = TRUE] ELSE x : x \in V.rows}
    <2>1. \A x \in Row : [x EXCEPT !.published = TRUE] \in Row
      BY DEF Row
    <2>2. V.rows \in SUBSET Row
      BY <1>1 DEF Tables
    <2>3. R \in SUBSET Row
      BY <2>1, <2>2
    <2>4. Write(t, [V EXCEPT !.rows = R])
      BY <1>1, <1>3 DEF MarkPublished, Tables
    <2>5. StoreType'
      <3> HIDE DEF R, V
      <3> QED BY <1>1, <2>3, <2>4, RowsType, WriteType
    <2> QED BY <1>2, <1>3, <2>5, GoesOnType DEF MarkPublished, Labels
  <1>4. CASE AnyLatest(t)
    <2>1. StoreType' /\ \E label \in {"isLatest", "commit"} : Goto(t, label)
      BY <1>1, <1>4, NoWriteType DEF AnyLatest
    <2> QED BY <1>2, <1>4, <2>1, GoesOnType DEF AnyLatest, Labels
  <1>5. CASE IsLatest(t)
    <2>1. CASE Abandon(t)
      BY <2>1, AbandonType
    <2>2. CASE ~Abandon(t)
      <3>1. HighestVersion(V) \in 0..MaxVersion
        BY <1>1, HighestIsEligible
      <3>2. req' = [req EXCEPT ![t].top = HighestVersion(V)] /\ UNCHANGED archive /\ NoWrite
        BY <1>5, <2>2 DEF IsLatest
      <3>3. req' \in [Thread -> Request]
        BY <1>1, <1>2, <3>1, <3>2 DEF Request
      <3>4. StoreType' /\ \E label \in {"pk", "commit"} : Goto(t, label)
        BY <1>1, <1>5, <2>2, <3>2, NoWriteType DEF IsLatest
      <3> QED BY <1>2, <3>2, <3>3, <3>4, GoesOnType DEF Labels
    <2> QED BY <2>1, <2>2
  <1>6. CASE ReadPk(t)
    <2>1. CASE Abandon(t)
      BY <2>1, AbandonType
    <2>2. CASE ~Abandon(t)
      <3>1. PICK x \in RowsFor(V, req[t].top) :
              req' = [req EXCEPT ![t].row = x.id] /\ Goto(t, "point") /\ UNCHANGED archive /\ NoWrite
        BY <1>6, <2>2 DEF ReadPk
      <3>2. x.id \in RowId
        BY <1>1, <3>1 DEF RowsFor, Tables, Row
      <3>3. req' \in [Thread -> Request]
        BY <1>1, <1>2, <3>1, <3>2 DEF Request
      <3>4. StoreType'
        BY <1>1, <3>1, NoWriteType
      <3> QED BY <1>2, <3>1, <3>3, <3>4, GoesOnType DEF Labels
    <2> QED BY <2>1, <2>2
  <1>7. CASE PointLatest(t)
    <2>1. req[t].row \in RowId \cup {NoRow} /\ req[t].then \in Labels
      BY <1>1 DEF Request, Labels
    <2>2. StoreType'
      BY <1>1, <1>7, <2>1, LatestType, WriteType DEF PointLatest
    <2> QED BY <1>2, <1>7, <2>1, <2>2, GoesOnType DEF PointLatest
  <1>8. ASSUME NEW d \in Download, RecordDownload(t, d) PROVE TypeOK'
    <2> DEFINE f == [V.parentOf EXCEPT ![d] = req[t].row]
    <2>1. f \in [Download -> RowId \cup {NoRow}]
      BY <1>1 DEF Tables, Request
    <2>2. Write(t, [V EXCEPT !.parentOf = f])
      BY <1>1, <1>8 DEF RecordDownload, Tables
    <2>3. StoreType'
      <3> HIDE DEF f, V
      <3> QED BY <1>1, <2>1, <2>2, ParentType, WriteType
    <2> QED BY <1>2, <1>8, <2>3, GoesOnType DEF RecordDownload, Labels
  <1> QED BY <1>3, <1>4, <1>5, <1>6, <1>7, <1>8

LEMMA FinishType ==
    ASSUME TypeOK, UNCHANGED config, NEW t \in Thread, Finish(t)
    PROVE  TypeOK'
  <1>1. StoreType'
    BY RequestsAssumption DEF TypeOK, StoreType, Finish, NoWrite
  <1>2. req' \in [Thread -> Request]
    BY NoRequestType DEF Finish, TypeOK
  <1> QED BY <1>1, <1>2, GoesOnType DEF Finish, TypeOK, Labels

LEMMA TypeNext == TypeOK /\ [Next]_vars => TypeOK'
  <1> SUFFICES ASSUME TypeOK, [Next]_vars PROVE TypeOK'
    OBVIOUS
  <1>1. CASE Crash
    BY <1>1, NoRequestType DEF Crash, TypeOK, Labels
  <1>2. ASSUME NEW t \in Thread, Arrive(t) PROVE TypeOK'
    BY <1>2, ArriveType
  <1>3. ASSUME NEW t \in Thread, Step(t) PROVE TypeOK'
    BY <1>3, DeleteType, IndexType, PublishType, FinishType, AbandonType
       DEF Step, ExtractionFails, LockTimeout
  <1>4. CASE UNCHANGED vars
    BY <1>4 DEF vars, TypeOK
  <1> QED BY <1>1, <1>2, <1>3, <1>4 DEF Next

\* Threads, tables and files have the shape that TypeOK tells, whatever
\* requests come and wherever they fail: for all parameters.
THEOREM TypeCorrect == Spec => []TypeOK
  <1> QED BY TypeInit, TypeNext, PTL DEF Spec

-----------------------------------------------------------------------------
(* Where nothing is deleted, no committed row is without its extraction.   *)
(* The rows that the holder of the lock has damaged or not filled yet are  *)
(* those of the version it is indexing, and the row it is to remove.       *)

Half(t) == pc[t] \in {"archive", "details"}

Removing == {"parts", "analytics", "erase", "audit", "files", "dropRow"}

NoneDeleted == config.kinds \cap {"delete", "hookDelete"} = {}

\* What a request may be at, by its kind.
Legal(label, r) ==
    /\ \/ label \in {"insert", "archive", "details", "submodules"}
       \/ r.then = "insert"
       => r.kind = "index"
    /\ r.kind = "index" => r.content \in Content
    /\ r.then = "insert" => label \notin {"archive", "details", "submodules", "mark",
                                          "anyLatest", "isLatest", "record", "commit"}
    /\ label \in Removing \cup {"recalculate"} =>
          r.then = "insert" \/ r.kind \in {"delete", "hookDelete"}
    /\ r.kind \in config.kinds \cup {"none"}

\* The rows that may lack their extraction while request r is at label.
Damage(label, r, x) ==
    \/ r.then = "insert" /\ x.version = r.v
    \/ r.then = "insert" /\ x.id = r.row /\ label \in Removing
    \/ label \in {"archive", "details"} /\ x.version = r.v

\* Only transactions hold the lock.
Serves(t) ==
    /\ Legal(pc[t], req[t])
    /\ holder = t => pc[t] # "idle" /\ InTransaction(t)

WholeBut(R, label, r) == \A x \in R : x.content # Nothing \/ Damage(label, r, x)

Extracted(t) == holder = t => WholeBut(work.rows, pc[t], req[t])

WholeInv ==
    /\ TypeOK
    /\ \A t \in Thread : Serves(t)
    /\ NoHalfIndexedVersion
    /\ NoneDeleted => \A t \in Thread : Extracted(t)

\* A step of t leaves the requests of the other threads alone, and the work of
\* the one that holds the lock.
Frame(t) ==
    /\ UNCHANGED config
    /\ \A u \in Thread \ {t} : /\ pc'[u] = pc[u] /\ req'[u] = req[u]
                               /\ holder' = u => holder = u /\ work' = work

LEMMA OthersStayWhole ==
    ASSUME WholeInv, NEW t \in Thread, Frame(t)
    PROVE  /\ \A u \in Thread \ {t} : Serves(u)'
           /\ NoneDeleted => \A u \in Thread \ {t} : Extracted(u)'
           /\ NoneDeleted' = NoneDeleted
  BY DEF WholeInv, Frame, Serves, Legal, Extracted, WholeBut, Damage, InTransaction, NoneDeleted

\* What the steps of t have in common: its program counter and request change.
Moves(t, label, r) == pc' = [pc EXCEPT ![t] = label] /\ req' = [req EXCEPT ![t] = r]

LEMMA MovesFrame ==
    ASSUME TypeOK, NEW t \in Thread, NEW label, NEW r, Moves(t, label, r)
    PROVE  /\ pc'[t] = label /\ req'[t] = r
           /\ \A u \in Thread \ {t} : pc'[u] = pc[u] /\ req'[u] = req[u]
  BY DEF Moves, TypeOK

LEMMA SameRequest ==
    ASSUME TypeOK, NEW t \in Thread, NEW label, Goto(t, label), UNCHANGED req
    PROVE  Moves(t, label, req[t])
  BY DEF Moves, Goto, TypeOK

\* A statement of t that leaves the tables T.
LEMMA WriteIsWhole ==
    ASSUME WholeInv, TypeOK', UNCHANGED config, NEW t \in Thread, NEW T, Write(t, T),
           NEW label \in Labels \ {"idle"}, NEW r, Moves(t, label, r),
           r.kind = req[t].kind, Legal(label, r),
           NoneDeleted => WholeBut(T.rows, label, r)
    PROVE  WholeInv'
  <1>1. /\ pc'[t] = label /\ req'[t] = r
        /\ \A u \in Thread \ {t} : pc'[u] = pc[u] /\ req'[u] = req[u]
    BY MovesFrame DEF WholeInv
  <1>2. Frame(t)
    BY <1>1, RequestsAssumption DEF Frame, Write
  <1>3. /\ \A u \in Thread \ {t} : Serves(u)'
        /\ NoneDeleted => \A u \in Thread \ {t} : Extracted(u)'
        /\ NoneDeleted' = NoneDeleted
    BY <1>2, OthersStayWhole
  <1>4. Serves(t)'
    BY <1>1, RequestsAssumption DEF WholeInv, Serves, Legal, Write, InTransaction
  <1>5. CASE InTransaction(t)
    <2>1. db' = db /\ work' = T
      BY <1>5 DEF Write
    <2>2. NoneDeleted => WholeBut(work'.rows, pc'[t], req'[t])
      BY <1>1, <2>1
    <2>3. NoneDeleted => Extracted(t)'
      BY <2>2 DEF Extracted, WholeBut, Damage
    <2> QED BY <1>3, <1>4, <2>1, <2>3 DEF WholeInv, NoHalfIndexedVersion, NoneDeleted
  <1>6. CASE ~InTransaction(t)
    <2>1. \A x : ~Damage(label, r, x)
      BY <1>6 DEF InTransaction, Legal, Damage
    <2>2. NoneDeleted => \A x \in db'.rows : x.content # Nothing
      BY <1>6, <2>1 DEF Write, WholeBut
    <2>3. holder' # t
      BY <1>6, RequestsAssumption DEF Write, WholeInv, Serves
    <2> QED BY <1>3, <1>4, <2>2, <2>3 DEF WholeInv, NoHalfIndexedVersion, Extracted, NoneDeleted
  <1> QED BY <1>5, <1>6

LEMMA ViewIsWhole ==
    ASSUME WholeInv, NoneDeleted, NEW t \in Thread
    PROVE  WholeBut(View(t).rows, pc[t], req[t])
  <1>1. CASE holder = t
    BY <1>1 DEF WholeInv, View, Extracted
  <1>2. CASE holder # t
    <2>1. View(t) = db /\ \A x \in db.rows : x.content # Nothing
      BY <1>2 DEF WholeInv, View, NoHalfIndexedVersion, NoneDeleted
    <2> QED BY <2>1 DEF WholeBut
  <1> QED BY <1>1, <1>2

\* A step of t that writes nothing.
LEMMA NoWriteIsWhole ==
    ASSUME WholeInv, TypeOK', UNCHANGED config, NEW t \in Thread, NoWrite,
           NEW label \in Labels \ {"idle"}, NEW r, Moves(t, label, r),
           r.kind = req[t].kind, Legal(label, r),
           \A x : Damage(pc[t], req[t], x) => Damage(label, r, x)
    PROVE  WholeInv'
  <1>1. /\ pc'[t] = label /\ req'[t] = r
        /\ \A u \in Thread \ {t} : pc'[u] = pc[u] /\ req'[u] = req[u]
    BY MovesFrame DEF WholeInv
  <1>2. UNCHANGED <<db, holder, work>> /\ Frame(t)
    BY <1>1 DEF Frame, NoWrite
  <1>3. /\ \A u \in Thread \ {t} : Serves(u)'
        /\ NoneDeleted => \A u \in Thread \ {t} : Extracted(u)'
        /\ NoneDeleted' = NoneDeleted
    BY <1>2, OthersStayWhole
  <1>4. Serves(t)'
    BY <1>1, <1>2 DEF WholeInv, Serves, Legal, InTransaction
  <1>5. NoneDeleted => Extracted(t)'
    <2> SUFFICES ASSUME NoneDeleted, holder = t PROVE WholeBut(work.rows, label, r)
      BY <1>1, <1>2 DEF Extracted, WholeBut, Damage
    <2> QED BY DEF WholeInv, Extracted, WholeBut
  <1> QED BY <1>2, <1>3, <1>4, <1>5 DEF WholeInv, NoHalfIndexedVersion, NoneDeleted

\* The end of a request, by an error or a commit.
LEMMA EndIsWhole ==
    ASSUME WholeInv, TypeOK', UNCHANGED config, NEW t \in Thread, Abandon(t) \/ Finish(t)
    PROVE  WholeInv'
  <1>1. Moves(t, "idle", NoRequest)
    BY DEF Abandon, Finish, Goto, Moves
  <1>2. /\ pc'[t] = "idle" /\ req'[t] = NoRequest
        /\ \A u \in Thread \ {t} : pc'[u] = pc[u] /\ req'[u] = req[u]
    BY <1>1, MovesFrame DEF WholeInv
  <1>3. /\ holder' # t /\ \A u \in Thread \ {t} : holder' = u => holder = u /\ work' = work
        /\ \/ db' = db
           \/ holder = t /\ pc[t] = "commit" /\ db' = work
    BY RequestsAssumption DEF Abandon, Finish, NoWrite
  <1>4. /\ \A u \in Thread \ {t} : Serves(u)'
        /\ NoneDeleted => \A u \in Thread \ {t} : Extracted(u)'
        /\ NoneDeleted' = NoneDeleted
    BY <1>2, <1>3, OthersStayWhole DEF Frame
  <1>5. Serves(t)' /\ Extracted(t)'
    BY <1>2, <1>3 DEF Serves, Legal, Removing, NoRequest, Extracted
  <1>6. ASSUME NoneDeleted, holder = t, pc[t] = "commit" PROVE \A x \in work.rows : x.content # Nothing
    <2>1. req[t].then # "insert"
      BY <1>6 DEF WholeInv, Serves, Legal
    <2> QED BY <1>6, <2>1 DEF WholeInv, Extracted, WholeBut, Damage
  <1>7. NoHalfIndexedVersion'
    BY <1>3, <1>4, <1>6 DEF WholeInv, NoHalfIndexedVersion, NoneDeleted
  <1> QED BY <1>4, <1>5, <1>7 DEF WholeInv

LEMMA StartIsWhole ==
    ASSUME WholeInv, TypeOK', UNCHANGED config, NEW t \in Thread, NEW r,
           NEW label \in Labels \ {"idle"}, Start(t, r, label), Legal(label, r)
    PROVE  WholeInv'
  <1>1. Moves(t, label, r) /\ holder # t /\ UNCHANGED <<db, holder, work>>
    BY DEF Start, Moves, Goto, NoWrite, WholeInv, Serves
  <1>2. /\ pc'[t] = label /\ req'[t] = r
        /\ \A u \in Thread \ {t} : pc'[u] = pc[u] /\ req'[u] = req[u]
    BY <1>1, MovesFrame DEF WholeInv
  <1>3. /\ \A u \in Thread \ {t} : Serves(u)'
        /\ NoneDeleted => \A u \in Thread \ {t} : Extracted(u)'
        /\ NoneDeleted' = NoneDeleted
    BY <1>1, <1>2, OthersStayWhole DEF Frame
  <1>4. Serves(t)' /\ Extracted(t)'
    BY <1>1, <1>2 DEF Serves, Legal, Extracted
  <1> QED BY <1>1, <1>3, <1>4 DEF WholeInv, NoHalfIndexedVersion

LEMMA ArriveIsWhole ==
    ASSUME WholeInv, NEW t \in Thread, Arrive(t)
    PROVE  WholeInv'
  <1> TypeOK' /\ UNCHANGED config
    BY ArriveType DEF WholeInv, Arrive
  <1>1. ASSUME NEW v \in Version, NEW c \in Content, StartIndex(t, v, c) PROVE WholeInv'
    <2> DEFINE r == [NoRequest EXCEPT !.kind = "index", !.v = v, !.content = c]
    <2>1. ASSUME NEW publish
          PROVE  LET q == [r EXCEPT !.publish = publish]
                 IN  q.kind = "index" /\ q.content = c /\ q.then = "commit"
      BY DEF NoRequest
    <2>2. ASSUME NEW i, NEW had, NEW publish
          PROVE  LET q == [r EXCEPT !.old = i, !.row = i, !.had = had, !.then = "insert",
                                    !.publish = publish]
                 IN  q.kind = "index" /\ q.content = c /\ q.then = "insert"
      BY DEF NoRequest
    <2>3. CASE Start(t, [r EXCEPT !.publish = config.auto], "insert")
      <3> DEFINE q == [r EXCEPT !.publish = config.auto]
      <3>1. q.kind = "index" /\ q.content = c /\ q.then = "commit"
        BY <2>1
      <3>2. Start(t, q, "insert")
        BY <2>3
      <3> HIDE DEF q
      <3>3. Legal("insert", q)
        BY <3>1, <3>2 DEF Legal, Start, Removing
      <3> QED BY <3>2, <3>3, StartIsWhole DEF Labels
    <2> DEFINE publish(x) == \/ config.auto
                             \/ config.mode = "auto-publish" /\ x.published
               again(x) == [r EXCEPT !.old = x.id, !.row = x.id, !.had = x.content,
                                     !.then = "insert", !.publish = publish(x)]
    <2>4. \A x : again(x).kind = "index" /\ again(x).content = c /\ again(x).then = "insert"
      <3> HIDE DEF publish
      <3> QED BY <2>2
    <2>5. \/ Start(t, [r EXCEPT !.publish = config.auto], "insert")
          \/ \E x \in RowsFor(db, v) : Start(t, again(x), "parts")
      BY <1>1 DEF StartIndex
    <2> HIDE DEF again
    <2>6. ASSUME NEW x, Start(t, again(x), "parts") PROVE WholeInv'
      <3>1. Legal("parts", again(x))
        BY <2>4, <2>6 DEF Legal, Start
      <3> QED BY <2>6, <3>1, StartIsWhole DEF Labels
    <2> QED BY <2>3, <2>5, <2>6
  <1>2. ASSUME NEW v \in Version,
               \/ StartPublish(t, v) \/ StartDownload(t, v)
               \/ \E kind \in {"delete", "hookDelete"} : StartDelete(t, v, kind)
        PROVE  WholeInv'
    <2>1. ASSUME NEW r, NEW label \in {"mark", "parts", "record"}, Start(t, r, label),
                 r.kind # "index", r.then = "commit",
                 label = "parts" => r.kind \in {"delete", "hookDelete"}
          PROVE  WholeInv'
      <3>1. Legal(label, r)
        BY <2>1 DEF Legal, Start, Removing
      <3> QED BY <2>1, <3>1, StartIsWhole DEF Labels
    <2>2. CASE StartPublish(t, v)
      BY <2>1, <2>2 DEF StartPublish, NoRequest
    <2>3. CASE StartDownload(t, v)
      <3> DEFINE q(x) == [NoRequest EXCEPT !.kind = "download", !.v = v, !.row = x.id]
      <3>1. PICK x \in RowsFor(db, v) : Start(t, q(x), "record")
        BY <2>3 DEF StartDownload
      <3>2. q(x).kind = "download" /\ q(x).then = "commit"
        BY DEF NoRequest
      <3> HIDE DEF q
      <3> QED BY <2>1, <3>1, <3>2
    <2>4. ASSUME NEW kind \in {"delete", "hookDelete"}, StartDelete(t, v, kind) PROVE WholeInv'
      <3> DEFINE q(x) == [NoRequest EXCEPT !.kind = kind, !.v = v, !.row = x.id, !.had = x.content]
      <3>1. PICK x \in RowsFor(db, v) : Start(t, q(x), "parts")
        BY <2>4 DEF StartDelete
      <3>2. q(x).kind = kind /\ q(x).then = "commit"
        BY DEF NoRequest
      <3> HIDE DEF q
      <3> QED BY <2>1, <3>1, <3>2
    <2> QED BY <1>2, <2>2, <2>3, <2>4
  <1> QED BY <1>1, <1>2 DEF Arrive

\* A statement of ModuleVersion.delete damages only the version that is
\* indexed again and the row that goes, where nothing else is deleted.
LEMMA DeleteIsWhole ==
    ASSUME WholeInv, TypeOK', UNCHANGED config, NEW t \in Thread,
           \/ DeleteSubmodules(t) \/ DeleteAnalytics(t) \/ DeleteDetails(t)
           \/ CreateAuditEvent(t) \/ DeleteFiles(t) \/ DropRow(t) \/ Recalculate(t)
    PROVE  WholeInv'
  <1> DEFINE V == View(t)
  <1>1. V \in Tables /\ req[t] \in Request /\ req \in [Thread -> Request]
    BY ViewType DEF WholeInv, TypeOK, StoreType
  <1>2. pc[t] \in Removing \cup {"recalculate"} /\ Legal(pc[t], req[t])
    BY DEF DeleteSubmodules, DeleteAnalytics, DeleteDetails, CreateAuditEvent, DeleteFiles, DropRow,
           Recalculate, Removing, WholeInv, Serves
  <1>3. NoneDeleted => WholeBut(V.rows, pc[t], req[t]) /\ req[t].then = "insert"
    BY <1>2, ViewIsWhole DEF NoneDeleted, Legal
  <1>4. \A label : Goto(t, label) /\ UNCHANGED req => Moves(t, label, req[t])
    BY SameRequest DEF WholeInv
  <1>5. ASSUME NEW label \in Removing \cup {"recalculate", "pk", "point"}, NEW r,
               r.kind = req[t].kind, r.content = req[t].content, r.then = req[t].then
        PROVE  Legal(label, r) /\ label \in Labels \ {"idle"}
    BY <1>2, <1>5 DEF Legal, Removing, Labels
  <1>6. ASSUME pc[t] # "dropRow", pc[t] # "recalculate", NEW label \in Removing, NEW r, NEW x,
               r.v = req[t].v, r.row = req[t].row, r.then = req[t].then,
               Damage(pc[t], req[t], x)
        PROVE  Damage(label, r, x)
    BY <1>2, <1>6 DEF Damage, Removing
  <1>7. CASE DeleteSubmodules(t)
    <2> DEFINE R == {IF x.id = req[t].row THEN [x EXCEPT !.content = Nothing] ELSE x : x \in V.rows}
               T == [V EXCEPT !.rows = R]
    <2>1. PICK label \in {"erase", "analytics"} :
            /\ NoWrite \/ Write(t, T)
            /\ Moves(t, label, req[t])
      BY <1>1, <1>4, <1>7 DEF DeleteSubmodules, Tables
    <2>2. T.rows = R
      BY <1>1 DEF Tables
    <2>3. Legal(label, req[t]) /\ pc[t] = "parts" /\ label \in Removing
      BY <1>5, <1>7 DEF Removing, DeleteSubmodules
    <2>4. \A x \in Row : [x EXCEPT !.content = Nothing].id = x.id
      BY DEF Row
    <2>5. NoneDeleted => \A x \in R : x.content # Nothing \/ Damage(label, req[t], x)
      <3> SUFFICES ASSUME NoneDeleted, NEW y \in V.rows
                   PROVE  LET x == IF y.id = req[t].row THEN [y EXCEPT !.content = Nothing] ELSE y
                          IN  x.content # Nothing \/ Damage(label, req[t], x)
        OBVIOUS
      <3>1. CASE y.id = req[t].row
        BY <1>1, <1>3, <2>3, <2>4, <3>1 DEF Tables, Damage
      <3>2. CASE y.id # req[t].row
        BY <1>3, <1>6, <2>3, <3>2 DEF WholeBut
      <3> QED BY <3>1, <3>2
    <2>6. CASE Write(t, T)
      <3> HIDE DEF T, R
      <3> QED BY <1>5, <2>1, <2>2, <2>3, <2>5, <2>6, WriteIsWhole DEF WholeBut
    <2>7. CASE NoWrite
      BY <1>5, <1>6, <2>1, <2>3, <2>7, NoWriteIsWhole
    <2> QED BY <2>1, <2>6, <2>7
  <1>8. CASE DeleteAnalytics(t)
    <2> DEFINE f == [d \in Download |-> IF V.parentOf[d] = req[t].row THEN NoRow ELSE V.parentOf[d]]
               T == [V EXCEPT !.parentOf = f]
    <2>1. f \in [Download -> RowId \cup {NoRow}]
      BY <1>1 DEF Tables, Request
    <2>2. Write(t, T) /\ Moves(t, "erase", req[t]) /\ pc[t] = "analytics"
      BY <1>8, <1>1, <1>4 DEF DeleteAnalytics, Tables
    <2>3. T \in Tables /\ T.rows = V.rows
      <3> HIDE DEF f
      <3> QED BY <1>1, <2>1 DEF Tables
    <2>4. "erase" \in Removing
      BY DEF Removing
    <2> HIDE DEF T
    <2> QED BY <1>3, <1>5, <1>6, <2>2, <2>3, <2>4, WriteIsWhole DEF WholeBut
  <1>9. CASE DeleteDetails(t)
    <2> DEFINE R == {IF x.version = req[t].v /\ x.content = req[t].had
                     THEN [x EXCEPT !.content = Nothing] ELSE x : x \in V.rows}
               T == [V EXCEPT !.rows = R]
               r == [req[t] EXCEPT !.had = Nothing]
    <2>1. /\ NoWrite \/ Write(t, T)
          /\ Goto(t, "audit") /\ req' = [req EXCEPT ![t] = r]
      BY <1>1, <1>9 DEF DeleteDetails, Tables
    <2>2. T.rows = R
      BY <1>1 DEF Tables
    <2>3. /\ r.kind = req[t].kind /\ r.content = req[t].content /\ r.then = req[t].then
          /\ r.v = req[t].v /\ r.row = req[t].row
      BY <1>1 DEF Request
    <2>4. pc[t] = "erase" /\ "audit" \in Removing
      BY <1>9 DEF Removing, DeleteDetails
    <2> HIDE DEF r
    <2>5. Legal("audit", r) /\ "audit" \in Labels \ {"idle"} /\ Moves(t, "audit", r)
      BY <1>5, <2>1, <2>3, <2>4 DEF Moves, Goto
    <2>6. \A x \in Row : [x EXCEPT !.content = Nothing].version = x.version
      BY DEF Row
    <2>7. NoneDeleted => \A x \in R : x.content # Nothing \/ Damage("audit", r, x)
      <3> SUFFICES ASSUME NoneDeleted, NEW y \in V.rows
                   PROVE  LET x == IF y.version = req[t].v /\ y.content = req[t].had
                                   THEN [y EXCEPT !.content = Nothing] ELSE y
                          IN  x.content # Nothing \/ Damage("audit", r, x)
        OBVIOUS
      <3>1. CASE y.version = req[t].v /\ y.content = req[t].had
        BY <1>1, <1>3, <2>3, <2>6, <3>1 DEF Tables, Damage
      <3>2. CASE ~(y.version = req[t].v /\ y.content = req[t].had)
        BY <1>3, <1>6, <2>3, <2>4, <3>2 DEF WholeBut
      <3> QED BY <3>1, <3>2
    <2>8. CASE Write(t, T)
      <3> HIDE DEF T, R
      <3> QED BY <2>2, <2>3, <2>5, <2>7, <2>8, WriteIsWhole DEF WholeBut
    <2>9. CASE NoWrite
      BY <1>6, <2>3, <2>4, <2>5, <2>9, NoWriteIsWhole
    <2> QED BY <2>1, <2>8, <2>9
  <1>10. CASE CreateAuditEvent(t)
    <2>1. Write(t, V) /\ Moves(t, "files", req[t]) /\ pc[t] = "audit" /\ "files" \in Removing
      BY <1>10, <1>4 DEF CreateAuditEvent, Removing
    <2> QED BY <1>3, <1>5, <1>6, <2>1, WriteIsWhole DEF WholeBut
  <1>11. CASE DeleteFiles(t)
    <2>1. NoWrite /\ Moves(t, "dropRow", req[t]) /\ pc[t] = "files" /\ "dropRow" \in Removing
      BY <1>11, <1>4 DEF DeleteFiles, Removing
    <2> QED BY <1>5, <1>6, <2>1, NoWriteIsWhole
  <1>12. CASE DropRow(t)
    <2> DEFINE T == [V EXCEPT !.rows = {x \in V.rows : x.id # req[t].row}]
    <2>1. Write(t, T) /\ Moves(t, "recalculate", req[t]) /\ pc[t] = "dropRow"
      BY <1>12, <1>1, <1>4 DEF DropRow, Tables
    <2>2. T \in Tables /\ T.rows = {x \in V.rows : x.id # req[t].row}
      BY <1>1 DEF Tables
    <2> HIDE DEF T
    <2>3. NoneDeleted => WholeBut(T.rows, "recalculate", req[t])
      BY <1>3, <2>1, <2>2 DEF WholeBut, Damage
    <2> QED BY <1>5, <2>1, <2>3, WriteIsWhole
  <1>13. CASE Recalculate(t)
    <2> DEFINE r == [req[t] EXCEPT !.top = HighestVersion(V), !.row = NoRow]
    <2>1. req' = [req EXCEPT ![t] = r] /\ pc[t] = "recalculate"
      BY <1>1, <1>13 DEF Recalculate
    <2>2. r.kind = req[t].kind /\ r.content = req[t].content /\ r.v = req[t].v /\ r.then = req[t].then
      BY <1>1 DEF Request
    <2> HIDE DEF r
    <2>3. PICK label \in {"point", "pk"} : NoWrite /\ Moves(t, label, r)
      BY <1>13, <2>1 DEF Recalculate, Moves, Goto
    <2>4. \A x : Damage(pc[t], req[t], x) => Damage(label, r, x)
      BY <2>1, <2>2 DEF Damage, Removing
    <2> QED BY <1>5, <2>2, <2>3, <2>4, NoWriteIsWhole
  <1> QED BY <1>7, <1>8, <1>9, <1>10, <1>11, <1>12, <1>13

LEMMA IndexIsWhole ==
    ASSUME WholeInv, TypeOK', UNCHANGED config, NEW t \in Thread,
           InsertRow(t) \/ GenerateArchive(t) \/ InsertDetails(t) \/ ScanSubmodules(t)
    PROVE  WholeInv'
  <1> DEFINE V == View(t)
  <1>1. V \in Tables /\ req[t] \in Request /\ req \in [Thread -> Request]
    BY ViewType DEF WholeInv, TypeOK, StoreType
  <1>2. /\ pc[t] \in {"insert", "archive", "details", "submodules"} /\ Legal(pc[t], req[t])
        /\ req[t].kind = "index" /\ req[t].content \in Content
    BY DEF WholeInv, Serves, Legal, InsertRow, GenerateArchive, InsertDetails, ScanSubmodules
  <1>3. NoneDeleted => WholeBut(V.rows, pc[t], req[t])
    BY ViewIsWhole
  <1>4. \A label : Goto(t, label) /\ UNCHANGED req => Moves(t, label, req[t])
    BY SameRequest DEF WholeInv
  <1>5. ASSUME NEW r, NEW label \in {"archive", "details", "submodules", "mark", "commit"},
               r.kind = req[t].kind, r.content = req[t].content, r.then = "commit"
        PROVE  Legal(label, r) /\ label \in Labels \ {"idle"}
    BY <1>2, <1>5 DEF Legal, Removing, Labels
  <1>6. pc[t] # "insert" => req[t].then = "commit"
    BY <1>1, <1>2 DEF Legal, Request
  <1>7. CASE InsertRow(t)
    <2> DEFINE r == [req[t] EXCEPT !.then = "commit"]
    <2>1. req' = [req EXCEPT ![t] = r]
      BY <1>1, <1>7 DEF InsertRow
    <2>2. r.kind = req[t].kind /\ r.content = req[t].content /\ r.v = req[t].v /\ r.then = "commit"
      BY <1>1 DEF Request
    <2> HIDE DEF r
    <2>3. Moves(t, "archive", r) /\ pc[t] = "insert"
      BY <1>7, <2>1 DEF InsertRow, Moves, Goto
    <2>4. PICK new \in RowId : \E f :
            Write(t, [[V EXCEPT !.rows = @ \cup {[id |-> new, version |-> req[t].v,
                                                 published |-> FALSE, content |-> Nothing]}]
                        EXCEPT !.parentOf = f])
      BY <1>7 DEF InsertRow
    <2> DEFINE row == [id |-> new, version |-> req[t].v, published |-> FALSE, content |-> Nothing]
    <2>a. PICK f : Write(t, [[V EXCEPT !.rows = @ \cup {row}] EXCEPT !.parentOf = f])
      BY <2>4
    <2> DEFINE T == [[V EXCEPT !.rows = @ \cup {row}] EXCEPT !.parentOf = f]
    <2>5. T.rows = V.rows \cup {row} /\ row.version = req[t].v
      BY <1>1 DEF Tables
    <2>6. Write(t, T)
      BY <2>a
    <2> HIDE DEF T, row
    <2>7. NoneDeleted => WholeBut(T.rows, "archive", r)
      BY <1>3, <2>2, <2>3, <2>5 DEF WholeBut, Damage, Removing
    <2> QED BY <1>5, <2>2, <2>3, <2>6, <2>7, WriteIsWhole
  <1>8. CASE GenerateArchive(t)
    <2>1. NoWrite /\ Moves(t, "details", req[t]) /\ pc[t] = "archive"
      BY <1>4, <1>8 DEF GenerateArchive
    <2>2. \A x : Damage(pc[t], req[t], x) => Damage("details", req[t], x)
      BY <2>1 DEF Damage, Removing
    <2> QED BY <1>5, <1>6, <2>1, <2>2, NoWriteIsWhole
  <1>9. CASE InsertDetails(t)
    <2> DEFINE R == {IF x.version = req[t].v
                     THEN [x EXCEPT !.published = FALSE, !.content = req[t].content]
                     ELSE x : x \in V.rows}
               T == [V EXCEPT !.rows = R]
    <2>1. T.rows = R /\ Write(t, T) /\ Moves(t, "submodules", req[t]) /\ pc[t] = "details"
      BY <1>1, <1>4, <1>9 DEF InsertDetails, Tables
    <2>2. V.rows \in SUBSET Row
      BY <1>1 DEF Tables
    <2>3. \A x \in Row :
             x.content # Nothing \/ x.version = req[t].v =>
                (IF x.version = req[t].v
                 THEN [x EXCEPT !.published = FALSE, !.content = req[t].content]
                 ELSE x).content # Nothing
      BY <1>2, RequestsAssumption DEF Row
    <2>4. NoneDeleted => \A x \in V.rows : x \in Row /\ (x.content # Nothing \/ x.version = req[t].v)
      BY <1>3, <1>6, <2>1, <2>2 DEF WholeBut, Damage
    <2>5. NoneDeleted => \A x \in R : x.content # Nothing
      BY <2>3, <2>4
    <2> HIDE DEF T, R
    <2> QED BY <1>5, <1>6, <2>1, <2>5, WriteIsWhole DEF WholeBut
  <1>10. CASE ScanSubmodules(t)
    <2>1. PICK label \in {"mark", "commit"} : NoWrite /\ Moves(t, label, req[t])
      BY <1>4, <1>10 DEF ScanSubmodules
    <2>2. \A x : ~Damage(pc[t], req[t], x)
      BY <1>6, <1>10 DEF ScanSubmodules, Damage
    <2> QED BY <1>5, <1>6, <1>10, <2>1, <2>2, NoWriteIsWhole DEF ScanSubmodules
  <1> QED BY <1>7, <1>8, <1>9, <1>10

LEMMA PublishIsWhole ==
    ASSUME WholeInv, TypeOK', UNCHANGED config, NEW t \in Thread,
           \/ MarkPublished(t) \/ AnyLatest(t) \/ IsLatest(t) \/ ReadPk(t) \/ PointLatest(t)
           \/ \E d \in Download : RecordDownload(t, d)
    PROVE  WholeInv'
  <1> DEFINE V == View(t)
  <1>1. V \in Tables /\ req[t] \in Request /\ req \in [Thread -> Request]
    BY ViewType DEF WholeInv, TypeOK, StoreType
  <1>2. /\ pc[t] \in {"mark", "anyLatest", "isLatest", "pk", "point", "record"}
        /\ Legal(pc[t], req[t])
    BY DEF MarkPublished, AnyLatest, IsLatest, ReadPk, PointLatest, RecordDownload, WholeInv, Serves
  <1>3. NoneDeleted => WholeBut(V.rows, pc[t], req[t])
    BY ViewIsWhole
  <1>4. \A label : Goto(t, label) /\ UNCHANGED req => Moves(t, label, req[t])
    BY SameRequest DEF WholeInv
  <1>5. ASSUME NEW r, NEW label \in {"anyLatest", "isLatest", "pk", "point", "commit"},
               r.kind = req[t].kind, r.content = req[t].content, r.then = req[t].then,
               r.then = "insert" => label \in {"pk", "point"}
        PROVE  Legal(label, r) /\ label \in Labels \ {"idle"}
    BY <1>2, <1>5 DEF Legal, Removing, Labels
  <1>6. req[t].then = "insert" => pc[t] \in {"pk", "point"}
    BY <1>2 DEF Legal
  <1>7. \A label, x : Damage(pc[t], req[t], x) => Damage(label, req[t], x)
    BY <1>2 DEF Damage, Removing
  <1>8. ASSUME NEW T, T.rows = V.rows, NEW label PROVE NoneDeleted => WholeBut(T.rows, label, req[t])
    BY <1>3, <1>7, <1>8 DEF WholeBut
  <1>9. CASE MarkPublished(t)
    <2> DEFINE R == {IF x.version = req[t].v THEN [x EXCEPT !.published = TRUE] ELSE x : x \in V.rows}
               T == [V EXCEPT !.rows = R]
    <2>1. T.rows = R /\ Write(t, T) /\ Moves(t, "anyLatest", req[t]) /\ pc[t] = "mark"
      BY <1>1, <1>4, <1>9 DEF MarkPublished, Tables
    <2>2. \A x \in Row : [x EXCEPT !.published = TRUE].content = x.content
      BY DEF Row
    <2>3. V.rows \in SUBSET Row
      BY <1>1 DEF Tables
    <2>4. NoneDeleted => \A x \in V.rows : x.content # Nothing
      BY <1>3, <1>6, <2>1 DEF WholeBut, Damage
    <2>5. NoneDeleted => \A x \in R : x.content # Nothing
      BY ZenonT(60), <2>2, <2>3, <2>4
    <2> HIDE DEF T, R
    <2> QED BY <1>5, <1>6, <2>1, <2>5, WriteIsWhole DEF WholeBut
  <1>10. CASE AnyLatest(t)
    <2>1. PICK label \in {"commit", "isLatest"} : NoWrite /\ Moves(t, label, req[t])
      BY <1>4, <1>10 DEF AnyLatest
    <2> QED BY <1>5, <1>6, <1>7, <1>10, <2>1, NoWriteIsWhole DEF AnyLatest
  <1>11. CASE IsLatest(t) /\ ~Abandon(t)
    <2> DEFINE r == [req[t] EXCEPT !.top = HighestVersion(V)]
    <2>1. req' = [req EXCEPT ![t] = r]
      BY <1>1, <1>11 DEF IsLatest
    <2>2. r.kind = req[t].kind /\ r.content = req[t].content /\ r.v = req[t].v /\ r.then = req[t].then
      BY <1>1 DEF Request
    <2> HIDE DEF r
    <2>3. PICK label \in {"commit", "pk"} : NoWrite /\ Moves(t, label, r)
      BY <1>11, <2>1 DEF IsLatest, Moves, Goto
    <2>4. \A x : ~Damage(pc[t], req[t], x)
      BY <1>6, <1>11 DEF IsLatest, Damage
    <2> QED BY <1>5, <1>6, <1>11, <2>2, <2>3, <2>4, NoWriteIsWhole DEF IsLatest
  <1>12. CASE ReadPk(t) /\ ~Abandon(t)
    <2>1. PICK x \in RowsFor(V, req[t].top) :
            req' = [req EXCEPT ![t].row = x.id] /\ Goto(t, "point") /\ NoWrite
      BY <1>12 DEF ReadPk
    <2> DEFINE r == [req[t] EXCEPT !.row = x.id]
    <2>2. req' = [req EXCEPT ![t] = r]
      BY <1>1, <2>1
    <2>3. r.kind = req[t].kind /\ r.content = req[t].content /\ r.v = req[t].v /\ r.then = req[t].then
      BY <1>1 DEF Request
    <2> HIDE DEF r
    <2>4. Moves(t, "point", r)
      BY <2>1, <2>2 DEF Moves, Goto
    <2>5. \A y : Damage(pc[t], req[t], y) => Damage("point", r, y)
      BY <1>2, <2>3 DEF Damage, Removing
    <2> QED BY <1>5, <2>1, <2>3, <2>4, <2>5, NoWriteIsWhole
  <1>13. CASE PointLatest(t)
    <2> DEFINE T == [V EXCEPT !.latest = req[t].row]
    <2>1. T.rows = V.rows /\ Write(t, T) /\ Moves(t, req[t].then, req[t]) /\ pc[t] = "point"
      BY <1>1, <1>4, <1>13 DEF PointLatest, Tables
    <2>2. req[t].then \in {"insert", "commit"}
      BY <1>1 DEF Request
    <2>3. Legal(req[t].then, req[t])
      BY <1>2, <2>1, <2>2 DEF Legal, Removing
    <2> HIDE DEF T
    <2> QED BY <1>8, <2>1, <2>2, <2>3, WriteIsWhole DEF Labels
  <1>14. ASSUME NEW d \in Download, RecordDownload(t, d) PROVE WholeInv'
    <2> DEFINE T == [V EXCEPT !.parentOf[d] = req[t].row]
    <2>1. T.rows = V.rows /\ Write(t, T) /\ Moves(t, "commit", req[t]) /\ pc[t] = "record"
      BY <1>1, <1>4, <1>14 DEF RecordDownload, Tables
    <2> HIDE DEF T
    <2> QED BY <1>5, <1>6, <1>8, <2>1, WriteIsWhole
  <1>15. CASE Abandon(t)
    BY <1>15, EndIsWhole
  <1> QED BY <1>9, <1>10, <1>11, <1>12, <1>13, <1>14, <1>15

LEMMA WholeInit == Init => WholeInv
  <1> SUFFICES ASSUME Init PROVE WholeInv
    OBVIOUS
  <1>1. \A x \in db.rows : x.content # Nothing
    BY RequestsAssumption DEF Init
  <1>2. \A t \in Thread : Serves(t) /\ Extracted(t)
    BY RequestsAssumption DEF Init, Serves, Legal, Removing, NoRequest, Extracted
  <1> QED BY <1>1, <1>2, TypeInit DEF WholeInv, NoHalfIndexedVersion

LEMMA WholeNext == WholeInv /\ [Next]_vars => WholeInv'
  <1> SUFFICES ASSUME WholeInv, [Next]_vars PROVE WholeInv'
    OBVIOUS
  <1> TypeOK'
    BY TypeNext DEF WholeInv
  <1>1. CASE Crash
    <2>1. \A t \in Thread : Serves(t)' /\ Extracted(t)'
      BY <1>1, RequestsAssumption DEF Crash, Serves, Legal, Removing, NoRequest, Extracted
    <2> QED BY <1>1, <2>1 DEF Crash, WholeInv, NoHalfIndexedVersion
  <1>2. ASSUME NEW t \in Thread, Arrive(t) PROVE WholeInv'
    BY <1>2, ArriveIsWhole
  <1>3. ASSUME NEW t \in Thread, Step(t) PROVE WholeInv'
    BY <1>3, DeleteIsWhole, IndexIsWhole, PublishIsWhole, EndIsWhole
       DEF Step, ExtractionFails, LockTimeout
  <1>4. CASE UNCHANGED vars
    BY <1>4 DEF vars, WholeInv, NoHalfIndexedVersion, Serves, Legal, InTransaction, Extracted,
                WholeBut, Damage, NoneDeleted
  <1> QED BY <1>1, <1>2, <1>3, <1>4 DEF Next

\* Where no version is deleted, no request sees one whose extraction has not
\* come to its end, nor one whose re-index has begun to take its old extraction
\* away (_create_db_row to process_upload in one transaction): for any number
\* of threads, whatever interleaves, fails or is killed.
THEOREM ExtractionIsWhole == Spec => []NoHalfIndexedVersion
  <1>1. WholeInv => NoHalfIndexedVersion
    BY DEF WholeInv
  <1> QED BY <1>1, WholeInit, WholeNext, PTL DEF Spec

-----------------------------------------------------------------------------
(* Where versions are published and uploaded for the first time, and       *)
(* uploads publish at once, the latest version is always eligible.  Rows   *)
(* of one version are published together (Agrees), so that it does not     *)
(* matter which of them the pointer is given; what is published stays      *)
(* (Keeps), so that what a request has read before is eligible when it     *)
(* writes the pointer.  An upload breaks both for its own version, until   *)
(* it publishes it in the same transaction.                                *)

Publishing ==
    /\ config.kinds \subseteq {"index", "publish"}
    /\ config.mode = "prohibit"
    /\ config.auto

Agrees(T, half) ==
    \A x, y \in T.rows : x.version = y.version /\ x.version \notin half => x.published = y.published

Points(T, redo) ==
    T.latest = NoRow \/ \E y \in T.rows : /\ y.id = T.latest /\ y.version \notin Beta
                                          /\ y.published \/ y.version \in redo

Keeps(D, T, redo) ==
    \A x \in D.rows : x.published =>
        \E y \in T.rows : /\ y.id = x.id /\ y.version = x.version
                          /\ y.published \/ y.version \in redo

Fine(D, T, half, redo) == Agrees(T, half) /\ Points(T, redo) /\ Keeps(D, T, redo)

\* The version whose new row is not filled yet, and the one to be published.
HalfOf(t) == IF Half(t) THEN {req[t].v} ELSE {}
RedoOf(t) == IF pc[t] \in {"submodules", "mark"} THEN {req[t].v} ELSE {}

\* Where requests are, and what they have read.
Orderly(t) ==
    /\ pc[t] \in {"idle", "insert", "archive", "details", "submodules", "mark", "anyLatest",
                  "isLatest", "pk", "point", "commit"}
    /\ req[t].then = "commit"
    /\ req[t].kind = "index" => req[t].publish
    /\ pc[t] = "pk" => \E x \in Eligible(View(t)) : x.version = req[t].top
    /\ pc[t] = "point" => \E x \in Eligible(View(t)) : x.id = req[t].row

FineInv ==
    /\ Fine(db, db, {}, {})
    /\ \A t \in Thread : Orderly(t) /\ (holder = t => Fine(db, work, HalfOf(t), RedoOf(t)))

EligibleInv == WholeInv /\ (Publishing => FineInv)

LEMMA ViewIsFine ==
    ASSUME FineInv, NEW t \in Thread
    PROVE  Fine(db, View(t), HalfOf(t), RedoOf(t))
  <1>1. CASE holder = t
    BY <1>1 DEF FineInv, View
  <1>2. CASE holder # t
    BY <1>2 DEF FineInv, View, Fine, Agrees, Points, Keeps
  <1> QED BY <1>1, <1>2

\* Tables in which everything eligible stays so.
Grows(A, B) ==
    \A x \in Eligible(A) : \E y \in Eligible(B) : y.id = x.id /\ y.version = x.version

LEMMA KeepsGrows ==
    ASSUME NEW D, NEW T, Keeps(D, T, {})
    PROVE  Grows(D, T)
  BY DEF Keeps, Grows, Eligible

\* The other threads while t changes the committed tables, or does not.
LEMMA OthersStayFine ==
    ASSUME NEW t \in Thread, Frame(t), Grows(db, db'), NEW u \in Thread \ {t}, Orderly(u),
           holder = u => holder' = u /\ db' = db /\ Fine(db, work, HalfOf(u), RedoOf(u))
    PROVE  /\ Orderly(u)'
           /\ holder' = u => Fine(db, work, HalfOf(u), RedoOf(u))'
  <1>1. /\ pc'[u] = pc[u] /\ req'[u] = req[u]
        /\ holder' = u <=> holder = u
        /\ holder = u => work' = work /\ db' = db
    BY DEF Frame
  <1>2. Grows(View(u), View(u)')
    <2>1. CASE holder = u
      BY <1>1, <2>1 DEF View, Grows, Eligible
    <2>2. CASE holder # u
      BY <1>1, <2>2 DEF View
    <2> QED BY <2>1, <2>2
  <1>3. Orderly(u)'
    BY <1>1, <1>2 DEF Orderly, Grows
  <1>4. ASSUME holder' = u PROVE Fine(db, work, HalfOf(u), RedoOf(u))'
    BY <1>1, <1>4 DEF HalfOf, RedoOf, Half
  <1> QED BY <1>3, <1>4

\* A statement of t that leaves the tables T.
LEMMA WriteIsFine ==
    ASSUME WholeInv, FineInv, UNCHANGED config, NEW t \in Thread, NEW T, Write(t, T),
           NEW label \in {"archive", "submodules", "anyLatest", "commit"}, NEW r,
           Moves(t, label, r),
           r.then = "commit", r.kind = req[t].kind, r.publish = req[t].publish,
           label \in {"archive", "submodules"} => r.kind = "index",
           Fine(db, T, IF label = "archive" THEN {r.v} ELSE {},
                       IF label = "submodules" THEN {r.v} ELSE {})
    PROVE  FineInv'
  <1>1. /\ pc'[t] = label /\ req'[t] = r
        /\ \A u \in Thread \ {t} : pc'[u] = pc[u] /\ req'[u] = req[u]
    BY MovesFrame DEF WholeInv
  <1>2. Frame(t) /\ \A u \in Thread \ {t} : holder # u
    BY <1>1, RequestsAssumption DEF Frame, Write
  <1>3. Orderly(t)'
    BY <1>1 DEF FineInv, Orderly
  <1>4. CASE InTransaction(t)
    <2>1. db' = db /\ work' = T
      BY <1>4 DEF Write
    <2>2. Grows(db, db')
      BY <2>1 DEF Grows
    <2>3. \A u \in Thread \ {t} : Orderly(u)' /\ (holder' = u => Fine(db, work, HalfOf(u), RedoOf(u))')
      BY <1>2, <2>2, OthersStayFine DEF FineInv
    <2>4. Fine(db, work, HalfOf(t), RedoOf(t))'
      BY <1>1, <2>1 DEF HalfOf, RedoOf, Half
    <2> QED BY <1>3, <2>1, <2>3, <2>4 DEF FineInv
  <1>5. CASE ~InTransaction(t)
    <2>1. db' = T /\ holder' = holder /\ holder # t
      BY <1>5, RequestsAssumption DEF Write, WholeInv, Serves
    <2>2. label \notin {"archive", "submodules"}
      BY <1>5 DEF InTransaction
    <2>3. Fine(db, T, {}, {})
      BY <2>2
    <2>4. Grows(db, db')
      BY <2>1, <2>3, KeepsGrows DEF Fine
    <2>5. \A u \in Thread \ {t} : Orderly(u)' /\ (holder' = u => Fine(db, work, HalfOf(u), RedoOf(u))')
      BY <1>2, <2>4, OthersStayFine DEF FineInv
    <2>6. Fine(db, db, {}, {})'
      BY <2>1, <2>3 DEF Fine, Keeps
    <2> QED BY <1>3, <2>1, <2>5, <2>6 DEF FineInv
  <1> QED BY <1>4, <1>5

\* A step of t that writes nothing.
LEMMA NoWriteIsFine ==
    ASSUME WholeInv, FineInv, UNCHANGED config, NEW t \in Thread, NoWrite,
           NEW label, NEW r, Moves(t, label, r),
           label \in {"insert", "details", "mark", "anyLatest", "isLatest", "pk", "point", "commit"},
           r.then = "commit", r.kind = "index" => r.publish,
           \/ holder # t
           \/ /\ r.v = req[t].v
              /\ Half(t) <=> label = "details"
              /\ pc[t] \in {"submodules", "mark"} <=> label = "mark",
           label = "pk" => \E x \in Eligible(View(t)) : x.version = r.top,
           label = "point" => \E x \in Eligible(View(t)) : x.id = r.row
    PROVE  FineInv'
  <1>1. /\ pc'[t] = label /\ req'[t] = r
        /\ \A u \in Thread \ {t} : pc'[u] = pc[u] /\ req'[u] = req[u]
    BY MovesFrame DEF WholeInv
  <1>2. UNCHANGED <<db, holder, work>> /\ Frame(t) /\ Grows(db, db')
    BY <1>1 DEF Frame, NoWrite, Grows
  <1>3. \A u \in Thread \ {t} : Orderly(u)' /\ (holder' = u => Fine(db, work, HalfOf(u), RedoOf(u))')
    BY <1>2, OthersStayFine DEF FineInv
  <1>4. Orderly(t)'
    BY <1>1, <1>2 DEF Orderly, View
  <1>5. ASSUME holder' = t PROVE Fine(db, work, HalfOf(t), RedoOf(t))'
    <2>1. HalfOf(t)' = HalfOf(t) /\ RedoOf(t)' = RedoOf(t)
      BY <1>1, <1>2, <1>5 DEF HalfOf, RedoOf, Half
    <2> QED BY <1>2, <1>5, <2>1 DEF FineInv
  <1> QED BY <1>2, <1>3, <1>4, <1>5 DEF FineInv

LEMMA EndIsFine ==
    ASSUME WholeInv, FineInv, UNCHANGED config, NEW t \in Thread, Abandon(t) \/ Finish(t)
    PROVE  FineInv'
  <1>1. Moves(t, "idle", NoRequest)
    BY DEF Abandon, Finish, Goto, Moves
  <1>2. /\ pc'[t] = "idle" /\ req'[t] = NoRequest
        /\ \A u \in Thread \ {t} : pc'[u] = pc[u] /\ req'[u] = req[u]
    BY <1>1, MovesFrame DEF WholeInv
  <1>3. Frame(t) /\ holder' # t /\ \A u \in Thread \ {t} : holder = u => holder' = u /\ db' = db
    BY <1>2, RequestsAssumption DEF Abandon, Finish, NoWrite, Frame
  <1>4. \/ db' = db
        \/ db' = work /\ Fine(db, work, {}, {})
    BY DEF Abandon, Finish, NoWrite, FineInv, HalfOf, RedoOf, Half
  <1>5. Grows(db, db') /\ Fine(db, db, {}, {})'
    <2>1. CASE db' = db
      BY <2>1 DEF Grows, FineInv
    <2>2. CASE db' = work /\ Fine(db, work, {}, {})
      BY <2>2, KeepsGrows DEF Fine, Keeps
    <2> QED BY <1>4, <2>1, <2>2
  <1>6. \A u \in Thread \ {t} : Orderly(u)' /\ (holder' = u => Fine(db, work, HalfOf(u), RedoOf(u))')
    BY <1>3, <1>5, OthersStayFine DEF FineInv
  <1>7. Orderly(t)'
    BY <1>2 DEF Orderly, NoRequest
  <1> QED BY <1>3, <1>5, <1>6, <1>7 DEF FineInv

LEMMA ArriveIsFine ==
    ASSUME WholeInv, Publishing, FineInv, NEW t \in Thread, Arrive(t)
    PROVE  FineInv'
  <1>1. ASSUME NEW r, NEW label \in {"insert", "mark"}, Start(t, r, label),
               r.then = "commit", r.kind = "index" => r.publish
        PROVE  FineInv'
    <2>1. Moves(t, label, r) /\ holder # t /\ NoWrite /\ UNCHANGED config
      BY <1>1 DEF Start, Moves, Goto, WholeInv, Serves, Arrive
    <2> QED BY <1>1, <2>1, NoWriteIsFine
  <1>2. ASSUME NEW v \in Version, NEW c \in Content, StartIndex(t, v, c) PROVE FineInv'
    <2> DEFINE q == [[NoRequest EXCEPT !.kind = "index", !.v = v, !.content = c]
                        EXCEPT !.publish = config.auto]
    <2>1. Start(t, q, "insert")
      BY <1>2 DEF StartIndex, Publishing
    <2>2. q.then = "commit" /\ q.publish
      BY DEF NoRequest, Publishing
    <2> HIDE DEF q
    <2> QED BY <1>1, <2>1, <2>2
  <1>3. ASSUME NEW v \in Version, StartPublish(t, v) PROVE FineInv'
    <2> DEFINE q == [NoRequest EXCEPT !.kind = "publish", !.v = v]
    <2>1. Start(t, q, "mark")
      BY <1>3 DEF StartPublish
    <2>2. q.then = "commit" /\ q.kind # "index"
      BY DEF NoRequest
    <2> HIDE DEF q
    <2> QED BY <1>1, <2>1, <2>2
  <1>4. ASSUME NEW v \in Version, NEW kind \in {"delete", "hookDelete"} PROVE ~StartDelete(t, v, kind)
    BY <1>4 DEF StartDelete, Start, NoRequest, Publishing
  <1>5. ASSUME NEW v \in Version PROVE ~StartDownload(t, v)
    BY DEF StartDownload, Start, NoRequest, Publishing
  <1> QED BY <1>2, <1>3, <1>4, <1>5 DEF Arrive

LEMMA IndexIsFine ==
    ASSUME WholeInv, FineInv, UNCHANGED config, NEW t \in Thread,
           InsertRow(t) \/ GenerateArchive(t) \/ InsertDetails(t) \/ ScanSubmodules(t)
    PROVE  FineInv'
  <1> DEFINE V == View(t)
  <1>1. V \in Tables /\ req[t] \in Request /\ req \in [Thread -> Request]
    BY ViewType DEF WholeInv, TypeOK, StoreType
  <1>2. req[t].kind = "index" /\ req[t].then = "commit" /\ req[t].publish
    BY DEF WholeInv, Serves, Legal, FineInv, Orderly,
           InsertRow, GenerateArchive, InsertDetails, ScanSubmodules
  <1>3. Fine(db, V, HalfOf(t), RedoOf(t))
    BY ViewIsFine
  <1>4. \A label : Goto(t, label) /\ UNCHANGED req => Moves(t, label, req[t])
    BY SameRequest DEF WholeInv
  <1>5. CASE InsertRow(t)
    <2> DEFINE r == [req[t] EXCEPT !.then = "commit"]
    <2>1. req' = [req EXCEPT ![t] = r] /\ Goto(t, "archive")
      BY <1>1, <1>5 DEF InsertRow
    <2>2. /\ r.kind = req[t].kind /\ r.v = req[t].v /\ r.publish = req[t].publish
          /\ r.then = "commit"
      BY <1>1 DEF Request
    <2> HIDE DEF r
    <2>3. Moves(t, "archive", r)
      BY <2>1 DEF Moves, Goto
    <2> DEFINE row(new) == [id |-> new, version |-> req[t].v, published |-> FALSE, content |-> Nothing]
    <2>4. PICK new \in RowId : \E f :
            Write(t, [[V EXCEPT !.rows = @ \cup {row(new)}] EXCEPT !.parentOf = f])
      BY <1>5 DEF InsertRow
    <2>5. PICK f : Write(t, [[V EXCEPT !.rows = @ \cup {row(new)}] EXCEPT !.parentOf = f])
      BY <2>4
    <2> DEFINE T == [[V EXCEPT !.rows = @ \cup {row(new)}] EXCEPT !.parentOf = f]
    <2>6. T.rows = V.rows \cup {row(new)} /\ T.latest = V.latest /\ row(new).version = req[t].v
      BY <1>1 DEF Tables
    <2>7. Write(t, T)
      BY <2>5
    <2>8. HalfOf(t) = {} /\ RedoOf(t) = {}
      BY <1>5 DEF InsertRow, HalfOf, RedoOf, Half
    <2> HIDE DEF T, row
    <2>9. Fine(db, T, {r.v}, {})
      BY <1>3, <2>2, <2>6, <2>8 DEF Fine, Agrees, Points, Keeps
    <2> QED BY <1>2, <2>2, <2>3, <2>7, <2>9, WriteIsFine
  <1>6. CASE GenerateArchive(t)
    <2>1. NoWrite /\ Moves(t, "details", req[t]) /\ Half(t) /\ pc[t] \notin {"submodules", "mark"}
      BY <1>4, <1>6 DEF GenerateArchive, Half
    <2> QED BY <1>2, <2>1, NoWriteIsFine
  <1>7. CASE InsertDetails(t)
    <2> DEFINE g(x) == IF x.version = req[t].v
                       THEN [x EXCEPT !.published = FALSE, !.content = req[t].content]
                       ELSE x
               R == {g(x) : x \in V.rows}
               T == [V EXCEPT !.rows = R]
    <2>1. T.rows = R /\ T.latest = V.latest /\ Write(t, T) /\ Moves(t, "submodules", req[t])
      BY <1>1, <1>4, <1>7 DEF InsertDetails, Tables
    <2>2. V.rows \in SUBSET Row
      BY <1>1 DEF Tables
    <2>3. HalfOf(t) = {req[t].v} /\ RedoOf(t) = {}
      BY <1>7 DEF InsertDetails, HalfOf, RedoOf, Half
    <2>4. \A x \in Row : /\ g(x).id = x.id /\ g(x).version = x.version
                         /\ g(x).published <=> (x.published /\ x.version # req[t].v)
                         /\ g(x).published = (x.published /\ x.version # req[t].v)
      BY DEF Row
    <2>5. \A y \in R : \E x \in V.rows : y = g(x) /\ x \in Row
      BY <2>2
    <2>6. \A x \in V.rows : g(x) \in R /\ x \in Row
      BY <2>2
    <2> HIDE DEF T, R, g
    <2>7. Agrees(T, {})
      BY <1>3, <2>1, <2>3, <2>4, <2>5 DEF Fine, Agrees
    <2>a. ASSUME NEW y \in V.rows, y.published
          PROVE  /\ g(y) \in R /\ g(y).id = y.id /\ g(y).version = y.version
                 /\ g(y).published \/ g(y).version \in {req[t].v}
      BY <2>4, <2>6, <2>a
    <2>8. Points(T, {req[t].v})
      BY <1>3, <2>1, <2>3, <2>a DEF Fine, Points
    <2>9. Keeps(db, T, {req[t].v})
      BY <1>3, <2>1, <2>3, <2>a DEF Fine, Keeps
    <2> QED BY <1>2, <2>1, <2>7, <2>8, <2>9, WriteIsFine DEF Fine
  <1>8. CASE ScanSubmodules(t)
    <2>1. NoWrite /\ Moves(t, "mark", req[t]) /\ ~Half(t) /\ pc[t] = "submodules"
      BY <1>2, <1>4, <1>8 DEF ScanSubmodules, Half
    <2> QED BY <1>2, <2>1, NoWriteIsFine
  <1> QED BY <1>5, <1>6, <1>7, <1>8

LEMMA PublishIsFine ==
    ASSUME WholeInv, FineInv, UNCHANGED config, NEW t \in Thread,
           MarkPublished(t) \/ AnyLatest(t) \/ IsLatest(t) \/ ReadPk(t) \/ PointLatest(t)
    PROVE  FineInv'
  <1> DEFINE V == View(t)
  <1>1. V \in Tables /\ req[t] \in Request /\ req \in [Thread -> Request]
    BY ViewType DEF WholeInv, TypeOK, StoreType
  <1>2. req[t].then = "commit" /\ (req[t].kind = "index" => req[t].publish)
    BY DEF FineInv, Orderly
  <1>3. Fine(db, V, HalfOf(t), RedoOf(t))
    BY ViewIsFine
  <1>4. \A label : Goto(t, label) /\ UNCHANGED req => Moves(t, label, req[t])
    BY SameRequest DEF WholeInv
  <1>5. CASE MarkPublished(t)
    <2> DEFINE g(x) == IF x.version = req[t].v THEN [x EXCEPT !.published = TRUE] ELSE x
               R == {g(x) : x \in V.rows}
               T == [V EXCEPT !.rows = R]
    <2>1. T.rows = R /\ T.latest = V.latest /\ Write(t, T) /\ Moves(t, "anyLatest", req[t])
      BY <1>1, <1>4, <1>5 DEF MarkPublished, Tables
    <2>2. V.rows \in SUBSET Row
      BY <1>1 DEF Tables
    <2>3. HalfOf(t) = {} /\ RedoOf(t) = {req[t].v}
      BY <1>5 DEF MarkPublished, HalfOf, RedoOf, Half
    <2>4. \A x \in Row : /\ g(x).id = x.id /\ g(x).version = x.version
                         /\ g(x).published <=> (x.published \/ x.version = req[t].v)
                         /\ g(x).published = (x.published \/ x.version = req[t].v)
      BY DEF Row
    <2>5. \A y \in R : \E x \in V.rows : y = g(x) /\ x \in Row
      BY <2>2
    <2>6. \A x \in V.rows : g(x) \in R /\ x \in Row
      BY <2>2
    <2> HIDE DEF T, R, g
    <2>7. Agrees(T, {})
      BY <1>3, <2>1, <2>3, <2>4, <2>5 DEF Fine, Agrees
    <2>a. ASSUME NEW y \in V.rows, y.published \/ y.version \in {req[t].v}
          PROVE  g(y) \in R /\ g(y).id = y.id /\ g(y).version = y.version /\ g(y).published
      BY <2>4, <2>6, <2>a
    <2>8. Points(T, {})
      BY <1>3, <2>1, <2>3, <2>a DEF Fine, Points
    <2>9. Keeps(db, T, {})
      BY <1>3, <2>1, <2>3, <2>a DEF Fine, Keeps
    <2> QED BY <1>2, <2>1, <2>7, <2>8, <2>9, WriteIsFine DEF Fine
  <1>6. CASE AnyLatest(t)
    <2>1. PICK label \in {"commit", "isLatest"} : NoWrite /\ Moves(t, label, req[t])
      BY <1>4, <1>6 DEF AnyLatest
    <2> QED BY <1>2, <1>6, <2>1, NoWriteIsFine DEF AnyLatest, Half
  <1>7. CASE IsLatest(t) /\ ~Abandon(t)
    <2> DEFINE r == [req[t] EXCEPT !.top = HighestVersion(V)]
    <2>1. req' = [req EXCEPT ![t] = r]
      BY <1>1, <1>7 DEF IsLatest
    <2>2. /\ r.kind = req[t].kind /\ r.publish = req[t].publish /\ r.v = req[t].v
          /\ r.then = req[t].then /\ r.top = HighestVersion(V)
      BY <1>1 DEF Request
    <2> HIDE DEF r
    <2>3. PICK label \in {"commit", "pk"} : NoWrite /\ Moves(t, label, r)
      BY <1>7, <2>1 DEF IsLatest, Moves, Goto
    <2>4. \E x \in Eligible(V) : x.version = r.top
      BY <1>1, <1>7, <2>2, HighestIsEligible DEF IsLatest
    <2> QED BY <1>2, <1>7, <2>2, <2>3, <2>4, NoWriteIsFine DEF IsLatest, Half
  <1>8. CASE ReadPk(t) /\ ~Abandon(t)
    <2>1. PICK x \in RowsFor(V, req[t].top) :
            req' = [req EXCEPT ![t].row = x.id] /\ Goto(t, "point") /\ NoWrite
      BY <1>8 DEF ReadPk
    <2> DEFINE r == [req[t] EXCEPT !.row = x.id]
    <2>2. req' = [req EXCEPT ![t] = r]
      BY <1>1, <2>1
    <2>3. /\ r.kind = req[t].kind /\ r.publish = req[t].publish /\ r.v = req[t].v
          /\ r.then = req[t].then /\ r.row = x.id
      BY <1>1 DEF Request
    <2> HIDE DEF r
    <2>4. Moves(t, "point", r)
      BY <2>1, <2>2 DEF Moves, Goto
    <2>5. pc[t] = "pk" /\ HalfOf(t) = {}
      BY <1>8 DEF ReadPk, HalfOf, Half
    <2>6. PICK y \in Eligible(V) : y.version = req[t].top
      BY <2>5 DEF FineInv, Orderly
    <2>7. x \in Eligible(V)
      BY <1>3, <2>1, <2>5, <2>6 DEF RowsFor, Eligible, Fine, Agrees
    <2> QED BY <1>2, <2>1, <2>3, <2>4, <2>5, <2>7, NoWriteIsFine DEF Half
  <1>9. CASE PointLatest(t)
    <2> DEFINE T == [V EXCEPT !.latest = req[t].row]
    <2>1. T.rows = V.rows /\ T.latest = req[t].row /\ Write(t, T) /\ Moves(t, "commit", req[t])
      BY <1>1, <1>2, <1>4, <1>9 DEF PointLatest, Tables
    <2>2. \E x \in Eligible(V) : x.id = req[t].row
      BY <1>9 DEF PointLatest, FineInv, Orderly
    <2>3. HalfOf(t) = {} /\ RedoOf(t) = {}
      BY <1>9 DEF PointLatest, HalfOf, RedoOf, Half
    <2> HIDE DEF T
    <2>4. Fine(db, T, {}, {})
      BY <1>3, <2>1, <2>2, <2>3 DEF Fine, Agrees, Points, Keeps, Eligible
    <2> QED BY <1>2, <2>1, <2>4, WriteIsFine
  <1>10. CASE Abandon(t)
    BY <1>10, EndIsFine
  <1> QED BY <1>5, <1>6, <1>7, <1>8, <1>9, <1>10

LEMMA EligibleInit == Init => EligibleInv
  <1> SUFFICES ASSUME Init PROVE FineInv
    BY WholeInit DEF EligibleInv
  <1>1. PICK R \in SUBSET Version, P \in SUBSET Version, c \in Content :
          /\ P \subseteq R
          /\ db = [rows |-> {[id |-> i, version |-> i, published |-> i \in P, content |-> c] : i \in R},
                   latest |-> IF P \subseteq Beta THEN NoRow
                              ELSE CHOOSE i \in P \ Beta : \A j \in P \ Beta : j <= i,
                   parentOf |-> [d \in Download |-> NoRow]]
    BY DEF Init
  <1>2. P \ Beta # {} => \E i \in P \ Beta : \A j \in P \ Beta : j <= i
    <2>1. \A i \in P : i \in 1..MaxVersion
      BY DEF Version
    <2>2. P \ Beta \in SUBSET Nat /\ \A i \in P \ Beta : i <= MaxVersion
      BY <2>1, RequestsAssumption
    <2> QED BY <2>2, HighestExists, RequestsAssumption
  <1>3. db.latest = NoRow \/ db.latest \in P \ Beta
    BY <1>1, <1>2
  <1> DEFINE row(i) == [id |-> i, version |-> i, published |-> i \in P, content |-> c]
  <1>a. \A i \in R : row(i) \in db.rows
    BY <1>1
  <1>b. \A i \in P : row(i).id = i /\ row(i).version = i /\ row(i).published
    OBVIOUS
  <1>4. \A i \in P \ Beta : \E y \in db.rows : y.id = i /\ y.version = i /\ y.published
    <2> HIDE DEF row
    <2> QED BY <1>1, <1>a, <1>b
  <1>5. Points(db, {})
    BY <1>3, <1>4 DEF Points
  <1>6. Agrees(db, {})
    BY <1>1 DEF Agrees
  <1>7. \A t \in Thread : Orderly(t) /\ holder # t
    BY RequestsAssumption DEF Init, Orderly, NoRequest
  <1> QED BY <1>5, <1>6, <1>7 DEF FineInv, Fine, Keeps

LEMMA EligibleNext == EligibleInv /\ [Next]_vars => EligibleInv'
  <1> SUFFICES ASSUME EligibleInv, [Next]_vars PROVE EligibleInv'
    OBVIOUS
  <1>a. config' = config
    <2>1. CASE Crash
      BY <2>1 DEF Crash
    <2>2. \A t \in Thread : Arrive(t) \/ Step(t) => config' = config
      BY DEF Arrive, Step
    <2> QED BY <2>1, <2>2 DEF Next, vars
  <1> SUFFICES ASSUME Publishing PROVE FineInv'
    BY <1>a, WholeNext DEF EligibleInv, Publishing
  <1> WholeInv /\ FineInv
    BY DEF EligibleInv
  <1>1. CASE Crash
    BY <1>1, RequestsAssumption DEF Crash, FineInv, Orderly, NoRequest
  <1>2. ASSUME NEW t \in Thread, Arrive(t) PROVE FineInv'
    BY <1>2, ArriveIsFine
  <1>3. ASSUME NEW t \in Thread, Step(t) PROVE FineInv'
    <2>1. ~ (\/ DeleteSubmodules(t) \/ DeleteAnalytics(t) \/ DeleteDetails(t)
             \/ CreateAuditEvent(t) \/ DeleteFiles(t) \/ DropRow(t) \/ Recalculate(t)
             \/ \E d \in Download : RecordDownload(t, d))
      BY DEF FineInv, Orderly, DeleteSubmodules, DeleteAnalytics, DeleteDetails, CreateAuditEvent,
             DeleteFiles, DropRow, Recalculate, RecordDownload
    <2> QED BY <1>3, <1>a, <2>1, IndexIsFine, PublishIsFine, EndIsFine
            DEF Step, ExtractionFails, LockTimeout
  <1>4. CASE UNCHANGED vars
    BY <1>4 DEF vars, FineInv, Orderly, View, HalfOf, RedoOf, Half
  <1> QED BY <1>1, <1>2, <1>3, <1>4 DEF Next

\* Publishing beside first uploads that publish at once never leaves the
\* latest version pointing at a beta or at what is not published
\* (ModuleVersion.publish): for any number of threads, in any interleaving.
THEOREM LatestStaysEligible == Spec => []LatestIsEligible
  <1>1. EligibleInv => LatestIsEligible
    BY DEF EligibleInv, Publishing, LatestIsEligible, FineInv, Fine, Points, Eligible
  <1> QED BY <1>1, EligibleInit, EligibleNext, PTL DEF Spec

-----------------------------------------------------------------------------
(* Where only transactions write and no version is indexed again, the      *)
(* committed pointer is right: what a transaction does to the rows and to  *)
(* the pointer is out of step only between its statements (Position).      *)

Transactional ==
    /\ config.kinds \subseteq {"index", "hookDelete", "download"}
    /\ config.mode = "prohibit"

Top(T, v) == \A y \in Eligible(T) : y.version <= v

Target(T, i) == \E x \in Eligible(T) : x.id = i /\ Top(T, x.version)

Right(T) == (Eligible(T) = {} /\ T.latest = NoRow) \/ Target(T, T.latest)

NoneOf(T, v) == \A x \in T.rows : x.version = v => ~x.published

\* The tables T, when request r runs the statement named by the label next.
Position(T, label, r) ==
    /\ Agrees(T, IF label \in {"archive", "details"} THEN {r.v} ELSE {})
    /\ label \in {"parts", "analytics", "erase", "audit", "files", "dropRow", "insert", "archive",
                  "details", "commit"}
          => Right(T)
    /\ label \in {"archive", "details", "submodules", "mark"} => RowsFor(T, r.v) # {}
    /\ label \in {"submodules", "mark"} =>
          /\ NoneOf(T, r.v)
          /\ Right(T) \/ (r.publish /\ r.v \notin Beta /\ Top(T, r.v))
    /\ label = "mark" => r.publish
    /\ label \in {"anyLatest", "isLatest"} =>
          Right(T) \/ (Top(T, r.v) /\ \E x \in Eligible(T) : x.version = r.v)
    /\ label = "pk" => Top(T, r.top) /\ \E x \in Eligible(T) : x.version = r.top
    /\ label = "point" => (Eligible(T) = {} /\ r.row = NoRow) \/ Target(T, r.row)

\* Which statements the requests of each kind run.
Route(kind) ==
    CASE kind = "none" -> {"idle"}
      [] kind = "download" -> {"record", "commit"}
      [] kind = "hookDelete" -> {"parts", "analytics", "erase", "audit", "files", "dropRow",
                                 "recalculate", "pk", "point", "commit"}
      [] OTHER -> {"insert", "archive", "details", "submodules", "mark", "anyLatest", "isLatest",
                   "pk", "point", "commit"}

\* What is published was before, if uploads do not publish.
Older(T, D) == \A x \in T.rows : x.published => \E y \in D.rows : y.version = x.version /\ y.published

OnRoute(t) ==
    /\ req[t].kind \in {"none", "index", "hookDelete", "download"}
    /\ pc[t] \in Route(req[t].kind)
    /\ req[t].then = "commit"
    /\ InTransaction(t) /\ pc[t] \notin {"parts", "analytics", "insert"} => holder = t
    /\ req[t].kind = "index" =>
          /\ req[t].publish = config.auto
          /\ ~config.auto => NoneOf(View(t), req[t].v)

Holds(t) == holder = t => Position(work, pc[t], req[t]) /\ (~config.auto => Older(work, db))

RightInv ==
    /\ Right(db) /\ Agrees(db, {})
    /\ \A t \in Thread : OnRoute(t) /\ Holds(t)

PointerInv == WholeInv /\ (Transactional => RightInv)

LEMMA HighestIsTop ==
    ASSUME NEW T \in Tables
    PROVE  /\ Eligible(T) # {} => /\ Top(T, HighestVersion(T))
                                  /\ \E x \in Eligible(T) : x.version = HighestVersion(T)
           /\ \A x \in Eligible(T) : Top(T, x.version) => x.version = HighestVersion(T)
  <1> DEFINE V == {r.version : r \in Eligible(T)}
  <1>1. V \subseteq 1..MaxVersion
    BY DEF Tables, Row, Eligible, Version
  <1>2. ASSUME Eligible(T) # {}
        PROVE  HighestVersion(T) \in V /\ \A j \in V : j <= HighestVersion(T)
    <2>1. \E i \in V : \A j \in V : j <= i
      <3> V # {}
        BY <1>2
      <3> HIDE DEF V
      <3>1. V \in SUBSET Nat /\ \A i \in V : i <= MaxVersion
        BY <1>1, RequestsAssumption
      <3> QED BY <3>1, HighestExists, RequestsAssumption
    <2> QED BY <1>2, <2>1 DEF HighestVersion
  <1>3. ASSUME NEW x \in Eligible(T), Top(T, x.version)
        PROVE  x.version = HighestVersion(T)
    <2>1. x.version \in V /\ \A j \in V : j <= x.version
      BY <1>3 DEF Top
    <2>2. \A j \in V : j \in Nat
      BY <1>1
    <2> HIDE DEF V
    <2> QED BY <1>2, <2>1, <2>2
  <1> QED BY <1>2, <1>3 DEF Top

LEMMA RightIsRight ==
    ASSUME db \in Tables, Right(db)
    PROVE  LatestIsRight
  BY HighestIsTop DEF Right, Target, LatestIsRight

\* The other threads keep what they hold and have read.
LEMMA OthersStayRight ==
    ASSUME NEW t \in Thread, Frame(t), UNCHANGED config, NEW u \in Thread \ {t}, OnRoute(u), Holds(u),
           holder = u => holder' = u /\ db' = db,
           ~config.auto => Older(db', db)
    PROVE  OnRoute(u)' /\ Holds(u)'
  <1>1. /\ pc'[u] = pc[u] /\ req'[u] = req[u]
        /\ holder' = u <=> holder = u
        /\ holder = u => work' = work /\ db' = db
    BY DEF Frame
  <1>2. ASSUME ~config.auto, NoneOf(View(u), req[u].v) PROVE NoneOf(View(u), req[u].v)'
    <2>1. CASE holder = u
      BY <1>1, <1>2, <2>1 DEF View, NoneOf
    <2>2. CASE holder # u
      BY <1>1, <1>2, <2>2 DEF View, NoneOf, Older
    <2> QED BY <2>1, <2>2
  <1>3. OnRoute(u)'
    BY <1>1, <1>2 DEF OnRoute, InTransaction
  <1>4. Holds(u)'
    BY <1>1 DEF Holds
  <1> QED BY <1>3, <1>4

LEMMA SameOlder == \A D : Older(D, D)
  BY DEF Older

\* A statement of a transaction that leaves the tables T.
LEMMA WriteIsRight ==
    ASSUME WholeInv, RightInv, UNCHANGED config, NEW t \in Thread, InTransaction(t), NEW T, Write(t, T),
           NEW label, NEW r, Moves(t, label, r), label \in Route(r.kind),
           r.kind = req[t].kind, r.publish = req[t].publish, r.then = "commit", r.v = req[t].v,
           Position(T, label, r),
           ~config.auto => /\ Older(T, View(t))
                           /\ r.kind = "index" => NoneOf(T, r.v)
    PROVE  RightInv'
  <1>1. /\ pc'[t] = label /\ req'[t] = r
        /\ \A u \in Thread \ {t} : pc'[u] = pc[u] /\ req'[u] = req[u]
    BY MovesFrame DEF WholeInv
  <1>2. db' = db /\ work' = T /\ holder' = t
    BY DEF Write
  <1>3. Frame(t) /\ \A u \in Thread \ {t} : holder # u
    BY <1>1, RequestsAssumption DEF Frame, Write
  <1>4. \A u \in Thread \ {t} : OnRoute(u)' /\ Holds(u)'
    BY <1>2, <1>3, OthersStayRight, SameOlder DEF RightInv
  <1>5. OnRoute(t)'
    BY <1>1, <1>2 DEF RightInv, OnRoute, View
  <1>6. ~config.auto => Older(T, db)
    BY DEF RightInv, Holds, View, Older
  <1>7. Holds(t)'
    BY <1>1, <1>2, <1>6 DEF Holds
  <1> QED BY <1>2, <1>4, <1>5, <1>7 DEF RightInv

\* A step of t that writes nothing.
LEMMA NoWriteIsRight ==
    ASSUME WholeInv, RightInv, UNCHANGED config, NEW t \in Thread, NoWrite,
           NEW label, NEW r, Moves(t, label, r), label \in Route(r.kind),
           holder = t \/ label = "analytics",
           r.kind = req[t].kind, r.publish = req[t].publish, r.then = "commit",
           r.v = req[t].v, Position(View(t), label, r)
    PROVE  RightInv'
  <1>1. /\ pc'[t] = label /\ req'[t] = r
        /\ \A u \in Thread \ {t} : pc'[u] = pc[u] /\ req'[u] = req[u]
    BY MovesFrame DEF WholeInv
  <1>2. UNCHANGED <<db, holder, work>> /\ Frame(t)
    BY <1>1 DEF Frame, NoWrite
  <1>3. \A u \in Thread \ {t} : OnRoute(u)' /\ Holds(u)'
    BY <1>2, OthersStayRight, SameOlder DEF RightInv
  <1>4. OnRoute(t)'
    BY <1>1, <1>2 DEF RightInv, OnRoute, View
  <1>5. Holds(t)'
    BY <1>1, <1>2 DEF RightInv, Holds, View
  <1> QED BY <1>2, <1>3, <1>4, <1>5 DEF RightInv

LEMMA EndIsRight ==
    ASSUME WholeInv, RightInv, UNCHANGED config, NEW t \in Thread, Abandon(t) \/ Finish(t)
    PROVE  RightInv'
  <1>1. Moves(t, "idle", NoRequest)
    BY DEF Abandon, Finish, Goto, Moves
  <1>2. /\ pc'[t] = "idle" /\ req'[t] = NoRequest
        /\ \A u \in Thread \ {t} : pc'[u] = pc[u] /\ req'[u] = req[u]
    BY <1>1, MovesFrame DEF WholeInv
  <1>3. Frame(t) /\ holder' # t /\ \A u \in Thread \ {t} : holder = u => holder' = u /\ db' = db
    BY <1>2, RequestsAssumption DEF Abandon, Finish, NoWrite, Frame
  <1>4. \/ db' = db
        \/ db' = work /\ holder = t /\ pc[t] = "commit"
    BY DEF Abandon, Finish, NoWrite
  <1>5. Right(db') /\ Agrees(db', {}) /\ (~config.auto => Older(db', db))
    <2>1. CASE db' = db
      BY <2>1, SameOlder DEF RightInv
    <2>2. CASE db' = work /\ holder = t /\ pc[t] = "commit"
      BY <2>2 DEF RightInv, Holds, Position
    <2> QED BY <1>4, <2>1, <2>2
  <1>6. \A u \in Thread \ {t} : OnRoute(u)' /\ Holds(u)'
    BY <1>3, <1>5, OthersStayRight DEF RightInv
  <1>7. OnRoute(t)' /\ Holds(t)'
    BY <1>2, <1>3 DEF OnRoute, Route, NoRequest, InTransaction, Holds
  <1>8. Right(db)' /\ Agrees(db, {})'
    BY <1>5 DEF Right, Target, Top, Eligible, Agrees
  <1> QED BY <1>6, <1>7, <1>8 DEF RightInv

\* What a transaction sees is where its next statement wants it.
LEMMA ViewIsRight ==
    ASSUME WholeInv, RightInv, NEW t \in Thread, InTransaction(t)
    PROVE  Position(View(t), pc[t], req[t])
  <1>1. CASE holder = t
    BY <1>1 DEF RightInv, Holds, View
  <1>2. CASE holder # t
    <2>1. pc[t] \in {"parts", "analytics", "insert"} /\ View(t) = db
      BY <1>2 DEF RightInv, OnRoute, View
    <2> QED BY <2>1 DEF RightInv, Position
  <1> QED BY <1>1, <1>2

LEMMA DownloadIsRight ==
    ASSUME WholeInv, RightInv, UNCHANGED config, NEW t \in Thread, NEW d \in Download,
           RecordDownload(t, d)
    PROVE  RightInv'
  <1>1. Moves(t, "commit", req[t]) /\ req[t].kind = "download" /\ ~InTransaction(t)
    BY SameRequest DEF RecordDownload, RightInv, OnRoute, Route, InTransaction, WholeInv
  <1>2. /\ pc'[t] = "commit" /\ req'[t] = req[t]
        /\ \A u \in Thread \ {t} : pc'[u] = pc[u] /\ req'[u] = req[u]
    BY <1>1, MovesFrame DEF WholeInv
  <1>3. holder = NoThread /\ UNCHANGED <<holder, work>>
    BY <1>1 DEF RecordDownload, Write, WholeInv, Serves
  <1>4. db' = [db EXCEPT !.parentOf[d] = req[t].row]
    BY <1>1, <1>3, RequestsAssumption DEF RecordDownload, Write, View
  <1>5. db'.rows = db.rows /\ db'.latest = db.latest
    BY <1>4 DEF WholeInv, TypeOK, Tables
  <1>6. Right(db)' /\ Agrees(db, {})' /\ Older(db', db)
    BY <1>5 DEF RightInv, Right, Target, Top, Eligible, Agrees, Older
  <1>7. Frame(t) /\ \A u \in Thread \ {t} : holder # u
    BY <1>2, <1>3, RequestsAssumption DEF Frame
  <1>8. \A u \in Thread \ {t} : OnRoute(u)' /\ Holds(u)'
    BY <1>6, <1>7, OthersStayRight DEF RightInv
  <1>9. OnRoute(t)' /\ Holds(t)'
    BY <1>1, <1>2, <1>3, RequestsAssumption DEF RightInv, OnRoute, Route, InTransaction, Holds
  <1> QED BY <1>6, <1>8, <1>9 DEF RightInv

LEMMA ArriveIsRight ==
    ASSUME WholeInv, Transactional, RightInv, NEW t \in Thread, Arrive(t)
    PROVE  RightInv'
  <1>1. UNCHANGED config
    BY DEF Arrive
  <1>2. ASSUME NEW r, NEW label \in {"insert", "parts", "record"}, Start(t, r, label),
               r.kind \in {"index", "hookDelete", "download"}, label \in Route(r.kind),
               r.then = "commit",
               r.kind = "index" => r.publish = config.auto /\ RowsFor(db, r.v) = {}
        PROVE  RightInv'
    <2>1. Moves(t, label, r) /\ holder # t /\ NoWrite
      BY <1>2 DEF Start, Moves, Goto, WholeInv, Serves
    <2>2. /\ pc'[t] = label /\ req'[t] = r
          /\ \A u \in Thread \ {t} : pc'[u] = pc[u] /\ req'[u] = req[u]
      BY <2>1, MovesFrame DEF WholeInv
    <2>3. UNCHANGED <<db, holder, work>> /\ Frame(t)
      BY <1>1, <2>1, <2>2 DEF Frame, NoWrite
    <2>4. \A u \in Thread \ {t} : OnRoute(u)' /\ Holds(u)'
      BY <1>1, <2>3, OthersStayRight, SameOlder DEF RightInv
    <2>5. r.kind = "index" => NoneOf(db, r.v)
      BY <1>2 DEF NoneOf, RowsFor
    <2>6. View(t)' = db
      BY <2>1, <2>3 DEF View
    <2>7. label = "record" => r.kind = "download"
      BY <1>2 DEF Route
    <2>8. OnRoute(t)' /\ Holds(t)'
      BY <1>1, <1>2, <2>1, <2>2, <2>3, <2>5, <2>6, <2>7 DEF OnRoute, InTransaction, Holds
    <2> QED BY <2>3, <2>4, <2>8 DEF RightInv
  <1>3. ASSUME NEW v \in Version, NEW c \in Content, StartIndex(t, v, c) PROVE RightInv'
    <2> DEFINE q == [[NoRequest EXCEPT !.kind = "index", !.v = v, !.content = c]
                        EXCEPT !.publish = config.auto]
    <2>1. Start(t, q, "insert") /\ RowsFor(db, v) = {}
      BY <1>3 DEF StartIndex, Transactional
    <2>2. q.kind = "index" /\ q.v = v /\ q.then = "commit" /\ q.publish = config.auto
      BY DEF NoRequest
    <2> HIDE DEF q
    <2>3. "insert" \in Route(q.kind)
      BY <2>2 DEF Route
    <2> QED BY <1>2, <2>1, <2>2, <2>3
  <1>4. ASSUME NEW v \in Version PROVE ~StartPublish(t, v) /\ ~StartDelete(t, v, "delete")
    BY DEF StartPublish, StartDelete, Start, NoRequest, Transactional
  <1>5. ASSUME NEW v \in Version, StartDelete(t, v, "hookDelete") PROVE RightInv'
    <2> DEFINE q(x) == [NoRequest EXCEPT !.kind = "hookDelete", !.v = v, !.row = x.id,
                                         !.had = x.content]
    <2>1. PICK x \in RowsFor(db, v) : Start(t, q(x), "parts")
      BY <1>5 DEF StartDelete
    <2>2. q(x).kind = "hookDelete" /\ q(x).then = "commit"
      BY DEF NoRequest
    <2> HIDE DEF q
    <2>3. "parts" \in Route(q(x).kind)
      BY <2>2 DEF Route
    <2> QED BY <1>2, <2>1, <2>2, <2>3
  <1>6. ASSUME NEW v \in Version, StartDownload(t, v) PROVE RightInv'
    <2>1. PICK x \in RowsFor(db, v) :
            Start(t, [NoRequest EXCEPT !.kind = "download", !.v = v, !.row = x.id], "record")
      BY <1>6 DEF StartDownload
    <2> DEFINE q == [NoRequest EXCEPT !.kind = "download", !.v = v, !.row = x.id]
    <2>2. q.kind = "download" /\ q.then = "commit" /\ Start(t, q, "record")
      BY <2>1 DEF NoRequest
    <2> HIDE DEF q
    <2>3. "record" \in Route(q.kind)
      BY <2>2 DEF Route
    <2> QED BY <1>2, <2>2, <2>3
  <1> QED BY <1>3, <1>4, <1>5, <1>6 DEF Arrive

\* Rows that differ in what is extracted only.
SameShape(x, y) == x.id = y.id /\ x.version = y.version /\ x.published = y.published

LEMMA ContentIsApart ==
    ASSUME NEW V, NEW T, T.latest = V.latest,
           \A y \in T.rows : \E x \in V.rows : SameShape(x, y),
           \A x \in V.rows : \E y \in T.rows : SameShape(x, y)
    PROVE  /\ Agrees(V, {}) => Agrees(T, {})
           /\ Right(V) => Right(T)
           /\ Older(T, V)
  <1>1. \A y \in Eligible(T) : \E x \in Eligible(V) : SameShape(x, y)
    BY DEF Eligible, SameShape
  <1>2. \A x \in Eligible(V) : \E y \in Eligible(T) : SameShape(x, y)
    BY DEF Eligible, SameShape
  <1>3. ASSUME NEW x, NEW y, SameShape(x, y), Top(V, x.version) PROVE Top(T, y.version)
    BY <1>1, <1>3 DEF Top, SameShape
  <1>4. Right(V) => Right(T)
    BY <1>1, <1>2, <1>3 DEF Right, Target, SameShape
  <1>5. Agrees(V, {}) => Agrees(T, {})
    BY DEF Agrees, SameShape
  <1>6. Older(T, V)
    BY DEF Older, SameShape
  <1> QED BY <1>4, <1>5, <1>6

LEMMA DeleteIsRight ==
    ASSUME WholeInv, RightInv, UNCHANGED config, NEW t \in Thread,
           \/ DeleteSubmodules(t) \/ DeleteAnalytics(t) \/ DeleteDetails(t)
           \/ CreateAuditEvent(t) \/ DeleteFiles(t) \/ DropRow(t) \/ Recalculate(t)
    PROVE  RightInv'
  <1> DEFINE V == View(t)
  <1>1. V \in Tables /\ req[t] \in Request /\ req \in [Thread -> Request]
    BY ViewType DEF WholeInv, TypeOK, StoreType
  <1>2. /\ req[t].kind = "hookDelete" /\ req[t].then = "commit" /\ InTransaction(t)
        /\ pc[t] \notin {"parts", "analytics"} => holder = t
    BY DEF RightInv, OnRoute, Route, InTransaction, DeleteSubmodules, DeleteAnalytics,
           DeleteDetails, CreateAuditEvent, DeleteFiles, DropRow, Recalculate
  <1>3. Position(V, pc[t], req[t])
    BY <1>2, ViewIsRight
  <1>4. \A label : Goto(t, label) /\ UNCHANGED req => Moves(t, label, req[t])
    BY SameRequest DEF WholeInv
  <1>5. {"analytics", "erase", "audit", "files", "dropRow", "recalculate", "pk", "point"}
          \subseteq Route("hookDelete")
    BY DEF Route
  <1>a. \A x \in Row : SameShape(x, [x EXCEPT !.content = Nothing]) /\ SameShape(x, x)
    BY DEF Row, SameShape
  <1>b. V.rows \in SUBSET Row
    BY <1>1 DEF Tables
  <1>11. CASE DeleteSubmodules(t)
    <2> DEFINE g(x) == IF x.id = req[t].row THEN [x EXCEPT !.content = Nothing] ELSE x
               R == {g(x) : x \in V.rows}
               T == [V EXCEPT !.rows = R]
    <2>1. (NoWrite \/ Write(t, T)) /\ Moves(t, "analytics", req[t]) /\ pc[t] = "parts"
      BY <1>1, <1>2, <1>4, <1>11 DEF DeleteSubmodules, Tables
    <2>2. T.rows = R /\ T.latest = V.latest
      BY <1>1 DEF Tables
    <2>3. \A x \in V.rows : SameShape(x, g(x))
      BY <1>a, <1>b
    <2>4. CASE Write(t, T)
      <3> HIDE DEF T, g
      <3>1. /\ Agrees(V, {}) => Agrees(T, {})
            /\ Right(V) => Right(T)
            /\ Older(T, V)
        BY <2>2, <2>3, ContentIsApart
      <3>2. Position(T, "analytics", req[t])
        BY <1>3, <2>1, <3>1 DEF Position
      <3> QED BY <1>2, <1>5, <2>1, <2>4, <3>1, <3>2, WriteIsRight
    <2>5. CASE NoWrite
      <3>1. Position(V, "analytics", req[t])
        BY <1>3, <2>1 DEF Position
      <3> QED BY <1>2, <1>5, <2>1, <2>5, <3>1, NoWriteIsRight
    <2> QED BY <2>1, <2>4, <2>5
  <1>6. CASE DeleteAnalytics(t)
    <2> DEFINE f == [d \in Download |-> IF V.parentOf[d] = req[t].row THEN NoRow ELSE V.parentOf[d]]
               T == [V EXCEPT !.parentOf = f]
    <2>1. Write(t, T) /\ Moves(t, "erase", req[t])
      BY <1>6, <1>1, <1>4 DEF DeleteAnalytics, Tables
    <2>2. T.rows = V.rows /\ T.latest = V.latest
      <3> HIDE DEF f
      <3> QED BY <1>1 DEF Tables
    <2>3. pc[t] = "analytics"
      BY <1>6 DEF DeleteAnalytics
    <2> HIDE DEF T
    <2>4. Position(T, "erase", req[t]) /\ Older(T, V)
      BY <1>3, <2>2, <2>3 DEF Position, Agrees, Right, Target, Top, Eligible, Older
    <2> QED BY <1>2, <1>5, <2>1, <2>4, WriteIsRight
  <1>12. CASE DeleteDetails(t)
    <2> DEFINE g(x) == IF x.version = req[t].v /\ x.content = req[t].had
                       THEN [x EXCEPT !.content = Nothing] ELSE x
               R == {g(x) : x \in V.rows}
               T == [V EXCEPT !.rows = R]
               r == [req[t] EXCEPT !.had = Nothing]
    <2>1. /\ NoWrite \/ Write(t, T)
          /\ Goto(t, "audit") /\ req' = [req EXCEPT ![t] = r] /\ pc[t] = "erase"
      BY <1>1, <1>12 DEF DeleteDetails, Tables
    <2>2. T.rows = R /\ T.latest = V.latest
      BY <1>1 DEF Tables
    <2>3. \A x \in V.rows : SameShape(x, g(x))
      BY <1>a, <1>b
    <2>4. /\ r.kind = req[t].kind /\ r.publish = req[t].publish /\ r.v = req[t].v
          /\ r.then = req[t].then
      BY <1>1 DEF Request
    <2> HIDE DEF r
    <2>5. Moves(t, "audit", r)
      BY <2>1 DEF Moves, Goto
    <2>6. CASE Write(t, T)
      <3> HIDE DEF T, g
      <3>1. /\ Agrees(V, {}) => Agrees(T, {})
            /\ Right(V) => Right(T)
            /\ Older(T, V)
        BY <2>2, <2>3, ContentIsApart
      <3>2. Position(T, "audit", r)
        BY <1>3, <2>1, <3>1 DEF Position
      <3> QED BY <1>2, <1>5, <2>4, <2>5, <2>6, <3>1, <3>2, WriteIsRight
    <2>7. CASE NoWrite
      <3>1. Position(V, "audit", r)
        BY <1>3, <2>1 DEF Position
      <3> QED BY <1>2, <1>5, <2>1, <2>4, <2>5, <2>7, <3>1, NoWriteIsRight
    <2> QED BY <2>1, <2>6, <2>7
  <1>7. CASE CreateAuditEvent(t)
    <2>1. Write(t, V) /\ Moves(t, "files", req[t]) /\ pc[t] = "audit"
      BY <1>7, <1>4 DEF CreateAuditEvent
    <2>2. Position(V, "files", req[t])
      BY <1>3, <2>1 DEF Position
    <2> QED BY <1>2, <1>5, <2>1, <2>2, SameOlder, WriteIsRight
  <1>8. CASE DeleteFiles(t)
    <2>1. NoWrite /\ Moves(t, "dropRow", req[t]) /\ pc[t] = "files"
      BY <1>8, <1>4 DEF DeleteFiles
    <2>2. V = work /\ holder = t
      BY <1>2, <2>1 DEF View
    <2>3. Position(V, "dropRow", req[t])
      BY <1>3, <2>1 DEF Position
    <2> QED BY <1>2, <1>5, <2>1, <2>2, <2>3, NoWriteIsRight
  <1>9. CASE DropRow(t)
    <2> DEFINE T == [V EXCEPT !.rows = {x \in V.rows : x.id # req[t].row}]
    <2>1. Write(t, T) /\ Moves(t, "recalculate", req[t]) /\ pc[t] = "dropRow"
      BY <1>9, <1>1, <1>4 DEF DropRow, Tables
    <2>2. T.rows \subseteq V.rows
      BY <1>1 DEF Tables
    <2> HIDE DEF T
    <2>3. Position(T, "recalculate", req[t]) /\ Older(T, V)
      BY <1>3, <2>1, <2>2 DEF Position, Agrees, Older
    <2> QED BY <1>2, <1>5, <2>1, <2>3, WriteIsRight
  <1>10. CASE Recalculate(t)
    <2> DEFINE r == [req[t] EXCEPT !.top = HighestVersion(V), !.row = NoRow]
    <2>1. req' = [req EXCEPT ![t] = r]
      BY <1>1, <1>10 DEF Recalculate
    <2>2. /\ r.kind = req[t].kind /\ r.v = req[t].v /\ r.then = req[t].then
          /\ r.publish = req[t].publish /\ r.top = HighestVersion(V) /\ r.row = NoRow
      BY <1>1 DEF Request
    <2> HIDE DEF r
    <2>3. /\ NoWrite /\ Moves(t, IF HighestVersion(V) = 0 THEN "point" ELSE "pk", r)
          /\ pc[t] = "recalculate"
      BY <1>10, <2>1 DEF Recalculate, Moves, Goto
    <2>4. V = work /\ holder = t
      BY <1>2, <2>3 DEF View
    <2>5. CASE HighestVersion(V) = 0
      <3>1. Eligible(V) = {}
        BY <1>1, <2>5, HighestIsEligible
      <3>2. Position(V, "point", r)
        BY <1>3, <2>2, <2>3, <3>1 DEF Position
      <3> QED BY <1>2, <1>5, <2>2, <2>3, <2>4, <2>5, <3>2, NoWriteIsRight
    <2>6. CASE HighestVersion(V) # 0
      <3>1. Top(V, r.top) /\ \E x \in Eligible(V) : x.version = r.top
        BY <1>1, <2>2, <2>6, HighestIsEligible, HighestIsTop
      <3>2. Position(V, "pk", r)
        BY <1>3, <2>2, <2>3, <3>1 DEF Position
      <3> QED BY <1>2, <1>5, <2>2, <2>3, <2>4, <2>6, <3>2, NoWriteIsRight
    <2> QED BY <2>5, <2>6
  <1> QED BY <1>6, <1>7, <1>8, <1>9, <1>10, <1>11, <1>12

LEMMA IndexIsRight ==
    ASSUME WholeInv, RightInv, UNCHANGED config, NEW t \in Thread,
           InsertRow(t) \/ GenerateArchive(t) \/ InsertDetails(t) \/ ScanSubmodules(t)
    PROVE  RightInv'
  <1> DEFINE V == View(t)
  <1>1. V \in Tables /\ req[t] \in Request /\ req \in [Thread -> Request] /\ V.rows \in SUBSET Row
    BY ViewType DEF WholeInv, TypeOK, StoreType, Tables
  <1>2. /\ req[t].kind = "index" /\ req[t].then = "commit" /\ InTransaction(t)
        /\ pc[t] # "insert" => holder = t
        /\ req[t].publish = config.auto
        /\ ~config.auto => NoneOf(V, req[t].v)
    BY DEF RightInv, OnRoute, WholeInv, Serves, Legal, InTransaction,
           InsertRow, GenerateArchive, InsertDetails, ScanSubmodules
  <1>3. Position(V, pc[t], req[t])
    BY <1>2, ViewIsRight
  <1>4. \A label : Goto(t, label) /\ UNCHANGED req => Moves(t, label, req[t])
    BY SameRequest DEF WholeInv
  <1>5. {"archive", "details", "submodules", "mark", "commit"} \subseteq Route("index")
    BY DEF Route
  <1>6. CASE InsertRow(t)
    <2> DEFINE r == [req[t] EXCEPT !.then = "commit"]
    <2>1. req' = [req EXCEPT ![t] = r] /\ Goto(t, "archive") /\ pc[t] = "insert"
      BY <1>1, <1>6 DEF InsertRow
    <2>2. /\ r.kind = req[t].kind /\ r.v = req[t].v /\ r.publish = req[t].publish
          /\ r.then = "commit"
      BY <1>1 DEF Request
    <2> HIDE DEF r
    <2>3. Moves(t, "archive", r)
      BY <2>1 DEF Moves, Goto
    <2> DEFINE row(new) == [id |-> new, version |-> req[t].v, published |-> FALSE, content |-> Nothing]
    <2>4. PICK new \in RowId : \E f :
            Write(t, [[V EXCEPT !.rows = @ \cup {row(new)}] EXCEPT !.parentOf = f])
      BY <1>6 DEF InsertRow
    <2>5. PICK f : Write(t, [[V EXCEPT !.rows = @ \cup {row(new)}] EXCEPT !.parentOf = f])
      BY <2>4
    <2> DEFINE T == [[V EXCEPT !.rows = @ \cup {row(new)}] EXCEPT !.parentOf = f]
    <2>6. /\ T.rows = V.rows \cup {row(new)} /\ T.latest = V.latest
          /\ row(new).version = req[t].v /\ ~row(new).published
      BY <1>1 DEF Tables
    <2>7. Write(t, T)
      BY <2>5
    <2> HIDE DEF T, row
    <2>8. Eligible(T) = Eligible(V)
      BY <2>6 DEF Eligible
    <2>9. Right(T) /\ RowsFor(T, r.v) # {} /\ Agrees(T, {r.v})
      BY <1>3, <2>1, <2>2, <2>6, <2>8 DEF Position, Right, Target, Top, RowsFor, Agrees
    <2>10. Position(T, "archive", r)
      BY <2>9 DEF Position
    <2>11. Older(T, V) /\ (NoneOf(V, r.v) => NoneOf(T, r.v))
      BY <2>6 DEF Older, NoneOf
    <2> QED BY <1>2, <1>5, <2>2, <2>3, <2>7, <2>10, <2>11, WriteIsRight
  <1>7. CASE GenerateArchive(t)
    <2>1. NoWrite /\ Moves(t, "details", req[t]) /\ pc[t] = "archive"
      BY <1>4, <1>7 DEF GenerateArchive
    <2>2. V = work /\ holder = t
      BY <1>2, <2>1 DEF View
    <2>3. Position(V, "details", req[t])
      BY <1>3, <2>1 DEF Position
    <2> QED BY <1>2, <1>5, <2>1, <2>2, <2>3, NoWriteIsRight
  <1>8. CASE InsertDetails(t)
    <2> DEFINE g(x) == IF x.version = req[t].v
                       THEN [x EXCEPT !.published = FALSE, !.content = req[t].content]
                       ELSE x
               R == {g(x) : x \in V.rows}
               T == [V EXCEPT !.rows = R]
    <2>1. /\ T.rows = R /\ T.latest = V.latest /\ Write(t, T) /\ Moves(t, "submodules", req[t])
          /\ pc[t] = "details"
      BY <1>1, <1>4, <1>8 DEF InsertDetails, Tables
    <2>2. \A x \in Row : /\ g(x).id = x.id /\ g(x).version = x.version
                         /\ g(x).published <=> (x.published /\ x.version # req[t].v)
                         /\ g(x).published = (x.published /\ x.version # req[t].v)
      BY DEF Row
    <2>3. \A y \in R : \E x \in V.rows : y = g(x) /\ x \in Row
      BY <1>1
    <2>4. \A x \in V.rows : g(x) \in R /\ x \in Row
      BY <1>1
    <2> HIDE DEF T, R, g
    <2>5. Agrees(T, {}) /\ NoneOf(T, req[t].v) /\ Older(T, V)
      BY <1>3, <2>1, <2>2, <2>3 DEF Position, Agrees, NoneOf, Older
    <2>6. RowsFor(T, req[t].v) # {}
      <3>1. PICK x \in V.rows : x.version = req[t].v
        BY <1>3, <2>1 DEF Position, RowsFor
      <3> QED BY <2>1, <2>2, <2>4, <3>1 DEF RowsFor
    <2>7. \A y \in Eligible(T) : \E x \in Eligible(V) : x.version = y.version
      BY <2>1, <2>2, <2>3 DEF Eligible
    <2>8. \A v : Top(V, v) => Top(T, v)
      BY <2>7 DEF Top
    <2>9. ASSUME NEW x \in Eligible(V), x.version # req[t].v
          PROVE  g(x) \in Eligible(T) /\ g(x).id = x.id /\ g(x).version = x.version
      BY <2>1, <2>2, <2>4, <2>9 DEF Eligible
    <2>10. Right(T) \/ (req[t].publish /\ req[t].v \notin Beta /\ Top(T, req[t].v))
      <3>1. Right(V)
        BY <1>3, <2>1 DEF Position
      <3>2. CASE Eligible(V) = {} /\ V.latest = NoRow
        BY <2>1, <2>7, <3>2 DEF Right
      <3>3. ASSUME NEW x \in Eligible(V), x.id = V.latest, Top(V, x.version)
            PROVE  Right(T) \/ (req[t].publish /\ req[t].v \notin Beta /\ Top(T, req[t].v))
        <4>1. CASE x.version = req[t].v
          <5>1. x \in V.rows /\ x.published /\ x.version \notin Beta
            BY <3>3 DEF Eligible
          <5>2. req[t].publish
            BY <1>2, <4>1, <5>1 DEF NoneOf
          <5> QED BY <2>8, <3>3, <4>1, <5>1, <5>2
        <4>2. CASE x.version # req[t].v
          BY <2>1, <2>8, <2>9, <3>3, <4>2 DEF Right, Target
        <4> QED BY <4>1, <4>2
      <3> QED BY <3>1, <3>2, <3>3 DEF Right, Target
    <2>11. Position(T, "submodules", req[t])
      BY <2>5, <2>6, <2>10 DEF Position
    <2> QED BY <1>2, <1>5, <2>1, <2>5, <2>11, WriteIsRight
  <1>9. CASE ScanSubmodules(t)
    <2>1. NoWrite /\ Moves(t, IF req[t].publish THEN "mark" ELSE "commit", req[t]) /\ pc[t] = "submodules"
      BY <1>4, <1>9 DEF ScanSubmodules
    <2>2. V = work /\ holder = t
      BY <1>2, <2>1 DEF View
    <2>3. CASE req[t].publish
      <3>1. Position(V, "mark", req[t])
        BY <1>3, <2>1, <2>3 DEF Position
      <3> QED BY <1>2, <1>5, <2>1, <2>2, <2>3, <3>1, NoWriteIsRight
    <2>4. CASE ~req[t].publish
      <3>1. Position(V, "commit", req[t])
        BY <1>3, <2>1, <2>4 DEF Position
      <3> QED BY <1>2, <1>5, <2>1, <2>2, <2>4, <3>1, NoWriteIsRight
    <2> QED BY <2>3, <2>4
  <1> QED BY <1>6, <1>7, <1>8, <1>9


LEMMA PublishIsRight ==
    ASSUME WholeInv, RightInv, UNCHANGED config, NEW t \in Thread,
           MarkPublished(t) \/ AnyLatest(t) \/ IsLatest(t) \/ ReadPk(t) \/ PointLatest(t)
    PROVE  RightInv'
  <1> DEFINE V == View(t)
  <1>1. V \in Tables /\ req[t] \in Request /\ req \in [Thread -> Request] /\ V.rows \in SUBSET Row
    BY ViewType DEF WholeInv, TypeOK, StoreType, Tables
  <1>2. /\ req[t].then = "commit" /\ InTransaction(t) /\ holder = t /\ V = work
        /\ req[t].kind \in {"index", "hookDelete"}
        /\ pc[t] \in {"mark", "anyLatest", "isLatest"} => req[t].kind = "index"
        /\ req[t].kind = "index" => req[t].publish = config.auto
        /\ req[t].kind = "index" /\ ~config.auto => NoneOf(V, req[t].v)
    BY DEF RightInv, OnRoute, Route, InTransaction, View,
           MarkPublished, AnyLatest, IsLatest, ReadPk, PointLatest
  <1>3. Position(V, pc[t], req[t])
    BY <1>2, ViewIsRight
  <1>4. \A label : Goto(t, label) /\ UNCHANGED req => Moves(t, label, req[t])
    BY SameRequest DEF WholeInv
  <1>5. /\ {"anyLatest", "isLatest", "pk", "point", "commit"} \subseteq Route("index")
        /\ {"pk", "point", "commit"} \subseteq Route("hookDelete")
    BY DEF Route
  <1>6. CASE MarkPublished(t)
    <2> DEFINE g(x) == IF x.version = req[t].v THEN [x EXCEPT !.published = TRUE] ELSE x
               R == {g(x) : x \in V.rows}
               T == [V EXCEPT !.rows = R]
    <2>1. /\ T.rows = R /\ T.latest = V.latest /\ Write(t, T) /\ Moves(t, "anyLatest", req[t])
          /\ pc[t] = "mark"
      BY <1>1, <1>4, <1>6 DEF MarkPublished, Tables
    <2>2. \A x \in Row : /\ g(x).id = x.id /\ g(x).version = x.version
                         /\ g(x).published <=> (x.published \/ x.version = req[t].v)
                         /\ g(x).published = (x.published \/ x.version = req[t].v)
      BY DEF Row
    <2>3. \A y \in R : \E x \in V.rows : y = g(x) /\ x \in Row
      BY <1>1
    <2>4. \A x \in V.rows : g(x) \in R /\ x \in Row
      BY <1>1
    <2> HIDE DEF T, R, g
    <2>5. Agrees(T, {})
      BY <1>3, <2>1, <2>2, <2>3 DEF Position, Agrees
    <2>6. \A x \in V.rows : x.version \in Nat
      BY <1>1, RequestsAssumption DEF Row, Version
    <2>7. \A y \in Eligible(T) : \/ y.version = req[t].v
                                 \/ \E x \in Eligible(V) : x.version = y.version
      BY <2>1, <2>2, <2>3 DEF Eligible
    <2>8. \A x \in Eligible(V) : g(x) \in Eligible(T) /\ g(x).id = x.id /\ g(x).version = x.version
      BY <2>1, <2>2, <2>4 DEF Eligible
    <2>9. Right(T) \/ (Top(T, req[t].v) /\ \E x \in Eligible(T) : x.version = req[t].v)
      <3>1. CASE req[t].v \in Beta
        <4>1. Right(V)
          BY <1>3, <2>1, <3>1 DEF Position
        <4>2. \A y \in Eligible(T) : \E x \in Eligible(V) : x.version = y.version
          BY <2>7, <3>1 DEF Eligible
        <4>3. CASE Eligible(V) = {} /\ V.latest = NoRow
          BY <2>1, <4>2, <4>3 DEF Right
        <4>4. CASE Target(V, V.latest)
          <5>1. PICK x \in Eligible(V) : x.id = V.latest /\ Top(V, x.version)
            BY <4>4 DEF Target
          <5>2. Top(T, x.version)
            BY <4>2, <5>1 DEF Top
          <5> QED BY <2>1, <2>8, <5>1, <5>2 DEF Right, Target
        <4> QED BY <4>1, <4>3, <4>4 DEF Right
      <3>2. CASE req[t].v \notin Beta
        <4>1. PICK x \in V.rows : x.version = req[t].v
          BY <1>3, <2>1 DEF Position, RowsFor
        <4>2. g(x) \in Eligible(T) /\ g(x).version = req[t].v
          BY <2>1, <2>2, <2>4, <3>2, <4>1 DEF Eligible
        <4>3. CASE Top(V, req[t].v)
          <5>1. Top(T, req[t].v)
            BY <1>1, <2>7, <4>3, RequestsAssumption DEF Top, Request, Version
          <5> QED BY <4>2, <5>1
        <4>4. CASE ~Top(V, req[t].v)
          <5>1. PICK y \in Eligible(V) : ~(y.version <= req[t].v)
            BY <4>4 DEF Top
          <5>2. PICK z \in Eligible(V) : z.id = V.latest /\ Top(V, z.version)
            BY <1>3, <2>1, <4>4, <5>1 DEF Position, Right, Target
          <5>3. y.version <= z.version /\ y.version \in Nat /\ z.version \in Nat /\ req[t].v \in Nat
            BY <2>6, <4>1, <5>1, <5>2 DEF Top, Eligible
          <5>4. Top(T, z.version)
            BY <2>7, <5>1, <5>2, <5>3 DEF Top
          <5> QED BY <2>1, <2>8, <5>2, <5>4 DEF Right, Target
        <4> QED BY <4>3, <4>4
      <3> QED BY <3>1, <3>2
    <2>10. Position(T, "anyLatest", req[t])
      BY <2>5, <2>9 DEF Position
    <2>11. config.auto
      BY <1>2, <1>3, <2>1 DEF Position
    <2> QED BY <1>2, <1>5, <2>1, <2>10, <2>11, WriteIsRight
  <1>7. CASE AnyLatest(t)
    <2>1. /\ NoWrite /\ pc[t] = "anyLatest"
          /\ Moves(t, IF HighestVersion(V) = 0 THEN "commit" ELSE "isLatest", req[t])
      BY <1>4, <1>7 DEF AnyLatest
    <2>2. CASE HighestVersion(V) = 0
      <3>1. Eligible(V) = {}
        BY <1>1, <2>2, HighestIsEligible
      <3>2. Position(V, "commit", req[t])
        BY <1>3, <2>1, <3>1 DEF Position
      <3> QED BY <1>2, <1>5, <2>1, <2>2, <3>2, NoWriteIsRight
    <2>3. CASE HighestVersion(V) # 0
      <3>1. Position(V, "isLatest", req[t])
        BY <1>3, <2>1 DEF Position
      <3> QED BY <1>2, <1>5, <2>1, <2>3, <3>1, NoWriteIsRight
    <2> QED BY <2>2, <2>3
  <1>8. CASE IsLatest(t) /\ ~Abandon(t)
    <2> DEFINE r == [req[t] EXCEPT !.top = HighestVersion(V)]
    <2>1. req' = [req EXCEPT ![t] = r]
      BY <1>1, <1>8 DEF IsLatest
    <2>2. /\ r.kind = req[t].kind /\ r.publish = req[t].publish /\ r.v = req[t].v
          /\ r.then = req[t].then /\ r.top = HighestVersion(V)
      BY <1>1 DEF Request
    <2> HIDE DEF r
    <2>3. /\ NoWrite /\ Moves(t, IF HighestVersion(V) = req[t].v THEN "pk" ELSE "commit", r)
          /\ pc[t] = "isLatest" /\ HighestVersion(V) # 0
      BY <1>8, <2>1 DEF IsLatest, Moves, Goto
    <2>4. Eligible(V) # {} /\ Top(V, r.top) /\ \E x \in Eligible(V) : x.version = r.top
      BY <1>1, <2>2, <2>3, HighestIsEligible, HighestIsTop
    <2>5. CASE HighestVersion(V) = req[t].v
      <3>1. Position(V, "pk", r)
        BY <1>3, <2>2, <2>3, <2>4 DEF Position
      <3> QED BY <1>2, <1>5, <2>2, <2>3, <2>5, <3>1, NoWriteIsRight
    <2>6. CASE HighestVersion(V) # req[t].v
      <3>1. Right(V)
        BY <1>1, <1>3, <2>3, <2>6, HighestIsTop DEF Position
      <3>2. Position(V, "commit", r)
        BY <1>3, <2>2, <2>3, <3>1 DEF Position
      <3> QED BY <1>2, <1>5, <2>2, <2>3, <2>6, <3>2, NoWriteIsRight
    <2> QED BY <2>5, <2>6
  <1>9. CASE ReadPk(t) /\ ~Abandon(t)
    <2>1. PICK x \in RowsFor(V, req[t].top) :
            req' = [req EXCEPT ![t].row = x.id] /\ Goto(t, "point") /\ NoWrite
      BY <1>9 DEF ReadPk
    <2> DEFINE r == [req[t] EXCEPT !.row = x.id]
    <2>2. req' = [req EXCEPT ![t] = r]
      BY <1>1, <2>1
    <2>3. /\ r.kind = req[t].kind /\ r.publish = req[t].publish /\ r.v = req[t].v
          /\ r.then = req[t].then /\ r.row = x.id
      BY <1>1 DEF Request
    <2> HIDE DEF r
    <2>4. Moves(t, "point", r) /\ pc[t] = "pk"
      BY <1>9, <2>1, <2>2 DEF Moves, Goto, ReadPk
    <2>5. Agrees(V, {}) /\ Top(V, req[t].top) /\ \E y \in Eligible(V) : y.version = req[t].top
      BY <1>3, <2>4 DEF Position
    <2>6. x \in Eligible(V) /\ Top(V, x.version)
      BY <2>1, <2>5 DEF RowsFor, Eligible, Agrees
    <2>7. Position(V, "point", r)
      BY <2>3, <2>5, <2>6 DEF Position, Target
    <2> QED BY <1>2, <1>5, <2>1, <2>3, <2>4, <2>7, NoWriteIsRight
  <1>10. CASE PointLatest(t)
    <2> DEFINE T == [V EXCEPT !.latest = req[t].row]
    <2>1. /\ T.rows = V.rows /\ T.latest = req[t].row /\ Write(t, T) /\ Moves(t, "commit", req[t])
          /\ pc[t] = "point"
      BY <1>1, <1>2, <1>4, <1>10 DEF PointLatest, Tables
    <2> HIDE DEF T
    <2>2. Position(T, "commit", req[t])
      BY <1>3, <2>1 DEF Position, Agrees, Right, Target, Top, Eligible
    <2>3. Older(T, V) /\ (NoneOf(V, req[t].v) => NoneOf(T, req[t].v))
      BY <2>1 DEF Older, NoneOf
    <2> QED BY <1>2, <1>5, <2>1, <2>2, <2>3, WriteIsRight
  <1>11. CASE Abandon(t)
    BY <1>11, EndIsRight
  <1> QED BY <1>6, <1>7, <1>8, <1>9, <1>10, <1>11

LEMMA PointerInit == Init => PointerInv
  <1> SUFFICES ASSUME Init PROVE RightInv
    BY WholeInit DEF PointerInv
  <1>1. PICK R \in SUBSET Version, P \in SUBSET Version, c \in Content :
          /\ P \subseteq R
          /\ db = [rows |-> {[id |-> i, version |-> i, published |-> i \in P, content |-> c] : i \in R},
                   latest |-> IF P \subseteq Beta THEN NoRow
                              ELSE CHOOSE i \in P \ Beta : \A j \in P \ Beta : j <= i,
                   parentOf |-> [d \in Download |-> NoRow]]
    BY DEF Init
  <1>2. P \ Beta # {} => \E i \in P \ Beta : \A j \in P \ Beta : j <= i
    <2>1. \A i \in P : i \in 1..MaxVersion
      BY DEF Version
    <2>2. P \ Beta \in SUBSET Nat /\ \A i \in P \ Beta : i <= MaxVersion
      BY <2>1, RequestsAssumption
    <2> QED BY <2>2, HighestExists, RequestsAssumption
  <1>3. \/ P \subseteq Beta /\ db.latest = NoRow
        \/ db.latest \in P \ Beta /\ \A j \in P \ Beta : j <= db.latest
    BY <1>1, <1>2
  <1> DEFINE row(i) == [id |-> i, version |-> i, published |-> i \in P, content |-> c]
  <1>4. /\ \A x \in db.rows : \E i \in R : x = row(i)
        /\ \A i \in R : row(i) \in db.rows
    BY <1>1
  <1>5. \A i \in R : row(i).id = i /\ row(i).version = i /\ (row(i).published <=> i \in P)
    OBVIOUS
  <1>6. Right(db)
    <2> HIDE DEF row
    <2>1. \A x \in Eligible(db) : x.version \in P \ Beta
      BY <1>4, <1>5 DEF Eligible
    <2>2. \A i \in P \ Beta : row(i) \in Eligible(db) /\ row(i).id = i /\ row(i).version = i
      BY <1>1, <1>4, <1>5 DEF Eligible
    <2>3. CASE P \subseteq Beta /\ db.latest = NoRow
      BY <2>1, <2>3 DEF Right
    <2>4. CASE db.latest \in P \ Beta /\ \A j \in P \ Beta : j <= db.latest
      BY <2>1, <2>2, <2>4 DEF Right, Target, Top
    <2> QED BY <1>3, <2>3, <2>4
  <1>7. Agrees(db, {})
    BY <1>1 DEF Agrees
  <1>8. \A t \in Thread : OnRoute(t) /\ holder # t
    BY RequestsAssumption DEF Init, OnRoute, Route, InTransaction, NoRequest
  <1> QED BY <1>6, <1>7, <1>8 DEF RightInv, Holds

LEMMA PointerNext == PointerInv /\ [Next]_vars => PointerInv'
  <1> SUFFICES ASSUME PointerInv, [Next]_vars PROVE PointerInv'
    OBVIOUS
  <1>a. config' = config
    <2>1. CASE Crash
      BY <2>1 DEF Crash
    <2>2. \A t \in Thread : Arrive(t) \/ Step(t) => config' = config
      BY DEF Arrive, Step
    <2> QED BY <2>1, <2>2 DEF Next, vars
  <1> SUFFICES ASSUME Transactional PROVE RightInv'
    BY <1>a, WholeNext DEF PointerInv, Transactional
  <1> WholeInv /\ RightInv
    BY DEF PointerInv
  <1>1. CASE Crash
    <2>1. db' = db /\ \A t \in Thread : holder' # t /\ pc'[t] = "idle" /\ req'[t] = NoRequest
      BY <1>1, RequestsAssumption DEF Crash
    <2>2. \A t \in Thread : OnRoute(t)' /\ Holds(t)'
      BY <2>1 DEF OnRoute, Route, InTransaction, NoRequest, Holds
    <2> QED BY <2>1, <2>2 DEF RightInv
  <1>2. ASSUME NEW t \in Thread, Arrive(t) PROVE RightInv'
    BY <1>2, ArriveIsRight
  <1>3. ASSUME NEW t \in Thread, Step(t) PROVE RightInv'
    BY <1>3, <1>a, DeleteIsRight, IndexIsRight, PublishIsRight, DownloadIsRight, EndIsRight
       DEF Step, ExtractionFails, LockTimeout
  <1>4. CASE UNCHANGED vars
    BY <1>4 DEF vars, RightInv, OnRoute, InTransaction, View, Holds
  <1> QED BY <1>1, <1>2, <1>3, <1>4 DEF Next

\* Where every change is a transaction and no version is indexed again, the
\* committed pointer names the highest published version that is not a beta
\* (get_latest_version), however many requests interleave and wherever one
\* fails or the process is killed.
THEOREM TransactionsKeepRight ==
    Spec => [](config.mode = "prohibit" => TransactionsKeepLatestRight)
  <1>1. PointerInv => (config.mode = "prohibit" => TransactionsKeepLatestRight)
    BY RightIsRight DEF PointerInv, WholeInv, TypeOK, Transactional, RightInv,
       TransactionsKeepLatestRight
  <1> QED BY <1>1, PointerInit, PointerNext, PTL DEF Spec

=============================================================================

-------------------------- MODULE VersionRequests ---------------------------
(***************************************************************************)
(* The requests of VersionIndex, statement by statement, run by several    *)
(* server threads on one database and one file store.                      *)
(*                                                                         *)
(* Indexing (upload, import, hooks) and the GitHub hook's delete run in a  *)
(* database transaction.  The publish and delete endpoints open none, so   *)
(* each of their statements commits by itself.  The database is SQLite,    *)
(* the default: a SELECT takes no lock and sees what is committed (or the  *)
(* transaction's own writes), the first write of a transaction takes the   *)
(* one write lock until it ends, and a write that cannot get the lock      *)
(* fails after a timeout.  Files are outside of every transaction.         *)
(***************************************************************************)
EXTENDS Naturals, FiniteSets

CONSTANTS
    Thread, MaxVersion, Beta, RowId, NoRow, Download,
    Content,     \* what an archive may hold, and what is extracted from it: module
                 \* details, submodules, examples.  An upload of what another one
                 \* held has the same extraction here, which only adds behaviours.
    Deployment,  \* the ways Terrareg is set up and used, records of
                 \*   kinds: the kinds of request that arrive
                 \*   mode:  MODULE_VERSION_REINDEX_MODE
                 \*   auto:  AUTO_PUBLISH_MODULE_VERSIONS
                 \*   kill:  whether the server process may be killed
    NoThread, Nothing

Version == 1..MaxVersion
RequestKinds == {"index", "publish", "delete", "hookDelete", "download"}

ASSUME RequestsAssumption ==
    /\ MaxVersion \in Nat \ {0}
    /\ Version \subseteq RowId
    /\ NoRow \notin RowId /\ NoThread \notin Thread /\ Nothing \notin Content
    /\ Deployment \subseteq [kinds : SUBSET RequestKinds,
                              mode : {"legacy", "auto-publish", "prohibit"},
                              auto : BOOLEAN, kill : BOOLEAN]

VARIABLES
    db,      \* the committed tables
    holder,  \* the thread that holds the write lock, or NoThread
    work,    \* the tables as its open transaction sees them, or Nothing
    archive, \* version -> content of its archive in the file store, or Nothing
    pc,      \* thread -> the statement it runs next
    req,     \* thread -> the request it serves and the request's variables
    config   \* the Deployment, which never changes

vars == <<db, holder, work, archive, pc, req, config>>

\* content is what the database has of the extraction, Nothing if any part of
\* it is missing.
Row == [id : RowId, version : Version, published : BOOLEAN, content : Content \cup {Nothing}]

\* The tables of one module provider.
Tables == [rows : SUBSET Row, latest : RowId \cup {NoRow},
           parentOf : [Download -> RowId \cup {NoRow}]]

Labels == {"idle", "parts", "analytics", "erase", "audit", "files", "dropRow",
           "recalculate", "insert",
           "archive", "details", "submodules", "mark", "anyLatest", "isLatest",
           "pk", "point", "record", "commit"}

NoRequest == [kind |-> "none", v |-> 1, content |-> Nothing, old |-> NoRow,
              had |-> Nothing, row |-> NoRow, publish |-> FALSE, top |-> 0, then |-> "commit"]

Request == [kind : RequestKinds \cup {"none"}, v : Version, content : Content \cup {Nothing},
            had : Content \cup {Nothing}, old : RowId \cup {NoRow},
            row : RowId \cup {NoRow}, publish : BOOLEAN,
            top : 0..MaxVersion, then : {"insert", "commit"}]

TypeOK ==
    /\ db \in Tables
    /\ holder \in Thread \cup {NoThread}
    /\ IF holder = NoThread THEN work = Nothing ELSE work \in Tables
    /\ archive \in [Version -> Content \cup {Nothing}]
    /\ pc \in [Thread -> Labels]
    /\ req \in [Thread -> Request]
    /\ config \in Deployment

-----------------------------------------------------------------------------
RowsFor(T, v) == {r \in T.rows : r.version = v}

Ids(T) == {r.id : r \in T.rows}

Eligible(T) == {r \in T.rows : r.published /\ r.version \notin Beta}

\* calculate_latest_version: the highest eligible version, 0 for None.
HighestVersion(T) ==
    LET versions == {r.version : r \in Eligible(T)}
    IN  IF versions = {} THEN 0
        ELSE CHOOSE v \in versions : \A w \in versions : w <= v

\* A fault: the GitHub hook deletes outside its transaction.
InTransaction_IndexOnly(t) == req[t].kind = "index"

\* A fault: indexing opens no transaction.
InTransaction_HookOnly(t) == req[t].kind = "hookDelete"

\* Uploads, imports and hooks run in one; publish, delete and download do not.
InTransaction(t) == req[t].kind \in {"index", "hookDelete"}

View(t) == IF holder = t THEN work ELSE db

Goto(t, label) == pc' = [pc EXCEPT ![t] = label]

\* A statement that changes the tables to T: in the thread's transaction,
\* or committed at once.
Write(t, T) ==
    /\ holder \in {NoThread, t}
    /\ IF InTransaction(t)
       THEN holder' = t /\ work' = T /\ UNCHANGED db
       ELSE db' = T /\ UNCHANGED <<holder, work>>

NoWrite == UNCHANGED <<db, holder, work>>

\* A fault: the lock is given up but the transaction stays open.
Abandon_LeavesWork(t) ==
    /\ Goto(t, "idle")
    /\ req' = [req EXCEPT ![t] = NoRequest]
    /\ holder' = IF holder = t THEN NoThread ELSE holder
    /\ UNCHANGED <<db, work, archive>>

\* The end of the request, with what its transaction wrote dropped.
Abandon(t) ==
    /\ Goto(t, "idle")
    /\ req' = [req EXCEPT ![t] = NoRequest]
    /\ IF holder = t THEN holder' = NoThread /\ work' = Nothing
                     ELSE UNCHANGED <<holder, work>>
    /\ UNCHANGED <<db, archive>>

\* Any tables that complete requests leave behind, with their archives.
Init ==
    /\ \E R \in SUBSET Version, P \in SUBSET Version, c \in Content :
          /\ P \subseteq R
          /\ db = [rows |-> {[id |-> i, version |-> i, published |-> i \in P, content |-> c] : i \in R},
                   latest |-> IF P \subseteq Beta THEN NoRow
                              ELSE CHOOSE i \in P \ Beta : \A j \in P \ Beta : j <= i,
                   parentOf |-> [d \in Download |-> NoRow]]
          /\ archive = [v \in Version |-> IF v \in R THEN c ELSE Nothing]
    /\ holder = NoThread /\ work = Nothing
    /\ config \in Deployment
    /\ pc = [t \in Thread |-> "idle"]
    /\ req = [t \in Thread |-> NoRequest]

-----------------------------------------------------------------------------
\* A request begins with its first reads; the row read here stays cached.
Start(t, r, label) ==
    /\ pc[t] = "idle"
    /\ r.kind \in config.kinds
    /\ req' = [req EXCEPT ![t] = r]
    /\ Goto(t, label)
    /\ UNCHANGED archive /\ NoWrite

\* A fault: the version is taken for new without looking.
StartIndex_NoLookup(t, v, c) ==
    /\ Cardinality(Ids(db)) < Cardinality(RowId)
    /\ Start(t, [NoRequest EXCEPT !.kind = "index", !.v = v, !.content = c,
                                  !.publish = config.auto], "insert")

\* A fault: re-indexing is never prohibited.
StartIndex_NeverProhibited(t, v, c) ==
    /\ Cardinality(Ids(db)) < Cardinality(RowId)
    /\ LET r == [NoRequest EXCEPT !.kind = "index", !.v = v, !.content = c] IN
       \/ RowsFor(db, v) = {} /\ Start(t, r, "insert")
       \/ \E x \in RowsFor(db, v) :
             Start(t, [r EXCEPT !.old = x.id, !.row = x.id, !.had = x.content,
                                !.then = "insert"], "parts")

\* Upload or import, up to the decision of _create_db_row.  Where re-indexing
\* is prohibited and the version exists, the request ends here.
\* Bound: a request only arrives while a row id is left for it.
StartIndex(t, v, c) ==
    LET r == [NoRequest EXCEPT !.kind = "index", !.v = v, !.content = c]
        Fits(ids) == Cardinality(ids) + Cardinality({u \in Thread : req[u].kind = "index"})
                       < Cardinality(RowId)
    IN
    \/ /\ RowsFor(db, v) = {}
       /\ Fits(Ids(db))
       /\ Start(t, [r EXCEPT !.publish = config.auto], "insert")
    \/ /\ config.mode # "prohibit"
       /\ \E x \in RowsFor(db, v) :
             /\ Fits(Ids(db) \ {x.id})
             /\ Start(t, [r EXCEPT !.old = x.id, !.row = x.id, !.had = x.content,
                                   !.then = "insert",
                                   !.publish = \/ config.auto
                                               \/ config.mode = "auto-publish" /\ x.published],
                      "parts")

StartPublish(t, v) ==
    /\ RowsFor(db, v) # {}
    /\ Start(t, [NoRequest EXCEPT !.kind = "publish", !.v = v], "mark")

StartDelete(t, v, kind) ==
    \E x \in RowsFor(db, v) :
        Start(t, [NoRequest EXCEPT !.kind = kind, !.v = v, !.row = x.id, !.had = x.content],
              "parts")

\* Bound: as many downloads are in progress as there are events left to record.
StartDownload(t, v) ==
    /\ Cardinality({u \in Thread : pc[u] = "record"})
         < Cardinality({d \in Download : db.parentOf[d] = NoRow})
    /\ \E x \in RowsFor(db, v) :
        Start(t, [NoRequest EXCEPT !.kind = "download", !.v = v, !.row = x.id], "record")

-----------------------------------------------------------------------------
(* ModuleVersion.delete *)

\* Examples and submodules, each with its details: the version may have none.
\* Only the statement of the GitHub hook or of a re-index is in a transaction.
DeleteSubmodules(t) ==
    /\ pc[t] = "parts"
    /\ \/ NoWrite
       \/ Write(t, [View(t) EXCEPT !.rows =
                       {IF x.id = req[t].row THEN [x EXCEPT !.content = Nothing] ELSE x : x \in @}])
    /\ Goto(t, IF req[t].then = "insert" THEN "erase" ELSE "analytics")
    /\ UNCHANGED <<archive, req>>

DeleteAnalytics(t) ==
    /\ pc[t] = "analytics"
    /\ Write(t, [View(t) EXCEPT !.parentOf =
                    [d \in Download |-> IF @[d] = req[t].row THEN NoRow ELSE @[d]]])
    /\ Goto(t, "erase")
    /\ UNCHANGED <<archive, req>>

\* The details that the row named when it was read, if any.  All the rows of a
\* version share them (InsertDetails).  Where foreign keys are enforced this
\* drops those rows already; Terrareg does not enable them on SQLite.
DeleteDetails(t) ==
    /\ pc[t] = "erase"
    /\ \/ req[t].had = Nothing /\ NoWrite
       \/ Write(t, [View(t) EXCEPT !.rows =
                       {IF x.version = req[t].v /\ x.content = req[t].had
                        THEN [x EXCEPT !.content = Nothing] ELSE x : x \in @}])
    /\ Goto(t, "audit")
    /\ req' = [req EXCEPT ![t].had = Nothing]
    /\ UNCHANGED archive

\* A write to another table, which needs the lock like any other.
CreateAuditEvent(t) ==
    /\ pc[t] = "audit"
    /\ Write(t, View(t))
    /\ Goto(t, "files")
    /\ UNCHANGED <<archive, req>>

DeleteFiles(t) ==
    /\ pc[t] = "files"
    /\ archive' = [archive EXCEPT ![req[t].v] = Nothing]
    /\ Goto(t, "dropRow")
    /\ UNCHANGED req /\ NoWrite

\* A fault: the latest version is not recalculated.
DropRow_NoRecalculation(t) ==
    /\ pc[t] = "dropRow"
    /\ Write(t, [View(t) EXCEPT !.rows = {x \in @ : x.id # req[t].row}])
    /\ Goto(t, req[t].then)
    /\ UNCHANGED <<archive, req>>

DropRow(t) ==
    /\ pc[t] = "dropRow"
    /\ Write(t, [View(t) EXCEPT !.rows = {x \in @ : x.id # req[t].row}])
    /\ Goto(t, "recalculate")
    /\ UNCHANGED <<archive, req>>

Recalculate(t) ==
    /\ pc[t] = "recalculate"
    /\ LET top == HighestVersion(View(t)) IN
       /\ req' = [req EXCEPT ![t].top = top, ![t].row = NoRow]
       /\ Goto(t, IF top = 0 THEN "point" ELSE "pk")
    /\ UNCHANGED archive /\ NoWrite

-----------------------------------------------------------------------------
(* The rest of indexing: insert the row, extract the module *)

\* A fault: the analytics stay with the id of the old row.
InsertRow_ForgetsAnalytics(t) ==
    /\ pc[t] = "insert"
    /\ \E new \in RowId \ Ids(View(t)) :
         Write(t, [View(t) EXCEPT !.rows = @ \cup
             {[id |-> new, version |-> req[t].v, published |-> FALSE, content |-> Nothing]}])
    /\ req' = [req EXCEPT ![t].then = "commit"]
    /\ Goto(t, "archive")
    /\ UNCHANGED archive

\* The new row, to which the analytics of the row it replaces move.
InsertRow(t) ==
    /\ pc[t] = "insert"
    /\ \E new \in RowId \ Ids(View(t)) :
       LET row == [id |-> new, version |-> req[t].v, published |-> FALSE, content |-> Nothing]
           T   == [View(t) EXCEPT !.rows = @ \cup {row}]
       IN  \E x \in RowsFor(T, req[t].v) :
              Write(t, [T EXCEPT !.parentOf =
                          [d \in Download |-> IF req[t].old # NoRow /\ @[d] = req[t].old
                                              THEN x.id ELSE @[d]]])
    /\ req' = [req EXCEPT ![t].then = "commit"]
    /\ Goto(t, "archive")
    /\ UNCHANGED archive

GenerateArchive(t) ==
    /\ pc[t] = "archive"
    /\ archive' = [archive EXCEPT ![req[t].v] = req[t].content]
    /\ Goto(t, "details")
    /\ UNCHANGED req /\ NoWrite

\* _insert_database updates every row that has the version string.
InsertDetails(t) ==
    /\ pc[t] = "details"
    /\ Write(t, [View(t) EXCEPT !.rows =
                    {IF x.version = req[t].v
                     THEN [x EXCEPT !.published = FALSE, !.content = req[t].content]
                     ELSE x : x \in @}])
    /\ Goto(t, "submodules")
    /\ UNCHANGED <<archive, req>>

ScanSubmodules(t) ==
    /\ pc[t] = "submodules"
    /\ Goto(t, IF req[t].publish THEN "mark" ELSE "commit")
    /\ UNCHANGED <<archive, req>> /\ NoWrite

\* Cloning, unpacking, terraform-docs, tfsec, the Terraform lock, metadata and
\* submodules can each raise; the transaction rolls back, the files stay.
ExtractionFails(t) ==
    /\ pc[t] \in {"archive", "details", "submodules"}
    /\ Abandon(t)

-----------------------------------------------------------------------------
(* ModuleVersion.publish, and the assignment of latest_version_id *)

MarkPublished(t) ==
    /\ pc[t] = "mark"
    /\ Write(t, [View(t) EXCEPT !.rows =
                    {IF x.version = req[t].v THEN [x EXCEPT !.published = TRUE] ELSE x : x \in @}])
    /\ Goto(t, "anyLatest")
    /\ UNCHANGED <<archive, req>>

\* calculate_latest_version() is not None
AnyLatest(t) ==
    /\ pc[t] = "anyLatest"
    /\ Goto(t, IF HighestVersion(View(t)) = 0 THEN "commit" ELSE "isLatest")
    /\ UNCHANGED <<archive, req>> /\ NoWrite

\* A fault: the version published last becomes the latest.
IsLatest_Unchecked(t) ==
    /\ pc[t] = "isLatest"
    /\ Goto(t, "pk")
    /\ req' = [req EXCEPT ![t].top = req[t].v]
    /\ UNCHANGED archive /\ NoWrite

\* ... and calculate_latest_version().version == self.version: calculated a
\* second time, and an error if there is none by then.
IsLatest(t) ==
    /\ pc[t] = "isLatest"
    /\ LET top == HighestVersion(View(t)) IN
       \/ /\ top = 0
          /\ Abandon(t)
       \/ /\ top # 0
          /\ Goto(t, IF top = req[t].v THEN "pk" ELSE "commit")
          /\ req' = [req EXCEPT ![t].top = top]
          /\ UNCHANGED archive /\ NoWrite

\* A fault: a row that has gone is waited for.
ReadPk_Waits(t) ==
    /\ pc[t] = "pk"
    /\ \E x \in RowsFor(View(t), req[t].top) : req' = [req EXCEPT ![t].row = x.id]
    /\ Goto(t, "point")
    /\ UNCHANGED archive /\ NoWrite

\* The id of the version found, read by its version string; an error if the
\* row has gone.
ReadPk(t) ==
    /\ pc[t] = "pk"
    /\ LET found == RowsFor(View(t), req[t].top) IN
       \/ /\ found = {}
          /\ Abandon(t)
       \/ \E x \in found :
          /\ req' = [req EXCEPT ![t].row = x.id]
          /\ Goto(t, "point")
          /\ UNCHANGED archive /\ NoWrite

PointLatest(t) ==
    /\ pc[t] = "point"
    /\ Write(t, [View(t) EXCEPT !.latest = req[t].row])
    /\ Goto(t, req[t].then)
    /\ UNCHANGED <<archive, req>>

RecordDownload(t, d) ==
    /\ pc[t] = "record"
    /\ db.parentOf[d] = NoRow
    /\ Write(t, [View(t) EXCEPT !.parentOf[d] = req[t].row])
    /\ Goto(t, "commit")
    /\ UNCHANGED <<archive, req>>

-----------------------------------------------------------------------------
\* The response is sent; a transaction commits first.
Finish(t) ==
    /\ pc[t] = "commit"
    /\ Goto(t, "idle")
    /\ req' = [req EXCEPT ![t] = NoRequest]
    /\ IF holder = t THEN db' = work /\ holder' = NoThread /\ work' = Nothing
                     ELSE NoWrite
    /\ UNCHANGED archive

\* "database is locked": a write gives up on the lock another thread holds, or
\* a commit (the write itself, outside a transaction) on those that still read.
LockTimeout(t) ==
    LET writes == pc[t] \in {"parts", "analytics", "erase", "audit", "dropRow", "insert",
                             "mark", "point", "record"}
    IN
    /\ \/ writes /\ holder \notin {NoThread, t}
       \/ /\ IF InTransaction(t) THEN pc[t] = "commit" ELSE writes
          /\ \E u \in Thread \ {t} : pc[u] # "idle"
    /\ Abandon(t)

\* The process is killed: every request is gone, the open transaction with it.
Crash ==
    /\ config.kill
    /\ \E t \in Thread : pc[t] # "idle"
    /\ pc' = [t \in Thread |-> "idle"]
    /\ req' = [t \in Thread |-> NoRequest]
    /\ holder' = NoThread /\ work' = Nothing
    /\ UNCHANGED <<db, archive, config>>

Arrive(t) ==
    /\ UNCHANGED config
    /\ \E v \in Version :
       \/ \E c \in Content : StartIndex(t, v, c)
       \/ StartPublish(t, v)
       \/ StartDelete(t, v, "delete")
       \/ StartDelete(t, v, "hookDelete")
       \/ StartDownload(t, v)

\* One statement of the request that thread t serves.
Step(t) ==
    /\ UNCHANGED config
    /\ \/ DeleteSubmodules(t) \/ DeleteAnalytics(t) \/ DeleteDetails(t) \/ CreateAuditEvent(t)
       \/ DeleteFiles(t) \/ DropRow(t) \/ Recalculate(t)
       \/ InsertRow(t) \/ GenerateArchive(t) \/ InsertDetails(t) \/ ScanSubmodules(t)
       \/ ExtractionFails(t)
       \/ MarkPublished(t) \/ AnyLatest(t) \/ IsLatest(t) \/ ReadPk(t) \/ PointLatest(t)
       \/ \E d \in Download : RecordDownload(t, d)
       \/ Finish(t) \/ LockTimeout(t)

Next == Crash \/ \E t \in Thread : Arrive(t) \/ Step(t)

Spec == Init /\ [][Next]_vars

\* Threads that serve a request keep running it; none has to arrive.
FairSpec == Spec /\ \A t \in Thread : WF_vars(Step(t))

-----------------------------------------------------------------------------
Quiet == \A t \in Thread : pc[t] = "idle"

\* What is committed names the highest published version that is not a beta
\* as the latest, whatever requests are half done.
LatestIsRight ==
    IF Eligible(db) = {}
    THEN db.latest = NoRow
    ELSE \E x \in Eligible(db) : x.id = db.latest /\ x.version = HighestVersion(db)

\* Where versions are only indexed and removed by the GitHub hook, every change
\* of the rows commits with the pointer it calls for, so that requests may die
\* anywhere, and interleave as long as none indexes a version again.
TransactionsKeepLatestRight ==
    /\ config.kinds \subseteq {"index", "hookDelete", "download"}
    /\ config.mode = "prohibit" \/ Cardinality(Thread) = 1
    => LatestIsRight

\* Publishing and first uploads that publish at once, in any interleaving and
\* with a kill anywhere, never leave the latest version pointing at a version
\* that is not published, or at a beta: publish marks the row before it moves
\* the pointer.  Without AUTO_PUBLISH_MODULE_VERSIONS two uploads of one new
\* version break it, if it is published between them: _insert_database of the
\* second marks the rows of both as not published.
LatestIsEligible ==
    config.kinds \subseteq {"index", "publish"} /\ config.mode = "prohibit" /\ config.auto
       => db.latest = NoRow \/ \E x \in Eligible(db) : x.id = db.latest

\* No request sees a version without what was extracted from its archive: the
\* row commits together with it or not at all, also when uploads and re-indexes
\* of one version race, fail or are killed.  Deleting does not keep it: the
\* delete endpoint commits the loss of submodules and details before that of
\* the row, and the GitHub hook takes the details from a second row that two
\* racing uploads have left of the version.
NoHalfIndexedVersion ==
    config.kinds \cap {"delete", "hookDelete"} = {} => \A x \in db.rows : x.content # Nothing

\* Once all requests have ended, "latest" is right (get_latest_version:
\* "Return latest published version of module").
LatestIsRightWhenQuiet == Quiet => LatestIsRight

\* _create_db_row: "Insert into database, removing any existing duplicate
\* versions."
OneRowPerVersion == \A x, y \in db.rows : x.version = y.version => x = y

\* Every recorded download belongs to a version that exists.
DownloadsHaveRows == Quiet => \A d \in Download : db.parentOf[d] \in Ids(db) \cup {NoRow}

\* The archive served for a version is the one its row was extracted from: a
\* failed index is undone (module_version_create_github_hook.py: "Roll back
\* creation of module version").
ArchivesMatch == Quiet => \A x \in db.rows : archive[x.version] = x.content

\* ... which holds where no version is indexed again and no two uploads race:
\* what a failed or killed upload leaves in the file store has no row, and the
\* next one replaces it.
FirstArchivesMatch ==
    config.kinds \subseteq {"index", "publish"} /\ config.mode = "prohibit" => ArchivesMatch

\* Every request is answered: no thread waits for the write lock for ever.
RequestsEnd == \A t \in Thread : pc[t] # "idle" ~> pc[t] = "idle"
=============================================================================

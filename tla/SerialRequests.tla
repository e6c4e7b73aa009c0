--------------------------- MODULE SerialRequests ---------------------------
(***************************************************************************)
(* The requests of VersionRequests, shown to implement VersionIndex when   *)
(* they do not overlap and the process is not killed (or only transactions *)
(* are): whatever way a request takes through its statements, and wherever *)
(* it fails, the tables it leaves are those of one VersionIndex action or  *)
(* those it found.                                                         *)
(***************************************************************************)
EXTENDS VersionRequests

VARIABLES
    settled,   \* the tables when no request was last in progress
    versionOf  \* row id -> the version it last had

SerialVars == <<vars, settled, versionOf>>

SerialInit ==
    /\ Init
    /\ db.rows = {}
    /\ settled = db
    /\ versionOf \in [RowId -> Version]

\* Threads take turns: a request arrives when none is in progress.
TakesTurns == \A t \in Thread : pc[t] = "idle" /\ pc'[t] # "idle" => Quiet

SerialNext ==
    /\ Next /\ TakesTurns
    /\ IF Quiet'
       THEN /\ settled' = db'
            /\ versionOf' = [i \in RowId |->
                   IF \E x \in db'.rows : x.id = i
                   THEN (CHOOSE x \in db'.rows : x.id = i).version
                   ELSE versionOf[i]]
       ELSE UNCHANGED <<settled, versionOf>>

SerialSpec == SerialInit /\ [][SerialNext]_SerialVars

Index == INSTANCE VersionIndex WITH
    rows      <- Ids(settled),
    versionOf <- versionOf,
    published <- {x.id : x \in {y \in settled.rows : y.published}},
    latest    <- settled.latest,
    parentOf  <- settled.parentOf,
    mode      <- config.mode,
    auto      <- config.auto

\* One request at a time, the statements of models.py, module_extractor.py
\* and analytics.py add up to the actions of VersionIndex under the settings
\* of the deployment, failures included.
ImplementsIndex == Index!Spec

\* A kill stops no request that commits its statements one by one.
KillsOnlyTransactions ==
    config.kill => config.kinds \subseteq {"index", "hookDelete", "download"}
=============================================================================

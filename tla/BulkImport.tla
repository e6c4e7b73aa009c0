----------------------------- MODULE BulkImport -----------------------------
(***************************************************************************)
(* Bitbucket's hook, which imports the versions of several pushed tags in  *)
(* one request, and the lock under which all extractions of the process    *)
(* run Terraform.                                                          *)
(*                                                                         *)
(* Each tag has a savepoint inside the transaction of the request.  The    *)
(* driver of SQLite begins a transaction before the first write only, so   *)
(* that there the first savepoint is the transaction: releasing it         *)
(* commits, unless an earlier savepoint was rolled back and is still open. *)
(*                                                                         *)
(* Each thread serves one hook, for a module provider of its own.          *)
(***************************************************************************)
EXTENDS ServerThreads, Naturals, FiniteSets, Sequences, SequencesExt

CONSTANTS
    Version,
    Terraform,  \* versions of Terraform
    Payload,    \* the changes a hook tells of, sequences of records
                \*   version: of the tag, or None if it is no version
                \*   parts:   the Terraform that the module and its submodules want
    Prohibit,   \* a set of Booleans: whether re-indexing is prohibited
    MayHang     \* a set of threads: those whose Terraform may never end

\* The first part of a module is the module itself.
ASSUME PayloadAssumption ==
    /\ None \notin Version
    /\ \A p \in Payload : /\ p \in Seq([version : Version \cup {None}, parts : Seq(Terraform)])
                          /\ \A n \in DOMAIN p : p[n].parts # <<>>

ASSUME ProhibitAssumption == Prohibit \subseteq BOOLEAN

VARIABLES
    sqlite, prohibit, payload,
    before,   \* the versions there are at first: 1 for one that is there
    rows,     \* the committed versions of each module provider: 0 for none,
              \* 1 for one that was there before, 1 + n for the n-th change's
    work,     \* the same, as the transaction of the thread sees it
    save,     \* the same, when the savepoint was set
    nested,   \* SQLite: whether an earlier savepoint is still open
    writer,   \* SQLite: who holds the write lock, at most one thread
    pc, at, part,
    outcome,  \* of each change: "success", "failed" or "skipped"
    holder,   \* who holds TERRAFORM_LOCK
    binary    \* the Terraform that tfswitch selected last

importVars == <<sqlite, prohibit, payload, before, rows, work, save, nested, writer, pc, at, part,
                outcome, holder, binary>>
config == <<sqlite, prohibit, payload, before>>
database == <<rows, work, save, nested, writer>>

Ended == {"answered", "raised", "hung"}

-----------------------------------------------------------------------------
Change(t)    == payload[t][at[t]]
Requested(t) == Change(t).parts[part[t]]

Goes(t, where) == pc' = [pc EXCEPT ![t] = where]

\* A module provider of each thread, all of which start alike.
Init ==
    /\ sqlite \in OnSqlite /\ prohibit \in Prohibit
    /\ payload \in [Thread -> Payload]
    /\ before \in [Version -> {0, 1}]
    /\ rows = [t \in Thread |-> before]
    /\ work = rows /\ save = rows
    /\ nested = [t \in Thread |-> FALSE]
    /\ writer = {}
    /\ pc = [t \in Thread |-> "next"]
    /\ at = [t \in Thread |-> 1]
    /\ part = [t \in Thread |-> 1]
    /\ outcome = [t \in Thread |-> <<>>]
    /\ holder = {}
    /\ binary = None

\* The change is done with; the loop takes the next.
NextChange(t, result) ==
    /\ Goes(t, "next")
    /\ at' = [at EXCEPT ![t] = @ + 1]
    /\ part' = [part EXCEPT ![t] = 1]
    /\ outcome' = [outcome EXCEPT ![t] = Append(@, result)]

\* An error of terrareg: the savepoint is rolled back and the loop goes on.
TagFails(t) ==
    /\ work' = [work EXCEPT ![t] = save[t]]
    /\ nested' = [nested EXCEPT ![t] = sqlite]
    /\ NextChange(t, "failed")
    /\ UNCHANGED <<rows, save, writer>>

\* A fault: the transaction is committed with what the change has written.
Raises_Commits(t) ==
    /\ rows' = [rows EXCEPT ![t] = work[t]]
    /\ writer' = writer \ {t}
    /\ Goes(t, "raised")
    /\ UNCHANGED <<work, save, nested, at, part, outcome>>

\* Any other exception leaves the handler: the transaction is rolled back.
Raises(t) ==
    /\ work' = [work EXCEPT ![t] = rows[t]]
    /\ writer' = writer \ {t}
    /\ Goes(t, "raised")
    /\ UNCHANGED <<rows, save, nested, at, part, outcome>>

-----------------------------------------------------------------------------
\* The hook may not be answered before all changes were tried.
More(t) == pc[t] = "next" /\ at[t] \in DOMAIN payload[t]

\* Not a tag, not added or updated, or no version in the name of the tag.
Skip(t) ==
    /\ More(t) /\ Change(t).version = None
    /\ NextChange(t, "skipped")
    /\ UNCHANGED <<config, database, holder, binary>>

\* begin_nested and prepare_module: the row of the version is replaced.
BeginTag(t) ==
    /\ More(t) /\ Change(t).version # None
    /\ ~(prohibit /\ work[t][Change(t).version] # 0)
    /\ sqlite => writer \subseteq {t}
    /\ save' = [save EXCEPT ![t] = work[t]]
    /\ work' = [work EXCEPT ![t][Change(t).version] = 1 + at[t]]
    /\ writer' = IF sqlite THEN {t} ELSE writer
    /\ Goes(t, "extract")
    /\ UNCHANGED <<config, rows, nested, at, part, outcome, holder, binary>>

\* ModuleVersionReindexMode.PROHIBIT.
ReindexRefused(t) ==
    /\ More(t) /\ Change(t).version # None
    /\ prohibit /\ work[t][Change(t).version] # 0
    /\ nested' = [nested EXCEPT ![t] = sqlite]
    /\ NextChange(t, "failed")
    /\ UNCHANGED <<config, rows, work, save, writer, holder, binary>>

\* "database is locked": another thread writes for longer than SQLite waits.
DatabaseLocked(t) ==
    /\ More(t) /\ Change(t).version # None
    /\ sqlite /\ ~(writer \subseteq {t})
    /\ Raises(t)
    /\ UNCHANGED <<config, holder, binary>>

\* The repository is cloned, the archive written and the module read, or, for
\* the parts after the first, a submodule.
Extract(t) ==
    /\ pc[t] = "extract"
    /\ Goes(t, "lock")
    /\ UNCHANGED <<config, database, at, part, outcome, holder, binary>>

\* GitCloneError, UnableToProcessTerraformError, PathDoesNotExistError, ...
ExtractionFails(t) ==
    /\ pc[t] \in {"extract", "finish"}
    /\ TagFails(t)
    /\ UNCHANGED <<config, holder, binary>>

\* What is not an error of terrareg, like TimeoutExpired of git clone.
ExtractionRaises(t) ==
    /\ pc[t] \in {"extract", "finish"}
    /\ Raises(t)
    /\ UNCHANGED <<config, holder, binary>>

-----------------------------------------------------------------------------
\* A fault: every thread has a lock of its own.
Acquire_Unlocked(t) ==
    /\ pc[t] = "lock"
    /\ holder' = {t}
    /\ Goes(t, "switch")
    /\ UNCHANGED <<config, database, at, part, outcome, binary>>

\* _switch_terraform_versions: TERRAFORM_LOCK.acquire.
Acquire(t) ==
    /\ pc[t] = "lock" /\ holder = {}
    /\ holder' = {t}
    /\ Goes(t, "switch")
    /\ UNCHANGED <<config, database, at, part, outcome, binary>>

\* A fault: the lock is waited for without a timeout.
GivesUp_Never(t) == FALSE /\ UNCHANGED importVars

\* The lock was not free for this thread for 60 seconds.
GivesUp(t) ==
    /\ pc[t] = "lock" /\ holder # {}
    /\ TagFails(t)
    /\ UNCHANGED <<config, holder, binary>>

\* tfswitch selects the Terraform that the module wants.
Switch(t) ==
    /\ pc[t] = "switch"
    /\ binary' = Requested(t)
    /\ Goes(t, "run")
    /\ UNCHANGED <<config, database, at, part, outcome, holder>>

\* A fault: the lock is released behind the with statement only.
SwitchFails_KeepsLock(t) ==
    /\ pc[t] = "switch"
    /\ TagFails(t)
    /\ UNCHANGED <<config, holder, binary>>

\* TerraformVersionSwitchError.
SwitchFails(t) ==
    /\ pc[t] = "switch"
    /\ TagFails(t)
    /\ holder' = {}
    /\ UNCHANGED <<config, binary>>

\* terraform init, graph and version are done or have failed: the lock is
\* released, and the rest of the module is extracted, up to the next submodule.
Run(t) ==
    /\ pc[t] = "run"
    /\ holder' = {}
    /\ IF part[t] < Len(Change(t).parts)
       THEN /\ Goes(t, "extract")
            /\ part' = [part EXCEPT ![t] = @ + 1]
       ELSE /\ Goes(t, "finish")
            /\ UNCHANGED part
    /\ UNCHANGED <<config, database, at, outcome, binary>>

\* What is not an error of terrareg, like FileNotFoundError of tfswitch: the lock
\* is released on the way out.
LockedRaises(t) ==
    /\ pc[t] \in {"switch", "run"}
    /\ Raises(t)
    /\ holder' = {}
    /\ UNCHANGED <<config, binary>>

\* terraform init has no timeout.
Hang(t) ==
    /\ pc[t] = "run" /\ t \in MayHang
    /\ Goes(t, "hung")
    /\ UNCHANGED <<config, database, at, part, outcome, holder, binary>>

-----------------------------------------------------------------------------
\* savepoint.commit().
FinishTag(t) ==
    /\ pc[t] = "finish"
    /\ IF sqlite /\ ~nested[t]
       THEN /\ rows' = [rows EXCEPT ![t] = work[t]]
            /\ writer' = {}
       ELSE UNCHANGED <<rows, writer>>
    /\ NextChange(t, "success")
    /\ UNCHANGED <<config, work, save, nested, holder, binary>>

\* A fault: errors roll the whole transaction back.
Answer_AllOrNothing(t) ==
    /\ pc[t] = "next" /\ at[t] \notin DOMAIN payload[t]
    /\ IF "failed" \in ToSet(outcome[t]) THEN UNCHANGED rows ELSE rows' = [rows EXCEPT ![t] = work[t]]
    /\ writer' = writer \ {t}
    /\ Goes(t, "answered")
    /\ UNCHANGED <<config, work, save, nested, at, part, outcome, holder, binary>>

\* The response tells the outcome of each tag; leaving the handler commits.
Answer(t) ==
    /\ pc[t] = "next" /\ at[t] \notin DOMAIN payload[t]
    /\ rows' = [rows EXCEPT ![t] = work[t]]
    /\ writer' = writer \ {t}
    /\ Goes(t, "answered")
    /\ UNCHANGED <<config, work, save, nested, at, part, outcome, holder, binary>>

Step(t) ==
    \/ Skip(t) \/ BeginTag(t) \/ ReindexRefused(t) \/ DatabaseLocked(t)
    \/ Extract(t) \/ ExtractionFails(t) \/ ExtractionRaises(t)
    \/ Acquire(t) \/ GivesUp(t) \/ Switch(t) \/ SwitchFails(t)
    \/ Run(t) \/ LockedRaises(t) \/ Hang(t)
    \/ FinishTag(t) \/ Answer(t)

Next == \E t \in Thread : Step(t)

\* Threads go on: subprocesses end unless they hang, and waiting has an end.
Fairness == \A t \in Thread : WF_importVars(Step(t))

Spec == Init /\ [][Next]_importVars /\ Fairness

-----------------------------------------------------------------------------
TypeOK ==
    /\ sqlite \in BOOLEAN /\ prohibit \in BOOLEAN
    /\ payload \in [Thread -> Payload]
    /\ \A t \in Thread : /\ DOMAIN rows[t] = Version /\ DOMAIN work[t] = Version
                         /\ \A v \in Version : work[t][v] \in 0..(1 + Len(payload[t]))
                         /\ at[t] \in 1..(Len(payload[t]) + 1)
                         /\ Len(outcome[t]) = at[t] - 1
    /\ nested \in [Thread -> BOOLEAN]
    /\ writer \subseteq Thread /\ holder \subseteq Thread
    /\ Cardinality(writer) <= 1 /\ Cardinality(holder) <= 1
    /\ pc \in [Thread -> {"next", "extract", "lock", "switch", "run", "finish"} \cup Ended]
    /\ binary \in Terraform \cup {None}

\* What the first n changes of t make of version v: the import by the last of
\* them that succeeded, if any.
After(t, n, v) ==
    LET imports == {m \in 1..n : outcome[t][m] = "success" /\ payload[t][m].version = v}
    IN  IF imports = {} THEN before[v]
        ELSE 1 + CHOOSE m \in imports : \A l \in imports : l <= m

\* A module and its submodules are analysed by the Terraform that each of them
\* wants, whatever other threads switch to (TERRAFORM_LOCK).
RightTerraform ==
    \A t \in Thread : pc[t] \in {"run", "hung"} => binary = Requested(t)

\* A tag fails for want of the lock only while another thread runs Terraform:
\* the lock is released however an extraction ends.
OnlyBusyTerraformFails ==
    [][\A t \in Thread :
         pc[t] = "lock" /\ pc'[t] = "next" =>
             \E u \in Thread \ {t} : pc[u] \in {"switch", "run", "hung"}]_importVars

\* Versions are there as the response tells: those whose last change succeeded
\* were imported by it, and a failed change leaves a version as it was, also
\* when the same tag is in the payload twice (_post, savepoints).
ResponseTellsRows ==
    \A t \in Thread : pc[t] = "answered" =>
        \A v \in Version : rows[t][v] = After(t, Len(payload[t]), v)

\* At no moment, and least of all after an exception, has anything but whole
\* tags been committed: on SQLite the first tags up to one that failed, on
\* other databases none before the answer.
OnlyWholeTags ==
    \A t \in Thread : pc[t] # "answered" =>
        \E n \in 0..Len(outcome[t]) :
            /\ ~sqlite => n = 0
            /\ \A m \in 1..n : outcome[t][m] # "failed"
            /\ \A v \in Version : rows[t][v] = After(t, n, v)

\* Every hook is answered or fails, even if Terraform hangs for another one:
\* waiting for the lock and for the database ends.
ImportsEnd == \A t \in Thread \ MayHang : <>(pc[t] \in Ended)
=============================================================================

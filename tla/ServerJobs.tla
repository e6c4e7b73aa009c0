----------------------------- MODULE ServerJobs -----------------------------
(***************************************************************************)
(* Three kinds of work in which threads of the server meet: hooks that     *)
(* import many tags and the lock for Terraform (BulkImport), versions of   *)
(* providers and the keys that verify them (ProviderIndex), and the tables *)
(* of the identity provider (IdpStore).  They have no table in common, and *)
(* of locks only SQLite's, which each of them has in its own module: so    *)
(* each behaviour is about one of them and the others rest.                *)
(***************************************************************************)
EXTENDS BulkImport, ProviderIndex, IdpStore

VARIABLE looked  \* the work a behaviour is about

jobVars == <<looked, importVars, providerVars, storeVars>>

\* Of what a behaviour is not about, one initial state is enough.
JobsInit ==
    /\ looked \in {"import", "index", "store"}
    /\ Init /\ ProviderInit /\ StoreInit
    /\ looked # "import" => /\ sqlite /\ prohibit
                            /\ payload = [t \in Thread |-> CHOOSE p \in Payload : TRUE]
                            /\ before = [v \in Version |-> 0]
    /\ looked # "index" => deployment.alone
    /\ looked # "store" => shouldExpire /\ onSqlite

JobsNext ==
    /\ UNCHANGED looked
    /\ \/ looked = "import" /\ Next /\ UNCHANGED <<providerVars, storeVars>>
       \/ looked = "index" /\ ProviderNext /\ UNCHANGED <<importVars, storeVars>>
       \/ looked = "store" /\ StoreNext /\ UNCHANGED <<importVars, providerVars>>

\* The fairness of BulkImport, where imports are looked at.
JobsFairness == \A t \in Thread : WF_importVars(looked = "import" /\ Step(t))

JobsSpec == JobsInit /\ [][JobsNext]_jobVars /\ JobsFairness

-----------------------------------------------------------------------------
\* The types of all three.
TypesOK == TypeOK /\ ProviderTypeOK /\ StoreTypeOK

\* Every hook is answered or fails, even while Terraform hangs for another.
HooksEnd == looked = "import" => ImportsEnd
=============================================================================

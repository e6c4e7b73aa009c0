------------------------------ MODULE IdpStore ------------------------------
(***************************************************************************)
(* The tables in which the identity provider of Terraform's login keeps    *)
(* codes and tokens.  A value is set by an update and, if that has found   *)
(* no row, an insert; some tables drop expired rows in the same            *)
(* transaction.  The keys of the tables are unique.                        *)
(***************************************************************************)
EXTENDS ServerThreads, Naturals, FiniteSets

CONSTANTS
    StoredKey, Value,
    Lifetime,      \* TERRAFORM_OIDC_IDP_SESSION_EXPIRY
    MaxTime,       \* bound: how long the clock runs
    ShouldExpire   \* a set of Booleans: tables that drop expired rows or do not

StoredRow == [value : Value, expiry : Nat]

ASSUME StoreAssumption ==
    /\ Lifetime \in Nat /\ MaxTime \in Nat
    /\ ShouldExpire \subseteq BOOLEAN
    /\ None \notin StoredRow

VARIABLES
    shouldExpire, onSqlite,
    now,
    stored,  \* key -> the committed row, or None
    setter   \* what each thread is setting, and how far it is

storeVars == <<shouldExpire, onSqlite, now, stored, setter>>

NotSetting == [pc |-> "idle", key |-> None, value |-> None, expiry |-> 0]

StoreInit ==
    /\ shouldExpire \in ShouldExpire /\ onSqlite \in OnSqlite
    /\ now = 0
    /\ stored = [k \in StoredKey |-> None]
    /\ setter = [t \in Thread |-> NotSetting]

\* Others that have written, or written the same row, and not committed.  On
\* SQLite the first statement, which writes, takes the lock of the database.
Blocked(t, k) ==
    \E u \in Thread \ {t} :
        setter[u].pc # "idle" /\ (onSqlite \/ (setter[u].pc = "clean" /\ setter[u].key = k))

\* __setitem__: the update; rowcount tells whether there was a row.  A row keeps
\* its expiry.
UpdateValue(t, k, v) ==
    /\ setter[t].pc = "idle" /\ (stored[k] # None \/ onSqlite => ~Blocked(t, k))
    /\ setter' = [setter EXCEPT ![t] =
           IF stored[k] = None
           THEN [pc |-> "insert", key |-> k, value |-> v, expiry |-> 0]
           ELSE [pc |-> "clean", key |-> k, value |-> v, expiry |-> stored[k].expiry]]
    /\ UNCHANGED <<shouldExpire, onSqlite, now, stored>>

\* A fault: the insert replaces the row of another thread.
InsertValue_Replaces(t) ==
    /\ setter[t].pc = "insert" /\ ~Blocked(t, setter[t].key)
    /\ setter' = [setter EXCEPT ![t].pc = "clean", ![t].expiry = now + Lifetime]
    /\ UNCHANGED <<shouldExpire, onSqlite, now, stored>>

\* The insert, which fails on the unique key if another thread was faster.
InsertValue(t) ==
    /\ setter[t].pc = "insert" /\ ~Blocked(t, setter[t].key)
    /\ setter' = [setter EXCEPT ![t] =
           IF stored[setter[t].key] = None
           THEN [@ EXCEPT !.pc = "clean", !.expiry = now + Lifetime]
           ELSE NotSetting]
    /\ UNCHANGED <<shouldExpire, onSqlite, now, stored>>

Expired(row) == row # None /\ row.expiry < now

\* Expired rows are deleted and the transaction is committed.
CleanAndCommit(t) ==
    /\ setter[t].pc = "clean"
    /\ LET written == [stored EXCEPT ![setter[t].key] =
                           [value |-> setter[t].value, expiry |-> setter[t].expiry]]
       IN  stored' = [k \in StoredKey |->
                         IF shouldExpire /\ Expired(written[k]) THEN None ELSE written[k]]
    /\ setter' = [setter EXCEPT ![t] = NotSetting]
    /\ UNCHANGED <<shouldExpire, onSqlite, now>>

\* The thread fails or is killed: its transaction is rolled back.
SetterFails(t) ==
    /\ setter[t].pc # "idle"
    /\ setter' = [setter EXCEPT ![t] = NotSetting]
    /\ UNCHANGED <<shouldExpire, onSqlite, now, stored>>

\* Bound: MaxTime.
Tick ==
    /\ now < MaxTime
    /\ now' = now + 1
    /\ UNCHANGED <<shouldExpire, onSqlite, stored, setter>>

StoreNext ==
    \/ \E t \in Thread :
          \/ \E k \in StoredKey, v \in Value : UpdateValue(t, k, v)
          \/ InsertValue(t) \/ CleanAndCommit(t) \/ SetterFails(t)
    \/ Tick

StoreSpec == StoreInit /\ [][StoreNext]_storeVars

-----------------------------------------------------------------------------
StoreTypeOK ==
    /\ shouldExpire \in BOOLEAN /\ onSqlite \in BOOLEAN
    /\ now \in 0..MaxTime
    /\ \A k \in StoredKey : stored[k] # None =>
          stored[k].value \in Value /\ stored[k].expiry \in 0..(MaxTime + Lifetime)
    /\ \A t \in Thread : setter[t].pc \in {"idle", "insert", "clean"}

\* A stored value stays, whoever else sets or inserts its key or cleans up,
\* until it is replaced or expires; replacing it does not make it live longer
\* or shorter, and of two threads that insert one key the second fails.
ValuesAreKept ==
    [][\A k \in StoredKey :
         stored[k] # None /\ ~Expired(stored[k]) =>
             stored'[k] # None /\ stored'[k].expiry = stored[k].expiry]_storeVars
=============================================================================

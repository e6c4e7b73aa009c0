---------------------------- MODULE MCServerJobs ----------------------------
(***************************************************************************)
(* Two threads are enough for each race of ServerJobs: one holds what the  *)
(* other wants.                                                            *)
(***************************************************************************)
EXTENDS ServerJobs

CONSTANTS t1, t2, v1, v2, f1, f2, k1, k2, x, y

-----------------------------------------------------------------------------
Tag(v, parts) == [version |-> v, parts |-> parts]

\* Two versions, the second with a submodule that wants another Terraform; a
\* change that is no version, and the same tag twice.
MCPayload ==
    {<<Tag(v1, <<f1>>), Tag(v2, <<f1, f2>>)>>,
     <<Tag(None, <<f1>>), Tag(v1, <<f2>>), Tag(v1, <<f1>>)>>}

Signed(version, beta, signer) == [version |-> version, beta |-> beta, signer |-> signer]

MCReleases == <<Signed(4, TRUE, k1), Signed(3, FALSE, None), Signed(2, FALSE, k2),
                Signed(1, FALSE, k1)>>

\* One request at a time without foreign keys (SQLite), and an indexing thread
\* beside one that adds and deletes keys, with foreign keys.
MCDeployment ==
    {[kinds |-> (t1 :> Kinds @@ t2 :> {}), alone |-> TRUE, foreignKeys |-> FALSE],
     [kinds |-> (t1 :> {"publish", "index"} @@ t2 :> {"delete", "add"}),
      alone |-> FALSE, foreignKeys |-> TRUE]}
=============================================================================

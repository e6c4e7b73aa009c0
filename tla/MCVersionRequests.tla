------------------------- MODULE MCVersionRequests --------------------------
(***************************************************************************)
(* Instances of VersionRequests.  Two versions and one row id to spare are *)
(* enough for a pointer to be wrong and for ids to be reused; two threads  *)
(* are enough for every race the code has between two requests.            *)
(***************************************************************************)
EXTENDS VersionRequests, TLC

CONSTANTS t1, t2, d1, c1, c2

MCOneThread  == {t1}
MCThreads    == {t1, t2}
MCNoBeta     == {}
MCBeta       == {2}
MCRowId      == 1..3
MCTwoRows    == 1..2
MCNoDownload == {}
MCContents   == {c1, c2}
MCContent    == {c1}

Deploy(kinds, mode, auto, kill) ==
    {[kinds |-> kinds, mode |-> mode, auto |-> auto, kill |-> kill]}

\* Deleting without a transaction, beside publishing and beside indexing in one;
\* transactions only; uploads that publish at once, and publishing, where what
\* is there stays and where it is replaced.
MCRacing ==
    Deploy({"publish", "delete"}, "prohibit", FALSE, TRUE)
        \cup Deploy({"index", "delete"}, "prohibit", FALSE, TRUE)
        \cup Deploy({"index", "hookDelete"}, "prohibit", FALSE, TRUE)
        \cup Deploy({"index", "publish"}, "prohibit", TRUE, TRUE)
        \cup Deploy({"index", "publish"}, "auto-publish", TRUE, TRUE)

MCPublishing == Deploy({"publish"}, "prohibit", FALSE, FALSE)
MCReindexing == Deploy({"index"}, "legacy", FALSE, FALSE)
=============================================================================

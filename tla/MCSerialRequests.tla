-------------------------- MODULE MCSerialRequests --------------------------
(***************************************************************************)
(* SerialRequests with one thread, two versions, ids that are reused and   *)
(* two contents, in four deployments: what fails or is killed, and every   *)
(* kind of request together.                                               *)
(***************************************************************************)
EXTENDS SerialRequests

CONSTANTS t1, d1, c1, c2

MCThread   == {t1}
MCNoBeta   == {}
MCRowId    == 1..3
MCDownload == {d1}
MCContents == {c1, c2}

Deploy(kinds, mode, auto, kill) ==
    {[kinds |-> kinds, mode |-> mode, auto |-> auto, kill |-> kill]}

MCAlone ==
    Deploy({"index", "hookDelete", "download"}, "auto-publish", TRUE, TRUE)
        \cup Deploy({"index", "hookDelete"}, "prohibit", FALSE, TRUE)
        \cup Deploy({"index", "publish"}, "prohibit", FALSE, FALSE)
        \cup Deploy({"index", "publish", "delete", "hookDelete", "download"},
                    "auto-publish", FALSE, FALSE)
=============================================================================

---------------------------- MODULE MCRespServer ----------------------------
(***************************************************************************)
(* Instances of RespServer for TLC: batches of one or two commands, good   *)
(* and malformed ones, from two clients.                                   *)
(***************************************************************************)
EXTENDS RespServer

K == <<12>>

Incr   == Message(Command("incr", <<Bulk(K)>>))
MGet   == [Message(Command("mget", <<Bulk(K)>>)) EXCEPT !.ok = FALSE]   \* K may not be stored
Nested == Msg(<<Opening(3), Word("get"), Opening(1), Opening(0), Scalar(Bulk(K))>>,
              Command("get", <<Array(<< >>), Bulk(K)>>), TRUE)
Empty  == Msg(<<Opening(0)>>, Command("none", << >>), TRUE)
Inline == Msg(<<Word("incr")>>, Command("none", << >>), FALSE)          \* no array
Broken == Msg(<<Opening(2), Word("incr"), Garbage>>, Command("none", << >>), FALSE)

NoCommands    == {}
MixedBatches  == {<<Incr, Incr>>, <<Nested>>, <<Empty>>, <<Inline>>, <<Broken>>, <<MGet>>}

(* Nothing is left to do: every client is gone, or the server is down.     *)
Quiet ==
    /\ srv \in {"accept", "down"}
    /\ \A c \in Conn : phase[c] = "closed" \/ (srv = "down" /\ phase[c] # "new")
    /\ UNCHANGED serverVars

MCServerSpec     == ServerInit /\ [][ServerNext \/ Quiet]_serverVars
MCFairServerSpec == MCServerSpec /\ ServerFairness
=============================================================================

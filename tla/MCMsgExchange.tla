----------------------------- MODULE MCMsgExchange -----------------------------
(* Small instances of the message exchange: two users, each logged in once,  *)
(* and two names that are not theirs, a prefix of one and a stranger.        *)
EXTENDS MsgExchange

MCUsers == {"alice", "bob"}
MCNames == {"alice", "bob", "bo", "zed"}
MCPeers == {"alice", "bob"}
MCShown == {"alice"}
MCThreads == {"s1", "s2", "exchange"}
MCSessions == {"s1", "s2"}
MCUserOf == [s \in MCSessions |-> IF s = "s1" THEN "alice" ELSE "bob"]

\* getUserInfo compares only the characters of the name it is given.
MCResolve == [n \in MCNames |->
  CASE n = "alice" -> "alice" [] n \in {"bob", "bo"} -> "bob" [] OTHER -> "nobody"]
MCResolvePeers == [n \in MCPeers |-> n]

\* The paced instance is one the theorems on the boxes speak of.
ASSUME PacedAssumption == Paced => OneAtATime
=============================================================================

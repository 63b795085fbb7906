------------------------------ MODULE MCEvents ------------------------------
EXTENDS Events

MCPrefixesOf == [c \in Containers |-> {c}]
MCContainerOf == [n \in 0 .. MaxOoms |-> IF n = 0 THEN "/" ELSE "/a"]
MCVictimOf == [n \in -MaxOoms .. 0 |-> IF n = 0 THEN "" ELSE "/a"]
MCWatchRequests ==
  {[types |-> {"oom", "creation"}, container |-> "/", below |-> TRUE,
    start |-> NoTime, end |-> NoTime, max |-> NoLimit]}

MCKinds == {"oom", "oomKill"} \X {"/", "/a"} \X Times
MCKindsOfOne == {"oom"} \X {"/", "/a"} \X Times
MCSequences == UNION ({ [1 .. n -> MCKinds] : n \in 1 .. 2 }
                      \cup { [1 .. 3 -> MCKindsOfOne] })
MCQueryAdds ==
  { [i \in DOMAIN s |-> Event(i, s[i][1], s[i][2], s[i][3])] : s \in MCSequences }
MCQueryRequests == { r \in Requests :
  /\ r.types \in {{"oom"}, {"oom", "oomKill"}}
  /\ r.below => r.container = "/"
  /\ r.end # NoTime => r.start <= r.end }
=============================================================================

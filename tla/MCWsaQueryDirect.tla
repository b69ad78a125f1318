--------------------------- MODULE MCWsaQueryDirect ---------------------------
(* Instances of WsaQueryDirect with the tables of WsaQueryTest.cpp. *)
EXTENDS WsaQueryDirect, TLC

MCQueries == <<
  [path |-> "..Product",          type |-> "WSTR16", value |-> "Chartboard"],
  [path |-> "..Release.Major",    type |-> "int32",  value |-> "7"],
  [path |-> "..Release.Minor",    type |-> "int32",  value |-> "12"],
  [path |-> "..Limits.MaxSeries", type |-> "int32",  value |-> "512"],
  [path |-> "..Missing.Node",     type |-> "",       value |-> ""] >>

MCCatalogue ==
  ("..Product" :> [type |-> "WSTR16", value |-> "Chartboard"]) @@
  ("..Release" :> [type |-> "WSTR16", value |-> ""]) @@
  ("..Release.Major" :> [type |-> "int32", value |-> "7"]) @@
  ("..Release.Minor" :> [type |-> "int32", value |-> "12"]) @@
  ("..Limits" :> [type |-> "WSTR16", value |-> ""]) @@
  ("..Limits.MaxSeries" :> [type |-> "int32", value |-> "512"]) @@
  ("..Limits.MaxPoints" :> [type |-> "int32", value |-> "1000000"])

MCText ==
  {"", "MISS"} \cup UNION {{q.path, q.type, q.value} : q \in {MCQueries[i] : i \in 1..5}}
    \cup UNION {{p, MCCatalogue[p].type, MCCatalogue[p].value} : p \in DOMAIN MCCatalogue}
===============================================================================

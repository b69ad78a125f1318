---------------------------- MODULE MCWsaQueryLight ----------------------------
(* Instances of WsaQueryLight: three of the six queries of WsaQueryTest.cpp, a *)
(* value, an attribute and the name that must miss; and the catalogue as it is *)
(* built and as it would be after it drifted from the client's table.          *)
EXTENDS WsaQueryLight, TLC

MCQueries == <<
  [path |-> ".Release.Major",  type |-> "INT32",  value |-> "7"],
  [path |-> ".Product@Family", type |-> "WSTR16", value |-> "analytics"],
  [path |-> ".Missing.Node",   type |-> "",       value |-> ""] >>

MCBuilt ==
  (".Product" :> [type |-> "WSTR16", value |-> "Chartboard"]) @@
  (".Product@Family" :> [type |-> "WSTR16", value |-> "analytics"]) @@
  (".Release.Major" :> [type |-> "INT32", value |-> "7"])

MCDrifted == (".Release.Major" :> [type |-> "INT32", value |-> "8"]) @@ MCBuilt

MCCatalogues == {MCBuilt, MCDrifted}
MCIntact == {MCBuilt}
===============================================================================

----------------------------- MODULE MCWsaQueryNet -----------------------------
(* Instances of WsaQueryNet: three of the five questions of WsaQueryTest.cs,  *)
(* a value, a nested value and the path that is not there.                    *)
EXTENDS WsaQueryNet, TLC

MCAsks == <<
  [path |-> ".config.width",    ok |-> TRUE,  value |-> "1024"],
  [path |-> ".config.window.y", ok |-> TRUE,  value |-> "200"],
  [path |-> ".config.depth",    ok |-> FALSE, value |-> ""] >>

MCBuilt ==
  (".config.width" :> "1024") @@ (".config.height" :> "768") @@
  (".config.window.x" :> "100") @@ (".config.window.y" :> "200")
===============================================================================

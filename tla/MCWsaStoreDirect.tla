--------------------------- MODULE MCWsaStoreDirect ---------------------------
(* Instances of WsaStoreDirect with the store of WsaStoreTest.cpp. *)
EXTENDS WsaStoreDirect, TLC

MCSamples == [f \in {"Samples.1", "Samples.2", "Samples.3"} |-> "20x"]

MCExpect ==
  ("Sensor" :> "thermo-07") @@ ("Interval" :> "250") @@ ("Scale" :> "0.125") @@
  ("Limits.Low" :> "-40") @@ ("Limits.High" :> "125") @@
  ("Samples.count" :> "5") @@ ("Samples.0" :> "200") @@ ("Samples.4" :> "204")

MCBuilt == MCExpect @@ MCSamples

\* What a run of another version may have left: one value differs.
MCLeftover == ("Interval" :> "500") @@ MCBuilt

MCSizes == {0, 32767, 32768}
===============================================================================

----------------------------- MODULE MCMultiHal -----------------------------
(* Instances of MultiHal for TLC. *)
EXTENDS MultiHalRefinement

\* Two sub-HALs with a continuous sensor each.
TwoSensors == <<[module |-> 0, local |-> 1, oneShot |-> FALSE],
                [module |-> 1, local |-> 1, oneShot |-> FALSE]>>

\* One sub-HAL with a continuous sensor and a one-shot sensor.
OneHalKinds == <<[module |-> 0, local |-> 1, oneShot |-> FALSE],
                 [module |-> 0, local |-> 3, oneShot |-> TRUE]>>

Plain == {[meta |-> FALSE, local |-> 1]}

\* Local handle 9 is registered nowhere.
AllKinds == [meta : BOOLEAN, local : {1, 9}] \cup {[meta |-> FALSE, local |-> 3]}

\* The same without meta-data events of an unregistered sensor.
KnownKinds == {[meta |-> FALSE, local |-> 1], [meta |-> FALSE, local |-> 9],
               [meta |-> FALSE, local |-> 3], [meta |-> TRUE, local |-> 1]}
=============================================================================

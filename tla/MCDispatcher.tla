---------------------------- MODULE MCDispatcher ----------------------------
(* Two concurrent events, two instance ids and one instance, and a        *)
(* strategy table with an ANY strategy and a typed one, so that one event *)
(* can fan out to two handlers while the other fans out to one, and the   *)
(* registry can gain, start, stop and lose the instance in between.     *)
EXTENDS Dispatcher

MCStrategies ==
    { [evt |-> "ANY", id |-> "id1", hdl |-> "start"],
      [evt |-> "T1",  id |-> "id2", hdl |-> "onT1"] }
=============================================================================

------------------------ MODULE MCAdapterPublishers ------------------------
(* A small bus: two motors, one of which is also heard on the gripper      *)
(* channel, a slave whose ID has no cache entry, and a PDO with no index.  *)
(* A second plugin drains the motors' queue.                               *)
EXTENDS AdapterPublishers

MCChannels == <<"Motor", "Gripper">>
MCTypes == {"Unspecified", "RX_CIA402", "RX_GRIPPER"}

Src(c, has, id, t) ==
    [channel |-> c, has_index |-> has, id |-> id, type |-> t]
MCSources ==
    {Src("Motor", TRUE, 0, "RX_CIA402"), Src("Motor", TRUE, 1, "RX_CIA402"),
     Src("Gripper", TRUE, 1, "RX_GRIPPER"), Src("Gripper", TRUE, 2, "RX_GRIPPER"),
     Src("Gripper", FALSE, 0, "RX_GRIPPER")}
MCShared == {"Motor"}
MCMaxPush == [c \in {"Motor", "Gripper"} |-> IF c = "Motor" THEN 4 ELSE 2]

Reg(topic, kind, handles, channels, ids) ==
    [topic |-> topic, kind |-> kind, handles |-> handles,
     channels |-> channels, ids |-> ids]
MCSubscriptions ==
    <<Reg(<<"joint_states">>, "dds", {"RX_CIA402", "RX_GRIPPER"},
          MCChannels, {0, 1}),
      Reg(<<"motors">>, "cdr", {"RX_CIA402"}, <<"Motor">>, {0, 1, 2}),
      Reg(<<"any">>, "protobuf", {}, <<"Gripper">>, {})>>
=============================================================================

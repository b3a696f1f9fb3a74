------------------------------- MODULE MCChat -------------------------------
(* Small instances of Chat: where a behaviour starts and which requests meet. *)
EXTENDS Chat

Scene(setup, menu, limit, n) ==
  [setup |-> setup, menu |-> menu, limit |-> limit, restarts |-> n]

MCScenes ==
  { Scene("empty", {"peer", "request"}, 2, 0),
    Scene("empty", {"order", "send"}, 2, 0),
    Scene("empty", {"broadcast", "peer"}, 2, 0),
    Scene("empty", {"group", "block"}, 2, 0),
    Scene("single", {"block", "send"}, 3, 0),
    Scene("single", {"block", "connect"}, 3, 0),
    Scene("single", {"leave", "connect"}, 2, 0),
    Scene("single", {"send", "deleteRoom", "enter"}, 3, 0),
    Scene("single", {"send", "deleteMessage", "open"}, 3, 0),
    Scene("single", {"send", "connect"}, 2, 1),
    Scene("single", {"flags", "clear", "deliver"}, 2, 0),
    Scene("single", {"oneSeenRoom", "timer", "send"}, 2, 0),
    Scene("single", {"marks", "send"}, 2, 0),
    Scene("single", {"react"}, 3, 0),
    Scene("single", {"vote"}, 3, 0),
    Scene("group", {"add", "kick"}, 2, 0),
    Scene("group", {"add", "rename"}, 2, 0),
    Scene("group", {"leave", "role"}, 2, 0),
    Scene("group", {"leave", "kick"}, 2, 0),
    Scene("group", {"deleteGroup", "send"}, 2, 0),
    Scene("group", {"settings", "send"}, 2, 0),
    Scene("group", {"send", "enter"}, 2, 0),
    Scene("broadcast", {"addToBroadcast", "kickFromBroadcast", "rename"}, 2, 0),
    Scene("broadcast", {"send", "deleteRoom"}, 2, 0) }

=============================================================================

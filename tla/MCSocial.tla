------------------------------- MODULE MCSocial -------------------------------
(* Small instances of Social: which requests meet. *)
EXTENDS Social

CONSTANTS u1, u2, u3

Scene(menu, limit, n) == [menu |-> menu, limit |-> limit, restarts |-> n]

MCScenes ==
  { Scene({"community", "addMember", "join", "removeMember"}, 5, 0),
    Scene({"community", "addMember", "status", "removeMember"}, 4, 1),
    Scene({"community", "addMember", "settings", "cImg", "group"}, 3, 0),
    Scene({"channel", "joinChannel", "deleteChannel"}, 4, 1),
    Scene({"channel", "broadcast", "deleteChannel", "listen"}, 3, 0),
    Scene({"channel", "editChannel", "channelImage", "deleteChannel"}, 3, 0),
    Scene({"story", "ban"}, 3, 1),
    Scene({"story", "memory", "removeStory"}, 3, 0),
    Scene({"story", "react", "reply", "removeStory", "view"}, 3, 0),
    Scene({"post", "edit", "hide", "delete", "publish"}, 4, 0),
    Scene({"post", "renew", "open", "edit"}, 4, 0),
    Scene({"post", "engage", "likeListing", "report", "save"}, 3, 0),
    Scene({"profile", "approve", "review"}, 4, 1),
    Scene({"apply", "open"}, 3, 0),
    Scene({"upload", "deleteFile", "deleteMessage"}, 3, 1),
    Scene({"upload", "forward", "deleteFile", "cleanup"}, 3, 0),
    Scene({"attach", "forward", "cleanup"}, 3, 0) }
=============================================================================

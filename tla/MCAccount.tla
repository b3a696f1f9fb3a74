------------------------------ MODULE MCAccount ------------------------------
(* Small instances of Account: where a behaviour starts and which requests meet. *)
EXTENDS Account

CONSTANTS u1, u2

Scene(members, menu, limit, n) ==
  [members |-> members, menu |-> menu, limit |-> limit, restarts |-> n]

MCScenes ==
  { Scene({}, {"otpRegister", "verifyOtp", "register"}, 4, 1),
    Scene({}, {"social", "otpRegister"}, 3, 0),
    Scene({u1}, {"login", "logout", "refresh"}, 3, 0),
    Scene({u1}, {"login", "logoutAll", "push"}, 3, 0),
    Scene({u1}, {"login", "password", "resetLink", "reset"}, 3, 0),
    Scene({u1}, {"resetLink", "adminOtp", "reset"}, 4, 1),
    Scene({u1}, {"twoFactor", "authenticate", "login"}, 4, 0),
    Scene({u1, u2}, {"dropDevice", "login", "refresh"}, 3, 0),
    Scene({u1}, {"deleteAccount", "ban", "login"}, 3, 0),
    Scene({u1}, {"name", "image"}, 2, 1),
    Scene({u1}, {"roles", "ban"}, 2, 0),
    Scene({u1}, {"edit", "push"}, 2, 0) }
=============================================================================

----------------------------- MODULE MCSignIn ------------------------------
(* Five small doors: what each of two requests may be for.                   *)
EXTENDS SignIn, TLC

CONSTANTS r1, r2, u1, u2, a1, a2

Door(first, second) ==
  [usernames |-> {u1}, addresses |-> {a1}, passwords |-> {1},
   kinds |-> (r1 :> first) @@ (r2 :> second),
   slots |-> 1, freeFailures |-> 9, begun |-> 5, clock |-> 0]

\* Wrong passwords; sessions ended while a password is changed; endings that
\* overlap and may be stored in another order than their moments; members; slots.
Doors ==
  [guarded |-> [Door({"login", "setup"}, {"login"}) EXCEPT
                  !.addresses = {a1, a2}, !.freeFailures = 1, !.begun = 4, !.clock = 3],
   ending  |-> [Door({"setup", "login"}, {"change", "elsewhere"}) EXCEPT
                  !.passwords = {1, 2}, !.freeFailures = 2, !.begun = 4, !.clock = 1],
   overlapping |-> [Door({"setup", "elsewhere"}, {"login", "elsewhere", "change"}) EXCEPT
                  !.begun = 4, !.clock = 2],
   managed |-> [Door({"setup", "create", "role", "remove"},
                     {"setup", "create", "role", "login"}) EXCEPT
                  !.usernames = {u1, u2}, !.begun = 4],
   crowded |-> [Door({"setup", "login", "change"}, {"login", "change", "create"}) EXCEPT
                  !.usernames = {u1, u2}, !.slots = 2, !.begun = 4]]
=============================================================================

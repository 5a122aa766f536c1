--------------------------- MODULE MCActivityCache ---------------------------
(* Two calls of one activity and a call that clears the cache, a place for one
   job at a time, and TTLs of one and of two seconds that the jitter halves or
   lengthens by half, with two ticks in a second. *)
EXTENDS ActivityCache

CONSTANTS a, b, admin

MCUsers == {a, b, admin}
MCAdmins == {admin}
MCTtls == {2, 4}
MCActorGroups == {{a, b, Clock}, {a, b, Closer}, {a, admin, Clock}, {a, admin, Closer}}
=============================================================================

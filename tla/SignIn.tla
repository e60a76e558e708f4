------------------------------- MODULE SignIn -------------------------------
(* The door of an instance (family/): its first setup, its members and their *)
(* roles, signing in past the guard that counts failures, the slots that     *)
(* bound concurrent hashing, and the sessions a password change or a         *)
(* sign-out elsewhere ends. Each request is a process; its steps are what    *)
(* one critical section, statement or transaction of the code does.          *)
(*                                                                           *)
(* A password and its hash are one value. The instance has one space. Times  *)
(* are moments of one clock, which stands still within a moment; the scale   *)
(* of the guard's constants is free (a minute, fifteen minutes in the code). *)
EXTENDS Integers, FiniteSets, FiniteSetsExt

CONSTANTS Requests,     \* requests under way at a time
          FirstLock, MaxLock, Doublings, ForgetAfter, SweepAbove,
          Worlds        \* by name: who comes to the door, and for what

ASSUME SignInAssumption ==
  /\ IsFiniteSet(Requests) /\ Requests # {}
  /\ {FirstLock, MaxLock, ForgetAfter} \subseteq Nat \ {0}
  /\ {Doublings, SweepAbove} \subseteq Nat
  /\ \A w \in DOMAIN Worlds :
       /\ {Worlds[w].slots, Worlds[w].freeFailures} \subseteq Nat \ {0}
       /\ {Worlds[w].begun, Worlds[w].clock} \subseteq Nat

VARIABLES world,     \* the world this is, for good
          now, begun,
          users,     \* username -> [password, role, revoked], of those that exist
          sessions,  \* tokens: [user, at], at the moment the session counts from
          pairs,     \* the guard's table: <<address, username>> -> count
          held,      \* hash slots each request holds
          req,       \* what each request is at
          ended,     \* username -> the moment before which its sessions are over for good
          slipped    \* pair -> failures recorded while its lock was in force

vars == <<world, now, begun, users, sessions, pairs, held, req, ended, slipped>>
guard == <<pairs, slipped>>

Usernames == Worlds[world].usernames    \* names an account can be made under
Addresses == Worlds[world].addresses    \* addresses requests come from
Passwords == Worlds[world].passwords
Kinds     == Worlds[world].kinds        \* Kinds[r]: what request r may be for
Slots     == Worlds[world].slots        \* hashes at a time (hashSlots)
FreeFailures == Worlds[world].freeFailures
MaxBegun  == Worlds[world].begun        \* requests in a behaviour
MaxClock  == Worlds[world].clock

Roles == {"owner", "editor", "viewer", "none"}
NoSession == [user |-> "nobody", at |-> -1]
Done == [at |-> "done", kind |-> "none", addr |-> "nowhere", user |-> "nobody", given |-> 0,
         next |-> 0, read |-> 0, own |-> NoSession, moment |-> 0]
NoCount == [failures |-> 0, lastFailed |-> 0, lockedTill |-> 0]

Init == /\ world \in DOMAIN Worlds
        /\ now = 0 /\ begun = 0
        /\ users = <<>> /\ sessions = {} /\ pairs = <<>>
        /\ held = [r \in Requests |-> 0] /\ req = [r \in Requests |-> Done]
        /\ ended = [u \in Usernames |-> 0]
        /\ slipped = [p \in Addresses \X Usernames |-> 0]

Tick == now < MaxClock /\ now' = now + 1 /\ UNCHANGED <<world, begun, users, sessions, guard, held, req, ended>>

Exists(u) == u \in DOMAIN users
Count(p)  == IF p \in DOMAIN pairs THEN pairs[p] ELSE NoCount
Pair(r)   == <<req[r].addr, req[r].user>>

-----------------------------------------------------------------------------
(* The guard (loginguard.go). *)

(* Wrong: a lock lasts as long as the first one did. *)
LockedForAMinute(p) == Count(p).lockedTill > 0 /\ Count(p).lastFailed + FirstLock > now
(* loginGuard.wait *)
Locked(p) == Count(p).lockedTill > now

(* Wrong: quiet is counted from the last failure alone. *)
QuietSinceFailed(c) == now - c.lastFailed >= ForgetAfter
(* forgotten: quiet long enough since the last failure and since the lock.   *)
Forgotten(c) == now - (IF c.lockedTill > c.lastFailed THEN c.lockedTill ELSE c.lastFailed) >= ForgetAfter

(* The lock a failure brings: none, then doubled up to the longest. *)
LockFor(failures) ==
  LET over == failures - FreeFailures
  IN  IF over < Doublings THEN FirstLock * 2^over ELSE MaxLock
(* loginGuard.failed: the count, begun anew when the old one is forgotten.   *)
Counted(p) ==
  LET c == IF Forgotten(Count(p)) THEN NoCount ELSE Count(p)
      n == c.failures + 1
  IN  [failures |-> n, lastFailed |-> now,
       lockedTill |-> IF n >= FreeFailures THEN now + LockFor(n) ELSE c.lockedTill]
Swept(table) == IF Cardinality(DOMAIN table) > SweepAbove
                THEN [p \in {q \in DOMAIN table : ~Forgotten(table[q])} |-> table[p]]
                ELSE table
Failed(p) ==
  /\ pairs' = Swept([q \in DOMAIN pairs \cup {p} |-> IF q = p THEN Counted(p) ELSE pairs[q]])
  /\ slipped' = [slipped EXCEPT ![p] = IF Count(p).lockedTill > now THEN @ + 1 ELSE 0]
Succeeded(p) == /\ pairs' = [q \in DOMAIN pairs \ {p} |-> pairs[q]]
                /\ slipped' = [slipped EXCEPT ![p] = 0]

-----------------------------------------------------------------------------
(* Sessions (session.go). *)

(* RequireAuth: whom a session speaks for now. *)
Alive(s) == /\ Exists(s.user) /\ users[s.user].role # "none"
            /\ s.at >= users[s.user].revoked
(* An ended session that is presented is destroyed. *)
Present(s) == /\ s \in sessions /\ Exists(s.user) /\ s.at < users[s.user].revoked
              /\ sessions' = sessions \ {s}
              /\ UNCHANGED <<world, now, begun, users, guard, held, req, ended>>

At(r, step)   == req[r].at = step
Go(r, step)   == req' = [req EXCEPT ![r].at = step]
End(r)        == req' = [req EXCEPT ![r] = Done]

(* A request arrives. Setup and sign-in come from anyone; the rest come with *)
(* a session that RequireAuth lets through, those about members with the     *)
(* owner's (the role is read here, once, with the session).                  *)
First(kind) == CASE kind \in {"login", "change"} -> "gate"
                 [] kind = "setup"     -> "count"
                 [] kind = "elsewhere" -> "moment"
                 [] kind = "create"    -> "slot"
                 [] OTHER              -> "target"
Begin(r, kind, addr, u, given, next, own) ==
  /\ At(r, "done") /\ begun < MaxBegun /\ begun' = begun + 1
  /\ kind \in Kinds[r]
  /\ IF kind \in {"login", "setup"} THEN own = NoSession
     ELSE /\ own \in sessions /\ Alive(own)
          /\ kind \in {"create", "role", "remove"} => users[own.user].role = "owner"
          /\ kind \in {"change", "elsewhere"} => u = own.user
  /\ (next = 0) = (kind \notin {"change", "setup", "create"})
  /\ (given = 0) = (kind \notin {"login", "change"})
  /\ req' = [req EXCEPT ![r] = [Done EXCEPT !.at = First(kind), !.kind = kind, !.addr = addr, !.user = u,
                                            !.given = given, !.next = next, !.own = own]]
  /\ UNCHANGED <<world, now, users, sessions, guard, held, ended>>

(* handleLogin, handleChangePassword: the guard is asked first. *)
Gate(r) == /\ At(r, "gate") /\ (IF Locked(Pair(r)) THEN End(r) ELSE Go(r, "read"))
           /\ UNCHANGED <<world, now, begun, users, sessions, guard, held, ended>>
(* UserByUsername, UserByID: the hash is read here and compared later; an    *)
(* unknown name is compared with a hash of nothing.                          *)
ReadUser(r) ==
  /\ At(r, "read")
  /\ req' = [req EXCEPT ![r].at = "slot", ![r].read = IF Exists(req[r].user) THEN users[req[r].user].password ELSE 0]
  /\ UNCHANGED <<world, now, begun, users, sessions, guard, held, ended>>

SlotsTaken == MapThenSumSet(LAMBDA r : held[r], Requests)
(* withHashSlot: a slot is waited for, or the request gives up. *)
TakeSlot(r) == /\ req[r].at \in {"slot", "slot again"} /\ SlotsTaken < Slots
               /\ held' = [held EXCEPT ![r] = @ + 1]
               /\ Go(r, IF At(r, "slot") THEN "hash" ELSE "hash again")
               /\ UNCHANGED <<world, now, begun, users, sessions, guard, ended>>
GiveUp(r) == /\ req[r].at \in {"slot", "slot again"} /\ End(r)
             /\ UNCHANGED <<world, now, begun, users, sessions, guard, held, ended>>
(* Wrong: the slot of the comparison is held until the new hash is made. *)
FreedAtTheEnd(r) == IF req[r].kind = "change" /\ At(r, "hash") THEN held ELSE [held EXCEPT ![r] = 0]
Freed(r) == [held EXCEPT ![r] = @ - 1]
(* What a request does with its slot: passwords compared, or one hashed.     *)
AfterHash(r) ==
  IF req[r].kind \in {"setup", "create"}   THEN "insert"
  ELSE IF At(r, "hash again")              THEN "moment"
  ELSE IF req[r].read # req[r].given       THEN "refused"
  ELSE IF req[r].kind = "change"           THEN "slot again"
  ELSE "member"
Hash(r) == /\ req[r].at \in {"hash", "hash again"}
           /\ held' = Freed(r) /\ Go(r, AfterHash(r))
           /\ UNCHANGED <<world, now, begun, users, sessions, guard, ended>>
(* ErrInvalidCredentials is recorded, and nothing else is. *)
Refused(r) == /\ At(r, "refused") /\ Failed(Pair(r)) /\ End(r)
              /\ UNCHANGED <<world, now, begun, users, sessions, held, ended>>
(* MembershipFor: a user who was removed is refused like anyone. *)
Member(r) ==
  /\ At(r, "member")
  /\ Go(r, IF users[req[r].user].role = "none" THEN "refused" ELSE "succeeded")
  /\ UNCHANGED <<world, now, begun, users, sessions, guard, held, ended>>
Clear(r) == /\ At(r, "succeeded") /\ Succeeded(Pair(r))
            /\ req' = [req EXCEPT ![r].at = "sign in", ![r].moment = IF req[r].kind = "login" THEN now ELSE @]
            /\ UNCHANGED <<world, now, begun, users, sessions, held, ended>>

-----------------------------------------------------------------------------
(* ChangePassword and SignOutElsewhere: the moment is taken, then stored     *)
(* (with the new hash), then the caller's own session is signed in at it.    *)
Moment(r) ==
  /\ At(r, "moment") /\ req' = [req EXCEPT ![r].at = "revoke", ![r].moment = now]
  /\ UNCHANGED <<world, now, begun, users, sessions, guard, held, ended>>
(* Wrong: the password is replaced and the sessions stay. *)
RevokingNothing(u, next, at) == [users EXCEPT ![u].password = IF next = 0 THEN @ ELSE next]
(* SetPassword, RevokeSessions *)
Revoking(u, next, at) == [users EXCEPT ![u].revoked = at, ![u].password = IF next = 0 THEN @ ELSE next]
(* Endings under way, each with its moment: whichever is stored last decides,*)
(* so what is over for good is what came before all of their moments.        *)
Endings(u) == {q \in Requests : At(q, "revoke") /\ req[q].user = u}
Revoke(r) ==
  LET u == req[r].user IN
  /\ At(r, "revoke")
  /\ users' = Revoking(u, req[r].next, req[r].moment)
  /\ ended' = [ended EXCEPT ![u] = Max({@, Min({req[q].moment : q \in Endings(u)})})]
  /\ Go(r, IF req[r].kind = "change" THEN "succeeded" ELSE "sign in")
  /\ UNCHANGED <<world, now, begun, sessions, guard, held>>
SignedInAt(r) == req[r].moment
(* SignInAt: the token is renewed, the session it stood for is gone. *)
SignIn(r) ==
  /\ At(r, "sign in")
  /\ sessions' = (sessions \ {req[r].own}) \cup {[user |-> req[r].user, at |-> SignedInAt(r)]}
  /\ End(r) /\ UNCHANGED <<world, now, begun, users, guard, held, ended>>

-----------------------------------------------------------------------------
(* Setup: the users are counted, the password is hashed, and the first user  *)
(* is created with the space under a lock that decides anew.                 *)
CountUsers(r) ==
  /\ At(r, "count") /\ (IF DOMAIN users # {} THEN End(r) ELSE Go(r, "slot"))
  /\ UNCHANGED <<world, now, begun, users, sessions, guard, held, ended>>
(* Wrong: the count made before the hash decides about the first user. *)
TakenByName(r) == Exists(req[r].user)
(* CreateFirstUserWithSpace, CreateUserInSpace: not when there is a user     *)
(* already, and not under a name that is taken.                              *)
Taken(r) == IF req[r].kind = "setup" THEN DOMAIN users # {} ELSE Exists(req[r].user)
Insert(r, role) ==
  /\ At(r, "insert")
  /\ role \in IF req[r].kind = "setup" THEN {"owner"} ELSE {"editor", "viewer"}
  /\ IF Taken(r) THEN End(r) /\ UNCHANGED users
     ELSE /\ users' = [u \in DOMAIN users \cup {req[r].user} |->
                         IF u = req[r].user THEN [password |-> req[r].next, role |-> role, revoked |-> 0] ELSE users[u]]
          /\ IF req[r].kind = "setup" THEN req' = [req EXCEPT ![r].at = "sign in", ![r].moment = now] ELSE End(r)
  /\ UNCHANGED <<world, now, begun, sessions, guard, held, ended>>

(* UpdateMemberRole, RemoveMember: the member is read, then changed.         *)
Manageable(u) == Exists(u) /\ users[u].role \in {"editor", "viewer"}
Target(r) ==
  /\ At(r, "target") /\ (IF Manageable(req[r].user) THEN Go(r, "manage") ELSE End(r))
  /\ UNCHANGED <<world, now, begun, users, sessions, guard, held, ended>>
Manage(r, role) ==
  /\ At(r, "manage")
  /\ role \in IF req[r].kind = "remove" THEN {"none"} ELSE {"editor", "viewer"}
  /\ users' = IF users[req[r].user].role = "none" THEN users        \* no row: ErrNoRows
              ELSE [users EXCEPT ![req[r].user].role = role]
  /\ End(r) /\ UNCHANGED <<world, now, begun, sessions, guard, held, ended>>

SignOut(s) == /\ s \in sessions /\ Alive(s) /\ sessions' = sessions \ {s}
              /\ UNCHANGED <<world, now, begun, users, guard, held, req, ended>>

Steps(r) == \/ Gate(r) \/ ReadUser(r) \/ Hash(r) \/ Refused(r) \/ Member(r) \/ Clear(r)
            \/ Moment(r) \/ Revoke(r) \/ SignIn(r) \/ CountUsers(r) \/ Target(r)
            \/ \E role \in Roles : Insert(r, role) \/ Manage(r, role)
Begins(r) == \E kind \in Kinds[r], addr \in Addresses, u \in Usernames,
                given, next \in Passwords \cup {0}, own \in sessions \cup {NoSession} :
               Begin(r, kind, addr, u, given, next, own)
Next == \/ Tick
        \/ \E r \in Requests : Begins(r) \/ Steps(r) \/ TakeSlot(r) \/ GiveUp(r)
        \/ \E s \in sessions : Present(s) \/ SignOut(s)

(* A request under way goes on, and the channel that holds the slots serves  *)
(* those who wait for one in turn. Nothing makes a client give up.           *)
Fairness == \A r \in Requests : WF_vars(Steps(r)) /\ SF_vars(TakeSlot(r))
Spec == Init /\ [][Next]_vars /\ Fairness
-----------------------------------------------------------------------------
TypeOK == /\ now \in 0..MaxClock /\ begun \in 0..MaxBegun
          /\ \A u \in DOMAIN users : /\ u \in Usernames /\ users[u].password \in Passwords
                                     /\ users[u].role \in Roles /\ users[u].revoked \in 0..now
          /\ \A s \in sessions : s.user \in Usernames /\ s.at \in 0..now
          /\ DOMAIN pairs \subseteq Addresses \X Usernames
          /\ \A p \in DOMAIN pairs : pairs[p].failures \in 1..MaxBegun /\ pairs[p].lastFailed \in 0..now
          /\ \A r \in Requests : held[r] \in 0..Slots

(* auth.go, Setup and the members: however setups overlap and whatever the   *)
(* owner does with the others, an instance that has users has one owner.     *)
OneOwner == DOMAIN users # {} =>
              \E o \in DOMAIN users : \A u \in DOMAIN users : users[u].role = "owner" <=> u = o

(* loginguard.go: the wait and the record are separate sections, so attempts *)
(* that passed the gate together are all tried; but while a lock is in force *)
(* no more fail than were past the gate when it came.                        *)
FewSlipThrough == \A p \in Addresses \X Usernames : slipped[p] <= Cardinality(Requests) - 1

(* A pair that fails again before its lock has been over for long enough is  *)
(* locked for at least as long as it was, and a lock in force is lifted by a *)
(* success alone: neither a sweep of the table nor a late failure shortens   *)
(* one.                                                                      *)
LocksLengthen ==
  [][\A p \in DOMAIN pairs :
       pairs[p].lockedTill > 0 /\ now - pairs[p].lockedTill < ForgetAfter =>
         \/ p \notin DOMAIN pairs' /\ \E r \in Requests : At(r, "succeeded") /\ Pair(r) = p
         \/ /\ p \in DOMAIN pairs' /\ pairs'[p].lockedTill >= pairs[p].lockedTill
            /\ pairs'[p] # pairs[p] => pairs'[p].lockedTill - now >= pairs[p].lockedTill - pairs[p].lastFailed]_guard

(* session.go, store.go: an ending stores its moment over whatever moment is *)
(* there, so of two that overlap the earlier may stand in the end, and what  *)
(* only the later ended is let through again. But a session signed in before *)
(* the moments of all the endings that were under way when one was stored is *)
(* not let through again, however they are stored.                           *)
EndedStaysEnded == \A s \in sessions : Alive(s) => s.at >= ended[s.user]

(* The caller's own session outlives its own ending of the others, unless an *)
(* ending of a later moment was stored before the caller was signed in.      *)
OwnSurvives == \A r \in Requests : At(r, "sign in") /\ req'[r].at = "done" /\ users[req[r].user].role # "none"
                                   /\ req[r].moment >= users[req[r].user].revoked
                    => \E s \in sessions' : s.user = req[r].user /\ s.at >= users[s.user].revoked

(* A user's sessions that are ended stay ended, by endings that overlap too, *)
(* and the caller of an ending stays signed in.                              *)
SessionsEnd == [][EndedStaysEnded' /\ OwnSurvives]_vars

(* Nobody waits for a hash slot for ever. *)
EveryRequestEnds == \A r \in Requests : ~At(r, "done") ~> At(r, "done")
=============================================================================

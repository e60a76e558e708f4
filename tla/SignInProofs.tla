---------------------------- MODULE SignInProofs ----------------------------
(* For any requests, members and limits of the guard: the state of the door  *)
(* is typed, an instance has one owner, and no more attempts slip through a  *)
(* lock than were past the gate when it came.                                *)
EXTENDS SignIn, FiniteSetTheorems, TLAPS

Places == {"done", "gate", "read", "slot", "hash", "slot again", "hash again", "refused", "member",
           "succeeded", "moment", "revoke", "sign in", "count", "insert", "target", "manage"}
Secrets == Passwords \cup {0}
Session == [user : Usernames, at : Nat]
Account == [password : Passwords, role : Roles, revoked : Nat]
Given == UNION {Kinds[r] : r \in Requests}
Purposes == Given \cup {"none"}
Asked == [at : Places, kind : Purposes, addr : Addresses \cup {"nowhere"},
          user : Usernames \cup {"nobody"}, given : Secrets, next : Secrets, read : Secrets,
          own : Session \cup {NoSession}, moment : Nat]

(* What a request may be for, at each of its steps. *)
Checks == {"login", "change"}
Hashes == {"setup", "create"}
Proper(q) ==
  /\ q.at \in {"gate", "read", "refused", "member", "succeeded"} => q.kind \in Checks
  /\ q.at \in {"slot", "hash"} => q.kind \in Checks \cup Hashes
  /\ q.at \in {"slot again", "hash again"} => q.kind = "change"
  /\ q.at = "insert" => q.kind \in Hashes
  /\ q.at = "count" => q.kind = "setup"
  /\ q.at \in {"target", "manage"} => q.kind \notin Checks \cup Hashes
  /\ q.at \in {"moment", "revoke"} => q.kind \in {"change", "elsewhere"}
  /\ q.at # "done" => q.user \in Usernames /\ q.addr \in Addresses
  /\ q.kind \in Hashes => q.next \in Passwords

Typed ==
  /\ world \in DOMAIN Worlds /\ now \in Nat /\ begun \in Nat
  /\ users \in [DOMAIN users -> Account] /\ DOMAIN users \subseteq Usernames
  /\ sessions \subseteq Session
  /\ req \in [Requests -> Asked] /\ \A r \in Requests : Proper(req[r])

(* Only those who are not the owner are managed, and members are made by     *)
(* someone there is.                                                         *)
Placed ==
  \A r \in Requests :
    /\ req[r].at = "manage" => req[r].user \in DOMAIN users /\ users[req[r].user].role # "owner"
    /\ req[r].kind = "create" => DOMAIN users # {}
Owned == Typed /\ Placed /\ OneOwner

USE SignInAssumption

-----------------------------------------------------------------------------
(* The steps, one by one. *)

LEMMA WorldStays ==
  ASSUME [Next]_vars
  PROVE  /\ world' = world /\ Usernames' = Usernames /\ Addresses' = Addresses /\ Passwords' = Passwords
         /\ Kinds' = Kinds /\ Slots' = Slots /\ FreeFailures' = FreeFailures
<1>1. world' = world
  <2>1. CASE Tick BY <2>1 DEF Tick
  <2>2. ASSUME NEW r \in Requests, Begins(r) \/ TakeSlot(r) \/ GiveUp(r) PROVE world' = world
    BY <2>2, ZenonT(90) DEF Begins, Begin, TakeSlot, GiveUp
  <2>3. ASSUME NEW r \in Requests, Steps(r) PROVE world' = world
    <3>1. CASE Gate(r) \/ ReadUser(r) \/ Hash(r) \/ Refused(r) \/ Member(r) \/ Clear(r)
      BY <3>1 DEF Gate, ReadUser, Hash, Refused, Member, Clear
    <3>2. CASE Moment(r) \/ Revoke(r) \/ SignIn(r) \/ CountUsers(r) \/ Target(r)
      BY <3>2 DEF Moment, Revoke, SignIn, CountUsers, Target
    <3>3. ASSUME NEW role \in Roles, Insert(r, role) \/ Manage(r, role) PROVE world' = world
      BY <3>3 DEF Insert, Manage
    <3> QED BY <2>3, <3>1, <3>2, <3>3 DEF Steps
  <2>4. ASSUME NEW s \in sessions, Present(s) \/ SignOut(s) PROVE world' = world
    BY <2>4 DEF Present, SignOut
  <2>5. CASE UNCHANGED vars BY <2>5 DEF vars
  <2> QED BY <2>1, <2>2, <2>3, <2>4, <2>5 DEF Next
<1> QED BY <1>1 DEF Usernames, Addresses, Passwords, Kinds, Slots, FreeFailures

(* A request that goes on changes its step, and nothing of another's. *)
LEMMA GoesOn ==
  ASSUME Typed, NEW r \in Requests, NEW s \in Places, Go(r, s)
  PROVE  /\ req' \in [Requests -> Asked] /\ \A x \in Requests \ {r} : req'[x] = req[x]
         /\ req'[r] = [req[r] EXCEPT !.at = s]
         /\ req'[r].at = s /\ req'[r].kind = req[r].kind /\ req'[r].user = req[r].user
         /\ req'[r].addr = req[r].addr /\ req'[r].next = req[r].next
BY DEF Typed, Go, Asked

LEMMA Ends ==
  ASSUME Typed, NEW r \in Requests, End(r)
  PROVE  /\ req' \in [Requests -> Asked] /\ \A x \in Requests \ {r} : req'[x] = req[x]
         /\ req'[r] = Done
<1>1. Done \in Asked
  <2>1. "done" \in Places BY DEF Places
  <2>2. "none" \in Purposes BY DEF Purposes
  <2>3. 0 \in Secrets /\ 0 \in Nat BY DEF Secrets
  <2> QED BY <2>1, <2>2, <2>3 DEF Done, Asked
<1> QED BY <1>1 DEF Typed, End

(* Nobody who is there goes, nobody becomes an owner beside the first, and   *)
(* nobody who is not the owner becomes one.                                  *)
Lasting ==
  /\ users' \in [DOMAIN users' -> Account] /\ DOMAIN users \subseteq DOMAIN users'
  /\ DOMAIN users' \subseteq Usernames
  /\ DOMAIN users # {} => \A u \in DOMAIN users : users'[u].role = "owner" <=> users[u].role = "owner"

LEMMA InsertLasts ==
  ASSUME Owned, NEW r \in Requests, NEW role \in Roles, Insert(r, role)
  PROVE  Lasting /\ OneOwner'
<1> DEFINE u == req[r].user
           who == [password |-> req[r].next, role |-> role, revoked |-> 0]
<1>1. /\ req[r].kind \in Hashes /\ u \in Usernames /\ req[r].next \in Passwords
      /\ req[r].kind = "setup" => role = "owner"
      /\ req[r].kind = "create" => role \in {"editor", "viewer"} /\ DOMAIN users # {}
  <2>1. Proper(req[r]) /\ req[r].at = "insert" /\ u \in Usernames BY DEF Owned, Typed, Insert, At, Proper
  <2>2. req[r].kind \in Hashes /\ req[r].next \in Passwords BY <2>1 DEF Proper
  <2>3. req[r].kind = "setup" => role = "owner" BY DEF Insert
  <2>4. req[r].kind # "setup" => role \in {"editor", "viewer"} BY DEF Insert
  <2>5. req[r].kind = "create" => DOMAIN users # {} BY DEF Owned, Placed
  <2> QED BY <2>1, <2>2, <2>3, <2>4, <2>5
<1>2. who \in Account BY <1>1 DEF Account
<1>3. CASE users' = users
  BY <1>3 DEF Owned, Typed, Lasting, OneOwner
<1>4. CASE /\ ~Taken(r)
           /\ users' = [x \in DOMAIN users \cup {u} |-> IF x = u THEN who ELSE users[x]]
  <2> HIDE DEF who
  <2>1. users \in [DOMAIN users -> Account] /\ DOMAIN users \subseteq Usernames BY DEF Owned, Typed
  <2>2. /\ DOMAIN users' = DOMAIN users \cup {u} /\ users' \in [DOMAIN users' -> Account]
        /\ users'[u] = who /\ \A x \in DOMAIN users \ {u} : users'[x] = users[x]
    BY <1>2, <1>4, <2>1
  <2>3. who.role = role BY DEF who
  <2>4. CASE req[r].kind = "setup"
    <3>1. DOMAIN users = {} BY <1>4, <2>4 DEF Taken
    <3> QED BY <1>1, <2>1, <2>2, <2>3, <2>4, <3>1 DEF Lasting, OneOwner
  <2>5. CASE req[r].kind = "create"
    <3>1. u \notin DOMAIN users BY <1>4, <2>5 DEF Taken, Exists
    <3>2. PICK o \in DOMAIN users : \A x \in DOMAIN users : users[x].role = "owner" <=> x = o
      BY <1>1, <2>5 DEF Owned, OneOwner
    <3>3. role # "owner" BY <1>1, <2>5
    <3>4. \A x \in DOMAIN users' : users'[x].role = "owner" <=> x = o
      BY <2>2, <2>3, <3>1, <3>2, <3>3
    <3> QED BY <1>1, <2>1, <2>2, <3>1, <3>2, <3>4 DEF Lasting, OneOwner
  <2> QED BY <1>1, <2>4, <2>5 DEF Hashes
<1> QED BY <1>3, <1>4 DEF Insert

LEMMA ManageLasts ==
  ASSUME Owned, NEW r \in Requests, NEW role \in Roles, Manage(r, role)
  PROVE  Lasting /\ OneOwner'
<1> DEFINE u == req[r].user
<1>1. u \in DOMAIN users /\ users[u].role # "owner" /\ role # "owner"
  <2>1. req[r].at = "manage" BY DEF Manage, At
  <2>2. u \in DOMAIN users /\ users[u].role # "owner" BY <2>1 DEF Owned, Placed
  <2>3. role # "owner"
    <3>1. CASE req[r].kind = "remove" BY <3>1 DEF Manage
    <3>2. CASE req[r].kind # "remove" BY <3>2 DEF Manage
    <3> QED BY <3>1, <3>2
  <2> QED BY <2>2, <2>3
<1>2. users \in [DOMAIN users -> Account] BY DEF Owned, Typed
<1>3. \/ users' = users
      \/ users' = [users EXCEPT ![u].role = role]
  BY DEF Manage
<1>4. /\ users' \in [DOMAIN users -> Account]
      /\ \A x \in DOMAIN users : users'[x].role = "owner" <=> users[x].role = "owner"
  BY <1>1, <1>2, <1>3 DEF Account
<1> QED BY <1>4 DEF Owned, Typed, Lasting, OneOwner

LEMMA RevokeLasts ==
  ASSUME Owned, NEW r \in Requests, Revoke(r)
  PROVE  Lasting /\ OneOwner'
<1> DEFINE u == req[r].user
           n == req[r].next
           at == req[r].moment
<1>1. at \in Nat /\ n \in Passwords \cup {0} BY DEF Owned, Typed, Asked, Secrets
<1>2. users \in [DOMAIN users -> Account] BY DEF Owned, Typed
<1>3. users' = [users EXCEPT ![u].revoked = at, ![u].password = IF n = 0 THEN @ ELSE n]
  BY DEF Revoke, Revoking
<1> HIDE DEF u, n, at
<1>4. /\ users' \in [DOMAIN users -> Account]
      /\ \A x \in DOMAIN users : users'[x].role = users[x].role
  BY <1>1, <1>2, <1>3 DEF Account
<1> QED BY <1>4 DEF Owned, Typed, Lasting, OneOwner

-----------------------------------------------------------------------------
(* The invariant, step by step. *)

(* A request at its step, among the users there are. *)
Fine(q) ==
  /\ Proper(q)
  /\ q.at = "manage" => q.user \in DOMAIN users /\ users[q.user].role # "owner"
  /\ q.kind = "create" => DOMAIN users # {}

LEMMA Stays ==
  ASSUME Owned, [Next]_vars, Lasting, OneOwner', now' \in Nat, begun' \in Nat,
         sessions' \subseteq Session, req' \in [Requests -> Asked],
         \A r \in Requests : req'[r] = req[r] \/ Fine(req'[r])
  PROVE  Owned'
<1>1. /\ world' = world /\ Usernames' = Usernames /\ Addresses' = Addresses
      /\ Passwords' = Passwords /\ Kinds' = Kinds
  BY WorldStays
<1>2. Session' = Session /\ Account' = Account /\ Secrets' = Secrets BY <1>1 DEF Session, Account, Secrets
<1>3. Asked' = Asked BY <1>1, <1>2 DEF Asked, Purposes, Given
<1>4. \A r \in Requests : Fine(req'[r]) BY DEF Owned, Typed, Placed, Fine
<1>5. \A r \in Requests : Proper(req[r])' BY <1>1, <1>4 DEF Fine, Proper
<1>6. Typed' BY <1>1, <1>2, <1>3, <1>5 DEF Owned, Typed, Lasting
<1>7. Placed'
  <2> SUFFICES ASSUME NEW r \in Requests
      PROVE  /\ req'[r].at = "manage" => req'[r].user \in DOMAIN users' /\ users'[req'[r].user].role # "owner"
             /\ req'[r].kind = "create" => DOMAIN users' # {}
    BY DEF Placed
  <2> QED BY <1>4 DEF Fine, Lasting
<1> QED BY <1>6, <1>7 DEF Owned

LEMMA Same == ASSUME Owned, users' = users PROVE Lasting /\ OneOwner'
BY DEF Owned, Typed, Lasting, OneOwner

LEMMA RequestMoves ==
  ASSUME Owned, NEW r \in Requests
  PROVE  /\ Proper(req[r]) /\ req[r] \in Asked /\ Fine(Done)
         /\ req[r].kind = "create" => DOMAIN users # {}
<1>1. Proper(Done) BY DEF Done, Proper, Hashes
<1> QED BY <1>1 DEF Owned, Typed, Placed, Fine, Done

(* One that goes on to a step its purpose allows. *)
LEMMA GoesOnFine ==
  ASSUME Owned, NEW r \in Requests, NEW s \in Places \ {"manage"}, Go(r, s), req[r].at # "done",
         s \in {"gate", "read", "refused", "member", "succeeded"} => req[r].kind \in Checks,
         s \in {"slot", "hash"} => req[r].kind \in Checks \cup Hashes,
         s \in {"slot again", "hash again"} => req[r].kind = "change",
         s = "insert" => req[r].kind \in Hashes, s \notin {"count", "target"},
         s \in {"moment", "revoke"} => req[r].kind \in {"change", "elsewhere"}
  PROVE  req' \in [Requests -> Asked] /\ \A x \in Requests : req'[x] = req[x] \/ Fine(req'[x])
<1>1. Typed BY DEF Owned
<1>2. /\ req' \in [Requests -> Asked] /\ \A x \in Requests \ {r} : req'[x] = req[x]
      /\ req'[r].at = s /\ req'[r].kind = req[r].kind /\ req'[r].user = req[r].user
      /\ req'[r].addr = req[r].addr /\ req'[r].next = req[r].next
  BY <1>1, GoesOn
<1>3. Proper(req[r]) /\ (req[r].kind = "create" => DOMAIN users # {}) BY RequestMoves
<1>4. Proper(req'[r]) BY <1>2, <1>3 DEF Proper
<1> QED BY <1>2, <1>3, <1>4 DEF Fine

LEMMA EndsFine ==
  ASSUME Owned, NEW r \in Requests, End(r)
  PROVE  req' \in [Requests -> Asked] /\ \A x \in Requests : req'[x] = req[x] \/ Fine(req'[x])
BY Ends, RequestMoves DEF Owned

LEMMA BeginsOwned == ASSUME Owned, [Next]_vars, NEW r \in Requests, Begins(r) PROVE Owned'
<1>1. PICK kind \in Kinds[r], addr \in Addresses, u \in Usernames, given \in Secrets, next \in Secrets,
           own \in sessions \cup {NoSession} : Begin(r, kind, addr, u, given, next, own)
  BY DEF Begins, Secrets
<1> DEFINE q == [Done EXCEPT !.at = First(kind), !.kind = kind, !.addr = addr, !.user = u,
                             !.given = given, !.next = next, !.own = own]
<1>2. First(kind) \in Places /\ First(kind) \notin {"done", "manage", "insert", "refused", "read"}
  BY DEF First, Places
<1>3. kind \in Purposes BY DEF Purposes, Given
<1>4. own \in Session \cup {NoSession} BY DEF Owned, Typed
<1>5. /\ q \in Asked /\ q.at = First(kind) /\ q.kind = kind /\ q.addr = addr /\ q.user = u
      /\ q.next = next
  <2> HIDE DEF Secrets, Purposes, Places, Session, NoSession, First
  <2>1. 0 \in Secrets /\ 0 \in Nat BY DEF Secrets
  <2> QED BY <1>2, <1>3, <1>4, <2>1 DEF Done, Asked
<1>6. next \notin {0} <=> kind \in {"change", "setup", "create"}
  BY <1>1 DEF Begin
<1>7. Proper(q)
  <2> HIDE DEF q
  <2>1. kind \in Hashes => next \in Passwords BY <1>6 DEF Hashes, Secrets
  <2>2. /\ First(kind) = "gate" => kind \in Checks
        /\ First(kind) = "slot" => kind \in Hashes
        /\ First(kind) = "count" => kind = "setup"
        /\ First(kind) = "target" => kind \notin Checks \cup Hashes
        /\ First(kind) = "moment" => kind \in {"change", "elsewhere"}
        /\ First(kind) \in {"gate", "slot", "count", "target", "moment"}
    BY DEF First, Checks, Hashes
  <2> QED BY <1>5, <2>1, <2>2 DEF Proper
<1>8. kind = "create" => DOMAIN users # {}
  BY <1>1 DEF Begin, Alive, Exists
<1>9. Fine(q)
  <2> HIDE DEF q
  <2> QED BY <1>2, <1>5, <1>7, <1>8 DEF Fine
<1>10. req' \in [Requests -> Asked] /\ \A x \in Requests : req'[x] = req[x] \/ Fine(req'[x])
  <2> HIDE DEF q
  <2>1. req \in [Requests -> Asked] BY DEF Owned, Typed
  <2>2. req' = [req EXCEPT ![r] = q] BY <1>1 DEF Begin, q
  <2> QED BY <1>5, <1>9, <2>1, <2>2
<1>11. users' = users /\ sessions' = sessions /\ now' = now /\ begun' = begun + 1
  BY <1>1 DEF Begin
<1>12. now' \in Nat /\ begun' \in Nat /\ sessions' \subseteq Session BY <1>11 DEF Owned, Typed
<1> QED BY <1>10, <1>11, <1>12, Same, Stays

(* The steps that leave the users as they are. *)
LEMMA ChecksOwned ==
  ASSUME Owned, [Next]_vars, NEW r \in Requests,
         Gate(r) \/ ReadUser(r) \/ TakeSlot(r) \/ GiveUp(r) \/ Hash(r) \/ Refused(r) \/ Member(r)
  PROVE  Owned'
<1>1. users' = users /\ sessions' = sessions /\ now' = now /\ begun' = begun
  BY DEF Gate, ReadUser, TakeSlot, GiveUp, Hash, Refused, Member
<1>2. now' \in Nat /\ begun' \in Nat /\ sessions' \subseteq Session BY <1>1 DEF Owned, Typed
<1>3. Proper(req[r]) /\ req[r] \in Asked BY RequestMoves
<1> DEFINE Goal == req' \in [Requests -> Asked] /\ \A x \in Requests : req'[x] = req[x] \/ Fine(req'[x])
<1> SUFFICES Goal BY <1>1, <1>2, Same, Stays
<1>4. CASE End(r) BY <1>4, EndsFine
<1>5. CASE Gate(r)
  <2>1. CASE Go(r, "read")
    <3>1. req[r].at = "gate" BY <1>5 DEF Gate, At
    <3>2. req[r].kind \in Checks BY <1>3, <3>1 DEF Proper
    <3>3. "read" \in Places \ {"manage"} BY DEF Places
    <3>4. Goal BY <2>1, <3>1, <3>2, <3>3, GoesOnFine
    <3> QED BY <3>4
  <2> QED BY <1>4, <1>5, <2>1 DEF Gate
<1>6. CASE ReadUser(r)
  <2> DEFINE n == IF Exists(req[r].user) THEN users[req[r].user].password ELSE 0
  <2>1. n \in Secrets
    <3>1. CASE Exists(req[r].user)
      <4>1. users \in [DOMAIN users -> Account] BY DEF Owned, Typed
      <4>2. users[req[r].user] \in Account BY <3>1, <4>1 DEF Exists
      <4> QED BY <3>1, <4>2 DEF Account, Secrets
    <3>2. CASE ~Exists(req[r].user) BY <3>2 DEF Secrets
    <3> QED BY <3>1, <3>2
  <2>2. req[r].at = "read" BY <1>6 DEF ReadUser, At
  <2>3. req[r].kind \in Checks BY <1>3, <2>2 DEF Proper
  <2>4. req \in [Requests -> Asked] BY DEF Owned, Typed
  <2>5. req' = [req EXCEPT ![r].at = "slot", ![r].read = n] BY <1>6 DEF ReadUser
  <2>6. "slot" \in Places BY DEF Places
  <2> HIDE DEF n
  <2>7. /\ req' \in [Requests -> Asked] /\ \A x \in Requests \ {r} : req'[x] = req[x]
        /\ req'[r].at = "slot" /\ req'[r].kind = req[r].kind /\ req'[r].user = req[r].user
        /\ req'[r].addr = req[r].addr /\ req'[r].next = req[r].next
    BY <2>1, <2>4, <2>5, <2>6, ZenonT(90) DEF Asked
  <2>8. Proper(req'[r]) BY <1>3, <2>2, <2>3, <2>7 DEF Proper
  <2>9. req'[r].kind # "create" BY <2>3, <2>7 DEF Checks
  <2>10. Fine(req'[r]) BY <2>7, <2>8, <2>9 DEF Fine
  <2> QED BY <2>7, <2>10
<1>7. CASE TakeSlot(r)
  <2>1. req[r].at \in {"slot", "slot again"} /\ Go(r, IF req[r].at = "slot" THEN "hash" ELSE "hash again")
    BY <1>7 DEF TakeSlot, At
  <2>2. {"hash", "hash again"} \subseteq Places \ {"manage"} BY DEF Places
  <2>3. CASE req[r].at = "slot"
    <3>1. req[r].kind \in Checks \cup Hashes BY <1>3, <2>3 DEF Proper
    <3>2. Goal BY <2>1, <2>2, <2>3, <3>1, GoesOnFine
    <3> QED BY <3>2
  <2>4. CASE req[r].at = "slot again"
    <3>1. req[r].kind = "change" BY <1>3, <2>4 DEF Proper
    <3>2. Goal BY <2>1, <2>2, <2>4, <3>1, GoesOnFine
    <3> QED BY <3>2
  <2> QED BY <2>1, <2>3, <2>4
<1>8. CASE Hash(r)
  <2> DEFINE s == AfterHash(r)
  <2>1. req[r].at \in {"hash", "hash again"} /\ Go(r, s) BY <1>8 DEF Hash
  <2>2. /\ req[r].at = "hash" => req[r].kind \in Checks \cup Hashes
        /\ req[r].at = "hash again" => req[r].kind = "change"
    BY <1>3 DEF Proper
  <2>3. /\ s \in {"insert", "moment", "refused", "slot again", "member"}
        /\ s = "insert" => req[r].kind \in Hashes
        /\ s = "moment" => req[r].kind = "change"
        /\ s = "slot again" => req[r].kind = "change"
        /\ s \in {"refused", "member"} => req[r].kind \in Checks
    <3>1. CASE req[r].at = "hash"
      <4>1. CASE req[r].kind \in Hashes 
        <5>1. req[r].kind \in {"setup", "create"} BY <4>1 DEF Hashes
        <5>2. s = "insert" BY <5>1 DEF AfterHash
        <5> QED BY <4>1, <5>2
      <4>2. CASE req[r].kind \in Checks
        <5>1. req[r].kind \notin {"setup", "create"} BY <4>2 DEF Checks
        <5>2. s \in {"refused", "slot again", "member"} /\ (s = "slot again" => req[r].kind = "change")
          BY <3>1, <5>1 DEF AfterHash, At
        <5> QED BY <4>2, <5>2
      <4> QED BY <2>2, <3>1, <4>1, <4>2
    <3>2. CASE req[r].at = "hash again" BY <2>1, <2>2, <3>2 DEF AfterHash, At, Checks, Hashes
    <3> QED BY <2>1, <3>1, <3>2
  <2>4. s \in Places \ {"manage"} BY <2>3 DEF Places
  <2> HIDE DEF s
  <2>5. Goal BY <2>1, <2>3, <2>4, GoesOnFine
  <2> QED BY <2>5
<1>9. CASE Member(r)
  <2> DEFINE s == IF users[req[r].user].role = "none" THEN "refused" ELSE "succeeded"
  <2>1. req[r].at = "member" /\ Go(r, s) BY <1>9 DEF Member, At
  <2>2. req[r].kind \in Checks BY <1>3, <2>1 DEF Proper
  <2>3. s \in {"refused", "succeeded"} /\ s \in Places \ {"manage"} BY DEF Places
  <2> HIDE DEF s
  <2>4. Goal BY <2>1, <2>2, <2>3, GoesOnFine
  <2> QED BY <2>4
<1> QED BY <1>4, <1>5, <1>6, <1>7, <1>8, <1>9 DEF GiveUp, Refused

(* Setting the moment and a step. *)
LEMMA AtMoment ==
  ASSUME Owned, NEW r \in Requests, NEW s \in {"sign in", "revoke"}, NEW m \in Nat, req[r].at # "done",
         req' = [req EXCEPT ![r].at = s, ![r].moment = m],
         s = "revoke" => req[r].kind \in {"change", "elsewhere"}
  PROVE  req' \in [Requests -> Asked] /\ \A x \in Requests : req'[x] = req[x] \/ Fine(req'[x])
<1>1. req \in [Requests -> Asked] BY DEF Owned, Typed
<1>2. s \in Places BY DEF Places
<1>3. /\ req' \in [Requests -> Asked] /\ \A x \in Requests \ {r} : req'[x] = req[x]
      /\ req'[r].at = s /\ req'[r].kind = req[r].kind /\ req'[r].user = req[r].user
      /\ req'[r].addr = req[r].addr /\ req'[r].next = req[r].next
  BY <1>1, <1>2, ZenonT(90) DEF Asked
<1>4. Proper(req[r]) /\ (req[r].kind = "create" => DOMAIN users # {}) BY RequestMoves
<1>5. Proper(req'[r]) BY <1>3, <1>4 DEF Proper
<1> QED BY <1>3, <1>4, <1>5 DEF Fine

LEMMA MomentsOwned ==
  ASSUME Owned, [Next]_vars, NEW r \in Requests, Clear(r) \/ Moment(r) \/ Revoke(r)
  PROVE  Owned'
<1>1. sessions' = sessions /\ now' = now /\ begun' = begun BY DEF Clear, Moment, Revoke
<1>2. now' \in Nat /\ begun' \in Nat /\ sessions' \subseteq Session BY <1>1 DEF Owned, Typed
<1>3. Proper(req[r]) BY RequestMoves
<1>4. req[r].moment \in Nat /\ now \in Nat BY DEF Owned, Typed, Asked
<1>5. CASE Clear(r) \/ Moment(r)
  <2>1. PICK s \in {"sign in", "revoke"}, m \in Nat :
          /\ req[r].at # "done" /\ req' = [req EXCEPT ![r].at = s, ![r].moment = m]
          /\ s = "revoke" => req[r].at = "moment"
    <3>1. CASE Clear(r)
      <4>1. CASE req[r].kind = "login" BY <1>4, <3>1, <4>1 DEF Clear, At
      <4>2. CASE req[r].kind # "login" BY <1>4, <3>1, <4>2 DEF Clear, At
      <4> QED BY <4>1, <4>2
    <3>2. CASE Moment(r) BY <1>4, <3>2 DEF Moment, At
    <3> QED BY <1>5, <3>1, <3>2
  <2>2. s = "revoke" => req[r].kind \in {"change", "elsewhere"} BY <1>3, <2>1 DEF Proper
  <2>3. req' \in [Requests -> Asked] /\ \A x \in Requests : req'[x] = req[x] \/ Fine(req'[x])
    BY <2>1, <2>2, AtMoment
  <2>4. users' = users BY <1>5 DEF Clear, Moment
  <2> QED BY <1>2, <2>3, <2>4, Same, Stays
<1>6. CASE Revoke(r)
  <2> DEFINE s == IF req[r].kind = "change" THEN "succeeded" ELSE "sign in"
  <2>1. req[r].at = "revoke" /\ Go(r, s) BY <1>6 DEF Revoke, At
  <2>2. s \in Places \ {"manage"} /\ s \in {"succeeded", "sign in"}
        /\ (s = "succeeded" => req[r].kind \in Checks)
    BY DEF Places, Checks
  <2> HIDE DEF s
  <2>3. req' \in [Requests -> Asked] /\ \A x \in Requests : req'[x] = req[x] \/ Fine(req'[x])
    BY <2>1, <2>2, GoesOnFine
  <2> QED BY <1>2, <1>6, <2>3, RevokeLasts, Stays
<1> QED BY <1>5, <1>6

LEMMA SignInOwned == ASSUME Owned, [Next]_vars, NEW r \in Requests, SignIn(r) PROVE Owned'
<1>1. Proper(req[r]) /\ req[r] \in Asked BY RequestMoves
<1>2. req[r].at = "sign in" BY DEF SignIn, At
<1>3. req[r].user \in Usernames /\ req[r].moment \in Nat BY <1>1, <1>2 DEF Proper, Asked
<1>4. [user |-> req[r].user, at |-> req[r].moment] \in Session BY <1>3 DEF Session
<1>5. sessions' \subseteq Session BY <1>4 DEF SignIn, SignedInAt, Owned, Typed
<1>6. users' = users /\ now' = now /\ begun' = begun /\ End(r) BY DEF SignIn
<1>7. now' \in Nat /\ begun' \in Nat BY <1>6 DEF Owned, Typed
<1> QED BY <1>5, <1>6, <1>7, EndsFine, Same, Stays

LEMMA CountsOwned ==
  ASSUME Owned, [Next]_vars, NEW r \in Requests, CountUsers(r) \/ Target(r) PROVE Owned'
<1>1. users' = users /\ sessions' = sessions /\ now' = now /\ begun' = begun BY DEF CountUsers, Target
<1>2. now' \in Nat /\ begun' \in Nat /\ sessions' \subseteq Session BY <1>1 DEF Owned, Typed
<1> DEFINE Goal == req' \in [Requests -> Asked] /\ \A x \in Requests : req'[x] = req[x] \/ Fine(req'[x])
<1> SUFFICES Goal BY <1>1, <1>2, Same, Stays
<1>3. Proper(req[r]) BY RequestMoves
<1>4. CASE End(r) BY <1>4, EndsFine
<1>5. CASE CountUsers(r) /\ Go(r, "slot")
  <2>1. req[r].at = "count" BY <1>5 DEF CountUsers, At
  <2>2. req[r].kind \in Hashes BY <1>3, <2>1 DEF Proper, Hashes
  <2>3. "slot" \in Places \ {"manage"} BY DEF Places
  <2> QED BY <1>5, <2>1, <2>2, <2>3, GoesOnFine
<1>6. CASE Target(r) /\ Go(r, "manage") /\ Manageable(req[r].user)
  <2>1. req[r].at = "target" BY <1>6 DEF Target, At
  <2>2. "manage" \in Places BY DEF Places
  <2>3. /\ req' \in [Requests -> Asked] /\ \A x \in Requests \ {r} : req'[x] = req[x]
        /\ req'[r].at = "manage" /\ req'[r].kind = req[r].kind /\ req'[r].user = req[r].user
        /\ req'[r].addr = req[r].addr /\ req'[r].next = req[r].next
    BY <1>6, <2>2, GoesOn DEF Owned
  <2>4. Proper(req'[r]) /\ req'[r].kind \notin Hashes BY <1>3, <2>1, <2>3 DEF Proper
  <2>5. req'[r].kind # "create" BY <2>4 DEF Hashes
  <2>6. req[r].user \in DOMAIN users /\ users[req[r].user].role # "owner"
    BY <1>6 DEF Manageable, Exists
  <2> QED BY <2>3, <2>4, <2>5, <2>6 DEF Fine
<1> QED BY <1>4, <1>5, <1>6 DEF CountUsers, Target

LEMMA MembersOwned ==
  ASSUME Owned, [Next]_vars, NEW r \in Requests, NEW role \in Roles, Insert(r, role) \/ Manage(r, role)
  PROVE  Owned'
<1>1. sessions' = sessions /\ now' = now /\ begun' = begun BY DEF Insert, Manage
<1>2. now' \in Nat /\ begun' \in Nat /\ sessions' \subseteq Session BY <1>1 DEF Owned, Typed
<1>3. Lasting /\ OneOwner' BY InsertLasts, ManageLasts
<1>4. CASE End(r) BY <1>2, <1>3, <1>4, EndsFine, Stays
<1>5. CASE Insert(r, role) /\ req' = [req EXCEPT ![r].at = "sign in", ![r].moment = now]
  <2>1. req[r].at # "done" BY <1>5 DEF Insert, At
  <2>2. now \in Nat BY DEF Owned, Typed
  <2>3. req' \in [Requests -> Asked] /\ \A x \in Requests : req'[x] = req[x] \/ Fine(req'[x])
    BY <1>5, <2>1, <2>2, AtMoment
  <2> QED BY <1>2, <1>3, <2>3, Stays
<1> QED BY <1>4, <1>5 DEF Insert, Manage

LEMMA OthersOwned ==
  ASSUME Owned, [Next]_vars,
         Tick \/ (\E s \in sessions : Present(s) \/ SignOut(s)) \/ UNCHANGED vars
  PROVE  Owned'
<1>1. users' = users /\ req' = req /\ begun' = begun /\ sessions' \subseteq sessions
  BY DEF Tick, Present, SignOut, vars
<1>2. now' = now \/ now' = now + 1 BY DEF Tick, Present, SignOut, vars
<1>3. now' \in Nat /\ begun' \in Nat /\ sessions' \subseteq Session BY <1>1, <1>2 DEF Owned, Typed
<1>4. req' \in [Requests -> Asked] /\ \A x \in Requests : req'[x] = req[x] BY <1>1 DEF Owned, Typed
<1> QED BY <1>1, <1>3, <1>4, Same, Stays

LEMMA StepOwned == ASSUME Owned, [Next]_vars PROVE Owned'
<1>1. ASSUME NEW r \in Requests, Steps(r) PROVE Owned'
  BY <1>1, ChecksOwned, MomentsOwned, SignInOwned, CountsOwned, MembersOwned DEF Steps
<1>2. ASSUME NEW r \in Requests, Begins(r) \/ TakeSlot(r) \/ GiveUp(r) PROVE Owned'
  BY <1>2, BeginsOwned, ChecksOwned
<1> QED BY <1>1, <1>2, OthersOwned DEF Next

LEMMA InitOwned == Init => Owned
<1> SUFFICES ASSUME Init PROVE Owned OBVIOUS
<1>1. world \in DOMAIN Worlds /\ now = 0 /\ begun = 0 /\ users = <<>> /\ sessions = {}
      /\ req = [r \in Requests |-> Done]
  BY DEF Init
<1>2. DOMAIN users = {} BY <1>1
<1>3. users \in [DOMAIN users -> Account] BY <1>1, <1>2
<1>4. Done \in Asked /\ Proper(Done) /\ Done.at = "done" /\ Done.kind = "none"
  <2>1. "done" \in Places BY DEF Places
  <2>2. "none" \in Purposes BY DEF Purposes
  <2>3. 0 \in Secrets /\ 0 \in Nat BY DEF Secrets
  <2> QED BY <2>1, <2>2, <2>3 DEF Done, Asked, Proper, Hashes
<1>5. req \in [Requests -> Asked] /\ \A r \in Requests : req[r] = Done BY <1>1, <1>4
<1>6. Typed BY <1>1, <1>2, <1>3, <1>4, <1>5 DEF Typed
<1>7. Placed BY <1>4, <1>5 DEF Placed
<1>8. OneOwner BY <1>2 DEF OneOwner
<1> QED BY <1>6, <1>7, <1>8 DEF Owned

(* auth.go, Setup and the members: however setups overlap and whatever the   *)
(* owner does with the others, an instance that has users has one owner.     *)
THEOREM OwnerIsOne == Spec => []OneOwner
<1>1. Owned /\ [Next]_vars => Owned' BY StepOwned
<1>2. Owned => OneOwner BY DEF Owned
<1> QED BY InitOwned, <1>1, <1>2, PTL DEF Spec

-----------------------------------------------------------------------------
(* The guard. A request at risk has passed the gate and may yet fail. *)
Counts == [failures : Nat, lastFailed : Nat, lockedTill : Int]
Risks == {"read", "slot", "hash", "refused", "member"}
AtRisk(q) == q.at \in Risks /\ q.kind \in Checks
MayFail(p) == {r \in Requests : AtRisk(req[r]) /\ Pair(r) = p}
Others == Cardinality(Requests) - 1

(* While a lock is in force, those that slipped through it and those that    *)
(* still may are no more than were past the gate when it came.               *)
Bounded == \A p \in Addresses \X Usernames :
             slipped[p] <= Others /\ (Locked(p) => slipped[p] + Cardinality(MayFail(p)) <= Others)
Guarded ==
  /\ pairs \in [DOMAIN pairs -> Counts]
  /\ slipped \in [Addresses \X Usernames -> Nat]
  /\ Bounded

LEMMA AreFew ==
  ASSUME NEW S \in SUBSET Requests
  PROVE  /\ Cardinality(S) \in Nat /\ Others \in Nat
         /\ \A T \in SUBSET S : Cardinality(T) \in Nat /\ Cardinality(T) <= Cardinality(S)
         /\ \A r \in Requests : r \notin S => Cardinality(S) <= Others
         /\ \A r \in S : Cardinality(S \ {r}) = Cardinality(S) - 1
<1>1. IsFiniteSet(Requests) /\ IsFiniteSet(S) BY FS_Subset
<1>2. Cardinality(S) \in Nat /\ Cardinality(Requests) \in Nat BY <1>1, FS_CardinalityType
<1>3. \A T \in SUBSET S : Cardinality(T) \in Nat /\ Cardinality(T) <= Cardinality(S)
  BY <1>1, FS_Subset, FS_CardinalityType
<1>4. ASSUME NEW r \in Requests
      PROVE  Cardinality(Requests \ {r}) = Others /\ Others \in Nat /\ (r \notin S => Cardinality(S) <= Others)
  <2>1. IsFiniteSet(Requests \ {r}) /\ Cardinality(Requests \ {r}) = Others
    BY <1>1, FS_RemoveElement DEF Others
  <2>2. Cardinality(Requests \ {r}) \in Nat BY <2>1, FS_CardinalityType
  <2>3. ASSUME r \notin S PROVE Cardinality(S) <= Others
    <3>1. S \in SUBSET (Requests \ {r}) BY <2>3
    <3> QED BY <2>1, <3>1, FS_Subset
  <2> QED BY <2>1, <2>2, <2>3
<1>5. \A r \in S : Cardinality(S \ {r}) = Cardinality(S) - 1 BY <1>1, FS_RemoveElement
<1>6. PICK r \in Requests : TRUE OBVIOUS
<1> QED BY <1>2, <1>3, <1>4, <1>5, <1>6

LEMMA CountIsTyped ==
  ASSUME Guarded, NEW p PROVE Count(p) \in Counts
<1>1. NoCount \in Counts BY DEF NoCount, Counts
<1> QED BY <1>1 DEF Count, Guarded

(* A step of a request that brings none to risk but one past an open gate.   *)
Calm == \A x \in Requests : \/ ~AtRisk(req'[x])
                            \/ AtRisk(req[x]) /\ req'[x].addr = req[x].addr /\ req'[x].user = req[x].user
                            \/ ~Locked(<<req'[x].addr, req'[x].user>>)

LEMMA GuardStays ==
  ASSUME Guarded, Typed, [Next]_vars, UNCHANGED guard, now' \in Nat, now' >= now, Calm
  PROVE  Guarded'
<1>1. Addresses' = Addresses /\ Usernames' = Usernames BY WorldStays
<1>2. pairs' = pairs /\ slipped' = slipped BY DEF guard
<1>3. ASSUME NEW p \in Addresses \X Usernames, Locked(p)'
      PROVE  slipped[p] + Cardinality(MayFail(p)') <= Others
  <2>1. Count(p) \in Counts /\ now \in Nat BY CountIsTyped DEF Typed
  <2>2. Count(p).lockedTill \in Int BY <2>1 DEF Counts
  <2>3. Count(p)' = Count(p) BY <1>2 DEF Count
  <2>4. Locked(p) BY <1>3, <2>1, <2>2, <2>3 DEF Locked
  <2>5. MayFail(p)' \subseteq MayFail(p) BY <2>4 DEF MayFail, Calm, Pair
  <2>6. Cardinality(MayFail(p)') \in Nat /\ Cardinality(MayFail(p)') <= Cardinality(MayFail(p))
        /\ Cardinality(MayFail(p)) \in Nat
    <3>1. MayFail(p) \in SUBSET Requests BY DEF MayFail
    <3> QED BY <2>5, <3>1, AreFew
  <2>7. slipped[p] + Cardinality(MayFail(p)) <= Others /\ slipped[p] \in Nat
    BY <2>4 DEF Guarded, Bounded
  <2>8. Others \in Nat BY AreFew
  <2> QED BY <2>6, <2>7, <2>8
<1>4. Others' = Others BY DEF Others
<1>5. Bounded' BY <1>1, <1>2, <1>3, <1>4 DEF Guarded, Bounded
<1> QED BY <1>1, <1>2, <1>5 DEF Guarded

LEMMA CalmGoing ==
  ASSUME Owned, NEW r \in Requests, NEW s \in Places, Go(r, s),
         s \notin Risks \/ AtRisk(req[r]) \/ req[r].kind \notin Checks \/ ~Locked(Pair(r))
  PROVE  Calm
<1>1. /\ \A x \in Requests \ {r} : req'[x] = req[x]
      /\ req'[r].at = s /\ req'[r].kind = req[r].kind /\ req'[r].user = req[r].user
      /\ req'[r].addr = req[r].addr
  BY GoesOn DEF Owned
<1>2. \A x \in Requests \ {r} :
        ~AtRisk(req'[x]) \/ (AtRisk(req[x]) /\ req'[x].addr = req[x].addr /\ req'[x].user = req[x].user)
  BY <1>1
<1> QED BY <1>1, <1>2 DEF Calm, AtRisk, Pair

LEMMA CalmSame ==
  ASSUME NEW r \in Requests, \A x \in Requests \ {r} : req'[x] = req[x],
         req'[r].at \notin Risks \/ req'[r].kind \notin Checks
  PROVE  Calm
BY DEF Calm, AtRisk

LEMMA CalmEnding == ASSUME Owned, NEW r \in Requests, End(r) PROVE Calm
<1>1. Done.at \notin Risks BY DEF Done, Risks
<1> QED BY <1>1, Ends, CalmSame DEF Owned

LEMMA StepsCalm ==
  ASSUME Owned, NEW r \in Requests,
         \/ Gate(r) \/ ReadUser(r) \/ Hash(r) \/ Member(r) \/ Moment(r) \/ Revoke(r) \/ SignIn(r)
         \/ CountUsers(r) \/ Target(r) \/ TakeSlot(r) \/ GiveUp(r) \/ Begins(r)
         \/ \E role \in Roles : Insert(r, role) \/ Manage(r, role)
  PROVE  Calm
<1>1. Typed /\ Proper(req[r]) /\ req[r] \in Asked BY RequestMoves DEF Owned
<1>2. /\ {"read", "slot", "hash", "refused", "member"} \subseteq Places
      /\ {"succeeded", "sign in", "slot again", "hash again", "insert", "moment", "manage", "revoke"}
           \subseteq Places \ Risks
  BY DEF Places, Risks
<1>3. req \in [Requests -> Asked] BY <1>1 DEF Typed
<1>4. CASE End(r) BY <1>4, CalmEnding
<1>5. CASE Gate(r)
  <2>1. CASE ~Locked(Pair(r)) /\ Go(r, "read") BY <1>2, <2>1, CalmGoing
  <2> QED BY <1>4, <1>5, <2>1 DEF Gate
<1>6. CASE ReadUser(r)
  <2>1. req[r].at = "read" /\ AtRisk(req[r]) BY <1>1, <1>6 DEF ReadUser, At, Proper, AtRisk, Risks
  <2>2. \A x \in Requests \ {r} : req'[x] = req[x] BY <1>3, <1>6 DEF ReadUser
  <2> DEFINE n == IF Exists(req[r].user) THEN users[req[r].user].password ELSE 0
  <2>3. req' = [req EXCEPT ![r].at = "slot", ![r].read = n] BY <1>6 DEF ReadUser
  <2> HIDE DEF n
  <2>4. req'[r].addr = req[r].addr /\ req'[r].user = req[r].user BY <1>3, <2>3 DEF Asked
  <2> QED BY <2>1, <2>2, <2>4 DEF Calm
<1>7. CASE TakeSlot(r)
  <2>1. CASE req[r].at = "slot" /\ Go(r, "hash")
    <3>1. req[r].kind \in Checks => AtRisk(req[r]) BY <2>1 DEF AtRisk, Risks
    <3> QED BY <1>2, <2>1, <3>1, CalmGoing
  <2>2. CASE Go(r, "hash again") BY <1>2, <2>2, CalmGoing
  <2> QED BY <1>7, <2>1, <2>2 DEF TakeSlot, At
<1>8. CASE Hash(r)
  <2>1. CASE req[r].at = "hash"
    <3>1. req[r].kind \in Checks => AtRisk(req[r]) BY <2>1 DEF AtRisk, Risks
    <3>2. AfterHash(r) \in Places BY <1>2 DEF AfterHash
    <3> QED BY <1>8, <3>1, <3>2, CalmGoing DEF Hash
  <2>2. CASE req[r].at = "hash again"
    <3>1. req[r].kind = "change" BY <1>1, <2>2 DEF Proper
    <3>2. AfterHash(r) = "moment" BY <2>2, <3>1 DEF AfterHash, At
    <3> QED BY <1>2, <1>8, <3>2, CalmGoing DEF Hash
  <2> QED BY <1>8, <2>1, <2>2 DEF Hash
<1>9. CASE Member(r)
  <2>1. AtRisk(req[r]) BY <1>1, <1>9 DEF Member, At, Proper, AtRisk, Risks
  <2>2. Go(r, "refused") \/ Go(r, "succeeded") BY <1>9 DEF Member
  <2> QED BY <1>2, <2>1, <2>2, CalmGoing
<1>10. CASE Moment(r)
  <2>1. \A x \in Requests \ {r} : req'[x] = req[x] BY <1>3, <1>10 DEF Moment
  <2>2. req'[r].at = "revoke" BY <1>3, <1>10 DEF Moment, Asked
  <2> QED BY <1>2, <2>1, <2>2, CalmSame
<1>11. CASE Revoke(r)
  <2>1. Go(r, "succeeded") \/ Go(r, "sign in") BY <1>11 DEF Revoke
  <2> QED BY <1>2, <2>1, CalmGoing
<1>12. CASE CountUsers(r)
  <2>1. CASE Go(r, "slot")
    <3>1. req[r].kind \notin Checks BY <1>1, <1>12 DEF CountUsers, At, Proper, Checks
    <3> QED BY <1>2, <2>1, <3>1, CalmGoing
  <2> QED BY <1>4, <1>12, <2>1 DEF CountUsers
<1>13. CASE Target(r)
  <2>1. CASE Go(r, "manage") BY <1>2, <2>1, CalmGoing
  <2> QED BY <1>4, <1>13, <2>1 DEF Target
<1>14. CASE \E role \in Roles : Insert(r, role) \/ Manage(r, role)
  <2>1. CASE req' = [req EXCEPT ![r].at = "sign in", ![r].moment = now]
    <3>1. \A x \in Requests \ {r} : req'[x] = req[x] BY <1>3, <2>1
    <3>2. req'[r].at = "sign in" BY <1>3, <2>1 DEF Asked
    <3> QED BY <1>2, <3>1, <3>2, CalmSame
  <2> QED BY <1>4, <1>14, <2>1 DEF Insert, Manage
<1>15. CASE Begins(r)
  <2>1. PICK kind \in Kinds[r], addr \in Addresses, u \in Usernames, given \in Secrets, next \in Secrets,
             own \in sessions \cup {NoSession} : Begin(r, kind, addr, u, given, next, own)
    BY <1>15 DEF Begins, Secrets
  <2>2. \A x \in Requests \ {r} : req'[x] = req[x] BY <1>3, <2>1 DEF Begin
  <2>3. req'[r].at = First(kind) /\ req'[r].kind = kind BY <1>3, <2>1 DEF Begin, Done
  <2>4. First(kind) \in Risks => kind \notin Checks
    <3>1. kind \in Checks => First(kind) = "gate" BY DEF First, Checks
    <3> QED BY <3>1 DEF Risks
  <2> QED BY <2>2, <2>3, <2>4, CalmSame
<1> QED BY <1>4, <1>5, <1>6, <1>7, <1>8, <1>9, <1>10, <1>11, <1>12, <1>13, <1>14, <1>15 DEF GiveUp, SignIn

LEMMA CountedIsTyped == ASSUME Guarded, Typed, NEW p PROVE Counted(p) \in Counts
<1>1. Count(p) \in Counts /\ NoCount \in Counts BY CountIsTyped DEF NoCount, Counts
<1> DEFINE c == IF Forgotten(Count(p)) THEN NoCount ELSE Count(p)
           n == c.failures + 1
<1>2. c \in Counts BY <1>1
<1>3. n \in Nat /\ c.lockedTill \in Int
  <2> HIDE DEF c
  <2> QED BY <1>2 DEF Counts
<1>4. now \in Nat /\ FreeFailures \in Nat BY DEF Typed, FreeFailures
<1>5. n >= FreeFailures => LockFor(n) \in Int
  <2> HIDE DEF n
  <2> SUFFICES ASSUME n >= FreeFailures PROVE LockFor(n) \in Int OBVIOUS
  <2>1. n - FreeFailures \in Nat BY <1>3, <1>4
  <2>2. 2^(n - FreeFailures) \in Int BY <2>1
  <2> QED BY <2>2 DEF LockFor
<1> HIDE DEF c, n
<1>6. Counted(p) = [failures |-> n, lastFailed |-> now,
                    lockedTill |-> IF n >= FreeFailures THEN now + LockFor(n) ELSE c.lockedTill]
  BY DEF Counted, c, n
<1> QED BY <1>3, <1>4, <1>5, <1>6 DEF Counts

(* A table keeps its counts, but for the pair that failed or succeeded and   *)
(* those a sweep forgot.                                                     *)
LEMMA Sweeping ==
  ASSUME NEW table, table \in [DOMAIN table -> Counts]
  PROVE  /\ DOMAIN Swept(table) \subseteq DOMAIN table /\ Swept(table) \in [DOMAIN Swept(table) -> Counts]
         /\ \A q \in DOMAIN Swept(table) : Swept(table)[q] = table[q]
BY DEF Swept

LEMMA RefusedGuarded ==
  ASSUME Owned, Guarded, [Next]_vars, NEW r \in Requests, Refused(r)
  PROVE  Guarded'
<1>0. PICK p : p = Pair(r) OBVIOUS
<1> DEFINE table == [q \in DOMAIN pairs \cup {p} |-> IF q = p THEN Counted(p) ELSE pairs[q]]
<1>1. Typed /\ Proper(req[r]) BY RequestMoves DEF Owned
<1>2. At(r, "refused") /\ Failed(p) /\ End(r) /\ now' = now /\ world' = world BY <1>0 DEF Refused
<1>3. p \in Addresses \X Usernames BY <1>0, <1>1, <1>2 DEF Proper, At, Pair
<1>4. AtRisk(req[r]) BY <1>1, <1>2 DEF Proper, At, AtRisk, Risks
<1>5. Addresses' = Addresses /\ Usernames' = Usernames /\ Others' = Others BY WorldStays DEF Others
<1>6. Counted(p) \in Counts BY <1>1, CountedIsTyped
<1>7. pairs \in [DOMAIN pairs -> Counts] /\ slipped \in [Addresses \X Usernames -> Nat]
  BY DEF Guarded
<1>8. /\ pairs' = Swept(table)
      /\ slipped' = [slipped EXCEPT ![p] = IF Locked(p) THEN @ + 1 ELSE 0]
  BY <1>2 DEF Failed, Locked
<1>9. table \in [DOMAIN table -> Counts] /\ \A q \in DOMAIN table \ {p} : q \in DOMAIN pairs /\ table[q] = pairs[q]
  <2> QED BY <1>6, <1>7
<1> HIDE DEF table
<1>10. pairs' \in [DOMAIN pairs' -> Counts] /\ \A q \in DOMAIN pairs' : q # p => q \in DOMAIN pairs /\ pairs'[q] = pairs[q]
  BY <1>8, <1>9, Sweeping
<1>11. slipped' \in [Addresses \X Usernames -> Nat]
  <2> QED BY <1>3, <1>7, <1>8
<1>12. Others \in Nat BY AreFew
<1>13. /\ \A q : MayFail(q) \in SUBSET Requests /\ Cardinality(MayFail(q)) \in Nat
       /\ \A q : MayFail(q)' \in SUBSET (MayFail(q) \ {r})
  <2>1. \A q : MayFail(q) \in SUBSET Requests BY DEF MayFail
  <2>2. Done.at \notin Risks BY DEF Done, Risks
  <2>3. req'[r] = Done /\ \A x \in Requests \ {r} : req'[x] = req[x] BY <1>1, <1>2, Ends
  <2>4. \A q : MayFail(q)' \in SUBSET (MayFail(q) \ {r})
    BY <2>2, <2>3 DEF MayFail, AtRisk, Pair
  <2> QED BY <2>1, <2>4, AreFew
<1>14. r \in MayFail(p) BY <1>0, <1>4 DEF MayFail
<1>15. /\ Cardinality(MayFail(p)') \in Nat /\ Cardinality(MayFail(p)') <= Others
       /\ Cardinality(MayFail(p)') <= Cardinality(MayFail(p)) - 1
  <2>1. MayFail(p)' \in SUBSET Requests /\ r \notin MayFail(p)' BY <1>13
  <2>2. Cardinality(MayFail(p)') \in Nat /\ Cardinality(MayFail(p)') <= Others BY <2>1, AreFew
  <2>3. Cardinality(MayFail(p) \ {r}) = Cardinality(MayFail(p)) - 1 BY <1>13, <1>14, AreFew
  <2>4. Cardinality(MayFail(p)') <= Cardinality(MayFail(p) \ {r})
    <3>1. MayFail(p) \ {r} \in SUBSET Requests BY <1>13
    <3>2. MayFail(p)' \in SUBSET (MayFail(p) \ {r}) BY <1>13
    <3> QED BY <3>1, <3>2, AreFew
  <2> QED BY <2>2, <2>3, <2>4
<1>16. Bounded'
  <2> SUFFICES ASSUME NEW q \in Addresses \X Usernames
      PROVE  slipped'[q] <= Others /\ (Locked(q)' => slipped'[q] + Cardinality(MayFail(q)') <= Others)
    BY <1>5 DEF Bounded
  <2>1. CASE q = p
    <3>1. CASE Locked(p)
      <4>1. slipped'[p] = slipped[p] + 1 BY <1>3, <1>7, <1>8, <3>1
      <4>2. slipped[p] + Cardinality(MayFail(p)) <= Others BY <1>3, <3>1 DEF Guarded, Bounded
      <4>3. slipped[p] \in Nat BY <1>3, <1>7
      <4>4. Cardinality(MayFail(p)) \in Nat BY <1>13
      <4>5. slipped'[p] + Cardinality(MayFail(p)') <= Others /\ slipped'[p] <= Others
        <5> DEFINE a == slipped[p]
                   b == Cardinality(MayFail(p))
                   d == Cardinality(MayFail(p)')
                   n == slipped'[p]
        <5>1. a \in Nat /\ b \in Nat /\ d \in Nat /\ Others \in Nat /\ n = a + 1 /\ a + b <= Others /\ d <= b - 1
          BY <1>12, <1>15, <4>1, <4>2, <4>3, <4>4
        <5>2. SUFFICES n + d <= Others /\ n <= Others OBVIOUS
        <5> HIDE DEF a, b, d, n
        <5> QED BY <5>1
      <4>6. slipped'[q] + Cardinality(MayFail(q)') = slipped'[p] + Cardinality(MayFail(p)')
        BY <2>1
      <4> QED BY <2>1, <4>5, <4>6
    <3>2. CASE ~Locked(p)
      <4>1. slipped'[p] = 0 BY <1>3, <1>7, <1>8, <3>2
      <4>2. slipped'[p] + Cardinality(MayFail(p)') <= Others /\ slipped'[p] <= Others
        BY <1>12, <1>15, <4>1
      <4> QED BY <2>1, <4>2
    <3> QED BY <3>1, <3>2
  <2>2. CASE q # p
    <3>1. slipped'[q] = slipped[q] /\ slipped[q] \in Nat BY <1>7, <1>8, <2>2
    <3>2. Locked(q)' => Locked(q)
      <4>1. CASE q \in DOMAIN pairs' BY <1>2, <1>10, <2>2, <4>1 DEF Locked, Count
      <4>2. CASE q \notin DOMAIN pairs'
        <5>1. Count(q)' = NoCount BY <4>2 DEF Count
        <5> QED BY <1>1, <1>2, <5>1 DEF Locked, NoCount, Typed
      <4> QED BY <4>1, <4>2
    <3>3. /\ Cardinality(MayFail(q)') \in Nat /\ Cardinality(MayFail(q)) \in Nat
          /\ Cardinality(MayFail(q)') <= Cardinality(MayFail(q))
      BY <1>13, AreFew
    <3>4. slipped[q] <= Others /\ (Locked(q) => slipped[q] + Cardinality(MayFail(q)) <= Others)
      BY DEF Guarded, Bounded
    <3> QED BY <1>12, <3>1, <3>2, <3>3, <3>4
  <2> QED BY <2>1, <2>2
<1> QED BY <1>5, <1>10, <1>11, <1>16 DEF Guarded

LEMMA ClearGuarded ==
  ASSUME Owned, Guarded, [Next]_vars, NEW r \in Requests, Clear(r)
  PROVE  Guarded'
<1>0. PICK p : p = Pair(r) OBVIOUS
<1>1. Typed /\ Proper(req[r]) BY RequestMoves DEF Owned
<1>2. At(r, "succeeded") /\ Succeeded(p) /\ now' = now BY <1>0 DEF Clear
<1>3. p \in Addresses \X Usernames BY <1>0, <1>1, <1>2 DEF Proper, At, Pair
<1>4. Addresses' = Addresses /\ Usernames' = Usernames /\ Others' = Others BY WorldStays DEF Others
<1>5. pairs \in [DOMAIN pairs -> Counts] /\ slipped \in [Addresses \X Usernames -> Nat]
  BY DEF Guarded
<1>6. /\ pairs' = [q \in DOMAIN pairs \ {p} |-> pairs[q]] /\ slipped' = [slipped EXCEPT ![p] = 0]
  BY <1>2 DEF Succeeded
<1>7. pairs' \in [DOMAIN pairs' -> Counts] /\ slipped' \in [Addresses \X Usernames -> Nat]
  <2> QED BY <1>3, <1>5, <1>6
<1>8. \A q : MayFail(q)' \in SUBSET MayFail(q)
  <2>1. req \in [Requests -> Asked] BY <1>1 DEF Typed
  <2>2. \A x \in Requests \ {r} : req'[x] = req[x] BY <2>1 DEF Clear
  <2>3. req'[r].at = "sign in" BY <2>1 DEF Clear, Asked
  <2> QED BY <2>2, <2>3 DEF MayFail, AtRisk, Risks, Pair
<1>9. Others \in Nat BY AreFew
<1>10. Bounded'
  <2> SUFFICES ASSUME NEW q \in Addresses \X Usernames
      PROVE  slipped'[q] <= Others /\ (Locked(q)' => slipped'[q] + Cardinality(MayFail(q)') <= Others)
    BY <1>4 DEF Bounded
  <2>1. CASE q = p
    <3>1. slipped'[q] = 0 BY <1>3, <1>5, <1>6, <2>1
    <3>2. Count(q)' = NoCount BY <1>6, <2>1 DEF Count
    <3>3. ~Locked(q)' BY <1>1, <1>2, <3>2 DEF Locked, NoCount, Typed
    <3> QED BY <1>9, <3>1, <3>3
  <2>2. CASE q # p
    <3>1. slipped'[q] = slipped[q] /\ slipped[q] \in Nat BY <1>5, <1>6, <2>2
    <3>2. Locked(q)' => Locked(q) BY <1>2, <1>6, <2>2 DEF Locked, Count
    <3>3. /\ Cardinality(MayFail(q)') \in Nat /\ Cardinality(MayFail(q)) \in Nat
          /\ Cardinality(MayFail(q)') <= Cardinality(MayFail(q))
      <4>1. MayFail(q) \in SUBSET Requests BY DEF MayFail
      <4> QED BY <1>8, <4>1, AreFew
    <3>4. slipped[q] <= Others /\ (Locked(q) => slipped[q] + Cardinality(MayFail(q)) <= Others)
      BY DEF Guarded, Bounded
    <3> QED BY <1>9, <3>1, <3>2, <3>3, <3>4
  <2> QED BY <2>1, <2>2
<1> QED BY <1>4, <1>7, <1>10 DEF Guarded

LEMMA StepGuarded == ASSUME Owned, Guarded, [Next]_vars PROVE Guarded'
<1>1. Typed /\ now \in Nat BY DEF Owned, Typed
<1>2. ASSUME NEW r \in Requests, Begins(r) \/ Steps(r) \/ TakeSlot(r) \/ GiveUp(r) PROVE Guarded'
  <2>1. CASE Refused(r) BY <2>1, RefusedGuarded
  <2>2. CASE Clear(r) BY <2>2, ClearGuarded
  <2>3. CASE ~Refused(r) /\ ~Clear(r)
    <3>1. Calm BY <1>2, <2>3, StepsCalm DEF Steps
    <3>2. UNCHANGED guard /\ now' = now
      <4>1. CASE Begins(r) BY <4>1 DEF Begins, Begin
      <4>2. CASE TakeSlot(r) \/ GiveUp(r) BY <4>2 DEF TakeSlot, GiveUp
      <4>3. CASE Steps(r)
        BY <2>3, <4>3 DEF Steps, Gate, ReadUser, Hash, Member, Moment, Revoke, SignIn, CountUsers, Target,
                          Insert, Manage
      <4> QED BY <1>2, <4>1, <4>2, <4>3
    <3> QED BY <1>1, <3>1, <3>2, GuardStays
  <2> QED BY <2>1, <2>2, <2>3
<1>3. CASE Tick \/ (\E s \in sessions : Present(s) \/ SignOut(s)) \/ UNCHANGED vars
  <2>1. UNCHANGED guard /\ req' = req /\ (now' = now \/ now' = now + 1)
    BY <1>3 DEF Tick, Present, SignOut, vars, guard
  <2>2. Calm BY <2>1 DEF Calm
  <2>3. now' \in Nat /\ now' >= now BY <1>1, <2>1
  <2> QED BY <1>1, <2>1, <2>2, <2>3, GuardStays
<1> QED BY <1>2, <1>3 DEF Next

LEMMA InitGuarded == Init => Guarded
<1> SUFFICES ASSUME Init PROVE Guarded OBVIOUS
<1>1. pairs = <<>> /\ slipped = [p \in Addresses \X Usernames |-> 0] /\ now = 0 BY DEF Init
<1>2. DOMAIN pairs = {} BY <1>1
<1>3. pairs \in [DOMAIN pairs -> Counts] BY <1>2
<1>4. slipped \in [Addresses \X Usernames -> Nat] BY <1>1
<1>5. \A p \in Addresses \X Usernames : slipped[p] = 0 BY <1>1
<1>6. \A p : ~Locked(p) BY <1>1, <1>2 DEF Locked, Count, NoCount
<1>7. Others \in Nat BY AreFew
<1> QED BY <1>3, <1>4, <1>5, <1>6, <1>7 DEF Guarded, Bounded

(* loginguard.go: the wait and the record are separate sections, so attempts *)
(* that passed the gate together are all tried; but while a lock is in force *)
(* no more fail than were past the gate when it came.                        *)
THEOREM LocksHold == Spec => []FewSlipThrough
<1>1. Init => Owned /\ Guarded BY InitOwned, InitGuarded
<1>2. Owned /\ Guarded /\ [Next]_vars => (Owned /\ Guarded)' BY StepOwned, StepGuarded
<1>3. Owned /\ Guarded => FewSlipThrough BY DEF Guarded, Bounded, FewSlipThrough, Others
<1> QED BY <1>1, <1>2, <1>3, PTL DEF Spec
=============================================================================

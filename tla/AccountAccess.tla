----------------------------- MODULE AccountAccess -----------------------------
(***************************************************************************)
(* Accounts and access to them: registration, links sent by email (verify   *)
(* the address, log in, reset the password), sessions, deactivation,        *)
(* erasure, and what admins do to accounts.  One statement or transaction   *)
(* is one action; handlers[h] is what a handler has read.  Throttles only   *)
(* refuse calls, and a refused call changes nothing here.                   *)
(***************************************************************************)
EXTENDS Naturals, FiniteSets

CONSTANTS
    Users,         \* ids, each with an address of its own
    Links,         \* ids of mailed links: verify, login, reset
    Sessions,      \* ids
    Handlers,
    FirstAdmins,   \* accounts that are there at the start
    MaxRequests    \* bound: calls that reach a handler

ASSUME AccessAssumption ==
    /\ FirstAdmins \subseteq Users
    /\ MaxRequests \in Nat

VARIABLES
    users,         \* the table users
    links,         \* email_verification_tokens, magic_links, password_resets
    sessions,      \* the table sessions
    bearers,       \* users that may hold an access token
    handlers,
    acted,         \* history: links that have logged in or set a password
    proven,        \* history: users that have followed a verification link
    requests

vars == <<users, links, sessions, bearers, handlers, acted, proven, requests>>

Roles == {"customer", "staff", "admin"}
UserStatuses == {"active", "inactive", "banned", "deleted"}
AdminStatuses == {"active", "inactive", "banned"}

Account == [status : UserStatuses, role : Roles, verified : BOOLEAN]
Link == [kind : {"verify", "login", "reset"}, user : Users,
         used : BOOLEAN, fresh : BOOLEAN]
Session == [user : Users, fresh : BOOLEAN]

Unborn == [row |-> "unborn"]
Gone == [row |-> "gone"]
NoRow == {Unborn, Gone}

Registered(u) == users[u] # Unborn
Issued(l) == links[l] \notin NoRow
Live(s) == sessions[s] \notin NoRow

Idle == [at |-> "idle"]
Local ==
    {Idle}
    \cup [at : {"issuing"}, kind : {"verify", "login", "reset"}, user : Users]
    \cup [at : {"revoking", "verifying", "marking", "changing", "banning"}, user : Users]
    \cup [at : {"entering", "signing", "resetting"}, link : Links, user : Users]
    \cup [at : {"admitted"}, user : Users, role : Roles]
    \cup [at : {"refreshing", "dropping"}, user : Users, session : Sessions]
    \cup [at : {"counting", "deciding"}, user : Users, role : Roles, status : UserStatuses]

Goto(h, local) == handlers' = [handlers EXCEPT ![h] = local]
At(h, step) == handlers[h].at = step

(* A call reaches a handler.                                               *)
Start(h, local) ==
    /\ handlers[h] = Idle
    /\ requests < MaxRequests
    /\ requests' = requests + 1
    /\ Goto(h, local)

history == <<acted, proven>>
tables == <<users, links, sessions>>

-----------------------------------------------------------------------------
(* Links by email                                                          *)

NewVerified == [status |-> "active", role |-> "customer", verified |-> TRUE]  \* faulty
NewAccount == [status |-> "active", role |-> "customer", verified |-> FALSE]

(* POST /auth/register.  A second registration of the address is refused   *)
(* by idx_users_email; of one that is not verified yet, another link is    *)
(* sent.                                                                   *)
Register(h, u) ==
    /\ Registered(u) => users[u].status # "deleted" /\ ~users[u].verified
    /\ users' = IF Registered(u) THEN users
                ELSE [users EXCEPT ![u] = NewAccount]
    /\ Start(h, [at |-> "issuing", kind |-> "verify", user |-> u])
    /\ UNCHANGED <<links, sessions, bearers, history>>

(* POST /auth/resend-verification and /auth/magic-link/request: what is    *)
(* sent depends on whether the address is verified.  Nobody has an erased  *)
(* account's address.                                                      *)
AskLink(h, u) ==
    /\ Registered(u) /\ users[u].status # "deleted"
    /\ Start(h, [at |-> "issuing", user |-> u,
                 kind |-> IF users[u].verified THEN "login" ELSE "verify"])
    /\ UNCHANGED <<tables, bearers, history>>

(* POST /auth/password/forgot: a goroutine revokes and then inserts.       *)
AskReset(h, u) ==
    /\ Registered(u) /\ users[u].status # "deleted"
    /\ Start(h, [at |-> "revoking", user |-> u])
    /\ UNCHANGED <<tables, bearers, history>>

Spent(u, kind) ==
    [l \in Links |->
        IF Issued(l) /\ links[l].user = u /\ links[l].kind = kind
        THEN [links[l] EXCEPT !.used = TRUE] ELSE links[l]]

RevokeResets(h) ==
    /\ At(h, "revoking")
    /\ links' = Spent(handlers[h].user, "reset")
    /\ Goto(h, [at |-> "issuing", kind |-> "reset", user |-> handlers[h].user])
    /\ UNCHANGED <<users, sessions, bearers, history, requests>>

IssueLink(h) ==
    /\ At(h, "issuing")
    /\ \E l \in Links :
          /\ links[l] = Unborn
          /\ links' = [links EXCEPT ![l] =
                [kind |-> handlers[h].kind, user |-> handlers[h].user,
                 used |-> FALSE, fresh |-> TRUE]]
    /\ Goto(h, Idle)
    /\ UNCHANGED <<users, sessions, bearers, history, requests>>

Valid(l, kind) ==
    Issued(l) /\ links[l].kind = kind /\ ~links[l].used /\ links[l].fresh

(* POST /auth/verify-email: three statements after the look-ups.           *)
VerifyRead(h, l) ==
    /\ Issued(l) /\ links[l].kind = "verify"
    /\ \/ /\ users[links[l].user].verified
          /\ Start(h, [at |-> "marking", user |-> links[l].user])
       \/ /\ ~users[links[l].user].verified
          /\ Valid(l, "verify")
          /\ Start(h, [at |-> "verifying", user |-> links[l].user])
    /\ UNCHANGED <<tables, bearers, history>>

SetVerified(h) ==
    /\ At(h, "verifying")
    /\ users' = [users EXCEPT ![handlers[h].user].verified = TRUE]
    /\ proven' = proven \cup {handlers[h].user}
    /\ Goto(h, [at |-> "marking", user |-> handlers[h].user])
    /\ UNCHANGED <<links, sessions, bearers, acted, requests>>

MarkVerifyUsed(h) ==
    /\ At(h, "marking")
    /\ links' = Spent(handlers[h].user, "verify")
    /\ Goto(h, Idle)
    /\ UNCHANGED <<users, sessions, bearers, history, requests>>

-----------------------------------------------------------------------------
(* Logging in and staying logged in                                        *)

MayLogIn(account) == account.status = "active" /\ account.verified

(* POST /auth/magic-link/verify: look up, mark the link, insert the session.*)
LoginRead(h, l) ==
    /\ Valid(l, "login")
    /\ MayLogIn(users[links[l].user])
    /\ Start(h, [at |-> "entering", link |-> l, user |-> links[l].user])
    /\ UNCHANGED <<tables, bearers, history>>

NotMarked(l) == links                                        \* faulty
Marked(l) ==
    IF Issued(l) THEN [links EXCEPT ![l].used = TRUE] ELSE links

LoginMark(h) ==
    /\ At(h, "entering")
    /\ links' = Marked(handlers[h].link)
    /\ Goto(h, [handlers[h] EXCEPT !.at = "signing"])
    /\ UNCHANGED <<users, sessions, bearers, history, requests>>

LoginSign(h) ==
    /\ At(h, "signing")
    /\ \E s \in Sessions :
          /\ sessions[s] = Unborn
          /\ sessions' = [sessions EXCEPT ![s] =
                             [user |-> handlers[h].user, fresh |-> TRUE]]
    /\ bearers' = bearers \cup {handlers[h].user}
    /\ acted' = acted \cup {handlers[h].link}
    /\ Goto(h, Idle)
    /\ UNCHANGED <<users, links, proven, requests>>

SessionsOf(u) == {s \in Sessions : Live(s) /\ sessions[s].user = u}
Without(S) == [s \in Sessions |-> IF s \in S /\ Live(s) THEN Gone ELSE sessions[s]]
MayLoseToken(u) == bearers' \in {bearers, bearers \ {u}}

(* POST /auth/refresh: the session, then its user.                         *)
RefreshRead(h, s) ==
    /\ Live(s) /\ sessions[s].fresh
    /\ Start(h, [at |-> "refreshing", session |-> s, user |-> sessions[s].user])
    /\ UNCHANGED <<tables, bearers, history>>

RefreshFinish(h) ==
    LET u == handlers[h].user
    IN  /\ At(h, "refreshing")
        /\ IF users[u].status = "active"
           THEN bearers' = bearers \cup {u} /\ UNCHANGED sessions
           ELSE sessions' = Without({handlers[h].session}) /\ UNCHANGED bearers
        /\ Goto(h, Idle)
        /\ UNCHANGED <<users, links, history, requests>>

(* POST /auth/logout: with the session its cookie names; the access token  *)
(* that came along is blacklisted, others of the user stay good.           *)
Logout(s) ==
    /\ Live(s) /\ sessions[s].fresh
    /\ requests < MaxRequests
    /\ requests' = requests + 1
    /\ sessions' = Without({s})
    /\ MayLoseToken(sessions[s].user)
    /\ UNCHANGED <<users, links, handlers, history>>

(* RequireAuth: a token that is not blacklisted, and the row's own status  *)
(* and role.                                                               *)
Admitted(h, u) ==
    /\ u \in bearers
    /\ users[u].status = "active"
    /\ Start(h, [at |-> "admitted", user |-> u, role |-> users[u].role])
    /\ UNCHANGED <<tables, bearers, history>>

-----------------------------------------------------------------------------
(* What the signed-in user does to the account                             *)

ListedAny(u) == {s \in Sessions : Live(s) /\ sessions[s].fresh}      \* faulty
Listed(u) == {s \in Sessions : Live(s) /\ sessions[s].fresh /\ sessions[s].user = u}

(* DELETE /sessions/:id looks the id up among the caller's, then deletes   *)
(* by id.                                                                  *)
RevokeOneRead(h) ==
    /\ At(h, "admitted")
    /\ \E s \in Listed(handlers[h].user) :
          Goto(h, [at |-> "dropping", user |-> handlers[h].user, session |-> s])
    /\ UNCHANGED <<tables, bearers, history, requests>>

RevokeOneDrop(h) ==
    /\ At(h, "dropping")
    /\ sessions' = Without({handlers[h].session})
    /\ Goto(h, Idle)
    /\ UNCHANGED <<users, links, bearers, history, requests>>

(* DELETE /sessions keeps the one the body names.                          *)
RevokeAll(h) ==
    /\ At(h, "admitted")
    /\ \E kept \in SUBSET Sessions :
          /\ Cardinality(kept) <= 1
          /\ sessions' = Without(SessionsOf(handlers[h].user) \ kept)
    /\ Goto(h, Idle)
    /\ UNCHANGED <<users, links, bearers, history, requests>>

(* PATCH /auth/password/change compares with the hash it has read.         *)
ChangeRead(h) ==
    /\ At(h, "admitted")
    /\ Goto(h, [at |-> "changing", user |-> handlers[h].user])
    /\ UNCHANGED <<tables, bearers, history, requests>>

ChangeCommit(h) ==
    /\ At(h, "changing")
    /\ sessions' = Without(SessionsOf(handlers[h].user))
    /\ Goto(h, Idle)
    /\ UNCHANGED <<users, links, bearers, history, requests>>

(* POST /auth/password/reset: the link, the new hash, one transaction.     *)
ResetRead(h, l) ==
    /\ Valid(l, "reset")
    /\ Start(h, [at |-> "resetting", link |-> l, user |-> links[l].user])
    /\ UNCHANGED <<tables, bearers, history>>

ResetCommit(h) ==
    /\ At(h, "resetting")
    /\ links' = Spent(handlers[h].user, "reset")
    /\ sessions' = Without(SessionsOf(handlers[h].user))
    /\ acted' = acted \cup {handlers[h].link}
    /\ Goto(h, Idle)
    /\ UNCHANGED <<users, bearers, proven, requests>>

(* POST /account/deactivate                                                *)
Deactivate(h) ==
    /\ At(h, "admitted")
    /\ users' = [users EXCEPT ![handlers[h].user].status = "inactive"]
    /\ sessions' = Without(SessionsOf(handlers[h].user))
    /\ MayLoseToken(handlers[h].user)
    /\ Goto(h, Idle)
    /\ UNCHANGED <<links, history, requests>>

(* POST /account/delete and the GDPR request: AnonymizeUserData.           *)
Erase(h) ==
    LET u == handlers[h].user
    IN  /\ At(h, "admitted")
        /\ users' = [users EXCEPT ![u].status = "deleted", ![u].verified = FALSE]
        /\ links' = [l \in Links |->
                        IF Issued(l) /\ links[l].user = u THEN Gone ELSE links[l]]
        /\ sessions' = Without(SessionsOf(u))
        /\ MayLoseToken(u)
        /\ Goto(h, Idle)
        /\ UNCHANGED <<history, requests>>

-----------------------------------------------------------------------------
(* What an admin does to accounts: PATCH /admin/users/:id                  *)

ActiveAdmins == {u \in Users : Registered(u) /\ users[u].role = "admin"
                                             /\ users[u].status = "active"}

(* A field the body leaves out keeps the value just read.  An admin may    *)
(* not demote or deactivate the own account.                               *)
AdminRead(h, u) ==
    /\ At(h, "admitted") /\ handlers[h].role = "admin"
    /\ Registered(u)
    /\ \E role \in Roles, status \in AdminStatuses \cup {users[u].status} :
          /\ u = handlers[h].user => role = "admin" /\ status = "active"
          /\ Goto(h, [at |-> IF users[u].role = "admin" /\ role # "admin"
                             THEN "counting" ELSE "deciding",
                      user |-> u, role |-> role, status |-> status])
    /\ UNCHANGED <<tables, bearers, history, requests>>

AdminCount(h) ==
    /\ At(h, "counting")
    /\ ActiveAdmins \ {handlers[h].user} # {}
    /\ Goto(h, [handlers[h] EXCEPT !.at = "deciding"])
    /\ UNCHANGED <<tables, bearers, history, requests>>

AdminWrite(h) ==
    LET u == handlers[h].user
    IN  /\ At(h, "deciding")
        /\ users' = [users EXCEPT ![u].role = handlers[h].role,
                                  ![u].status = handlers[h].status]
        /\ Goto(h, IF handlers[h].status = "active" THEN Idle
                   ELSE [at |-> "banning", user |-> u])
        /\ UNCHANGED <<links, sessions, bearers, history, requests>>

AdminRevoke(h) ==
    /\ At(h, "banning")
    /\ sessions' = Without(SessionsOf(handlers[h].user))
    /\ Goto(h, Idle)
    /\ UNCHANGED <<users, links, bearers, history, requests>>

-----------------------------------------------------------------------------
(* A refusal, a statement that fails, or a process that dies.              *)
Fail(h) ==
    /\ handlers[h] # Idle
    /\ Goto(h, Idle)
    /\ UNCHANGED <<tables, bearers, history, requests>>

(* Links, sessions and access tokens run out.                              *)
TimePasses ==
    /\ \/ /\ \E l \in Links : Issued(l) /\ links' = [links EXCEPT ![l].fresh = FALSE]
          /\ UNCHANGED <<sessions, bearers>>
       \/ /\ \E s \in Sessions :
                Live(s) /\ sessions' = [sessions EXCEPT ![s].fresh = FALSE]
          /\ UNCHANGED <<links, bearers>>
       \/ /\ \E u \in bearers : bearers' = bearers \ {u}
          /\ UNCHANGED <<links, sessions>>
    /\ UNCHANGED <<users, handlers, history, requests>>

(* The first admins are promoted in the database; each holds a token.      *)
Init ==
    /\ users = [u \in Users |->
                   IF u \in FirstAdmins
                   THEN [status |-> "active", role |-> "admin", verified |-> TRUE]
                   ELSE Unborn]
    /\ links = [l \in Links |-> Unborn]
    /\ sessions = [s \in Sessions |-> Unborn]
    /\ bearers = FirstAdmins
    /\ handlers = [h \in Handlers |-> Idle]
    /\ acted = {}
    /\ proven = FirstAdmins
    /\ requests = 0

Step(h) ==
    \/ RevokeResets(h) \/ IssueLink(h) \/ SetVerified(h) \/ MarkVerifyUsed(h)
    \/ LoginMark(h) \/ LoginSign(h) \/ RefreshFinish(h)
    \/ RevokeOneRead(h) \/ RevokeOneDrop(h) \/ RevokeAll(h)
    \/ ChangeRead(h) \/ ChangeCommit(h) \/ ResetCommit(h)
    \/ Deactivate(h) \/ Erase(h)
    \/ AdminCount(h) \/ AdminWrite(h) \/ AdminRevoke(h) \/ Fail(h)
    \/ \E u \in Users : Register(h, u) \/ AskLink(h, u) \/ AskReset(h, u)
                           \/ Admitted(h, u) \/ AdminRead(h, u)
    \/ \E l \in Links : VerifyRead(h, l) \/ LoginRead(h, l) \/ ResetRead(h, l)
    \/ \E s \in Sessions : RefreshRead(h, s)

Next == (\E h \in Handlers : Step(h)) \/ (\E s \in Sessions : Logout(s)) \/ TimePasses

Spec == Init /\ [][Next]_vars

-----------------------------------------------------------------------------
(* Properties                                                              *)

(* Every row, and what every handler has read, has its type.               *)
TypeOK ==
    /\ users \in [Users -> Account \cup {Unborn}]
    /\ links \in [Links -> Link \cup NoRow]
    /\ sessions \in [Sessions -> Session \cup NoRow]
    /\ handlers \in [Handlers -> Local]
    /\ bearers \subseteq Users
    /\ acted \subseteq Links
    /\ proven \subseteq Users
    /\ requests \in 0..MaxRequests

(* A link that has opened a session or set a password is spent for good,   *)
(* whatever was issued, revoked or erased meanwhile: auth.go marks it      *)
(* before the session and with the password.                               *)
SpentByEffect ==
    \A l \in acted : links[l] = Gone \/ (Issued(l) /\ links[l].used)

(* Whoever has a session or an access token has followed a verification    *)
(* link at some time, by whichever calls the session came about: register  *)
(* leaves the address unverified, and links that log in go to and work for *)
(* verified ones only.                                                     *)
ProvenFirst ==
    /\ bearers \subseteq proven
    /\ \A s \in Sessions : Live(s) => sessions[s].user \in proven

(* A call of a signed-in user ends sessions of that user only, though the  *)
(* one it deletes by id was looked up in an earlier statement.             *)
OwnSessionsOnly ==
    [][\A h \in Handlers, s \in Sessions :
          /\ handlers[h].at \in {"admitted", "dropping", "changing"}
          /\ handlers'[h] # handlers[h]
          /\ sessions'[s] # sessions[s]
          => sessions[s].user = handlers[h].user]_vars

=============================================================================

-------------------------- MODULE AccountAccessProofs --------------------------
(***************************************************************************)
(* The safety properties of AccountAccess for every number of users, links *)
(* and sessions, and for any number of calls at a time.  They rest on one  *)
(* inductive invariant, IInv.                                              *)
(***************************************************************************)
EXTENDS AccountAccess, TLAPS

(* Nothing refers to an account that was never registered: not who has     *)
(* proven an address, not a mailed link, not a call under way.             *)
RegisteredHold ==
    /\ \A u \in proven : Registered(u)
    /\ \A l \in Links : Issued(l) => Registered(links[l].user)
    /\ \A h \in Handlers : handlers[h] # Idle => Registered(handlers[h].user)

(* Whose address is verified, and who is sent or holds a link to log in,   *)
(* or is being logged in or refreshed, has proven the address.             *)
ProofHolds ==
    /\ \A u \in Users : Registered(u) /\ users[u].verified => u \in proven
    /\ \A l \in Links :
          Issued(l) /\ links[l].kind = "login" => links[l].user \in proven
    /\ \A h \in Handlers :
          /\ handlers[h].at = "issuing" /\ handlers[h].kind = "login"
                => handlers[h].user \in proven
          /\ handlers[h].at \in {"entering", "signing", "refreshing"}
                => handlers[h].user \in proven

(* What a call that looked a link up may rely on when it uses it: a login  *)
(* link has been marked before the session is made; a link to reset is one *)
(* of the user whose links the transaction spends.                         *)
LinksHold ==
    \A h \in Handlers :
        LET me == handlers[h] IN
        /\ me.at = "entering" => links[me.link] # Unborn
        /\ me.at = "signing" =>
              links[me.link] = Gone \/ (Issued(me.link) /\ links[me.link].used)
        /\ me.at = "resetting" =>
              \/ links[me.link] = Gone
              \/ Issued(me.link) /\ links[me.link].kind = "reset"
                                 /\ links[me.link].user = me.user

(* The session a call is about to delete by id is the caller's, or gone.   *)
SessionsHold ==
    \A h \in Handlers :
        handlers[h].at = "dropping" =>
            \/ sessions[handlers[h].session] = Gone
            \/ Live(handlers[h].session)
               /\ sessions[handlers[h].session].user = handlers[h].user

IInv ==
    /\ TypeOK
    /\ RegisteredHold
    /\ ProofHolds
    /\ LinksHold
    /\ SessionsHold
    /\ SpentByEffect
    /\ ProvenFirst

-----------------------------------------------------------------------------
(* An id without a row is no row.                                          *)
LEMMA NoRowIsNone ==
    /\ Unborn \notin Account /\ Unborn # Gone
    /\ \A x \in Link : x \notin NoRow
    /\ \A x \in Session : x \notin NoRow
  BY DEF Unborn, Gone, NoRow, Account, Link, Session

(* The fields of a call's locals, by where it is.                          *)
LEMMA LocalFields ==
    ASSUME NEW me \in Local
    PROVE  /\ me # Idle => me.user \in Users
           /\ me.at = "issuing" => me.kind \in {"verify", "login", "reset"}
           /\ me.at \in {"entering", "signing", "resetting"} =>
                 me \in [at : {"entering", "signing", "resetting"}, link : Links, user : Users]
           /\ me.at = "admitted" => me.role \in Roles
           /\ me.at \in {"refreshing", "dropping"} => me.session \in Sessions
           /\ me.at \in {"counting", "deciding"} =>
                 me \in [at : {"counting", "deciding"}, user : Users, role : Roles,
                         status : UserStatuses]
  BY DEF Local, Idle

(* The tables over the statements that touch many rows.                    *)
LEMMA TablesKeepType ==
    ASSUME TypeOK
    PROVE  /\ \A u, kind : Spent(u, kind) \in [Links -> Link \cup NoRow]
           /\ \A l \in Links : Marked(l) \in [Links -> Link \cup NoRow]
           /\ \A S : Without(S) \in [Sessions -> Session \cup NoRow]
<1>1. ASSUME NEW u, NEW kind, NEW l \in Links
      PROVE  Spent(u, kind)[l] \in Link \cup NoRow
  <2>1. CASE Issued(l)
    <3>1. links[l] \in Link
      BY <2>1 DEF TypeOK, Issued
    <3>2. [links[l] EXCEPT !.used = TRUE] \in Link
      BY <3>1 DEF Link
    <3>3. QED
      BY <3>1, <3>2 DEF Spent
  <2>2. CASE ~Issued(l)
    BY <2>2 DEF Spent, TypeOK
  <2>3. QED
    BY <2>1, <2>2
<1>2. \A u, kind : Spent(u, kind) \in [Links -> Link \cup NoRow]
  BY <1>1 DEF Spent
<1>3. ASSUME NEW l \in Links
      PROVE  Marked(l) \in [Links -> Link \cup NoRow]
  <2>1. CASE Issued(l)
    <3>1. links[l] \in Link
      BY <2>1 DEF TypeOK, Issued
    <3>2. [links[l] EXCEPT !.used = TRUE] \in Link
      BY <3>1 DEF Link
    <3>3. QED
      BY <2>1, <3>2 DEF Marked, TypeOK
  <2>2. CASE ~Issued(l)
    BY <2>2 DEF Marked, TypeOK
  <2>3. QED
    BY <2>1, <2>2
<1>4. \A S : Without(S) \in [Sessions -> Session \cup NoRow]
  BY DEF Without, TypeOK, NoRow
<1>5. QED
  BY <1>2, <1>3, <1>4

(* A call that begins, goes on or ends leaves typed locals.                *)
LEMMA LocalsTyped ==
    /\ Idle \in Local
    /\ \A u \in Users :
          /\ \A kind \in {"verify", "login", "reset"} :
                [at |-> "issuing", kind |-> kind, user |-> u] \in Local
          /\ \A at \in {"revoking", "verifying", "marking", "changing", "banning"} :
                [at |-> at, user |-> u] \in Local
          /\ \A at \in {"entering", "signing", "resetting"}, l \in Links :
                [at |-> at, link |-> l, user |-> u] \in Local
          /\ \A role \in Roles : [at |-> "admitted", user |-> u, role |-> role] \in Local
          /\ \A at \in {"refreshing", "dropping"}, s \in Sessions :
                [at |-> at, user |-> u, session |-> s] \in Local
          /\ \A at \in {"counting", "deciding"}, role \in Roles, status \in UserStatuses :
                [at |-> at, user |-> u, role |-> role, status |-> status] \in Local
  BY DEF Local

LEMMA TypeInit == Init => TypeOK
<1> SUFFICES ASSUME Init PROVE TypeOK
  OBVIOUS
<1>1. users \in [Users -> Account \cup {Unborn}]
  BY DEF Init, Account, Roles, UserStatuses
<1>2. /\ links \in [Links -> Link \cup NoRow]
      /\ sessions \in [Sessions -> Session \cup NoRow]
  BY DEF Init, NoRow
<1>3. handlers \in [Handlers -> Local]
  BY LocalsTyped DEF Init
<1>4. bearers \subseteq Users /\ proven \subseteq Users /\ acted = {} /\ requests \in 0..MaxRequests
  BY AccessAssumption DEF Init
<1>5. QED
  BY <1>1, <1>2, <1>3, <1>4 DEF TypeOK

(* A row that is there keeps its type when a column of it is written.      *)
LEMMA AccountColumns ==
    ASSUME NEW a \in Account
    PROVE  /\ [a EXCEPT !.verified = TRUE] \in Account
           /\ [a EXCEPT !.status = "inactive"] \in Account
           /\ [a EXCEPT !.status = "inactive"].verified = a.verified
           /\ [a EXCEPT !.status = "deleted", !.verified = FALSE] \in Account
           /\ [a EXCEPT !.status = "deleted", !.verified = FALSE].verified = FALSE
           /\ \A role \in Roles, status \in UserStatuses :
                 /\ [a EXCEPT !.role = role, !.status = status] \in Account
                 /\ [a EXCEPT !.role = role, !.status = status].verified = a.verified
  BY DEF Account, UserStatuses

LEMMA TypeStep ==
    ASSUME TypeOK, RegisteredHold, ProvenFirst, Next
    PROVE  TypeOK'
<1> USE DEF TypeOK
<1>u. \A u \in Users : Registered(u) => users[u] \in Account
  BY DEF Registered
<1>l. \A l \in Links : Issued(l) => links[l] \in Link
  BY DEF Issued
<1>s. \A s \in Sessions : Live(s) => sessions[s] \in Session
  BY DEF Live
<1>h. \A h \in Handlers : handlers[h] # Idle =>
         handlers[h].user \in Users /\ users[handlers[h].user] \in Account
  BY <1>u, LocalFields DEF RegisteredHold
<1>a. \A h \in Handlers : At(h, "idle") <=> handlers[h] = Idle
  BY DEF At, Idle, Local
<1>st. ASSUME NEW h \in Handlers, NEW local \in Local, Start(h, local)
       PROVE  handlers' \in [Handlers -> Local] /\ requests' \in 0..MaxRequests
  BY <1>st, AccessAssumption DEF Start, Goto
<1>go. ASSUME NEW h \in Handlers, NEW local \in Local, Goto(h, local)
       PROVE  handlers' \in [Handlers -> Local]
  BY <1>go DEF Goto
<1>1. ASSUME NEW h \in Handlers, NEW u \in Users, Register(h, u)
      PROVE  TypeOK'
  <2>1. NewAccount \in Account
    BY DEF NewAccount, Account, Roles, UserStatuses
  <2>2. users' \in [Users -> Account \cup {Unborn}]
    BY <1>1, <2>1 DEF Register
  <2>3. QED
    BY <1>1, <2>2, <1>st, LocalsTyped DEF Register, history
<1>2. ASSUME NEW h \in Handlers, NEW u \in Users, AskLink(h, u)
      PROVE  TypeOK'
  BY <1>2, <1>st, LocalsTyped DEF AskLink, history, tables
<1>3. ASSUME NEW h \in Handlers, NEW u \in Users, AskReset(h, u)
      PROVE  TypeOK'
  BY <1>3, <1>st, LocalsTyped DEF AskReset, history, tables
<1>4. ASSUME NEW h \in Handlers, RevokeResets(h)
      PROVE  TypeOK'
  <2>1. handlers[h].user \in Users
    BY <1>4, <1>h DEF RevokeResets, At, Idle
  <2>2. [at |-> "issuing", kind |-> "reset", user |-> handlers[h].user] \in Local
    BY <2>1, LocalsTyped
  <2>3. QED
    BY <1>4, <2>2, <1>go, TablesKeepType DEF RevokeResets, history
<1>5. ASSUME NEW h \in Handlers, IssueLink(h)
      PROVE  TypeOK'
  <2>1. handlers[h].kind \in {"verify", "login", "reset"} /\ handlers[h].user \in Users
    BY <1>5, <1>h, LocalFields DEF IssueLink, At, Idle
  <2>2. [kind |-> handlers[h].kind, user |-> handlers[h].user,
         used |-> FALSE, fresh |-> TRUE] \in Link
    BY <2>1 DEF Link
  <2>3. links' \in [Links -> Link \cup NoRow]
    BY <1>5, <2>2 DEF IssueLink
  <2>4. QED
    BY <1>5, <2>3, <1>go, LocalsTyped DEF IssueLink, history
<1>6. ASSUME NEW h \in Handlers, NEW l \in Links, VerifyRead(h, l)
      PROVE  TypeOK'
  <2>1. links[l].user \in Users
    BY <1>6, <1>l DEF VerifyRead, Link
  <2>2. QED
    BY <1>6, <2>1, <1>st, LocalsTyped DEF VerifyRead, history, tables
<1>7. ASSUME NEW h \in Handlers, SetVerified(h)
      PROVE  TypeOK'
  <2>1. handlers[h] # Idle
    BY <1>7 DEF SetVerified, At, Idle
  <2>2. users' \in [Users -> Account \cup {Unborn}]
    BY <1>7, <2>1, <1>h, AccountColumns DEF SetVerified
  <2>3. QED
    BY <1>7, <2>1, <2>2, <1>h, <1>go, LocalsTyped DEF SetVerified
<1>8. ASSUME NEW h \in Handlers, MarkVerifyUsed(h)
      PROVE  TypeOK'
  BY <1>8, <1>go, LocalsTyped, TablesKeepType DEF MarkVerifyUsed, history
<1>9. ASSUME NEW h \in Handlers, NEW l \in Links, LoginRead(h, l)
      PROVE  TypeOK'
  <2>1. links[l].user \in Users
    BY <1>9, <1>l DEF LoginRead, Valid, Link
  <2>2. QED
    BY <1>9, <2>1, <1>st, LocalsTyped DEF LoginRead, history, tables
<1>10. ASSUME NEW h \in Handlers, LoginMark(h)
       PROVE  TypeOK'
  <2>1. handlers[h] \in [at : {"entering", "signing", "resetting"}, link : Links, user : Users]
    BY <1>10, LocalFields DEF LoginMark, At
  <2>2. [handlers[h] EXCEPT !.at = "signing"]
           = [at |-> "signing", link |-> handlers[h].link, user |-> handlers[h].user]
    BY <2>1
  <2>3. QED
    BY <1>10, <2>1, <2>2, <1>go, LocalsTyped, TablesKeepType DEF LoginMark, history
<1>11. ASSUME NEW h \in Handlers, LoginSign(h)
       PROVE  TypeOK'
  <2>1. handlers[h].link \in Links /\ handlers[h].user \in Users
    BY <1>11, LocalFields DEF LoginSign, At
  <2>2. [user |-> handlers[h].user, fresh |-> TRUE] \in Session
    BY <2>1 DEF Session
  <2>3. QED
    BY <1>11, <2>1, <2>2, <1>go, LocalsTyped DEF LoginSign
<1>12. ASSUME NEW h \in Handlers, NEW s \in Sessions, RefreshRead(h, s)
       PROVE  TypeOK'
  <2>1. sessions[s].user \in Users
    BY <1>12, <1>s DEF RefreshRead, Session
  <2>2. [at |-> "refreshing", user |-> sessions[s].user, session |-> s] \in Local
    BY <2>1, LocalsTyped
  <2>3. QED
    BY <1>12, <2>2, <1>st DEF RefreshRead, history, tables
<1>13. ASSUME NEW h \in Handlers, RefreshFinish(h)
       PROVE  TypeOK'
  <2>1. handlers[h].user \in Users
    BY <1>13, <1>h DEF RefreshFinish, At, Idle
  <2>2. QED
    BY <1>13, <2>1, <1>go, LocalsTyped, TablesKeepType DEF RefreshFinish, history
<1>14. ASSUME NEW s \in Sessions, Logout(s)
       PROVE  TypeOK'
  BY <1>14, TablesKeepType, AccessAssumption DEF Logout, MayLoseToken, history
<1>15. ASSUME NEW h \in Handlers, NEW u \in Users, Admitted(h, u)
       PROVE  TypeOK'
  <2>1. Registered(u)
    BY <1>15 DEF Admitted, ProvenFirst, RegisteredHold
  <2>2. users[u].role \in Roles
    BY <2>1, <1>u DEF Account
  <2>3. QED
    BY <1>15, <2>2, <1>st, LocalsTyped DEF Admitted, history, tables
<1>16. ASSUME NEW h \in Handlers, RevokeOneRead(h)
       PROVE  TypeOK'
  <2>1. handlers[h].user \in Users
    BY <1>16, <1>h DEF RevokeOneRead, At, Idle
  <2>2. \A s \in Sessions :
           [at |-> "dropping", user |-> handlers[h].user, session |-> s] \in Local
    BY <2>1, LocalsTyped
  <2>3. QED
    BY <1>16, <2>2, <1>go DEF RevokeOneRead, Listed, history, tables
<1>17. ASSUME NEW h \in Handlers, RevokeOneDrop(h) \/ RevokeAll(h) \/ ChangeCommit(h)
       PROVE  TypeOK'
  <2>1. \E S : sessions' = Without(S)
    BY <1>17 DEF RevokeOneDrop, RevokeAll, ChangeCommit
  <2>2. QED
    BY <1>17, <2>1, <1>go, LocalsTyped, TablesKeepType
       DEF RevokeOneDrop, RevokeAll, ChangeCommit, history
<1>18. ASSUME NEW h \in Handlers, ChangeRead(h)
       PROVE  TypeOK'
  <2>1. handlers[h].user \in Users
    BY <1>18, <1>h DEF ChangeRead, At, Idle
  <2>2. QED
    BY <1>18, <2>1, <1>go, LocalsTyped DEF ChangeRead, history, tables
<1>19. ASSUME NEW h \in Handlers, NEW l \in Links, ResetRead(h, l)
       PROVE  TypeOK'
  <2>1. links[l].user \in Users
    BY <1>19, <1>l DEF ResetRead, Valid, Link
  <2>2. QED
    BY <1>19, <2>1, <1>st, LocalsTyped DEF ResetRead, history, tables
<1>20. ASSUME NEW h \in Handlers, ResetCommit(h)
       PROVE  TypeOK'
  <2>1. handlers[h].link \in Links
    BY <1>20, LocalFields DEF ResetCommit, At
  <2>2. QED
    BY <1>20, <2>1, <1>go, LocalsTyped, TablesKeepType DEF ResetCommit
<1>21. ASSUME NEW h \in Handlers, Deactivate(h)
       PROVE  TypeOK'
  <2>1. handlers[h] # Idle
    BY <1>21 DEF Deactivate, At, Idle
  <2>2. users' \in [Users -> Account \cup {Unborn}]
    BY <1>21, <2>1, <1>h, AccountColumns DEF Deactivate
  <2>3. QED
    BY <1>21, <2>2, <1>go, LocalsTyped, TablesKeepType DEF Deactivate, MayLoseToken, history
<1>22. ASSUME NEW h \in Handlers, Erase(h)
       PROVE  TypeOK'
  <2>1. handlers[h] # Idle
    BY <1>22 DEF Erase, At, Idle
  <2>2. users' \in [Users -> Account \cup {Unborn}]
    BY <1>22, <2>1, <1>h, AccountColumns DEF Erase
  <2>3. links' \in [Links -> Link \cup NoRow]
    BY <1>22 DEF Erase, NoRow
  <2>4. QED
    BY <1>22, <2>2, <2>3, <1>go, LocalsTyped, TablesKeepType DEF Erase, MayLoseToken, history
<1>23. ASSUME NEW h \in Handlers, NEW u \in Users, AdminRead(h, u)
       PROVE  TypeOK'
  <2>1. users[u].status \in UserStatuses
    BY <1>23, <1>u DEF AdminRead, Account
  <2>2. \A role \in Roles, status \in AdminStatuses \cup {users[u].status} :
           [at |-> IF users[u].role = "admin" /\ role # "admin"
                   THEN "counting" ELSE "deciding",
            user |-> u, role |-> role, status |-> status] \in Local
    BY <2>1, LocalsTyped DEF AdminStatuses, UserStatuses
  <2>3. QED
    BY <1>23, <2>2, <1>go DEF AdminRead, history, tables
<1>24. ASSUME NEW h \in Handlers, AdminCount(h)
       PROVE  TypeOK'
  <2>1. handlers[h] \in [at : {"counting", "deciding"}, user : Users, role : Roles,
                         status : UserStatuses]
    BY <1>24, LocalFields DEF AdminCount, At
  <2>2. [handlers[h] EXCEPT !.at = "deciding"] \in
           [at : {"counting", "deciding"}, user : Users, role : Roles, status : UserStatuses]
    BY <2>1
  <2>3. [handlers[h] EXCEPT !.at = "deciding"] \in Local
    BY <2>2 DEF Local
  <2>4. QED
    BY <1>24, <2>3, <1>go DEF AdminCount, history, tables
<1>25. ASSUME NEW h \in Handlers, AdminWrite(h)
       PROVE  TypeOK'
  <2>1. /\ handlers[h] # Idle /\ handlers[h].user \in Users
        /\ handlers[h].role \in Roles /\ handlers[h].status \in UserStatuses
    BY <1>25, LocalFields DEF AdminWrite, At, Idle
  <2>2. users' \in [Users -> Account \cup {Unborn}]
    BY <1>25, <2>1, <1>h, AccountColumns DEF AdminWrite
  <2>3. QED
    BY <1>25, <2>1, <2>2, <1>go, LocalsTyped DEF AdminWrite, history
<1>26. ASSUME NEW h \in Handlers, AdminRevoke(h) \/ Fail(h)
       PROVE  TypeOK'
  BY <1>26, <1>go, LocalsTyped, TablesKeepType DEF AdminRevoke, Fail, history, tables
<1>27. CASE TimePasses
  <2>1. \A l \in Links : Issued(l) => [links[l] EXCEPT !.fresh = FALSE] \in Link
    BY <1>l DEF Link
  <2>2. \A s \in Sessions : Live(s) => [sessions[s] EXCEPT !.fresh = FALSE] \in Session
    BY <1>s DEF Session
  <2>3. QED
    BY <1>27, <2>1, <2>2 DEF TimePasses, history
<1>28. QED
  BY <1>1, <1>2, <1>3, <1>4, <1>5, <1>6, <1>7, <1>8, <1>9, <1>10, <1>11, <1>12,
     <1>13, <1>14, <1>15, <1>16, <1>17, <1>18, <1>19, <1>20, <1>21, <1>22,
     <1>23, <1>24, <1>25, <1>26, <1>27 DEF Next, Step

-----------------------------------------------------------------------------
(* What one step can do to an account, a link, a session, and the locals   *)
(* of a call.                                                              *)

UserEffect(u) ==
    /\ Registered(u) => Registered(u)'
    /\ Registered(u)' /\ users'[u].verified =>
          (Registered(u) /\ users[u].verified) \/ u \in proven'

LinkEffect(l) ==
    \/ links'[l] = links[l]
    \/ /\ links[l] = Unborn /\ links'[l] \notin NoRow
       /\ \E h \in Handlers :
             At(h, "issuing") /\ links'[l].kind = handlers[h].kind
                              /\ links'[l].user = handlers[h].user
    \/ Issued(l) /\ links'[l] = Gone
    \/ /\ Issued(l) /\ links'[l] \notin NoRow
       /\ links'[l].kind = links[l].kind /\ links'[l].user = links[l].user
       /\ links[l].used => links'[l].used

SessionEffect(s) ==
    \/ sessions'[s] = sessions[s]
    \/ /\ sessions[s] = Unborn /\ sessions'[s] \notin NoRow
       /\ \E h \in Handlers : At(h, "signing") /\ sessions'[s].user = handlers[h].user
    \/ Live(s) /\ sessions'[s] = Gone
    \/ Live(s) /\ sessions'[s] \notin NoRow /\ sessions'[s].user = sessions[s].user

(* The locals a step leaves: as they were, of a call that ended, of one    *)
(* that goes on for the same user, or of one that has just read.           *)
LocalEffect(h) ==
    LET me == handlers[h]
        new == handlers'[h]
    IN  \/ new = me \/ new = Idle
        \/ new.at = "issuing" /\ new.kind = "verify" /\ users'[new.user] # Unborn
        \/ /\ new.at = "issuing" /\ new.kind = "login"
           /\ Registered(new.user) /\ users[new.user].verified
        \/ /\ new.at = "issuing" /\ new.kind = "reset"
           /\ me # Idle /\ new.user = me.user
        \/ /\ new.at \in {"revoking", "verifying", "marking", "admitted", "changing",
                           "banning", "counting", "deciding"}
           /\ Registered(new.user)
        \/ /\ new.at = "entering" /\ UNCHANGED links
           /\ Issued(new.link) /\ links[new.link].kind = "login"
           /\ new.user = links[new.link].user
        \/ /\ new.at = "signing" /\ me.at = "entering" /\ links' = Marked(me.link)
           /\ new.link = me.link /\ new.user = me.user
        \/ /\ new.at = "resetting" /\ UNCHANGED links
           /\ Issued(new.link) /\ links[new.link].kind = "reset"
           /\ new.user = links[new.link].user
        \/ new.at = "refreshing" /\ Live(new.session) /\ new.user = sessions[new.session].user
        \/ /\ new.at = "dropping" /\ UNCHANGED sessions
           /\ me.at = "admitted" /\ new.user = me.user
           /\ Live(new.session) /\ sessions[new.session].user = new.user

LEMMA UserEffects ==
    ASSUME TypeOK, RegisteredHold, Next
    PROVE  (\A u \in Users : UserEffect(u)) /\ proven \subseteq proven'
<1> USE DEF UserEffect, Registered
<1>u. users \in [Users -> Account \cup {Unborn}]
  BY DEF TypeOK
<1>h. \A h \in Handlers : handlers[h] # Idle =>
         handlers[h].user \in Users /\ users[handlers[h].user] \in Account
  BY <1>u, LocalFields DEF RegisteredHold, TypeOK
<1>1. ASSUME NEW h \in Handlers, NEW u \in Users, Register(h, u)
      PROVE  (\A v \in Users : UserEffect(v)) /\ proven \subseteq proven'
  BY <1>1, <1>u DEF Register, NewAccount, Unborn, history
<1>2. ASSUME NEW h \in Handlers, SetVerified(h)
      PROVE  (\A v \in Users : UserEffect(v)) /\ proven \subseteq proven'
  <2>1. handlers[h].user \in Users /\ users[handlers[h].user] \in Account
    BY <1>2, <1>h DEF SetVerified, At, Idle
  <2>2. [users[handlers[h].user] EXCEPT !.verified = TRUE] # Unborn
    BY <2>1, AccountColumns, NoRowIsNone
  <2>3. QED
    BY <1>2, <2>1, <2>2, <1>u DEF SetVerified
<1>3. ASSUME NEW h \in Handlers, Deactivate(h) \/ Erase(h) \/ AdminWrite(h)
      PROVE  (\A v \in Users : UserEffect(v)) /\ proven \subseteq proven'
  <2> DEFINE w == handlers[h].user
  <2>1. w \in Users /\ users[w] \in Account
    BY <1>3, <1>h DEF Deactivate, Erase, AdminWrite, At, Idle
  <2>2. /\ \A v \in Users \ {w} : users'[v] = users[v]
        /\ users'[w] \in Account
        /\ users'[w].verified => users[w].verified
        /\ proven' = proven
    <3>1. CASE Deactivate(h)
      <4>1. users' = [users EXCEPT ![w] = [users[w] EXCEPT !.status = "inactive"]]
        BY <3>1 DEF Deactivate
      <4>2. QED
        BY <3>1, <4>1, <2>1, <1>u, AccountColumns DEF Deactivate, history
    <3>2. CASE Erase(h)
      <4>1. users' = [users EXCEPT ![w] =
                         [users[w] EXCEPT !.status = "deleted", !.verified = FALSE]]
        BY <3>2, <2>1, <1>u DEF Erase
      <4>2. QED
        BY <3>2, <4>1, <2>1, <1>u, AccountColumns DEF Erase, history
    <3>3. CASE AdminWrite(h)
      <4>1. handlers[h].role \in Roles /\ handlers[h].status \in UserStatuses
        BY <3>3, LocalFields DEF AdminWrite, At, TypeOK
      <4>2. users' = [users EXCEPT ![w] =
                         [users[w] EXCEPT !.role = handlers[h].role,
                                          !.status = handlers[h].status]]
        BY <3>3, <2>1, <1>u DEF AdminWrite
      <4>3. /\ [users[w] EXCEPT !.role = handlers[h].role,
                               !.status = handlers[h].status] \in Account
            /\ [users[w] EXCEPT !.role = handlers[h].role,
                               !.status = handlers[h].status].verified = users[w].verified
        BY <4>1, <2>1, AccountColumns
      <4>4. proven' = proven
        BY <3>3 DEF AdminWrite, history
      <4>5. QED
        BY <4>2, <4>3, <4>4, <2>1, <1>u
    <3>4. QED
      BY <1>3, <3>1, <3>2, <3>3
  <2>3. users'[w] # Unborn
    BY <2>2, NoRowIsNone
  <2>4. QED
    BY <2>1, <2>2, <2>3, NoRowIsNone
<1>4. CASE UNCHANGED <<users, proven>>
  BY <1>4
<1>5. QED
  BY <1>1, <1>2, <1>3, <1>4
     DEF Next, Step, AskLink, AskReset, RevokeResets, IssueLink, VerifyRead,
         MarkVerifyUsed, LoginRead, LoginMark, LoginSign, RefreshRead, RefreshFinish,
         Logout, Admitted, RevokeOneRead, RevokeOneDrop, RevokeAll, ChangeRead,
         ChangeCommit, ResetRead, ResetCommit, AdminRead, AdminCount, AdminRevoke,
         Fail, TimePasses, tables, history

LEMMA LinkEffects ==
    ASSUME TypeOK, Next
    PROVE  \A l \in Links : LinkEffect(l)
<1> USE DEF LinkEffect
<1>l. /\ links \in [Links -> Link \cup NoRow]
      /\ \A l \in Links : Issued(l) => links[l] \in Link
  BY DEF TypeOK, Issued
<1>u. \A x \in Link :
         LET y == [x EXCEPT !.used = TRUE] IN
         y \notin NoRow /\ y.kind = x.kind /\ y.user = x.user /\ y.used
  <2>1. \A x \in Link : [x EXCEPT !.used = TRUE] \in Link
    BY DEF Link
  <2>2. QED
    BY <2>1, NoRowIsNone DEF Link
<1>1. ASSUME NEW u, NEW kind, links' = Spent(u, kind)
      PROVE  \A l \in Links : LinkEffect(l)
  BY <1>1, <1>l, <1>u DEF Spent, Issued
<1>2. ASSUME NEW k \in Links, links' = Marked(k)
      PROVE  \A l \in Links : LinkEffect(l)
  BY <1>2, <1>l, <1>u DEF Marked, Issued
<1>3. ASSUME NEW h \in Handlers, IssueLink(h)
      PROVE  \A l \in Links : LinkEffect(l)
  <2>1. PICK l \in Links :
           /\ links[l] = Unborn
           /\ links' = [links EXCEPT ![l] =
                 [kind |-> handlers[h].kind, user |-> handlers[h].user,
                  used |-> FALSE, fresh |-> TRUE]]
    BY <1>3 DEF IssueLink
  <2>2. /\ \A k \in Links \ {l} : links'[k] = links[k]
        /\ links'[l] = [kind |-> handlers[h].kind, user |-> handlers[h].user,
                        used |-> FALSE, fresh |-> TRUE]
    BY <2>1, <1>l
  <2>3. links'[l] \notin NoRow
    BY <2>2 DEF NoRow, Unborn, Gone
  <2>4. QED
    BY <1>3, <2>1, <2>2, <2>3 DEF IssueLink, Issued
<1>4. ASSUME NEW h \in Handlers, Erase(h)
      PROVE  \A l \in Links : LinkEffect(l)
  BY <1>4 DEF Erase
<1>5. CASE TimePasses
  <2>1. \A x \in Link :
           LET y == [x EXCEPT !.fresh = FALSE] IN
           y \notin NoRow /\ y.kind = x.kind /\ y.user = x.user /\ y.used = x.used
    <3>1. \A x \in Link : [x EXCEPT !.fresh = FALSE] \in Link
      BY DEF Link
    <3>2. QED
      BY <3>1, NoRowIsNone DEF Link
  <2>2. CASE UNCHANGED links
    BY <2>2
  <2>3. ASSUME NEW l \in Links, Issued(l),
               links' = [links EXCEPT ![l].fresh = FALSE]
        PROVE  \A k \in Links : LinkEffect(k)
    <3>1. links' = [links EXCEPT ![l] = [links[l] EXCEPT !.fresh = FALSE]]
      BY <2>3
    <3>2. QED
      BY <3>1, <2>1, <2>3, <1>l DEF Issued
  <2>4. QED
    BY <1>5, <2>2, <2>3 DEF TimePasses
<1>6. CASE UNCHANGED links
  BY <1>6
<1>7. ASSUME NEW h \in Handlers, LoginMark(h)
      PROVE  \A l \in Links : LinkEffect(l)
  <2>1. handlers[h].link \in Links
    BY <1>7, LocalFields DEF LoginMark, At, TypeOK
  <2>2. QED
    BY <1>7, <2>1, <1>2 DEF LoginMark
<1>8. QED
  BY <1>1, <1>3, <1>4, <1>5, <1>6, <1>7
     DEF Next, Step, Register, AskLink, AskReset, RevokeResets, VerifyRead,
         SetVerified, MarkVerifyUsed, LoginRead, LoginSign, RefreshRead,
         RefreshFinish, Logout, Admitted, RevokeOneRead, RevokeOneDrop, RevokeAll,
         ChangeRead, ChangeCommit, ResetRead, ResetCommit, Deactivate, AdminRead,
         AdminCount, AdminWrite, AdminRevoke, Fail, tables, history

LEMMA SessionEffects ==
    ASSUME TypeOK, Next
    PROVE  \A s \in Sessions : SessionEffect(s)
<1> USE DEF SessionEffect
<1>s. /\ sessions \in [Sessions -> Session \cup NoRow]
      /\ \A s \in Sessions : Live(s) => sessions[s] \in Session
  BY DEF TypeOK, Live
<1>1. ASSUME NEW S, sessions' = Without(S)
      PROVE  \A s \in Sessions : SessionEffect(s)
  BY <1>1 DEF Without
<1>2. ASSUME NEW h \in Handlers, LoginSign(h)
      PROVE  \A s \in Sessions : SessionEffect(s)
  <2>1. PICK s \in Sessions :
           /\ sessions[s] = Unborn
           /\ sessions' = [sessions EXCEPT ![s] = [user |-> handlers[h].user, fresh |-> TRUE]]
    BY <1>2 DEF LoginSign
  <2>2. /\ \A k \in Sessions \ {s} : sessions'[k] = sessions[k]
        /\ sessions'[s] = [user |-> handlers[h].user, fresh |-> TRUE]
    BY <2>1, <1>s
  <2>3. sessions'[s] \notin NoRow
    BY <2>2 DEF NoRow, Unborn, Gone
  <2>4. QED
    BY <1>2, <2>1, <2>2, <2>3 DEF LoginSign, Live
<1>3. CASE TimePasses
  <2>1. \A x \in Session :
           LET y == [x EXCEPT !.fresh = FALSE] IN y \notin NoRow /\ y.user = x.user
    <3>1. \A x \in Session : [x EXCEPT !.fresh = FALSE] \in Session
      BY DEF Session
    <3>2. QED
      BY <3>1, NoRowIsNone DEF Session
  <2>2. CASE UNCHANGED sessions
    BY <2>2
  <2>3. ASSUME NEW s \in Sessions, Live(s),
               sessions' = [sessions EXCEPT ![s].fresh = FALSE]
        PROVE  \A k \in Sessions : SessionEffect(k)
    <3>1. sessions' = [sessions EXCEPT ![s] = [sessions[s] EXCEPT !.fresh = FALSE]]
      BY <2>3
    <3>2. QED
      BY <3>1, <2>1, <2>3, <1>s DEF Live
  <2>4. QED
    BY <1>3, <2>2, <2>3 DEF TimePasses
<1>4. CASE UNCHANGED sessions
  BY <1>4
<1>5. QED
  BY <1>1, <1>2, <1>3, <1>4, ZenonT(60)
     DEF Next, Step, Register, AskLink, AskReset, RevokeResets, IssueLink, VerifyRead,
         SetVerified, MarkVerifyUsed, LoginRead, LoginMark, RefreshRead,
         RefreshFinish, Logout, Admitted, RevokeOneRead, RevokeOneDrop, RevokeAll,
         ChangeRead, ChangeCommit, ResetRead, ResetCommit, Deactivate, Erase,
         AdminRead, AdminCount, AdminWrite, AdminRevoke, Fail, tables, history

LEMMA LocalEffects ==
    ASSUME TypeOK, RegisteredHold, ProvenFirst, Next
    PROVE  \A h \in Handlers : LocalEffect(h)
<1> USE DEF LocalEffect
<1>t. handlers \in [Handlers -> Local]
  BY DEF TypeOK
<1>go. ASSUME NEW h \in Handlers, NEW local, Goto(h, local)
       PROVE  handlers'[h] = local /\ \A g \in Handlers \ {h} : handlers'[g] = handlers[g]
  BY <1>go, <1>t DEF Goto
<1>st. ASSUME NEW h \in Handlers, NEW local, Start(h, local)
       PROVE  handlers'[h] = local /\ \A g \in Handlers \ {h} : handlers'[g] = handlers[g]
  BY <1>st, <1>go DEF Start
<1>r. \A h \in Handlers : handlers[h] # Idle => Registered(handlers[h].user)
  BY DEF RegisteredHold
<1>l. \A l \in Links : Issued(l) => Registered(links[l].user)
  BY DEF RegisteredHold
<1>1. ASSUME NEW h \in Handlers, NEW u \in Users, Register(h, u)
      PROVE  \A g \in Handlers : LocalEffect(g)
  <2>1. users'[u] # Unborn
    <3>1. CASE Registered(u)
      BY <1>1, <3>1 DEF Register, Registered
    <3>2. CASE ~Registered(u)
      <4>1. users' = [users EXCEPT ![u] = NewAccount]
        BY <1>1, <3>2 DEF Register
      <4>2. users'[u] = NewAccount
        BY <4>1 DEF TypeOK
      <4>3. QED
        BY <4>2 DEF NewAccount, Unborn
    <3>3. QED
      BY <3>1, <3>2
  <2>2. Start(h, [at |-> "issuing", kind |-> "verify", user |-> u])
    BY <1>1 DEF Register
  <2>3. QED
    BY <2>1, <2>2, <1>st
<1>2. ASSUME NEW h \in Handlers, NEW u \in Users, AskLink(h, u)
      PROVE  \A g \in Handlers : LocalEffect(g)
  <2>1. Registered(u) /\ users'[u] # Unborn
    BY <1>2 DEF AskLink, tables, Registered
  <2> DEFINE kind == IF users[u].verified THEN "login" ELSE "verify"
  <2>k. Start(h, [at |-> "issuing", user |-> u, kind |-> kind])
    BY <1>2 DEF AskLink
  <2> HIDE DEF kind
  <2>2. CASE users[u].verified
    <3>1. kind = "login"
      BY <2>2 DEF kind
    <3>2. Start(h, [at |-> "issuing", user |-> u, kind |-> "login"])
      BY <3>1, <2>k
    <3>3. QED
      BY <2>1, <2>2, <3>2, <1>st
  <2>3. CASE ~users[u].verified
    <3>1. kind = "verify"
      BY <2>3 DEF kind
    <3>2. Start(h, [at |-> "issuing", user |-> u, kind |-> "verify"])
      BY <3>1, <2>k
    <3>3. QED
      BY <2>1, <3>2, <1>st
  <2>4. QED
    BY <2>2, <2>3
<1>3. ASSUME NEW h \in Handlers, NEW u \in Users, AskReset(h, u)
      PROVE  \A g \in Handlers : LocalEffect(g)
  BY <1>3, <1>st DEF AskReset
<1>4. ASSUME NEW h \in Handlers, RevokeResets(h)
      PROVE  \A g \in Handlers : LocalEffect(g)
  <2>1. handlers[h] # Idle
    BY <1>4 DEF RevokeResets, At, Idle
  <2>2. Goto(h, [at |-> "issuing", kind |-> "reset", user |-> handlers[h].user])
    BY <1>4 DEF RevokeResets
  <2>3. QED
    BY <2>1, <2>2, <1>go
<1>5. ASSUME NEW h \in Handlers, Goto(h, Idle)
      PROVE  \A g \in Handlers : LocalEffect(g)
  BY <1>5, <1>go
<1>6. ASSUME NEW h \in Handlers, NEW l \in Links, VerifyRead(h, l)
      PROVE  \A g \in Handlers : LocalEffect(g)
  <2>1. Registered(links[l].user)
    BY <1>6, <1>l DEF VerifyRead
  <2>2. PICK at \in {"marking", "verifying"} :
           Start(h, [at |-> at, user |-> links[l].user])
    BY <1>6 DEF VerifyRead
  <2>3. QED
    BY <2>1, <2>2, <1>st
<1>7. ASSUME NEW h \in Handlers, SetVerified(h)
      PROVE  \A g \in Handlers : LocalEffect(g)
  <2>1. handlers[h] # Idle
    BY <1>7 DEF SetVerified, At, Idle
  <2>2. Goto(h, [at |-> "marking", user |-> handlers[h].user])
    BY <1>7 DEF SetVerified
  <2>3. QED
    BY <2>1, <2>2, <1>go, <1>r
<1>8. ASSUME NEW h \in Handlers, NEW l \in Links, LoginRead(h, l)
      PROVE  \A g \in Handlers : LocalEffect(g)
  <2>1. Start(h, [at |-> "entering", link |-> l, user |-> links[l].user])
    BY <1>8 DEF LoginRead
  <2>2. UNCHANGED links /\ Issued(l) /\ links[l].kind = "login"
    BY <1>8 DEF LoginRead, tables, Valid
  <2>3. QED
    BY <2>1, <2>2, <1>st
<1>9. ASSUME NEW h \in Handlers, LoginMark(h)
      PROVE  \A g \in Handlers : LocalEffect(g)
  <2>1. handlers[h] \in [at : {"entering", "signing", "resetting"}, link : Links, user : Users]
    BY <1>9, <1>t, LocalFields DEF LoginMark, At
  <2>2. [handlers[h] EXCEPT !.at = "signing"]
           = [at |-> "signing", link |-> handlers[h].link, user |-> handlers[h].user]
    BY <2>1
  <2>3. Goto(h, [at |-> "signing", link |-> handlers[h].link, user |-> handlers[h].user])
    BY <1>9, <2>2 DEF LoginMark
  <2>4. handlers[h].at = "entering" /\ links' = Marked(handlers[h].link)
    BY <1>9 DEF LoginMark, At
  <2>5. QED
    BY <2>3, <2>4, <1>go
<1>10. ASSUME NEW h \in Handlers, NEW s \in Sessions, RefreshRead(h, s)
       PROVE  \A g \in Handlers : LocalEffect(g)
  <2>1. Start(h, [at |-> "refreshing", session |-> s, user |-> sessions[s].user]) /\ Live(s)
    BY <1>10 DEF RefreshRead
  <2>2. QED
    BY <2>1, <1>st
<1>11. ASSUME NEW h \in Handlers, NEW u \in Users, Admitted(h, u)
       PROVE  \A g \in Handlers : LocalEffect(g)
  <2>1. Registered(u)
    BY <1>11 DEF Admitted, RegisteredHold, ProvenFirst
  <2>2. Start(h, [at |-> "admitted", user |-> u, role |-> users[u].role])
    BY <1>11 DEF Admitted
  <2>3. QED
    BY <2>1, <2>2, <1>st
<1>12. ASSUME NEW h \in Handlers, RevokeOneRead(h)
       PROVE  \A g \in Handlers : LocalEffect(g)
  <2>1. PICK s \in Listed(handlers[h].user) :
           Goto(h, [at |-> "dropping", user |-> handlers[h].user, session |-> s])
    BY <1>12 DEF RevokeOneRead
  <2>2. Live(s) /\ sessions[s].user = handlers[h].user
    BY <2>1 DEF Listed
  <2>3. UNCHANGED sessions /\ handlers[h].at = "admitted"
    BY <1>12 DEF RevokeOneRead, tables, At
  <2>4. QED
    BY <2>1, <2>2, <2>3, <1>go
<1>13. ASSUME NEW h \in Handlers, ChangeRead(h)
       PROVE  \A g \in Handlers : LocalEffect(g)
  <2>1. handlers[h] # Idle
    BY <1>13 DEF ChangeRead, At, Idle
  <2>2. Goto(h, [at |-> "changing", user |-> handlers[h].user])
    BY <1>13 DEF ChangeRead
  <2>3. QED
    BY <2>1, <2>2, <1>go, <1>r
<1>14. ASSUME NEW h \in Handlers, NEW l \in Links, ResetRead(h, l)
       PROVE  \A g \in Handlers : LocalEffect(g)
  <2>1. Start(h, [at |-> "resetting", link |-> l, user |-> links[l].user])
    BY <1>14 DEF ResetRead
  <2>2. UNCHANGED links /\ Issued(l) /\ links[l].kind = "reset"
    BY <1>14 DEF ResetRead, tables, Valid
  <2>3. QED
    BY <2>1, <2>2, <1>st
<1>15. ASSUME NEW h \in Handlers, NEW u \in Users, AdminRead(h, u)
       PROVE  \A g \in Handlers : LocalEffect(g)
  <2>1. Registered(u)
    BY <1>15 DEF AdminRead
  <2>2. \E at \in {"counting", "deciding"} : \E role, status :
           Goto(h, [at |-> at, user |-> u, role |-> role, status |-> status])
    BY <1>15 DEF AdminRead
  <2>3. QED
    BY <2>1, <2>2, <1>go
<1>16. ASSUME NEW h \in Handlers, AdminCount(h)
       PROVE  \A g \in Handlers : LocalEffect(g)
  <2>1. handlers[h] # Idle /\ handlers[h] \in [at : {"counting", "deciding"}, user : Users,
                                               role : Roles, status : UserStatuses]
    BY <1>16, <1>t, LocalFields DEF AdminCount, At, Idle
  <2>2. /\ [handlers[h] EXCEPT !.at = "deciding"].at = "deciding"
        /\ [handlers[h] EXCEPT !.at = "deciding"].user = handlers[h].user
    BY <2>1
  <2>3. Goto(h, [handlers[h] EXCEPT !.at = "deciding"])
    BY <1>16 DEF AdminCount
  <2>4. QED
    BY <2>1, <2>2, <2>3, <1>go, <1>r
<1>17. ASSUME NEW h \in Handlers, AdminWrite(h)
       PROVE  \A g \in Handlers : LocalEffect(g)
  <2>1. handlers[h] # Idle
    BY <1>17 DEF AdminWrite, At, Idle
  <2>2. Goto(h, Idle) \/ Goto(h, [at |-> "banning", user |-> handlers[h].user])
    BY <1>17 DEF AdminWrite
  <2>3. QED
    BY <2>1, <2>2, <1>5, <1>go, <1>r
<1>18. CASE UNCHANGED handlers
  BY <1>18
<1>19. QED
  BY <1>1, <1>2, <1>3, <1>4, <1>5, <1>6, <1>7, <1>8, <1>9, <1>10, <1>11, <1>12,
     <1>13, <1>14, <1>15, <1>16, <1>17, <1>18
     DEF Next, Step, IssueLink, MarkVerifyUsed, LoginSign, RefreshFinish, Logout,
         RevokeOneDrop, RevokeAll, ChangeCommit, ResetCommit, Deactivate, Erase,
         AdminRevoke, Fail, TimePasses

(* Who gets to be proven or to hold a token, and which links get to act.   *)
LEMMA HistoryEffects ==
    ASSUME Next
    PROVE  /\ \A u \in proven' : u \in proven
                 \/ \E h \in Handlers : At(h, "verifying") /\ u = handlers[h].user
           /\ \A u \in bearers' : u \in bearers
                 \/ \E h \in Handlers :
                       handlers[h].at \in {"signing", "refreshing"} /\ u = handlers[h].user
           /\ \A l \in acted' : l \in acted
                 \/ \E h \in Handlers :
                       /\ l = handlers[h].link
                       /\ \/ At(h, "signing") /\ UNCHANGED links
                          \/ At(h, "resetting") /\ links' = Spent(handlers[h].user, "reset")
<1>1. CASE UNCHANGED <<proven, bearers, acted>>
  BY <1>1
<1>2. ASSUME NEW h \in Handlers, SetVerified(h) \/ LoginSign(h) \/ RefreshFinish(h) \/ ResetCommit(h)
      PROVE  /\ \A u \in proven' : u \in proven
                   \/ (At(h, "verifying") /\ u = handlers[h].user)
             /\ \A u \in bearers' : u \in bearers
                   \/ (handlers[h].at \in {"signing", "refreshing"} /\ u = handlers[h].user)
             /\ \A l \in acted' : l \in acted
                   \/ /\ l = handlers[h].link
                      /\ \/ At(h, "signing") /\ UNCHANGED links
                         \/ At(h, "resetting") /\ links' = Spent(handlers[h].user, "reset")
  <2>1. CASE SetVerified(h)
    BY <2>1 DEF SetVerified, At
  <2>2. CASE LoginSign(h)
    BY <2>2 DEF LoginSign, At
  <2>3. CASE RefreshFinish(h)
    BY <2>3 DEF RefreshFinish, At, history
  <2>4. CASE ResetCommit(h)
    BY <2>4 DEF ResetCommit, At
  <2>5. QED
    BY <1>2, <2>1, <2>2, <2>3, <2>4
<1>3. CASE bearers' \subseteq bearers /\ UNCHANGED <<proven, acted>>
  BY <1>3
<1>4. QED
  BY <1>1, <1>2, <1>3, ZenonT(60)
     DEF Next, Step, Register, AskLink, AskReset, RevokeResets, IssueLink, VerifyRead,
         MarkVerifyUsed, LoginRead, LoginMark, RefreshRead, Logout, Admitted,
         RevokeOneRead, RevokeOneDrop, RevokeAll, ChangeRead, ChangeCommit, ResetRead,
         Deactivate, Erase, AdminRead, AdminCount, AdminWrite, AdminRevoke, Fail,
         TimePasses, MayLoseToken, tables, history

-----------------------------------------------------------------------------
(* Each part of IInv is kept by a step, whatever it is.                    *)

LEMMA RegisteredStep == IInv /\ Next => RegisteredHold'
<1> SUFFICES ASSUME IInv, Next PROVE RegisteredHold'
  OBVIOUS
<1>0. TypeOK /\ RegisteredHold /\ ProvenFirst /\ TypeOK'
  BY TypeStep DEF IInv
<1>r. \A u \in Users : Registered(u) => Registered(u)'
  BY <1>0, UserEffects DEF UserEffect
<1>h. \A h \in Handlers : handlers[h] # Idle =>
         handlers[h].user \in Users /\ Registered(handlers[h].user)
  BY <1>0, LocalFields DEF RegisteredHold, TypeOK
<1>1. ASSUME NEW u \in proven' PROVE Registered(u)'
  <2>1. CASE u \in proven
    BY <2>1, <1>0, <1>r DEF RegisteredHold, TypeOK
  <2>2. ASSUME NEW h \in Handlers, At(h, "verifying"), u = handlers[h].user
        PROVE  Registered(u)'
    BY <2>2, <1>h, <1>r DEF At, Idle
  <2>3. QED
    BY <2>1, <2>2, HistoryEffects
<1>2. ASSUME NEW l \in Links, Issued(l)' PROVE Registered(links[l].user)'
  <2>1. CASE Issued(l) /\ links'[l].user = links[l].user
    <3>1. links[l].user \in Users /\ Registered(links[l].user)
      BY <2>1, <1>0 DEF RegisteredHold, TypeOK, Issued, Link
    <3>2. QED
      BY <2>1, <3>1, <1>r DEF Registered
  <2>2. ASSUME NEW h \in Handlers, At(h, "issuing"), links'[l].user = handlers[h].user
        PROVE  Registered(links[l].user)'
    BY <2>2, <1>h, <1>r DEF At, Idle, Registered
  <2>3. LinkEffect(l)
    BY <1>0, LinkEffects
  <2>4. QED
    BY <1>2, <2>1, <2>2, <2>3, NoRowIsNone DEF LinkEffect, Issued, NoRow
<1>3. ASSUME NEW h \in Handlers, handlers'[h] # Idle PROVE Registered(handlers[h].user)'
  <2> DEFINE u == handlers'[h].user
  <2>1. u \in Users
    BY <1>3, <1>0, LocalFields DEF TypeOK
  <2>2. SUFFICES Registered(u) \/ users'[u] # Unborn
    BY <2>1, <1>r DEF Registered
  <2>3. \A l \in Links : Issued(l) => Registered(links[l].user)
    BY <1>0 DEF RegisteredHold
  <2>4. \A s \in Sessions : Live(s) => Registered(sessions[s].user)
    BY <1>0 DEF RegisteredHold, ProvenFirst
  <2>5. LocalEffect(h)
    BY <1>0, LocalEffects
  <2>6. handlers'[h] \in Local
    BY <1>0 DEF TypeOK
  <2>7. /\ handlers'[h].at \in {"entering", "resetting"} => handlers'[h].link \in Links
        /\ handlers'[h].at = "refreshing" => handlers'[h].session \in Sessions
    BY <2>6, LocalFields
  <2>8. handlers[h].at \in {"entering", "admitted"} => handlers[h] # Idle
    BY DEF Idle
  <2>9. QED
    BY <1>3, <1>h, <2>3, <2>4, <2>5, <2>7, <2>8 DEF LocalEffect
<1>4. QED
  BY <1>1, <1>2, <1>3 DEF RegisteredHold

LEMMA ProvenStep == IInv /\ Next => ProvenFirst'
<1> SUFFICES ASSUME IInv, Next PROVE ProvenFirst'
  OBVIOUS
<1>0. TypeOK /\ RegisteredHold /\ ProofHolds /\ ProvenFirst /\ proven \subseteq proven'
  BY UserEffects DEF IInv
<1>1. bearers' \subseteq proven'
  BY <1>0, HistoryEffects DEF ProofHolds, ProvenFirst
<1>2. ASSUME NEW s \in Sessions, Live(s)' PROVE sessions'[s].user \in proven'
  <2>1. SessionEffect(s)
    BY <1>0, SessionEffects
  <2>2. \A h \in Handlers : At(h, "signing") => handlers[h].user \in proven
    BY <1>0 DEF ProofHolds, At
  <2>3. QED
    BY <1>0, <1>2, <2>1, <2>2 DEF SessionEffect, ProvenFirst, Live, NoRow
<1>3. QED
  BY <1>1, <1>2 DEF ProvenFirst

LEMMA ProofStep == IInv /\ Next => ProofHolds'
<1> SUFFICES ASSUME IInv, Next PROVE ProofHolds'
  OBVIOUS
<1>0. /\ TypeOK /\ TypeOK' /\ RegisteredHold /\ ProofHolds /\ ProvenFirst
      /\ proven \subseteq proven'
  BY TypeStep, UserEffects DEF IInv
<1>1. ASSUME NEW u \in Users, Registered(u)', users'[u].verified PROVE u \in proven'
  BY <1>0, <1>1, UserEffects DEF UserEffect, ProofHolds
<1>2. ASSUME NEW l \in Links, Issued(l)', links'[l].kind = "login"
      PROVE  links'[l].user \in proven'
  <2>1. LinkEffect(l)
    BY <1>0, LinkEffects
  <2>2. \A h \in Handlers : At(h, "issuing") /\ handlers[h].kind = "login"
           => handlers[h].user \in proven
    BY <1>0 DEF ProofHolds, At
  <2>3. QED
    BY <1>0, <1>2, <2>1, <2>2 DEF LinkEffect, ProofHolds, Issued, NoRow
<1>3. ASSUME NEW h \in Handlers
      PROVE  /\ handlers'[h].at = "issuing" /\ handlers'[h].kind = "login"
                   => handlers'[h].user \in proven'
             /\ handlers'[h].at \in {"entering", "signing", "refreshing"}
                   => handlers'[h].user \in proven'
  <2>1. LocalEffect(h)
    BY <1>0, LocalEffects
  <2>2. handlers'[h] \in Local
    BY <1>0 DEF TypeOK
  <2>3. /\ handlers'[h] # Idle => handlers'[h].user \in Users
        /\ handlers'[h].at \in {"entering", "resetting"} => handlers'[h].link \in Links
        /\ handlers'[h].at = "refreshing" => handlers'[h].session \in Sessions
    BY <2>2, LocalFields
  <2>4. \A l \in Links : Issued(l) /\ links[l].kind = "login" => links[l].user \in proven
    BY <1>0 DEF ProofHolds
  <2>5. \A s \in Sessions : Live(s) => sessions[s].user \in proven
    BY <1>0 DEF ProvenFirst
  <2>6. \A u \in Users : Registered(u) /\ users[u].verified => u \in proven
    BY <1>0 DEF ProofHolds
  <2>7. /\ handlers[h].at = "issuing" /\ handlers[h].kind = "login"
              => handlers[h].user \in proven
        /\ handlers[h].at \in {"entering", "signing", "refreshing"}
              => handlers[h].user \in proven
    BY <1>0 DEF ProofHolds
  <2>8. CASE handlers'[h] \in {handlers[h], Idle}
    BY <1>0, <2>7, <2>8 DEF Idle
  <2>9. CASE handlers'[h] \notin {handlers[h], Idle}
    BY <1>0, <2>1, <2>3, <2>4, <2>5, <2>6, <2>7, <2>9 DEF LocalEffect
  <2>10. QED
    BY <2>8, <2>9
<1>4. QED
  BY <1>1, <1>2, <1>3 DEF ProofHolds

LEMMA LinksStep == IInv /\ Next => LinksHold'
<1> SUFFICES ASSUME IInv, Next PROVE LinksHold'
  OBVIOUS
<1>0. TypeOK /\ TypeOK' /\ RegisteredHold /\ LinksHold /\ ProvenFirst
  BY TypeStep DEF IInv
<1> SUFFICES ASSUME NEW h \in Handlers
             PROVE  /\ handlers'[h].at = "entering" => links'[handlers'[h].link] # Unborn
                    /\ handlers'[h].at = "signing" =>
                          \/ links'[handlers'[h].link] = Gone
                          \/ links'[handlers'[h].link] \notin NoRow
                             /\ links'[handlers'[h].link].used
                    /\ handlers'[h].at = "resetting" =>
                          \/ links'[handlers'[h].link] = Gone
                          \/ /\ links'[handlers'[h].link] \notin NoRow
                             /\ links'[handlers'[h].link].kind = "reset"
                             /\ links'[handlers'[h].link].user = handlers'[h].user
  BY DEF LinksHold, Issued
<1> DEFINE me == handlers[h]
           new == handlers'[h]
<1>1. new \in Local
  BY <1>0 DEF TypeOK
<1>2. CASE new.at \notin {"entering", "signing", "resetting"}
  BY <1>2
<1>3. CASE new.at \in {"entering", "signing", "resetting"} /\ new = me
  <2>1. me.link \in Links
    BY <1>1, <1>3, LocalFields
  <2>2. \A k \in Links : LinkEffect(k)
    BY <1>0, LinkEffects
  <2>3. /\ me.at = "entering" => links[me.link] # Unborn
        /\ me.at = "signing" =>
              links[me.link] = Gone \/ (Issued(me.link) /\ links[me.link].used)
        /\ me.at = "resetting" =>
              \/ links[me.link] = Gone
              \/ Issued(me.link) /\ links[me.link].kind = "reset"
                                 /\ links[me.link].user = me.user
    BY <1>0 DEF LinksHold
  <2> DEFINE l == me.link
  <2>4. links[l] # Unborn
    BY <1>3, <2>3, NoRowIsNone DEF Issued, NoRow
  <2>5. \/ links'[l] = links[l]
        \/ Issued(l) /\ links'[l] = Gone
        \/ /\ Issued(l) /\ links'[l] \notin NoRow
           /\ links'[l].kind = links[l].kind /\ links'[l].user = links[l].user
           /\ links[l].used => links'[l].used
    BY <2>1, <2>2, <2>4 DEF LinkEffect, Issued
  <2>6. Gone # Unborn /\ Unborn \in NoRow
    BY NoRowIsNone DEF NoRow
  <2> HIDE DEF l
  <2>7. links'[l] # Unborn
    BY <2>4, <2>5, <2>6
  <2>8. me.at = "signing" => links'[l] = Gone \/ (links'[l] \notin NoRow /\ links'[l].used)
    <3>1. SUFFICES ASSUME me.at = "signing"
                   PROVE  links'[l] = Gone \/ (links'[l] \notin NoRow /\ links'[l].used)
      OBVIOUS
    <3>2. links[l] = Gone \/ (links[l] \notin NoRow /\ links[l].used)
      BY <2>3, <3>1 DEF Issued, l
    <3>3. QED
      BY <3>2, <2>5 DEF Issued, NoRow
  <2>9. me.at = "resetting" =>
          links'[l] = Gone \/ (links'[l] \notin NoRow /\ links'[l].kind = "reset"
                                                     /\ links'[l].user = me.user)
    <3>1. SUFFICES ASSUME me.at = "resetting"
                   PROVE  links'[l] = Gone \/ (links'[l] \notin NoRow
                             /\ links'[l].kind = "reset" /\ links'[l].user = me.user)
      OBVIOUS
    <3>2. links[l] = Gone \/ (links[l] \notin NoRow /\ links[l].kind = "reset"
                                                   /\ links[l].user = me.user)
      BY <2>3, <3>1 DEF Issued, l
    <3>3. QED
      BY <3>2, <2>5 DEF Issued, NoRow
  <2>10. QED
    BY <1>3, <2>7, <2>8, <2>9 DEF l
<1>4. CASE new.at \in {"entering", "signing", "resetting"} /\ new # me
  <2>1. new # Idle
    BY <1>4 DEF Idle
  <2>2. new.link \in Links
    BY <1>1, <1>4, LocalFields
  <2>3. LocalEffect(h)
    BY <1>0, LocalEffects
  <2>4. CASE new.at = "entering"
    <3>1. UNCHANGED links /\ Issued(new.link)
      BY <1>4, <2>1, <2>3, <2>4 DEF LocalEffect
    <3>2. QED
      BY <3>1, <2>4 DEF Issued, NoRow
  <2>5. CASE new.at = "resetting"
    <3>1. /\ UNCHANGED links /\ Issued(new.link) /\ links[new.link].kind = "reset"
          /\ links[new.link].user = new.user
      BY <1>4, <2>1, <2>3, <2>5 DEF LocalEffect
    <3>2. QED
      BY <3>1, <2>5 DEF Issued
  <2>6. CASE new.at = "signing"
    <3>1. me.at = "entering" /\ links' = Marked(me.link) /\ new.link = me.link
      BY <1>4, <2>1, <2>3, <2>6 DEF LocalEffect
    <3>2. links[new.link] # Unborn
      BY <3>1, <1>0 DEF LinksHold
    <3>3. CASE Issued(new.link)
      <4>1. links[new.link] \in Link /\ links \in [Links -> Link \cup NoRow]
        BY <1>0, <2>2, <3>3 DEF TypeOK, Issued
      <4>2. links' = [links EXCEPT ![new.link] = [links[new.link] EXCEPT !.used = TRUE]]
        BY <3>1, <3>3 DEF Marked
      <4>3. links'[new.link] = [links[new.link] EXCEPT !.used = TRUE]
        BY <4>1, <4>2, <2>2
      <4>4. links'[new.link] \in Link /\ links'[new.link].used = TRUE
        BY <4>1, <4>3 DEF Link
      <4>5. links'[new.link] \notin NoRow
        BY <4>4, NoRowIsNone
      <4>6. QED
        BY <4>4, <4>5, <2>6
    <3>4. CASE ~Issued(new.link)
      <4>1. links' = links
        BY <3>1, <3>4 DEF Marked
      <4>2. QED
        BY <4>1, <3>2, <3>4, <2>6 DEF Issued, NoRow
    <3>5. QED
      BY <3>3, <3>4
  <2>7. QED
    BY <1>4, <2>4, <2>5, <2>6
<1>5. QED
  BY <1>2, <1>3, <1>4

LEMMA SessionsStep == IInv /\ Next => SessionsHold'
<1> SUFFICES ASSUME IInv, Next PROVE SessionsHold'
  OBVIOUS
<1>0. TypeOK /\ TypeOK' /\ RegisteredHold /\ SessionsHold /\ ProvenFirst
  BY TypeStep DEF IInv
<1> SUFFICES ASSUME NEW h \in Handlers, handlers'[h].at = "dropping"
             PROVE  \/ sessions'[handlers'[h].session] = Gone
                    \/ /\ sessions'[handlers'[h].session] \notin NoRow
                       /\ sessions'[handlers'[h].session].user = handlers'[h].user
  BY DEF SessionsHold, Live
<1> DEFINE new == handlers'[h]
           s == new.session
<1>1. new \in Local /\ s \in Sessions
  BY <1>0, LocalFields DEF TypeOK
<1>2. CASE new = handlers[h]
  <2>1. sessions[s] = Gone \/ (sessions[s] \notin NoRow /\ sessions[s].user = new.user)
    BY <1>0, <1>2 DEF SessionsHold, Live
  <2>2. \A k \in Sessions : SessionEffect(k)
    BY <1>0, SessionEffects
  <2>3. QED
    BY <1>1, <2>1, <2>2, NoRowIsNone DEF SessionEffect, Live, NoRow
<1>3. CASE new # handlers[h]
  <2>1. new # Idle
    BY DEF Idle
  <2>2. LocalEffect(h)
    BY <1>0, LocalEffects
  <2>3. UNCHANGED sessions /\ Live(s) /\ sessions[s].user = new.user
    BY <1>3, <2>1, <2>2 DEF LocalEffect
  <2>4. QED
    BY <2>3 DEF Live
<1>4. QED
  BY <1>2, <1>3

LEMMA SpentStep == IInv /\ Next => SpentByEffect'
<1> SUFFICES ASSUME IInv, Next PROVE SpentByEffect'
  OBVIOUS
<1>0. TypeOK /\ TypeOK' /\ LinksHold /\ SpentByEffect
  BY TypeStep DEF IInv
<1> SUFFICES ASSUME NEW l \in acted'
             PROVE  links'[l] = Gone \/ (links'[l] \notin NoRow /\ links'[l].used)
  BY DEF SpentByEffect, Issued
<1>1. l \in Links
  BY <1>0 DEF TypeOK
<1>2. CASE l \in acted
  <2>1. links[l] = Gone \/ (links[l] \notin NoRow /\ links[l].used)
    BY <1>0, <1>2 DEF SpentByEffect, Issued
  <2>2. LinkEffect(l)
    BY <1>0, <1>1, LinkEffects
  <2>3. QED
    BY <2>1, <2>2, NoRowIsNone DEF LinkEffect, Issued, NoRow
<1>3. ASSUME NEW h \in Handlers, l = handlers[h].link, At(h, "signing"), UNCHANGED links
      PROVE  links'[l] = Gone \/ (links'[l] \notin NoRow /\ links'[l].used)
  BY <1>0, <1>3 DEF LinksHold, At, Issued
<1>4. ASSUME NEW h \in Handlers, l = handlers[h].link, At(h, "resetting"),
             links' = Spent(handlers[h].user, "reset")
      PROVE  links'[l] = Gone \/ (links'[l] \notin NoRow /\ links'[l].used)
  <2>1. \/ links[l] = Gone
        \/ Issued(l) /\ links[l].kind = "reset" /\ links[l].user = handlers[h].user
    BY <1>0, <1>4 DEF LinksHold, At
  <2>2. CASE links[l] = Gone
    BY <1>1, <1>4, <2>2 DEF Spent, Issued, NoRow
  <2>3. CASE Issued(l) /\ links[l].kind = "reset" /\ links[l].user = handlers[h].user
    <3>1. links[l] \in Link
      BY <1>0, <1>1, <2>3 DEF TypeOK, Issued
    <3>2. links'[l] = [links[l] EXCEPT !.used = TRUE]
      BY <1>1, <1>4, <2>3 DEF Spent
    <3>3. links'[l] \in Link /\ links'[l].used = TRUE
      BY <3>1, <3>2 DEF Link
    <3>4. QED
      BY <3>3, NoRowIsNone
  <2>4. QED
    BY <2>1, <2>2, <2>3
<1>5. QED
  BY <1>2, <1>3, <1>4, HistoryEffects

-----------------------------------------------------------------------------

LEMMA IInvInit == Init => IInv
<1> SUFFICES ASSUME Init PROVE IInv
  OBVIOUS
<1>1. TypeOK
  BY TypeInit
<1>2. RegisteredHold
  BY AccessAssumption DEF Init, RegisteredHold, Registered, Issued, NoRow, Unborn
<1>3. ProofHolds
  BY DEF Init, ProofHolds, Registered, Issued, NoRow, Idle
<1>4. LinksHold /\ SessionsHold
  BY DEF Init, LinksHold, SessionsHold, Idle
<1>5. SpentByEffect /\ ProvenFirst
  BY DEF Init, SpentByEffect, ProvenFirst, Live, NoRow
<1>6. QED
  BY <1>1, <1>2, <1>3, <1>4, <1>5 DEF IInv

LEMMA IInvStep == IInv /\ [Next]_vars => IInv'
<1>1. IInv /\ Next => IInv'
  BY TypeStep, RegisteredStep, ProofStep, LinksStep, SessionsStep, SpentStep, ProvenStep
     DEF IInv
<1>2. IInv /\ UNCHANGED vars => IInv'
  BY DEF IInv, vars, TypeOK, RegisteredHold, ProofHolds, LinksHold, SessionsHold,
         SpentByEffect, ProvenFirst, Registered, Issued, Live
<1>3. QED
  BY <1>1, <1>2

LEMMA InvariantIInv == Spec => []IInv
  BY IInvInit, IInvStep, PTL DEF Spec

-----------------------------------------------------------------------------
(* The tables of accounts, links and sessions, and what every handler has  *)
(* read of them, keep their types: no statement writes a row that is not   *)
(* there.                                                                  *)
THEOREM AccessTypeCorrect == Spec => []TypeOK
  BY InvariantIInv, PTL DEF IInv

(* auth.go: a link that opened a session or set a password is spent for    *)
(* good, for any number of calls in whatever order.                        *)
THEOREM SpentByEffectCorrect == Spec => []SpentByEffect
  BY InvariantIInv, PTL DEF IInv

(* auth.go and middleware/auth.go: whoever has a session or a token has    *)
(* followed a verification link sent to the address.                       *)
THEOREM ProvenFirstCorrect == Spec => []ProvenFirst
  BY InvariantIInv, PTL DEF IInv

LEMMA OwnSessionsStep ==
    ASSUME IInv, Next, NEW h \in Handlers, NEW s \in Sessions,
           handlers[h].at \in {"admitted", "dropping", "changing"},
           handlers'[h] # handlers[h], sessions'[s] # sessions[s]
    PROVE  sessions[s].user = handlers[h].user
<1>0. handlers \in [Handlers -> Local]
  BY DEF IInv, TypeOK
<1>1. ASSUME NEW g \in Handlers, NEW local, Goto(g, local)
      PROVE  g = h
  BY <1>0, <1>1 DEF Goto
<1>2. ASSUME NEW g \in Handlers, NEW S, sessions' = Without(S), NEW local, Goto(g, local)
      PROVE  g = h /\ s \in S /\ Live(s)
  BY <1>1, <1>2 DEF Without
<1>3. ASSUME NEW g \in Handlers, Goto(g, Idle), NEW S,
             S \subseteq SessionsOf(handlers[g].user), sessions' = Without(S)
      PROVE  sessions[s].user = handlers[h].user
  BY <1>2, <1>3 DEF SessionsOf
<1>4. ASSUME NEW g \in Handlers, RevokeOneDrop(g)
      PROVE  sessions[s].user = handlers[h].user
  <2>1. g = h /\ s = handlers[g].session /\ Live(s)
    BY <1>2, <1>4 DEF RevokeOneDrop
  <2>2. handlers[h].at = "dropping"
    BY <1>4, <2>1 DEF RevokeOneDrop, At
  <2>3. QED
    BY <2>1, <2>2 DEF IInv, SessionsHold, Live, NoRow
<1>5. ASSUME NEW g \in Handlers, RevokeAll(g) \/ ChangeCommit(g) \/ Deactivate(g) \/ Erase(g)
      PROVE  sessions[s].user = handlers[h].user
  <2>1. /\ Goto(g, Idle)
        /\ \E S : S \subseteq SessionsOf(handlers[g].user) /\ sessions' = Without(S)
    BY <1>5 DEF RevokeAll, ChangeCommit, Deactivate, Erase
  <2>2. QED
    BY <2>1, <1>3
<1>6. ASSUME NEW g \in Handlers, At(g, "signing") \/ At(g, "refreshing")
                                 \/ At(g, "resetting") \/ At(g, "banning"),
             NEW local, Goto(g, local)
      PROVE  FALSE
  BY <1>1, <1>6 DEF At
<1>7. handlers' # handlers /\ sessions' # sessions
  OBVIOUS
<1>8. QED
  BY <1>4, <1>5, <1>6, <1>7, ZenonT(60)
     DEF Next, Step, Register, AskLink, AskReset, RevokeResets, IssueLink, VerifyRead,
         SetVerified, MarkVerifyUsed, LoginRead, LoginMark, LoginSign, RefreshRead,
         RefreshFinish, Logout, Admitted, RevokeOneRead, ChangeRead, ResetRead,
         ResetCommit, AdminRead, AdminCount, AdminWrite, AdminRevoke, Fail, TimePasses,
         tables

(* sessions.go, auth.go, account.go: a call of a signed-in user ends       *)
(* sessions of that user only, though the one it deletes by id was looked  *)
(* up in an earlier statement.                                             *)
THEOREM OwnSessionsOnlyCorrect == Spec => OwnSessionsOnly
<1>1. IInv /\ [Next]_vars
        => [\A h \in Handlers, s \in Sessions :
               /\ handlers[h].at \in {"admitted", "dropping", "changing"}
               /\ handlers'[h] # handlers[h]
               /\ sessions'[s] # sessions[s]
               => sessions[s].user = handlers[h].user]_vars
  BY OwnSessionsStep
<1>2. QED
  BY <1>1, InvariantIInv, PTL DEF Spec, OwnSessionsOnly
=============================================================================

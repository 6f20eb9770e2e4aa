--------------------------- MODULE SessionsProofs ---------------------------
(***************************************************************************)
(* Sessions follow revocations, for every number of users, tokens, logins  *)
(* and password changes.  A live session is of the present era of its      *)
(* user, and who has read the user in the present era has read the present *)
(* hash: this holds of a login under way as well, which may become a       *)
(* session in any later state.                                             *)
(***************************************************************************)
EXTENDS Sessions, TLAPS

\* Era e and hash h were read from user u's row, in this era or an earlier one.
ReadFrom(u, e, h) ==
  /\ u \in Users /\ account[u].role # "none"
  /\ e <= era[u]
  /\ e = era[u] => h = account[u].hash

SessionFollows(t) ==
  session[t].row = "live" =>
    /\ session[t].stored = era[session[t].user]
    /\ ReadFrom(session[t].user, session[t].opened, session[t].hash)

LoginFollows(l) ==
  login[l].step # "idle" => ReadFrom(login[l].user, login[l].era, login[l].hash)

Follows ==
  /\ TypeOK
  /\ \A t \in Tokens : SessionFollows(t)
  /\ \A l \in Logins : LoginFollows(l)

-----------------------------------------------------------------------------
LEMMA EmptyRows ==
  /\ NoHash \in Hash /\ NoSession \in Session /\ NoLogin \in Login /\ NoChange \in Change
  /\ [NoSession EXCEPT !.row = "deleted"] \in Session
<1>1. NoHash \in Hash
  BY SessionsAssumption DEF NoHash, Hash
<1> QED BY <1>1 DEF NoSession, Session, NoLogin, Login, NoChange, Change

LEMMA InitFollows == Init => Follows
<1> SUFFICES ASSUME Init PROVE Follows
  OBVIOUS
<1>1. TypeOK
  BY EmptyRows DEF Init, TypeOK, Account, Roles
<1>2. \A t \in Tokens : session[t].row = "unused"
  BY DEF Init, NoSession
<1>3. \A l \in Logins : login[l].step = "idle"
  BY DEF Init, NoLogin
<1> QED BY <1>1, <1>2, <1>3 DEF Follows, SessionFollows, LoginFollows

\* A new row is nobody's so far.
LEMMA NewAccountFollows ==
  ASSUME Follows, NEW u \in Users, NEW role \in Roles \ {"none"}, NEW pw \in Passwords,
         NewAccount(u, role, pw), UNCHANGED <<session, login, change, era>>,
         tenant' \in {"none", "active", "inactive"}
  PROVE  Follows'
<1> DEFINE hash == [password |-> pw, era |-> era[u], line |-> 0]
           row  == [role |-> role, active |-> TRUE, changes |-> 0, hash |-> hash]
<1>1. TypeOK /\ account[u].role = "none" /\ account' = [account EXCEPT ![u] = row]
  BY Zenon DEF Follows, NewAccount
<1>2. row \in Account
  BY <1>1 DEF TypeOK, Account, Hash
<1> HIDE DEF row
<1>3. TypeOK'
  BY <1>1, <1>2 DEF TypeOK
<1>4. ASSUME NEW v \in Users, v # u PROVE account'[v] = account[v]
  BY <1>1, <1>4 DEF TypeOK
<1>5. ASSUME NEW t \in Tokens PROVE SessionFollows(t)'
  <2>1. SessionFollows(t)
    BY DEF Follows
  <2> QED BY <1>1, <1>4, <2>1 DEF SessionFollows, ReadFrom
<1>6. ASSUME NEW l \in Logins PROVE LoginFollows(l)'
  <2>1. LoginFollows(l)
    BY DEF Follows
  <2> QED BY <1>1, <1>4, <2>1 DEF LoginFollows, ReadFrom
<1> QED BY <1>3, <1>5, <1>6 DEF Follows

\* A revocation ends the sessions of these users and starts their next era, so
\* that their hashes may change with it.
LEMMA RevocationFollows ==
  ASSUME Follows, NEW us \in SUBSET Users, Revoke(us), UNCHANGED login,
         account' \in [Users -> Account],
         \A u \in Users : account'[u].role = account[u].role,
         \A u \in Users \ us : account'[u].hash = account[u].hash,
         tenant' \in {"none", "active", "inactive"}, change' \in [Changes -> Change]
  PROVE  Follows'
<1>1. /\ TypeOK /\ session' = Without(us)
      /\ era' = [u \in Users |-> IF u \in us THEN era[u] + 1 ELSE era[u]]
  BY Zenon DEF Follows, Revoke
<1>2. session' \in [Tokens -> Session]
  BY <1>1, EmptyRows DEF Without, TypeOK
<1>3. TypeOK'
  BY <1>1, <1>2 DEF TypeOK
<1>4. ASSUME NEW t \in Tokens PROVE SessionFollows(t)'
  <2> SUFFICES ASSUME session'[t].row = "live" PROVE SessionFollows(t)'
    BY DEF SessionFollows
  <2>1. session'[t] = session[t] /\ session[t].user \notin us
    BY <1>1 DEF Without, NoSession
  <2>2. SessionFollows(t) /\ session[t].row = "live" /\ session[t].opened \in Nat
    BY <1>1, <2>1 DEF Follows, TypeOK, Session
  <2>3. ReadFrom(session[t].user, session[t].opened, session[t].hash)
    BY <2>2 DEF SessionFollows
  <2>4. session[t].user \in Users \ us /\ era'[session[t].user] = era[session[t].user]
    BY <1>1, <2>1, <2>3 DEF ReadFrom
  <2> QED BY <2>1, <2>2, <2>3, <2>4 DEF SessionFollows, ReadFrom
<1>5. ASSUME NEW l \in Logins PROVE LoginFollows(l)'
  <2> SUFFICES ASSUME login[l].step # "idle" PROVE LoginFollows(l)'
    BY DEF LoginFollows
  <2> DEFINE u == login[l].user
  <2>1. LoginFollows(l) /\ login[l].era \in Nat
    BY <1>1 DEF Follows, TypeOK, Login
  <2>2. ReadFrom(u, login[l].era, login[l].hash)
    BY <2>1 DEF LoginFollows
  <2>3. u \in Users /\ account[u].role # "none"
    BY <2>2 DEF ReadFrom
  <2>4. \/ era'[u] = era[u] /\ account'[u].hash = account[u].hash
        \/ era'[u] = era[u] + 1
    BY <1>1, <2>3
  <2> HIDE DEF u
  <2>5. ReadFrom(u, login[l].era, login[l].hash)'
    <3>1. u' = u /\ login'[l] = login[l]
      BY DEF u
    <3> DEFINE e == login[l].era  h == login[l].hash
    <3>2. ReadFrom(u, e, h)
      BY <2>2
    <3>3. account'[u].role # "none"
      BY <2>3
    <3> QED BY <1>1, <2>1, <2>2, <2>3, <2>4, <3>1 DEF ReadFrom, TypeOK
  <2> QED BY <2>5 DEF LoginFollows, u
<1> QED BY <1>3, <1>4, <1>5 DEF Follows

LEMMA AccountFollows ==
  ASSUME Follows, AccountNext
  PROVE  Follows'
<1>1. ASSUME NEW u \in Users, NEW pw \in Passwords, Bootstrap(u, pw) PROVE Follows'
  BY <1>1, NewAccountFollows DEF Bootstrap, Roles, Follows, TypeOK
<1>2. ASSUME NEW m \in Users, NEW u \in Users, NEW pw \in Passwords, CreateTenant(m, u, pw)
      PROVE  Follows'
  BY <1>2, NewAccountFollows DEF CreateTenant, Roles
<1>3. ASSUME NEW m \in Users, NEW u \in Users, NEW pw \in Passwords, CreateUser(m, u, pw)
      PROVE  Follows'
  BY <1>3, NewAccountFollows DEF CreateUser, Roles, Follows, TypeOK
<1>4. ASSUME NEW m \in Users, NEW active \in BOOLEAN, UpdateTenant(m, active)
      PROVE  Follows'
  <2> DEFINE us == {u \in Users : TenantUser(u) /\ ~active}
  <2>1. /\ Revoke(us) /\ UNCHANGED <<account, login, change>>
        /\ tenant' \in {"none", "active", "inactive"}
    BY <1>4 DEF UpdateTenant
  <2>2. us \in SUBSET Users
    OBVIOUS
  <2> HIDE DEF us
  <2>3. account \in [Users -> Account] /\ change \in [Changes -> Change]
    BY DEF Follows, TypeOK
  <2> QED BY <2>1, <2>2, <2>3, RevocationFollows
<1>5. ASSUME NEW m \in Users, NEW u \in Users, NEW in \in UserInputs, SaveUser(m, u, in)
      PROVE  Follows'
  <2> DEFINE active == IF in.active = Absent THEN account[u].active ELSE in.active
             hash == IF in.password = Absent THEN account[u].hash
                     ELSE [password |-> in.password, era |-> era[u] + 1,
                           line |-> account[u].changes + 1]
             count == IF in.password = Absent THEN account[u].changes
                      ELSE account[u].changes + 1
  <2>1. /\ Revoke({u}) /\ UNCHANGED <<tenant, login, change>>
        /\ account' = [account EXCEPT ![u].active = active, ![u].hash = hash,
                                      ![u].changes = count]
    BY <1>5 DEF SaveUser
  <2>2. TypeOK /\ account[u] \in Account
    BY DEF Follows, TypeOK
  <2>3. active \in BOOLEAN /\ hash \in Hash /\ count \in Nat
    <3>1. in \in [password : Passwords \cup {Absent}, active : BOOLEAN \cup {Absent},
                  other : BOOLEAN]
      BY SessionsAssumption
    <3>2. active \in BOOLEAN
      BY <2>2, <3>1 DEF Account
    <3>3. hash \in Hash
      BY <2>2, <3>1 DEF Account, Hash, TypeOK
    <3>4. count \in Nat
      BY <2>2 DEF Account
    <3> QED BY <3>2, <3>3, <3>4
  <2> HIDE DEF active, hash, count
  <2>4. /\ account' \in [Users -> Account]
        /\ \A v \in Users : account'[v].role = account[v].role
        /\ \A v \in Users \ {u} : account'[v].hash = account[v].hash
    BY <2>1, <2>2, <2>3 DEF TypeOK, Account
  <2>5. {u} \in SUBSET Users /\ tenant' \in {"none", "active", "inactive"}
        /\ change' \in [Changes -> Change]
    BY <2>1, <2>2 DEF TypeOK
  <2> QED BY <2>1, <2>4, <2>5, RevocationFollows
<1> QED BY <1>1, <1>2, <1>3, <1>4, <1>5, Zenon DEF AccountNext
-----------------------------------------------------------------------------
\* What neither a login nor a revocation does leaves what was read alone.
LEMMA SameRowsFollow ==
  ASSUME Follows, UNCHANGED <<tenant, account, era>>, TypeOK',
         \A t \in Tokens : session'[t].row = "live" =>
            /\ session[t].row = "live" /\ session'[t].user = session[t].user
            /\ session'[t].opened = session[t].opened
            /\ session'[t].stored = session[t].stored
            /\ session'[t].hash = session[t].hash,
         \A l \in Logins : login'[l].step # "idle" =>
            /\ login[l].step # "idle" /\ login'[l].user = login[l].user
            /\ login'[l].era = login[l].era /\ login'[l].hash = login[l].hash
  PROVE  Follows'
<1>1. ASSUME NEW t \in Tokens PROVE SessionFollows(t)'
  BY DEF Follows, SessionFollows, ReadFrom
<1>2. ASSUME NEW l \in Logins PROVE LoginFollows(l)'
  BY DEF Follows, LoginFollows, ReadFrom
<1> QED BY <1>1, <1>2 DEF Follows

LEMMA CheckPasswordFollows ==
  ASSUME Follows, NEW l \in Logins, NEW u \in Users, NEW pw \in Passwords,
         CheckPassword(l, u, pw)
  PROVE  Follows'
<1> DEFINE step == IF TenantUser(u) THEN "tenant" ELSE "insert"
           hash == account[u].hash
           e    == era[u]
           row  == [step |-> step, user |-> u, hash |-> hash, era |-> e]
<1>1. /\ account[u].role # "none" /\ login' = [login EXCEPT ![l] = row]
      /\ UNCHANGED <<tenant, account, session, change, era>>
  BY Zenon DEF CheckPassword
<1>2. TypeOK /\ account[u] \in Account
  BY DEF Follows, TypeOK
<1>3. step \in {"tenant", "insert"} /\ hash \in Hash /\ e \in Nat
  BY <1>2 DEF TypeOK, Account
<1>4. row \in Login /\ row.user = u /\ row.hash = hash /\ row.era = e
  BY <1>3 DEF Login
<1>5. ReadFrom(u, e, hash)
  BY <1>1, <1>3 DEF ReadFrom
<1> HIDE DEF row
<1>6. login' \in [Logins -> Login] /\ login'[l] = row
      /\ \A k \in Logins \ {l} : login'[k] = login[k]
  BY <1>1, <1>2, <1>4 DEF TypeOK
<1>7. TypeOK'
  BY <1>1, <1>2, <1>6 DEF TypeOK
<1>8. ASSUME NEW t \in Tokens PROVE SessionFollows(t)'
  BY <1>1 DEF Follows, SessionFollows, ReadFrom
<1>9. ASSUME NEW k \in Logins PROVE LoginFollows(k)'
  <2>1. CASE k = l
    BY <1>1, <1>4, <1>5, <1>6, <2>1 DEF LoginFollows, ReadFrom
  <2>2. CASE k # l
    BY <1>1, <1>6, <2>2 DEF Follows, LoginFollows, ReadFrom
  <2> QED BY <2>1, <2>2
<1> QED BY <1>7, <1>8, <1>9 DEF Follows

LEMMA InsertSessionFollows ==
  ASSUME Follows, NEW l \in Logins, NEW t \in Tokens, InsertSession(l, t)
  PROVE  Follows'
<1> DEFINE u    == login[l].user
           row  == [row |-> "live", expired |-> FALSE, user |-> u,
                    hash |-> login[l].hash, opened |-> login[l].era, stored |-> era[u]]
           gone == [NoSession EXCEPT !.row = "deleted"]
<1>1. /\ login[l].step = "insert"
      /\ session' = [s \in Tokens |->
           IF s = t THEN row
           ELSE IF session[s].user = u /\ session[s].expired THEN gone ELSE session[s]]
      /\ login' = [login EXCEPT ![l] = NoLogin]
      /\ UNCHANGED <<tenant, account, change, era>>
  BY Zenon DEF InsertSession
<1>2. TypeOK /\ LoginFollows(l) /\ login[l] \in Login
  BY DEF Follows, TypeOK
<1>3. ReadFrom(u, login[l].era, login[l].hash)
  BY <1>1, <1>2 DEF LoginFollows
<1>4. u \in Users /\ era[u] \in Nat
  BY <1>2, <1>3 DEF ReadFrom, TypeOK
<1>5. row \in Session
  BY <1>2, <1>4 DEF Session, Login
<1>6. gone \in Session /\ gone.row = "deleted" /\ NoLogin \in Login /\ NoLogin.step = "idle"
  BY EmptyRows DEF NoSession, NoLogin
<1>7. /\ row.user = u /\ row.opened = login[l].era /\ row.stored = era[u]
      /\ row.hash = login[l].hash
  OBVIOUS
<1> HIDE DEF row, gone, u
<1>8. session' \in [Tokens -> Session] /\ login' \in [Logins -> Login]
  BY <1>1, <1>2, <1>5, <1>6 DEF TypeOK
<1>9. TypeOK'
  BY <1>1, <1>2, <1>8 DEF TypeOK
<1>10. ASSUME NEW s \in Tokens PROVE SessionFollows(s)'
  <2>1. CASE s = t
    <3>1. session'[s] = row
      BY <1>1, <2>1
    <3> QED BY <1>1, <1>3, <1>7, <3>1 DEF SessionFollows, ReadFrom
  <2>2. CASE s # t
    <3>1. session'[s] = gone \/ session'[s] = session[s]
      BY <1>1, <2>2
    <3>2. SessionFollows(s)
      BY DEF Follows
    <3> QED BY <1>1, <1>6, <3>1, <3>2 DEF SessionFollows, ReadFrom
  <2> QED BY <2>1, <2>2
<1>11. ASSUME NEW k \in Logins PROVE LoginFollows(k)'
  <2>1. login'[k] = login[k] \/ login'[k] = NoLogin
    BY <1>1, <1>2 DEF TypeOK
  <2>2. LoginFollows(k)
    BY DEF Follows
  <2> QED BY <1>1, <1>6, <2>1, <2>2 DEF LoginFollows, ReadFrom
<1> QED BY <1>9, <1>10, <1>11 DEF Follows

LEMMA ChangePasswordFollows ==
  ASSUME Follows, NEW r \in Changes, NEW pw \in Passwords, ChangePassword(r, pw)
  PROVE  Follows'
<1> DEFINE u    == change[r].user
           hash == [password |-> pw, era |-> era[u] + 1, line |-> change[r].hash.line + 1]
           count == account[u].changes + 1
<1>1. /\ u # NoUser /\ Revoke({u}) /\ UNCHANGED <<tenant, login>>
      /\ account' = [account EXCEPT ![u].hash = hash, ![u].changes = count]
      /\ change' = [change EXCEPT ![r] = NoChange]
  BY Zenon DEF ChangePassword
<1>2. TypeOK
  BY DEF Follows
<1>3. u \in Users /\ era[u] \in Nat
  BY <1>1, <1>2 DEF TypeOK, Change
<1>4. hash \in Hash /\ count \in Nat
  BY <1>2, <1>3 DEF Hash, TypeOK, Change, Account
<1> HIDE DEF u, hash, count
<1>5. /\ account' \in [Users -> Account]
      /\ \A v \in Users : account'[v].role = account[v].role
      /\ \A v \in Users \ {u} : account'[v].hash = account[v].hash
  BY <1>1, <1>2, <1>3, <1>4 DEF TypeOK, Account
<1>6. {u} \in SUBSET Users /\ tenant' \in {"none", "active", "inactive"}
      /\ change' \in [Changes -> Change]
  BY <1>1, <1>2, <1>3, EmptyRows DEF TypeOK
<1> QED BY <1>1, <1>5, <1>6, RevocationFollows

LEMMA SessionsFollow ==
  ASSUME Follows, SessionNext
  PROVE  Follows'
<1>1. TypeOK
  BY DEF Follows
<1>2. ASSUME NEW l \in Logins, CheckTenant(l) PROVE Follows'
  <2> DEFINE row == IF tenant = "active" THEN [login[l] EXCEPT !.step = "insert"] ELSE NoLogin
  <2>1. /\ login[l].step = "tenant" /\ login' = [login EXCEPT ![l] = row]
        /\ UNCHANGED <<tenant, account, session, change, era>>
    BY <1>2 DEF CheckTenant
  <2>2. login[l] \in Login
    BY <1>1 DEF TypeOK
  <2>3. row \in Login /\ (row.step # "idle" => /\ row.user = login[l].user
                                               /\ row.era = login[l].era
                                               /\ row.hash = login[l].hash)
    BY <2>2, EmptyRows DEF Login, NoLogin
  <2> HIDE DEF row
  <2>4. TypeOK'
    BY <1>1, <2>1, <2>3 DEF TypeOK
  <2>5. \A k \in Logins : login'[k].step # "idle" =>
            /\ login[k].step # "idle" /\ login'[k].user = login[k].user
            /\ login'[k].era = login[k].era /\ login'[k].hash = login[k].hash
    BY <1>1, <2>1, <2>3 DEF TypeOK
  <2> QED BY <2>1, <2>4, <2>5, SameRowsFollow
<1>3. ASSUME NEW t \in Tokens, Logout(t) PROVE Follows'
  <2> DEFINE row == [NoSession EXCEPT !.row = "deleted"]
  <2>1. /\ session' = [session EXCEPT ![t] = row]
        /\ UNCHANGED <<tenant, account, login, change, era>>
    BY <1>3, Zenon DEF Logout
  <2>2. row \in Session /\ row.row = "deleted"
    BY EmptyRows DEF NoSession
  <2> HIDE DEF row
  <2>3. TypeOK'
    BY <1>1, <2>1, <2>2 DEF TypeOK
  <2>4. \A s \in Tokens : session'[s] = session[s] \/ session'[s].row = "deleted"
    BY <1>1, <2>1, <2>2 DEF TypeOK
  <2> QED BY <2>1, <2>3, <2>4, SameRowsFollow
<1>4. ASSUME NEW t \in Tokens, Expire(t) PROVE Follows'
  <2> DEFINE row == [session[t] EXCEPT !.expired = TRUE]
  <2>1. /\ session' = [session EXCEPT ![t] = row] /\ session[t].row = "live"
        /\ UNCHANGED <<tenant, account, login, change, era>>
    BY <1>4, Zenon DEF Expire
  <2>2. session[t] \in Session
    BY <1>1 DEF TypeOK
  <2>3. row \in Session /\ row.user = session[t].user /\ row.opened = session[t].opened
        /\ row.stored = session[t].stored /\ row.hash = session[t].hash
    BY <2>2 DEF Session
  <2> HIDE DEF row
  <2>4. TypeOK'
    BY <1>1, <2>1, <2>3 DEF TypeOK
  <2>5. \A s \in Tokens : session'[s] = IF s = t THEN row ELSE session[s]
    BY <1>1, <2>1 DEF TypeOK
  <2> QED BY <2>1, <2>3, <2>4, <2>5, SameRowsFollow
<1>5. ASSUME NEW r \in Changes, NEW t \in Tokens, NEW pw \in Passwords, CheckCurrent(r, t, pw)
      PROVE  Follows'
  <2> DEFINE u   == session[t].user
             row == [user |-> u, hash |-> account[u].hash]
  <2>1. /\ change' = [change EXCEPT ![r] = row] /\ session[t].row = "live"
        /\ UNCHANGED <<tenant, account, session, login, era>>
    BY <1>5, Zenon DEF CheckCurrent, Authenticates
  <2>2. SessionFollows(t)
    BY DEF Follows
  <2>3. u \in Users /\ account[u] \in Account
    BY <1>1, <2>1, <2>2 DEF SessionFollows, ReadFrom, TypeOK
  <2>4. row \in Change
    BY <2>3 DEF Change, Account
  <2> HIDE DEF row
  <2>5. TypeOK'
    BY <1>1, <2>1, <2>4 DEF TypeOK
  <2> QED BY <2>1, <2>5, SameRowsFollow
<1>6. ASSUME NEW r \in Changes, RefuseChange(r) PROVE Follows'
  <2>1. /\ change' = [change EXCEPT ![r] = NoChange]
        /\ UNCHANGED <<tenant, account, session, login, era>>
    BY <1>6, Zenon DEF RefuseChange
  <2>2. TypeOK'
    BY <1>1, <2>1, EmptyRows DEF TypeOK
  <2> QED BY <2>1, <2>2, SameRowsFollow
<1>7. ASSUME NEW l \in Logins, NEW u \in Users, NEW pw \in Passwords, CheckPassword(l, u, pw)
      PROVE  Follows'
  BY <1>7, CheckPasswordFollows
<1>8. ASSUME NEW l \in Logins, NEW t \in Tokens, InsertSession(l, t) PROVE Follows'
  BY <1>8, InsertSessionFollows
<1>9. ASSUME NEW r \in Changes, NEW pw \in Passwords, ChangePassword(r, pw) PROVE Follows'
  BY <1>9, ChangePasswordFollows
<1> QED BY <1>2, <1>3, <1>4, <1>5, <1>6, <1>7, <1>8, <1>9, Zenon DEF SessionNext

LEMMA FollowsAlways == Spec => []Follows
<1>1. Follows /\ [Next]_vars => Follows'
  <2> SUFFICES ASSUME Follows, [Next]_vars PROVE Follows'
    OBVIOUS
  <2>1. CASE UNCHANGED vars
    BY <2>1, SameRowsFollow DEF vars, Follows, TypeOK
  <2> QED BY <2>1, AccountFollows, SessionsFollow DEF Next
<1> QED BY <1>1, InitFollows, PTL DEF Spec

\* No session that existed survives a revocation, and one whose login has read
\* the user since the last one was opened with the present password, whatever
\* logins and password changes were under way (login, changePassword, saveUser,
\* updateTenant).
THEOREM SessionsAlwaysFollow == Spec => []SessionsFollowRevocations
<1>1. Follows => SessionsFollowRevocations
  BY DEF Follows, SessionFollows, ReadFrom, SessionsFollowRevocations
<1> QED BY <1>1, FollowsAlways, PTL
-----------------------------------------------------------------------------
\* What neither resets nor changes a password leaves its line and the count alone.
LEMMA SameLinesKept ==
  ASSUME NoChangeIsLost,
         \A u \in Users : /\ account'[u].hash = account[u].hash
                          /\ account'[u].changes = account[u].changes
  PROVE  NoChangeIsLost'
BY DEF NoChangeIsLost

\* A new row of the table is of its first password.
LEMMA NewAccountKeepsLines ==
  ASSUME TypeOK, NoChangeIsLost, NEW u \in Users, NEW role, NEW pw, NewAccount(u, role, pw)
  PROVE  NoChangeIsLost'
BY DEF TypeOK, NoChangeIsLost, NewAccount

\* A reset descends from every change so far, read in the transaction that writes.
LEMMA SaveUserKeepsLines ==
  ASSUME TypeOK, NoChangeIsLost, NEW m \in Users, NEW u \in Users, NEW in \in UserInputs,
         SaveUser(m, u, in)
  PROVE  NoChangeIsLost'
<1> DEFINE active == IF in.active = Absent THEN account[u].active ELSE in.active
           count  == IF in.password = Absent THEN account[u].changes
                     ELSE account[u].changes + 1
           hash   == IF in.password = Absent THEN account[u].hash
                     ELSE [password |-> in.password, era |-> era[u] + 1,
                           line |-> account[u].changes + 1]
<1>1. account' = [account EXCEPT ![u].active = active, ![u].hash = hash, ![u].changes = count]
  BY Zenon DEF SaveUser
<1>2. hash.line = count
  BY DEF NoChangeIsLost
<1> HIDE DEF active, hash, count
<1>3. account'[u].hash = hash /\ account'[u].changes = count
  BY <1>1 DEF TypeOK, Account
<1>4. \A v \in Users \ {u} : account'[v] = account[v]
  BY <1>1 DEF TypeOK
<1> QED BY <1>2, <1>3, <1>4 DEF NoChangeIsLost

\* A change descends from the hash it compared with, which is still the one there.
LEMMA ChangePasswordKeepsLines ==
  ASSUME TypeOK, NoChangeIsLost, NEW r \in Changes, NEW pw \in Passwords,
         ChangePassword(r, pw)
  PROVE  NoChangeIsLost'
<1> DEFINE u     == change[r].user
           count == account[u].changes + 1
           hash  == [password |-> pw, era |-> era[u] + 1, line |-> change[r].hash.line + 1]
<1>1. /\ u # NoUser /\ Unchanged(r)
      /\ account' = [account EXCEPT ![u].hash = hash, ![u].changes = count]
  BY Zenon DEF ChangePassword
<1>2. u \in Users
  BY <1>1 DEF TypeOK, Change
<1>3. hash.line = count
  BY <1>1, <1>2 DEF Unchanged, NoChangeIsLost
<1> HIDE DEF u, hash, count
<1>4. account'[u].hash = hash /\ account'[u].changes = count
  BY <1>1, <1>2 DEF TypeOK, Account
<1>5. \A v \in Users \ {u} : account'[v] = account[v]
  BY <1>1 DEF TypeOK
<1> QED BY <1>3, <1>4, <1>5 DEF NoChangeIsLost

LEMMA StepKeepsLines ==
  ASSUME TypeOK, NoChangeIsLost, [Next]_vars
  PROVE  NoChangeIsLost'
<1>1. CASE UNCHANGED vars
  BY <1>1, SameLinesKept DEF vars
<1>2. CASE AccountNext
  <2>1. ASSUME NEW u \in Users, NEW pw \in Passwords, Bootstrap(u, pw)
        PROVE  NoChangeIsLost'
    BY <2>1, NewAccountKeepsLines, Zenon DEF Bootstrap
  <2>2. ASSUME NEW m \in Users, NEW u \in Users, NEW pw \in Passwords, CreateTenant(m, u, pw)
        PROVE  NoChangeIsLost'
    BY <2>2, NewAccountKeepsLines, Zenon DEF CreateTenant
  <2>3. ASSUME NEW m \in Users, NEW u \in Users, NEW pw \in Passwords, CreateUser(m, u, pw)
        PROVE  NoChangeIsLost'
    BY <2>3, NewAccountKeepsLines, Zenon DEF CreateUser
  <2>4. ASSUME NEW m \in Users, NEW active \in BOOLEAN, UpdateTenant(m, active)
        PROVE  NoChangeIsLost'
    <3>1. account' = account
      BY <2>4, Zenon DEF UpdateTenant
    <3> QED BY <3>1, SameLinesKept
  <2> QED BY <1>2, <2>1, <2>2, <2>3, <2>4, SaveUserKeepsLines, Zenon DEF AccountNext
<1>3. CASE SessionNext
  <2>1. CASE \E r \in Changes, pw \in Passwords : ChangePassword(r, pw)
    BY <2>1, ChangePasswordKeepsLines
  <2>2. CASE ~\E r \in Changes, pw \in Passwords : ChangePassword(r, pw)
    <3>1. account' = account
      BY <1>3, <2>2, Zenon DEF SessionNext, CheckPassword, CheckTenant, InsertSession, Logout,
         Expire, CheckCurrent, RefuseChange
    <3> QED BY <3>1, SameLinesKept
  <2> QED BY <2>1, <2>2
<1> QED BY <1>1, <1>2, <1>3 DEF Next

\* No change or reset of a password that was answered is overwritten by a change
\* that compared with an older password, whatever logins, changes, resets and
\* revocations are under way (changePassword, saveUser).
THEOREM ChangesAreNeverLost == Spec => []NoChangeIsLost
<1>1. ASSUME Init PROVE NoChangeIsLost
  <2>1. NoHash.line = 0
    BY DEF NoHash
  <2>2. account = [u \in Users |-> [role |-> "none", active |-> FALSE, hash |-> NoHash,
                                   changes |-> 0]]
    BY <1>1, Zenon DEF Init
  <2> QED BY <2>1, <2>2, Zenon DEF NoChangeIsLost
<1>2. Follows /\ NoChangeIsLost /\ [Next]_vars => NoChangeIsLost'
  BY StepKeepsLines DEF Follows
<1> QED BY <1>1, <1>2, FollowsAlways, PTL DEF Spec
=============================================================================

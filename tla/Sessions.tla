------------------------------ MODULE Sessions ------------------------------
(***************************************************************************)
(* Accounts and sessions (internal/server/auth.go, users.go, tenants.go):  *)
(* the super admin and the users of one tenant.                            *)
(*                                                                         *)
(* login reads the user, compares the password (slow on purpose), reads    *)
(* the tenant and then inserts the session; changePassword compares with   *)
(* the hash authenticate read and then writes.  These are steps of their   *)
(* own; each transaction, which locks what it writes, is one.              *)
(*                                                                         *)
(* era counts the revocations of a user (password, role, email or active   *)
(* changed, tenant deactivated).  A hash is the password with the era it   *)
(* was made in: bcrypt salts it, so no two are equal.  It also carries its *)
(* line, the resets and changes it descends from: a reset replaces         *)
(* whatever is there, a change the hash it compared with.  Names, emails   *)
(* and the text of tokens are left out.                                    *)
(***************************************************************************)
EXTENDS Integers

CONSTANTS
  Users,       \* ids the users table may hand out
  Tokens,      \* tokens rand.Read may return
  Logins,      \* POST /auth/login requests being served
  Changes,     \* PUT /me/password requests being served
  Passwords,   \* the passwords sent
  UserInputs,  \* the bodies of PATCH /users/:id
  Absent,      \* a field the JSON body leaves out
  NoUser,      \* a free row or a request that is over
  MaxEra       \* bound of the model: no user is revoked more often

ASSUME SessionsAssumption ==
  /\ Passwords # {} /\ Absent \notin BOOLEAN /\ Absent \notin Passwords
  /\ NoUser \notin Users /\ MaxEra \in Nat
  /\ UserInputs \subseteq [password : Passwords \cup {Absent},
                           active : BOOLEAN \cup {Absent}, other : BOOLEAN]

VARIABLES
  tenant,    \* tenants.active, "none" before createTenant
  account,   \* users
  session,   \* sessions
  login,     \* what each login has read
  change,    \* what each password change has read
  era        \* revocations of each user so far

vars == <<tenant, account, session, login, change, era>>

Roles == {"none", "super_admin", "trader", "admin"}
Hash == [password : Passwords, era : Nat, line : Nat]

\* "none": the row is not there yet; changes: resets and changes answered so far.
Account == [role : Roles, active : BOOLEAN, hash : Hash, changes : Nat]

\* opened: the user's era when its login read the row; stored: when it was inserted.
Session == [row : {"unused", "live", "deleted"}, expired : BOOLEAN,
            user : Users \cup {NoUser}, hash : Hash, opened : Nat, stored : Nat]

\* At "tenant" the login has compared the password, at "insert" read the tenant.
Login == [step : {"idle", "tenant", "insert"}, user : Users \cup {NoUser},
          hash : Hash, era : Nat]

Change == [user : Users \cup {NoUser}, hash : Hash]

TypeOK ==
  /\ tenant \in {"none", "active", "inactive"}
  /\ account \in [Users -> Account]
  /\ session \in [Tokens -> Session]
  /\ login \in [Logins -> Login]
  /\ change \in [Changes -> Change]
  /\ era \in [Users -> Nat]

NoHash == [password |-> CHOOSE pw \in Passwords : TRUE, era |-> 0, line |-> 0]
NoSession == [row |-> "unused", expired |-> FALSE, user |-> NoUser, hash |-> NoHash,
              opened |-> 0, stored |-> 0]
NoLogin == [step |-> "idle", user |-> NoUser, hash |-> NoHash, era |-> 0]
NoChange == [user |-> NoUser, hash |-> NoHash]

Init ==
  /\ tenant = "none"
  /\ account = [u \in Users |-> [role |-> "none", active |-> FALSE, hash |-> NoHash,
                               changes |-> 0]]
  /\ session = [t \in Tokens |-> NoSession]
  /\ login = [l \in Logins |-> NoLogin]
  /\ change = [r \in Changes |-> NoChange]
  /\ era = [u \in Users |-> 0]

-----------------------------------------------------------------------------
TenantUser(u) == account[u].role \in {"trader", "admin"}

\* The user may act: active, and the tenant, if there is one, active.
Admitted(u) == account[u].active /\ (TenantUser(u) => tenant = "active")

\* The one query of authenticate.
Authenticates(t) ==
  session[t].row = "live" /\ ~session[t].expired /\ Admitted(session[t].user)

\* The rows of these users leave the sessions table.
Without(us) ==
  [t \in Tokens |-> IF session[t].row = "live" /\ session[t].user \in us
                    THEN [NoSession EXCEPT !.row = "deleted"] ELSE session[t]]

Revoke(us) ==
  /\ \A u \in us : era[u] < MaxEra
  /\ era' = [u \in Users |-> IF u \in us THEN era[u] + 1 ELSE era[u]]
  /\ session' = Without(us)

\* The role guards of the routes; the request was authenticated at some time before.
Served(m, roles) == account[m].role \in roles

NewAccount(u, role, pw) ==
  /\ account[u].role = "none"
  /\ account' = [account EXCEPT ![u] =
        [role |-> role, active |-> TRUE, changes |-> 0,
         hash |-> [password |-> pw, era |-> era[u], line |-> 0]]]

\* The command of cmd/bootstrap; uq_super_admin refuses a second one.
Bootstrap(u, pw) ==
  /\ \A v \in Users : account[v].role # "super_admin"
  /\ NewAccount(u, "super_admin", pw)
  /\ UNCHANGED <<tenant, session, login, change, era>>

\* The tenant with its trader, in one transaction.
CreateTenant(m, u, pw) ==
  /\ Served(m, {"super_admin"})
  /\ tenant = "none"
  /\ NewAccount(u, "trader", pw)
  /\ tenant' = "active"
  /\ UNCHANGED <<session, login, change, era>>

\* Only admins join an existing tenant; it was active when tenantScope read it.
CreateUser(m, u, pw) ==
  /\ Served(m, {"super_admin", "trader"})
  /\ tenant # "none"
  /\ NewAccount(u, "admin", pw)
  /\ UNCHANGED <<tenant, session, login, change, era>>

\* Mutant: a deactivated tenant keeps its sessions.
UpdateTenant_KeepsSessions(m, active) ==
  /\ Served(m, {"super_admin"})
  /\ tenant # "none"
  /\ tenant' = IF active THEN "active" ELSE "inactive"
  /\ LET us == {u \in Users : TenantUser(u) /\ ~active}
     IN  /\ \A u \in us : era[u] < MaxEra
         /\ era' = [u \in Users |-> IF u \in us THEN era[u] + 1 ELSE era[u]]
  /\ UNCHANGED <<account, session, login, change>>

UpdateTenant(m, active) ==
  /\ Served(m, {"super_admin"})
  /\ tenant # "none"
  /\ tenant' = IF active THEN "active" ELSE "inactive"
  /\ Revoke({u \in Users : TenantUser(u) /\ ~active})
  /\ UNCHANGED <<account, login, change>>

(***************************************************************************)
(* saveUser, by a user m; other: an email or the user's own role in the    *)
(* body (a new name alone changes nothing here).                           *)
(***************************************************************************)
MayManage(manager, role, in) ==
  /\ role = "trader" => manager \in {"super_admin", "admin"} /\ in.active # FALSE
  /\ manager = "admin" =>
       /\ role = "trader" /\ in.password # Absent
       /\ in.active = Absent /\ ~in.other

SaveUser(m, u, in) ==
  /\ Served(m, Roles \ {"none"}) /\ TenantUser(u)
  /\ MayManage(account[m].role, account[u].role, in)
  /\ in.password # Absent \/ in.active # Absent \/ in.other
  /\ Revoke({u})
  /\ account' = [account EXCEPT
       ![u].active = IF in.active = Absent THEN @ ELSE in.active,
       ![u].hash = IF in.password = Absent THEN @
                   ELSE [password |-> in.password, era |-> era[u] + 1,
                         line |-> account[u].changes + 1],
       ![u].changes = IF in.password = Absent THEN @ ELSE @ + 1]
  /\ UNCHANGED <<tenant, login, change>>

-----------------------------------------------------------------------------
(***************************************************************************)
(* login.                                                                  *)
(***************************************************************************)
\* The row is read, the password matches and the user is active.
CheckPassword(l, u, pw) ==
  /\ login[l].step = "idle"
  /\ account[u].role # "none" /\ account[u].active
  /\ account[u].hash.password = pw
  /\ login' = [login EXCEPT ![l] =
        [step |-> IF TenantUser(u) THEN "tenant" ELSE "insert",
         user |-> u, hash |-> account[u].hash, era |-> era[u]]]
  /\ UNCHANGED <<tenant, account, session, change, era>>

\* An inactive tenant ends the login.
CheckTenant(l) ==
  /\ login[l].step = "tenant"
  /\ login' = [login EXCEPT ![l] = IF tenant = "active" THEN [@ EXCEPT !.step = "insert"]
                                   ELSE NoLogin]
  /\ UNCHANGED <<tenant, account, session, change, era>>

\* The user's expired sessions go, the new one comes.
InsertSession(l, t) ==
  /\ login[l].step = "insert"
  /\ session[t].row = "unused"
  /\ session' = [s \in Tokens |->
       IF s = t
       THEN [row |-> "live", expired |-> FALSE, user |-> login[l].user,
             hash |-> login[l].hash, opened |-> login[l].era,
             stored |-> era[login[l].user]]
       ELSE IF session[s].user = login[l].user /\ session[s].expired
       THEN [NoSession EXCEPT !.row = "deleted"] ELSE session[s]]
  /\ login' = [login EXCEPT ![l] = NoLogin]
  /\ UNCHANGED <<tenant, account, change, era>>

Logout(t) ==
  /\ Authenticates(t)
  /\ session' = [session EXCEPT ![t] = [NoSession EXCEPT !.row = "deleted"]]
  /\ UNCHANGED <<tenant, account, login, change, era>>

\* 24 hours after the login.
Expire(t) ==
  /\ session[t].row = "live" /\ ~session[t].expired
  /\ session' = [session EXCEPT ![t].expired = TRUE]
  /\ UNCHANGED <<tenant, account, login, change, era>>

-----------------------------------------------------------------------------
(***************************************************************************)
(* changePassword.                                                         *)
(***************************************************************************)
\* authenticate has read the row, and the current password sent matches it.
CheckCurrent(r, t, pw) ==
  LET u == session[t].user
  IN  /\ change[r].user = NoUser
      /\ Authenticates(t)
      /\ account[u].hash.password = pw
      /\ change' = [change EXCEPT ![r] = [user |-> u, hash |-> account[u].hash]]
      /\ UNCHANGED <<tenant, account, session, login, era>>

\* Mutant: UPDATE ... WHERE id = ?, without the hash.
Unchanged_Ignored(r) == TRUE

\* The UPDATE's WHERE: the hash is still the one that was compared.
Unchanged(r) == account[change[r].user].hash = change[r].hash

ChangePassword(r, pw) ==
  LET u == change[r].user
  IN  /\ u # NoUser
      /\ Unchanged(r)
      /\ Revoke({u})
      /\ account' = [account EXCEPT
           ![u].hash = [password |-> pw, era |-> era[u] + 1, line |-> change[r].hash.line + 1],
           ![u].changes = @ + 1]
      /\ change' = [change EXCEPT ![r] = NoChange]
      /\ UNCHANGED <<tenant, login>>

\* 409: the password was changed meanwhile.
RefuseChange(r) ==
  /\ change[r].user # NoUser
  /\ ~Unchanged(r)
  /\ change' = [change EXCEPT ![r] = NoChange]
  /\ UNCHANGED <<tenant, account, session, login, era>>

-----------------------------------------------------------------------------
AccountNext ==
  \/ \E u \in Users, pw \in Passwords : Bootstrap(u, pw)
  \/ \E m, u \in Users, pw \in Passwords : CreateTenant(m, u, pw) \/ CreateUser(m, u, pw)
  \/ \E m \in Users, active \in BOOLEAN : UpdateTenant(m, active)
  \/ \E m, u \in Users, in \in UserInputs : SaveUser(m, u, in)

SessionNext ==
  \/ \E l \in Logins :
       \/ \E u \in Users, pw \in Passwords : CheckPassword(l, u, pw)
       \/ CheckTenant(l)
       \/ \E t \in Tokens : InsertSession(l, t)
  \/ \E t \in Tokens :
       \/ Logout(t)
       \/ Expire(t)
       \/ \E r \in Changes, pw \in Passwords : CheckCurrent(r, t, pw)
  \/ \E r \in Changes : RefuseChange(r) \/ \E pw \in Passwords : ChangePassword(r, pw)

Next == AccountNext \/ SessionNext

Spec == Init /\ [][Next]_vars

-----------------------------------------------------------------------------
\* "Logout, password changes, role/email changes and account deactivation revoke
\* sessions" (README.md:47), as far as the code goes: no session that existed
\* survives a revocation, and one whose login has read the user since the last
\* revocation was opened with the present password.  The only sessions with an
\* older password are of logins under way while it was changed.
SessionsFollowRevocations ==
  \A t \in Tokens : session[t].row = "live" =>
    LET s == session[t]
    IN  /\ s.opened <= s.stored /\ s.stored = era[s.user]
        /\ s.opened = s.stored => s.hash = account[s.user].hash

\* Two changes with one current password, a change racing a manager's reset, a
\* change after its session was revoked or its user edited: every reset and change
\* that was answered is an ancestor of the password in force, so none is
\* overwritten by a change that compared with an older one (changePassword,
\* saveUser), however they interleave.
NoChangeIsLost ==
  \A u \in Users : account[u].hash.line = account[u].changes
=============================================================================

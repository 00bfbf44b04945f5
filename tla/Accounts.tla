------------------------------ MODULE Accounts ------------------------------
(***************************************************************************)
(* Accounts, tokens and API keys: the handlers under /auth and             *)
(* /admin/users of internal/server/routes.go, Authenticator of             *)
(* internal/auth/auth.go and the tables users and api_keys of              *)
(* internal/database/system.go.                                            *)
(*                                                                         *)
(* A request authenticates with a JWT, which carries id and role as they   *)
(* were at login, or with an API key, which is joined with users.  Each    *)
(* SQL statement is a step of its own: what a request read may have        *)
(* changed when it writes.                                                 *)
(***************************************************************************)
EXTENDS Naturals, AccessControl

CONSTANTS
  Handlers,         \* goroutines that serve requests
  Names, Admin,     \* user names, and the name of the default admin
  Passwords, Default, \* passwords, and that of the default admin
  AccountRoles,     \* roles that are given to accounts
  Operations,       \* which of the handlers below are called
  Ephemeral,        \* no jwt_secret is configured: every process makes its own
  MaxUsers,         \* bound: rows ever inserted into users
  MaxKeys,          \* bound: rows ever inserted into api_keys
  MaxStarts         \* bound: starts of the process

AllOperations == {"create", "role", "name", "reset", "change", "delete",
                  "new_key", "delete_key"}

ASSUME AccountsAssumption ==
  /\ Admin \in Names /\ Default \in Passwords
  /\ "admin" \in AccountRoles /\ AccountRoles \subseteq Roles
  /\ Operations \subseteq AllOperations
  /\ Ephemeral \in BOOLEAN
  /\ MaxUsers \in Nat \ {0} /\ MaxKeys \in Nat /\ MaxStarts \in Nat \ {0}

VARIABLES
  users,      \* the rows of users by id
  lastId,     \* the last id users gave out (AUTOINCREMENT)
  keys,       \* the rows of api_keys by id
  lastKey,    \* the last id api_keys gave out
  tokens,     \* JWTs that clients hold
  starts,     \* how often the process was started; numbers its secret, too
  pc,         \* where a request is
  who,        \* the AuthUser of the request, or the row its login read
  target,     \* the id in its path
  given,      \* the password it sets
  born,       \* history: how many accounts were ever made
  cut         \* history: accounts whose last reset the end of the process cut in two

dbVars == <<users, lastId, keys, lastKey>>
requestVars == <<pc, who, target, given>>
accountsVars == <<dbVars, tokens, starts, requestVars, born, cut>>

UserIds == 1..MaxUsers
KeyIds == 1..MaxKeys
NoRow == [exists |-> FALSE]

\* history: serial, the how manyth account this is, and setBy, who set the
\* password: an admin or the owner.
UserRow == [exists : {TRUE}, name : Names, password : Passwords, role : AccountRoles,
            passwordChangeRequired : BOOLEAN, serial : Nat, setBy : {"admin", "owner"}]
KeyRow == [exists : {TRUE}, user : UserIds, serial : Nat]
AuthUser == [id : UserIds, role : AccountRoles, serial : Nat]
Token == [user : AuthUser, secret : Nat]

\* The secret of the running process.
Secret == IF Ephemeral THEN starts ELSE 1

AccountsTypeOK ==
  /\ users \in [UserIds -> UserRow \cup {NoRow}]
  /\ lastId \in 0..MaxUsers
  /\ keys \in [KeyIds -> KeyRow \cup {NoRow}]
  /\ lastKey \in 0..MaxKeys
  /\ tokens \in SUBSET Token
  /\ starts \in Nat
  /\ pc \in [Handlers -> {"idle", "login", "authenticated", "flag", "change"}]
  /\ who \in [Handlers -> AuthUser]
  /\ target \in [Handlers -> UserIds]
  /\ given \in [Handlers -> Passwords]
  /\ born \in Nat
  /\ cut \subseteq UserIds

\* The row a new account gets: a password somebody else chose, flagged.
NewUser(n, p, r) ==
  [exists |-> TRUE, name |-> n, password |-> p, role |-> r, passwordChangeRequired |-> TRUE,
   serial |-> born + 1, setBy |-> "admin"]

\* The first start, with EnsureDefaultAdmin.
AccountsInit ==
  /\ users = [u \in UserIds |-> IF u > 1 THEN NoRow ELSE
                [exists |-> TRUE, name |-> Admin, password |-> Default, role |-> "admin",
                 passwordChangeRequired |-> TRUE, serial |-> 1, setBy |-> "admin"]]
  /\ lastId = 1
  /\ keys = [k \in KeyIds |-> NoRow]
  /\ lastKey = 0
  /\ tokens = {}
  /\ starts = 1
  /\ pc = [h \in Handlers |-> "idle"]
  /\ who = [h \in Handlers |-> [id |-> 1, role |-> "admin", serial |-> 1]]
  /\ target = [h \in Handlers |-> 1]
  /\ given = [h \in Handlers |-> Default]
  /\ born = 1
  /\ cut = {}

AuthUserOf(u) == [id |-> u, role |-> users[u].role, serial |-> users[u].serial]
Taken(n) == \E u \in UserIds : users[u].exists /\ users[u].name = n

Goto(h, step) == pc' = [pc EXCEPT ![h] = step]
KeepUsers == UNCHANGED <<users, lastId, born>>
KeepKeys == UNCHANGED <<keys, lastKey>>
KeepArgs == UNCHANGED <<who, target, given>>
KeepTokens == UNCHANGED <<tokens, starts>>
KeepProcess == KeepTokens /\ UNCHANGED cut

\* A password that an admin chose has no flag; a request is between the two updates
\* of a reset.
Unflagged(u) ==
  users[u].exists /\ users[u].setBy = "admin" /\ ~users[u].passwordChangeRequired
Resetting(u) == \E h \in Handlers : pc[h] = "flag" /\ target[h] = u

-----------------------------------------------------------------------------
(* Login and AuthenticateRequest.                                          *)

\* Login reads the row and verifies the password (see the module Login) ...
Login(h, u) ==
  /\ pc[h] = "idle"
  /\ users[u].exists
  /\ who' = [who EXCEPT ![h] = AuthUserOf(u)]
  /\ Goto(h, "login")
  /\ KeepUsers /\ KeepKeys /\ KeepProcess /\ UNCHANGED <<target, given>>

\* ... and signs what it read.
IssueToken(h) ==
  /\ pc[h] = "login"
  /\ tokens' = tokens \cup {[user |-> who[h], secret |-> Secret]}
  /\ Goto(h, "idle")
  /\ KeepUsers /\ KeepKeys /\ KeepArgs /\ UNCHANGED <<starts, cut>>

\* authenticateJWT believes the claims of a token it can verify.
AuthenticateJWT(h, t) ==
  /\ pc[h] = "idle"
  /\ t.secret = Secret
  /\ who' = [who EXCEPT ![h] = t.user]
  /\ Goto(h, "authenticated")
  /\ KeepUsers /\ KeepKeys /\ KeepProcess /\ UNCHANGED <<target, given>>

\* FindUserByAPIKey joins api_keys with users.
AuthenticateAPIKey(h, k) ==
  /\ pc[h] = "idle"
  /\ keys[k].exists /\ users[keys[k].user].exists
  /\ who' = [who EXCEPT ![h] = AuthUserOf(keys[k].user)]
  /\ Goto(h, "authenticated")
  /\ KeepUsers /\ KeepKeys /\ KeepProcess /\ UNCHANGED <<target, given>>

\* The handler h runs operation op, and may.
May(h, op, permission) ==
  /\ op \in Operations
  /\ pc[h] = "authenticated"
  /\ HasPermission(who[h].role, permission)

\* Any other end of a request: 400, 403, 404, or something it only reads.
Answer(h) ==
  /\ pc[h] = "authenticated"
  /\ Goto(h, "idle")
  /\ KeepUsers /\ KeepKeys /\ KeepArgs /\ KeepProcess

-----------------------------------------------------------------------------
(* /admin/users.                                                           *)

\* Mutant: INTEGER PRIMARY KEY without AUTOINCREMENT: one more than the largest.
FreshId_Largest(id) ==
  /\ ~users[id].exists
  /\ \A u \in UserIds : users[u].exists => u < id
  /\ id > 1 => users[id - 1].exists

\* The id the next row of users gets.
FreshId(id) == id = lastId + 1

Insert(id, n, p, r) ==
  /\ ~Taken(n)
  /\ FreshId(id)
  /\ users' = [users EXCEPT ![id] = NewUser(n, p, r)]
  /\ lastId' = id
  /\ born' = born + 1

HandleCreateUser(h, id, n, p, r) ==
  /\ May(h, "create", "create_user")
  /\ Insert(id, n, p, r)
  /\ Goto(h, "idle")
  /\ KeepKeys /\ KeepArgs /\ KeepProcess

HandleUpdateUserRole(h, u, r) ==
  /\ May(h, "role", "create_user")
  /\ users[u].exists
  /\ users' = [users EXCEPT ![u].role = r]
  /\ Goto(h, "idle")
  /\ KeepKeys /\ KeepArgs /\ KeepProcess /\ UNCHANGED <<lastId, born>>

HandleUpdateUsername(h, u, n) ==
  /\ May(h, "name", "create_user")
  /\ users[u].exists /\ (Taken(n) => users[u].name = n)
  /\ users' = [users EXCEPT ![u].name = n]
  /\ Goto(h, "idle")
  /\ KeepKeys /\ KeepArgs /\ KeepProcess /\ UNCHANGED <<lastId, born>>

\* Mutant: one update, which clears the flag as that of the owner does.
HandleUpdateUserPassword_OneUpdate(h, u, p) ==
  /\ May(h, "reset", "create_user")
  /\ users[u].exists
  /\ users' = [users EXCEPT ![u].password = p, ![u].passwordChangeRequired = FALSE,
                            ![u].setBy = "admin"]
  /\ cut' = cut \ {u}
  /\ Goto(h, "idle")
  /\ KeepKeys /\ KeepArgs /\ KeepTokens /\ UNCHANGED <<lastId, born>>

\* UpdateUserPassword: one UPDATE for the hash, which clears the flag ...  (A row
\* that is missing changes nothing, see Answer.)
HandleUpdateUserPassword(h, u, p) ==
  /\ May(h, "reset", "create_user")
  /\ users[u].exists
  /\ users' = [users EXCEPT ![u].password = p, ![u].passwordChangeRequired = FALSE,
                            ![u].setBy = "admin"]
  /\ target' = [target EXCEPT ![h] = u]
  /\ cut' = cut \ {u}
  /\ Goto(h, "flag")
  /\ KeepKeys /\ KeepTokens /\ UNCHANGED <<lastId, born, who, given>>

\* ... and a second one, which sets it.
SetPasswordChangeRequired(h) ==
  LET u == target[h]
  IN  /\ pc[h] = "flag"
      /\ users' = IF users[u].exists
                  THEN [users EXCEPT ![u].passwordChangeRequired = TRUE]
                  ELSE users
      /\ cut' = cut \ {u}
      /\ Goto(h, "idle")
      /\ KeepKeys /\ KeepArgs /\ KeepTokens /\ UNCHANGED <<lastId, born>>

\* Sessions and keys of the user stay: no foreign key is enforced.
HandleDeleteUser(h, u) ==
  /\ May(h, "delete", "create_user")
  /\ u # who[h].id
  /\ users' = [users EXCEPT ![u] = NoRow]
  /\ Goto(h, "idle")
  /\ KeepKeys /\ KeepArgs /\ KeepProcess /\ UNCHANGED <<lastId, born>>

-----------------------------------------------------------------------------
(* PUT /auth/password.                                                     *)

\* ChangeOwnPassword reads the row and verifies the old password ...
HandleChangePassword(h, new) ==
  LET u == who[h].id
  IN  /\ "change" \in Operations
      /\ pc[h] = "authenticated"
      /\ users[u].exists
      /\ given' = [given EXCEPT ![h] = new]
      /\ Goto(h, "change")
      /\ KeepUsers /\ KeepKeys /\ KeepProcess /\ UNCHANGED <<who, target>>

\* ... hashes the new one, and writes it, whatever is there by then.
WriteOwnPassword(h) ==
  LET u == who[h].id
  IN  /\ pc[h] = "change"
      /\ users' = IF ~users[u].exists THEN users ELSE
                    [users EXCEPT
                       ![u].password = given[h], ![u].passwordChangeRequired = FALSE,
                       ![u].setBy = "owner"]
      /\ cut' = cut \ {u}
      /\ Goto(h, "idle")
      /\ KeepKeys /\ KeepArgs /\ KeepTokens /\ UNCHANGED <<lastId, born>>

-----------------------------------------------------------------------------
(* /auth/api-keys.                                                         *)

\* (The sealed copy of the key, from which it is shown again, is left out.)
HandleCreateAPIKey(h, k) ==
  /\ May(h, "new_key", "backup")
  /\ k = lastKey + 1
  /\ keys' = [keys EXCEPT ![k] = [exists |-> TRUE, user |-> who[h].id, serial |-> who[h].serial]]
  /\ lastKey' = k
  /\ Goto(h, "idle")
  /\ KeepUsers /\ KeepArgs /\ KeepProcess

HandleDeleteAPIKey(h, k) ==
  /\ May(h, "delete_key", "backup")
  /\ keys' = [keys EXCEPT ![k] = NoRow]
  /\ Goto(h, "idle")
  /\ KeepUsers /\ KeepArgs /\ KeepProcess /\ UNCHANGED lastKey

-----------------------------------------------------------------------------
(* The process.                                                            *)

EnsureDefaultAdmin ==
  \/ Taken(Admin) /\ KeepUsers
  \/ \E id \in UserIds : Insert(id, Admin, Default, "admin")

\* The process ends, with whatever its requests were doing, and starts again.  Of a
\* reset that had come to its first update, no flag is left.
Restart ==
  /\ starts < MaxStarts
  /\ starts' = starts + 1
  /\ EnsureDefaultAdmin
  /\ pc' = [h \in Handlers |-> "idle"]
  /\ cut' = cut \cup {u \in UserIds : Unflagged(u) /\ Resetting(u)}
  /\ KeepKeys /\ KeepArgs /\ UNCHANGED tokens

-----------------------------------------------------------------------------
AccountsStep(h) ==
  \/ \E u \in UserIds : Login(h, u)
  \/ IssueToken(h)
  \/ \E t \in tokens : AuthenticateJWT(h, t)
  \/ \E k \in KeyIds : AuthenticateAPIKey(h, k)
  \/ Answer(h)
  \/ \E u \in UserIds, n \in Names, p \in Passwords, r \in AccountRoles :
       HandleCreateUser(h, u, n, p, r)
  \/ \E u \in UserIds, r \in AccountRoles : HandleUpdateUserRole(h, u, r)
  \/ \E u \in UserIds, n \in Names : HandleUpdateUsername(h, u, n)
  \/ \E u \in UserIds, p \in Passwords : HandleUpdateUserPassword(h, u, p)
  \/ SetPasswordChangeRequired(h)
  \/ \E u \in UserIds : HandleDeleteUser(h, u)
  \/ \E p \in Passwords : HandleChangePassword(h, p)
  \/ WriteOwnPassword(h)
  \/ \E k \in KeyIds : HandleCreateAPIKey(h, k) \/ HandleDeleteAPIKey(h, k)

AccountsNext == (\E h \in Handlers : AccountsStep(h)) \/ Restart

AccountsSpec == AccountsInit /\ [][AccountsNext]_accountsVars

-----------------------------------------------------------------------------
(* Properties.                                                             *)

\* A token or a key outlives its account (nothing deletes them with it), yet it
\* never speaks for another account: ids are not given out twice.
CredentialsKeepTheirAccount ==
  /\ \A t \in tokens : users[t.user.id].exists => users[t.user.id].serial = t.user.serial
  /\ \A k \in KeyIds :
       keys[k].exists /\ users[keys[k].user].exists => users[keys[k].user].serial = keys[k].serial

\* A request that is under way writes to no other account than the one that it
\* was authenticated for, although it writes by id long after it read the row.
RequestsKeepTheirAccount ==
  \A h \in Handlers : pc[h] # "idle" /\ users[who[h].id].exists =>
    users[who[h].id].serial = who[h].serial

\* Whoever has a password an admin chose is asked to change it: no order of resets,
\* changes of one's own password, deletes and restarts leaves it unflagged, but for
\* the time between the two updates of a reset, and for an account whose last reset
\* was between them when the process ended.
AdminPasswordIsFlagged == \A u \in UserIds : Unflagged(u) => Resetting(u) \/ u \in cut
=============================================================================

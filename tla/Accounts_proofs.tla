--------------------------- MODULE Accounts_proofs --------------------------
(***************************************************************************)
(* Proofs about Accounts, for every number of requests, accounts and keys: *)
(* the type invariant; that neither a credential nor a request under way   *)
(* ever comes to stand for another account than its own; and that a        *)
(* password an admin chose stays flagged.                                  *)
(***************************************************************************)
EXTENDS Accounts, TLAPS

\* Why ids are enough to name an account: no row has an id that users has not
\* given out, and no credential or request holds one.
IdsWereGiven ==
  /\ \A u \in UserIds : users[u].exists => u <= lastId
  /\ \A t \in tokens : t.user.id <= lastId
  /\ \A k \in KeyIds : keys[k].exists => keys[k].user <= lastId
  /\ \A h \in Handlers : who[h].id <= lastId

\* RequestsKeepTheirAccount of idle requests, too: a login starts from one.
WhoKeepsAccount ==
  \A h \in Handlers : users[who[h].id].exists => users[who[h].id].serial = who[h].serial

AccountsInv ==
  AccountsTypeOK /\ IdsWereGiven /\ CredentialsKeepTheirAccount /\ WhoKeepsAccount

\* What a step does to the rows whose ids were given out: they stay, change their
\* fields or go away, and ids only grow.
RowsKept ==
  /\ lastId <= lastId'
  /\ \A u \in UserIds : users'[u].exists => u <= lastId'
  /\ \A u \in UserIds : u <= lastId /\ users'[u].exists =>
       users[u].exists /\ users'[u].serial = users[u].serial

\* Where credentials and the users of requests come from.
TokensCome == \A t \in tokens' : t \in tokens \/ \E h \in Handlers : t.user = who[h]
KeysCome ==
  \A k \in KeyIds : keys'[k].exists =>
    \/ keys[k].exists /\ keys'[k] = keys[k]
    \/ \E h \in Handlers : keys'[k].user = who[h].id /\ keys'[k].serial = who[h].serial
UsersCome ==
  \A h \in Handlers :
    \/ who'[h] = who[h]
    \/ \E t \in tokens : who'[h] = t.user
    \/ /\ users' = users /\ lastId' = lastId
       /\ \E u \in UserIds : users[u].exists /\ who'[h] = AuthUserOf(u)

LEMMA InitInv == AccountsInit => AccountsInv
<1>. SUFFICES ASSUME AccountsInit PROVE AccountsInv
  OBVIOUS
<1>. USE AccountsAssumption DEF AccountsAssumption, AccountsInit, UserIds, KeyIds
<1>1. 1 \in UserIds /\ NoRow.exists = FALSE
  BY DEF NoRow
<1>2. /\ users[1] \in UserRow /\ users[1].serial = 1
      /\ \A u \in UserIds : u # 1 => users[u] = NoRow
  BY <1>1 DEF UserRow
<1>3. AccountsTypeOK
  BY <1>1, <1>2 DEF AccountsTypeOK, AuthUser
<1>4. IdsWereGiven
  BY <1>1, <1>2 DEF IdsWereGiven
<1>5. CredentialsKeepTheirAccount /\ WhoKeepsAccount
  BY <1>1, <1>2 DEF CredentialsKeepTheirAccount, WhoKeepsAccount
<1>. QED
  BY <1>3, <1>4, <1>5 DEF AccountsInv

\* What AuthUserOf returns for a row.
LEMMA AuthUserOfRow ==
  ASSUME AccountsTypeOK, NEW u \in UserIds, users[u].exists
  PROVE  /\ AuthUserOf(u) \in AuthUser
         /\ AuthUserOf(u).id = u
         /\ AuthUserOf(u).serial = users[u].serial
         /\ users[u] \in UserRow
<1>1. users[u] \in UserRow
  BY DEF AccountsTypeOK, NoRow
<1>. QED
  BY <1>1 DEF AuthUserOf, AuthUser, UserRow

LEMMA SecretType == AccountsTypeOK => Secret \in Nat
BY DEF AccountsTypeOK, Secret

\* Every step keeps the types: one step per action.
LEMMA TypeStep == AccountsTypeOK /\ [AccountsNext]_accountsVars => AccountsTypeOK'
<1>. SUFFICES ASSUME AccountsTypeOK, [AccountsNext]_accountsVars PROVE AccountsTypeOK'
  OBVIOUS
<1>. USE DEF AccountsTypeOK, Goto, KeepUsers, KeepKeys, KeepArgs, KeepTokens, KeepProcess
<1>1. ASSUME NEW h \in Handlers, NEW u \in UserIds, Login(h, u) PROVE AccountsTypeOK'
  BY <1>1, AuthUserOfRow DEF Login
<1>2. ASSUME NEW h \in Handlers, IssueToken(h) PROVE AccountsTypeOK'
  BY <1>2, SecretType DEF IssueToken, Token
<1>3. ASSUME NEW h \in Handlers, NEW t \in tokens, AuthenticateJWT(h, t) PROVE AccountsTypeOK'
  BY <1>3 DEF AuthenticateJWT, Token
<1>4. ASSUME NEW h \in Handlers, NEW k \in KeyIds, AuthenticateAPIKey(h, k)
      PROVE  AccountsTypeOK'
  <2>1. keys[k] \in KeyRow
    BY <1>4 DEF AuthenticateAPIKey, NoRow
  <2>2. keys[k].user \in UserIds
    BY <2>1 DEF KeyRow
  <2>. QED
    BY <1>4, <2>2, AuthUserOfRow DEF AuthenticateAPIKey
<1>5. ASSUME NEW h \in Handlers, Answer(h) PROVE AccountsTypeOK'
  BY <1>5 DEF Answer
<1>6. ASSUME NEW u \in UserIds, NEW n \in Names, NEW p \in Passwords, NEW r \in AccountRoles,
             Insert(u, n, p, r)
      PROVE  /\ users' \in [UserIds -> UserRow \cup {NoRow}]
             /\ lastId' \in 0..MaxUsers /\ born' \in Nat
  <2>1. NewUser(n, p, r) \in UserRow
    BY DEF NewUser, UserRow
  <2>2. u \in 0..MaxUsers
    BY DEF UserIds
  <2>. QED
    BY <1>6, <2>1, <2>2 DEF Insert
<1>7. ASSUME NEW h \in Handlers, NEW u \in UserIds, NEW n \in Names, NEW p \in Passwords,
             NEW r \in AccountRoles, HandleCreateUser(h, u, n, p, r)
      PROVE  AccountsTypeOK'
  BY <1>6, <1>7 DEF HandleCreateUser
<1>8. ASSUME NEW u \in UserIds, users[u].exists,
             NEW row \in UserRow, users' = [users EXCEPT ![u] = row]
      PROVE  users' \in [UserIds -> UserRow \cup {NoRow}]
  BY <1>8
<1>9. ASSUME NEW h \in Handlers, NEW u \in UserIds, NEW r \in AccountRoles,
             HandleUpdateUserRole(h, u, r)
      PROVE  AccountsTypeOK'
  <2>1. users[u] \in UserRow
    BY <1>9, AuthUserOfRow DEF HandleUpdateUserRole
  <2>. QED
    BY <1>9, <2>1 DEF HandleUpdateUserRole, UserRow
<1>10. ASSUME NEW h \in Handlers, NEW u \in UserIds, NEW n \in Names,
              HandleUpdateUsername(h, u, n)
       PROVE  AccountsTypeOK'
  <2>1. users[u] \in UserRow
    BY <1>10, AuthUserOfRow DEF HandleUpdateUsername
  <2>. QED
    BY <1>10, <2>1 DEF HandleUpdateUsername, UserRow
<1>11. ASSUME NEW h \in Handlers, NEW u \in UserIds, NEW p \in Passwords,
              HandleUpdateUserPassword(h, u, p)
       PROVE  AccountsTypeOK'
  <2>1. users[u] \in UserRow
    BY <1>11, AuthUserOfRow DEF HandleUpdateUserPassword
  <2>. QED
    BY <1>11, <2>1 DEF HandleUpdateUserPassword, UserRow
<1>12. ASSUME NEW h \in Handlers, SetPasswordChangeRequired(h) PROVE AccountsTypeOK'
  <2>1. users[target[h]].exists => users[target[h]] \in UserRow
    BY AuthUserOfRow
  <2>. QED
    BY <1>12, <2>1 DEF SetPasswordChangeRequired, UserRow
<1>13. ASSUME NEW h \in Handlers, NEW u \in UserIds, HandleDeleteUser(h, u)
       PROVE  AccountsTypeOK'
  BY <1>13 DEF HandleDeleteUser
<1>14. ASSUME NEW h \in Handlers, NEW p \in Passwords, HandleChangePassword(h, p)
       PROVE  AccountsTypeOK'
  <2>1. who[h].id \in UserIds
    BY DEF AuthUser
  <2>2. users[who[h].id] \in UserRow
    BY <1>14, <2>1, AuthUserOfRow DEF HandleChangePassword
  <2>. QED
    BY <1>14, <2>2 DEF HandleChangePassword, UserRow
<1>15. ASSUME NEW h \in Handlers, WriteOwnPassword(h) PROVE AccountsTypeOK'
  <2>1. who[h].id \in UserIds
    BY DEF AuthUser
  <2>2. users[who[h].id].exists => users[who[h].id] \in UserRow
    BY <2>1, AuthUserOfRow
  <2>. QED
    BY <1>15, <2>1, <2>2 DEF WriteOwnPassword, UserRow
<1>16. ASSUME NEW h \in Handlers, NEW k \in KeyIds, HandleCreateAPIKey(h, k)
       PROVE  AccountsTypeOK'
  <2>. DEFINE row == [exists |-> TRUE, user |-> who[h].id, serial |-> who[h].serial]
  <2>1. row \in KeyRow
    BY DEF KeyRow, AuthUser
  <2>2. k \in 0..MaxKeys
    BY DEF KeyIds
  <2>3. keys' = [keys EXCEPT ![k] = row] /\ lastKey' = k
    BY <1>16 DEF HandleCreateAPIKey
  <2>4. keys' \in [KeyIds -> KeyRow \cup {NoRow}]
    BY <2>1, <2>3
  <2>. QED
    BY <1>16, <2>2, <2>3, <2>4 DEF HandleCreateAPIKey
<1>17. ASSUME NEW h \in Handlers, NEW k \in KeyIds, HandleDeleteAPIKey(h, k)
       PROVE  AccountsTypeOK'
  BY <1>17 DEF HandleDeleteAPIKey
<1>18. CASE Restart
  <2>1. EnsureDefaultAdmin => /\ users' \in [UserIds -> UserRow \cup {NoRow}]
                              /\ lastId' \in 0..MaxUsers /\ born' \in Nat
    BY <1>6, AccountsAssumption DEF EnsureDefaultAdmin, AccountsAssumption
  <2>. QED
    BY <1>18, <2>1 DEF Restart
<1>19. CASE UNCHANGED accountsVars
  BY <1>19 DEF accountsVars, dbVars, requestVars
<1>. QED
  BY <1>1, <1>2, <1>3, <1>4, <1>5, <1>7, <1>9, <1>10, <1>11, <1>12, <1>13, <1>14, <1>15,
     <1>16, <1>17, <1>18, <1>19
  DEF AccountsNext, AccountsStep

LEMMA RowsStep ==
  AccountsTypeOK /\ IdsWereGiven /\ [AccountsNext]_accountsVars => RowsKept
<1>. SUFFICES ASSUME AccountsTypeOK, IdsWereGiven, [AccountsNext]_accountsVars PROVE RowsKept
  OBVIOUS
<1>. USE DEF KeepUsers
<1>1. lastId \in Nat /\ UserIds \subseteq Nat
  BY DEF AccountsTypeOK, UserIds
<1>2. /\ DOMAIN users = UserIds
      /\ \A u \in UserIds : users[u].exists => users[u] \in UserRow /\ u <= lastId
  BY AuthUserOfRow DEF AccountsTypeOK, IdsWereGiven
<1>3. ASSUME users' = users, lastId' = lastId PROVE RowsKept
  BY <1>1, <1>2, <1>3 DEF RowsKept
<1>4. ASSUME NEW u \in UserIds, NEW row, lastId' = lastId,
             users' = [users EXCEPT ![u] = row],
             row.exists => users[u].exists /\ row.serial = users[u].serial
      PROVE  RowsKept
  BY <1>1, <1>2, <1>4 DEF RowsKept
<1>5. ASSUME NEW id \in UserIds, NEW n, NEW p, NEW r, Insert(id, n, p, r) PROVE RowsKept
  BY <1>1, <1>2, <1>5 DEF RowsKept, Insert, FreshId
<1>6. ASSUME NEW h \in Handlers, NEW u \in UserIds, NEW r \in AccountRoles,
             HandleUpdateUserRole(h, u, r)
      PROVE  RowsKept
  BY <1>2, <1>4, <1>6 DEF HandleUpdateUserRole, UserRow
<1>7. ASSUME NEW h \in Handlers, NEW u \in UserIds, NEW n \in Names,
             HandleUpdateUsername(h, u, n)
      PROVE  RowsKept
  BY <1>2, <1>4, <1>7 DEF HandleUpdateUsername, UserRow
<1>8. ASSUME NEW h \in Handlers, NEW u \in UserIds, NEW p \in Passwords,
             HandleUpdateUserPassword(h, u, p)
      PROVE  RowsKept
  <2>. DEFINE row == [users[u] EXCEPT !.password = p, !.passwordChangeRequired = FALSE,
                                      !.setBy = "admin"]
  <2>1. users[u].exists /\ lastId' = lastId /\ users[u] \in UserRow
    BY <1>2, <1>8 DEF HandleUpdateUserPassword
  <2>2. users' = [users EXCEPT ![u] = row]
    BY <1>2, <1>8 DEF HandleUpdateUserPassword
  <2>3. row.serial = users[u].serial
    BY <2>1 DEF UserRow
  <2>. HIDE DEF row
  <2>. QED
    BY <1>4, <2>1, <2>2, <2>3
<1>9. ASSUME NEW h \in Handlers, SetPasswordChangeRequired(h) PROVE RowsKept
  <2>1. target[h] \in UserIds
    BY DEF AccountsTypeOK
  <2>. QED
    BY <1>2, <1>3, <1>4, <1>9, <2>1 DEF SetPasswordChangeRequired, UserRow
<1>10. ASSUME NEW h \in Handlers, NEW u \in UserIds, HandleDeleteUser(h, u) PROVE RowsKept
  BY <1>4, <1>10 DEF HandleDeleteUser, NoRow
<1>11. ASSUME NEW h \in Handlers, WriteOwnPassword(h) PROVE RowsKept
  <2>1. who[h].id \in UserIds
    BY DEF AccountsTypeOK, AuthUser
  <2>2. CASE ~users[who[h].id].exists
    BY <1>3, <1>11, <2>2 DEF WriteOwnPassword
  <2>3. CASE users[who[h].id].exists
    <3>. DEFINE u == who[h].id
                row == [users[u] EXCEPT !.password = given[h],
                                        !.passwordChangeRequired = FALSE, !.setBy = "owner"]
    <3>1. lastId' = lastId /\ users[u] \in UserRow
      BY <1>2, <1>11, <2>1, <2>3 DEF WriteOwnPassword
    <3>2. users' = [users EXCEPT ![u] = row]
      BY <1>2, <1>11, <2>1, <2>3 DEF WriteOwnPassword
    <3>3. row.serial = users[u].serial
      BY <3>1 DEF UserRow
    <3>. HIDE DEF row
    <3>. QED
      BY <1>4, <2>1, <2>3, <3>1, <3>2, <3>3
  <2>. QED
    BY <2>2, <2>3
<1>12. ASSUME NEW h \in Handlers,
              \/ \E u \in UserIds : Login(h, u)
              \/ IssueToken(h)
              \/ \E t \in tokens : AuthenticateJWT(h, t)
              \/ \E k \in KeyIds : AuthenticateAPIKey(h, k)
              \/ Answer(h)
              \/ \E p \in Passwords : HandleChangePassword(h, p)
              \/ \E k \in KeyIds : HandleCreateAPIKey(h, k) \/ HandleDeleteAPIKey(h, k)
       PROVE  RowsKept
  BY <1>3, <1>12 DEF Login, IssueToken, AuthenticateJWT, AuthenticateAPIKey, Answer,
                     HandleChangePassword, HandleCreateAPIKey, HandleDeleteAPIKey
<1>13. ASSUME NEW h \in Handlers, NEW u \in UserIds, NEW n \in Names, NEW p \in Passwords,
              NEW r \in AccountRoles, HandleCreateUser(h, u, n, p, r)
       PROVE  RowsKept
  BY <1>5, <1>13 DEF HandleCreateUser
<1>14. CASE Restart
  BY <1>3, <1>5, <1>14 DEF Restart, EnsureDefaultAdmin
<1>15. CASE UNCHANGED accountsVars
  BY <1>3, <1>15 DEF accountsVars, dbVars
<1>. QED
  BY <1>6, <1>7, <1>8, <1>9, <1>10, <1>11, <1>12, <1>13, <1>14, <1>15
  DEF AccountsNext, AccountsStep

LEMMA CredentialsStep ==
  AccountsTypeOK /\ [AccountsNext]_accountsVars => TokensCome /\ KeysCome /\ UsersCome
<1>. SUFFICES ASSUME AccountsTypeOK, [AccountsNext]_accountsVars
              PROVE  TokensCome /\ KeysCome /\ UsersCome
  OBVIOUS
<1>. USE DEF KeepUsers, KeepKeys, KeepArgs, KeepTokens, KeepProcess
<1>1. DOMAIN keys = KeyIds /\ DOMAIN who = Handlers
  BY DEF AccountsTypeOK
<1>2. tokens' = tokens => TokensCome
  BY DEF TokensCome
<1>3. keys' = keys => KeysCome
  BY DEF KeysCome
<1>4. who' = who => UsersCome
  BY DEF UsersCome
<1>5. ASSUME NEW h \in Handlers, NEW u \in UserIds, users[u].exists,
             who' = [who EXCEPT ![h] = AuthUserOf(u)], users' = users, lastId' = lastId
      PROVE  UsersCome
  BY <1>1, <1>5 DEF UsersCome
<1>6. ASSUME NEW h \in Handlers, NEW u \in UserIds, Login(h, u)
      PROVE  TokensCome /\ KeysCome /\ UsersCome
  BY <1>2, <1>3, <1>5, <1>6 DEF Login
<1>7. ASSUME NEW h \in Handlers, NEW k \in KeyIds, AuthenticateAPIKey(h, k)
      PROVE  TokensCome /\ KeysCome /\ UsersCome
  <2>1. keys[k] \in KeyRow
    BY <1>7 DEF AccountsTypeOK, AuthenticateAPIKey, NoRow
  <2>2. keys[k].user \in UserIds
    BY <2>1 DEF KeyRow
  <2>. QED
    BY <1>2, <1>3, <1>5, <1>7, <2>2 DEF AuthenticateAPIKey
<1>8. ASSUME NEW h \in Handlers, NEW t \in tokens, AuthenticateJWT(h, t)
      PROVE  TokensCome /\ KeysCome /\ UsersCome
  <2>1. UsersCome
    BY <1>1, <1>8 DEF AuthenticateJWT, UsersCome
  <2>. QED
    BY <1>2, <1>3, <1>8, <2>1 DEF AuthenticateJWT
<1>9. ASSUME NEW h \in Handlers, IssueToken(h) PROVE TokensCome /\ KeysCome /\ UsersCome
  <2>1. TokensCome
    BY <1>9 DEF IssueToken, TokensCome
  <2>. QED
    BY <1>3, <1>4, <1>9, <2>1 DEF IssueToken
<1>10. ASSUME NEW h \in Handlers, NEW k \in KeyIds, HandleCreateAPIKey(h, k)
       PROVE  TokensCome /\ KeysCome /\ UsersCome
  <2>1. KeysCome
    BY <1>1, <1>10 DEF HandleCreateAPIKey, KeysCome
  <2>. QED
    BY <1>2, <1>4, <1>10, <2>1 DEF HandleCreateAPIKey
<1>11. ASSUME NEW h \in Handlers, NEW k \in KeyIds, HandleDeleteAPIKey(h, k)
       PROVE  TokensCome /\ KeysCome /\ UsersCome
  <2>1. KeysCome
    BY <1>1, <1>11 DEF HandleDeleteAPIKey, KeysCome, NoRow
  <2>. QED
    BY <1>2, <1>4, <1>11, <2>1 DEF HandleDeleteAPIKey
<1>12. ASSUME tokens' = tokens, keys' = keys, who' = who
       PROVE  TokensCome /\ KeysCome /\ UsersCome
  BY <1>2, <1>3, <1>4, <1>12
<1>13. CASE Restart
  BY <1>12, <1>13 DEF Restart
<1>14. CASE UNCHANGED accountsVars
  BY <1>12, <1>14 DEF accountsVars, dbVars, requestVars
<1>15. ASSUME NEW h \in Handlers,
              \/ Answer(h)
              \/ \E u \in UserIds, n \in Names, p \in Passwords, r \in AccountRoles :
                   HandleCreateUser(h, u, n, p, r)
              \/ \E u \in UserIds, r \in AccountRoles : HandleUpdateUserRole(h, u, r)
              \/ \E u \in UserIds, n \in Names : HandleUpdateUsername(h, u, n)
              \/ \E u \in UserIds, p \in Passwords : HandleUpdateUserPassword(h, u, p)
              \/ SetPasswordChangeRequired(h)
              \/ \E u \in UserIds : HandleDeleteUser(h, u)
              \/ \E p \in Passwords : HandleChangePassword(h, p)
              \/ WriteOwnPassword(h)
       PROVE  tokens' = tokens /\ keys' = keys /\ who' = who
  BY <1>15 DEF Answer, HandleCreateUser, HandleUpdateUserRole, HandleUpdateUsername,
               HandleUpdateUserPassword, SetPasswordChangeRequired, HandleDeleteUser,
               HandleChangePassword, WriteOwnPassword
<1>. QED
  BY <1>6, <1>7, <1>8, <1>9, <1>10, <1>11, <1>12, <1>13, <1>14, <1>15
  DEF AccountsNext, AccountsStep

\* Ids that were given out are never given out again: nothing changes its account.
LEMMA IdentityStep ==
  AccountsInv /\ AccountsTypeOK' /\ RowsKept /\ TokensCome /\ KeysCome /\ UsersCome
    => AccountsInv'
<1>. SUFFICES ASSUME AccountsInv, AccountsTypeOK', RowsKept, TokensCome, KeysCome, UsersCome
              PROVE  IdsWereGiven' /\ CredentialsKeepTheirAccount' /\ WhoKeepsAccount'
  BY DEF AccountsInv
<1>1. lastId \in Nat /\ lastId' \in Nat /\ UserIds \subseteq Nat
  BY DEF AccountsInv, AccountsTypeOK, UserIds
<1>2. /\ \A h \in Handlers : who[h].id \in UserIds
      /\ \A t \in tokens : t.user.id \in UserIds
      /\ \A k \in KeyIds : keys[k].exists => keys[k].user \in UserIds
  <2>1. \A h \in Handlers : who[h].id \in UserIds
    BY DEF AccountsInv, AccountsTypeOK, AuthUser
  <2>2. \A t \in tokens : t.user.id \in UserIds
    BY DEF AccountsInv, AccountsTypeOK, AuthUser, Token
  <2>3. ASSUME NEW k \in KeyIds, keys[k].exists PROVE keys[k].user \in UserIds
    <3>1. keys[k] \in KeyRow
      BY <2>3 DEF AccountsInv, AccountsTypeOK, NoRow
    <3>. QED
      BY <3>1 DEF KeyRow
  <2>. QED
    BY <2>1, <2>2, <2>3
\* An id that speaks for account s before the step does so after it.
<1>3. ASSUME NEW u \in UserIds, NEW s, u <= lastId,
             users[u].exists => users[u].serial = s
      PROVE  u <= lastId' /\ (users'[u].exists => users'[u].serial = s)
  BY <1>1, <1>3 DEF RowsKept
<1>4. ASSUME NEW h \in Handlers
      PROVE  /\ who[h].id <= lastId'
             /\ users'[who[h].id].exists => users'[who[h].id].serial = who[h].serial
  BY <1>2, <1>3 DEF AccountsInv, IdsWereGiven, WhoKeepsAccount
<1>5. ASSUME NEW t \in tokens
      PROVE  /\ t.user.id <= lastId'
             /\ users'[t.user.id].exists => users'[t.user.id].serial = t.user.serial
  BY <1>2, <1>3 DEF AccountsInv, IdsWereGiven, CredentialsKeepTheirAccount
<1>6. ASSUME NEW k \in KeyIds, keys[k].exists
      PROVE  /\ keys[k].user <= lastId'
             /\ users'[keys[k].user].exists => users'[keys[k].user].serial = keys[k].serial
  BY <1>2, <1>3, <1>6 DEF AccountsInv, IdsWereGiven, CredentialsKeepTheirAccount
<1>7. ASSUME NEW h \in Handlers
      PROVE  /\ who'[h].id <= lastId'
             /\ users'[who'[h].id].exists => users'[who'[h].id].serial = who'[h].serial
  <2>1. CASE who'[h] = who[h]
    BY <1>4, <2>1
  <2>2. ASSUME NEW t \in tokens, who'[h] = t.user
        PROVE  /\ who'[h].id <= lastId'
               /\ users'[who'[h].id].exists => users'[who'[h].id].serial = who'[h].serial
    BY <1>5, <2>2
  <2>3. ASSUME users' = users, lastId' = lastId, NEW u \in UserIds, users[u].exists,
               who'[h] = AuthUserOf(u)
        PROVE  /\ who'[h].id <= lastId'
               /\ users'[who'[h].id].exists => users'[who'[h].id].serial = who'[h].serial
    BY <2>3 DEF AuthUserOf, AccountsInv, IdsWereGiven
  <2>. QED
    BY <2>1, <2>2, <2>3 DEF UsersCome
<1>8. IdsWereGiven'
  <2>1. \A t \in tokens' : t.user.id <= lastId'
    BY <1>4, <1>5 DEF TokensCome
  <2>2. \A k \in KeyIds : keys'[k].exists => keys'[k].user <= lastId'
    BY <1>4, <1>6 DEF KeysCome
  <2>. QED
    BY <1>7, <2>1, <2>2 DEF IdsWereGiven, RowsKept
<1>9. CredentialsKeepTheirAccount'
  <2>1. \A t \in tokens' :
          users'[t.user.id].exists => users'[t.user.id].serial = t.user.serial
    BY <1>4, <1>5 DEF TokensCome
  <2>2. \A k \in KeyIds :
          keys'[k].exists /\ users'[keys'[k].user].exists
            => users'[keys'[k].user].serial = keys'[k].serial
    BY <1>4, <1>6 DEF KeysCome
  <2>. QED
    BY <2>1, <2>2 DEF CredentialsKeepTheirAccount
<1>. QED
  BY <1>7, <1>8, <1>9 DEF WhoKeepsAccount

LEMMA AccountsInvariant == AccountsSpec => []AccountsInv
<1>1. AccountsInv /\ [AccountsNext]_accountsVars => AccountsInv'
  BY TypeStep, RowsStep, CredentialsStep, IdentityStep DEF AccountsInv
<1>. QED
  BY InitInv, <1>1, PTL DEF AccountsSpec

\* Every reachable state is well typed, whatever the requests and restarts.
THEOREM AccountsTypeCorrect == AccountsSpec => []AccountsTypeOK
<1>1. AccountsInv => AccountsTypeOK
  BY DEF AccountsInv
<1>. QED
  BY AccountsInvariant, <1>1, PTL

\* No token and no API key ever speaks for another account than the one it was
\* made for: users gives no id twice (AUTOINCREMENT, system.go).
THEOREM CredentialsCorrect == AccountsSpec => []CredentialsKeepTheirAccount
<1>1. AccountsInv => CredentialsKeepTheirAccount
  BY DEF AccountsInv
<1>. QED
  BY AccountsInvariant, <1>1, PTL

\* No request writes to another account than the one that it was authenticated
\* for, however long ago it read the row.
THEOREM RequestsCorrect == AccountsSpec => []RequestsKeepTheirAccount
<1>1. AccountsInv => RequestsKeepTheirAccount
  BY DEF AccountsInv, WhoKeepsAccount, RequestsKeepTheirAccount
<1>. QED
  BY AccountsInvariant, <1>1, PTL

-----------------------------------------------------------------------------
(* Passwords that an admin chose.                                          *)

Excused(u) == Resetting(u) \/ u \in cut
FlagInv == AccountsTypeOK /\ \A u \in UserIds : Unflagged(u) => Excused(u)

LEMMA FlagInit == AccountsInit => FlagInv
<1>. SUFFICES ASSUME AccountsInit PROVE FlagInv
  OBVIOUS
<1>1. AccountsTypeOK
  BY InitInv DEF AccountsInv
<1>2. \A u \in UserIds : ~Unflagged(u)
  BY DEF AccountsInit, Unflagged, NoRow
<1>. QED
  BY <1>1, <1>2 DEF FlagInv

\* A step of a request: the row it writes, if any, is flagged, the owner's, as it
\* was, or at the start of a reset; and a reset ends with the flag.
LEMMA FlagStep ==
  ASSUME FlagInv, NEW h \in Handlers, AccountsStep(h)
  PROVE  \A u \in UserIds : Unflagged(u)' => Excused(u)'
<1>. SUFFICES ASSUME NEW v \in UserIds, Unflagged(v)'
              PROVE  Excused(v)'
  OBVIOUS
<1>. USE DEF Goto, KeepUsers, KeepArgs, KeepProcess
<1>1. /\ \A u \in UserIds : Unflagged(u) => Excused(u)
      /\ pc \in [Handlers -> {"idle", "login", "authenticated", "flag", "change"}]
      /\ target \in [Handlers -> UserIds]
      /\ users \in [UserIds -> UserRow \cup {NoRow}]
      /\ \A u \in UserIds : users[u].exists => users[u] \in UserRow
  BY AuthUserOfRow DEF FlagInv, AccountsTypeOK
\* Whoever is not at the flag disturbs no reset.
<1>2. ASSUME NEW step, pc[h] # "flag", pc' = [pc EXCEPT ![h] = step], target' = target
      PROVE  \A u \in UserIds : Resetting(u) => Resetting(u)'
  BY <1>1, <1>2 DEF Resetting
<1>3. ASSUME users' = users, pc[h] # "flag", target' = target, v \in cut => v \in cut',
             NEW step, pc' = [pc EXCEPT ![h] = step]
      PROVE  Excused(v)'
  BY <1>1, <1>2, <1>3 DEF Unflagged, Excused
<1>4. ASSUME NEW u \in UserIds, NEW row, users' = [users EXCEPT ![u] = row],
             row.exists /\ row.setBy = "admin" /\ ~row.passwordChangeRequired => Unflagged(u),
             v \in cut => v \in cut',
             pc[h] # "flag", target' = target, NEW step, pc' = [pc EXCEPT ![h] = step]
      PROVE  Excused(v)'
  <2>1. Unflagged(v)
    BY <1>1, <1>4 DEF Unflagged
  <2>. QED
    BY <1>1, <1>2, <1>4, <2>1 DEF Excused
<1>5. CASE \/ \E u \in UserIds : Login(h, u)
           \/ IssueToken(h)
           \/ \E t \in tokens : AuthenticateJWT(h, t)
           \/ \E k \in KeyIds : AuthenticateAPIKey(h, k)
           \/ Answer(h)
           \/ \E p \in Passwords : HandleChangePassword(h, p)
           \/ \E k \in KeyIds : HandleCreateAPIKey(h, k) \/ HandleDeleteAPIKey(h, k)
  BY <1>3, <1>5 DEF Login, IssueToken, AuthenticateJWT, AuthenticateAPIKey, Answer,
                    HandleChangePassword, HandleCreateAPIKey, HandleDeleteAPIKey, May
<1>6. ASSUME NEW u \in UserIds, NEW n \in Names, NEW p \in Passwords, NEW r \in AccountRoles,
             HandleCreateUser(h, u, n, p, r)
      PROVE  Excused(v)'
  <2>1. NewUser(n, p, r).passwordChangeRequired = TRUE
    BY DEF NewUser
  <2>. QED
    BY <1>4, <1>6, <2>1 DEF HandleCreateUser, Insert, May
<1>7. ASSUME NEW u \in UserIds, NEW r \in AccountRoles, HandleUpdateUserRole(h, u, r)
      PROVE  Excused(v)'
  <2>. DEFINE row == [users[u] EXCEPT !.role = r]
  <2>1. row.exists /\ row.setBy = "admin" /\ ~row.passwordChangeRequired => Unflagged(u)
    BY <1>1, <1>7 DEF HandleUpdateUserRole, UserRow, Unflagged
  <2>2. users' = [users EXCEPT ![u] = row]
    BY <1>1, <1>7 DEF HandleUpdateUserRole
  <2>. HIDE DEF row
  <2>. QED
    BY <1>4, <1>7, <2>1, <2>2 DEF HandleUpdateUserRole, May
<1>8. ASSUME NEW u \in UserIds, NEW n \in Names, HandleUpdateUsername(h, u, n)
      PROVE  Excused(v)'
  <2>. DEFINE row == [users[u] EXCEPT !.name = n]
  <2>1. row.exists /\ row.setBy = "admin" /\ ~row.passwordChangeRequired => Unflagged(u)
    BY <1>1, <1>8 DEF HandleUpdateUsername, UserRow, Unflagged
  <2>2. users' = [users EXCEPT ![u] = row]
    BY <1>1, <1>8 DEF HandleUpdateUsername
  <2>. HIDE DEF row
  <2>. QED
    BY <1>4, <1>8, <2>1, <2>2 DEF HandleUpdateUsername, May
<1>9. ASSUME NEW u \in UserIds, NEW p \in Passwords, HandleUpdateUserPassword(h, u, p)
      PROVE  Excused(v)'
  <2>1. /\ pc[h] = "authenticated" /\ pc' = [pc EXCEPT ![h] = "flag"]
        /\ target' = [target EXCEPT ![h] = u] /\ cut' = cut \ {u}
        /\ \A w \in UserIds : w # u => users'[w] = users[w]
    BY <1>1, <1>9 DEF HandleUpdateUserPassword, May
  <2>2. CASE v = u
    BY <1>1, <2>1, <2>2 DEF Resetting, Excused
  <2>3. CASE v # u
    <3>1. CASE v \in cut
      BY <2>1, <2>3, <3>1 DEF Excused
    <3>2. CASE v \notin cut
      <4>1. PICK g \in Handlers : pc[g] = "flag" /\ target[g] = v
        BY <1>1, <2>1, <2>3, <3>2 DEF Unflagged, Resetting, Excused
      <4>. QED
        BY <1>1, <2>1, <4>1 DEF Resetting, Excused
    <3>. QED
      BY <3>1, <3>2
  <2>. QED
    BY <2>2, <2>3
<1>10. CASE SetPasswordChangeRequired(h)
  <2>1. /\ pc' = [pc EXCEPT ![h] = "idle"] /\ target' = target /\ target[h] \in UserIds
        /\ \A w \in UserIds : w # target[h] => users'[w] = users[w]
        /\ cut' = cut \ {target[h]}
    BY <1>1, <1>10 DEF SetPasswordChangeRequired
  <2>2. v # target[h]
    <3>1. CASE users[target[h]].exists
      BY <1>1, <1>10, <2>1, <3>1 DEF SetPasswordChangeRequired, Unflagged, UserRow
    <3>2. CASE ~users[target[h]].exists
      BY <1>1, <1>10, <2>1, <3>2 DEF SetPasswordChangeRequired, Unflagged
    <3>. QED
      BY <3>1, <3>2
  <2>3. CASE v \in cut
    BY <2>1, <2>2, <2>3 DEF Excused
  <2>4. CASE v \notin cut
    <3>1. PICK g \in Handlers : pc[g] = "flag" /\ target[g] = v
      BY <1>1, <2>1, <2>2, <2>4 DEF Unflagged, Resetting, Excused
    <3>. QED
      BY <1>1, <2>1, <2>2, <3>1 DEF Resetting, Excused
  <2>. QED
    BY <2>3, <2>4
<1>11. ASSUME NEW u \in UserIds, HandleDeleteUser(h, u)
       PROVE  Excused(v)'
  BY <1>4, <1>11 DEF HandleDeleteUser, May, NoRow
<1>12. CASE WriteOwnPassword(h)
  <2>1. who[h].id \in UserIds
    BY DEF FlagInv, AccountsTypeOK, AuthUser
  <2>2. CASE ~users[who[h].id].exists
    <3>1. users' = users /\ v # who[h].id
      BY <1>12, <2>2 DEF WriteOwnPassword, Unflagged
    <3>2. v \in cut => v \in cut'
      BY <1>12, <3>1 DEF WriteOwnPassword
    <3>. QED
      BY <1>3, <1>12, <3>1, <3>2 DEF WriteOwnPassword
  <2>3. CASE users[who[h].id].exists
    <3>. DEFINE row == [users[who[h].id] EXCEPT !.password = given[h],
                                     !.passwordChangeRequired = FALSE, !.setBy = "owner"]
    <3>1. row.setBy # "admin"
      BY <1>1, <2>1, <2>3 DEF UserRow
    <3>2. users' = [users EXCEPT ![who[h].id] = row]
      BY <1>1, <1>12, <2>1, <2>3 DEF WriteOwnPassword
    <3>. HIDE DEF row
    <3>3. v # who[h].id
      BY <1>1, <2>1, <3>1, <3>2 DEF Unflagged
    <3>4. v \in cut => v \in cut'
      BY <1>12, <3>3 DEF WriteOwnPassword
    <3>. QED
      BY <1>4, <1>12, <2>1, <3>1, <3>2, <3>4 DEF WriteOwnPassword
  <2>. QED
    BY <2>2, <2>3
<1>. QED
  BY <1>5, <1>6, <1>7, <1>8, <1>9, <1>10, <1>11, <1>12 DEF AccountsStep

LEMMA FlagNext == FlagInv /\ [AccountsNext]_accountsVars => FlagInv'
<1>. SUFFICES ASSUME FlagInv, [AccountsNext]_accountsVars PROVE FlagInv'
  OBVIOUS
<1>1. AccountsTypeOK'
  BY TypeStep DEF FlagInv
<1>2. ASSUME NEW h \in Handlers, AccountsStep(h) PROVE FlagInv'
  BY <1>1, <1>2, FlagStep DEF FlagInv
<1>3. CASE Restart
  <2>. SUFFICES ASSUME NEW v \in UserIds, Unflagged(v)' PROVE v \in cut'
    BY <1>1 DEF FlagInv, Excused
  <2>1. cut' = cut \cup {u \in UserIds : Unflagged(u) /\ Resetting(u)}
    BY <1>3 DEF Restart
  <2>2. Unflagged(v)
    <3>1. CASE UNCHANGED users
      BY <3>1 DEF Unflagged
    <3>2. ASSUME NEW id \in UserIds, Insert(id, Admin, Default, "admin")
          PROVE  Unflagged(v)
      <4>1. NewUser(Admin, Default, "admin").passwordChangeRequired = TRUE
        BY DEF NewUser
      <4>. QED
        BY <3>2, <4>1 DEF Insert, Unflagged, FlagInv, AccountsTypeOK
    <3>. QED
      BY <1>3, <3>1, <3>2 DEF Restart, EnsureDefaultAdmin, KeepUsers
  <2>. QED
    BY <2>1, <2>2 DEF FlagInv, Excused
<1>4. CASE UNCHANGED accountsVars
  BY <1>1, <1>4 DEF accountsVars, dbVars, requestVars, FlagInv, Unflagged, Resetting, Excused
<1>. QED
  BY <1>2, <1>3, <1>4 DEF AccountsNext

\* No order of resets, changes, deletes and restarts leaves a password that an admin
\* chose without its flag, but for a reset that is between its two updates, or was
\* the account's last one and between them when the process ended.
THEOREM AdminPasswordIsFlaggedCorrect == AccountsSpec => []AdminPasswordIsFlagged
<1>1. FlagInv => AdminPasswordIsFlagged
  BY DEF FlagInv, Excused, AdminPasswordIsFlagged
<1>. QED
  BY FlagInit, FlagNext, <1>1, PTL DEF AccountsSpec
=============================================================================

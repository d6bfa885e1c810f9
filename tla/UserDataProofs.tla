--------------------------- MODULE UserDataProofs ---------------------------
(***************************************************************************)
(* For any ids, tokens, tables and rows, and whatever interleaves: tokens      *)
(* follow their person and never come back, the legacy data has one heir,     *)
(* rows go only with an account or a phone, and a delete that was not forced  *)
(* takes only what the backup holds.                                        *)
(*                                                                         *)
(* Tokens.  A token is minted once, to a name it had not; every token that    *)
(* is or was a session has been minted.  So a revoked one is never minted     *)
(* again, and only a merge changes whose a live one is: it repoints every      *)
(* session of src to dst, which is what merged is closed under.              *)
(***************************************************************************)
EXTENDS UserData, FiniteSetTheorems, TLAPS

TokenTypes ==
  /\ users \in [Id -> Account \cup {Nobody}]
  /\ sessions \in [Token -> Id \cup {Nobody}]
  /\ minted \in [Token -> Id \cup {Nobody}]
  /\ route \in [at : {"migrate", "mint"}, uid : Id] \cup {Idle}
  /\ dead \subseteq Token

MintedOnce ==
  /\ \A t \in Token : sessions[t] # Nobody => minted[t] # Nobody
  /\ \A t \in dead : minted[t] # Nobody

TokenInv == MintedOnce /\ DeadStaysDead /\ TokenFollowsMerge

(* Nothing but the tables of accounts and sessions, and what is kept of them, *)
(* matters to the invariants above.                                         *)
tokenVars == <<sessions, minted, dead, merged>>

LEMMA NobodyIsNoId == Nobody \notin Id /\ Legacy \in Id
  BY AccountsAssumption

LEMMA TokenInitial == Init => TokenTypes /\ TokenInv /\ LegacyToOneAccount
  BY NobodyIsNoId DEF Init, AuthInit, TokenTypes, TokenInv, MintedOnce, DeadStaysDead,
                      TokenFollowsMerge, LegacyToOneAccount

(* A merge repoints the sessions of src and of nobody else. *)
LEMMA MergeKeepsTokens ==
  ASSUME TokenTypes, TokenInv, NEW src \in Id, NEW dst \in Id,
         sessions' = SessionsRepointed(src, dst), merged' = Merged(src, dst),
         UNCHANGED <<minted, dead>>
  PROVE  /\ sessions' \in [Token -> Id \cup {Nobody}]
         /\ TokenInv'
<1> USE NobodyIsNoId
<1>1. sessions' \in [Token -> Id \cup {Nobody}]
  BY DEF SessionsRepointed, TokenTypes
<1>2. \A t \in Token : sessions'[t] = IF sessions[t] = src THEN dst ELSE sessions[t]
  BY DEF SessionsRepointed
<1>3. MintedOnce'
  BY <1>2 DEF TokenInv, MintedOnce
<1>4. DeadStaysDead'
  BY <1>2 DEF TokenInv, DeadStaysDead, TokenTypes
<1>5. TokenFollowsMerge'
  <2> SUFFICES ASSUME NEW t \in Token, sessions'[t] # Nobody
               PROVE  sessions'[t] = minted[t] \/ <<minted[t], sessions'[t]>> \in merged'
    BY DEF TokenFollowsMerge
  <2>1. CASE sessions[t] = src
    <3>1. merged' = merged \cup {<<src, dst>>}
                      \cup {<<m[1], dst>> : m \in {x \in merged : x[2] = src}}
      BY <2>1 DEF Merged
    <3>2. sessions'[t] = dst
      BY <1>2, <2>1
    <3>3. minted[t] = src \/ <<minted[t], src>> \in merged
      BY <2>1 DEF TokenInv, TokenFollowsMerge
    <3>4. CASE minted[t] = src
      BY <3>1, <3>2, <3>4
    <3>5. CASE <<minted[t], src>> \in merged
      BY <3>1, <3>2, <3>5
    <3> QED BY <3>3, <3>4, <3>5
  <2>2. CASE sessions[t] # src
    <3>1. sessions'[t] = sessions[t] /\ sessions[t] # Nobody
      BY <1>2, <2>2
    <3>2. merged \subseteq merged'
      BY DEF Merged
    <3> QED BY <3>1, <3>2 DEF TokenInv, TokenFollowsMerge
  <2> QED BY <2>1, <2>2
<1> QED BY <1>1, <1>3, <1>4, <1>5 DEF TokenInv

(* Ending sessions leaves the others as they were. *)
LEMMA EndingKeepsTokens ==
  ASSUME TokenTypes, TokenInv, NEW gone \in SUBSET Token,
         \A t \in gone : sessions[t] # Nobody,
         sessions' = [t \in Token |-> IF t \in gone THEN Nobody ELSE sessions[t]],
         dead' = dead \cup gone, UNCHANGED <<minted, merged>>
  PROVE  /\ sessions' \in [Token -> Id \cup {Nobody}] /\ dead' \subseteq Token
         /\ TokenInv'
<1>1. sessions' \in [Token -> Id \cup {Nobody}] /\ dead' \subseteq Token
  BY DEF TokenTypes
<1>2. TokenInv'
  BY DEF TokenTypes, TokenInv, MintedOnce, DeadStaysDead, TokenFollowsMerge
<1> QED BY <1>1, <1>2

LEMMA SameTokens ==
  ASSUME TokenInv, UNCHANGED tokenVars
  PROVE  TokenInv'
BY DEF TokenInv, MintedOnce, DeadStaysDead, TokenFollowsMerge, tokenVars

(* A sign-in that inserts an account leaves it unclaimed. *)
LEMMA InsertKeepsAccounts ==
  ASSUME TokenTypes, LegacyToOneAccount, NEW u \in Id, NEW s \in Sub \cup {Nobody},
         NEW e \in Email \cup {Nobody}, NEW p \in Password \cup {Nobody},
         InsertUser(u, s, e, p)
  PROVE  /\ users' \in [Id -> Account \cup {Nobody}]
         /\ route' \in [at : {"migrate", "mint"}, uid : Id] \cup {Idle}
         /\ LegacyToOneAccount'
<1> DEFINE new == [sub |-> s, email |-> e, pw |-> p, claimed |-> FALSE]
<1>1. new \in Account /\ new.claimed = FALSE
  BY DEF Account
<1>2. users' = [users EXCEPT ![u] = new]
  BY DEF InsertUser
<1> HIDE DEF new
<1>3. users' \in [Id -> Account \cup {Nobody}]
  BY <1>1, <1>2 DEF TokenTypes
<1>4. \A v \in Id : users'[v] = IF v = u THEN new ELSE users[v]
  BY <1>2 DEF TokenTypes
<1>5. LegacyToOneAccount'
  BY <1>1, <1>4 DEF LegacyToOneAccount
<1> QED BY <1>3, <1>5 DEF InsertUser

(* A delete is of somebody. *)
ScriptOK == script.at = "delete" => script.user \in Id

IdentityInv == TokenTypes /\ TokenInv /\ LegacyToOneAccount /\ ScriptOK

(* Changes of a field of an account other than claimed. *)
LEMMA EditKeepsAccounts ==
  ASSUME TokenTypes, LegacyToOneAccount, NEW u, users[u] # Nobody,
         NEW e \in Email \cup {Nobody}, NEW p \in Password \cup {Nobody},
         users' = [users EXCEPT ![u].email = e] \/ users' = [users EXCEPT ![u].pw = p]
  PROVE  users' \in [Id -> Account \cup {Nobody}] /\ LegacyToOneAccount'
<1>1. CASE u \notin Id
  <2>1. users' = users
    BY <1>1 DEF TokenTypes
  <2> QED BY <2>1 DEF TokenTypes, LegacyToOneAccount
<1>2. CASE u \in Id
  <2>1. users[u] \in Account
    BY <1>2 DEF TokenTypes
  <2>2. users' \in [Id -> Account \cup {Nobody}]
    BY <1>2, <2>1 DEF TokenTypes, Account
  <2>3. users'[u].claimed = users[u].claimed
    BY <1>2, <2>1 DEF TokenTypes, Account
  <2>4. \A v \in Id \ {u} : users'[v] = users[v]
    BY DEF TokenTypes
  <2>5. LegacyToOneAccount'
    BY <1>2, <2>3, <2>4 DEF LegacyToOneAccount
  <2> QED BY <2>2, <2>5
<1> QED BY <1>1, <1>2

LEMMA AuthStep ==
  ASSUME IdentityInv, AuthNext, UNCHANGED dataVars
  PROVE  IdentityInv'
<1> USE NobodyIsNoId DEF IdentityInv
<1>0. UNCHANGED <<merged, script>> /\ ScriptOK'
  BY DEF dataVars, ScriptOK
<1> USE <1>0
<1>1. CASE SignInApple
  <2>1. UNCHANGED tokenVars
    BY <1>0, <1>1 DEF SignInApple, tokenVars
  <2>2. PICK s \in Sub \cup {Nobody}, e \in Email \cup {Nobody} : UpsertApple(s, e)
    BY <1>1 DEF SignInApple
  <2>3. CASE \E u \in AppleAccount(s) :
               /\ users' = [users EXCEPT ![u].email = IF @ = Nobody THEN e ELSE @]
               /\ route' = [at |-> "mint", uid |-> u]
    <3>1. PICK u \in AppleAccount(s) :
                 /\ users' = [users EXCEPT ![u].email = IF @ = Nobody THEN e ELSE @]
                 /\ route' = [at |-> "mint", uid |-> u]
      BY <2>3
    <3>2. u \in Id /\ users[u] \in Account
      BY DEF AppleAccount, TokenTypes
    <3>3. PICK f \in Email \cup {Nobody} : users' = [users EXCEPT ![u].email = f]
      BY <3>1, <3>2 DEF Account
    <3>4. users' \in [Id -> Account \cup {Nobody}] /\ LegacyToOneAccount'
      BY <3>2, <3>3, EditKeepsAccounts DEF AppleAccount
    <3> QED BY <2>1, <3>1, <3>2, <3>4, SameTokens DEF TokenTypes, tokenVars
  <2>4. CASE \E u \in FreshId : InsertUser(u, s, e, Nobody)
    <3>1. PICK u \in FreshId : InsertUser(u, s, e, Nobody)
      BY <2>4
    <3> QED BY <2>1, <3>1, InsertKeepsAccounts, SameTokens DEF FreshId, TokenTypes, tokenVars
  <2> QED BY <2>2, <2>3, <2>4 DEF UpsertApple
<1>2. CASE SignInDev
  <2>1. UNCHANGED tokenVars
    BY <1>0, <1>2 DEF SignInDev, tokenVars
  <2>2. PICK u \in DevIds : \/ InsertUser(u, Nobody, Nobody, Nobody)
                            \/ /\ route' = [at |-> "mint", uid |-> u]
                               /\ UNCHANGED users
    BY <1>2 DEF SignInDev
  <2>3. u \in Id
    BY AccountsAssumption DEF DevIds, FreshId
  <2>4. CASE InsertUser(u, Nobody, Nobody, Nobody)
    BY <2>1, <2>3, <2>4, InsertKeepsAccounts, SameTokens DEF TokenTypes, tokenVars
  <2>5. CASE route' = [at |-> "mint", uid |-> u] /\ UNCHANGED users
    BY <2>1, <2>3, <2>5, SameTokens DEF TokenTypes, tokenVars, LegacyToOneAccount
  <2> QED BY <2>2, <2>4, <2>5
<1>3. CASE SignUpEmail
  <2>1. UNCHANGED tokenVars
    BY <1>0, <1>3 DEF SignUpEmail, tokenVars
  <2>2. PICK e \in Email, p \in Password, u \in FreshId : InsertUser(u, Nobody, e, p)
    BY <1>3 DEF SignUpEmail
  <2> QED BY <2>1, <2>2, InsertKeepsAccounts, SameTokens DEF FreshId, TokenTypes, tokenVars
<1>4. CASE LoginRefused \/ LoginWrong \/ CallerLeaves
           \/ (\E e \in Email : Tick(e)) \/ (\E u \in Id : ClaimUser(u))
  <2>1. UNCHANGED <<users, route>> /\ UNCHANGED tokenVars
    BY <1>0, <1>4 DEF LoginRefused, LoginWrong, CallerLeaves, Tick, ClaimUser, tokenVars
  <2> QED BY <2>1, SameTokens DEF TokenTypes, tokenVars, LegacyToOneAccount
<1>5. CASE LoginRight
  <2>1. PICK u \in Id : route' = [at |-> "mint", uid |-> u]
    BY <1>5 DEF LoginRight, PasswordAccount
  <2>2. UNCHANGED users /\ UNCHANGED tokenVars
    BY <1>0, <1>5 DEF LoginRight, tokenVars
  <2> QED BY <2>1, <2>2, SameTokens DEF TokenTypes, tokenVars, LegacyToOneAccount
<1>6. CASE Mint
  <2>1. UNCHANGED <<users, dead, merged>> /\ route' = Idle
    BY <1>0, <1>6 DEF Mint
  <2>2. CASE UNCHANGED <<sessions, minted>>
    BY <2>1, <2>2, SameTokens DEF TokenTypes, tokenVars, LegacyToOneAccount
  <2>3. CASE \E t \in Token : /\ minted[t] = Nobody
                              /\ sessions' = [sessions EXCEPT ![t] = route.uid]
                              /\ minted' = [minted EXCEPT ![t] = route.uid]
    <3>1. PICK t \in Token : /\ minted[t] = Nobody
                             /\ sessions' = [sessions EXCEPT ![t] = route.uid]
                             /\ minted' = [minted EXCEPT ![t] = route.uid]
      BY <2>3
    <3>2. route.uid \in Id
      BY <1>6 DEF Mint, TokenTypes, Idle
    <3>3. t \notin dead
      BY <3>1 DEF TokenInv, MintedOnce
    <3>4. TokenTypes'
      BY <2>1, <3>1, <3>2 DEF TokenTypes
    <3>5. TokenInv'
      BY <2>1, <3>1, <3>2, <3>3
         DEF TokenInv, TokenTypes, MintedOnce, DeadStaysDead, TokenFollowsMerge
    <3> QED BY <2>1, <3>4, <3>5 DEF LegacyToOneAccount
  <2> QED BY <1>6, <2>2, <2>3 DEF Mint
<1>7. CASE ChangePassword
  <2>1. PICK p \in Password : users[caller.uid] # Nobody
                             /\ users' = [users EXCEPT ![caller.uid].pw = p]
    BY <1>7 DEF ChangePassword
  <2>2. users' \in [Id -> Account \cup {Nobody}] /\ LegacyToOneAccount'
    BY <2>1, EditKeepsAccounts
  <2>3. UNCHANGED route /\ UNCHANGED tokenVars
    BY <1>0, <1>7 DEF ChangePassword, tokenVars
  <2> QED BY <2>2, <2>3, SameTokens DEF TokenTypes, tokenVars
<1>8. CASE Crash
  <2>1. route' = Idle /\ UNCHANGED users /\ UNCHANGED tokenVars
    BY <1>0, <1>8 DEF Crash, tokenVars
  <2> QED BY <2>1, SameTokens DEF TokenTypes, tokenVars, LegacyToOneAccount
<1>9. CASE \E t \in Token : Authenticate(t) \/ Logout(t)
  <2>1. PICK t \in Token : Authenticate(t) \/ Logout(t)
    BY <1>9
  <2>2. UNCHANGED <<users, route, minted, merged>> /\ sessions[t] # Nobody
    BY <1>0, <2>1 DEF Authenticate, Logout
  <2>3. CASE UNCHANGED <<sessions, dead>>
    BY <2>2, <2>3, SameTokens DEF TokenTypes, tokenVars, LegacyToOneAccount
  <2>4. CASE sessions' = [sessions EXCEPT ![t] = Nobody] /\ dead' = dead \cup {t}
    <3>1. sessions' = [x \in Token |-> IF x \in {t} THEN Nobody ELSE sessions[x]]
      BY <2>4 DEF TokenTypes
    <3>2. /\ sessions' \in [Token -> Id \cup {Nobody}] /\ dead' \subseteq Token
          /\ TokenInv'
      BY <2>2, <2>4, <3>1, EndingKeepsTokens
    <3> QED BY <2>2, <3>2 DEF TokenTypes, LegacyToOneAccount
  <2> QED BY <2>1, <2>3, <2>4 DEF Authenticate, Logout
<1> QED BY <1>1, <1>2, <1>3, <1>4, <1>5, <1>6, <1>7, <1>8, <1>9 DEF AuthNext

LEMMA DataStep ==
  ASSUME IdentityInv, DataNext \/ Command
  PROVE  IdentityInv'
<1> USE NobodyIsNoId DEF IdentityInv
<1>1. CASE MigrateLegacy
  <2>0. ScriptOK'
    BY <1>1 DEF MigrateLegacy, ScriptOK
  <2>1. CASE UNCHANGED <<sessions, users, merged>>
    <3>1. TokenTypes' /\ UNCHANGED tokenVars
      BY <1>1, <2>1 DEF MigrateLegacy, TokenTypes, Idle, tokenVars
    <3> QED BY <2>0, <2>1, <3>1, SameTokens DEF LegacyToOneAccount
  <2>2. CASE /\ \A v \in Id \ {route.uid} : users[v] # Nobody => ~users[v].claimed
             /\ users[route.uid] # Nobody
             /\ sessions' = SessionsRepointed(Legacy, route.uid)
             /\ users' = [users EXCEPT ![route.uid].claimed = TRUE]
             /\ merged' = Merged(Legacy, route.uid)
    <3>1. route.uid \in Id /\ route' = [route EXCEPT !.at = "mint"]
          /\ UNCHANGED <<minted, dead>>
      BY <1>1 DEF MigrateLegacy, TokenTypes, Idle
    <3>2. sessions' \in [Token -> Id \cup {Nobody}] /\ TokenInv'
      BY <2>2, <3>1, MergeKeepsTokens
    <3>3. users' \in [Id -> Account \cup {Nobody}]
      BY <2>2, <3>1 DEF TokenTypes, Account
    <3>4. TokenTypes'
      BY <3>1, <3>2, <3>3 DEF TokenTypes, Idle
    <3>5. LegacyToOneAccount'
      BY <2>2, <3>1 DEF TokenTypes, LegacyToOneAccount
    <3> QED BY <2>0, <3>2, <3>4, <3>5
  <2> QED BY <1>1, <2>1, <2>2 DEF MigrateLegacy
<1>2. CASE DeleteAccount
  <2> DEFINE theirs == {t \in Token : sessions[t] = script.user}
  <2>1. script.user \in Id
    BY <1>2 DEF DeleteAccount, ScriptOK
  <2>2. /\ sessions' = [t \in Token |-> IF t \in theirs THEN Nobody ELSE sessions[t]]
        /\ dead' = dead \cup theirs
        /\ users' = [users EXCEPT ![script.user] = Nobody]
        /\ UNCHANGED <<route, minted, merged>> /\ script' = NoScript
    BY <1>2 DEF DeleteAccount
  <2>3. theirs \in SUBSET Token /\ \A t \in theirs : sessions[t] # Nobody
    BY <2>1
  <2> HIDE DEF theirs
  <2>4. /\ sessions' \in [Token -> Id \cup {Nobody}] /\ dead' \subseteq Token
        /\ TokenInv'
    BY <2>2, <2>3, EndingKeepsTokens
  <2>5. TokenTypes'
    BY <2>2, <2>4 DEF TokenTypes
  <2>6. LegacyToOneAccount'
    BY <2>1, <2>2 DEF TokenTypes, LegacyToOneAccount
  <2> QED BY <2>2, <2>4, <2>5, <2>6 DEF ScriptOK, NoScript
<1>3. CASE \/ Write \/ \E d \in Phone : RegisterDevice(d) \/ ForgetDevice(d) \/ PostPush(d)
           \/ (\E u \in Id : SendPush(u) \/ ExportUser(u) \/ ImportUser(u))
  <2>1. UNCHANGED <<users, route, script>> /\ UNCHANGED tokenVars
    BY <1>3 DEF Write, RegisterDevice, ForgetDevice, PostPush, SendPush, ExportUser, ImportUser,
                authVars, tokenVars
  <2> QED BY <2>1, SameTokens DEF TokenTypes, tokenVars, LegacyToOneAccount, ScriptOK
<1>4. CASE \E u \in Id : BackUpToDelete(u)
  <2>1. PICK u \in Id : BackUpToDelete(u)
    BY <1>4
  <2>2. UNCHANGED <<users, route>> /\ UNCHANGED tokenVars
    BY <2>1 DEF BackUpToDelete, authVars, tokenVars
  <2>3. ScriptOK'
    BY <2>1 DEF BackUpToDelete, ScriptOK
  <2> QED BY <2>2, <2>3, SameTokens DEF TokenTypes, tokenVars, LegacyToOneAccount
<1>5. CASE \E src, dst \in Id : MergeUser(src, dst)
  <2>1. PICK src \in Id, dst \in Id : MergeUser(src, dst)
    BY <1>5
  <2>2. UNCHANGED <<users, route, minted, dead, script>>
    BY <2>1 DEF MergeUser
  <2>3. CASE UNCHANGED <<sessions, merged>>
    BY <2>2, <2>3, SameTokens DEF TokenTypes, tokenVars, LegacyToOneAccount, ScriptOK
  <2>4. CASE sessions' = SessionsRepointed(src, dst) /\ merged' = Merged(src, dst)
    <3>1. sessions' \in [Token -> Id \cup {Nobody}] /\ TokenInv'
      BY <2>2, <2>4, MergeKeepsTokens
    <3> QED BY <2>2, <3>1 DEF TokenTypes, LegacyToOneAccount, ScriptOK
  <2> QED BY <2>1, <2>3, <2>4 DEF MergeUser
<1> QED BY <1>1, <1>2, <1>3, <1>4, <1>5 DEF DataNext, Command

LEMMA IdentityAlways == Spec => []IdentityInv
<1>1. Init => IdentityInv
  BY TokenInitial DEF IdentityInv, ScriptOK, Init, NoScript
<1>2. IdentityInv /\ [Next]_vars => IdentityInv'
  <2> SUFFICES ASSUME IdentityInv, [Next]_vars PROVE IdentityInv'
    OBVIOUS
  <2>1. CASE AuthNext /\ UNCHANGED dataVars
    BY <2>1, AuthStep
  <2>2. CASE DataNext \/ Command
    BY <2>2, DataStep
  <2>3. CASE UNCHANGED vars
    BY <2>3, SameTokens
       DEF IdentityInv, TokenTypes, tokenVars, LegacyToOneAccount, ScriptOK, vars, authVars, dataVars
  <2> QED BY <2>1, <2>2, <2>3 DEF Next
<1> QED BY <1>1, <1>2, PTL DEF Spec

(* A token that was revoked, or seen expired, or whose account was deleted     *)
(* never authenticates again, for any ids and tokens.                        *)
THEOREM DeadTokensStayDead == Spec => []DeadStaysDead
<1>1. IdentityInv => DeadStaysDead
  BY DEF IdentityInv, TokenInv
<1> QED BY <1>1, IdentityAlways, PTL

(* A live token answers as the account it was minted for or one that account   *)
(* was merged into, through any chain of merges.                             *)
THEOREM TokensFollowMerges == Spec => []TokenFollowsMerge
<1>1. IdentityInv => TokenFollowsMerge
  BY DEF IdentityInv, TokenInv
<1> QED BY <1>1, IdentityAlways, PTL

(* The legacy data goes to at most one account.                              *)
THEOREM LegacyHasOneHeir == Spec => []LegacyToOneAccount
<1>1. IdentityInv => LegacyToOneAccount
  BY DEF IdentityInv
<1> QED BY <1>1, IdentityAlways, PTL

-----------------------------------------------------------------------------
(* Rows.  A row of any table but "device" is by a user id, and a phone's push   *)
(* token is no user id: what APNs makes the server drop is never content.      *)

CallerOK == caller # NoCaller => caller.uid \in Id

RowsOK ==
  /\ rows \subseteq Row /\ backup \subseteq Row /\ sending \subseteq Phone
  /\ \A r \in rows \cup backup : r.table = "device" <=> r.author \in Phone

(* The backup a delete waits behind holds what it will remove.                *)
Covered ==
  script.at = "delete" /\ ~MayForce =>
    {r \in script.seen : r.table \in UserTables} \subseteq backup

RowsInv == IdentityInv /\ CallerOK /\ RowsOK /\ Covered

LEMMA PhonesAreNoIds == Phone \cap Id = {} /\ Writer \subseteq Id
  BY UserDataAssumption

LEMMA RowsInitial == Init => CallerOK /\ RowsOK /\ Covered
<1> SUFFICES ASSUME Init PROVE CallerOK /\ RowsOK /\ Covered
  OBVIOUS
<1>1. CallerOK /\ Covered
  BY DEF Init, AuthInit, CallerOK, Covered, NoScript
<1>2. ASSUME NEW r \in rows
      PROVE  r \in Row /\ r.table # "device" /\ r.author \in Id
  <2>1. PICK u \in (IF "retired" \in Table THEN Writer ELSE {}) : r = RetiredRow(u)
    BY DEF Init
  <2> QED BY <2>1, PhonesAreNoIds DEF RetiredRow, Row
<1>3. RowsOK
  BY <1>2, PhonesAreNoIds DEF Init, RowsOK
<1> QED BY <1>1, <1>3

(* A row that changes its owner stays the row it was. *)
LEMMA RepointKeepsRows ==
  ASSUME RowsOK, NEW moving \in SUBSET rows, NEW dst \in Id,
         rows' = Repoint(moving, dst), UNCHANGED <<backup, sending>>
  PROVE  RowsOK' /\ Content \subseteq Content'
<1>1. ASSUME NEW r \in Row, NEW q, q = [r EXCEPT !.owner = dst]
      PROVE  q \in Row /\ q.table = r.table /\ q.author = r.author
  BY <1>1 DEF Row
<1>2. \A q \in rows' : \E r \in rows : q \in Row /\ q.table = r.table /\ q.author = r.author
  BY <1>1 DEF Repoint, RowsOK
<1>3. RowsOK'
  BY <1>2 DEF RowsOK
<1>4. \A r \in rows : \E q \in rows' : q.table = r.table /\ q.author = r.author
  BY <1>1 DEF Repoint, RowsOK
<1>5. Content \subseteq Content'
  BY <1>4 DEF Content
<1> QED BY <1>3, <1>5

LEMMA SameRows ==
  ASSUME RowsOK, UNCHANGED <<rows, backup, sending>>
  PROVE  RowsOK' /\ Content \subseteq Content'
BY DEF RowsOK, Content

(* New rows leave the old ones where they were. *)
LEMMA MoreRows ==
  ASSUME RowsOK, rows \subseteq rows', UNCHANGED <<backup, sending>>,
         \A r \in rows' \ rows : r \in Row /\ (r.table = "device" <=> r.author \in Phone)
  PROVE  RowsOK' /\ Content \subseteq Content'
BY DEF RowsOK, Content

LEMMA FewerRows ==
  ASSUME RowsOK, rows' \subseteq rows, backup' \subseteq rows \cup backup, sending' \subseteq Phone
  PROVE  RowsOK'
BY DEF RowsOK

LEMMA CallerStep ==
  ASSUME IdentityInv, CallerOK, [Next]_vars
  PROVE  CallerOK'
<1> USE NobodyIsNoId DEF CallerOK
<1>1. CASE \E t \in Token : Authenticate(t)
  BY <1>1 DEF Authenticate, IdentityInv, TokenTypes
<1>2. CASE \E u \in Id : ClaimUser(u)
  BY <1>2 DEF ClaimUser
<1>3. CASE caller' \in {caller, NoCaller}
  BY <1>3
<1>4. CASE AuthNext
  BY <1>1, <1>2, <1>3, <1>4
     DEF AuthNext, SignInApple, SignInDev, SignUpEmail, LoginRefused, LoginWrong, LoginRight,
         Mint, ChangePassword, CallerLeaves, Crash, Tick, Logout
<1>5. CASE DataNext \/ Command
  BY <1>3, <1>5
     DEF DataNext, Command, Write, MigrateLegacy, DeleteAccount, RegisterDevice, ForgetDevice,
         PostPush, SendPush, ExportUser, ImportUser, BackUpToDelete, MergeUser, authVars
<1>6. CASE UNCHANGED vars
  BY <1>3, <1>6 DEF vars, authVars
<1> QED BY <1>4, <1>5, <1>6 DEF Next

LEMMA RowsStep ==
  ASSUME RowsInv, [Next]_vars
  PROVE  RowsOK' /\ (~DeleteAccount => Content \subseteq Content')
<1> USE NobodyIsNoId, PhonesAreNoIds
<1>0. RowsOK /\ IdentityInv /\ CallerOK
  BY DEF RowsInv
<1>1. CASE Write
  <2> DEFINE new(t) == [table |-> t, owner |-> caller.uid, author |-> caller.uid, copy |-> FALSE]
  <2>1. caller.uid \in Id /\ UNCHANGED <<backup, sending>>
    BY <1>0, <1>1 DEF Write, CallerOK
  <2>2. \A t \in Table \ {"device"} :
          new(t) \in Row /\ new(t).table # "device" /\ new(t).author \in Id
    BY <2>1 DEF Row
  <2>3. ASSUME NEW r \in Row, NEW q, q = [r EXCEPT !.table = "event"], "event" \in Table
        PROVE  q \in Row /\ q.table = "event" /\ q.author = r.author
    BY <2>3 DEF Row
  <2>4. PICK t \in Table \ {"device", "event", "retired"} :
          rows' = rows \cup {new(t)} \cup
                    (IF t = "application" /\ "event" \in Table
                     THEN {[new(t) EXCEPT !.table = "event"]} ELSE {})
    BY <1>1 DEF Write
  <2> HIDE DEF new
  <2>5. ASSUME NEW r \in rows' \ rows
        PROVE  r \in Row /\ r.table # "device" /\ r.author \in Id
    <3>1. CASE r = new(t)
      BY <2>2, <3>1
    <3>2. CASE "event" \in Table /\ r = [new(t) EXCEPT !.table = "event"]
      BY <2>2, <2>3, <3>2
    <3> QED BY <2>4, <3>1, <3>2
  <2>6. \A r \in rows' \ rows : r \in Row /\ r.table # "device" /\ r.author \in Id
    BY <2>5
  <2>7. rows \subseteq rows'
    BY <2>4
  <2> QED BY <1>0, <2>1, <2>6, <2>7, MoreRows
<1>2. CASE \E d \in Phone : RegisterDevice(d)
  <2>1. PICK d \in Phone : RegisterDevice(d)
    BY <1>2
  <2> DEFINE new == [table |-> "device", owner |-> caller.uid, author |-> d, copy |-> FALSE]
  <2>2. "device" \in Table /\ caller.uid \in Id /\ UNCHANGED <<backup, sending>>
    BY <1>0, <2>1 DEF RegisterDevice, CallerOK
  <2>3. new \in Row /\ new.table = "device" /\ new.author \in Phone
    BY <2>2 DEF Row
  <2>4. rows' = rows \cup {new}
    BY <2>1 DEF RegisterDevice
  <2> HIDE DEF new
  <2> QED BY <1>0, <2>2, <2>3, <2>4, MoreRows
<1>3. CASE \E d \in Phone : ForgetDevice(d) \/ PostPush(d)
  <2>1. PICK d \in Phone : ForgetDevice(d) \/ PostPush(d)
    BY <1>3
  <2>2. rows' \subseteq rows /\ backup' = backup /\ sending' \subseteq sending
    BY <2>1 DEF ForgetDevice, PostPush
  <2>3. \A r \in rows \ rows' : r.author = d
    BY <2>1 DEF ForgetDevice, PostPush
  <2>4. \A r \in rows : r.table # "device" => r \in rows'
    BY <1>0, <2>3 DEF RowsOK
  <2>5. Content \subseteq Content'
    BY <2>4 DEF Content
  <2> QED BY <1>0, <2>2, <2>5, FewerRows DEF RowsOK
<1>4. CASE \E u \in Id : SendPush(u)
  <2>1. PICK u \in Id : SendPush(u)
    BY <1>4
  <2>2. UNCHANGED <<rows, backup>>
    BY <2>1 DEF SendPush
  <2>3. sending' \subseteq Phone
    BY <1>0, <2>1 DEF SendPush, Owned, RowsOK
  <2> QED BY <1>0, <2>2, <2>3, FewerRows DEF Content
<1>5. CASE MigrateLegacy
  <2>1. UNCHANGED <<backup, sending>>
    BY <1>5 DEF MigrateLegacy
  <2>2. CASE UNCHANGED rows
    BY <1>0, <2>1, <2>2, SameRows
  <2>3. CASE rows' = Repoint(Follow(Moves(Legacy, route.uid), Legacy), route.uid)
    <3>1. route.uid \in Id
      BY <1>0, <1>5 DEF MigrateLegacy, IdentityInv, TokenTypes, Idle
    <3>2. Follow(Moves(Legacy, route.uid), Legacy) \in SUBSET rows
      BY DEF Follow, Moves, Owned
    <3> QED BY <1>0, <2>1, <2>3, <3>1, <3>2, RepointKeepsRows
  <2> QED BY <1>5, <2>2, <2>3 DEF MigrateLegacy
<1>6. CASE \E src, dst \in Id : MergeUser(src, dst)
  <2>1. PICK src \in Id, dst \in Id : MergeUser(src, dst)
    BY <1>6
  <2>2. PICK moving \in SUBSET Owned(src) : rows' = Repoint(Follow(moving, src), dst)
    <3> DEFINE fails == users[dst] = Nobody /\ \E t \in Token : sessions[t] = src
               moving == {r \in Moves(src, dst) : fails => r.table \notin AfterSessions}
    <3>1. rows' = Repoint(Follow(moving, src), dst)
      BY <2>1 DEF MergeUser
    <3>2. moving \in SUBSET Owned(src)
      BY DEF Moves
    <3> QED BY <3>1, <3>2
  <2>3. Follow(moving, src) \in SUBSET rows
    BY DEF Follow, Owned
  <2>4. UNCHANGED <<backup, sending>>
    BY <2>1 DEF MergeUser
  <2> QED BY <1>0, <2>2, <2>3, <2>4, RepointKeepsRows
<1>7. CASE \E u \in Id : ExportUser(u) \/ BackUpToDelete(u)
  <2>1. PICK u \in Id : ExportUser(u) \/ BackUpToDelete(u)
    BY <1>7
  <2>2. UNCHANGED <<rows, sending>>
    BY <2>1 DEF ExportUser, BackUpToDelete
  <2>3. backup' \subseteq rows
    BY <2>1 DEF ExportUser, BackUpToDelete, Exported, Owned
  <2> QED BY <1>0, <2>2, <2>3, FewerRows DEF Content, RowsOK
<1>8. CASE \E u \in Id : ImportUser(u)
  <2>1. PICK u \in Id, tables \in {Table, Brain} : rows' = rows \cup Imported(tables, u) /\ UNCHANGED <<backup, sending>>
    BY <1>8 DEF ImportUser
  <2>2. \A r \in Imported(tables, u) : r \in Row /\ (r.table = "device" <=> r.author \in Phone)
    <3> SUFFICES ASSUME NEW b \in backup, NEW r,
                        r = [b EXCEPT !.owner = u, !.copy = b.table # "device"]
                 PROVE  r \in Row /\ (r.table = "device" <=> r.author \in Phone)
      BY DEF Imported
    <3>1. b \in Row /\ (b.table = "device" <=> b.author \in Phone)
      BY <1>0 DEF RowsOK
    <3>2. r \in Row /\ r.table = b.table /\ r.author = b.author
      BY <3>1 DEF Row
    <3> QED BY <3>1, <3>2
  <2> QED BY <1>0, <2>1, <2>2, MoreRows
<1>9. CASE DeleteAccount
  BY <1>0, <1>9, FewerRows DEF DeleteAccount, RowsOK
<1>10. CASE (AuthNext /\ UNCHANGED dataVars) \/ UNCHANGED vars
  BY <1>0, <1>10, SameRows DEF dataVars, vars
<1> QED BY <1>1, <1>2, <1>3, <1>4, <1>5, <1>6, <1>7, <1>8, <1>9, <1>10
        DEF Next, DataNext, Command

LEMMA CoveredStep ==
  ASSUME RowsInv, [Next]_vars
  PROVE  Covered'
<1> USE DEF Covered
<1>0. Covered /\ RowsOK
  BY DEF RowsInv
<1>1. CASE \E u \in Id : BackUpToDelete(u)
  <2>1. PICK u \in Id : BackUpToDelete(u)
    BY <1>1
  <2>2. CASE UNCHANGED script
    BY <2>1, <2>2 DEF BackUpToDelete, NoScript
  <2>3. CASE Complete(u) \/ MayForce
    <3>1. (backup' = Exported(u, Table) /\ script'.seen \subseteq Owned(u)) \/ UNCHANGED script
      BY <2>1 DEF BackUpToDelete
    <3>2. Complete(u) => \A r \in Owned(u) : r.table \in UserTables => r \in Exported(u, Table)
      BY DEF Complete, Exported, Crossing, UserTables
    <3> QED BY <2>1, <2>2, <2>3, <3>1, <3>2 DEF BackUpToDelete
  <2> QED BY <2>1, <2>2, <2>3 DEF BackUpToDelete
<1>2. CASE \E u \in Id : ExportUser(u)
  BY <1>2 DEF ExportUser, NoScript
<1>3. CASE DeleteAccount
  BY <1>3 DEF DeleteAccount, NoScript
<1>4. CASE UNCHANGED <<script, backup>>
  BY <1>0, <1>4
<1> QED BY <1>1, <1>2, <1>3, <1>4
        DEF Next, DataNext, Command, Write, RegisterDevice, ForgetDevice, PostPush, SendPush,
            MigrateLegacy, MergeUser, ImportUser, dataVars, vars

LEMMA RowsAlways == Spec => []RowsInv
<1>1. Init /\ IdentityInv => RowsInv
  BY RowsInitial DEF RowsInv
<1>2. RowsInv /\ IdentityInv' /\ [Next]_vars => RowsInv'
  <2> SUFFICES ASSUME RowsInv, IdentityInv', [Next]_vars PROVE RowsInv'
    OBVIOUS
  <2> QED BY CallerStep, RowsStep, CoveredStep DEF RowsInv
<1> QED BY <1>1, <1>2, IdentityAlways, PTL DEF Spec

(* Whatever is merged, imported, restored or signed into, what a row held       *)
(* stays on file until an account is deleted.                                *)
THEOREM NothingIsOverwritten == Spec => NothingOverwritten
<1>1. RowsInv /\ [Next]_vars => [~DeleteAccount => Content \subseteq Content']_rows
  BY RowsStep
<1> QED BY <1>1, RowsAlways, PTL DEF Spec, NothingOverwritten

(* A delete that was not forced takes nothing the user had when the backup was *)
(* written that is not in it, whatever tables the database has.               *)
THEOREM DeleteIsBackedUp == Spec => BackupCoversDelete
<1>1. RowsInv => [DeleteAccount /\ ~MayForce =>
                    {r \in script.seen : r.table \in UserTables} \subseteq backup]_rows
  BY DEF RowsInv, Covered, DeleteAccount
<1> QED BY <1>1, RowsAlways, PTL DEF Spec, BackupCoversDelete

-----------------------------------------------------------------------------
(* The throttle.  Every wrong password verified inside the window is still in  *)
(* the list the throttle counts: the list forgets only what the window has     *)
(* left behind, and a success empties both.                                 *)

Throttled(e) ==
  /\ failures[e] \subseteq Failure /\ guesses[e] \subseteq Failure
  /\ IsFiniteSet(failures[e])
  /\ guesses[e] \subseteq Recent(e)
  /\ Cardinality(guesses[e]) <= MaxAttempts

ThrottleInv ==
  /\ failures \in [Email -> SUBSET Failure]
  /\ guesses \in [Email -> SUBSET Failure]
  /\ \A e \in Email : Throttled(e)

LEMMA AttemptsArePositive == MaxAttempts \in Nat \ {0} /\ Window \in Nat \ {0}
  BY AccountsAssumption

(* A finite set leaves a number free below its size. *)
LEMMA SomeNumberIsFree ==
  ASSUME NEW S, IsFiniteSet(S), S \subseteq Failure
  PROVE  \E n \in 0 .. Cardinality(S) : \A f \in S : f.number # n
<1> DEFINE taken == {f.number : f \in S}
           count == [f \in S |-> f.number]
<1> SUFFICES ASSUME \A n \in 0 .. Cardinality(S) : n \in taken PROVE FALSE
  OBVIOUS
<1>1. Cardinality(S) \in Nat
  BY FS_CardinalityType
<1>2. count \in Surjection(S, taken)
  BY DEF Surjection
<1>3. IsFiniteSet(taken) /\ Cardinality(taken) <= Cardinality(S)
  BY <1>2, FS_Surjection
<1>4. 0 .. Cardinality(S) \in SUBSET taken
  OBVIOUS
<1>5. Cardinality(0 .. Cardinality(S)) = Cardinality(S) + 1
  BY <1>1, FS_Interval
<1>6. Cardinality(0 .. Cardinality(S)) <= Cardinality(taken)
  BY <1>3, <1>4, FS_Subset
<1>7. Cardinality(taken) \in Nat
  BY <1>3, FS_CardinalityType
<1> HIDE DEF taken
<1> QED BY <1>1, <1>3, <1>5, <1>6, <1>7

LEMMA AnotherIsNew ==
  ASSUME NEW e \in Email, Throttled(e)
  PROVE  /\ Another(e) \in Failure /\ Another(e).age = 0
         /\ Another(e) \notin Recent(e) /\ Another(e) \notin guesses[e]
<1> DEFINE known == Recent(e) \cup guesses[e]
<1>1. Recent(e) \in SUBSET failures[e] /\ known = Recent(e) /\ known \subseteq Failure
  BY DEF Recent, Throttled
<1>2. IsFiniteSet(known)
  BY <1>1, FS_Subset DEF Throttled
<1> DEFINE n == CHOOSE k \in 0 .. Cardinality(known) : \A f \in known : f.number # k
<1>3. n \in 0 .. Cardinality(known) /\ \A f \in known : f.number # n
  BY <1>1, <1>2, SomeNumberIsFree
<1>4. Another(e) = [number |-> n, age |-> 0]
  BY DEF Another
<1>5. Cardinality(known) \in Nat
  BY <1>2, FS_CardinalityType
<1>6. guesses[e] \subseteq known
  OBVIOUS
<1> HIDE DEF n, known
<1>7. n \in Nat
  BY <1>3, <1>5
<1>8. Another(e) \in Failure
  BY <1>4, <1>7, AttemptsArePositive DEF Failure
<1>9. Another(e) \notin known
  BY <1>3, <1>4
<1> QED BY <1>1, <1>4, <1>6, <1>8, <1>9

LEMMA ThrottleStep ==
  ASSUME ThrottleInv, [Next]_vars
  PROVE  ThrottleInv'
<1> USE AttemptsArePositive DEF ThrottleInv
<1>1. CASE UNCHANGED <<failures, guesses>>
  BY <1>1 DEF Throttled, Recent
<1>2. CASE LoginRefused
  <2>1. PICK e \in Email : failures' = [failures EXCEPT ![e] = Recent(e)] /\ guesses' = guesses
    BY <1>2 DEF LoginRefused
  <2>2. Recent(e) \in SUBSET failures[e]
    BY DEF Recent
  <2>3. IsFiniteSet(Recent(e))
    BY <2>2, FS_Subset DEF Throttled
  <2>4. Recent(e)' = Recent(e)
    BY <2>1 DEF Recent
  <2>5. Throttled(e)'
    BY <2>1, <2>2, <2>3, <2>4 DEF Throttled
  <2>6. \A x \in Email \ {e} : Throttled(x)'
    BY <2>1 DEF Throttled, Recent
  <2> QED BY <2>1, <2>2, <2>5, <2>6 DEF Throttled
<1>3. CASE LoginWrong
  <2>1. PICK e \in Email : /\ ~Locked(e)
                           /\ failures' = [failures EXCEPT ![e] = Recent(e) \cup {Another(e)}]
                           /\ guesses' = [guesses EXCEPT ![e] = @ \cup {Another(e)}]
    BY <1>3 DEF LoginWrong
  <2>2. PICK new : new = Another(e)
    OBVIOUS
  <2>3. new \in Failure /\ new.age = 0 /\ new \notin Recent(e) /\ new \notin guesses[e]
    BY <2>2, AnotherIsNew
  <2>4. failures'[e] = Recent(e) \cup {new} /\ guesses'[e] = guesses[e] \cup {new}
    BY <2>1, <2>2
  <2>5. Recent(e) \in SUBSET failures[e] /\ guesses[e] \in SUBSET Recent(e)
    BY DEF Recent, Throttled
  <2>6. IsFiniteSet(Recent(e))
    BY <2>5, FS_Subset DEF Throttled
  <2>7. IsFiniteSet(failures'[e])
    BY <2>4, <2>6, FS_AddElement
  <2>8. IsFiniteSet(guesses[e]) /\ Cardinality(guesses[e]) <= Cardinality(Recent(e))
    BY <2>5, <2>6, FS_Subset
  <2>9. Cardinality(guesses'[e]) = Cardinality(guesses[e]) + 1
    BY <2>3, <2>4, <2>8, FS_AddElement
  <2>10. Cardinality(guesses'[e]) <= MaxAttempts
    <3>1. Cardinality(guesses[e]) \in Nat /\ Cardinality(Recent(e)) \in Nat
      BY <2>6, <2>8, FS_CardinalityType
    <3>2. Cardinality(Recent(e)) < MaxAttempts
      BY <2>1, <3>1 DEF Locked
    <3> QED BY <2>8, <2>9, <3>1, <3>2
  <2>11. guesses'[e] \subseteq Recent(e)'
    BY <2>3, <2>4, <2>5 DEF Recent
  <2>12. failures'[e] \subseteq Failure /\ guesses'[e] \subseteq Failure
    BY <2>3, <2>4, <2>5 DEF Throttled
  <2>13. Throttled(e)'
    BY <2>7, <2>10, <2>11, <2>12 DEF Throttled
  <2>14. \A x \in Email \ {e} : Throttled(x)'
    BY <2>1 DEF Throttled, Recent
  <2> QED BY <2>1, <2>12, <2>13, <2>14
<1>4. CASE LoginRight
  <2>1. PICK e \in Email : failures' = [failures EXCEPT ![e] = {}] /\ guesses' = [guesses EXCEPT ![e] = {}]
    BY <1>4 DEF LoginRight
  <2>2. Throttled(e)'
    BY <2>1, FS_EmptySet DEF Throttled
  <2>3. \A x \in Email \ {e} : Throttled(x)'
    BY <2>1 DEF Throttled, Recent
  <2> QED BY <2>1, <2>2, <2>3
<1>5. CASE \E e \in Email : Tick(e)
  <2>1. PICK e \in Email :
          /\ failures' = [failures EXCEPT ![e] = {Older(f) : f \in @}]
          /\ guesses' = [guesses EXCEPT ![e] = {Older(f) : f \in {g \in @ : Older(g).age < Window}}]
    BY <1>5 DEF Tick
  <2> DEFINE old == failures[e]
             young == {g \in guesses[e] : Older(g).age < Window}
             age == [f \in old |-> Older(f)]
             grow == [f \in young |-> Older(f)]
  <2>2. failures'[e] = {Older(f) : f \in old} /\ guesses'[e] = {Older(f) : f \in young}
    BY <2>1
  <2>3. \A f \in Failure : Older(f) \in Failure
    BY DEF Older, Failure
  <2>4. failures'[e] \subseteq Failure /\ guesses'[e] \subseteq Failure
    BY <2>2, <2>3 DEF Throttled
  <2>5. IsFiniteSet(failures'[e])
    <3>1. age \in Surjection(old, failures'[e])
      BY <2>2 DEF Surjection
    <3> QED BY <3>1, FS_Surjection DEF Throttled
  <2>6. guesses'[e] \subseteq Recent(e)'
    BY <2>2 DEF Recent, Throttled
  <2>7. Cardinality(guesses'[e]) <= MaxAttempts
    <3>1. guesses[e] \in SUBSET failures[e] /\ young \in SUBSET guesses[e]
      BY DEF Recent, Throttled
    <3>2. IsFiniteSet(guesses[e])
      BY <3>1, FS_Subset DEF Throttled
    <3>3. IsFiniteSet(young) /\ Cardinality(young) <= Cardinality(guesses[e])
      BY <3>1, <3>2, FS_Subset
    <3>4. grow \in Surjection(young, guesses'[e])
      BY <2>2 DEF Surjection
    <3>5. IsFiniteSet(guesses'[e]) /\ Cardinality(guesses'[e]) <= Cardinality(young)
      BY <3>3, <3>4, FS_Surjection
    <3>6. /\ Cardinality(young) \in Nat /\ Cardinality(guesses[e]) \in Nat
          /\ Cardinality(guesses'[e]) \in Nat
      BY <3>2, <3>3, <3>5, FS_CardinalityType
    <3> QED BY <3>3, <3>5, <3>6 DEF Throttled
  <2>8. Throttled(e)'
    BY <2>4, <2>5, <2>6, <2>7 DEF Throttled
  <2>9. \A x \in Email \ {e} : Throttled(x)'
    BY <2>1 DEF Throttled, Recent
  <2> QED BY <2>1, <2>4, <2>8, <2>9
<1>6. CASE Crash
  <2>1. failures' = [e \in Email |-> {}] /\ guesses' = [e \in Email |-> {}]
    BY <1>6 DEF Crash
  <2> QED BY <2>1, FS_EmptySet DEF Throttled
<1>7. CASE AuthNext
  BY <1>1, <1>2, <1>3, <1>4, <1>5, <1>6, <1>7
     DEF AuthNext, SignInApple, SignInDev, SignUpEmail, Mint, ChangePassword, CallerLeaves,
         Authenticate, Logout, ClaimUser
<1>8. CASE DataNext \/ Command
  BY <1>1, <1>8
     DEF DataNext, Command, Write, MigrateLegacy, DeleteAccount, RegisterDevice, ForgetDevice,
         PostPush, SendPush, ExportUser, ImportUser, BackUpToDelete, MergeUser, authVars
<1>9. CASE UNCHANGED vars
  BY <1>1, <1>9 DEF vars, authVars
<1> QED BY <1>7, <1>8, <1>9 DEF Next

LEMMA ThrottleAlways == Spec => []ThrottleInv
<1>1. Init => ThrottleInv
  BY AttemptsArePositive, FS_EmptySet DEF Init, AuthInit, ThrottleInv, Throttled, Recent
<1> QED BY <1>1, ThrottleStep, PTL DEF Spec

(* However sign-ins, ticks and ends of the process interleave, at most          *)
(* auth_max_login_attempts wrong passwords per address are verified within a    *)
(* window, for any addresses, limit and window.                              *)
THEOREM GuessingIsBounded == Spec => []GuessesBounded
<1>1. ThrottleInv => GuessesBounded
  BY DEF ThrottleInv, Throttled, GuessesBounded
<1> QED BY <1>1, ThrottleAlways, PTL

-----------------------------------------------------------------------------
(* Types, and the unique indexes.  What crosses to another owner is what the    *)
(* indexes let through: a merge leaves behind what would collide, an import     *)
(* ignores it, and what a backup holds was one owner's.  A device row is never  *)
(* a copy, so that registering a phone twice is one row.                      *)

Indexed(S) == \A q, r \in S : q.owner = r.owner /\ SameKey(q, r) => q = r

DevicesAreOriginal(S) == \A r \in S : r.table = "device" => ~r.copy

OneOwner(S) == \A q, r \in S : q.owner = r.owner

TablesInv ==
  /\ Indexed(rows) /\ Indexed(backup)
  /\ DevicesAreOriginal(rows) /\ DevicesAreOriginal(backup)
  /\ OneOwner(backup)

OthersTyped ==
  /\ caller \in [uid : Id, session : BOOLEAN] \cup {NoCaller}
  /\ used \subseteq Id
  /\ script \in [at : {"idle", "delete"}, user : Id \cup {Nobody}, seen : SUBSET Row]
  /\ merged \subseteq Id \X Id

LEMMA MergedTyped ==
  ASSUME merged \subseteq Id \X Id, NEW src \in Id, NEW dst \in Id
  PROVE  Merged(src, dst) \subseteq Id \X Id
BY DEF Merged

LEMMA AuthTyped ==
  ASSUME RowsInv, OthersTyped, AuthNext, UNCHANGED dataVars
  PROVE  OthersTyped'
<1> USE NobodyIsNoId DEF OthersTyped
<1>0. UNCHANGED <<script, merged>> /\ TokenTypes
  BY DEF dataVars, RowsInv, IdentityInv
<1>1. CASE SignInApple \/ SignInDev \/ SignUpEmail
  <2>1. UNCHANGED caller
    BY <1>1 DEF SignInApple, SignInDev, SignUpEmail
  <2>2. used' = used \/ \E u \in Id : used' = used \cup {u}
    BY <1>1, AccountsAssumption
       DEF SignInApple, SignInDev, SignUpEmail, UpsertApple, InsertUser, FreshId, DevIds
  <2> QED BY <1>0, <2>1, <2>2
<1>2. CASE \E t \in Token : Authenticate(t)
  <2>1. PICK t \in Token : Authenticate(t)
    BY <1>2
  <2>2. sessions[t] \in Id /\ used' = used
    BY <1>0, <2>1 DEF Authenticate, TokenTypes
  <2>3. caller' = caller \/ caller' = [uid |-> sessions[t], session |-> TRUE]
    BY <2>1 DEF Authenticate
  <2>4. [uid |-> sessions[t], session |-> TRUE] \in [uid : Id, session : BOOLEAN]
    BY <2>2
  <2>5. caller' \in [uid : Id, session : BOOLEAN] \cup {NoCaller}
    BY <2>3, <2>4
  <2> QED BY <1>0, <2>2, <2>5
<1>3. CASE \E u \in Id : ClaimUser(u)
  BY <1>0, <1>3 DEF ClaimUser
<1>4. CASE caller' \in {caller, NoCaller} /\ used' = used
  BY <1>0, <1>4
<1> QED BY <1>1, <1>2, <1>3, <1>4
       DEF AuthNext, LoginRefused, LoginWrong, LoginRight, Mint, ChangePassword, CallerLeaves,
           Crash, Tick, Logout

LEMMA DataTyped ==
  ASSUME RowsInv, OthersTyped, DataNext \/ Command
  PROVE  OthersTyped'
<1> USE NobodyIsNoId DEF OthersTyped
<1>0. TokenTypes /\ RowsOK
  BY DEF RowsInv, IdentityInv
<1>1. caller' \in {caller, NoCaller} /\ used' = used
  BY DEF DataNext, Command, Write, MigrateLegacy, DeleteAccount, RegisterDevice, ForgetDevice,
         PostPush, SendPush, ExportUser, ImportUser, BackUpToDelete, MergeUser, authVars
<1>2. CASE MigrateLegacy
  <2>1. route.uid \in Id /\ script' = script
    BY <1>0, <1>2 DEF MigrateLegacy, TokenTypes, Idle
  <2>2. merged' = merged \/ merged' = Merged(Legacy, route.uid)
    BY <1>2 DEF MigrateLegacy
  <2> QED BY <1>1, <2>1, <2>2, MergedTyped
<1>3. CASE \E src, dst \in Id : MergeUser(src, dst)
  <2>1. PICK src \in Id, dst \in Id : MergeUser(src, dst)
    BY <1>3
  <2>2. script' = script /\ (merged' = merged \/ merged' = Merged(src, dst))
    BY <2>1 DEF MergeUser
  <2> QED BY <1>1, <2>2, MergedTyped
<1>4. CASE \E u \in Id : BackUpToDelete(u)
  <2>1. PICK u \in Id : BackUpToDelete(u)
    BY <1>4
  <2>2. merged' = merged
    BY <2>1 DEF BackUpToDelete
  <2>3. script' = script \/ script' = [at |-> "delete", user |-> u, seen |-> Owned(u)]
    BY <2>1 DEF BackUpToDelete
  <2>4. Owned(u) \subseteq Row
    BY <1>0 DEF Owned, RowsOK
  <2> QED BY <1>1, <2>2, <2>3, <2>4
<1>5. CASE DeleteAccount
  BY <1>1, <1>5 DEF DeleteAccount, NoScript
<1>6. CASE UNCHANGED <<script, merged>>
  BY <1>1, <1>6
<1> QED BY <1>2, <1>3, <1>4, <1>5, <1>6
       DEF DataNext, Command, Write, RegisterDevice, ForgetDevice, PostPush, SendPush,
           ExportUser, ImportUser

(* Of rows that change their owner the indexes look at the table and the       *)
(* author, which stay.                                                     *)
LEMMA KeysStay ==
  ASSUME NEW q, NEW r, NEW q1, NEW r1, SameKey(q1, r1),
         q1.table = q.table, q1.author = q.author, r1.table = r.table, r1.author = r.author
  PROVE  SameKey(q, r)
BY DEF SameKey

LEMMA RepointKeepsIndexes ==
  ASSUME RowsOK, Indexed(rows), DevicesAreOriginal(rows), NEW src \in Id, NEW dst \in Id,
         src # dst, NEW leaving \in SUBSET Moves(src, dst),
         rows' = Repoint(Follow(leaving, src), dst)
  PROVE  Indexed(rows)' /\ DevicesAreOriginal(rows)'
<1> DEFINE moving == Follow(leaving, src)
           there(r) == [r EXCEPT !.owner = dst]
<1>1. \A r \in Row : /\ there(r) \in Row /\ there(r).table = r.table /\ there(r).owner = dst
                     /\ there(r).author = r.author /\ there(r).copy = r.copy
  BY DEF Row
<1>2. \A r \in moving : r \in rows /\ r \in Row /\ r.owner = src
  BY DEF Follow, Moves, Owned, RowsOK
<1>3. \A r \in moving : r.table = "event" \/ ~ \E q \in Owned(dst) : SameKey(q, r)
  BY DEF Follow, Moves
<1>4. \A r, q : SameKey(q, r) => q.table # "event" /\ r.table # "event" /\ SameKey(r, q)
  BY DEF SameKey
<1>5. rows' = (rows \ moving) \cup {there(r) : r \in moving}
  BY DEF Repoint
<1>6. \A x \in rows' : x \in rows \ moving \/ \E r \in moving : x = there(r)
  BY <1>5
<1>7. rows \subseteq Row
  BY DEF RowsOK
<1> HIDE DEF moving, there
<1>8. ASSUME NEW x \in rows \ moving, NEW r \in moving, x.owner = dst, SameKey(x, there(r))
      PROVE  FALSE
  <2>1. SameKey(x, r)
    BY <1>1, <1>2, <1>8, KeysStay
  <2>2. x \in Owned(dst)
    BY <1>8 DEF Owned
  <2> QED BY <1>3, <1>4, <2>1, <2>2
<1>9. ASSUME NEW q \in moving, NEW r \in moving, SameKey(there(q), there(r))
      PROVE  q = r
  <2>1. SameKey(q, r)
    BY <1>1, <1>2, <1>9, KeysStay
  <2> QED BY <1>2, <2>1 DEF Indexed
<1>10. ASSUME NEW x \in rows', NEW y \in rows', x.owner = y.owner, SameKey(x, y)
       PROVE  x = y
  <2>1. CASE x \in rows \ moving /\ y \in rows \ moving
    BY <1>10, <2>1 DEF Indexed
  <2>2. CASE x \in rows \ moving /\ \E r \in moving : y = there(r)
    BY <1>1, <1>2, <1>8, <1>10, <2>2
  <2>3. CASE y \in rows \ moving /\ \E r \in moving : x = there(r)
    BY <1>1, <1>2, <1>4, <1>8, <1>10, <2>3
  <2>4. CASE (\E r \in moving : x = there(r)) /\ (\E r \in moving : y = there(r))
    BY <1>9, <1>10, <2>4
  <2> QED BY <1>6, <2>1, <2>2, <2>3, <2>4
<1>11. DevicesAreOriginal(rows)'
  BY <1>1, <1>2, <1>6 DEF DevicesAreOriginal
<1> QED BY <1>10, <1>11 DEF Indexed

LEMMA TablesStep ==
  ASSUME RowsInv, TablesInv, [Next]_vars
  PROVE  TablesInv'
<1> USE NobodyIsNoId, PhonesAreNoIds DEF TablesInv
<1>0. RowsOK /\ TokenTypes /\ CallerOK
  BY DEF RowsInv, IdentityInv
<1>00. rows \subseteq Row /\ backup \subseteq Row
  BY <1>0 DEF RowsOK
<1>1. CASE UNCHANGED <<rows, backup>>
  BY <1>1 DEF Indexed, DevicesAreOriginal, OneOwner
<1>2. CASE Write
  <2> DEFINE new(t) == [table |-> t, owner |-> caller.uid, author |-> caller.uid, copy |-> FALSE]
  <2>1. PICK t \in Table \ {"device", "event", "retired"} :
          /\ \A q \in Owned(caller.uid) : ~SameKey(q, new(t))
          /\ rows' = rows \cup {new(t)} \cup
                       (IF t = "application" /\ "event" \in Table
                        THEN {[new(t) EXCEPT !.table = "event"]} ELSE {})
    BY <1>2 DEF Write
  <2>2. backup' = backup
    BY <1>2 DEF Write
  <2>3. new(t).owner = caller.uid /\ new(t).table = t /\ [new(t) EXCEPT !.table = "event"].table = "event"
    OBVIOUS
  <2> HIDE DEF new
  <2>4. \A x \in rows' : x \in rows \/ x = new(t) \/ x.table = "event"
    BY <2>1, <2>3
  <2>5. \A q, r : SameKey(q, r) => q.table # "event" /\ r.table # "event" /\ SameKey(r, q)
    BY DEF SameKey
  <2>6. Indexed(rows)'
    <3> SUFFICES ASSUME NEW x \in rows', NEW y \in rows', x.owner = y.owner, SameKey(x, y)
                 PROVE  x = y
      BY DEF Indexed
    <3>1. CASE x \in rows /\ y \in rows
      BY <3>1 DEF Indexed
    <3>2. CASE x = new(t) /\ y \in rows
      BY <2>1, <2>3, <2>5, <3>2 DEF Owned
    <3>3. CASE y = new(t) /\ x \in rows
      BY <2>1, <2>3, <3>3 DEF Owned
    <3> QED BY <2>4, <2>5, <3>1, <3>2, <3>3
  <2>7. DevicesAreOriginal(rows)'
    BY <2>3, <2>4 DEF DevicesAreOriginal
  <2> QED BY <2>2, <2>6, <2>7 DEF Indexed, DevicesAreOriginal, OneOwner
<1>3. CASE \E d \in Phone : RegisterDevice(d)
  <2>1. PICK d \in Phone : RegisterDevice(d)
    BY <1>3
  <2> DEFINE new == [table |-> "device", owner |-> caller.uid, author |-> d, copy |-> FALSE]
  <2>2. rows' = rows \cup {new} /\ backup' = backup
    BY <2>1 DEF RegisterDevice
  <2>3. \A x \in rows : x.owner = new.owner /\ (SameKey(x, new) \/ SameKey(new, x)) => x = new
    BY <1>00 DEF DevicesAreOriginal, SameKey, Row
  <2>4. new.table = "device" /\ ~new.copy
    OBVIOUS
  <2> HIDE DEF new
  <2> QED BY <2>2, <2>3, <2>4 DEF Indexed, DevicesAreOriginal, OneOwner
<1>4. CASE MigrateLegacy
  <2>1. backup' = backup
    BY <1>4 DEF MigrateLegacy
  <2>2. CASE UNCHANGED rows
    BY <1>1, <2>1, <2>2
  <2>3. CASE route.uid # Legacy /\ rows' = Repoint(Follow(Moves(Legacy, route.uid), Legacy), route.uid)
    <3>1. route.uid \in Id
      BY <1>0, <1>4 DEF MigrateLegacy, TokenTypes, Idle
    <3>2. Indexed(rows)' /\ DevicesAreOriginal(rows)'
      BY <1>0, <2>3, <3>1, RepointKeepsIndexes
    <3> QED BY <2>1, <3>2 DEF Indexed, DevicesAreOriginal, OneOwner
  <2> QED BY <1>4, <2>2, <2>3 DEF MigrateLegacy
<1>5. CASE \E src, dst \in Id : MergeUser(src, dst)
  <2>1. PICK src \in Id, dst \in Id : MergeUser(src, dst)
    BY <1>5
  <2>2. backup' = backup /\ src # dst
    BY <2>1 DEF MergeUser
  <2>3. PICK leaving \in SUBSET Moves(src, dst) : rows' = Repoint(Follow(leaving, src), dst)
    <3> DEFINE fails == users[dst] = Nobody /\ \E t \in Token : sessions[t] = src
               leaving == {r \in Moves(src, dst) : fails => r.table \notin AfterSessions}
    <3>1. rows' = Repoint(Follow(leaving, src), dst)
      BY <2>1 DEF MergeUser
    <3> QED BY <3>1
  <2>4. Indexed(rows)' /\ DevicesAreOriginal(rows)'
    BY <1>0, <2>2, <2>3, RepointKeepsIndexes
  <2> QED BY <2>2, <2>4 DEF Indexed, DevicesAreOriginal, OneOwner
<1>6. CASE \E u \in Id : ExportUser(u) \/ BackUpToDelete(u)
  <2>1. PICK u \in Id : ExportUser(u) \/ BackUpToDelete(u)
    BY <1>6
  <2>2. rows' = rows /\ backup' \subseteq Owned(u)
    BY <2>1 DEF ExportUser, BackUpToDelete, Exported
  <2> QED BY <2>2 DEF Owned, Indexed, DevicesAreOriginal, OneOwner
<1>7. CASE \E u \in Id : ImportUser(u)
  <2>1. PICK u \in Id, tables \in {Table, Brain} : rows' = rows \cup Imported(tables, u) /\ UNCHANGED backup
    BY <1>7 DEF ImportUser
  <2> DEFINE here(b) == [b EXCEPT !.owner = u, !.copy = b.table # "device"]
  <2>2. \A b \in Row : /\ here(b).table = b.table /\ here(b).author = b.author /\ here(b).owner = u
                       /\ here(b).copy = (b.table # "device")
    BY DEF Row
  <2>3. \A x \in Imported(tables, u) :
          \E b \in backup : x = here(b) /\ ~ \E q \in Owned(u) : SameKey(q, b)
    BY DEF Imported
  <2> HIDE DEF here
  <2>4. \A q, r : SameKey(q, r) => SameKey(r, q)
    BY DEF SameKey
  <2>5. Indexed(rows)'
    <3> SUFFICES ASSUME NEW x \in rows', NEW y \in rows', x.owner = y.owner, SameKey(x, y)
                 PROVE  x = y
      BY DEF Indexed
    <3>1. ASSUME NEW p \in rows, NEW q \in Imported(tables, u), p.owner = q.owner, SameKey(p, q)
          PROVE  FALSE
      <4>1. PICK b \in backup : q = here(b) /\ ~ \E o \in Owned(u) : SameKey(o, b)
        BY <2>3
      <4>2. SameKey(p, b)
        BY <1>00, <2>2, <3>1, <4>1, KeysStay
      <4> QED BY <1>00, <2>2, <3>1, <4>1, <4>2 DEF Owned
    <3>2. CASE x \in Imported(tables, u) /\ y \in Imported(tables, u)
      <4>1. PICK b \in backup : x = here(b)
        BY <2>3, <3>2
      <4>2. PICK c \in backup : y = here(c)
        BY <2>3, <3>2
      <4>3. SameKey(b, c)
        BY <1>00, <2>2, <4>1, <4>2, KeysStay
      <4> QED BY <4>1, <4>2, <4>3 DEF Indexed, OneOwner
    <3>3. CASE x \in rows /\ y \in rows
      BY <3>3 DEF Indexed
    <3> QED BY <2>1, <2>4, <3>1, <3>2, <3>3
  <2>6. DevicesAreOriginal(rows)'
    BY <1>00, <2>1, <2>2, <2>3 DEF DevicesAreOriginal
  <2> QED BY <2>1, <2>5, <2>6 DEF Indexed, DevicesAreOriginal, OneOwner
<1>8. CASE rows' \subseteq rows /\ UNCHANGED backup
  BY <1>8 DEF Indexed, DevicesAreOriginal, OneOwner
<1>9. CASE DeleteAccount \/ \E d \in Phone : ForgetDevice(d) \/ PostPush(d)
  BY <1>8, <1>9 DEF DeleteAccount, ForgetDevice, PostPush, authVars
<1>10. CASE (\E u \in Id : SendPush(u)) \/ (AuthNext /\ UNCHANGED dataVars) \/ UNCHANGED vars
  BY <1>1, <1>10 DEF SendPush, dataVars, vars
<1> QED BY <1>2, <1>3, <1>4, <1>5, <1>6, <1>7, <1>9, <1>10 DEF Next, DataNext, Command

LEMMA TablesInitial == Init => OthersTyped /\ TablesInv
<1> SUFFICES ASSUME Init PROVE OthersTyped /\ TablesInv
  OBVIOUS
<1>1. \A r \in rows : \E u : r = RetiredRow(u)
  BY DEF Init
<1>2. \A r \in rows : r.table = "retired"
  BY <1>1 DEF RetiredRow
<1>3. Indexed(rows) /\ DevicesAreOriginal(rows)
  BY <1>2 DEF Indexed, DevicesAreOriginal, SameKey
<1>4. backup = {} /\ script = NoScript /\ merged = {} /\ caller = NoCaller /\ used = {}
  BY DEF Init, AuthInit
<1> QED BY <1>3, <1>4 DEF OthersTyped, TablesInv, Indexed, DevicesAreOriginal, OneOwner, NoScript

(* Every variable keeps its type, and no user comes to hold two rows a unique    *)
(* index forbids, whatever is merged, exported and restored.                  *)
THEOREM UserDataTyped == Spec => []TypeOK
<1>1. Init => OthersTyped /\ TablesInv
  BY TablesInitial
<1>2. RowsInv /\ OthersTyped /\ TablesInv /\ [Next]_vars => OthersTyped' /\ TablesInv'
  <2> SUFFICES ASSUME RowsInv, OthersTyped, TablesInv, [Next]_vars
               PROVE  OthersTyped' /\ TablesInv'
    OBVIOUS
  <2>1. CASE UNCHANGED vars
    BY <2>1, TablesStep DEF OthersTyped, vars, authVars, dataVars
  <2> QED BY <2>1, AuthTyped, DataTyped, TablesStep DEF Next
<1>3. RowsInv /\ ThrottleInv /\ OthersTyped /\ TablesInv => TypeOK
  BY DEF RowsInv, IdentityInv, TokenTypes, RowsOK, ThrottleInv, OthersTyped, TablesInv, Indexed,
         TypeOK, AuthTypeOK
<1> QED BY <1>1, <1>2, <1>3, RowsAlways, ThrottleAlways, PTL DEF Spec
=============================================================================

------------------------------ MODULE Accounts ------------------------------
(* app/auth.py and its routes in app/main.py: the three ways to sign in, the  *)
(* session tokens, the login throttle.                                       *)
(*                                                                         *)
(* The routes are coroutines of one event loop and a sign-in awaits nothing   *)
(* once its body is read, so one sign-in runs at a time (route); but each of  *)
(* its transactions commits by itself, and logouts (pool threads), operator   *)
(* scripts (other processes) and the end of the process come between them.   *)
(* A request that needs a session resolves its user first and awaits its body *)
(* next (caller).                                                           *)
EXTENDS Naturals, FiniteSets

CONSTANTS
  Id,            \* user ids
  Legacy,        \* AUTH_LEGACY_USER_ID
  DevId,         \* AUTH_DEV_USER_ID; may be blank (Nobody)
  Sub,           \* Apple subjects
  Email,         \* addresses, normalised
  Password,
  Token,         \* session tokens; a minted one is new
  Audience,      \* audiences a signed Apple token may carry
  OurAudience,   \* APPLE_CLIENT_IDS and the bundle id
  Invited,       \* the invite allowlist; empty admits everyone
  Claimable,     \* ids a caller without a session may name (X-Apply-Token)
  AllowDev,      \* AUTH_ALLOW_DEV_LOGIN
  MaxAttempts,   \* AUTH_MAX_LOGIN_ATTEMPTS
  Window,        \* AUTH_LOGIN_LOCKOUT_SECONDS, in ticks
  Nobody         \* NULL, no account, no session

ASSUME AccountsAssumption ==
  /\ Legacy \in Id /\ DevId \in Id \cup {Nobody} /\ Claimable \subseteq Id
  /\ OurAudience \subseteq Audience
  /\ Nobody \notin Id \cup Sub \cup Email \cup Password
  /\ MaxAttempts \in Nat \ {0} /\ Window \in Nat \ {0}
  /\ AllowDev \in BOOLEAN

VARIABLES
  users,      \* the users table
  sessions,   \* the sessions table: whose each token is
  failures,   \* _login_failures: the recorded wrong passwords and their ages
  route,      \* the sign-in the loop is in: what it does next, for whom
  caller,     \* a request whose user is resolved and whose body is awaited
  used,       \* history: ids that were ever an account's
  minted,     \* history: the account each token was minted for
  dead,       \* history: tokens that were revoked, or seen expired
  guesses     \* history: the wrong passwords verified since a success

authVars == <<users, sessions, failures, route, caller, used, minted, dead, guesses>>

Account ==
  [sub : Sub \cup {Nobody}, email : Email \cup {Nobody},
   pw : Password \cup {Nobody}, claimed : BOOLEAN]

Idle == [at |-> "idle", uid |-> Nobody]

NoCaller == [uid |-> Nobody, session |-> FALSE]

(* The list of an address is only filtered and counted; a number tells apart     *)
(* the failures of one age.                                                *)
Failure == [number : Nat, age : 0 .. Window]

AuthTypeOK ==
  /\ users \in [Id -> Account \cup {Nobody}]
  /\ sessions \in [Token -> Id \cup {Nobody}]
  /\ failures \in [Email -> SUBSET Failure]
  /\ route \in [at : {"migrate", "mint"}, uid : Id] \cup {Idle}
  /\ caller \in [uid : Id, session : BOOLEAN] \cup {NoCaller}
  /\ used \subseteq Id
  /\ minted \in [Token -> Id \cup {Nobody}]
  /\ dead \subseteq Token
  /\ guesses \in [Email -> SUBSET Failure]

AuthInit ==
  /\ users = [u \in Id |-> Nobody]
  /\ sessions = [t \in Token |-> Nobody]
  /\ failures = [e \in Email |-> {}]
  /\ route = Idle
  /\ caller = NoCaller
  /\ used = {}
  /\ minted = [t \in Token |-> Nobody]
  /\ dead = {}
  /\ guesses = [e \in Email |-> {}]

-----------------------------------------------------------------------------
(* Accounts *)

EmailAllowed(e) == Invited = {} \/ e \in Invited

(* A token Apple signed: accepted for our audiences, and only with a subject. *)
Verified(claim) == claim.aud \in OurAudience /\ claim.sub # Nobody

AppleAccount(s) == {u \in Id : users[u] # Nobody /\ users[u].sub = s}

(* An Apple account that shares the address is not the password account.      *)
PasswordAccount(e) ==
  {u \in Id : users[u] # Nobody /\ users[u].email = e /\ users[u].pw # Nobody}

FreshId == Id \ (used \cup {Legacy, DevId})

InsertUser(u, sub, e, p) ==
  /\ users[u] = Nobody
  /\ users' = [users EXCEPT ![u] = [sub |-> sub, email |-> e, pw |-> p, claimed |-> FALSE]]
  /\ used' = used \cup {u}
  /\ route' = [at |-> "migrate", uid |-> u]

(* An account that is there takes the address if it has none; a new one is        *)
(* inserted.                                                                *)
UpsertApple(s, e) ==
  \/ \E u \in AppleAccount(s) :
       /\ users' = [users EXCEPT ![u].email = IF @ = Nobody THEN e ELSE @]
       /\ route' = [at |-> "mint", uid |-> u]
       /\ UNCHANGED used
  \/ /\ AppleAccount(s) = {}
     /\ \E u \in FreshId : InsertUser(u, s, e, Nobody)

SignInApple ==
  /\ route = Idle
  /\ \E claim \in [aud : Audience, sub : Sub \cup {Nobody}], e \in Email \cup {Nobody} :
       /\ Verified(claim)
       /\ \/ EmailAllowed(e)
          \/ e = Nobody /\ \E u \in AppleAccount(claim.sub) : EmailAllowed(users[u].email)
       /\ UpsertApple(claim.sub, e)
  /\ UNCHANGED <<sessions, failures, caller, minted, dead, guesses>>

(* The id is the one the body names, else the configured one, else a new one.    *)
DevIds == Claimable \cup (IF DevId = Nobody THEN FreshId ELSE {DevId})

(* Its apple_sub, "dev:<id>", is no subject of Apple's.                        *)
SignInDev ==
  /\ route = Idle
  /\ AllowDev
  /\ \E u \in DevIds :
       \/ InsertUser(u, Nobody, Nobody, Nobody)
       \/ /\ users[u] # Nobody
          /\ route' = [at |-> "mint", uid |-> u]
          /\ UNCHANGED <<users, used>>
  /\ UNCHANGED <<sessions, failures, caller, minted, dead, guesses>>

SignUpEmail ==
  /\ route = Idle
  /\ \E e \in Email, p \in Password, u \in FreshId :
       /\ EmailAllowed(e)
       /\ PasswordAccount(e) = {}
       /\ InsertUser(u, Nobody, e, p)
  /\ UNCHANGED <<sessions, failures, caller, minted, dead, guesses>>

-----------------------------------------------------------------------------
(* The login throttle *)

(* What _login_locked keeps of the recorded failures.                         *)
Recent(e) == {f \in failures[e] : f.age < Window}

(* Mutated form of Locked: one attempt too many. *)
LockedOneLate(e) == Cardinality(Recent(e)) > MaxAttempts

Locked(e) == Cardinality(Recent(e)) >= MaxAttempts

LoginRefused ==
  /\ route = Idle
  /\ \E e \in Email :
       /\ Locked(e)
       /\ failures' = [failures EXCEPT ![e] = Recent(e)]
  /\ UNCHANGED <<users, sessions, route, caller, used, minted, dead, guesses>>

Another(e) ==
  LET known == Recent(e) \cup guesses[e] IN
  [number |-> CHOOSE n \in 0 .. Cardinality(known) : \A f \in known : f.number # n, age |-> 0]

(* A wrong password, or an address with no password account.                  *)
LoginWrong ==
  /\ route = Idle
  /\ \E e \in Email, p \in Password :
       /\ ~Locked(e)
       /\ \A u \in PasswordAccount(e) : users[u].pw # p
       /\ failures' = [failures EXCEPT ![e] = Recent(e) \cup {Another(e)}]
       /\ guesses' = [guesses EXCEPT ![e] = @ \cup {Another(e)}]
  /\ UNCHANGED <<users, sessions, route, caller, used, minted, dead>>

LoginRight ==
  /\ route = Idle
  /\ \E e \in Email, p \in Password :
       /\ ~Locked(e)
       /\ EmailAllowed(e)
       /\ \E u \in PasswordAccount(e) :
            /\ users[u].pw = p
            /\ route' = [at |-> "mint", uid |-> u]
       /\ failures' = [failures EXCEPT ![e] = {}]
       /\ guesses' = [guesses EXCEPT ![e] = {}]
  /\ UNCHANGED <<users, sessions, caller, used, minted, dead>>

Older(f) == [f EXCEPT !.age = IF @ < Window THEN @ + 1 ELSE Window]

Tick(e) ==
  /\ failures[e] # {} \/ guesses[e] # {}
  /\ failures' = [failures EXCEPT ![e] = {Older(f) : f \in @}]
  /\ guesses' = [guesses EXCEPT ![e] = {Older(f) : f \in {g \in @ : Older(g).age < Window}}]
  /\ UNCHANGED <<users, sessions, route, caller, used, minted, dead>>

-----------------------------------------------------------------------------
(* Sessions *)

(* create_session: the insert fails on the foreign key when the account went   *)
(* meanwhile.                                                               *)
Mint ==
  /\ route.at = "mint"
  /\ \/ /\ users[route.uid] # Nobody
        /\ \E t \in Token :
             /\ minted[t] = Nobody
             /\ sessions' = [sessions EXCEPT ![t] = route.uid]
             /\ minted' = [minted EXCEPT ![t] = route.uid]
     \/ users[route.uid] = Nobody /\ UNCHANGED <<sessions, minted>>
  /\ route' = Idle
  /\ UNCHANGED <<users, failures, caller, used, dead, guesses>>

(* user_id_for_token: the first to present a token after its expiry deletes it,  *)
(* so a token is good at every use until one use finds it expired.             *)
Authenticate(t) ==
  /\ caller = NoCaller
  /\ sessions[t] # Nobody
  /\ \/ /\ caller' = [uid |-> sessions[t], session |-> TRUE]
        /\ UNCHANGED <<sessions, dead>>
     \/ /\ sessions' = [sessions EXCEPT ![t] = Nobody]
        /\ dead' = dead \cup {t}
        /\ UNCHANGED caller
  /\ UNCHANGED <<users, failures, route, used, minted, guesses>>

(* resolve_user without a session: the apply token and the id the body names.  *)
ClaimUser(u) ==
  /\ caller = NoCaller
  /\ u \in Claimable
  /\ caller' = [uid |-> u, session |-> FALSE]
  /\ UNCHANGED <<users, sessions, failures, route, used, minted, dead, guesses>>

CallerLeaves ==
  /\ caller # NoCaller
  /\ caller' = NoCaller
  /\ UNCHANGED <<users, sessions, failures, route, used, minted, dead, guesses>>

ChangePassword ==
  /\ caller.session
  /\ \E old, new \in Password :
       /\ users[caller.uid] # Nobody
       /\ users[caller.uid].pw = old
       /\ users' = [users EXCEPT ![caller.uid].pw = new]
  /\ caller' = NoCaller
  /\ UNCHANGED <<sessions, failures, route, used, minted, dead, guesses>>

Logout(t) ==
  /\ sessions[t] # Nobody
  /\ sessions' = [sessions EXCEPT ![t] = Nobody]
  /\ dead' = dead \cup {t}
  /\ UNCHANGED <<users, failures, route, caller, used, minted, guesses>>

(* The process ends: what it held in memory goes, the throttle with it.        *)
Crash ==
  /\ route' = Idle
  /\ caller' = NoCaller
  /\ failures' = [e \in Email |-> {}]
  /\ guesses' = [e \in Email |-> {}]
  /\ UNCHANGED <<users, sessions, used, minted, dead>>

AuthNext ==
  \/ SignInApple \/ SignInDev \/ SignUpEmail
  \/ LoginRefused \/ LoginWrong \/ LoginRight
  \/ Mint \/ ChangePassword \/ CallerLeaves \/ Crash
  \/ \E e \in Email : Tick(e)
  \/ \E t \in Token : Authenticate(t) \/ Logout(t)
  \/ \E u \in Id : ClaimUser(u)

-----------------------------------------------------------------------------
(* Guessing a password is not free: while one process lives, at most            *)
(* MaxAttempts wrong passwords are checked against one address in any window,   *)
(* whatever interleaves with them and whether or not the address has an         *)
(* account.                                                                 *)
GuessesBounded == \A e \in Email : Cardinality(guesses[e]) <= MaxAttempts

(* A token that was revoked, or was seen to be expired, or whose account was    *)
(* deleted, never authenticates again: not after a merge, a restore from a      *)
(* backup, or an account made anew under the same id.                          *)
DeadStaysDead == \A t \in dead : sessions[t] = Nobody
=============================================================================

------------------------------ MODULE UserData ------------------------------
(* What an account owns, and what moves it: usermerge.py (merge, export,       *)
(* import), users.py and scripts/users.py (delete behind a backup), push.py     *)
(* (device tokens), and the legacy merge a new account triggers.              *)
(*                                                                         *)
(* A row is its table, its owner (user_id) and its author: the id it was first  *)
(* written for, or the phone for a device token.  "event" rows have no user_id: *)
(* they belong to the application of the same author.  A "queue" row refers to    *)
(* the posting of the same author.  A row an import made is a copy: nothing       *)
(* refers to it.  Bounds: one original row per table and author, and equal copies *)
(* of one owner count once.                                                 *)
EXTENDS Accounts

CONSTANTS
  Table,     \* the tables of this instance, of the names below
  Writer,    \* ids the app or the CLI writes rows for
  Phone,     \* device tokens
  MayForce   \* whether the operator passes --force

ASSUME UserDataAssumption ==
  /\ Table \subseteq {"profile", "posting", "queue", "application", "event",
                      "device", "chat", "retired"}
  /\ Writer \subseteq Id
  /\ Phone \cap Id = {}
  /\ MayForce \in BOOLEAN

VARIABLES
  rows,      \* every row of every table
  backup,    \* the file an export wrote: whose rows, and which
  script,    \* scripts.users delete: what it is about to do, and for whom
  sending,   \* push.send: the tokens it has still to post to
  merged     \* history: <<from, into>> of the merges that moved a session, closed
             \* under composition

dataVars == <<rows, backup, script, sending, merged>>

vars == <<authVars, dataVars>>

Row == [table : Table, owner : Id, author : Id \cup Phone, copy : BOOLEAN]

NoScript == [at |-> "idle", user |-> Nobody, seen |-> {}]

(* A database that has lived through releases may still hold rows of tables the   *)
(* code no longer creates.                                                  *)
RetiredRow(u) == [table |-> "retired", owner |-> u, author |-> u, copy |-> FALSE]

Init ==
  /\ AuthInit
  /\ rows \in SUBSET {RetiredRow(u) : u \in IF "retired" \in Table THEN Writer ELSE {}}
  /\ backup = {}
  /\ script = NoScript
  /\ sending = {}
  /\ merged = {}

Owned(u) == {r \in rows : r.owner = u}

(* user_tables: every table with a user_id column.                            *)
UserTables == Table \ {"event"}

(* Tables created after sessions: a merge that fails on it has not reached them. *)
AfterSessions == {"chat"}

(* The unique indexes: one profile per user, one row per posting, per posting   *)
(* in the queue, per device.                                                *)
SameKey(q, r) ==
  /\ q.table = r.table
  /\ \/ r.table \in {"profile", "posting"}
     \/ r.table \in {"queue", "device"} /\ q.author = r.author

(* Types, and the unique indexes: no user holds two rows one of them forbids,     *)
(* whatever is merged or restored.                                          *)
TypeOK ==
  /\ AuthTypeOK
  /\ rows \subseteq Row
  /\ backup \subseteq Row
  /\ script \in [at : {"idle", "delete"}, user : Id \cup {Nobody}, seen : SUBSET Row]
  /\ sending \subseteq Phone
  /\ merged \subseteq Id \X Id
  /\ \A q, r \in rows : q.owner = r.owner /\ SameKey(q, r) => q = r

-----------------------------------------------------------------------------
(* Writing rows: any authorised request, once its body is there.               *)

Write ==
  /\ caller # NoCaller
  /\ caller.uid \in Writer
  /\ \E t \in Table \ {"device", "event", "retired"} :
       LET r == [table |-> t, owner |-> caller.uid, author |-> caller.uid, copy |-> FALSE] IN
       /\ \A q \in Owned(caller.uid) : ~SameKey(q, r)
       /\ \A q \in rows : q.table = t /\ q.author = caller.uid => q.copy
       /\ t = "queue" => [r EXCEPT !.table = "posting"] \in rows
       /\ rows' = rows \cup {r} \cup
                    (IF t = "application" /\ "event" \in Table
                     THEN {[r EXCEPT !.table = "event"]} ELSE {})
  /\ caller' = NoCaller
  /\ UNCHANGED <<users, sessions, failures, route, used, minted, dead, guesses>>
  /\ UNCHANGED <<backup, script, sending, merged>>

RegisterDevice(d) ==
  /\ caller # NoCaller
  /\ "device" \in Table
  /\ rows' = rows \cup {[table |-> "device", owner |-> caller.uid, author |-> d, copy |-> FALSE]}
  /\ caller' = NoCaller
  /\ UNCHANGED <<users, sessions, failures, route, used, minted, dead, guesses>>
  /\ UNCHANGED <<backup, script, sending, merged>>

ForgetDevice(d) ==
  /\ caller # NoCaller
  /\ rows' = rows \ {[table |-> "device", owner |-> caller.uid, author |-> d, copy |-> FALSE]}
  /\ caller' = NoCaller
  /\ UNCHANGED <<users, sessions, failures, route, used, minted, dead, guesses>>
  /\ UNCHANGED <<backup, script, sending, merged>>

(* push.send on the scheduler's or a kick's thread: reads the user's devices,   *)
(* then posts to one after the other.                                        *)
SendPush(u) ==
  /\ sending = {}
  /\ sending' = {r.author : r \in {q \in Owned(u) : q.table = "device"}}
  /\ sending' # {}
  /\ UNCHANGED <<authVars, rows, backup, script, merged>>

(* _post: APNs accepts or fails; a token it calls dead is dropped for everyone. *)
PostPush(d) ==
  /\ d \in sending
  /\ sending' = sending \ {d}
  /\ \/ UNCHANGED rows
     \/ rows' = {r \in rows : r.author # d}
  /\ UNCHANGED <<authVars, backup, script, merged>>

-----------------------------------------------------------------------------
(* Merging *)

(* Mutated form of Moves: a plain UPDATE, with the unique indexes gone. *)
MovesAll(src, dst) == {r \in Owned(src) : r.table \in UserTables}

(* UPDATE OR IGNORE: what would collide with a row of dst stays with src.      *)
Moves(src, dst) ==
  {r \in Owned(src) : r.table \in UserTables /\ ~ \E q \in Owned(dst) : SameKey(q, r)}

(* Events follow their application.                                          *)
Follow(moving, src) ==
  moving \cup {r \in Owned(src) : /\ r.table = "event"
                                  /\ [r EXCEPT !.table = "application"] \in moving}

Repoint(moving, dst) == (rows \ moving) \cup {[r EXCEPT !.owner = dst] : r \in moving}

(* Mutated form of SessionsRepointed: the WHERE clause is lost. *)
SessionsAllRepointed(src, dst) ==
  [t \in Token |-> IF sessions[t] # Nobody THEN dst ELSE Nobody]

SessionsRepointed(src, dst) ==
  [t \in Token |-> IF sessions[t] = src THEN dst ELSE sessions[t]]

Merged(src, dst) ==
  IF \A t \in Token : sessions[t] # src THEN merged
  ELSE merged \cup {<<src, dst>>} \cup {<<m[1], dst>> : m \in {x \in merged : x[2] = src}}

(* Mutated form of MigrateLegacy: nobody asks whether the legacy id is claimed. *)
MigrateLegacyUnasked ==
  LET u == route.uid
      moving == Follow(Moves(Legacy, u), Legacy)
  IN
  /\ route.at = "migrate"
  /\ IF u # Legacy /\ users[u] # Nobody /\ Owned(Legacy) # {}
     THEN /\ rows' = Repoint(moving, u)
          /\ sessions' = SessionsRepointed(Legacy, u)
          /\ users' = [users EXCEPT ![u].claimed = TRUE]
          /\ merged' = Merged(Legacy, u)
     ELSE UNCHANGED <<rows, sessions, users, merged>>
  /\ route' = [route EXCEPT !.at = "mint"]
  /\ UNCHANGED <<failures, caller, used, minted, dead, guesses, backup, script, sending>>

(* _maybe_migrate_legacy, one transaction after the account's insert.          *)
MigrateLegacy ==
  LET u == route.uid
      free == \A v \in Id \ {u} : users[v] # Nobody => v # Legacy /\ ~users[v].claimed
      moving == Follow(Moves(Legacy, u), Legacy)
  IN
  /\ route.at = "migrate"
  /\ IF u # Legacy /\ free /\ users[u] # Nobody /\ Owned(Legacy) # {}
     THEN /\ rows' = Repoint(moving, u)
          /\ sessions' = SessionsRepointed(Legacy, u)
          /\ users' = [users EXCEPT ![u].claimed = TRUE]
          /\ merged' = Merged(Legacy, u)
     ELSE UNCHANGED <<rows, sessions, users, merged>>
  /\ route' = [route EXCEPT !.at = "mint"]
  /\ UNCHANGED <<failures, caller, used, minted, dead, guesses, backup, script, sending>>

(* Mutated form of MergeUser: UPDATE OR REPLACE. *)
MergeUserReplacing(src, dst) ==
  /\ src # dst
  /\ Owned(src) # {}
  /\ rows' = {r \in rows : r.owner # src /\ (r.owner = dst => ~ \E q \in Owned(src) : SameKey(q, r))}
               \cup {[r EXCEPT !.owner = dst] : r \in Owned(src)}
  /\ sessions' = SessionsRepointed(src, dst)
  /\ merged' = Merged(src, dst)
  /\ UNCHANGED <<users, failures, route, caller, used, minted, dead, guesses>>
  /\ UNCHANGED <<backup, script, sending>>

(* scripts.users merge and scripts.migrate_user.  Repointing a session to an id *)
(* with no account fails on the foreign key; the tables before it are then       *)
(* committed all the same.                                                  *)
MergeUser(src, dst) ==
  LET fails == users[dst] = Nobody /\ \E t \in Token : sessions[t] = src
      moving == {r \in Moves(src, dst) : fails => r.table \notin AfterSessions}
  IN
  /\ src # dst
  /\ moving # {} \/ \E t \in Token : sessions[t] = src
  /\ rows' = Repoint(Follow(moving, src), dst)
  /\ sessions' = IF fails THEN sessions ELSE SessionsRepointed(src, dst)
  /\ merged' = IF fails THEN merged ELSE Merged(src, dst)
  /\ UNCHANGED <<users, failures, route, caller, used, minted, dead, guesses>>
  /\ UNCHANGED <<backup, script, sending>>

-----------------------------------------------------------------------------
(* Export, import, delete: scripts, each database's part one transaction.       *)

Brain == {"profile", "posting"}

(* The tables both databases have: the destination is built from today's schema, *)
(* without the retired ones.  Sessions never cross.                           *)
Crossing(tables) == (tables \cap UserTables) \ {"retired"}

Exported(u, tables) == {r \in Owned(u) : r.table \in Crossing(tables)}

(* Mutated form of Complete: a retired table never makes a backup incomplete. *)
CompleteAnyway(u) == TRUE

(* Transfer.complete: a table that could not cross counts when it held rows.     *)
Complete(u) == ~ \E r \in Owned(u) : r.table = "retired"

ExportUser(u) ==
  /\ script = NoScript
  /\ Owned(u) # {}
  /\ \E tables \in {Table, Brain} : backup' = Exported(u, tables)
  /\ UNCHANGED <<authVars, rows, script, sending, merged>>

(* INSERT OR IGNORE under dst; a table whose parent is renumbered is skipped.    *)
Imported(tables, dst) ==
  {[r EXCEPT !.owner = dst, !.copy = r.table # "device"] : r \in
     {b \in backup : /\ b.table \in Crossing(tables) \ {"queue"}
                     /\ ~ \E q \in Owned(dst) : SameKey(q, b)}}

ImportUser(dst) ==
  /\ backup # {}
  /\ \E tables \in {Table, Brain} : rows' = rows \cup Imported(tables, dst)
  /\ UNCHANGED <<authVars, backup, script, sending, merged>>

(* cmd_delete, up to the backup it writes first, which it refuses to delete      *)
(* behind when a table could not cross.                                      *)
BackUpToDelete(u) ==
  /\ script = NoScript
  /\ Owned(u) # {} \/ users[u] # Nobody
  /\ backup' = Exported(u, Table)
  /\ \/ /\ Complete(u) \/ MayForce
        /\ script' = [at |-> "delete", user |-> u, seen |-> Owned(u)]
     \/ ~Complete(u) /\ ~MayForce /\ UNCHANGED script
  /\ UNCHANGED <<authVars, rows, sending, merged>>

(* The rows that go with a set of deleted ones: ON DELETE CASCADE from a posting *)
(* to the queue rows that refer to it, from an application to its events.       *)
Cascade(gone) ==
  gone \cup {r \in rows :
    \E g \in gone : /\ g.author = r.author
                    /\ ~g.copy
                    /\ \/ g.table = "posting" /\ r.table = "queue"
                       \/ g.table = "application" /\ r.table = "event" /\ r.owner = g.owner}

(* Mutated form of DeleteAccount: the sessions table is not one of the user's. *)
DeleteAccountNotSessions ==
  /\ script.at = "delete"
  /\ rows' = rows \ Cascade({r \in Owned(script.user) : r.table \in UserTables})
  /\ dead' = dead \cup {t \in Token : sessions[t] = script.user}
  /\ users' = [users EXCEPT ![script.user] = Nobody]
  /\ script' = NoScript
  /\ UNCHANGED <<sessions, failures, route, caller, used, minted, guesses, backup>>
  /\ UNCHANGED <<sending, merged>>

(* users.delete_account: one transaction, sessions and the account included.     *)
DeleteAccount ==
  LET u == script.user
      theirs == {t \in Token : sessions[t] = u}
  IN
  /\ script.at = "delete"
  /\ rows' = rows \ Cascade({r \in Owned(u) : r.table \in UserTables})
  /\ sessions' = [t \in Token |-> IF t \in theirs THEN Nobody ELSE sessions[t]]
  /\ dead' = dead \cup theirs
  /\ users' = [users EXCEPT ![u] = Nobody]
  /\ script' = NoScript
  /\ UNCHANGED <<failures, route, caller, used, minted, guesses, backup, sending, merged>>

DataNext ==
  \/ Write \/ MigrateLegacy \/ DeleteAccount
  \/ \E d \in Phone : RegisterDevice(d) \/ ForgetDevice(d) \/ PostPush(d)
  \/ \E u \in Id : SendPush(u)

(* What an operator starts from a shell.                                      *)
Command ==
  \/ \E u \in Id : ExportUser(u) \/ ImportUser(u) \/ BackUpToDelete(u)
  \/ \E src, dst \in Id : MergeUser(src, dst)

Next == (AuthNext /\ UNCHANGED dataVars) \/ DataNext \/ Command

Spec == Init /\ [][Next]_vars

-----------------------------------------------------------------------------
(* The data of the legacy id goes to at most one account, though the account is  *)
(* committed before the merge and the process may end between the two.         *)
LegacyToOneAccount ==
  \A u, v \in Id : users[u] # Nobody /\ users[v] # Nobody /\ users[u].claimed /\ users[v].claimed
                     => u = v

(* A live token answers as the account it was minted for, or as one that account *)
(* was merged into; it never comes to name anyone else.                        *)
TokenFollowsMerge ==
  \A t \in Token : sessions[t] # Nobody =>
    sessions[t] = minted[t] \/ <<minted[t], sessions[t]>> \in merged

(* Merging, importing and signing in never make a row disappear or replace one    *)
(* that is there: content goes only when an account is deleted or a phone's       *)
(* token is forgotten.                                                      *)
Content == {<<r.table, r.author>> : r \in {q \in rows : q.table # "device"}}

NothingOverwritten == [][~DeleteAccount => Content \subseteq Content']_rows

(* What a backed-up delete removes of the user's tables is in the backup, unless   *)
(* it was written after the backup was taken.                                *)
BackupCoversDelete ==
  [][DeleteAccount /\ ~MayForce =>
       {r \in script.seen : r.table \in UserTables} \subseteq backup]_rows
=============================================================================

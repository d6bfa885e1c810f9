----------------------------- MODULE MCUserData -----------------------------
(* UserData for TLC: at most MaxRows rows and MaxCommands operator commands;     *)
(* wrong passwords, phones and pushes only before the first other row or command *)
(* (the throttle and the device tokens meet them nowhere).                      *)
EXTENDS UserData

CONSTANTS local, a, b, ours, MaxRows, MaxCommands

VARIABLE commands   \* operator commands run so far

Guessing == \E e \in Email : failures[e] # {} \/ guesses[e] # {}

Phones == sending # {} \/ \E r \in rows : r.table = "device"

BoundedInit == Init /\ Cardinality(rows) <= 1 /\ commands = 0

BoundedNext ==
  /\ \/ Command /\ commands < MaxCommands /\ commands' = commands + 1
     \/ AuthNext /\ UNCHANGED <<dataVars, commands>>
     \/ DataNext /\ UNCHANGED commands
  /\ Cardinality(rows') <= MaxRows
  /\ Guessing' => rows' = {} /\ commands' = 0
  /\ Phones' => commands' = 0 /\ Cardinality(rows') <= 1

BoundedSpec == BoundedInit /\ [][BoundedNext]_<<vars, commands>>
=============================================================================

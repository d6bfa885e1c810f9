\* Two users, one place: the cap is reached and the other user is refused; three requests may wait.
SPECIFICATION KickSpec
CONSTANTS
  NoUser = NoUser
  User = {u1, u2}
  MaxConcurrent = 1
  MaxWaiting = 3
INVARIANTS OneKickedPass KickedPassesBounded
 

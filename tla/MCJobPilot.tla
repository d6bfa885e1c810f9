----------------------------- MODULE MCJobPilot -----------------------------
(* JobPilot for TLC.  Every posting is covered by its own description; p1    *)
(* and p2, where both exist, are the same role found twice; "sms" is a job   *)
(* named in words, which covers p1.                                         *)
EXTENDS JobPilot

CONSTANTS p1, p2, sms

CoversOne == Job \X {p1}

CoversTwo == {p1, p2} \X {p1, p2}

(* Discovery passes beside a user who only logs jobs in chat: the part of     *)
(* Next in which two passes and two postings are affordable.                *)
PassesNext ==
  \/ \E t \in Ticker : PassActs(t)
  \/ LoopActs /\ "manual" \in {handler, handler'}
  \/ HandlerFails
  \/ Crash

PassesSpec == Init /\ [][PassesNext]_vars
=============================================================================

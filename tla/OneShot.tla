------------------------------ MODULE OneShot ------------------------------
(***************************************************************************)
(* What the B4 control promises about a formal attempt: it is released at  *)
(* most once, only a released and still running worker observes anything   *)
(* or publishes a success, an attempt whose worker has stopped is over for *)
(* good, and the verdict, once public, never changes.                      *)
(***************************************************************************)
VARIABLES phase,    \* "idle", "released", "observed" or "ended"
          verdict   \* "none", "success" or "failure"

Init == phase = "idle" /\ verdict = "none"

\* The release finds a waiting worker, or one that has given up already.
Release ==
  /\ phase = "idle"
  /\ phase' \in {"released", "ended"}
  /\ UNCHANGED verdict

\* The first treatment observation consumes the attempt.
Observe ==
  /\ phase = "released" /\ verdict = "none"
  /\ phase' = "observed"
  /\ UNCHANGED verdict

\* The worker stops, whether it has finished or not.
End ==
  /\ phase \in {"released", "observed"}
  /\ phase' = "ended"
  /\ UNCHANGED verdict

Publish(v) ==
  /\ verdict = "none"
  /\ v = "success" => phase = "observed"
  /\ verdict' = v
  /\ UNCHANGED phase

Next == Release \/ Observe \/ End \/ \E v \in {"success", "failure"} : Publish(v)

Spec == Init /\ [][Next]_<<phase, verdict>>
=============================================================================

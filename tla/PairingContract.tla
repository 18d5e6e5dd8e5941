-------------------------- MODULE PairingContract --------------------------
(***************************************************************************)
(* What pairing promises an app and its administrator, whatever the box    *)
(* does inside (the comment that opens pkg/litefake/pairing.go): a request *)
(* is pending until it is approved, rejected or expired, every change of   *)
(* its phase is one of the arrows below, and the token of an approved      *)
(* request is handed out once.                                             *)
(***************************************************************************)
EXTENDS Naturals

CONSTANT Requests

VARIABLES
  phase,   \* where each request is
  handed   \* how often its token has been handed out

Arrows ==
  {<<"new", "pending">>,
   <<"pending", "approved">>, <<"pending", "rejected">>, <<"pending", "expired">>,
   <<"approved", "given">>} \cup
  ({"pending", "approved", "given", "rejected", "expired"} \X {"gone"})

Init == /\ phase = [r \in Requests |-> "new"]
        /\ handed = [r \in Requests |-> 0]

\* Several requests may change at once, as time passes for all of them.
Step ==
  /\ phase' \in [Requests ->
       {"new", "pending", "approved", "given", "rejected", "expired", "gone"}]
  /\ \A r \in Requests :
       /\ phase'[r] # phase[r] => <<phase[r], phase'[r]>> \in Arrows
       /\ handed'[r] = handed[r] +
            (IF phase[r] = "approved" /\ phase'[r] = "given" THEN 1 ELSE 0)

Spec == Init /\ [][Step]_<<phase, handed>>
=============================================================================

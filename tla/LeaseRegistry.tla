---------------------------- MODULE LeaseRegistry ----------------------------
(***************************************************************************)
(* What the tracker promises about leases, whatever the handlers do: a     *)
(* lease is granted once, to one ticket that holds no other, and once it   *)
(* has ended it is never held again.  A step may end the leases of several *)
(* tickets (a sweep) and grant one (the claim that ran the sweep).         *)
(***************************************************************************)
EXTENDS Integers

CONSTANTS Tickets, MaxLeases

VARIABLES holds,   \* the lease a ticket holds, 0 for none
          ended,   \* the leases that have ended
          issued   \* how many leases have been granted

lvars == <<holds, ended, issued>>

LInit == /\ holds = [t \in Tickets |-> 0]
         /\ ended = {}
         /\ issued = 0

Held(S) == {holds[t] : t \in S}

Holders(S) == \A t \in S : holds[t] # 0

(* The holders of S lose their leases.                                     *)
End(S) == /\ Holders(S)
          /\ ended' = ended \cup Held(S)
          /\ holds' = [t \in Tickets |-> IF t \in S THEN 0 ELSE holds[t]]
          /\ UNCHANGED issued

(* As End(S), and ticket g, which has no lease or has just lost it, is     *)
(* granted a new one.                                                      *)
Grant(S, g) ==
    /\ Holders(S)
    /\ g \in S \/ holds[g] = 0
    /\ issued < MaxLeases
    /\ issued' = issued + 1
    /\ ended' = ended \cup Held(S)
    /\ holds' = [t \in Tickets |-> IF t = g THEN issued + 1
                                   ELSE IF t \in S THEN 0 ELSE holds[t]]

LNext == \E S \in SUBSET Tickets : End(S) \/ \E g \in Tickets : Grant(S, g)

LSpec == LInit /\ [][LNext]_lvars
=============================================================================

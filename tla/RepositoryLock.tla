---------------------------- MODULE RepositoryLock ----------------------------
(***************************************************************************)
(* What a reservation promises: a supervisor owns at most one unfinished   *)
(* ticket, and two tickets owned under one hostname never name a common    *)
(* repository.                                                             *)
(***************************************************************************)
CONSTANTS Tickets, Supervisors, HostNames, ReposOf, NoOwner

VARIABLE owner   \* who owns a ticket and on which host, or NoOwner

RInit == owner = [t \in Tickets |-> NoOwner]

Take(t, s, h) ==
    /\ owner[t] = NoOwner
    /\ owner' = [owner EXCEPT ![t] = [sup |-> s, host |-> h]]
    /\ \A u \in Tickets : owner[u] # NoOwner =>
         /\ owner[u].sup # s
         /\ owner[u].host = h => ReposOf[u] \cap ReposOf[t] = {}

Give(t) == owner[t] # NoOwner /\ owner' = [owner EXCEPT ![t] = NoOwner]

RNext == \E t \in Tickets :
            \/ Give(t)
            \/ \E s \in Supervisors, h \in HostNames : Take(t, s, h)

RSpec == RInit /\ [][RNext]_owner
=============================================================================

----------------------------- MODULE OneTimeUse -----------------------------
(***************************************************************************)
(* What the server promises about anything it hands out for one use only:  *)
(* an authorization code, a request_uri.  A ticket is usable until one     *)
(* request claims it or it is withdrawn; a claim is delivered or lost; and *)
(* a ticket never becomes usable or claimable a second time.  It does not  *)
(* say who the requests are, how many there are or what a table holds.     *)
(***************************************************************************)
CONSTANT Tickets

VARIABLE status

\* Each ticket's place in its life.
Statuses == {"none", "usable", "claimed", "delivered", "spent"}

Init == status = [t \in Tickets |-> "none"]

Move(t, from, to) ==
    /\ status[t] = from
    /\ status' = [status EXCEPT ![t] = to]

Offer(t) == Move(t, "none", "usable")

\* The one request that may go on.
Claim(t) == Move(t, "usable", "claimed")

\* Used up by a request that gets nothing for it.
Withdraw(t) == Move(t, "usable", "spent")

Deliver(t) == Move(t, "claimed", "delivered")

\* The request that claimed it failed or died.
Lose(t) == Move(t, "claimed", "spent")

Next == \E t \in Tickets :
    Offer(t) \/ Claim(t) \/ Withdraw(t) \/ Deliver(t) \/ Lose(t)

Spec == Init /\ [][Next]_status

=============================================================================

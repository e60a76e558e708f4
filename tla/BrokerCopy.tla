----------------------------- MODULE BrokerCopy -----------------------------
(* What the mirror of one broker account promises: after every sync its live *)
(* records are exactly the records of one reading of the broker's history,   *)
(* each as many times as that reading had it, with everything the reading    *)
(* said of it. Readings may overtake one another; none is ever mixed with    *)
(* another, or with what the mirror held before.                             *)
EXTENDS Bags

CONSTANTS Runs,      \* syncs that may be under way at the same time
          NoReading  \* what a run holds that has read nothing

VARIABLES copy,      \* the live records of the mirror, a bag
          heard,     \* the reading each run holds, or NoReading
          authorized \* the connection still exists

copyvars == <<copy, heard, authorized>>

Init == /\ copy = EmptyBag
        /\ heard = [r \in Runs |-> NoReading]
        /\ authorized = TRUE

(* A run reads the history, whatever it is by then, or gives its reading up. *)
Hear(r) == /\ IsABag(heard'[r])
           /\ \A q \in Runs \ {r} : heard'[q] = heard[q]
           /\ UNCHANGED <<copy, authorized>>

Replace(r) == /\ authorized
              /\ heard[r] # NoReading
              /\ copy' = heard[r]
              /\ heard' = [heard EXCEPT ![r] = NoReading]
              /\ UNCHANGED authorized

Forget == /\ authorized
          /\ authorized' = FALSE
          /\ copy' = EmptyBag
          /\ UNCHANGED heard

Next == \/ \E r \in Runs : Hear(r) \/ Replace(r)
        \/ Forget

Spec == Init /\ [][Next]_copyvars
=============================================================================

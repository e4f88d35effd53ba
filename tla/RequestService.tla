--------------------------- MODULE RequestService ---------------------------
(***************************************************************************)
(* What the server promises about requests: each one it is asked is        *)
(* answered at most once, and in the end it is answered or the server is   *)
(* closed.  Requests implements it.                                        *)
(***************************************************************************)
CONSTANT RequestIds

VARIABLES status, open

TypeOK == /\ status \in [RequestIds -> {"unasked", "pending", "answered"}]
          /\ open \in BOOLEAN

Init == status = [r \in RequestIds |-> "unasked"] /\ open = TRUE

Ask(r) == /\ open /\ status[r] = "unasked"
          /\ status' = [status EXCEPT ![r] = "pending"]
          /\ UNCHANGED open

Answer(r) == /\ open /\ status[r] = "pending"
             /\ status' = [status EXCEPT ![r] = "answered"]
             /\ UNCHANGED open

Close == open /\ open' = FALSE /\ UNCHANGED status

Next == Close \/ \E r \in RequestIds : Ask(r) \/ Answer(r)

Spec == Init /\ [][Next]_<<status, open>>

EventuallyAnswered ==
  \A r \in RequestIds : status[r] = "pending" ~> (status[r] = "answered" \/ ~open)
=============================================================================

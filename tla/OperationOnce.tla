--------------------------- MODULE OperationOnce ---------------------------
(***************************************************************************)
(* What the command surface promises a client that resends: an operation   *)
(* identity is settled once, for one payload, and every answer that names  *)
(* the operation's own outcome names that one (T1-N2).                     *)
(***************************************************************************)
CONSTANTS Calls,       \* requests a client sends, resends included
          Ops,         \* operation identities
          OpOf,        \* the identity a call carries
          PayloadOf    \* the body it carries

VARIABLES settled,     \* what each identity came to
          told         \* what each call was answered

None == [outcome |-> "none"]
Outcomes == {"applied", "refused"}

Init == /\ settled = [o \in Ops |-> None]
        /\ told = [c \in Calls |-> "none"]

\* A call settles an identity nothing has settled yet.
Settle(c) == /\ settled[OpOf[c]] = None
             /\ \E a \in Outcomes :
                  settled' = [settled EXCEPT ![OpOf[c]] = [outcome |-> a, payload |-> PayloadOf[c]]]
             /\ UNCHANGED told

\* An outcome is only answered as it was settled; any other answer settles nothing.
Tell(c, a) == /\ told[c] = "none"
              /\ a \in Outcomes =>
                   settled[OpOf[c]] = [outcome |-> a, payload |-> PayloadOf[c]]
              /\ a = "reused" => /\ settled[OpOf[c]] # None
                                 /\ settled[OpOf[c]].payload # PayloadOf[c]
              /\ told' = [told EXCEPT ![c] = a]
              /\ UNCHANGED settled

Next == \E c \in Calls :
          \/ Settle(c)
          \/ \E a \in Outcomes \cup {"reused", "withheld", "later", "fault", "lost"} : Tell(c, a)

Spec == Init /\ [][Next]_<<settled, told>>
===========================================================================

------------------------ MODULE MCOperationRegister ------------------------
(***************************************************************************)
(* OperationRegister for TLC: a person's request, its resend and one that  *)
(* reuses its identity for another body; an agent's request and its resend *)
(* beside the person's; or an unaudited command on a person's own rows and *)
(* its resend.                                                             *)
(***************************************************************************)
EXTENDS OperationRegister

Resent == {"c1", "c2", "c3"}
Agents == {"c4", "c5"}
Own == {"c6", "c7"}

OpOfCall == [c \in Calls |-> CASE c \in Resent -> "op"
                               [] c \in Agents -> "agent op"
                               [] OTHER -> "own op"]
PayloadOfCall == [c \in Calls |-> IF c = "c3" THEN "changed" ELSE "body"]
EntryOfCall == [c \in Calls |-> IF c \in Agents THEN "agent" ELSE "person"]
AuditedCalls == Calls \ Own

\* A call once sent stays sent, and only sending one leaves an instance: what is
\* fair of the calls already sent is kept whole.
Sent == {c \in Calls : phase[c] # "unsent"}

EndedOf == {part[1] : part \in ended}

\* Resends of one body, another body beside them, an agent's, a command that tells nothing,
\* and a person's write beside either, while parts of the standing in question end.
Instances ==
  \/ Sent \subseteq Resent /\ faults + turns = 0
  \/ Sent \subseteq {"c1", "c2"} /\ turns = 0
  \/ Sent \subseteq {"c1", "c2"} /\ EndedOf \subseteq {"person"} /\ faults + turns <= 1
  \/ Sent \subseteq {"c1"} /\ EndedOf \subseteq {"person"}
  \/ Sent \subseteq {"c1", "c3"} /\ EndedOf \subseteq {"person"} /\ faults + turns <= 1
  \/ Sent \subseteq Agents /\ EndedOf \subseteq {"agent"} /\ faults + turns <= 2
  \/ Sent \subseteq Own /\ EndedOf \subseteq {"person"} /\ faults + turns <= 2
  \/ Sent \subseteq {"c1", "c4"} /\ faults = 0 /\ turns <= 1
  \/ Sent \subseteq {"c1", "c6"} /\ EndedOf \subseteq {"person"} /\ faults = 0 /\ turns <= 1
===========================================================================

-------------------------- MODULE ConversationLife --------------------------
(* What a conversation promises those who take part in it: two agents begin  *)
(* it, others may join, and it loses participants while at least one stays.  *)
(* It ends once and for all; the moment it ends, a note is due to everybody  *)
(* who is still in it, and to nobody else.                                   *)
CONSTANTS Ids, Agents

VARIABLES
  phase,     \* of each conversation: "none", "live" or "over"
  members,   \* who takes part in it, or took part when it ended
  noted      \* the agents to whom it has left a note

LifeInit ==
  /\ phase = [i \in Ids |-> "none"]
  /\ members = [i \in Ids |-> {}]
  /\ noted = [i \in Ids |-> {}]

Rest(i) == phase'[i] = phase[i] /\ members'[i] = members[i] /\ noted'[i] = noted[i]

Begin(i) ==
  /\ phase[i] = "none" /\ phase'[i] = "live"
  /\ \E a, b \in Agents : a # b /\ members'[i] = {a, b}
  /\ noted'[i] = {}

Come(i) ==
  /\ phase[i] = "live" /\ phase'[i] = "live"
  /\ members[i] \subseteq members'[i]
  /\ noted'[i] = noted[i]

Go(i) ==
  /\ phase[i] = "live" /\ phase'[i] = "live"
  /\ members'[i] \subseteq members[i] /\ members'[i] # {}
  /\ noted'[i] = noted[i]

End(i) ==
  /\ phase[i] = "live" /\ phase'[i] = "over"
  /\ members'[i] = members[i]
  /\ noted'[i] = members[i]

\* One turn of the program may touch several conversations.
LifeNext == \A i \in Ids : Rest(i) \/ Begin(i) \/ Come(i) \/ Go(i) \/ End(i)

LifeSpec == LifeInit /\ [][LifeNext]_<<phase, members, noted>>
=============================================================================

---------------------------- MODULE MessageLife ----------------------------
(***************************************************************************)
(* What the messenger promises for a message, whoever else sends, deletes, *)
(* logs in or out: it is on its way once, it is handed to its receiver at  *)
(* most once and only on its way, it comes to rest in a history with the   *)
(* status that says whether it was handed over, it does not change there,  *)
(* and what is deleted never returns.  Only the end of the process loses   *)
(* messages.                                                               *)
(***************************************************************************)
EXTENDS Naturals, Sequences

VARIABLE life  \* by message id: where the message is, how often it was
               \* handed over, and its status

Stages == {"sending", "stored", "erased", "lost"}
Message == [at : Stages, handed : {0, 1}, status : {"Sent", "Delivered"}]

Built == [at |-> "sending", handed |-> 0, status |-> "Sent"]
Lost == [at |-> "lost", handed |-> 0, status |-> "Sent"]

Init == life = <<>>

Build == life' = Append(life, Built)

HandOver(id) ==
  /\ life[id] = Built
  /\ life' = [life EXCEPT ![id].handed = 1, ![id].status = "Delivered"]

Store(id) ==
  /\ life[id].at = "sending"
  /\ life' = [life EXCEPT ![id].at = "stored"]

DeleteForAll(id) ==
  /\ life[id].at = "stored"
  /\ life' = [life EXCEPT ![id].at = "erased"]

End == life' = [id \in DOMAIN life |-> Lost]

Next ==
  \/ Build
  \/ \E id \in DOMAIN life : HandOver(id) \/ Store(id) \/ DeleteForAll(id)
  \/ End

Spec == Init /\ [][Next]_life

=============================================================================

------------------------------ MODULE EventQueue ------------------------------
(* What event storage promises: an event that was committed is sent, once and in *)
(* the order of commits.  Only a reboot loses events, and it loses the newest;   *)
(* NV storage that fails, which loses the oldest; and deep sleep, from which the *)
(* newest come back as they were saved: one committed since is lost, and one     *)
(* sent since is sent again.                                                     *)
EXTENDS Naturals, Sequences, SequencesExt

CONSTANT Event

VARIABLES queue,  \* committed, not yet sent, oldest first
          sent,   \* sent and marked read, oldest first
          losses, \* reboots, sleeps and failures so far
          saved   \* the newest of the queue when deep sleep was prepared

Init == queue = <<>> /\ sent = <<>> /\ losses = 0 /\ saved = <<>>

Commit(e) == /\ e \notin ToSet(queue \o sent)
             /\ queue' = Append(queue, e)
             /\ UNCHANGED <<sent, losses, saved>>

Send(k) == /\ sent' = sent \o SubSeq(queue, 1, k)
           /\ queue' = SubSeq(queue, k + 1, Len(queue))
           /\ UNCHANGED <<losses, saved>>

Save(k) == /\ saved' = SubSeq(queue, k + 1, Len(queue))
           /\ UNCHANGED <<queue, sent, losses>>

Wake(k) == /\ queue' = SubSeq(queue, 1, k) \o saved
           /\ losses' = losses + 1
           /\ saved' = <<>>
           /\ UNCHANGED sent

Reboot(k) == /\ queue' = SubSeq(queue, 1, k)
             /\ losses' = losses + 1
             /\ saved' = <<>>
             /\ UNCHANGED sent

Fail(k) == /\ queue' = SubSeq(queue, k + 1, Len(queue))
           /\ losses' = losses + 1
           /\ UNCHANGED <<sent, saved>>

Next == \/ \E e \in Event : Commit(e)
        \/ \E k \in 0..Len(queue) : Send(k) \/ Save(k) \/ Wake(k) \/ Reboot(k) \/ Fail(k)

Spec == Init /\ [][Next]_<<queue, sent, losses, saved>>
===============================================================================

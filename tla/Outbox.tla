------------------------------- MODULE Outbox -------------------------------
(* What draining promises: each source's messages reach the server whole, once *)
(* and in order, and only while their source is enabled.                       *)
EXTENDS Sequences

CONSTANTS Source, Message

VARIABLES queue, \* queue[s]: messages of s waiting, oldest first
          sent,  \* sent[s]: messages of s the server has, oldest first
          mask   \* sources enabled

Init == /\ queue = [s \in Source |-> <<>>]
        /\ sent = [s \in Source |-> <<>>]
        /\ mask = Source

Record(s, m) == /\ queue' = [queue EXCEPT ![s] = Append(@, m)]
                /\ UNCHANGED <<sent, mask>>

Send(s) == /\ s \in mask
           /\ queue[s] # <<>>
           /\ sent' = [sent EXCEPT ![s] = Append(@, Head(queue[s]))]
           /\ queue' = [queue EXCEPT ![s] = Tail(@)]
           /\ UNCHANGED mask

Enable(m) == mask' = m /\ UNCHANGED <<queue, sent>>

Next == \/ \E s \in Source : Send(s) \/ \E m \in Message : Record(s, m)
        \/ \E m \in SUBSET Source : Enable(m)

Spec == Init /\ [][Next]_<<queue, sent, mask>>
=============================================================================

---------------------------- MODULE MessageQueue ----------------------------
(***************************************************************************)
(* What the receive queue between the MQTT client and the parser promises. *)
(* Every message is answered when it arrives: it is accepted, or refused   *)
(* when Depth messages are held.  Those accepted are handled once each, in *)
(* their order; one that is being handled keeps its place until it is done.*)
(* Closing the session forgets the messages not yet handled, and says so.  *)
(* Once the queue is broken nothing is promised any more.                  *)
(***************************************************************************)
EXTENDS Naturals, Sequences

CONSTANTS Depth, Message

VARIABLES
  queue,     \* accepted and not yet handed to the parser, oldest first
  busy,      \* a message is being handled
  answered,  \* messages are numbered: those up to here were accepted or refused
  refused,   \* messages refused
  forgotten, \* those up to here are not waited for any more
  handled,   \* handed to the parser, oldest first
  broken     \* the two sides do not agree on what is in the queue

vars == <<queue, busy, answered, refused, forgotten, handled, broken>>

Init ==
  /\ queue = <<>> /\ busy = FALSE
  /\ answered = 0 /\ refused = {} /\ forgotten = 0
  /\ handled = <<>> /\ broken = FALSE

Places == Len(queue) + (IF busy THEN 1 ELSE 0)

Accept ==
  /\ answered + 1 \in Message /\ Places < Depth
  /\ answered' = answered + 1
  /\ queue' = Append(queue, answered + 1)
  /\ UNCHANGED <<busy, refused, forgotten, handled>>

Refuse ==
  /\ answered + 1 \in Message /\ Places = Depth
  /\ answered' = answered + 1
  /\ refused' = refused \cup {answered + 1}
  /\ UNCHANGED <<queue, busy, forgotten, handled>>

Handle ==
  /\ queue # <<>> /\ ~busy
  /\ queue' = Tail(queue) /\ busy' = TRUE
  /\ handled' = Append(handled, Head(queue))
  /\ UNCHANGED <<answered, refused, forgotten>>

Done == busy /\ busy' = FALSE /\ UNCHANGED <<queue, answered, refused, forgotten, handled>>

Close ==
  /\ ~busy
  /\ queue' = <<>> /\ forgotten' = answered
  /\ UNCHANGED <<busy, answered, refused, handled>>

Works == ~broken' /\ (Accept \/ Refuse \/ Handle \/ Done \/ Close)
Breaks == broken'

Next == Works \/ Breaks

Spec == Init /\ [][Next]_vars
=============================================================================

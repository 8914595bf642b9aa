------------------------- MODULE MCEndpointControl --------------------------
(* Constants for checking EndpointControl with TLC.                        *)
EXTENDS EndpointControl

Set(n, v) == [node |-> n, value |-> v]

\* No element or one, that of the LED included; both loads, or one load switched
\* there and back; a load and the LED, which ends the message; and more than the
\* record has room for.
ShortOrTooLong ==
  {<<>>} \cup { <<Set(n, v)>> : n \in Endpoints, v \in Level }
    \cup { <<Set(1, v), Set(2, w)>> : v \in Level, w \in Level }
    \cup { <<Set(0, 1)>>, <<Set(1, 1), Set(1, 0)>>, <<Set(2, 1), Set(0, 1)>>,
           <<Set(1, 1), Set(2, 1), Set(1, 1)>> }
=============================================================================

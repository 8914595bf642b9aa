--------------------------- MODULE MCRegistration ---------------------------
(* Constants for checking Registration with TLC.                           *)
EXTENDS Registration

AllRequests  == RequestKinds
GoodBlank    == {"good", "blank"}

AcceptRefuse == {200, 400}

AllMessages  == MessageKinds
Duplicates   == {"duplicate"}

AllPresses   == PressKinds
OnlyRetries  == {"retry"}

\* Bound: once a long press has zeroed casa_ctx during an attempt, no click
\* and no message but the answers owed.
QuietAfterDrop == dropped => gpio # "status" /\ rx \notin {"act", "control"}
=============================================================================

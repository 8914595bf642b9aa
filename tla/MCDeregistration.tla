-------------------------- MODULE MCDeregistration --------------------------
(* Constants for checking Deregistration with TLC.                         *)
EXTENDS Deregistration

\* One code of each class: agreeing, an error taken for it, refusing, without a case.
SomeCodes   == {200, 500, 404, 418}
AllMessages == MessageKinds
AllPresses  == {"click", "hold"}

\* Nothing goes on but the de-registration: no other message, no click, no code without
\* a case, no context dropped under its timer and no pointer used that is freed.
Calm ==
  /\ ~dropped
  /\ rx \in {"poll", "dereg", "response", "starting", "subscribing"}
  /\ gpio = "poll"
  /\ dereg # Null => dereg.status \in Accepting \cup Refusing \cup {0}

\* A de-registration that nothing else disturbs comes to an end
\* (de_registration.h:32), and the buttons come back, once the user lets them go.
CalmDeregSettles == ([]Calm /\ <>[][~GpioHold]_vars) => DeregSettles
=============================================================================

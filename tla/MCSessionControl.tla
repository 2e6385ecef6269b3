-------------------------- MODULE MCSessionControl --------------------------
(* A person, a bot, and the anonymous default actor share one session.      *)
EXTENDS SessionControl

CONSTANTS alice, bot, anon

MCIds == {alice, bot, anon}

MCAnonymous == [id |-> anon, kind |-> "unknown"]

MCActors == { [id |-> alice, kind |-> "human"],
              [id |-> bot,   kind |-> "automation"],
              MCAnonymous }
=============================================================================

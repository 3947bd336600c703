-------------------------- MODULE MCStreamControls --------------------------
(* A small instance of StreamControls for TLC. *)
EXTENDS StreamControls

CONSTANTS s1, s2

TwoStreams == {s1, s2}

\* run_async_controls
AsyncControls == <<"held-tail", "body-wait", "slow-consumer">>
=============================================================================

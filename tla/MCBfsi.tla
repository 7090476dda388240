------------------------------- MODULE MCBfsi -------------------------------
(* The values of the code: eight samples to a chunk, a transmit channel 14    *)
(* bytes (0x0e) ahead of the receive channel, as the comment in               *)
(* isr_write_processing records.                                              *)
EXTENDS Bfsi

\* What the properties tell apart.  The statistics steer nothing: it matters only
\* whether a step changes one and, while Balanced says something, by how much a pair
\* differs.  What has passed since the last interrupt matters to LostIsSeen alone.
View ==
  <<port, rx, done, handler, frozen, resetting, entered, tardy, wiped,
    IF entered THEN wrapped ELSE FALSE,
    IF entered /\ ~wrapped THEN <<since, ends>> ELSE <<>>,
    IF tardy \/ wiped \/ starts > 1
    THEN <<>>
    ELSE <<(rfirst - rsecond) % CountMod, (wfirst - wsecond) % CountMod>> >>
=============================================================================

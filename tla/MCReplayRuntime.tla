-------------------------- MODULE MCReplayRuntime --------------------------
(* ReplayRuntime with a handler for candles, a handler for trades that may   *)
(* answer in two ways, and registries with and without the second.           *)
EXTENDS ReplayRuntime

MCSupports == <<{"candle"}, {"trade"}>>

MCAnswers == << [candle |-> {<<"a">>}], [trade |-> {<<"x">>, <<"y">>}] >>

Good ==
    [planned |-> TRUE, built |-> TRUE, fingerprinted |-> TRUE, timeline_at |-> 1,
     fingerprint_at |-> 1, manifest_at |-> 1, events |-> <<"candle", "trade">>]

\* A timeline, an empty one, and ones that create_run refuses.
MCHeld ==
    << Good, [Good EXCEPT !.events = << >>], [Good EXCEPT !.built = FALSE],
       [Good EXCEPT !.timeline_at = 2] >>
=============================================================================

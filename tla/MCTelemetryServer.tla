-------------------------- MODULE MCTelemetryServer --------------------------
(***************************************************************************)
(* Two clients and packets of one and two symbols; three symbols in a row  *)
(* do not parse.  The first client sends enough for two lines and a part.  *)
(***************************************************************************)
EXTENDS TelemetryServer

CONSTANTS LongStream, ShortStream

MCClients == {"c1", "c2"}
MCWellFormed == {<<"x">>, <<"x", "x">>}
MCMaxSent(c) == IF c = "c1" THEN LongStream ELSE ShortStream
=============================================================================

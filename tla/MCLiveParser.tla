----------------------------- MODULE MCLiveParser -----------------------------
(***************************************************************************)
(* Instances of LiveParser.                                                *)
(***************************************************************************)
EXTENDS LiveParser

MCPlain == {"0", "1", "2", "3", "8", "20", "text"}
MCstoi ==
  ("-1" :> -1) @@ ("0" :> 0) @@ ("1" :> 1) @@ ("2" :> 2) @@ ("3" :> 3) @@ ("8" :> 8)
    @@ ("20" :> 20)

(* The most workers, packets and stops; and a capture only signals end *)
Busy == {<<"J", "2", "D", "1", "N", "2">>, <<"workers", "2", "p", "8", "payload", "3">>}

(* Captures of one packet, with repeated options, options without effect,  *)
(* and long options: index takes the next word                             *)
Accepted ==
  {<<"p", "20", "p", "0", "N", "1", "S", "2", "c", "2", "W", "text">>,
   <<"index", "J", "2", "N", "1">>,
   <<"text", "T", "C", "V", "I", "F", "text", "m", "text", "x", "1", "num", "1">>,
   <<"J", "3", "J", "1", "device", "text", "duration", "-1", "max", "8", "N", "1">>,
   <<"N", "0", "D", "1">>,
   <<"p", "-1", "N", "1">>}

Refused ==
  {<<>>, <<"J", "0">>, <<"J", "-1">>, <<"S", "0">>, <<"S", "3">>, <<"N", "1", "h">>, <<"d", "text">>,
   <<"partition", "1">>, <<"N", "1", "J">>, <<"D", "N", "1">>, <<"-1">>}

MCCommandLines == Busy \cup Accepted \cup Refused

(* One packet more than the consumer gets to see *)
RestCommandLines == {<<"D", "1", "N", "2">>}
===============================================================================

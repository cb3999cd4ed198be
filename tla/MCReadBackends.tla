---- MODULE MCReadBackends ----
(* ReadBackends for TLC: two calls whose reads fall inside, across the end of  *)
(* and outside the file, one of them of no bytes, and a call of no reads; two  *)
(* processes and two reading tasks.                                            *)
EXTENDS ReadBackends, TLC

CONSTANTS c1, c2, c3, r1, r2, r3

MCCalls == c1 :> <<r1, r2>> @@ c2 :> <<r3>> @@ c3 :> <<>>
MCBegin == r1 :> 0 @@ r2 :> 3 @@ r3 :> 2
MCSize == r1 :> 2 @@ r2 :> 0 @@ r3 :> 2
====

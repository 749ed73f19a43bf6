------------------------- MODULE MCResultAverager -------------------------
(***************************************************************************)
(* Results files over two benchmarks, three allocators and the values -1,  *)
(* 0, 1 and 2, with the lines the parser skips or misreads.                *)
(***************************************************************************)
EXTENDS ResultAverager

MCSystems == {"deqalloc", "mimalloc", "jemalloc"}
MCValues == {"-1", "0", "1", "2"}
MCIntVal == ("-1" :> -1) @@ ("0" :> 0) @@ ("1" :> 1) @@ ("2" :> 2)
MCDigitStart == {"0", "1", "2"}

\* headers, records, a comment, an empty line, a lone number, a record with
\* a non-numeric value and a record whose system name starts with a digit
MCLines ==
  {<<"B">>, <<"C">>} \cup {<<s, v>> : s \in MCSystems, v \in MCValues} \cup
  {<<"#">>, <<>>, <<"1">>, <<"mimalloc", "x">>, <<"1", "2">>}
=============================================================================

--------------------------- MODULE AveragerReport ---------------------------
(***************************************************************************)
(* What parse_and_average of src/pop_experiments/process_results.py        *)
(* prints, stated over the whole results file in one step.  The line      *)
(* grammar (skipped lines, headers, records) is a parameter.              *)
(*                                                                         *)
(* A value counts for the benchmark of the last header above it.  The     *)
(* benchmarks are reported in the order of their first counted value; an *)
(* entry holds the floor mean of every allocator with values and the      *)
(* allocator other than deqalloc with the greatest mean, the first among  *)
(* equals in the order allocators were first seen (deqalloc and mimalloc  *)
(* first).  The report stops after the first benchmark whose improvement  *)
(* cannot be computed, with the exception that expression raises.         *)
(***************************************************************************)
EXTENDS Integers, Sequences, SequencesExt, FiniteSets

CONSTANTS
  Lines, MaxLines, IntVal, None,
  IsSkipped(_),   \* lines the parser ignores outright
  IsHeader(_),    \* benchmark header lines
  IsRecord(_)     \* "<system> <int>" lines

VARIABLES input, report, outcome

absvars == <<input, report, outcome>>

Deq == "deqalloc"

Idx == [k \in DOMAIN input |-> k]

\* the benchmark a line belongs to: the last header above it
Owner(k) ==
  LET hs == {j \in 1..(k - 1) : ~IsSkipped(input[j]) /\ IsHeader(input[j])}
  IN IF hs = {} THEN None ELSE input[Max(hs)][1]

\* line k is a value of benchmark Owner(k)
Counted(k) ==
  /\ ~IsSkipped(input[k]) /\ ~IsHeader(input[k])
  /\ Owner(k) # None /\ IsRecord(input[k])

\* the benchmarks, in the order of their first value
Benchmarks ==
  LET firsts == SelectSeq(Idx, LAMBDA k : Counted(k) /\
                   \A j \in 1..(k - 1) : Counted(j) => Owner(j) # Owner(k))
  IN [n \in DOMAIN firsts |-> Owner(firsts[n])]

\* the allocators, in the order they were first seen
AllocOrder ==
  LET firsts == SelectSeq(Idx, LAMBDA k : Counted(k) /\ input[k][1] \notin {Deq, "mimalloc"} /\
                   \A j \in 1..(k - 1) : Counted(j) => input[j][1] # input[k][1])
  IN <<Deq, "mimalloc">> \o [n \in DOMAIN firsts |-> input[firsts[n]][1]]

RefLines(b, s) == {k \in DOMAIN input : Counted(k) /\ Owner(k) = b /\ input[k][1] = s}

\* the greatest q with q * n <= sum: the floor of the mean
RefAverage(b, s) ==
  LET n     == Cardinality(RefLines(b, s))
      sum   == SumFunction([k \in RefLines(b, s) |-> IntVal[input[k][2]]])
      bound == IF sum >= 0 THEN sum ELSE -sum
  IN CHOOSE q \in (-bound - 1)..bound : q * n <= sum /\ sum < (q + 1) * n

\* the improvement expression's exception for an entry, or "ok"
Failure(e) ==
  CASE Deq \notin DOMAIN e.avgs -> "KeyError"
    [] e.best = None            -> "KeyError"
    [] e.avgs[e.best] = 0       -> "ZeroDivisionError"
    [] OTHER                    -> "ok"

Entry(b) ==
  LET avgs   == [s \in {s \in ToSet(AllocOrder) : RefLines(b, s) # {}} |-> RefAverage(b, s)]
      others == SelectSeq(AllocOrder, LAMBDA s : s \in DOMAIN avgs /\ s # Deq)
      top    == SelectSeq(others, LAMBDA s : \A t \in ToSet(others) : avgs[t] <= avgs[s])
      best   == IF top = <<>> THEN None ELSE Head(top)
  IN [benchmark |-> b, avgs |-> avgs, best |-> best,
      completed |-> Failure([avgs |-> avgs, best |-> best]) = "ok"]

Entries == [n \in DOMAIN Benchmarks |-> Entry(Benchmarks[n])]

Init ==
  /\ \E n \in 0..MaxLines : input \in [1..n -> Lines]
  /\ report = <<>>
  /\ outcome = "running"

\* the whole report, up to and including the first failing benchmark
Run ==
  /\ outcome = "running"
  /\ LET failed == {n \in DOMAIN Entries : ~Entries[n].completed}
         last   == IF failed = {} THEN Len(Entries) ELSE Min(failed)
     IN /\ report' = SubSeq(Entries, 1, last)
        /\ outcome' = IF failed = {} THEN "ok" ELSE Failure(Entries[last])
  /\ UNCHANGED input

\* the report is printed in one step, if at all (the stuttering disjunct is
\* written first so that TLC tries it before evaluating Run)
SafetySpec == Init /\ [][UNCHANGED absvars \/ Run]_absvars

Spec == SafetySpec /\ WF_absvars(Run)

=============================================================================

--------------------------- MODULE ResultAverager ---------------------------
(***************************************************************************)
(* src/pop_experiments/process_results.py: parse_and_average reads a       *)
(* results file of benchmark header lines and "<allocator> <int>" lines,   *)
(* collects the values per benchmark and allocator, then prints, per       *)
(* benchmark, the floor average of every allocator and the improvement of  *)
(* deqalloc over the best other allocator.                                 *)
(*                                                                         *)
(* A line is its token sequence line.split() after strip(); a benchmark    *)
(* header is a one-token line not starting with a digit.  The report loop  *)
(* is one step per benchmark: it prints the averages, then computes the    *)
(* improvement, which raises when an operand is missing or zero.           *)
(***************************************************************************)
EXTENDS Integers, Sequences, SequencesExt, FiniteSets

CONSTANTS
  Lines,        \* the lines a results file may contain, as token sequences
  MaxLines,     \* the longest results file
  IntVal,       \* token -> int(token), for the tokens int() accepts
  DigitStart,   \* the tokens whose first character is a digit
  None          \* Python's None

ASSUME MaxLines \in Nat

VARIABLES
  input,        \* the lines of the file
  i,            \* index of the next line the parsing loop reads
  current,      \* current_benchmark
  results,      \* results: benchmark -> allocator -> list of values
  benchmarks,   \* the keys of results in insertion order
  allocators,   \* the module-level allocators list
  r,            \* index in benchmarks of the next benchmark to report
  report,       \* what has been printed, one record per benchmark
  pc,           \* "parse", "report" or "done"
  outcome       \* "running", "ok", or the exception that ended the run

vars == <<input, i, current, results, benchmarks, allocators, r, report, pc, outcome>>

Inputs == UNION {[1..n -> Lines] : n \in 0..MaxLines}

Deq == "deqalloc"

(***************************************************************************)
(* The parsing loop, lines 17-36.                                          *)
(***************************************************************************)
\* is_number(s): int(s) succeeds (lines 6-11)
is_number(s) == s \in DOMAIN IntVal

\* empty and '#' lines are skipped (lines 19-21)
IsSkipped(line) == IF line = <<>> THEN TRUE ELSE line[1] = "#"

\* "not line[0].isdigit() and ' ' not in line" (line 23)
IsHeader(line) == Len(line) = 1 /\ line[1] \notin DigitStart

IsRecord(line) == Len(line) = 2 /\ is_number(line[2])

\* results[current_benchmark][system].append(int(val)), with the two
\* levels of defaultdict creating the missing entries (lines 34-36)
\* Faulty variant for mutation checks: a new benchmark entry starts with an
\* empty list and the first value is lost.
AddValueDropFirst(b, s, v) ==
  IF b \in DOMAIN results
  THEN IF s \in DOMAIN results[b]
       THEN [results EXCEPT ![b][s] = Append(@, v)]
       ELSE [results EXCEPT ![b] = (s :> <<v>>) @@ @]
  ELSE (b :> (s :> <<>>)) @@ results

AddValue(b, s, v) ==
  IF b \in DOMAIN results
  THEN IF s \in DOMAIN results[b]
       THEN [results EXCEPT ![b][s] = Append(@, v)]
       ELSE [results EXCEPT ![b] = (s :> <<v>>) @@ @]
  ELSE (b :> (s :> <<v>>)) @@ results

ParseLine ==
  /\ pc = "parse"
  /\ i <= Len(input)
  /\ LET line == input[i] IN
       \/ /\ IsSkipped(line)
          /\ UNCHANGED <<current, results, benchmarks, allocators>>
       \/ /\ ~IsSkipped(line)
          /\ IsHeader(line)
          /\ current' = line[1]
          /\ UNCHANGED <<results, benchmarks, allocators>>
       \/ /\ ~IsSkipped(line)
          /\ ~IsHeader(line)
          /\ (current = None \/ ~IsRecord(line))
          /\ UNCHANGED <<current, results, benchmarks, allocators>>
       \/ /\ ~IsSkipped(line)
          /\ ~IsHeader(line)
          /\ current # None
          /\ IsRecord(line)
          /\ allocators' = IF Contains(allocators, line[1]) THEN allocators
                           ELSE Append(allocators, line[1])
          /\ results' = AddValue(current, line[1], IntVal[line[2]])
          /\ benchmarks' = IF current \in DOMAIN results THEN benchmarks
                           ELSE Append(benchmarks, current)
          /\ UNCHANGED current
  /\ i' = i + 1
  /\ UNCHANGED <<input, r, report, pc, outcome>>

EndParse ==
  /\ pc = "parse"
  /\ i > Len(input)
  /\ pc' = "report"
  /\ UNCHANGED <<input, i, current, results, benchmarks, allocators, r, report, outcome>>

(***************************************************************************)
(* The report loop, lines 38-57, one benchmark per step.                   *)
(***************************************************************************)
\* sum(values) // len(values): Python floors the quotient
FloorDiv(a, b) == IF a >= 0 THEN a \div b ELSE -((-a + b - 1) \div b)

Average(vals) == FloorDiv(FoldLeft(LAMBDA x, y : x + y, 0, vals), Len(vals))

\* result_comparison[benchmark]: the average of every allocator with values
Averages(b) == [s \in DOMAIN results[b] |-> Average(results[b][s])]

\* Faulty variant for mutation checks: `<=` for `<`, the last of equals wins.
BestOtherLastOnTie(avgs) ==
  FoldLeft(LAMBDA acc, s :
             IF /\ s \in DOMAIN avgs
                /\ (acc.best = None \/ acc.avg <= avgs[s])
                /\ s # Deq
             THEN [best |-> s, avg |-> avgs[s]]
             ELSE acc,
           [best |-> None, avg |-> 0], allocators)

\* the loop over allocators keeping the best other system (lines 43-54)
BestOther(avgs) ==
  FoldLeft(LAMBDA acc, s :
             IF /\ s \in DOMAIN avgs
                /\ (acc.best = None \/ acc.avg < avgs[s])
                /\ s # Deq
             THEN [best |-> s, avg |-> avgs[s]]
             ELSE acc,
           [best |-> None, avg |-> 0], allocators)

\* the improvement expression of line 55, in its order of evaluation
Improvement(avgs, best) ==
  CASE Deq \notin DOMAIN avgs    -> "KeyError"
    [] best = None               -> "KeyError"
    [] avgs[best] = 0            -> "ZeroDivisionError"
    [] OTHER                     -> "ok"

ReportBenchmark ==
  /\ pc = "report"
  /\ r <= Len(benchmarks)
  /\ LET b    == benchmarks[r]
         avgs == Averages(b)
         best == BestOther(avgs).best
         res  == Improvement(avgs, best)
     IN /\ report' = Append(report, [benchmark |-> b, avgs |-> avgs,
                                     best |-> best, completed |-> res = "ok"])
        /\ \/ /\ res = "ok"
              /\ r' = r + 1
              /\ UNCHANGED <<pc, outcome>>
           \/ /\ res # "ok"
              /\ outcome' = res
              /\ pc' = "done"
              /\ UNCHANGED r
  /\ UNCHANGED <<input, i, current, results, benchmarks, allocators>>

EndReport ==
  /\ pc = "report"
  /\ r > Len(benchmarks)
  /\ pc' = "done"
  /\ outcome' = "ok"
  /\ UNCHANGED <<input, i, current, results, benchmarks, allocators, r, report>>

Init ==
  /\ input \in Inputs
  /\ i = 1
  /\ current = None
  /\ results = <<>>
  /\ benchmarks = <<>>
  /\ allocators = <<"deqalloc", "mimalloc">>
  /\ r = 1
  /\ report = <<>>
  /\ pc = "parse"
  /\ outcome = "running"

Next ==
  \/ ParseLine
  \/ EndParse
  \/ ReportBenchmark
  \/ EndReport

Spec == Init /\ [][Next]_vars /\ WF_vars(Next)

-----------------------------------------------------------------------------
(* Properties                                                              *)

TypeOK ==
  /\ input \in Inputs
  /\ i \in 1..(Len(input) + 1)
  /\ current \in {None} \cup {l[1] : l \in {m \in Lines : IsHeader(m)}}
  /\ benchmarks \in Seq(DOMAIN results)
  /\ ToSet(benchmarks) = DOMAIN results
  /\ \A b \in DOMAIN results : \A s \in DOMAIN results[b] :
        results[b][s] \in Seq(Range(IntVal)) /\ results[b][s] # <<>>
  /\ allocators \in Seq(STRING)
  /\ r \in 1..(Len(benchmarks) + 1)
  /\ Len(report) \in {r - 1, r}
  /\ pc \in {"parse", "report", "done"}
  /\ (pc = "done") <=> (outcome # "running")

\* The one-step description of the printed report (module AveragerReport),
\* under this module's line grammar; the report is what has been printed
\* once the run is over.
AveragerReportAbs == INSTANCE AveragerReport
  WITH report <- IF pc = "done" THEN report ELSE <<>>

\* The parsing loop and the report loop together implement the safety part
\* of AveragerReport: the finished report lists the benchmarks in the order
\* of their first value, each with the floor mean of every allocator's
\* values under all of that benchmark's headers and, as the comparison
\* base, the first greatest allocator other than deqalloc in the global
\* order allocators were first seen; it stops at the first benchmark whose
\* improvement raises, with that exception.
ImplementsAveragerReport == AveragerReportAbs!SafetySpec

=============================================================================

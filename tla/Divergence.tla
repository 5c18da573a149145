----------------------------- MODULE Divergence -----------------------------
(***************************************************************************)
(* The report of a batch that diverges from the table                      *)
(* (crates/host/src/pipeline/batch.rs and diagnostics.rs): the header the  *)
(* bisection found, and the fields of the two claims with the differing    *)
(* bytes marked.  A byte is its two hex digits; a wide field is written    *)
(* half by half, and leading zeros are greyed in the height only.          *)
(***************************************************************************)
EXTENDS Bisect

CONSTANTS
  HEX,     \* the bytes considered
  WIDE,    \* bytes of half a hash or a chain work (16)
  NARROW   \* bytes of the height (4)

ASSUME ReportAssumption ==
  /\ WIDE \in Nat \ {0} /\ NARROW \in Nat \ {0}
  /\ "00" \in HEX
  \* no mark can be mistaken for a byte, or a byte for the blank in its place
  /\ HEX \cap {"red", "green", "plain", "white", "[", "]", "  "} = {}

VARIABLE report   \* of one field: what was written, and of what

reportVars == <<vars, report>>

NoReport == <<>>
Modes    == {"Ansi", "Brackets"}

actual_start(mode)   == IF mode = "Ansi" THEN "red" ELSE "["
expected_start(mode) == IF mode = "Ansi" THEN "green" ELSE "["
end(mode)            == IF mode = "Ansi" THEN "plain" ELSE "]"
ZeroStart            == "white"

If(condition, mark) == IF condition THEN <<mark>> ELSE <<>>

-----------------------------------------------------------------------------
\* The loop body for a byte that is the same in both.
Same(acc, byte, mode) ==
  LET zero == acc.still_leading_zeros /\ byte = "00" /\ mode = "Ansi"
  IN  [actual_out |-> acc.actual_out
                        \o If(acc.in_mismatch_run, end(mode))
                        \o If(zero /\ ~acc.in_leading_zero_run, ZeroStart)
                        \o If(~zero /\ acc.in_leading_zero_run, "plain")
                        \o <<byte>>,
       expected_out |-> acc.expected_out \o If(acc.in_mismatch_run, end(mode)) \o <<"  ">>,
       in_mismatch_run |-> FALSE,
       in_leading_zero_run |-> zero,
       still_leading_zeros |-> zero]

\* A wrong variant: a run of zeros is not ended where the values part.
DifferInZeros(acc, act, exp, mode) ==
  [actual_out |-> acc.actual_out \o If(~acc.in_mismatch_run, actual_start(mode)) \o <<act>>,
   expected_out |-> acc.expected_out \o If(~acc.in_mismatch_run, expected_start(mode)) \o <<exp>>,
   in_mismatch_run |-> TRUE,
   in_leading_zero_run |-> FALSE,
   still_leading_zeros |-> FALSE]

Differ(acc, act, exp, mode) ==
  [actual_out |-> acc.actual_out
                    \o If(acc.in_leading_zero_run, "plain")
                    \o If(~acc.in_mismatch_run, actual_start(mode))
                    \o <<act>>,
   expected_out |-> acc.expected_out \o If(~acc.in_mismatch_run, expected_start(mode)) \o <<exp>>,
   in_mismatch_run |-> TRUE,
   in_leading_zero_run |-> FALSE,
   still_leading_zeros |-> FALSE]

highlight_with_expected_mode(expected, actual, mode, highlight_leading_zeros) ==
  LET start == [actual_out |-> <<>>, expected_out |-> <<>>, in_mismatch_run |-> FALSE,
                in_leading_zero_run |-> FALSE, still_leading_zeros |-> highlight_leading_zeros]
      Body(acc, i) == IF expected[i] = actual[i] THEN Same(acc, actual[i], mode)
                      ELSE Differ(acc, actual[i], expected[i], mode)
      acc[i \in 0..Len(actual)] == IF i = 0 THEN start ELSE Body(acc[i-1], i)
      last == acc[Len(actual)]
  IN  [actual |-> last.actual_out \o If(last.in_leading_zero_run, "plain")
                                  \o If(last.in_mismatch_run, end(mode)),
       expected |-> last.expected_out \o If(last.in_mismatch_run, end(mode))]

\* A line of the actual value, and one of the expected value where it differs.
Lines(actual, expected, mode, zeros) ==
  LET marked == highlight_with_expected_mode(expected, actual, mode, zeros)
  IN  [actual |-> marked.actual,
       expected |-> IF actual # expected THEN marked.expected ELSE <<>>]

push_claim_mismatch_field(actual, expected, mode) ==
  IF Len(actual) = 2 * WIDE
  THEN [half \in 1..2 |-> LET from == (half - 1) * WIDE + 1
                              to   == half * WIDE
                          IN  Lines(SubSeq(actual, from, to), SubSeq(expected, from, to),
                                    mode, FALSE)]
  ELSE <<Lines(actual, expected, mode, Len(actual) = NARROW)>>

\* simulate_expected_state gives up: the search is over, its cache is gone.
Write ==
  /\ pc = "reported"
  /\ \E bytes \in {2 * WIDE, NARROW}, mode \in Modes :
       \E actual, expected \in [1..bytes -> HEX] :
         /\ actual # expected
         /\ report' = [actual |-> actual, expected |-> expected, mode |-> mode,
                       lines |-> push_claim_mismatch_field(actual, expected, mode)]
  /\ pc' = "written"
  /\ replayed_states' = <<>>
  /\ UNCHANGED <<agrees, lo, hi>>

ReportInit == Init /\ report = NoReport

Search == Next /\ UNCHANGED report

ReportNext == Search \/ Write

\* One thread that waits for nothing, as in Bisect.
ReportSpec == ReportInit /\ [][ReportNext]_reportVars /\ WF_reportVars(Search)

-----------------------------------------------------------------------------
(* How a reader sees a line: its bytes, each with the mark it is under, and *)
(* whether marks open and close in turn.                                   *)
IsByte(token) == token \in HEX \cup {"  "}

Read(seen, token, mode) ==
  IF IsByte(token)
  THEN [seen EXCEPT !.bytes = Append(@, <<token, seen.mark>>)]
  ELSE [seen EXCEPT !.mark = token,
                    !.paired = IF token = end(mode) <=> seen.mark = end(mode) THEN FALSE ELSE @]

ReadLine(line, mode) ==
  LET read[k \in 0..Len(line)] ==
        IF k = 0 THEN [mark |-> end(mode), bytes |-> <<>>, paired |-> TRUE]
        ELSE Read(read[k-1], line[k], mode)
  IN  read[Len(line)]

Seen(line, mode) == ReadLine(line, mode).bytes

\* Marks open and close in turn, and the last one closes.
Closed(line, mode) ==
  LET seen == ReadLine(line, mode)
  IN  seen.paired /\ seen.mark = end(mode)

Shows(lines, actual, expected, mode, zeros) ==
  LET Differs(i)       == actual[i] # expected[i]
      IsLeadingZero(i) == zeros /\ mode = "Ansi"
                            /\ \A j \in 1..i : actual[j] = "00" /\ expected[j] = "00"
  IN  /\ Closed(lines.actual, mode) /\ Closed(lines.expected, mode)
      /\ Seen(lines.actual, mode) =
           [i \in DOMAIN actual |->
             <<actual[i], IF Differs(i) THEN actual_start(mode)
                          ELSE IF IsLeadingZero(i) THEN ZeroStart ELSE end(mode)>>]
      /\ Seen(lines.expected, mode) =
           IF actual = expected THEN <<>>
           ELSE [i \in DOMAIN actual |->
                  IF Differs(i) THEN <<expected[i], expected_start(mode)>> ELSE <<"  ", end(mode)>>]

(* The report can be read back: without the marks it is the actual value,  *)
(* below it the expected one wherever it differs, in the same columns; the *)
(* marks stand around the differing bytes and around no others, wherever   *)
(* runs of differences, of leading zeros and halves of a field meet, and   *)
(* each one that opens is closed on its line.                              *)
ReportShowsDifference ==
  pc = "written" =>
    LET actual == report.actual
        expected == report.expected
    IN  IF Len(actual) = 2 * WIDE
        THEN \A half \in 1..2 :
               LET from == (half - 1) * WIDE + 1
                   to   == half * WIDE
               IN  Shows(report.lines[half], SubSeq(actual, from, to),
                         SubSeq(expected, from, to), report.mode, FALSE)
        ELSE Shows(report.lines[1], actual, expected, report.mode, TRUE)

=============================================================================

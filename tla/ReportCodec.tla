---------------------------- MODULE ReportCodec ----------------------------
(***************************************************************************)
(* A report of an aggregator's nodes: their codec writes it, they and the  *)
(* contract read it (adapters/cosmwasm/report.go, contracts/ocr2).         *)
(*                                                                         *)
(* A report is a sequence of cells; a number is one cell, whatever its     *)
(* width in bytes.                                                         *)
(***************************************************************************)
EXTENDS Median

CONSTANTS
  AnswerBits,        \* width of an answer: 128 in the code
  MaxOracles,        \* MAX_ORACLES: 31 in the code
  Slots,             \* observers of a report: 32 in the code
  ObservationLists   \* what BuildReport may get: [time, value, juels, observer]

VARIABLE report      \* a report, the observations in it, and whether it is whole

None == <<>>
-----------------------------------------------------------------------------
Modulus == 2 ^ AnswerBits
InRange(v) == -(Modulus \div 2) <= v /\ v < Modulus \div 2
Signed(cell) == IF cell < Modulus \div 2 THEN cell ELSE cell - Modulus

ByTime(list) == [i \in DOMAIN list |-> list[i].time]
ByJuels(list) == [i \in DOMAIN list |-> list[i].juels]
ByValue(list) == [i \in DOMAIN list |-> list[i].value]
MedianTime(list) == Middle(CHOOSE sorted \in Orders(list, ByTime(list)) : TRUE).time
MedianJuels(list) == Middle(CHOOSE sorted \in Orders(list, ByJuels(list)) : TRUE).juels

\* BuildReport: every report it may build, none when a number does not fit.
BuildReport(list) ==
  LET n == Len(list)
      juels == MedianJuels(list)
  IN
  IF n = 0 \/ ~InRange(juels) \/ \E i \in 1 .. n : ~InRange(list[i].value) THEN {}
  ELSE {<<MedianTime(list)>>
          \o [i \in 1 .. Slots |-> IF i <= n THEN sorted[i].observer ELSE 0]
          \o <<n>> \o [i \in 1 .. n |-> sorted[i].value % Modulus]
          \o <<juels % Modulus>> : sorted \in Orders(list, ByValue(list))}

PrefixSize == Slots + 2
MaxReportLength(n) == PrefixSize + n + 1
CountOf(bytes) == bytes[PrefixSize]

\* MedianFromReport: a sequence with the median, or none.
MedianFromReport(bytes) ==
  IF Len(bytes) < PrefixSize THEN None
  ELSE IF CountOf(bytes) = 0 \/ Len(bytes) < MaxReportLength(CountOf(bytes)) THEN None
  ELSE LET observations == [i \in 1 .. CountOf(bytes) |-> Signed(bytes[PrefixSize + i])]
       IN  <<Middle(observations)>>

\* Mutant: bytes that follow the report are not looked at.
DecodeLonger(bytes) ==
  IF Len(bytes) < PrefixSize THEN None
  ELSE IF Len(bytes) < MaxReportLength(CountOf(bytes)) THEN None
  ELSE <<[observers |-> SubSeq(bytes, 2, MaxOracles + 1),
          observations |-> [i \in 1 .. CountOf(bytes) |-> Signed(bytes[PrefixSize + i])],
          juels |-> bytes[Len(bytes)]]>>

\* decode_report: a sequence with the report, or none. Juels are unsigned.
DecodeReport(bytes) ==
  IF Len(bytes) < PrefixSize THEN None
  ELSE IF Len(bytes) # MaxReportLength(CountOf(bytes)) THEN None
  ELSE <<[observers |-> SubSeq(bytes, 2, MaxOracles + 1),
          observations |-> [i \in 1 .. CountOf(bytes) |-> Signed(bytes[PrefixSize + i])],
          juels |-> bytes[Len(bytes)]]>>

Build ==
  /\ report = None
  /\ \E list \in ObservationLists : \E bytes \in BuildReport(list) :
       report' = [list |-> list, bytes |-> bytes, whole |-> TRUE]

\* What arrives is shorter or longer.
Damage ==
  /\ report # None /\ report.whole
  /\ \E bytes \in {SubSeq(report.bytes, 1, n) : n \in 0 .. Len(report.bytes) - 1}
                    \cup {Append(report.bytes, 0)} :
       report' = [report EXCEPT !.bytes = bytes, !.whole = FALSE]

Init == report = None

Next == Build \/ Damage

Spec == Init /\ [][Next]_report
-----------------------------------------------------------------------------
(* Properties *)

\* The contract publishes the very median the nodes agreed on, out of a report
\* that names the maker of every observation; juels are the median too, where
\* that is not negative. Neither side reads a median from a report cut short,
\* and the contract takes none with bytes to spare.
ReportUnderstood ==
  report # None =>
    LET median == MedianFromReport(report.bytes)
        decoded == DecodeReport(report.bytes)
        n == Len(report.list)
        juels == MedianJuels(report.list)
    IN
    IF report.whole
    THEN /\ median # None /\ decoded # None
         /\ median[1] = Middle(decoded[1].observations)
         /\ IsMedian(report.list, median[1])
         /\ {<<decoded[1].observers[i], decoded[1].observations[i]>> : i \in 1 .. n} =
              {<<report.list[i].observer, report.list[i].value>> : i \in 1 .. n}
         /\ juels >= 0 => decoded[1].juels = juels
         /\ Len(report.bytes) = MaxReportLength(n)
    ELSE /\ decoded = None
         /\ Len(report.bytes) < MaxReportLength(n) => median = None
=============================================================================

--------------------------- MODULE DecisionPolicy ---------------------------
(***************************************************************************)
(* The fail-safe decision table, packages/verifier/src/policy.ts, as       *)
(* operators.  A hit is a record with a severity; an assessment is what    *)
(* the model layer (llm.ts) returns, whether or not the model answered.    *)
(*                                                                         *)
(* Abstracted: the reasons shown to users (tidyReasons and every push).    *)
(***************************************************************************)
EXTENDS Integers

CONSTANT MinDeliveryChars      \* MIN_DELIVERY_CHARS

ASSUME MinCharsAssumption == MinDeliveryChars \in Nat

Severity == {"critical", "high", "medium"}
Conformance == {"pass", "partial", "fail"}
Safety == {"safe", "suspicious", "hostile"}
PolicyVerdict == {"GO", "CAUTION", "NO_GO"}

Assessment == [ok : BOOLEAN, conformance : Conformance, safety : Safety]

\* What evaluate.ts puts in place of a model that was not asked.
Skipped == [ok |-> TRUE, conformance |-> "fail", safety |-> "hostile"]

HasSeverity(hits, s) == \E h \in hits : h.severity = s

\* deterministic.passed is its negation; policy.ts calls it criticalOrHigh.
Blocking(hits) == HasSeverity(hits, "critical") \/ HasSeverity(hits, "high")

-----------------------------------------------------------------------------
(* Faulty variants, used by the mutants of PROJECT.json only.              *)

\* A failure outside the vocabulary the tables are indexed by.
UnscoredFailure == [ok |-> FALSE, conformance |-> "unknown", safety |-> "suspicious"]

\* Step 3 refunding instead of holding.
DecideFailureRefunds(hits, llm, length) ==
    IF Blocking(hits) \/ length < MinDeliveryChars \/ ~llm.ok THEN "NO_GO"
    ELSE IF llm.safety = "hostile" \/ llm.conformance = "fail" THEN "NO_GO"
    ELSE IF llm.safety = "suspicious" \/ llm.conformance = "partial" \/ hits # {} THEN "CAUTION"
    ELSE "GO"

\* Step 6 without the medium hits.
DecideIgnoringMedium(hits, llm, length) ==
    IF Blocking(hits) \/ length < MinDeliveryChars THEN "NO_GO"
    ELSE IF ~llm.ok THEN "CAUTION"
    ELSE IF llm.safety = "hostile" \/ llm.conformance = "fail" THEN "NO_GO"
    ELSE IF llm.safety = "suspicious" \/ llm.conformance = "partial" THEN "CAUTION"
    ELSE "GO"

\* severityRank without its last case.
PenaltyWithoutMedium(hits) ==
    IF HasSeverity(hits, "critical") THEN 95
    ELSE IF HasSeverity(hits, "high") THEN 60 ELSE 0

-----------------------------------------------------------------------------
\* What llm.ts returns when there is no answer to use: no key, HTTP error,
\* empty text, no JSON, schema mismatch, timeout.
Failure == [ok |-> FALSE, conformance |-> "partial", safety |-> "suspicious"]

-----------------------------------------------------------------------------
(* decide: the first rule that applies, in the order of the code.          *)

Decide(hits, llm, length) ==
    IF Blocking(hits) THEN "NO_GO"
    ELSE IF length < MinDeliveryChars THEN "NO_GO"
    ELSE IF ~llm.ok THEN "CAUTION"
    ELSE IF llm.safety = "hostile" THEN "NO_GO"
    ELSE IF llm.conformance = "fail" THEN "NO_GO"
    ELSE IF \/ llm.safety = "suspicious"
            \/ llm.conformance = "partial"
            \/ HasSeverity(hits, "medium") THEN "CAUTION"
    ELSE "GO"

-----------------------------------------------------------------------------
(* The advisory scores, shown next to the verdict.                         *)

Clamp(n) == IF n < 0 THEN 0 ELSE IF n > 100 THEN 100 ELSE n

SafetyBase == [safe |-> 95, suspicious |-> 45, hostile |-> 5]
ConformanceBase == [pass |-> 92, partial |-> 55, fail |-> 12]

\* SEVERITY_PENALTY of severityRank.
Penalty(hits) ==
    IF HasSeverity(hits, "critical") THEN 95
    ELSE IF HasSeverity(hits, "high") THEN 60
    ELSE IF HasSeverity(hits, "medium") THEN 20 ELSE 0

SafetyScore(hits, llm) ==
    LET score == Clamp((IF llm.ok THEN SafetyBase[llm.safety] ELSE 40) - Penalty(hits))
    IN  IF Blocking(hits) /\ score > 10 THEN 10 ELSE score

ConformanceScore(hits, llm, length) ==
    IF ~Blocking(hits) /\ length < MinDeliveryChars THEN 5
    ELSE Clamp(IF llm.ok THEN ConformanceBase[llm.conformance] ELSE 50)

=============================================================================

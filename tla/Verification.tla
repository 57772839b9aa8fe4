---------------------------- MODULE Verification ----------------------------
(***************************************************************************)
(* One run of verifyDelivery, packages/verifier/src/evaluate.ts: size      *)
(* check, deterministic screening (patterns.ts over the surfaces of        *)
(* normalize.ts), the model call (llm.ts) unless screening blocked, the    *)
(* decision table.                                                         *)
(*                                                                         *)
(* A text is abstracted to the signatures it matches: Matches[t].  A       *)
(* delivery is the texts its readings give, the encoded tokens it embeds   *)
(* (base64 first, then hex, then escapes), whether invisible characters    *)
(* sit inside words, and its length before and after trimming.  How a      *)
(* reading is computed (NFKC, homoglyphs, regular expressions) is left     *)
(* out; which readings are scanned, in which order and to what effect, is  *)
(* not.                                                                    *)
(***************************************************************************)
EXTENDS DecisionPolicy, Sequences, FiniteSets

CONSTANTS
    Signatures,        \* SIGNATURES, by id
    SeverityOf,        \* SeverityOf[id]
    Texts,             \* classes of texts
    Matches,           \* Matches[t]: the signatures whose pattern t matches
    Undecodable,       \* a token that does not decode to printable text
    Kinds,             \* the encodings decodeLayers knows
    MaxLayers,         \* decodeLayers' maxLayers
    MaxDeliveryChars,  \* MAX_DELIVERY_CHARS
    Deliveries         \* the deliveries explored

Zwsp == "evasion.zero_width_obfuscation"
Layers == {"raw", "normalized", "despaced"} \cup Kinds

ASSUME SignatureAssumption ==
    /\ SeverityOf \in [Signatures -> Severity]
    /\ Zwsp \notin Signatures
    /\ Matches \in [Texts -> SUBSET Signatures]
    /\ Undecodable \notin Texts
    /\ "despaced" \notin Kinds
ASSUME LimitAssumption == MaxLayers \in Nat /\ MaxDeliveryChars \in Nat

Surface == [layer : Layers, text : Texts]

ASSUME DeliveryAssumption ==
    \A d \in Deliveries :
        /\ d.raw \in Texts /\ d.normalized \in Texts /\ d.despaced \in Texts
        /\ d.tokens \in Seq([layer : Kinds, text : Texts \cup {Undecodable}])
        /\ d.intraWordInvisibles \in BOOLEAN
        /\ d.length \in Nat /\ d.trimmed \in Nat

VARIABLES
    delivery,   \* the delivery under evaluation
    phase,      \* "start", "decode", "scan", "model", "decide", "done", "rejected"
    layers,     \* the decoded layers so far
    surfaces,   \* the surfaces to scan, once known
    i,          \* the loop index over tokens, then over surfaces
    hits,       \* the hits recorded so far
    asked,      \* the delivery has been sent to the model
    llm,        \* the assessment
    result      \* verdict and scores

vars == <<delivery, phase, layers, surfaces, i, hits, asked, llm, result>>

NoResult == [verdict |-> "none", safety |-> 0, conformance |-> 0]

Elements(s) == {s[k] : k \in DOMAIN s}

-----------------------------------------------------------------------------
(* Faulty variants, used by the mutants of PROJECT.json only.              *)

\* The model asked although screening blocked.
AlwaysAsk(found) == TRUE

\* The screening loop without its seen set.
NothingSeen == {}

\* >= for >.
TooLargeOffByOne(d) == d.length >= MaxDeliveryChars

\* seen keyed by kind only.
FreshKind(token) == token.layer \notin {l.layer : l \in Elements(layers)}

-----------------------------------------------------------------------------
Init ==
    /\ delivery \in Deliveries
    /\ phase = "start"
    /\ layers = <<>>
    /\ surfaces = <<>>
    /\ i = 1
    /\ hits = {}
    /\ asked = FALSE
    /\ llm = Failure
    /\ result = NoResult

TooLarge(d) == d.length > MaxDeliveryChars

\* DeliveryTooLargeError.
Reject ==
    /\ phase = "start"
    /\ TooLarge(delivery)
    /\ phase' = "rejected"
    /\ UNCHANGED <<delivery, layers, surfaces, i, hits, asked, llm, result>>

Start ==
    /\ phase = "start"
    /\ ~TooLarge(delivery)
    /\ phase' = "decode"
    /\ UNCHANGED <<delivery, layers, surfaces, i, hits, asked, llm, result>>

-----------------------------------------------------------------------------
(* normalize.ts: the readings of a delivery.                               *)

\* seen is keyed by kind and text.
Fresh(token) == token \notin Elements(layers)

\* push, in decodeLayers.
Push(token) ==
    token.text # Undecodable /\ Len(layers) < MaxLayers /\ Fresh(token)

DecodeToken ==
    /\ phase = "decode"
    /\ i \in DOMAIN delivery.tokens
    /\ layers' = IF Push(delivery.tokens[i]) THEN Append(layers, delivery.tokens[i])
                 ELSE layers
    /\ i' = i + 1
    /\ UNCHANGED <<delivery, phase, surfaces, hits, asked, llm, result>>

\* scanSurfaces.  The despaced reading is there only if despacing changed
\* something.
DespacedSurface(d) ==
    IF d.despaced = d.normalized THEN <<>>
    ELSE <<[layer |-> "despaced", text |-> d.despaced]>>

ListSurfaces ==
    /\ phase = "decode"
    /\ i \notin DOMAIN delivery.tokens
    /\ surfaces' = <<[layer |-> "raw", text |-> delivery.raw],
                     [layer |-> "normalized", text |-> delivery.normalized]>>
                   \o layers \o DespacedSurface(delivery)
    /\ i' = 1
    /\ phase' = "scan"
    /\ UNCHANGED <<delivery, layers, hits, asked, llm, result>>

-----------------------------------------------------------------------------
(* patterns.ts: the screening loop.                                        *)

\* DOWNGRADE, for a reading that was reconstructed.
SeverityOn(severity, layer) ==
    IF layer # "despaced" THEN severity
    ELSE IF severity = "critical" THEN "high" ELSE "medium"

Seen == {h.id : h \in hits}

HitsOn(surface) ==
    {[id |-> id, severity |-> SeverityOn(SeverityOf[id], surface.layer),
      layer |-> surface.layer] : id \in Matches[surface.text] \ Seen}

\* One turn of the outer loop of runDeterministicChecks.
ScanSurface ==
    /\ phase = "scan"
    /\ i \in DOMAIN surfaces
    /\ hits' = hits \cup HitsOn(surfaces[i])
    /\ i' = i + 1
    /\ UNCHANGED <<delivery, phase, layers, surfaces, asked, llm, result>>

InvisibleHit(d) ==
    IF d.intraWordInvisibles
    THEN {[id |-> Zwsp, severity |-> "high", layer |-> "normalized"]} ELSE {}

\* verifyDelivery consults the model only on a delivery that passed screening.
MayAsk(found) == ~Blocking(found)

\* The end of runDeterministicChecks, and the choice of verifyDelivery.
EndScan ==
    /\ phase = "scan"
    /\ i \notin DOMAIN surfaces
    /\ hits' = hits \cup InvisibleHit(delivery)
    /\ \/ /\ MayAsk(hits')
          /\ phase' = "model" /\ asked' = TRUE /\ UNCHANGED llm
       \/ /\ ~MayAsk(hits')
          /\ phase' = "decide" /\ llm' = Skipped /\ UNCHANGED asked
    /\ UNCHANGED <<delivery, layers, surfaces, i, result>>

-----------------------------------------------------------------------------
(* llm.ts: assessWithLlm.                                                  *)

\* An answer that parses and satisfies the schema.
ModelAnswers ==
    /\ phase = "model"
    /\ llm' \in {a \in Assessment : a.ok}
    /\ phase' = "decide"
    /\ UNCHANGED <<delivery, layers, surfaces, i, hits, asked, result>>

\* No key, an HTTP error, an empty or malformed answer, an exception, or the
\* abort timer.
ModelFails ==
    /\ phase = "model"
    /\ llm' = Failure
    /\ phase' = "decide"
    /\ UNCHANGED <<delivery, layers, surfaces, i, hits, asked, result>>

Conclude ==
    /\ phase = "decide"
    /\ result' = [verdict |-> Decide(hits, llm, delivery.trimmed),
                  safety |-> SafetyScore(hits, llm),
                  conformance |-> ConformanceScore(hits, llm, delivery.trimmed)]
    /\ phase' = "done"
    /\ UNCHANGED <<delivery, layers, surfaces, i, hits, asked, llm>>

Next ==
    \/ Reject \/ Start \/ DecodeToken \/ ListSurfaces \/ ScanSurface
    \/ EndScan \/ ModelAnswers \/ ModelFails \/ Conclude

\* The pipeline runs on; the abort timer ends a model call that gets no answer.
Spec == Init /\ [][Next]_vars /\ WF_vars(Next)

-----------------------------------------------------------------------------
(* Properties.                                                             *)

\* Types.
Phases == {"start", "decode", "scan", "model", "decide", "done", "rejected"}

TypeOK ==
    /\ delivery \in Deliveries
    /\ phase \in Phases
    /\ layers \in Seq(Surface)
    /\ surfaces \in Seq(Surface)
    /\ i \in Nat \ {0}
    /\ hits \subseteq [id : Signatures \cup {Zwsp}, severity : Severity, layer : Layers]
    /\ asked \in BOOLEAN
    /\ llm \in Assessment
    /\ result.verdict \in PolicyVerdict \cup {"none"}

\* The surfaces on which a signature was really observed, not reconstructed.
Observed == {s \in Elements(surfaces) : s.layer # "despaced"}
MatchedOn(set) == {id \in Signatures : \E s \in set : id \in Matches[s.text]}

\* A model or API failure never produces GO: money is released only when the
\* model was asked about this delivery, answered, and found it safe and on
\* spec, and no signature matched any surface, and there is real content.
GoNeedsEvidence ==
    result.verdict = "GO" =>
        /\ asked
        /\ llm = [ok |-> TRUE, conformance |-> "pass", safety |-> "safe"]
        /\ MatchedOn(Elements(surfaces)) = {}
        /\ ~delivery.intraWordInvisibles
        /\ delivery.trimmed >= MinDeliveryChars

\* A delivery with a high or critical signature on an observed surface, a
\* critical one even after despacing, or text hidden inside words is refunded
\* and never shown to the model, whatever the model would have said.
Hostile ==
    \/ delivery.intraWordInvisibles
    \/ \E id \in MatchedOn(Observed) : SeverityOf[id] # "medium"
    \/ \E id \in MatchedOn(Elements(surfaces)) : SeverityOf[id] = "critical"

HostileIsRefunded ==
    Hostile => ~asked /\ (phase = "done" => result.verdict = "NO_GO")

\* What verifyDelivery comes to, as a function of the delivery and of what the
\* model says of it.  The layers read are the first MaxLayers different things
\* that its tokens decode to.
Decodable(d, k) == {d.tokens[m] : m \in {n \in DOMAIN d.tokens :
                                            n < k /\ d.tokens[n].text # Undecodable}}
Decoded(d) == {d.tokens[k] : k \in {n \in DOMAIN d.tokens :
                                       /\ d.tokens[n].text # Undecodable
                                       /\ Cardinality(Decodable(d, n)) < MaxLayers}}

\* The signatures in plain sight, and those that only despacing may bring out.
InSight(d) == Matches[d.raw] \cup Matches[d.normalized] \cup UNION {Matches[t.text] : t \in Decoded(d)}

\* The model is not asked about these.
Blocked(d) ==
    \/ d.intraWordInvisibles
    \/ \E id \in InSight(d) : SeverityOf[id] # "medium"
    \/ \E id \in Matches[d.despaced] : SeverityOf[id] = "critical"

VerdictOn(d, answer) ==
    IF Blocked(d) \/ d.trimmed < MinDeliveryChars THEN "NO_GO"
    ELSE IF ~answer.ok THEN "CAUTION"
    ELSE IF answer.safety = "hostile" \/ answer.conformance = "fail" THEN "NO_GO"
    ELSE IF answer.safety = "safe" /\ answer.conformance = "pass"
            /\ InSight(d) \cup Matches[d.despaced] = {} THEN "GO"
    ELSE "CAUTION"

\* The verdict depends on the delivery and the model's answer alone: whatever the
\* order of surfaces and signatures, repetitions, downgrades and limits, two
\* evaluations of a delivery differ only if the model does, and one that is
\* refused without the model is refused always.
VerdictIsFunction ==
    /\ phase \in {"model", "decide", "done"} => (asked <=> ~Blocked(delivery))
    /\ phase = "done" => result.verdict = VerdictOn(delivery, llm)

\* Every signature is reported at most once, on the most faithful surface it
\* matches, and downgraded only if it matches nothing but the despaced one.
ScreeningFaithful ==
    phase \in {"model", "decide", "done"} =>
        /\ \A id \in Signatures :
             Cardinality({h \in hits : h.id = id}) =
                IF id \in MatchedOn(Elements(surfaces)) THEN 1 ELSE 0
        /\ \A h \in hits : h.id # Zwsp /\ h.severity # SeverityOf[h.id] =>
             h.id \notin MatchedOn(Observed)

\* What an encoded token decodes to is screened like the rest, unless
\* maxLayers other layers came before it.
TokensScreened ==
    phase \in {"model", "decide", "done"} /\ Len(layers) < MaxLayers =>
        {t \in Elements(delivery.tokens) : t.text # Undecodable} \subseteq Elements(surfaces)

\* The scores shown to the buyer never contradict the verdict: a delivery is
\* released if and only if both scores are 90 or more, and a blocked one
\* scores at most 10 on safety.
ScoresAgree ==
    phase = "done" =>
        /\ result.safety \in 0..100 /\ result.conformance \in 0..100
        /\ result.verdict = "GO" <=> result.safety >= 90 /\ result.conformance >= 90
        /\ Blocking(hits) => result.safety <= 10

\* Every delivery of acceptable size gets a verdict: no evaluation failure
\* leaves the job stuck.
Terminates == delivery.length <= MaxDeliveryChars ~> result.verdict # "none"

=============================================================================

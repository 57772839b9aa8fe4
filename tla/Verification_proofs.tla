------------------------- MODULE Verification_proofs -------------------------
(* Theorems about the decision table and the pipeline that feeds it, for    *)
(* every set of signatures, every text and every delivery.                  *)
EXTENDS Verification, FiniteSetTheorems, SequenceTheorems, TLAPS

-----------------------------------------------------------------------------
(* The decision table alone.                                               *)

\* GO says everything: no finding of any severity, a model that answered, and
\* answered well, and enough content.
LEMMA GoMeans ==
    ASSUME NEW found, NEW a \in Assessment, NEW n \in Nat,
           \A h \in found : h.severity \in Severity,
           Decide(found, a, n) = "GO"
    PROVE  /\ found = {}
           /\ a.ok /\ a.conformance = "pass" /\ a.safety = "safe"
           /\ n >= MinDeliveryChars
BY MinCharsAssumption
   DEF Decide, Blocking, HasSeverity, Severity, Assessment, Conformance, Safety

\* How good a verdict is for the provider, and an answer for the delivery.
VerdictRank(v) == IF v = "GO" THEN 2 ELSE IF v = "CAUTION" THEN 1 ELSE 0
SafetyRank(s) == IF s = "safe" THEN 2 ELSE IF s = "suspicious" THEN 1 ELSE 0
ConformanceRank(c) == IF c = "pass" THEN 2 ELSE IF c = "partial" THEN 1 ELSE 0

\* a is at most as favourable as b.  An answer that failed compares with one
\* that succeeded only if the latter is a clean pass.
NoBetter(a, b) ==
    \/ a.ok /\ b.ok /\ SafetyRank(a.safety) <= SafetyRank(b.safety)
                    /\ ConformanceRank(a.conformance) <= ConformanceRank(b.conformance)
    \/ ~a.ok /\ ~b.ok
    \/ ~a.ok /\ b.ok /\ b.safety = "safe" /\ b.conformance = "pass"

\* More findings, a less favourable answer or less content never improves the
\* verdict: nothing added to a delivery can talk it from refunded into held,
\* or from held into released, against the same or a worse review.
\* (A review that fails holds what a bad review would have refunded: NoBetter
\* does not compare the two.)
THEOREM DecideMonotone ==
    ASSUME NEW worse, NEW better, better \subseteq worse,
           NEW a \in Assessment, NEW b \in Assessment, NoBetter(a, b),
           NEW m \in Nat, NEW n \in Nat, m <= n
    PROVE  VerdictRank(Decide(worse, a, m)) <= VerdictRank(Decide(better, b, n))
<1>1. \A s : HasSeverity(better, s) => HasSeverity(worse, s)
  BY DEF HasSeverity
<1>2. Blocking(better) => Blocking(worse)
  BY <1>1 DEF Blocking
<1> DEFINE mw == HasSeverity(worse, "medium")
           mb == HasSeverity(better, "medium")
           bw == Blocking(worse)
           bb == Blocking(better)
<1>3. mb => mw
  BY <1>1
<1>4. CASE bw \/ m < MinDeliveryChars
  BY <1>4, MinCharsAssumption DEF Decide, VerdictRank
<1>5. CASE ~bw /\ ~(m < MinDeliveryChars)
  <2>1. ~bb /\ ~(n < MinDeliveryChars)
    BY <1>2, <1>5, MinCharsAssumption
  <2>2. CASE ~a.ok
    BY <1>5, <2>1, <2>2 DEF Decide, VerdictRank, NoBetter
  <2>3. CASE a.ok
    BY <1>3, <1>5, <2>1, <2>3
       DEF Decide, VerdictRank, NoBetter, SafetyRank, ConformanceRank, Assessment,
           Conformance, Safety
  <2> QED BY <2>2, <2>3
<1> QED BY <1>4, <1>5

-----------------------------------------------------------------------------
(* The pipeline.  ScanInv says what the screening loop has done so far: it  *)
(* is what makes the absence of hits at the end mean that nothing matched.  *)

MatchedBefore(k) == \A m \in DOMAIN surfaces : m < k => Matches[surfaces[m].text] \subseteq Seen

ScanInv ==
    /\ phase \in {"start", "decode"} => surfaces = <<>>
    /\ phase = "scan" => MatchedBefore(i) /\ i \in Nat
    /\ phase \in {"model", "decide", "done"} =>
          /\ \A m \in DOMAIN surfaces : Matches[surfaces[m].text] \subseteq Seen
          /\ delivery.intraWordInvisibles => Zwsp \in Seen
    /\ phase \in {"decide", "done"} => asked \/ llm = Skipped
    /\ phase = "model" => asked
    /\ result.verdict # "none" =>
          phase = "done" /\ result.verdict = Decide(hits, llm, delivery.trimmed)

\* The constants, spelt out where the provers need them.
LEMMA AssessmentFacts == Failure \in Assessment /\ Skipped \in Assessment
BY DEF Failure, Skipped, Assessment, Conformance, Safety

LEMMA DecideType ==
    ASSUME NEW found, NEW a, NEW n
    PROVE  Decide(found, a, n) \in PolicyVerdict
BY DEF Decide, PolicyVerdict

\* A hit is well typed whatever surface it is found on.
LEMMA HitTypes ==
    ASSUME TypeOK, NEW s \in Surface
    PROVE  HitsOn(s) \subseteq [id : Signatures \cup {Zwsp}, severity : Severity, layer : Layers]
<1>1. s.layer \in Layers /\ s.text \in Texts /\ Matches[s.text] \subseteq Signatures
  BY SignatureAssumption DEF Surface
<1>2. \A id \in Signatures : SeverityOn(SeverityOf[id], s.layer) \in Severity
  BY SignatureAssumption DEF SeverityOn, Severity
<1> QED BY <1>1, <1>2 DEF HitsOn

\* What a delivery is made of.
LEMMA DeliveryFacts ==
    ASSUME TypeOK
    PROVE  /\ delivery.raw \in Texts /\ delivery.normalized \in Texts
           /\ delivery.despaced \in Texts
           /\ delivery.tokens \in Seq([layer : Kinds, text : Texts \cup {Undecodable}])
           /\ delivery.trimmed \in Nat
BY DeliveryAssumption DEF TypeOK

\* The despaced reading, there or not, is at most one surface.
LEMMA DespacedTyped ==
    ASSUME TypeOK
    PROVE  DespacedSurface(delivery) \in Seq(Surface) /\ Len(DespacedSurface(delivery)) <= 1
<1> DEFINE d == [layer |-> "despaced", text |-> delivery.despaced]
           last == DespacedSurface(delivery)
<1>1. d \in Surface
  BY DeliveryFacts DEF Surface, Layers
<1>2. last = <<>> \/ last = <<d>>
  BY DEF DespacedSurface
<1> HIDE DEF d, last
<1>3. last \in Seq(Surface) /\ Len(last) <= 1
  <2>1. CASE last = <<>>
    BY <2>1
  <2>2. CASE last = <<d>>
    BY <1>1, <2>2
  <2> QED BY <1>2, <2>1, <2>2
<1> QED BY <1>3 DEF last

\* The surfaces listed are surfaces.
LEMMA SurfacesTyped ==
    ASSUME TypeOK, ListSurfaces
    PROVE  surfaces' \in Seq(Surface)
<1> DEFINE first == <<[layer |-> "raw", text |-> delivery.raw],
                      [layer |-> "normalized", text |-> delivery.normalized]>>
<1>1. first \in Seq(Surface)
  BY DeliveryFacts DEF Surface, Layers
<1>2. layers \in Seq(Surface)
  BY DEF TypeOK
<1>3. DespacedSurface(delivery) \in Seq(Surface)
  BY DespacedTyped
<1>4. surfaces' = first \o layers \o DespacedSurface(delivery)
  BY DEF ListSurfaces
<1> HIDE DEF first
<1> QED BY <1>1, <1>2, <1>3, <1>4

THEOREM VerificationTypes == Spec => []TypeOK
<1>1. Init => TypeOK
  <2> SUFFICES ASSUME Init PROVE TypeOK
    OBVIOUS
  <2>1. layers \in Seq(Surface) /\ surfaces \in Seq(Surface)
    BY DEF Init
  <2>2. llm \in Assessment
    BY AssessmentFacts DEF Init
  <2>3. result.verdict = "none"
    BY DEF Init, NoResult
  <2>4. i \in Nat \ {0} /\ hits = {}
    BY DEF Init
  <2>6. asked \in BOOLEAN
    BY Zenon DEF Init
  <2>5. phase \in Phases /\ delivery \in Deliveries
    BY DEF Init, Phases
  <2> QED BY <2>1, <2>2, <2>3, <2>4, <2>5, <2>6 DEF TypeOK
<1>2. TypeOK /\ [Next]_vars => TypeOK'
  <2> SUFFICES ASSUME TypeOK, [Next]_vars PROVE TypeOK'
    OBVIOUS
  <2>1. CASE UNCHANGED vars
    BY <2>1 DEF vars, TypeOK
  <2>2. CASE Reject \/ Start
    BY <2>2 DEF Reject, Start, TypeOK, Phases
  <2>3. CASE DecodeToken
    <3> DEFINE T == [layer : Kinds, text : Texts \cup {Undecodable}]
               token == delivery.tokens[i]
    <3>1. token \in T
      <4>1. delivery.tokens \in Seq(T)
        BY DeliveryFacts
      <4> HIDE DEF T
      <4> QED BY <2>3, <4>1 DEF DecodeToken
    <3>2. Push(token) => token \in Surface
      BY <3>1 DEF Push, Surface, Layers
    <3>3. layers' \in Seq(Surface)
      <4>1. layers' = layers \/ (Push(token) /\ layers' = Append(layers, token))
        BY <2>3 DEF DecodeToken
      <4> HIDE DEF token
      <4> QED BY <3>2, <4>1 DEF TypeOK
    <3>4. i' \in Nat \ {0}
      BY <2>3 DEF DecodeToken, TypeOK
    <3> QED BY <2>3, <3>3, <3>4 DEF DecodeToken, TypeOK
  <2>4. CASE ListSurfaces
    BY <2>4, SurfacesTyped DEF ListSurfaces, TypeOK, Phases
  <2>5. CASE ScanSurface
    <3>1. surfaces[i] \in Surface
      BY <2>5 DEF ScanSurface, TypeOK
    <3>2. hits' \subseteq [id : Signatures \cup {Zwsp}, severity : Severity, layer : Layers]
      BY <2>5, <3>1, HitTypes DEF ScanSurface, TypeOK
    <3>3. i' \in Nat \ {0}
      BY <2>5 DEF ScanSurface, TypeOK
    <3> QED BY <2>5, <3>2, <3>3 DEF ScanSurface, TypeOK
  <2>6. CASE EndScan
    <3>1. hits' \subseteq [id : Signatures \cup {Zwsp}, severity : Severity, layer : Layers]
      BY <2>6 DEF EndScan, TypeOK, InvisibleHit, Severity, Layers
    <3> QED BY <2>6, <3>1, AssessmentFacts DEF EndScan, TypeOK, Phases
  <2>7. CASE ModelAnswers \/ ModelFails
    BY <2>7, AssessmentFacts DEF ModelAnswers, ModelFails, TypeOK, Phases
  <2>8. CASE Conclude
    BY <2>8, DecideType DEF Conclude, TypeOK, Phases
  <2> QED BY <2>1, <2>2, <2>3, <2>4, <2>5, <2>6, <2>7, <2>8 DEF Next
<1> QED BY <1>1, <1>2, PTL DEF Spec

\* Recorded hits stay, and new ones add to what has been seen.
LEMMA SeenGrows ==
    ASSUME hits \subseteq hits'
    PROVE  Seen \subseteq Seen'
BY DEF Seen

THEOREM ScanCorrect == Spec => []ScanInv
<1>1. Init => ScanInv
  BY DEF Init, ScanInv, NoResult, MatchedBefore
<1>2. TypeOK /\ ScanInv /\ [Next]_vars => ScanInv'
  <2> SUFFICES ASSUME TypeOK, ScanInv, [Next]_vars PROVE ScanInv'
    OBVIOUS
  <2>0. result.verdict # "none" => phase = "done"
    BY DEF ScanInv
  <2>1. CASE UNCHANGED vars
    BY <2>1 DEF vars, ScanInv, MatchedBefore, Seen
  <2>2. CASE Reject \/ Start \/ DecodeToken
    BY <2>2 DEF Reject, Start, DecodeToken, ScanInv
  <2>3. CASE ListSurfaces
    <3>1. MatchedBefore(1)'
      <4>1. surfaces' \in Seq(Surface)
        BY <2>3, SurfacesTyped
      <4> QED BY <4>1 DEF MatchedBefore
    <3> QED BY <2>3, <3>1 DEF ListSurfaces, ScanInv
  <2>4. CASE ScanSurface
    <3>1. Seen \subseteq Seen' /\ UNCHANGED <<surfaces, phase, result>> /\ i' = i + 1
      BY <2>4, SeenGrows DEF ScanSurface
    <3>2. Matches[surfaces[i].text] \subseteq Seen'
      <4>1. \A id \in Matches[surfaces[i].text] \ Seen : \E h \in HitsOn(surfaces[i]) : h.id = id
        <5> SUFFICES ASSUME NEW id \in Matches[surfaces[i].text] \ Seen
                     PROVE  \E h \in HitsOn(surfaces[i]) : h.id = id
          OBVIOUS
        <5> DEFINE h == [id |-> id, severity |-> SeverityOn(SeverityOf[id], surfaces[i].layer),
                         layer |-> surfaces[i].layer]
        <5>1. h \in HitsOn(surfaces[i])
          BY DEF HitsOn
        <5>2. h.id = id
          OBVIOUS
        <5> QED BY <5>1, <5>2
      <4>2. HitsOn(surfaces[i]) \subseteq hits'
        BY <2>4 DEF ScanSurface
      <4> QED BY <3>1, <4>1, <4>2 DEF Seen
    <3>3. surfaces \in Seq(Surface) /\ i \in Nat
      BY DEF TypeOK
    <3>4. \A m \in DOMAIN surfaces : m < i + 1 => m = i \/ m < i
      BY <3>3
    <3>5. phase = "scan" /\ MatchedBefore(i)
      BY <2>4 DEF ScanSurface, ScanInv
    <3>6. MatchedBefore(i)'
      BY <3>1, <3>2, <3>3, <3>4, <3>5 DEF MatchedBefore
    <3>7. i' \in Nat /\ phase' = "scan" /\ result'.verdict = "none"
      BY <2>0, <3>1, <3>3, <3>5
    <3> QED BY <3>6, <3>7 DEF ScanInv
  <2>5. CASE EndScan
    <3>1. Seen \subseteq Seen'
      BY <2>5, SeenGrows DEF EndScan
    <3>2. \A m \in DOMAIN surfaces : m < i
      <4>1. surfaces \in Seq(Surface) /\ i \in Nat \ {0} /\ i \notin 1..Len(surfaces)
        BY <2>5 DEF EndScan, TypeOK
      <4> QED BY <4>1
    <3>3. \A m \in DOMAIN surfaces' : Matches[surfaces'[m].text] \subseteq Seen'
      BY <2>5, <3>1, <3>2 DEF EndScan, ScanInv, MatchedBefore
    <3>4. delivery'.intraWordInvisibles => Zwsp \in Seen'
      <4> DEFINE h == [id |-> Zwsp, severity |-> "high", layer |-> "normalized"]
      <4> SUFFICES ASSUME delivery.intraWordInvisibles PROVE Zwsp \in Seen'
        BY <2>5 DEF EndScan
      <4>1. h \in hits' /\ h.id = Zwsp
        BY <2>5 DEF EndScan, InvisibleHit
      <4> QED BY <4>1 DEF Seen
    <3> QED BY <2>5, <3>3, <3>4 DEF EndScan, ScanInv
  <2>6. CASE ModelAnswers \/ ModelFails
    BY <2>6 DEF ModelAnswers, ModelFails, ScanInv, Seen
  <2>7. CASE Conclude
    BY <2>7 DEF Conclude, ScanInv, Seen
  <2> QED BY <2>1, <2>2, <2>3, <2>4, <2>5, <2>6, <2>7 DEF Next
<1> QED BY <1>1, <1>2, VerificationTypes, PTL DEF Spec

\* The fail-safe rule, for the whole pipeline: nothing is released without a
\* model that was asked and approved, and without a clean screening.
THEOREM FailSafe == Spec => []GoNeedsEvidence
<1>1. TypeOK /\ ScanInv => GoNeedsEvidence
  <2> SUFFICES ASSUME TypeOK, ScanInv, result.verdict = "GO"
               PROVE  /\ asked
                      /\ llm = [ok |-> TRUE, conformance |-> "pass", safety |-> "safe"]
                      /\ MatchedOn(Elements(surfaces)) = {}
                      /\ ~delivery.intraWordInvisibles
                      /\ delivery.trimmed >= MinDeliveryChars
    BY DEF GoNeedsEvidence
  <2>1. phase = "done" /\ Decide(hits, llm, delivery.trimmed) = "GO"
    BY DEF ScanInv
  <2>2. \A h \in hits : h.severity \in Severity
    BY DEF TypeOK
  <2>3. /\ hits = {}
        /\ llm.ok /\ llm.conformance = "pass" /\ llm.safety = "safe"
        /\ delivery.trimmed >= MinDeliveryChars
    BY <2>1, <2>2, GoMeans, DeliveryFacts DEF TypeOK
  <2>4. asked
    BY <2>1, <2>3 DEF ScanInv, Skipped
  <2>5. llm = [ok |-> TRUE, conformance |-> "pass", safety |-> "safe"]
    BY <2>3 DEF TypeOK, Assessment
  <2>6. Seen = {}
    BY <2>3 DEF Seen
  <2>7. MatchedOn(Elements(surfaces)) = {}
    BY <2>1, <2>6 DEF ScanInv, MatchedOn, Elements
  <2> QED BY <2>1, <2>3, <2>4, <2>5, <2>6, <2>7 DEF ScanInv
<1> QED BY <1>1, VerificationTypes, ScanCorrect, PTL

-----------------------------------------------------------------------------
(* What the loop over the surfaces establishes, and what it rests on: a     *)
(* reconstructed reading comes after all that was observed.                 *)

DecodedLayer == [layer : Kinds, text : Texts]

DespacedLast == \A m \in DOMAIN surfaces : surfaces[m].layer = "despaced" => m = Len(surfaces)

\* A hit is on a surface that matches it, and carries the severity of its
\* signature if an observed one does, and the downgraded one if none does.
HitRight(h) ==
    IF h.id = Zwsp THEN h.severity = "high"
    ELSE /\ h.id \in Signatures
         /\ \E m \in DOMAIN surfaces : h.id \in Matches[surfaces[m].text]
         /\ \/ /\ h.severity = SeverityOf[h.id]
               /\ \E m \in DOMAIN surfaces :
                    surfaces[m].layer # "despaced" /\ h.id \in Matches[surfaces[m].text]
            \/ /\ h.severity = SeverityOn(SeverityOf[h.id], "despaced")
               /\ \A m \in DOMAIN surfaces :
                    surfaces[m].layer # "despaced" => h.id \notin Matches[surfaces[m].text]

LoopInv ==
    /\ layers \in Seq(DecodedLayer)
    /\ DespacedLast
    /\ phase \in {"start", "decode"} => hits = {}
    /\ phase = "scan" => Zwsp \notin Seen
    /\ \A h \in hits : HitRight(h)
    /\ \A g, h \in hits : g.id = h.id => g = h

\* Appending to typed sequences, and what stands where in the result.
LEMMA ListedLayers ==
    ASSUME TypeOK, LoopInv, ListSurfaces
    PROVE  DespacedLast'
<1> DEFINE first == <<[layer |-> "raw", text |-> delivery.raw],
                      [layer |-> "normalized", text |-> delivery.normalized]>>
           last == DespacedSurface(delivery)
           both == first \o layers
<1>1. /\ first \in Seq(Surface) /\ Len(first) = 2
      /\ \A m \in DOMAIN first : first[m].layer # "despaced"
  BY DeliveryFacts DEF Surface, Layers
<1>2. /\ layers \in Seq(Surface)
      /\ \A m \in DOMAIN layers : layers[m].layer # "despaced"
  <2>1. layers \in Seq(DecodedLayer) /\ layers \in Seq(Surface)
    BY DEF LoopInv, TypeOK
  <2>2. \A m \in DOMAIN layers : layers[m] \in DecodedLayer
    BY <2>1
  <2>3. \A x \in DecodedLayer : x.layer # "despaced"
    BY SignatureAssumption DEF DecodedLayer
  <2> QED BY <2>1, <2>2, <2>3
<1>3. last \in Seq(Surface) /\ Len(last) <= 1
  BY DespacedTyped
<1>4. surfaces' = both \o last
  BY DEF ListSurfaces
<1> HIDE DEF first, last
<1>5. /\ both \in Seq(Surface)
      /\ \A m \in DOMAIN both : both[m].layer # "despaced"
  <2>0. /\ both \in Seq(Surface) /\ Len(both) = Len(first) + Len(layers)
        /\ \A m \in 1..(Len(first) + Len(layers)) :
             both[m] = IF m <= Len(first) THEN first[m] ELSE layers[m - Len(first)]
    BY <1>1, <1>2, ConcatProperties, Zenon
  <2> HIDE DEF both
  <2>1. /\ both \in Seq(Surface) /\ Len(both) = 2 + Len(layers)
        /\ \A m \in 1..(2 + Len(layers)) : both[m] = IF m <= 2 THEN first[m] ELSE layers[m - 2]
    BY <1>1, <2>0
  <2>2. ASSUME NEW m \in DOMAIN both PROVE both[m].layer # "despaced"
    <3>1. m \in 1..(2 + Len(layers)) /\ Len(layers) \in Nat
      BY <1>2, <2>1
    <3>2. CASE m <= 2
      <4>1. m \in DOMAIN first
        BY <1>1, <3>1, <3>2
      <4> QED BY <1>1, <2>1, <3>1, <3>2, <4>1
    <3>3. CASE ~(m <= 2)
      <4>1. m - 2 \in DOMAIN layers
        BY <1>2, <3>1, <3>3
      <4> QED BY <1>2, <2>1, <3>1, <3>3, <4>1
    <3> QED BY <3>2, <3>3
  <2> QED BY <2>1, <2>2
<1> HIDE DEF both
<1>6. SUFFICES ASSUME NEW m \in DOMAIN (both \o last), (both \o last)[m].layer = "despaced"
               PROVE  m = Len(both \o last)
  BY <1>4 DEF DespacedLast
<1>7. ~(m \in DOMAIN both)
  <2>1. m \in DOMAIN both => (both \o last)[m] = both[m]
    BY <1>3, <1>5
  <2> QED BY <1>5, <1>6, <2>1
<1> QED BY <1>3, <1>5, <1>6, <1>7

\* One turn of the loop keeps what is known of the hits.
LEMMA TurnKeeps ==
    ASSUME TypeOK, ScanInv, LoopInv, ScanSurface
    PROVE  /\ Zwsp \notin Seen'
           /\ \A h \in hits' : HitRight(h)'
           /\ \A g, h \in hits' : g.id = h.id => g = h
<1> DEFINE s == surfaces[i]
<1>1. /\ i \in DOMAIN surfaces /\ MatchedBefore(i) /\ s \in Surface
      /\ surfaces \in Seq(Surface) /\ i \in Nat
      /\ UNCHANGED surfaces /\ hits' = hits \cup HitsOn(s)
      /\ Zwsp \notin Seen
  BY DEF ScanSurface, ScanInv, LoopInv, TypeOK
<1>2. Matches[s.text] \subseteq Signatures /\ Zwsp \notin Signatures
  BY <1>1, SignatureAssumption DEF Surface
<1>3. \A h \in HitsOn(s) :
        /\ h.id \in Matches[s.text] /\ h.id \notin Seen
        /\ h.severity = SeverityOn(SeverityOf[h.id], s.layer)
  BY DEF HitsOn
<1>4. \A g, h \in HitsOn(s) : g.id = h.id => g = h
  BY DEF HitsOn
<1>5. \A h \in hits : h.id \in Seen
  BY DEF Seen
<1>6. Zwsp \notin Seen'
  BY <1>1, <1>2, <1>3 DEF Seen
<1>7. \A g, h \in hits' : g.id = h.id => g = h
  BY <1>1, <1>3, <1>4, <1>5 DEF LoopInv
<1>8. ASSUME NEW h \in HitsOn(s) PROVE HitRight(h)
  <2>1. h.id # Zwsp /\ h.id \in Signatures /\ h.id \in Matches[surfaces[i].text]
    BY <1>2, <1>3
  <2>2. CASE s.layer # "despaced"
    BY <1>1, <1>3, <2>1, <2>2 DEF HitRight, SeverityOn
  <2>3. CASE s.layer = "despaced"
    <3>1. i = Len(surfaces)
      BY <1>1, <2>3 DEF LoopInv, DespacedLast
    <3>2. \A m \in DOMAIN surfaces : m # i => m < i
      BY <1>1, <3>1
    <3>3. \A m \in DOMAIN surfaces :
            surfaces[m].layer # "despaced" => h.id \notin Matches[surfaces[m].text]
      BY <1>1, <1>3, <2>3, <3>2 DEF MatchedBefore
    <3>4. h.severity = SeverityOn(SeverityOf[h.id], "despaced")
      BY <1>3, <2>3
    <3> HIDE DEF s
    <3> QED BY <1>1, <2>1, <3>3, <3>4 DEF HitRight
  <2> QED BY <2>2, <2>3
<1>9. \A h \in hits' : HitRight(h)
  BY <1>1, <1>8 DEF LoopInv
<1>10. \A h \in hits' : HitRight(h)'
  BY <1>1, <1>9 DEF HitRight
<1> QED BY <1>6, <1>7, <1>10

THEOREM LoopCorrect == Spec => []LoopInv
<1>1. Init => LoopInv
  BY DEF Init, LoopInv, DespacedLast
<1>2. TypeOK /\ ScanInv /\ LoopInv /\ [Next]_vars => LoopInv'
  <2> SUFFICES ASSUME TypeOK, ScanInv, LoopInv, [Next]_vars PROVE LoopInv'
    OBVIOUS
  <2>1. ASSUME UNCHANGED <<layers, surfaces, hits>>, phase' # "scan",
               phase' \in {"start", "decode"} => phase \in {"start", "decode"}
        PROVE  LoopInv'
    BY <2>1 DEF LoopInv, DespacedLast, HitRight
  <2>2. CASE UNCHANGED vars
    BY <2>2 DEF vars, LoopInv, DespacedLast, HitRight, Seen
  <2>3. CASE Reject \/ Start \/ ModelAnswers \/ ModelFails \/ Conclude
    BY <2>1, <2>3 DEF Reject, Start, ModelAnswers, ModelFails, Conclude
  <2>4. CASE DecodeToken
    <3> DEFINE T == [layer : Kinds, text : Texts \cup {Undecodable}]
               token == delivery.tokens[i]
    <3>1. token \in T
      <4>1. delivery.tokens \in Seq(T)
        BY DeliveryFacts
      <4> HIDE DEF T
      <4> QED BY <2>4, <4>1 DEF DecodeToken
    <3>2. Push(token) => token \in DecodedLayer
      BY <3>1 DEF Push, DecodedLayer
    <3>3. layers' = layers \/ (Push(token) /\ layers' = Append(layers, token))
      BY <2>4 DEF DecodeToken
    <3>4. layers \in Seq(DecodedLayer)
      BY DEF LoopInv
    <3> HIDE DEF token, T
    <3>5. layers' \in Seq(DecodedLayer)
      BY <3>2, <3>3, <3>4
    <3>6. hits' = hits /\ surfaces' = surfaces /\ phase' = phase /\ phase = "decode"
      BY <2>4 DEF DecodeToken
    <3> QED BY <3>5, <3>6 DEF LoopInv, DespacedLast, HitRight
  <2>5. CASE ListSurfaces
    <3>1. hits' = {} /\ layers' = layers /\ phase' = "scan"
      BY <2>5 DEF ListSurfaces, LoopInv
    <3> QED BY <2>5, <3>1, ListedLayers DEF LoopInv, Seen
  <2>6. CASE ScanSurface
    <3>1. UNCHANGED <<layers, surfaces, phase>> /\ phase = "scan"
      BY <2>6 DEF ScanSurface
    <3> QED BY <2>6, <3>1, TurnKeeps DEF LoopInv, DespacedLast
  <2>7. CASE EndScan
    <3>1. /\ UNCHANGED <<layers, surfaces>> /\ phase' \in {"model", "decide"}
          /\ hits' = hits \cup InvisibleHit(delivery)
          /\ Zwsp \notin Seen
      BY <2>7 DEF EndScan, LoopInv
    <3>2. \A h \in InvisibleHit(delivery) : h.id = Zwsp /\ h.severity = "high"
      BY DEF InvisibleHit
    <3>3. \A g, h \in InvisibleHit(delivery) : g = h
      BY DEF InvisibleHit
    <3>4. \A h \in hits : h.id # Zwsp
      BY <3>1 DEF Seen
    <3>5. \A g, h \in hits' : g.id = h.id => g = h
      BY <3>1, <3>2, <3>3, <3>4 DEF LoopInv
    <3>6. \A h \in hits' : HitRight(h)
      BY <3>1, <3>2 DEF LoopInv, HitRight
    <3> QED BY <3>1, <3>5, <3>6 DEF LoopInv, DespacedLast, HitRight
  <2> QED BY <2>2, <2>3, <2>4, <2>5, <2>6, <2>7 DEF Next
<1> QED BY <1>1, <1>2, VerificationTypes, ScanCorrect, PTL DEF Spec

-----------------------------------------------------------------------------
(* What the pipeline does with the hits: it asks the model exactly about    *)
(* the deliveries that screening lets through.                              *)

OutcomeInv ==
    /\ phase \in {"start", "decode", "scan", "rejected"} => ~asked
    /\ phase \in {"model", "decide", "done"} => (asked <=> ~Blocking(hits))
    /\ phase = "model" => asked
    /\ phase \in {"decide", "done"} /\ ~asked => llm = Skipped
    /\ phase = "done" =>
          /\ result.verdict = Decide(hits, llm, delivery.trimmed)
          /\ result.safety = SafetyScore(hits, llm)
          /\ result.conformance = ConformanceScore(hits, llm, delivery.trimmed)

THEOREM OutcomeCorrect == Spec => []OutcomeInv
<1>1. Init => OutcomeInv
  BY Zenon DEF Init, OutcomeInv
<1>2. OutcomeInv /\ [Next]_vars => OutcomeInv'
  <2> SUFFICES ASSUME OutcomeInv, [Next]_vars PROVE OutcomeInv'
    OBVIOUS
  <2>1. CASE UNCHANGED vars
    BY <2>1 DEF vars, OutcomeInv
  <2>2. CASE Reject \/ Start \/ DecodeToken \/ ListSurfaces \/ ScanSurface
    BY <2>2 DEF Reject, Start, DecodeToken, ListSurfaces, ScanSurface, OutcomeInv
  <2>3. CASE EndScan
    <3>1. ~asked
      BY <2>3 DEF EndScan, OutcomeInv
    <3> QED BY <2>3, <3>1 DEF EndScan, MayAsk, OutcomeInv
  <2>4. CASE ModelAnswers \/ ModelFails
    BY <2>4 DEF ModelAnswers, ModelFails, OutcomeInv
  <2>5. CASE Conclude
    BY <2>5 DEF Conclude, OutcomeInv
  <2> QED BY <2>1, <2>2, <2>3, <2>4, <2>5 DEF Next
<1> QED BY <1>1, <1>2, PTL DEF Spec

\* A hostile delivery has a hit that blocks it: the signature was recorded, and
\* its severity survives the surface it was recorded on.
LEMMA HostileBlocks ==
    ASSUME TypeOK, ScanInv, LoopInv, phase \in {"model", "decide", "done"}, Hostile
    PROVE  Blocking(hits)
<1>1. CASE delivery.intraWordInvisibles
  <2>1. PICK h \in hits : h.id = Zwsp
    BY <1>1 DEF ScanInv, Seen
  <2>2. h.severity = "high"
    BY <2>1 DEF LoopInv, HitRight
  <2> QED BY <2>2 DEF Blocking, HasSeverity
<1>2. ASSUME NEW m \in DOMAIN surfaces, NEW id \in Signatures, id \in Matches[surfaces[m].text]
      PROVE  \E h \in hits : h.id = id /\ HitRight(h) /\ id # Zwsp
  <2>1. PICK h \in hits : h.id = id
    BY <1>2 DEF ScanInv, Seen
  <2> QED BY <2>1, SignatureAssumption DEF LoopInv
<1>3. \A id \in Signatures : SeverityOf[id] \in Severity
  BY SignatureAssumption
<1>4. ASSUME NEW id \in MatchedOn(Observed), SeverityOf[id] # "medium" PROVE Blocking(hits)
  <2>1. PICK m \in DOMAIN surfaces : surfaces[m].layer # "despaced" /\ id \in Matches[surfaces[m].text]
    BY DEF MatchedOn, Observed, Elements
  <2>2. id \in Signatures
    BY DEF MatchedOn
  <2>3. PICK h \in hits : h.id = id /\ HitRight(h) /\ id # Zwsp
    BY <1>2, <2>1, <2>2
  <2>4. h.severity = SeverityOf[id]
    BY <2>1, <2>3 DEF HitRight
  <2> QED BY <1>3, <1>4, <2>2, <2>3, <2>4 DEF Blocking, HasSeverity, Severity
<1>5. ASSUME NEW id \in MatchedOn(Elements(surfaces)), SeverityOf[id] = "critical"
      PROVE  Blocking(hits)
  <2>1. PICK m \in DOMAIN surfaces : id \in Matches[surfaces[m].text]
    BY DEF MatchedOn, Elements
  <2>2. id \in Signatures
    BY DEF MatchedOn
  <2>3. PICK h \in hits : h.id = id /\ HitRight(h) /\ id # Zwsp
    BY <1>2, <2>1, <2>2
  <2>4. h.severity = "critical" \/ h.severity = "high"
    BY <1>5, <2>3 DEF HitRight, SeverityOn
  <2> QED BY <2>3, <2>4 DEF Blocking, HasSeverity
<1> QED BY <1>1, <1>4, <1>5 DEF Hostile

\* Hostile content is refunded and never shown to the model, whatever readings,
\* tokens and signatures there are.
THEOREM HostileRefunded == Spec => []HostileIsRefunded
<1>1. TypeOK /\ ScanInv /\ LoopInv /\ OutcomeInv => HostileIsRefunded
  <2> SUFFICES ASSUME TypeOK, ScanInv, LoopInv, OutcomeInv, Hostile
               PROVE  ~asked /\ (phase = "done" => result.verdict = "NO_GO")
    BY DEF HostileIsRefunded
  <2>1. CASE phase \in {"start", "decode", "scan", "rejected"}
    BY <2>1 DEF OutcomeInv
  <2>2. CASE phase \in {"model", "decide", "done"}
    BY <2>2, HostileBlocks DEF OutcomeInv, Decide
  <2> QED BY <2>1, <2>2 DEF TypeOK, Phases
<1> QED BY <1>1, VerificationTypes, ScanCorrect, LoopCorrect, OutcomeCorrect, PTL

\* A model that cannot be used holds the money for the buyer, however it failed:
\* it neither releases it nor refunds a delivery that screening let through.
THEOREM UnavailableHolds ==
    Spec => [](phase = "done" /\ ~llm.ok /\ delivery.trimmed >= MinDeliveryChars =>
                 result.verdict = "CAUTION")
<1>1. TypeOK /\ OutcomeInv =>
        (phase = "done" /\ ~llm.ok /\ delivery.trimmed >= MinDeliveryChars =>
           result.verdict = "CAUTION")
  <2> SUFFICES ASSUME TypeOK, OutcomeInv, phase = "done", ~llm.ok,
                      delivery.trimmed >= MinDeliveryChars
               PROVE  result.verdict = "CAUTION"
    OBVIOUS
  <2>1. ~Blocking(hits)
    BY DEF OutcomeInv, Skipped
  <2>2. ~(delivery.trimmed < MinDeliveryChars)
    BY DeliveryFacts, MinCharsAssumption
  <2> QED BY <2>1, <2>2 DEF OutcomeInv, Decide
<1> QED BY <1>1, VerificationTypes, OutcomeCorrect, PTL

\* The number of things that are all the same.
LEMMA AtMostOne ==
    ASSUME NEW S, \A g, h \in S : g = h
    PROVE  Cardinality(S) = IF S = {} THEN 0 ELSE 1
<1>1. CASE S = {}
  BY <1>1, FS_EmptySet
<1>2. ASSUME NEW g \in S PROVE S = {g}
  BY <1>2
<1> QED BY <1>1, <1>2, FS_Singleton

\* Every signature that matches is reported once, and downgraded only if it
\* was never observed.
THEOREM ScreeningCorrect == Spec => []ScreeningFaithful
<1>1. TypeOK /\ ScanInv /\ LoopInv => ScreeningFaithful
  <2> SUFFICES ASSUME TypeOK, ScanInv, LoopInv, phase \in {"model", "decide", "done"}
               PROVE  /\ \A id \in Signatures :
                           Cardinality({h \in hits : h.id = id}) =
                              IF id \in MatchedOn(Elements(surfaces)) THEN 1 ELSE 0
                      /\ \A h \in hits : h.id # Zwsp /\ h.severity # SeverityOf[h.id] =>
                           h.id \notin MatchedOn(Observed)
    BY DEF ScreeningFaithful
  <2>1. ASSUME NEW id \in Signatures
        PROVE  Cardinality({h \in hits : h.id = id}) =
                  IF id \in MatchedOn(Elements(surfaces)) THEN 1 ELSE 0
    <3> DEFINE S == {h \in hits : h.id = id}
    <3>1. \A g, h \in S : g = h
      BY DEF LoopInv
    <3>2. S # {} <=> id \in MatchedOn(Elements(surfaces))
      <4>1. ASSUME NEW h \in S PROVE id \in MatchedOn(Elements(surfaces))
        <5>1. \E m \in DOMAIN surfaces : id \in Matches[surfaces[m].text]
          BY <2>1, <4>1, SignatureAssumption DEF LoopInv, HitRight
        <5> QED BY <2>1, <5>1 DEF MatchedOn, Elements
      <4>2. ASSUME id \in MatchedOn(Elements(surfaces)) PROVE S # {}
        <5>1. \E m \in DOMAIN surfaces : id \in Matches[surfaces[m].text]
          BY <4>2 DEF MatchedOn, Elements
        <5>2. id \in Seen
          BY <5>1 DEF ScanInv
        <5> QED BY <5>2 DEF Seen
      <4> QED BY <4>1, <4>2
    <3>3. Cardinality(S) = IF S = {} THEN 0 ELSE 1
      BY <3>1, AtMostOne
    <3> QED BY <3>2, <3>3
  <2>2. ASSUME NEW h \in hits, h.id # Zwsp, h.severity # SeverityOf[h.id]
        PROVE  h.id \notin MatchedOn(Observed)
    <3>1. \A m \in DOMAIN surfaces :
            surfaces[m].layer # "despaced" => h.id \notin Matches[surfaces[m].text]
      BY <2>2 DEF LoopInv, HitRight
    <3> QED BY <3>1 DEF MatchedOn, Observed, Elements
  <2> QED BY <2>1, <2>2
<1> QED BY <1>1, VerificationTypes, ScanCorrect, LoopCorrect, PTL

-----------------------------------------------------------------------------
(* Tokens: what has been passed over was a repetition, undecodable, or came *)
(* when there were enough layers.                                           *)

Covered(k) ==
    \/ delivery.tokens[k].text = Undecodable
    \/ Len(layers) >= MaxLayers
    \/ delivery.tokens[k] \in Elements(layers)

TokensInv ==
    /\ phase \in {"start", "decode"} => \A k \in DOMAIN delivery.tokens : k < i => Covered(k)
    /\ phase \in {"scan", "model", "decide", "done"} =>
          /\ \A k \in DOMAIN delivery.tokens : Covered(k)
          /\ Elements(layers) \subseteq Elements(surfaces)

\* What a sequence put together from others holds.
LEMMA ElementsConcat ==
    ASSUME NEW S, NEW a \in Seq(S), NEW b \in Seq(S)
    PROVE  a \o b \in Seq(S) /\ Elements(a \o b) = Elements(a) \cup Elements(b)
<1> DEFINE ab == a \o b
<1>1. /\ ab \in Seq(S) /\ Len(ab) = Len(a) + Len(b)
      /\ \A m \in 1..(Len(a) + Len(b)) : ab[m] = IF m <= Len(a) THEN a[m] ELSE b[m - Len(a)]
  BY ConcatProperties
<1>2. /\ Len(a) \in Nat /\ Len(b) \in Nat /\ DOMAIN a = 1..Len(a) /\ DOMAIN b = 1..Len(b)
      /\ DOMAIN ab = 1..(Len(a) + Len(b))
  BY <1>1
<1> HIDE DEF ab
<1>3. ASSUME NEW m \in DOMAIN ab PROVE ab[m] \in Elements(a) \cup Elements(b)
  <2>1. m <= Len(a) => m \in DOMAIN a /\ ab[m] = a[m]
    BY <1>1, <1>2
  <2>2. ~(m <= Len(a)) => m - Len(a) \in DOMAIN b /\ ab[m] = b[m - Len(a)]
    BY <1>1, <1>2
  <2> QED BY <2>1, <2>2 DEF Elements
<1>4. ASSUME NEW m \in DOMAIN a PROVE a[m] \in Elements(ab)
  <2>1. m \in DOMAIN ab /\ ab[m] = a[m]
    BY <1>1, <1>2
  <2> QED BY <2>1 DEF Elements
<1>5. ASSUME NEW m \in DOMAIN b PROVE b[m] \in Elements(ab)
  <2>1. /\ m + Len(a) \in 1..(Len(a) + Len(b)) /\ ~(m + Len(a) <= Len(a))
        /\ (m + Len(a)) - Len(a) = m
    BY <1>2
  <2>2. m + Len(a) \in DOMAIN ab /\ ab[m + Len(a)] = b[m]
    BY <1>1, <1>2, <2>1
  <2> QED BY <2>2 DEF Elements
<1>6. Elements(ab) = Elements(a) \cup Elements(b)
  BY <1>3, <1>4, <1>5 DEF Elements
<1> QED BY <1>1, <1>6 DEF ab

\* What is appended, or prepended and appended to, is still there.
LEMMA MiddleKept ==
    ASSUME NEW S, NEW a \in Seq(S), NEW b \in Seq(S), NEW c \in Seq(S)
    PROVE  Elements(b) \subseteq Elements((a \o b) \o c)
<1>1. a \o b \in Seq(S) /\ Elements(a \o b) = Elements(a) \cup Elements(b)
  BY ElementsConcat
<1> DEFINE ab == a \o b
<1> HIDE DEF ab
<1>2. ab \in Seq(S) => Elements(ab \o c) = Elements(ab) \cup Elements(c)
  BY ElementsConcat
<1> QED BY <1>1, <1>2 DEF ab

\* Everything an encoded token decodes to is screened, up to the limit.
THEOREM EveryTokenScreened == Spec => []TokensScreened
<1>1. Init => TokensInv
  BY DeliveryAssumption DEF Init, TokensInv
<1>2. TypeOK /\ TokensInv /\ [Next]_vars => TokensInv'
  <2> SUFFICES ASSUME TypeOK, TokensInv, [Next]_vars PROVE TokensInv'
    OBVIOUS
  <2>1. CASE UNCHANGED vars
    BY <2>1 DEF vars, TokensInv, Covered
  <2>2. CASE Reject \/ Start \/ ScanSurface \/ EndScan \/ ModelAnswers \/ ModelFails \/ Conclude
    BY <2>2 DEF Reject, Start, ScanSurface, EndScan, ModelAnswers, ModelFails, Conclude,
                TokensInv, Covered
  <2>3. CASE DecodeToken
    <3> DEFINE token == delivery.tokens[i]
    <3>1. /\ phase = "decode" /\ phase' = phase /\ UNCHANGED delivery
          /\ i \in DOMAIN delivery.tokens /\ i' = i + 1
          /\ layers' = IF Push(token) THEN Append(layers, token) ELSE layers
      BY <2>3 DEF DecodeToken
    <3>2. layers \in Seq(Surface) /\ Len(layers) \in Nat /\ MaxLayers \in Nat /\ i \in Nat
      BY LimitAssumption DEF TypeOK
    <3>3. /\ Len(layers') >= Len(layers)
          /\ Elements(layers) \subseteq Elements(layers')
          /\ Push(token) => token \in Elements(layers')
      <4> HIDE DEF token
      <4>1. CASE Push(token)
        <5>1. /\ layers' = Append(layers, token) /\ Len(layers') = Len(layers) + 1
              /\ DOMAIN layers' = 1..(Len(layers) + 1)
              /\ layers'[Len(layers) + 1] = token
              /\ \A m \in DOMAIN layers : m \in DOMAIN layers' /\ layers'[m] = layers[m]
          BY <3>1, <3>2, <4>1
        <5>2. Len(layers) + 1 \in DOMAIN layers'
          BY <3>2, <5>1
        <5> QED BY <3>2, <5>1, <5>2 DEF Elements
      <4>2. CASE ~Push(token)
        BY <3>1, <3>2, <4>2
      <4> QED BY <4>1, <4>2
    <3>4. ASSUME NEW k, k = i PROVE Covered(k)'
      <4>1. CASE Push(token)
        BY <3>1, <3>3, <3>4, <4>1 DEF Covered
      <4>2. CASE ~Push(token)
        <5>1. token.text = Undecodable \/ Len(layers) >= MaxLayers \/ token \in Elements(layers)
          BY <3>2, <4>2 DEF Push, Fresh
        <5> QED BY <3>1, <3>4, <4>2, <5>1 DEF Covered
      <4> QED BY <4>1, <4>2
    <3>5. delivery.tokens \in Seq([layer : Kinds, text : Texts \cup {Undecodable}])
      BY DeliveryFacts
    <3>6. ASSUME NEW k \in DOMAIN delivery.tokens, k < i + 1 PROVE Covered(k)'
      <4>1. k = i \/ k < i
        BY <3>2, <3>5, <3>6
      <4>2. CASE k = i
        BY <3>4, <4>2
      <4>3. CASE k < i
        <5>1. Covered(k)
          BY <3>1, <4>3 DEF TokensInv
        <5>2. Len(layers) >= MaxLayers => Len(layers') >= MaxLayers
          <6>1. Len(layers') \in Nat
            BY <3>2, <3>1
          <6> QED BY <3>2, <3>3, <6>1
        <5> QED BY <3>1, <3>3, <5>1, <5>2 DEF Covered
      <4> QED BY <4>1, <4>2, <4>3
    <3>7. \A k \in DOMAIN delivery'.tokens : k < i' => Covered(k)'
      BY <3>1, <3>6
    <3> QED BY <3>1, <3>7 DEF TokensInv
  <2>4. CASE ListSurfaces
    <3> DEFINE first == <<[layer |-> "raw", text |-> delivery.raw],
                          [layer |-> "normalized", text |-> delivery.normalized]>>
               last == DespacedSurface(delivery)
    <3>1. first \in Seq(Surface) /\ last \in Seq(Surface) /\ layers \in Seq(Surface)
      <4>1. first \in Seq(Surface)
        BY DeliveryFacts DEF Surface, Layers
      <4>2. last \in Seq(Surface)
        BY DespacedTyped
      <4> HIDE DEF first, last
      <4> QED BY <4>1, <4>2 DEF TypeOK
    <3>2. /\ surfaces' = (first \o layers) \o last
          /\ UNCHANGED <<layers, delivery>> /\ phase = "decode" /\ phase' = "scan"
          /\ i \notin DOMAIN delivery.tokens
      BY <2>4 DEF ListSurfaces
    <3> HIDE DEF first, last
    <3>3. Elements(layers) \subseteq Elements(surfaces')
      BY <3>1, <3>2, MiddleKept
    <3>4. \A k \in DOMAIN delivery.tokens : k < i
      <4>1. delivery.tokens \in Seq([layer : Kinds, text : Texts \cup {Undecodable}])
        BY DeliveryFacts
      <4>2. i \in Nat \ {0} /\ i \notin 1..Len(delivery.tokens)
        BY <3>2, <4>1 DEF TypeOK
      <4> QED BY <4>1, <4>2
    <3> QED BY <3>2, <3>3, <3>4 DEF TokensInv, Covered
  <2> QED BY <2>1, <2>2, <2>3, <2>4 DEF Next
<1>3. TypeOK /\ TokensInv => TokensScreened
  <2> SUFFICES ASSUME TypeOK, TokensInv, phase \in {"model", "decide", "done"},
                      Len(layers) < MaxLayers
               PROVE  {t \in Elements(delivery.tokens) : t.text # Undecodable}
                         \subseteq Elements(surfaces)
    BY DEF TokensScreened
  <2>1. ~(Len(layers) >= MaxLayers)
    BY LimitAssumption DEF TypeOK
  <2> QED BY <2>1 DEF TokensInv, Covered, Elements
<1> QED BY <1>1, <1>2, <1>3, VerificationTypes, PTL DEF Spec

-----------------------------------------------------------------------------
(* The verdict is a function of the delivery and the answer.  What is shown *)
(* first is that the loop over the tokens decodes what Decoded says, which  *)
(* looks at all tokens at once, and keeps count of it.                      *)

\* Decoded, of the tokens before k.
DecodedBefore(d, k) ==
    {d.tokens[m] : m \in {n \in DOMAIN d.tokens :
                             /\ n < k /\ d.tokens[n].text # Undecodable
                             /\ Cardinality(Decodable(d, n)) < MaxLayers}}

\* Until the limit is reached everything is there; then nothing changes.
DecodeInv ==
    phase \in {"start", "decode"} =>
        /\ IsFiniteSet(Decodable(delivery, i))
        /\ Elements(layers) = DecodedBefore(delivery, i)
        /\ Cardinality(Decodable(delivery, i)) <= MaxLayers =>
              /\ Elements(layers) = Decodable(delivery, i)
              /\ Len(layers) = Cardinality(Decodable(delivery, i))
        /\ Cardinality(Decodable(delivery, i)) >= MaxLayers => Len(layers) = MaxLayers

\* The sets of the reference at one more token.
LEMMA OneMoreToken ==
    ASSUME NEW d, NEW k \in Nat, k \in DOMAIN d.tokens, DOMAIN d.tokens \subseteq Nat
    PROVE  /\ Decodable(d, k + 1) =
                Decodable(d, k) \cup (IF d.tokens[k].text # Undecodable THEN {d.tokens[k]} ELSE {})
           /\ DecodedBefore(d, k + 1) =
                DecodedBefore(d, k) \cup
                  (IF d.tokens[k].text # Undecodable /\ Cardinality(Decodable(d, k)) < MaxLayers
                   THEN {d.tokens[k]} ELSE {})
<1> DEFINE Ok(n) == d.tokens[n].text # Undecodable
           Room(n) == Cardinality(Decodable(d, n)) < MaxLayers
<1>1. \A n \in DOMAIN d.tokens : n < k + 1 <=> n < k \/ n = k
  OBVIOUS
<1>2. Decodable(d, k + 1) =
        Decodable(d, k) \cup (IF d.tokens[k].text # Undecodable THEN {d.tokens[k]} ELSE {})
  BY <1>1 DEF Decodable
<1>3. /\ DecodedBefore(d, k + 1) =
            {d.tokens[m] : m \in {n \in DOMAIN d.tokens : n < k + 1 /\ Ok(n) /\ Room(n)}}
      /\ DecodedBefore(d, k) =
            {d.tokens[m] : m \in {n \in DOMAIN d.tokens : n < k /\ Ok(n) /\ Room(n)}}
  BY DEF DecodedBefore
<1> HIDE DEF Room
<1>4. DecodedBefore(d, k + 1) =
        DecodedBefore(d, k) \cup (IF Ok(k) /\ Room(k) THEN {d.tokens[k]} ELSE {})
  BY <1>1, <1>3
<1> QED BY <1>2, <1>4 DEF Room

\* One turn of the loop over the tokens.
LEMMA DecodeTurn ==
    ASSUME TypeOK, DecodeInv, DecodeToken
    PROVE  DecodeInv'
<1> DEFINE t == delivery.tokens[i]
           D == Decodable(delivery, i)
           E == DecodedBefore(delivery, i)
           n == Cardinality(D)
<1>1. /\ phase = "decode" /\ phase' = phase /\ UNCHANGED delivery
      /\ i \in DOMAIN delivery.tokens /\ i' = i + 1
      /\ layers' = IF Push(t) THEN Append(layers, t) ELSE layers
  BY DEF DecodeToken
<1>2. /\ layers \in Seq(Surface) /\ Len(layers) \in Nat /\ MaxLayers \in Nat /\ i \in Nat
      /\ DOMAIN delivery.tokens \subseteq Nat
  <2>1. delivery.tokens \in Seq([layer : Kinds, text : Texts \cup {Undecodable}])
    BY DeliveryFacts
  <2> QED BY <2>1, LimitAssumption DEF TypeOK
<1>3. /\ IsFiniteSet(D) /\ Elements(layers) = E
      /\ n <= MaxLayers => Elements(layers) = D /\ Len(layers) = n
      /\ n >= MaxLayers => Len(layers) = MaxLayers
  BY <1>1 DEF DecodeInv
<1>4. n \in Nat
  BY <1>3, FS_CardinalityType
<1>5. /\ Decodable(delivery, i + 1) = D \cup (IF t.text # Undecodable THEN {t} ELSE {})
      /\ DecodedBefore(delivery, i + 1) =
           E \cup (IF t.text # Undecodable /\ n < MaxLayers THEN {t} ELSE {})
  BY <1>1, <1>2, OneMoreToken
<1>6. /\ IsFiniteSet(D \cup {t})
      /\ Cardinality(D \cup {t}) = IF t \in D THEN n ELSE n + 1
  <2> HIDE DEF D, t
  <2> QED BY <1>3, FS_AddElement
<1>7. Push(t) <=> t.text # Undecodable /\ Len(layers) < MaxLayers /\ t \notin E
  BY <1>3 DEF Push, Fresh
<1>8. SUFFICES /\ IsFiniteSet(Decodable(delivery, i + 1))
               /\ Elements(layers') = DecodedBefore(delivery, i + 1)
               /\ Cardinality(Decodable(delivery, i + 1)) <= MaxLayers =>
                     /\ Elements(layers') = Decodable(delivery, i + 1)
                     /\ Len(layers') = Cardinality(Decodable(delivery, i + 1))
               /\ Cardinality(Decodable(delivery, i + 1)) >= MaxLayers => Len(layers') = MaxLayers
  BY <1>1 DEF DecodeInv
<1> HIDE DEF t, D, E, n
<1>9. CASE t.text = Undecodable
  <2>1. layers' = layers /\ Decodable(delivery, i + 1) = D /\ DecodedBefore(delivery, i + 1) = E
    BY <1>1, <1>5, <1>7, <1>9
  <2> QED BY <1>3, <2>1 DEF n
<1>10. CASE t.text # Undecodable /\ n >= MaxLayers
  <2>0. Len(layers) = MaxLayers /\ ~(n < MaxLayers) /\ ~(Len(layers) < MaxLayers)
    BY <1>2, <1>3, <1>4, <1>10
  <2>1. /\ layers' = layers /\ Len(layers) = MaxLayers
        /\ Decodable(delivery, i + 1) = D \cup {t} /\ DecodedBefore(delivery, i + 1) = E
    BY <1>1, <1>5, <1>7, <1>10, <2>0
  <2>2. CASE t \in D
    <3>1. Decodable(delivery, i + 1) = D
      BY <2>1, <2>2
    <3> QED BY <1>2, <1>3, <1>4, <1>10, <2>1, <3>1 DEF n
  <2>3. CASE t \notin D
    <3>1. /\ IsFiniteSet(Decodable(delivery, i + 1))
          /\ Cardinality(Decodable(delivery, i + 1)) = n + 1
      BY <1>6, <2>1, <2>3
    <3>2. ~(n + 1 <= MaxLayers)
      BY <1>2, <1>4, <1>10
    <3> QED BY <1>3, <2>1, <3>1, <3>2
  <2> QED BY <2>2, <2>3
<1>11. CASE t.text # Undecodable /\ n < MaxLayers /\ t \in D
  <2>1. /\ Elements(layers) = D /\ Len(layers) = n /\ E = D
    BY <1>2, <1>3, <1>4, <1>11
  <2>2. /\ layers' = layers /\ D \cup {t} = D
        /\ Decodable(delivery, i + 1) = D /\ DecodedBefore(delivery, i + 1) = E
    BY <1>1, <1>5, <1>7, <1>11, <2>1
  <2> QED BY <1>2, <1>3, <1>4, <1>11, <2>1, <2>2 DEF n
<1>12. CASE t.text # Undecodable /\ n < MaxLayers /\ t \notin D
  <2>1. /\ Elements(layers) = D /\ Len(layers) = n /\ E = D
    BY <1>2, <1>3, <1>4, <1>12
  <2>2. /\ layers' = Append(layers, t)
        /\ Decodable(delivery, i + 1) = D \cup {t} /\ DecodedBefore(delivery, i + 1) = E \cup {t}
    BY <1>1, <1>5, <1>7, <1>12, <2>1
  <2>3. /\ Len(layers') = n + 1 /\ Elements(layers') = D \cup {t}
    <3>1. /\ Len(layers') = Len(layers) + 1 /\ DOMAIN layers' = 1..(Len(layers) + 1)
          /\ layers'[Len(layers) + 1] = t
          /\ \A m \in 1..Len(layers) : layers'[m] = layers[m]
          /\ DOMAIN layers = 1..Len(layers)
      BY <1>2, <2>2
    <3>2. 1..(Len(layers) + 1) = 1..Len(layers) \cup {Len(layers) + 1}
      BY <1>2
    <3>3. Elements(layers') = Elements(layers) \cup {t}
      BY <3>1, <3>2 DEF Elements
    <3> QED BY <2>1, <3>1, <3>3
  <2>4. /\ IsFiniteSet(Decodable(delivery, i + 1))
        /\ Cardinality(Decodable(delivery, i + 1)) = n + 1
    BY <1>6, <1>12, <2>2
  <2>5. n + 1 >= MaxLayers => n + 1 = MaxLayers
    BY <1>2, <1>4, <1>12
  <2> QED BY <2>1, <2>2, <2>3, <2>4, <2>5
<1> QED BY <1>2, <1>4, <1>9, <1>10, <1>11, <1>12

\* The surfaces read are those of the reference, whatever their order.
ReadInv ==
    /\ DecodeInv
    /\ phase \in {"scan", "model", "decide", "done"} =>
          /\ MatchedOn(Observed) = InSight(delivery)
          /\ MatchedOn(Elements(surfaces)) = InSight(delivery) \cup Matches[delivery.despaced]
    /\ phase \in {"model", "decide", "done"} /\ Zwsp \in Seen => delivery.intraWordInvisibles

\* What has been decoded in the end is Decoded, and what is listed is the four
\* kinds of readings of the reference.
LEMMA ListedRead ==
    ASSUME TypeOK, LoopInv, DecodeInv, ListSurfaces
    PROVE  /\ MatchedOn(Observed)' = InSight(delivery)
           /\ MatchedOn(Elements(surfaces))' = InSight(delivery) \cup Matches[delivery.despaced]
<1> DEFINE raw == [layer |-> "raw", text |-> delivery.raw]
           normalized == [layer |-> "normalized", text |-> delivery.normalized]
           despaced == [layer |-> "despaced", text |-> delivery.despaced]
           first == <<raw, normalized>>
           last == DespacedSurface(delivery)
<1>1. /\ phase = "decode" /\ i \notin DOMAIN delivery.tokens
      /\ surfaces' = (first \o layers) \o last
  BY DEF ListSurfaces
<1>2. Elements(layers) = Decoded(delivery)
  <2>1. delivery.tokens \in Seq([layer : Kinds, text : Texts \cup {Undecodable}])
    BY DeliveryFacts
  <2>2. \A n \in DOMAIN delivery.tokens : n < i
    BY <1>1, <2>1 DEF TypeOK
  <2>3. DecodedBefore(delivery, i) = Decoded(delivery)
    BY <2>2 DEF DecodedBefore, Decoded
  <2> QED BY <1>1, <2>3 DEF DecodeInv
<1>3. /\ first \in Seq(Surface) /\ last \in Seq(Surface) /\ layers \in Seq(Surface)
      /\ Elements(first) = {raw, normalized}
  <2>1. raw \in Surface /\ normalized \in Surface
    BY DeliveryFacts DEF Surface, Layers
  <2>2. last \in Seq(Surface)
    BY DespacedTyped
  <2> HIDE DEF raw, normalized, last
  <2>3. first \in Seq(Surface) /\ DOMAIN first = {1, 2} /\ first[1] = raw /\ first[2] = normalized
    BY <2>1
  <2>4. Elements(first) = {raw, normalized}
    BY <2>3 DEF Elements
  <2> QED BY <2>2, <2>3, <2>4 DEF TypeOK
<1>4. Elements(last) = IF delivery.despaced = delivery.normalized THEN {} ELSE {despaced}
  BY DEF DespacedSurface, Elements
<1>5. Elements(surfaces') = ({raw, normalized} \cup Decoded(delivery)) \cup Elements(last)
  <2> HIDE DEF first, last, raw, normalized
  <2> DEFINE both == first \o layers
  <2>1. both \in Seq(Surface) /\ Elements(both) = Elements(first) \cup Elements(layers)
    BY <1>3, ElementsConcat
  <2> HIDE DEF both
  <2>2. Elements(both \o last) = Elements(both) \cup Elements(last)
    BY <1>3, <2>1, ElementsConcat
  <2> QED BY <1>1, <1>2, <1>3, <2>1, <2>2 DEF both
<1>6. \A t \in Decoded(delivery) : t.text \in Texts /\ t.layer # "despaced"
  <2>1. layers \in Seq(DecodedLayer)
    BY DEF LoopInv
  <2>2. \A k \in DOMAIN layers : layers[k] \in DecodedLayer
    BY <2>1
  <2>3. Decoded(delivery) \subseteq DecodedLayer
    BY <1>2, <2>2 DEF Elements
  <2> QED BY <2>3, SignatureAssumption DEF DecodedLayer
<1>7. /\ Matches[delivery.raw] \subseteq Signatures /\ Matches[delivery.normalized] \subseteq Signatures
      /\ Matches[delivery.despaced] \subseteq Signatures
      /\ \A t \in Decoded(delivery) : Matches[t.text] \subseteq Signatures
  BY <1>6, DeliveryFacts, SignatureAssumption
<1>8. /\ raw.text = delivery.raw /\ raw.layer # "despaced"
      /\ normalized.text = delivery.normalized /\ normalized.layer # "despaced"
      /\ despaced.text = delivery.despaced /\ despaced.layer = "despaced"
  OBVIOUS
<1> HIDE DEF raw, normalized, despaced, last
<1>9. MatchedOn(Observed)' = InSight(delivery)
  <2>1. Observed' = {raw, normalized} \cup Decoded(delivery)
    BY <1>4, <1>5, <1>6, <1>8 DEF Observed
  <2>2. MatchedOn(Observed)' =
          {id \in Signatures : \E s \in {raw, normalized} \cup Decoded(delivery) : id \in Matches[s.text]}
    BY <2>1 DEF MatchedOn
  <2> QED BY <1>7, <1>8, <2>2 DEF InSight
<1>10. MatchedOn(Elements(surfaces))' = InSight(delivery) \cup Matches[delivery.despaced]
  <2>1. MatchedOn(Elements(surfaces))' =
          {id \in Signatures :
             \E s \in ({raw, normalized} \cup Decoded(delivery)) \cup Elements(last) : id \in Matches[s.text]}
    BY <1>5 DEF MatchedOn, Elements
  <2>2. CASE delivery.despaced = delivery.normalized
    BY <1>4, <1>7, <1>8, <2>1, <2>2 DEF InSight
  <2>3. CASE delivery.despaced # delivery.normalized
    BY <1>4, <1>7, <1>8, <2>1, <2>3 DEF InSight
  <2> QED BY <2>2, <2>3
<1> QED BY <1>9, <1>10

LEMMA ReadKept == TypeOK /\ LoopInv /\ ReadInv /\ [Next]_vars => ReadInv'
<1> SUFFICES ASSUME TypeOK, LoopInv, ReadInv, [Next]_vars PROVE ReadInv'
  OBVIOUS
<1>1. CASE UNCHANGED vars
  BY <1>1 DEF vars, ReadInv, DecodeInv, MatchedOn, Observed, Elements, Seen
<1>2. CASE Reject \/ Start
  BY <1>2 DEF Reject, Start, ReadInv, DecodeInv, Elements
<1>3. CASE DecodeToken
  <2>1. phase' = "decode"
    BY <1>3 DEF DecodeToken
  <2> QED BY <1>3, <2>1, DecodeTurn DEF ReadInv
<1>4. CASE ListSurfaces
  <2>1. phase' = "scan" /\ UNCHANGED delivery
    BY <1>4 DEF ListSurfaces
  <2> QED BY <1>4, <2>1, ListedRead DEF ReadInv, DecodeInv
<1>5. CASE ScanSurface
  <2>1. phase = "scan" /\ phase' = "scan" /\ UNCHANGED <<delivery, surfaces>>
    BY <1>5 DEF ScanSurface
  <2> QED BY <2>1 DEF ReadInv, DecodeInv, MatchedOn, Observed, Elements
<1>6. CASE EndScan
  <2>1. /\ phase = "scan" /\ phase' \in {"model", "decide"} /\ UNCHANGED <<delivery, surfaces>>
        /\ hits' = hits \cup InvisibleHit(delivery)
    BY <1>6 DEF EndScan
  <2>2. Zwsp \in Seen' => delivery.intraWordInvisibles
    BY <2>1 DEF LoopInv, Seen, InvisibleHit
  <2> QED BY <2>1, <2>2 DEF ReadInv, DecodeInv, MatchedOn, Observed, Elements
<1>7. CASE ModelAnswers \/ ModelFails \/ Conclude
  <2>1. /\ phase \in {"model", "decide"} /\ phase' \in {"decide", "done"}
        /\ UNCHANGED <<delivery, surfaces, hits>>
    BY <1>7 DEF ModelAnswers, ModelFails, Conclude
  <2> QED BY <2>1 DEF ReadInv, DecodeInv, MatchedOn, Observed, Elements, Seen
<1> QED BY <1>1, <1>2, <1>3, <1>4, <1>5, <1>6, <1>7 DEF Next

LEMMA ReadCorrect == Spec => []ReadInv
<1>1. Init => ReadInv
  <2> SUFFICES ASSUME Init PROVE ReadInv
    OBVIOUS
  <2>1. phase = "start" /\ i = 1 /\ layers = <<>> /\ delivery \in Deliveries
    BY DEF Init
  <2>2. \A n \in DOMAIN delivery.tokens : ~(n < 1)
    BY <2>1, DeliveryAssumption
  <2>3. Decodable(delivery, i) = {} /\ DecodedBefore(delivery, i) = {} /\ Elements(layers) = {}
    <3>1. Decodable(delivery, i) = {}
      BY <2>1, <2>2 DEF Decodable
    <3>2. \A n \in DOMAIN delivery.tokens : ~(n < i)
      BY <2>1, <2>2
    <3>3. DecodedBefore(delivery, i) = {}
      BY <3>2, Zenon DEF DecodedBefore
    <3>4. Elements(layers) = {}
      BY <2>1 DEF Elements
    <3> QED BY <3>1, <3>3, <3>4
  <2>4. IsFiniteSet(Decodable(delivery, i)) /\ Cardinality(Decodable(delivery, i)) = 0
    BY <2>3, FS_EmptySet
  <2>5. Len(layers) = 0 /\ (0 >= MaxLayers => MaxLayers = 0)
    BY <2>1, LimitAssumption
  <2> QED BY <2>1, <2>3, <2>4, <2>5 DEF ReadInv, DecodeInv
<1> QED BY <1>1, ReadKept, VerificationTypes, LoopCorrect, PTL DEF Spec

\* A finding that blocks has been observed, or survives being downgraded.
LEMMA BlockingMeans ==
    ASSUME TypeOK, ScanInv, LoopInv, ReadInv, phase \in {"model", "decide", "done"}
    PROVE  /\ Blocking(hits) <=> Blocked(delivery)
           /\ ~Blocked(delivery) =>
                (hits = {} <=> InSight(delivery) \cup Matches[delivery.despaced] = {})
<1>1. /\ MatchedOn(Observed) = InSight(delivery)
      /\ MatchedOn(Elements(surfaces)) = InSight(delivery) \cup Matches[delivery.despaced]
      /\ Zwsp \in Seen => delivery.intraWordInvisibles
  BY DEF ReadInv
<1>2. Blocked(delivery) => Hostile
  BY <1>1 DEF Blocked, Hostile
<1>3. Hostile => Blocked(delivery)
  <2>1. ASSUME NEW id \in MatchedOn(Elements(surfaces)), SeverityOf[id] = "critical"
        PROVE  Blocked(delivery)
    BY <1>1, <2>1 DEF Blocked
  <2> QED BY <1>1, <2>1 DEF Blocked, Hostile
<1>4. ASSUME NEW h \in hits, h.severity = "critical" \/ h.severity = "high" PROVE Hostile
  <2>1. HitRight(h)
    BY DEF LoopInv
  <2>2. CASE h.id = Zwsp
    BY <1>1, <2>2 DEF Seen, Hostile
  <2>3. CASE /\ h.id \in Signatures /\ h.severity = SeverityOf[h.id]
             /\ \E m \in DOMAIN surfaces :
                  surfaces[m].layer # "despaced" /\ h.id \in Matches[surfaces[m].text]
    <3>1. h.id \in MatchedOn(Observed)
      BY <2>3 DEF MatchedOn, Observed, Elements
    <3> QED BY <1>4, <2>3, <3>1 DEF Hostile
  <2>4. CASE /\ h.id \in Signatures /\ h.severity = SeverityOn(SeverityOf[h.id], "despaced")
             /\ \E m \in DOMAIN surfaces : h.id \in Matches[surfaces[m].text]
    <3>1. h.id \in MatchedOn(Elements(surfaces))
      BY <2>4 DEF MatchedOn, Elements
    <3>2. SeverityOf[h.id] = "critical"
      BY <1>4, <2>4 DEF SeverityOn
    <3> QED BY <3>1, <3>2 DEF Hostile
  <2> QED BY <2>1, <2>2, <2>3, <2>4 DEF HitRight
<1>5. Blocking(hits) <=> Blocked(delivery)
  BY <1>2, <1>3, <1>4, HostileBlocks DEF Blocking, HasSeverity
<1>6. ASSUME hits = {} PROVE MatchedOn(Elements(surfaces)) = {}
  <2>1. \A m \in DOMAIN surfaces : Matches[surfaces[m].text] = {}
    BY <1>6 DEF ScanInv, Seen
  <2> QED BY <2>1 DEF MatchedOn, Elements
<1>7. ASSUME NEW h \in hits, ~Blocked(delivery) PROVE MatchedOn(Elements(surfaces)) # {}
  <2>1. HitRight(h) /\ h.id # Zwsp
    BY <1>1, <1>7 DEF LoopInv, Seen, Blocked
  <2>2. h.id \in MatchedOn(Elements(surfaces))
    BY <2>1 DEF HitRight, MatchedOn, Elements
  <2> QED BY <2>2
<1> QED BY <1>1, <1>5, <1>6, <1>7

\* The verdict on a delivery is what the reference says, whatever order its
\* surfaces and signatures come in: two evaluations of it differ only if the
\* model does, and what is refused without the model is refused every time.
THEOREM VerdictDetermined == Spec => []VerdictIsFunction
<1>1. TypeOK /\ ScanInv /\ LoopInv /\ ReadInv /\ OutcomeInv => VerdictIsFunction
  <2> SUFFICES ASSUME TypeOK, ScanInv, LoopInv, ReadInv, OutcomeInv,
                      phase \in {"model", "decide", "done"}
               PROVE  /\ asked <=> ~Blocked(delivery)
                      /\ phase = "done" => result.verdict = VerdictOn(delivery, llm)
    BY DEF VerdictIsFunction
  <2>1. /\ Blocking(hits) <=> Blocked(delivery)
        /\ ~Blocked(delivery) =>
             (hits = {} <=> InSight(delivery) \cup Matches[delivery.despaced] = {})
    BY BlockingMeans
  <2>2. asked <=> ~Blocked(delivery)
    BY <2>1 DEF OutcomeInv
  <2>3. \A h \in hits : h.severity \in Severity
    BY DEF TypeOK
  <2>4. ~Blocking(hits) => (HasSeverity(hits, "medium") <=> hits # {})
    BY <2>3 DEF Blocking, HasSeverity, Severity
  <2>5. llm.safety \in Safety /\ llm.conformance \in Conformance
    BY DEF TypeOK, Assessment
  <2>6. Decide(hits, llm, delivery.trimmed) = VerdictOn(delivery, llm)
    <3> DEFINE clean == InSight(delivery) \cup Matches[delivery.despaced] = {}
               medium == HasSeverity(hits, "medium")
    <3>1. ~Blocked(delivery) => (medium <=> ~clean)
      BY <2>1, <2>4
    <3>2. /\ Decide(hits, llm, delivery.trimmed) =
               IF Blocked(delivery) THEN "NO_GO"
               ELSE IF delivery.trimmed < MinDeliveryChars THEN "NO_GO"
               ELSE IF ~llm.ok THEN "CAUTION"
               ELSE IF llm.safety = "hostile" THEN "NO_GO"
               ELSE IF llm.conformance = "fail" THEN "NO_GO"
               ELSE IF llm.safety = "suspicious" \/ llm.conformance = "partial" \/ medium
                    THEN "CAUTION"
               ELSE "GO"
          /\ VerdictOn(delivery, llm) =
               IF Blocked(delivery) \/ delivery.trimmed < MinDeliveryChars THEN "NO_GO"
               ELSE IF ~llm.ok THEN "CAUTION"
               ELSE IF llm.safety = "hostile" \/ llm.conformance = "fail" THEN "NO_GO"
               ELSE IF llm.safety = "safe" /\ llm.conformance = "pass" /\ clean THEN "GO"
               ELSE "CAUTION"
      BY <2>1 DEF Decide, VerdictOn
    <3> HIDE DEF clean, medium
    <3> QED BY <2>5, <3>1, <3>2 DEF Safety, Conformance
  <2> QED BY <2>2, <2>6 DEF OutcomeInv
<1> QED BY <1>1, VerificationTypes, ScanCorrect, LoopCorrect, ReadCorrect, OutcomeCorrect, PTL

-----------------------------------------------------------------------------
(* The numbers shown beside the verdict.                                    *)

\* The scores contradict the verdict nowhere in the table.
LEMMA ScoresFollow ==
    ASSUME NEW found, NEW a \in Assessment, NEW n \in Nat,
           \A h \in found : h.severity \in Severity
    PROVE  LET safety == SafetyScore(found, a)
               conformance == ConformanceScore(found, a, n)
           IN  /\ safety \in 0..100 /\ conformance \in 0..100
               /\ Decide(found, a, n) = "GO" <=> safety >= 90 /\ conformance >= 90
               /\ Blocking(found) => safety <= 10
<1> DEFINE base == IF a.ok THEN SafetyBase[a.safety] ELSE 40
           score == Clamp(base - Penalty(found))
           safety == SafetyScore(found, a)
           conformance == ConformanceScore(found, a, n)
<1>1. base \in {95, 45, 5, 40} /\ (base = 95 <=> a.ok /\ a.safety = "safe")
  BY DEF SafetyBase, Assessment, Safety
<1>2. /\ Penalty(found) \in {95, 60, 20, 0}
      /\ Penalty(found) = 0 <=> ~Blocking(found) /\ ~HasSeverity(found, "medium")
  BY DEF Penalty, Blocking
<1>3. /\ safety = IF Blocking(found) /\ score > 10 THEN 10 ELSE score
  BY DEF SafetyScore
<1> HIDE DEF base, safety
<1>4. score \in 0..100 /\ (score >= 90 <=> base = 95 /\ Penalty(found) = 0)
  BY <1>1, <1>2 DEF Clamp
<1> HIDE DEF score
<1>5. /\ safety \in 0..100 /\ (Blocking(found) => safety <= 10)
      /\ safety >= 90 <=> /\ a.ok /\ a.safety = "safe"
                          /\ ~Blocking(found) /\ ~HasSeverity(found, "medium")
  BY <1>1, <1>2, <1>3, <1>4
<1>6. conformance = IF ~Blocking(found) /\ n < MinDeliveryChars THEN 5
                    ELSE Clamp(IF a.ok THEN ConformanceBase[a.conformance] ELSE 50)
  BY DEF ConformanceScore
<1>7. (IF a.ok THEN ConformanceBase[a.conformance] ELSE 50) \in {92, 55, 12, 50}
      /\ ((IF a.ok THEN ConformanceBase[a.conformance] ELSE 50) = 92 <=> a.ok /\ a.conformance = "pass")
  BY DEF ConformanceBase, Assessment, Conformance
<1> HIDE DEF conformance
<1>8. /\ conformance \in 0..100
      /\ ~Blocking(found) =>
           (conformance >= 90 <=> ~(n < MinDeliveryChars) /\ a.ok /\ a.conformance = "pass")
  BY <1>6, <1>7 DEF Clamp
<1>9. Decide(found, a, n) = "GO" <=>
        /\ ~Blocking(found) /\ ~(n < MinDeliveryChars) /\ a.ok
        /\ a.safety = "safe" /\ a.conformance = "pass" /\ ~HasSeverity(found, "medium")
  BY DEF Decide, Assessment, Safety, Conformance
<1> QED BY <1>5, <1>8, <1>9 DEF safety, conformance

\* What the buyer reads next to the verdict agrees with it.
THEOREM ScoresRight == Spec => []ScoresAgree
<1>1. TypeOK /\ OutcomeInv => ScoresAgree
  <2> SUFFICES ASSUME TypeOK, OutcomeInv, phase = "done"
               PROVE  /\ result.safety \in 0..100 /\ result.conformance \in 0..100
                      /\ result.verdict = "GO" <=> result.safety >= 90 /\ result.conformance >= 90
                      /\ Blocking(hits) => result.safety <= 10
    BY DEF ScoresAgree
  <2>1. llm \in Assessment /\ delivery.trimmed \in Nat
    BY DeliveryFacts DEF TypeOK
  <2>2. \A h \in hits : h.severity \in Severity
    BY DEF TypeOK
  <2> QED BY <2>1, <2>2, ScoresFollow DEF OutcomeInv
<1> QED BY <1>1, VerificationTypes, OutcomeCorrect, PTL

=============================================================================

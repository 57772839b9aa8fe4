--------------------------- MODULE MC_Verification ---------------------------
(* One signature of each severity, one text that matches each and one that  *)
(* matches none, up to four embedded tokens of which two are decoded.       *)
EXTENDS Verification

CONSTANTS clean, undecodable

MC_Signatures == {"override", "exfiltration", "urgency"}
MC_SeverityOf == [s \in MC_Signatures |->
    CASE s = "override" -> "critical" [] s = "exfiltration" -> "high" [] OTHER -> "medium"]
MC_Texts == MC_Signatures \cup {clean}
MC_Matches == [t \in MC_Texts |-> {t} \cap MC_Signatures]
MC_Kinds == {"base64", "hex"}

Token(kind, text) == [layer |-> kind, text |-> text]

\* None; one; a repeated one; two kinds; more than maxLayers; one that is not text.
MC_Tokens ==
    {<<>>} \cup {<<Token("base64", t)>> : t \in MC_Texts}
    \cup {<<Token("base64", "urgency"), Token("base64", "urgency"), Token("base64", t)>> : t \in MC_Texts}
    \cup {<<Token("base64", undecodable), Token("base64", clean), Token("hex", clean), Token("hex", t)>> :
            t \in MC_Texts}

Lengths == {[length |-> 2, trimmed |-> 1], [length |-> 3, trimmed |-> 2],
            [length |-> 4, trimmed |-> 4]}

MC_Deliveries ==
    {[raw |-> r, normalized |-> n, despaced |-> d, tokens |-> t,
      intraWordInvisibles |-> v, length |-> l.length, trimmed |-> l.trimmed] :
        r \in {clean, "urgency"}, n \in MC_Texts, d \in MC_Texts,
        t \in MC_Tokens, v \in BOOLEAN, l \in Lengths}
=============================================================================

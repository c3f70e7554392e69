------------------------------ MODULE Documents ------------------------------
(***************************************************************************)
(* A figure read out of a document and compared with a claim (document.ts, *)
(* asked for by the document-check route): by a path, when the document is *)
(* JSON, or else by a model. The hash of the document, the wording of the  *)
(* quote and the graph of the trace are left out.                          *)
(***************************************************************************)
EXTENDS Reconciler

CONSTANTS
    Figures,        \* what a document may say, in its own unit
    Scales,         \* scaleToBps
    Tolerances,     \* in bps
    Claimed         \* what a claim may assert, in bps

ASSUME DocumentsAssumption ==
    Figures \subseteq Nat /\ Scales \subseteq Nat /\ Tolerances \subseteq Nat
      /\ Claimed \subseteq Nat \ {0}

NoFigure == -1
NaN == -1          \* a parameter that is no number

\* What the path leads to: a figure, and what parseFloat makes of it. It stops at a
\* separator of thousands, and finds nothing in what does not start with a digit.
Fields == {f \in [says : Figures, read : Figures \cup {NoFigure}] : f.read <= f.says}

\* What the address serves: an error page or not, its field and its text.
Documents ==
    [error : BOOLEAN, field : Fields, text : Figures \cup {NoFigure}] \cup {Failed}

\* How a model answers: a percentage and a quote it may have made up.
Replies ==
    [valuePercent : Figures \cup {NoFigure}, quote : {"verbatim", "invented"}]
      \cup {Failed}

\* A claim is refused when it asserts no positive number; its other numbers are taken
\* as they come.
Requests ==
    [asserted : Claimed, tolerance : Tolerances \cup {NaN},
     jsonPath : BOOLEAN, scaleToBps : Scales \cup {NaN}]

extractStructured(document, ref) ==
    IF ~ref.jsonPath \/ document.field.read = NoFigure THEN Failed
    ELSE [method |-> "json-path",
          valueBps |-> IF ref.scaleToBps = NaN THEN NaN
                       ELSE document.field.read * ref.scaleToBps]

\* The value is kept whatever the quote is.
parseExtraction(reply) ==
    IF reply.valuePercent = NoFigure THEN Failed
    ELSE [method |-> "llm", valueBps |-> reply.valuePercent * 100]

extracted(document, ref, reply) ==
    LET structured == extractStructured(document, ref)
    IN IF ~Failing(structured) THEN structured
       ELSE IF Failing(reply) THEN Failed ELSE parseExtraction(reply)

\* Fault: an error page is read like any other.
AnyPageEvidence(document, ref, reply) ==
    IF Failing(document) THEN Failed ELSE extracted(document, ref, reply)

fetchDocumentEvidence(document, ref, reply) ==
    IF Failing(document) THEN Failed
    ELSE IF document.error THEN Failed
    ELSE extracted(document, ref, reply)

\* No comparison with what is no number holds.
crossCheckDocument(asserted, extraction, tolerance) ==
    IF Failing(extraction) THEN "ABSTAIN"
    ELSE IF /\ extraction.valueBps # NaN /\ tolerance # NaN
            /\ Abs(asserted - extraction.valueBps) <= tolerance
    THEN "VALID" ELSE "REJECTED"

=============================================================================

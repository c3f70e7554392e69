--------------------------- MODULE EvidenceProofs ---------------------------
(***************************************************************************)
(* What a verdict is worth, whatever sources, runs, models, nodes and      *)
(* documents answer, for every tolerance, gate, window and set of values.  *)
(* A step of Evidence is one computation, so that each theorem rests on a  *)
(* lemma about what that computation returns.                              *)
(***************************************************************************)
EXTENDS Evidence, ReconcilerProofs

-----------------------------------------------------------------------------
\* The legs behind a verdict.

\* What the sources leave.
LEMMA LegsOfSources ==
  ASSUME NEW S, Failed \notin S, NEW n \in Nat, NEW sources \in [1..n -> S \cup {Failed}]
  PROVE  LET legs == getYieldObservation(sources)
         IN legs \in Seq(S) /\ (~Throws(sources) => legs # <<>>)
<1> DEFINE legs == getYieldObservation(sources)
           answered == {sources[i] : i \in {j \in 1..n : sources[j] # Failed}}
<1>1. legs \in Seq(answered)
  <2>1. DOMAIN sources = 1..n
    OBVIOUS
  <2> QED BY <2>1, LeftOver
<1>2. answered \subseteq S
  OBVIOUS
<1> HIDE DEF answered
<1>3. ~Throws(sources) => legs # <<>>
  BY DEF Throws
<1> HIDE DEF legs
<1>4. legs \in Seq(S)
  BY <1>1, <1>2
<1> QED BY <1>3, <1>4 DEF legs

\* What passes the freshness gate has a leg that is fresh, or none with a date.
LEMMA FreshLeg ==
  ASSUME NEW legs, \A leg \in Range(legs) : leg.age \in Nat \cup {NoStamp},
         freshnessGate(legs)
  PROVE  \/ \E leg \in Range(legs) : leg.age \in 0..maxStalenessDays
         \/ \A leg \in Range(legs) : leg.age = NoStamp
<1> DEFINE stamped == {leg.age : leg \in {l \in Range(legs) : l.age # NoStamp}}
<1>1. stamped \in SUBSET Nat
  OBVIOUS
<1>2. stamped = {} \/ Min(stamped) <= maxStalenessDays
  BY DEF freshnessGate
<1>3. CASE stamped = {}
  BY <1>3
<1>4. CASE stamped # {}
  <2>1. Min(stamped) \in stamped
    <3> HIDE DEF stamped
    <3> QED BY <1>1, <1>4, LeastNatural
  <2>2. PICK leg \in Range(legs) : leg.age = Min(stamped)
    BY <2>1
  <2>3. leg.age \in 0..maxStalenessDays
    BY <1>1, <1>2, <1>4, <2>1, <2>2, ReconcilerAssumption DEF ReconcilerAssumption
  <2> QED BY <2>3
<1> QED BY <1>3, <1>4

LEMMA JudgedInBounds ==
  ASSUME NEW legs, NEW asserted, Judge(legs, asserted) # "ABSTAIN"
  PROVE  /\ freshnessGate(legs)
         /\ \A leg \in Range(legs) : leg.valueBps >= minBps /\ leg.valueBps <= maxBps
BY DEF Judge, runGates, boundsGate

\* The claim is as far from each leg as from the value judged, give or take the spread.
LEMMA FarFromEachLeg ==
  ASSUME NEW r \in Int, NEW v \in Int, NEW a \in Int, NEW spread \in Nat,
         NEW tolerance \in Nat, spread <= tolerance, Abs(r - v) <= spread
  PROVE  IF Abs(r - a) <= verdictToleranceBps
         THEN Abs(v - a) <= verdictToleranceBps + tolerance
         ELSE Abs(v - a) > verdictToleranceBps - tolerance
BY ReconcilerAssumption DEF ReconcilerAssumption, Abs

LEMMA DecisiveBearsOut ==
  ASSUME computeDecisiveAttestation
  PROVE  EveryLegBearsOut'
<1>1. PICK sources \in Sources, asserted \in Values,
           outcome \in [Providers -> Outcomes] :
        LET legs == getYieldObservation(sources)
        IN answer' = [path |-> "decisive", legs |-> legs, asserted |-> asserted,
                      outcome |-> outcome,
                      verdict |-> IF Throws(sources) THEN "thrown"
                                  ELSE Judge(legs, asserted),
                      narration |-> narrateDecisive(outcome)]
  BY DEF computeDecisiveAttestation
<1> DEFINE legs == getYieldObservation(sources)
<1>2. /\ answer'.legs = legs /\ answer'.asserted = asserted
      /\ answer'.verdict = IF Throws(sources) THEN "thrown" ELSE Judge(legs, asserted)
  BY <1>1
<1> SUFFICES ASSUME answer'.verdict \in {"VALID", "REJECTED"}
             PROVE  /\ \A leg \in Range(legs) :
                         LET gap == Abs(leg.valueBps - asserted)
                         IN /\ leg.valueBps >= minBps /\ leg.valueBps <= maxBps
                            /\ IF answer'.verdict = "VALID"
                               THEN gap <= verdictToleranceBps + reconcileToleranceBps
                               ELSE gap > verdictToleranceBps - reconcileToleranceBps
                    /\ \/ \E leg \in Range(legs) : leg.age \in 0..maxStalenessDays
                       \/ \A leg \in Range(legs) : leg.age = NoStamp
  BY <1>2 DEF EveryLegBearsOut
<1>3. ~Throws(sources) /\ answer'.verdict = Judge(legs, asserted)
  BY <1>2
<1>4. Judge(legs, asserted) # "ABSTAIN"
  BY <1>3
<1>5. PICK n \in 1..MAX_SOURCES : sources \in [1..n -> Legs \cup {Failed}]
  BY DEF Sources
<1>6. Failed \notin Legs
  BY DEF Legs, Failed
<1>7. legs \in Seq(Legs) /\ legs # <<>>
  <2>1. n \in Nat
    BY EvidenceAssumption DEF EvidenceAssumption
  <2> QED BY <1>3, <1>5, <1>6, <2>1, LegsOfSources
<1> HIDE DEF legs
<1>8. /\ \A leg \in Legs : leg.valueBps \in Int /\ leg.age \in Nat \cup {NoStamp}
      /\ asserted \in Int
  BY EvidenceAssumption DEF EvidenceAssumption, Legs
<1>9. \A leg \in Range(legs) : leg \in Legs /\ \E i \in 1..Len(legs) : leg = legs[i]
  BY <1>7 DEF Range
<1>10. PICK r \in Int :
         /\ \A i \in 1..Len(legs) : Abs(r - LegValues(legs)[i]) <= Spread(LegValues(legs))
         /\ Judge(legs, asserted) = IF Abs(r - asserted) <= verdictToleranceBps
                                    THEN "VALID" ELSE "REJECTED"
  BY <1>4, <1>7, <1>8, VerdictIsOnAValueNearTheLegs
<1>11. /\ Spread(LegValues(legs)) <= reconcileToleranceBps
       /\ LegValues(legs) \in Seq(Int) /\ Len(LegValues(legs)) = Len(legs)
  BY <1>4, <1>7, <1>8, VerdictIsOnAValueNearTheLegs
<1>12. Spread(LegValues(legs)) \in Nat /\ reconcileToleranceBps \in Nat
  BY <1>4, <1>7, <1>8, VerdictIsOnAValueNearTheLegs, ReconcilerAssumption
     DEF ReconcilerAssumption
<1>13. ASSUME NEW leg \in Range(legs)
       PROVE  IF answer'.verdict = "VALID"
              THEN Abs(leg.valueBps - asserted)
                     <= verdictToleranceBps + reconcileToleranceBps
              ELSE Abs(leg.valueBps - asserted)
                     > verdictToleranceBps - reconcileToleranceBps
  <2>1. PICK i \in 1..Len(legs) : leg = legs[i]
    BY <1>9
  <2>2. LegValues(legs)[i] = leg.valueBps
    BY <1>7, <2>1 DEF LegValues
  <2>3. Abs(r - leg.valueBps) <= Spread(LegValues(legs)) /\ leg.valueBps \in Int
    BY <1>8, <1>9, <1>10, <2>2
  <2>4. IF Abs(r - asserted) <= verdictToleranceBps
        THEN Abs(leg.valueBps - asserted) <= verdictToleranceBps + reconcileToleranceBps
        ELSE Abs(leg.valueBps - asserted) > verdictToleranceBps - reconcileToleranceBps
    BY <1>8, <1>11, <1>12, <2>3, FarFromEachLeg
  <2> QED BY <1>3, <1>10, <2>4
<1>14. \/ \E leg \in Range(legs) : leg.age \in 0..maxStalenessDays
       \/ \A leg \in Range(legs) : leg.age = NoStamp
  BY <1>4, <1>8, <1>9, JudgedInBounds, FreshLeg
<1> QED BY <1>4, <1>13, <1>14, JudgedInBounds

-----------------------------------------------------------------------------
\* The figure of a document.

\* What is extracted by the path, or else by the model.
LEMMA Extracted ==
  ASSUME NEW document \in Documents, ~Failing(document), NEW ref \in Requests,
         NEW reply \in Replies, NEW e, e = extracted(document, ref, reply), ~Failing(e)
  PROVE  IF ref.jsonPath /\ document.field.read # NoFigure
         THEN e.valueBps = IF ref.scaleToBps = NaN THEN NaN
                           ELSE document.field.read * ref.scaleToBps
         ELSE /\ ~Failing(reply) /\ reply.valuePercent \in Nat
              /\ e.valueBps = reply.valuePercent * 100
<1>1. Figures \subseteq Nat
  BY DocumentsAssumption DEF DocumentsAssumption
<1>2. CASE ref.jsonPath /\ document.field.read # NoFigure
  <2> DEFINE value == IF ref.scaleToBps = NaN THEN NaN
                      ELSE document.field.read * ref.scaleToBps
             structured == [method |-> "json-path", valueBps |-> value]
  <2>1. extractStructured(document, ref) = structured
    BY <1>2 DEF extractStructured
  <2>2. structured # Failed
    BY DEF Failed
  <2>3. e = structured
    <3> HIDE DEF structured
    <3> QED BY <2>1, <2>2 DEF extracted, Failing
  <2>4. e.valueBps = value
    BY <2>3
  <2> QED BY <1>2, <2>4
<1>3. CASE ~(ref.jsonPath /\ document.field.read # NoFigure)
  <2>1. ~Failing(reply) /\ e = parseExtraction(reply)
    BY <1>3 DEF extracted, extractStructured, Failing
  <2>2. reply.valuePercent # NoFigure /\ e = [method |-> "llm",
                                             valueBps |-> reply.valuePercent * 100]
    BY <2>1 DEF parseExtraction, Failing
  <2>3. reply.valuePercent \in Nat
    BY <1>1, <2>1, <2>2 DEF Replies, Failing
  <2> QED BY <1>3, <2>1, <2>2, <2>3
<1> QED BY <1>2, <1>3

LEMMA DocumentsJudged ==
  ASSUME computeDocumentAttestation
  PROVE  DocumentsAreQuotedRight'
<1>1. PICK document \in Documents, reply \in Replies, request \in Requests :
        LET extraction == fetchDocumentEvidence(document, request, reply)
        IN answer' = [path |-> "document", document |-> document, reply |-> reply,
                      request |-> request, extraction |-> extraction,
                      verdict |-> crossCheckDocument(request.asserted, extraction,
                                                     request.tolerance)]
  BY DEF computeDocumentAttestation
<1> DEFINE e == fetchDocumentEvidence(document, request, reply)
           verdict == answer'.verdict
           Within(valueBps) == Abs(request.asserted - valueBps) <= request.tolerance
           read == document.field.read
<1>2. /\ answer'.document = document /\ answer'.reply = reply
      /\ answer'.request = request
      /\ verdict = crossCheckDocument(request.asserted, e, request.tolerance)
  BY <1>1
<1> SUFFICES ASSUME verdict # "ABSTAIN"
             PROVE  /\ ~Failing(document) /\ ~document.error
                    /\ request.tolerance = NaN => verdict = "REJECTED"
                    /\ request.tolerance # NaN =>
                         IF request.jsonPath /\ read # NoFigure
                         THEN IF request.scaleToBps = NaN THEN verdict = "REJECTED"
                              ELSE verdict = "VALID" <=> Within(read * request.scaleToBps)
                         ELSE /\ ~Failing(reply)
                              /\ verdict = "VALID" <=> Within(reply.valuePercent * 100)
  BY <1>2 DEF DocumentsAreQuotedRight
<1>3. /\ ~Failing(e)
      /\ verdict = IF e.valueBps # NaN /\ request.tolerance # NaN /\ Within(e.valueBps)
                   THEN "VALID" ELSE "REJECTED"
  BY <1>2 DEF crossCheckDocument
<1>4. ~Failing(document) /\ ~document.error /\ e = extracted(document, request, reply)
  BY <1>3 DEF fetchDocumentEvidence, Failing
<1> HIDE DEF e, verdict
<1>5. CASE request.jsonPath /\ read # NoFigure
  <2>1. e.valueBps = IF request.scaleToBps = NaN THEN NaN ELSE read * request.scaleToBps
    BY <1>3, <1>4, <1>5, Extracted
  <2>2. request.scaleToBps # NaN => read * request.scaleToBps # NaN
    <3>1. Figures \subseteq Nat /\ Scales \subseteq Nat
      BY DocumentsAssumption DEF DocumentsAssumption
    <3>2. read \in Nat
      BY <1>4, <1>5, <3>1 DEF Documents, Failing, Fields
    <3>3. request.scaleToBps # NaN => request.scaleToBps \in Nat
      BY <3>1 DEF Requests
    <3> HIDE DEF read
    <3>4. request.scaleToBps # NaN => read * request.scaleToBps \in Nat
      BY <3>2, <3>3
    <3> QED BY <3>4 DEF NaN
  <2> HIDE DEF Within, read
  <2> QED BY <1>3, <1>4, <1>5, <2>1, <2>2
<1>6. CASE ~(request.jsonPath /\ read # NoFigure)
  <2>1. /\ ~Failing(reply) /\ reply.valuePercent \in Nat
        /\ e.valueBps = reply.valuePercent * 100
    BY <1>3, <1>4, <1>6, Extracted
  <2>2. e.valueBps # NaN
    BY <2>1 DEF NaN
  <2> HIDE DEF Within, read
  <2> QED BY <1>3, <1>4, <1>6, <2>1, <2>2
<1> QED BY <1>5, <1>6

-----------------------------------------------------------------------------
\* The share price of a vault.

\* What the node's answers leave open about the decimals is not what is put in its place.
GuessedWrong(node, vault) ==
    IF node["asset"]
    THEN /\ ~node["decimals"] /\ node["convertToAssets"]
         /\ vault.share # DEFAULT_DECIMALS
    ELSE vault.asset # IF node["decimals"] \/ node["convertToAssets"]
                       THEN vault.share ELSE DEFAULT_DECIMALS

\* A node tells the price if it answers one of two calls ...
LEMMA OneOfTwoCalls ==
  ASSUME NEW node \in Nodes, NEW vault \in Vaults
  PROVE  Failing(readFromRpc(node, vault))
           <=> ~(node["convertToAssets"] \/ node["pricePerShare"])
<1> DEFINE read == readFromRpc(node, vault)
<1>1. CASE node["convertToAssets"] \/ node["pricePerShare"]
  <2>1. ~Failing(read)
    BY <1>1 DEF readFromRpc, Failing, Failed
  <2> QED BY <1>1, <2>1
<1>2. CASE ~node["convertToAssets"] /\ ~node["pricePerShare"]
  BY <1>2 DEF readFromRpc, Failing
<1> QED BY <1>1, <1>2

\* ... and tells it as it is where the decimals it does not tell are what is put in
\* their place.
LEMMA ReadAsItIs ==
  ASSUME NEW node \in Nodes, NEW vault \in Vaults, ~Failing(readFromRpc(node, vault))
  PROVE  /\ readFromRpc(node, vault).price = vault.price
         /\ ~GuessedWrong(node, vault) => readFromRpc(node, vault).power = 0
<1>1. vault.share \in Nat /\ vault.asset \in Nat /\ DEFAULT_DECIMALS \in Nat
  BY EvidenceAssumption DEF EvidenceAssumption, Vaults
<1> DEFINE read == readFromRpc(node, vault)
           share == IF node["decimals"] THEN vault.share ELSE DEFAULT_DECIMALS
           asset == IF node["asset"] THEN vault.asset ELSE share
<1>2. share \in Int /\ asset \in Int
  BY <1>1
<1>3. DecimalsRead(node, vault).share = share /\ DecimalsRead(node, vault).asset = asset
  BY DEF DecimalsRead
<1> SUFFICES read.price = vault.price /\ (~GuessedWrong(node, vault) => read.power = 0)
  OBVIOUS
<1>4. CASE node["convertToAssets"]
  <2>1. /\ read.price = vault.price
        /\ read.power = (share - vault.share) + (vault.asset - asset)
    BY <1>3, <1>4 DEF readFromRpc
  <2>2. ~GuessedWrong(node, vault) => \/ share = vault.share /\ asset = vault.asset
                                      \/ asset = share /\ vault.asset = vault.share
    BY <1>4 DEF GuessedWrong
  <2> HIDE DEF share, asset, read
  <2> QED BY <1>1, <1>2, <2>1, <2>2
<1>5. CASE ~node["convertToAssets"]
  <2>1. node["pricePerShare"]
    BY <1>5, OneOfTwoCalls
  <2>2. read.price = vault.price /\ read.power = vault.asset - asset
    BY <1>3, <1>5, <2>1 DEF readFromRpc
  <2>3. ~GuessedWrong(node, vault) => asset = vault.asset
    BY <1>5 DEF GuessedWrong
  <2> HIDE DEF asset, read
  <2> QED BY <1>1, <2>2, <2>3
<1> QED BY <1>4, <1>5

LEMMA NavJudged ==
  ASSUME computeNavAttestation
  PROVE  NavIsJudgedAsItIs'
<1>1. PICK nodes \in [1..NODES -> Nodes], vault \in Vaults, asserted \in Prices \ {0},
           tolerancePct \in NavTolerances \cup {NaN} :
        LET read == defaultReadErc4626(nodes, vault)
        IN answer' = [path |-> "nav", nodes |-> nodes, vault |-> vault,
                      asserted |-> asserted, tolerance |-> tolerancePct,
                      verdict |-> crossCheckNav(asserted, read, tolerancePct)]
  BY DEF computeNavAttestation
<1> DEFINE read == defaultReadErc4626(nodes, vault)
           verdict == answer'.verdict
           Tells(i) == nodes[i]["convertToAssets"] \/ nodes[i]["pricePerShare"]
           telling == {i \in DOMAIN nodes : Tells(i)}
           node == nodes[Min(telling)]
           Misjudged == GuessedWrong(node, vault)
           Near == Abs(asserted - vault.price) * 100 <= tolerancePct * vault.price
<1>2. /\ answer'.nodes = nodes /\ answer'.vault = vault /\ answer'.asserted = asserted
      /\ answer'.tolerance = tolerancePct
      /\ verdict = crossCheckNav(asserted, read, tolerancePct)
  BY <1>1
<1> SUFFICES /\ verdict = "ABSTAIN" <=> telling = {} \/ vault.price = 0
             /\ verdict = "VALID" => tolerancePct # NaN
             /\ verdict # "ABSTAIN" /\ tolerancePct # NaN =>
                  Misjudged \/ (verdict = "VALID" <=> Near)
  BY <1>2 DEF NavIsJudgedAsItIs, GuessedWrong
<1>3. \A i \in DOMAIN nodes : nodes[i] \in Nodes
  OBVIOUS
<1>4. vault.price \in Nat /\ asserted \in Nat
  BY EvidenceAssumption DEF EvidenceAssumption, Vaults
<1>5. CASE telling = {}
  <2>1. \A i \in DOMAIN nodes : Failing(readFromRpc(nodes[i], vault))
    BY <1>3, <1>5, OneOfTwoCalls
  <2>2. read = Failed
    BY <2>1 DEF defaultReadErc4626
  <2>3. verdict = "ABSTAIN"
    BY <1>2, <2>2 DEF crossCheckNav, Failing
  <2> HIDE DEF verdict, telling, Misjudged, Near
  <2> QED BY <1>5, <2>3
<1>6. CASE telling # {}
  <2>1. telling = {i \in DOMAIN nodes : ~Failing(readFromRpc(nodes[i], vault))}
    BY <1>3, OneOfTwoCalls
  <2>2. telling \in SUBSET Nat
    BY EvidenceAssumption DEF EvidenceAssumption
  <2>3. Min(telling) \in telling
    <3> HIDE DEF telling
    <3> QED BY <1>6, <2>2, LeastNatural
  <2>4. read = readFromRpc(node, vault)
    <3> HIDE DEF telling
    <3> QED BY <1>6, <2>1 DEF defaultReadErc4626
  <2>5. node \in Nodes /\ ~Failing(readFromRpc(node, vault))
    <3>1. Min(telling) \in DOMAIN nodes /\ Tells(Min(telling))
      BY <2>3
    <3> HIDE DEF telling
    <3> QED BY <1>3, <3>1, OneOfTwoCalls
  <2> HIDE DEF node, read
  <2>6. /\ ~Failing(read) /\ read.price = vault.price
        /\ ~Misjudged => read.power = 0
    <3> HIDE DEF telling
    <3>1. /\ readFromRpc(node, vault).price = vault.price
          /\ ~GuessedWrong(node, vault) => readFromRpc(node, vault).power = 0
      BY <2>5, ReadAsItIs
    <3>2. ~Failing(read) /\ read.price = vault.price
      BY <2>4, <2>5, <3>1
    <3>3. ~GuessedWrong(node, vault) => read.power = 0
      BY <2>4, <2>5, <3>1
    <3> QED BY <3>2, <3>3
  <2> HIDE DEF telling, Misjudged
  <2>7. CASE vault.price = 0
    <3>1. verdict = "ABSTAIN"
      BY <1>2, <2>6, <2>7 DEF crossCheckNav
    <3> HIDE DEF verdict, Near
    <3> QED BY <2>7, <3>1
  <2>8. CASE vault.price # 0
    <3>1. ~(read.price <= 0)
      BY <1>4, <2>6, <2>8
    <3> DEFINE Within == Abs(asserted * Power10(-read.power) - read.price * Power10(read.power))
                             * 100 <= tolerancePct * (read.price * Power10(read.power))
    <3>2. verdict = IF tolerancePct # NaN /\ Within THEN "VALID" ELSE "REJECTED"
      BY <1>2, <2>6, <3>1 DEF crossCheckNav
    <3>3. ASSUME ~Misjudged PROVE Within <=> Near
      <4>1. Power10(read.power) = 1 /\ Power10(-read.power) = 1
        BY <2>6, <3>3 DEF Power10
      <4>2. asserted * 1 = asserted /\ vault.price * 1 = vault.price
        BY <1>4
      <4> QED BY <2>6, <4>1, <4>2
    <3> HIDE DEF verdict, Within, Near
    <3> QED BY <1>6, <2>8, <3>2, <3>3
  <2> QED BY <2>7, <2>8
<1> QED BY <1>5, <1>6

-----------------------------------------------------------------------------
\* The narrator.

LEMMA Concatenated ==
  ASSUME NEW x, NEW y, NEW z
  PROVE  <<x>> \o <<>> = <<x>> /\ <<x>> \o <<y>> = <<x, y>>
         /\ <<x, y>> \o <<>> = <<x, y>> /\ <<x, y>> \o <<z>> = <<x, y, z>>
<1> DEFINE S == {x, y, z}
           two == <<x>> \o <<y>>
           three == <<x, y>> \o <<z>>
<1>1. <<>> \in Seq(S) /\ <<x>> \in Seq(S) /\ <<y>> \in Seq(S) /\ <<z>> \in Seq(S)
      /\ <<x, y>> \in Seq(S)
  OBVIOUS
<1>2. two \in Seq(S) /\ Len(two) = 2 /\ two[1] = x /\ two[2] = y
  BY <1>1
<1>3. three \in Seq(S) /\ Len(three) = 3 /\ three[1] = x /\ three[2] = y /\ three[3] = z
  BY <1>1
<1>4. <<x>> \o <<>> = <<x>> /\ <<x, y>> \o <<>> = <<x, y>>
  BY <1>1
<1> HIDE DEF two, three
<1>5. two = <<x, y>> /\ three = <<x, y, z>>
  BY <1>2, <1>3
<1> QED BY <1>4, <1>5 DEF two, three

\* The models of a router that has a primary: in order, each once, and all that are
\* configured.
LEMMA ModelsOfARouter ==
  ASSUME NEW outcome \in [Providers -> Outcomes], outcome["primary"] # "absent"
  PROVE  LET tried == Configured(outcome)
         IN /\ tried \in Seq(Providers) /\ Len(tried) \in Nat \ {0}
            /\ \A i \in 1..Len(tried) :
                 /\ outcome[tried[i]] # "absent"
                 /\ tried[i] = "primary" <=> i = 1
            /\ \A p \in Providers :
                 outcome[p] # "absent" => \E i \in 1..Len(tried) : tried[i] = p
<1> DEFINE tried == Configured(outcome)
           IfThere(p) == IF outcome[p] = "absent" THEN <<>> ELSE <<p>>
<1>1. tried = <<"primary">> \o IfThere("fallback") \o IfThere("mock")
  BY DEF Configured
<1>2. tried \in {<<"primary">>, <<"primary", "fallback">>, <<"primary", "mock">>,
                 <<"primary", "fallback", "mock">>}
      /\ ("fallback" \in Range(tried) <=> outcome["fallback"] # "absent")
      /\ ("mock" \in Range(tried) <=> outcome["mock"] # "absent")
  <2>1. CASE outcome["fallback"] = "absent" /\ outcome["mock"] = "absent"
    <3>1. tried = <<"primary">>
      BY <1>1, <2>1, Concatenated
    <3> QED BY <2>1, <3>1 DEF Range
  <2>2. CASE outcome["fallback"] # "absent" /\ outcome["mock"] = "absent"
    <3>1. tried = <<"primary", "fallback">>
      BY <1>1, <2>2, Concatenated
    <3> QED BY <2>2, <3>1 DEF Range
  <2>3. CASE outcome["fallback"] = "absent" /\ outcome["mock"] # "absent"
    <3>1. tried = <<"primary", "mock">>
      BY <1>1, <2>3, Concatenated
    <3> QED BY <2>3, <3>1 DEF Range
  <2>4. CASE outcome["fallback"] # "absent" /\ outcome["mock"] # "absent"
    <3>1. tried = <<"primary", "fallback", "mock">>
      BY <1>1, <2>4, Concatenated
    <3> QED BY <2>4, <3>1 DEF Range
  <2> QED BY <2>1, <2>2, <2>3, <2>4
<1> HIDE DEF tried
<1>3. /\ tried \in Seq(Providers) /\ Len(tried) \in Nat \ {0}
      /\ \A i \in 1..Len(tried) : tried[i] = "primary" <=> i = 1
      /\ DOMAIN tried = 1..Len(tried)
  <2>1. CASE tried = <<"primary">>
    BY <2>1 DEF Providers
  <2>2. CASE tried = <<"primary", "fallback">>
    BY <2>2 DEF Providers
  <2>3. CASE tried = <<"primary", "mock">>
    BY <2>3 DEF Providers
  <2>4. CASE tried = <<"primary", "fallback", "mock">>
    BY <2>4 DEF Providers
  <2> QED BY <1>2, <2>1, <2>2, <2>3, <2>4
<1>4. ASSUME NEW i \in 1..Len(tried) PROVE outcome[tried[i]] # "absent"
  <2>1. tried[i] \in Range(tried) /\ tried[i] \in Providers
    BY <1>3 DEF Range
  <2> QED BY <1>2, <2>1 DEF Providers
<1>5. ASSUME NEW p \in Providers, outcome[p] # "absent"
      PROVE  \E i \in 1..Len(tried) : tried[i] = p
  <2>1. CASE p = "primary"
    BY <1>3, <2>1
  <2>2. CASE p # "primary"
    <3>1. p \in Range(tried)
      BY <1>2, <1>5, <2>2 DEF Providers
    <3> QED BY <1>3, <3>1 DEF Range
  <2> QED BY <2>1, <2>2
<1> QED BY <1>3, <1>4, <1>5 DEF tried

\* The call ends at a model that is not overloaded, or at the last one; all those
\* before it were overloaded.
LEMMA ModelReached ==
  ASSUME NEW outcome \in [Providers -> Outcomes], outcome["primary"] # "absent"
  PROVE  LET tried == Configured(outcome)
             n == Reached(outcome)
         IN /\ n \in 1..Len(tried)
            /\ outcome[tried[n]] = "overloaded" => n = Len(tried)
            /\ \A i \in 1..n - 1 : outcome[tried[i]] = "overloaded"
<1> DEFINE tried == Configured(outcome)
           ends == {i \in DOMAIN tried :
                      outcome[tried[i]] # "overloaded" \/ i = Len(tried)}
<1>1. tried \in Seq(Providers) /\ Len(tried) \in Nat \ {0}
  BY ModelsOfARouter
<1>2. Reached(outcome) = Min(ends)
  BY DEF Reached
<1> HIDE DEF tried
<1>3. ends \in SUBSET Nat /\ Len(tried) \in ends
  BY <1>1
<1>4. Min(ends) \in ends /\ \A i \in ends : Min(ends) <= i
  <2> HIDE DEF ends
  <2> QED BY <1>3, LeastNatural
<1> DEFINE n == Min(ends)
<1>5. n \in 1..Len(tried) /\ (outcome[tried[n]] = "overloaded" => n = Len(tried))
  BY <1>1, <1>4
<1>6. ASSUME NEW i \in 1..n - 1 PROVE outcome[tried[i]] = "overloaded"
  <2>1. i \in 1..Len(tried) /\ ~(n <= i)
    <3> HIDE DEF n
    <3> QED BY <1>1, <1>5
  <2>2. i \notin ends
    BY <1>4, <2>1
  <2> QED BY <1>1, <2>1, <2>2
<1> QED BY <1>2, <1>5, <1>6 DEF tried

LEMMA NarratorNamed ==
  ASSUME computeDecisiveAttestation
  PROVE  NarratorIsNamed'
<1>1. PICK sources \in Sources, asserted \in Values,
           outcome \in [Providers -> Outcomes] :
        LET legs == getYieldObservation(sources)
        IN answer' = [path |-> "decisive", legs |-> legs, asserted |-> asserted,
                      outcome |-> outcome,
                      verdict |-> IF Throws(sources) THEN "thrown"
                                  ELSE Judge(legs, asserted),
                      narration |-> narrateDecisive(outcome)]
  BY DEF computeDecisiveAttestation
<1> DEFINE tried == Configured(outcome)
           n == Reached(outcome)
           by == answer'.narration.by
           switches == answer'.narration.switches
           Willing == {p \in Providers : outcome[p] = "answers"}
<1>2. answer'.outcome = outcome /\ answer'.narration = narrateDecisive(outcome)
  BY <1>1
<1>3. DOMAIN outcome = Providers
  OBVIOUS
<1> SUFFICES ASSUME outcome["primary"] # "absent"
             PROVE  /\ \A i \in DOMAIN switches :
                         switches[i].from = IF i = 1 THEN "primary" ELSE switches[i - 1].to
                    /\ by \in {"fallback", "mock"} =>
                         switches # <<>> /\ Last(switches).to = by
                    /\ by = "primary" => switches = <<>>
                    /\ by = "nobody" =>
                         \/ Willing = {}
                         \/ \E p \in Providers : outcome[p] \in {"refuses", "unusable"}
  BY <1>2, <1>3 DEF NarratorIsNamed
<1> DEFINE m == IF tried[n] = "mock" /\ outcome["mock"] \notin {"answers", "unusable"}
                THEN n - 1 ELSE n
<1>r. tried[n] \in Providers
  BY ModelsOfARouter, ModelReached
<1>4. /\ by = IF outcome[tried[n]] = "answers" THEN tried[n] ELSE "nobody"
      /\ switches = [i \in 1..m - 1 |-> [from |-> tried[i], to |-> tried[i + 1]]]
  <2> DEFINE response == complete(outcome)
  <2>1. /\ response = [by |-> response.by, switches |-> response.switches]
        /\ response.by = IF outcome[tried[n]] \in {"answers", "unusable"}
                         THEN tried[n] ELSE "nobody"
        /\ response.switches = [i \in 1..m - 1 |-> [from |-> tried[i], to |-> tried[i + 1]]]
    BY DEF complete, Switches
  <2>2. answer'.narration = parseNarration(response, outcome)
    BY <1>2 DEF narrateDecisive
  <2> HIDE DEF response, tried, n
  <2>3. /\ answer'.narration.switches = response.switches
        /\ answer'.narration.by = IF \E p \in Providers : /\ response.by = p
                                                         /\ outcome[p] = "unusable"
                                  THEN "nobody" ELSE response.by
    BY <2>1, <2>2 DEF parseNarration
  <2> QED BY <1>r, <2>1, <2>3
<1>5. /\ tried \in Seq(Providers) /\ Len(tried) \in Nat \ {0}
      /\ \A i \in 1..Len(tried) : /\ outcome[tried[i]] # "absent"
                                  /\ tried[i] = "primary" <=> i = 1
      /\ \A p \in Providers :
           outcome[p] # "absent" => \E i \in 1..Len(tried) : tried[i] = p
  BY ModelsOfARouter
<1>6. /\ n \in 1..Len(tried)
      /\ outcome[tried[n]] = "overloaded" => n = Len(tried)
      /\ \A i \in 1..n - 1 : outcome[tried[i]] = "overloaded"
  BY ModelReached
<1> HIDE DEF tried, n, by, switches
<1>7. m \in 0..n /\ n \in Nat /\ (outcome[tried[n]] = "answers" => m = n)
  BY <1>5, <1>6
<1> HIDE DEF m
<1>8. DOMAIN switches = 1..m - 1 /\ m \in Int
  BY <1>4, <1>7
<1>9. ASSUME NEW i \in DOMAIN switches
      PROVE  switches[i].from = IF i = 1 THEN "primary" ELSE switches[i - 1].to
  <2>1. switches[i].from = tried[i] /\ i \in 1..m - 1
    BY <1>4, <1>8
  <2>2. CASE i = 1
    <3>1. 1 \in 1..Len(tried)
      BY <1>5
    <3> QED BY <1>5, <2>1, <2>2, <3>1
  <2>3. CASE i # 1
    <3>1. i - 1 \in 1..m - 1 /\ (i - 1) + 1 = i
      BY <1>7, <2>1, <2>3
    <3>2. switches[i - 1].to = tried[i]
      BY <1>4, <3>1
    <3> QED BY <2>1, <2>3, <3>2
  <2> QED BY <2>2, <2>3
<1>10. ASSUME by \in {"fallback", "mock"}
       PROVE  switches # <<>> /\ Last(switches).to = by
  <2>1. by = tried[n] /\ m = n /\ n # 1
    BY <1>4, <1>5, <1>6, <1>7, <1>10
  <2>2. n - 1 \in 1..m - 1 /\ (n - 1) + 1 = n
    BY <1>7, <2>1, <1>6
  <2>3. Len(switches) = n - 1
    BY <1>4, <1>7, <2>1, <2>2
  <2>4. switches[n - 1].to = by
    BY <1>4, <2>1, <2>2
  <2>5. switches # <<>>
    BY <1>8, <2>2
  <2> QED BY <2>3, <2>4, <2>5 DEF Last
<1>11. ASSUME by = "primary" PROVE switches = <<>>
  <2>1. tried[n] = "primary" /\ outcome[tried[n]] = "answers"
    BY <1>4, <1>11
  <2>2. n = 1 /\ m = 1
    BY <1>5, <1>6, <1>7, <2>1
  <2>3. switches = [i \in 1..0 |-> [from |-> tried[i], to |-> tried[i + 1]]]
    BY <1>4, <2>2
  <2> QED BY <2>3
<1>12. ASSUME by = "nobody", Willing # {}
       PROVE  \E p \in Providers : outcome[p] \in {"refuses", "unusable"}
  <2>1. outcome[tried[n]] # "answers" /\ tried[n] \in Providers
    BY <1>4, <1>5, <1>6, <1>12 DEF Providers
  <2>2. CASE outcome[tried[n]] = "overloaded"
    <3>1. \A i \in 1..Len(tried) : outcome[tried[i]] = "overloaded"
      BY <1>5, <1>6, <2>2
    <3>2. PICK p \in Providers : outcome[p] = "answers"
      BY <1>12
    <3> QED BY <1>5, <3>1, <3>2
  <2>3. CASE outcome[tried[n]] # "overloaded"
    <3>1. outcome[tried[n]] \in {"refuses", "unusable"}
      BY <1>5, <1>6, <2>1, <2>3 DEF Outcomes
    <3> QED BY <2>1, <3>1
  <2> QED BY <2>2, <2>3
<1> QED BY <1>9, <1>10, <1>11, <1>12

-----------------------------------------------------------------------------
\* How old what a leg says is.

LEMMA YoungerIsFresher ==
  ASSUME NEW t \in 0..NOW, NEW u \in 0..NOW, t <= u
  PROVE  AgeDays(t) \in Nat /\ AgeDays(u) \in Nat /\ AgeDays(u) <= AgeDays(t)
<1> DEFINE x == NOW - u + TICKS - 1
           y == NOW - t + TICKS - 1
           q == x \div TICKS
           r == y \div TICKS
<1>1. TICKS \in Nat \ {0} /\ NOW \in Nat
  BY FetchersAssumption DEF FetchersAssumption
<1>2. x \in Nat /\ y \in Nat /\ x <= y
  BY <1>1
<1> HIDE DEF x, y
<1>3. q \in Nat /\ r \in Nat /\ q * TICKS <= x /\ y < (r + 1) * TICKS
  BY <1>1, <1>2
<1>4. q <= r
  <2> HIDE DEF q, r
  <2> SUFFICES ASSUME r + 1 <= q PROVE FALSE
    BY <1>3
  <2>1. (r + 1) * TICKS <= q * TICKS
    BY <1>1, <1>3
  <2>2. (r + 1) * TICKS \in Nat /\ q * TICKS \in Nat
    BY <1>1, <1>3
  <2> QED BY <1>2, <1>3, <2>1, <2>2
<1> QED BY <1>3, <1>4 DEF AgeDays, x, y

LEMMA LatestIs ==
  ASSUME NEW S, S # {}, \A p \in S : p.t \in 0..NOW
  PROVE  Latest(S) \in S /\ \A p \in S : p.t <= Latest(S).t
<1> DEFINE f == [p \in S |-> p.t]
<1>1. f \in [S -> 0..NOW] /\ NOW \in Nat
  BY FetchersAssumption DEF FetchersAssumption
<1>2. PICK x \in S : \A y \in S : f[y] <= f[x]
  <2> HIDE DEF f
  <2> QED BY <1>1, GreatestOf
<1>3. \A y \in S : y.t <= x.t
  BY <1>2
<1> QED BY <1>3 DEF Latest

LEMMA OldestIs ==
  ASSUME NEW S, S # {}, \A p \in S : p.t \in 0..NOW
  PROVE  Oldest(S) \in S /\ \A p \in S : Oldest(S).t <= p.t
<1> DEFINE f == [p \in S |-> p.t]
<1>1. f \in [S -> Nat]
  BY FetchersAssumption DEF FetchersAssumption
<1>2. PICK x \in S : \A y \in S : f[x] <= f[y]
  <2> HIDE DEF f
  <2> QED BY <1>1, LeastOf
<1>3. \A y \in S : x.t <= y.t
  BY <1>2
<1> QED BY <1>3 DEF Oldest

\* The points with a price are finitely many and each has its own time.
LEMMA PricedPoints ==
  ASSUME NEW points \in Series
  PROVE  LET priced == withPps(points)
         IN /\ points \in Seq(Point)
            /\ IsFiniteSet(priced)
            /\ \A p \in priced : p.t \in 0..NOW
            /\ \A p, q \in priced : p.t = q.t => p = q
<1> DEFINE priced == withPps(points)
           f == [p \in priced |-> p.t]
<1>1. PICK n \in 0..MAX_POINTS : points \in [1..n -> Point]
  <2>1. points \in UNION {[1..n -> Point] : n \in 0..MAX_POINTS}
    BY DEF Series
  <2> QED BY <2>1
<1>2. n \in Nat /\ NOW \in Nat /\ Times \subseteq 0..NOW
  BY FetchersAssumption DEF FetchersAssumption
<1>3. points \in Seq(Point)
  BY <1>1, <1>2
<1>4. \A p \in priced : \E i \in 1..n : p = points[i] /\ p.t # NoTime
  BY <1>1 DEF withPps, Range
<1>5. \A p \in priced : p.t \in 0..NOW
  BY <1>1, <1>2, <1>4 DEF Point
<1>6. ASSUME NEW p \in priced, NEW q \in priced, p.t = q.t PROVE p = q
  <2>1. PICK i \in 1..n : p = points[i] /\ p.t # NoTime
    BY <1>4
  <2>2. PICK j \in 1..n : q = points[j]
    BY <1>4
  <2>3. i = j
    BY <1>1, <1>6, <2>1, <2>2 DEF Series
  <2> QED BY <2>1, <2>2, <2>3
<1>7. IsFiniteSet(priced)
  <2> HIDE DEF priced
  <2>1. f \in Injection(priced, 0..NOW)
    BY <1>5, <1>6 DEF Injection, IsInjective
  <2>2. IsFiniteSet(0..NOW)
    BY <1>2, FS_Interval
  <2> QED BY <2>1, <2>2, FS_Injection
<1> QED BY <1>3, <1>5, <1>6, <1>7

\* A return is measured up to the latest price, over the window or as much of it as
\* there is.
LEMMA ReturnIsMeasured ==
  ASSUME NEW points \in Series, NEW r, r = windowedAnnualizedYieldBps(points),
         ~Failing(r)
  PROVE  /\ r.last \in 0..NOW /\ r.past # r.last
         /\ \E p \in withPps(points) : p.t = r.last
         /\ \A p \in withPps(points) : p.t <= r.last
         /\ \/ r.last - r.past >= requestedWindowDays * TICKS
            \/ \A p \in withPps(points) : p.t >= r.past
<1> DEFINE priced == withPps(points)
           window == requestedWindowDays * TICKS
           last == Latest(priced)
           reaching == {p \in priced : p.t <= last.t - window}
           past == IF reaching = {} THEN Oldest(priced) ELSE Latest(reaching)
<1>1. /\ IsFiniteSet(priced) /\ \A p \in priced : p.t \in 0..NOW
      /\ \A p, q \in priced : p.t = q.t => p = q
  BY PricedPoints
<1>2. ~(Cardinality(priced) < 2) /\ r.last = last.t /\ r.past = past.t
  BY DEF windowedAnnualizedYieldBps, Failing
<1>3. window \in Nat \ {0} /\ NOW \in Nat
  BY FetchersAssumption DEF FetchersAssumption
<1> HIDE DEF priced, window
<1>4. priced # {} /\ \A p \in priced : \E q \in priced : q # p
  <2>1. Cardinality(priced) # 0 /\ Cardinality(priced) # 1
    BY <1>1, <1>2, FS_CardinalityType
  <2>2. priced # {} /\ \A x : priced # {x}
    BY <1>1, <2>1, FS_EmptySet, FS_Singleton
  <2>3. ASSUME NEW p \in priced, \A q \in priced : q = p PROVE FALSE
    <3>1. priced = {p}
      BY <2>3
    <3> QED BY <2>2, <3>1
  <2> QED BY <2>2, <2>3
<1>5. last \in priced /\ \A p \in priced : p.t <= last.t
  BY <1>1, <1>4, LatestIs
<1> HIDE DEF last
<1>6. CASE reaching = {}
  <2>1. past \in priced /\ \A p \in priced : past.t <= p.t
    BY <1>1, <1>4, <1>6, OldestIs
  <2> HIDE DEF past
  <2>2. PICK q \in priced : q # last
    BY <1>4, <1>5
  <2>3. past.t # last.t
    BY <1>1, <1>5, <2>1, <2>2
  <2> QED BY <1>1, <1>2, <1>5, <2>1, <2>3 DEF priced
<1>7. CASE reaching # {}
  <2>1. past \in reaching
    <3>1. \A p \in reaching : p.t \in 0..NOW
      BY <1>1
    <3>2. past = Latest(reaching)
      BY <1>7
    <3> HIDE DEF reaching, past
    <3> QED BY <1>7, <3>1, <3>2, LatestIs
  <2>2. past.t <= last.t - window /\ past.t \in 0..NOW /\ last.t \in 0..NOW
    BY <1>1, <1>5, <2>1
  <2> HIDE DEF past
  <2>3. last.t - past.t >= window /\ past.t # last.t
    BY <1>3, <2>2
  <2> QED BY <1>2, <1>5, <2>2, <2>3 DEF priced, window
<1> QED BY <1>6, <1>7

\* What a pool reports is told as of its last point, unless that one lacks a yield, and
\* of the last that has one if it does.
LEMMA ReportedIsLatest ==
  ASSUME NEW points \in Seq(Point), NEW r, r = latestReportedApyBps(points), ~Failing(r)
  PROVE  /\ points # <<>> /\ r.past = r.last
         /\ \/ r.last = Last(points).t
            \/ \E i \in 1..Len(points) - 1 :
                 /\ points[i].t = r.last
                 /\ \A j \in i + 1..Len(points) : points[j].apy = NoRate
<1> DEFINE reported == {i \in DOMAIN points : points[i].apy # NoRate}
<1>1. reported # {} /\ r.last = points[Max(reported)].t /\ r.past = r.last
  BY DEF latestReportedApyBps, Failing
<1>2. Len(points) \in Nat /\ DOMAIN points = 1..Len(points)
  OBVIOUS
<1>3. reported \in SUBSET (0..Len(points))
  BY <1>2
<1>4. Max(reported) \in reported /\ \A i \in reported : i <= Max(reported)
  <2> HIDE DEF reported
  <2> QED BY <1>1, <1>2, <1>3, GreatestNatural
<1>5. points # <<>> /\ Len(points) \in DOMAIN points
  BY <1>2, <1>4
<1> DEFINE last == Max(reported)
<1>6. last \in 1..Len(points) /\ \A j \in 1..Len(points) : j > last => points[j].apy = NoRate
  <2>1. last \in DOMAIN points
    BY <1>4
  <2>2. ASSUME NEW j \in 1..Len(points), j > last PROVE j \notin reported
    <3>1. j \in reported => j <= last
      BY <1>4
    <3>2. j \in Int /\ last \in Int
      BY <1>2, <2>1
    <3> HIDE DEF reported, last
    <3> QED BY <2>2, <3>1, <3>2
  <2> HIDE DEF last
  <2> QED BY <1>2, <2>1, <2>2
<1> HIDE DEF reported, last
<1>7. CASE last = Len(points)
  BY <1>1, <1>5, <1>7 DEF Last, last
<1>8. CASE last # Len(points)
  <2>1. last \in 1..Len(points) - 1
    <3> DEFINE n == Len(points)
    <3>1. n \in Int /\ last \in 1..n
      BY <1>2, <1>6
    <3> HIDE DEF n
    <3>2. last # n => last \in 1..n - 1
      BY <3>1
    <3> QED BY <1>8, <3>2 DEF n
  <2>2. \A j \in last + 1..Len(points) : points[j].apy = NoRate
    BY <1>2, <1>6, <2>1
  <2>3. points[last].t = r.last
    BY <1>1 DEF last
  <2> QED BY <1>1, <1>5, <2>1, <2>2, <2>3
<1> QED BY <1>7, <1>8

\* A leg of a pool has the date of the last point, whatever its value is taken from.
LEMMA PoolLeg ==
  ASSUME NEW points \in Series, NEW kind, NEW leg, leg = defillama(points, kind),
         leg # Failed
  PROVE  /\ points # <<>> /\ leg.age = Stamp(Last(points).t)
         /\ \/ /\ leg.past = leg.last
               /\ \/ leg.last = Last(points).t
                  \/ \E i \in 1..Len(points) - 1 :
                       /\ points[i].t = leg.last
                       /\ \A j \in i + 1..Len(points) : points[j].apy = NoRate
            \/ /\ leg.past # leg.last /\ leg.last \in 0..NOW
               /\ \E p \in withPps(points) : p.t = leg.last
               /\ \A p \in withPps(points) : p.t <= leg.last
               /\ \/ leg.last - leg.past >= requestedWindowDays * TICKS
                  \/ \A p \in withPps(points) : p.t >= leg.past
<1> DEFINE returned == windowedAnnualizedYieldBps(points)
           value == IF kind = "pricePerShare" /\ ~Failing(returned)
                    THEN returned ELSE latestReportedApyBps(points)
<1>1. /\ ~Failing(value) /\ leg.last = value.last /\ leg.past = value.past
      /\ leg.age = Stamp(Last(points).t)
  BY DEF defillama, Failing
<1>2. points \in Seq(Point)
  BY PricedPoints
<1>3. CASE kind = "pricePerShare" /\ ~Failing(returned)
  <2>1. value = returned
    BY <1>3
  <2> HIDE DEF returned, value
  <2>2. /\ value.last \in 0..NOW /\ value.past # value.last
        /\ \E p \in withPps(points) : p.t = value.last
        /\ \A p \in withPps(points) : p.t <= value.last
        /\ \/ value.last - value.past >= requestedWindowDays * TICKS
           \/ \A p \in withPps(points) : p.t >= value.past
    BY <1>1, <2>1, ReturnIsMeasured DEF returned
  <2>3. points # <<>>
    <3>1. points = <<>> => withPps(points) = {}
      BY DEF withPps, Range
    <3>2. Cardinality({}) = 0
      BY FS_EmptySet
    <3>3. ~(Cardinality(withPps(points)) < 2)
      BY <1>3 DEF returned, windowedAnnualizedYieldBps, Failing
    <3> QED BY <3>1, <3>2, <3>3
  <2> QED BY <1>1, <2>2, <2>3
<1>4. CASE ~(kind = "pricePerShare" /\ ~Failing(returned))
  <2>1. value = latestReportedApyBps(points)
    BY <1>4
  <2> HIDE DEF value
  <2> QED BY <1>1, <1>2, <2>1, ReportedIsLatest
<1> QED BY <1>3, <1>4

LEMMA FreshnessJudged ==
  ASSUME fetchLegs
  PROVE  JudgedValuesAreFresh'
<1>1. PICK points \in Series, kind \in {"pricePerShare", "reportedApy"},
           row \in Row \cup {Failed} :
        LET sources == <<defillama(points, kind),
                         IF Failing(row) THEN Failed ELSE mantleMethApi(row)>>
            legs == getYieldObservation(sources)
        IN answer' = [path |-> "fetched", points |-> points, kind |-> kind,
                      legs |-> legs,
                      judged |-> /\ ~Throws(sources)
                                 /\ runGates(legs)
                                 /\ ~Failing(reconcileLegs(LegValues(legs)))]
  BY DEF fetchLegs
<1> DEFINE pool == defillama(points, kind)
           own == IF Failing(row) THEN Failed ELSE mantleMethApi(row)
           sources == <<pool, own>>
           legs == getYieldObservation(sources)
           IsReturn(leg) == leg.past # leg.last
           priced == withPps(points)
           Stamped(t) == t # NoTime /\ AgeDays(t) <= maxStalenessDays
           GoesOnWithout(leg) ==
             /\ points # <<>> /\ Stamped(Last(points).t)
             /\ \E i \in 1..Len(points) - 1 :
                  /\ points[i].t = leg.last
                  /\ IF IsReturn(leg) THEN Last(points).pricePerShare = NoPrice
                     ELSE \A j \in i + 1..Len(points) : points[j].apy = NoRate
<1>2. /\ answer'.points = points /\ answer'.legs = legs
      /\ answer'.judged => ~Throws(sources) /\ runGates(legs)
  BY <1>1
<1> SUFFICES ASSUME ~Throws(sources), runGates(legs)
             PROVE  /\ \/ \E leg \in Range(legs) : Stamped(leg.last) \/ GoesOnWithout(leg)
                       \/ \A leg \in Range(legs) : leg.age = NoStamp
                    /\ \A leg \in Range(legs) : IsReturn(leg) =>
                         /\ \A p \in priced : p.t <= leg.last
                         /\ \/ leg.last - leg.past >= requestedWindowDays * TICKS
                            \/ \A p \in priced : p.t >= leg.past
  BY <1>2 DEF JudgedValuesAreFresh, withPps
<1>3. \A leg \in Range(legs) : leg # Failed /\ (leg = pool \/ leg = own)
  <2> DEFINE S == {pool, own} \ {Failed}
  <2>1. Failed \notin S /\ sources \in [1..2 -> S \cup {Failed}]
    OBVIOUS
  <2> HIDE DEF S
  <2>2. legs \in Seq(S)
    BY <2>1, LegsOfSources
  <2>3. \A leg \in Range(legs) : leg \in S
    BY <2>2 DEF Range
  <2> QED BY <2>3 DEF S
<1>4. pool # Failed =>
        /\ points # <<>> /\ pool.age = Stamp(Last(points).t)
        /\ \/ /\ pool.past = pool.last
              /\ \/ pool.last = Last(points).t
                 \/ \E i \in 1..Len(points) - 1 :
                      /\ points[i].t = pool.last
                      /\ \A j \in i + 1..Len(points) : points[j].apy = NoRate
           \/ /\ pool.past # pool.last /\ pool.last \in 0..NOW
              /\ \E p \in priced : p.t = pool.last
              /\ \A p \in priced : p.t <= pool.last
              /\ \/ pool.last - pool.past >= requestedWindowDays * TICKS
                 \/ \A p \in priced : p.t >= pool.past
  BY PoolLeg
<1>5. own # Failed => own.past = own.last /\ own.last \in Times \cup {NoTime}
                      /\ own.age = Stamp(own.last)
  BY DEF mantleMethApi, Failing, Row
<1>6. points \in Seq(Point) /\ Times \subseteq 0..NOW /\ NOW \in Nat
  BY PricedPoints, FetchersAssumption DEF FetchersAssumption
<1>7. points # <<>> => Last(points) \in Range(points) /\ Last(points).t \in Times \cup {NoTime}
  <2> SUFFICES ASSUME points # <<>>
               PROVE  Last(points) \in Range(points) /\ Last(points) \in Point
    BY DEF Point
  <2>1. Len(points) \in 1..Len(points) /\ DOMAIN points = 1..Len(points)
    BY <1>6
  <2> QED BY <1>6, <2>1 DEF Last, Range
<1>8. freshnessGate(legs)
  BY DEF runGates
<1> HIDE DEF pool, own, legs, priced
<1>9. \A leg \in Range(legs) : IsReturn(leg) =>
        /\ \A p \in priced : p.t <= leg.last
        /\ \/ leg.last - leg.past >= requestedWindowDays * TICKS
           \/ \A p \in priced : p.t >= leg.past
  BY <1>3, <1>4, <1>5
<1>10. \A t \in Times : Stamp(t) = AgeDays(t) /\ AgeDays(t) \in Nat
  BY <1>6, YoungerIsFresher DEF Stamp, NoTime
<1>11. Stamp(NoTime) = NoStamp
  BY DEF Stamp
<1>12. \A leg \in Range(legs) : leg.age \in Nat \cup {NoStamp}
  BY <1>3, <1>4, <1>5, <1>7, <1>10, <1>11
<1>13. ASSUME NEW leg \in Range(legs), leg.age \in 0..maxStalenessDays
       PROVE  Stamped(leg.last) \/ GoesOnWithout(leg)
  <2>0. leg.age # NoStamp /\ leg.age <= maxStalenessDays
    BY <1>13, ReconcilerAssumption DEF ReconcilerAssumption, NoStamp
  <2>1. CASE leg = own
    <3>1. leg.last \in Times /\ leg.age = AgeDays(leg.last) /\ leg.last # NoTime
      BY <1>3, <1>5, <1>6, <1>10, <1>11, <2>0, <2>1 DEF NoTime
    <3> QED BY <2>0, <3>1
  <2>2. CASE leg = pool
    <3> DEFINE end == Last(points)
    <3>1. points # <<>> /\ leg.age = Stamp(end.t)
      BY <1>3, <1>4, <2>2
    <3>2. end.t \in Times /\ Stamped(end.t)
      BY <1>6, <1>7, <1>10, <1>11, <2>0, <3>1
    <3>3. CASE pool.past = pool.last
      <4>1. ~IsReturn(leg)
        BY <2>2, <3>3
      <4> HIDE DEF Stamped
      <4> QED BY <1>3, <1>4, <2>2, <3>1, <3>2, <3>3, <4>1
    <3>4. CASE pool.past # pool.last
      <4>1. /\ leg.last \in 0..NOW /\ IsReturn(leg)
            /\ \A p \in priced : p.t <= leg.last
        BY <1>3, <1>4, <2>2, <3>4
      <4>2. CASE end.pricePerShare = NoPrice
        <5>1. PICK p \in priced : p.t = leg.last
          BY <1>3, <1>4, <2>2, <3>4
        <5>2. DOMAIN points = 1..Len(points) /\ Len(points) \in Nat
          BY <1>6
        <5>3. PICK i \in DOMAIN points : p = points[i] /\ p.pricePerShare # NoPrice
          BY DEF priced, withPps, Range
        <5>4. i # Len(points)
          BY <4>2, <5>3 DEF Last
        <5>5. i \in 1..Len(points) - 1 /\ points[i].t = leg.last
          BY <5>1, <5>2, <5>3, <5>4
        <5> HIDE DEF Stamped
        <5> QED BY <3>1, <3>2, <4>1, <4>2, <5>5
      <4>3. CASE end.pricePerShare # NoPrice
        <5>1. end \in priced
          BY <1>7, <3>1, <3>2, <4>3 DEF priced, withPps
        <5>2. end.t \in 0..NOW /\ end.t <= leg.last
          BY <1>6, <3>2, <4>1, <5>1
        <5>3. AgeDays(leg.last) <= AgeDays(end.t) /\ AgeDays(leg.last) \in Nat
              /\ AgeDays(end.t) \in Nat
          BY <4>1, <5>2, YoungerIsFresher
        <5>4. AgeDays(leg.last) <= maxStalenessDays
          BY <3>2, <5>3, ReconcilerAssumption DEF ReconcilerAssumption
        <5>5. leg.last # NoTime
          BY <4>1 DEF NoTime
        <5> QED BY <5>4, <5>5
      <4> QED BY <4>2, <4>3
    <3> QED BY <3>3, <3>4
  <2> QED BY <1>3, <2>1, <2>2
<1>14. \/ \E leg \in Range(legs) : leg.age \in 0..maxStalenessDays
       \/ \A leg \in Range(legs) : leg.age = NoStamp
  BY <1>8, <1>12, FreshLeg
<1> QED BY <1>9, <1>13, <1>14

-----------------------------------------------------------------------------
\* The consensus of several runs.

\* The window that is kept has as many runs as any other.
LEMMA ClusterIsAWindow ==
  ASSUME NEW D, IsFiniteSet(D), D # {}, NEW values \in [D -> Int]
  PROVE  \E hi \in D :
           /\ LargestCluster(values) = Window(values, hi)
           /\ \A other \in D : Cardinality(Window(values, other))
                                 <= Cardinality(Window(values, hi))
<1> DEFINE Votes(i) == Cardinality(Window(values, i))
           votes == [i \in D |-> Votes(i)]
           Best(hi) == \A other \in D :
                         /\ Votes(other) <= Votes(hi)
                         /\ Votes(other) = Votes(hi) => values[hi] <= values[other]
<1>0. DOMAIN values = D
  OBVIOUS
<1>1. \A i \in D : Window(values, i) \in SUBSET D
  BY DEF Window
<1>2. \A S \in SUBSET D : IsFiniteSet(S) /\ Cardinality(S) \in Nat
  BY FS_Subset, FS_CardinalityType
<1>3. \A i \in D : Votes(i) \in Nat
  BY <1>1, <1>2
<1>4. votes \in [D -> Int]
  BY <1>3
<1> HIDE DEF Votes
<1>5. PICK most \in D : \A other \in D : Votes(other) <= Votes(most)
  <2>1. PICK most \in D : \A other \in D : votes[other] <= votes[most]
    <3> HIDE DEF votes
    <3> QED BY <1>2, <1>4, GreatestOfFinite
  <2> QED BY <2>1
<1> DEFINE ties == {i \in D : Votes(i) = Votes(most)}
<1>6. PICK hi \in ties : \A other \in ties : values[hi] <= values[other]
  <2> DEFINE f == [i \in ties |-> values[i]]
  <2>1. ties # {} /\ f \in [ties -> Int] /\ ties \in SUBSET D
    BY <1>5
  <2>2. IsFiniteSet(ties)
    BY <1>2, <2>1
  <2>3. PICK hi \in ties : \A other \in ties : f[hi] <= f[other]
    <3> HIDE DEF f, ties
    <3> QED BY <2>1, <2>2, LeastOfFinite
  <2> QED BY <2>3
<1>7. hi \in D /\ Best(hi)
  BY <1>3, <1>5, <1>6
<1> DEFINE best == CHOOSE i \in D : Best(i)
<1>8. best \in D /\ Best(best)
  <2> HIDE DEF Best
  <2> QED BY <1>7
<1>9. LargestCluster(values) = Window(values, best)
  BY <1>0 DEF LargestCluster, Votes
<1> HIDE DEF best
<1>10. \A other \in D : Votes(other) <= Votes(best)
  BY <1>8
<1> QED BY <1>8, <1>9, <1>10 DEF Votes

\* Where some runs agree, the window that is kept has no fewer.
LEMMA QuorumIsOutnumberedByNone ==
  ASSUME NEW D, IsFiniteSet(D), NEW values \in [D -> Int],
         NEW quorum \in SUBSET D, quorum # {},
         \A i, j \in quorum : values[i] - values[j] <= reconcileToleranceBps,
         NEW n \in Nat,
         \A other \in D : Cardinality(Window(values, other)) <= n
  PROVE  Cardinality(quorum) <= n
<1>0. IsFiniteSet(quorum)
  BY FS_Subset
<1> DEFINE f == [i \in quorum |-> values[i]]
<1>1. PICK top \in quorum : \A i \in quorum : values[i] <= values[top]
  <2>1. f \in [quorum -> Int]
    OBVIOUS
  <2>2. PICK top \in quorum : \A i \in quorum : f[i] <= f[top]
    <3> HIDE DEF f
    <3> QED BY <1>0, <2>1, GreatestOfFinite
  <2> QED BY <2>2
<1>2. quorum \subseteq Window(values, top) /\ Window(values, top) \subseteq D
  BY <1>1 DEF Window
<1>3. IsFiniteSet(Window(values, top))
  BY <1>2, FS_Subset
<1>4. Cardinality(quorum) <= Cardinality(Window(values, top))
  BY <1>2, <1>3, FS_Subset
<1>5. Cardinality(Window(values, top)) <= n
  BY <1>1
<1>6. Cardinality(quorum) \in Nat /\ Cardinality(Window(values, top)) \in Nat
  BY <1>0, <1>3, FS_CardinalityType
<1> QED BY <1>4, <1>5, <1>6

\* What a run comes to.
LEMMA RunHasAValue ==
  ASSUME NEW sources \in Sources, ~Failing(Run(sources))
  PROVE  Run(sources).reconciledValue \in Int
<1> DEFINE legs == getYieldObservation(sources)
           v == LegValues(legs)
<1>1. PICK n \in 1..MAX_SOURCES : sources \in [1..n -> Legs \cup {Failed}]
  BY DEF Sources
<1>2. ~Throws(sources) /\ Run(sources) = reconcileLegs(v)
  BY DEF Run, Failing
<1>3. Failed \notin Legs
  BY DEF Legs, Failed
<1>4. legs \in Seq(Legs) /\ legs # <<>>
  <2>1. n \in Nat
    BY EvidenceAssumption DEF EvidenceAssumption
  <2> QED BY <1>1, <1>2, <1>3, <2>1, LegsOfSources
<1> HIDE DEF legs
<1>5. \A leg \in Legs : leg.valueBps \in Int
  BY EvidenceAssumption DEF EvidenceAssumption, Legs
<1>6. v \in Seq(Int) /\ v # <<>>
  <2>1. v \in Seq(Int) /\ Len(v) = Len(legs)
    BY <1>4, <1>5 DEF LegValues
  <2> HIDE DEF v
  <2> QED BY <1>4, <2>1
<1> HIDE DEF v
<1> QED BY <1>2, <1>6, ReconciledIsNear

\* The values of the runs that have one, and the consensus on them.
LEMMA RunsHaveValues ==
  ASSUME NEW runs \in [1..RUNS -> {Run(sources) : sources \in Sources}]
  PROVE  /\ DOMAIN Usable(runs) = {i \in DOMAIN runs : ~Failing(runs[i])}
         /\ IsFiniteSet(DOMAIN Usable(runs))
         /\ Usable(runs) \in [DOMAIN Usable(runs) -> Int]
         /\ \A i \in DOMAIN Usable(runs) : Usable(runs)[i] = runs[i].reconciledValue
<1> DEFINE D == {i \in DOMAIN runs : ~Failing(runs[i])}
<1>1. DOMAIN Usable(runs) = D /\ \A i \in D : Usable(runs)[i] = runs[i].reconciledValue
  BY DEF Usable
<1>2. IsFiniteSet(D)
  <2>1. RUNS \in Int /\ 1 \in Int /\ D \in SUBSET (1..RUNS)
    BY EvidenceAssumption DEF EvidenceAssumption
  <2> HIDE DEF D
  <2> QED BY <2>1, FS_Interval, FS_Subset
<1>3. ASSUME NEW i \in D PROVE runs[i].reconciledValue \in Int
  <2>1. PICK sources \in Sources : runs[i] = Run(sources)
    OBVIOUS
  <2>2. ~Failing(runs[i])
    OBVIOUS
  <2> HIDE DEF D
  <2> QED BY <2>1, <2>2, RunHasAValue
<1>4. Usable(runs) = [i \in D |-> runs[i].reconciledValue]
  BY DEF Usable
<1> HIDE DEF D
<1>5. Usable(runs) \in [D -> Int]
  BY <1>3, <1>4
<1> QED BY <1>1, <1>2, <1>5 DEF D

LEMMA NearOfBoth ==
  ASSUME NEW x \in Int, NEW y \in Int, NEW mean \in Int, NEW hi \in Int,
         NEW tolerance \in Nat,
         y <= hi, hi - y <= tolerance, mean <= hi, hi - mean <= tolerance
  PROVE  /\ Abs(y - mean) <= tolerance
         /\ x - y <= tolerance /\ y - x <= tolerance => Abs(x - mean) <= 2 * tolerance
BY DEF Abs

LEMMA MajorityDecided ==
  ASSUME runConsensusDecisive
  PROVE  MajorityDecides'
<1>1. PICK runs \in [1..RUNS -> {Run(sources) : sources \in Sources}],
           asserted \in Values :
        answer' = [path |-> "consensus", runs |-> runs, asserted |-> asserted,
                   consensus |-> consensusEvidence(runs),
                   verdict |-> deterministicVerdict(consensusEvidence(runs), asserted)]
  BY DEF runConsensusDecisive
<1> DEFINE values == Usable(runs)
           valued == DOMAIN values
           cluster == LargestCluster(values)
           consensus == consensusEvidence(runs)
           mean == FoldFunctionOnSet(+, 0, values, cluster) \div Cardinality(cluster)
           tol == reconcileToleranceBps
           Near(i, n) == Abs(values[i] - consensus.reconciledValue) <= n * tol
<1>2. /\ valued = {i \in DOMAIN runs : ~Failing(runs[i])}
      /\ IsFiniteSet(valued) /\ values \in [valued -> Int]
      /\ \A i \in valued : values[i] = runs[i].reconciledValue
  BY RunsHaveValues
<1>3. tol \in Nat
  BY ReconcilerAssumption DEF ReconcilerAssumption
<1>4. consensus = IF Cardinality(valued) < 2 \/ Cardinality(cluster) < 2 THEN Failed
                  ELSE [agree |-> TRUE, reconciledValue |-> mean]
  BY DEF consensusEvidence
<1>5. Failing(consensus) <=> Cardinality(valued) < 2 \/ Cardinality(cluster) < 2
  <2>1. Failed # [agree |-> TRUE, reconciledValue |-> mean]
    BY DEF Failed
  <2> HIDE DEF valued, cluster, mean, consensus
  <2> QED BY <1>4, <2>1 DEF Failing
<1>6. ~Failing(consensus) => consensus.reconciledValue = mean
  <2> HIDE DEF consensus, valued, cluster, mean
  <2> QED BY <1>4, <1>5
<1>7. \A S \in SUBSET valued : IsFiniteSet(S) /\ Cardinality(S) \in Nat
  <2> HIDE DEF valued
  <2> QED BY <1>2, FS_Subset, FS_CardinalityType
<1>8. answer'.verdict # "ABSTAIN" => ~Failing(consensus)
  BY <1>1 DEF deterministicVerdict
<1>9. /\ answer'.runs = runs /\ answer'.consensus = consensus
  BY <1>1
<1> HIDE DEF valued, consensus, mean, tol
<1>10. ASSUME valued # {}
       PROVE  \E hi \in valued :
                /\ cluster = Window(values, hi)
                /\ \A other \in valued : Cardinality(Window(values, other))
                                           <= Cardinality(cluster)
  <2> HIDE DEF values, cluster
  <2>1. \E hi \in valued :
          /\ LargestCluster(values) = Window(values, hi)
          /\ \A other \in valued : Cardinality(Window(values, other))
                                     <= Cardinality(Window(values, hi))
    BY <1>2, <1>10, ClusterIsAWindow
  <2> QED BY <2>1 DEF cluster
<1> HIDE DEF cluster, values
<1>11. ASSUME ~Failing(consensus)
       PROVE  \E hi \in Int :
                /\ \A i \in cluster : values[i] <= hi /\ hi - values[i] <= tol
                /\ mean \in Int /\ mean <= hi /\ hi - mean <= tol
                /\ cluster \subseteq valued /\ Cardinality(cluster) >= 2
  <2>1. Cardinality(cluster) >= 2 /\ valued # {}
    <3>1. Cardinality({}) = 0
      BY FS_EmptySet
    <3>2. ~(Cardinality(valued) < 2) /\ ~(Cardinality(cluster) < 2)
      BY <1>5, <1>11
    <3>3. valued # {}
      <4> SUFFICES ASSUME valued = {} PROVE FALSE
        OBVIOUS
      <4>1. Cardinality(valued) = 0
        BY <3>1
      <4> QED BY <3>2, <4>1
    <3>4. PICK top \in valued : cluster = Window(values, top)
      BY <1>10, <3>3
    <3>5. cluster \in SUBSET valued
      BY <1>2, <3>4 DEF Window
    <3>6. Cardinality(cluster) \in Nat
      BY <1>7, <3>5
    <3> QED BY <3>2, <3>3, <3>6
  <2>2. PICK top \in valued : cluster = Window(values, top)
    BY <1>10, <2>1
  <2>3. /\ cluster \in SUBSET valued /\ values[top] \in Int
        /\ \A i \in cluster : /\ values[i] \in Int
                              /\ values[i] <= values[top]
                              /\ values[top] - values[i] <= tol
    BY <1>2, <2>2 DEF Window, tol
  <2>4. cluster # {} /\ IsFiniteSet(cluster)
    <3>1. cluster # {}
      <4> SUFFICES ASSUME cluster = {} PROVE FALSE
        OBVIOUS
      <4>1. Cardinality(cluster) = 0
        BY FS_EmptySet
      <4> QED BY <2>1, <4>1
    <3> QED BY <1>7, <2>3, <3>1
  <2> DEFINE hi == values[top]
             lo == hi - tol
  <2>5. /\ lo \in Int /\ hi \in Int
        /\ \A i \in cluster : values[i] \in Int /\ lo <= values[i] /\ values[i] <= hi
    BY <1>3, <2>3
  <2>6. mean \in Int /\ lo <= mean /\ mean <= hi
    <3> HIDE DEF lo, hi
    <3> QED BY <2>4, <2>5, MeanIsBetween DEF mean
  <2>7. hi - mean <= tol
    BY <1>3, <2>5, <2>6
  <2> HIDE DEF lo
  <2> QED BY <2>1, <2>3, <2>5, <2>6, <2>7
<1>12. ASSUME NEW quorum \in SUBSET valued,
              Cardinality(quorum) >= 2,
              2 * Cardinality(quorum) > Cardinality(valued),
              \A i, j \in quorum : values[i] - values[j] <= tol
       PROVE  ~Failing(consensus) /\ \A i \in quorum : Near(i, 2)
  <2>1. quorum # {} /\ valued # {}
    <3>1. quorum # {}
      <4> SUFFICES ASSUME quorum = {} PROVE FALSE
        OBVIOUS
      <4>1. Cardinality(quorum) = 0
        BY FS_EmptySet
      <4> QED BY <1>12, <4>1
    <3> QED BY <3>1
  <2>2. PICK top \in valued :
          /\ cluster = Window(values, top)
          /\ \A other \in valued : Cardinality(Window(values, other))
                                     <= Cardinality(cluster)
    BY <1>10, <2>1
  <2>3. cluster \in SUBSET valued /\ Cardinality(cluster) \in Nat
    BY <1>2, <1>7, <2>2 DEF Window
  <2>4. Cardinality(quorum) <= Cardinality(cluster)
    BY <1>2, <1>12, <2>1, <2>2, <2>3, QuorumIsOutnumberedByNone DEF tol
  <2>5. Cardinality(quorum) \in Nat /\ Cardinality(valued) \in Nat
        /\ Cardinality(quorum) <= Cardinality(valued)
    BY <1>2, <1>7, FS_Subset
  <2>6. ~Failing(consensus)
    BY <1>5, <1>12, <2>3, <2>4, <2>5
  <2>7. PICK both \in quorum : both \in cluster
    <3>1. Cardinality(cluster) + Cardinality(quorum) > Cardinality(valued)
      BY <1>12, <2>3, <2>4, <2>5
    <3>2. cluster \cap quorum # {}
      BY <1>2, <2>3, <3>1, FS_MajoritiesIntersect
    <3> QED BY <3>2
  <2>8. PICK hi \in Int :
          /\ \A i \in cluster : values[i] <= hi /\ hi - values[i] <= tol
          /\ mean \in Int /\ mean <= hi /\ hi - mean <= tol
    BY <1>11, <2>6
  <2>9. ASSUME NEW i \in quorum PROVE Near(i, 2)
    <3>1. /\ values[i] \in Int /\ values[both] \in Int
          /\ values[i] - values[both] <= tol /\ values[both] - values[i] <= tol
      BY <1>2, <1>12, <2>7
    <3>2. Abs(values[i] - mean) <= 2 * tol
      BY <1>3, <2>7, <2>8, <3>1, NearOfBoth
    <3> QED BY <1>6, <2>6, <3>2
  <2> QED BY <2>6, <2>9
<1>13. ASSUME ~Failing(consensus)
       PROVE  Cardinality({i \in valued : Near(i, 1)}) >= 2
  <2> DEFINE near == {i \in valued : Near(i, 1)}
  <2>1. PICK hi \in Int :
          /\ \A i \in cluster : values[i] <= hi /\ hi - values[i] <= tol
          /\ mean \in Int /\ mean <= hi /\ hi - mean <= tol
          /\ cluster \subseteq valued /\ Cardinality(cluster) >= 2
    BY <1>11, <1>13
  <2>2. ASSUME NEW i \in cluster PROVE i \in near
    <3>1. i \in valued /\ values[i] \in Int
      BY <1>2, <2>1
    <3>2. Abs(values[i] - mean) <= tol
      BY <1>3, <2>1, <3>1, NearOfBoth
    <3>3. Abs(values[i] - consensus.reconciledValue) <= 1 * tol
      BY <1>3, <1>6, <1>13, <3>2
    <3> QED BY <3>1, <3>3
  <2>3. near \in SUBSET valued /\ cluster \in SUBSET near
    BY <2>1, <2>2
  <2> HIDE DEF near
  <2>4. Cardinality(cluster) <= Cardinality(near) /\ Cardinality(near) \in Nat
        /\ Cardinality(cluster) \in Nat
    BY <1>7, <2>1, <2>3, FS_Subset
  <2>5. Cardinality(near) >= 2
    BY <2>1, <2>4
  <2> QED BY <2>5 DEF near
<1> DEFINE usable == {i \in DOMAIN answer'.runs : ~Failing(answer'.runs[i])}
           Value(i) == answer'.runs[i].reconciledValue
           Close(i, n) == Abs(Value(i) - answer'.consensus.reconciledValue)
                            <= n * reconcileToleranceBps
<1>14. usable = valued
  BY <1>2, <1>9
<1>15. \A i \in valued : Value(i) = values[i]
  BY <1>2, <1>9
<1>16. \A i \in valued, n \in 1..2 : Close(i, n) = Near(i, n)
  BY <1>9, <1>15 DEF tol
<1>17. ASSUME NEW quorum \in SUBSET usable,
              Cardinality(quorum) >= 2,
              2 * Cardinality(quorum) > Cardinality(usable),
              \A i, j \in quorum : Value(i) - Value(j) <= reconcileToleranceBps
       PROVE  ~Failing(answer'.consensus) /\ \A i \in quorum : Close(i, 2)
  <2>1. quorum \in SUBSET valued /\ 2 * Cardinality(quorum) > Cardinality(valued)
    BY <1>14, <1>17
  <2>2. \A i, j \in quorum : values[i] - values[j] <= tol
    BY <1>15, <1>17, <2>1 DEF tol
  <2> HIDE DEF Near, Close, usable, Value
  <2>3. ~Failing(consensus) /\ \A i \in quorum : Near(i, 2)
    BY <1>12, <1>17, <2>1, <2>2
  <2> QED BY <1>9, <1>16, <2>1, <2>3
<1>18. answer'.verdict # "ABSTAIN" => Cardinality({i \in usable : Close(i, 1)}) >= 2
  <2>1. {i \in usable : Close(i, 1)} = {i \in valued : Near(i, 1)}
    <3> HIDE DEF Near, Close, usable
    <3> QED BY <1>14, <1>16
  <2> QED BY <1>8, <1>13, <2>1
<1> QED BY <1>17, <1>18 DEF MajorityDecides

-----------------------------------------------------------------------------
\* A step answers along one path, and what is said of another path holds of it.

LEMMA PathOfAStep ==
  /\ fetchLegs => answer'.path = "fetched"
  /\ computeDecisiveAttestation => answer'.path = "decisive"
  /\ runConsensusDecisive => answer'.path = "consensus"
  /\ computeNavAttestation => answer'.path = "nav"
  /\ computeDocumentAttestation => answer'.path = "document"
<1>1. ASSUME fetchLegs PROVE answer'.path = "fetched"
  BY <1>1 DEF fetchLegs
<1>2. ASSUME computeDecisiveAttestation PROVE answer'.path = "decisive"
  BY <1>2 DEF computeDecisiveAttestation
<1>3. ASSUME runConsensusDecisive PROVE answer'.path = "consensus"
  BY <1>3 DEF runConsensusDecisive
<1>4. ASSUME computeNavAttestation PROVE answer'.path = "nav"
  BY <1>4 DEF computeNavAttestation
<1>5. ASSUME computeDocumentAttestation PROVE answer'.path = "document"
  BY <1>5 DEF computeDocumentAttestation
<1> QED BY <1>1, <1>2, <1>3, <1>4, <1>5

\* The verdict on the mean is one every leg bears out, for any number of sources and
\* whatever they answer: computeDecisiveAttestation, its gates and its reconciler.
THEOREM VerdictsAreBorneOut == Spec => []EveryLegBearsOut
<1>1. Init => EveryLegBearsOut
  BY DEF Init, EveryLegBearsOut
<1>2. EveryLegBearsOut /\ [Next]_answer => EveryLegBearsOut'
  <2>1. CASE computeDecisiveAttestation
    BY <2>1, DecisiveBearsOut
  <2>2. CASE answer'.path \in {"fetched", "consensus", "nav", "document"}
    BY <2>2 DEF EveryLegBearsOut
  <2>3. CASE UNCHANGED answer
    BY <2>3 DEF EveryLegBearsOut
  <2> QED BY <2>1, <2>2, <2>3, PathOfAStep DEF Next
<1> QED BY <1>1, <1>2, PTL DEF Spec

\* A return is measured over the window asked for, and a yield is judged on a value that
\* is itself fresh unless a leg's series goes on without such a value to a fresh last
\* point, whose date the value then gets (source-registry.ts:92): for every series
\* DefiLlama may serve and every age, in the fetchers with the gates behind them.
THEOREM FreshValuesAreJudged == Spec => []JudgedValuesAreFresh
<1>1. Init => JudgedValuesAreFresh
  BY DEF Init, JudgedValuesAreFresh
<1>2. JudgedValuesAreFresh /\ [Next]_answer => JudgedValuesAreFresh'
  <2>1. CASE fetchLegs
    BY <2>1, FreshnessJudged
  <2>2. CASE answer'.path \in {"decisive", "consensus", "nav", "document"}
    BY <2>2 DEF JudgedValuesAreFresh
  <2>3. CASE UNCHANGED answer
    BY <2>3 DEF JudgedValuesAreFresh
  <2> QED BY <2>1, <2>2, <2>3, PathOfAStep DEF Next
<1> QED BY <1>1, <1>2, PTL DEF Spec

\* Runs that agree and outnumber the rest decide, and a verdict has two of them
\* behind it, whatever the values and the tolerance: consensusEvidence.
THEOREM MajorityPrevails == Spec => []MajorityDecides
<1>1. Init => MajorityDecides
  BY DEF Init, MajorityDecides
<1>2. MajorityDecides /\ [Next]_answer => MajorityDecides'
  <2>1. CASE runConsensusDecisive
    BY <2>1, MajorityDecided
  <2>2. CASE answer'.path \in {"fetched", "decisive", "nav", "document"}
    BY <2>2 DEF MajorityDecides
  <2>3. CASE UNCHANGED answer
    BY <2>3 DEF MajorityDecides
  <2> QED BY <2>1, <2>2, <2>3, PathOfAStep DEF Next
<1> QED BY <1>1, <1>2, PTL DEF Spec

\* The switches of a narration lead from the model asked to the one that ended it:
\* ModelRouter.complete behind narrateDecisive.
THEOREM NarrationIsAccounted == Spec => []NarratorIsNamed
<1>1. Init => NarratorIsNamed
  BY DEF Init, NarratorIsNamed
<1>2. NarratorIsNamed /\ [Next]_answer => NarratorIsNamed'
  <2>1. CASE computeDecisiveAttestation
    BY <2>1, NarratorNamed
  <2>2. CASE answer'.path \in {"fetched", "consensus", "nav", "document"}
    BY <2>2 DEF NarratorIsNamed
  <2>3. CASE UNCHANGED answer
    BY <2>3 DEF NarratorIsNamed
  <2> QED BY <2>1, <2>2, <2>3, PathOfAStep DEF Next
<1> QED BY <1>1, <1>2, PTL DEF Spec

\* The first node that tells a share price decides, whatever the others fail to tell,
\* and its price is judged as it is if the decimals it does not tell are what is put in
\* their place, for any decimals, price and number of nodes and any tolerance that is a
\* number; one that is none makes nothing valid: readFromRpc and crossCheckNav.
THEOREM NavIsReadAsItIs == Spec => []NavIsJudgedAsItIs
<1>1. Init => NavIsJudgedAsItIs
  BY DEF Init, NavIsJudgedAsItIs
<1>2. NavIsJudgedAsItIs /\ [Next]_answer => NavIsJudgedAsItIs'
  <2>1. CASE computeNavAttestation
    BY <2>1, NavJudged
  <2>2. CASE answer'.path \in {"fetched", "decisive", "consensus", "document"}
    BY <2>2 DEF NavIsJudgedAsItIs
  <2>3. CASE UNCHANGED answer
    BY <2>3 DEF NavIsJudgedAsItIs
  <2> QED BY <2>1, <2>2, <2>3, PathOfAStep DEF Next
<1> QED BY <1>1, <1>2, PTL DEF Spec

\* A document is judged by the figure at the path of the claim, as far as it is read
\* there, or else by the one a model reads in it, and never by an error page; a scale or
\* a tolerance that is no number makes nothing valid. That the figure is the document's
\* own is not said: it may be cut off at a separator, and the model may misread it
\* (document.ts:82, 122). fetchDocumentEvidence and crossCheckDocument.
THEOREM DocumentsAreReadRight == Spec => []DocumentsAreQuotedRight
<1>1. Init => DocumentsAreQuotedRight
  BY DEF Init, DocumentsAreQuotedRight
<1>2. DocumentsAreQuotedRight /\ [Next]_answer => DocumentsAreQuotedRight'
  <2>1. CASE computeDocumentAttestation
    BY <2>1, DocumentsJudged
  <2>2. CASE answer'.path \in {"fetched", "decisive", "consensus", "nav"}
    BY <2>2 DEF DocumentsAreQuotedRight
  <2>3. CASE UNCHANGED answer
    BY <2>3 DEF DocumentsAreQuotedRight
  <2> QED BY <2>1, <2>2, <2>3, PathOfAStep DEF Next
<1> QED BY <1>1, <1>2, PTL DEF Spec

=============================================================================

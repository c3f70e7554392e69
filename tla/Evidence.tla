------------------------------ MODULE Evidence ------------------------------
(***************************************************************************)
(* How evidence becomes a verdict (packages/agent-sdk/src/data): the legs  *)
(* of one run, as they are fetched and as they are judged and narrated by  *)
(* a model behind a ModelRouter; the consensus of several runs; and the    *)
(* share price of a vault; and the figure of a document. Each is a         *)
(* computation over what sources, models and nodes answer, and all of them *)
(* may fail: a step picks the answers. The graph and the wording of the    *)
(* trace are left out.                                                     *)
(***************************************************************************)
EXTENDS Fetchers, Documents

CONSTANTS
    Values,                   \* what a leg may say, and a claim assert
    Ages,                     \* of a leg, in days
    MAX_SOURCES, RUNS,        \* bounds: the sources of an asset, its evidence runs
    Decimals,                 \* what the decimals of a share or an asset may be
    DEFAULT_DECIMALS,         \* 18 in the code
    Prices,                   \* assets per share, in hundredths
    NavTolerances,            \* in percent
    NODES                     \* bound: the nodes of a chain

\* Means are exact, of the legs of a run and of the values of the runs.
ASSUME EvidenceAssumption ==
    /\ MAX_SOURCES \in Nat \ {0} /\ RUNS \in Nat \ {0}
    /\ \A n \in 1..MAX_SOURCES, m \in 1..RUNS : SCALE % (n * m) = 0
    /\ Values \subseteq Int /\ \A v \in Values : v % SCALE = 0
    /\ Ages \subseteq Nat
    /\ DEFAULT_DECIMALS \in Decimals /\ Decimals \subseteq Nat
    /\ Prices \subseteq Nat /\ NavTolerances \subseteq Nat /\ NODES \in Nat \ {0}

VARIABLE answer    \* what the last computation was given and what came of it

Legs == [valueBps : Values, age : Ages \cup {NoStamp}]
Sources == UNION {[1..n -> Legs \cup {Failed}] : n \in 1..MAX_SOURCES}

-----------------------------------------------------------------------------
(* The narrator: the models behind a ModelRouter *)

\* A provider answers, answers what cannot be used, fails in a way another may mend
\* (rate limit, server error, timeout), fails otherwise, or is not configured.
Outcomes == {"absent", "answers", "unusable", "overloaded", "refuses"}
Providers == {"primary", "fallback", "mock"}

\* A router has a primary; it is asked for nothing when there is none.
Configured(outcome) ==
    LET IfThere(p) == IF outcome[p] = "absent" THEN <<>> ELSE <<p>>
    IN <<"primary">> \o IfThere("fallback") \o IfThere("mock")

\* The provider that ends the call: the first that is not overloaded, or the last.
Reached(outcome) ==
    LET tried == Configured(outcome)
        ends == {i \in DOMAIN tried :
                   outcome[tried[i]] # "overloaded" \/ i = Len(tried)}
    IN Min(ends)

\* Fault: only a switch that helped is recorded.
SwitchThatHelped(outcome) ==
    LET tried == Configured(outcome) n == Reached(outcome)
    IN IF outcome[tried[n]] \in {"answers", "unusable"} /\ n > 1
       THEN <<[from |-> tried[n - 1], to |-> tried[n]]>> ELSE <<>>

\* A switch to the mock is recorded after the mock's answer, the other one always.
Switches(outcome) ==
    LET tried == Configured(outcome)
        n == Reached(outcome)
        m == IF tried[n] = "mock" /\ outcome["mock"] \notin {"answers", "unusable"}
             THEN n - 1 ELSE n
    IN [i \in 1..m - 1 |-> [from |-> tried[i], to |-> tried[i + 1]]]

complete(outcome) ==
    LET last == Configured(outcome)[Reached(outcome)]
    IN [by |-> IF outcome[last] \in {"answers", "unusable"} THEN last ELSE "nobody",
        switches |-> Switches(outcome)]

\* The router does not know an answer that cannot be used, and tries no other model.
parseNarration(response, outcome) ==
    IF \E p \in Providers : response.by = p /\ outcome[p] = "unusable"
    THEN [response EXCEPT !.by = "nobody"] ELSE response

\* A claim may be decided without a narrator; what a model throws is swallowed.
narrateDecisive(outcome) ==
    IF outcome["primary"] = "absent" THEN [by |-> "nobody", switches |-> <<>>]
    ELSE parseNarration(complete(outcome), outcome)

computeDecisiveAttestation ==
    \E outcome \in [Providers -> Outcomes], sources \in Sources,
       asserted \in Values :
      LET legs == getYieldObservation(sources)
      IN answer' = [path |-> "decisive", legs |-> legs, asserted |-> asserted,
                    outcome |-> outcome,
                    verdict |-> IF Throws(sources) THEN "thrown"
                                ELSE Judge(legs, asserted),
                    narration |-> narrateDecisive(outcome)]

\* The legs behind a verdict, from what the interfaces of an asset with two sources
\* serve; the second may be out of reach.
fetchLegs ==
    \E points \in Series, kind \in {"pricePerShare", "reportedApy"},
       row \in Row \cup {Failed} :
      LET sources == <<defillama(points, kind),
                       IF Failing(row) THEN Failed ELSE mantleMethApi(row)>>
          legs == getYieldObservation(sources)
      IN answer' = [path |-> "fetched", points |-> points, kind |-> kind,
                    legs |-> legs,
                    judged |-> /\ ~Throws(sources)
                               /\ runGates(legs)
                               /\ ~Failing(reconcileLegs(LegValues(legs)))]

-----------------------------------------------------------------------------
(* The consensus of several runs *)

Run(sources) ==
    IF Throws(sources) THEN Failed ELSE reconcileLegs(LegValues(getYieldObservation(sources)))

\* The values of the runs that have one.
Usable(runs) ==
    [i \in {j \in DOMAIN runs : ~Failing(runs[j])} |-> runs[i].reconciledValue]

\* The runs whose values are in a window of the tolerance that ends at the value of one.
Window(values, hi) ==
    {i \in DOMAIN values : values[i] <= values[hi]
                             /\ values[hi] - values[i] <= reconcileToleranceBps}

\* Fault: the window starts at the first value and stays there.
FirstCluster(values) ==
    {i \in DOMAIN values : values[i] - Min(Range(values)) <= reconcileToleranceBps}

\* The window slides over the sorted values; the first of the largest ones is kept.
LargestCluster(values) ==
    LET Votes(i) == Cardinality(Window(values, i))
    IN Window(values, CHOOSE hi \in DOMAIN values : \A other \in DOMAIN values :
                        /\ Votes(other) <= Votes(hi)
                        /\ Votes(other) = Votes(hi) => values[hi] <= values[other])

consensusEvidence(runs) ==
    LET values == Usable(runs)
        cluster == LargestCluster(values)
    IN IF Cardinality(DOMAIN values) < 2 \/ Cardinality(cluster) < 2 THEN Failed
       ELSE [agree |-> TRUE,
             reconciledValue |->
               FoldFunctionOnSet(+, 0, values, cluster) \div Cardinality(cluster)]

runConsensusDecisive ==
    \E runs \in [1..RUNS -> {Run(sources) : sources \in Sources}], asserted \in Values :
      LET consensus == consensusEvidence(runs)
      IN answer' = [path |-> "consensus", runs |-> runs, asserted |-> asserted,
                    consensus |-> consensus,
                    verdict |-> deterministicVerdict(consensus, asserted)]

-----------------------------------------------------------------------------
(* The share price of a vault *)

\* What the contract would answer: the decimals of the share and of the asset, and
\* the assets of one share.
Vaults == [share : Decimals, asset : Decimals, price : Prices]

\* Which calls a node answers; the asset is two calls that fail as one.
Nodes == [{"decimals", "asset", "convertToAssets", "pricePerShare"} -> BOOLEAN]

\* Fault: the output is scaled by the decimals of the share.
ShareDecimalsForBoth(node, vault) ==
    [share |-> IF node["decimals"] THEN vault.share ELSE DEFAULT_DECIMALS,
     asset |-> IF node["decimals"] THEN vault.share ELSE DEFAULT_DECIMALS]

\* A call that fails is taken for a function the contract does not have.
DecimalsRead(node, vault) ==
    LET share == IF node["decimals"] THEN vault.share ELSE DEFAULT_DECIMALS
    IN [share |-> share, asset |-> IF node["asset"] THEN vault.asset ELSE share]

\* assetsPerShare is price * 10^power. One share is put in as 10^share units, what
\* comes out is divided by 10^asset.
readFromRpc(node, vault) ==
    LET read == DecimalsRead(node, vault)
    IN IF node["convertToAssets"]
       THEN [price |-> vault.price,
             power |-> (read.share - vault.share) + (vault.asset - read.asset)]
       ELSE IF node["pricePerShare"]
       THEN [price |-> vault.price, power |-> vault.asset - read.asset]
       ELSE Failed

\* The first node of the chain that answers.
defaultReadErc4626(nodes, vault) ==
    LET answering == {i \in DOMAIN nodes : ~Failing(readFromRpc(nodes[i], vault))}
    IN IF answering = {} THEN Failed ELSE readFromRpc(nodes[Min(answering)], vault)

Power10(n) == IF n > 0 THEN 10 ^ n ELSE 1

\* The gap in percent of what was read; no gap is within what is no number.
crossCheckNav(asserted, read, tolerancePct) ==
    IF Failing(read) \/ read.price <= 0 THEN "ABSTAIN"
    ELSE LET onChain == read.price * Power10(read.power)
             claimed == asserted * Power10(-read.power)
         IN IF /\ tolerancePct # NaN
               /\ Abs(claimed - onChain) * 100 <= tolerancePct * onChain
            THEN "VALID" ELSE "REJECTED"

\* A request is refused when it asserts no positive number; its tolerance is taken as
\* it comes.
computeNavAttestation ==
    \E nodes \in [1..NODES -> Nodes], vault \in Vaults, asserted \in Prices \ {0},
       tolerancePct \in NavTolerances \cup {NaN} :
      LET read == defaultReadErc4626(nodes, vault)
      IN answer' = [path |-> "nav", nodes |-> nodes, vault |-> vault,
                    asserted |-> asserted, tolerance |-> tolerancePct,
                    verdict |-> crossCheckNav(asserted, read, tolerancePct)]

-----------------------------------------------------------------------------
(* The figure of a document *)

computeDocumentAttestation ==
    \E document \in Documents, reply \in Replies, request \in Requests :
      LET extraction == fetchDocumentEvidence(document, request, reply)
      IN answer' = [path |-> "document", document |-> document, reply |-> reply,
                    request |-> request, extraction |-> extraction,
                    verdict |-> crossCheckDocument(request.asserted, extraction,
                                                   request.tolerance)]

-----------------------------------------------------------------------------

Init == answer = [path |-> "none"]

Next ==
    /\ answer.path = "none"
    /\ \/ computeNavAttestation
       \/ computeDocumentAttestation
       \/ runConsensusDecisive
       \/ fetchLegs
       \/ computeDecisiveAttestation

Spec == Init /\ [][Next]_answer

-----------------------------------------------------------------------------
(* Properties *)

\* The verdict on the mean is one every leg bears out: VALID leaves no leg further
\* from the claim than both tolerances together, REJECTED none nearer than their
\* difference. Every leg behind it is plausible, and one is fresh or none is dated.
EveryLegBearsOut ==
    answer.path = "decisive" /\ answer.verdict \in {"VALID", "REJECTED"} =>
        /\ \A leg \in Range(answer.legs) :
             LET gap == Abs(leg.valueBps - answer.asserted)
             IN /\ leg.valueBps >= minBps /\ leg.valueBps <= maxBps
                /\ IF answer.verdict = "VALID"
                   THEN gap <= verdictToleranceBps + reconcileToleranceBps
                   ELSE gap > verdictToleranceBps - reconcileToleranceBps
        /\ \/ \E leg \in Range(answer.legs) : leg.age \in 0..maxStalenessDays
           \/ \A leg \in Range(answer.legs) : leg.age = NoStamp

\* A yield is judged only on a value that is itself fresh, or when no leg is dated, or
\* on the last one of a series that goes on without such a value up to a fresh point:
\* the date of a leg is that of its series, and there the code passes what may be
\* stale (source-registry.ts:92). And a return is measured over the window asked for
\* or a longer one, where the series reaches that far, and up to its newest price.
JudgedValuesAreFresh ==
    answer.path = "fetched" /\ answer.judged =>
        LET points == answer.points
            IsFresh(t) == t # NoTime /\ AgeDays(t) <= maxStalenessDays
            IsReturn(leg) == leg.past # leg.last
            priced == {p \in Range(points) : p.pricePerShare # NoPrice /\ p.t # NoTime}
            GoesOnWithout(leg) ==
              /\ points # <<>> /\ IsFresh(Last(points).t)
              /\ \E i \in 1..Len(points) - 1 :
                   /\ points[i].t = leg.last
                   /\ IF IsReturn(leg) THEN Last(points).pricePerShare = NoPrice
                      ELSE \A j \in i + 1..Len(points) : points[j].apy = NoRate
        IN /\ \/ \E leg \in Range(answer.legs) :
                   IsFresh(leg.last) \/ GoesOnWithout(leg)
              \/ \A leg \in Range(answer.legs) : leg.age = NoStamp
           /\ \A leg \in Range(answer.legs) : IsReturn(leg) =>
                /\ \A p \in priced : p.t <= leg.last
                /\ \/ leg.last - leg.past >= requestedWindowDays * TICKS
                   \/ \A p \in priced : p.t >= leg.past

\* Runs that agree with each other and outnumber the rest decide: there is then a
\* consensus, within twice the tolerance of each of them, whatever the others say;
\* and a verdict always has two runs behind it.
MajorityDecides ==
    answer.path = "consensus" =>
        LET valued == {i \in DOMAIN answer.runs : ~Failing(answer.runs[i])}
            Value(i) == answer.runs[i].reconciledValue
            Near(i, n) == Abs(Value(i) - answer.consensus.reconciledValue)
                            <= n * reconcileToleranceBps
        IN /\ \A quorum \in SUBSET valued :
                /\ Cardinality(quorum) >= 2
                /\ 2 * Cardinality(quorum) > Cardinality(valued)
                /\ \A i, j \in quorum : Value(i) - Value(j) <= reconcileToleranceBps
                => ~Failing(answer.consensus) /\ \A i \in quorum : Near(i, 2)
           /\ answer.verdict # "ABSTAIN" =>
                Cardinality({i \in valued : Near(i, 1)}) >= 2

\* The switches of a narration lead from the model asked to the one that ended it,
\* and a model that would answer is passed over only for one that refuses or whose
\* answer cannot be used.
NarratorIsNamed ==
    answer.path = "decisive" /\ answer.outcome["primary"] # "absent" =>
        LET by == answer.narration.by
            switches == answer.narration.switches
            Willing == {p \in DOMAIN answer.outcome : answer.outcome[p] = "answers"}
        IN /\ \A i \in DOMAIN switches :
                switches[i].from = IF i = 1 THEN "primary" ELSE switches[i - 1].to
           /\ by \in {"fallback", "mock"} => switches # <<>> /\ Last(switches).to = by
           /\ by = "primary" => switches = <<>>
           /\ by = "nobody" => \/ Willing = {}
                              \/ \E p \in DOMAIN answer.outcome :
                                   answer.outcome[p] \in {"refuses", "unusable"}

\* The first node that tells a price decides on it, for any number of nodes that fail
\* before: there is no verdict only when none tells it or it is 0. It is taken as it
\* is, however the decimals of the share and of the asset differ, unless that node
\* fails to tell decimals that matter and they are not what is put in their place
\* (nav.ts:73, 82). And a tolerance that is no number (nav-check/route.ts:20) makes no
\* claim valid.
NavIsJudgedAsItIs ==
    answer.path = "nav" =>
        LET vault == answer.vault
            telling == {i \in DOMAIN answer.nodes :
                          \/ answer.nodes[i]["convertToAssets"]
                          \/ answer.nodes[i]["pricePerShare"]}
            node == answer.nodes[Min(telling)]
            Misjudged ==
              IF node["asset"]
              THEN /\ ~node["decimals"] /\ node["convertToAssets"]
                   /\ vault.share # DEFAULT_DECIMALS
              ELSE vault.asset # IF node["decimals"] \/ node["convertToAssets"]
                                 THEN vault.share ELSE DEFAULT_DECIMALS
            Near == Abs(answer.asserted - vault.price) * 100
                      <= answer.tolerance * vault.price
        IN /\ answer.verdict = "ABSTAIN" <=> telling = {} \/ vault.price = 0
           /\ answer.verdict = "VALID" => answer.tolerance # NaN
           /\ answer.verdict # "ABSTAIN" /\ answer.tolerance # NaN =>
                Misjudged \/ (answer.verdict = "VALID" <=> Near)

\* A document is judged by the figure at the place the claim names, as far as it is
\* read there, and only where there is none by the one a model reads in the text; no
\* error page is judged, and a scale or a tolerance that is no number makes no claim
\* valid. The figure judged is the document's own unless it is cut off at a separator
\* (document.ts:82) or the model misreads it, whatever it quotes (document.ts:122).
DocumentsAreQuotedRight ==
    answer.path = "document" /\ answer.verdict # "ABSTAIN" =>
        LET document == answer.document
            request == answer.request
            Told(valueBps) ==
              answer.verdict = "VALID" <=> Abs(request.asserted - valueBps) <= request.tolerance
        IN /\ ~Failing(document) /\ ~document.error
           /\ request.tolerance = NaN => answer.verdict = "REJECTED"
           /\ request.tolerance # NaN =>
                IF request.jsonPath /\ document.field.read # NoFigure
                THEN IF request.scaleToBps = NaN THEN answer.verdict = "REJECTED"
                     ELSE Told(document.field.read * request.scaleToBps)
                ELSE ~Failing(answer.reply) /\ Told(answer.reply.valuePercent * 100)

=============================================================================

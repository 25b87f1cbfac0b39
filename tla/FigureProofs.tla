---------------------------- MODULE FigureProofs ----------------------------
(***************************************************************************)
(* The figures that the pages of a run show, proved right for any agents,  *)
(* pods, loads and endpoints: the counts of its pods (RunPods), the        *)
(* sources of its pages (RunSources), the tables, charts and trends that   *)
(* are merged from its agents (RunFigures), the slices of its data files   *)
(* (DataSlices), the shares of its load (LoadShares) and the pages of its  *)
(* log (LogPages).                                                         *)
(***************************************************************************)
EXTENDS MCServices, FoldProofs

-----------------------------------------------------------------------------
(* Pods *)

PodStates == [Pods -> [at : {"running"} \cup PodEnds, up : BOOLEAN]]
Entries == [Pods -> {"running", "unknown"} \cup PodEnds]
ShownRuns == [status : {"preparing", "running"} \cup PodEnds, wanted : AskedFor,
              entries : {<<>>} \cup Entries, curves : SUBSET Pods]

\* What is stored with the run belongs to its status.
PodsInv ==
    /\ pod \in PodStates /\ shown \in ShownRuns
    /\ shown.status = "preparing" => shown.entries = <<>> /\ shown.curves = {}
    /\ shown.status # "preparing" => shown.entries \in Entries
    /\ shown.status = "succeeded" =>
          /\ \A p \in Pods : pod[p].at = "succeeded" /\ shown.entries[p] = "succeeded"
          /\ shown.curves = Pods

LEMMA PodsStart == PodsInit => PodsInv
  BY DEF PodsInit, PodsInv, PodStates, ShownRuns, PodEnds

LEMMA PodsKeep == PodsInv /\ [PodsNext]_podVars => PodsInv'
<1> SUFFICES ASSUME PodsInv, [PodsNext]_podVars PROVE PodsInv'
  OBVIOUS
<1>0. pod \in PodStates /\ shown \in ShownRuns
  BY DEF PodsInv
<1>1. CASE PodsDispatched
  BY <1>0, <1>1 DEF PodsDispatched, PodsInv, ShownRuns, Entries, PodEnds
<1>2. CASE PodsPolled
  <2> DEFINE seen == [p \in Pods |-> IF pod[p].up THEN pod[p].at ELSE "unknown"]
  <2>1. seen \in Entries
    BY <1>0 DEF PodStates, Entries, PodEnds
  <2>2. /\ shown' = [shown EXCEPT !.entries = seen, !.status = PodVerdict(seen),
                                  !.curves = IF CurvesTold # {} THEN CurvesTold ELSE shown.curves]
        /\ UNCHANGED pod
    BY <1>2 DEF PodsPolled
  <2>3. PodVerdict(seen) \in {"running"} \cup PodEnds /\ CurvesTold \subseteq Pods
    BY DEF PodVerdict, PodEnds, CurvesTold, Reached
  <2>4. ASSUME PodVerdict(seen) = "succeeded"
        PROVE  (\A p \in Pods : pod[p].at = "succeeded" /\ pod[p].up) /\ CurvesTold = Pods
    <3>1. {seen[p] : p \in Pods} \cap {"failed", "running", "unknown", "stopped"} = {}
      BY <2>4 DEF PodVerdict
    <3>2. ASSUME NEW p \in Pods PROVE pod[p].at = "succeeded" /\ pod[p].up
      <4>1. seen[p] \notin {"failed", "running", "unknown", "stopped"}
        BY <3>1
      <4> QED
        BY <1>0, <4>1 DEF PodStates, PodEnds
    <3> QED
      BY <3>2 DEF CurvesTold, Reached, PodEnds
  <2>5. \A p \in Pods : pod[p].at = "succeeded" /\ pod[p].up => seen[p] = "succeeded"
    OBVIOUS
  <2> HIDE DEF seen
  <2>6. shown'.status = PodVerdict(seen) /\ shown'.entries = seen
        /\ shown'.curves = IF CurvesTold # {} THEN CurvesTold ELSE shown.curves
    BY <1>0, <2>2 DEF ShownRuns
  <2>7. shown' \in ShownRuns
    BY <1>0, <2>1, <2>2, <2>3 DEF ShownRuns
  <2>8. PodVerdict(seen) # "preparing"
    BY <2>3 DEF PodEnds
  <2> QED
    BY <1>0, <2>1, <2>2, <2>4, <2>5, <2>6, <2>7, <2>8, PodsAssumption DEF PodsInv
<1>3. CASE PodEndsItself
  <2>1. PICK p \in Pods, end \in {"succeeded", "failed"} :
           pod[p].at = "running" /\ pod' = [pod EXCEPT ![p].at = end]
    BY <1>3 DEF PodEndsItself
  <2>2. UNCHANGED shown /\ shown.status # "succeeded"
    BY <1>3, <2>1 DEF PodEndsItself, PodsInv
  <2>3. pod' \in PodStates
    BY <1>0, <2>1 DEF PodStates, PodEnds
  <2> QED
    BY <2>2, <2>3 DEF PodsInv
<1>4. CASE UserStopsRun
  <2>1. pod' \in PodStates
    BY <1>0, <1>4 DEF UserStopsRun, PodStates, PodEnds
  <2>2. shown.status = "running" /\ shown' = [shown EXCEPT !.status = "stopped"]
    BY <1>4 DEF UserStopsRun
  <2> QED
    BY <1>0, <2>1, <2>2 DEF PodsInv, ShownRuns, PodEnds
<1>5. CASE PodComesAndGoes
  <2>1. PICK p \in Pods : pod' = [pod EXCEPT ![p].up = ~@]
    BY <1>5 DEF PodComesAndGoes
  <2>2. pod' \in PodStates /\ \A q \in Pods : pod'[q].at = pod[q].at
    BY <1>0, <2>1 DEF PodStates
  <2> QED
    BY <1>5, <2>2 DEF PodComesAndGoes, PodsInv
<1>6. CASE UNCHANGED podVars
  BY <1>6 DEF podVars, PodsInv
<1> QED
  BY <1>1, <1>2, <1>3, <1>4, <1>5, <1>6 DEF PodsNext

LEMMA PodsAreRight == PodsInv => PodsTypeOK /\ PodsAddUp
<1> SUFFICES ASSUME PodsInv PROVE PodsTypeOK /\ PodsAddUp
  OBVIOUS
<1>0. pod \in PodStates /\ shown \in ShownRuns
  BY DEF PodsInv
<1>1. PodsTypeOK
  BY <1>0 DEF PodsTypeOK, PodStates, ShownRuns, Entries
<1>2. /\ Cardinality(Pods) \in Nat /\ Cardinality(Pods) # 0
      /\ shown.wanted \in Nat /\ Cardinality(Pods) <= shown.wanted
  <2>1. Cardinality(Pods) \in Nat /\ Cardinality(Pods) # 0
    BY PodsAssumption, FS_CardinalityType, FS_EmptySet
  <2>2. shown.wanted \in AskedFor
    BY <1>0 DEF ShownRuns
  <2> QED
    BY <2>1, <2>2, PodsAssumption
<1>3. \A S \in SUBSET Pods : Cardinality(S) \in Nat /\ Cardinality(S) <= Cardinality(Pods)
  BY PodsAssumption, FS_Subset, FS_CardinalityType
<1>4. CASE shown.status = "preparing"
  <2>1. shown.entries = <<>> /\ shown.curves = {}
    BY <1>4 DEF PodsInv
  <2>2. ~PodsBegun /\ ~RunIsOver /\ Observed = Undefined
    BY <1>4, <2>1 DEF PodsBegun, RunIsOver, PodEnds, Observed
  <2>3. Progress = [completed |-> Undefined, total |-> shown.wanted, actual |-> Undefined]
    BY <1>4, <2>2 DEF Progress, PodsCompleted, PodsActual
  <2> QED
    BY <1>1, <1>2, <1>4, <2>3 DEF PodsAddUp, CountsAreOrdered, SucceededIsWhole, Undefined
<1>5. CASE shown.status # "preparing"
  <2>1. shown.entries \in Entries /\ DOMAIN shown.entries = Pods
    BY <1>5 DEF PodsInv, Entries
  <2>2. Listed = Cardinality(Pods) /\ PodsBegun
    BY <1>2, <1>5, <2>1 DEF Listed, PodsBegun
  <2>3. FirstGiven(Observed, 0) \in Nat /\ FirstGiven(Observed, 0) <= Cardinality(Pods)
    <3>1. CASE shown.curves = {}
      BY <1>2, <3>1 DEF Observed, FirstGiven
    <3>2. CASE shown.curves # {}
      <4>1. shown.curves \in SUBSET Pods
        BY <1>0 DEF ShownRuns
      <4> QED
        BY <1>3, <3>2, <4>1 DEF Observed, FirstGiven, Undefined
    <3> QED
      BY <3>1, <3>2
  <2>4. PodsActual = Cardinality(Pods)
    <3> DEFINE a == FirstGiven(Observed, 0)
               b == Cardinality(Pods)
    <3>1. PodsActual = Max({a, b})
      BY <2>2 DEF PodsActual
    <3>2. a \in Int /\ b \in Int /\ a <= b
      BY <1>2, <2>3
    <3> HIDE DEF a, b
    <3>3. Max({a, b}) \in {a, b} /\ \A x \in {a, b} : x <= Max({a, b})
      BY <3>2, PairIsFinite, MaxIs
    <3>4. Max({a, b}) = b
      BY <3>2, <3>3
    <3> QED
      BY <3>1, <3>4 DEF b
  <2> DEFINE over == {p \in Pods : shown.entries[p] \in PodEnds}
  <2>5. PodsCompleted = Cardinality(over)
    BY <2>1, <2>2 DEF PodsCompleted
  <2>6. Progress = [completed |-> Cardinality(over), total |-> shown.wanted, actual |-> Cardinality(Pods)]
    BY <1>2, <1>5, <2>4, <2>5 DEF Progress, FirstGiven, Undefined
  <2>7. CountsAreOrdered
    BY <1>2, <1>3, <2>6 DEF CountsAreOrdered
  <2>8. SucceededIsWhole
    <3> SUFFICES ASSUME shown.status = "succeeded"
                 PROVE  /\ Progress.completed = Cardinality(Pods) /\ MonitorPage = Pods
                        /\ PodSummary = [observed |-> Cardinality(Pods), peak |-> Max({PeakOf[p] : p \in Pods})]
                        /\ \A r \in PodsPage : r.status = "succeeded"
      BY DEF SucceededIsWhole
    <3>1. /\ \A p \in Pods : pod[p].at = "succeeded" /\ shown.entries[p] = "succeeded"
          /\ shown.curves = Pods
      BY DEF PodsInv
    <3>2. over = Pods
      BY <3>1 DEF PodEnds
    <3>3. shown.entries # <<>>
      BY <2>1, PodsAssumption
    <3>4. MonitorPage = Pods
      BY <3>1, <3>3, PodsAssumption DEF MonitorPage
    <3>5. PodSummary = [observed |-> Cardinality(Pods), peak |-> Max({PeakOf[p] : p \in Pods})]
      BY <3>4, PodsAssumption DEF PodSummary
    <3>6. \A r \in PodsPage : r.status = "succeeded"
      BY <3>1, <3>3 DEF PodsPage, PodRows, Reached
    <3> QED
      BY <2>6, <3>2, <3>4, <3>5, <3>6
  <2> QED
    BY <1>1, <2>7, <2>8 DEF PodsAddUp
<1> QED
  BY <1>4, <1>5

-----------------------------------------------------------------------------
(* The sources of the pages' figures *)

DriverStates == [at : {"starting", "driving", "ended"}, up : BOOLEAN, tells : SUBSET {"rows", "trends"}]
KeptRows == [status : {"running", "succeeded", "failed"}, rows : SUBSET SourceAgents,
             checks : SUBSET SourceAgents, trends : SUBSET SourceAgents,
             totals : SUBSET SourceAgents, archive : SUBSET SourceAgents]

\* An agent that has ended tells its rows, and a run that has succeeded has them all.
SourceInv ==
    /\ driver \in [SourceAgents -> DriverStates]
    /\ prom \in [up : BOOLEAN, runs : SUBSET SourceAgents, token : BOOLEAN]
    /\ kept \in KeptRows
    /\ \A a \in SourceAgents : driver[a].at = "ended" => "rows" \in driver[a].tells
    /\ kept.status = "succeeded" =>
          /\ \A a \in SourceAgents : driver[a].at = "ended"
          /\ kept.rows = SourceAgents /\ kept.checks = SourceAgents /\ kept.totals = SourceAgents

LEMMA SourceStarts == SourceInit => SourceInv
  BY SourcesAssumption DEF SourceInit, SourceInv, DriverStates, KeptRows

LEMMA SourceKeeps == SourceInv /\ [SourceNext]_sourceVars => SourceInv'
<1> SUFFICES ASSUME SourceInv, [SourceNext]_sourceVars PROVE SourceInv'
  OBVIOUS
<1>0. /\ driver \in [SourceAgents -> DriverStates] /\ kept \in KeptRows
      /\ prom \in [up : BOOLEAN, runs : SUBSET SourceAgents, token : BOOLEAN]
      /\ \A a \in SourceAgents : driver[a].at = "ended" => "rows" \in driver[a].tells
  BY DEF SourceInv
<1>a. ASSUME UNCHANGED <<prom, kept>>, driver' \in [SourceAgents -> DriverStates],
             \A a \in SourceAgents : /\ driver[a].at = "ended" => driver'[a].at = "ended"
                                     /\ driver'[a].at = "ended" => "rows" \in driver'[a].tells
      PROVE  SourceInv'
  BY <1>a DEF SourceInv
<1>1. ASSUME NEW a \in SourceAgents, DriverBegins(a) PROVE SourceInv'
  <2>1. /\ driver' \in [SourceAgents -> DriverStates]
        /\ \A b \in SourceAgents : /\ driver[b].at = "ended" => driver'[b].at = "ended"
                                   /\ driver'[b].at = "ended" => "rows" \in driver'[b].tells
    BY <1>0, <1>1 DEF DriverBegins, DriverStates
  <2> QED
    BY <1>1, <1>a, <2>1 DEF DriverBegins
<1>2. ASSUME NEW a \in SourceAgents, DriverEnds(a) PROVE SourceInv'
  <2> DEFINE new == [[driver[a] EXCEPT !.at = "ended"] EXCEPT !.tells = {"rows", "trends"}]
  <2>1. driver' = [driver EXCEPT ![a] = new]
    BY <1>0, <1>2 DEF DriverEnds
  <2>3. new \in DriverStates /\ new.at = "ended" /\ new.tells = {"rows", "trends"}
    <3>1. driver[a] \in DriverStates
      BY <1>0
    <3> QED
      BY <3>1 DEF DriverStates
  <2> HIDE DEF new
  <2>2. /\ driver' \in [SourceAgents -> DriverStates]
        /\ \A b \in SourceAgents : /\ driver[b].at = "ended" => driver'[b].at = "ended"
                                   /\ driver'[b].at = "ended" => "rows" \in driver'[b].tells
    BY <1>0, <2>1, <2>3
  <2> QED
    BY <1>2, <1>a, <2>2 DEF DriverEnds
<1>3. ASSUME NEW a \in SourceAgents, DriverIsAsked(a) PROVE SourceInv'
  <2>1. /\ driver' \in [SourceAgents -> DriverStates]
        /\ \A b \in SourceAgents : /\ driver[b].at = "ended" => driver'[b].at = "ended"
                                   /\ driver'[b].at = "ended" => "rows" \in driver'[b].tells
    BY <1>0, <1>3 DEF DriverIsAsked, DriverStates
  <2> QED
    BY <1>3, <1>a, <2>1 DEF DriverIsAsked
<1>4. ASSUME NEW a \in SourceAgents, DriverFalters(a) PROVE SourceInv'
  <2>1. /\ driver' \in [SourceAgents -> DriverStates]
        /\ \A b \in SourceAgents : /\ driver[b].at = "ended" => driver'[b].at = "ended"
                                   /\ driver'[b].at = "ended" => "rows" \in driver'[b].tells
    BY <1>0, <1>4 DEF DriverFalters, DriverStates
  <2> QED
    BY <1>4, <1>a, <2>1 DEF DriverFalters
<1>5. CASE Scrape
  <2>1. prom' \in [up : BOOLEAN, runs : SUBSET SourceAgents, token : BOOLEAN]
    BY <1>0, <1>5 DEF Scrape, Started
  <2> QED
    BY <1>5, <2>1 DEF Scrape, SourceInv
<1>6. CASE PrometheusFalters
  <2>1. prom' \in [up : BOOLEAN, runs : SUBSET SourceAgents, token : BOOLEAN]
    BY <1>0, <1>6 DEF PrometheusFalters
  <2> QED
    BY <1>6, <2>1 DEF PrometheusFalters, SourceInv
<1>b. \A A : /\ A \subseteq SourceAgents => ArchiveOf(A) \subseteq SourceAgents
  <2> SUFFICES ASSUME NEW A, A \subseteq SourceAgents PROVE ArchiveOf(A) \subseteq SourceAgents
    OBVIOUS
  <2> DEFINE over == {a \in A : driver[a].at = "ended"}
             first == CHOOSE a \in over : \A b \in over : a <= b
  <2>1. CASE over = {}
    BY <1>0, <2>1 DEF ArchiveOf, KeptRows
  <2>2. CASE over # {}
    <3>1. over \subseteq Nat
      BY SourcesAssumption
    <3>2. \E a \in over : \A b \in over : a <= b
      <4> HIDE DEF over
      <4> QED
        BY <2>2, <3>1, HasLeast
    <3>3. first \in over
      BY <3>2
    <3>4. ArchiveOf(A) = {first}
      BY <2>2 DEF ArchiveOf
    <3> QED
      BY <3>3, <3>4
  <2> QED
    BY <2>1, <2>2
<1>c. /\ Heard \subseteq SourceAgents
      /\ \A A, what : A \subseteq SourceAgents => Telling(A, what) \subseteq SourceAgents
  BY DEF Heard, Telling
<1>d. /\ AllHaveEnded => Heard = SourceAgents /\ \A a \in SourceAgents : driver[a].at = "ended"
      /\ (\A a \in SourceAgents : driver[a].at = "ended") => Telling(SourceAgents, "rows") = SourceAgents
      /\ SourceAgents # {}
  BY <1>0, SourcesAssumption DEF AllHaveEnded, Telling
<1>7. CASE StoredByPoll
  <2>1. kept' = [status  |-> IF AllHaveEnded THEN "succeeded" ELSE "running",
                 rows    |-> Update(Telling(Heard, "rows"), kept.rows),
                 checks  |-> Update(Telling(Heard, "rows"), kept.checks),
                 trends  |-> Update(Telling(Heard, "trends"), kept.trends),
                 totals  |-> IF AllHaveEnded THEN Heard ELSE kept.totals,
                 archive |-> ArchiveOf(Heard)]
        /\ UNCHANGED <<driver, prom>>
    BY <1>7 DEF StoredByPoll
  <2>2. kept' \in KeptRows
    BY <1>0, <1>b, <1>c, <2>1 DEF KeptRows, Update
  <2>3. kept'.status = "succeeded" =>
          /\ \A a \in SourceAgents : driver[a].at = "ended"
          /\ kept'.rows = SourceAgents /\ kept'.checks = SourceAgents /\ kept'.totals = SourceAgents
    BY <1>d, <2>1 DEF Update
  <2> QED
    BY <1>0, <2>1, <2>2, <2>3 DEF SourceInv
<1>8. CASE StoredByPage
  <2>1. kept' = [status |-> "succeeded", rows |-> SourceAgents, checks |-> SourceAgents,
                 trends |-> Update(kept.trends, Telling(SourceAgents, "trends")),
                 totals |-> SourceAgents, archive |-> ArchiveOf(SourceAgents)]
        /\ UNCHANGED <<driver, prom>> /\ AllHaveEnded
    BY <1>8 DEF StoredByPage
  <2>2. kept' \in KeptRows
    BY <1>0, <1>b, <1>c, <2>1 DEF KeptRows, Update
  <2> QED
    BY <1>0, <1>d, <2>1, <2>2 DEF SourceInv
<1>9. CASE GivenUp
  <2>1. kept' \in KeptRows /\ kept'.status = "failed" /\ UNCHANGED <<driver, prom>>
    BY <1>0, <1>9 DEF GivenUp, KeptRows
  <2> QED
    BY <1>0, <2>1 DEF SourceInv
<1>10. CASE UNCHANGED sourceVars
  BY <1>10 DEF sourceVars, SourceInv
<1> QED
  BY <1>1, <1>2, <1>3, <1>4, <1>5, <1>6, <1>7, <1>8, <1>9, <1>10 DEF SourceNext

\* A page shows the first figure that covers anything.
LEMMA FirstIs ==
  ASSUME NEW F, DOMAIN F \subseteq Nat
  PROVE  /\ (\A i \in DOMAIN F : F[i].of = {}) => FirstFigure(F) = Nothing
         /\ \A i \in DOMAIN F :
               F[i].of # {} => \E j \in DOMAIN F : /\ j <= i /\ FirstFigure(F) = F[j] /\ F[j].of # {}
                                                   /\ \A k \in DOMAIN F : F[k].of # {} => j <= k
<1> DEFINE some == {i \in DOMAIN F : F[i].of # {}}
<1>1. FirstFigure(F) = IF some = {} THEN Nothing ELSE F[Min(some)]
  BY DEF FirstFigure
<1>2. ASSUME some # {} PROVE Min(some) \in some /\ \A k \in some : Min(some) <= k
  <2>1. some \subseteq Nat
    OBVIOUS
  <2> HIDE DEF some
  <2>2. \E x \in some : \A y \in some : x <= y
    BY <1>2, <2>1, HasLeast
  <2> QED
    BY <2>2 DEF Min
<1>3. ASSUME NEW i \in DOMAIN F, F[i].of # {}
      PROVE  \E j \in DOMAIN F : /\ j <= i /\ FirstFigure(F) = F[j] /\ F[j].of # {}
                                 /\ \A k \in DOMAIN F : F[k].of # {} => j <= k
  <2>1. i \in some
    BY <1>3
  <2>2. Min(some) \in some /\ \A k \in some : Min(some) <= k
    BY <1>2, <2>1
  <2>3. FirstFigure(F) = F[Min(some)]
    BY <1>1, <2>1
  <2> QED
    BY <2>1, <2>2, <2>3
<1> QED
  BY <1>1, <1>3

\* What is shown covers no more than what its sources cover.
LEMMA FirstCovers ==
  ASSUME NEW F, DOMAIN F \subseteq Nat, NEW S, \A i \in DOMAIN F : F[i].of \subseteq S
  PROVE  FirstFigure(F).of \subseteq S
<1>1. CASE \A i \in DOMAIN F : F[i].of = {}
  BY <1>1, FirstIs DEF Nothing, Figure
<1>2. CASE \E i \in DOMAIN F : F[i].of # {}
  BY <1>2, FirstIs
<1> QED
  BY <1>1, <1>2

LEMMA FirstIsSome ==
  ASSUME NEW F, DOMAIN F \subseteq Nat, NEW i \in DOMAIN F, F[i].of # {}
  PROVE  FirstFigure(F).of # {}
  BY FirstIs

LEMMA FirstOfAll ==
  ASSUME NEW F, 1 \in DOMAIN F, DOMAIN F \subseteq Nat \ {0}, F[1].of # {}
  PROVE  FirstFigure(F) = F[1]
<1>1. PICK j \in DOMAIN F : j <= 1 /\ FirstFigure(F) = F[j]
  BY FirstIs
<1> QED
  BY <1>1
-----------------------------------------------------------------------------
LEMMA SourcesCover == SourceInv =>
    /\ RealChart.of \subseteq SourceAgents /\ LiveTable.of \subseteq SourceAgents
    /\ StoredTable.of \subseteq SourceAgents /\ Series \subseteq SourceAgents
    /\ AgentTrends.of \subseteq SourceAgents /\ LiveRows \subseteq SourceAgents
<1> SUFFICES ASSUME SourceInv
             PROVE  /\ RealChart.of \subseteq SourceAgents /\ LiveTable.of \subseteq SourceAgents
                    /\ StoredTable.of \subseteq SourceAgents /\ Series \subseteq SourceAgents
                    /\ AgentTrends.of \subseteq SourceAgents /\ LiveRows \subseteq SourceAgents
  OBVIOUS
<1>1. /\ kept.rows \subseteq SourceAgents /\ kept.archive \subseteq SourceAgents
      /\ prom.runs \subseteq SourceAgents
  BY DEF SourceInv, KeptRows
<1>2. /\ LiveRows \subseteq SourceAgents /\ OverallRows \subseteq SourceAgents
      /\ Series \subseteq SourceAgents /\ AgentTrends.of \subseteq SourceAgents
  BY <1>1 DEF LiveRows, OverallRows, Telling, Started, Heard, Series, Sampled, AgentTrends, Figure
<1>3. LiveTable.of \subseteq SourceAgents /\ StoredTable.of \subseteq SourceAgents
  BY <1>1, <1>2 DEF LiveTable, StoredTable, Figure
<1>4. RealChart.of \subseteq SourceAgents
  <2> DEFINE F == <<When(Cardinality(SourceAgents) > 1, AllAgentsChart),
                    PromChart, GatewayChart, AgentChart, ArchiveChart>>
  <2>1. \A i \in DOMAIN F : F[i].of \subseteq SourceAgents
    BY <1>1, SourcesAssumption
       DEF When, AllAgentsChart, PromChart, GatewayChart, AgentChart, ArchiveChart, Figure, Nothing, Started
  <2>2. DOMAIN F \subseteq Nat
    OBVIOUS
  <2>3. RealChart = FirstFigure(F)
    BY DEF RealChart
  <2> HIDE DEF F
  <2> QED
    BY <2>1, <2>2, <2>3, FirstCovers
<1> QED
  BY <1>2, <1>3, <1>4

LEMMA FlatCovers == ASSUME NEW S PROVE Flat(S).of = S
  BY DEF Flat, Figure

LEMMA SourceTypes == SourceInv => SourceTypeOK
<1> SUFFICES ASSUME SourceInv PROVE SourceTypeOK
  OBVIOUS
<1>1. /\ RealChart.of \subseteq SourceAgents /\ LiveTable.of \subseteq SourceAgents
      /\ StoredTable.of \subseteq SourceAgents /\ Series \subseteq SourceAgents
      /\ AgentTrends.of \subseteq SourceAgents /\ LiveRows \subseteq SourceAgents
  BY SourcesCover
<1>2. /\ kept.rows \subseteq SourceAgents /\ kept.checks \subseteq SourceAgents
      /\ kept.trends \subseteq SourceAgents /\ kept.totals \subseteq SourceAgents
  BY DEF SourceInv, KeptRows
<1>3. OverallFigure.of \subseteq SourceAgents
  <2> DEFINE F == <<RealChart, Totals>>
  <2>1. \A i \in DOMAIN F : F[i].of \subseteq SourceAgents
    BY <1>1, <1>2 DEF Totals, Figure
  <2>2. DOMAIN F \subseteq Nat /\ OverallFigure = FirstFigure(F)
    BY DEF OverallFigure
  <2> HIDE DEF F
  <2> QED
    BY <2>1, <2>2, FirstCovers
<1>4. Table.of \subseteq SourceAgents
  <2> DEFINE F == <<When(RunEnded, StoredTable), When(IsMixed, MixedTable), LiveTable, StoredTable,
                    When(IsGrpc \/ ~RunEnded, Figure("prometheus", Series)), ArchivedTable, OverallFigure>>
  <2>1. \A i \in DOMAIN F : F[i].of \subseteq SourceAgents
    BY <1>1, <1>3 DEF When, MixedTable, ArchivedTable, Figure, Nothing
  <2>2. DOMAIN F \subseteq Nat /\ Table = Align(FirstFigure(F))
    BY DEF Table
  <2> HIDE DEF F
  <2>3. FirstFigure(F).of \subseteq SourceAgents
    BY <2>1, <2>2, FirstCovers
  <2> QED
    BY <1>1, <2>2, <2>3 DEF Align, Contract, Figure
<1>5. Chart.of \subseteq SourceAgents
  BY <1>1 DEF Chart, Figure
<1>6. TotalTrends.of \subseteq SourceAgents
  BY <1>3 DEF TotalTrends, OverallFigure, When, Nothing, Figure
<1>7. SeriesTrends.of \subseteq SourceAgents
  <2> DEFINE F == <<HttpTrends, GrpcTrends>>
  <2>1. \A i \in DOMAIN F : F[i].of \subseteq SourceAgents
    BY <1>1 DEF HttpTrends, GrpcTrends, When, Nothing, Figure
  <2>2. DOMAIN F \subseteq Nat /\ SeriesTrends = FirstFigure(F)
    BY DEF SeriesTrends
  <2> HIDE DEF F
  <2> QED
    BY <2>1, <2>2, FirstCovers
<1>8. Trends.of \subseteq SourceAgents
  <2> DEFINE F == <<SeriesTrends, DurableTrends, AgentTrends, Flat(LiveRows), ArchivedTrends,
                    Flat(kept.rows), StoredTrends, TotalTrends>>
  <2>1. \A i \in DOMAIN F : F[i].of \subseteq SourceAgents
    <3>1. DurableTrends.of \subseteq SourceAgents /\ StoredTrends.of \subseteq SourceAgents
          /\ ArchivedTrends.of \subseteq SourceAgents
      BY <1>2 DEF DurableTrends, StoredTrends, ArchivedTrends, When, Nothing, Figure
    <3> QED
      BY <1>1, <1>2, <1>6, <1>7, <3>1, FlatCovers
  <2>2. DOMAIN F \subseteq Nat /\ Trends = FirstFigure(F)
    BY DEF Trends
  <2> HIDE DEF F
  <2> QED
    BY <2>1, <2>2, FirstCovers
<1>9. Checks.of \subseteq SourceAgents
  <2> DEFINE F == <<Figure("stored", kept.checks),
                    When(IsMixed, Figure("agents", StatusChecks.of \cup AgentChecks.of \cup Series)),
                    StatusChecks, AgentChecks, SeriesChecks, ArchivedChecks, TotalChecks>>
  <2>0. StatusChecks.of \subseteq SourceAgents /\ AgentChecks.of \subseteq SourceAgents
    BY DEF StatusChecks, AgentChecks, Figure, Telling, Started, Heard
  <2>1. \A i \in DOMAIN F : F[i].of \subseteq SourceAgents
    BY <1>1, <1>2, <2>0 DEF SeriesChecks, ArchivedChecks, TotalChecks, Totals, When, Nothing, Figure
  <2>2. DOMAIN F \subseteq Nat /\ Checks = FirstFigure(F)
    BY DEF Checks
  <2> HIDE DEF F
  <2> QED
    BY <2>1, <2>2, FirstCovers
<1> QED
  BY <1>4, <1>5, <1>8, <1>9 DEF SourceTypeOK, SourceInv, DriverStates, KeptRows

LEMMA NoneIsPoorer == SourceInv => NonePoorer
<1> SUFFICES ASSUME SourceInv PROVE NonePoorer
  OBVIOUS
<1>0. \A f : f.of # {} => Align(f).of # {}
  BY DEF Align, Figure
<1> DEFINE T == <<When(RunEnded, StoredTable), When(IsMixed, MixedTable), LiveTable, StoredTable,
                  When(IsGrpc \/ ~RunEnded, Figure("prometheus", Series)), ArchivedTable, OverallFigure>>
<1>1. /\ Table = Align(FirstFigure(T)) /\ DOMAIN T \subseteq Nat /\ 1 \in DOMAIN T /\ 7 \in DOMAIN T
      /\ T[1] = When(RunEnded, StoredTable) /\ T[7] = OverallFigure
  BY DEF Table
<1>2. ASSUME RealChart.of # {} PROVE OverallFigure.of # {}
  <2> DEFINE F == <<RealChart, Totals>>
  <2>1. DOMAIN F \subseteq Nat /\ 1 \in DOMAIN F /\ F[1] = RealChart /\ OverallFigure = FirstFigure(F)
    BY DEF OverallFigure
  <2> HIDE DEF F
  <2> QED
    BY <1>2, <2>1, FirstIsSome
<1> HIDE DEF T
<1>3. ASSUME Chart.from # "made up" PROVE Table.of # {}
  <2>1. RealChart.of # {}
    BY <1>3 DEF Chart, Figure
  <2> QED
    BY <1>0, <1>1, <1>2, <2>1, FirstIsSome
<1>4. ASSUME kept.status = "succeeded" PROVE Trends.of # {} /\ Checks.of # {} /\ Table.of # {}
  <2>1. /\ kept.rows = SourceAgents /\ kept.checks = SourceAgents /\ kept.totals = SourceAgents
        /\ SourceAgents # {} /\ RunEnded
    BY <1>4, SourcesAssumption DEF SourceInv, RunEnded
  <2>2. Table.of # {}
    <3>1. T[1].of # {}
      BY <1>1, <2>1 DEF When, StoredTable, Figure
    <3> QED
      BY <1>0, <1>1, <3>1, FirstIsSome
  <2>3. Trends.of # {}
    <3> DEFINE F == <<SeriesTrends, DurableTrends, AgentTrends, Flat(LiveRows), ArchivedTrends,
                      Flat(kept.rows), StoredTrends, TotalTrends>>
    <3>1. DOMAIN F \subseteq Nat /\ 6 \in DOMAIN F /\ F[6] = Flat(kept.rows) /\ Trends = FirstFigure(F)
      BY DEF Trends
    <3> HIDE DEF F
    <3>2. F[6].of # {}
      BY <2>1, <3>1, FlatCovers
    <3> QED
      BY <3>1, <3>2, FirstIsSome
  <2>4. Checks.of # {}
    <3> DEFINE F == <<Figure("stored", kept.checks),
                      When(IsMixed, Figure("agents", StatusChecks.of \cup AgentChecks.of \cup Series)),
                      StatusChecks, AgentChecks, SeriesChecks, ArchivedChecks, TotalChecks>>
    <3>1. DOMAIN F \subseteq Nat /\ 1 \in DOMAIN F /\ F[1].of = kept.checks /\ Checks = FirstFigure(F)
      BY DEF Checks, Figure
    <3> HIDE DEF F
    <3> QED
      BY <2>1, <3>1, FirstIsSome
  <2> QED
    BY <2>2, <2>3, <2>4
<1> QED
  BY <1>3, <1>4 DEF NonePoorer

LEMMA PartsExplained == SourceInv => PartsAreExplained
<1> SUFFICES ASSUME SourceInv, kept.status = "succeeded" PROVE PartsAreExplained
  BY DEF PartsAreExplained
<1>1. /\ kept.rows = SourceAgents /\ kept.checks = SourceAgents /\ kept.totals = SourceAgents
      /\ \A a \in SourceAgents : driver[a].at = "ended" /\ "rows" \in driver[a].tells
      /\ RunEnded /\ SourceAgents # {}
  BY SourcesAssumption DEF SourceInv, RunEnded
<1>2. Started(SourceAgents) = SourceAgents /\ Telling(SourceAgents, "rows") = SourceAgents
  BY <1>1 DEF Started, Telling
<1>3. ASSUME K6 => Series \in {{}, SourceAgents}, ~K6 => Heard = SourceAgents
      PROVE  Table.of = SourceAgents
  <2> DEFINE T == <<When(RunEnded, StoredTable), When(IsMixed, MixedTable), LiveTable, StoredTable,
                    When(IsGrpc \/ ~RunEnded, Figure("prometheus", Series)), ArchivedTable, OverallFigure>>
  <2>1. /\ Table = Align(FirstFigure(T)) /\ DOMAIN T \subseteq Nat \ {0} /\ 1 \in DOMAIN T
        /\ T[1] = When(RunEnded, StoredTable)
    BY DEF Table
  <2>2. StoredTable.of = SourceAgents
    BY <1>1, <1>2, <1>3 DEF StoredTable, LiveRows, Figure
  <2>3. Series \in {{}, SourceAgents}
    BY <1>3 DEF Series
  <2> HIDE DEF T
  <2>4. FirstFigure(T).of = SourceAgents
    BY <1>1, <2>1, <2>2, FirstOfAll DEF When
  <2> QED
    BY <1>1, <2>1, <2>3, <2>4 DEF Align, Contract, Figure
<1>4. ASSUME Heard = SourceAgents PROVE Chart.of = SourceAgents
  <2> DEFINE F == <<When(Cardinality(SourceAgents) > 1, AllAgentsChart),
                    PromChart, GatewayChart, AgentChart, ArchiveChart>>
  <2>1. /\ RealChart = FirstFigure(F) /\ DOMAIN F \subseteq Nat \ {0} /\ 1 \in DOMAIN F /\ 4 \in DOMAIN F
        /\ F[1] = When(Cardinality(SourceAgents) > 1, AllAgentsChart) /\ F[4] = AgentChart
    BY DEF RealChart
  <2> HIDE DEF F
  <2>2. RealChart.of = SourceAgents
    <3>1. CASE Cardinality(SourceAgents) > 1
      <4>1. F[1].of = SourceAgents
        BY <1>2, <1>4, <2>1, <3>1 DEF When, AllAgentsChart, Figure
      <4> QED
        BY <1>1, <2>1, <4>1, FirstOfAll
    <3>2. CASE ~(Cardinality(SourceAgents) > 1)
      <4>1. SourceAgents = {1}
        <5>1. /\ IsFiniteSet(SourceAgents) /\ 1 \in SourceAgents
          BY SourcesAssumption
        <5>2. /\ Cardinality(SourceAgents) \in Nat /\ IsFiniteSet(SourceAgents \ {1})
              /\ Cardinality(SourceAgents \ {1}) = Cardinality(SourceAgents) - 1
          BY <5>1, FS_CardinalityType, FS_RemoveElement
        <5>3. Cardinality(SourceAgents \ {1}) \in Nat
          BY <5>2, FS_CardinalityType
        <5>4. Cardinality(SourceAgents \ {1}) = 0
          BY <3>2, <5>2, <5>3
        <5>5. SourceAgents \ {1} = {}
          BY <5>2, <5>4, FS_EmptySet
        <5> QED
          BY <5>1, <5>5
      <4>2. F[4].of = {1}
        BY <1>1, <1>4, <2>1, <4>1 DEF AgentChart, When, Figure, Started
      <4>3. RealChart.of # {}
        BY <2>1, <4>2, FirstIsSome
      <4> QED
        BY <4>1, <4>3, SourcesCover
    <3> QED
      BY <3>1, <3>2
  <2> QED
    BY <1>1, <2>2 DEF Chart
<1>5. Checks.of = SourceAgents
  <2> DEFINE F == <<Figure("stored", kept.checks),
                    When(IsMixed, Figure("agents", StatusChecks.of \cup AgentChecks.of \cup Series)),
                    StatusChecks, AgentChecks, SeriesChecks, ArchivedChecks, TotalChecks>>
  <2>1. /\ DOMAIN F \subseteq Nat \ {0} /\ 1 \in DOMAIN F /\ F[1].of = kept.checks
        /\ Checks = FirstFigure(F)
    BY DEF Checks, Figure
  <2> HIDE DEF F
  <2> QED
    BY <1>1, <2>1, FirstOfAll
<1>6. ASSUME K6, Series = SourceAgents \/ (Series = {} /\ Heard = SourceAgents)
      PROVE  Trends.of = SourceAgents
  <2> DEFINE F == <<SeriesTrends, DurableTrends, AgentTrends, Flat(LiveRows), ArchivedTrends,
                    Flat(kept.rows), StoredTrends, TotalTrends>>
             G == <<HttpTrends, GrpcTrends>>
  <2>1. /\ DOMAIN F \subseteq Nat \ {0} /\ {1, 2, 3} \subseteq DOMAIN F /\ F[1] = SeriesTrends
        /\ F[2] = DurableTrends /\ F[3] = AgentTrends /\ Trends = FirstFigure(F)
    BY DEF Trends
  <2>2. /\ DOMAIN G = {1, 2} /\ G[1] = HttpTrends /\ G[2] = GrpcTrends
        /\ SeriesTrends = FirstFigure(G)
    BY DEF SeriesTrends
  <2> HIDE DEF F, G
  <2>3. CASE Series = {}
    <3>1. G[1].of = {} /\ G[2].of = {}
      BY <2>2, <2>3 DEF HttpTrends, GrpcTrends, When, Figure, Nothing
    <3>2. SeriesTrends.of = {}
      BY <2>2, <3>1, FirstIs DEF Nothing, Figure
    <3>3. F[2].of = {} /\ F[3].of = SourceAgents
      BY <1>1, <1>2, <1>6, <2>3, <2>1 DEF DurableTrends, AgentTrends, Telling, When, Figure, Nothing
    <3>4. PICK j \in DOMAIN F : j <= 3 /\ FirstFigure(F) = F[j] /\ F[j].of # {}
      BY <1>1, <2>1, <3>3, FirstIs
    <3>5. j = 3
      BY <2>1, <3>2, <3>3, <3>4
    <3> QED
      BY <2>1, <3>3, <3>4, <3>5
  <2>4. CASE Series = SourceAgents
    <3>1. /\ G[1].of \in {{}, SourceAgents} /\ G[2].of \in {{}, SourceAgents}
          /\ G[1].of # {} \/ G[2].of # {}
      BY <1>1, <2>2, <2>4 DEF HttpTrends, GrpcTrends, When, Figure, Nothing
    <3>2. SeriesTrends.of = SourceAgents
      <4>1. PICK i \in {1, 2} : G[i].of # {}
        BY <3>1
      <4>2. PICK j \in {1, 2} : FirstFigure(G) = G[j] /\ G[j].of # {}
        BY <2>2, <4>1, FirstIs
      <4> QED
        BY <2>2, <3>1, <4>2
    <3> QED
      BY <1>1, <2>1, <3>2, FirstOfAll
  <2> QED
    BY <1>6, <2>3, <2>4
<1>7. ASSUME ~K6, Heard = SourceAgents
      PROVE  Trends.of = SourceAgents \/ Trends.from = "stored"
  <2> DEFINE F == <<SeriesTrends, DurableTrends, AgentTrends, Flat(LiveRows), ArchivedTrends,
                    Flat(kept.rows), StoredTrends, TotalTrends>>
             G == <<HttpTrends, GrpcTrends>>
  <2>1. /\ DOMAIN F \subseteq Nat \ {0} /\ {1, 2, 3} \subseteq DOMAIN F /\ F[1] = SeriesTrends
        /\ F[2] = DurableTrends /\ F[3] = AgentTrends /\ Trends = FirstFigure(F)
    BY DEF Trends
  <2>2. /\ DOMAIN G = {1, 2} /\ G[1] = HttpTrends /\ G[2] = GrpcTrends
        /\ SeriesTrends = FirstFigure(G)
    BY DEF SeriesTrends
  <2> HIDE DEF F, G
  <2>3. G[1].of = {} /\ G[2].of = {}
    BY <1>7, <2>2 DEF HttpTrends, GrpcTrends, Series, When, Figure, Nothing
  <2>4. SeriesTrends.of = {}
    BY <2>2, <2>3, FirstIs DEF Nothing, Figure
  <2>5. F[3].of = SourceAgents
    BY <1>2, <1>7, <2>1 DEF AgentTrends, Figure
  <2>6. F[2].of = {} \/ F[2].from = "stored"
    BY <2>1 DEF DurableTrends, StoredTrends, When, Figure, Nothing
  <2>7. PICK j \in DOMAIN F : j <= 3 /\ FirstFigure(F) = F[j] /\ F[j].of # {}
    BY <1>1, <2>1, <2>5, FirstIs
  <2>8. j = 2 \/ j = 3
    BY <2>1, <2>4, <2>7
  <2> QED
    BY <2>1, <2>5, <2>6, <2>7, <2>8
<1>8. ASSUME Series \in {{}, SourceAgents} PROVE Headline.of = SourceAgents
  BY <1>1, <1>8 DEF Headline, Totals, Figure, Contract
<1> QED
  BY <1>3, <1>4, <1>5, <1>6, <1>7, <1>8 DEF PartsAreExplained

-----------------------------------------------------------------------------
(* The figures of a run *)

LEMMA LoadsTyped ==
    /\ Drivers = 1..Len(Loads) /\ IsFiniteSet(Drivers) /\ Drivers \subseteq Nat \ {0} /\ 1 \in Drivers
    /\ Len(Loads) \in Nat
    /\ \A a \in Drivers, e \in Endpoints : Loads[a][e].rate \in Nat /\ Loads[a][e].rt \in Nat
<1>1. Loads \in Seq([Endpoints -> [rate : Nat, rt : Nat]]) /\ Len(Loads) > 1
  BY FiguresAssumption
<1>2. Drivers = 1..Len(Loads) /\ Len(Loads) \in Nat
  BY <1>1 DEF Drivers
<1>3. IsFiniteSet(1..Len(Loads))
  BY <1>2, FS_Interval
<1>4. ASSUME NEW a \in Drivers, NEW e \in Endpoints
      PROVE  Loads[a][e].rate \in Nat /\ Loads[a][e].rt \in Nat
  <2>1. Loads[a] \in [Endpoints -> [rate : Nat, rt : Nat]]
    BY <1>1, <1>2
  <2>2. Loads[a][e] \in [rate : Nat, rt : Nat]
    BY <2>1
  <2> QED
    BY <2>2
<1> QED
  BY <1>1, <1>2, <1>3, <1>4

LEMMA ProductGrows == ASSUME NEW x \in Nat, NEW y \in Nat, NEW z \in Nat, y <= z PROVE x * y <= x * z
  OBVIOUS
LEMMA NoFactorIsZero == ASSUME NEW x \in Nat, NEW y \in Nat PROVE x * y = 0 <=> x = 0 \/ y = 0
  OBVIOUS

\* What the agents of A have done of an endpoint when they have driven for t[a] ticks each.
Performed(A, t, e) == [a \in A |-> Loads[a][e].rate * t[a]]
Took(A, t, e) == [a \in A |-> Loads[a][e].rt * (Loads[a][e].rate * t[a])]
Did(A, t, e) == SumFunctionOnSet(Performed(A, t, e), A)
Lasted(A, t, e) == SumFunctionOnSet(Took(A, t, e), A)
RowFor(A, t, e) == [endpoint |-> e, n |-> Did(A, t, e), rt |-> [num |-> Lasted(A, t, e), den |-> Did(A, t, e)]]
TableOf(A, t) == Merge(A, [a \in A |-> RowsOf(a, t[a])])

LEMMA DoneTyped ==
    ASSUME NEW A \in SUBSET Drivers, NEW t \in [A -> Nat], NEW e \in Endpoints
    PROVE  /\ IsFiniteSet(A) /\ Natural(Performed(A, t, e), A) /\ Natural(Took(A, t, e), A)
           /\ Did(A, t, e) \in Nat /\ Lasted(A, t, e) \in Nat
           /\ Did(A, t, e) = 0 <=> \A a \in A : Loads[a][e].rate * t[a] = 0
<1>1. IsFiniteSet(A)
  BY LoadsTyped, FS_Subset
<1>2. \A a \in A : /\ Loads[a][e].rate * t[a] \in Nat
                   /\ Loads[a][e].rt * (Loads[a][e].rate * t[a]) \in Nat
  <2> SUFFICES ASSUME NEW a \in A
               PROVE  /\ Loads[a][e].rate * t[a] \in Nat
                      /\ Loads[a][e].rt * (Loads[a][e].rate * t[a]) \in Nat
    OBVIOUS
  <2>1. Loads[a][e].rate \in Nat /\ Loads[a][e].rt \in Nat /\ t[a] \in Nat
    BY LoadsTyped
  <2> QED
    BY <2>1, Product
<1>3. Natural(Performed(A, t, e), A) /\ Natural(Took(A, t, e), A)
  BY <1>2 DEF Natural, Performed, Took
<1>4. \A a \in A : Performed(A, t, e)[a] = Loads[a][e].rate * t[a]
  BY DEF Performed
<1>5. /\ SumFunctionOnSet(Performed(A, t, e), A) \in Nat /\ SumFunctionOnSet(Took(A, t, e), A) \in Nat
      /\ SumFunctionOnSet(Performed(A, t, e), A) = 0 <=> \A a \in A : Performed(A, t, e)[a] = 0
  BY <1>1, <1>3, SumNat
<1> QED
  BY <1>1, <1>3, <1>4, <1>5 DEF Did, Lasted

\* Merging the rows of agents gives a row for every endpoint that has been requested, with the
\* requests of all and the response time as if they had been one list.
LEMMA MergeIs ==
    ASSUME NEW A \in SUBSET Drivers, NEW t \in [A -> Nat]
    PROVE  TableOf(A, t) = {RowFor(A, t, e) : e \in {e \in Endpoints : Did(A, t, e) > 0}}
<1> DEFINE rowsOf == [a \in A |-> RowsOf(a, t[a])]
           pairs == UNION {{<<a, r>> : r \in rowsOf[a]} : a \in A}
           Own(a, e) == [endpoint |-> e, n |-> Loads[a][e].rate * t[a], rt |-> [num |-> Loads[a][e].rt, den |-> 1]]
<1>1. TableOf(A, t) = {MergeRow(pairs, e) : e \in {r[2].endpoint : r \in pairs}}
  BY DEF TableOf, Merge
<1>3. \A a \in A, e \in Endpoints : Loads[a][e].rate * t[a] > 0 => <<a, Own(a, e)>> \in pairs
  <2> SUFFICES ASSUME NEW a \in A, NEW e \in Endpoints, Loads[a][e].rate * t[a] > 0
               PROVE  <<a, Own(a, e)>> \in pairs
    OBVIOUS
  <2>1. Own(a, e) \in RowsOf(a, t[a])
    BY DEF RowsOf
  <2>2. Own(a, e) \in rowsOf[a]
    BY <2>1
  <2> HIDE DEF Own, rowsOf
  <2> QED
    BY <2>2
<1>4. \A r \in pairs : \E a \in A, e \in Endpoints : Loads[a][e].rate * t[a] > 0 /\ r = <<a, Own(a, e)>>
  BY DEF RowsOf
<1>5. \A a \in A, e \in Endpoints : Own(a, e).endpoint = e /\ Own(a, e).n = Loads[a][e].rate * t[a]
                                     /\ Own(a, e).rt.num = Loads[a][e].rt
  OBVIOUS
<1> HIDE DEF pairs, rowsOf, Own
<1>6. \A a \in A, e \in Endpoints : Loads[a][e].rate * t[a] \in Nat
  BY LoadsTyped, Product
<1>7. ASSUME NEW e \in Endpoints PROVE (\E r \in pairs : r[2].endpoint = e) <=> Did(A, t, e) > 0
  <2>1. Did(A, t, e) \in Nat /\ (Did(A, t, e) = 0 <=> \A a \in A : Loads[a][e].rate * t[a] = 0)
    BY DoneTyped
  <2>2. Did(A, t, e) > 0 <=> \E a \in A : Loads[a][e].rate * t[a] > 0
    BY <1>6, <2>1
  <2>3. ASSUME NEW a \in A, Loads[a][e].rate * t[a] > 0 PROVE \E r \in pairs : r[2].endpoint = e
    <3>1. <<a, Own(a, e)>> \in pairs /\ <<a, Own(a, e)>>[2].endpoint = e
      BY <1>3, <1>5, <2>3
    <3> QED
      BY <3>1
  <2>4. ASSUME NEW r \in pairs, r[2].endpoint = e PROVE \E a \in A : Loads[a][e].rate * t[a] > 0
    <3>1. PICK a \in A, d \in Endpoints : Loads[a][d].rate * t[a] > 0 /\ r = <<a, Own(a, d)>>
      BY <1>4
    <3>2. d = e
      BY <1>5, <2>4, <3>1
    <3> QED
      BY <3>1, <3>2
  <2> QED
    BY <2>2, <2>3, <2>4
<1>8. {r[2].endpoint : r \in pairs} = {e \in Endpoints : Did(A, t, e) > 0}
  <2>1. \A r \in pairs : r[2].endpoint \in Endpoints
    BY <1>4, <1>5
  <2> QED
    BY <1>7, <2>1
<1>9. ASSUME NEW e \in Endpoints PROVE MergeRow(pairs, e) = RowFor(A, t, e)
  <2> DEFINE busy == {a \in A : Loads[a][e].rate * t[a] > 0}
             g == [a \in busy |-> <<a, Own(a, e)>>]
             own == {r \in pairs : r[2].endpoint = e}
             counts == [r \in own |-> r[2].n]
             times == [r \in own |-> r[2].rt.num * r[2].n]
  <2>1. own = Image(g, busy)
    <3>1. ASSUME NEW r \in own PROVE r \in Image(g, busy)
      <4>1. PICK a \in A, d \in Endpoints : Loads[a][d].rate * t[a] > 0 /\ r = <<a, Own(a, d)>>
        BY <1>4
      <4>2. d = e
        BY <1>5, <4>1
      <4>3. a \in busy /\ r = g[a]
        BY <4>1, <4>2
      <4> QED
        BY <4>3 DEF Image
    <3>2. ASSUME NEW a \in busy PROVE g[a] \in own
      <4>1. <<a, Own(a, e)>> \in pairs /\ <<a, Own(a, e)>>[2].endpoint = e
        BY <1>3, <1>5
      <4> QED
        BY <4>1
    <3> QED
      BY <3>1, <3>2 DEF Image
  <2>2. \A a, b \in busy : g[a] = g[b] => a = b
    OBVIOUS
  <2>3. IsFiniteSet(A) /\ Natural(Performed(A, t, e), A) /\ Natural(Took(A, t, e), A) /\ busy \in SUBSET A
    BY DoneTyped
  <2>4. IsFiniteSet(busy)
    BY <2>3, FS_Subset
  <2>5. \A a \in busy : /\ g[a] \in own /\ counts[g[a]] = Performed(A, t, e)[a] /\ times[g[a]] = Took(A, t, e)[a]
    <3> SUFFICES ASSUME NEW a \in busy
                 PROVE  /\ g[a] \in own /\ counts[g[a]] = Performed(A, t, e)[a]
                        /\ times[g[a]] = Took(A, t, e)[a]
      OBVIOUS
    <3>1. g[a] \in own
      BY <2>1 DEF Image
    <3>2. counts[g[a]] = Own(a, e).n /\ times[g[a]] = Own(a, e).rt.num * Own(a, e).n
      BY <3>1
    <3> QED
      BY <1>5, <3>1, <3>2 DEF Performed, Took
  <2>6. Counts(counts, own) /\ Counts(times, own)
    <3>1. \A a \in busy : Performed(A, t, e)[a] \in Int /\ Took(A, t, e)[a] \in Int
      BY <2>3 DEF Natural
    <3>2. \A r \in own : \E a \in busy : r = g[a]
      BY <2>1 DEF Image
    <3> HIDE DEF own, g, busy, counts, times
    <3> QED
      BY <2>5, <3>1, <3>2 DEF Counts
  <2>7. /\ \A a \in A \ busy : Performed(A, t, e)[a] = 0 /\ Took(A, t, e)[a] = 0
        /\ Counts(Performed(A, t, e), A) /\ Counts(Took(A, t, e), A)
    <3>1. Counts(Performed(A, t, e), A) /\ Counts(Took(A, t, e), A)
      BY <2>3 DEF Natural, Counts
    <3>2. ASSUME NEW a \in A \ busy PROVE Performed(A, t, e)[a] = 0 /\ Took(A, t, e)[a] = 0
      <4>1. Loads[a][e].rate * t[a] = 0 /\ Loads[a][e].rt \in Nat
        BY <1>6, LoadsTyped
      <4>2. Loads[a][e].rt * 0 = 0
        BY <4>1
      <4> QED
        BY <4>1, <4>2 DEF Performed, Took
    <3> QED
      BY <3>1, <3>2
  <2>8. /\ SumFunctionOnSet(Performed(A, t, e), A) = SumFunctionOnSet(Performed(A, t, e), busy)
        /\ SumFunctionOnSet(Took(A, t, e), A) = SumFunctionOnSet(Took(A, t, e), busy)
    <3> HIDE DEF busy
    <3> QED
      BY <2>3, <2>7, SumSupport
  <2>9. /\ MergeRow(pairs, e).endpoint = e
        /\ MergeRow(pairs, e) = [endpoint |-> e, n |-> SumFunctionOnSet(counts, own),
              rt |-> [num |-> SumFunctionOnSet(times, own), den |-> SumFunctionOnSet(counts, own)]]
    BY DEF MergeRow, Plus
  <2> HIDE DEF own, g, busy, counts, times
  <2>10. /\ SumFunctionOnSet(counts, own) = SumFunctionOnSet(Performed(A, t, e), busy)
         /\ SumFunctionOnSet(times, own) = SumFunctionOnSet(Took(A, t, e), busy)
    <3>1. \A a \in busy : Performed(A, t, e)[a] = counts[g[a]] /\ Took(A, t, e)[a] = times[g[a]]
      BY <2>5
    <3>2. SumFunctionOnSet(counts, own) = SumFunctionOnSet(Performed(A, t, e), busy)
      BY <2>1, <2>2, <2>4, <2>6, <3>1, SumRenamed
    <3>3. SumFunctionOnSet(times, own) = SumFunctionOnSet(Took(A, t, e), busy)
      BY <2>1, <2>2, <2>4, <2>6, <3>1, SumRenamed
    <3> QED
      BY <3>2, <3>3
  <2> QED
    BY <2>8, <2>9, <2>10 DEF RowFor, Did, Lasted
<1> QED
  BY <1>1, <1>8, <1>9

AgentFigures ==
    [ticks : 0..MaxTicks, seen : SUBSET (0..MaxTicks - 1), state : {"running", "succeeded", "failed"},
     read : 0..MaxTicks, error : BOOLEAN, up : BOOLEAN]
AgentsTyped == agent \in [Drivers -> AgentFigures]
TicksOf(A) == [a \in A |-> agent[a].ticks]

LEMMA AllIs ==
    ASSUME AgentsTyped, NEW A \in SUBSET Drivers, NEW e \in Endpoints
    PROVE  /\ TicksOf(A) \in [A -> Nat]
           /\ AllRequests(A, e) = Did(A, TicksOf(A), e) /\ AllRequests(A, e) \in Nat
           /\ AllTime(A, e) = Lasted(A, TicksOf(A), e) /\ AllTime(A, e) \in Nat
<1> DEFINE t == TicksOf(A)
<1>1. t \in [A -> Nat] /\ \A a \in A : t[a] = agent[a].ticks
  BY FiguresAssumption DEF AgentsTyped, AgentFigures, TicksOf
<1>2. /\ IsFiniteSet(A) /\ Natural(Performed(A, t, e), A) /\ Natural(Took(A, t, e), A)
      /\ Did(A, t, e) \in Nat /\ Lasted(A, t, e) \in Nat
  <2> HIDE DEF t
  <2> QED
    BY <1>1, DoneTyped
<1>3. AllRequests(A, e) = Did(A, t, e)
  <2>1. [a \in A |-> Requests(a, e)] = Performed(A, t, e)
    BY <1>1 DEF Requests, Performed
  <2> QED
    BY <2>1 DEF AllRequests, Plus, Did
<1>4. AllTime(A, e) = Lasted(A, t, e)
  <2> DEFINE f == [a \in A |-> Requests(a, e) * Loads[a][e].rt]
  <2>1. \A a \in A : Took(A, t, e)[a] = f[a]
    <3> SUFFICES ASSUME NEW a \in A PROVE Took(A, t, e)[a] = f[a]
      OBVIOUS
    <3>1. /\ Loads[a][e].rate \in Nat /\ Loads[a][e].rt \in Nat /\ agent[a].ticks \in Nat
          /\ t[a] = agent[a].ticks
      BY <1>1, LoadsTyped
    <3>2. Loads[a][e].rate * agent[a].ticks \in Nat
      BY <3>1, Product
    <3>3. (Loads[a][e].rate * agent[a].ticks) * Loads[a][e].rt = Loads[a][e].rt * (Loads[a][e].rate * agent[a].ticks)
      BY <3>1, <3>2
    <3> QED
      BY <3>1, <3>3 DEF Took, Requests
  <2>2. AllTime(A, e) = SumFunctionOnSet(f, A)
    BY DEF AllTime, Plus
  <2>3. Counts(Took(A, t, e), A)
    BY <1>2, SumNat
  <2> HIDE DEF f, t
  <2> QED
    BY <1>2, <2>1, <2>2, <2>3, SumSame DEF Lasted
<1> QED
  BY <1>1, <1>2, <1>3, <1>4

\* What has been done for as long as an agent has, at most, is at most what all agents have done.
LEMMA DidIsLess ==
    ASSUME AgentsTyped, NEW A \in SUBSET Drivers, NEW t \in [A -> Nat],
           \A a \in A : t[a] <= agent[a].ticks, NEW e \in Endpoints
    PROVE  Did(A, t, e) <= AllRequests(Drivers, e)
<1> DEFINE all == TicksOf(Drivers)
<1>1. all \in [Drivers -> Nat] /\ AllRequests(Drivers, e) = Did(Drivers, all, e)
      /\ \A a \in Drivers : all[a] = agent[a].ticks
  BY AllIs DEF TicksOf
<1> HIDE DEF all
<1>2. /\ IsFiniteSet(Drivers) /\ IsFiniteSet(A) /\ Natural(Performed(Drivers, all, e), Drivers)
      /\ Natural(Performed(A, t, e), A)
  BY <1>1, DoneTyped
<1>3. Counts(Performed(A, t, e), A) /\ Counts(Performed(Drivers, all, e), A)
  BY <1>2 DEF Natural, Counts
<1>4. \A a \in A : Performed(A, t, e)[a] <= Performed(Drivers, all, e)[a]
  <2> SUFFICES ASSUME NEW a \in A PROVE Performed(A, t, e)[a] <= Performed(Drivers, all, e)[a]
    OBVIOUS
  <2>1. Loads[a][e].rate \in Nat /\ t[a] \in Nat /\ all[a] \in Nat /\ t[a] <= all[a]
    BY <1>1, LoadsTyped
  <2>2. Loads[a][e].rate * t[a] <= Loads[a][e].rate * all[a]
    BY <2>1, ProductGrows
  <2> QED
    BY <2>2 DEF Performed
<1>5. SumFunctionOnSet(Performed(A, t, e), A) <= SumFunctionOnSet(Performed(Drivers, all, e), A)
  BY <1>2, <1>3, <1>4, SumMonotone
<1>6. SumFunctionOnSet(Performed(Drivers, all, e), A) <= SumFunctionOnSet(Performed(Drivers, all, e), Drivers)
  BY <1>2, SumOfPart
<1>7. /\ SumFunctionOnSet(Performed(A, t, e), A) \in Int
      /\ SumFunctionOnSet(Performed(Drivers, all, e), A) \in Int
      /\ SumFunctionOnSet(Performed(Drivers, all, e), Drivers) \in Int
  BY <1>2, <1>3, SumType, SumNat
<1> QED
  BY <1>1, <1>5, <1>6, <1>7 DEF Did

\* Agents that have done nothing yet change nothing.
LEMMA IdleAgentsAddNothing ==
    ASSUME AgentsTyped, NEW A \in SUBSET Drivers, NEW e \in Endpoints
    PROVE  LET busy == {a \in A : agent[a].ticks > 0}
           IN AllRequests(A, e) = AllRequests(busy, e) /\ AllTime(A, e) = AllTime(busy, e)
<1> DEFINE busy == {a \in A : agent[a].ticks > 0}
           t == TicksOf(A)
           b == TicksOf(busy)
<1>1. busy \in SUBSET A /\ busy \in SUBSET Drivers
  OBVIOUS
<1>2. /\ t \in [A -> Nat] /\ b \in [busy -> Nat]
      /\ AllRequests(A, e) = Did(A, t, e) /\ AllRequests(busy, e) = Did(busy, b, e)
      /\ AllTime(A, e) = Lasted(A, t, e) /\ AllTime(busy, e) = Lasted(busy, b, e)
  <2> HIDE DEF busy
  <2> QED
    BY <1>1, AllIs
<1>3. /\ \A a \in A : t[a] = agent[a].ticks
      /\ \A a \in busy : b[a] = agent[a].ticks
      /\ \A a \in A \ busy : t[a] = 0
  BY <1>2 DEF TicksOf
<1> HIDE DEF t, b
<1>4. /\ IsFiniteSet(A) /\ Natural(Performed(A, t, e), A) /\ Natural(Took(A, t, e), A) /\ IsFiniteSet(busy)
  BY <1>1, <1>2, DoneTyped, FS_Subset
<1>5. \A a \in busy : Performed(A, t, e)[a] = Performed(busy, b, e)[a] /\ Took(A, t, e)[a] = Took(busy, b, e)[a]
  BY <1>3 DEF Performed, Took
<1>6. \A a \in A \ busy : Performed(A, t, e)[a] = 0 /\ Took(A, t, e)[a] = 0
  <2> SUFFICES ASSUME NEW a \in A \ busy PROVE Performed(A, t, e)[a] = 0 /\ Took(A, t, e)[a] = 0
    OBVIOUS
  <2>1. Loads[a][e].rate \in Nat /\ Loads[a][e].rt \in Nat /\ t[a] = 0
    BY <1>3, LoadsTyped
  <2>2. Loads[a][e].rate * 0 = 0 /\ Loads[a][e].rt * 0 = 0
    BY <2>1
  <2> QED
    BY <2>1, <2>2 DEF Performed, Took
<1>7. /\ Counts(Performed(A, t, e), A) /\ Counts(Took(A, t, e), A)
      /\ Counts(Performed(A, t, e), busy) /\ Counts(Took(A, t, e), busy)
  BY <1>4 DEF Natural, Counts
<1> HIDE DEF busy
<1>8. /\ SumFunctionOnSet(Performed(A, t, e), A) = SumFunctionOnSet(Performed(A, t, e), busy)
      /\ SumFunctionOnSet(Took(A, t, e), A) = SumFunctionOnSet(Took(A, t, e), busy)
  BY <1>1, <1>4, <1>6, <1>7, SumSupport
<1>9. /\ SumFunctionOnSet(Performed(A, t, e), busy) = SumFunctionOnSet(Performed(busy, b, e), busy)
      /\ SumFunctionOnSet(Took(A, t, e), busy) = SumFunctionOnSet(Took(busy, b, e), busy)
  BY <1>4, <1>5, <1>7, SumSame
<1> QED
  BY <1>2, <1>8, <1>9 DEF Did, Lasted, busy

\* A table is whole if its figures are.
LEMMA TableIsWhole ==
    ASSUME AgentsTyped, NEW A \in SUBSET Drivers, NEW t \in [A -> Nat], NEW B \in SUBSET Drivers,
           \A e \in Endpoints : Did(A, t, e) = AllRequests(B, e) /\ Lasted(A, t, e) = AllTime(B, e)
    PROVE  WholeOf(TableOf(A, t), B)
<1> SUFFICES ASSUME NEW e \in Endpoints, AllRequests(B, e) > 0
             PROVE  \E r \in TableOf(A, t) : /\ r.endpoint = e /\ r.n = AllRequests(B, e)
                                             /\ r.rt.num * r.n = AllTime(B, e) * r.rt.den
  BY DEF WholeOf
<1>1. Did(A, t, e) = AllRequests(B, e) /\ Lasted(A, t, e) = AllTime(B, e)
  OBVIOUS
<1>2. RowFor(A, t, e) \in TableOf(A, t)
  BY <1>1, MergeIs
<1>3. /\ RowFor(A, t, e).endpoint = e /\ RowFor(A, t, e).n = Did(A, t, e)
      /\ RowFor(A, t, e).rt.num = Lasted(A, t, e) /\ RowFor(A, t, e).rt.den = Did(A, t, e)
  BY DEF RowFor
<1> QED
  BY <1>1, <1>2, <1>3

\* The requests of a table.
LEMMA RequestsOfTable ==
    ASSUME NEW A \in SUBSET Drivers, NEW t \in [A -> Nat]
    PROVE  Plus(TableOf(A, t), LAMBDA r : r.n) = SumFunctionOnSet([e \in Endpoints |-> Did(A, t, e)], Endpoints)
<1> DEFINE some == {e \in Endpoints : Did(A, t, e) > 0}
           g == [e \in some |-> RowFor(A, t, e)]
           f == [r \in TableOf(A, t) |-> r.n]
           h == [e \in Endpoints |-> Did(A, t, e)]
<1>1. TableOf(A, t) = Image(g, some)
  <2>1. TableOf(A, t) = {RowFor(A, t, e) : e \in some}
    BY MergeIs
  <2> QED
    BY <2>1 DEF Image
<1>2. \A x, y \in some : g[x] = g[y] => x = y
  BY DEF RowFor
<1>3. \A e \in some : g[e] \in TableOf(A, t) /\ f[g[e]] = Did(A, t, e)
  <2> SUFFICES ASSUME NEW e \in some PROVE g[e] \in TableOf(A, t) /\ f[g[e]] = Did(A, t, e)
    OBVIOUS
  <2>1. g[e] \in TableOf(A, t)
    BY <1>1 DEF Image
  <2>2. g[e].n = Did(A, t, e)
    BY DEF RowFor
  <2> QED
    BY <2>1, <2>2
<1>4. \A e \in Endpoints : Did(A, t, e) \in Nat
  BY DoneTyped
<1>5. Counts(h, Endpoints) /\ (\A e \in some : h[e] = f[g[e]]) /\ (\A e \in Endpoints \ some : h[e] = 0)
  BY <1>3, <1>4 DEF Counts
<1>6. IsFiniteSet(Endpoints) /\ IsFiniteSet(some) /\ some \in SUBSET Endpoints
  BY FiguresAssumption, FS_Subset
<1>7. Counts(f, Image(g, some))
  <2>1. \A r \in Image(g, some) : \E e \in some : r = g[e]
    BY DEF Image
  <2> HIDE DEF f, g, some
  <2>2. \A r \in Image(g, some) : \E e \in some : f[r] = Did(A, t, e)
    BY <1>3, <2>1
  <2> QED
    BY <1>4, <1>6, <2>2 DEF Counts
<1>8. Plus(TableOf(A, t), LAMBDA r : r.n) = SumFunctionOnSet(f, TableOf(A, t))
  BY DEF Plus
<1> HIDE DEF f, g, h, some
<1>9. SumFunctionOnSet(f, Image(g, some)) = SumFunctionOnSet(h, some)
  BY <1>2, <1>5, <1>6, <1>7, SumRenamed
<1>10. SumFunctionOnSet(h, Endpoints) = SumFunctionOnSet(h, some)
  BY <1>5, <1>6, SumSupport
<1> QED
  BY <1>1, <1>8, <1>9, <1>10 DEF h
-----------------------------------------------------------------------------
\* What the run's row holds is the table of some agents at an earlier moment, at which each had
\* done no more than now; of a run that has succeeded, the table of agents at their end.
IsTable(ofRow, A, t) == t \in [A -> Nat] /\ (\A a \in A : t[a] <= agent[a].ticks) /\ ofRow = TableOf(A, t)
IsLastTable(ofRow, A) ==
    \E t \in [A -> Nat] : (\A a \in A : t[a] = agent[a].ticks) /\ ofRow = TableOf(A, t)
FigureInv ==
    /\ AgentsTyped
    /\ \A a \in Drivers : /\ agent[a].read <= agent[a].ticks
                          /\ agent[a].state = "succeeded" => agent[a].read = agent[a].ticks
    /\ row.status \in {"running", "succeeded", "failed"} /\ row.archive \in 0..Len(Loads)
    /\ "rows" \in DOMAIN row
    /\ \E A \in SUBSET Drivers : \E t : IsTable(row.rows, A, t)
    /\ row.status = "succeeded" =>
          /\ \A a \in Drivers : agent[a].state = "succeeded"
          /\ row.rows = {} => row.total = 0
          /\ \E A \in (SUBSET Drivers) \ {{}} : IsLastTable(row.rows, A)

LEMMA NoTable == \A t : TableOf({}, t) = {}
  BY DEF TableOf, Merge

LEMMA NoRows ==
    ASSUME NEW A \in SUBSET Drivers, NEW t \in [A -> Nat]
    PROVE  TableOf(A, t) = {} <=> \A e \in Endpoints : Did(A, t, e) = 0
<1>1. \A e \in Endpoints : Did(A, t, e) \in Nat
  BY DoneTyped
<1> QED
  BY <1>1, MergeIs

\* A table without rows: nobody in it has done anything.
LEMMA EmptyTable ==
    ASSUME NEW A \in SUBSET Drivers, NEW t \in [A -> Nat]
    PROVE  TableOf(A, t) = {} <=> \A a \in A : t[a] = 0
<1>1. TableOf(A, t) = {} <=> \A e \in Endpoints : Did(A, t, e) = 0
  BY NoRows
<1>2. \A e \in Endpoints : Did(A, t, e) = 0 <=> \A a \in A : Loads[a][e].rate * t[a] = 0
  BY DoneTyped
<1>3. ASSUME NEW a \in A, t[a] = 0, NEW e \in Endpoints PROVE Loads[a][e].rate * t[a] = 0
  BY <1>3, LoadsTyped, NoFactorIsZero
<1>4. ASSUME NEW a \in A, \A e \in Endpoints : Loads[a][e].rate * t[a] = 0 PROVE t[a] = 0
  <2>1. PICK e \in Endpoints : Loads[a][e].rate > 0
    BY FiguresAssumption DEF Drivers
  <2>2. Loads[a][e].rate \in Nat /\ t[a] \in Nat /\ Loads[a][e].rate * t[a] = 0
    BY <1>4, LoadsTyped
  <2> QED
    BY <2>1, <2>2, NoFactorIsZero
<1> QED
  BY <1>1, <1>2, <1>3, <1>4

LEMMA FiguresStart == FigureInit => FigureInv
<1> SUFFICES ASSUME FigureInit PROVE FigureInv
  OBVIOUS
<1>1. /\ agent = [a \in Drivers |-> [ticks |-> 0, seen |-> {}, state |-> "running", read |-> 0,
                                     error |-> FALSE, up |-> TRUE]]
      /\ row = [status |-> "running", reason |-> FALSE, entries |-> [a \in Drivers |-> "running"],
                rows |-> {}, total |-> 0, archive |-> 0]
  BY DEF FigureInit
<1>2. AgentsTyped /\ \A a \in Drivers : agent[a].read <= agent[a].ticks /\ agent[a].state # "succeeded"
  BY <1>1, FiguresAssumption DEF AgentsTyped, AgentFigures
<1>3. IsTable({}, {}, [a \in {} |-> 0])
  BY NoTable DEF IsTable
<1>4. row.status = "running" /\ row.archive \in 0..Len(Loads) /\ row.rows = {} /\ "rows" \in DOMAIN row
  BY <1>1, LoadsTyped
<1> QED
  BY <1>2, <1>3, <1>4 DEF FigureInv

\* Agents go on: the figures of the run's row stay what they are.
LEMMA AgentsGoOn ==
    ASSUME FigureInv, row' = row, AgentsTyped',
           \A a \in Drivers : /\ agent'[a].read <= agent'[a].ticks /\ agent[a].ticks <= agent'[a].ticks
                              /\ agent'[a].state = "succeeded" => agent'[a].read = agent'[a].ticks,
           row.status = "succeeded" =>
              \A a \in Drivers : agent'[a].ticks = agent[a].ticks /\ agent'[a].state = "succeeded"
    PROVE  FigureInv'
<1>1. \A a \in Drivers : agent[a].ticks \in Nat /\ agent'[a].ticks \in Nat
  BY FiguresAssumption DEF FigureInv, AgentsTyped, AgentFigures
<1>2. PICK A \in SUBSET Drivers : \E t : IsTable(row.rows, A, t)
  BY DEF FigureInv
<1>3. PICK t : IsTable(row.rows, A, t)
  BY <1>2
<1>4. IsTable(row.rows, A, t)'
  <2>1. \A a \in A : t[a] \in Nat /\ t[a] <= agent[a].ticks /\ agent[a].ticks <= agent'[a].ticks
    BY <1>3 DEF IsTable
  <2>2. \A a \in A : t[a] <= agent'[a].ticks
    BY <1>1, <2>1
  <2> QED
    BY <1>3, <2>2 DEF IsTable
<1>5. ASSUME row.status = "succeeded", NEW B \in (SUBSET Drivers) \ {{}}, IsLastTable(row.rows, B)
      PROVE  IsLastTable(row.rows, B)'
  BY <1>5 DEF IsLastTable
<1>6. row.status = "succeeded" => \E B \in (SUBSET Drivers) \ {{}} : IsLastTable(row.rows, B)'
  <2> SUFFICES ASSUME row.status = "succeeded" PROVE \E B \in (SUBSET Drivers) \ {{}} : IsLastTable(row.rows, B)'
    OBVIOUS
  <2>1. PICK B \in (SUBSET Drivers) \ {{}} : IsLastTable(row.rows, B)
    BY DEF FigureInv
  <2> QED
    BY <1>5, <2>1
<1> QED
  BY <1>4, <1>6 DEF FigureInv

\* What the row is to hold: the table of the agents A at what they have read.
LEMMA StoredIsRight ==
    ASSUME FigureInv, agent' = agent, NEW A \in SUBSET Drivers,
           NEW status \in {"running", "succeeded", "failed"}, row' = StoredBy(A, status),
           status = "succeeded" => A = Drivers /\ \A a \in Drivers : agent[a].state = "succeeded"
    PROVE  FigureInv'
<1> DEFINE reads == [a \in A |-> agent[a].read]
<1>0. /\ AgentsTyped /\ \A a \in Drivers : /\ agent[a].read <= agent[a].ticks
                                           /\ agent[a].state = "succeeded" => agent[a].read = agent[a].ticks
      /\ row.archive \in 0..Len(Loads)
  BY DEF FigureInv
<1>1. /\ reads \in [A -> Nat] /\ \A a \in A : reads[a] = agent[a].read /\ agent[a].ticks \in Nat
      /\ \A a \in Drivers : agent[a].ticks \in Nat /\ agent[a].read \in Nat
  BY <1>0, FiguresAssumption DEF AgentsTyped, AgentFigures
<1>2. Merge(A, [a \in A |-> Summary(a)]) = TableOf(A, reads)
  <2>1. [a \in A |-> Summary(a)] = [a \in A |-> RowsOf(a, reads[a])]
    BY <1>1 DEF Summary
  <2> QED
    BY <2>1 DEF TableOf
<1> HIDE DEF reads
<1>3. /\ row'.status = status /\ row'.archive = FirstArchive(A) /\ "rows" \in DOMAIN row'
      /\ row'.rows = Kept(TableOf(A, reads))
      /\ row'.total = IF status = "running" THEN row.total ELSE TotalOf(A)
  BY <1>2 DEF StoredBy
<1>4. FirstArchive(A) \in 0..Len(Loads)
  <2> DEFINE over == {a \in A : agent[a].state # "running"}
  <2>1. over \in SUBSET Nat
    BY LoadsTyped
  <2>2. CASE over # {}
    <3> HIDE DEF over
    <3>1. \E x \in over : \A y \in over : x <= y
      BY <2>1, <2>2, HasLeast
    <3>2. Min(over) \in over
      BY <3>1 DEF Min
    <3>3. Min(over) \in Drivers
      BY <3>2 DEF over
    <3>4. FirstArchive(A) = Min(over)
      BY <2>2 DEF FirstArchive, over
    <3> QED
      BY <3>3, <3>4, LoadsTyped
  <2>3. CASE over = {}
    BY <1>0, <2>3 DEF FirstArchive
  <2> QED
    BY <2>2, <2>3
<1>5. \A a \in A : reads[a] <= agent[a].ticks
  BY <1>0, <1>1
<1>6. IsTable(TableOf(A, reads), A, reads)
  BY <1>1, <1>5 DEF IsTable
<1>7. \E B \in SUBSET Drivers : \E t : IsTable(row'.rows, B, t)
  <2>1. CASE TableOf(A, reads) = {}
    BY <1>3, <2>1 DEF Kept, FigureInv
  <2>2. CASE TableOf(A, reads) # {}
    BY <1>3, <1>6, <2>2 DEF Kept
  <2> QED
    BY <2>1, <2>2
<1>8. ASSUME status = "succeeded"
      PROVE  /\ row'.rows = {} => row'.total = 0
             /\ \E B \in (SUBSET Drivers) \ {{}} : IsLastTable(row'.rows, B)
  <2>1. A = Drivers /\ A # {} /\ \A a \in Drivers : reads[a] = agent[a].ticks
    BY <1>0, <1>1, <1>8, LoadsTyped
  <2>2. row'.rows = TableOf(A, reads)
    <3>1. CASE TableOf(A, reads) = {}
      <4>1. \A a \in A : reads[a] = 0
        BY <1>1, <3>1, EmptyTable
      <4>2. PICK B \in SUBSET Drivers : \E t : IsTable(row.rows, B, t)
        BY DEF FigureInv
      <4>3. PICK t : IsTable(row.rows, B, t)
        BY <4>2
      <4>4. t \in [B -> Nat] /\ \A a \in B : t[a] <= agent[a].ticks /\ agent[a].ticks = 0
        BY <2>1, <4>1, <4>3 DEF IsTable
      <4>5. \A a \in B : t[a] = 0
        BY <4>4
      <4>6. row.rows = {}
        BY <4>3, <4>4, <4>5, EmptyTable DEF IsTable
      <4> QED
        BY <1>3, <3>1, <4>6 DEF Kept
    <3>2. CASE TableOf(A, reads) # {}
      BY <1>3, <3>2 DEF Kept
    <3> QED
      BY <3>1, <3>2
  <2>3. IsLastTable(row'.rows, Drivers)
    BY <1>1, <2>1, <2>2 DEF IsLastTable
  <2>4. ASSUME row'.rows = {} PROVE row'.total = 0
    <3>1. \A a \in A : reads[a] = 0 /\ agent[a].read = 0
      <4>1. TableOf(A, reads) = {}
        BY <2>2, <2>4
      <4>2. \A a \in A : reads[a] = 0
        BY <1>1, <4>1, EmptyTable
      <4> QED
        BY <1>1, <4>2
    <3>2. \A a \in A : Summary(a) = {}
      <4> SUFFICES ASSUME NEW a \in A PROVE Summary(a) = {}
        OBVIOUS
      <4>1. \A e \in Endpoints : Loads[a][e].rate * agent[a].read = 0
        <5> SUFFICES ASSUME NEW e \in Endpoints PROVE Loads[a][e].rate * agent[a].read = 0
          OBVIOUS
        <5>1. Loads[a][e].rate \in Nat /\ agent[a].read = 0
          BY <3>1, LoadsTyped
        <5> QED
          BY <5>1, NoFactorIsZero
      <4> QED
        BY <4>1 DEF Summary, RowsOf
    <3> DEFINE own == [a \in A |-> SumFunctionOnSet([r \in Summary(a) |-> r.n], Summary(a))]
    <3>3. TotalOf(A) = SumFunctionOnSet(own, A)
      BY DEF TotalOf, Plus
    <3>4. \A a \in A : own[a] = 0
      BY <3>2, SumEmpty
    <3>5. IsFiniteSet(A)
      BY LoadsTyped, FS_Subset
    <3>6. Natural(own, A)
      BY <3>4 DEF Natural
    <3> HIDE DEF own
    <3>7. SumFunctionOnSet(own, A) = 0
      BY <3>4, <3>5, <3>6, SumNat
    <3> QED
      BY <1>3, <1>8, <3>3, <3>7
  <2> QED
    BY <2>1, <2>3, <2>4
<1>9. AgentsTyped' /\ (\A B, t : IsTable(row'.rows, B, t) => IsTable(row.rows, B, t)')
      /\ (\A B : IsLastTable(row'.rows, B) => IsLastTable(row.rows, B)')
  BY <1>0 DEF AgentsTyped, IsTable, IsLastTable
<1> QED
  BY <1>0, <1>3, <1>4, <1>7, <1>8, <1>9 DEF FigureInv

LEMMA FiguresKeep == FigureInv /\ [FigureNext]_figureVars => FigureInv'
<1> SUFFICES ASSUME FigureInv, [FigureNext]_figureVars PROVE FigureInv'
  OBVIOUS
<1>0. /\ agent \in [Drivers -> AgentFigures] /\ MaxTicks \in Nat
      /\ \A a \in Drivers : /\ agent[a].read <= agent[a].ticks
                            /\ agent[a].state = "succeeded" => agent[a].read = agent[a].ticks
      /\ row.status = "succeeded" => \A a \in Drivers : agent[a].state = "succeeded"
  BY FiguresAssumption DEF FigureInv, AgentsTyped
<1>t. \A a \in Drivers : /\ agent[a] \in AgentFigures /\ agent[a].ticks \in 0..MaxTicks
                         /\ agent[a].read \in 0..MaxTicks
  BY <1>0 DEF AgentFigures
<1>1. ASSUME NEW sampled \in SUBSET Drivers, Advance(sampled) PROVE FigureInv'
  <2>1. row' = row /\ row.status # "succeeded"
    BY <1>0, <1>1 DEF Advance
  <2> DEFINE on(a) == ~(agent[a].state # "running" \/ agent[a].ticks = MaxTicks)
             next(a) == [agent[a] EXCEPT !.ticks = @ + 1,
                                         !.seen = IF a \in sampled THEN @ \cup {agent[a].ticks} ELSE @]
  <2>2. agent' = [a \in Drivers |-> IF on(a) THEN next(a) ELSE agent[a]]
    BY <1>1 DEF Advance
  <2>3. ASSUME NEW a \in Drivers, on(a)
        PROVE  /\ next(a) \in AgentFigures /\ next(a).ticks = agent[a].ticks + 1
               /\ next(a).read = agent[a].read /\ next(a).state = "running"
    <3>1. agent[a].ticks \in 0..MaxTicks - 1
      BY <1>0, <1>t, <2>3
    <3> DEFINE seen == IF a \in sampled THEN agent[a].seen \cup {agent[a].ticks} ELSE agent[a].seen
    <3>2. next(a) = [[agent[a] EXCEPT !.ticks = agent[a].ticks + 1] EXCEPT !.seen = seen]
      BY <1>t DEF AgentFigures
    <3>3. seen \in SUBSET (0..MaxTicks - 1)
      BY <1>t, <3>1 DEF AgentFigures
    <3>4. agent[a].ticks + 1 \in 0..MaxTicks
      BY <1>0, <3>1
    <3> HIDE DEF seen, next
    <3> QED
      BY <1>t, <2>3, <3>2, <3>3, <3>4 DEF AgentFigures
  <2> HIDE DEF next
  <2>4. \A a \in Drivers : /\ agent'[a] \in AgentFigures
                           /\ agent'[a].read <= agent'[a].ticks /\ agent[a].ticks <= agent'[a].ticks
                           /\ agent'[a].state = "succeeded" => agent'[a].read = agent'[a].ticks
    <3> SUFFICES ASSUME NEW a \in Drivers
                 PROVE  /\ agent'[a] \in AgentFigures
                        /\ agent'[a].read <= agent'[a].ticks /\ agent[a].ticks <= agent'[a].ticks
                        /\ agent'[a].state = "succeeded" => agent'[a].read = agent'[a].ticks
      OBVIOUS
    <3>1. CASE on(a)
      <4>1. agent'[a] = next(a)
        BY <2>2, <3>1
      <4> QED
        BY <1>0, <1>t, <2>3, <3>1, <4>1
    <3>2. CASE ~on(a)
      <4>1. agent'[a] = agent[a]
        BY <2>2, <3>2
      <4> QED
        BY <1>0, <1>t, <4>1
    <3> QED
      BY <3>1, <3>2
  <2>5. AgentsTyped'
    BY <2>2, <2>4 DEF AgentsTyped
  <2> QED
    BY <2>1, <2>4, <2>5, AgentsGoOn
<1>2. ASSUME NEW a \in Drivers, NEW new \in AgentFigures, agent' = [agent EXCEPT ![a] = new], row' = row,
             new.ticks = agent[a].ticks, new.read <= new.ticks,
             new.state = "succeeded" => new.read = new.ticks,
             agent[a].state = "succeeded" => new.state = "succeeded"
      PROVE  FigureInv'
  <2>1. AgentsTyped'
    BY <1>0, <1>2 DEF AgentsTyped
  <2>2. \A b \in Drivers : agent'[b] = IF b = a THEN new ELSE agent[b]
    BY <1>0, <1>2
  <2>3. \A b \in Drivers : /\ agent'[b].read <= agent'[b].ticks /\ agent[b].ticks = agent'[b].ticks
                           /\ agent'[b].state = "succeeded" => agent'[b].read = agent'[b].ticks
                           /\ agent[b].state = "succeeded" => agent'[b].state = "succeeded"
    BY <1>0, <1>2, <2>2
  <2>4. \A b \in Drivers : agent[b].ticks <= agent'[b].ticks
    BY <1>t, <2>3
  <2> QED
    BY <1>0, <1>2, <2>1, <2>3, <2>4, AgentsGoOn
<1>3. ASSUME NEW a \in Drivers, AgentEnds(a) PROVE FigureInv'
  <2>0. agent[a].state = "running" /\ row' = row
    BY <1>3 DEF AgentEnds
  <2>1. CASE agent' = [agent EXCEPT ![a].state = "succeeded", ![a].read = agent[a].ticks]
    <3> DEFINE new == [[agent[a] EXCEPT !.state = "succeeded"] EXCEPT !.read = agent[a].ticks]
    <3>1. agent' = [agent EXCEPT ![a] = new]
      BY <1>0, <2>1
    <3>2. new \in AgentFigures /\ new.ticks = agent[a].ticks /\ new.read = agent[a].ticks
      BY <1>t DEF AgentFigures
    <3> HIDE DEF new
    <3>3. new.read <= new.ticks
      BY <1>t, <3>2
    <3> QED
      BY <1>2, <2>0, <3>1, <3>2, <3>3
  <2>2. ASSUME NEW read \in {agent[a].read, agent[a].ticks}, NEW error \in BOOLEAN,
               agent' = [agent EXCEPT ![a].state = "failed", ![a].read = read, ![a].error = error]
        PROVE  FigureInv'
    <3> DEFINE new == [[[agent[a] EXCEPT !.state = "failed"] EXCEPT !.read = read] EXCEPT !.error = error]
    <3>1. agent' = [agent EXCEPT ![a] = new]
      BY <1>0, <2>2
    <3>2. new \in AgentFigures /\ new.ticks = agent[a].ticks /\ new.read = read /\ new.state = "failed"
      BY <1>t DEF AgentFigures
    <3> HIDE DEF new
    <3>3. new.read <= new.ticks
      BY <1>0, <1>t, <3>2
    <3> QED
      BY <1>2, <2>0, <3>1, <3>2, <3>3
  <2> QED
    BY <1>3, <2>1, <2>2 DEF AgentEnds
<1>4. ASSUME NEW a \in Drivers, AgentIsAsked(a) PROVE FigureInv'
  <2> DEFINE new == [agent[a] EXCEPT !.read = agent[a].ticks]
  <2>1. agent' = [agent EXCEPT ![a] = new] /\ row' = row
    BY <1>0, <1>4 DEF AgentIsAsked
  <2>2. new \in AgentFigures /\ new.ticks = agent[a].ticks /\ new.read = agent[a].ticks
        /\ new.state = agent[a].state
    BY <1>t DEF AgentFigures
  <2> HIDE DEF new
  <2>3. new.read <= new.ticks
    BY <1>t, <2>2
  <2> QED
    BY <1>2, <2>1, <2>2, <2>3
<1>5. ASSUME NEW a \in Drivers, Falters(a) PROVE FigureInv'
  <2> DEFINE new == [agent[a] EXCEPT !.up = ~@]
  <2>1. agent' = [agent EXCEPT ![a] = new] /\ row' = row
    BY <1>0, <1>5 DEF Falters
  <2>2. new \in AgentFigures /\ new.ticks = agent[a].ticks /\ new.read = agent[a].read
        /\ new.state = agent[a].state
    BY <1>t DEF AgentFigures
  <2> HIDE DEF new
  <2> QED
    BY <1>0, <1>2, <2>1, <2>2
<1>6. CASE Poll
  <2> DEFINE status == IF \E a \in Answering : agent[a].state = "failed" THEN "failed"
                       ELSE IF \E a \in Drivers : a \notin Answering \/ agent[a].state = "running"
                       THEN "running" ELSE "succeeded"
  <2>1. agent' = agent /\ row' = StoredBy(Answering, status)
    BY <1>6 DEF Poll
  <2>2. Answering \in SUBSET Drivers
    BY DEF Answering
  <2>3. status \in {"running", "succeeded", "failed"}
        /\ (status = "succeeded" => Answering = Drivers /\ \A a \in Drivers : agent[a].state = "succeeded")
    BY <1>t, <2>2 DEF AgentFigures
  <2> HIDE DEF status
  <2> QED
    BY <2>1, <2>2, <2>3, StoredIsRight
<1>7. CASE Sync
  <2> DEFINE status == IF \E a \in Drivers : agent[a].state = "failed" THEN "failed" ELSE "succeeded"
  <2>1. agent' = agent /\ row' = StoredBy(Drivers, status) /\ \A a \in Drivers : agent[a].state # "running"
    BY <1>7 DEF Sync
  <2>2. status \in {"running", "succeeded", "failed"}
        /\ (status = "succeeded" => \A a \in Drivers : agent[a].state = "succeeded")
    BY <1>t, <2>1 DEF AgentFigures
  <2> HIDE DEF status
  <2> QED
    BY <2>1, <2>2, StoredIsRight
<1>8. CASE ReportMade
  <2> DEFINE t == TicksOf(Answering)
  <2>1. /\ Answering \in SUBSET Drivers /\ t \in [Answering -> Nat]
        /\ \A a \in Answering : t[a] = agent[a].ticks /\ agent[a].ticks \in Nat
    BY <1>t DEF Answering, TicksOf
  <2>2. ShownRows = IF TableOf(Answering, t) # {} THEN TableOf(Answering, t) ELSE row.rows
    <3>1. [a \in Answering |-> Fresh(a)] = [a \in Answering |-> RowsOf(a, t[a])]
      BY <2>1 DEF Fresh
    <3> QED
      BY <3>1 DEF ShownRows, TableOf
  <2> HIDE DEF t
  <2>3. /\ agent' = agent /\ row'.rows = ShownRows /\ row'.status = row.status /\ row'.archive = row.archive
        /\ row'.total = row.total /\ "rows" \in DOMAIN row'
    BY <1>8 DEF ReportMade, FigureInv
  <2>4. CASE TableOf(Answering, t) # {}
    <3>1. Answering # {}
      BY <2>4, NoTable
    <3>2. IsTable(row'.rows, Answering, t) /\ IsLastTable(row'.rows, Answering)
      BY <2>1, <2>2, <2>3, <2>4 DEF IsTable, IsLastTable
    <3>a. PICK B \in (SUBSET Drivers) \ {{}} : \E u : IsTable(row'.rows, B, u) /\ IsLastTable(row'.rows, B)
      BY <2>1, <3>1, <3>2
    <3>3. PICK u : IsTable(row'.rows, B, u) /\ IsLastTable(row'.rows, B)
      BY <3>a
    <3>4. AgentsTyped' /\ IsTable(row.rows, B, u)' /\ IsLastTable(row.rows, B)'
      BY <1>0, <2>3, <3>3 DEF AgentsTyped, IsTable, IsLastTable
    <3>5. row'.rows # {}
      BY <2>2, <2>3, <2>4
    <3> QED
      BY <1>0, <2>3, <3>4, <3>5 DEF FigureInv
  <2>5. CASE TableOf(Answering, t) = {}
    <3>1. row'.rows = row.rows
      BY <2>2, <2>3, <2>5
    <3>2. AgentsTyped' /\ (\A B, u : IsTable(row.rows, B, u) => IsTable(row.rows, B, u)')
          /\ (\A B : IsLastTable(row.rows, B) => IsLastTable(row.rows, B)')
      BY <1>0, <2>3, <3>1 DEF AgentsTyped, IsTable, IsLastTable
    <3> QED
      BY <2>3, <3>1, <3>2 DEF FigureInv
  <2> QED
    BY <2>4, <2>5
<1>9. CASE UNCHANGED figureVars
  <2>1. agent' = agent /\ row' = row
    BY <1>9 DEF figureVars
  <2>2. \A a \in Drivers : agent[a].ticks <= agent'[a].ticks
    BY <1>t, <2>1
  <2>3. AgentsTyped'
    BY <1>0, <2>1 DEF AgentsTyped
  <2> QED
    BY <1>0, <2>1, <2>2, <2>3, AgentsGoOn
<1> QED
  BY <1>1, <1>3, <1>4, <1>5, <1>6, <1>7, <1>8, <1>9 DEF FigureNext
-----------------------------------------------------------------------------
(* What the pages show *)

\* The pages show a table of agents that have each done no more than now: of those that answer,
\* or the one that is stored.
LEMMA ShownIs == FigureInv =>
    /\ \E A \in SUBSET Drivers : \E t : IsTable(ShownRows, A, t)
    /\ TicksOf(Answering) \in [Answering -> Nat]
    /\ ShownRows = IF TableOf(Answering, TicksOf(Answering)) # {}
                   THEN TableOf(Answering, TicksOf(Answering)) ELSE row.rows
<1> SUFFICES ASSUME FigureInv
             PROVE  /\ \E A \in SUBSET Drivers : \E t : IsTable(ShownRows, A, t)
                    /\ TicksOf(Answering) \in [Answering -> Nat]
                    /\ ShownRows = IF TableOf(Answering, TicksOf(Answering)) # {}
                                   THEN TableOf(Answering, TicksOf(Answering)) ELSE row.rows
  OBVIOUS
<1> DEFINE t == TicksOf(Answering)
<1>1. /\ Answering \in SUBSET Drivers /\ t \in [Answering -> Nat]
      /\ \A a \in Answering : t[a] = agent[a].ticks /\ agent[a].ticks \in Nat
  BY FiguresAssumption DEF Answering, TicksOf, FigureInv, AgentsTyped, AgentFigures
<1>2. ShownRows = IF TableOf(Answering, t) # {} THEN TableOf(Answering, t) ELSE row.rows
  <2>1. [a \in Answering |-> Fresh(a)] = [a \in Answering |-> RowsOf(a, t[a])]
    BY <1>1 DEF Fresh
  <2> QED
    BY <2>1 DEF ShownRows, TableOf
<1>3. IsTable(TableOf(Answering, t), Answering, t)
  BY <1>1 DEF IsTable
<1>4. \E A \in SUBSET Drivers : \E u : IsTable(row.rows, A, u)
  BY DEF FigureInv
<1> HIDE DEF t
<1>5. \E A \in SUBSET Drivers : \E u : IsTable(ShownRows, A, u)
  <2>1. CASE TableOf(Answering, t) = {}
    BY <1>2, <1>4, <2>1
  <2>2. CASE TableOf(Answering, t) # {}
    BY <1>1, <1>2, <1>3, <2>2
  <2> QED
    BY <2>1, <2>2
<1> QED
  BY <1>1, <1>2, <1>5 DEF t

AgentRates == [a \in Drivers |-> Rate(a)]
EndpointRates(e) == [a \in Drivers |-> Loads[a][e].rate]
LEMMA RatesTyped ==
    /\ Natural(AgentRates, Drivers) /\ IsFiniteSet(Drivers)
    /\ Plus(Drivers, Rate) = SumFunctionOnSet(AgentRates, Drivers)
    /\ \A e \in Endpoints : /\ Natural(EndpointRates(e), Drivers)
                            /\ Plus(Drivers, LAMBDA a : Loads[a][e].rate) = SumFunctionOnSet(EndpointRates(e), Drivers)
<1>1. ASSUME NEW a \in Drivers PROVE Rate(a) \in Nat
  <2> DEFINE f == [e \in Endpoints |-> Loads[a][e].rate]
  <2>1. Natural(f, Endpoints) /\ IsFiniteSet(Endpoints)
    BY LoadsTyped, FiguresAssumption DEF Natural
  <2>2. Rate(a) = SumFunctionOnSet(f, Endpoints)
    BY DEF Rate, Plus
  <2> HIDE DEF f
  <2> QED
    BY <2>1, <2>2, SumNat
<1>2. Natural(AgentRates, Drivers) /\ IsFiniteSet(Drivers)
  BY <1>1, LoadsTyped DEF Natural, AgentRates
<1>3. Plus(Drivers, Rate) = SumFunctionOnSet(AgentRates, Drivers)
  BY DEF Plus, AgentRates
<1>4. ASSUME NEW e \in Endpoints
      PROVE  /\ Natural(EndpointRates(e), Drivers)
             /\ Plus(Drivers, LAMBDA a : Loads[a][e].rate) = SumFunctionOnSet(EndpointRates(e), Drivers)
  <2>1. Natural(EndpointRates(e), Drivers)
    BY LoadsTyped DEF Natural, EndpointRates
  <2>2. Plus(Drivers, LAMBDA a : Loads[a][e].rate) = SumFunctionOnSet(EndpointRates(e), Drivers)
    BY DEF Plus, EndpointRates
  <2> QED
    BY <2>1, <2>2
<1> QED
  BY <1>2, <1>3, <1>4

\* No more than Bucket ticks are in one point.
LEMMA BucketIsBounded ==
    ASSUME NEW n \in Nat, NEW b \in Nat
    PROVE  /\ Cardinality({t \in 0..n - 1 : BucketOf(t) = b}) \in Nat
           /\ Cardinality({t \in 0..n - 1 : BucketOf(t) = b}) <= Bucket
<1> DEFINE own == {t \in 0..n - 1 : BucketOf(t) = b}
           first == Bucket * b
<1>0. Bucket \in Nat \ {0} /\ first \in Nat
  BY FiguresAssumption, Product
<1>1. ASSUME NEW t \in own PROVE t \in first..first + Bucket - 1
  <2>1. t \in Nat /\ t \div Bucket = b
    BY DEF BucketOf
  <2>2. t % Bucket \in 0..Bucket - 1 /\ t = Bucket * (t \div Bucket) + (t % Bucket)
    BY <1>0, <2>1, Division
  <2>3. t = first + (t % Bucket)
    BY <2>1, <2>2
  <2> HIDE DEF first
  <2> QED
    BY <1>0, <2>2, <2>3
<1> HIDE DEF first
<1>2. IsFiniteSet(first..first + Bucket - 1) /\ Cardinality(first..first + Bucket - 1) = Bucket
  <2>1. first \in Int /\ first + Bucket - 1 \in Int /\ ~(first > first + Bucket - 1)
        /\ (first + Bucket - 1) - first + 1 = Bucket
    BY <1>0
  <2>2. /\ IsFiniteSet(first..first + Bucket - 1)
        /\ Cardinality(first..first + Bucket - 1) =
              IF first > first + Bucket - 1 THEN 0 ELSE (first + Bucket - 1) - first + 1
    BY <2>1, FS_Interval
  <2> QED
    BY <2>1, <2>2
<1>3. own \subseteq first..first + Bucket - 1
  BY <1>1
<1>4. IsFiniteSet(own) /\ Cardinality(own) <= Bucket
  <2> HIDE DEF own
  <2>1. IsFiniteSet(own) /\ Cardinality(own) <= Cardinality(first..first + Bucket - 1)
    BY <1>2, <1>3, FS_Subset
  <2> QED
    BY <1>2, <2>1
<1> QED
  BY <1>4, FS_CardinalityType

LEMMA NoPageShowsMore == FigureInv => NeverMore
<1> SUFFICES ASSUME FigureInv PROVE NeverMore
  OBVIOUS
<1>0. AgentsTyped /\ \A a \in Drivers : agent[a].ticks \in Nat
  BY FiguresAssumption DEF FigureInv, AgentsTyped, AgentFigures
<1>1. ASSUME NEW r \in ShownRows PROVE r.n <= AllRequests(Drivers, r.endpoint)
  <2>1. PICK A \in SUBSET Drivers : \E t : IsTable(ShownRows, A, t)
    BY ShownIs
  <2>2. PICK t : IsTable(ShownRows, A, t)
    BY <2>1
  <2>3. t \in [A -> Nat] /\ (\A a \in A : t[a] <= agent[a].ticks) /\ ShownRows = TableOf(A, t)
    BY <2>2 DEF IsTable
  <2>4. PICK e \in Endpoints : r = RowFor(A, t, e)
    BY <2>3, MergeIs
  <2>5. r.n = Did(A, t, e) /\ r.endpoint = e
    BY <2>4 DEF RowFor
  <2> QED
    BY <1>0, <2>3, <2>5, DidIsLess
<1>2. ASSUME NEW p \in ShownChart PROVE p.rps <= Plus(Drivers, Rate)
  <2>1. /\ Natural(AgentRates, Drivers) /\ IsFiniteSet(Drivers)
        /\ Plus(Drivers, Rate) = SumFunctionOnSet(AgentRates, Drivers)
    BY RatesTyped
  <2>2. ASSUME NEW S \in SUBSET Drivers PROVE Plus(S, Rate) <= Plus(Drivers, Rate)
    <3> DEFINE own == [a \in S |-> Rate(a)]
    <3>1. Plus(S, Rate) = SumFunctionOnSet(own, S)
      BY DEF Plus
    <3>2. \A a \in S : AgentRates[a] = own[a]
      BY DEF AgentRates
    <3>3. IsFiniteSet(S) /\ Counts(AgentRates, S)
      BY <2>1, FS_Subset DEF Natural, Counts
    <3> HIDE DEF own
    <3>4. SumFunctionOnSet(AgentRates, S) = SumFunctionOnSet(own, S)
      BY <3>2, <3>3, SumSame
    <3>5. SumFunctionOnSet(AgentRates, S) <= SumFunctionOnSet(AgentRates, Drivers)
      BY <2>1, SumOfPart
    <3> QED
      BY <2>1, <3>1, <3>4, <3>5
  <2>3. CASE p \in MergedChart(Drivers)
    <3>1. PICK b : p.rps = Plus({a \in Drivers : b \in {BucketOf(t) : t \in agent[a].seen}}, Rate)
      BY <2>3 DEF MergedChart
    <3>2. {a \in Drivers : b \in {BucketOf(t) : t \in agent[a].seen}} \in SUBSET Drivers
      OBVIOUS
    <3> QED
      BY <2>2, <3>1, <3>2
  <2>4. ASSUME NEW a \in Drivers, p \in PointsOf(a) PROVE p.rps <= Plus(Drivers, Rate)
    <3>1. p.rps = AgentRates[a]
      BY <2>4 DEF PointsOf, AgentRates
    <3>2. AgentRates[a] <= SumFunctionOnSet(AgentRates, Drivers)
      BY <2>1, SumNat
    <3> QED
      BY <2>1, <3>1, <3>2
  <2>5. 1 \in Drivers /\ (row.archive # 0 => row.archive \in Drivers)
    BY LoadsTyped DEF FigureInv
  <2> QED
    BY <2>3, <2>4, <2>5 DEF ShownChart
<1>3. ASSUME NEW e \in Endpoints, NEW p \in ShownTrend(e) \cup StoredTrend(e)
      PROVE  p.rps <= Plus(Drivers, LAMBDA a : Loads[a][e].rate) * Bucket
  <2> DEFINE f == EndpointRates(e)
             h == [a \in Drivers |-> f[a] * Bucket]
  <2>1. /\ Natural(f, Drivers) /\ IsFiniteSet(Drivers)
        /\ Plus(Drivers, LAMBDA a : Loads[a][e].rate) = SumFunctionOnSet(f, Drivers)
        /\ \A a \in Drivers : f[a] = Loads[a][e].rate
        /\ Bucket \in Nat
    BY RatesTyped, FiguresAssumption DEF EndpointRates
  <2> HIDE DEF f
  <2>2. Natural(h, Drivers) /\ Counts(f, Drivers) /\ \A a \in Drivers : h[a] = f[a] * Bucket
    BY <2>1, Product DEF Natural, Counts
  <2> HIDE DEF h
  <2>3. SumFunctionOnSet(h, Drivers) = SumFunctionOnSet(f, Drivers) * Bucket
    BY <2>1, <2>2, SumOfProducts
  <2>4. \A a \in Drivers : h[a] <= SumFunctionOnSet(h, Drivers)
    BY <2>1, <2>2, SumNat
  <2>5. CASE p \in StoredTrend(e)
    <3>1. PICK a \in Drivers : p \in FineTrend(a, e)
      BY <2>5 DEF StoredTrend
    <3>2. p.rps = Loads[a][e].rate * Bucket
      BY <3>1 DEF FineTrend
    <3>3. p.rps = h[a]
      BY <2>1, <2>2, <3>2
    <3> QED
      BY <2>1, <2>3, <2>4, <3>3
  <2>6. CASE p \in ShownTrend(e)
    <3>0. Answering \in SUBSET Drivers
      BY DEF Answering
    <3>1. PICK b \in {BucketOf(t) : t \in UNION {0..agent[a].ticks - 1 : a \in Answering}} :
             p = [at |-> b, rps |-> SumFunctionOnSet([a \in Answering |-> CoarseTrend(a, e, b)], Answering)]
      BY <2>6 DEF ShownTrend, Plus
    <3>2. b \in Nat
      <4>1. PICK t \in UNION {0..agent[a].ticks - 1 : a \in Answering} : b = BucketOf(t)
        BY <3>1
      <4>2. t \in Nat
        BY <4>1
      <4> QED
        BY <4>1, <4>2, Division, FiguresAssumption DEF BucketOf
    <3> DEFINE c == [a \in Answering |-> CoarseTrend(a, e, b)]
    <3>3. p.rps = SumFunctionOnSet(c, Answering)
      BY <3>1
    <3>4. \A a \in Answering : c[a] \in Nat /\ c[a] <= h[a]
      <4> SUFFICES ASSUME NEW a \in Answering PROVE c[a] \in Nat /\ c[a] <= h[a]
        OBVIOUS
      <4> DEFINE k == Cardinality({t \in 0..agent[a].ticks - 1 : BucketOf(t) = b})
      <4>1. k \in Nat /\ k <= Bucket
        BY <1>0, <3>0, <3>2, BucketIsBounded
      <4>2. c[a] = k * Loads[a][e].rate
        BY DEF CoarseTrend
      <4> HIDE DEF k, c
      <4>3. Loads[a][e].rate \in Nat /\ h[a] = Loads[a][e].rate * Bucket
        BY <2>1, <2>2, <3>0, LoadsTyped
      <4>4. k * Loads[a][e].rate = Loads[a][e].rate * k
        BY <4>1, <4>3
      <4>5. Loads[a][e].rate * k <= Loads[a][e].rate * Bucket /\ Loads[a][e].rate * k \in Nat
        BY <2>1, <4>1, <4>3, ProductGrows, Product
      <4> QED
        BY <4>2, <4>3, <4>4, <4>5
    <3> HIDE DEF c
    <3>5. IsFiniteSet(Answering) /\ Counts(c, Answering) /\ Counts(h, Answering)
      BY <2>1, <2>2, <3>0, <3>4, FS_Subset DEF Counts, Natural
    <3>6. SumFunctionOnSet(c, Answering) <= SumFunctionOnSet(h, Answering)
      BY <3>4, <3>5, SumMonotone
    <3>7. SumFunctionOnSet(h, Answering) <= SumFunctionOnSet(h, Drivers)
      BY <2>1, <2>2, <3>0, SumOfPart
    <3>8. /\ SumFunctionOnSet(c, Answering) \in Int /\ SumFunctionOnSet(h, Answering) \in Int
          /\ SumFunctionOnSet(h, Drivers) \in Int
      BY <2>1, <2>2, <3>5, SumType, SumNat
    <3> QED
      BY <2>1, <2>3, <3>3, <3>6, <3>7, <3>8
  <2> QED
    BY <2>5, <2>6
<1> QED
  BY <1>1, <1>2, <1>3 DEF NeverMore

LEMMA FiguresAreRight == FigureInv => FigureTypeOK /\ FiguresAddUp
<1> SUFFICES ASSUME FigureInv PROVE FigureTypeOK /\ FiguresAddUp
  OBVIOUS
<1>0. AgentsTyped /\ \A a \in Drivers : agent[a].ticks \in Nat
  BY FiguresAssumption DEF FigureInv, AgentsTyped, AgentFigures
<1>1. FigureTypeOK
  <2>1. \A a \in Drivers : agent[a].ticks \in agent[a].read..MaxTicks /\ agent[a].seen \subseteq 0..MaxTicks - 1
    <3> SUFFICES ASSUME NEW a \in Drivers
                 PROVE  agent[a].ticks \in agent[a].read..MaxTicks /\ agent[a].seen \subseteq 0..MaxTicks - 1
      OBVIOUS
    <3>1. agent[a] \in AgentFigures /\ agent[a].read <= agent[a].ticks /\ MaxTicks \in Nat
      BY FiguresAssumption DEF FigureInv, AgentsTyped
    <3> QED
      BY <3>1 DEF AgentFigures
  <2> QED
    BY <2>1 DEF FigureTypeOK, FigureInv
<1> DEFINE t == TicksOf(Answering)
<1>2. /\ Answering \in SUBSET Drivers /\ t \in [Answering -> Nat]
      /\ ShownRows = IF TableOf(Answering, t) # {} THEN TableOf(Answering, t) ELSE row.rows
      /\ \A a \in Answering : t[a] = agent[a].ticks
  BY ShownIs DEF Answering, TicksOf
<1>3. \A e \in Endpoints : Did(Answering, t, e) = AllRequests(Answering, e)
                           /\ Lasted(Answering, t, e) = AllTime(Answering, e)
                           /\ AllRequests(Answering, e) \in Nat
  BY <1>0, <1>2, AllIs
<1>4. WholeOf(TableOf(Answering, t), Answering)
  <2> HIDE DEF t
  <2> QED
    BY <1>0, <1>2, <1>3, TableIsWhole
<1> HIDE DEF t
<1>5. TableOf(Answering, t) = {} <=> \A a \in Answering : agent[a].ticks = 0
  BY <1>2, EmptyTable
<1>6. WholeOf(ShownRows, Answering) \/ TableOf(Answering, t) = {}
  BY <1>2, <1>4
<1>7. ~Ended => WholeOf(ShownRows, Answering)
  <2>1. ASSUME TableOf(Answering, t) = {} PROVE WholeOf(ShownRows, Answering)
    <3>1. \A e \in Endpoints : Did(Answering, t, e) = 0
      BY <1>2, <2>1, NoRows
    <3>2. \A e \in Endpoints : ~(AllRequests(Answering, e) > 0)
      BY <1>3, <3>1
    <3> QED
      BY <3>2 DEF WholeOf
  <2> QED
    BY <1>6, <2>1
<1>8. ASSUME row.status = "succeeded"
      PROVE  \E A \in (SUBSET Drivers) \ {{}} :
                /\ WholeOf(ShownRows, A) /\ {a \in Answering : agent[a].ticks > 0} \in {{}, A}
                /\ OverviewTotal = Plus(Endpoints, LAMBDA e : AllRequests(A, e))
  <2>1. CASE TableOf(Answering, t) # {}
    <3> DEFINE A == {a \in Answering : agent[a].ticks > 0}
    <3>1. A \in (SUBSET Drivers) \ {{}}
      BY <1>0, <1>2, <1>5, <2>1
    <3>2. \A e \in Endpoints : AllRequests(Answering, e) = AllRequests(A, e) /\ AllTime(Answering, e) = AllTime(A, e)
      BY <1>0, <1>2, IdleAgentsAddNothing
    <3> HIDE DEF A
    <3>3. ShownRows = TableOf(Answering, t)
      BY <1>2, <2>1
    <3>4. WholeOf(ShownRows, A)
      BY <1>0, <1>2, <1>3, <3>1, <3>2, <3>3, TableIsWhole
    <3>5. OverviewTotal = Plus(ShownRows, LAMBDA r : r.n)
      BY <2>1, <3>3 DEF OverviewTotal
    <3>6. Plus(TableOf(Answering, t), LAMBDA r : r.n)
             = SumFunctionOnSet([e \in Endpoints |-> Did(Answering, t, e)], Endpoints)
      BY <1>2, RequestsOfTable
    <3>7. [e \in Endpoints |-> Did(Answering, t, e)] = [e \in Endpoints |-> AllRequests(A, e)]
      BY <1>3, <3>2
    <3>8. OverviewTotal = Plus(Endpoints, LAMBDA e : AllRequests(A, e))
      BY <3>3, <3>5, <3>6, <3>7 DEF Plus
    <3> QED
      BY <3>1, <3>4, <3>8 DEF A
  <2>2. CASE TableOf(Answering, t) = {}
    <3>1. PICK A \in (SUBSET Drivers) \ {{}} : IsLastTable(row.rows, A)
      BY <1>8 DEF FigureInv
    <3>2. PICK u \in [A -> Nat] : (\A a \in A : u[a] = agent[a].ticks) /\ row.rows = TableOf(A, u)
      BY <3>1 DEF IsLastTable
    <3>3. u = TicksOf(A)
      BY <3>2 DEF TicksOf
    <3>4. \A e \in Endpoints : /\ Did(A, u, e) = AllRequests(A, e) /\ Lasted(A, u, e) = AllTime(A, e)
                               /\ AllRequests(A, e) \in Nat
      BY <1>0, <3>1, <3>3, AllIs
    <3>5. ShownRows = TableOf(A, u)
      BY <1>2, <2>2, <3>2
    <3>6. WholeOf(ShownRows, A)
      BY <1>0, <3>1, <3>2, <3>4, <3>5, TableIsWhole
    <3>7. {a \in Answering : agent[a].ticks > 0} = {}
      BY <1>5, <2>2
    <3> DEFINE f == [e \in Endpoints |-> Did(A, u, e)]
    <3>8. Plus(Endpoints, LAMBDA e : AllRequests(A, e)) = SumFunctionOnSet(f, Endpoints)
      <4>1. [e \in Endpoints |-> AllRequests(A, e)] = f
        BY <3>4
      <4> QED
        BY <4>1 DEF Plus
    <3>9. OverviewTotal = SumFunctionOnSet(f, Endpoints)
      <4>1. CASE ShownRows # {}
        <5>1. OverviewTotal = Plus(ShownRows, LAMBDA r : r.n)
          BY <4>1 DEF OverviewTotal
        <5>2. Plus(TableOf(A, u), LAMBDA r : r.n) = SumFunctionOnSet(f, Endpoints)
          BY <3>1, <3>2, RequestsOfTable
        <5> QED
          BY <3>5, <5>1, <5>2 DEF Plus
      <4>2. CASE ShownRows = {}
        <5>1. row.rows = {} /\ OverviewTotal = row.total
          BY <3>2, <3>5, <4>2 DEF OverviewTotal
        <5>2. OverviewTotal = 0
          BY <1>8, <5>1 DEF FigureInv
        <5>3. \A e \in Endpoints : f[e] = 0
          <6>1. \A e \in Endpoints : Did(A, u, e) = 0
            BY <3>1, <3>2, <3>5, <4>2, NoRows
          <6> QED
            BY <6>1
        <5>4. Natural(f, Endpoints) /\ IsFiniteSet(Endpoints)
          BY <5>3, FiguresAssumption DEF Natural
        <5> HIDE DEF f
        <5>5. SumFunctionOnSet(f, Endpoints) = 0
          BY <5>3, <5>4, SumNat
        <5> QED
          BY <5>2, <5>5
      <4> QED
        BY <4>1, <4>2
    <3> QED
      BY <3>1, <3>6, <3>7, <3>8, <3>9
  <2> QED
    BY <2>1, <2>2
<1> QED
  BY <1>1, <1>7, <1>8, NoPageShowsMore DEF FiguresAddUp

-----------------------------------------------------------------------------
(* Data files in slices *)


\* Parts that begin where the one before ends, from the first line to the last: every line is
\* in one of them.
GrowsTo(c, T, n) ==
    /\ c \in [0..T -> Nat] /\ c[0] = 0 /\ c[T] = n
    /\ \A i, j \in 0..T : i <= j => c[i] <= c[j]
LEMMA OnePart ==
    ASSUME NEW T \in Nat, NEW c, NEW last, GrowsTo(c, T, last),
           NEW piece, \A i \in 1..T : piece[i] = c[i - 1] + 1..c[i]
    PROVE  \A n \in 1..last : Cardinality({i \in 1..T : n \in piece[i]}) = 1
<1> SUFFICES ASSUME NEW n \in 1..last PROVE Cardinality({i \in 1..T : n \in piece[i]}) = 1
  OBVIOUS
<1>0. /\ c \in [0..T -> Nat] /\ c[0] = 0 /\ c[T] = last
      /\ \A i, j \in 0..T : i <= j => c[i] <= c[j]
  BY DEF GrowsTo
<1> DEFINE reach == {i \in 0..T : n <= c[i]}
<1>1. T \in reach /\ reach \in SUBSET Nat
  BY <1>0
<1>2. PICK m \in reach : \A i \in reach : m <= i
  BY <1>1, HasLeast
<1>3. m \in 1..T /\ n <= c[m] /\ m # 0
  BY <1>0, <1>2
<1>4. m - 1 \in 0..T /\ m - 1 \notin reach
  BY <1>2, <1>3
<1>5. c[m - 1] + 1 <= n /\ n \in piece[m]
  BY <1>0, <1>3, <1>4
<1>6. ASSUME NEW i \in 1..T, n \in piece[i] PROVE i = m
  <2>1. i - 1 \in 0..T /\ c[i - 1] \in Nat /\ c[i - 1] + 1 <= n /\ n <= c[i] /\ c[i] \in Nat
    BY <1>0, <1>6
  <2>2. i \in reach /\ m <= i
    BY <1>2, <2>1
  <2>3. ASSUME m <= i - 1 PROVE FALSE
    <3>1. c[m] <= c[i - 1] /\ c[m] \in Nat
      BY <1>0, <1>3, <2>1, <2>3
    <3> QED
      BY <1>3, <2>1, <3>1
  <2> QED
    BY <1>3, <2>2, <2>3
<1>7. {i \in 1..T : n \in piece[i]} = {m}
  BY <1>3, <1>5, <1>6
<1> QED
  BY <1>7, FS_Singleton

\* The shards of a file, by the formula that the recursion amounts to.
ShardCount(lines, w) == Least(Greatest(w, 1), lines)
Ends(lines, count) ==
    [i \in 0..count |-> i * (lines \div count) + Least(i, lines % count)]
IsLast(lines, count, f) ==
    f = [i \in 0..count |-> IF i = 0 THEN 0
                            ELSE f[i - 1] + (lines \div count + (IF i <= lines % count THEN 1 ELSE 0))]

LEMMA EndsAre ==
    ASSUME NEW lines \in Nat, NEW count \in Nat \ {0}
    PROVE  \A f : IsLast(lines, count, f) <=> f = Ends(lines, count)
<1> DEFINE q == lines \div count
           r == lines % count
           h == Ends(lines, count)
           add(i) == q + (IF i <= r THEN 1 ELSE 0)
<1>1. q \in Nat /\ r \in 0..count - 1
  BY Division
<1>2. \A i \in 0..count : h[i] = i * q + Least(i, r)
  BY DEF Ends
<1> HIDE DEF q, r, h
<1>3. ASSUME NEW i \in 1..count PROVE i - 1 \in 0..count /\ h[i] = h[i - 1] + add(i)
  <2>1. i - 1 \in 0..count /\ i \in 0..count /\ i # 0
    OBVIOUS
  <2>2. (i - 1) * q = i * q - q /\ i * q \in Int
    BY <1>1, NextProduct
  <2>3. h[i] = i * q + Least(i, r) /\ h[i - 1] = (i * q - q) + Least(i - 1, r)
    BY <1>2, <2>1, <2>2
  <2>4. Least(i, r) = Least(i - 1, r) + (IF i <= r THEN 1 ELSE 0) /\ Least(i - 1, r) \in Int
    BY <1>1 DEF Least
  <2> QED
    BY <1>1, <2>1, <2>2, <2>3, <2>4
<1>4. h[0] = 0
  BY <1>1, <1>2 DEF Least
<1>5. IsLast(lines, count, h)
  <2>1. \A i \in 0..count : h[i] = IF i = 0 THEN 0 ELSE h[i - 1] + add(i)
    BY <1>3, <1>4
  <2>2. h = [i \in 0..count |-> h[i]]
    BY DEF h, Ends
  <2> QED
    BY <2>1, <2>2 DEF IsLast, q, r
<1>6. ASSUME NEW f, IsLast(lines, count, f) PROVE f = h
  <2>1. \A i \in 0..count : f[i] = IF i = 0 THEN 0 ELSE f[i - 1] + add(i)
    BY <1>6 DEF IsLast, q, r
  <2> DEFINE P == {n \in Nat : n <= count => f[n] = h[n]}
  <2>2. 0 \in P
    BY <1>4, <2>1
  <2>3. ASSUME NEW n \in Nat, n \in P PROVE n + 1 \in P
    <3> SUFFICES ASSUME n + 1 <= count PROVE f[n + 1] = h[n + 1]
      OBVIOUS
    <3>1. n + 1 \in 1..count /\ n + 1 \in 0..count /\ (n + 1) - 1 = n /\ n + 1 # 0
      OBVIOUS
    <3>2. f[n + 1] = f[n] + add(n + 1) /\ h[n + 1] = h[n] + add(n + 1)
      BY <1>3, <2>1, <3>1
    <3>3. f[n] = h[n]
      BY <2>3, <3>1
    <3> HIDE DEF add
    <3> QED
      BY <3>2, <3>3
  <2> HIDE DEF P
  <2>4. Nat \subseteq P
    BY <2>2, <2>3, Induction
  <2>5. \A i \in 0..count : f[i] = h[i]
    BY <2>4 DEF P
  <2>6. f = [i \in 0..count |-> f[i]] /\ h = [i \in 0..count |-> h[i]]
    BY <1>6 DEF IsLast, h, Ends
  <2> QED
    BY <2>5, <2>6
<1> QED
  BY <1>5, <1>6 DEF h

LEMMA ShardsAre ==
    ASSUME NEW lines \in Nat, NEW w \in Nat
    PROVE  LET count == ShardCount(lines, w)
               ends == Ends(lines, count)
           IN /\ count \in Nat /\ (lines = 0 => count = 0)
              /\ lines > 0 => count \in 1..lines
              /\ AvgShards(lines, w) = [i \in 1..count |-> ends[i - 1] + 1..ends[i]]
<1> DEFINE count == ShardCount(lines, w)
           ends == Ends(lines, count)
<1>1. count \in Nat /\ (lines = 0 => count = 0) /\ (lines > 0 => count \in 1..lines)
  BY DEF ShardCount, Least, Greatest
<1>2. AvgShards(lines, w) = [i \in 1..count |-> ends[i - 1] + 1..ends[i]]
  <2>1. CASE lines = 0
    <3>1. 1..count = {}
      BY <1>1, <2>1
    <3> QED
      BY <3>1 DEF AvgShards, ShardCount
  <2>2. CASE lines # 0
    <3> DEFINE size == [i \in 1..count |-> lines \div count + (IF i <= lines % count THEN 1 ELSE 0)]
               Solves(f) == f = [i \in 0..count |-> IF i = 0 THEN 0 ELSE f[i - 1] + size[i]]
               last == CHOOSE f : Solves(f)
    <3>1. count \in Nat \ {0}
      BY <1>1, <2>2
    <3>2. \A f : IsLast(lines, count, f) <=> f = ends
      <4> HIDE DEF count
      <4> QED
        BY <3>1, EndsAre
    <3>3. \A f : Solves(f) <=> IsLast(lines, count, f)
      <4>1. \A i \in 0..count : i # 0 =>
               size[i] = lines \div count + (IF i <= lines % count THEN 1 ELSE 0)
        BY <3>1
      <4> HIDE DEF size, count
      <4> QED
        BY <4>1 DEF IsLast
    <3>4. last = ends
      <4> HIDE DEF Solves, ends
      <4>1. Solves(ends) /\ \A f : Solves(f) => f = ends
        BY <3>2, <3>3
      <4> QED
        BY <4>1
    <3>5. AvgShards(lines, w) = [i \in 1..count |-> last[i - 1] + 1..last[i]]
      BY DEF AvgShards, ShardCount
    <3> HIDE DEF last
    <3> QED
      BY <3>4, <3>5
  <2> QED
    BY <2>1, <2>2
<1> QED
  BY <1>1, <1>2

LEMMA EndsGrow ==
    ASSUME NEW lines \in Nat, NEW count \in 1..lines
    PROVE  LET ends == Ends(lines, count)
           IN /\ GrowsTo(ends, count, lines)
              /\ \A i \in 1..count : ends[i] - ends[i - 1] \in {lines \div count, lines \div count + 1}
              /\ lines \div count \in Nat \ {0}
<1> DEFINE q == lines \div count
           r == lines % count
           ends == Ends(lines, count)
<1>1. q \in Nat /\ r \in 0..count - 1 /\ lines = count * q + r
  <2>1. count \in Nat \ {0}
    OBVIOUS
  <2> QED
    BY <2>1, Division
<1>2. q # 0
  <2> SUFFICES ASSUME q = 0 PROVE FALSE
    OBVIOUS
  <2>1. count * q = 0
    BY <1>1
  <2> QED
    BY <1>1, <2>1
<1>3. \A i \in 0..count : ends[i] = i * q + Least(i, r)
  BY DEF Ends
<1> HIDE DEF q, r
<1>4. \A i \in 0..count : i * q \in Nat /\ Least(i, r) \in Nat
  BY <1>1, Product DEF Least
<1>5. ends \in [0..count -> Nat]
  BY <1>1, <1>4 DEF Ends, q, r
<1> HIDE DEF ends
<1>6. ends[0] = 0
  BY <1>1, <1>3 DEF Least
<1>7. ends[count] = lines
  BY <1>1, <1>3 DEF Least
<1>8. ASSUME NEW i \in 0..count, NEW j \in 0..count, i <= j PROVE ends[i] <= ends[j]
  <2>1. i * q \in Nat /\ j * q \in Nat /\ i * q <= j * q
    BY <1>1, <1>8, ProductsGrow
  <2>2. Least(i, r) <= Least(j, r) /\ Least(i, r) \in Nat /\ Least(j, r) \in Nat
    BY <1>1, <1>8 DEF Least
  <2> QED
    BY <1>3, <2>1, <2>2
<1>9. ASSUME NEW i \in 1..count PROVE ends[i] - ends[i - 1] \in {q, q + 1}
  <2>1. i \in 0..count /\ i - 1 \in 0..count
    OBVIOUS
  <2>2. (i - 1) * q = i * q - q /\ i * q \in Int
    BY <1>1, NextProduct, <1>4, <2>1
  <2>3. Least(i, r) - Least(i - 1, r) \in {0, 1} /\ Least(i, r) \in Int /\ Least(i - 1, r) \in Int
    BY <1>1 DEF Least
  <2>4. ends[i] = i * q + Least(i, r) /\ ends[i - 1] = (i * q - q) + Least(i - 1, r)
    BY <1>3, <2>1, <2>2
  <2> QED
    BY <1>1, <2>2, <2>3, <2>4
<1> QED
  BY <1>1, <1>2, <1>5, <1>6, <1>7, <1>8, <1>9 DEF ends, q, GrowsTo

\* The first count that is given is a number of at least one.
LEMMA FirstIsACount ==
    ASSUME NEW n \in Nat, NEW counts \in [1..n -> Nat]
    PROVE  /\ FirstOf(counts) \in Nat \ {0}
           /\ n > 0 /\ counts[1] > 0 => FirstOf(counts) = counts[1]
<1> DEFINE given == {i \in DOMAIN counts : counts[i] > 0}
<1>0. given \in SUBSET Nat /\ DOMAIN counts = 1..n
  OBVIOUS
<1>1. FirstOf(counts) = IF given = {} THEN 1 ELSE counts[CHOOSE i \in given : \A j \in given : i <= j]
  BY DEF FirstOf
<1>2. CASE given = {}
  BY <1>0, <1>1, <1>2
<1>3. CASE given # {}
  <2> DEFINE m == CHOOSE i \in given : \A j \in given : i <= j
  <2>1. m \in given /\ \A j \in given : m <= j
    <3> HIDE DEF given
    <3>1. \E i \in given : \A j \in given : i <= j
      BY <1>0, <1>3, HasLeast
    <3> QED
      BY <3>1
  <2> HIDE DEF m
  <2>2. FirstOf(counts) = counts[m]
    BY <1>1, <1>3 DEF m
  <2>3. n > 0 /\ counts[1] > 0 => m = 1
    BY <2>1
  <2> QED
    BY <2>1, <2>2, <2>3
<1> QED
  BY <1>2, <1>3

Questions == [task : Settings, run : Settings, total : Settings, avg : BOOLEAN]
LEMMA CountsTyped == asked \in Questions =>
    /\ Requested \in Nat \ {0} /\ Dispatched \in Nat \ {0} /\ Counted \in Nat \ {0}
    /\ SliceTotal \in Nat \ {0}
    /\ asked.run.n > 0 => Requested = asked.run.n /\ Dispatched = asked.run.n
    /\ Number(asked.run) > 0 => Counted = Number(asked.run)
<1> SUFFICES ASSUME asked \in Questions
             PROVE  /\ Requested \in Nat \ {0} /\ Dispatched \in Nat \ {0} /\ Counted \in Nat \ {0}
                    /\ SliceTotal \in Nat \ {0}
                    /\ asked.run.n > 0 => Requested = asked.run.n /\ Dispatched = asked.run.n
                    /\ Number(asked.run) > 0 => Counted = Number(asked.run)
  OBVIOUS
<1>1. \A s \in Settings : s.n \in Nat /\ Number(s) \in Nat
  BY SliceAssumption DEF Settings, Number
<1>2. /\ asked.task \in Settings /\ asked.run \in Settings /\ asked.total \in Settings
  BY DEF Questions
<1>3. /\ <<asked.run.n, asked.total.n, Number(asked.task)>> \in [1..3 -> Nat]
      /\ <<asked.run.n, asked.task.n>> \in [1..2 -> Nat]
      /\ <<Number(asked.run), Number(asked.total)>> \in [1..2 -> Nat]
  BY <1>1, <1>2
<1>4. Requested \in Nat \ {0} /\ (asked.run.n > 0 => Requested = asked.run.n)
  <2> DEFINE c == <<asked.run.n, asked.total.n, Number(asked.task)>>
  <2>1. c \in [1..3 -> Nat] /\ c[1] = asked.run.n /\ 3 \in Nat /\ 3 > 0
    BY <1>3
  <2>2. Requested = FirstOf(c)
    BY DEF Requested
  <2> HIDE DEF c
  <2> QED
    BY <2>1, <2>2, FirstIsACount
<1>5. Dispatched \in Nat \ {0} /\ (asked.run.n > 0 => Dispatched = asked.run.n)
  <2> DEFINE c == <<asked.run.n, asked.task.n>>
  <2>1. c \in [1..2 -> Nat] /\ c[1] = asked.run.n /\ 2 \in Nat /\ 2 > 0
    BY <1>3
  <2>2. Dispatched = FirstOf(c)
    BY DEF Dispatched
  <2> HIDE DEF c
  <2> QED
    BY <2>1, <2>2, FirstIsACount
<1>6. Counted \in Nat \ {0} /\ (Number(asked.run) > 0 => Counted = Number(asked.run))
  <2> DEFINE c == <<Number(asked.run), Number(asked.total)>>
  <2>1. c \in [1..2 -> Nat] /\ c[1] = Number(asked.run) /\ 2 \in Nat /\ 2 > 0
    BY <1>3
  <2>2. Counted = FirstOf(c)
    BY DEF Counted
  <2> HIDE DEF c
  <2> QED
    BY <2>1, <2>2, FirstIsACount
<1>7. <<asked.task.n, Dispatched>> \in [1..2 -> Nat]
  BY <1>1, <1>2, <1>5
<1>8. SliceTotal \in Nat \ {0}
  BY <1>7, FirstIsACount DEF SliceTotal
<1> QED
  BY <1>4, <1>5, <1>6, <1>8

\* The shards are those of the file, and what an agent has is its slice.
SliceInv ==
    /\ file \in [lines : 0..MaxLines, wanted : 0..MaxPods, sharded : BOOLEAN] /\ asked \in Questions
    /\ slicing \in {"upload", "create", "dispatch", "fetch", "refused"}
    /\ shards = IF slicing # "upload" /\ file.sharded THEN AvgShards(file.lines, file.wanted) ELSE <<>>
    /\ slicing \in {"dispatch", "fetch"} => Requested <= Idle
    /\ IF slicing # "fetch" THEN got = <<>>
       ELSE /\ Dispatched <= Idle /\ DOMAIN got = 1..Dispatched
            /\ \A i \in 1..Dispatched : got[i] \in {{}, SliceOf(i)}

LEMMA SlicesStart == SliceInit => SliceInv
  BY DEF SliceInit, SliceInv, Questions

LEMMA SlicesKeep == SliceInv /\ [SliceNext]_sliceVars => SliceInv'
<1> SUFFICES ASSUME SliceInv, [SliceNext]_sliceVars PROVE SliceInv'
  OBVIOUS
<1>1. CASE CutFile
  BY <1>1 DEF CutFile, SliceInv, Requested
<1>2. CASE CreateRun
  <2>1. Requested \in Nat /\ Idle \in Nat
    BY CountsTyped, SliceAssumption DEF SliceInv
  <2>2. Requested' = Requested
    BY <1>2 DEF CreateRun, Requested
  <2> QED
    BY <1>2, <2>1, <2>2 DEF CreateRun, SliceInv
<1>3. CASE DispatchRun
  <2>1. Dispatched \in Nat /\ Idle \in Nat
    BY CountsTyped, SliceAssumption DEF SliceInv
  <2>2. Requested' = Requested /\ Dispatched' = Dispatched
    BY <1>3 DEF DispatchRun, Requested, Dispatched
  <2> QED
    BY <1>3, <2>1, <2>2 DEF DispatchRun, SliceInv
<1>4. ASSUME NEW i \in 1..MaxPods, Fetch(i) PROVE SliceInv'
  <2>1. /\ UNCHANGED <<file, shards, asked, slicing>> /\ slicing = "fetch" /\ i \in DOMAIN got
        /\ got' = [got EXCEPT ![i] = SliceOf(i)]
    BY <1>4 DEF Fetch
  <2>2. Requested' = Requested /\ Dispatched' = Dispatched /\ \A j : SliceOf(j)' = SliceOf(j)
    BY <2>1 DEF Requested, Dispatched, SliceOf, Whole, SliceStart, SliceTotal, Refusal, LineSlice
  <2> QED
    BY <2>1, <2>2 DEF SliceInv
<1>5. CASE UNCHANGED sliceVars
  <2>1. Requested' = Requested /\ Dispatched' = Dispatched /\ \A j : SliceOf(j)' = SliceOf(j)
    BY <1>5 DEF sliceVars, Requested, Dispatched, SliceOf, Whole, SliceStart, SliceTotal, Refusal, LineSlice
  <2> QED
    BY <1>5, <2>1 DEF SliceInv, sliceVars
<1> QED
  BY <1>1, <1>2, <1>3, <1>4, <1>5 DEF SliceNext

\* The pages of an unsharded file.
PageEnds(lines, T) == [i \in 0..T |-> IF i = T THEN lines ELSE i * (lines \div T)]
LEMMA PageEndsGrow ==
    ASSUME NEW lines \in Nat, NEW T \in 1..lines
    PROVE  LET ends == PageEnds(lines, T)
           IN /\ GrowsTo(ends, T, lines)
              /\ \A i \in 0..T : i # T => ends[i] = i * (lines \div T) /\ ends[i] < lines
<1> DEFINE q == lines \div T
           ends == PageEnds(lines, T)
<1>1. q \in Nat /\ lines % T \in Nat /\ lines = T * q + (lines % T) /\ T * q = q * T
  <2>1. T \in Nat \ {0}
    OBVIOUS
  <2>2. q \in Nat
    BY <2>1, Division
  <2>3. lines % T \in 0..T - 1
    BY <2>1, Division
  <2>4. lines = T * q + (lines % T)
    BY <2>1, Division
  <2> HIDE DEF q
  <2>5. T * q = q * T
    BY <2>1, <2>2
  <2> QED
    BY <2>1, <2>2, <2>3, <2>4, <2>5
<1>2. q # 0
  <2> SUFFICES ASSUME q = 0 PROVE FALSE
    OBVIOUS
  <2>1. T * q = 0 /\ lines % T \in 0..T - 1
    BY Division
  <2> QED
    BY <1>1, <2>1
<1>3. \A i \in 0..T : ends[i] = IF i = T THEN lines ELSE i * q
  BY DEF PageEnds
<1> HIDE DEF q
<1>4. \A i, j \in 0..T : i <= j => i * q <= j * q /\ i * q \in Nat /\ j * q \in Nat
  BY <1>1, ProductsGrow
<1>5. \A i \in 0..T : i # T => i * q < lines
  <2> SUFFICES ASSUME NEW i \in 0..T, i # T PROVE i * q < lines
    OBVIOUS
  <2>1. i + 1 \in 0..T /\ i + 1 <= T /\ T \in 0..T /\ i <= T
    OBVIOUS
  <2>2. (i + 1) * q <= T * q /\ (i + 1) * q = i * q + q /\ i * q \in Nat /\ T * q \in Nat
    BY <1>1, <1>4, <2>1, NextProduct
  <2> QED
    BY <1>1, <1>2, <2>2
<1>6. ends \in [0..T -> Nat]
  BY <1>4 DEF PageEnds, q
<1> HIDE DEF ends
<1>7. \A i, j \in 0..T : i <= j => ends[i] <= ends[j]
  BY <1>3, <1>4, <1>5
<1>8. ends[0] = 0
  BY <1>1, <1>3
<1> QED
  BY <1>3, <1>5, <1>6, <1>7, <1>8 DEF ends, q, GrowsTo

LEMMA ShardsSound == SliceInv => ShardsMakeTheFile
<1> SUFFICES ASSUME SliceInv, slicing # "upload", shards # <<>>
             PROVE  /\ \A n \in Whole : Cardinality({i \in DOMAIN shards : n \in shards[i]}) = 1
                    /\ \A i, j \in DOMAIN shards :
                          shards[i] # {} /\ Cardinality(shards[i]) - Cardinality(shards[j]) <= 1
  BY DEF ShardsMakeTheFile
<1> DEFINE lines == file.lines
           count == ShardCount(lines, file.wanted)
           ends == Ends(lines, count)
           q == lines \div count
<1>1. lines \in Nat /\ file.wanted \in Nat
  BY SliceAssumption DEF SliceInv
<1>2. shards = AvgShards(lines, file.wanted)
  BY DEF SliceInv
<1> HIDE DEF lines
<1>3. /\ count \in Nat /\ (lines = 0 => count = 0) /\ (lines > 0 => count \in 1..lines)
      /\ shards = [i \in 1..count |-> ends[i - 1] + 1..ends[i]]
  BY <1>1, <1>2, ShardsAre
<1> HIDE DEF count
<1>4. lines # 0
  <2> SUFFICES ASSUME lines = 0 PROVE FALSE
    OBVIOUS
  <2>1. 1..count = {}
    BY <1>3
  <2> QED
    BY <1>3, <2>1
<1>5. count \in 1..lines
  BY <1>1, <1>3, <1>4
<1>6. /\ GrowsTo(ends, count, lines) /\ ends \in [0..count -> Nat]
      /\ \A i \in 1..count : ends[i] - ends[i - 1] \in {q, q + 1}
      /\ q \in Nat \ {0}
  BY <1>1, <1>5, EndsGrow DEF GrowsTo
<1> HIDE DEF ends, q
<1>7. DOMAIN shards = 1..count /\ \A i \in 1..count : shards[i] = ends[i - 1] + 1..ends[i]
  BY <1>3
<1>8. \A n \in 1..lines : Cardinality({i \in 1..count : n \in shards[i]}) = 1
  <2>1. count \in Nat /\ \A i \in 1..count : shards[i] = ends[i - 1] + 1..ends[i]
    BY <1>3, <1>7
  <2>2. GrowsTo(ends, count, lines) /\ count \in Nat
    BY <1>6, <2>1
  <2>3. \A i \in 1..count : shards[i] = ends[i - 1] + 1..ends[i]
    BY <2>1
  <2> HIDE DEF lines
  <2> QED
    BY <2>2, <2>3, OnePart
<1>9. ASSUME NEW i \in 1..count PROVE shards[i] # {} /\ Cardinality(shards[i]) \in {q, q + 1}
  <2>1. i \in 0..count /\ i - 1 \in 0..count
    BY <1>5
  <2>2. ends[i] \in Nat /\ ends[i - 1] \in Nat /\ ends[i] - ends[i - 1] \in {q, q + 1}
    BY <1>6, <2>1
  <2>3. ends[i] \in shards[i]
    BY <1>6, <1>7, <2>2
  <2>4. Cardinality(ends[i - 1] + 1..ends[i]) = IF ends[i - 1] + 1 > ends[i] THEN 0 ELSE ends[i] - (ends[i - 1] + 1) + 1
    <3>1. ends[i - 1] + 1 \in Int /\ ends[i] \in Int
      BY <2>2
    <3> QED
      BY <3>1, FS_Interval
  <2>5. Cardinality(ends[i - 1] + 1..ends[i]) = ends[i] - ends[i - 1]
    BY <1>6, <2>2, <2>4
  <2> QED
    BY <1>7, <2>2, <2>3, <2>5
<1> QED
  BY <1>6, <1>7, <1>8, <1>9 DEF Whole, lines

LEMMA EachLineGoesToOne == SliceInv => EachLineOnce
<1> SUFFICES ASSUME SliceInv, Fetched, asked.avg, CountsAgree, NEW n \in Whole
             PROVE  Cardinality({i \in DOMAIN got : n \in got[i]}) = 1
  BY DEF EachLineOnce
<1> DEFINE lines == file.lines
           T == SliceTotal
<1>1. /\ lines \in Nat \ {0} /\ file.wanted \in Nat /\ T \in Nat \ {0} /\ T = Dispatched
      /\ DOMAIN got = 1..T
  BY SliceAssumption, CountsTyped DEF SliceInv, Fetched, CountsAgree
<1>2. \A i \in 1..T : got[i] = SliceOf(i) /\ SliceStart(i) = i
  BY <1>1 DEF SliceInv, Fetched, SliceStart, Least
<1>3. Whole = 1..lines
  BY DEF Whole
<1>4. CASE shards # <<>>
  <2>1. Len(shards) = T
    BY <1>1, <1>4 DEF CountsAgree
  <2> HIDE DEF T
  <2>2. slicing # "upload" /\ DOMAIN shards = 1..T
    <3>1. slicing # "upload" /\ shards = AvgShards(file.lines, file.wanted)
      BY <1>4 DEF Fetched, SliceInv
    <3>2. shards \in Seq(SUBSET Int)
      <4> DEFINE count == ShardCount(file.lines, file.wanted)
                 ends == Ends(file.lines, count)
      <4>1. count \in Nat /\ shards = [i \in 1..count |-> ends[i - 1] + 1..ends[i]]
        BY <1>1, <3>1, ShardsAre
      <4> HIDE DEF count, ends
      <4> QED
        BY <4>1
    <3> QED
      BY <2>1, <3>1, <3>2
  <2>3. \A i \in 1..T : got[i] = shards[i]
    BY <1>1, <1>2, <1>4, <2>1 DEF SliceOf
  <2>4. {i \in DOMAIN got : n \in got[i]} = {i \in DOMAIN shards : n \in shards[i]}
    BY <1>1, <2>2, <2>3
  <2> QED
    BY <1>4, <2>2, <2>4, ShardsSound DEF ShardsMakeTheFile
<1>5. CASE shards = <<>> /\ T > 1
  <2>1. T \in 1..lines
    BY <1>1, <1>5 DEF CountsAgree
  <2> DEFINE q == lines \div T
             ends == PageEnds(lines, T)
  <2>2. \A i \in 1..T : got[i] = LineSlice(i)
    BY <1>2, <1>5 DEF SliceOf
  <2>3. q \in Nat \ {0} /\ Greatest(1, q) = q
    <3> HIDE DEF lines, T
    <3>1. lines \div T \in Nat \ {0}
      BY <1>1, <2>1, EndsGrow
    <3> HIDE DEF q
    <3>2. q \in Nat \ {0}
      BY <3>1 DEF q
    <3> QED
      BY <3>2 DEF Greatest
  <2>4. \A i \in 1..T : LineSlice(i) = IF (i - 1) * q >= lines THEN Whole
           ELSE (i - 1) * q + 1..(IF i >= T THEN lines ELSE Least(i * q, lines))
    BY <1>2, <2>3 DEF LineSlice
  <2> HIDE DEF lines, T
  <2>5. GrowsTo(ends, T, lines) /\ \A i \in 0..T : i # T => ends[i] = i * q /\ ends[i] < lines
    BY <1>1, <2>1, PageEndsGrow
  <2> HIDE DEF q, ends
  <2>6. \A i \in 1..T : got[i] = ends[i - 1] + 1..ends[i]
    <3> SUFFICES ASSUME NEW i \in 1..T PROVE got[i] = ends[i - 1] + 1..ends[i]
      OBVIOUS
    <3>1. i \in 0..T /\ i - 1 \in 0..T /\ i - 1 # T /\ i \in Nat
      BY <1>1
    <3>2. ends[i - 1] = (i - 1) * q /\ ends[i - 1] < lines /\ ends[i - 1] \in Nat
      BY <2>5, <3>1 DEF GrowsTo
    <3>3. got[i] = (i - 1) * q + 1..(IF i >= T THEN lines ELSE Least(i * q, lines))
      BY <1>1, <2>2, <2>4, <3>2
    <3>4. CASE i = T
      BY <2>5, <3>2, <3>3, <3>4, <1>1 DEF GrowsTo
    <3>5. CASE i # T
      <4>1. ends[i] = i * q /\ ends[i] < lines /\ ends[i] \in Nat
        BY <2>5, <3>1, <3>5 DEF GrowsTo
      <4>2. Least(i * q, lines) = ends[i] /\ ~(i >= T)
        BY <1>1, <3>5, <4>1 DEF Least
      <4> QED
        BY <3>2, <3>3, <4>2
    <3> QED
      BY <3>4, <3>5
  <2>7. \A k \in 1..lines : Cardinality({i \in 1..T : k \in got[i]}) = 1
    <3>1. T \in Nat
      BY <1>1
    <3> QED
      BY <3>1, <2>5, <2>6, OnePart
  <2> QED
    BY <1>1, <1>3, <2>7
<1>6. CASE shards = <<>> /\ ~(T > 1)
  <2>1. T = 1
    BY <1>1, <1>6
  <2>2. got[1] = Whole
    BY <1>2, <1>6, <2>1 DEF SliceOf
  <2>3. {i \in DOMAIN got : n \in got[i]} = {1}
    BY <1>1, <2>1, <2>2
  <2> QED
    BY <2>3, FS_Singleton
<1> QED
  BY <1>4, <1>5, <1>6

LEMMA ReadAlike == SliceInv => ReadingsAgree
<1> SUFFICES ASSUME SliceInv, slicing = "fetch", Number(asked.run) > 0
             PROVE  Requested = Dispatched /\ Counted = Dispatched /\ Len(got) <= Idle
  BY DEF ReadingsAgree
<1>1. Number(asked.run) = asked.run.n
  BY DEF Number
<1>2. Requested = Dispatched /\ Counted = Dispatched /\ Dispatched \in Nat
  BY <1>1, CountsTyped DEF SliceInv
<1>3. DOMAIN got = 1..Dispatched /\ Dispatched <= Idle
  BY DEF SliceInv
<1>4. Len(got) = Dispatched
  BY <1>2, <1>3
<1> QED
  BY <1>2, <1>3, <1>4

LEMMA SlicesTyped == SliceInv => SliceTypeOK
<1> SUFFICES ASSUME SliceInv PROVE SliceTypeOK
  OBVIOUS
<1> DEFINE lines == file.lines
<1>1. /\ lines \in 0..MaxLines /\ lines \in Nat /\ file.wanted \in Nat
      /\ slicing \in {"upload", "create", "dispatch", "fetch", "refused"}
  BY SliceAssumption DEF SliceInv
<1>2. \A i \in DOMAIN shards : shards[i] \subseteq 1..lines
  <2>1. CASE shards = <<>>
    BY <2>1
  <2>2. CASE shards # <<>>
    <3> DEFINE count == ShardCount(lines, file.wanted)
               ends == Ends(lines, count)
    <3>1. shards = AvgShards(lines, file.wanted)
      BY <2>2 DEF SliceInv
    <3> HIDE DEF lines
    <3>2. /\ count \in Nat /\ (lines = 0 => count = 0) /\ (lines > 0 => count \in 1..lines)
          /\ shards = [i \in 1..count |-> ends[i - 1] + 1..ends[i]]
      BY <1>1, <3>1, ShardsAre
    <3> HIDE DEF count
    <3>3. CASE lines = 0
      <4>1. DOMAIN shards = {}
        BY <3>2, <3>3
      <4> QED
        BY <4>1
    <3>4. CASE lines # 0
      <4>1. count \in 1..lines
        BY <1>1, <3>2, <3>4
      <4>2. /\ ends \in [0..count -> Nat] /\ ends[count] = lines
            /\ \A i, j \in 0..count : i <= j => ends[i] <= ends[j]
        BY <1>1, <4>1, EndsGrow DEF GrowsTo
      <4> HIDE DEF ends
      <4>3. ASSUME NEW i \in 1..count PROVE ends[i - 1] + 1..ends[i] \subseteq 1..lines
        <5>1. i \in 0..count /\ i - 1 \in 0..count /\ count \in 0..count /\ i <= count
          BY <4>1
        <5>2. ends[i] <= ends[count] /\ ends[i] \in Nat /\ ends[i - 1] \in Nat
          BY <4>2, <5>1
        <5> QED
          BY <1>1, <4>2, <5>2
      <4> QED
        BY <3>2, <4>3
    <3> QED
      BY <3>3, <3>4
  <2> QED
    BY <2>1, <2>2
<1>3. ASSUME NEW i \in DOMAIN got PROVE got[i] \subseteq 0..lines
  <2>1. slicing = "fetch" /\ DOMAIN got = 1..Dispatched /\ Dispatched \in Nat
    <3>1. DOMAIN <<>> = {}
      OBVIOUS
    <3> QED
      BY <1>3, <3>1, CountsTyped DEF SliceInv
  <2>2. got[i] \in {{}, SliceOf(i)} /\ i \in Nat \ {0}
    BY <1>3, <2>1 DEF SliceInv
  <2>3. SliceTotal \in Nat \ {0} /\ SliceStart(i) \in Nat \ {0}
    BY <2>2, CountsTyped DEF SliceInv, SliceStart, Least
  <2>4. Whole \subseteq 0..lines /\ Refusal \subseteq 0..lines
    BY <1>1 DEF Whole, Refusal
  <2>5. ASSUME SliceStart(i) <= Len(shards), shards # <<>> PROVE shards[SliceStart(i)] \subseteq 0..lines
    <3>1. shards = AvgShards(lines, file.wanted)
      BY <2>5 DEF SliceInv
    <3>2. shards \in Seq(SUBSET Int)
      <4> DEFINE count == ShardCount(lines, file.wanted)
                 ends == Ends(lines, count)
      <4>1. count \in Nat /\ shards = [k \in 1..count |-> ends[k - 1] + 1..ends[k]]
        BY <1>1, <3>1, ShardsAre
      <4> HIDE DEF count, ends
      <4> QED
        BY <4>1
    <3>3. SliceStart(i) \in DOMAIN shards
      BY <2>3, <2>5, <3>2
    <3>4. shards[SliceStart(i)] \subseteq 1..lines
      BY <1>2, <3>3
    <3> QED
      BY <1>1, <3>4
  <2>6. LineSlice(i) \subseteq 0..lines
    <3> DEFINE size == Greatest(1, lines \div SliceTotal)
               s == SliceStart(i)
    <3>1. lines \div SliceTotal \in Nat
      BY <1>1, <2>3, Division
    <3>2. size \in Nat
      BY <3>1 DEF Greatest
    <3>3. LineSlice(i) = IF (s - 1) * size >= lines THEN Whole
             ELSE (s - 1) * size + 1..(IF s >= SliceTotal THEN lines ELSE Least(s * size, lines))
      BY DEF LineSlice
    <3>4. s - 1 \in Nat /\ s \in Nat
      BY <2>3
    <3> HIDE DEF s, size
    <3>5. (s - 1) * size \in Nat /\ s * size \in Nat
      BY <3>2, <3>4, Product
    <3> DEFINE end == IF s >= SliceTotal THEN lines ELSE Least(s * size, lines)
    <3>6. end \in Nat /\ end <= lines
      BY <1>1, <3>5 DEF Least
    <3> HIDE DEF lines, end
    <3>7. (s - 1) * size + 1..end \subseteq 0..lines
      BY <1>1, <3>5, <3>6
    <3> QED
      BY <2>4, <3>3, <3>7 DEF end, lines
  <2> QED
    BY <2>2, <2>4, <2>5, <2>6 DEF SliceOf
<1> QED
  BY <1>1, <1>2, <1>3 DEF SliceTypeOK

-----------------------------------------------------------------------------
(* The load of a run, in shares *)

LEMMA TotalIsSum == \A f : Total(f) = SumFunctionOnSet(f, DOMAIN f)
  BY DEF Total, SumFunction

\* The total of counts.
LEMMA TotalIsACount ==
    ASSUME NEW n \in Nat, NEW f \in [1..n -> Nat]
    PROVE  /\ Total(f) \in Nat /\ Total(f) = SumFunctionOnSet(f, 1..n)
           /\ \A i \in 1..n : f[i] <= Total(f)
<1>1. IsFiniteSet(1..n)
  BY FS_Interval
<1>2. Natural(f, 1..n) /\ DOMAIN f = 1..n
  BY DEF Natural
<1> QED
  BY <1>1, <1>2, SumNat, TotalIsSum

LEMMA SmallerFactor ==
    ASSUME NEW a \in Nat, NEW b \in Nat, NEW k \in Nat \ {0}, a * k <= b * k
    PROVE  a <= b
<1> SUFFICES ASSUME b + 1 <= a PROVE FALSE
  OBVIOUS
<1>1. (b + 1) * k <= a * k /\ a * k \in Nat
  BY ProductsGrow
<1>2. (b + 1) * k = b * k + k /\ b * k \in Nat
  BY NextProduct, Product
<1> QED
  BY <1>1, <1>2

\* What the largest remainders get is no more than the division leaves.
LEMMA ScaleFits ==
    ASSUME NEW n \in Nat, NEW v \in [1..n -> Nat], Total(v) # 0, NEW t \in Nat
    PROVE  /\ Scale(v, t) \in [1..n -> Nat] /\ Total(Scale(v, t)) <= t
           /\ \A i \in 1..n : (v[i] * t) \div Total(v) <= Scale(v, t)[i]
<1> DEFINE sum == Total(v)
           floor == [i \in 1..n |-> (v[i] * t) \div sum]
           rest == [i \in 1..n |-> (v[i] * t) % sum]
           Ahead(j, i) ==
               \/ rest[j] > rest[i]
               \/ rest[j] = rest[i] /\ v[j] > v[i]
               \/ rest[j] = rest[i] /\ v[j] = v[i] /\ j < i
           ahead == [i \in 1..n |-> {j \in 1..n : Ahead(j, i)}]
           k == t - Total(floor)
           first == {i \in 1..n : Cardinality(ahead[i]) < k}
           extra == [i \in 1..n |-> IF i \in first THEN 1 ELSE 0]
           all == [i \in 1..n |-> floor[i] + extra[i]]
<1>1. Scale(v, t) = all
  BY DEF Scale
<1>2. IsFiniteSet(1..n)
  BY FS_Interval
<1>3. sum \in Nat \ {0} /\ sum = SumFunctionOnSet(v, 1..n)
  BY TotalIsACount
<1> HIDE DEF sum
<1>4. ASSUME NEW i \in 1..n
      PROVE  /\ floor[i] \in Nat /\ rest[i] \in Nat /\ floor[i] * sum <= v[i] * t
             /\ floor[i] * sum \in Nat /\ v[i] * t \in Nat
  <2>1. v[i] * t \in Nat
    BY Product
  <2> DEFINE m == v[i] * t
             q == m \div sum
             r == m % sum
  <2> HIDE DEF m
  <2>2. q \in Nat /\ r \in 0..sum - 1 /\ m = sum * q + r
    BY <1>3, <2>1, Division DEF m
  <2>3. floor[i] = q /\ rest[i] = r
    BY DEF m
  <2> HIDE DEF q, r
  <2>4. q * sum \in Nat /\ q * sum = sum * q
    BY <1>3, <2>2
  <2>5. floor[i] \in Nat /\ rest[i] \in Nat /\ floor[i] * sum <= m /\ floor[i] * sum \in Nat /\ m \in Nat
    <3>1. m \in Nat
      BY <2>1 DEF m
    <3>2. q * sum <= m
      BY <2>2, <2>4, <3>1
    <3> QED
      BY <2>2, <2>3, <2>4, <3>1, <3>2
  <2> QED
    BY <2>5 DEF m
<1>5. floor \in [1..n -> Nat] /\ rest \in [1..n -> Nat]
  BY <1>4
<1> HIDE DEF floor, rest
<1>6. Total(floor) \in Nat /\ Total(floor) = SumFunctionOnSet(floor, 1..n)
  BY <1>5, TotalIsACount
<1>7. Total(floor) <= t
  <2> DEFINE f == [i \in 1..n |-> floor[i] * sum]
             g == [i \in 1..n |-> v[i] * t]
  <2>1. Counts(f, 1..n) /\ Counts(g, 1..n) /\ \A i \in 1..n : f[i] <= g[i]
    BY <1>4 DEF Counts
  <2>2. Counts(floor, 1..n) /\ Counts(v, 1..n)
    BY <1>5 DEF Counts
  <2>3. (\A i \in 1..n : f[i] = floor[i] * sum) /\ \A i \in 1..n : g[i] = v[i] * t
    OBVIOUS
  <2> HIDE DEF f, g
  <2>4. SumFunctionOnSet(f, 1..n) = Total(floor) * sum
    <3>1. sum \in Int /\ \A i \in 1..n : f[i] = floor[i] * sum
      BY <1>3, <2>3
    <3>2. SumFunctionOnSet(f, 1..n) = SumFunctionOnSet(floor, 1..n) * sum
      BY <1>2, <2>2, <3>1, SumOfProducts
    <3> QED
      BY <1>6, <3>2
  <2>5. SumFunctionOnSet(g, 1..n) = sum * t
    <3> DEFINE w == v
               u == t
    <3>1. u \in Int /\ Counts(w, 1..n) /\ \A i \in 1..n : g[i] = w[i] * u
      BY <2>2, <2>3
    <3>2. sum = SumFunctionOnSet(w, 1..n)
      BY <1>3
    <3> HIDE DEF w, u
    <3>3. SumFunctionOnSet(g, 1..n) = SumFunctionOnSet(w, 1..n) * u
      BY <1>2, <3>1, SumOfProducts
    <3> QED
      BY <3>2, <3>3 DEF u
  <2>6. SumFunctionOnSet(f, 1..n) <= SumFunctionOnSet(g, 1..n)
    BY <1>2, <2>1, SumMonotone
  <2>7. sum * t = t * sum
    BY <1>3
  <2> QED
    BY <1>3, <1>6, <2>4, <2>5, <2>6, <2>7, SmallerFactor
<1>8. k \in Nat
  BY <1>6, <1>7
<1> HIDE DEF k
<1>9. IsFiniteSet(first) /\ Cardinality(first) \in Nat /\ Cardinality(first) <= k
  <2>1. \A i, j \in 1..n : j \in ahead[i] <=> Ahead(j, i)
    OBVIOUS
  <2>2. ahead \in [1..n -> SUBSET (1..n)]
    OBVIOUS
  <2>3. \A i \in 1..n : rest[i] \in Nat /\ v[i] \in Nat /\ i \in Nat
    BY <1>5
  <2>4. \A i \in 1..n : i \notin ahead[i]
    BY <2>1, <2>3
  <2>5. \A i, j \in 1..n : i = j \/ i \in ahead[j] \/ j \in ahead[i]
    BY <2>1, <2>3
  <2>6. ASSUME NEW i \in 1..n, NEW j \in 1..n, j \in ahead[i] PROVE ahead[j] \subseteq ahead[i]
    <3> SUFFICES ASSUME NEW l \in ahead[j] PROVE l \in ahead[i]
      OBVIOUS
    <3>1. l \in 1..n /\ Ahead(l, j) /\ Ahead(j, i)
      BY <2>1, <2>6
    <3>2. Ahead(l, i)
      <4>1. /\ rest[i] \in Nat /\ v[i] \in Nat /\ rest[j] \in Nat /\ v[j] \in Nat
            /\ rest[l] \in Nat /\ v[l] \in Nat /\ i \in Nat /\ j \in Nat /\ l \in Nat
        BY <2>3, <3>1
      <4> QED
        BY <3>1, <4>1
    <3> QED
      BY <2>1, <3>1, <3>2
  <2>7. \A i, j \in 1..n : j \in ahead[i] => ahead[j] \subseteq ahead[i]
    BY <2>6
  <2> HIDE DEF ahead
  <2>8. InLine(1..n, ahead)
    BY <2>2, <2>4, <2>5, <2>7 DEF InLine
  <2>9. first = Foremost(1..n, ahead, k)
    BY DEF Foremost
  <2> HIDE DEF first
  <2> QED
    BY <1>2, <1>8, <2>8, <2>9, FirstOfALine
<1> HIDE DEF first
<1>10. first \in SUBSET (1..n)
  BY DEF first
<1>11. extra \in [1..n -> Nat] /\ \A i \in 1..n : extra[i] = IF i \in first THEN 1 ELSE 0
  OBVIOUS
<1> HIDE DEF extra
<1>12. SumFunctionOnSet(extra, 1..n) = Cardinality(first)
  <2>1. Counts(extra, 1..n) /\ \A i \in (1..n) \ first : extra[i] = 0
    BY <1>11 DEF Counts
  <2>2. SumFunctionOnSet(extra, 1..n) = SumFunctionOnSet(extra, first)
    BY <1>2, <1>10, <2>1, SumSupport
  <2>3. \A i \in first : extra[i] = 1
    BY <1>10, <1>11
  <2>4. SumFunctionOnSet(extra, first) = Cardinality(first)
    BY <1>9, <2>3, SumOfOnes
  <2> QED
    BY <2>2, <2>4
<1>13. all \in [1..n -> Nat] /\ \A i \in 1..n : all[i] = floor[i] + extra[i] /\ floor[i] <= all[i]
  <2>1. ASSUME NEW i \in 1..n
        PROVE  floor[i] + extra[i] \in Nat /\ floor[i] <= floor[i] + extra[i]
    <3>1. floor[i] \in Nat /\ extra[i] \in Nat
      BY <1>5, <1>11
    <3> QED
      BY <3>1
  <2>2. \A i \in 1..n : all[i] = floor[i] + extra[i]
    OBVIOUS
  <2>3. all = [i \in 1..n |-> all[i]]
    OBVIOUS
  <2> HIDE DEF all
  <2>4. \A i \in 1..n : all[i] \in Nat /\ floor[i] <= all[i]
    BY <2>1, <2>2
  <2>5. all \in [1..n -> Nat]
    BY <2>3, <2>4
  <2> QED
    BY <2>2, <2>4, <2>5
<1> HIDE DEF all
<1>14. Total(all) = Total(floor) + Cardinality(first)
  <2>1. Counts(floor, 1..n) /\ Counts(extra, 1..n)
    BY <1>5, <1>11 DEF Counts
  <2>2. SumFunctionOnSet(all, 1..n) = SumFunctionOnSet(floor, 1..n) + SumFunctionOnSet(extra, 1..n)
    BY <1>2, <1>13, <2>1, SumPlus
  <2> QED
    BY <1>6, <1>12, <1>13, <2>2, TotalIsACount
<1>15. Total(all) <= t
  BY <1>6, <1>8, <1>9, <1>14 DEF k
<1> QED
  BY <1>1, <1>13, <1>15 DEF floor, sum

\* An allocation: within the target, and at least the minimum if there is room for it.
LEMMA AllocateFits ==
    ASSUME NEW n \in Nat, NEW v \in [1..n -> Nat], NEW b \in [1..n -> Nat], Total(b) # 0,
           \A i \in 1..n : b[i] <= v[i], NEW t \in Nat
    PROVE  /\ Allocate(v, t, b) \in [1..n -> Nat] /\ Total(Allocate(v, t, b)) <= t
           /\ Total(b) < t => \A i \in 1..n : b[i] <= Allocate(v, t, b)[i]
           /\ Total(b) >= t => \A i \in 1..n : (b[i] * t) \div Total(b) <= Allocate(v, t, b)[i]
<1>0. IsFiniteSet(1..n)
  BY FS_Interval
<1>1. /\ Total(b) \in Nat /\ Total(v) \in Nat
      /\ Total(b) = SumFunctionOnSet(b, 1..n) /\ Total(v) = SumFunctionOnSet(v, 1..n)
  BY TotalIsACount
<1>2. CASE Total(b) >= t
  <2>1. Allocate(v, t, b) = Scale(b, t)
    BY <1>2 DEF Allocate
  <2>2. /\ Scale(b, t) \in [1..n -> Nat] /\ Total(Scale(b, t)) <= t
        /\ \A i \in 1..n : (b[i] * t) \div Total(b) <= Scale(b, t)[i]
    BY ScaleFits
  <2> QED
    BY <1>1, <1>2, <2>1, <2>2
<1>3. CASE ~(Total(b) >= t) /\ Total(v) <= t
  <2>1. Allocate(v, t, b) = v
    BY <1>3 DEF Allocate
  <2> QED
    BY <1>3, <2>1
<1>4. CASE ~(Total(b) >= t) /\ ~(Total(v) <= t)
  <2> DEFINE extras == [i \in 1..n |-> Large(0, v[i] - b[i])]
             rest == t - Total(b)
             scaled == Scale(extras, rest)
             all == [i \in 1..n |-> b[i] + scaled[i]]
  <2>1. Allocate(v, t, b) = all
    <3>1. DOMAIN v = 1..n
      OBVIOUS
    <3> QED
      BY <1>4, <3>1 DEF Allocate
  <2>2. extras \in [1..n -> Nat] /\ \A i \in 1..n : v[i] = extras[i] + b[i]
    BY DEF Large
  <2> HIDE DEF extras
  <2>3. Total(v) = Total(extras) + Total(b) /\ Total(extras) \in Nat
    <3>1. Counts(extras, 1..n) /\ Counts(b, 1..n)
      BY <2>2 DEF Counts
    <3>2. SumFunctionOnSet(v, 1..n) = SumFunctionOnSet(extras, 1..n) + SumFunctionOnSet(b, 1..n)
      BY <1>0, <2>2, <3>1, SumPlus
    <3>3. Total(extras) = SumFunctionOnSet(extras, 1..n) /\ Total(extras) \in Nat
      BY <2>2, TotalIsACount
    <3> QED
      BY <1>1, <3>2, <3>3
  <2>4. rest \in Nat /\ Total(extras) # 0
    BY <1>1, <1>4, <2>3
  <2>5. rest + Total(b) = t
    BY <1>1
  <2> HIDE DEF rest
  <2>6. scaled \in [1..n -> Nat] /\ Total(scaled) <= rest
    BY <2>2, <2>4, ScaleFits
  <2> HIDE DEF scaled
  <2>7. all \in [1..n -> Nat] /\ \A i \in 1..n : all[i] = b[i] + scaled[i] /\ b[i] <= all[i]
    BY <2>6
  <2> HIDE DEF all
  <2>8. Total(all) = Total(b) + Total(scaled) /\ Total(scaled) \in Nat
    <3>1. Counts(scaled, 1..n) /\ Counts(b, 1..n)
      BY <2>6 DEF Counts
    <3>2. SumFunctionOnSet(all, 1..n) = SumFunctionOnSet(b, 1..n) + SumFunctionOnSet(scaled, 1..n)
      BY <1>0, <2>7, <3>1, SumPlus
    <3>3. /\ Total(scaled) = SumFunctionOnSet(scaled, 1..n) /\ Total(scaled) \in Nat
          /\ Total(all) = SumFunctionOnSet(all, 1..n)
      BY <2>6, <2>7, TotalIsACount
    <3> QED
      BY <1>1, <3>2, <3>3
  <2>9. Total(all) <= t
    BY <1>1, <2>4, <2>5, <2>6, <2>8
  <2> QED
    BY <1>1, <1>4, <2>1, <2>7, <2>9
<1> QED
  BY <1>2, <1>3, <1>4

\* What is rounded up covers what was divided.
LEMMA CeilCovers ==
    ASSUME NEW a \in Nat, NEW b \in Nat \ {0}
    PROVE  /\ Ceil(a, b) \in Nat /\ b * Ceil(a, b) >= a
           /\ a > 0 => Ceil(a, b) >= 1
<1> DEFINE m == a + b - 1
           q == m \div b
           r == m % b
<1>1. m \in Nat
  OBVIOUS
<1>2. m = a + b - 1
  OBVIOUS
<1> HIDE DEF m
<1>3. q \in Nat /\ r \in 0..b - 1 /\ m = b * q + r
  BY <1>1, Division
<1>4. Ceil(a, b) = q
  BY DEF Ceil, m
<1> HIDE DEF q, r
<1>5. b * q \in Nat
  BY <1>3, Product
<1>6. b * q >= a
  BY <1>2, <1>3, <1>5
<1>7. q = 0 => b * q = 0
  BY <1>3
<1> QED
  BY <1>3, <1>4, <1>5, <1>6, <1>7

\* What a run may ask of its agents.
LoadRequests ==
    [engine : {"k6", "jmeter"}, target : Targets, agents : 1..MaxAgents,
     threads : Threads, mix : Mixes, uniform : BOOLEAN, influx : BOOLEAN, duration : {1, 10}]
LEMMA LoadTyped ==
    ASSUME NEW l \in LoadRequests
    PROVE  /\ l.target \in Nat \ {0} /\ l.agents \in Nat \ {0} /\ l.threads \in Nat \ {0}
           /\ l.mix \in Seq(Nat \ {0}) /\ Len(l.mix) \in Nat \ {0} /\ Len(l.mix) <= HardCapVus
           /\ l.mix \in [1..Len(l.mix) -> Nat] /\ DOMAIN l.mix = 1..Len(l.mix)
           /\ \A i \in 1..Len(l.mix) : l.mix[i] \in Nat \ {0}
           /\ Total(l.mix) \in Nat \ {0} /\ l.duration \in Nat /\ l.uniform \in BOOLEAN
<1>1. l.target \in Nat \ {0} /\ l.agents \in Nat \ {0} /\ l.threads \in Nat \ {0}
  <2>1. l.target \in Targets /\ l.agents \in 1..MaxAgents /\ l.threads \in Threads
    BY DEF LoadRequests
  <2>2. Targets \subseteq Nat \ {0} /\ MaxAgents \in Nat /\ Threads \subseteq Nat \ {0}
    BY LoadAssumption
  <2>3. l.agents \in Nat \ {0}
    BY <2>1, <2>2
  <2>4. l.target \in Nat \ {0} /\ l.threads \in Nat \ {0}
    BY <2>1, <2>2, Zenon
  <2> QED
    BY <2>3, <2>4
<1>2. l.mix \in Seq(Nat \ {0}) /\ Len(l.mix) \in 1..HardCapVus
  BY LoadAssumption DEF LoadRequests
<1> DEFINE n == Len(l.mix)
<1>3. n \in Nat \ {0} /\ n <= HardCapVus
  <2>1. n \in 1..HardCapVus
    BY <1>2
  <2> HIDE DEF n
  <2> QED
    BY <2>1 DEF HardCapVus
<1>4. l.mix \in [1..n -> Nat] /\ DOMAIN l.mix = 1..n /\ \A i \in 1..n : l.mix[i] \in Nat \ {0}
  BY <1>2
<1> HIDE DEF n
<1>5. Total(l.mix) \in Nat \ {0}
  <2>1. Total(l.mix) \in Nat /\ \A i \in 1..n : l.mix[i] <= Total(l.mix)
    BY <1>3, <1>4, TotalIsACount
  <2>2. 1 \in 1..n
    BY <1>3
  <2>3. l.mix[1] \in Nat \ {0} /\ l.mix[1] <= Total(l.mix)
    BY <1>4, <2>1, <2>2
  <2> QED
    BY <2>1, <2>3
<1>6. l.duration \in Nat /\ l.uniform \in BOOLEAN
  BY DEF LoadRequests
<1> QED
  BY <1>1, <1>2, <1>3, <1>4, <1>5, <1>6 DEF n

\* The scenarios' rates, all over the same unit, are the parts of the target exactly.
LEMMA RatesExact ==
    ASSUME NEW l \in LoadRequests
    PROVE  /\ Rates(l).unit \in Nat \ {0} /\ Rates(l).rate \in [1..Len(l.mix) -> Nat]
           /\ \A s \in 1..Len(l.mix) :
                 Rates(l).rate[s] * l.agents * Total(l.mix) = l.target * l.mix[s] * Rates(l).unit
<1> DEFINE n == Len(l.mix)
           parts == Total(l.mix) * l.agents
           shares == [i \in DOMAIN l.mix |-> l.mix[i] * l.target]
           Divides(d) == parts % d = 0 /\ \A i \in DOMAIN shares : shares[i] % d = 0
           d == CHOOSE d \in 1..parts : Divides(d) /\ \A e \in d + 1..parts : ~Divides(e)
<1>1. /\ l.target \in Nat \ {0} /\ l.agents \in Nat \ {0} /\ Total(l.mix) \in Nat \ {0} /\ n \in Nat
      /\ DOMAIN l.mix = 1..n /\ \A i \in 1..n : l.mix[i] \in Nat
  BY LoadTyped
<1>2. Rates(l).unit = parts \div d /\ Rates(l).rate = [i \in DOMAIN l.mix |-> shares[i] \div d]
  BY DEF Rates, Each
<1>3. parts \in Nat \ {0}
  <2>1. parts \in Nat /\ parts >= l.agents
    BY <1>1, NoLessThanOnce
  <2> QED
    BY <1>1, <2>1
<1>4. DOMAIN shares = 1..n /\ \A i \in 1..n : shares[i] = l.mix[i] * l.target /\ shares[i] \in Nat
  BY <1>1, Product
<1>5. d \in 1..parts /\ Divides(d)
  <2> DEFINE D == {e \in 1..parts : Divides(e)}
  <2> HIDE DEF parts, shares
  <2>1. 1 \in D
    BY <1>3, <1>4
  <2>2. D \in SUBSET Int /\ IsFiniteSet(D)
    <3>1. IsFiniteSet(1..parts)
      BY <1>3, FS_Interval
    <3>2. D \in SUBSET (1..parts)
      OBVIOUS
    <3> HIDE DEF D
    <3>3. IsFiniteSet(D)
      BY <3>1, <3>2, FS_Subset
    <3> QED
      BY <1>3, <3>2, <3>3
  <2> HIDE DEF Divides
  <2>3. \E e \in D : \A f \in D : f <= e
    <3> HIDE DEF D
    <3> QED
      BY <2>1, <2>2, HasGreatest
  <2>4. \E e \in 1..parts : Divides(e) /\ \A f \in e + 1..parts : ~Divides(f)
    <3>1. PICK e \in D : \A f \in D : f <= e
      BY <2>3
    <3>2. \A f \in e + 1..parts : f \in 1..parts /\ ~(f <= e)
      BY <1>3, <3>1
    <3> QED
      BY <3>1, <3>2
  <2> QED
    BY <2>4
<1> HIDE DEF d, parts, shares
<1>6. parts % d = 0 /\ \A i \in 1..n : shares[i] % d = 0
  BY <1>4, <1>5
<1> HIDE DEF Divides
<1>7. d \in Nat \ {0}
  BY <1>3, <1>5
<1> DEFINE u == parts \div d
<1>8. u \in Nat \ {0} /\ parts = d * u
  <2>1. u \in Nat /\ parts = d * u + (parts % d)
    BY <1>3, <1>7, Division
  <2> HIDE DEF u
  <2>2. d * u \in Nat
    BY <1>7, <2>1, Product
  <2>3. parts = d * u
    BY <1>6, <2>1, <2>2
  <2>4. u = 0 => d * u = 0
    BY <1>7
  <2> QED
    BY <1>3, <2>1, <2>3, <2>4
<1>9. Rates(l).unit = u
  BY <1>2
<1> HIDE DEF u
<1>10. ASSUME NEW s \in 1..n
       PROVE  /\ Rates(l).rate[s] \in Nat
              /\ Rates(l).rate[s] * l.agents * Total(l.mix) = l.target * l.mix[s] * u
  <2> DEFINE r == shares[s] \div d
             k == shares[s]
             T == Total(l.mix)
             a == l.agents
             t == l.target
             w == l.mix[s]
  <2>1. Rates(l).rate[s] = r
    BY <1>1, <1>2
  <2>2. k \in Nat /\ k % d = 0 /\ k = w * t
    BY <1>4, <1>6
  <2>3. r \in Nat /\ k = d * r + (k % d)
    BY <1>7, <2>2, Division
  <2>4. parts = T * a /\ T \in Nat /\ a \in Nat /\ t \in Nat /\ w \in Nat
    BY <1>1 DEF parts
  <2> HIDE DEF r, k, T, a, t, w
  <2>5. d * r \in Nat
    BY <1>7, <2>3, Product
  <2>6. w * t = d * r
    BY <2>2, <2>3, <2>5
  <2>7. T * a = d * u
    BY <1>8, <2>4
  <2>8. r * a * T = r * (T * a) /\ t * w * u = (w * t) * u
    BY <1>8, <2>3, <2>4
  <2>9. r * (d * u) = (d * r) * u
    BY <1>7, <1>8, <2>3
  <2>10. r * a * T = t * w * u
    BY <2>6, <2>7, <2>8, <2>9
  <2> QED
    BY <2>1, <2>3, <2>10 DEF T, a, t, w
<1>11. Rates(l).rate \in [1..n -> Nat]
  <2>1. Rates(l).rate = [i \in 1..n |-> Rates(l).rate[i]]
    BY <1>1, <1>2
  <2> QED
    BY <1>10, <2>1
<1> QED
  BY <1>8, <1>9, <1>10, <1>11

LEMMA CapsAre == HardCapVus = 400 /\ BaselineVus = 200 /\ MinMaxVus = 200 /\ MaxVusCap = 800 /\ QpsPerVu = 5
  BY DEF HardCapVus, BaselineVus, MinMaxVus, MaxVusCap, QpsPerVu

\* What the allocation starts from.
LEMMA RequestsTyped ==
    ASSUME NEW l \in LoadRequests
    PROVE  LET n == Len(l.mix)
               floors == [i \in 1..n |-> Floor(l)]
           IN /\ Floor(l) \in Nat \ {0} /\ Asked(l) \in [1..n -> Nat]
              /\ \A i \in 1..n : Floor(l) <= Asked(l)[i]
              /\ floors \in [1..n -> Nat] /\ Total(floors) = n * Floor(l)
              /\ n * Floor(l) \in Nat \ {0}
              /\ PreAllocated(l) = Allocate(Asked(l), Budget(l), floors)
              /\ Budget(l) \in Nat \ {0} /\ Budget(l) <= HardCapVus
              /\ n * Floor(l) <= HardCapVus => n * Floor(l) <= Budget(l)
              /\ n * Floor(l) > HardCapVus => Budget(l) = HardCapVus
<1> DEFINE n == Len(l.mix)
           F == Floor(l)
           floors == [i \in 1..n |-> F]
<1>1. /\ l.target \in Nat /\ l.agents \in Nat \ {0} /\ l.threads \in Nat \ {0} /\ n \in Nat \ {0}
      /\ DOMAIN l.mix = 1..n /\ l.uniform \in BOOLEAN
  BY LoadTyped
<1> HIDE DEF n
<1>2. F \in Nat \ {0}
  <2>1. Ceil(l.threads, n) \in Nat \ {0}
    <3> DEFINE a == l.threads
    <3>1. a \in Nat /\ a > 0
      BY <1>1
    <3> HIDE DEF a
    <3>2. Ceil(a, n) \in Nat /\ Ceil(a, n) >= 1
      BY <1>1, <3>1, CeilCovers
    <3> QED
      BY <3>2 DEF a
  <2> QED
    BY <1>1, <2>1 DEF Floor, n
<1> HIDE DEF F
<1>3. Asked(l) \in [1..n -> Nat] /\ \A i \in 1..n : F <= Asked(l)[i]
  <2>1. CASE l.uniform
    <3>1. l.agents * n \in Nat \ {0}
      BY <1>1, NoLessThanOnce
    <3>2. Ceil(l.target, l.agents * n) \in Nat
      BY <1>1, <3>1, CeilCovers
    <3>3. Asked(l) = [i \in 1..n |-> Large(l.threads, Ceil(l.target, l.agents * n))] /\ F = l.threads
      BY <1>1, <2>1 DEF Asked, Each, F, Floor, n
    <3> QED
      BY <1>1, <3>2, <3>3 DEF Large
  <2>2. CASE ~l.uniform
    <3>1. Rates(l).unit \in Nat \ {0} /\ Rates(l).rate \in [1..n -> Nat]
      BY RatesExact DEF n
    <3>2. Asked(l) = [i \in 1..n |-> Large(F, Ceil(Rates(l).rate[i], Rates(l).unit))]
      BY <2>2, <3>1 DEF Asked, Each, F
    <3>3. \A i \in 1..n : Ceil(Rates(l).rate[i], Rates(l).unit) \in Nat
      BY <3>1, CeilCovers
    <3> QED
      BY <1>2, <3>2, <3>3 DEF Large
  <2> QED
    BY <2>1, <2>2
<1>4. floors \in [1..n -> Nat] /\ Total(floors) = n * F
  <2>1. IsFiniteSet(1..n) /\ Cardinality(1..n) = n
    BY <1>1, FS_Interval
  <2>2. floors \in [1..n -> Nat] /\ F \in Int /\ \A i \in 1..n : floors[i] = F
    BY <1>2
  <2> HIDE DEF floors
  <2>3. SumFunctionOnSet(floors, 1..n) = Cardinality(1..n) * F
    BY <2>1, <2>2, SumOfSame
  <2> QED
    BY <1>1, <2>1, <2>2, <2>3, TotalIsACount
<1>5. n * F \in Nat \ {0}
  <2>1. n * F \in Nat /\ F <= n * F
    BY <1>1, <1>2, NoLessThanOnce, Product
  <2> QED
    BY <1>2, <2>1
<1>6. PreAllocated(l) = Allocate(Asked(l), Budget(l), floors)
  BY <1>1 DEF PreAllocated, Each, F
<1>7. /\ Budget(l) \in Nat \ {0} /\ Budget(l) <= HardCapVus
      /\ n * F <= HardCapVus => n * F <= Budget(l)
      /\ n * F > HardCapVus => Budget(l) = HardCapVus
  <2> DEFINE c == Ceil(l.target, l.agents * QpsPerVu)
             m == n * F
  <2>1. l.agents * QpsPerVu \in Nat \ {0}
    BY <1>1, CapsAre
  <2>2. c \in Nat
    BY <1>1, <2>1, CeilCovers
  <2>3. Budget(l) = Small(HardCapVus, Large(m, Large(BaselineVus, c)))
    BY DEF Budget, F, n
  <2>4. m \in Nat
    BY <1>5
  <2> HIDE DEF c, m
  <2>5. /\ Budget(l) \in Nat \ {0} /\ Budget(l) <= HardCapVus
        /\ m <= HardCapVus => m <= Budget(l)
        /\ m > HardCapVus => Budget(l) = HardCapVus
    BY <2>2, <2>3, <2>4, CapsAre DEF Small, Large
  <2> QED
    BY <2>5 DEF m
<1> QED
  BY <1>2, <1>3, <1>4, <1>5, <1>6, <1>7 DEF n, F

LEMMA ExactQuotient == ASSUME NEW a \in Nat, NEW d \in Nat \ {0} PROVE (a * d) \div d = a
<1> DEFINE m == a * d
           q == m \div d
           r == m % d
<1>1. m \in Nat
  BY Product
<1>2. q \in Nat /\ r \in 0..d - 1 /\ m = d * q + r
  BY <1>1, Division
<1>3. m = d * a
  OBVIOUS
<1> HIDE DEF m, q, r
<1>4. ASSUME q < a PROVE FALSE
  <2>1. d * q + d <= d * a
    BY <1>2, <1>4, Multiples
  <2>2. d * q \in Nat
    BY <1>2, Product
  <2> QED
    BY <1>1, <1>2, <1>3, <2>1, <2>2
<1>5. ASSUME a < q PROVE FALSE
  <2>1. d * a + d <= d * q
    BY <1>2, <1>5, Multiples
  <2>2. d * q \in Nat /\ d * a \in Nat
    BY <1>2, Product
  <2> QED
    BY <1>1, <1>2, <1>3, <2>1, <2>2
<1>6. q = a
  BY <1>2, <1>4, <1>5
<1> QED
  BY <1>6 DEF q, m

\* What k6 gets to start with: within the cap, at least one user per scenario, and the threads
\* of the task as long as they fit.
LEMMA PreAllocatedFits ==
    ASSUME NEW l \in LoadRequests
    PROVE  LET n == Len(l.mix)
               pre == PreAllocated(l)
           IN /\ pre \in [1..n -> Nat] /\ Total(pre) <= HardCapVus
              /\ \A i \in 1..n : 1 <= pre[i]
              /\ n * Floor(l) <= HardCapVus => \A i \in 1..n : Floor(l) <= pre[i]
<1> DEFINE n == Len(l.mix)
           F == Floor(l)
           B == Budget(l)
           m == n * F
           floors == [i \in 1..n |-> F]
           pre == PreAllocated(l)
<1>1. /\ F \in Nat \ {0} /\ Asked(l) \in [1..n -> Nat] /\ \A i \in 1..n : floors[i] <= Asked(l)[i]
      /\ floors \in [1..n -> Nat] /\ Total(floors) = m /\ m \in Nat \ {0}
      /\ pre = Allocate(Asked(l), B, floors) /\ B \in Nat \ {0} /\ B <= HardCapVus
      /\ m <= HardCapVus => m <= B
      /\ m > HardCapVus => B = HardCapVus
  BY RequestsTyped
<1>2. n \in Nat \ {0} /\ n <= HardCapVus
  BY LoadTyped
<1>3. \A i \in 1..n : floors[i] = F
  OBVIOUS
<1>4. m = n * F
  OBVIOUS
<1> HIDE DEF n, F, B, floors, pre, m
<1>5. /\ pre \in [1..n -> Nat] /\ Total(pre) <= B
      /\ m < B => \A i \in 1..n : F <= pre[i]
      /\ m >= B => \A i \in 1..n : (F * B) \div m <= pre[i]
  <2>1. n \in Nat /\ B \in Nat /\ Total(floors) # 0
    BY <1>1, <1>2
  <2>2. /\ Allocate(Asked(l), B, floors) \in [1..n -> Nat] /\ Total(Allocate(Asked(l), B, floors)) <= B
        /\ Total(floors) < B => \A i \in 1..n : floors[i] <= Allocate(Asked(l), B, floors)[i]
        /\ Total(floors) >= B => \A i \in 1..n : (floors[i] * B) \div Total(floors) <= Allocate(Asked(l), B, floors)[i]
    BY <1>1, <2>1, AllocateFits
  <2> QED
    BY <1>1, <1>3, <2>2
<1>6. m >= B /\ m <= HardCapVus => (F * B) \div m = F
  <2> SUFFICES ASSUME m >= B, m <= HardCapVus PROVE (F * B) \div m = F
    OBVIOUS
  <2>1. B = m
    BY <1>1
  <2>2. (F * m) \div m = F
    BY <1>1, ExactQuotient
  <2> QED
    BY <2>1, <2>2
<1>7. m > HardCapVus => (F * B) \div m >= 1
  <2> SUFFICES ASSUME m > HardCapVus PROVE (F * B) \div m >= 1
    OBVIOUS
  <2> DEFINE p == F * B
             q == p \div m
             r == p % m
  <2>1. p \in Nat /\ m <= p
    <3>1. n <= B /\ B \in Nat
      BY <1>1, <1>2
    <3>2. n * F <= B * F /\ B * F \in Nat
      BY <1>1, <1>2, <3>1, ProductsGrow
    <3>3. B * F = F * B
      BY <1>1
    <3> QED
      BY <1>4, <3>2, <3>3
  <2> HIDE DEF p
  <2>2. q \in Nat /\ r \in 0..m - 1 /\ p = m * q + r
    BY <1>1, <2>1, Division
  <2> HIDE DEF q, r
  <2>3. q = 0 => m * q = 0
    BY <1>1
  <2>4. q >= 1
    BY <1>1, <2>1, <2>2, <2>3
  <2> QED
    BY <2>4 DEF q, p
<1>8. B \in Nat /\ m \in Nat /\ HardCapVus \in Nat /\ Total(pre) \in Nat
  <2>1. n \in Nat /\ B \in Nat /\ m \in Nat /\ HardCapVus \in Nat
    BY <1>1, <1>2, CapsAre
  <2>2. Total(pre) \in Nat
    BY <1>5, <2>1, TotalIsACount
  <2> QED
    BY <2>1, <2>2
<1>9. Total(pre) <= HardCapVus
  BY <1>1, <1>5, <1>8
<1>10. ASSUME NEW i \in 1..n PROVE 1 <= pre[i] /\ (m <= HardCapVus => F <= pre[i])
  <2>1. pre[i] \in Nat
    BY <1>5
  <2>2. CASE m < B
    BY <1>1, <1>5, <2>1, <2>2
  <2>3. CASE m >= B /\ m <= HardCapVus
    <3>1. F <= pre[i]
      BY <1>5, <1>6, <2>3
    <3> QED
      BY <1>1, <2>1, <3>1
  <2>4. CASE m > HardCapVus
    <3>1. m >= B
      BY <1>1, <1>8, <2>4
    <3> DEFINE q == (F * B) \div m
    <3>2. q \in Nat /\ q <= pre[i] /\ q >= 1
      <4>1. F * B \in Nat
        BY <1>1, Product
      <4>2. q \in Nat
        BY <1>1, <4>1, Division
      <4> QED
        BY <1>5, <1>7, <2>4, <3>1, <4>2
    <3> HIDE DEF q
    <3> QED
      BY <1>8, <2>1, <2>4, <3>2
  <2> QED
    BY <1>8, <2>2, <2>3, <2>4
<1> QED
  BY <1>4, <1>5, <1>9, <1>10 DEF n, F, pre

LEMMA MaxVusFit ==
    ASSUME NEW l \in LoadRequests
    PROVE  LET n == Len(l.mix)
               pre == PreAllocated(l)
               most == MaxVus(l, pre)
           IN /\ most \in [1..n -> Nat] /\ Total(most) <= MaxVusCap
              /\ \A i \in 1..n : pre[i] <= most[i]
<1> DEFINE n == Len(l.mix)
           pre == PreAllocated(l)
           c == Ceil(MinMaxVus, n)
           values == [i \in 1..n |-> Large(4 * pre[i], c)]
           M == Small(MaxVusCap, Large(MinMaxVus, 2 * Total(pre)))
           most == MaxVus(l, pre)
<1>1. n \in Nat \ {0}
  BY LoadTyped
<1>2. pre \in [1..n -> Nat] /\ Total(pre) <= HardCapVus /\ \A i \in 1..n : 1 <= pre[i]
  BY PreAllocatedFits
<1> HIDE DEF n, pre
<1>3. c \in Nat
  BY <1>1, CapsAre, CeilCovers
<1>4. most = Allocate(values, M, pre)
  <2>1. DOMAIN pre = 1..n
    BY <1>2
  <2> QED
    BY <2>1 DEF MaxVus, Each, n
<1> HIDE DEF c
<1>5. values \in [1..n -> Nat] /\ \A i \in 1..n : pre[i] <= values[i]
  BY <1>2, <1>3 DEF Large
<1>6. Total(pre) \in Nat \ {0}
  <2>1. Total(pre) \in Nat /\ pre[1] <= Total(pre) /\ 1 <= pre[1] /\ pre[1] \in Nat
    <3>1. 1 \in 1..n /\ n \in Nat
      BY <1>1
    <3> QED
      BY <1>2, <3>1, TotalIsACount
  <2> QED
    BY <2>1
<1>7. M \in Nat /\ Total(pre) < M /\ M <= MaxVusCap
  BY <1>2, <1>6, CapsAre DEF Small, Large
<1> HIDE DEF values, M, most
<1>8. /\ most \in [1..n -> Nat] /\ Total(most) <= M
      /\ \A i \in 1..n : pre[i] <= most[i]
  <2>1. n \in Nat /\ Total(pre) # 0
    BY <1>1, <1>6
  <2>2. /\ Allocate(values, M, pre) \in [1..n -> Nat] /\ Total(Allocate(values, M, pre)) <= M
        /\ Total(pre) < M => \A i \in 1..n : pre[i] <= Allocate(values, M, pre)[i]
    BY <1>2, <1>5, <1>7, <2>1, AllocateFits
  <2> QED
    BY <1>4, <1>7, <2>2
<1>9. Total(most) <= MaxVusCap
  <2>1. Total(most) \in Nat
    <3>1. n \in Nat
      BY <1>1
    <3> QED
      BY <1>8, <3>1, TotalIsACount
  <2> QED
    BY <1>7, <1>8, <2>1, CapsAre
<1> QED
  BY <1>8, <1>9 DEF n, pre, most

\* A JMeter agent's target: the part of the run's up to half a unit, and the iterations reach it.
LEMMA SharesRounded ==
    ASSUME NEW l \in LoadRequests, l.influx, l.target >= l.agents
    PROVE  /\ PerAgent(l) \in Nat
           /\ 2 * (l.agents * PerAgent(l) - 10000 * l.target) \in -l.agents..l.agents
           /\ Iterations(l) * l.threads * 10000 >= PerAgent(l) * l.duration
<1> DEFINE T == l.target
           a == l.agents
           p == 2 * 10000 * T + a
           q == p \div (2 * a)
           r == p % (2 * a)
           share == PerAgent(l)
<1>1. T \in Nat \ {0} /\ a \in Nat \ {0} /\ l.threads \in Nat \ {0} /\ l.duration \in Nat /\ a <= T
  BY LoadTyped
<1>2. share = Large(10000, q)
  BY DEF PerAgent
<1> HIDE DEF T, a
<1>3. p \in Nat /\ 2 * a \in Nat \ {0}
  BY <1>1
<1>p. p = 20000 * T + a
  BY <1>1
<1> HIDE DEF p
<1>4. q \in Nat /\ r \in 0..2 * a - 1 /\ p = (2 * a) * q + r
  BY <1>3, Division
<1> HIDE DEF q, r
<1>5. (2 * a) * q = 2 * (a * q) /\ a * q \in Nat
  BY <1>1, <1>4
<1>6. q >= 10000
  <2> SUFFICES ASSUME q + 1 <= 10000 PROVE FALSE
    BY <1>4
  <2>1. (q + 1) * a <= 10000 * a
    BY <1>1, <1>4, ProductsGrow
  <2>2. (q + 1) * a = q * a + a /\ q * a = a * q
    BY <1>1, <1>4, NextProduct
  <2> QED
    BY <1>1, <1>p, <1>4, <1>5, <2>1, <2>2
<1>7. share = q
  BY <1>2, <1>4, <1>6 DEF Large
<1>8. 2 * (a * q - 10000 * T) \in -a..a
  BY <1>1, <1>p, <1>4, <1>5
<1>9. Iterations(l) * l.threads * 10000 >= share * l.duration
  <2> DEFINE w == share * l.duration
             b == 10000 * l.threads
             k == Iterations(l)
             t == l.threads
  <2>1. w \in Nat /\ b \in Nat \ {0} /\ b = 10000 * t /\ t \in Nat
    BY <1>1, <1>4, <1>7, Product
  <2>2. k = Large(1, Ceil(w, b))
    BY DEF Iterations
  <2> HIDE DEF w, b, k, t
  <2>3. Ceil(w, b) \in Nat /\ b * Ceil(w, b) >= w
    BY <2>1, CeilCovers
  <2>4. k \in Nat /\ Ceil(w, b) <= k
    BY <2>2, <2>3 DEF Large
  <2>5. Ceil(w, b) * b <= k * b /\ k * b \in Nat /\ Ceil(w, b) * b \in Nat
    <3>1. b \in Nat
      BY <2>1
    <3> QED
      BY <2>3, <2>4, <3>1, ProductsGrow
  <2>6. Ceil(w, b) * b = b * Ceil(w, b)
    BY <2>1, <2>3
  <2>7. k * b = k * t * 10000
    BY <2>1, <2>4
  <2>8. k * t * 10000 >= w
    BY <2>1, <2>3, <2>5, <2>6, <2>7
  <2> QED
    BY <2>8 DEF k, t, w
<1> QED
  BY <1>4, <1>7, <1>8, <1>9 DEF a, T

\* What every agent runs with.
Mine(l) ==
    IF l.engine = "k6"
    THEN [unit |-> Rates(l).unit, rate |-> Rates(l).rate,
          pre |-> PreAllocated(l), most |-> MaxVus(l, PreAllocated(l))]
    ELSE [share |-> PerAgent(l), iterations |-> Iterations(l)]

LoadInv ==
    /\ load \in LoadRequests /\ (load.engine = "k6" => load.influx)
    /\ DOMAIN config \subseteq 1..load.agents
    /\ \A i \in DOMAIN config : config[i] = Mine(load)

LEMMA LoadStarts == LoadInit => LoadInv
  BY DEF LoadInit, LoadInv, LoadRequests

LEMMA LoadKeeps == LoadInv /\ [LoadNext]_loadVars => LoadInv'
<1> SUFFICES ASSUME LoadInv, [LoadNext]_loadVars PROVE LoadInv'
  OBVIOUS
<1>1. ASSUME NEW i \in 1..MaxAgents, Configure(i) PROVE LoadInv'
  <2>1. load' = load /\ i \in 1..load.agents
    BY <1>1 DEF Configure
  <2>2. config' = [j \in (DOMAIN config) \cup {i} |-> IF j = i THEN Mine(load) ELSE config[j]]
    BY <1>1 DEF Configure, Mine
  <2>3. Mine(load)' = Mine(load)
    BY <2>1
  <2> QED
    BY <2>1, <2>2, <2>3 DEF LoadInv
<1>2. CASE UNCHANGED loadVars
  <2>1. load' = load /\ config' = config
    BY <1>2 DEF loadVars
  <2>2. Mine(load)' = Mine(load)
    BY <2>1
  <2> QED
    BY <2>1, <2>2 DEF LoadInv
<1> QED
  BY <1>1, <1>2 DEF LoadNext

LEMMA LoadIsTyped == LoadInv => LoadTypeOK
  BY DEF LoadInv, LoadTypeOK, LoadRequests

LEMMA LoadAddsUp == LoadInv => LoadIsShared
<1> SUFFICES ASSUME LoadInv, DOMAIN config = 1..load.agents
             PROVE  IF load.engine = "k6" THEN RatesAddUp /\ VusFit ELSE load.influx => SharesAddUp
  BY DEF LoadIsShared
<1> DEFINE n == Len(load.mix)
<1>1. /\ load \in LoadRequests /\ load.agents \in Nat \ {0} /\ Scenarios = 1..n /\ load.target \in Nat
      /\ \A i \in 1..load.agents : config[i] = Mine(load)
  BY LoadTyped DEF LoadInv, Scenarios
<1>2. CASE load.engine = "k6"
  <2>1. \A i \in 1..load.agents :
           /\ config[i].unit = Rates(load).unit /\ config[i].rate = Rates(load).rate
           /\ config[i].pre = PreAllocated(load) /\ config[i].most = MaxVus(load, PreAllocated(load))
    BY <1>1, <1>2 DEF Mine
  <2>2. RatesAddUp
    <3>1. 1 \in 1..load.agents
      BY <1>1
    <3>2. \A s \in 1..n : Rates(load).rate[s] * load.agents * Total(load.mix)
                          = load.target * load.mix[s] * Rates(load).unit
      BY <1>1, RatesExact
    <3> HIDE DEF n
    <3> QED
      BY <1>1, <2>1, <3>1, <3>2 DEF RatesAddUp
  <2>3. VusFit
    <3>1. /\ PreAllocated(load) \in [1..n -> Nat] /\ Total(PreAllocated(load)) <= HardCapVus
          /\ \A s \in 1..n : 1 <= PreAllocated(load)[s]
          /\ n * Floor(load) <= HardCapVus => \A s \in 1..n : Floor(load) <= PreAllocated(load)[s]
      BY <1>1, PreAllocatedFits
    <3>2. /\ MaxVus(load, PreAllocated(load)) \in [1..n -> Nat]
          /\ Total(MaxVus(load, PreAllocated(load))) <= MaxVusCap
          /\ \A s \in 1..n : PreAllocated(load)[s] <= MaxVus(load, PreAllocated(load))[s]
      BY <1>1, MaxVusFit
    <3>3. n * Floor(load) = Floor(load) * n /\ Floor(load) \in Nat /\ n \in Nat
      <4>1. Floor(load) \in Nat /\ n \in Nat
        BY <1>1, RequestsTyped, LoadTyped
      <4> HIDE DEF n
      <4> QED
        BY <4>1
    <3>4. \A s \in 1..n : Floor(load) <= PreAllocated(load)[s] <=> PreAllocated(load)[s] >= Floor(load)
      BY <3>1, <3>3
    <3> QED
      BY <1>1, <2>1, <3>1, <3>2, <3>3, <3>4 DEF VusFit
  <2> QED
    BY <1>2, <2>2, <2>3
<1>3. CASE load.engine # "k6"
  <2> SUFFICES ASSUME load.influx, load.target >= load.agents
               PROVE  /\ 2 * (Total([i \in 1..load.agents |-> config[i].share]) - 10000 * load.target)
                            \in -load.agents..load.agents
                      /\ \A i \in 1..load.agents :
                            config[i].iterations * load.threads * 10000 >= config[i].share * load.duration
    BY <1>3 DEF SharesAddUp
  <2> DEFINE f == [i \in 1..load.agents |-> config[i].share]
             a == load.agents
             k == PerAgent(load)
  <2>1. /\ k \in Nat /\ 2 * (a * k - 10000 * load.target) \in -a..a
        /\ Iterations(load) * load.threads * 10000 >= k * load.duration
    BY <1>1, SharesRounded
  <2>2. \A i \in 1..a : config[i].share = k /\ config[i].iterations = Iterations(load)
    BY <1>1, <1>3 DEF Mine
  <2>3. Total(f) = a * k
    <3>1. IsFiniteSet(1..a) /\ Cardinality(1..a) = a /\ a \in Nat
      <4>1. a \in Nat \ {0}
        BY <1>1
      <4> HIDE DEF a
      <4>2. 1 \in Int /\ a \in Int
        BY <4>1
      <4>3. IsFiniteSet(1..a) /\ Cardinality(1..a) = IF 1 > a THEN 0 ELSE a - 1 + 1
        BY <4>2, FS_Interval
      <4> QED
        BY <4>1, <4>3
    <3>2. f \in [1..a -> Nat] /\ k \in Int /\ \A i \in 1..a : f[i] = k
      BY <2>1, <2>2
    <3> HIDE DEF f, a, k
    <3>3. SumFunctionOnSet(f, 1..a) = Cardinality(1..a) * k
      BY <3>1, <3>2, SumOfSame
    <3> QED
      BY <3>1, <3>2, <3>3, TotalIsACount
  <2> QED
    BY <2>1, <2>2, <2>3
<1> QED
  BY <1>2, <1>3

-----------------------------------------------------------------------------
(* Theorems *)

\* RunPods.PodsAddUp (run_service.py, the k6 pods of a run): at every step the pages of a run
\* count its pods alike, and those of a run that has succeeded show all of them; for any pods.
THEOREM PodsAgree == PodsSpec => []PodsAddUp
<1> QED
  BY PodsStart, PodsKeep, PodsAreRight, PTL DEF PodsSpec

\* RunSources.SourcesHold (run_service.py, get_summary_metrics, get_metrics, get_endpoint_trends,
\* get_checks): whichever source a page has taken, none is empty of a run that another one shows,
\* and where a page shows some agents' work as all of a run that has succeeded, an agent is silent,
\* Prometheus has heard of some only, or the trends are those that a poll has stored; for any agents.
THEOREM SourcesAgree == SourceSpec => []SourcesHold
<1>1. SourceInv => SourcesHold
  BY NoneIsPoorer, PartsExplained DEF SourcesHold
<1> QED
  BY SourceStarts, SourceKeeps, <1>1, PTL DEF SourceSpec

\* RunFigures.FiguresAddUp (_merge_summary_metric_rows and what get_summary_metrics, get_metrics
\* and get_endpoint_trends make of it): no page shows more than has been done, and the rows of a
\* run are all that some agents have done, with response times as if it had been one list; for
\* any agents, endpoints, rates, response times and lengths of a bucket.
THEOREM FiguresAreWhole == FigureSpec => []FiguresAddUp
<1> QED
  BY FiguresStart, FiguresKeep, FiguresAreRight, PTL DEF FigureSpec

\* DataSlices.SlicesAreSound (task_asset_service.py, run_service.py, test_executor.py, execute.py):
\* average distribution gives every line to one agent if the counts agree, the shards of a file are
\* the file, and the three readings of a number in the run's parameters are one; for any file, any
\* number of agents and any settings.
THEOREM SlicesAreRight == SliceSpec => []SlicesAreSound
<1>1. SliceInit => SliceInv
  BY SlicesStart
<1>2. SliceInv /\ [SliceNext]_sliceVars => SliceInv'
  BY SlicesKeep
<1>3. SliceInv => SlicesAreSound
  BY EachLineGoesToOne, ShardsSound, ReadAlike DEF SlicesAreSound
<1> QED
  BY <1>1, <1>2, <1>3, PTL DEF SliceSpec

\* LoadShares.LoadIsShared (k6_runner.py, _allocate_proportional_integers and what it is given;
\* jmeter_runner.py, execute.py): once every agent has been started, the k6 scenarios have their
\* parts of the target exactly and the virtual users are within the caps, and JMeter agents have
\* the target up to the rounding; for any target, agents, threads and mix of scenarios.
THEOREM LoadsAreShared == LoadSpec => []LoadIsShared
<1> QED
  BY LoadStarts, LoadKeeps, LoadAddsUp, PTL DEF LoadSpec

-----------------------------------------------------------------------------
(* Log pages *)

\* The lines of a set before one of them.
Earlier(S, i) == {j \in S : j < i}
PlaceIn(S, i) == Cardinality(Earlier(S, i))

LEMMA RankTyped ==
    ASSUME NEW S \in SUBSET Nat, IsFiniteSet(S), NEW i \in S
    PROVE  PlaceIn(S, i) \in 0..Cardinality(S) - 1 /\ IsFiniteSet(Earlier(S, i))
<1>1. Earlier(S, i) \in SUBSET (S \ {i}) /\ i \in Nat
  BY DEF Earlier
<1>2. IsFiniteSet(S \ {i}) /\ Cardinality(S \ {i}) = Cardinality(S) - 1 /\ Cardinality(S) \in Nat
  BY FS_RemoveElement, FS_CardinalityType
<1>3. /\ IsFiniteSet(Earlier(S, i)) /\ PlaceIn(S, i) <= Cardinality(S \ {i})
      /\ PlaceIn(S, i) \in Nat
  BY <1>1, <1>2, FS_Subset, FS_CardinalityType DEF PlaceIn
<1> QED
  BY <1>2, <1>3

LEMMA RankGrows ==
    ASSUME NEW S \in SUBSET Nat, IsFiniteSet(S), NEW i \in S, NEW k \in S, i < k
    PROVE  PlaceIn(S, i) < PlaceIn(S, k)
<1>1. IsFiniteSet(Earlier(S, k)) /\ PlaceIn(S, i) \in Nat /\ PlaceIn(S, k) \in Nat
  BY RankTyped
<1>2. Earlier(S, i) \in SUBSET Earlier(S, k) /\ i \in Earlier(S, k) /\ i \notin Earlier(S, i)
  <2>1. i \in Nat /\ k \in Nat /\ ~(i < i) /\ \A j \in S : j \in Nat /\ (j < i => j < k)
    OBVIOUS
  <2> QED
    BY <2>1 DEF Earlier
<1>3. PlaceIn(S, i) <= PlaceIn(S, k) /\ PlaceIn(S, i) # PlaceIn(S, k)
  BY <1>1, <1>2, FS_Subset DEF PlaceIn
<1> QED
  BY <1>1, <1>3

LEMMA RanksDiffer ==
    ASSUME NEW S \in SUBSET Nat, IsFiniteSet(S), NEW i \in S, NEW k \in S
    PROVE  (PlaceIn(S, i) = PlaceIn(S, k) => i = k) /\ (PlaceIn(S, i) < PlaceIn(S, k) => i < k)
<1>1. i < k => PlaceIn(S, i) < PlaceIn(S, k)
  BY RankGrows
<1>2. k < i => PlaceIn(S, k) < PlaceIn(S, i)
  BY RankGrows
<1>3. i \in Nat /\ k \in Nat /\ PlaceIn(S, i) \in Nat /\ PlaceIn(S, k) \in Nat
  BY RankTyped
<1> QED
  BY <1>1, <1>2, <1>3

LEMMA EveryRank ==
    ASSUME NEW S \in SUBSET Nat, IsFiniteSet(S), NEW n \in 1..Cardinality(S)
    PROVE  \E i \in S : PlaceIn(S, i) = n - 1
<1> DEFINE c == Cardinality(S)
           T == 0..c - 1
           f == [i \in S |-> PlaceIn(S, i)]
<1>1. c \in Nat
  BY FS_CardinalityType
<1>2. IsFiniteSet(T) /\ Cardinality(T) = c
  <2>1. 0 \in Int /\ c - 1 \in Int /\ (0 > c - 1 => c = 0) /\ (c - 1) - 0 + 1 = c
    BY <1>1
  <2> HIDE DEF c
  <2>2. IsFiniteSet(T) /\ Cardinality(T) = IF 0 > c - 1 THEN 0 ELSE (c - 1) - 0 + 1
    BY <2>1, FS_Interval
  <2> QED
    BY <2>1, <2>2
<1>3. f \in [S -> T]
  BY RankTyped
<1>4. \A i, k \in S : f[i] = f[k] => i = k
  BY RanksDiffer
<1> HIDE DEF f, T
<1>5. f \in Injection(S, T)
  BY <1>3, <1>4 DEF Injection, IsInjective
<1>6. f \in Surjection(S, T)
  BY <1>2, <1>5, FS_Injection
<1>7. \A t \in T : \E i \in S : f[i] = t
  BY <1>6 DEF Surjection
<1>8. n - 1 \in T
  BY <1>1 DEF T
<1> QED
  BY <1>7, <1>8 DEF f

\* A set of lines in time: each at its rank.
LEMMA InTimeIs ==
    ASSUME NEW S \in SUBSET Nat, IsFiniteSet(S)
    PROVE  /\ InTime(S) \in Seq(S) /\ Len(InTime(S)) = Cardinality(S) /\ Cardinality(S) \in Nat
           /\ DOMAIN InTime(S) = 1..Cardinality(S)
           /\ \A n \in 1..Cardinality(S) : InTime(S)[n] \in S /\ PlaceIn(S, InTime(S)[n]) = n - 1
<1> DEFINE c == Cardinality(S)
           g == InTime(S)
           Nth(n) == CHOOSE i \in S : PlaceIn(S, i) = n - 1
<1>2. g = [n \in 1..c |-> Nth(n)] /\ \A n \in 1..c : g[n] = Nth(n)
  BY DEF InTime, PlaceIn, Earlier
<1>3. \A n \in 1..c : g[n] \in S /\ PlaceIn(S, g[n]) = n - 1
  BY <1>2, EveryRank
<1>1. c \in Nat
  BY FS_CardinalityType
<1> HIDE DEF g, Nth, c
<1>4. g = [n \in 1..c |-> g[n]]
  BY <1>2
<1>5. g \in [1..c -> S]
  BY <1>3, <1>4
<1> QED
  BY <1>1, <1>3, <1>5 DEF g, c

LEMMA InTimeAt ==
    ASSUME NEW S \in SUBSET Nat, IsFiniteSet(S), NEW i \in S, NEW n \in 1..Cardinality(S),
           PlaceIn(S, i) = n - 1
    PROVE  InTime(S)[n] = i
<1>1. InTime(S)[n] \in S /\ PlaceIn(S, InTime(S)[n]) = n - 1
  BY InTimeIs
<1> QED
  BY <1>1, RanksDiffer

\* Lines with successive ranks have no line of the set between them.
LEMMA NothingBetween ==
    ASSUME NEW S \in SUBSET Nat, IsFiniteSet(S), NEW n \in 1..Cardinality(S) - 1
    PROVE  /\ InTime(S)[n] < InTime(S)[n + 1]
           /\ \A i \in S : ~(InTime(S)[n] < i /\ i < InTime(S)[n + 1])
<1> DEFINE a == InTime(S)[n]
           b == InTime(S)[n + 1]
<1>1. n \in 1..Cardinality(S) /\ n + 1 \in 1..Cardinality(S) /\ (n + 1) - 1 = n /\ n \in Nat
  BY FS_CardinalityType
<1>2. a \in S /\ b \in S /\ PlaceIn(S, a) = n - 1 /\ PlaceIn(S, b) = n
  BY <1>1, InTimeIs
<1> HIDE DEF a, b
<1>3. a < b
  BY <1>1, <1>2, RanksDiffer
<1>4. ASSUME NEW i \in S, a < i, i < b PROVE FALSE
  <2>1. PlaceIn(S, a) < PlaceIn(S, i) /\ PlaceIn(S, i) < PlaceIn(S, b) /\ PlaceIn(S, i) \in Nat
    BY <1>2, <1>4, RankGrows, RankTyped
  <2> QED
    BY <1>1, <1>2, <2>1
<1> QED
  BY <1>3, <1>4 DEF a, b

LEMMA IntervalInTime ==
    ASSUME NEW a \in Nat, NEW b \in Int
    PROVE  /\ IsFiniteSet(a..b) /\ a..b \in SUBSET Nat
           /\ Cardinality(a..b) = IF a > b THEN 0 ELSE b - a + 1
           /\ \A n \in 1..Cardinality(a..b) : InTime(a..b)[n] = a + n - 1
<1>1. /\ IsFiniteSet(a..b) /\ a..b \in SUBSET Nat
      /\ Cardinality(a..b) = IF a > b THEN 0 ELSE b - a + 1
  BY FS_Interval
<1>2. ASSUME NEW n \in 1..Cardinality(a..b) PROVE InTime(a..b)[n] = a + n - 1
  <2> DEFINE i == a + n - 1
  <2>1. i \in a..b /\ n \in Nat
    BY <1>1
  <2>2. Earlier(a..b, i) = a..(i - 1)
    BY <2>1 DEF Earlier
  <2>3. Cardinality(a..(i - 1)) = n - 1
    <3>1. i - 1 \in Int /\ (a > i - 1 => n = 1) /\ (i - 1) - a + 1 = n - 1
      BY <2>1
    <3>2. Cardinality(a..(i - 1)) = IF a > i - 1 THEN 0 ELSE (i - 1) - a + 1
      BY <3>1, FS_Interval
    <3> QED
      BY <3>1, <3>2
  <2>4. PlaceIn(a..b, i) = n - 1
    BY <2>2, <2>3 DEF PlaceIn
  <2> HIDE DEF i
  <2>5. InTime(a..b)[n] = i
    BY <1>1, <2>1, <2>4, InTimeAt
  <2> QED
    BY <2>5 DEF i
<1> QED
  BY <1>1, <1>2

\* A later set keeps the ranks of its first lines.
LEMMA InTimeKeeps ==
    ASSUME NEW S \in SUBSET Nat, IsFiniteSet(S), NEW T \in SUBSET Nat, IsFiniteSet(T),
           S \subseteq T, \A i \in S, j \in T \ S : i < j
    PROVE  /\ Cardinality(S) <= Cardinality(T)
           /\ \A n \in 1..Cardinality(S) : InTime(T)[n] = InTime(S)[n] /\ n \in 1..Cardinality(T)
<1>1. Cardinality(S) <= Cardinality(T) /\ Cardinality(S) \in Nat /\ Cardinality(T) \in Nat
  BY FS_Subset, FS_CardinalityType
<1>2. ASSUME NEW n \in 1..Cardinality(S) PROVE InTime(T)[n] = InTime(S)[n] /\ n \in 1..Cardinality(T)
  <2> DEFINE i == InTime(S)[n]
  <2>1. i \in S /\ PlaceIn(S, i) = n - 1
    BY InTimeIs
  <2>2. Earlier(T, i) = Earlier(S, i)
    <3>1. i \in Nat /\ \A j \in T : j \in Nat
      BY <2>1
    <3>2. \A j \in T \ S : ~(j < i)
      BY <2>1, <3>1
    <3> QED
      BY <3>2 DEF Earlier
  <2>3. n \in 1..Cardinality(T)
    BY <1>1
  <2>4. InTime(T)[n] = i
    BY <2>1, <2>2, <2>3, InTimeAt DEF PlaceIn
  <2> QED
    BY <2>3, <2>4
<1> QED
  BY <1>1, <1>2

LEMMA LogTyped ==
    /\ IsFiniteSet(LogAgents) /\ Cardinality(LogAgents) \in Nat
    /\ MaxLog \in Nat /\ PageLimit \in Nat \ {0} /\ ScanLimit \in Nat \ {0}
  BY LogAssumption, FS_CardinalityType

LEMMA SeqOfMore == ASSUME NEW A, NEW B, A \subseteq B, NEW s \in Seq(A) PROVE s \in Seq(B)
<1>1. Len(s) \in Nat /\ DOMAIN s = 1..Len(s) /\ \A k \in 1..Len(s) : s[k] \in B
  OBVIOUS
<1>2. s = [k \in 1..Len(s) |-> s[k]]
  BY <1>1
<1>3. s \in [1..Len(s) -> B]
  BY <1>1, <1>2
<1> QED
  BY <1>1, <1>3

\* The first lines of a page.
LEMMA BeginningIs ==
    ASSUME NEW A, NEW s \in Seq(A)
    PROVE  /\ Beginning(s) \in Seq(A) /\ Len(Beginning(s)) \in 0..PageLimit
           /\ Len(Beginning(s)) = IF Len(s) < PageLimit THEN Len(s) ELSE PageLimit
           /\ Len(Beginning(s)) <= Len(s)
           /\ \A k \in 1..Len(Beginning(s)) : Beginning(s)[k] = s[k] /\ k \in 1..Len(s)
<1> DEFINE m == IF Len(s) < PageLimit THEN Len(s) ELSE PageLimit
<1>1. m \in Nat /\ m <= Len(s) /\ m <= PageLimit /\ Len(s) \in Nat
  BY LogTyped
<1>2. Beginning(s) = SubSeq(s, 1, m)
  BY DEF Beginning
<1> HIDE DEF m
<1>3. \A k \in 1..m : k \in 1..Len(s) /\ s[k] \in A
  BY <1>1
<1>4. SubSeq(s, 1, m) = [k \in 1..m |-> s[k]]
  BY <1>1, <1>3
<1>5. Beginning(s) \in [1..m -> A]
  BY <1>2, <1>3, <1>4
<1>6. Len(Beginning(s)) = m
  BY <1>1, <1>2, <1>4
<1>7. \A k \in 1..m : Beginning(s)[k] = s[k]
  BY <1>2, <1>4
<1>8. Beginning(s) \in Seq(A)
  BY <1>1, <1>5
<1> QED
  BY <1>1, <1>3, <1>6, <1>7, <1>8 DEF m

\* A page of m lines that follows a number, forwards; and one that begins at a number, backwards.
Forwards(S, cursor, p, m) ==
    /\ m \in 0..PageLimit /\ p.items \in Seq(S) /\ Len(p.items) = m
    /\ m = 0 \/ cursor + m <= Cardinality(S)
    /\ m = PageLimit \/ cursor + m >= Cardinality(S)
    /\ \A k \in 1..m : p.items[k] = InTime(S)[cursor + k]
    /\ p.next = IF m = 0 THEN 0 ELSE cursor + m
Backwards(S, first, p, m) ==
    /\ m \in 0..PageLimit /\ m <= first /\ first <= Cardinality(S)
    /\ p.items \in Seq(S) /\ Len(p.items) = m
    /\ m = PageLimit \/ m = first
    /\ \A k \in 1..m : p.items[k] = InTime(S)[first + 1 - k]
    /\ p.next = IF m = 0 THEN 0 ELSE first + 1 - m

LEMMA PageIs ==
    ASSUME NEW S \in SUBSET Nat, IsFiniteSet(S), NEW numbers \in Seq(1..Cardinality(S)), NEW m,
           m = Len(numbers)
    PROVE  /\ Page(InTime(S), numbers).items \in Seq(S)
           /\ Len(Page(InTime(S), numbers).items) = m
           /\ \A k \in 1..m : Page(InTime(S), numbers).items[k] = InTime(S)[numbers[k]]
           /\ Page(InTime(S), numbers).next = IF m = 0 THEN 0 ELSE numbers[m]
<1> DEFINE A == 1..Cardinality(S)
<1>0. numbers \in Seq(A) /\ m = Len(numbers)
  OBVIOUS
<1> HIDE DEF A
<1>1. m \in Nat /\ DOMAIN numbers = 1..m /\ \A k \in 1..m : numbers[k] \in A
  BY <1>0
<1>2. \A k \in 1..m : InTime(S)[numbers[k]] \in S
  BY <1>1, InTimeIs DEF A
<1>3. m = 0 <=> numbers = <<>>
  BY <1>0
<1>4. [i \in 1..m |-> InTime(S)[numbers[i]]] \in [1..m -> S]
  BY <1>2
<1>5. Page(InTime(S), numbers).items = [i \in 1..m |-> InTime(S)[numbers[i]]]
  BY <1>1 DEF Page
<1>6. Page(InTime(S), numbers).next = IF m = 0 THEN 0 ELSE numbers[m]
  BY <1>3 DEF Page, Last
<1> QED
  BY <1>1, <1>4, <1>5, <1>6

LEMMA PaginateForwards ==
    ASSUME NEW S \in SUBSET Nat, IsFiniteSet(S), NEW cursor \in Nat
    PROVE  \E m : Forwards(S, cursor, Paginate(S, cursor, "asc"), m)
<1> DEFINE n == Cardinality(S)
           after == {k \in 1..n : cursor = 0 \/ IF "asc" = "asc" THEN k > cursor ELSE k < cursor}
           all == InTime(after)
           numbers == Beginning(InOrder(all, "asc"))
           m == Len(numbers)
<1>1. n \in Nat
  BY FS_CardinalityType
<1>2. after = cursor + 1..n
  BY <1>1
<1>3. InOrder(all, "asc") = all
  BY DEF InOrder
<1>4. Paginate(S, cursor, "asc") = Page(InTime(S), numbers)
  BY DEF Paginate
<1> HIDE DEF after
<1>5. /\ after \in SUBSET Nat /\ IsFiniteSet(after)
      /\ Cardinality(after) = IF cursor + 1 > n THEN 0 ELSE n - cursor
      /\ \A k \in 1..Cardinality(after) : all[k] = cursor + k
  <2>1. cursor + 1 \in Nat /\ n - (cursor + 1) + 1 = n - cursor
    BY <1>1
  <2> HIDE DEF all, n
  <2>2. /\ after \in SUBSET Nat /\ IsFiniteSet(after)
        /\ Cardinality(after) = IF cursor + 1 > n THEN 0 ELSE n - (cursor + 1) + 1
        /\ \A k \in 1..Cardinality(after) : all[k] = (cursor + 1) + k - 1
    BY <1>1, <1>2, <2>1, IntervalInTime DEF all
  <2>3. ASSUME NEW k \in 1..Cardinality(after) PROVE all[k] = cursor + k
    <3>1. (cursor + 1) + k - 1 = cursor + k
      OBVIOUS
    <3> QED
      BY <2>2, <3>1
  <2> QED
    BY <2>1, <2>2, <2>3
<1>6. all \in Seq(after) /\ Len(all) = Cardinality(after) /\ after \in SUBSET (1..n)
  BY <1>1, <1>2, <1>5, InTimeIs
<1>7. all \in Seq(1..n)
  <2> DEFINE A == 1..n
  <2> HIDE DEF A, all, n
  <2>1. after \in SUBSET A
    BY <1>6 DEF A
  <2>2. all \in Seq(A)
    BY <1>6, <2>1, SeqOfMore
  <2> QED
    BY <2>2 DEF A
<1>8. /\ numbers \in Seq(1..n) /\ m \in 0..PageLimit /\ m <= Len(all)
      /\ m = (IF Len(all) < PageLimit THEN Len(all) ELSE PageLimit)
      /\ \A k \in 1..m : numbers[k] = all[k] /\ k \in 1..Len(all)
  <2> HIDE DEF all, n
  <2> QED
    BY <1>3, <1>7, BeginningIs
<1> HIDE DEF all, numbers, n, m
<1>9. /\ Paginate(S, cursor, "asc").items \in Seq(S) /\ Len(Paginate(S, cursor, "asc").items) = m
      /\ \A k \in 1..m : Paginate(S, cursor, "asc").items[k] = InTime(S)[numbers[k]]
      /\ Paginate(S, cursor, "asc").next = IF m = 0 THEN 0 ELSE numbers[m]
  BY <1>4, <1>8, PageIs DEF n, m
<1>10. \A k \in 1..m : numbers[k] = cursor + k
  BY <1>5, <1>6, <1>8
<1>11. /\ m = 0 \/ cursor + m <= n
       /\ m = PageLimit \/ cursor + m >= n
  BY <1>1, <1>5, <1>6, <1>8, LogTyped
<1>12. m # 0 => m \in 1..m /\ numbers[m] = cursor + m
  BY <1>8, <1>10
<1>13. Forwards(S, cursor, Paginate(S, cursor, "asc"), m)
  BY <1>8, <1>9, <1>10, <1>11, <1>12 DEF Forwards, n
<1> QED
  BY <1>13

LEMMA PaginateBackwards ==
    ASSUME NEW S \in SUBSET Nat, IsFiniteSet(S), NEW cursor \in Nat, NEW first,
           first = IF cursor = 0 \/ cursor > Cardinality(S) THEN Cardinality(S) ELSE cursor - 1
    PROVE  \E m : Backwards(S, first, Paginate(S, cursor, "desc"), m)
<1> DEFINE n == Cardinality(S)
           after == {k \in 1..n : cursor = 0 \/ IF "desc" = "asc" THEN k > cursor ELSE k < cursor}
           all == InTime(after)
           down == InOrder(all, "desc")
           numbers == Beginning(down)
           m == Len(numbers)
<1>1. n \in Nat /\ first \in Nat /\ first <= n
  BY FS_CardinalityType
<1>2. after = 1..first
  BY <1>1
<1>4. Paginate(S, cursor, "desc") = Page(InTime(S), numbers)
  BY DEF Paginate
<1> HIDE DEF after
<1>5. /\ after \in SUBSET Nat /\ IsFiniteSet(after) /\ Cardinality(after) = first
      /\ \A k \in 1..first : all[k] = k
  <2>1. 1 \in Nat /\ first \in Int /\ (1 > first => first = 0) /\ first - 1 + 1 = first
        /\ \A k \in 1..first : 1 + k - 1 = k
    BY <1>1
  <2> HIDE DEF all, n
  <2>2. /\ after \in SUBSET Nat /\ IsFiniteSet(after)
        /\ Cardinality(after) = IF 1 > first THEN 0 ELSE first - 1 + 1
        /\ \A k \in 1..Cardinality(after) : all[k] = 1 + k - 1
    BY <1>2, <2>1, IntervalInTime DEF all
  <2> QED
    BY <2>1, <2>2
<1>6. all \in Seq(after) /\ Len(all) = first /\ after \in SUBSET (1..n)
  BY <1>1, <1>2, <1>5, InTimeIs
<1>7. all \in Seq(1..n)
  <2> DEFINE A == 1..n
  <2> HIDE DEF A, all, n
  <2>1. after \in SUBSET A
    BY <1>6 DEF A
  <2>2. all \in Seq(A)
    BY <1>6, <2>1, SeqOfMore
  <2> QED
    BY <2>2 DEF A
<1>8. down \in Seq(1..n) /\ Len(down) = first /\ \A k \in 1..first : down[k] = first + 1 - k
  <2> HIDE DEF all, n
  <2>1. down = [k \in 1..first |-> all[(first - k) + 1]]
    BY <1>6 DEF InOrder, Reverse
  <2>2. \A k \in 1..first : (first - k) + 1 \in 1..first /\ (first - k) + 1 = first + 1 - k
    BY <1>1
  <2> HIDE DEF down
  <2>3. \A k \in 1..first : down[k] = first + 1 - k
    BY <1>5, <2>1, <2>2
  <2>4. down \in [1..first -> 1..n]
    <3>1. \A k \in 1..first : first + 1 - k \in 1..n
      BY <1>1
    <3>2. down = [k \in 1..first |-> down[k]]
      BY <2>1
    <3> QED
      BY <2>3, <3>1, <3>2
  <2> QED
    BY <1>1, <2>3, <2>4
<1>9. /\ numbers \in Seq(1..n) /\ m \in 0..PageLimit /\ m <= first
      /\ m = (IF first < PageLimit THEN first ELSE PageLimit)
      /\ \A k \in 1..m : numbers[k] = down[k] /\ k \in 1..first
  <2> HIDE DEF down, n
  <2> QED
    BY <1>8, BeginningIs
<1> HIDE DEF all, down, numbers, n, m
<1>10. /\ Paginate(S, cursor, "desc").items \in Seq(S) /\ Len(Paginate(S, cursor, "desc").items) = m
       /\ \A k \in 1..m : Paginate(S, cursor, "desc").items[k] = InTime(S)[numbers[k]]
       /\ Paginate(S, cursor, "desc").next = IF m = 0 THEN 0 ELSE numbers[m]
  BY <1>4, <1>9, PageIs DEF n, m
<1>11. \A k \in 1..m : numbers[k] = first + 1 - k
  BY <1>8, <1>9
<1>12. m = PageLimit \/ m = first
  BY <1>9
<1>13. m # 0 => m \in 1..m /\ numbers[m] = first + 1 - m
  BY <1>9, <1>11
<1>14. Backwards(S, first, Paginate(S, cursor, "desc"), m)
  BY <1>1, <1>9, <1>10, <1>11, <1>12, <1>13 DEF Backwards, n
<1> QED
  BY <1>14

Values == 1..MaxLog + Cardinality(LogAgents) + 3
LogLines == [agent : LogAgents, bad : BOOLEAN]
LogTypes ==
    /\ log \in Seq(LogLines) /\ Len(log) <= MaxLog /\ answering \in SUBSET LogAgents
    /\ page.view \in {"all", "exception"} /\ page.order \in {"asc", "desc"}
    /\ page.cursor \in Nat /\ page.shown \in Seq(Values)
    /\ DOMAIN page = {"view", "order", "cursor", "shown", "from"}
    /\ \A n \in DOMAIN page.shown : page.shown[n] \in Lines \/ page.shown[n] > MaxLog

\* The exceptional lines of some agents, and that they are all looked at.
Exceptional(A) == Bad(UNION {LinesOf(a) : a \in A})
AllScanned(A) == \A a \in A : Cardinality(LinesOf(a)) <= ScanLimit

LEMMA LinesTyped ==
    ASSUME log \in Seq(LogLines), Len(log) <= MaxLog
    PROVE  /\ Lines = 1..Len(log) /\ Len(log) \in Nat /\ Lines \in SUBSET Nat /\ IsFiniteSet(Lines)
           /\ Cardinality(Lines) = Len(log) /\ \A n \in Lines : InTime(Lines)[n] = n
           /\ \A a : LinesOf(a) \in SUBSET Nat /\ LinesOf(a) \in SUBSET Lines /\ IsFiniteSet(LinesOf(a))
           /\ \A S : Bad(S) \in SUBSET Nat /\ Bad(S) \in SUBSET Lines /\ IsFiniteSet(Bad(S))
           /\ Lines \in SUBSET Values
<1>1. Lines = 1..Len(log) /\ Len(log) \in Nat
  BY DEF Lines
<1>2. /\ IsFiniteSet(Lines) /\ Lines \in SUBSET Nat /\ Cardinality(Lines) = Len(log)
      /\ \A n \in Lines : InTime(Lines)[n] = n
  <2>1. 1 \in Nat /\ Len(log) \in Int /\ (1 > Len(log) => Len(log) = 0) /\ Len(log) - 1 + 1 = Len(log)
    BY <1>1
  <2>2. /\ IsFiniteSet(1..Len(log)) /\ 1..Len(log) \in SUBSET Nat
        /\ Cardinality(1..Len(log)) = IF 1 > Len(log) THEN 0 ELSE Len(log) - 1 + 1
        /\ \A n \in 1..Cardinality(1..Len(log)) : InTime(1..Len(log))[n] = 1 + n - 1
    BY <2>1, IntervalInTime
  <2>3. Cardinality(1..Len(log)) = Len(log) /\ \A n \in 1..Len(log) : 1 + n - 1 = n
    BY <2>1, <2>2
  <2> QED
    BY <1>1, <2>2, <2>3
<1>3. \A T \in SUBSET Lines : T \in SUBSET Nat /\ IsFiniteSet(T)
  BY <1>2, FS_Subset
<1>4. \A a : LinesOf(a) \in SUBSET Lines
  BY DEF LinesOf
<1>5. \A S : Bad(S) \in SUBSET Lines
  BY DEF Bad
<1>6. Lines \in SUBSET Values
  <2>1. MaxLog \in Nat /\ Cardinality(LogAgents) \in Nat
    BY LogTyped
  <2> QED
    BY <1>1, <2>1 DEF Values
<1> QED
  BY <1>1, <1>2, <1>3, <1>4, <1>5, <1>6

\* All of what an agent has is looked at if it has no more.
LEMMA FirstInIs ==
    ASSUME NEW S \in SUBSET Nat, IsFiniteSet(S), NEW n \in Nat, NEW way \in {"asc", "desc"}
    PROVE  /\ FirstIn(S, n, way) \in SUBSET S
           /\ Cardinality(S) <= n => FirstIn(S, n, way) = S
           /\ way = "asc" => \A i \in S : PlaceIn(S, i) < n => i \in FirstIn(S, n, way)
<1> DEFINE c == Cardinality(S)
           g == InTime(S)
           short == IF Len(g) < n THEN Len(g) ELSE n
           Nth(i) == g[IF way = "asc" THEN i ELSE Len(g) + 1 - i]
<1>1. /\ c \in Nat /\ Len(g) = c /\ \A i \in 1..c : g[i] \in S /\ PlaceIn(S, g[i]) = i - 1
  BY InTimeIs
<1>2. \A i \in S : PlaceIn(S, i) \in 0..c - 1
  BY RankTyped
<1>3. FirstIn(S, n, way) = {Nth(i) : i \in 1..short}
  BY DEF FirstIn
<1>4. ASSUME NEW i \in S PROVE PlaceIn(S, i) + 1 \in 1..c /\ g[PlaceIn(S, i) + 1] = i
  <2>1. PlaceIn(S, i) + 1 \in 1..c /\ PlaceIn(S, i) = (PlaceIn(S, i) + 1) - 1
    BY <1>1, <1>2
  <2> QED
    BY <2>1, InTimeAt
<1> HIDE DEF c, g
<1>5. short \in Nat /\ short <= c
  BY <1>1
<1>6. ASSUME NEW i \in 1..short PROVE Nth(i) \in S
  <2>1. i \in 1..c /\ c + 1 - i \in 1..c
    BY <1>1, <1>5
  <2> QED
    BY <1>1, <2>1
<1>7. ASSUME c <= n, NEW i \in S PROVE \E k \in 1..short : Nth(k) = i
  <2> DEFINE r == PlaceIn(S, i) + 1
  <2>1. r \in 1..c /\ g[r] = i /\ short = c /\ Len(g) = c
    BY <1>1, <1>4, <1>7
  <2> HIDE DEF r
  <2>2. CASE way = "asc"
    BY <2>1, <2>2
  <2>3. CASE way # "asc"
    <3>1. c + 1 - r \in 1..c /\ c + 1 - (c + 1 - r) = r
      BY <1>1, <2>1
    <3> QED
      BY <2>1, <2>3, <3>1
  <2> QED
    BY <2>2, <2>3
<1>8. ASSUME way = "asc", NEW i \in S, PlaceIn(S, i) < n PROVE \E k \in 1..short : Nth(k) = i
  <2>1. PlaceIn(S, i) + 1 \in 1..short /\ g[PlaceIn(S, i) + 1] = i
    BY <1>1, <1>2, <1>4, <1>8
  <2> QED
    BY <1>8, <2>1
<1> HIDE DEF Nth, short
<1>9. FirstIn(S, n, way) \in SUBSET S
  BY <1>3, <1>6
<1>10. c <= n => FirstIn(S, n, way) = S
  BY <1>3, <1>7, <1>9
<1>11. way = "asc" => \A i \in S : PlaceIn(S, i) < n => i \in FirstIn(S, n, way)
  BY <1>3, <1>8
<1> QED
  BY <1>9, <1>10, <1>11 DEF c

LEMMA ExceptionsAre ==
    ASSUME log \in Seq(LogLines), Len(log) <= MaxLog
    PROVE  /\ Exceptions \in SUBSET Nat /\ Exceptions \in SUBSET Lines /\ IsFiniteSet(Exceptions)
           /\ AllScanned(answering) => Exceptions = Exceptional(answering)
<1>1. /\ \A S : Bad(S) \in SUBSET Lines /\ Lines \in SUBSET Nat /\ IsFiniteSet(Lines)
      /\ \A a : LinesOf(a) \in SUBSET Nat /\ LinesOf(a) \in SUBSET Lines /\ IsFiniteSet(LinesOf(a))
  BY LinesTyped
<1>2. Exceptions \in SUBSET Lines
  BY <1>1 DEF Exceptions
<1>3. Exceptions \in SUBSET Nat /\ IsFiniteSet(Exceptions)
  BY <1>1, <1>2, FS_Subset
<1>4. ASSUME AllScanned(answering) PROVE Exceptions = Exceptional(answering)
  <2>1. ASSUME NEW a \in answering PROVE FirstIn(LinesOf(a), ScanLimit, "desc") = LinesOf(a)
    BY <1>1, <1>4, LogTyped, FirstInIs DEF AllScanned
  <2>2. Exceptions = UNION {Bad(LinesOf(a)) : a \in answering}
    BY <2>1 DEF Exceptions
  <2> QED
    BY <2>2 DEF Exceptional, Bad
<1> QED
  BY <1>2, <1>3, <1>4

LEMMA FillerTyped ==
    /\ Notes \in SUBSET Nat /\ IsFiniteSet(Notes) /\ Notes \in SUBSET Values /\ \A i \in Notes : i > MaxLog
    /\ \A k \in 0..Cardinality(LogAgents) :
          /\ Filler(k) \in SUBSET Nat /\ IsFiniteSet(Filler(k)) /\ Filler(k) \in SUBSET Values
          /\ \A i \in Filler(k) : i > MaxLog
<1>1. MaxLog \in Nat /\ Cardinality(LogAgents) \in Nat
  BY LogTyped
<1>2. ASSUME NEW k \in Nat, k <= Cardinality(LogAgents) + 3
      PROVE  /\ Filler(k) \in SUBSET Nat /\ IsFiniteSet(Filler(k)) /\ Filler(k) \in SUBSET Values
             /\ \A i \in Filler(k) : i > MaxLog
  <2>1. MaxLog + 1 \in Int /\ MaxLog + k \in Int
    BY <1>1
  <2>2. IsFiniteSet(MaxLog + 1..MaxLog + k)
    BY <2>1, FS_Interval
  <2>3. \A i \in MaxLog + 1..MaxLog + k :
           i \in Nat /\ i > MaxLog /\ i \in 1..MaxLog + Cardinality(LogAgents) + 3
    BY <1>1, <1>2
  <2> QED
    BY <2>2, <2>3 DEF Filler, Values
<1>3. 3 \in Nat /\ 3 <= Cardinality(LogAgents) + 3
  BY <1>1
<1>4. \A k \in 0..Cardinality(LogAgents) : k \in Nat /\ k <= Cardinality(LogAgents) + 3
  BY <1>1
<1> QED
  BY <1>2, <1>3, <1>4 DEF Notes

LEMMA AgentLinesAre ==
    ASSUME log \in Seq(LogLines), Len(log) <= MaxLog, answering \in SUBSET LogAgents,
           NEW cursor \in Nat, NEW way \in {"asc", "desc"}
    PROVE  /\ AgentLines(cursor, way) \in SUBSET Nat /\ IsFiniteSet(AgentLines(cursor, way))
           /\ AgentLines(cursor, way) \in SUBSET Values
           /\ \A i \in AgentLines(cursor, way) : i \in Lines \/ i > MaxLog
           /\ cursor # 0 => \A i \in AgentLines(cursor, way) : i > MaxLog
<1> DEFINE usable == {a \in answering : cursor = 0 /\ LinesOf(a) # {}}
           own == (UNION {FirstIn(LinesOf(a), PageLimit, way) : a \in usable})
           k == Cardinality(LogAgents \ usable)
<1>1. /\ Lines \in SUBSET Nat /\ IsFiniteSet(Lines) /\ Lines \in SUBSET Values
      /\ \A a : LinesOf(a) \in SUBSET Nat /\ LinesOf(a) \in SUBSET Lines /\ IsFiniteSet(LinesOf(a))
  BY LinesTyped
<1>2. \A a : FirstIn(LinesOf(a), PageLimit, way) \in SUBSET Lines
  <2>1. \A a : FirstIn(LinesOf(a), PageLimit, way) \in SUBSET LinesOf(a)
    BY <1>1, LogTyped, FirstInIs
  <2> QED
    BY <1>1, <2>1
<1>3. own \in SUBSET Lines /\ IsFiniteSet(own)
  <2>1. own \in SUBSET Lines
    BY <1>2
  <2> HIDE DEF own
  <2> QED
    BY <1>1, <2>1, FS_Subset
<1>4. k \in 0..Cardinality(LogAgents)
  <2>1. LogAgents \ usable \in SUBSET LogAgents
    OBVIOUS
  <2> HIDE DEF usable
  <2>2. IsFiniteSet(LogAgents \ usable) /\ k <= Cardinality(LogAgents)
    BY <2>1, LogTyped, FS_Subset
  <2>3. k \in Nat
    BY <2>2, FS_CardinalityType
  <2> QED
    BY <2>2, <2>3, LogTyped
<1>5. AgentLines(cursor, way) = own \cup Filler(k)
  BY DEF AgentLines
<1>6. cursor # 0 => own = {}
  OBVIOUS
<1> HIDE DEF own, k
<1>7. /\ Filler(k) \in SUBSET Nat /\ IsFiniteSet(Filler(k)) /\ Filler(k) \in SUBSET Values
      /\ \A i \in Filler(k) : i > MaxLog
  BY <1>4, FillerTyped
<1>8. IsFiniteSet(own \cup Filler(k))
  BY <1>3, <1>7, FS_Union
<1>9. own \cup Filler(k) \in SUBSET Nat /\ own \cup Filler(k) \in SUBSET Values
  BY <1>1, <1>3, <1>7
<1> QED
  BY <1>3, <1>5, <1>6, <1>7, <1>8, <1>9

LEMMA PaginateTyped ==
    ASSUME NEW S \in SUBSET Nat, IsFiniteSet(S), NEW cursor \in Nat, NEW way \in {"asc", "desc"}
    PROVE  Paginate(S, cursor, way).items \in Seq(S) /\ Paginate(S, cursor, way).next \in Nat
<1>0. Cardinality(S) \in Nat /\ PageLimit \in Nat
  BY FS_CardinalityType, LogTyped
<1>1. CASE way = "asc"
  <2>1. PICK m : Forwards(S, cursor, Paginate(S, cursor, "asc"), m)
    BY PaginateForwards
  <2>2. m \in Nat /\ cursor + m \in Nat
    BY <1>0, <2>1 DEF Forwards
  <2> QED
    BY <1>1, <2>1, <2>2 DEF Forwards
<1>2. CASE way = "desc"
  <2> DEFINE first == IF cursor = 0 \/ cursor > Cardinality(S) THEN Cardinality(S) ELSE cursor - 1
  <2>0. first \in Nat
    BY <1>0
  <2> HIDE DEF first
  <2>1. PICK m : Backwards(S, first, Paginate(S, cursor, "desc"), m)
    BY PaginateBackwards DEF first
  <2>2. m \in Nat /\ first + 1 - m \in Nat
    BY <1>0, <2>0, <2>1 DEF Backwards
  <2> QED
    BY <1>2, <2>1, <2>2 DEF Backwards
<1> QED
  BY <1>1, <1>2

OfTheView(items) == {n \in DOMAIN items : items[n] \in Bad(Lines)}
LEMMA OfViewTyped ==
    ASSUME NEW view \in {"all", "exception"}, NEW A, NEW p,
           p.items \in Seq(A), p.next \in Nat, DOMAIN p = {"items", "next"}
    PROVE  OfView(view, p).items \in Seq(A) /\ OfView(view, p).next = p.next
<1>1. CASE view = "all"
  BY <1>1 DEF OfView
<1>2. CASE view # "all"
  <2> DEFINE K == OfTheView(p.items)
             c == Cardinality(K)
  <2>1. OfView(view, p) = [p EXCEPT !.items = Page(@, InTime(K)).items]
    BY <1>2 DEF OfView, OfTheView
  <2>2. Len(p.items) \in Nat /\ K \in SUBSET (1..Len(p.items))
    BY DEF OfTheView
  <2>3. K \in SUBSET Nat /\ IsFiniteSet(K)
    <3>1. IsFiniteSet(1..Len(p.items))
      BY <2>2, FS_Interval
    <3>2. 1..Len(p.items) \in SUBSET Nat
      BY <2>2
    <3> HIDE DEF K
    <3>3. K \in SUBSET Nat
      BY <2>2, <3>2
    <3> QED
      BY <2>2, <3>1, <3>3, FS_Subset
  <2> HIDE DEF K, c
  <2>4. /\ c \in Nat /\ DOMAIN InTime(K) = 1..c
        /\ \A i \in 1..c : InTime(K)[i] \in K
    BY <2>3, InTimeIs DEF c
  <2>5. \A i \in 1..c : p.items[InTime(K)[i]] \in A
    <3>1. \A k \in 1..Len(p.items) : p.items[k] \in A
      OBVIOUS
    <3>2. \A i \in 1..c : InTime(K)[i] \in 1..Len(p.items)
      BY <2>2, <2>4
    <3> QED
      BY <3>1, <3>2
  <2>6. Page(p.items, InTime(K)).items = [i \in 1..c |-> p.items[InTime(K)[i]]]
    BY <2>4 DEF Page
  <2>7. Page(p.items, InTime(K)).items \in [1..c -> A]
    BY <2>5, <2>6
  <2>8. Page(p.items, InTime(K)).items \in Seq(A)
    BY <2>4, <2>7
  <2> HIDE DEF K
  <2>9. OfView(view, p).items = Page(p.items, InTime(K)).items /\ OfView(view, p).next = p.next
    BY <2>1
  <2> QED
    BY <2>8, <2>9
<1> QED
  BY <1>1, <1>2

LEMMA PageShape ==
    ASSUME NEW S, NEW cursor, NEW way
    PROVE  DOMAIN Paginate(S, cursor, way) = {"items", "next"}
BY DEF Paginate, Page

\* What the lines of an answer can be.
Known(A) == A \in SUBSET Values /\ \A i \in A : i \in Lines \/ i > MaxLog

LEMMA AnswerTyped ==
    ASSUME LogTypes, NEW view \in {"all", "exception"}, NEW cursor \in Nat, NEW way \in {"asc", "desc"}
    PROVE  /\ GetLogs(view, cursor, way).next \in Nat
           /\ \E A : Known(A) /\ GetLogs(view, cursor, way).items \in Seq(A)
<1> DEFINE r == GetLogs(view, cursor, way)
<1>1. log \in Seq(LogLines) /\ Len(log) <= MaxLog /\ answering \in SUBSET LogAgents
  BY DEF LogTypes
<1>2. /\ Lines \in SUBSET Nat /\ IsFiniteSet(Lines) /\ Lines \in SUBSET Values
      /\ \A S : Bad(S) \in SUBSET Nat /\ Bad(S) \in SUBSET Lines /\ IsFiniteSet(Bad(S))
      /\ Exceptions \in SUBSET Nat /\ Exceptions \in SUBSET Lines /\ IsFiniteSet(Exceptions)
  BY <1>1, LinesTyped, ExceptionsAre
<1>3. \A S : S \in SUBSET Lines => Known(S)
  BY <1>2 DEF Known
<1>4. /\ AgentLines(cursor, way) \in SUBSET Nat /\ IsFiniteSet(AgentLines(cursor, way))
      /\ Known(AgentLines(cursor, way))
  BY <1>1, AgentLinesAre DEF Known
<1>5. Notes \in SUBSET Nat /\ IsFiniteSet(Notes) /\ Known(Notes) /\ {} \in SUBSET Nat /\ IsFiniteSet({})
  BY FillerTyped, FS_EmptySet DEF Known
<1>6. CASE r = Answer(<<"exceptions", answering>>, Paginate(Exceptions, cursor, way))
  <2>1. Paginate(Exceptions, cursor, way).items \in Seq(Exceptions)
        /\ Paginate(Exceptions, cursor, way).next \in Nat
    BY <1>2, PaginateTyped
  <2>2. Known(Exceptions)
    BY <1>2, <1>3
  <2> QED
    BY <1>6, <2>1, <2>2 DEF Answer
<1>7. CASE r = Answer(<<"agents", answering>>, OfView(view, Paginate(AgentLines(cursor, way), cursor, way)))
  <2> DEFINE S == AgentLines(cursor, way)
             p == Paginate(S, cursor, way)
  <2>1. p.items \in Seq(S) /\ p.next \in Nat /\ DOMAIN p = {"items", "next"}
    BY <1>4, PaginateTyped, PageShape
  <2> HIDE DEF S, p
  <2>2. OfView(view, p).items \in Seq(S) /\ OfView(view, p).next \in Nat
    BY <2>1, OfViewTyped
  <2> QED
    BY <1>4, <1>7, <2>2 DEF Answer, S, p
<1>8. CASE r = Answer(<<"archive">>, Paginate(Bad(Lines), cursor, way))
  <2>1. Paginate(Bad(Lines), cursor, way).items \in Seq(Bad(Lines))
        /\ Paginate(Bad(Lines), cursor, way).next \in Nat
    BY <1>2, PaginateTyped
  <2>2. Known(Bad(Lines))
    BY <1>2, <1>3
  <2> QED
    BY <1>8, <2>1, <2>2 DEF Answer
<1>9. CASE r = Answer(<<"archive">>, OfView(view, Paginate(Lines, cursor, way)))
  <2> DEFINE p == Paginate(Lines, cursor, way)
  <2>1. p.items \in Seq(Lines) /\ p.next \in Nat /\ DOMAIN p = {"items", "next"}
    BY <1>2, PaginateTyped, PageShape
  <2> HIDE DEF p
  <2>2. OfView(view, p).items \in Seq(Lines) /\ OfView(view, p).next \in Nat
    BY <2>1, OfViewTyped
  <2>3. Known(Lines)
    BY <1>3
  <2> QED
    BY <1>9, <2>2, <2>3 DEF Answer, p
<1>10. CASE r = Answer(<<"notes">>, Paginate(IF view = "all" THEN Notes ELSE {}, cursor, way))
  <2> DEFINE S == IF view = "all" THEN Notes ELSE {}
  <2>1. S \in SUBSET Nat /\ IsFiniteSet(S) /\ Known(S)
    BY <1>5, <1>3
  <2> HIDE DEF S
  <2>2. Paginate(S, cursor, way).items \in Seq(S) /\ Paginate(S, cursor, way).next \in Nat
    BY <2>1, PaginateTyped
  <2> QED
    BY <1>10, <2>1, <2>2 DEF Answer, S
<1> QED
  BY <1>6, <1>7, <1>8, <1>9, <1>10 DEF GetLogs

LEMMA ExceptionsAnswer ==
    ASSUME NEW view, NEW cursor, NEW way, NEW A,
           GetLogs(view, cursor, way).from = <<"exceptions", A>>
    PROVE  /\ A = answering
           /\ GetLogs(view, cursor, way).items = Paginate(Exceptions, cursor, way).items
           /\ GetLogs(view, cursor, way).next = Paginate(Exceptions, cursor, way).next
BY DEF GetLogs, Answer

LEMMA AgentsAnswer ==
    ASSUME NEW cursor, NEW way, NEW A, GetLogs("all", cursor, way).from = <<"agents", A>>
    PROVE  /\ A = answering /\ Paginate(AgentLines(cursor, way), cursor, way).items # <<>>
           /\ GetLogs("all", cursor, way).items = Paginate(AgentLines(cursor, way), cursor, way).items
           /\ GetLogs("all", cursor, way).next = Paginate(AgentLines(cursor, way), cursor, way).next
BY DEF GetLogs, Answer, OfView

LEMMA ArchiveAnswer ==
    ASSUME NEW cursor, NEW way, GetLogs("all", cursor, way).from = <<"archive">>
    PROVE  /\ GetLogs("all", cursor, way).items = Paginate(Lines, cursor, way).items
           /\ GetLogs("all", cursor, way).next = Paginate(Lines, cursor, way).next
BY DEF GetLogs, Answer, OfView

\* The agents' own lines come first, and none of them is left out of the first page.
LEMMA AgentsBegin ==
    ASSUME LogTypes, answering = LogAgents, NEW n \in Lines, n <= PageLimit
    PROVE  /\ n \in AgentLines(0, "asc") /\ n \in 1..Cardinality(AgentLines(0, "asc"))
           /\ InTime(AgentLines(0, "asc"))[n] = n
<1> DEFINE S == AgentLines(0, "asc")
<1>1. log \in Seq(LogLines) /\ Len(log) <= MaxLog /\ answering \in SUBSET LogAgents
  BY DEF LogTypes
<1>2. /\ Lines = 1..Len(log) /\ Len(log) \in Nat /\ PageLimit \in Nat
      /\ \A a : LinesOf(a) \in SUBSET Nat /\ LinesOf(a) \in SUBSET Lines /\ IsFiniteSet(LinesOf(a))
  BY <1>1, LinesTyped, LogTyped
<1>3. S \in SUBSET Nat /\ IsFiniteSet(S) /\ S \in SUBSET Values
  BY <1>1, AgentLinesAre
<1>4. ASSUME NEW i \in 1..n PROVE i \in S
  <2> DEFINE a == log[i].agent
  <2>1. i \in Lines /\ a \in LogAgents /\ i \in LinesOf(a)
    <3>1. i \in 1..Len(log)
      BY <1>2
    <3>2. log[i] \in LogLines
      BY <1>1, <3>1
    <3> QED
      BY <1>2, <3>1, <3>2 DEF LinesOf, LogLines
  <2>2. PlaceIn(LinesOf(a), i) < PageLimit
    <3>1. Earlier(LinesOf(a), i) \in SUBSET (1..i - 1)
      BY <1>2 DEF Earlier
    <3>2. IsFiniteSet(1..i - 1) /\ Cardinality(1..i - 1) = i - 1
      <4>1. 1 \in Int /\ i - 1 \in Int /\ (1 > i - 1 => i - 1 = 0) /\ (i - 1) - 1 + 1 = i - 1
        BY <1>2
      <4>2. IsFiniteSet(1..i - 1) /\ Cardinality(1..i - 1) = IF 1 > i - 1 THEN 0 ELSE (i - 1) - 1 + 1
        BY <4>1, FS_Interval
      <4> QED
        BY <4>1, <4>2
    <3>3. PlaceIn(LinesOf(a), i) <= i - 1
      BY <3>1, <3>2, FS_Subset DEF PlaceIn
    <3>4. PlaceIn(LinesOf(a), i) \in Nat
      BY <1>2, <2>1, RankTyped
    <3> QED
      BY <1>2, <3>3, <3>4
  <2> HIDE DEF a
  <2>3. i \in FirstIn(LinesOf(a), PageLimit, "asc")
    BY <1>2, <2>1, <2>2, FirstInIs
  <2>4. a \in answering /\ LinesOf(a) # {}
    BY <2>1
  <2> QED
    BY <2>3, <2>4 DEF AgentLines
<1>5. n \in S
  BY <1>2, <1>4
<1>6. Earlier(S, n) = 1..n - 1
  <2>1. \A j \in S : j \in Nat /\ j >= 1
    BY <1>3 DEF Values
  <2>2. \A j \in 1..n - 1 : j \in S /\ j < n
    BY <1>2, <1>4
  <2> HIDE DEF S
  <2>3. \A j \in S : j < n => j \in 1..n - 1
    BY <1>2, <2>1
  <2> QED
    BY <2>2, <2>3 DEF Earlier
<1>7. PlaceIn(S, n) = n - 1
  <2>1. 1 \in Int /\ n - 1 \in Int /\ (1 > n - 1 => n - 1 = 0) /\ (n - 1) - 1 + 1 = n - 1
    BY <1>2
  <2>2. Cardinality(1..n - 1) = IF 1 > n - 1 THEN 0 ELSE (n - 1) - 1 + 1
    BY <2>1, FS_Interval
  <2>3. Cardinality(1..n - 1) = n - 1
    BY <2>1, <2>2
  <2> QED
    BY <1>6, <2>3 DEF PlaceIn
<1> HIDE DEF S
<1>8. n \in 1..Cardinality(S)
  <2>1. PlaceIn(S, n) \in 0..Cardinality(S) - 1 /\ Cardinality(S) \in Nat
    BY <1>3, <1>5, RankTyped, FS_CardinalityType
  <2> QED
    BY <1>2, <1>7, <2>1
<1>9. InTime(S)[n] = n
  BY <1>3, <1>5, <1>7, <1>8, InTimeAt
<1> QED
  BY <1>5, <1>8, <1>9 DEF S

\* The pages of one view: the lines of S one after the other, up to the cursor.
PagesRun(S) ==
    /\ page.order = "asc" =>
          /\ Len(page.shown) <= Cardinality(S)
          /\ \A n \in 1..Len(page.shown) : page.shown[n] = InTime(S)[n]
          /\ page.cursor # 0 => page.cursor = Len(page.shown)
    /\ page.order = "desc" =>
          \E top \in 0..Cardinality(S) :
             /\ Len(page.shown) <= top
             /\ \A n \in 1..Len(page.shown) : page.shown[n] = InTime(S)[top + 1 - n]
             /\ page.cursor # 0 => Len(page.shown) # 0 /\ page.cursor = top + 1 - Len(page.shown)
ExceptionsRun ==
    \A A \in SUBSET LogAgents :
       page.from = {<<"exceptions", A>>} /\ AllScanned(A) => PagesRun(Exceptional(A))
AllLines == \A n \in DOMAIN page.shown : page.shown[n] \in Lines
LinesRun ==
    ThenArchives /\ AllLines =>
       /\ Len(page.shown) <= Len(log) /\ \A n \in 1..Len(page.shown) : page.shown[n] = n
       /\ page.cursor # 0 => page.cursor = Len(page.shown)
\* A cursor comes with a page.
Opened == page.cursor # 0 => page.from # {}
LogInv == LogTypes /\ ExceptionsRun /\ LinesRun /\ Opened

LEMMA LogStarts == LogInit => LogInv
<1> SUFFICES ASSUME LogInit PROVE LogInv
  OBVIOUS
<1>1. log = <<>> /\ answering = LogAgents /\ page = Closed
  BY DEF LogInit
<1>2. MaxLog \in Nat
  BY LogTyped
<1>3. LogTypes
  BY <1>1, <1>2 DEF LogTypes, Closed
<1>4. ExceptionsRun
  BY <1>1 DEF ExceptionsRun, Closed
<1>5. LinesRun
  BY <1>1 DEF LinesRun, Closed
<1>6. Opened
  BY <1>1 DEF Opened, Closed
<1> QED
  BY <1>3, <1>4, <1>5, <1>6 DEF LogInv

LEMMA RestKeeps ==
    ASSUME LogInv, UNCHANGED <<log, page>>, answering' \in SUBSET LogAgents
    PROVE  LogInv'
<1>1. LogTypes'
  BY DEF LogInv, LogTypes, Lines
<1>2. ExceptionsRun'
  <2>1. \A A : Exceptional(A)' = Exceptional(A) /\ (AllScanned(A)' <=> AllScanned(A))
    BY DEF AllScanned, LinesOf, Lines, Exceptional, Bad
  <2>2. page' = page /\ \A S : PagesRun(S) <=> PagesRun(S)'
    BY DEF PagesRun
  <2>3. ASSUME NEW A PROVE PagesRun(Exceptional(A)) => PagesRun(Exceptional(A))'
    <3>1. Exceptional(A)' = Exceptional(A)
      BY <2>1
    <3> QED
      BY <2>2, <3>1 DEF PagesRun
  <2> QED
    BY <2>1, <2>2, <2>3 DEF LogInv, ExceptionsRun
<1>3. LinesRun'
  BY DEF LogInv, LinesRun, ThenArchives, AllLines, Lines
<1>4. Opened'
  BY DEF LogInv, Opened
<1> QED
  BY <1>1, <1>2, <1>3, <1>4 DEF LogInv

\* A line that is written is behind the others.
LEMMA WriteLineKeeps == LogInv /\ WriteLine => LogInv'
<1> SUFFICES ASSUME LogInv, WriteLine PROVE LogInv'
  OBVIOUS
<1>0. LogTypes /\ ExceptionsRun /\ LinesRun /\ Opened
  BY DEF LogInv
<1>1. PICK a \in LogAgents, bad \in BOOLEAN : log' = Append(log, [agent |-> a, bad |-> bad])
  BY DEF WriteLine
<1>2. Len(log) < MaxLog /\ UNCHANGED <<archived, answering, page>>
  BY DEF WriteLine
<1>3. /\ log \in Seq(LogLines) /\ Len(log) <= MaxLog /\ MaxLog \in Nat /\ Len(log) \in Nat
      /\ [agent |-> a, bad |-> bad] \in LogLines
  BY <1>0, LogTyped DEF LogTypes, LogLines
<1>4. /\ log' \in Seq(LogLines) /\ Len(log') = Len(log) + 1 /\ Len(log') <= MaxLog
      /\ \A i \in 1..Len(log) : log'[i] = log[i]
  BY <1>1, <1>2, <1>3
<1>5. /\ Lines = 1..Len(log) /\ Lines' = 1..Len(log) + 1 /\ Lines \subseteq Lines'
      /\ Lines' \ Lines = {Len(log) + 1}
  BY <1>3, <1>4 DEF Lines
<1>6. /\ \A x : LinesOf(x) \in SUBSET Nat /\ LinesOf(x) \in SUBSET Lines /\ IsFiniteSet(LinesOf(x))
      /\ \A S : Bad(S) \in SUBSET Nat /\ Bad(S) \in SUBSET Lines /\ IsFiniteSet(Bad(S))
  BY <1>3, LinesTyped
<1>7. /\ IsFiniteSet(Lines')
      /\ \A x : LinesOf(x)' \in SUBSET Lines' /\ IsFiniteSet(LinesOf(x)') /\ LinesOf(x) \subseteq LinesOf(x)'
      /\ \A x : Exceptional(x)' \in SUBSET Nat /\ Exceptional(x)' \in SUBSET Lines' /\ IsFiniteSet(Exceptional(x)')
      /\ \A x : Exceptional(x) \subseteq Exceptional(x)' /\ Exceptional(x)' \ Exceptional(x) \subseteq Lines' \ Lines
  <2>1. IsFiniteSet(Lines') /\ Lines' \in SUBSET Nat
    <3>1. IsFiniteSet(1..Len(log) + 1)
      BY <1>3, FS_Interval
    <3> QED
      BY <1>3, <1>5, <3>1
  <2>2. \A x : LinesOf(x)' \in SUBSET Lines' /\ LinesOf(x) \subseteq LinesOf(x)'
               /\ LinesOf(x)' \cap Lines = LinesOf(x)
    BY <1>4, <1>5 DEF LinesOf
  <2>3. \A x : Exceptional(x) = {i \in Lines : log[i].bad /\ \E y \in x : i \in LinesOf(y)}
    BY <1>6 DEF Exceptional, Bad
  <2>4. \A x : Exceptional(x)' = {i \in Lines' : log'[i].bad /\ \E y \in x : i \in LinesOf(y)'}
    BY <2>2 DEF Exceptional, Bad
  <2>5. \A x : Exceptional(x) \subseteq Exceptional(x)' /\ Exceptional(x)' \ Exceptional(x) \subseteq Lines' \ Lines
    BY <1>4, <1>5, <2>2, <2>3, <2>4
  <2>6. \A x : Exceptional(x)' \in SUBSET Lines'
    BY <2>4
  <2>7. \A T \in SUBSET Lines' : IsFiniteSet(T) /\ T \in SUBSET Nat
    BY <2>1, FS_Subset
  <2> QED
    BY <2>1, <2>2, <2>5, <2>6, <2>7
<1>8. LogTypes'
  <2>1. \A n \in DOMAIN page.shown : page.shown[n] \in Lines' \/ page.shown[n] > MaxLog
    BY <1>0, <1>5 DEF LogTypes
  <2> QED
    BY <1>0, <1>2, <1>4, <2>1 DEF LogTypes
<1>9. ExceptionsRun'
  <2> SUFFICES ASSUME NEW A \in SUBSET LogAgents, page.from = {<<"exceptions", A>>}, AllScanned(A)'
               PROVE  PagesRun(Exceptional(A))'
    BY <1>2 DEF ExceptionsRun
  <2>1. AllScanned(A)
    <3> SUFFICES ASSUME NEW x \in A PROVE Cardinality(LinesOf(x)) <= ScanLimit
      BY DEF AllScanned
    <3>1. Cardinality(LinesOf(x)') <= ScanLimit
      BY DEF AllScanned
    <3>2. Cardinality(LinesOf(x)) <= Cardinality(LinesOf(x)')
      BY <1>7, FS_Subset
    <3>3. Cardinality(LinesOf(x)) \in Nat /\ Cardinality(LinesOf(x)') \in Nat /\ ScanLimit \in Nat
      BY <1>6, <1>7, FS_CardinalityType, LogTyped
    <3> QED
      BY <3>1, <3>2, <3>3
  <2> DEFINE S == Exceptional(A)
             T == Exceptional(A)'
  <2>2. PagesRun(S)
    BY <1>0, <2>1 DEF ExceptionsRun
  <2>3. /\ S \in SUBSET Nat /\ IsFiniteSet(S) /\ T \in SUBSET Nat /\ IsFiniteSet(T) /\ S \subseteq T
        /\ S \in SUBSET Lines /\ T \ S \subseteq {Len(log) + 1}
    BY <1>5, <1>6, <1>7 DEF Exceptional
  <2>4. \A i \in S, j \in T \ S : i < j
    BY <1>3, <1>5, <2>3
  <2>5. /\ Cardinality(S) <= Cardinality(T) /\ Cardinality(S) \in Nat /\ Cardinality(T) \in Nat
        /\ \A n \in 1..Cardinality(S) : InTime(T)[n] = InTime(S)[n]
    <3> HIDE DEF S, T
    <3> QED
      BY <2>3, <2>4, InTimeKeeps, FS_CardinalityType
  <2>6. Len(page.shown) \in Nat
    BY <1>0 DEF LogTypes
  <2>7. page.order = "asc" =>
           /\ Len(page.shown) <= Cardinality(T)
           /\ \A n \in 1..Len(page.shown) : page.shown[n] = InTime(T)[n]
           /\ page.cursor # 0 => page.cursor = Len(page.shown)
    <3> SUFFICES ASSUME page.order = "asc"
                 PROVE  /\ Len(page.shown) <= Cardinality(T)
                        /\ \A n \in 1..Len(page.shown) : page.shown[n] = InTime(T)[n]
                        /\ page.cursor # 0 => page.cursor = Len(page.shown)
      OBVIOUS
    <3>1. /\ Len(page.shown) <= Cardinality(S)
          /\ \A n \in 1..Len(page.shown) : page.shown[n] = InTime(S)[n]
          /\ page.cursor # 0 => page.cursor = Len(page.shown)
      BY <2>2 DEF PagesRun
    <3> HIDE DEF S, T
    <3>2. \A n \in 1..Len(page.shown) : n \in 1..Cardinality(S)
      BY <2>5, <2>6, <3>1
    <3> QED
      BY <2>5, <2>6, <3>1, <3>2
  <2>8. page.order = "desc" =>
           \E top \in 0..Cardinality(T) :
              /\ Len(page.shown) <= top
              /\ \A n \in 1..Len(page.shown) : page.shown[n] = InTime(T)[top + 1 - n]
              /\ page.cursor # 0 => Len(page.shown) # 0 /\ page.cursor = top + 1 - Len(page.shown)
    <3> SUFFICES ASSUME page.order = "desc"
                 PROVE  \E top \in 0..Cardinality(T) :
                           /\ Len(page.shown) <= top
                           /\ \A n \in 1..Len(page.shown) : page.shown[n] = InTime(T)[top + 1 - n]
                           /\ page.cursor # 0 => Len(page.shown) # 0 /\ page.cursor = top + 1 - Len(page.shown)
      OBVIOUS
    <3>1. PICK top \in 0..Cardinality(S) :
             /\ Len(page.shown) <= top
             /\ \A n \in 1..Len(page.shown) : page.shown[n] = InTime(S)[top + 1 - n]
             /\ page.cursor # 0 => Len(page.shown) # 0 /\ page.cursor = top + 1 - Len(page.shown)
      BY <2>2 DEF PagesRun
    <3> HIDE DEF S, T
    <3>2. \A n \in 1..Len(page.shown) : top + 1 - n \in 1..Cardinality(S)
      BY <2>5, <2>6, <3>1
    <3>3. top \in 0..Cardinality(T)
      BY <2>5
    <3>4. \A n \in 1..Len(page.shown) : page.shown[n] = InTime(T)[top + 1 - n]
      BY <2>5, <3>1, <3>2
    <3> QED
      BY <3>1, <3>3, <3>4
  <2> QED
    BY <1>2, <2>7, <2>8 DEF PagesRun
<1>10. LinesRun'
  <2> SUFFICES ASSUME ThenArchives, AllLines' PROVE LinesRun'
    BY <1>2 DEF LinesRun, ThenArchives
  <2>1. AllLines
    <3> SUFFICES ASSUME NEW n \in DOMAIN page.shown PROVE page.shown[n] \in Lines
      BY DEF AllLines
    <3>1. page.shown[n] \in Lines'
      BY <1>2 DEF AllLines
    <3>2. page.shown[n] \in Lines \/ page.shown[n] > MaxLog
      BY <1>0 DEF LogTypes
    <3> QED
      BY <1>3, <1>4, <1>5, <3>1, <3>2
  <2>2. /\ Len(page.shown) <= Len(log) /\ \A n \in 1..Len(page.shown) : page.shown[n] = n
        /\ page.cursor # 0 => page.cursor = Len(page.shown)
    BY <1>0, <2>1 DEF LinesRun
  <2>3. Len(page.shown) \in Nat
    BY <1>0 DEF LogTypes
  <2>4. Len(page.shown) <= Len(log')
    BY <1>3, <1>4, <2>2, <2>3
  <2> QED
    BY <1>2, <2>2, <2>4 DEF LinesRun
<1>11. Opened'
  BY <1>0, <1>2 DEF Opened
<1> QED
  BY <1>8, <1>9, <1>10, <1>11 DEF LogInv

LEMMA ExceptionalTyped ==
    ASSUME LogTypes
    PROVE  \A A : Exceptional(A) \in SUBSET Nat /\ IsFiniteSet(Exceptional(A)) /\ Cardinality(Exceptional(A)) \in Nat
<1>1. \A S : Bad(S) \in SUBSET Nat /\ IsFiniteSet(Bad(S))
  BY LinesTyped DEF LogTypes
<1>2. \A S : Cardinality(Bad(S)) \in Nat
  BY <1>1, FS_CardinalityType
<1> QED
  BY <1>1, <1>2 DEF Exceptional

\* A sequence of lines goes on with those of a page.
LEMMA PageGoesOn ==
    ASSUME NEW A, NEW B, NEW s \in Seq(A), NEW t \in Seq(B), A \subseteq Values, B \subseteq Values
    PROVE  /\ s \o t \in Seq(Values) /\ Len(s \o t) = Len(s) + Len(t) /\ Len(s) \in Nat /\ Len(t) \in Nat
           /\ \A n \in 1..Len(s) : (s \o t)[n] = s[n]
           /\ \A n \in 1..Len(t) : (s \o t)[Len(s) + n] = t[n] /\ Len(s) + n \in 1..Len(s \o t)
           /\ \A n \in 1..Len(s \o t) :
                 n \in 1..Len(s) \/ (n - Len(s) \in 1..Len(t) /\ (s \o t)[n] = t[n - Len(s)])
<1>1. Len(s) \in Nat /\ Len(t) \in Nat /\ Len(s \o t) = Len(s) + Len(t)
  OBVIOUS
<1>2. \A n \in 1..Len(s) : (s \o t)[n] = s[n]
  OBVIOUS
<1>3. ASSUME NEW n \in 1..Len(t)
      PROVE  (s \o t)[Len(s) + n] = t[n] /\ Len(s) + n \in 1..Len(s \o t)
  <2>1. Len(s) + n \in Len(s) + 1..Len(s) + Len(t) /\ (Len(s) + n) - Len(s) = n
    BY <1>1
  <2> QED
    BY <1>1, <2>1
<1>4. ASSUME NEW n \in 1..Len(s \o t)
      PROVE  n \in 1..Len(s) \/ (n - Len(s) \in 1..Len(t) /\ (s \o t)[n] = t[n - Len(s)])
  BY <1>1
<1>5. s \o t \in Seq(Values)
  <2>1. s \in Seq(Values) /\ t \in Seq(Values)
    BY SeqOfMore
  <2> QED
    BY <2>1
<1> QED
  BY <1>1, <1>2, <1>3, <1>4, <1>5

\* The next page of the same view.
LEMMA ExceptionsGoOn ==
    ASSUME LogTypes, NEW S \in SUBSET Nat, IsFiniteSet(S), S \subseteq Values, NEW p,
           page.cursor # 0, PagesRun(S), p = Paginate(S, page.cursor, page.order),
           page' = [page EXCEPT !.cursor = p.next, !.shown = @ \o p.items, !.from = page'.from]
    PROVE  /\ page'.order = page.order
           /\ page.order = "asc" =>
                 /\ Len(page'.shown) <= Cardinality(S)
                 /\ \A n \in 1..Len(page'.shown) : page'.shown[n] = InTime(S)[n]
                 /\ page'.cursor # 0 => page'.cursor = Len(page'.shown)
           /\ page.order = "desc" =>
                 \E top \in 0..Cardinality(S) :
                    /\ Len(page'.shown) <= top
                    /\ \A n \in 1..Len(page'.shown) : page'.shown[n] = InTime(S)[top + 1 - n]
                    /\ page'.cursor # 0 => Len(page'.shown) # 0 /\ page'.cursor = top + 1 - Len(page'.shown)
<1> DEFINE s == page.shown
           t == p.items
           k == Len(s)
           c == Cardinality(S)
<1>1. /\ page'.order = page.order /\ page'.cursor = p.next /\ page'.shown = s \o t
      /\ s \in Seq(Values) /\ page.cursor \in Nat /\ c \in Nat /\ page.order \in {"asc", "desc"}
  BY FS_CardinalityType DEF LogTypes
<1>2. t \in Seq(S) /\ p.next \in Nat
  BY <1>1, PaginateTyped
<1>3. /\ s \o t \in Seq(Values) /\ Len(s \o t) = k + Len(t) /\ k \in Nat /\ Len(t) \in Nat
      /\ \A n \in 1..k : (s \o t)[n] = s[n]
      /\ \A n \in 1..Len(s \o t) :
            n \in 1..k \/ (n - k \in 1..Len(t) /\ (s \o t)[n] = t[n - k])
  <2>1. s \in Seq(Values) /\ t \in Seq(S) /\ S \subseteq Values /\ Values \subseteq Values
    BY <1>1, <1>2
  <2> HIDE DEF s, t
  <2> QED
    BY <2>1, PageGoesOn
<1>4. ASSUME page.order = "asc"
      PROVE  /\ Len(page'.shown) <= c
             /\ \A n \in 1..Len(page'.shown) : page'.shown[n] = InTime(S)[n]
             /\ page'.cursor # 0 => page'.cursor = Len(page'.shown)
  <2>1. k <= c /\ page.cursor = k /\ \A n \in 1..k : s[n] = InTime(S)[n]
    BY <1>4 DEF PagesRun
  <2>2. PICK m : Forwards(S, k, p, m)
    BY <1>1, <1>4, <2>1, PaginateForwards
  <2>3. /\ m \in Nat /\ Len(t) = m /\ (m = 0 \/ k + m <= c)
        /\ \A n \in 1..m : t[n] = InTime(S)[k + n]
        /\ p.next = IF m = 0 THEN 0 ELSE k + m
    BY <2>2, LogTyped DEF Forwards
  <2> HIDE DEF k, c, s, t
  <2>4. ASSUME NEW n \in 1..Len(page'.shown) PROVE page'.shown[n] = InTime(S)[n]
    <3>1. CASE n \in 1..k
      BY <1>1, <1>3, <2>1, <3>1
    <3>2. CASE n \notin 1..k
      <4>1. n - k \in 1..m /\ page'.shown[n] = t[n - k] /\ k + (n - k) = n
        BY <1>1, <1>3, <2>3, <3>2
      <4> QED
        BY <2>3, <4>1
    <3> QED
      BY <3>1, <3>2
  <2> QED
    BY <1>1, <1>3, <2>1, <2>3, <2>4
<1>5. ASSUME page.order = "desc"
      PROVE  \E top \in 0..c :
                    /\ Len(page'.shown) <= top
                    /\ \A n \in 1..Len(page'.shown) : page'.shown[n] = InTime(S)[top + 1 - n]
                    /\ page'.cursor # 0 => Len(page'.shown) # 0 /\ page'.cursor = top + 1 - Len(page'.shown)
  <2>1. PICK top \in 0..c :
             /\ k <= top
             /\ \A n \in 1..k : s[n] = InTime(S)[top + 1 - n]
             /\ k # 0 /\ page.cursor = top + 1 - k
    BY <1>5 DEF PagesRun
  <2> DEFINE first == top - k
  <2>2. first = IF page.cursor = 0 \/ page.cursor > c THEN c ELSE page.cursor - 1
    BY <1>1, <1>3, <2>1
  <2> HIDE DEF first
  <2>3. PICK m : Backwards(S, first, p, m)
    <3>1. \E m : Backwards(S, first, Paginate(S, page.cursor, "desc"), m)
      BY <1>1, <2>2, PaginateBackwards
    <3> QED
      BY <1>5, <3>1
  <2>4. /\ m \in Nat /\ Len(t) = m /\ m <= first
        /\ \A n \in 1..m : t[n] = InTime(S)[first + 1 - n]
        /\ p.next = IF m = 0 THEN 0 ELSE first + 1 - m
    BY <2>3, LogTyped DEF Backwards
  <2> HIDE DEF k, c, s, t
  <2>5. ASSUME NEW n \in 1..Len(page'.shown) PROVE page'.shown[n] = InTime(S)[top + 1 - n]
    <3>1. CASE n \in 1..k
      BY <1>1, <1>3, <2>1, <3>1
    <3>2. CASE n \notin 1..k
      <4>1. n - k \in 1..m /\ page'.shown[n] = t[n - k]
        BY <1>1, <1>3, <2>4, <3>2
      <4>2. n \in Int /\ k \in Int /\ top \in Int
        BY <1>1, <1>3, <2>1
      <4>3. first + 1 - (n - k) = top + 1 - n
        BY <4>2 DEF first
      <4> QED
        BY <2>4, <4>1, <4>3
    <3> QED
      BY <3>1, <3>2
  <2>6. Len(page'.shown) = k + m /\ k + m <= top /\ k + m \in Nat
    BY <1>1, <1>3, <2>1, <2>4 DEF first
  <2>7. page'.cursor # 0 => Len(page'.shown) # 0 /\ page'.cursor = top + 1 - Len(page'.shown)
    BY <1>1, <1>3, <2>1, <2>4, <2>6 DEF first
  <2> QED
    BY <2>1, <2>5, <2>6, <2>7
<1> QED
  BY <1>1, <1>4, <1>5

\* The lines of an agent's first page that all are written lines are the first lines of all.
LEMMA AgentsRun ==
    ASSUME LogTypes, answering = LogAgents, NEW p, NEW m,
           Forwards(AgentLines(0, "asc"), 0, p, m), \A n \in 1..m : p.items[n] \in Lines
    PROVE  m \in Nat /\ m <= Len(log) /\ \A n \in 1..m : p.items[n] = n
<1> DEFINE T == AgentLines(0, "asc")
<1>1. /\ log \in Seq(LogLines) /\ Len(log) <= MaxLog /\ answering \in SUBSET LogAgents
      /\ Lines = 1..Len(log) /\ Len(log) \in Nat /\ PageLimit \in Nat
  BY LinesTyped, LogTyped DEF LogTypes
<1>2. T \in SUBSET Nat /\ IsFiniteSet(T) /\ Cardinality(T) \in Nat
  BY <1>1, AgentLinesAre, FS_CardinalityType
<1> HIDE DEF T
<1>3. /\ m \in Nat /\ m <= PageLimit /\ (m = 0 \/ m <= Cardinality(T))
      /\ \A n \in 1..m : p.items[n] = InTime(T)[n]
  BY <1>1, <1>2 DEF Forwards, T
<1>4. \A n \in 1..m : n \in Lines => p.items[n] = n
  BY <1>1, <1>3, AgentsBegin DEF T
<1>5. m <= Len(log)
  <2> SUFFICES ASSUME m > Len(log) PROVE FALSE
    BY <1>1, <1>3
  <2> DEFINE n == Len(log) + 1
             j == p.items[n]
  <2>1. n \in 1..m
    BY <1>1, <1>3
  <2>2. j \in Lines
    BY <2>1
  <2>3. j \in 1..m /\ j < n
    BY <1>1, <1>3, <2>2
  <2>4. p.items[j] = j /\ InTime(T)[n] = InTime(T)[j]
    BY <1>3, <1>4, <2>1, <2>2, <2>3
  <2>5. n \in 1..Cardinality(T) /\ j \in 1..Cardinality(T)
    BY <1>2, <1>3, <2>1, <2>3
  <2>6. PlaceIn(T, InTime(T)[n]) = n - 1 /\ PlaceIn(T, InTime(T)[j]) = j - 1
    <3> HIDE DEF n, j
    <3> QED
      BY <1>2, <2>5, InTimeIs
  <2> QED
    BY <1>1, <2>2, <2>3, <2>4, <2>6
<1> QED
  BY <1>1, <1>3, <1>4, <1>5

\* Opening the log.
LEMMA OpenLogKeeps ==
    ASSUME LogInv, NEW view \in {"all", "exception"}, NEW way \in {"asc", "desc"}, OpenLog(view, way)
    PROVE  LogInv'
<1> DEFINE r == GetLogs(view, 0, way)
<1>0. LogTypes /\ ExceptionsRun /\ LinesRun
  BY DEF LogInv
<1>1. /\ page' = [view |-> view, order |-> way, cursor |-> r.next, shown |-> r.items, from |-> {r.from}]
      /\ UNCHANGED <<log, archived, answering>>
  BY DEF OpenLog
<1>2. /\ log \in Seq(LogLines) /\ Len(log) <= MaxLog /\ answering \in SUBSET LogAgents
      /\ Lines = 1..Len(log) /\ Len(log) \in Nat /\ Lines \in SUBSET Nat /\ IsFiniteSet(Lines)
      /\ Cardinality(Lines) = Len(log) /\ \A n \in Lines : InTime(Lines)[n] = n
  BY <1>0, LinesTyped DEF LogTypes
<1>3. r.next \in Nat /\ \E A : Known(A) /\ r.items \in Seq(A)
  BY <1>0, AnswerTyped
<1>4. PICK A : Known(A) /\ r.items \in Seq(A)
  BY <1>3
<1> HIDE DEF r
<1>5. r.items \in Seq(Values) /\ \A n \in DOMAIN r.items : r.items[n] \in Lines \/ r.items[n] > MaxLog
  <2>1. A \subseteq Values /\ \A i \in A : i \in Lines \/ i > MaxLog
    BY <1>4 DEF Known
  <2>2. r.items \in Seq(Values)
    BY <1>4, <2>1, SeqOfMore
  <2>3. \A n \in DOMAIN r.items : r.items[n] \in A
    BY <1>4
  <2> QED
    BY <2>1, <2>2, <2>3
<1>6. Lines' = Lines /\ \A S : Bad(S)' = Bad(S)
  BY <1>1 DEF Lines, Bad
<1>7. LogTypes'
  BY <1>0, <1>1, <1>3, <1>5, <1>6 DEF LogTypes
<1>8. ExceptionsRun'
  <2> SUFFICES ASSUME NEW B \in SUBSET LogAgents, page'.from = {<<"exceptions", B>>}, AllScanned(B)'
               PROVE  PagesRun(Exceptional(B))'
    BY DEF ExceptionsRun
  <2>1. AllScanned(B) /\ Exceptional(B)' = Exceptional(B)
    BY <1>1 DEF AllScanned, LinesOf, Lines, Exceptional, Bad
  <2>2. r.from = <<"exceptions", B>>
    BY <1>1
  <2>3. B = answering /\ r.items = Paginate(Exceptions, 0, way).items /\ r.next = Paginate(Exceptions, 0, way).next
    BY <2>2, ExceptionsAnswer DEF r
  <2>4. Exceptions = Exceptional(B) /\ Exceptional(B) \in SUBSET Nat /\ IsFiniteSet(Exceptional(B))
    BY <1>2, <2>1, <2>3, ExceptionsAre
  <2> DEFINE S == Exceptional(B)
             p == Paginate(S, 0, way)
             c == Cardinality(S)
  <2>5. c \in Nat /\ page'.shown = p.items /\ page'.cursor = p.next /\ page'.order = way
    BY <1>1, <2>3, <2>4, FS_CardinalityType
  <2> HIDE DEF S, c
  <2>6. ASSUME way = "asc"
        PROVE  /\ Len(page'.shown) <= c
               /\ \A n \in 1..Len(page'.shown) : page'.shown[n] = InTime(S)[n]
               /\ page'.cursor # 0 => page'.cursor = Len(page'.shown)
    <3>1. PICK m : Forwards(S, 0, p, m)
      BY <2>4, <2>6, PaginateForwards DEF S
    <3> HIDE DEF p
    <3>2. m \in Nat
      BY <3>1, LogTyped DEF Forwards
    <3> QED
      BY <2>5, <3>1, <3>2 DEF Forwards, c
  <2>7. ASSUME way = "desc"
        PROVE  \E top \in 0..c :
                  /\ Len(page'.shown) <= top
                  /\ \A n \in 1..Len(page'.shown) : page'.shown[n] = InTime(S)[top + 1 - n]
                  /\ page'.cursor # 0 => Len(page'.shown) # 0 /\ page'.cursor = top + 1 - Len(page'.shown)
    <3>1. PICK m : Backwards(S, c, p, m)
      <4>1. \E m : Backwards(S, c, Paginate(S, 0, "desc"), m)
        BY <2>4, PaginateBackwards DEF S, c
      <4> QED
        BY <2>7, <4>1
    <3> HIDE DEF p
    <3>2. m \in Nat
      BY <3>1, LogTyped DEF Backwards
    <3>3. c \in 0..c
      BY <2>5
    <3>4. /\ Len(page'.shown) = m /\ m <= c
          /\ \A n \in 1..m : page'.shown[n] = InTime(S)[c + 1 - n]
          /\ page'.cursor = IF m = 0 THEN 0 ELSE c + 1 - m
      BY <2>5, <3>1 DEF Backwards
    <3> QED
      BY <3>2, <3>3, <3>4
  <2>8. Exceptional(B)' = S
    BY <2>1 DEF S
  <2> QED
    BY <2>5, <2>6, <2>7, <2>8 DEF PagesRun, c
<1>9. LinesRun'
  <2> SUFFICES ASSUME ThenArchives', AllLines' PROVE LinesRun'
    BY DEF LinesRun
  <2>1. /\ view = "all" /\ way = "asc" /\ r.from \in {<<"agents", LogAgents>>, <<"archive">>}
        /\ page'.shown = r.items /\ page'.cursor = r.next /\ log' = log
    BY <1>1 DEF ThenArchives
  <2>2. \A n \in 1..Len(r.items) : r.items[n] \in Lines
    BY <1>5, <1>6, <2>1 DEF AllLines
  <2>3. ASSUME NEW S, NEW m, Forwards(S, 0, Paginate(S, 0, "asc"), m), m \in Nat,
               r.items = Paginate(S, 0, "asc").items, r.next = Paginate(S, 0, "asc").next
        PROVE  Len(r.items) = m /\ (r.next # 0 => r.next = m)
    BY <2>3 DEF Forwards
  <2>4. CASE r.from = <<"archive">>
    <3>1. r.items = Paginate(Lines, 0, "asc").items /\ r.next = Paginate(Lines, 0, "asc").next
      BY <2>1, <2>4, ArchiveAnswer DEF r
    <3>2. PICK m : Forwards(Lines, 0, Paginate(Lines, 0, "asc"), m)
      BY <1>2, PaginateForwards
    <3>3. m \in Nat
      BY <3>2, LogTyped DEF Forwards
    <3>4. m <= Len(log) /\ \A n \in 1..m : r.items[n] = n
      BY <1>2, <3>1, <3>2, <3>3 DEF Forwards
    <3>5. Len(r.items) = m /\ (r.next # 0 => r.next = m)
      BY <2>3, <3>1, <3>2, <3>3
    <3> QED
      BY <2>1, <3>4, <3>5 DEF LinesRun
  <2>5. CASE r.from = <<"agents", LogAgents>>
    <3> DEFINE T == AgentLines(0, "asc")
    <3>1. answering = LogAgents /\ r.items = Paginate(T, 0, "asc").items /\ r.next = Paginate(T, 0, "asc").next
      BY <2>1, <2>5, AgentsAnswer DEF r
    <3>2. T \in SUBSET Nat /\ IsFiniteSet(T)
      BY <1>2, AgentLinesAre
    <3>3. PICK m : Forwards(T, 0, Paginate(T, 0, "asc"), m)
      BY <3>2, PaginateForwards
    <3>4. m \in Nat
      BY <3>3, LogTyped DEF Forwards
    <3>5. Len(r.items) = m /\ (r.next # 0 => r.next = m)
      BY <2>3, <3>1, <3>3, <3>4
    <3>6. m <= Len(log) /\ \A n \in 1..m : r.items[n] = n
      BY <1>0, <2>2, <3>1, <3>3, <3>5, AgentsRun
    <3> QED
      BY <2>1, <3>5, <3>6 DEF LinesRun
  <2> QED
    BY <2>1, <2>4, <2>5
<1>10. Opened'
  BY <1>1 DEF Opened
<1> QED
  BY <1>7, <1>8, <1>9, <1>10 DEF LogInv

\* The next page of all lines: agents refuse the cursor, the archive goes on after it.
LEMMA LinesGoOn ==
    ASSUME LogTypes, LinesRun, Opened, page.cursor # 0, ThenArchives, AllLines,
           NEW r, r = GetLogs(page.view, page.cursor, page.order),
           r.from \in {<<"agents", LogAgents>>, <<"archive">>},
           \A n \in 1..Len(r.items) : r.items[n] \in Lines
    PROVE  \E m \in Nat :
              /\ Len(r.items) = m /\ Len(page.shown) + m <= Len(log)
              /\ \A n \in 1..m : r.items[n] = Len(page.shown) + n
              /\ r.next # 0 => r.next = Len(page.shown) + m
<1> DEFINE k == Len(page.shown)
<1>1. /\ log \in Seq(LogLines) /\ Len(log) <= MaxLog /\ answering \in SUBSET LogAgents
      /\ Lines = 1..Len(log) /\ Len(log) \in Nat /\ Lines \in SUBSET Nat /\ IsFiniteSet(Lines)
      /\ Cardinality(Lines) = Len(log) /\ \A n \in Lines : InTime(Lines)[n] = n
      /\ MaxLog \in Nat
  BY LinesTyped, LogTyped DEF LogTypes
<1>2. /\ k <= Len(log) /\ page.cursor = k /\ page.view = "all" /\ page.order = "asc"
  BY DEF LinesRun, ThenArchives
<1>3. k \in Nat /\ k # 0
  BY <1>2 DEF LogTypes
<1>4. r = GetLogs("all", k, "asc")
  BY <1>2
<1> HIDE DEF k
<1>5. CASE r.from = <<"agents", LogAgents>>
  <2> DEFINE T == AgentLines(k, "asc")
             p == Paginate(T, k, "asc")
  <2>1. p.items # <<>> /\ r.items = p.items
    BY <1>4, <1>5, AgentsAnswer
  <2>2. T \in SUBSET Nat /\ IsFiniteSet(T) /\ \A i \in T : i > MaxLog
    BY <1>1, <1>3, AgentLinesAre
  <2> HIDE DEF T
  <2>3. p.items \in Seq(T)
    BY <1>3, <2>2, PaginateTyped
  <2> HIDE DEF p
  <2>4. 1 \in 1..Len(r.items) /\ r.items[1] \in T
    BY <2>1, <2>3
  <2>5. r.items[1] \in 1..Len(log) /\ r.items[1] > MaxLog
    BY <1>1, <2>2, <2>4
  <2> QED
    BY <1>1, <2>5
<1>6. CASE r.from = <<"archive">>
  <2> DEFINE p == Paginate(Lines, k, "asc")
  <2>1. r.items = p.items /\ r.next = p.next
    BY <1>4, <1>6, ArchiveAnswer
  <2>2. PICK m : Forwards(Lines, k, p, m)
    BY <1>1, <1>3, PaginateForwards
  <2> HIDE DEF p
  <2>3. m \in Nat /\ Len(r.items) = m
    BY <2>1, <2>2, LogTyped DEF Forwards
  <2>4. k + m <= Len(log)
    BY <1>1, <1>2, <1>3, <2>2, <2>3 DEF Forwards
  <2>5. ASSUME NEW n \in 1..m PROVE r.items[n] = k + n
    <3>1. k + n \in Lines
      BY <1>1, <1>3, <2>3, <2>4
    <3>2. r.items[n] = InTime(Lines)[k + n]
      BY <2>1, <2>2 DEF Forwards
    <3> QED
      BY <1>1, <3>1, <3>2
  <2>6. r.next # 0 => r.next = k + m
    BY <2>1, <2>2 DEF Forwards
  <2> QED
    BY <2>3, <2>4, <2>5, <2>6 DEF k
<1> QED
  BY <1>5, <1>6

\* Loading more.
LEMMA LoadMoreKeeps == LogInv /\ LoadMore => LogInv'
<1> SUFFICES ASSUME LogInv, LoadMore PROVE LogInv'
  OBVIOUS
<1> DEFINE r == GetLogs(page.view, page.cursor, page.order)
           s == page.shown
<1>0. LogTypes /\ ExceptionsRun /\ LinesRun /\ Opened
  BY DEF LogInv
<1>1. /\ page.cursor # 0 /\ page' = [page EXCEPT !.cursor = r.next, !.shown = @ \o r.items, !.from = @ \cup {r.from}]
      /\ UNCHANGED <<log, archived, answering>>
  BY DEF LoadMore
<1>2. /\ log \in Seq(LogLines) /\ Len(log) <= MaxLog /\ answering \in SUBSET LogAgents
      /\ page.view \in {"all", "exception"} /\ page.order \in {"asc", "desc"} /\ page.cursor \in Nat
      /\ s \in Seq(Values) /\ Lines = 1..Len(log) /\ Len(log) \in Nat
  BY <1>0, LinesTyped DEF LogTypes
<1>3. r.next \in Nat /\ \E A : Known(A) /\ r.items \in Seq(A)
  BY <1>0, <1>2, AnswerTyped
<1>4. PICK A : Known(A) /\ r.items \in Seq(A)
  BY <1>3
<1> HIDE DEF r
<1>5. /\ page'.shown = s \o r.items /\ page'.cursor = r.next /\ page'.from = page.from \cup {r.from}
      /\ page'.order = page.order /\ page'.view = page.view
      /\ DOMAIN page' = {"view", "order", "cursor", "shown", "from"}
  BY <1>0, <1>1 DEF LogTypes
<1>6. /\ s \o r.items \in Seq(Values) /\ Len(s \o r.items) = Len(s) + Len(r.items)
      /\ Len(s) \in Nat /\ Len(r.items) \in Nat
      /\ \A n \in 1..Len(s) : (s \o r.items)[n] = s[n]
      /\ \A n \in 1..Len(r.items) : (s \o r.items)[Len(s) + n] = r.items[n] /\ Len(s) + n \in 1..Len(s \o r.items)
      /\ \A n \in 1..Len(s \o r.items) :
            n \in 1..Len(s) \/ (n - Len(s) \in 1..Len(r.items) /\ (s \o r.items)[n] = r.items[n - Len(s)])
  <2>1. A \subseteq Values /\ Values \subseteq Values
    BY <1>4 DEF Known
  <2> HIDE DEF s
  <2> QED
    BY <1>2, <1>4, <2>1, PageGoesOn
<1>7. \A n \in 1..Len(r.items) : r.items[n] \in Lines \/ r.items[n] > MaxLog
  BY <1>4 DEF Known
<1>8. Lines' = Lines
  BY <1>1 DEF Lines
<1> HIDE DEF s
<1>9. LogTypes'
  <2>1. \A n \in 1..Len(page'.shown) : page'.shown[n] \in Lines' \/ page'.shown[n] > MaxLog
    <3> SUFFICES ASSUME NEW n \in 1..Len(s \o r.items)
                 PROVE  (s \o r.items)[n] \in Lines \/ (s \o r.items)[n] > MaxLog
      BY <1>5, <1>8
    <3>1. CASE n \in 1..Len(s)
      <4>1. \A i \in DOMAIN s : s[i] \in Lines \/ s[i] > MaxLog
        BY <1>0 DEF LogTypes, s
      <4> QED
        BY <1>2, <1>6, <3>1, <4>1
    <3>2. CASE n - Len(s) \in 1..Len(r.items) /\ (s \o r.items)[n] = r.items[n - Len(s)]
      BY <1>7, <3>2
    <3> QED
      BY <1>6, <3>1, <3>2
  <2>2. page'.shown \in Seq(Values) /\ page'.cursor \in Nat
    BY <1>3, <1>5, <1>6
  <2>3. \A n \in DOMAIN page'.shown : page'.shown[n] \in Lines' \/ page'.shown[n] > MaxLog
    BY <2>1, <2>2
  <2> QED
    BY <1>1, <1>2, <1>5, <2>2, <2>3 DEF LogTypes
<1>10. ExceptionsRun'
  <2> SUFFICES ASSUME NEW B \in SUBSET LogAgents, page'.from = {<<"exceptions", B>>}, AllScanned(B)'
               PROVE  PagesRun(Exceptional(B))'
    BY DEF ExceptionsRun
  <2>1. AllScanned(B) /\ Exceptional(B)' = Exceptional(B)
    BY <1>1 DEF AllScanned, LinesOf, Lines, Exceptional, Bad
  <2>2. r.from = <<"exceptions", B>> /\ page.from = {<<"exceptions", B>>}
    BY <1>0, <1>1, <1>5 DEF Opened
  <2> DEFINE S == Exceptional(B)
             p == Paginate(S, page.cursor, page.order)
  <2>3. /\ B = answering /\ r.items = Paginate(Exceptions, page.cursor, page.order).items
        /\ r.next = Paginate(Exceptions, page.cursor, page.order).next
    BY <2>2, ExceptionsAnswer DEF r
  <2>4. Exceptions = S
    BY <1>2, <2>1, <2>3, ExceptionsAre
  <2>5. S \in SUBSET Nat /\ IsFiniteSet(S) /\ S \subseteq Values
    <3>1. \A X : Bad(X) \in SUBSET Nat /\ Bad(X) \in SUBSET Lines /\ IsFiniteSet(Bad(X))
      BY <1>2, LinesTyped
    <3>2. Lines \in SUBSET Values
      BY <1>2, LinesTyped
    <3> QED
      BY <3>1, <3>2 DEF Exceptional
  <2>6. PagesRun(S)
    BY <1>0, <2>1, <2>2 DEF ExceptionsRun
  <2> HIDE DEF S
  <2>7. page' = [page EXCEPT !.cursor = p.next, !.shown = @ \o p.items, !.from = page'.from]
    <3>1. r.items = p.items /\ r.next = p.next
      BY <2>3, <2>4
    <3> HIDE DEF p
    <3> QED
      BY <1>1, <3>1
  <2> DEFINE Next ==
        /\ page'.order = page.order
        /\ page.order = "asc" =>
              /\ Len(page'.shown) <= Cardinality(S)
              /\ \A n \in 1..Len(page'.shown) : page'.shown[n] = InTime(S)[n]
              /\ page'.cursor # 0 => page'.cursor = Len(page'.shown)
        /\ page.order = "desc" =>
              \E top \in 0..Cardinality(S) :
                 /\ Len(page'.shown) <= top
                 /\ \A n \in 1..Len(page'.shown) : page'.shown[n] = InTime(S)[top + 1 - n]
                 /\ page'.cursor # 0 => Len(page'.shown) # 0 /\ page'.cursor = top + 1 - Len(page'.shown)
  <2>8. Next
    <3> DEFINE q == p
    <3>1. q = Paginate(S, page.cursor, page.order)
      OBVIOUS
    <3>2. page' = [page EXCEPT !.cursor = q.next, !.shown = @ \o q.items, !.from = page'.from]
      BY <2>7
    <3> HIDE DEF q, p
    <3> QED
      BY <1>0, <1>1, <2>5, <2>6, <3>1, <3>2, ExceptionsGoOn
  <2>9. Exceptional(B)' = S
    BY <2>1 DEF S
  <2> QED
    BY <2>8, <2>9 DEF PagesRun
<1>11. LinesRun'
  <2> SUFFICES ASSUME ThenArchives', AllLines' PROVE LinesRun'
    BY DEF LinesRun
  <2>1. ThenArchives /\ r.from \in {<<"agents", LogAgents>>, <<"archive">>}
    BY <1>5 DEF ThenArchives
  <2>2. AllLines /\ \A n \in 1..Len(r.items) : r.items[n] \in Lines
    <3>1. \A n \in 1..Len(s \o r.items) : (s \o r.items)[n] \in Lines
      BY <1>5, <1>6, <1>8 DEF AllLines
    <3>2. \A n \in 1..Len(s) : n \in 1..Len(s \o r.items)
      BY <1>6
    <3>3. \A n \in 1..Len(s) : s[n] \in Lines
      BY <1>6, <3>1, <3>2
    <3>4. \A n \in 1..Len(r.items) : r.items[n] \in Lines
      BY <1>6, <3>1
    <3> QED
      BY <1>2, <3>3, <3>4 DEF AllLines, s
  <2>3. PICK m \in Nat :
           /\ Len(r.items) = m /\ Len(s) + m <= Len(log)
           /\ \A n \in 1..m : r.items[n] = Len(s) + n
           /\ r.next # 0 => r.next = Len(s) + m
    <3>1. r = GetLogs(page.view, page.cursor, page.order)
      BY DEF r
    <3> QED
      BY <1>0, <1>1, <2>1, <2>2, <3>1, LinesGoOn DEF s
  <2>4. \A n \in 1..Len(s) : s[n] = n
    BY <1>0, <2>1, <2>2 DEF LinesRun, s
  <2>5. ASSUME NEW n \in 1..Len(s \o r.items) PROVE (s \o r.items)[n] = n
    <3>1. CASE n \in 1..Len(s)
      BY <1>6, <2>4, <3>1
    <3>2. CASE n - Len(s) \in 1..Len(r.items) /\ (s \o r.items)[n] = r.items[n - Len(s)]
      <4>1. Len(s) + (n - Len(s)) = n
        BY <1>6
      <4> QED
        BY <2>3, <3>2, <4>1
    <3> QED
      BY <1>6, <3>1, <3>2
  <2> QED
    BY <1>1, <1>5, <1>6, <2>3, <2>5 DEF LinesRun
<1>12. Opened'
  BY <1>5 DEF Opened
<1> QED
  BY <1>9, <1>10, <1>11, <1>12 DEF LogInv

LEMMA LogKeeps == LogInv /\ [LogNext]_logVars => LogInv'
<1> SUFFICES ASSUME LogInv, [LogNext]_logVars PROVE LogInv'
  OBVIOUS
<1>1. CASE WriteLine
  BY <1>1, WriteLineKeeps
<1>2. CASE Archive
  <2>1. UNCHANGED <<log, page>> /\ answering' \in SUBSET LogAgents
    BY <1>2 DEF Archive, LogInv, LogTypes
  <2> QED
    BY <2>1, RestKeeps
<1>3. CASE LoseAgent
  <2>1. UNCHANGED <<log, page>> /\ answering' \in SUBSET LogAgents
    BY <1>3 DEF LoseAgent, LogInv, LogTypes
  <2> QED
    BY <2>1, RestKeeps
<1>4. CASE LoadMore
  BY <1>4, LoadMoreKeeps
<1>5. CASE \E view \in {"all", "exception"}, way \in {"asc", "desc"} : OpenLog(view, way)
  BY <1>5, OpenLogKeeps
<1>6. CASE UNCHANGED logVars
  <2>1. UNCHANGED <<log, page>> /\ answering' \in SUBSET LogAgents
    BY <1>6 DEF logVars, LogInv, LogTypes
  <2> QED
    BY <2>1, RestKeeps
<1> QED
  BY <1>1, <1>2, <1>3, <1>4, <1>5, <1>6 DEF LogNext

\* Lines with successive numbers join, in either order.
LEMMA RunsJoin ==
    ASSUME LogTypes, NEW S \in SUBSET Nat, IsFiniteSet(S), PagesRun(S)
    PROVE  Joined(S)
<1> DEFINE s == page.shown
           k == Len(s)
           c == Cardinality(S)
<1>1. /\ k \in Nat /\ DOMAIN s = 1..k /\ c \in Nat /\ page.order \in {"asc", "desc"}
      /\ \A n \in 1..c : InTime(S)[n] \in S
  BY InTimeIs DEF LogTypes
<1>2. CASE page.order = "asc"
  <2>1. k <= c /\ \A n \in 1..k : s[n] = InTime(S)[n]
    BY <1>2 DEF PagesRun
  <2> HIDE DEF s, k
  <2>2. \A n \in 1..k : s[n] \in S
    BY <1>1, <2>1
  <2>3. ASSUME NEW n \in 1..k - 1
        PROVE  s[n] < s[n + 1] /\ \A i \in S : ~(s[n] < i /\ i < s[n + 1])
    <3>1. n \in 1..c - 1 /\ n \in 1..k /\ n + 1 \in 1..k
      BY <1>1, <2>1
    <3> HIDE DEF c
    <3>2. InTime(S)[n] < InTime(S)[n + 1] /\ \A i \in S : ~(InTime(S)[n] < i /\ i < InTime(S)[n + 1])
      BY <3>1, NothingBetween DEF c
    <3> QED
      BY <2>1, <3>1, <3>2
  <2> QED
    BY <1>1, <1>2, <2>2, <2>3 DEF Joined, Before, s, k
<1>3. CASE page.order = "desc"
  <2>1. PICK top \in 0..c : k <= top /\ \A n \in 1..k : s[n] = InTime(S)[top + 1 - n]
    BY <1>3 DEF PagesRun
  <2> HIDE DEF s, k
  <2>2. \A n \in 1..k : s[n] \in S
    <3>1. \A n \in 1..k : top + 1 - n \in 1..c
      BY <1>1, <2>1
    <3> QED
      BY <1>1, <2>1, <3>1
  <2>3. ASSUME NEW n \in 1..k - 1
        PROVE  s[n + 1] < s[n] /\ \A i \in S : ~(s[n + 1] < i /\ i < s[n])
    <3> DEFINE m == top - n
    <3>1. m \in 1..c - 1 /\ n \in 1..k /\ n + 1 \in 1..k /\ top + 1 - n = m + 1 /\ top + 1 - (n + 1) = m
      BY <1>1, <2>1
    <3> HIDE DEF c, m
    <3>2. InTime(S)[m] < InTime(S)[m + 1] /\ \A i \in S : ~(InTime(S)[m] < i /\ i < InTime(S)[m + 1])
      BY <3>1, NothingBetween DEF c
    <3>3. s[n] = InTime(S)[m + 1] /\ s[n + 1] = InTime(S)[m]
      BY <2>1, <3>1
    <3> QED
      BY <3>2, <3>3
  <2> QED
    BY <1>1, <1>3, <2>2, <2>3 DEF Joined, Before, s, k
<1> QED
  BY <1>1, <1>2, <1>3

LEMMA PagesJoinThen == LogInv => PagesJoin
<1> SUFFICES ASSUME LogInv PROVE PagesJoin
  OBVIOUS
<1>0. LogTypes /\ ExceptionsRun /\ LinesRun
  BY DEF LogInv
<1>1. /\ Lines = 1..Len(log) /\ Len(log) \in Nat /\ Lines \in SUBSET Nat /\ IsFiniteSet(Lines)
      /\ Cardinality(Lines) = Len(log) /\ \A n \in Lines : InTime(Lines)[n] = n
      /\ \A S : Bad(S) \in SUBSET Nat /\ IsFiniteSet(Bad(S))
      /\ page.order \in {"asc", "desc"} /\ Len(page.shown) \in Nat
  BY <1>0, LinesTyped DEF LogTypes
<1>2. ASSUME NEW A \in SUBSET LogAgents, SameExceptions(A) PROVE Joined(Bad(UNION {LinesOf(a) : a \in A}))
  <2>1. PagesRun(Exceptional(A))
    BY <1>0, <1>2 DEF ExceptionsRun, SameExceptions, AllScanned
  <2> QED
    BY <1>0, <1>1, <2>1, RunsJoin DEF Exceptional
<1>3. ASSUME ThenArchives, AllLines PROVE Joined(Lines)
  <2>1. /\ Len(page.shown) <= Len(log) /\ \A n \in 1..Len(page.shown) : page.shown[n] = n
        /\ page.cursor # 0 => page.cursor = Len(page.shown)
        /\ page.order = "asc"
    BY <1>0, <1>3 DEF LinesRun, ThenArchives
  <2>2. \A n \in 1..Len(page.shown) : page.shown[n] = InTime(Lines)[n]
    BY <1>1, <2>1
  <2>3. PagesRun(Lines)
    BY <1>1, <2>1, <2>2 DEF PagesRun
  <2> QED
    BY <1>0, <1>1, <2>3, RunsJoin
<1> QED
  BY <1>2, <1>3 DEF PagesJoin, AllLines

\* Pages join (PagesJoin; run_service.py, get_logs and _paginate_log_items): the lines of pages that
\* are loaded one after the other are each once, in order, and none between them is missing, whatever
\* agents write or go silent meanwhile; for any agents, lines and sizes of pages.
THEOREM PagesAreJoined == LogSpec => []PagesJoin
<1> QED
  BY LogStarts, LogKeeps, PagesJoinThen, PTL DEF LogSpec

-----------------------------------------------------------------------------
(* The parts together *)

\* The three in the model that is checked, where each is one part among others.
THEOREM FiguresHoldThere == MCSpec => []FiguresHold
<1> DEFINE Inv == /\ part = "figures" => FigureInv
                  /\ part = "sources" => SourceInv
                  /\ part = "pods" => PodsInv
<1>1. MCInit => Inv
  BY FiguresStart, SourceStarts, PodsStart DEF MCInit
<1>2. Inv /\ [MCNext]_mcVars => Inv'
  <2> SUFFICES ASSUME Inv, [MCNext]_mcVars PROVE Inv'
    OBVIOUS
  <2>1. /\ part' = part
        /\ part = "figures" => [FigureNext]_figureVars
        /\ part = "sources" => [SourceNext]_sourceVars
        /\ part = "pods" => [PodsNext]_podVars
    BY DEF MCNext, mcVars
  <2> QED
    BY <2>1, FiguresKeep, SourceKeeps, PodsKeep
<1>3. Inv => FiguresHold
  BY FiguresAreRight, NoneIsPoorer, PartsExplained, PodsAreRight DEF FiguresHold, SourcesHold
<1> QED
  BY <1>1, <1>2, <1>3, PTL DEF MCSpec

\* The slices there.
THEOREM SlicesHoldThere == MCSpec => []SlicesHold
<1> DEFINE Inv == part = "slices" => SliceInv
<1>1. MCInit => Inv
  BY SlicesStart DEF MCInit
<1>2. Inv /\ [MCNext]_mcVars => Inv'
  <2> SUFFICES ASSUME Inv, [MCNext]_mcVars PROVE Inv'
    OBVIOUS
  <2>1. part' = part /\ (part = "slices" => [SliceNext]_sliceVars)
    BY DEF MCNext, mcVars
  <2> QED
    BY <2>1, SlicesKeep
<1>3. Inv => SlicesHold
  BY EachLineGoesToOne, ShardsSound, ReadAlike DEF SlicesHold, SlicesAreSound
<1> QED
  BY <1>1, <1>2, <1>3, PTL DEF MCSpec

\* And the shares of the load.
THEOREM SharesHoldThere == MCSpec => []SharesHold
<1> DEFINE Inv == part = "shares" => LoadInv
<1>1. MCInit => Inv
  BY LoadStarts DEF MCInit
<1>2. Inv /\ [MCNext]_mcVars => Inv'
  <2> SUFFICES ASSUME Inv, [MCNext]_mcVars PROVE Inv'
    OBVIOUS
  <2>1. part' = part /\ (part = "shares" => [LoadNext]_loadVars)
    BY DEF MCNext, mcVars
  <2> QED
    BY <2>1, LoadKeeps
<1>3. Inv => SharesHold
  BY LoadAddsUp DEF SharesHold
<1> QED
  BY <1>1, <1>2, <1>3, PTL DEF MCSpec

\* And the log pages.
THEOREM LogsHoldThere == MCSpec => []LogsHold
<1> DEFINE Inv == part = "logs" => LogInv
<1>1. MCInit => Inv
  BY LogStarts DEF MCInit
<1>2. Inv /\ [MCNext]_mcVars => Inv'
  <2> SUFFICES ASSUME Inv, [MCNext]_mcVars PROVE Inv'
    OBVIOUS
  <2>1. part' = part /\ (part = "logs" => [LogNext]_logVars)
    BY DEF MCNext, mcVars
  <2> QED
    BY <2>1, LogKeeps
<1>3. Inv => LogsHold
  BY PagesJoinThen DEF LogsHold
<1> QED
  BY <1>1, <1>2, <1>3, PTL DEF MCSpec
=============================================================================

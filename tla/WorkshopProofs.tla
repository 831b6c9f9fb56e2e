--------------------------- MODULE WorkshopProofs ---------------------------
(***************************************************************************)
(* Proofs about Workshop: what the two commands leave in their files, for  *)
(* any number of lines and of runs, every plan, permutation, reply of the  *)
(* stub and length of time.                                                *)
(***************************************************************************)
EXTENDS Workshop, TLAPS, FiniteSetTheorems, SequenceTheorems, WellFoundedInduction

-----------------------------------------------------------------------------
(* The verdict the generator takes.                                        *)

LEMMA DiagnosticsDiffer ==
  /\ DiagFrontiereFranchie # DiagVerrouOntologique
  /\ DiagFrontiereFranchie # DiagPeremptionProfile
  /\ DiagFrontiereFranchie # DiagIncoherenceI4
  /\ DiagVerrouOntologique # DiagPeremptionProfile
  /\ DiagVerrouOntologique # DiagIncoherenceI4
  /\ DiagPeremptionProfile # DiagIncoherenceI4
BY DEF DiagFrontiereFranchie, DiagVerrouOntologique, DiagPeremptionProfile,
       DiagIncoherenceI4

LEMMA Ranks ==
  /\ Rank(DiagFrontiereFranchie) = 1 /\ Rank(DiagVerrouOntologique) = 2
  /\ Rank(DiagPeremptionProfile) = 3 /\ Rank(DiagIncoherenceI4) = 4
BY DiagnosticsDiffer DEF Rank

\* There is a verdict on every exchange, so Decide returns one.
LEMMA DecideIsVerdict ==
  ASSUME NEW x, NEW answer, NEW t
  PROVE  /\ Decide(x, answer, t) \in Verdicts
         /\ IsVerdict(Decide(x, answer, t), x, answer, t)
<1> DEFINE reasons == ReasonsToRefuse(x, answer, t)
<1> HIDE DEF reasons
<1>1. reasons \subseteq RefusalDiagnostics
  BY DEF reasons, ReasonsToRefuse
<1>2. \E v \in Verdicts : IsVerdict(v, x, answer, t)
  <2>1. CASE reasons = {}
    <3> DEFINE r == RegimeOf(Composite(ScoreDSens(x, answer), ScoreDAuthority(x),
                                       ScoreDInvariant(x)))
    <3>1. r \in Regimes
      BY DEF RegimeOf, Regimes
    <3>2. [regime |-> r, diagnostic |-> NoDiagnostic] \in Verdicts
      BY <3>1 DEF Verdicts
    <3>3. IsVerdict([regime |-> r, diagnostic |-> NoDiagnostic], x, answer, t)
      BY <2>1 DEF IsVerdict, reasons
    <3>4. QED
      BY <3>2, <3>3
  <2>2. CASE reasons # {}
    <3>1. PICK d \in reasons : \A e \in reasons : Rank(d) <= Rank(e)
      BY <1>1, <2>2, Ranks DEF RefusalDiagnostics
    <3>2. [regime |-> "Refus", diagnostic |-> d] \in Verdicts
      BY <1>1 DEF Verdicts, Regimes
    <3>3. IsVerdict([regime |-> "Refus", diagnostic |-> d], x, answer, t)
      BY <2>2, <3>1 DEF IsVerdict, ReasonGiven, reasons
    <3>4. QED
      BY <3>2, <3>3
  <2>3. QED
    BY <2>1, <2>2
<1>3. QED
  BY <1>2 DEF Decide

-----------------------------------------------------------------------------
(* The lines the generator writes.                                         *)

SubmittedModes == {"static", "dynamic_a2a", "dynamic_mcp"}

Submitted == [id : Int, humanInLoop : BOOLEAN, org : BOOLEAN, depth : Int,
              mode : SubmittedModes, contract : BOOLEAN, intent : BOOLEAN,
              attestation : BOOLEAN, registry : BOOLEAN, derived : BOOLEAN,
              mediation : BOOLEAN, plan : BOOLEAN]

\* Any branch, known or not, builds an exchange with the fields the probes read.
LEMMA BuildFields ==
  ASSUME NEW branch, NEW i \in Int
  PROVE  Build(branch, i) \in Submitted
<1>1. i % 3 \in Int
  OBVIOUS
<1>2. QED
  BY <1>1, SMT DEF Build, Submitted, SubmittedModes

LEMMA Converted ==
  ASSUME NEW x \in Submitted
  PROVE  /\ ToTauExchange(x).depth \in Int
         /\ ToTauExchange(x).attestation \in BOOLEAN
<1>1. ToTauExchange(x).depth \in Int
  BY SMT DEF ToTauExchange, Submitted
<1>2. ToTauExchange(x).attestation \in BOOLEAN
  BY SMT DEF ToTauExchange, Submitted
<1>3. QED
  BY <1>1, <1>2

LEMMA ScoresAreScores ==
  ASSUME NEW y, y.depth \in Int, NEW answer \in Nat
  PROVE  /\ ScoreDAuthority(y) \in 0..Scale
         /\ ScoreDSens(y, answer) \in 0..Scale
         /\ ScoreDInvariant(y) \in 0..Scale
<1>1. Scale \in Nat
  BY SMT DEF Scale
<1>2. ASSUME NEW v \in Int PROVE Clamp01(v) \in 0..Scale
  BY <1>1, <1>2 DEF Clamp01
<1>3. ProbeChainDepth(y) \in Int
  BY DEF ProbeChainDepth
<1>4. ScoreDAuthority(y) \in 0..Scale
  <2>1. /\ ProbeCrossOrg(y) \in Int
        /\ Probe(~y.humanInLoop) \in Int
        /\ Probe(Dynamic(y)) \in Int
    BY DEF ProbeCrossOrg, Probe
  <2>2. QED
    BY <1>2, <1>3, <2>1, SMT DEF ScoreDAuthority
<1>5. ScoreDSens(y, answer) \in 0..Scale
  <2>1. /\ Probe(~y.contract) \in Int
        /\ Probe(y.intent) \in Int
        /\ Probe(Dynamic(y)) \in Int
    BY DEF Probe
  <2>2. QED
    BY <1>2, <2>1, SMT DEF ScoreDSens
<1>6. ScoreDInvariant(y) \in 0..Scale
  <2>1. /\ Probe(y.registry) \in Int
        /\ Probe(y.derived) \in Int
        /\ Probe(y.mediation \/ Dynamic(y)) \in Int
        /\ ProbeEnumeratedPlan(y) \in Int
    BY DEF Probe, ProbeEnumeratedPlan
  <2>2. QED
    BY <1>2, <2>1, SMT DEF ScoreDInvariant
<1>7. QED
  BY <1>4, <1>5, <1>6

\* An entry that is kept is labelled as the default thresholds simulate: a
\* refusal names the guard that simulate tries first, and a decision that passed
\* all guards is labelled by the rest of simulate.
LEMMA LabelIsSimulated ==
  ASSUME NEW x, NEW answer, NEW t, NEW v, IsVerdict(v, x, answer, t),
         ScoredEntry(x, v, answer, DefaultThresholds).labeled # NotASample
  PROVE  LET e == ScoredEntry(x, v, answer, DefaultThresholds)
         IN e.labeled \in Labels /\ Simulate(e, DefaultThresholds) = e.labeled
<1> DEFINE e == ScoredEntry(x, v, answer, DefaultThresholds)
<1> DEFINE reasons == ReasonsToRefuse(x, answer, t)
<1>1. Limits = DefaultThresholds
  BY WorkshopAssumption
<1>2. e.labeled \in Labels
  BY DEF ScoredEntry, LabelForDecision, NotASample, Labels
<1>3. CASE reasons = {}
  <2>1. v.regime # "Refus"
    BY <1>3 DEF IsVerdict, RegimeOf
  <2>2. QED
    BY <1>2, <2>1 DEF Simulate, ScoredEntry, LabelForDecision
<1>4. CASE reasons # {}
  <2>1. v.regime = "Refus" /\ ReasonGiven(v.diagnostic, reasons)
    BY <1>4 DEF IsVerdict
  <2>2. v.diagnostic = DiagVerrouOntologique \/ v.diagnostic = DiagIncoherenceI4
    BY <2>1 DEF ScoredEntry, LabelForDecision
  <2>3. CASE v.diagnostic = DiagVerrouOntologique
    <3>1. LockCloses(x, ScoreDAuthority(x))
      BY <2>1, <2>3, DiagnosticsDiffer DEF ReasonGiven, ReasonsToRefuse
    <3>2. e.labeled = "refus_authority"
      BY <2>1, <2>3, DiagnosticsDiffer DEF ScoredEntry, LabelForDecision
    <3>3. QED
      BY <1>1, <1>2, <3>1, <3>2 DEF Simulate, ScoredEntry, LockCloses
  <2>4. CASE v.diagnostic = DiagIncoherenceI4
    <3>1. IsIncoherent(ScoreDSens(x, answer), ScoreDInvariant(x), Limits)
      BY <2>1, <2>4, DiagnosticsDiffer DEF ReasonGiven, ReasonsToRefuse
    <3>2. ~LockCloses(x, ScoreDAuthority(x))
      <4>1. DiagVerrouOntologique \notin reasons
        BY <2>1, <2>4, Ranks DEF ReasonGiven
      <4>2. QED
        BY <4>1 DEF ReasonsToRefuse, RefusalDiagnostics
    <3>3. e.labeled = "refus_i4"
      BY <2>1, <2>4, DiagnosticsDiffer DEF ScoredEntry, LabelForDecision
    <3>4. QED
      BY <1>1, <1>2, <3>1, <3>2, <3>3 DEF Simulate, ScoredEntry, LockCloses, IsIncoherent
  <2>5. QED
    BY <2>2, <2>3, <2>4
<1>5. QED
  BY <1>3, <1>4

\* The lines of the modes plain and annotated, and all lines of a corpus file.
ExchangeLines ==
  [id : {TRUE}, sens : {0}, auth : {0}, inv : {0}, attestation : {FALSE},
   labeled : {""}, mode : SubmittedModes, expected : Regimes \cup {""}]

AllLines == {Torn} \cup Samples \cup ExchangeLines

LEMMA Replied ==
  ASSUME NEW seed \in Seeds, NEW i \in 1..Count
  PROVE  i - 1 \in Int /\ StubAnswer[seed][i] \in Nat
<1> DEFINE Indices == 1..Count
<1> DEFINE Answered == 0..999
<1>1. Count \in Nat
  BY WorkshopAssumption
<1>2. i - 1 \in Int /\ i \in Indices
  BY <1>1
<1>3. \A a \in Answered : a \in Nat
  OBVIOUS
<1>4. StubAnswer \in [Seeds -> [Indices -> Answered]]
  BY WorkshopAssumption
<1> HIDE DEF Indices, Answered
<1>5. StubAnswer[seed] \in [Indices -> Answered]
  BY <1>4
<1>6. StubAnswer[seed][i] \in Answered
  BY <1>2, <1>5
<1>7. QED
  BY <1>2, <1>3, <1>6

LEMMA LineWritten ==
  ASSUME NEW seed \in Seeds, NEW mode \in Modes, NEW i \in 1..Count, NEW t \in 1..MaxTime
  PROVE  LET line == Lines[seed][mode][i][t]
         IN /\ mode # "scored" => line \in ExchangeLines
            /\ mode = "scored" /\ Kept(line) => line \in Samples
<1> DEFINE line == Lines[seed][mode][i][t]
<1> DEFINE x == Build(Plans[seed][i], i - 1)
<1> DEFINE y == ToTauExchange(x)
<1> DEFINE answer == StubAnswer[seed][i]
<1> DEFINE v == Decide(y, answer, t)
<1>1. line = LineAt(seed, mode, i, t)
  BY DEF Lines
<1>2. i - 1 \in Int /\ answer \in Nat
  BY Replied
<1>3. x \in Submitted
  BY <1>2, BuildFields
<1>4. y.depth \in Int /\ y.attestation \in BOOLEAN
  BY <1>3, Converted
<1>5. v \in Verdicts /\ IsVerdict(v, y, answer, t)
  BY DecideIsVerdict
<1>6. /\ ScoreDAuthority(y) \in 0..Scale
      /\ ScoreDSens(y, answer) \in 0..Scale
      /\ ScoreDInvariant(y) \in 0..Scale
  BY <1>2, <1>4, ScoresAreScores
<1>7. ASSUME mode # "scored" PROVE line \in ExchangeLines
  <2>1. line = [id |-> TRUE, sens |-> 0, auth |-> 0, inv |-> 0, attestation |-> FALSE,
                labeled |-> "", mode |-> x.mode,
                expected |-> IF mode = "annotated" THEN v.regime ELSE ""]
    BY <1>1, <1>7 DEF LineAt
  <2>2. x.mode \in SubmittedModes
    BY <1>3 DEF Submitted
  <2>3. v.regime \in Regimes
    BY <1>5 DEF Verdicts
  <2> HIDE DEF line, x, v
  <2>4. QED
    BY <2>1, <2>2, <2>3 DEF ExchangeLines
<1>8. ASSUME mode = "scored", Kept(line) PROVE line \in Samples
  <2>1. line = ScoredEntry(y, v, answer, DefaultThresholds)
    BY <1>1, <1>8 DEF LineAt
  <2> HIDE DEF line, y, v, answer
  <2>2. line.labeled # NotASample
    BY <1>8, <2>1 DEF Kept, ScoredEntry
  <2>3. line.labeled \in Labels /\ Simulate(line, DefaultThresholds) = line.labeled
    BY <1>5, <2>1, <2>2, LabelIsSimulated
  <2>4. line \in [id : {TRUE}, sens : 0..Scale, auth : 0..Scale, inv : 0..Scale,
                 attestation : BOOLEAN, labeled : Labels, expected : {""}]
    BY <1>4, <1>6, <2>1, <2>3 DEF ScoredEntry
  <2>5. QED
    BY <2>3, <2>4 DEF Samples
<1>9. QED
  BY <1>7, <1>8

-----------------------------------------------------------------------------
(* Loading a corpus.                                                       *)

LEMMA LeastIndex ==
  ASSUME NEW S \in SUBSET Nat, S # {}
  PROVE  \E i \in S : \A j \in S : i <= j
<1>1. PICK i \in S : \A j \in S : ~ (<<j, i>> \in OpToRel(<, Nat))
  BY NatLessThanWellFounded, WFMin
<1>2. \A j \in S : ~(j < i)
  BY <1>1 DEF OpToRel
<1>3. QED
  BY <1>2

LEMMA SamplesAreSound ==
  ASSUME NEW e \in Samples
  PROVE  /\ IsValid(e) /\ Migrate(e) = e /\ e # Torn /\ e.id
         /\ Simulate(e, DefaultThresholds) = e.labeled
         /\ DOMAIN e = {"id", "sens", "auth", "inv", "attestation", "labeled", "expected"}
<1>1. /\ e \in [id : {TRUE}, sens : 0..Scale, auth : 0..Scale, inv : 0..Scale,
               attestation : BOOLEAN, labeled : Labels, expected : {""}]
      /\ Simulate(e, DefaultThresholds) = e.labeled
  BY DEF Samples
<1>2. IsValid(e)
  BY <1>1 DEF IsValid
<1>3. Migrate(e) = e
  BY <1>1 DEF Migrate
<1>4. DOMAIN e = {"id", "sens", "auth", "inv", "attestation", "labeled", "expected"}
  BY <1>1
<1>5. e # Torn
  BY <1>4 DEF Torn
<1>6. QED
  BY <1>1, <1>2, <1>3, <1>4, <1>5

\* An exchange is no entry: its label is empty, or a regime.
LEMMA ExchangesAreRejected ==
  ASSUME NEW e \in ExchangeLines
  PROVE  /\ ~IsValid(Migrate(e)) /\ e # Torn /\ e.id
         /\ "mode" \in DOMAIN e /\ e.mode \in SubmittedModes
<1>0. DOMAIN e = {"id", "sens", "auth", "inv", "attestation", "labeled", "mode", "expected"}
  BY DEF ExchangeLines
<1>1. /\ e.id \in {TRUE} /\ e.mode \in SubmittedModes /\ e.labeled = ""
      /\ e.expected \in Regimes \cup {""}
  BY DEF ExchangeLines
<1>2. e # Torn /\ e.id
  <2>1. e # Torn
    BY <1>0 DEF Torn
  <2>2. e.id = TRUE
    BY <1>1
  <2>3. QED
    BY <2>1, <2>2
<1>3. Migrate(e).labeled = e.expected
  <2>1. CASE e.expected = ""
    BY <1>1, <2>1 DEF Migrate
  <2>2. CASE e.expected # ""
    <3>1. Migrate(e) = [e EXCEPT !.labeled = e.expected]
      BY <1>1, <2>2 DEF Migrate
    <3>2. QED
      BY <1>0, <3>1
  <2>3. QED
    BY <2>1, <2>2
<1>4. e.expected \notin Labels
  BY <1>1 DEF Labels, Regimes
<1>5. ~IsValid(Migrate(e))
  BY <1>3, <1>4 DEF IsValid
<1>6. QED
  BY <1>0, <1>1, <1>2, <1>5

LEMMA NoFileIsNoCorpus == NoFile \notin Seq(AllLines)
<1>1. [missing |-> TRUE] \notin AllLines
  <2>1. [missing |-> TRUE] # Torn
    BY DEF Torn
  <2>2. [missing |-> TRUE] \notin Samples
    BY SamplesAreSound
  <2>3. [missing |-> TRUE] \notin ExchangeLines
    BY DEF ExchangeLines
  <2>4. QED
    BY <2>1, <2>2, <2>3 DEF AllLines
<1>2. QED
  BY <1>1 DEF NoFile

\* A corpus loads exactly when all its lines are samples, and then its entries
\* are its lines; without an exchange in it, what stops the load is a cut line.
LEMMA Loading ==
  ASSUME NEW lines \in Seq(AllLines)
  PROVE  LET corpus == LoadCorpus(lines)
         IN /\ corpus.error \in {"none", "syntax", "content"}
            /\ corpus.error = "none" => lines \in Seq(Samples) /\ corpus.entries = lines
            /\ lines \in Seq(Samples) => corpus.error = "none"
            /\ lines \in Seq({Torn} \cup Samples) => corpus.error # "content"
<1> DEFINE Accepted(i) == lines[i] # Torn /\ IsValid(Migrate(lines[i]))
<1> DEFINE Failing(i) == ~Accepted(i) /\ \A j \in 1..(i - 1) : Accepted(j)
<1> DEFINE first == CHOOSE i \in DOMAIN lines : Failing(i)
<1>1. Len(lines) \in Nat /\ DOMAIN lines = 1..Len(lines)
      /\ \A i \in DOMAIN lines : lines[i] \in AllLines
  OBVIOUS
<1>2. lines # NoFile
  BY NoFileIsNoCorpus
<1>3. LoadCorpus(lines) =
        IF \A i \in DOMAIN lines : Accepted(i)
        THEN [error |-> "none", entries |-> [i \in DOMAIN lines |-> Migrate(lines[i])]]
        ELSE IF lines[first] = Torn THEN [error |-> "syntax", entries |-> <<>>]
        ELSE [error |-> "content", entries |-> <<>>]
  BY <1>2 DEF LoadCorpus
<1>4. \A i \in DOMAIN lines : Accepted(i) <=> lines[i] \in Samples
  BY <1>1, SamplesAreSound, ExchangesAreRejected DEF AllLines
<1>5. ASSUME \A i \in DOMAIN lines : Accepted(i)
      PROVE  /\ lines \in Seq(Samples)
             /\ [i \in DOMAIN lines |-> Migrate(lines[i])] = lines
  <2>1. \A i \in DOMAIN lines : lines[i] \in Samples /\ Migrate(lines[i]) = lines[i]
    BY <1>4, <1>5, SamplesAreSound
  <2>2. QED
    BY <1>1, <2>1
<1>6. ASSUME ~\A i \in DOMAIN lines : Accepted(i)
      PROVE  first \in DOMAIN lines /\ ~Accepted(first)
  <2> DEFINE S == {i \in DOMAIN lines : ~Accepted(i)}
  <2>1. S \in SUBSET Nat /\ S # {}
    BY <1>1, <1>6
  <2> HIDE DEF S
  <2>2. PICK i \in S : \A j \in S : i <= j
    BY <2>1, LeastIndex
  <2> USE DEF S
  <2> HIDE DEF Accepted
  <2>3. i \in 1..Len(lines) /\ ~Accepted(i)
    BY <1>1, <2>2
  <2>4. ASSUME NEW j \in 1..(i - 1) PROVE Accepted(j)
    <3>1. j \in 1..Len(lines) /\ ~(i <= j)
      BY <1>1, <2>3, <2>4
    <3>2. QED
      BY <1>1, <2>2, <3>1
  <2>5. i \in DOMAIN lines /\ Failing(i)
    BY <1>1, <2>3, <2>4
  <2>6. QED
    BY <2>5
<1>7. ASSUME lines \in Seq(Samples) PROVE \A i \in DOMAIN lines : Accepted(i)
  BY <1>1, <1>4, <1>7
<1>8. ASSUME lines \in Seq({Torn} \cup Samples), NEW i \in DOMAIN lines, ~Accepted(i)
      PROVE  lines[i] = Torn
  BY <1>1, <1>4, <1>8
<1> HIDE DEF Accepted, first
<1>9. QED
  BY <1>3, <1>5, <1>6, <1>7, <1>8

-----------------------------------------------------------------------------
(* The invariant.                                                          *)

\* What calibrate may take for a line of the corpus, and keep as an entry.
Pieces == AllLines \cup Mixtures

Loadable == {Migrate(e) : e \in {piece \in Pieces : piece # Torn /\ IsValid(Migrate(piece))}}

Fingerprints == {NoFingerprint} \cup {<<"sha256", lines>> : lines \in Seq(Pieces)}

CalPcs == {"none", "started", "hashing", "fingerprinted", "decoding", "loaded", "opened", "exited"}

Readers == {r \in [seen : Seq(AllLines), head : BOOLEAN, got : Seq(Pieces)] :
              r.head => Len(r.seen) > 0}

CalTypes == [pc : CalPcs, fingerprint : Fingerprints, entries : Seq(Loadable), exit : ExitCodes,
             reader : Readers]

\* What TypeOK leaves open of the files.
WTypes ==
  /\ now \in 1..MaxTime
  /\ file = NoFile \/ (file \in Seq(AllLines) /\ Len(file) <= Count)
  /\ gen \in [pc : {"none", "writing", "ended"}, seed : Seeds, mode : Modes,
              next : 1..(Count + 1), exit : ExitCodes]
  /\ runs \in 0..MaxGenerations
  /\ modes \in SUBSET Modes
  /\ cal \in CalTypes
  /\ disturbed \in BOOLEAN /\ truncated \in BOOLEAN

\* The corpus: what a scored run leaves while it is under way or has finished,
\* and what scored runs leave that were killed or failed.
FileInv ==
  /\ gen.pc = "writing" => file # NoFile /\ Len(file) < gen.next /\ gen.mode \in modes
  /\ gen.pc = "writing" \/ Finished =>
       (gen.mode = "scored" /\ file # NoFile => file \in Seq(Samples))
  /\ modes \subseteq {"scored"} /\ file # NoFile => file \in Seq({Torn} \cup Samples)

\* A reader that has read a beginning of these lines, and has the whole ones.
Follows(reader, lines) ==
  \E n \in 0..Len(lines) :
    /\ reader.seen = SubSeq(lines, 1, n)
    /\ reader.head => n > 0
    /\ reader.got = SubSeq(lines, 1, IF reader.head THEN n - 1 ELSE n)

\* Lines appended while calibrate reads leave its reader where it was; only a run
\* that empties the file takes it away from under the offset.
ReaderInv ==
  /\ cal.pc \in {"none", "started", "fingerprinted"} => cal.reader = Fresh
  /\ cal.pc \in {"hashing", "decoding"} => file # NoFile
  /\ (cal.pc = "hashing" /\ ~disturbed) \/ (cal.pc = "decoding" /\ ~truncated) =>
       Follows(cal.reader, file)
  /\ truncated => disturbed

\* How far calibrate is, how it ended, and, if nobody wrote the corpus meanwhile,
\* which corpus its entries are.
CalInv ==
  /\ cal.pc \in {"none", "started", "hashing"} => cal.fingerprint = NoFingerprint
  /\ cal.pc = "exited" /\ cal.exit = 2 /\ cal.fingerprint # NoFingerprint =>
       ~(modes \subseteq {"scored"}) \/ truncated
  /\ Whole <=> cal.pc = "exited" /\ cal.exit = 0
  /\ output = Cut => cal.pc = "opened" \/ (cal.pc = "exited" /\ cal.exit \in {1, 137})
  /\ cal.pc \in {"fingerprinted", "decoding", "loaded", "opened"} /\ ~disturbed =>
       file # NoFile /\ cal.fingerprint = <<"sha256", file>>
  /\ cal.pc \in {"loaded", "opened"} /\ ~disturbed =>
       cal.entries = LoadCorpus(file).entries
  /\ Whole => output.entries = cal.entries /\ output.corpus = cal.fingerprint
  /\ Whole /\ ~disturbed =>
       \E lines \in Seq(AllLines) : /\ cal.fingerprint = <<"sha256", lines>>
                                   /\ cal.entries = LoadCorpus(lines).entries

WInv == WTypes /\ FileInv /\ ReaderInv /\ CalInv

LEMMA SamplesAreLines ==
  /\ Seq(Samples) \subseteq Seq(AllLines)
  /\ Seq(Samples) \subseteq Seq({Torn} \cup Samples)
  /\ Seq({Torn} \cup Samples) \subseteq Seq(AllLines)
BY DEF AllLines

LEMMA SubSeqTypes ==
  ASSUME NEW S, NEW q \in Seq(S), NEW a \in Nat, NEW b \in 0..Len(q)
  PROVE  SubSeq(q, a + 1, b) \in Seq(S) /\ SubSeq(q, 1, b) \in Seq(S)
<1>1. \A i \in 1..Len(q) : q[i] \in S
  OBVIOUS
<1>2. Len(q) \in Nat /\ b \in Int /\ a + 1 \in Int /\ b <= Len(q)
  OBVIOUS
<1>3. SubSeq(q, a + 1, b) \in Seq(S)
  <2>1. \A i \in (a + 1)..b : q[i] \in S
    BY <1>1, <1>2
  <2>2. QED
    BY <1>2, <2>1, SubSeqProperties
<1>4. SubSeq(q, 1, b) \in Seq(S)
  <2>1. \A i \in 1..b : q[i] \in S
    BY <1>1, <1>2
  <2>2. QED
    BY <1>2, <2>1, SubSeqProperties
<1>5. QED
  BY <1>3, <1>4

LEMMA FreshReads ==
  /\ Fresh \in Readers /\ Fresh.seen = <<>> /\ Fresh.head = FALSE /\ Fresh.got = <<>>
  /\ \A lines \in Seq(AllLines) : Follows(Fresh, lines)
<1>1. /\ Fresh.seen = <<>> /\ Fresh.head = FALSE /\ Fresh.got = <<>>
      /\ Fresh \in Readers
  BY DEF Fresh, Readers
<1>2. ASSUME NEW lines \in Seq(AllLines) PROVE Follows(Fresh, lines)
  <2>1. SubSeq(lines, 1, 0) = <<>>
    BY SubSeqEmpty
  <2>2. 0 \in 0..Len(lines)
    OBVIOUS
  <2>3. QED
    BY <1>1, <2>1, <2>2 DEF Follows
<1>3. QED
  BY <1>1, <1>2

\* A reader goes on following lines to which others are appended.
LEMMA FollowsAppended ==
  ASSUME NEW reader, NEW lines \in Seq(AllLines), NEW e \in AllLines, Follows(reader, lines)
  PROVE  Follows(reader, Append(lines, e))
<1>1. PICK n \in 0..Len(lines) :
        /\ reader.seen = SubSeq(lines, 1, n)
        /\ reader.head => n > 0
        /\ reader.got = SubSeq(lines, 1, IF reader.head THEN n - 1 ELSE n)
  BY DEF Follows
<1>2. ASSUME NEW k \in 0..Len(lines)
      PROVE  SubSeq(Append(lines, e), 1, k) = SubSeq(lines, 1, k)
  <2>1. CASE k = 0
    BY <2>1, SubSeqEmpty
  <2>2. CASE k # 0
    <3>1. Append(lines, e) = lines \o <<e>> /\ <<e>> \in Seq(AllLines)
      OBVIOUS
    <3>2. k \in 1..Len(lines) /\ 1 \in 1..Len(lines)
      BY <2>2
    <3>3. QED
      BY <3>1, <3>2, SubSeqOfConcat1
  <2>3. QED
    BY <2>1, <2>2
<1>3. n \in 0..Len(Append(lines, e))
  BY AppendProperties
<1>4. (IF reader.head THEN n - 1 ELSE n) \in 0..Len(lines)
  BY <1>1
<1>5. QED
  BY <1>1, <1>2, <1>3, <1>4 DEF Follows

LEMMA InitWInv == Init => WInv
<1> SUFFICES ASSUME Init PROVE WInv
  OBVIOUS
<1>1. /\ file = NoFile \/ (file \in Seq(Samples) /\ Len(file) <= Count)
      /\ Seeds # {} /\ Count \in Nat \ {0} /\ MaxGenerations \in Nat
      /\ MaxTime \in Nat \ {0}
  <2>1. /\ Seeds # {} /\ Count \in Nat \ {0} /\ MaxGenerations \in Nat
        /\ EarlierCorpora \subseteq Seq(Samples)
        /\ \A corpus \in EarlierCorpora : Len(corpus) <= Count
    BY WorkshopAssumption
  <2>2. MaxTime \in Nat \ {0}
    BY PolicyAssumption
  <2>3. file = NoFile \/ file \in EarlierCorpora
    BY DEF Init
  <2>4. QED
    BY <2>1, <2>2, <2>3
<1>2. WTypes
  <2>1. gen \in [pc : {"none", "writing", "ended"}, seed : Seeds, mode : Modes,
                next : 1..(Count + 1), exit : ExitCodes]
    BY <1>1 DEF Init, Modes, ExitCodes
  <2>2. cal \in CalTypes
    <3>1. /\ NoFingerprint \in Fingerprints /\ <<>> \in Seq(Loadable) /\ 0 \in ExitCodes
          /\ "none" \in CalPcs
      BY DEF Fingerprints, ExitCodes, CalPcs
    <3>2. cal = [pc |-> "none", fingerprint |-> NoFingerprint, entries |-> <<>>, exit |-> 0,
                 reader |-> Fresh]
      BY DEF Init
    <3>3. QED
      BY <3>1, <3>2, FreshReads DEF CalTypes
  <2>3. now \in 1..MaxTime /\ runs \in 0..MaxGenerations
    <3>1. now = 1 /\ runs = 0
      BY DEF Init
    <3>2. QED
      BY <1>1, <3>1
  <2>4. modes \in SUBSET Modes /\ disturbed \in BOOLEAN /\ truncated \in BOOLEAN
    BY DEF Init, Modes
  <2>5. QED
    BY <1>1, <2>1, <2>2, <2>3, <2>4, SamplesAreLines DEF WTypes
<1>3. FileInv
  <2>1. gen.pc = "none"
    BY DEF Init
  <2>2. QED
    BY <1>1, <2>1, SamplesAreLines DEF FileInv, Finished
<1>4. CalInv
  <2>1. cal.pc = "none" /\ cal.fingerprint = NoFingerprint
    BY DEF Init
  <2>2. ~Whole /\ output # Cut
    BY DEF Init, Whole, Absent, Earlier, Cut
  <2>3. QED
    BY <2>1, <2>2 DEF CalInv
<1>5. ReaderInv
  <2>1. cal.pc = "none" /\ cal.reader = Fresh /\ ~truncated
    BY DEF Init
  <2>2. QED
    BY <2>1 DEF ReaderInv
<1>6. QED
  BY <1>2, <1>3, <1>4, <1>5 DEF WInv

\* What a step of the generator does to the corpus a reader would find, and what
\* it leaves of calibrate.
LEMMA GeneratorKeepsCal ==
  ASSUME WInv, UNCHANGED <<cal, output>>, modes \subseteq modes',
         truncated => truncated',
         \/ file' = file /\ disturbed' = disturbed
         \/ disturbed' = (disturbed \/ Calibrating)
  PROVE  CalInv'
<1>1. cal' = cal /\ output' = output
  OBVIOUS
<1>2. Whole' <=> Whole
  BY <1>1 DEF Whole
<1>3. Whole => cal.pc = "exited"
  BY DEF WInv, CalInv
<1>4. ~disturbed' => ~disturbed /\ (Calibrating => file' = file)
  OBVIOUS
<1>5. cal.pc \in {"fingerprinted", "decoding", "loaded", "opened"} => Calibrating
  BY DEF Calibrating
<1>6. QED
  BY <1>1, <1>2, <1>3, <1>4, <1>5 DEF WInv, CalInv

LEMMA GeneratorKeepsReader ==
  ASSUME WInv, UNCHANGED cal,
         \/ UNCHANGED <<file, disturbed, truncated>>
         \/ /\ file # NoFile /\ file' # NoFile
            /\ file' = file \/ \E e \in AllLines : file' = Append(file, e)
            /\ disturbed' = (disturbed \/ Calibrating) /\ truncated' = truncated
         \/ /\ file' # NoFile /\ disturbed' = (disturbed \/ Calibrating)
            /\ truncated' = (truncated \/ cal.pc = "decoding")
  PROVE  ReaderInv'
<1>1. cal' = cal
  OBVIOUS
<1>2. cal.pc \in {"hashing", "decoding"} => Calibrating
  BY DEF Calibrating
<1>3. CASE UNCHANGED <<file, disturbed, truncated>>
  BY <1>1, <1>3 DEF WInv, ReaderInv
<1>4. CASE /\ file # NoFile /\ file' # NoFile
           /\ file' = file \/ \E e \in AllLines : file' = Append(file, e)
           /\ disturbed' = (disturbed \/ Calibrating) /\ truncated' = truncated
  <2>1. file \in Seq(AllLines)
    BY <1>4 DEF WInv, WTypes
  <2>2. ASSUME Follows(cal.reader, file) PROVE Follows(cal.reader, file')
    BY <1>4, <2>1, <2>2, FollowsAppended
  <2>3. (cal.pc = "hashing" /\ ~disturbed') \/ (cal.pc = "decoding" /\ ~truncated') =>
          Follows(cal.reader, file')
    BY <1>2, <1>4, <2>2 DEF WInv, ReaderInv
  <2>4. truncated' => disturbed'
    BY <1>4 DEF WInv, ReaderInv
  <2>5. QED
    BY <1>1, <1>4, <2>3, <2>4 DEF WInv, ReaderInv
<1>5. CASE /\ file' # NoFile /\ disturbed' = (disturbed \/ Calibrating)
           /\ truncated' = (truncated \/ cal.pc = "decoding")
  <2>1. /\ ~(cal.pc = "hashing" /\ ~disturbed') /\ ~(cal.pc = "decoding" /\ ~truncated')
    BY <1>2, <1>5
  <2>2. truncated' => disturbed'
    BY <1>2, <1>5 DEF WInv, ReaderInv
  <2>3. QED
    BY <1>1, <1>5, <2>1, <2>2 DEF WInv, ReaderInv
<1>6. QED
  BY <1>3, <1>4, <1>5

LEMMA AppendLine ==
  ASSUME NEW S, NEW q \in Seq(S), NEW e \in S
  PROVE  Append(q, e) \in Seq(S) /\ Len(Append(q, e)) = Len(q) + 1 /\ Len(q) \in Nat
OBVIOUS

LEMMA TickStep == ASSUME WInv, Tick PROVE WInv'
<1>1. WTypes'
  <2>1. now' \in 1..MaxTime
    <3>1. now \in 1..MaxTime /\ now' = now + 1 /\ now < MaxTime /\ MaxTime \in Nat
      BY PolicyAssumption DEF Tick, WInv, WTypes
    <3>2. QED
      BY <3>1
  <2>2. QED
    BY <2>1 DEF Tick, WInv, WTypes
<1>2. FileInv'
  BY DEF Tick, WInv, FileInv, Finished
<1>3. CalInv'
  BY GeneratorKeepsCal DEF Tick
<1>4. ReaderInv'
  BY GeneratorKeepsReader DEF Tick
<1>5. QED
  BY <1>1, <1>2, <1>3, <1>4 DEF WInv

LEMMA GenerateStep ==
  ASSUME WInv, NEW seed \in Seeds, NEW mode \in Modes, Generate(seed, mode)
  PROVE  WInv'
<1>1. /\ gen' = [pc |-> "writing", seed |-> seed, mode |-> mode, next |-> 1, exit |-> 0]
      /\ file' = <<>> /\ modes' = modes \cup {mode} /\ runs' = runs + 1
      /\ runs < MaxGenerations /\ disturbed' = (disturbed \/ Calibrating)
      /\ truncated' = (truncated \/ cal.pc = "decoding")
      /\ now' = now /\ cal' = cal /\ output' = output
  BY DEF Generate
<1>2. /\ Count \in Nat \ {0} /\ MaxGenerations \in Nat
  BY WorkshopAssumption
<1>3. /\ file' \in Seq(Samples) /\ Len(file') = 0
  BY <1>1
<1>4. file' # NoFile
  BY <1>3, SamplesAreLines, NoFileIsNoCorpus
<1>5. WTypes'
  <2>1. gen' \in [pc : {"none", "writing", "ended"}, seed : Seeds, mode : Modes,
                 next : 1..(Count + 1), exit : ExitCodes]
    <3>1. 1 \in 1..(Count + 1) /\ 0 \in ExitCodes
      BY <1>2 DEF ExitCodes
    <3>2. QED
      BY <1>1, <3>1
  <2>2. runs' \in 0..MaxGenerations
    BY <1>1, <1>2 DEF WInv, WTypes
  <2>3. disturbed' \in BOOLEAN /\ truncated' \in BOOLEAN
    BY <1>1
  <2>4. Len(file') <= Count
    BY <1>2, <1>3
  <2>5. QED
    BY <1>1, <1>3, <2>1, <2>2, <2>3, <2>4, SamplesAreLines DEF WInv, WTypes
<1>6. FileInv'
  <2>1. gen'.pc = "writing" /\ gen'.next = 1 /\ gen'.mode \in modes'
    BY <1>1
  <2>2. Len(file') < gen'.next
    BY <1>3, <2>1
  <2>3. QED
    BY <1>3, <1>4, <2>1, <2>2, SamplesAreLines DEF FileInv
<1>7. CalInv'
  BY <1>1, GeneratorKeepsCal
<1>8. ReaderInv'
  BY <1>1, <1>4, GeneratorKeepsReader
<1>9. QED
  BY <1>5, <1>6, <1>7, <1>8 DEF WInv

LEMMA RefusedStep ==
  ASSUME WInv, NEW exit, GenerateRefused(exit)
  PROVE  WInv'
<1>1. /\ gen' = [gen EXCEPT !.pc = "ended", !.exit = exit] /\ exit \in {1, 2}
      /\ runs' = runs + 1 /\ runs < MaxGenerations
      /\ UNCHANGED <<now, file, modes, cal, output, disturbed, truncated>>
  BY DEF GenerateRefused
<1>2. WTypes'
  <2>1. gen' \in [pc : {"none", "writing", "ended"}, seed : Seeds, mode : Modes,
                 next : 1..(Count + 1), exit : ExitCodes]
    BY <1>1 DEF WInv, WTypes, ExitCodes
  <2>2. runs' \in 0..MaxGenerations
    BY <1>1, WorkshopAssumption DEF WInv, WTypes
  <2>3. QED
    BY <1>1, <2>1, <2>2 DEF WInv, WTypes
<1>3. FileInv'
  <2>1. gen'.pc = "ended" /\ gen'.exit # 0
    BY <1>1 DEF WInv, WTypes
  <2>2. QED
    BY <1>1, <2>1 DEF WInv, FileInv, Finished
<1>4. CalInv'
  BY <1>1, GeneratorKeepsCal
<1>5. ReaderInv'
  BY <1>1, GeneratorKeepsReader
<1>6. QED
  BY <1>2, <1>3, <1>4, <1>5 DEF WInv

LEMMA WriteLineStep == ASSUME WInv, WriteLine PROVE WInv'
<1> DEFINE line == Lines[gen.seed][gen.mode][gen.next][now]
<1>1. /\ gen.pc = "writing" /\ gen.next <= Count
      /\ file' = IF Kept(line) THEN Append(file, line) ELSE file
      /\ gen' = [gen EXCEPT !.next = gen.next + 1]
      /\ disturbed' = (disturbed \/ Calibrating)
      /\ UNCHANGED <<now, runs, modes, cal, output, truncated>>
  BY DEF WriteLine
<1>2. /\ gen.seed \in Seeds /\ gen.mode \in Modes /\ gen.next \in 1..Count
      /\ now \in 1..MaxTime /\ Count \in Nat
  BY <1>1, WorkshopAssumption DEF WInv, WTypes
<1>3. /\ file # NoFile /\ file \in Seq(AllLines) /\ Len(file) < gen.next
      /\ gen.mode \in modes
      /\ gen.mode = "scored" => file \in Seq(Samples)
      /\ modes \subseteq {"scored"} => file \in Seq({Torn} \cup Samples)
  BY <1>1 DEF WInv, WTypes, FileInv
<1>4. /\ gen.mode # "scored" => line \in ExchangeLines
      /\ gen.mode = "scored" /\ Kept(line) => line \in Samples
  BY <1>2, LineWritten
<1> HIDE DEF line
<1>5. Kept(line) => line \in AllLines
  BY <1>4 DEF AllLines
<1>6. file' \in Seq(AllLines) /\ Len(file') < gen.next + 1
  <2>1. CASE Kept(line)
    BY <1>1, <1>2, <1>3, <1>5, <2>1, AppendLine
  <2>2. CASE ~Kept(line)
    <3>1. Len(file) \in Nat
      BY <1>3
    <3>2. QED
      BY <1>1, <1>2, <1>3, <2>2, <3>1
  <2>3. QED
    BY <2>1, <2>2
<1>7. gen.mode = "scored" => file' \in Seq(Samples)
  BY <1>1, <1>3, <1>4, AppendLine
<1>8. modes \subseteq {"scored"} => file' \in Seq({Torn} \cup Samples)
  <2>1. ASSUME modes \subseteq {"scored"} PROVE gen.mode = "scored"
    BY <1>3, <2>1
  <2>2. QED
    BY <1>7, <2>1, SamplesAreLines
<1>9. /\ gen' \in [pc : {"none", "writing", "ended"}, seed : Seeds, mode : Modes,
                 next : 1..(Count + 1), exit : ExitCodes]
      /\ gen'.pc = "writing" /\ gen'.mode = gen.mode /\ gen'.next = gen.next + 1
  <2>1. gen.next + 1 \in 1..(Count + 1)
    BY <1>2
  <2>2. QED
    BY <1>1, <2>1 DEF WInv, WTypes
<1>10. WTypes'
  <2>1. disturbed' \in BOOLEAN /\ truncated' \in BOOLEAN
    BY <1>1 DEF WInv, WTypes
  <2>2. Len(file') <= Count
    <3>1. Len(file') \in Nat
      BY <1>6
    <3>2. QED
      BY <1>1, <1>2, <1>6, <3>1
  <2>3. QED
    BY <1>1, <1>6, <1>9, <2>1, <2>2 DEF WInv, WTypes
<1>11. FileInv'
  <2>1. file' # NoFile
    BY <1>6, NoFileIsNoCorpus
  <2>2. QED
    BY <1>1, <1>3, <1>6, <1>7, <1>8, <1>9, <2>1 DEF FileInv
<1>12. CalInv'
  BY <1>1, GeneratorKeepsCal
<1>13. ReaderInv'
  <2>1. file' # NoFile
    BY <1>6, NoFileIsNoCorpus
  <2>2. file' = file \/ \E e \in AllLines : file' = Append(file, e)
    BY <1>1, <1>5
  <2>3. QED
    BY <1>1, <1>3, <2>1, <2>2, GeneratorKeepsReader
<1>14. QED
  BY <1>10, <1>11, <1>12, <1>13 DEF WInv

LEMMA DiesStep ==
  ASSUME WInv, NEW exit, GeneratorDies(exit)
  PROVE  WInv'
<1>1. /\ gen.pc = "writing" /\ gen' = [gen EXCEPT !.pc = "ended", !.exit = exit]
      /\ exit \in {1, 2, 137}
      /\ file' = file \/ (gen.next <= Count /\ file' = Append(file, Torn))
      /\ disturbed' = (disturbed \/ Calibrating)
      /\ UNCHANGED <<now, runs, modes, cal, output, truncated>>
  BY DEF GeneratorDies
<1>2. /\ file # NoFile /\ file \in Seq(AllLines) /\ Len(file) < gen.next
      /\ Len(file) <= Count /\ gen.next \in Nat /\ Count \in Nat
      /\ modes \subseteq {"scored"} => file \in Seq({Torn} \cup Samples)
  <2>1. gen.next \in Nat /\ Count \in Nat
    BY WorkshopAssumption DEF WInv, WTypes
  <2>2. QED
    BY <1>1, <2>1 DEF WInv, WTypes, FileInv
<1>3. /\ file' \in Seq(AllLines) /\ Len(file') <= Count
      /\ modes \subseteq {"scored"} => file' \in Seq({Torn} \cup Samples)
  <2>1. CASE file' = file
    BY <1>2, <2>1
  <2>2. CASE gen.next <= Count /\ file' = Append(file, Torn)
    <3>1. Torn \in AllLines /\ Torn \in {Torn} \cup Samples
      BY DEF AllLines
    <3>2. file' \in Seq(AllLines) /\ Len(file') = Len(file) + 1 /\ Len(file) \in Nat
      BY <1>2, <2>2, <3>1, AppendLine
    <3>3. modes \subseteq {"scored"} => file' \in Seq({Torn} \cup Samples)
      BY <1>2, <2>2, <3>1, AppendLine
    <3>4. Len(file') <= Count
      BY <1>2, <2>2, <3>2
    <3>5. QED
      BY <3>2, <3>3, <3>4
  <2>3. QED
    BY <1>1, <2>1, <2>2
<1>4. WTypes'
  <2>1. gen' \in [pc : {"none", "writing", "ended"}, seed : Seeds, mode : Modes,
                 next : 1..(Count + 1), exit : ExitCodes]
    BY <1>1 DEF WInv, WTypes, ExitCodes
  <2>2. disturbed' \in BOOLEAN /\ truncated' \in BOOLEAN
    BY <1>1 DEF WInv, WTypes
  <2>3. QED
    BY <1>1, <1>3, <2>1, <2>2 DEF WInv, WTypes
<1>5. FileInv'
  <2>1. gen'.pc = "ended" /\ gen'.exit # 0
    BY <1>1 DEF WInv, WTypes
  <2>2. QED
    BY <1>1, <1>3, <2>1 DEF FileInv, Finished
<1>6. CalInv'
  BY <1>1, GeneratorKeepsCal
<1>7. ReaderInv'
  <2>1. file' # NoFile
    BY <1>3, NoFileIsNoCorpus
  <2>2. file' = file \/ \E e \in AllLines : file' = Append(file, e)
    BY <1>1 DEF AllLines
  <2>3. QED
    BY <1>1, <1>2, <2>1, <2>2, GeneratorKeepsReader
<1>8. QED
  BY <1>4, <1>5, <1>6, <1>7 DEF WInv

LEMMA ReturnsStep == ASSUME WInv, GeneratorReturns PROVE WInv'
<1>1. /\ gen.pc = "writing" /\ gen' = [gen EXCEPT !.pc = "ended", !.exit = 0]
      /\ UNCHANGED <<now, file, runs, modes, cal, output, disturbed, truncated>>
  BY DEF GeneratorReturns
<1>2. /\ gen' \in [pc : {"none", "writing", "ended"}, seed : Seeds, mode : Modes,
                  next : 1..(Count + 1), exit : ExitCodes]
      /\ gen'.pc = "ended" /\ gen'.mode = gen.mode
  BY <1>1 DEF WInv, WTypes, ExitCodes
<1>3. WTypes'
  BY <1>1, <1>2 DEF WInv, WTypes
<1>4. FileInv'
  BY <1>1, <1>2 DEF WInv, FileInv
<1>5. CalInv'
  BY <1>1, GeneratorKeepsCal
<1>6. ReaderInv'
  BY <1>1, GeneratorKeepsReader
<1>7. QED
  BY <1>3, <1>4, <1>5, <1>6 DEF WInv

-----------------------------------------------------------------------------
(* Reading the corpus.                                                     *)

\* Whatever was read, the load succeeds with valid entries, or fails in one of
\* three ways.
LEMMA LoadingPieces ==
  ASSUME NEW lines \in Seq(Pieces)
  PROVE  /\ LoadCorpus(lines).error \in {"none", "path", "syntax", "content"}
         /\ LoadCorpus(lines).error = "none" => LoadCorpus(lines).entries \in Seq(Loadable)
<1> DEFINE Accepted(i) == lines[i] # Torn /\ IsValid(Migrate(lines[i]))
<1> DEFINE Failing(i) == ~Accepted(i) /\ \A j \in 1..(i - 1) : Accepted(j)
<1> DEFINE first == CHOOSE i \in DOMAIN lines : Failing(i)
<1>1. LoadCorpus(lines) =
        IF lines = NoFile THEN [error |-> "path", entries |-> <<>>]
        ELSE IF \A i \in DOMAIN lines : Accepted(i)
        THEN [error |-> "none", entries |-> [i \in DOMAIN lines |-> Migrate(lines[i])]]
        ELSE IF lines[first] = Torn THEN [error |-> "syntax", entries |-> <<>>]
        ELSE [error |-> "content", entries |-> <<>>]
  BY DEF LoadCorpus
<1> DEFINE migrated == [i \in DOMAIN lines |-> Migrate(lines[i])]
<1>2. ASSUME \A i \in DOMAIN lines : Accepted(i) PROVE migrated \in Seq(Loadable)
  <2>1. DOMAIN lines = 1..Len(lines) /\ Len(lines) \in Nat
    OBVIOUS
  <2>2. \A i \in DOMAIN lines : Migrate(lines[i]) \in Loadable
    <3> SUFFICES ASSUME NEW i \in DOMAIN lines PROVE Migrate(lines[i]) \in Loadable
      OBVIOUS
    <3>1. lines[i] \in Pieces
      OBVIOUS
    <3>2. lines[i] # Torn /\ IsValid(Migrate(lines[i]))
      BY <1>2
    <3>3. QED
      BY <3>1, <3>2 DEF Loadable
  <2>3. QED
    BY <2>1, <2>2
<1> HIDE DEF Accepted, first, migrated
<1>3. QED
  BY <1>1, <1>2 DEF migrated

LEMMA ReadingTypes ==
  ASSUME WInv, cal.pc \in {"hashing", "decoding"}
  PROVE  Readings \subseteq Readers /\ Contents \subseteq Seq(Pieces)
<1>1. /\ file \in Seq(AllLines) /\ cal.reader \in Readers
      /\ file \in Seq(Pieces)
  <2>1. file \in Seq(AllLines)
    BY DEF WInv, WTypes, ReaderInv
  <2>2. cal.reader \in Readers
    BY DEF WInv, WTypes, CalTypes
  <2>3. QED
    BY <2>1, <2>2 DEF Pieces
<1>2. cal.reader.seen \in Seq(AllLines) /\ cal.reader.got \in Seq(Pieces)
  BY <1>1 DEF Readers
<1>3. First \subseteq Seq(Pieces)
  <2>1. Torn \in Pieces /\ Mixtures \subseteq Pieces
    BY DEF Pieces, AllLines
  <2>2. <<>> \in Seq(Pieces) /\ \A m \in Pieces : <<m>> \in Seq(Pieces)
    OBVIOUS
  <2>3. QED
    BY <2>1, <2>2 DEF First
<1>4. ASSUME NEW at \in Nat, NEW first \in Seq(Pieces), NEW size \in Nat \ {0}, NEW part \in BOOLEAN,
             at <= Len(file), part => at < Len(file)
      PROVE  Read(at, first, size, part) \in Readers
  <2> DEFINE last == IF at + size < Len(file) THEN at + size ELSE Len(file)
  <2> DEFINE whole == IF part THEN last - 1 ELSE last
  <2>1. last \in 0..Len(file) /\ whole \in 0..Len(file)
    BY <1>1, <1>4
  <2>2. Read(at, first, size, part) =
          [seen |-> SubSeq(file, 1, last), head |-> part,
           got |-> cal.reader.got \o first \o SubSeq(file, at + 1, whole)]
    BY DEF Read
  <2> HIDE DEF last, whole
  <2>3. SubSeq(file, 1, last) \in Seq(AllLines)
    BY <1>1, <2>1, SubSeqTypes
  <2>4. SubSeq(file, at + 1, whole) \in Seq(Pieces)
    BY <1>1, <2>1, SubSeqTypes
  <2>5. part => Len(SubSeq(file, 1, last)) > 0
    <3>1. ASSUME part PROVE last >= 1
      BY <1>1, <1>4, <3>1 DEF last
    <3>2. last \in Int /\ 1 \in Int /\ \A i \in 1..last : file[i] \in AllLines
      BY <1>1, <2>1
    <3>3. Len(SubSeq(file, 1, last)) = IF 1 <= last THEN last - 1 + 1 ELSE 0
      BY <3>2, SubSeqProperties
    <3>4. QED
      BY <3>1, <3>2, <3>3
  <2>6. cal.reader.got \o first \o SubSeq(file, at + 1, whole) \in Seq(Pieces)
    BY <1>2, <1>4, <2>4
  <2>7. QED
    BY <1>4, <2>2, <2>3, <2>5, <2>6 DEF Readers
<1>5. \A at \in Before : at \in Nat /\ at <= Len(file)
  <2>1. Len(file) \in Nat
    BY <1>1
  <2>2. CASE Moved
    BY <2>1, <2>2 DEF Before
  <2>3. CASE ~Moved
    <3>1. PICK n \in 0..Len(file) : SubSeq(file, 1, n) = cal.reader.seen
      BY <2>3 DEF Moved
    <3>2. Len(cal.reader.seen) = n
      <4>1. n \in Int /\ 1 \in Int /\ \A i \in 1..n : file[i] \in AllLines
        BY <1>1, <2>1
      <4>2. Len(SubSeq(file, 1, n)) = IF 1 <= n THEN n - 1 + 1 ELSE 0
        BY <4>1, SubSeqProperties
      <4>3. QED
        BY <3>1, <4>1, <4>2
    <3>3. cal.reader.head => n > 0
      BY <1>1, <3>2 DEF Readers
    <3>4. QED
      BY <2>1, <2>3, <3>2, <3>3 DEF Before
  <2>4. QED
    BY <2>2, <2>3
<1>6. Readings \subseteq Readers
  <2> SUFFICES ASSUME NEW p \in Before \X First \X ReadSizes \X BOOLEAN, p[4] => p[1] < Len(file)
               PROVE  Read(p[1], p[2], p[3], p[4]) \in Readers
    BY DEF Readings
  <2>1. p[1] \in Before /\ p[2] \in First /\ p[3] \in ReadSizes /\ p[4] \in BOOLEAN
    OBVIOUS
  <2>2. p[3] \in Nat \ {0}
    BY <2>1, WorkshopAssumption
  <2>3. QED
    BY <1>3, <1>4, <1>5, <2>1, <2>2
<1>7. Contents \subseteq Seq(Pieces)
  <2>1. \A first \in First : cal.reader.got \o first \in Seq(Pieces)
    BY <1>2, <1>3
  <2>2. CASE Moved
    <3>1. Contents = {cal.reader.got \o first : first \in First}
      BY <2>2 DEF Contents
    <3>2. QED
      BY <2>1, <3>1
  <2>3. CASE ~Moved
    BY <1>2, <2>3 DEF Contents
  <2>4. QED
    BY <2>2, <2>3
<1>8. QED
  BY <1>6, <1>7

\* Under a reader that follows the file, every read goes on with the next line, or
\* with the rest of the one it was in; and the end of the file is the end of it.
LEMMA ReadingFollows ==
  ASSUME WInv, cal.pc \in {"hashing", "decoding"}, Follows(cal.reader, file)
  PROVE  /\ \A reader \in Readings : Follows(reader, file)
         /\ \A content \in Contents : content = file
<1>1. file \in Seq(AllLines) /\ Len(file) \in Nat
  BY DEF WInv, WTypes, ReaderInv
<1>2. PICK n \in 0..Len(file) :
        /\ cal.reader.seen = SubSeq(file, 1, n)
        /\ cal.reader.head => n > 0
        /\ cal.reader.got = SubSeq(file, 1, IF cal.reader.head THEN n - 1 ELSE n)
  BY DEF Follows
<1>3. Len(cal.reader.seen) = n
  <2>1. n \in Int /\ 1 \in Int /\ \A i \in 1..n : file[i] \in AllLines
    BY <1>1
  <2>2. Len(SubSeq(file, 1, n)) = IF 1 <= n THEN n - 1 + 1 ELSE 0
    BY <2>1, SubSeqProperties
  <2>3. QED
    BY <1>2, <2>1, <2>2
<1>4. ~Moved
  BY <1>2 DEF Moved
<1>5. First = {<<>>}
  BY <1>4 DEF First
<1> DEFINE read == IF cal.reader.head THEN n - 1 ELSE n
<1>6. Before = {read} /\ read \in 0..Len(file) /\ cal.reader.got = SubSeq(file, 1, read)
  BY <1>1, <1>2, <1>3, <1>4 DEF Before
<1> HIDE DEF read
<1>7. ASSUME NEW size \in Nat \ {0}, NEW part \in BOOLEAN, part => read < Len(file)
      PROVE  Follows(Read(read, <<>>, size, part), file)
  <2> DEFINE last == IF read + size < Len(file) THEN read + size ELSE Len(file)
  <2> DEFINE whole == IF part THEN last - 1 ELSE last
  <2>1. last \in 0..Len(file) /\ (part => last > 0) /\ whole \in read..Len(file)
    BY <1>1, <1>6, <1>7
  <2>2. /\ Read(read, <<>>, size, part).seen = SubSeq(file, 1, last)
        /\ Read(read, <<>>, size, part).head = part
        /\ Read(read, <<>>, size, part).got
             = cal.reader.got \o <<>> \o SubSeq(file, read + 1, whole)
    BY DEF Read
  <2> HIDE DEF last
  <2>3. cal.reader.got \o <<>> = cal.reader.got
    BY <1>1, <1>6, SubSeqTypes
  <2> HIDE DEF whole
  <2>4. SubSeq(file, 1, read) \o SubSeq(file, read + 1, whole) = SubSeq(file, 1, whole)
    <3>1. 1 \in 1..(Len(file) + 1) /\ read \in (1 - 1)..Len(file) /\ whole \in read..Len(file)
      BY <1>1, <1>6, <2>1
    <3>2. QED
      BY <1>1, <3>1, ConcatAdjacentSubSeq
  <2>5. Read(read, <<>>, size, part).got = SubSeq(file, 1, whole)
    BY <1>6, <2>2, <2>3, <2>4
  <2>6. QED
    BY <2>1, <2>2, <2>5 DEF Follows, whole
<1>8. ASSUME NEW reader \in Readings PROVE Follows(reader, file)
  <2>1. PICK p \in Before \X First \X ReadSizes \X BOOLEAN :
          (p[4] => p[1] < Len(file)) /\ reader = Read(p[1], p[2], p[3], p[4])
    BY DEF Readings
  <2>2. p[1] = read /\ p[2] = <<>> /\ p[3] \in ReadSizes /\ p[4] \in BOOLEAN
    BY <1>5, <1>6
  <2>3. p[3] \in Nat \ {0}
    BY <2>2, WorkshopAssumption
  <2>4. QED
    BY <1>7, <2>1, <2>2, <2>3
<1>9. ASSUME NEW content \in Contents PROVE content = file
  <2>1. content = cal.reader.got /\ cal.reader.seen = file /\ ~cal.reader.head
    BY <1>4 DEF Contents
  <2>2. n = Len(file) /\ read = n
    BY <1>3, <2>1 DEF read
  <2>3. QED
    BY <1>1, <1>6, <2>1, <2>2, SubSeqFull
<1>10. QED
  BY <1>8, <1>9

\* What follows lines of scored runs is no exchange: if it does not load, a line of
\* it was cut.
LEMMA FollowedLoads ==
  ASSUME NEW lines \in Seq({Torn} \cup Samples), NEW reader, Follows(reader, lines)
  PROVE  LoadCorpus(reader.got).error # "content"
<1>1. PICK n \in 0..Len(lines) :
        /\ reader.head => n > 0
        /\ reader.got = SubSeq(lines, 1, IF reader.head THEN n - 1 ELSE n)
  BY DEF Follows
<1>2. (IF reader.head THEN n - 1 ELSE n) \in 0..Len(lines)
  BY <1>1
<1>3. reader.got \in Seq({Torn} \cup Samples)
  BY <1>1, <1>2, SubSeqTypes
<1>4. QED
  BY <1>3, SamplesAreLines, Loading

-----------------------------------------------------------------------------
(* The steps of calibrate.                                                 *)

CalSteps ==
  \/ CalibrateRefused \/ CalibrateStarts \/ OpenCorpus \/ HashCorpus \/ DecodeCorpus
  \/ OpenOutput \/ WriteOutput \/ CalibrateKilled

LEMMA ExitCodeOfError ==
  ASSUME NEW error
  PROVE  /\ CorpusErrExitCode(error) \in {1, 2} /\ CorpusErrExitCode(error) \in ExitCodes
         /\ error \in {"path", "syntax"} => CorpusErrExitCode(error) = 1
BY DEF CorpusErrExitCode, ExitCodes

\* calibrate leaves the corpus alone, and its own fields keep their types.
LEMMA CalibrateTypes ==
  ASSUME WInv, CalSteps
  PROVE  WTypes' /\ FileInv'
<1>1. UNCHANGED <<now, file, gen, runs, modes, disturbed, truncated>>
  BY DEF CalSteps, CalibrateRefused, CalibrateStarts, OpenCorpus, HashCorpus, DecodeCorpus,
         OpenOutput, WriteOutput, CalibrateKilled
<1>2. cal \in CalTypes
  BY DEF WInv, WTypes
<1>3. ASSUME NEW code \in ExitCodes, Exit(code) PROVE cal' \in CalTypes
  BY <1>2, <1>3, FreshReads DEF Exit, CalTypes, CalPcs
<1>4. ASSUME NEW p \in CalPcs, cal' = [cal EXCEPT !.pc = p] PROVE cal' \in CalTypes
  BY <1>2, <1>4 DEF CalTypes
<1>5. ASSUME NEW error, Exit(CorpusErrExitCode(error)) PROVE cal' \in CalTypes
  <2>1. CorpusErrExitCode(error) \in ExitCodes
    BY ExitCodeOfError
  <2>2. QED
    BY <1>3, <1>5, <2>1
<1>6. ASSUME HashCorpus PROVE cal' \in CalTypes
  <2>1. ASSUME NEW reader \in Readings, cal' = [cal EXCEPT !.reader = reader]
        PROVE  cal' \in CalTypes
    <3>1. reader \in Readers
      BY <1>6, <2>1, ReadingTypes DEF HashCorpus
    <3>2. QED
      BY <1>2, <2>1, <3>1 DEF CalTypes
  <2>2. ASSUME NEW content \in Contents,
               cal' = [cal EXCEPT !.pc = "fingerprinted",
                                  !.fingerprint = FingerprintCorpus(content), !.reader = Fresh]
        PROVE  cal' \in CalTypes
    <3>1. content \in Seq(Pieces)
      BY <1>6, <2>2, ReadingTypes DEF HashCorpus
    <3>2. FingerprintCorpus(content) \in Fingerprints
      BY <3>1 DEF FingerprintCorpus, Fingerprints
    <3>3. Fresh \in Readers /\ "fingerprinted" \in CalPcs
      BY FreshReads DEF CalPcs
    <3> DEFINE digest == FingerprintCorpus(content)
    <3> HIDE DEF digest
    <3>4. digest \in Fingerprints
      BY <3>2 DEF digest
    <3>5. cal' = [cal EXCEPT !.pc = "fingerprinted", !.fingerprint = digest, !.reader = Fresh]
      BY <2>2 DEF digest
    <3>6. QED
      BY <1>2, <3>3, <3>4, <3>5 DEF CalTypes
  <2>3. QED
    BY <1>6, <2>1, <2>2 DEF HashCorpus
<1>7. ASSUME DecodeCorpus PROVE cal' \in CalTypes
  <2>1. ASSUME NEW reader \in Readings, cal' = [cal EXCEPT !.reader = reader]
        PROVE  cal' \in CalTypes
    <3>1. reader \in Readers
      BY <1>7, <2>1, ReadingTypes DEF DecodeCorpus
    <3>2. QED
      BY <1>2, <2>1, <3>1 DEF CalTypes
  <2>2. ASSUME NEW content \in Contents, LoadCorpus(content).error = "none",
               cal' = [cal EXCEPT !.pc = "loaded", !.entries = LoadCorpus(content).entries,
                                  !.reader = Fresh]
        PROVE  cal' \in CalTypes
    <3>1. content \in Seq(Pieces)
      BY <1>7, <2>2, ReadingTypes DEF DecodeCorpus
    <3>2. LoadCorpus(content).entries \in Seq(Loadable)
      BY <2>2, <3>1, LoadingPieces
    <3>3. Fresh \in Readers /\ "loaded" \in CalPcs
      BY FreshReads DEF CalPcs
    <3>4. QED
      BY <1>2, <2>2, <3>2, <3>3 DEF CalTypes
  <2>3. CASE \E reader \in Readings :
               LET error == LoadCorpus(reader.got).error
               IN IF error = "none" THEN cal' = [cal EXCEPT !.reader = reader]
                  ELSE Exit(CorpusErrExitCode(error))
    <3>1. PICK reader \in Readings :
            LET error == LoadCorpus(reader.got).error
            IN IF error = "none" THEN cal' = [cal EXCEPT !.reader = reader]
               ELSE Exit(CorpusErrExitCode(error))
      BY <2>3
    <3> DEFINE error == LoadCorpus(reader.got).error
    <3>2. cal' = [cal EXCEPT !.reader = reader] \/ Exit(CorpusErrExitCode(error))
      BY <3>1
    <3> HIDE DEF error
    <3>3. QED
      BY <1>5, <2>1, <3>2
  <2>4. CASE \E content \in Contents :
               LET corpus == LoadCorpus(content)
               IN IF corpus.error = "none"
                  THEN cal' = [cal EXCEPT !.pc = "loaded", !.entries = corpus.entries,
                                          !.reader = Fresh]
                  ELSE Exit(CorpusErrExitCode(corpus.error))
    <3>1. PICK content \in Contents :
            LET corpus == LoadCorpus(content)
            IN IF corpus.error = "none"
               THEN cal' = [cal EXCEPT !.pc = "loaded", !.entries = corpus.entries,
                                       !.reader = Fresh]
               ELSE Exit(CorpusErrExitCode(corpus.error))
      BY <2>4
    <3> DEFINE corpus == LoadCorpus(content)
    <3>2. CASE corpus.error = "none"
      BY <2>2, <3>1, <3>2
    <3>3. CASE corpus.error # "none"
      <4>1. Exit(CorpusErrExitCode(corpus.error))
        BY <3>1, <3>3
      <4> HIDE DEF corpus
      <4>2. QED
        BY <1>5, <4>1
    <3>4. QED
      BY <3>2, <3>3
  <2>5. QED
    BY <1>7, <2>3, <2>4 DEF DecodeCorpus
<1>8. ASSUME OpenCorpus PROVE cal' \in CalTypes
  <2>1. "hashing" \in CalPcs /\ "decoding" \in CalPcs /\ 1 \in ExitCodes
    BY DEF CalPcs, ExitCodes
  <2>2. QED
    BY <1>3, <1>4, <1>8, <1>5, <2>1 DEF OpenCorpus
<1>9. cal' \in CalTypes
  <2>1. {0, 1, 2, 137} = ExitCodes /\ "started" \in CalPcs /\ "opened" \in CalPcs
    BY DEF CalPcs, ExitCodes
  <2>2. QED
    BY <1>3, <1>4, <1>6, <1>7, <1>8, <2>1
    DEF CalSteps, CalibrateRefused, CalibrateStarts, OpenOutput, WriteOutput, CalibrateKilled
<1>10. WTypes'
  BY <1>1, <1>9 DEF WInv, WTypes
<1>11. FileInv'
  BY <1>1 DEF WInv, FileInv, Finished
<1>12. QED
  BY <1>10, <1>11

\* A reader that follows the corpus goes on to, until its end.
LEMMA CalibrateKeepsReaderInv ==
  ASSUME WInv, CalSteps
  PROVE  ReaderInv'
<1>1. UNCHANGED <<file, disturbed, truncated>>
  BY DEF CalSteps, CalibrateRefused, CalibrateStarts, OpenCorpus, HashCorpus, DecodeCorpus,
         OpenOutput, WriteOutput, CalibrateKilled
<1>2. cal \in CalTypes
  BY DEF WInv, WTypes
<1>3. CASE cal'.pc \in {"loaded", "opened", "exited"}
  BY <1>1, <1>3 DEF WInv, ReaderInv
<1>4. CASE CalibrateStarts
  BY <1>1, <1>2, <1>4 DEF CalibrateStarts, WInv, ReaderInv, CalTypes
<1>5. ASSUME NEW code, Exit(code) PROVE cal'.pc = "exited"
  BY <1>2, <1>5 DEF Exit, CalTypes
<1>6. CASE OpenCorpus
  <2>1. ASSUME NEW p \in {"hashing", "decoding"}, file # NoFile, cal' = [cal EXCEPT !.pc = p],
               cal.pc \in {"started", "fingerprinted"}
        PROVE  ReaderInv'
    <3>1. cal'.pc = p /\ cal'.reader = Fresh
      BY <1>2, <2>1 DEF WInv, ReaderInv, CalTypes
    <3>2. file \in Seq(AllLines)
      BY <2>1 DEF WInv, WTypes
    <3>3. Follows(cal'.reader, file)
      BY <3>1, <3>2, FreshReads
    <3>4. QED
      BY <1>1, <2>1, <3>1, <3>3 DEF WInv, ReaderInv
  <2>2. QED
    BY <1>3, <1>5, <1>6, <2>1 DEF OpenCorpus
<1>7. ASSUME NEW reader \in Readings, cal' = [cal EXCEPT !.reader = reader],
             cal.pc \in {"hashing", "decoding"}
      PROVE  ReaderInv'
  <2>1. cal'.pc = cal.pc /\ cal'.reader = reader
    BY <1>2, <1>7 DEF CalTypes
  <2>2. ASSUME Follows(cal.reader, file) PROVE Follows(reader, file)
    BY <1>7, <2>2, ReadingFollows
  <2>3. QED
    BY <1>1, <1>7, <2>1, <2>2 DEF WInv, ReaderInv
<1>8. CASE HashCorpus
  <2>1. CASE cal'.pc = "fingerprinted" /\ cal'.reader = Fresh
    BY <1>1, <2>1 DEF WInv, ReaderInv
  <2>2. QED
    BY <1>2, <1>7, <1>8, <2>1 DEF HashCorpus, CalTypes
<1>9. CASE DecodeCorpus
  <2>1. ASSUME NEW content,
               cal' = [cal EXCEPT !.pc = "loaded", !.entries = LoadCorpus(content).entries,
                                  !.reader = Fresh]
        PROVE  cal'.pc = "loaded"
    BY <1>2, <2>1 DEF CalTypes
  <2>2. QED
    BY <1>3, <1>5, <1>7, <1>9, <2>1 DEF DecodeCorpus
<1>10. ASSUME OpenOutput \/ WriteOutput PROVE cal'.pc \in {"opened", "exited"}
  BY <1>2, <1>5, <1>10 DEF OpenOutput, WriteOutput, CalTypes
<1>11. QED
  BY <1>3, <1>4, <1>5, <1>6, <1>8, <1>9, <1>10
  DEF CalSteps, CalibrateRefused, CalibrateKilled

\* A step that ends calibrate without a profile, and not by a corpus it blames.
LEMMA ExitKeepsCalInv ==
  ASSUME WInv, NEW code \in {1, 2, 137}, Exit(code),
         UNCHANGED <<file, modes, output, disturbed, truncated>>, ~Whole,
         output = Cut => code \in {1, 137},
         code = 2 /\ cal.fingerprint # NoFingerprint =>
           ~(modes \subseteq {"scored"}) \/ truncated
  PROVE  CalInv'
<1>1. /\ cal'.pc = "exited" /\ cal'.exit = code
      /\ cal'.fingerprint = cal.fingerprint /\ cal'.entries = cal.entries
  BY DEF Exit, WInv, WTypes, CalTypes
<1>2. ~Whole'
  BY DEF Whole
<1>3. QED
  BY <1>1, <1>2 DEF CalInv

LEMMA CalibrateKeepsCalInv ==
  ASSUME WInv, CalSteps
  PROVE  CalInv'
<1>1. cal.pc # "exited" => ~Whole
  BY DEF WInv, CalInv
<1>2. output = Cut => cal.pc \in {"opened", "exited"}
  BY DEF WInv, CalInv
<1>3. CASE CalibrateRefused
  <2>1. /\ cal.pc = "none" /\ Exit(2) /\ UNCHANGED <<file, modes, output, disturbed, truncated>>
    BY <1>3 DEF CalibrateRefused
  <2>2. cal.fingerprint = NoFingerprint /\ output # Cut /\ ~Whole
    BY <1>1, <1>2, <2>1 DEF WInv, CalInv
  <2>3. QED
    BY <2>1, <2>2, ExitKeepsCalInv
<1>4. CASE CalibrateStarts
  <2>1. /\ cal.pc = "none" /\ cal' = [cal EXCEPT !.pc = "started"]
        /\ UNCHANGED <<file, modes, output, disturbed, truncated>>
    BY <1>4 DEF CalibrateStarts
  <2>2. /\ cal'.pc = "started" /\ cal'.fingerprint = cal.fingerprint
        /\ cal.fingerprint = NoFingerprint
    BY <2>1 DEF WInv, WTypes, CalTypes, CalInv
  <2>3. ~Whole' /\ output' # Cut
    BY <1>1, <1>2, <2>1 DEF Whole
  <2>4. QED
    BY <2>2, <2>3 DEF CalInv
<1>5. CASE OpenCorpus
  <2>1. cal.pc \in {"started", "fingerprinted"} /\ UNCHANGED <<file, modes, output, disturbed, truncated>>
    BY <1>5 DEF OpenCorpus
  <2>2. ~Whole /\ output # Cut
    BY <1>1, <1>2, <2>1
  <2>3. CASE Exit(1)
    BY <2>1, <2>2, <2>3, ExitKeepsCalInv
  <2>4. CASE cal.pc = "started" /\ cal' = [cal EXCEPT !.pc = "hashing"]
    <3>1. cal'.pc = "hashing" /\ cal'.fingerprint = NoFingerprint
      BY <2>4 DEF WInv, WTypes, CalTypes, CalInv
    <3>2. ~Whole' /\ output' # Cut
      BY <2>1, <2>2 DEF Whole
    <3>3. QED
      BY <3>1, <3>2 DEF CalInv
  <2>5. CASE cal.pc = "fingerprinted" /\ cal' = [cal EXCEPT !.pc = "decoding"]
    <3>1. cal'.pc = "decoding" /\ cal'.fingerprint = cal.fingerprint
      BY <2>5 DEF WInv, WTypes, CalTypes
    <3>2. ~Whole' /\ output' # Cut
      BY <2>1, <2>2 DEF Whole
    <3>3. ~disturbed => file # NoFile /\ cal.fingerprint = <<"sha256", file>>
      BY <2>5 DEF WInv, CalInv
    <3>4. QED
      BY <2>1, <3>1, <3>2, <3>3 DEF CalInv
  <2>6. CorpusErrExitCode("path") = 1
    BY ExitCodeOfError
  <2>7. QED
    BY <1>5, <2>3, <2>4, <2>5, <2>6 DEF OpenCorpus
<1>6. CASE HashCorpus
  <2>1. cal.pc = "hashing" /\ UNCHANGED <<file, modes, output, disturbed, truncated>>
    BY <1>6 DEF HashCorpus
  <2>2. /\ cal.fingerprint = NoFingerprint /\ file # NoFile
        /\ ~disturbed => Follows(cal.reader, file)
    BY <2>1 DEF WInv, CalInv, ReaderInv
  <2>3. ~Whole' /\ output' # Cut
    BY <1>1, <1>2, <2>1 DEF Whole
  <2>4. ASSUME NEW reader \in Readings, cal' = [cal EXCEPT !.reader = reader] PROVE CalInv'
    <3>1. cal'.pc = "hashing" /\ cal'.fingerprint = NoFingerprint
      BY <2>1, <2>2, <2>4 DEF WInv, WTypes, CalTypes
    <3>2. QED
      BY <2>3, <3>1 DEF CalInv
  <2>5. ASSUME NEW content \in Contents,
               cal' = [cal EXCEPT !.pc = "fingerprinted",
                                  !.fingerprint = FingerprintCorpus(content), !.reader = Fresh]
        PROVE  CalInv'
    <3>1. cal'.pc = "fingerprinted" /\ cal'.fingerprint = FingerprintCorpus(content)
      BY <2>5 DEF WInv, WTypes, CalTypes
    <3>2. ~disturbed => content = file
      BY <2>1, <2>2, <2>5, ReadingFollows
    <3>3. ~disturbed => cal'.fingerprint = <<"sha256", file>>
      BY <2>2, <3>1, <3>2 DEF FingerprintCorpus
    <3>4. QED
      BY <2>1, <2>2, <2>3, <3>1, <3>3 DEF CalInv
  <2>6. QED
    BY <1>6, <2>4, <2>5 DEF HashCorpus
<1>7. CASE DecodeCorpus
  <2>1. cal.pc = "decoding" /\ UNCHANGED <<file, modes, output, disturbed, truncated>>
    BY <1>7 DEF DecodeCorpus
  <2>2. ~Whole /\ output # Cut
    BY <1>1, <1>2, <2>1
  <2>3. /\ file # NoFile /\ file \in Seq(AllLines)
        /\ ~truncated => Follows(cal.reader, file)
        /\ truncated => disturbed
        /\ ~disturbed => cal.fingerprint = <<"sha256", file>>
    BY <2>1 DEF WInv, WTypes, CalInv, ReaderInv
  <2>4. modes \subseteq {"scored"} => file \in Seq({Torn} \cup Samples)
    BY <2>3 DEF WInv, FileInv
  <2>5. ASSUME NEW error \in {"path", "syntax", "content"}, Exit(CorpusErrExitCode(error)),
               error = "content" => ~(modes \subseteq {"scored"}) \/ truncated
        PROVE  CalInv'
    <3>1. CorpusErrExitCode(error) \in {1, 2, 137}
      BY ExitCodeOfError
    <3>2. error # "content" => CorpusErrExitCode(error) = 1
      BY ExitCodeOfError
    <3>3. CorpusErrExitCode(error) = 2 => ~(modes \subseteq {"scored"}) \/ truncated
      BY <2>5, <3>2
    <3>4. QED
      BY <2>1, <2>2, <2>5, <3>1, <3>3, ExitKeepsCalInv
  <2>6. ASSUME NEW reader \in Readings
        PROVE  /\ LoadCorpus(reader.got).error \in {"none", "path", "syntax", "content"}
               /\ LoadCorpus(reader.got).error = "content" =>
                    ~(modes \subseteq {"scored"}) \/ truncated
    <3>1. reader.got \in Seq(Pieces)
      BY <2>1, <2>6, ReadingTypes DEF Readers
    <3>2. ~truncated => Follows(reader, file)
      BY <2>1, <2>3, <2>6, ReadingFollows
    <3>3. QED
      BY <2>4, <3>1, <3>2, LoadingPieces, FollowedLoads
  <2>7. ASSUME NEW content \in Contents
        PROVE  /\ LoadCorpus(content).error \in {"none", "path", "syntax", "content"}
               /\ LoadCorpus(content).error = "content" =>
                    ~(modes \subseteq {"scored"}) \/ truncated
    <3>1. content \in Seq(Pieces)
      BY <2>1, <2>7, ReadingTypes
    <3>2. ~truncated => content = file
      BY <2>1, <2>3, <2>7, ReadingFollows
    <3>3. QED
      BY <2>3, <2>4, <3>1, <3>2, LoadingPieces, Loading
  <2>8. ASSUME NEW reader \in Readings, cal' = [cal EXCEPT !.reader = reader] PROVE CalInv'
    <3>1. cal'.pc = "decoding" /\ cal'.fingerprint = cal.fingerprint
      BY <2>1, <2>8 DEF WInv, WTypes, CalTypes
    <3>2. ~Whole' /\ output' # Cut
      BY <2>1, <2>2 DEF Whole
    <3>3. QED
      BY <2>1, <2>3, <3>1, <3>2 DEF CalInv
  <2>9. ASSUME NEW content \in Contents,
               cal' = [cal EXCEPT !.pc = "loaded", !.entries = LoadCorpus(content).entries,
                                  !.reader = Fresh]
        PROVE  CalInv'
    <3>1. /\ cal'.pc = "loaded" /\ cal'.entries = LoadCorpus(content).entries
          /\ cal'.fingerprint = cal.fingerprint
      BY <2>9 DEF WInv, WTypes, CalTypes
    <3>2. ~Whole' /\ output' # Cut
      BY <2>1, <2>2 DEF Whole
    <3>3. ~disturbed => content = file
      BY <2>1, <2>3, <2>9, ReadingFollows
    <3>4. QED
      BY <2>1, <2>3, <3>1, <3>2, <3>3 DEF CalInv
  <2>10. CASE \E reader \in Readings :
                LET error == LoadCorpus(reader.got).error
                IN IF error = "none" THEN cal' = [cal EXCEPT !.reader = reader]
                   ELSE Exit(CorpusErrExitCode(error))
    <3>1. PICK reader \in Readings :
            IF LoadCorpus(reader.got).error = "none" THEN cal' = [cal EXCEPT !.reader = reader]
            ELSE Exit(CorpusErrExitCode(LoadCorpus(reader.got).error))
      BY <2>10
    <3>2. QED
      BY <2>5, <2>6, <2>8, <3>1
  <2>11. CASE \E content \in Contents :
                LET corpus == LoadCorpus(content)
                IN IF corpus.error = "none"
                   THEN cal' = [cal EXCEPT !.pc = "loaded", !.entries = corpus.entries,
                                           !.reader = Fresh]
                   ELSE Exit(CorpusErrExitCode(corpus.error))
    <3>1. PICK content \in Contents :
            IF LoadCorpus(content).error = "none"
            THEN cal' = [cal EXCEPT !.pc = "loaded", !.entries = LoadCorpus(content).entries,
                                    !.reader = Fresh]
            ELSE Exit(CorpusErrExitCode(LoadCorpus(content).error))
      BY <2>11
    <3>2. QED
      BY <2>5, <2>7, <2>9, <3>1
  <2>12. QED
    BY <1>7, <2>10, <2>11 DEF DecodeCorpus
<1>8. CASE OpenOutput
  <2>1. cal.pc = "loaded" /\ UNCHANGED <<file, modes, disturbed, truncated>>
    BY <1>8 DEF OpenOutput
  <2>2. ~Whole /\ output # Cut
    BY <1>1, <1>2, <2>1
  <2>3. CASE output' = Cut /\ cal' = [cal EXCEPT !.pc = "opened"]
    <3>1. /\ cal'.pc = "opened" /\ cal'.entries = cal.entries
          /\ cal'.fingerprint = cal.fingerprint
      BY <2>3 DEF WInv, WTypes, CalTypes
    <3>2. ~Whole'
      BY <2>3 DEF Whole, Cut
    <3>3. ~disturbed => /\ file # NoFile /\ cal.fingerprint = <<"sha256", file>>
                        /\ cal.entries = LoadCorpus(file).entries
      BY <2>1 DEF WInv, CalInv
    <3>4. QED
      BY <2>1, <3>1, <3>2, <3>3 DEF CalInv
  <2>4. CASE Exit(1) /\ UNCHANGED output
    BY <2>1, <2>2, <2>4, ExitKeepsCalInv
  <2>5. QED
    BY <1>8, <2>3, <2>4 DEF OpenOutput
<1>9. CASE WriteOutput
  <2>1. cal.pc = "opened" /\ UNCHANGED <<file, modes, disturbed, truncated>>
    BY <1>9 DEF WriteOutput
  <2>2. ~Whole
    BY <1>1, <2>1
  <2>3. CASE /\ output' = [cpu |-> Env.cpu, llm |-> <<"stub:v0">>, corpus |-> cal.fingerprint,
                           dateRevision |-> CalibratedUntil, entries |-> cal.entries]
             /\ Exit(0)
    <3>1. /\ cal'.pc = "exited" /\ cal'.exit = 0 /\ cal'.entries = cal.entries
          /\ cal'.fingerprint = cal.fingerprint
      BY <2>3 DEF WInv, WTypes, CalTypes, Exit
    <3>2. Whole'
      BY <2>3 DEF Whole
    <3>3. output' # Cut /\ output'.entries = cal.entries /\ output'.corpus = cal.fingerprint
      BY <2>3 DEF Cut
    <3>4. ~disturbed => \E lines \in Seq(AllLines) :
                          /\ cal.fingerprint = <<"sha256", lines>>
                          /\ cal.entries = LoadCorpus(lines).entries
      <4>1. ~disturbed => /\ file # NoFile /\ cal.fingerprint = <<"sha256", file>>
                          /\ cal.entries = LoadCorpus(file).entries
        BY <2>1 DEF WInv, CalInv
      <4>2. QED
        BY <4>1 DEF WInv, WTypes
    <3>5. QED
      BY <2>1, <3>1, <3>2, <3>3, <3>4 DEF CalInv
  <2>4. CASE Exit(1) /\ UNCHANGED output
    BY <2>1, <2>2, <2>4, ExitKeepsCalInv
  <2>5. QED
    BY <1>9, <2>3, <2>4 DEF WriteOutput
<1>10. CASE CalibrateKilled
  <2>1. /\ Exit(137) /\ UNCHANGED <<file, modes, output, disturbed, truncated>>
        /\ cal.pc # "exited"
    BY <1>10 DEF CalibrateKilled, Calibrating
  <2>2. QED
    BY <1>1, <2>1, ExitKeepsCalInv
<1>11. QED
  BY <1>3, <1>4, <1>5, <1>7, <1>8, <1>9, <1>10, <1>6 DEF CalSteps

LEMMA StepWInv == WInv /\ [Next]_vars => WInv'
<1> SUFFICES ASSUME WInv, [Next]_vars PROVE WInv'
  OBVIOUS
<1>1. CASE Tick
  BY <1>1, TickStep
<1>2. ASSUME NEW seed \in Seeds, NEW mode \in Modes, Generate(seed, mode) PROVE WInv'
  BY <1>2, GenerateStep
<1>3. ASSUME NEW exit, GenerateRefused(exit) PROVE WInv'
  BY <1>3, RefusedStep
<1>4. ASSUME NEW exit, GeneratorDies(exit) PROVE WInv'
  BY <1>4, DiesStep
<1>5. CASE WriteLine
  BY <1>5, WriteLineStep
<1>6. CASE GeneratorReturns
  BY <1>6, ReturnsStep
<1>7. CASE CalSteps
  BY <1>7, CalibrateTypes, CalibrateKeepsReaderInv, CalibrateKeepsCalInv DEF WInv
<1>8. CASE UNCHANGED vars
  BY <1>8 DEF vars, WInv, WTypes, FileInv, ReaderInv, CalInv, Finished, Whole
<1>9. QED
  BY <1>1, <1>2, <1>3, <1>4, <1>5, <1>6, <1>7, <1>8 DEF Next, CalSteps

LEMMA Invariance == Spec => []WInv
<1>1. QED
  BY InitWInv, StepWInv, PTL DEF Spec

-----------------------------------------------------------------------------
(* The theorems.                                                           *)

\* A non-empty line of either command's making carries an id, so LoadCorpus and
\* the classifier read entries, and every entry tau calibrate goes on with is
\* valid; the counters of both processes stay in their ranges.
THEOREM TypeCorrect == Spec => []TypeOK
<1>1. WInv => TypeOK
  <2> SUFFICES ASSUME WInv PROVE TypeOK
    OBVIOUS
  <2>1. file # NoFile => \A i \in DOMAIN file : file[i] = Torn \/ file[i].id
    <3> SUFFICES ASSUME file # NoFile, NEW i \in DOMAIN file PROVE file[i] = Torn \/ file[i].id
      OBVIOUS
    <3>1. file[i] \in AllLines
      BY DEF WInv, WTypes
    <3>2. QED
      BY <3>1, SamplesAreSound, ExchangesAreRejected DEF AllLines
  <2>2. Len(file) <= Count
    <3>1. Count \in Nat \ {0}
      BY WorkshopAssumption
    <3>2. CASE file = NoFile
      <4>1. Len(NoFile) = 1
        BY DEF NoFile
      <4>2. QED
        BY <3>1, <3>2, <4>1
    <3>3. CASE file # NoFile
      BY <3>3 DEF WInv, WTypes
    <3>4. QED
      BY <3>2, <3>3
  <2>3. \A i \in DOMAIN cal.entries : IsValid(cal.entries[i])
    <3> SUFFICES ASSUME NEW i \in DOMAIN cal.entries PROVE IsValid(cal.entries[i])
      OBVIOUS
    <3>1. cal.entries[i] \in Loadable
      BY DEF WInv, WTypes, CalTypes
    <3>2. QED
      BY <3>1 DEF Loadable
  <2>4. (cal.pc = "none" \/ Calibrating \/ cal.pc = "exited") /\ cal.exit \in ExitCodes
    BY DEF WInv, WTypes, CalTypes, CalPcs, Calibrating
  <2>5. QED
    BY <2>1, <2>2, <2>3, <2>4 DEF WInv, WTypes, TypeOK
<1>2. QED
  BY <1>1, Invariance, PTL

\* "genuine grid-search ground truth" (generator.go:136): a scored corpus whose
\* run returned loads, and the default thresholds agree with each of its labels,
\* whatever the plan, the shuffle, the reasoner's replies, and the clock, which
\* may pass the revision date between any two lines.
THEOREM CorpusIsSound == Spec => []ScoredCorpusIsSound
<1>1. WInv => ScoredCorpusIsSound
  <2> SUFFICES ASSUME WInv, Finished, gen.mode = "scored", file # NoFile
               PROVE  /\ LoadCorpus(file).error = "none"
                      /\ CountAgreement(LoadCorpus(file).entries, DefaultThresholds) = Len(file)
    BY DEF ScoredCorpusIsSound
  <2>1. file \in Seq(Samples)
    BY DEF WInv, FileInv
  <2>2. LoadCorpus(file).error = "none" /\ LoadCorpus(file).entries = file
    BY <2>1, SamplesAreLines, Loading
  <2>3. Agreeing(file, DefaultThresholds) = 1..Len(file)
    <3>1. DOMAIN file = 1..Len(file) /\ \A i \in DOMAIN file : file[i] \in Samples
      BY <2>1
    <3>2. QED
      BY <3>1, SamplesAreSound DEF Agreeing
  <2>4. Cardinality(1..Len(file)) = Len(file)
    <3>1. Len(file) \in Nat
      BY <2>1
    <3>2. Cardinality(1..Len(file)) = IF 1 > Len(file) THEN 0 ELSE Len(file) - 1 + 1
      BY <3>1, FS_Interval
    <3>3. QED
      BY <3>1, <3>2
  <2>5. QED
    BY <2>2, <2>3, <2>4 DEF CountAgreement
<1>2. QED
  BY <1>1, Invariance, PTL

LEMMA SpellingsFold ==
  ASSUME NEW s \in SubmittedModes
  PROVE  DiscoveryModeFromString(s) = UnmarshalMode(s)
<1>1. DOMAIN Spellings = {"Static", "DynamicMCP", "DynamicA2A", "DynamicAGNTCY"}
  BY DEF Spellings
<1>2. ASSUME NEW m \in DOMAIN Spellings, s \in Spellings[m],
             \A k \in DOMAIN Spellings : s \in Spellings[k] => k = m
      PROVE  UnmarshalMode(s) = m
  BY <1>2 DEF UnmarshalMode
<1>3. CASE s = "static"
  <2>1. UnmarshalMode(s) = "Static"
    BY <1>1, <1>2, <1>3 DEF Spellings
  <2>2. QED
    BY <1>3, <2>1 DEF DiscoveryModeFromString, Static
<1>4. CASE s = "dynamic_mcp"
  <2>1. UnmarshalMode(s) = "DynamicMCP"
    BY <1>1, <1>2, <1>4 DEF Spellings
  <2>2. QED
    BY <1>4, <2>1 DEF DiscoveryModeFromString
<1>5. CASE s = "dynamic_a2a"
  <2>1. UnmarshalMode(s) = "DynamicA2A"
    BY <1>1, <1>2, <1>5 DEF Spellings
  <2>2. QED
    BY <1>5, <2>1 DEF DiscoveryModeFromString
<1>6. QED
  BY <1>3, <1>4, <1>5 DEF SubmittedModes

\* The bridge converter (agentmesh.go) and the JSON codec of tau read the same
\* discovery mode in every exchange a generated corpus holds.
THEOREM EntrancesAreTheSame == Spec => []EntrancesAgree
<1>1. WInv => EntrancesAgree
  <2> SUFFICES ASSUME WInv, file # NoFile, NEW i \in DOMAIN file, "mode" \in DOMAIN file[i]
               PROVE  DiscoveryModeFromString(file[i].mode) = UnmarshalMode(file[i].mode)
    BY DEF EntrancesAgree
  <2>1. file[i] \in AllLines
    BY DEF WInv, WTypes
  <2>2. file[i] \notin Samples
    BY SamplesAreSound
  <2>3. file[i] # Torn
    BY DEF Torn
  <2>4. file[i].mode \in SubmittedModes
    BY <2>1, <2>2, <2>3, ExchangesAreRejected DEF AllLines
  <2>5. QED
    BY <2>4, SpellingsFold
<1>2. QED
  BY <1>1, Invariance, PTL

\* What the exit code of tau calibrate says of the corpus and of the profile
\* (calibrate.go:118), whenever generate-corpus starts, writes, fails or is killed
\* between the reads of the corpus, and wherever in a line those end; except that
\* nothing is said of 2 when a run emptied the corpus under LoadCorpus.
THEOREM CodesTell == Spec => []ExitCodesTell
<1>1. WInv => ExitCodesTell
  BY DEF WInv, CalInv, ExitCodesTell
<1>2. QED
  BY <1>1, Invariance, PTL

LEMMA FingerprintsDiffer ==
  ASSUME NEW lines \in Seq(AllLines), file = NoFile \/ file \in Seq(AllLines)
  PROVE  FingerprintCorpus(file) # <<"sha256", lines>> <=> file # lines
<1>1. lines # NoFile
  BY NoFileIsNoCorpus
<1>2. QED
  BY <1>1 DEF FingerprintCorpus, NoFingerprint

\* CheckDrift, given the profile of a calibrate that had the corpus to itself,
\* reports the corpus exactly while the file is not the one of its entries.
THEOREM DriftIsSeen == Spec => []DriftSeesTheCorpusMove
<1>1. WInv => DriftSeesTheCorpusMove
  <2> SUFFICES ASSUME WInv, Whole, ~disturbed
               PROVE  LET lines == cal.fingerprint[2]
                      IN /\ output.entries = LoadCorpus(lines).entries
                         /\ "corpus" \in CheckDrift(output, now, Env) <=> file # lines
    BY DEF DriftSeesTheCorpusMove
  <2>1. PICK lines \in Seq(AllLines) : /\ cal.fingerprint = <<"sha256", lines>>
                                       /\ cal.entries = LoadCorpus(lines).entries
    BY DEF WInv, CalInv
  <2>2. output.entries = cal.entries /\ output.corpus = cal.fingerprint
    BY DEF WInv, CalInv
  <2>3. cal.fingerprint[2] = lines
    BY <2>1
  <2>4. file = NoFile \/ file \in Seq(AllLines)
    BY DEF WInv, WTypes
  <2>5. Env.corpus = FingerprintCorpus(file)
    BY DEF Env
  <2>6. output.corpus # NoFingerprint
    BY <2>1, <2>2 DEF NoFingerprint
  <2>7. "corpus" \in CheckDrift(output, now, Env) <=> Env.corpus # output.corpus
    BY <2>6 DEF CheckDrift
  <2>8. QED
    BY <2>1, <2>2, <2>3, <2>4, <2>5, <2>7, FingerprintsDiffer
<1>2. QED
  BY <1>1, Invariance, PTL
-----------------------------------------------------------------------------
(* Reproducibility.                                                        *)

\* A function that is defined from its values below exists, for every length.
LEMMA ProgressGrows ==
  ASSUME NEW seed, NEW mode, NEW t
  PROVE  LET w == Progress(seed, mode, t)
         IN /\ w[0] = <<>>
            /\ \A i \in 1..Count :
                 w[i] = IF Kept(Lines[seed][mode][i][t])
                        THEN Append(w[i - 1], Lines[seed][mode][i][t])
                        ELSE w[i - 1]
<1> DEFINE Written(i, s) == IF Kept(Lines[seed][mode][i][t])
                            THEN Append(s, Lines[seed][mode][i][t]) ELSE s
<1> DEFINE Grows(f, n) == f = [i \in 0..n |-> IF i = 0 THEN <<>> ELSE Written(i, f[i - 1])]
<1>1. Count \in Nat
  BY WorkshopAssumption
<1>2. Progress(seed, mode, t) = CHOOSE f : Grows(f, Count)
  BY Zenon DEF Progress
<1> HIDE DEF Written
<1>3. \A n \in Nat : \E f : Grows(f, n)
  <2> DEFINE S == {n \in Nat : ~\E f : Grows(f, n)}
  <2> SUFFICES ASSUME S # {} PROVE FALSE
    OBVIOUS
  <2>1. S \in SUBSET Nat
    OBVIOUS
  <2> HIDE DEF S
  <2>2. PICK n \in S : \A k \in S : n <= k
    BY <2>1, LeastIndex
  <2>3. n \in Nat /\ ~\E f : Grows(f, n)
    BY <2>2 DEF S
  <2>4. CASE n = 0
    <3>1. Grows([i \in 0..0 |-> <<>>], 0)
      OBVIOUS
    <3>2. QED
      BY <2>3, <2>4, <3>1
  <2>5. CASE n # 0
    <3>1. n - 1 \in Nat /\ n - 1 \notin S
      BY <2>2, <2>3, <2>5
    <3>2. PICK f : Grows(f, n - 1)
      BY <3>1 DEF S
    <3> DEFINE g == [i \in 0..n |-> IF i = n THEN Written(n, f[n - 1]) ELSE f[i]]
    <3>3. \A i \in 0..(n - 1) : f[i] = IF i = 0 THEN <<>> ELSE Written(i, f[i - 1])
      BY <3>2
    <3>4. \A i \in 0..n : g[i] = IF i = 0 THEN <<>> ELSE Written(i, g[i - 1])
      <4> SUFFICES ASSUME NEW i \in 0..n
                   PROVE  g[i] = IF i = 0 THEN <<>> ELSE Written(i, g[i - 1])
        OBVIOUS
      <4>1. CASE i = n
        <5>1. i # 0 /\ i - 1 \in 0..n /\ i - 1 # n
          BY <2>3, <2>5, <4>1
        <5>2. g[i - 1] = f[i - 1] /\ g[i] = Written(n, f[n - 1])
          BY <4>1, <5>1
        <5>3. QED
          BY <4>1, <5>1, <5>2
      <4>2. CASE i # n /\ i # 0
        <5>1. i \in 0..(n - 1) /\ i - 1 \in 0..n /\ i - 1 # n
          BY <2>3, <4>2
        <5>2. g[i - 1] = f[i - 1] /\ g[i] = f[i]
          BY <4>2, <5>1
        <5>3. QED
          BY <3>3, <4>2, <5>1, <5>2
      <4>3. CASE i # n /\ i = 0
        <5>1. i \in 0..(n - 1)
          BY <2>3, <4>3
        <5>2. QED
          BY <3>3, <4>3, <5>1
      <4>4. QED
        BY <4>1, <4>2, <4>3
    <3>5. g = [i \in 0..n |-> g[i]]
      OBVIOUS
    <3> HIDE DEF g
    <3>6. Grows(g, n)
      BY <3>4, <3>5
    <3>7. QED
      BY <2>3, <3>6
  <2>6. QED
    BY <2>4, <2>5
<1> HIDE DEF Grows
<1>4. Grows(Progress(seed, mode, t), Count)
  BY <1>1, <1>2, <1>3
<1> USE DEF Grows
<1>5. \A i \in 0..Count : Progress(seed, mode, t)[i] =
                            IF i = 0 THEN <<>> ELSE Written(i, Progress(seed, mode, t)[i - 1])
  BY <1>4
<1>6. Progress(seed, mode, t)[0] = <<>>
  BY <1>1, <1>5
<1>7. \A i \in 1..Count : Progress(seed, mode, t)[i] = Written(i, Progress(seed, mode, t)[i - 1])
  BY <1>1, <1>5
<1>8. QED
  BY <1>6, <1>7 DEF Written

LEMMA Dated == HasProfile /\ Profile.dateRevision \in Nat
BY WorkshopAssumption, PolicyAssumption DEF HasProfile

\* Until the profile has expired the clock is no reason to refuse, and one set
\* of reasons has one verdict.
LEMMA SameVerdict ==
  ASSUME NEW x, NEW answer, NEW t \in 1..Profile.dateRevision, NEW u \in 1..Profile.dateRevision
  PROVE  Decide(x, answer, t) = Decide(x, answer, u)
<1> DEFINE reasons == ReasonsToRefuse(x, answer, t)
<1> DEFINE v == Decide(x, answer, t)
<1> DEFINE w == Decide(x, answer, u)
<1>1. ~Expired(DateRevision, t) /\ ~Expired(DateRevision, u)
  <2>1. DateRevision = Profile.dateRevision /\ Profile.dateRevision \in Nat
    BY Dated DEF DateRevision
  <2>2. QED
    BY <2>1 DEF Expired
<1>2. reasons = ReasonsToRefuse(x, answer, u)
  BY <1>1, Zenon DEF ReasonsToRefuse
<1>3. v \in Verdicts /\ w \in Verdicts
      /\ IsVerdict(v, x, answer, t) /\ IsVerdict(w, x, answer, u)
  BY DecideIsVerdict
<1>4. reasons \subseteq RefusalDiagnostics
  BY DEF ReasonsToRefuse
<1> HIDE DEF reasons, v, w
<1>5. v.regime = w.regime /\ v.diagnostic = w.diagnostic
  <2>1. CASE reasons = {}
    BY <1>2, <1>3, <2>1 DEF IsVerdict, reasons
  <2>2. CASE reasons # {}
    <3>1. /\ v.regime = "Refus" /\ ReasonGiven(v.diagnostic, reasons)
          /\ w.regime = "Refus" /\ ReasonGiven(w.diagnostic, reasons)
      BY <1>2, <1>3, <2>2 DEF IsVerdict, reasons
    <3>2. /\ v.diagnostic \in RefusalDiagnostics /\ w.diagnostic \in RefusalDiagnostics
          /\ Rank(v.diagnostic) <= Rank(w.diagnostic)
          /\ Rank(w.diagnostic) <= Rank(v.diagnostic)
      BY <1>4, <3>1 DEF ReasonGiven
    <3>3. \A d, e \in RefusalDiagnostics :
            Rank(d) <= Rank(e) /\ Rank(e) <= Rank(d) => d = e
      BY Ranks DEF RefusalDiagnostics
    <3>4. QED
      BY <3>1, <3>2, <3>3
  <2>3. QED
    BY <2>1, <2>2
<1>6. v = w
  BY <1>3, <1>5 DEF Verdicts
<1>7. QED
  BY <1>6 DEF v, w

LEMMA SameLine ==
  ASSUME NEW seed \in Seeds, NEW mode \in Modes, NEW i \in 1..Count,
         NEW t \in 1..MaxTime, mode = "plain" \/ t <= Profile.dateRevision
  PROVE  Lines[seed][mode][i][t] = Lines[seed][mode][i][1]
<1>1. 1 \in 1..MaxTime
  BY PolicyAssumption
<1>2. /\ Lines[seed][mode][i][t] = LineAt(seed, mode, i, t)
      /\ Lines[seed][mode][i][1] = LineAt(seed, mode, i, 1)
  BY <1>1 DEF Lines
<1>3. CASE mode = "plain"
  BY <1>2, <1>3 DEF LineAt
<1>4. CASE t <= Profile.dateRevision
  <2>1. t \in 1..Profile.dateRevision /\ 1 \in 1..Profile.dateRevision
    BY <1>4, Dated, PolicyAssumption
  <2>2. \A x, answer : Decide(x, answer, t) = Decide(x, answer, 1)
    BY <2>1, SameVerdict
  <2>3. QED
    BY <1>2, <2>2, Zenon DEF LineAt
<1>5. QED
  BY <1>3, <1>4

\* A run that started before the profile expired has written what it would have
\* written at the first instant, and it returns with all of it.
ProgressInv ==
  /\ gen.pc = "writing" \/ Finished =>
       (gen.mode = "plain" \/ now <= Profile.dateRevision =>
          file = Progress(gen.seed, gen.mode, 1)[gen.next - 1])
  /\ Finished => gen.next = Count + 1

LEMMA StepProgressInv == WInv /\ ProgressInv /\ [Next]_vars => ProgressInv'
<1> SUFFICES ASSUME WInv, ProgressInv, [Next]_vars PROVE ProgressInv'
  OBVIOUS
<1>1. CASE Tick
  <2>1. now \in Int /\ now' = now + 1 /\ gen' = gen /\ file' = file
    BY <1>1 DEF Tick, WInv, WTypes
  <2>2. now' <= Profile.dateRevision => now <= Profile.dateRevision
    BY <2>1, Dated
  <2>3. QED
    BY <2>1, <2>2 DEF ProgressInv, Finished
<1>2. ASSUME NEW seed \in Seeds, NEW mode \in Modes, Generate(seed, mode) PROVE ProgressInv'
  <2>1. /\ gen' = [pc |-> "writing", seed |-> seed, mode |-> mode, next |-> 1, exit |-> 0]
        /\ file' = <<>>
    BY <1>2 DEF Generate
  <2>2. Progress(seed, mode, 1)[0] = <<>>
    BY ProgressGrows
  <2>3. gen'.pc = "writing" /\ gen'.seed = seed /\ gen'.mode = mode /\ gen'.next - 1 = 0
    BY <2>1
  <2>4. QED
    BY <2>1, <2>2, <2>3 DEF ProgressInv, Finished
<1>3. ASSUME NEW exit, GenerateRefused(exit) PROVE ProgressInv'
  <2>1. gen'.pc = "ended" /\ gen'.exit # 0
    BY <1>3 DEF GenerateRefused, WInv, WTypes
  <2>2. QED
    BY <2>1 DEF ProgressInv, Finished
<1>4. ASSUME NEW exit, GeneratorDies(exit) PROVE ProgressInv'
  <2>1. gen'.pc = "ended" /\ gen'.exit # 0
    BY <1>4 DEF GeneratorDies, WInv, WTypes
  <2>2. QED
    BY <2>1 DEF ProgressInv, Finished
<1>5. CASE WriteLine
  <2> DEFINE line == Lines[gen.seed][gen.mode][gen.next][now]
  <2>1. /\ gen.pc = "writing" /\ gen.next <= Count /\ now' = now
        /\ file' = IF Kept(line) THEN Append(file, line) ELSE file
        /\ gen' = [gen EXCEPT !.next = gen.next + 1]
    BY <1>5 DEF WriteLine
  <2>2. /\ gen.seed \in Seeds /\ gen.mode \in Modes /\ gen.next \in 1..Count
        /\ now \in 1..MaxTime
    BY <2>1, WorkshopAssumption DEF WInv, WTypes
  <2>3. /\ gen'.pc = "writing" /\ gen'.seed = gen.seed /\ gen'.mode = gen.mode
        /\ gen'.next - 1 = gen.next
    BY <2>1, <2>2 DEF WInv, WTypes
  <2>4. ASSUME gen.mode = "plain" \/ now <= Profile.dateRevision
        PROVE  file' = Progress(gen.seed, gen.mode, 1)[gen.next]
    <3>1. line = Lines[gen.seed][gen.mode][gen.next][1]
      BY <2>2, <2>4, SameLine
    <3>2. file = Progress(gen.seed, gen.mode, 1)[gen.next - 1]
      BY <2>1, <2>4 DEF ProgressInv
    <3> HIDE DEF line
    <3>3. Progress(gen.seed, gen.mode, 1)[gen.next] =
            IF Kept(line) THEN Append(file, line) ELSE file
      BY <2>2, <3>1, <3>2, ProgressGrows
    <3>4. QED
      BY <2>1, <3>3
  <2> HIDE DEF line
  <2>5. QED
    BY <2>1, <2>3, <2>4 DEF ProgressInv, Finished
<1>6. CASE GeneratorReturns
  <2>1. /\ gen.pc = "writing" /\ gen.next > Count
        /\ gen' = [gen EXCEPT !.pc = "ended", !.exit = 0] /\ file' = file /\ now' = now
    BY <1>6 DEF GeneratorReturns
  <2>2. gen.next = Count + 1
    BY <2>1, WorkshopAssumption DEF WInv, WTypes
  <2>3. gen'.seed = gen.seed /\ gen'.mode = gen.mode /\ gen'.next = gen.next
    BY <2>1 DEF WInv, WTypes
  <2>4. QED
    BY <2>1, <2>2, <2>3 DEF ProgressInv, Finished
<1>7. CASE CalSteps
  <2>1. UNCHANGED <<now, file, gen>>
    BY <1>7 DEF CalSteps, CalibrateRefused, CalibrateStarts, OpenCorpus, HashCorpus, DecodeCorpus,
                OpenOutput, WriteOutput, CalibrateKilled
  <2>2. QED
    BY <2>1 DEF ProgressInv, Finished
<1>8. CASE UNCHANGED vars
  BY <1>8 DEF vars, ProgressInv, Finished
<1>9. QED
  BY <1>1, <1>2, <1>3, <1>4, <1>5, <1>6, <1>7, <1>8 DEF Next, CalSteps

\* "same seed+count+distribution -> identical output" (main.go:25): until the
\* default profile expires, and with --plain for ever, a run of generate-corpus
\* that returned left the output of its arguments, whatever time it took; of any
\* other output CheckDrift had reported the date an instant before.
THEOREM Reproducible == Spec => []ReproducibleUntilDrift
<1>1. Init => ProgressInv
  BY DEF Init, ProgressInv, Finished
<1>2. Spec => []ProgressInv
  BY <1>1, StepProgressInv, Invariance, PTL DEF Spec
<1>3. WInv /\ ProgressInv => ReproducibleUntilDrift
  <2> SUFFICES ASSUME WInv, ProgressInv, Finished, file # OutputAt(gen.seed, gen.mode, 1)
               PROVE  gen.mode # "plain" /\ "date" \in CheckDrift(DefaultProfile, now - 1, Env)
    BY DEF ReproducibleUntilDrift
  <2>1. gen.next - 1 = Count
    BY WorkshopAssumption DEF ProgressInv
  <2>2. ~(gen.mode = "plain" \/ now <= Profile.dateRevision)
    BY <2>1 DEF ProgressInv, OutputAt
  <2>3. now - 1 >= Profile.dateRevision
    BY <2>2, Dated DEF WInv, WTypes
  <2>4. DefaultProfile.dateRevision = Profile.dateRevision
    BY DEF DefaultProfile
  <2>5. QED
    BY <2>2, <2>3, <2>4 DEF CheckDrift
<1>4. QED
  BY <1>2, <1>3, Invariance, PTL
-----------------------------------------------------------------------------
(* What the branches of the generator come to.                             *)

Branches == {"refusFrontiere", "refusI3", "refusI4", "deterministe",
             "probabiliste", "hysteresis"}

\* The fields of a built exchange that the guards read.
Reads(y, branch) ==
  /\ y.humanInLoop <=> branch = "refusFrontiere"
  /\ y.org /\ y.intent /\ ~y.registry /\ ~y.derived /\ ~y.plan
  /\ y.depth \in Int
  /\ branch = "refusI3" => y.depth >= 3
  /\ branch = "probabiliste" => y.depth = 2
  /\ branch \in {"refusI4", "deterministe", "hysteresis"} => y.depth = 1
  /\ y.contract <=> branch \notin {"refusI3", "probabiliste"}
  /\ y.attestation <=> branch \notin {"refusFrontiere", "refusI3"}
  /\ branch # "refusFrontiere" => Dynamic(y)

LEMMA BuiltFields ==
  ASSUME NEW branch \in Branches, NEW i \in Nat
  PROVE  Reads(ToTauExchange(Build(branch, i)), branch)
<1> DEFINE x == Build(branch, i)
           y == ToTauExchange(x)
<1>1. /\ x.humanInLoop = (branch = "refusFrontiere") /\ x.org = TRUE /\ x.intent = TRUE
      /\ x.depth = IF branch = "refusFrontiere" THEN 0
                   ELSE IF branch = "refusI3" THEN 3 + (i % 3)
                   ELSE IF branch = "probabiliste" THEN 2 ELSE 1
      /\ x.mode = IF branch = "refusFrontiere" THEN "static"
                  ELSE IF branch = "probabiliste" THEN "dynamic_a2a" ELSE "dynamic_mcp"
      /\ x.contract = (branch \notin {"refusI3", "probabiliste"})
      /\ x.attestation = (branch \notin {"refusFrontiere", "refusI3"})
      /\ x.registry = FALSE /\ x.derived = FALSE /\ x.plan = FALSE
  BY DEF Build
<1>2. /\ y.humanInLoop = x.humanInLoop /\ y.org = x.org /\ y.intent = x.intent
      /\ y.depth = x.depth /\ y.contract = x.contract /\ y.attestation = x.attestation
      /\ y.registry = x.registry /\ y.derived = x.derived /\ y.plan = x.plan
      /\ y.mode = DiscoveryModeFromString(x.mode)
  BY DEF Build, ToTauExchange
<1> HIDE DEF x, y
<1>3. i % 3 \in 0..2
  OBVIOUS
<1>4. branch # "refusFrontiere" => y.mode # Static
  BY <1>1, <1>2, Zenon DEF DiscoveryModeFromString, Static
<1>5. /\ x.depth \in Int
      /\ branch = "refusI3" => x.depth >= 3
      /\ branch = "probabiliste" => x.depth = 2
      /\ branch \in {"refusI4", "deterministe", "hysteresis"} => x.depth = 1
  BY <1>1, <1>3
<1>6. QED
  BY <1>1, <1>2, <1>4, <1>5, Zenon DEF x, y, Dynamic, Reads

\* The scores in millionths; at a depth of three or more the chain alone is
\* enough for the lock.
BuiltScoresAre(y, branch, answer) ==
  /\ branch = "refusI3" => ScoreDAuthority(y) >= 937500
  /\ branch = "probabiliste" =>
       /\ ScoreDAuthority(y) = 875000 /\ ScoreDInvariant(y) = 450000
       /\ ScoreDSens(y, answer) = 850000 + 150 * answer
  /\ branch \in {"refusI4", "deterministe", "hysteresis"} =>
       /\ ScoreDAuthority(y) = 562500 /\ ScoreDInvariant(y) = 250000
       /\ ScoreDSens(y, answer) = 500000 + 150 * answer

LEMMA BuiltScores ==
  ASSUME NEW branch \in Branches, branch # "refusFrontiere", NEW i \in Nat,
         NEW answer \in 0..999
  PROVE  BuiltScoresAre(ToTauExchange(Build(branch, i)), branch, answer)
<1> DEFINE y == ToTauExchange(Build(branch, i))
<1>0. Reads(y, branch)
  BY BuiltFields
<1> HIDE DEF y
<1>1. /\ ~y.humanInLoop /\ y.org /\ y.intent /\ y.depth \in Int
      /\ branch = "refusI3" => y.depth >= 3
      /\ branch = "probabiliste" => y.depth = 2
      /\ branch \in {"refusI4", "deterministe", "hysteresis"} => y.depth = 1
      /\ y.contract <=> branch \notin {"refusI3", "probabiliste"}
      /\ ~y.registry /\ ~y.derived /\ ~y.plan
      /\ Dynamic(y)
  BY <1>0 DEF Reads
<1>2. /\ Probe(~y.humanInLoop) = 1 /\ Probe(Dynamic(y)) = 1 /\ Probe(y.intent) = 1
      /\ Probe(y.registry) = 0 /\ Probe(y.derived) = 0
      /\ Probe(y.mediation \/ Dynamic(y)) = 1
  BY <1>1 DEF Probe
<1>3. /\ branch \in {"refusI3", "probabiliste"} =>
           Probe(~y.contract) = 1 /\ ProbeEnumeratedPlan(y) = 1
      /\ branch \in {"refusI4", "deterministe", "hysteresis"} =>
           Probe(~y.contract) = 0 /\ ProbeEnumeratedPlan(y) = 0
  BY <1>1 DEF Probe, ProbeEnumeratedPlan
<1>4. /\ branch = "refusI3" => ProbeChainDepth(y) \in 3..4 /\ ProbeCrossOrg(y) = 1
      /\ branch = "probabiliste" => ProbeChainDepth(y) = 2 /\ ProbeCrossOrg(y) = 1
      /\ branch \in {"refusI4", "deterministe", "hysteresis"} =>
           ProbeChainDepth(y) = 1 /\ ProbeCrossOrg(y) = 0
  BY <1>1, SMT DEF ProbeChainDepth, ProbeCrossOrg, Probe
<1>5. ASSUME NEW v \in Int, 0 <= v, v <= 1000000 PROVE Clamp01(v) = v
  BY <1>5, SMT DEF Clamp01, Scale
<1>6. ASSUME branch = "refusI3" PROVE ScoreDAuthority(y) >= 937500
  BY <1>2, <1>4, <1>5, <1>6, SMT DEF ScoreDAuthority
<1>7. ASSUME branch = "probabiliste"
      PROVE  /\ ScoreDAuthority(y) = 875000 /\ ScoreDInvariant(y) = 450000
             /\ ScoreDSens(y, answer) = 850000 + 150 * answer
  <2>1. 850000 + 150 * answer \in Int /\ 0 <= 850000 + 150 * answer /\ 850000 + 150 * answer <= 1000000
    BY SMT
  <2>2. ScoreDAuthority(y) = Clamp01(875000) /\ ScoreDInvariant(y) = Clamp01(450000)
        /\ ScoreDSens(y, answer) = Clamp01(850000 + 150 * answer)
    BY <1>2, <1>3, <1>4, <1>7, SMT DEF ScoreDAuthority, ScoreDInvariant, ScoreDSens
  <2>3. QED
    BY <1>5, <2>1, <2>2
<1>8. ASSUME branch \in {"refusI4", "deterministe", "hysteresis"}
      PROVE  /\ ScoreDAuthority(y) = 562500 /\ ScoreDInvariant(y) = 250000
             /\ ScoreDSens(y, answer) = 500000 + 150 * answer
  <2>1. 500000 + 150 * answer \in Int /\ 0 <= 500000 + 150 * answer /\ 500000 + 150 * answer <= 1000000
    BY SMT
  <2>2. ScoreDAuthority(y) = Clamp01(562500) /\ ScoreDInvariant(y) = Clamp01(250000)
        /\ ScoreDSens(y, answer) = Clamp01(500000 + 150 * answer)
    BY <1>2, <1>3, <1>4, <1>8, SMT DEF ScoreDAuthority, ScoreDInvariant, ScoreDSens
  <2>3. QED
    BY <1>5, <2>1, <2>2
<1>9. QED
  BY <1>6, <1>7, <1>8 DEF y, BuiltScoresAre

\* The verdict of a branch.
BranchVerdict(branch) ==
  [regime |-> IF branch \in {"refusFrontiere", "refusI3"} THEN "Refus"
              ELSE IF branch = "probabiliste" THEN "Probabiliste" ELSE "Deterministe",
   diagnostic |-> IF branch = "refusFrontiere" THEN DiagFrontiereFranchie
                  ELSE IF branch = "refusI3" THEN DiagVerrouOntologique
                  ELSE NoDiagnostic]

LEMMA DefaultsAre ==
  /\ Limits.authBlock = 850000 /\ Limits.sensCoherence = 500000
  /\ Limits.invCoherence = 500000 /\ Limits.probabiliste = 650000
  /\ DimensionWeights.dSens = 400 /\ DimensionWeights.dAuthority = 300
  /\ DimensionWeights.dInvariant = 300
<1>1. Limits = DefaultThresholds /\ HasProfile
      /\ Profile.dSens = 400 /\ Profile.dAuthority = 300 /\ Profile.dInvariant = 300
  BY WorkshopAssumption
<1>2. Profile.dSens + Profile.dAuthority + Profile.dInvariant > 0
  BY <1>1
<1>3. DimensionWeights = [dSens |-> Profile.dSens, dAuthority |-> Profile.dAuthority,
                          dInvariant |-> Profile.dInvariant]
  BY <1>1, <1>2 DEF DimensionWeights
<1>4. QED
  BY <1>1, <1>3 DEF DefaultThresholds

\* Until the default profile expires the branch alone decides: neither the
\* index, nor the intent and with it the reply of the reasoner, changes the
\* verdict.  buildRefusI3 is always refused by the lock and buildRefusFrontiere
\* always at the frontier; buildRefusI4, whose comment announces "refus I4",
\* never is refused.
THEOREM BranchesDecide ==
  ASSUME NEW branch \in Branches, NEW i \in Nat, NEW answer \in 0..999,
         NEW t \in 1..Profile.dateRevision
  PROVE  Decide(ToTauExchange(Build(branch, i)), answer, t) = BranchVerdict(branch)
<1> DEFINE y == ToTauExchange(Build(branch, i))
           v == Decide(y, answer, t)
           sens == ScoreDSens(y, answer)
           auth == ScoreDAuthority(y)
           inv == ScoreDInvariant(y)
           reasons == ReasonsToRefuse(y, answer, t)
<1>1. Reads(y, branch)
  BY BuiltFields
<1>2. v \in Verdicts /\ IsVerdict(v, y, answer, t)
  BY DecideIsVerdict
<1>3. /\ branch = "refusI3" => auth >= 937500
      /\ branch = "probabiliste" =>
           auth = 875000 /\ inv = 450000 /\ sens = 850000 + 150 * answer
      /\ branch \in {"refusI4", "deterministe", "hysteresis"} =>
           auth = 562500 /\ inv = 250000 /\ sens = 500000 + 150 * answer
  <2>1. CASE branch = "refusFrontiere"
    BY <2>1
  <2>2. CASE branch # "refusFrontiere"
    <3> HIDE DEF y
    <3>1. BuiltScoresAre(y, branch, answer)
      BY <2>2, BuiltScores DEF y
    <3>2. QED
      BY <3>1 DEF BuiltScoresAre
  <2>3. QED
    BY <2>1, <2>2
<1>4. reasons \subseteq RefusalDiagnostics
  BY DEF ReasonsToRefuse
<1>5. ~Expired(DateRevision, t)
  <2>1. DateRevision = Profile.dateRevision /\ Profile.dateRevision \in Nat
    BY Dated DEF DateRevision
  <2>2. QED
    BY <2>1 DEF Expired
<1>6. auth \in Int
  <2>1. answer \in Nat /\ y.depth \in Int
    <3>1. y.depth \in Int
      BY <1>1, Zenon DEF Reads
    <3>2. QED
      BY <3>1
  <2>2. Scale \in Int
    BY DEF Scale
  <2> HIDE DEF y
  <2>3. auth \in 0..Scale
    BY <2>1, ScoresAreScores
  <2>4. QED
    BY <2>2, <2>3
<1>7. /\ DiagFrontiereFranchie \in reasons <=> ~Inside(FrontierCheck(y))
      /\ DiagVerrouOntologique \in reasons <=> LockCloses(y, auth)
      /\ DiagPeremptionProfile \notin reasons
      /\ DiagIncoherenceI4 \in reasons <=> IsIncoherent(sens, inv, Limits)
  BY <1>5, DiagnosticsDiffer, Zenon DEF ReasonsToRefuse, RefusalDiagnostics
<1> HIDE DEF y, sens, auth, inv, reasons, v
<1>8. Inside(FrontierCheck(y)) <=> (Dynamic(y) /\ ~y.humanInLoop /\ y.depth > 0)
  BY DEF Inside, FrontierCheck
<1>9. CASE branch = "refusFrontiere"
  <2>1. DiagFrontiereFranchie \in reasons
    BY <1>1, <1>7, <1>8, <1>9 DEF Reads
  <2>2. v.regime = "Refus" /\ ReasonGiven(v.diagnostic, reasons)
    BY <1>2, <2>1 DEF IsVerdict, reasons
  <2>3. v.diagnostic = DiagFrontiereFranchie
    BY <1>4, <2>1, <2>2, Ranks DEF ReasonGiven, RefusalDiagnostics
  <2>4. QED
    BY <1>2, <1>9, <2>2, <2>3 DEF Verdicts, BranchVerdict, v, y
<1>10. CASE branch = "refusI3"
  <2>1. DiagFrontiereFranchie \notin reasons
    BY <1>1, <1>7, <1>8, <1>10 DEF Reads
  <2>2. DiagVerrouOntologique \in reasons
    BY <1>1, <1>3, <1>6, <1>7, <1>10, DefaultsAre DEF Reads, LockCloses
  <2>3. v.regime = "Refus" /\ ReasonGiven(v.diagnostic, reasons)
    BY <1>2, <2>2 DEF IsVerdict, reasons
  <2>4. v.diagnostic = DiagVerrouOntologique
    BY <1>4, <2>1, <2>2, <2>3, Ranks DEF ReasonGiven, RefusalDiagnostics
  <2>5. QED
    BY <1>2, <1>10, <2>3, <2>4 DEF Verdicts, BranchVerdict, v, y
<1>11. CASE branch \in {"probabiliste", "refusI4", "deterministe", "hysteresis"}
  <2>1. ~LockCloses(y, auth)
    BY <1>1, <1>11 DEF Reads, LockCloses
  <2>2. inv \in Int /\ inv < 500000
    BY <1>3, <1>11
  <2>3. ~IsIncoherent(sens, inv, Limits)
    BY <2>2, DefaultsAre DEF IsIncoherent
  <2>4. Inside(FrontierCheck(y))
    BY <1>1, <1>8, <1>11 DEF Reads
  <2>5. reasons = {}
    BY <1>4, <1>7, <2>1, <2>3, <2>4 DEF RefusalDiagnostics
  <2>6. /\ v.regime = RegimeOf(Composite(sens, auth, inv))
        /\ v.diagnostic = NoDiagnostic
    BY <1>2, <2>5 DEF IsVerdict, reasons, sens, auth, inv
  <2>7. Composite(sens, auth, inv) = 400 * sens + 300 * auth + 300 * inv
    BY DefaultsAre DEF Composite
  <2>8. RegimeOf(Composite(sens, auth, inv)) =
          IF branch = "probabiliste" THEN "Probabiliste" ELSE "Deterministe"
    <3>1. CASE branch = "probabiliste"
      <4>1. Composite(sens, auth, inv) >= 650000000
        BY <1>3, <2>7, <3>1
      <4>2. QED
        BY <3>1, <4>1, DefaultsAre DEF RegimeOf
    <3>2. CASE branch # "probabiliste"
      <4>1. Composite(sens, auth, inv) < 650000000 /\ Composite(sens, auth, inv) \in Int
        BY <1>3, <1>11, <2>7, <3>2
      <4>2. QED
        BY <3>2, <4>1, DefaultsAre DEF RegimeOf
    <3>3. QED
      BY <3>1, <3>2
  <2>9. QED
    BY <1>2, <1>11, <2>6, <2>8 DEF Verdicts, BranchVerdict, v, y
<1>12. QED
  BY <1>9, <1>10, <1>11 DEF Branches
\* The label of a line of a branch, in a scored corpus.
BranchLabel(branch) ==
  IF branch = "refusFrontiere" THEN NotASample
  ELSE IF branch = "refusI3" THEN "refus_authority"
  ELSE IF branch = "probabiliste" THEN "deterministe" ELSE "probabiliste"

LEMMA StubRange ==
  ASSUME NEW seed \in Seeds, NEW i \in 1..Count PROVE StubAnswer[seed][i] \in 0..999
<1> DEFINE Indices == 1..Count
           Answered == 0..999
<1>1. StubAnswer \in [Seeds -> [Indices -> Answered]] /\ i \in Indices
  BY WorkshopAssumption
<1> HIDE DEF Indices, Answered
<1>2. StubAnswer[seed] \in [Indices -> Answered]
  BY <1>1
<1>3. QED
  BY <1>1, <1>2 DEF Answered

LEMMA BranchesLabel ==
  ASSUME NEW seed \in Seeds, NEW i \in 1..Count, NEW t \in 1..MaxTime,
         t <= Profile.dateRevision, Plans[seed][i] \in Branches
  PROVE  Lines[seed]["scored"][i][t].labeled = BranchLabel(Plans[seed][i])
<1> DEFINE branch == Plans[seed][i]
           y == ToTauExchange(Build(branch, i - 1))
           answer == StubAnswer[seed][i]
           v == Decide(y, answer, t)
           sens == ScoreDSens(y, answer)
           auth == ScoreDAuthority(y)
           inv == ScoreDInvariant(y)
<1>1. /\ i - 1 \in Nat /\ answer \in 0..999
      /\ t \in 1..Profile.dateRevision
  <2>1. Count \in Nat /\ MaxTime \in Nat /\ Profile.dateRevision \in Nat
    BY WorkshopAssumption, PolicyAssumption, Dated
  <2>2. QED
    BY <2>1, StubRange
<1>2. Lines[seed]["scored"][i][t].labeled
        = LabelForDecision(v, sens, auth, inv, y.attestation, DefaultThresholds)
  <2>1. Lines[seed]["scored"][i][t] = LineAt(seed, "scored", i, t)
    BY DEF Lines, Modes
  <2>2. LineAt(seed, "scored", i, t) = ScoredEntry(y, v, answer, DefaultThresholds)
    BY DEF LineAt
  <2>3. ScoredEntry(y, v, answer, DefaultThresholds).labeled
          = LabelForDecision(v, sens, auth, inv, y.attestation, DefaultThresholds)
    <3> HIDE DEF y, v, answer
    <3>1. QED
      BY Zenon DEF ScoredEntry
  <2> HIDE DEF y, v, answer, sens, auth, inv
  <2>4. QED
    BY <2>1, <2>2, <2>3, Zenon
<1> HIDE DEF branch
<1>3. branch \in Branches
  BY DEF branch
<1>4. v = BranchVerdict(branch)
  BY <1>1, <1>3, BranchesDecide
<1>5. Reads(y, branch)
  BY <1>1, <1>3, BuiltFields
<1>6. branch # "refusFrontiere" => BuiltScoresAre(y, branch, answer)
  BY <1>1, <1>3, BuiltScores
<1> HIDE DEF y, v, answer
<1>7. CASE branch = "refusFrontiere"
  <2>1. v.regime = "Refus" /\ v.diagnostic = DiagFrontiereFranchie
    BY <1>4, <1>7 DEF BranchVerdict
  <2>2. LabelForDecision(v, sens, auth, inv, y.attestation, DefaultThresholds) = NotASample
    BY <2>1, DiagnosticsDiffer, Zenon DEF LabelForDecision
  <2>3. QED
    BY <1>2, <1>7, <2>2 DEF BranchLabel, branch
<1>8. CASE branch = "refusI3"
  <2>1. v.regime = "Refus" /\ v.diagnostic = DiagVerrouOntologique
    BY <1>4, <1>8 DEF BranchVerdict
  <2>2. LabelForDecision(v, sens, auth, inv, y.attestation, DefaultThresholds) = "refus_authority"
    BY <2>1, DiagnosticsDiffer, Zenon DEF LabelForDecision
  <2>3. QED
    BY <1>2, <1>8, <2>2 DEF BranchLabel, branch
<1>9. CASE branch \in {"probabiliste", "refusI4", "deterministe", "hysteresis"}
  <2>1. v.regime # "Refus"
    BY <1>4, <1>9 DEF BranchVerdict
  <2>2. y.attestation /\ BuiltScoresAre(y, branch, answer)
    BY <1>5, <1>6, <1>9 DEF Reads
  <2>3. /\ DefaultThresholds.invCoherence = 500000 /\ DefaultThresholds.probabiliste = 650000
    BY DEF DefaultThresholds
  <2>4. inv < 500000 /\ inv \in Int
    BY <1>9, <2>2 DEF BuiltScoresAre
  <2>5. (sens >= 650000) <=> (branch = "probabiliste")
    <3>1. CASE branch = "probabiliste"
      <4>1. sens = 850000 + 150 * answer
        BY <2>2, <3>1 DEF BuiltScoresAre
      <4> HIDE DEF sens
      <4>2. QED
        BY <1>1, <3>1, <4>1
    <3>2. CASE branch # "probabiliste"
      <4>1. sens = 500000 + 150 * answer
        BY <1>9, <2>2, <3>2 DEF BuiltScoresAre
      <4> HIDE DEF sens
      <4>2. QED
        BY <1>1, <3>2, <4>1
    <3>3. QED
      BY <3>1, <3>2
  <2>6. LabelForDecision(v, sens, auth, inv, y.attestation, DefaultThresholds)
          = IF sens >= DefaultThresholds.probabiliste THEN "deterministe" ELSE "probabiliste"
    <3>1. ~(inv >= DefaultThresholds.invCoherence)
      BY <2>3, <2>4
    <3> HIDE DEF sens, auth, inv
    <3>2. QED
      BY <2>1, <2>2, <3>1, Zenon DEF LabelForDecision
  <2>7. QED
    BY <1>2, <1>9, <2>3, <2>5, <2>6 DEF BranchLabel, branch
<1>10. QED
  BY <1>3, <1>7, <1>8, <1>9 DEF Branches

-----------------------------------------------------------------------------
(* How many lines of each branch.                                          *)

Occurrences(s, b) == Cardinality({j \in DOMAIN s : s[j] = b})

LEMMA RepeatIs ==
  ASSUME NEW S, NEW x \in S, NEW k \in Nat
  PROVE  /\ Repeat(x, k) \in Seq(S) /\ Len(Repeat(x, k)) = k
         /\ DOMAIN Repeat(x, k) = 1..k /\ \A j \in 1..k : Repeat(x, k)[j] = x
BY DEF Repeat

LEMMA OccurrencesAppended ==
  ASSUME NEW S, NEW s \in Seq(S), NEW x \in S, NEW k \in Nat, NEW b
  PROVE  /\ s \o Repeat(x, k) \in Seq(S)
         /\ Len(s \o Repeat(x, k)) = Len(s) + k
         /\ Occurrences(s, b) \in Nat
         /\ Occurrences(s \o Repeat(x, k), b)
              = Occurrences(s, b) + (IF x = b THEN k ELSE 0)
<1> DEFINE r == Repeat(x, k)
           w == s \o r
           A == {j \in DOMAIN s : s[j] = b}
           B == {j \in (Len(s) + 1)..(Len(s) + k) : x = b}
           C == {j \in DOMAIN w : w[j] = b}
<1>1. /\ r \in Seq(S) /\ Len(r) = k /\ \A j \in 1..k : r[j] = x
  BY RepeatIs
<1> HIDE DEF r
<1>2. /\ w \in Seq(S) /\ Len(w) = Len(s) + k /\ Len(s) \in Nat
      /\ DOMAIN s = 1..Len(s) /\ DOMAIN w = 1..(Len(s) + k)
  BY <1>1
<1>3. \A j \in 1..(Len(s) + k) : w[j] = IF j <= Len(s) THEN s[j] ELSE x
  <2>1. SUFFICES ASSUME NEW j \in 1..(Len(s) + k)
                 PROVE  w[j] = IF j <= Len(s) THEN s[j] ELSE x
    OBVIOUS
  <2>2. w[j] = IF j <= Len(s) THEN s[j] ELSE r[j - Len(s)]
    BY <1>1, <1>2
  <2>3. j > Len(s) => j - Len(s) \in 1..k
    BY <1>2
  <2>4. QED
    BY <1>1, <1>2, <2>2, <2>3
<1> HIDE DEF w
<1>4. C = A \cup B
  <2>1. SUFFICES ASSUME NEW j PROVE j \in C <=> j \in A \/ j \in B
    OBVIOUS
  <2>2. CASE j \in 1..Len(s)
    BY <1>2, <1>3, <2>2
  <2>3. CASE j \in (Len(s) + 1)..(Len(s) + k)
    BY <1>2, <1>3, <2>3
  <2>4. CASE j \notin 1..Len(s) /\ j \notin (Len(s) + 1)..(Len(s) + k)
    BY <1>2, <2>4
  <2>5. QED
    BY <2>2, <2>3, <2>4
<1>5. A \cap B = {}
  BY <1>2
<1>6. IsFiniteSet(A) /\ Cardinality(A) \in Nat
  <2>1. IsFiniteSet(1..Len(s)) /\ A \in SUBSET (1..Len(s))
    BY <1>2, FS_Interval
  <2> HIDE DEF A
  <2>2. QED
    BY <2>1, FS_Subset, FS_CardinalityType
<1>7. IsFiniteSet(B) /\ Cardinality(B) = IF x = b THEN k ELSE 0
  <2>1. CASE x = b
    <3>1. B = (Len(s) + 1)..(Len(s) + k)
      BY <2>1
    <3>2. PICK a \in Int : a = Len(s) + 1
      BY <1>2
    <3>3. PICK z \in Int : z = Len(s) + k
      BY <1>2
    <3>4. B = a..z /\ z = a + k - 1
      BY <1>2, <3>1, <3>2, <3>3
    <3>5. IsFiniteSet(a..z) /\ Cardinality(a..z) = IF a > z THEN 0 ELSE z - a + 1
      BY FS_Interval
    <3>6. (IF a > z THEN 0 ELSE z - a + 1) = k
      BY <3>4
    <3> HIDE DEF B
    <3>7. QED
      BY <2>1, <3>4, <3>5, <3>6
  <2>2. CASE x # b
    <3>1. B = {}
      BY <2>2
    <3>2. QED
      BY <2>2, <3>1, FS_EmptySet
  <2>3. QED
    BY <2>1, <2>2
<1>8. Cardinality(C) = Cardinality(A) + Cardinality(B)
  <2> HIDE DEF A, B, C
  <2>1. Cardinality(A \cup B) = Cardinality(A) + Cardinality(B) - Cardinality(A \cap B)
    BY <1>6, <1>7, FS_Union
  <2>2. Cardinality(A \cap B) = 0
    BY <1>5, FS_EmptySet
  <2>3. Cardinality(B) \in Nat
    BY <1>7
  <2>4. QED
    BY <1>4, <1>6, <2>1, <2>2, <2>3
<1>9. Occurrences(s, b) = Cardinality(A) /\ Occurrences(w, b) = Cardinality(C)
  BY Zenon DEF Occurrences
<1> HIDE DEF A, B, C
<1>10. QED
  BY <1>2, <1>6, <1>7, <1>8, <1>9 DEF w, r
Rows(n, d, branch) == (n * WeightsFor(d)[branch]) \div 100

LEMMA HundredthsFit ==
  ASSUME NEW n \in Nat, NEW a \in 0..100
  PROVE  /\ (n * a) \div 100 \in Nat
         /\ 100 * ((n * a) \div 100) <= n * a
<1> DEFINE m == n * a
<1>1. m \in Nat
  OBVIOUS
<1> HIDE DEF m
<1>2. m \div 100 \in Nat /\ 100 * (m \div 100) <= m
  BY <1>1
<1>3. QED
  BY <1>2 DEF m

LEMMA RowsFit ==
  ASSUME NEW n \in Nat, NEW d \in Distributions
  PROVE  /\ \A b \in Branches \ {"hysteresis"} : Rows(n, d, b) \in Nat
         /\ Rows(n, d, "refusFrontiere") + Rows(n, d, "refusI3") + Rows(n, d, "refusI4")
              + Rows(n, d, "deterministe") + Rows(n, d, "probabiliste") <= n
<1> DEFINE w == WeightsFor(d)
<1>1. \/ w = [refusFrontiere |-> 15, refusI3 |-> 15, refusI4 |-> 10, deterministe |-> 25, probabiliste |-> 25]
      \/ w = [refusFrontiere |-> 10, refusI3 |-> 10, refusI4 |-> 60, deterministe |-> 5, probabiliste |-> 5]
      \/ w = [refusFrontiere |-> 20, refusI3 |-> 20, refusI4 |-> 10, deterministe |-> 20, probabiliste |-> 20]
  BY Zenon DEF Distributions, WeightsFor
<1> HIDE DEF w
<1>2. /\ \A b \in Branches \ {"hysteresis"} : w[b] \in 0..100
      /\ w["refusFrontiere"] + w["refusI3"] + w["refusI4"] + w["deterministe"]
           + w["probabiliste"] = 90
  BY <1>1 DEF Branches
<1>3. ASSUME NEW b \in Branches \ {"hysteresis"}
      PROVE  Rows(n, d, b) \in Nat /\ 100 * Rows(n, d, b) <= n * w[b]
  BY <1>2, HundredthsFit DEF Rows, w
<1> DEFINE a1 == w["refusFrontiere"]
           a2 == w["refusI3"]
           a3 == w["refusI4"]
           a4 == w["deterministe"]
           a5 == w["probabiliste"]
           r1 == Rows(n, d, "refusFrontiere")
           r2 == Rows(n, d, "refusI3")
           r3 == Rows(n, d, "refusI4")
           r4 == Rows(n, d, "deterministe")
           r5 == Rows(n, d, "probabiliste")
<1>4. /\ a1 \in Int /\ a2 \in Int /\ a3 \in Int /\ a4 \in Int /\ a5 \in Int
      /\ a1 + a2 + a3 + a4 + a5 = 90
  BY <1>2 DEF Branches
<1>5. /\ r1 \in Nat /\ 100 * r1 <= n * a1 /\ r2 \in Nat /\ 100 * r2 <= n * a2
      /\ r3 \in Nat /\ 100 * r3 <= n * a3 /\ r4 \in Nat /\ 100 * r4 <= n * a4
      /\ r5 \in Nat /\ 100 * r5 <= n * a5
  BY <1>3 DEF Branches
<1> HIDE DEF a1, a2, a3, a4, a5, r1, r2, r3, r4, r5
<1>6. n * a1 + n * a2 + n * a3 + n * a4 + n * a5 = n * (a1 + a2 + a3 + a4 + a5)
  BY <1>4
<1>7. n * a1 + n * a2 + n * a3 + n * a4 + n * a5 = n * 90
  BY <1>4, <1>6
<1> DEFINE p1 == n * a1
           p2 == n * a2
           p3 == n * a3
           p4 == n * a4
           p5 == n * a5
<1>8. p1 \in Int /\ p2 \in Int /\ p3 \in Int /\ p4 \in Int /\ p5 \in Int
  BY <1>4
<1>9. /\ 100 * r1 <= p1 /\ 100 * r2 <= p2 /\ 100 * r3 <= p3 /\ 100 * r4 <= p4
      /\ 100 * r5 <= p5 /\ p1 + p2 + p3 + p4 + p5 = n * 90
  BY <1>5, <1>7
<1> HIDE DEF p1, p2, p3, p4, p5
<1>10. r1 + r2 + r3 + r4 + r5 <= n
  BY <1>5, <1>8, <1>9
<1>11. QED
  BY <1>3, <1>10 DEF r1, r2, r3, r4, r5

LEMMA NothingOccurs ==
  ASSUME NEW b PROVE Occurrences(<<>>, b) = 0
<1>1. {j \in DOMAIN <<>> : <<>>[j] = b} = {}
  OBVIOUS
<1>2. QED
  BY <1>1, FS_EmptySet DEF Occurrences

\* The rows w are the rows s and k more of the branch x.
Extends(w, s, x, k) ==
  /\ w \in Seq(Branches)
  /\ Len(w) = Len(s) + k
  /\ \A b \in Branches : /\ Occurrences(s, b) \in Nat
                         /\ Occurrences(w, b) = Occurrences(s, b) + (IF x = b THEN k ELSE 0)

LEMMA RowsExtend ==
  ASSUME NEW s \in Seq(Branches), NEW x \in Branches, NEW k \in Nat
  PROVE  Extends(s \o Repeat(x, k), s, x, k)
<1>1. s \o Repeat(x, k) \in Seq(Branches) /\ Len(s \o Repeat(x, k)) = Len(s) + k
  BY OccurrencesAppended
<1>2. ASSUME NEW b \in Branches
      PROVE  /\ Occurrences(s, b) \in Nat
             /\ Occurrences(s \o Repeat(x, k), b)
                  = Occurrences(s, b) + (IF x = b THEN k ELSE 0)
  BY OccurrencesAppended
<1>3. QED
  BY <1>1, <1>2 DEF Extends

\* "Fill remainder with hysteresis to reach exactly n entries."
\* (generator.go:298): a plan has as many rows as asked for, those of a branch as
\* many as its weight is worth, and the remainder never is negative.
THEOREM PlanIsFull ==
  ASSUME NEW n \in Nat, NEW d \in Distributions
  PROVE  LET plan == BuildPlan(n, WeightsFor(d)) IN
         /\ plan \in Seq(Branches) /\ Len(plan) = n
         /\ \A b \in Branches \ {"hysteresis"} : Occurrences(plan, b) = Rows(n, d, b)
<1> DEFINE r1 == Rows(n, d, "refusFrontiere")
           r2 == Rows(n, d, "refusI3")
           r3 == Rows(n, d, "refusI4")
           r4 == Rows(n, d, "deterministe")
           r5 == Rows(n, d, "probabiliste")
           r6 == n - (r1 + r2 + r3 + r4 + r5)
           s1 == Repeat("refusFrontiere", r1)
           s2 == s1 \o Repeat("refusI3", r2)
           s3 == s2 \o Repeat("refusI4", r3)
           s4 == s3 \o Repeat("deterministe", r4)
           s5 == s4 \o Repeat("probabiliste", r5)
           s6 == s5 \o Repeat("hysteresis", r6)
<1>1. /\ r1 \in Nat /\ r2 \in Nat /\ r3 \in Nat /\ r4 \in Nat /\ r5 \in Nat
      /\ r1 + r2 + r3 + r4 + r5 <= n
  BY RowsFit DEF Branches
<1>2. BuildPlan(n, WeightsFor(d)) = s5 \o Repeat("hysteresis", n - Len(s5))
  BY Zenon DEF BuildPlan, Rows
<1> HIDE DEF r1, r2, r3, r4, r5
<1>3. r6 \in Nat
  BY <1>1
<1> HIDE DEF r6
<1>4. /\ "refusFrontiere" \in Branches /\ "refusI3" \in Branches /\ "refusI4" \in Branches
      /\ "deterministe" \in Branches /\ "probabiliste" \in Branches
      /\ "hysteresis" \in Branches /\ <<>> \in Seq(Branches)
  BY DEF Branches
<1>5. Extends(s1, <<>>, "refusFrontiere", r1)
  <2>1. s1 \in Seq(Branches)
    BY <1>1, <1>4, RepeatIs
  <2>2. Extends(<<>> \o s1, <<>>, "refusFrontiere", r1)
    BY <1>1, <1>4, RowsExtend
  <2> HIDE DEF s1
  <2>3. <<>> \o s1 = s1
    BY <2>1
  <2>4. QED
    BY <2>2, <2>3
<1> HIDE DEF s1
<1>6. Extends(s2, s1, "refusI3", r2)
  <2>1. s1 \in Seq(Branches)
    BY <1>5 DEF Extends
  <2>2. QED
    BY <1>1, <1>4, <2>1, RowsExtend
<1> HIDE DEF s2
<1>7. Extends(s3, s2, "refusI4", r3)
  <2>1. s2 \in Seq(Branches)
    BY <1>6 DEF Extends
  <2>2. QED
    BY <1>1, <1>4, <2>1, RowsExtend
<1> HIDE DEF s3
<1>8. Extends(s4, s3, "deterministe", r4)
  <2>1. s3 \in Seq(Branches)
    BY <1>7 DEF Extends
  <2>2. QED
    BY <1>1, <1>4, <2>1, RowsExtend
<1> HIDE DEF s4
<1>9. Extends(s5, s4, "probabiliste", r5)
  <2>1. s4 \in Seq(Branches)
    BY <1>8 DEF Extends
  <2>2. QED
    BY <1>1, <1>4, <2>1, RowsExtend
<1> HIDE DEF s5
<1>10. Extends(s6, s5, "hysteresis", r6)
  <2>1. s5 \in Seq(Branches)
    BY <1>9 DEF Extends
  <2>2. QED
    BY <1>3, <1>4, <2>1, RowsExtend
<1>11. Len(s5) = r1 + r2 + r3 + r4 + r5
  <2>1. /\ Len(s1) = Len(<<>>) + r1 /\ Len(s2) = Len(s1) + r2 /\ Len(s3) = Len(s2) + r3
        /\ Len(s4) = Len(s3) + r4 /\ Len(s5) = Len(s4) + r5
    BY <1>5, <1>6, <1>7, <1>8, <1>9 DEF Extends
  <2>2. Len(<<>>) = 0
    OBVIOUS
  <2>3. QED
    BY <1>1, <2>1, <2>2
<1>12. BuildPlan(n, WeightsFor(d)) = s6
  BY <1>2, <1>11 DEF r6
<1> HIDE DEF s6
<1>13. s6 \in Seq(Branches) /\ Len(s6) = n
  <2>1. s6 \in Seq(Branches) /\ Len(s6) = Len(s5) + r6
    BY <1>10 DEF Extends
  <2>2. QED
    BY <1>1, <1>11, <2>1 DEF r6
<1>14. ASSUME NEW b \in Branches \ {"hysteresis"} PROVE Occurrences(s6, b) = Rows(n, d, b)
  <2> DEFINE o1 == Occurrences(s1, b)
             o2 == Occurrences(s2, b)
             o3 == Occurrences(s3, b)
             o4 == Occurrences(s4, b)
             o5 == Occurrences(s5, b)
             o6 == Occurrences(s6, b)
  <2>1. /\ o1 = 0 + (IF "refusFrontiere" = b THEN r1 ELSE 0)
        /\ o2 = o1 + (IF "refusI3" = b THEN r2 ELSE 0)
        /\ o3 = o2 + (IF "refusI4" = b THEN r3 ELSE 0)
        /\ o4 = o3 + (IF "deterministe" = b THEN r4 ELSE 0)
        /\ o5 = o4 + (IF "probabiliste" = b THEN r5 ELSE 0)
        /\ o6 = o5 + (IF "hysteresis" = b THEN r6 ELSE 0)
    <3> HIDE DEF o1, o2, o3, o4, o5, o6
    <3>1. o1 = Occurrences(<<>>, b) + (IF "refusFrontiere" = b THEN r1 ELSE 0)
      BY <1>5 DEF Extends, o1
    <3>2. o2 = o1 + (IF "refusI3" = b THEN r2 ELSE 0)
      BY <1>6 DEF Extends, o1, o2
    <3>3. o3 = o2 + (IF "refusI4" = b THEN r3 ELSE 0)
      BY <1>7 DEF Extends, o2, o3
    <3>4. o4 = o3 + (IF "deterministe" = b THEN r4 ELSE 0)
      BY <1>8 DEF Extends, o3, o4
    <3>5. o5 = o4 + (IF "probabiliste" = b THEN r5 ELSE 0)
      BY <1>9 DEF Extends, o4, o5
    <3>6. o6 = o5 + (IF "hysteresis" = b THEN r6 ELSE 0)
      BY <1>10 DEF Extends, o5, o6
    <3>7. QED
      BY <3>1, <3>2, <3>3, <3>4, <3>5, <3>6, NothingOccurs
  <2> HIDE DEF o1, o2, o3, o4, o5, o6
  <2>2. CASE b = "refusFrontiere"
    <3>1. o6 = r1
      BY <1>1, <2>1, <2>2
    <3>2. QED
      BY <2>2, <3>1 DEF r1, o6
  <2>3. CASE b = "refusI3"
    <3>1. o6 = r2
      BY <1>1, <2>1, <2>3
    <3>2. QED
      BY <2>3, <3>1 DEF r2, o6
  <2>4. CASE b = "refusI4"
    <3>1. o6 = r3
      BY <1>1, <2>1, <2>4
    <3>2. QED
      BY <2>4, <3>1 DEF r3, o6
  <2>5. CASE b = "deterministe"
    <3>1. o6 = r4
      BY <1>1, <2>1, <2>5
    <3>2. QED
      BY <2>5, <3>1 DEF r4, o6
  <2>6. CASE b = "probabiliste"
    <3>1. o6 = r5
      BY <1>1, <2>1, <2>6
    <3>2. QED
      BY <2>6, <3>1 DEF r5, o6
  <2>7. QED
    BY <2>2, <2>3, <2>4, <2>5, <2>6 DEF Branches
<1>15. QED
  BY <1>12, <1>13, <1>14
-----------------------------------------------------------------------------
(* What a scored corpus holds.                                             *)

\* The lines of s with a label of S, and those of a run that decides at the first
\* instant.
Places(s, S) == {k \in DOMAIN s : s[k].labeled \in S}
Labelled(seed, S) == {i \in 1..Count : Lines[seed]["scored"][i][1].labeled \in S}

LEMMA OneMore ==
  ASSUME NEW Q, NEW k \in Nat, k # 0
  PROVE  /\ Cardinality((1..k) \cap Q) \in Nat
         /\ Cardinality((1..(k - 1)) \cap Q) \in Nat
         /\ Cardinality((1..k) \cap Q)
              = Cardinality((1..(k - 1)) \cap Q) + (IF k \in Q THEN 1 ELSE 0)
<1> DEFINE A == (1..(k - 1)) \cap Q
           B == (1..k) \cap Q
<1>1. IsFiniteSet(1..(k - 1)) /\ IsFiniteSet(1..k)
  BY FS_Interval
<1>2. k \notin A /\ (k \in Q => B = A \cup {k}) /\ (k \notin Q => B = A)
  <2>1. 1..k = (1..(k - 1)) \cup {k} /\ k \notin 1..(k - 1)
    OBVIOUS
  <2> DEFINE D == 1..(k - 1)
             F == 1..k
  <2> HIDE DEF D, F
  <2>2. F = D \cup {k} /\ k \notin D
    BY <2>1 DEF D, F
  <2>3. k \notin D \cap Q /\ (k \in Q => F \cap Q = (D \cap Q) \cup {k})
        /\ (k \notin Q => F \cap Q = D \cap Q)
    BY <2>2
  <2>4. QED
    BY <2>3 DEF D, F
<1>3. IsFiniteSet(A) /\ IsFiniteSet(B)
  <2>1. A \in SUBSET (1..(k - 1)) /\ B \in SUBSET (1..k)
    OBVIOUS
  <2> HIDE DEF A, B
  <2>2. QED
    BY <1>1, <2>1, FS_Subset
<1> HIDE DEF A, B
<1>4. Cardinality(A) \in Nat /\ Cardinality(B) \in Nat
  BY <1>3, FS_CardinalityType
<1>5. Cardinality(A \cup {k}) = Cardinality(A) + 1
  BY <1>2, <1>3, FS_AddElement
<1>6. Cardinality(B) = Cardinality(A) + (IF k \in Q THEN 1 ELSE 0)
  <2>1. CASE k \in Q
    BY <1>2, <1>5, <2>1
  <2>2. CASE k \notin Q
    <3>1. B = A
      BY <1>2, <2>2
    <3>2. QED
      BY <1>4, <2>2, <3>1
  <2>3. QED
    BY <2>1, <2>2
<1>7. QED
  BY <1>4, <1>6 DEF A, B

LEMMA PlacesAppended ==
  ASSUME NEW T, NEW s \in Seq(T), NEW e \in T, NEW S
  PROVE  /\ Cardinality(Places(s, S)) \in Nat
         /\ Cardinality(Places(Append(s, e), S))
              = Cardinality(Places(s, S)) + (IF e.labeled \in S THEN 1 ELSE 0)
<1> DEFINE A == Places(s, S)
           B == Places(Append(s, e), S)
<1>1. PICK m \in Nat : m = Len(s)
  OBVIOUS
<1>2. PICK a \in Nat : a = m + 1
  OBVIOUS
<1>3. DOMAIN s = 1..m /\ DOMAIN Append(s, e) = 1..a
  BY <1>1, <1>2
<1>4. Append(s, e)[a] = e /\ \A j \in 1..m : Append(s, e)[j] = s[j]
  BY <1>1, <1>2
<1> DEFINE w == Append(s, e)
<1> HIDE DEF w
<1>5. /\ A = {j \in 1..m : s[j].labeled \in S} /\ B = {j \in 1..a : w[j].labeled \in S}
      /\ w[a] = e /\ \A j \in 1..m : w[j] = s[j]
  BY <1>3, <1>4 DEF Places, w
<1>6. \A j : j \in 1..a <=> j \in 1..m \/ j = a
  BY <1>2
<1>7. a \notin 1..m
  BY <1>2
<1> HIDE DEF A, B
<1>8. a \notin A /\ (e.labeled \in S => B = A \cup {a}) /\ (e.labeled \notin S => B = A)
  <2> DEFINE D == 1..m
             F == 1..a
  <2> HIDE DEF D, F
  <2>1. /\ A = {j \in D : s[j].labeled \in S} /\ B = {j \in F : w[j].labeled \in S}
        /\ w[a] = e /\ \A j \in D : w[j] = s[j]
        /\ a \notin D /\ \A j : j \in F <=> j \in D \/ j = a
    BY <1>5, <1>6, <1>7 DEF D, F
  <2>2. a \notin A
    BY <2>1
  <2>3. ASSUME NEW j PROVE j \in B <=> j \in A \/ (j = a /\ e.labeled \in S)
    BY <2>1
  <2>4. QED
    BY <2>2, <2>3
<1>9. IsFiniteSet(A)
  <2>1. IsFiniteSet(1..m) /\ A \in SUBSET (1..m)
    BY <1>5, FS_Interval
  <2>2. QED
    BY <2>1, FS_Subset
<1>10. Cardinality(A) \in Nat /\ Cardinality(A \cup {a}) = Cardinality(A) + 1
  BY <1>8, <1>9, FS_CardinalityType, FS_AddElement
<1>11. Cardinality(B) = Cardinality(A) + (IF e.labeled \in S THEN 1 ELSE 0)
  <2>1. CASE e.labeled \in S
    BY <1>8, <1>10, <2>1
  <2>2. CASE e.labeled \notin S
    <3>1. B = A
      BY <1>8, <2>2
    <3>2. QED
      BY <1>10, <2>2, <3>1
  <2>3. QED
    BY <2>1, <2>2
<1>12. QED
  BY <1>10, <1>11 DEF A, B, w

\* Round for round, what is in the file is what the lines so far are labelled.
LEMMA ProgressCounts ==
  ASSUME NEW seed \in Seeds, NEW S, NotASample \notin S
  PROVE  LET w == Progress(seed, "scored", 1) IN
         \A k \in 0..Count :
           /\ w[k] \in Seq(Samples)
           /\ Cardinality(Places(w[k], S)) = Cardinality((1..k) \cap Labelled(seed, S))
<1> DEFINE w == Progress(seed, "scored", 1)
           Line(k) == Lines[seed]["scored"][k][1]
           Fine(k) == /\ w[k] \in Seq(Samples)
                      /\ Cardinality(Places(w[k], S))
                           = Cardinality((1..k) \cap Labelled(seed, S))
           Bad == {k \in 0..Count : ~Fine(k)}
<1>1. /\ w[0] = <<>>
      /\ \A k \in 1..Count : w[k] = IF Kept(Line(k)) THEN Append(w[k - 1], Line(k)) ELSE w[k - 1]
  BY ProgressGrows
<1>2. Count \in Nat /\ 1 \in 1..MaxTime /\ "scored" \in Modes
  BY WorkshopAssumption, PolicyAssumption DEF Modes
<1>3. ASSUME NEW k \in 1..Count
      PROVE  /\ Kept(Line(k)) <=> Line(k).labeled # NotASample
             /\ Kept(Line(k)) => Line(k) \in Samples
             /\ k \in Labelled(seed, S) <=> Line(k).labeled \in S
  <2>1. Kept(Line(k)) => Line(k) \in Samples
    BY <1>2, LineWritten
  <2>2. Line(k) = ScoredEntry(ToTauExchange(Build(Plans[seed][k], k - 1)),
                              Decide(ToTauExchange(Build(Plans[seed][k], k - 1)),
                                     StubAnswer[seed][k], 1),
                              StubAnswer[seed][k], DefaultThresholds)
    BY <1>2 DEF Lines, LineAt
  <2>3. "mode" \notin DOMAIN Line(k)
    <3> HIDE DEF Line
    <3>1. QED
      BY <2>2 DEF ScoredEntry
  <2>4. QED
    BY <2>1, <2>3 DEF Kept, Labelled
<1> HIDE DEF w, Line
<1>4. Fine(0)
  <2>1. (1..0) \cap Labelled(seed, S) = {} /\ Places(<<>>, S) = {} /\ <<>> \in Seq(Samples)
    BY DEF Places
  <2>2. QED
    BY <1>1, <2>1
<1>5. ASSUME NEW k \in 1..Count, Fine(k - 1) PROVE Fine(k)
  <2>1. k \in Nat /\ k # 0
    BY <1>2
  <2>2. /\ Cardinality((1..(k - 1)) \cap Labelled(seed, S)) \in Nat
        /\ Cardinality((1..k) \cap Labelled(seed, S))
             = Cardinality((1..(k - 1)) \cap Labelled(seed, S))
                 + (IF k \in Labelled(seed, S) THEN 1 ELSE 0)
    BY <2>1, OneMore
  <2>3. CASE Kept(Line(k))
    <3>1. w[k] = Append(w[k - 1], Line(k)) /\ Line(k) \in Samples
      BY <1>1, <1>3, <2>3
    <3>2. w[k - 1] \in Seq(Samples)
      BY <1>5
    <3>3. Append(w[k - 1], Line(k)) \in Seq(Samples)
      BY <3>1, <3>2
    <3>4. Cardinality(Places(Append(w[k - 1], Line(k)), S))
            = Cardinality(Places(w[k - 1], S)) + (IF Line(k).labeled \in S THEN 1 ELSE 0)
      BY <3>1, <3>2, PlacesAppended
    <3>5. Cardinality(Places(w[k], S)) = Cardinality((1..k) \cap Labelled(seed, S))
      BY <1>3, <1>5, <2>2, <3>1, <3>4
    <3>6. QED
      BY <3>1, <3>3, <3>5
  <2>4. CASE ~Kept(Line(k))
    <3>1. w[k] = w[k - 1] /\ k \notin Labelled(seed, S)
      BY <1>1, <1>3, <2>4
    <3>2. QED
      BY <1>5, <2>2, <3>1
  <2>5. QED
    BY <2>3, <2>4
<1> HIDE DEF Fine
<1>6. Bad = {}
  <2> SUFFICES ASSUME Bad # {} PROVE FALSE
    OBVIOUS
  <2>1. Bad \in SUBSET Nat
    BY <1>2
  <2> HIDE DEF Bad
  <2>2. PICK k \in Bad : \A j \in Bad : k <= j
    BY <2>1, LeastIndex
  <2>3. k \in 0..Count /\ ~Fine(k)
    BY <2>2 DEF Bad
  <2>4. k \in 1..Count /\ k - 1 \in 0..Count
    BY <1>2, <1>4, <2>3
  <2>5. k - 1 \notin Bad
    BY <2>2, <2>4
  <2>6. Fine(k - 1)
    BY <2>4, <2>5 DEF Bad
  <2>7. QED
    BY <1>5, <2>3, <2>4, <2>6
<1>7. \A k \in 0..Count : Fine(k)
  BY <1>6
<1>8. QED
  BY <1>7 DEF Fine, w
\* The lines that a branch of the plan of a seed builds.
Built(seed, branch) == {i \in 1..Count : Plans[seed][i] = branch}

\* Shuffling the plan moves rows and loses none.
LEMMA RowsAreShuffled ==
  ASSUME NEW seed \in Seeds
  PROVE  /\ \A i \in 1..Count : Plans[seed][i] \in Branches
         /\ \A b \in Branches \ {"hysteresis"} :
              Cardinality(Built(seed, b)) = Rows(Count, Distribution[seed], b)
<1> DEFINE I == 1..Count
           d == Distribution[seed]
           plan == BuildPlan(Count, WeightsFor(d))
           f == Shuffle[seed]
<1>1. Count \in Nat /\ d \in Distributions
  BY WorkshopAssumption
<1>2. plan \in Seq(Branches) /\ Len(plan) = Count
  BY <1>1, PlanIsFull
<1>3. \A b \in Branches \ {"hysteresis"} : Occurrences(plan, b) = Rows(Count, d, b)
  BY <1>1, PlanIsFull
<1>4. Plans[seed] = [i \in I |-> plan[f[i]]]
  BY DEF Plans
<1>5. Shuffle \in [Seeds -> Bijection(I, I)]
  BY WorkshopAssumption
<1> HIDE DEF plan
<1>6. DOMAIN plan = I /\ \A i \in I : plan[i] \in Branches
  BY <1>2
<1> HIDE DEF I, d
<1>7. f \in Bijection(I, I)
  BY <1>5
<1> HIDE DEF f
<1>8. f \in [I -> I] /\ (\A i, j \in I : f[i] = f[j] => i = j) /\ \A j \in I : \E i \in I : f[i] = j
  BY <1>7 DEF Bijection, Injection, Surjection, IsInjective
<1>9. \A i \in I : Plans[seed][i] = plan[f[i]] /\ f[i] \in I
  BY <1>4, <1>8
<1>10. \A i \in I : Plans[seed][i] \in Branches
  BY <1>6, <1>9
<1>11. IsFiniteSet(I)
  BY <1>1, FS_Interval DEF I
<1>12. ASSUME NEW b \in Branches \ {"hysteresis"}
       PROVE  Cardinality(Built(seed, b)) = Rows(Count, d, b)
  <2> DEFINE A == {i \in I : plan[f[i]] = b}
             B == {j \in I : plan[j] = b}
             g == [i \in A |-> f[i]]
  <2>1. Built(seed, b) = A
    BY <1>9 DEF Built, I
  <2>2. Occurrences(plan, b) = Cardinality(B)
    BY <1>6 DEF Occurrences
  <2>3. /\ \A i \in A : i \in I /\ f[i] \in B
        /\ \A j \in B : \E i \in A : f[i] = j
    BY <1>8
  <2>4. IsFiniteSet(A)
    <3>1. A \in SUBSET I
      OBVIOUS
    <3> HIDE DEF A
    <3>2. QED
      BY <1>11, <3>1, FS_Subset
  <2> HIDE DEF A, B
  <2>5. g \in [A -> B] /\ \A i \in A : g[i] = f[i]
    BY <2>3
  <2>6. /\ \A i, j \in A : g[i] = g[j] => i = j
        /\ \A j \in B : \E i \in A : g[i] = j
    BY <1>8, <2>3, <2>5
  <2> HIDE DEF g
  <2>7. g \in Bijection(A, B)
    BY <2>5, <2>6 DEF Bijection, Injection, Surjection, IsInjective
  <2>8. ExistsBijection(A, B)
    BY <2>7 DEF ExistsBijection
  <2>9. Cardinality(B) = Cardinality(A)
    BY <2>4, <2>8, FS_Bijection
  <2>10. QED
    BY <1>3, <2>1, <2>2, <2>9
<1>13. QED
  BY <1>10, <1>12 DEF I, d

\* Of the lines of a run within the validity of the profile, one branch or the
\* lack of three gives each label.
LEMMA LabelledLines ==
  ASSUME NEW seed \in Seeds, 1 <= Profile.dateRevision
  PROVE  /\ Labelled(seed, {"refus_authority"}) = Built(seed, "refusI3")
         /\ Labelled(seed, {"refus_i4"}) = {}
         /\ Labelled(seed, {"deterministe"}) = Built(seed, "probabiliste")
         /\ Labelled(seed, {"probabiliste"}) =
              (1..Count) \ (Built(seed, "refusFrontiere") \cup Built(seed, "refusI3")
                              \cup Built(seed, "probabiliste"))
         /\ Labelled(seed, Labels) = (1..Count) \ Built(seed, "refusFrontiere")
<1> DEFINE I == 1..Count
           Label(i) == Lines[seed]["scored"][i][1].labeled
           Branch(i) == Plans[seed][i]
<1>1. 1 \in 1..MaxTime
  BY PolicyAssumption
<1>2. ASSUME NEW i \in 1..Count
      PROVE  Branch(i) \in Branches /\ Label(i) = BranchLabel(Branch(i))
  <2>1. Plans[seed][i] \in Branches
    BY RowsAreShuffled
  <2>2. QED
    BY <1>1, <2>1, BranchesLabel
<1>3. /\ \A S : Labelled(seed, S) = {i \in I : Label(i) \in S}
      /\ \A b : Built(seed, b) = {i \in I : Branch(i) = b}
  BY DEF Labelled, Built
<1>4. \A i \in I : Branch(i) \in Branches /\ Label(i) = BranchLabel(Branch(i))
  BY <1>2
<1> HIDE DEF I, Label, Branch
<1>5. Labelled(seed, {"refus_authority"}) = Built(seed, "refusI3")
  BY <1>3, <1>4 DEF BranchLabel, NotASample
<1>6. Labelled(seed, {"refus_i4"}) = {}
  <2>1. \A i \in I : Label(i) # "refus_i4"
    BY <1>4 DEF BranchLabel, NotASample
  <2>2. QED
    BY <1>3, <2>1
<1>7. Labelled(seed, {"deterministe"}) = Built(seed, "probabiliste")
  BY <1>3, <1>4 DEF BranchLabel, NotASample
<1>8. Labelled(seed, {"probabiliste"}) =
        I \ (Built(seed, "refusFrontiere") \cup Built(seed, "refusI3")
               \cup Built(seed, "probabiliste"))
  <2>1. \A i \in I : Label(i) = "probabiliste" <=>
                     /\ Branch(i) # "refusFrontiere" /\ Branch(i) # "refusI3"
                     /\ Branch(i) # "probabiliste"
    BY <1>4 DEF BranchLabel, NotASample
  <2>2. QED
    BY <1>3, <2>1
<1>9. Labelled(seed, Labels) = I \ Built(seed, "refusFrontiere")
  <2>1. \A i \in I : Label(i) \in Labels <=> Branch(i) # "refusFrontiere"
    BY <1>4 DEF BranchLabel, NotASample, Labels
  <2>2. QED
    BY <1>3, <2>1
<1>10. QED
  BY <1>5, <1>6, <1>7, <1>8, <1>9 DEF I

LEMMA Complement ==
  ASSUME NEW n \in Nat, NEW A \in SUBSET (1..n)
  PROVE  /\ IsFiniteSet(A) /\ Cardinality(A) \in Nat
         /\ Cardinality((1..n) \ A) = n - Cardinality(A)
<1> DEFINE I == 1..n
<1>1. IsFiniteSet(I) /\ Cardinality(I) = n
  BY FS_Interval
<1> HIDE DEF I
<1>2. A \in SUBSET I /\ I \cap A = A
  BY DEF I
<1>3. IsFiniteSet(A) /\ Cardinality(A) \in Nat
  BY <1>1, <1>2, FS_Subset, FS_CardinalityType
<1>4. Cardinality(I \ A) = Cardinality(I) - Cardinality(I \cap A)
  BY <1>1, FS_Difference
<1>5. QED
  BY <1>1, <1>2, <1>3, <1>4 DEF I

\* The lines of the corpus with a label, and the rows of a branch in the plan of
\* the run that wrote it.
LabelCount(label) == Cardinality({k \in DOMAIN file : file[k].labeled = label})
Share(branch) == Rows(Count, Distribution[gen.seed], branch)

\* What the weights of generator.go:37 are worth: within the validity of the
\* default profile a scored corpus has the rows of refusI3 as authority refusals,
\* those of probabiliste as deterministic samples (for the converter makes every
\* A2A exchange meaningful), no I4 refusal at all whatever its distribution, the
\* rest as probabilistic samples; and it is as many lines short of --count as
\* there are rows of refusFrontiere.
CorpusHoldsItsPlan ==
  Finished /\ gen.mode = "scored" /\ now <= Profile.dateRevision =>
    /\ LabelCount("refus_authority") = Share("refusI3")
    /\ LabelCount("refus_i4") = 0
    /\ LabelCount("deterministe") = Share("probabiliste")
    /\ LabelCount("probabiliste")
         = Count - Share("refusFrontiere") - Share("refusI3") - Share("probabiliste")
    /\ Len(file) = Count - Share("refusFrontiere")

\* It does, for every count, seed, distribution, permutation and reply of the stub.
THEOREM CorpusIsAsPlanned == Spec => []CorpusHoldsItsPlan
<1>1. WInv /\ ProgressInv => CorpusHoldsItsPlan
  <2> SUFFICES ASSUME WInv, ProgressInv, Finished, gen.mode = "scored",
                      now <= Profile.dateRevision
               PROVE  /\ LabelCount("refus_authority") = Share("refusI3")
                      /\ LabelCount("refus_i4") = 0
                      /\ LabelCount("deterministe") = Share("probabiliste")
                      /\ LabelCount("probabiliste") = Count - Share("refusFrontiere")
                                                 - Share("refusI3") - Share("probabiliste")
                      /\ Len(file) = Count - Share("refusFrontiere")
    BY DEF CorpusHoldsItsPlan
  <2> DEFINE seed == gen.seed
             I == 1..Count
             F == Built(seed, "refusFrontiere")
             A == Built(seed, "refusI3")
             P == Built(seed, "probabiliste")
  <2>1. Count \in Nat /\ seed \in Seeds
    BY WorkshopAssumption DEF WInv, WTypes
  <2>2. gen.next - 1 = Count
    BY <2>1 DEF ProgressInv
  <2>3. file = Progress(seed, "scored", 1)[Count]
    BY <2>2 DEF ProgressInv
  <2>4. Count \in 0..Count
    BY <2>1
  <2>5. /\ file \in Seq(Samples)
        /\ \A S : NotASample \notin S =>
             Cardinality(Places(file, S)) = Cardinality(I \cap Labelled(seed, S))
    <3>1. ASSUME NEW S, NotASample \notin S
          PROVE  /\ file \in Seq(Samples)
                 /\ Cardinality(Places(file, S)) = Cardinality(I \cap Labelled(seed, S))
      BY <2>1, <2>3, <2>4, <3>1, ProgressCounts
    <3>2. NotASample \notin {}
      OBVIOUS
    <3>3. QED
      BY <3>1, <3>2
  <2>6. \A S : I \cap Labelled(seed, S) = Labelled(seed, S)
    BY DEF Labelled
  <2>7. /\ NotASample \notin Labels /\ NotASample \notin {"refus_authority"}
        /\ NotASample \notin {"refus_i4"} /\ NotASample \notin {"deterministe"}
        /\ NotASample \notin {"probabiliste"}
    BY DEF Labels, NotASample
  <2>8. ASSUME NEW label, NotASample \notin {label}
        PROVE  LabelCount(label) = Cardinality(Labelled(seed, {label}))
    <3>1. Places(file, {label}) = {k \in DOMAIN file : file[k].labeled = label}
      BY DEF Places
    <3>2. Cardinality(Places(file, {label})) = Cardinality(Labelled(seed, {label}))
      BY <2>5, <2>6, <2>8
    <3>3. QED
      BY <3>1, <3>2 DEF LabelCount
  <2>9. Len(file) = Cardinality(Labelled(seed, Labels))
    <3>1. PICK m \in Nat : m = Len(file)
      BY <2>5
    <3>2. DOMAIN file = 1..m /\ \A k \in 1..m : file[k] \in Samples
      BY <2>5, <3>1
    <3>3. \A e \in Samples : e.labeled \in Labels
      BY DEF Samples
    <3>4. Places(file, Labels) = 1..m
      BY <3>2, <3>3 DEF Places
    <3>5. Cardinality(1..m) = m
      BY FS_Interval
    <3>6. Cardinality(Places(file, Labels)) = Cardinality(Labelled(seed, Labels))
      BY <2>5, <2>6, <2>7
    <3>7. QED
      BY <3>1, <3>4, <3>5, <3>6
  <2>10. /\ Cardinality(F) = Share("refusFrontiere")
         /\ Cardinality(A) = Share("refusI3")
         /\ Cardinality(P) = Share("probabiliste")
    BY <2>1, RowsAreShuffled DEF Share, Branches
  <2>11. /\ F \in SUBSET I /\ A \in SUBSET I /\ P \in SUBSET I
         /\ F \cap A = {} /\ (F \cup A) \cap P = {}
    BY DEF Built
  <2>valid. 1 <= Profile.dateRevision
    BY Dated DEF WInv, WTypes
  <2>12. /\ Labelled(seed, {"refus_authority"}) = A
         /\ Labelled(seed, {"refus_i4"}) = {}
         /\ Labelled(seed, {"deterministe"}) = P
         /\ Labelled(seed, {"probabiliste"}) = I \ (F \cup A \cup P)
         /\ Labelled(seed, Labels) = I \ F
    BY <2>1, <2>valid, LabelledLines
  <2> HIDE DEF seed, F, A, P
  <2>13. LabelCount("refus_authority") = Share("refusI3")
    BY <2>7, <2>8, <2>10, <2>12
  <2>14. LabelCount("refus_i4") = 0
    BY <2>7, <2>8, <2>12, FS_EmptySet
  <2>15. LabelCount("deterministe") = Share("probabiliste")
    BY <2>7, <2>8, <2>10, <2>12
  <2>16. /\ IsFiniteSet(F) /\ Cardinality(F) \in Nat /\ IsFiniteSet(A) /\ Cardinality(A) \in Nat
         /\ IsFiniteSet(P) /\ Cardinality(P) \in Nat
         /\ Cardinality(I \ F) = Count - Cardinality(F)
    BY <2>1, <2>11, Complement
  <2>17. Len(file) = Count - Share("refusFrontiere")
    BY <2>9, <2>10, <2>12, <2>16
  <2>18. LabelCount("probabiliste")
           = Count - Share("refusFrontiere") - Share("refusI3") - Share("probabiliste")
    <3>1. F \cup A \cup P \in SUBSET I
      BY <2>11
    <3>2. Cardinality(I \ (F \cup A \cup P)) = Count - Cardinality(F \cup A \cup P)
      BY <2>1, <3>1, Complement
    <3>3. Cardinality(F \cup A) = Cardinality(F) + Cardinality(A) - Cardinality(F \cap A)
          /\ IsFiniteSet(F \cup A)
      BY <2>16, FS_Union
    <3>4. Cardinality(F \cup A \cup P)
            = Cardinality(F \cup A) + Cardinality(P) - Cardinality((F \cup A) \cap P)
      BY <2>16, <3>3, FS_Union
    <3>5. Cardinality(F \cap A) = 0 /\ Cardinality((F \cup A) \cap P) = 0
      BY <2>11, FS_EmptySet
    <3>6. Cardinality(F \cup A \cup P) = Cardinality(F) + Cardinality(A) + Cardinality(P)
      BY <2>16, <3>3, <3>4, <3>5
    <3>7. LabelCount("probabiliste") = Cardinality(I \ (F \cup A \cup P))
      BY <2>7, <2>8, <2>12
    <3> DEFINE cf == Cardinality(F)
               ca == Cardinality(A)
               cp == Cardinality(P)
    <3>8. cf \in Nat /\ ca \in Nat /\ cp \in Nat
      BY <2>16
    <3>9. LabelCount("probabiliste") = Count - (cf + ca + cp)
      BY <3>2, <3>6, <3>7
    <3> HIDE DEF cf, ca, cp
    <3>10. Count - (cf + ca + cp) = Count - cf - ca - cp
      BY <2>1, <3>8
    <3>11. QED
      BY <2>10, <3>9, <3>10 DEF cf, ca, cp
  <2>19. QED
    BY <2>13, <2>14, <2>15, <2>17, <2>18
<1>2. Init => ProgressInv
  BY DEF Init, ProgressInv, Finished
<1>3. Spec => []ProgressInv
  BY <1>2, StepProgressInv, Invariance, PTL DEF Spec
<1>4. QED
  BY <1>1, <1>3, Invariance, PTL
=============================================================================

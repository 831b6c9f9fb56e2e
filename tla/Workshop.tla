------------------------------ MODULE Workshop ------------------------------
(***************************************************************************)
(* Calibration as a team runs it: the command generate-corpus rewrites a   *)
(* corpus file line by line, `tau calibrate` reads the file twice and      *)
(* writes a profile, CheckDrift compares the profile with what is there.   *)
(* Two processes and a clock; each may be killed between two steps.        *)
(*                                                                         *)
(* A file is the sequence of its lines, as json.Decode would take them for *)
(* corpus entries, and its digest stands for its content.  One line        *)
(* written is one step.  calibrate reads through an open file, in as many  *)
(* reads as the buffer takes: each is a step, which may end within a line, *)
(* and between two of them the generator may truncate and rewrite the same *)
(* file, under an offset that then stands anywhere in the new lines.       *)
(***************************************************************************)
EXTENDS Corpus, Functions

CONSTANTS Seeds,           \* the values of --seed
          Count,           \* --count
          Distribution,    \* Distribution[seed]: the --distribution it is used with
          Shuffle,         \* Shuffle[seed]: the permutation rng.Shuffle applies
          StubAnswer,      \* StubAnswer[seed][i]: the stub's reply to the intent of line i
          MaxGenerations,  \* bound on the runs of generate-corpus
          CalibratedUntil, \* --date-revision of tau calibrate
          EarlierCorpora,  \* scored corpora that may be there at first
          ReadSizes,       \* how many lines a read begins, if the corpus has them
          Mixtures         \* what json.Decode may make of the end of a line, alone or
                           \* after the beginning of another

\* The entries that generate-corpus writes: valid, and labelled as the default
\* thresholds simulate.
Samples == {e \in [id : {TRUE}, sens : 0..Scale, auth : 0..Scale, inv : 0..Scale,
                   attestation : BOOLEAN, labeled : Labels, expected : {""}] :
              Simulate(e, DefaultThresholds) = e.labeled}

\* Whatever can be decoded as a CorpusEntry.
Entries == [id : BOOLEAN, sens : Int, auth : Int, inv : Int, attestation : BOOLEAN,
            labeled : STRING, expected : STRING]

ASSUME WorkshopAssumption ==
  /\ Count \in Nat \ {0}
  /\ Seeds # {}
  /\ Distribution \in [Seeds -> Distributions]  \* weightsFor rejects any other
  /\ Shuffle \in [Seeds -> Bijection(1..Count, 1..Count)]
  /\ StubAnswer \in [Seeds -> [1..Count -> 0..999]]
  /\ MaxGenerations \in Nat
  /\ CalibratedUntil \in Nat \ {0}
  /\ Limits = DefaultThresholds  \* app.NewDispatcher
  /\ HasProfile                  \* with calibration.DefaultProfile
  /\ Profile.dSens = 400 /\ Profile.dAuthority = 300 /\ Profile.dInvariant = 300
  /\ EarlierCorpora \subseteq Seq(Samples)
  /\ \A corpus \in EarlierCorpora : Len(corpus) <= Count
  /\ ReadSizes \subseteq Nat \ {0}
  /\ Mixtures \subseteq {Torn} \cup Entries

VARIABLES now,        \* the clock
          file,       \* the corpus file
          gen,        \* the process generate-corpus, or its last run
          runs,       \* how many there were
          modes,      \* history: the modes of the runs that opened the corpus
          cal,        \* the process tau calibrate
          output,     \* the profile it writes
          disturbed,  \* history: the corpus was written while calibrate ran
          truncated   \* history: it was emptied while LoadCorpus was reading it

vars == <<now, file, gen, runs, modes, cal, output, disturbed, truncated>>

Modes == {"plain", "annotated", "scored"}

\* The plan of a seed, shuffled.
Plans == [seed \in Seeds |->
            LET plan == BuildPlan(Count, WeightsFor(Distribution[seed]))
            IN [i \in 1..Count |-> plan[Shuffle[seed][i]]]]

\* Line i decided at instant t.  An AgentMeshExchange has none of the scores of
\* a CorpusEntry; annotated, its expected_regime is in another case.
LineAt(seed, mode, i, t) ==
  LET x == Build(Plans[seed][i], i - 1)
      v == Decide(ToTauExchange(x), StubAnswer[seed][i], t)
  IN IF mode = "scored"
     THEN ScoredEntry(ToTauExchange(x), v, StubAnswer[seed][i], DefaultThresholds)
     ELSE [id |-> TRUE, sens |-> 0, auth |-> 0, inv |-> 0, attestation |-> FALSE,
           labeled |-> "", mode |-> x.mode,
           expected |-> IF mode = "annotated" THEN v.regime ELSE ""]

Lines == [seed \in Seeds |-> [mode \in Modes |-> [i \in 1..Count |->
            [t \in 1..MaxTime |-> LineAt(seed, mode, i, t)]]]]

Kept(line) == "mode" \in DOMAIN line \/ line.labeled # NotASample

\* What a run that decides at instant t throughout has written after each round
\* of its loop, and in the end.
Progress(seed, mode, t) ==
  LET written[i \in 0..Count] ==
        IF i = 0 THEN <<>>
        ELSE IF Kept(Lines[seed][mode][i][t])
             THEN Append(written[i - 1], Lines[seed][mode][i][t])
             ELSE written[i - 1]
  IN written

OutputAt(seed, mode, t) == Progress(seed, mode, t)[Count]

\* FingerprintCorpus and the environment of CheckDrift; the digest of no file is
\* the empty string.
FingerprintCorpus(lines) == IF lines = NoFile THEN NoFingerprint ELSE <<"sha256", lines>>

Env == [cpu |-> <<"linux/amd64">>, llm |-> <<"stub:v0">>, corpus |-> FingerprintCorpus(file)]

DefaultProfile == [cpu |-> NoFingerprint, llm |-> <<"stub:v0">>, corpus |-> NoFingerprint,
                   dateRevision |-> Profile.dateRevision]

\* A profile file: absent, an earlier one, cut short, or what Calibrate made of
\* the entries, which stand for the thresholds (GridSearch).
Earlier == [absent |-> FALSE, torn |-> FALSE]
Absent  == [absent |-> TRUE, torn |-> FALSE]
Cut     == [absent |-> FALSE, torn |-> TRUE]
Whole   == "entries" \in DOMAIN output

\* An open corpus: the lines of it that the offset has passed, the last of them
\* only in part if head, and what was read, line by line without that part.
Fresh == [seen |-> <<>>, head |-> FALSE, got |-> <<>>]

Init ==
  /\ now = 1
  /\ file \in {NoFile} \cup EarlierCorpora
  /\ gen = [pc |-> "none", seed |-> CHOOSE s \in Seeds : TRUE, mode |-> "scored",
            next |-> 1, exit |-> 0]
  /\ runs = 0
  /\ modes = IF file = NoFile THEN {} ELSE {"scored"}
  /\ cal = [pc |-> "none", fingerprint |-> NoFingerprint, entries |-> <<>>, exit |-> 0,
            reader |-> Fresh]
  /\ output \in {Absent, Earlier}
  /\ disturbed = FALSE
  /\ truncated = FALSE

Tick ==
  /\ now < MaxTime
  /\ now' = now + 1
  /\ UNCHANGED <<file, gen, runs, modes, cal, output, disturbed, truncated>>

-----------------------------------------------------------------------------
(* generate-corpus.                                                        *)

Calibrating == cal.pc \in {"started", "hashing", "fingerprinted", "decoding", "loaded", "opened"}

\* Mutant: the corpus is opened without O_TRUNC.
GenerateAppending(seed, mode) ==
  /\ gen.pc # "writing" /\ runs < MaxGenerations
  /\ gen' = [pc |-> "writing", seed |-> seed, mode |-> mode, next |-> 1, exit |-> 0]
  /\ file' = IF file = NoFile THEN <<>> ELSE file
  /\ modes' = modes \cup {mode}
  /\ runs' = runs + 1
  /\ disturbed' = (disturbed \/ Calibrating)
  /\ truncated' = (truncated \/ cal.pc = "decoding")
  /\ UNCHANGED <<now, cal, output>>

\* Good arguments; os.Create empties the file before anything is decided.
Generate(seed, mode) ==
  /\ gen.pc # "writing" /\ runs < MaxGenerations
  /\ gen' = [pc |-> "writing", seed |-> seed, mode |-> mode, next |-> 1, exit |-> 0]
  /\ file' = <<>>
  /\ modes' = modes \cup {mode}
  /\ runs' = runs + 1
  /\ disturbed' = (disturbed \/ Calibrating)
  /\ truncated' = (truncated \/ cal.pc = "decoding")
  /\ UNCHANGED <<now, cal, output>>

\* Bad arguments, or os.Create failed.
GenerateRefused(exit) ==
  /\ gen.pc # "writing" /\ runs < MaxGenerations
  /\ exit \in {1, 2}
  /\ gen' = [gen EXCEPT !.pc = "ended", !.exit = exit]
  /\ runs' = runs + 1
  /\ UNCHANGED <<now, file, modes, cal, output, disturbed, truncated>>

\* One round of the loop, deciding now; a refusal that is no sample is skipped.
WriteLine ==
  LET line == Lines[gen.seed][gen.mode][gen.next][now]
  IN /\ gen.pc = "writing" /\ gen.next <= Count
     /\ file' = IF Kept(line) THEN Append(file, line) ELSE file
     /\ gen' = [gen EXCEPT !.next = @ + 1]
     /\ disturbed' = (disturbed \/ Calibrating)
     /\ UNCHANGED <<now, runs, modes, cal, output, truncated>>

\* The run is killed (137), a write fails (1), or no dispatcher can be built for
\* TAUGO_LLM_BACKEND and it panics (2); the line it was writing may be cut.
GeneratorDies(exit) ==
  /\ gen.pc = "writing"
  /\ \/ exit = 137 /\ UNCHANGED file
     \/ exit \in {1, 137} /\ gen.next <= Count /\ file' \in {file, Append(file, Torn)}
     \/ exit = 2 /\ gen.next = 1 /\ gen.mode # "plain" /\ UNCHANGED file
  /\ gen' = [gen EXCEPT !.pc = "ended", !.exit = exit]
  /\ disturbed' = (disturbed \/ Calibrating)
  /\ UNCHANGED <<now, runs, modes, cal, output, truncated>>

GeneratorReturns ==
  /\ gen.pc = "writing" /\ gen.next > Count
  /\ gen' = [gen EXCEPT !.pc = "ended", !.exit = 0]
  /\ UNCHANGED <<now, file, runs, modes, cal, output, disturbed, truncated>>

-----------------------------------------------------------------------------
(* tau calibrate.                                                          *)

Exit(code) == cal' = [cal EXCEPT !.pc = "exited", !.exit = code, !.reader = Fresh]

\* A flag missing or malformed.
CalibrateRefused ==
  /\ cal.pc = "none"
  /\ Exit(2)
  /\ UNCHANGED <<now, file, gen, runs, modes, output, disturbed, truncated>>

CalibrateStarts ==
  /\ cal.pc = "none"
  /\ cal' = [cal EXCEPT !.pc = "started"]
  /\ UNCHANGED <<now, file, gen, runs, modes, output, disturbed, truncated>>

\* Mutant: an unexpected end of file is not taken for a syntax error.
ExitCodeNoEOF(error) == IF error = "path" THEN 1 ELSE 2

CorpusErrExitCode(error) == IF error \in {"path", "syntax"} THEN 1 ELSE 2

\* The two times the path is opened: by FingerprintCorpus, then by LoadCorpus.
OpenCorpus ==
  /\ \/ /\ cal.pc = "started"
        /\ \/ file # NoFile /\ cal' = [cal EXCEPT !.pc = "hashing"]
           \/ Exit(1)
     \/ /\ cal.pc = "fingerprinted"
        /\ \/ file # NoFile /\ cal' = [cal EXCEPT !.pc = "decoding"]
           \/ Exit(CorpusErrExitCode("path"))
  /\ UNCHANGED <<now, file, gen, runs, modes, output, disturbed, truncated>>

\* The file does not begin with what was read: another one stands under the offset.
Moved == \A n \in 0..Len(file) : SubSeq(file, 1, n) # cal.reader.seen

\* How many lines lie before those that the next read brings from their beginning,
\* or from where head leaves the first; the offset is anywhere in another file.
Before == IF Moved THEN 1..Len(file)
          ELSE {IF cal.reader.head THEN Len(cal.reader.seen) - 1 ELSE Len(cal.reader.seen)}

\* What those lines are read after: in another file, the end of a line of it, alone
\* or after the beginning of an earlier one.
First == IF ~Moved THEN {<<>>}
         ELSE {<<m>> : m \in IF file = <<>> THEN {} ELSE Mixtures}
              \cup {IF cal.reader.head THEN <<Torn>> ELSE <<>>}

\* After a read that begins size lines, the last of which part says is not whole.
Read(at, first, size, part) ==
  LET last == IF at + size < Len(file) THEN at + size ELSE Len(file)
  IN [seen |-> SubSeq(file, 1, last), head |-> part,
      got |-> cal.reader.got \o first \o SubSeq(file, at + 1, IF part THEN last - 1 ELSE last)]

Readings == {Read(p[1], p[2], p[3], p[4]) :
               p \in {q \in Before \X First \X ReadSizes \X BOOLEAN : q[4] => q[1] < Len(file)}}

\* All that was read, if this is the end of the file; another file may be shorter,
\* and in what it leaves of a line dec.More takes a closing brace for the end.
Contents == IF Moved THEN {cal.reader.got \o first : first \in First}
          ELSE IF cal.reader.seen = file /\ ~cal.reader.head THEN {cal.reader.got} ELSE {}

\* FingerprintCorpus.
HashCorpus ==
  /\ cal.pc = "hashing"
  /\ \/ \E reader \in Readings : cal' = [cal EXCEPT !.reader = reader]
     \/ \E content \in Contents :
          cal' = [cal EXCEPT !.pc = "fingerprinted", !.fingerprint = FingerprintCorpus(content),
                             !.reader = Fresh]
  /\ UNCHANGED <<now, file, gen, runs, modes, output, disturbed, truncated>>

\* LoadCorpus: a read and the rounds of the loop it feeds, or the end of the loop.
DecodeCorpus ==
  /\ cal.pc = "decoding"
  /\ \/ \E reader \in Readings :
          LET error == LoadCorpus(reader.got).error
          IN IF error = "none" THEN cal' = [cal EXCEPT !.reader = reader]
             ELSE Exit(CorpusErrExitCode(error))
     \/ \E content \in Contents :
          LET corpus == LoadCorpus(content)
          IN IF corpus.error = "none"
             THEN cal' = [cal EXCEPT !.pc = "loaded", !.entries = corpus.entries,
                                     !.reader = Fresh]
             ELSE Exit(CorpusErrExitCode(corpus.error))
  /\ UNCHANGED <<now, file, gen, runs, modes, output, disturbed, truncated>>

\* os.WriteFile opens and empties the output, or fails to.
OpenOutput ==
  /\ cal.pc = "loaded"
  /\ \/ output' = Cut /\ cal' = [cal EXCEPT !.pc = "opened"]
     \/ Exit(1) /\ UNCHANGED output
  /\ UNCHANGED <<now, file, gen, runs, modes, disturbed, truncated>>

WriteOutput ==
  /\ cal.pc = "opened"
  /\ \/ /\ output' = [cpu |-> Env.cpu, llm |-> <<"stub:v0">>, corpus |-> cal.fingerprint,
                      dateRevision |-> CalibratedUntil, entries |-> cal.entries]
        /\ Exit(0)
     \/ Exit(1) /\ UNCHANGED output
  /\ UNCHANGED <<now, file, gen, runs, modes, disturbed, truncated>>

CalibrateKilled ==
  /\ Calibrating
  /\ Exit(137)
  /\ UNCHANGED <<now, file, gen, runs, modes, output, disturbed, truncated>>

Next ==
  \/ Tick
  \/ \E seed \in Seeds, mode \in Modes : Generate(seed, mode)
  \/ \E exit \in {1, 2, 137} : GenerateRefused(exit) \/ GeneratorDies(exit)
  \/ WriteLine \/ GeneratorReturns
  \/ CalibrateRefused \/ CalibrateStarts \/ OpenCorpus \/ HashCorpus \/ DecodeCorpus
  \/ OpenOutput \/ WriteOutput \/ CalibrateKilled

Spec == Init /\ [][Next]_vars

-----------------------------------------------------------------------------
Finished == gen.pc = "ended" /\ gen.exit = 0

ExitCodes == {0, 1, 2, 137}

TypeOK ==
  /\ now \in 1..MaxTime
  /\ file # NoFile => \A i \in DOMAIN file : file[i] = Torn \/ file[i].id
  /\ Len(file) <= Count
  /\ gen \in [pc : {"none", "writing", "ended"}, seed : Seeds, mode : Modes,
              next : 1..(Count + 1), exit : ExitCodes]
  /\ runs \in 0..MaxGenerations
  /\ modes \subseteq Modes
  /\ cal.pc = "none" \/ Calibrating \/ cal.pc = "exited"
  /\ cal.exit \in ExitCodes
  /\ \A i \in DOMAIN cal.entries : IsValid(cal.entries[i])
  /\ {disturbed, truncated} \subseteq BOOLEAN

\* "genuine grid-search ground truth" (generator.go:136): whatever the clock does
\* during the run, a scored corpus loads, and the default thresholds agree with
\* every label of it.
ScoredCorpusIsSound ==
  Finished /\ gen.mode = "scored" /\ file # NoFile =>
    LET corpus == LoadCorpus(file)
    IN /\ corpus.error = "none"
       /\ CountAgreement(corpus.entries, DefaultThresholds) = Len(file)

\* "same seed+count+distribution -> identical output" (main.go:25), until the
\* default profile expires: then annotations change and samples are dropped
\* without a word, but CheckDrift has said so an instant before.
ReproducibleUntilDrift ==
  Finished /\ file # NoFile /\ file # OutputAt(gen.seed, gen.mode, 1) =>
    gen.mode # "plain" /\ "date" \in CheckDrift(DefaultProfile, now - 1, Env)

\* An exchange of the corpus is the same exchange whether it enters through the
\* bridge converter or, as JSON, through `tau decide`.
EntrancesAgree ==
  file # NoFile =>
    \A i \in DOMAIN file :
      "mode" \in DOMAIN file[i] =>
        DiscoveryModeFromString(file[i].mode) = UnmarshalMode(file[i].mode)

\* Exit codes (calibrate.go:118): once the corpus was opened, 2 blames one that is
\* no scored corpus, or that a run emptied under LoadCorpus, which then decodes
\* the beginning of one line with the end of another.  It blames neither the line
\* a killed run left unfinished nor the lines a run appends meanwhile, wherever in
\* a line a read ends.  0 leaves a whole profile; and only a failure to write, or
\* a kill, costs the profile that was there.
ExitCodesTell ==
  cal.pc = "exited" =>
    /\ cal.exit = 2 /\ cal.fingerprint # NoFingerprint => modes \ {"scored"} # {} \/ truncated
    /\ cal.exit = 0 <=> Whole
    /\ output = Cut => cal.exit \in {1, 137}

\* The profile of a calibrate that ran alone on the corpus names the entries it
\* was calibrated on, and CheckDrift reports the corpus exactly while the file
\* is another one.
DriftSeesTheCorpusMove ==
  Whole /\ ~disturbed =>
    \E lines \in {cal.fingerprint[2]} :
      /\ output.entries = LoadCorpus(lines).entries
      /\ "corpus" \in CheckDrift(output, now, Env) <=> file # lines

-----------------------------------------------------------------------------
(* A statement of the documentation that the code does not keep.           *)

\* PRD.md, 11.4, of corpus_fingerprint: "Hash du corpus de calibration".  The
\* corpus the thresholds come from is the one whose digest the profile holds,
\* and CheckDrift compares the file with.
FingerprintIsOfTheCalibrationCorpus ==
  Whole => output.entries = LoadCorpus(output.corpus[2]).entries
=============================================================================

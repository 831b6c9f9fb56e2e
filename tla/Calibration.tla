---------------------------- MODULE Calibration ----------------------------
(***************************************************************************)
(* The pure part of internal/calibration: corpus entries and their         *)
(* loading (calibrate.go), the simulated rule and the agreement count that *)
(* the grid search maximises, the grid itself, and the drift check         *)
(* (drift.go).  Scores and thresholds are in millionths, as in Tau.        *)
(*                                                                         *)
(* A corpus file is a sequence of lines, or NoFile.  Of a line only what   *)
(* json.Decode makes of it as a CorpusEntry matters here: the entry, or    *)
(* Torn for a line that was cut short.                                     *)
(***************************************************************************)
EXTENDS Dimensions, FiniteSets, Sequences

\* calibration.DefaultProfile().Thresholds and orchestration.DefaultThresholds().
DefaultThresholds ==
  [deterministe |-> 350000, probabiliste |-> 650000, authBlock |-> 850000,
   sensCoherence |-> 500000, invCoherence |-> 500000, hysteresisGap |-> 100000]

-----------------------------------------------------------------------------
(* Entries.                                                                *)

Labels == {"deterministe", "probabiliste", "refus_authority", "refus_i4"}

\* id says whether the ID is non-empty; labeled and expected are the two label
\* fields, "" when absent.  HumanInLoop is read nowhere.
IsValid(e) ==
  /\ e.id
  /\ {e.sens, e.auth, e.inv} \subseteq 0..Scale
  /\ e.labeled \in Labels

Migrate(e) ==
  IF e.labeled = "" /\ e.expected # "" THEN [e EXCEPT !.labeled = e.expected] ELSE e

NoFile == <<[missing |-> TRUE]>>
Torn   == [torn |-> TRUE]

\* LoadCorpus: the first line that cannot be decoded or is invalid decides.
LoadCorpus(file) ==
  LET Accepted(i) == file[i] # Torn /\ IsValid(Migrate(file[i]))
      Failing(i)  == ~Accepted(i) /\ \A j \in 1..(i - 1) : Accepted(j)
  IN IF file = NoFile THEN [error |-> "path", entries |-> <<>>]
     ELSE IF \A i \in DOMAIN file : Accepted(i)
          THEN [error |-> "none", entries |-> [i \in DOMAIN file |-> Migrate(file[i])]]
     ELSE IF file[CHOOSE i \in DOMAIN file : Failing(i)] = Torn
          THEN [error |-> "syntax", entries |-> <<>>]
     ELSE [error |-> "content", entries |-> <<>>]

-----------------------------------------------------------------------------
(* The objective.                                                          *)

\* simulate: three guards in order; Deterministe and HysteresisGap are read by
\* none of them.
Simulate(e, t) ==
  CASE e.auth >= t.authBlock /\ ~e.attestation -> "refus_authority"
    [] /\ ~(e.auth >= t.authBlock /\ ~e.attestation)
       /\ e.sens < t.sensCoherence /\ e.inv >= t.invCoherence -> "refus_i4"
    [] OTHER -> IF e.sens >= t.probabiliste THEN "deterministe" ELSE "probabiliste"

Agreeing(corpus, t) == {i \in DOMAIN corpus : Simulate(corpus[i], t) = corpus[i].labeled}

CountAgreement(corpus, t) == Cardinality(Agreeing(corpus, t))

\* The four loop counters, in steps of 50 thousandths: Deterministe,
\* HysteresisGap, AuthBlock and SensCoherence.
Loops == [d : 2..18, g : 1..4, a : 14..19, s : 6..14]
Step50 == 50000

\* Mutant: sums beyond 600 are skipped.
SkippedTooSoon(c) == c.d + c.g > 12

\* pM > 950 is skipped.
Skipped(c) == c.d + c.g > 19

\* Mutant: the counter of AuthBlock is taken for tenths.
ThresholdsInTenths(c) ==
  [deterministe |-> c.d * Step50, probabiliste |-> (c.d + c.g) * Step50,
   hysteresisGap |-> c.g * Step50, authBlock |-> c.a * 2 * Step50,
   sensCoherence |-> c.s * Step50, invCoherence |-> c.s * Step50]

ThresholdsAt(c) ==
  [deterministe |-> c.d * Step50, probabiliste |-> (c.d + c.g) * Step50,
   hysteresisGap |-> c.g * Step50, authBlock |-> c.a * Step50,
   sensCoherence |-> c.s * Step50, invCoherence |-> c.s * Step50]

-----------------------------------------------------------------------------
(* Drift.                                                                  *)

\* The empty string; any other fingerprint is a non-empty sequence.
NoFingerprint == <<>>

\* Mutant: the criteria are alternatives, the corpus after the date.
CheckDriftShadowed(profile, now, env) ==
  IF now >= profile.dateRevision THEN {"date"}
  ELSE {k \in {"cpu", "llm", "corpus"} : profile[k] # NoFingerprint /\ env[k] # profile[k]}

\* Mutant: the date is compared as the dispatcher does, strictly.
CheckDriftStrict(profile, now, env) ==
  {k \in {"cpu", "llm", "corpus"} : profile[k] # NoFingerprint /\ env[k] # profile[k]}
  \cup (IF now > profile.dateRevision THEN {"date"} ELSE {})

\* A recorded fingerprint that is not empty must be the environment's.
\* The zero DateRevision is before every instant.
CheckDrift(profile, now, env) ==
  {k \in {"cpu", "llm", "corpus"} : profile[k] # NoFingerprint /\ env[k] # profile[k]}
  \cup (IF now >= profile.dateRevision THEN {"date"} ELSE {})
=============================================================================

----------------------------- MODULE MCWorkshop -----------------------------
(***************************************************************************)
(* Instances of Workshop for TLC: five lines, two seeds.                   *)
(***************************************************************************)
EXTENDS Workshop

\* Of five lines refus-heavy builds one of each branch but refusI4, i4-heavy
\* three of refusI4 and two of hysteresis.
MCSeeds == {1, 2}
MCDistribution == <<"refus-heavy", "i4-heavy">>
MCShuffle == <<<<5, 2, 1, 4, 3>>, <<1, 5, 2, 3, 4>>>>
MCStubAnswer == <<<<0, 999, 500, 261, 40>>, <<261, 700, 261, 261, 333>>>>

MCProfile ==
  [version |-> "0.1.0", dateRevision |-> 2,
   dSens |-> 400, dAuthority |-> 300, dInvariant |-> 300]

\* The exchanges the generator submits, and the replies it gets.
MCExchanges == {ToTauExchange(Build(branch, i)) :
                  branch \in {"refusFrontiere", "refusI3", "refusI4", "deterministe",
                              "probabiliste", "hysteresis"}, i \in 0..4}
MCAnswers == 0..999 \cup {LLMError}

\* What scored runs of the two seeds write at the first instant.
MCSample(sens, auth, inv, attested, label) ==
  [id |-> TRUE, sens |-> sens, auth |-> auth, inv |-> inv, attestation |-> attested,
   labeled |-> label, expected |-> ""]

MCAmbiguous(sens) == MCSample(sens, 562500, 250000, TRUE, "probabiliste")

MCEarlierCorpora ==
  {<<MCAmbiguous(500000),
     MCSample(999850, 1000000, 450000, FALSE, "refus_authority"),
     MCSample(889150, 875000, 450000, TRUE, "deterministe"),
     MCAmbiguous(506000)>>,
   <<MCAmbiguous(539150), MCAmbiguous(605000), MCAmbiguous(539150), MCAmbiguous(539150),
     MCAmbiguous(549950)>>}

\* Nothing, an entry whose label is the end of one and the beginning of another,
\* and one that is valid and that nobody wrote.
MCMixtures ==
  {Torn,
   MCSample(500000, 562500, 250000, TRUE, "probabrministe"),
   MCSample(500000, 562500, 250000, FALSE, "deterministe")}
=============================================================================

----------------------------- MODULE Experiment -----------------------------
(***************************************************************************)
(* The two research pipelines of scripts/chart_regime_strategy_mapping.py. *)
(* The three-day profile advances through explicit stages, appends daily   *)
(* evidence to one ledger per phase, freezes every choice, and only then   *)
(* loads the Test interval; its four outputs are one Publication.  The     *)
(* walk-forward profile selects models and mappings per model family,      *)
(* freezes them, replays the Test interval and writes its four outputs one *)
(* after the other.                                                        *)
(*                                                                         *)
(* One process runs at a time.  Every stage may raise, the process may die *)
(* at any point, and the operator starts it again with or without --resume,*)
(* perhaps after changing the code.  An artifact is modelled by where it   *)
(* comes from.                                                             *)
(***************************************************************************)
EXTENDS Publication, Sequences, FiniteSetsExt

CONSTANTS
    Codes,       \* versions of the code, hashed into the model artifact
    Days,        \* days of a phase; one ledger row stands for a day's rows
    Policies,    \* validation configurations of a family, in config_id order
    MaxRuns      \* bound on the runs of the process

ASSUME ExperimentAssumption ==
    /\ Days \in Nat \ {0}
    /\ Policies \in Nat \ {0}
    /\ MaxRuns \in Nat \ {0, 1}

VARIABLES
    pipe,        \* the process: its profile, stage and local variables
    ledgers,     \* per phase, the run identity of each row in the ledger file
    outputs,     \* the four output files of the walk-forward profile
    reports,     \* what the report of each three-day run says
    runs         \* number of the last run; 1 wrote what was there at first

vars == <<pubVars, pipe, ledgers, outputs, reports, runs>>

Phases == {"mapping_fit", "validation"}
Families == {"kmeans", "gmm"}
None == "none"
Base == 0

(* ThreeDayExperimentStage, in the order of the enumeration.                *)
Stages == <<"INITIAL", "SOURCES_VERIFIED", "MODEL_FROZEN", "CANDIDATES_FROZEN",
            "MAPPING_EVIDENCE_LOADED", "INITIAL_STRICT_MAPPING_BUILT", "VALIDATION_REPORTED",
            "FINAL_MAPPING_FROZEN", "GLOBAL_BASELINE_FROZEN", "PRE_TEST_FROZEN", "TEST_LOADED",
            "COMPARISONS_RUN", "PUBLISHED">>

(* The stages of run_chart_regime_walk_forward.                             *)
WalkStages == {"load", "prepare", "evaluate", "map", "validate", "freeze", "load_test", "replay",
               "write_model", "write_mapping", "write_json", "write_markdown"}

-----------------------------------------------------------------------------

Nothing == <<>>

(* A process that is not running.                                           *)
Stopped == [profile |-> None, stage |-> None, code |-> None, resume |-> FALSE,
            opened |-> {}, mapping |-> {}, freeze |-> Nothing, tested |-> FALSE, used |-> {},
            models |-> <<>>, mappings |-> <<>>, frozen |-> Nothing, family |-> None, replayed |-> Nothing]

(* What is in the files of a walk-forward run.                              *)
Artifact(f, p) == [family |-> f, policy |-> p]
OldOutputs == [file \in {"model", "mapping", "json", "markdown"} |-> [run |-> 1, body |-> Nothing]]

Init ==
    /\ PubInit
    /\ pipe = Stopped
    /\ ledgers = [phase \in Phases |-> <<>>]
    /\ outputs = OldOutputs
    /\ reports = <<>>
    /\ runs = 1

Running == pipe.profile # None

(***************************************************************************)
(* main: the operator starts the process.  Outputs of the two profiles and *)
(* the ledgers are where the last run left them.                           *)
(***************************************************************************)
Start(profile, code, resume) ==
    /\ ~Running
    /\ runs < MaxRuns
    /\ runs' = runs + 1
    /\ pipe' = [Stopped EXCEPT !.profile = profile, !.code = code, !.resume = resume,
                               !.stage = IF profile = "three_day" THEN "INITIAL" ELSE "load"]
    /\ tx' = Idle
    /\ UNCHANGED <<final, kept, committed, ledgers, outputs, reports>>

(* The process ends: it returned, raised and printed the error, or died.    *)
Stop == pipe' = Stopped

(* advance: the stage is the expected one and becomes the next one.         *)
Advance(expected, next) ==
    /\ pipe.stage = Stages[expected]
    /\ pipe' = [next EXCEPT !.stage = Stages[expected + 1]]

Internal == UNCHANGED <<pubVars, ledgers, outputs, reports, runs>>

(***************************************************************************)
(* A dependency of the current stage raises: bad sources, a market gap, a  *)
(* missing cache, an incomplete manifest, a refused artifact.  The run     *)
(* prints the error and publishes nothing.                                 *)
(***************************************************************************)
Fails ==
    /\ Running
    /\ pipe.stage # "publishing"
    /\ Stop
    /\ Internal

(* The process dies, also in the middle of a publication.                   *)
Crash ==
    /\ Running
    /\ Stop
    /\ tx' = Idle
    /\ UNCHANGED <<final, kept, committed, ledgers, outputs, reports, runs>>

-----------------------------------------------------------------------------
(* The three-day profile.                                                   *)

VerifySources == Advance(1, pipe) /\ Internal

(* The model is fitted, passes every gate and is frozen.                    *)
FitModel == Advance(2, pipe) /\ Internal

FreezeCandidates == Advance(3, pipe) /\ Internal

(* Variant: the identity of the existing rows is not compared.              *)
OpenLedgerUnchecked(phase) ==
    /\ pipe.stage = Stages[IF phase = "mapping_fit" THEN 4 ELSE 6]
    /\ phase \notin pipe.opened
    /\ ledgers[phase] = <<>> \/ pipe.resume
    /\ pipe' = [pipe EXCEPT !.opened = @ \union {phase}]
    /\ Internal

(***************************************************************************)
(* load_three_day_phase_evidence up to the ledger: an existing one needs   *)
(* --resume, and its rows must carry the run identity, which hashes the    *)
(* model artifact and so the code.                                         *)
(***************************************************************************)
OpenLedger(phase) ==
    /\ pipe.stage = Stages[IF phase = "mapping_fit" THEN 4 ELSE 6]
    /\ phase \notin pipe.opened
    /\ ledgers[phase] # <<>> => pipe.resume /\ Head(ledgers[phase]) = pipe.code
    /\ pipe' = [pipe EXCEPT !.opened = @ \union {phase}]
    /\ Internal

(* The rows of the next missing day are appended.                           *)
AppendDay(phase) ==
    /\ pipe.stage = Stages[IF phase = "mapping_fit" THEN 4 ELSE 6]
    /\ phase \in pipe.opened
    /\ Len(ledgers[phase]) < Days
    /\ ledgers' = [ledgers EXCEPT ![phase] = Append(@, pipe.code)]
    /\ UNCHANGED <<pubVars, pipe, outputs, reports, runs>>

Loaded(phase) == phase \in pipe.opened /\ Len(ledgers[phase]) = Days

LoadMappingEvidence == Loaded("mapping_fit") /\ Advance(4, pipe) /\ Internal

(* A mapping is modelled by the phases whose rows it is built from.         *)
BuildStrictMapping == Advance(5, [pipe EXCEPT !.mapping = {"mapping_fit"}]) /\ Internal

(* The sensitivity report builds mappings of its own and keeps none.        *)
ReportValidation == Loaded("validation") /\ Advance(6, pipe) /\ Internal

RebuildFinalMapping == Advance(7, [pipe EXCEPT !.mapping = Phases]) /\ Internal

SelectBaseline == Advance(8, pipe) /\ Internal

CreateFreeze ==
    /\ Advance(9, [pipe EXCEPT !.freeze = [model |-> pipe.code, mapping |-> pipe.mapping]])
    /\ Internal

(* load_test_after_freeze: the loader's provenance must be the freeze's.    *)
LoadTestInputs ==
    /\ pipe.freeze # Nothing
    /\ Advance(10, [pipe EXCEPT !.tested = TRUE])
    /\ Internal

RunComparisons == Advance(11, [pipe EXCEPT !.used = pipe.mapping]) /\ Internal

(* What the report of the current run says.                                 *)
Report(status) ==
    [status |-> status, code |-> pipe.code, mapping |-> pipe.mapping, freeze |-> pipe.freeze,
     used |-> pipe.used, tested |-> pipe.tested, opened |-> pipe.opened,
     evidence |-> [phase \in pipe.opened |-> ledgers[phase]]]

Submit(status) ==
    /\ Begin(runs)
    /\ reports' = [r \in DOMAIN reports \union {runs} |-> IF r = runs THEN Report(status) ELSE reports[r]]
    /\ pipe' = [pipe EXCEPT !.stage = "publishing"]
    /\ UNCHANGED <<ledgers, outputs, runs>>

PublishReport == pipe.stage = Stages[12] /\ Submit("completed")

(***************************************************************************)
(* A model gate failed or the fit failed technically: the run publishes    *)
(* the failed attempt and a cash-only mapping instead, and says that it    *)
(* froze no candidates, opened no ledger and loaded no Test data.          *)
(***************************************************************************)
PublishModelFailure == pipe.stage = Stages[2] /\ Submit("failed-model-cash")

(* A step of write_bytes_atomic.                                            *)
WriteFiles ==
    /\ pipe.stage = "publishing"
    /\ PublicationStep
    /\ UNCHANGED <<pipe, ledgers, outputs, reports, runs>>

(* write_bytes_atomic has returned or raised, and the run ends.             *)
EndPublication ==
    /\ pipe.stage = "publishing"
    /\ ~Publishing
    /\ Stop
    /\ Internal

ThreeDay ==
    \/ VerifySources \/ FitModel \/ FreezeCandidates
    \/ \E phase \in Phases : OpenLedger(phase) \/ AppendDay(phase)
    \/ LoadMappingEvidence \/ BuildStrictMapping \/ ReportValidation \/ RebuildFinalMapping
    \/ SelectBaseline \/ CreateFreeze \/ LoadTestInputs \/ RunComparisons
    \/ PublishReport \/ PublishModelFailure \/ WriteFiles \/ EndPublication

-----------------------------------------------------------------------------
(* The walk-forward profile.                                                *)

Goto(stage, from, next) ==
    /\ pipe.stage = from
    /\ pipe' = [next EXCEPT !.stage = stage]
    /\ Internal

(* The archives and caches of the three pre-Test phases are read.           *)
LoadInputs == Goto("prepare", "load", pipe)

(* The pre-Test market and the feature vectors of the three phases.         *)
Prepare == Goto("evaluate", "prepare", pipe)

(* Every configuration is fitted; each family has at most one winner.       *)
EvaluateModels ==
    \E winners \in SUBSET Families :
      Goto("map", "evaluate", [pipe EXCEPT !.models = [f \in winners |-> Artifact(f, Base)]])

(***************************************************************************)
(* One mapping per selected model, bound to its hash; none when no model   *)
(* is eligible or no candidate has any evidence.                           *)
(***************************************************************************)
BuildMappings ==
    \E mapped \in {{}, DOMAIN pipe.models} :
      Goto("validate", "map",
           [pipe EXCEPT !.mappings = [f \in mapped |-> [model |-> pipe.models[f], policy |-> Base]]])

(* The first of the best-scored configurations of a family.                 *)
Winner(scores) ==
    Min({p \in DOMAIN scores : \A q \in DOMAIN scores : scores[p] >= scores[q]})

(* Each validation policy of k-means scales the thresholds of the model.    *)
Validated(f, p) == IF f = "kmeans" THEN Artifact(f, p) ELSE pipe.models[f]

(***************************************************************************)
(* _default_validate: every mapping and policy of every family is replayed *)
(* over the validation interval.  Each family keeps its winner, a model    *)
(* and a mapping rebound to it; the best family is the selected one.       *)
(***************************************************************************)
Validate ==
    \E scores \in [DOMAIN pipe.models \intersect DOMAIN pipe.mappings -> [1..Policies -> 1..2]] :
      LET available == DOMAIN scores
          models == [f \in available |-> Validated(f, Winner(scores[f]))]
          mappings == [f \in available |-> [model |-> models[f], policy |-> Winner(scores[f])]]
          best(f) == \A g \in available : scores[f][Winner(scores[f])] >= scores[g][Winner(scores[g])]
      IN  \E family \in IF available = {} THEN {None} ELSE {f \in available : best(f)} :
            Goto("freeze", "validate",
                 [pipe EXCEPT !.models = IF available = {} THEN @ ELSE models,
                              !.mappings = mappings, !.family = family])

(* The hashes of the selected models and mappings are taken.                *)
FreezeArtifacts ==
    Goto("load_test", "freeze",
         [pipe EXCEPT !.frozen = [model |-> pipe.models, mapping |-> pipe.mappings]])

LoadTestReplayInputs == Goto("replay", "load_test", [pipe EXCEPT !.tested = TRUE])

(* Fixed baselines, and each family that has both a model and a mapping.    *)
ReplayTest ==
    LET dynamic == DOMAIN pipe.models \intersect DOMAIN pipe.mappings
    IN  Goto("write_model", "replay",
             [pipe EXCEPT !.replayed = [model |-> [f \in dynamic |-> pipe.models[f]],
                                        mapping |-> [f \in dynamic |-> pipe.mappings[f]]]])

WriteOutput(file, body, from, next) ==
    /\ pipe.stage = from
    /\ outputs' = [outputs EXCEPT ![file] = [run |-> runs, body |-> body]]
    /\ pipe' = next
    /\ UNCHANGED <<pubVars, ledgers, reports, runs>>

Selected == pipe.family \in DOMAIN pipe.models \intersect DOMAIN pipe.mappings

(***************************************************************************)
(* The selected pair is saved to a scratch repository, which refuses a     *)
(* mapping bound to another model, and copied to the outputs one file at a *)
(* time; without a selected pair both files say so.                        *)
(***************************************************************************)
WriteModel ==
    /\ Selected => pipe.mappings[pipe.family].model = pipe.models[pipe.family]
    /\ WriteOutput("model", IF Selected THEN pipe.models[pipe.family] ELSE Nothing,
                   "write_model", [pipe EXCEPT !.stage = "write_mapping"])

(* Variant: without a selected pair the mapping file is left as it was.     *)
WriteMappingSelected ==
    IF Selected
      THEN WriteOutput("mapping", pipe.mappings[pipe.family],
                       "write_mapping", [pipe EXCEPT !.stage = "write_json"])
      ELSE Goto("write_json", "write_mapping", pipe)

WriteMapping ==
    WriteOutput("mapping", IF Selected THEN pipe.mappings[pipe.family] ELSE Nothing,
                "write_mapping", [pipe EXCEPT !.stage = "write_json"])

WriteJson ==
    WriteOutput("json", [frozen |-> pipe.frozen, replayed |-> pipe.replayed, family |-> pipe.family],
                "write_json", [pipe EXCEPT !.stage = "write_markdown"])

WriteMarkdown == WriteOutput("markdown", Nothing, "write_markdown", Stopped)

WalkForward ==
    \/ LoadInputs \/ Prepare \/ EvaluateModels \/ BuildMappings \/ Validate \/ FreezeArtifacts
    \/ LoadTestReplayInputs \/ ReplayTest
    \/ WriteModel \/ WriteMapping \/ WriteJson \/ WriteMarkdown

-----------------------------------------------------------------------------

Next ==
    \/ \E profile \in {"three_day", "walk_forward"}, code \in Codes, resume \in BOOLEAN :
         Start(profile, code, resume)
    \/ ThreeDay
    \/ WalkForward
    \/ Fails
    \/ Crash

Spec == Init /\ [][Next]_vars

-----------------------------------------------------------------------------

TypeOK ==
    /\ PubTypeOK
    /\ pipe.profile \in {None, "three_day", "walk_forward"}
    /\ pipe.stage \in Range(Stages) \union WalkStages \union {None, "publishing"}
    /\ \A phase \in Phases : Len(ledgers[phase]) <= Days /\ Range(ledgers[phase]) \subseteq Codes
    /\ runs \in 1..MaxRuns
    /\ DOMAIN reports \subseteq 2..runs

(***************************************************************************)
(* A three-day report that reached the disk is backed by rows that its own *)
(* run identity produced, for every day of both phases, also when the run  *)
(* resumed what an earlier run, perhaps of other code, had left; a report  *)
(* of a failed model comes from a run that opened no ledger.               *)
(***************************************************************************)
EvidenceIsOwn ==
    \A i \in Paths : final[i] \in DOMAIN reports =>
        LET r == reports[final[i]]
        IN  IF r.status = "completed"
              THEN \A phase \in Phases : r.evidence[phase] = [d \in 1..Days |-> r.code]
              ELSE r.opened = {} /\ ~r.tested

(***************************************************************************)
(* "hard pre-Test barrier": the mapping that a completed report publishes, *)
(* the one it froze before the Test interval was loaded and the one its    *)
(* comparisons replayed are the same, built from both phases.              *)
(***************************************************************************)
TestedIsFrozen ==
    /\ \A i \in Paths : final[i] \in DOMAIN reports =>
          LET r == reports[final[i]]
          IN  r.status = "completed" =>
                r.mapping = Phases /\ r.used = Phases /\ r.freeze = [model |-> r.code, mapping |-> Phases]
    /\ pipe.tested => pipe.freeze # Nothing \/ pipe.frozen # Nothing

(* A report of the three-day pipeline says only what its run did.          *)
ReportsAreBacked == TypeOK /\ EvidenceIsOwn /\ TestedIsFrozen

(***************************************************************************)
(* The walk-forward outputs on disk never describe artifacts that are not  *)
(* there: the files are at least as new as the report, and when they are   *)
(* of its run they are the frozen, replayed pair, the mapping bound to the *)
(* model.                                                                  *)
(***************************************************************************)
ReportFollowsArtifacts ==
    LET json == outputs["json"]  model == outputs["model"]  mapping == outputs["mapping"]
    IN  /\ outputs["markdown"].run <= json.run
        /\ json.run <= mapping.run
        /\ mapping.run <= model.run
        /\ (json.run > 1 /\ model.run = json.run /\ json.body.family # None) =>
             /\ json.body.frozen.model[json.body.family] = model.body
             /\ json.body.frozen.mapping[json.body.family] = mapping.body
             /\ json.body.frozen = json.body.replayed
             /\ mapping.body.model = model.body

=============================================================================

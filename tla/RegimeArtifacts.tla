-------------------------- MODULE RegimeArtifacts --------------------------
(***************************************************************************)
(* The two files that carry a research result into the runtime: model.json *)
(* and mapping.json (JsonRegimeArtifactRepository).  Experiments replace   *)
(* them one after the other (run_walk_forward_mapping), a runtime reads    *)
(* the model, the mapping and the model again when it is created           *)
(* (LocalRuntime._compose_regime_selection).  Every write and every read   *)
(* is a step, so a composition may see files of two experiments.           *)
(*                                                                         *)
(* A hash stands for what it was computed of: it is that content.          *)
(***************************************************************************)
EXTENDS Integers, Sequences, FiniteSets

CONSTANTS
    Publishers,         \* experiments that write the two files
    FrozenOutcomes,     \* results an experiment may freeze
    RuntimeSettings,    \* settings a runtime may be created with
    MaxPublications     \* bound: results published in all

-----------------------------------------------------------------------------
(* Model and mapping *)

(* component_fingerprint: the parameters of a component, and for a mixture *)
(* its weight; the distances of KMeans are not part of it.                 *)
ComponentFingerprint(model, i) ==
    [type |-> model.type, schema |-> model.schema, mean |-> model.means[i],
     weight |-> IF model.type = "kmeans" THEN 0 ELSE model.weights[i]]

ArtifactHashes(model) == [i \in DOMAIN model.means |-> ComponentFingerprint(model, i)]

(* RegimeModelArtifact.__post_init__ *)
ModelIsValid(model) ==
    /\ Len(model.weights) = Len(model.means)
    /\ \A i \in DOMAIN model.weights : model.weights[i] > 0
    /\ \A i, j \in DOMAIN model.means :
         i # j => ArtifactHashes(model)[i] # ArtifactHashes(model)[j]
    /\ IF model.type = "kmeans"
       THEN /\ Len(model.distances) = Len(model.means)
            /\ \A i \in DOMAIN model.distances : model.distances[i] >= 0
       ELSE model.distances = <<>>

(* Variant: the training range left out of the payload. *)
HashWithoutTraining(model) == [model EXCEPT !.training = 0]

(* _model_payload, model_artifact_hash: all of it *)
ModelArtifactHash(model) == model

(* model_fingerprint_hash: neither the distances nor the training range *)
ModelFingerprintHash(model) ==
    <<model.symbol, model.schema, model.type, ArtifactHashes(model)>>

(* What SelectionConfidenceThresholds of a model holds. *)
RuntimePolicy(model) ==
    [type |-> model.type,
     distances |-> IF model.type = "kmeans"
                   THEN {<<ArtifactHashes(model)[i], model.distances[i]>> :
                            i \in DOMAIN model.means}
                   ELSE {}]

(* candidate_universe_hash, candidate_definition_hash *)
CandidateUniverseHash(candidates) == DOMAIN candidates
CandidateDefinitionHash(candidates) == candidates

(* No pair passed Validation. *)
CashOutcome == [cash |-> TRUE]

(* The mapping an experiment freezes with a model. *)
ComposedMapping(model, candidates, provenance, decisions) ==
    [modelHash |-> ModelArtifactHash(model),
     fingerprintHash |-> ModelFingerprintHash(model),
     clusters |-> ArtifactHashes(model),
     policy |-> RuntimePolicy(model),
     candidates |-> candidates,
     definition |-> CandidateDefinitionHash(candidates),
     universe |-> CandidateUniverseHash(candidates),
     provenance |-> provenance,
     decisions |-> decisions]

(* StrategyMappingArtifact.__post_init__, its cross checks *)
MappingIsValid(mapping) ==
    /\ mapping.definition = CandidateDefinitionHash(mapping.candidates)
    /\ mapping.universe = CandidateUniverseHash(mapping.candidates)
    /\ DOMAIN mapping.decisions = DOMAIN mapping.clusters
    /\ \A i \in DOMAIN mapping.decisions :
         mapping.decisions[i] = "cash" \/ mapping.decisions[i] \in DOMAIN mapping.candidates
    /\ mapping.policy.type = "kmeans" =>
         {d[1] : d \in mapping.policy.distances}
            = {mapping.clusters[i] : i \in DOMAIN mapping.clusters}

(* An experiment composes its mapping of the model that it froze, and the   *)
(* mapping passes its own checks; a setting names one of the two files.     *)
ASSUME ResultsAssumption ==
    \A outcome \in FrozenOutcomes : outcome # CashOutcome =>
        LET mapping == outcome.mapping
        IN  /\ mapping = ComposedMapping(outcome.model, mapping.candidates,
                                         mapping.provenance, mapping.decisions)
            /\ MappingIsValid(mapping)

ASSUME SettingsAssumption ==
    \A settings \in RuntimeSettings :
        {settings.modelPath, settings.mappingPath} \subseteq {"model", "mapping"}

(* validate_model_mapping_artifact_pair *)
LoadedPairIsValid(model, mapping) ==
    /\ mapping.modelHash = ModelArtifactHash(model)
    /\ mapping.fingerprintHash = ModelFingerprintHash(model)
    /\ mapping.clusters = ArtifactHashes(model)
    /\ mapping.policy = RuntimePolicy(model)

-----------------------------------------------------------------------------
(* Envelopes *)

Envelope(kind, content) ==
    [format |-> "json", kind |-> kind, payload |-> content, hash |-> content]

AbsentFile == [format |-> "absent"]

(* What is written instead of the two artifacts when nothing is eligible. *)
CashOnly(artifactType) == Envelope("cash_only", [artifactType |-> artifactType])

(* A file that lost bytes, and one of which a value changed. *)
Truncated(file) == [file EXCEPT !.format = "malformed"]
Altered(file) == [file EXCEPT !.payload = [altered |-> TRUE]]

(* _read_envelope and the checks of the decoders on the way *)
Readable(file, kind) ==
    /\ file.format = "json"
    /\ file.kind = kind
    /\ file.hash = file.payload

-----------------------------------------------------------------------------
VARIABLES
    files,          \* model.json and mapping.json, absent at first
    publisher,      \* what each experiment has still to write
    publications,   \* results published so far
    runtime,        \* the runtime being created, or created
    undisturbed     \* no file changed since the composition began

artifactVars == <<files, publisher, publications, runtime, undisturbed>>

NoRuntime == [state |-> "none"]
Done == [outcome |-> CashOutcome, left |-> <<>>]

ArtifactsInit ==
    /\ files = [model |-> AbsentFile, mapping |-> AbsentFile]
    /\ publisher = [p \in Publishers |-> Done]
    /\ publications = 0
    /\ runtime = NoRuntime
    /\ undisturbed = TRUE

-----------------------------------------------------------------------------
(* Publication *)

(* _validate_model_link on the repository of the experiment, which holds   *)
(* the model it just saved.                                                *)
LinkIsValid(mapping, model) ==
    /\ mapping.modelHash = ModelArtifactHash(model)
    /\ mapping.fingerprintHash = ModelFingerprintHash(model)
    /\ mapping.clusters = ArtifactHashes(model)
    /\ mapping.policy.type = model.type
    /\ model.type = "kmeans" => mapping.policy.distances = RuntimePolicy(model).distances

(* save_model and save_mapping into the temporary directory of the         *)
(* experiment; the destinations follow.                                    *)
Freeze(p) ==
    /\ publisher[p].left = <<>>
    /\ publications < MaxPublications
    /\ \E outcome \in FrozenOutcomes :
         /\ outcome # CashOutcome =>
              ModelIsValid(outcome.model) /\ LinkIsValid(outcome.mapping, outcome.model)
         /\ publisher' = [publisher EXCEPT
                            ![p] = [outcome |-> outcome, left |-> <<"model", "mapping">>]]
    /\ publications' = publications + 1
    /\ UNCHANGED <<files, runtime, undisturbed>>

FileContent(outcome, name) ==
    IF outcome = CashOutcome THEN CashOnly(name)
    ELSE IF name = "model" THEN Envelope("regime_model", outcome.model)
         ELSE Envelope("strategy_mapping", outcome.mapping)

(* _atomic_write of the next destination: a rename over the old file *)
WriteNext(p) ==
    /\ publisher[p].left # <<>>
    /\ files' = [files EXCEPT ![Head(publisher[p].left)] =
                    FileContent(publisher[p].outcome, Head(publisher[p].left))]
    /\ publisher' = [publisher EXCEPT ![p] =
                    IF Len(@.left) = 1 THEN Done
                    ELSE [outcome |-> @.outcome, left |-> Tail(@.left)]]
    /\ undisturbed' = FALSE
    /\ UNCHANGED <<publications, runtime>>

(* The experiment ends between two renames. *)
PublisherCrash(p) ==
    /\ publisher[p].left # <<>>
    /\ publisher' = [publisher EXCEPT ![p] = Done]
    /\ UNCHANGED <<files, publications, runtime, undisturbed>>

(* The storage loses or changes a file. *)
Damage(name) ==
    /\ files[name].format = "json" /\ files[name].payload = files[name].hash
    /\ \E damaged \in {Truncated(files[name]), Altered(files[name])} :
         files' = [files EXCEPT ![name] = damaged]
    /\ undisturbed' = FALSE
    /\ UNCHANGED <<publisher, publications, runtime>>

-----------------------------------------------------------------------------
(* Composition *)

Refuse == runtime' = [state |-> "refused", settings |-> runtime.settings]

(* LocalRuntime.__init__ with regime selection enabled: both paths must    *)
(* name existing files before the first is read.                           *)
CreateRuntime ==
    /\ runtime.state \in {"none", "composed", "refused"}
    /\ \E settings \in RuntimeSettings :
         runtime' = [state |-> IF AbsentFile \in {files["model"], files["mapping"]}
                               THEN "refused" ELSE "model",
                     settings |-> settings]
    /\ undisturbed' = TRUE
    /\ UNCHANGED <<files, publisher, publications>>

(* load_model_file *)
ReadModel ==
    /\ runtime.state = "model"
    /\ LET file == files[runtime.settings.modelPath]
       IN  IF /\ Readable(file, "regime_model")
              /\ ModelIsValid(file.payload)
              /\ file.payload.symbol = runtime.settings.symbol
              /\ file.payload.schema = runtime.settings.schema
           THEN runtime' = [state |-> "mapping", settings |-> runtime.settings,
                            model |-> file.payload]
           ELSE Refuse
    /\ UNCHANGED <<files, publisher, publications, undisturbed>>

(* load_mapping_file up to its linked model: the compatibility hashes of   *)
(* the settings and the hashes of the model read before.                   *)
MappingIsExpected(mapping) ==
    /\ MappingIsValid(mapping)
    /\ mapping.definition = runtime.settings.definition
    /\ mapping.universe = runtime.settings.universe
    /\ mapping.provenance = runtime.settings.provenance
    /\ mapping.modelHash = ModelArtifactHash(runtime.model)
    /\ mapping.fingerprintHash = ModelFingerprintHash(runtime.model)

ReadMapping ==
    /\ runtime.state = "mapping"
    /\ LET file == files[runtime.settings.mappingPath]
       IN  IF Readable(file, "strategy_mapping") /\ MappingIsExpected(file.payload)
           THEN runtime' = [state |-> "link", settings |-> runtime.settings,
                            model |-> runtime.model, mapping |-> file.payload]
           ELSE Refuse
    /\ UNCHANGED <<files, publisher, publications, undisturbed>>

(* SelectionArtifactSnapshot.from_mapping_artifact *)
SnapshotOf(mapping) ==
    [modelHash |-> mapping.modelHash, mappingHash |-> mapping,
     strategies |-> {<<mapping.clusters[i], mapping.decisions[i]>> :
                        i \in DOMAIN mapping.clusters},
     policy |-> mapping.policy]

(* _validate_model_link against the file, read a second time, then         *)
(* validate_model_mapping_artifact_pair on what was loaded.                *)
ReadLinkedModel ==
    /\ runtime.state = "link"
    /\ LET file == files[runtime.settings.modelPath]
       IN  IF /\ Readable(file, "regime_model")
              /\ LinkIsValid(runtime.mapping, file.payload)
              /\ LoadedPairIsValid(runtime.model, runtime.mapping)
           THEN runtime' = [state |-> "composed", settings |-> runtime.settings,
                            model |-> runtime.model, mapping |-> runtime.mapping,
                            snapshot |-> SnapshotOf(runtime.mapping)]
           ELSE Refuse
    /\ UNCHANGED <<files, publisher, publications, undisturbed>>

ArtifactsNext ==
    \/ \E p \in Publishers : Freeze(p) \/ WriteNext(p) \/ PublisherCrash(p)
    \/ \E name \in DOMAIN files : Damage(name)
    \/ CreateRuntime \/ ReadModel \/ ReadMapping \/ ReadLinkedModel

ArtifactsSpec == ArtifactsInit /\ [][ArtifactsNext]_artifactVars

-----------------------------------------------------------------------------
Fits(outcome, settings) ==
    /\ outcome # CashOutcome
    /\ settings.modelPath = "model" /\ settings.mappingPath = "mapping"
    /\ outcome.model.symbol = settings.symbol
    /\ outcome.model.schema = settings.schema
    /\ outcome.mapping.definition = settings.definition
    /\ outcome.mapping.universe = settings.universe
    /\ outcome.mapping.provenance = settings.provenance

(* Whatever the order in which files are replaced, lost or damaged while a *)
(* runtime is created: a runtime that was composed runs model and mapping  *)
(* of one result that was frozen for its settings, and its snapshot binds  *)
(* both; and a runtime is refused only if a file changed under it or the   *)
(* files are not such a result, so that a sound publication can be used.   *)
CompositionIsSound ==
    /\ runtime.state = "composed" =>
         \E outcome \in FrozenOutcomes :
            /\ Fits(outcome, runtime.settings)
            /\ runtime.model = outcome.model /\ runtime.mapping = outcome.mapping
            /\ \A i \in DOMAIN outcome.mapping.clusters :
                 <<ArtifactHashes(outcome.model)[i], outcome.mapping.decisions[i]>>
                    \in runtime.snapshot.strategies
    /\ runtime.state = "refused" /\ undisturbed =>
         ~\E outcome \in FrozenOutcomes :
            /\ Fits(outcome, runtime.settings)
            /\ \A name \in DOMAIN files : files[name] = FileContent(outcome, name)
=============================================================================

----------------------------- MODULE MappingAudit ---------------------------
(***************************************************************************)
(* The independent audit of a published three-day experiment               *)
(* (audit_three_day_k4_daily_mapping).  A publication is a report, a model *)
(* file, a mapping file and a Markdown rendering, beside the evidence      *)
(* ledger of the run.  A step of the experiment may be wrong, with all     *)
(* later steps consistent with it; between publishing and auditing any     *)
(* part may be altered, or overwritten by what another run left, with or   *)
(* without the hashes being computed again; the archives and the code may  *)
(* change too.  The audit refits, replays and rebuilds everything from the *)
(* archives and compares.  The artifacts carry their production versions;  *)
(* of others the audit checks the hashes only.                             *)
(***************************************************************************)
EXTENDS Integers, Sequences, FiniteSets

CONSTANTS
    Archives,       \* contents the raw archives and feature caches may have
    Codes,          \* versions of the research code
    GateFailing,    \* archives on which the model misses a gate
    Unfittable,     \* archives on which the fit raises
    MaxChanges      \* bound: faults and changes

ASSUME AuditAssumption ==
    /\ GateFailing \union Unfittable \subseteq Archives
    /\ GateFailing \intersect Unfittable = {}

VARIABLES
    archives, code,     \* what is on disk now
    published,          \* content of every part of the publication
    sealed,             \* content every hash was computed of
    changes,            \* faults and changes so far
    seen,               \* the four files as the audit read them
    verdict             \* unread, reading, passed or failed

auditVars == <<archives, code, published, sealed, changes, seen, verdict>>

-----------------------------------------------------------------------------
(* What an experiment derives. A content is what it is derived from, and   *)
(* whether it was altered since.                                           *)

Content(kind, from) == [kind |-> kind, from |-> from, altered |-> FALSE]
Nothing == Content("nothing", <<>>)

(* _failed_three_day_k4_model_attempt with the gates that were missed, or  *)
(* _technical_three_day_k4_model_attempt with the reason the fit raised    *)
FailedAttempt(a, c) ==
    Content(IF a \in GateFailing THEN "failed-model-gates" ELSE "technical_failure", <<a, c>>)

(* fit_fold_local_three_day_k4_model *)
Fitted(a, c) ==
    IF a \in GateFailing \union Unfittable THEN FailedAttempt(a, c)
    ELSE Content("artifact", <<a, c>>)
HasModel(model) == model.kind = "artifact"

Manifest(c) == Content("manifest", <<c>>)
Assigned(model, a) == Content("labels", <<model, a>>)
Replayed(labels, manifest, a) == Content("rows", <<labels, manifest, a>>)
Built(model, manifest, rows) == Content("mapping", <<model, manifest, rows>>)
Sentinel(attempt) == Content("cash", <<attempt>>)
BaselineOf(manifest, rows) == Content("baseline", <<manifest, rows>>)
Tested(model, mapping, baseline, a) ==
    Content("comparisons", <<model, mapping, baseline, a>>)
Stage(model) ==
    CASE model.kind = "failed-model-gates" -> "model_gate_failed"
      [] model.kind = "technical_failure"  -> "model_technical_failure"
      [] OTHER                             -> "completed"

(* What a finished experiment publishes: the parts of its report, the      *)
(* three files beside it and its ledger. fault is the step that is wrong.  *)
Files == {"fileModel", "fileMapping", "markdown"}
Steps == {"model", "manifest", "labels", "rows", "mapping", "baseline", "comparisons"}
ReportParts == Steps \union {"stage", "sources"}
Parts == ReportParts \union Files \union {"ledger"}

Publication(a, c, fault) ==
    LET step(p, content) == [content EXCEPT !.altered = (fault = p)]
        model == step("model", Fitted(a, c))
        manifest == step("manifest", Manifest(c))
        labels == step("labels", Assigned(model, a))
        rows == step("rows", Replayed(labels, manifest, a))
        mapping == step("mapping", IF HasModel(model) THEN Built(model, manifest, rows)
                                                      ELSE Sentinel(model))
        baseline == step("baseline", BaselineOf(manifest, rows))
        comparisons == step("comparisons", Tested(model, mapping, baseline, a))
        ifModel(content) == IF HasModel(model) THEN content ELSE Nothing
    IN  [stage |-> Content(Stage(model), <<>>), sources |-> Content("sources", <<a>>),
         model |-> model, fileModel |-> model,
         manifest |-> ifModel(manifest), labels |-> ifModel(labels),
         rows |-> ifModel(rows), ledger |-> ifModel(rows),
         mapping |-> mapping, fileMapping |-> mapping,
         baseline |-> ifModel(baseline), comparisons |-> ifModel(comparisons),
         markdown |-> Content("markdown", <<model, mapping>>)]

NamesFailure(stage) == stage.kind \in {"model_gate_failed", "model_technical_failure"}

(* The hashes of a publication, by the parts they are computed of: inside  *)
(* the artifacts, in the evidence bundle, the freeze before the test, and  *)
(* the publication record of the report.                                   *)
Hashed ==
    [artifact |-> {"fileModel"}, mapping |-> {"fileMapping"},
     evidence |-> {"labels", "rows"}, ledger |-> {"ledger"},
     freeze |-> {"model", "manifest", "labels", "rows", "mapping", "baseline"},
     payload |-> ReportParts, bytes |-> Files]

Restricted(f, S) == [x \in S |-> f[x]]
Sealed(parts) == [h \in DOMAIN Hashed |-> Restricted(parts, Hashed[h])]

AuditInit ==
    /\ archives \in Archives /\ code \in Codes
    /\ \E fault \in Steps \union {"none"} :
         /\ published = Publication(archives, code, fault)
         /\ changes = IF fault = "none" THEN 0 ELSE 1
    /\ sealed = Sealed(published)
    /\ seen = <<>>
    /\ verdict = "unread"

-----------------------------------------------------------------------------
(* What may happen to a publication and to what it was derived from *)

Change(p, content) ==
    /\ verdict \in {"unread", "reading"}
    /\ changes < MaxChanges
    /\ content # published[p]
    /\ published' = [published EXCEPT ![p] = content]
    /\ changes' = changes + 1
    /\ UNCHANGED <<archives, code, sealed, seen, verdict>>

Alter(p) == Change(p, [published[p] EXCEPT !.altered = TRUE])
Overwrite(p, a, c) == Change(p, Publication(a, c, "none")[p])

Rehash(h) ==
    /\ verdict = "unread"
    /\ sealed' = [sealed EXCEPT ![h] = Restricted(published, Hashed[h])]
    /\ sealed' # sealed
    /\ UNCHANGED <<archives, code, published, changes, seen, verdict>>

Update(a, c) ==
    /\ verdict \in {"unread", "reading"}
    /\ <<a, c>> # <<archives, code>>
    /\ changes < MaxChanges
    /\ archives' = a /\ code' = c
    /\ changes' = changes + 1
    /\ UNCHANGED <<published, sealed, seen, verdict>>

-----------------------------------------------------------------------------
(* The audit *)

HashHolds(h) == sealed[h] = Restricted(seen, Hashed[h])

(* Variant: the parsed model is taken for the refitted one. *)
ParsedModel == seen.fileModel

(* _independently_recompute_k4: the fit and its gates, written again *)
Recomputed(a, c) ==
    Content(CASE a \in GateFailing -> "failed-model-gates"
              [] a \in Unfittable  -> "technical_failure"
              [] OTHER             -> "artifact", <<a, c>>)

(* _reconstruct_cluster_fit, from the archives of now *)
Refitted == Recomputed(archives, code)

(* The model the audit goes on with: the refitted one, or, if the refit    *)
(* fails its gates, the published one.                                     *)
AuditedModel == IF HasModel(Refitted) THEN Refitted ELSE seen.fileModel

(* _audit_raw_inputs: the descriptors inside the model match the archives  *)
(* on disk and those the report names.                                     *)
RawInputsHold ==
    /\ seen.fileModel.from # <<>> /\ seen.fileModel.from[1] = archives
    /\ seen.sources = Content("sources", <<archives>>)

(* _audit_model and the refit *)
ModelHolds ==
    /\ seen.fileModel = seen.model
    /\ HashHolds("artifact")
    /\ HasModel(Refitted) /\ seen.fileModel = Refitted

(* _audit_manifest *)
ManifestHolds == seen.manifest = Manifest(code)

(* _audit_evidence *)
EvidenceHolds ==
    /\ HashHolds("evidence")
    /\ seen.labels = Assigned(AuditedModel, archives)

(* _replay_phase_from_raw, _compare_phase_reconstruction: the ledger is    *)
(* read when the phase is replayed.                                        *)
ReplayedRows == Replayed(Assigned(AuditedModel, archives), Manifest(code), archives)
ReplayHolds ==
    /\ sealed.ledger.ledger = published.ledger
    /\ published.ledger = ReplayedRows
    /\ seen.rows = ReplayedRows

(* _audit_mapping: rebuilt with the identity the model file states, the    *)
(* manifest of the report and the replayed rows                            *)
RebuiltMapping == Built(seen.fileModel, seen.manifest, ReplayedRows)
MappingHolds ==
    /\ seen.fileMapping = seen.mapping
    /\ HashHolds("mapping")
    /\ seen.fileMapping = RebuiltMapping

(* _audit_freeze *)
FreezeHolds == HashHolds("freeze")

(* _audit_test_and_baselines *)
BaselineHolds == seen.baseline = BaselineOf(seen.manifest, ReplayedRows)

(* _replay_untouched_test, with the baseline the report names *)
ComparisonsHold ==
    seen.comparisons = Tested(AuditedModel, RebuiltMapping, seen.baseline, archives)

(* Publication record of the report *)
BindingHolds == HashHolds("payload") /\ HashHolds("bytes")

(* _exact_failed_attempt_schema: the failure has the shape of the stage *)
AttemptIsExact(attempt) ==
    /\ attempt.kind \in {"failed-model-gates", "technical_failure"}
    /\ seen.stage = Content(Stage(attempt), <<>>)

(* _reconstruct_failed_model_attempt *)
AttemptIsRefitted(attempt) == Refitted = attempt

(* _failed_markdown_bytes *)
FailedMarkdown(attempt, sentinel) == Content("markdown", <<attempt, sentinel>>)

(* _audit_failed_model_terminal: the sentinel, the report and the Markdown *)
(* follow from the attempt, and nothing of the later stages exists.        *)
FailedTerminalHolds ==
    LET attempt == seen.fileModel
    IN  /\ AttemptIsExact(attempt)
        /\ HashHolds("artifact") /\ seen.model = attempt
        /\ \A p \in Steps \ {"model", "mapping"} : seen[p] = Nothing
        /\ HashHolds("mapping")
        /\ seen.fileMapping = seen.mapping /\ seen.fileMapping = Sentinel(attempt)
        /\ RawInputsHold
        /\ AttemptIsRefitted(attempt)
        /\ published.ledger = Nothing
        /\ BindingHolds
        /\ seen.markdown = FailedMarkdown(attempt, seen.fileMapping)

CompletedHolds ==
    /\ ModelHolds /\ RawInputsHold /\ ManifestHolds /\ EvidenceHolds /\ ReplayHolds
    /\ MappingHolds /\ FreezeHolds /\ BaselineHolds /\ ComparisonsHold /\ BindingHolds

(* The four files are read once, at the start. *)
ReadInputs ==
    /\ verdict = "unread"
    /\ seen' = Restricted(published, Parts \ {"ledger"})
    /\ verdict' = "reading"
    /\ UNCHANGED <<archives, code, published, sealed, changes>>

(* The stage the report names decides how it is audited. *)
Judge ==
    /\ verdict = "reading"
    /\ LET holds == IF NamesFailure(seen.stage) THEN FailedTerminalHolds ELSE CompletedHolds
       IN  verdict' = IF holds THEN "passed" ELSE "failed"
    /\ UNCHANGED <<archives, code, published, sealed, changes, seen>>

AuditNext ==
    \/ \E p \in Parts : Alter(p)
    \/ \E p \in Parts, a \in Archives, c \in Codes : Overwrite(p, a, c)
    \/ \E h \in DOMAIN Hashed : Rehash(h)
    \/ \E a \in Archives, c \in Codes : Update(a, c)
    \/ ReadInputs
    \/ Judge

AuditSpec == AuditInit /\ [][AuditNext]_auditVars

-----------------------------------------------------------------------------
(* Properties *)

(* The publication the audit judged is what the experiment would publish   *)
(* from the archives and the code of now, and its hashes are those of its  *)
(* contents. Of a completed experiment the Markdown, and the stage beyond  *)
(* its being none of a failed model, are only bound by their hashes.       *)
IsGenuine ==
    LET expected == Publication(archives, code, "none")
        judged == [p \in Parts |-> IF p = "ledger" THEN published[p] ELSE seen[p]]
        completed == HasModel(expected.model)
        only(p) == \/ p = "markdown"
                   \/ p = "stage" /\ ~NamesFailure(seen.stage)
    IN  /\ \A p \in Parts : judged[p] = expected[p] \/ (completed /\ only(p))
        /\ \A h \in DOMAIN Hashed : completed \/ h \notin {"ledger", "evidence", "freeze"} =>
             \A p \in Hashed[h] : sealed[h][p] = judged[p]

(* The audit is exact: it passes a publication if and only if refitting,   *)
(* replaying and rebuilding from the archives gives that publication.      *)
(* A wrong step is noticed although everything later agrees with it; so is *)
(* whatever was altered or mixed with another run's files, however many of *)
(* the hashes were computed again; and a publication that is right is not  *)
(* refused.                                                                *)
AuditIsExact ==
    /\ verdict = "passed" => IsGenuine
    /\ verdict = "failed" => ~IsGenuine
=============================================================================

------------------------------- MODULE ModelStore -------------------------------
(***************************************************************************)
(* The model files on the volume that trainers, the promotion task and the   *)
(* scoring processes share.  A model is several files; a scoring process      *)
(* loads them one by one, afresh for every transaction (or client), while a   *)
(* trainer replaces them one by one.                                         *)
(*                                                                         *)
(* A training is named by a generation; a generation is reused once nothing   *)
(* holds it, so that the trainings of a behaviour are not bounded.  Joblib's   *)
(* dump to a temporary file is not a step: nobody but its writer reads it.    *)
(* The beat runs a task rarely (daily, weekly), so one run of a kind is in    *)
(* progress at a time.  The families of files have nothing in common: a       *)
(* behaviour is about one of them.                                           *)
(***************************************************************************)
EXTENDS Naturals, Sequences, FiniteSets

CONSTANTS
    Workers,        \* processes that score
    Gens,           \* names of trainings
    MaxCrashes,     \* bound: jobs that are killed
    MaxToggles,     \* bound: changes of AML_GRAPH_ENABLED
    None

VARIABLES
    family,         \* the family of files of this behaviour
    disk,           \* file -> its content
    job,            \* the training and the promotion that are running
    worker,         \* what each scoring process has loaded
    graphOn,        \* settings.graph_enabled
    vetted,         \* the generations that passed the validation gate
    crashes,
    toggles

vars == <<family, disk, job, worker, graphOn, vetted, crashes, toggles>>

Family == {"anomaly", "fraud", "cluster"}
File == {"model", "scaler", "norm", "shadow", "shadow_scaler"}
Width == {"base", "graph"}

\* A file that is still being written, or never will be completed.
Torn == [gen |-> None, width |-> "base", form |-> "torn"]

\* "dict" is what the loaders expect, "bare" an estimator without its wrapping.
Form == {"dict", "bare"}
Content == [gen : Gens, width : Width, form : Form] \cup {Torn}

Job == [gen : Gens, width : Width, at : Nat \ {0}]
Promotion == [gen : Gens, width : Width, at : Nat, linked : BOOLEAN]

Worker ==
    [at : {"idle", "scored", "mismatch", "failed"} \cup File, width : Width,
     model : Content \cup {None}, scaler : Content \cup {None}]

ASSUME ModelAssumption ==
    /\ None \notin Gens \cup Content \cup Job \cup Promotion
    /\ MaxCrashes \in Nat /\ MaxToggles \in Nat

Resting == [at |-> "idle", width |-> "base", model |-> None, scaler |-> None]

TypeOK ==
    /\ family \in Family
    /\ disk \in [File -> Content \cup {None}]
    /\ job \in [train : Job \cup {None}, promote : Promotion \cup {None}]
    /\ worker \in [Workers -> Worker]
    /\ \A w \in Workers : worker[w].at \notin {"idle", "failed"} => worker[w].model # None
    /\ graphOn \in BOOLEAN
    /\ vetted \subseteq Gens
    /\ crashes \in 0 .. MaxCrashes /\ toggles \in 0 .. MaxToggles

Init ==
    /\ family \in Family
    /\ disk = [f \in File |-> None]
    /\ job = [train |-> None, promote |-> None]
    /\ worker = [w \in Workers |-> Resting]
    /\ graphOn = FALSE
    /\ vetted = {}
    /\ crashes = 0 /\ toggles = 0

InputWidth == IF graphOn THEN "graph" ELSE "base"

\* The generations that a file, a job or a worker still holds.
Held ==
    {disk[f].gen : f \in {f \in File : disk[f] # None}}
    \cup {j.gen : j \in {job.train, job.promote} \ {None}}
    \cup {worker[w].model.gen : w \in {w \in Workers : worker[w].model # None}}
    \cup {worker[w].scaler.gen : w \in {w \in Workers : worker[w].scaler # None}}

-----------------------------------------------------------------------------
(* Training                                                                  *)

Replace(f) == [op |-> "replace", file |-> f]
Open(f) == [op |-> "open", file |-> f]
Fill(f) == [op |-> "fill", file |-> f]

\* Mutant: the dumps go to the files that the workers load.
AnomalySaveInPlace ==
    <<Open("model"), Fill("model"), Open("scaler"), Fill("scaler"), Open("norm"), Fill("norm")>>

\* AnomalyDetector._save renames three complete files over the old ones.
AnomalySave == <<Replace("model"), Replace("scaler"), Replace("norm")>>

\* FraudClassifier._save, then the copy for the shadow slot.
FraudSave == <<Replace("model"), Replace("shadow"), Replace("shadow_scaler")>>

\* Mutant: the scaler is left as it was fitted first.
ClusterSaveNoScaler == <<Open("model"), Fill("model")>>

\* CreditClusterModel._save dumps straight to the files.
ClusterSave == <<Open("model"), Fill("model"), Open("scaler"), Fill("scaler")>>

SaveSteps ==
    CASE family = "anomaly" -> AnomalySave
      [] family = "fraud" -> FraudSave
      [] family = "cluster" -> ClusterSave

\* A name that nothing holds any more: the names are told apart, never ordered.
NewGen == CHOOSE g \in Gens : g \notin Held

\* Mutant: a model that fails the gate is saved all the same.
TrainUngated(passes) ==
    /\ job.train = None /\ ~(Gens \subseteq Held)
    /\ family = "fraud" \/ passes
    /\ vetted' = IF passes THEN (vetted \cap Held) \cup {NewGen} ELSE vetted \cap Held
    /\ job' = [job EXCEPT !.train = [gen |-> NewGen, width |-> InputWidth, at |-> 1]]
    /\ UNCHANGED <<family, disk, worker, graphOn, crashes, toggles>>

\* A fraud classifier whose AUC on the later 30 % is below 0.80 or undefined is
\* dropped before anything is saved; the other trainers have no gate.
Train(passes) ==
    /\ job.train = None /\ ~(Gens \subseteq Held)
    /\ family = "fraud" \/ passes
    /\ vetted' = IF passes THEN (vetted \cap Held) \cup {NewGen} ELSE vetted \cap Held
    /\ job' = IF passes
              THEN [job EXCEPT !.train = [gen |-> NewGen, width |-> InputWidth, at |-> 1]]
              ELSE job
    /\ UNCHANGED <<family, disk, worker, graphOn, crashes, toggles>>

\* What a trainer's finished file holds: the classifier and the cluster model
\* are wrapped with their version or mapping, the shadow is the estimator itself.
Trained(f) ==
    [gen |-> job.train.gen, width |-> job.train.width,
     form |-> IF f \in {"shadow", "shadow_scaler"} THEN "bare" ELSE "dict"]

\* A rename over the file that a promotion is writing leaves the promotion's
\* bytes in a file that has no name any more.
Unlink(f) ==
    IF job.promote # None /\ f = "model" THEN [job.promote EXCEPT !.linked = FALSE] ELSE job.promote

Save ==
    /\ job.train # None /\ job.train.at <= Len(SaveSteps)
    /\ LET s == SaveSteps[job.train.at] IN
       /\ disk' = [disk EXCEPT ![s.file] = IF s.op = "open" THEN Torn ELSE Trained(s.file)]
       /\ job' = [train |-> [job.train EXCEPT !.at = @ + 1],
                  promote |-> IF s.op = "replace" THEN Unlink(s.file) ELSE job.promote]
    /\ UNCHANGED <<family, worker, graphOn, vetted, crashes, toggles>>

TrainDone ==
    /\ job.train # None /\ job.train.at > Len(SaveSteps)
    /\ job' = [job EXCEPT !.train = None]
    /\ UNCHANGED <<family, disk, worker, graphOn, vetted, crashes, toggles>>

-----------------------------------------------------------------------------
(* promote_shadow_model                                                      *)

\* shadow.is_ready, then shutil.copy2 opens the classifier's file for writing.
PromoteOpen ==
    /\ family = "fraud" /\ job.promote = None
    /\ disk["shadow"] # None /\ disk["shadow_scaler"] # None
    /\ disk["shadow"].form # "torn" /\ disk["shadow_scaler"].form # "torn"
    /\ job' = [job EXCEPT !.promote =
                   [gen |-> disk["shadow"].gen, width |-> disk["shadow"].width,
                    at |-> 1, linked |-> TRUE]]
    /\ disk' = [disk EXCEPT !["model"] = Torn]
    /\ UNCHANGED <<family, worker, graphOn, vetted, crashes, toggles>>

PromoteFill ==
    /\ job.promote # None /\ job.promote.at = 1
    /\ disk' = IF job.promote.linked
               THEN [disk EXCEPT !["model"] = [gen |-> job.promote.gen,
                                               width |-> job.promote.width, form |-> "bare"]]
               ELSE disk
    /\ job' = [job EXCEPT !.promote.at = 2]
    /\ UNCHANGED <<family, worker, graphOn, vetted, crashes, toggles>>

\* The scaler's path is passed as its own destination: SameFileError, and the
\* task ends before it loads the classifier to confirm.
PromoteFails ==
    /\ job.promote # None /\ job.promote.at = 2
    /\ job' = [job EXCEPT !.promote = None]
    /\ UNCHANGED <<family, disk, worker, graphOn, vetted, crashes, toggles>>

-----------------------------------------------------------------------------
(* Loading and scoring                                                       *)

\* Mutant: the files are not looked for before they are loaded.
LoadModelUnchecked(w) ==
    /\ worker[w].at = "idle"
    /\ worker' = [worker EXCEPT ![w] =
           [at |-> "scaler", width |-> InputWidth, model |-> disk["model"], scaler |-> None]]
    /\ UNCHANGED <<family, disk, job, graphOn, vetted, crashes, toggles>>

\* A worker needs both files to exist (the classifier is one file), and reads
\* the model first.
LoadModel(w) ==
    /\ worker[w].at = "idle"
    /\ disk["model"] # None /\ (family = "fraud" \/ disk["scaler"] # None)
    /\ worker' = [worker EXCEPT ![w] =
           [at |-> CASE disk["model"].form = "torn" -> "failed"
                     [] family = "fraud" /\ disk["model"].form = "bare" -> "failed"
                     [] OTHER -> "scaler",
            width |-> InputWidth, model |-> disk["model"], scaler |-> None]]
    /\ UNCHANGED <<family, disk, job, graphOn, vetted, crashes, toggles>>

\* The classifier has no scaler of its own: what its guard looks at is the model.
LoadScaler(w) ==
    /\ worker[w].at = "scaler"
    /\ LET read == IF family = "fraud" THEN worker[w].model ELSE disk["scaler"] IN
       worker' = [worker EXCEPT ![w].scaler = read,
                                ![w].at = IF read.form = "torn" THEN "failed" ELSE "norm"]
    /\ UNCHANGED <<family, disk, job, graphOn, vetted, crashes, toggles>>

\* Mutant: no guard against a change of the feature vector's width.
PredictUnguarded(w) ==
    /\ worker[w].at = "norm"
    /\ worker' = [worker EXCEPT ![w].at =
                      IF family # "cluster" /\ worker[w].model.width # worker[w].width
                      THEN "failed" ELSE "scored"]
    /\ UNCHANGED <<family, disk, job, graphOn, vetted, crashes, toggles>>

\* The guard compares the input's width with the scaler's; the cluster model has
\* no guard, and its features do not depend on the graph setting.
Predict(w) ==
    /\ worker[w].at = "norm"
    /\ LET guarded == family # "cluster" /\ worker[w].scaler.width # worker[w].width
           fits == family = "cluster" \/ worker[w].model.width = worker[w].scaler.width
       IN  worker' = [worker EXCEPT ![w].at =
                          CASE guarded -> "mismatch" [] ~guarded /\ fits -> "scored" [] OTHER -> "failed"]
    /\ UNCHANGED <<family, disk, job, graphOn, vetted, crashes, toggles>>

\* The next transaction has a detector of its own.
Rest(w) ==
    /\ worker[w].at \in {"scored", "mismatch", "failed"}
    /\ worker' = [worker EXCEPT ![w] = Resting]
    /\ UNCHANGED <<family, disk, job, graphOn, vetted, crashes, toggles>>

-----------------------------------------------------------------------------
(* The environment                                                           *)

\* A worker process dies with the job it runs; the files stay as they are.
CrashTrain ==
    /\ crashes < MaxCrashes /\ job.train # None
    /\ job' = [job EXCEPT !.train = None]
    /\ crashes' = crashes + 1
    /\ UNCHANGED <<family, disk, worker, graphOn, vetted, toggles>>

CrashPromote ==
    /\ crashes < MaxCrashes /\ job.promote # None
    /\ job' = [job EXCEPT !.promote = None]
    /\ crashes' = crashes + 1
    /\ UNCHANGED <<family, disk, worker, graphOn, vetted, toggles>>

ToggleGraph ==
    /\ toggles < MaxToggles
    /\ graphOn' = ~graphOn
    /\ toggles' = toggles + 1
    /\ UNCHANGED <<family, disk, job, worker, vetted, crashes>>

Training == \E passes \in BOOLEAN : Train(passes)

Next ==
    \/ Training
    \/ Save
    \/ TrainDone
    \/ PromoteOpen
    \/ PromoteFill
    \/ PromoteFails
    \/ \E w \in Workers : LoadModel(w)
    \/ \E w \in Workers : LoadScaler(w)
    \/ \E w \in Workers : Predict(w)
    \/ \E w \in Workers : Rest(w)
    \/ CrashTrain
    \/ CrashPromote
    \/ ToggleGraph

Spec == Init /\ [][Next]_vars

\* The beat keeps starting the training, and a running task goes on.
FairSpec == Spec /\ WF_vars(Train(TRUE)) /\ WF_vars(Save) /\ WF_vars(TrainDone)

-----------------------------------------------------------------------------
(* Properties                                                                *)

\* A load of the anomaly detector never sees a file that is half written, whatever
\* job is killed and whenever (anomaly_detector.py:134, "to avoid read corruption").
DetectorFilesAreWhole ==
    \A w \in Workers :
        family = "anomaly" /\ worker[w].at = "failed" => worker[w].scaler # None

\* A vector of the wrong width reaches a model only if the load mixed two
\* trainings: the guard of predict covers every other change of the setting
\* (anomaly_detector.py:101-109, fraud_classifier.py:198-205).
WidthErrorNeedsMix ==
    \A w \in Workers :
        worker[w].at = "failed" /\ worker[w].scaler # None /\ worker[w].scaler.form # "torn"
            => worker[w].model.gen # worker[w].scaler.gen

\* Neither the classifier that scores nor the shadow that may be promoted over it
\* ever failed the validation gate (fraud_classifier.py:167-184, training.py:343-349).
ServingIsVetted ==
    family = "fraud" =>
        \A f \in {"model", "shadow"} :
            disk[f] # None /\ disk[f].form # "torn" => disk[f].gen \in vetted

\* The files of a family that has been saved, all whole and of one training.
Parts == IF family = "anomaly" THEN {"model", "scaler", "norm"} ELSE {"model", "scaler"}

Sound ==
    \A f \in Parts :
        disk[f] # None /\ disk[f].form # "torn" /\ disk[f].gen = disk["model"].gen

\* However a crash leaves the files of the detector or the cluster model, mixed or
\* torn, they are whole and of one training again after some later run of the
\* trainer (the daily and weekly schedules of celery_app.py:23-38).
DamageHeals == family # "fraud" => []<>Sound

\* promote_shadow.py:53 says "Reload production classifier to confirm it works after
\* promotion": the classifier's file can be loaded after it.
PromotedModelLoads ==
    \A w \in Workers :
        family = "fraud" /\ worker[w].at = "failed" => worker[w].model.form = "torn"

================================================================================

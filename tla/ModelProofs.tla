------------------------------ MODULE ModelProofs ------------------------------
(***************************************************************************)
(* Theorems about ModelStore, for all scoring processes, trainings, crashes   *)
(* and changes of the graph setting.                                         *)
(***************************************************************************)
EXTENDS ModelStore, TLAPS

\* What the anomaly detector's loads rest on: its files are replaced whole, a load that
\* got past the first file finds the second, and nobody promotes.
WholeInv ==
    /\ family = "anomaly" =>
          /\ job.promote = None
          /\ \A f \in File : disk[f] # None => disk[f].form = "dict"
    /\ \A w \in Workers :
          /\ worker[w].at = "scaler" /\ family # "fraud" => disk["scaler"] # None
          /\ worker[w].at = "scaler" => worker[w].model # None
          /\ worker[w].at = "norm" => worker[w].model # None /\ worker[w].scaler # None

\* What is on its way into a slot passed the gate too.
VettedInv ==
    family = "fraud" =>
        /\ \A f \in {"model", "shadow"} :
              disk[f] # None /\ disk[f].form # "torn" => disk[f].gen \in vetted
        /\ job.train # None => job.train.gen \in vetted
        /\ job.promote # None => job.promote.gen \in vetted

\* A saving names files, and the detector's are replaced whole.
LEMMA SaveStepsType ==
    ASSUME family \in Family, NEW i \in 1 .. Len(SaveSteps)
    PROVE  /\ SaveSteps[i].file \in File
           /\ family = "anomaly" => SaveSteps[i].op = "replace" /\ SaveSteps[i].file \in {"model", "scaler", "norm"}
<1>1. CASE family = "anomaly"
    BY <1>1 DEF SaveSteps, AnomalySave, Replace, File
<1>2. CASE family = "fraud"
    BY <1>2 DEF SaveSteps, FraudSave, Replace, File
<1>3. CASE family = "cluster"
    BY <1>3 DEF SaveSteps, ClusterSave, Open, Fill, File
<1> QED
    BY <1>1, <1>2, <1>3 DEF Family

\* A training's name is one that nothing bears.
LEMMA NewGenIsFree ==
    ASSUME ~(Gens \subseteq Held)
    PROVE  NewGen \in Gens /\ NewGen \notin Held
BY DEF NewGen

\* What is written to a file is a content.
LEMMA ContentTypes ==
    /\ Torn \in Content
    /\ \A x \in Content : x.form # "torn" => x.gen \in Gens /\ x.width \in Width
    /\ \A f \in File : job.train \in Job => Trained(f) \in Content
    /\ InputWidth \in Width
BY DEF Torn, Content, Width, Form, Trained, Job, InputWidth

-----------------------------------------------------------------------------
(* Type correctness                                                          *)

\* The initial state of the store is well typed.
LEMMA TypeStart == Init => TypeOK
<1> SUFFICES ASSUME Init PROVE TypeOK
    OBVIOUS
<1>1. Resting \in Worker /\ Resting.at = "idle"
    BY DEF Resting, Worker, Width
<1>2. worker \in [Workers -> Worker] /\ \A w \in Workers : worker[w].at = "idle"
    BY <1>1 DEF Init
<1>3. disk \in [File -> Content \cup {None}]
    BY DEF Init
<1>4. job \in [train : Job \cup {None}, promote : Promotion \cup {None}]
    BY DEF Init
<1>5. family \in Family /\ graphOn \in BOOLEAN /\ vetted \subseteq Gens
    BY DEF Init
<1>6. crashes \in 0 .. MaxCrashes /\ toggles \in 0 .. MaxToggles
    <2>1. crashes = 0 /\ toggles = 0
        BY DEF Init
    <2> QED
        BY <2>1, ModelAssumption
<1> QED
    BY <1>2, <1>3, <1>4, <1>5, <1>6 DEF TypeOK

\* Every step keeps the types.
LEMMA TypeStep == TypeOK /\ [Next]_vars => TypeOK'
<1> SUFFICES ASSUME TypeOK, [Next]_vars PROVE TypeOK'
    OBVIOUS
<1> USE ModelAssumption
<1>1. ASSUME NEW passes \in BOOLEAN, Train(passes) PROVE TypeOK'
    <2>1. NewGen \in Gens /\ InputWidth \in Width
        BY <1>1, NewGenIsFree, ContentTypes DEF Train
    <2>2. [gen |-> NewGen, width |-> InputWidth, at |-> 1] \in Job
        BY <2>1 DEF Job
    <2>3. job' \in [train : Job \cup {None}, promote : Promotion \cup {None}]
        BY <1>1, <2>2 DEF Train, TypeOK
    <2> QED
        BY <1>1, <2>1, <2>3 DEF Train, TypeOK
<1>2. ASSUME Save PROVE TypeOK'
    <2>1. job.train \in Job /\ job.train.at \in 1 .. Len(SaveSteps)
        BY <1>2 DEF Save, TypeOK, Job
    <2>2. SaveSteps[job.train.at].file \in File
        BY <2>1, SaveStepsType DEF TypeOK
    <2>3. disk' \in [File -> Content \cup {None}]
        BY <1>2, <2>1, <2>2, ContentTypes DEF Save, TypeOK
    <2>4. [job.train EXCEPT !.at = @ + 1] \in Job
        BY <2>1 DEF Job
    <2>5. \A f \in File : Unlink(f) \in Promotion \cup {None}
        BY DEF Unlink, TypeOK, Promotion
    <2>6. job' \in [train : Job \cup {None}, promote : Promotion \cup {None}]
        BY <1>2, <2>2, <2>4, <2>5 DEF Save, TypeOK
    <2> QED
        BY <1>2, <2>3, <2>6 DEF Save, TypeOK
<1>3. ASSUME TrainDone PROVE TypeOK'
    BY <1>3 DEF TrainDone, TypeOK
<1>4. ASSUME PromoteOpen PROVE TypeOK'
    <2>1. disk["shadow"] \in Content /\ disk["shadow"].form # "torn"
        BY <1>4 DEF PromoteOpen, TypeOK, File
    <2>2. [gen |-> disk["shadow"].gen, width |-> disk["shadow"].width,
           at |-> 1, linked |-> TRUE] \in Promotion
        BY <2>1, ContentTypes DEF Promotion
    <2>3. job' \in [train : Job \cup {None}, promote : Promotion \cup {None}]
        BY <1>4, <2>2 DEF PromoteOpen, TypeOK
    <2>4. disk' \in [File -> Content \cup {None}]
        BY <1>4, ContentTypes DEF PromoteOpen, TypeOK
    <2> QED
        BY <1>4, <2>3, <2>4 DEF PromoteOpen, TypeOK
<1>5. ASSUME PromoteFill PROVE TypeOK'
    <2>1. job.promote \in Promotion
        BY <1>5 DEF PromoteFill, TypeOK
    <2>2. [gen |-> job.promote.gen, width |-> job.promote.width, form |-> "bare"] \in Content
        BY <2>1 DEF Promotion, Content, Form
    <2>3. disk' \in [File -> Content \cup {None}]
        BY <1>5, <2>2 DEF PromoteFill, TypeOK
    <2>4. job' \in [train : Job \cup {None}, promote : Promotion \cup {None}]
        <3>1. [job.promote EXCEPT !.at = 2] \in Promotion
            BY <2>1 DEF Promotion
        <3>2. job' = [job EXCEPT !.promote = [job.promote EXCEPT !.at = 2]]
            BY <1>5 DEF PromoteFill, TypeOK
        <3> QED
            BY <3>1, <3>2 DEF TypeOK
    <2> QED
        BY <1>5, <2>3, <2>4 DEF PromoteFill, TypeOK
<1>6. ASSUME PromoteFails PROVE TypeOK'
    BY <1>6 DEF PromoteFails, TypeOK
<1>7. ASSUME NEW w \in Workers, LoadModel(w) PROVE TypeOK'
    <2>1. disk["model"] \in Content /\ InputWidth \in Width
        BY <1>7, ContentTypes DEF LoadModel, TypeOK, File
    <2>2. \A at \in {"failed", "scaler"} :
              [at |-> at, width |-> InputWidth, model |-> disk["model"], scaler |-> None] \in Worker
        BY <2>1 DEF Worker, File
    <2> QED
        BY <1>7, <2>1, <2>2 DEF LoadModel, TypeOK
<1>8. ASSUME NEW w \in Workers, LoadScaler(w) PROVE TypeOK'
    <2>1. disk["scaler"] \in Content \cup {None} /\ worker[w].model \in Content \cup {None}
        BY DEF TypeOK, File, Worker
    <2>2. \A at \in {"failed", "norm"}, x \in Content \cup {None} :
              [worker[w] EXCEPT !.scaler = x, !.at = at] \in Worker
        <3> TAKE at \in {"failed", "norm"}, x \in Content \cup {None}
        <3>1. worker[w] \in Worker /\ at \in {"idle", "scored", "mismatch", "failed"} \cup File
            BY DEF TypeOK, File
        <3> QED
            BY <3>1 DEF Worker
    <2>3. PICK x \in Content \cup {None}, at \in {"failed", "norm"} :
              worker' = [worker EXCEPT ![w] = [worker[w] EXCEPT !.scaler = x, !.at = at]]
        BY <1>8, <2>1 DEF LoadScaler, TypeOK
    <2>4. worker[w].model # None
        BY <1>8 DEF LoadScaler, TypeOK
    <2>5. worker'[w].model = worker[w].model
        BY <2>3 DEF TypeOK, Worker
    <2>6. worker' \in [Workers -> Worker]
        BY <2>2, <2>3 DEF TypeOK
    <2>7. \A v \in Workers : worker'[v].at \notin {"idle", "failed"} => worker'[v].model # None
        BY <2>3, <2>4, <2>5 DEF TypeOK
    <2> QED
        BY <1>8, <2>6, <2>7 DEF LoadScaler, TypeOK
<1>9. ASSUME NEW w \in Workers, Predict(w) PROVE TypeOK'
    <2>1. \A at \in {"mismatch", "scored", "failed"} : [worker[w] EXCEPT !.at = at] \in Worker
        BY DEF TypeOK, File, Worker
    <2>2. PICK at \in {"mismatch", "scored", "failed"} :
              worker' = [worker EXCEPT ![w] = [worker[w] EXCEPT !.at = at]]
        BY <1>9 DEF Predict, TypeOK
    <2>3. worker[w].model # None /\ worker'[w].model = worker[w].model
        BY <1>9, <2>2 DEF Predict, TypeOK, Worker
    <2> QED
        BY <1>9, <2>1, <2>2, <2>3 DEF Predict, TypeOK
<1>10. ASSUME NEW w \in Workers, Rest(w) PROVE TypeOK'
    <2>1. Resting \in Worker /\ Resting.at = "idle"
        BY DEF Resting, Worker, Width
    <2> QED
        BY <1>10, <2>1 DEF Rest, TypeOK
<1>11. CASE CrashTrain
    BY <1>11 DEF CrashTrain, TypeOK
<1>12. CASE CrashPromote
    BY <1>12 DEF CrashPromote, TypeOK
<1>13. CASE ToggleGraph
    BY <1>13 DEF ToggleGraph, TypeOK
<1>14. CASE UNCHANGED vars
    BY <1>14 DEF vars, TypeOK
<1> QED
    BY <1>1, <1>2, <1>3, <1>4, <1>5, <1>6, <1>7, <1>8, <1>9, <1>10, <1>11, <1>12, <1>13, <1>14
       DEF Next, Training

\* Every reachable state of the model store is well typed (the loaders of
\* anomaly_detector.py:146-158 look for both files before they load one).
THEOREM ModelTypeCorrect == Spec => []TypeOK
BY TypeStart, TypeStep, PTL DEF Spec

-----------------------------------------------------------------------------
(* The detector's files                                                      *)

\* Every step keeps the detector's files whole.
LEMMA WholeStep == TypeOK /\ WholeInv /\ [Next]_vars => WholeInv'
<1> SUFFICES ASSUME TypeOK, WholeInv, [Next]_vars PROVE WholeInv'
    OBVIOUS
<1> USE ModelAssumption
<1>1. ASSUME NEW passes \in BOOLEAN, Train(passes) PROVE WholeInv'
    BY <1>1 DEF Train, WholeInv, TypeOK
<1>2. ASSUME Save PROVE WholeInv'
    <2>1. job.train \in Job /\ job.train.at \in 1 .. Len(SaveSteps)
        BY <1>2 DEF Save, TypeOK, Job
    <2> DEFINE s == SaveSteps[job.train.at]
    <2>2. /\ s.file \in File
          /\ family = "anomaly" => s.op = "replace" /\ s.file \in {"model", "scaler", "norm"}
        BY <2>1, SaveStepsType DEF TypeOK
    <2>3. disk' = [disk EXCEPT ![s.file] = IF s.op = "open" THEN Torn ELSE Trained(s.file)]
        BY <1>2 DEF Save
    <2>4. Torn # None /\ Trained(s.file) # None
        BY <2>1, <2>2, ContentTypes
    <2>5. family = "anomaly" => Trained(s.file).form = "dict"
        BY <2>2 DEF Trained
    <2>6. \A f \in File : disk'[f] = None => disk[f] = None
        BY <2>2, <2>3, <2>4 DEF TypeOK
    <2>7. family = "anomaly" => \A f \in File : disk'[f] # None => disk'[f].form = "dict"
        BY <2>2, <2>3, <2>5 DEF WholeInv, TypeOK
    <2>8. job.promote = None => job'.promote = None
        BY <1>2 DEF Save, Unlink
    <2>9. UNCHANGED <<family, worker>> /\ "scaler" \in File
        BY <1>2 DEF Save, File
    <2> QED
        BY <2>6, <2>7, <2>8, <2>9 DEF WholeInv
<1>3. ASSUME TrainDone PROVE WholeInv'
    BY <1>3 DEF TrainDone, WholeInv, TypeOK
<1>4. ASSUME PromoteOpen PROVE WholeInv'
    <2>1. family = "fraud" /\ disk' = [disk EXCEPT !["model"] = Torn] /\ UNCHANGED <<family, worker>>
        BY <1>4 DEF PromoteOpen
    <2> QED
        BY <2>1 DEF WholeInv
<1>5. ASSUME PromoteFill PROVE WholeInv'
    <2>1. family # "anomaly" /\ UNCHANGED <<family, worker>>
        BY <1>5 DEF PromoteFill, WholeInv
    <2>2. disk'["scaler"] = disk["scaler"]
        BY <1>5 DEF PromoteFill, TypeOK, File
    <2> QED
        BY <2>1, <2>2 DEF WholeInv
<1>6. ASSUME PromoteFails PROVE WholeInv'
    BY <1>6 DEF PromoteFails, WholeInv, TypeOK
<1>7. ASSUME NEW w \in Workers, LoadModel(w) PROVE WholeInv'
    BY <1>7 DEF LoadModel, WholeInv, TypeOK
<1>8. ASSUME NEW w \in Workers, LoadScaler(w) PROVE WholeInv'
    <2>1. /\ worker[w].model # None
          /\ family # "fraud" => disk["scaler"] # None
        BY <1>8 DEF LoadScaler, WholeInv
    <2>2. /\ worker'[w].at # "scaler"
          /\ worker'[w].model # None /\ worker'[w].scaler # None
        BY <1>8, <2>1 DEF LoadScaler, TypeOK, Worker
    <2>3. \A v \in Workers \ {w} : worker'[v] = worker[v]
        BY <1>8 DEF LoadScaler, TypeOK
    <2>4. UNCHANGED <<family, disk, job>>
        BY <1>8 DEF LoadScaler
    <2> QED
        BY <2>2, <2>3, <2>4 DEF WholeInv
<1>9. ASSUME NEW w \in Workers, Predict(w) PROVE WholeInv'
    <2>1. worker'[w].at \in {"mismatch", "scored", "failed"}
        BY <1>9 DEF Predict, TypeOK, Worker
    <2>2. \A v \in Workers \ {w} : worker'[v] = worker[v]
        BY <1>9 DEF Predict, TypeOK
    <2>3. UNCHANGED <<family, disk, job>>
        BY <1>9 DEF Predict
    <2> QED
        BY <2>1, <2>2, <2>3 DEF WholeInv
<1>10. ASSUME NEW w \in Workers, Rest(w) PROVE WholeInv'
    BY <1>10 DEF Rest, Resting, WholeInv, TypeOK
<1>11. CASE CrashTrain
    BY <1>11 DEF CrashTrain, WholeInv, TypeOK
<1>12. CASE CrashPromote
    BY <1>12 DEF CrashPromote, WholeInv, TypeOK
<1>13. CASE ToggleGraph
    BY <1>13 DEF ToggleGraph, WholeInv
<1>14. CASE UNCHANGED vars
    BY <1>14 DEF vars, WholeInv
<1> QED
    BY <1>1, <1>2, <1>3, <1>4, <1>5, <1>6, <1>7, <1>8, <1>9, <1>10, <1>11, <1>12, <1>13, <1>14
       DEF Next, Training

\* What a load of the detector leaves: it fails with its scaler loaded, never before.
LoadedInv ==
    \A w \in Workers :
        family = "anomaly" /\ worker[w].at = "failed" => worker[w].scaler # None

\* Every step keeps what the scoring processes have loaded whole.
LEMMA LoadedStep == TypeOK /\ WholeInv /\ LoadedInv /\ [Next]_vars => LoadedInv'
<1> SUFFICES ASSUME TypeOK, WholeInv, LoadedInv, [Next]_vars PROVE LoadedInv'
    OBVIOUS
<1> USE ModelAssumption
<1>1. ASSUME UNCHANGED <<family, worker>> PROVE LoadedInv'
    BY <1>1 DEF LoadedInv
<1>2. ASSUME NEW w \in Workers, LoadModel(w) PROVE LoadedInv'
    <2>1. family = "anomaly" => disk["model"].form = "dict"
        BY <1>2 DEF LoadModel, WholeInv, File
    <2>2. family = "anomaly" => worker'[w].at # "failed"
        BY <1>2, <2>1 DEF LoadModel, TypeOK
    <2>3. \A v \in Workers \ {w} : worker'[v] = worker[v]
        BY <1>2 DEF LoadModel, TypeOK
    <2> QED
        BY <1>2, <2>2, <2>3 DEF LoadModel, LoadedInv
<1>3. ASSUME NEW w \in Workers, LoadScaler(w) PROVE LoadedInv'
    <2>1. family = "anomaly" => disk["scaler"] # None
        BY <1>3 DEF LoadScaler, WholeInv
    <2>2. family = "anomaly" => worker'[w].scaler # None
        BY <1>3, <2>1 DEF LoadScaler, TypeOK, Worker
    <2>3. \A v \in Workers \ {w} : worker'[v] = worker[v]
        BY <1>3 DEF LoadScaler, TypeOK
    <2> QED
        BY <1>3, <2>2, <2>3 DEF LoadScaler, LoadedInv
<1>4. ASSUME NEW w \in Workers, Predict(w) PROVE LoadedInv'
    <2>1. worker'[w].scaler # None
        BY <1>4 DEF Predict, WholeInv, TypeOK, Worker
    <2>2. \A v \in Workers \ {w} : worker'[v] = worker[v]
        BY <1>4 DEF Predict, TypeOK
    <2> QED
        BY <1>4, <2>1, <2>2 DEF Predict, LoadedInv
<1>5. ASSUME NEW w \in Workers, Rest(w) PROVE LoadedInv'
    BY <1>5 DEF Rest, Resting, LoadedInv, TypeOK
<1> QED
    BY <1>1, <1>2, <1>3, <1>4, <1>5 DEF Next, Training, Train, Save, TrainDone, PromoteOpen,
       PromoteFill, PromoteFails, CrashTrain, CrashPromote, ToggleGraph, vars

\* No load of the anomaly detector sees a file half written, whichever jobs are killed and
\* however many trainings and scorings overlap (anomaly_detector.py:130-158).
THEOREM DetectorFilesAreWholeAlways == Spec => []DetectorFilesAreWhole
<1>1. Init => WholeInv /\ LoadedInv
    BY DEF Init, WholeInv, LoadedInv, Resting
<1>2. LoadedInv => DetectorFilesAreWhole
    BY DEF LoadedInv, DetectorFilesAreWhole
<1> QED
    BY <1>1, <1>2, WholeStep, LoadedStep, ModelTypeCorrect, PTL DEF Spec

-----------------------------------------------------------------------------
(* The validation gate                                                       *)

\* Every step keeps what serves, and what is about to, vetted.
LEMMA VettedStep == TypeOK /\ VettedInv /\ [Next]_vars => VettedInv'
<1> SUFFICES ASSUME TypeOK, VettedInv, family = "fraud", [Next]_vars PROVE VettedInv'
    BY DEF VettedInv, Next, Training, Train, Save, TrainDone, PromoteOpen, PromoteFill,
       PromoteFails, LoadModel, LoadScaler, Predict, Rest, CrashTrain, CrashPromote,
       ToggleGraph, vars
<1> USE ModelAssumption
<1>1. ASSUME NEW passes \in BOOLEAN, Train(passes) PROVE VettedInv'
    <2>1. \A f \in File : disk[f] # None => disk[f].gen \in Held
        BY DEF Held
    <2>2. job.promote # None => job.promote.gen \in Held
        BY DEF Held
    <2>3. vetted \cap Held \subseteq vetted' /\ UNCHANGED <<disk, family>>
        BY <1>1 DEF Train
    <2>4. job'.promote = job.promote
        BY <1>1 DEF Train, TypeOK
    <2>5. job'.train # None => job'.train.gen \in vetted'
        BY <1>1 DEF Train, TypeOK
    <2> QED
        BY <2>1, <2>2, <2>3, <2>4, <2>5 DEF VettedInv, File
<1>2. ASSUME Save PROVE VettedInv'
    <2>1. job.train \in Job /\ job.train.at \in 1 .. Len(SaveSteps)
        BY <1>2 DEF Save, TypeOK, Job
    <2> DEFINE s == SaveSteps[job.train.at]
    <2>2. s.file \in File
        BY <2>1, SaveStepsType DEF TypeOK
    <2>3. disk' = [disk EXCEPT ![s.file] = IF s.op = "open" THEN Torn ELSE Trained(s.file)]
        BY <1>2 DEF Save
    <2>4. Torn.form = "torn" /\ Trained(s.file).gen = job.train.gen
        BY DEF Torn, Trained
    <2>5. job.train.gen \in vetted /\ vetted' = vetted /\ family' = family
        BY <1>2, <2>1 DEF Save, VettedInv
    <2>6. job'.train # None => job'.train.gen = job.train.gen
        BY <1>2, <2>1 DEF Save, Job
    <2>7. job'.promote # None => job.promote # None /\ job'.promote.gen = job.promote.gen
        BY <1>2 DEF Save, Unlink, TypeOK, Promotion
    <2>8. \A f \in File :
              disk'[f] = disk[f] \/ disk'[f].form = "torn" \/ disk'[f].gen = job.train.gen
        BY <2>2, <2>3, <2>4 DEF TypeOK
    <2> QED
        BY <2>5, <2>6, <2>7, <2>8 DEF VettedInv, File
<1>3. ASSUME TrainDone PROVE VettedInv'
    BY <1>3 DEF TrainDone, VettedInv, TypeOK
<1>4. ASSUME PromoteOpen PROVE VettedInv'
    <2>1. disk["shadow"].gen \in vetted /\ vetted' = vetted /\ family' = family
        BY <1>4 DEF PromoteOpen, VettedInv
    <2>2. job'.promote.gen = disk["shadow"].gen /\ job'.train = job.train
        BY <1>4 DEF PromoteOpen, TypeOK
    <2>3. \A f \in File : disk'[f] = disk[f] \/ disk'[f].form = "torn"
        BY <1>4 DEF PromoteOpen, TypeOK, Torn
    <2> QED
        BY <2>1, <2>2, <2>3 DEF VettedInv, File
<1>5. ASSUME PromoteFill PROVE VettedInv'
    <2>1. job.promote \in Promotion /\ job.promote.gen \in vetted
        BY <1>5 DEF PromoteFill, VettedInv, TypeOK
    <2>2. job'.promote.gen = job.promote.gen /\ job'.train = job.train
        BY <1>5, <2>1 DEF PromoteFill, TypeOK, Promotion
    <2>3. \A f \in File : disk'[f] = disk[f] \/ disk'[f].gen = job.promote.gen
        BY <1>5 DEF PromoteFill, TypeOK
    <2>4. vetted' = vetted /\ family' = family
        BY <1>5 DEF PromoteFill
    <2> QED
        BY <2>1, <2>2, <2>3, <2>4 DEF VettedInv, File
<1>6. ASSUME PromoteFails PROVE VettedInv'
    BY <1>6 DEF PromoteFails, VettedInv, TypeOK
<1>7. CASE CrashTrain
    BY <1>7 DEF CrashTrain, VettedInv, TypeOK
<1>8. CASE CrashPromote
    BY <1>8 DEF CrashPromote, VettedInv, TypeOK
<1>9. ASSUME UNCHANGED <<family, disk, job, vetted>> PROVE VettedInv'
    BY <1>9 DEF VettedInv
<1> QED
    BY <1>1, <1>2, <1>3, <1>4, <1>5, <1>6, <1>7, <1>8, <1>9
       DEF Next, Training, LoadModel, LoadScaler, Predict, Rest, ToggleGraph, vars

\* Neither the classifier that serves nor the shadow that may replace it ever failed the
\* gate (fraud_classifier.py:167-184, training.py:343-349, shadow_scorer.py:78-88).
THEOREM ServingIsVettedAlways == Spec => []ServingIsVetted
<1>1. Init => VettedInv
    BY DEF Init, VettedInv, File
<1>2. VettedInv => ServingIsVetted
    BY DEF VettedInv, ServingIsVetted
<1> QED
    BY <1>1, <1>2, VettedStep, ModelTypeCorrect, PTL DEF Spec

-----------------------------------------------------------------------------
(* The width of the detector's files                                         *)

\* A training of the name g and the width d is on disk, being saved or loaded.
Known(g, d) ==
    \/ \E f \in File : disk[f] # None /\ disk[f].gen = g /\ disk[f].width = d
    \/ job.train # None /\ job.train.gen = g /\ job.train.width = d
    \/ \E w \in Workers :
          \/ worker[w].model # None /\ worker[w].model.gen = g /\ worker[w].model.width = d
          \/ worker[w].scaler # None /\ worker[w].scaler.gen = g /\ worker[w].scaler.width = d

\* A name stands for one training, so for one width.
OneWidth == \A g \in Gens, c, d \in Width : Known(g, c) /\ Known(g, d) => c = d

\* The classifier's guard looks at the file that is used.
MixInv ==
    /\ family = "anomaly" => OneWidth
    /\ \A w \in Workers :
          family = "fraud" /\ worker[w].at = "norm" => worker[w].scaler = worker[w].model
    /\ WidthErrorNeedsMix

\* A step that brings no new pair of name and width leaves one width to a name.
LEMMA KnownStays ==
    ASSUME \A g \in Gens, d \in Width : Known(g, d)' => Known(g, d), OneWidth
    PROVE  OneWidth'
BY DEF OneWidth

\* A new training gives no second width to a name.
LEMMA TrainKnown ==
    ASSUME TypeOK, OneWidth, NEW passes \in BOOLEAN, Train(passes)
    PROVE  OneWidth'
<1> USE ModelAssumption
<1>1. \A g \in Gens, d \in Width : Known(g, d) => g \in Held
    BY DEF Known, Held
<1>2. NewGen \notin Held
    BY NewGenIsFree DEF Train
<1>3. /\ UNCHANGED <<disk, worker>>
      /\ \/ job'.train = job.train
         \/ job'.train # None /\ job'.train.gen = NewGen /\ job'.train.width = InputWidth
    <2>1. UNCHANGED <<disk, worker>>
        BY DEF Train
    <2>2. CASE passes
        BY <2>2 DEF Train, TypeOK
    <2>3. CASE ~passes
        BY <2>3 DEF Train
    <2> QED
        BY <2>1, <2>2, <2>3
<1>4. \A g \in Gens, d \in Width :
          Known(g, d)' => Known(g, d) \/ (g = NewGen /\ d = InputWidth)
    BY <1>3 DEF Known
<1> QED
    BY <1>1, <1>2, <1>4 DEF OneWidth

\* A step of a saving moves contents of one width.
LEMMA SaveKnown ==
    ASSUME TypeOK, OneWidth, family = "anomaly", Save
    PROVE  OneWidth'
<1> USE ModelAssumption
<1>1. job.train \in Job /\ job.train # None /\ job.train.at \in 1 .. Len(SaveSteps)
    BY DEF Save, TypeOK, Job
<1> DEFINE s == SaveSteps[job.train.at]
<1>2. s.file \in File /\ s.op = "replace"
    BY <1>1, SaveStepsType DEF TypeOK
<1>3. disk' = [disk EXCEPT ![s.file] = Trained(s.file)] /\ worker' = worker
    BY <1>2 DEF Save
<1>4. Trained(s.file).gen = job.train.gen /\ Trained(s.file).width = job.train.width
    BY DEF Trained
<1>5. job'.train # None => job'.train.gen = job.train.gen /\ job'.train.width = job.train.width
    BY <1>1 DEF Save, Job
<1>6. \A f \in File :
          disk'[f] = disk[f] \/ (disk'[f].gen = job.train.gen /\ disk'[f].width = job.train.width)
    BY <1>2, <1>3, <1>4 DEF TypeOK
<1>7. \A g \in Gens, d \in Width : Known(g, d)' => Known(g, d)
    BY <1>1, <1>3, <1>5, <1>6 DEF Known
<1> QED
    BY <1>7, KnownStays

\* A load copies what is on disk, width and all.
LEMMA LoadKnown ==
    ASSUME TypeOK, OneWidth, NEW w \in Workers, UNCHANGED <<disk, job>>,
           \A v \in Workers \ {w} : worker'[v] = worker[v],
           \A x \in {worker'[w].model, worker'[w].scaler} :
               x \in {None, worker[w].model, worker[w].scaler} \cup {disk[f] : f \in File}
    PROVE  OneWidth'
<1>1. \A g \in Gens, d \in Width : Known(g, d)' => Known(g, d)
    <2> SUFFICES ASSUME NEW g \in Gens, NEW d \in Width, Known(g, d)' PROVE Known(g, d)
        OBVIOUS
    <2>1. ASSUME NEW v \in Workers, NEW x \in {worker'[v].model, worker'[v].scaler},
                 x # None, x.gen = g, x.width = d
          PROVE  Known(g, d)
        <3>1. CASE v = w
            BY <2>1, <3>1 DEF Known
        <3>2. CASE v # w
            BY <2>1, <3>2 DEF Known
        <3> QED
            BY <3>1, <3>2
    <2> QED
        BY <2>1 DEF Known
<1> QED
    BY <1>1, KnownStays

\* Every step keeps one width to a name.
LEMMA MixStep == TypeOK /\ WholeInv /\ MixInv /\ [Next]_vars => MixInv'
<1> SUFFICES ASSUME TypeOK, WholeInv, MixInv, [Next]_vars PROVE MixInv'
    OBVIOUS
<1> USE ModelAssumption
<1>1. ASSUME UNCHANGED <<family, worker>>, family = "anomaly" => OneWidth' PROVE MixInv'
    BY <1>1 DEF MixInv, WidthErrorNeedsMix
<1>2. ASSUME NEW passes \in BOOLEAN, Train(passes) PROVE MixInv'
    BY <1>1, <1>2, TrainKnown DEF MixInv, Train
<1>3. ASSUME Save PROVE MixInv'
    BY <1>1, <1>3, SaveKnown DEF MixInv, Save
<1>4. ASSUME UNCHANGED <<family, disk, worker>>,
             job'.train \in {None, job.train}
      PROVE  MixInv'
    <2>1. \A g \in Gens, d \in Width : Known(g, d)' => Known(g, d)
        BY <1>4 DEF Known
    <2> QED
        BY <1>1, <1>4, <2>1, KnownStays DEF MixInv
<1>5. ASSUME PromoteOpen \/ PromoteFill PROVE MixInv'
    <2>1. family # "anomaly" /\ UNCHANGED <<family, worker>>
        BY <1>5 DEF PromoteOpen, PromoteFill, WholeInv
    <2> QED
        BY <1>1, <2>1
<1>6. ASSUME NEW w \in Workers, LoadModel(w) PROVE MixInv'
    <2>1. /\ worker'[w].at # "norm" /\ worker'[w].scaler = None
          /\ worker'[w].model = disk["model"] /\ "model" \in File
        BY <1>6 DEF LoadModel, TypeOK, File
    <2>2. \A v \in Workers \ {w} : worker'[v] = worker[v]
        BY <1>6 DEF LoadModel, TypeOK
    <2>3. UNCHANGED <<family, disk, job>>
        BY <1>6 DEF LoadModel
    <2>4. family = "anomaly" => OneWidth'
        BY <2>1, <2>2, <2>3, LoadKnown DEF MixInv
    <2> QED
        BY <2>1, <2>2, <2>3, <2>4 DEF MixInv, WidthErrorNeedsMix
<1>7. ASSUME NEW w \in Workers, LoadScaler(w) PROVE MixInv'
    <2>1. /\ worker'[w].model = worker[w].model /\ "scaler" \in File
          /\ worker'[w].scaler = IF family = "fraud" THEN worker[w].model ELSE disk["scaler"]
          /\ worker'[w].at = IF worker'[w].scaler.form = "torn" THEN "failed" ELSE "norm"
        BY <1>7 DEF LoadScaler, TypeOK, Worker, File
    <2>2. \A v \in Workers \ {w} : worker'[v] = worker[v]
        BY <1>7 DEF LoadScaler, TypeOK
    <2>3. UNCHANGED <<family, disk, job>>
        BY <1>7 DEF LoadScaler
    <2>4. family = "anomaly" => OneWidth'
        BY <2>1, <2>2, <2>3, LoadKnown DEF MixInv
    <2> QED
        BY <2>1, <2>2, <2>3, <2>4 DEF MixInv, WidthErrorNeedsMix
<1>8. ASSUME NEW w \in Workers, Predict(w) PROVE MixInv'
    <2>1. /\ worker'[w].model = worker[w].model /\ worker'[w].scaler = worker[w].scaler
          /\ worker'[w].at # "norm"
          /\ worker'[w].at = "failed" =>
                family # "cluster" /\ worker[w].model.width # worker[w].scaler.width
        BY <1>8 DEF Predict, TypeOK, Worker
    <2>2. \A v \in Workers \ {w} : worker'[v] = worker[v]
        BY <1>8 DEF Predict, TypeOK
    <2>3. UNCHANGED <<family, disk, job>>
        BY <1>8 DEF Predict
    <2>4. family = "anomaly" => OneWidth'
        BY <2>1, <2>2, <2>3, LoadKnown DEF MixInv
    <2>5. /\ worker[w].at = "norm" /\ worker[w].model # None /\ worker[w].scaler # None
          /\ worker[w].model \in Content /\ worker[w].scaler \in Content
        BY <1>8 DEF Predict, WholeInv, TypeOK, Worker
    <2>6. ASSUME worker'[w].at = "failed", worker[w].scaler.form # "torn",
                 worker[w].model.gen = worker[w].scaler.gen
          PROVE  FALSE
        <3>1. CASE family = "fraud"
            BY <2>1, <2>5, <2>6, <3>1 DEF MixInv
        <3>2. CASE family = "anomaly"
            <4>1. worker[w].scaler.gen \in Gens
                BY <2>5, <2>6, ContentTypes
            <4>2. worker[w].model.width \in Width /\ worker[w].scaler.width \in Width
                BY <2>5 DEF Content, Torn, Width
            <4>3. /\ Known(worker[w].scaler.gen, worker[w].model.width)
                  /\ Known(worker[w].scaler.gen, worker[w].scaler.width)
                BY <2>5, <2>6 DEF Known
            <4> QED
                BY <2>1, <2>6, <3>2, <4>1, <4>2, <4>3 DEF MixInv, OneWidth
        <3> QED
            BY <2>1, <2>6, <3>1, <3>2 DEF TypeOK, Family
    <2> QED
        BY <2>1, <2>2, <2>3, <2>4, <2>6 DEF MixInv, WidthErrorNeedsMix
<1>9. ASSUME NEW w \in Workers, Rest(w) PROVE MixInv'
    <2>1. worker'[w].at = "idle" /\ worker'[w].model = None /\ worker'[w].scaler = None
        BY <1>9 DEF Rest, Resting, TypeOK
    <2>2. \A v \in Workers \ {w} : worker'[v] = worker[v]
        BY <1>9 DEF Rest, TypeOK
    <2>3. UNCHANGED <<family, disk, job>>
        BY <1>9 DEF Rest
    <2>4. family = "anomaly" => OneWidth'
        BY <2>1, <2>2, <2>3, LoadKnown DEF MixInv
    <2> QED
        BY <2>1, <2>2, <2>3, <2>4 DEF MixInv, WidthErrorNeedsMix
<1>10. ASSUME TrainDone \/ PromoteFails \/ CrashTrain \/ CrashPromote \/ ToggleGraph
                  \/ UNCHANGED vars
       PROVE  MixInv'
    <2>1. UNCHANGED <<family, disk, worker>> /\ job'.train \in {None, job.train}
        BY <1>10 DEF TrainDone, PromoteFails, CrashTrain, CrashPromote, ToggleGraph, vars, TypeOK
    <2> QED
        BY <1>4, <2>1
<1> QED
    BY <1>2, <1>3, <1>5, <1>6, <1>7, <1>8, <1>9, <1>10 DEF Next, Training

\* A vector of the wrong width reaches a model only through a load that mixed two trainings,
\* however often the setting changes (anomaly_detector.py:101-109, fraud_classifier.py:198-205).
THEOREM WidthErrorNeedsMixAlways == Spec => []WidthErrorNeedsMix
<1>1. Init => WholeInv /\ MixInv
    BY DEF Init, WholeInv, MixInv, OneWidth, Known, WidthErrorNeedsMix, Resting
<1>2. MixInv => WidthErrorNeedsMix
    BY DEF MixInv
<1> QED
    BY <1>1, <1>2, WholeStep, MixStep, ModelTypeCorrect, PTL DEF Spec

================================================================================

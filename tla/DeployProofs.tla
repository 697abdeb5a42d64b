---------------------------- MODULE DeployProofs ----------------------------
(***************************************************************************)
(* Proofs about Deploy, for any number of runs, databases and secrets, and *)
(* any number of lost answers, untrue answers and removals.                *)
(***************************************************************************)
EXTENDS Deploy, TLAPS

USE DeployAssumption

-----------------------------------------------------------------------------
(* The invariant.                                                          *)

\* How far a run is: what it plans to do and still has to do.
Shape(e) ==
  /\ e.todo \subseteq e.plan
  /\ e.plan \cap Secret \subseteq e.want
  /\ e.verifying => e.todo = {}
  /\ ~e.verifying /\ e.at # "apply" => e.plan = {} /\ e.todo = {}
  /\ e.at = "publish" => e.verifying /\ e.command = "install"
  /\ e.at = "apply" =>
       /\ ~e.verifying
       /\ e.database # None \/ "create-d1" \in e.todo
       /\ "create-d1" \in e.todo /\ "deploy-worker" \in e.plan => "deploy-worker" \in e.todo

Bound(s) == worker # None /\ worker.secrets[s] # None

Planned(e) == e.verifying \/ e.at = "apply"

\* What a run still knows of the account if nobody disturbed it.
Observation(e) ==
  /\ e.at \in {"worker", "secrets"} => e.database = database
  /\ e.at = "secrets" => worker # None /\ e.exists

\* A secret it planned to set is unset, or set by this run.
OwnSecrets(r, e) ==
  \A s \in e.plan \cap Secret : worker # None => worker.secrets[s] \in {None, r}

\* What is not left to do is there, unless the API deceived it.
Progress(e) ==
  Planned(e) =>
    /\ "create-d1" \notin e.todo
       => database # None /\ (e.at = "apply" => e.database = database)
    /\ "deploy-worker" \notin e.todo => worker # None
    /\ \A s \in e.want \ e.todo : Bound(s)
    /\ "deploy-worker" \in e.plan \ e.todo => worker.binding = database

\* What it has to do is missing, or it is forced to do it.
Missing(e) ==
  /\ "create-d1" \in e.todo => database = None
  /\ "deploy-worker" \in e.todo /\ ~Forced(e) => worker = None
  /\ \A s \in e.todo \cap Secret : ~Bound(s)

\* What its verification saw is there.
Verified(e) ==
  e.at = "publish" => database # None /\ worker # None /\ \A s \in e.want : Bound(s)

Fresh(r, e) ==
  /\ Observation(e)
  /\ OwnSecrets(r, e)
  /\ Missing(e)
  /\ r \notin deceived => Progress(e)
  /\ Verified(e)

Shapes == \A r \in Run : InProgress(r) => Shape(runs[r])
Freshness == \A r \in Run : InProgress(r) /\ r \notin disturbed => Fresh(r, runs[r])

Running == \A r \in Run : InProgress(r) => ended[r] = "no"

Inv == DeployTypeOK /\ Running /\ Shapes /\ Freshness

-----------------------------------------------------------------------------
(* Executions.                                                             *)

LEMMA RunningType ==
  ASSUME DeployTypeOK, NEW r \in Run, InProgress(r)
  PROVE  runs[r] \in Execution
BY DEF DeployTypeOK, InProgress

LEMMA VerifyType ==
  ASSUME NEW e \in Execution
  PROVE  /\ Verify(e) \in Execution
         /\ Verify(e).at = "databases" /\ Verify(e).verifying /\ Verify(e).todo = {}
         /\ Verify(e).plan = e.plan /\ Verify(e).want = e.want
         /\ Verify(e).command = e.command
BY DEF Verify, Execution

LEMMA DiffFacts ==
  ASSUME NEW e \in Execution, NEW force
  PROVE  /\ Diff(e, force) \subseteq Action
         /\ "create-d1" \in Diff(e, force) <=> e.database = None
         /\ ~e.exists => "deploy-worker" \in Diff(e, force)
         /\ e.exists => "deploy-worker" \notin Diff(e, FALSE)
         /\ e.exists /\ "deploy-worker" \in Diff(e, force) => force
         /\ \A s \in Secret : s \in Diff(e, force) <=> s \in e.want \ e.bound
BY DEF Diff, Action, Execution

\* What a run may be after its last observation.
LEMMA ObservedFacts ==
  ASSUME DeployTypeOK, NEW r \in Run, NEW e \in Execution, Observed(r, e)
  PROVE  /\ runs' \in [Run -> Execution \cup {None}]
         /\ ended' \in [Run -> {"no", "done", "failed"}]
         /\ \A q \in Run \ {r} : runs'[q] = runs[q] /\ ended'[q] = ended[q]
         /\ \/ runs'[r] = None
            \/ ~e.verifying /\ Diff(e, Forced(e)) = {} /\ runs'[r] = Verify(e)
            \/ /\ ~e.verifying
               /\ runs'[r] = [e EXCEPT !.at = "apply", !.plan = Diff(e, Forced(e)),
                                       !.todo = Diff(e, Forced(e))]
            \/ /\ e.verifying /\ Diff(e, FALSE) = {} /\ e.command = "install"
               /\ runs'[r] = [e EXCEPT !.at = "publish"]
<1>1. [e EXCEPT !.at = "apply", !.plan = Diff(e, Forced(e)),
                !.todo = Diff(e, Forced(e))] \in Execution
  BY DiffFacts DEF Execution
<1>2. [e EXCEPT !.at = "publish"] \in Execution
  BY DEF Execution
<1>3. CASE Return(r) \/ Throw(r)
  BY <1>3 DEF Return, Throw, End, DeployTypeOK
<1>4. CASE Plan(r, e) /\ ~e.verifying
  <2> DEFINE plan == Diff(e, Forced(e))
  <2>1. CASE plan = {} /\ Proceed(r, Verify(e))
    <3>1. runs' = [runs EXCEPT ![r] = Verify(e)] /\ ended' = ended
      BY <2>1 DEF Proceed
    <3>2. /\ runs' \in [Run -> Execution \cup {None}]
          /\ runs'[r] = Verify(e)
          /\ \A q \in Run \ {r} : runs'[q] = runs[q]
      BY <3>1, VerifyType DEF DeployTypeOK
    <3> QED BY <1>4, <2>1, <3>1, <3>2 DEF DeployTypeOK
  <2>2. CASE Proceed(r, [e EXCEPT !.at = "apply", !.plan = plan, !.todo = plan])
    BY <1>1, <1>4, <2>2 DEF Proceed, DeployTypeOK
  <2> QED BY <1>3, <1>4, <2>1, <2>2 DEF Plan
<1>5. CASE Check(r, e) /\ e.verifying
  <2>1. CASE /\ Diff(e, FALSE) = {} /\ e.command = "install"
             /\ Proceed(r, [e EXCEPT !.at = "publish"])
    BY <1>2, <1>5, <2>1 DEF Proceed, DeployTypeOK
  <2> QED BY <1>3, <1>5, <2>1 DEF Check
<1> QED BY <1>4, <1>5 DEF Observed

\* It returns from its last observation only if that found nothing pending, and
\* throws in its verification only if that found something.
LEMMA ReturnFacts ==
  ASSUME DeployTypeOK, NEW r \in Run, NEW e \in Execution, Observed(r, e), ended[r] = "no"
  PROVE  /\ ended'[r] = "done" /\ ~DryRun(e)
            => e.verifying /\ e.command # "install" /\ Diff(e, FALSE) = {}
         /\ ended'[r] = "failed" /\ e.verifying => Diff(e, FALSE) # {}
<1>1. ASSUME NEW f, Proceed(r, f) PROVE ended'[r] = "no"
  BY <1>1 DEF Proceed
<1>2. Throw(r) => ended'[r] = "failed"
  BY DEF Throw, End, DeployTypeOK
<1>3. Return(r) => ended'[r] = "done"
  BY DEF Return, End, DeployTypeOK
<1>4. CASE Plan(r, e) /\ ~e.verifying
  BY <1>1, <1>2, <1>4 DEF Plan
<1>5. CASE Check(r, e) /\ e.verifying
  BY <1>1, <1>2, <1>3, <1>5 DEF Check
<1> QED BY <1>4, <1>5 DEF Observed

LEMMA BelieveFacts ==
  ASSUME DeployTypeOK, NEW r \in Run, NEW e \in Execution, NEW applied,
         Believe(r, e, applied)
  PROVE  /\ runs' \in [Run -> Execution \cup {None}]
         /\ ended' = ended
         /\ \A q \in Run \ {r} : runs'[q] = runs[q]
         /\ \/ e.todo \subseteq applied /\ runs'[r] = Verify(e)
            \/ runs'[r] = [e EXCEPT !.todo = e.todo \ applied]
<1>1. [e EXCEPT !.todo = e.todo \ applied] \in Execution
  BY DEF Execution
<1>2. CASE e.todo \subseteq applied
  BY <1>2, VerifyType DEF Believe, Proceed, DeployTypeOK
<1>3. CASE ~(e.todo \subseteq applied)
  BY <1>1, <1>3 DEF Believe, Proceed, DeployTypeOK
<1> QED BY <1>2, <1>3

LEMMA EndFacts ==
  ASSUME DeployTypeOK, NEW r \in Run, Throw(r) \/ Return(r)
  PROVE  /\ runs' \in [Run -> Execution \cup {None}]
         /\ ended' \in [Run -> {"no", "done", "failed"}]
         /\ \A q \in Run \ {r} : runs'[q] = runs[q] /\ ended'[q] = ended[q]
         /\ runs'[r] = None
BY DEF Throw, Return, End, DeployTypeOK

-----------------------------------------------------------------------------
(* A step of one run, seen from the others and from the run itself.        *)

\* A step of r leaves what the others know as it was, or disturbs them.
StepOf(r) ==
  /\ \A q \in Run \ {r} : runs'[q] = runs[q] /\ ended'[q] = ended[q]
  /\ deceived' \in {deceived, deceived \cup {r}}
  /\ disturbed \subseteq disturbed'
  /\ UNCHANGED <<database, worker>> \/ Disturb(r)

LEMMA Others ==
  ASSUME Inv, NEW r \in Run, StepOf(r), NEW q \in Run \ {r}, InProgress(q)'
  PROVE  /\ ended'[q] = "no"
         /\ Shape(runs[q])'
         /\ q \notin disturbed' => Fresh(q, runs[q])'
<1>1. runs'[q] = runs[q] /\ ended'[q] = ended[q] /\ InProgress(q)
  BY DEF StepOf, InProgress
<1>2. ended'[q] = "no" /\ Shape(runs[q])'
  BY <1>1 DEF Inv, Running, Shapes, Shape
<1>3. ASSUME q \notin disturbed' PROVE Fresh(q, runs[q])'
  <2>1. UNCHANGED <<database, worker>> /\ q \notin disturbed
    BY <1>1, <1>3 DEF StepOf, Disturb
  <2>2. Fresh(q, runs[q])
    BY <1>1, <2>1 DEF Inv, Freshness
  <2>3. q \notin deceived' <=> q \notin deceived
    BY DEF StepOf
  <2> QED BY <1>1, <2>1, <2>2, <2>3
          DEF Fresh, Observation, OwnSecrets, Missing, Forced, Progress, Planned, Verified, Bound
<1> QED BY <1>2, <1>3

\* So it preserves the invariant if it does for r.
LEMMA StepPreserves ==
  ASSUME Inv, DeployTypeOK', NEW r \in Run, StepOf(r),
         InProgress(r)' => /\ ended'[r] = "no"
                           /\ Shape(runs[r])'
                           /\ r \notin disturbed' => Fresh(r, runs[r])'
  PROVE  Inv'
BY Others DEF Inv, Running, Shapes, Freshness

-----------------------------------------------------------------------------
(* The actions.                                                            *)

LEMMA StartPreserves ==
  ASSUME Inv, NEW r \in Run, NEW command \in Command, Start(r, command)
  PROVE  Inv'
<1> USE DEF Inv
<1> DEFINE e(want, have) ==
             [command |-> command, want |-> want, have |-> have,
              at |-> "databases", verifying |-> FALSE,
              database |-> None, exists |-> FALSE, bound |-> {},
              plan |-> {}, todo |-> {}]
<1>1. PICK want \in SUBSET Secret : \E have \in SUBSET want : Proceed(r, e(want, have))
  BY DEF Start
<1>1a. PICK have \in SUBSET want : Proceed(r, e(want, have))
  BY <1>1
<1> DEFINE f == e(want, have)
<1>2. f \in Execution
  BY DEF Execution
<1>3. runs' = [runs EXCEPT ![r] = f] /\ ended' = ended /\ ended[r] = "no"
  BY <1>1a DEF Proceed, Start
<1>4. DeployTypeOK'
  BY <1>2, <1>3 DEF DeployTypeOK, Start, account, bounds
<1>5. StepOf(r)
  BY <1>3 DEF DeployTypeOK, StepOf, Start, account
<1>6. runs'[r] = f
  BY <1>3 DEF DeployTypeOK
<1>7. ended'[r] = "no" /\ Shape(f) /\ Fresh(r, f)'
  BY <1>3 DEF Shape, Fresh, Observation, OwnSecrets, Missing, Forced, Progress, Planned, Verified
<1> HIDE DEF f
<1> QED BY <1>4, <1>5, <1>6, <1>7, StepPreserves
        DEF Shape, Fresh, Observation, OwnSecrets, Missing, Forced, Progress, Planned, Verified, Bound

LEMMA ListDatabasesPreserves ==
  ASSUME Inv, NEW r \in Run, ListDatabases(r)
  PROVE  Inv'
<1> USE DEF Inv
<1> DEFINE e == runs[r]
           f == [e EXCEPT !.at = "worker", !.database = database]
<1>1. InProgress(r) /\ e \in Execution /\ e.at = "databases"
  BY RunningType DEF ListDatabases, At
<1>2. f \in Execution
  BY <1>1 DEF Execution, DeployTypeOK
<1>3. /\ runs' = [runs EXCEPT ![r] = f] /\ ended' = ended
      /\ UNCHANGED <<database, worker, published, ids, disturbed, deceived, faults, removals>>
  BY DEF ListDatabases, Proceed, account, bounds
<1>4. DeployTypeOK'
  BY <1>2, <1>3 DEF DeployTypeOK
<1>5. StepOf(r) /\ runs'[r] = f
  BY <1>3 DEF DeployTypeOK, StepOf
<1>6. ended'[r] = "no" /\ Shape(f)
  BY <1>1, <1>3 DEF Running, Shapes, Shape, Execution
<1>7. ASSUME r \notin disturbed PROVE Fresh(r, f)
  <2>1. Fresh(r, e)
    BY <1>1, <1>7 DEF Freshness
  <2> QED BY <1>1, <2>1
          DEF Fresh, Observation, OwnSecrets, Missing, Forced, Progress, Planned, Verified, Bound, Execution
<1>8. r \notin disturbed' => Fresh(r, runs[r])'
  BY <1>3, <1>5, <1>7
     DEF Fresh, Observation, OwnSecrets, Missing, Forced, Progress, Planned, Verified, Bound
<1>9. Shape(runs[r])'
  BY <1>5, <1>6 DEF Shape
<1> QED BY <1>4, <1>5, <1>6, <1>8, <1>9, StepPreserves

\* The end of an observation that r knows to be complete if nobody disturbed it.
LEMMA ObservedPreserves ==
  ASSUME Inv, NEW r \in Run, InProgress(r), NEW e \in Execution, Observed(r, e),
         UNCHANGED <<account, ids, disturbed, deceived, bounds>>,
         Shape(e), e.at \in {"worker", "secrets"},
         r \notin disturbed => /\ e.database = database
                               /\ e.exists <=> worker # None
                               /\ \A s \in Secret : s \in e.bound <=> Bound(s)
                               /\ OwnSecrets(r, e) /\ Missing(e)
                               /\ r \notin deceived => Progress(e)
  PROVE  Inv'
<1> USE DEF Inv
<1>1. UNCHANGED <<database, worker, published, ids, disturbed, deceived, faults, removals>>
  BY DEF account, bounds
<1>2. DeployTypeOK'
  BY <1>1, ObservedFacts DEF DeployTypeOK
<1>3. StepOf(r)
  BY <1>1, ObservedFacts DEF StepOf
<1>4. ended[r] = "no"
  BY DEF Running
<1>5. ASSUME runs'[r] # None PROVE ended'[r] = "no"
  <2>1. \E f \in Execution : Proceed(r, f)
    <3>1. CASE Return(r) \/ Throw(r)
      BY <1>5, <3>1, EndFacts
    <3>2. CASE Plan(r, e)
      <4> DEFINE plan == Diff(e, Forced(e))
                 f == [e EXCEPT !.at = "apply", !.plan = plan, !.todo = plan]
      <4>1. f \in Execution
        BY DiffFacts DEF Execution
      <4>2. Verify(e) \in Execution
        BY VerifyType
      <4>3. Proceed(r, f) \/ Proceed(r, Verify(e))
        BY <3>1, <3>2, <1>5, EndFacts DEF Plan
      <4> HIDE DEF f
      <4> QED BY <4>1, <4>2, <4>3
    <3>3. CASE Check(r, e)
      <4> DEFINE f == [e EXCEPT !.at = "publish"]
      <4>1. f \in Execution
        BY DEF Execution
      <4>2. Proceed(r, f)
        BY <3>3, <1>5, EndFacts DEF Check
      <4> HIDE DEF f
      <4> QED BY <4>1, <4>2
    <3> QED BY <3>2, <3>3 DEF Observed
  <2> QED BY <1>4, <2>1 DEF Proceed
<1>12. InProgress(r)' => ended'[r] = "no"
  BY <1>5 DEF InProgress
<1> DEFINE plan == Diff(e, Forced(e))
           applying == [e EXCEPT !.at = "apply", !.plan = plan, !.todo = plan]
           publishing == [e EXCEPT !.at = "publish"]
<1>6. Diff(e, FALSE) = {} =>
        /\ e.database # None
        /\ e.exists
        /\ \A s \in e.want : s \in e.bound
  BY DiffFacts DEF Execution
<1>7. plan = {} =>
        /\ e.database # None
        /\ e.exists
        /\ \A s \in e.want : s \in e.bound
  BY DiffFacts DEF Execution
<1>8. CASE runs'[r] = Verify(e) /\ ~e.verifying /\ plan = {}
  <2>1. e.plan = {}
    BY <1>8 DEF Shape
  <2>2. Shape(Verify(e))
    BY <2>1, VerifyType DEF Shape
  <2>3. r \notin disturbed => Fresh(r, Verify(e))
    BY <1>7, <1>8, <2>1, VerifyType
       DEF Fresh, Observation, OwnSecrets, Missing, Forced, Progress, Planned, Verified, Execution
  <2>4. Shape(runs[r])'
    BY <1>8, <2>2 DEF Shape
  <2>5. r \notin disturbed' => Fresh(r, runs[r])'
    BY <1>1, <1>8, <2>3
       DEF Fresh, Observation, OwnSecrets, Missing, Forced, Progress, Planned, Verified, Bound
  <2> QED BY <1>2, <1>3, <1>12, <2>4, <2>5, StepPreserves
<1>9. CASE runs'[r] = applying /\ ~e.verifying
  <2>1. /\ plan \subseteq Action
        /\ "create-d1" \in plan <=> e.database = None
        /\ ~e.exists => "deploy-worker" \in plan
        /\ e.exists /\ "deploy-worker" \in plan => Forced(e)
        /\ \A s \in Secret : s \in plan <=> s \in e.want \ e.bound
    BY DiffFacts
  <2> HIDE DEF plan
  <2>2. /\ applying.at = "apply" /\ applying.plan = plan /\ applying.todo = plan
        /\ applying.want = e.want /\ applying.database = e.database
        /\ applying.verifying = e.verifying /\ e.want \subseteq Secret
        /\ applying.command = e.command
    BY DEF Execution
  <2> HIDE DEF applying
  <2>3. Shape(applying)
    BY <1>9, <2>1, <2>2 DEF Shape
  <2>4. r \notin disturbed => Fresh(r, applying)
    BY <1>9, <2>1, <2>2
       DEF Fresh, Observation, OwnSecrets, Missing, Forced, Progress, Planned, Verified, Bound
  <2>5. Shape(runs[r])'
    BY <1>9, <2>3 DEF Shape
  <2>6. r \notin disturbed' => Fresh(r, runs[r])'
    BY <1>1, <1>9, <2>4
       DEF Fresh, Observation, OwnSecrets, Missing, Forced, Progress, Planned, Verified, Bound
  <2> QED BY <1>2, <1>3, <1>12, <2>5, <2>6, StepPreserves
<1>10. CASE /\ runs'[r] = publishing
            /\ e.verifying /\ Diff(e, FALSE) = {} /\ e.command = "install"
  <2>1. /\ publishing.at = "publish" /\ publishing.plan = e.plan
        /\ publishing.todo = e.todo /\ publishing.want = e.want
        /\ publishing.verifying = e.verifying /\ publishing.command = e.command
        /\ e.want \subseteq Secret
    BY DEF Execution
  <2> HIDE DEF publishing
  <2>2. Shape(publishing)
    BY <1>10, <2>1 DEF Shape
  <2>3. r \notin disturbed => Fresh(r, publishing)
    BY <1>6, <1>10, <2>1
       DEF Fresh, Observation, OwnSecrets, Missing, Forced, Progress, Planned, Verified
  <2>4. Shape(runs[r])'
    BY <1>10, <2>2 DEF Shape
  <2>5. r \notin disturbed' => Fresh(r, runs[r])'
    BY <1>1, <1>10, <2>3
       DEF Fresh, Observation, OwnSecrets, Missing, Forced, Progress, Planned, Verified, Bound
  <2> QED BY <1>2, <1>3, <1>12, <2>4, <2>5, StepPreserves
<1>11. CASE runs'[r] = None
  BY <1>2, <1>3, <1>11, StepPreserves DEF InProgress
<1> QED BY <1>8, <1>9, <1>10, <1>11, ObservedFacts

LEMMA GetWorkerPreserves ==
  ASSUME Inv, NEW r \in Run, GetWorker(r)
  PROVE  Inv'
<1> USE DEF Inv
<1> DEFINE e == runs[r]
<1>1. InProgress(r) /\ e \in Execution /\ e.at = "worker" /\ Shape(e) /\ ended[r] = "no"
  BY RunningType DEF GetWorker, At, Shapes, Running
<1>2. UNCHANGED <<database, worker, published, ids, disturbed, deceived, faults, removals>>
  BY DEF GetWorker, account, bounds
<1>3. r \notin disturbed => Fresh(r, e)
  BY <1>1 DEF Freshness
<1>4. CASE worker # None /\ Proceed(r, [e EXCEPT !.at = "secrets", !.exists = TRUE])
  <2> DEFINE f == [e EXCEPT !.at = "secrets", !.exists = TRUE]
  <2>1. f \in Execution /\ runs' = [runs EXCEPT ![r] = f] /\ ended' = ended
    BY <1>1, <1>4 DEF Execution, Proceed
  <2>2. DeployTypeOK'
    BY <1>2, <2>1 DEF DeployTypeOK
  <2>3. StepOf(r) /\ runs'[r] = f
    BY <1>2, <2>1 DEF DeployTypeOK, StepOf
  <2>4. Shape(f)
    BY <1>1 DEF Shape, Execution
  <2>5. r \notin disturbed => Fresh(r, f)
    BY <1>1, <1>3, <1>4
       DEF Fresh, Observation, OwnSecrets, Missing, Forced, Progress, Planned, Verified, Execution
  <2>6. Shape(runs[r])'
    BY <2>3, <2>4 DEF Shape
  <2>7. r \notin disturbed' => Fresh(r, runs[r])'
    BY <1>2, <2>3, <2>5
       DEF Fresh, Observation, OwnSecrets, Missing, Forced, Progress, Planned, Verified, Bound
  <2> QED BY <1>1, <2>1, <2>2, <2>3, <2>6, <2>7, StepPreserves
<1>5. CASE worker = None /\ Observed(r, [e EXCEPT !.exists = FALSE, !.bound = {}])
  <2> DEFINE f == [e EXCEPT !.exists = FALSE, !.bound = {}]
  <2>1. f \in Execution /\ f.at = e.at /\ f.database = e.database
        /\ f.plan = e.plan /\ f.todo = e.todo /\ f.want = e.want
        /\ f.verifying = e.verifying /\ f.command = e.command
        /\ ~f.exists /\ f.bound = {}
    BY <1>1 DEF Execution
  <2>2. Observed(r, f)
    BY <1>5
  <2> HIDE DEF f
  <2>3. Shape(f) /\ f.at \in {"worker", "secrets"}
    BY <1>1, <2>1 DEF Shape
  <2>4. r \notin disturbed => /\ f.database = database
                              /\ (f.exists <=> worker # None)
                              /\ \A s \in Secret : s \in f.bound <=> Bound(s)
                              /\ OwnSecrets(r, f) /\ Missing(f)
                              /\ r \notin deceived => Progress(f)
    BY <1>1, <1>3, <1>5, <2>1
       DEF Fresh, Observation, OwnSecrets, Missing, Forced, Progress, Planned, Bound
  <2>5. UNCHANGED <<account, ids, disturbed, deceived, bounds>>
    BY DEF GetWorker
  <2> QED BY <1>1, <2>1, <2>2, <2>3, <2>4, <2>5, ObservedPreserves
<1> QED BY <1>4, <1>5 DEF GetWorker

LEMMA ListSecretsPreserves ==
  ASSUME Inv, NEW r \in Run, ListSecrets(r)
  PROVE  Inv'
<1> USE DEF Inv
<1> DEFINE e == runs[r]
           f == [e EXCEPT !.bound = {s \in Secret : worker.secrets[s] # None}]
<1>1. InProgress(r) /\ e \in Execution /\ e.at = "secrets" /\ Shape(e)
  BY RunningType DEF ListSecrets, At, Shapes
<1>2. r \notin disturbed => Fresh(r, e)
  BY <1>1 DEF Freshness
<1>3. worker # None /\ Observed(r, f)
  BY DEF ListSecrets
<1>4. f \in Execution /\ f.at = e.at /\ f.database = e.database
      /\ f.plan = e.plan /\ f.todo = e.todo /\ f.want = e.want
      /\ f.verifying = e.verifying /\ f.command = e.command
      /\ f.exists = e.exists /\ f.bound = {s \in Secret : worker.secrets[s] # None}
  BY <1>1 DEF Execution
<1> HIDE DEF f
<1>5. Shape(f) /\ f.at \in {"worker", "secrets"}
  BY <1>1, <1>4 DEF Shape
<1>6. r \notin disturbed => /\ f.database = database
                            /\ (f.exists <=> worker # None)
                            /\ \A s \in Secret : s \in f.bound <=> Bound(s)
                            /\ OwnSecrets(r, f) /\ Missing(f)
                            /\ r \notin deceived => Progress(f)
  BY <1>1, <1>2, <1>3, <1>4 DEF Fresh, Observation, OwnSecrets, Missing, Forced, Progress, Planned, Bound
<1>7. UNCHANGED <<account, ids, disturbed, deceived, bounds>>
  BY DEF ListSecrets
<1> QED BY <1>1, <1>3, <1>4, <1>5, <1>6, <1>7, ObservedPreserves

LEMMA EndsPreserve ==
  ASSUME Inv, NEW r \in Run, Fail(r) \/ EnableWorkersDev(r)
  PROVE  Inv'
<1> USE DEF Inv
<1>1. Throw(r) \/ Return(r)
  BY DEF Fail, EnableWorkersDev
<1>2. UNCHANGED <<database, worker, ids, disturbed, deceived, faults, removals>>
      /\ published' \in BOOLEAN
  BY DEF Fail, EnableWorkersDev, account, bounds, DeployTypeOK
<1>3. DeployTypeOK' /\ StepOf(r) /\ runs'[r] = None
  BY <1>1, <1>2, EndFacts DEF DeployTypeOK, StepOf
<1> QED BY <1>3, StepPreserves DEF InProgress

LEMMA RemovalsPreserve ==
  ASSUME Inv, RemoveDatabase \/ RemoveWorker
  PROVE  Inv'
<1> USE DEF Inv
<1>1. /\ disturbed' = disturbed \cup {q \in Run : InProgress(q)}
      /\ UNCHANGED <<ids, runs, ended, deceived, faults>>
      /\ removals' = removals + 1
      /\ database' \in {database, None} /\ worker' \in {worker, None}
      /\ published' \in BOOLEAN
  BY DEF RemoveDatabase, RemoveWorker, Remove, DeployTypeOK
<1>2. DeployTypeOK'
  BY <1>1 DEF DeployTypeOK
<1>3. Running' /\ Shapes'
  BY <1>1 DEF Running, Shapes, Shape, InProgress
<1>4. Freshness'
  BY <1>1 DEF Freshness, InProgress
<1> QED BY <1>2, <1>3, <1>4

-----------------------------------------------------------------------------
(* The calls that change the account.                                      *)

AccountType ==
  /\ database \in Database \cup {None}
  /\ worker \in Worker \cup {None}
  /\ published \in BOOLEAN
  /\ ids \in SUBSET Database

\* f: the run after an applied action, if others are left to do.
LEMMA BelievePreserves ==
  ASSUME Inv, NEW r \in Run, ended[r] = "no", NEW e \in Execution, NEW applied,
         Believe(r, e, applied),
         NEW f \in Execution, f = [e EXCEPT !.todo = e.todo \ applied], f.at = "apply",
         Shape(f), r \notin disturbed' => Fresh(r, f)',
         AccountType', disturbed' \in SUBSET Run, faults' \in Nat, removals' \in Nat,
         deceived' \in {deceived, deceived \cup {r}}, disturbed \subseteq disturbed',
         UNCHANGED <<database, worker>> \/ Disturb(r)
  PROVE  Inv'
<1> USE DEF Inv
<1>1. /\ runs' \in [Run -> Execution \cup {None}] /\ ended' = ended
      /\ \A q \in Run \ {r} : runs'[q] = runs[q]
      /\ (e.todo \subseteq applied /\ runs'[r] = Verify(e)) \/ runs'[r] = f
  BY BelieveFacts
<1>2. DeployTypeOK'
  BY <1>1 DEF DeployTypeOK, AccountType
<1>3. StepOf(r)
  BY <1>1 DEF StepOf
<1>4. f.plan = e.plan /\ f.want = e.want /\ f.todo = e.todo \ applied
  BY DEF Execution
<1>5. CASE runs'[r] = f
  <2>1. Shape(runs[r])'
    BY <1>5 DEF Shape
  <2>2. r \notin disturbed' => Fresh(r, runs[r])'
    BY <1>5 DEF Fresh, Observation, OwnSecrets, Missing, Forced, Progress, Planned, Verified, Bound
  <2> QED BY <1>1, <1>2, <1>3, <2>1, <2>2, StepPreserves
<1>6. CASE e.todo \subseteq applied /\ runs'[r] = Verify(e)
  <2>1. PICK v \in Execution : v = Verify(e)
    BY VerifyType
  <2>2. /\ v.at = "databases" /\ v.verifying /\ v.todo = {} /\ v.plan = f.plan
        /\ v.want = f.want /\ f.todo = {}
    BY <1>4, <1>6, <2>1, VerifyType
  <2>3. Shape(v)
    BY <2>2 DEF Shape
  <2>4. r \notin disturbed' => Fresh(r, v)'
    BY <2>2 DEF Fresh, Observation, OwnSecrets, Missing, Forced, Progress, Planned, Verified
  <2>5. Shape(runs[r])'
    BY <1>6, <2>1, <2>3 DEF Shape
  <2>6. r \notin disturbed' => Fresh(r, runs[r])'
    BY <1>6, <2>1, <2>4
       DEF Fresh, Observation, OwnSecrets, Missing, Forced, Progress, Planned, Verified, Bound
  <2> QED BY <1>1, <1>2, <1>3, <2>5, <2>6, StepPreserves
<1> QED BY <1>1, <1>5, <1>6

LEMMA DonePreserves ==
  ASSUME Inv, NEW r \in Run, InProgress(r), NEW e \in Execution, NEW applied,
         Done(r, e, applied), AccountType',
         NEW f \in Execution, f = [e EXCEPT !.todo = e.todo \ applied], f.at = "apply",
         Shape(f), r \notin disturbed' => Fresh(r, f)'
  PROVE  Inv'
<1>1. /\ disturbed' \in SUBSET Run /\ disturbed \subseteq disturbed' /\ deceived' = deceived
      /\ faults' \in Nat /\ removals' \in Nat /\ Disturb(r)
  BY DEF Done, Disturb, Fault, Inv, DeployTypeOK
<1>2. CASE Believe(r, e, applied)
  BY <1>1, <1>2, BelievePreserves DEF Inv, Running
<1>3. CASE Throw(r)
  <2>1. DeployTypeOK' /\ StepOf(r) /\ runs'[r] = None
    BY <1>1, <1>3, EndFacts DEF Inv, DeployTypeOK, AccountType, StepOf
  <2> QED BY <2>1, StepPreserves DEF InProgress
<1> QED BY <1>2, <1>3 DEF Done

LEMMA PretendedPreserves ==
  ASSUME Inv, NEW r \in Run, InProgress(r), NEW e \in Execution, NEW applied,
         Pretended(r, e, applied), ids' \in SUBSET Database,
         NEW f \in Execution, f = [e EXCEPT !.todo = e.todo \ applied], f.at = "apply",
         Shape(f), r \notin disturbed => OwnSecrets(r, f) /\ Missing(f)
  PROVE  Inv'
<1>1. /\ UNCHANGED <<database, worker, published, disturbed, removals>>
      /\ deceived' = deceived \cup {r} /\ faults' \in Nat
  BY DEF Pretended, Fault, account, Inv, DeployTypeOK
<1>2. AccountType' /\ disturbed' \in SUBSET Run /\ removals' \in Nat
  BY <1>1 DEF AccountType, Inv, DeployTypeOK
<1>3. r \notin disturbed' => Fresh(r, f)'
  BY <1>1 DEF Fresh, Observation, OwnSecrets, Missing, Forced, Bound, Verified
<1>4. ended[r] = "no" /\ Believe(r, e, applied)
  BY DEF Inv, Running, Pretended
<1> QED BY <1>1, <1>2, <1>3, <1>4, BelievePreserves

\* A run at its turn to apply one of the actions "now".
LEMMA TurnFacts ==
  ASSUME Inv, NEW r \in Run, NEW now, NEW before, Turn(r, now, before)
  PROVE  /\ InProgress(r) /\ runs[r] \in Execution /\ runs[r].at = "apply"
         /\ Shape(runs[r]) /\ ~runs[r].verifying
         /\ runs[r].todo \subseteq runs[r].plan /\ runs[r].plan \subseteq Action
         /\ now \cap runs[r].todo # {} /\ before \cap runs[r].todo = {}
         /\ r \notin disturbed => Fresh(r, runs[r])
<1>1. InProgress(r) /\ runs[r] \in Execution /\ runs[r].at = "apply" /\ Shape(runs[r])
  BY RunningType DEF Turn, At, Inv, Shapes
<1>2. r \notin disturbed => Fresh(r, runs[r])
  BY <1>1 DEF Inv, Freshness
<1> QED BY <1>1, <1>2 DEF Turn, Shape, Execution

LEMMA ActionsDiffer ==
  ASSUME NEW s \in Secret
  PROVE  s # "create-d1" /\ s # "deploy-worker"
OBVIOUS

LEMMA CreateDatabasePreserves ==
  ASSUME Inv, NEW r \in Run, CreateDatabase(r)
  PROVE  Inv'
<1>1. PICK id \in Database \ ids :
        /\ ids' = ids \cup {id}
        /\ \/ /\ database = None
              /\ database' = id
              /\ UNCHANGED <<worker, published>>
              /\ Done(r, Created(runs[r], id), {"create-d1"})
           \/ Pretended(r, Created(runs[r], id), {"create-d1"})
  BY DEF CreateDatabase
<1>2. PICK o \in Execution : o = runs[r]
  BY TurnFacts DEF CreateDatabase
<1>3. /\ InProgress(r) /\ o.at = "apply" /\ Shape(o) /\ ~o.verifying
      /\ "create-d1" \in o.todo
      /\ r \notin disturbed => Fresh(r, o)
  BY <1>2, TurnFacts DEF CreateDatabase
<1>4. PICK e \in Execution : e = Created(o, id)
  BY DEF Created, Execution
<1>5. PICK f \in Execution : f = [e EXCEPT !.todo = e.todo \ {"create-d1"}]
  BY DEF Execution
<1>6. /\ f.at = "apply" /\ f.database = id /\ f.todo = o.todo \ {"create-d1"}
      /\ f.plan = o.plan /\ f.want = o.want /\ f.verifying = o.verifying
      /\ f.command = o.command
  BY <1>3, <1>4, <1>5 DEF Created, Execution
<1>7. id # None /\ ids' \in SUBSET Database
  BY <1>1 DEF Inv, DeployTypeOK
<1>8. Shape(f)
  BY <1>3, <1>6, <1>7 DEF Shape
<1>9. r \notin disturbed => OwnSecrets(r, f) /\ Missing(f)
  BY <1>3, <1>6 DEF Fresh, OwnSecrets, Missing, Forced
<1>10. CASE /\ database = None
            /\ database' = id
            /\ UNCHANGED <<worker, published>>
            /\ Done(r, e, {"create-d1"})
  <2>1. AccountType'
    BY <1>7, <1>10 DEF AccountType, Inv, DeployTypeOK
  <2>2. ASSUME r \notin disturbed' PROVE Fresh(r, f)'
    <3>1. r \notin disturbed /\ deceived' = deceived /\ worker' = worker /\ database' = id
      BY <1>10, <2>2 DEF Done, Disturb
    <3>2. Fresh(r, o)
      BY <1>3, <3>1
    <3>3. OwnSecrets(r, f)' /\ Observation(f)' /\ Verified(f)' /\ Missing(f)'
      BY <1>6, <1>9, <3>1
         DEF OwnSecrets, Observation, Verified, Missing, Forced, Bound
    <3>4. ASSUME r \notin deceived PROVE Progress(f)'
      <4>1. Progress(o) /\ Planned(o)
        BY <1>3, <3>2, <3>4 DEF Fresh, Planned
      <4>2. "deploy-worker" \notin f.todo => worker # None
        BY <1>6, <4>1 DEF Progress
      <4>3. \A s \in f.want \ f.todo : Bound(s)
        BY <1>6, <4>1, ActionsDiffer DEF Progress, Execution
      <4>4. "deploy-worker" \notin f.plan \ f.todo
        BY <1>3, <1>6 DEF Shape
      <4> QED BY <1>6, <1>7, <3>1, <4>2, <4>3, <4>4 DEF Progress, Bound
    <3> QED BY <3>1, <3>3, <3>4 DEF Fresh
  <2> QED BY <1>3, <1>5, <1>6, <1>8, <1>10, <2>1, <2>2, DonePreserves
<1>11. CASE Pretended(r, e, {"create-d1"})
  BY <1>3, <1>5, <1>6, <1>7, <1>8, <1>9, <1>11, PretendedPreserves
<1> QED BY <1>1, <1>2, <1>4, <1>10, <1>11

LEMMA DeployWorkerPreserves ==
  ASSUME Inv, NEW r \in Run, DeployWorker(r)
  PROVE  Inv'
<1>1. PICK e \in Execution : e = runs[r]
  BY TurnFacts DEF DeployWorker
<1>2. /\ InProgress(r) /\ e.at = "apply" /\ Shape(e) /\ ~e.verifying
      /\ "deploy-worker" \in e.todo /\ "create-d1" \notin e.todo
      /\ r \notin disturbed => Fresh(r, e)
  BY <1>1, TurnFacts DEF DeployWorker
<1>3. PICK f \in Execution : f = [e EXCEPT !.todo = e.todo \ {"deploy-worker"}]
  BY DEF Execution
<1>4. /\ f.at = "apply" /\ f.database = e.database /\ f.todo = e.todo \ {"deploy-worker"}
      /\ f.plan = e.plan /\ f.want = e.want /\ f.verifying = e.verifying
      /\ f.command = e.command
  BY <1>2, <1>3 DEF Execution
<1>5. e.database \in Database
  BY <1>2 DEF Shape, Execution
<1>6. Shape(f)
  BY <1>2, <1>4 DEF Shape
<1>7. r \notin disturbed => OwnSecrets(r, f) /\ Missing(f)
  BY <1>2, <1>4 DEF Fresh, OwnSecrets, Missing, Forced
<1>8. ids' \in SUBSET Database
  BY DEF DeployWorker, Inv, DeployTypeOK
<1>9. CASE /\ worker' = [binding |-> e.database,
                         secrets |-> IF worker = None THEN NoSecrets ELSE worker.secrets]
           /\ published' \in {published, published \/ worker = None}
           /\ UNCHANGED database
           /\ Done(r, e, {"deploy-worker"})
  <2>1. worker' \in Worker /\ worker' # None
    BY <1>5, <1>9 DEF Worker, NoSecrets, Inv, DeployTypeOK
  <2>2. AccountType'
    BY <1>8, <1>9, <2>1 DEF AccountType, Inv, DeployTypeOK
  <2>3. worker'.binding = e.database
        /\ worker'.secrets = IF worker = None THEN NoSecrets ELSE worker.secrets
    BY <1>9
  <2>4. ASSUME r \notin disturbed' PROVE Fresh(r, f)'
    <3>1. r \notin disturbed /\ deceived' = deceived /\ database' = database
      BY <1>9, <2>4 DEF Done, Disturb
    <3>2. Fresh(r, e)
      BY <1>2, <3>1
    <3>3. Observation(f)' /\ Verified(f)'
      BY <1>4 DEF Observation, Verified
    <3>4. OwnSecrets(r, f)' /\ Missing(f)'
      BY <1>2, <1>4, <1>7, <2>3, <3>1
         DEF OwnSecrets, NoSecrets, Missing, Forced, Bound
    <3>5. ASSUME r \notin deceived PROVE Progress(f)'
      <4>1. Progress(e) /\ Planned(e)
        BY <1>2, <3>2, <3>5 DEF Fresh, Planned
      <4>2. database # None /\ e.database = database
        BY <1>2, <4>1 DEF Progress
      <4>3. \A s \in f.want \ f.todo : Bound(s)
        BY <1>4, <4>1, ActionsDiffer DEF Progress, Execution
      <4>4. \A s \in f.want \ f.todo : Bound(s)'
        BY <2>1, <2>3, <4>3 DEF Bound
      <4> QED BY <1>4, <2>1, <2>3, <3>1, <4>2, <4>4 DEF Progress
    <3> QED BY <3>1, <3>3, <3>4, <3>5 DEF Fresh
  <2> QED BY <1>2, <1>3, <1>4, <1>6, <1>9, <2>2, <2>4, DonePreserves
<1>10. CASE Pretended(r, e, {"deploy-worker"})
  BY <1>2, <1>3, <1>4, <1>6, <1>7, <1>8, <1>10, PretendedPreserves
<1> QED BY <1>1, <1>9, <1>10 DEF DeployWorker

LEMMA SetSecretsBulkPreserves ==
  ASSUME Inv, NEW r \in Run, SetSecretsBulk(r)
  PROVE  Inv'
<1>1. PICK e \in Execution : e = runs[r]
  BY TurnFacts DEF SetSecretsBulk
<1>2. /\ InProgress(r) /\ e.at = "apply" /\ Shape(e) /\ ~e.verifying
      /\ "deploy-worker" \notin e.todo /\ "create-d1" \notin e.todo
      /\ r \notin disturbed => Fresh(r, e)
  BY <1>1, TurnFacts DEF SetSecretsBulk
<1>3. PICK f \in Execution : f = [e EXCEPT !.todo = e.todo \ Secret]
  BY DEF Execution
<1>4. /\ f.at = "apply" /\ f.database = e.database /\ f.todo = e.todo \ Secret
      /\ f.plan = e.plan /\ f.want = e.want /\ f.verifying = e.verifying
      /\ f.command = e.command /\ e.want \subseteq Secret
  BY <1>2, <1>3 DEF Execution
<1>5. Shape(f)
  BY <1>2, <1>4 DEF Shape
<1>6. r \notin disturbed => OwnSecrets(r, f) /\ Missing(f)
  BY <1>2, <1>4 DEF Fresh, OwnSecrets, Missing, Forced
<1>7. ids' \in SUBSET Database
  BY DEF SetSecretsBulk, Inv, DeployTypeOK
<1>8. r # None
  OBVIOUS
<1>9. CASE /\ worker # None
           /\ worker' = [worker EXCEPT !.secrets =
                           [s \in Secret |-> IF s \in e.todo THEN r ELSE @[s]]]
           /\ UNCHANGED <<database, published>>
           /\ Done(r, e, Secret)
  <2>1. worker \in Worker
    BY <1>9 DEF Inv, DeployTypeOK
  <2>2. worker' = [binding |-> worker.binding,
                   secrets |-> [s \in Secret |-> IF s \in e.todo THEN r
                                                ELSE worker.secrets[s]]]
    BY <1>9, <2>1 DEF Worker
  <2>3. worker' \in Worker /\ worker' # None
    BY <2>1, <2>2 DEF Worker
  <2>4. AccountType'
    BY <1>7, <1>9, <2>3 DEF AccountType, Inv, DeployTypeOK
  <2>5. worker'.binding = worker.binding
        /\ \A s \in Secret : worker'.secrets[s] = IF s \in e.todo THEN r
                                                 ELSE worker.secrets[s]
    BY <2>2
  <2>6. ASSUME r \notin disturbed' PROVE Fresh(r, f)'
    <3>1. r \notin disturbed /\ deceived' = deceived /\ database' = database
      BY <1>9, <2>6 DEF Done, Disturb
    <3>2. Fresh(r, e)
      BY <1>2, <3>1
    <3>3. Observation(f)' /\ Verified(f)'
      BY <1>4 DEF Observation, Verified
    <3>4. OwnSecrets(r, f)' /\ Missing(f)'
      BY <1>2, <1>4, <1>6, <1>9, <2>5, <3>1 DEF OwnSecrets, Missing
    <3>5. ASSUME r \notin deceived PROVE Progress(f)'
      <4>1. Progress(e) /\ Planned(e)
        BY <1>2, <3>2, <3>5 DEF Fresh, Planned
      <4>2. \A s \in f.want : Bound(s)'
        BY <1>4, <1>8, <2>3, <2>5, <4>1 DEF Progress, Bound
      <4>3. database # None /\ e.database = database
        BY <1>2, <4>1 DEF Progress
      <4>4. "deploy-worker" \in f.plan => worker.binding = database
        BY <1>2, <1>4, <4>1 DEF Progress
      <4> QED BY <1>4, <2>3, <2>5, <3>1, <4>2, <4>3, <4>4 DEF Progress
    <3> QED BY <3>1, <3>3, <3>4, <3>5 DEF Fresh
  <2> QED BY <1>2, <1>3, <1>4, <1>5, <1>9, <2>4, <2>6, DonePreserves
<1>10. CASE Pretended(r, e, Secret)
  BY <1>2, <1>3, <1>4, <1>5, <1>6, <1>7, <1>10, PretendedPreserves
<1> QED BY <1>1, <1>9, <1>10 DEF SetSecretsBulk

-----------------------------------------------------------------------------
(* The theorems.                                                           *)

LEMMA InitInv ==
  Init => Inv
<1> SUFFICES ASSUME Init PROVE Inv
  OBVIOUS
<1>1. \A r \in Run : ~InProgress(r)
  BY DEF Init, InProgress
<1>2. DeployTypeOK
  BY DEF Init, DeployTypeOK
<1> QED BY <1>1, <1>2 DEF Inv, Running, Shapes, Freshness

LEMMA NextInv ==
  Inv /\ [Next]_vars => Inv'
<1> SUFFICES ASSUME Inv, [Next]_vars PROVE Inv'
  OBVIOUS
<1>1. CASE UNCHANGED vars
  <2>1. UNCHANGED <<database, worker, published, ids, runs, ended, disturbed, deceived,
                    faults, removals>>
    BY <1>1 DEF vars
  <2> QED BY <2>1
          DEF Inv, DeployTypeOK, Running, Shapes, Shape, Freshness, Fresh, InProgress,
              Observation, OwnSecrets, Missing, Forced, Progress, Planned, Verified, Bound
<1>2. ASSUME NEW r \in Run, Step(r) PROVE Inv'
  BY <1>2, StartPreserves, ListDatabasesPreserves, GetWorkerPreserves,
     ListSecretsPreserves, CreateDatabasePreserves, DeployWorkerPreserves,
     SetSecretsBulkPreserves, EndsPreserve DEF Step
<1>3. CASE RemoveDatabase \/ RemoveWorker
  BY <1>3, RemovalsPreserve
<1> QED BY <1>1, <1>2, <1>3 DEF Next

LEMMA Invariance ==
  Spec => []Inv
BY InitInv, NextInv, PTL DEF Spec

\* Whatever the runs, the API and the owner do, every variable keeps its type.
THEOREM TypeCorrect ==
  Spec => []DeployTypeOK
<1>1. Inv => DeployTypeOK
  BY DEF Inv
<1> QED BY <1>1, Invariance, PTL

\* How a run may finish.
LEMMA FinishFacts ==
  ASSUME Inv, [Next]_vars, NEW r \in Run, Finishes(r)
  PROVE  /\ runs[r].verifying /\ Shape(runs[r])
         /\ UNCHANGED <<database, worker, disturbed, deceived>>
         /\ r \notin disturbed =>
              /\ Fresh(r, runs[r])
              /\ database # None /\ worker # None
              /\ \A s \in runs[r].want : Bound(s)
<1> DEFINE e == runs[r]
<1>1. /\ InProgress(r) /\ e \in Execution /\ Shape(e) /\ ended[r] = "no"
      /\ ended'[r] = "done" /\ ~DryRun(e)
      /\ r \notin disturbed => Fresh(r, e)
  BY RunningType DEF Finishes, Inv, Shapes, Running, Freshness
<1>2. ASSUME NEW f, Proceed(r, f) PROVE FALSE
  BY <1>1, <1>2 DEF Proceed
<1>3. ~Throw(r)
  BY <1>1 DEF Throw, End, Inv, DeployTypeOK
<1>4. ASSUME NEW q \in Run, Step(q), q # r PROVE FALSE
  <2>1. ASSUME NEW f, Proceed(q, f) PROVE FALSE
    BY <1>1, <2>1 DEF Proceed
  <2>2. CASE Throw(q) \/ Return(q)
    BY <1>1, <1>4, <2>2, EndFacts DEF Inv
  <2>3. ASSUME NEW f \in Execution, Observed(q, f) PROVE FALSE
    BY <1>1, <1>4, <2>3, ObservedFacts DEF Inv
  <2>4. ASSUME NEW f, NEW applied, Believe(q, f, applied) PROVE FALSE
    BY <1>1, <2>4 DEF Believe, Proceed
  <2>5. ASSUME NEW f, NEW applied, Done(q, f, applied) PROVE FALSE
    BY <2>2, <2>4, <2>5 DEF Done
  <2>6. ASSUME NEW f, NEW applied, Pretended(q, f, applied) PROVE FALSE
    BY <2>4, <2>6 DEF Pretended
  <2>7. ASSUME NEW command \in Command, Start(q, command) PROVE FALSE
    BY <2>1, <2>7 DEF Start
  <2>8. CASE ListDatabases(q)
    BY <2>1, <2>8 DEF ListDatabases
  <2>9. CASE GetWorker(q)
    <3>1. [runs[q] EXCEPT !.exists = FALSE, !.bound = {}] \in Execution
      BY <2>9, RunningType, ZenonT(40) DEF GetWorker, At, Execution, Inv
    <3> QED BY <2>1, <2>3, <2>9, <3>1 DEF GetWorker
  <2>10. CASE ListSecrets(q)
    <3>1. [runs[q] EXCEPT !.bound = {s \in Secret : worker.secrets[s] # None}] \in Execution
      BY <2>10, RunningType DEF ListSecrets, At, Execution, Inv
    <3> QED BY <2>3, <2>10, <3>1 DEF ListSecrets
  <2>11. CASE CreateDatabase(q)
    BY <2>5, <2>6, <2>11 DEF CreateDatabase
  <2>12. CASE DeployWorker(q)
    BY <2>5, <2>6, <2>12 DEF DeployWorker
  <2>13. CASE SetSecretsBulk(q)
    BY <2>5, <2>6, <2>13 DEF SetSecretsBulk
  <2>14. CASE EnableWorkersDev(q) \/ Fail(q)
    BY <2>2, <2>14 DEF EnableWorkersDev, Fail
  <2> QED BY <1>4, <2>7, <2>8, <2>9, <2>10, <2>11, <2>12, <2>13, <2>14 DEF Step
<1>5. CASE RemoveDatabase \/ RemoveWorker \/ UNCHANGED vars
  BY <1>1, <1>5 DEF RemoveDatabase, RemoveWorker, Remove, vars
<1>6. CASE Step(r)
  <2>1. ASSUME NEW f, NEW applied, Done(r, f, applied) \/ Pretended(r, f, applied)
        PROVE FALSE
    BY <1>2, <1>3, <2>1 DEF Done, Pretended, Believe
  <2>2. ASSUME NEW command \in Command, Start(r, command) PROVE FALSE
    BY <1>2, <2>2 DEF Start
  <2>3. CASE ListDatabases(r)
    BY <1>2, <2>3 DEF ListDatabases
  <2>4. CASE CreateDatabase(r) \/ DeployWorker(r) \/ SetSecretsBulk(r)
    BY <2>1, <2>4 DEF CreateDatabase, DeployWorker, SetSecretsBulk
  <2>5. CASE Fail(r)
    BY <1>3, <2>5 DEF Fail
  <2>6. CASE EnableWorkersDev(r)
    BY <1>1, <2>6 DEF EnableWorkersDev, At, Shape, Fresh, Verified
  <2>7. CASE GetWorker(r)
    <3>1. CASE worker = None /\ Observed(r, [e EXCEPT !.exists = FALSE, !.bound = {}])
      <4> DEFINE f == [e EXCEPT !.exists = FALSE, !.bound = {}]
      <4>1. f \in Execution /\ ~f.exists /\ f.command = e.command
        BY <1>1 DEF Execution
      <4> HIDE DEF f
      <4>2. "deploy-worker" \in Diff(f, FALSE)
        BY <4>1, DiffFacts
      <4>3. ~DryRun(f) /\ Observed(r, f)
        BY <1>1, <3>1, <4>1 DEF DryRun, f
      <4> QED BY <1>1, <4>1, <4>2, <4>3, ReturnFacts DEF Inv
    <3> QED BY <1>2, <2>7, <3>1 DEF GetWorker
  <2>8. CASE ListSecrets(r)
    <3> DEFINE f == [e EXCEPT !.bound = {s \in Secret : worker.secrets[s] # None}]
    <3>1. /\ f \in Execution /\ f.command = e.command /\ f.verifying = e.verifying
          /\ f.database = e.database /\ f.exists = e.exists /\ f.want = e.want
          /\ f.bound = {s \in Secret : worker.secrets[s] # None}
      BY <1>1 DEF Execution
    <3> HIDE DEF f
    <3>2. ~DryRun(f) /\ Observed(r, f)
      BY <1>1, <2>8, <3>1 DEF DryRun, f, ListSecrets
    <3>3. f.verifying /\ Diff(f, FALSE) = {}
      BY <1>1, <3>1, <3>2, ReturnFacts DEF Inv
    <3>4. f.database # None /\ \A s \in f.want : s \in f.bound
      BY <3>1, <3>3, DiffFacts DEF Execution
    <3>5. UNCHANGED <<database, worker, disturbed, deceived>> /\ worker # None
          /\ e.at = "secrets"
      BY <2>8 DEF ListSecrets, account, At
    <3>6. r \notin disturbed => e.database = database
      BY <1>1, <3>5 DEF Fresh, Observation
    <3> QED BY <1>1, <3>1, <3>3, <3>4, <3>5, <3>6 DEF Bound
  <2> QED BY <1>6, <2>2, <2>3, <2>4, <2>5, <2>6, <2>7, <2>8 DEF Step
<1> QED BY <1>4, <1>5, <1>6 DEF Next

\* A run of the engine that nobody disturbed succeeds only if the database, the
\* worker and every secret it wants are there, and, unless the API deceived it, a
\* worker it deployed is bound to that database.
THEOREM SuccessIsReady ==
  Spec => SuccessMeansReady
<1> DEFINE A == \A r \in Run :
                  Finishes(r) /\ r \notin disturbed'
                  => /\ database' # None
                     /\ worker' # None
                     /\ \A s \in runs[r].want : worker'.secrets[s] # None
                     /\ "deploy-worker" \in runs[r].plan /\ r \notin deceived
                        => worker'.binding = database'
<1>1. ASSUME Inv, [Next]_vars PROVE A
  <2> SUFFICES ASSUME NEW r \in Run, Finishes(r), r \notin disturbed'
               PROVE  /\ database' # None
                      /\ worker' # None
                      /\ \A s \in runs[r].want : worker'.secrets[s] # None
                      /\ "deploy-worker" \in runs[r].plan /\ r \notin deceived
                         => worker'.binding = database'
    OBVIOUS
  <2>1. /\ runs[r].verifying /\ Shape(runs[r]) /\ Fresh(r, runs[r])
        /\ database' = database /\ worker' = worker
        /\ database # None /\ worker # None /\ \A s \in runs[r].want : Bound(s)
    BY <1>1, FinishFacts
  <2> QED BY <2>1 DEF Bound, Shape, Fresh, Progress, Planned
<1>2. Inv /\ [Next]_vars => [A]_vars
  BY <1>1
<1> QED BY <1>2, Invariance, PTL DEF Spec, SuccessMeansReady

\* Where the installer had to bind the password, an undisturbed run that succeeds
\* shows the value that is in force.
THEOREM NewPasswordInForce ==
  Spec => NewPasswordWorks
<1> DEFINE A == \A r \in Run :
                  /\ Finishes(r) /\ r \notin disturbed'
                  /\ ShowsPassword(runs[r]) /\ Admin \in runs[r].plan
                  => worker'.secrets[Admin] = r
<1>1. ASSUME Inv, [Next]_vars PROVE A
  <2> SUFFICES ASSUME NEW r \in Run, Finishes(r), r \notin disturbed',
                      Admin \in runs[r].plan
               PROVE  worker'.secrets[Admin] = r
    OBVIOUS
  <2>1. /\ Shape(runs[r]) /\ Fresh(r, runs[r]) /\ worker' = worker
        /\ \A s \in runs[r].want : Bound(s)
    BY <1>1, FinishFacts
  <2>2. Admin \in runs[r].want
    BY <2>1 DEF Shape
  <2> QED BY <2>1, <2>2 DEF Bound, Fresh, OwnSecrets
<1>2. Inv /\ [Next]_vars => [A]_vars
  BY <1>1
<1> QED BY <1>2, Invariance, PTL DEF Spec, NewPasswordWorks

\* The observation of a run that nobody disturbed stays true until it is applied:
\* so running the engine again makes no second database, redeploys a worker only
\* when it is forced to, and sets no secret again.
THEOREM RerunsAreIdempotent ==
  Spec => OnlyWhatIsMissing
<1> DEFINE A == \A r \in Run :
                  Step(r) /\ InProgress(r) /\ r \notin disturbed
                  => /\ database # None => UNCHANGED <<database, ids>>
                     /\ worker # None =>
                          /\ worker' # None
                          /\ ~Forced(runs[r]) => worker'.binding = worker.binding
                          /\ \A s \in Secret :
                               worker.secrets[s] # None \/ s \notin runs[r].want
                               => worker'.secrets[s] = worker.secrets[s]
<1>1. ASSUME Inv PROVE A
  <2> SUFFICES ASSUME NEW r \in Run, Step(r), InProgress(r), r \notin disturbed
               PROVE  /\ database # None => UNCHANGED <<database, ids>>
                      /\ worker # None =>
                           /\ worker' # None
                           /\ ~Forced(runs[r]) => worker'.binding = worker.binding
                           /\ \A s \in Secret :
                                worker.secrets[s] # None \/ s \notin runs[r].want
                                => worker'.secrets[s] = worker.secrets[s]
    OBVIOUS
  <2> DEFINE e == runs[r]
  <2>1. /\ e \in Execution /\ Shape(e) /\ Missing(e)
        /\ worker # None => worker \in Worker
    BY <1>1, RunningType DEF Inv, DeployTypeOK, Shapes, Freshness, Fresh
  <2>2. CASE UNCHANGED <<database, worker, ids>>
    BY <2>2
  <2>3. CASE CreateDatabase(r)
    <3>1. UNCHANGED worker
      BY <2>3 DEF CreateDatabase, Pretended, account
    <3>2. database = None
      BY <2>1, <2>3 DEF CreateDatabase, Turn, Missing
    <3> QED BY <3>1, <3>2
  <2>4. CASE DeployWorker(r)
    <3>1. UNCHANGED <<database, ids>>
      BY <2>4 DEF DeployWorker, Pretended, account
    <3>2. CASE UNCHANGED worker
      BY <3>1, <3>2
    <3>3. CASE worker' = [binding |-> e.database,
                          secrets |-> IF worker = None THEN NoSecrets ELSE worker.secrets]
      <4>1. ~Forced(e) => worker = None
        BY <2>1, <2>4 DEF DeployWorker, Turn, Missing
      <4>2. e.database # None
        BY <2>1, <2>4 DEF DeployWorker, Turn, At, Shape
      <4>3. worker' \in Worker
        <5>1. e.database \in Database
          BY <2>1, <4>2 DEF Execution
        <5>2. NoSecrets \in [Secret -> Run \cup {None}]
          BY DEF NoSecrets
        <5>3. worker # None => worker.secrets \in [Secret -> Run \cup {None}]
          BY <2>1 DEF Worker
        <5>4. CASE worker = None
          <6>1. worker' = [binding |-> e.database, secrets |-> NoSecrets]
            BY <3>3, <5>4
          <6> QED BY <5>1, <5>2, <6>1 DEF Worker
        <5>5. CASE worker # None
          <6>1. worker' = [binding |-> e.database, secrets |-> worker.secrets]
            BY <3>3, <5>5
          <6> QED BY <5>1, <5>3, <5>5, <6>1 DEF Worker
        <5> QED BY <5>4, <5>5
      <4>4. worker # None => worker'.secrets = worker.secrets
        BY <3>3
      <4> QED BY <3>1, <4>1, <4>3, <4>4
    <3> QED BY <2>4, <3>2, <3>3 DEF DeployWorker, Pretended, account
  <2>5. CASE SetSecretsBulk(r)
    <3>1. UNCHANGED <<database, ids>>
      BY <2>5 DEF SetSecretsBulk, Pretended, account
    <3>2. CASE UNCHANGED worker
      BY <3>1, <3>2
    <3>3. CASE /\ worker # None
               /\ worker' = [worker EXCEPT !.secrets =
                               [s \in Secret |-> IF s \in e.todo THEN r ELSE @[s]]]
      <4>1. worker' = [binding |-> worker.binding,
                       secrets |-> [s \in Secret |-> IF s \in e.todo THEN r
                                                    ELSE worker.secrets[s]]]
        BY <2>1, <3>3 DEF Worker
      <4>2. worker' \in Worker
        BY <2>1, <3>3, <4>1 DEF Worker
      <4>3. \A s \in Secret : worker'.secrets[s] = IF s \in e.todo THEN r
                                                   ELSE worker.secrets[s]
        BY <4>1
      <4>4. ASSUME NEW s \in Secret, s \in e.todo
            PROVE  worker.secrets[s] = None /\ s \in e.want
        BY <2>1, <3>3, <4>4 DEF Missing, Bound, Shape
      <4> QED BY <3>1, <4>1, <4>2, <4>3, <4>4
    <3> QED BY <2>5, <3>2, <3>3 DEF SetSecretsBulk, Pretended, account
  <2>6. ASSUME NEW command \in Command, Start(r, command)
        PROVE  UNCHANGED <<database, worker, ids>>
    BY <2>6 DEF Start, account
  <2>7. CASE ListDatabases(r) \/ GetWorker(r) \/ ListSecrets(r) \/ EnableWorkersDev(r) \/ Fail(r)
    BY <2>2, <2>7
       DEF ListDatabases, GetWorker, ListSecrets, EnableWorkersDev, Fail, account
  <2> QED BY <2>2, <2>3, <2>4, <2>5, <2>6, <2>7 DEF Step
<1>2. Inv /\ [Next]_vars => [A]_vars
  BY <1>1
<1> QED BY <1>2, Invariance, PTL DEF Spec, OnlyWhatIsMissing

\* The verification fails a run only if another party changed the account during
\* it, or the API reported a success that was none.
THEOREM NoFalseAlarm ==
  Spec => VerifyFailsForCause
<1> DEFINE A == \A r \in Run :
                  /\ InProgress(r) /\ runs[r].verifying /\ ended'[r] = "failed"
                  /\ GetWorker(r) \/ ListSecrets(r)
                  => r \in disturbed \cup deceived
<1>1. ASSUME Inv PROVE A
  <2> SUFFICES ASSUME NEW r \in Run, InProgress(r), runs[r].verifying,
                      ended'[r] = "failed", GetWorker(r) \/ ListSecrets(r),
                      r \notin disturbed, r \notin deceived
               PROVE  FALSE
    OBVIOUS
  <2> DEFINE e == runs[r]
  <2>1. /\ e \in Execution /\ Shape(e) /\ Fresh(r, e) /\ ended[r] = "no"
    BY <1>1, RunningType DEF Inv, Shapes, Freshness, Running
  <2>2. database # None /\ worker # None /\ \A s \in e.want : Bound(s)
    BY <2>1 DEF Shape, Fresh, Progress, Planned
  <2>3. ASSUME NEW f, Proceed(r, f) PROVE FALSE
    BY <2>1, <2>3 DEF Proceed
  <2>4. CASE GetWorker(r)
    BY <2>2, <2>3, <2>4 DEF GetWorker
  <2>5. CASE ListSecrets(r)
    <3> DEFINE f == [e EXCEPT !.bound = {s \in Secret : worker.secrets[s] # None}]
    <3>1. /\ f \in Execution /\ f.verifying = e.verifying
          /\ f.database = e.database /\ f.exists = e.exists /\ f.want = e.want
          /\ f.bound = {s \in Secret : worker.secrets[s] # None}
          /\ e.want \subseteq Secret
      BY <2>1 DEF Execution
    <3> HIDE DEF f
    <3>2. Observed(r, f)
      BY <2>5, <3>1 DEF f, ListSecrets
    <3>3. Diff(f, FALSE) # {}
      BY <1>1, <2>1, <3>1, <3>2, ReturnFacts DEF Inv
    <3>4. f.database # None /\ f.exists
      BY <2>1, <2>2, <2>5, <3>1 DEF ListSecrets, At, Fresh, Observation
    <3>5. \A s \in Secret : s \notin f.want \ f.bound
      BY <2>2, <3>1 DEF Bound
    <3>6. PICK a \in Diff(f, FALSE) : TRUE
      BY <3>3
    <3>7. a \in Action
      BY <3>1, <3>6, DiffFacts
    <3>8. a # "create-d1" /\ a # "deploy-worker"
      BY <3>1, <3>4, <3>6, DiffFacts, ZenonT(40)
    <3>9. a \in Secret
      BY <3>7, <3>8 DEF Action
    <3> QED BY <3>1, <3>5, <3>6, <3>9, DiffFacts
  <2> QED BY <2>4, <2>5
<1>2. Inv /\ [Next]_vars => [A]_vars
  BY <1>1
<1> QED BY <1>2, Invariance, PTL DEF Spec, VerifyFailsForCause

=============================================================================

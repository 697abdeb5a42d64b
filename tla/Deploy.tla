------------------------------- MODULE Deploy -------------------------------
(***************************************************************************)
(* The desired-state engine, the commands that run it, and the Cloudflare  *)
(* account it works on: observe, diff, apply, verify.                      *)
(*                                                                         *)
(* Every call to the API is a step.  A call may fail; a call that changes  *)
(* the account may take effect and lose its answer, or report success and  *)
(* do nothing.  Other runs, and the owner at the dashboard, change the     *)
(* account between any two calls.  The three generated secrets are always  *)
(* wanted together: Admin stands for them.                                 *)
(***************************************************************************)
EXTENDS Naturals

CONSTANTS
  Run,         \* runs of the engine, each one command; also the secret values,
               \*   which are named by the run that supplies or generates them
  Database,    \* ids of D1 databases
  Secret,      \* names of the secrets a run may want
  Admin,       \* ADMIN_SECRET, the operator's password
  None,        \* no database, worker, value or run
  MaxFaults,   \* bound of the model: answers lost or untrue
  MaxRemovals  \* bound of the model: what the owner removes

Command == {"status", "init", "repair", "plan", "install"}
Action == {"create-d1", "deploy-worker"} \cup Secret

\* binding: the id the worker's DB binding holds.
Worker == [binding: Database, secrets: [Secret -> Run \cup {None}]]

\* A run of the engine.  want: config.secrets; have: the names it has values
\* for; database, exists, bound: what it observed; plan: the actions of its
\* diff; todo: those not applied yet.
Execution ==
  [command: Command, want: SUBSET Secret, have: SUBSET Secret,
   at: {"databases", "worker", "secrets", "apply", "publish"},
   verifying: BOOLEAN,
   database: Database \cup {None}, exists: BOOLEAN, bound: SUBSET Secret,
   plan: SUBSET Action, todo: SUBSET Action]

ASSUME DeployAssumption ==
  /\ Admin \in Secret
  /\ {"create-d1", "deploy-worker"} \cap Secret = {}
  /\ None \notin Run \cup Database \cup Worker \cup Execution
  /\ MaxFaults \in Nat /\ MaxRemovals \in Nat

VARIABLES
  database,   \* the database of the configured name, or None
  worker,     \* the worker of the configured name, or None
  published,  \* the worker answers on *.workers.dev
  ids,        \* every database id ever given out
  runs,       \* run -> its execution, or None (not running)
  ended,      \* run -> how it ended: "no" until it does
  disturbed,  \* history: the runs during which another party changed the database
              \*   or the worker
  deceived,   \* history: the runs that were told of a success that was none
  faults, removals

account == <<database, worker, published>>
bounds == <<faults, removals>>
vars == <<database, worker, published, ids, runs, ended, disturbed, deceived, faults,
          removals>>

DeployTypeOK ==
  /\ database \in Database \cup {None}
  /\ worker \in Worker \cup {None}
  /\ published \in BOOLEAN
  /\ ids \in SUBSET Database
  /\ runs \in [Run -> Execution \cup {None}]
  /\ ended \in [Run -> {"no", "done", "failed"}]
  /\ disturbed \in SUBSET Run
  /\ deceived \in SUBSET Run
  /\ faults \in Nat
  /\ removals \in Nat

Init ==
  /\ database = None
  /\ worker = None
  /\ published = FALSE
  /\ ids = {}
  /\ runs = [r \in Run |-> None]
  /\ ended = [r \in Run |-> "no"]
  /\ disturbed = {}
  /\ deceived = {}
  /\ faults = 0
  /\ removals = 0

InProgress(r) == runs[r] # None
At(r, place) == InProgress(r) /\ runs[r].at = place

Proceed(r, e) == runs' = [runs EXCEPT ![r] = e] /\ UNCHANGED ended
End(r, how) == runs' = [runs EXCEPT ![r] = None] /\ ended' = [ended EXCEPT ![r] = how]
Throw(r) == End(r, "failed")
Return(r) == End(r, "done")

\* The database or the worker changes under every other run.
Disturb(r) == disturbed' = disturbed \cup {q \in Run \ {r} : InProgress(q)}

-----------------------------------------------------------------------------
(* The commands.                                                           *)

\* status and the installer's dry run only plan.  The installer has a value for
\* every secret it wants; another caller of the engine may lack some.
Start(r, command) ==
  /\ ~InProgress(r) /\ ended[r] = "no"
  /\ \E want \in SUBSET Secret : \E have \in SUBSET want :
       /\ command \in {"status", "plan"} => have = {}
       /\ command = "install" => Admin \in want /\ have = want
       /\ Proceed(r, [command |-> command, want |-> want, have |-> have,
                      at |-> "databases", verifying |-> FALSE,
                      database |-> None, exists |-> FALSE, bound |-> {},
                      plan |-> {}, todo |-> {}])
  /\ UNCHANGED <<account, ids, disturbed, deceived, bounds>>

DryRun(e) == e.command \in {"status", "plan"}
Forced(e) == e.command \in {"repair", "install"}

-----------------------------------------------------------------------------
(* Observe and diff.                                                       *)

\* Faulty variant: every wanted secret is set again.
DiffSetsAll(e, force) ==
  {a \in Action : \/ a = "create-d1" /\ e.database = None
                  \/ a = "deploy-worker" /\ (~e.exists \/ force)
                  \/ a \in e.want}

\* Faulty variant: secrets are pending only for a worker that is missing.
DiffOfNewWorker(e, force) ==
  {a \in Action : \/ a = "create-d1" /\ e.database = None
                  \/ a = "deploy-worker" /\ (~e.exists \/ force)
                  \/ a \in e.want \ e.bound /\ ~e.exists}

Diff(e, force) ==
  {a \in Action : \/ a = "create-d1" /\ e.database = None
                  \/ a = "deploy-worker" /\ (~e.exists \/ force)
                  \/ a \in e.want \ e.bound}

\* Observe once more, from the start.
Verify(e) == [e EXCEPT !.at = "databases", !.verifying = TRUE, !.database = None,
                       !.exists = FALSE, !.bound = {}, !.todo = {}]

\* Everything is observed: check that every value is there before anything is
\* applied.  Nothing to apply: verify.
Plan(r, e) ==
  LET plan == Diff(e, Forced(e)) IN
  \/ DryRun(e) /\ Return(r)
  \/ /\ ~DryRun(e) /\ plan = {}
     /\ Proceed(r, Verify(e))
  \/ /\ ~DryRun(e) /\ plan # {} /\ plan \cap Secret \subseteq e.have
     /\ Proceed(r, [e EXCEPT !.at = "apply", !.plan = plan, !.todo = plan])
  \/ /\ ~DryRun(e) /\ ~ (plan \cap Secret \subseteq e.have)
     /\ Throw(r)

\* Faulty variant: the force of a repair is passed on to the verification.
CheckForced(r, e) ==
  \/ /\ Diff(e, Forced(e)) = {} /\ e.command = "install"
     /\ Proceed(r, [e EXCEPT !.at = "publish"])
  \/ Diff(e, Forced(e)) = {} /\ e.command # "install" /\ Return(r)
  \/ Diff(e, Forced(e)) # {} /\ Throw(r)

\* Faulty variant: the second diff is not looked at.
CheckNothing(r, e) ==
  \/ e.command = "install" /\ Proceed(r, [e EXCEPT !.at = "publish"])
  \/ e.command # "install" /\ Return(r)

\* Everything is observed again: nothing may be pending.
Check(r, e) ==
  \/ /\ Diff(e, FALSE) = {} /\ e.command = "install"
     /\ Proceed(r, [e EXCEPT !.at = "publish"])
  \/ Diff(e, FALSE) = {} /\ e.command # "install" /\ Return(r)
  \/ Diff(e, FALSE) # {} /\ Throw(r)

Observed(r, e) ==
  \/ ~e.verifying /\ Plan(r, e)
  \/ e.verifying /\ Check(r, e)

ListDatabases(r) ==
  /\ At(r, "databases")
  /\ Proceed(r, [runs[r] EXCEPT !.at = "worker", !.database = database])
  /\ UNCHANGED <<account, ids, disturbed, deceived, bounds>>

\* The secrets of a worker that is not there are not asked for.
GetWorker(r) ==
  /\ At(r, "worker")
  /\ \/ /\ worker # None
        /\ Proceed(r, [runs[r] EXCEPT !.at = "secrets", !.exists = TRUE])
     \/ /\ worker = None
        /\ Observed(r, [runs[r] EXCEPT !.exists = FALSE, !.bound = {}])
  /\ UNCHANGED <<account, ids, disturbed, deceived, bounds>>

ListSecrets(r) ==
  /\ At(r, "secrets")
  /\ worker # None
  /\ Observed(r, [runs[r] EXCEPT !.bound = {s \in Secret : worker.secrets[s] # None}])
  /\ UNCHANGED <<account, ids, disturbed, deceived, bounds>>

-----------------------------------------------------------------------------
(* Apply: the database, the worker, then all secrets in one call.          *)

Turn(r, now, before) ==
  /\ At(r, "apply")
  /\ now \cap runs[r].todo # {}
  /\ before \cap runs[r].todo = {}

\* The engine believes the actions are applied; after the last one it verifies.
Believe(r, e, applied) ==
  Proceed(r, IF e.todo \subseteq applied THEN Verify(e) ELSE [e EXCEPT !.todo = @ \ applied])

Fault == faults < MaxFaults /\ faults' = faults + 1

\* A call that took effect: it is answered, or its answer is lost.
Done(r, e, applied) ==
  /\ Disturb(r)
  /\ \/ Believe(r, e, applied) /\ UNCHANGED faults
     \/ Throw(r) /\ Fault
  /\ UNCHANGED <<deceived, removals>>

\* A call that is answered and did nothing.
Pretended(r, e, applied) ==
  /\ Believe(r, e, applied)
  /\ Fault
  /\ deceived' = deceived \cup {r}
  /\ UNCHANGED <<account, disturbed, removals>>

\* Faulty variant: the id of the new database is not kept for the upload.
Forgotten(e, id) == e

Created(e, id) == [e EXCEPT !.database = id]

\* Database names are unique in an account.
CreateDatabase(r) ==
  /\ Turn(r, {"create-d1"}, {})
  /\ \E id \in Database \ ids :
       LET e == Created(runs[r], id) IN
       /\ ids' = ids \cup {id}
       /\ \/ /\ database = None
             /\ database' = id
             /\ UNCHANGED <<worker, published>>
             /\ Done(r, e, {"create-d1"})
          \/ Pretended(r, e, {"create-d1"})

NoSecrets == [s \in Secret |-> None]

\* The upload replaces the bindings and keeps the secrets.  Its workers_dev flag
\* may publish a new worker, never one that exists.
DeployWorker(r) ==
  LET e == runs[r] IN
  /\ Turn(r, {"deploy-worker"}, {"create-d1"})
  /\ \/ /\ worker' = [binding |-> e.database,
                      secrets |-> IF worker = None THEN NoSecrets ELSE worker.secrets]
        /\ published' \in {published, published \/ worker = None}
        /\ UNCHANGED database
        /\ Done(r, e, {"deploy-worker"})
     \/ Pretended(r, e, {"deploy-worker"})
  /\ UNCHANGED ids

\* A worker that is not there takes no secrets.
SetSecretsBulk(r) ==
  LET e == runs[r] IN
  /\ Turn(r, Secret, {"create-d1", "deploy-worker"})
  /\ \/ /\ worker # None
        /\ worker' = [worker EXCEPT !.secrets =
                        [s \in Secret |-> IF s \in e.todo THEN r ELSE @[s]]]
        /\ UNCHANGED <<database, published>>
        /\ Done(r, e, Secret)
     \/ Pretended(r, e, Secret)
  /\ UNCHANGED ids

-----------------------------------------------------------------------------
(* The installer publishes the worker; a failure is reported, not thrown.  *)

EnableWorkersDev(r) ==
  /\ At(r, "publish")
  /\ Return(r)
  /\ \/ worker # None /\ published' = TRUE
     \/ UNCHANGED published
  /\ UNCHANGED <<database, worker, ids, disturbed, deceived, bounds>>

\* A call fails and has no effect, or the process dies.
Fail(r) ==
  /\ InProgress(r)
  /\ Throw(r)
  /\ UNCHANGED <<account, ids, disturbed, deceived, bounds>>

-----------------------------------------------------------------------------
(* The owner at the dashboard.                                             *)

Remove ==
  /\ removals < MaxRemovals
  /\ removals' = removals + 1
  /\ disturbed' = disturbed \cup {q \in Run : InProgress(q)}
  /\ UNCHANGED <<ids, runs, ended, deceived, faults>>

RemoveDatabase ==
  /\ database # None /\ database' = None
  /\ UNCHANGED <<worker, published>>
  /\ Remove

RemoveWorker ==
  /\ worker # None /\ worker' = None /\ published' = FALSE
  /\ UNCHANGED database
  /\ Remove

Step(r) ==
  \/ \E command \in Command : Start(r, command)
  \/ ListDatabases(r) \/ GetWorker(r) \/ ListSecrets(r)
  \/ CreateDatabase(r) \/ DeployWorker(r) \/ SetSecretsBulk(r)
  \/ EnableWorkersDev(r) \/ Fail(r)

Next == RemoveDatabase \/ RemoveWorker \/ \E r \in Run : Step(r)

Spec == Init /\ [][Next]_vars

-----------------------------------------------------------------------------
(* Properties.                                                             *)

Finishes(r) == InProgress(r) /\ ~DryRun(runs[r]) /\ ended'[r] = "done"

\* "The engine never fails silently": a run that nobody disturbed reports
\* success only when everything it wants is there, and, unless the API deceived
\* it, a worker it deployed is bound to the database of the account.
SuccessMeansReady ==
  [][\A r \in Run :
       Finishes(r) /\ r \notin disturbed'
       => /\ database' # None
          /\ worker' # None
          /\ \A s \in runs[r].want : worker'.secrets[s] # None
          /\ "deploy-worker" \in runs[r].plan /\ r \notin deceived
             => worker'.binding = database']_vars

\* Verification does not cry wolf: it fails a run only if another party changed
\* the account, or the API reported a success that was none.
VerifyFailsForCause ==
  [][\A r \in Run :
       /\ InProgress(r) /\ runs[r].verifying /\ ended'[r] = "failed"
       /\ GetWorker(r) \/ ListSecrets(r)
       => r \in disturbed \cup deceived]_vars

\* Running the engine again is idempotent (SECURITY_REVIEW.md, I10): a run that
\* nobody disturbed makes no second database, redeploys a worker only if it is
\* forced to, and leaves every secret as it is that is bound or that it does not
\* want.  Where nothing is missing, it changes nothing.
OnlyWhatIsMissing ==
  [][\A r \in Run :
       Step(r) /\ InProgress(r) /\ r \notin disturbed
       => /\ database # None => UNCHANGED <<database, ids>>
          /\ worker # None =>
               /\ worker' # None
               /\ ~Forced(runs[r]) => worker'.binding = worker.binding
               /\ \A s \in Secret :
                    worker.secrets[s] # None \/ s \notin runs[r].want
                    => worker'.secrets[s] = worker.secrets[s]]_vars

\* adminSecret in the installer's answer: the value this run generated.
ShowsPassword(e) == e.command = "install" /\ e.plan \cap Secret # {}

\* Where the installer had to bind the password, the one it shows is in force.
NewPasswordWorks ==
  [][\A r \in Run :
       /\ Finishes(r) /\ r \notin disturbed'
       /\ ShowsPassword(runs[r]) /\ Admin \in runs[r].plan
       => worker'.secrets[Admin] = r]_vars

\* deploy.ts: "Only return the admin password when it was ACTUALLY applied".
PasswordWasApplied ==
  [][\A r \in Run :
       Finishes(r) /\ r \notin disturbed' /\ ShowsPassword(runs[r])
       => worker'.secrets[Admin] = r]_vars

=============================================================================

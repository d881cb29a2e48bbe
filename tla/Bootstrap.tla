------------------------------ MODULE Bootstrap ------------------------------
(***************************************************************************)
(* The guest half of starting a node: credentials, workspace, the recorded *)
(* bootstrap commands and the validation, each with what node.yaml says of *)
(* it.  A start works on a copy of the record that it saves at every step; *)
(* it may be cancelled, a command or a save may fail, and the process may  *)
(* die between any two steps, after which the node is started again or     *)
(* retried from the step that failed.                                      *)
(***************************************************************************)
EXTENDS Naturals, FiniteSets

CONSTANTS
  Commands,     \* number of bootstrap commands; one validation follows them
  BootBudgets   \* the histories

\* The history: how many commands may fail, saves may fail, cancellations and
\* crashes may happen, and edits of the frozen commands by the operator; the
\* starts and the retries asked for; what the node was created with; and what
\* the host has to import.
BootBudget == [fail : Nat, disk : Nat, cancel : Nat, crash : Nat, edit : Nat,
               start : Nat, retry : Nat, auth : BOOLEAN, mounted : BOOLEAN,
               host : SUBSET {"id", "pub", "known", "git", "codex", "claude", "account"}]

ASSUME BootAssumption == Commands \in Nat \ {0} /\ BootBudgets \subseteq BootBudget

VARIABLES
  disk,      \* node.yaml and bootstrap.yaml
  call,      \* the start or retry under way, which owns the node's token
  inside,    \* the VM: what was copied into it and which commands completed
  bootLeft

bootVars == <<disk, call, inside, bootLeft>>

-----------------------------------------------------------------------------
Steps == 1..(Commands + 1)
Kind(i) == IF i <= Commands THEN "bootstrap" ELSE "validation"
StepStates == {"pending", "running", "succeeded", "failed", "canceled", "interrupted",
               "unrecorded"}
Homes == {"login", "root"}
Versions == {0, 1}

\* What is left of a finished call; clean (history) says that nothing was left to
\* go wrong when it began.
Idle == [pc |-> "idle", rec |-> disk, first |-> 1, prev |-> "created", at |-> 1,
         resume |-> FALSE, canceled |-> FALSE, clean |-> FALSE]
Returns == call' = [Idle EXCEPT !.rec = disk', !.clean = call.clean]

Costs(what) == /\ bootLeft[what] > 0
               /\ bootLeft' = [bootLeft EXCEPT ![what] = @ - 1]

\* appendBootstrapSteps: the steps the stored commands stand for.
appendBootstrapSteps(commands, state) == [i \in Steps |-> [cmd |-> commands[i], state |-> state]]

ensureSteps_Kept(rec) == [i \in Steps |-> [rec.steps[i] EXCEPT !.cmd = rec.commands[i]]]

\* ensureSteps: success evidence is kept only for the very same commands.
ensureSteps(rec) ==
  IF \A i \in Steps : rec.steps[i].cmd = rec.commands[i] THEN rec.steps
  ELSE appendBootstrapSteps(rec.commands, IF rec.completed THEN "unrecorded" ELSE "pending")

interruptRunningSteps(steps) ==
  [i \in Steps |-> IF steps[i].state = "running" THEN [steps[i] EXCEPT !.state = "interrupted"]
                   ELSE steps[i]]

\* prepareSteps: where a retry resumes; 0 when it is refused.
FirstFailed(steps) ==
  LET bad == {i \in Steps : steps[i].state \in {"failed", "interrupted"}} IN
  IF bad = {} THEN 0 ELSE CHOOSE i \in bad : \A j \in bad : i <= j
prepareSteps(rec, resume) ==
  LET steps == interruptRunningSteps(ensureSteps(rec))
      start == FirstFailed(steps)
      refused == \/ start = 0
                 \/ rec.completed /\ Kind(start) # "validation"
                 \/ ~rec.completed /\ \E i \in 1..(start - 1) :
                      Kind(i) = "bootstrap" /\ steps[i].state # "succeeded"
  IN [steps |-> steps, first |-> IF ~resume THEN 1 ELSE IF refused THEN 0 ELSE start]

\* resetSteps: when the guest is about to execute, not before.
resetSteps(rec, first) ==
  [rec EXCEPT !.steps = [i \in Steps |->
     IF i < first \/ (rec.completed /\ Kind(i) = "bootstrap") THEN @[i]
     ELSE [@[i] EXCEPT !.state = "pending"]]]

\* recoverStaleNodeClaim: an in-flight status without an owner is a failure.
recoverStaleNodeClaim(rec) ==
  [rec EXCEPT !.status = IF @ = "provisioning" THEN "failed" ELSE @]

\* migrateKnownBuiltInNodeBootstrap: a replaced command makes a completed
\* bootstrap incomplete again, a replaced validation does not.
migrateKnownBuiltInNodeBootstrap(rec, i) ==
  IF i = 0 THEN rec
  ELSE [rec EXCEPT !.commands[i] = 1 - @, !.completed = @ /\ Kind(i) # "bootstrap"]

-----------------------------------------------------------------------------
\* The metadata phase of a start (resume = FALSE) or of a retry: a new release
\* may have migrated a built-in command (i # 0).  The migration and the
\* recovery of a stale claim are saved even when the retry is then refused.
NodeStart(resume, i) ==
  LET rec == recoverStaleNodeClaim(migrateKnownBuiltInNodeBootstrap(disk, i))
      plan == prepareSteps(rec, resume)
      asked == IF resume THEN "retry" ELSE "start" IN
  /\ call.pc = "idle" /\ bootLeft[asked] > 0 /\ (i # 0 => bootLeft.edit > 0)
  /\ bootLeft' = [bootLeft EXCEPT ![asked] = @ - 1, !.edit = IF i = 0 THEN @ ELSE @ - 1]
  /\ IF (resume /\ rec.status # "failed") \/ plan.first = 0
     THEN disk' = rec /\ Returns
     ELSE /\ disk' = [rec EXCEPT !.steps = plan.steps, !.status = "provisioning"]
          /\ call' = [Idle EXCEPT !.pc = "boot", !.rec = disk', !.first = plan.first,
                                  !.prev = rec.status, !.resume = resume,
                                  !.clean = \A what \in {"fail", "disk", "cancel", "crash"} :
                                              bootLeft[what] = 0]
  /\ UNCHANGED inside

\* Ways out.  restoreNodeStatus re-reads the record and gives back the status
\* it had; recordNodeStartRollback saves the call's copy as failed; a save that
\* fails with nothing undone leaves the record as it is.
restoreNodeStatus ==
  /\ disk' = [disk EXCEPT !.status = call.prev]
  /\ Returns /\ UNCHANGED inside
recordNodeStartRollback(rec) ==
  /\ disk' = [rec EXCEPT !.status = "failed"]
  /\ Returns
AbandonStart == UNCHANGED <<disk, inside>> /\ Returns

\* A context that is cancelled fails the next save or command; a disk that is
\* full fails a save.
SaveFails == \/ call.canceled /\ UNCHANGED bootLeft
             \/ Costs("disk")
Proceed(pc, rec) == call' = [call EXCEPT !.pc = pc, !.rec = rec]

\* Listing the runtime, host ports, application forwarding, whose flag is
\* saved, and the boot.
StartVM ==
  /\ call.pc = "boot"
  /\ \/ /\ Proceed("auth", call.rec)
        /\ UNCHANGED <<disk, inside, bootLeft>>
     \/ /\ (call.canceled /\ UNCHANGED bootLeft) \/ Costs("fail")
        /\ restoreNodeStatus
     \/ SaveFails /\ AbandonStart

\* collect: what the host contributes.  Host keys are pinned, or accepted on
\* first use, only beside an identity; the account only beside credentials.
collect(host) ==
  ({"id", "git", "codex", "claude"} \cap host)
    \cup (IF "id" \in host
          THEN ({"pub"} \cap host) \cup {IF "known" \in host THEN "known" ELSE "accept"}
          ELSE {})
    \cup (IF "claude" \in host THEN {"account"} \cap host ELSE {})

\* The placement installs the bundle in the login user's home, then in root's.
Placed(home, n) == [inside EXCEPT !.home = [h \in Homes |->
                      IF h \in home THEN @[h] \cup collect(bootLeft.host) ELSE @[h]],
                      !.imports = IF @ < 2 THEN @ + n ELSE @]
\* importHostAuth, when the node was created with it and the record does not
\* say it is done: a failure anywhere fails the start.
importHostAuth ==
  /\ call.pc = "auth"
  /\ \/ /\ call.rec.auth \/ ~bootLeft.auth
        /\ Proceed(IF call.rec.auth THEN "workspace" ELSE "saveAuth", call.rec)
        /\ UNCHANGED <<disk, inside, bootLeft>>
     \/ /\ ~call.rec.auth /\ bootLeft.auth /\ ~call.canceled
        /\ inside' = Placed(Homes, 1)
        /\ Proceed("saveAuth", call.rec) /\ UNCHANGED <<disk, bootLeft>>
     \/ /\ ~call.rec.auth /\ bootLeft.auth
        /\ (call.canceled /\ UNCHANGED bootLeft) \/ Costs("fail")
        /\ \E home \in {{}, {"login"}} : inside' = Placed(home, 0)
        /\ recordNodeStartRollback(call.rec)
SaveAuth ==
  /\ call.pc = "saveAuth"
  /\ \/ /\ disk' = [call.rec EXCEPT !.auth = TRUE]
        /\ Proceed("workspace", disk') /\ UNCHANGED <<inside, bootLeft>>
     \/ SaveFails /\ AbandonStart

\* prepareGuestWorkspace, in copy mode: clear the target, then copy the tree.
\* A mounted workspace is recorded as seeded without a copy.
prepareGuestWorkspace ==
  /\ call.pc = "workspace"
  /\ \/ /\ call.rec.completed \/ call.rec.seeded
        /\ Proceed("reset", call.rec) /\ UNCHANGED <<disk, inside, bootLeft>>
     \/ /\ ~(call.rec.completed \/ call.rec.seeded) /\ (~call.canceled \/ bootLeft.mounted)
        /\ inside' = [inside EXCEPT !.seeds = IF bootLeft.mounted \/ @ = 2 THEN @ ELSE @ + 1,
                                  !.tree = "whole"]
        /\ Proceed("saveSeed", call.rec) /\ UNCHANGED <<disk, bootLeft>>
     \/ /\ ~(call.rec.completed \/ call.rec.seeded) /\ ~bootLeft.mounted
        /\ (call.canceled /\ UNCHANGED bootLeft) \/ Costs("fail")
        /\ inside' = [inside EXCEPT !.tree = "partial"]
        /\ recordNodeStartRollback(call.rec)
SaveSeed ==
  /\ call.pc = "saveSeed"
  /\ \/ /\ disk' = [call.rec EXCEPT !.seeded = TRUE]
        /\ Proceed("reset", disk') /\ UNCHANGED <<inside, bootLeft>>
     \/ SaveFails /\ AbandonStart
BeginSteps ==
  /\ call.pc = "reset"
  /\ call' = [call EXCEPT !.pc = "step", !.rec = resetSteps(@, call.first), !.at = call.first]
  /\ UNCHANGED <<disk, inside, bootLeft>>

\* The loop over the steps: commands of a completed bootstrap are passed over.
StepState(i, s) == [call.rec EXCEPT !.steps[i].state = s]

Passed(i) == call.rec.completed /\ Kind(i) = "bootstrap"

PassStep ==
  /\ call.pc = "step" /\ call.at \in Steps /\ Passed(call.at)
  /\ call' = [call EXCEPT !.at = @ + 1]
  /\ UNCHANGED <<disk, inside, bootLeft>>

\* runRecordedBootstrapStep: "running" is saved first.  A cancelled context is
\* noticed before the step is touched or by the save.
BeginStep ==
  LET i == call.at IN
  /\ call.pc = "step" /\ i \in Steps /\ ~Passed(i)
  /\ \/ /\ ~call.canceled
        /\ disk' = StepState(i, "running")
        /\ Proceed("command", disk') /\ UNCHANGED bootLeft
     \/ /\ call.canceled
        /\ recordNodeStartRollback(call.rec) /\ UNCHANGED bootLeft
     \/ /\ SaveFails
        /\ recordNodeStartRollback(StepState(i, "running"))
  /\ UNCHANGED inside
\* The command runs in the guest; its outcome is saved under the rollback lock
\* even when the call was cancelled.  The log may fail after a success.
RunStep ==
  LET i == call.at
      ok == [inside EXCEPT !.done = @ \cup {<<i, call.rec.steps[i].cmd>>}] IN
  /\ call.pc = "command"
  /\ \/ /\ ~call.canceled /\ inside' = ok /\ Proceed("saveStep", StepState(i, "succeeded"))
        /\ UNCHANGED bootLeft
     \/ /\ ~call.canceled /\ Costs("fail") /\ inside' \in {inside, ok}
        /\ Proceed("saveStep", StepState(i, "failed"))
     \/ /\ call.canceled /\ inside' \in {inside, ok}
        /\ Proceed("saveStep", StepState(i, "canceled")) /\ UNCHANGED bootLeft
  /\ UNCHANGED disk
SaveStep ==
  LET i == call.at
      ok == call.rec.steps[i].state = "succeeded" IN
  /\ call.pc = "saveStep"
  /\ \/ /\ ok /\ disk' = call.rec /\ UNCHANGED bootLeft
        /\ call' = [call EXCEPT !.pc = "step", !.at = @ + 1]
     \/ /\ ~ok /\ UNCHANGED bootLeft /\ recordNodeStartRollback(call.rec)
     \/ /\ ok /\ Costs("disk") /\ recordNodeStartRollback(call.rec)
     \/ /\ Costs("disk") /\ disk' = disk /\ Returns
  /\ UNCHANGED inside

\* Completion, in one save.
StartCommit ==
  /\ call.pc = "step" /\ call.at \notin Steps
  /\ \/ /\ disk' = [call.rec EXCEPT !.status = "running", !.completed = TRUE]
        /\ Returns /\ UNCHANGED <<inside, bootLeft>>
     \/ SaveFails /\ AbandonStart

\* A phase that cannot be recorded ends the start where it is: the deferred
\* rollback saves the copy as failed.
advanceOperationPhase ==
  /\ call.pc \in {"boot", "auth", "workspace", "step"} /\ Costs("disk")
  /\ recordNodeStartRollback(call.rec) /\ UNCHANGED inside

Cancel ==
  /\ call.pc # "idle" /\ ~call.canceled /\ Costs("cancel")
  /\ call' = [call EXCEPT !.canceled = TRUE]
  /\ UNCHANGED <<disk, inside>>
\* The process dies; a command it had running in the guest may have completed.
ProcessDies ==
  /\ call.pc # "idle" /\ Costs("crash")
  /\ inside' \in {inside} \cup
       IF call.pc = "command"
       THEN {[inside EXCEPT !.done = @ \cup {<<call.at, call.rec.steps[call.at].cmd>>}]}
       ELSE {}
  /\ UNCHANGED disk /\ Returns
\* The operator repairs a command in the record of an idle node.
EditCommand(i) ==
  /\ call.pc = "idle" /\ Costs("edit")
  /\ disk' = [disk EXCEPT !.commands[i] = 1 - @]
  /\ Returns /\ UNCHANGED inside

BootInit ==
  /\ bootLeft \in BootBudgets
  /\ disk = [status |-> "created", commands |-> [i \in Steps |-> 0],
             steps |-> appendBootstrapSteps([i \in Steps |-> 0], "pending"),
             completed |-> FALSE, auth |-> FALSE, seeded |-> FALSE]
  /\ inside = [home |-> [h \in Homes |-> {}], imports |-> 0, seeds |-> 0,
              tree |-> "none", done |-> {}]
  /\ call = Idle

StartStep ==
  \/ StartVM \/ importHostAuth \/ SaveAuth \/ prepareGuestWorkspace \/ SaveSeed
  \/ BeginSteps \/ PassStep \/ BeginStep \/ RunStep \/ SaveStep \/ StartCommit
BootNext ==
  \/ \E resume \in BOOLEAN, i \in {0} \cup Steps : NodeStart(resume, i)
  \/ StartStep \/ advanceOperationPhase \/ Cancel \/ ProcessDies
  \/ \E i \in Steps : EditCommand(i)

\* A call that runs takes its next step.
BootFairness == WF_bootVars(StartStep)

BootSpec == BootInit /\ [][BootNext]_bootVars /\ BootFairness

-----------------------------------------------------------------------------
\* Every variable has its type.
BootTypeOK ==
  /\ disk.status \in {"created", "provisioning", "failed", "running"}
  /\ \A i \in Steps : disk.steps[i].state \in StepStates /\ disk.steps[i].cmd \in Versions
  /\ call.at \in 1..(Commands + 2) /\ call.first \in Steps
  /\ inside.done \subseteq (Steps \X Versions)
  /\ \A h \in Homes : inside.home[h] \subseteq {"id", "pub", "known", "accept", "git", "codex",
                                              "claude", "account"}

\* The record is evidence: a step it calls succeeded is one whose very command
\* completed in the guest, through crashes, cancellations, failed saves and
\* edits (ensureSteps: "Never reuse success evidence after commands change").
SuccessIsEvidence ==
  \A i \in Steps : disk.steps[i].state = "succeeded" => <<i, disk.steps[i].cmd>> \in inside.done

\* A command starts only in a guest where every earlier command of the recipe
\* has completed, wherever a retry resumed.
CommandsInOrder ==
  call.pc = "command" =>
    \A j \in 1..(call.at - 1) :
      Kind(j) = "bootstrap" =>
        \/ <<j, call.rec.steps[j].cmd>> \in inside.done
        \/ call.rec.completed /\ call.rec.steps[j].state = "unrecorded"

\* A completed bootstrap is complete: the whole of what the host offered is in
\* both homes, the workspace is, and every command of the recipe has run.
CompletedIsProvisioned ==
  disk.completed =>
    /\ disk.auth /\ disk.seeded
    /\ bootLeft.auth => \A h \in Homes : collect(bootLeft.host) \subseteq inside.home[h]
    /\ inside.tree = "whole"
    /\ \A i \in 1..Commands : \/ <<i, disk.steps[i].cmd>> \in inside.done
                              \/ disk.steps[i].state = "unrecorded"

\* What the record says is done is not done again: credentials the guest may
\* have rotated, a workspace the user may have edited, the commands of a
\* completed bootstrap, and, on a retry, the steps before the failed one.
DoneStaysDone ==
     /\ disk.auth => inside'.imports = inside.imports
     /\ disk.seeded => inside'.seeds = inside.seeds
     /\ (call'.pc = "command" /\ call.pc = "step") =>
          /\ ~(disk.completed /\ Kind(call.at) = "bootstrap")
          /\ call.resume => disk.steps[call.at].state # "succeeded"

\* However starts failed, were cancelled or died before, and whatever record of
\* steps they left, a start or an accepted retry with nothing left to go wrong
\* leaves the node running: no such record is a dead end (service.go:1354).
CleanStartSucceeds == call.pc = "idle" /\ call.clean => disk.status = "running"

\* A start or a retry always returns.
StartReturns == []<>(call.pc = "idle")

\* The record of a node's provisioning is evidence, and no record is a dead end.
ProvisioningIsSound == /\ BootTypeOK /\ SuccessIsEvidence /\ CommandsInOrder
                       /\ CompletedIsProvisioned /\ CleanStartSucceeds

=============================================================================

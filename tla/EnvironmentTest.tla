-------------------------- MODULE EnvironmentTest --------------------------
(***************************************************************************)
(* A test of an environment: a private node is created, started with the   *)
(* frozen commands, and torn down again, whatever happened to it.  The     *)
(* plan is saved before anything is done; the teardown is repeated until   *)
(* it succeeds, by this daemon or by the one after a shutdown or a crash.  *)
(* The instance name is free again once the node is deleted, and another   *)
(* node may take it.                                                       *)
(***************************************************************************)
EXTENDS Naturals

CONSTANT TestBudgets   \* the histories

\* How many runtime calls and how many writes may fail; cancellations, crashes
\* and shutdowns; runs of cleanup-incomplete; whether another node takes the
\* name, and whether receipts grow old.
TestBudget == [test : Nat, fail : Nat, disk : Nat, cancel : Nat, crash : Nat,
               close : Nat, cli : Nat, other : Nat, age : Nat]

ASSUME TestAssumption == TestBudgets \subseteq TestBudget

VARIABLES
  daemon,   \* "up", "closing" or "down"
  op,       \* the worker of the test in the daemon's memory
  receipt,  \* the operation's record on disk
  node,     \* the private node: its record, its workspace, the name's index entry
  vm,       \* whose virtual machine has the name: "none", "test" or "other"
  token,    \* who holds the liveness token of the node
  ran,      \* ghost: the frozen commands ran to success
  testLeft

testVars == <<daemon, op, receipt, node, vm, token, ran, testLeft>>

-----------------------------------------------------------------------------
NoReceipt == [state |-> "absent", outcome |-> "", pending |-> FALSE]
NoWorker == [pc |-> "none", cause |-> "none", failed |-> FALSE, outcome |-> "", error |-> FALSE]
Gone == [rec |-> "none", dir |-> FALSE, index |-> "none"]

Uses(what) == /\ testLeft[what] > 0
              /\ testLeft' = [testLeft EXCEPT ![what] = @ - 1]
Canceled == op.cause # "none"
\* A runtime call fails, or gives up because its context is done.
CallFails == (Canceled /\ UNCHANGED testLeft) \/ Uses("fail")
\* The teardown's context is another one, which ends only with the daemon.
TeardownFails == (daemon = "closing" /\ UNCHANGED testLeft) \/ Uses("fail")
To(pc) == op' = [op EXCEPT !.pc = pc]
Fails(pc) == op' = [op EXCEPT !.pc = pc, !.failed = TRUE]

Submit_Unpromised ==
  /\ daemon = "up" /\ op.pc = "none" /\ Uses("test")
  /\ receipt' = [state |-> "running", outcome |-> "", pending |-> FALSE]
  /\ To("create")
  /\ UNCHANGED <<daemon, node, vm, token, ran>>

\* Submit: prepareEnvironmentTest freezes the plan and the receipt is saved
\* with it, teardown pending, before the worker starts.
Submit ==
  /\ daemon = "up" /\ op.pc = "none" /\ Uses("test")
  /\ receipt' = [state |-> "running", outcome |-> "", pending |-> TRUE]
  /\ To("create")
  /\ UNCHANGED <<daemon, node, vm, token, ran>>
\* A phase that cannot be recorded fails the test before the call.
advancePhase ==
  /\ op.pc \in {"create", "start"} /\ Uses("disk")
  /\ Fails("outcome")
  /\ UNCHANGED <<daemon, receipt, node, vm, token, ran>>

\* createEnvironmentTestNode: reserve the identity and the name under the node
\* lock, make the empty workspace, then createReservedNode.
createEnvironmentTestNode ==
  /\ op.pc = "create"
  /\ \/ /\ node = Gone /\ token = "free" /\ ~Canceled
        /\ node' = [node EXCEPT !.rec = "reserved", !.index = "test"]
        /\ token' = "test" /\ To("mkdir") /\ UNCHANGED testLeft
     \/ /\ CallFails \/ (node # Gone /\ UNCHANGED testLeft)
        /\ Fails("outcome") /\ UNCHANGED <<node, token>>
  /\ UNCHANGED <<daemon, receipt, vm, ran>>
MakeWorkspace ==
  /\ op.pc = "mkdir"
  /\ \/ node' = [node EXCEPT !.dir = TRUE] /\ To("vm") /\ UNCHANGED <<token, testLeft>>
     \/ Uses("disk") /\ Fails("outcome") /\ token' = "free" /\ UNCHANGED node
  /\ UNCHANGED <<daemon, receipt, vm, ran>>
\* A create that fails may have left an instance; runtimeMutationMayHaveCreated
\* says whether to undo it.
CreateVM ==
  /\ op.pc = "vm"
  /\ \/ vm' = "test" /\ To("save") /\ UNCHANGED testLeft
     \/ CallFails /\ vm' \in {"none", "test"} /\ Fails("undoVM")
     \/ CallFails /\ UNCHANGED vm /\ Fails("undoMetadata")
  /\ UNCHANGED <<daemon, receipt, node, token, ran>>
SaveTestNode ==
  /\ op.pc = "save"
  /\ \/ /\ node' = [node EXCEPT !.rec = "live"] /\ token' = "free"
        /\ To("start") /\ UNCHANGED testLeft
     \/ /\ (Canceled /\ UNCHANGED testLeft) \/ Uses("disk")
        /\ Fails("undoVM") /\ UNCHANGED <<node, token>>
  /\ UNCHANGED <<daemon, receipt, vm, ran>>
\* The rollback of createReservedNode keeps the metadata of an instance it
\* could not delete.
UndoVM ==
  /\ op.pc = "undoVM"
  /\ \/ vm' = "none" /\ To("undoMetadata") /\ UNCHANGED <<token, testLeft>>
     \/ Uses("fail") /\ To("outcome") /\ token' = "free" /\ UNCHANGED vm
  /\ UNCHANGED <<daemon, receipt, node, ran>>
UndoMetadata ==
  /\ op.pc = "undoMetadata"
  /\ \/ node' = Gone /\ UNCHANGED testLeft
     \/ Uses("disk") /\ UNCHANGED node
  /\ To("outcome") /\ token' = "free"
  /\ UNCHANGED <<daemon, receipt, vm, ran>>

\* NodeStart, as one call that runs the commands or fails.
StartNode ==
  /\ op.pc = "start"
  /\ \/ token = "free" /\ ran' = TRUE /\ To("outcome") /\ UNCHANGED testLeft
     \/ CallFails /\ Fails("outcome") /\ UNCHANGED ran
  /\ UNCHANGED <<daemon, receipt, node, vm, token>>

\* environmentTestOutcome: the cause of the end counts before the error.
environmentTestOutcome ==
  CASE op.cause = "closed" -> "interrupted"
    [] op.cause = "canceled" -> "canceled"
    [] op.cause = "none" /\ op.failed -> "failed"
    [] OTHER -> "succeeded"
RecordOutcome ==
  /\ op.pc = "outcome"
  /\ \/ /\ receipt' = [receipt EXCEPT !.outcome = environmentTestOutcome]
        /\ op' = [op EXCEPT !.pc = "cleanup", !.outcome = environmentTestOutcome]
        /\ UNCHANGED testLeft
     \/ /\ Uses("disk") /\ UNCHANGED receipt
        /\ op' = [op EXCEPT !.pc = "cleanup", !.outcome = environmentTestOutcome, !.failed = TRUE]
  /\ UNCHANGED <<daemon, node, vm, token, ran>>

Tombstoned == node.rec = "deleted"

\* cleanupEnvironmentTest: what is left decides what is done.  A tombstone is
\* never deleted again; a reservation is deleted with its metadata; nothing
\* left is success.  The name must still be the test's.
cleanupEnvironmentTest ==
  /\ op.pc = "cleanup"
  /\ CASE Tombstoned -> To("rmdir") /\ UNCHANGED token
       [] node.rec = "none" ->
            /\ op' = [op EXCEPT !.pc = IF token = "free" THEN "final" ELSE "retry", !.error = FALSE]
            /\ UNCHANGED token
       [] OTHER ->
            IF token = "free" /\ node.index \in {"none", "test"}
            THEN token' = "test" /\ To("deleteVM")
            ELSE UNCHANGED token /\ To("retry")
  /\ UNCHANGED <<daemon, receipt, node, vm, ran, testLeft>>
DeleteVM ==
  /\ op.pc = "deleteVM"
  /\ \/ vm' = "none" /\ To("commit") /\ UNCHANGED <<token, testLeft>>
     \/ TeardownFails /\ To("retry") /\ token' = "free" /\ UNCHANGED vm
  /\ UNCHANGED <<daemon, receipt, node, ran>>
\* The tombstone of a live node gives up the name; the metadata of a
\* reservation goes as a whole.
DeleteCommit ==
  /\ op.pc = "commit" /\ token' = "free"
  /\ \/ /\ UNCHANGED testLeft
        /\ IF node.rec = "live"
           THEN node' = [node EXCEPT !.rec = "deleted", !.index = "none"] /\ To("rmdir")
           ELSE node' = Gone /\ op' = [op EXCEPT !.pc = "final", !.error = FALSE]
     \/ /\ (daemon = "closing" /\ UNCHANGED testLeft) \/ Uses("disk")
        /\ To("retry") /\ UNCHANGED node
  /\ UNCHANGED <<daemon, receipt, vm, ran>>
RemoveWorkspace ==
  /\ op.pc = "rmdir"
  /\ \/ /\ node' = [node EXCEPT !.dir = FALSE]
        /\ op' = [op EXCEPT !.pc = "final", !.error = FALSE] /\ UNCHANGED testLeft
     \/ Uses("disk") /\ To("retry") /\ UNCHANGED node
  /\ UNCHANGED <<daemon, receipt, vm, token, ran>>
RetryCleanup_Once ==
  /\ op.pc = "retry"
  /\ op' = [op EXCEPT !.pc = "final", !.error = TRUE]
  /\ UNCHANGED <<daemon, receipt, node, vm, token, ran, testLeft>>

\* The loop: again in five seconds, unless the daemon is going away.  The error
\* is saved; when it cannot be, a test that succeeded is reported as failed.
RetryCleanup ==
  /\ op.pc = "retry"
  /\ \E unsaved \in BOOLEAN :
       /\ IF unsaved THEN Uses("disk") ELSE UNCHANGED testLeft
       /\ op' = [op EXCEPT !.pc = IF daemon = "closing" THEN "final" ELSE "cleanup",
                           !.error = daemon = "closing", !.failed = @ \/ unsaved]
  /\ UNCHANGED <<daemon, receipt, node, vm, token, ran>>

\* The end of runEnvironmentTest: one save of the state, the outcome and
\* whether teardown is still owed.
Concluded ==
  [state |-> IF op.error THEN "interrupted"
             ELSE IF op.failed /\ op.outcome = "succeeded" THEN "failed" ELSE op.outcome,
   outcome |-> op.outcome, pending |-> op.error]
FinishTest ==
  /\ op.pc = "final"
  /\ \/ receipt' = Concluded /\ UNCHANGED testLeft
     \/ Uses("disk") /\ UNCHANGED receipt
  /\ op' = [NoWorker EXCEPT !.pc = "done"]
  /\ UNCHANGED <<daemon, node, vm, token, ran>>

-----------------------------------------------------------------------------
Executing == op.pc \notin {"none", "done"}
CancelTest ==
  /\ Executing /\ op.cause = "none" /\ Uses("cancel")
  /\ op' = [op EXCEPT !.cause = "canceled"]
  /\ UNCHANGED <<daemon, receipt, node, vm, token, ran>>
CloseOperations ==
  /\ daemon = "up" /\ Uses("close")
  /\ daemon' = "closing"
  /\ op' = IF Executing /\ op.cause = "none" THEN [op EXCEPT !.cause = "closed"] ELSE op
  /\ UNCHANGED <<receipt, node, vm, token, ran>>
Down ==
  /\ daemon' = "down" /\ op' = NoWorker
  /\ token' = IF token = "test" THEN "free" ELSE token
Exit ==
  /\ daemon = "closing" /\ ~Executing /\ Down
  /\ UNCHANGED <<receipt, node, vm, ran, testLeft>>
CrashDaemon ==
  /\ daemon # "down" /\ Uses("crash") /\ Down
  /\ UNCHANGED <<receipt, node, vm, ran>>
Resumed(outcome) == IF outcome = "" THEN "interrupted" ELSE outcome

\* newNodeOperations: a test whose teardown is owed is taken up again, without
\* running anything; an unfinished receipt is interrupted.
Reload ==
  /\ daemon = "down" /\ daemon' = "up"
  /\ IF receipt.pending
     THEN /\ receipt' = [receipt EXCEPT !.state = "running", !.outcome = Resumed(@)]
          /\ op' = [NoWorker EXCEPT !.pc = "cleanup", !.outcome = receipt'.outcome]
     ELSE UNCHANGED <<receipt, op>>
  /\ UNCHANGED <<node, vm, token, ran, testLeft>>
\* operationExpired.
Expire ==
  /\ ~receipt.pending /\ receipt.state \notin {"absent", "running"} /\ Uses("age")
  /\ receipt' = NoReceipt
  /\ UNCHANGED <<daemon, op, node, vm, token, ran>>

\* NodeCleanupIncomplete of another process, on a reservation nobody holds.
CleanupIncomplete ==
  \/ /\ node.rec = "reserved" /\ token = "free" /\ Uses("cli")
     /\ token' = "cli" /\ UNCHANGED <<vm, node>>
  \/ /\ token = "cli" /\ node.rec = "reserved"
     /\ \/ vm = "test" /\ vm' = "none" /\ UNCHANGED <<token, node, testLeft>>
        \/ vm = "none" /\ node' = Gone /\ token' = "free" /\ UNCHANGED <<vm, testLeft>>
        \/ Uses("fail") /\ token' = "free" /\ UNCHANGED <<vm, node>>
CliCleanup == CleanupIncomplete /\ UNCHANGED <<daemon, op, receipt, ran>>
\* Another node is created with the name once generateSandboxName allows it.
OtherTakesName ==
  /\ node.index = "none" /\ node.rec \in {"none", "deleted"} /\ vm = "none" /\ Uses("other")
  /\ node' = [node EXCEPT !.index = "other"] /\ vm' = "other"
  /\ UNCHANGED <<daemon, op, receipt, token, ran>>

TestInit ==
  /\ testLeft \in TestBudgets
  /\ daemon = "up" /\ op = NoWorker /\ receipt = NoReceipt /\ node = Gone
  /\ vm = "none" /\ token = "free" /\ ran = FALSE

Worker ==
  \/ createEnvironmentTestNode \/ MakeWorkspace \/ CreateVM \/ SaveTestNode \/ UndoVM
  \/ UndoMetadata \/ StartNode \/ RecordOutcome \/ cleanupEnvironmentTest \/ DeleteVM
  \/ DeleteCommit \/ RemoveWorkspace \/ RetryCleanup \/ FinishTest
TestNext ==
  \/ Submit \/ advancePhase \/ Worker \/ CancelTest \/ CloseOperations \/ Exit
  \/ CrashDaemon \/ Reload \/ Expire \/ CliCleanup \/ OtherTakesName

\* The worker runs, a closing daemon exits, a daemon is started again, and the
\* process that runs cleanup-incomplete finishes.
TestFairness ==
  /\ WF_testVars(Worker) /\ WF_testVars(Exit) /\ WF_testVars(Reload)
  /\ WF_testVars(CliCleanup /\ token = "cli")

TestSpec == TestInit /\ [][TestNext]_testVars /\ TestFairness

-----------------------------------------------------------------------------
\* Every variable has its type.
TestTypeOK ==
  /\ daemon \in {"up", "closing", "down"} /\ token \in {"free", "test", "cli"}
  /\ receipt.state \in {"absent", "running", "interrupted", "canceled", "failed", "succeeded"}
  /\ node.rec \in {"none", "reserved", "live", "deleted"} /\ vm \in {"none", "test", "other"}
  /\ receipt.pending => receipt.state \in {"running", "interrupted"}

\* The machine and the workspace of a test always have a saved promise of
\* their removal: no failure, shutdown or crash leaves them to nobody, and the
\* receipt that owes it does not expire.
TeardownIsOwed == (vm = "test" \/ node.dir) => receipt.pending

\* A test reported as a success ran all its commands, and left nothing.
SuccessIsComplete ==
  receipt.state = "succeeded" => ran /\ vm # "test" /\ ~node.dir /\ node.rec # "reserved"

\* The outcome saved before teardown is the test's outcome for good, however
\* teardown goes and whoever finishes it.
OutcomeKept ==
     receipt.outcome # "" /\ receipt'.state # "absent"
       => receipt'.outcome = receipt.outcome

\* Teardown never touches the machine of a node that has taken the name
\* (cleanupEnvironmentTest: "another node could now own that runtime name").
TeardownSparesOthers == vm = "other" => vm' = "other"

\* Teardown comes to an end: the machine and the workspace are removed, by this
\* daemon or a later one.
TeardownHappens == []<>(vm # "test" /\ ~node.dir)

\* Whatever a test has made is owed a removal, and a test called a success was one.
TestIsAccounted == TestTypeOK /\ TeardownIsOwed /\ SuccessIsComplete

=============================================================================

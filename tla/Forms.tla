-------------------------------- MODULE Forms --------------------------------
(***************************************************************************)
(* The forms of a window that create and edit: the new-node form with its  *)
(* background checks and its submission (tui_create_node.go,               *)
(* tui_create_submit.go), its template picker and directory browser        *)
(* (tui_create_choices.go), the template, environment and command editors  *)
(* (tui_template_editor.go, tui_template_input.go,                         *)
(* tui_environment_editor.go, tui_command_editor.go) and the start of an   *)
(* environment test (tui_environment_run.go).                              *)
(*                                                                         *)
(* A name, a directory, a template and the text of an editor are small     *)
(* numbers.  Work in the background leaves its answer in mail; the daemon  *)
(* keeps one receipt per request identity (booked), so a request sent      *)
(* again under its identity is answered from the receipt.                  *)
(***************************************************************************)
EXTENDS Integers, Sequences, FiniteSets, SequencesExt

CONSTANTS FormNames, FormBudgets

ASSUME FormAssumption == /\ FormNames \subseteq Nat \ {0}
                         /\ FormBudgets \subseteq [open : Nat, edit : Nat, send : Nat, lose : Nat, born : Nat, tmpl : Nat,
                                                   nav : Nat, test : Nat, fail : Nat, load : Nat]

VARIABLES form,        \* the new-node form
          stack,       \* what lies over the form: the picker, an editor, the command editor
          editor,      \* the template or environment editor
          mail,        \* answers of background work
          calls,       \* submissions on their way to the daemon
          booked,      \* the daemon's receipts
          taken,       \* the names in use
          stored,      \* the templates in the store
          intent,      \* a jump to the node of an accepted creation
          testing,     \* the request of an environment test
          gen, place,  \* managerGeneration; what the window shows
          issued,      \* the request identities made so far
          quota

formVars == <<form, stack, editor, mail, calls, booked, taken, stored, intent, testing, gen, place, issued, quota>>

NoReq == [id |-> 0, name |-> 0, tmpl |-> 0]
NoForm == [open |-> FALSE, id |-> 0, name |-> 1, path |-> 1, tmpl |-> 1, checked |-> 0, inPath |-> FALSE, loaded |-> FALSE,
           used |-> {}, choices |-> {}, serial |-> 0, inData |-> FALSE, pending |-> FALSE, request |-> NoReq, browse |-> 0, shown |-> 0]
NoEditor == [kind |-> "none", id |-> 0, ready |-> FALSE, text |-> 0, draft |-> 0, init |-> FALSE, loading |-> FALSE, pending |-> FALSE]
NoIntent == [req |-> 0, gen |-> 0, node |-> FALSE, inFlight |-> FALSE]
NoTest == [id |-> 0, pending |-> FALSE, gen |-> 0]
Quota(f) == quota[f] > 0 /\ quota' = [quota EXCEPT ![f] = @ - 1]
NewReq == issued + 1
Upper == stack[Len(stack)]

-----------------------------------------------------------------------------
\* The new-node form.
openCreateNodeDialogWithDefaults ==
    /\ Quota("open") /\ ~form.open /\ stack = <<>>
    /\ form' = [NoForm EXCEPT !.open = TRUE, !.id = form.id + 1, !.inData = TRUE, !.inPath = TRUE]
    /\ mail' = mail \cup {[what |-> "load", form |-> form.id + 1, serial |-> 0], [what |-> "path", form |-> form.id + 1, path |-> 1]}
    /\ UNCHANGED <<stack, editor, calls, booked, taken, stored, intent, testing, gen, place, issued>>

\* A directory is checked when no other check is running.
checkPath(f) == ~f.inPath /\ f.checked # f.path
Checked(f) == IF checkPath(f) THEN [f EXCEPT !.inPath = TRUE] ELSE f
CheckMail(f) == IF checkPath(f) THEN {[what |-> "path", form |-> f.id, path |-> f.path]} ELSE {}

\* The fields are edited until a request exists.
Update == /\ Quota("edit") /\ form.open /\ stack = <<>> /\ ~form.pending /\ form.request = NoReq
          /\ \E f \in {[form EXCEPT !.name = n] : n \in FormNames} \cup {[form EXCEPT !.path = n] : n \in FormNames} :
               f # form /\ form' = Checked(f) /\ mail' = mail \cup CheckMail(f)
          /\ UNCHANGED <<stack, editor, calls, booked, taken, stored, intent, testing, gen, place, issued>>

\* The names and templates are read, then delivered.
loadData == \E m \in mail :
    /\ m.what = "load"
    /\ \/ /\ mail' = (mail \ {m}) \cup {[what |-> "data", form |-> m.form, serial |-> m.serial, used |-> taken, choices |-> stored]}
          /\ UNCHANGED quota
       \/ Quota("fail") /\ mail' = (mail \ {m}) \cup {[what |-> "nodata", form |-> m.form, serial |-> m.serial]}
    /\ UNCHANGED <<form, stack, editor, calls, booked, taken, stored, intent, testing, gen, place, issued>>

Reload(f) == [what |-> "load", form |-> f.id, serial |-> f.serial]

\* Data read before a template was saved here is read again.
applyCreateData ==
    \E m \in mail :
      /\ m.what \in {"data", "nodata"}
      /\ LET f == [form EXCEPT !.inData = FALSE] IN
           IF m.form # form.id \/ ~form.open THEN mail' = mail \ {m} /\ UNCHANGED form
           ELSE IF m.serial # form.serial
           THEN form' = form /\ mail' = (mail \ {m}) \cup {Reload(form)}
           ELSE /\ mail' = mail \ {m}
                /\ form' = IF m.what = "data" THEN [f EXCEPT !.used = m.used, !.choices = m.choices, !.loaded = TRUE] ELSE f
      /\ UNCHANGED <<stack, editor, calls, booked, taken, stored, intent, testing, gen, place, issued, quota>>

\* A verdict on a directory counts while the field still holds that directory.
applyCreatePath ==
    \E m \in mail :
      /\ m.what = "path"
      /\ LET f == [form EXCEPT !.inPath = FALSE, !.checked = IF form.path = m.path THEN m.path ELSE @] IN
           IF m.form # form.id \/ ~form.open THEN mail' = mail \ {m} /\ UNCHANGED form
           ELSE form' = Checked(f) /\ mail' = (mail \ {m}) \cup CheckMail(f)
      /\ UNCHANGED <<stack, editor, calls, booked, taken, stored, intent, testing, gen, place, issued, quota>>

validationError(f) == ~f.loaded \/ f.name \in f.used \/ f.checked # f.path \/ f.tmpl \notin f.choices

\* A request gets its identity and payload once; an unconfirmed one is sent again as it was.
submitCreate == /\ Quota("send") /\ form.open /\ stack = <<>> /\ ~form.pending
                /\ form.request = NoReq => ~validationError(form)
                /\ LET req == IF form.request # NoReq THEN form.request ELSE [id |-> NewReq, name |-> form.name, tmpl |-> form.tmpl]
                   IN /\ form' = [form EXCEPT !.pending = TRUE, !.request = req]
                      /\ issued' = IF req.id > issued THEN req.id ELSE issued
                      /\ calls' = calls \cup {[form |-> form.id, req |-> req, kind |-> "create"]}
                /\ UNCHANGED <<stack, editor, mail, booked, taken, stored, intent, testing, gen, place>>

\* The daemon admits a request, answers from its receipt, or refuses the name.
Receipt(req) == \E b \in booked : b.id = req.id
Admit == \E c \in calls :
    LET ok == Receipt(c.req) \/ c.kind = "test" \/ c.req.name \notin taken
        answer(res) == [what |-> "admission", form |-> c.form, req |-> c.req, kind |-> c.kind, res |-> res] IN
      /\ calls' = calls \ {c}
      /\ booked' = IF ~ok \/ Receipt(c.req) THEN booked
                   ELSE booked \cup {[id |-> c.req.id, form |-> c.form, kind |-> c.kind, req |-> c.req, node |-> FALSE]}
      /\ taken' = IF ok /\ c.kind = "create" THEN taken \cup {c.req.name} ELSE taken
      /\ \/ mail' = mail \cup {answer(IF ok THEN "ok" ELSE "refused")} /\ UNCHANGED quota
         \/ Quota("lose") /\ mail' = mail \cup {answer("lost")}
      /\ UNCHANGED <<form, stack, editor, stored, intent, testing, gen, place, issued>>

\* A call that never reaches the daemon.
NotSent == \E c \in calls :
    /\ Quota("lose") /\ calls' = calls \ {c}
    /\ mail' = mail \cup {[what |-> "admission", form |-> c.form, req |-> c.req, kind |-> c.kind, res |-> "lost"]}
    /\ UNCHANGED <<form, stack, editor, booked, taken, stored, intent, testing, gen, place, issued>>

applyCreateAdmission_Forgets ==
    \E m \in mail :
      /\ m.what = "admission" /\ m.kind = "create"
      /\ LET mine == m.form = form.id /\ form.open
             f == [form EXCEPT !.pending = FALSE] IN
           /\ form' = CASE ~mine -> form
                        [] m.res = "ok" -> [NoForm EXCEPT !.id = form.id]
                        [] OTHER -> [f EXCEPT !.request = NoReq]
           /\ stack' = IF mine /\ m.res = "ok" THEN <<>> ELSE stack
           /\ intent' = IF mine /\ m.res = "ok" THEN [NoIntent EXCEPT !.req = m.req.id, !.gen = gen] ELSE intent
           /\ mail' = mail \ {m}
      /\ UNCHANGED <<editor, calls, booked, taken, stored, testing, gen, place, issued, quota>>

\* An accepted creation closes the form and leaves a jump behind; a refusal frees the request, a
\* lost answer keeps it.  A form that has been closed is told nothing.
applyCreateAdmission ==
    \E m \in mail :
      /\ m.what = "admission" /\ m.kind = "create"
      /\ LET mine == m.form = form.id /\ form.open
             f == [form EXCEPT !.pending = FALSE]
             again == ~form.inData IN
           /\ form' = CASE ~mine -> form
                        [] m.res = "ok" -> [NoForm EXCEPT !.id = form.id]
                        [] m.res = "lost" -> [f EXCEPT !.request = m.req]
                        [] m.res = "refused" -> [f EXCEPT !.request = NoReq, !.inData = TRUE]
           /\ stack' = IF mine /\ m.res = "ok" THEN <<>> ELSE stack
           /\ intent' = IF mine /\ m.res = "ok" THEN [NoIntent EXCEPT !.req = m.req.id, !.gen = gen] ELSE intent
           /\ mail' = (mail \ {m}) \cup IF mine /\ m.res = "refused" /\ again THEN {Reload(form)} ELSE {}
      /\ UNCHANGED <<editor, calls, booked, taken, stored, testing, gen, place, issued, quota>>

\* Cancelled, also with a request under way: accepted work belongs to the daemon.
CloseForm == /\ form.open /\ stack = <<>> /\ form' = [NoForm EXCEPT !.id = form.id]
             /\ UNCHANGED <<stack, editor, mail, calls, booked, taken, stored, intent, testing, gen, place, issued, quota>>

-----------------------------------------------------------------------------
\* The jump to the node of an accepted creation.
pollCreateIntent == /\ intent # NoIntent /\ ~intent.node
                    /\ IF intent.gen # gen THEN intent' = NoIntent /\ UNCHANGED mail
                       ELSE /\ ~intent.inFlight /\ intent' = [intent EXCEPT !.inFlight = TRUE]
                            /\ \E b \in booked : b.id = intent.req /\
                                 mail' = mail \cup {[what |-> "intent", req |-> intent.req, node |-> b.node]}
                    /\ UNCHANGED <<form, stack, editor, calls, booked, taken, stored, testing, gen, place, issued, quota>>

applyCreateIntent == \E m \in mail :
    /\ m.what = "intent" /\ mail' = mail \ {m}
    /\ intent' = IF intent = NoIntent \/ intent.req # m.req THEN intent
                 ELSE IF intent.gen # gen THEN NoIntent
                 ELSE [intent EXCEPT !.inFlight = FALSE, !.node = m.node]
    /\ UNCHANGED <<form, stack, editor, calls, booked, taken, stored, testing, gen, place, issued, quota>>

\* The node appears in the list: the window opens it, unless the user has moved on.
finishCreateNodeJump == /\ intent.node /\ intent' = NoIntent
                        /\ place' = IF intent.gen = gen THEN "detail" ELSE place
                        /\ UNCHANGED <<form, stack, editor, mail, calls, booked, taken, stored, testing, gen, issued, quota>>

\* The user acts on the manager.
MoveOn == /\ Quota("nav") /\ ~form.open /\ stack = <<>> /\ gen' = gen + 1 /\ place' = "list"
          /\ UNCHANGED <<form, stack, editor, mail, calls, booked, taken, stored, intent, testing, issued>>

\* The worker writes the node of an admitted creation into its receipt.
Creates == \E b \in booked : /\ b.kind = "create" /\ ~b.node
                             /\ booked' = (booked \ {b}) \cup {[b EXCEPT !.node = TRUE]}
                             /\ UNCHANGED <<form, stack, editor, mail, calls, taken, stored, intent, testing, gen, place, issued, quota>>

OthersCreate == /\ Quota("born") /\ \E n \in FormNames \ taken : taken' = taken \cup {n}
                /\ UNCHANGED <<form, stack, editor, mail, calls, booked, stored, intent, testing, gen, place, issued>>

-----------------------------------------------------------------------------
\* The test of an environment.
submitEnvironmentTest == /\ Quota("test") /\ place = "list" /\ ~form.open /\ stack = <<>> /\ ~testing.pending
                         /\ LET id == IF testing.id # 0 THEN testing.id ELSE NewReq IN
                              /\ testing' = [id |-> id, pending |-> TRUE, gen |-> gen] /\ issued' = IF id > issued THEN id ELSE issued
                              /\ calls' = calls \cup {[form |-> 0, req |-> [NoReq EXCEPT !.id = id], kind |-> "test"]}
                         /\ UNCHANGED <<form, stack, editor, mail, booked, taken, stored, intent, gen, place>>

\* An accepted test opens its output if the window still shows the environment it was started from.
applyEnvironmentTestAdmission == \E m \in mail :
    /\ m.what = "admission" /\ m.kind = "test" /\ mail' = mail \ {m}
    /\ LET live == testing.id = m.req.id /\ testing.pending
           here == ~form.open /\ stack = <<>> /\ testing.gen = gen IN
         /\ testing' = CASE ~live -> testing
                         [] m.res = "lost" -> [testing EXCEPT !.pending = FALSE]
                         [] OTHER -> NoTest
         /\ place' = IF live /\ m.res = "ok" /\ here THEN "activity" ELSE place
    /\ UNCHANGED <<form, stack, editor, calls, booked, taken, stored, intent, gen, issued, quota>>

-----------------------------------------------------------------------------
\* The picker and the editors.
openTemplatePicker == /\ form.open /\ stack = <<>> /\ ~form.pending /\ form.request = NoReq /\ quota.tmpl > 0
                      /\ stack' = <<"picker">>
                      /\ UNCHANGED <<form, editor, mail, calls, booked, taken, stored, intent, testing, gen, place, issued, quota>>

\* A listing is shown in the selector it was read for; a choice enters another directory or is used.
browseDirectory == /\ Quota("edit") /\ form.open /\ (stack = <<>> \/ stack = <<"browser">>) /\ ~form.pending /\ form.request = NoReq
                   /\ stack' = <<"browser">> /\ form' = [form EXCEPT !.browse = @ + 1, !.shown = 0]
                   /\ \E n \in FormNames : mail' = mail \cup {[what |-> "dir", form |-> form.id, browse |-> form.browse + 1, path |-> n]}
                   /\ UNCHANGED <<editor, calls, booked, taken, stored, intent, testing, gen, place, issued>>

applyCreateDirectory == \E m \in mail :
    /\ m.what = "dir" /\ mail' = mail \ {m}
    /\ form' = IF stack = <<"browser">> /\ m.form = form.id /\ m.browse = form.browse THEN [form EXCEPT !.shown = m.path] ELSE form
    /\ UNCHANGED <<stack, editor, calls, booked, taken, stored, intent, testing, gen, place, issued, quota>>

UseDirectory == /\ stack = <<"browser">> /\ stack' = <<>>
                /\ LET f == IF form.shown = 0 THEN form ELSE [form EXCEPT !.path = form.shown] IN
                     \/ form' = Checked(f) /\ mail' = mail \cup CheckMail(f)
                     \/ UNCHANGED <<form, mail>>
                /\ UNCHANGED <<editor, calls, booked, taken, stored, intent, testing, gen, place, issued, quota>>

\* A template of the loaded list is chosen, or the picker is left.
Pick == /\ stack = <<"picker">> /\ stack' = <<>>
        /\ \/ \E t \in form.choices : form' = [form EXCEPT !.tmpl = t]
           \/ UNCHANGED form
        /\ UNCHANGED <<editor, mail, calls, booked, taken, stored, intent, testing, gen, place, issued, quota>>

\* A new template, from the picker or the recipes; its defaults are read in the background.
openTemplateEditor == /\ Quota("tmpl") /\ (stack = <<"picker">> \/ (stack = <<>> /\ ~form.open)) /\ editor = NoEditor
                      /\ stack' = Append(stack, "editor")
                      /\ editor' = [NoEditor EXCEPT !.kind = "template", !.id = quota.tmpl, !.loading = TRUE]
                      /\ mail' = mail \cup {[what |-> "defaults", editor |-> quota.tmpl]}
                      /\ UNCHANGED <<form, calls, booked, taken, stored, intent, testing, gen, place, issued>>

openEnvironmentEditor == /\ Quota("tmpl") /\ stack = <<>> /\ ~form.open /\ editor = NoEditor
                         /\ stack' = <<"editor">> /\ editor' = [NoEditor EXCEPT !.kind = "environment", !.init = TRUE, !.ready = TRUE]
                         /\ UNCHANGED <<form, mail, calls, booked, taken, stored, intent, testing, gen, place, issued>>

\* The defaults fill a new template once; later loads leave its fields alone.
applyTemplateEditorData == \E m \in mail :
    /\ m.what = "defaults"
    /\ \/ /\ mail' = mail \ {m} /\ UNCHANGED quota
          /\ editor' = IF editor.kind # "template" \/ editor.id # m.editor THEN editor
                       ELSE [editor EXCEPT !.loading = FALSE, !.ready = TRUE, !.text = IF editor.init THEN @ ELSE 1, !.init = TRUE]
       \/ /\ Quota("fail") /\ mail' = mail \ {m}
          /\ editor' = IF editor.kind # "template" \/ editor.id # m.editor THEN editor ELSE [editor EXCEPT !.loading = FALSE, !.ready = FALSE]
    /\ UNCHANGED <<form, stack, calls, booked, taken, stored, intent, testing, gen, place, issued>>

\* A reload asked for, or after a save that failed.
load == /\ Quota("load") /\ stack # <<>> /\ Upper = "editor" /\ editor.kind = "template" /\ ~editor.loading /\ ~editor.pending
        /\ editor' = [editor EXCEPT !.loading = TRUE] /\ mail' = mail \cup {[what |-> "defaults", editor |-> editor.id]}
        /\ UNCHANGED <<form, stack, calls, booked, taken, stored, intent, testing, gen, place, issued>>

openCommands == /\ stack # <<>> /\ Upper = "editor" /\ ~editor.pending /\ quota.edit > 0
                /\ stack' = Append(stack, "commands") /\ editor' = [editor EXCEPT !.draft = editor.text]
                /\ UNCHANGED <<form, mail, calls, booked, taken, stored, intent, testing, gen, place, issued, quota>>

\* The commands are edited and used, or the edits are dropped after a question.
commandEditorUpdate ==
    /\ stack # <<>> /\ Upper = "commands"
    /\ \/ Quota("edit") /\ editor' = [editor EXCEPT !.draft = 2 + quota.edit] /\ UNCHANGED stack
       \/ stack' = Front(stack) /\ editor' = [editor EXCEPT !.text = editor.draft, !.draft = 0] /\ UNCHANGED quota
       \/ stack' = Front(stack) /\ editor' = [editor EXCEPT !.draft = 0] /\ UNCHANGED quota
    /\ UNCHANGED <<form, mail, calls, booked, taken, stored, intent, testing, gen, place, issued>>

\* A template is saved once its definitions are in; the form waits for the answer.
save == /\ stack # <<>> /\ Upper = "editor" /\ editor.init /\ editor.ready /\ ~editor.pending
        /\ editor' = [editor EXCEPT !.pending = TRUE] /\ mail' = mail \cup {[what |-> "saving", text |-> editor.text]}
        /\ UNCHANGED <<form, stack, calls, booked, taken, stored, intent, testing, gen, place, issued, quota>>

CloseEditor == /\ stack # <<>> /\ Upper = "editor" /\ ~editor.pending /\ stack' = Front(stack) /\ editor' = NoEditor
               /\ UNCHANGED <<form, mail, calls, booked, taken, stored, intent, testing, gen, place, issued, quota>>

\* The write lands in the store, or fails.
ConfigurationCreate == \E m \in mail :
    /\ m.what = "saving"
    /\ \/ /\ mail' = (mail \ {m}) \cup {[what |-> "saved", ok |-> TRUE, id |-> Cardinality(stored) + 1]}
          /\ stored' = IF editor.kind = "template" THEN stored \cup {Cardinality(stored) + 1} ELSE stored
          /\ UNCHANGED quota
       \/ Quota("fail") /\ mail' = (mail \ {m}) \cup {[what |-> "saved", ok |-> FALSE, id |-> 0]} /\ UNCHANGED stored
    /\ UNCHANGED <<form, stack, editor, calls, booked, taken, intent, testing, gen, place, issued>>

\* A saved template returns to the picker that asked for it, which selects it.
applyTemplateSaved == \E m \in mail :
    /\ m.what = "saved" /\ editor.kind = "template"
    /\ IF ~m.ok
       THEN /\ editor' = [editor EXCEPT !.pending = FALSE, !.loading = TRUE] /\ UNCHANGED <<stack, form>>
            /\ mail' = (mail \ {m}) \cup {[what |-> "defaults", editor |-> editor.id]}
       ELSE /\ editor' = NoEditor /\ stack' = Front(stack) /\ mail' = mail \ {m}
            /\ form' = IF stack' = <<>> THEN form ELSE [form EXCEPT !.serial = @ + 1, !.choices = @ \cup {m.id}]
    /\ UNCHANGED <<calls, booked, taken, stored, intent, testing, gen, place, issued, quota>>

applyEnvironmentSaved == \E m \in mail :
    /\ m.what = "saved" /\ editor.kind = "environment" /\ mail' = mail \ {m}
    /\ IF m.ok THEN editor' = NoEditor /\ stack' = <<>> ELSE editor' = [editor EXCEPT !.pending = FALSE] /\ UNCHANGED stack
    /\ UNCHANGED <<form, calls, booked, taken, stored, intent, testing, gen, place, issued, quota>>

-----------------------------------------------------------------------------
FormInit == /\ quota \in FormBudgets
            /\ form = NoForm /\ stack = <<>> /\ editor = NoEditor /\ mail = {} /\ calls = {} /\ booked = {}
            /\ taken = {} /\ stored = {1} /\ intent = NoIntent /\ testing = NoTest /\ gen = 0 /\ issued = 0 /\ place = "list"

FormNext == \/ openCreateNodeDialogWithDefaults \/ Update \/ loadData \/ applyCreateData \/ applyCreatePath \/ submitCreate
            \/ Admit \/ NotSent \/ applyCreateAdmission \/ CloseForm
            \/ pollCreateIntent \/ applyCreateIntent \/ finishCreateNodeJump \/ MoveOn \/ Creates \/ OthersCreate
            \/ submitEnvironmentTest \/ applyEnvironmentTestAdmission
            \/ openTemplatePicker \/ Pick \/ browseDirectory \/ applyCreateDirectory \/ UseDirectory \/ openTemplateEditor \/ openEnvironmentEditor \/ applyTemplateEditorData \/ load
            \/ openCommands \/ commandEditorUpdate \/ save \/ CloseEditor \/ ConfigurationCreate
            \/ applyTemplateSaved \/ applyEnvironmentSaved

-----------------------------------------------------------------------------
\* The type invariant of the forms.
FormTypeOK == /\ form.pending => form.open /\ form.request # NoReq
              /\ stack \in Seq({"picker", "browser", "editor", "commands"}) /\ Len(stack) <= 3
              /\ taken \subseteq FormNames /\ place \in {"list", "detail", "activity"}
              /\ intent.node => intent.req # 0

\* One form creates at most one node: however many answers are lost and however often the user
\* submits again, the daemon books one request of it (tuiCreateNodeForm.submit, "retries this same request").
CreatedOnce == \A b, c \in booked : b.kind = "create" /\ c.kind = "create" /\ b.form = c.form => b = c

\* A directory is never taken as checked on the verdict of another directory, and a template saved from
\* the form stays among its choices although older reads are still on their way (applyCreatePath, dataSerial).
ChecksAreCurrent ==
       /\ \A m \in mail \ mail' : m.what = "path" /\ form.open /\ form'.checked # form.checked => m.path = form.path
       /\ form.open /\ form'.open /\ form'.id = form.id => form.choices \subseteq form'.choices

\* A finished creation or test moves the window only if the user has not moved it since the
\* request was accepted or sent (createIntent.generation).
JumpIsWanted ==    /\ place' = "detail" /\ place # "detail" => intent.gen = gen
                   /\ place' = "activity" /\ place # "activity" => testing.gen = gen

\* Once the defaults are in, only the user changes the text of an editor: a reload of the definitions
\* or a failed save leaves it (applyTemplateEditorData).
EditsSurvive == editor.init /\ editor'.kind = editor.kind /\ editor'.text # editor.text => Upper = "commands"
=============================================================================

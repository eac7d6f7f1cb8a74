---------------------------- MODULE TurnContext ----------------------------
(***************************************************************************)
(* The context of a turn (AgentTurnLoop::build_context, turn_loop.rs): the  *)
(* workspace manifest unless the caller brings one, the rules, the task,    *)
(* the caller's items, and the attachments, of which files are read now.    *)
(***************************************************************************)
EXTENDS WorkspaceManifest, ContextCapsule

CONSTANTS
  Turns,               \* what clients send: the task's size, items, attachments
  MaxAttachments, MaxAttachmentBytes,
  RuleSizes,           \* of the two built-in rules
  ManifestHeader,      \* size of a manifest without entries
  AttachmentHeader,    \* size of an attachment without its text
  LinesOf,             \* number of lines of contents; a line is a byte
  EnvNames             \* .env and .env.*

ASSUME TurnAssumption ==
  /\ {MaxAttachments, MaxAttachmentBytes, ManifestHeader, AttachmentHeader} \subseteq Nat
  /\ RuleSizes \in Seq(Nat) /\ LinesOf \in [Contents -> Nat]
  /\ Turns # {}
  /\ \A t \in Turns :
       /\ t.task \in Nat
       /\ t.items \in Seq(Range(t.items)) /\ t.attachments \in Seq(Range(t.attachments))
       /\ \A item \in Range(t.items) :
            item.placement \in {None} \cup 0..2 /\ item.size \in Nat
       /\ \A a \in Range(t.attachments) :
            /\ a.text \in {None} \cup Nat
            /\ a.range # None => \A i \in 1..4 : a.range[i] \in Nat

VARIABLES
  turn,
  attached,   \* number of attachments that were read
  contextPc

turnVars    == <<turn, attached, contextPc>>
contextVars == <<manifestVars, capsuleVars, turnVars>>

Attachments == turn.attachments

ContextInit ==
  /\ ManifestInit /\ CapsuleInit(<<>>)
  /\ turn \in Turns /\ attached = 0
  /\ contextPc = "manifest"

End(how) == contextPc' = how
-----------------------------------------------------------------------------
BringsManifest ==
  \E i \in DOMAIN turn.items : turn.items[i].kind = "workspace_manifest"

(* A step of the walk; if it ends badly so does the turn. *)
Walk ==
  /\ contextPc = "manifest" /\ ~BringsManifest
  /\ WalkStep
  /\ IF manifestPc' \in {"failed", "canceled"} THEN End(manifestPc')
                                               ELSE UNCHANGED contextPc
  /\ UNCHANGED <<capsuleVars, turn, attached>>

(* A line for each entry. *)
ManifestItem ==
  [Item("workspace_manifest", FALSE, None, ManifestHeader + Len(manifest.entries))
     EXCEPT !.placement = StablePrefix]

TooManyAttachments == Len(Attachments) > MaxAttachments

CollectItems ==
  /\ contextPc = "manifest" /\ (BringsManifest \/ manifestPc = "built")
  /\ AddItems((IF BringsManifest THEN <<>> ELSE <<ManifestItem>>)
              \o [i \in DOMAIN RuleSizes |->
                    Item("project_rules", TRUE, None, RuleSizes[i])]
              \o <<Item("user_task", TRUE, None, turn.task)>> \o turn.items)
  /\ End(IF TooManyAttachments THEN "failed" ELSE "attaching")
  /\ UNCHANGED <<canceled, manifestVars, turn, attached>>
-----------------------------------------------------------------------------
(* Attachments. *)

(* validate_text_range. *)
RangeIsValid(range) ==
  /\ \A i \in 1..4 : range[i] > 0
  /\ range[3] > range[1] \/ (range[3] = range[1] /\ range[4] >= range[2])

(* read_file: the path stays in the workspace and is not sensitive.        *)
Readable(path) ==
  /\ Range(path) \cap ({"..", ".git", ".secrets", ".secret", ".agents", ".codex"}
                       \cup EnvNames) = {}
  /\ path \in Range(Paths) /\ files[path] # Missing

(* select_line_range: whole lines; the columns do not matter. *)
SelectedLines(path, range) ==
  IF range = None THEN LinesOf[files[path]] ELSE range[3] - range[1] + 1

FileIsAcceptable(a) ==
  /\ a.path # None /\ a.text = None
  /\ a.range # None => RangeIsValid(a.range)
  /\ Readable(a.path)
  /\ a.range # None => a.range[3] <= LinesOf[files[a.path]]
  /\ SelectedLines(a.path, a.range) <= MaxAttachmentBytes

(* attachment_text, ensure_attachment_size.  The path is not looked up. *)
TextIsAcceptable(a) ==
  /\ a.text # None /\ a.text \in 1..MaxAttachmentBytes
  /\ IF a.kind = "explicit_content" THEN a.path = None /\ a.range = None
     ELSE a.path # None /\ a.range # None /\ RangeIsValid(a.range)

AttachmentItem(a) ==
  Item(a.kind, TRUE, a.path,
       AttachmentHeader + IF a.kind = "file" THEN SelectedLines(a.path, a.range)
                                             ELSE a.text)

(* TurnAttachment::dedup_key: all of the attachment. *)
IsRepeated(n) == \E m \in 1..(n - 1) : Attachments[m] = Attachments[n]

Attach ==
  /\ contextPc = "attaching" /\ attached < Len(Attachments)
  /\ LET a          == Attachments[attached + 1]
         acceptable == /\ ~IsRepeated(attached + 1)
                       /\ IF a.kind = "file" THEN FileIsAcceptable(a)
                                             ELSE TextIsAcceptable(a)
     IN  IF canceled \/ ~acceptable
         THEN /\ End(IF canceled THEN "canceled" ELSE "failed")
              /\ UNCHANGED <<capsuleVars, attached>>
         ELSE /\ AddItems(<<AttachmentItem(a)>>) /\ attached' = attached + 1
              /\ UNCHANGED contextPc
  /\ UNCHANGED <<canceled, manifestVars, turn>>

AttachmentsDone ==
  /\ contextPc = "attaching" /\ attached = Len(Attachments)
  /\ End("building")
  /\ UNCHANGED <<canceled, manifestVars, capsuleVars, turn, attached>>

(* The capsule is built without another look at the token. *)
BuildCapsule ==
  /\ contextPc = "building" /\ BuildStep
  /\ IF capsulePc' \in {"built", "failed"} THEN End(capsulePc') ELSE UNCHANGED contextPc
  /\ UNCHANGED <<canceled, manifestVars, turn, attached>>
-----------------------------------------------------------------------------
ContextStep == Walk \/ CollectItems \/ Attach \/ AttachmentsDone \/ BuildCapsule

(* What went into a context is not kept. *)
ForgetContext ==
  /\ files' = CHOOSE workspace \in Workspaces : TRUE
  /\ states' = [p \in Range(Paths) |-> "clean"]
  /\ entries' = <<>> /\ manifest' = NoManifest /\ manifestPc' = "idle"
  /\ scanned' = files' /\ touched' = FALSE
  /\ items' = <<>> /\ taken' = {} /\ included' = <<>> /\ omitted' = <<>>
  /\ capsulePc' = "adding"
  /\ turn' = (CHOOSE t \in Turns : TRUE) /\ attached' = 0
  /\ UNCHANGED contextPc
=============================================================================

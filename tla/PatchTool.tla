----------------------------- MODULE PatchTool -----------------------------
(***************************************************************************)
(* One call of apply_patch (crates/agent-core/src/tool_execution.rs), after *)
(* the user chose hunks where an approval was needed.  Files are read and  *)
(* patched in memory one after the other, and written one after the other. *)
(* Others, an editor or a process a command left behind, write at any time. *)
(***************************************************************************)
EXTENDS PatchText, Cancellation

CONSTANTS Path,      \* workspace-relative files
          NewDirs,   \* those whose directory does not exist
          Contents,  \* texts that others write
          Offers,    \* patches the model means
          Spellings,     \* ways to write a file in expectedFiles
          PathOf,        \* the file each means, or Error: an absolute path, ".."
          PolicyNames,   \* those that end in a name of WORKSPACE_POLICY_PATCH_FILES
          Lists,         \* expectedFiles the model writes
          MaxAutoFiles   \* MAX_AUTO_APPROVED_PATCH_FILES

(* A normalised path is a spelling of itself.  ".gitignore/" is one of     *)
(* .gitignore, but nothing is behind its last slash.                       *)
ASSUME PatchAssumption ==
  /\ NewDirs \subseteq Path /\ Path \subseteq Spellings
  /\ PathOf \in [Spellings -> Path \cup {Error}]
  /\ \A p \in Path : PathOf[p] = p
  /\ Lists \subseteq Seq(Spellings)
  /\ MaxAutoFiles \in Nat
  /\ Absent \notin Path \cup Contents /\ Error \notin Path \cup Contents
  /\ Absent # Error
  /\ \A offer \in Offers :   \* sequences of sections, of hunks, of lines
       /\ offer \in Seq(Range(offer))
       /\ \A i \in DOMAIN offer :
            /\ offer[i].hunks \in Seq(Range(offer[i].hunks))
            /\ \A n \in DOMAIN offer[i].hunks :
                 LET body == offer[i].hunks[n].body IN body \in Seq(Range(body))

VARIABLES
  disk,       \* file contents, or Absent
  patchPc,
  patch,      \* the patch being applied: hunks not approved are filtered out
  expected,   \* args.expected_files, as written
  staged,     \* staged_files
  written,    \* number of staged files written
  outcome,    \* the result, or the error, of the call
  \* history
  asked,      \* the user was asked about this call
  before,     \* the files at the time of the call
  foreign     \* files that others wrote during the call

callVars  == <<patch, expected, asked, before>>
patchVars == <<disk, patchPc, callVars, staged, written, outcome, foreign>>

PatchInit ==
  /\ disk \in [Path -> Contents \cup {Absent}]
  /\ \A p \in NewDirs : disk[p] = Absent
  /\ before = disk
  /\ patchPc = "idle" /\ patch = <<>> /\ expected = {} /\ asked = FALSE
  /\ staged = <<>> /\ written = 0
  /\ outcome = "none" /\ foreign = {}

PatchReturn(how) == patchPc' = "returned" /\ outcome' = how
-----------------------------------------------------------------------------
(* Mutant: the expected files are not compared. *)
AcceptableUnlessEmpty(request, spelled) ==
  request # Error /\ request # <<>> /\ Targets(request) \cap NewDirs = {}

(* What is checked before a file is read: the patch parses, it names the   *)
(* expected files and no others, and their directories are there.  Both    *)
(* sides are normalised (normalize_workspace_relative_path).               *)
Acceptable(request, spelled) ==
  /\ request # Error /\ request # <<>>
  /\ {PathOf[s] : s \in spelled} = Targets(request)
  /\ Targets(request) \cap NewDirs = {}

(* tool_risk_assessment: a list of many files, or of a file that says what *)
(* the workspace is, is asked about.  It is the list as the model wrote    *)
(* it, which nobody normalised and which may name a file twice.            *)
NeedsQuestion(files) ==
  Range(files) \cap PolicyNames # {} \/ Len(files) > MaxAutoFiles

(* What the user may choose from: all hunks (Absent), or some of those     *)
(* that patch_approval_hunks finds.                                        *)
HunkChoices(unifiedDiff) ==
  LET parsed == ParseUnifiedDiff(unifiedDiff)
  IN  {Absent} \cup IF parsed = Error THEN {} ELSE SUBSET HunkIds(parsed)

(* The call, with the hunks that the user chose. *)
RequestPatch(unifiedDiff, files, approved) ==
  LET text    == IF approved = Absent THEN unifiedDiff
                 ELSE FilterText(unifiedDiff, approved)
      request == IF text = Error THEN Error ELSE ParseUnifiedDiff(text)
      named   == IF approved = Absent \/ request = Error THEN Range(files)
                 ELSE Targets(request)
  IN  /\ patchPc = "idle"
      /\ approved # Absent => NeedsQuestion(files)
      /\ asked' = (NeedsQuestion(files) /\ ParseUnifiedDiff(unifiedDiff) # Error)
      /\ before' = disk /\ foreign' = {}
      /\ expected' = named
      /\ IF canceled \/ ~Acceptable(request, named)
         THEN /\ PatchReturn(IF canceled THEN "canceled" ELSE "rejected")
              /\ patch' = <<>>
         ELSE patchPc' = "staging" /\ patch' = request /\ UNCHANGED outcome
      /\ UNCHANGED <<disk, staged, written, canceled>>

(* What a section makes of the file it finds. *)
Patched(section, original) ==
  IF original = Absent THEN Error ELSE ApplyFilePatch(original, section.hunks)

(* Mutant: a file is written as soon as it is patched. *)
StageAndWrite ==
  /\ patchPc = "staging" /\ Len(staged) < Len(patch)
  /\ LET section  == patch[Len(staged) + 1]
         path     == Target(section)
         original == IF section.old = Absent THEN Empty ELSE disk[path]
         applied  == Patched(section, original)
     IN  IF applied = Error
         THEN PatchReturn("rejected") /\ UNCHANGED <<staged, disk>>
         ELSE /\ staged' = Append(staged, [path |-> path, contents |->
                             IF section.new = Absent THEN Absent ELSE applied])
              /\ disk' = [disk EXCEPT ![path] = staged'[Len(staged')].contents]
              /\ UNCHANGED <<patchPc, outcome>>
  /\ UNCHANGED <<callVars, written, canceled, foreign>>

(* A file is read, and patched in memory.  A section that creates a file   *)
(* does not look whether it exists; one that deletes a file needs only its *)
(* hunks to fit.                                                           *)
StageFile ==
  /\ patchPc = "staging" /\ Len(staged) < Len(patch)
  /\ LET section  == patch[Len(staged) + 1]
         path     == Target(section)
         original == IF section.old = Absent THEN Empty ELSE disk[path]
         applied  == Patched(section, original)
     IN  IF applied = Error
         THEN PatchReturn("rejected") /\ UNCHANGED staged
         ELSE /\ staged' = Append(staged, [path |-> path, contents |->
                             IF section.new = Absent THEN Absent ELSE applied])
              /\ UNCHANGED <<patchPc, outcome>>
  /\ UNCHANGED <<disk, callVars, written, canceled, foreign>>

(* The token is checked once more when every file fits. *)
BeginWriting ==
  /\ patchPc = "staging" /\ Len(staged) = Len(patch)
  /\ IF canceled THEN PatchReturn("canceled")
                 ELSE patchPc' = "writing" /\ UNCHANGED outcome
  /\ UNCHANGED <<disk, callVars, staged, written, canceled, foreign>>

WriteFile ==
  /\ patchPc = "writing" /\ written < Len(staged)
  /\ LET file == staged[written + 1]
     IN  disk' = [disk EXCEPT ![file.path] = file.contents]
  /\ written' = written + 1
  /\ UNCHANGED <<patchPc, callVars, staged, canceled, outcome, foreign>>

(* The file cannot be written: fs::write may have emptied it.  What was    *)
(* written before stays.                                                   *)
WriteFileFails ==
  /\ patchPc = "writing" /\ written < Len(staged)
  /\ LET file == staged[written + 1]
     IN  \/ UNCHANGED disk
         \/ /\ file.contents # Absent
            /\ disk' = [disk EXCEPT ![file.path] = Empty]
  /\ PatchReturn("failed")
  /\ UNCHANGED <<callVars, staged, written, canceled, foreign>>

FinishPatch ==
  /\ patchPc = "writing" /\ written = Len(staged)
  /\ PatchReturn("ok")
  /\ UNCHANGED <<disk, callVars, staged, written, canceled, foreign>>

(* Somebody else.  Bound: once in a call. *)
Edit(path, contents) ==
  /\ patchPc \in {"staging", "writing"} /\ path \notin NewDirs
  /\ foreign = {}
  /\ disk' = [disk EXCEPT ![path] = contents]
  /\ foreign' = foreign \cup {path}
  /\ UNCHANGED <<patchPc, callVars, staged, written, canceled, outcome>>

(* A text that does not parse, and the patches, with any list of files.    *)
Garbled == <<PathLine("+++", Absent)>>

PatchStep ==
  \/ /\ patchPc = "idle"
     /\ \E files \in Lists :
          \/ RequestPatch(Garbled, files, Absent)
          \/ \E offer \in Offers :
               LET unifiedDiff == ToUnifiedDiff(offer)
               IN  \E approved \in HunkChoices(unifiedDiff) :
                     RequestPatch(unifiedDiff, files, approved)
  \/ StageFile \/ BeginWriting \/ WriteFile \/ WriteFileFails \/ FinishPatch

(* A patch by itself. *)
PatchNext ==
  \/ PatchStep
  \/ \E path \in Path, contents \in Contents \cup {Absent} : Edit(path, contents)
  \/ CancelTool /\ UNCHANGED patchVars

PatchSpec ==
  PatchInit /\ canceled = FALSE /\ [][PatchNext]_<<patchVars, canceled>>
-----------------------------------------------------------------------------
(* Properties. *)

Undisturbed(paths) == \A p \in paths \ foreign : disk[p] = before[p]

(* A patch of which one hunk does not fit, and one that is canceled before *)
(* the first write, leave every file as it was (docs/tool-system.md).      *)
RejectionIsClean ==
  outcome \in {"rejected", "canceled"} => Undisturbed(Path)

Changed     == {p \in Path \ foreign : disk[p] # before[p]}
PolicyFiles == Path \cap PolicyNames

(* Whatever happens, also a failure halfway, many files change only if the *)
(* user was asked, and so does a policy file, unless the call named it by  *)
(* a spelling that hides its name: what is asked about is what the call    *)
(* names, what is written is what the patch names (tool_risk_assessment,   *)
(* apply_patch).                                                           *)
QuestionCoversChanges ==
  ~asked =>
    /\ Cardinality(Changed) <= MaxAutoFiles
    /\ \A p \in Changed \cap PolicyFiles :
         \E s \in expected \ PolicyNames : PathOf[s] = p

(* Sections that the reverse patch can undo.  The others are: a section    *)
(* that adds a line beginning with two dashes and a space, which no patch  *)
(* can remove; one that renames; a text without a newline at its end,      *)
(* which gets one; a text of which nothing is left but that newline;       *)
(* creation of a file that is there; deletion by hunks that do not cover   *)
(* the file; and hunks that only add or only remove, which git numbers     *)
(* otherwise than this code reads them.                                    *)
Undoable(section) ==
  LET original == before[Target(section)]
      applied  == Patched(section, IF section.old = Absent THEN Empty
                                                           ELSE original)
  IN  /\ \A n \in DOMAIN section.hunks : \A i \in DOMAIN section.hunks[n].body :
           LET line == section.hunks[n].body[i]
           IN  ~(line.op = "add" /\ line.text \in Dashed)
      /\ section.old \in {section.new, Absent} \/ section.new = Absent
      /\ Absent \notin {section.old, section.new} =>
           \A n \in DOMAIN section.hunks :
              0 \notin {section.hunks[n].oldCount, section.hunks[n].newCount}
      /\ IF section.old = Absent THEN original = Absent
         ELSE original # Absent /\ original.newline
      /\ IF section.new = Absent THEN applied.lines = <<Blank>>
         ELSE applied # Empty /\ applied.lines # <<Blank>>

ApplySection(files, section) ==
  [files EXCEPT ![Target(section)] =
     LET applied == Patched(section, IF section.old = Absent THEN Empty
                                     ELSE files[Target(section)])
     IN  IF section.new = Absent /\ applied # Error THEN Absent ELSE applied]

(* After a patch, also one of which only some hunks were approved, the     *)
(* text of its reverse patch is a patch that restores the files.  (Of two  *)
(* sections for one file the last wins, so that its reverse is not enough.) *)
ReverseRestores ==
  /\ outcome = "ok" /\ foreign = {}
  /\ Cardinality(Targets(patch)) = Len(patch)
  /\ \A i \in DOMAIN patch : Undoable(patch[i])
  => LET reverse == ParseUnifiedDiff(ToUnifiedDiff(ReversePatch(patch)))
     IN  /\ reverse # Error
         /\ FoldLeft(ApplySection, disk, reverse) = before
=============================================================================

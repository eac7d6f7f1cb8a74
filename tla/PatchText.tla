----------------------------- MODULE PatchText -----------------------------
(***************************************************************************)
(* The text of a patch: parse_unified_diff, to_unified_diff and            *)
(* reverse_patch of crates/agent-core/src/tool_execution.rs.  A patch      *)
(* comes as text from the model, and becomes text again when the user      *)
(* chose some of its hunks, and when it is turned around.                  *)
(*                                                                         *)
(* A line of the text is a record: its mark and what follows the mark.     *)
(* The lines that git adds ("diff --git", "index", "\ No newline") are     *)
(* skipped by the parser and not modelled.                                 *)
(***************************************************************************)
EXTENDS Patch, Projection

CONSTANT Dashed   \* lines of a file that begin with "-- "

Mark(line) == CASE line.op = "keep" -> " " [] line.op = "remove" -> "-"
                [] line.op = "add"  -> "+"

Op(mark) == CASE mark = " " -> "keep" [] mark = "-" -> "remove"
              [] mark = "+" -> "add"

BodyMarks == {" ", "-", "+"}

(* format_count, parse_hunk_range: a count of one is left out. *)
FormatRange(start, count) ==
  IF count = 1 THEN <<start>> ELSE <<start, count>>

ParseRange(range) ==
  [start |-> range[1], count |-> IF Len(range) = 1 THEN 1 ELSE range[2]]

(* format_old_path, format_new_path: "a/", "b/" and "/dev/null". *)
PathLine(mark, path) == [mark |-> mark, path |-> path]

(* A removed line that begins with two dashes looks like a file header. *)
BodyLine(line) ==
  IF line.op = "remove" /\ line.text \in Dashed
  THEN PathLine("---", line.text)
  ELSE [mark |-> Mark(line), text |-> line.text]

HunkLines(hunk) ==
  <<[mark |-> "@@", old |-> FormatRange(hunk.old, hunk.oldCount),
     new |-> FormatRange(hunk.new, hunk.newCount)]>>
  \o [i \in DOMAIN hunk.body |-> BodyLine(hunk.body[i])]

SectionLines(section) ==
  <<PathLine("---", section.old), PathLine("+++", section.new)>>
  \o FlattenSeq([n \in DOMAIN section.hunks |-> HunkLines(section.hunks[n])])

ToUnifiedDiff(patch) ==
  FlattenSeq([i \in DOMAIN patch |-> SectionLines(patch[i])])
-----------------------------------------------------------------------------
(* parse_unified_diff. *)

(* The line numbers of a mark, and the end of what begins at a line. *)
LinesOf(text, mark, first, last) ==
  Only([i \in DOMAIN text |-> i], {i \in first..last : text[i].mark = mark})

EndOf(text, i, marks) ==
  LET later == {j \in (i + 1)..Len(text) : text[j].mark \in marks}
  IN  (IF later = {} THEN Len(text) + 1 ELSE Min(later)) - 1

(* What a line may follow: an old path, the new one; a hunk, its numbers.  *)
(* A line "--- " ends a hunk wherever it is.                               *)
Follows(text, i) ==
  LET mark   == text[i].mark
      before == IF i = 1 THEN "start" ELSE text[i - 1].mark
  IN  /\ mark \in {"@@"} \cup BodyMarks => before # "start"
      /\ mark \in BodyMarks => before \in {"@@"} \cup BodyMarks
      /\ mark = "+++" <=> before = "---"

ParseHunk(text, first) ==
  LET last == EndOf(text, first, {"@@", "---"})
      from == ParseRange(text[first].old)
      to   == ParseRange(text[first].new)
  IN  [old |-> from.start, oldCount |-> from.count,
       new |-> to.start, newCount |-> to.count,
       body |-> [n \in 1..(last - first) |->
                   LET line == text[first + n]
                   IN  [op |-> Op(line.mark), text |-> line.text]]]

ParseSection(text, first) ==
  LET starts == LinesOf(text, "@@", first, EndOf(text, first, {"---"}))
  IN  [old |-> text[first].path, new |-> text[first + 1].path,
       hunks |-> [n \in DOMAIN starts |-> ParseHunk(text, starts[n])]]

ParseUnifiedDiff(text) ==
  LET starts == LinesOf(text, "---", 1, Len(text))
  IN  IF /\ \A i \in DOMAIN text : Follows(text, i)
         /\ text # <<>> => text[Len(text)].mark # "---"
      THEN [i \in DOMAIN starts |-> ParseSection(text, starts[i])]
      ELSE Error
-----------------------------------------------------------------------------
(* filter_apply_patch_hunks, from text to text. *)
FilterText(text, approved) ==
  LET patch  == ParseUnifiedDiff(text)
      chosen == IF patch = Error THEN Error ELSE FilterPatch(patch, approved)
  IN  IF chosen = Error THEN Error ELSE ToUnifiedDiff(chosen)
=============================================================================

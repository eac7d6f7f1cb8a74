------------------------------- MODULE Patch -------------------------------
(***************************************************************************)
(* Unified diffs as crates/agent-core/src/tool_execution.rs applies,       *)
(* reverses and filters them.  A parsed patch is a sequence of sections,   *)
(* one for each file it names.                                             *)
(***************************************************************************)
EXTENDS Integers, Sequences, FiniteSetsExt, SequencesExt

CONSTANTS Blank,    \* the empty line
          Absent,   \* /dev/null, and the contents of a file that is not there
          Error     \* the Err of any operation

(* str::lines forgets whether the last line is terminated, so that a text  *)
(* is its lines and that bit.  "" has no lines; "\n" has a blank one.      *)
Text(lines, newline) == [lines |-> lines, newline |-> newline]
Empty == Text(<<>>, FALSE)

Reads(line) == line.op \in {"keep", "remove"}
Emits(line) == line.op \in {"keep", "add"}

Target(section) == IF section.new # Absent THEN section.new ELSE section.old

Targets(patch) == {Target(patch[i]) : i \in DOMAIN patch}
-----------------------------------------------------------------------------
(* apply_file_patch. *)

(* The lines before a hunk are copied.  A hunk that starts before the      *)
(* cursor is applied at the cursor.                                        *)
CopyUpTo(start, lines, state) ==
  IF start <= state.cursor THEN state
  ELSE IF start > Len(lines) THEN [state EXCEPT !.ok = FALSE]
  ELSE [state EXCEPT !.out = @ \o SubSeq(lines, state.cursor + 1, start),
                     !.cursor = start]

ApplyLine(lines, state, line) ==
  LET at      == state.cursor + 1
      matches == at <= Len(lines) /\ lines[at] = line.text
  IN  [ok     |-> state.ok /\ (Reads(line) => matches),
       cursor |-> IF Reads(line) THEN at ELSE state.cursor,
       out    |-> IF Emits(line) THEN Append(state.out, line.text)
                                 ELSE state.out]

ApplyHunk(lines, state, hunk) ==
  FoldLeft(LAMBDA s, line : IF s.ok THEN ApplyLine(lines, s, line) ELSE s,
           CopyUpTo(IF hunk.old = 0 THEN 0 ELSE hunk.old - 1, lines, state),
           hunk.body)

(* Joined with newlines.  One is added at the end unless the text is empty *)
(* and was not terminated before.                                          *)
Joined(lines, newline) ==
  IF lines \in {<<>>, <<Blank>>}
  THEN IF newline THEN Text(<<Blank>>, TRUE) ELSE Empty
  ELSE Text(lines, TRUE)

ApplyFilePatch(original, hunks) ==
  LET lines == original.lines
      last  == FoldLeft(LAMBDA s, h : IF s.ok THEN ApplyHunk(lines, s, h)
                                              ELSE s,
                        [ok |-> TRUE, cursor |-> 0, out |-> <<>>], hunks)
  IN  IF last.ok
      THEN Joined(last.out \o SubSeq(lines, last.cursor + 1, Len(lines)),
                  original.newline)
      ELSE Error
-----------------------------------------------------------------------------
(* ParsedPatch::reverse_patch. *)

ReverseLine(line) ==
  [line EXCEPT !.op = CASE line.op = "remove" -> "add"
                        [] line.op = "add"    -> "remove"
                        [] OTHER              -> "keep"]

ReverseHunk(hunk) ==
  [old |-> hunk.new, oldCount |-> hunk.newCount,
   new |-> hunk.old, newCount |-> hunk.oldCount,
   body |-> [i \in DOMAIN hunk.body |-> ReverseLine(hunk.body[i])]]

ReversePatch(patch) ==
  [i \in DOMAIN patch |->
     [old |-> patch[i].new, new |-> patch[i].old,
      hunks |-> [n \in DOMAIN patch[i].hunks |->
                   ReverseHunk(patch[i].hunks[n])]]]
-----------------------------------------------------------------------------
(* filter_apply_patch_hunks. *)

(* patch_hunk_id. *)
HunkId(path, n, hunk) ==
  <<path, n, hunk.old, hunk.oldCount, hunk.new, hunk.newCount>>

SectionIds(section) ==
  {HunkId(Target(section), n, section.hunks[n]) : n \in DOMAIN section.hunks}

HunkIds(patch) == UNION {SectionIds(patch[i]) : i \in DOMAIN patch}

(* Mutant: the numbers of a selected hunk stay as they were. *)
RenumberNothing(hunk, omitted) == hunk

(* adjusted_hunk_start: the lines that the hunks left out would have added *)
(* or removed above this one.                                              *)
Renumber(hunk, omitted) == [hunk EXCEPT !.new = @ - omitted]

Delta(hunk) == hunk.newCount - hunk.oldCount

SelectHunks(section, approved) ==
  LET Chosen(n) == HunkId(Target(section), n, section.hunks[n]) \in approved
      Take(state, n) ==
        LET hunk == section.hunks[n]
        IN  [omitted |-> state.omitted
                         + IF Chosen(n) THEN 0 ELSE Delta(hunk),
             hunks |-> IF Chosen(n)
                       THEN Append(state.hunks, Renumber(hunk, state.omitted))
                       ELSE state.hunks]
  IN  FoldLeft(Take, [omitted |-> 0, hunks |-> <<>>],
               [n \in DOMAIN section.hunks |-> n]).hunks

(* A hunk may not move above the file, and a file is created or deleted by *)
(* all of its hunks.                                                       *)
SelectionIsValid(section, hunks) ==
  /\ \A n \in DOMAIN hunks : hunks[n].new >= 0
  /\ Absent \in {section.old, section.new} =>
       Len(hunks) \in {0, Len(section.hunks)}

FilterPatch(patch, approved) ==
  LET chosen == [i \in DOMAIN patch |-> SelectHunks(patch[i], approved)]
  IN  IF /\ approved # {} /\ approved \subseteq HunkIds(patch)
         /\ \A i \in DOMAIN patch : SelectionIsValid(patch[i], chosen[i])
      THEN SelectSeq([i \in DOMAIN patch |->
                        [patch[i] EXCEPT !.hunks = chosen[i]]],
                     LAMBDA section : section.hunks # <<>>)
      ELSE Error
=============================================================================

------------------------- MODULE WorkspaceManifest -------------------------
(***************************************************************************)
(* The list of files of a workspace that goes into every context           *)
(* (crates/agent-core/src/workspace_manifest.rs).  The tree is walked in   *)
(* whatever order the directories list their files, while others may write *)
(* to it.  A path is a sequence of names.                                  *)
(***************************************************************************)
EXTENDS Integers, Sequences, FiniteSets, SequencesExt, Projection,
        Cancellation

CONSTANTS
  Paths,        \* the paths a file may have, as a sequence in byte order
  Contents,
  Missing,      \* the contents of no file
  Workspaces,   \* contents of each path when the turn begins
  Committed,    \* contents in the index of git, or Missing; <<>>: no repository
  Ignored,      \* paths excluded by .gitignore or .prole-coderignore
  SecretNames,  \* .env and the like, *.pem, *.key, private keys
  ScanRoot,     \* <<>> is the workspace itself
  MaxEntries

ASSUME ManifestAssumption ==
  /\ Paths \in Seq(Range(Paths)) /\ IsInjective(Paths)
  /\ Missing \notin Contents
  /\ MaxEntries \in Nat
  /\ Workspaces # {} /\ Workspaces \subseteq [Range(Paths) -> Contents \cup {Missing}]
  /\ DOMAIN Committed \in {{}, Range(Paths)}

VARIABLES
  files,     \* contents of each path
  states,    \* git states, loaded before the walk
  entries,   \* in the order of the walk
  manifest,  \* None until it is built
  manifestPc,
  \* history
  scanned,   \* the files at the start of the walk
  touched    \* somebody wrote to the workspace during the walk

manifestVars == <<files, states, entries, manifest, manifestPc, scanned, touched>>

NoManifest == [total |-> -1, entries |-> <<>>, omitted |-> 0]

-----------------------------------------------------------------------------
HardExcluded    == {".git", ".secrets", ".secret", ".agents", ".codex", ".prole-coder"}
DefaultExcluded == {"target", "node_modules", "dist", "build", ".next", "coverage"}

(* is_hard_excluded, is_default_excluded.  A directory that is excluded is *)
(* not entered.                                                            *)
Excluded(path) ==
  \/ Range(path) \cap (HardExcluded \cup DefaultExcluded) # {}
  \/ Last(path) \in SecretNames

(* is_in_scan_scope also lets the walk down to the scan root. *)
InScope(path) == IsPrefix(ScanRoot, path)

(* resolve_scan_root: ".." and absolute paths are refused, and so is a     *)
(* directory that is not there.                                            *)
ScanRootResolves ==
  /\ ".." \notin Range(ScanRoot)
  /\ ScanRoot = <<>> \/ \E p \in Range(Paths) : files[p] # Missing /\ InScope(p)

Visible == {p \in Range(Paths) : InScope(p) /\ ~Excluded(p) /\ p \notin Ignored}

IsRepository == DOMAIN Committed # {}

(* load_git_states.  A path that git does not mention is clean. *)
GitState(now, path) ==
  IF ~IsRepository THEN "not_repository"
  ELSE IF Committed[path] = Missing THEN "untracked"
  ELSE IF Committed[path] = now[path] THEN "clean"
  ELSE "modified"

Entry(path, contents) ==
  [path |-> path, contents |-> contents, git |-> states[path],
   object |-> IF IsRepository THEN Committed[path] ELSE Missing]

Walked == {entries[i].path : i \in DOMAIN entries}

(* Mutant: cut before the entries are sorted. *)
Listing == entries

(* Sorted by path, cut at max_entries.  The hash is one of these fields, so *)
(* that it is the same when they are.                                       *)
SortedEntries ==
  LET listed == Only(Paths, Walked)
  IN  [i \in DOMAIN listed |->
         entries[CHOOSE n \in DOMAIN entries : entries[n].path = listed[i]]]

FirstOf(sorted) ==
  LET kept == IF Len(sorted) > MaxEntries THEN MaxEntries ELSE Len(sorted)
  IN  [total |-> Len(sorted), entries |-> SubSeq(sorted, 1, kept),
       omitted |-> Len(sorted) - kept]
-----------------------------------------------------------------------------
ManifestInit ==
  /\ files \in Workspaces
  /\ states = [p \in Range(Paths) |-> "clean"]
  /\ entries = <<>> /\ manifest = NoManifest
  /\ manifestPc = "idle" /\ scanned = files /\ touched = FALSE

walkFrame == <<files, states, canceled, scanned, touched>>

(* build_workspace_manifest. *)
BeginWalk ==
  /\ manifestPc = "idle"
  /\ manifestPc' = IF canceled THEN "canceled"
                   ELSE IF MaxEntries = 0 \/ ~ScanRootResolves THEN "failed"
                   ELSE "walking"
  /\ states' = [p \in Range(Paths) |-> GitState(files, p)]
  /\ scanned' = files
  /\ UNCHANGED <<files, entries, manifest, canceled, touched>>

(* The token is checked at every entry. *)
CancelWalk ==
  /\ manifestPc = "walking" /\ canceled
  /\ manifestPc' = "canceled"
  /\ UNCHANGED <<walkFrame, entries, manifest>>

ReadEntry(path) ==
  /\ manifestPc = "walking" /\ ~canceled
  /\ path \in Visible \ Walked /\ files[path] # Missing
  /\ entries' = Append(entries, Entry(path, files[path]))
  /\ UNCHANGED <<walkFrame, manifest, manifestPc>>

(* A file that was listed is gone when it is read. *)
EntryVanished(path) ==
  /\ manifestPc = "walking" /\ ~canceled
  /\ path \in Visible \ Walked /\ scanned[path] # Missing /\ files[path] = Missing
  /\ manifestPc' = "failed"
  /\ UNCHANGED <<walkFrame, entries, manifest>>

(* A file that is made during the walk may be missed. *)
FinishWalk ==
  /\ manifestPc = "walking"
  /\ \A p \in Visible \ Walked : files[p] = Missing \/ scanned[p] = Missing
  /\ manifest' = FirstOf(SortedEntries)
  /\ manifestPc' = "built"
  /\ UNCHANGED <<walkFrame, entries>>

(* Somebody else, to a file that the walk is to read.  Bound: once. *)
Touch(path, contents) ==
  /\ manifestPc = "walking" /\ ~touched /\ path \in Visible
  /\ files' = [files EXCEPT ![path] = contents]
  /\ touched' = TRUE
  /\ UNCHANGED <<states, entries, manifest, manifestPc, canceled, scanned>>

WalkStep ==
  \/ BeginWalk \/ CancelWalk \/ FinishWalk
  \/ \E p \in Range(Paths) : ReadEntry(p) \/ EntryVanished(p)
-----------------------------------------------------------------------------
(* What the manifest of an undisturbed workspace is: the visible files in   *)
(* byte order, the first of them with contents and state.                   *)
ManifestOf(now) ==
  LET listed == Only(Paths, {p \in Visible : now[p] # Missing})
      kept   == SubSeq(listed, 1, IF Len(listed) > MaxEntries THEN MaxEntries
                                                              ELSE Len(listed))
  IN  [total |-> Len(listed), omitted |-> Len(listed) - Len(kept),
       entries |-> [i \in DOMAIN kept |->
                      [path |-> kept[i], contents |-> now[kept[i]],
                       git |-> GitState(now, kept[i]),
                       object |-> IF IsRepository THEN Committed[kept[i]]
                                                  ELSE Missing]]]

(* The stable prefix of two turns over the same files is the same, in      *)
(* whatever order the directories are listed (the manifest hash and the    *)
(* provider's cache depend on it; docs/context-capsule.md).                *)
PrefixIsStable ==
  manifestPc = "built" /\ ~touched => manifest = ManifestOf(files)
=============================================================================

----------------------------- MODULE TurnReport -----------------------------
(***************************************************************************)
(* What run.completed says of a turn (crates/agent-core/src/turn_loop.rs): *)
(* changedFiles and verificationStatus.  A snapshot of the workspace is    *)
(* taken before the first command and compared with one taken at the end;  *)
(* patches name their files themselves; commands that are known to verify  *)
(* something are counted.  The calls appear here with what they do to      *)
(* files; their execution is in PatchTool and CommandTool.                 *)
(***************************************************************************)
EXTENDS Naturals, FiniteSets, SequencesExt

CONSTANTS
  Walk,         \* the files in the order of the walk
  Skipped,      \* symbolic links, and files in excluded directories
  Versions,     \* what a file may hold: its size, its time, its data
  Trees,        \* the workspaces a turn may begin with
  HashMax,      \* WORKSPACE_DIFF_HASH_MAX_BYTES
  MaxScanned,   \* WORKSPACE_DIFF_MAX_FILES
  Bare,         \* words with dashes, without them
  Stem,         \* what the name of a script begins with, up to its colon
  Verifies,     \* commands, and whether they verify something
  MaxWrites,    \* bound on the writes of all
  MaxCommands,  \* bound on the commands of the turn
  Missing,      \* no such file, no snapshot
  Failed        \* the walk did not get started

Files == Range(Walk)

ASSUME ReportAssumption ==
  /\ Walk \in Seq(Files) /\ IsInjective(Walk) /\ Skipped \subseteq Files
  /\ Trees \subseteq [Files -> Versions \cup {Missing}]
  /\ \A c \in Versions :
       c.len \in Nat /\ c = [len |-> c.len, time |-> c.time, data |-> c.data]
  /\ {HashMax, MaxScanned, MaxWrites, MaxCommands} \subseteq Nat
  /\ {Missing, Failed} \cap Versions = {} /\ Missing # Failed

VARIABLES
  reportPc,
  tree,           \* of each file what it holds, or Missing
  position,       \* the walk's next file
  seen,           \* the fingerprints of a snapshot
  baseline,       \* workspace_before
  changedFiles,
  verification,   \* verification_status
  \* history
  atBaseline,     \* the files when the first snapshot was taken
  reach,          \* how far both walks came
  stirred,        \* files written while a walk went on
  patched,        \* files of patches
  calls,          \* commands that ran
  ends,           \* how those that verify something ended
  writes

scanVars   == <<position, seen>>
reportVars == <<reportPc, tree, scanVars, baseline, changedFiles, verification,
                atBaseline, reach, stirred, patched, calls, ends, writes>>

ReportInit ==
  /\ reportPc = "calls"
  /\ tree \in Trees
  /\ position = 1 /\ seen = <<>> /\ baseline = Missing
  /\ changedFiles = {} /\ verification = "skipped"
  /\ atBaseline = tree /\ reach = Len(Walk) + 1
  /\ stirred = {} /\ patched = {} /\ calls = 0 /\ ends = {} /\ writes = 0

NoReport ==
  /\ reportPc = "off" /\ tree = <<>> /\ position = 1 /\ seen = <<>>
  /\ baseline = Missing /\ changedFiles = {} /\ verification = "skipped"
  /\ atBaseline = <<>> /\ reach = 0
  /\ stirred = {} /\ patched = {} /\ calls = 0 /\ ends = {} /\ writes = 0
-----------------------------------------------------------------------------
(* The snapshots. *)

(* workspace_file_fingerprint: large files are not hashed. *)
Fingerprint(c) ==
  [len |-> c.len, time |-> c.time,
   hash |-> IF c.len <= HashMax THEN c.data ELSE Missing]

BeginScan(pc) == reportPc' = pc /\ position' = 1 /\ seen' = <<>>

ScanIsOver == position > Len(Walk) \/ Cardinality(DOMAIN seen) >= MaxScanned

(* scan_workspace_dir: one file after the other, while others write. *)
ScanFile ==
  /\ reportPc \in {"before", "after"} /\ ~ScanIsOver
  /\ LET path == Walk[position] IN
       seen' = IF path \in Skipped \/ tree[path] = Missing THEN seen
               ELSE [g \in DOMAIN seen \cup {path} |->
                       IF g = path THEN Fingerprint(tree[path]) ELSE seen[g]]
  /\ position' = position + 1
  /\ UNCHANGED <<reportPc, tree, baseline, changedFiles, verification,
                 atBaseline, reach, stirred, patched, calls, ends, writes>>

(* workspace_snapshot_changed_files *)
Differences(old, new) ==
  {f \in DOMAIN old \cup DOMAIN new :
     f \notin DOMAIN old \cap DOMAIN new \/ old[f] # new[f]}
-----------------------------------------------------------------------------
(* The calls of the turn. *)

(* A command is next: the first one waits for the snapshot.  If the walk   *)
(* does not start there will be none.                                      *)
BeginCommand ==
  /\ reportPc = "calls" /\ calls < MaxCommands
  /\ IF baseline = Missing
     THEN \/ BeginScan("before") /\ UNCHANGED baseline
          \/ reportPc' = "running" /\ baseline' = Failed /\ UNCHANGED scanVars
     ELSE reportPc' = "running" /\ UNCHANGED <<baseline, scanVars>>
  /\ UNCHANGED <<tree, changedFiles, verification, atBaseline, reach, stirred,
                 patched, calls, ends, writes>>

KeepBaseline ==
  /\ reportPc = "before" /\ ScanIsOver
  /\ baseline' = seen /\ atBaseline' = tree /\ reach' = position
  /\ reportPc' = "running"
  /\ UNCHANGED <<tree, scanVars, changedFiles, verification, stirred, patched,
                 calls, ends, writes>>

Change(f, c) ==
  /\ writes < MaxWrites /\ writes' = writes + 1
  /\ c # tree[f] /\ tree' = [tree EXCEPT ![f] = c]

CommandWrites(f, c) ==
  /\ reportPc = "running" /\ Change(f, c)
  /\ UNCHANGED <<reportPc, scanVars, baseline, changedFiles, verification,
                 atBaseline, reach, stirred, patched, calls, ends>>

IsScript(name) ==
  \/ name \in {"check", "clippy", "lint", "test", "tests", "typecheck",
               "type-check"}
  \/ /\ name \in DOMAIN Stem
     /\ Stem[name] \in {"check", "lint", "test", "typecheck", "type-check"}

(* is_verification_shell_command: the words without their dashes. *)
IsVerification(command) ==
  LET tokens   == [i \in DOMAIN command |->
                     IF command[i] \in DOMAIN Bare THEN Bare[command[i]]
                     ELSE command[i]]
      program  == tokens[1]
      Has(set) == \E i \in 2..Len(tokens) : tokens[i] \in set
      Followed(first, Second(_)) ==
        \E i \in 1..(Len(tokens) - 1) : tokens[i] = first /\ Second(tokens[i + 1])
      IsRunner(name) == name \in {"pytest", "unittest"}
  IN  \/ program \in {"pytest", "tsc"}
      \/ program = "cargo" /\ Has({"check", "clippy", "test"})
      \/ program \in {"node", "go", "dotnet"} /\ Has({"test"})
      \/ program \in {"py", "python", "python3"} /\ Followed("m", IsRunner)
      \/ /\ program \in {"npm", "pnpm", "yarn", "bun"}
         /\ Has({"test"}) \/ Followed("run", IsScript)

(* Mutant: the last command decides. *)
CombineLast(status, command, ended) ==
  IF ~IsVerification(command) THEN status
  ELSE IF ended = "failed" THEN "failed" ELSE "passed"

(* verification_status_for_shell_command, VerificationStatus::combine *)
Combine(status, command, ended) ==
  IF ~IsVerification(command)                     THEN status
  ELSE IF status = "failed" \/ ended = "failed" THEN "failed"
  ELSE                                                "passed"

EndCommand(command, ended) ==
  /\ reportPc = "running" /\ reportPc' = "calls"
  /\ verification' = Combine(verification, command, ended)
  /\ calls' = calls + 1
  /\ ends' = IF Verifies[command] THEN ends \cup {ended} ELSE ends
  /\ UNCHANGED <<tree, scanVars, baseline, changedFiles, atBaseline, reach,
                 stirred, patched, writes>>

(* Its arguments do not fit: the snapshot has been taken all the same. *)
RefuseCommand ==
  /\ reportPc = "running" /\ reportPc' = "calls"
  /\ calls' = calls + 1
  /\ UNCHANGED <<tree, scanVars, baseline, changedFiles, verification,
                 atBaseline, reach, stirred, patched, ends, writes>>

(* A patch reports its file itself. *)
PatchFile(f, c) ==
  /\ reportPc = "calls" /\ Change(f, c)
  /\ changedFiles' = changedFiles \cup {f}
  /\ patched' = patched \cup {f}
  /\ UNCHANGED <<reportPc, scanVars, baseline, verification, atBaseline, reach,
                 stirred, calls, ends>>

(* The final answer: final_changed_files.  Without a first snapshot, and   *)
(* if the second fails, only patches are reported.                         *)
BeginReport ==
  /\ reportPc = "calls"
  /\ \/ baseline \in {Missing, Failed} /\ reportPc' = "reported"
        /\ UNCHANGED <<scanVars, baseline>>
     \/ baseline \notin {Missing, Failed} /\ BeginScan("after")
        /\ UNCHANGED baseline
     \/ baseline \notin {Missing, Failed} /\ reportPc' = "reported"
        /\ baseline' = Failed /\ UNCHANGED scanVars
  /\ UNCHANGED <<tree, changedFiles, verification, atBaseline, reach, stirred,
                 patched, calls, ends, writes>>

FinishReport ==
  /\ reportPc = "after" /\ ScanIsOver
  /\ changedFiles' = changedFiles \cup Differences(baseline, seen)
  /\ reach' = Min({reach, position})
  /\ reportPc' = "reported"
  /\ UNCHANGED <<tree, scanVars, baseline, verification, atBaseline, stirred,
                 patched, calls, ends, writes>>

(* An editor, or a process that a command left behind. *)
OthersWrite(f, c) ==
  /\ reportPc \in {"before", "after"} /\ Change(f, c)
  /\ stirred' = stirred \cup {f}
  /\ UNCHANGED <<reportPc, scanVars, baseline, changedFiles, verification,
                 atBaseline, reach, patched, calls, ends>>

ReportStep ==
  \/ ScanFile \/ BeginCommand \/ KeepBaseline \/ RefuseCommand
  \/ BeginReport \/ FinishReport
  \/ \E f \in Files, c \in Versions \cup {Missing} :
       CommandWrites(f, c) \/ OthersWrite(f, c)
  \/ \E f \in Files, c \in Versions : PatchFile(f, c)
  \/ \E command \in DOMAIN Verifies, ended \in {"ok", "failed"} :
       EndCommand(command, ended)

(* A turn by itself. *)
ReportSpec == ReportInit /\ [][ReportStep]_reportVars
-----------------------------------------------------------------------------
(* Properties. *)

(* Large files are told apart by size and time. *)
Distinct(c, d) ==
  /\ c # d
  /\ Missing \notin {c, d} /\ c.len > HashMax =>
       c.len # d.len \/ c.time # d.time

(* What a completed turn reports is true (docs/turn-loop.md): of the files *)
(* that both walks reached and nobody wrote while they went on, exactly    *)
(* those that differ from before the first command are reported, and those *)
(* that were patched; verification failed if one command that verifies     *)
(* failed, in whatever order, and passed if only such commands ended well. *)
ReportIsAccurate ==
  reportPc = "reported" =>
    /\ patched \subseteq changedFiles
    /\ IF baseline \in {Missing, Failed} THEN changedFiles = patched
       ELSE \A i \in 1..(reach - 1) :
              LET path == Walk[i] IN
                path \notin Skipped \cup stirred \cup patched =>
                  (path \in changedFiles <=>
                     Distinct(atBaseline[path], tree[path]))
    /\ verification = IF "failed" \in ends THEN "failed"
                      ELSE IF ends # {} THEN "passed" ELSE "skipped"
=============================================================================

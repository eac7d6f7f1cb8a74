---------------------------- MODULE CommandRisk ----------------------------
(***************************************************************************)
(* What a shell command may do, as crates/agent-core/src/command_risk.rs   *)
(* guesses it from its text, and the approval it needs for that            *)
(* (effective_approval_requirement of turn_loop.rs).                       *)
(*                                                                         *)
(* A command is a sequence of symbols: words, blanks, quotes, operators.   *)
(* A word that the lexer puts together of several symbols is no name of a  *)
(* program or an option.  Names are in lower case (normalize_arg,          *)
(* normalize_executable), so that -D is -d.                                *)
(***************************************************************************)
EXTENDS Naturals, Sequences, FiniteSetsExt, SequencesExt

CONSTANTS Options,      \* words that start with "-"
          Toolchains,   \* words that start with "+"
          Assignments,  \* words of the form NAME=value
          ValueOf,      \* the option of each word of the form --option=value
          Examples,     \* simple commands, and what they are known to do
          Reading,      \* those that only read the workspace
          Followers,    \* those that are put beside another
          Carriers,     \* words that run what stands behind them
          HidingCarriers,   \* those that end in a word taken for a program
          Outside,      \* words that point out of the workspace or to secrets
          MaxNesting    \* bound on the constructions around a command

MaxDepth == 8

(* A classification is its findings; the lists of reasons keep no doubles. *)
Rank(risk) == CASE risk = "read"    -> 0 [] risk = "write"       -> 1
                [] risk = "exec"    -> 2 [] risk = "network"     -> 3
                [] risk = "destructive" -> 4

Finding(risk, reason) == [risk |-> risk, reason |-> reason]

HigherRisk(left, right) == IF Rank(right) > Rank(left) THEN right ELSE left

Risk(findings) ==
  FoldSet(LAMBDA f, risk : HigherRisk(risk, f.risk), "exec", findings)
-----------------------------------------------------------------------------
(* shell_segments: simple commands as sequences of words. *)

Quotes    == {"single", "double"}
Escapes   == {"escape", "backtick"}
Operators == {"newline", ";", "|", "&", "(", ")"}

FlushWord(s) ==
  IF s.word = <<>> THEN s
  ELSE [s EXCEPT !.words = Append(@, s.word), !.word = <<>>]

FlushSegment(s) ==
  IF s.words = <<>> THEN s
  ELSE [s EXCEPT !.segments = Append(@, s.words), !.words = <<>>]

Lex(s, symbol) ==
  LET push == [s EXCEPT !.word = Append(@, symbol), !.escaped = FALSE]
  IN  IF s.escaped THEN push
      ELSE IF s.quote = symbol THEN [s EXCEPT !.quote = "none"]
      ELSE IF s.quote = "single" THEN push
      ELSE IF symbol \in Escapes THEN [s EXCEPT !.escaped = TRUE]
      ELSE IF s.quote = "double" THEN push
      ELSE IF symbol \in Quotes THEN [s EXCEPT !.quote = symbol]
      ELSE IF symbol = "blank" THEN FlushWord(s)
      ELSE IF symbol \in Operators THEN FlushSegment(FlushWord(s))
      ELSE push

Segments(command) ==
  LET start == [word |-> <<>>, words |-> <<>>, segments |-> <<>>,
                quote |-> "none", escaped |-> FALSE]
      s     == FoldLeft(Lex, start, command)
      last  == IF s.escaped THEN [s EXCEPT !.word = Append(@, Last(command))]
                            ELSE s
  IN  FlushSegment(FlushWord(last)).segments
-----------------------------------------------------------------------------
(* shell_subcommands: the texts of $(...) and `...`. *)

None == [text |-> <<>>, next |-> 0]

(* A symbol and the one it escapes. *)
Escaped(command, i) == SubSeq(command, i, IF i = Len(command) THEN i ELSE i + 1)

(* collect_dollar_subcommand: to the parenthesis that closes it. *)
RECURSIVE CollectDollar(_, _, _, _, _)
CollectDollar(command, i, quote, depth, text) ==
  IF i > Len(command) THEN None
  ELSE LET symbol == command[i]
           more   == Append(text, symbol)
           Go(q, d) == CollectDollar(command, i + 1, q, d, more)
       IN  IF symbol = quote THEN Go("none", depth)
           ELSE IF quote = "single" THEN Go(quote, depth)
           ELSE IF symbol = "escape" THEN CollectDollar(command, i + 2, quote, depth,
                  text \o Escaped(command, i))
           ELSE IF quote = "double" THEN Go(quote, depth)
           ELSE IF symbol \in Quotes THEN Go(symbol, depth)
           ELSE IF symbol = "(" THEN Go(quote, depth + 1)
           ELSE IF symbol = ")" /\ depth = 1 THEN [text |-> text, next |-> i + 1]
           ELSE IF symbol = ")" THEN Go(quote, depth - 1)
           ELSE Go(quote, depth)

(* collect_backtick_subcommand. *)
RECURSIVE CollectBacktick(_, _, _)
CollectBacktick(command, i, text) ==
  IF i > Len(command) THEN None
  ELSE CASE command[i] = "backtick"  -> [text |-> text, next |-> i + 1]
         [] command[i] = "escape" -> CollectBacktick(command, i + 2,
                                                   text \o Escaped(command, i))
         [] OTHER             -> CollectBacktick(command, i + 1,
                                                 Append(text, command[i]))

RECURSIVE SubcommandsFrom(_, _, _)
SubcommandsFrom(command, i, quote) ==
  IF i > Len(command) THEN {}
  ELSE LET symbol  == command[i]
           dollar  == IF i < Len(command) /\ symbol = "$" /\ command[i + 1] = "("
                      THEN CollectDollar(command, i + 2, "none", 1, <<>>) ELSE None
           tick    == IF symbol = "backtick" /\ quote = "none"
                      THEN CollectBacktick(command, i + 1, <<>>) ELSE None
           found   == IF dollar # None THEN dollar ELSE tick
       IN  IF symbol = quote THEN SubcommandsFrom(command, i + 1, "none")
           ELSE IF quote = "single" THEN SubcommandsFrom(command, i + 1, quote)
           ELSE IF symbol = "escape" THEN SubcommandsFrom(command, i + 2, quote)
           ELSE IF quote = "none" /\ symbol \in Quotes
           THEN SubcommandsFrom(command, i + 1, symbol)
           ELSE IF found # None
           THEN {found.text} \cup SubcommandsFrom(command, found.next, quote)
           ELSE SubcommandsFrom(command, i + 1, quote)

Subcommands(command) ==
  {text \in SubcommandsFrom(command, 1, "none") : \E i \in DOMAIN text : text[i] # "blank"}
-----------------------------------------------------------------------------
(* Arguments. *)

Name(word) == IF Len(word) = 1 THEN word[1] ELSE "(several symbols)"
Names(words) == [i \in DOMAIN words |-> Name(words[i])]

(* What remains from the first word on that is not to be skipped. *)
DropWhile(words, Skipped(_)) ==
  LET kept == {i \in DOMAIN words : ~Skipped(Name(words[i]))}
  IN  IF kept = {} THEN <<>> ELSE SubSeq(words, Min(kept), Len(words))

SkipAssignmentPrefixes(words) == DropWhile(words, LAMBDA w : w \in Assignments)
SkipWrapperOptions(args)      == DropWhile(args, LAMBDA w : w \in Options)

RECURSIVE SkipEnvArgs(_)
SkipEnvArgs(args) ==
  IF args = <<>> THEN args
  ELSE LET name == Name(Head(args))
       IN  IF name \in {"-u", "--unset"} THEN SkipEnvArgs(SubSeq(args, 3, Len(args)))
           ELSE IF name \in Assignments \cup Options THEN SkipEnvArgs(Tail(args))
           ELSE args

(* command_after_flag, joined with blanks.  No flag is no command. *)
CommandAfterFlag(args, flags) ==
  LET at == {i \in DOMAIN args : Name(args[i]) \in flags}
  IN  IF at = {} THEN <<>>
      ELSE FoldLeft(LAMBDA text, word : IF text = <<>> THEN word
                                        ELSE text \o <<"blank">> \o word,
                    <<>>, SubSeq(args, Min(at) + 1, Len(args)))

OptionTakesValue(name, valued) ==
  name \in valued \/ (name \in DOMAIN ValueOf /\ ValueOf[name] \in valued)

(* first_subcommand.  Also the word after --option=value is skipped. *)
RECURSIVE FirstSubcommand(_, _, _)
FirstSubcommand(names, valued, plus) ==
  IF names = <<>> THEN ""
  ELSE LET name == Head(names)
       IN  IF name = "--" THEN FirstSubcommand(Tail(names), valued, plus)
           ELSE IF plus /\ name \in Toolchains
           THEN FirstSubcommand(Tail(names), valued, plus)
           ELSE IF OptionTakesValue(name, valued)
           THEN FirstSubcommand(SubSeq(names, 3, Len(names)), valued, plus)
           ELSE IF name \in Options THEN FirstSubcommand(Tail(names), valued, plus)
           ELSE name

(* subcommand_after: the first word after the command that is no option. *)
SubcommandAfter(names, command) ==
  LET at   == {i \in DOMAIN names : names[i] = command}
      next == {i \in DOMAIN names : at # {} /\ i > Min(at) /\ names[i] \notin Options}
  IN  IF next = {} THEN "" ELSE names[Min(next)]

HasAnyArg(names, expected) == \E i \in DOMAIN names : names[i] \in expected
-----------------------------------------------------------------------------
(* The tables: a rule finds something when the subcommand is one of its    *)
(* commands, and is followed by one of its next words or flags if it has   *)
(* any.                                                                    *)

On(commands, risk, reason) ==
  [commands |-> commands, next |-> {}, flags |-> {}, finding |-> Finding(risk, reason)]
OnNext(commands, words, risk, reason) == [On(commands, risk, reason) EXCEPT !.next = words]
OnFlag(commands, words, risk, reason) == [On(commands, risk, reason) EXCEPT !.flags = words]

Installs(commands)  == On(commands, "network", "dependencyInstall")
Publishes(commands) == On(commands, "network", "publish")
Deletes(commands)   == On(commands, "destructive", "fileDeletion")
Contacts(commands)  == On(commands, "network", "networkAccess")
After(command, words, rule) == [rule EXCEPT !.commands = {command}, !.next = words]

GitRules ==
  { On({"clone", "fetch", "pull", "push", "ls-remote", "remote"}, "network", "remoteGit"),
    OnNext({"submodule"}, {"update", "init", "sync"}, "network", "remoteGit"),
    OnFlag({"reset"}, {"--hard"}, "destructive", "destructiveGit"),
    On({"clean", "rm"}, "destructive", "destructiveGit"),
    OnFlag({"checkout"}, {"-f", "--force"}, "destructive", "destructiveGit"),
    OnFlag({"branch", "tag"}, {"-d", "--delete"}, "destructive", "destructiveGit"),
    OnFlag({"push"}, {"-f", "--force", "--force-with-lease", "--delete"},
         "destructive", "destructiveGit") }

JavaScriptRules ==
  { Installs({"install", "i", "ci", "add", "update", "upgrade", "up", "dlx", "create", "x"}),
    Publishes({"publish"}), On({"unpublish"}, "destructive", "publish"),
    Deletes({"remove", "rm", "uninstall", "unlink"}) }

CargoRules == { Installs({"install", "fetch", "update"}), Publishes({"publish", "release"}),
                Deletes({"uninstall"}) }

RustupRules == { Installs({"install", "update"}),
                 After("toolchain", {"install", "add"}, Installs({})),
                 After("component", {"add"}, Installs({})) }

PipRules == { Installs({"install", "download", "wheel"}), Deletes({"uninstall"}) }

UvRules == { Installs({"add", "sync", "lock"}),
             After("pip", {"install", "sync", "compile"}, Installs({})),
             After("tool", {"install"}, Installs({})),
             Publishes({"publish"}), Deletes({"remove"}) }

DependencyRules ==
  { Installs({"install", "add", "update", "upgrade", "require", "restore"}),
    Publishes({"publish", "push", "release"}), Deletes({"remove", "uninstall", "delete"}) }

GoRules == { Installs({"get", "install"}), After("mod", {"download"}, Installs({})) }

DotnetRules == { Installs({"restore"}), After("add", {"package"}, Installs({})),
                 After("remove", {"package"}, Deletes({})),
                 After("nuget", {"push"}, Publishes({})) }

NugetRules == { Installs({"install", "restore"}), Publishes({"push"}),
                On({"delete"}, "destructive", "publish") }

SystemRules ==
  { Installs({"install", "update", "upgrade", "dist-upgrade", "add", "sync", "-s"}),
    Deletes({"remove", "uninstall", "purge", "erase", "autoremove", "delete"}) }

TwineRules == { Publishes({"upload"}) }

GithubRules == { Contacts({"repo", "pr", "issue", "api", "auth"}), Publishes({"release"}),
                 OnNext({"release"}, {"delete", "delete-asset"}, "destructive", "publish") }

ContainerRules == { Contacts({"pull", "login"}), Publishes({"push"}),
                    Deletes({"rm", "rmi"}), After("volume", {"rm"}, Deletes({})) }

(* Programs with subcommands, the options whose value is a word of its     *)
(* own, and whether a toolchain may come first.                            *)
Family(programs, rules, valued, plus) ==
  [programs |-> programs, rules |-> rules, valued |-> valued, plus |-> plus]

JavaScriptValues == {"--prefix", "--cache", "--registry", "--userconfig", "--workspace",
                     "-w", "-c"}

Pip   == Family({"pip", "pip3", "pipx"}, PipRules,
                {"--python", "--log", "--proxy", "--retries", "--timeout"}, FALSE)
Twine == Family({"twine"}, TwineRules, {}, FALSE)

Families ==
  { Family({"git"}, GitRules, {"-c", "--git-dir", "--work-tree"}, TRUE),
    Family({"npm", "pnpm", "bun"}, JavaScriptRules, JavaScriptValues, FALSE),
    Family({"yarn"}, JavaScriptRules \cup {After("npm", {"publish"}, Publishes({}))},
           JavaScriptValues, FALSE),
    Family({"cargo"}, CargoRules, {"--config", "--manifest-path", "--target-dir",
                                   "--registry", "-z"}, TRUE),
    Family({"rustup"}, RustupRules, {}, FALSE), Pip,
    Family({"uv"}, UvRules, {}, FALSE),
    Family({"poetry", "pipenv", "conda", "mamba", "composer", "bundle", "gem"},
           DependencyRules, {}, FALSE),
    Family({"go"}, GoRules, {}, FALSE),
    Family({"dotnet"}, DotnetRules, {"--project", "--source", "-s", "--configfile"}, FALSE),
    Family({"nuget"}, NugetRules, {}, FALSE),
    Family({"apt", "apt-get", "dnf", "yum", "apk", "brew", "winget", "choco", "scoop",
            "zypper", "snap", "flatpak"}, SystemRules,
           {"-c", "-o", "--config", "--root", "--prefix", "--source", "--repository"}, FALSE),
    Twine,
    Family({"gh", "hub"}, GithubRules, {}, FALSE),
    Family({"docker", "podman"}, ContainerRules, {}, FALSE) }

Apply(family, names) ==
  LET command == FirstSubcommand(names, family.valued, family.plus)
  IN  {rule.finding : rule \in
        {r \in family.rules :
           /\ command \in r.commands
           /\ r.next # {} => SubcommandAfter(names, command) \in r.next
           /\ r.flags # {} => HasAnyArg(names, r.flags)}}

(* classify_python: what follows the first -m. *)
PythonFindings(names) ==
  LET at     == {i \in DOMAIN names : names[i] = "-m"}
      module == IF at = {} \/ Min(at) = Len(names) THEN "" ELSE names[Min(at) + 1]
      rest   == IF module = "" THEN <<>> ELSE SubSeq(names, Min(at) + 2, Len(names))
  IN  CASE module \in {"pip", "pip3"} -> Apply(Pip, rest)
        [] module = "twine"           -> Apply(Twine, rest)
        [] OTHER                      -> {}

(* Programs that need no subcommand. *)
NetworkExecutables ==
  {"aria2c", "curl", "ftp", "invoke-restmethod", "invoke-webrequest", "irm", "iwr", "nc",
   "netcat", "rsync", "scp", "sftp", "ssh", "start-bitstransfer", "telnet", "wget"}

DeleteExecutables == {"del", "erase", "rd", "remove-item", "ri", "rm", "rmdir", "unlink"}

PlainFindings(program, names) ==
  LET When(condition, risk, reason) == IF condition THEN {Finding(risk, reason)} ELSE {}
  IN  UNION
  { When(program \in NetworkExecutables, "network", "networkAccess"),
    When(program \in DeleteExecutables, "destructive", "fileDeletion"),
    When(program \in {"npx", "install-module", "install-package", "install-script"},
         "network", "dependencyInstall"),
    When(program \in {"publish-module", "publish-script"}, "network", "publish"),
    When(program \in {"uninstall-module", "uninstall-package", "uninstall-script",
                      "clear-content"}, "destructive", "fileDeletion"),
    When(program = "find" /\ HasAnyArg(names, {"-delete"}), "destructive", "fileDeletion"),
    When(program = "pacman" /\ HasAnyArg(names, {"-s", "--sync", "-sy", "-syu"}),
         "network", "dependencyInstall"),
    When(program = "pacman" /\ HasAnyArg(names, {"-r", "--remove", "-rs", "-rns"}),
         "destructive", "fileDeletion") }
-----------------------------------------------------------------------------
(* The classification. *)

Wrappers == {"sudo", "doas", "command", "time", "nohup", "nice"}
Shells   == {"powershell", "pwsh", "powershell_ise", "sh", "bash", "zsh", "fish"}

RECURSIVE Classify(_, _), ClassifySegment(_, _)

(* classify_segment from the program on, classify_wrapper. *)
ClassifyProgram(words, depth) ==
  LET program == Name(Head(words))
      args    == Tail(words)
      names   == Names(args)
  IN  CASE program \in Wrappers -> ClassifySegment(SkipWrapperOptions(args), depth + 1)
        [] program = "env" -> ClassifySegment(SkipEnvArgs(args), depth + 1)
        [] program = "cmd" -> Classify(CommandAfterFlag(args, {"/c", "/k"}), depth + 1)
        [] program \in Shells ->
             Classify(CommandAfterFlag(args, {"-command", "-c"}), depth + 1)
        [] program \in {"python", "python3", "py"} -> PythonFindings(names)
        [] OTHER -> PlainFindings(program, names)
                    \cup UNION {Apply(family, names) :
                                  family \in {f \in Families : program \in f.programs}}

(* Mutant: an assignment before the program is taken for it. *)
ClassifySegmentAsWritten(all, depth) ==
  IF depth > MaxDepth \/ all = <<>> THEN {} ELSE ClassifyProgram(all, depth)

ClassifySegment(all, depth) ==
  LET words == SkipAssignmentPrefixes(all)
  IN  IF depth > MaxDepth \/ words = <<>> THEN {} ELSE ClassifyProgram(words, depth)

Classify(command, depth) ==
  IF depth > MaxDepth THEN {}
  ELSE LET segments == Segments(command)
       IN  UNION ({ClassifySegment(segments[i], depth) : i \in DOMAIN segments}
                  \cup {Classify(text, depth + 1) : text \in Subcommands(command)})
-----------------------------------------------------------------------------
(* is_auto_approved_read_only_shell: simple commands that only read. *)

(* Mutant: the command is not searched for operators. *)
IsSimpleIfUnquoted(text) == {text[i] : i \in DOMAIN text} \cap {"$", "backtick"} = {}

IsSimple(text) ==
  {text[i] : i \in DOMAIN text} \cap {"$", "backtick", "newline", ";", "|", "&"} = {}

(* split_simple_read_only_shell_tokens: quotes, but no escapes. *)
SplitSimple(text) ==
  LET Split(s, symbol) ==
        CASE s.quote = symbol  -> [s EXCEPT !.quote = "none"]
          [] s.quote = "none" /\ symbol \in Quotes -> [s EXCEPT !.quote = symbol]
          [] s.quote = "none" /\ symbol = "blank"   -> FlushWord(s)
          [] OTHER -> [s EXCEPT !.word = Append(@, symbol)]
  IN  FlushWord(FoldLeft(Split, [word |-> <<>>, words |-> <<>>, quote |-> "none"], text))

VersionCommands ==
  {"bun", "cargo", "code", "corepack", "deno", "dotnet", "git", "go", "java", "node",
   "npm", "pip", "pip3", "pnpm", "prole", "python", "python3", "py", "rg", "rustc",
   "rustup", "tsc", "yarn"}

IsVersionQuery(names) ==
  /\ Len(names) = 2 /\ names[1] \in VersionCommands
  /\ \/ names[2] \in {"--version", "-V"}
     \/ names[2] = "-v" /\ names[1] \in {"bun", "deno", "node", "npm", "pnpm", "rg",
                                         "rustc", "tsc", "yarn"}
     \/ names[2] = "version" /\ names[1] = "go"

Readers == {"get-content", "gc", "cat", "type", "select-string", "get-childitem", "gci",
            "dir", "test-path", "rg"}

(* Options by which rg and git run programs or write: as such, with a      *)
(* value behind "=", and for rg short options with an r among them.        *)
Barred(program) == IF program = "git" THEN {"--output", "--ext-diff", "--no-index"}
                   ELSE IF program = "rg" THEN {"--pre", "--replace", "--passthru", "-r", "-rf"}
                   ELSE {}

IsBarred(program, name) == OptionTakesValue(name, Barred(program))

IsReadOnly(text) ==
  LET split == SplitSimple(text)
      names == Names(split.words)
      args  == 2..Len(names)
  IN  /\ IsSimple(text) /\ split.quote = "none" /\ names # <<>>
      /\ \/ IsVersionQuery(names)
         \/ /\ ~\E i \in args : Head(split.words[i]) \in Outside
            /\ ~\E i \in args : IsBarred(names[1], names[i])
            /\ \/ names[1] \in Readers
               \/ names[1] = "git" /\ Len(names) > 1
                    /\ names[2] \in {"diff", "status", "log", "show"}
-----------------------------------------------------------------------------
(* Approval. *)

Strength(approval) == CASE approval = "none" -> 0 [] approval = "required" -> 1
                        [] approval = "always" -> 2

Stronger(left, right) == IF Strength(right) > Strength(left) THEN right ELSE left

DefaultApproval(risk) == CASE risk = "read"        -> "none"
                           [] risk = "destructive" -> "always"
                           [] OTHER                -> "required"

EffectiveApproval(static, risk, override) ==
  LET byRisk == DefaultApproval(risk)
      base   == IF static # "none" THEN Stronger(static, byRisk)
                ELSE IF risk \in {"network", "destructive"} THEN byRisk ELSE "none"
  IN  CASE override = "none"  -> "none"
        [] override = "unset" -> base
        [] OTHER              -> Stronger(base, override)

Persistable(approval, risk) ==
  approval = "required" /\ risk \notin {"network", "destructive"}

(* tool_risk_assessment and ensure_approval for the shell tool, which is   *)
(* registered as required: whether the user is asked, and whether a grant  *)
(* may answer for the user.                                                *)
QuestionFor(text, cwdIsInside) ==
  LET passes   == cwdIsInside /\ IsReadOnly(text)
      risk     == IF passes THEN "read" ELSE Risk(Classify(text, 0))
      approval == EffectiveApproval("required", risk, IF passes THEN "none" ELSE "unset")
  IN  CASE approval = "none"            -> "free"
        [] Persistable(approval, risk)  -> "grantable"
        [] OTHER                        -> "ask"
-----------------------------------------------------------------------------
(* Commands (external: what the model asks for): an example, and what a    *)
(* shell, POSIX or PowerShell, lets one build around it.                   *)

VARIABLES command, \* the text
          meaning, \* what it does when the shell runs it
          hidden,  \* what of this stands where the classifier does not look
          reads,   \* it only reads the workspace
          nesting

textVars == <<command, meaning, hidden, reads, nesting>>

Spaced(words) ==
  FlattenSeq([i \in DOMAIN words |-> IF i = 1 THEN <<words[i]>>
                                              ELSE <<"blank", words[i]>>])

(* A text as one word. *)
Quoted(text) ==
  IF \A i \in DOMAIN text : text[i] # "single"
  THEN <<"single">> \o text \o <<"single">>
  ELSE <<"double">>
       \o FlattenSeq([i \in DOMAIN text |->
            IF text[i] \in {"double", "escape", "backtick", "$"}
            THEN <<"escape", text[i]>> ELSE <<text[i]>>])
       \o <<"double">>

TextInit ==
  /\ \E example \in DOMAIN Examples :
       /\ command = Spaced(example) /\ meaning = Examples[example]
       /\ reads = (example \in Reading)
  /\ hidden = {} /\ nesting = 0

Build(text) == nesting < MaxNesting /\ nesting' = nesting + 1 /\ command' = text

(* The command is part of the text, and where the classifier finds it, or not. *)
Seen   == UNCHANGED <<meaning, hidden, reads>>
Unseen == hidden' = hidden \cup meaning /\ UNCHANGED <<meaning, reads>>

(* sudo, env and assignments stand before a program.  skip_wrapper_options *)
(* takes the value of an option for the program; nor are the reserved      *)
(* words of a shell skipped.                                               *)
Prefix ==
  \E words \in Carriers \cup HidingCarriers :
    /\ Build(Spaced(words) \o <<"blank">> \o command)
    /\ IF words \in HidingCarriers THEN Unseen ELSE Seen

(* The lexer takes a backquote for the escape of PowerShell.  It hides an  *)
(* operator that stands right behind it, and, before a double quote, all   *)
(* operators.                                                              *)
HidesNext(text) ==
  \/ Last(text) = "backtick"
  \/ \E i \in DOMAIN text : i > 1 /\ text[i - 1] = "backtick" /\ text[i] = "double"

Follow ==
  \E example \in Followers, operator \in {<<";">>, <<"|">>, <<"&", "&">>} :
    /\ \/ \E gap \in IF HidesNext(command) THEN {<<>>, <<"blank">>} ELSE {<<>>} :
            /\ Build(command \o gap \o operator \o Spaced(example))
            /\ hidden' = hidden \cup IF HidesNext(command \o gap) THEN Examples[example] ELSE {}
       \/ /\ Build(Spaced(example) \o <<"blank">> \o operator \o <<"blank">> \o command)
          /\ UNCHANGED hidden
    /\ meaning' = meaning \cup Examples[example]
    /\ reads' = (reads /\ example \in Reading)

InShell ==
  /\ \/ Build(Spaced(<<"sh", "-c">>) \o <<"blank">> \o Quoted(command))
     \/ Build(Spaced(<<"cmd", "/c">>) \o <<"blank">> \o command)
  /\ Seen

Substitute ==
  /\ LET body == <<"$", "(">> \o command \o <<")">>
     IN  \/ Build(Spaced(<<"echo">>) \o <<"blank">> \o body)
         \/ Build(Spaced(<<"echo">>) \o <<"blank", "double">> \o body \o <<"double">>)
  /\ Seen

(* PowerShell runs what stands in parentheses for an argument. *)
Parenthesize ==
  /\ Build(Spaced(<<"cat">>) \o <<"blank", "(">> \o command \o <<")">>)
  /\ Seen

(* Backquotes nest with escapes, which the classifier does not undo, and   *)
(* between double quotes it does not look for them.                        *)
Backquote ==
  LET body  == FlattenSeq([i \in DOMAIN command |->
                 IF command[i] \in Escapes THEN <<"escape", command[i]>> ELSE <<command[i]>>])
      quote == <<"backtick">> \o body \o <<"backtick">>
      echo  == Spaced(<<"echo">>) \o <<"blank">>
  IN  \/ Build(echo \o quote) /\ IF body = command THEN Seen ELSE Unseen
      \/ /\ \A i \in DOMAIN body : body[i] # "double"
         /\ Build(echo \o <<"double">> \o quote \o <<"double">>)
         /\ Unseen

Compose ==
  Prefix \/ Follow \/ InShell \/ Substitute \/ Parenthesize \/ Backquote

(* What is no longer looked at. *)
NoText == command = <<>> /\ meaning = {} /\ hidden = {} /\ reads = FALSE /\ nesting = 0
ForgetText ==
  command' = <<>> /\ meaning' = {} /\ hidden' = {} /\ reads' = FALSE /\ nesting' = 0
-----------------------------------------------------------------------------
(* Properties. *)

(* However wrappers, operators, shells, substitutions and parentheses are  *)
(* built around a command, nothing it does escapes the classifier, except  *)
(* behind the value of a wrapper's option and around backquotes that are   *)
(* quoted, nested or followed by an operator (classify_shell_command).     *)
NothingIsMissed == meaning \ hidden \subseteq Classify(command, 0)
=============================================================================

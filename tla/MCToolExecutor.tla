--------------------------- MODULE MCToolExecutor ---------------------------
(* Small instances of ToolExecutor. *)
EXTENDS ToolExecutor, TLC

CONSTANTS a, b, dash, f, g, new, trailing, outside, root, child, deaf, free

MCPath     == {f, g, new}
MCNewDirs  == {new}

(* f is .gitignore, and trailing is ".gitignore/". *)
MCSpellings   == MCPath \cup {trailing, outside}
MCPathOf      == [s \in MCPath |-> s] @@ trailing :> f @@ outside :> Error
MCPolicyNames == {f}
MCLists == {<<s>> : s \in MCSpellings} \cup {<<s, g>> : s \in {f, g, trailing}} \cup {<<f, new>>}

MCDashed   == {dash}
MCContents == {Text(<<a, a, b>>, TRUE), Text(<<a>>, FALSE)}

Keep(t)   == [op |-> "keep",   text |-> t]
Cut(t) == [op |-> "remove", text |-> t]
Add(t)    == [op |-> "add",    text |-> t]

(* A hunk at a line of the old file, numbered as git does. *)
Hunk(old, delta, body) ==
  LET from == Len(SelectSeq(body, Reads))
      to   == Len(SelectSeq(body, Emits))
  IN  [old |-> old, oldCount |-> from,
       new |-> old + delta + IF from = 0 /\ to > 0 THEN 1
                             ELSE IF to = 0 THEN -1 ELSE 0,
       newCount |-> to, body |-> body]

Bodies == {<<Keep(a), Add(b)>>, <<Cut(a)>>, <<Cut(a), Add(b), Add(b)>>,
           <<Cut(b), Add(Blank)>>}

One == {<<Hunk(1, 0, body)>> : body \in Bodies}

Few == {<<Hunk(1, 0, body)>> : body \in {<<Keep(a), Add(b)>>, <<Cut(a)>>}}

Two == {LET first == Hunk(1, 0, body[1])
        IN  <<first, Hunk(2, Delta(first), body[2])>> : body \in Bodies \X Bodies}

Section(old, new_, hunks) == [old |-> old, new |-> new_, hunks |-> hunks]

Creations == {Section(Absent, p, <<Hunk(0, 0, <<Add(a), Add(b)>>)>>) : p \in {g, new}}

Deletion == Section(g, Absent, <<[old |-> 1, oldCount |-> 3, new |-> 0,
                 newCount |-> 0, body |-> <<Cut(a), Cut(a), Cut(b)>>]>>)

(* Lines that begin with two dashes. *)
Comments == {Section(f, f, <<Hunk(1, 0, body)>>) :
               body \in {<<Keep(a), Add(dash)>>, <<Cut(dash)>>,
                         <<Keep(a), Cut(dash), Add(b)>>}}

Changes(p) == {Section(p, p, hunks) : hunks \in One \cup Two}

MCOffers ==
  {<<>>}
  \cup {<<s>> : s \in Changes(f) \cup Comments \cup Creations \cup {Deletion, Section(f, g, <<Hunk(1, 0, <<Cut(a)>>)>>)}}
  \cup {<<Section(f, f, hunks), s>> : hunks \in Few,
          s \in {Section(g, g, h) : h \in One} \cup Creations \cup {Deletion}}
  \cup {<<Section(f, f, hunks[1]), Section(f, f, hunks[2])>> :
          hunks \in Few \X Few}

MCChildren == {child, deaf, free}
MCDeaf     == {deaf}
MCDetached == {free}
-----------------------------------------------------------------------------
(* Commands of the tests of command_risk.rs and turn_loop.rs, and more of  *)
(* the tables.                                                             *)

MCOptions == {"-n", "-u", "-c", "-m", "-d", "-rf", "--force", "--rebase",
              "--quiet", "--prefix", "--prefix=web", "--git-dir", "--", "-delete", "--config",
              "-syu", "--global", "--pre", "--output=", "--version", "-v", "-V"}
MCToolchains  == {"+nightly"}
MCAssignments == {"NAME=value"}
MCValueOf     == "--prefix=web" :> "--prefix" @@ "--output=" :> "--output"
MCOutside     == {"../elsewhere"}

Pull == {Finding("network", "remoteGit")}
Deps == {Finding("network", "dependencyInstall")}
Out  == {Finding("network", "publish")}
Net  == {Finding("network", "networkAccess")}
Gone == {Finding("destructive", "fileDeletion")}
Lost == {Finding("destructive", "destructiveGit")}

MCExamples ==
     <<"cargo", "+nightly", "test">> :> {}
  @@ <<"npm", "--prefix", "web", "install">> :> Deps
  @@ <<"yarn", "npm", "--quiet", "publish">> :> Out
  @@ <<"git", "--git-dir", "elsewhere", "push", "--force">> :> Pull \cup Lost
  @@ <<"python", "-m", "pip", "install">> :> Deps
  @@ <<"rm", "-rf", "target">> :> Gone
  @@ <<"curl", "address">> :> Net
  @@ <<"git", "diff", "--output=">> :> {}
  @@ <<"rg", "--pre", "program">> :> {}
  @@ <<"cat", "../elsewhere">> :> {}
  @@ <<"go", "-v">> :> {}
  @@ <<"cat", "file">> :> {}
  @@ <<"git", "status">> :> {}
  @@ <<"cargo", "-V">> :> {}

MCReading == {<<"cat", "file">>, <<"git", "status">>, <<"cargo", "-V">>}

MCFollowers == {<<"curl", "address">>}

MCCarriers == {<<"NAME=value", "sudo", "-n">>, <<"nohup", "nice">>,
               <<"env", "-u", "NAME", "NAME=value">>}
MCHidingCarriers == {<<"sudo", "-u", "root">>, <<"!">>}
-----------------------------------------------------------------------------
(* A workspace of three files the walk may reach, of which it takes two,   *)
(* and one in an excluded directory; the commands of the unit tests.       *)

CONSTANTS x, vendored, y, z

MCWalk    == <<vendored, x, y, z>>
MCSkipped == {vendored}
Version(len, time, data) == [len |-> len, time |-> time, data |-> data]
MCVersions == {Version(1, 1, 1), Version(1, 1, 2), Version(2, 1, 1),
               Version(2, 1, 2)}
MCTrees == LET Small == Version(1, 1, 1)
               Tree(c, d, e) == vendored :> Small @@ x :> c @@ y :> d @@ z :> e
           IN  {Tree(Small, Small, Small), Tree(Version(2, 1, 1), Missing, Small),
                Tree(Missing, Small, Version(2, 1, 1))}

MCBare   == "--test" :> "test" @@ "-m" :> "m" @@ "--noEmit" :> "noemit"
            @@ "--filter" :> "filter" @@ "--version" :> "version"
MCStem == "test:unit" :> "test" @@ "deploy:test" :> "deploy"

MCVerifies ==
     <<"node", "--test">> :> TRUE
  @@ <<"pnpm", "--filter", "web", "test">> :> TRUE
  @@ <<"pnpm", "run", "test:unit">> :> TRUE
  @@ <<"py", "-m", "pytest">> :> TRUE
  @@ <<"cargo", "clippy">> :> TRUE
  @@ <<"tsc", "--noEmit">> :> TRUE
  @@ <<"node", "--version">> :> FALSE
  @@ <<"npm", "run", "deploy-check">> :> FALSE
  @@ <<"npm", "run", "deploy:test">> :> FALSE
  @@ <<"echo", "test", "complete">> :> FALSE
  @@ <<"cargo", "build">> :> FALSE
=============================================================================

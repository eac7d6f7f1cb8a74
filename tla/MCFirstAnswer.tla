--------------------------- MODULE MCFirstAnswer ---------------------------
(* A small workspace, budgets of a few lines, and turns that use them up. *)
EXTENDS FirstAnswer

CONSTANTS one, two

MCPaths == << <<".secrets", "token">>, <<"README.md">>, <<"src", "lib.rs">>,
              <<"target", "out">> >>
MCContents  == {one, two}
MCLinesOf   == one :> 1 @@ two :> 2
MCCommitted == [p \in Range(MCPaths) |-> IF p = <<"README.md">> THEN one ELSE Missing]
MCRuleSizes == <<1, 1>>
MCIgnored   == {}
MCSecretNames == {"id_rsa"}
MCScanRoot  == <<>>
MCEnvNames  == {".env"}

Optional(kind, size) == Item(kind, FALSE, None, size)
Attachment(kind, path, range, text) ==
  [kind |-> kind, path |-> path, range |-> range, text |-> text]

Lib == <<"src", "lib.rs">>

MCWorkspaces ==
  {[p \in Range(MCPaths) |-> CASE p = <<"README.md">> -> readme
                               [] p = Lib -> lib
                               [] OTHER -> one] :
     readme \in MCContents, lib \in MCContents \cup {Missing}}

ItemLists ==
  { <<>>,
    <<Optional("git_diff", 3), Optional("other", 1)>>,
    <<Optional("project_rules", 2), Optional("workspace_manifest", 2),
      Item("system_policy", TRUE, None, 1)>>,
    <<Item("file", TRUE, Lib, 1), Optional("plan", 1), Optional("plan", 1)>> }

AttachmentLists ==
  { <<Attachment("file", Lib, None, None)>>,
    <<Attachment("file", Lib, <<1, 1, 1, 2>>, None),
      Attachment("file", Lib, <<2, 1, 2, 1>>, None)>>,
    <<Attachment("selection", Lib, <<1, 1, 1, 1>>, 1),
      Attachment("explicit_content", None, None, 1)>>,
    <<Attachment("diagnostic", Lib, <<2, 1, 1, 1>>, 1)>>,
    <<Attachment("file", <<".secrets", "token">>, None, None)>> }

MCTurns ==
  {[task |-> 1, items |-> items_, attachments |-> <<>>] : items_ \in ItemLists}
  \cup {[task |-> 4, items |-> <<Optional("git_diff", 3)>>, attachments |-> list] :
          list \in AttachmentLists}
-----------------------------------------------------------------------------
(* Answers: text, two calls whose pieces are mixed, and what is wrong with  *)
(* the others.                                                              *)

Plain(text)   == [content |-> text, reasoning |-> NoValue, calls |-> <<>>, finish |-> NoValue]
Piece(index, id, name, arguments) ==
  [index |-> index, id |-> id, name |-> name, arguments |-> arguments,
   kind |-> IF id = NoValue THEN NoValue ELSE "function"]
Calling(pieces) == [Plain(NoValue) EXCEPT !.calls = pieces]

Chunk(choices) == [kind |-> "chunk", lines |-> 1, choices |-> choices]
Split(block)   == [block EXCEPT !.lines = 2]
Comment        == [kind |-> "comment", lines |-> 1, choices |-> <<>>]
Invalid        == [kind |-> "invalid", lines |-> 1, choices |-> <<>>]
Done           == [kind |-> "done", lines |-> 1, choices |-> <<>>]

Hello   == Chunk(<<[Plain("hello") EXCEPT !.reasoning = "so"]>>)
World   == Chunk(<<Plain("world")>>)
Enough  == Chunk(<<[Plain(NoValue) EXCEPT !.finish = "length"]>>)
Second  == Chunk(<<Calling(<<Piece(1, "y", "shell", <<"p">>)>>)>>)
First   == Chunk(<<Calling(<<Piece(0, "x", "search", <<>>), Piece(1, NoValue, NoValue, <<"q">>)>>)>>)
More    == Chunk(<<Calling(<<Piece(1, "y", NoValue, <<"r">>)>>)>>)

MCAnswers ==
  { <<Hello, Split(World), Done>>,
    <<Comment, World, Enough, Chunk(<<>>)>>,
    <<Second, First, Split(More), Done>>,
    <<World, Chunk(<<Calling(<<Piece(0, NoValue, "shell", <<"p">>)>>)>>), Done>>,
    <<Chunk(<<Calling(<<Piece(0, NoValue, "search", <<"p">>)>>)>>),
      Chunk(<<Calling(<<Piece(0, "x", NoValue, <<>>)>>)>>), Done>>,
    <<Second, Chunk(<<Calling(<<Piece(1, "z", NoValue, <<>>)>>)>>), World, Done>>,
    <<Chunk(<<Calling(<<Piece(0, "", "shell", <<>>)>>)>>), Done>>,
    <<Hello, World, Invalid, Done>> }

CrLf == <<Cr, Lf>>
MCLineEnds == {<<<<Lf>>, <<Lf>>>>, <<CrLf, CrLf>>, <<<<Lf>>, CrLf>>}
=============================================================================

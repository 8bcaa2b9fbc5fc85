-------------------------- MODULE MCRestrictedFiles --------------------------
(***************************************************************************)
(* A workspace ws with a directory d, a link l to it, a link x out of the  *)
(* workspace and a link y to itself.                                       *)
(***************************************************************************)
EXTENDS RestrictedFiles

MCRoot == <<"ws">>

Workspace(d, f) ==
    <<>> :> Dir @@ <<"ws">> :> Dir @@ <<"ws", "d">> :> d @@ <<"ws", "d", "f">> :> f
        @@ <<"ws", "l">> :> Link(<<"ws", "d">>) @@ <<"ws", "x">> :> Link(<<"out">>)
        @@ <<"ws", "y">> :> Link(<<"ws", "y">>)
        @@ <<"out">> :> Dir @@ <<"out", "f">> :> File("old")

MCTrees == {Workspace(Dir, File("old")), Workspace(Absent, Absent)}

Risks ==
    << [tag |-> "watched", paths |-> {<<"ws", "d", "f">>}, tools |-> {}],
       [tag |-> "destructive", paths |-> {}, tools |-> {"delete_file"}] >>
Rules ==
    << [tags |-> {"destructive"}, mode |-> "user_gate"], [tags |-> {"watched"}, mode |-> "pair"] >>

Policy(rules, minimum) ==
    [risks |-> Risks, rules |-> rules, default |-> "auto", minimum |-> minimum]

MCPolicies == {Policy(<<>>, "auto"), Policy(Rules, "auto"), Policy(Reverse(Rules), "pair")}

Relative(parts) == [absolute |-> FALSE, parts |-> parts]

Targets ==
    {Relative(<<"d", "f">>), Relative(<<".", "d", "f">>), Relative(<<"l", "f">>),
     Relative(<<"x", "f">>), Relative(<<"d", "..", "d", "f">>),
     Relative(<<"y", "f">>),
     [absolute |-> TRUE, parts |-> <<"out", "f">>]}

Request(tool, target, data) ==
    [tool |-> tool, target |-> target, data |-> data, planned |-> TRUE]

MCRequests ==
    {Request(tool, target, "new") : tool \in Registered, target \in Targets}
        \cup {Request("write_file", Relative(<<"d", "f">>), "big"),
              Request("format_disk", Relative(<<"d", "f">>), "new"),
              [Request("write_file", Relative(<<"d", "f">>), "new") EXCEPT !.planned = FALSE]}

Symmetry == Permutations(Workers)
=============================================================================

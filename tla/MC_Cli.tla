------------------------------- MODULE MC_Cli -------------------------------
(***************************************************************************)
(* An instance of CliSession for TLC: calls of each command, with and without *)
(* the flags that matter to it, and what an installation may find.          *)
(***************************************************************************)
EXTENDS CliSession, TLC

Calls ==
  {<<>>, <<"--json">>, <<"doctor", "--json">>, <<"doctor", "--json", "--context">>,
   <<"ctx">>, <<"ctx", "status">>, <<"ctx", "status", "--json">>, <<"ctx", "nothing">>,
   <<"ctx", "status", "a", "--json", "--context">>, <<"ctx", "status", "--context", "b">>,
   <<"env">>, <<"journal">>, <<"journal", "list">>, <<"journal", "--json">>,
   <<"journal", "resolve", "f">>, <<"diagnose">>, <<"diagnose", "wifi">>, <<"act", "tune">>,
   <<"health">>, <<"-V">>, <<"-h">>, <<"metrics">>, <<"serve", "--mcp">>, <<"serve">>,
   <<"install">>, <<"install", "--target">>, <<"install", "--target", "other">>,
   <<"install", "--target", "antigravity">>, <<"install", "--target=antigravity">>}

FoundConfigs ==
  {Config("missing", {}), Config("broken", {}), Config("broken", {"codegraph"}),
   Config("list", {}), Config("serverList", {"codegraph"}), Config("scalar", {}),
   Config("object", {"codegraph"})}

Old == <<START, "old", END>>
FoundGuides ==
  {<<>>, <<"mine">>, <<"mine">> \o Old, Old \o <<"mine">>, Old \o <<"mine">> \o Old,
   <<"mine", START, "old", "yours">>, <<END, "mine">>, <<END, "mine">> \o Old}

=============================================================================

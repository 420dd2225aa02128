---------------------------- MODULE MCActionPlugin ----------------------------
(***************************************************************************)
(* Small instances of ActionPlugin: a few entries of every kind, in layers *)
(* that allow, deny, shadow, break a rule of validate, or are no layers.   *)
(***************************************************************************)
EXTENDS ActionPlugin

ps == <<"ps">>
rm == <<"rm">>
docker == <<"", "usr", "bin", "docker">>
log == <<"", "var", "log", "**">>
etc == <<"", "etc", "**">>
srv == <<"", "srv", "**">>

Unset == [EMPTY_RULES EXCEPT !.shape = "undefined", !.network = "unset",
                             !.sets = {}]

(* A layer from what it allows, denies and sets, each as a partial function. *)
Some(entries) == [k \in PRIMITIVE_KEYS |-> IF k \in DOMAIN entries THEN entries[k] ELSE {}]
MkLayer(allow, deny, budget) ==
  [shape |-> "ok", allow |-> Some(allow), deny |-> Some(deny), network |-> "unset",
   sets |-> DOMAIN budget, budget |-> [k \in BUDGET_KEYS |->
                                         IF k \in DOMAIN budget THEN budget[k] ELSE 0]]

None == [k \in {} |-> {}]
NoBudget == [k \in {} |-> 0]

(* The collection's defaults with fewer entries.                           *)
Defaults ==
  MkLayer([run_cmd |-> {ps, <<"cat">>}, read_file |-> {log, etc}],
          [run_cmd |-> {rm}, write_file |-> {<<"**">>}, python |-> {<<"socket">>}],
          DEFAULT_BUDGET)

Wide ==
  MkLayer([run_cmd |-> {rm, docker, <<"bash">>}, write_file |-> {srv},
           read_file |-> {<<"", "**">>}, python |-> {<<"os">>, <<"socket">>}],
          [python |-> {<<"os", "system">>}, read_file |-> {<<"", "srv", "key">>}],
          [max_tokens |-> 100])
(* Programs named by their path where another layer, or this one, names    *)
(* them by their basename.                                                 *)
Spelled ==
  MkLayer([run_cmd |-> {<<"", "bin", "rm">>, <<"docker">>}], [run_cmd |-> {docker}], NoBudget)
Narrow == MkLayer(None, [run_cmd |-> {ps}, read_file |-> {etc}], [max_iterations |-> 1])

NotADict == [Unset EXCEPT !.shape = "not_a_dict"]
Mistyped == [Unset EXCEPT !.shape = "mistyped"]
Globbed == MkLayer([run_cmd |-> {<<"**">>}], None, NoBudget)
Relative == MkLayer([write_file |-> {<<"tmp", "**">>}], None, NoBudget)
ZeroBudget == MkLayer(None, None, [max_tokens |-> 0])

MCInventories ==
  {i \in [SOURCES -> {Unset, Wide, Narrow, NotADict, Mistyped, Globbed, Relative, ZeroBudget,
                  Spelled}] :
     /\ i["group_vars"] \in {Unset, Narrow}
     /\ i["host_vars"] \in {Unset, Wide, Relative, Spelled}
     /\ i["play_vars"] \in {Unset, Narrow, NotADict}}

(* A group denies what a host of it is not told of.                        *)
ShadowingInventories ==
  {[s \in SOURCES |-> IF s = "group_vars" THEN Narrow
                      ELSE IF s = "host_vars" THEN Wide ELSE Unset]}

Given(n) == [given |-> "yes", value |-> n]
Absent == [given |-> "no", value |-> 0]
Bad == [given |-> "bad", value |-> 0]

Numbers(i, t, o) ==
  [k \in BUDGET_KEYS \cup {"timeout"} |->
     CASE k = "max_iterations" -> i [] k = "max_tokens" -> t [] OTHER -> o]

MCTaskArgs ==
  {Numbers(Absent, Absent, Absent), Numbers(Given(3), Absent, Absent),
   Numbers(Given(0), Absent, Absent), Numbers(Absent, Given(0), Absent),
   Numbers(Absent, Absent, Bad)}

Run(head, dash_c) == [tool |-> "run_cmd", head |-> head, dash_c |-> dash_c]
File(tool, path) == [tool |-> tool, path |-> path]
Snippet(nodes) == [tool |-> "run_python", parses |-> TRUE, nodes |-> nodes]
Import(m) == [kind |-> "import", module |-> m]
Spawn(argv0) == [kind |-> "subprocess", argv0 |-> argv0, tail |-> "plain"]

MCCalls ==
  {Run(ps, FALSE), Run(rm, FALSE), Run(docker, FALSE), Run(<<"docker">>, FALSE),
   Run(<<"", "bin", "ps">>, FALSE), Run(<<"", "bin", "rm">>, FALSE),
   Run(<<"bash">>, TRUE), Run(<<"bash">>, FALSE)}
    \cup
  {File("read_file", p) : p \in {<<"", "var", "log", "syslog">>,
                                 <<"", "var", "log", "..", "..", "etc", "shadow">>,
                                 <<"", "etc", ".", "", "hosts">>, <<"", "srv", "key">>,
                                 <<"etc", "hosts">>, <<"", "srv", "..">>}}
    \cup {File("write_file", <<"", "srv", "x">>)}
    \cup
  {Snippet({Import(<<"os", "path">>)}), Snippet({Import(<<"socket">>)}),
   Snippet({Import(<<"os">>), Spawn(rm)}), Snippet({Import(<<"os">>), Spawn(ps)}),
   Snippet({Import(<<"os", "system">>)}), Snippet({Spawn(<<>>)}),
   Snippet({[kind |-> "builtin", id |-> "eval"]}),
   [tool |-> "run_python", parses |-> FALSE, nodes |-> {}]}
=============================================================================

-------------------------------- MODULE Tools --------------------------------
(***************************************************************************)
(* plugins/module_utils/tools.py and the snippet validator of sandbox.py:  *)
(* the tools offered under a rule set, and which calls exec_tool lets      *)
(* through to the sandbox.                                                 *)
(*                                                                         *)
(* A call has passed _validate_tool_call: its fields are there and well    *)
(* typed.  A snippet is the set of what validate_ast looks at in its tree; *)
(* what it looks for apart from the rules is one kind of node each.        *)
(***************************************************************************)
EXTENDS Rules

Node ==
  [kind : {"import"}, module : Name]
    \cup [kind : {"builtin"}, id : STRING]
    \cup [kind : {"builtins_access", "dangerous_attr", "always_shell", "shell_keyword"}]
    \cup [kind : {"subprocess"}, argv0 : Name \cup {<<>>},
          tail : {"plain", "dash_c", "not_literal"}]

ToolInput ==
  [tool : {"run_cmd"}, head : Name, dash_c : BOOLEAN]
    \cup [tool : PATH_KEYS, path : Name]
    \cup [tool : {"run_python"}, parses : BOOLEAN, nodes : SUBSET Node]

-----------------------------------------------------------------------------
(* build_tools: a tool is offered when its allow list is not empty.        *)
build_tools(rules) ==
  {"done"}
    \cup {k \in {"run_cmd", "read_file", "write_file"} : rules.allow[k] # {}}
    \cup {t \in {"run_python"} : rules.allow["python"] # {}}

-----------------------------------------------------------------------------
(* exec_tool and what it calls *)

SHELL_BINARIES == {"sh", "bash", "zsh", "dash", "ksh", "ash", "fish", "csh", "tcsh"}

Base(head) == <<Last(head)>>
IsShell(head) == Last(head) \in SHELL_BINARIES

argv_validate_BaseOnly(rules, c) ==
  is_cmd_allowed(rules, Base(c.head)) /\ ~(IsShell(c.head) /\ c.dash_c)

(* Either spelling may be allowed; a shell gets no payload.                *)
argv_validate(rules, c) ==
  /\ is_cmd_allowed(rules, Base(c.head)) \/ is_cmd_allowed(rules, c.head)
  /\ ~(IsShell(c.head) /\ c.dash_c)

ALWAYS_BLOCK_READ ==
  {<<"", "etc", "shadow">>, <<"", "etc", "gshadow">>, <<"", "etc", "sudoers">>,
   <<"", "root", ".ssh", "**">>, <<"**", ".ssh", "id_rsa">>, <<"**", ".ssh", "id_ed25519">>,
   <<"**", ".aws", "credentials">>}

BuiltInDeny(path) == \E pattern \in ALWAYS_BLOCK_READ : Matches(path, pattern)

resolve_path(rules, path, key) ==
  /\ Absolute(path)
  /\ key = "read_file" => ~BuiltInDeny(NormPath(path))
  /\ is_path_allowed(rules, NormPath(path), key)

(* What validate_ast raises a violation for.                               *)
Violates(rules, node) ==
  \/ node.kind = "import" /\ ~is_python_import_allowed(rules, node.module)
  \/ node.kind = "builtin" /\ ~is_python_import_allowed(rules, <<"__builtins__", node.id>>)
  \/ node.kind \in {"builtins_access", "dangerous_attr", "always_shell", "shell_keyword"}
  \/ /\ node.kind = "subprocess"
     /\ \/ node.argv0 = <<>>
        \/ ~is_cmd_allowed(rules, node.argv0)
        \/ IsShell(node.argv0) /\ node.tail # "plain"

validate_ast(rules, c) == c.parses /\ \A node \in c.nodes : ~Violates(rules, node)

(* Whether exec_tool runs the call; otherwise it is blocked, exit 126.     *)
exec_tool(rules, c) ==
  \/ c.tool = "run_cmd" /\ argv_validate(rules, c)
  \/ c.tool \in PATH_KEYS /\ resolve_path(rules, c.path, c.tool)
  \/ c.tool = "run_python" /\ rules.allow["python"] # {} /\ validate_ast(rules, c)
=============================================================================

# Formal models of ansible_ai

TLA+ models, TLC runs and TLAPS proofs for the `yalindogusahin.ansible_ai`
collection: an Ansible action plugin that lets a language model investigate
hosts through a small set of rule-gated tools. Every definition is translated
from the Python source; `PROJECT.json` maps each one to its lines.

## 1. Inventory

| Component | State | Operations | Talks to |
|---|---|---|---|
| Agent loop, `orchestrator.run_agent` | messages, transcript, token totals, iteration, `consecutive_bad`, diagnosis | ask the model, reject / run / finish tool calls, stop on a budget, on an error, on bad turns | calls the LLM client; calls `exec_callable`; calls `on_step` |
| Aggregation, `run_aggregate` + `_run_aggregate` | none | one LLM call over the registered results | LLM client, prompts |
| LLM transport, `LLMClient._post_json` | attempt | send, retry with backoff, give up | network, provider |
| Provider conversions, `llm_client.py` | none | Anthropic-shaped messages to OpenAI / Ollama, replies to `Completion` | transport |
| Process runner, `sandbox._run_capped`, `_drain` | child, two pipes, two buffers, two threads | start, drain, wait, kill, join | kernel |
| Sandbox tools, `sandbox.py` | isolation (cached), temporary script | `_wrap`, `run_cmd`, `run_python`, `read_file`, `write_file` | process runner |
| Snippet validator, `sandbox.validate_ast` | none | walk a syntax tree | rules |
| Rules, `rules.py` | merged rule set | `validate`, `merge`, `is_*_allowed` | - |
| Tools, `tools.py` | none | `build_tools`, `exec_tool` | rules, sandbox |
| Action plugin, `plugins/action/ai_agent.py` | effective rules, result, transcript file | collect layers, override budgets, dispatch, stream, save | rules, agent loop, `_execute_module` |
| Target module, `plugins/modules/ai_exec.py` | none | validate, check mode, dispatch, answer | tools |
| Prompts, `prompts.py` | none | redact facts and hostvars, render prompts and results | - |
| Role defaults, examples, tests, CI | none | data | - |

Calls go down the table: Ansible runs the action plugin once per host, in
forked workers that share nothing but files and the provider. The plugin merges
the rules and enters `run_agent`, which alternates between the provider (over
`_post_json`) and the target (over `_execute_module`, `ai_exec`, `exec_tool` and
`_run_capped`).

What is hard here:

- **Protocol over several turns.** Providers refuse a conversation whose tool
  calls are not all answered. A reply may mix calls that are rejected, run,
  fail, or end the run in the middle.
- **Budgets known after the fact.** Tokens are counted when the reply is there.
- **Failure on either side.** The provider may fail in ways `LLMError` covers and
  ways it does not; the target may raise, or return a dict of another shape.
- **Retries.** What urllib wraps decides what is retried.
- **Threads and processes.** Two drain threads, a command that may flood,
  end, be killed, or leave a descendant with the pipes open.
- **Layered rules.** Denies of any layer win for ever.
- **Forked workers.** The hosts of a play write artifacts side by side, over what
  an earlier play left; a later task sums up those that were not taken out.
- **Partial effects.** A write that empties the file and then fails; a connection
  that is lost while the module goes on; a script file that must outlive its
  interpreter and nothing else.

Correct means, per component: the agent keeps a valid conversation, tells the
model and the operator the same story, stays within its budgets and always
ends with a reason; the transport retries only what may pass and gives up only
at the end; the process runner loses no output, never blocks the command and
comes back; a script is there while its interpreter runs and gone afterwards;
the rules never allow what a layer denied; the plugin dispatches only under
rules the target accepts, streaming and artifacts cost no run its result, and each
host has its own artifact; a provider gets requests it accepts; what the model is
told succeeded, did; no secret leaves the controller through a host variable.

The full list of hazards, each at its line, is in `PROJECT.json`.

## 2. Modules

| Module | What it is |
|---|---|
| `Investigation` | Abstract specification: what one per-host investigation promises (bounded questions, nothing asked or run over budget, nothing after it is closed). |
| `Orchestrator` | `run_agent`, one action per segment between two answers of the model or the target. |
| `MCOrchestrator` | Small sets of replies for TLC, used by `MCAgentOverTransport`. |
| `LLMTransport` | `_post_json`: the retry loop and every way an attempt ends. |
| `AgentOverTransport`, `MCAgentOverTransport` | Composition: each question of `Orchestrator` is a request of `LLMTransport`; the attempts of the run are counted. |
| `Providers`, `MCProviders` | `Orchestrator` with the payloads of the three APIs, parsed as the clients do, and the requests they make of its conversation. |
| `RunCapped` | `_run_capped` and `_drain`: calling thread, drain threads, command, descendant, pipes. |
| `RunTool`, `MCRunTool` | `run_cmd` and `run_python` around `RunCapped`: isolation, script, exceptions. |
| `FileTools` | One `read_file` or `write_file` call from `ai_exec` to what the model is shown. |
| `Rules` | What a layer is, `validate`, one round of `merge`, the gates. Operators only. |
| `Tools` | `build_tools`, `exec_tool` and its validators, `validate_ast` by kind of node. Operators only. |
| `ActionPlugin`, `MCActionPlugin` | The path of the rules through one task: layers, merge, overrides, dispatch, and `ai_exec`'s verdict. Uses `Tools` and `Rules`. |
| `Play` | The tasks of a fan-out play: streaming, artifacts, the aggregate task. |
| `Prompts` | `filter_facts`, `filter_hostvars`, `_redact`. |
| `ClientProofs` | Theorems about `Providers` and `AgentOverTransport`: `run_agent` with its client. |
| `RunToolProofs` | Theorems about `RunCapped` and, around it, `RunTool`. |
| Other `...Proofs` | Theorems about the module of that name. |

How they hang together: `Providers` and `AgentOverTransport` refine one side of
`Orchestrator`, the model; both are proved to implement it, so that each theorem
about `Orchestrator` holds in them. `RunTool` is proved to implement
`RunCapped`. `ActionPlugin` and `Play` reduce `run_agent` to what `Orchestrator`
shows of it, and the commands and files of a call belong to `RunTool` and
`FileTools`.

### Orchestrator

`pc` is where `run_agent` is: at the head of the `for` loop, inside
`llm_client.complete`, in the loop over tool calls, inside `exec_callable`,
returned, or left by an exception. `iterations`, `consecutive_bad`, `messages`,
`transcript`, `diagnosis` and `tool_results` are the function's variables;
`spent` is `total_input + total_output`; `pending` is what is left of
`completion.tool_calls`. `roundTrips` and `ran` are history: requests made and
calls handed to the target.

Abstracted: a tool input is *valid*, *invalid* (the validator says why) or *not
a dict* (`.get` raises); text is empty, blank or prose; a message has its
kind of text and its tool_use and tool_result blocks. A result that raises or is
not a dict becomes an error result, as in the code. `on_step` has no effect on
the loop, because its exceptions are swallowed; `Play` has it.

The actions cover the function line by line: `ExhaustIterations` (the `for ...
else`), `StopOnBudget` (the check at the head, after `iterations` was advanced),
`AskModel`; `ModelFails` (LLMError), `ModelRaises` (any other exception),
`OverBudgetReply`, `TextOnlyReply`, `ToolReply`; `RejectCall`, `CrashOnInput`,
`CallDone` (later calls of the reply are dropped), `DispatchCall`,
`ExecReturns`; `GiveUpOnModel`, `ReportResults`.

### LLMTransport

`log` is the history of how attempts ended. Failures up to sending are
`URLError`s with a permanent or transient reason, an error status is an
`HTTPError`, and a failure while the response is awaited or read is neither:
urllib does not wrap it, no clause catches it, it leaves `_post_json` (and
`run_agent`, see `ModelRaises`). An error status that is not retried has its
body read first, outside any `try`. Delays are in half seconds, the base of the
backoff.

### AgentOverTransport

`AskModel` starts a request of its own on the client's endpoint; while it is on
its way (`Waiting`) only the transport moves; `AgentHears` hands `run_agent` what
came of it. A client without an API key fails like one with a refused endpoint.

`spent` is what `run_agent` counts, not what the provider charges. Tokens read
from or written to a cache are kept apart and left out of the budget
(`llm_client.py:165`, `orchestrator.py:147`), the usage of an OpenAI reply
without choices is dropped (`llm_client.py:334`), and a lost response or a 5xx
may come after a reply that was produced and paid for. The models take no
position on the bill: any attempt may be charged, and `attempts`, a history,
counts those of all requests of the run.

### Providers

`provider` is the client, chosen once; Bedrock converts and parses as Anthropic
does. `ReplyArrives` replaces the completions of `Orchestrator` by what
`parse_..._response` makes of a payload. Payloads are blocks (Anthropic), a text
and calls with arguments that may be no JSON (OpenAI), or the fragments of one
text (Ollama): prose, blank space and JSON actions. A falsy input (`""`, `[]`,
`0`, `false`) becomes `{}` with Anthropic and OpenAI; in text mode it is no
mapping and the text no call, while `null` counts as absent. `to_openai_messages` and
`to_ollama_text_messages` are the requests made of the conversation;
`OpenAIAccepts` and `OllamaReadsBack` look at them whenever one is sent. Headers,
schemas and cache markers are left out.

### RunCapped and RunTool

Bytes are counted, not identified. A drain thread fills a chunk (`stream.read`
returns early only at end of file), then stores what fits and drops the rest.
A pipe is at end of file when it is empty and no process that holds it runs.
`contained` says whether the descendant dies with the command, as under bwrap's
`--unshare-pid --die-with-parent`. Processes and pipes belong to the kernel and
are marked external.

`RunTool` adds `working`, the isolation tools that pass their probe, from which
`detect_isolation` picks; `script`, the temporary file; and `step`, where
`run_cmd` or `run_python` is around `_run_capped` (`Capture` is a step of
`RunCapped`). `_wrap` has prefixes for bwrap and firejail only: with nsjail and
with the rlimit fallback the command runs as it is. Only an executable that is
not wrapped can be missing for `Popen`; `run_cmd` turns that into exit 127, any
other `OSError` leaves both functions, past the `finally` of `run_python`.

### FileTools

A text is its length and whether a truncation line ends it. `file` is the file
of the call's path: absent, old, or new with so much of the content. A write
empties the file when it is opened; then it succeeds, fails with an `OSError`
after some of it (exit 5), or with a text that cannot be encoded, which is no
`OSError` and fails the module. The connection may be lost before, during or
after. `coerced` and `render` are what `_coerce_result` and `render_tool_result`
make of the answer. The collection's default rules deny every `write_file`, so
that writes come about with `ai_exec` used directly or with other defaults.

### Rules, Tools and ActionPlugin

A path or a command is the sequence of its segments, an absolute one starting
with the empty segment; a Python module is the sequence of its parts. This is
enough to say what the gates do: normalize a path, match a pattern, take a base
name, look for a package. Wildcards are restricted to `**` as the first or last
segment of a pattern; other globs that `fnmatch` knows are left out. A list of
entries is a set: `merge` drops duplicates and the gates look for members. A
layer that is not written is `undefined`; one that is no mapping is dropped by
`_collect_rule_layers`; one with wrong types, a glob in a command, a relative
path or a budget that is not positive is refused by `validate`. A layer is
merged with `Merged`, one round of the loop per action; `WithoutDenied` is what
follows the loop.

`inventory` says what each of group_vars, host_vars, play_vars and the task set.
Ansible hands the plugin one value of `ansible_ai_rules`, that of the highest
source that sets it (its default `hash_behaviour`; external). `Collect`,
`RefuseLayer`, `MergeLayer`, `LayersMerged`, `RefuseNumber`, `Override`,
`NoClient` and `EnterAgent` follow `ActionModule.run`; `args` holds the numbers
that `int()` may refuse.

`run_agent` is abstracted to what `Orchestrator` shows of it: a call is
dispatched only if its tool is offered and both budgets are positive (theorem
`DispatchNeedsBudgets`), and any such call may be, again and again.
`TargetAnswers` is `ai_exec.main`: the rules are validated again, check mode
runs nothing, `exec_tool` decides. A call has passed `_validate_tool_call`. A
snippet is the set of the nodes `validate_ast` looks at. `TargetLost` is a host
that could not be reached, `AgentRaises` an exception that leaves `run_agent`.
A missing prompt is left out.

The properties judge a call by the layers: `Permits` is allowed by one and denied
by none. A command has two spellings, as it is called and its basename; the
layers permit it if they allow one and deny neither (`PermitsCommand`). The gate
asks for less, one spelling that is allowed and not denied: the two differ for a
command with a `MixedSpelling`, which `NothingUnpermittedRuns` excepts. The first argument of a snippet's
`subprocess` call is judged as it is written, by the code too.

### Play

`pc[h]` is where the task of host `h` is: in `run_agent`, in `_write_transcript`
(`opening`, `dumping`), over. `transcript[h]` has for each entry whether its line
was displayed: the input of a rejected call may be one `on_step` cannot join or
measure. An artifact is a sequence of chunks, written at the worker's own offset
into a file that any worker may empty; `{host}` in the path (`templated`) makes
it one file per host. An `OSError` becomes a warning (`ArtifactFails`), any other
exception fails the task (`ArtifactRaises`). When every host is over, the
aggregate task runs if one is left in the play (`PlayHosts`: failed hosts stay
only with `ignore_errors`; external), asks once, and takes the summary of `done`,
or else the text. Its `results` argument is a template of the playbook's and may
have elements of any of the hosts; `host_count` is its length.

### Prompts

A leaf of a nested variable or fact is the path to it, through keys and items;
the steps grow the path, so that the run visits every leaf up to a depth. Keys
are secret or ordinary; the list of patterns is data.

## 3. Runs

| Run | Shows | Bounds |
|---|---|---|
| `conversation` | with each provider, requests are well formed and accepted; model, transcript and target agree; two bad turns in a row and only those abort; a text-mode model cannot raise | 4 iterations, replies of 1 or 2 calls that run, are malformed in each way of the API or are `done`, texts of all kinds; the token budget out of the way. Two calls cover every mix of outcomes in a turn; four turns cover bad-good-bad and bad-bad in every position |
| `budget` | the counted tokens exceed the budget by one reply at most, the attempts are bounded by the round trips; explanation, accounting, no effect over budget, the run ends, refinement of `Investigation` | 3 iterations, budget 4, replies of 0 to 3 tokens: the budget is missed, met exactly after two turns, and exceeded by up to 2. One retry, a permanent and a transient status: each request may fail once and then end in every way |
| `retries` | what is retried, when the client gives up, the sum of the delays, no fall-through, the request ends | 3 retries (the default), statuses on both sides of the retryable set |
| `capture` | complete and final capture, the call ends, output never blocks, the script is there and then gone | cap 3, chunk 2, pipe 1; streams below, at and past the cap; the chunk does not divide the cap, so that a chunk is cut in the middle; four targets, one per choice of isolation |
| `policy` | what runs is permitted by the layers (mixed spellings apart), what they permit runs, the target never refuses the rules, the budget is the highest source's | 3 entries or fewer per list, 2160 initial states: every combination of an unset, wide, narrow, shadowing, otherwise spelled, misplaced, mistyped or invalid value in the four sources, five sets of arguments, check mode on and off; 23 calls around every gate (both spellings, `..`, `//`, `.`, a relative path, built-in denies, packages, snippets that import, spawn or do not parse) |
| `fan_out` | with `{host}` in the path, each host has its own whole artifact or a warning | 2 hosts, 1 entry, artifacts of 2 chunks: a worker can be overtaken before, between and after its writes |
| `writes` | success is told only of whole writes, cuts are marked | limits 4 and 2, sizes 0 to 6: below, at and past both |
| `redaction` | exactly the leaves below a secret name or too deep are hidden | paths of 6 steps, two beyond the cut |
| `malformed_input` (violation) | an input that is not a dict takes the run down | as `conversation`, 2 iterations |
| `response_timeout` (violation) | a late response is not retried | 1 retry |
| `held_pipe` (violation) | a descendant keeps the call past its timeout | no output at all |
| `lost_deny` (violation) | a deny of group_vars is lost where host_vars set rules | one inventory, in which all values are well formed |

`CHECK_DEADLOCK FALSE` is set everywhere because each of these functions
returns; that none gets stuck earlier is what `RunEnds`, `RequestEnds` and
`ToolEnds` say. `ActionPlugin`, `Play`, `FileTools` and `Prompts` have safety
properties only and assume no fairness.

### Fairness

- `Orchestrator`: the agent's own steps are plain Python and happen. The model
  and the target are assumed to answer, fail or raise in the end. In
  `AgentOverTransport`, where `RunEnds` is checked, the model's part is no
  assumption any more but that of `LLMTransport`; the target's rests on
  `_run_capped`'s timeout, in the cases `ToolEnds` covers.
- `LLMTransport`: every network step ends one way or another (socket timeout).
- `RunTool`: the threads are scheduled, a command that can write does, the
  kernel tears a namespace down. Nothing is assumed of the command's exit or of
  the timeout: `ToolEnds` starts where either has happened, and
  `OutputNeverBlocks` must hold without a timeout to help.

## 4. What the runs found

Four places where the repository says one thing and the code does another are
runs with `expect: violation`, described under `findings` in `PROJECT.json`.
Others the modules show and no run refutes:

- `iterations_used` counts the iteration that stops at its head on a budget
  spent exactly, which makes no request, while `ai_agent.py:204` calls it the
  "Number of LLM round-trips actually executed." `RoundTripAccounting` says when.
- The default facts never reach the prompt: `DEFAULT_FACT_KEYS` carry the prefix
  `ansible_`, and `_build_host_ctx` looks them up in `ansible_facts`, whose keys
  Ansible strips of it (`prompts.py:87`, `filter_facts` is always `absent`). The
  unit tests use dicts with the prefix.
- firejail is started with `--private-tmp` and the script of `run_python` is in
  `/tmp`; `_wrap` makes it visible for bwrap only (`sandbox.py:374`, `:390`).
  Where firejail is the strongest tool a snippet does not find its script.
- `render_tool_result` cuts what the model sees to 4000 characters, and the
  truncation line of the tool with it (`prompts.py:141`), while the tool's
  description says "~16 KB" (`tools.py:88`).
- The tokens a run reports and its budget limits are not the provider's bill:
  cache tokens, the usage of a reply without choices, and whatever an attempt
  that failed or was lost has cost are outside both (see `AgentOverTransport`).
  `max_retries + 1` attempts a round trip is the bound that remains
  (`AttemptsBounded`).
- A command that is denied in one spelling and allowed in the other runs, also
  when it is called by the very spelling that is denied: `/usr/bin/docker` is
  denied and `docker` allowed, or `rm` is denied by the defaults and `/bin/rm`
  allowed (`tools.py:197`, `MixedSpelling`). `README.md:123` says "Deny entries
  always win across layers", `rules.py:5` "Deny always wins on conflict" and
  `README.md:173` "The model can never invoke a denied tool call". The instance
  of `policy` contains both cases.
- An artifact that fails with anything but an `OSError` fails the task, and the
  result of a run that had returned is lost (`action/ai_agent.py:371`,
  `ArtifactRaises`): `json.dump` raises `TypeError` on a nested key that is
  neither text nor number, for instance a date as a key in a host variable
  (`default=str` is for values), and `open` raises `ValueError` on a path with a
  NUL. The docstring at `action/ai_agent.py:348` says "Failures are non-fatal",
  and so does `modules/ai_agent.py:113`.
- With `stream` a rejected call may have no line: `on_step` raises on an `argv`
  of numbers or a `content` of `null`, and `_emit` swallows the exception
  (`action/ai_agent.py:316`, `Displayed`), while `modules/ai_agent.py:84` promises
  "one compact line per orchestrator step".
- `host_count` is the number of elements of the `results` argument
  (`orchestrator.py:315`), which need not be one per host of the play and may
  have elements the per-host block skips (`prompts.py:170`).
- A layer's `allow.write_file` is offered to the model with its patterns while
  the collection's own deny of `**` blocks every call (`ai_agent.py:102`).
- In check mode every tool call is told to the model as a success without output
  (`ai_exec.py:125`, `CheckMode`).
- An empty reply ends the run although a comment speaks of a follow-up
  (`orchestrator.py:173`, `TextOnlyReply`).
- A command that ends between the expiry of the timeout and the kill is reported
  as timed out with exit 124 (`sandbox.py:447`, `Expire` and `Kill`).
- A stream of exactly the cap is marked as truncated (`sandbox.py:418`,
  `Overflows`).
- A temporary script whose writing fails stays behind (`sandbox.py:485`,
  `WriteFails`).

## 5. Proofs

All for every value of the constants, under the named assumptions of each
module: `OrchestratorAssumption` (integers may be zero or negative, the task arguments
are not validated; replies are of the shape the parsers return, none costs more
than `MaxReply`), `LLMTransportAssumption` and `ClientAssumption` (an integer, error statuses),
`RunCappedAssumption` (cap, chunk
and pipe are positive), `RunToolAssumption`, `ProvidersAssumption` (what the
parsers return is one of the completions), `PlayAssumption` (finitely many
hosts) and `ActionPluginAssumption`.

- **Types** of the agent, the transport, the process runner with its tools, and
  the task. `consecutive_bad` needs `ControlInv`: a run
  that goes on has had fewer bad turns in a row than the limit, and a call on
  the target is a dispatchable one.
- **Budgets** (`OverspendIsBounded`, `RoundTripsAccounted`,
  `NoEffectOverBudgetHolds`) rest on `AccountInv`: below the budget while a
  question is open, not over it while calls are handled. The bound itself is
  not inductive without these, because the check and the addition are in
  different iterations.
- **Refinement** (`OrchestratorImplements`): initial states and each action map
  to `Investigation`; `StopOnBudget`, errors and `done` map to `Close`, a reply
  to `Answer`, `DispatchCall` to `Act`.
- **Diagnosis and bad turns** (`DiagnosisIsExplained`, `TwoBadTurnsAbortHolds`):
  a diagnosis is judged by the counters and the last transcript entry, both
  written in earlier segments; `ExplainInv` carries the reason from there to the
  return. `StreakInv` says that the last `consecutive_bad` turns of the
  transcript are whole bad ones, also while a turn is unfinished.
- **Target, transcript and model agree** (`EffectsAreRecorded`,
  `ToldAsRecordedHolds`): the properties select the entries of some kinds from
  the transcript, and the results from all messages. `EffectsInv` and `ToldInv`
  add the call and the turn that are not over. What selecting and flattening do
  to a sequence that grew by one (`SelectedAppend`, `FlattenAppend`) takes
  induction, see below.
- **Conversation** (`ConversationHolds`): the property speaks of the moment of a
  request. The invariant `ConversationInv` adds the unfinished turn: the ids of
  the last assistant message are those of the results so far followed by those
  of the pending calls. `HalfwayStep` moves one id from the second part to the
  first, and when nothing is pending the turn is answered.
- **Transport** (`AssertionHolds`, `RetriesAreJustified`,
  `GivingUpIsJustified`): `RetryInv` ties the number of logged attempts to the
  loop variable at every point of the function. `BackoffIsBounded` is inductive
  once `PowerOfTwo` is known to double (`Powers`, by induction).
- **Process runner** (`CaptureIsComplete`, `ResultIsFinalHolds`): `Conserved`
  says that what was written is in the pipe, in the chunk or stored, and
  `DrainInv` that a thread that ended saw the end of file, which stays.
- **Composition with the transport** (`CompositionImplements`): a step of the
  composition is a step of `Orchestrator` or leaves it alone; `ReplyInv` says
  that what the provider made is one of the completions. With
  `OrchestratorImplements` it implements `Investigation`
  (`CompositionInvestigates`).
- **Attempts** (`AttemptsAreBounded`): the bound compares two counters that are
  never reset, one per run of `run_agent` and one over all requests. During a
  request `RequestInv` says how far it is into the share of its round trip: as
  many attempts as the loop variable says, and one more while an attempt is in
  flight or slept off, which `max_retries` limits because a sleep comes only
  with a retry left.
- **Providers** (`ProvidersImplement`, `ProviderConversationHolds`,
  `TextModelsCannotCrashHolds`): a parsed reply is a completion; `DictInv` says
  that the pending calls of an Ollama run all have mappings as inputs.
- **Requests** (`OllamaReadsBackHolds`, `OpenAIAcceptsHolds`), for conversations
  of every length: `ShapeInv` says that after the first message the user only
  reports results, and `ActedInv` that in text mode each turn of the model is one
  call, which is why its line parses back (`ActionParsesBack`) and no message
  is lost or split in the rendering (`FlattenSingletons`). `OpenAIInv` says that
  between turns the wire mirrors the turns so far, and that during one it ends
  with the assistant message being handled; `MirrorsStep` adds a turn.
- **Files** (`SuccessIsWholeHolds`, `CutIsMarkedHolds`): `AnswerInv` says what an
  exit of 0 and `changed` are worth when the module answers, and that a lost
  connection, which may come after that, never leaves an exit of 0.
- **Redaction** (`OnlySecretsAreHiddenHolds`), for paths of every length: the
  recursion is cut at depth five, so that a solution can be written down
  (`RedactionExists`), and `RedactShows` follows it from the last level up.
- **Tools of the sandbox** (`ToolImplementsCapture`, `ScriptOutlivesHolds`,
  `ScriptRemovedHolds`): `ScriptInv` ties the script to the function's step, and
  `StoppedChild` takes from `RunCapped` that nothing runs once it has returned.
- **Play** (`OwnArtifactHolds`): `ArtifactInv` says that with `{host}` in the
  path the file of a worker is its own chunks up to its offset from the moment
  it opened it, so that stale content and other workers cannot show.
- **Rules** (`NothingUnpermittedRunsHolds`, `PermittedCallsRunHolds`), under
  `ActionPluginAssumption` (the defaults are a valid layer with every budget;
  inventories, arguments and calls are well typed): `EntriesInv` says that after
  `n` rounds the denies are exactly those of the first `n` layers, and the
  allows too, until `WithoutDenied` takes the exact denies out; that loses
  nothing a gate could still let through, because the gates look at the denies
  first. `GatesReadTheLayers` turns the merged lists into statements about the
  layers, one lemma per gate, and `VerdictInv` carries the verdict to the moment
  it is looked at. What a gate lets through has one spelling the layers permit
  (`WhatRunsIsPermitted`); that it is permitted as a command follows but for a
  `MixedSpelling`. The properties speak of the layers only, not of the merged
  lists, so that they are not inductive by themselves.
- **Budget of the rules** (`TargetNeverRefusesHolds`, `BudgetFromHighestHolds`):
  every merged layer was valid (`LayersInv`), so the merge is but for its budget
  (`MergeIsValid`), and a call on the target finds both budgets positive;
  `BudgetInv` carries that to the target's answer, and through the loop that the
  budget is that of the highest layer so far (`HighestUpTo`).

- **Winding down** (`RunWindsDown`, `RequestWindsDown`, `CallWindsDown`,
  `ToolWindsDown`, `PlayWindsDown`): the half of termination that is not about
  fairness. For each component a measure in the naturals is given that every
  step lowers: for `run_agent` the triple of the iterations left, the stage of
  this one and its pending calls; for a request five steps an attempt
  (`StepsLeft`); for `_run_capped` the bytes still to be written, read and
  stored, and the processes, threads and waits still to come (`WorkLeft`,
  `StepWorks`); for a play what each host and the aggregate task have left,
  of which no step raises any. So where one of them does not end, it waits:
  for the network, for a process that does not exit or holds a pipe. That it
  does not wait for ever, which takes `ENABLED` and fairness, is left to TLC.

Induction: the library's induction theorems take an operator, which the provers
cannot instantiate. `LeastNatural` and `SetInduction` (in `OrchestratorProofs`
and `LLMTransportProofs`) say the same of a set, from the well-foundedness of
`<` on the naturals. With them a recursive function is shown to exist
(`Iteration`) and to be the only one (`SelectsUnique`, `JoinsUnique`), and its
value after one more element follows (`SelectedAppend`, `FlattenAppend`). This is
why `Orchestrator` selects with `Selected`, a recursive function, in place of
`SelectSeq`, whose definition the provers do not have.

Only model-checked: liveness (`RunEnds`, `RequestEnds`, `ToolEnds`,
`OutputNeverBlocks`, `ReturnsOncePipesAreFree`), of which the prover reaches only
the measures above, and the four findings. Every other property of a passing run is proved.

## 6. Not modelled

- How `validate_ast` recognises its nodes in Python's syntax (attribute chains,
  literals, aliases): the grammar, not a behaviour over time.
- Wording of prompts, tool descriptions and results, the literal values of the
  collection's defaults and of the secret patterns, `print_result`'s line.
- Headers, tool schemas, cache markers and boto3; environment lookups of
  `get_client`, which end in an `LLMError` that the models have.
- bwrap's, firejail's and nsjail's inner workings, the `--unshare-net` option.
- Examples and role defaults: data.

Left for later: `ActionPlugin` around `Orchestrator` itself instead of its
abstraction.

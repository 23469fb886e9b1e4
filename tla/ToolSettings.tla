---------------------------- MODULE ToolSettings ----------------------------
(***************************************************************************)
(* The settings file of a managed coding agent: the provider and the keys  *)
(* a client saves, the env section the CLI reads, the defaults seeded at   *)
(* the start, and the two other files RCFlow writes for an agent, the      *)
(* CLAUDE.md of the caveman mode and the MCP entry of Codex.               *)
(*                                                                         *)
(* Source: src/src/services/tool_settings.py, core/agent_auth.py,          *)
(* api/routes/tools.py, core/agent_codex.py.                               *)
(*                                                                         *)
(* The keys of a tool are its main key ("main": anthropic_api_key,         *)
(* codex_api_key, opencode_api_key) and its other one ("other": the AWS    *)
(* keys together, openai_api_key).  A key "" is none.                      *)
(***************************************************************************)
EXTENDS Naturals, FiniteSets

CONSTANTS
    LongKeys,      \* keys of more than four characters
    ShortKeys,     \* keys of at most four
    MaxFields      \* bound: fields of one update

ASSUME SettingsAssumption == MaxFields \in Nat \ {0} /\ "" \notin LongKeys \cup ShortKeys

CliTools == {"claude_code", "codex", "opencode"}
Keys == LongKeys \cup ShortKeys \cup {"", "****"}

VARIABLES
    cli,      \* the tool
    file,     \* its settings file
    stale,    \* the copy the CLI has read, and will write back, if any
    memo,     \* CLAUDE.md
    toml      \* config.toml: entries of the user after the block, the block, an own entry

cliVars == <<cli, file, stale, memo, toml>>

Env == [on : BOOLEAN, main : Keys, other : Keys]
NoEnv == [on |-> FALSE, main |-> "", other |-> ""]
EmptyFile == [ok |-> TRUE, provider |-> "", main |-> "", other |-> "", model |-> "", deny |-> FALSE, env |-> NoEnv]

\* The options of the provider field of the tool's schema, and the unconfigured sentinel.
ProvidersOf(t) ==
    {""} \cup CASE t = "claude_code" -> {"anthropic", "anthropic_login", "bedrock"}
                [] t = "codex" -> {"openai", "chatgpt"}
                [] t = "opencode" -> {"anthropic", "openai"}
\* The keys that an agent with the provider is given.
UsesMain(t, p) == p = "anthropic" \/ (t = "codex" /\ p = "openai")
UsesOther(t, p) == p = "bedrock" \/ (t = "opencode" /\ p = "openai")

Files == [ok : BOOLEAN, provider : ProvidersOf(cli), main : Keys, other : Keys, model : {"", "m"},
          deny : BOOLEAN, env : Env]

SettingsTypeOK ==
    /\ cli \in CliTools
    /\ file \in Files
    /\ stale \subseteq Files /\ Cardinality(stale) <= 1
    /\ memo \in {"none", "user", "caveman"}
    /\ toml \in [user : BOOLEAN, block : {"none", "whole", "broken"}, own : BOOLEAN]

SettingsInit ==
    /\ cli \in CliTools
    /\ file = EmptyFile /\ stale = {}
    /\ memo = "none"
    /\ toml = [user |-> FALSE, block |-> "none", own |-> FALSE]

-----------------------------------------------------------------------------
(* The settings file.                                                      *)

\* get_settings: a file that cannot be read, or is no JSON, is an empty one.
GetSettings == IF file.ok THEN file ELSE EmptyFile

\* _mask_secret, and _is_masked: a short key is all stars, which is no mask to the reader.
MaskOf(k) == IF k \in LongKeys THEN "masked" ELSE IF k = "" THEN "" ELSE "****"
IsMasked(v) == v = "masked"

\* _sync_provider_env and its siblings: no section without a provider, and with one the
\* key it uses.
SyncEnv(f) ==
    [f EXCEPT !.env = IF f.provider = "" THEN NoEnv
                      ELSE [on |-> TRUE, main |-> IF UsesMain(cli, f.provider) THEN f.main ELSE "",
                            other |-> IF UsesOther(cli, f.provider) THEN f.other ELSE ""],
              !.model = IF f.provider = "anthropic_login" THEN "" ELSE @]

\* Mutant: the second key of OpenCode is not a key of its provider.
MainKeys(t) == {"provider", "main"} \cup (IF t = "claude_code" THEN {"other"} ELSE {})
\* _PROVIDER_KEYS, _CODEX_PROVIDER_KEYS, _OPENCODE_PROVIDER_KEYS.
ProviderKeys(t) == {"provider", "main"} \cup (IF t = "codex" THEN {} ELSE {"other"})

\* What a client may send: a new value, or the value it was shown, for some of the fields.
ValuesOf(field) ==
    CASE field = "provider" -> ProvidersOf(cli)
      [] field \in {"main", "other"} -> (Keys \ {"****"}) \cup {MaskOf(GetSettings[field])}
      [] field = "model" -> {"", "m"}
Fields == {"provider", "main", "other", "model"} \ (IF cli = "codex" THEN {"other"} ELSE {})
Updates ==
    {u \in UNION {[D -> UNION {ValuesOf(x) : x \in D}] : D \in {D \in SUBSET Fields : Cardinality(D) \in 1 .. MaxFields}} :
        \A x \in DOMAIN u : u[x] \in ValuesOf(x)}

\* update_settings: masked secrets keep the saved ones; the env section follows when a key
\* of the provider is among the updates; the file is replaced as a whole.
Applied(f, u) ==
    [x \in DOMAIN f |-> IF x \in DOMAIN u /\ ~IsMasked(u[x]) THEN u[x] ELSE f[x]]
UpdateSettings ==
    /\ \E u \in Updates :
         file' = IF DOMAIN u \cap ProviderKeys(cli) # {} THEN SyncEnv(Applied(GetSettings, u))
                 ELSE Applied(GetSettings, u)
    /\ UNCHANGED <<cli, stale, memo, toml>>

\* ensure_defaults, at the start of the worker.
EnsureDefaults ==
    /\ cli = "claude_code" /\ ~GetSettings.deny
    /\ file' = [GetSettings EXCEPT !.deny = TRUE]
    /\ UNCHANGED <<cli, stale, memo, toml>>

\* Claude Code writes its settings back as it read them, with a change of its own.
CliReads ==
    /\ cli = "claude_code" /\ file.ok /\ stale = {}
    /\ stale' = {file}
    /\ UNCHANGED <<cli, file, memo, toml>>
CliWrites ==
    /\ \E f \in stale, m \in {"", "m"} : file' = [f EXCEPT !.model = m]
    /\ stale' = {}
    /\ UNCHANGED <<cli, memo, toml>>
\* A person edits the file, and leaves it no JSON for a while.
UserEdits ==
    /\ file' = [file EXCEPT !.ok = ~@]
    /\ UNCHANGED <<cli, stale, memo, toml>>

\* agent_configuration_issue: the key of the provider must be there.
Configured ==
    LET f == GetSettings
    IN  /\ f.provider # ""
        /\ UsesMain(cli, f.provider) => f.main # ""
        /\ UsesOther(cli, f.provider) => f.other # ""

-----------------------------------------------------------------------------
(* CLAUDE.md and config.toml.                                              *)

\* _sync_caveman_mode, in an update of caveman_mode.
SyncCaveman ==
    /\ cli = "claude_code"
    /\ memo' \in {"caveman", "none"}
    /\ UNCHANGED <<cli, file, stale, toml>>
UserMemo ==
    /\ memo' \in {"user", "none"}
    /\ UNCHANGED <<cli, file, stale, toml>>

\* _strip_codex_mcp_block: without its end the block reaches to the end of the file.
StripBlock == [toml EXCEPT !.block = "none", !.user = IF toml.block = "broken" THEN FALSE ELSE @]
\* ensure_codex_mcp_registration, at the start of a Codex process: a rcflow entry of the
\* user is left alone.
RegisterBridge ==
    /\ cli = "codex"
    /\ \E enabled \in BOOLEAN :
         toml' = IF enabled /\ ~toml.own THEN [StripBlock EXCEPT !.block = "whole"] ELSE StripBlock
    /\ UNCHANGED <<cli, file, stale, memo>>
UserToml ==
    /\ cli = "codex"
    /\ \E t \in [user : BOOLEAN, block : {"none", "whole", "broken"}, own : BOOLEAN] :
         /\ toml.block = "none" => t.block = "none"
         /\ toml' = t
    /\ UNCHANGED <<cli, file, stale, memo>>

SettingsNext ==
    \/ UpdateSettings \/ EnsureDefaults \/ CliReads \/ CliWrites \/ UserEdits
    \/ SyncCaveman \/ UserMemo \/ RegisterBridge \/ UserToml

SettingsSpec == SettingsInit /\ [][SettingsNext]_cliVars

(***************************************************************************)
(* Properties                                                              *)
(***************************************************************************)
\* An agent that the preflight lets start is given the saved key of its provider and none
\* of another, whatever was saved, lost or written back before (a key that is saved alone
\* must reach the env section too).
AgentHasKey ==
    Configured => LET f == GetSettings
                  IN  /\ f.env.on
                      /\ f.env.main = IF UsesMain(cli, f.provider) THEN f.main ELSE ""
                      /\ f.env.other = IF UsesOther(cli, f.provider) THEN f.other ELSE ""

(***************************************************************************)
(* Claims of the repository that the code does not keep (README, section 6).*)
(***************************************************************************)
\* "Idempotent - existing values are never overwritten" (tool_settings.py:801): a file that
\* is no JSON for a moment is replaced by the defaults.
ValuesKept == [][EnsureDefaults => file'.provider = file.provider]_cliVars

\* A CLAUDE.md "the user has a manually-created ... with unrelated content"
\* (tool_settings.py:731): the switch of the caveman mode writes over it, or deletes it.
UserMemoKept == [][SyncCaveman /\ memo = "user" => memo' = "user"]_cliVars

\* "user-added entries ... are never touched" (tool_settings.py:632): those behind a block
\* that lost its end are dropped.
UserEntriesKept == [][RegisterBridge => toml'.user = toml.user]_cliVars

\* Masked values "represent unchanged secrets" (tool_settings.py:881): the mask of a key of
\* at most four characters is saved as the key.
MaskKeeps == [][UpdateSettings => "****" \notin {file'.main, file'.other}]_cliVars
=============================================================================

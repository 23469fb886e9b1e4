----------------------------- MODULE AgentLogin -----------------------------
(***************************************************************************)
(* The logins of the coding agents: the OAuth flow of Claude Code, whose   *)
(* code a client submits, its logout and the poll of its usage, and the    *)
(* login process of Codex that a request streams.                          *)
(*                                                                         *)
(* Source: src/src/api/routes/auth.py, services/tool_settings.py,          *)
(* services/usage_service.py, main.py (the poll).                          *)
(*                                                                         *)
(* A login is numbered by the /login request that began it; 0 is none.     *)
(***************************************************************************)
EXTENDS Naturals, FiniteSets

CONSTANTS
    Submits,       \* requests that submit a code, and may run at once
    MaxLogins,     \* bound: /login requests
    MaxBackoff     \* bound: doublings of the poll's interval before its cap

ASSUME LoginAssumption == MaxLogins \in Nat \ {0} /\ MaxBackoff \in Nat \ {0}

Logins == 1 .. MaxLogins

VARIABLES
    flow,        \* the login whose verifier and state app.state holds
    begun,       \* how many have begun
    spent,       \* the logins whose code was exchanged
    submit,      \* what each code request does, with the login it read and its code
    creds,       \* the login whose tokens are in .credentials.json
    provider,    \* the provider setting is anthropic_login
    logout,      \* the logout request
    usage,       \* the poll: the token it has read, its backoff, what is shown
    codex,       \* the stream of a Codex login
    child        \* its processes: the login, and the one that asks for the status

loginVars == <<flow, begun, spent, submit, creds, provider, logout, usage, codex, child>>
claudeVars == <<flow, begun, spent, submit, creds, provider, logout, usage>>
codexVars == <<codex, child>>

NoSubmit == [pc |-> "idle", login |-> 0, code |-> 0]

LoginTypeOK ==
    /\ flow \in 0 .. MaxLogins /\ begun \in 0 .. MaxLogins /\ spent \subseteq Logins
    /\ submit \in [Submits -> [pc : {"idle", "exchange", "keychain", "verify", "rewrite"},
                               login : 0 .. MaxLogins, code : 0 .. MaxLogins]]
    /\ creds \in 0 .. MaxLogins /\ provider \in BOOLEAN
    /\ logout \in {"idle", "cli", "reset"}
    /\ usage \in [token : 0 .. MaxLogins, pc : {"idle", "fetch"}, backoff : 0 .. MaxBackoff, shown : 0 .. MaxLogins]
    /\ codex \in {"none", "browser", "device", "exiting", "verify", "asked", "ended"}
    /\ child \in [login : {"none", "running", "exited"}, status : BOOLEAN]

LoginInit ==
    /\ flow = 0 /\ begun = 0 /\ spent = {}
    /\ submit = [r \in Submits |-> NoSubmit]
    /\ creds = 0 /\ provider = FALSE
    /\ logout = "idle"
    /\ usage = [token |-> 0, pc |-> "idle", backoff |-> 0, shown |-> 0]
    /\ codex = "none"
    /\ child = [login |-> "none", status |-> FALSE]

-----------------------------------------------------------------------------
(* Claude Code.                                                            *)

\* claude_code_login: the verifier and the state of the last login replace the others.
BeginLogin ==
    /\ begun < MaxLogins
    /\ begun' = begun + 1
    /\ flow' = begun + 1
    /\ UNCHANGED <<spent, submit, creds, provider, logout, usage, codexVars>>

\* claude_code_login_code: without a verifier it is a 409; a code that carries the state
\* of another login a 400.  A code pasted without its state is taken as it is; code 0 is
\* a mistyped one.
SubmitCode(r) ==
    /\ submit[r].pc = "idle" /\ flow # 0
    /\ \E code \in 0 .. begun, bare \in BOOLEAN :
         /\ bare \/ code \in {0, flow}
         /\ submit' = [submit EXCEPT ![r] = [pc |-> "exchange", login |-> flow, code |-> code]]
    /\ UNCHANGED <<flow, begun, spent, creds, provider, logout, usage, codexVars>>

\* The exchange takes the code of the verifier, once, and retires what app.state holds
\* then; a refusal leaves it.  Tokens may be missing from the answer.
Exchanged(r) ==
    /\ submit[r].pc = "exchange"
    /\ \/ /\ submit[r].code = submit[r].login /\ submit[r].login \notin spent
          /\ spent' = spent \cup {submit[r].login}
          /\ flow' = 0
          /\ \/ creds' = submit[r].login /\ submit' = [submit EXCEPT ![r].pc = "keychain"]
             \/ creds' = creds /\ submit' = [submit EXCEPT ![r] = NoSubmit]
       \/ submit' = [submit EXCEPT ![r] = NoSubmit] /\ UNCHANGED <<flow, spent, creds>>
    /\ UNCHANGED <<begun, provider, logout, usage, codexVars>>

\* After _clear_claude_keychain in a thread: update_settings, and the model cache.
SetProvider(r) ==
    /\ submit[r].pc = "keychain"
    /\ provider' = TRUE
    /\ submit' = [submit EXCEPT ![r].pc = "verify"]
    /\ UNCHANGED <<flow, begun, spent, creds, logout, usage, codexVars>>

\* `claude auth status`: logged in, or not, or an error; each answers that the login is done.
VerifyLogin(r) ==
    /\ submit[r].pc = "verify"
    /\ \/ creds # 0 /\ submit' = [submit EXCEPT ![r].pc = "rewrite"]
       \/ submit' = [submit EXCEPT ![r] = NoSubmit]
    /\ UNCHANGED <<flow, begun, spent, creds, provider, logout, usage, codexVars>>

\* The credentials of this request are written again, with the subscription.
RewriteCreds(r) ==
    /\ submit[r].pc = "rewrite"
    /\ creds' = submit[r].login
    /\ submit' = [submit EXCEPT ![r] = NoSubmit]
    /\ UNCHANGED <<flow, begun, spent, provider, logout, usage, codexVars>>

\* claude_code_logout: the CLI deletes the credentials, or fails; the provider is reset
\* unless it timed out, whatever it did until then.
BeginLogout ==
    /\ logout = "idle"
    /\ logout' = "cli"
    /\ UNCHANGED <<flow, begun, spent, submit, creds, provider, usage, codexVars>>
LogoutCli ==
    /\ logout = "cli"
    /\ creds' \in {creds, 0}
    /\ logout' \in {"reset", "idle"}
    /\ UNCHANGED <<flow, begun, spent, submit, provider, usage, codexVars>>
ResetProvider ==
    /\ logout = "reset"
    /\ provider' = FALSE
    /\ logout' = "idle"
    /\ UNCHANGED <<flow, begun, spent, submit, creds, usage, codexVars>>

-----------------------------------------------------------------------------
(* The poll of the account's usage.                                        *)

\* read_oauth_token: without one, usage is not available.
PollToken ==
    /\ usage.pc = "idle"
    /\ usage' = IF creds = 0 THEN [usage EXCEPT !.shown = 0, !.backoff = 0]
                ELSE [usage EXCEPT !.pc = "fetch", !.token = creds]
    /\ UNCHANGED <<flow, begun, spent, submit, creds, provider, logout, codexVars>>
\* An answer, or a refused token, resets the backoff; other failures double it.
PollUsage ==
    /\ usage.pc = "fetch"
    /\ \/ usage' = [token |-> 0, pc |-> "idle", backoff |-> 0, shown |-> usage.token]
       \/ usage' = [token |-> 0, pc |-> "idle", backoff |-> 0, shown |-> usage.shown]
       \/ usage' = [token |-> 0, pc |-> "idle", shown |-> usage.shown,
                    backoff |-> IF usage.backoff = MaxBackoff THEN MaxBackoff ELSE usage.backoff + 1]
    /\ UNCHANGED <<flow, begun, spent, submit, creds, provider, logout, codexVars>>

-----------------------------------------------------------------------------
(* Codex: codex_login streams _stream_browser_auth or _stream_device_auth.  *)
BeginCodex ==
    /\ codex \in {"none", "ended"}
    /\ codex' \in {"browser", "device"}
    /\ child' = [child EXCEPT !.login = "running"]
    /\ UNCHANGED claudeVars

\* Lines are read until one says that the login is done, the process ends, or the whole
\* login takes too long; a line with the URL of the provider is passed on, and for a
\* device its code.
ReadBrowser ==
    /\ codex = "browser"
    /\ codex' = "exiting"
    /\ child' \in {child, [child EXCEPT !.login = "exited"]}
    /\ UNCHANGED claudeVars
ReadDevice ==
    /\ codex = "device"
    /\ codex' = "exiting"
    /\ child' \in {child, [child EXCEPT !.login = "exited"]}
    /\ UNCHANGED claudeVars

\* The process has five seconds to exit.
ExitCodex ==
    /\ codex = "exiting"
    /\ codex' = "verify"
    /\ child' = [child EXCEPT !.login = "exited"]
    /\ UNCHANGED claudeVars

\* `codex login status`; after ten seconds it is left running, and the login an error.
AskCodex ==
    /\ codex = "verify"
    /\ codex' = "asked"
    /\ child' = [child EXCEPT !.status = TRUE]
    /\ UNCHANGED claudeVars
AnswerCodex ==
    /\ codex = "asked"
    /\ codex' = "ended"
    /\ child' \in {child, [child EXCEPT !.status = FALSE]}
    /\ UNCHANGED claudeVars
\* codex_login_status asks the same of a process of its own, and leaves it too.
CodexStatus ==
    /\ child' = [child EXCEPT !.status = TRUE]
    /\ UNCHANGED <<codex, claudeVars>>

\* Mutant: a stream that its client leaves does not end its process.
ClientLeavesProcess ==
    /\ codex \in {"browser", "device", "exiting", "verify", "asked"}
    /\ codex' = "ended"
    /\ UNCHANGED <<child, claudeVars>>
\* The client closes the stream, or a step fails: the finally clause kills the process.
ClientLeaves ==
    /\ codex \in {"browser", "device", "exiting", "verify", "asked"}
    /\ codex' = "ended"
    /\ child' = [child EXCEPT !.login = "exited"]
    /\ UNCHANGED claudeVars

LoginNext ==
    \/ BeginLogin \/ BeginLogout \/ LogoutCli \/ ResetProvider \/ PollToken \/ PollUsage
    \/ \E r \in Submits : SubmitCode(r) \/ Exchanged(r) \/ SetProvider(r) \/ VerifyLogin(r) \/ RewriteCreds(r)
    \/ BeginCodex \/ ReadBrowser \/ ReadDevice \/ CodexStatus \/ ExitCodex \/ AskCodex \/ AnswerCodex \/ ClientLeaves

LoginSpec == LoginInit /\ [][LoginNext]_loginVars

(***************************************************************************)
(* Properties                                                              *)
(***************************************************************************)
\* However a Codex login ends (its process, its time, its client, an error), it leaves no
\* login process that could still store credentials (the finally clauses of the streams).
LoginProcessEnds == codex = "ended" => child.login = "exited"

(***************************************************************************)
(* Claims of the repository that the code does not keep (README, section 6).*)
(***************************************************************************)
\* The verifier "stays valid across multiple /code attempts as long as the user has not
\* started a new /login" (auth.py:506): the exchange of an older login retires it too.
VerifierKept == [][flow # 0 /\ flow' = 0 => flow \in spent']_loginVars

\* "Log out from Claude Code Anthropic subscription" (auth.py:674): a login that is being
\* verified writes its credentials again.
LogoutStays == [][creds = 0 /\ creds' # 0 => spent' # spent]_loginVars
=============================================================================

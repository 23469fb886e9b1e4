---------------------------- MODULE SettingsFile ----------------------------
(***************************************************************************)
(* settings.json and the three processes that write it: the worker, the    *)
(* desktop app and the command line.  Each has the settings in its own     *)
(* environment, read once; a write reads the file, merges and replaces it. *)
(*                                                                         *)
(* Source: src/src/config.py and the callers of update_settings_file.      *)
(*                                                                         *)
(* "api" is the key that is generated if there is none, "port" a field     *)
(* with a default.  A value is a number, 0 for none; each one somebody     *)
(* chooses is new.                                                         *)
(***************************************************************************)
EXTENDS Naturals

CONSTANTS
    Writers,        \* the processes: "worker", "gui", "cli"
    MaxValues,      \* bound: values made
    SettingsEnv     \* "crash": a process dies; "nolock": Windows; "foreign": a file of another user

ASSUME SettingsFileAssumption ==
    /\ MaxValues \in Nat \ {0}
    /\ Writers \subseteq {"worker", "gui", "cli"}
    /\ SettingsEnv \subseteq {"crash", "nolock", "foreign"}

Options == {"api", "port"}
Default == 1
Value == 0 .. MaxValues
Settings == [Options -> Value]
Blank == [k \in Options |-> 0]

VARIABLES
    json,      \* settings.json; Blank is also no file
    unread,    \* the writers that may not read it, but may write its directory
    environ,   \* os.environ of each process
    writing,   \* each process: its step, what it updates, what it read, and the step after
    flocked,   \* who holds the lock of the file
    valuesMade \* values made so far

settingsVars == <<json, unread, environ, writing, flocked, valuesMade>>

Off == [pc |-> "off", updates |-> Blank, data |-> Blank, next |-> "off"]

SettingsFileTypeOK ==
    /\ json \in Settings /\ unread \subseteq Writers
    /\ environ \in [Writers -> Settings]
    /\ writing \in [Writers -> [pc : {"off", "key", "populate", "up", "lock", "read", "replace"},
                                updates : Settings, data : Settings, next : {"off", "populate", "up"}]]
    /\ flocked \in Writers \cup {"none"}
    /\ valuesMade \in Value

\* _load_settings_into_env: what the environment does not have.
Loaded(env, file) == [k \in Options |-> IF env[k] = 0 THEN file[k] ELSE env[k]]
\* What update_settings_file makes of what it read.
Merged(data, updates) == [k \in Options |-> IF updates[k] # 0 THEN updates[k] ELSE data[k]]

\* A call of update_settings_file, and where the process goes on after it.
UpdateFile(p, updates, next) ==
    writing' = [writing EXCEPT ![p] = [pc |-> "lock", updates |-> updates, data |-> Blank, next |-> next]]

SettingsFileInit ==
    /\ json = Blank /\ flocked = "none" /\ valuesMade = Default
    /\ unread \in {{}} \cup (IF "foreign" \in SettingsEnv THEN {{p} : p \in Writers} ELSE {})
    /\ environ = [p \in Writers |-> Blank]
    /\ writing = [p \in Writers |-> Off]

-----------------------------------------------------------------------------
\* A worker that the app starts has the environment of the app.
Inherited(p) == {Blank} \cup {environ[q] : q \in IF p = "worker" THEN Writers \cap {"gui"} ELSE {}}
\* The import of the configuration.
Launch(p) ==
    /\ writing[p].pc = "off"
    /\ \E env \in Inherited(p) :
          environ' = [environ EXCEPT ![p] = IF p \in unread THEN env ELSE Loaded(env, json)]
    /\ writing' = [writing EXCEPT ![p].pc = "key"]
    /\ UNCHANGED <<json, unread, flocked, valuesMade>>

\* get_settings: a key is generated if the environment has none.
GenerateKey(p) ==
    /\ writing[p].pc = "key" /\ environ[p]["api"] = 0
    /\ valuesMade < MaxValues /\ valuesMade' = valuesMade + 1
    /\ UpdateFile(p, [Blank EXCEPT !["api"] = valuesMade + 1], "populate")
    /\ UNCHANGED <<json, unread, environ, flocked>>
HasKey(p) ==
    /\ writing[p].pc = "key" /\ environ[p]["api"] # 0
    /\ writing' = [writing EXCEPT ![p].pc = "populate"]
    /\ UNCHANGED <<json, unread, environ, flocked, valuesMade>>

\* _populate_missing_defaults: what the file does not have, read without the lock; nothing if it
\* cannot be read.
Missing(p) ==
    [k \in Options |-> IF p \in unread \/ json[k] # 0 THEN 0
                       ELSE IF environ[p][k] # 0 THEN environ[p][k] ELSE Default]
PopulateDefaults(p) ==
    /\ writing[p].pc = "populate"
    /\ IF Missing(p) = Blank THEN writing' = [writing EXCEPT ![p].pc = "up"]
       ELSE UpdateFile(p, Missing(p), "up")
    /\ UNCHANGED <<json, unread, environ, flocked, valuesMade>>

\* get_settings again: a request to the worker, a start of the worker by the app.
GetAgain(p) ==
    /\ writing[p].pc = "up"
    /\ writing' = [writing EXCEPT ![p].pc = "key"]
    /\ UNCHANGED <<json, unread, environ, flocked, valuesMade>>

\* A process chooses a new value of an option.
Choose(p, k) ==
    /\ valuesMade < MaxValues /\ valuesMade' = valuesMade + 1
    /\ UpdateFile(p, [Blank EXCEPT ![k] = valuesMade + 1], "up")
    /\ UNCHANGED <<json, unread, environ, flocked>>
\* update_config, of the worker.
SaveConfig(p) == p = "worker" /\ writing[p].pc = "up" /\ Choose(p, "port")
\* The switches of the app, and the address it starts the worker with.
SwitchSetting(p) == p = "gui" /\ writing[p].pc = "up" /\ Choose(p, "port")
\* `rcflow set-api-key`, which gets no settings first.
SetApiKey(p) == p = "cli" /\ writing[p].pc = "key" /\ Choose(p, "api")

\* Mutant: the lock is never taken.
LockFreeAlways == TRUE
\* flock waits; where there is none the writer goes on without.
FileLockFree == flocked = "none" \/ "nolock" \in SettingsEnv

\* _settings_file_lock.
LockFile(p) ==
    /\ writing[p].pc = "lock" /\ FileLockFree
    /\ flocked' = p
    /\ writing' = [writing EXCEPT ![p].pc = "read"]
    /\ UNCHANGED <<json, unread, environ, valuesMade>>
\* update_settings_file: a file that cannot be read counts as empty.
ReadFile(p) ==
    /\ writing[p].pc = "read"
    /\ writing' = [writing EXCEPT ![p].pc = "replace", ![p].data = IF p \in unread THEN Blank ELSE json]
    /\ environ' = [environ EXCEPT ![p] = Merged(environ[p], writing[p].updates)]
    /\ UNCHANGED <<json, unread, flocked, valuesMade>>
\* The file is replaced as a whole; the new one is the writer's own.  Without the right to
\* write only the environment has changed.
ReplaceFile(p) ==
    /\ writing[p].pc = "replace"
    /\ \/ json' = Merged(writing[p].data, writing[p].updates) /\ unread' = unread \ {p}
       \/ "foreign" \in SettingsEnv /\ UNCHANGED <<json, unread>>
    /\ flocked' = IF flocked = p THEN "none" ELSE flocked
    /\ writing' = [writing EXCEPT ![p] = [Off EXCEPT !.pc = writing[p].next]]
    /\ UNCHANGED <<environ, valuesMade>>

\* A process ends, at any step: the system drops its lock.
Quit(p) ==
    /\ writing[p].pc # "off"
    /\ "crash" \in SettingsEnv \/ writing[p].pc = "up"
    /\ environ' = [environ EXCEPT ![p] = Blank]
    /\ flocked' = IF flocked = p THEN "none" ELSE flocked
    /\ writing' = [writing EXCEPT ![p] = Off]
    /\ UNCHANGED <<json, unread, valuesMade>>

SettingsFileNext ==
    \E p \in Writers : \/ Launch(p) \/ GenerateKey(p) \/ HasKey(p) \/ PopulateDefaults(p)
                       \/ GetAgain(p) \/ SaveConfig(p) \/ SwitchSetting(p) \/ SetApiKey(p)
                       \/ LockFile(p) \/ ReadFile(p) \/ ReplaceFile(p) \/ Quit(p)

SettingsFileSpec == SettingsFileInit /\ [][SettingsFileNext]_settingsVars

(***************************************************************************)
(* Properties                                                              *)
(***************************************************************************)
\* A write changes the settings it is about and no other, whatever another process wrote between
\* its read and its rename ("concurrent writers don't lose each other's updates",
\* update_settings_file), on a system with the lock.
OthersKept ==
    [][\A p \in Writers : ReplaceFile(p) =>
          \A k \in Options : writing[p].updates[k] = 0 => json'[k] = json[k]]_settingsVars

(***************************************************************************)
(* Claims of the repository that the code does not keep (README, section 6).*)
(***************************************************************************)
\* "existing values are never overwritten" (config.py:356): what is missing is read outside the
\* lock, and written over what another process wrote meanwhile.
DefaultsFill ==
    [][\A p \in Writers : ReplaceFile(p) /\ writing[p].next = "up" /\ writing[p].updates # Blank =>
          \A k \in Options : writing[p].updates[k] = Default /\ json[k] # 0 => json'[k] = json[k]]_settingsVars

\* The worker accepts the key that is in the file, as long as nobody has set another
\* ("the API token exists before launching", core.py:434; the lock is for "a freshly generated
\* API key", config.py:920): two processes that find none each generate one.
OneKey == "worker" \in Writers /\ "cli" \notin Writers /\ writing["worker"].pc = "up"
              => environ["worker"]["api"] = json["api"]

\* "If the settings file cannot be read [...] the file is left unchanged" (config.py:953): what
\* cannot be read counts as empty, and replaces it.
UnreadableStays ==
    [][\A p \in Writers : ReplaceFile(p) /\ p \in unread => json' = json]_settingsVars
=============================================================================

----------------------------- MODULE MCServices -----------------------------
(* The parts of the program that share no state with each other.  Init       *)
(* chooses the one that runs, the others stay where they begin, and each      *)
(* property speaks of one part: the run is one for each of them.              *)
EXTENDS PortMapping, ToolManagement, Telemetry, Supervision, PullRequests, TaskBoard, PlanArtifacts,
        AgentLogin, Terminals, ToolSettings, ModelCatalog, Updates, SettingsFile

VARIABLE service

vars == <<service, portVars, toolVars, telemetryVars, supervisionVars, prVars, boardVars, planVars,
          loginVars, termVars, cliVars, catalogVars, updateVars, settingsVars>>

\* The board runs twice, which is a bound: the statuses that a user gives, and the issues.
Mixes ==
    [tasks |-> {"none", "patch", "delete", "attach", "detach"},
     issues |-> ({"none"} \cup CallOps) \ {"patch"}]

\* A part that does not run has one initial state.
Init ==
    /\ service \in {"ports", "tools", "telemetry", "desktop", "reviews", "tasks", "issues", "plans", "login",
                    "terminals", "cli", "catalog", "updates", "settings"}
    /\ PortInit /\ (service # "ports" => proto = "upnp" /\ foreign = {})
    /\ ToolInit /\ (service # "tools" => tool.kind = "claude" /\ ~tool.win /\ tool.sums /\ ~tool.oldGlibc)
    /\ TelemetryInit
    /\ SupervisionInit /\ (service # "desktop" => platform = "linux" /\ ~managed)
    /\ PrInit /\ (service # "reviews" => ~hub.mine)
    /\ BoardInit /\ PlanInit /\ LoginInit
    /\ TermInit /\ (service # "terminals" => ~windows)
    /\ SettingsInit /\ (service # "cli" => cli = CHOOSE c \in CliTools : TRUE)
    /\ CatalogInit /\ (service # "catalog" => scope = "global" /\ ~keyed /\ saved = CHOOSE a \in Accounts : TRUE)
    /\ UpdatesInit /\ SettingsFileInit

\* The part s runs and no other does.
Only(s) ==
    /\ service = s /\ UNCHANGED service
    /\ s # "ports" => UNCHANGED portVars
    /\ s # "tools" => UNCHANGED toolVars
    /\ s # "telemetry" => UNCHANGED telemetryVars
    /\ s # "desktop" => UNCHANGED supervisionVars
    /\ s # "reviews" => UNCHANGED prVars
    /\ s \notin DOMAIN Mixes => UNCHANGED boardVars
    /\ s # "plans" => UNCHANGED planVars
    /\ s # "login" => UNCHANGED loginVars
    /\ s # "terminals" => UNCHANGED termVars
    /\ s # "cli" => UNCHANGED cliVars
    /\ s # "catalog" => UNCHANGED catalogVars
    /\ s # "updates" => UNCHANGED updateVars
    /\ s # "settings" => UNCHANGED settingsVars

Next ==
    \/ Only("ports") /\ PortNext
    \/ Only("tools") /\ ToolNext
    \/ Only("telemetry") /\ TelemetryNext
    \/ Only("desktop") /\ SupervisionNext
    \/ Only("reviews") /\ PrNext
    \/ \E s \in DOMAIN Mixes : Only(s) /\ BoardNext /\ \A c \in Calls : call'[c].op \in Mixes[s]
    \/ Only("plans") /\ PlanNext
    \/ Only("login") /\ LoginNext
    \/ Only("terminals") /\ TermNext
    \/ Only("cli") /\ SettingsNext
    \/ Only("catalog") /\ CatalogNext
    \/ Only("updates") /\ UpdatesNext
    \/ Only("settings") /\ SettingsFileNext

Spec == Init /\ [][Next]_vars

\* The part that runs keeps its type.
TypesOK ==
    /\ service = "ports" => PortTypeOK
    /\ service = "tools" => ToolTypeOK
    /\ service = "telemetry" => TelemetryTypeOK
    /\ service = "desktop" => SupervisionTypeOK
    /\ service = "reviews" => PrTypeOK
    /\ service \in DOMAIN Mixes => BoardTypeOK
    /\ service = "plans" => PlanTypeOK
    /\ service = "login" => LoginTypeOK
    /\ service = "terminals" => TermTypeOK
    /\ service = "cli" => SettingsTypeOK
    /\ service = "catalog" => CatalogTypeOK
    /\ service = "updates" => UpdatesTypeOK
    /\ service = "settings" => SettingsFileTypeOK
=============================================================================

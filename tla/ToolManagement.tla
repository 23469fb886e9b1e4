--------------------------- MODULE ToolManagement ---------------------------
(***************************************************************************)
(* One managed command-line tool (Claude Code, Codex, codex-acp or         *)
(* OpenCode): its binary on disk, the manager's entry for it, and the      *)
(* installs, updates and detections that run at the same time.             *)
(*                                                                         *)
(* Source: src/src/services/tools/manager.py, tools/binary_install.py,     *)
(* api/routes/tools.py.                                                    *)
(*                                                                         *)
(* An operation is a stream of progress events to a client (routes) or a   *)
(* plain call (the update loop, "update all").  Installing is done under   *)
(* the manager's lock; detecting and uninstalling are not.                 *)
(***************************************************************************)
EXTENDS Integers, FiniteSets

CONSTANTS
    ToolOps,     \* the operations that may be in progress at once
    MaxRelease,  \* bound: releases that come out
    ToolEnv      \* what the environment does: a subset of AllToolEnv

AllToolEnv ==
    {"crash",     \* the worker dies and starts again
     "uninstall",
     "overlap"}   \* an uninstall is requested while operations are in progress

ASSUME ToolAssumption ==
    /\ MaxRelease \in Nat \ {0}
    /\ ToolEnv \subseteq AllToolEnv

VARIABLES
    tool,     \* which tool on which host: kind, win, whether its releases have checksums,
              \* and whether the host's glibc is too old for the default build
    release,  \* the latest release
    disk,     \* the managed directory: binary, version file, parked binary
    inUse,    \* an agent process executes the binary
    entry,    \* the manager's entry: the version it shows, 0 if unknown; installed or not
    lock,     \* the operations that hold the manager's lock: at most one
    toolOp    \* the operations

toolVars == <<tool, release, disk, inUse, entry, lock, toolOp>>

ToolReleases == 1 .. MaxRelease
NoBinary == [ver |-> 0, good |-> TRUE, musl |-> FALSE]
Idle == [pc |-> "idle", stream |-> FALSE, ver |-> 0, good |-> TRUE, musl |-> FALSE]
NotInstalled == [installed |-> FALSE, cur |-> 0]
Installed(v) == [installed |-> TRUE, cur |-> v]

\* A binary built for a newer glibc does not run; codex-acp runs but has no --version.
Runs(b) == b.ver # 0 /\ b.good /\ (tool.oldGlibc => b.musl)
Answers(b) == Runs(b) /\ tool.kind # "acp"
Holding == {o \in ToolOps : toolOp[o].pc \in {"version", "download", "check", "place", "verify", "record"}}

ToolTypeOK ==
    /\ tool \in [kind : {"claude", "codex", "acp", "opencode"}, win : BOOLEAN,
                 sums : BOOLEAN, oldGlibc : BOOLEAN]
    /\ release \in ToolReleases
    /\ disk \in [bin : [ver : 0 .. MaxRelease, good : BOOLEAN, musl : BOOLEAN],
                 file : 0 .. MaxRelease, parked : BOOLEAN]
    /\ inUse \in BOOLEAN
    /\ entry \in [installed : BOOLEAN, cur : 0 .. MaxRelease]
    /\ lock \subseteq ToolOps /\ Cardinality(lock) <= 1
    /\ toolOp \in [ToolOps -> [pc : {"idle", "compare", "lock", "version", "download", "check",
                                     "place", "verify", "record", "detect", "probe"},
                               stream : BOOLEAN, ver : 0 .. MaxRelease, good : BOOLEAN,
                               musl : BOOLEAN]]
    /\ lock = Holding

ToolInit ==
    /\ tool \in [kind : {"claude", "codex", "acp", "opencode"}, win : BOOLEAN,
                 sums : BOOLEAN, oldGlibc : BOOLEAN]
    /\ (tool.win \/ tool.kind = "claude" => ~ tool.oldGlibc)
    /\ (tool.kind = "claude" => tool.sums) /\ (tool.kind = "opencode" => ~ tool.sums)
    /\ release = 1
    /\ disk = [bin |-> NoBinary, file |-> 0, parked |-> FALSE]
    /\ inUse = FALSE
    /\ entry = NotInstalled
    /\ lock = {}
    /\ toolOp = [o \in ToolOps |-> Idle]

ToolGoto(o, pc) == toolOp' = [toolOp EXCEPT ![o].pc = pc]
\* An operation that ends, in whatever way, leaves the lock.
Leave(o) == lock' = lock \ {o} /\ toolOp' = [toolOp EXCEPT ![o] = Idle]
DetectNext(o) ==
    /\ lock' = lock \ {o}
    /\ toolOp' = [toolOp EXCEPT ![o] = [Idle EXCEPT !.pc = "detect", !.stream = TRUE]]
\* A failure is raised; a stream may report it as an event and detect afterwards.
HasFailed(o) ==
    /\ Leave(o) \/ (toolOp[o].stream /\ DetectNext(o))
    /\ UNCHANGED <<tool, release, disk, inUse, entry>>

(***************************************************************************)
(* Detection                                                               *)
(***************************************************************************)
\* What detect_tool reports of a version it could or could not run.
DetectedVersion(v) == IF v # 0 THEN v ELSE IF disk.file # 0 THEN disk.file ELSE entry.cur

\* Sweep what an in-place update parked, unless a process still runs it.
Swept == IF tool.win /\ ~ inUse THEN [disk EXCEPT !.parked = FALSE] ELSE disk

\* Start of the worker: sweep, then detect.
EnsureTools ==
    entry' = IF Swept.bin.ver = 0 THEN NotInstalled
             ELSE Installed(IF Answers(Swept.bin) THEN Swept.bin.ver ELSE Swept.file)

\* A detection without a binary does not wait; with one it runs "--version".
Detect(o) ==
    /\ toolOp[o].pc = "detect"
    /\ IF disk.bin.ver = 0
       THEN Leave(o) /\ entry' = NotInstalled
       ELSE /\ toolOp' = [toolOp EXCEPT ![o].pc = "probe",
                                        ![o].ver = IF Answers(disk.bin) THEN disk.bin.ver ELSE 0]
            /\ UNCHANGED <<lock, entry>>
    /\ UNCHANGED <<tool, release, disk, inUse>>

Detected(o) ==
    /\ toolOp[o].pc = "probe"
    /\ entry' = Installed(DetectedVersion(toolOp[o].ver))
    /\ Leave(o)
    /\ UNCHANGED <<tool, release, disk, inUse>>

(***************************************************************************)
(* Requests                                                                *)
(***************************************************************************)
Requested(o, stream, pc) ==
    /\ toolOp[o].pc = "idle"
    /\ toolOp' = [toolOp EXCEPT ![o] = [Idle EXCEPT !.pc = pc, !.stream = stream, !.ver = entry.cur]]
    /\ UNCHANGED <<tool, release, disk, inUse, entry, lock>>

InstallManagedTool(o) == Requested(o, TRUE, "lock")
UpdateToolStreaming(o) == Requested(o, TRUE, IF entry.installed THEN "compare" ELSE "lock")
UpdateTool(o) == Requested(o, FALSE, IF entry.installed THEN "compare" ELSE "lock")
\* The loop leaves a tool that is not installed alone.
UpdateLoop(o) == entry.installed /\ UpdateTool(o)

\* A release was or was not found, and is or is not the version the entry showed when the
\* operation began.
CompareStreaming(o) ==
    /\ toolOp[o].stream /\ toolOp[o].pc = "compare"
    /\ \/ ToolGoto(o, "detect")
       \/ toolOp[o].ver # release /\ ToolGoto(o, "lock")
    /\ UNCHANGED <<tool, release, disk, inUse, entry, lock>>

ComparePlain(o) ==
    /\ ~ toolOp[o].stream /\ toolOp[o].pc = "compare"
    /\ \/ Leave(o)
       \/ toolOp[o].ver # release /\ ToolGoto(o, "lock") /\ lock' = lock
    /\ UNCHANGED <<tool, release, disk, inUse, entry>>

Lock(o) ==
    /\ toolOp[o].pc = "lock" /\ lock = {}
    /\ lock' = {o}
    /\ ToolGoto(o, "version")
    /\ disk' = IF toolOp[o].stream THEN Swept ELSE disk
    /\ UNCHANGED <<tool, release, inUse, entry>>

(***************************************************************************)
(* Installing                                                              *)
(***************************************************************************)
\* The release to install is looked up again.
FindsRelease(o, stream, kinds) ==
    /\ toolOp[o].pc = "version" /\ toolOp[o].stream = stream /\ tool.kind \in kinds
    /\ \/ HasFailed(o)
       \/ /\ toolOp' = [toolOp EXCEPT ![o].pc = "download", ![o].ver = release]
          /\ UNCHANGED <<tool, release, disk, inUse, entry, lock>>
InstallClaudeCode(o) == FindsRelease(o, FALSE, {"claude"})
InstallClaudeCodeStreaming(o) == FindsRelease(o, TRUE, {"claude"})
InstallCodex(o) == FindsRelease(o, FALSE, {"codex"})
InstallCodexStreaming(o) == FindsRelease(o, TRUE, {"codex"})
InstallCodexAcp(o) == FindsRelease(o, FALSE, {"acp"})
InstallCodexAcpStreaming(o) == FindsRelease(o, TRUE, {"acp"})
InstallOpencode(o) == FindsRelease(o, FALSE, {"opencode"})
InstallOpencodeStreaming(o) == FindsRelease(o, TRUE, {"opencode"})

\* The request fails, or brings what may be damaged.
ToolDownloads(o, pc) ==
    \/ HasFailed(o)
    \/ \E good \in BOOLEAN :
          /\ toolOp' = [toolOp EXCEPT ![o].pc = pc, ![o].good = good]
          /\ UNCHANGED <<tool, release, disk, inUse, entry, lock>>

DownloadClaudeCode(o) == tool.kind = "claude" /\ toolOp[o].pc = "download" /\ ToolDownloads(o, "check")
StreamCodexDownload(o) == tool.kind = "codex" /\ toolOp[o].pc = "download" /\ ToolDownloads(o, "check")
StreamCodexAcpDownload(o) == tool.kind = "acp" /\ toolOp[o].pc = "download" /\ ToolDownloads(o, "check")
\* No checksums.
DownloadOpencodeBinary(o) ==
    tool.kind = "opencode" /\ toolOp[o].pc = "download" /\ ToolDownloads(o, "place")

\* Mutant: the checksums are fetched, and what does not match is only logged.
ChecksumLogged(o) ==
    /\ toolOp[o].pc = "check"
    /\ ToolGoto(o, "place") /\ UNCHANGED <<tool, release, disk, inUse, entry, lock>>
VerifyChecksum(o) ==
    /\ toolOp[o].pc = "check"
    /\ IF tool.sums /\ ~ toolOp[o].good
       THEN HasFailed(o)
       ELSE ToolGoto(o, "place") /\ UNCHANGED <<tool, release, disk, inUse, entry, lock>>

\* An archive that does not open or lacks the binary.
IsArchive == tool.kind \in {"acp", "opencode"} \/ (tool.kind = "codex" /\ ~ tool.win)
ExtractFails(o) ==
    /\ toolOp[o].pc = "place" /\ IsArchive /\ ~ toolOp[o].good
    /\ HasFailed(o)

AfterPlacing == IF tool.kind = "claude" \/ tool.win THEN "record" ELSE "verify"
Binary(o) == [ver |-> toolOp[o].ver, good |-> toolOp[o].good, musl |-> toolOp[o].musl]

Placed(o) ==
    /\ ToolGoto(o, AfterPlacing)
    /\ UNCHANGED <<tool, release, inUse, entry, lock>>

\* _atomic_install_binary: one rename; Windows does not replace an image that executes,
\* which is parked under another name.  A second rename that fails is rolled back.
AtomicInstall(o) ==
    /\ toolOp[o].pc = "place" /\ (IsArchive => toolOp[o].good)
    /\ \/ /\ disk' = [disk EXCEPT !.bin = Binary(o),
                                  !.parked = @ \/ (tool.win /\ inUse /\ disk.bin.ver # 0)]
          /\ Placed(o)
       \/ tool.win /\ HasFailed(o)

\* The worker dies between the two renames.
DiesWhileParked(o) ==
    /\ "crash" \in ToolEnv
    /\ toolOp[o].pc = "place" /\ tool.win /\ inUse /\ disk.bin.ver # 0
    /\ (IsArchive => toolOp[o].good)
    /\ inUse' \in BOOLEAN
    /\ disk' = [disk EXCEPT !.bin = NoBinary, !.parked = inUse']
    /\ entry' = NotInstalled
    /\ lock' = {} /\ toolOp' = [x \in ToolOps |-> Idle]
    /\ UNCHANGED <<tool, release>>

\* _verify_binary, and the build for musl if the host's glibc is too old.
VerifyRuns(o) ==
    /\ toolOp[o].pc = "verify"
    /\ IF tool.oldGlibc /\ ~ toolOp[o].musl
       THEN toolOp' = [toolOp EXCEPT ![o].pc = "download", ![o].musl = TRUE]
       ELSE ToolGoto(o, "record")
    /\ UNCHANGED <<tool, release, disk, inUse, entry, lock>>

\* The version file, the entry, the end of the lock.
Record(o, stream, kinds) ==
    /\ toolOp[o].pc = "record" /\ toolOp[o].stream = stream /\ tool.kind \in kinds
    /\ disk' = [disk EXCEPT !.file = toolOp[o].ver]
    /\ entry' = Installed(toolOp[o].ver)
    /\ IF stream THEN DetectNext(o) ELSE Leave(o)
    /\ UNCHANGED <<tool, release, inUse>>
UpdateClaudeCode(o) == Record(o, FALSE, {"claude"})
UpdateCodex(o) == Record(o, FALSE, {"codex"})
UpdateCodexAcp(o) == Record(o, FALSE, {"acp"})
UpdateOpencode(o) == Record(o, FALSE, {"opencode"})
InstalledStreaming(o) == Record(o, TRUE, {"claude", "codex", "acp", "opencode"})

\* The client of a stream goes away: what holds the lock lets go of it.
ToolClientLeaves(o) == toolOp[o].stream /\ Leave(o) /\ UNCHANGED <<tool, release, disk, inUse, entry>>

(***************************************************************************)
(* Uninstalling                                                            *)
(***************************************************************************)
\* Mutant: the entry is not detected again.
UninstallKeepsEntry ==
    /\ "uninstall" \in ToolEnv /\ entry.installed
    /\ "overlap" \in ToolEnv \/ \A o \in ToolOps : toolOp[o].pc = "idle"
    /\ tool.win => ~ inUse
    /\ disk' = [disk EXCEPT !.bin = NoBinary, !.file = 0]
    /\ entry' = entry
    /\ UNCHANGED <<tool, release, inUse, lock, toolOp>>
\* No await: the files go and, with no binary there, so does the entry.  The deletion of
\* an executing image raises on Windows.
UninstallTool ==
    /\ "uninstall" \in ToolEnv /\ entry.installed
    /\ "overlap" \in ToolEnv \/ \A o \in ToolOps : toolOp[o].pc = "idle"
    /\ tool.win => ~ inUse
    /\ disk' = [disk EXCEPT !.bin = NoBinary, !.file = 0]
    /\ entry' = NotInstalled
    /\ UNCHANGED <<tool, release, inUse, lock, toolOp>>

(***************************************************************************)
(* The environment                                                         *)
(***************************************************************************)
ReleaseComesOut ==
    /\ release < MaxRelease
    /\ release' = release + 1
    /\ UNCHANGED <<tool, disk, inUse, entry, lock, toolOp>>

AgentRuns ==
    /\ inUse \/ (entry.installed /\ Runs(disk.bin))
    /\ inUse' = ~ inUse
    /\ UNCHANGED <<tool, release, disk, entry, lock, toolOp>>

Restart ==
    /\ "crash" \in ToolEnv
    /\ inUse' \in {FALSE, inUse}
    /\ disk' = Swept
    /\ EnsureTools
    /\ lock' = {} /\ toolOp' = [o \in ToolOps |-> Idle]
    /\ UNCHANGED <<tool, release>>

ToolNext ==
    \/ \E o \in ToolOps :
          \/ InstallManagedTool(o) \/ UpdateToolStreaming(o) \/ UpdateTool(o) \/ UpdateLoop(o)
          \/ CompareStreaming(o) \/ ComparePlain(o) \/ Lock(o)
          \/ InstallClaudeCode(o) \/ InstallClaudeCodeStreaming(o)
          \/ InstallCodex(o) \/ InstallCodexStreaming(o)
          \/ InstallCodexAcp(o) \/ InstallCodexAcpStreaming(o)
          \/ InstallOpencode(o) \/ InstallOpencodeStreaming(o)
          \/ DownloadClaudeCode(o) \/ StreamCodexDownload(o) \/ StreamCodexAcpDownload(o)
          \/ DownloadOpencodeBinary(o) \/ VerifyChecksum(o) \/ ExtractFails(o)
          \/ AtomicInstall(o) \/ DiesWhileParked(o) \/ VerifyRuns(o)
          \/ UpdateClaudeCode(o) \/ UpdateCodex(o) \/ UpdateCodexAcp(o) \/ UpdateOpencode(o)
          \/ InstalledStreaming(o) \/ ToolClientLeaves(o) \/ Detect(o) \/ Detected(o)
    \/ UninstallTool \/ ReleaseComesOut \/ AgentRuns \/ Restart

ToolSpec == ToolInit /\ [][ToolNext]_toolVars

(***************************************************************************)
(* Properties                                                              *)
(***************************************************************************)
\* The entry sends sessions to a binary that is there, whatever installs, updates,
\* failures and restarts came between; and what is there has passed the check of its
\* checksum where its release has one.
EntryOnDisk ==
    /\ entry.installed => disk.bin.ver # 0
    /\ tool.sums => disk.bin.good

(***************************************************************************)
(* Claims of the repository that the code does not keep (README, section 6).*)
(***************************************************************************)
\* "Roll back the rename so the user is left with a working binary"
\* (binary_install.py:78): only an uninstall takes a tool away.
ToolStays ==
    [][disk.bin.ver # 0 /\ disk'.bin.ver = 0 => disk'.file = 0 /\ ~ disk'.parked]_toolVars

\* "so the installer can fall back to musl" (binary_install.py:94): an update that fails
\* leaves a binary that runs.
UpdateHarmless ==
    (\A o \in ToolOps : toolOp[o].pc = "idle") /\ entry.installed /\ disk.bin.good => Runs(disk.bin)

\* "Only updates tools that RCFlow manages" (api/routes/tools.py:137): what is not there
\* is not installed by a request to update.
UpdateInstallsNothing ==
    [][disk.bin.ver = 0 /\ disk'.bin.ver # 0 => \E o \in ToolOps : toolOp[o].stream]_toolVars
=============================================================================

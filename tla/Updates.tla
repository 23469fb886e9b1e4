------------------------------ MODULE Updates -------------------------------
(***************************************************************************)
(* The updates of the worker: the check the desktop app runs in a thread,  *)
(* the banner and its dismissal, and the installer that the app and        *)
(* `rcflow update` download, verify and hand to the system.                *)
(*                                                                         *)
(* Source: src/src/gui/updater.py, gui/_dashboard_ctk.py,                  *)
(* services/cli_update.py.                                                 *)
(*                                                                         *)
(* A release is a number; the app runs release 0.  A release has an        *)
(* installer file of its own, named after it: the downloads are those of   *)
(* one release.  What is written is a download, numbered, 0 for none.      *)
(***************************************************************************)
EXTENDS Naturals, FiniteSets

CONSTANTS
    Updaters,       \* who downloads: "gui", and "cli" for `rcflow update`
    MaxReleases,    \* bound: releases published
    MaxDownloads    \* bound: downloads begun

ASSUME UpdateAssumption == MaxReleases \in Nat /\ MaxDownloads \in Nat /\ Updaters \subseteq {"gui", "cli"}

Releases == 0 .. MaxReleases
Downloads == 0 .. MaxDownloads

VARIABLES
    published,   \* the newest release
    latest,      \* UpdateService._latest
    sized,       \* it has the length and the address of the checksums: it was fetched, not restored
    checking,    \* the check thread: its step and the release it fetched
    setting,     \* settings.json: the cached release, the dismissed one, whether the check is fresh
    banner,      \* the release the banner shows, and those it ever showed
    body,        \* what each download has written
    partial,     \* the download at the path with .partial
    dest,        \* the download at the path of the installer
    fetch,       \* what each updater does, its download, and whether the release it downloads is sized
    offers       \* the updaters whose user is asked to install the file they verified

updateVars == <<published, latest, sized, checking, setting, banner, body, partial, dest, fetch, offers>>
checkVars == <<published, latest, sized, checking, setting, banner>>
fetchVars == <<body, partial, dest, fetch, offers>>

NoFetch == [pc |-> "none", file |-> 0, sized |-> FALSE]

UpdatesTypeOK ==
    /\ published \in Releases /\ latest \in Releases /\ sized \in BOOLEAN
    /\ checking \in [pc : {"none", "fetch", "clear", "end"}, got : Releases]
    /\ setting \in [cached : Releases, dismissed : Releases, fresh : BOOLEAN]
    /\ banner \in [shows : Releases, seen : SUBSET Releases]
    /\ body \in [1 .. MaxDownloads -> {"none", "part", "bad", "good"}]
    /\ partial \in Downloads /\ dest \in Downloads
    /\ fetch \in [Updaters -> [pc : {"none", "begin", "stream", "verify"}, file : Downloads, sized : BOOLEAN]]
    /\ offers \subseteq Updaters

UpdatesInit ==
    /\ published = 0 /\ latest = 0 /\ sized = FALSE
    /\ checking = [pc |-> "none", got |-> 0]
    /\ setting = [cached |-> 0, dismissed |-> 0, fresh |-> FALSE]
    /\ banner = [shows |-> 0, seen |-> {}]
    /\ body = [n \in 1 .. MaxDownloads |-> "none"]
    /\ partial = 0 /\ dest = 0
    /\ fetch = [u \in Updaters |-> NoFetch] /\ offers = {}

-----------------------------------------------------------------------------
(* The check.                                                              *)
Publish ==
    /\ published < MaxReleases
    /\ published' = published + 1
    /\ UNCHANGED <<latest, sized, checking, setting, banner, fetchVars>>
\* The cache of 24 hours runs out.
CheckAges ==
    /\ setting' = [setting EXCEPT !.fresh = FALSE]
    /\ UNCHANGED <<published, latest, sized, checking, banner, fetchVars>>

\* check_now: one check at a time.
CheckNow ==
    /\ checking.pc = "none"
    /\ checking' = [pc |-> "fetch", got |-> 0]
    /\ UNCHANGED <<published, latest, sized, setting, banner, fetchVars>>
\* maybe_check, at the start of the app.
MaybeCheck ==
    /\ ~(setting.fresh /\ setting.cached # 0)
    /\ CheckNow
\* The thread: the release is known to the app, and cached; a failure changes neither.
FetchLatest ==
    /\ checking.pc = "fetch"
    /\ \/ /\ latest' = published /\ sized' = TRUE
          /\ setting' = [setting EXCEPT !.cached = published, !.fresh = TRUE]
          /\ checking' = [pc |-> "clear", got |-> published]
       \/ checking' = [pc |-> "end", got |-> 0] /\ UNCHANGED <<latest, sized, setting>>
    /\ UNCHANGED <<published, banner, fetchVars>>
\* A dismissal of an older release is cleared.
ClearDismissal ==
    /\ checking.pc = "clear"
    /\ setting' = [setting EXCEPT !.dismissed = IF @ # 0 /\ checking.got > @ THEN 0 ELSE @]
    /\ checking' = [checking EXCEPT !.pc = "end"]
    /\ UNCHANGED <<published, latest, sized, banner, fetchVars>>
CheckEnds ==
    /\ checking.pc = "end"
    /\ checking' = [pc |-> "none", got |-> 0]
    /\ UNCHANGED <<published, latest, sized, setting, banner, fetchVars>>

\* show_banner, each time the app refreshes.
ShowBanner == latest > 0 /\ setting.dismissed # latest
RefreshBanner ==
    /\ banner' = [shows |-> IF ShowBanner THEN latest ELSE 0,
                  seen |-> IF ShowBanner THEN banner.seen \cup {latest} ELSE banner.seen]
    /\ UNCHANGED <<published, latest, sized, checking, setting, fetchVars>>
\* dismiss_current, by the button of the banner: what is the latest then.
DismissCurrent ==
    /\ banner.shows # 0
    /\ setting' = [setting EXCEPT !.dismissed = latest]
    /\ UNCHANGED <<published, latest, sized, checking, banner, fetchVars>>

\* The app ends, and starts again: restore_cached_state, which knows neither the length nor
\* the checksums.
RestoreCached ==
    /\ latest' = setting.cached /\ sized' = FALSE
    /\ checking' = [pc |-> "none", got |-> 0]
    /\ banner' = [banner EXCEPT !.shows = 0]
    /\ fetch' = [u \in Updaters |-> IF u = "gui" THEN NoFetch ELSE fetch[u]]
    /\ offers' = offers \ {"gui"}
    /\ UNCHANGED <<published, setting, body, partial, dest>>

-----------------------------------------------------------------------------
(* The download, of the app (download) and of the command (run_update).    *)
Begun == {n \in 1 .. MaxDownloads : body[n] # "none"}
Whole(n) == n # 0 /\ body[n] \in {"good", "bad"}

\* Mutant: a file of the right length is offered without its checksum.
ReuseUnverified(u) == offers' = offers \cup {u} /\ UNCHANGED fetch
\* A file of the right length is not downloaded again, but verified again.
Reuse(u) ==
    /\ fetch' = [fetch EXCEPT ![u] = [pc |-> "verify", file |-> 0, sized |-> TRUE]]
    /\ UNCHANGED offers

\* The release is the one known at the click; the command has just fetched it, and ends with
\* its installer.  The app may be asked again while its user is.
BeginDownload(u) ==
    /\ fetch[u].pc = "none"
    /\ IF u = "gui" THEN latest > 0 ELSE u \notin offers
    /\ LET s == u = "gui" => sized IN
       \/ s /\ Whole(dest) /\ Reuse(u)
       \/ /\ ~(s /\ dest # 0 /\ body[dest] = "good")
          /\ fetch' = [fetch EXCEPT ![u] = [pc |-> "begin", file |-> 0, sized |-> s]]
          /\ UNCHANGED offers
    /\ UNCHANGED <<body, partial, dest, checkVars>>
\* stream_download: what is at the partial path is unlinked, and a file created there.
OpenPartial(u) ==
    /\ fetch[u].pc = "begin"
    /\ \E n \in 1 .. MaxDownloads :
         /\ n = Cardinality(Begun) + 1
         /\ body' = [body EXCEPT ![n] = "part"]
         /\ partial' = n
         /\ fetch' = [fetch EXCEPT ![u].pc = "stream", ![u].file = n]
    /\ UNCHANGED <<dest, offers, checkVars>>

\* Of a download whose length is known, only one of that length is put in place.
Renamed(received, known) == known => received # "part"

\* The stream ends, with the installer, with something else, or short; if the release is not
\* sized, the server may tell the length.  The file at the partial path is renamed, whosever
\* it is by then, or removed.
StreamEnds(u) ==
    /\ fetch[u].pc = "stream"
    /\ \E received \in {"good", "bad", "part"}, told \in BOOLEAN :
         LET placed == Renamed(received, fetch[u].sized \/ told) /\ partial # 0 IN
         /\ body' = [body EXCEPT ![fetch[u].file] = received]
         /\ dest' = IF placed THEN partial ELSE dest
         /\ fetch' = [fetch EXCEPT ![u] = IF placed THEN [@ EXCEPT !.pc = "verify", !.file = 0] ELSE NoFetch]
    /\ partial' = 0
    /\ UNCHANGED <<offers, checkVars>>
\* The network fails while it streams: the partial file stays, until it is cleaned up.
StreamFails(u) ==
    /\ fetch[u].pc = "stream"
    /\ fetch' = [fetch EXCEPT ![u] = NoFetch]
    /\ UNCHANGED <<body, partial, dest, offers, checkVars>>
\* cleanup_partial_downloads: one of an earlier day.
CleanupPartial ==
    /\ partial # 0 /\ \A u \in Updaters : fetch[u].pc # "stream"
    /\ partial' = 0
    /\ UNCHANGED <<body, dest, fetch, offers, checkVars>>

\* verify_sha256: without the published sum (a release that is not sized has none, and it may
\* not be had) nothing is offered, and the file stays; another sum removes it.
VerifyDownload(u) ==
    /\ fetch[u].pc = "verify"
    /\ fetch' = [fetch EXCEPT ![u] = NoFetch]
    /\ \/ fetch[u].sized /\ dest # 0 /\ body[dest] = "good" /\ offers' = offers \cup {u} /\ UNCHANGED dest
       \/ fetch[u].sized /\ dest # 0 /\ body[dest] # "good" /\ dest' = 0 /\ UNCHANGED offers
       \/ UNCHANGED <<dest, offers>>
    /\ UNCHANGED <<body, partial, checkVars>>
\* The user answers the dialog, or dpkg's question for a password; then the file of that
\* name is installed, or not.
LaunchInstaller(u) ==
    /\ u \in offers
    /\ offers' = offers \ {u}
    /\ UNCHANGED <<body, partial, dest, fetch, checkVars>>

UpdatesNext ==
    \/ Publish \/ CheckAges \/ CheckNow \/ MaybeCheck \/ FetchLatest \/ ClearDismissal \/ CheckEnds
    \/ RefreshBanner \/ DismissCurrent \/ RestoreCached \/ CleanupPartial
    \/ \E u \in Updaters : \/ BeginDownload(u) \/ OpenPartial(u) \/ StreamEnds(u) \/ StreamFails(u)
                           \/ VerifyDownload(u) \/ LaunchInstaller(u)

UpdatesSpec == UpdatesInit /\ [][UpdatesNext]_updateVars

(***************************************************************************)
(* Properties                                                              *)
(***************************************************************************)
\* "Fail-closed: an installer that cannot be integrity-checked is never handed to the OS"
\* (updater.py:296): while the user is asked, the file of that name is the one the checksum
\* was right for.  Short and wrong downloads, checksums that cannot be had, restarts and second
\* clicks leave a file in its place that the next click finds.
OfferedIsVerified == offers # {} => dest # 0 /\ body[dest] = "good"

(***************************************************************************)
(* Claims of the repository that the code does not keep (README, section 6).*)
(***************************************************************************)
\* "Raises RuntimeError on a truncated download (partial removed)" (updater.py:613): the path
\* of the installer never holds a part of it.  A restored release has no length, and a server
\* that tells none lets a short body be put in place.
InstallerWhole == dest # 0 => body[dest] # "part"

\* Stated for both updaters: the command and the app share the two paths, and one puts its
\* download in the place of the file the other offers ("Stream info's asset to dest
\* atomically", updater.py:609).
OfferedForAll == Updaters = {"gui", "cli"} => OfferedIsVerified

\* "so the banner reappears even if the user dismissed the previous version"
\* (updater.py:499): a dismissal of what is shown is one of what was fetched since.
DismissedWasSeen == setting.dismissed \in banner.seen \cup {0}
=============================================================================

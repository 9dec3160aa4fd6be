-------------------------------- MODULE MCAccess --------------------------------
(***************************************************************************)
(* Six machines side by side, all on the way to a session and its media:   *)
(* the HTTP boundary, the PostgreSQL stores, the intake of sources, the    *)
(* backend process of the desktop application, its media protocol and its  *)
(* playback hook.  They share no variable.  The initial state chooses the  *)
(* one that runs; the others stay in one of their initial states.          *)
(***************************************************************************)
EXTENDS ApiBoundary, PostgresStores, SourceIntake, DesktopBackend, MediaProxy,
        PlaybackSource

VARIABLE part

(* The environments of the boundary: every one that sets at most two of    *)
(* the eight variables, both about the keys or both about the limits.      *)
Default ==
  [mode |-> "unset", authEnabled |-> "unset", authMode |-> "unset",
   keys |-> "unset", limitEnabled |-> "unset", strategy |-> "unset",
   window |-> "unset", maxRequests |-> "unset"]

Values ==
  [mode |-> {"local", "share", "unknown"},
   authEnabled |-> {"true", "false", "other"},
   authMode |-> {"api_key", "jwt", "unknown"},
   keys |-> {"blank", "configured"},
   limitEnabled |-> {"true", "false"},
   strategy |-> {"principal", "ip", "unknown"},
   window |-> {"valid", "invalid"},
   maxRequests |-> {"valid", "invalid", "overCeiling"}]

AboutKeys == {"mode", "authEnabled", "authMode", "keys"}
AboutLimits == {"mode", "limitEnabled", "strategy", "window", "maxRequests"}
UpToTwoSet ==
  UNION {{[Default EXCEPT ![p[1]] = v, ![p[2]] = w] :
            v \in Values[p[1]], w \in Values[p[2]]} :
           p \in (AboutKeys \X AboutKeys) \cup (AboutLimits \X AboutLimits)}
    \cup {Default}

SubjectNames == {"principal", "local", "peer"}
Peers == {"peer"}

(* A video no longer than the tolerance, one a microsecond above a second, *)
(* one whose last window is rounded down and one that is too long; a       *)
(* segment, and one that is too big.                                       *)
Video(length) == [suffix |-> ".mp4", big |-> FALSE, length |-> length]
SomeFiles ==
  {Video(1), Video(1000001000), Video(1456400000), Video(2100000000),
   [suffix |-> ".ts", big |-> FALSE, length |-> 1000000000],
   [suffix |-> ".ts", big |-> TRUE, length |-> 1000000000]}
SomeEntries == {<<"a", "outside">>, <<"b", "a">>}
SomeInputs ==
  {[form |-> "folder", name |-> "."], [form |-> "playlist", name |-> "other"],
   [form |-> "file", name |-> "a"], [form |-> "url", name |-> "u"]}
Url(host, suffix) ==
  [scheme |-> "https", host |-> host, credentials |-> FALSE, suffix |-> suffix]
SomeUrls ==
  {Url("listed name", ".m3u8"), Url("other name", ".mp4"),
   Url("private address", ".m3u8"), Url("listed name", "other")}
Trust(service, allowed, dns) ==
  [service |-> service, allowed |-> allowed, private |-> FALSE, dns |-> dns]
SomePolicies ==
  {Trust(FALSE, {}, TRUE), Trust(TRUE, {}, FALSE), Trust(TRUE, {"listed name"}, TRUE)}

(* The sources played, and the local files asked for, whole or by range.   *)
MediaSources ==
  {[kind |-> "video_files", path |-> "a", access |-> "local_path"],
   [kind |-> "video_segments", path |-> "b", access |-> "local_path"],
   [kind |-> "api_stream", path |-> "c", access |-> "api_stream"]}

Asked(kind, from, to, size) ==
  [kind |-> kind, range |-> [given |-> TRUE, from |-> from, to |-> to], size |-> size]
LocalFiles ==
  {Asked("missing", 0, 1, 0), Asked("playlist", 0, 1, 3), Asked("segment", 0, 1, 3),
   Asked("video", 0, 1, 3), Asked("video", None, None, 0)}

-----------------------------------------------------------------------------
\* What the parts are that do not run.
StoresAtRest ==
  /\ selected = [k \in Kinds |-> "other"]
  /\ databaseUrl = {} /\ autoCreate = {} /\ schema = {}
IntakeAtRest == sourceMode = "video_files" /\ input.form = "folder"
DesktopAtRest == ~external /\ ~foreign
PlaybackAtRest == source.path = "a" /\ ~requested

Init ==
  /\ part \in {"boundary", "stores", "intake", "desktop", "proxy", "playback"}
  /\ BoundaryInit /\ (part # "boundary" => env = Default)
  /\ StoresInit /\ (part # "stores" => StoresAtRest)
  /\ IntakeInit /\ (part # "intake" => IntakeAtRest)
  /\ DesktopInit /\ (part # "desktop" => DesktopAtRest)
  /\ ProxyInit
  /\ PlaybackInit /\ (part # "playback" => PlaybackAtRest)

allVars == <<boundaryVars, storeVars, intakeVars, desktopVars, proxyVars, playbackVars>>

Next ==
  /\ UNCHANGED part
  /\ \/ /\ part = "boundary" /\ BoundaryNext
        /\ UNCHANGED <<storeVars, intakeVars, desktopVars, proxyVars, playbackVars>>
     \/ /\ part = "stores" /\ StoresNext
        /\ UNCHANGED <<boundaryVars, intakeVars, desktopVars, proxyVars, playbackVars>>
     \/ /\ part = "intake" /\ IntakeNext
        /\ UNCHANGED <<boundaryVars, storeVars, desktopVars, proxyVars, playbackVars>>
     \/ /\ part = "desktop" /\ DesktopNext
        /\ UNCHANGED <<boundaryVars, storeVars, intakeVars, proxyVars, playbackVars>>
     \/ /\ part = "proxy" /\ ProxyNext
        /\ UNCHANGED <<boundaryVars, storeVars, intakeVars, desktopVars, playbackVars>>
     \/ /\ part = "playback" /\ PlaybackNext
        /\ UNCHANGED <<boundaryVars, storeVars, intakeVars, desktopVars, proxyVars>>

Spec == Init /\ [][Next]_<<part, allVars>>

=============================================================================

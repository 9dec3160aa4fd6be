----------------------------- MODULE SourceIntake -----------------------------
(***************************************************************************)
(* A source on its way into a session: validated when the session is       *)
(* requested (validate_source_input), validated again by the worker,       *)
(* expanded into slices (discover_input_slices) and resolved for playback  *)
(* (resolve_playback_source), while the folder and the name server change. *)
(*                                                                         *)
(* A local input is a folder, a playlist in it or one file of it.  A path  *)
(* that does not exist may exist below the project root; both are this     *)
(* folder.  Times are nanoseconds, the unit of the code's own tolerance;   *)
(* what binary fractions do at its very edge is left out.  MaxChanges      *)
(* bounds the changes of the folder and the name server.                   *)
(*                                                                         *)
(* Name_Fault is the definition Name with one plausible mistake in it.     *)
(***************************************************************************)
EXTENDS Integers, SequencesExt

CONSTANTS
  FileNames,
  FileKinds,       \* [suffix, big, length]: what a file of the folder may be
  PlaylistEntries, \* sequences of file names and "outside"
  LocalInputs,     \* [form, name]: "folder", "playlist", "file", "url", "blank"
  Urls,            \* [scheme, host, credentials, suffix]
  Policies,        \* [service, allowed, private, dns]: the trust configuration
  LongestVideo,    \* LOCAL_VIDEO_MAX_DURATION_SEC
  MaxChanges

ASSUME IntakeAssumption ==
  /\ MaxChanges \in Nat /\ LongestVideo \in Nat
  /\ \A k \in FileKinds : k.big \in BOOLEAN /\ k.length \in Nat

VARIABLES
  sourceMode, input,  \* what the session asks for
  policy,
  files,        \* the media files of the folder: name -> kind and mtime
  playlists,    \* its playlists: "index" and another
  resolvesTo,   \* what the name server says of a public name
  changes,
  step,         \* requested, accepted, validated, listed, inspected, or an end
  found,        \* the files discovered, in order
  probed,       \* the duration ffprobe told of each
  slices,
  played        \* the last answer of /playback/resolve

intakeVars == <<sourceMode, input, policy, files, playlists, resolvesTo,
                changes, step, found, probed, slices, played>>

Modes == {"video_segments", "video_files", "api_stream"}
Suffix == [video_segments |-> ".ts", video_files |-> ".mp4"]
Nothing == [n \in {} |-> 0]
WindowLength == 1000000000
ShortestWindow == 100000000
RoundingUnit == 1000000
Tolerance == 1

IntakeInit ==
  /\ sourceMode \in Modes
  /\ input \in CASE sourceMode = "api_stream" -> Urls
                  [] sourceMode = "video_segments" -> LocalInputs
                  [] sourceMode = "video_files" -> {i \in LocalInputs : i.form # "playlist"}
  /\ policy \in IF sourceMode = "api_stream" THEN Policies
                ELSE {CHOOSE p \in Policies : TRUE}
  /\ files = Nothing
  /\ playlists = Nothing
  /\ resolvesTo = "public"
  /\ changes = 0
  /\ step = "requested"
  /\ found = <<>> /\ probed = <<>> /\ slices = <<>>
  /\ played = "none"

-----------------------------------------------------------------------------
\* A local address, or with dns a name that resolves to one.
IsLocalTarget(host) ==
  \/ host \in {"localhost", "private address"}
  \/ /\ policy.dns
     /\ host \in {"listed name", "other name"} /\ resolvesTo = "private"

\* The host policy (_validate_api_stream_host).  In service mode a list of
\* hosts is required, and a list, where there is one, is exhaustive.
HostAllowed(host) ==
  /\ policy.service => policy.allowed # {}
  /\ policy.private \/ ~IsLocalTarget(host)
  /\ policy.allowed # {} => host \in policy.allowed

\* validate_api_stream_url.
UrlAllowed(url) ==
  /\ url.scheme \in {"http", "https"}
  /\ url.host # "missing"
  /\ ~url.credentials
  /\ HostAllowed(url.host)
  /\ url.suffix \in {".m3u8", ".mp4"}

\* resolve_app_input_path, exists: whether the path leads somewhere now.
Exists(i) ==
  CASE i.form = "folder"   -> TRUE
    [] i.form = "playlist" -> i.name \in DOMAIN playlists
    [] i.form = "file"     -> i.name \in DOMAIN files
    [] OTHER               -> FALSE

\* validate_source_input.  A blank or URL-like local input is refused as well.
Valid == IF sourceMode = "api_stream" THEN UrlAllowed(input) ELSE Exists(input)

-----------------------------------------------------------------------------
\* discover_segment_files_from_playlist: the entries that lie below the folder,
\* exist and are segments, in the order of the playlist.
FromPlaylist(p) ==
  IF p \notin DOMAIN playlists THEN <<>>
  ELSE SelectSeq(playlists[p],
                 LAMBDA e : e \in DOMAIN files /\ files[e].suffix = ".ts")

PlaylistOrder ==
  IF sourceMode # "video_segments" \/ input.form = "file" THEN <<>>
  ELSE FromPlaylist(IF input.form = "playlist" THEN input.name ELSE "index")

\* The files of the folder that match the pattern of the mode.
Globbed == {n \in DOMAIN files : files[n].suffix = Suffix[sourceMode]}

\* The windows of one video: the tail is dropped.
Windows_Fault(d) ==
  [i \in 1 .. d \div WindowLength |->
     [from |-> (i - 1) * WindowLength, length |-> WindowLength]]

\* round(length, 3); which way a tie goes is left open.
Rounded(length) ==
  LET down == length - (length % RoundingUnit)
  IN  CHOOSE m \in {down, down + RoundingUnit} :
        2 * (length - m) <= RoundingUnit /\ 2 * (m - length) <= RoundingUnit

\* The length of a window that begins with rest of the video still to come.
LengthOf(rest) ==
  CASE rest < ShortestWindow -> Rounded(ShortestWindow)
    [] rest > WindowLength   -> Rounded(WindowLength)
    [] OTHER                 -> Rounded(rest)

\* _build_video_file_slices for one duration.  An unknown one gets one window;
\* what exceeds a whole number of windows by no more than the tolerance, none.
Windows(d) ==
  IF d = 0 THEN <<[from |-> 0, length |-> WindowLength]>>
  ELSE [i \in 1 .. d \div WindowLength + (IF d % WindowLength > Tolerance THEN 1 ELSE 0) |->
          [from   |-> (i - 1) * WindowLength,
           length |-> LengthOf(d - (i - 1) * WindowLength)]]

Slice(f, index, w) == [file |-> f, index |-> index, from |-> w.from, length |-> w.length]
Whole == [from |-> 0, length |-> 0]

SlicesOf(f, d) ==
  LET w == Windows(d) IN [i \in DOMAIN w |-> Slice(f, i - 1, w[i])]

-----------------------------------------------------------------------------
\* Both doors check the source: the request, and later the worker for itself.
Validate(from, to, otherwise) ==
  /\ step = from
  /\ step' = IF Valid THEN to ELSE otherwise
  /\ UNCHANGED <<sourceMode, input, policy, files, playlists, resolvesTo,
                 changes, found, probed, slices, played>>

\* discover_input_files finds the files ...
ListFiles ==
  /\ step = "validated" /\ sourceMode # "api_stream"
  /\ IF ~Valid
     THEN step' = "failed" /\ UNCHANGED found
     ELSE /\ step' = "listed"
          /\ found' = CASE PlaylistOrder # <<>> -> PlaylistOrder
                        [] PlaylistOrder = <<>> /\ input.form = "file" -> <<input.name>>
                        [] PlaylistOrder = <<>> /\ input.form = "folder" -> SetToSeq(Globbed)
                        [] PlaylistOrder = <<>> /\ input.form = "playlist" -> <<>>
  /\ UNCHANGED <<sourceMode, input, policy, files, playlists, resolvesTo,
                 changes, probed, slices, played>>

\* No two files were modified at the same time.
ByTime(names) ==
  CHOOSE s \in [DOMAIN names -> ToSet(names)] :
    \A i, j \in DOMAIN s : i < j => files[s[i]].at < files[s[j]].at

\* ... and looks at each again: one that is gone, or too big, fails the
\* session.  Globbed files are sorted by the time they were modified.
InspectFiles ==
  /\ step = "listed"
  /\ IF \E i \in DOMAIN found : found[i] \notin DOMAIN files \/ files[found[i]].big
     THEN step' = "failed" /\ UNCHANGED found
     ELSE /\ step' = "inspected"
          /\ found' = IF input.form = "folder" /\ PlaylistOrder = <<>>
                      THEN ByTime(found) ELSE found
  /\ UNCHANGED <<sourceMode, input, policy, files, playlists, resolvesTo,
                 changes, probed, slices, played>>

\* probe_video_duration: ffprobe tells the length of a video, or nothing when
\* it is gone or the probe times out.
Durations(f) == {0} \cup (IF f \in DOMAIN files THEN {files[f].length} ELSE {})

\* discover_input_slices.  A video that is too long fails the session, and so
\* does an ffprobe that cannot be run: only its timeout is caught.
BuildSlices ==
  /\ step = "inspected"
  /\ IF sourceMode = "video_segments"
     THEN /\ slices' = [i \in DOMAIN found |-> Slice(found[i], i - 1, Whole)]
          /\ step' = "discovered"
          /\ UNCHANGED probed
     ELSE \/ /\ found # <<>>
             /\ step' = "failed"
             /\ UNCHANGED <<probed, slices>>
          \/ \E p \in [DOMAIN found -> UNION {Durations(f) : f \in ToSet(found)}] :
               /\ \A i \in DOMAIN found : p[i] \in Durations(found[i])
               /\ probed' = p
               /\ IF \E i \in DOMAIN p : p[i] > LongestVideo
                  THEN step' = "failed" /\ UNCHANGED slices
                  ELSE /\ step' = "discovered"
                       /\ slices' = FlattenSeq([i \in DOMAIN found |->
                                                   SlicesOf(found[i], p[i])])
  /\ UNCHANGED <<sourceMode, input, policy, files, playlists, resolvesTo,
                 changes, found, played>>

-----------------------------------------------------------------------------
\* _resolve_local_item.  Without an item it is the first video by name, which
\* need not be the first that is analysed.
LocalItem(item) ==
  CASE input.form # "folder" -> input.name
    [] input.form = "folder" /\ item = "none" ->
         LET videos == {n \in DOMAIN files : files[n].suffix = ".mp4"}
         IN  IF videos = {} THEN "unavailable" ELSE CHOOSE n \in videos : TRUE
    [] input.form = "folder" /\ item # "none" ->
         IF item \in DOMAIN files THEN item ELSE "unavailable"

\* _resolve_segment_playlist: unlike the discovery, any playlist will do.
SegmentPlaylist ==
  CASE input.form = "playlist" -> {input.name}
    [] input.form # "playlist" /\ "index" \in DOMAIN playlists -> {"index"}
    [] OTHER -> DOMAIN playlists

\* resolve_playback_source.
Resolution(item) ==
  CASE sourceMode = "api_stream" -> "the url"
    [] sourceMode = "video_files" -> LocalItem(item)
    [] sourceMode = "video_segments" ->
         IF SegmentPlaylist # {} THEN CHOOSE p \in SegmentPlaylist : TRUE
         ELSE LocalItem(item)

\* POST /playback/resolve.
ResolvePlayback(item) ==
  /\ played' = IF Valid THEN Resolution(item) ELSE "invalid"
  /\ UNCHANGED <<sourceMode, input, policy, files, playlists, resolvesTo,
                 changes, step, found, probed, slices>>

-----------------------------------------------------------------------------
\* Meanwhile in the folder, and at the name server.
Change ==
  /\ changes < MaxChanges
  /\ changes' = changes + 1
  /\ UNCHANGED <<sourceMode, input, policy, step, found, probed, slices,
                 played>>

FileWritten(n, kind) ==
  /\ Change
  /\ files' = [m \in DOMAIN files \cup {n} |->
                 IF m = n THEN [suffix |-> kind.suffix, big |-> kind.big,
                                length |-> kind.length, at |-> changes]
                 ELSE files[m]]
  /\ UNCHANGED <<playlists, resolvesTo>>

FileGone(n) ==
  /\ n \in DOMAIN files
  /\ Change
  /\ files' = [m \in DOMAIN files \ {n} |-> files[m]]
  /\ UNCHANGED <<playlists, resolvesTo>>

PlaylistWritten(p, entries) ==
  /\ Change
  /\ playlists' = [q \in DOMAIN playlists \cup {p} |->
                     IF q = p THEN entries ELSE playlists[q]]
  /\ UNCHANGED <<files, resolvesTo>>

NameMoves ==
  /\ sourceMode = "api_stream"
  /\ Change
  /\ resolvesTo' = IF resolvesTo = "public" THEN "private" ELSE "public"
  /\ UNCHANGED <<files, playlists>>

IntakeNext ==
  \/ Validate("requested", "accepted", "refused")
  \/ Validate("accepted", "validated", "failed")
  \/ ListFiles \/ InspectFiles \/ BuildSlices
  \/ \E item \in FileNames \cup {"none", "outside"} : ResolvePlayback(item)
  \/ \E n \in FileNames, k \in FileKinds : FileWritten(n, k)
  \/ \E n \in FileNames : FileGone(n)
  \/ \E p \in {"index", "other"}, e \in PlaylistEntries : PlaylistWritten(p, e)
  \/ NameMoves

IntakeSpec == IntakeInit /\ [][IntakeNext]_intakeVars

-----------------------------------------------------------------------------
\* Every video is analysed once, from its start to its end: the slices of a file
\* stand together, begin at nought, number on from there, follow each other
\* without a gap or an overlap, and stop no more than half a rounding unit before
\* the end of the video and less than a shortest window behind it, whatever
\* became of the folder since it was listed.  Only a duration within the
\* tolerance of nought, which the code takes for known, yields no slice
\* (_build_video_file_slices).
SlicesTileTheVideos ==
  (step = "discovered" /\ sourceMode = "video_files") =>
    \A i \in DOMAIN found :
      LET places == {k \in DOMAIN slices : slices[k].file = found[i]}
          end(k) == slices[k].from + slices[k].length
      IN  IF probed[i] \in 1 .. Tolerance THEN places = {}
          ELSE \E first, last \in DOMAIN slices :
                 /\ first <= last /\ places = first .. last
                 /\ slices[first].from = 0
                 /\ \A k \in places :
                      /\ slices[k].index = k - first /\ slices[k].length > 0
                      /\ k < last => slices[k + 1].from = end(k)
                 /\ probed[i] > 0 => /\ 2 * (probed[i] - end(last)) <= RoundingUnit
                                     /\ end(last) < probed[i] + ShortestWindow
=============================================================================

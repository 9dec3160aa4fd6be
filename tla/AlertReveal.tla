------------------------------ MODULE AlertReveal ------------------------------
(***************************************************************************)
(* Which alerts the application shows: the player reports where it is and  *)
(* what it plays (VideoPlayerPanel), the polls bring alerts, and App       *)
(* reveals an alert when the playback reaches it (filterAlertsForPlayback) *)
(* and then keeps it (mergeDisplayedAlerts).                               *)
(*                                                                         *)
(* An alert is its place in the source: the number of its segment, the     *)
(* second of its window or the index of its live slice.  A callback and    *)
(* the render and effects after it are one step.  Late replies about an    *)
(* earlier session are the subject of MonitoringClient.                    *)
(*                                                                         *)
(* MaxPosition bounds the places, MaxStarted the sessions started.         *)
(* Name_Fault is the definition Name with one plausible mistake in it.     *)
(***************************************************************************)
EXTENDS Naturals

CONSTANTS
  Maps,         \* the playlists there are: segment number -> second it begins
  MaxPosition, MaxStarted

ASSUME RevealAssumption ==
  MaxPosition \in Nat \ {0} /\ MaxStarted \in Nat /\ \A m \in Maps : DOMAIN m \subseteq Nat

VARIABLES
  sourceKind,      \* displaySource.kind
  begun,           \* sessions started so far
  session,         \* sessionSnapshot.session, 0 while there is none
  alerts,          \* sessionSnapshot.alerts
  total,           \* progress.total_count
  engine,          \* what plays the media: "none", "direct", "native", "hls"
  manifests,       \* playlists fetched for native playback that have not come
  time, duration, live, \* the playback metrics; duration 0 is null
  item,            \* currentPlaybackItem, 0 is null
  segmentStarts,   \* segmentStartTimes
  revealed,        \* revealedLocalAlertKeys
  shown            \* what this session's user has seen since it came up

revealVars == <<sourceKind, begun, session, alerts, total, engine, manifests,
                time, duration, live, item, segmentStarts, revealed, shown>>

Positions == 1 .. MaxPosition
SourceKinds == {"video_segments", "video_files", "api_stream"}
NoMap == [n \in {} |-> 0]

RevealInit ==
  /\ sourceKind = "video_segments"
  /\ begun = 0 /\ session = 0
  /\ alerts = {} /\ total = 0
  /\ engine = "none" /\ manifests = {}
  /\ time = 0 /\ duration = 0 /\ live = FALSE
  /\ item = 0 /\ segmentStarts = NoMap
  /\ revealed = {} /\ shown = {}

-----------------------------------------------------------------------------
\* shouldRevealSegmentAlert: by the second its segment begins, or else by the
\* number of the segment that plays.
SegmentReached(a) ==
  IF a \in DOMAIN segmentStarts THEN segmentStarts[a] <= time
  ELSE item # 0 /\ a <= item

\* The live slices the playback has come to, in proportion.
SlicesReached == ((IF time < duration THEN time ELSE duration) * total) \div duration

\* filterAlertsForPlayback.
Visible ==
  CASE live \/ total = 0 -> alerts
    [] ~live /\ total # 0 /\ sourceKind = "video_segments" ->
         {a \in alerts : SegmentReached(a)}
    [] ~live /\ total # 0 /\ sourceKind # "video_segments" /\ duration = 0 -> alerts
    [] ~live /\ total # 0 /\ sourceKind = "video_files" /\ duration # 0 ->
         {a \in alerts : a <= time}
    [] ~live /\ total # 0 /\ sourceKind = "api_stream" /\ duration # 0 ->
         {a \in alerts : a < SlicesReached}

\* usesStickyLocalAlertReveal.
Sticky == sourceKind \in {"video_segments", "video_files"}

\* What is visible is shown, whatever was revealed before.
Displayed_Fault == Visible

\* mergeDisplayedAlerts.
Displayed == IF Sticky /\ revealed # {} THEN alerts \cap revealed ELSE Visible

\* The effects after a render: another session forgets what was revealed, then
\* what is visible now is revealed.
Render ==
  /\ revealed' = (IF session' = session THEN revealed ELSE {})
                   \cup (IF Sticky' THEN Visible' ELSE {})
  /\ shown' = (IF session' = session THEN shown ELSE {}) \cup Displayed'

-----------------------------------------------------------------------------
\* handleStartMonitoring: the snapshot is emptied, the hook starts over with
\* the source, and the panel forgets the segments of another kind of source.
\* The segments of an earlier folder stay until the new ones are known.
StartPlayback(k) ==
  /\ begun < MaxStarted
  /\ begun' = begun + 1
  /\ sourceKind' = k
  /\ session' = 0 /\ alerts' = {} /\ total' = 0
  /\ engine' = IF k = "video_segments" THEN engine ELSE "none"
  /\ time' = 0 /\ duration' = 0 /\ live' = (k = "api_stream")
  /\ IF k # sourceKind /\ k # "video_segments"
     THEN item' = 0 /\ segmentStarts' = NoMap
     ELSE UNCHANGED <<item, segmentStarts>>
  /\ UNCHANGED manifests
  /\ Render

\* A reply about the session that was started.  Replies may overtake each
\* other, so there may be fewer alerts than before.
PollReply(upTo) ==
  /\ begun > 0
  /\ session' = begun
  /\ alerts' = 1 .. upTo
  /\ total' \in IF alerts' = {} THEN {0, MaxPosition} ELSE {MaxPosition}
  /\ UNCHANGED <<sourceKind, begun, engine, manifests, time, duration, live,
                 item, segmentStarts>>
  /\ Render

\* handleEndMonitoring: stop() winds the element back.
EndPlayback ==
  /\ begun > 0
  /\ time' = 0 /\ duration' = 0 /\ live' = (sourceKind = "api_stream")
  /\ UNCHANGED <<sourceKind, begun, session, alerts, total, engine, manifests,
                 item, segmentStarts>>
  /\ Render

\* The media is resolved and attached: an HLS playlist through the element
\* itself, which fetches the playlist once more, or through hls.js; any other
\* directly.
Attach(e) ==
  /\ begun > 0
  /\ e = "direct" => sourceKind # "video_segments"
  /\ e \in {"native", "hls"} => sourceKind # "video_files"
  /\ engine' = e
  /\ \/ e = "native" /\ \E m \in Maps : manifests' = manifests \cup {m}
     \/ e # "native" /\ UNCHANGED manifests
  /\ UNCHANGED <<sourceKind, begun, session, alerts, total, time, duration,
                 live, item, segmentStarts>>
  /\ Render

\* loadNativeSegmentMap: nothing cancels it when the source changes.
ManifestLoaded(m) ==
  /\ m \in manifests
  /\ manifests' = manifests \ {m}
  /\ segmentStarts' = m
  /\ UNCHANGED <<sourceKind, begun, session, alerts, total, engine, time,
                 duration, live, item>>
  /\ Render

ManifestLost(m) ==
  /\ m \in manifests
  /\ manifests' = manifests \ {m}
  /\ UNCHANGED <<sourceKind, begun, session, alerts, total, engine, time,
                 duration, live, item, segmentStarts>>
  /\ Render

\* LEVEL_LOADED and FRAG_CHANGED of hls.js.
LevelLoaded(m) ==
  /\ engine = "hls"
  /\ segmentStarts' = m
  /\ UNCHANGED <<sourceKind, begun, session, alerts, total, engine, manifests,
                 time, duration, live, item>>
  /\ Render

FragmentChanged(n) ==
  /\ engine = "hls"
  /\ item' = n
  /\ UNCHANGED <<sourceKind, begun, session, alerts, total, engine, manifests,
                 time, duration, live, segmentStarts>>
  /\ Render

\* The element moves on, or the user seeks.
TimeUpdate(t) ==
  /\ engine # "none"
  /\ time' = t
  /\ UNCHANGED <<sourceKind, begun, session, alerts, total, engine, manifests,
                 duration, live, item, segmentStarts>>
  /\ Render

\* The element learns its duration, which a live stream does not have.
MetadataLoaded(finite) ==
  /\ engine # "none"
  /\ duration' = IF finite THEN MaxPosition ELSE 0
  /\ live' = (~finite /\ sourceKind = "api_stream")
  /\ UNCHANGED <<sourceKind, begun, session, alerts, total, engine, manifests,
                 time, item, segmentStarts>>
  /\ Render

RevealNext ==
  \/ \E k \in SourceKinds : StartPlayback(k)
  \/ \E n \in 0 .. MaxPosition : PollReply(n) \/ TimeUpdate(n)
  \/ EndPlayback
  \/ \E e \in {"direct", "native", "hls"} : Attach(e)
  \/ \E m \in Maps : ManifestLoaded(m) \/ ManifestLost(m) \/ LevelLoaded(m)
  \/ \E n \in Positions : FragmentChanged(n)
  \/ \E finite \in BOOLEAN : MetadataLoaded(finite)

RevealSpec == RevealInit /\ [][RevealNext]_revealVars

-----------------------------------------------------------------------------
\* An alert of a local source that was shown once stays shown for as long as
\* its session is and the snapshot has it: when the user seeks back or ends
\* the playback, when replies overtake each other, and when another playlist
\* moves the segments (usesStickyLocalAlertReveal).
ShownAlertsStay == Sticky => (shown \cap alerts) \subseteq Displayed

=============================================================================

---------------------------- MODULE PlaybackSource ----------------------------
(***************************************************************************)
(* usePlaybackSource: the hook that asks the bridge for the media of the   *)
(* selected source and shows it in the player.                             *)
(*                                                                         *)
(* Callbacks set the state; a render then runs the effects whose           *)
(* dependencies changed, on the values it rendered.  Each run of the first *)
(* effect asks for a source, and the run after it, or the next one, may be *)
(* answered first.  MaxRuns bounds the runs of that effect.                *)
(***************************************************************************)
EXTENDS Naturals

CONSTANTS Sources, \* [kind, path, access] records
          MaxRuns

ASSUME PlaybackAssumption == MaxRuns \in Nat

VARIABLES
  source,     \* the props
  requested,
  media,      \* mediaSource: the source whose media is shown, NoMedia if none
  playback,   \* playbackStatus
  mounted,    \* the effects ran at least once
  rendered,   \* what they last ran on
  runs,       \* how often the first effect ran
  flights,    \* the resolutions not answered yet: [run, source, requested]
  attempts    \* an element.play() that is not settled yet

playbackVars == <<source, requested, media, playback, mounted, rendered, runs, flights,
                  attempts>>

NoMedia == [kind |-> "none", path |-> "none", access |-> "none"]

Rendering ==
  [source |-> source, requested |-> requested, media |-> media, playback |-> playback]

PlaybackInit ==
  /\ source \in Sources
  /\ requested \in BOOLEAN
  /\ media = NoMedia
  /\ playback = "idle"
  /\ mounted = FALSE
  /\ rendered = Rendering
  /\ runs = 0
  /\ flights = {}
  /\ attempts = FALSE

\* getStoppedPlaybackStatus.
Stopped(status) == IF status = "error" THEN status ELSE "stopped"

\* getResolvedPlaybackStatus with a media source.
Resolved(flight) == IF flight.requested THEN "loading" ELSE "stopped"

-----------------------------------------------------------------------------
\* The user selects another source, or starts or ends the playback.
Select(s) ==
  /\ source' = s
  /\ UNCHANGED <<requested, media, playback, mounted, rendered, runs, flights, attempts>>

Toggle ==
  /\ requested' = ~requested
  /\ UNCHANGED <<source, media, playback, mounted, rendered, runs, flights, attempts>>

\* The three effects, in their order.  The first cancels its last run, the
\* third sees the values that were rendered, not those the others set.
Effects ==
  LET resolve  == ~mounted \/ rendered.source # source \/ rendered.requested # requested
      stop     == /\ ~requested
                  /\ \/ ~mounted
                     \/ rendered.requested
                     \/ rendered.source.access # source.access
      settle   == /\ \/ ~mounted
                     \/ rendered.media # media \/ rendered.playback # playback
                  /\ playback \notin {"error", "loading"}
                  /\ media = NoMedia
      loading  == IF resolve THEN "loading" ELSE playback
      stopping == IF stop THEN Stopped(loading) ELSE loading
  IN  /\ ~mounted \/ rendered # Rendering
      /\ resolve => runs < MaxRuns
      /\ runs' = IF resolve THEN runs + 1 ELSE runs
      /\ flights' = IF resolve
                    THEN flights \cup
                           {[run |-> runs', source |-> source, requested |-> requested]}
                    ELSE flights
      /\ media' = IF resolve /\ source.kind # "video_segments" THEN NoMedia ELSE media
      /\ playback' = IF settle THEN "idle" ELSE stopping
      /\ mounted' = TRUE
      /\ rendered' = Rendering
      /\ UNCHANGED <<source, requested, attempts>>

\* The answer to an earlier run counts as well.
Cancelled_Fault(flight) == FALSE

\* isCancelled.
Cancelled(flight) == flight.run # runs

\* The bridge answers: with a source, with none, or it fails.
Reply(flight, found) ==
  /\ flight \in flights
  /\ flights' = flights \ {flight}
  /\ CASE Cancelled(flight) -> UNCHANGED <<media, playback>>
       [] ~Cancelled(flight) /\ found = "source" ->
            media' = flight.source /\ playback' = Resolved(flight)
       [] ~Cancelled(flight) /\ found # "source" ->
            /\ media' = IF found = "none" THEN NoMedia ELSE media
            /\ playback' = IF flight.source.kind = "video_segments" THEN playback
                           ELSE "error"
  /\ UNCHANGED <<source, requested, mounted, rendered, runs, attempts>>

-----------------------------------------------------------------------------
\* The element is ready (handlePlaybackReady): play() awaits the attempt and
\* then sets the status, whatever happened meanwhile.
Play ==
  /\ mounted /\ rendered.requested /\ rendered.media # NoMedia
  /\ ~attempts
  /\ attempts' = TRUE
  /\ UNCHANGED <<source, requested, media, playback, mounted, rendered, runs, flights>>

PlaySettles ==
  /\ attempts
  /\ attempts' = FALSE
  /\ playback' = "playing"
  /\ UNCHANGED <<source, requested, media, mounted, rendered, runs, flights>>

\* The element reports an error (handlePlaybackError).
MediaError ==
  /\ mounted /\ rendered.media # NoMedia
  /\ playback' = "error"
  /\ UNCHANGED <<source, requested, media, mounted, rendered, runs, flights, attempts>>

PlaybackNext ==
  \/ Effects \/ Toggle \/ Play \/ PlaySettles \/ MediaError
  \/ \E s \in Sources : Select(s)
  \/ \E f \in flights, found \in {"source", "none", "fails"} : Reply(f, found)

PlaybackSpec == PlaybackInit /\ [][PlaybackNext]_playbackVars

-----------------------------------------------------------------------------
\* Once the effects of the last selection ran, the player shows nothing or the
\* media of the selected source, however late the bridge answers for the
\* sources before it (the isCancelled flag of usePlaybackSource).  The one
\* exception the code makes is a segment folder, which keeps showing what was
\* there until its own answer comes.
MediaIsOfSource ==
  (/\ mounted
   /\ rendered.source = source /\ rendered.requested = requested
   /\ source.kind # "video_segments")
  => media \in {NoMedia, source}

=============================================================================

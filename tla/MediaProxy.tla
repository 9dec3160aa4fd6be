------------------------------ MODULE MediaProxy ------------------------------
(***************************************************************************)
(* The local-media protocol of the Electron main process: the registry of  *)
(* the remote HLS proxy (createRemoteHlsProxyRegistry), the requests of    *)
(* the player for a proxied URL, which wait for the upstream server, and   *)
(* for a local file, and the playback sources the bridge hands out.        *)
(*                                                                         *)
(* A token is a number in the order it was minted in, which is the order   *)
(* of the registry's Map: an entry that is resolved keeps its place, and   *)
(* its target does not change.  A file of a local request is its size, a   *)
(* range header its two numbers, None for one that is left out.  MaxMinted *)
(* bounds the tokens and MaxClock the time.                                *)
(***************************************************************************)
EXTENDS Integers, FiniteSets, Functions

CONSTANTS MaxEntries, MaxAge, Uris, Fetches, MaxMinted, MaxClock,
          Files  \* the local requests: [kind, range, size]

ASSUME ProxyAssumption ==
  /\ MaxEntries \in Nat \ {0} /\ MaxAge \in Nat
  /\ MaxMinted \in Nat /\ MaxClock \in Nat
  /\ Uris \subseteq Nat

VARIABLES
  entries,  \* the registry: [token -> createdAt]
  minted,   \* how many tokens were minted
  clock,
  upstream, \* [fetch -> the token whose target is fetched, 0 if none]
  used,     \* [token -> when it was minted or last resolved]
  answer    \* the last answer

proxyVars == <<entries, minted, clock, upstream, used, answer>>

None == -1
Answer(status) == [status |-> status, start |-> None, end |-> None]

ProxyInit ==
  /\ entries = [t \in {} |-> 0]
  /\ minted = 0
  /\ clock = 0
  /\ upstream = [f \in Fetches |-> 0]
  /\ used = [t \in 1 .. MaxMinted |-> 0]
  /\ answer = Answer(0)

-----------------------------------------------------------------------------
Fresh(es, time) == {t \in DOMAIN es : es[t] >= time - MaxAge}

Newest(tokens, n) == {t \in tokens : Cardinality({u \in tokens : u > t}) < n}

\* prune: the entries not used for maxAge, then the oldest above maxEntries.
Prune(es, time) == Restrict(es, Newest(Fresh(es, time), MaxEntries))

\* register prunes before it inserts.
Register(es, token, time) ==
  [t \in DOMAIN Prune(es, time) \cup {token} |-> IF t = token THEN time ELSE es[t]]

\* n times register, for the tokens after the last one: what the first pruning
\* finds fresh and the new entries, down to one more than maxEntries.
RegisterAll(es, last, n, time) ==
  LET new == last + 1 .. last + n
  IN  IF n = 0 THEN es
      ELSE [t \in Newest(Fresh(es, time) \cup new, MaxEntries + 1) |->
              IF t \in new THEN time ELSE es[t]]

\* rewriteHlsManifest registers every URI of a playlist, one after the other.
RegisterUris(n) ==
  /\ minted + n <= MaxMinted
  /\ minted' = minted + n
  /\ entries' = RegisterAll(entries, minted, n, clock)
  /\ used' = [t \in DOMAIN used |->
                IF t \in minted + 1 .. minted + n THEN clock ELSE used[t]]

Known == DOMAIN entries

\* An entry that is resolved keeps its time.
Refresh_Fault(token) == entries

\* resolve gives the entry a new time, not a new place.
Refresh(token) == [entries EXCEPT ![token] = clock]

-----------------------------------------------------------------------------
\* resolvePlaybackSource of the bridge: toRendererMediaUrl of the backend's
\* answer; only a remote playlist takes a token.
RendererSource(source) ==
  /\ IF source = "remotePlaylist" THEN RegisterUris(1)
     ELSE UNCHANGED <<entries, minted, used>>
  /\ answer' = Answer(IF source = "unsupportedScheme" THEN 500 ELSE 200)
  /\ UNCHANGED <<clock, upstream>>

\* A request with a method, a host or a path the protocol does not serve
\* (ensureAllowedLocalMediaRequestMethod, classifyLocalMediaRequestUrl).
RefusedRequest(why) ==
  /\ answer' = Answer(CASE why = "method" -> 405
                        [] why = "target" -> 404
                        [] why = "path"   -> 400)
  /\ UNCHANGED <<entries, minted, clock, upstream, used>>

\* A request for a proxied URL, up to the upstream fetch
\* (resolveRemoteHlsProxyTarget).
ProxyRequest(f, token) ==
  /\ upstream[f] = 0
  /\ IF token \in Known
     THEN /\ entries' = Refresh(token)
          /\ used' = [used EXCEPT ![token] = clock]
          /\ upstream' = [upstream EXCEPT ![f] = token]
          /\ UNCHANGED answer
     ELSE /\ answer' = Answer(404)
          /\ UNCHANGED <<entries, used, upstream>>
  /\ UNCHANGED <<minted, clock>>

\* The upstream server answers (parseRemoteHlsProxyPayload).  A playlist is
\* rewritten, and a URI in it that is none fails the request after the URIs
\* before it were registered.
UpstreamAnswers(f) ==
  /\ upstream[f] # 0
  /\ upstream' = [upstream EXCEPT ![f] = 0]
  /\ \/ \E n \in Uris, status \in {200, 502} :
          RegisterUris(n) /\ answer' = Answer(status)
     \/ \E status \in {200, 206, 404, 502} :
          /\ answer' = Answer(status)
          /\ UNCHANGED <<entries, minted, used>>
  /\ UNCHANGED clock

\* parseLocalMediaRangeRequest: the answer to a range of a file of this size.
RangeAnswer(range, size, partial) ==
  LET asked == partial /\ range.given
      start == IF asked /\ range.from # None THEN range.from ELSE 0
      end   == IF asked /\ range.to # None THEN range.to
               ELSE IF size > 0 THEN size - 1 ELSE 0
  IN  IF start > end \/ start >= size THEN Answer(416)
      ELSE [status |-> IF asked THEN 206 ELSE 200, start |-> start, end |-> end]

\* handleLocalMediaRequest: a playlist is sent whole, only an .mp4 in parts.
LocalRequest(kind, range, size) ==
  /\ answer' = CASE kind = "missing"  -> Answer(404)
                 [] kind = "playlist" -> Answer(200)
                 [] kind = "segment"  -> RangeAnswer(range, size, FALSE)
                 [] kind = "video"    -> RangeAnswer(range, size, TRUE)
  /\ UNCHANGED <<entries, minted, clock, upstream, used>>

ClockPasses ==
  /\ clock < MaxClock
  /\ clock' = clock + 1
  /\ UNCHANGED <<entries, minted, upstream, used, answer>>

ProxyNext ==
  \/ ClockPasses
  \/ \E s \in {"none", "file", "remoteVideo", "remotePlaylist", "unsupportedScheme"} :
       RendererSource(s)
  \/ \E why \in {"method", "target", "path"} : RefusedRequest(why)
  \/ \E f \in Fetches : UpstreamAnswers(f) \/ \E t \in 0 .. minted : ProxyRequest(f, t)
  \/ \E file \in Files : LocalRequest(file.kind, file.range, file.size)

ProxySpec == ProxyInit /\ [][ProxyNext]_proxyVars

-----------------------------------------------------------------------------
\* A proxied URL that was handed out or fetched within the last maxAge still
\* has its target while no more than maxEntries newer ones were minted,
\* whichever playlists and sources registered theirs in between
\* (createRemoteHlsProxyRegistry).
RecentTokensResolve ==
  \A t \in 1 .. minted :
    minted - t <= MaxEntries /\ used[t] >= clock - MaxAge => t \in Known

=============================================================================

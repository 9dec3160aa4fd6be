------------------------------ MODULE DesktopProofs ------------------------------
(***************************************************************************)
(* The desktop application, for any number of requests, starts and crashes *)
(* and any size of the registry.  One backend at a time while it runs, and *)
(* none it had spawned by then once it has quit; the proxied URLs in use   *)
(* keep their targets; the media on screen belong to the source that was   *)
(* asked for last.                                                         *)
(***************************************************************************)
EXTENDS DesktopBackend, MediaProxy, PlaybackSource, InductionLemmas

ProcessStates == {"unborn", "booting", "listening", "stopping", "dead", "gone"}

DesktopTypeOK ==
  /\ child \in Nat
  /\ startupPromise \in Nat
  /\ started \in 0 .. MaxStarts
  /\ starts \subseteq 1 .. started
  /\ process \in [Children -> ProcessStates]
  /\ app \in {"running", "quitting", "exited"}

\* What stopFastApiProcess and the event of a child rely on: while the
\* application runs, a child that lives, or whose exit event has not come, is
\* the tracked one, and a start is under way only if it is the one others wait
\* for and no child is tracked.
OneAtATime ==
  app = "running" =>
    /\ \A c \in Children : process[c] \in Running \cup {"dead"} => child = c
    /\ \A c \in Children : process[c] # "stopping"
    /\ starts \subseteq {startupPromise}
    /\ starts # {} => child = 0

\* After the stop only children spawned since then run.
LeftBehind ==
  app \in {"quitting", "exited"} =>
    \A c \in Children : process[c] \in Running => c \in late

DesktopInv == DesktopTypeOK /\ OneAtATime /\ LeftBehind

-----------------------------------------------------------------------------
\* A start or a wait changes no process; it is only begun with no child and no
\* start under way.
LEMMA EnsureKeepsInv ==
  ASSUME DesktopInv, NEW w \in Waiters, Ensure(w),
         UNCHANGED <<child, process, app, late>>
  PROVE  DesktopInv'
<1>1. CASE UNCHANGED <<startupPromise, starts, started>>
  BY <1>1 DEF DesktopInv, DesktopTypeOK, OneAtATime, LeftBehind
<1>2. CASE /\ child = 0 /\ startupPromise = 0
           /\ started < MaxStarts
           /\ started' = started + 1
           /\ starts' = starts \cup {started'}
           /\ startupPromise' = started'
  <2>1. DesktopTypeOK'
    BY <1>2, DesktopAssumption DEF DesktopInv, DesktopTypeOK
  <2>2. app = "running" => starts = {}
    BY <1>2 DEF DesktopInv, DesktopTypeOK, OneAtATime
  <2>3. OneAtATime'
    BY <1>2, <2>2 DEF DesktopInv, OneAtATime
  <2>4. LeftBehind'
    BY DEF DesktopInv, LeftBehind
  <2> QED
    BY <2>1, <2>3, <2>4 DEF DesktopInv
<1> QED
  BY <1>1, <1>2 DEF Ensure

LEMMA SpawnKeepsInv ==
  ASSUME DesktopInv, NEW s \in Children, Spawn(s)
  PROVE  DesktopInv'
<1>1. /\ s \in starts /\ app # "exited" /\ app' = app
      /\ starts' = starts \ {s}
      /\ process' = [process EXCEPT ![s] = "booting"]
      /\ child' = s /\ startupPromise' = 0 /\ started' = started
      /\ late' = IF app = "quitting" THEN late \cup {s} ELSE late
  BY DEF Spawn
<1>2. s \in Nat /\ process[s] \in ProcessStates
  BY DesktopAssumption DEF DesktopInv, DesktopTypeOK, Children
<1>3. DesktopTypeOK'
  BY <1>1, <1>2 DEF DesktopInv, DesktopTypeOK, ProcessStates
<1>4. OneAtATime'
  <2> SUFFICES ASSUME app = "running"
               PROVE  /\ \A c \in Children :
                           process'[c] \in Running \cup {"dead"} => s = c
                      /\ \A c \in Children : process'[c] # "stopping"
                      /\ starts' = {}
    BY <1>1 DEF OneAtATime
  <2>1. starts = {startupPromise} /\ s = startupPromise /\ child = 0
    BY <1>1 DEF DesktopInv, OneAtATime
  <2>2. \A c \in Children : process[c] \notin Running \cup {"dead"}
    BY <2>1, DesktopAssumption DEF DesktopInv, OneAtATime, Children
  <2>3. \A c \in Children : process[c] # "stopping"
    BY DEF DesktopInv, OneAtATime
  <2> QED
    BY <1>1, <2>1, <2>2, <2>3 DEF DesktopInv, DesktopTypeOK
<1>5. LeftBehind'
  BY <1>1 DEF DesktopInv, DesktopTypeOK, LeftBehind, Running
<1> QED
  BY <1>3, <1>4, <1>5 DEF DesktopInv

\* What becomes of one child by itself: it listens, dies or ends.
LEMMA ChildKeepsInv ==
  ASSUME DesktopInv, NEW c \in Children, Boot(c) \/ Crash(c) \/ Terminate(c)
  PROVE  DesktopInv'
<1>1. /\ UNCHANGED <<child, startupPromise, starts, started, app, late>>
      /\ \E p \in {"dead", "listening"} : process' = [process EXCEPT ![c] = p]
  BY DEF Boot, Crash, Terminate
<1>2. PICK p \in {"dead", "listening"} : process' = [process EXCEPT ![c] = p]
  BY <1>1
<1>3. process[c] \in Running \/ (process[c] = "stopping" /\ p = "dead")
  BY <1>2 DEF Boot, Crash, Terminate, Running, DesktopInv, DesktopTypeOK
<1>4. DesktopTypeOK'
  BY <1>1, <1>2 DEF DesktopInv, DesktopTypeOK, ProcessStates
<1>5. OneAtATime'
  BY <1>1, <1>2, <1>3 DEF DesktopInv, DesktopTypeOK, OneAtATime, Running
<1>6. LeftBehind'
  BY <1>1, <1>2, <1>3 DEF DesktopInv, DesktopTypeOK, LeftBehind, Running
<1> QED
  BY <1>4, <1>5, <1>6 DEF DesktopInv

\* The exit event clears the promise: while the application runs the child it
\* is about is the tracked one, so nobody is waiting for another start.
LEMMA EventKeepsInv ==
  ASSUME DesktopInv, NEW c \in Children, ChildEvent(c)
  PROVE  DesktopInv'
<1>1. /\ process[c] = "dead" /\ process' = [process EXCEPT ![c] = "gone"]
      /\ child' = IF child = c THEN 0 ELSE child
      /\ startupPromise' = 0
      /\ UNCHANGED <<starts, started, app, late>>
  BY DEF ChildEvent
<1>2. DesktopTypeOK'
  BY <1>1 DEF DesktopInv, DesktopTypeOK, ProcessStates
<1>3. OneAtATime'
  <2> SUFFICES ASSUME app = "running"
               PROVE  /\ \A d \in Children : process'[d] \notin Running \cup {"dead", "stopping"}
                      /\ starts = {} /\ child' = 0
    BY <1>1 DEF OneAtATime
  <2>1. child = c
    BY <1>1 DEF DesktopInv, OneAtATime
  <2>2. starts = {}
    BY <2>1, DesktopAssumption DEF DesktopInv, OneAtATime, Children
  <2>3. \A d \in Children : d # c => process[d] \notin Running \cup {"dead", "stopping"}
    BY <2>1 DEF DesktopInv, OneAtATime
  <2> QED
    BY <1>1, <2>1, <2>2, <2>3 DEF DesktopInv, DesktopTypeOK, Running
<1>4. LeftBehind'
  BY <1>1 DEF DesktopInv, DesktopTypeOK, LeftBehind, Running
<1> QED
  BY <1>2, <1>3, <1>4 DEF DesktopInv

\* The stop reaches the only child there is.
LEMMA QuitKeepsInv ==
  ASSUME DesktopInv, Quit
  PROVE  DesktopInv'
<1>1. /\ app = "running" /\ app' = "quitting"
      /\ child' = 0 /\ startupPromise' = 0
      /\ process' = IF child # 0 /\ process[child] \in Running
                    THEN [process EXCEPT ![child] = "stopping"] ELSE process
      /\ UNCHANGED <<starts, started, late>>
  BY DEF Quit, Stop
<1>2. DesktopTypeOK'
  BY <1>1 DEF DesktopInv, DesktopTypeOK, ProcessStates
<1>3. OneAtATime'
  BY <1>1 DEF OneAtATime
<1>4. ASSUME NEW c \in Children PROVE process'[c] \notin Running
  <2>1. process[c] \in Running => child = c
    BY <1>1 DEF DesktopInv, OneAtATime
  <2>2. c # 0
    BY DesktopAssumption DEF Children
  <2> QED
    BY <1>1, <2>1, <2>2 DEF DesktopInv, DesktopTypeOK, Running
<1> QED
  BY <1>2, <1>3, <1>4 DEF DesktopInv, LeftBehind

-----------------------------------------------------------------------------
\* Nothing runs at first, and every step keeps the invariant.
THEOREM DesktopInvariant == DesktopSpec => []DesktopInv
<1>1. DesktopInit => DesktopInv
  <2> SUFFICES ASSUME DesktopInit PROVE DesktopInv
    OBVIOUS
  <2>1. DesktopTypeOK
    BY DesktopAssumption DEF DesktopInit, DesktopTypeOK, ProcessStates
  <2>2. OneAtATime /\ LeftBehind
    BY DEF DesktopInit, OneAtATime, LeftBehind, Running
  <2> QED
    BY <2>1, <2>2 DEF DesktopInv
<1>2. DesktopInv /\ [DesktopNext]_desktopVars => DesktopInv'
  <2> SUFFICES ASSUME DesktopInv, [DesktopNext]_desktopVars PROVE DesktopInv'
    OBVIOUS
  <2>1. CASE AppReady
    BY <2>1, EnsureKeepsInv DEF AppReady, Wait, Waiters
  <2>2. ASSUME NEW r \in Requests, BridgeRequest(r)
        PROVE  DesktopInv'
    <3>1. UNCHANGED <<child, process, app, late>>
      BY <2>2 DEF BridgeRequest
    <3>2. CASE Ensure(r)
      BY <3>1, <3>2, EnsureKeepsInv DEF Waiters
    <3>3. CASE UNCHANGED <<startupPromise, starts, started>>
      BY <3>1, <3>3 DEF DesktopInv, DesktopTypeOK, OneAtATime, LeftBehind
    <3> QED
      BY <2>2, <3>2, <3>3 DEF BridgeRequest, Wait
  <2>3. ASSUME NEW s \in Children,
               Spawn(s) \/ Boot(s) \/ Crash(s) \/ Terminate(s) \/ ChildEvent(s)
        PROVE  DesktopInv'
    BY <2>3, SpawnKeepsInv, ChildKeepsInv, EventKeepsInv
  <2>4. CASE Quit
    BY <2>4, QuitKeepsInv
  <2>5. CASE Activate
    BY <2>5 DEF Activate, DesktopInv, DesktopTypeOK, OneAtATime, LeftBehind
  <2>6. CASE Exit
    BY <2>6 DEF Exit, DesktopInv, DesktopTypeOK, OneAtATime, LeftBehind
  <2>7. ASSUME NEW w \in Waiters, PollAnswered(w) \/ PollTimesOut(w)
        PROVE  DesktopInv'
    <3>1. UNCHANGED <<child, startupPromise, starts, started, process, app, late>>
      BY <2>7 DEF PollAnswered, PollTimesOut
    <3> QED
      BY <3>1 DEF DesktopInv, DesktopTypeOK, OneAtATime, LeftBehind
  <2>8. ASSUME NEW r \in Requests, Operate(r)
        PROVE  DesktopInv'
    BY <2>8 DEF Operate, DesktopInv, DesktopTypeOK, OneAtATime, LeftBehind
  <2>9. CASE UNCHANGED desktopVars
    BY <2>9 DEF desktopVars, DesktopInv, DesktopTypeOK, OneAtATime, LeftBehind
  <2> QED
    BY <2>1, <2>2, <2>3, <2>4, <2>5, <2>6, <2>7, <2>8, <2>9 DEF DesktopNext
<1> QED
  BY <1>1, <1>2, PTL DEF DesktopSpec

\* However many requests ask for the backend, while it starts, after it died or
\* after it was refused, no second one runs beside it
\* (ensureFastApiProcessStarted).
THEOREM OneBackend == DesktopSpec => []AtMostOneBackend
<1>1. DesktopInv => AtMostOneBackend
  <2> SUFFICES ASSUME DesktopInv, app = "running"
               PROVE  Cardinality({c \in Children : process[c] \in Running}) <= 1
    BY DEF AtMostOneBackend
  <2>1. {c \in Children : process[c] \in Running} \subseteq {child}
    BY DEF DesktopInv, OneAtATime
  <2>2. IsFiniteSet({child}) /\ Cardinality({child}) = 1
    BY FS_Singleton
  <2>3. /\ IsFiniteSet({c \in Children : process[c] \in Running})
        /\ Cardinality({c \in Children : process[c] \in Running}) <= Cardinality({child})
    BY <2>1, <2>2, FS_Subset
  <2> QED
    BY <2>2, <2>3
<1> QED
  BY <1>1, DesktopInvariant, PTL

\* Whatever was being started, polled or restarted when the application quit,
\* it leaves no backend behind but one it spawned afterwards
\* (stopFastApiProcess).
THEOREM QuitLeavesNone == DesktopSpec => []QuitStopsTheBackend
<1>1. DesktopInv => QuitStopsTheBackend
  BY DEF DesktopInv, LeftBehind, QuitStopsTheBackend
<1> QED
  BY <1>1, DesktopInvariant, PTL

-----------------------------------------------------------------------------
ProxyTypeOK ==
  /\ minted \in 0 .. MaxMinted
  /\ clock \in Nat
  /\ upstream \in [Fetches -> Nat]
  /\ used \in [1 .. MaxMinted -> Nat]
  /\ entries \in [Known -> Nat]
  /\ Known \subseteq 1 .. minted

\* A playlist's registrations leave one entry more than maxEntries, never more.
RegistryIsBounded ==
  IsFiniteSet(Known) /\ Cardinality(Known) <= MaxEntries + 1

\* The registry holds what was minted, at the time it was last used, and what
\* the promise keeps.
ProxyInv ==
  /\ ProxyTypeOK
  /\ \A t \in Known : entries[t] = used[t]
  /\ RecentTokensResolve
  /\ RegistryIsBounded

\* A token stays while fewer than n newer ones are there: no token minted later
\* than those that are counted pushes it out.
LEMMA NewestKeeps ==
  ASSUME NEW last \in Nat, NEW tokens, tokens \subseteq 1 .. last, NEW n \in Nat,
         NEW t \in tokens, last - t < n
  PROVE  t \in Newest(tokens, n)
<1> DEFINE newer == {u \in tokens : u > t}
<1>1. newer \subseteq t + 1 .. last
  <2> SUFFICES ASSUME NEW u \in tokens, u > t
               PROVE  u \in t + 1 .. last
    OBVIOUS
  <2>1. t \in 1 .. last /\ u \in 1 .. last
    OBVIOUS
  <2> QED
    BY <2>1
<1>2. /\ IsFiniteSet(t + 1 .. last)
      /\ Cardinality(t + 1 .. last) = IF t + 1 > last THEN 0 ELSE last - (t + 1) + 1
  BY FS_Interval
<1>3. /\ Cardinality(newer) <= Cardinality(t + 1 .. last)
      /\ IsFiniteSet(newer)
  BY <1>1, <1>2, FS_Subset
<1>4. Cardinality(newer) \in Nat
  BY <1>3, FS_CardinalityType
<1>5. Cardinality(newer) < n
  <2>1. t \in Nat /\ t <= last
    OBVIOUS
  <2> HIDE DEF newer
  <2> QED
    BY <1>2, <1>3, <1>4, <2>1
<1> QED
  BY <1>5 DEF Newest

\* No more than n tokens are the n newest.
LEMMA NewestAreFew ==
  ASSUME NEW last \in Nat, NEW tokens, tokens \subseteq 1 .. last, NEW n \in Nat \ {0}
  PROVE  /\ IsFiniteSet(Newest(tokens, n))
         /\ Cardinality(Newest(tokens, n)) <= n
<1> DEFINE kept == Newest(tokens, n)
<1>1. kept \subseteq tokens /\ kept \subseteq 1 .. last
  BY DEF Newest
<1>2. IsFiniteSet(1 .. last)
  BY FS_Interval
<1>3. IsFiniteSet(kept)
  BY <1>1, <1>2, FS_Subset
<1>4. CASE kept = {}
  BY <1>3, <1>4, FS_EmptySet
<1>5. CASE kept # {}
  <2>1. \E t \in kept : \A u \in kept : t <= u
    <3>1. kept \subseteq Nat
      BY <1>1
    <3> HIDE DEF kept
    <3> QED
      BY <1>5, <3>1, LeastNumber
  <2>2. PICK t \in kept : \A u \in kept : t <= u
    BY <2>1
  <2> DEFINE newer == {u \in tokens : u > t}
  <2>3. Cardinality(newer) < n
    BY <2>2 DEF Newest
  <2>4. IsFiniteSet(newer)
    BY <1>2, FS_Subset
  <2>5. kept \ {t} \subseteq newer
    <3>1. t \in Nat /\ \A u \in kept : u \in Nat
      BY <1>1
    <3> QED
      BY <1>1, <2>2, <3>1
  <2>6. /\ Cardinality(kept \ {t}) <= Cardinality(newer)
        /\ Cardinality(kept) = Cardinality(kept \ {t}) + 1
        /\ IsFiniteSet(kept \ {t})
    <3>1. /\ IsFiniteSet(kept \ {t})
          /\ Cardinality(kept \ {t}) = Cardinality(kept) - 1
      <4> HIDE DEF kept, newer
      <4> QED
        BY <1>3, <2>2, FS_RemoveElement
    <3>2. Cardinality(kept \ {t}) <= Cardinality(newer)
      BY <2>4, <2>5, FS_Subset
    <3>3. Cardinality(kept) \in Nat
      BY <1>3, FS_CardinalityType
    <3> QED
      BY <3>1, <3>2, <3>3
  <2>7. /\ Cardinality(kept \ {t}) \in Nat /\ Cardinality(newer) \in Nat
    BY <2>4, <2>6, FS_CardinalityType
  <2> HIDE DEF newer, kept
  <2> QED
    BY <1>3, <2>3, <2>6, <2>7 DEF kept
<1> QED
  BY <1>4, <1>5

\* A token minted after all others is always among the newest, and takes one
\* place of them.
LEMMA NewestWithLast ==
  ASSUME NEW last \in Nat, NEW tokens, tokens \subseteq 1 .. last, NEW n \in Nat
  PROVE  Newest(tokens \cup {last + 1}, n + 1) = Newest(tokens, n) \cup {last + 1}
<1> DEFINE more == tokens \cup {last + 1}
           newer(t) == {u \in tokens : u > t}
           newerOf(t) == {u \in more : u > t}
<1>1. last + 1 \notin tokens /\ \A t \in tokens : t \in Nat /\ t < last + 1
  OBVIOUS
<1>2. ASSUME NEW t \in tokens
      PROVE  Cardinality(newerOf(t)) < n + 1 <=> Cardinality(newer(t)) < n
  <2>1. newerOf(t) = newer(t) \cup {last + 1}
    BY <1>1
  <2>2. IsFiniteSet(newer(t))
    <3>1. newer(t) \subseteq 1 .. last
      OBVIOUS
    <3>2. IsFiniteSet(1 .. last)
      BY FS_Interval
    <3> HIDE DEF newer
    <3> QED
      BY <3>1, <3>2, FS_Subset
  <2>3. last + 1 \notin newer(t)
    BY <1>1
  <2> HIDE DEF newer, newerOf
  <2>4. Cardinality(newerOf(t)) = Cardinality(newer(t)) + 1
    BY <2>1, <2>2, <2>3, FS_AddElement
  <2>5. Cardinality(newer(t)) \in Nat
    BY <2>2, FS_CardinalityType
  <2> QED
    BY <2>4, <2>5
<1>3. Cardinality(newerOf(last + 1)) < n + 1
  <2>1. \A u \in more : ~(u > last + 1)
    <3>1. \A u \in tokens : u \in Nat /\ u < last + 1
      BY <1>1
    <3> QED
      BY <3>1
  <2>2. newerOf(last + 1) = {}
    BY <2>1
  <2> HIDE DEF newerOf
  <2> QED
    BY <2>2, FS_EmptySet
<1>4. Newest(more, n + 1) = {t \in more : Cardinality(newerOf(t)) < n + 1}
  BY DEF Newest
<1>5. Newest(tokens, n) = {t \in tokens : Cardinality(newer(t)) < n}
  BY DEF Newest
<1> HIDE DEF newer, newerOf
<1> QED
  BY <1>2, <1>3, <1>4, <1>5

\* To keep n is to keep one more first.
LEMMA NewestOfNewest ==
  ASSUME NEW last \in Nat, NEW tokens, tokens \subseteq 1 .. last, NEW n \in Nat
  PROVE  Newest(Newest(tokens, n + 1), n) = Newest(tokens, n)
<1> DEFINE kept == Newest(tokens, n + 1)
           newer(t) == {u \in tokens : u > t}
           newerKept(t) == {u \in kept : u > t}
<1>1. /\ kept = {t \in tokens : Cardinality(newer(t)) < n + 1}
      /\ Newest(tokens, n) = {t \in tokens : Cardinality(newer(t)) < n}
      /\ Newest(kept, n) = {t \in kept : Cardinality(newerKept(t)) < n}
  BY DEF Newest
<1>2. ASSUME NEW t \in tokens
      PROVE  /\ IsFiniteSet(newer(t)) /\ Cardinality(newer(t)) \in Nat
             /\ \A u \in tokens : u > t => newer(u) \subseteq newer(t)
  <2>1. newer(t) \subseteq 1 .. last
    OBVIOUS
  <2>2. IsFiniteSet(newer(t))
    <3>1. IsFiniteSet(1 .. last)
      BY FS_Interval
    <3> HIDE DEF newer
    <3> QED
      BY <2>1, <3>1, FS_Subset
  <2>3. \A u \in tokens : u > t => newer(u) \subseteq newer(t)
    <3> SUFFICES ASSUME NEW u \in tokens, u > t, NEW v \in tokens, v > u
                 PROVE  v > t
      OBVIOUS
    <3>1. t \in 1 .. last /\ u \in 1 .. last /\ v \in 1 .. last
      OBVIOUS
    <3> QED
      BY <3>1
  <2>4. Cardinality(newer(t)) \in Nat
    BY <2>2, FS_CardinalityType
  <2> QED
    BY <2>2, <2>3, <2>4
<1>3. ASSUME NEW t \in kept
      PROVE  newerKept(t) = newer(t)
  <2>1. t \in tokens /\ Cardinality(newer(t)) < n + 1
    BY <1>1
  <2>2. ASSUME NEW u \in newer(t)
        PROVE  u \in kept
    <3>1. u \in tokens /\ u > t
      OBVIOUS
    <3> HIDE DEF newer, kept
    <3>2. newer(u) \subseteq newer(t)
      BY <1>2, <2>1, <3>1
    <3>3. Cardinality(newer(u)) <= Cardinality(newer(t))
      BY <1>2, <2>1, <3>2, FS_Subset
    <3>4. Cardinality(newer(u)) \in Nat /\ Cardinality(newer(t)) \in Nat
      BY <1>2, <2>1, <3>1
    <3>5. Cardinality(newer(u)) < n + 1
      BY <2>1, <3>3, <3>4
    <3> QED
      BY <1>1, <3>1, <3>5
  <2>3. kept \subseteq tokens
    BY <1>1
  <2> QED
    BY <2>2, <2>3
<1>4. \A t \in tokens : Cardinality(newer(t)) < n => Cardinality(newer(t)) < n + 1
  <2> HIDE DEF newer
  <2> QED
    BY <1>2
<1>5. Newest(kept, n) = {t \in tokens : Cardinality(newer(t)) < n}
  <2> HIDE DEF newer, newerKept, kept
  <2>1. Newest(kept, n) = {t \in kept : Cardinality(newer(t)) < n}
    BY <1>1, <1>3
  <2> QED
    BY <1>1, <1>4, <2>1
<1> QED
  BY <1>1, <1>5

\* Registering the URIs of a playlist at once is registering them one after
\* the other: each further one is a further register (rewriteHlsManifest calls
\* it line by line).
THEOREM RegisterAllIsRepeated ==
  ASSUME NEW last \in Nat, NEW tokens, tokens \subseteq 1 .. last,
         NEW es \in [tokens -> Nat], NEW n \in Nat, NEW time \in Nat
  PROVE  /\ RegisterAll(es, last, 0, time) = es
         /\ RegisterAll(es, last, n + 1, time)
              = Register(RegisterAll(es, last, n, time), last + n + 1, time)
<1> DEFINE fresh == Fresh(es, time)
           new == last + 1 .. last + n
           next == last + n + 1
           now == RegisterAll(es, last, n, time)
           all == fresh \cup new
<1>1. MaxEntries \in Nat /\ MaxAge \in Nat
  BY ProxyAssumption
<1>2. /\ fresh \subseteq tokens /\ fresh \subseteq 1 .. last
      /\ \A t \in fresh : es[t] >= time - MaxAge
  BY DEF Fresh
<1>3. all \subseteq 1 .. last + n
  BY <1>2
<1>4. last + 1 .. last + (n + 1) = new \cup {next}
  OBVIOUS
<1>5. RegisterAll(es, last, 0, time) = es
  BY DEF RegisterAll
<1>6. RegisterAll(es, last, n + 1, time)
        = [t \in Newest(all \cup {next}, MaxEntries + 1) |->
             IF t \in new \cup {next} THEN time ELSE es[t]]
  <2>1. fresh \cup (last + 1 .. last + (n + 1)) = all \cup {next}
    BY <1>4
  <2> HIDE DEF fresh, new, next, all
  <2> QED
    BY <1>4, <2>1 DEF RegisterAll, fresh
<1>7. Newest(all \cup {next}, MaxEntries + 1) = Newest(all, MaxEntries) \cup {next}
  <2>1. last + n \in Nat
    OBVIOUS
  <2> HIDE DEF all
  <2> QED
    BY <1>1, <1>3, <2>1, NewestWithLast
\* What is pruned of the entries so far, and how old the others are.
<1>8. /\ Newest(Fresh(now, time), MaxEntries) = Newest(all, MaxEntries)
      /\ \A t \in Newest(all, MaxEntries) : now[t] = IF t \in new THEN time ELSE es[t]
  <2>1. CASE n = 0
    <3>1. now = es /\ new = {} /\ all = fresh
      BY <1>5, <2>1
    <3> QED
      BY <3>1
  <2>2. CASE n # 0
    <3>1. now = [t \in Newest(all, MaxEntries + 1) |-> IF t \in new THEN time ELSE es[t]]
      BY <2>2 DEF RegisterAll
    <3>2. Newest(all, MaxEntries + 1) \subseteq all
      BY DEF Newest
    <3>3. \A t \in DOMAIN now : now[t] >= time - MaxAge
      <4> SUFFICES ASSUME NEW t \in Newest(all, MaxEntries + 1)
                   PROVE  now[t] >= time - MaxAge
        BY <3>1
      <4>1. CASE t \in new
        BY <1>1, <3>1, <4>1
      <4>2. CASE t \notin new
        <5>1. t \in fresh
          BY <3>2, <4>2
        <5> HIDE DEF fresh, new, all, now
        <5> QED
          BY <1>2, <3>1, <4>2, <5>1
      <4> QED
        BY <4>1, <4>2
    <3>4. Fresh(now, time) = Newest(all, MaxEntries + 1)
      BY <3>1, <3>3 DEF Fresh
    <3>5. Newest(Newest(all, MaxEntries + 1), MaxEntries) = Newest(all, MaxEntries)
      <4>1. last + n \in Nat
        OBVIOUS
      <4> HIDE DEF all
      <4> QED
        BY <1>1, <1>3, <4>1, NewestOfNewest
    <3>6. Newest(all, MaxEntries) \subseteq Newest(all, MaxEntries + 1)
      BY <3>5 DEF Newest
    <3> HIDE DEF now, all, new
    <3> QED
      BY <3>1, <3>4, <3>5, <3>6
  <2> QED
    BY <2>1, <2>2
<1>9. Register(now, next, time)
        = [t \in Newest(all, MaxEntries) \cup {next} |-> IF t = next THEN time ELSE now[t]]
  <2>1. DOMAIN Prune(now, time) = Newest(Fresh(now, time), MaxEntries)
    BY DEF Prune, Restrict
  <2> HIDE DEF now, all, next
  <2> QED
    BY <1>8, <2>1 DEF Register
<1>10. ASSUME NEW t \in Newest(all, MaxEntries) \cup {next}
       PROVE  (IF t \in new \cup {next} THEN time ELSE es[t])
                = (IF t = next THEN time ELSE now[t])
  <2> HIDE DEF now, all, next, new
  <2> QED
    BY <1>8
<1> HIDE DEF now, all, next, new
<1> QED
  BY <1>5, <1>6, <1>7, <1>9, <1>10 DEF now, next

\* The URIs of a playlist push out no token that is recent.
LEMMA RegisterUrisKeepsInv ==
  ASSUME ProxyInv, NEW n \in Nat, RegisterUris(n), UNCHANGED clock,
         upstream' \in [Fetches -> Nat]
  PROVE  ProxyInv'
<1> DEFINE new == minted + 1 .. minted + n
           all == Fresh(entries, clock) \cup new
<1>1. /\ minted \in Nat /\ minted' = minted + n /\ minted' \in 0 .. MaxMinted
      /\ clock \in Nat /\ MaxEntries \in Nat \ {0} /\ MaxAge \in Nat /\ MaxMinted \in Nat
      /\ used \in [1 .. MaxMinted -> Nat]
      /\ used' = [t \in 1 .. MaxMinted |-> IF t \in new THEN clock ELSE used[t]]
  BY ProxyAssumption DEF ProxyInv, ProxyTypeOK, RegisterUris
<1>2. CASE n = 0
  <2>1. entries' = entries /\ minted' = minted /\ used' = used
    BY <1>1, <1>2 DEF RegisterUris, RegisterAll
  <2> QED
    BY <2>1 DEF ProxyInv, ProxyTypeOK, Known, RecentTokensResolve, RegistryIsBounded
<1>3. CASE n # 0
  <2>1. entries' = [t \in Newest(all, MaxEntries + 1) |->
                      IF t \in new THEN clock ELSE entries[t]]
    BY <1>3 DEF RegisterUris, RegisterAll
  <2>2. all \subseteq 1 .. minted'
    <3>1. Fresh(entries, clock) \subseteq 1 .. minted
      BY DEF ProxyInv, ProxyTypeOK, Known, Fresh
    <3>2. 1 .. minted \subseteq 1 .. minted' /\ new \subseteq 1 .. minted'
      BY <1>1
    <3> QED
      BY <3>1, <3>2
  <2>3. Known' = Newest(all, MaxEntries + 1) /\ Known' \subseteq all
    BY <2>1 DEF Known, Newest
  <2>4. \A t \in Known' : entries'[t] = used'[t] /\ entries'[t] \in Nat
    <3> SUFFICES ASSUME NEW t \in Known'
                 PROVE  entries'[t] = used'[t] /\ entries'[t] \in Nat
      OBVIOUS
    <3>1. t \in 1 .. MaxMinted
      <4>1. t \in 1 .. minted'
        BY <2>2, <2>3
      <4> QED
        BY <1>1, <4>1
    <3>2. CASE t \in new
      BY <1>1, <2>1, <2>3, <3>1, <3>2
    <3>3. CASE t \notin new
      <4>1. t \in Known
        BY <2>3, <3>3 DEF Fresh, Known
      <4> QED
        BY <1>1, <2>1, <2>3, <3>1, <3>3, <4>1 DEF ProxyInv, ProxyTypeOK
    <3> QED
      BY <3>2, <3>3
  <2>5. RecentTokensResolve'
    <3> SUFFICES ASSUME NEW t \in 1 .. minted', minted' - t <= MaxEntries,
                        used'[t] >= clock - MaxAge
                 PROVE  t \in Known'
      BY <1>1 DEF RecentTokensResolve
    <3>1. t \in all
      <4>1. CASE t \in new
        BY <4>1
      <4>2. CASE t \notin new
        <5>1. t \in 1 .. minted /\ minted - t <= MaxEntries /\ used[t] >= clock - MaxAge
          BY <1>1, <4>2
        <5>2. t \in Known /\ entries[t] = used[t]
          BY <5>1 DEF ProxyInv, RecentTokensResolve
        <5> QED
          BY <5>1, <5>2 DEF Fresh, Known
      <4> QED
        BY <4>1, <4>2
    <3>2. minted' - t < MaxEntries + 1 /\ MaxEntries + 1 \in Nat /\ minted' \in Nat
      BY <1>1
    <3> HIDE DEF all
    <3>3. t \in Newest(all, MaxEntries + 1)
      BY <2>2, <3>1, <3>2, NewestKeeps
    <3> QED
      BY <2>3, <3>3
  <2>6. RegistryIsBounded'
    <3>1. minted' \in Nat /\ MaxEntries + 1 \in Nat \ {0}
      BY <1>1
    <3> HIDE DEF all
    <3> QED
      BY <2>2, <2>3, <3>1, NewestAreFew DEF RegistryIsBounded
  <2>7. entries' \in [Known' -> Nat] /\ used' \in [1 .. MaxMinted -> Nat]
    BY <1>1, <2>1, <2>3, <2>4
  <2> QED
    BY <1>1, <2>2, <2>3, <2>4, <2>5, <2>6, <2>7 DEF ProxyInv, ProxyTypeOK
<1> QED
  BY <1>2, <1>3

\* A request for a proxied URL makes its token recent.
LEMMA ProxyRequestKeepsInv ==
  ASSUME ProxyInv, NEW f \in Fetches, NEW token \in 0 .. minted, ProxyRequest(f, token)
  PROVE  ProxyInv'
<1>1. CASE token \in Known
  <2>1. /\ entries' = [entries EXCEPT ![token] = clock]
        /\ used' = [used EXCEPT ![token] = clock]
        /\ upstream' = [upstream EXCEPT ![f] = token]
        /\ UNCHANGED <<minted, clock>>
    BY <1>1 DEF ProxyRequest, Refresh
  <2>2. Known' = Known /\ ProxyTypeOK' /\ RegistryIsBounded'
    BY <1>1, <2>1, ProxyAssumption DEF ProxyInv, ProxyTypeOK, Known, RegistryIsBounded
  <2>3. \A t \in Known' : entries'[t] = used'[t]
    BY <1>1, <2>1, <2>2, ProxyAssumption DEF ProxyInv, ProxyTypeOK, Known
  <2>4. RecentTokensResolve'
    BY <1>1, <2>1, <2>2, ProxyAssumption
       DEF ProxyInv, ProxyTypeOK, RecentTokensResolve
  <2> QED
    BY <2>2, <2>3, <2>4 DEF ProxyInv
<1>2. CASE token \notin Known
  BY <1>2 DEF ProxyRequest, ProxyInv, ProxyTypeOK, Known, RecentTokensResolve, RegistryIsBounded
<1> QED
  BY <1>1, <1>2

\* The registry's invariant holds whatever is registered, fetched or asked for.
THEOREM ProxyInvariant == ProxySpec => []ProxyInv
<1>1. ProxyInit => ProxyInv
  BY ProxyAssumption, FS_EmptySet DEF ProxyInit, ProxyInv, ProxyTypeOK, Known, RecentTokensResolve, RegistryIsBounded
<1>2. ProxyInv /\ [ProxyNext]_proxyVars => ProxyInv'
  <2> SUFFICES ASSUME ProxyInv, [ProxyNext]_proxyVars
               PROVE  ProxyInv'
    OBVIOUS
  <2>1. ASSUME UNCHANGED <<entries, minted, clock, upstream, used>>
        PROVE  ProxyInv'
    BY <2>1 DEF ProxyInv, ProxyTypeOK, Known, RecentTokensResolve, RegistryIsBounded
  <2>2. CASE ClockPasses
    <3>1. /\ clock \in Nat /\ clock' = clock + 1 /\ MaxAge \in Nat
          /\ UNCHANGED <<entries, minted, upstream, used>>
      BY <2>2, ProxyAssumption DEF ClockPasses, ProxyInv, ProxyTypeOK
    <3>2. RecentTokensResolve'
      <4>1. \A t \in 1 .. minted : used[t] \in Nat
        BY ProxyAssumption DEF ProxyInv, ProxyTypeOK
      <4> QED
        BY <3>1, <4>1 DEF ProxyInv, Known, RecentTokensResolve, RegistryIsBounded
    <3> QED
      BY <3>1, <3>2 DEF ProxyInv, ProxyTypeOK, Known, RegistryIsBounded
  <2>3. ASSUME NEW asked, RendererSource(asked)
        PROVE  ProxyInv'
    <3>1. CASE asked = "remotePlaylist"
      <4>1. RegisterUris(1) /\ UNCHANGED <<clock, upstream>>
        BY <2>3, <3>1 DEF RendererSource
      <4> QED
        BY <4>1, RegisterUrisKeepsInv DEF ProxyInv, ProxyTypeOK
    <3>2. CASE asked # "remotePlaylist"
      BY <2>1, <2>3, <3>2 DEF RendererSource
    <3> QED
      BY <3>1, <3>2
  <2>4. ASSUME NEW why, RefusedRequest(why)
        PROVE  ProxyInv'
    BY <2>1, <2>4 DEF RefusedRequest
  <2>5. ASSUME NEW f \in Fetches, UpstreamAnswers(f)
        PROVE  ProxyInv'
    <3> DEFINE Settled == [upstream EXCEPT ![f] = 0]
    <3>1. upstream' = Settled /\ Settled \in [Fetches -> Nat] /\ clock' = clock
      BY <2>5 DEF UpstreamAnswers, ProxyInv, ProxyTypeOK
    <3>2. ASSUME NEW n \in Uris, RegisterUris(n)
          PROVE  ProxyInv'
      BY <3>1, <3>2, RegisterUrisKeepsInv, ProxyAssumption
    <3>3. CASE UNCHANGED <<entries, minted, used>>
      BY <3>1, <3>3 DEF ProxyInv, ProxyTypeOK, Known, RecentTokensResolve, RegistryIsBounded
    <3> QED
      BY <2>5, <3>2, <3>3 DEF UpstreamAnswers
  <2>6. ASSUME NEW kind, NEW range, NEW size, LocalRequest(kind, range, size)
        PROVE  ProxyInv'
    BY <2>1, <2>6 DEF LocalRequest
  <2>7. CASE UNCHANGED proxyVars
    BY <2>1, <2>7 DEF proxyVars
  <2> QED
    BY <2>2, <2>3, <2>4, <2>5, <2>6, <2>7, ProxyRequestKeepsInv DEF ProxyNext
<1> QED
  BY <1>1, <1>2, PTL DEF ProxySpec

\* For every size and age of the registry, every playlist and every order of
\* requests: a recent token resolves while no more than maxEntries newer ones
\* were minted (createRemoteHlsProxyRegistry).
THEOREM RecentTokensAlwaysResolve == ProxySpec => []RecentTokensResolve
<1>1. ProxyInv => RecentTokensResolve
  BY DEF ProxyInv
<1> QED
  BY <1>1, ProxyInvariant, PTL

\* The registry does not grow with the playlists that are rewritten (prune).
THEOREM RegistryStaysBounded == ProxySpec => []RegistryIsBounded
<1>1. ProxyInv => RegistryIsBounded
  BY DEF ProxyInv
<1> QED
  BY <1>1, ProxyInvariant, PTL

-----------------------------------------------------------------------------
\* What the isCancelled flag relies on: only the last run of the effect can
\* still set the media, and its source is the one that was rendered last.
PlaybackInv ==
  /\ runs \in Nat
  /\ ~mounted => media = NoMedia /\ flights = {}
  /\ \A f \in flights :
       /\ f.run \in Nat /\ f.run <= runs
       /\ f.run = runs => f.source = rendered.source
  /\ (mounted /\ rendered.source.kind # "video_segments")
       => media \in {NoMedia, rendered.source}

\* A run of the effects makes a run of the first one the last, whose source is
\* the rendered one, or leaves source, media and runs as they are.
LEMMA EffectsKeepInv ==
  ASSUME PlaybackInv, Effects
  PROVE  PlaybackInv'
<1> DEFINE resolve == ~mounted \/ rendered.source # source \/ rendered.requested # requested
           flight  == [run |-> runs + 1, source |-> source, requested |-> requested]
<1>1. /\ runs' = IF resolve THEN runs + 1 ELSE runs
      /\ flights' = IF resolve THEN flights \cup {flight} ELSE flights
      /\ media' = IF resolve /\ source.kind # "video_segments" THEN NoMedia ELSE media
      /\ mounted' = TRUE
      /\ rendered'.source = source
  BY DEF Effects, Rendering
<1>2. CASE resolve
  <2>1. \A f \in flights' :
          /\ f.run \in Nat /\ f.run <= runs'
          /\ f.run = runs' => f.source = source
    BY <1>1, <1>2 DEF PlaybackInv
  <2> QED
    BY <1>1, <1>2, <2>1 DEF PlaybackInv
<1>3. CASE ~resolve
  BY <1>1, <1>3 DEF PlaybackInv
<1> QED
  BY <1>2, <1>3

\* A reply that is not cancelled belongs to the last run.
LEMMA ReplyKeepsInv ==
  ASSUME PlaybackInv, NEW flight \in flights, NEW found \in {"source", "none", "fails"},
         Reply(flight, found)
  PROVE  PlaybackInv'
<1>1. /\ flights' = flights \ {flight}
      /\ UNCHANGED <<runs, mounted, rendered>>
      /\ mounted
  BY DEF Reply, PlaybackInv
<1>2. media' \in {media, NoMedia, rendered.source}
  <2>1. CASE Cancelled(flight)
    BY <2>1 DEF Reply
  <2>2. CASE ~Cancelled(flight) /\ found = "source"
    BY <2>2 DEF Reply, Cancelled, PlaybackInv
  <2>3. CASE ~Cancelled(flight) /\ found # "source"
    BY <2>3 DEF Reply
  <2> QED
    BY <2>1, <2>2, <2>3
<1> QED
  BY <1>1, <1>2 DEF PlaybackInv

\* Nothing is shown at first, and every step keeps the invariant.
THEOREM PlaybackInvariant == PlaybackSpec => []PlaybackInv
<1>1. PlaybackInit => PlaybackInv
  BY DEF PlaybackInit, PlaybackInv
<1>2. PlaybackInv /\ [PlaybackNext]_playbackVars => PlaybackInv'
  <2> SUFFICES ASSUME PlaybackInv, [PlaybackNext]_playbackVars
               PROVE  PlaybackInv'
    OBVIOUS
  <2>1. CASE Effects
    BY <2>1, EffectsKeepInv
  <2>2. ASSUME NEW f \in flights, NEW found \in {"source", "none", "fails"},
               Reply(f, found)
        PROVE  PlaybackInv'
    BY <2>2, ReplyKeepsInv
  <2>3. ASSUME NEW s \in Sources, Select(s)
        PROVE  PlaybackInv'
    BY <2>3 DEF Select, PlaybackInv
  <2>4. CASE Toggle \/ Play \/ PlaySettles \/ MediaError
    BY <2>4 DEF Toggle, Play, PlaySettles, MediaError, PlaybackInv
  <2>5. CASE UNCHANGED playbackVars
    BY <2>5 DEF playbackVars, PlaybackInv
  <2> QED
    BY <2>1, <2>2, <2>3, <2>4, <2>5 DEF PlaybackNext
<1> QED
  BY <1>1, <1>2, PTL DEF PlaybackSpec

\* However the replies overtake each other, the player shows nothing or the
\* media of the selected source once its effects ran (usePlaybackSource).
THEOREM NoStaleMedia == PlaybackSpec => []MediaIsOfSource
<1>1. PlaybackInv => MediaIsOfSource
  BY DEF PlaybackInv, MediaIsOfSource
<1> QED
  BY <1>1, PlaybackInvariant, PTL

=============================================================================

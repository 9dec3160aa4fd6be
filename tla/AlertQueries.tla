----------------------------- MODULE AlertQueries -----------------------------
(***************************************************************************)
(* The alert reads shared by the HTTP routes and the MCP tools: a client   *)
(* fetches the raw alerts or the incident timeline of one session page by  *)
(* page, and the summary in between, while the worker appends to the alert *)
(* log.                                                                    *)
(*                                                                         *)
(* An alert is what it is about (detector, severity and title in one) and  *)
(* the wall clock when its row was made.  Every read starts again from the *)
(* log.  MaxAlerts bounds the log, MaxClock the clock.                     *)
(*                                                                         *)
(* Name_Fault is the definition Name with one plausible mistake in it.     *)
(***************************************************************************)
EXTENDS Integers, SequencesExt, FiniteSetsExt

CONSTANTS Topics, Gap, QueryRows, Queries, MaxAlerts, MaxClock

\* What a client asks for: the route, the door (HTTP or MCP), the topic, both
\* time bounds and the page limit.  A bound or topic it leaves out is one that
\* every alert satisfies.
QueryType ==
  [route : {"alerts", "timeline"}, door : {"http", "mcp"}, topic : Topics \cup {"any"},
   from : 0 .. MaxClock, to : 0 .. MaxClock, limit : Nat \ {0}]

ASSUME QueriesAssumption ==
  /\ Gap \in Nat /\ QueryRows \in Nat \ {0}
  /\ MaxAlerts \in Nat /\ MaxClock \in Nat
  /\ Queries \subseteq QueryType

VARIABLES
  known,      \* whether the session has metadata
  log,        \* the alert log; a torn last line is not an alert
  alive,      \* whether the worker is
  wallClock,  \* the wall clock, which may be set back
  setBack,    \* whether it was
  query,      \* what the client reads
  got,        \* the items of its pages, one after the other
  summary,    \* the last summary it read, and how many items it had by then
  answer      \* how its last read ended

queryVars ==
  <<known, log, alive, wallClock, setBack, query, got, summary, answer>>

Torn == [topic |-> "torn", at |-> 0]
NoQuery == [route |-> "none"]
NoSummary == [paged |-> 0, first |-> 0, last |-> 0, counts |-> [t \in Topics |-> 0]]

QueriesInit ==
  /\ known = FALSE
  /\ log = <<>>
  /\ alive = TRUE
  /\ wallClock = 0
  /\ setBack = FALSE
  /\ query = NoQuery
  /\ got = <<>>
  /\ summary = NoSummary
  /\ answer = "none"

-----------------------------------------------------------------------------
\* The members of a finite set of numbers, the least first.
Ascending(S) ==
  CHOOSE s \in [1 .. Cardinality(S) -> S] :
    \A i, j \in DOMAIN s : i < j => s[i] < s[j]

\* The rows a read validates, each told by its place in the log.
Alerts(l) == {i \in DOMAIN l : l[i].topic # Torn.topic}
Alert(l, i) == [topic |-> l[i].topic, at |-> l[i].at, id |-> i]

\* Both time bounds are inclusive (_matches_alert_filters).
Matches(a, q) ==
  /\ q.topic \in {"any", a.topic}
  /\ q.from <= a.at /\ a.at <= q.to

\* The places of the alerts that match.
Kept(l, q) == Ascending({i \in Alerts(l) : Matches(l[i], q)})

\* The newest alerts first.
Filtered_Fault(l, q) ==
  LET kept == Reverse(Kept(l, q)) IN [k \in DOMAIN kept |-> Alert(l, kept[k])]

\* filter_session_alert_events: oldest first.
Filtered(l, q) ==
  LET kept == Kept(l, q) IN [k \in DOMAIN kept |-> Alert(l, kept[k])]

\* By time, and by place in the log among those of the same second.
Before(a, b) == a.at < b.at \/ (a.at = b.at /\ a.id < b.id)

InTimeOrder(alerts) ==
  CHOOSE s \in [DOMAIN alerts -> ToSet(alerts)] :
    \A i, j \in DOMAIN s : i < j => Before(s[i], s[j])

SameIncident(previous, current) ==
  previous.topic = current.topic /\ current.at - previous.at <= Gap

\* Where the groups begin: an alert is compared with the one before it, which
\* is the last of the group being built and may be about something else.
GroupStarts(sorted) ==
  Ascending({i \in DOMAIN sorted :
               i = 1 \/ ~SameIncident(sorted[i - 1], sorted[i])})

\* _group_alerts_into_incidents.
GroupIncidents(alerts) ==
  LET sorted == InTimeOrder(alerts)
      starts == GroupStarts(sorted)
      end(g) == IF g = Len(starts) THEN Len(sorted) ELSE starts[g + 1] - 1
  IN  [g \in DOMAIN starts |-> SubSeq(sorted, starts[g], end(g))]

\* One entry of the timeline.
Entry(group) ==
  [topic |-> group[1].topic, id |-> group[1].id,
   from |-> group[1].at, to |-> Last(group).at, count |-> Len(group)]

Timeline(l, q) ==
  LET groups == GroupIncidents(Filtered(l, q))
  IN  [i \in DOMAIN groups |-> Entry(groups[i])]

\* Either route: alerts as they are, or incidents.
Items(l, q) ==
  IF q.route = "timeline" THEN Timeline(l, q)
  ELSE LET alerts == Filtered(l, q) IN [i \in DOMAIN alerts |-> Entry(<<alerts[i]>>)]

CountsOf(items) ==
  [t \in Topics |-> Cardinality({i \in DOMAIN items : items[i].topic = t})]

\* The incident summary counts the alerts of each title.
Summarized_Fault(l, q) ==
  LET times == {a.at : a \in ToSet(Filtered(l, q))}
  IN  [first |-> IF times = {} THEN 0 ELSE Min(times),
       last |-> IF times = {} THEN 0 ELSE Max(times),
       counts |-> CountsOf(Filtered(l, q))]

\* build_alert_summary_payload and, for the timeline, the categories that
\* build_session_incident_summary puts on top.  Without an alert there are no
\* times.
Summarized(l, q) ==
  LET times == {a.at : a \in ToSet(Filtered(l, q))}
  IN  [first |-> IF times = {} THEN 0 ELSE Min(times),
       last |-> IF times = {} THEN 0 ELSE Max(times),
       counts |-> CountsOf(Items(l, q))]

\* paginate_read_items.
Page(items, limit, offset) ==
  SubSeq(items, offset + 1,
         IF offset + limit <= Len(items) THEN offset + limit ELSE Len(items))

\* How the two doors name what the service raises.
HttpRefusal ==
  [not_found |-> "SessionNotFoundError", limit |-> "AlertQueryLimitExceededError",
   range |-> "ValidationFailedError"]
ToolRefusal ==
  [not_found |-> "Session not found", limit |-> "limit message",
   range |-> "range message"]
Refusal(door, error) == IF door = "http" THEN HttpRefusal[error] ELSE ToolRefusal[error]

-----------------------------------------------------------------------------
\* initialize_pending_session writes the metadata before any alert.
Announce ==
  /\ ~known
  /\ known' = TRUE
  /\ UNCHANGED <<log, alive, wallClock, setBack, query, got, summary, answer>>

AppendAlert(topic) ==
  /\ known /\ alive
  /\ Len(log) < MaxAlerts
  /\ log' = Append(log, [topic |-> topic, at |-> wallClock])
  /\ UNCHANGED <<known, alive, wallClock, setBack, query, got, summary, answer>>

\* The worker is killed, perhaps in the middle of a line.
WriterDies ==
  /\ alive
  /\ alive' = FALSE
  /\ log' \in {log} \cup (IF known /\ Len(log) < MaxAlerts THEN {Append(log, Torn)} ELSE {})
  /\ UNCHANGED <<known, wallClock, setBack, query, got, summary, answer>>

ClockTicks ==
  /\ wallClock < MaxClock
  /\ wallClock' = wallClock + 1
  /\ UNCHANGED <<known, log, alive, setBack, query, got, summary, answer>>

ClockSetBack ==
  /\ wallClock > 0 /\ ~setBack
  /\ wallClock' = wallClock - 1
  /\ setBack' = TRUE
  /\ UNCHANGED <<known, log, alive, query, got, summary, answer>>

\* A client begins to read, through one of the HTTP routes or one of the tools.
Ask(q) ==
  /\ query = NoQuery
  /\ query' = q
  /\ UNCHANGED <<known, log, alive, wallClock, setBack, got, summary, answer>>

AskRoute(q) == q.door = "http" /\ Ask(q)
AskTool(q) == q.door = "mcp" /\ Ask(q)

\* Why a read is refused, if it is.  The store refuses before the range is
\* looked at, and counts the rows it has to read, whatever the filter keeps.
Refused ==
  CASE ~known -> "not_found"
    [] known /\ Len(log) > QueryRows -> "limit"
    [] known /\ Len(log) <= QueryRows /\ query.from > query.to -> "range"
    [] OTHER -> "none"

ReadPage ==
  /\ query # NoQuery
  /\ IF Refused = "none"
     THEN /\ got' = got \o Page(Items(log, query), query.limit, Len(got))
          /\ answer' = "page"
     ELSE /\ answer' = Refusal(query.door, Refused)
          /\ UNCHANGED got
  /\ UNCHANGED <<known, log, alive, wallClock, setBack, query, summary>>

\* The summary is refused like a page, but it is of all the items.
ReadSummary ==
  /\ query # NoQuery
  /\ IF Refused = "none"
     THEN /\ LET s == Summarized(log, query)
             IN  summary' = [paged |-> Len(got), first |-> s.first, last |-> s.last,
                             counts |-> s.counts]
          /\ answer' = "summary"
     ELSE /\ answer' = Refusal(query.door, Refused)
          /\ UNCHANGED summary
  /\ UNCHANGED <<known, log, alive, wallClock, setBack, query, got>>

QueriesNext ==
  \/ Announce
  \/ \E topic \in Topics : AppendAlert(topic)
  \/ WriterDies
  \/ ClockTicks
  \/ ClockSetBack
  \/ \E q \in Queries : AskRoute(q) \/ AskTool(q)
  \/ ReadPage \/ ReadSummary

QueriesSpec == QueriesInit /\ [][QueriesNext]_queryVars

-----------------------------------------------------------------------------
\* The pages of one client join up although the worker appends between them:
\* put together they are the beginning of what one read would return now, so
\* no alert and no incident is missed or seen twice ("one stable page",
\* get_session_alerts, get_session_alert_timeline).  The last incident of a
\* page may have grown since.  A clock that was set back sorts a new alert
\* into an incident the client has passed, so the timeline is stable only
\* without it.
PagesJoinUp ==
  (query # NoQuery /\ (query.route = "timeline" => ~setBack))
    => LET items == Items(log, query) IN
       /\ Len(got) <= Len(items)
       /\ \A i \in DOMAIN got : got[i].id = items[i].id

\* The two summaries fit the pages of the same query.  Of each topic a summary
\* counts no fewer alerts, or incidents, than the client had paged before and
\* no more than there are now, and all it had paged lies within the times the
\* summary begins and ends with (summarize_session_alert_events,
\* build_session_incident_summary).
SummaryFitsThePages ==
  (query # NoQuery /\ (query.route = "timeline" => ~setBack)) =>
    LET About(items, t) == Cardinality({i \in DOMAIN items : items[i].topic = t})
        before == SubSeq(got, 1, summary.paged)
    IN  /\ \A t \in Topics : /\ About(before, t) <= summary.counts[t]
                            /\ summary.counts[t] <= About(Items(log, query), t)
        /\ \A i \in DOMAIN before : /\ summary.first <= before[i].from
                                   /\ before[i].to <= summary.last

=============================================================================

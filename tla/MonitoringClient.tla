--------------------------- MODULE MonitoringClient ---------------------------
(***************************************************************************)
(* The renderer's view of its sessions: useMonitoringSession, which keeps  *)
(* a session summary and a snapshot, polls once a second while the session *)
(* it shows is active, and starts and cancels sessions through the bridge. *)
(* A call is served by the backend at one time and its reply handled at    *)
(* another; nothing in the hook ties a reply to the state it finds.        *)
(*                                                                         *)
(* The backend is what the calls can observe of it: the durable status of  *)
(* each session, which only moves forward, and the cancel marker.          *)
(* Sessions are numbered in the order they are started.                    *)
(*                                                                         *)
(* When ordered, calls are served and answered one after the other;        *)
(* otherwise each call has a connection of its own and replies may         *)
(* overtake each other.  Orders is the set of the two to consider, and     *)
(* Outcomes the statuses a worker may settle in.                           *)
(* MaxPolls is the number of polls that may be unanswered at once with and *)
(* without that order, which is the reply time in seconds, and MaxCancels  *)
(* that of cancel requests.  MaxSessions and MaxFailures bound the starts  *)
(* and the calls that fail in transport.                                   *)
(*                                                                         *)
(* The operator may press start whenever the hook accepts it; the App also *)
(* waits for the playback to stop, which it does when end is pressed.      *)
(*                                                                         *)
(* Name_Fault is the definition Name with one plausible mistake in it.     *)
(***************************************************************************)
EXTENDS SessionModel, FiniteSets, Sequences, SequencesExt

CONSTANTS Orders, Outcomes, MaxSessions, MaxPolls, MaxCancels, MaxFailures

ASSUME ClientAssumption ==
  /\ Orders \subseteq BOOLEAN
  /\ Outcomes \subseteq TerminalStatuses
  /\ MaxSessions \in Nat
  /\ MaxPolls \in [BOOLEAN -> Nat]
  /\ MaxCancels \in Nat
  /\ MaxFailures \in Nat

VARIABLES
  ordered,         \* whether replies come in the order of their calls
  started,         \* how many sessions the backend has started
  durable,         \* [session -> its status in session.json]
  cancelMarker,    \* the sessions whose cancel intent is stored
  calls,           \* bridge calls without a handled reply, oldest first
  session,         \* the hook's state: session, snapshot.session, starting
  snapshot,        \* and ending
  starting,
  ending,
  failures

backendVars == <<started, durable, cancelMarker>>
hookVars    == <<session, snapshot, starting, ending>>
vars == <<ordered, backendVars, calls, hookVars, failures>>

Sessions == 1..MaxSessions

Summary(s, status) == [id |-> s, status |-> status]

None == Summary(0, Absent)

ActiveStatuses == {"pending", "running", "cancelling"}

RunningStatuses == {"pending", "running"}

Init ==
  /\ ordered \in Orders
  /\ started = 0
  /\ durable = [s \in Sessions |-> Absent]
  /\ cancelMarker = {}
  /\ calls = <<>>
  /\ session = None
  /\ snapshot = None
  /\ starting = FALSE
  /\ ending = FALSE
  /\ failures = 0

\* What the operator sees: snapshot.session ?? session.
Current == IF snapshot # None THEN snapshot ELSE session

IsActive == Current.status \in ActiveStatuses

-------------------------------------------------------------------------------
(***************************************************************************)
(* Calls.  A reply carries the summary the hook reads from it; one without *)
(* a summary is an error.                                                  *)
(***************************************************************************)
Unserved == [kind |-> "unserved", summary |-> None]
NotFound == [kind |-> "not_found", summary |-> None]
Failed   == [kind |-> "error", summary |-> None]
Ok(summary) == [kind |-> "ok", summary |-> summary]

Call(kind, s) == [kind |-> kind, id |-> s, reply |-> Unserved]

Outstanding(kind) == {i \in DOMAIN calls : calls[i].kind = kind}

Send(kind, s) == calls' = Append(calls, Call(kind, s))

Answer(i, reply) == calls' = [calls EXCEPT ![i].reply = reply]

Unanswered(i) ==
  /\ calls[i].reply = Unserved
  /\ ordered => \A j \in 1..(i - 1) : calls[j].reply # Unserved

Answered(i) ==
  /\ calls[i].reply # Unserved
  /\ ordered => i = 1

-------------------------------------------------------------------------------
(***************************************************************************)
(* The backend.  The worker of a started session writes its first metadata *)
(* some time after the start was answered.                                 *)
(***************************************************************************)
Advance(s) ==
  /\ s <= started
  /\ \/ durable[s] = Absent /\ durable' = [durable EXCEPT ![s] = "pending"]
     \/ durable[s] = "pending" /\ durable' = [durable EXCEPT ![s] = "running"]
     \/ \E status \in Outcomes :
          /\ durable[s] \in RunningStatuses
          /\ CanTransition(durable[s], status)
          /\ status = "cancelled" => s \in cancelMarker
          /\ durable' = [durable EXCEPT ![s] = status]
  /\ UNCHANGED <<ordered, started, cancelMarker, calls, hookVars, failures>>

ServeStart(i) ==
  /\ calls[i].kind = "start"
  /\ Unanswered(i)
  /\ started' = started + 1
  /\ Answer(i, Ok(Summary(started + 1, "pending")))
  /\ UNCHANGED <<ordered, durable, cancelMarker, hookVars, failures>>

\* The worker is started, but its answer is lost on the way back.
StartReplyLost(i) ==
  /\ calls[i].kind = "start"
  /\ Unanswered(i)
  /\ failures < MaxFailures
  /\ failures' = failures + 1
  /\ started' = started + 1
  /\ Answer(i, Failed)
  /\ UNCHANGED <<ordered, durable, cancelMarker, hookVars>>

\* A snapshot read, by the poll or right after the start.
ServeRead(i) ==
  /\ calls[i].kind \in {"poll", "first"}
  /\ Unanswered(i)
  /\ LET s == calls[i].id
     IN Answer(i, IF durable[s] = Absent THEN NotFound
                  ELSE Ok(Summary(s, durable[s])))
  /\ UNCHANGED <<ordered, backendVars, hookVars, failures>>

ServeCancel_ReportsCancelled(i) ==
  /\ calls[i].kind = "cancel"
  /\ Unanswered(i)
  /\ LET s == calls[i].id
     IN IF durable[s] \in RunningStatuses
        THEN /\ cancelMarker' = cancelMarker \cup {s}
             /\ Answer(i, Ok(Summary(s, "cancelled")))
        ELSE /\ UNCHANGED cancelMarker
             /\ Answer(i, IF durable[s] = Absent THEN NotFound ELSE Failed)
  /\ UNCHANGED <<ordered, started, durable, hookVars, failures>>

ServeCancel_UnknownSession(i) ==
  /\ calls[i].kind = "cancel"
  /\ Unanswered(i)
  /\ LET s == calls[i].id
     IN IF durable[s] \notin TerminalStatuses
        THEN /\ cancelMarker' = cancelMarker \cup {s}
             /\ Answer(i, Ok(Summary(s, "cancelling")))
        ELSE /\ UNCHANGED cancelMarker
             /\ Answer(i, Failed)
  /\ UNCHANGED <<ordered, started, durable, hookVars, failures>>

\* cancel_session refuses a terminal or unknown session; otherwise the summary
\* it returns says cancelling, which the durable status never does.
ServeCancel(i) ==
  /\ calls[i].kind = "cancel"
  /\ Unanswered(i)
  /\ LET s == calls[i].id
     IN IF durable[s] \in RunningStatuses
        THEN /\ cancelMarker' = cancelMarker \cup {s}
             /\ Answer(i, Ok(Summary(s, "cancelling")))
        ELSE /\ UNCHANGED cancelMarker
             /\ Answer(i, IF durable[s] = Absent THEN NotFound ELSE Failed)
  /\ UNCHANGED <<ordered, started, durable, hookVars, failures>>

\* The call does not reach the backend, or the backend rejects it.
ServeFails(i) ==
  /\ Unanswered(i)
  /\ failures < MaxFailures
  /\ failures' = failures + 1
  /\ Answer(i, Failed)
  /\ UNCHANGED <<ordered, backendVars, hookVars>>

-------------------------------------------------------------------------------
(***************************************************************************)
(* The hook.  Show is applySnapshot, whose snapshot always has a session.  *)
(***************************************************************************)
Show(summary) == session' = summary /\ snapshot' = summary

PollTick_WhileRunning ==
  /\ Current.status \in RunningStatuses
  /\ Cardinality(Outstanding("poll")) < MaxPolls[ordered]
  /\ Send("poll", Current.id)
  /\ UNCHANGED <<ordered, backendVars, hookVars, failures>>

\* One tick of the interval that the effect keeps while the session shown is
\* active; it does not wait for the polls still out.
PollTick ==
  /\ IsActive
  /\ Cardinality(Outstanding("poll")) < MaxPolls[ordered]
  /\ Send("poll", Current.id)
  /\ UNCHANGED <<ordered, backendVars, hookVars, failures>>

\* A failed poll, not_found included, keeps the last good state.  An inactive
\* session releases both buttons, whichever call they wait for.
DeliverPoll(i) ==
  /\ calls[i].kind = "poll"
  /\ Answered(i)
  /\ calls' = RemoveAt(calls, i)
  /\ LET reply == calls[i].reply
     IN IF reply.kind = "ok"
        THEN /\ Show(reply.summary)
             /\ IF reply.summary.status \in ActiveStatuses
                THEN UNCHANGED <<starting, ending>>
                ELSE starting' = FALSE /\ ending' = FALSE
        ELSE UNCHANGED hookVars
  /\ UNCHANGED <<ordered, backendVars, failures>>

\* startMonitoring, up to its first await.
ClickStart ==
  /\ ~starting /\ ~ending /\ ~IsActive
  /\ started + Cardinality(Outstanding("start")) < MaxSessions
  /\ starting' = TRUE
  /\ session' = None
  /\ snapshot' = None
  /\ Send("start", 0)
  /\ UNCHANGED <<ordered, backendVars, ending, failures>>

\* Its catch and finally.
StartFailed ==
  /\ session' = None
  /\ snapshot' = None
  /\ starting' = FALSE
  /\ UNCHANGED ending

\* The started session goes to session alone, and the first read is sent.
DeliverStart(i) ==
  /\ calls[i].kind = "start"
  /\ Answered(i)
  /\ LET reply == calls[i].reply
         rest  == RemoveAt(calls, i)
     IN IF reply.kind = "ok"
        THEN /\ session' = reply.summary
             /\ calls' = Append(rest, Call("first", reply.summary.id))
             /\ UNCHANGED <<snapshot, starting, ending>>
        ELSE StartFailed /\ calls' = rest
  /\ UNCHANGED <<ordered, backendVars, failures>>

\* The first read.  The session it does not find is kept for the next poll.
DeliverFirst(i) ==
  /\ calls[i].kind = "first"
  /\ Answered(i)
  /\ calls' = RemoveAt(calls, i)
  /\ LET reply == calls[i].reply
     IN CASE reply.kind = "ok" ->
               Show(reply.summary) /\ starting' = FALSE /\ UNCHANGED ending
          [] reply.kind = "not_found" ->
               starting' = FALSE /\ UNCHANGED <<session, snapshot, ending>>
          [] OTHER -> StartFailed
  /\ UNCHANGED <<ordered, backendVars, failures>>

\* endMonitoring, up to its await.  For a session that no longer runs it
\* changes nothing.
ClickEnd ==
  /\ ~ending
  /\ Current.status \in RunningStatuses
  /\ Cardinality(Outstanding("cancel")) < MaxCancels
  /\ ending' = TRUE
  /\ Send("cancel", Current.id)
  /\ UNCHANGED <<ordered, backendVars, session, snapshot, starting, failures>>

DeliverCancel_ReleasesOnSuccess(i) ==
  /\ calls[i].kind = "cancel"
  /\ Answered(i)
  /\ calls' = RemoveAt(calls, i)
  /\ LET reply == calls[i].reply
     IN IF reply.kind = "ok"
        THEN Show(reply.summary) /\ ending' = FALSE
        ELSE UNCHANGED <<session, snapshot, ending>>
  /\ UNCHANGED <<ordered, backendVars, starting, failures>>

DeliverCancel_RestoresRunning(i) ==
  /\ calls[i].kind = "cancel"
  /\ Answered(i)
  /\ calls' = RemoveAt(calls, i)
  /\ ending' = FALSE
  /\ LET reply == calls[i].reply
     IN IF reply.kind = "ok"
        THEN Show(reply.summary)
        ELSE Show(Summary(calls[i].id, "running"))
  /\ UNCHANGED <<ordered, backendVars, starting, failures>>

\* The rest of endMonitoring, with its finally.
DeliverCancel(i) ==
  /\ calls[i].kind = "cancel"
  /\ Answered(i)
  /\ calls' = RemoveAt(calls, i)
  /\ ending' = FALSE
  /\ LET reply == calls[i].reply
     IN IF reply.kind = "ok"
        THEN Show(reply.summary)
        ELSE UNCHANGED <<session, snapshot>>
  /\ UNCHANGED <<ordered, backendVars, starting, failures>>

-------------------------------------------------------------------------------
Serve(i) == ServeStart(i) \/ ServeRead(i) \/ ServeCancel(i)

Deliver(i) ==
  DeliverPoll(i) \/ DeliverStart(i) \/ DeliverFirst(i) \/ DeliverCancel(i)

Next ==
  \/ \E s \in Sessions : Advance(s)
  \/ \E i \in DOMAIN calls :
       Serve(i) \/ StartReplyLost(i) \/ ServeFails(i) \/ Deliver(i)
  \/ PollTick
  \/ ClickStart
  \/ ClickEnd

Spec == Init /\ [][Next]_vars

Answering(kind) ==
  \E i \in DOMAIN calls : calls[i].kind = kind /\ (Serve(i) \/ Deliver(i))

\* The timer fires and calls of every kind are answered in the end; nobody has
\* to press a button, and the worker need not advance.
Fairness ==
  /\ WF_vars(PollTick)
  /\ WF_vars(Answering("poll"))
  /\ WF_vars(Answering("start"))
  /\ WF_vars(Answering("first"))
  /\ WF_vars(Answering("cancel"))

FairSpec == Spec /\ Fairness

-------------------------------------------------------------------------------
(***************************************************************************)
(* Properties.                                                             *)
(***************************************************************************)

Summaries == [id : 0..MaxSessions, status : Statuses \cup {Absent}]

Replies == [kind : {"unserved", "not_found", "error", "ok"}, summary : Summaries]

\* Every variable keeps its type; the durable status is never cancelling.
TypeOK ==
  /\ ordered \in BOOLEAN
  /\ started \in 0..MaxSessions
  /\ durable \in [Sessions -> (Statuses \ {"cancelling"}) \cup {Absent}]
  /\ cancelMarker \subseteq Sessions
  /\ calls \in Seq([kind : {"poll", "start", "first", "cancel"},
                    id : 0..MaxSessions, reply : Replies])
  /\ session \in Summaries /\ snapshot \in Summaries
  /\ starting \in BOOLEAN /\ ending \in BOOLEAN
  /\ failures \in 0..MaxFailures

\* What the operator is shown happened: a session shown as settled has settled,
\* in that status, and one shown as cancelling has its cancel stored.  No order
\* of replies, and no failed call, makes the hook invent an outcome.
ShownStatusIsReal ==
  /\ Current.status \in TerminalStatuses =>
       durable[Current.id] = Current.status
  /\ Current.status = "cancelling" => Current.id \in cancelMarker

\* A session that the hook shows as active is polled to its end: when it has
\* settled, it is shown settled sooner or later, unless another takes its place.
ShownSessionIsFollowed ==
  \A s \in Sessions :
    (Current.id = s /\ IsActive /\ durable[s] \in TerminalStatuses)
      ~> (Current.id # s \/ Current.status \in TerminalStatuses)

\* Neither button stays busy: startMonitoring and endMonitoring release it on
\* every path, failed calls included.
ButtonsRelease ==
  /\ starting ~> ~starting
  /\ ending ~> ~ending

\* One session of the backend, as readers of its durable state see it.
BackendSession(s) ==
  INSTANCE SessionContract WITH
    status <- durable[s], cancelRequested <- s \in cancelMarker,
    results <- 0, alerts <- 0

\* Whatever the calls, their order and their failures, each session of the
\* backend moves as SessionContract allows: in particular a cancel is stored
\* only for a session whose metadata exists, although the hook may ask for the
\* cancel of one whose worker has not written yet.
BackendKeepsContract ==
  [][\A s \in Sessions :
       [BackendSession(s)!Next]_(BackendSession(s)!vars)]_vars

\* The operator sees a session settle once: when replies keep the order of their
\* calls, the same session is not shown active again.  Without that order it
\* is, by the reply to a poll made before.
InOrderTerminalIsFinal ==
  [][(/\ ordered
      /\ Current.status \in TerminalStatuses
      /\ Current'.id = Current.id) => Current'.status = Current.status]_vars

\* Requests to cancel a session are not repeated while one is in flight.
OneCancelInFlight ==
  \A i, j \in Outstanding("cancel") : calls[i].id = calls[j].id => i = j

\* A started session whose first read reports not_found stays the session shown,
\* and stays active, so that the next poll finds it.
FirstReadMissKeepsSession ==
  [][\A i \in DOMAIN calls :
       (/\ calls[i].kind = "first"
        /\ calls[i].reply = NotFound
        /\ calls' = RemoveAt(calls, i))
       => (IsActive' /\ Current'.id = calls[i].id)]_vars
===============================================================================

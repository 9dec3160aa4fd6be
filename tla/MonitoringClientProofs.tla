------------------------ MODULE MonitoringClientProofs ------------------------
(***************************************************************************)
(* For any number of sessions, polls, cancels and lost calls, in order or  *)
(* not: the hook shows no outcome the backend does not have, and with the  *)
(* calls in order a session that was shown settled stays so.               *)
(***************************************************************************)
EXTENDS MonitoringClient, SequenceTheorems, FiniteSetTheorems, TLAPS

CallType ==
  [kind : {"poll", "start", "first", "cancel"}, id : 0 .. MaxSessions, reply : Replies]

\* The start calls that may still start a session.
PendingStarts ==
  {i \in DOMAIN calls : calls[i].kind = "start" /\ calls[i].reply = Unserved}

\* A summary that the backend could give at some time up to now: an outcome it
\* tells of is durable, and a cancel it tells of is stored.
Real(summary) ==
  /\ summary \in Summaries
  /\ summary.id <= started
  /\ summary.id = 0 => summary = None
  /\ summary.status \in TerminalStatuses => durable[summary.id] = summary.status
  /\ summary.status = "cancelling" => summary.id \in cancelMarker

RealReply(reply) ==
  \/ reply \in {Unserved, NotFound, Failed}
  \/ \E summary \in Summaries :
       Real(summary) /\ summary.id # 0 /\ reply = Ok(summary)

RealCall(c) ==
  /\ c \in CallType
  /\ IF c.kind = "start" THEN c.id = 0 ELSE c.id \in 1 .. started
  /\ RealReply(c.reply)
  /\ c.kind = "start" /\ c.reply.kind = "ok" => c.reply.summary.status = "pending"

CallsReal == \A i \in DOMAIN calls : RealCall(calls[i])

\* Of calls that are served one after the other, those that are served come
\* first.
ServedFirst ==
  ordered =>
    \A i, j \in DOMAIN calls :
      i < j /\ calls[j].reply # Unserved => calls[i].reply # Unserved

\* Every start of the queue has a session left to start.
RoomToStart == started + Cardinality(PendingStarts) <= MaxSessions

ClientInv ==
  /\ TypeOK
  /\ RoomToStart
  /\ CallsReal
  /\ Real(session) /\ Real(snapshot)
  /\ ServedFirst

\* A reply that tells of the outcome of s.
Tells(i, s) == calls[i].reply.kind = "ok" /\ calls[i].reply.summary.id = s

\* The hook learns of a session by the reply to its start: until then no other
\* call, and nothing it shows, is about that session.
StartIsNews ==
  \A i \in DOMAIN calls : calls[i].kind = "start" /\ calls[i].reply.kind = "ok" =>
    LET s == calls[i].reply.summary.id
    IN  /\ session.id # s /\ snapshot.id # s
        /\ \A j \in DOMAIN calls :
             j # i => calls[j].id # s /\ calls[j].reply.summary.id # s

\* What was shown settled, or will be by a reply on its way, is confirmed by
\* all replies that follow.
OutcomesAgree ==
  ordered =>
    /\ Current.status \in TerminalStatuses =>
         \A i \in DOMAIN calls :
           Tells(i, Current.id) => calls[i].reply.summary.status = Current.status
    /\ \A i, j \in DOMAIN calls :
         (/\ i < j /\ calls[i].reply.summary.status \in TerminalStatuses
          /\ Tells(j, calls[i].reply.summary.id))
           => calls[j].reply.summary = calls[i].reply.summary

ClientOrderInv == ClientInv /\ StartIsNews /\ OutcomesAgree

-----------------------------------------------------------------------------
(***************************************************************************)
(* How the queue changes.  A call that is sent goes to its end and a call  *)
(* that was delivered leaves it: the calls that stay keep their order.     *)
(* Position k of the new queue holds what was at source[k], or the call c  *)
(* that was sent, where source[k] is 0; gone is the position that left.    *)
(***************************************************************************)
Moved(source, c, gone) ==
  /\ calls' \in Seq(CallType)
  /\ source \in [DOMAIN calls' -> (DOMAIN calls \ {gone}) \cup {0}]
  /\ \A k \in DOMAIN calls' :
       calls'[k] = IF source[k] = 0 THEN c ELSE calls[source[k]]
  /\ \A k, l \in DOMAIN calls' :
       k < l => source[k] # 0 /\ (source[l] # 0 => source[k] < source[l])

LEMMA DomainOfSeq ==
  ASSUME NEW S, NEW s \in Seq(S)
  PROVE  Len(s) \in Nat /\ DOMAIN s = 1 .. Len(s) /\ \A k \in DOMAIN s : s[k] \in S
BY LenProperties, ElementOfSeq

\* What is left of a sequence without its element at i.
LEMMA RemoveAtShifts ==
  ASSUME NEW S, NEW s \in Seq(S), NEW i \in DOMAIN s
  PROVE  /\ RemoveAt(s, i) \in Seq(S)
         /\ Len(RemoveAt(s, i)) = Len(s) - 1
         /\ \A k \in 1 .. Len(s) - 1 :
              RemoveAt(s, i)[k] = IF k < i THEN s[k] ELSE s[k + 1]
<1> DEFINE front == SubSeq(s, 1, i - 1)
           back == SubSeq(s, i + 1, Len(s))
<1>1. Len(s) \in Nat /\ i \in 1 .. Len(s)
  BY DomainOfSeq
<1>2. /\ front \in Seq(S) /\ Len(front) = i - 1
      /\ \A k \in 1 .. i - 1 : front[k] = s[k]
  BY <1>1, SubSeqProperties
<1>3. /\ back \in Seq(S) /\ Len(back) = Len(s) - i
      /\ \A k \in 1 .. Len(s) - i : back[k] = s[i + k]
  BY <1>1, SubSeqProperties
<1> HIDE DEF front, back
<1>4. /\ front \o back \in Seq(S)
      /\ Len(front \o back) = Len(s) - 1
      /\ \A k \in 1 .. Len(s) - 1 :
           (front \o back)[k] = IF k < i THEN s[k] ELSE s[k + 1]
  <2>1. /\ front \o back \in Seq(S)
        /\ Len(front \o back) = Len(front) + Len(back)
        /\ \A k \in 1 .. Len(front) + Len(back) :
             (front \o back)[k] = IF k <= Len(front) THEN front[k] ELSE back[k - Len(front)]
    BY <1>2, <1>3, ConcatProperties
  <2>2. Len(front) + Len(back) = Len(s) - 1
    BY <1>1, <1>2, <1>3
  <2>3. ASSUME NEW k \in 1 .. Len(s) - 1
        PROVE  (front \o back)[k] = IF k < i THEN s[k] ELSE s[k + 1]
    <3>1. CASE k < i
      BY <1>1, <1>2, <2>1, <2>2, <3>1
    <3>2. CASE k >= i
      <4>1. k - (i - 1) \in 1 .. Len(s) - i /\ i + (k - (i - 1)) = k + 1
        BY <1>1, <3>2
      <4>2. back[k - (i - 1)] = s[k + 1]
        BY <1>3, <4>1
      <4>3. (front \o back)[k] = back[k - (i - 1)]
        BY <1>1, <1>2, <2>1, <2>2, <3>2
      <4> QED
        BY <3>2, <4>2, <4>3
    <3>3. k < i \/ k >= i
      BY <1>1
    <3> QED
      BY <3>1, <3>2, <3>3
  <2> QED
    BY <2>1, <2>2, <2>3
<1> QED
  BY <1>4 DEF RemoveAt, front, back

LEMMA SendMoves ==
  ASSUME calls \in Seq(CallType), NEW c \in CallType, calls' = Append(calls, c)
  PROVE  \E source : Moved(source, c, -1)
<1> DEFINE n == Len(calls)
           source == [k \in 1 .. n + 1 |-> IF k <= n THEN k ELSE 0]
<1>1. /\ n \in Nat /\ DOMAIN calls = 1 .. n
      /\ calls' \in Seq(CallType) /\ DOMAIN calls' = 1 .. n + 1
      /\ \A k \in 1 .. n : calls'[k] = calls[k]
      /\ calls'[n + 1] = c
  BY DomainOfSeq, AppendProperties
<1> HIDE DEF n
<1>2. Moved(source, c, -1)
  BY <1>1 DEF Moved
<1> QED
  BY <1>2

LEMMA DeliveryMoves ==
  ASSUME calls \in Seq(CallType), NEW i \in DOMAIN calls, NEW c,
         calls' = RemoveAt(calls, i)
  PROVE  \E source : Moved(source, c, i) /\ \A k \in DOMAIN calls' : source[k] # 0
<1> DEFINE n == Len(calls)
           source == [k \in 1 .. n - 1 |-> IF k < i THEN k ELSE k + 1]
<1>1. /\ n \in Nat /\ DOMAIN calls = 1 .. n /\ i \in 1 .. n
      /\ calls' \in Seq(CallType) /\ DOMAIN calls' = 1 .. n - 1
      /\ \A k \in 1 .. n - 1 : calls'[k] = IF k < i THEN calls[k] ELSE calls[k + 1]
  BY DomainOfSeq, RemoveAtShifts
<1> HIDE DEF n
<1>2. Moved(source, c, i) /\ \A k \in DOMAIN calls' : source[k] # 0
  BY <1>1 DEF Moved
<1> QED
  BY <1>2

LEMMA DeliveryAndSendMove ==
  ASSUME calls \in Seq(CallType), NEW i \in DOMAIN calls, NEW c \in CallType,
         calls' = Append(RemoveAt(calls, i), c)
  PROVE  \E source : Moved(source, c, i)
<1> DEFINE n == Len(calls)
           rest == RemoveAt(calls, i)
           source == [k \in 1 .. n |->
                        IF k = n THEN 0 ELSE IF k < i THEN k ELSE k + 1]
<1>1. /\ n \in Nat /\ DOMAIN calls = 1 .. n /\ i \in 1 .. n
      /\ rest \in Seq(CallType) /\ Len(rest) = n - 1
      /\ \A k \in 1 .. n - 1 : rest[k] = IF k < i THEN calls[k] ELSE calls[k + 1]
  BY DomainOfSeq, RemoveAtShifts
<1> HIDE DEF n
<1>2. /\ calls' \in Seq(CallType) /\ DOMAIN calls' = 1 .. n
      /\ \A k \in 1 .. n - 1 : calls'[k] = rest[k]
      /\ calls'[n] = c
  <2> HIDE DEF rest
  <2> QED
    BY <1>1, DomainOfSeq, AppendProperties DEF rest
<1> HIDE DEF rest
<1>3. Moved(source, c, i)
  BY <1>1, <1>2 DEF Moved
<1> QED
  BY <1>3

-----------------------------------------------------------------------------
\* What holds of the calls that stay, and of the one that is sent, holds of all.
LEMMA MovedKeepsQueue ==
  ASSUME CallsReal, ServedFirst, NEW source, NEW c, NEW gone, Moved(source, c, gone),
         RealCall(c), c.reply = Unserved, UNCHANGED <<ordered, backendVars>>
  PROVE  CallsReal' /\ ServedFirst'
<1>1. UNCHANGED <<started, durable, cancelMarker>>
  BY DEF backendVars
<1>2. ASSUME NEW k \in DOMAIN calls'
      PROVE  RealCall(calls'[k])
  <2>1. source[k] \in DOMAIN calls \/ source[k] = 0
    BY DEF Moved
  <2> QED
    BY <2>1 DEF Moved, CallsReal
<1>3. CallsReal'
  BY <1>1, <1>2 DEF CallsReal, RealCall, RealReply, Real
<1>4. ServedFirst'
  <2> SUFFICES ASSUME ordered, NEW k \in DOMAIN calls', NEW l \in DOMAIN calls',
                      k < l, calls'[l].reply # Unserved
               PROVE  calls'[k].reply # Unserved
    BY DEF ServedFirst
  <2>1. /\ source[k] # 0 /\ source[l] # 0 /\ source[k] < source[l]
        /\ source[k] \in DOMAIN calls /\ source[l] \in DOMAIN calls
        /\ calls'[k] = calls[source[k]] /\ calls'[l] = calls[source[l]]
    BY DEF Moved
  <2> QED
    BY <2>1 DEF ServedFirst
<1> QED
  BY <1>3, <1>4

\* Calls that stay are no more starts than there were.
LEMMA MovedKeepsRoom ==
  ASSUME TypeOK, RoomToStart, NEW source, NEW c, NEW gone, Moved(source, c, gone),
         \A k \in DOMAIN calls' : source[k] = 0 => c.kind # "start",
         UNCHANGED started
  PROVE  RoomToStart'
<1> DEFINE P == PendingStarts
           f == [k \in P' |-> source[k]]
<1>1. IsFiniteSet(P)
  <2>1. IsFiniteSet(DOMAIN calls)
    <3>1. DOMAIN calls = 1 .. Len(calls) /\ Len(calls) \in Nat
      BY DomainOfSeq DEF TypeOK
    <3> QED
      BY <3>1, FS_Interval
  <2> QED
    BY <2>1, FS_Subset DEF PendingStarts
<1>2. P' = {k \in DOMAIN calls' : calls'[k].kind = "start" /\ calls'[k].reply = Unserved}
  BY DEF PendingStarts
<1>3. \A k \in P' : source[k] \in P /\ k \in Int
  <2> SUFFICES ASSUME NEW k \in P'
               PROVE  source[k] \in P /\ k \in Int
    OBVIOUS
  <2>1. k \in DOMAIN calls' /\ calls'[k].kind = "start" /\ calls'[k].reply = Unserved
    BY <1>2
  <2>2. source[k] # 0 /\ source[k] \in DOMAIN calls /\ calls'[k] = calls[source[k]]
    BY <2>1 DEF Moved
  <2>3. k \in Int
    BY <2>1, DomainOfSeq DEF Moved
  <2> QED
    BY <2>1, <2>2, <2>3 DEF PendingStarts
<1>4. f \in Injection(P', P)
  <2>1. \A k, l \in P' : source[k] = source[l] => k = l
    <3> SUFFICES ASSUME NEW k \in P', NEW l \in P', source[k] = source[l], k # l
                 PROVE  FALSE
      OBVIOUS
    <3>1. k \in DOMAIN calls' /\ l \in DOMAIN calls' /\ k \in Int /\ l \in Int
      BY <1>2, <1>3
    <3>2. k < l \/ l < k
      BY <3>1
    <3>3. (source[k] # 0 /\ source[k] < source[l]) \/ source[l] < source[k]
      <4>1. source[k] \in DOMAIN calls /\ source[l] \in DOMAIN calls
        BY <1>3 DEF PendingStarts
      <4>2. source[k] # 0 /\ source[l] # 0
        BY <4>1, DomainOfSeq DEF TypeOK
      <4> QED
        BY <3>1, <3>2, <4>2 DEF Moved
    <3>4. source[k] \in Int
      BY <1>3, DomainOfSeq DEF PendingStarts, TypeOK
    <3> QED
      BY <3>3, <3>4
  <2> QED
    BY <1>3, <2>1 DEF Injection, IsInjective
<1>5. IsFiniteSet(P') /\ Cardinality(P') <= Cardinality(P)
  <2> HIDE DEF P, f
  <2> QED
    BY <1>1, <1>4, FS_Injection
<1>6. Cardinality(P) \in Nat /\ Cardinality(P') \in Nat
  BY <1>1, <1>5, FS_CardinalityType
<1> QED
  BY <1>5, <1>6, ClientAssumption DEF RoomToStart, TypeOK

\* The call that is sent, and what the hook shows now, are about no session that
\* a start still has to report.
LEMMA MovedKeepsNews ==
  ASSUME TypeOK, CallsReal, StartIsNews, NEW source, NEW c, NEW gone, Moved(source, c, gone),
         c.reply = Unserved,
         \A i \in DOMAIN calls \ {gone} :
           calls[i].kind = "start" /\ calls[i].reply.kind = "ok" =>
             LET s == calls[i].reply.summary.id
             IN  session'.id # s /\ snapshot'.id # s /\ c.id # s
  PROVE  StartIsNews'
<1> SUFFICES ASSUME NEW k \in DOMAIN calls',
                    calls'[k].kind = "start", calls'[k].reply.kind = "ok"
             PROVE  LET s == calls'[k].reply.summary.id
                    IN  /\ session'.id # s /\ snapshot'.id # s
                        /\ \A j \in DOMAIN calls' :
                             j # k => calls'[j].id # s /\ calls'[j].reply.summary.id # s
  BY DEF StartIsNews
<1> DEFINE i == source[k]
           s == calls[i].reply.summary.id
<1>1. i \in DOMAIN calls \ {gone} /\ i # 0 /\ calls'[k] = calls[i]
  BY DEF Moved, Unserved
<1>2. s # 0
  <2>1. RealReply(calls[i].reply) /\ calls[i].reply.kind = "ok"
    BY <1>1 DEF CallsReal, RealCall
  <2>2. calls[i].reply \notin {Unserved, NotFound, Failed}
    BY <2>1 DEF Unserved, NotFound, Failed
  <2>3. PICK summary \in Summaries : summary.id # 0 /\ calls[i].reply = Ok(summary)
    BY <2>1, <2>2 DEF RealReply
  <2> QED
    BY <2>3 DEF Ok
<1>3. ASSUME NEW j \in DOMAIN calls', j # k
      PROVE  calls'[j].id # s /\ calls'[j].reply.summary.id # s
  <2>1. CASE source[j] = 0
    BY <1>1, <1>2, <2>1 DEF Moved, Unserved, None, Summary
  <2>2. CASE source[j] # 0
    <3>1. source[j] \in DOMAIN calls /\ calls'[j] = calls[source[j]] /\ source[j] # i
      <4>1. DOMAIN calls' = 1 .. Len(calls') /\ Len(calls') \in Nat
        BY DomainOfSeq DEF Moved
      <4>2. j < k \/ k < j
        BY <1>3, <4>1
      <4>3. i \in Int
        BY <1>1, DomainOfSeq DEF TypeOK
      <4>4. source[j] < i \/ i < source[j]
        BY <1>1, <2>2, <4>2 DEF Moved
      <4>5. source[j] # i
        BY <4>3, <4>4
      <4> QED
        BY <2>2, <4>5 DEF Moved
    <3> QED
      BY <1>1, <3>1 DEF StartIsNews
  <2> QED
    BY <2>1, <2>2
<1> QED
  BY <1>1, <1>3

\* Replies that stay keep their order, so they still confirm each other.
LEMMA MovedKeepsOutcomes ==
  ASSUME TypeOK, OutcomesAgree, NEW source, NEW c, NEW gone, Moved(source, c, gone),
         c.reply = Unserved, UNCHANGED ordered,
         ordered /\ Current'.status \in TerminalStatuses =>
           \A i \in DOMAIN calls \ {gone} :
             Tells(i, Current'.id) => calls[i].reply.summary.status = Current'.status
  PROVE  OutcomesAgree'
<1> SUFFICES ASSUME ordered
             PROVE  /\ Current'.status \in TerminalStatuses =>
                         \A k \in DOMAIN calls' :
                           Tells(k, Current.id)' =>
                             calls'[k].reply.summary.status = Current'.status
                    /\ \A k, l \in DOMAIN calls' :
                         (/\ k < l /\ calls'[k].reply.summary.status \in TerminalStatuses
                          /\ Tells(l, calls[k].reply.summary.id)')
                           => calls'[l].reply.summary = calls'[k].reply.summary
  BY DEF OutcomesAgree
<1>1. ASSUME NEW k \in DOMAIN calls', calls'[k].reply.kind = "ok"
      PROVE  source[k] # 0 /\ source[k] \in DOMAIN calls \ {gone}
               /\ calls'[k] = calls[source[k]]
  BY <1>1 DEF Moved, Unserved
<1>2. ASSUME Current'.status \in TerminalStatuses, NEW k \in DOMAIN calls',
             Tells(k, Current.id)'
      PROVE  calls'[k].reply.summary.status = Current'.status
  <2>1. calls'[k].reply.kind = "ok" /\ calls'[k].reply.summary.id = Current'.id
    BY <1>2 DEF Tells
  <2> QED
    BY <1>1, <1>2, <2>1 DEF Tells
<1>3. ASSUME NEW k \in DOMAIN calls', NEW l \in DOMAIN calls', k < l,
             calls'[k].reply.summary.status \in TerminalStatuses,
             Tells(l, calls[k].reply.summary.id)'
      PROVE  calls'[l].reply.summary = calls'[k].reply.summary
  <2>1. calls'[l].reply.kind = "ok" /\ calls'[l].reply.summary.id = calls'[k].reply.summary.id
    BY <1>3 DEF Tells
  <2>2. source[l] # 0 /\ source[l] \in DOMAIN calls /\ calls'[l] = calls[source[l]]
    BY <1>1, <2>1
  <2>3. source[k] # 0 /\ source[k] < source[l]
    BY <1>3, <2>2 DEF Moved
  <2>4. source[k] \in DOMAIN calls /\ calls'[k] = calls[source[k]]
    BY <2>3 DEF Moved
  <2> QED
    BY <1>3, <2>1, <2>2, <2>3, <2>4 DEF OutcomesAgree, Tells
<1> QED
  BY <1>2, <1>3

-----------------------------------------------------------------------------
(***************************************************************************)
(* How the backend answers.                                                *)
(***************************************************************************)
\* Sessions are only added, outcomes are final, cancels stay stored.
Grows ==
  /\ started <= started' /\ started' \in Nat
  /\ \A s \in Sessions : durable[s] \in TerminalStatuses => durable'[s] = durable[s]
  /\ cancelMarker \subseteq cancelMarker'

LEMMA RealStays ==
  ASSUME TypeOK, Grows, NEW summary, Real(summary)
  PROVE  Real(summary)'
<1>1. CASE summary.id = 0
  <2>1. summary.status = Absent
    BY <1>1 DEF Real, None, Summary
  <2> QED
    BY <1>1, <2>1 DEF Real, Grows, TypeOK, TerminalStatuses, Absent
<1>2. CASE summary.id # 0
  <2>1. summary.id \in Sessions
    BY <1>2 DEF Real, Summaries, Sessions
  <2>2. summary.id <= started'
    BY <2>1 DEF Real, Grows, TypeOK, Sessions
  <2> QED
    BY <1>2, <2>1, <2>2 DEF Real, Grows
<1> QED
  BY <1>1, <1>2

LEMMA RealCallStays ==
  ASSUME TypeOK, Grows, NEW c, RealCall(c)
  PROVE  RealCall(c)'
<1>1. RealReply(c.reply)'
  BY RealStays DEF RealCall, RealReply
<1>2. IF c.kind = "start" THEN c.id = 0 ELSE c.id \in 1 .. started'
  BY DEF RealCall, Grows, TypeOK
<1> QED
  BY <1>1, <1>2 DEF RealCall

\* An answer fills in the reply of one call.
LEMMA AnswerShape ==
  ASSUME calls \in Seq(CallType), NEW i \in DOMAIN calls, NEW r \in Replies, Answer(i, r)
  PROVE  /\ calls' \in Seq(CallType) /\ DOMAIN calls' = DOMAIN calls
         /\ calls'[i] = [kind |-> calls[i].kind, id |-> calls[i].id, reply |-> r]
         /\ \A k \in DOMAIN calls : k # i => calls'[k] = calls[k]
<1> DEFINE c == [calls[i] EXCEPT !.reply = r]
<1>1. calls' = [calls EXCEPT ![i] = c]
  BY DEF Answer
<1>2. calls[i] \in CallType
  BY DomainOfSeq
<1>3. /\ c \in CallType
      /\ c = [kind |-> calls[i].kind, id |-> calls[i].id, reply |-> r]
  BY <1>2 DEF CallType
<1> HIDE DEF c
<1>4. calls' \in Seq(CallType)
  BY <1>1, <1>3, ExceptSeq
<1> QED
  BY <1>1, <1>3, <1>4

\* What the backend says is real when it says it.
LEMMA AnswerKeepsQueue ==
  ASSUME TypeOK, CallsReal, ServedFirst, Grows, UNCHANGED ordered,
         NEW i \in DOMAIN calls, NEW r \in Replies, Unanswered(i), Answer(i, r),
         RealReply(r)', r # Unserved,
         calls[i].kind = "start" /\ r.kind = "ok" => r.summary.status = "pending"
  PROVE  CallsReal' /\ ServedFirst'
<1>1. calls \in Seq(CallType)
  BY DEF TypeOK, CallType
<1>2. /\ calls' \in Seq(CallType) /\ DOMAIN calls' = DOMAIN calls
      /\ calls'[i] = [kind |-> calls[i].kind, id |-> calls[i].id, reply |-> r]
      /\ \A k \in DOMAIN calls : k # i => calls'[k] = calls[k]
  BY <1>1, AnswerShape
<1>3. CallsReal'
  <2>1. \A k \in DOMAIN calls : RealCall(calls[k])'
    <3> SUFFICES ASSUME NEW k \in DOMAIN calls'
                 PROVE  RealCall(calls[k])'
      BY <1>2
    <3>1. ASSUME NEW c, RealCall(c)
          PROVE  /\ RealReply(c.reply)'
                 /\ c \in CallType
                 /\ IF c.kind = "start" THEN c.id = 0 ELSE c.id \in 1 .. started'
                 /\ c.kind = "start" /\ c.reply.kind = "ok"
                      => c.reply.summary.status = "pending"
      BY <3>1, RealCallStays DEF RealCall
    <3>2. CASE k # i
      <4>1. calls'[k] = calls[k] /\ RealCall(calls[k])
        BY <1>2, <3>2 DEF CallsReal
      <4> QED
        BY <3>1, <4>1 DEF RealCall
    <3>3. CASE k = i
      <4>1. RealCall(calls[i])
        BY DEF CallsReal
      <4>2. /\ calls'[i].kind = calls[i].kind /\ calls'[i].id = calls[i].id
            /\ calls'[i].reply = r /\ calls'[i] \in CallType
        BY <1>2, DomainOfSeq
      <4> QED
        BY <3>1, <3>3, <4>1, <4>2 DEF RealCall
    <3> QED
      BY <3>2, <3>3
  <2> QED
    BY <1>2, <2>1 DEF CallsReal
<1>4. ServedFirst'
  BY <1>2 DEF ServedFirst, Unanswered
<1> QED
  BY <1>3, <1>4

\* A start that is served takes the room it had waited for.
LEMMA AnswerKeepsRoom ==
  ASSUME TypeOK, RoomToStart,
         NEW i \in DOMAIN calls, NEW r \in Replies, Unanswered(i), Answer(i, r),
         r # Unserved,
         started' = started \/ (calls[i].kind = "start" /\ started' = started + 1)
  PROVE  RoomToStart' /\ started' \in 0 .. MaxSessions
<1>1. calls \in Seq(CallType)
  BY DEF TypeOK, CallType
<1>2. /\ calls' \in Seq(CallType) /\ DOMAIN calls' = DOMAIN calls
      /\ calls'[i] = [kind |-> calls[i].kind, id |-> calls[i].id, reply |-> r]
      /\ \A k \in DOMAIN calls : k # i => calls'[k] = calls[k]
  BY <1>1, AnswerShape
<1> DEFINE P == PendingStarts
<1>3. P' = P \ {i}
  BY <1>2 DEF PendingStarts
<1>4. calls[i].kind = "start" => i \in P
  BY DEF PendingStarts, Unanswered
<1>5. IsFiniteSet(P)
  <2>1. DOMAIN calls = 1 .. Len(calls) /\ Len(calls) \in Nat
    BY <1>1, DomainOfSeq
  <2>2. IsFiniteSet(DOMAIN calls)
    BY <2>1, FS_Interval
  <2> QED
    BY <2>2, FS_Subset DEF PendingStarts
<1>6. /\ IsFiniteSet(P')
      /\ Cardinality(P') = IF i \in P THEN Cardinality(P) - 1 ELSE Cardinality(P)
  <2> HIDE DEF P
  <2> QED
    BY <1>3, <1>5, FS_RemoveElement
<1>7. Cardinality(P) \in Nat /\ Cardinality(P') \in Nat
  BY <1>5, <1>6, FS_CardinalityType
<1>8. started \in Nat /\ MaxSessions \in Nat /\ started + Cardinality(P) <= MaxSessions
  BY ClientAssumption DEF TypeOK, RoomToStart
<1> QED
  BY <1>4, <1>6, <1>7, <1>8 DEF RoomToStart

\* No summary is as real as one.
LEMMA NoneIsReal ==
  ASSUME started \in Nat
  PROVE  Real(None) /\ None.id = 0 /\ None.status \notin TerminalStatuses
BY ClientAssumption
   DEF Real, None, Summary, Summaries, TerminalStatuses, Absent

\* A call that has just been sent is unserved and concerns a session that was
\* started, or none yet when it is the request to start one.
LEMMA SentCallIsReal ==
  ASSUME started \in 0 .. MaxSessions,
         NEW kind \in {"poll", "start", "first", "cancel"}, NEW s \in 0 .. started,
         (kind = "start") <=> (s = 0)
  PROVE  /\ RealCall(Call(kind, s)) /\ Call(kind, s) \in CallType
         /\ Call(kind, s).reply = Unserved /\ Call(kind, s).id = s
         /\ Call(kind, s).kind = kind
<1> DEFINE c == Call(kind, s)
<1>1. c.reply = Unserved /\ c.id = s /\ c.kind = kind
  BY DEF Call
<1>2. s \in 0 .. MaxSessions /\ (kind # "start" => s \in 1 .. started)
  BY ClientAssumption
<1>3. Unserved \in Replies
  BY ClientAssumption DEF Unserved, Replies, None, Summary, Summaries
<1>4. c \in CallType
  BY <1>2, <1>3 DEF Call, CallType
<1>5. RealReply(Unserved) /\ Unserved.kind = "unserved"
  BY DEF RealReply, Unserved
<1> HIDE DEF c
<1>6. RealCall(c)
  BY <1>1, <1>2, <1>4, <1>5 DEF RealCall
<1> QED
  BY <1>1, <1>4, <1>6 DEF c

\* What a reply says of its summary.
LEMMA ReplyFacts ==
  ASSUME started \in Nat, NEW c, RealCall(c)
  PROVE  /\ c.id \in 0 .. started /\ c.reply.summary.id \in 0 .. started
         /\ Real(c.reply.summary)
         /\ c.reply.kind = "ok" <=> c.reply \notin {Unserved, NotFound, Failed}
         /\ c.reply.kind = "ok" => c.reply.summary.id # 0
         /\ c.reply.kind # "ok" => c.reply.summary = None
<1>1. c.id \in 0 .. started
  BY DEF RealCall
<1>2. Real(None) /\ None.id = 0
  BY NoneIsReal
<1>3. CASE c.reply \in {Unserved, NotFound, Failed}
  <2>1. c.reply.summary = None /\ c.reply.kind # "ok"
    BY <1>3 DEF Unserved, NotFound, Failed
  <2> QED
    BY <1>1, <1>2, <1>3, <2>1
<1>4. CASE c.reply \notin {Unserved, NotFound, Failed}
  <2>1. PICK summary \in Summaries :
          Real(summary) /\ summary.id # 0 /\ c.reply = Ok(summary)
    BY <1>4 DEF RealCall, RealReply
  <2>2. c.reply.summary = summary /\ c.reply.kind = "ok"
    BY <2>1 DEF Ok
  <2>3. summary.id \in 0 .. started
    BY <2>1 DEF Real, Summaries
  <2> QED
    BY <1>1, <1>4, <2>1, <2>2, <2>3
<1> QED
  BY <1>3, <1>4

\* An answer about a session that is not new, or the first about one that is.
AnswersFor(i, r) ==
  r.kind = "ok" =>
    IF calls[i].kind = "start" THEN r.summary.id = started + 1
    ELSE /\ r.summary.id = calls[i].id
         /\ durable[r.summary.id] \in TerminalStatuses =>
              r.summary.status = durable[r.summary.id]

LEMMA AnswerKeepsNews ==
  ASSUME ClientInv, StartIsNews, NEW i \in DOMAIN calls, NEW r \in Replies,
         Answer(i, r), AnswersFor(i, r), r.kind # "ok" => r.summary = None,
         UNCHANGED <<session, snapshot>>
  PROVE  StartIsNews'
<1>1. calls \in Seq(CallType) /\ started \in Nat
  BY DEF ClientInv, TypeOK, CallType
<1>2. /\ calls' \in Seq(CallType) /\ DOMAIN calls' = DOMAIN calls
      /\ calls'[i] = [kind |-> calls[i].kind, id |-> calls[i].id, reply |-> r]
      /\ \A k \in DOMAIN calls : k # i => calls'[k] = calls[k]
  BY <1>1, AnswerShape
<1>3. \A k \in DOMAIN calls :
        /\ calls[k].id \in 0 .. started /\ calls[k].reply.summary.id \in 0 .. started
        /\ calls[k].reply.kind = "ok" => calls[k].reply.summary.id # 0
  BY <1>1, ReplyFacts DEF ClientInv, CallsReal
<1>4. session.id \in 0 .. started /\ snapshot.id \in 0 .. started
  BY <1>1 DEF ClientInv, Real, Summaries
<1> SUFFICES ASSUME NEW k \in DOMAIN calls,
                    calls'[k].kind = "start", calls'[k].reply.kind = "ok"
             PROVE  LET s == calls'[k].reply.summary.id
                    IN  /\ session'.id # s /\ snapshot'.id # s
                        /\ \A j \in DOMAIN calls :
                             j # k => calls'[j].id # s /\ calls'[j].reply.summary.id # s
  BY <1>2 DEF StartIsNews
<1>5. CASE k = i
  <2>1. calls'[k].reply.summary.id = started + 1
    BY <1>2, <1>5 DEF AnswersFor
  <2> QED
    BY <1>1, <1>2, <1>3, <1>4, <1>5, <2>1
<1>6. CASE k # i
  <2> DEFINE s == calls[k].reply.summary.id
  <2>1. calls'[k] = calls[k] /\ s \in 0 .. started /\ s # 0
    BY <1>2, <1>3, <1>6
  <2>2. /\ session.id # s /\ snapshot.id # s
        /\ \A j \in DOMAIN calls :
             j # k => calls[j].id # s /\ calls[j].reply.summary.id # s
    BY <2>1 DEF StartIsNews
  <2>3. calls'[i].id # s /\ calls'[i].reply.summary.id # s
    <3>1. calls'[i].id = calls[i].id /\ calls'[i].reply = r
      BY <1>2
    <3>2. r.summary.id # s
      <4>1. CASE r.kind = "ok" /\ calls[i].kind = "start"
        BY <1>1, <2>1, <4>1 DEF AnswersFor
      <4>2. CASE r.kind = "ok" /\ calls[i].kind # "start"
        BY <1>6, <2>2, <4>2 DEF AnswersFor
      <4>3. CASE r.kind # "ok"
        BY <2>1, <4>3 DEF None, Summary
      <4> QED
        BY <4>1, <4>2, <4>3
    <3> QED
      BY <1>6, <2>2, <3>1, <3>2
  <2> QED
    BY <1>2, <2>1, <2>2, <2>3
<1> QED
  BY <1>5, <1>6

LEMMA CurrentIsReal ==
  ASSUME Real(session), Real(snapshot)
  PROVE  Real(Current)
BY DEF Current

LEMMA AnswerKeepsOutcomes ==
  ASSUME ClientInv, OutcomesAgree, NEW i \in DOMAIN calls, NEW r \in Replies,
         Unanswered(i), Answer(i, r), AnswersFor(i, r),
         UNCHANGED <<ordered, session, snapshot>>
  PROVE  OutcomesAgree'
<1>1. calls \in Seq(CallType) /\ started \in Nat
  BY DEF ClientInv, TypeOK, CallType
<1>2. /\ calls' \in Seq(CallType) /\ DOMAIN calls' = DOMAIN calls
      /\ calls'[i] = [kind |-> calls[i].kind, id |-> calls[i].id, reply |-> r]
      /\ \A k \in DOMAIN calls : k # i => calls'[k] = calls[k]
  BY <1>1, AnswerShape
<1>3. Current' = Current
  BY DEF Current
<1>4. ASSUME NEW summary, Real(summary), summary.status \in TerminalStatuses,
             r.kind = "ok", r.summary.id = summary.id
      PROVE  r.summary = summary
  <2>1. /\ summary \in Summaries /\ r.summary \in Summaries
        /\ summary.id <= started /\ durable[summary.id] = summary.status
    BY <1>4 DEF Real, Replies
  <2>2. calls[i].kind # "start"
    BY <1>1, <1>4, <2>1 DEF AnswersFor, Summaries
  <2>3. r.summary.status = summary.status
    BY <1>4, <2>1, <2>2 DEF AnswersFor
  <2> QED
    BY <1>4, <2>1, <2>3 DEF Summaries
<1> SUFFICES ASSUME ordered
             PROVE  /\ Current'.status \in TerminalStatuses =>
                         \A k \in DOMAIN calls :
                           Tells(k, Current.id)' =>
                             calls'[k].reply.summary.status = Current'.status
                    /\ \A k, l \in DOMAIN calls :
                         (/\ k < l /\ calls'[k].reply.summary.status \in TerminalStatuses
                          /\ Tells(l, calls[k].reply.summary.id)')
                           => calls'[l].reply.summary = calls'[k].reply.summary
  BY <1>2 DEF OutcomesAgree
<1>5. ASSUME Current'.status \in TerminalStatuses, NEW k \in DOMAIN calls,
             Tells(k, Current.id)'
      PROVE  calls'[k].reply.summary.status = Current'.status
  <2>1. calls'[k].reply.kind = "ok" /\ calls'[k].reply.summary.id = Current.id
    BY <1>3, <1>5 DEF Tells
  <2>2. CASE k # i
    BY <1>2, <1>3, <1>5, <2>1, <2>2 DEF OutcomesAgree, Tells
  <2>3. CASE k = i
    BY <1>2, <1>3, <1>4, <1>5, <2>1, <2>3, CurrentIsReal DEF ClientInv
  <2> QED
    BY <2>2, <2>3
<1>6. ASSUME NEW k \in DOMAIN calls, NEW l \in DOMAIN calls, k < l,
             calls'[k].reply.summary.status \in TerminalStatuses,
             Tells(l, calls[k].reply.summary.id)'
      PROVE  calls'[l].reply.summary = calls'[k].reply.summary
  <2>1. calls'[l].reply.kind = "ok" /\ calls'[l].reply.summary.id = calls'[k].reply.summary.id
    BY <1>6 DEF Tells
  <2>2. k # l
    BY <1>1, <1>6, DomainOfSeq
  <2>3. CASE k # i /\ l # i
    BY <1>2, <1>6, <2>1, <2>3 DEF OutcomesAgree, Tells
  <2>4. CASE l = i
    <3>1. calls'[k] = calls[k] /\ calls'[i].reply = r
      BY <1>2, <2>2, <2>4
    <3>2. Real(calls[k].reply.summary)
      BY <1>1, ReplyFacts DEF ClientInv, CallsReal
    <3> QED
      BY <1>4, <1>6, <2>1, <2>4, <3>1, <3>2
  <2>5. CASE k = i
    <3>1. calls'[l] = calls[l] /\ calls[l].reply = Unserved
      BY <1>2, <1>6, <2>2, <2>5 DEF ClientInv, ServedFirst, Unanswered
    <3> QED
      BY <2>1, <3>1 DEF Unserved
  <2> QED
    BY <2>3, <2>4, <2>5
<1> QED
  BY <1>5, <1>6

-----------------------------------------------------------------------------
(***************************************************************************)
(* The steps.                                                              *)
(***************************************************************************)
LEMMA AnswerKeepsInv ==
  ASSUME ClientOrderInv, NEW i \in DOMAIN calls, NEW r \in Replies,
         Unanswered(i), Answer(i, r), AnswersFor(i, r), RealReply(r)', r # Unserved,
         r.kind # "ok" => r.summary = None,
         calls[i].kind = "start" /\ r.kind = "ok" => r.summary.status = "pending",
         started' = started \/ (calls[i].kind = "start" /\ started' = started + 1),
         durable' = durable,
         cancelMarker \subseteq cancelMarker', cancelMarker' \subseteq Sessions,
         failures' \in 0 .. MaxFailures,
         UNCHANGED <<ordered, hookVars>>
  PROVE  ClientOrderInv'
<1>1. TypeOK /\ calls \in Seq(CallType) /\ started \in Nat
  BY DEF ClientOrderInv, ClientInv, TypeOK, CallType
<1>2. Grows
  BY <1>1 DEF Grows
<1>3. UNCHANGED <<session, snapshot, starting, ending>>
  BY DEF hookVars
<1>4. CallsReal' /\ ServedFirst'
  BY <1>2, AnswerKeepsQueue DEF ClientOrderInv, ClientInv
<1>5. RoomToStart' /\ started' \in 0 .. MaxSessions
  BY AnswerKeepsRoom DEF ClientOrderInv, ClientInv
<1>6. StartIsNews' /\ OutcomesAgree'
  BY <1>3, AnswerKeepsNews, AnswerKeepsOutcomes DEF ClientOrderInv
<1>7. Real(session)' /\ Real(snapshot)'
  BY <1>1, <1>2, <1>3, RealStays DEF ClientOrderInv, ClientInv, Real
<1>8. TypeOK'
  <2>1. calls' \in Seq(CallType)
    BY <1>1, AnswerShape
  <2> QED
    BY <1>1, <1>3, <1>5, <2>1 DEF TypeOK, CallType
<1> QED
  BY <1>4, <1>5, <1>6, <1>7, <1>8 DEF ClientOrderInv, ClientInv

\* The call that was delivered leaves; the hook keeps what it shows, forgets it,
\* or takes the summary of the reply.
LEMMA DeliveryKeepsInv ==
  ASSUME ClientOrderInv, NEW i \in DOMAIN calls, Answered(i),
         NEW source, NEW c, Moved(source, c, i), RealCall(c), c.reply = Unserved,
         c.id \in {0, calls[i].reply.summary.id},
         \A k \in DOMAIN calls' : source[k] = 0 => c.kind # "start",
         \/ UNCHANGED <<session, snapshot>>
         \/ session' = None /\ snapshot' = None
         \/ /\ calls[i].reply.kind = "ok"
            /\ session' = calls[i].reply.summary
            /\ \/ snapshot' = calls[i].reply.summary
               \/ snapshot' = snapshot /\ calls[i].kind = "start",
         starting' \in BOOLEAN, ending' \in BOOLEAN,
         UNCHANGED <<ordered, backendVars, failures>>
  PROVE  ClientOrderInv'
<1> DEFINE told == calls[i].reply.summary
<1>1. TypeOK /\ started \in Nat /\ UNCHANGED <<started, durable, cancelMarker>>
  BY DEF ClientOrderInv, ClientInv, TypeOK, backendVars
<1>2. RealCall(calls[i]) /\ Real(told)
  BY <1>1, ReplyFacts DEF ClientOrderInv, ClientInv, CallsReal
<1>3. CallsReal' /\ ServedFirst'
  BY MovedKeepsQueue DEF ClientOrderInv, ClientInv
<1>4. RoomToStart'
  BY <1>1, MovedKeepsRoom DEF ClientOrderInv, ClientInv
<1>5. Real(None) /\ None.id = 0 /\ None.status \notin TerminalStatuses
  BY <1>1, NoneIsReal
<1>6. Real(session') /\ Real(snapshot')
  BY <1>2, <1>5 DEF ClientOrderInv, ClientInv
<1>7. Real(session)' /\ Real(snapshot)'
  BY <1>1, <1>6 DEF Real
<1>8. TypeOK'
  BY <1>1, <1>6 DEF TypeOK, Moved, CallType, Real
<1>9. StartIsNews'
  <2>1. ASSUME NEW k \in DOMAIN calls \ {i},
               calls[k].kind = "start", calls[k].reply.kind = "ok"
        PROVE  LET s == calls[k].reply.summary.id
               IN  session'.id # s /\ snapshot'.id # s /\ c.id # s
    <3> DEFINE s == calls[k].reply.summary.id
    <3>1. s # 0 /\ told.id # s /\ session.id # s /\ snapshot.id # s
      BY <1>1, <2>1, ReplyFacts DEF ClientOrderInv, ClientInv, CallsReal, StartIsNews
    <3> QED
      BY <1>5, <3>1
  <2> QED
    BY <1>1, <2>1, MovedKeepsNews DEF ClientOrderInv, ClientInv
<1>10. OutcomesAgree'
  <2>1. ASSUME ordered, Current'.status \in TerminalStatuses,
               NEW k \in DOMAIN calls \ {i}, Tells(k, Current'.id)
        PROVE  calls[k].reply.summary.status = Current'.status
    <3>1. CASE Current' = Current
      BY <2>1, <3>1 DEF ClientOrderInv, OutcomesAgree
    <3>2. CASE Current' = told
      <4>1. i = 1 /\ i < k
        BY <1>1, <2>1, DomainOfSeq DEF Answered, TypeOK
      <4> QED
        BY <2>1, <3>2, <4>1 DEF ClientOrderInv, OutcomesAgree
    <3>3. CASE Current' = None
      BY <1>5, <2>1, <3>3
    <3> QED
      BY <3>1, <3>2, <3>3 DEF Current
  <2> QED
    BY <1>1, <2>1, MovedKeepsOutcomes DEF ClientOrderInv
<1> QED
  BY <1>3, <1>4, <1>7, <1>8, <1>9, <1>10 DEF ClientOrderInv, ClientInv

\* A call is sent for the session that is shown, or to start one.
LEMMA SendKeepsInv ==
  ASSUME ClientOrderInv, NEW c, calls' = Append(calls, c), RealCall(c),
         c.reply = Unserved, c.id \in {0, Current.id},
         c.kind = "start" =>
           started + Cardinality(Outstanding("start")) < MaxSessions,
         \/ UNCHANGED <<session, snapshot>>
         \/ session' = None /\ snapshot' = None,
         starting' \in BOOLEAN, ending' \in BOOLEAN,
         UNCHANGED <<ordered, backendVars, failures>>
  PROVE  ClientOrderInv'
<1>1. /\ TypeOK /\ started \in Nat /\ UNCHANGED <<started, durable, cancelMarker>>
      /\ calls \in Seq(CallType) /\ c \in CallType
  BY DEF ClientOrderInv, ClientInv, TypeOK, backendVars, CallType, RealCall
<1>2. PICK source : Moved(source, c, -1)
  BY <1>1, SendMoves
<1>3. CallsReal' /\ ServedFirst'
  BY <1>2, MovedKeepsQueue DEF ClientOrderInv, ClientInv
<1>4. RoomToStart'
  <2>1. CASE c.kind # "start"
    BY <1>1, <1>2, <2>1, MovedKeepsRoom DEF ClientOrderInv, ClientInv
  <2>2. CASE c.kind = "start"
    <3> DEFINE n == Len(calls) + 1
               P == PendingStarts
    <3>1. /\ DOMAIN calls = 1 .. Len(calls) /\ Len(calls) \in Nat
          /\ DOMAIN calls' = 1 .. n
          /\ \A k \in DOMAIN calls : calls'[k] = calls[k]
          /\ calls'[n] = c
      BY <1>1, DomainOfSeq, AppendProperties
    <3>2. P' = P \cup {n} /\ n \notin P
      BY <2>2, <3>1 DEF PendingStarts
    <3>3. IsFiniteSet(Outstanding("start")) /\ P \subseteq Outstanding("start")
      <4>1. IsFiniteSet(DOMAIN calls)
        BY <3>1, FS_Interval
      <4> QED
        BY <4>1, FS_Subset DEF Outstanding, PendingStarts
    <3>4. /\ IsFiniteSet(P) /\ Cardinality(P) <= Cardinality(Outstanding("start"))
      BY <3>3, FS_Subset
    <3>5. Cardinality(P') = Cardinality(P) + 1
      <4> HIDE DEF P, n
      <4> QED
        BY <3>2, <3>4, FS_AddElement
    <3>6. Cardinality(P) \in Nat /\ Cardinality(Outstanding("start")) \in Nat
      BY <3>3, <3>4, FS_CardinalityType
    <3> QED
      BY <1>1, <2>2, <3>4, <3>5, <3>6, ClientAssumption DEF RoomToStart
  <2> QED
    BY <2>1, <2>2
<1>5. Real(None) /\ None.id = 0 /\ None.status \notin TerminalStatuses
  BY <1>1, NoneIsReal
<1>6. Real(session') /\ Real(snapshot')
  BY <1>5 DEF ClientOrderInv, ClientInv
<1>7. Real(session)' /\ Real(snapshot)'
  BY <1>1, <1>6 DEF Real
<1>8. TypeOK'
  BY <1>1, <1>2, <1>6 DEF TypeOK, Moved, CallType, Real
<1>9. StartIsNews'
  <2>1. ASSUME NEW k \in DOMAIN calls,
               calls[k].kind = "start", calls[k].reply.kind = "ok"
        PROVE  LET s == calls[k].reply.summary.id
               IN  session'.id # s /\ snapshot'.id # s /\ c.id # s
    <3> DEFINE s == calls[k].reply.summary.id
    <3>1. s # 0 /\ session.id # s /\ snapshot.id # s
      BY <1>1, <2>1, ReplyFacts DEF ClientOrderInv, ClientInv, CallsReal, StartIsNews
    <3>2. Current.id # s
      BY <3>1 DEF Current
    <3> QED
      BY <1>5, <3>1, <3>2
  <2> QED
    BY <1>1, <1>2, <2>1, MovedKeepsNews DEF ClientOrderInv, ClientInv
<1>10. OutcomesAgree'
  <2>1. Current' = Current \/ Current' = None
    BY DEF Current
  <2> QED
    BY <1>1, <1>2, <1>5, <2>1, MovedKeepsOutcomes DEF ClientOrderInv, OutcomesAgree
<1> QED
  BY <1>3, <1>4, <1>7, <1>8, <1>9, <1>10 DEF ClientOrderInv, ClientInv

\* Settled sessions stay as they are, and a settled session's status is none a
\* worker moves on from.
LEMMA AdvanceKeepsInv ==
  ASSUME ClientOrderInv, NEW s \in Sessions, Advance(s)
  PROVE  ClientOrderInv'
<1>1. /\ TypeOK /\ started \in Nat
      /\ UNCHANGED <<ordered, started, cancelMarker, calls, session, snapshot,
                     starting, ending, failures>>
  BY DEF ClientOrderInv, ClientInv, TypeOK, Advance, hookVars
<1>2. /\ durable[s] \notin TerminalStatuses
      /\ \E status \in (Statuses \ {"cancelling"}) \cup {Absent} :
           durable' = [durable EXCEPT ![s] = status]
  BY ClientAssumption
     DEF Advance, TerminalStatuses, RunningStatuses, Statuses, Absent
<1>3. Grows /\ TypeOK'
  BY <1>1, <1>2 DEF Grows, TypeOK
<1>4. CallsReal'
  <2>1. ASSUME NEW c, RealCall(c)
        PROVE  RealCall(c)'
    BY <1>1, <1>3, <2>1, RealCallStays
  <2>2. \A i \in DOMAIN calls : RealCall(calls[i])
    BY DEF ClientOrderInv, ClientInv, CallsReal
  <2> QED
    BY <1>1, <2>1, <2>2 DEF CallsReal, RealCall, RealReply, Real
<1>5. Real(session)' /\ Real(snapshot)'
  BY <1>1, <1>3, RealStays DEF ClientOrderInv, ClientInv, Real
<1>6. RoomToStart' /\ ServedFirst' /\ StartIsNews' /\ OutcomesAgree'
  BY <1>1 DEF ClientOrderInv, ClientInv, RoomToStart, PendingStarts, ServedFirst,
              StartIsNews, OutcomesAgree, Tells, Current
<1> QED
  BY <1>3, <1>4, <1>5, <1>6 DEF ClientOrderInv, ClientInv

LEMMA ServeKeepsInv ==
  ASSUME ClientOrderInv, NEW i \in DOMAIN calls,
         Serve(i) \/ StartReplyLost(i) \/ ServeFails(i)
  PROVE  ClientOrderInv'
<1>1. /\ TypeOK /\ started \in Nat /\ failures \in 0 .. MaxFailures
      /\ MaxFailures \in Nat /\ cancelMarker \subseteq Sessions
  BY ClientAssumption DEF ClientOrderInv, ClientInv, TypeOK
<1>2. RealCall(calls[i]) /\ calls[i].id \in 0 .. MaxSessions
  BY DEF ClientOrderInv, ClientInv, CallsReal, RealCall, CallType
<1>3. \A r \in {NotFound, Failed} :
        /\ r \in Replies /\ RealReply(r)' /\ r # Unserved
        /\ r.kind # "ok" /\ r.summary = None
  BY ClientAssumption
     DEF NotFound, Failed, Unserved, Replies, RealReply, None, Summary, Summaries
<1>4. ASSUME NEW summary \in Summaries, Real(summary)', summary.id # 0
      PROVE  LET r == Ok(summary)
             IN  /\ r \in Replies /\ RealReply(r)' /\ r # Unserved
                 /\ r.kind = "ok" /\ r.summary = summary
  BY <1>4 DEF Ok, Unserved, Replies, RealReply
<1>5. ASSUME calls[i].kind = "start", Unanswered(i)
      PROVE  started + 1 \in 1 .. MaxSessions
  <2>1. i \in PendingStarts
    BY <1>5 DEF PendingStarts, Unanswered
  <2>2. IsFiniteSet(PendingStarts)
    <3>1. DOMAIN calls = 1 .. Len(calls) /\ Len(calls) \in Nat
      BY <1>1, DomainOfSeq DEF TypeOK
    <3>2. IsFiniteSet(DOMAIN calls)
      BY <3>1, FS_Interval
    <3> QED
      BY <3>2, FS_Subset DEF PendingStarts
  <2>3. Cardinality(PendingStarts) \in Nat /\ Cardinality(PendingStarts) # 0
    BY <2>1, <2>2, FS_CardinalityType, FS_EmptySet
  <2> QED
    BY <1>1, <2>3, ClientAssumption DEF ClientOrderInv, ClientInv, RoomToStart
<1>6. CASE ServeStart(i)
  <2>1. PICK n \in 1 .. MaxSessions : n = started + 1
    BY <1>5, <1>6 DEF ServeStart
  <2> DEFINE sm == Summary(n, "pending")
  <2>2. /\ calls[i].kind = "start" /\ Unanswered(i) /\ started' = started + 1
        /\ Answer(i, Ok(sm))
        /\ UNCHANGED <<ordered, durable, cancelMarker, hookVars, failures>>
    BY <1>6, <2>1 DEF ServeStart
  <2>3. sm \in Summaries /\ sm.id = n /\ sm.status = "pending"
    BY <2>1, ClientAssumption DEF Summary, Summaries, Statuses
  <2>4. Real(sm)' /\ sm.id # 0
    BY <2>1, <2>2, <2>3 DEF Real, TerminalStatuses
  <2> HIDE DEF sm
  <2> QED
    BY <1>1, <1>4, <2>1, <2>2, <2>3, <2>4, AnswerKeepsInv DEF AnswersFor
<1>7. CASE StartReplyLost(i)
  <2>1. /\ calls[i].kind = "start" /\ Unanswered(i) /\ started' = started + 1
        /\ Answer(i, Failed) /\ failures' \in 0 .. MaxFailures
        /\ UNCHANGED <<ordered, durable, cancelMarker, hookVars>>
    BY <1>1, <1>7 DEF StartReplyLost
  <2> QED
    BY <1>1, <1>3, <2>1, AnswerKeepsInv DEF AnswersFor
<1>8. CASE ServeFails(i)
  <2>1. /\ Unanswered(i) /\ Answer(i, Failed) /\ failures' \in 0 .. MaxFailures
        /\ UNCHANGED <<ordered, started, durable, cancelMarker, hookVars>>
    BY <1>1, <1>8 DEF ServeFails, backendVars
  <2> QED
    BY <1>1, <1>3, <2>1, AnswerKeepsInv DEF AnswersFor
<1>9. CASE ServeRead(i)
  <2>1. /\ calls[i].kind \in {"poll", "first"} /\ Unanswered(i)
        /\ UNCHANGED <<ordered, started, durable, cancelMarker, hookVars, failures>>
    BY <1>9 DEF ServeRead, backendVars
  <2>2. PICK s \in Sessions : s = calls[i].id /\ s <= started
    BY <1>1, <1>2, <2>1, ClientAssumption DEF RealCall, Sessions, TypeOK
  <2>3. CASE durable[s] = Absent
    <3>1. Answer(i, NotFound)
      BY <1>9, <2>2, <2>3 DEF ServeRead
    <3> QED
      BY <1>1, <1>3, <2>1, <3>1, AnswerKeepsInv DEF AnswersFor
  <2>4. CASE durable[s] # Absent
    <3>1. PICK status \in Statuses \ {"cancelling"} : status = durable[s]
      BY <1>1, <2>2, <2>4 DEF TypeOK
    <3> DEFINE sm == Summary(s, status)
    <3>2. Answer(i, Ok(sm))
      BY <1>9, <2>2, <2>4, <3>1 DEF ServeRead
    <3>3. sm \in Summaries /\ sm.id = s /\ sm.status = status
      BY <2>2 DEF Summary, Summaries, Sessions
    <3>4. Real(sm)' /\ sm.id # 0
      BY <2>1, <2>2, <3>1, <3>3 DEF Real, Sessions
    <3> HIDE DEF sm
    <3> QED
      BY <1>1, <1>4, <2>1, <2>2, <3>1, <3>2, <3>3, <3>4, AnswerKeepsInv DEF AnswersFor
  <2> QED
    BY <2>3, <2>4
<1>10. CASE ServeCancel(i)
  <2>1. /\ calls[i].kind = "cancel" /\ Unanswered(i)
        /\ UNCHANGED <<ordered, started, durable, hookVars, failures>>
    BY <1>10 DEF ServeCancel
  <2>2. PICK s \in Sessions : s = calls[i].id /\ s <= started
    BY <1>1, <1>2, <2>1, ClientAssumption DEF RealCall, Sessions, TypeOK
  <2>3. CASE durable[s] \notin RunningStatuses
    <3>1. \E r \in {NotFound, Failed} : Answer(i, r)
      BY <1>10, <2>2, <2>3 DEF ServeCancel
    <3>2. cancelMarker' = cancelMarker
      BY <1>10, <2>2, <2>3 DEF ServeCancel
    <3> QED
      BY <1>1, <1>3, <2>1, <3>1, <3>2, AnswerKeepsInv DEF AnswersFor
  <2>4. CASE durable[s] \in RunningStatuses
    <3> DEFINE sm == Summary(s, "cancelling")
    <3>1. Answer(i, Ok(sm)) /\ cancelMarker' = cancelMarker \cup {s}
      BY <1>10, <2>2, <2>4 DEF ServeCancel
    <3>2. sm \in Summaries /\ sm.id = s /\ sm.status = "cancelling"
      BY <2>2 DEF Summary, Summaries, Sessions, Statuses
    <3>3. Real(sm)' /\ sm.id # 0
      BY <2>1, <2>2, <3>1, <3>2 DEF Real, Sessions, TerminalStatuses
    <3>4. durable[s] \notin TerminalStatuses
      BY <2>4 DEF RunningStatuses, TerminalStatuses
    <3> HIDE DEF sm
    <3> QED
      BY <1>1, <1>4, <2>1, <2>2, <3>1, <3>2, <3>3, <3>4, AnswerKeepsInv DEF AnswersFor
  <2> QED
    BY <2>3, <2>4
<1> QED
  BY <1>6, <1>7, <1>8, <1>9, <1>10 DEF Serve

LEMMA DeliverKeepsInv ==
  ASSUME ClientOrderInv, NEW i \in DOMAIN calls, Deliver(i)
  PROVE  ClientOrderInv'
<1>1. /\ TypeOK /\ started \in Nat /\ calls \in Seq(CallType)
      /\ starting \in BOOLEAN /\ ending \in BOOLEAN
  BY DEF ClientOrderInv, ClientInv, TypeOK, CallType
<1>2. RealCall(calls[i])
  BY DEF ClientOrderInv, ClientInv, CallsReal
<1>3. ASSUME calls' = RemoveAt(calls, i), Answered(i),
             \/ UNCHANGED <<session, snapshot>>
             \/ session' = None /\ snapshot' = None
             \/ calls[i].reply.kind = "ok" /\ Show(calls[i].reply.summary),
             starting' \in BOOLEAN, ending' \in BOOLEAN,
             UNCHANGED <<ordered, backendVars, failures>>
      PROVE  ClientOrderInv'
  <2> DEFINE c == Call("start", 0)
  <2>1. RealCall(c) /\ c.reply = Unserved /\ c.id = 0
    BY <1>1, SentCallIsReal DEF TypeOK
  <2>2. PICK source : Moved(source, c, i) /\ \A k \in DOMAIN calls' : source[k] # 0
    BY <1>1, <1>3, DeliveryMoves
  <2> HIDE DEF c
  <2> QED
    BY <1>3, <2>1, <2>2, DeliveryKeepsInv DEF Show
<1>4. CASE DeliverPoll(i)
  BY <1>1, <1>3, <1>4 DEF DeliverPoll, hookVars, Show
<1>5. CASE DeliverFirst(i)
  BY <1>1, <1>3, <1>5 DEF DeliverFirst, StartFailed, Show
<1>6. CASE DeliverCancel(i)
  BY <1>1, <1>3, <1>6 DEF DeliverCancel
<1>7. CASE DeliverStart(i) /\ calls[i].reply.kind # "ok"
  BY <1>1, <1>3, <1>7 DEF DeliverStart, StartFailed
<1>8. CASE DeliverStart(i) /\ calls[i].reply.kind = "ok"
  <2>1. PICK s \in 1 .. started : s = calls[i].reply.summary.id
    BY <1>1, <1>2, <1>8, ReplyFacts
  <2> DEFINE c == Call("first", s)
  <2>2. /\ calls' = Append(RemoveAt(calls, i), c) /\ Answered(i)
        /\ session' = calls[i].reply.summary /\ calls[i].kind = "start"
        /\ UNCHANGED <<ordered, backendVars, failures, snapshot, starting, ending>>
    BY <1>8, <2>1 DEF DeliverStart
  <2>3. RealCall(c) /\ c \in CallType /\ c.reply = Unserved /\ c.id = s /\ c.kind # "start"
    <3>1. started \in 0 .. MaxSessions /\ s \in 0 .. started /\ s # 0
      BY <1>1, <2>1 DEF TypeOK
    <3>2. c.kind = "first"
      BY DEF Call
    <3> QED
      BY <3>1, <3>2, SentCallIsReal
  <2>4. PICK source : Moved(source, c, i)
    BY <1>1, <2>2, <2>3, DeliveryAndSendMove
  <2> HIDE DEF c
  <2> QED
    BY <1>1, <1>8, <2>1, <2>2, <2>3, <2>4, DeliveryKeepsInv
<1> QED
  BY <1>4, <1>5, <1>6, <1>7, <1>8 DEF Deliver

LEMMA ClickOrTickKeepsInv ==
  ASSUME ClientOrderInv, PollTick \/ ClickStart \/ ClickEnd
  PROVE  ClientOrderInv'
<1>1. /\ TypeOK /\ started \in Nat /\ starting \in BOOLEAN /\ ending \in BOOLEAN
  BY DEF ClientOrderInv, ClientInv, TypeOK
<1>2. ASSUME IsActive
      PROVE  Current.id \in 1 .. started
  <2>1. Real(Current)
    BY CurrentIsReal DEF ClientOrderInv, ClientInv
  <2>2. Current # None
    BY <1>2 DEF IsActive, ActiveStatuses, None, Summary, Absent
  <2> QED
    BY <1>1, <2>1, <2>2 DEF Real, Summaries
<1>3. \A kind \in {"poll", "cancel"}, s \in 1 .. started :
        LET c == Call(kind, s)
        IN  RealCall(c) /\ c.reply = Unserved /\ c.id = s /\ c.kind # "start"
  BY <1>1, SentCallIsReal DEF TypeOK
<1>4. CASE PollTick
  <2>1. PICK s \in 1 .. started : s = Current.id
    BY <1>2, <1>4 DEF PollTick
  <2>2. /\ calls' = Append(calls, Call("poll", s))
        /\ UNCHANGED <<ordered, backendVars, failures, session, snapshot, starting, ending>>
    BY <1>4, <2>1 DEF PollTick, Send, hookVars
  <2> QED
    BY <1>1, <1>3, <2>1, <2>2, SendKeepsInv
<1>5. CASE ClickEnd
  <2>1. PICK s \in 1 .. started : s = Current.id
    BY <1>2, <1>5 DEF ClickEnd, IsActive, ActiveStatuses, RunningStatuses
  <2>2. /\ calls' = Append(calls, Call("cancel", s)) /\ ending' = TRUE
        /\ UNCHANGED <<ordered, backendVars, failures, session, snapshot, starting>>
    BY <1>5, <2>1 DEF ClickEnd, Send
  <2> QED
    BY <1>1, <1>3, <2>1, <2>2, SendKeepsInv
<1>6. CASE ClickStart
  <2> DEFINE c == Call("start", 0)
  <2>1. RealCall(c) /\ c.reply = Unserved /\ c.id = 0
    BY ClientAssumption
       DEF Call, RealCall, CallType, RealReply, Unserved, Replies, None, Summary, Summaries
  <2>2. /\ calls' = Append(calls, c) /\ starting' = TRUE
        /\ session' = None /\ snapshot' = None
        /\ started + Cardinality(Outstanding("start")) < MaxSessions
        /\ UNCHANGED <<ordered, backendVars, failures, ending>>
    BY <1>6 DEF ClickStart, Send
  <2> HIDE DEF c
  <2> QED
    BY <1>1, <2>1, <2>2, SendKeepsInv
<1> QED
  BY <1>4, <1>5, <1>6

\* The client's invariant holds for every order of calls, answers and replies.
THEOREM ClientInvariant == Spec => []ClientOrderInv
<1>1. Init => ClientOrderInv
  <2> SUFFICES ASSUME Init
               PROVE  ClientOrderInv
    OBVIOUS
  <2>1. calls = <<>> /\ DOMAIN calls = {} /\ PendingStarts = {}
    BY DEF Init, PendingStarts
  <2>2. Real(None) /\ None.id = 0 /\ None.status \notin TerminalStatuses
    BY NoneIsReal DEF Init
  <2>3. TypeOK
    <3>1. calls \in Seq([kind : {"poll", "start", "first", "cancel"},
                         id : 0 .. MaxSessions, reply : Replies])
      BY <2>1, EmptySeq
    <3>2. session \in Summaries /\ snapshot \in Summaries
      BY <2>2 DEF Init, Real
    <3>3. ordered \in BOOLEAN
      BY ClientAssumption DEF Init
    <3>4. /\ started \in 0 .. MaxSessions /\ failures \in 0 .. MaxFailures
          /\ durable \in [Sessions -> (Statuses \ {"cancelling"}) \cup {Absent}]
          /\ cancelMarker \subseteq Sessions
      BY ClientAssumption DEF Init
    <3>5. starting \in BOOLEAN /\ ending \in BOOLEAN
      BY DEF Init
    <3> QED
      BY <3>1, <3>2, <3>3, <3>4, <3>5 DEF TypeOK
  <2>4. RoomToStart
    BY <2>1, FS_EmptySet, ClientAssumption DEF Init, RoomToStart
  <2> QED
    BY <2>1, <2>2, <2>3, <2>4
       DEF Init, ClientOrderInv, ClientInv, CallsReal, ServedFirst, StartIsNews,
           OutcomesAgree
<1>2. ClientOrderInv /\ [Next]_vars => ClientOrderInv'
  <2> SUFFICES ASSUME ClientOrderInv, [Next]_vars
               PROVE  ClientOrderInv'
    OBVIOUS
  <2>1. CASE UNCHANGED vars
    BY <2>1 DEF vars, backendVars, hookVars, ClientOrderInv, ClientInv, TypeOK,
                RoomToStart, PendingStarts, CallsReal, RealCall, RealReply, Real,
                ServedFirst, StartIsNews, OutcomesAgree, Tells, Current
  <2> QED
    BY <2>1, AdvanceKeepsInv, ServeKeepsInv, DeliverKeepsInv, ClickOrTickKeepsInv
       DEF Next
<1> QED
  BY <1>1, <1>2, PTL DEF Spec

\* The hook, its queue and the backend keep their types, for any number of
\* calls: no more sessions are started than the starts had room for.
THEOREM ClientIsTyped == Spec => []TypeOK
<1>1. ClientOrderInv => TypeOK
  BY DEF ClientOrderInv, ClientInv
<1> QED
  BY <1>1, ClientInvariant, PTL

\* No order of replies and no lost call makes the hook show an outcome, or a
\* cancel, that the backend does not have (applySnapshot, _build_cancelling_session_summary).
THEOREM WhatIsShownHappened == Spec => []ShownStatusIsReal
<1>1. ClientOrderInv => ShownStatusIsReal
  BY CurrentIsReal DEF ClientOrderInv, ClientInv, Real, ShownStatusIsReal
<1> QED
  BY <1>1, ClientInvariant, PTL

\* With its calls answered in order, the hook shows a session settle once, by
\* whichever poll, first read or cancel it learns of it (useMonitoringSession).
THEOREM SettledStaysSettled == Spec => InOrderTerminalIsFinal
<1>1. ClientOrderInv /\ [Next]_vars =>
        [(/\ ordered
          /\ Current.status \in TerminalStatuses
          /\ Current'.id = Current.id) => Current'.status = Current.status]_vars
  <2> SUFFICES ASSUME ClientOrderInv, Next, ordered,
                      Current.status \in TerminalStatuses, Current'.id = Current.id
               PROVE  Current'.status = Current.status
    OBVIOUS
  <2>1. /\ started \in Nat /\ Real(Current) /\ Current.id # 0
        /\ None.id = 0
    <3>1. started \in Nat /\ Real(Current)
      BY CurrentIsReal DEF ClientOrderInv, ClientInv, TypeOK
    <3> QED
      BY <3>1, NoneIsReal DEF Real
  <2>2. ASSUME UNCHANGED <<session, snapshot>>
        PROVE  Current'.status = Current.status
    BY <2>2 DEF Current
  <2>3. CASE ClickStart
    <3>1. Current' = None
      BY <2>3 DEF ClickStart, Current
    <3> QED
      BY <2>1, <3>1
  <2>4. ASSUME NEW i \in DOMAIN calls, Deliver(i)
        PROVE  Current'.status = Current.status
    <3> DEFINE told == calls[i].reply.summary
    <3>1. calls[i].reply.kind = "ok" => told.id # 0
      BY <2>1, ReplyFacts DEF ClientOrderInv, ClientInv, CallsReal
    <3>2. CASE session' = None /\ snapshot' = None
      <4>1. Current' = None
        BY <3>2 DEF Current
      <4> QED
        BY <2>1, <4>1
    <3>3. CASE calls[i].reply.kind = "ok" /\ Show(told)
      <4>1. Current' = told
        BY <2>1, <3>1, <3>3 DEF Current, Show
      <4> QED
        BY <3>3, <4>1 DEF ClientOrderInv, OutcomesAgree, Tells
    <3>4. CASE /\ calls[i].kind = "start" /\ calls[i].reply.kind = "ok"
               /\ session' = told /\ snapshot' = snapshot
      <4>1. session.id # told.id
        BY <3>4 DEF ClientOrderInv, StartIsNews
      <4> QED
        BY <3>4, <4>1 DEF Current
    <3>5. \/ UNCHANGED <<session, snapshot>>
          \/ session' = None /\ snapshot' = None
          \/ calls[i].reply.kind = "ok" /\ Show(told)
          \/ /\ calls[i].kind = "start" /\ calls[i].reply.kind = "ok"
             /\ session' = told /\ snapshot' = snapshot
      <4>1. DeliverPoll(i) \/ DeliverStart(i) \/ DeliverFirst(i) \/ DeliverCancel(i)
        BY <2>4 DEF Deliver
      <4> QED
        BY <4>1 DEF DeliverPoll, DeliverStart, DeliverFirst, DeliverCancel, StartFailed,
                    hookVars
    <3> QED
      BY <2>2, <3>2, <3>3, <3>4, <3>5
  <2>5. ASSUME NEW i \in DOMAIN calls, Serve(i) \/ StartReplyLost(i) \/ ServeFails(i)
        PROVE  UNCHANGED <<session, snapshot>>
    BY <2>5 DEF Serve, ServeStart, ServeRead, ServeCancel, StartReplyLost, ServeFails, hookVars
  <2>6. ASSUME (\E s \in Sessions : Advance(s)) \/ PollTick \/ ClickEnd
        PROVE  UNCHANGED <<session, snapshot>>
    BY <2>6 DEF Advance, PollTick, ClickEnd, hookVars
  <2> QED
    BY <2>2, <2>3, <2>4, <2>5, <2>6 DEF Next
<1> QED
  BY <1>1, ClientInvariant, PTL DEF Spec, InOrderTerminalIsFinal

-----------------------------------------------------------------------------
(***************************************************************************)
(* The backend that the client's calls meet is a family of sessions that   *)
(* keep SessionContract.                                                   *)
(***************************************************************************)
\* Every step of the client's world is, for each session, a step of its
\* contract or none: the worker's Advance opens and moves it, and only an
\* accepted cancel requests its end.
LEMMA BackendContractStep ==
  ASSUME TypeOK, NEW s \in Sessions, [Next]_vars
  PROVE  [BackendSession(s)!Next]_(BackendSession(s)!vars)
<1> USE DEF BackendSession!vars
<1>1. CASE UNCHANGED <<durable, cancelMarker>>
  BY <1>1
<1>2. ASSUME NEW t \in Sessions, Advance(t)
      PROVE  [BackendSession(s)!Next]_(BackendSession(s)!vars)
  <2>1. UNCHANGED cancelMarker /\ (t # s => durable'[s] = durable[s])
    BY <1>2 DEF Advance, TypeOK
  <2>2. CASE t # s
    BY <2>1, <2>2
  <2>3. CASE t = s /\ durable[s] = Absent /\ durable'[s] = "pending"
    BY <2>1, <2>3
       DEF BackendSession!Next, BackendSession!Open, BackendSession!Absent, Absent
  <2>4. ASSUME t = s, durable[s] \in RunningStatuses,
               NEW target \in {"running"} \cup TerminalStatuses,
               CanTransition(durable[s], target), durable'[s] = target
        PROVE  BackendSession(s)!Next
    <3>1. BackendSession(s)!Move(target)
      BY <2>1, <2>4
         DEF BackendSession!Move, BackendSession!CanTransition, CanTransition,
             BackendSession!AllowedTransitions, AllowedTransitions,
             BackendSession!Statuses, RunningStatuses
    <3> QED
      BY <2>4, <3>1 DEF BackendSession!Next, BackendSession!TerminalStatuses, TerminalStatuses
  <2>5. CASE t = s
    <3>1. CASE durable[s] = Absent
      BY <1>2, <2>3, <2>5, <3>1 DEF Advance, TypeOK, RunningStatuses, Absent
    <3>2. CASE durable[s] # Absent
      <4>1. /\ durable[s] \in RunningStatuses
            /\ \E target \in {"running"} \cup TerminalStatuses :
                 CanTransition(durable[s], target) /\ durable'[s] = target
        BY <1>2, <2>5, <3>2, ClientAssumption
           DEF Advance, TypeOK, RunningStatuses, CanTransition, AllowedTransitions
      <4> QED
        BY <2>4, <2>5, <4>1
    <3> QED
      BY <3>1, <3>2
  <2> QED
    BY <2>2, <2>5
<1>3. ASSUME NEW i \in DOMAIN calls, ServeCancel(i), ~UNCHANGED cancelMarker
      PROVE  [BackendSession(s)!Next]_(BackendSession(s)!vars)
  <2>1. /\ UNCHANGED durable
        /\ durable[calls[i].id] \in RunningStatuses
        /\ cancelMarker' = cancelMarker \cup {calls[i].id}
    BY <1>3 DEF ServeCancel
  <2>2. CASE s = calls[i].id
    <3>1. BackendSession(s)!RequestCancel
      BY <2>1, <2>2
         DEF BackendSession!RequestCancel, BackendSession!Absent, RunningStatuses
    <3> QED
      BY <3>1 DEF BackendSession!Next
  <2>3. CASE s # calls[i].id
    BY <2>1, <2>3
  <2> QED
    BY <2>2, <2>3
<1>4. CASE ~UNCHANGED <<durable, cancelMarker>>
  <2>1. \/ \E t \in Sessions : Advance(t)
        \/ \E i \in DOMAIN calls : ServeCancel(i) /\ UNCHANGED durable
    BY <1>4 DEF Next, Serve, ServeStart, StartReplyLost, ServeRead, ServeCancel,
       ServeFails, Deliver, DeliverPoll, DeliverStart, DeliverFirst, DeliverCancel,
       PollTick, ClickStart, ClickEnd, vars, backendVars
  <2> QED
    BY <1>2, <1>3, <1>4, <2>1
<1> QED
  BY <1>1, <1>4

\* Each session of the client's backend is a SessionContract: what the hook was
\* proved to do rests on a backend that the contract allows (session.json and
\* cancel_requested.json, as the runner and cancel_session write them).
THEOREM BackendIsTheContract == Spec => BackendKeepsContract
<1>1. TypeOK /\ [Next]_vars =>
        [\A s \in Sessions :
           [BackendSession(s)!Next]_(BackendSession(s)!vars)]_vars
  BY BackendContractStep
<1> QED
  BY <1>1, ClientIsTyped, PTL DEF Spec, BackendKeepsContract

=============================================================================

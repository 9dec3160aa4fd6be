------------------------------ MODULE AlertProofs ------------------------------
(***************************************************************************)
(* The way of an alert, for any workers, rows, playlists and bounds: the   *)
(* metric files back the result log, an alert that was shown stays shown,  *)
(* the rules raise an alert for every fault, one for each time it is       *)
(* there, and the pages and summaries that clients read fit each other.    *)
(***************************************************************************)
EXTENDS SliceAnalysis, AlertRules, AlertQueries, AlertReveal, InductionLemmas

-----------------------------------------------------------------------------
(* SliceAnalysis.                                                          *)

RowType == [worker : Workers, slice : Nat, detector : Detectors]
LineType == RowType \cup {Header}
Stages == {"next", "detect", "write", "persist"} \cup Ended
WritingType ==
  [store : StoreNames \cup {"none"}, header : BOOLEAN, after : {"detect", "none"} \cup Ended]
BundleType == [results : Seq(RowType), alerts : Seq(RowType)]

\* A typed state.
AnalysisType ==
  /\ selection \in [Workers -> SUBSET Detectors]
  /\ stage \in [Workers -> Stages]
  /\ taken \in [Workers -> Nat]
  /\ todo \in [Workers -> SUBSET DOMAIN Registry]
  /\ bundle \in [Workers -> BundleType]
  /\ buffer \in [Workers -> [StoreNames -> Seq(RowType)]]
  /\ writing \in [Workers -> WritingType]
  /\ csv \in [StoreNames -> Seq(LineType)]
  /\ results \in [Workers -> Seq(RowType)]
  /\ cancelled \in [Workers -> BOOLEAN]

\* Where a worker is says which store it writes and whether a bundle is open.
Control(w) ==
  /\ stage[w] = "write" =>
       writing[w].store \in StoreNames /\ writing[w].after \in {"detect", "completed", "cancelled"}
  /\ (\/ stage[w] \in {"next", "completed", "cancelled"}
      \/ stage[w] = "write" /\ writing[w].after # "detect") => bundle[w] = NoBundle
  /\ stage[w] \in {"completed", "cancelled"} =>
       \A s \in StoreNames : buffer[w][s] = <<>>

\* All rows of one sequence are of earlier slices than those of another.
AllBefore(lines, later, w, d) ==
  \A a \in RowsOfSession(lines, w, d), b \in RowsOfSession(later, w, d) : a.slice < b.slice

\* No row is made and lost: those in the metric file or on their way to it are
\* those in the log or on their way to the log.
Backed(w, i) ==
  LET d == Registry[i].name
      s == Registry[i].store
  IN  RowsOfSession(csv[s], w, d) \cup RowsOfSession(buffer[w][s], w, d)
        = RowsOfSession(results[w], w, d) \cup RowsOfSession(bundle[w].results, w, d)

InOrder(w, i) ==
  LET d == Registry[i].name
      s == Registry[i].store
  IN  /\ InSliceOrder(csv[s], w, d) /\ InSliceOrder(buffer[w][s], w, d)
      /\ AllBefore(csv[s], buffer[w][s], w, d)
      /\ InSliceOrder(results[w], w, d) /\ InSliceOrder(bundle[w].results, w, d)
      /\ AllBefore(results[w], bundle[w].results, w, d)

\* No row is of a slice to come, and none of this slice while its detector has
\* still to run.
Fresh(w, i) ==
  LET d == Registry[i].name
  IN  \A a \in RowsOfSession(results[w], w, d) \cup RowsOfSession(bundle[w].results, w, d) :
        a.slice <= taken[w] /\ (i \in todo[w] => a.slice < taken[w])

\* A store holds rows of its worker and its detector only.
OwnRows(w, i) ==
  \A a \in ToSet(buffer[w][Registry[i].store]) : OfSession(a, w, Registry[i].name)

WorkerInv(w) ==
  /\ Control(w)
  /\ \A i \in DOMAIN Registry :
       /\ OwnRows(w, i)
       /\ stage[w] # "failed" => Backed(w, i) /\ InOrder(w, i) /\ Fresh(w, i)

MetricsInv == AnalysisType /\ \A w \in Workers : WorkerInv(w)

-----------------------------------------------------------------------------
(* The registry, and the operators on lines.                               *)

\* Two detectors with a store each.
LEMMA RegistryFacts ==
  /\ DOMAIN Registry = 1 .. 2
  /\ Detectors = {Registry[1].name, Registry[2].name}
  /\ StoreNames = {Registry[1].store, Registry[2].store}
  /\ Registry[1].name # Registry[2].name
  /\ Registry[1].store # Registry[2].store
  /\ "header" \notin Detectors
<1>1. DOMAIN Registry = 1 .. 2
  BY DEF Registry
<1>2. Registry[1].name = "video_metrics" /\ Registry[2].name = "video_blur"
      /\ Registry[1].store = "video_metrics" /\ Registry[2].store = "blur_metrics"
  BY DEF Registry
<1>3. Detectors = {Registry[1].name, Registry[2].name}
  BY <1>1 DEF Detectors
<1> QED
  BY <1>1, <1>2, <1>3 DEF StoreNames

LEMMA RegisteredNames ==
  ASSUME NEW i \in DOMAIN Registry
  PROVE  Registry[i].name \in Detectors /\ Registry[i].store \in StoreNames
BY RegistryFacts

\* The least place of some is one of them.
LEMMA LeastPlace ==
  ASSUME NEW S, S \subseteq 1 .. 2, S # {}
  PROVE  Min(S) \in S
<1>1. \E x \in S : \A y \in S : x =< y
  <2>1. CASE 1 \in S
    BY <2>1
  <2>2. CASE 1 \notin S
    <3>1. PICK x \in S : TRUE
      OBVIOUS
    <3>2. \A y \in S : x =< y
      BY <2>2
    <3> QED
      BY <3>1, <3>2
  <2> QED
    BY <2>1, <2>2
<1> QED
  BY <1>1 DEF Min

LEMMA StoreFacts ==
  DOMAIN MetricStores = 1 .. 2 /\ StoreNames = {MetricStores[1], MetricStores[2]}
  BY DEF MetricStores, StoreNames

LEMMA RowsOfNothing ==
  ASSUME NEW w, NEW d
  PROVE  RowsOfSession(<<>>, w, d) = {} /\ InSliceOrder(<<>>, w, d)
<1>1. ToSet(<<>>) = {}
  BY DEF ToSet
<1> QED
  BY <1>1 DEF RowsOfSession, InSliceOrder

LEMMA RowsOfOne ==
  ASSUME NEW T, NEW x \in T, NEW w, NEW d
  PROVE  /\ RowsOfSession(<<x>>, w, d) = IF OfSession(x, w, d) THEN {x} ELSE {}
         /\ InSliceOrder(<<x>>, w, d)
<1>1. ToSet(<<x>>) = {x} /\ DOMAIN <<x>> = 1 .. 1
  BY DEF ToSet
<1> QED
  BY <1>1 DEF RowsOfSession, InSliceOrder

LEMMA PlacesOfConcat ==
  ASSUME NEW T, NEW a \in Seq(T), NEW b \in Seq(T)
  PROVE  /\ a \o b \in Seq(T)
         /\ DOMAIN (a \o b) = 1 .. Len(a) + Len(b)
         /\ DOMAIN a = 1 .. Len(a) /\ DOMAIN b = 1 .. Len(b)
         /\ Len(a) \in Nat /\ Len(b) \in Nat
         /\ \A k \in 1 .. Len(a) : (a \o b)[k] = a[k]
         /\ \A k \in 1 .. Len(b) : (a \o b)[Len(a) + k] = b[k]
         /\ \A k \in Len(a) + 1 .. Len(a) + Len(b) : (a \o b)[k] = b[k - Len(a)]
  OBVIOUS

LEMMA RowsOfConcat ==
  ASSUME NEW T, NEW a \in Seq(T), NEW b \in Seq(T), NEW w, NEW d
  PROVE  /\ ToSet(a \o b) = ToSet(a) \cup ToSet(b)
         /\ RowsOfSession(a \o b, w, d) = RowsOfSession(a, w, d) \cup RowsOfSession(b, w, d)
<1> DEFINE c == a \o b
<1>1. /\ DOMAIN c = 1 .. Len(a) + Len(b)
      /\ DOMAIN a = 1 .. Len(a) /\ DOMAIN b = 1 .. Len(b)
      /\ Len(a) \in Nat /\ Len(b) \in Nat
      /\ \A k \in 1 .. Len(a) : c[k] = a[k]
      /\ \A k \in 1 .. Len(b) : c[Len(a) + k] = b[k]
      /\ \A k \in Len(a) + 1 .. Len(a) + Len(b) : c[k] = b[k - Len(a)]
  BY PlacesOfConcat
<1> HIDE DEF c
<1>2. \A k \in DOMAIN a : k \in DOMAIN c /\ c[k] = a[k]
  BY <1>1
<1>3. \A k \in DOMAIN b : Len(a) + k \in DOMAIN c /\ c[Len(a) + k] = b[k]
  BY <1>1
<1>4. \A k \in DOMAIN c : \/ k \in DOMAIN a /\ c[k] = a[k]
                          \/ k - Len(a) \in DOMAIN b /\ c[k] = b[k - Len(a)]
  BY <1>1
<1>5. ToSet(c) = ToSet(a) \cup ToSet(b)
  BY <1>2, <1>3, <1>4 DEF ToSet
<1> QED
  BY <1>5 DEF RowsOfSession, c

LEMMA OrderOfConcat ==
  ASSUME NEW T, NEW a \in Seq(T), NEW b \in Seq(T), NEW w, NEW d,
         InSliceOrder(a, w, d), InSliceOrder(b, w, d), AllBefore(a, b, w, d)
  PROVE  InSliceOrder(a \o b, w, d)
<1> DEFINE c == a \o b
<1>1. /\ DOMAIN c = 1 .. Len(a) + Len(b)
      /\ DOMAIN a = 1 .. Len(a) /\ DOMAIN b = 1 .. Len(b)
      /\ Len(a) \in Nat /\ Len(b) \in Nat
      /\ \A k \in 1 .. Len(a) : c[k] = a[k]
      /\ \A k \in Len(a) + 1 .. Len(a) + Len(b) : c[k] = b[k - Len(a)]
  BY PlacesOfConcat
<1> HIDE DEF c
<1> SUFFICES ASSUME NEW j \in DOMAIN c, NEW k \in DOMAIN c, j < k,
                    OfSession(c[j], w, d), OfSession(c[k], w, d)
             PROVE  c[j].slice < c[k].slice
  BY DEF InSliceOrder, c
<1>2. CASE k <= Len(a)
  <2>1. j \in DOMAIN a /\ k \in DOMAIN a /\ c[j] = a[j] /\ c[k] = a[k]
    BY <1>1, <1>2
  <2> QED
    BY <2>1 DEF InSliceOrder
<1>3. CASE j > Len(a)
  <2>1. /\ j - Len(a) \in DOMAIN b /\ k - Len(a) \in DOMAIN b
        /\ j - Len(a) < k - Len(a)
        /\ c[j] = b[j - Len(a)] /\ c[k] = b[k - Len(a)]
    BY <1>1, <1>3
  <2> QED
    BY <2>1 DEF InSliceOrder
<1>4. CASE j <= Len(a) /\ k > Len(a)
  <2>1. /\ j \in DOMAIN a /\ c[j] = a[j]
        /\ k - Len(a) \in DOMAIN b /\ c[k] = b[k - Len(a)]
    BY <1>1, <1>4
  <2>2. c[j] \in RowsOfSession(a, w, d) /\ c[k] \in RowsOfSession(b, w, d)
    BY <2>1 DEF RowsOfSession, ToSet
  <2> QED
    BY <2>2 DEF AllBefore
<1> QED
  BY <1>1, <1>2, <1>3, <1>4

LEMMA HeadAndTail ==
  ASSUME NEW T, NEW a \in Seq(T), a # <<>>
  PROVE  Head(a) \in T /\ Tail(a) \in Seq(T) /\ <<Head(a)>> \in Seq(T)
         /\ a = <<Head(a)>> \o Tail(a)
  OBVIOUS

\* What is taken from the front of a bundle is of an earlier slice than the rest.
LEMMA TailInOrder ==
  ASSUME NEW T, NEW a \in Seq(T), a # <<>>, NEW w, NEW d, InSliceOrder(a, w, d)
  PROVE  InSliceOrder(Tail(a), w, d) /\ AllBefore(<<Head(a)>>, Tail(a), w, d)
<1>1. /\ DOMAIN Tail(a) = 1 .. Len(a) - 1 /\ DOMAIN a = 1 .. Len(a) /\ Len(a) \in Nat \ {0}
      /\ \A k \in 1 .. Len(a) - 1 : Tail(a)[k] = a[k + 1]
      /\ Head(a) = a[1]
  OBVIOUS
<1>2. \A k \in DOMAIN Tail(a) : k + 1 \in DOMAIN a /\ Tail(a)[k] = a[k + 1] /\ 1 < k + 1
  BY <1>1
<1>3. InSliceOrder(Tail(a), w, d)
  <2> SUFFICES ASSUME NEW j \in DOMAIN Tail(a), NEW k \in DOMAIN Tail(a), j < k,
                      OfSession(Tail(a)[j], w, d), OfSession(Tail(a)[k], w, d)
               PROVE  Tail(a)[j].slice < Tail(a)[k].slice
    BY DEF InSliceOrder
  <2>1. j + 1 < k + 1
    BY <1>1
  <2> QED
    BY <2>1, <1>2 DEF InSliceOrder
<1>4. AllBefore(<<Head(a)>>, Tail(a), w, d)
  <2> SUFFICES ASSUME NEW x \in RowsOfSession(<<Head(a)>>, w, d),
                      NEW y \in RowsOfSession(Tail(a), w, d)
               PROVE  x.slice < y.slice
    BY DEF AllBefore
  <2>1. ToSet(<<Head(a)>>) = {Head(a)}
    BY DEF ToSet
  <2>2. x = a[1] /\ OfSession(a[1], w, d)
    BY <1>1, <2>1 DEF RowsOfSession
  <2>3. PICK k \in DOMAIN Tail(a) : y = Tail(a)[k]
    BY DEF RowsOfSession, ToSet
  <2>4. OfSession(a[k + 1], w, d) /\ y = a[k + 1]
    BY <2>3, <1>2 DEF RowsOfSession
  <2>5. 1 \in DOMAIN a
    BY <1>1
  <2> QED
    BY <1>2, <2>2, <2>3, <2>4, <2>5 DEF InSliceOrder
<1> QED
  BY <1>3, <1>4

\* One more row, later than those of its detector.
LEMMA RowAppended ==
  ASSUME NEW T, NEW a \in Seq(T), NEW x \in T, NEW w, NEW d
  PROVE  /\ Append(a, x) \in Seq(T)
         /\ ToSet(Append(a, x)) = ToSet(a) \cup {x}
         /\ RowsOfSession(Append(a, x), w, d)
              = RowsOfSession(a, w, d) \cup (IF OfSession(x, w, d) THEN {x} ELSE {})
         /\ InSliceOrder(a, w, d)
              /\ (OfSession(x, w, d) => \A y \in RowsOfSession(a, w, d) : y.slice < x.slice)
              => InSliceOrder(Append(a, x), w, d)
<1>1. /\ Append(a, x) = a \o <<x>> /\ <<x>> \in Seq(T)
      /\ Append(a, x) \in Seq(T)
  OBVIOUS
<1>2. ToSet(<<x>>) = {x}
  BY DEF ToSet
<1>3. /\ RowsOfSession(<<x>>, w, d) = IF OfSession(x, w, d) THEN {x} ELSE {}
      /\ InSliceOrder(<<x>>, w, d)
  BY RowsOfOne
<1>4. /\ ToSet(a \o <<x>>) = ToSet(a) \cup ToSet(<<x>>)
      /\ RowsOfSession(a \o <<x>>, w, d)
           = RowsOfSession(a, w, d) \cup RowsOfSession(<<x>>, w, d)
  <2> DEFINE one == <<x>>
  <2>1. one \in Seq(T)
    BY <1>1
  <2> HIDE DEF one
  <2>2. /\ ToSet(a \o one) = ToSet(a) \cup ToSet(one)
        /\ RowsOfSession(a \o one, w, d)
             = RowsOfSession(a, w, d) \cup RowsOfSession(one, w, d)
    BY <2>1, RowsOfConcat
  <2> QED
    BY <2>2 DEF one
<1>5. ASSUME InSliceOrder(a, w, d),
             OfSession(x, w, d) => \A y \in RowsOfSession(a, w, d) : y.slice < x.slice
      PROVE  InSliceOrder(Append(a, x), w, d)
  <2>1. AllBefore(a, <<x>>, w, d)
    BY <1>3, <1>5 DEF AllBefore
  <2> QED
    BY <1>1, <1>3, <1>5, <2>1, OrderOfConcat
<1> QED
  BY <1>1, <1>2, <1>3, <1>4, <1>5

-----------------------------------------------------------------------------
(* The initial state, and the frame of a step.                             *)

LEMMA InitEstablishesMetricsInv ==
  ASSUME AnalysisInit
  PROVE  MetricsInv
<1> USE DEF AnalysisInit
<1>1. NoBundle \in BundleType
  BY DEF NoBundle, BundleType
<1>2. NoWriting \in WritingType
  BY DEF NoWriting, WritingType
<1>3. AnalysisType
  BY <1>1, <1>2 DEF AnalysisType, Stages
<1>4. ASSUME NEW w \in Workers
      PROVE  WorkerInv(w)
  <2>1. Control(w)
    BY DEF Control
  <2>2. ASSUME NEW i \in DOMAIN Registry
        PROVE  OwnRows(w, i) /\ Backed(w, i) /\ InOrder(w, i) /\ Fresh(w, i)
    <3> DEFINE d == Registry[i].name
               s == Registry[i].store
    <3>1. s \in StoreNames
      BY RegisteredNames
    <3>2. /\ csv[s] = <<>> /\ buffer[w][s] = <<>> /\ results[w] = <<>>
          /\ bundle[w].results = <<>>
      BY <3>1 DEF NoBundle
    <3>3. ToSet(<<>>) = {}
      BY DEF ToSet
    <3> QED
      BY <3>2, <3>3, RowsOfNothing DEF OwnRows, Backed, InOrder, Fresh, AllBefore
  <2> QED
    BY <2>1, <2>2 DEF WorkerInv
<1> QED
  BY <1>3, <1>4 DEF MetricsInv

\* The lines of a flush, or the beginning of them.
LEMMA LinesTyped ==
  ASSUME MetricsInv, NEW w \in Workers, stage[w] = "write"
  PROVE  /\ Lines(w) \in Seq(LineType)
         /\ writing[w].store \in StoreNames
         /\ \A v \in Workers : \A d \in Detectors :
              RowsOfSession(Lines(w), v, d) = RowsOfSession(buffer[w][writing[w].store], v, d)
         /\ \A d \in Detectors :
              InSliceOrder(buffer[w][writing[w].store], w, d) => InSliceOrder(Lines(w), w, d)
<1> DEFINE s == writing[w].store
           b == buffer[w][s]
           h == IF writing[w].header THEN <<Header>> ELSE <<>>
<1>1. s \in StoreNames
  BY DEF MetricsInv, WorkerInv, Control
<1>2. b \in Seq(RowType) /\ b \in Seq(LineType)
  BY <1>1 DEF MetricsInv, AnalysisType, LineType
<1>3. h \in Seq(LineType)
  <2>1. <<>> \in Seq(LineType) /\ <<Header>> \in Seq(LineType)
    BY DEF LineType
  <2> QED
    BY <2>1
<1>4. \A v, d : d # "header" => RowsOfSession(h, v, d) = {} /\ InSliceOrder(h, v, d)
  <2>1. Header.detector = "header" /\ Header \in LineType
    BY DEF Header, LineType
  <2> QED
    BY <2>1, RowsOfNothing, RowsOfOne DEF OfSession
<1>5. Lines(w) = h \o b
  BY DEF Lines
<1>6. \A d \in Detectors : d # "header"
  BY RegistryFacts
<1> HIDE DEF h, b
<1>7. Lines(w) \in Seq(LineType)
  BY <1>2, <1>3, <1>5
<1>8. ASSUME NEW v \in Workers, NEW d \in Detectors
      PROVE  RowsOfSession(Lines(w), v, d) = RowsOfSession(b, v, d)
  <2>1. RowsOfSession(h \o b, v, d) = RowsOfSession(h, v, d) \cup RowsOfSession(b, v, d)
    BY <1>2, <1>3, RowsOfConcat
  <2>2. RowsOfSession(h, v, d) = {}
    BY <1>4, <1>6
  <2> QED
    BY <1>5, <2>1, <2>2
<1>9. ASSUME NEW d \in Detectors, InSliceOrder(b, w, d)
      PROVE  InSliceOrder(Lines(w), w, d)
  <2>1. AllBefore(h, b, w, d)
    BY <1>4, <1>6 DEF AllBefore
  <2> QED
    BY <2>1, <1>2, <1>3, <1>4, <1>5, <1>6, <1>9, OrderOfConcat
<1> QED
  BY <1>1, <1>7, <1>8, <1>9 DEF b

\* A worker keeps its invariant when another one steps: nothing of its own
\* changes, and the files only get lines of the other.
LEMMA OthersKeepInv ==
  ASSUME NEW v \in Workers, AnalysisType, AnalysisType', WorkerInv(v),
         stage'[v] = stage[v], taken'[v] = taken[v], todo'[v] = todo[v],
         bundle'[v] = bundle[v], buffer'[v] = buffer[v], writing'[v] = writing[v],
         results'[v] = results[v],
         \A s \in StoreNames :
           \/ csv'[s] = csv[s]
           \/ \E lines \in Seq(LineType) :
                /\ csv'[s] = csv[s] \o lines
                /\ \A d \in Detectors : RowsOfSession(lines, v, d) = {}
  PROVE  WorkerInv(v)'
<1>1. Control(v)'
  <2>1. Control(v)
    BY DEF WorkerInv
  <2>2. stage[v] = "write" =>
          writing[v].store \in StoreNames /\ writing[v].after \in {"detect", "completed", "cancelled"}
    BY <2>1 DEF Control
  <2>3. (\/ stage[v] \in {"next", "completed", "cancelled"}
         \/ stage[v] = "write" /\ writing[v].after # "detect") => bundle[v] = NoBundle
    BY <2>1 DEF Control
  <2>4. stage[v] \in {"completed", "cancelled"} => \A s \in StoreNames : buffer[v][s] = <<>>
    BY <2>1 DEF Control
  <2> QED
    BY <2>2, <2>3, <2>4 DEF Control
<1>2. ASSUME NEW i \in DOMAIN Registry
      PROVE  /\ OwnRows(v, i)'
             /\ stage'[v] # "failed" => Backed(v, i)' /\ InOrder(v, i)' /\ Fresh(v, i)'
  <2> DEFINE d == Registry[i].name
             s == Registry[i].store
  <2>1. d \in Detectors /\ s \in StoreNames
    BY RegisteredNames
  <2>2. OwnRows(v, i)'
    BY <1>2 DEF WorkerInv, OwnRows
  <2>3. /\ RowsOfSession(csv'[s], v, d) = RowsOfSession(csv[s], v, d)
        /\ InSliceOrder(csv[s], v, d) => InSliceOrder(csv'[s], v, d)
    <3>1. CASE csv'[s] = csv[s]
      BY <3>1
    <3>2. CASE csv'[s] # csv[s]
      <4>1. PICK lines \in Seq(LineType) :
              csv'[s] = csv[s] \o lines /\ RowsOfSession(lines, v, d) = {}
        BY <2>1, <3>2
      <4>2. csv[s] \in Seq(LineType)
        BY <2>1 DEF AnalysisType
      <4>3. InSliceOrder(lines, v, d)
        BY <4>1 DEF InSliceOrder, RowsOfSession, ToSet
      <4>4. AllBefore(csv[s], lines, v, d)
        BY <4>1 DEF AllBefore
      <4>5. RowsOfSession(csv'[s], v, d) = RowsOfSession(csv[s], v, d)
        <5>1. RowsOfSession(csv[s] \o lines, v, d)
                = RowsOfSession(csv[s], v, d) \cup RowsOfSession(lines, v, d)
          BY <4>2, RowsOfConcat
        <5> QED
          BY <4>1, <5>1
      <4> QED
        BY <4>1, <4>2, <4>3, <4>4, <4>5, OrderOfConcat
    <3> QED
      BY <3>1, <3>2
  <2>4. ASSUME stage'[v] # "failed"
        PROVE  Backed(v, i)' /\ InOrder(v, i)' /\ Fresh(v, i)'
    <3>1. Backed(v, i) /\ InOrder(v, i) /\ Fresh(v, i)
      BY <2>4 DEF WorkerInv
    <3>2. Backed(v, i)'
      BY <2>3, <3>1 DEF Backed
    <3>3. InOrder(v, i)'
      BY <2>3, <3>1 DEF InOrder, AllBefore
    <3>4. Fresh(v, i)'
      BY <3>1 DEF Fresh
    <3> QED
      BY <3>2, <3>3, <3>4
  <2> QED
    BY <2>2, <2>4
<1> QED
  BY <1>1, <1>2 DEF WorkerInv

-----------------------------------------------------------------------------
(* The steps.                                                              *)

LEMMA RowTyped ==
  ASSUME AnalysisType, NEW w \in Workers, NEW i \in DOMAIN Registry
  PROVE  /\ Row(w, Registry[i]) \in RowType
         /\ Row(w, Registry[i]).slice = taken[w]
         /\ \A d : OfSession(Row(w, Registry[i]), w, d) <=> d = Registry[i].name
<1>1. taken[w] \in Nat /\ Registry[i].name \in Detectors
  BY RegistryFacts DEF AnalysisType
<1> QED
  BY <1>1 DEF Row, RowType, OfSession

LEMMA StartFlushStep ==
  ASSUME AnalysisType, NEW w \in Workers, NEW s \in StoreNames,
         NEW after \in {"detect", "completed", "cancelled"}, StartFlush(w, s, after)
  PROVE  /\ stage' \in [Workers -> Stages] /\ writing' \in [Workers -> WritingType]
         /\ \A v \in Workers \ {w} : stage'[v] = stage[v] /\ writing'[v] = writing[v]
         /\ stage'[w] = "write" /\ writing'[w].store = s /\ writing'[w].after = after
<1>1. [store |-> s, header |-> s \notin csvFiles, after |-> after] \in WritingType
  <2>1. (s \notin csvFiles) \in BOOLEAN
    OBVIOUS
  <2> QED
    BY <2>1 DEF WritingType, Ended
<1>2. stage \in [Workers -> Stages] /\ writing \in [Workers -> WritingType]
  BY DEF AnalysisType
<1>3. "write" \in Stages
  BY DEF Stages
<1> QED
  BY <1>1, <1>2, <1>3 DEF StartFlush

\* A session that settles flushes, or has nothing left to flush.
LEMMA SettlingStep ==
  ASSUME AnalysisType, NEW w \in Workers, NEW outcome \in {"completed", "cancelled"},
         Settling(w, outcome)
  PROVE  /\ stage' \in [Workers -> Stages] /\ writing' \in [Workers -> WritingType]
         /\ \A v \in Workers \ {w} : stage'[v] = stage[v] /\ writing'[v] = writing[v]
         /\ \/ /\ stage'[w] = "write" /\ writing'[w].store \in StoreNames
               /\ writing'[w].after = outcome
            \/ /\ stage'[w] = outcome
               /\ \A s \in StoreNames : buffer[w][s] = <<>>
<1>1. CASE ToFlush(w) = {}
  <2>1. stage' = [stage EXCEPT ![w] = outcome] /\ writing' = writing
    BY <1>1 DEF Settling
  <2>2. \A s \in StoreNames : buffer[w][s] = <<>>
    BY <1>1, StoreFacts DEF ToFlush
  <2> QED
    BY <2>1, <2>2 DEF AnalysisType, Stages, Ended
<1>2. CASE ToFlush(w) # {}
  <2>1. Min(ToFlush(w)) \in 1 .. 2
    BY <1>2, LeastPlace, StoreFacts DEF ToFlush
  <2>2. MetricStores[Min(ToFlush(w))] \in StoreNames
    BY <2>1, StoreFacts
  <2>3. StartFlush(w, MetricStores[Min(ToFlush(w))], outcome)
    BY <1>2 DEF Settling
  <2> QED
    BY <2>2, <2>3, StartFlushStep
<1> QED
  BY <1>1, <1>2

LEMMA FailsStep ==
  ASSUME AnalysisType, NEW w \in Workers, Fails(w)
  PROVE  /\ stage' \in [Workers -> Stages]
         /\ todo' \in [Workers -> SUBSET DOMAIN Registry]
         /\ bundle' \in [Workers -> BundleType]
         /\ buffer' \in [Workers -> [StoreNames -> Seq(RowType)]]
         /\ \A v \in Workers \ {w} : /\ stage'[v] = stage[v] /\ todo'[v] = todo[v]
                                    /\ bundle'[v] = bundle[v] /\ buffer'[v] = buffer[v]
         /\ stage'[w] = "failed" /\ \A s \in StoreNames : buffer'[w][s] = <<>>
<1>1. NoBundle \in BundleType
  BY DEF NoBundle, BundleType
<1>2. [s \in StoreNames |-> <<>>] \in [StoreNames -> Seq(RowType)]
  OBVIOUS
<1>3. "failed" \in Stages
  BY DEF Stages, Ended
<1> QED
  BY <1>1, <1>2, <1>3 DEF Fails, AnalysisType

\* A worker that failed promises no more than that its stores are empty.
LEMMA FailedInv ==
  ASSUME NEW w \in Workers, stage'[w] = "failed",
         \A s \in StoreNames : buffer'[w][s] = <<>>
  PROVE  WorkerInv(w)'
<1>1. Control(w)'
  BY DEF Control
<1>2. ASSUME NEW i \in DOMAIN Registry
      PROVE  OwnRows(w, i)'
  <2>1. ToSet(<<>>) = {}
    BY DEF ToSet
  <2> QED
    BY <1>2, <2>1, RegistryFacts DEF OwnRows
<1> QED
  BY <1>1, <1>2 DEF WorkerInv

\* What a worker has made is untouched by steps that only move it on.
LEMMA NothingMade ==
  ASSUME NEW w \in Workers, WorkerInv(w), stage[w] # "failed", Control(w)',
         buffer' = buffer, csv' = csv, results' = results,
         bundle'[w] = bundle[w],
         \/ taken'[w] = taken[w] /\ todo'[w] \subseteq todo[w]
         \/ taken'[w] = taken[w] + 1,
         AnalysisType
  PROVE  WorkerInv(w)'
<1>1. ASSUME NEW i \in DOMAIN Registry
      PROVE  OwnRows(w, i)' /\ Backed(w, i)' /\ InOrder(w, i)' /\ Fresh(w, i)'
  <2>1. OwnRows(w, i) /\ Backed(w, i) /\ InOrder(w, i) /\ Fresh(w, i)
    BY <1>1 DEF WorkerInv
  <2>2. OwnRows(w, i)' /\ Backed(w, i)' /\ InOrder(w, i)'
    BY <2>1 DEF OwnRows, Backed, InOrder, AllBefore
  <2>3. Fresh(w, i)'
    <3> SUFFICES ASSUME NEW a \in RowsOfSession(results[w], w, Registry[i].name)
                                    \cup RowsOfSession(bundle[w].results, w, Registry[i].name)
                 PROVE  a.slice <= taken'[w] /\ (i \in todo'[w] => a.slice < taken'[w])
      BY DEF Fresh
    <3>1. a.slice <= taken[w] /\ (i \in todo[w] => a.slice < taken[w])
      BY <2>1 DEF Fresh
    <3>2. a.slice \in Nat /\ taken[w] \in Nat
      <4>1. a \in RowType
        <5>1. results[w] \in Seq(RowType) /\ bundle[w].results \in Seq(RowType)
          BY DEF AnalysisType, BundleType
        <5> QED
          BY <5>1 DEF RowsOfSession, ToSet
      <4> QED
        BY <4>1 DEF RowType, AnalysisType
    <3> QED
      BY <3>1, <3>2
  <2> QED
    BY <2>2, <2>3
<1> QED
  BY <1>1 DEF WorkerInv

LEMMA DetectorFailsKeepsInv ==
  ASSUME MetricsInv, NEW w \in Workers, DetectorFails(w)
  PROVE  MetricsInv'
<1> USE DEF DetectorFails
<1>1. AnalysisType
  BY DEF MetricsInv
<1>2. WorkerInv(w) /\ Control(w)
  BY DEF MetricsInv, WorkerInv
<1>3. AnalysisType'
  BY <1>1 DEF AnalysisType
<1>4. Control(w)'
  BY <1>1, <1>2 DEF Control, AnalysisType
<1>5. WorkerInv(w)'
  BY <1>1, <1>2, <1>4, NothingMade DEF AnalysisType
<1>6. ASSUME NEW v \in Workers \ {w}
      PROVE  WorkerInv(v)'
  BY <1>1, <1>3, <1>6, OthersKeepInv DEF MetricsInv, AnalysisType
<1> QED
  BY <1>3, <1>5, <1>6 DEF MetricsInv

LEMMA BundleReadyKeepsInv ==
  ASSUME MetricsInv, NEW w \in Workers, BundleReady(w)
  PROVE  MetricsInv'
<1> USE DEF BundleReady
<1>1. AnalysisType
  BY DEF MetricsInv
<1>2. WorkerInv(w) /\ Control(w)
  BY DEF MetricsInv, WorkerInv
<1>3. AnalysisType'
  BY <1>1 DEF AnalysisType, Stages
<1>4. Control(w)'
  BY <1>1, <1>2 DEF Control, AnalysisType
<1>5. WorkerInv(w)'
  BY <1>1, <1>2, <1>4, NothingMade DEF AnalysisType
<1>6. ASSUME NEW v \in Workers \ {w}
      PROVE  WorkerInv(v)'
  BY <1>1, <1>3, <1>6, OthersKeepInv DEF MetricsInv, AnalysisType
<1> QED
  BY <1>3, <1>5, <1>6 DEF MetricsInv

LEMMA BundlePersistedKeepsInv ==
  ASSUME MetricsInv, NEW w \in Workers, BundlePersisted(w)
  PROVE  MetricsInv'
<1> USE DEF BundlePersisted
<1>1. AnalysisType
  BY DEF MetricsInv
<1>2. WorkerInv(w) /\ Control(w)
  BY DEF MetricsInv, WorkerInv
<1>3. AnalysisType'
  BY <1>1 DEF AnalysisType, Stages
<1>4. Control(w)'
  BY <1>1, <1>2 DEF Control, AnalysisType
<1>5. WorkerInv(w)'
  BY <1>1, <1>2, <1>4, NothingMade DEF AnalysisType
<1>6. ASSUME NEW v \in Workers \ {w}
      PROVE  WorkerInv(v)'
  BY <1>1, <1>3, <1>6, OthersKeepInv DEF MetricsInv, AnalysisType
<1> QED
  BY <1>3, <1>5, <1>6 DEF MetricsInv

LEMMA RequestStopKeepsInv ==
  ASSUME MetricsInv, NEW w \in Workers, RequestStop(w)
  PROVE  MetricsInv'
<1> USE DEF RequestStop
<1>1. AnalysisType
  BY DEF MetricsInv
<1>2. WorkerInv(w) /\ Control(w)
  BY DEF MetricsInv, WorkerInv
<1>3. AnalysisType'
  BY <1>1 DEF AnalysisType
<1>4. Control(w)'
  BY <1>1, <1>2 DEF Control, AnalysisType
<1>5. WorkerInv(w)'
  BY <1>1, <1>2, <1>4, NothingMade DEF AnalysisType, Ended
<1>6. ASSUME NEW v \in Workers \ {w}
      PROVE  WorkerInv(v)'
  BY <1>1, <1>3, <1>6, OthersKeepInv DEF MetricsInv, AnalysisType
<1> QED
  BY <1>3, <1>5, <1>6 DEF MetricsInv

LEMMA NoMoreSlicesKeepsInv ==
  ASSUME MetricsInv, NEW w \in Workers, NoMoreSlices(w)
  PROVE  MetricsInv'
<1> USE DEF NoMoreSlices
<1>1. AnalysisType
  BY DEF MetricsInv
<1>2. WorkerInv(w) /\ Control(w)
  BY DEF MetricsInv, WorkerInv
<1>3. /\ stage' \in [Workers -> Stages] /\ writing' \in [Workers -> WritingType]
      /\ \A v \in Workers \ {w} : stage'[v] = stage[v] /\ writing'[v] = writing[v]
      /\ \/ /\ stage'[w] = "write" /\ writing'[w].store \in StoreNames
            /\ writing'[w].after = "completed"
         \/ /\ stage'[w] = "completed"
            /\ \A s \in StoreNames : buffer[w][s] = <<>>
  BY <1>1, SettlingStep
<1>4. AnalysisType'
  BY <1>1, <1>3 DEF AnalysisType
<1>5. Control(w)'
  BY <1>2, <1>3 DEF Control
<1>6. WorkerInv(w)'
  BY <1>1, <1>2, <1>5, NothingMade DEF AnalysisType
<1>7. ASSUME NEW v \in Workers \ {w}
      PROVE  WorkerInv(v)'
  BY <1>1, <1>3, <1>4, <1>7, OthersKeepInv DEF MetricsInv, AnalysisType
<1> QED
  BY <1>4, <1>6, <1>7 DEF MetricsInv

LEMMA TakeSliceKeepsInv ==
  ASSUME MetricsInv, NEW w \in Workers, TakeSlice(w)
  PROVE  MetricsInv'
<1> USE DEF TakeSlice
<1>1. AnalysisType
  BY DEF MetricsInv
<1>2. WorkerInv(w) /\ Control(w)
  BY DEF MetricsInv, WorkerInv
<1>3. CASE cancelled[w]
  <2>1. Settling(w, "cancelled") /\ UNCHANGED <<taken, todo>>
    BY <1>3
  <2>2. /\ stage' \in [Workers -> Stages] /\ writing' \in [Workers -> WritingType]
        /\ \A v \in Workers \ {w} : stage'[v] = stage[v] /\ writing'[v] = writing[v]
        /\ \/ /\ stage'[w] = "write" /\ writing'[w].store \in StoreNames
              /\ writing'[w].after = "cancelled"
           \/ /\ stage'[w] = "cancelled"
              /\ \A s \in StoreNames : buffer[w][s] = <<>>
    BY <1>1, <2>1, SettlingStep
  <2>3. AnalysisType'
    BY <1>1, <2>1, <2>2 DEF AnalysisType
  <2>4. Control(w)'
    BY <1>2, <2>2 DEF Control
  <2>5. WorkerInv(w)'
    BY <1>1, <1>2, <2>1, <2>4, NothingMade DEF AnalysisType
  <2>6. ASSUME NEW v \in Workers \ {w}
        PROVE  WorkerInv(v)'
    BY <1>1, <2>1, <2>2, <2>3, <2>6, OthersKeepInv DEF MetricsInv, AnalysisType
  <2> QED
    BY <2>3, <2>5, <2>6 DEF MetricsInv
<1>4. CASE ~cancelled[w]
  <2>1. /\ stage' = [stage EXCEPT ![w] = "detect"]
        /\ taken' = [taken EXCEPT ![w] = @ + 1]
        /\ todo' = [todo EXCEPT ![w] = Matching(w)]
        /\ writing' = writing
    BY <1>4
  <2>2. Matching(w) \subseteq DOMAIN Registry
    BY DEF Matching
  <2>3. AnalysisType'
    BY <1>1, <2>1, <2>2 DEF AnalysisType, Stages
  <2>4. Control(w)'
    BY <1>1, <1>2, <2>1 DEF Control, AnalysisType
  <2>5. WorkerInv(w)'
    BY <1>1, <1>2, <2>1, <2>4, NothingMade DEF AnalysisType
  <2>6. ASSUME NEW v \in Workers \ {w}
        PROVE  WorkerInv(v)'
    BY <1>1, <2>1, <2>3, <2>6, OthersKeepInv DEF MetricsInv, AnalysisType
  <2> QED
    BY <2>3, <2>5, <2>6 DEF MetricsInv
<1> QED
  BY <1>3, <1>4

LEMMA PersistFailsKeepsInv ==
  ASSUME MetricsInv, NEW w \in Workers, PersistFails(w)
  PROVE  MetricsInv'
<1> USE DEF PersistFails
<1>1. AnalysisType
  BY DEF MetricsInv
<1>2. /\ stage' \in [Workers -> Stages]
      /\ todo' \in [Workers -> SUBSET DOMAIN Registry]
      /\ bundle' \in [Workers -> BundleType]
      /\ buffer' \in [Workers -> [StoreNames -> Seq(RowType)]]
      /\ \A v \in Workers \ {w} : /\ stage'[v] = stage[v] /\ todo'[v] = todo[v]
                                 /\ bundle'[v] = bundle[v] /\ buffer'[v] = buffer[v]
      /\ stage'[w] = "failed" /\ \A s \in StoreNames : buffer'[w][s] = <<>>
  BY <1>1, FailsStep
<1>3. AnalysisType'
  BY <1>1, <1>2 DEF AnalysisType
<1>4. WorkerInv(w)'
  BY <1>2, FailedInv
<1>5. ASSUME NEW v \in Workers \ {w}
      PROVE  WorkerInv(v)'
  BY <1>1, <1>2, <1>3, <1>5, OthersKeepInv DEF MetricsInv
<1> QED
  BY <1>3, <1>4, <1>5 DEF MetricsInv

LEMMA WriteFailsKeepsInv ==
  ASSUME MetricsInv, NEW w \in Workers, WriteFails(w)
  PROVE  MetricsInv'
<1> USE DEF WriteFails
<1>1. AnalysisType
  BY DEF MetricsInv
<1>2. /\ stage' \in [Workers -> Stages]
      /\ todo' \in [Workers -> SUBSET DOMAIN Registry]
      /\ bundle' \in [Workers -> BundleType]
      /\ buffer' \in [Workers -> [StoreNames -> Seq(RowType)]]
      /\ \A v \in Workers \ {w} : /\ stage'[v] = stage[v] /\ todo'[v] = todo[v]
                                 /\ bundle'[v] = bundle[v] /\ buffer'[v] = buffer[v]
      /\ stage'[w] = "failed" /\ \A s \in StoreNames : buffer'[w][s] = <<>>
  BY <1>1, FailsStep
<1> DEFINE s == writing[w].store
<1>3. PICK k \in 0 .. Len(Lines(w)) : csv' = [csv EXCEPT ![s] = @ \o SubSeq(Lines(w), 1, k)]
  OBVIOUS
<1> DEFINE part == SubSeq(Lines(w), 1, k)
<1>4. /\ Lines(w) \in Seq(LineType) /\ s \in StoreNames
      /\ \A v \in Workers : \A d \in Detectors :
           RowsOfSession(Lines(w), v, d) = RowsOfSession(buffer[w][s], v, d)
  BY LinesTyped
<1>5. part \in Seq(LineType) /\ ToSet(part) \subseteq ToSet(Lines(w))
  <2>1. /\ part \in Seq(LineType) /\ DOMAIN part = 1 .. k
        /\ \A j \in 1 .. k : part[j] = Lines(w)[j] /\ j \in DOMAIN Lines(w)
    BY <1>4
  <2> QED
    BY <2>1 DEF ToSet
<1> HIDE DEF part
<1>6. NoWriting \in WritingType
  BY DEF NoWriting, WritingType
<1>7. csv' = [csv EXCEPT ![s] = @ \o part]
  BY <1>3 DEF part
<1>8. AnalysisType'
  <2>1. csv[s] \o part \in Seq(LineType)
    BY <1>1, <1>4, <1>5 DEF AnalysisType
  <2>2. csv' \in [StoreNames -> Seq(LineType)]
    BY <1>1, <1>7, <2>1 DEF AnalysisType
  <2>3. writing' \in [Workers -> WritingType]
    BY <1>1, <1>6 DEF AnalysisType
  <2> QED
    BY <1>1, <1>2, <2>2, <2>3 DEF AnalysisType
<1>9. WorkerInv(w)'
  BY <1>2, FailedInv
<1>10. ASSUME NEW v \in Workers \ {w}
       PROVE  WorkerInv(v)'
  <2>1. \A d \in Detectors : RowsOfSession(part, v, d) = {}
    <3>1. \A d \in Detectors : RowsOfSession(buffer[w][s], v, d) = {}
      <4>1. \A a \in ToSet(buffer[w][s]) : a.worker = w
        BY <1>4, RegistryFacts DEF MetricsInv, WorkerInv, OwnRows, OfSession
      <4> QED
        BY <4>1 DEF RowsOfSession, OfSession
    <3> QED
      BY <1>4, <1>5, <3>1 DEF RowsOfSession
  <2>2. \A t \in StoreNames : csv'[t] = csv[t] \/ csv'[t] = csv[t] \o part
    BY <1>1, <1>7 DEF AnalysisType
  <2> QED
    BY <1>1, <1>2, <1>5, <1>8, <1>10, <2>1, <2>2, OthersKeepInv DEF MetricsInv, AnalysisType
<1> QED
  BY <1>8, <1>9, <1>10 DEF MetricsInv

LEMMA DetectorReportsKeepsInv ==
  ASSUME MetricsInv, NEW w \in Workers, NEW alerting \in BOOLEAN, DetectorReports(w, alerting)
  PROVE  MetricsInv'
<1> DEFINE r == Registry[Min(todo[w])]
           x == Row(w, r)
<1>1. AnalysisType
  BY DEF MetricsInv
<1>2. WorkerInv(w) /\ Control(w) /\ stage[w] = "detect"
  BY DEF MetricsInv, WorkerInv, DetectorReports
<1>3. Min(todo[w]) \in todo[w] /\ Min(todo[w]) \in DOMAIN Registry
  <2>1. todo[w] \subseteq 1 .. 2 /\ todo[w] # {}
    BY <1>1, RegistryFacts DEF AnalysisType, DetectorReports
  <2> QED
    BY <2>1, LeastPlace, RegistryFacts
<1>4. /\ r.store \in StoreNames /\ x \in RowType /\ x.slice = taken[w]
      /\ \A d : OfSession(x, w, d) <=> d = r.name
  BY <1>1, <1>3, RowTyped, RegistryFacts
<1>5. /\ buffer' = [buffer EXCEPT ![w][r.store] = Append(@, x)]
      /\ bundle' = [bundle EXCEPT ![w] = Collected(w, r, alerting)]
      /\ todo' = [todo EXCEPT ![w] = @ \ {Min(@)}]
      /\ \/ StartFlush(w, r.store, "detect")
         \/ UNCHANGED <<stage, writing>>
      /\ UNCHANGED <<selection, taken, csvFiles, csv, results, alertLog, cancelled, writeFaults>>
  BY DEF DetectorReports
<1> HIDE DEF x, r
<1>6. /\ stage' \in [Workers -> Stages] /\ writing' \in [Workers -> WritingType]
      /\ \A v \in Workers \ {w} : stage'[v] = stage[v] /\ writing'[v] = writing[v]
      /\ \/ stage'[w] = "write" /\ writing'[w].store = r.store /\ writing'[w].after = "detect"
         \/ stage'[w] = "detect"
  <2>1. CASE StartFlush(w, r.store, "detect")
    BY <1>1, <1>4, <2>1, StartFlushStep
  <2>2. CASE UNCHANGED <<stage, writing>>
    BY <1>1, <1>2, <2>2 DEF AnalysisType
  <2> QED
    BY <1>5, <2>1, <2>2
<1>7. Collected(w, r, alerting) \in BundleType
      /\ Collected(w, r, alerting).results = Append(bundle[w].results, x)
  <2>1. bundle[w].results \in Seq(RowType) /\ bundle[w].alerts \in Seq(RowType)
    BY <1>1 DEF AnalysisType, BundleType
  <2>2. (IF alerting THEN <<x>> ELSE <<>>) \in Seq(RowType)
    BY <1>4
  <2>3. bundle[w].alerts \o (IF alerting THEN <<x>> ELSE <<>>) \in Seq(RowType)
    BY <2>1, <2>2
  <2>4. Append(bundle[w].results, x) \in Seq(RowType)
    BY <1>4, <2>1
  <2> QED
    BY <2>3, <2>4 DEF Collected, BundleType, x
<1>8. AnalysisType'
  <2>1. bundle' \in [Workers -> BundleType]
    BY <1>1, <1>5, <1>7 DEF AnalysisType
  <2>2. Append(buffer[w][r.store], x) \in Seq(RowType)
    BY <1>1, <1>4 DEF AnalysisType
  <2>3. buffer' \in [Workers -> [StoreNames -> Seq(RowType)]]
    BY <1>1, <1>5, <2>2 DEF AnalysisType
  <2>4. todo' \in [Workers -> SUBSET DOMAIN Registry]
    BY <1>1, <1>5 DEF AnalysisType
  <2> QED
    BY <1>1, <1>5, <1>6, <2>1, <2>3, <2>4 DEF AnalysisType
<1>9. /\ buffer'[w][r.store] = Append(buffer[w][r.store], x)
      /\ \A s \in StoreNames \ {r.store} : buffer'[w][s] = buffer[w][s]
      /\ bundle'[w].results = Append(bundle[w].results, x)
      /\ buffer[w][r.store] \in Seq(RowType) /\ bundle[w].results \in Seq(RowType)
      /\ csv' = csv /\ results' = results /\ taken' = taken
      /\ taken[w] \in Nat
  BY <1>1, <1>4, <1>5, <1>7 DEF AnalysisType, BundleType
<1>10. Control(w)'
  BY <1>4, <1>6 DEF Control
<1>11. ASSUME NEW i \in DOMAIN Registry
       PROVE  OwnRows(w, i)' /\ Backed(w, i)' /\ InOrder(w, i)' /\ Fresh(w, i)'
  <2> DEFINE d == Registry[i].name
             s == Registry[i].store
  <2>1. OwnRows(w, i) /\ Backed(w, i) /\ InOrder(w, i) /\ Fresh(w, i)
    BY <1>2 DEF WorkerInv
  <2>2. /\ ToSet(Append(buffer[w][r.store], x)) = ToSet(buffer[w][r.store]) \cup {x}
        /\ RowsOfSession(Append(buffer[w][r.store], x), w, d)
             = RowsOfSession(buffer[w][r.store], w, d)
                 \cup (IF OfSession(x, w, d) THEN {x} ELSE {})
        /\ RowsOfSession(Append(bundle[w].results, x), w, d)
             = RowsOfSession(bundle[w].results, w, d)
                 \cup (IF OfSession(x, w, d) THEN {x} ELSE {})
    <3>1. buffer[w][r.store] \in Seq(RowType) /\ bundle[w].results \in Seq(RowType)
          /\ x \in RowType
      BY <1>4, <1>9
    <3>2. \A a \in Seq(RowType) :
            /\ ToSet(Append(a, x)) = ToSet(a) \cup {x}
            /\ RowsOfSession(Append(a, x), w, d)
                 = RowsOfSession(a, w, d) \cup (IF OfSession(x, w, d) THEN {x} ELSE {})
      BY <3>1, RowAppended
    <3> QED
      BY <3>1, <3>2
  <2>3. CASE i = Min(todo[w])
    <3>1. d = r.name /\ s = r.store /\ OfSession(x, w, d)
      BY <1>4, <2>3 DEF r
    <3>2. \A a \in RowsOfSession(results[w], w, d) \cup RowsOfSession(bundle[w].results, w, d) :
            a.slice < taken[w]
      BY <1>3, <2>1, <2>3 DEF Fresh
    <3>3. \A a \in RowsOfSession(csv[s], w, d) \cup RowsOfSession(buffer[w][s], w, d) :
            a.slice < taken[w]
      BY <2>1, <3>2 DEF Backed
    <3>4. OwnRows(w, i)'
      BY <1>9, <2>1, <2>2, <3>1 DEF OwnRows
    <3>5. Backed(w, i)'
      BY <1>9, <2>1, <2>2, <3>1 DEF Backed
    <3>6. InSliceOrder(Append(buffer[w][s], x), w, d)
          /\ InSliceOrder(Append(bundle[w].results, x), w, d)
      BY <1>4, <1>9, <2>1, <3>1, <3>2, <3>3, RowAppended DEF InOrder
    <3>7. AllBefore(csv[s], Append(buffer[w][s], x), w, d)
          /\ AllBefore(results[w], Append(bundle[w].results, x), w, d)
      BY <1>4, <2>1, <2>2, <3>1, <3>2, <3>3 DEF InOrder, AllBefore
    <3>8. InOrder(w, i)'
      BY <1>9, <2>1, <3>1, <3>6, <3>7 DEF InOrder
    <3>9. i \notin todo'[w]
      BY <1>1, <1>5, <2>3 DEF AnalysisType
    <3>10. Fresh(w, i)'
      <4>1. RowsOfSession(bundle'[w].results, w, d)
              = RowsOfSession(bundle[w].results, w, d) \cup {x}
        BY <1>9, <2>2, <3>1
      <4>2. ASSUME NEW a \in RowsOfSession(results[w], w, d)
                                \cup RowsOfSession(bundle'[w].results, w, d)
            PROVE  a.slice <= taken[w]
        <5>1. CASE a = x
          BY <1>4, <1>9, <5>1
        <5>2. CASE a # x
          <6>1. a.slice < taken[w] /\ a.slice <= taken[w]
            BY <2>1, <3>2, <4>1, <4>2, <5>2 DEF Fresh
          <6> QED
            BY <6>1
        <5> QED
          BY <5>1, <5>2
      <4> QED
        BY <1>9, <3>9, <4>2 DEF Fresh
    <3> QED
      BY <3>4, <3>5, <3>8, <3>10
  <2>4. CASE i # Min(todo[w])
    <3>1. d # r.name /\ s # r.store /\ s \in StoreNames /\ ~OfSession(x, w, d)
      BY <1>3, <1>4, <2>4, RegistryFacts DEF r
    <3>2. /\ buffer'[w][s] = buffer[w][s]
          /\ RowsOfSession(bundle'[w].results, w, d) = RowsOfSession(bundle[w].results, w, d)
      BY <1>9, <2>2, <3>1
    <3>3. InSliceOrder(bundle'[w].results, w, d)
      BY <1>4, <1>9, <2>1, <3>1, RowAppended DEF InOrder
    <3>4. todo'[w] \subseteq todo[w]
      BY <1>1, <1>5 DEF AnalysisType
    <3>5. OwnRows(w, i)'
      BY <2>1, <3>2 DEF OwnRows
    <3>6. Backed(w, i)'
      BY <1>9, <2>1, <3>2 DEF Backed
    <3>7. InOrder(w, i)'
      BY <1>9, <2>1, <3>2, <3>3 DEF InOrder, AllBefore
    <3>8. Fresh(w, i)'
      BY <1>9, <2>1, <3>2, <3>4 DEF Fresh
    <3> QED
      BY <3>5, <3>6, <3>7, <3>8
  <2> QED
    BY <2>3, <2>4
<1>12. WorkerInv(w)'
  BY <1>10, <1>11 DEF WorkerInv
<1>13. ASSUME NEW v \in Workers \ {w}
       PROVE  WorkerInv(v)'
  BY <1>1, <1>5, <1>6, <1>8, <1>13, OthersKeepInv DEF MetricsInv, AnalysisType
<1> QED
  BY <1>8, <1>12, <1>13 DEF MetricsInv

LEMMA WriteKeepsInv ==
  ASSUME MetricsInv, NEW w \in Workers, Write(w)
  PROVE  MetricsInv'
<1> DEFINE s == writing[w].store
           after == writing[w].after
           next == {i \in ToFlush(w) : MetricStores[i] # s}
<1>1. AnalysisType
  BY DEF MetricsInv
<1>2. WorkerInv(w) /\ Control(w) /\ stage[w] = "write"
  BY DEF MetricsInv, WorkerInv, Write
<1>3. s \in StoreNames /\ after \in {"detect", "completed", "cancelled"}
  BY <1>2 DEF Control
<1>4. /\ csv' = [csv EXCEPT ![s] = @ \o Lines(w)]
      /\ buffer' = [buffer EXCEPT ![w][s] = <<>>]
      /\ UNCHANGED <<selection, taken, todo, bundle, results, alertLog, cancelled, writeFaults>>
  BY DEF Write
<1>5. /\ Lines(w) \in Seq(LineType)
      /\ \A v \in Workers : \A d \in Detectors :
           RowsOfSession(Lines(w), v, d) = RowsOfSession(buffer[w][s], v, d)
      /\ \A d \in Detectors :
           InSliceOrder(buffer[w][s], w, d) => InSliceOrder(Lines(w), w, d)
  BY <1>2, LinesTyped
<1>6. /\ stage' \in [Workers -> Stages] /\ writing' \in [Workers -> WritingType]
      /\ \A v \in Workers \ {w} : stage'[v] = stage[v] /\ writing'[v] = writing[v]
      /\ \/ /\ stage'[w] = "write" /\ writing'[w].store \in StoreNames
            /\ writing'[w].after = after
         \/ stage'[w] = after /\ (after \in Ended => next = {})
  <2>1. CASE after \in Ended /\ next # {}
    <3>1. Min(next) \in 1 .. 2
      <4>1. next \subseteq 1 .. 2
        BY StoreFacts DEF ToFlush
      <4> QED
        BY <2>1, <4>1, LeastPlace
    <3>2. MetricStores[Min(next)] \in StoreNames
      BY <3>1, StoreFacts
    <3>3. StartFlush(w, MetricStores[Min(next)], after)
      BY <2>1 DEF Write
    <3> QED
      BY <1>1, <1>3, <3>2, <3>3, StartFlushStep
  <2>2. CASE ~(after \in Ended /\ next # {})
    <3>1. /\ stage' = [stage EXCEPT ![w] = after]
          /\ writing' = [writing EXCEPT ![w] = NoWriting]
      BY <2>2 DEF Write
    <3>2. NoWriting \in WritingType /\ after \in Stages
      BY <1>3 DEF NoWriting, WritingType, Stages, Ended
    <3> QED
      BY <1>1, <2>2, <3>1, <3>2 DEF AnalysisType
  <2> QED
    BY <2>1, <2>2
<1>7. AnalysisType'
  <2>1. csv[s] \o Lines(w) \in Seq(LineType)
    BY <1>1, <1>3, <1>5 DEF AnalysisType
  <2>2. csv' \in [StoreNames -> Seq(LineType)]
    BY <1>1, <1>4, <2>1 DEF AnalysisType
  <2>3. buffer' \in [Workers -> [StoreNames -> Seq(RowType)]]
    <3>1. [buffer[w] EXCEPT ![s] = <<>>] \in [StoreNames -> Seq(RowType)]
      <4>1. <<>> \in Seq(RowType) /\ buffer[w] \in [StoreNames -> Seq(RowType)]
        BY <1>1 DEF AnalysisType
      <4> QED
        BY <4>1
    <3>2. buffer' = [buffer EXCEPT ![w] = [buffer[w] EXCEPT ![s] = <<>>]]
      BY <1>4
    <3> QED
      BY <1>1, <3>1, <3>2 DEF AnalysisType
  <2> QED
    BY <1>1, <1>4, <1>6, <2>2, <2>3 DEF AnalysisType
<1>8. /\ csv'[s] = csv[s] \o Lines(w) /\ buffer'[w][s] = <<>>
      /\ \A t \in StoreNames \ {s} : csv'[t] = csv[t] /\ buffer'[w][t] = buffer[w][t]
      /\ bundle' = bundle /\ results' = results /\ taken' = taken /\ todo' = todo
      /\ csv[s] \in Seq(LineType)
  BY <1>1, <1>3, <1>4 DEF AnalysisType
<1>9. Control(w)'
  <2>1. after # "detect" => bundle[w] = NoBundle
    BY <1>2 DEF Control
  <2>2. stage'[w] \in {"completed", "cancelled"} => \A t \in StoreNames : buffer'[w][t] = <<>>
    <3> SUFFICES ASSUME stage'[w] \in {"completed", "cancelled"}, NEW t \in StoreNames
                 PROVE  buffer'[w][t] = <<>>
      OBVIOUS
    <3>1. next = {}
      BY <1>3, <1>6 DEF Ended
    <3>2. CASE t # s
      <4>1. PICK i \in DOMAIN MetricStores : MetricStores[i] = t
        BY StoreFacts
      <4>2. buffer[w][t] = <<>>
        BY <3>1, <3>2, <4>1 DEF ToFlush
      <4> QED
        BY <1>8, <3>2, <4>2
    <3> QED
      BY <1>8, <3>2
  <2> QED
    BY <1>3, <1>6, <1>8, <2>1, <2>2 DEF Control
<1>10. ASSUME NEW i \in DOMAIN Registry
       PROVE  OwnRows(w, i)' /\ Backed(w, i)' /\ InOrder(w, i)' /\ Fresh(w, i)'
  <2> DEFINE d == Registry[i].name
             t == Registry[i].store
  <2>1. OwnRows(w, i) /\ Backed(w, i) /\ InOrder(w, i) /\ Fresh(w, i)
    BY <1>2 DEF WorkerInv
  <2>2. d \in Detectors /\ t \in StoreNames
    BY RegisteredNames
  <2>3. Fresh(w, i)'
    BY <1>8, <2>1 DEF Fresh
  <2>4. CASE t # s
    BY <1>8, <2>1, <2>2, <2>3, <2>4 DEF OwnRows, Backed, InOrder, AllBefore
  <2>5. CASE t = s
    <3>1. RowsOfSession(csv'[s], w, d)
            = RowsOfSession(csv[s], w, d) \cup RowsOfSession(Lines(w), w, d)
      BY <1>5, <1>8, RowsOfConcat
    <3>2. RowsOfSession(Lines(w), w, d) = RowsOfSession(buffer[w][s], w, d)
      BY <1>5, <2>2
    <3>3. RowsOfSession(<<>>, w, d) = {} /\ InSliceOrder(<<>>, w, d) /\ ToSet(<<>>) = {}
      BY RowsOfNothing DEF ToSet
    <3>4. OwnRows(w, i)'
      BY <1>8, <2>5, <3>3 DEF OwnRows
    <3>5. Backed(w, i)'
      BY <1>8, <2>1, <2>5, <3>1, <3>2, <3>3 DEF Backed
    <3>6. InSliceOrder(csv'[s], w, d)
      <4>1. InSliceOrder(csv[s], w, d) /\ InSliceOrder(Lines(w), w, d)
        BY <1>5, <2>1, <2>2, <2>5 DEF InOrder
      <4>2. AllBefore(csv[s], Lines(w), w, d)
        BY <2>1, <2>5, <3>2 DEF InOrder, AllBefore
      <4> QED
        BY <1>5, <1>8, <4>1, <4>2, OrderOfConcat
    <3>7. AllBefore(csv'[s], <<>>, w, d)
      BY <3>3 DEF AllBefore
    <3>8. InOrder(w, i)'
      BY <1>8, <2>1, <2>5, <3>3, <3>6, <3>7 DEF InOrder, AllBefore
    <3> QED
      BY <2>3, <3>4, <3>5, <3>8
  <2> QED
    BY <2>4, <2>5
<1>11. WorkerInv(w)'
  BY <1>9, <1>10 DEF WorkerInv
<1>12. ASSUME NEW v \in Workers \ {w}
       PROVE  WorkerInv(v)'
  <2>1. \A d \in Detectors : RowsOfSession(Lines(w), v, d) = {}
    <3>1. \A a \in ToSet(buffer[w][s]) : a.worker = w
      BY <1>2, <1>3, RegistryFacts DEF WorkerInv, OwnRows, OfSession
    <3>2. \A d \in Detectors : RowsOfSession(buffer[w][s], v, d) = {}
      BY <3>1 DEF RowsOfSession, OfSession
    <3> QED
      BY <1>5, <3>2
  <2>2. \A t \in StoreNames : csv'[t] = csv[t] \/ csv'[t] = csv[t] \o Lines(w)
    BY <1>8
  <2>3. buffer'[v] = buffer[v]
    BY <1>1, <1>4 DEF AnalysisType
  <2> QED
    BY <1>1, <1>5, <1>6, <1>7, <1>8, <2>1, <2>2, <2>3, OthersKeepInv DEF MetricsInv
<1> QED
  BY <1>7, <1>11, <1>12 DEF MetricsInv

LEMMA PersistEventKeepsInv ==
  ASSUME MetricsInv, NEW w \in Workers, PersistEvent(w)
  PROVE  MetricsInv'
<1> DEFINE e == Head(bundle[w].results)
<1>1. AnalysisType
  BY DEF MetricsInv
<1>2. WorkerInv(w) /\ Control(w) /\ stage[w] = "persist" /\ bundle[w] # NoBundle
  BY DEF MetricsInv, WorkerInv, PersistEvent
<1>3. UNCHANGED <<selection, stage, taken, todo, buffer, writing, csvFiles, csv,
                  cancelled, writeFaults>>
  BY DEF PersistEvent
<1>4. bundle[w] \in [results : Seq(RowType), alerts : Seq(RowType)]
      /\ results[w] \in Seq(RowType)
  BY <1>1 DEF AnalysisType, BundleType
<1>5. Control(w)'
  BY <1>2, <1>3 DEF Control
<1>6. CASE bundle[w].results # <<>>
  <2>1. /\ results' = [results EXCEPT ![w] = Append(@, e)]
        /\ bundle' = [bundle EXCEPT ![w].results = Tail(@)]
    BY <1>6 DEF PersistEvent
  <2>2. /\ e \in RowType /\ Tail(bundle[w].results) \in Seq(RowType)
        /\ <<e>> \in Seq(RowType)
        /\ bundle[w].results = <<e>> \o Tail(bundle[w].results)
    BY <1>4, <1>6, HeadAndTail
  <2> HIDE DEF e
  <2>3. Append(results[w], e) \in Seq(RowType)
    BY <1>4, <2>2
  <2>4. /\ results'[w] = Append(results[w], e) /\ bundle'[w].results = Tail(bundle[w].results)
        /\ \A v \in Workers \ {w} : results'[v] = results[v] /\ bundle'[v] = bundle[v]
    BY <1>1, <1>4, <2>1, <2>2 DEF AnalysisType
  <2>5. AnalysisType'
    <3>1. results' \in [Workers -> Seq(RowType)]
      BY <1>1, <2>1, <2>3 DEF AnalysisType
    <3>2. bundle' \in [Workers -> BundleType]
      BY <1>1, <1>4, <2>1, <2>2 DEF AnalysisType, BundleType
    <3> QED
      BY <1>1, <1>3, <3>1, <3>2 DEF AnalysisType
  <2>6. ASSUME NEW i \in DOMAIN Registry
        PROVE  OwnRows(w, i)' /\ Backed(w, i)' /\ InOrder(w, i)' /\ Fresh(w, i)'
    <3> DEFINE d == Registry[i].name
               rest == Tail(bundle[w].results)
    <3>1. OwnRows(w, i) /\ Backed(w, i) /\ InOrder(w, i) /\ Fresh(w, i)
      BY <1>2 DEF WorkerInv
    <3>2. RowsOfSession(<<e>>, w, d) = IF OfSession(e, w, d) THEN {e} ELSE {}
      BY <2>2, RowsOfOne
    <3>3. RowsOfSession(<<e>> \o rest, w, d)
            = RowsOfSession(<<e>>, w, d) \cup RowsOfSession(rest, w, d)
      <4> DEFINE one == <<e>>
                 others == rest
      <4>1. one \in Seq(RowType) /\ others \in Seq(RowType)
        BY <2>2
      <4> HIDE DEF one, others
      <4>2. RowsOfSession(one \o others, w, d)
              = RowsOfSession(one, w, d) \cup RowsOfSession(others, w, d)
        BY <4>1, RowsOfConcat
      <4> QED
        BY <4>2 DEF one, others
    <3>4. RowsOfSession(bundle[w].results, w, d)
            = (IF OfSession(e, w, d) THEN {e} ELSE {}) \cup RowsOfSession(rest, w, d)
      BY <2>2, <3>2, <3>3
    <3>5. InSliceOrder(bundle[w].results, w, d) /\ AllBefore(results[w], bundle[w].results, w, d)
          /\ InSliceOrder(results[w], w, d)
      BY <3>1 DEF InOrder
    <3>6. InSliceOrder(rest, w, d) /\ AllBefore(<<e>>, rest, w, d)
      BY <1>4, <1>6, <3>5, TailInOrder DEF e
    <3> HIDE DEF rest
    <3>7. RowsOfSession(results'[w], w, d)
            = RowsOfSession(results[w], w, d) \cup (IF OfSession(e, w, d) THEN {e} ELSE {})
      BY <1>4, <2>2, <2>4, RowAppended
    <3>8. InSliceOrder(results'[w], w, d)
      <4>1. OfSession(e, w, d) => \A y \in RowsOfSession(results[w], w, d) : y.slice < e.slice
        BY <3>4, <3>5 DEF AllBefore
      <4> QED
        BY <1>4, <2>2, <2>4, <3>5, <4>1, RowAppended
    <3>9. AllBefore(results'[w], rest, w, d)
      BY <3>2, <3>4, <3>5, <3>6, <3>7 DEF AllBefore
    <3>10. bundle'[w].results = rest
      BY <2>4 DEF rest
    <3>11. OwnRows(w, i)'
      BY <1>3, <3>1 DEF OwnRows
    <3>12. RowsOfSession(results'[w], w, d) \cup RowsOfSession(rest, w, d)
             = RowsOfSession(results[w], w, d) \cup RowsOfSession(bundle[w].results, w, d)
      BY <3>4, <3>7
    <3>13. Backed(w, i)'
      BY <1>3, <3>1, <3>10, <3>12 DEF Backed
    <3>14. InOrder(w, i)'
      BY <1>3, <3>1, <3>6, <3>8, <3>9, <3>10 DEF InOrder, AllBefore
    <3>15. Fresh(w, i)'
      BY <1>3, <3>1, <3>10, <3>12 DEF Fresh
    <3> QED
      BY <3>11, <3>13, <3>14, <3>15
  <2>7. WorkerInv(w)'
    BY <1>5, <2>6 DEF WorkerInv
  <2>8. ASSUME NEW v \in Workers \ {w}
        PROVE  WorkerInv(v)'
    BY <1>1, <1>3, <2>4, <2>5, <2>8, OthersKeepInv DEF MetricsInv
  <2> QED
    BY <2>5, <2>7, <2>8 DEF MetricsInv
<1>7. CASE bundle[w].results = <<>>
  <2>1. /\ bundle' = [bundle EXCEPT ![w].alerts = Tail(@)]
        /\ results' = results
    BY <1>7 DEF PersistEvent
  <2>2. bundle[w].alerts # <<>>
    BY <1>2, <1>4, <1>7 DEF NoBundle
  <2>3. Tail(bundle[w].alerts) \in Seq(RowType)
    BY <1>4, <2>2, HeadAndTail
  <2>4. /\ bundle'[w].results = bundle[w].results
        /\ \A v \in Workers \ {w} : bundle'[v] = bundle[v]
        /\ bundle' \in [Workers -> BundleType]
    BY <1>1, <1>4, <2>1, <2>3 DEF AnalysisType, BundleType
  <2>5. AnalysisType'
    BY <1>1, <1>3, <2>1, <2>4 DEF AnalysisType
  <2>6. ASSUME NEW i \in DOMAIN Registry
        PROVE  OwnRows(w, i)' /\ Backed(w, i)' /\ InOrder(w, i)' /\ Fresh(w, i)'
    BY <1>2, <1>3, <2>1, <2>4 DEF WorkerInv, OwnRows, Backed, InOrder, AllBefore, Fresh
  <2>7. WorkerInv(w)'
    BY <1>5, <2>6 DEF WorkerInv
  <2>8. ASSUME NEW v \in Workers \ {w}
        PROVE  WorkerInv(v)'
    BY <1>1, <1>3, <2>1, <2>4, <2>5, <2>8, OthersKeepInv DEF MetricsInv
  <2> QED
    BY <2>5, <2>7, <2>8 DEF MetricsInv
<1> QED
  BY <1>6, <1>7

LEMMA StepKeepsMetricsInv ==
  ASSUME MetricsInv, [AnalysisNext]_analysisVars
  PROVE  MetricsInv'
<1>1. CASE UNCHANGED analysisVars
  <2>1. AnalysisType /\ AnalysisType'
    BY <1>1 DEF MetricsInv, AnalysisType, analysisVars
  <2>2. ASSUME NEW v \in Workers
        PROVE  WorkerInv(v)'
    BY <1>1, <2>1, OthersKeepInv DEF MetricsInv, analysisVars
  <2> QED
    BY <2>1, <2>2 DEF MetricsInv
<1>2. CASE AnalysisNext
  <2>1. PICK w \in Workers :
          \/ TakeSlice(w) \/ NoMoreSlices(w)
          \/ DetectorFails(w) \/ \E alerting \in BOOLEAN : DetectorReports(w, alerting)
          \/ Write(w) \/ WriteFails(w)
          \/ BundleReady(w) \/ PersistEvent(w) \/ PersistFails(w) \/ BundlePersisted(w)
          \/ RequestStop(w)
    BY <1>2 DEF AnalysisNext
  <2> QED
    BY <2>1, TakeSliceKeepsInv, NoMoreSlicesKeepsInv, DetectorFailsKeepsInv,
       DetectorReportsKeepsInv, WriteKeepsInv, WriteFailsKeepsInv, BundleReadyKeepsInv,
       PersistEventKeepsInv, PersistFailsKeepsInv, BundlePersistedKeepsInv,
       RequestStopKeepsInv
<1> QED
  BY <1>1, <1>2

\* The strengthened invariant, for any workers, buffers and bounds: rows are
\* made once per slice and detector, and none is lost on the way to either
\* place (run_enabled_analyzers_bundle, BufferedCsvStore).
THEOREM AnalysisInvariant == AnalysisSpec => []MetricsInv
<1>1. AnalysisInit => MetricsInv
  BY InitEstablishesMetricsInv
<1>2. MetricsInv /\ [AnalysisNext]_analysisVars => MetricsInv'
  BY StepKeepsMetricsInv
<1> QED
  BY <1>1, <1>2, PTL DEF AnalysisSpec

\* Buffered rows, shared files, detectors that fail: at the end of a session
\* that was not failed the metric files and the result log agree row by row
\* (finalize_session_outcome, flush_metric_stores).
THEOREM MetricFilesBackTheLog == AnalysisSpec => []MetricsBackResults
<1>1. MetricsInv => MetricsBackResults
  <2> SUFFICES ASSUME MetricsInv, NEW w \in Workers, stage[w] \in {"completed", "cancelled"},
                      NEW i \in DOMAIN Registry
               PROVE  LET d == Registry[i].name
                          lines == csv[Registry[i].store]
                      IN  /\ RowsOfSession(lines, w, d) = RowsOfSession(results[w], w, d)
                          /\ InSliceOrder(lines, w, d)
                          /\ InSliceOrder(results[w], w, d)
    BY DEF MetricsBackResults
  <2> DEFINE d == Registry[i].name
             s == Registry[i].store
  <2>1. Backed(w, i) /\ InOrder(w, i) /\ Control(w)
    BY DEF MetricsInv, WorkerInv
  <2>2. buffer[w][s] = <<>> /\ bundle[w].results = <<>>
    BY <2>1, RegistryFacts DEF Control, NoBundle
  <2>3. RowsOfSession(<<>>, w, d) = {}
    BY RowsOfNothing
  <2> QED
    BY <2>1, <2>2, <2>3 DEF Backed, InOrder
<1> QED
  BY <1>1, AnalysisInvariant, PTL

-----------------------------------------------------------------------------
\* What the sticky reveal relies on: all that was shown has been revealed, and
\* nothing is shown before a reply told of the session, so that no alert of
\* another kind of source is left over when the kind changes.
RevealInv ==
  /\ sourceKind \in SourceKinds
  /\ session = 0 => alerts = {} /\ shown = {}
  /\ Sticky => shown \subseteq revealed

\* Without alerts a render makes nothing visible, and displays nothing.
LEMMA NothingToDisplay ==
  ASSUME sourceKind' \in SourceKinds, alerts' = {}
  PROVE  Displayed' = {}
<1>1. Visible' = {}
  BY DEF Visible, SourceKinds
<1> QED
  BY <1>1 DEF Displayed

\* The render after a callback, which changes the kind of the source only when
\* it starts a session, and has no alerts then.
LEMMA RenderKeepsInv ==
  ASSUME RevealInv, Render, sourceKind' \in SourceKinds,
         sourceKind' = sourceKind \/ session' = 0,
         session' = 0 => alerts' = {}
  PROVE  RevealInv'
<1>1. CASE session' = 0
  <2>1. Displayed' = {}
    BY <1>1, NothingToDisplay
  <2>2. shown' = {}
    BY <1>1, <2>1 DEF Render, RevealInv
  <2> QED
    BY <1>1, <2>2 DEF RevealInv
<1>2. CASE session' # 0
  <2> SUFFICES ASSUME Sticky' PROVE shown' \subseteq revealed'
    BY <1>2 DEF RevealInv
  <2>1. Sticky
    BY <1>2 DEF Sticky
  <2>2. Visible' \subseteq revealed'
    BY DEF Render
  <2>3. Displayed' \subseteq revealed'
    BY <2>2 DEF Displayed
  <2> QED
    BY <2>1, <2>3 DEF Render, RevealInv
<1> QED
  BY <1>1, <1>2

\* Nothing is shown at first, and every step keeps the invariant.
THEOREM RevealInvariant == RevealSpec => []RevealInv
<1>1. RevealInit => RevealInv
  BY DEF RevealInit, RevealInv, SourceKinds
<1>2. RevealInv /\ [RevealNext]_revealVars => RevealInv'
  <2> SUFFICES ASSUME RevealInv, [RevealNext]_revealVars PROVE RevealInv'
    OBVIOUS
  <2>1. ASSUME NEW k \in SourceKinds, StartPlayback(k)
        PROVE  RevealInv'
    BY <2>1, RenderKeepsInv DEF StartPlayback
  <2>2. ASSUME NEW n \in 0 .. MaxPosition, PollReply(n)
        PROVE  RevealInv'
    <3>1. session' # 0
      BY <2>2 DEF PollReply
    <3> QED
      BY <2>2, <3>1, RenderKeepsInv DEF PollReply, RevealInv
  <2>3. ASSUME Render, UNCHANGED <<sourceKind, session, alerts>>
        PROVE  RevealInv'
    BY <2>3, RenderKeepsInv DEF RevealInv
  <2>4. CASE EndPlayback
    BY <2>3, <2>4 DEF EndPlayback
  <2>5. ASSUME NEW e \in {"direct", "native", "hls"}, Attach(e)
        PROVE  RevealInv'
    BY <2>3, <2>5 DEF Attach
  <2>6. ASSUME NEW m \in Maps, ManifestLoaded(m) \/ ManifestLost(m) \/ LevelLoaded(m)
        PROVE  RevealInv'
    BY <2>3, <2>6 DEF ManifestLoaded, ManifestLost, LevelLoaded
  <2>7. ASSUME NEW n \in Positions, FragmentChanged(n)
        PROVE  RevealInv'
    BY <2>3, <2>7 DEF FragmentChanged
  <2>8. ASSUME NEW n \in 0 .. MaxPosition, TimeUpdate(n)
        PROVE  RevealInv'
    BY <2>3, <2>8 DEF TimeUpdate
  <2>9. ASSUME NEW finite \in BOOLEAN, MetadataLoaded(finite)
        PROVE  RevealInv'
    BY <2>3, <2>9 DEF MetadataLoaded
  <2>10. CASE UNCHANGED revealVars
    BY <2>10 DEF revealVars, RevealInv, Sticky
  <2> QED
    BY <2>1, <2>2, <2>4, <2>5, <2>6, <2>7, <2>8, <2>9, <2>10 DEF RevealNext
<1> QED
  BY <1>1, <1>2, PTL DEF RevealSpec

\* A local alert does not vanish when the user seeks back, when replies
\* overtake each other or when another playlist moves the segments
\* (usesStickyLocalAlertReveal, mergeDisplayedAlerts).
THEOREM AlertsStayShown == RevealSpec => []ShownAlertsStay
<1>1. RevealInv => ShownAlertsStay
  BY DEF RevealInv, ShownAlertsStay, Displayed
<1> QED
  BY <1>1, RevealInvariant, PTL

-----------------------------------------------------------------------------
(* AlertRules: sums.                                                       *)

\* g gives the sums of the beginnings of s, up to the n-th.
SumsUpTo(g, s, n) == g = [m \in 0 .. n |-> IF m = 0 THEN 0 ELSE g[m - 1] + s[m]]

\* The sums of the beginnings of a sequence, up to the n-th, are one function
\* and no other.
LEMMA PartialSums ==
  ASSUME NEW s
  PROVE  \A n \in Nat : \E g : SumsUpTo(g, s, n)
<1> USE DEF SumsUpTo
<1> DEFINE P(g, n) == SumsUpTo(g, s, n)
           T == {n \in Nat : \E g : P(g, n)}
<1>1. 0 \in T
  <2>1. P([m \in 0 .. 0 |-> 0], 0)
    OBVIOUS
  <2> QED
    BY <2>1
<1>2. ASSUME NEW n \in Nat, n \in T
      PROVE  n + 1 \in T
  <2>1. PICK g : P(g, n)
    BY <1>2
  <2> DEFINE h == [m \in 0 .. n + 1 |-> IF m = n + 1 THEN g[n] + s[n + 1] ELSE g[m]]
  <2>2. ASSUME NEW m \in 0 .. n + 1
        PROVE  h[m] = IF m = 0 THEN 0 ELSE h[m - 1] + s[m]
    <3>1. CASE m = n + 1
      <4>1. h[m] = g[n] + s[m] /\ h[m - 1] = g[n] /\ m # 0
        BY <3>1
      <4> QED
        BY <4>1
    <3>2. CASE m = 0
      BY <2>1, <3>2
    <3>3. CASE m \in 1 .. n
      <4>1. h[m] = g[m] /\ h[m - 1] = g[m - 1]
        BY <3>3
      <4>2. g[m] = g[m - 1] + s[m]
        BY <2>1, <3>3
      <4> QED
        BY <3>3, <4>1, <4>2
    <3> QED
      BY <3>1, <3>2, <3>3
  <2>3. h = [m \in 0 .. n + 1 |-> h[m]]
    OBVIOUS
  <2> HIDE DEF h
  <2>4. P(h, n + 1)
    BY <2>2, <2>3
  <2> QED
    BY <2>4
<1> HIDE DEF T
<1>3. Nat \subseteq T
  BY <1>1, <1>2, SetInduction
<1> QED
  BY <1>3 DEF T

LEMMA PartialSumsAgree ==
  ASSUME NEW s, NEW g, NEW h, NEW n \in Nat, NEW l \in Nat,
         SumsUpTo(g, s, n), SumsUpTo(h, s, l)
  PROVE  \A m \in Nat : m <= n /\ m <= l => g[m] = h[m]
<1> USE DEF SumsUpTo
<1> DEFINE T == {m \in Nat : m <= n /\ m <= l => g[m] = h[m]}
<1>1. 0 \in T
  OBVIOUS
<1>2. ASSUME NEW m \in Nat, m \in T
      PROVE  m + 1 \in T
  <2> SUFFICES ASSUME m + 1 <= n, m + 1 <= l
               PROVE  g[m + 1] = h[m + 1]
    OBVIOUS
  <2>1. g[m] = h[m]
    BY <1>2
  <2>2. g[m + 1] = g[m] + s[m + 1] /\ h[m + 1] = h[m] + s[m + 1]
    <3>1. m + 1 \in 0 .. n /\ m + 1 \in 0 .. l /\ m + 1 # 0 /\ (m + 1) - 1 = m
      OBVIOUS
    <3> QED
      BY <3>1
  <2> QED
    BY <2>1, <2>2
<1> HIDE DEF T
<1>3. Nat \subseteq T
  BY <1>1, <1>2, SetInduction
<1> QED
  BY <1>3 DEF T

LEMMA SumsExist ==
  ASSUME NEW s
  PROVE  \E f : f = [m \in Nat |-> IF m = 0 THEN 0 ELSE f[m - 1] + s[m]]
<1> DEFINE P(g, n) == SumsUpTo(g, s, n)
           G(n) == CHOOSE g : P(g, n)
           f == [n \in Nat |-> G(n)[n]]
<1>1. \A n \in Nat : P(G(n), n)
  BY PartialSums
<1>2. ASSUME NEW m \in Nat
      PROVE  f[m] = IF m = 0 THEN 0 ELSE f[m - 1] + s[m]
  <2>1. CASE m = 0
    <3>1. G(0)[0] = 0
      <4> HIDE DEF G
      <4> QED
        BY <1>1 DEF SumsUpTo
    <3> QED
      BY <2>1, <3>1
  <2>2. CASE m # 0
    <3>1. f[m] = G(m)[m] /\ f[m - 1] = G(m - 1)[m - 1]
      BY <2>2
    <3> HIDE DEF G, f
    <3>2. G(m)[m] = G(m)[m - 1] + s[m]
      BY <1>1, <2>2 DEF SumsUpTo
    <3>3. G(m)[m - 1] = G(m - 1)[m - 1]
      <4>1. m - 1 \in Nat /\ m - 1 <= m
        BY <2>2
      <4>2. P(G(m), m) /\ P(G(m - 1), m - 1)
        BY <1>1, <4>1
      <4>3. \A g, h : P(g, m) /\ P(h, m - 1) => g[m - 1] = h[m - 1]
        <5> SUFFICES ASSUME NEW g, NEW h, P(g, m), P(h, m - 1)
                     PROVE  g[m - 1] = h[m - 1]
          OBVIOUS
        <5>1. \A i \in Nat : i <= m /\ i <= m - 1 => g[i] = h[i]
          BY <4>1, PartialSumsAgree
        <5> QED
          BY <4>1, <5>1
      <4> HIDE DEF P
      <4> QED
        BY <4>2, <4>3
    <3> QED
      BY <2>2, <3>1, <3>2, <3>3
  <2> QED
    BY <2>1, <2>2
<1>3. f = [m \in Nat |-> f[m]]
  OBVIOUS
<1> HIDE DEF f
<1>4. f = [m \in Nat |-> IF m = 0 THEN 0 ELSE f[m - 1] + s[m]]
  BY <1>2, <1>3
<1> QED
  BY <1>4

\* What the recursive definition says of the sum.
LEMMA SumSteps ==
  ASSUME NEW s
  PROVE  /\ SumTo(s, 0) = 0
         /\ \A n \in Nat : SumTo(s, n + 1) = SumTo(s, n) + s[n + 1]
<1> DEFINE sum == CHOOSE f : f = [m \in Nat |-> IF m = 0 THEN 0 ELSE f[m - 1] + s[m]]
<1>1. sum = [m \in Nat |-> IF m = 0 THEN 0 ELSE sum[m - 1] + s[m]]
  BY SumsExist
<1>2. \A n : SumTo(s, n) = sum[n]
  BY DEF SumTo
<1> HIDE DEF sum
<1>3. sum[0] = 0
  BY <1>1
<1>4. ASSUME NEW n \in Nat
      PROVE  sum[n + 1] = sum[n] + s[n + 1]
  <2>1. n + 1 \in Nat /\ n + 1 # 0 /\ (n + 1) - 1 = n
    OBVIOUS
  <2> QED
    BY <1>1, <2>1
<1> QED
  BY <1>2, <1>3, <1>4

\* Sums of the same numbers are the same.
LEMMA SumsAgree ==
  ASSUME NEW s, NEW t, NEW n \in Nat, \A m \in 1 .. n : s[m] = t[m]
  PROVE  \A m \in 0 .. n : SumTo(s, m) = SumTo(t, m)
<1> DEFINE T == {m \in Nat : m <= n => SumTo(s, m) = SumTo(t, m)}
<1>1. 0 \in T
  BY SumSteps
<1>2. ASSUME NEW m \in Nat, m \in T
      PROVE  m + 1 \in T
  <2>1. SumTo(s, m + 1) = SumTo(s, m) + s[m + 1] /\ SumTo(t, m + 1) = SumTo(t, m) + t[m + 1]
    BY SumSteps
  <2>2. m + 1 <= n => m + 1 \in 1 .. n /\ SumTo(s, m) = SumTo(t, m)
    BY <1>2
  <2>3. m + 1 <= n => SumTo(s, m + 1) = SumTo(t, m + 1)
    BY <2>1, <2>2
  <2> QED
    BY <2>3
<1> HIDE DEF T
<1>3. Nat \subseteq T
  BY <1>1, <1>2, SetInduction
<1>4. \A m \in Nat : m <= n => SumTo(s, m) = SumTo(t, m)
  BY <1>3 DEF T
<1> QED
  BY <1>4

\* A sum of integers is one.
LEMMA SumsAreIntegers ==
  ASSUME NEW s, NEW n \in Nat, \A m \in 1 .. n : s[m] \in Int
  PROVE  \A m \in 0 .. n : SumTo(s, m) \in Int
<1> DEFINE T == {m \in Nat : m <= n => SumTo(s, m) \in Int}
<1>1. 0 \in T
  BY SumSteps
<1>2. ASSUME NEW m \in Nat, m \in T
      PROVE  m + 1 \in T
  <2>1. SumTo(s, m + 1) = SumTo(s, m) + s[m + 1]
    BY SumSteps
  <2>2. m + 1 <= n => m + 1 \in 1 .. n /\ SumTo(s, m) \in Int
    BY <1>2
  <2>3. m + 1 <= n => SumTo(s, m + 1) \in Int
    BY <2>1, <2>2
  <2> QED
    BY <2>3
<1> HIDE DEF T
<1>3. Nat \subseteq T
  BY <1>1, <1>2, SetInduction
<1>4. \A m \in Nat : m <= n => SumTo(s, m) \in Int
  BY <1>3 DEF T
<1> QED
  BY <1>4

\* The first n members of s are those of t after its f-th, all of them integers.
EndOf(s, n, t, f) ==
  (\A m \in 1 .. f + n : t[m] \in Int) /\ (\A m \in 1 .. n : s[m] = t[f + m])

\* Such an end sums to the difference.
LEMMA SumOfAnEnd ==
  ASSUME NEW s, NEW t, NEW f \in Nat, NEW n \in Nat, EndOf(s, n, t, f)
  PROVE  SumTo(s, n) = SumTo(t, f + n) - SumTo(t, f)
<1> USE DEF EndOf
<1> DEFINE T == {m \in Nat : m <= n => SumTo(s, m) = SumTo(t, f + m) - SumTo(t, f)}
<1>1. \A m \in 0 .. f + n : SumTo(t, m) \in Int
  BY SumsAreIntegers
<1>2. 0 \in T
  <2>1. SumTo(s, 0) = 0 /\ SumTo(t, f) \in Int /\ f + 0 = f
    BY <1>1, SumSteps
  <2> QED
    BY <2>1
<1>3. ASSUME NEW m \in Nat, m \in T
      PROVE  m + 1 \in T
  <2> SUFFICES ASSUME m + 1 <= n
               PROVE  SumTo(s, m + 1) = SumTo(t, f + (m + 1)) - SumTo(t, f)
    OBVIOUS
  <2>1. SumTo(s, m + 1) = SumTo(s, m) + s[m + 1]
    BY SumSteps
  <2>2. SumTo(t, (f + m) + 1) = SumTo(t, f + m) + t[(f + m) + 1]
    <3>1. f + m \in Nat
      OBVIOUS
    <3> QED
      BY <3>1, SumSteps
  <2>3. (f + m) + 1 = f + (m + 1)
    OBVIOUS
  <2>4. s[m + 1] = t[f + (m + 1)]
    OBVIOUS
  <2>5. SumTo(s, m) = SumTo(t, f + m) - SumTo(t, f)
    BY <1>3
  <2>6. SumTo(t, f + m) \in Int /\ SumTo(t, f) \in Int
    BY <1>1
  <2>7. t[f + (m + 1)] \in Int
    OBVIOUS
  <2> QED
    BY <2>1, <2>2, <2>3, <2>4, <2>5, <2>6, <2>7
<1> HIDE DEF T
<1>4. Nat \subseteq T
  BY <1>2, <1>3, SetInduction
<1>5. \A m \in Nat : m <= n => SumTo(s, m) = SumTo(t, f + m) - SumTo(t, f)
  BY <1>4 DEF T
<1> QED
  BY <1>5

\* Sums of natural numbers only grow.
LEMMA SumsGrow ==
  ASSUME NEW s, NEW n \in Nat, \A m \in 1 .. n : s[m] \in Nat
  PROVE  \A j \in 0 .. n : \A i \in 0 .. j : SumTo(s, i) <= SumTo(s, j) /\ SumTo(s, i) \in Nat
<1> DEFINE T == {j \in Nat : j <= n =>
                   /\ SumTo(s, j) \in Nat
                   /\ \A i \in 0 .. j : SumTo(s, i) <= SumTo(s, j) /\ SumTo(s, i) \in Nat}
<1>1. 0 \in T
  <2>1. SumTo(s, 0) = 0 /\ \A i \in 0 .. 0 : i = 0
    BY SumSteps
  <2> QED
    BY <2>1
<1>2. ASSUME NEW j \in Nat, j \in T
      PROVE  j + 1 \in T
  <2> SUFFICES ASSUME j + 1 <= n
               PROVE  /\ SumTo(s, j + 1) \in Nat
                      /\ \A i \in 0 .. j + 1 : SumTo(s, i) <= SumTo(s, j + 1) /\ SumTo(s, i) \in Nat
    OBVIOUS
  <2>1. SumTo(s, j + 1) = SumTo(s, j) + s[j + 1] /\ s[j + 1] \in Nat
    BY SumSteps
  <2>2. /\ SumTo(s, j) \in Nat
        /\ \A i \in 0 .. j : SumTo(s, i) <= SumTo(s, j) /\ SumTo(s, i) \in Nat
    BY <1>2
  <2>3. SumTo(s, j + 1) \in Nat /\ SumTo(s, j) <= SumTo(s, j + 1)
    BY <2>1, <2>2
  <2>4. \A i \in 0 .. j + 1 : i = j + 1 \/ i \in 0 .. j
    OBVIOUS
  <2> QED
    BY <2>2, <2>3, <2>4
<1> HIDE DEF T
<1>3. Nat \subseteq T
  BY <1>1, <1>2, SetInduction
<1>4. \A j \in Nat : j <= n =>
        \A i \in 0 .. j : SumTo(s, i) <= SumTo(s, j) /\ SumTo(s, i) \in Nat
  BY <1>3 DEF T
<1> QED
  BY <1>4

-----------------------------------------------------------------------------
(* The black rows and the time they last.                                  *)

LEMMA SampleTypes ==
  ASSUME NEW row \in BlackRowType
  PROVE  Lasting(row) \in 1 .. BlackWindow /\ Lasting(row) \in Nat /\ BlackRatio(row) \in Nat
<1>1. row.duration \in Nat /\ row.ratio \in Int
  BY DEF BlackRowType
<1> QED
  BY <1>1 DEF Lasting, BlackRatio, Clamp, Least, Greatest, BlackWindow

\* The time played is a sum of positive durations.
LEMMA PlayedSteps ==
  ASSUME NEW h \in Seq(BlackRowType)
  PROVE  /\ Played(h, 0) = 0
         /\ \A m \in 1 .. Len(h) : Played(h, m) = Played(h, m - 1) + Lasting(h[m])
         /\ \A j \in 0 .. Len(h) : \A i \in 0 .. j :
              Played(h, i) <= Played(h, j) /\ Played(h, i) \in Nat
<1> DEFINE d == [m \in DOMAIN h |-> Lasting(h[m])]
<1>1. Len(h) \in Nat /\ DOMAIN h = 1 .. Len(h) /\ \A m \in 1 .. Len(h) : h[m] \in BlackRowType
  OBVIOUS
<1>2. \A m \in 1 .. Len(h) : d[m] = Lasting(h[m]) /\ d[m] \in Nat
  BY <1>1, SampleTypes DEF BlackWindow
<1>3. \A m : Played(h, m) = SumTo(d, m)
  BY DEF Played
<1> HIDE DEF d
<1>4. ASSUME NEW m \in 1 .. Len(h)
      PROVE  SumTo(d, m) = SumTo(d, m - 1) + Lasting(h[m])
  <2>1. m - 1 \in Nat /\ (m - 1) + 1 = m
    BY <1>1
  <2>2. SumTo(d, (m - 1) + 1) = SumTo(d, m - 1) + d[(m - 1) + 1]
    BY <2>1, SumSteps
  <2> QED
    BY <1>2, <2>1, <2>2
<1>5. \A j \in 0 .. Len(h) : \A i \in 0 .. j : SumTo(d, i) <= SumTo(d, j) /\ SumTo(d, i) \in Nat
  BY <1>1, <1>2, SumsGrow
<1>6. SumTo(d, 0) = 0
  BY SumSteps
<1> QED
  BY <1>3, <1>4, <1>5, <1>6

\* What the rows up to the i-th say does not change when a row follows.
LEMMA PlayedOnceAndForAll ==
  ASSUME NEW h \in Seq(BlackRowType), NEW row \in BlackRowType
  PROVE  /\ \A m \in 0 .. Len(h) : Played(Append(h, row), m) = Played(h, m)
         /\ \A i \in 0 .. Len(h) : RecentBlack(Append(h, row), i) = RecentBlack(h, i)
<1> DEFINE h2 == Append(h, row)
<1>1. /\ h2 \in Seq(BlackRowType) /\ Len(h2) = Len(h) + 1 /\ Len(h) \in Nat
      /\ \A m \in 1 .. Len(h) : h2[m] = h[m]
      /\ DOMAIN h = 1 .. Len(h) /\ DOMAIN h2 = 1 .. Len(h) + 1
  OBVIOUS
<1> HIDE DEF h2
<1>2. \A m \in 0 .. Len(h) : Played(h2, m) = Played(h, m)
  <2> DEFINE d  == [m \in DOMAIN h |-> Lasting(h[m])]
             d2 == [m \in DOMAIN h2 |-> Lasting(h2[m])]
  <2>1. \A m \in 1 .. Len(h) : d2[m] = d[m]
    BY <1>1
  <2>2. \A m : Played(h, m) = SumTo(d, m) /\ Played(h2, m) = SumTo(d2, m)
    BY DEF Played
  <2> HIDE DEF d, d2
  <2>3. \A m \in 0 .. Len(h) : SumTo(d2, m) = SumTo(d, m)
    BY <1>1, <2>1, SumsAgree
  <2> QED
    BY <2>2, <2>3
<1>3. ASSUME NEW i \in 0 .. Len(h)
      PROVE  RecentBlack(h2, i) = RecentBlack(h, i)
  <2> DEFINE b  == [j \in 1 .. i |-> Share(h, i, j) * BlackRatio(h[j])]
             b2 == [j \in 1 .. i |-> Share(h2, i, j) * BlackRatio(h2[j])]
  <2>1. ASSUME NEW j \in 1 .. i
        PROVE  Share(h2, i, j) = Share(h, i, j) /\ h2[j] = h[j]
    <3>1. i \in 0 .. Len(h) /\ j \in 0 .. Len(h) /\ j - 1 \in 0 .. Len(h) /\ j \in 1 .. Len(h)
      BY <1>1
    <3>2. /\ Played(h2, i) = Played(h, i) /\ Played(h2, j) = Played(h, j)
          /\ Played(h2, j - 1) = Played(h, j - 1)
      BY <1>2, <3>1
    <3> QED
      BY <1>1, <3>1, <3>2 DEF Share
  <2>2. \A j \in 1 .. i : b2[j] = b[j]
    BY <2>1
  <2>3. RecentBlack(h2, i) = SumTo(b2, i) /\ RecentBlack(h, i) = SumTo(b, i)
    BY DEF RecentBlack
  <2> HIDE DEF b, b2
  <2>4. i \in Nat /\ i \in 0 .. i
    BY <1>1
  <2>5. \A m \in 0 .. i : SumTo(b2, m) = SumTo(b, m)
    BY <2>2, <2>4, SumsAgree
  <2> QED
    BY <2>3, <2>4, <2>5
<1> QED
  BY <1>2, <1>3 DEF h2

\* The moment the last BlackWindow half seconds begin.
Cut(h, n) == Greatest(0, Played(h, n) - BlackWindow)

\* How much of row m lies after it, as a difference of two times.
LEMMA ShareTypes ==
  ASSUME NEW h \in Seq(BlackRowType), NEW m \in 1 .. Len(h)
  PROVE  /\ Cut(h, Len(h)) \in Nat
         /\ Share(h, Len(h), m) \in Nat
         /\ Share(h, Len(h), m) = Greatest(0, Played(h, m) - Greatest(Played(h, m - 1), Cut(h, Len(h))))
<1>1. Len(h) \in Nat /\ m \in 0 .. Len(h) /\ m - 1 \in 0 .. Len(h) /\ Len(h) \in 0 .. Len(h)
  OBVIOUS
<1>2. Played(h, m) \in Nat /\ Played(h, m - 1) \in Nat /\ Played(h, Len(h)) \in Nat
  <2>1. \A i \in 0 .. Len(h) : Played(h, i) \in Nat
    BY <1>1, PlayedSteps
  <2> QED
    BY <1>1, <2>1
<1> QED
  BY <1>2 DEF Share, Cut, Greatest, BlackWindow

LEMMA ShareSums ==
  ASSUME NEW h \in Seq(BlackRowType)
  PROVE  \A m \in 0 .. Len(h) :
           SumTo([j \in 1 .. Len(h) |-> Share(h, Len(h), j)], m)
             = Greatest(0, Played(h, m) - Cut(h, Len(h)))
<1> DEFINE n == Len(h)
           s == [j \in 1 .. n |-> Share(h, n, j)]
           T == {m \in Nat : m <= n => SumTo(s, m) = Greatest(0, Played(h, m) - Cut(h, n))}
<1>1. n \in Nat
  OBVIOUS
<1>2. \A m \in 0 .. n : Played(h, m) \in Nat
  BY PlayedSteps
<1>3. Cut(h, n) \in Nat
  BY <1>1, <1>2 DEF Cut, Greatest, BlackWindow
<1>4. 0 \in T
  <2>1. SumTo(s, 0) = 0 /\ Played(h, 0) = 0
    BY SumSteps, PlayedSteps
  <2> HIDE DEF s, n
  <2> QED
    BY <1>3, <2>1 DEF Greatest
<1>5. ASSUME NEW m \in Nat, m \in T
      PROVE  m + 1 \in T
  <2> SUFFICES ASSUME m + 1 <= n
               PROVE  SumTo(s, m + 1) = Greatest(0, Played(h, m + 1) - Cut(h, n))
    OBVIOUS
  <2>1. SumTo(s, m + 1) = SumTo(s, m) + s[m + 1]
    BY SumSteps
  <2>2. m + 1 \in 1 .. n /\ (m + 1) - 1 = m /\ m \in 0 .. n /\ m + 1 \in 0 .. n /\ m \in 0 .. m + 1
    BY <1>1
  <2>3. s[m + 1] = Greatest(0, Played(h, m + 1) - Greatest(Played(h, m), Cut(h, n)))
    <3>1. s[m + 1] = Share(h, n, m + 1)
      BY <2>2
    <3>2. Share(h, n, m + 1)
            = Greatest(0, Played(h, m + 1) - Greatest(Played(h, (m + 1) - 1), Cut(h, n)))
      BY <2>2, ShareTypes
    <3> QED
      BY <2>2, <3>1, <3>2
  <2>4. SumTo(s, m) = Greatest(0, Played(h, m) - Cut(h, n))
    BY <1>5, <2>2
  <2>5. Played(h, m) <= Played(h, m + 1) /\ Played(h, m) \in Nat /\ Played(h, m + 1) \in Nat
    <3>1. \A j \in 0 .. n : \A i \in 0 .. j : Played(h, i) <= Played(h, j)
      BY PlayedSteps
    <3> QED
      BY <1>2, <2>2, <3>1
  <2> HIDE DEF s, n, T
  <2> QED
    BY <1>3, <2>1, <2>3, <2>4, <2>5 DEF Greatest
<1> HIDE DEF T, s, n
<1>6. Nat \subseteq T
  BY <1>4, <1>5, SetInduction
<1>7. \A m \in Nat : m <= n => SumTo(s, m) = Greatest(0, Played(h, m) - Cut(h, n))
  BY <1>6 DEF T
<1> QED
  BY <1>1, <1>7 DEF n, s

-----------------------------------------------------------------------------
(* The window of the black-screen rule.                                    *)

SampleType == [duration : Nat, ratio : Nat]

\* The window w holds the rows from the f-th on, each with what it has of the
\* last BlackWindow half seconds, and no row before them has a part of those.
BlackWindowFrom(w, h, f) ==
  /\ w \in Seq(SampleType)
  /\ f \in 1 .. Len(h) + 1
  /\ Len(w) = Len(h) + 1 - f
  /\ Played(h, f - 1) <= Cut(h, Len(h))
  /\ \A j \in 1 .. Len(w) :
       w[j] = [duration |-> Share(h, Len(h), f - 1 + j),
               ratio |-> BlackRatio(h[f - 1 + j])]

\* What the rule computes from such a window is what the rows say.
LEMMA WindowSums ==
  ASSUME NEW h \in Seq(BlackRowType), NEW w, NEW f, BlackWindowFrom(w, h, f)
  PROVE  /\ \A j \in 0 .. Len(w) :
              Elapsed(w, j) = Greatest(0, Played(h, f - 1 + j) - Cut(h, Len(h)))
         /\ Duration(w) = Least(BlackWindow, Played(h, Len(h)))
         /\ BlackMass(w) = RecentBlack(h, Len(h)) /\ RecentBlack(h, Len(h)) \in Int
         /\ Played(h, Len(h)) \in Nat
<1> DEFINE n == Len(h)
           e == f - 1
           share == [j \in 1 .. n |-> Share(h, n, j)]
           black == [j \in 1 .. n |-> Share(h, n, j) * BlackRatio(h[j])]
           dur   == [i \in DOMAIN w |-> w[i].duration]
           mass  == [i \in DOMAIN w |-> w[i].duration * w[i].ratio]
<1>1. n \in Nat /\ e \in Nat /\ Len(w) \in Nat /\ e + Len(w) = n /\ DOMAIN w = 1 .. Len(w)
  BY DEF BlackWindowFrom
<1>2. \A j \in 1 .. Len(w) :
        /\ e + j \in 1 .. n
        /\ w[j] = [duration |-> Share(h, n, e + j), ratio |-> BlackRatio(h[e + j])]
  BY <1>1 DEF BlackWindowFrom
<1>3. \A j \in 1 .. n : Share(h, n, j) \in Nat /\ BlackRatio(h[j]) \in Nat
  <2>1. \A j \in 1 .. n : h[j] \in BlackRowType
    OBVIOUS
  <2>2. \A j \in 1 .. n : BlackRatio(h[j]) \in Nat
    BY <2>1, SampleTypes
  <2>3. \A j \in 1 .. n : Share(h, n, j) \in Nat
    BY ShareTypes
  <2> QED
    BY <2>2, <2>3
<1>4. /\ \A j \in 1 .. n : share[j] = Share(h, n, j) /\ share[j] \in Nat
      /\ \A j \in 1 .. Len(w) : dur[j] = share[e + j]
  BY <1>1, <1>2, <1>3
<1>5. /\ \A j \in 1 .. n : black[j] = Share(h, n, j) * BlackRatio(h[j]) /\ black[j] \in Int
      /\ \A j \in 1 .. Len(w) : mass[j] = black[e + j]
  <2>1. \A j \in 1 .. n : black[j] = Share(h, n, j) * BlackRatio(h[j])
    OBVIOUS
  <2>2. \A j \in 1 .. n : black[j] \in Int
    <3>1. \A a, b \in Nat : a * b \in Int
      OBVIOUS
    <3> HIDE DEF black, n
    <3> QED
      BY <1>3, <2>1, <3>1
  <2>3. ASSUME NEW j \in 1 .. Len(w)
        PROVE  mass[j] = black[e + j]
    <3>1. mass[j] = w[j].duration * w[j].ratio
      BY <1>1
    <3> HIDE DEF mass, black, n, e, dur, share
    <3>2. w[j] = [duration |-> Share(h, n, e + j), ratio |-> BlackRatio(h[e + j])]
      BY <1>2
    <3>3. w[j].duration = Share(h, n, e + j) /\ w[j].ratio = BlackRatio(h[e + j])
      BY <3>2
    <3>4. e + j \in 1 .. n
      BY <1>2
    <3> QED
      BY <2>1, <3>1, <3>3, <3>4
  <2> QED
    BY <2>1, <2>2, <2>3
<1>6. /\ \A m \in 0 .. n : SumTo(share, m) = Greatest(0, Played(h, m) - Cut(h, n))
      /\ \A m \in 0 .. n : Played(h, m) \in Nat
  BY ShareSums, PlayedSteps
<1>7. /\ \A j : Elapsed(w, j) = SumTo(dur, j)
      /\ Duration(w) = SumTo(dur, Len(w)) /\ BlackMass(w) = SumTo(mass, Len(w))
      /\ RecentBlack(h, n) = SumTo(black, n)
  BY DEF Elapsed, Duration, BlackMass, RecentBlack
<1>8. Played(h, e) <= Cut(h, n)
  BY DEF BlackWindowFrom
<1>9. Cut(h, n) \in Nat
  BY <1>1, <1>6 DEF Cut, Greatest, BlackWindow
<1> HIDE DEF n, e, share, black, dur, mass
<1>10. \A m \in 1 .. e : Share(h, n, m) = 0
  <2> SUFFICES ASSUME NEW m \in 1 .. e
               PROVE  Share(h, n, m) = 0
    OBVIOUS
  <2>1. m \in 1 .. n /\ m \in 0 .. e /\ e \in 0 .. n /\ m - 1 \in 0 .. n /\ m \in 0 .. n
    BY <1>1
  <2>2. Played(h, m) <= Played(h, e) /\ Played(h, m) \in Nat /\ Played(h, e) \in Nat /\ Played(h, m - 1) \in Nat
    <3>1. \A j \in 0 .. n : \A i \in 0 .. j : Played(h, i) <= Played(h, j)
      BY PlayedSteps DEF n
    <3> QED
      BY <1>6, <2>1, <3>1
  <2>3. Share(h, n, m) = Greatest(0, Played(h, m) - Greatest(Played(h, m - 1), Cut(h, n)))
    BY <2>1, ShareTypes DEF n
  <2> QED
    BY <1>8, <1>9, <2>2, <2>3 DEF Greatest
<1>11. SumTo(share, e) = 0
  <2>1. e \in 0 .. n /\ Played(h, e) \in Nat
    BY <1>1, <1>6
  <2>2. SumTo(share, e) = Greatest(0, Played(h, e) - Cut(h, n))
    BY <1>6, <2>1
  <2> QED
    BY <1>8, <1>9, <2>1, <2>2 DEF Greatest
<1>12. SumTo(black, e) = 0
  <2> DEFINE T == {m \in Nat : m <= e => SumTo(black, m) = 0}
  <2>1. 0 \in T
    BY SumSteps
  <2>2. ASSUME NEW m \in Nat, m \in T
        PROVE  m + 1 \in T
    <3> SUFFICES ASSUME m + 1 <= e
                 PROVE  SumTo(black, m + 1) = 0
      OBVIOUS
    <3>1. SumTo(black, m + 1) = SumTo(black, m) + black[m + 1]
      BY SumSteps
    <3>2. m + 1 \in 1 .. e /\ m + 1 \in 1 .. n
      BY <1>1
    <3>3. BlackRatio(h[m + 1]) \in Nat
      BY <1>3, <3>2
    <3>4. black[m + 1] = 0 * BlackRatio(h[m + 1])
      BY <1>5, <1>10, <3>2
    <3>5. black[m + 1] = 0
      BY <3>3, <3>4
    <3>6. SumTo(black, m) = 0
      BY <1>1, <2>2
    <3> QED
      BY <3>1, <3>5, <3>6
  <2> HIDE DEF T
  <2>3. Nat \subseteq T
    BY <2>1, <2>2, SetInduction
  <2>4. e \in T
    BY <1>1, <2>3
  <2> QED
    BY <1>1, <2>4 DEF T
<1>13. ASSUME NEW j \in 0 .. Len(w)
       PROVE  Elapsed(w, j) = Greatest(0, Played(h, e + j) - Cut(h, n))
  <2>1. \A m \in 1 .. e + j : share[m] \in Int
    BY <1>1, <1>4
  <2>2. \A m \in 1 .. j : dur[m] = share[e + m]
    BY <1>1, <1>4
  <2>3. j \in Nat /\ e \in Nat /\ e + j \in Nat /\ e + j \in 0 .. n
    BY <1>1
  <2>6. SumTo(dur, j) = SumTo(share, e + j) - SumTo(share, e)
    <3>1. EndOf(dur, j, share, e)
      BY <2>1, <2>2 DEF EndOf
    <3> QED
      BY <2>3, <3>1, SumOfAnEnd
  <2>4. SumTo(share, e + j) \in Int
    BY <1>6, <1>9, <2>3 DEF Greatest
  <2>5. Elapsed(w, j) = SumTo(share, e + j)
    BY <1>7, <1>11, <2>4, <2>6
  <2> QED
    BY <1>6, <2>3, <2>5
<1>14. Duration(w) = Least(BlackWindow, Played(h, n))
  <2>1. Len(w) \in 0 .. Len(w) /\ n \in 0 .. n
    BY <1>1
  <2>2. Duration(w) = Greatest(0, Played(h, n) - Cut(h, n))
    BY <1>1, <1>7, <1>13, <2>1
  <2>3. Played(h, n) \in Nat
    BY <1>6, <2>1
  <2> QED
    BY <2>2, <2>3 DEF Cut, Greatest, Least, BlackWindow
<1>15. BlackMass(w) = RecentBlack(h, n) /\ RecentBlack(h, n) \in Int
  <2>1. \A m \in 1 .. n : black[m] \in Int
    BY <1>5
  <2>2. \A m \in 1 .. Len(w) : mass[m] = black[e + m]
    BY <1>5
  <2>3. \A m \in 0 .. n : SumTo(black, m) \in Int
    BY <1>1, <1>5, SumsAreIntegers
  <2>4. Len(w) \in 0 .. Len(w) /\ n \in 0 .. n
    BY <1>1
  <2>5. SumTo(mass, Len(w)) = SumTo(black, n) - SumTo(black, e)
    <3>1. EndOf(mass, Len(w), black, e)
      BY <1>1, <2>1, <2>2 DEF EndOf
    <3>2. SumTo(mass, Len(w)) = SumTo(black, e + Len(w)) - SumTo(black, e)
      BY <1>1, <3>1, SumOfAnEnd
    <3> QED
      BY <1>1, <3>2
  <2>6. SumTo(black, n) \in Int
    BY <2>3, <2>4
  <2> QED
    BY <1>7, <1>12, <2>5, <2>6
<1>16. Played(h, n) \in Nat
  <2>1. n \in 0 .. n
    BY <1>1
  <2> QED
    BY <1>6, <2>1
<1> QED
  BY <1>13, <1>14, <1>15, <1>16 DEF n, e

\* How much of row m lies after the time c.
After(h, m, c) == Greatest(0, Played(h, m) - Greatest(Played(h, m - 1), c))

\* The window, the next sample appended, before it is trimmed: the time of its
\* samples, and what each of them is.
LEMMA WindowGrows ==
  ASSUME NEW h \in Seq(BlackRowType), NEW w, NEW f, BlackWindowFrom(w, h, f),
         NEW row \in BlackRowType, NEW h2, h2 = Append(h, row),
         NEW x, x = Append(w, BlackSample(row)), NEW c, c = Cut(h, Len(h))
  PROVE  /\ x \in Seq(SampleType) /\ Len(x) = Len(w) + 1
         /\ c \in Nat /\ Cut(h2, Len(h2)) = Greatest(0, Played(h2, Len(h2)) - BlackWindow)
         /\ \A j \in 1 .. Len(x) :
              x[j] = [duration |-> After(h2, f - 1 + j, c), ratio |-> BlackRatio(h2[f - 1 + j])]
         /\ \A j \in 0 .. Len(x) : Elapsed(x, j) = Greatest(0, Played(h2, f - 1 + j) - c)
         /\ Duration(x) = Played(h2, Len(h2)) - c
         /\ c = 0 \/ Played(h2, Len(h2)) > c + BlackWindow
<1> DEFINE n == Len(h)
           e == f - 1
           L == Len(w)
<1>1. /\ n \in Nat /\ e \in Nat /\ L \in Nat /\ e + L = n
      /\ w \in Seq(SampleType)
  BY DEF BlackWindowFrom
<1>2. /\ h2 \in Seq(BlackRowType) /\ Len(h2) = n + 1 /\ h2[n + 1] = row
      /\ \A m \in 1 .. n : h2[m] = h[m]
  OBVIOUS
<1>3. /\ Lasting(row) \in 1 .. BlackWindow /\ Lasting(row) \in Nat /\ BlackRatio(row) \in Nat
      /\ BlackSample(row) = [duration |-> Lasting(row), ratio |-> BlackRatio(row)]
  BY SampleTypes DEF BlackSample
<1>4. BlackSample(row) \in SampleType
  BY <1>3 DEF SampleType
<1>5. /\ x \in Seq(SampleType) /\ Len(x) = L + 1
      /\ x[L + 1] = BlackSample(row) /\ \A j \in 1 .. L : x[j] = w[j]
      /\ DOMAIN x = 1 .. L + 1 /\ DOMAIN w = 1 .. L
  BY <1>1, <1>4
<1>6. \A j \in 1 .. L : w[j] = [duration |-> Share(h, n, e + j), ratio |-> BlackRatio(h[e + j])]
  BY DEF BlackWindowFrom, BlackSample
<1> HIDE DEF n, e, L
<1>7. /\ \A m \in 0 .. n : Played(h2, m) = Played(h, m)
      /\ \A m \in 0 .. n : Played(h2, m) \in Nat
      /\ Played(h2, n + 1) = Played(h2, n) + Lasting(row)
  <2>1. \A m \in 0 .. n : Played(h2, m) = Played(h, m)
    BY PlayedOnceAndForAll DEF n
  <2>2. \A m \in 0 .. n : Played(h, m) \in Nat
    BY PlayedSteps DEF n
  <2>3. Played(h2, n + 1) = Played(h2, (n + 1) - 1) + Lasting(h2[n + 1])
    <3>1. n + 1 \in 1 .. Len(h2)
      BY <1>1, <1>2
    <3> QED
      BY <1>2, <3>1, PlayedSteps
  <2>4. (n + 1) - 1 = n
    BY <1>1
  <2> QED
    BY <1>2, <2>1, <2>2, <2>3, <2>4
<1>8. n \in 0 .. n /\ Played(h2, n) \in Nat /\ Played(h2, n + 1) \in Nat /\ Played(h2, n) = Played(h, n)
  BY <1>1, <1>3, <1>7
<1>9. /\ c \in Nat /\ c <= Played(h2, n)
      /\ c = 0 \/ Played(h2, n + 1) > c + BlackWindow
  <2>1. c = Greatest(0, Played(h2, n) - BlackWindow)
    BY <1>8 DEF Cut, n
  <2>2. Played(h2, n + 1) > Played(h2, n)
    BY <1>3, <1>7, <1>8
  <2>3. CASE Played(h2, n) <= BlackWindow
    BY <1>8, <2>1, <2>3 DEF Greatest, BlackWindow
  <2>4. CASE Played(h2, n) > BlackWindow
    <3>1. c = Played(h2, n) - BlackWindow
      BY <1>8, <2>1, <2>4 DEF Greatest, BlackWindow
    <3> QED
      BY <1>8, <2>2, <2>4, <3>1 DEF BlackWindow
  <2> QED
    BY <1>8, <2>3, <2>4 DEF BlackWindow
<1>10. ASSUME NEW j \in 1 .. L + 1
       PROVE  x[j] = [duration |-> After(h2, e + j, c), ratio |-> BlackRatio(h2[e + j])]
  <2>1. CASE j = L + 1
    <3>1. e + j = n + 1 /\ (n + 1) - 1 = n
      BY <1>1, <2>1
    <3>2. After(h2, n + 1, c) = Lasting(row)
      BY <1>3, <1>7, <1>8, <1>9, <3>1 DEF After, Greatest
    <3> QED
      BY <1>2, <1>3, <1>5, <2>1, <3>1, <3>2
  <2>2. CASE j # L + 1
    <3>1. j \in 1 .. L /\ e + j \in 1 .. n /\ (e + j) \in 0 .. n /\ (e + j) - 1 \in 0 .. n
      BY <1>1, <2>2
    <3>2. Share(h, n, e + j) = Greatest(0, Played(h, e + j) - Greatest(Played(h, (e + j) - 1), c))
      BY <3>1, ShareTypes DEF n
    <3>3. Share(h, n, e + j) = After(h2, e + j, c)
      BY <1>7, <3>1, <3>2 DEF After
    <3>4. h2[e + j] = h[e + j]
      BY <1>2, <3>1
    <3>5. x[j] = w[j] /\ w[j] = [duration |-> Share(h, n, e + j), ratio |-> BlackRatio(h[e + j])]
      BY <1>5, <1>6, <3>1
    <3> QED
      BY <3>3, <3>4, <3>5
  <2> QED
    BY <2>1, <2>2
<1>11. ASSUME NEW j \in 0 .. L + 1
       PROVE  Elapsed(x, j) = Greatest(0, Played(h2, e + j) - c)
  <2> DEFINE dx == [i \in DOMAIN x |-> x[i].duration]
             dw == [i \in DOMAIN w |-> w[i].duration]
  <2>1. \A i : Elapsed(x, i) = SumTo(dx, i) /\ Elapsed(w, i) = SumTo(dw, i)
    BY DEF Elapsed
  <2>2. \A i \in 1 .. L : dx[i] = dw[i]
    BY <1>1, <1>5
  <2>3. dx[L + 1] = Lasting(row)
    <3>1. L + 1 \in DOMAIN x /\ x[L + 1] = [duration |-> Lasting(row), ratio |-> BlackRatio(row)]
      BY <1>1, <1>3, <1>5
    <3> QED
      BY <3>1
  <2> HIDE DEF dx, dw
  <2>4. \A i \in 0 .. L : SumTo(dx, i) = SumTo(dw, i)
    BY <1>1, <2>2, SumsAgree
  <2>5. \A i \in 0 .. L : Elapsed(w, i) = Greatest(0, Played(h, e + i) - c)
    <3>1. \A i \in 0 .. Len(w) :
            Elapsed(w, i) = Greatest(0, Played(h, f - 1 + i) - Cut(h, Len(h)))
      BY WindowSums
    <3> QED
      BY <3>1 DEF e, L
  <2>6. \A i \in 0 .. L : Elapsed(x, i) = Greatest(0, Played(h2, e + i) - c)
    <3> SUFFICES ASSUME NEW i \in 0 .. L
                 PROVE  Elapsed(x, i) = Greatest(0, Played(h2, e + i) - c)
      OBVIOUS
    <3>1. e + i \in 0 .. n
      BY <1>1
    <3>2. Played(h2, e + i) = Played(h, e + i)
      BY <1>7, <3>1
    <3>3. Elapsed(x, i) = Elapsed(w, i)
      BY <2>1, <2>4
    <3> QED
      BY <2>5, <3>2, <3>3
  <2>7. CASE j = L + 1
    <3>1. SumTo(dx, L + 1) = SumTo(dx, L) + dx[L + 1]
      BY <1>1, SumSteps
    <3>2. L \in 0 .. L /\ e + L = n /\ e + j = n + 1
      BY <1>1, <2>7
    <3>3. SumTo(dx, L) = Greatest(0, Played(h2, n) - c)
      BY <2>1, <2>6, <3>2
    <3>4. Elapsed(x, j) = Greatest(0, Played(h2, n) - c) + Lasting(row)
      BY <2>1, <2>3, <2>7, <3>1, <3>3
    <3>5. Elapsed(x, j) = Greatest(0, Played(h2, n + 1) - c)
      <4>1. Lasting(row) \in Nat /\ Played(h2, n + 1) = Played(h2, n) + Lasting(row)
        BY <1>3, <1>7
      <4>2. c \in Nat /\ c <= Played(h2, n)
        BY <1>9
      <4>3. Greatest(0, Played(h2, n) - c) = Played(h2, n) - c
        BY <1>8, <4>2 DEF Greatest
      <4>4. Greatest(0, Played(h2, n + 1) - c) = Played(h2, n + 1) - c
        BY <1>8, <4>1, <4>2 DEF Greatest
      <4> QED
        BY <1>8, <3>4, <4>1, <4>2, <4>3, <4>4
    <3> QED
      BY <3>2, <3>5
  <2>8. CASE j # L + 1
    <3>1. j \in 0 .. L
      BY <1>1, <2>8
    <3> QED
      BY <2>6, <3>1
  <2> QED
    BY <2>7, <2>8
<1>12. Duration(x) = Played(h2, n + 1) - c
  <2>1. L + 1 \in 0 .. L + 1 /\ e + (L + 1) = n + 1
    BY <1>1
  <2>2. Duration(x) = Greatest(0, Played(h2, n + 1) - c)
    BY <1>5, <1>11, <2>1 DEF Duration
  <2> QED
    BY <1>3, <1>7, <1>8, <1>9, <2>2 DEF Greatest
<1> QED
  BY <1>2, <1>5, <1>9, <1>10, <1>11, <1>12 DEF n, e, L, Cut

LEMMA OneBefore ==
  ASSUME NEW S, NEW a \in S, NEW r \in Seq(S)
  PROVE  /\ <<a>> \o r \in Seq(S) /\ Len(<<a>> \o r) = 1 + Len(r)
         /\ (<<a>> \o r)[1] = a /\ \A j \in 2 .. 1 + Len(r) : (<<a>> \o r)[j] = r[j - 1]
<1>1. <<a>> \in Seq(S) /\ Len(<<a>>) = 1 /\ <<a>>[1] = a
  OBVIOUS
<1> DEFINE one == <<a>>
<1> HIDE DEF one
<1>2. one \o r \in Seq(S) /\ Len(one \o r) = Len(one) + Len(r)
  BY <1>1 DEF one
<1>3. \A j \in 1 .. Len(one) + Len(r) :
        (one \o r)[j] = IF j <= Len(one) THEN one[j] ELSE r[j - Len(one)]
  BY <1>1 DEF one
<1>4. Len(one) = 1 /\ one[1] = a /\ Len(r) \in Nat
  BY <1>1 DEF one
<1>5. (one \o r)[1] = a
  BY <1>3, <1>4
<1>6. ASSUME NEW j \in 2 .. 1 + Len(r)
      PROVE  (one \o r)[j] = r[j - 1]
  <2>1. j \in 1 .. Len(one) + Len(r) /\ ~(j <= Len(one)) /\ j - Len(one) = j - 1
    BY <1>4
  <2>2. (one \o r)[j] = r[j - Len(one)]
    BY <1>3, <2>1
  <2> QED
    BY <2>1, <2>2
<1>7. Len(one \o r) = 1 + Len(r)
  BY <1>2, <1>4
<1> QED
  BY <1>2, <1>5, <1>6, <1>7 DEF one

\* A row appended and the overflow trimmed, the window is again what the rows
\* have of the last BlackWindow half seconds.
LEMMA WindowMoves ==
  ASSUME NEW h \in Seq(BlackRowType), NEW w, NEW f, BlackWindowFrom(w, h, f),
         NEW row \in BlackRowType
  PROVE  \E g \in Nat : BlackWindowFrom(UpdateBlackWindow(w, row), Append(h, row), g)
<1> DEFINE h2 == Append(h, row)
           x == Append(w, BlackSample(row))
           y == Trim(x)
           n == Len(h2)
           e == f - 1
           c == Cut(h, Len(h))
           c2 == Cut(h2, n)
           overflow == Duration(x) - BlackWindow
<1>1. h2 \in Seq(BlackRowType) /\ n \in Nat /\ n = Len(h) + 1
  OBVIOUS
<1>2. e \in Nat /\ f \in Nat /\ f = e + 1 /\ Len(w) \in Nat /\ e + Len(w) = Len(h)
  BY DEF BlackWindowFrom
<1>3. /\ x \in Seq(SampleType) /\ Len(x) = Len(w) + 1
      /\ c \in Nat /\ c2 = Greatest(0, Played(h2, n) - BlackWindow)
      /\ \A j \in 1 .. Len(x) :
           x[j] = [duration |-> After(h2, e + j, c), ratio |-> BlackRatio(h2[e + j])]
      /\ \A j \in 0 .. Len(x) : Elapsed(x, j) = Greatest(0, Played(h2, e + j) - c)
      /\ Duration(x) = Played(h2, n) - c
      /\ c = 0 \/ Played(h2, n) > c + BlackWindow
  BY WindowGrows
<1>4. UpdateBlackWindow(w, row) = y
  BY DEF UpdateBlackWindow
<1>5. /\ \A m \in 1 .. n : Share(h2, n, m) = After(h2, m, c2)
      /\ \A m \in 0 .. n : Played(h2, m) \in Nat
  <2> HIDE DEF h2
  <2>1. \A m \in 0 .. n : Played(h2, m) \in Nat
    <3>1. \A j \in 0 .. n : \A i \in 0 .. j : Played(h2, i) \in Nat
      BY <1>1, PlayedSteps
    <3>2. n \in 0 .. n
      BY <1>1
    <3> QED
      BY <3>1, <3>2
  <2>2. \A m \in 1 .. n : Share(h2, n, m) = After(h2, m, c2)
    BY <1>1, ShareTypes DEF After
  <2> QED
    BY <2>1, <2>2
<1>6. e + Len(x) = n /\ Len(x) \in Nat /\ Len(x) >= 1 /\ DOMAIN x = 1 .. Len(x) /\ n \in 0 .. n /\ Played(h2, n) \in Nat
  BY <1>1, <1>2, <1>3, <1>5
<1>7. Played(h2, e) <= Greatest(0, c)
  <2>1. Played(h2, e) = Played(h, e)
    BY <1>2, PlayedOnceAndForAll
  <2>2. Played(h, e) <= c
    BY DEF BlackWindowFrom
  <2> QED
    BY <1>3, <2>1, <2>2 DEF Greatest
<1> SUFFICES \E g \in Nat : BlackWindowFrom(y, h2, g)
  BY <1>4
<1>8. y = IF overflow <= 0 THEN x
          ELSE LET first == CHOOSE k \in DOMAIN x :
                              Elapsed(x, k) > overflow /\ Elapsed(x, k - 1) <= overflow
               IN  <<[x[first] EXCEPT !.duration = Elapsed(x, first) - overflow]>>
                     \o SubSeq(x, first + 1, Len(x))
  BY DEF Trim
<1>9. \A m \in 1 .. n : BlackRatio(h2[m]) \in Nat
  <2>1. \A m \in 1 .. n : h2[m] \in BlackRowType
    BY <1>1
  <2> QED
    BY <2>1, SampleTypes
<1> HIDE DEF h2, x, y, n, e, c, c2, overflow
<1>10. /\ c \in Nat /\ c2 = Greatest(0, Played(h2, n) - BlackWindow)
       /\ Duration(x) = Played(h2, n) - c
       /\ c = 0 \/ Played(h2, n) > c + BlackWindow
       /\ x \in Seq(SampleType)
  BY <1>3
<1>14. /\ e \in Nat /\ f = e + 1 /\ e + Len(x) = n /\ Len(x) \in Nat /\ Len(x) >= 1
       /\ n \in Nat /\ Played(h2, n) \in Nat
  BY <1>1, <1>2, <1>6
<1>11. CASE overflow <= 0
  <2>1. c = 0 /\ c2 = 0
    BY <1>10, <1>14, <1>11 DEF overflow, Greatest, BlackWindow
  <2>2. y = x
    BY <1>8, <1>11
  <2>3. Played(h2, e) <= c2
    BY <1>7, <2>1 DEF Greatest
  <2>4. ASSUME NEW j \in 1 .. Len(y)
        PROVE  y[j] = [duration |-> Share(h2, n, e + j), ratio |-> BlackRatio(h2[e + j])]
    <3>1. e + j \in 1 .. n /\ j \in 1 .. Len(x)
      BY <1>2, <1>6, <2>2
    <3>2. y[j] = [duration |-> After(h2, e + j, c), ratio |-> BlackRatio(h2[e + j])]
      BY <1>3, <2>2, <3>1
    <3>3. After(h2, e + j, c) = Share(h2, n, e + j)
      BY <1>5, <2>1, <3>1
    <3> QED
      BY <3>2, <3>3
  <2>5. f \in 1 .. n + 1 /\ Len(y) = n + 1 - f /\ f - 1 = e
    BY <1>2, <1>6, <2>2
  <2>6. BlackWindowFrom(y, h2, f)
    <3>1. y \in Seq(SampleType)
      BY <1>10, <2>2
    <3>2. \A j \in 1 .. Len(y) :
            y[j] = [duration |-> Share(h2, n, f - 1 + j), ratio |-> BlackRatio(h2[f - 1 + j])]
      BY <2>4, <2>5
    <3>3. Played(h2, f - 1) <= c2
      BY <2>3, <2>5
    <3> QED
      BY <2>5, <3>1, <3>2, <3>3 DEF BlackWindowFrom, n, c2
  <2> QED
    BY <1>2, <2>6
<1>12. CASE overflow > 0
  <2>1. overflow \in Nat /\ c2 = c + overflow
    <3>1. overflow = Played(h2, n) - c - BlackWindow
      BY <1>10 DEF overflow
    <3>2. c \in Nat /\ Played(h2, n) \in Nat /\ c2 = Greatest(0, Played(h2, n) - BlackWindow)
      BY <1>10, <1>14
    <3> HIDE DEF overflow
    <3> QED
      BY <1>12, <3>1, <3>2 DEF Greatest, BlackWindow
  <2>2. \A j \in 0 .. Len(x) : Elapsed(x, j) \in Nat
    <3> SUFFICES ASSUME NEW j \in 0 .. Len(x)
                 PROVE  Elapsed(x, j) \in Nat
      OBVIOUS
    <3>1. e + j \in 0 .. n
      BY <1>2, <1>6
    <3>2. Played(h2, e + j) \in Nat
      BY <1>5, <3>1
    <3>3. Elapsed(x, j) = Greatest(0, Played(h2, e + j) - c)
      BY <1>3
    <3> QED
      BY <1>3, <3>2, <3>3 DEF Greatest
  <2> DEFINE Fits(k) == Elapsed(x, k) > overflow /\ Elapsed(x, k - 1) <= overflow
             T == {k \in 1 .. Len(x) : Elapsed(x, k) > overflow}
  <2>3. \E k \in DOMAIN x : Fits(k)
    <3>1. Len(x) \in T
      <4>1. Elapsed(x, Len(x)) = Duration(x)
        BY DEF Duration
      <4>2. Duration(x) = overflow + BlackWindow
        BY <1>3, <1>6 DEF overflow, BlackWindow
      <4> QED
        BY <1>6, <2>1, <4>1, <4>2 DEF BlackWindow
    <3>2. PICK k \in T : \A m \in T : k <= m
      <4>1. T \subseteq Nat /\ T # {}
        BY <3>1
      <4> HIDE DEF T
      <4> QED
        BY <4>1, LeastNumber
    <3>3. k \in 1 .. Len(x) /\ Elapsed(x, k) > overflow
      OBVIOUS
    <3>4. CASE k = 1
      <4>1. Elapsed(x, 0) = 0
        BY SumSteps DEF Elapsed
      <4> QED
        BY <1>6, <2>1, <3>3, <3>4, <4>1
    <3>5. CASE k # 1
      <4>1. k - 1 \in 1 .. Len(x) /\ k - 1 \notin T /\ k - 1 \in 0 .. Len(x)
        BY <1>6, <3>2, <3>5
      <4>2. Elapsed(x, k - 1) \in Nat /\ ~(Elapsed(x, k - 1) > overflow)
        BY <2>2, <4>1
      <4>3. Elapsed(x, k - 1) <= overflow
        BY <2>1, <4>2
      <4> QED
        BY <1>6, <3>3, <4>3
    <3> QED
      BY <3>4, <3>5
  <2> DEFINE first == CHOOSE k \in DOMAIN x : Fits(k)
             head == [x[first] EXCEPT !.duration = Elapsed(x, first) - overflow]
             rest == SubSeq(x, first + 1, Len(x))
             g == e + first
  <2>4. first \in DOMAIN x /\ Fits(first)
    <3> HIDE DEF Fits
    <3> QED
      BY <2>3
  <2>5. y = <<head>> \o rest
    <3>1. ~(overflow <= 0)
      BY <1>12, <2>1
    <3> QED
      BY <1>8, <3>1
  <2> HIDE DEF first, T
  <2>6. /\ first \in 1 .. Len(x) /\ g \in 1 .. n /\ g \in Nat /\ g - 1 \in 0 .. n /\ g \in 0 .. n
        /\ g - 1 = e + (first - 1) /\ first - 1 \in 0 .. Len(x) /\ first \in 0 .. Len(x)
    BY <1>2, <1>6, <2>4
  <2>7. /\ Played(h2, g) \in Nat /\ Played(h2, g - 1) \in Nat
        /\ Played(h2, g) > c2 /\ Played(h2, g - 1) <= c2
        /\ Elapsed(x, first) - overflow = Played(h2, g) - c2
    <3>1. Elapsed(x, first) = Greatest(0, Played(h2, g) - c)
      BY <1>3, <2>6
    <3>2. Elapsed(x, first - 1) = Greatest(0, Played(h2, g - 1) - c)
      BY <1>3, <2>6
    <3>3. Played(h2, g) \in Nat /\ Played(h2, g - 1) \in Nat
      BY <1>5, <2>6
    <3>4. Elapsed(x, first) > overflow /\ Elapsed(x, first - 1) <= overflow
      BY <2>4
    <3> QED
      BY <1>3, <2>1, <3>1, <3>2, <3>3, <3>4 DEF Greatest
  <2>8. head = [duration |-> Share(h2, n, g), ratio |-> BlackRatio(h2[g])]
    <3>1. x[first] = [duration |-> After(h2, g, c), ratio |-> BlackRatio(h2[g])]
      BY <1>3, <2>6
    <3>2. head = [duration |-> Elapsed(x, first) - overflow, ratio |-> BlackRatio(h2[g])]
      BY <3>1
    <3>3. Share(h2, n, g) = Greatest(0, Played(h2, g) - Greatest(Played(h2, g - 1), c2))
      BY <1>5, <2>6 DEF After
    <3>4. c2 \in Nat
      BY <1>3, <2>1
    <3>5. Share(h2, n, g) = Played(h2, g) - c2
      BY <2>7, <3>3, <3>4 DEF Greatest
    <3> QED
      BY <2>7, <3>2, <3>5
  <2> HIDE DEF head, g
  <2>9. head \in SampleType
    <3> USE DEF SampleType
    <3>1. Share(h2, n, g) \in Nat
      BY <1>1, <2>6, ShareTypes DEF n
    <3>2. BlackRatio(h2[g]) \in Nat
      BY <1>9, <2>6
    <3> QED
      BY <2>8, <3>1, <3>2
  <2>10. /\ rest \in Seq(SampleType) /\ Len(rest) = Len(x) - first
         /\ \A j \in 1 .. Len(x) - first : rest[j] = x[first + j]
    BY <1>3, <2>6
  <2> HIDE DEF rest
  <2>12. /\ y \in Seq(SampleType) /\ Len(y) = 1 + Len(rest)
         /\ y[1] = head
         /\ \A j \in 2 .. Len(y) : y[j] = rest[j - 1]
    <3>1. rest \in Seq(SampleType)
      BY <2>10
    <3> QED
      BY <2>5, <2>9, <3>1, OneBefore
  <2>16. /\ Len(y) = 1 + (Len(x) - first) /\ g = e + first
         /\ first \in 1 .. Len(x) /\ g \in 1 .. n /\ first \in Nat
    BY <1>14, <2>6, <2>10, <2>12 DEF g
  <2>13. ASSUME NEW j \in 1 .. Len(y)
         PROVE  y[j] = [duration |-> Share(h2, n, g - 1 + j),
                        ratio |-> BlackRatio(h2[g - 1 + j])]
    <3>1. g - 1 + j \in 1 .. n
      BY <1>14, <2>16
    <3>2. CASE j = 1
      <4>1. g - 1 + j = g
        BY <2>6, <3>2
      <4> QED
        BY <2>8, <2>12, <3>2, <4>1
    <3>3. CASE j # 1
      <4>1. /\ j \in 2 .. Len(y) /\ j - 1 \in 1 .. Len(x) - first
            /\ first + (j - 1) \in 1 .. Len(x) /\ e + (first + (j - 1)) = g - 1 + j
        <5>1. Len(x) \in Nat /\ e \in Nat /\ first \in Nat /\ first <= Len(x) /\ g = e + first
              /\ Len(y) = 1 + (Len(x) - first)
          BY <1>14, <2>16
        <5>2. j \in Nat /\ j >= 2 /\ j <= Len(y)
          BY <3>3, <5>1
        <5> QED
          BY <5>1, <5>2
      <4>2. y[j] = x[first + (j - 1)]
        BY <2>10, <2>12, <4>1
      <4> DEFINE m == g - 1 + j
      <4>3. y[j] = [duration |-> After(h2, m, c), ratio |-> BlackRatio(h2[m])]
        BY <1>3, <4>1, <4>2
      <4>4. m - 1 \in 0 .. n /\ g \in 0 .. m - 1 /\ m \in 0 .. n
        BY <1>14, <2>16, <3>1, <4>1
      <4>5. Played(h2, g) <= Played(h2, m - 1) /\ Played(h2, m - 1) \in Nat /\ Played(h2, m) \in Nat
        <5>1. \A q \in 0 .. n : \A i \in 0 .. q : Played(h2, i) <= Played(h2, q)
          BY <1>1, PlayedSteps DEF n
        <5> QED
          BY <1>5, <4>4, <5>1
      <4>6. m \in 1 .. n
        BY <3>1
      <4> HIDE DEF m
      <4>7. After(h2, m, c) = After(h2, m, c2)
        BY <1>3, <2>1, <2>7, <4>5 DEF After, Greatest
      <4>8. y[j] = [duration |-> Share(h2, n, m), ratio |-> BlackRatio(h2[m])]
        BY <1>5, <4>3, <4>6, <4>7
      <4> QED
        BY <4>8 DEF m
    <3> QED
      BY <3>2, <3>3
  <2>14. g \in 1 .. n + 1 /\ Len(y) = n + 1 - g
    BY <1>14, <2>16
  <2>15. BlackWindowFrom(y, h2, g)
    <3>1. Played(h2, g - 1) <= c2 /\ y \in Seq(SampleType)
      BY <2>7, <2>12
    <3> QED
      BY <2>13, <2>14, <3>1 DEF BlackWindowFrom, n, c2
  <2> QED
    BY <2>6, <2>15
<1>13. overflow \in Int
  BY <1>10, <1>14 DEF overflow, BlackWindow
<1> QED
  BY <1>11, <1>12, <1>13

\* A verdict on the n-th row that follows the rows: the flag goes down when the
\* fault is gone, and up, if it is down, when the fault is there.
Verdict(state, k, A, h, n) ==
  /\ state = "recovered" <=> k \in A /\ Clear(k, h, n)
  /\ state = "entered" => k \notin A
  /\ k \notin A /\ Faulty(k, h, n) => state = "entered"
  /\ ~(Clear(k, h, n) /\ Faulty(k, h, n))

\* The verdict of the black-screen rule on the next row, told from the rows.
LEMMA BlackVerdict ==
  ASSUME NEW k, k[2] = "video_metrics", NEW A,
         NEW h \in Seq(BlackRowType), NEW w, NEW f, BlackWindowFrom(w, h, f),
         NEW n \in Nat, n = Len(h), n > 0, NEW state, state = BlackState(k \in A, w, h[n])
  PROVE  Verdict(state, k, A, h, n)
<1> USE DEF Verdict
<1> DEFINE row == h[n]
           D == Played(h, n)
           B == RecentBlack(h, n)
<1>1. /\ Duration(w) = Least(BlackWindow, D) /\ BlackMass(w) = B
      /\ D \in Nat /\ B \in Int
  BY WindowSums
<1>2. row.longest \in Int
  <2>1. row \in BlackRowType
    OBVIOUS
  <2> HIDE DEF row
  <2> QED
    BY <2>1 DEF BlackRowType
<1>3. Clear(k, h, n) <=> D >= BlackWindow /\ B <= BlackRecoveryRatio * BlackWindow
                         /\ row.longest < BlackAlertDuration
  BY DEF Clear
<1>4. Faulty(k, h, n) <=> \/ row.longest >= BlackAlertDuration
                          \/ D >= BlackWindow /\ B >= BlackAlertRatio * BlackWindow
  BY DEF Faulty
<1>5. state = BlackState(k \in A, w, row)
  OBVIOUS
<1> HIDE DEF row, D, B
<1>6. BlackRecovered(w, row) <=> Clear(k, h, n)
  BY <1>1, <1>3 DEF BlackRecovered, Least, BlackWindow, BlackRecoveryRatio
<1>7. EnteredByContinuousBlack(row) \/ EnteredByRollingRatio(w) <=> Faulty(k, h, n)
  BY <1>1, <1>4
     DEF EnteredByContinuousBlack, EnteredByRollingRatio, Least, BlackWindow, BlackAlertRatio
<1>8. ~(Clear(k, h, n) /\ Faulty(k, h, n))
  BY <1>1, <1>2, <1>3, <1>4 DEF BlackWindow, BlackAlertDuration, BlackRecoveryRatio, BlackAlertRatio
<1>9. state = IF k \in A
              THEN IF Clear(k, h, n) THEN "recovered" ELSE "black_active"
              ELSE IF Faulty(k, h, n) THEN "entered" ELSE "normal"
  BY <1>5, <1>6, <1>7 DEF BlackState
<1> QED
  BY <1>8, <1>9

-----------------------------------------------------------------------------
(* The window of the blur rule.                                            *)

\* A set of some of three things, and how many it holds.
AmongThree(S, a, b, c) == S \subseteq {a, b, c} /\ a # b /\ a # c /\ b # c

LEMMA CountOfThree ==
  ASSUME NEW a, NEW b, NEW c, NEW S, AmongThree(S, a, b, c)
  PROVE  Cardinality(S) = (IF a \in S THEN 1 ELSE 0) + (IF b \in S THEN 1 ELSE 0)
                            + (IF c \in S THEN 1 ELSE 0)
<1> USE DEF AmongThree
<1> DEFINE S1 == S \cap {a}
           S2 == S \cap {a, b}
<1>1. IsFiniteSet({}) /\ Cardinality({}) = 0
  BY FS_EmptySet
<1>2. IsFiniteSet(S1) /\ Cardinality(S1) = IF a \in S THEN 1 ELSE 0
  <2>1. CASE a \in S
    <3>1. S1 = {} \cup {a}
      BY <2>1
    <3> HIDE DEF S1
    <3>2. IsFiniteSet({} \cup {a}) /\ Cardinality({} \cup {a}) = Cardinality({}) + 1
      BY <1>1, FS_AddElement
    <3> QED
      BY <1>1, <2>1, <3>1, <3>2
  <2>2. CASE a \notin S
    <3>1. S1 = {}
      BY <2>2
    <3> QED
      BY <1>1, <2>2, <3>1
  <2> QED
    BY <2>1, <2>2
<1>3. IsFiniteSet(S2) /\ Cardinality(S2) = Cardinality(S1) + IF b \in S THEN 1 ELSE 0
  <2>1. CASE b \in S
    <3>1. S2 = S1 \cup {b} /\ b \notin S1
      BY <2>1
    <3> HIDE DEF S1, S2
    <3> QED
      BY <1>2, <2>1, <3>1, FS_AddElement
  <2>2. CASE b \notin S
    <3>1. S2 = S1
      BY <2>2
    <3> HIDE DEF S1, S2
    <3> QED
      BY <1>2, <2>2, <3>1
  <2> QED
    BY <2>1, <2>2
<1>4. Cardinality(S) = Cardinality(S2) + IF c \in S THEN 1 ELSE 0
  <2>1. CASE c \in S
    <3>1. S = S2 \cup {c} /\ c \notin S2
      BY <2>1
    <3> HIDE DEF S2
    <3> QED
      BY <1>3, <2>1, <3>1, FS_AddElement
  <2>2. CASE c \notin S
    <3>1. S = S2
      BY <2>2
    <3> HIDE DEF S2
    <3> QED
      BY <1>2, <1>3, <2>2, <3>1
  <2> QED
    BY <2>1, <2>2
<1> HIDE DEF S1, S2
<1> QED
  BY <1>2, <1>3, <1>4

\* Two of the three statements are true.
Two(p, q, r) == (p /\ q) \/ (p /\ r) \/ (q /\ r)

\* The median of three numbers: one of them, with at most one below and at most
\* one above.
LEMMA MedianOfThree ==
  ASSUME NEW x \in [1 .. 3 -> Int], NEW v,
         v = CHOOSE u \in {x[i] : i \in 1 .. 3} :
               /\ 2 * Cardinality({i \in 1 .. 3 : x[i] < u}) < 3
               /\ 2 * Cardinality({i \in 1 .. 3 : x[i] > u}) < 3
  PROVE  /\ v \in {x[1], x[2], x[3]}
         /\ ~Two(x[1] < v, x[2] < v, x[3] < v)
         /\ ~Two(x[1] > v, x[2] > v, x[3] > v)
<1> DEFINE Below(u) == {i \in 1 .. 3 : x[i] < u}
           Above(u) == {i \in 1 .. 3 : x[i] > u}
           Middle(u) == 2 * Cardinality(Below(u)) < 3 /\ 2 * Cardinality(Above(u)) < 3
           X == {x[i] : i \in 1 .. 3}
<1>1. 1 .. 3 = {1, 2, 3}
  OBVIOUS
<1>2. X = {x[1], x[2], x[3]}
  BY <1>1
<1>3. \A u : Middle(u) <=> /\ ~Two(x[1] < u, x[2] < u, x[3] < u)
                           /\ ~Two(x[1] > u, x[2] > u, x[3] > u)
  <2> SUFFICES ASSUME NEW u
               PROVE  Middle(u) <=> /\ ~Two(x[1] < u, x[2] < u, x[3] < u)
                                    /\ ~Two(x[1] > u, x[2] > u, x[3] > u)
    OBVIOUS
  <2>1. /\ Below(u) \subseteq {1, 2, 3} /\ Above(u) \subseteq {1, 2, 3}
        /\ 1 \in Below(u) <=> x[1] < u
        /\ 2 \in Below(u) <=> x[2] < u
        /\ 3 \in Below(u) <=> x[3] < u
        /\ 1 \in Above(u) <=> x[1] > u
        /\ 2 \in Above(u) <=> x[2] > u
        /\ 3 \in Above(u) <=> x[3] > u
    BY <1>1
  <2> HIDE DEF Below, Above
  <2>2. Cardinality(Below(u)) = (IF 1 \in Below(u) THEN 1 ELSE 0) + (IF 2 \in Below(u) THEN 1 ELSE 0)
                                  + (IF 3 \in Below(u) THEN 1 ELSE 0)
    BY <2>1, CountOfThree DEF AmongThree
  <2>3. Cardinality(Above(u)) = (IF 1 \in Above(u) THEN 1 ELSE 0) + (IF 2 \in Above(u) THEN 1 ELSE 0)
                                  + (IF 3 \in Above(u) THEN 1 ELSE 0)
    BY <2>1, CountOfThree DEF AmongThree
  <2>4. 2 * Cardinality(Below(u)) < 3 <=> ~Two(x[1] < u, x[2] < u, x[3] < u)
    BY <2>1, <2>2 DEF Two
  <2>5. 2 * Cardinality(Above(u)) < 3 <=> ~Two(x[1] > u, x[2] > u, x[3] > u)
    BY <2>1, <2>3 DEF Two
  <2> QED
    BY <2>4, <2>5
<1>4. x[1] \in Int /\ x[2] \in Int /\ x[3] \in Int
  BY <1>1
<1>5. v = CHOOSE u \in X : Middle(u)
  OBVIOUS
<1> HIDE DEF X, Middle
<1>6. \E u \in {x[1], x[2], x[3]} : /\ ~Two(x[1] < u, x[2] < u, x[3] < u)
                                    /\ ~Two(x[1] > u, x[2] > u, x[3] > u)
  BY <1>4 DEF Two
<1>7. \E u \in X : Middle(u)
  BY <1>2, <1>3, <1>6
<1>8. v \in X /\ Middle(v)
  BY <1>5, <1>7
<1> QED
  BY <1>2, <1>3, <1>8

BlurSampleType == [score : Int, motion : Int, peak : Int]

LEMMA BlurSampleTypes ==
  ASSUME NEW row \in BlurRowType
  PROVE  /\ BlurSample(row) \in BlurSampleType
         /\ row.score \in Int /\ row.motion \in Int /\ row.peak \in Int
         /\ BlurSample(row).score = Clamp(row.score)
         /\ BlurSample(row).motion = Clamp(row.motion)
         /\ BlurSample(row).peak = Clamp(row.peak)
         /\ Clamp(row.score) \in Int /\ Clamp(row.motion) \in Int /\ Clamp(row.peak) \in Int
<1>1. row.score \in Int /\ row.motion \in Int /\ row.peak \in Int
  BY DEF BlurRowType
<1>2. \A i \in Int : Clamp(i) \in Int
  BY DEF Clamp, Least, Greatest
<1> QED
  BY <1>1, <1>2 DEF BlurSample, BlurSampleType

\* What the rule computes from a full window, told from its three rows.
LEMMA FullBlurWindow ==
  ASSUME NEW a \in BlurRowType, NEW b \in BlurRowType, NEW c \in BlurRowType,
         NEW w \in Seq(BlurSampleType), Len(w) = 3,
         w[1] = BlurSample(a), w[2] = BlurSample(b), w[3] = BlurSample(c)
  PROVE  /\ BlurRecovered(w) <=> Two(a.score <= BlurRecoveryScore, b.score <= BlurRecoveryScore,
                                     c.score <= BlurRecoveryScore)
         /\ (\A r \in {a, b, c} : /\ r.score >= BlurAlertScore
                                  /\ r.motion < MotionAmbiguousMedian
                                  /\ r.peak < MotionGuardPeak)
              => ~HighMotion(w) /\ BlurEntry(w)
<1>1. DOMAIN w = 1 .. 3 /\ 1 .. 3 = {1, 2, 3}
  OBVIOUS
<1>2. \A i \in 1 .. 3 : w[i].score \in Int /\ w[i].motion \in Int
  <2>1. w[1] \in BlurSampleType /\ w[2] \in BlurSampleType /\ w[3] \in BlurSampleType
    BY BlurSampleTypes
  <2>2. \A i \in 1 .. 3 : w[i] \in BlurSampleType
    BY <1>1, <2>1
  <2> QED
    BY <2>2 DEF BlurSampleType
<1>3. /\ w[1].score = Clamp(a.score) /\ w[2].score = Clamp(b.score) /\ w[3].score = Clamp(c.score)
      /\ w[1].motion = Clamp(a.motion) /\ w[2].motion = Clamp(b.motion) /\ w[3].motion = Clamp(c.motion)
      /\ w[1].peak = Clamp(a.peak) /\ w[2].peak = Clamp(b.peak) /\ w[3].peak = Clamp(c.peak)
  BY BlurSampleTypes
<1>4. /\ a.score \in Int /\ b.score \in Int /\ c.score \in Int
      /\ a.motion \in Int /\ b.motion \in Int /\ c.motion \in Int
      /\ a.peak \in Int /\ b.peak \in Int /\ c.peak \in Int
  BY BlurSampleTypes
<1> DEFINE s == [i \in 1 .. 3 |-> w[i].score]
           m == [i \in 1 .. 3 |-> w[i].motion]
<1>5. /\ s \in [1 .. 3 -> Int] /\ m \in [1 .. 3 -> Int]
      /\ \A i \in 1 .. 3 : s[i] = w[i].score
      /\ \A i \in 1 .. 3 : m[i] = w[i].motion
  BY <1>2
<1> HIDE DEF s, m
<1>6. /\ {w[i].score : i \in DOMAIN w} = {s[i] : i \in 1 .. 3}
      /\ \A v : {i \in DOMAIN w : w[i].score < v} = {i \in 1 .. 3 : s[i] < v}
      /\ \A v : {i \in DOMAIN w : w[i].score > v} = {i \in 1 .. 3 : s[i] > v}
  BY <1>1, <1>5
<1>7. /\ {w[i].motion : i \in DOMAIN w} = {m[i] : i \in 1 .. 3}
      /\ \A v : {i \in DOMAIN w : w[i].motion < v} = {i \in 1 .. 3 : m[i] < v}
      /\ \A v : {i \in DOMAIN w : w[i].motion > v} = {i \in 1 .. 3 : m[i] > v}
  BY <1>1, <1>5
<1>8. MedianScore(w) = CHOOSE u \in {s[i] : i \in 1 .. 3} :
               /\ 2 * Cardinality({i \in 1 .. 3 : s[i] < u}) < 3
               /\ 2 * Cardinality({i \in 1 .. 3 : s[i] > u}) < 3
  BY <1>6 DEF MedianScore, Median
<1>9. MedianMotion(w) = CHOOSE u \in {m[i] : i \in 1 .. 3} :
               /\ 2 * Cardinality({i \in 1 .. 3 : m[i] < u}) < 3
               /\ 2 * Cardinality({i \in 1 .. 3 : m[i] > u}) < 3
  BY <1>7 DEF MedianMotion, Median
<1>10. /\ MedianScore(w) \in {s[1], s[2], s[3]}
       /\ ~Two(s[1] < MedianScore(w), s[2] < MedianScore(w), s[3] < MedianScore(w))
       /\ ~Two(s[1] > MedianScore(w), s[2] > MedianScore(w), s[3] > MedianScore(w))
  BY <1>5, <1>8, MedianOfThree
<1>11. MedianMotion(w) \in {m[1], m[2], m[3]}
  BY <1>5, <1>9, MedianOfThree
<1>12. /\ s[1] = Clamp(a.score) /\ s[2] = Clamp(b.score) /\ s[3] = Clamp(c.score)
       /\ m[1] = Clamp(a.motion) /\ m[2] = Clamp(b.motion) /\ m[3] = Clamp(c.motion)
  BY <1>1, <1>3, <1>5
<1>13. \A i \in Int : /\ Clamp(i) \in Int
                      /\ Clamp(i) <= 68 <=> i <= 68
                      /\ i >= 88 => Clamp(i) >= 88
                      /\ i < 10 => Clamp(i) < 10
                      /\ i < 24 => Clamp(i) < 24
  BY DEF Clamp, Least, Greatest
<1>14. BlurRecovered(w) <=> Two(a.score <= BlurRecoveryScore, b.score <= BlurRecoveryScore,
                                c.score <= BlurRecoveryScore)
  <2>1. BlurRecovered(w) <=> MedianScore(w) <= 68
    BY DEF BlurRecovered, BlurWindow, BlurRecoveryScore
  <2>2. s[1] \in Int /\ s[2] \in Int /\ s[3] \in Int
    BY <1>4, <1>12, <1>13
  <2> DEFINE v == MedianScore(w)
  <2>3. v \in Int
    BY <1>10, <2>2
  <2> HIDE DEF v
  <2>4. v <= 68 <=> Two(s[1] <= 68, s[2] <= 68, s[3] <= 68)
    <3>1. v \in {s[1], s[2], s[3]} /\ ~Two(s[1] < v, s[2] < v, s[3] < v)
          /\ ~Two(s[1] > v, s[2] > v, s[3] > v)
      BY <1>10 DEF v
    <3> QED
      BY <2>2, <2>3, <3>1 DEF Two
  <2>5. /\ s[1] <= 68 <=> a.score <= 68
        /\ s[2] <= 68 <=> b.score <= 68
        /\ s[3] <= 68 <=> c.score <= 68
    <3>1. \A i \in Int : Clamp(i) <= 68 <=> i <= 68
      BY <1>13
    <3>2. Clamp(a.score) <= 68 <=> a.score <= 68
      BY <1>4, <3>1
    <3>3. Clamp(b.score) <= 68 <=> b.score <= 68
      BY <1>4, <3>1
    <3>4. Clamp(c.score) <= 68 <=> c.score <= 68
      BY <1>4, <3>1
    <3> QED
      BY <1>12, <3>2, <3>3, <3>4
  <2>6. Two(s[1] <= 68, s[2] <= 68, s[3] <= 68) <=> Two(a.score <= 68, b.score <= 68, c.score <= 68)
    BY <2>5 DEF Two
  <2> QED
    BY <2>1, <2>4, <2>6 DEF v, BlurRecoveryScore
<1>15. ASSUME \A r \in {a, b, c} : /\ r.score >= BlurAlertScore
                                   /\ r.motion < MotionAmbiguousMedian
                                   /\ r.peak < MotionGuardPeak
       PROVE  ~HighMotion(w) /\ BlurEntry(w)
  <2>1. /\ a.score >= 88 /\ b.score >= 88 /\ c.score >= 88
        /\ a.motion < 10 /\ b.motion < 10 /\ c.motion < 10
        /\ a.peak < 24 /\ b.peak < 24 /\ c.peak < 24
    BY <1>15 DEF BlurAlertScore, MotionAmbiguousMedian, MotionGuardPeak
  <2>2. /\ s[1] >= 88 /\ s[2] >= 88 /\ s[3] >= 88
        /\ m[1] < 10 /\ m[2] < 10 /\ m[3] < 10
        /\ m[1] \in Int /\ m[2] \in Int /\ m[3] \in Int
        /\ s[1] \in Int /\ s[2] \in Int /\ s[3] \in Int
    <3>1. \A i \in Int : Clamp(i) \in Int
      BY <1>13
    <3>2. \A i \in Int : i >= 88 => Clamp(i) >= 88
      BY <1>13
    <3>3. \A i \in Int : i < 10 => Clamp(i) < 10
      BY <1>13
    <3>4. s[1] >= 88 /\ s[2] >= 88 /\ s[3] >= 88
      BY <1>4, <1>12, <2>1, <3>2
    <3>5. m[1] < 10 /\ m[2] < 10 /\ m[3] < 10
      BY <1>4, <1>12, <2>1, <3>3
    <3> QED
      BY <1>4, <1>12, <3>1, <3>4, <3>5
  <2>3. MedianScore(w) >= 88 /\ MedianMotion(w) < 10 /\ MedianMotion(w) \in Int
    BY <1>10, <1>11, <2>2
  <2>4. \A i \in DOMAIN w : w[i].peak < 24 /\ w[i].peak \in Int
    <3>1. /\ w[1].peak < 24 /\ w[2].peak < 24 /\ w[3].peak < 24
          /\ w[1].peak \in Int /\ w[2].peak \in Int /\ w[3].peak \in Int
      BY <1>3, <1>4, <1>13, <2>1
    <3> QED
      BY <1>1, <3>1
  <2>5. HighCount(w) = 3
    <3> DEFINE H == {i \in DOMAIN w : w[i].score >= BlurAlertScore}
    <3>1. H = {1, 2, 3}
      BY <1>1, <1>5, <2>2 DEF BlurAlertScore
    <3>2. HighCount(w) = Cardinality(H)
      BY DEF HighCount
    <3> HIDE DEF H
    <3>3. Cardinality(H) = (IF 1 \in H THEN 1 ELSE 0) + (IF 2 \in H THEN 1 ELSE 0)
                             + (IF 3 \in H THEN 1 ELSE 0)
      <4>1. AmongThree(H, 1, 2, 3)
        BY <3>1 DEF AmongThree
      <4> QED
        BY <4>1, CountOfThree
    <3>4. 1 \in H /\ 2 \in H /\ 3 \in H
      BY <3>1
    <3> QED
      BY <3>2, <3>3, <3>4
  <2>6. ~HighMotion(w)
    BY <2>3, <2>4 DEF HighMotion, MotionGuardMedian, MotionGuardPeak
  <2>7. BlurEntry(w)
    BY <2>3, <2>5 DEF BlurEntry, MotionAmbiguousMedian, BlurAlertScore, BlurMinHigh
  <2> QED
    BY <2>6, <2>7
<1> QED
  BY <1>14, <1>15

\* The window of the blur rule holds the last rows, at most BlurWindow of them.
LastBlurRows(w, h) ==
  /\ w \in Seq(BlurSampleType)
  /\ Len(w) = Least(Len(h), BlurWindow)
  /\ \A j \in 1 .. Len(w) : w[j] = BlurSample(h[Len(h) - Len(w) + j])

LEMMA BlurWindowMoves ==
  ASSUME NEW h \in Seq(BlurRowType), NEW w, LastBlurRows(w, h), NEW row \in BlurRowType
  PROVE  LastBlurRows(UpdateBlurWindow(w, row), Append(h, row))
<1> DEFINE h2 == Append(h, row)
           x == Append(w, BlurSample(row))
           n == Len(h)
           L == Len(w)
           from == Greatest(1, Len(x) - BlurWindow + 1)
           y == SubSeq(x, from, Len(x))
<1>1. /\ n \in Nat /\ L \in Nat /\ L = Least(n, BlurWindow) /\ w \in Seq(BlurSampleType)
      /\ \A j \in 1 .. L : w[j] = BlurSample(h[n - L + j])
  BY DEF LastBlurRows
<1>2. BlurSample(row) \in BlurSampleType
  BY BlurSampleTypes
<1>3. /\ h2 \in Seq(BlurRowType) /\ Len(h2) = n + 1 /\ h2[n + 1] = row
      /\ \A m \in 1 .. n : h2[m] = h[m]
  OBVIOUS
<1>4. /\ x \in Seq(BlurSampleType) /\ Len(x) = L + 1 /\ x[L + 1] = BlurSample(row)
      /\ \A j \in 1 .. L : x[j] = w[j]
  BY <1>1, <1>2
<1>5. UpdateBlurWindow(w, row) = y
  BY DEF UpdateBlurWindow
<1> HIDE DEF h2, x, n, L, y
<1>6. L <= n /\ L <= 3 /\ (L = n \/ L = 3)
  BY <1>1 DEF Least, BlurWindow
<1>7. ASSUME NEW j \in 1 .. L + 1
      PROVE  x[j] = BlurSample(h2[n - L + j])
  <2>1. CASE j = L + 1
    <3>1. n - L + j = n + 1
      BY <1>1, <2>1
    <3> QED
      BY <1>3, <1>4, <2>1, <3>1
  <2>2. CASE j # L + 1
    <3>1. j \in 1 .. L /\ n - L + j \in 1 .. n
      BY <1>1, <1>6, <2>2
    <3> QED
      BY <1>1, <1>3, <1>4, <3>1
  <2> QED
    BY <2>1, <2>2
<1>8. from = (IF L = 3 THEN 2 ELSE 1) /\ from \in Nat
  BY <1>1, <1>4, <1>6 DEF Greatest, BlurWindow
<1> HIDE DEF from
<1>9. /\ y \in Seq(BlurSampleType) /\ Len(y) = L + 2 - from
      /\ \A j \in 1 .. L + 2 - from : y[j] = x[from - 1 + j]
  <2>1. from \in 1 .. L + 1 /\ L + 1 \in Nat
    BY <1>1, <1>6, <1>8
  <2>2. y = SubSeq(x, from, L + 1)
    BY <1>4 DEF y
  <2>3. SubSeq(x, from, L + 1) \in Seq(BlurSampleType)
    BY <1>4, <2>1
  <2>4. Len(SubSeq(x, from, L + 1)) = (L + 1) - from + 1
    BY <1>4, <2>1
  <2>5. \A j \in 1 .. (L + 1) - from + 1 : SubSeq(x, from, L + 1)[j] = x[from + j - 1]
    BY <1>4, <2>1
  <2>6. (L + 1) - from + 1 = L + 2 - from
    BY <1>1, <1>8
  <2>7. ASSUME NEW j \in 1 .. L + 2 - from
        PROVE  y[j] = x[from - 1 + j]
    <3>1. from + j - 1 = from - 1 + j /\ j \in 1 .. (L + 1) - from + 1
      BY <1>1, <1>8
    <3>2. SubSeq(x, from, L + 1)[j] = x[from + j - 1]
      BY <2>5, <3>1
    <3> QED
      BY <2>2, <3>1, <3>2
  <2>8. Len(y) = L + 2 - from /\ y \in Seq(BlurSampleType)
    BY <2>2, <2>3, <2>4, <2>6
  <2> QED
    BY <2>7, <2>8
<1>10. Len(y) = Least(n + 1, BlurWindow)
  BY <1>1, <1>6, <1>8, <1>9 DEF Least, BlurWindow
<1>11. ASSUME NEW j \in 1 .. Len(y)
       PROVE  y[j] = BlurSample(h2[Len(h2) - Len(y) + j])
  <2>1. /\ j \in 1 .. L + 2 - from /\ from - 1 + j \in 1 .. L + 1
        /\ n - L + (from - 1 + j) = (n + 1) - Len(y) + j
    <3>1. Len(y) = L + 2 - from
      BY <1>9
    <3>2. j \in 1 .. L + 2 - from
      BY <3>1
    <3> QED
      BY <1>1, <1>8, <3>1, <3>2
  <2>2. y[j] = x[from - 1 + j]
    BY <1>9, <2>1
  <2>3. x[from - 1 + j] = BlurSample(h2[n - L + (from - 1 + j)])
    BY <1>7, <2>1
  <2> QED
    BY <1>3, <2>1, <2>2, <2>3
<1>12. LastBlurRows(y, h2)
  BY <1>3, <1>9, <1>10, <1>11 DEF LastBlurRows
<1> QED
  BY <1>5, <1>12 DEF h2

\* The verdict of the blur rule on the next row, told from the rows.
LEMMA BlurVerdict ==
  ASSUME NEW k, k[2] # "video_metrics", NEW A,
         NEW h \in Seq(BlurRowType), NEW w, LastBlurRows(w, h),
         NEW n \in Nat, n = Len(h), n > 0, NEW state, state = BlurState(k \in A, w, n)
  PROVE  Verdict(state, k, A, h, n)
<1> USE DEF Verdict
<1>1. w \in Seq(BlurSampleType) /\ Len(w) = Least(n, 3) /\ Len(w) \in Nat
  BY DEF LastBlurRows, BlurWindow, Least
<1>2. CASE n < 3
  <2>1. ~BlurRecovered(w) /\ ~BlurReady(w, n)
    BY <1>1, <1>2 DEF BlurRecovered, BlurReady, BlurWindow, Least
  <2>2. ~Clear(k, h, n) /\ ~Faulty(k, h, n)
    BY <1>2 DEF Clear, Faulty, BlurWindow, BlurMinTotalSamples
  <2>3. state = IF k \in A THEN "blur_active" ELSE "not_ready"
    BY <2>1 DEF BlurState
  <2> QED
    BY <2>2, <2>3
<1>3. CASE n >= 3
  <2> DEFINE a == h[n - 2]
             b == h[n - 1]
             c == h[n]
  <2>1. a \in BlurRowType /\ b \in BlurRowType /\ c \in BlurRowType
    BY <1>3
  <2>2. Len(w) = 3
    BY <1>1, <1>3 DEF Least
  <2>3. w[1] = BlurSample(a) /\ w[2] = BlurSample(b) /\ w[3] = BlurSample(c)
    <3>1. \A j \in 1 .. 3 : w[j] = BlurSample(h[n - 3 + j])
      BY <2>2 DEF LastBlurRows
    <3>2. n - 3 + 1 = n - 2 /\ n - 3 + 2 = n - 1 /\ n - 3 + 3 = n
      OBVIOUS
    <3> QED
      BY <3>1, <3>2
  <2>4. LastRows(n) = {n - 2, n - 1, n}
    BY <1>3 DEF LastRows, BlurWindow
  <2>5. /\ a.score \in Int /\ b.score \in Int /\ c.score \in Int
    BY <2>1, BlurSampleTypes
  <2>6. Clear(k, h, n) <=> Two(a.score <= BlurRecoveryScore, b.score <= BlurRecoveryScore,
                               c.score <= BlurRecoveryScore)
    <3> DEFINE S == {j \in LastRows(n) : h[j].score <= BlurRecoveryScore}
    <3>1. /\ S \subseteq {n - 2, n - 1, n}
          /\ n - 2 \in S <=> a.score <= BlurRecoveryScore
          /\ n - 1 \in S <=> b.score <= BlurRecoveryScore
          /\ n \in S <=> c.score <= BlurRecoveryScore
      BY <2>4
    <3>2. Clear(k, h, n) <=> n >= BlurWindow /\ 2 * Cardinality(S) > BlurWindow
      BY DEF Clear
    <3> HIDE DEF S, a, b, c
    <3>3. n - 2 # n - 1 /\ n - 2 # n /\ n - 1 # n
      OBVIOUS
    <3>4. Cardinality(S) = (IF n - 2 \in S THEN 1 ELSE 0) + (IF n - 1 \in S THEN 1 ELSE 0)
                             + (IF n \in S THEN 1 ELSE 0)
      <4>1. AmongThree(S, n - 2, n - 1, n)
        BY <3>1, <3>3 DEF AmongThree
      <4> QED
        BY <4>1, CountOfThree
    <3>5. 2 * Cardinality(S) > 3 <=> Two(n - 2 \in S, n - 1 \in S, n \in S)
      BY <3>4 DEF Two
    <3> QED
      BY <1>3, <3>1, <3>2, <3>5 DEF Two, BlurWindow
  <2>7. Faulty(k, h, n) <=> /\ n >= BlurMinTotalSamples
                            /\ \A r \in {a, b, c} : /\ r.score >= BlurAlertScore
                                                    /\ r.motion < MotionAmbiguousMedian
                                                    /\ r.peak < MotionGuardPeak
    BY <2>4 DEF Faulty
  <2> HIDE DEF a, b, c
  <2>8. /\ BlurRecovered(w) <=> Two(a.score <= BlurRecoveryScore, b.score <= BlurRecoveryScore,
                                     c.score <= BlurRecoveryScore)
        /\ (\A r \in {a, b, c} : /\ r.score >= BlurAlertScore
                                 /\ r.motion < MotionAmbiguousMedian
                                 /\ r.peak < MotionGuardPeak)
             => ~HighMotion(w) /\ BlurEntry(w)
    BY <1>1, <2>1, <2>2, <2>3, FullBlurWindow
  <2>9. Faulty(k, h, n) => BlurReady(w, n) /\ ~HighMotion(w) /\ BlurEntry(w)
    BY <2>2, <2>7, <2>8 DEF BlurReady, BlurWindow
  <2>10. BlurRecovered(w) <=> Clear(k, h, n)
    BY <2>6, <2>8
  <2>11. ~(Clear(k, h, n) /\ Faulty(k, h, n))
    <3>1. Faulty(k, h, n) => a.score >= 88 /\ b.score >= 88 /\ c.score >= 88
      BY <2>7 DEF BlurAlertScore
    <3> QED
      BY <2>5, <2>6, <3>1 DEF Two, BlurRecoveryScore
  <2>12. state = IF k \in A
                 THEN IF Clear(k, h, n) THEN "recovered" ELSE "blur_active"
                 ELSE IF ~BlurReady(w, n) THEN "not_ready"
                      ELSE IF HighMotion(w) THEN "motion_suppressed"
                           ELSE IF BlurEntry(w) THEN "entered" ELSE "normal"
    BY <2>10 DEF BlurState
  <2> QED
    BY <2>9, <2>11, <2>12
<1> QED
  BY <1>2, <1>3

-----------------------------------------------------------------------------
(* The episodes of one key.                                                *)

RuleRowType(k) == IF k[2] = "video_metrics" THEN BlackRowType ELSE BlurRowType

\* The fault has not been gone since an alert.
Reported(k, h, al) == \E i \in al : \A m \in i + 1 .. Len(h) : ~Clear(k, h, m)

\* Any two alerts have the fault gone between them.
Separate(k, h, al) ==
  \A i, j \in al : i < j => \E m \in i + 1 .. j - 1 : Clear(k, h, m)

\* What holds of the window, the count, the flag (whether k is in A), the rows
\* and the alerts of one key: the window is what the rows say it must be, the
\* flag is up as long as the last alert stands, any two alerts have the fault
\* gone between them, and a fault that is there is reported.
KeyInv(k, w, s, A, h, al) ==
  /\ h \in Seq(RuleRowType(k)) /\ s = Len(h)
  /\ IF k[2] = "video_metrics" THEN \E f \in 1 .. Len(h) + 1 : BlackWindowFrom(w, h, f)
                               ELSE LastBlurRows(w, h)
  /\ al \subseteq 1 .. Len(h)
  /\ k \in A <=> Reported(k, h, al)
  /\ Separate(k, h, al)
  /\ Len(h) > 0 /\ Faulty(k, h, Len(h)) => Reported(k, h, al)

\* Whether the fault was gone at a row does not change when a row follows.
LEMMA ClearStays ==
  ASSUME NEW k, NEW h \in Seq(RuleRowType(k)), NEW row \in RuleRowType(k)
  PROVE  \A m \in 1 .. Len(h) : Clear(k, Append(h, row), m) <=> Clear(k, h, m)
<1> SUFFICES ASSUME NEW m \in 1 .. Len(h)
             PROVE  Clear(k, Append(h, row), m) <=> Clear(k, h, m)
  OBVIOUS
<1> DEFINE h2 == Append(h, row)
<1>1. \A i \in 1 .. Len(h) : h2[i] = h[i]
  OBVIOUS
<1>2. CASE k[2] = "video_metrics"
  <2>1. h \in Seq(BlackRowType) /\ row \in BlackRowType
    BY <1>2 DEF RuleRowType
  <2>2. m \in 0 .. Len(h)
    OBVIOUS
  <2>3. Played(h2, m) = Played(h, m) /\ RecentBlack(h2, m) = RecentBlack(h, m)
    BY <2>1, <2>2, PlayedOnceAndForAll
  <2>4. h2[m] = h[m]
    BY <1>1
  <2> HIDE DEF h2
  <2>5. Clear(k, h2, m) <=> Clear(k, h, m)
    BY <1>2, <2>3, <2>4 DEF Clear
  <2> QED
    BY <2>5 DEF h2
<1>3. CASE k[2] # "video_metrics"
  <2>1. m \in Nat /\ Len(h) \in Nat /\ m <= Len(h)
    OBVIOUS
  <2>2. \A j \in LastRows(m) : j \in 1 .. Len(h)
    BY <2>1 DEF LastRows, BlurWindow
  <2>3. {j \in LastRows(m) : h2[j].score <= BlurRecoveryScore}
          = {j \in LastRows(m) : h[j].score <= BlurRecoveryScore}
    BY <1>1, <2>2
  <2> HIDE DEF h2
  <2>4. Clear(k, h2, m) <=> Clear(k, h, m)
    BY <1>3, <2>3 DEF Clear
  <2> QED
    BY <2>4 DEF h2
<1> QED
  BY <1>2, <1>3

LEMMA EmptyBlackWindow == BlackWindowFrom(<<>>, <<>>, 1)
<1>1. <<>> \in Seq(BlackRowType) /\ <<>> \in Seq(SampleType) /\ Len(<<>>) = 0
  OBVIOUS
<1>2. Played(<<>>, 0) = 0
  BY <1>1, PlayedSteps
<1> QED
  BY <1>1, <1>2 DEF BlackWindowFrom, Cut, Greatest, BlackWindow

\* What a verdict on the n-th row does to the flag and to the alerts.
Outcome(state, k, A, A2, n, al, al2) ==
  /\ k \in A2 <=> state = "entered" \/ (state # "recovered" /\ k \in A)
  /\ al2 = IF state = "entered" THEN al \cup {n} ELSE al

\* What is used of a key before a row, and what is shown of it afterwards.
KeyBefore(k, A, h, row, al) ==
  /\ h \in Seq(RuleRowType(k)) /\ row \in RuleRowType(k) /\ al \subseteq 1 .. Len(h)
  /\ k \in A <=> Reported(k, h, al)
  /\ Separate(k, h, al)

KeyAfter(k, A2, h2, n, al2) ==
  /\ al2 \subseteq 1 .. n
  /\ k \in A2 <=> Reported(k, h2, al2)
  /\ Separate(k, h2, al2)
  /\ Faulty(k, h2, n) => Reported(k, h2, al2)

\* One row more: the verdict, the flag and the alerts follow what the rows say.
LEMMA EpisodeStep ==
  ASSUME NEW k, NEW A, NEW h, NEW row, NEW al, KeyBefore(k, A, h, row, al),
         NEW h2, h2 = Append(h, row), NEW n \in Nat, n = Len(h) + 1, NEW state,
         Verdict(state, k, A, h2, n),
         NEW A2, NEW al2, Outcome(state, k, A, A2, n, al, al2)
  PROVE  KeyAfter(k, A2, h2, n, al2)
<1> USE DEF Separate, Verdict, Outcome, KeyBefore, KeyAfter
<1>1. /\ Len(h2) = n /\ Len(h) = n - 1 /\ n >= 1
      /\ \A i \in al : i \in 1 .. n - 1
  OBVIOUS
<1>2. \A m \in 1 .. n - 1 : Clear(k, h2, m) <=> Clear(k, h, m)
  BY <1>1, ClearStays
<1>3. Reported(k, h, al) <=> \E i \in al : \A m \in i + 1 .. n - 1 : ~Clear(k, h2, m)
  <2>1. \A i \in al : \A m \in i + 1 .. n - 1 : m \in 1 .. n - 1
    BY <1>1
  <2> QED
    BY <1>1, <1>2, <2>1 DEF Reported
<1>4. \A B : Reported(k, h2, B) <=> \E i \in B : \A m \in i + 1 .. n : ~Clear(k, h2, m)
  BY <1>1 DEF Reported
<1>5. \A i, j \in al : i < j => \E m \in i + 1 .. j - 1 : Clear(k, h2, m)
  <2> SUFFICES ASSUME NEW i \in al, NEW j \in al, i < j
               PROVE  \E m \in i + 1 .. j - 1 : Clear(k, h2, m)
    OBVIOUS
  <2>1. PICK m \in i + 1 .. j - 1 : Clear(k, h, m)
    OBVIOUS
  <2>2. m \in 1 .. n - 1
    BY <1>1
  <2> QED
    BY <1>2, <2>1, <2>2
<1>9. al2 \subseteq 1 .. n
  <2>1. \A i \in al2 : i = n \/ i \in al
    OBVIOUS
  <2>2. \A i \in 1 .. n - 1 : i \in 1 .. n
    BY <1>1
  <2>3. n \in 1 .. n
    BY <1>1
  <2>4. \A i \in al2 : i \in 1 .. n
    BY <1>1, <2>1, <2>2, <2>3
  <2> QED
    BY <2>4
<1>6. CASE state = "entered"
  <2>1. al2 = al \cup {n} /\ k \notin A /\ k \in A2
    BY <1>6
  <2>2. Reported(k, h2, al2)
    <3>1. n \in al2 /\ \A m \in n + 1 .. n : FALSE
      BY <2>1
    <3> QED
      BY <1>4, <3>1
  <2>3. ASSUME NEW i \in al
        PROVE  \E m \in i + 1 .. n - 1 : Clear(k, h2, m)
    BY <1>3, <2>1
  <2>4. \A i, j \in al2 : i < j => \E m \in i + 1 .. j - 1 : Clear(k, h2, m)
    <3> SUFFICES ASSUME NEW i \in al2, NEW j \in al2, i < j
                 PROVE  \E m \in i + 1 .. j - 1 : Clear(k, h2, m)
      OBVIOUS
    <3>1. i \in al
      <4>1. i = n => FALSE
        BY <1>1, <2>1
      <4> QED
        BY <2>1, <4>1
    <3>2. CASE j = n
      BY <2>3, <3>1, <3>2
    <3>3. CASE j \in al
      BY <1>5, <3>1, <3>3
    <3> QED
      BY <2>1, <3>2, <3>3
  <2> QED
    BY <1>9, <2>1, <2>2, <2>4
<1>7. CASE state = "recovered"
  <2>1. al2 = al /\ k \notin A2 /\ Clear(k, h2, n)
    BY <1>7
  <2>2. ~Reported(k, h2, al2)
    <3>1. \A i \in al : n \in i + 1 .. n
      BY <1>1
    <3> QED
      BY <1>4, <2>1, <3>1
  <2>3. ~Faulty(k, h2, n)
    BY <2>1
  <2> QED
    BY <1>5, <1>9, <2>1, <2>2, <2>3
<1>8. CASE state # "entered" /\ state # "recovered"
  <2>1. al2 = al /\ (k \in A2 <=> k \in A)
    BY <1>8
  <2>2. k \in A => ~Clear(k, h2, n)
    BY <1>8
  <2>3. k \notin A => ~Faulty(k, h2, n)
    BY <1>8
  <2>4. k \in A => Reported(k, h2, al2)
    <3> SUFFICES ASSUME k \in A
                 PROVE  Reported(k, h2, al2)
      OBVIOUS
    <3>1. PICK i \in al : \A m \in i + 1 .. n - 1 : ~Clear(k, h2, m)
      BY <1>3
    <3>2. \A m \in i + 1 .. n : m = n \/ m \in i + 1 .. n - 1
      BY <1>1
    <3>3. \A m \in i + 1 .. n : ~Clear(k, h2, m)
      BY <2>2, <3>1, <3>2
    <3> QED
      BY <1>4, <2>1, <3>3
  <2>5. Reported(k, h2, al2) => k \in A
    <3> SUFFICES ASSUME Reported(k, h2, al2)
                 PROVE  k \in A
      OBVIOUS
    <3>1. PICK i \in al : \A m \in i + 1 .. n : ~Clear(k, h2, m)
      BY <1>4, <2>1
    <3>2. \A m \in i + 1 .. n - 1 : m \in i + 1 .. n
      BY <1>1
    <3> QED
      BY <1>3, <3>1, <3>2
  <2> QED
    BY <1>5, <1>9, <2>1, <2>3, <2>4, <2>5
<1> QED
  BY <1>6, <1>7, <1>8

\* A key that has seen no row.
LEMMA NewKey ==
  ASSUME NEW k, NEW A, k \notin A
  PROVE  KeyInv(k, <<>>, 0, A, <<>>, {})
<1>1. <<>> \in Seq(RuleRowType(k)) /\ Len(<<>>) = 0 /\ <<>> \in Seq(BlurSampleType)
  OBVIOUS
<1>2. BlackWindowFrom(<<>>, <<>>, 1) /\ 1 \in 1 .. Len(<<>>) + 1
  BY <1>1, EmptyBlackWindow
<1>3. LastBlurRows(<<>>, <<>>)
  BY <1>1 DEF LastBlurRows, Least, BlurWindow
<1>4. ~Reported(k, <<>>, {}) /\ Separate(k, <<>>, {})
  BY DEF Reported, Separate
<1> HIDE DEF BlackWindowFrom
<1> QED
  BY <1>1, <1>2, <1>3, <1>4 DEF KeyInv

\* Evaluating one row keeps what holds of its key.
LEMMA KeyStep ==
  ASSUME NEW k, NEW w, NEW s, NEW A, NEW h, NEW al, KeyInv(k, w, s, A, h, al),
         NEW row \in RuleRowType(k), NEW w2, NEW state, NEW A2, NEW al2,
         w2 = IF k[2] = "video_metrics" THEN UpdateBlackWindow(w, row)
                                        ELSE UpdateBlurWindow(w, row),
         state = IF k[2] = "video_metrics" THEN BlackState(k \in A, w2, row)
                                           ELSE BlurState(k \in A, w2, s + 1),
         k \in A2 <=> state = "entered" \/ (state # "recovered" /\ k \in A),
         al2 = IF state = "entered" THEN al \cup {Len(h) + 1} ELSE al
  PROVE  KeyInv(k, w2, s + 1, A2, Append(h, row), al2)
<1> DEFINE h2 == Append(h, row)
           n == Len(h) + 1
<1>1. /\ h \in Seq(RuleRowType(k)) /\ s = Len(h) /\ Len(h) \in Nat
      /\ al \subseteq 1 .. Len(h)
      /\ k \in A <=> Reported(k, h, al)
      /\ Separate(k, h, al)
  BY DEF KeyInv
<1>2. h2 \in Seq(RuleRowType(k)) /\ Len(h2) = n /\ n \in Nat /\ n > 0 /\ h2[n] = row /\ s + 1 = n
  BY <1>1
<1> HIDE DEF h2, n
<1>3. /\ IF k[2] = "video_metrics" THEN \E g \in 1 .. Len(h2) + 1 : BlackWindowFrom(w2, h2, g)
                                   ELSE LastBlurRows(w2, h2)
      /\ Verdict(state, k, A, h2, n)
  <2>1. CASE k[2] = "video_metrics"
    <3>1. h \in Seq(BlackRowType) /\ h2 \in Seq(BlackRowType) /\ row \in BlackRowType
      BY <1>1, <1>2, <2>1 DEF RuleRowType
    <3>2. PICK f \in 1 .. Len(h) + 1 : BlackWindowFrom(w, h, f)
      BY <2>1 DEF KeyInv
    <3>3. PICK g \in Nat : BlackWindowFrom(UpdateBlackWindow(w, row), h2, g)
      BY <3>1, <3>2, WindowMoves DEF h2
    <3>4. w2 = UpdateBlackWindow(w, row) /\ state = BlackState(k \in A, w2, h2[n])
      BY <1>2, <2>1
    <3>5. BlackWindowFrom(w2, h2, g)
      BY <3>3, <3>4
    <3>6. g \in 1 .. Len(h2) + 1
      BY <3>5 DEF BlackWindowFrom
    <3>7. Verdict(state, k, A, h2, n)
      BY <1>2, <2>1, <3>1, <3>4, <3>5, BlackVerdict
    <3> QED
      BY <2>1, <3>5, <3>6, <3>7
  <2>2. CASE k[2] # "video_metrics"
    <3>1. h \in Seq(BlurRowType) /\ h2 \in Seq(BlurRowType) /\ row \in BlurRowType
      BY <1>1, <1>2, <2>2 DEF RuleRowType
    <3>2. LastBlurRows(w, h)
      BY <2>2 DEF KeyInv
    <3>3. LastBlurRows(UpdateBlurWindow(w, row), h2)
      BY <3>1, <3>2, BlurWindowMoves DEF h2
    <3>4. w2 = UpdateBlurWindow(w, row) /\ state = BlurState(k \in A, w2, n)
      BY <1>2, <2>2
    <3>5. LastBlurRows(w2, h2)
      BY <3>3, <3>4
    <3>6. Verdict(state, k, A, h2, n)
      BY <1>2, <2>2, <3>1, <3>4, <3>5, BlurVerdict
    <3> QED
      BY <2>2, <3>5, <3>6
  <2> QED
    BY <2>1, <2>2
<1>4. KeyAfter(k, A2, h2, n, al2)
  <2>1. Outcome(state, k, A, A2, n, al, al2)
    BY DEF Outcome, n
  <2>2. h2 = Append(h, row) /\ n = Len(h) + 1
    BY DEF h2, n
  <2>3. KeyBefore(k, A, h, row, al)
    BY <1>1 DEF KeyBefore
  <2>4. Verdict(state, k, A, h2, n)
    BY <1>3
  <2>5. n \in Nat
    BY <1>2
  <2> QED
    BY <2>1, <2>2, <2>3, <2>4, <2>5, EpisodeStep
<1>5. KeyInv(k, w2, s + 1, A2, h2, al2)
  BY <1>2, <1>3, <1>4 DEF KeyInv, KeyAfter
<1> QED
  BY <1>5 DEF h2

-----------------------------------------------------------------------------
(* The rules.                                                              *)

\* It holds of every key.
RulesInv ==
  /\ windows = [k \in Keys |-> windows[k]] /\ seen = [k \in Keys |-> seen[k]]
  /\ history = [k \in Keys |-> history[k]] /\ alerted = [k \in Keys |-> alerted[k]]
  /\ \A k \in Keys : KeyInv(k, windows[k], seen[k], active, history[k], alerted[k])

\* Only the membership of the key itself in the set of flags matters.
LEMMA OtherFlags ==
  ASSUME NEW k, NEW w, NEW s, NEW A, NEW h, NEW al, KeyInv(k, w, s, A, h, al),
         NEW B, k \in B <=> k \in A
  PROVE  KeyInv(k, w, s, B, h, al)
BY DEF KeyInv

LEMMA EvaluateKeepsInv ==
  ASSUME RulesInv, NEW k \in Keys, NEW row \in RowsOf(k), Evaluate(k, row)
  PROVE  RulesInv'
<1> DEFINE w2 == IF k[2] = "video_metrics" THEN UpdateBlackWindow(windows[k], row)
                                           ELSE UpdateBlurWindow(windows[k], row)
           state == IF k[2] = "video_metrics" THEN BlackState(k \in active, w2, row)
                                              ELSE BlurState(k \in active, w2, seen[k] + 1)
           al2 == IF state = "entered" THEN alerted[k] \cup {Len(history[k]) + 1} ELSE alerted[k]
           A2 == CASE state = "entered"   -> active \cup {k}
                   [] state = "recovered" -> active \ {k}
                   [] OTHER               -> active
<1>1. /\ windows' = [windows EXCEPT ![k] = w2]
      /\ seen' = [seen EXCEPT ![k] = @ + 1]
      /\ active' = A2
      /\ history' = [history EXCEPT ![k] = Append(@, row)]
      /\ alerted' = IF state = "entered"
                    THEN [alerted EXCEPT ![k] = @ \cup {Len(history[k]) + 1}]
                    ELSE alerted
  BY DEF Evaluate
<1>2. /\ windows = [q \in Keys |-> windows[q]] /\ seen = [q \in Keys |-> seen[q]]
      /\ history = [q \in Keys |-> history[q]] /\ alerted = [q \in Keys |-> alerted[q]]
  BY DEF RulesInv
<1>3. row \in RuleRowType(k)
  BY RulesAssumption DEF RowsOf, RuleRowType
<1>4. /\ k \in A2 <=> state = "entered" \/ (state # "recovered" /\ k \in active)
      /\ \A q \in Keys : q # k => (q \in A2 <=> q \in active)
  <2> HIDE DEF state
  <2> QED
    OBVIOUS
<1>5. KeyInv(k, windows[k], seen[k], active, history[k], alerted[k])
  BY DEF RulesInv
<1>11. w2 = IF k[2] = "video_metrics" THEN UpdateBlackWindow(windows[k], row)
                                      ELSE UpdateBlurWindow(windows[k], row)
  OBVIOUS
<1>12. state = IF k[2] = "video_metrics" THEN BlackState(k \in active, w2, row)
                                         ELSE BlurState(k \in active, w2, seen[k] + 1)
  OBVIOUS
<1>13. al2 = IF state = "entered" THEN alerted[k] \cup {Len(history[k]) + 1} ELSE alerted[k]
  OBVIOUS
<1>14. k \in A2 <=> state = "entered" \/ (state # "recovered" /\ k \in active)
  BY <1>4
<1> HIDE DEF A2, w2, state, al2
<1>6. KeyInv(k, w2, seen[k] + 1, A2, Append(history[k], row), al2)
  BY <1>3, <1>5, <1>11, <1>12, <1>13, <1>14, KeyStep
<1>7. /\ windows'[k] = w2 /\ seen'[k] = seen[k] + 1 /\ history'[k] = Append(history[k], row)
      /\ windows' = [q \in Keys |-> windows'[q]] /\ seen' = [q \in Keys |-> seen'[q]]
      /\ history' = [q \in Keys |-> history'[q]]
      /\ \A q \in Keys : q # k => /\ windows'[q] = windows[q] /\ seen'[q] = seen[q]
                                  /\ history'[q] = history[q]
  BY <1>1, <1>2
<1>8. /\ alerted'[k] = al2 /\ alerted' = [q \in Keys |-> alerted'[q]]
      /\ \A q \in Keys : q # k => alerted'[q] = alerted[q]
  BY <1>1, <1>2 DEF al2
<1>9. ASSUME NEW q \in Keys
      PROVE  KeyInv(q, windows'[q], seen'[q], active', history'[q], alerted'[q])
  <2>1. CASE q = k
    BY <1>1, <1>6, <1>7, <1>8, <2>1
  <2>2. CASE q # k
    <3>1. KeyInv(q, windows[q], seen[q], active, history[q], alerted[q])
      BY DEF RulesInv
    <3>2. KeyInv(q, windows[q], seen[q], A2, history[q], alerted[q])
      BY <1>4, <2>2, <3>1, OtherFlags
    <3> QED
      BY <1>1, <1>7, <1>8, <2>2, <3>2
  <2> QED
    BY <2>1, <2>2
<1>10. (\A q \in Keys : KeyInv(q, windows[q], seen[q], active, history[q], alerted[q]))'
  BY <1>9 DEF KeyInv, BlackWindowFrom, LastBlurRows, Reported, Clear, Faulty
<1> QED
  BY <1>7, <1>8, <1>10 DEF RulesInv

LEMMA ResetKeepsInv ==
  ASSUME RulesInv, NEW who \in Sessions, Reset(who)
  PROVE  RulesInv'
<1>1. /\ windows' = [k \in Keys |-> IF k[1] = who THEN <<>> ELSE windows[k]]
      /\ seen' = [k \in Keys |-> IF k[1] = who THEN 0 ELSE seen[k]]
      /\ active' = {k \in active : k[1] # who}
      /\ history' = [k \in Keys |-> IF k[1] = who THEN <<>> ELSE history[k]]
      /\ alerted' = [k \in Keys |-> IF k[1] = who THEN {} ELSE alerted[k]]
  BY DEF Reset
<1>2. ASSUME NEW k \in Keys
      PROVE  KeyInv(k, windows'[k], seen'[k], active', history'[k], alerted'[k])
  <2>1. CASE k[1] = who
    <3>1. k \notin active'
      BY <1>1, <2>1
    <3>2. /\ windows'[k] = <<>> /\ seen'[k] = 0 /\ history'[k] = <<>> /\ alerted'[k] = {}
      BY <1>1, <2>1
    <3> QED
      BY <3>1, <3>2, NewKey
  <2>2. CASE k[1] # who
    <3>1. KeyInv(k, windows[k], seen[k], active, history[k], alerted[k])
      BY DEF RulesInv
    <3>2. k \in active' <=> k \in active
      BY <1>1, <2>2
    <3>3. KeyInv(k, windows[k], seen[k], active', history[k], alerted[k])
      BY <3>1, <3>2, OtherFlags
    <3> QED
      BY <1>1, <2>2, <3>3
  <2> QED
    BY <2>1, <2>2
<1>3. (\A k \in Keys : KeyInv(k, windows[k], seen[k], active, history[k], alerted[k]))'
  BY <1>2
<1>4. /\ windows' = [k \in Keys |-> windows'[k]] /\ seen' = [k \in Keys |-> seen'[k]]
      /\ history' = [k \in Keys |-> history'[k]] /\ alerted' = [k \in Keys |-> alerted'[k]]
  BY <1>1
<1> QED
  BY <1>3, <1>4 DEF RulesInv

\* The rolling state of every key is what its rows since the last reset say.
THEOREM RulesInvariant == RulesSpec => []RulesInv
<1>1. RulesInit => RulesInv
  <2> SUFFICES ASSUME RulesInit
               PROVE  RulesInv
    OBVIOUS
  <2>1. ASSUME NEW k \in Keys
        PROVE  KeyInv(k, windows[k], seen[k], active, history[k], alerted[k])
    <3>1. /\ windows[k] = <<>> /\ seen[k] = 0 /\ k \notin active
          /\ history[k] = <<>> /\ alerted[k] = {}
      BY DEF RulesInit
    <3> QED
      BY <3>1, NewKey
  <2>2. /\ windows = [k \in Keys |-> windows[k]] /\ seen = [k \in Keys |-> seen[k]]
        /\ history = [k \in Keys |-> history[k]] /\ alerted = [k \in Keys |-> alerted[k]]
    BY DEF RulesInit
  <2> QED
    BY <2>1, <2>2 DEF RulesInv
<1>2. RulesInv /\ [RulesNext]_ruleVars => RulesInv'
  <2> SUFFICES ASSUME RulesInv, [RulesNext]_ruleVars
               PROVE  RulesInv'
    OBVIOUS
  <2>1. CASE UNCHANGED ruleVars
    BY <2>1 DEF RulesInv, ruleVars
  <2>2. ASSUME NEW k \in Keys, NEW row \in RowsOf(k), Evaluate(k, row)
        PROVE  RulesInv'
    BY <2>2, EvaluateKeepsInv
  <2>3. ASSUME NEW who \in Sessions, Reset(who)
        PROVE  RulesInv'
    BY <2>3, ResetKeepsInv
  <2> QED
    BY <2>1, <2>2, <2>3 DEF RulesNext
<1> QED
  BY <1>1, <1>2, PTL DEF RulesSpec

\* Two alerts of the same session, detector and source have a moment between
\* them at which the fault was gone (should_alert_video_black).
THEOREM AlertsSeparated == RulesSpec => []AlertsAreSeparateEpisodes
<1>1. RulesInv => AlertsAreSeparateEpisodes
  BY DEF RulesInv, KeyInv, Separate, AlertsAreSeparateEpisodes
<1> QED
  BY <1>1, RulesInvariant, PTL

\* No fault is silent (evaluate_alerts, reset_session_rule_state).
THEOREM NoSilentFault == RulesSpec => []FaultsAreAlerted
<1>1. RulesInv => FaultsAreAlerted
  BY DEF RulesInv, KeyInv, Reported, FaultsAreAlerted
<1> QED
  BY <1>1, RulesInvariant, PTL

-----------------------------------------------------------------------------
(* AlertQueries.  What a client has paged is the beginning of what a read  *)
(* would return now, because a log that grows makes the filtered alerts    *)
(* grow at their end, and alerts in the order of time group from the       *)
(* front.                                                                  *)

\* What the log, the filtered alerts and the pages are made of.
LogRow == [topic : Topics \cup {Torn.topic}, at : Nat]
AlertType == [topic : Topics \cup {Torn.topic}, at : Nat, id : Nat]
Item == [topic : Topics \cup {Torn.topic}, id : Nat, from : Nat, to : Nat, count : Nat]

\* The places a read keeps, and whether it keeps a row.
Places(l, q) == {i \in Alerts(l) : Matches(l[i], q)}
Keeps(r, q) == r.topic # Torn.topic /\ Matches(r, q)

\* Items that begin as others do: nothing but the end of one may have moved.
Begins(old, new) ==
  /\ Len(old) <= Len(new)
  /\ \A i \in 1 .. Len(old) :
       /\ new[i].id = old[i].id /\ new[i].topic = old[i].topic
       /\ new[i].from = old[i].from /\ old[i].to <= new[i].to

\* Alerts in the order of time.
InOrderOfTime(f) == \A i, j \in 1 .. Len(f) : i < j => Before(f[i], f[j])

LEMMA AscendingIs ==
  ASSUME NEW S \in SUBSET Nat, IsFiniteSet(S)
  PROVE  IsAscending(Ascending(S), S)
<1>1. PICK s : IsAscending(s, S)
  BY AscendingExists
<1>2. \E x \in [1 .. Cardinality(S) -> S] :
        \A i, j \in DOMAIN x : i < j => x[i] < x[j]
  <2>1. s \in [1 .. Cardinality(S) -> S] /\ DOMAIN s = 1 .. Cardinality(S)
    BY <1>1 DEF IsAscending
  <2> QED
    BY <1>1, <2>1 DEF IsAscending
<1>3. /\ Ascending(S) \in [1 .. Cardinality(S) -> S]
      /\ \A i, j \in DOMAIN Ascending(S) : i < j => Ascending(S)[i] < Ascending(S)[j]
  BY <1>2 DEF Ascending
<1>4. DOMAIN Ascending(S) = 1 .. Cardinality(S)
  BY <1>3
<1> QED
  BY <1>3, <1>4 DEF IsAscending

LEMMA AscendingAppends ==
  ASSUME NEW S \in SUBSET Nat, IsFiniteSet(S), NEW m \in Nat, \A x \in S : x < m
  PROVE  Ascending(S \cup {m}) = Append(Ascending(S), m)
<1>1. IsFiniteSet(S \cup {m}) /\ S \cup {m} \in SUBSET Nat
  BY FS_AddElement
<1>2. IsAscending(Ascending(S), S) /\ IsAscending(Ascending(S \cup {m}), S \cup {m})
  BY <1>1, AscendingIs
<1>3. IsAscending(Append(Ascending(S), m), S \cup {m})
  BY <1>2, AscendingGrows
<1> QED
  BY <1>1, <1>2, <1>3, AscendingUnique

LEMMA AscendingSeq ==
  ASSUME NEW S \in SUBSET Nat, IsFiniteSet(S)
  PROVE  /\ Ascending(S) \in Seq(S)
         /\ Len(Ascending(S)) = Cardinality(S)
         /\ \A i \in 1 .. Len(Ascending(S)) : Ascending(S)[i] \in S
         /\ \A i, j \in 1 .. Len(Ascending(S)) : i < j => Ascending(S)[i] < Ascending(S)[j]
         /\ \A x \in S : \E i \in 1 .. Len(Ascending(S)) : Ascending(S)[i] = x
<1> DEFINE s == Ascending(S)
           n == Cardinality(S)
<1>1. IsAscending(s, S) /\ n \in Nat
  BY AscendingIs, FS_CardinalityType
<1>2. /\ s \in [1 .. n -> S]
      /\ \A i, j \in 1 .. n : i < j => s[i] < s[j]
  BY <1>1 DEF IsAscending
<1>3. \A x \in S : \E i \in 1 .. n : s[i] = x
  BY <1>1, AscendingOnto
<1> HIDE DEF s, n
<1>4. s \in Seq(S) /\ Len(s) = n
  BY <1>1, <1>2
<1> QED
  BY <1>2, <1>3, <1>4 DEF s, n

-----------------------------------------------------------------------------
LEMMA PlacesFacts ==
  ASSUME NEW l \in Seq(LogRow), NEW q
  PROVE  /\ Places(l, q) \in SUBSET (1 .. Len(l))
         /\ Places(l, q) \in SUBSET Nat
         /\ IsFiniteSet(Places(l, q))
<1>1. Len(l) \in Nat /\ DOMAIN l = 1 .. Len(l)
  OBVIOUS
<1>2. Places(l, q) \in SUBSET (1 .. Len(l)) /\ Places(l, q) \in SUBSET Nat
  BY <1>1 DEF Places, Alerts
<1>3. IsFiniteSet(1 .. Len(l))
  <2>1. 1 \in Int /\ Len(l) \in Int
    BY <1>1
  <2> QED
    BY <2>1, FS_Interval
<1>4. IsFiniteSet(Places(l, q))
  BY <1>2, <1>3, FS_Subset
<1> QED
  BY <1>2, <1>4

LEMMA PlacesGrow ==
  ASSUME NEW l \in Seq(LogRow), NEW r \in LogRow, NEW q
  PROVE  Places(Append(l, r), q) =
           IF Keeps(r, q) THEN Places(l, q) \cup {Len(l) + 1} ELSE Places(l, q)
<1> DEFINE m == Append(l, r)
<1>1. /\ Len(l) \in Nat /\ DOMAIN l = 1 .. Len(l) /\ DOMAIN m = 1 .. Len(l) + 1
      /\ m[Len(l) + 1] = r /\ \A i \in 1 .. Len(l) : m[i] = l[i]
  OBVIOUS
<1>2. 1 .. Len(l) + 1 = 1 .. Len(l) \cup {Len(l) + 1} /\ Len(l) + 1 \notin 1 .. Len(l)
  BY <1>1
<1>3. ASSUME NEW i
      PROVE  i \in Places(m, q) <=> i \in Places(l, q) \/ (i = Len(l) + 1 /\ Keeps(r, q))
  <2>1. CASE i \in 1 .. Len(l)
    BY <1>1, <1>2, <2>1 DEF Places, Alerts
  <2>2. CASE i = Len(l) + 1
    BY <1>1, <1>2, <2>2 DEF Places, Alerts, Keeps
  <2>3. CASE i \notin 1 .. Len(l) + 1
    BY <1>1, <1>2, <2>3 DEF Places, Alerts
  <2> QED
    BY <1>2, <2>1, <2>2, <2>3
<1> QED
  BY <1>3

LEMMA KeptGrows ==
  ASSUME NEW l \in Seq(LogRow), NEW r \in LogRow, NEW q
  PROVE  Kept(Append(l, r), q) =
           IF Keeps(r, q) THEN Append(Kept(l, q), Len(l) + 1) ELSE Kept(l, q)
<1>1. /\ Kept(l, q) = Ascending(Places(l, q))
      /\ Kept(Append(l, r), q) = Ascending(Places(Append(l, r), q))
  BY DEF Kept, Places
<1>2. CASE Keeps(r, q)
  <2>1. \A x \in Places(l, q) : x < Len(l) + 1
    <3>1. Len(l) \in Nat
      OBVIOUS
    <3>2. Places(l, q) \in SUBSET (1 .. Len(l))
      BY PlacesFacts
    <3> QED
      BY <3>1, <3>2
  <2>2. Ascending(Places(l, q) \cup {Len(l) + 1}) = Append(Ascending(Places(l, q)), Len(l) + 1)
    <3>1. Places(l, q) \in SUBSET Nat /\ IsFiniteSet(Places(l, q)) /\ Len(l) + 1 \in Nat
      BY PlacesFacts
    <3> QED
      BY <2>1, <3>1, AscendingAppends
  <2> QED
    BY <1>1, <1>2, <2>2, PlacesGrow
<1>3. CASE ~Keeps(r, q)
  BY <1>1, <1>3, PlacesGrow
<1> QED
  BY <1>2, <1>3

LEMMA KeptFacts ==
  ASSUME NEW l \in Seq(LogRow), NEW q
  PROVE  /\ Kept(l, q) \in Seq(1 .. Len(l))
         /\ Kept(l, q) \in Seq(Nat)
         /\ \A k \in 1 .. Len(Kept(l, q)) : /\ Kept(l, q)[k] \in 1 .. Len(l)
                                            /\ Kept(l, q)[k] \in Places(l, q)
         /\ \A i, j \in 1 .. Len(Kept(l, q)) : i < j => Kept(l, q)[i] < Kept(l, q)[j]
<1>1. Kept(l, q) = Ascending(Places(l, q))
  BY DEF Kept, Places
<1>2. /\ Kept(l, q) \in Seq(Places(l, q))
      /\ \A k \in 1 .. Len(Kept(l, q)) : Kept(l, q)[k] \in Places(l, q)
      /\ \A i, j \in 1 .. Len(Kept(l, q)) : i < j => Kept(l, q)[i] < Kept(l, q)[j]
  BY <1>1, PlacesFacts, AscendingSeq
<1> QED
  BY <1>2, PlacesFacts

LEMMA FilteredFacts ==
  ASSUME NEW l \in Seq(LogRow), NEW q
  PROVE  /\ Filtered(l, q) \in Seq(AlertType)
         /\ Len(Filtered(l, q)) = Len(Kept(l, q))
         /\ \A k \in 1 .. Len(Filtered(l, q)) :
              Filtered(l, q)[k] = Alert(l, Kept(l, q)[k])
<1> DEFINE kept == Kept(l, q)
           f == [k \in DOMAIN kept |-> Alert(l, kept[k])]
<1>1. Filtered(l, q) = f
  BY DEF Filtered
<1>2. kept \in Seq(Nat) /\ \A k \in 1 .. Len(kept) : kept[k] \in 1 .. Len(l)
  BY KeptFacts
<1>3. \A i \in 1 .. Len(l) : l[i] \in LogRow /\ i \in Nat
  OBVIOUS
<1>4. \A k \in 1 .. Len(kept) : Alert(l, kept[k]) \in AlertType
  BY <1>2, <1>3 DEF Alert, AlertType, LogRow
<1> HIDE DEF kept
<1>5. DOMAIN kept = 1 .. Len(kept) /\ Len(kept) \in Nat
  BY <1>2
<1>6. f \in Seq(AlertType) /\ Len(f) = Len(kept)
  BY <1>4, <1>5
<1> QED
  BY <1>1, <1>5, <1>6 DEF kept

LEMMA FilteredGrows ==
  ASSUME NEW l \in Seq(LogRow), NEW r \in LogRow, NEW q
  PROVE  Filtered(Append(l, r), q) =
           IF Keeps(r, q)
           THEN Append(Filtered(l, q), [topic |-> r.topic, at |-> r.at, id |-> Len(l) + 1])
           ELSE Filtered(l, q)
<1> DEFINE m == Append(l, r)
           a == [topic |-> r.topic, at |-> r.at, id |-> Len(l) + 1]
<1>1. m \in Seq(LogRow) /\ Len(m) = Len(l) + 1 /\ Len(l) \in Nat
  OBVIOUS
<1>2. \A i \in 1 .. Len(l) : Alert(m, i) = Alert(l, i)
  BY DEF Alert
<1>3. Alert(m, Len(l) + 1) = a
  BY DEF Alert
<1>4. a \in AlertType
  BY <1>1 DEF AlertType, LogRow
<1> DEFINE k == Kept(l, q)
           f == Filtered(l, q)
           g == Filtered(m, q)
<1>5. /\ f \in Seq(AlertType) /\ Len(f) = Len(k)
      /\ \A i \in 1 .. Len(f) : f[i] = Alert(l, k[i])
  BY FilteredFacts
<1>6. /\ g \in Seq(AlertType) /\ Len(g) = Len(Kept(m, q))
      /\ \A i \in 1 .. Len(g) : g[i] = Alert(m, Kept(m, q)[i])
  BY <1>1, FilteredFacts
<1>7. k \in Seq(Nat) /\ \A i \in 1 .. Len(k) : k[i] \in 1 .. Len(l)
  BY KeptFacts
<1> HIDE DEF k, f, g, m, a
<1>8. CASE Keeps(r, q)
  <2>1. Kept(m, q) = Append(k, Len(l) + 1)
    BY <1>8, KeptGrows DEF m, k
  <2>2. /\ Len(Kept(m, q)) = Len(k) + 1 /\ Kept(m, q)[Len(k) + 1] = Len(l) + 1
        /\ \A i \in 1 .. Len(k) : Kept(m, q)[i] = k[i]
    BY <1>1, <1>7, <2>1
  <2>3. Append(f, a) \in Seq(AlertType) /\ Len(Append(f, a)) = Len(g)
    BY <1>4, <1>5, <1>6, <2>2
  <2>4. ASSUME NEW i \in 1 .. Len(g)
        PROVE  g[i] = Append(f, a)[i]
    <3>1. CASE i = Len(k) + 1
      BY <1>3, <1>5, <1>6, <2>2, <3>1
    <3>2. CASE i \in 1 .. Len(k)
      <4>1. g[i] = Alert(m, k[i]) /\ k[i] \in 1 .. Len(l)
        BY <1>6, <1>7, <2>2, <3>2
      <4>2. g[i] = Alert(l, k[i])
        BY <1>2, <4>1
      <4> QED
        BY <1>4, <1>5, <3>2, <4>2
    <3>3. i = Len(k) + 1 \/ i \in 1 .. Len(k)
      BY <1>6, <1>7, <2>2
    <3> QED
      BY <3>1, <3>2, <3>3
  <2>5. g = Append(f, a)
    BY <1>6, <2>3, <2>4, SeqEqual
  <2> QED
    BY <1>8, <2>5 DEF f, g, m, a
<1>9. CASE ~Keeps(r, q)
  <2>1. Kept(m, q) = k
    BY <1>9, KeptGrows DEF m, k
  <2>2. \A i \in 1 .. Len(g) : g[i] = f[i]
    BY <1>2, <1>5, <1>6, <1>7, <2>1
  <2>3. g = f
    BY <1>5, <1>6, <2>1, <2>2, SeqEqual
  <2> QED
    BY <1>9, <2>3 DEF f, g, m
<1> QED
  BY <1>8, <1>9

-----------------------------------------------------------------------------
LEMMA BeforeIsStrict ==
  ASSUME NEW x \in AlertType, NEW y \in AlertType, Before(x, y)
  PROVE  ~Before(y, x) /\ x # y
BY DEF Before, AlertType

\* Alerts that are in the order of time already stay as they are.
LEMMA OrderedStays ==
  ASSUME NEW f \in Seq(AlertType), InOrderOfTime(f)
  PROVE  InTimeOrder(f) = f
<1> DEFINE n == Len(f)
           t == InTimeOrder(f)
<1>1. n \in Nat /\ DOMAIN f = 1 .. n /\ f \in [1 .. n -> AlertType]
  OBVIOUS
<1>2. f \in [1 .. n -> ToSet(f)] /\ \A x \in ToSet(f) : \E i \in 1 .. n : f[i] = x
  BY <1>1 DEF ToSet
<1>3. \E x \in [DOMAIN f -> ToSet(f)] :
        \A i, j \in DOMAIN x : i < j => Before(x[i], x[j])
  BY <1>1, <1>2 DEF InOrderOfTime
<1>4. /\ t \in [DOMAIN f -> ToSet(f)]
      /\ \A i, j \in DOMAIN t : i < j => Before(t[i], t[j])
  BY <1>3 DEF InTimeOrder
<1> HIDE DEF t
<1>5. /\ t \in [1 .. n -> ToSet(f)]
      /\ \A i, j \in 1 .. n : i < j => Before(t[i], t[j])
  BY <1>1, <1>4
<1> DEFINE p == [i \in 1 .. n |-> CHOOSE k \in 1 .. n : f[k] = t[i]]
           id == [i \in 1 .. n |-> i]
<1>6. ASSUME NEW i \in 1 .. n
      PROVE  p[i] \in 1 .. n /\ f[p[i]] = t[i]
  <2>1. \E k \in 1 .. n : f[k] = t[i]
    BY <1>2, <1>5
  <2> QED
    BY <2>1
<1> HIDE DEF p
<1>7. ASSUME NEW i \in 1 .. n, NEW j \in 1 .. n, i < j
      PROVE  p[i] < p[j]
  <2>1. Before(f[p[i]], f[p[j]])
    BY <1>5, <1>6, <1>7
  <2>2. p[i] \in 1 .. n /\ p[j] \in 1 .. n
    BY <1>6
  <2>3. f[p[i]] \in AlertType /\ f[p[j]] \in AlertType
    BY <1>1, <2>2
  <2>4. p[j] < p[i] => Before(f[p[j]], f[p[i]])
    BY <2>2 DEF InOrderOfTime
  <2>5. ~(p[j] < p[i])
    BY <2>1, <2>3, <2>4, BeforeIsStrict
  <2>6. p[i] # p[j]
    BY <2>1, <2>3, BeforeIsStrict
  <2> QED
    BY <1>1, <2>2, <2>5, <2>6
<1>8. IsFiniteSet(1 .. n) /\ Cardinality(1 .. n) = n /\ 1 .. n \in SUBSET Nat
  BY <1>1, FS_Interval
<1>9. p \in [1 .. n -> 1 .. n]
  BY <1>6 DEF p
<1>10. IsAscending(p, 1 .. n) /\ IsAscending(id, 1 .. n)
  BY <1>1, <1>7, <1>8, <1>9 DEF IsAscending
<1>11. p = id
  BY <1>8, <1>10, AscendingUnique
<1>12. \A i \in 1 .. n : t[i] = f[i]
  BY <1>6, <1>11
<1> QED
  BY <1>1, <1>2, <1>5, <1>12 DEF t

\* Logged in the order of time.
InLogOrder(l) == \A i, j \in Alerts(l) : i < j => l[i].at <= l[j].at

LEMMA FilteredInOrder ==
  ASSUME NEW l \in Seq(LogRow), NEW q, InLogOrder(l)
  PROVE  InOrderOfTime(Filtered(l, q))
<1> DEFINE f == Filtered(l, q)
           k == Kept(l, q)
<1>1. /\ Len(f) = Len(k)
      /\ \A i \in 1 .. Len(f) : f[i] = Alert(l, k[i])
  BY FilteredFacts
<1>2. /\ \A i \in 1 .. Len(k) : k[i] \in 1 .. Len(l) /\ k[i] \in Places(l, q)
      /\ \A i, j \in 1 .. Len(k) : i < j => k[i] < k[j]
  BY KeptFacts
<1> HIDE DEF f, k
<1> SUFFICES ASSUME NEW i \in 1 .. Len(f), NEW j \in 1 .. Len(f), i < j
             PROVE  Before(f[i], f[j])
  BY DEF InOrderOfTime, f
<1>3. k[i] \in Alerts(l) /\ k[j] \in Alerts(l) /\ k[i] < k[j]
  BY <1>1, <1>2 DEF Places
<1>4. l[k[i]].at <= l[k[j]].at
  BY <1>3 DEF InLogOrder
<1>5. l[k[i]].at \in Nat /\ l[k[j]].at \in Nat
  <2>1. k[i] \in 1 .. Len(l) /\ k[j] \in 1 .. Len(l)
    BY <1>1, <1>2
  <2>2. l[k[i]] \in LogRow /\ l[k[j]] \in LogRow
    BY <2>1
  <2> QED
    BY <2>2 DEF LogRow
<1>6. /\ f[i].at = l[k[i]].at /\ f[i].id = k[i]
      /\ f[j].at = l[k[j]].at /\ f[j].id = k[j]
  <2>1. f[i] = Alert(l, k[i]) /\ f[j] = Alert(l, k[j])
    BY <1>1
  <2> QED
    BY <2>1 DEF Alert
<1> QED
  BY <1>3, <1>4, <1>5, <1>6 DEF Before

-----------------------------------------------------------------------------
\* Where groups start, and whether an alert starts one.
Starts(f) == {i \in DOMAIN f : i = 1 \/ ~SameIncident(f[i - 1], f[i])}
StartsGroup(f, a) == f = <<>> \/ ~SameIncident(f[Len(f)], a)

LEMMA StartsFacts ==
  ASSUME NEW f \in Seq(AlertType)
  PROVE  /\ Starts(f) \in SUBSET (1 .. Len(f))
         /\ Starts(f) \in SUBSET Nat
         /\ IsFiniteSet(Starts(f))
<1>1. Len(f) \in Nat /\ DOMAIN f = 1 .. Len(f)
  OBVIOUS
<1>2. Starts(f) \in SUBSET (1 .. Len(f)) /\ Starts(f) \in SUBSET Nat
  BY <1>1 DEF Starts
<1>3. IsFiniteSet(1 .. Len(f))
  <2>1. 1 \in Int /\ Len(f) \in Int
    BY <1>1
  <2> QED
    BY <2>1, FS_Interval
<1> QED
  BY <1>2, <1>3, FS_Subset

LEMMA GroupStartsFacts ==
  ASSUME NEW f \in Seq(AlertType)
  PROVE  LET s == GroupStarts(f) IN
         /\ s \in Seq(1 .. Len(f)) /\ s \in Seq(Nat)
         /\ \A g \in 1 .. Len(s) : s[g] \in 1 .. Len(f)
         /\ \A g, h \in 1 .. Len(s) : g < h => s[g] < s[h]
         /\ f # <<>> => Len(s) >= 1
<1> DEFINE s == GroupStarts(f)
<1>1. s = Ascending(Starts(f))
  BY DEF GroupStarts, Starts
<1>2. /\ Starts(f) \in SUBSET (1 .. Len(f))
      /\ Starts(f) \in SUBSET Nat
      /\ IsFiniteSet(Starts(f))
  BY StartsFacts
<1>3. /\ s \in Seq(Starts(f))
      /\ \A g \in 1 .. Len(s) : s[g] \in Starts(f)
      /\ \A g, h \in 1 .. Len(s) : g < h => s[g] < s[h]
      /\ \A x \in Starts(f) : \E g \in 1 .. Len(s) : s[g] = x
  BY <1>1, <1>2, AscendingSeq
<1>4. f # <<>> => 1 \in Starts(f)
  BY DEF Starts
<1> HIDE DEF s
<1>5. Len(s) \in Nat
  BY <1>3
<1>6. f # <<>> => Len(s) >= 1
  BY <1>3, <1>4, <1>5
<1>7. s \in Seq(1 .. Len(f)) /\ s \in Seq(Nat)
  BY <1>2, <1>3
<1> QED
  BY <1>2, <1>3, <1>6, <1>7 DEF s

LEMMA GroupStartsGrow ==
  ASSUME NEW f \in Seq(AlertType), NEW a \in AlertType
  PROVE  GroupStarts(Append(f, a)) =
           IF StartsGroup(f, a) THEN Append(GroupStarts(f), Len(f) + 1) ELSE GroupStarts(f)
<1> DEFINE m == Append(f, a)
           n == Len(f)
<1>1. /\ n \in Nat /\ DOMAIN f = 1 .. n /\ DOMAIN m = 1 .. n + 1
      /\ m[n + 1] = a /\ \A i \in 1 .. n : m[i] = f[i]
      /\ f = <<>> <=> n = 0
  OBVIOUS
<1>2. 1 .. n + 1 = 1 .. n \cup {n + 1} /\ n + 1 \notin 1 .. n
  BY <1>1
<1> HIDE DEF m, n
<1>3. ASSUME NEW i
      PROVE  i \in Starts(m) <=> i \in Starts(f) \/ (i = n + 1 /\ StartsGroup(f, a))
  <2>1. CASE i \in 1 .. n
    <3>1. i = 1 \/ i - 1 \in 1 .. n
      BY <1>1, <2>1
    <3>2. i # 1 => m[i - 1] = f[i - 1]
      BY <1>1, <3>1
    <3> QED
      BY <1>1, <1>2, <2>1, <3>2 DEF Starts
  <2>2. CASE i = n + 1
    <3>1. i = 1 <=> f = <<>>
      BY <1>1, <2>2
    <3>2. i # 1 => m[i - 1] = f[Len(f)]
      BY <1>1, <2>2 DEF n
    <3> QED
      BY <1>1, <1>2, <2>2, <3>1, <3>2 DEF Starts, StartsGroup
  <2>3. CASE i \notin 1 .. n + 1
    BY <1>1, <1>2, <2>3 DEF Starts
  <2> QED
    BY <1>2, <2>1, <2>2, <2>3
<1>4. /\ GroupStarts(f) = Ascending(Starts(f))
      /\ GroupStarts(m) = Ascending(Starts(m))
  BY DEF GroupStarts, Starts
<1>5. /\ Starts(f) \in SUBSET (1 .. n)
      /\ Starts(f) \in SUBSET Nat
      /\ IsFiniteSet(Starts(f))
  BY StartsFacts DEF n
<1>6. CASE StartsGroup(f, a)
  <2>1. Starts(m) = Starts(f) \cup {n + 1}
    BY <1>3, <1>6
  <2>2. \A x \in Starts(f) : x < n + 1
    BY <1>1, <1>5
  <2>3. n + 1 \in Nat
    BY <1>1
  <2>4. Ascending(Starts(f) \cup {n + 1}) = Append(Ascending(Starts(f)), n + 1)
    BY <1>5, <2>2, <2>3, AscendingAppends
  <2> QED
    BY <1>4, <1>6, <2>1, <2>4 DEF m, n
<1>7. CASE ~StartsGroup(f, a)
  <2>1. Starts(m) = Starts(f)
    BY <1>3, <1>7
  <2> QED
    BY <1>4, <1>7, <2>1 DEF m, n
<1> QED
  BY <1>6, <1>7

-----------------------------------------------------------------------------
\* The groups of alerts in the order of time, told by where they start.
End(f, s, g) == IF g = Len(s) THEN Len(f) ELSE s[g + 1] - 1
Grouped(f, s, g) ==
  [topic |-> f[s[g]].topic, id |-> f[s[g]].id, from |-> f[s[g]].at,
   to |-> f[End(f, s, g)].at, count |-> End(f, s, g) - s[g] + 1]

LEMMA EndFacts ==
  ASSUME NEW f \in Seq(AlertType), NEW g \in 1 .. Len(GroupStarts(f))
  PROVE  LET s == GroupStarts(f) IN
         /\ End(f, s, g) \in 1 .. Len(f) /\ s[g] \in 1 .. Len(f)
         /\ s[g] <= End(f, s, g)
<1> DEFINE s == GroupStarts(f)
<1>1. /\ Len(s) \in Nat /\ Len(f) \in Nat
      /\ \A h \in 1 .. Len(s) : s[h] \in 1 .. Len(f)
      /\ \A h, i \in 1 .. Len(s) : h < i => s[h] < s[i]
  BY GroupStartsFacts
<1> HIDE DEF s
<1>2. g \in 1 .. Len(s)
  BY DEF s
<1>3. CASE g = Len(s)
  BY <1>1, <1>2, <1>3 DEF End, s
<1>4. CASE g # Len(s)
  <2>1. g + 1 \in 1 .. Len(s) /\ g < g + 1
    BY <1>1, <1>2, <1>4
  <2>2. s[g] < s[g + 1] /\ s[g] \in 1 .. Len(f) /\ s[g + 1] \in 1 .. Len(f)
    BY <1>1, <1>2, <2>1
  <2> QED
    BY <1>1, <1>4, <2>2 DEF End, s
<1> QED
  BY <1>3, <1>4

LEMMA GroupsAre ==
  ASSUME NEW f \in Seq(AlertType), InOrderOfTime(f)
  PROVE  [g \in DOMAIN GroupIncidents(f) |-> Entry(GroupIncidents(f)[g])]
           = [g \in 1 .. Len(GroupStarts(f)) |-> Grouped(f, GroupStarts(f), g)]
<1> DEFINE s == GroupStarts(f)
           G == GroupIncidents(f)
<1>1. G = [g \in DOMAIN s |-> SubSeq(f, s[g], End(f, s, g))]
  BY OrderedStays DEF GroupIncidents, End
<1>2. s \in Seq(Nat) /\ DOMAIN s = 1 .. Len(s)
  BY GroupStartsFacts
<1>3. ASSUME NEW g \in 1 .. Len(s)
      PROVE  Entry(G[g]) = Grouped(f, s, g)
  <2>1. /\ End(f, s, g) \in 1 .. Len(f) /\ s[g] \in 1 .. Len(f)
        /\ s[g] <= End(f, s, g)
    BY EndFacts
  <2>2. G[g] = SubSeq(f, s[g], End(f, s, g))
    BY <1>1, <1>2
  <2> DEFINE a == s[g]
             b == End(f, s, g)
  <2>3. a \in Nat /\ b \in Nat /\ a >= 1 /\ a <= b /\ b <= Len(f)
    BY <2>1
  <2> HIDE DEF a, b, s, G
  <2>4. /\ Len(SubSeq(f, a, b)) = b - a + 1
        /\ SubSeq(f, a, b)[1] = f[a]
        /\ SubSeq(f, a, b)[b - a + 1] = f[b]
    BY <2>3
  <2> QED
    BY <2>2, <2>4 DEF Entry, Last, Grouped, a, b
<1> HIDE DEF s, G
<1>4. DOMAIN G = 1 .. Len(s)
  BY <1>1, <1>2
<1> QED
  BY <1>3, <1>4 DEF s, G

LEMMA TimelineIs ==
  ASSUME NEW l \in Seq(LogRow), NEW q, InLogOrder(l)
  PROVE  LET f == Filtered(l, q) IN
         Timeline(l, q) = [g \in 1 .. Len(GroupStarts(f)) |-> Grouped(f, GroupStarts(f), g)]
<1>1. Filtered(l, q) \in Seq(AlertType) /\ InOrderOfTime(Filtered(l, q))
  BY FilteredFacts, FilteredInOrder
<1> QED
  BY <1>1, GroupsAre DEF Timeline

\* An alert that is appended starts a group of its own or ends the last one.
LEMMA GroupedGrows ==
  ASSUME NEW f \in Seq(AlertType), NEW a \in AlertType,
         InOrderOfTime(Append(f, a)), NEW g \in 1 .. Len(GroupStarts(f))
  PROVE  LET m == Append(f, a)
             s == GroupStarts(f)
             z == GroupStarts(m)
         IN  /\ g \in 1 .. Len(z)
             /\ Grouped(m, z, g).topic = Grouped(f, s, g).topic
             /\ Grouped(m, z, g).id = Grouped(f, s, g).id
             /\ Grouped(m, z, g).from = Grouped(f, s, g).from
             /\ Grouped(f, s, g).to <= Grouped(m, z, g).to
<1> DEFINE m == Append(f, a)
           s == GroupStarts(f)
           z == GroupStarts(m)
           n == Len(f)
<1>1. /\ n \in Nat /\ Len(m) = n + 1 /\ m \in Seq(AlertType)
      /\ m[n + 1] = a /\ \A i \in 1 .. n : m[i] = f[i]
  OBVIOUS
<1>2. /\ s \in Seq(Nat) /\ Len(s) \in Nat
      /\ \A h \in 1 .. Len(s) : s[h] \in 1 .. n
  BY GroupStartsFacts
<1>3. z = IF StartsGroup(f, a) THEN Append(s, n + 1) ELSE s
  BY GroupStartsGrow
<1>4. End(f, s, g) \in 1 .. n /\ s[g] \in 1 .. n
  BY EndFacts
<1>5. InOrderOfTime(m)
  OBVIOUS
<1>6. g \in 1 .. Len(s)
  OBVIOUS
<1> HIDE DEF m, s, z, n
<1>7. /\ g \in 1 .. Len(z) /\ z[g] = s[g]
  BY <1>1, <1>2, <1>3, <1>6
<1>8. \/ End(m, z, g) = End(f, s, g)
      \/ End(m, z, g) = n + 1
  <2>1. CASE StartsGroup(f, a)
    <3>1. Len(z) = Len(s) + 1 /\ z[Len(s) + 1] = n + 1 /\ \A h \in 1 .. Len(s) : z[h] = s[h]
      BY <1>1, <1>2, <1>3, <2>1
    <3>2. CASE g = Len(s)
      BY <1>1, <1>2, <3>1, <3>2 DEF End, n
    <3>3. CASE g # Len(s)
      <4>1. g + 1 \in 1 .. Len(s)
        BY <1>2, <1>6, <3>3
      <4> QED
        BY <1>2, <1>6, <3>1, <3>3, <4>1 DEF End
    <3> QED
      BY <3>2, <3>3
  <2>2. CASE ~StartsGroup(f, a)
    BY <1>1, <1>3, <2>2 DEF End
  <2> QED
    BY <2>1, <2>2
<1>9. f[End(f, s, g)].at <= m[End(m, z, g)].at
  <2>1. f[End(f, s, g)] = m[End(f, s, g)]
    BY <1>1, <1>4
  <2>2. m[End(f, s, g)] \in AlertType /\ m[n + 1] \in AlertType
    BY <1>1, <1>4
  <2>3. Before(m[End(f, s, g)], m[n + 1])
    BY <1>1, <1>4, <1>5 DEF InOrderOfTime
  <2> QED
    BY <1>8, <2>1, <2>2, <2>3 DEF Before, AlertType
<1>10. m[z[g]] = f[s[g]]
  BY <1>1, <1>4, <1>7
<1> QED
  BY <1>7, <1>9, <1>10 DEF Grouped, m, s, z

-----------------------------------------------------------------------------
(* The items of a query: what they are made of, and that a log that grows  *)
(* makes them grow at their end.                                           *)

LEMMA OrderBefore ==
  ASSUME NEW l \in Seq(LogRow), NEW r \in LogRow, InLogOrder(Append(l, r))
  PROVE  InLogOrder(l)
<1> DEFINE m == Append(l, r)
<1>1. DOMAIN m = 1 .. Len(l) + 1 /\ \A i \in 1 .. Len(l) : m[i] = l[i]
  OBVIOUS
<1>2. \A i \in Alerts(l) : i \in Alerts(m) /\ m[i] = l[i]
  <2> SUFFICES ASSUME NEW i \in Alerts(l)
               PROVE  i \in Alerts(m) /\ m[i] = l[i]
    OBVIOUS
  <2>1. i \in 1 .. Len(l) /\ i \in 1 .. Len(l) + 1 /\ l[i].topic # Torn.topic
    BY DEF Alerts
  <2> HIDE DEF m
  <2> QED
    BY <1>1, <2>1 DEF Alerts
<1> HIDE DEF m
<1>3. InLogOrder(m)
  BY DEF m
<1> QED
  BY <1>2, <1>3 DEF InLogOrder

LEMMA AlertItems ==
  ASSUME NEW l \in Seq(LogRow), NEW q, q.route # "timeline"
  PROVE  LET f == Filtered(l, q) IN
         /\ Items(l, q) = [i \in 1 .. Len(f) |->
              [topic |-> f[i].topic, id |-> f[i].id, from |-> f[i].at,
               to |-> f[i].at, count |-> 1]]
<1> DEFINE f == Filtered(l, q)
<1>1. f \in Seq(AlertType) /\ DOMAIN f = 1 .. Len(f)
  BY FilteredFacts
<1>2. Items(l, q) = [i \in DOMAIN f |-> Entry(<<f[i]>>)]
  BY DEF Items
<1> HIDE DEF f
<1>3. ASSUME NEW a
      PROVE  Entry(<<a>>) = [topic |-> a.topic, id |-> a.id, from |-> a.at,
                             to |-> a.at, count |-> 1]
  <2>1. <<a>>[1] = a /\ Len(<<a>>) = 1
    OBVIOUS
  <2> QED
    BY <2>1 DEF Entry, Last
<1> QED
  BY <1>1, <1>2, <1>3 DEF f

LEMMA ItemsFacts ==
  ASSUME NEW l \in Seq(LogRow), NEW q, q.route = "timeline" => InLogOrder(l)
  PROVE  LET f == Filtered(l, q)
             items == Items(l, q)
         IN  /\ items \in Seq(Item)
             /\ \A i \in 1 .. Len(items) : \E a, b \in 1 .. Len(f) :
                  items[i].from = f[a].at /\ items[i].to = f[b].at
<1> DEFINE f == Filtered(l, q)
           items == Items(l, q)
           s == GroupStarts(f)
<1>1. f \in Seq(AlertType) /\ Len(f) \in Nat
  BY FilteredFacts
<1>2. CASE q.route # "timeline"
  <2>1. items = [i \in 1 .. Len(f) |->
              [topic |-> f[i].topic, id |-> f[i].id, from |-> f[i].at,
               to |-> f[i].at, count |-> 1]]
    BY <1>2, AlertItems
  <2> HIDE DEF f, items
  <2>2. \A i \in 1 .. Len(f) : f[i] \in AlertType
    BY <1>1
  <2>3. \A i \in 1 .. Len(f) : items[i] \in Item /\ items[i].from = f[i].at /\ items[i].to = f[i].at
    BY <2>1, <2>2 DEF Item, AlertType
  <2>4. items \in Seq(Item) /\ Len(items) = Len(f)
    BY <1>1, <2>1, <2>3
  <2> QED
    BY <2>3, <2>4 DEF f, items
<1>3. CASE q.route = "timeline"
  <2>1. items = [g \in 1 .. Len(s) |-> Grouped(f, s, g)]
    BY <1>3, TimelineIs DEF Items
  <2>2. \A g \in 1 .. Len(s) : /\ End(f, s, g) \in 1 .. Len(f) /\ s[g] \in 1 .. Len(f)
                               /\ s[g] <= End(f, s, g)
    BY <1>1, EndFacts
  <2>3. Len(s) \in Nat
    BY <1>1, GroupStartsFacts
  <2> HIDE DEF f, items, s
  <2>4. ASSUME NEW g \in 1 .. Len(s)
        PROVE  /\ items[g] \in Item
               /\ items[g].from = f[s[g]].at /\ items[g].to = f[End(f, s, g)].at
    <3>1. /\ End(f, s, g) \in 1 .. Len(f) /\ s[g] \in 1 .. Len(f)
          /\ s[g] <= End(f, s, g)
      BY <2>2
    <3>2. f[s[g]] \in AlertType /\ f[End(f, s, g)] \in AlertType
      BY <1>1, <3>1
    <3>3. End(f, s, g) - s[g] + 1 \in Nat
      BY <1>1, <3>1
    <3>4. items[g] = Grouped(f, s, g)
      BY <2>1
    <3> QED
      BY <3>2, <3>3, <3>4 DEF Grouped, Item, AlertType
  <2>5. items \in Seq(Item) /\ Len(items) = Len(s)
    BY <2>1, <2>3, <2>4
  <2> QED
    BY <2>2, <2>4, <2>5 DEF f, items
<1> QED
  BY <1>2, <1>3

LEMMA ItemsGrow ==
  ASSUME NEW l \in Seq(LogRow), NEW r \in LogRow, NEW q,
         q.route = "timeline" => InLogOrder(Append(l, r))
  PROVE  Begins(Items(l, q), Items(Append(l, r), q))
<1> DEFINE m == Append(l, r)
           f == Filtered(l, q)
           h == Filtered(m, q)
           a == [topic |-> r.topic, at |-> r.at, id |-> Len(l) + 1]
<1>1. m \in Seq(LogRow)
  OBVIOUS
<1>2. f \in Seq(AlertType) /\ Len(f) \in Nat /\ h \in Seq(AlertType)
  <2>1. f \in Seq(AlertType)
    BY FilteredFacts
  <2>2. h \in Seq(AlertType)
    BY <1>1, FilteredFacts
  <2> HIDE DEF f, h
  <2> QED
    BY <2>1, <2>2
<1>3. a \in AlertType
  BY DEF AlertType, LogRow
<1>4. h = IF Keeps(r, q) THEN Append(f, a) ELSE f
  BY FilteredGrows
<1>5. CASE q.route # "timeline"
  <2>1. Items(l, q) = [i \in 1 .. Len(f) |->
              [topic |-> f[i].topic, id |-> f[i].id, from |-> f[i].at,
               to |-> f[i].at, count |-> 1]]
    BY <1>5, AlertItems
  <2>2. Items(m, q) = [i \in 1 .. Len(h) |->
              [topic |-> h[i].topic, id |-> h[i].id, from |-> h[i].at,
               to |-> h[i].at, count |-> 1]]
    BY <1>1, <1>5, AlertItems
  <2> HIDE DEF f, h, a, m
  <2>3. /\ Len(h) \in Nat /\ Len(f) <= Len(h)
        /\ \A i \in 1 .. Len(f) : h[i] = f[i] /\ i \in 1 .. Len(h)
    BY <1>2, <1>3, <1>4
  <2>4. \A i \in 1 .. Len(f) : f[i] \in AlertType
    BY <1>2
  <2>5. Len(Items(l, q)) = Len(f) /\ Len(Items(m, q)) = Len(h)
    BY <1>2, <2>1, <2>2, <2>3
  <2>6. ASSUME NEW i \in 1 .. Len(f)
        PROVE  /\ Items(m, q)[i] = Items(l, q)[i] /\ Items(l, q)[i].to \in Nat
    BY <2>1, <2>2, <2>3, <2>4 DEF AlertType
  <2>7. Begins(Items(l, q), Items(m, q))
    BY <2>3, <2>5, <2>6 DEF Begins
  <2> QED
    BY <2>7 DEF m
<1>6. CASE q.route = "timeline"
  <2>1. InLogOrder(m) /\ InLogOrder(l)
    BY <1>6, OrderBefore
  <2> DEFINE s == GroupStarts(f)
             z == GroupStarts(h)
  <2>2. Items(l, q) = [g \in 1 .. Len(s) |-> Grouped(f, s, g)]
    BY <1>6, <2>1, TimelineIs DEF Items
  <2>3. Items(m, q) = [g \in 1 .. Len(z) |-> Grouped(h, z, g)]
    BY <1>1, <1>6, <2>1, TimelineIs DEF Items
  <2>4. Len(s) \in Nat /\ Len(z) \in Nat
    BY <1>2, GroupStartsFacts
  <2>5. InOrderOfTime(h)
    BY <1>1, <2>1, FilteredInOrder
  <2>6. /\ Items(l, q) \in Seq(Item)
        /\ Items(m, q) \in Seq(Item)
    BY <1>1, <2>1, ItemsFacts
  <2>7. ASSUME NEW g \in 1 .. Len(s)
        PROVE  /\ g \in 1 .. Len(z)
               /\ Grouped(h, z, g).topic = Grouped(f, s, g).topic
               /\ Grouped(h, z, g).id = Grouped(f, s, g).id
               /\ Grouped(h, z, g).from = Grouped(f, s, g).from
               /\ Grouped(f, s, g).to <= Grouped(h, z, g).to
    <3>1. CASE Keeps(r, q)
      <4>1. h = Append(f, a)
        BY <1>4, <3>1
      <4>2. InOrderOfTime(Append(f, a))
        BY <2>5, <4>1
      <4> HIDE DEF f, a, h
      <4> QED
        BY <1>2, <1>3, <4>1, <4>2, GroupedGrows
    <3>2. CASE ~Keeps(r, q)
      <4>1. h = f
        BY <1>4, <3>2
      <4> HIDE DEF f, h, a
      <4>2. z = s
        BY <4>1
      <4>3. Items(l, q)[g] = Grouped(f, s, g) /\ g \in 1 .. Len(Items(l, q))
        <5> HIDE DEF s
        <5> QED
          BY <2>2, <2>4
      <4>4. Grouped(f, s, g).to \in Nat
        <5>1. Items(l, q)[g] \in Item
          BY <2>6, <4>3
        <5> QED
          BY <4>3, <5>1 DEF Item
      <4> QED
        BY <4>1, <4>2, <4>4
    <3> QED
      BY <3>1, <3>2
  <2> HIDE DEF f, h, s, z, m, a
  <2>8. Len(Items(l, q)) = Len(s) /\ Len(Items(m, q)) = Len(z)
    BY <2>2, <2>3, <2>4
  <2>9. Len(s) <= Len(z)
    BY <2>4, <2>7
  <2>10. ASSUME NEW i \in 1 .. Len(s)
         PROVE  /\ Items(l, q)[i] = Grouped(f, s, i)
                /\ Items(m, q)[i] = Grouped(h, z, i)
    BY <2>2, <2>3, <2>7
  <2>11. Begins(Items(l, q), Items(m, q))
    BY <2>7, <2>8, <2>9, <2>10 DEF Begins
  <2> QED
    BY <2>11 DEF m
<1> QED
  BY <1>5, <1>6

-----------------------------------------------------------------------------
(* The invariant.                                                          *)

\* How many items are about a topic.
CountAbout(items, t) == Cardinality({i \in DOMAIN items : items[i].topic = t})

LogInv ==
  /\ log \in Seq(LogRow) /\ wallClock \in Nat
  /\ query \in QueryType \cup {NoQuery}
  /\ ~setBack => /\ InLogOrder(log)
                 /\ \A i \in Alerts(log) : log[i].at <= wallClock

\* A timeline is stable while the clock is not set back.
Stable == query.route = "timeline" => ~setBack

IdleInv == query = NoQuery => got = <<>> /\ summary = NoSummary

PagedInv == got \in Seq(Item) /\ Begins(got, Items(log, query))

\* The last summary counts no fewer than were paged before it and no more than
\* there are, and its times enclose those of what was paged before it.
SummaryInv ==
  /\ summary.paged \in 0 .. Len(got)
  /\ \A t \in Topics :
       /\ summary.counts[t] \in Nat
       /\ CountAbout(SubSeq(got, 1, summary.paged), t) <= summary.counts[t]
       /\ summary.counts[t] <= CountAbout(Items(log, query), t)
  /\ \A i \in 1 .. summary.paged :
       summary.first <= got[i].from /\ got[i].to <= summary.last

QueriesInv ==
  /\ LogInv /\ IdleInv
  /\ query # NoQuery /\ Stable => PagedInv /\ SummaryInv

LEMMA CountFacts ==
  ASSUME NEW items \in Seq(Item), NEW t
  PROVE  CountAbout(items, t) \in Nat
<1>1. Len(items) \in Nat /\ DOMAIN items = 1 .. Len(items)
  OBVIOUS
<1>2. IsFiniteSet(1 .. Len(items))
  <2>1. 1 \in Int /\ Len(items) \in Int
    BY <1>1
  <2> QED
    BY <2>1, FS_Interval
<1>3. {i \in DOMAIN items : items[i].topic = t} \in SUBSET (1 .. Len(items))
  BY <1>1
<1>4. IsFiniteSet({i \in DOMAIN items : items[i].topic = t})
  BY <1>2, <1>3, FS_Subset
<1> QED
  BY <1>4, FS_CardinalityType DEF CountAbout

LEMMA CountGrows ==
  ASSUME NEW old \in Seq(Item), NEW new \in Seq(Item), NEW t, Begins(old, new)
  PROVE  CountAbout(old, t) <= CountAbout(new, t)
<1> DEFINE P == {i \in DOMAIN old : old[i].topic = t}
           Q == {i \in DOMAIN new : new[i].topic = t}
<1>1. /\ Len(new) \in Nat /\ DOMAIN new = 1 .. Len(new)
      /\ Len(old) \in Nat /\ DOMAIN old = 1 .. Len(old)
  OBVIOUS
<1>2. IsFiniteSet(1 .. Len(new))
  <2>1. 1 \in Int /\ Len(new) \in Int
    BY <1>1
  <2> QED
    BY <2>1, FS_Interval
<1>3. Q \in SUBSET (1 .. Len(new)) /\ P \in SUBSET Q
  BY <1>1 DEF Begins
<1>4. IsFiniteSet(Q)
  BY <1>2, <1>3, FS_Subset
<1>5. Cardinality(P) <= Cardinality(Q)
  BY <1>3, <1>4, FS_Subset
<1> QED
  BY <1>5 DEF CountAbout

LEMMA BeginsTransitive ==
  ASSUME NEW a \in Seq(Item), NEW b \in Seq(Item), NEW c \in Seq(Item),
         Begins(a, b), Begins(b, c)
  PROVE  Begins(a, c)
<1>1. Len(a) \in Nat /\ Len(b) \in Nat /\ Len(c) \in Nat
  OBVIOUS
<1>2. Len(a) <= Len(b) /\ Len(b) <= Len(c)
  BY DEF Begins
<1> SUFFICES ASSUME NEW i \in 1 .. Len(a)
             PROVE  /\ c[i].id = a[i].id /\ c[i].topic = a[i].topic
                    /\ c[i].from = a[i].from /\ a[i].to <= c[i].to
  BY <1>1, <1>2 DEF Begins
<1>3. i \in 1 .. Len(b) /\ i \in 1 .. Len(c)
  BY <1>1, <1>2
<1>4. a[i] \in Item /\ b[i] \in Item /\ c[i] \in Item
  BY <1>3
<1>5. a[i].to \in Nat /\ b[i].to \in Nat /\ c[i].to \in Nat
  BY <1>4 DEF Item
<1> QED
  BY <1>3, <1>5 DEF Begins

\* A set of times has a first and a last.
LEMMA FirstAndLast ==
  ASSUME NEW T \in SUBSET Nat, IsFiniteSet(T), NEW x \in T
  PROVE  Min(T) <= x /\ x <= Max(T) /\ Min(T) \in T /\ Max(T) \in T
<1> DEFINE s == Ascending(T)
           n == Len(s)
<1>1. /\ s \in Seq(T)
      /\ \A i \in 1 .. n : s[i] \in T
      /\ \A i, j \in 1 .. n : i < j => s[i] < s[j]
      /\ \A y \in T : \E i \in 1 .. n : s[i] = y
  BY AscendingSeq
<1> HIDE DEF s
<1>2. n \in Nat /\ n >= 1
  BY <1>1
<1> HIDE DEF n
<1>3. ASSUME NEW y \in T
      PROVE  s[1] <= y /\ y <= s[n]
  <2>1. PICK i \in 1 .. n : s[i] = y
    BY <1>1
  <2>2. 1 \in 1 .. n /\ n \in 1 .. n /\ i \in Nat
    BY <1>2
  <2>3. s[1] \in Nat /\ s[n] \in Nat /\ y \in Nat
    BY <1>1, <2>2
  <2>4. (1 < i => s[1] < s[i]) /\ (i < n => s[i] < s[n])
    BY <1>1, <2>2
  <2> QED
    BY <1>2, <2>1, <2>2, <2>3, <2>4
<1>4. s[1] \in T /\ s[n] \in T
  BY <1>1, <1>2
<1>5. Min(T) \in T /\ \A y \in T : Min(T) <= y
  <2>1. \E m \in T : \A y \in T : m <= y
    BY <1>3, <1>4
  <2> QED
    BY <2>1 DEF Min
<1>6. Max(T) \in T /\ \A y \in T : Max(T) >= y
  <2>1. \E m \in T : \A y \in T : m >= y
    <3>1. \A y \in T : s[n] >= y
      BY <1>3, <1>4
    <3> QED
      BY <1>4, <3>1
  <2> QED
    BY <2>1 DEF Max
<1>7. Max(T) \in Nat /\ x \in Nat
  BY <1>6
<1> QED
  BY <1>5, <1>6, <1>7

\* A row logged at the wall clock, or one that is torn, keeps the log in order.
LEMMA LogStaysOrdered ==
  ASSUME NEW l \in Seq(LogRow), NEW r \in LogRow, NEW c \in Nat,
         InLogOrder(l), \A i \in Alerts(l) : l[i].at <= c,
         r.topic # Torn.topic => r.at = c
  PROVE  /\ InLogOrder(Append(l, r))
         /\ \A i \in Alerts(Append(l, r)) : Append(l, r)[i].at <= c
<1> DEFINE m == Append(l, r)
           n == Len(l)
<1>1. /\ n \in Nat /\ DOMAIN m = 1 .. n + 1 /\ DOMAIN l = 1 .. n
      /\ m[n + 1] = r /\ \A i \in 1 .. n : m[i] = l[i]
  OBVIOUS
<1> HIDE DEF m, n
<1>2. ASSUME NEW i \in Alerts(m)
      PROVE  \/ i \in Alerts(l) /\ m[i] = l[i] /\ i \in 1 .. n
             \/ i = n + 1 /\ m[i].at = c
  <2>1. i \in 1 .. n + 1 /\ m[i].topic # Torn.topic
    BY <1>1 DEF Alerts
  <2>2. CASE i = n + 1
    BY <1>1, <2>1, <2>2
  <2>3. CASE i \in 1 .. n
    BY <1>1, <2>1, <2>3 DEF Alerts
  <2> QED
    BY <1>1, <2>1, <2>2, <2>3
<1>3. \A i \in Alerts(m) : m[i].at <= c
  BY <1>2
<1>4. ASSUME NEW i \in Alerts(m), NEW j \in Alerts(m), i < j
      PROVE  m[i].at <= m[j].at
  <2>1. CASE j = n + 1 /\ m[j].at = c
    BY <1>3, <2>1
  <2>2. CASE j \in Alerts(l) /\ m[j] = l[j] /\ j \in 1 .. n
    <3>1. i # n + 1
      BY <1>1, <1>4, <2>2
    <3>2. i \in Alerts(l) /\ m[i] = l[i]
      BY <1>2, <3>1
    <3> QED
      BY <1>4, <2>2, <3>2 DEF InLogOrder
  <2> QED
    BY <1>2, <2>1, <2>2
<1> QED
  BY <1>3, <1>4 DEF InLogOrder, m

-----------------------------------------------------------------------------
(* Every step keeps the invariant.                                         *)

LEMMA ItemsAreItems ==
  ASSUME LogInv, Stable
  PROVE  /\ query.route = "timeline" => InLogOrder(log)
         /\ Items(log, query) \in Seq(Item)
<1>1. log \in Seq(LogRow) /\ (query.route = "timeline" => InLogOrder(log))
  BY DEF LogInv, Stable
<1> QED
  BY <1>1, ItemsFacts

LEMMA QueriesInitInv == QueriesInit => QueriesInv
<1> SUFFICES ASSUME QueriesInit
             PROVE  QueriesInv
  OBVIOUS
<1>1. Alerts(<<>>) = {} /\ <<>> \in Seq(LogRow)
  BY DEF Alerts
<1>2. LogInv
  BY <1>1 DEF QueriesInit, LogInv, InLogOrder
<1> QED
  BY <1>2 DEF QueriesInit, QueriesInv, IdleInv

\* The log grows by a row of the wall clock's second or by a torn line.
LEMMA LogGrowsInv ==
  ASSUME QueriesInv, NEW r \in LogRow, log' = Append(log, r),
         r.topic # Torn.topic => r.at = wallClock,
         UNCHANGED <<wallClock, setBack, query, got, summary>>
  PROVE  QueriesInv'
<1>1. LogInv /\ log \in Seq(LogRow) /\ wallClock \in Nat
  BY DEF QueriesInv, LogInv
<1>2. log' \in Seq(LogRow)
  BY <1>1
<1>3. ~setBack => /\ InLogOrder(log')
                  /\ \A i \in Alerts(log') : log'[i].at <= wallClock
  BY <1>1, LogStaysOrdered DEF LogInv
<1>4. LogInv'
  BY <1>1, <1>2, <1>3 DEF LogInv
<1>5. IdleInv'
  BY DEF QueriesInv, IdleInv
<1>6. ASSUME query # NoQuery, Stable
      PROVE  PagedInv' /\ SummaryInv'
  <2>1. PagedInv /\ SummaryInv
    BY <1>6 DEF QueriesInv
  <2>2. query.route = "timeline" => InLogOrder(Append(log, r))
    BY <1>3, <1>6 DEF Stable
  <2>3. Begins(Items(log, query), Items(log', query))
    BY <1>1, <2>2, ItemsGrow
  <2>4. Items(log, query) \in Seq(Item) /\ Items(log', query) \in Seq(Item)
    <3>1. Items(log', query) \in Seq(Item)
      BY <1>2, <2>2, ItemsFacts
    <3> QED
      BY <1>1, <1>6, <3>1, ItemsAreItems
  <2>5. PagedInv'
    BY <2>1, <2>3, <2>4, BeginsTransitive DEF PagedInv
  <2>6. ASSUME NEW t \in Topics
        PROVE  summary.counts[t] <= CountAbout(Items(log', query), t)
    <3>1. CountAbout(Items(log, query), t) <= CountAbout(Items(log', query), t)
      BY <2>3, <2>4, CountGrows
    <3>2. /\ CountAbout(Items(log, query), t) \in Nat
          /\ CountAbout(Items(log', query), t) \in Nat
      BY <2>4, CountFacts
    <3>3. summary.counts[t] \in Nat /\ summary.counts[t] <= CountAbout(Items(log, query), t)
      BY <2>1 DEF SummaryInv
    <3> QED
      BY <3>1, <3>2, <3>3
  <2>7. SummaryInv'
    BY <2>1, <2>6 DEF SummaryInv
  <2> QED
    BY <2>5, <2>7
<1> QED
  BY <1>4, <1>5, <1>6 DEF QueriesInv, Stable

LEMMA ClockInv ==
  ASSUME QueriesInv, ClockTicks \/ ClockSetBack
  PROVE  QueriesInv'
<1>1. LogInv /\ log \in Seq(LogRow) /\ wallClock \in Nat
  BY DEF QueriesInv, LogInv
<1>2. wallClock' \in Nat
  BY <1>1 DEF ClockTicks, ClockSetBack
<1>3. \/ UNCHANGED setBack /\ wallClock' = wallClock + 1
      \/ setBack'
  BY DEF ClockTicks, ClockSetBack
<1>4. UNCHANGED <<log, query, got, summary>>
  BY DEF ClockTicks, ClockSetBack
<1>5. ASSUME NEW i \in Alerts(log)
      PROVE  log[i].at \in Nat
  <2>1. i \in 1 .. Len(log)
    BY <1>1 DEF Alerts
  <2>2. log[i] \in LogRow
    BY <1>1, <2>1
  <2> QED
    BY <2>2 DEF LogRow
<1>6. LogInv'
  BY <1>1, <1>2, <1>3, <1>4, <1>5 DEF LogInv
<1>7. query # NoQuery /\ Stable' => query # NoQuery /\ Stable
  BY <1>3, <1>4 DEF Stable
<1> QED
  BY <1>4, <1>6, <1>7 DEF QueriesInv, IdleInv, Stable, PagedInv, SummaryInv

LEMMA AskInv ==
  ASSUME QueriesInv, NEW q \in Queries, Ask(q)
  PROVE  QueriesInv'
<1>1. q \in QueryType
  BY QueriesAssumption
<1>2. q # NoQuery
  BY <1>1 DEF QueryType, NoQuery
<1>3. LogInv'
  BY <1>1 DEF QueriesInv, LogInv, Ask
<1>4. IdleInv'
  BY <1>2 DEF Ask, IdleInv
<1>5. got' = <<>> /\ summary' = NoSummary
  BY DEF QueriesInv, IdleInv, Ask
<1>6. ASSUME Stable'
      PROVE  PagedInv' /\ SummaryInv'
  <2>1. Items(log', query') \in Seq(Item)
    <3>1. log' \in Seq(LogRow) /\ (query'.route = "timeline" => InLogOrder(log'))
      BY <1>3, <1>6 DEF LogInv, Stable
    <3> QED
      BY <3>1, ItemsFacts
  <2>2. <<>> \in Seq(Item) /\ Len(<<>>) = 0 /\ SubSeq(<<>>, 1, 0) = <<>>
    BY SubSeqEmpty
  <2>3. PagedInv'
    BY <1>5, <2>1, <2>2 DEF PagedInv, Begins
  <2>4. ASSUME NEW t \in Topics
        PROVE  /\ CountAbout(<<>>, t) = 0 /\ CountAbout(Items(log', query'), t) \in Nat
    <3>1. {i \in DOMAIN <<>> : <<>>[i].topic = t} = {}
      OBVIOUS
    <3>2. CountAbout(<<>>, t) = 0
      BY <3>1, FS_EmptySet DEF CountAbout
    <3> QED
      BY <2>1, <3>2, CountFacts
  <2>5. /\ summary'.paged = 0
        /\ \A t \in Topics : summary'.counts[t] = 0
    BY <1>5 DEF NoSummary
  <2>6. summary'.paged \in 0 .. Len(got')
    BY <1>5, <2>2, <2>5
  <2>7. \A i \in 1 .. summary'.paged : FALSE
    BY <2>5
  <2>8. ASSUME NEW t \in Topics
        PROVE  /\ summary'.counts[t] \in Nat
               /\ CountAbout(SubSeq(got', 1, summary'.paged), t) <= summary'.counts[t]
               /\ summary'.counts[t] <= CountAbout(Items(log', query'), t)
    <3>1. summary'.counts[t] = 0 /\ SubSeq(got', 1, summary'.paged) = <<>>
      BY <1>5, <2>2, <2>5
    <3> DEFINE now == CountAbout(Items(log', query'), t)
    <3>2. CountAbout(<<>>, t) = 0 /\ now \in Nat
      BY <2>4
    <3>3. CountAbout(SubSeq(got', 1, summary'.paged), t) = 0
      BY <3>1, <3>2
    <3> HIDE DEF now
    <3>4. 0 \in Nat /\ 0 <= 0 /\ 0 <= now
      BY <3>2
    <3> QED
      BY <3>1, <3>3, <3>4 DEF now
  <2>9. SummaryInv'
    BY <2>6, <2>7, <2>8 DEF SummaryInv
  <2> QED
    BY <2>3, <2>9
<1> QED
  BY <1>3, <1>4, <1>6 DEF QueriesInv

\* A page puts the next items behind those the client has.
LEMMA PageInv ==
  ASSUME QueriesInv, ReadPage
  PROVE  QueriesInv'
<1>1. UNCHANGED <<log, wallClock, setBack, query, summary>> /\ query # NoQuery
  BY DEF ReadPage
<1>2. LogInv'
  BY <1>1 DEF QueriesInv, LogInv
<1>3. IdleInv'
  BY <1>1 DEF IdleInv
<1>4. query \in QueryType
  BY <1>1 DEF QueriesInv, LogInv
<1>5. ASSUME Stable
      PROVE  PagedInv' /\ SummaryInv'
  <2> DEFINE items == Items(log, query)
             n == Len(got)
             h == IF n + query.limit <= Len(items) THEN n + query.limit ELSE Len(items)
             page == SubSeq(items, n + 1, h)
  <2>1. PagedInv /\ SummaryInv /\ LogInv
    BY <1>1, <1>5 DEF QueriesInv
  <2>2. items \in Seq(Item) /\ Len(items) \in Nat /\ query.limit \in Nat
    <3>1. items \in Seq(Item)
      BY <1>5, <2>1, ItemsAreItems
    <3> HIDE DEF items
    <3> QED
      BY <1>4, <3>1 DEF QueryType
  <2>3. got \in Seq(Item) /\ n \in Nat /\ n <= Len(items)
    BY <2>1 DEF PagedInv, Begins
  <2>4. h \in Nat /\ n <= h /\ h <= Len(items)
    BY <2>2, <2>3
  <2>5. got' = got \/ got' = got \o page
    BY DEF ReadPage, Page
  <2> HIDE DEF items, n, h
  <2>6. /\ page \in Seq(Item) /\ Len(page) = h - n
        /\ \A i \in 1 .. h - n : page[i] = items[n + i]
    <3>1. \A i \in n + 1 .. h : items[i] \in Item
      BY <2>2, <2>3, <2>4
    <3>2. n + 1 \in Int /\ h \in Int
      BY <2>3, <2>4
    <3>3. /\ page \in Seq(Item)
          /\ Len(page) = IF n + 1 <= h THEN h - (n + 1) + 1 ELSE 0
          /\ \A i \in 1 .. h - (n + 1) + 1 : page[i] = items[n + 1 + i - 1]
      BY <3>1, <3>2, SubSeqProperties
    <3> HIDE DEF page
    <3> QED
      BY <2>3, <2>4, <3>3
  <2> HIDE DEF page
  <2>7. /\ got' \in Seq(Item)
        /\ Len(got') \in Nat /\ n <= Len(got') /\ Len(got') <= Len(items)
        /\ \A i \in 1 .. n : got'[i] = got[i]
        /\ \A i \in 1 .. Len(got') : i <= n \/ got'[i] = items[i]
    <3>1. CASE got' = got
      BY <2>3, <3>1 DEF n
    <3>2. CASE got' = got \o page
      <4>1. /\ got' \in Seq(Item) /\ Len(got') = n + (h - n)
            /\ \A i \in 1 .. n + (h - n) :
                 got'[i] = IF i <= n THEN got[i] ELSE page[i - n]
        <5>1. /\ got \o page \in Seq(Item)
              /\ Len(got \o page) = Len(got) + Len(page)
              /\ \A i \in 1 .. Len(got) + Len(page) : (got \o page)[i] =
                   IF i <= Len(got) THEN got[i] ELSE page[i - Len(got)]
          BY <2>3, <2>6, ConcatProperties
        <5>2. Len(got) = n /\ Len(page) = h - n
          BY <2>6 DEF n
        <5> QED
          BY <3>2, <5>1, <5>2
      <4>2. ASSUME NEW i \in 1 .. Len(got'), ~(i <= n)
            PROVE  got'[i] = items[i]
        <5>1. i - n \in 1 .. h - n /\ n + (i - n) = i
          BY <2>3, <2>4, <4>1, <4>2
        <5>2. got'[i] = page[i - n]
          BY <4>1, <4>2
        <5> QED
          BY <2>6, <5>1, <5>2
      <4>3. n + (h - n) = h
        BY <2>3, <2>4
      <4>4. Len(got') \in Nat /\ n <= Len(got') /\ Len(got') <= Len(items)
        BY <2>4, <4>1, <4>3
      <4>5. \A i \in 1 .. n : i \in 1 .. n + (h - n) /\ i <= n
        BY <2>3, <2>4, <4>3
      <4>6. \A i \in 1 .. n : got'[i] = got[i]
        BY <4>1, <4>5
      <4> QED
        BY <4>1, <4>2, <4>4, <4>6
    <3> QED
      BY <2>5, <3>1, <3>2
  <2>8. Begins(got', items)
    <3> SUFFICES ASSUME NEW i \in 1 .. Len(got')
                 PROVE  /\ items[i].id = got'[i].id /\ items[i].topic = got'[i].topic
                        /\ items[i].from = got'[i].from /\ got'[i].to <= items[i].to
      BY <2>7 DEF Begins
    <3>1. CASE i <= n
      <4>1. i \in 1 .. n /\ got'[i] = got[i]
        BY <2>3, <2>7, <3>1
      <4> QED
        BY <2>1, <4>1 DEF PagedInv, Begins, items, n
    <3>2. CASE ~(i <= n)
      <4>1. got'[i] = items[i] /\ items[i] \in Item
        BY <2>2, <2>7, <3>2
      <4> QED
        BY <4>1 DEF Item
    <3> QED
      BY <3>1, <3>2
  <2>9. PagedInv'
    BY <1>1, <2>7, <2>8 DEF PagedInv, items
  <2> DEFINE p == summary.paged
  <2>10. p \in Nat /\ p <= n
    BY <2>1, <2>3 DEF SummaryInv, n
  <2> HIDE DEF p
  <2>11. \A i \in 1 .. p : got'[i] = got[i]
    BY <2>3, <2>7, <2>10
  <2>12. SubSeq(got', 1, p) = SubSeq(got, 1, p)
    <3>1. \A i \in 1 .. p : got[i] \in Item /\ got'[i] \in Item
      BY <2>3, <2>10, <2>11 DEF n
    <3>2. 1 \in Int /\ p \in Int /\ p - 1 + 1 = p
      BY <2>10
    <3>3. /\ SubSeq(got, 1, p) \in Seq(Item)
          /\ Len(SubSeq(got, 1, p)) = IF 1 <= p THEN p - 1 + 1 ELSE 0
          /\ \A i \in 1 .. p - 1 + 1 : SubSeq(got, 1, p)[i] = got[1 + i - 1]
      BY <3>1, <3>2, SubSeqProperties
    <3>4. /\ SubSeq(got', 1, p) \in Seq(Item)
          /\ Len(SubSeq(got', 1, p)) = IF 1 <= p THEN p - 1 + 1 ELSE 0
          /\ \A i \in 1 .. p - 1 + 1 : SubSeq(got', 1, p)[i] = got'[1 + i - 1]
      BY <3>1, <3>2, SubSeqProperties
    <3>5. \A i \in 1 .. p : 1 + i - 1 = i
      BY <2>10
    <3>6. \A i \in 1 .. p : SubSeq(got', 1, p)[i] = SubSeq(got, 1, p)[i]
      BY <2>11, <3>2, <3>3, <3>4, <3>5
    <3>7. Len(SubSeq(got', 1, p)) = p /\ Len(SubSeq(got, 1, p)) = p
      BY <2>10, <3>2, <3>3, <3>4
    <3> QED
      BY <3>3, <3>4, <3>6, <3>7, SeqEqual
  <2>13. p \in 0 .. Len(got')
    BY <2>3, <2>7, <2>10
  <2>14. SummaryInv'
    BY <1>1, <2>1, <2>11, <2>12, <2>13 DEF SummaryInv, p
  <2> QED
    BY <2>9, <2>14
<1> QED
  BY <1>1, <1>2, <1>3, <1>5 DEF QueriesInv, Stable

\* A summary is of all there is, and so of what was paged before.
LEMMA SummaryStepInv ==
  ASSUME QueriesInv, ReadSummary
  PROVE  QueriesInv'
<1>1. UNCHANGED <<log, wallClock, setBack, query, got>> /\ query # NoQuery
  BY DEF ReadSummary
<1>2. LogInv'
  BY <1>1 DEF QueriesInv, LogInv
<1>3. IdleInv'
  BY <1>1 DEF IdleInv
<1>4. CASE UNCHANGED summary
  <2>1. UNCHANGED <<log, wallClock, setBack, query, got, summary>>
    BY <1>1, <1>4
  <2> QED
    BY <2>1 DEF QueriesInv, LogInv, IdleInv, Stable, PagedInv, SummaryInv
<1> DEFINE s == Summarized(log, query)
<1>5. CASE summary' = [paged |-> Len(got), first |-> s.first, last |-> s.last,
                       counts |-> s.counts]
  <2> SUFFICES ASSUME Stable
               PROVE  PagedInv' /\ SummaryInv'
    BY <1>1, <1>2, <1>3 DEF QueriesInv, Stable
  <2> DEFINE f == Filtered(log, query)
             items == Items(log, query)
             times == {a.at : a \in ToSet(f)}
             n == Len(got)
  <2>1. PagedInv /\ LogInv /\ log \in Seq(LogRow)
    BY <1>1 DEF QueriesInv, LogInv
  <2>2. PagedInv'
    BY <1>1, <2>1 DEF PagedInv
  <2>3. got \in Seq(Item) /\ n \in Nat /\ Begins(got, items)
    BY <2>1 DEF PagedInv
  <2>4. query.route = "timeline" => InLogOrder(log)
    BY <2>1, ItemsAreItems
  <2>5. /\ items \in Seq(Item)
        /\ \A i \in 1 .. Len(items) : \E a, b \in 1 .. Len(f) :
             items[i].from = f[a].at /\ items[i].to = f[b].at
    <3>1. LET g == Filtered(log, query)
              j == Items(log, query)
          IN  /\ j \in Seq(Item)
              /\ \A i \in 1 .. Len(j) : \E a, b \in 1 .. Len(g) :
                   j[i].from = g[a].at /\ j[i].to = g[b].at
      BY <2>1, <2>4, ItemsFacts
    <3> QED
      BY <3>1
  <2>6. f \in Seq(AlertType)
    BY <2>1, FilteredFacts
  <2>7. s = [first |-> IF times = {} THEN 0 ELSE Min(times),
             last |-> IF times = {} THEN 0 ELSE Max(times),
             counts |-> CountsOf(items)]
    BY DEF Summarized
  <2>8. \A t \in Topics : s.counts[t] = CountAbout(items, t)
    BY <2>7 DEF CountsOf, CountAbout
  <2>9. SubSeq(got, 1, n) = got
    <3> HIDE DEF n
    <3> QED
      BY <2>3 DEF n
  <2> HIDE DEF f, items, s
  <2>10. \A k \in 1 .. Len(f) : f[k].at \in Nat /\ f[k].at \in times
    <3> SUFFICES ASSUME NEW k \in 1 .. Len(f)
                 PROVE  f[k].at \in Nat /\ f[k].at \in times
      OBVIOUS
    <3>1. f[k] \in AlertType /\ f[k] \in ToSet(f)
      BY <2>6 DEF ToSet
    <3> QED
      BY <3>1 DEF AlertType
  <2>11. \A x \in times : \E k \in 1 .. Len(f) : x = f[k].at
    <3> SUFFICES ASSUME NEW x \in times
                 PROVE  \E k \in 1 .. Len(f) : x = f[k].at
      OBVIOUS
    <3>1. PICK a \in ToSet(f) : x = a.at
      OBVIOUS
    <3>2. PICK k \in DOMAIN f : a = f[k]
      BY DEF ToSet
    <3> QED
      BY <2>6, <3>1, <3>2
  <2> HIDE DEF times
  <2>12. times \in SUBSET Nat
    BY <2>10, <2>11
  <2>13. IsFiniteSet(times)
    <3> DEFINE at == [k \in 1 .. Len(f) |-> f[k].at]
    <3>1. at \in Surjection(1 .. Len(f), times)
      BY <2>10, <2>11 DEF Surjection
    <3>2. IsFiniteSet(1 .. Len(f))
      <4>1. 1 \in Int /\ Len(f) \in Int
        BY <2>6
      <4> QED
        BY <4>1, FS_Interval
    <3> QED
      BY <3>1, <3>2, FS_Surjection
  <2>14. ASSUME NEW k \in 1 .. Len(f)
         PROVE  s.first <= f[k].at /\ f[k].at <= s.last
    <3>1. f[k].at \in times
      BY <2>10
    <3>2. Min(times) <= f[k].at /\ f[k].at <= Max(times)
      BY <2>12, <2>13, <3>1, FirstAndLast
    <3>3. times # {}
      BY <3>1
    <3>4. s.first = Min(times) /\ s.last = Max(times)
      BY <2>7, <3>3
    <3> QED
      BY <3>2, <3>4
  <2>15. ASSUME NEW i \in 1 .. n
         PROVE  s.first <= got[i].from /\ got[i].to <= s.last
    <3>1. i \in 1 .. Len(items) /\ got[i].from = items[i].from /\ got[i].to <= items[i].to
      BY <2>3, <2>5 DEF Begins
    <3>2. PICK a \in 1 .. Len(f), b \in 1 .. Len(f) :
            items[i].from = f[a].at /\ items[i].to = f[b].at
      BY <2>5, <3>1
    <3>3. s.first <= f[a].at /\ f[b].at <= s.last
      BY <2>14
    <3>4. got[i].to \in Nat
      <4>1. got[i] \in Item
        BY <2>3
      <4> QED
        BY <4>1 DEF Item
    <3>5. f[b].at \in Nat /\ f[b].at \in times
      BY <2>10
    <3>6. s.last \in Nat
      <4>1. times # {} /\ s.last = Max(times)
        BY <2>7, <3>5
      <4>2. Max(times) \in times
        BY <2>12, <2>13, <3>5, FirstAndLast
      <4> QED
        BY <2>12, <4>1, <4>2
    <3> QED
      BY <3>1, <3>2, <3>3, <3>4, <3>5, <3>6
  <2>16. /\ summary'.paged = n /\ summary'.counts = s.counts
         /\ summary'.first = s.first /\ summary'.last = s.last
    BY <1>5
  <2>17. ASSUME NEW t \in Topics
         PROVE  /\ s.counts[t] \in Nat
                /\ CountAbout(got, t) <= s.counts[t]
                /\ s.counts[t] <= CountAbout(items, t)
    <3>1. CountAbout(items, t) \in Nat
      BY <2>5, CountFacts
    <3>2. CountAbout(got, t) <= CountAbout(items, t)
      BY <2>3, <2>5, CountGrows
    <3>3. CountAbout(items, t) <= CountAbout(items, t)
      BY <3>1
    <3> QED
      BY <2>8, <3>1, <3>2, <3>3
  <2>18. n \in 0 .. Len(got)
    BY <2>3
  <2>19. SummaryInv'
    BY <1>1, <2>9, <2>15, <2>16, <2>17, <2>18 DEF SummaryInv, items
  <2> QED
    BY <2>2, <2>19
<1> QED
  BY <1>4, <1>5 DEF ReadSummary

LEMMA QueriesNextInv ==
  ASSUME QueriesInv, [QueriesNext]_queryVars
  PROVE  QueriesInv'
<1>1. LogInv /\ wallClock \in Nat
  BY DEF QueriesInv, LogInv
<1>2. CASE Announce
  BY <1>2 DEF Announce, QueriesInv, LogInv, IdleInv, Stable, PagedInv, SummaryInv
<1>3. ASSUME NEW topic \in Topics, AppendAlert(topic)
      PROVE  QueriesInv'
  <2> DEFINE r == [topic |-> topic, at |-> wallClock]
  <2>1. r \in LogRow /\ r.at = wallClock
    BY <1>1 DEF LogRow
  <2>2. log' = Append(log, r) /\ UNCHANGED <<wallClock, setBack, query, got, summary>>
    BY <1>3 DEF AppendAlert
  <2> HIDE DEF r
  <2> QED
    BY <2>1, <2>2, LogGrowsInv
<1>4. CASE WriterDies
  <2>1. UNCHANGED <<wallClock, setBack, query, got, summary>>
    BY <1>4 DEF WriterDies
  <2>2. CASE log' = log
    BY <2>1, <2>2 DEF QueriesInv, LogInv, IdleInv, Stable, PagedInv, SummaryInv
  <2>3. CASE log' = Append(log, Torn)
    <3>1. Torn \in LogRow
      BY DEF Torn, LogRow
    <3> QED
      BY <2>1, <2>3, <3>1, LogGrowsInv
  <2> QED
    BY <1>4, <2>2, <2>3 DEF WriterDies
<1>5. CASE ClockTicks \/ ClockSetBack
  BY <1>5, ClockInv
<1>6. ASSUME NEW q \in Queries, AskRoute(q) \/ AskTool(q)
      PROVE  QueriesInv'
  BY <1>6, AskInv DEF AskRoute, AskTool
<1>7. CASE ReadPage
  BY <1>7, PageInv
<1>8. CASE ReadSummary
  BY <1>8, SummaryStepInv
<1>9. CASE UNCHANGED queryVars
  BY <1>9 DEF queryVars, QueriesInv, LogInv, IdleInv, Stable, PagedInv, SummaryInv
<1> QED
  BY <1>2, <1>3, <1>4, <1>5, <1>6, <1>7, <1>8, <1>9 DEF QueriesNext

\* The alert queries keep their inductive invariant: the log is in the order of
\* time as long as the clock was not set back, what a client has paged begins
\* the items there are, and its last summary lies between the two
\* (session_alerts.py, session_alert_incidents.py).
THEOREM QueriesInvariant == QueriesSpec => []QueriesInv
<1>1. QueriesInit => QueriesInv
  BY QueriesInitInv
<1>2. QueriesInv /\ [QueriesNext]_queryVars => QueriesInv'
  BY QueriesNextInv
<1> QED
  BY <1>1, <1>2, PTL DEF QueriesSpec

\* The pages of a client join up, whatever the limit of a page and however often
\* the worker appends in between: no alert and no incident is missed or seen
\* twice (get_session_alerts, get_session_alert_timeline).
THEOREM PagesOfALogJoinUp == QueriesSpec => []PagesJoinUp
<1>1. QueriesInv => PagesJoinUp
  BY DEF QueriesInv, PagedInv, Begins, Stable, PagesJoinUp
<1> QED
  BY <1>1, QueriesInvariant, PTL

\* A summary fits the pages of its query: it counts and encloses all that was
\* paged before it and nothing that is not there
\* (summarize_session_alert_events, build_session_incident_summary).
THEOREM SummariesFitThePages == QueriesSpec => []SummaryFitsThePages
<1>1. QueriesInv => SummaryFitsThePages
  <2> SUFFICES ASSUME QueriesInv, query # NoQuery, Stable
               PROVE  LET before == SubSeq(got, 1, summary.paged)
                      IN  /\ \A t \in Topics :
                               /\ CountAbout(before, t) <= summary.counts[t]
                               /\ summary.counts[t] <= CountAbout(Items(log, query), t)
                          /\ \A i \in DOMAIN before :
                               /\ summary.first <= before[i].from
                               /\ before[i].to <= summary.last
    BY DEF SummaryFitsThePages, CountAbout, Stable
  <2>1. SummaryInv /\ got \in Seq(Item)
    BY DEF QueriesInv, PagedInv
  <2> DEFINE before == SubSeq(got, 1, summary.paged)
             p == summary.paged
  <2>2. p \in Nat /\ p <= Len(got)
    BY <2>1 DEF SummaryInv
  <2>3. DOMAIN before = 1 .. p /\ \A i \in 1 .. p : before[i] = got[i]
    <3> HIDE DEF p
    <3> QED
      BY <2>1, <2>2 DEF p
  <2> HIDE DEF before
  <2> QED
    BY <2>1, <2>3 DEF SummaryInv, before
<1> QED
  BY <1>1, QueriesInvariant, PTL

==============================================================================

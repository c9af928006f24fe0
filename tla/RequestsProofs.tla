---------------------------- MODULE RequestsProofs ----------------------------
(***************************************************************************)
(* Proofs about EventLog and Requests, for any threads, lines and limits.  *)
(* The first part is about log alone, and the requests leave it alone or   *)
(* take one of its steps.  LogBounded is not inductive: a thread that has  *)
(* loaded the list counts in it already but has added nothing yet, so Room *)
(* counts the threads past the append only.  Slices are within the limit,  *)
(* and whatever is rebound is a slice.  RetryingIsUnderWay is kept by every*)
(* step once one knows that on_retry is called after a failed attempt      *)
(* (Called): a call that ends has just written the last word itself, and   *)
(* "Retrying" is no last word.                                             *)
(***************************************************************************)
EXTENDS Requests, SequenceTheorems, FiniteSetTheorems, TLAPS

\* What a thread may do in log.
LogStep(t) == Load(t) \/ Slice(t) \/ Rebind(t) \/ \E line \in Lines : AppendLine(t, line)

\* The threads that have appended and not yet rebound.
Past == {t \in Threads : logging[t] \in {"appended", "sliced"}}

Room ==
  /\ Len(logs) <= MaxLines + Cardinality(Past)
  /\ \A t \in Threads : Len(copy[t]) <= MaxLines

\* The last n lines of two logs are the same.
Agree(s, w, n) ==
  /\ n <= Len(s) /\ n <= Len(w)
  /\ \A i \in 1 .. n : s[Len(s) + 1 - i] = w[Len(w) + 1 - i]

\* The lines that are safe once the call under way has ended.
OneMore == IF clean < MaxLines THEN clean + 1 ELSE MaxLines

Healed ==
  /\ InLog = {} => Agree(logs, written, clean)
  /\ \A t \in InLog \ overlapped :
       /\ InLog = {t}
       /\ logging[t] = "loaded" => t \notin stale /\ Agree(logs, written, clean)
       /\ logging[t] = "appended" => Agree(logs, written, OneMore)
       /\ logging[t] = "sliced" => Agree(copy[t], written, OneMore)

-----------------------------------------------------------------------------
\* The last n elements of a sequence: how many, and which.
LEMMA LastProperties ==
  ASSUME NEW S, NEW s \in Seq(S), NEW n \in Nat
  PROVE  /\ Last(n, s) \in Seq(S)
         /\ Len(Last(n, s)) = IF Len(s) <= n THEN Len(s) ELSE n
         /\ \A i \in 1 .. Len(Last(n, s)) : Last(n, s)[i] = s[i + Len(s) - Len(Last(n, s))]
<1>1. CASE Len(s) <= n
  BY <1>1 DEF Last
<1>2. CASE Len(s) > n
  <2>1. Last(n, s) = SubSeq(s, Len(s) - n + 1, Len(s))
    BY <1>2 DEF Last
  <2>2. Len(s) - n + 1 \in Int /\ Len(s) \in Int
    OBVIOUS
  <2>3. \A i \in Len(s) - n + 1 .. Len(s) : s[i] \in S
    BY <1>2
  <2>4. /\ Last(n, s) \in Seq(S)
        /\ Len(Last(n, s)) = IF Len(s) - n + 1 <= Len(s) THEN Len(s) - (Len(s) - n + 1) + 1 ELSE 0
        /\ \A i \in 1 .. Len(s) - (Len(s) - n + 1) + 1 :
             Last(n, s)[i] = s[Len(s) - n + 1 + i - 1]
    BY <2>1, <2>2, <2>3, SubSeqProperties
  <2>5. Len(Last(n, s)) = n
    BY <2>4
  <2> QED BY <1>2, <2>4, <2>5
<1> QED BY <1>1, <1>2

\* Nobody has logged anything at first.
LEMMA LogTypeInitial == LogInit => LogType
BY MaxLinesAssumption DEF LogInit, LogType

\* Every step of log keeps its variables within their types.
LEMMA LogTypeInductive ==
  ASSUME LogType, NEW t \in Threads, LogStep(t)
  PROVE  LogType'
<1> USE MaxLinesAssumption
<1>1. CASE Load(t)
  BY <1>1 DEF Load, LogType, InLog
<1>2. CASE Slice(t)
  <2>1. Newest(logs) \in Seq(Lines)
    BY LastProperties DEF Newest, LogType
  <2> QED BY <1>2, <2>1 DEF Slice, LogType
<1>3. CASE Rebind(t)
  BY <1>3 DEF Rebind, LogType
<1>4. ASSUME NEW line \in Lines, AppendLine(t, line) PROVE LogType'
  <2>1. Append(written, line) \in Seq(Lines) /\ Append(logs, line) \in Seq(Lines)
    BY DEF LogType
  <2>2. Last(MaxLines, Append(written, line)) \in Seq(Lines)
    BY <2>1, LastProperties
  <2> QED BY <1>4, <2>1, <2>2 DEF AppendLine, LogType
<1> QED BY <1>1, <1>2, <1>3, <1>4 DEF LogStep

-----------------------------------------------------------------------------
\* There is room for the first line.
LEMMA RoomInitial == LogInit => Room
<1> SUFFICES ASSUME LogInit PROVE Room
  OBVIOUS
<1>1. Past = {}
  BY DEF LogInit, Past
<1>2. Cardinality(Past) = 0
  BY <1>1, FS_EmptySet
<1> QED BY <1>2, MaxLinesAssumption DEF LogInit, Room

\* The threads past the append are finitely many, and no more than those that log.
LEMMA PastFinite ==
  /\ IsFiniteSet(Past) /\ Cardinality(Past) \in Nat
  /\ Cardinality(InLog) \in Nat /\ Cardinality(Past) <= Cardinality(InLog)
<1>1. Past \in SUBSET InLog /\ InLog \in SUBSET Threads
  BY DEF Past, InLog
<1>2. IsFiniteSet(InLog)
  BY <1>1, ThreadsAssumption, FS_Subset
<1> QED BY <1>1, <1>2, FS_Subset, FS_CardinalityType

\* Every step of log keeps the room: an append makes one more thread count.
LEMMA RoomInductive ==
  ASSUME LogType, Room, NEW t \in Threads, LogStep(t)
  PROVE  Room'
<1> USE MaxLinesAssumption
<1>1. IsFiniteSet(Past) /\ Cardinality(Past) \in Nat
  BY PastFinite
<1>2. CASE Load(t)
  <2>1. Past' = Past
    BY <1>2 DEF Load, Past, LogType
  <2> QED BY <1>2, <2>1 DEF Load, Room
<1>3. CASE Slice(t)
  <2>1. Past' = Past
    BY <1>3 DEF Slice, Past, LogType
  <2>2. Len(Newest(logs)) <= MaxLines
    BY LastProperties DEF Newest, LogType
  <2>3. \A u \in Threads : Len(copy'[u]) <= MaxLines
    BY <1>3, <2>2 DEF Slice, Room, LogType
  <2> QED BY <1>3, <2>1, <2>3 DEF Slice, Room
<1>4. CASE Rebind(t)
  <2>1. Past' = Past \ {t}
    BY <1>4 DEF Rebind, Past, LogType
  <2>2. Cardinality(Past') \in Nat
    BY <1>1, <2>1, FS_RemoveElement, FS_CardinalityType
  <2>3. Len(logs') <= MaxLines /\ Len(logs') \in Nat
    BY <1>4 DEF Rebind, Room, LogType
  <2>4. Len(<<>>) <= MaxLines
    OBVIOUS
  <2>5. \A u \in Threads : Len(copy'[u]) <= MaxLines
    BY <1>4, <2>4 DEF Rebind, Room, LogType
  <2> QED BY <2>2, <2>3, <2>5 DEF Room
<1>5. ASSUME NEW line \in Lines, AppendLine(t, line) PROVE Room'
  <2>1. t \notin Past /\ Past' = Past \cup {t}
    BY <1>5 DEF AppendLine, Past, LogType
  <2>2. Cardinality(Past') = Cardinality(Past) + 1
    BY <1>1, <2>1, FS_AddElement
  <2>3. Len(logs') <= Len(logs) + 1 /\ Len(logs') \in Nat /\ Len(logs) \in Nat
    BY <1>5 DEF AppendLine, LogType
  <2>4. Len(logs') <= MaxLines + Cardinality(Past')
    BY <1>1, <2>2, <2>3 DEF Room
  <2> QED BY <1>5, <2>4 DEF AppendLine, Room
<1> QED BY <1>2, <1>3, <1>4, <1>5 DEF LogStep

\* Whoever is past the append is logging.
LEMMA RoomBounds == LogType /\ Room => LogBounded
BY PastFinite, MaxLinesAssumption DEF Room, LogBounded, LogType

-----------------------------------------------------------------------------
\* Logs that agree do so in a line more once both got it, and what was written
\* is remembered for MaxLines lines.
LEMMA AgreeAppend ==
  ASSUME NEW s \in Seq(Lines), NEW w \in Seq(Lines), NEW line \in Lines,
         NEW n \in 0 .. MaxLines, Agree(s, w, n),
         NEW more, more = IF n < MaxLines THEN n + 1 ELSE MaxLines
  PROVE  Agree(Append(s, line), Last(MaxLines, Append(w, line)), more)
<1> USE MaxLinesAssumption
<1> DEFINE s1 == Append(s, line)
           w1 == Append(w, line)
           w2 == Last(MaxLines, w1)
<1>1. /\ s1 \in Seq(Lines) /\ Len(s1) = Len(s) + 1 /\ s1[Len(s) + 1] = line
      /\ \A i \in 1 .. Len(s) : s1[i] = s[i]
  BY AppendProperties
<1>2. /\ w1 \in Seq(Lines) /\ Len(w1) = Len(w) + 1 /\ w1[Len(w) + 1] = line
      /\ \A i \in 1 .. Len(w) : w1[i] = w[i]
  BY AppendProperties
<1> HIDE DEF s1, w1
<1>3. /\ w2 \in Seq(Lines)
      /\ Len(w2) = IF Len(w1) <= MaxLines THEN Len(w1) ELSE MaxLines
      /\ \A i \in 1 .. Len(w2) : w2[i] = w1[i + Len(w1) - Len(w2)]
  BY <1>2, LastProperties
<1> HIDE DEF w2
<1>4. more <= Len(s1) /\ more <= Len(w2) /\ more <= n + 1 /\ more \in Nat
  BY <1>1, <1>2, <1>3 DEF Agree
<1>5. ASSUME NEW i \in 1 .. more PROVE s1[Len(s1) + 1 - i] = w2[Len(w2) + 1 - i]
  <2>1. w2[Len(w2) + 1 - i] = w1[Len(w1) + 1 - i]
    <3>1. Len(w2) + 1 - i \in 1 .. Len(w2)
      BY <1>3, <1>4
    <3>2. Len(w1) \in Int /\ Len(w2) \in Int /\ i \in Int
      BY <1>2, <1>3, <1>4
    <3>3. Len(w2) + 1 - i + Len(w1) - Len(w2) = Len(w1) + 1 - i
      BY <3>2
    <3> QED BY <1>3, <3>1, <3>3
  <2>2. CASE i = 1
    BY <1>1, <1>2, <2>1, <2>2
  <2>3. CASE i # 1
    <3>1. i - 1 \in 1 .. n /\ i - 1 <= Len(s) /\ i - 1 <= Len(w)
      BY <1>4, <2>3 DEF Agree
    <3>2. s[Len(s) + 1 - (i - 1)] = w[Len(w) + 1 - (i - 1)]
      BY <3>1 DEF Agree
    <3>3. s1[Len(s1) + 1 - i] = s[Len(s) + 1 - (i - 1)]
      BY <1>1, <3>1
    <3>4. w1[Len(w1) + 1 - i] = w[Len(w) + 1 - (i - 1)]
      BY <1>2, <3>1
    <3> QED BY <2>1, <3>2, <3>3, <3>4
  <2> QED BY <2>2, <2>3
<1> QED BY <1>4, <1>5 DEF Agree, s1, w2, w1

\* The slice agrees as far as the list did.
LEMMA AgreeNewest ==
  ASSUME NEW s \in Seq(Lines), NEW w \in Seq(Lines), NEW n \in 0 .. MaxLines, Agree(s, w, n)
  PROVE  Agree(Newest(s), w, n)
<1> DEFINE r == Newest(s)
<1>1. /\ r \in Seq(Lines) /\ Len(r) = IF Len(s) <= MaxLines THEN Len(s) ELSE MaxLines
      /\ \A i \in 1 .. Len(r) : r[i] = s[i + Len(s) - Len(r)]
  BY LastProperties, MaxLinesAssumption DEF Newest
<1> HIDE DEF r
<1>2. n <= Len(r)
  BY <1>1, MaxLinesAssumption DEF Agree
<1>3. ASSUME NEW i \in 1 .. n PROVE r[Len(r) + 1 - i] = s[Len(s) + 1 - i]
  <2>1. Len(r) + 1 - i \in 1 .. Len(r)
    BY <1>1, <1>2
  <2>2. Len(r) + 1 - i + Len(s) - Len(r) = Len(s) + 1 - i
    BY <1>1
  <2> QED BY <1>1, <2>1, <2>2
<1> QED BY <1>2, <1>3 DEF Agree, r

\* Logs that agree in their last n lines have the same last n lines.
LEMMA AgreeLast ==
  ASSUME NEW s \in Seq(Lines), NEW w \in Seq(Lines), NEW n \in Nat, Agree(s, w, n)
  PROVE  Last(n, s) = Last(n, w)
<1>0. n <= Len(s) /\ n <= Len(w)
  BY DEF Agree
<1>1. /\ Last(n, s) \in Seq(Lines) /\ Len(Last(n, s)) = n
      /\ \A i \in 1 .. n : Last(n, s)[i] = s[i + Len(s) - n]
  <2>1. /\ Last(n, s) \in Seq(Lines)
        /\ Len(Last(n, s)) = IF Len(s) <= n THEN Len(s) ELSE n
        /\ \A i \in 1 .. Len(Last(n, s)) : Last(n, s)[i] = s[i + Len(s) - Len(Last(n, s))]
    BY LastProperties
  <2>2. Len(Last(n, s)) = n
    BY <1>0, <2>1
  <2> QED BY <2>1, <2>2
<1>2. /\ Last(n, w) \in Seq(Lines) /\ Len(Last(n, w)) = n
      /\ \A i \in 1 .. n : Last(n, w)[i] = w[i + Len(w) - n]
  <2>1. /\ Last(n, w) \in Seq(Lines)
        /\ Len(Last(n, w)) = IF Len(w) <= n THEN Len(w) ELSE n
        /\ \A i \in 1 .. Len(Last(n, w)) : Last(n, w)[i] = w[i + Len(w) - Len(Last(n, w))]
    BY LastProperties
  <2>2. Len(Last(n, w)) = n
    BY <1>0, <2>1
  <2> QED BY <2>1, <2>2
<1>3. ASSUME NEW i \in 1 .. n PROVE s[i + Len(s) - n] = w[i + Len(w) - n]
  <2>1. n + 1 - i \in 1 .. n
    OBVIOUS
  <2>2. s[Len(s) + 1 - (n + 1 - i)] = w[Len(w) + 1 - (n + 1 - i)]
    BY <2>1 DEF Agree
  <2>3. /\ Len(s) + 1 - (n + 1 - i) = i + Len(s) - n
        /\ Len(w) + 1 - (n + 1 - i) = i + Len(w) - n
    OBVIOUS
  <2> QED BY <2>2, <2>3
<1> QED BY <1>1, <1>2, <1>3, SeqEqual

-----------------------------------------------------------------------------
\* Nothing is written yet, and nothing is lost.
LEMMA HealedInitial == LogInit => Healed
BY DEF LogInit, Healed, InLog, Agree

\* Every step of log keeps Healed.  A call that starts alone finds what the
\* last one left; one that overlaps another has nothing to keep.
LEMMA HealedInductive ==
  ASSUME LogType, Healed, NEW t \in Threads, LogStep(t)
  PROVE  Healed'
<1> USE MaxLinesAssumption
<1>0. clean \in 0 .. MaxLines /\ logs \in Seq(Lines) /\ written \in Seq(Lines)
  BY DEF LogType
<1>1. CASE Load(t)
  <2>1. InLog' = InLog \cup {t}
    BY <1>1 DEF Load, InLog, LogType
  <2>2. CASE InLog = {}
    <3>1. InLog' = {t} /\ t \notin stale' /\ logging'[t] = "loaded"
      BY <1>1, <2>1, <2>2 DEF Load, LogType
    <3>2. Agree(logs', written', clean')
      BY <1>1, <2>2 DEF Load, Healed
    <3> QED BY <3>1, <3>2 DEF Healed
  <2>3. CASE InLog # {}
    <3>1. InLog' \subseteq overlapped' /\ InLog' # {}
      BY <1>1, <2>1, <2>3 DEF Load
    <3> QED BY <3>1 DEF Healed
  <2> QED BY <2>2, <2>3
<1>2. CASE Slice(t)
  <2>1. InLog' = InLog /\ t \in InLog
    BY <1>2 DEF Slice, InLog, LogType
  <2>2. ASSUME NEW u \in InLog \ overlapped
        PROVE  u = t /\ InLog = {t} /\ Agree(copy'[t], written', OneMore') /\ logging'[t] = "sliced"
    <3>1. u = t /\ InLog = {t}
      BY <2>1 DEF Healed
    <3>2. Agree(logs, written, OneMore)
      BY <1>2, <3>1, <2>2 DEF Slice, Healed
    <3>3. OneMore \in 0 .. MaxLines /\ OneMore' = OneMore
      BY <1>0, <1>2 DEF OneMore, Slice
    <3>4. copy'[t] = Newest(logs) /\ written' = written /\ logging'[t] = "sliced"
      BY <1>2 DEF Slice, LogType
    <3> QED BY <1>0, <3>1, <3>2, <3>3, <3>4, AgreeNewest
  <2>3. overlapped' = overlapped
    BY <1>2 DEF Slice
  <2> QED BY <2>1, <2>2, <2>3 DEF Healed
<1>3. CASE Rebind(t)
  <2>1. InLog' = InLog \ {t} /\ t \in InLog /\ overlapped' = overlapped
    BY <1>3 DEF Rebind, InLog, LogType
  <2>2. CASE t \in overlapped
    <3>1. InLog \subseteq overlapped
      BY <2>1, <2>2 DEF Healed
    <3>2. clean' = 0 /\ logs' \in Seq(Lines) /\ written' \in Seq(Lines)
      BY <1>3, <2>2 DEF Rebind, LogType
    <3>3. Agree(logs', written', clean')
      BY <3>2 DEF Agree
    <3> QED BY <2>1, <3>1, <3>3 DEF Healed
  <2>3. CASE t \notin overlapped
    <3>1. InLog = {t} /\ Agree(copy[t], written, OneMore)
      BY <1>3, <2>1, <2>3 DEF Healed, Rebind
    <3>2. logs' = copy[t] /\ written' = written /\ clean' = OneMore
      BY <1>3, <2>3 DEF Rebind, OneMore
    <3> QED BY <2>1, <3>1, <3>2 DEF Healed
  <2> QED BY <2>2, <2>3
<1>4. ASSUME NEW line \in Lines, AppendLine(t, line) PROVE Healed'
  <2>1. InLog' = InLog /\ t \in InLog /\ overlapped' = overlapped
    BY <1>4 DEF AppendLine, InLog, LogType
  <2>2. ASSUME NEW u \in InLog \ overlapped
        PROVE  /\ u = t /\ InLog = {t} /\ logging'[t] = "appended"
               /\ Agree(logs', written', OneMore')
    <3>1. u = t /\ InLog = {t}
      BY <2>1 DEF Healed
    <3>2. t \notin stale /\ Agree(logs, written, clean)
      BY <1>4, <2>2, <3>1 DEF AppendLine, Healed
    <3>3. /\ logs' = Append(logs, line) /\ logging'[t] = "appended"
          /\ written' = Last(MaxLines, Append(written, line))
      BY <1>4, <3>2 DEF AppendLine, LogType
    <3>4. OneMore' = IF clean < MaxLines THEN clean + 1 ELSE MaxLines
      BY <1>4 DEF AppendLine, OneMore
    <3> QED BY <1>0, <3>1, <3>2, <3>3, <3>4, AgreeAppend
  <2> QED BY <2>1, <2>2 DEF Healed
<1> QED BY <1>1, <1>2, <1>3, <1>4 DEF LogStep

\* When nobody is logging, what was written since the last overlap is there.
LEMMA HealedHolds == LogType /\ Healed => OnlyOverlapsLose
<1> SUFFICES ASSUME LogType, Healed, InLog = {} PROVE Last(clean, logs) = Last(clean, written)
  BY DEF OnlyOverlapsLose
<1>1. Agree(logs, written, clean)
  BY DEF Healed
<1> QED BY <1>1, AgreeLast, MaxLinesAssumption DEF LogType

-----------------------------------------------------------------------------
Called == \A t \in Threads : pc[t] = "callback" => attempt[t] > 0

LogInv == LogType /\ Room /\ Healed

-----------------------------------------------------------------------------
\* The limits of the retry managers are numbers within MaxCount.
LEMMA LimitBound ==
  /\ MaxCount \in Nat
  /\ \A t \in Threads : Limit(t) \in Nat /\ Limit(t) <= MaxCount
BY AttemptsAssumption, SpikeAssumption DEF MaxCount, Limit

\* A request that logs nothing keeps what is known of the log.
LEMMA LogUntouched ==
  ASSUME LogInv, UNCHANGED logVars
  PROVE  LogInv'
<1>1. LogType'
  BY DEF LogInv, LogType, logVars
<1>2. Room'
  BY DEF LogInv, Room, Past, logVars
<1>3. Healed'
  <2>1. InLog' = InLog /\ OneMore' = OneMore
    BY DEF InLog, OneMore, logVars
  <2> QED BY <2>1 DEF LogInv, Healed, logVars
<1> QED BY <1>1, <1>2, <1>3 DEF LogInv

\* The log's invariants hold in every step of the requests.
LEMMA LogInductive == LogInv /\ [Next]_vars => LogInv'
<1> SUFFICES ASSUME LogInv, [Next]_vars PROVE LogInv'
  OBVIOUS
<1>1. ASSUME NEW t \in Threads, Log(t) PROVE LogInv'
  <2>1. LogStep(t)
    BY <1>1 DEF Log, LogStep
  <2> QED BY <2>1, LogTypeInductive, RoomInductive, HealedInductive DEF LogInv
<1>2. ASSUME NEW t \in Threads, ~Log(t),
             \/ Unlock(t) \/ Handle(t) \/ Return(t) \/ BookCall(t) \/ Attempt(t)
             \/ SimulateCall(t) \/ FlakyOperation(t)
             \/ Retry(t) \/ OnRetry(t) \/ GiveUp(t) \/ Blocked(t) \/ Succeeded(t)
      PROVE  UNCHANGED logVars
  BY <1>2 DEF Unlock, Handle, Return, BookCall, Attempt, SimulateCall, FlakyOperation,
              Retry, OnRetry, GiveUp, Blocked, Succeeded, Goto
<1>3. CASE UNCHANGED vars
  BY <1>3, LogUntouched DEF vars
<1> QED BY <1>1, <1>2, <1>3, LogUntouched DEF Next

-----------------------------------------------------------------------------
\* The initial state is typed, and its log in order.
LEMMA RequestsInitial == Init => TypeOK /\ LogInv /\ Called /\ RetryingIsUnderWay
<1> SUFFICES ASSUME Init PROVE TypeOK /\ LogInv /\ Called /\ RetryingIsUnderWay
  OBVIOUS
<1>1. LogInv
  BY LogTypeInitial, RoomInitial, HealedInitial DEF Init, LogInv
<1>2. TypeOK
  BY <1>1, LimitBound DEF Init, TypeOK, LogInv, RetryStatus
<1> QED BY <1>1, <1>2 DEF Init, Called, RetryingIsUnderWay

\* Going on keeps a thread's place and the lines it owes within their types.
LEMMA GotoType ==
  ASSUME TypeOK, NEW t \in Threads, NEW n \in 0 .. 3,
         NEW there \in {"idle", "attempt", "flaky", "won", "failed", "blocked",
                        "callback", "ending"},
         Goto(t, there, n)
  PROVE  /\ pc' \in [Threads -> {"idle", "attempt", "flaky", "won", "failed", "blocked",
                                 "callback", "ending"}]
         /\ owes' \in [Threads -> 0 .. 3]
BY DEF Goto, TypeOK

\* Every step keeps every variable within its type.
LEMMA RequestsType == TypeOK /\ LogInv /\ [Next]_vars => TypeOK'
<1> SUFFICES ASSUME TypeOK, LogInv, [Next]_vars PROVE TypeOK'
  OBVIOUS
<1>0. LogType'
  BY LogInductive DEF LogInv
<1> USE LimitBound
<1>1. ASSUME NEW t \in Threads, Log(t) PROVE TypeOK'
  BY <1>0, <1>1 DEF Log, TypeOK
<1>2. ASSUME NEW t \in Threads, Unlock(t) PROVE TypeOK'
  BY <1>0, <1>2 DEF Unlock, TypeOK
<1>3. ASSUME NEW t \in Threads, Handle(t) PROVE TypeOK'
  <2>1. Goto(t, "ending", 1)
    BY <1>3 DEF Handle
  <2> QED BY <1>0, <1>3, <2>1, GotoType DEF Handle, TypeOK
<1>4. ASSUME NEW t \in Threads, Return(t) PROVE TypeOK'
  <2>1. Goto(t, "idle", 0)
    BY <1>4 DEF Return
  <2> QED BY <1>0, <1>4, <2>1, GotoType DEF Return, TypeOK
<1>5. ASSUME NEW t \in Threads, BookCall(t) PROVE TypeOK'
  <2>1. Goto(t, "attempt", 0)
    BY <1>5 DEF BookCall
  <2> QED BY <1>0, <1>5, <2>1, GotoType DEF BookCall, TypeOK
<1>6. ASSUME NEW t \in Threads, Attempt(t) PROVE TypeOK'
  <2>1. \E there \in {"won", "failed", "blocked"}, n \in 0 .. 1 : Goto(t, there, n)
    BY <1>6 DEF Attempt
  <2>2. /\ pc' \in [Threads -> {"idle", "attempt", "flaky", "won", "failed", "blocked",
                                "callback", "ending"}]
        /\ owes' \in [Threads -> 0 .. 3]
    BY <2>1, GotoType
  <2> QED BY <1>0, <1>6, <2>2 DEF Attempt, TypeOK
<1>7. ASSUME NEW t \in Threads, SimulateCall(t) PROVE TypeOK'
  <2>1. Goto(t, "flaky", 0)
    BY <1>7 DEF SimulateCall
  <2> QED BY <1>0, <1>7, <2>1, GotoType DEF SimulateCall, TypeOK
<1>8. ASSUME NEW t \in Threads, FlakyOperation(t) PROVE TypeOK'
  <2>1. \E there \in {"won", "failed"} : Goto(t, there, 0)
    BY <1>8 DEF FlakyOperation
  <2>2. /\ pc' \in [Threads -> {"idle", "attempt", "flaky", "won", "failed", "blocked",
                                "callback", "ending"}]
        /\ owes' \in [Threads -> 0 .. 3]
    BY <2>1, GotoType
  <2> QED BY <1>0, <1>8, <2>2 DEF FlakyOperation, TypeOK
<1>9. ASSUME NEW t \in Threads, Retry(t) PROVE TypeOK'
  <2>1. Goto(t, "callback", 1)
    BY <1>9 DEF Retry
  <2>2. attempt[t] + 1 \in 0 .. MaxCount
    BY <1>9 DEF Retry, TypeOK
  <2> QED BY <1>0, <1>9, <2>1, <2>2, GotoType DEF Retry, TypeOK
<1>10. ASSUME NEW t \in Threads, OnRetry(t) PROVE TypeOK'
  <2>1. \E there \in {"flaky", "attempt"} : Goto(t, there, 1)
    BY <1>10 DEF OnRetry
  <2>2. /\ pc' \in [Threads -> {"idle", "attempt", "flaky", "won", "failed", "blocked",
                                "callback", "ending"}]
        /\ owes' \in [Threads -> 0 .. 3]
    BY <2>1, GotoType
  <2>3. retryStatus' \in RetryStatus
    BY <1>10 DEF OnRetry, TypeOK, RetryStatus
  <2> QED BY <1>0, <1>10, <2>2, <2>3 DEF OnRetry, TypeOK
<1>11. ASSUME NEW t \in Threads, GiveUp(t) PROVE TypeOK'
  <2>1. Goto(t, "ending", 3)
    BY <1>11 DEF GiveUp
  <2>2. retryStatus' \in RetryStatus
    BY <1>11 DEF GiveUp, TypeOK, RetryStatus
  <2> QED BY <1>0, <1>11, <2>1, <2>2, GotoType DEF GiveUp, TypeOK
<1>12. ASSUME NEW t \in Threads, Blocked(t) PROVE TypeOK'
  <2>1. Goto(t, "ending", 1)
    BY <1>12 DEF Blocked
  <2>2. retryStatus' \in RetryStatus
    BY <1>12 DEF Blocked, TypeOK, RetryStatus
  <2> QED BY <1>0, <1>12, <2>1, <2>2, GotoType DEF Blocked, TypeOK
<1>13. ASSUME NEW t \in Threads, Succeeded(t) PROVE TypeOK'
  <2>1. Goto(t, "idle", 0)
    BY <1>13 DEF Succeeded
  <2>2. retryStatus' \in RetryStatus
    BY <1>13 DEF Succeeded, TypeOK, RetryStatus
  <2> QED BY <1>0, <1>13, <2>1, <2>2, GotoType DEF Succeeded, TypeOK
<1>14. CASE UNCHANGED vars
  BY <1>0, <1>14 DEF vars, requestVars, TypeOK
<1> QED BY <1>1, <1>2, <1>3, <1>4, <1>5, <1>6, <1>7, <1>8, <1>9, <1>10, <1>11, <1>12,
           <1>13, <1>14 DEF Next

-----------------------------------------------------------------------------
\* A callback comes after a failed attempt, and the panel tells of a booking
\* under way.
LEMMA RetryingInductive ==
  TypeOK /\ Called /\ RetryingIsUnderWay /\ [Next]_vars => Called' /\ RetryingIsUnderWay'
<1> SUFFICES ASSUME TypeOK, Called, RetryingIsUnderWay, [Next]_vars
             PROVE  Called' /\ RetryingIsUnderWay'
  OBVIOUS
<1>0. attempt \in [Threads -> Nat]
  BY LimitBound DEF TypeOK
<1> USE <1>0
<1>1. ASSUME NEW t \in Threads, Log(t) \/ Unlock(t) PROVE Called' /\ RetryingIsUnderWay'
  BY <1>1 DEF Log, Unlock, Called, RetryingIsUnderWay
<1>2. ASSUME NEW t \in Threads, Handle(t) \/ Return(t) PROVE Called' /\ RetryingIsUnderWay'
  <2>1. /\ pc[t] \in {"idle", "ending"}
        /\ \E there \in {"idle", "ending"} : pc' = [pc EXCEPT ![t] = there]
        /\ UNCHANGED <<attempt, simulating, retryStatus>>
    BY <1>2 DEF Handle, Return, At, Goto
  <2> QED BY <2>1 DEF Called, RetryingIsUnderWay, TypeOK
<1>3. ASSUME NEW t \in Threads, BookCall(t) \/ SimulateCall(t)
      PROVE  Called' /\ RetryingIsUnderWay'
  <2>1. /\ pc[t] = "idle" /\ \E there \in {"attempt", "flaky"} : pc' = [pc EXCEPT ![t] = there]
        /\ attempt' = [attempt EXCEPT ![t] = 0] /\ UNCHANGED retryStatus
        /\ \A u \in Threads \ {t} : u \in simulating' <=> u \in simulating
    BY <1>3 DEF BookCall, SimulateCall, At, Goto
  <2>2. Called'
    BY <2>1 DEF Called, TypeOK
  <2>3. \A u \in Threads \ {t} : pc'[u] = pc[u] /\ attempt'[u] = attempt[u]
    BY <2>1 DEF TypeOK
  <2>4. RetryingIsUnderWay'
    <3> SUFFICES ASSUME retryStatus.status = "Retrying"
                 PROVE  \E u \in Threads \ simulating' :
                          attempt'[u] > 0 /\ pc'[u] \notin {"idle", "ending"}
      BY <2>1 DEF RetryingIsUnderWay
    <3>1. PICK u \in Threads \ simulating : attempt[u] > 0 /\ pc[u] \notin {"idle", "ending"}
      BY DEF RetryingIsUnderWay
    <3>2. u # t
      BY <2>1, <3>1
    <3> QED BY <2>1, <2>3, <3>1, <3>2
  <2> QED BY <2>2, <2>4
<1>4. ASSUME NEW t \in Threads, Attempt(t) \/ FlakyOperation(t)
      PROVE  Called' /\ RetryingIsUnderWay'
  <2>1. /\ \E there \in {"won", "failed", "blocked"} : pc' = [pc EXCEPT ![t] = there]
        /\ UNCHANGED <<attempt, simulating, retryStatus>>
    BY <1>4 DEF Attempt, FlakyOperation, Goto
  <2> QED BY <2>1 DEF Called, RetryingIsUnderWay, TypeOK
<1>5. ASSUME NEW t \in Threads, Retry(t) PROVE Called' /\ RetryingIsUnderWay'
  BY <1>5 DEF Retry, At, Goto, Called, RetryingIsUnderWay, TypeOK
<1>6. ASSUME NEW t \in Threads, OnRetry(t) PROVE Called' /\ RetryingIsUnderWay'
  <2>1. attempt[t] > 0 /\ UNCHANGED <<attempt, simulating>>
    BY <1>6 DEF OnRetry, At, Called
  <2>2. \E there \in {"flaky", "attempt"} : pc' = [pc EXCEPT ![t] = there]
    BY <1>6 DEF OnRetry, Goto
  <2>3. Called'
    BY <2>1, <2>2 DEF Called, TypeOK
  <2>4. CASE t \in simulating
    <3>1. UNCHANGED retryStatus
      BY <1>6, <2>4 DEF OnRetry
    <3>2. \A u \in Threads \ {t} : pc'[u] = pc[u]
      BY <2>2 DEF TypeOK
    <3> QED BY <2>1, <2>3, <2>4, <3>1, <3>2 DEF RetryingIsUnderWay
  <2>5. CASE t \notin simulating
    <3>1. pc'[t] \notin {"idle", "ending"} /\ attempt'[t] > 0 /\ t \in Threads \ simulating'
      BY <2>1, <2>2, <2>5 DEF TypeOK
    <3> QED BY <2>3, <3>1 DEF RetryingIsUnderWay
  <2> QED BY <2>3, <2>4, <2>5
<1>7. ASSUME NEW t \in Threads, GiveUp(t) \/ Blocked(t) \/ Succeeded(t)
      PROVE  Called' /\ RetryingIsUnderWay'
  <2>1. \E there \in {"idle", "ending"} : pc' = [pc EXCEPT ![t] = there]
    BY <1>7 DEF GiveUp, Blocked, Succeeded, Goto
  <2>2. UNCHANGED attempt
    BY <1>7 DEF GiveUp, Blocked, Succeeded
  <2>3. retryStatus'.status # "Retrying"
    <3>1. CASE GiveUp(t)
      BY <3>1 DEF GiveUp, TypeOK, RetryStatus
    <3>2. CASE Blocked(t)
      BY <3>2 DEF Blocked, TypeOK, RetryStatus
    <3>3. CASE Succeeded(t)
      BY <3>3 DEF Succeeded
    <3> QED BY <1>7, <3>1, <3>2, <3>3
  <2>4. Called'
    BY <2>1, <2>2 DEF Called, TypeOK
  <2> QED BY <2>3, <2>4 DEF RetryingIsUnderWay
<1>8. CASE UNCHANGED vars
  BY <1>8 DEF vars, requestVars, Called, RetryingIsUnderWay
<1> QED BY <1>1, <1>2, <1>3, <1>4, <1>5, <1>6, <1>7, <1>8 DEF Next

-----------------------------------------------------------------------------
\* The panel says "Retrying" only while a booking that failed goes on: every
\* reachable state of the requests is typed and satisfies RetryingIsUnderWay.
THEOREM RequestsRetrying == Spec => [](TypeOK /\ RetryingIsUnderWay)
<1> DEFINE IInv == TypeOK /\ LogInv /\ Called /\ RetryingIsUnderWay
<1>1. Init => IInv
  BY RequestsInitial
<1>2. IInv /\ [Next]_vars => IInv'
  BY RequestsType, LogInductive, RetryingInductive
<1>3. IInv => TypeOK /\ RetryingIsUnderWay
  OBVIOUS
<1> QED BY <1>1, <1>2, <1>3, PTL DEF Spec

\* The log of log() stays within its limit and the lines of the calls under
\* way: LogBounded is invariant.
THEOREM RequestsLogBounded == Spec => []LogBounded
<1>1. Init => LogInv
  BY RequestsInitial
<1>2. LogInv /\ [Next]_vars => LogInv'
  BY LogInductive
<1>3. LogInv => LogBounded
  BY RoomBounds DEF LogInv
<1> QED BY <1>1, <1>2, <1>3, PTL DEF Spec

\* Only calls of log() that overlap lose lines: OnlyOverlapsLose is invariant.
THEOREM RequestsOnlyOverlapsLose == Spec => []OnlyOverlapsLose
<1>1. Init => LogInv
  BY RequestsInitial
<1>2. LogInv /\ [Next]_vars => LogInv'
  BY LogInductive
<1>3. LogInv => OnlyOverlapsLose
  BY HealedHolds DEF LogInv
<1> QED BY <1>1, <1>2, <1>3, PTL DEF Spec
===============================================================================

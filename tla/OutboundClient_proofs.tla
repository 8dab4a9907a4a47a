------------------------ MODULE OutboundClient_proofs ------------------------
(***************************************************************************)
(* Proofs about OutboundClient, for any number of callers and any          *)
(* configuration of the breaker and the client.                            *)
(***************************************************************************)
EXTENDS OutboundClient, TLAPS

\* The last failure is as late as the opening of an open breaker, and one that
\* is not open was opened OpenTimeout ago at least, or never.
ClockInv ==
    /\ sinceFailure \in 0..OpenTimeout
    /\ sinceOpened \in 0..OpenTimeout
    /\ state = "open" => sinceFailure <= sinceOpened
    /\ state # "open" => sinceOpened = OpenTimeout

\* Asking, recording and waiting keep it, and so does every other step.
LEMMA ClockStep == ClockInv /\ [Next]_vars => ClockInv'
<1> SUFFICES ASSUME ClockInv, [Next]_vars PROVE ClockInv'
  OBVIOUS
<1> USE BreakerAssumption DEF ClockInv
<1>1. CASE Allow
  BY <1>1 DEF Allow, Allows, transition
<1>2. CASE RecordSuccess
  BY <1>2 DEF RecordSuccess, transition, counters
<1>3. CASE RecordFailure
  <2>1. CASE state = "closed" /\ CountFailure(MaxFailures)
    BY <1>3, <2>1 DEF RecordFailure, CountFailure, transition
  <2>2. CASE state = "open" /\ UNCHANGED <<state, counters, sinceOpened>>
    BY <1>3, <2>2 DEF RecordFailure
  <2>3. CASE state = "half-open" /\ transition("open")
    BY <1>3, <2>3 DEF RecordFailure, transition
  <2> QED BY <1>3, <2>1, <2>2, <2>3 DEF RecordFailure
<1>4. CASE Wait
  BY <1>4 DEF Wait, Later
<1>5. CASE UNCHANGED breaker
  BY <1>5 DEF breaker
<1> QED
  BY <1>1, <1>2, <1>3, <1>4, <1>5
  DEF Next, Proceed, vars, Call, AskBreaker, Answer, Record, Failed, Succeeded, BackOff, Cancel,
      Tick, Server

-----------------------------------------------------------------------------
Outcomes == [answer : Answers, as : {"failure", "success"}]

LEMMA BreakerTypeStep == BreakerTypeOK /\ [Next]_vars => BreakerTypeOK'
<1> SUFFICES ASSUME BreakerTypeOK, [Next]_vars PROVE BreakerTypeOK'
  OBVIOUS
<1> USE BreakerAssumption DEF BreakerTypeOK
<1>1. CASE Allow
  BY <1>1 DEF Allow, transition, counters
<1>2. CASE RecordSuccess
  BY <1>2 DEF RecordSuccess, transition, counters
<1>3. CASE RecordFailure
  BY <1>3 DEF RecordFailure, CountFailure, transition, counters
<1>4. CASE Wait
  BY <1>4 DEF Wait, Later, counters
<1>5. CASE UNCHANGED breaker
  BY <1>5 DEF breaker, counters
<1> QED
  BY <1>1, <1>2, <1>3, <1>4, <1>5
  DEF Next, Proceed, vars, Call, AskBreaker, Answer, Record, Failed, Succeeded, BackOff, Cancel,
      Tick, Server

LEMMA LoggedTyped ==
    ASSUME history \in Seq(Outcomes), NEW a \in Answers, NEW as \in {"failure", "success"},
           Logged(a, as)
    PROVE  history' \in Seq(Outcomes)
<1>1. [answer |-> a, as |-> as] \in Outcomes
  BY DEF Outcomes
<1> DEFINE longer == Append(history, [answer |-> a, as |-> as])
<1>2. longer \in Seq(Outcomes) /\ longer # << >>
  BY <1>1
<1>3. Tail(longer) \in Seq(Outcomes)
  BY <1>2
<1> QED BY <1>2, <1>3 DEF Logged

LEMMA ClientTypeStep == TypeOK /\ [Next]_vars => TypeOK'
<1> SUFFICES ASSUME TypeOK, [Next]_vars PROVE TypeOK'
  OBVIOUS
<1>0. BreakerTypeOK'
  BY BreakerTypeStep DEF TypeOK
<1> USE <1>0, ClientAssumption
<1>1. ASSUME NEW c \in Callers, Call(c) PROVE TypeOK'
  BY <1>1 DEF TypeOK, Call, Goto, Answers
<1>2. ASSUME NEW c \in Callers, AskBreaker(c) PROVE TypeOK'
  BY <1>2 DEF TypeOK, AskBreaker, Goto
<1>3. ASSUME NEW c \in Callers, Answer(c) PROVE TypeOK'
  <2>1. PICK a \in Answers : answer' = [answer EXCEPT ![c] = a]
    BY <1>3 DEF Answer, Answers
  <2> QED BY <1>3, <2>1 DEF TypeOK, Answer, Goto
<1>4. ASSUME NEW c \in Callers, Record(c) PROVE TypeOK'
  <2>1. answer[c] \in Answers /\ attempt[c] \in 0..MaxRetries
    BY DEF TypeOK
  <2>2. history' \in Seq([answer : Answers, as : {"failure", "success"}])
    BY <1>4, <2>1, LoggedTyped DEF TypeOK, Record, Failed, Succeeded, Outcomes
  <2>3. attempt' \in [Callers -> 0..MaxRetries]
    BY <1>4, <2>1 DEF TypeOK, Record, Failed, Succeeded, Retry, Return
  <2>4. pc' \in [Callers -> {"idle", "allow", "sent", "record", "backoff"}]
    BY <1>4 DEF TypeOK, Record, Failed, Succeeded, Retry, Return, Goto
  <2> QED BY <1>4, <2>2, <2>3, <2>4 DEF TypeOK, Record
<1>5. ASSUME NEW c \in Callers, BackOff(c) PROVE TypeOK'
  BY <1>5 DEF TypeOK, BackOff, Goto
<1>6. ASSUME NEW c \in Callers, Cancel(c) PROVE TypeOK'
  BY <1>6 DEF TypeOK, Cancel
<1>7. CASE Tick
  BY <1>7 DEF TypeOK, Tick, calls
<1>8. CASE Server
  BY <1>8 DEF TypeOK, Server, calls
<1>9. CASE UNCHANGED vars
  BY <1>9 DEF TypeOK, vars, calls
<1> QED
  BY <1>1, <1>2, <1>3, <1>4, <1>5, <1>6, <1>7, <1>8, <1>9 DEF Next, Proceed

\* Every variable keeps its type; a call makes at most MaxRetries + 1 attempts.
THEOREM ClientTypeCorrect == Spec => []TypeOK
<1>1. Init => TypeOK
  BY BreakerAssumption, ClientAssumption DEF Init, BreakerInit, TypeOK, BreakerTypeOK, Answers
<1> QED BY <1>1, ClientTypeStep, PTL DEF Spec

\* Once the breaker opens, no attempt goes out for OpenTimeout, whatever answers
\* come late.
THEOREM AlwaysFailsFast == Spec => FailsFast
<1>1. Init => ClockInv
  BY BreakerAssumption DEF Init, BreakerInit, ClockInv
<1>2. TypeOK /\ ClockInv /\ [Next]_vars =>
          \A c \in Callers : Admits(c) => sinceOpened >= OpenTimeout
  <2> SUFFICES ASSUME TypeOK, ClockInv, [Next]_vars,
                      NEW c \in Callers, pc[c] = "allow", pc'[c] = "sent"
               PROVE  sinceOpened >= OpenTimeout
    BY DEF Admits
  <2>1. ASSUME NEW d \in Callers, Call(d) \/ Proceed(d) \/ Cancel(d), d # c
        PROVE  pc'[c] = pc[c]
    BY <2>1 DEF TypeOK, Call, Proceed, AskBreaker, Answer, Record, Failed, Succeeded, Retry, Return,
                BackOff, Cancel, Goto
  <2>2. ~(Tick \/ Server \/ UNCHANGED vars)
    BY DEF Tick, Server, vars, calls
  <2>3. Call(c) \/ Proceed(c) \/ Cancel(c)
    BY <2>1, <2>2 DEF Next
  <2>4. AskBreaker(c)
    BY <2>3 DEF Call, Proceed, Answer, Record, BackOff, Cancel
  <2>5. Allows
    BY <2>4 DEF TypeOK, AskBreaker, Goto
  <2> QED BY <2>5, BreakerAssumption DEF Allows, ClockInv
<1> QED BY <1>1, <1>2, ClockStep, ClientTypeCorrect, PTL DEF Spec, FailsFast

-----------------------------------------------------------------------------
(***************************************************************************)
(* What the counters know of the outcomes recorded.                        *)
(***************************************************************************)
\* A closed breaker counts the failures at the end of the history, a half-open
\* one some of the successes there.
CountersInv ==
    /\ Len(history) <= Window
    /\ state = "closed" =>
        /\ MaxFailures > 0 => failures < MaxFailures
        /\ MaxFailures = 0 => failures = 0
        /\ LastRecorded(history, failures, "failure")
        /\ ~LastRecorded(history, failures + 1, "failure")
    /\ state = "half-open" =>
        /\ probes = 0 \/ probes < HalfOpenProbes
        /\ LastRecorded(history, probes, "success")

LEMMA WindowBounds ==
    Window \in Nat /\ Window >= 1 /\ Window >= MaxFailures /\ Window >= HalfOpenProbes
BY BreakerAssumption DEF Window, AtLeast

LEMMA FewerRecorded ==
    ASSUME NEW hist \in Seq(Outcomes), NEW n \in Nat, NEW m \in Nat, m <= n, NEW as,
           LastRecorded(hist, n, as)
    PROVE  LastRecorded(hist, m, as)
<1>1. Len(hist) \in Nat /\ Len(hist) >= m
  BY DEF LastRecorded
<1>2. ASSUME NEW i \in Len(hist) - m + 1..Len(hist) PROVE hist[i].as = as
  <2>1. i \in Len(hist) - n + 1..Len(hist)
    BY <1>1
  <2> QED
    BY <2>1 DEF LastRecorded
<1> QED
  BY <1>1, <1>2 DEF LastRecorded

\* A new outcome is the last one, and the others keep their distance to it.
LEMMA LoggedShape ==
    ASSUME history \in Seq(Outcomes), Len(history) <= Window,
           NEW a \in Answers, NEW as \in {"failure", "success"}, Logged(a, as)
    PROVE  /\ history' \in Seq(Outcomes)
           /\ Len(history') <= Window
           /\ Len(history') = IF Len(history) = Window THEN Window ELSE Len(history) + 1
           /\ history'[Len(history')].as = as
           /\ \A j \in 1..Len(history') - 1 :
                history'[Len(history') - j] = history[(Len(history) + 1) - j]
<1> DEFINE new == [answer |-> a, as |-> as]
           longer == Append(history, new)
           L == Len(history)
<1>0. L \in Nat /\ L <= Window /\ Window \in Nat /\ Window >= 1
  BY WindowBounds
<1>1. new \in Outcomes /\ new.as = as
  BY DEF Outcomes
<1>2. /\ longer \in Seq(Outcomes) /\ Len(longer) = L + 1 /\ longer # << >>
      /\ longer[L + 1] = new /\ \A i \in 1..L : longer[i] = history[i]
  BY <1>1
<1>3. history' = IF Len(longer) > Window THEN Tail(longer) ELSE longer
  BY DEF Logged
<1> HIDE DEF new, longer, L
<1>4. CASE L = Window
  <2>1. history' = Tail(longer)
    BY <1>0, <1>2, <1>3, <1>4
  <2>2. /\ history' \in Seq(Outcomes) /\ Len(history') = L
        /\ \A i \in 1..L : history'[i] = longer[i + 1]
    BY <1>0, <1>2, <2>1
  <2>3. history'[L] = new
    BY <1>0, <1>2, <1>4, <2>2
  <2>4. ASSUME NEW j \in 1..L - 1 PROVE history'[L - j] = history[(L + 1) - j]
    <3>1. L - j \in 1..L /\ (L - j) + 1 \in 1..L /\ (L - j) + 1 = (L + 1) - j
      BY <1>0
    <3> QED
      BY <1>2, <2>2, <3>1
  <2> QED
    BY <1>0, <1>1, <1>4, <2>2, <2>3, <2>4 DEF L
<1>5. CASE L < Window
  <2>1. history' = longer
    BY <1>0, <1>2, <1>3, <1>5
  <2>2. ASSUME NEW j \in 1..L PROVE history'[(L + 1) - j] = history[(L + 1) - j]
    <3>1. (L + 1) - j \in 1..L
      BY <1>0
    <3> QED
      BY <1>2, <2>1, <3>1
  <2>3. (L + 1) - 1 = L /\ L # Window /\ L + 1 <= Window
    BY <1>0, <1>5
  <2> QED
    BY <1>1, <1>2, <2>1, <2>2, <2>3 DEF L
<1>6. L = Window \/ L < Window
  BY <1>0
<1> QED
  BY <1>4, <1>5, <1>6

\* One more outcome of a kind, and none of the other, end the history.
LEMMA LoggedRecorded ==
    ASSUME history \in Seq(Outcomes), Len(history) <= Window,
           NEW a \in Answers, NEW as \in {"failure", "success"}, Logged(a, as), NEW n \in Nat
    PROVE  /\ n < Window /\ LastRecorded(history, n, as) => LastRecorded(history', n + 1, as)
           /\ \A kind : LastRecorded(history', n + 1, kind) =>
                kind = as /\ LastRecorded(history, n, kind)
           /\ LastRecorded(history', 0, as) /\ Len(history') <= Window
<1> DEFINE L == Len(history)
           M == Len(history')
<1>1. /\ history' \in Seq(Outcomes) /\ M \in Nat /\ L \in Nat /\ M <= Window
      /\ M = IF L = Window THEN Window ELSE L + 1
      /\ history'[M].as = as
      /\ \A j \in 1..M - 1 : history'[M - j] = history[(L + 1) - j]
  <2>1. L \in Nat
    OBVIOUS
  <2>2. history' \in Seq(Outcomes)
    BY LoggedShape
  <2>3. M \in Nat
    BY <2>2
  <2> QED BY <2>1, <2>2, <2>3, LoggedShape
<1> HIDE DEF L, M
<1>2. M >= 1 /\ Window \in Nat
  BY <1>1, WindowBounds
<1>3. ASSUME n < Window, LastRecorded(history, n, as) PROVE LastRecorded(history', n + 1, as)
  <2>1. n <= L /\ \A i \in (L - n) + 1..L : history[i].as = as
    BY <1>3 DEF LastRecorded, L
  <2>2. n + 1 <= M
    BY <1>1, <1>3, <2>1
  <2>3. ASSUME NEW i \in (M - (n + 1)) + 1..M PROVE history'[i].as = as
    <3>1. CASE i = M
      BY <1>1, <3>1
    <3>2. CASE i # M
      <4>1. M - i \in 1..M - 1 /\ (L + 1) - (M - i) \in (L - n) + 1..L /\ M - (M - i) = i
        BY <1>1, <2>1, <2>2, <3>2
      <4>2. history'[i] = history[(L + 1) - (M - i)]
        BY <1>1, <4>1
      <4> QED
        BY <2>1, <4>1, <4>2
    <3> QED
      BY <3>1, <3>2
  <2> QED
    BY <2>2, <2>3 DEF LastRecorded, M
<1>4. ASSUME NEW kind, LastRecorded(history', n + 1, kind)
      PROVE  kind = as /\ LastRecorded(history, n, kind)
  <2>1. n + 1 <= M /\ \A i \in (M - (n + 1)) + 1..M : history'[i].as = kind
    BY <1>4 DEF LastRecorded, M
  <2>2. M \in (M - (n + 1)) + 1..M
    BY <1>1, <1>2
  <2>3. n <= L
    BY <1>1, <2>1
  <2>4. ASSUME NEW i \in (L - n) + 1..L PROVE history[i].as = kind
    <3>1. (L + 1) - i \in 1..M - 1 /\ M - ((L + 1) - i) \in (M - (n + 1)) + 1..M
      BY <1>1, <2>1, <2>3
    <3>2. (L + 1) - ((L + 1) - i) = i
      BY <1>1
    <3> QED
      BY <1>1, <2>1, <3>1, <3>2
  <2> QED
    BY <1>1, <2>1, <2>2, <2>3, <2>4 DEF LastRecorded, L
<1>5. LastRecorded(history', 0, as)
  <2>1. M >= 0 /\ ~\E i \in (M - 0) + 1..M : TRUE
    BY <1>1
  <2> QED BY <2>1 DEF LastRecorded, M
<1> QED
  BY <1>1, <1>3, <1>4, <1>5 DEF M

LEMMA NoneRecorded == ASSUME NEW hist \in Seq(Outcomes), NEW as PROVE LastRecorded(hist, 0, as)
<1>1. Len(hist) \in Nat
  OBVIOUS
<1>2. Len(hist) >= 0 /\ ~\E i \in Len(hist) - 0 + 1..Len(hist) : TRUE
  BY <1>1
<1> QED BY <1>2 DEF LastRecorded

\* What TransitionsJustified says of a step.
Justified ==
    state' # state =>
        \/ state = "closed" /\ state' = "open" /\ LastRecorded(history', MaxFailures, "failure")
        \/ state = "open" /\ state' = "half-open"
        \/ state = "half-open" /\ state' = "open" /\ LastRecorded(history', 1, "failure")
        \/ /\ state = "half-open" /\ state' = "closed"
           /\ LastRecorded(history', HalfOpenProbes, "success")

LEMMA FailureCounted ==
    ASSUME TypeOK, CountersInv, NEW a \in Answers, RecordFailure, Logged(a, "failure")
    PROVE  CountersInv' /\ Justified
<1> USE BreakerAssumption
<1>0. /\ history \in Seq(Outcomes) /\ Len(history) <= Window
      /\ failures \in Nat /\ probes \in Nat
  BY DEF TypeOK, BreakerTypeOK, CountersInv, Outcomes
<1>1. ASSUME NEW n \in Nat, n < Window, LastRecorded(history, n, "failure")
      PROVE  LastRecorded(history', n + 1, "failure")
  BY <1>0, <1>1, LoggedRecorded
<1>2. ASSUME NEW n \in Nat, LastRecorded(history', n + 1, "failure")
      PROVE  LastRecorded(history, n, "failure")
  BY <1>0, <1>2, LoggedRecorded
<1>3. history' \in Seq(Outcomes) /\ Len(history') <= Window
  BY <1>0, LoggedShape
<1>4. CASE state = "closed" /\ CountFailure(MaxFailures)
  <2>1. failures < Window /\ LastRecorded(history', failures + 1, "failure")
    BY <1>0, <1>1, <1>4, WindowBounds DEF CountersInv
  <2>2. CASE failures + 1 >= MaxFailures /\ transition("open")
    <3>1. LastRecorded(history', MaxFailures, "failure")
      BY <1>0, <1>3, <2>1, <2>2, FewerRecorded
    <3> QED BY <1>3, <1>4, <2>2, <3>1 DEF CountersInv, Justified, transition
  <2>3. CASE failures + 1 < MaxFailures /\ failures' = failures + 1 /\ UNCHANGED state
    <3>1. ~LastRecorded(history', (failures + 1) + 1, "failure")
      BY <1>0, <1>2, <1>4 DEF CountersInv
    <3> QED BY <1>0, <1>3, <1>4, <2>1, <2>3, <3>1 DEF CountersInv, Justified
  <2> QED BY <1>4, <2>2, <2>3 DEF CountFailure
<1>5. CASE state = "open" /\ UNCHANGED state
  BY <1>3, <1>5 DEF CountersInv, Justified
<1>6. CASE state = "half-open" /\ transition("open")
  <2>1. LastRecorded(history', 0 + 1, "failure")
    BY <1>0, <1>1, NoneRecorded, WindowBounds
  <2> QED BY <1>3, <1>6, <2>1 DEF CountersInv, Justified, transition
<1> QED BY <1>4, <1>5, <1>6 DEF RecordFailure

LEMMA SuccessCounted ==
    ASSUME TypeOK, CountersInv, NEW a \in Answers, RecordSuccess, Logged(a, "success")
    PROVE  CountersInv' /\ Justified
<1> USE BreakerAssumption
<1>0. /\ history \in Seq(Outcomes) /\ Len(history) <= Window
      /\ failures \in Nat /\ probes \in Nat
  BY DEF TypeOK, BreakerTypeOK, CountersInv, Outcomes
<1>1. ASSUME NEW n \in Nat, n < Window, LastRecorded(history, n, "success")
      PROVE  LastRecorded(history', n + 1, "success")
  BY <1>0, <1>1, LoggedRecorded
<1>2. ~LastRecorded(history', 0 + 1, "failure")
  BY <1>0, LoggedRecorded
<1>3. history' \in Seq(Outcomes) /\ Len(history') <= Window
  BY <1>0, LoggedShape
<1>4. LastRecorded(history', 0, "failure")
  BY <1>3, NoneRecorded
<1>5. CASE state = "closed" /\ failures' = 0 /\ UNCHANGED state
  BY <1>2, <1>3, <1>4, <1>5 DEF CountersInv, Justified
<1>6. CASE state = "open" /\ UNCHANGED state
  BY <1>3, <1>6 DEF CountersInv, Justified
<1>7. CASE state = "half-open"
  <2>1. probes < Window /\ LastRecorded(history', probes + 1, "success")
    BY <1>0, <1>1, <1>7, WindowBounds DEF CountersInv
  <2>2. CASE probes + 1 >= HalfOpenProbes /\ transition("closed")
    <3>1. LastRecorded(history', HalfOpenProbes, "success")
      BY <1>0, <1>3, <2>1, <2>2, FewerRecorded
    <3> QED BY <1>2, <1>3, <1>4, <1>7, <2>2, <3>1 DEF CountersInv, Justified, transition
  <2>3. CASE probes + 1 < HalfOpenProbes /\ probes' = probes + 1 /\ UNCHANGED state
    BY <1>0, <1>3, <1>7, <2>1, <2>3 DEF CountersInv, Justified
  <2> QED BY <1>7, <2>2, <2>3, ZenonT(30) DEF RecordSuccess
<1> QED BY <1>5, <1>6, <1>7 DEF RecordSuccess

LEMMA CountersStep == TypeOK /\ CountersInv /\ [Next]_vars => CountersInv' /\ Justified
<1> SUFFICES ASSUME TypeOK, CountersInv, [Next]_vars PROVE CountersInv' /\ Justified
  OBVIOUS
<1>1. ASSUME UNCHANGED <<state, failures, probes, history>> PROVE CountersInv' /\ Justified
  BY <1>1 DEF CountersInv, Justified
<1>2. ASSUME NEW c \in Callers, AskBreaker(c) PROVE CountersInv' /\ Justified
  <2>1. history' = history /\ LastRecorded(history, 0, "success") /\ Allow
    BY <1>2, NoneRecorded DEF AskBreaker, TypeOK, Outcomes
  <2>2. CASE state = "open" /\ transition("half-open")
    BY <2>1, <2>2 DEF CountersInv, Justified, transition
  <2>3. CASE UNCHANGED <<state, counters>>
    BY <1>1, <2>1, <2>3 DEF counters
  <2> QED BY <2>1, <2>2, <2>3 DEF Allow
<1>3. ASSUME NEW c \in Callers, Record(c) PROVE CountersInv' /\ Justified
  BY <1>3, FailureCounted, SuccessCounted DEF Record, Failed, Succeeded, TypeOK
<1>4. ASSUME NEW c \in Callers, Call(c) \/ Answer(c) \/ BackOff(c) \/ Cancel(c)
      PROVE  UNCHANGED <<state, failures, probes, history>>
  BY <1>4 DEF Call, Answer, BackOff, Cancel, breaker, counters
<1>5. CASE Tick \/ Server \/ UNCHANGED vars
  BY <1>1, <1>5 DEF Tick, Wait, Server, vars, breaker, counters
<1> QED
  BY <1>1, <1>2, <1>3, <1>4, <1>5 DEF Next, Proceed

LEMMA CountersInvariant == Spec => []CountersInv
<1>1. Init => CountersInv
  <2> SUFFICES ASSUME Init PROVE CountersInv
    OBVIOUS
  <2>1. history = << >> /\ state = "closed" /\ failures = 0
    BY DEF Init, BreakerInit
  <2>2. << >> \in Seq(Outcomes)
    OBVIOUS
  <2>3. LastRecorded(history, 0, "failure") /\ ~LastRecorded(history, 0 + 1, "failure")
    BY <2>1, <2>2, NoneRecorded DEF LastRecorded
  <2> QED BY <2>1, <2>3, WindowBounds, BreakerAssumption DEF CountersInv
<1> QED BY <1>1, CountersStep, ClientTypeCorrect, PTL DEF Spec

\* A closed breaker has never been told of MaxFailures failures in a row: the
\* last of them tripped it, whichever callers reported them.
THEOREM AlwaysTripsInTime == Spec => []TripsInTime
<1>1. TypeOK /\ CountersInv => TripsInTime
  <2> SUFFICES ASSUME TypeOK, CountersInv, state = "closed", MaxFailures > 0,
                      LastRecorded(history, MaxFailures, "failure")
               PROVE  FALSE
    BY DEF TripsInTime
  <2>1. failures + 1 <= MaxFailures /\ failures + 1 \in Nat /\ history \in Seq(Outcomes)
    BY BreakerAssumption DEF TypeOK, BreakerTypeOK, CountersInv, Outcomes
  <2>2. LastRecorded(history, failures + 1, "failure")
    BY <2>1, FewerRecorded, BreakerAssumption
  <2> QED BY <2>2 DEF CountersInv
<1> QED BY <1>1, ClientTypeCorrect, CountersInvariant, PTL

\* Every transition of the breaker has the outcomes behind it that its
\* configuration asks for.
THEOREM TransitionsAreJustified == Spec => TransitionsJustified
<1>1. TypeOK /\ CountersInv /\ [Next]_vars => Justified
  BY CountersStep
<1> QED BY <1>1, ClientTypeCorrect, CountersInvariant, PTL DEF Spec, TransitionsJustified, Justified

-----------------------------------------------------------------------------
\* A caller that backs off has made an attempt, and has one left.
BackoffInv == \A c \in Callers : pc[c] = "backoff" => attempt[c] \in 1..MaxRetries

\* Every delay the loop computes fits a time.Duration.
FitsDuration == \A n \in 0..MaxRetries - 1 : BaseDelay * 2^n \in 0..2^(Width - 1) - 1

LEMMA BackoffStep == TypeOK /\ BackoffInv /\ [Next]_vars => BackoffInv'
<1> SUFFICES ASSUME TypeOK, BackoffInv, [Next]_vars, NEW c \in Callers, pc'[c] = "backoff"
             PROVE  attempt'[c] \in 1..MaxRetries
  BY DEF BackoffInv
<1> USE ClientAssumption DEF TypeOK, BackoffInv, Goto
<1>1. ASSUME NEW d \in Callers, Call(d) PROVE attempt'[c] \in 1..MaxRetries
  BY <1>1 DEF Call
<1>2. ASSUME NEW d \in Callers, Record(d) PROVE attempt'[c] \in 1..MaxRetries
  BY <1>2 DEF Record, Failed, Succeeded, Retry, Return
<1>3. ASSUME NEW d \in Callers, AskBreaker(d) \/ Answer(d) \/ BackOff(d) \/ Cancel(d)
      PROVE  attempt'[c] \in 1..MaxRetries
  BY <1>3 DEF AskBreaker, Answer, BackOff, Cancel
<1>4. CASE Tick \/ Server \/ UNCHANGED vars
  BY <1>4 DEF Tick, Server, vars, calls
<1> QED BY <1>1, <1>2, <1>3, <1>4 DEF Next, Proceed

\* Where no delay of the configuration overflows, every delay is drawn below a
\* ceiling that rand.Int63n accepts and maxDelay bounds.
THEOREM DelaysStayBounded == ASSUME FitsDuration PROVE Spec => []DelaysBounded
<1>1. Init => BackoffInv
  BY DEF Init, BackoffInv
<1>2. TypeOK /\ BackoffInv => DelaysBounded
  <2> SUFFICES ASSUME BackoffInv, NEW c \in Callers, pc[c] = "backoff",
                      NEW d \in Ceilings(attempt[c] - 1)
               PROVE  d \in 0..MaxDelay
    BY DEF DelaysBounded
  <2> DEFINE n == attempt[c] - 1
             exact == BaseDelay * 2^n
             limit == 2^(Width - 1)
  <2>1. n \in 0..MaxRetries - 1
    BY ClientAssumption DEF BackoffInv
  <2>2. exact \in 0..limit - 1
    BY <2>1 DEF FitsDuration
  <2>3. MaxDelay \in Nat
    BY DelayAssumption
  <2>4. AsDuration(n) = {exact}
    <3>1. limit \in Int
      BY DelayAssumption
    <3> QED BY <2>2, <3>1 DEF AsDuration
  <2>5. d = IF exact > MaxDelay THEN MaxDelay ELSE exact
    BY <2>4 DEF Ceilings
  <2> QED BY <2>2, <2>3, <2>5
<1> QED BY <1>1, <1>2, BackoffStep, ClientTypeCorrect, PTL DEF Spec
=============================================================================

------------------------ MODULE ServiceProcess_proofs ------------------------
(***************************************************************************)
(* Theorems about ServiceProcess, for any number of clients: its safety    *)
(* invariants from the inductive invariant ServiceInv, and that it         *)
(* implements GracefulService.                                             *)
(***************************************************************************)
EXTENDS ServiceProcess, TLAPS

ElementsOf(s) == {s[i] : i \in 1..Len(s)}

\* What a program opens.
ResourcesOf(k) ==
    IF k = "server" THEN {"tracing", "postgres", "producer", "clickhouse"} ELSE Resources

LEMMA HeadAndTail ==
  ASSUME NEW S, NEW s \in Seq(S), s # << >>
  PROVE  /\ Head(s) \in S /\ Tail(s) \in Seq(S)
         /\ Head(s) \in ElementsOf(s)
         /\ ElementsOf(s) = {Head(s)} \cup ElementsOf(Tail(s))
<1>1. Head(s) \in S /\ Tail(s) \in Seq(S) /\ Len(s) \in Nat \ {0} /\ Len(Tail(s)) = Len(s) - 1
  OBVIOUS
<1>2. Head(s) = s[1] /\ \A i \in 1..Len(s) - 1 : Tail(s)[i] = s[i + 1]
  OBVIOUS
<1>3. ASSUME NEW x \in ElementsOf(s) PROVE x = Head(s) \/ x \in ElementsOf(Tail(s))
  <2>1. PICK i \in 1..Len(s) : x = s[i]
    BY DEF ElementsOf
  <2>2. CASE i = 1
    BY <2>1, <2>2, <1>2
  <2>3. CASE i # 1
    <3>1. i - 1 \in 1..Len(Tail(s)) /\ Tail(s)[i - 1] = s[i]
      BY <1>1, <1>2, <2>3
    <3> QED
      BY <2>1, <3>1 DEF ElementsOf
  <2> QED
    BY <2>2, <2>3
<1>4. ASSUME NEW x \in ElementsOf(Tail(s)) PROVE x \in ElementsOf(s)
  <2>1. PICK i \in 1..Len(Tail(s)) : x = Tail(s)[i]
    BY DEF ElementsOf
  <2>2. i + 1 \in 1..Len(s) /\ s[i + 1] = x
    BY <1>1, <1>2, <2>1
  <2> QED
    BY <2>2 DEF ElementsOf
<1>5. Head(s) \in ElementsOf(s)
  BY <1>1, <1>2 DEF ElementsOf
<1> QED
  BY <1>1, <1>3, <1>4, <1>5

LEMMA Reversed ==
  ASSUME NEW S, NEW s \in Seq(S)
  PROVE  Reverse(s) \in Seq(S) /\ ElementsOf(Reverse(s)) = ElementsOf(s)
<1>1. Len(s) \in Nat /\ Reverse(s) = [i \in 1..Len(s) |-> s[(Len(s) - i) + 1]]
  BY DEF Reverse
<1>2. Reverse(s) \in Seq(S) /\ Len(Reverse(s)) = Len(s)
  BY <1>1
<1>3. ASSUME NEW i \in 1..Len(s)
      PROVE  (Len(s) - i) + 1 \in 1..Len(s) /\ Reverse(s)[(Len(s) - i) + 1] = s[i]
                /\ Reverse(s)[i] = s[(Len(s) - i) + 1]
  <2>1. (Len(s) - i) + 1 \in 1..Len(s) /\ (Len(s) - ((Len(s) - i) + 1)) + 1 = i
    BY <1>1
  <2> QED
    BY <1>1, <2>1
<1> QED
  BY <1>2, <1>3 DEF ElementsOf

\* The middleware gives every request a status, and counts it under that one
\* unless its panic was recovered.
LEMMA ChainAnswers ==
  ASSUME NEW out \in Handled
  PROVE  /\ Chain(out) \in Outcomes
         /\ Chain(out).status # 0
         /\ Chain(out).counted = IF Chain(out).recovered THEN {} ELSE {Chain(out).status}
<1> DEFINE Left(s, p, c, r) == [status |-> s, panics |-> p, counted |-> c, recovered |-> r]
<1>1. \/ \E s \in Statuses : out = Left(s, FALSE, {}, FALSE)
      \/ out = Left(0, TRUE, {}, FALSE) \/ out = Left(200, TRUE, {}, FALSE)
  BY DEF Handled
<1>2. ASSUME NEW s \in Statuses
      PROVE  Chain(Left(s, FALSE, {}, FALSE)) = Left(s, FALSE, {s}, FALSE)
  <2>1. Seen(Left(s, FALSE, {}, FALSE)) = s
    BY DEF Seen, Statuses
  <2>2. Logger(Left(s, FALSE, {}, FALSE)) = Left(s, FALSE, {s}, FALSE)
    BY <2>1 DEF Logger, Counted
  <2>3. Recover(Left(s, FALSE, {s}, FALSE)) = Left(s, FALSE, {s}, FALSE)
    BY DEF Recover
  <2> QED
    BY <2>2, <2>3 DEF Chain
<1>3. ASSUME NEW s \in {0, 200}
      PROVE  Chain(Left(s, TRUE, {}, FALSE)) = Left(IF s = 0 THEN 500 ELSE s, FALSE, {}, TRUE)
  <2>1. Logger(Left(s, TRUE, {}, FALSE)) = Left(s, TRUE, {}, FALSE)
    BY DEF Logger
  <2>2. Recover(Left(s, TRUE, {}, FALSE)) = Left(IF s = 0 THEN 500 ELSE s, FALSE, {}, TRUE)
    BY DEF Recover
  <2> QED
    BY <2>1, <2>2 DEF Chain
<1>4. CASE \E s \in Statuses : out = Left(s, FALSE, {}, FALSE)
  <2>1. PICK s \in Statuses : out = Left(s, FALSE, {}, FALSE)
    BY <1>4
  <2>2. Chain(out) = Left(s, FALSE, {s}, FALSE)
    BY <1>2, <2>1
  <2> QED
    BY <2>2 DEF Outcomes, Statuses
<1>5. CASE out = Left(0, TRUE, {}, FALSE)
  <2>1. Chain(out) = Left(500, FALSE, {}, TRUE)
    BY <1>3, <1>5
  <2> QED
    BY <2>1 DEF Outcomes, Statuses
<1>6. CASE out = Left(200, TRUE, {}, FALSE)
  <2>1. Chain(out) = Left(200, FALSE, {}, TRUE)
    BY <1>3, <1>6
  <2> QED
    BY <2>1 DEF Outcomes, Statuses
<1> QED
  BY <1>1, <1>4, <1>5, <1>6

-----------------------------------------------------------------------------
\* The orders of opening and closing name what a program opens, all of it.
LEMMA Orders ==
  ASSUME kind \in Kinds
  PROVE  /\ OpenOrder \in Seq(Resources) /\ ElementsOf(OpenOrder) = ResourcesOf(kind)
         /\ OpenOrder[1] = "tracing" /\ Len(OpenOrder) > 1
         /\ CloseOrder \in Seq(Resources) /\ ElementsOf(CloseOrder) = ResourcesOf(kind)
<1>1. CASE kind = "server"
  <2>1. /\ OpenOrder = <<"tracing", "postgres", "producer", "clickhouse">>
        /\ CloseOrder = <<"tracing", "clickhouse", "producer", "postgres">>
        /\ ResourcesOf(kind) = {"tracing", "postgres", "producer", "clickhouse"}
    BY <1>1 DEF OpenOrder, CloseOrder, ResourcesOf
  <2>2. 1..4 = {1, 2, 3, 4}
    OBVIOUS
  <2> QED
    BY <2>1, <2>2 DEF ElementsOf, Resources
<1>2. CASE kind = "worker"
  <2>1. /\ OpenOrder = <<"tracing", "postgres", "clickhouse", "producer", "events", "dlq">>
        /\ CloseOrder = <<"producer", "clickhouse", "postgres", "tracing", "dlq", "events">>
        /\ ResourcesOf(kind) = {"tracing", "postgres", "producer", "clickhouse", "events", "dlq"}
    BY <1>2 DEF OpenOrder, CloseOrder, ResourcesOf, Resources
  <2>2. 1..6 = {1, 2, 3, 4, 5, 6}
    OBVIOUS
  <2> QED
    BY <2>1, <2>2 DEF ElementsOf, Resources
<1> QED
  BY <1>1, <1>2 DEF Kinds

\* A failure closes what was opened, but for the tracer of a server.
LEMMA FailureCloses ==
  ASSUME kind \in Kinds, NEW opened \in Seq(Resources),
         opened # << >> => opened[1] = "tracing"
  PROVE  /\ AfterFailure(opened) \in Seq(Resources)
         /\ ElementsOf(opened) \subseteq
              ElementsOf(AfterFailure(opened)) \cup (IF kind = "server" THEN {"tracing"} ELSE {})
<1> DEFINE rest == Deferred(opened)
<1>1. rest \in Seq(Resources)
  BY DEF Deferred
<1>2. AfterFailure(opened) \in Seq(Resources) /\ ElementsOf(AfterFailure(opened)) = ElementsOf(rest)
  BY <1>1, Reversed DEF AfterFailure
<1>3. ASSUME kind = "server", NEW i \in 1..Len(opened), i # 1
      PROVE  opened[i] \in ElementsOf(rest)
  <2>1. rest = SubSeq(opened, 2, Len(opened))
    BY <1>3 DEF Deferred
  <2>2. i - 1 \in 1..Len(rest) /\ rest[i - 1] = opened[i]
    BY <1>3, <2>1
  <2> QED
    BY <2>2 DEF ElementsOf
<1>4. CASE kind = "server"
  <2>1. ASSUME NEW x \in ElementsOf(opened), x # "tracing"
        PROVE  x \in ElementsOf(rest)
    <3>1. PICK i \in 1..Len(opened) : x = opened[i]
      BY <2>1 DEF ElementsOf
    <3>2. i # 1
      BY <2>1, <3>1
    <3> QED
      BY <1>3, <1>4, <3>1, <3>2
  <2> QED
    BY <1>2, <1>4, <2>1
<1>5. CASE kind # "server"
  BY <1>2, <1>5 DEF Deferred
<1> QED
  BY <1>2, <1>4, <1>5

\* A client calls nothing that its program has not opened.
LEMMA PlansOpened ==
  ASSUME kind \in Kinds, NEW c \in Clients, NEW plan \in Plans(c)
  PROVE  plan \in Seq(ResourcesOf(kind))
<1> DEFINE R == ResourcesOf(kind)
<1>1. CASE kind = "server"
  <2>1. R = {"tracing", "postgres", "producer", "clickhouse"}
    BY <1>1 DEF ResourcesOf
  <2>2. /\ << >> \in Seq(R) /\ <<"postgres">> \in Seq(R) /\ <<"clickhouse">> \in Seq(R)
        /\ <<"postgres", "postgres", "producer", "postgres">> \in Seq(R)
    BY <2>1
  <2>3. plan = << >> \/ plan = <<"postgres">> \/ plan = <<"clickhouse">>
        \/ plan = <<"postgres", "postgres", "producer", "postgres">>
    BY <1>1 DEF Plans
  <2> HIDE DEF R
  <2>4. plan \in Seq(R)
    BY <2>2, <2>3, Zenon
  <2> QED
    BY <2>4 DEF R
<1>2. CASE kind = "worker"
  <2>1. R = {"tracing", "postgres", "producer", "clickhouse", "events", "dlq"}
    BY <1>2 DEF ResourcesOf, Resources
  <2>2. /\ <<"events", "postgres", "events">> \in Seq(R)
        /\ <<"events", "postgres", "postgres", "clickhouse", "postgres", "events">> \in Seq(R)
        /\ <<"dlq", "postgres", "dlq">> \in Seq(R)
    BY <2>1
  <2>3. ASSUME NEW updates \in 2..4 PROVE FailedAttempt(updates) \in Seq(R)
    <3>1. <<"events">> \in Seq(R) /\ <<"producer", "events">> \in Seq(R)
      BY <2>1
    <3>2. [i \in 1..updates |-> "postgres"] \in Seq(R)
      BY <2>1
    <3> HIDE DEF R
    <3> QED
      BY <3>1, <3>2 DEF FailedAttempt
  <2>4. \/ plan = <<"events", "postgres", "events">>
        \/ plan = <<"events", "postgres", "postgres", "clickhouse", "postgres", "events">>
        \/ plan = <<"dlq", "postgres", "dlq">>
        \/ \E updates \in 2..4 : plan = FailedAttempt(updates)
    BY <1>2 DEF Plans
  <2> HIDE DEF R
  <2>5. plan \in Seq(R)
    BY <2>2, <2>3, <2>4, Zenon
  <2> QED
    BY <2>5 DEF R
<1> QED
  BY <1>1, <1>2 DEF Kinds

-----------------------------------------------------------------------------
(***************************************************************************)
(* The inductive invariant.                                                *)
(***************************************************************************)
\* Until the program serves, what is open is what OpenOrder has before toOpen.
OpeningOK ==
    /\ phase = "loading" => open = {}
    /\ phase \in {"loading", "starting"} =>
        /\ Len(toOpen) <= Len(OpenOrder)
        /\ \A i \in 1..Len(toOpen) : toOpen[i] = OpenOrder[(Len(OpenOrder) - Len(toOpen)) + i]
        /\ open = {OpenOrder[i] : i \in 1..(Len(OpenOrder) - Len(toOpen))}

ServingOK == phase \in {"serving", "draining"} => open = ResourcesOf(kind)

\* What is open when the program stops is closed, or is left open by a failure.
LeftOpen == IF code = 0 THEN {} ELSE {"clickhouse"} \cup (IF kind = "server" THEN {"tracing"} ELSE {})

ClosingOK ==
    /\ phase \in {"stopping", "exited"} => open \subseteq ElementsOf(toClose) \cup LeftOpen
    /\ phase = "exited" => toClose = << >>

CallsOK ==
    /\ calls \in [Clients -> Seq(ResourcesOf(kind))]
    /\ \A c \in Clients : at[c] \in Resources => at[c] \in ResourcesOf(kind)

\* Whoever is still active when the program stops was given up.
ClientsOK ==
    /\ phase \in {"loading", "starting"} => \A c \in Clients : at[c] = "away"
    /\ phase # "exited" => \A c \in Clients : at[c] # "killed"
    /\ phase \in {"stopping", "exited"} =>
        \/ expired
        \/ broken /\ code = 1
        \/ \A c \in Clients : at[c] \in {"away", "done"}

\* The tracer is closed after the last span ended.
SpansOK ==
    phase \in {"stopping", "exited"} /\ ~expired /\ ~late /\ code = 0 =>
        "tracing" \in ElementsOf(toClose) \/ unexported = {}

AnsweredOK ==
    \A c \in Clients : kind = "server" /\ at[c] = "done" => outcome[c].status # 0

ServiceInv ==
    /\ TypeOK /\ OpeningOK /\ ServingOK /\ ClosingOK
    /\ CallsOK /\ ClientsOK /\ SpansOK /\ AnsweredOK
    /\ CountedAsSent /\ ClientsMeetNothingClosed

LEMMA InitInv == Init => ServiceInv
<1> SUFFICES ASSUME Init PROVE ServiceInv
  OBVIOUS
<1>1. OpenOrder \in Seq(Resources) /\ Len(OpenOrder) \in Nat
  BY Orders DEF Init
<1>2. TypeOK
  <2>1. NoOutcome \in Outcomes
    BY DEF NoOutcome, Outcomes
  <2>2. outcome \in [Clients -> Outcomes]
    BY <2>1 DEF Init
  <2>3. toOpen \in Seq(Resources) /\ toClose \in Seq(Resources)
    BY <1>1 DEF Init
  <2>4. << >> \in Seq(Resources)
    OBVIOUS
  <2>5. calls \in [Clients -> Seq(Resources)]
    BY <2>4 DEF Init
  <2> QED
    BY <2>2, <2>3, <2>5 DEF Init, TypeOK
<1>3. OpeningOK
  BY <1>1 DEF Init, OpeningOK
<1>4. ServingOK /\ ClosingOK /\ CallsOK /\ ClientsOK /\ SpansOK
  BY DEF Init, ServingOK, ClosingOK, CallsOK, ClientsOK, SpansOK, Resources
<1>5. AnsweredOK /\ CountedAsSent /\ ClientsMeetNothingClosed
  BY DEF Init, AnsweredOK, CountedAsSent, ClientsMeetNothingClosed, NoOutcome
<1> QED
  BY <1>2, <1>3, <1>4, <1>5 DEF ServiceInv

\* A program does not become another, so its orders stay what they are.
LEMMA SameProgram ==
  ASSUME [Next]_vars
  PROVE  kind' = kind /\ OpenOrder' = OpenOrder /\ CloseOrder' = CloseOrder
<1>1. kind' = kind
  BY DEF Next, Advance, Load, Open, Ready, StopServing, BreakOff, Drained, Expire, Close, Exit,
         Tell, Break, RunOut, Export, Exited, Running, Accept, Fetch, Return, Begin, EndCall,
         Finish, vars, program
<1> QED
  BY <1>1 DEF OpenOrder, CloseOrder

\* What the program opened before toOpen, and what is closed if the next fails.
LEMMA Opened ==
  ASSUME TypeOK, OpeningOK, phase = "starting"
  PROVE  LET opened == SubSeq(OpenOrder, 1, Len(OpenOrder) - Len(toOpen)) IN
         /\ opened \in Seq(Resources)
         /\ open = ElementsOf(opened)
         /\ AfterFailure(opened) \in Seq(Resources)
         /\ open \subseteq ElementsOf(AfterFailure(opened)) \cup
                             (IF kind = "server" THEN {"tracing"} ELSE {})
<1> DEFINE n == Len(OpenOrder) - Len(toOpen)
           opened == SubSeq(OpenOrder, 1, n)
<1>1. /\ OpenOrder \in Seq(Resources) /\ OpenOrder[1] = "tracing"
      /\ Len(OpenOrder) \in Nat /\ Len(toOpen) \in Nat /\ n \in 0..Len(OpenOrder)
  BY Orders DEF TypeOK, OpeningOK
<1>2. opened \in Seq(Resources) /\ Len(opened) = n /\ \A i \in 1..n : opened[i] = OpenOrder[i]
  BY <1>1
<1>3. open = ElementsOf(opened)
  <2>1. open = {OpenOrder[i] : i \in 1..n}
    BY DEF OpeningOK
  <2> HIDE DEF opened, n
  <2> QED
    BY <1>2, <2>1 DEF ElementsOf
<1>4. opened # << >> => opened[1] = "tracing"
  <2>1. opened # << >> => 1 \in 1..n
    BY <1>1, <1>2
  <2> HIDE DEF opened, n
  <2> QED
    BY <1>1, <1>2, <2>1
<1> HIDE DEF opened, n
<1>5. /\ AfterFailure(opened) \in Seq(Resources)
      /\ ElementsOf(opened) \subseteq
           ElementsOf(AfterFailure(opened)) \cup (IF kind = "server" THEN {"tracing"} ELSE {})
  BY <1>2, <1>4, FailureCloses DEF TypeOK
<1> QED
  BY <1>2, <1>3, <1>5 DEF opened, n

-----------------------------------------------------------------------------
\* A step keeps the program and its signals in their types.
LEMMA ProgramTyped ==
  ASSUME TypeOK, OpeningOK, [Next]_vars
  PROVE  /\ phase' \in {"loading", "starting", "serving", "draining", "stopping", "exited"}
         /\ toOpen' \in Seq(Resources) /\ toClose' \in Seq(Resources)
         /\ open' \subseteq Resources /\ code' \in {0, 1}
         /\ told' \in BOOLEAN /\ expired' \in BOOLEAN /\ late' \in BOOLEAN /\ broken' \in BOOLEAN
<1> USE DEF TypeOK, program, signals
<1>1. CASE Load
  <2>1. << >> \in Seq(Resources)
    OBVIOUS
  <2>2. toClose' \in Seq(Resources) /\ code' \in {0, 1} /\ phase' \in {"starting", "stopping"}
    BY <1>1, <2>1 DEF Load, GoStop
  <2> QED
    BY <1>1, <2>2 DEF Load
<1>2. CASE Open
  <2>1. phase = "starting" /\ toOpen # << >> /\ UNCHANGED <<kind, signals>>
    BY <1>2 DEF Open
  <2>2. Head(toOpen) \in Resources /\ Tail(toOpen) \in Seq(Resources)
    BY <2>1, HeadAndTail
  <2>3. AfterFailure(SubSeq(OpenOrder, 1, Len(OpenOrder) - Len(toOpen))) \in Seq(Resources)
    BY <2>1, Opened
  <2> QED
    BY <1>2, <2>1, <2>2, <2>3 DEF Open, GoStop, Fallible
<1>3. CASE BreakOff
  <2>1. OpenOrder \in Seq(Resources) /\ OpenOrder[1] = "tracing"
    BY Orders
  <2>2. AfterFailure(OpenOrder) \in Seq(Resources)
    BY <2>1, FailureCloses
  <2> QED
    BY <1>3, <2>2 DEF BreakOff, GoStop
<1>4. CASE Drained \/ Expire
  BY <1>4, Orders DEF Drained, Expire, GoStop
<1>5. CASE Close
  <2>1. toClose # << >>
    BY <1>5 DEF Close
  <2>2. Tail(toClose) \in Seq(Resources)
    BY <2>1, HeadAndTail
  <2> QED
    BY <1>5, <2>2 DEF Close
<1>6. CASE Ready \/ StopServing \/ Exit
  BY <1>6 DEF Ready, StopServing, Exit
<1>7. CASE Tell \/ Break \/ RunOut \/ Export \/ Exited
  BY <1>7 DEF Tell, Break, RunOut, Export, Exited, vars
<1>8. ASSUME NEW c \in Clients, Accept(c) \/ Fetch(c) \/ Return(c) \/ Running(c)
      PROVE  UNCHANGED <<program, signals>>
  BY <1>8 DEF Accept, Fetch, Return, Running, Begin, EndCall, Finish
<1>9. CASE UNCHANGED vars
  BY <1>9 DEF vars
<1> QED
  BY <1>1, <1>2, <1>3, <1>4, <1>5, <1>6, <1>7, <1>8, <1>9 DEF Next, Advance

\* A step keeps the clients in their types, and their calls among what is open.
LEMMA ClientsTyped ==
  ASSUME TypeOK, CallsOK, [Next]_vars
  PROVE  /\ at' \in [Clients -> {"away", "running", "done", "killed"} \cup Resources]
         /\ calls' \in [Clients -> Seq(Resources)]
         /\ outcome' \in [Clients -> Outcomes]
         /\ met' \subseteq Clients /\ unexported' \subseteq Clients
         /\ CallsOK'
<1> USE DEF clients
<1>0. kind' = kind /\ ResourcesOf(kind') = ResourcesOf(kind) /\ ResourcesOf(kind) \subseteq Resources
  BY SameProgram DEF ResourcesOf, Resources
<1>1. CASE UNCHANGED <<clients, unexported>>
  BY <1>0, <1>1 DEF TypeOK, CallsOK
<1>2. CASE Close
  BY <1>0, <1>2 DEF Close, TypeOK, CallsOK
<1>3. CASE Ready \/ Exit
  BY <1>0, <1>3 DEF Ready, Exit, TypeOK, CallsOK, Resources
<1>4. ASSUME NEW c \in Clients, Accept(c) \/ Fetch(c)
      PROVE  /\ calls' \in [Clients -> Seq(ResourcesOf(kind))]
             /\ at' = at \/ at' = [at EXCEPT ![c] = "running"]
             /\ UNCHANGED <<outcome, met, unexported>>
  <2>1. PICK plan \in Plans(c) : calls' = [calls EXCEPT ![c] = plan]
    BY <1>4 DEF Accept, Fetch
  <2>2. plan \in Seq(ResourcesOf(kind))
    BY PlansOpened DEF TypeOK
  <2> QED
    BY <1>4, <2>1, <2>2 DEF Accept, Fetch, CallsOK
<1>5. ASSUME NEW c \in Clients, Begin(c)
      PROVE  /\ calls' \in [Clients -> Seq(ResourcesOf(kind))]
             /\ \E r \in ResourcesOf(kind) : at' = at \/ at' = [at EXCEPT ![c] = r]
             /\ UNCHANGED <<outcome, unexported>> /\ met' \subseteq met \cup {c}
  <2>1. calls[c] \in Seq(ResourcesOf(kind)) /\ calls[c] # << >>
    BY <1>5 DEF Begin, CallsOK
  <2>2. Head(calls[c]) \in ResourcesOf(kind) /\ Tail(calls[c]) \in Seq(ResourcesOf(kind))
    BY <2>1, HeadAndTail
  <2> QED
    BY <1>5, <2>2 DEF Begin, CallsOK
<1>6. ASSUME NEW c \in Clients, EndCall(c)
      PROVE  /\ at' = [at EXCEPT ![c] = "running"]
             /\ UNCHANGED <<calls, outcome, unexported>> /\ met' \subseteq met \cup {c}
  BY <1>6 DEF EndCall
<1>7. ASSUME NEW c \in Clients, Finish(c) \/ Return(c)
      PROVE  /\ at' = [at EXCEPT ![c] = "done"]
             /\ outcome' \in [Clients -> Outcomes]
             /\ UNCHANGED <<calls, met>> /\ unexported' = unexported \cup {c}
  <2>1. CASE Finish(c)
    <3>1. PICK out \in Handled : outcome' = [outcome EXCEPT ![c] = Chain(out)]
      BY <2>1 DEF Finish
    <3>2. Chain(out) \in Outcomes
      BY ChainAnswers
    <3> QED
      BY <2>1, <3>1, <3>2 DEF Finish, TypeOK
  <2>2. CASE Return(c)
    BY <2>2 DEF Return, TypeOK
  <2> QED
    BY <1>7, <2>1, <2>2
<1>8. ASSUME NEW c \in Clients, Accept(c) \/ Fetch(c) \/ Return(c) \/ Running(c)
      PROVE  /\ calls' \in [Clients -> Seq(ResourcesOf(kind))]
             /\ \E x \in {"running", "done"} \cup ResourcesOf(kind) :
                    at' = at \/ at' = [at EXCEPT ![c] = x]
             /\ outcome' \in [Clients -> Outcomes]
             /\ met' \subseteq met \cup {c} /\ unexported' \subseteq unexported \cup {c}
  BY <1>4, <1>5, <1>6, <1>7, <1>8 DEF Running, TypeOK, CallsOK
<1>9. ASSUME NEW c \in Clients, Accept(c) \/ Fetch(c) \/ Return(c) \/ Running(c)
      PROVE  /\ at' \in [Clients -> {"away", "running", "done", "killed"} \cup Resources]
             /\ calls' \in [Clients -> Seq(Resources)]
             /\ outcome' \in [Clients -> Outcomes]
             /\ met' \subseteq Clients /\ unexported' \subseteq Clients
             /\ CallsOK'
  <2>1. calls' \in [Clients -> Seq(Resources)]
    BY <1>0, <1>8, <1>9
  <2>2. PICK x \in {"running", "done"} \cup ResourcesOf(kind) :
            at' = at \/ at' = [at EXCEPT ![c] = x]
    BY <1>8, <1>9
  <2>3. at' \in [Clients -> {"away", "running", "done", "killed"} \cup Resources]
    BY <1>0, <2>2 DEF TypeOK
  <2>4. CallsOK'
    BY <1>0, <1>8, <1>9, <2>2 DEF CallsOK, TypeOK, Resources
  <2> QED
    BY <1>8, <1>9, <2>1, <2>3, <2>4 DEF TypeOK
<1>10. CASE Export
  BY <1>0, <1>10 DEF Export, TypeOK, CallsOK
<1>11. CASE Load \/ Open \/ StopServing \/ BreakOff \/ Drained \/ Expire \/ Tell \/ Break \/ RunOut \/ Exited
            \/ UNCHANGED vars
  BY <1>1, <1>11 DEF Load, Open, StopServing, BreakOff, Drained, Expire, Tell, Break, RunOut, Exited, vars
<1> QED
  BY <1>2, <1>3, <1>9, <1>10, <1>11 DEF Next, Advance

\* What a step of a client, or one that is no step of the program, leaves alone.
LEMMA ClientSteps ==
  ASSUME NEW c \in Clients, Accept(c) \/ Fetch(c) \/ Return(c) \/ Running(c)
  PROVE  UNCHANGED <<program, signals>> /\ at[c] \in {"away", "running"} \cup Resources
BY DEF Accept, Fetch, Return, Running, Begin, EndCall, Finish

\* The resources are opened in order, and a program that serves has them all.
LEMMA OpeningKept ==
  ASSUME TypeOK, OpeningOK, ServingOK, [Next]_vars
  PROVE  OpeningOK' /\ ServingOK'
<1> DEFINE n == Len(OpenOrder) - Len(toOpen)
<1>0. /\ kind' = kind /\ OpenOrder' = OpenOrder /\ ResourcesOf(kind') = ResourcesOf(kind)
      /\ OpenOrder \in Seq(Resources) /\ Len(OpenOrder) \in Nat
      /\ ElementsOf(OpenOrder) = ResourcesOf(kind)
      /\ toOpen \in Seq(Resources) /\ Len(toOpen) \in Nat
  BY SameProgram, Orders DEF TypeOK
<1>1. ASSUME phase' = phase \/ phase' = "stopping" \/ phase' = "exited"
                \/ (phase = "loading" /\ phase' = "starting")
                \/ (phase = "serving" /\ phase' = "draining"),
             phase' \in {"stopping", "exited"} \/ UNCHANGED <<toOpen, open>>
      PROVE  OpeningOK' /\ ServingOK'
  <2>1. CASE phase' \in {"stopping", "exited"}
    BY <2>1 DEF OpeningOK, ServingOK
  <2>2. CASE UNCHANGED <<toOpen, open>>
    BY <1>0, <1>1, <2>2 DEF OpeningOK, ServingOK
  <2> QED
    BY <1>1, <2>1, <2>2
<1>2. CASE Open
  <2>1. CASE phase' = "stopping"
    BY <2>1 DEF OpeningOK, ServingOK
  <2>2. CASE phase' # "stopping"
    <3>1. /\ phase = "starting" /\ phase' = "starting" /\ toOpen # << >>
          /\ toOpen' = Tail(toOpen) /\ open' = open \cup {Head(toOpen)}
      BY <1>2, <2>2 DEF Open, GoStop
    <3>2. /\ n \in 0..Len(OpenOrder)
          /\ \A i \in 1..Len(toOpen) : toOpen[i] = OpenOrder[n + i]
          /\ open = {OpenOrder[i] : i \in 1..n}
      BY <1>0, <3>1 DEF OpeningOK
    <3>3. /\ Len(toOpen) > 0 /\ Len(toOpen') = Len(toOpen) - 1
          /\ Head(toOpen) = toOpen[1]
          /\ \A i \in 1..Len(toOpen) - 1 : toOpen'[i] = toOpen[i + 1]
      BY <1>0, <3>1
    <3>4. n' = n + 1 /\ n' \in 1..Len(OpenOrder) /\ Len(toOpen') <= Len(OpenOrder')
      BY <1>0, <3>2, <3>3
    <3>5. Head(toOpen) = OpenOrder[n + 1]
      BY <1>0, <3>2, <3>3
    <3>6. ASSUME NEW i \in 1..Len(toOpen') PROVE toOpen'[i] = OpenOrder[n' + i]
      <4>1. i + 1 \in 1..Len(toOpen) /\ n + (i + 1) = n' + i /\ i \in 1..Len(toOpen) - 1
        BY <1>0, <3>2, <3>3, <3>4
      <4>2. toOpen'[i] = toOpen[i + 1] /\ toOpen[i + 1] = OpenOrder[n + (i + 1)]
        BY <4>1, <3>2, <3>3
      <4> QED
        BY <4>1, <4>2
    <3>7. 1..n' = 1..n \cup {n + 1}
      BY <1>0, <3>2, <3>4
    <3>8. open' = {OpenOrder[i] : i \in 1..n'}
      <4> HIDE DEF n
      <4> QED
        BY <3>1, <3>2, <3>5, <3>7
    <3>9. OpeningOK'
      <4>1. \A i \in 1..Len(toOpen') :
                toOpen'[i] = OpenOrder'[(Len(OpenOrder') - Len(toOpen')) + i]
        BY <1>0, <3>6
      <4>2. open' = {OpenOrder'[i] : i \in 1..(Len(OpenOrder') - Len(toOpen'))}
        BY <1>0, <3>8
      <4> HIDE DEF n
      <4> QED
        BY <3>1, <3>4, <4>1, <4>2 DEF OpeningOK
    <3> QED
      BY <3>1, <3>9 DEF ServingOK
  <2> QED
    BY <2>1, <2>2
<1>3. CASE Ready
  <2>1. phase = "starting" /\ toOpen = << >> /\ phase' = "serving" /\ open' = open
    BY <1>3 DEF Ready, program
  <2>2. n = Len(OpenOrder)
    BY <1>0, <2>1
  <2>3. open = {OpenOrder[i] : i \in 1..Len(OpenOrder)}
    <3>1. open = {OpenOrder[i] : i \in 1..n}
      BY <2>1 DEF OpeningOK
    <3> HIDE DEF n
    <3> QED
      BY <2>2, <3>1
  <2>4. open = ResourcesOf(kind)
    BY <1>0, <2>3 DEF ElementsOf
  <2> QED
    BY <1>0, <2>1, <2>4 DEF OpeningOK, ServingOK
<1>4. CASE Load \/ StopServing \/ BreakOff \/ Drained \/ Expire \/ Exit
  BY <1>1, <1>4 DEF Load, StopServing, BreakOff, Drained, Expire, Exit, GoStop
<1>5. CASE Close
  BY <1>1, <1>5 DEF Close, OpeningOK, ServingOK
<1>6. CASE Tell \/ Break \/ RunOut \/ Export \/ Exited \/ UNCHANGED vars
  BY <1>1, <1>6 DEF Tell, Break, RunOut, Export, Exited, vars, program
<1>7. ASSUME NEW c \in Clients, Accept(c) \/ Fetch(c) \/ Return(c) \/ Running(c)
      PROVE  OpeningOK' /\ ServingOK'
  BY <1>1, <1>7, ClientSteps DEF program
<1> QED
  BY <1>2, <1>3, <1>4, <1>5, <1>6, <1>7 DEF Next, Advance

\* A client is active after the program stopped only if the program gave it up.
LEMMA ClientsKept ==
  ASSUME TypeOK, ClientsOK, [Next]_vars
  PROVE  ClientsOK'
<1>1. CASE Load \/ Open
  BY <1>1 DEF Load, Open, GoStop, ClientsOK, clients, signals
<1>2. CASE Ready
  BY <1>2 DEF Ready, ClientsOK
<1>3. CASE Tell \/ RunOut \/ Export \/ Exited \/ UNCHANGED vars
  BY <1>3 DEF Tell, RunOut, Export, Exited, vars, ClientsOK, program, signals, clients
<1>4. CASE Break
  BY <1>4 DEF Break, ClientsOK, program, clients
<1>5. CASE StopServing
  BY <1>5 DEF StopServing, ClientsOK, clients
<1>6. CASE BreakOff
  BY <1>6 DEF BreakOff, GoStop, ClientsOK, signals, clients
<1>7. CASE Drained
  <2>1. phase = "draining" /\ Active = {} /\ phase' = "stopping" /\ at' = at
    BY <1>7 DEF Drained, GoStop, clients
  <2>2. \A c \in Clients : at[c] \in {"away", "done", "killed"}
    BY <2>1 DEF Active, TypeOK
  <2>3. \A c \in Clients : at[c] # "killed"
    BY <2>1 DEF ClientsOK
  <2> QED
    BY <2>1, <2>2, <2>3 DEF ClientsOK
<1>8. CASE Expire
  BY <1>8 DEF Expire, GoStop, ClientsOK, clients
<1>9. CASE Close
  BY <1>9 DEF Close, ClientsOK, signals, clients
<1>10. CASE Exit
  <2>1. /\ phase = "stopping" /\ phase' = "exited" /\ UNCHANGED <<code, expired, broken>>
        /\ at' = [c \in Clients |-> IF c \in Active THEN "killed" ELSE at[c]]
    BY <1>10 DEF Exit, signals
  <2>2. ASSUME \A c \in Clients : at[c] \in {"away", "done"}
        PROVE  \A c \in Clients : at'[c] \in {"away", "done"}
    <3>1. Active = {}
      BY <2>2 DEF Active, Resources
    <3> QED
      BY <2>1, <2>2, <3>1
  <2> QED
    BY <2>1, <2>2 DEF ClientsOK
<1>11. ASSUME NEW c \in Clients, Accept(c) \/ Fetch(c) \/ Return(c) \/ Running(c)
       PROVE  ClientsOK'
  <2>1. UNCHANGED <<phase, code, expired, broken>>
    BY <1>11, ClientSteps DEF program, signals
  <2>2. phase \notin {"loading", "starting"}
    BY <1>11 DEF ClientsOK, Accept, Fetch, Return, Running, Begin, EndCall, Finish, Resources
  <2>3. ASSUME phase \in {"stopping", "exited"}
        PROVE  at[c] \notin {"away", "done"}
    BY <1>11, <2>3 DEF Accept, Fetch, Return, Running, Begin, EndCall, Finish, Resources
  <2>4. /\ \A d \in Clients \ {c} : at'[d] = at[d]
        /\ at'[c] # "killed" \/ at'[c] = at[c]
    BY <1>11 DEF Accept, Fetch, Return, Running, Begin, EndCall, Finish, Resources, TypeOK
  <2>5. phase # "exited" => \A d \in Clients : at'[d] # "killed"
    BY <2>4 DEF ClientsOK
  <2> QED
    BY <2>1, <2>2, <2>3, <2>4, <2>5 DEF ClientsOK
<1> QED
  BY <1>1, <1>2, <1>3, <1>4, <1>5, <1>6, <1>7, <1>8, <1>9, <1>10, <1>11 DEF Next, Advance

\* Everything that is open is still to be closed, or was left by a failure.
LEMMA ClosingKept ==
  ASSUME TypeOK, OpeningOK, ServingOK, ClosingOK, [Next]_vars
  PROVE  ClosingOK'
<1>0. kind' = kind /\ CloseOrder' = CloseOrder /\ ElementsOf(CloseOrder) = ResourcesOf(kind)
  BY SameProgram, Orders DEF TypeOK
<1>1. CASE Load
  <2>1. phase = "loading" /\ phase' \in {"starting", "stopping"} /\ open' = open
    BY <1>1 DEF Load, GoStop
  <2>2. CASE phase' = "starting"
    BY <2>2 DEF ClosingOK
  <2>3. open = {}
    BY <2>1 DEF OpeningOK
  <2> QED
    BY <2>1, <2>2, <2>3 DEF ClosingOK
<1>2. CASE Open
  <2> DEFINE opened == SubSeq(OpenOrder, 1, Len(OpenOrder) - Len(toOpen))
  <2>1. CASE phase' = "starting"
    BY <2>1 DEF ClosingOK
  <2>2. CASE phase' # "starting"
    <3>1. /\ phase = "starting" /\ phase' = "stopping" /\ code' = 1
          /\ toClose' = AfterFailure(opened) /\ open' \subseteq open \cup {"clickhouse"}
      BY <1>2, <2>2 DEF Open, GoStop
    <3>2. open \subseteq ElementsOf(AfterFailure(opened)) \cup
                           (IF kind = "server" THEN {"tracing"} ELSE {})
      BY <3>1, Opened
    <3> HIDE DEF opened
    <3> QED
      BY <1>0, <3>1, <3>2 DEF ClosingOK, LeftOpen
  <2> QED
    BY <2>1, <2>2
<1>3. CASE BreakOff
  <2>1. /\ phase = "serving" /\ phase' = "stopping" /\ code' = 1 /\ open' = open
        /\ toClose' = AfterFailure(OpenOrder)
    BY <1>3 DEF BreakOff, GoStop
  <2>2. OpenOrder \in Seq(Resources) /\ OpenOrder[1] = "tracing" /\ kind \in Kinds
    BY Orders DEF TypeOK
  <2>3. ElementsOf(OpenOrder) \subseteq
            ElementsOf(AfterFailure(OpenOrder)) \cup (IF kind = "server" THEN {"tracing"} ELSE {})
    BY <2>2, FailureCloses
  <2>4. open = ElementsOf(OpenOrder)
    BY <2>1, Orders DEF ServingOK, TypeOK
  <2> QED
    BY <1>0, <2>1, <2>3, <2>4 DEF ClosingOK, LeftOpen
<1>4. CASE Drained \/ Expire
  <2>1. /\ phase = "draining" /\ phase' = "stopping" /\ open' = open /\ toClose' = CloseOrder
    BY <1>4 DEF Drained, Expire, GoStop
  <2> QED
    BY <1>0, <2>1 DEF ClosingOK, ServingOK
<1>5. CASE Close
  <2> DEFINE r == Head(toClose)
  <2>1. /\ phase = "stopping" /\ UNCHANGED <<phase, code>> /\ toClose # << >>
        /\ open' = open \ {r} /\ toClose' \in {toClose, Tail(toClose)}
    BY <1>5 DEF Close
  <2>2. ElementsOf(toClose) = {r} \cup ElementsOf(Tail(toClose))
    BY <2>1, HeadAndTail DEF TypeOK
  <2> HIDE DEF r
  <2>3. open' \subseteq ElementsOf(toClose') \cup LeftOpen
    BY <2>1, <2>2 DEF ClosingOK
  <2> QED
    BY <1>0, <2>1, <2>3 DEF ClosingOK, LeftOpen
<1>6. CASE Exit
  BY <1>0, <1>6 DEF Exit, ClosingOK, LeftOpen
<1>7. CASE Ready \/ StopServing
  BY <1>7 DEF Ready, StopServing, ClosingOK
<1>8. CASE UNCHANGED program
  BY <1>8 DEF program, ClosingOK, LeftOpen
<1>9. CASE Tell \/ Break \/ RunOut \/ Export \/ Exited \/ UNCHANGED vars
  BY <1>8, <1>9 DEF Tell, Break, RunOut, Export, Exited, vars
<1> QED
  BY <1>1, <1>2, <1>3, <1>4, <1>5, <1>6, <1>7, <1>8, <1>9, ClientSteps DEF Next, Advance

\* A drained program has the tracer still to close, or has lost no span.
LEMMA SpansKept ==
  ASSUME TypeOK, ClosingOK, ClientsOK, SpansOK, [Next]_vars
  PROVE  SpansOK'
<1>0. CloseOrder' = CloseOrder /\ "tracing" \in ElementsOf(CloseOrder)
  BY SameProgram, Orders DEF ResourcesOf, Resources, TypeOK
<1>1. CASE Load \/ Open \/ BreakOff \/ Expire
  BY <1>1 DEF Load, Open, BreakOff, Expire, GoStop, SpansOK
<1>2. CASE Drained
  BY <1>0, <1>2 DEF Drained, GoStop, SpansOK
<1>3. CASE Close
  <2> DEFINE r == Head(toClose)
  <2>1. /\ phase = "stopping" /\ UNCHANGED <<phase, code, expired, late>> /\ toClose # << >>
        /\ toClose' \in {toClose, Tail(toClose)}
        /\ IF r # "tracing" THEN unexported' = unexported
           ELSE unexported' \in {{}} \cup (IF late THEN {unexported} ELSE {})
    BY <1>3 DEF Close, signals
  <2>2. ElementsOf(toClose) = {r} \cup ElementsOf(Tail(toClose))
    BY <2>1, HeadAndTail DEF TypeOK
  <2> HIDE DEF r
  <2> QED
    BY <2>1, <2>2 DEF SpansOK
<1>4. CASE Exit
  BY <1>4 DEF Exit, SpansOK, signals
<1>5. CASE Ready \/ StopServing
  BY <1>5 DEF Ready, StopServing, SpansOK
<1>6. CASE Tell \/ Break \/ RunOut \/ Exited \/ UNCHANGED vars
  BY <1>6 DEF Tell, Break, RunOut, Exited, vars, program, signals, SpansOK
<1>7. CASE Export
  BY <1>7 DEF Export, SpansOK
<1>8. ASSUME NEW c \in Clients, Accept(c) \/ Fetch(c) \/ Return(c) \/ Running(c)
      PROVE  SpansOK'
  <2>1. UNCHANGED <<phase, toClose, code, expired, late>>
    BY <1>8, ClientSteps DEF program, signals
  <2>2. unexported' = unexported \/ at[c] = "running"
    BY <1>8 DEF Accept, Fetch, Return, Running, Begin, EndCall, Finish
  <2> QED
    BY <2>1, <2>2 DEF SpansOK, ClientsOK
<1> QED
  BY <1>1, <1>2, <1>3, <1>4, <1>5, <1>6, <1>7, <1>8 DEF Next, Advance

\* Every request that ends has a status, and is counted under it or panicked.
LEMMA AnswersKept ==
  ASSUME TypeOK, AnsweredOK, CountedAsSent, [Next]_vars
  PROVE  AnsweredOK' /\ CountedAsSent'
<1>0. kind' = kind
  BY SameProgram
<1>1. ASSUME outcome' = outcome,
             \A c \in Clients : kind = "server" /\ at'[c] = "done" => at[c] = "done"
      PROVE  AnsweredOK' /\ CountedAsSent'
  BY <1>0, <1>1 DEF AnsweredOK, CountedAsSent
<1>2. CASE Load \/ Open \/ StopServing \/ BreakOff \/ Drained \/ Expire \/ Close \/ Tell \/ Break
           \/ RunOut \/ Export \/ Exited \/ UNCHANGED vars
  BY <1>1, <1>2 DEF Load, Open, StopServing, BreakOff, Drained, Expire, Close, Tell, Break,
                    RunOut, Export, Exited, vars, clients
<1>3. CASE Ready \/ Exit
  BY <1>1, <1>3 DEF Ready, Exit, TypeOK
<1>4. ASSUME NEW c \in Clients, Finish(c) PROVE AnsweredOK' /\ CountedAsSent'
  <2>1. PICK out \in Handled : outcome' = [outcome EXCEPT ![c] = Chain(out)]
    BY <1>4 DEF Finish
  <2>2. /\ Chain(out).status # 0
        /\ Chain(out).counted = IF Chain(out).recovered THEN {} ELSE {Chain(out).status}
    BY ChainAnswers
  <2>3. at' = [at EXCEPT ![c] = "done"]
    BY <1>4 DEF Finish
  <2>4. /\ outcome'[c] = Chain(out)
        /\ \A d \in Clients \ {c} : outcome'[d] = outcome[d] /\ at'[d] = at[d]
    BY <2>1, <2>3 DEF TypeOK
  <2> QED
    BY <1>0, <2>2, <2>4 DEF AnsweredOK, CountedAsSent
<1>5. ASSUME NEW c \in Clients, Accept(c) \/ Fetch(c) \/ Return(c) \/ Begin(c) \/ EndCall(c)
      PROVE  AnsweredOK' /\ CountedAsSent'
  <2>1. outcome' = outcome
    BY <1>5 DEF Accept, Fetch, Return, Begin, EndCall
  <2>2. \A d \in Clients : kind = "server" /\ at'[d] = "done" => at[d] = "done"
    <3>1. calls[c] # << >> => Head(calls[c]) \in Resources
      BY HeadAndTail DEF TypeOK
    <3> QED
      BY <1>5, <3>1 DEF Accept, Fetch, Return, Begin, EndCall, TypeOK, Resources
  <2> QED
    BY <1>1, <2>1, <2>2
<1> QED
  BY <1>2, <1>3, <1>4, <1>5 DEF Next, Advance, Running

\* A client that calls something has it open, unless the program gave it up.
LEMMA NothingClosedKept ==
  ASSUME TypeOK, ServingOK, CallsOK, ClientsOK, ClientsMeetNothingClosed, [Next]_vars
  PROVE  ClientsMeetNothingClosed'
<1>1. CASE met' = met
  <2>1. (expired => expired') /\ (broken => broken')
    BY DEF Next, Advance, Load, Open, Ready, StopServing, BreakOff, Drained, Expire, Close, Exit,
           Tell, Break, RunOut, Export, Exited, Running, Accept, Fetch, Return, Begin, EndCall, Finish,
           vars, signals
  <2> QED
    BY <1>1, <2>1 DEF ClientsMeetNothingClosed
<1>2. ASSUME NEW c \in Clients, Begin(c) PROVE ClientsMeetNothingClosed'
  <2>1. /\ UNCHANGED <<expired, broken>> /\ at[c] = "running" /\ calls[c] # << >>
        /\ Head(calls[c]) \in open => met' = met
    BY <1>2 DEF Begin, signals
  <2>2. Head(calls[c]) \in ResourcesOf(kind)
    BY <2>1, HeadAndTail DEF CallsOK
  <2>3. phase \in {"serving", "draining"} \/ expired \/ broken
    BY <2>1 DEF ClientsOK, TypeOK
  <2> QED
    BY <1>1, <2>1, <2>2, <2>3 DEF ServingOK, ClientsMeetNothingClosed
<1>3. ASSUME NEW c \in Clients, EndCall(c) PROVE ClientsMeetNothingClosed'
  <2>1. /\ UNCHANGED <<expired, broken>> /\ at[c] \in Resources
        /\ at[c] \in open => met' = met
    BY <1>3 DEF EndCall, signals
  <2>2. at[c] \in ResourcesOf(kind)
    BY <2>1 DEF CallsOK
  <2>3. phase \in {"serving", "draining"} \/ expired \/ broken
    BY <2>1 DEF ClientsOK, TypeOK, Resources
  <2> QED
    BY <1>1, <2>1, <2>2, <2>3 DEF ServingOK, ClientsMeetNothingClosed
<1>4. CASE Advance \/ Tell \/ Break \/ RunOut \/ Export \/ Exited \/ UNCHANGED vars
  BY <1>1, <1>4 DEF Advance, Load, Open, Ready, StopServing, BreakOff, Drained, Expire, Close, Exit,
                    Tell, Break, RunOut, Export, Exited, vars, clients
<1>5. ASSUME NEW c \in Clients, Accept(c) \/ Fetch(c) \/ Return(c) \/ Finish(c)
      PROVE  met' = met
  BY <1>5 DEF Accept, Fetch, Return, Finish
<1> QED
  BY <1>1, <1>2, <1>3, <1>4, <1>5 DEF Next, Running

-----------------------------------------------------------------------------
LEMMA StepInv == ServiceInv /\ [Next]_vars => ServiceInv'
<1> SUFFICES ASSUME ServiceInv, [Next]_vars PROVE ServiceInv'
  OBVIOUS
<1> USE DEF ServiceInv
<1>1. TypeOK'
  BY SameProgram, ProgramTyped, ClientsTyped DEF TypeOK
<1>2. OpeningOK' /\ ServingOK' /\ ClosingOK'
  BY OpeningKept, ClosingKept
<1>3. CallsOK' /\ ClientsOK' /\ SpansOK'
  BY ClientsTyped, ClientsKept, SpansKept
<1>4. AnsweredOK' /\ CountedAsSent' /\ ClientsMeetNothingClosed'
  BY AnswersKept, NothingClosedKept
<1> QED
  BY <1>1, <1>2, <1>3, <1>4

\* ServiceInv holds in every state.
THEOREM InductiveInvariant == Spec => []ServiceInv
<1> QED
  BY InitInv, StepInv, PTL DEF Spec

\* The state of a process keeps its types.  (server.go, worker.go, infra.go)
THEOREM TypeCorrect == Spec => []TypeOK
<1>1. ServiceInv => TypeOK
  BY DEF ServiceInv
<1> QED
  BY <1>1, InductiveInvariant, PTL

\* No client calls a resource that was closed under it, as long as the deadline
\* has not passed and the listener works.  (server.go:120-139, worker.go:79-92)
THEOREM NothingClosedUnderClients == Spec => []ClientsMeetNothingClosed
<1>1. ServiceInv => ClientsMeetNothingClosed
  BY DEF ServiceInv
<1> QED
  BY <1>1, InductiveInvariant, PTL

\* A request is counted under the status it was answered with, and no other; one
\* whose panic was recovered, under none.
\* (http.go:81-88, middleware.go:52-90)
THEOREM CountedTruly == Spec => []CountedAsSent
<1>1. ServiceInv => CountedAsSent
  BY DEF ServiceInv
<1> QED
  BY <1>1, InductiveInvariant, PTL

\* A process that exits within its deadline answered every request it accepted.
\* (README.md:20; server.go:127-132, middleware.go:73-90)
THEOREM RequestsAnswered == Spec => []AnsweredBeforeExit
<1>1. ServiceInv => AnsweredBeforeExit
  BY DEF ServiceInv, AnsweredBeforeExit, ClientsOK, AnsweredOK
<1> QED
  BY <1>1, InductiveInvariant, PTL

\* A process that exits within its deadlines, of the drain and of the flush, loses
\* no span.  (server.go:134, infra.go:108)
THEOREM SpansFlushed == Spec => []SpansReachExporter
<1>1. ServiceInv => SpansReachExporter
  <2>1. ElementsOf(<< >>) = {}
    BY DEF ElementsOf
  <2> QED
    BY <2>1 DEF ServiceInv, SpansReachExporter, SpansOK, ClosingOK
<1> QED
  BY <1>1, InductiveInvariant, PTL

\* A process that exits has closed what it opened, but for what a failure leaves.
\* (server.go:57-87, infra.go:68-84)
THEOREM ResourcesClosed == Spec => []ClosedAtExit
<1>1. ServiceInv => ClosedAtExit
  <2>1. ElementsOf(<< >>) = {}
    BY DEF ElementsOf
  <2> QED
    BY <2>1 DEF ServiceInv, ClosedAtExit, ClosingOK, LeftOpen
<1> QED
  BY <1>1, InductiveInvariant, PTL

-----------------------------------------------------------------------------
(***************************************************************************)
(* The refinement.                                                         *)
(***************************************************************************)
\* The phase of GracefulService that a phase of the process stands for.
Phase ==
    CASE phase \in {"loading", "starting"}   -> "starting"
      [] phase = "serving"                   -> "up"
      [] phase \in {"draining", "stopping"}  -> "stopping"
      [] phase = "exited"                    -> "down"

LEMMA ActiveSteps ==
  ASSUME TypeOK, CallsOK, NEW c \in Clients, Accept(c) \/ Fetch(c) \/ Return(c) \/ Running(c)
  PROVE  \/ Active' = Active
         \/ Active' = Active \cup {c} /\ phase = "serving"
         \/ Active' = Active \ {c}
<1>1. \A d \in Clients \ {c} : at'[d] = at[d]
  BY DEF Accept, Fetch, Return, Running, Begin, EndCall, Finish, TypeOK
<1>2. CASE Accept(c)
  <2>1. at'[c] = "running" /\ phase = "serving"
    BY <1>2 DEF Accept, TypeOK
  <2> QED
    BY <1>1, <2>1 DEF Active
<1>3. CASE Fetch(c)
  BY <1>3 DEF Fetch, Active
<1>4. CASE Begin(c)
  <2>1. Head(calls[c]) \in Resources
    BY <1>4, HeadAndTail DEF Begin, TypeOK
  <2>2. at[c] = "running" /\ at'[c] \in {"running"} \cup Resources
    BY <1>4, <2>1 DEF Begin, TypeOK
  <2> QED
    BY <1>1, <2>2 DEF Active
<1>5. CASE EndCall(c)
  <2>1. at[c] \in Resources /\ at'[c] = "running"
    BY <1>5 DEF EndCall, TypeOK
  <2> QED
    BY <1>1, <2>1 DEF Active
<1>6. CASE Finish(c) \/ Return(c)
  <2>1. at'[c] = "done"
    BY <1>6 DEF Finish, Return, TypeOK
  <2> QED
    BY <1>1, <2>1 DEF Active, Resources
<1> QED
  BY <1>2, <1>3, <1>4, <1>5, <1>6 DEF Running

LEMMA InitRefines == Init => Service!Init
<1> SUFFICES ASSUME Init PROVE Service!Init
  OBVIOUS
<1>1. Phase = "starting"
  BY DEF Init, Phase
<1>2. Active = {}
  BY DEF Init, Active, Resources
<1> QED
  BY <1>1, <1>2 DEF Init, Service!Init, Phase

LEMMA StepRefines == ServiceInv /\ ServiceInv' /\ [Next]_vars => [Service!Next]_(Service!vars)
<1> SUFFICES ASSUME ServiceInv, ServiceInv', [Next]_vars
             PROVE  Service!Next \/ UNCHANGED Service!vars
  OBVIOUS
<1> DEFINE gaveUp == expired \/ broken
<1>0. /\ TypeOK /\ TypeOK' /\ CallsOK /\ ClientsOK /\ ClientsOK'
  BY DEF ServiceInv
<1>1. /\ phase \in {"loading", "starting"} => Phase = "starting"
      /\ phase = "serving" => Phase = "up"
      /\ phase \in {"draining", "stopping"} => Phase = "stopping"
      /\ phase = "exited" => Phase = "down"
      /\ phase' \in {"loading", "starting"} => Phase' = "starting"
      /\ phase' = "serving" => Phase' = "up"
      /\ phase' \in {"draining", "stopping"} => Phase' = "stopping"
      /\ phase' = "exited" => Phase' = "down"
  BY <1>0 DEF Phase
<1>2. at' = at => Active' = Active
  BY DEF Active
<1>3. CASE UNCHANGED <<phase, at, expired, broken>>
  BY <1>2, <1>3 DEF Service!vars
<1>4. CASE Load \/ Open
  <2>1. /\ phase \in {"loading", "starting"} /\ phase' \in {"starting", "stopping"}
        /\ UNCHANGED <<at, expired, broken>>
    BY <1>4 DEF Load, Open, GoStop, signals, clients
  <2> QED
    BY <1>1, <1>2, <2>1 DEF Service!vars, Service!Next, Service!Stop, Phase
<1>5. CASE Ready
  <2>1. phase = "starting" /\ phase' = "serving" /\ UNCHANGED <<expired, broken>>
    BY <1>5 DEF Ready, signals
  <2>2. Active' \in SUBSET Clients
    BY DEF Active
  <2> QED
    BY <1>1, <2>1, <2>2 DEF Service!Next, Service!ComeUp, Phase
<1>6. CASE Break
  <2>1. phase = "serving" /\ broken' = TRUE /\ UNCHANGED <<phase, at>>
    BY <1>6 DEF Break, program, clients
  <2> QED
    BY <1>1, <1>2, <2>1 DEF Service!Next, Service!GiveUp, Phase
<1>7. CASE StopServing \/ BreakOff
  <2>1. phase = "serving" /\ phase' \in {"draining", "stopping"} /\ UNCHANGED <<at, expired, broken>>
    BY <1>7 DEF StopServing, BreakOff, GoStop, signals, clients
  <2> QED
    BY <1>1, <1>2, <2>1 DEF Service!Next, Service!Stop, Phase
<1>8. CASE Drained
  <2>1. phase = "draining" /\ phase' = "stopping" /\ UNCHANGED <<at, expired, broken>>
    BY <1>8 DEF Drained, GoStop, signals, clients
  <2> QED
    BY <1>1, <1>2, <2>1 DEF Service!vars, Phase
<1>9. CASE Expire
  <2>1. phase = "draining" /\ phase' = "stopping" /\ expired' = TRUE /\ at' = at
    BY <1>9 DEF Expire, GoStop, clients
  <2> QED
    BY <1>1, <1>2, <2>1 DEF Service!Next, Service!GiveUp, Phase
<1>10. CASE Close
  BY <1>3, <1>10 DEF Close, signals, clients
<1>11. CASE Exit
  <2>1. /\ phase = "stopping" /\ phase' = "exited" /\ UNCHANGED <<expired, broken>>
        /\ at' = [c \in Clients |-> IF c \in Active THEN "killed" ELSE at[c]]
    BY <1>11 DEF Exit, signals
  <2>2. Active' = {}
    <3>1. \A c \in Clients : at'[c] \notin {"running"} \cup Resources
      BY <2>1 DEF Active, Resources
    <3> QED
      BY <3>1 DEF Active
  <2>3. Active = {} \/ expired \/ broken
    <3>1. CASE \A c \in Clients : at[c] \in {"away", "done"}
      BY <3>1 DEF Active, Resources
    <3> QED
      BY <1>0, <2>1, <3>1 DEF ClientsOK
  <2> QED
    BY <1>1, <2>1, <2>2, <2>3 DEF Service!Next, Service!End, Phase
<1>12. CASE Tell \/ RunOut \/ Export \/ Exited \/ UNCHANGED vars
  BY <1>3, <1>12 DEF Tell, RunOut, Export, Exited, vars, program, signals, clients
<1>13. ASSUME NEW c \in Clients, Accept(c) \/ Fetch(c) \/ Return(c) \/ Running(c)
       PROVE  Service!Next \/ UNCHANGED Service!vars
  <2>1. UNCHANGED <<phase, expired, broken>>
    BY <1>13, ClientSteps DEF program, signals
  <2>2. CASE Active' = Active
    BY <1>1, <2>1, <2>2 DEF Service!vars
  <2>3. CASE Active' = Active \cup {c} /\ phase = "serving"
    <3>1. Service!Admit(c)
      BY <1>1, <2>1, <2>3 DEF Service!Admit, Phase
    <3> QED
      BY <3>1 DEF Service!Next
  <2>4. CASE Active' = Active \ {c}
    <3>1. Service!Leave(c)
      BY <1>1, <2>1, <2>4 DEF Service!Leave, Phase
    <3> QED
      BY <3>1 DEF Service!Next
  <2> QED
    BY <1>0, <1>13, <2>2, <2>3, <2>4, ActiveSteps
<1> QED
  BY <1>4, <1>5, <1>6, <1>7, <1>8, <1>9, <1>10, <1>11, <1>12, <1>13 DEF Next, Advance

\* The server and the worker both stop as GracefulService says: they take on
\* nobody while they stop, and end with nobody left whom they did not give up.
\* (README.md:20; server.go:120-139, worker.go:79-92)
THEOREM StopsGracefully == Spec => ImplementsGracefulService
<1> QED
  BY InitRefines, StepRefines, InductiveInvariant, PTL
     DEF Spec, ImplementsGracefulService, Service!Spec
=============================================================================

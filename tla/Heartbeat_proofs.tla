-------------------------- MODULE Heartbeat_proofs --------------------------
(***************************************************************************)
(* Theorems about Heartbeat, for every width of an int, every interval the *)
(* server may send and all deadlines.                                      *)
(***************************************************************************)
EXTENDS Heartbeat, TLAPS

(* The conversion from uint32_t, and of the tripled interval, is an int.   *)
LEMMA ToIntRange ==
  ASSUME NEW n \in Int, -(3 * Half) <= n, n < 3 * Half
  PROVE  ToInt(n) \in (-Half)..(Half - 1)
  BY HeartbeatAssumption, SMT DEF ToInt

LEMMA TimeoutRange ==
  ASSUME heartbeatMs \in (-Half)..(Half - 1)
  PROVE  Timeout \in (-Half)..(Half - 1)
<1>1. /\ 3 * heartbeatMs \in Int
      /\ -(3 * Half) <= 3 * heartbeatMs /\ 3 * heartbeatMs < 3 * Half
  BY HeartbeatAssumption, SMT
<1> QED
  BY <1>1, ToIntRange DEF Timeout

LEMMA OlderStep ==
  ASSUME NEW age \in 0..Oldest
  PROVE  /\ Older(age) \in 0..Oldest /\ age <= Older(age) /\ Older(age) <= age + 1
         /\ Older(age) = age + 1 \/ age = Oldest
  BY HeartbeatAssumption, SMT DEF Older
-----------------------------------------------------------------------------
(* Types.                                                                  *)

LEMMA TypeStep == TypeOK /\ [Next]_vars => TypeOK'
<1> SUFFICES ASSUME TypeOK, [Next]_vars PROVE TypeOK'
  OBVIOUS
<1> USE DEF TypeOK
<1>1. ASSUME NEW ms \in Intervals, LoginAnswered(ms) PROVE TypeOK'
  <2>1. ms \in 0..(2 * Half - 1)
    BY HeartbeatAssumption
  <2>2. {} \subseteq 0..Delay
    OBVIOUS
  <2> QED
    BY <1>1, <2>1, <2>2 DEF LoginAnswered
<1>2. CASE LoginInterval
  <2>1. ToInt(answer) \in (-Half)..(Half - 1)
    BY ToIntRange, HeartbeatAssumption, SMT
  <2> QED
    BY <1>2, <2>1 DEF LoginInterval
<1>3. CASE LoginStamps
  BY <1>3, HeartbeatAssumption, SMT DEF LoginStamps
<1>4. CASE HeartbeatResponse
  <2>1. recvAge' \in 0..Oldest /\ silence' \in 0..Oldest
    BY <1>4, HeartbeatAssumption, SMT DEF HeartbeatResponse
  <2>2. unanswered' \subseteq 0..Delay
    BY <1>4 DEF HeartbeatResponse
  <2> QED
    BY <1>4, <2>1, <2>2 DEF HeartbeatResponse
<1>5. CASE ServerHeartbeat
  BY <1>5, HeartbeatAssumption, SMT DEF ServerHeartbeat
<1>6. CASE ConnectionLost
  BY <1>6 DEF ConnectionLost
<1>7. CASE ProcessTimers
  <2>1. sentAge' \in 0..Oldest /\ tickAge' \in 0..Period
    BY <1>7, HeartbeatAssumption, SMT DEF ProcessTimers, SendHeartbeat
  <2>2. 0 \in 0..Delay
    BY HeartbeatAssumption, SMT
  <2>3. unanswered' \subseteq 0..Delay
    BY <1>7, <2>2 DEF ProcessTimers, SendHeartbeat
  <2> QED
    BY <1>7, <2>1, <2>3 DEF ProcessTimers
<1>8. CASE ProcessTimersIdle
  BY <1>8, HeartbeatAssumption, SMT DEF ProcessTimersIdle
<1>9. CASE ServerFalls
  BY <1>9 DEF ServerFalls
<1>10. CASE Elapse
  <2>1. sentAge' \in 0..Oldest /\ recvAge' \in 0..Oldest /\ silence' \in 0..Oldest
    BY <1>10, OlderStep DEF Elapse
  <2>2. tickAge' \in 0..Period
    BY <1>10, HeartbeatAssumption, SMT DEF Elapse
  <2>3. \A age \in unanswered : age + 1 \in 0..Delay
    BY <1>10, HeartbeatAssumption, SMT DEF Elapse
  <2>4. unanswered' \subseteq 0..Delay
    BY <1>10, <2>3 DEF Elapse
  <2> QED
    BY <1>10, <2>1, <2>2, <2>4 DEF Elapse
<1>11. CASE UNCHANGED vars
  BY <1>11 DEF vars
<1> QED
  BY <1>1, <1>2, <1>3, <1>4, <1>5, <1>6, <1>7, <1>8, <1>9, <1>10, <1>11 DEF Next, IoStep

(* Every variable has its type; the interval of the server, a number of 32 *)
(* bits without sign, becomes an int.                                      *)
THEOREM TypeCorrect == Spec => []TypeOK
<1>1. Init => TypeOK
  <2>1. /\ 0 \in (-Half)..(Half - 1) /\ DefaultMs \in (-Half)..(Half - 1)
        /\ 0 \in 0..(2 * Half - 1)
        /\ Oldest \in 0..Oldest /\ 0 \in 0..Period
    BY HeartbeatAssumption, SMT
  <2> QED
    BY <2>1 DEF Init, TypeOK
<1> QED
  BY <1>1, TypeStep, PTL DEF Spec
-----------------------------------------------------------------------------
(* A dead server.                                                          *)

Settled == loggedIn /\ login = "idle"

(* Since processTimers last let the session live, only tickAge has passed. *)
SilenceInv ==
    /\ silence = recvAge
    /\ Settled => recvAge <= (IF Timeout < 0 THEN 0 ELSE Timeout) + tickAge

LEMMA StampIsSilence == TypeOK /\ silence = recvAge /\ [Next]_vars => silence' = recvAge'
  BY DEF Next, IoStep, LoginAnswered, LoginInterval, LoginStamps, HeartbeatResponse,
         ServerHeartbeat, ConnectionLost, ProcessTimers, ProcessTimersIdle, ServerFalls,
         Elapse, vars

LEMMA SilenceStep == TypeOK /\ SilenceInv /\ [Next]_vars => SilenceInv'
<1> SUFFICES ASSUME TypeOK, SilenceInv, [Next]_vars, Settled' PROVE SilenceInv'
  BY StampIsSilence DEF SilenceInv
<1> DEFINE Bound == IF Timeout < 0 THEN 0 ELSE Timeout
<1>1. Bound \in Nat /\ Bound' \in Nat
  BY TypeStep, TimeoutRange, HeartbeatAssumption, SMT DEF TypeOK, Timeout, ToInt
<1>2. Settled => recvAge <= Bound + tickAge
  BY DEF SilenceInv
<1>3. recvAge' <= Bound' + tickAge' => SilenceInv'
  BY StampIsSilence DEF SilenceInv
<1>4. tickAge' \in Nat /\ tickAge \in Nat /\ recvAge \in Nat
  BY TypeStep, HeartbeatAssumption, SMT DEF TypeOK
<1> SUFFICES recvAge' <= Bound' + tickAge'
  BY <1>3
<1>5. heartbeatMs' = heartbeatMs => Bound' = Bound
  BY DEF Timeout
<1> HIDE DEF Bound
<1>6. CASE LoginStamps \/ HeartbeatResponse \/ ServerHeartbeat
  BY <1>1, <1>4, <1>6, SMT DEF LoginStamps, HeartbeatResponse, ServerHeartbeat
<1>7. CASE ProcessTimers
  <2>1. ~TimedOut
    BY <1>7 DEF ProcessTimers, Settled
  <2>2. Timeout \in Int
    BY TimeoutRange, HeartbeatAssumption, SMT DEF TypeOK
  <2>3. recvAge <= Timeout
    BY <2>1, <2>2, <1>4, SMT DEF TimedOut
  <2>4. recvAge <= Bound
    BY <2>2, <2>3, <1>4, SMT DEF Bound
  <2> QED
    BY <1>7, <2>4, <1>5, <1>1, <1>4, SMT DEF ProcessTimers
<1>8. CASE Elapse
  BY <1>8, <1>1, <1>2, <1>4, <1>5, OlderStep, SMT DEF Elapse, Settled, TypeOK
<1>9. CASE ServerFalls \/ UNCHANGED vars
  BY <1>9, <1>2, <1>5 DEF ServerFalls, Settled, vars
<1>10. CASE ConnectionLost \/ ProcessTimersIdle \/ LoginInterval
  BY <1>10 DEF ConnectionLost, ProcessTimersIdle, LoginInterval, Settled
<1>11. ASSUME NEW ms \in Intervals, LoginAnswered(ms) PROVE FALSE
  BY <1>11 DEF LoginAnswered, Settled
<1> QED
  BY <1>6, <1>7, <1>8, <1>9, <1>10, <1>11 DEF Next, IoStep

LEMMA SilenceInvariant == Spec => []SilenceInv
<1>1. Init => SilenceInv
  BY DEF Init, SilenceInv, Settled
<1> QED
  BY <1>1, SilenceStep, TypeCorrect, PTL DEF Spec

(* A server that has fallen silent is noticed within three intervals and   *)
(* one run of processTimers, whatever interval it sent.                    *)
THEOREM SilenceNoticed == Spec => []SilenceBounded
<1>1. TypeOK /\ SilenceInv => SilenceBounded
  <2> SUFFICES ASSUME TypeOK, SilenceInv, Settled PROVE SilenceBounded
    BY DEF SilenceBounded, Settled
  <2> DEFINE Bound == IF Timeout < 0 THEN 0 ELSE Timeout
  <2>1. Bound \in Nat
    BY TimeoutRange, HeartbeatAssumption, SMT DEF TypeOK
  <2>2. recvAge <= Bound + tickAge
    BY DEF SilenceInv
  <2>3. recvAge <= Bound + Period => SilenceBounded
    BY DEF SilenceBounded, SilenceInv
  <2> HIDE DEF Bound
  <2> QED
    BY <2>1, <2>2, <2>3, HeartbeatAssumption, SMT DEF TypeOK
<1> QED
  BY <1>1, TypeCorrect, SilenceInvariant, PTL
-----------------------------------------------------------------------------
(* A live server.                                                          *)

(* The code keeps the interval twice; both are those of the last login.    *)
IntervalInv == login = "stamps" \/ Settled => interval = heartbeatMs

(* A heartbeat is sent at the first run of processTimers that finds the    *)
(* interval over.                                                          *)
SentInv == Settled /\ 0 <= interval => sentAge <= interval + tickAge

(* Either the last sign of the server is younger than the last heartbeat,  *)
(* or a heartbeat is on its way that was sent soon after that sign.        *)
HeardInv ==
    Settled /\ alive /\ 0 <= interval =>
        \/ recvAge <= sentAge
        \/ \E age \in unanswered : recvAge <= age + interval + Period

LiveInv == IntervalInv /\ SentInv /\ HeardInv

(* What the types say of the numbers, before and after a step.             *)
LEMMA Numbers ==
  ASSUME TypeOK
  PROVE  /\ interval \in Int /\ heartbeatMs \in Int
         /\ sentAge \in Nat /\ recvAge \in Nat /\ tickAge \in Nat /\ tickAge <= Period
         /\ Period \in Nat /\ Delay \in Nat
         /\ \A age \in unanswered : age \in Nat /\ age <= Delay
  BY HeartbeatAssumption, SMT DEF TypeOK

LEMMA LiveTimers ==
  ASSUME TypeOK, LiveInv, ProcessTimers
  PROVE  LiveInv'
<1> USE Numbers
<1>1. IntervalInv'
  BY DEF LiveInv, IntervalInv, ProcessTimers, Settled
<1> SUFFICES ASSUME Settled', 0 <= interval'
             PROVE  /\ sentAge' <= interval' + tickAge'
                    /\ alive' => \/ recvAge' <= sentAge'
                                 \/ \E age \in unanswered' : recvAge' <= age + interval' + Period
  BY <1>1 DEF LiveInv, SentInv, HeardInv
<1>2. /\ Settled /\ (alive' => alive)
      /\ interval' = interval /\ recvAge' = recvAge /\ tickAge' = 0
  BY DEF ProcessTimers, Settled
<1>3. sentAge <= interval + tickAge
  BY <1>2 DEF LiveInv, SentInv
<1>4. CASE HeartbeatDue
  <2>1. sentAge' = 0 /\ (alive => unanswered' = unanswered \cup {0})
    BY <1>4 DEF ProcessTimers, SendHeartbeat
  <2>2. ASSUME alive' PROVE \E age \in unanswered' : recvAge' <= age + interval' + Period
    <3>1. CASE recvAge <= sentAge
      <4>1. recvAge' <= 0 + interval' + Period
        BY <1>2, <1>3, <3>1, SMT
      <4> QED
        BY <1>2, <2>1, <2>2, <4>1
    <3>2. CASE \E age \in unanswered : recvAge <= age + interval + Period
      BY <1>2, <2>1, <2>2, <3>2
    <3> QED
      BY <1>2, <2>2, <3>1, <3>2 DEF LiveInv, HeardInv
  <2> QED
    BY <1>2, <2>1, <2>2, SMT
<1>5. CASE ~HeartbeatDue
  <2>1. sentAge' = sentAge /\ unanswered' = unanswered
    BY <1>5 DEF ProcessTimers, SendHeartbeat
  <2>2. sentAge' <= interval' + tickAge'
    BY <1>2, <1>5, <2>1, SMT DEF HeartbeatDue
  <2> QED
    BY <1>2, <2>1, <2>2 DEF LiveInv, HeardInv
<1> QED
  BY <1>4, <1>5

LEMMA LiveElapse ==
  ASSUME TypeOK, LiveInv, Elapse
  PROVE  LiveInv'
<1> USE Numbers
<1>1. /\ (Settled' <=> Settled) /\ login' = login /\ alive' = alive
      /\ interval' = interval /\ heartbeatMs' = heartbeatMs
      /\ tickAge' = tickAge + 1
      /\ unanswered' = {age + 1 : age \in unanswered}
  BY DEF Elapse, Settled
<1>2. /\ sentAge' = sentAge + 1 \/ (sentAge' = sentAge /\ sentAge = Oldest)
      /\ recvAge' <= recvAge + 1 /\ recvAge' \in Nat /\ recvAge' <= Oldest
  BY OlderStep, HeartbeatAssumption, SMT DEF Elapse, TypeOK
<1>3. IntervalInv'
  BY <1>1 DEF LiveInv, IntervalInv
<1>4. SentInv'
  BY <1>1, <1>2, SMT DEF LiveInv, SentInv
<1>5. HeardInv'
  <2> SUFFICES ASSUME Settled, alive, 0 <= interval
               PROVE  \/ recvAge' <= sentAge'
                      \/ \E age \in unanswered' : recvAge' <= age + interval + Period
    BY <1>1 DEF HeardInv
  <2>1. CASE recvAge <= sentAge
    BY <1>2, <2>1, HeartbeatAssumption, SMT
  <2>2. ASSUME NEW age \in unanswered, recvAge <= age + interval + Period
        PROVE  \E a \in unanswered' : recvAge' <= a + interval + Period
    <3>1. age + 1 \in unanswered'
      BY <1>1
    <3>2. recvAge' <= (age + 1) + interval + Period
      BY <1>2, <2>2, SMT
    <3> QED
      BY <3>1, <3>2
  <2> QED
    BY <2>1, <2>2 DEF LiveInv, HeardInv
<1> QED
  BY <1>3, <1>4, <1>5 DEF LiveInv

LEMMA LiveStep == TypeOK /\ LiveInv /\ [Next]_vars => LiveInv'
<1> SUFFICES ASSUME TypeOK, LiveInv, [Next]_vars PROVE LiveInv'
  OBVIOUS
<1> USE Numbers DEF LiveInv, IntervalInv, SentInv, HeardInv, Settled
<1>1. ASSUME NEW ms \in Intervals, LoginAnswered(ms) PROVE LiveInv'
  BY <1>1 DEF LoginAnswered
<1>2. CASE LoginInterval
  BY <1>2 DEF LoginInterval
<1>3. CASE LoginStamps
  BY <1>3, SMT DEF LoginStamps
<1>4. CASE HeartbeatResponse \/ ServerHeartbeat
  BY <1>4, SMT DEF HeartbeatResponse, ServerHeartbeat
<1>5. CASE ConnectionLost \/ ProcessTimersIdle
  BY <1>5 DEF ConnectionLost, ProcessTimersIdle
<1>6. CASE ServerFalls \/ UNCHANGED vars
  BY <1>6 DEF ServerFalls, vars
<1> QED
  BY <1>1, <1>2, <1>3, <1>4, <1>5, <1>6, LiveTimers, LiveElapse DEF Next, IoStep

LEMMA LiveInvariant == Spec => []LiveInv
<1>1. Init => LiveInv
  BY DEF Init, LiveInv, IntervalInv, SentInv, HeardInv, Settled
<1> QED
  BY <1>1, LiveStep, TypeCorrect, PTL DEF Spec

(* With a live server and a sane interval the time-out is not reached.     *)
LEMMA NotTimedOut ==
  ASSUME TypeOK, LiveInv, Settled, alive, Sane(heartbeatMs)
  PROVE  ~TimedOut
<1> USE Numbers
<1>1. interval = heartbeatMs
  BY DEF LiveInv, IntervalInv
<1>2. 0 <= interval /\ Period + Delay <= 2 * interval /\ 3 * interval < Half
  BY <1>1, SMT DEF Sane
<1>3. Timeout = 3 * interval
  BY <1>1, <1>2, HeartbeatAssumption, SMT DEF Timeout, ToInt
<1>4. sentAge <= interval + tickAge
  BY <1>2 DEF LiveInv, SentInv
<1>5. CASE recvAge <= sentAge
  BY <1>2, <1>3, <1>4, <1>5, SMT DEF TimedOut
<1>6. ASSUME NEW age \in unanswered, recvAge <= age + interval + Period
      PROVE  ~TimedOut
  BY <1>2, <1>3, <1>6, SMT DEF TimedOut
<1> QED
  BY <1>2, <1>5, <1>6 DEF LiveInv, HeardInv

(* The heartbeat time-out ends no session with a live server whose         *)
(* interval leaves room for its answers and for the delay of the main      *)
(* thread: 3 intervals must hold one interval, a run of processTimers and  *)
(* an answer, and must be an int.                                          *)
THEOREM SessionKept == Spec => LiveSessionKept
<1>1. TypeOK /\ LiveInv /\ [Next]_vars
        => [loggedIn /\ alive /\ login = "idle" /\ Sane(heartbeatMs) => loggedIn']_vars
  <2> SUFFICES ASSUME TypeOK, LiveInv, Next,
                      loggedIn, alive, login = "idle", Sane(heartbeatMs)
               PROVE  loggedIn'
    OBVIOUS
  <2>1. CASE ProcessTimers
    BY <2>1, NotTimedOut DEF ProcessTimers, Settled
  <2> QED
    BY <2>1 DEF Next, IoStep, LoginAnswered, LoginInterval, LoginStamps, HeartbeatResponse,
                ServerHeartbeat, ConnectionLost, ProcessTimersIdle, ServerFalls, Elapse
<1> QED
  BY <1>1, TypeCorrect, LiveInvariant, PTL DEF Spec, LiveSessionKept
=============================================================================

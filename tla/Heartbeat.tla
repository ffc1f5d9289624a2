----------------------------- MODULE Heartbeat -----------------------------
(***************************************************************************)
(* The heartbeat of ProtocolParsingNode with its clock: processTimers      *)
(* sends one when heartbeatInterval_ is over and ends the session when     *)
(* nothing was heard for three intervals.  The interval is the server's,   *)
(* an unsigned number of milliseconds that the code keeps as an int.       *)
(*                                                                         *)
(* A time stamp is kept as its age.  The io thread may stand between any   *)
(* two assignments of a login while the main thread runs processTimers.    *)
(***************************************************************************)
EXTENDS Integers

CONSTANTS
    Half,        \* ints are -Half..Half-1 (2^31 in the program)
    Intervals,   \* heartbeatMs of login answers: numbers below 2 * Half
    DefaultMs,   \* DEFAULT_HEARTBEAT_MS
    Period,      \* longest time between two runs of processTimers
    Delay,       \* longest time from a heartbeat to its answer, of a live server
    Oldest       \* ages are not told apart from here on: no time-out is as long

ASSUME HeartbeatAssumption ==
    /\ Half \in Nat \ {0} /\ Period \in Nat /\ Delay \in Nat
    /\ Intervals \subseteq 0..(2 * Half - 1)
    /\ DefaultMs \in 0..(Half - 1)
    /\ Oldest \in Nat /\ Oldest > Half + Period

VARIABLES
    loggedIn,      \* loggedIn_
    heartbeatMs,   \* heartbeatMs_
    interval,      \* heartbeatInterval_: a copy, which a start leaves at zero
    sentAge,       \* now - lastHbSent_
    recvAge,       \* now - lastHbRecv_
    tickAge,       \* time since processTimers last ran
    login,         \* what handleLoginResponse does next: "idle" outside it
    answer,        \* the heartbeatMs of the answer it handles
    alive,         \* the connection carries and the server answers
    unanswered,    \* ages of heartbeats a live server has not answered
    silence        \* history: time since the login or the last sign of the server

vars == <<loggedIn, heartbeatMs, interval, sentAge, recvAge, tickAge, login, answer, alive,
          unanswered, silence>>

(* An integer in 32 bits; the arguments are less than three halves out.    *)
ToInt(n) == IF n >= Half THEN n - 2 * Half ELSE IF n < -Half THEN n + 2 * Half ELSE n

TimeoutOnce == ToInt(heartbeatMs)        \* fault: the multiplier is forgotten
Timeout == ToInt(3 * heartbeatMs)
-----------------------------------------------------------------------------
(* The server accepts a login, or answers it once more: the io thread      *)
(* calls handleLoginResponse, whose first assignment is loggedIn_ = true.  *)
LoginAnswered(ms) ==
    /\ login = "idle" /\ (loggedIn => alive)
    /\ loggedIn' = TRUE
    /\ alive' = TRUE
    /\ unanswered' = IF loggedIn THEN unanswered ELSE {}
    /\ answer' = ms
    /\ login' = "interval"
    /\ UNCHANGED <<heartbeatMs, interval, sentAge, recvAge, tickAge, silence>>

(* Fault: the number is not converted.                                     *)
LoginIntervalUnsigned ==
    /\ login = "interval"
    /\ heartbeatMs' = answer
    /\ interval' = answer
    /\ login' = "stamps"
    /\ UNCHANGED <<loggedIn, sentAge, recvAge, tickAge, answer, alive, unanswered, silence>>
LoginInterval ==
    /\ login = "interval"
    /\ heartbeatMs' = ToInt(answer)
    /\ interval' = ToInt(answer)
    /\ login' = "stamps"
    /\ UNCHANGED <<loggedIn, sentAge, recvAge, tickAge, answer, alive, unanswered, silence>>

(* Fault: lastHbRecv_ keeps the stamp of the last session.                 *)
LoginStampsSent ==
    /\ login = "stamps"
    /\ sentAge' = 0 /\ silence' = 0
    /\ login' = "idle"
    /\ UNCHANGED <<loggedIn, heartbeatMs, interval, recvAge, tickAge, answer, alive, unanswered>>
LoginStamps ==
    /\ login = "stamps"
    /\ sentAge' = 0 /\ recvAge' = 0 /\ silence' = 0
    /\ login' = "idle"
    /\ UNCHANGED <<loggedIn, heartbeatMs, interval, tickAge, answer, alive, unanswered>>

(* handleHeartbeatResponse; and handleHeartbeat, when the server sends one *)
(* of its own.                                                             *)
HeartbeatResponse ==
    /\ alive /\ login = "idle"
    /\ \E age \in unanswered :
          /\ \A other \in unanswered : other <= age
          /\ unanswered' = unanswered \ {age}
    /\ recvAge' = 0 /\ silence' = 0
    /\ UNCHANGED <<loggedIn, heartbeatMs, interval, sentAge, tickAge, login, answer, alive>>
ServerHeartbeat ==
    /\ alive /\ loggedIn /\ login = "idle"
    /\ recvAge' = 0 /\ silence' = 0
    /\ UNCHANGED <<loggedIn, heartbeatMs, interval, sentAge, tickAge, login, answer, alive,
                   unanswered>>

(* The server dies, or the connection does without a word.                 *)
ServerFalls ==
    /\ alive
    /\ alive' = FALSE /\ unanswered' = {}
    /\ UNCHANGED <<loggedIn, heartbeatMs, interval, sentAge, recvAge, tickAge, login, answer,
                   silence>>

(* recv() notices the end of a connection: DISCONNECTED.                   *)
ConnectionLost ==
    /\ ~alive /\ loggedIn /\ login = "idle"
    /\ loggedIn' = FALSE
    /\ UNCHANGED <<heartbeatMs, interval, sentAge, recvAge, tickAge, login, answer, alive,
                   unanswered, silence>>
-----------------------------------------------------------------------------
(* processTimers while logged in: a heartbeat if one is due, then the      *)
(* time-out, both by the same "now".                                       *)

HeartbeatDue == sentAge >= interval

SendHeartbeat ==
    IF HeartbeatDue
      THEN /\ sentAge' = 0
           /\ unanswered' = IF alive THEN unanswered \cup {0} ELSE {}
      ELSE UNCHANGED <<sentAge, unanswered>>

TimedOut == recvAge > Timeout

(* Fault: a heartbeat sent counts as a sign of life.                       *)
ProcessTimersOptimist ==
    /\ loggedIn
    /\ SendHeartbeat
    /\ recvAge' = IF HeartbeatDue THEN 0 ELSE recvAge
    /\ loggedIn' = ~(recvAge' > Timeout)
    /\ alive' = (alive /\ loggedIn')
    /\ tickAge' = 0
    /\ UNCHANGED <<heartbeatMs, interval, login, answer, silence>>
ProcessTimers ==
    /\ loggedIn
    /\ SendHeartbeat
    /\ loggedIn' = ~TimedOut
    /\ alive' = (alive /\ ~TimedOut)     \* stop() closes the connection
    /\ tickAge' = 0
    /\ UNCHANGED <<heartbeatMs, interval, recvAge, login, answer, silence>>

(* Not logged in: the login time-out, which is not the subject here.       *)
ProcessTimersIdle ==
    /\ ~loggedIn
    /\ tickAge' = 0
    /\ UNCHANGED <<loggedIn, heartbeatMs, interval, sentAge, recvAge, login, answer, alive,
                   unanswered, silence>>

(* Time passes; the main thread and a live server keep their deadlines.    *)
Older(age) == IF age < Oldest THEN age + 1 ELSE age
Elapse ==
    /\ tickAge < Period
    /\ \A age \in unanswered : age < Delay
    /\ tickAge' = tickAge + 1
    /\ sentAge' = Older(sentAge) /\ recvAge' = Older(recvAge) /\ silence' = Older(silence)
    /\ unanswered' = {age + 1 : age \in unanswered}
    /\ UNCHANGED <<loggedIn, heartbeatMs, interval, login, answer, alive>>
-----------------------------------------------------------------------------
Init ==
    /\ loggedIn = FALSE /\ login = "idle" /\ answer = 0
    /\ heartbeatMs = DefaultMs /\ interval = 0
    /\ sentAge = Oldest /\ recvAge = Oldest /\ silence = Oldest /\ tickAge = 0
    /\ alive = FALSE /\ unanswered = {}

IoStep ==
    \/ \E ms \in Intervals : LoginAnswered(ms)
    \/ LoginInterval \/ LoginStamps
    \/ HeartbeatResponse \/ ServerHeartbeat \/ ConnectionLost

Next == IoStep \/ ProcessTimers \/ ProcessTimersIdle \/ ServerFalls \/ Elapse

Spec == Init /\ [][Next]_vars
-----------------------------------------------------------------------------
TypeOK ==
    /\ loggedIn \in BOOLEAN /\ alive \in BOOLEAN
    /\ login \in {"idle", "interval", "stamps"}
    /\ heartbeatMs \in (-Half)..(Half - 1) /\ interval \in (-Half)..(Half - 1)
    /\ answer \in 0..(2 * Half - 1)
    /\ sentAge \in 0..Oldest /\ recvAge \in 0..Oldest /\ silence \in 0..Oldest
    /\ tickAge \in 0..Period
    /\ unanswered \subseteq 0..Delay

(* An interval that leaves room for an answer and does not overflow.       *)
Sane(ms) == 3 * ms < Half /\ Period + Delay <= 2 * ms

(* A session with a live server is not ended by the heartbeat time-out,    *)
(* if the server's interval is sane; only inside handleLoginResponse, when *)
(* loggedIn_ is set and the time stamps are not yet, it may be.            *)
LiveSessionKept ==
    [][loggedIn /\ alive /\ login = "idle" /\ Sane(heartbeatMs) => loggedIn']_vars

(* Whatever interval the server sent, no session outlives three of them    *)
(* and a run of processTimers without a sign of the server.                *)
SilenceBounded ==
    loggedIn /\ login = "idle" => silence <= (IF Timeout < 0 THEN 0 ELSE Timeout) + Period
=============================================================================

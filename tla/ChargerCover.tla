---------------------------- MODULE ChargerCover ----------------------------
(***************************************************************************)
(* ChargerCoverNode: opens and closes the cover of the charging port by    *)
(* one Modbus TCP request per command, on a connection of its own.  The    *)
(* callback of a command blocks until the request has ended, so commands   *)
(* wait in the queue of the topic, which drops the oldest when it is full. *)
(***************************************************************************)
EXTENDS Naturals, Sequences

CONSTANTS
    QueueSize,     \* of the topic cover_cmd (10 in the program)
    MaxCommands,   \* bound on the commands sent
    TidModulus,    \* 2^16 in the program
    DryRuns        \* values of the parameter dry_run to consider

ASSUME CoverAssumption ==
    /\ QueueSize \in Nat \ {0} /\ MaxCommands \in Nat /\ TidModulus \in Nat \ {0}
    /\ DryRuns \subseteq BOOLEAN

VARIABLES
    dryRun,        \* dryRun_
    sent,          \* history: how many commands were sent; they are numbered
    queue,         \* of the topic cover_cmd
    phase,         \* where setCover stands: "idle" outside the callback
    command,       \* the command the callback handles
    sockets,       \* descriptors open
    tid,           \* transaction number of the next request
    atGateway,     \* requests sent that the gateway has not dealt with
    acted,         \* commands the gateway carried out
    reply,         \* what lies in the receive buffer of the connection
    results        \* results published on cover_result, as <<number, success>>

coverVars == <<dryRun, sent, queue, phase, command, sockets, tid, atGateway, acted, reply,
               results>>

Actions == {"open", "close", "other"}   \* "other": no JSON, no such action
NoCommand == [number |-> 0, action |-> "other"]

(* Fault: the limit is off by one.                                         *)
EnqueueOneMore(q, m) == IF Len(q) <= QueueSize THEN Append(q, m) ELSE Append(Tail(q), m)
(* A bounded queue of a ROS topic: the oldest message makes room.          *)
Enqueue(q, m) == IF Len(q) < QueueSize THEN Append(q, m) ELSE Append(Tail(q), m)

SendCommand(action) ==
    /\ sent < MaxCommands
    /\ sent' = sent + 1
    /\ queue' = Enqueue(queue, [number |-> sent + 1, action |-> action])
    /\ UNCHANGED <<dryRun, phase, command, sockets, tid, atGateway, acted, reply, results>>
-----------------------------------------------------------------------------
(* Fault: the result of a failure is not published.                        *)
PublishSuccess(c, success) ==
    /\ phase' = "idle" /\ command' = NoCommand
    /\ results' = results \cup (IF success THEN {<<c.number, success>>} ELSE {})
(* publishResult, and the end of the callback.                             *)
PublishResult(c, success) ==
    /\ phase' = "idle" /\ command' = NoCommand
    /\ results' = results \cup {<<c.number, success>>}

(* onCoverCmd up to socket(): an invalid command is dropped without a      *)
(* result, a dry run succeeds at once, and otherwise socket() may fail.    *)
OnCoverCmd ==
    /\ phase = "idle" /\ queue # <<>>
    /\ queue' = Tail(queue)
    /\ \/ /\ Head(queue).action = "other"
          /\ UNCHANGED <<phase, command, sockets, results>>
       \/ /\ Head(queue).action # "other"
          /\ \/ /\ PublishResult(Head(queue), dryRun)
                /\ UNCHANGED sockets
             \/ /\ ~dryRun
                /\ phase' = "connect" /\ command' = Head(queue)
                /\ sockets' = sockets + 1
                /\ UNCHANGED results
    /\ UNCHANGED <<dryRun, sent, tid, atGateway, acted, reply>>

(* Fault: the failure returns without close().                             *)
ConnectFailsOpen ==
    /\ phase = "connect"
    /\ PublishResult(command, FALSE)
    /\ UNCHANGED <<dryRun, sent, queue, sockets, tid, atGateway, acted, reply>>
(* connect() fails or times out.                                           *)
ConnectFails ==
    /\ phase = "connect"
    /\ sockets' = sockets - 1
    /\ PublishResult(command, FALSE)
    /\ UNCHANGED <<dryRun, sent, queue, tid, atGateway, acted, reply>>

(* connect() succeeds; the request is built and takes its number.          *)
Connect ==
    /\ phase = "connect"
    /\ phase' = "send"
    /\ tid' = (tid + 1) % TidModulus
    /\ UNCHANGED <<dryRun, sent, queue, command, sockets, atGateway, acted, reply, results>>

(* Fault: send() throws, and no result follows.                            *)
SendFailsSilent ==
    /\ phase = "send"
    /\ phase' = "idle" /\ command' = NoCommand /\ sockets' = sockets - 1
    /\ UNCHANGED <<dryRun, sent, queue, tid, atGateway, acted, reply, results>>
(* send() takes less than the whole frame: the gateway gets no request.    *)
SendFails ==
    /\ phase = "send"
    /\ sockets' = sockets - 1
    /\ PublishResult(command, FALSE)
    /\ UNCHANGED <<dryRun, sent, queue, tid, atGateway, acted, reply>>
SendRequest ==
    /\ phase = "send"
    /\ phase' = "recv"
    /\ atGateway' = atGateway \cup {command.number}
    /\ reply' = "none"
    /\ UNCHANGED <<dryRun, sent, queue, command, sockets, tid, acted, results>>

(* Fault: resp[7] is not compared with 0x0F.                               *)
AcceptedAny(r) == r \in {"done", "other"}
(* recvd = 12 and the function code is that of the request.                *)
Accepted(r) == r = "done"

(* recv() returns with an answer, at its end or at its time-out.           *)
Receive ==
    /\ phase = "recv"
    /\ sockets' = sockets - 1
    /\ PublishResult(command, Accepted(reply))
    /\ reply' = "none"
    /\ UNCHANGED <<dryRun, sent, queue, tid, atGateway, acted>>
-----------------------------------------------------------------------------
(* The gateway carries a request out or refuses it, in its own time; its   *)
(* answer only reaches a connection that is still open.  An exception is   *)
(* short of 12 bytes, and so is an answer that comes in two segments.      *)
Gateway(n) ==
    /\ n \in atGateway
    /\ atGateway' = atGateway \ {n}
    /\ \/ /\ acted' = acted \cup {n}
          /\ reply' \in IF phase = "recv" /\ command.number = n THEN {"done", "short"}
                                                                ELSE {reply}
       \/ /\ acted' = acted
          /\ reply' \in IF phase = "recv" /\ command.number = n THEN {"short", "other"}
                                                                ELSE {reply}
    /\ UNCHANGED <<dryRun, sent, queue, phase, command, sockets, tid, results>>
-----------------------------------------------------------------------------
CoverInit ==
    /\ dryRun \in DryRuns
    /\ sent = 0 /\ queue = <<>> /\ phase = "idle" /\ command = NoCommand
    /\ sockets = 0 /\ tid = 1 % TidModulus
    /\ atGateway = {} /\ acted = {} /\ reply = "none" /\ results = {}

NodeStep ==
    OnCoverCmd \/ ConnectFails \/ Connect \/ SendFails \/ SendRequest \/ Receive

CoverNext ==
    \/ NodeStep
    \/ \E action \in Actions : SendCommand(action)
    \/ \E n \in 1..MaxCommands : Gateway(n)

(* Every call of the callback has a time-out: the node goes on.            *)
CoverSpec == CoverInit /\ [][CoverNext]_coverVars /\ WF_coverVars(NodeStep)
-----------------------------------------------------------------------------
CommandType == [number : 0..MaxCommands, action : Actions]

CoverTypeOK ==
    /\ dryRun \in BOOLEAN
    /\ sent \in 0..MaxCommands
    /\ queue \in Seq(CommandType) /\ Len(queue) <= QueueSize
    /\ phase \in {"idle", "connect", "send", "recv"}
    /\ command \in CommandType
    /\ sockets \in Nat
    /\ tid \in 0..(TidModulus - 1)
    /\ atGateway \subseteq 0..MaxCommands /\ acted \subseteq 0..MaxCommands
    /\ reply \in {"none", "done", "short", "other"}
    /\ results \subseteq (0..MaxCommands) \X BOOLEAN

(* A result that says success is about a command the gateway carried out,  *)
(* not about an earlier request answered late or an answer that refuses.   *)
SuccessMeansActed ==
    \A r \in results : r[2] => dryRun \/ r[1] \in acted

(* Whichever call of setCover failed, its descriptor is closed.            *)
NoSocketLeft == sockets = IF phase = "idle" THEN 0 ELSE 1

(* No step loses a command: one that waits goes on waiting, is handled, is *)
(* answered, or is no command, or QueueSize newer ones were sent; one that *)
(* is handled stays so until its result is published, whatever call fails. *)
InQueue(c) == \E i \in 1..Len(queue) : queue[i] = c
Handled(c) == phase # "idle" /\ command = c
Answered(c) == \E success \in BOOLEAN : <<c.number, success>> \in results
Outnumbered(c) == sent >= c.number + QueueSize
CommandKept ==
    \A c \in CommandType :
        /\ InQueue(c) /\ c.action # "other" =>
              InQueue(c)' \/ Handled(c)' \/ Answered(c)' \/ Outnumbered(c)'
        /\ Handled(c) => Handled(c)' \/ Answered(c)'
NoCommandLost == [][CommandKept]_coverVars

(* The last command sent is answered, with success or failure, unless so   *)
(* many followed that the queue was full of newer ones, or is no command.  *)
NewestIsAnswered ==
    \A n \in 1..MaxCommands :
        (sent = n /\ \E i \in DOMAIN queue : queue[i].number = n /\ queue[i].action # "other")
            ~> (sent >= n + QueueSize \/ \E r \in results : r[1] = n)
=============================================================================

------------------------ MODULE ChargerCover_proofs ------------------------
(***************************************************************************)
(* Theorems about ChargerCover, for every length of the queue and any      *)
(* number of commands.                                                     *)
(***************************************************************************)
EXTENDS ChargerCover, TLAPS, SequenceTheorems

(* A positive answer in the buffer is about the command being handled, for *)
(* each request has a connection of its own.                               *)
ReplyIsOurs == reply = "done" => phase = "recv" /\ command.number \in acted

CoverInv == SuccessMeansActed /\ NoSocketLeft /\ ReplyIsOurs /\ sockets \in Nat

LEMMA PublishKeepsSuccess ==
  ASSUME NEW c, NEW success, PublishResult(c, success), SuccessMeansActed,
         success => dryRun \/ c.number \in acted,
         dryRun' = dryRun, acted' = acted
  PROVE  SuccessMeansActed'
<1> SUFFICES ASSUME NEW r \in results', r[2] PROVE dryRun \/ r[1] \in acted
  BY DEF SuccessMeansActed
<1>1. CASE r \in results
  BY <1>1 DEF SuccessMeansActed
<1>2. CASE r = <<c.number, success>>
  BY <1>2
<1> QED
  BY <1>1, <1>2 DEF PublishResult

(* A call that fails, and the end of recv(), closes the descriptor.        *)
LEMMA ClosesSocket ==
  ASSUME NoSocketLeft, phase # "idle", phase' = "idle", sockets' = sockets - 1
  PROVE  NoSocketLeft' /\ sockets' \in Nat
  BY SMT DEF NoSocketLeft

LEMMA CoverStep == CoverInv /\ [CoverNext]_coverVars => CoverInv'
<1> SUFFICES ASSUME CoverInv, [CoverNext]_coverVars PROVE CoverInv'
  OBVIOUS
<1> USE DEF CoverInv
<1>1. CASE OnCoverCmd
  <2>1. ~(reply' = "done")
    BY <1>1 DEF OnCoverCmd, ReplyIsOurs
  <2>2. CASE PublishResult(Head(queue), dryRun) /\ UNCHANGED sockets
    <3>1. SuccessMeansActed'
      BY <1>1, <2>2, PublishKeepsSuccess DEF OnCoverCmd
    <3>2. NoSocketLeft'
      BY <1>1, <2>2 DEF OnCoverCmd, PublishResult, NoSocketLeft
    <3> QED
      BY <2>1, <2>2, <3>1, <3>2 DEF ReplyIsOurs
  <2>3. CASE UNCHANGED results
    <3>1. SuccessMeansActed'
      BY <1>1, <2>3 DEF OnCoverCmd, SuccessMeansActed
    <3>2. NoSocketLeft' /\ sockets' \in Nat
      BY <1>1, <2>3, SMT DEF OnCoverCmd, NoSocketLeft, PublishResult
    <3> QED
      BY <2>1, <3>1, <3>2 DEF ReplyIsOurs
  <2> QED
    BY <1>1, <2>2, <2>3 DEF OnCoverCmd
<1>2. CASE ConnectFails \/ SendFails
  <2>1. PublishResult(command, FALSE) /\ dryRun' = dryRun /\ acted' = acted
    BY <1>2 DEF ConnectFails, SendFails
  <2>2. SuccessMeansActed'
    BY <2>1, PublishKeepsSuccess
  <2>3. NoSocketLeft' /\ sockets' \in Nat
    BY <1>2, ClosesSocket DEF ConnectFails, SendFails, PublishResult
  <2> QED
    BY <1>2, <2>2, <2>3 DEF ConnectFails, SendFails, ReplyIsOurs
<1>3. CASE Connect \/ SendRequest
  <2>1. ReplyIsOurs'
    BY <1>3 DEF Connect, SendRequest, ReplyIsOurs
  <2> QED
    BY <1>3, <2>1 DEF Connect, SendRequest, SuccessMeansActed, NoSocketLeft
<1>4. CASE Receive
  <2>1. Accepted(reply) \in BOOLEAN /\ (Accepted(reply) => command.number \in acted)
    BY DEF Accepted, ReplyIsOurs
  <2>2. SuccessMeansActed'
    BY <1>4, <2>1, PublishKeepsSuccess DEF Receive
  <2>3. NoSocketLeft' /\ sockets' \in Nat
    BY <1>4, ClosesSocket DEF Receive, PublishResult
  <2> QED
    BY <1>4, <2>2, <2>3 DEF Receive, ReplyIsOurs
<1>5. ASSUME NEW action \in Actions, SendCommand(action) PROVE CoverInv'
  BY <1>5 DEF SendCommand, SuccessMeansActed, NoSocketLeft, ReplyIsOurs
<1>6. ASSUME NEW n \in 1..MaxCommands, Gateway(n) PROVE CoverInv'
  <2>1. SuccessMeansActed' /\ NoSocketLeft' /\ sockets' \in Nat
    BY <1>6 DEF Gateway, SuccessMeansActed, NoSocketLeft
  <2>2. ReplyIsOurs'
    BY <1>6 DEF Gateway, ReplyIsOurs
  <2> QED
    BY <2>1, <2>2
<1>7. CASE UNCHANGED coverVars
  BY <1>7 DEF coverVars, SuccessMeansActed, NoSocketLeft, ReplyIsOurs
<1> QED
  BY <1>1, <1>2, <1>3, <1>4, <1>5, <1>6, <1>7 DEF CoverNext, NodeStep

LEMMA CoverInvariant == CoverSpec => []CoverInv
<1>1. CoverInit => CoverInv
  BY DEF CoverInit, CoverInv, SuccessMeansActed, NoSocketLeft, ReplyIsOurs
<1> QED
  BY <1>1, CoverStep, PTL DEF CoverSpec

(* A result of success is about a command the gateway carried out.         *)
THEOREM SuccessIsTrue == CoverSpec => []SuccessMeansActed
  BY CoverInvariant, PTL DEF CoverInv

(* No path through setCover leaves a descriptor behind.                    *)
THEOREM SocketsAreClosed == CoverSpec => []NoSocketLeft
  BY CoverInvariant, PTL DEF CoverInv
-----------------------------------------------------------------------------
(* Types, and what lies in the queue.                                      *)

(* The queue holds the commands sent last, in their order.                 *)
UpTo(q, top) == Len(q) <= top /\ \A i \in 1..Len(q) : q[i].number = (top - Len(q)) + i
Numbered == UpTo(queue, sent)

(* All of q is in r, at the same places.                                   *)
Stays(q, r) == \A i \in 1..Len(q) : i \in 1..Len(r) /\ r[i] = q[i]

LEMMA EnqueueType ==
  ASSUME NEW S, NEW q \in Seq(S), NEW m \in S, Len(q) <= QueueSize
  PROVE  Enqueue(q, m) \in Seq(S) /\ Len(Enqueue(q, m)) <= QueueSize
<1>1. QueueSize \in Nat \ {0} /\ Len(q) \in Nat
  BY CoverAssumption, LenProperties
<1>2. CASE Len(q) < QueueSize
  BY <1>1, <1>2, AppendProperties DEF Enqueue
<1>3. CASE ~(Len(q) < QueueSize)
  <2>1. Len(q) = QueueSize /\ q # <<>>
    BY <1>1, <1>3, EmptySeq, SMT
  <2>2. Tail(q) \in Seq(S) /\ Len(Tail(q)) = Len(q) - 1
    BY <2>1, HeadTailProperties
  <2>3. Append(Tail(q), m) \in Seq(S) /\ Len(Append(Tail(q), m)) = Len(Tail(q)) + 1
    BY <2>2, AppendProperties
  <2> QED
    BY <1>1, <1>3, <2>1, <2>2, <2>3, SMT DEF Enqueue
<1> QED
  BY <1>2, <1>3

LEMMA TidRange == ASSUME tid \in 0..(TidModulus - 1) PROVE (tid + 1) % TidModulus \in 0..(TidModulus - 1)
<1>1. TidModulus \in Nat \ {0}
  BY CoverAssumption
<1>2. ASSUME NEW k \in Int, NEW m \in Nat \ {0} PROVE k % m \in 0..(m - 1)
  BY SMT
<1>3. tid + 1 \in Int
  BY <1>1, SMT
<1> QED
  BY <1>1, <1>2, <1>3

LEMMA PublishType ==
  ASSUME NEW c \in CommandType, NEW success \in BOOLEAN, PublishResult(c, success),
         results \subseteq (0..MaxCommands) \X BOOLEAN
  PROVE  /\ phase' = "idle" /\ command' \in CommandType
         /\ results' \subseteq (0..MaxCommands) \X BOOLEAN
<1>1. NoCommand \in CommandType
  BY CoverAssumption, SMT DEF NoCommand, CommandType, Actions
<1>2. <<c.number, success>> \in (0..MaxCommands) \X BOOLEAN
  BY DEF CommandType
<1> QED
  BY <1>1, <1>2 DEF PublishResult

LEMMA CoverTypes == CoverTypeOK /\ CoverInv' /\ [CoverNext]_coverVars => CoverTypeOK'
<1> SUFFICES ASSUME CoverTypeOK, CoverInv', [CoverNext]_coverVars PROVE CoverTypeOK'
  OBVIOUS
<1> USE DEF CoverTypeOK
<1>0. sockets' \in Nat
  BY DEF CoverInv
<1>1. CASE OnCoverCmd
  <2>1. /\ Head(queue) \in CommandType /\ Tail(queue) \in Seq(CommandType)
        /\ Len(Tail(queue)) <= QueueSize
    <3>1. queue # <<>>
      BY <1>1 DEF OnCoverCmd
    <3>2. /\ Head(queue) \in CommandType /\ Tail(queue) \in Seq(CommandType)
          /\ Len(Tail(queue)) = Len(queue) - 1
      BY <3>1, HeadTailProperties
    <3>3. Len(queue) \in Nat /\ QueueSize \in Nat
      BY CoverAssumption, LenProperties
    <3> QED
      BY <3>2, <3>3, SMT
  <2>2. CASE PublishResult(Head(queue), dryRun)
    BY <1>0, <1>1, <2>1, <2>2, PublishType DEF OnCoverCmd
  <2>3. CASE UNCHANGED results
    BY <1>0, <1>1, <2>1, <2>3, PublishType DEF OnCoverCmd
  <2> QED
    BY <1>1, <2>2, <2>3 DEF OnCoverCmd
<1>2. CASE ConnectFails \/ SendFails
  <2>1. PublishResult(command, FALSE)
    BY <1>2 DEF ConnectFails, SendFails
  <2> QED
    BY <1>0, <1>2, <2>1, PublishType DEF ConnectFails, SendFails
<1>3. CASE Connect
  <2>1. tid' \in 0..(TidModulus - 1)
    BY <1>3, TidRange DEF Connect
  <2> QED
    BY <1>0, <1>3, <2>1 DEF Connect
<1>4. CASE SendRequest
  BY <1>0, <1>4 DEF SendRequest, CommandType
<1>5. CASE Receive
  <2>1. Accepted(reply) \in BOOLEAN /\ PublishResult(command, Accepted(reply))
    BY <1>5 DEF Receive, Accepted
  <2> QED
    BY <1>0, <1>5, <2>1, PublishType DEF Receive
<1>6. ASSUME NEW action \in Actions, SendCommand(action) PROVE CoverTypeOK'
  <2>1. sent + 1 \in 0..MaxCommands
    BY <1>6, CoverAssumption, SMT DEF SendCommand
  <2>2. [number |-> sent + 1, action |-> action] \in CommandType
    BY <2>1 DEF CommandType
  <2>3. queue' \in Seq(CommandType) /\ Len(queue') <= QueueSize
    BY <1>6, <2>2, EnqueueType DEF SendCommand
  <2> QED
    BY <1>0, <1>6, <2>1, <2>3 DEF SendCommand
<1>7. ASSUME NEW n \in 1..MaxCommands, Gateway(n) PROVE CoverTypeOK'
  <2>1. n \in 0..MaxCommands
    BY CoverAssumption, SMT
  <2>2. reply' \in {"none", "done", "short", "other"}
    BY <1>7 DEF Gateway
  <2> QED
    BY <1>0, <1>7, <2>1, <2>2 DEF Gateway
<1>8. CASE UNCHANGED coverVars
  BY <1>8 DEF coverVars
<1> QED
  BY <1>1, <1>2, <1>3, <1>4, <1>5, <1>6, <1>7, <1>8 DEF CoverNext, NodeStep

(* The queue never exceeds its size and every variable keeps its type; the *)
(* number of open descriptors is what needs NoSocketLeft.                  *)
THEOREM TypeCorrect == CoverSpec => []CoverTypeOK
<1>1. CoverInit => CoverTypeOK
  <2>1. 0 \in 0..MaxCommands /\ 1 % TidModulus \in 0..(TidModulus - 1)
    <3>1. ASSUME NEW m \in Nat \ {0} PROVE 1 % m \in 0..(m - 1)
      BY SMT
    <3> QED
      BY <3>1, CoverAssumption, SMT
  <2>2. NoCommand \in CommandType
    BY <2>1 DEF NoCommand, CommandType, Actions
  <2>3. <<>> \in Seq(CommandType) /\ Len(<<>>) <= QueueSize
    BY CoverAssumption, SMT
  <2>4. dryRun \in DryRuns => dryRun \in BOOLEAN
    BY CoverAssumption
  <2> QED
    BY <2>1, <2>2, <2>3, <2>4 DEF CoverInit, CoverTypeOK
<1> QED
  BY <1>1, CoverTypes, CoverInvariant, PTL DEF CoverSpec
-----------------------------------------------------------------------------
(* What becomes of a command.                                              *)

(* Without its head the rest keeps its numbers; a new one continues them.  *)
LEMMA TailNumbered ==
  ASSUME NEW q \in Seq(CommandType), NEW top \in Nat, q # <<>>, UpTo(q, top)
  PROVE  /\ Tail(q) \in Seq(CommandType) /\ UpTo(Tail(q), top)
         /\ Head(q).number = (top - Len(q)) + 1 /\ Head(q) = q[1]
         /\ \A i \in 2..Len(q) : i - 1 \in 1..Len(Tail(q)) /\ Tail(q)[i - 1] = q[i]
<1>1. /\ Tail(q) \in Seq(CommandType) /\ Len(Tail(q)) = Len(q) - 1
      /\ Head(q) = q[1] /\ \A i \in 1..Len(Tail(q)) : Tail(q)[i] = q[i + 1]
  BY HeadTailProperties
<1>2. Len(q) \in Nat /\ Len(q) >= 1
  BY EmptySeq, LenProperties, SMT
<1>3. Len(Tail(q)) <= top
  BY <1>1, <1>2, SMT DEF UpTo
<1>4. ASSUME NEW i \in 1..Len(Tail(q)) PROVE Tail(q)[i].number = (top - Len(Tail(q))) + i
  <2>1. i + 1 \in 1..Len(q) /\ (top - Len(q)) + (i + 1) = (top - Len(Tail(q))) + i
    BY <1>1, <1>2, SMT
  <2>2. q[i + 1].number = (top - Len(q)) + (i + 1)
    BY <2>1 DEF UpTo
  <2> QED
    BY <1>1, <2>1, <2>2
<1>5. 1 \in 1..Len(q)
  BY <1>2, SMT
<1>6. ASSUME NEW i \in 2..Len(q) PROVE i - 1 \in 1..Len(Tail(q)) /\ Tail(q)[i - 1] = q[i]
  <2>1. i - 1 \in 1..Len(Tail(q)) /\ (i - 1) + 1 = i
    BY <1>1, <1>2, SMT
  <2> QED
    BY <1>1, <2>1
<1> QED
  BY <1>1, <1>3, <1>4, <1>5, <1>6 DEF UpTo

LEMMA AppendNumbered ==
  ASSUME NEW q \in Seq(CommandType), NEW top \in Nat, NEW c \in CommandType, NEW r,
         r = Append(q, c), c.number = top + 1, UpTo(q, top)
  PROVE  UpTo(r, top + 1) /\ Stays(q, r)
<1>1. /\ Len(r) = Len(q) + 1 /\ r[Len(q) + 1] = c
      /\ \A i \in 1..Len(q) : r[i] = q[i]
  BY AppendProperties, r = Append(q, c)
<1>2. Len(q) \in Nat
  BY LenProperties
<1>3. Len(r) <= top + 1 /\ (top + 1) - Len(r) = top - Len(q)
  BY <1>1, <1>2, SMT DEF UpTo
<1>4. ASSUME NEW i \in 1..Len(r) PROVE r[i].number = (top - Len(q)) + i
  <2>1. CASE i = Len(q) + 1
    <3>1. (top - Len(q)) + i = top + 1
      BY <1>2, <2>1, SMT
    <3> QED
      BY <1>1, <2>1, <3>1
  <2>2. CASE i \in 1..Len(q)
    BY <1>1, <2>2 DEF UpTo
  <2>3. i = Len(q) + 1 \/ i \in 1..Len(q)
    BY <1>1, <1>2, SMT
  <2> QED
    BY <2>1, <2>2, <2>3
<1>5. \A i \in 1..Len(q) : i \in 1..Len(r)
  BY <1>1, <1>2, SMT
<1> QED
  BY <1>1, <1>3, <1>4, <1>5 DEF UpTo, Stays

(* A command that is sent leaves the others in the queue, except that of a *)
(* full queue the first goes, which QueueSize newer ones then follow.      *)
LEMMA SendingKeeps ==
  ASSUME CoverTypeOK, Numbered, NEW action \in Actions, SendCommand(action)
  PROVE  /\ Numbered'
         /\ \A d \in CommandType : InQueue(d) => InQueue(d)' \/ Outnumbered(d)'
<1> DEFINE c == [number |-> sent + 1, action |-> action]
<1>1. sent \in Nat /\ Len(queue) \in Nat /\ QueueSize \in Nat \ {0} /\ queue \in Seq(CommandType)
  BY CoverAssumption, LenProperties, SMT DEF CoverTypeOK
<1>2. c \in CommandType /\ c.number = sent + 1
  <2>1. sent + 1 \in 0..MaxCommands
    BY CoverAssumption, SMT DEF SendCommand, CoverTypeOK
  <2> QED
    BY <2>1 DEF CommandType
<1>3. sent' = sent + 1 /\ queue' = Enqueue(queue, c)
  BY DEF SendCommand
<1> HIDE DEF c
<1>4. CASE Len(queue) < QueueSize
  <2>1. queue' = Append(queue, c)
    BY <1>3, <1>4 DEF Enqueue
  <2>2. UpTo(queue', sent + 1) /\ Stays(queue, queue')
    <3>1. queue \in Seq(CommandType) /\ sent \in Nat /\ UpTo(queue, sent)
      BY <1>1 DEF Numbered
    <3> QED
      BY <1>2, <2>1, <3>1, AppendNumbered
  <2> QED
    BY <1>3, <2>2 DEF Numbered, InQueue, Stays
<1>5. CASE ~(Len(queue) < QueueSize)
  <2>1. Len(queue) = QueueSize /\ queue # <<>> /\ queue' = Append(Tail(queue), c)
    BY <1>1, <1>3, <1>5, EmptySeq, SMT DEF Enqueue, CoverTypeOK
  <2>2. /\ Tail(queue) \in Seq(CommandType) /\ UpTo(Tail(queue), sent)
        /\ Head(queue).number = (sent - Len(queue)) + 1 /\ Head(queue) = queue[1]
        /\ \A i \in 2..Len(queue) : i - 1 \in 1..Len(Tail(queue)) /\ Tail(queue)[i - 1] = queue[i]
    BY <1>1, <2>1, TailNumbered DEF Numbered
  <2>3. UpTo(queue', sent + 1) /\ Stays(Tail(queue), queue')
    <3>1. sent \in Nat /\ queue' = Append(Tail(queue), c)
      BY <1>1, <2>1
    <3>2. Tail(queue) \in Seq(CommandType) /\ UpTo(Tail(queue), sent)
      BY <2>2
    <3> QED
      BY <1>2, <3>1, <3>2, AppendNumbered
  <2>4. ASSUME NEW d \in CommandType, d = queue[1] PROVE Outnumbered(d)'
    <3>1. d.number = (sent - QueueSize) + 1
      BY <2>1, <2>2, <2>4
    <3>2. sent + 1 >= d.number + QueueSize
      BY <1>1, <3>1, SMT
    <3> QED
      BY <1>3, <3>2 DEF Outnumbered
  <2>5. ASSUME NEW d \in CommandType, NEW i \in 2..Len(queue), d = queue[i] PROVE InQueue(d)'
    <3>1. i - 1 \in 1..Len(queue') /\ queue'[i - 1] = d
      BY <2>2, <2>3, <2>5 DEF Stays
    <3> QED
      BY <3>1 DEF InQueue
  <2>6. \A i \in 1..Len(queue) : i = 1 \/ i \in 2..Len(queue)
    BY <1>1, SMT
  <2>7. Numbered'
    BY <1>3, <2>3 DEF Numbered
  <2> QED
    BY <2>4, <2>5, <2>6, <2>7 DEF InQueue
<1> QED
  BY <1>4, <1>5

LEMMA TakingKeeps ==
  ASSUME CoverTypeOK, Numbered, OnCoverCmd
  PROVE  /\ Numbered'
         /\ \A d \in CommandType : InQueue(d) => d = Head(queue) \/ InQueue(d)'
<1>1. sent \in Nat /\ Len(queue) \in Nat /\ queue \in Seq(CommandType)
  BY CoverAssumption, LenProperties, SMT DEF CoverTypeOK
<1>2. queue # <<>> /\ queue' = Tail(queue) /\ sent' = sent
  BY DEF OnCoverCmd
<1>3. /\ UpTo(Tail(queue), sent)
      /\ Head(queue) = queue[1]
      /\ \A i \in 2..Len(queue) : i - 1 \in 1..Len(Tail(queue)) /\ Tail(queue)[i - 1] = queue[i]
  BY <1>1, <1>2, TailNumbered DEF Numbered
<1>4. \A i \in 1..Len(queue) : i = 1 \/ i \in 2..Len(queue)
  BY <1>1, SMT
<1>5. Numbered'
  BY <1>2, <1>3 DEF Numbered
<1>6. ASSUME NEW d \in CommandType, NEW i \in 1..Len(queue), queue[i] = d
      PROVE  d = Head(queue) \/ InQueue(d)'
  <2>1. CASE i = 1
    BY <1>3, <1>6, <2>1
  <2>2. CASE i \in 2..Len(queue)
    <3>1. i - 1 \in 1..Len(queue') /\ queue'[i - 1] = d
      BY <1>2, <1>3, <1>6, <2>2
    <3> QED
      BY <3>1 DEF InQueue
  <2> QED
    BY <1>4, <2>1, <2>2
<1> QED
  BY <1>5, <1>6 DEF InQueue

LEMMA QueueStep == CoverTypeOK /\ Numbered /\ [CoverNext]_coverVars => Numbered'
<1> SUFFICES ASSUME CoverTypeOK, Numbered, [CoverNext]_coverVars PROVE Numbered'
  OBVIOUS
<1>1. ASSUME NEW action \in Actions, SendCommand(action) PROVE Numbered'
  BY <1>1, SendingKeeps
<1>2. CASE OnCoverCmd
  BY <1>2, TakingKeeps
<1>3. CASE UNCHANGED <<sent, queue>>
  BY <1>3 DEF Numbered
<1> QED
  BY <1>1, <1>2, <1>3 DEF CoverNext, NodeStep, coverVars, ConnectFails, Connect, SendFails,
     SendRequest, Receive, Gateway

LEMMA QueueInvariant == CoverSpec => [](CoverTypeOK /\ Numbered)
<1>1. CoverInit => Numbered
  BY SMT DEF CoverInit, Numbered, UpTo
<1> QED
  BY <1>1, QueueStep, TypeCorrect, PTL DEF CoverSpec

LEMMA PublishAnswers ==
  ASSUME NEW c \in CommandType, NEW success \in BOOLEAN, PublishResult(c, success)
  PROVE  Answered(c)'
  BY DEF PublishResult, Answered

LEMMA KeepingStep == CoverTypeOK /\ Numbered /\ [CoverNext]_coverVars => CommandKept
<1> SUFFICES ASSUME CoverTypeOK, Numbered, [CoverNext]_coverVars PROVE CommandKept
  OBVIOUS
<1>1. ASSUME NEW action \in Actions, SendCommand(action) PROVE CommandKept
  <2>1. \A c \in CommandType : Handled(c) => Handled(c)'
    BY <1>1 DEF SendCommand, Handled
  <2> QED
    BY <1>1, <2>1, SendingKeeps DEF CommandKept
<1>2. CASE OnCoverCmd
  <2>1. phase = "idle" /\ \A c \in CommandType : InQueue(c) => c = Head(queue) \/ InQueue(c)'
    BY <1>2, TakingKeeps DEF OnCoverCmd
  <2>2. ASSUME NEW c \in CommandType, c = Head(queue), c.action # "other"
        PROVE  Handled(c)' \/ Answered(c)'
    <3>1. CASE PublishResult(c, dryRun)
      BY <3>1, PublishAnswers DEF CoverTypeOK
    <3>2. CASE phase' = "connect" /\ command' = c
      BY <3>2 DEF Handled
    <3> QED
      BY <1>2, <2>2, <3>1, <3>2 DEF OnCoverCmd
  <2> QED
    BY <2>1, <2>2 DEF CommandKept, Handled
<1>3. ASSUME queue' = queue, \A c \in CommandType : Handled(c) => Handled(c)' \/ Answered(c)'
      PROVE  CommandKept
  BY <1>3 DEF CommandKept, InQueue
<1>4. CASE ConnectFails \/ SendFails \/ Receive
  <2>1. queue' = queue /\ Accepted(reply) \in BOOLEAN
    BY <1>4 DEF ConnectFails, SendFails, Receive, Accepted
  <2>2. ASSUME NEW c \in CommandType, Handled(c) PROVE Answered(c)'
    <3>1. c = command
      BY <2>2 DEF Handled
    <3>2. PublishResult(c, FALSE) \/ PublishResult(c, Accepted(reply))
      BY <1>4, <3>1 DEF ConnectFails, SendFails, Receive
    <3> QED
      BY <2>1, <3>2, PublishAnswers
  <2> QED
    BY <1>3, <2>1, <2>2
<1>5. CASE Connect \/ SendRequest
  <2>1. \A c \in CommandType : Handled(c) => Handled(c)'
    BY <1>5 DEF Connect, SendRequest, Handled
  <2> QED
    BY <1>3, <1>5, <2>1 DEF Connect, SendRequest
<1>6. CASE (\E n \in 1..MaxCommands : Gateway(n)) \/ UNCHANGED coverVars
  <2>1. \A c \in CommandType : Handled(c) => Handled(c)'
    BY <1>6 DEF Gateway, coverVars, Handled
  <2> QED
    BY <1>3, <1>6, <2>1 DEF Gateway, coverVars
<1> QED
  BY <1>1, <1>2, <1>4, <1>5, <1>6 DEF CoverNext, NodeStep

(* Whatever fails and however many commands come, no command disappears    *)
(* without a result unless QueueSize newer ones were sent.                 *)
THEOREM CommandsAreKept == CoverSpec => NoCommandLost
<1>1. CoverTypeOK /\ Numbered /\ [CoverNext]_coverVars => [CommandKept]_coverVars
  BY KeepingStep
<1> QED
  BY <1>1, QueueInvariant, PTL DEF CoverSpec, NoCommandLost
=============================================================================

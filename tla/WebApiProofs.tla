---------------------------- MODULE WebApiProofs ----------------------------
(***************************************************************************)
(* Safety of the web API bridge for any number of callers, heap blocks and *)
(* calls.                                                                  *)
(*                                                                         *)
(* ReplyQueuesAlive and OwnReplies are not inductive: that a response goes *)
(* to the right reply queue depends on where its caller is, on the owners  *)
(* of all blocks and on the calls being numbered once.  Calls relates the  *)
(* callers to the heap, AllNumbered and Ordered the messages under way to  *)
(* the callers.  Traced follows every response from the message it is for: *)
(* it goes to the caller that waits for it, or it is late.                 *)
(***************************************************************************)
EXTENDS WebApi, TLAPS

-----------------------------------------------------------------------------
(* The inductive invariant. *)

(* A call in progress has a number and owns its reply queue; numbers are   *)
(* given once.                                                             *)
Calls ==
    /\ \A c \in Callers :
          /\ call[c] <= calls
          /\ lastDone[c] <= calls
          /\ pc[c] # "idle" => /\ block[c] \in Blocks
                               /\ call[c] # 0
                               /\ owner[block[c]] = call[c]
          /\ pc[c] \in {"sending", "receiving"} => ret[c] = "none"
          /\ pc[c] = "sending" => lastDone[c] < call[c]
    /\ \A b \in Blocks : owner[b] <= calls
    /\ \A c, d \in Callers : call[c] = call[d] /\ call[c] # 0 => c = d
    /\ \A b, d \in Blocks : owner[b] = owner[d] /\ owner[b] # 0 => b = d

(* What is known of a message whose command has not been answered. *)
Numbered(m) ==
    /\ m.call <= calls
    /\ pc[m.from] = "sending" => m.call < call[m.from]
    /\ \A c \in Callers : m.call = call[c] => c = m.from

AllNumbered == \A m \in Outstanding : Numbered(m)

(* The messages of one caller are under way in the order of its calls, and *)
(* after the last of its commands that was executed.                       *)
Ordered ==
    /\ \A i \in DOMAIN requestQueue :
          /\ lastDone[requestQueue[i].from] < requestQueue[i].call
          /\ \A j \in DOMAIN requestQueue :
                i < j /\ requestQueue[i].from = requestQueue[j].from
                   => requestQueue[i].call < requestQueue[j].call
          /\ WorkerHolds /\ requestQueue[i].from = message.from
                => message.call < requestQueue[i].call
    /\ wpc = "executing" => lastDone[message.from] < message.call

(* The caller of an unanswered message still waits for it. *)
Awaited(m) ==
    /\ owner[m.reply] = m.call
    /\ call[m.from] = m.call
    /\ pc[m.from] = "receiving"
    /\ mailbox[m.reply] = Nil

(* A response in the reply queue, or in the hands, of call n. *)
OwnOrLate(resp, n) ==
    \/ resp.call = n
    \/ resp.call < n /\ LateSince(resp.call)

(* Where a message under way will be answered, and where a response that   *)
(* is under way comes from.  A block is reused by later calls only, so a   *)
(* late response never belongs to a later call than the one that gets it.  *)
Traced ==
    /\ \A m \in Outstanding :
          /\ Awaited(m) \/ LateSince(m.call)
          /\ owner[m.reply] # 0 => m.call <= owner[m.reply]
    /\ wpc = "replying" => response.call = message.call
    /\ \A b \in Blocks : mailbox[b] # Nil => OwnOrLate(mailbox[b], owner[b])
    /\ \A c \in Callers : pc[c] = "sending" /\ mailbox[block[c]] # Nil
                            => mailbox[block[c]].call < call[c]
    /\ \A c \in Callers : got[c] # Nil => OwnOrLate(got[c], call[c])

IInv ==
    /\ TypeOK
    /\ Calls
    /\ AllNumbered
    /\ Ordered
    /\ UnqueuedNeverRuns
    /\ Traced

-----------------------------------------------------------------------------
(* Sequences. *)

(* What Tail leaves of the request queue: every message moves up by one.   *)
LEMMA TailFacts ==
    ASSUME NEW S, NEW q \in Seq(S), q # <<>>
    PROVE  /\ Head(q) \in S /\ Head(q) = q[1] /\ 1 \in DOMAIN q
           /\ Tail(q) \in Seq(S)
           /\ DOMAIN q = 1..Len(q) /\ Len(q) \in Nat \ {0}
           /\ DOMAIN Tail(q) = 1..(Len(q) - 1)
           /\ \A i \in DOMAIN Tail(q) : i + 1 \in DOMAIN q /\ Tail(q)[i] = q[i + 1]
OBVIOUS

(* What Append adds to the request queue: one message, behind the others.  *)
LEMMA AppendFacts ==
    ASSUME NEW S, NEW q \in Seq(S), NEW m \in S
    PROVE  /\ Append(q, m) \in Seq(S)
           /\ DOMAIN q = 1..Len(q) /\ Len(q) \in Nat
           /\ DOMAIN Append(q, m) = 1..(Len(q) + 1)
           /\ \A i \in DOMAIN q : Append(q, m)[i] = q[i]
           /\ Append(q, m)[Len(q) + 1] = m
OBVIOUS

-----------------------------------------------------------------------------
(* Type correctness. *)

(* Every case of the switch answers with one of six status codes. *)
LEMMA StatusRange ==
    ASSUME NEW type \in CmdTypes, NEW http \in HttpStatuses(type)
    PROVE  http \in {200, 202, 400, 401, 404, 500}
<1>1. CASE type = "GET" BY <1>1 DEF HttpStatuses
<1>2. CASE type = "SET_NETWORK" BY <1>2 DEF HttpStatuses
<1>3. CASE type = "REBOOT" BY <1>3 DEF HttpStatuses
<1>4. CASE type = "AUTH_LOGIN" BY <1>4 DEF HttpStatuses
<1>5. CASE type = "AUTH_LOGOUT" BY <1>5 DEF HttpStatuses
<1>6. CASE type = "AUTH_CHANGE_PASSWORD" BY <1>6 DEF HttpStatuses
<1>7. CASE type = "UNSUPPORTED" BY <1>7 DEF HttpStatuses
<1>8. QED BY <1>1, <1>2, <1>3, <1>4, <1>5, <1>6, <1>7 DEF CmdTypes

LEMMA TypeInit == Init => TypeOK
BY WebApiAssumption DEF Init, TypeOK

LEMMA TypeNext == TypeOK /\ Calls /\ [Next]_vars => TypeOK'
<1> SUFFICES ASSUME TypeOK, Calls, [Next]_vars PROVE TypeOK'
  OBVIOUS
<1> USE WebApiAssumption DEF TypeOK
<1>1. ASSUME NEW c \in Callers, NEW b \in Blocks, Call(c, b) PROVE TypeOK'
  BY <1>1 DEF Call, workerVars
<1>2. ASSUME NEW c \in Callers, CallNoMem(c) PROVE TypeOK'
  BY <1>2 DEF CallNoMem, workerVars, heapVars
<1>3. ASSUME NEW c \in Callers, NEW type \in Commands, SendRequest(c, type)
      PROVE TypeOK'
  <2>1. /\ call[c] \in Nat \ {0} /\ block[c] \in Blocks
        /\ [call |-> call[c], from |-> c, type |-> type, reply |-> block[c]]
              \in Messages
    BY <1>3 DEF SendRequest, Messages, Calls
  <2>2. requestQueue' \in Seq(Messages)
    BY <1>3, <2>1, AppendFacts DEF SendRequest
  <2>3. QED
    BY <1>3, <2>2 DEF SendRequest, workerVars, heapVars, historyVars
<1>4. ASSUME NEW c \in Callers, SendTimeout(c) PROVE TypeOK'
  BY <1>4 DEF SendTimeout, FreeBlock, workerVars, historyVars
<1>5. ASSUME NEW c \in Callers, ReceiveReply(c) PROVE TypeOK'
  BY <1>5 DEF ReceiveReply, Calls, workerVars, historyVars
<1>6. ASSUME NEW c \in Callers, ReceiveTimeout(c) PROVE TypeOK'
  BY <1>6 DEF ReceiveTimeout, workerVars, heapVars
<1>7. ASSUME NEW c \in Callers, DeleteReplyQueue(c) PROVE TypeOK'
  BY <1>7 DEF DeleteReplyQueue, FreeBlock, workerVars, historyVars
<1>8. CASE ReceiveRequest
  <2>1. Head(requestQueue) \in Messages /\ Tail(requestQueue) \in Seq(Messages)
    BY <1>8, TailFacts DEF ReceiveRequest
  <2>2. message' \in Messages /\ message' # Nil
    BY <1>8, <2>1, NilAssumption DEF ReceiveRequest
  <2>3. QED
    BY <1>8, <2>1, <2>2 DEF ReceiveRequest, heapVars, callerVars, historyVars
<1>9. CASE Execute
  <2>1. message \in Messages /\ message.from \in Callers
    BY <1>9 DEF Execute, Messages
  <2>2. PICK http \in HttpStatuses(message.type) :
           response' = [call |-> message.call, http_status |-> http,
                        schedule_reboot |-> SchedulesReboot(http)]
    BY <1>9 DEF Execute
  <2>3. message.type \in CmdTypes
    BY <2>1 DEF Messages
  <2>4. http \in {200, 202, 400, 401, 404, 500}
    BY <2>2, <2>3, StatusRange
  <2> DEFINE schedule == SchedulesReboot(http)
  <2>5. schedule \in BOOLEAN
    BY DEF SchedulesReboot
  <2>6. response' = [call |-> message.call, http_status |-> http,
                     schedule_reboot |-> schedule]
    BY <2>2
  <2>7. message.call \in Nat \ {0}
    BY <2>1 DEF Messages
  <2> HIDE DEF schedule
  <2>8. response' \in Responses /\ response' # Nil
    BY <2>4, <2>5, <2>6, <2>7, NilAssumption DEF Responses
  <2>9. lastDone' \in [Callers -> Nat]
    BY <1>9, <2>1 DEF Execute, Messages
  <2>10. QED
    BY <1>9, <2>8, <2>9 DEF Execute, heapVars, callerVars
<1>10. CASE Reply
  BY <1>10 DEF Reply, AfterReply, callerVars, historyVars
<1>11. CASE ReplyTimeout
  BY <1>11 DEF ReplyTimeout, AfterReply, heapVars, callerVars, historyVars
<1>12. CASE ReplyDangling
  BY <1>12 DEF ReplyDangling, AfterReply, heapVars, callerVars, historyVars
<1>13. CASE ScheduleReboot
  BY <1>13 DEF ScheduleReboot, heapVars, callerVars, historyVars
<1>14. CASE ScheduleRebootFails
  BY <1>14 DEF ScheduleRebootFails, heapVars, callerVars, historyVars
<1>15. CASE Restart
  BY <1>15 DEF Restart
<1>16. CASE UNCHANGED vars
  BY <1>16 DEF vars
<1>17. QED
  BY <1>1, <1>2, <1>3, <1>4, <1>5, <1>6, <1>7, <1>8, <1>9, <1>10, <1>11,
     <1>12, <1>13, <1>14, <1>15, <1>16
  DEF Next, CallerStep, WorkerStep, DelayedReboot, DanglingPanic

-----------------------------------------------------------------------------
(* The messages under way. *)

Sent(c, type) ==
    [call |-> call[c], from |-> c, type |-> type, reply |-> block[c]]

(* A message under way is a message. *)
LEMMA OutstandingMessages ==
    ASSUME TypeOK, NEW m \in Outstanding
    PROVE  /\ m \in Messages
           /\ m.call \in Nat \ {0} /\ m.from \in Callers /\ m.reply \in Blocks
<1>1. m \in Messages
  BY DEF TypeOK, Outstanding, WorkerHolds
<1>2. QED
  BY <1>1 DEF Messages

(* Only SendRequest adds a message. *)
LEMMA OutstandingNext ==
    ASSUME TypeOK, [Next]_vars, NEW m \in Outstanding'
    PROVE  \/ m \in Outstanding
           \/ \E c \in Callers, type \in Commands :
                 SendRequest(c, type) /\ m = Sent(c, type)
<1> SUFFICES ASSUME ~ \E c \in Callers, type \in Commands :
                         SendRequest(c, type) /\ m = Sent(c, type)
             PROVE  m \in Outstanding
  OBVIOUS
<1>1. ASSUME NEW c \in Callers, NEW type \in Commands, SendRequest(c, type)
      PROVE  m \in Outstanding
  <2>1. block[c] \in Blocks \cup {Nil} /\ requestQueue \in Seq(Messages)
    BY DEF TypeOK
  <2>2. requestQueue' = Append(requestQueue, Sent(c, type)) /\ UNCHANGED <<wpc, message>>
    BY <1>1 DEF SendRequest, Sent, workerVars
  <2>3. DOMAIN requestQueue = 1..Len(requestQueue)
        /\ DOMAIN requestQueue' = 1..(Len(requestQueue) + 1)
        /\ requestQueue'[Len(requestQueue) + 1] = Sent(c, type)
        /\ \A i \in DOMAIN requestQueue : requestQueue'[i] = requestQueue[i]
    BY <2>1, <2>2
  <2>4. m # Sent(c, type)
    BY <1>1
  <2>5. QED
    BY <2>1, <2>2, <2>3, <2>4 DEF Outstanding, WorkerHolds
<1>2. CASE ReceiveRequest
  <2>1. requestQueue \in Seq(Messages) /\ requestQueue # <<>>
    BY <1>2 DEF TypeOK, ReceiveRequest
  <2>2. message' = requestQueue[1] /\ requestQueue' = Tail(requestQueue)
    BY <1>2, <2>1, TailFacts DEF ReceiveRequest
  <2>3. 1 \in DOMAIN requestQueue
        /\ \A i \in DOMAIN requestQueue' :
              i + 1 \in DOMAIN requestQueue /\ requestQueue'[i] = requestQueue[i + 1]
    BY <2>1, <2>2, TailFacts
  <2>4. QED
    BY <2>2, <2>3 DEF Outstanding
<1>3. CASE Restart
  BY <1>3 DEF Restart, Outstanding, WorkerHolds
<1>4. CASE UNCHANGED requestQueue /\ (WorkerHolds' => WorkerHolds /\ UNCHANGED message)
  BY <1>4 DEF Outstanding
<1>5. ASSUME NEW c \in Callers, CallNoMem(c) \/ SendTimeout(c) \/ ReceiveReply(c)
                                  \/ ReceiveTimeout(c) \/ DeleteReplyQueue(c)
      PROVE  m \in Outstanding
  BY <1>4, <1>5 DEF CallNoMem, SendTimeout, ReceiveReply, ReceiveTimeout,
     DeleteReplyQueue, workerVars, WorkerHolds
<1>6. ASSUME NEW c \in Callers, NEW b \in Blocks, Call(c, b)
      PROVE  m \in Outstanding
  BY <1>4, <1>6 DEF Call, workerVars, WorkerHolds
<1>7. CASE Execute \/ Reply \/ ReplyTimeout \/ ReplyDangling
            \/ ScheduleReboot \/ ScheduleRebootFails
  BY <1>4, <1>7 DEF Execute, Reply, ReplyTimeout, ReplyDangling, AfterReply,
     ScheduleReboot, ScheduleRebootFails, WorkerHolds
<1>8. CASE UNCHANGED vars
  BY <1>4, <1>8 DEF vars, WorkerHolds
<1>9. QED
  BY <1>1, <1>2, <1>3, <1>5, <1>6, <1>7, <1>8
  DEF Next, CallerStep, WorkerStep, DelayedReboot, DanglingPanic

(* A reply queue is given to a new call, goes on, or is deleted. *)
LEMMA OwnerChange ==
    ASSUME TypeOK, [Next]_vars, NEW b \in Blocks
    PROVE  owner'[b] \in {owner[b], 0, calls + 1}
<1> USE DEF TypeOK
<1>1. ASSUME NEW c \in Callers, NEW d \in Blocks, Call(c, d)
      PROVE  owner'[b] \in {owner[b], calls + 1}
  BY <1>1 DEF Call
<1>2. ASSUME NEW c \in Callers, SendTimeout(c) \/ DeleteReplyQueue(c)
      PROVE  owner'[b] \in {owner[b], 0}
  BY <1>2 DEF SendTimeout, DeleteReplyQueue, FreeBlock
<1>3. CASE Restart
  BY <1>3 DEF Restart
<1>4. QED
  BY <1>1, <1>2, <1>3
  DEF Next, CallNoMem, CallerStep, SendRequest, ReceiveReply, ReceiveTimeout,
      WorkerStep, ReceiveRequest, Execute, Reply, ReplyTimeout, ReplyDangling,
      ScheduleReboot, ScheduleRebootFails, DelayedReboot, DanglingPanic,
      heapVars, vars

(* What is known of the number of a message stays true. *)
LEMMA NumberedNext ==
    ASSUME TypeOK, TypeOK', Calls, [Next]_vars, ~Restart,
           NEW m \in Messages, Numbered(m)
    PROVE  Numbered(m)'
<1> USE DEF TypeOK, Numbered
<1>0. m.call \in Nat \ {0} /\ m.from \in Callers
  BY DEF Messages
<1>1. ASSUME NEW c \in Callers, NEW b \in Blocks, Call(c, b) PROVE Numbered(m)'
  BY <1>0, <1>1 DEF Call
<1>2. ASSUME NEW c \in Callers, CallNoMem(c) PROVE Numbered(m)'
  BY <1>0, <1>2 DEF CallNoMem
<1>3. ASSUME NEW c \in Callers, CallerStep(c) PROVE Numbered(m)'
  <2>1. UNCHANGED <<call, calls>>
    BY <1>3 DEF CallerStep, SendRequest, SendTimeout, ReceiveReply,
       ReceiveTimeout, DeleteReplyQueue, historyVars
  <2>2. pc'[m.from] = "sending" => pc[m.from] = "sending"
    BY <1>0, <1>3 DEF CallerStep, SendRequest, SendTimeout, ReceiveReply,
       ReceiveTimeout, DeleteReplyQueue
  <2>3. QED
    BY <2>1, <2>2
<1>4. CASE WorkerStep \/ UNCHANGED vars
  BY <1>4 DEF WorkerStep, ReceiveRequest, Execute, Reply, ReplyTimeout,
     ReplyDangling, ScheduleReboot, ScheduleRebootFails, callerVars,
     historyVars, vars
<1>5. QED
  BY <1>1, <1>2, <1>3, <1>4 DEF Next, DelayedReboot, DanglingPanic

-----------------------------------------------------------------------------
(* The steps, one conjunct of the invariant at a time. *)

LEMMA AllNumberedNext ==
    ASSUME TypeOK, TypeOK', Calls, AllNumbered, [Next]_vars
    PROVE  AllNumbered'
<1> SUFFICES ASSUME NEW m \in Outstanding' PROVE Numbered(m)'
  BY DEF AllNumbered
<1>1. CASE Restart
  BY <1>1 DEF Restart, Outstanding, WorkerHolds
<1>2. CASE m \in Outstanding /\ ~Restart
  BY <1>2, OutstandingMessages, NumberedNext DEF AllNumbered
<1>3. ASSUME NEW c \in Callers, NEW type \in Commands, SendRequest(c, type),
             m = Sent(c, type)
      PROVE  Numbered(m)'
  BY <1>3 DEF TypeOK, Calls, SendRequest, Sent, Numbered, historyVars
<1>4. QED
  BY <1>1, <1>2, <1>3, OutstandingNext

(* Numbers stay unique, and a call in progress keeps its reply queue. *)
LEMMA CallsNext ==
    ASSUME TypeOK, TypeOK', Calls, AllNumbered, [Next]_vars
    PROVE  Calls'
<1> USE DEF TypeOK, Calls
<1>1. ASSUME NEW c \in Callers, NEW b \in Blocks, Call(c, b) PROVE Calls'
  <2>1. /\ calls \in Nat /\ calls' = calls + 1 /\ UNCHANGED lastDone
        /\ owner' = [owner EXCEPT ![b] = calls + 1] /\ owner[b] = 0
        /\ call' = [call EXCEPT ![c] = calls + 1]
        /\ block' = [block EXCEPT ![c] = b]
        /\ pc[c] = "idle" /\ pc' = [pc EXCEPT ![c] = "sending"]
        /\ ret' = [ret EXCEPT ![c] = "none"]
    BY <1>1 DEF Call
  <2>2. \A d \in Callers : pc[d] # "idle" => block[d] # b
    BY <2>1
  <2>3. QED
    BY <2>1, <2>2
<1>2. ASSUME NEW c \in Callers, CallNoMem(c) PROVE Calls'
  BY <1>2 DEF CallNoMem, heapVars
<1>3. ASSUME NEW c \in Callers, NEW type \in Commands, SendRequest(c, type)
      PROVE  Calls'
  BY <1>3 DEF SendRequest, heapVars, historyVars
<1>4. ASSUME NEW c \in Callers, SendTimeout(c) \/ DeleteReplyQueue(c)
      PROVE  Calls'
  <2>1. /\ pc[c] # "idle" /\ pc' = [pc EXCEPT ![c] = "idle"]
        /\ owner' = [owner EXCEPT ![block[c]] = 0]
        /\ UNCHANGED <<calls, call, block, lastDone>>
        /\ \A d \in Callers : d # c => ret'[d] = ret[d]
    BY <1>4 DEF SendTimeout, DeleteReplyQueue, FreeBlock, historyVars
  <2>2. \A d \in Callers : d # c /\ pc[d] # "idle" => block[d] # block[c]
    BY <2>1
  <2>3. QED
    BY <2>1, <2>2
<1>5. ASSUME NEW c \in Callers, ReceiveReply(c) PROVE Calls'
  BY <1>5 DEF ReceiveReply, historyVars
<1>6. ASSUME NEW c \in Callers, ReceiveTimeout(c) PROVE Calls'
  BY <1>6 DEF ReceiveTimeout, heapVars
<1>7. CASE Execute
  <2>1. message \in Outstanding
    BY <1>7 DEF Execute, Outstanding, WorkerHolds
  <2>2. /\ message.call \in Nat \ {0} /\ message.from \in Callers
        /\ Numbered(message)
    BY <2>1, OutstandingMessages DEF AllNumbered
  <2>3. QED
    BY <1>7, <2>2 DEF Execute, heapVars, callerVars, Numbered
<1>8. CASE ReceiveRequest \/ ReplyTimeout \/ ReplyDangling
            \/ ScheduleReboot \/ ScheduleRebootFails \/ UNCHANGED vars
  BY <1>8 DEF ReceiveRequest, ReplyTimeout, ReplyDangling, ScheduleReboot,
     ScheduleRebootFails, heapVars, callerVars, historyVars, vars
<1>9. CASE Reply
  BY <1>9 DEF Reply, callerVars, historyVars
<1>10. CASE Restart
  BY <1>10 DEF Restart
<1>11. QED
  BY <1>1, <1>2, <1>3, <1>4, <1>5, <1>6, <1>7, <1>8, <1>9, <1>10
  DEF Next, CallerStep, WorkerStep, DelayedReboot, DanglingPanic

(* The messages of a caller stay in order, and ahead of what it has done. *)
LEMMA OrderedNext ==
    ASSUME TypeOK, Calls, AllNumbered, Ordered, [Next]_vars
    PROVE  Ordered'
<1> DEFINE q == requestQueue
<1>0. /\ q \in Seq(Messages)
      /\ DOMAIN q = 1..Len(q) /\ Len(q) \in Nat
      /\ \A i \in DOMAIN q : q[i] \in Outstanding
      /\ \A i \in DOMAIN q :
            q[i].call \in Nat /\ q[i].from \in Callers /\ Numbered(q[i])
  <2>1. \A i \in DOMAIN q : q[i] \in Outstanding
    BY DEF Outstanding
  <2>2. QED
    BY <2>1, OutstandingMessages DEF TypeOK, AllNumbered
<1>1. ASSUME WorkerHolds
      PROVE  message.call \in Nat /\ message.from \in Callers /\ Numbered(message)
  BY <1>1, OutstandingMessages DEF Outstanding, AllNumbered
<1>2. ASSUME NEW c \in Callers, NEW type \in Commands, SendRequest(c, type)
      PROVE  Ordered'
  <2>1. /\ call[c] \in Nat /\ lastDone[c] \in Nat /\ lastDone[c] < call[c]
        /\ pc[c] = "sending"
    BY <1>2 DEF SendRequest, TypeOK, Calls
  <2>2. /\ UNCHANGED <<wpc, message, lastDone>>
        /\ q' = Append(q, Sent(c, type))
    BY <1>2 DEF SendRequest, Sent, workerVars, historyVars
  <2>3. /\ DOMAIN q' = 1..(Len(q) + 1)
        /\ q'[Len(q) + 1].call = call[c] /\ q'[Len(q) + 1].from = c
        /\ \A i \in DOMAIN q : q'[i] = q[i]
    BY <1>0, <2>2 DEF Sent
  <2>4. \A i \in DOMAIN q : q[i].from = c => q[i].call < call[c]
    BY <1>0, <2>1 DEF Numbered
  <2>5. WorkerHolds /\ message.from = c => message.call < call[c]
    BY <1>1, <2>1 DEF Numbered
  <2>6. QED
    BY <1>0, <2>1, <2>2, <2>3, <2>4, <2>5 DEF Ordered, WorkerHolds
<1>3. CASE ReceiveRequest
  <2>1. /\ q # <<>> /\ UNCHANGED lastDone /\ wpc = "idle"
        /\ message' = q[1] /\ q' = Tail(q)
    BY <1>0, <1>3, TailFacts DEF ReceiveRequest, historyVars
  <2>2. /\ 1 \in DOMAIN q
        /\ DOMAIN q' = 1..(Len(q) - 1)
        /\ \A i \in DOMAIN q' : i + 1 \in DOMAIN q /\ q'[i] = q[i + 1]
    BY <1>0, <2>1, TailFacts
  <2>3. QED
    BY <1>0, <2>1, <2>2 DEF Ordered
<1>4. CASE Execute
  <2>1. /\ UNCHANGED <<requestQueue, message>>
        /\ wpc = "executing" /\ wpc' = "replying" /\ WorkerHolds
        /\ lastDone' = [lastDone EXCEPT ![message.from] = message.call]
    BY <1>4 DEF Execute, WorkerHolds
  <2>2. lastDone \in [Callers -> Nat]
    BY DEF TypeOK
  <2>3. QED
    BY <1>0, <1>1, <2>1, <2>2 DEF Ordered, WorkerHolds
<1>5. CASE Restart
  BY <1>5 DEF Restart, Ordered, WorkerHolds
<1>6. CASE /\ UNCHANGED <<requestQueue, lastDone>>
           /\ wpc' \notin {"executing", "replying"} \/ UNCHANGED <<wpc, message>>
  BY <1>6 DEF Ordered, WorkerHolds
<1>7. ASSUME NEW c \in Callers, NEW b \in Blocks, Call(c, b) PROVE Ordered'
  BY <1>6, <1>7 DEF Call, workerVars, heapVars
<1>8. ASSUME NEW c \in Callers, CallNoMem(c) \/ SendTimeout(c) \/ ReceiveReply(c)
                                  \/ ReceiveTimeout(c) \/ DeleteReplyQueue(c)
      PROVE  Ordered'
  BY <1>6, <1>8 DEF CallNoMem, SendTimeout, ReceiveReply, ReceiveTimeout,
     DeleteReplyQueue, workerVars, historyVars
<1>9. CASE Reply \/ ReplyTimeout \/ ReplyDangling
            \/ ScheduleReboot \/ ScheduleRebootFails \/ UNCHANGED vars
  BY <1>6, <1>9 DEF Reply, ReplyTimeout, ReplyDangling, AfterReply,
     ScheduleReboot, ScheduleRebootFails, historyVars, vars
<1>10. QED
  BY <1>2, <1>3, <1>4, <1>5, <1>7, <1>8, <1>9
  DEF Next, CallerStep, WorkerStep, DelayedReboot, DanglingPanic

(* A call that failed before its message was queued stays unexecuted. *)
LEMMA UnqueuedNext ==
    ASSUME TypeOK, TypeOK', Calls, AllNumbered, UnqueuedNeverRuns, [Next]_vars
    PROVE  UnqueuedNeverRuns'
<1> SUFFICES ASSUME NEW c \in Callers, ret'[c] \in {"timeout", "no_mem"},
                    call'[c] \notin abandoned'
             PROVE  /\ lastDone'[c] # call'[c]
                    /\ \A m \in Outstanding' : m.call # call'[c]
  BY DEF UnqueuedNeverRuns
<1>1. CASE Restart
  BY <1>1 DEF Restart
<1>2. CASE CallNoMem(c)
  <2>1. call'[c] = calls + 1 /\ calls \in Nat /\ lastDone' = lastDone
    BY <1>2 DEF CallNoMem, TypeOK
  <2>2. \A m \in Outstanding : m.call \in Nat /\ m.call <= calls
    BY OutstandingMessages DEF AllNumbered, Numbered
  <2>3. lastDone[c] \in Nat /\ lastDone[c] <= calls
    BY DEF TypeOK, Calls
  <2>4. Outstanding' = Outstanding
    BY <1>2 DEF CallNoMem, Outstanding, WorkerHolds, workerVars
  <2>5. QED
    BY <2>1, <2>2, <2>3, <2>4
<1>3. CASE SendTimeout(c)
  <2>1. UNCHANGED <<call, lastDone, requestQueue, wpc, message>> /\ pc[c] = "sending"
    BY <1>3 DEF SendTimeout, workerVars, historyVars
  <2>2. \A m \in Outstanding : m.call # call[c]
    <3> SUFFICES ASSUME NEW m \in Outstanding, m.call = call[c] PROVE FALSE
      OBVIOUS
    <3>1. Numbered(m) /\ m.call \in Nat
      BY OutstandingMessages DEF AllNumbered
    <3>2. m.from = c
      BY <3>1 DEF Numbered
    <3>3. QED
      BY <2>1, <3>1, <3>2 DEF Numbered
  <2>3. lastDone[c] # call[c]
    BY <2>1 DEF Calls, TypeOK
  <2>4. Outstanding' = Outstanding
    BY <2>1 DEF Outstanding, WorkerHolds
  <2>5. QED
    BY <2>1, <2>2, <2>3, <2>4
<1>4. ASSUME /\ ret[c] \in {"timeout", "no_mem"} /\ call[c] \notin abandoned
             /\ call'[c] = call[c] /\ ~Restart
      PROVE  /\ lastDone'[c] # call'[c]
             /\ \A m \in Outstanding' : m.call # call'[c]
  <2>1. lastDone[c] # call[c] /\ \A m \in Outstanding : m.call # call[c]
    BY <1>4 DEF UnqueuedNeverRuns
  <2>2. ASSUME NEW d \in Callers, NEW type \in Commands, SendRequest(d, type)
        PROVE  call[d] # call[c]
    BY <1>4, <2>2 DEF SendRequest, Calls
  <2>3. \A m \in Outstanding' : m.call # call[c]
    BY <2>1, <2>2, OutstandingNext DEF Sent
  <2>4. CASE Execute
    <3>1. message \in Outstanding /\ message.from \in Callers
      BY <2>4, OutstandingMessages DEF Execute, Outstanding, WorkerHolds
    <3>2. lastDone'[c] = lastDone[c] \/ lastDone'[c] = message.call
      BY <2>4, <3>1 DEF Execute, TypeOK
    <3>3. QED
      BY <1>4, <2>1, <2>3, <3>1, <3>2
  <2>5. CASE UNCHANGED lastDone
    BY <1>4, <2>1, <2>3, <2>5
  <2>6. UNCHANGED lastDone \/ Execute
    BY <1>4 DEF Next, Call, CallNoMem, CallerStep, SendRequest, SendTimeout,
       ReceiveReply, ReceiveTimeout, DeleteReplyQueue, WorkerStep,
       ReceiveRequest, Reply, ReplyTimeout, ReplyDangling, ScheduleReboot,
       ScheduleRebootFails, DelayedReboot, DanglingPanic, historyVars, vars
  <2>7. QED
    BY <2>4, <2>5, <2>6
<1>5. \/ Restart \/ CallNoMem(c) \/ SendTimeout(c)
      \/ /\ ret[c] \in {"timeout", "no_mem"} /\ call[c] \notin abandoned
         /\ call'[c] = call[c]
  <2> USE DEF TypeOK
  <2>1. ASSUME NEW d \in Callers, NEW b \in Blocks, Call(d, b) PROVE d # c
    BY <2>1 DEF Call
  <2>2. ~ReceiveReply(c)
    BY DEF ReceiveReply
  <2>8. ~ReceiveTimeout(c)
    BY DEF ReceiveTimeout
  <2>3. ASSUME NEW d \in Callers, NEW b \in Blocks, Call(d, b), d # c
        PROVE  ret'[c] = ret[c] /\ call'[c] = call[c] /\ abandoned \subseteq abandoned'
    BY <2>3 DEF Call
  <2>4. ASSUME (\E type \in Commands : SendRequest(c, type)) \/ DeleteReplyQueue(c)
        PROVE  ret'[c] = ret[c] /\ call'[c] = call[c] /\ abandoned \subseteq abandoned'
    BY <2>4 DEF SendRequest, DeleteReplyQueue, historyVars
  <2>5. CASE WorkerStep \/ UNCHANGED vars
    BY <2>5 DEF WorkerStep, ReceiveRequest, Execute, Reply, ReplyTimeout,
       ReplyDangling, ScheduleReboot, ScheduleRebootFails, callerVars,
       historyVars, vars
  <2>6. ASSUME NEW d \in Callers, CallNoMem(d) \/ CallerStep(d), d # c
        PROVE  ret'[c] = ret[c] /\ call'[c] = call[c] /\ abandoned \subseteq abandoned'
    <3>1. ASSUME CallNoMem(d) \/ ReceiveTimeout(d)
          PROVE  ret'[c] = ret[c] /\ call'[c] = call[c] /\ abandoned \subseteq abandoned'
      BY <2>6, <3>1 DEF CallNoMem, ReceiveTimeout
    <3>2. ASSUME (\E type \in Commands : SendRequest(d, type)) \/ SendTimeout(d)
                    \/ ReceiveReply(d) \/ DeleteReplyQueue(d)
          PROVE  ret'[c] = ret[c] /\ call'[c] = call[c] /\ abandoned \subseteq abandoned'
      BY <2>6, <3>2 DEF SendRequest, SendTimeout, ReceiveReply,
         DeleteReplyQueue, historyVars
    <3>3. QED
      BY <2>6, <3>1, <3>2 DEF CallerStep
  <2>7. QED
    BY <2>1, <2>2, <2>3, <2>4, <2>5, <2>6, <2>8
    DEF Next, CallerStep, DelayedReboot, DanglingPanic
<1>6. QED
  BY <1>1, <1>2, <1>3, <1>4, <1>5

(* What is late stays late until the restart. *)
LEMMA LateNext ==
    ASSUME [Next]_vars, ~Restart
    PROVE  /\ abandoned \subseteq abandoned'
           /\ \A n : LateSince(n) => LateSince(n)'
<1>1. abandoned \subseteq abandoned'
  BY DEF Next, Call, CallNoMem, CallerStep, SendRequest, SendTimeout,
     ReceiveReply, ReceiveTimeout, DeleteReplyQueue, WorkerStep,
     ReceiveRequest, Execute, Reply, ReplyTimeout, ReplyDangling,
     ScheduleReboot, ScheduleRebootFails, DelayedReboot, DanglingPanic,
     historyVars, vars
<1>2. QED
  BY <1>1 DEF LateSince

(* The calls made after a late one are late. *)
LEMMA LateMonotone ==
    ASSUME TypeOK, NEW m \in Nat, NEW n \in Nat, m <= n, LateSince(m)
    PROVE  LateSince(n)
BY DEF TypeOK, LateSince

(* The caller of an unanswered message goes on waiting in the reply queue  *)
(* the message names, or gives up.                                         *)
LEMMA AwaitedNext ==
    ASSUME TypeOK, Calls, [Next]_vars, ~Restart, ~Reply,
           NEW m \in Messages, Numbered(m), Awaited(m)
    PROVE  Awaited(m)' \/ LateSince(m.call)'
<1> USE DEF TypeOK, Awaited
<1>0. m.call \in Nat \ {0} /\ m.from \in Callers /\ m.reply \in Blocks
  BY DEF Messages
<1>1. ASSUME NEW c \in Callers, NEW b \in Blocks, Call(c, b) PROVE Awaited(m)'
  BY <1>0, <1>1 DEF Call
<1>2. ASSUME NEW c \in Callers, CallNoMem(c) PROVE Awaited(m)'
  BY <1>0, <1>2 DEF CallNoMem, heapVars
<1>3. ASSUME NEW c \in Callers, NEW type \in Commands, SendRequest(c, type)
      PROVE  Awaited(m)'
  BY <1>0, <1>3 DEF SendRequest, heapVars
<1>4. ASSUME NEW c \in Callers, SendTimeout(c) \/ DeleteReplyQueue(c)
      PROVE  Awaited(m)'
  <2>1. /\ pc[c] \in {"sending", "deleting"} /\ pc' = [pc EXCEPT ![c] = "idle"]
        /\ owner' = [owner EXCEPT ![block[c]] = 0]
        /\ mailbox' = [mailbox EXCEPT ![block[c]] = Nil]
        /\ UNCHANGED call
    BY <1>4 DEF SendTimeout, DeleteReplyQueue, FreeBlock
  <2>2. c # m.from /\ owner[block[c]] = call[c]
    BY <2>1 DEF Calls
  <2>3. block[c] # m.reply
    BY <1>0, <2>2 DEF Numbered
  <2>4. QED
    BY <1>0, <2>1, <2>2, <2>3
<1>5. ASSUME NEW c \in Callers, ReceiveReply(c) PROVE Awaited(m)'
  <2>1. c # m.from
    <3>1. SUFFICES ASSUME c = m.from PROVE FALSE
      OBVIOUS
    <3>2. block[c] \in Blocks /\ owner[block[c]] = owner[m.reply]
      BY <1>5, <3>1 DEF ReceiveReply, Calls
    <3>3. block[c] = m.reply
      BY <1>0, <3>2 DEF Calls
    <3>4. QED
      BY <1>5, <3>3 DEF ReceiveReply
  <2>2. QED
    BY <1>0, <1>5, <2>1 DEF ReceiveReply
<1>6. ASSUME NEW c \in Callers, ReceiveTimeout(c)
      PROVE  Awaited(m)' \/ LateSince(m.call)'
  <2>1. CASE c = m.from
    BY <1>0, <1>6, <2>1 DEF ReceiveTimeout, LateSince
  <2>2. CASE c # m.from
    BY <1>0, <1>6, <2>2 DEF ReceiveTimeout, heapVars
  <2>3. QED
    BY <2>1, <2>2
<1>7. CASE WorkerStep \/ UNCHANGED vars
  BY <1>7 DEF WorkerStep, ReceiveRequest, Execute, ReplyTimeout,
     ReplyDangling, ScheduleReboot, ScheduleRebootFails, callerVars, heapVars,
     vars
<1>8. QED
  BY <1>1, <1>2, <1>3, <1>4, <1>5, <1>6, <1>7
  DEF Next, CallerStep, DelayedReboot, DanglingPanic

(* After a reply a message left has still its empty reply queue, unless    *)
(* the reply was late.                                                     *)
LEMMA AwaitedReply ==
    ASSUME TypeOK, Calls, AllNumbered, Ordered, Traced, Reply,
           NEW m \in Outstanding', Awaited(m)
    PROVE  Awaited(m)' \/ LateSince(m.call)'
<1>1. UNCHANGED <<requestQueue, owner, call, pc>> /\ ~WorkerHolds'
  BY DEF Reply, AfterReply, WorkerHolds, callerVars
<1>2. PICK i \in DOMAIN requestQueue : m = requestQueue[i]
  BY <1>1 DEF Outstanding
<1>3. m \in Outstanding /\ message \in Outstanding /\ WorkerHolds
  BY <1>2 DEF Reply, Outstanding, WorkerHolds
<1>4. /\ m.call \in Nat \ {0} /\ message.call \in Nat \ {0}
      /\ m.from \in Callers /\ message.from \in Callers
      /\ m.reply \in Blocks /\ message.reply \in Blocks
      /\ Awaited(m) /\ Numbered(m) /\ Numbered(message)
      /\ Awaited(message) \/ LateSince(message.call)
      /\ owner[message.reply] # 0 => message.call <= owner[message.reply]
  BY <1>3, OutstandingMessages DEF AllNumbered, Traced
<1>5. CASE m.reply = message.reply
  <2>1. message.call <= m.call
    BY <1>4, <1>5 DEF Awaited
  <2>2. ~Awaited(message)
    <3>1. SUFFICES ASSUME Awaited(message) PROVE FALSE
      OBVIOUS
    <3>2. m.call = message.call /\ m.from = message.from
      BY <1>4, <1>5, <3>1 DEF Awaited, Numbered
    <3>3. QED
      BY <1>2, <1>3, <1>4, <3>2 DEF Ordered
  <2>3. LateSince(m.call)
    BY <1>4, <2>1, <2>2, LateMonotone
  <2>4. QED
    BY <2>3 DEF Reply, historyVars, LateSince
<1>6. CASE m.reply # message.reply
  BY <1>1, <1>4, <1>6 DEF Reply, Awaited, TypeOK
<1>7. QED
  BY <1>5, <1>6

(* A reply is at most as late as the queue that gets it is recycled. *)
LEMMA ReplyFacts ==
    ASSUME TypeOK, AllNumbered, Traced, Reply
    PROVE  /\ message \in Outstanding /\ message.call \in Nat \ {0}
           /\ message.from \in Callers /\ message.reply \in Blocks
           /\ response.call = message.call /\ Numbered(message)
           /\ OwnOrLate(response, owner[message.reply])
           /\ message.call <= owner[message.reply]
           /\ mailbox' = [mailbox EXCEPT ![message.reply] = response]
           /\ UNCHANGED <<owner, callerVars, historyVars>>
<1>1. message \in Outstanding
  BY DEF Reply, Outstanding, WorkerHolds
<1>2. /\ message.call \in Nat \ {0} /\ message.from \in Callers
      /\ message.reply \in Blocks /\ Numbered(message)
  BY <1>1, OutstandingMessages DEF AllNumbered
<1>3. /\ response.call = message.call /\ owner[message.reply] \in Nat
      /\ message.call <= owner[message.reply]
      /\ Awaited(message) \/ LateSince(message.call)
  BY <1>1, <1>2 DEF Reply, Traced, TypeOK
<1>4. OwnOrLate(response, owner[message.reply])
  BY <1>2, <1>3 DEF OwnOrLate, Awaited
<1>5. QED
  BY <1>1, <1>2, <1>3, <1>4 DEF Reply

(* Responses are where Traced says, one conjunct after the other. *)
LEMMA MessagesTraced ==
    ASSUME TypeOK, TypeOK', Calls, AllNumbered, Ordered, Traced, [Next]_vars,
           ~Restart, NEW m \in Outstanding'
    PROVE  /\ Awaited(m)' \/ LateSince(m.call)'
           /\ owner'[m.reply] # 0 => m.call <= owner'[m.reply]
<1>1. ASSUME NEW c \in Callers, NEW type \in Commands, SendRequest(c, type),
             m = Sent(c, type)
      PROVE  /\ Awaited(m)' \/ LateSince(m.call)'
             /\ owner'[m.reply] # 0 => m.call <= owner'[m.reply]
  <2>1. /\ pc[c] = "sending" /\ pc'[c] = "receiving"
        /\ m.call = call[c] /\ m.from = c /\ m.reply = block[c]
        /\ UNCHANGED <<heapVars, call, historyVars>>
    BY <1>1 DEF SendRequest, Sent, TypeOK
  <2>2. block[c] \in Blocks /\ owner[block[c]] = call[c] /\ call[c] \in Nat
    BY <2>1 DEF Calls, TypeOK
  <2>3. CASE mailbox[block[c]] = Nil
    BY <2>1, <2>2, <2>3 DEF Awaited, heapVars
  <2>4. CASE mailbox[block[c]] # Nil
    <3>1. /\ mailbox[block[c]] \in Responses
          /\ mailbox[block[c]].call \in Nat
      BY <2>2, <2>4 DEF TypeOK, Responses
    <3>2. mailbox[block[c]].call < call[c] /\ LateSince(mailbox[block[c]].call)
      BY <2>1, <2>2, <2>4, <3>1 DEF Traced, OwnOrLate
    <3>3. LateSince(call[c])
      BY <2>2, <3>1, <3>2, LateMonotone
    <3>4. QED
      BY <2>1, <2>2, <3>3 DEF LateSince, heapVars, historyVars
  <2>5. QED
    BY <2>3, <2>4
<1>2. ASSUME m \in Outstanding
      PROVE  /\ m \in Messages /\ m.call \in Nat \ {0} /\ m.reply \in Blocks
             /\ Numbered(m)
             /\ Awaited(m) \/ LateSince(m.call)
             /\ owner[m.reply] # 0 => m.call <= owner[m.reply]
  BY <1>2, OutstandingMessages DEF Traced, AllNumbered
<1>3. ASSUME m \in Outstanding PROVE Awaited(m)' \/ LateSince(m.call)'
  <2>1. CASE LateSince(m.call)
    BY <2>1, LateNext
  <2>2. CASE Awaited(m) /\ Reply
    BY <2>2, AwaitedReply
  <2>3. CASE Awaited(m) /\ ~Reply
    BY <1>2, <1>3, <2>3, AwaitedNext
  <2>4. QED
    BY <1>2, <1>3, <2>1, <2>2, <2>3
<1>4. ASSUME m \in Outstanding
      PROVE  owner'[m.reply] # 0 => m.call <= owner'[m.reply]
  <2>1. \/ owner'[m.reply] = owner[m.reply] \/ owner'[m.reply] = 0
        \/ owner'[m.reply] = calls + 1
    BY <1>2, <1>4, OwnerChange
  <2>2. m.call <= calls /\ calls \in Nat
    BY <1>2, <1>4 DEF Numbered, TypeOK
  <2>3. QED
    BY <1>2, <1>4, <2>1, <2>2
<1>5. QED
  BY <1>1, <1>3, <1>4, OutstandingNext

LEMMA MailboxesTraced ==
    ASSUME TypeOK, TypeOK', Calls, AllNumbered, Traced, [Next]_vars, ~Restart,
           NEW b \in Blocks, mailbox'[b] # Nil
    PROVE  OwnOrLate(mailbox[b], owner[b])'
<1> USE DEF TypeOK
<1>1. CASE Reply
  <2>1. CASE b = message.reply
    BY <1>1, <2>1, ReplyFacts, LateNext DEF OwnOrLate
  <2>2. CASE b # message.reply
    BY <1>1, <2>2, ReplyFacts, LateNext DEF Traced, OwnOrLate
  <2>3. QED
    BY <2>1, <2>2
<1>2. CASE mailbox'[b] = mailbox[b] /\ owner'[b] = owner[b]
  BY <1>2, LateNext DEF Traced, OwnOrLate
<1>3. mailbox'[b] = Nil \/ (mailbox'[b] = mailbox[b] /\ owner'[b] = owner[b]) \/ Reply
  <2>1. ASSUME NEW c \in Callers, NEW d \in Blocks, Call(c, d)
        PROVE  mailbox'[b] = Nil \/ (mailbox'[b] = mailbox[b] /\ owner'[b] = owner[b])
    BY <2>1 DEF Call
  <2>2. ASSUME NEW c \in Callers, SendTimeout(c) \/ DeleteReplyQueue(c)
        PROVE  mailbox'[b] = Nil \/ (mailbox'[b] = mailbox[b] /\ owner'[b] = owner[b])
    BY <2>2 DEF SendTimeout, DeleteReplyQueue, FreeBlock
  <2>3. ASSUME NEW c \in Callers, ReceiveReply(c)
        PROVE  mailbox'[b] = Nil \/ (mailbox'[b] = mailbox[b] /\ owner'[b] = owner[b])
    BY <2>3 DEF ReceiveReply
  <2>4. QED
    BY <2>1, <2>2, <2>3 DEF Next, CallNoMem, CallerStep, SendRequest,
       ReceiveTimeout, WorkerStep, ReceiveRequest, Execute, ReplyTimeout,
       ReplyDangling, ScheduleReboot, ScheduleRebootFails, DelayedReboot,
       DanglingPanic, heapVars, vars
<1>4. QED
  BY <1>1, <1>2, <1>3

(* While its caller has not sent, nothing in a reply queue is its own. *)
LEMMA UnsentTraced ==
    ASSUME TypeOK, TypeOK', Calls, AllNumbered, Traced, [Next]_vars, ~Restart,
           NEW c \in Callers, pc'[c] = "sending", mailbox'[block'[c]] # Nil
    PROVE  mailbox'[block'[c]].call < call'[c]
<1> USE DEF TypeOK
<1>1. ASSUME NEW d \in Callers, NEW b \in Blocks, Call(d, b)
      PROVE  mailbox'[block'[c]].call < call'[c]
  BY <1>1 DEF Call, Traced, Calls
<1>2. ASSUME NEW d \in Callers, SendTimeout(d) \/ DeleteReplyQueue(d)
      PROVE  mailbox'[block'[c]].call < call'[c]
  <2>1. /\ block[d] \in Blocks /\ pc' = [pc EXCEPT ![d] = "idle"]
        /\ mailbox' = [mailbox EXCEPT ![block[d]] = Nil]
        /\ UNCHANGED <<call, block>>
    BY <1>2 DEF SendTimeout, DeleteReplyQueue, FreeBlock, Calls
  <2>2. pc[c] = "sending" /\ block[c] \in Blocks
    BY <2>1 DEF Calls
  <2>3. mailbox'[block[c]] = mailbox[block[c]]
    BY <2>1, <2>2
  <2>4. QED
    BY <2>1, <2>2, <2>3 DEF Traced
<1>3. ASSUME NEW d \in Callers, ReceiveReply(d)
      PROVE  mailbox'[block'[c]].call < call'[c]
  BY <1>3 DEF ReceiveReply, Traced, Calls
<1>4. CASE Reply
  <2>1. /\ pc[c] = "sending" /\ block[c] \in Blocks
        /\ owner[block[c]] = call[c] /\ call[c] \in Nat
        /\ UNCHANGED <<block, call>>
    BY <1>4, ReplyFacts DEF Calls, callerVars
  <2>2. CASE block[c] = message.reply
    <3>1. message.call # call[c]
      <4>1. SUFFICES ASSUME message.call = call[c] PROVE FALSE
        OBVIOUS
      <4>2. Numbered(message) /\ message.call \in Nat
        BY <1>4, ReplyFacts
      <4>3. c = message.from
        BY <4>1, <4>2 DEF Numbered
      <4>4. message.call < call[c]
        BY <2>1, <4>2, <4>3 DEF Numbered
      <4>5. QED
        BY <2>1, <4>1, <4>2, <4>4
    <3>2. /\ message.call \in Nat /\ message.call <= owner[message.reply]
          /\ response.call = message.call /\ message.reply \in Blocks
          /\ mailbox' = [mailbox EXCEPT ![message.reply] = response]
      BY <1>4, ReplyFacts
    <3>3. mailbox'[block[c]] = response
      BY <2>2, <3>2
    <3>4. message.call < call[c]
      BY <2>1, <2>2, <3>1, <3>2
    <3>5. mailbox'[block'[c]].call = message.call /\ call'[c] = call[c]
      BY <2>1, <3>2, <3>3
    <3>6. QED
      BY <3>4, <3>5
  <2>3. CASE block[c] # message.reply
    BY <1>4, <2>1, <2>3, ReplyFacts DEF Traced
  <2>4. QED
    BY <2>2, <2>3
<1>5. ASSUME NEW d \in Callers, NEW type \in Commands, SendRequest(d, type)
      PROVE  mailbox'[block'[c]].call < call'[c]
  BY <1>5 DEF SendRequest, Traced, heapVars
<1>6. ASSUME NEW d \in Callers, CallNoMem(d) \/ ReceiveTimeout(d)
      PROVE  mailbox'[block'[c]].call < call'[c]
  BY <1>6 DEF CallNoMem, ReceiveTimeout, Traced, heapVars
<1>7. CASE UNCHANGED <<heapVars, callerVars>>
  BY <1>7 DEF Traced, heapVars, callerVars
<1>8. QED
  BY <1>1, <1>2, <1>3, <1>4, <1>5, <1>6, <1>7 DEF Next, CallerStep,
     WorkerStep, ReceiveRequest, Execute, ReplyTimeout, ReplyDangling,
     ScheduleReboot, ScheduleRebootFails, DelayedReboot, DanglingPanic,
     callerVars, heapVars, vars

LEMMA GotTraced ==
    ASSUME TypeOK, TypeOK', Calls, Traced, [Next]_vars, ~Restart,
           NEW c \in Callers, got'[c] # Nil
    PROVE  OwnOrLate(got[c], call[c])'
<1> USE DEF TypeOK
<1>1. ASSUME NEW d \in Callers, ReceiveReply(d)
      PROVE  OwnOrLate(got[c], call[c])'
  <2>1. OwnOrLate(mailbox[block[d]], call[d])
    BY <1>1 DEF ReceiveReply, Traced, Calls
  <2>2. CASE c = d
    BY <1>1, <2>1, <2>2, LateNext DEF ReceiveReply, OwnOrLate
  <2>3. CASE c # d
    BY <1>1, <2>3, LateNext DEF ReceiveReply, Traced, OwnOrLate
  <2>4. QED
    BY <2>2, <2>3
<1>2. CASE got'[c] = got[c] /\ call'[c] = call[c]
  BY <1>2, LateNext DEF Traced, OwnOrLate
<1>3. got'[c] = Nil \/ (got'[c] = got[c] /\ call'[c] = call[c])
         \/ \E d \in Callers : ReceiveReply(d)
  <2>1. ASSUME NEW d \in Callers, NEW b \in Blocks, Call(d, b)
        PROVE  got'[c] = Nil \/ (got'[c] = got[c] /\ call'[c] = call[c])
    BY <2>1 DEF Call
  <2>2. ASSUME NEW d \in Callers, CallNoMem(d)
        PROVE  got'[c] = Nil \/ (got'[c] = got[c] /\ call'[c] = call[c])
    BY <2>2 DEF CallNoMem
  <2>3. ASSUME NEW d \in Callers, CallerStep(d), ~ReceiveReply(d)
        PROVE  UNCHANGED <<got, call>>
    BY <2>3 DEF CallerStep, SendRequest, SendTimeout, ReceiveTimeout,
       DeleteReplyQueue
  <2>4. CASE WorkerStep \/ UNCHANGED vars
    BY <2>4 DEF WorkerStep, ReceiveRequest, Execute, Reply, ReplyTimeout,
       ReplyDangling, ScheduleReboot, ScheduleRebootFails, callerVars, vars
  <2>5. QED
    BY <2>1, <2>2, <2>3, <2>4 DEF Next, DelayedReboot, DanglingPanic
<1>4. QED
  BY <1>1, <1>2, <1>3

LEMMA TracedNext ==
    ASSUME TypeOK, TypeOK', Calls, AllNumbered, Ordered, Traced, [Next]_vars
    PROVE  Traced'
<1>1. CASE Restart
  BY <1>1 DEF Restart, Traced, Outstanding, WorkerHolds
<1> SUFFICES ASSUME ~Restart PROVE Traced'
  BY <1>1
<1>2. wpc' = "replying" => response'.call = message'.call
  <2>1. CASE Execute
    BY <2>1 DEF Execute
  <2>2. CASE UNCHANGED workerVars
    BY <2>2 DEF Traced, workerVars
  <2>3. Execute \/ wpc' # "replying" \/ UNCHANGED workerVars
    <3>1. CASE WorkerStep
      BY <3>1 DEF WorkerStep, ReceiveRequest, Reply, ReplyTimeout,
         ReplyDangling, AfterReply, ScheduleReboot, ScheduleRebootFails
    <3>2. CASE ~WorkerStep
      BY <3>2 DEF Next, Call, CallNoMem, CallerStep, SendRequest, SendTimeout,
         ReceiveReply, ReceiveTimeout, DeleteReplyQueue, DelayedReboot,
         DanglingPanic, workerVars, vars
    <3>3. QED
      BY <3>1, <3>2
  <2>4. QED
    BY <2>1, <2>2, <2>3
<1>3. QED
  BY <1>2, MessagesTraced, MailboxesTraced, UnsentTraced, GotTraced DEF Traced

-----------------------------------------------------------------------------
(* The theorems. *)

LEMMA InvInit == Init => IInv
<1> SUFFICES ASSUME Init PROVE IInv
  OBVIOUS
<1>1. TypeOK
  BY TypeInit
<1>2. Outstanding = {}
  BY DEF Init, Outstanding, WorkerHolds
<1>3. Calls /\ Ordered
  BY <1>1 DEF Init, TypeOK, Calls, Ordered, WorkerHolds
<1>4. AllNumbered /\ UnqueuedNeverRuns /\ Traced
  BY <1>1, <1>2 DEF Init, TypeOK, AllNumbered, UnqueuedNeverRuns, Traced
<1>5. QED
  BY <1>1, <1>3, <1>4 DEF IInv

LEMMA InvNext == IInv /\ [Next]_vars => IInv'
BY TypeNext, CallsNext, AllNumberedNext, OrderedNext, UnqueuedNext, TracedNext
DEF IInv

LEMMA InvImplies ==
    IInv => TypeOK /\ ReplyQueuesAlive /\ OwnReplies /\ ExecutesInOrder
               /\ UnqueuedNeverRuns
BY DEF IInv, Traced, OwnOrLate, Awaited, Ordered, TypeOK, ReplyQueuesAlive, OwnReplies,
   ExecutesInOrder

(* The invariant holds in every reachable state of the bridge. *)
THEOREM Invariance == Spec => []IInv
BY InvInit, InvNext, PTL DEF Spec

(* Every variable keeps its type (web_api.c:19-347). *)
THEOREM TypeCorrect == Spec => []TypeOK
BY Invariance, InvImplies, PTL

(* web_api_task sends a reply to the live reply queue of the call that     *)
(* asked, unless that call or an earlier one has timed out                 *)
(* (web_api.c:296).                                                        *)
THEOREM RepliesMeetLiveQueues == Spec => []ReplyQueuesAlive
BY Invariance, InvImplies, PTL

(* A caller receives the response to its own request, without comparing    *)
(* request_id, or a late one: that of an earlier call that timed out or    *)
(* was made after one that did (web_api.c:340).                            *)
THEOREM RepliesAreOwn == Spec => []OwnReplies
BY Invariance, InvImplies, PTL

(* The commands of one caller run in the order of its calls, once each,    *)
(* also those whose caller has given up (web_api.c:159, 335).              *)
THEOREM CommandsInOrder == Spec => []ExecutesInOrder
BY Invariance, InvImplies, PTL

(* A call that failed before its message was queued is never executed      *)
(* (web_api.c:326, 336).                                                   *)
THEOREM FailedSendsNeverRun == Spec => []UnqueuedNeverRuns
BY Invariance, InvImplies, PTL

=============================================================================

---------------------------- MODULE ClientThread ----------------------------
(***************************************************************************)
(* The main loop of ClientThread (client/thread.rs) with its two inputs:   *)
(* the message queue other tasks push to, and the TCP stream that          *)
(* ClientSocket (client/socket.rs) cuts into packets.                      *)
(*                                                                         *)
(* Every turn of run() is a tokio::select! over poll_for_messages,         *)
(* poll_for_tcp_data and a 30 second sleep.  The branch that finishes      *)
(* first is handled; the futures of the others are dropped, with whatever  *)
(* they have taken so far: `poll` and `prefix` are what the two futures    *)
(* of the current turn have done.  Handlers run to completion.             *)
(*                                                                         *)
(* The client sends the packets Packets, each one as a length prefix of    *)
(* two bytes and a body (the code's four bytes arrive in at least as many  *)
(* ways); the bytes arrive in pieces, and the connection may close at any  *)
(* byte.  A packet is "small" (read into the inline buffer), "large" or    *)
(* "oversized" (more than MAX_PACKET_SIZE).                                *)
(*                                                                         *)
(* A definition whose name ends in _m is a faulty variant of the one after *)
(* it, kept to see that the properties notice the fault.                   *)
(***************************************************************************)
EXTENDS Integers, Sequences, FiniteSets

CONSTANTS Message,   \* messages other tasks push, each one once
          Fatal,     \* those that terminate: TerminationNotice, BroadcastBan
          Packets    \* the kinds of the packets the client sends over TCP

ASSUME ClientThreadAssumption ==
    /\ Fatal \subseteq Message /\ IsFiniteSet(Message)
    /\ Packets \in Seq({"small", "large", "oversized"})

VARIABLES status,     \* running, terminated or disconnected
          queue,      \* message_queue
          notify,     \* whether message_notify holds a permit
          pushed,     \* the messages in the order they were pushed
          pushers,    \* messages pushed whose notify_one is still to come
          poll,       \* how far poll_for_messages is
          received,   \* the messages handled, in order
          arrived,    \* bytes of the stream that have arrived
          closed,     \* whether the connection is closed after them
          position,   \* bytes of the stream that have been read
          prefix,     \* bytes of a length prefix in length_buf
          expected,   \* the length that was read, for recv_and_handle
          handled,    \* the packets given to handle_packet
          misread     \* bytes dropped with a future or left unread on purpose

queueVars == <<queue, notify, pushed, pushers, received>>
streamVars == <<arrived, closed, position, handled>>
vars == <<status, poll, prefix, expected, misread, queueVars, streamVars>>

BodySize == [small |-> 1, large |-> 2, oversized |-> 2]

(* The bytes packet k is sent as.                                          *)
Bytes(k) ==
    [i \in 1 .. 2 + BodySize[Packets[k]] |->
        [packet |-> k, part |-> IF i <= 2 THEN "length" ELSE "body", at |-> i]]

(* The bytes of the first k packets.                                       *)
StreamUpTo[k \in 0 .. Len(Packets)] ==
    IF k = 0 THEN << >> ELSE StreamUpTo[k - 1] \o Bytes(k)

Stream == StreamUpTo[Len(Packets)]

(* What two bytes at this place of the stream say as a length: the kind of *)
(* the packet if they are its prefix, anything if they are something else. *)
LengthsAt(p) ==
    IF Stream[p].part = "length" /\ Stream[p].at = 1
    THEN {Packets[Stream[p].packet]}
    ELSE {"small", "large", "oversized", "http"}

(* A turn of the loop is over and the futures of select! are dropped.      *)
EndTurn ==
    /\ poll' = "check"
    /\ prefix' = 0

------------------------------------------------------------------------------
(* The other tasks: push_new_message *)

Push(m) ==
    /\ \A i \in 1 .. Len(pushed) : pushed[i] # m
    /\ queue' = Append(queue, m)
    /\ pushed' = Append(pushed, m)
    /\ pushers' = pushers \cup {m}
    /\ UNCHANGED <<status, notify, received, poll, prefix, expected, misread,
                   streamVars>>

Notify(m) ==
    /\ m \in pushers
    /\ pushers' = pushers \ {m}
    /\ notify' = TRUE
    /\ UNCHANGED <<status, queue, pushed, received, poll, prefix, expected,
                   misread, streamVars>>

(* The client's TCP bytes arrive, or its connection ends.                  *)
Arrive ==
    /\ ~closed /\ arrived < Len(Stream)
    /\ arrived' = arrived + 1
    /\ UNCHANGED <<status, queueVars, poll, prefix, expected, misread, closed,
                   position, handled>>

Hangup ==
    /\ ~closed
    /\ closed' = TRUE
    /\ UNCHANGED <<status, queueVars, poll, prefix, expected, misread, arrived,
                   position, handled>>

------------------------------------------------------------------------------
(* poll_for_messages and handle_message *)

Selecting == status = "running" /\ expected = "none"

(* The whole queue is taken and one message handled. *)
HandleMessage ==
    /\ received' = Append(received, Head(queue))
    /\ queue' = Tail(queue)
    /\ status' = IF Head(queue) \in Fatal THEN "terminated" ELSE status
    /\ misread' = misread + prefix
    /\ EndTurn

(* The notification is always waited for. *)
CheckQueue_m ==
    /\ Selecting /\ poll = "check"
    /\ poll' = "wait"
    /\ UNCHANGED <<status, queue, received, prefix, misread, notify, pushed,
                   pushers, expected, streamVars>>

(* The queue is looked at without waiting first.                           *)
CheckQueue ==
    /\ Selecting /\ poll = "check"
    /\ IF queue # << >>
       THEN HandleMessage
       ELSE /\ poll' = "wait"
            /\ UNCHANGED <<status, queue, received, prefix, misread>>
    /\ UNCHANGED <<notify, pushed, pushers, expected, streamVars>>

(* message_notify.notified() consumes the permit; the lock of the queue    *)
(* may still have to be waited for.                                        *)
Notified ==
    /\ Selecting /\ poll = "wait" /\ notify
    /\ notify' = FALSE
    /\ poll' = "pop"
    /\ UNCHANGED <<status, queue, pushed, pushers, received, prefix, expected,
                   misread, streamVars>>

(* The queue may be empty: the permit can be left from a message that has  *)
(* been taken without it.                                                  *)
PopQueue ==
    /\ Selecting /\ poll = "pop"
    /\ IF queue # << >>
       THEN HandleMessage
       ELSE /\ EndTurn /\ misread' = misread + prefix
            /\ UNCHANGED <<status, queue, received>>
    /\ UNCHANGED <<notify, pushed, pushers, expected, streamVars>>

(* The sleep of THREAD_MICRO_TIMEOUT ends the turn.                        *)
MicroTimeout ==
    /\ Selecting /\ poll = "wait"
    /\ EndTurn
    /\ misread' = misread + prefix
    /\ UNCHANGED <<status, queueVars, expected, streamVars>>

(* More than 90 seconds without a packet, at the start of a turn.          *)
Silence ==
    /\ Selecting /\ poll = "check" /\ prefix = 0
    /\ status' = "terminated"
    /\ UNCHANGED <<queueVars, poll, prefix, expected, misread, streamVars>>

------------------------------------------------------------------------------
(* poll_for_tcp_data and recv_and_handle *)

(* read_exact takes a byte of the prefix; with the last one the turn is    *)
(* over.  Lengths that spell GET or POST end the thread.                   *)
ReadLength ==
    /\ Selecting /\ position < arrived
    /\ position' = position + 1
    /\ IF prefix = 0
       THEN prefix' = 1 /\ UNCHANGED <<status, poll, expected>>
       ELSE /\ \E length \in LengthsAt(position) :
                  IF length = "http"
                  THEN status' = "terminated" /\ UNCHANGED expected
                  ELSE expected' = length /\ UNCHANGED status
            /\ EndTurn
    /\ UNCHANGED <<queueVars, misread, arrived, closed, handled>>

(* read_exact meets the end of the stream: the thread may be recovered.    *)
ReadLengthFails ==
    /\ Selecting /\ closed /\ position = arrived
    /\ status' = "disconnected"
    /\ EndTurn
    /\ UNCHANGED <<queueVars, expected, misread, streamVars>>

Available == arrived - position

Receive(n) ==
    /\ position' = position + n
    /\ handled' = Append(handled, [length |-> BodySize[expected], read |-> n,
                                   from |-> position + 1])
    /\ expected' = "none"

(* PacketTooLong: the error is printed, the body stays in the stream.      *)
RejectOversized ==
    /\ status = "running" /\ expected = "oversized"
    /\ expected' = "none"
    /\ misread' = misread + BodySize["oversized"]
    /\ UNCHANGED <<status, queueVars, poll, prefix, streamVars>>

(* read_exact into the inline buffer.  An error is printed; the next turn  *)
(* meets the end of the stream again.                                      *)
ReceiveSmall ==
    /\ status = "running" /\ expected = "small"
    /\ \/ Available >= BodySize["small"] /\ Receive(BodySize["small"])
       \/ /\ closed /\ Available < BodySize["small"]
          /\ expected' = "none" /\ UNCHANGED <<position, handled>>
    /\ UNCHANGED <<status, queueVars, poll, prefix, misread, arrived, closed>>

(* A byte of a large body is left in the stream. *)
ReceiveLarge_m ==
    /\ status = "running" /\ expected = "large"
    /\ \/ Available >= BodySize["large"] /\ Receive(BodySize["large"] - 1)
       \/ closed /\ Available < BodySize["large"] /\ Receive(Available)
    /\ UNCHANGED <<status, queueVars, poll, prefix, misread, arrived, closed>>

(* take(bytes).read_to_end: ends after `bytes` bytes or at the end of the  *)
(* stream, whichever comes first.                                          *)
ReceiveLarge ==
    /\ status = "running" /\ expected = "large"
    /\ \/ Available >= BodySize["large"] /\ Receive(BodySize["large"])
       \/ closed /\ Available < BodySize["large"] /\ Receive(Available)
    /\ UNCHANGED <<status, queueVars, poll, prefix, misread, arrived, closed>>

------------------------------------------------------------------------------
Init ==
    /\ status = "running"
    /\ queue = << >> /\ pushed = << >> /\ received = << >>
    /\ notify = FALSE /\ pushers = {}
    /\ poll = "check" /\ prefix = 0 /\ expected = "none"
    /\ arrived = 0 /\ closed = FALSE /\ position = 0
    /\ handled = << >> /\ misread = 0

Run ==
    \/ CheckQueue \/ Notified \/ PopQueue \/ MicroTimeout \/ Silence
    \/ ReadLength \/ ReadLengthFails
    \/ RejectOversized \/ ReceiveSmall \/ ReceiveLarge

Next ==
    \/ Run
    \/ \E m \in Message : Push(m) \/ Notify(m)
    \/ Arrive \/ Hangup

Spec == Init /\ [][Next]_vars

(* The task is scheduled, and a pusher that has the lock goes on.          *)
FairSpec ==
    /\ Spec
    /\ WF_vars(Run)
    /\ \A m \in Message : WF_vars(Notify(m))

------------------------------------------------------------------------------
TypeOK ==
    /\ status \in {"running", "terminated", "disconnected"}
    /\ queue \in Seq(Message) /\ pushed \in Seq(Message)
    /\ received \in Seq(Message)
    /\ notify \in BOOLEAN /\ pushers \subseteq Message
    /\ poll \in {"check", "wait", "pop"}
    /\ arrived \in 0 .. Len(Stream) /\ position \in 0 .. arrived
    /\ closed \in BOOLEAN
    /\ prefix \in 0 .. 1
    /\ expected \in {"none", "small", "large", "oversized"}
    /\ handled \in Seq([length : 1 .. 2, read : 0 .. 2, from : Nat])
    /\ misread \in Nat

(* While the thread sleeps on message_notify and a message is queued, the  *)
(* permit is there or its pusher is about to give it: no message waits for *)
(* the 30 second timeout, although a dropped future may have consumed the  *)
(* permit of an earlier one.                                               *)
NoLostWakeup ==
    Selecting /\ poll = "wait" /\ queue # << >> => notify \/ pushers # {}

(* Packet boundaries are only lost where bytes are dropped with a future   *)
(* that had read part of a length prefix, or where the body of an          *)
(* oversized packet is left in the stream: otherwise the k-th packet       *)
(* handled is the k-th one sent, read from its first byte and with its     *)
(* length (poll_for_tcp_data, recv_and_handle).                            *)
MisframingHasCause ==
    misread = 0 =>
        \A k \in 1 .. Len(handled) :
            LET h == handled[k]
            IN  /\ h.length = BodySize[Packets[k]]
                /\ h.read > 0 => Stream[h.from] = [packet |-> k, part |-> "body",
                                                   at |-> 3]
                /\ h.read < h.length => closed

(* Unless the thread is stuck in the body of a packet for ever, every      *)
(* message pushed to it is handled before it ends.                         *)
MessagesHandled ==
    []<>Selecting =>
        \A m \in Message :
            (\E i \in 1 .. Len(pushed) : pushed[i] = m)
                ~> \/ \E i \in 1 .. Len(received) : received[i] = m
                   \/ status # "running"
=============================================================================

------------------------------ MODULE CecQueue ------------------------------
(***************************************************************************)
(* The CEC receiver (cec_controls.c): the rx thread links messages from    *)
(* the TV into a list that the control thread empties, under a mutex, from *)
(* init_cec_controls to stop_cec_controls, session after session.          *)
(*                                                                         *)
(* A critical section of message_queue_mutex is one step.  main runs       *)
(* init_cec_controls before it creates the control thread and              *)
(* stop_cec_controls after it has ended.                                   *)
(***************************************************************************)
EXTENDS Integers, Sequences

CONSTANT MaxMessages   \* bound: messages received in all sessions together

ASSUME CecQueueAssumption == MaxMessages \in Nat

NULL == 0
Node == 1..MaxMessages    \* the n-th message_node to be allocated

VARIABLES
    main_pc,               \* where main is between two sessions
    cec_fd,                \* is the adapter open?
    rx_run,                \* the rx thread's loop flag
    rx_thread,             \* "none", "live" or "joined": the thread in rx_thread
    rx_pc,                 \* where the rx thread is
    mutex,                 \* message_queue_mutex: is it usable?
    message_queue_start,
    message_queue_end,
    next,                  \* the next field of each node
    heap,                  \* nodes allocated and not freed
    arrived,               \* messages received so far
    poll_pc,               \* where the control thread is in poll_cec_events
    node                   \* its local: the node taken from the list

listVars == <<message_queue_start, message_queue_end, next>>
rxVars == <<rx_run, rx_thread, rx_pc>>
pollVars == <<poll_pc, node>>
vars == <<main_pc, cec_fd, rxVars, mutex, listVars, heap, arrived, pollVars>>

-----------------------------------------------------------------------------
(* init_cec_controls, in main. *)

InitCecControls ==
    /\ main_pc = "init"
    /\ cec_fd' = TRUE
    /\ message_queue_start' = NULL
    /\ message_queue_end' = NULL
    /\ rx_run' = TRUE
    /\ mutex' = TRUE
    /\ rx_thread' = "live"
    /\ rx_pc' = "loop"
    /\ main_pc' = "session"
    /\ UNCHANGED <<next, heap, arrived, pollVars>>

(* The adapter cannot be opened, or no TV answers: nothing else is set up. *)
InitCecFails ==
    /\ main_pc = "init"
    /\ cec_fd' \in BOOLEAN
    /\ main_pc' = "session"
    /\ UNCHANGED <<rxVars, mutex, listVars, heap, arrived, pollVars>>

(* main starts the control thread, and later joins it. *)
StartPolling ==
    /\ main_pc = "session"
    /\ main_pc' = "polling"
    /\ poll_pc' = "poll"
    /\ UNCHANGED <<cec_fd, rxVars, mutex, listVars, heap, arrived, node>>

StopPolling ==
    /\ main_pc = "polling"
    /\ poll_pc = "poll"
    /\ main_pc' = "stop"
    /\ poll_pc' = "none"
    /\ UNCHANGED <<cec_fd, rxVars, mutex, listVars, heap, arrived, node>>

(* stop_cec_controls, in main. *)
StopRx ==
    /\ main_pc = "stop"
    /\ rx_run' = FALSE
    /\ main_pc' = "join"
    /\ UNCHANGED <<cec_fd, rx_thread, rx_pc, mutex, listVars, heap, arrived,
                   pollVars>>

(* Fault form: the rx thread is not waited for. *)
JoinRx_NoWait ==
    /\ main_pc = "join"
    /\ rx_thread' = IF rx_thread = "live" THEN "joined" ELSE rx_thread
    /\ mutex' = FALSE
    /\ cec_fd' = FALSE
    /\ main_pc' = "init"
    /\ UNCHANGED <<rx_run, rx_pc, listVars, heap, arrived, pollVars>>

(* rx_thread keeps its value: after a failed init it is joined once more. *)
JoinRx ==
    /\ main_pc = "join"
    /\ rx_thread = "live" => rx_pc = "ended"
    /\ rx_thread' = IF rx_thread = "live" THEN "joined" ELSE rx_thread
    /\ mutex' = FALSE
    /\ cec_fd' = FALSE
    /\ main_pc' = "init"
    /\ UNCHANGED <<rx_run, rx_pc, listVars, heap, arrived, pollVars>>

-----------------------------------------------------------------------------
(* The rx thread: rx_loop. *)

RxLoop ==
    /\ rx_pc = "loop"
    /\ rx_pc' = IF rx_run THEN "select" ELSE "ended"
    /\ UNCHANGED <<main_pc, cec_fd, rx_run, rx_thread, mutex, listVars, heap, arrived,
                   pollVars>>

(* select times out, or returns for an event, a message that cannot be read or
   one that is not from the TV. *)
RxNothing ==
    /\ rx_pc = "select"
    /\ rx_pc' = "loop"
    /\ UNCHANGED <<main_pc, cec_fd, rx_run, rx_thread, mutex, listVars, heap, arrived,
                   pollVars>>

(* select fails, or the adapter is disconnected. *)
RxDisconnected ==
    /\ rx_pc = "select"
    /\ rx_pc' = "ended"
    /\ UNCHANGED <<main_pc, cec_fd, rx_run, rx_thread, mutex, listVars, heap, arrived,
                   pollVars>>

(* A message from the TV: its node is allocated and filled outside the lock. *)
RxMessage ==
    /\ rx_pc = "select"
    /\ arrived < MaxMessages
    /\ arrived' = arrived + 1
    /\ heap' = heap \cup {arrived'}
    /\ next' = [next EXCEPT ![arrived'] = NULL]
    /\ rx_pc' = "add"
    /\ UNCHANGED <<main_pc, cec_fd, rx_run, rx_thread, mutex, message_queue_start,
                   message_queue_end, pollVars>>

(* Fault form: the new node becomes the head of the list. *)
AddMessage_AtHead ==
    /\ rx_pc = "add"
    /\ message_queue_start' = arrived
    /\ next' = [next EXCEPT ![arrived] = message_queue_start]
    /\ message_queue_end' =
           IF message_queue_end = NULL THEN arrived ELSE message_queue_end
    /\ rx_pc' = "loop"
    /\ UNCHANGED <<main_pc, cec_fd, rx_run, rx_thread, mutex, heap, arrived, pollVars>>

(* add_message_to_queue, under the lock. *)
AddMessage ==
    /\ rx_pc = "add"
    /\ IF message_queue_end = NULL
       THEN message_queue_start' = arrived /\ UNCHANGED next
       ELSE /\ next' = [next EXCEPT ![message_queue_end] = arrived]
            /\ UNCHANGED message_queue_start
    /\ message_queue_end' = arrived
    /\ rx_pc' = "loop"
    /\ UNCHANGED <<main_pc, cec_fd, rx_run, rx_thread, mutex, heap, arrived, pollVars>>

-----------------------------------------------------------------------------
(* The control thread: poll_cec_events. *)

(* Fault form: the tail pointer keeps pointing at the node taken. *)
TakeMessage_KeepsEnd ==
    /\ poll_pc = "poll"
    /\ message_queue_start # NULL
    /\ node' = message_queue_start
    /\ message_queue_start' = next[message_queue_start]
    /\ poll_pc' = "process"
    /\ UNCHANGED <<main_pc, cec_fd, rxVars, mutex, message_queue_end, next, heap,
                   arrived>>

(* Fault form: the list is not tested for being empty. *)
TakeMessage_NoTest ==
    /\ poll_pc = "poll"
    /\ node' = message_queue_start
    /\ IF message_queue_start = NULL THEN UNCHANGED message_queue_start
       ELSE message_queue_start' = next[message_queue_start]
    /\ message_queue_end' =
           IF message_queue_start' = NULL THEN NULL ELSE message_queue_end
    /\ poll_pc' = "process"
    /\ UNCHANGED <<main_pc, cec_fd, rxVars, mutex, next, heap, arrived>>

TakeMessage ==
    /\ poll_pc = "poll"
    /\ message_queue_start # NULL
    /\ node' = message_queue_start
    /\ message_queue_start' = next[message_queue_start]
    /\ message_queue_end' =
           IF message_queue_start' = NULL THEN NULL ELSE message_queue_end
    /\ poll_pc' = "process"
    /\ UNCHANGED <<main_pc, cec_fd, rxVars, mutex, next, heap, arrived>>

(* The message is applied to the camera and its node freed. *)
ProcessMessage ==
    /\ poll_pc = "process"
    /\ heap' = heap \ {node}
    /\ poll_pc' = "poll"
    /\ UNCHANGED <<main_pc, cec_fd, rxVars, mutex, listVars, arrived, node>>

-----------------------------------------------------------------------------
Init ==
    /\ main_pc = "init"
    /\ cec_fd = FALSE
    /\ rx_run = FALSE
    /\ rx_thread = "none"
    /\ rx_pc = "ended"
    /\ mutex = TRUE           \* a static mutex of zeros is a usable one
    /\ message_queue_start = NULL
    /\ message_queue_end = NULL
    /\ next = [n \in Node |-> NULL]
    /\ heap = {}
    /\ arrived = 0
    /\ poll_pc = "none"
    /\ node = NULL

RxThread == RxLoop \/ RxNothing \/ RxDisconnected \/ RxMessage \/ AddMessage
PollCecEvents == TakeMessage \/ ProcessMessage
Main ==
    \/ InitCecControls \/ InitCecFails \/ StartPolling \/ StopPolling
    \/ StopRx \/ JoinRx

Next == RxThread \/ PollCecEvents \/ Main

Spec == Init /\ [][Next]_vars

(* Threads are scheduled; select returns after its timeout.  No session need
   ever end. *)
Fairness ==
    /\ WF_vars(RxThread)
    /\ WF_vars(PollCecEvents)
    /\ WF_vars(StartPolling \/ StopRx \/ JoinRx)

FairSpec == Spec /\ Fairness

-----------------------------------------------------------------------------
(* Type invariant: pointers are NULL or a node, no NULL is processed, threads are
   at their program points (cec_controls.c:33-42, 150-209, 406-471). *)
TypeOK ==
    /\ main_pc \in {"init", "session", "polling", "stop", "join"}
    /\ cec_fd \in BOOLEAN /\ rx_run \in BOOLEAN /\ mutex \in BOOLEAN
    /\ rx_thread \in {"none", "live", "joined"}
    /\ rx_pc \in {"loop", "select", "add", "ended"}
    /\ message_queue_start \in Node \cup {NULL}
    /\ message_queue_end \in Node \cup {NULL}
    /\ next \in [Node -> Node \cup {NULL}]
    /\ heap \subseteq Node
    /\ arrived \in 0..MaxMessages
    /\ poll_pc \in {"none", "poll", "process"}
    /\ node \in Node \cup {NULL}
    /\ poll_pc = "process" => node # NULL

(* The list from a node on; nodes are linked in the order they were allocated. *)
List(first) ==
    LET from[n \in Node \cup {NULL}] ==
            IF n = NULL THEN <<>>
            ELSE <<n>> \o (IF next[n] > n THEN from[next[n]] ELSE <<>>)
    IN  from[first]

(* The list never reaches a freed node: from message_queue_start its links lead,
   message by message in the order of arrival, to message_queue_end and no
   further, and every node on the way is allocated and is not the one being
   processed (cec_controls.c:135-145, 411-425, 465). *)
Linked ==
    IF message_queue_start = NULL THEN {} ELSE message_queue_start..message_queue_end

ListIntact ==
    /\ message_queue_start = NULL <=> message_queue_end = NULL
    /\ message_queue_start <= message_queue_end
    /\ \A n \in Linked :
          /\ n \in heap
          /\ next[n] = IF n = message_queue_end THEN NULL ELSE n + 1
    /\ poll_pc = "process" => node \in heap \ Linked

(* Locks and threads are used as POSIX allows: the rx thread runs only while its
   handle is there to be joined, the adapter is open and the mutex usable, and in
   a session that init_cec_controls set up the control thread never locks a mutex
   that was destroyed (cec_controls.c:135, 242, 252-256, 411). *)
ThreadsUsedRight ==
    /\ rx_pc # "ended" => rx_thread = "live" /\ cec_fd /\ mutex
    /\ poll_pc # "none" /\ rx_thread = "live" => mutex

(* A message that was received is processed, unless the session ends first
   (cec_controls.c:406-468). *)
Processed(n) == arrived >= n /\ n \notin heap

EveryMessageProcessed ==
    \A n \in Node :
        (arrived = n /\ rx_pc = "add" /\ main_pc \in {"session", "polling"})
            ~> (Processed(n) \/ main_pc = "stop")

(* The list implements a FIFO queue. *)
Fifo == INSTANCE MessageQueue WITH
    queue <- List(message_queue_start),
    processing <- IF poll_pc = "process" THEN node ELSE NULL,
    arrived <- IF rx_pc = "add" THEN arrived - 1 ELSE arrived

(* Messages are processed in the order they were received, each once, and none
   is lost but by the start of a new session (cec_controls.c:125-148, 238-239,
   406-425). *)
ImplementsQueue == Fifo!Spec

=============================================================================

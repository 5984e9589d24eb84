--------------------------- MODULE CecQueueProofs ---------------------------
(***************************************************************************)
(* How the CEC receiver uses its list, its thread and its mutex, for any   *)
(* number of messages and any sequence of sessions, those included that    *)
(* find no adapter or no TV.  The inductive invariant is IInv.             *)
(***************************************************************************)
EXTENDS CecQueue, SequenceTheorems, WellFoundedInduction, TLAPS

(* The rx thread belongs to the session that started it, and the mutex lives as
   long as that session. *)
SessionOwnsThread ==
    /\ main_pc = "init" => rx_thread # "live"
    /\ main_pc = "polling" <=> poll_pc # "none"
    /\ rx_pc # "ended" => rx_thread = "live"
    /\ rx_thread = "live" => mutex /\ cec_fd

(* The newest message is at the end of the list, or about to be put there; what
   is being processed is older than everything on the list. *)
Newest == IF rx_pc = "add" THEN arrived - 1 ELSE arrived

Order ==
    /\ message_queue_end # NULL => message_queue_end = Newest
    /\ rx_pc = "add" =>
          /\ arrived \in Node
          /\ arrived \in heap
          /\ next[arrived] = NULL
    /\ poll_pc = "process" =>
          /\ node <= Newest
          /\ message_queue_start # NULL => node < message_queue_start

IInv ==
    /\ TypeOK
    /\ SessionOwnsThread
    /\ ListIntact
    /\ Order

(* The first state satisfies the invariant. *)
LEMMA IInvInit == Init => IInv
<1> SUFFICES ASSUME Init PROVE IInv
  OBVIOUS
<1>1. cec_fd \in BOOLEAN /\ rx_run \in BOOLEAN /\ mutex \in BOOLEAN
  BY Zenon DEF Init
<1>2. arrived \in 0..MaxMessages
  BY CecQueueAssumption DEF Init
<1> QED
  BY <1>1, <1>2
  DEF Init, IInv, TypeOK, SessionOwnsThread, ListIntact, Linked, Order, Newest, NULL

(* Every step of the code keeps the invariant. *)
LEMMA IInvStep == IInv /\ [Next]_vars => IInv'
<1> SUFFICES ASSUME IInv, [Next]_vars PROVE IInv'
  OBVIOUS
<1> USE CecQueueAssumption
    DEF IInv, TypeOK, SessionOwnsThread, ListIntact, Linked, Order, Newest, Node, NULL
<1>1. CASE InitCecControls
  BY <1>1 DEF InitCecControls, pollVars
<1>2. CASE InitCecFails
  BY <1>2 DEF InitCecFails, rxVars, listVars, pollVars
<1>3. CASE StartPolling
  BY <1>3 DEF StartPolling, rxVars, listVars
<1>4. CASE StopPolling
  BY <1>4 DEF StopPolling, rxVars, listVars
<1>5. CASE StopRx
  BY <1>5 DEF StopRx, listVars, pollVars
<1>6. CASE JoinRx
  BY <1>6 DEF JoinRx, listVars, pollVars
<1>7. CASE RxLoop
  BY <1>7 DEF RxLoop, listVars, pollVars
<1>8. CASE RxNothing
  BY <1>8 DEF RxNothing, listVars, pollVars
<1>9. CASE RxDisconnected
  BY <1>9 DEF RxDisconnected, listVars, pollVars
<1>10. CASE RxMessage
  <2>1. arrived' = arrived + 1 /\ arrived' \in Node /\ arrived' \in 0..MaxMessages
    BY <1>10 DEF RxMessage
  <2>2. /\ next' = [next EXCEPT ![arrived'] = NULL] /\ next'[arrived'] = NULL
        /\ next' \in [Node -> Node \cup {NULL}]
    BY <1>10, <2>1 DEF RxMessage
  <2>3. heap' = heap \cup {arrived'} /\ heap' \subseteq Node
    BY <1>10, <2>1 DEF RxMessage
  <2>4. \A n \in Linked : n # arrived' /\ n \in Node
    BY <1>10, <2>1 DEF RxMessage
  <2>5. \A n \in Linked : next'[n] = next[n] /\ n \in heap'
    BY <2>2, <2>3, <2>4
  <2>6. Linked' = Linked
    BY <1>10 DEF RxMessage
  <2>7. ListIntact'
    BY <1>10, <2>3, <2>5, <2>6 DEF RxMessage, pollVars
  <2>8. TypeOK'
    BY <1>10, <2>1, <2>2, <2>3 DEF RxMessage, pollVars
  <2>9. SessionOwnsThread'
    BY <1>10 DEF RxMessage, pollVars
  <2>10. Newest' = Newest /\ rx_pc' = "add"
    BY <1>10, <2>1 DEF RxMessage
  <2>11. Order'
    BY <1>10, <2>1, <2>2, <2>3, <2>10 DEF RxMessage, pollVars
  <2> HIDE DEF TypeOK, SessionOwnsThread, ListIntact, Order
  <2> QED
    BY <2>7, <2>8, <2>9, <2>11
<1>11. CASE AddMessage
  <2>1. /\ arrived \in Node /\ arrived \in heap /\ next[arrived] = NULL
        /\ rx_pc = "add" /\ rx_pc' = "loop" /\ message_queue_end' = arrived
        /\ Newest = arrived - 1 /\ Newest' = arrived
    BY <1>11 DEF AddMessage
  <2>2. SessionOwnsThread'
    BY <1>11 DEF AddMessage, pollVars
  <2>3. CASE message_queue_end = NULL
    <3>1. message_queue_start' = arrived /\ next' = next /\ Linked' = {arrived}
      BY <1>11, <2>1, <2>3 DEF AddMessage
    <3>2. TypeOK'
      BY <1>11, <2>1, <3>1 DEF AddMessage, pollVars
    <3>3. ListIntact'
      BY <1>11, <2>1, <2>3, <3>1 DEF AddMessage, pollVars
    <3>4. Order'
      BY <1>11, <2>1, <2>3, <3>1 DEF AddMessage, pollVars
    <3> HIDE DEF TypeOK, SessionOwnsThread, ListIntact, Order
    <3> QED
      BY <2>2, <3>2, <3>3, <3>4
  <2>4. CASE message_queue_end # NULL
    <3>1. /\ message_queue_start' = message_queue_start
          /\ message_queue_start \in Node /\ message_queue_end = arrived - 1
          /\ next' = [next EXCEPT ![arrived - 1] = arrived]
      BY <1>11, <2>1, <2>4 DEF AddMessage
    <3>2. TypeOK'
      BY <1>11, <2>1, <2>4, <3>1 DEF AddMessage, pollVars
    <3>3. /\ Linked = message_queue_start..(arrived - 1)
          /\ Linked' = message_queue_start..arrived
      BY <2>1, <3>1
    <3>4. ASSUME NEW n \in Linked'
          PROVE  /\ n \in heap'
                 /\ next'[n] = IF n = message_queue_end' THEN NULL ELSE n + 1
      <4>1. CASE n = arrived
        BY <1>11, <2>1, <3>1, <4>1 DEF AddMessage
      <4>2. CASE n # arrived
        <5>1. n \in Linked /\ n \in Node
          BY <2>1, <3>1, <3>3, <4>2
        <5> QED
          BY <1>11, <2>1, <3>1, <4>2, <5>1 DEF AddMessage
      <4> QED
        BY <4>1, <4>2
    <3>5. poll_pc' = "process" => node' \in heap' \ Linked'
      BY <1>11, <2>1, <3>1, <3>3 DEF AddMessage, pollVars
    <3>6. /\ message_queue_start' = NULL <=> message_queue_end' = NULL
          /\ message_queue_start' <= message_queue_end'
      BY <2>1, <3>1
    <3>7. Order'
      BY <1>11, <2>1, <3>1 DEF AddMessage, pollVars
    <3> HIDE DEF TypeOK, SessionOwnsThread, Order, Linked
    <3> QED
      BY <2>2, <3>2, <3>4, <3>5, <3>6, <3>7
  <2> QED
    BY <2>3, <2>4
<1>12. CASE TakeMessage
  BY <1>12 DEF TakeMessage, rxVars
<1>13. CASE ProcessMessage
  BY <1>13 DEF ProcessMessage, rxVars, listVars
<1>14. CASE UNCHANGED vars
  BY <1>14 DEF vars, rxVars, listVars, pollVars
<1> QED
  BY <1>1, <1>2, <1>3, <1>4, <1>5, <1>6, <1>7, <1>8, <1>9, <1>10, <1>11, <1>12,
     <1>13, <1>14
  DEF Next, RxThread, PollCecEvents, Main

(* Type correctness of cec_controls.c for any number of messages. *)
THEOREM TypeCorrect == Spec => []TypeOK
<1>1. IInv => TypeOK
  BY DEF IInv
<1> QED
  BY <1>1, IInvInit, IInvStep, PTL DEF Spec

(* No pointer of the message list ever leads to a freed node, and no node on it is
   freed while it is being processed. *)
THEOREM ListSafe == Spec => []ListIntact
<1>1. IInv => ListIntact
  BY DEF IInv
<1> QED
  BY <1>1, IInvInit, IInvStep, PTL DEF Spec

(* The rx thread never outlives the session whose mutex and adapter it uses, and
   poll_cec_events never locks the destroyed mutex of a session that started. *)
THEOREM ThreadsSafe == Spec => []ThreadsUsedRight
<1>1. IInv => ThreadsUsedRight
  BY DEF IInv, SessionOwnsThread, ThreadsUsedRight
<1> QED
  BY <1>1, IInvInit, IInvStep, PTL DEF Spec

-----------------------------------------------------------------------------
(* List is a recursive function on the nodes: the list from node n on is made from
   the lists f from later nodes on. *)
ListFrom(f, n) ==
    IF n = NULL THEN <<>>
    ELSE <<n>> \o (IF next[n] > n THEN f[next[n]] ELSE <<>>)

Links(f, S) == f = [n \in S |-> ListFrom(f, n)]

(* A set of numbers that is not empty has a least one. *)
LEMMA LeastNumber ==
    ASSUME NEW T, T \subseteq Nat, T # {}
    PROVE  \E x \in T : \A y \in T : x <= y
<1> DEFINE Less == {ss \in Nat \X Nat : ss[1] < ss[2]}
<1>1. IsWellFoundedOn(Less, Nat)
  BY NatLessThanWellFounded, Zenon DEF OpToRel
<1>2. PICK x \in T : \A y \in T : <<y, x>> \notin Less
  <2> HIDE DEF Less
  <2> QED
    BY <1>1, WFMin, Zenon
<1>3. \A y \in T : ~(y < x)
  BY <1>2
<1> QED
  BY <1>3

(* The last k nodes to be allocated, and the end of every list. *)
LastNodes(k) == ((MaxMessages - k + 1)..MaxMessages) \cup {NULL}

(* Links only lead to later nodes, so the list of a node is made from the lists of
   later ones: there is such a function, for a node that has no list would have a
   successor that has none either. *)
LEMMA LinksExist ==
    ASSUME next \in [Node -> Node \cup {NULL}]
    PROVE  \E f : Links(f, Node \cup {NULL})
<1> DEFINE Bad == {k \in 0..MaxMessages : ~\E f : Links(f, LastNodes(k))}
<1> USE CecQueueAssumption
<1>1. CASE Bad = {}
  <2>1. \E f : Links(f, LastNodes(MaxMessages))
    BY <1>1
  <2>2. LastNodes(MaxMessages) = Node \cup {NULL}
    BY DEF LastNodes, Node
  <2> QED
    BY <2>1, <2>2, Zenon
<1>2. CASE Bad # {}
  <2>1. PICK k \in Bad : \A j \in Bad : k <= j
    <3>1. Bad \subseteq Nat
      OBVIOUS
    <3> HIDE DEF Bad
    <3> QED
      BY <1>2, <3>1, LeastNumber
  <2>2. k \in 0..MaxMessages /\ \A f : ~Links(f, LastNodes(k))
    BY <2>1
  <2>3. k # 0
    <3>1. LastNodes(0) = {NULL}
      <4> HIDE DEF Bad
      <4> QED
        BY DEF LastNodes
    <3>2. Links([n \in {NULL} |-> <<>>], {NULL})
      BY Zenon DEF Links, ListFrom
    <3> QED
      BY <3>1, <3>2, <2>2, Zenon
  <2>4. k - 1 \in 0..MaxMessages /\ k - 1 \notin Bad
    BY <2>1, <2>3
  <2>5. PICK f : Links(f, LastNodes(k - 1))
    BY <2>4
  <2> DEFINE m == MaxMessages - k + 1
             g == [n \in LastNodes(k) |-> IF n = m THEN ListFrom(f, m) ELSE f[n]]
  <2> HIDE DEF Bad
  <2>6. /\ m \in Node /\ m # NULL /\ m \notin LastNodes(k - 1)
        /\ LastNodes(k) = LastNodes(k - 1) \cup {m}
        /\ \A n \in LastNodes(k) : n # NULL /\ next[n] > n =>
               next[n] \in LastNodes(k - 1) /\ next[n] # m
    <3>1. k \in 1..MaxMessages /\ MaxMessages - (k - 1) + 1 = m + 1
      BY <2>2, <2>3
    <3>2. /\ m \in 1..MaxMessages
          /\ LastNodes(k) = (m..MaxMessages) \cup {0}
          /\ LastNodes(k - 1) = ((m + 1)..MaxMessages) \cup {0}
      BY <3>1 DEF LastNodes, NULL
    <3> HIDE DEF m
    <3>3. /\ m \in Node /\ m # NULL /\ m \notin LastNodes(k - 1)
          /\ LastNodes(k) = LastNodes(k - 1) \cup {m}
      BY <3>2 DEF Node, NULL
    <3>4. \A n \in LastNodes(k) : n # NULL /\ next[n] > n =>
              next[n] \in LastNodes(k - 1) /\ next[n] # m
      BY <3>2 DEF Node, NULL
    <3> QED
      BY <3>3, <3>4
  <2>7. ASSUME NEW n \in LastNodes(k)
        PROVE  g[n] = ListFrom(g, n)
    <3>1. n # NULL /\ next[n] > n => g[next[n]] = f[next[n]]
      BY <2>6
    <3>2. ListFrom(g, n) = ListFrom(f, n)
      <4> HIDE DEF g, m
      <4> QED
        BY <3>1 DEF ListFrom
    <3>3. n # m => f[n] = ListFrom(f, n)
      BY <2>5, <2>6, Zenon DEF Links
    <3> QED
      BY <3>2, <3>3, Zenon
  <2>8. Links(g, LastNodes(k))
    <3>1. g = [n \in LastNodes(k) |-> g[n]]
      OBVIOUS
    <3> HIDE DEF g
    <3>2. [n \in LastNodes(k) |-> g[n]] = [n \in LastNodes(k) |-> ListFrom(g, n)]
      BY <2>7, Zenon
    <3> QED
      BY <3>1, <3>2, Zenon DEF Links
  <2> HIDE DEF g
  <2> QED
    BY <2>2, <2>8, Zenon
<1> QED
  BY <1>1, <1>2

LEMMA ListLinks ==
    ASSUME next \in [Node -> Node \cup {NULL}]
    PROVE  \E f : Links(f, Node \cup {NULL}) /\ \A n : List(n) = f[n]
<1> DEFINE from == CHOOSE f : f = [n \in Node \cup {NULL} |->
                      IF n = NULL THEN <<>>
                      ELSE <<n>> \o (IF next[n] > n THEN f[next[n]] ELSE <<>>)]
<1>1. Links(from, Node \cup {NULL})
  BY LinksExist, Zenon DEF Links, ListFrom
<1>2. \A n : List(n) = from[n]
  BY Zenon DEF List
<1> QED
  BY <1>1, <1>2

(* The numbers from a to b in their order. *)
Run(a, b) == [i \in 1..(b - a + 1) |-> a + i - 1]

LEMMA RunGrows ==
    ASSUME NEW a \in Int, NEW b \in Int, a <= b
    PROVE  /\ Run(a, b) \in Seq(Int) /\ Len(Run(a, b)) = b - a + 1
           /\ Head(Run(a, b)) = a
           /\ Tail(Run(a, b)) = Run(a + 1, b)
           /\ Append(Run(a, b), b + 1) = Run(a, b + 1)
           /\ Run(a, a) = <<a>>
           /\ <<a>> \o Run(a + 1, b) = Run(a, b)
           /\ Run(b + 1, b) = <<>>
<1>1. Run(a, b) \in Seq(Int) /\ Len(Run(a, b)) = b - a + 1
  BY DEF Run
<1>2. Head(Run(a, b)) = a
  BY <1>1 DEF Run
<1>3. Tail(Run(a, b)) = Run(a + 1, b)
  <2>1. /\ Tail(Run(a, b)) \in Seq(Int) /\ Len(Tail(Run(a, b))) = b - a
        /\ \A i \in 1..(b - a) : Tail(Run(a, b))[i] = Run(a, b)[i + 1]
    <3> HIDE DEF Run
    <3>1. Run(a, b) # <<>>
      BY <1>1
    <3> QED
      BY <1>1, <3>1
  <2>2. /\ Run(a + 1, b) \in Seq(Int) /\ Len(Run(a + 1, b)) = b - a
        /\ \A i \in 1..(b - a) : Run(a + 1, b)[i] = a + i
    BY DEF Run
  <2>3. \A i \in 1..(b - a) : Run(a, b)[i + 1] = a + i
    BY DEF Run
  <2>4. \A i \in 1..(b - a) : Tail(Run(a, b))[i] = Run(a + 1, b)[i]
    <3> HIDE DEF Run
    <3> QED
      BY <2>1, <2>2, <2>3
  <2> HIDE DEF Run
  <2> DEFINE s == Tail(Run(a, b))
             t == Run(a + 1, b)
  <2>5. /\ s \in Seq(Int) /\ t \in Seq(Int) /\ Len(s) = Len(t)
        /\ \A i \in 1..Len(s) : s[i] = t[i]
    BY <2>1, <2>2, <2>4
  <2>6. s = t
    <3> HIDE DEF s, t
    <3> QED
      BY <2>5, SeqEqual
  <2> QED
    BY <2>6
<1>4. Append(Run(a, b), b + 1) = Run(a, b + 1)
  BY <1>1 DEF Run
<1>5. Run(a, a) = <<a>>
  BY DEF Run
<1>6. <<a>> \o Run(a + 1, b) = Run(a, b)
  <2>1. Run(a + 1, b) \in Seq(Int) /\ Len(Run(a + 1, b)) = b - a
    BY DEF Run
  <2> QED
    BY <1>1, <2>1 DEF Run
<1>7. Run(b + 1, b) = <<>>
  BY DEF Run
<1> QED
  BY <1>1, <1>2, <1>3, <1>4, <1>5, <1>6, <1>7

(* While the list is intact, it holds the nodes from the first to the last one. *)
LEMMA ListIsRun ==
    TypeOK /\ ListIntact =>
        List(message_queue_start) =
            IF message_queue_start = NULL THEN <<>>
            ELSE Run(message_queue_start, message_queue_end)
<1> SUFFICES ASSUME TypeOK, ListIntact
             PROVE  List(message_queue_start) =
                       IF message_queue_start = NULL THEN <<>>
                       ELSE Run(message_queue_start, message_queue_end)
  OBVIOUS
<1>1. PICK f : Links(f, Node \cup {NULL}) /\ \A n : List(n) = f[n]
  BY ListLinks DEF TypeOK
<1>2. \A n \in Node \cup {NULL} :
         f[n] = IF n = NULL THEN <<>>
                ELSE <<n>> \o (IF next[n] > n THEN f[next[n]] ELSE <<>>)
  BY <1>1, Zenon DEF Links, ListFrom
<1>3. CASE message_queue_start = NULL
  BY <1>1, <1>2, <1>3
<1>4. CASE message_queue_start # NULL
  <2> DEFINE a == message_queue_start
             b == message_queue_end
             Wrong == {k \in 0..(b - a) : f[b - k] # Run(b - k, b)}
  <2>1. /\ a \in Node /\ b \in Node /\ a <= b
        /\ \A n \in a..b : n \in Node /\ next[n] = IF n = b THEN NULL ELSE n + 1
    BY <1>4, CecQueueAssumption DEF TypeOK, ListIntact, Linked, Node, NULL
  <2>2. CASE Wrong = {}
    <3>1. b - a \in 0..(b - a) /\ b - a \notin Wrong /\ b - (b - a) = a
      <4> HIDE DEF Wrong
      <4> QED
        BY <2>1, <2>2 DEF Node
    <3>2. f[b - (b - a)] = Run(b - (b - a), b)
      BY <3>1
    <3>3. f[a] = Run(a, b)
      BY <3>1, <3>2
    <3> QED
      BY <1>1, <1>4, <3>3, Zenon
  <2>3. CASE Wrong # {}
    <3>0. Wrong \subseteq Nat
      OBVIOUS
    <3>1. PICK k \in Wrong : \A j \in Wrong : k <= j
      <4> HIDE DEF Wrong
      <4> QED
        BY <2>3, <3>0, LeastNumber
    <3>2. k \in 0..(b - a) /\ f[b - k] # Run(b - k, b)
      BY <3>1
    <3>3. k # 0 => k - 1 \in 0..(b - a) /\ k - 1 \notin Wrong
      <4>1. a \in Int /\ b \in Int
        BY <2>1 DEF Node
      <4>2. k # 0 => k - 1 \in 0..(b - a) /\ ~(k <= k - 1)
        BY <3>2, <4>1
      <4> HIDE DEF Wrong
      <4> QED
        BY <3>1, <4>2
    <3>4. k # 0 => f[b - (k - 1)] = Run(b - (k - 1), b)
      BY <3>3
    <3> HIDE DEF Wrong
    <3> DEFINE n == b - k
    <3>5. /\ n \in a..b /\ n \in Node /\ n # NULL
          /\ b \in Int /\ n \in Int /\ n <= b
          /\ k = 0 <=> n = b
          /\ b - (k - 1) = n + 1
      BY <2>1, <3>2 DEF Node, NULL
    <3>6. f[n] # Run(n, b)
      BY <3>2
    <3>7. n # b => f[n + 1] = Run(n + 1, b)
      BY <3>4, <3>5
    <3> HIDE DEF n
    <3>8. next[n] = IF n = b THEN NULL ELSE n + 1
      BY <2>1, <3>5
    <3>9. f[n] = <<n>> \o (IF next[n] > n THEN f[next[n]] ELSE <<>>)
      BY <1>2, <3>5, Zenon
    <3>10. CASE n = b
      <4>1. next[n] = 0 /\ n \in Int /\ n > 0
        BY <3>5, <3>8, <3>10, CecQueueAssumption DEF NULL, Node
      <4>2. ~(next[n] > n)
        BY <4>1
      <4>3. f[n] = <<n>> \o <<>>
        BY <3>9, <4>2, Zenon
      <4>4. f[n] = <<n>>
        BY <4>3
      <4> QED
        BY <4>4, <3>5, <3>6, <3>10, RunGrows
    <3>11. CASE n # b
      <4>1. next[n] = n + 1 /\ next[n] > n
        BY <3>5, <3>8, <3>11
      <4>2. f[n] = <<n>> \o Run(n + 1, b)
        BY <3>7, <3>9, <3>11, <4>1, Zenon
      <4> QED
        BY <4>2, <3>5, <3>6, RunGrows
    <3> QED
      BY <3>10, <3>11
  <2> QED
    BY <2>2, <2>3
<1> QED
  BY <1>3, <1>4

(* The queue and the message in work, as the abstract specification sees them. *)
MappedQueue ==
    IF message_queue_start = NULL THEN <<>>
    ELSE Run(message_queue_start, message_queue_end)

Processing == IF poll_pc = "process" THEN node ELSE NULL

LEMMA QueueSeen == IInv => List(message_queue_start) = MappedQueue
  BY ListIsRun DEF IInv, MappedQueue

(* Begin: init_cec_controls. *)
LEMMA BeginStep ==
    IInv /\ InitCecControls =>
        /\ MappedQueue' = <<>> /\ Processing = 0
        /\ Processing' = Processing /\ Newest' = Newest
<1> SUFFICES ASSUME IInv, InitCecControls
             PROVE  /\ MappedQueue' = <<>> /\ Processing = 0
                    /\ Processing' = Processing /\ Newest' = Newest
  OBVIOUS
<1>1. message_queue_start' = NULL /\ rx_pc' = "loop" /\ arrived' = arrived
  BY DEF InitCecControls
<1>2. poll_pc' = poll_pc /\ node' = node
  BY DEF InitCecControls, pollVars
<1>3. poll_pc = "none" /\ rx_pc = "ended"
  BY DEF InitCecControls, IInv, TypeOK, SessionOwnsThread
<1> QED
  BY <1>1, <1>2, <1>3 DEF MappedQueue, Processing, Newest, NULL

(* Add: add_message_to_queue. *)
LEMMA AddStep ==
    IInv /\ AddMessage =>
        /\ Newest' = Newest + 1 /\ Processing' = Processing
        /\ MappedQueue' = Append(MappedQueue, Newest')
<1> SUFFICES ASSUME IInv, AddMessage
             PROVE  /\ Newest' = Newest + 1 /\ Processing' = Processing
                    /\ MappedQueue' = Append(MappedQueue, Newest')
  OBVIOUS
<1>1. /\ arrived \in Int /\ arrived > 0 /\ message_queue_end' = arrived
      /\ Newest = arrived - 1 /\ Newest' = arrived
  BY CecQueueAssumption DEF AddMessage, IInv, Order, Newest, Node
<1>2. Processing' = Processing
  BY DEF AddMessage, Processing, pollVars
<1>3. CASE message_queue_end = NULL
  <2>1. message_queue_start = NULL /\ message_queue_start' = arrived /\ arrived # NULL
    BY <1>1, <1>3 DEF AddMessage, IInv, ListIntact, NULL
  <2>2. MappedQueue = <<>> /\ MappedQueue' = Run(arrived, arrived)
    BY <1>1, <2>1 DEF MappedQueue
  <2>3. Run(arrived, arrived) = <<arrived>>
    <3>1. arrived \in Int /\ arrived <= arrived
      BY <1>1
    <3> QED
      BY <3>1, RunGrows, Zenon
  <2>4. Append(<<>>, arrived) = <<arrived>>
    OBVIOUS
  <2> QED
    BY <1>1, <1>2, <2>2, <2>3, <2>4
<1>4. CASE message_queue_end # NULL
  <2>1. /\ message_queue_start # NULL /\ message_queue_start' = message_queue_start
        /\ message_queue_end = arrived - 1 /\ message_queue_start \in Int
        /\ message_queue_start <= arrived - 1
    BY <1>1, <1>4 DEF AddMessage, IInv, TypeOK, ListIntact, Order, Node, NULL
  <2>2. /\ MappedQueue = Run(message_queue_start, arrived - 1)
        /\ MappedQueue' = Run(message_queue_start, arrived)
    BY <1>1, <2>1 DEF MappedQueue
  <2>3. arrived - 1 \in Int /\ (arrived - 1) + 1 = arrived
    BY <1>1
  <2>4. Append(Run(message_queue_start, arrived - 1), (arrived - 1) + 1)
            = Run(message_queue_start, (arrived - 1) + 1)
    BY <2>1, <2>3, RunGrows
  <2> QED
    BY <1>1, <1>2, <2>2, <2>3, <2>4
<1> QED
  BY <1>3, <1>4

(* Remove: poll_cec_events takes the first message. *)
LEMMA RemoveStep ==
    IInv /\ TakeMessage =>
        /\ Processing = 0 /\ MappedQueue # <<>> /\ Newest' = Newest
        /\ Processing' = Head(MappedQueue) /\ MappedQueue' = Tail(MappedQueue)
<1> SUFFICES ASSUME IInv, TakeMessage
             PROVE  /\ Processing = 0 /\ MappedQueue # <<>> /\ Newest' = Newest
                    /\ Processing' = Head(MappedQueue)
                    /\ MappedQueue' = Tail(MappedQueue)
  OBVIOUS
<1> DEFINE a == message_queue_start
           b == message_queue_end
<1>1. /\ a # NULL /\ b # NULL /\ a \in Int /\ b \in Int /\ a <= b
      /\ next[a] = IF a = b THEN NULL ELSE a + 1
      /\ a + 1 # NULL
  BY CecQueueAssumption DEF TakeMessage, IInv, TypeOK, ListIntact, Linked, Node, NULL
<1>2. /\ Processing = 0 /\ Processing' = a /\ Newest' = Newest
      /\ message_queue_start' = next[a]
      /\ message_queue_end' = IF next[a] = NULL THEN NULL ELSE b
  BY DEF TakeMessage, Processing, Newest, NULL, rxVars
<1>3. MappedQueue = Run(a, b)
  BY <1>1 DEF MappedQueue
<1>4. /\ Head(Run(a, b)) = a /\ Tail(Run(a, b)) = Run(a + 1, b)
      /\ Len(Run(a, b)) > 0 /\ Run(a, b) # <<>>
  <2> HIDE DEF a, b
  <2>1. /\ Head(Run(a, b)) = a /\ Tail(Run(a, b)) = Run(a + 1, b)
        /\ Len(Run(a, b)) = b - a + 1
    BY <1>1, RunGrows
  <2> QED
    BY <1>1, <2>1
<1>5. MappedQueue' = Run(a + 1, b)
  <2>1. CASE a = b
    <3>1. MappedQueue' = <<>>
      BY <1>1, <1>2, <2>1 DEF MappedQueue
    <3>2. Run(b + 1, b) = <<>>
      BY <1>1, RunGrows
    <3> QED
      BY <2>1, <3>1, <3>2
  <2>2. CASE a # b
    BY <1>1, <1>2, <2>2 DEF MappedQueue
  <2> QED
    BY <2>1, <2>2
<1> QED
  BY <1>2, <1>3, <1>4, <1>5

(* Finish: the message is applied and its node freed. *)
LEMMA FinishStep ==
    IInv /\ ProcessMessage =>
        /\ Processing # 0 /\ Processing' = 0
        /\ MappedQueue' = MappedQueue /\ Newest' = Newest
  BY DEF ProcessMessage, IInv, TypeOK, Processing, MappedQueue, Newest, NULL,
         rxVars, listVars

(* The other steps of the code are none of the queue's: a message that is read but
   not yet linked is not on it. *)
Unseen ==
    \/ InitCecFails \/ StartPolling \/ StopPolling \/ StopRx \/ JoinRx
    \/ RxLoop \/ RxNothing \/ RxDisconnected \/ RxMessage \/ UNCHANGED vars

LEMMA UnseenStep ==
    IInv /\ Unseen =>
        /\ Processing' = Processing /\ MappedQueue' = MappedQueue /\ Newest' = Newest
<1> SUFFICES ASSUME IInv, Unseen
             PROVE  /\ Processing' = Processing /\ MappedQueue' = MappedQueue
                    /\ Newest' = Newest
  OBVIOUS
<1> USE DEF Processing, MappedQueue, Newest, NULL
<1>1. CASE InitCecFails
  BY <1>1 DEF InitCecFails, rxVars, listVars, pollVars
<1>2. CASE StartPolling
  BY <1>2 DEF StartPolling, rxVars, listVars, IInv, SessionOwnsThread
<1>3. CASE StopPolling
  BY <1>3 DEF StopPolling, rxVars, listVars
<1>4. CASE StopRx
  BY <1>4 DEF StopRx, listVars, pollVars
<1>5. CASE JoinRx
  BY <1>5 DEF JoinRx, listVars, pollVars
<1>6. CASE RxLoop
  BY <1>6 DEF RxLoop, listVars, pollVars
<1>7. CASE RxNothing
  BY <1>7 DEF RxNothing, listVars, pollVars
<1>8. CASE RxDisconnected
  BY <1>8 DEF RxDisconnected, listVars, pollVars
<1>9. CASE RxMessage
  BY <1>9 DEF RxMessage, pollVars, IInv, TypeOK
<1>10. CASE UNCHANGED vars
  BY <1>10 DEF vars, rxVars, listVars, pollVars
<1> QED
  BY <1>1, <1>2, <1>3, <1>4, <1>5, <1>6, <1>7, <1>8, <1>9, <1>10 DEF Unseen

LEMMA QueueSeenNext == IInv' => (List(message_queue_start) = MappedQueue)'
  BY QueueSeen, PTL

(* Every step of the code is a step of the queue or none. *)
LEMMA QueueStep == IInv /\ IInv' /\ [Next]_vars => [Fifo!Next]_(Fifo!queueVars)
<1> SUFFICES ASSUME IInv, IInv', [Next]_vars PROVE [Fifo!Next]_(Fifo!queueVars)
  OBVIOUS
<1>1. /\ List(message_queue_start) = MappedQueue
      /\ List(message_queue_start)' = MappedQueue'
  BY QueueSeen, QueueSeenNext
<1> HIDE DEF List
<1> USE <1>1 DEF Fifo!Next, Fifo!queueVars, Fifo!Idle
<1>2. CASE InitCecControls
  BY <1>2, BeginStep DEF Fifo!Begin, Processing, Newest
<1>3. CASE AddMessage
  BY <1>3, AddStep DEF Fifo!Add, Processing, Newest
<1>4. CASE TakeMessage
  BY <1>4, RemoveStep DEF Fifo!Remove, Processing, Newest
<1>5. CASE ProcessMessage
  BY <1>5, FinishStep DEF Fifo!Finish, Processing, Newest
<1>6. CASE Unseen
  BY <1>6, UnseenStep DEF Processing, Newest
<1> QED
  BY <1>2, <1>3, <1>4, <1>5, <1>6 DEF Next, RxThread, PollCecEvents, Main, Unseen

(* The linked list is a FIFO queue: messages are processed in the order the TV sent
   them, each once, and only init_cec_controls drops those that wait. *)
THEOREM QueueImplemented == Spec => ImplementsQueue
<1>1. Init => Fifo!Init
  <2> SUFFICES ASSUME Init PROVE Fifo!Init
    OBVIOUS
  <2>1. IInv /\ List(message_queue_start) = MappedQueue
    BY IInvInit, QueueSeen
  <2>2. MappedQueue = <<>> /\ poll_pc = "none" /\ rx_pc = "ended" /\ arrived = 0
    BY DEF Init, MappedQueue, NULL
  <2> QED
    BY <2>1, <2>2 DEF Fifo!Init, Fifo!Idle, NULL
<1> QED
  BY <1>1, IInvInit, IInvStep, QueueStep, PTL DEF Spec, ImplementsQueue, Fifo!Spec

=============================================================================

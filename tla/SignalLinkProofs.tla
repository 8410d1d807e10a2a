-------------------------- MODULE SignalLinkProofs --------------------------
(***************************************************************************)
(* A slot does not go back in time but where its sockets overlap: what is  *)
(* on its way over one socket is sorted by age at every moment and not     *)
(* older than what the slot showed when the socket subscribed.             *)
(***************************************************************************)
EXTENDS SignalLink, TLAPS

(* Older values are further on their way over a socket.                    *)
EndOrdered(e) ==
  /\ link[e] # "subscribed" => wire[e] = <<>>
  /\ floor[e] <= current.num
  /\ \A i \in 1..Len(wire[e]) : floor[e] <= wire[e][i].num /\ wire[e][i].num <= current.num
  /\ \A i, j \in 1..Len(wire[e]) : i <= j => wire[e][i].num <= wire[e][j].num

(* So they are in the receive task.                                        *)
TaskOrdered ==
  /\ value.num <= current.num /\ item.num <= current.num
  /\ task # "filtering" => item = Nothing
  /\ task = "filtering" =>
       /\ link["used"] # "accepted" /\ floor["used"] <= item.num
       /\ \A i \in 1..Len(wire["used"]) : item.num <= wire["used"][i].num

(* The value about to be repeated is not older than what was published.    *)
GreetingNewest ==
  greeting # Nothing =>
    /\ value.num <= greeting.num /\ item.num <= greeting.num
    /\ greeting.num <= current.num
    /\ \A e \in Ends :
         /\ floor[e] <= greeting.num
         /\ \A i \in 1..Len(wire[e]) : wire[e][i].num <= greeting.num

Ordered == (\A e \in Ends : EndOrdered(e)) /\ TaskOrdered /\ GreetingNewest

-----------------------------------------------------------------------------
(* Appending and taking messages keeps a sequence of messages one.         *)
LEMMA AppendMessage ==
  ASSUME NEW q \in Seq(Message), NEW m \in Message
  PROVE  /\ Append(q, m) \in Seq(Message)
         /\ Len(Append(q, m)) = Len(q) + 1 /\ Append(q, m) # <<>>
         /\ \A i \in 1..Len(q) : Append(q, m)[i] = q[i]
         /\ Append(q, m)[Len(q) + 1] = m
  OBVIOUS

(* Taking the oldest message.                                              *)
LEMMA TakeMessage ==
  ASSUME NEW q \in Seq(Message), q # <<>>
  PROVE  /\ Head(q) \in Message /\ Head(q) = q[1] /\ Len(q) \in Nat \ {0}
         /\ Tail(q) \in Seq(Message) /\ Len(Tail(q)) = Len(q) - 1
         /\ \A i \in 1..Len(Tail(q)) : Tail(q)[i] = q[i + 1] /\ i + 1 \in 1..Len(q)
  OBVIOUS

(* A message is not Nothing; both have a natural number.                   *)
LEMMA Numbers ==
  /\ \A m \in Message : m.num \in Nat \ {0} /\ m.val \in Values /\ m # Nothing /\ m \in Shown
  /\ \A m \in Shown : m.num \in Nat
  /\ Nothing.num = 0 /\ Nothing.val = None /\ Nothing \in Shown
  BY BoundsAssumption, ValuesAssumption DEF Message, Nothing, Shown

-----------------------------------------------------------------------------
(* What the monitor publishes is a message: it has seen a change only if   *)
(* there is a value.                                                       *)
FreshHasValue == fresh => current # Nothing

(* A change the monitor has not seen is a value.                           *)
LEMMA FreshValue == Safety => []FreshHasValue
<1>1. Init => FreshHasValue
  BY DEF Init, FreshHasValue
<1>2. FreshHasValue /\ [Next]_vars => FreshHasValue'
  <2> SUFFICES ASSUME FreshHasValue, [Next]_vars PROVE FreshHasValue'
    OBVIOUS
  <2>1. ASSUME NEW v \in Values, Send(v) PROVE FreshHasValue'
    <3>1. current'.val = v /\ Nothing.val = None
      BY <2>1 DEF Send, Nothing
    <3>2. QED
      BY <3>1, ValuesAssumption DEF FreshHasValue
  <2>2. CASE fresh' \in {fresh, FALSE} /\ current' = current
    BY <2>2 DEF FreshHasValue
  <2>3. QED
    BY <2>1, <2>2 DEF Next, Monitor, Accepted, Greet, Publish, Connect, Subscribe, Disconnect,
      OtherConnects, TakeSocket, Receive, TimerEnds, SocketDropped, Recv, Callback, AsyncRecv,
      AsyncRecvReturns, Expose, Override, vars, signal
<1>3. QED
  BY <1>1, <1>2, PTL DEF Safety

(* What is published is a message on its way to whoever has subscribed.    *)
LEMMA PublishedType ==
  ASSUME TypeOK, NEW m \in Message, Published(m)
  PROVE  wire' \in [Ends -> Seq(Message)]
BY AppendMessage DEF Published, TypeOK

(* Types of the channels, the sockets and the tasks.                       *)
THEOREM TypeCorrect == Safety => []TypeOK
<1>1. Init => TypeOK
  <2> SUFFICES ASSUME Init PROVE TypeOK
    OBVIOUS
  <2>1. wire \in [Ends -> Seq(Message)] /\ accepts \in 0..MaxAccepts
        /\ floor \in [Ends -> 0..MaxSends] /\ value \in Shown
    BY BoundsAssumption, Numbers DEF Init
  <2>2. QED
    BY <2>1 DEF Init, TypeOK
<1>2. TypeOK /\ FreshHasValue /\ [Next]_vars => TypeOK'
  <2> SUFFICES ASSUME TypeOK, FreshHasValue, [Next]_vars PROVE TypeOK'
    OBVIOUS
  <2> USE BoundsAssumption DEF TypeOK, Ends
  <2>1. ASSUME NEW v \in Values, Send(v) PROVE TypeOK'
    <3>1. current'.num = current.num + 1 /\ current' \in Message
      BY <2>1, Numbers DEF Send, Message, Nothing
    <3>2. QED
      BY <2>1, <3>1 DEF Send, conn, slot, reader
  <2>2. CASE Accepted
    BY <2>2 DEF Accepted, conn, slot, reader
  <2>3. CASE Greet
    <3>1. wire' \in [Ends -> Seq(Message)]
      BY <2>3, PublishedType DEF Greet
    <3>2. QED
      BY <2>3, <3>1 DEF Greet, slot, reader
  <2>4. CASE Publish
    <3>1. wire' \in [Ends -> Seq(Message)]
      BY <2>4, PublishedType DEF Publish, FreshHasValue
    <3>2. QED
      BY <2>4, <3>1 DEF Publish, slot, reader
  <2>5. CASE Connect \/ OtherConnects
    BY <2>5 DEF Connect, OtherConnects, conn, slot, reader
  <2>6. ASSUME NEW e \in Ends, Subscribe(e) PROVE TypeOK'
    <3>1. value.num \in 0..MaxSends
      BY DEF Shown
    <3> QED
      BY <2>6, <3>1 DEF Subscribe, slot, signal, reader
  <2>7. ASSUME NEW e \in Ends, Disconnect(e) PROVE TypeOK'
    BY <2>7 DEF Disconnect, slot, signal, reader
  <2>8. CASE TakeSocket
    <3>1. 0 \in 0..MaxSends /\ <<>> \in Seq(Message)
      OBVIOUS
    <3>2. floor' \in [Ends -> 0..MaxSends] /\ wire' \in [Ends -> Seq(Message)]
      BY <2>8, <3>1 DEF TakeSocket
    <3>3. link' \in [Ends -> {"none", "accepted", "subscribed", "closed"}]
      BY <2>8 DEF TakeSocket
    <3> QED
      BY <2>8, <3>2, <3>3 DEF TakeSocket, slot, signal, reader
  <2>9. CASE Receive
    <3>1. PICK m \in Message :
            /\ m = Head(wire["used"]) /\ wire' = [wire EXCEPT !["used"] = Tail(@)]
            /\ Tail(wire["used"]) \in Seq(Message)
      BY <2>9, TakeMessage DEF Receive
    <3>2. m \in Shown /\ m.num \in 0..MaxSends /\ m.val \in Values
      BY Numbers DEF Message
    <3>3. /\ task'   \in {"idle", "filtering", "dead"} /\ unseen' \subseteq receivers'
          /\ item'   \in Message \union {Nothing}
          /\ last'   \in Values \union {None}
          /\ value'  \in Shown /\ overridden' \in BOOLEAN
          /\ floor'  \in [Ends -> 0..MaxSends]
      <4>1. CASE Same(m) /\ last' = m.val /\ UNCHANGED <<task, item, value, overridden, floor, unseen>>
        BY <2>9, <3>2, <4>1 DEF Receive
      <4>2. CASE task' = "filtering" /\ item' = m /\ UNCHANGED <<last, value, overridden, floor, unseen>>
        BY <2>9, <4>2 DEF Receive
      <4>3. CASE Deliver(m) /\ UNCHANGED item
        BY <2>9, <3>2, <4>3 DEF Receive, Deliver
      <4>4. QED
        BY <2>9, <3>1, <4>1, <4>2, <4>3 DEF Receive
    <3>4. wire' \in [Ends -> Seq(Message)]
      BY <3>1
    <3>5. QED
      BY <2>9, <3>3, <3>4 DEF Receive, signal
  <2>10. CASE TimerEnds
    <3>1. item \in Shown /\ item.num \in 0..MaxSends /\ item.val \in Values \union {None}
      BY Numbers DEF Message, Nothing
    <3> QED
      BY <2>10, <3>1 DEF TimerEnds, Deliver, signal
  <2>11. CASE SocketDropped
    BY <2>11 DEF SocketDropped, slot, signal, reader
  <2>12. CASE Recv \/ Callback \/ AsyncRecv \/ AsyncRecvReturns \/ Expose
    BY <2>12 DEF Recv, Callback, AsyncRecv, AsyncRecvReturns, Expose, conn, slot, signal
  <2>13. ASSUME NEW v \in Values, Override(v) PROVE TypeOK'
    <3>1. value' \in Shown
      BY <2>13 DEF Override, Shown
    <3> QED
      BY <2>13, <3>1 DEF Override, conn, signal
  <2>14. CASE UNCHANGED vars
    BY <2>14 DEF vars, conn, slot, signal, reader
  <2>15. QED
    BY <2>1, <2>2, <2>3, <2>4, <2>5, <2>6, <2>7, <2>8, <2>9,
     <2>10, <2>11, <2>12, <2>13, <2>14 DEF Next, Monitor
<1>3. QED
  BY <1>1, <1>2, FreshValue, PTL DEF Safety

-----------------------------------------------------------------------------
(* What is on its way is sorted.                                           *)
LEMMA OrderedInit == Init => Ordered
  BY Numbers DEF Init, Ordered, EndOrdered, TaskOrdered, GreetingNewest

(* Numbers are natural, wherever they are.                                 *)
LEMMA AllNumbers ==
  ASSUME TypeOK
  PROVE  /\ value.num \in Nat /\ item.num \in Nat /\ current.num \in Nat /\ greeting.num \in Nat
         /\ \A e \in Ends : floor[e] \in Nat /\ Len(wire[e]) \in Nat
         /\ \A e \in Ends : \A i \in 1..Len(wire[e]) : wire[e][i] \in Message /\ wire[e][i].num \in Nat
         /\ "used" \in Ends /\ "coming" \in Ends
<1>1. value.num \in Nat /\ item.num \in Nat /\ current.num \in Nat /\ greeting.num \in Nat
  BY Numbers DEF TypeOK
<1>2. \A e \in Ends : floor[e] \in Nat /\ Len(wire[e]) \in Nat
  BY BoundsAssumption DEF TypeOK
<1>3. \A e \in Ends : \A i \in 1..Len(wire[e]) : wire[e][i] \in Message
  BY DEF TypeOK
<1> QED
  BY <1>1, <1>2, <1>3, Numbers DEF Ends

(* Publishing a message that is newer than all that was published.         *)
LEMMA PublishOrdered ==
  ASSUME TypeOK, Ordered, NEW m \in Message,
         value.num <= m.num, item.num <= m.num, m.num <= current.num,
         \A e \in Ends : floor[e] <= m.num /\ \A i \in 1..Len(wire[e]) : wire[e][i].num <= m.num,
         Published(m), UNCHANGED <<current, link, floor, slot>>
  PROVE  /\ \A e \in Ends : EndOrdered(e)' /\ \A i \in 1..Len(wire'[e]) : wire'[e][i].num <= m.num
         /\ TaskOrdered'
<1>1. ASSUME NEW e \in Ends
      PROVE  /\ EndOrdered(e)' /\ \A i \in 1..Len(wire'[e]) : wire'[e][i].num <= m.num
             /\ item.num <= m.num => ((\A i \in 1..Len(wire[e]) : item.num <= wire[e][i].num) =>
                  \A i \in 1..Len(wire'[e]) : item.num <= wire'[e][i].num)
  <2>1. EndOrdered(e)
    BY DEF Ordered
  <2>2. CASE link[e] = "subscribed"
    <3> DEFINE n == Len(wire[e])
    <3>1. /\ n \in Nat /\ Len(wire'[e]) = n + 1 /\ wire'[e][n + 1] = m
          /\ \A i \in 1..n : wire'[e][i] = wire[e][i] /\ wire[e][i] \in Message
      BY <2>2, AppendMessage DEF TypeOK, Published
    <3>0. \A i \in 1..(n + 1) : i = n + 1 \/ i \in 1..n
      BY <3>1
    <3>2. \A i \in 1..(n + 1) : wire'[e][i].num <= m.num
      <4>1. m.num <= m.num
        BY Numbers
      <4> QED
        BY <3>0, <3>1, <4>1
    <3>3. \A i \in 1..(n + 1) : floor[e] <= wire'[e][i].num /\ wire'[e][i].num <= current.num
      <4>1. \A i \in 1..n : floor[e] <= wire[e][i].num /\ wire[e][i].num <= current.num
        BY <2>1 DEF EndOrdered
      <4>2. floor[e] <= m.num /\ m.num <= current.num
        OBVIOUS
      <4> QED
        BY <3>0, <3>1, <4>1, <4>2
    <3>4. \A i, j \in 1..(n + 1) : i <= j => wire'[e][i].num <= wire'[e][j].num
      <4> SUFFICES ASSUME NEW i \in 1..(n + 1), NEW j \in 1..(n + 1), i <= j
                   PROVE  wire'[e][i].num <= wire'[e][j].num
        OBVIOUS
      <4>1. CASE j = n + 1
        BY <4>1, <3>1, <3>2
      <4>2. CASE j \in 1..n /\ i \in 1..n
        BY <4>2, <2>1, <3>1 DEF EndOrdered
      <4>3. QED
        BY <4>1, <4>2, <3>1
    <3>5. (\A i \in 1..n : item.num <= wire[e][i].num) =>
            \A i \in 1..(n + 1) : item.num <= wire'[e][i].num
      BY <3>0, <3>1
    <3>6. EndOrdered(e)'
      BY <2>1, <2>2, <3>1, <3>3, <3>4 DEF EndOrdered
    <3> QED
      BY <3>1, <3>2, <3>5, <3>6
  <2>3. CASE link[e] # "subscribed"
    <3>1. wire'[e] = wire[e]
      BY <2>3 DEF Published
    <3> QED
      BY <2>1, <3>1 DEF EndOrdered
  <2> QED
    BY <2>2, <2>3
<1>2. TaskOrdered'
  BY <1>1, AllNumbers DEF Ordered, TaskOrdered, slot
<1>3. QED
  BY <1>1, <1>2

(* Receiving the oldest message, whatever the filters say.                 *)
LEMMA ReceiveOrdered ==
  ASSUME TypeOK, Ordered, Receive
  PROVE  Ordered'
<1> DEFINE w == wire["used"]  x == wire'["used"]
<1>1. PICK m \in Message :
        /\ m = w[1] /\ m = Head(w) /\ Len(w) \in Nat \ {0} /\ Len(x) = Len(w) - 1
        /\ \A i \in 1..Len(x) : x[i] = w[i + 1] /\ i + 1 \in 1..Len(w)
  BY TakeMessage DEF Receive, TypeOK, Ends
<1>2. /\ wire'["coming"] = wire["coming"] /\ UNCHANGED <<current, greeting, link>>
      /\ floor'["coming"] = floor["coming"]
      /\ w # <<>> /\ x = Tail(w)
  BY DEF Receive, Deliver, signal, TypeOK, Ends
<1>3. /\ floor["used"] <= m.num /\ m.num <= current.num /\ item = Nothing
      /\ \A i \in 1..Len(w) : m.num <= w[i].num
      /\ greeting # Nothing => m.num <= greeting.num
  BY <1>1, AllNumbers DEF Ordered, EndOrdered, TaskOrdered, GreetingNewest, Receive
<1>4. /\ value' \in {value, m} /\ item' \in {Nothing, m}
      /\ floor'["used"] \in {floor["used"], m.num}
      /\ task' = "filtering" => item' = m /\ floor'["used"] = floor["used"]
      /\ task' # "filtering" => item' = Nothing
  BY <1>1, <1>3 DEF Receive, Deliver, TypeOK, Ends
<1>5. link["used"] = "subscribed"
  BY <1>2, AllNumbers DEF Ordered, EndOrdered
<1>6. \A i \in 1..Len(x) : m.num <= x[i].num /\ x[i].num <= current.num /\ x[i] \in Message
  BY <1>1, <1>3, AllNumbers DEF Ordered, EndOrdered
<1>7. \A i, j \in 1..Len(x) : i <= j => x[i].num <= x[j].num
  <2> SUFFICES ASSUME NEW i \in 1..Len(x), NEW j \in 1..Len(x), i <= j
               PROVE  x[i].num <= x[j].num
    OBVIOUS
  <2>1. i + 1 \in 1..Len(w) /\ j + 1 \in 1..Len(w) /\ i + 1 <= j + 1
    BY <1>1
  <2>2. w[i + 1].num <= w[j + 1].num
    BY <2>1, AllNumbers DEF Ordered, EndOrdered
  <2>3. QED
    BY <2>2, <1>1
<1>8. m.num \in Nat /\ Nothing.num = 0
  BY Numbers
<1> HIDE DEF w, x
<1>9. EndOrdered("used")'
  <2>1. \A i \in 1..Len(x) : floor'["used"] <= x[i].num /\ x[i].num <= current'.num
    BY <1>2, <1>3, <1>4, <1>6, <1>8, AllNumbers, Numbers
  <2>2. floor'["used"] <= current'.num
    BY <1>2, <1>3, <1>4, <1>8, AllNumbers
  <2> QED
    BY <1>2, <1>5, <1>7, <2>1, <2>2 DEF EndOrdered, x
<1>10. EndOrdered("coming")'
  BY <1>2, AllNumbers DEF Ordered, EndOrdered
<1>11. TaskOrdered'
  <2>1. value'.num <= current'.num /\ item'.num <= current'.num
    BY <1>2, <1>3, <1>4, <1>8, AllNumbers DEF Ordered, TaskOrdered
  <2>2. CASE task' = "filtering"
    <3>1. item' = m /\ floor'["used"] = floor["used"] /\ link'["used"] = "subscribed"
      BY <1>2, <1>4, <1>5, <2>2
    <3>2. \A i \in 1..Len(x) : m.num <= x[i].num
      BY <1>6
    <3> QED
      BY <2>1, <2>2, <3>1, <3>2, <1>3 DEF TaskOrdered, x
  <2> QED
    BY <2>1, <2>2, <1>4 DEF TaskOrdered
<1>12. GreetingNewest'
  <2> SUFFICES ASSUME greeting # Nothing PROVE GreetingNewest'
    BY <1>2 DEF GreetingNewest
  <2>1. value'.num <= greeting.num /\ item'.num <= greeting.num /\ floor'["used"] <= greeting.num
    BY <1>3, <1>4, <1>8, AllNumbers DEF Ordered, GreetingNewest
  <2>2. \A i \in 1..Len(x) : x[i].num <= greeting.num
    BY <1>1, AllNumbers DEF Ordered, GreetingNewest, w
  <2>3. \A i \in 1..Len(wire["coming"]) : wire["coming"][i].num <= greeting.num
    BY AllNumbers DEF Ordered, GreetingNewest
  <2>4. floor["coming"] <= greeting.num /\ greeting.num <= current.num
    BY AllNumbers DEF Ordered, GreetingNewest
  <2> QED
    BY <1>2, <2>1, <2>2, <2>3, <2>4 DEF GreetingNewest, x, Ends
<1> QED
  BY <1>9, <1>10, <1>11, <1>12 DEF Ordered, Ends

(* Every step keeps what is on its way sorted.                             *)
LEMMA OrderedStep ==
  ASSUME TypeOK, FreshHasValue, Ordered, [Next]_vars
  PROVE  Ordered'
<1> USE DEF Ordered, EndOrdered, TaskOrdered, GreetingNewest
<1>1. ASSUME NEW v \in Values, Send(v) PROVE Ordered'
  <2>1. current'.num = current.num + 1 /\ UNCHANGED <<greeting, conn, task, item, value>>
    BY <1>1 DEF Send, slot
  <2>2. QED
    BY <2>1, AllNumbers DEF conn
<1>2. CASE Accepted
  BY <1>2, AllNumbers DEF Accepted, conn, slot
<1>3. CASE Greet
  <2>1. greeting \in Message /\ (\A e \in Ends : EndOrdered(e)') /\ TaskOrdered'
    BY <1>3, PublishOrdered DEF Greet, TypeOK
  <2>2. QED
    BY <1>3, <2>1 DEF Greet
<1>4. CASE Publish
  <2>1. current \in Message /\ (\A e \in Ends : EndOrdered(e)') /\ TaskOrdered'
    BY <1>4, AllNumbers, PublishOrdered DEF Publish, TypeOK, FreshHasValue
  <2>2. QED
    BY <1>4, <2>1 DEF Publish
<1>5. CASE Connect \/ OtherConnects
  BY <1>5, AllNumbers DEF Connect, OtherConnects, conn, slot, signal, TypeOK, Ends
<1>6. ASSUME NEW e \in Ends, Subscribe(e) PROVE Ordered'
  <2>1. /\ wire[e] = <<>> /\ floor' = [floor EXCEPT ![e] = value.num]
        /\ link' = [link EXCEPT ![e] = "subscribed"] /\ link[e] = "accepted"
        /\ UNCHANGED <<current, greeting, wire, task, item, value>>
    BY <1>6 DEF Subscribe, signal, slot
  <2>2. \A d \in Ends : EndOrdered(d)'
    <3>1. EndOrdered(e)'
      BY <2>1, AllNumbers DEF TypeOK
    <3>2. ASSUME NEW d \in Ends, d # e PROVE EndOrdered(d)'
      <4>1. wire'[d] = wire[d] /\ link'[d] = link[d] /\ floor'[d] = floor[d]
        BY <2>1, <3>2 DEF TypeOK
      <4>2. EndOrdered(d)
        OBVIOUS
      <4> QED
        BY <2>1, <4>1, <4>2
    <3> QED
      BY <3>1, <3>2
  <2>3. TaskOrdered'
    BY <2>1, AllNumbers DEF TypeOK
  <2>4. GreetingNewest'
    BY <2>1, AllNumbers DEF TypeOK
  <2> QED
    BY <2>2, <2>3, <2>4
<1>7. ASSUME NEW e \in Ends, Disconnect(e) PROVE Ordered'
  <2>1. /\ UNCHANGED <<current, greeting, floor, task, item, value>>
        /\ \A d \in Ends : \/ wire'[d] = <<>> /\ link'[d] # "accepted"
                           \/ wire'[d] = wire[d] /\ link'[d] = link[d]
    BY <1>7 DEF Disconnect, signal, slot, TypeOK
  <2>2. \A d \in Ends : EndOrdered(d)'
    BY <2>1, AllNumbers
  <2>3. TaskOrdered'
    BY <2>1, AllNumbers
  <2>4. GreetingNewest'
    BY <2>1, AllNumbers
  <2> QED
    BY <2>2, <2>3, <2>4
<1>8. CASE SocketDropped
  <2>1. /\ UNCHANGED <<current, greeting, floor, task, item, value>> /\ task = "dead"
        /\ \A d \in Ends : wire'[d] = <<>> /\ link'[d] = "none"
    BY <1>8 DEF SocketDropped, signal, slot, TypeOK
  <2> QED
    BY <2>1, AllNumbers
<1>9. CASE TakeSocket
  <2>1. /\ UNCHANGED <<current, greeting, task, item, value>> /\ task = "idle"
        /\ wire'["used"] = wire["coming"] /\ link'["used"] = link["coming"]
        /\ floor'["used"] = floor["coming"]
        /\ wire'["coming"] = <<>> /\ link'["coming"] = "none" /\ floor'["coming"] = 0
    BY <1>9 DEF TakeSocket, signal, slot, TypeOK, Ends
  <2>2. EndOrdered("used")'
    <3>1. EndOrdered("coming")
      BY AllNumbers
    <3> QED
      BY <2>1, <3>1
  <2>3. EndOrdered("coming")'
    BY <2>1, AllNumbers
  <2>4. TaskOrdered'
    BY <2>1
  <2>5. GreetingNewest'
    BY <2>1, AllNumbers DEF Ends
  <2> QED
    BY <2>2, <2>3, <2>4, <2>5 DEF Ends
<1>10. CASE Receive
  BY <1>10, ReceiveOrdered
<1>11. CASE TimerEnds
  <2>1. /\ UNCHANGED <<current, greeting, link, wire>> /\ item' = Nothing /\ Nothing.num = 0
        /\ task' # "filtering" /\ task = "filtering"
        /\ \/ value' = value /\ floor' = floor
           \/ value' = item /\ floor' = [floor EXCEPT !["used"] = item.num]
    BY <1>11, Numbers DEF TimerEnds, Deliver, signal
  <2>2. EndOrdered("used")'
    BY <2>1, AllNumbers DEF TypeOK
  <2>3. EndOrdered("coming")'
    <3>1. EndOrdered("coming") /\ floor'["coming"] = floor["coming"]
      BY <2>1, AllNumbers DEF TypeOK
    <3> QED
      BY <2>1, <3>1
  <2>4. TaskOrdered'
    BY <2>1, AllNumbers
  <2>5. GreetingNewest'
    <3>1. \A e \in Ends : floor'[e] = floor[e] \/ floor'[e] = item.num
      BY <2>1 DEF TypeOK
    <3>2. value' = value \/ value' = item
      BY <2>1
    <3> SUFFICES ASSUME greeting # Nothing PROVE GreetingNewest'
      BY <2>1
    <3>3. /\ value.num <= greeting.num /\ item.num <= greeting.num /\ 0 <= greeting.num
          /\ greeting.num <= current.num
          /\ \A e \in Ends : floor[e] <= greeting.num
          /\ \A e \in Ends : \A i \in 1..Len(wire[e]) : wire[e][i].num <= greeting.num
      BY AllNumbers
    <3>4. value'.num <= greeting.num /\ item'.num <= greeting.num
      BY <2>1, <3>2, <3>3
    <3>5. \A e \in Ends : floor'[e] <= greeting.num
      BY <3>1, <3>3
    <3> QED
      BY <2>1, <3>3, <3>4, <3>5
  <2> QED
    BY <2>2, <2>3, <2>4, <2>5 DEF Ends
<1>12. CASE UNCHANGED <<signal, conn, task, item>> /\ value'.num = value.num
  BY <1>12 DEF signal, conn
<1>13. Recv \/ Callback \/ AsyncRecv \/ AsyncRecvReturns \/ Expose
         => UNCHANGED <<signal, conn, task, item>> /\ value'.num = value.num
  BY DEF Recv, Callback, AsyncRecv, AsyncRecvReturns, Expose, slot
<1>14. ASSUME NEW v \in Values, Override(v)
       PROVE  UNCHANGED <<signal, conn, task, item>> /\ value'.num = value.num
  BY <1>14 DEF Override, TypeOK, Shown
<1>15. UNCHANGED vars => UNCHANGED <<signal, conn, task, item>> /\ value'.num = value.num
  BY DEF vars, slot
<1> HIDE DEF Ordered
<1>16. QED
  BY <1>1, <1>2, <1>3, <1>4, <1>5, <1>6, <1>7, <1>8, <1>9, <1>10, <1>11, <1>12, <1>13, <1>14,
     <1>15 DEF Next, Monitor

(* A slot goes back to an older value only over a socket that subscribed   *)
(* before the newer one was shown.                                         *)
THEOREM NothingGoesBack == Safety => NeverBack
<1>1. Safety => []Ordered
  BY OrderedInit, OrderedStep, TypeCorrect, FreshValue, PTL DEF Safety
<1>2. TypeOK /\ Ordered /\ [Next]_vars =>
        [value' # value /\ ~overridden' => value'.num >= floor["used"]]_vars
  <2> SUFFICES ASSUME TypeOK, Ordered, Next, value' # value, ~overridden'
               PROVE  value'.num >= floor["used"]
    BY DEF vars
  <2>1. CASE Receive
    <3>1. value' = Head(wire["used"]) /\ wire["used"] # <<>>
      BY <2>1 DEF Receive, Deliver
    <3>2. value' = wire["used"][1] /\ 1 \in 1..Len(wire["used"])
      BY <3>1, TakeMessage DEF TypeOK, Ends
    <3> QED
      BY <3>2, AllNumbers DEF Ordered, EndOrdered
  <2>2. CASE TimerEnds
    <3>1. value' = item /\ task = "filtering"
      BY <2>2 DEF TimerEnds, Deliver
    <3> QED
      BY <3>1, AllNumbers DEF Ordered, TaskOrdered
  <2> QED
    BY <2>1, <2>2 DEF Next, Monitor, Send, Accepted, Greet, Publish, Connect, Subscribe, Disconnect,
      OtherConnects, TakeSocket, SocketDropped, Recv, Callback, AsyncRecv, AsyncRecvReturns,
      Expose, Override, slot
<1>3. QED
  BY <1>1, <1>2, TypeCorrect, PTL DEF Safety, NeverBack

-----------------------------------------------------------------------------
(* The safety core of ConvergesOnceSent.                                   *)

(* The value the filters compare with is the one the slot shows, unless the*)
(* program has overridden it.                                              *)
FilterRemembersShown == task = "idle" /\ ~overridden => value.val = last

(* However messages are dropped, held back or delivered.                   *)
LEMMA ShownIsRemembered == Safety => []FilterRemembersShown
<1>1. Init => FilterRemembersShown
  BY DEF Init, FilterRemembersShown, Nothing
<1>2. FilterRemembersShown /\ [Next]_vars => FilterRemembersShown'
  <2> SUFFICES ASSUME FilterRemembersShown, [Next]_vars PROVE FilterRemembersShown'
    OBVIOUS
  <2> USE DEF FilterRemembersShown
  <2>1. CASE Receive
    BY <2>1 DEF Receive, Deliver, Same
  <2>2. CASE TimerEnds
    BY <2>2 DEF TimerEnds, Deliver
  <2>3. CASE UNCHANGED slot
    BY <2>3 DEF slot
  <2>4. ASSUME NEW v \in Values, Override(v) PROVE FilterRemembersShown'
    BY <2>4 DEF Override
  <2>5. QED
    BY <2>1, <2>2, <2>3, <2>4 DEF Next, Monitor, Send, Accepted, Greet, Publish, Connect,
      Subscribe, Disconnect, OtherConnects, TakeSocket, SocketDropped, Recv, Callback, AsyncRecv,
      AsyncRecvReturns, Expose, vars
<1>3. QED
  BY <1>1, <1>2, PTL DEF Safety

(* The program registers its callback before the slot connects, and the    *)
(* signal has a value by then: the hypothesis of ConvergesOnceSent.        *)
RegistersFirst == Joined => "recv" \in receivers /\ current # Nothing

(* What the slot has or is about to have over the socket it receives from. *)
Newest(e) == wire[e][Len(wire[e])]
Latest == IF wire["used"] # <<>> THEN Newest("used").val
          ELSE IF task = "filtering" THEN item.val ELSE last

(* The monitor still has something to do for every subscriber.             *)
Owing == accepts > 0 \/ greeting # Nothing \/ fresh

(* What the monitor repeats is outdated only if it has seen no change of   *)
(* it; a socket that has connected is repeated the value to, or was sent   *)
(* it, also while the slot receives from another.                          *)
Repeated ==
  /\ greeting # Nothing => fresh \/ greeting = current
  /\ \A e \in Ends : link[e] = "accepted" => accepts > 0 \/ greeting # Nothing
  /\ link["used"] = "subscribed" => Owing \/ Latest = current.val
  /\ link["coming"] = "subscribed" =>
       Owing \/ (wire["coming"] # <<>> /\ Newest("coming").val = current.val)

(* Whoever registered before a value was on its way is there to be shown   *)
(* it.                                                                     *)
Watched == task = "filtering" => "recv" \in receivers

(* Nothing is left to do for the monitor, the receive task and the callback*)
Settled ==
  /\ ~Owing
  /\ wire["used"] = <<>> /\ task = "idle" /\ "recv" \notin unseen

(* A message on its way has a receiver.                                    *)
LEMMA WiresWatched ==
  ASSUME Ordered, RegistersFirst
  PROVE  \A e \in Ends : wire[e] # <<>> => "recv" \in receivers
BY DEF Ordered, EndOrdered, RegistersFirst, Joined

(* What is published becomes the newest for a socket that has subscribed.  *)
LEMMA PublishedIsNewest ==
  ASSUME TypeOK, NEW m \in Message, Published(m), NEW e \in Ends, link[e] = "subscribed"
  PROVE  Newest(e)' = m /\ wire'[e] # <<>>
<1>1. /\ wire'[e] = Append(wire[e], m) /\ wire'[e] # <<>>
      /\ Len(wire'[e]) = Len(wire[e]) + 1 /\ wire'[e][Len(wire[e]) + 1] = m
  BY AppendMessage DEF TypeOK, Published
<1> QED
  BY <1>1 DEF Newest

(* Taking a message leaves what is on its way: it is behind it, held by a  *)
(* filter, the value the filters compare with, or equal to that.           *)
LEMMA ReceivedIsLatest ==
  ASSUME TypeOK, Receive, receivers # {}
  PROVE  Latest' = Latest
<1> DEFINE w == wire["used"]  x == wire'["used"]
<1>1. PICK m \in Message :
        /\ m = Head(w) /\ m = w[1] /\ x = Tail(w) /\ Len(w) \in Nat \ {0}
        /\ Tail(w) \in Seq(Message) /\ Len(x) = Len(w) - 1
        /\ \A i \in 1..Len(x) : x[i] = w[i + 1]
  BY TakeMessage DEF Receive, TypeOK, Ends
<1>2. Latest = w[Len(w)].val
  BY DEF Receive, Latest, Newest
<1>3. CASE Len(w) = 1
  <2>1. x = <<>>
    <3>1. Len(x) = 0 /\ x \in Seq(Message)
      BY <1>1, <1>3
    <3> QED
      BY <3>1
  <2>2. Latest = m.val
    BY <1>1, <1>2, <1>3
  <2>3. Latest' = IF task' = "filtering" THEN item'.val ELSE last'
    BY <2>1 DEF Latest
  <2>4. \/ task' = task /\ last' = m.val /\ task = "idle"
        \/ task' = "filtering" /\ item' = m
        \/ task' = "idle" /\ last' = m.val
    BY <1>1 DEF Receive, Deliver
  <2> QED
    BY <2>2, <2>3, <2>4
<1>4. CASE Len(w) # 1
  <2>1. Len(x) \in 1..Len(x) /\ Len(x) + 1 = Len(w)
    <3> HIDE DEF w, x
    <3> QED
      BY <1>1, <1>4
  <2>2. x[Len(x)] = w[Len(w)]
    BY <2>1, <1>1
  <2>3. x # <<>>
    BY <2>1
  <2> QED
    BY <2>2, <2>3, <1>2 DEF Latest, Newest
<1> QED
  BY <1>3, <1>4

(* Publishing the current value, or one a change of which is waiting.      *)
LEMMA PublishedIsRepeated ==
  ASSUME TypeOK, Repeated, NEW m \in Message, Published(m), UNCHANGED <<current, accepts, link>>,
         greeting' = Nothing, fresh' \/ m = current,
         accepts > 0 \/ \A e \in Ends : link[e] # "accepted"
  PROVE  Repeated'
<1>1. link["used"] = "subscribed" => Latest' = m.val
  BY PublishedIsNewest DEF Latest, Ends
<1>2. link["coming"] = "subscribed" => wire'["coming"] # <<>> /\ Newest("coming")' = m
  BY PublishedIsNewest DEF Ends
<1> QED
  BY <1>1, <1>2 DEF Repeated, Owing

(* What the monitor owes a slot.                                           *)
LEMMA RepeatedStep ==
  ASSUME Prompt, TypeOK, FreshHasValue, Ordered, RegistersFirst, Watched, Repeated, [Next]_vars
  PROVE  Repeated'
<1> USE DEF Repeated, Owing
<1>1. ASSUME NEW v \in Values, Send(v) PROVE Repeated'
  BY <1>1 DEF Send, slot, conn
<1>2. CASE Accepted
  <2>1. /\ greeting' = current /\ UNCHANGED <<current, link, fresh, wire, task, item, last>>
        /\ Joined => current # Nothing
    BY <1>2 DEF Accepted, RegistersFirst, conn, slot
  <2>2. \A e \in Ends : link[e] \in {"accepted", "subscribed"} => greeting' # Nothing
    BY <2>1 DEF Joined
  <2> QED
    BY <2>1, <2>2 DEF Ends
<1>3. CASE Greet
  <2>1. greeting \in Message /\ greeting' = Nothing /\ UNCHANGED <<current, fresh, accepts, link>>
        /\ Published(greeting) /\ (fresh \/ greeting = current)
        /\ (accepts > 0 \/ \A e \in Ends : link[e] # "accepted")
    BY <1>3 DEF Greet, TypeOK
  <2> QED
    BY <2>1, PublishedIsRepeated
<1>4. CASE Publish
  <2>1. current \in Message /\ greeting' = Nothing /\ UNCHANGED <<current, accepts, link>>
        /\ Published(current)
    BY <1>4 DEF Publish, TypeOK, FreshHasValue
  <2>2. accepts > 0 \/ \A e \in Ends : link[e] # "accepted"
    BY <1>4 DEF Publish
  <2> QED
    BY <2>1, <2>2, PublishedIsRepeated
<1>5. CASE Connect \/ OtherConnects
  <2>1. UNCHANGED <<current, fresh, greeting, wire, task, item, last>> /\ accepts' > 0
    BY <1>5 DEF Connect, OtherConnects, conn, slot, TypeOK
  <2> QED
    BY <2>1
<1>6. ASSUME NEW e \in Ends, Subscribe(e) PROVE Repeated'
  <2>1. /\ UNCHANGED <<current, fresh, greeting, accepts, wire, task, item, last>>
        /\ accepts > 0 \/ greeting # Nothing
        /\ \A d \in Ends : d # e => link'[d] = link[d]
    BY <1>6 DEF Subscribe, signal, slot, TypeOK
  <2>2. link'[e] = "subscribed"
    BY <1>6 DEF Subscribe, TypeOK
  <2> QED
    BY <2>1, <2>2
<1>7. ASSUME NEW e \in Ends, Disconnect(e) PROVE Repeated'
  <2>1. /\ UNCHANGED <<current, fresh, greeting, accepts, task, item, last>>
        /\ \A d \in Ends : d # e => link'[d] = link[d] /\ wire'[d] = wire[d]
        /\ link'[e] = "closed"
    BY <1>7 DEF Disconnect, signal, slot, TypeOK
  <2> QED
    BY <2>1 DEF Latest, Newest, Ends
<1>8. CASE SocketDropped
  <2>1. UNCHANGED <<current, fresh, greeting>> /\ \A d \in Ends : link'[d] = "none"
    BY <1>8 DEF SocketDropped, signal
  <2> QED
    BY <2>1 DEF Ends
<1>9. CASE TakeSocket
  <2>1. /\ UNCHANGED <<current, fresh, greeting, accepts, task, item, last>>
        /\ link'["used"] = link["coming"] /\ wire'["used"] = wire["coming"]
        /\ link'["coming"] = "none"
    BY <1>9 DEF TakeSocket, signal, slot, TypeOK, Ends
  <2>2. wire["coming"] # <<>> => Latest' = Newest("coming").val
    BY <2>1 DEF Latest, Newest
  <2> QED
    BY <2>1, <2>2 DEF Ends
<1>10. CASE Receive
  <2>1. receivers # {} /\ UNCHANGED <<current, fresh, accepts, greeting, link>>
        /\ wire'["coming"] = wire["coming"]
    BY <1>10, WiresWatched DEF Receive, signal, TypeOK, Ends
  <2>2. Latest' = Latest
    BY <2>1, <1>10, ReceivedIsLatest
  <2> QED
    BY <2>1, <2>2 DEF Newest
<1>11. CASE TimerEnds
  <2>1. receivers # {} /\ UNCHANGED <<current, fresh, accepts, greeting, link, wire>>
    BY <1>11 DEF TimerEnds, Watched, signal
  <2>2. Latest' = Latest
    BY <2>1, <1>11 DEF TimerEnds, Deliver, Latest, Newest
  <2> QED
    BY <2>1, <2>2 DEF Newest
<1>12. CASE UNCHANGED <<signal, conn, task, item, last>>
  BY <1>12 DEF signal, conn, Latest, Newest
<1>13. ASSUME NEW v \in Values, Override(v) PROVE UNCHANGED <<signal, conn, task, item, last>>
  BY <1>13 DEF Override
<1>14. Recv \/ Callback \/ AsyncRecv \/ AsyncRecvReturns \/ Expose \/ UNCHANGED vars
         => UNCHANGED <<signal, conn, task, item, last>>
  BY DEF Recv, Callback, AsyncRecv, AsyncRecvReturns, Expose, vars, slot
<1> HIDE DEF Repeated
<1> QED
  BY <1>1, <1>2, <1>3, <1>4, <1>5, <1>6, <1>7, <1>8, <1>9, <1>10, <1>11, <1>12, <1>13, <1>14
     DEF Next, Monitor

(* A value that is held back is for a program that is still there.         *)
LEMMA WatchedStep ==
  ASSUME TypeOK, Ordered, RegistersFirst, Watched, [Next]_vars
  PROVE  Watched'
<1> USE DEF Watched
<1>1. CASE Receive
  <2>1. "recv" \in receivers /\ receivers' = receivers
    BY <1>1, WiresWatched DEF Receive, Ends
  <2> QED
    BY <2>1
<1>2. CASE TimerEnds
  BY <1>2 DEF TimerEnds, Deliver
<1>3. CASE UNCHANGED task /\ ("recv" \in receivers => "recv" \in receivers')
  BY <1>3
<1> QED
  BY <1>1, <1>2, <1>3
     DEF Next, Monitor, Send, Accepted, Greet, Publish, Connect, Subscribe, Disconnect,
         OtherConnects, TakeSocket, SocketDropped, Recv, Callback, AsyncRecv, AsyncRecvReturns,
         Expose, Override, vars, slot, reader

(* The safety core of ConvergesOnceSent: a slot that is connected shows the*)
(* program the value of the signal, or what the program has overridden it  *)
(* with since, as soon as nobody has anything left to do, whatever was     *)
(* sent, conflated, dropped for being equal, held back by a filter or lost *)
(* with an earlier socket.  Prompt: it subscribes before the monitor       *)
(* repeats the last value.                                                 *)
THEOREM SettledShowsCurrent ==
  ASSUME Prompt, "recv" \in Consumers
  PROVE  Safety /\ []RegistersFirst =>
           [](link["used"] = "subscribed" /\ Settled =>
                last = current.val /\ (overridden \/ value.val = current.val))
<1>1. Init => Watched /\ Repeated
  BY DEF Init, Watched, Repeated, Nothing, Ends
<1>2. Safety => []Ordered
  BY OrderedInit, OrderedStep, TypeCorrect, FreshValue, PTL DEF Safety
<1>3. Safety /\ []RegistersFirst => [](Watched /\ Repeated)
  BY <1>1, <1>2, WatchedStep, RepeatedStep, TypeCorrect, FreshValue, PTL DEF Safety
<1>4. TypeOK /\ FilterRemembersShown /\ Repeated =>
        (link["used"] = "subscribed" /\ Settled =>
           last = current.val /\ (overridden \/ value.val = current.val))
  BY DEF TypeOK, FilterRemembersShown, Repeated, Settled, Latest, Owing
<1> QED
  BY <1>3, <1>4, TypeCorrect, ShownIsRemembered, PTL
=============================================================================

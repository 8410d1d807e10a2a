---------------------------- MODULE WiringProofs ----------------------------
(***************************************************************************)
(* A slot receives only from signals of its own type.  The ruler checks    *)
(* the types once, in connect; from there a name travels through the       *)
(* table, a pending emission, the stream of the slot, the connection or    *)
(* the reconnect task and the channel of sockets.  The inductive invariant *)
(* says of each of these places that the type has been checked.            *)
(***************************************************************************)
EXTENDS Wiring, SequenceTheorems, TLAPS

Names(s)    == Fit(s) \union {NoSignal}
FitSocks(s) == [to : Fit(s), open : BOOLEAN]

(* Nothing but checked names leaves the ruler.                             *)
RulerFits ==
  /\ ConnectionsExist
  /\ \A c \in Callers : call[c] # NoCall => call[c].signal \in Names(call[c].slot)
  /\ \A s \in Slots : stream[s] \in Seq(Names(s))

(* Nothing but checked names is in a slot.                                 *)
SlotFits ==
  \A s \in Slots :
    /\ target[s] \in Names(s) /\ lost[s] \in Names(s) /\ retry[s] \in Names(s)
    /\ socks[s] \in Seq(FitSocks(s))
    /\ sock[s] \in FitSocks(s) \union {NoSocket}

IInv == TypeOK /\ RulerFits /\ SlotFits

-----------------------------------------------------------------------------
(* Sequences.                                                              *)

(* Appending keeps a sequence one of its set.                              *)
LEMMA AppendInSeq ==
  ASSUME NEW S, NEW q \in Seq(S), NEW e \in S
  PROVE  Append(q, e) \in Seq(S)
OBVIOUS

(* So does taking the head, which is of the set.                           *)
LEMMA HeadAndTail ==
  ASSUME NEW S, NEW q \in Seq(S), q # <<>>
  PROVE  Head(q) \in S /\ Tail(q) \in Seq(S)
BY HeadTailProperties

(* The empty sequence is one of every set.                                 *)
LEMMA EmptyInSeq == ASSUME NEW S PROVE <<>> \in Seq(S)
OBVIOUS

(* Closing sockets keeps where they lead.                                  *)
LEMMA WithoutOne ==
  ASSUME NEW A, NEW n, NEW k \in [to : A, open : BOOLEAN]
  PROVE  Without(n, k) \in [to : A, open : BOOLEAN]
BY DEF Without

(* The same for the sockets on their way to the receive task.              *)
LEMMA WithoutSocks ==
  ASSUME NEW A, NEW n, NEW q \in Seq([to : A, open : BOOLEAN])
  PROVE  [i \in DOMAIN q |-> Without(n, q[i])] \in Seq([to : A, open : BOOLEAN])
<1> DEFINE S == [to : A, open : BOOLEAN]
<1>1. Len(q) \in Nat /\ DOMAIN q = 1..Len(q)
  BY LenProperties
<1>2. \A i \in 1..Len(q) : q[i] \in S
  BY ElementOfSeq
<1>3. \A i \in 1..Len(q) : Without(n, q[i]) \in S
  BY <1>2, WithoutOne
<1> HIDE DEF S
<1>4. [i \in 1..Len(q) |-> Without(n, q[i])] \in Seq(S)
  BY <1>1, <1>3, IsASeq
<1> QED
  BY <1>1, <1>4 DEF S

(* The same for the socket of the receive task.                            *)
LEMMA WithoutSock ==
  ASSUME NEW A, NEW n \in Signals, NEW k \in [to : A, open : BOOLEAN] \union {NoSocket}
  PROVE  Without(n, k) \in [to : A, open : BOOLEAN] \union {NoSocket}
<1>1. CASE k = NoSocket
  BY <1>1, NamesAssumption DEF Without, NoSocket
<1>2. CASE k \in [to : A, open : BOOLEAN]
  BY <1>2, WithoutOne
<1> QED
  BY <1>1, <1>2

(* A new socket is one.                                                    *)
LEMMA SocketType == ASSUME NEW A, NEW n \in A PROVE Socket(n) \in [to : A, open : BOOLEAN]
BY DEF Socket

-----------------------------------------------------------------------------
(* Types.                                                                  *)

(* The types hold at the start.                                            *)
LEMMA TypeInit == Init => TypeOK
BY EmptyInSeq DEF Init, RulerInit, TypeOK, RulerTypeOK, Sockets, NoSocket

(* What the ruler answers to a registration is a signal or the empty name. *)
LEMMA StoredType == ASSUME RulerTypeOK, NEW s \in Slots PROVE Stored(s) \in Signals \union {NoSignal}
BY DEF RulerTypeOK, Stored

(* One step per action.                                                    *)
LEMMA TypeStep == TypeOK /\ [Next]_vars => TypeOK'
<1> SUFFICES ASSUME TypeOK, [Next]_vars PROVE TypeOK'
  OBVIOUS
<1> USE DEF TypeOK, RulerTypeOK
<1>1. ASSUME NEW n \in Signals, SignalStart(n) PROVE TypeOK'
  BY <1>1 DEF SignalStart, rulerVars, tables, history, slotVars
<1>2. ASSUME NEW n \in Signals, SignalRegister(n) PROVE TypeOK'
  BY <1>2 DEF SignalRegister, RegisterSignal, slotVars, history
<1>3. ASSUME NEW n \in Signals, SignalStop(n) PROVE TypeOK'
  <2>1. socks' \in [Slots -> Seq(Sockets)]
    <3>1. ASSUME NEW s \in Slots
          PROVE  [i \in DOMAIN socks[s] |-> Without(n, socks[s][i])] \in Seq(Sockets)
      <4>1. socks[s] \in Seq([to : Signals, open : BOOLEAN])
        BY DEF Sockets
      <4>2. [i \in DOMAIN socks[s] |-> Without(n, socks[s][i])]
              \in Seq([to : Signals, open : BOOLEAN])
        BY ONLY <4>1, WithoutSocks
      <4> QED
        BY <4>2 DEF Sockets
    <3> QED
      BY <1>3, <3>1 DEF SignalStop
  <2>2. sock' \in [Slots -> Sockets \union {NoSocket}]
    BY <1>3, WithoutSock DEF SignalStop, Sockets
  <2> QED
    BY <1>3, <2>1, <2>2 DEF SignalStop, rulerVars, tables, history
<1>4. ASSUME NEW s \in Slots, SlotStart(s) PROVE TypeOK'
  BY <1>4 DEF SlotStart, tables, history, slotVars
<1>5. ASSUME NEW s \in Slots, SlotStop(s) PROVE TypeOK'
  BY <1>5, EmptyInSeq DEF SlotStop, tables, history
<1>6. ASSUME NEW s \in Slots, SlotRegister(s) PROVE TypeOK'
  BY <1>6, StoredType DEF SlotRegister, RegisterSlot, Released, Change, Callers, slotVars
<1>7. ASSUME NEW o \in Operators, NEW s \in Slots, NEW n \in Signals \union {NoSignal},
             OperatorConnect(o, s, n)
      PROVE  TypeOK'
  BY <1>7 DEF OperatorConnect, Connect, Released, Change, Callers, slotVars
<1>8. ASSUME NEW c \in Callers, Announce(c) PROVE TypeOK'
  <2>1. call[c] \in Change
    BY <1>8 DEF Announce, Emit
  <2>2. stream' \in [Slots -> Seq(Signals \union {NoSignal})]
    BY <1>8, <2>1, AppendInSeq DEF Announce, Emit, Change
  <2>3. enrolled' \subseteq Slots
    BY <1>8 DEF Announce
  <2> QED
    BY <1>8, <2>1, <2>2, <2>3 DEF Announce, Emit, Change, tables, history
<1>9. CASE RulerStops
  BY <1>9 DEF RulerStops, RulerStop, tables, history, slotVars
<1>10. CASE RulerStarts
  BY <1>10 DEF RulerStarts, RulerStart, tables, history, slotVars
<1>11. ASSUME NEW s \in Slots, TakeChange(s) PROVE TypeOK'
  BY <1>11, HeadAndTail DEF TakeChange, tables, history
<1>12. ASSUME NEW s \in Slots, ConnectTarget(s) PROVE TypeOK'
  <2>1. target[s] \in Signals /\ Socket(target[s]) \in Sockets
    BY <1>12, SocketType DEF ConnectTarget, Connected, Sockets
  <2>2. socks' \in [Slots -> Seq(Sockets)]
    BY <1>12, <2>1, AppendInSeq DEF ConnectTarget, Connected
  <2> QED
    BY <1>12, <2>2 DEF ConnectTarget, rulerVars, tables, history
<1>13. ASSUME NEW s \in Slots, TakeSocket(s) PROVE TypeOK'
  BY <1>13, HeadAndTail DEF TakeSocket, rulerVars, tables, history
<1>14. ASSUME NEW s \in Slots, Lose(s) PROVE TypeOK'
  BY <1>14 DEF Lose, rulerVars, tables, history, Sockets, NoSocket
<1>15. ASSUME NEW s \in Slots, TakeLost(s) PROVE TypeOK'
  BY <1>15 DEF TakeLost, rulerVars, tables, history
<1>16. ASSUME NEW s \in Slots, Reconnect(s) PROVE TypeOK'
  <2>1. retry[s] \in Signals /\ Socket(retry[s]) \in Sockets
    BY <1>16, SocketType DEF Reconnect, Connected, Sockets
  <2>2. socks' \in [Slots -> Seq(Sockets)]
    BY <1>16, <2>1, AppendInSeq DEF Reconnect, Connected
  <2> QED
    BY <1>16, <2>2 DEF Reconnect, rulerVars, tables, history
<1>17. CASE UNCHANGED vars
  BY <1>17 DEF vars, rulerVars, tables, history, slotVars
<1> QED
  BY <1>1, <1>2, <1>3, <1>4, <1>5, <1>6, <1>7, <1>8, <1>9, <1>10, <1>11, <1>12,
     <1>13, <1>14, <1>15, <1>16, <1>17 DEF Next, SlotTask

(* Every variable of the ruler and of the slots keeps its type.            *)
THEOREM TypeCorrect == Safety => []TypeOK
BY TypeInit, TypeStep, PTL DEF Safety

-----------------------------------------------------------------------------
(* The types have been checked.                                            *)

(* The invariant holds at the start.                                       *)
LEMMA InvInit == Init => IInv
<1> SUFFICES ASSUME Init PROVE IInv
  OBVIOUS
<1>1. TypeOK
  BY TypeInit
<1>2. RulerFits
  BY NamesAssumption, EmptyInSeq DEF Init, RulerInit, RulerFits, ConnectionsExist
<1>3. SlotFits
  BY EmptyInSeq DEF Init, SlotFits, Names
<1> QED
  BY <1>1, <1>2, <1>3 DEF IInv

(* What the ruler answers to a registration has been checked.              *)
LEMMA StoredFits ==
  ASSUME IInv, NEW s \in Slots
  PROVE  Stored(s) \in Names(s)
BY DEF IInv, TypeOK, RulerTypeOK, RulerFits, ConnectionsExist, Stored, Names, Fit

(* One step per action of the ruler, and what is left of a stopped slot.   *)
LEMMA RulerStep == IInv /\ [Next]_vars => RulerFits'
<1> SUFFICES ASSUME IInv, [Next]_vars PROVE RulerFits'
  OBVIOUS
<1> USE DEF IInv, TypeOK, RulerTypeOK, RulerFits
<1>1. CASE rulerVars' = rulerVars
  BY <1>1 DEF rulerVars, tables, history, ConnectionsExist
<1>2. ASSUME NEW n \in Signals, SignalRegister(n) PROVE RulerFits'
  BY <1>2 DEF SignalRegister, RegisterSignal, ConnectionsExist
<1>3. ASSUME NEW s \in Slots, SlotStart(s) PROVE RulerFits'
  BY <1>3 DEF SlotStart, tables, history, ConnectionsExist
<1>4. ASSUME NEW s \in Slots, SlotStop(s) PROVE RulerFits'
  BY <1>4, EmptyInSeq DEF SlotStop, tables, history, ConnectionsExist
<1>5. ASSUME NEW s \in Slots, SlotRegister(s) PROVE RulerFits'
  <2>1. Stored(s) \in Names(s)
    BY StoredFits
  <2>2. ConnectionsExist'
    BY <1>5, NamesAssumption DEF SlotRegister, RegisterSlot, Released, ConnectionsExist, Stored
  <2>3. \A c \in Callers : call'[c] # NoCall => call'[c].signal \in Names(call'[c].slot)
    BY <1>5, <2>1 DEF SlotRegister, RegisterSlot, Released
  <2> QED
    BY <1>5, <2>2, <2>3 DEF SlotRegister, RegisterSlot, Released
<1>6. ASSUME NEW o \in Operators, NEW s \in Slots, NEW n \in Signals \union {NoSignal},
             OperatorConnect(o, s, n)
      PROVE  RulerFits'
  <2>1. n \in Names(s) /\ (n # NoSignal => n \in registered /\ TypeOf[n] = TypeOf[s])
    BY <1>6 DEF OperatorConnect, Connect, Released, Connectable, Names, Fit
  <2>2. ConnectionsExist'
    BY <1>6, <2>1, NamesAssumption DEF OperatorConnect, Connect, Released, ConnectionsExist
  <2>3. \A c \in Callers : call'[c] # NoCall => call'[c].signal \in Names(call'[c].slot)
    BY <1>6, <2>1 DEF OperatorConnect, Connect, Released
  <2> QED
    BY <1>6, <2>2, <2>3 DEF OperatorConnect, Connect, Released
<1>7. ASSUME NEW c \in Callers, Announce(c) PROVE RulerFits'
  <2> DEFINE s == call[c].slot  n == call[c].signal
  <2>1. s \in Slots /\ n \in Names(s)
    BY <1>7 DEF Announce, Emit, Change
  <2>2. Append(stream[s], n) \in Seq(Names(s))
    BY <2>1, AppendInSeq
  <2>3. \A t \in Slots : stream'[t] \in Seq(Names(t))
    BY <1>7, <2>1, <2>2 DEF Announce, Emit
  <2> QED
    BY <1>7, <2>3 DEF Announce, Emit, tables, history, ConnectionsExist
<1>8. CASE RulerStops
  BY <1>8 DEF RulerStops, RulerStop, tables, history, ConnectionsExist
<1>9. CASE RulerStarts
  BY <1>9 DEF RulerStarts, RulerStart, tables, history, ConnectionsExist
<1>10. ASSUME NEW s \in Slots, TakeChange(s) PROVE RulerFits'
  <2>1. Tail(stream[s]) \in Seq(Names(s))
    BY <1>10, HeadAndTail DEF TakeChange
  <2> QED
    BY <1>10, <2>1 DEF TakeChange, tables, history, ConnectionsExist
<1>11. ASSUME NEW s \in Slots, ConnectTarget(s) \/ TakeSocket(s) \/ Lose(s) \/ TakeLost(s) \/ Reconnect(s)
       PROVE  RulerFits'
  BY <1>1, <1>11 DEF ConnectTarget, TakeSocket, Lose, TakeLost, Reconnect
<1>12. ASSUME NEW n \in Signals, SignalStart(n) \/ SignalStop(n) PROVE RulerFits'
  BY <1>1, <1>12 DEF SignalStart, SignalStop
<1>13. CASE UNCHANGED vars
  BY <1>1, <1>13 DEF vars
<1> QED
  BY <1>2, <1>3, <1>4, <1>5, <1>6, <1>7, <1>8, <1>9, <1>10, <1>11, <1>12, <1>13
     DEF Next, SlotTask

(* One step per action of a slot.                                          *)
LEMMA SlotStep == IInv /\ [Next]_vars => SlotFits'
<1> SUFFICES ASSUME IInv, [Next]_vars PROVE SlotFits'
  OBVIOUS
<1> USE DEF IInv, TypeOK, SlotFits
<1>1. CASE UNCHANGED <<target, lost, retry, socks, sock>>
  BY <1>1
<1>2. ASSUME NEW n \in Signals, SignalStop(n) PROVE SlotFits'
  <2>1. ASSUME NEW s \in Slots
        PROVE  socks'[s] \in Seq(FitSocks(s)) /\ sock'[s] \in FitSocks(s) \union {NoSocket}
    <3>1. [i \in DOMAIN socks[s] |-> Without(n, socks[s][i])] \in Seq(FitSocks(s))
      <4>1. socks[s] \in Seq([to : Fit(s), open : BOOLEAN])
        BY DEF FitSocks
      <4>2. [i \in DOMAIN socks[s] |-> Without(n, socks[s][i])]
              \in Seq([to : Fit(s), open : BOOLEAN])
        BY ONLY <4>1, WithoutSocks
      <4> QED
        BY <4>2 DEF FitSocks
    <3>2. Without(n, sock[s]) \in FitSocks(s) \union {NoSocket}
      BY WithoutSock DEF FitSocks
    <3> QED
      BY <1>2, <3>1, <3>2 DEF SignalStop
  <2> QED
    BY <1>2, <2>1 DEF SignalStop
<1>3. ASSUME NEW s \in Slots, SlotStop(s) PROVE SlotFits'
  BY <1>3, EmptyInSeq DEF SlotStop, Names
<1>4. ASSUME NEW s \in Slots, TakeChange(s) PROVE SlotFits'
  <2>1. Head(stream[s]) \in Names(s)
    BY <1>4, HeadAndTail DEF TakeChange, RulerFits
  <2> QED
    BY <1>4, <2>1 DEF TakeChange
<1>5. ASSUME NEW s \in Slots, NEW n \in Names(s), Connected(s, n)
      PROVE  \A t \in Slots : socks'[t] \in Seq(FitSocks(t))
  <2>1. n \in Fit(s)
    BY <1>5, NamesAssumption DEF Connected, Names
  <2>2. Append(socks[s], Socket(n)) \in Seq(FitSocks(s))
    BY <2>1, SocketType, AppendInSeq DEF FitSocks
  <2> QED
    BY <1>5, <2>2 DEF Connected
<1>6. ASSUME NEW s \in Slots, ConnectTarget(s) PROVE SlotFits'
  BY <1>5, <1>6 DEF ConnectTarget, Names
<1>7. ASSUME NEW s \in Slots, TakeSocket(s) PROVE SlotFits'
  <2>1. Head(socks[s]) \in FitSocks(s) /\ Tail(socks[s]) \in Seq(FitSocks(s))
    BY <1>7, HeadAndTail DEF TakeSocket
  <2> QED
    BY <1>7, <2>1 DEF TakeSocket
<1>8. ASSUME NEW s \in Slots, Lose(s) PROVE SlotFits'
  BY <1>8 DEF Lose, FitSocks, Names
<1>9. ASSUME NEW s \in Slots, TakeLost(s) PROVE SlotFits'
  BY <1>9 DEF TakeLost, Names
<1>10. ASSUME NEW s \in Slots, Reconnect(s) PROVE SlotFits'
  BY <1>5, <1>10 DEF Reconnect, Names
<1>11. ASSUME NEW n \in Signals, SignalStart(n) \/ SignalRegister(n) PROVE SlotFits'
  BY <1>1, <1>11 DEF SignalStart, SignalRegister, slotVars
<1>12. ASSUME NEW s \in Slots, SlotStart(s) \/ SlotRegister(s) PROVE SlotFits'
  BY <1>1, <1>12 DEF SlotStart, SlotRegister, slotVars
<1>13. ASSUME NEW o \in Operators, NEW s \in Slots, NEW n \in Signals \union {NoSignal},
              OperatorConnect(o, s, n)
       PROVE  SlotFits'
  BY <1>1, <1>13 DEF OperatorConnect, slotVars
<1>14. ASSUME NEW c \in Callers, Announce(c) PROVE SlotFits'
  BY <1>1, <1>14 DEF Announce
<1>15. CASE RulerStops \/ RulerStarts
  BY <1>1, <1>15 DEF RulerStops, RulerStarts, slotVars
<1>16. CASE UNCHANGED vars
  BY <1>1, <1>16 DEF vars, slotVars
<1> QED
  BY <1>2, <1>3, <1>4, <1>6, <1>7, <1>8, <1>9, <1>10, <1>11, <1>12, <1>13, <1>14, <1>15, <1>16
     DEF Next, SlotTask

(* The types have been checked wherever they are relied on.                *)
LEMMA Invariant == Safety => []IInv
<1>1. IInv /\ [Next]_vars => IInv'
  BY TypeStep, RulerStep, SlotStep DEF IInv
<1> QED
  BY <1>1, InvInit, PTL DEF Safety

(* The ruler never stores a connection to a signal it does not know or of  *)
(* another type, for all names, types, callers and restarts.               *)
THEOREM ConnectionsChecked == Safety => []ConnectionsExist
<1>1. IInv => ConnectionsExist
  BY DEF IInv, RulerFits
<1> QED
  BY <1>1, Invariant, PTL

(* No slot ever receives from a signal of another type, whatever is lost,  *)
(* repeated or overtaken between the ruler and its receive task.           *)
THEOREM SlotsReceiveOwnType == Safety => []ReceivesOwnType
<1>1. IInv => ReceivesOwnType
  BY DEF IInv, SlotFits, FitSocks, ReceivesOwnType
<1> QED
  BY <1>1, Invariant, PTL

-----------------------------------------------------------------------------
(* What a slot is told.                                                    *)

(* The method of caller c has a change to emit for slot s.                 *)
For(c, s) == call[c] # NoCall /\ call[c].slot = s

(* At most one method is under way for the slot, it emits what is stored,  *)
(* and without one what is stored was emitted.                             *)
Agrees(s) ==
  /\ \A c, d \in Callers : For(c, s) /\ For(d, s) => c = d
  /\ \A c \in Callers : For(c, s) => call[c].signal = wired[s]
  /\ ~Busy(s) => wired[s] \in {Unregistered, told[s]}

(* Methods for other slots may be anywhere between their lock and their    *)
(* emission.                                                               *)
AloneAgrees == \A s \in Slots : s \notin raced => Agrees(s)

(* A method leaves the lock: no other one is busy with its slot, or they   *)
(* raced, and the other slots have the calls they had.                     *)
LEMMA MethodBegins ==
  ASSUME TypeOK, AloneAgrees,
         NEW o \in Callers, NEW s \in Slots, NEW n \in Signals \union {NoSignal},
         Free(o, s), Released(o, s, n), wired' = [wired EXCEPT ![s] = n]
  PROVE  AloneAgrees'
<1>1. /\ \A c \in Callers : call'[c] = IF c = o THEN [slot |-> s, signal |-> n] ELSE call[c]
      /\ wired'[s] = n /\ \A t \in Slots : t # s => wired'[t] = wired[t]
      /\ told' = told /\ call[o] = NoCall
      /\ raced' = IF Busy(s) THEN raced \union {s} ELSE raced \ {s}
  BY DEF Released, Free, TypeOK, RulerTypeOK
<1>2. [slot |-> s, signal |-> n] # NoCall
  BY NoCallAssumption
<1>3. CASE Busy(s)
  <2>1. ASSUME NEW t \in Slots, t \notin raced' PROVE Agrees(t)'
    <3>1. t # s /\ Agrees(t)
      BY <1>1, <1>3, <2>1 DEF AloneAgrees
    <3>2. \A c \in Callers : For(c, t)' <=> For(c, t)
      BY <1>1, <1>2, <3>1 DEF For
    <3>3. Busy(t)' <=> Busy(t)
      BY <3>2 DEF Busy, For
    <3> QED
      BY <1>1, <3>1, <3>2, <3>3 DEF Agrees, For
  <2> QED
    BY <2>1 DEF AloneAgrees
<1>4. CASE ~Busy(s)
  <2>1. ASSUME NEW t \in Slots, t \notin raced', t # s PROVE Agrees(t)'
    <3>1. Agrees(t)
      BY <1>1, <1>4, <2>1 DEF AloneAgrees
    <3>2. \A c \in Callers : For(c, t)' <=> For(c, t)
      BY <1>1, <1>2, <2>1 DEF For
    <3>3. Busy(t)' <=> Busy(t)
      BY <3>2 DEF Busy, For
    <3> QED
      BY <1>1, <2>1, <3>1, <3>2, <3>3 DEF Agrees, For
  <2>2. Agrees(s)'
    <3>1. \A c \in Callers : For(c, s)' <=> c = o
      BY <1>1, <1>2, <1>4 DEF For, Busy
    <3>2. Busy(s)' /\ call'[o].signal = wired'[s]
      BY <1>1, <1>2 DEF Busy
    <3> QED
      BY <3>1, <3>2 DEF Agrees
  <2> QED
    BY <2>1, <2>2 DEF AloneAgrees
<1> QED
  BY <1>3, <1>4

(* An emission ends the only method of its slot, or the slot is raced for. *)
LEMMA MethodEnds ==
  ASSUME TypeOK, AloneAgrees, NEW c \in Callers, Emit(c)
  PROVE  AloneAgrees'
<1>1. /\ call[c] # NoCall /\ call[c].slot \in Slots /\ call[c] \in Change
      /\ \A d \in Callers : call'[d] = IF d = c THEN NoCall ELSE call[d]
      /\ told' = [told EXCEPT ![call[c].slot] = call[c].signal]
      /\ wired' = wired /\ raced' = raced
  BY DEF Emit, TypeOK, RulerTypeOK, Change, tables
<1>2. ASSUME NEW t \in Slots, t \notin raced, t = call[c].slot PROVE Agrees(t)'
  <2>1. Agrees(t) /\ For(c, t)
    BY <1>1, <1>2 DEF AloneAgrees, For
  <2>2. \A d \in Callers : ~For(d, t)'
    BY <1>1, <2>1 DEF Agrees, For
  <2>3. told'[t] = wired'[t]
    BY <1>1, <1>2, <2>1 DEF Agrees, TypeOK, RulerTypeOK
  <2> QED
    BY <2>2, <2>3 DEF Agrees
<1>3. ASSUME NEW t \in Slots, t \notin raced, t # call[c].slot PROVE Agrees(t)'
  <2>1. Agrees(t) /\ told'[t] = told[t]
    BY <1>1, <1>3 DEF AloneAgrees, TypeOK, RulerTypeOK
  <2>2. \A d \in Callers : For(d, t)' <=> For(d, t)
    BY <1>1, <1>3 DEF For
  <2>3. Busy(t)' <=> Busy(t)
    BY <2>2 DEF Busy, For
  <2> QED
    BY <1>1, <2>1, <2>2, <2>3 DEF Agrees, For
<1> QED
  BY <1>1, <1>2, <1>3 DEF AloneAgrees

(* One step per action of the ruler.                                       *)
LEMMA MethodStep == TypeOK /\ AloneAgrees /\ [Next]_vars => AloneAgrees'
<1> SUFFICES ASSUME TypeOK, AloneAgrees, [Next]_vars PROVE AloneAgrees'
  OBVIOUS
<1>1. CASE UNCHANGED <<wired, call, told, raced>>
  BY <1>1 DEF AloneAgrees, Agrees, For, Busy
<1>2. ASSUME NEW s \in Slots, SlotRegister(s) PROVE AloneAgrees'
  <2>1. Stored(s) \in Signals \union {NoSignal} /\ s \in Callers
    BY StoredType DEF TypeOK, Callers
  <2> QED
    BY <1>2, <2>1, MethodBegins DEF SlotRegister, RegisterSlot
<1>3. ASSUME NEW o \in Operators, NEW s \in Slots, NEW n \in Signals \union {NoSignal},
             OperatorConnect(o, s, n)
      PROVE  AloneAgrees'
  BY <1>3, MethodBegins DEF OperatorConnect, Connect, Callers
<1>4. ASSUME NEW c \in Callers, Announce(c) PROVE AloneAgrees'
  BY <1>4, MethodEnds DEF Announce
<1>5. CASE RulerStops
  <2>1. /\ \A c \in Callers : call'[c] = NoCall
        /\ wired' = wired /\ told' = told
        /\ \A s \in Slots : s \notin raced' => s \notin raced /\ ~Busy(s)
    BY <1>5 DEF RulerStops, RulerStop, tables
  <2> QED
    BY <2>1 DEF AloneAgrees, Agrees, For, Busy
<1>6. ASSUME NEW n \in Signals, SignalStart(n) \/ SignalRegister(n) \/ SignalStop(n)
      PROVE  UNCHANGED <<wired, call, told, raced>>
  BY <1>6 DEF SignalStart, SignalRegister, RegisterSignal, SignalStop, rulerVars, tables, history
<1>7. ASSUME NEW s \in Slots, SlotStart(s) \/ SlotStop(s) \/ SlotTask(s)
      PROVE  UNCHANGED <<wired, call, told, raced>>
  BY <1>7 DEF SlotStart, SlotStop, SlotTask, TakeChange, ConnectTarget, TakeSocket, Lose,
              TakeLost, Reconnect, rulerVars, tables, history
<1>8. RulerStarts \/ UNCHANGED vars => UNCHANGED <<wired, call, told, raced>>
  BY DEF RulerStarts, RulerStart, vars, rulerVars, tables, history
<1> QED
  BY <1>1, <1>2, <1>3, <1>4, <1>5, <1>6, <1>7, <1>8 DEF Next

(* What a slot's program could last hear from the ruler is what the ruler  *)
(* stores for it, whatever methods for other slots are between their lock  *)
(* and their emission, whoever calls and whenever the ruler stops; the one *)
(* exception is a slot for which two methods overlapped, or whose method   *)
(* was cut off, until its next method.                                     *)
THEOREM SlotsAreTold == Safety => []ToldWhatIsStored
<1>1. Init => AloneAgrees
  BY DEF Init, RulerInit, AloneAgrees, Agrees, For, Busy
<1>2. TypeOK /\ AloneAgrees /\ [Next]_vars => AloneAgrees'
  BY MethodStep
<1>3. AloneAgrees => ToldWhatIsStored
  BY DEF AloneAgrees, Agrees, ToldWhatIsStored
<1> QED
  BY <1>1, <1>2, <1>3, TypeCorrect, PTL DEF Safety

-----------------------------------------------------------------------------
(* The safety core of Joins.                                               *)

(* A name the slot has not looked at, a socket, or a task that makes one.  *)
Holds(s) ==
  \/ \E i \in DOMAIN stream[s] : stream[s][i] # NoSignal
  \/ socks[s] # <<>> \/ sock[s] # NoSocket
  \/ target[s] # NoSignal \/ lost[s] # NoSignal \/ retry[s] # NoSignal

(* A slot whose registration was answered and that was told of a signal.   *)
NeverForgotten ==
  /\ enrolled \subseteq listening
  /\ \A s \in Slots : call[s] # NoCall => call[s].slot = s
  /\ \A s \in Slots : s \in enrolled /\ told[s] # NoSignal => Holds(s)

(* No method for the slot is under way, the last one did not race, and no  *)
(* task of the slot has anything to do.                                    *)
Idle(s) ==
  /\ ~Busy(s) /\ s \notin raced
  /\ stream[s] = <<>> /\ socks[s] = <<>>
  /\ target[s] = NoSignal /\ lost[s] = NoSignal /\ retry[s] = NoSignal
  /\ sock[s] # NoSocket => sock[s].open

(* It receives from a signal of its type.                                  *)
ReceivesWhenIdle ==
  \A s \in Slots :
    s \in enrolled /\ wired[s] \in Signals /\ Idle(s) => \E n \in Fit(s) : sock[s] = Socket(n)

(* A socket is one of a signal.                                            *)
LEMMA SocketsNamed == \A k \in Sockets : k # NoSocket /\ k.to # NoSignal
  BY NamesAssumption DEF Sockets, NoSocket

(* The tasks of a slot hand on what they hold.                             *)
LEMMA TasksHandOn ==
  ASSUME TypeOK, NEW s \in Slots, SlotTask(s), NEW t \in Slots, Holds(t)
  PROVE  Holds(t)'
<1> USE DEF Holds
<1>1. CASE t # s
  <2>1. /\ stream'[t] = stream[t] /\ socks'[t] = socks[t] /\ sock'[t] = sock[t]
        /\ target'[t] = target[t] /\ lost'[t] = lost[t] /\ retry'[t] = retry[t]
    BY <1>1 DEF SlotTask, TakeChange, ConnectTarget, TakeSocket, Lose, TakeLost, Reconnect,
                Connected, rulerVars, TypeOK, RulerTypeOK
  <2> QED
    BY <2>1
<1>2. CASE t = s /\ TakeChange(s)
  <2>1. /\ stream[s] # <<>> /\ stream[s] \in Seq(Signals \union {NoSignal})
        /\ target'[s] = Head(stream[s]) /\ stream'[s] = Tail(stream[s]) /\ target[s] = NoSignal
        /\ UNCHANGED <<socks, sock, lost, retry>>
    BY <1>2 DEF TakeChange, TypeOK, RulerTypeOK
  <2>2. ASSUME NEW i \in DOMAIN stream[s], stream[s][i] # NoSignal, i # 1
        PROVE  \E j \in DOMAIN stream'[s] : stream'[s][j] # NoSignal
    <3>1. i - 1 \in DOMAIN Tail(stream[s]) /\ Tail(stream[s])[i - 1] = stream[s][i]
      BY <2>1, <2>2
    <3> QED
      BY <3>1, <2>1, <2>2
  <2>3. stream[s][1] = Head(stream[s])
    BY <2>1
  <2> QED
    BY <1>2, <2>1, <2>2, <2>3
<1>3. CASE t = s /\ (ConnectTarget(s) \/ Reconnect(s))
  <2>1. PICK n : socks'[s] = Append(socks[s], Socket(n)) /\ socks[s] \in Seq(Sockets) /\ n \in Signals
    BY <1>3 DEF ConnectTarget, Reconnect, Connected, TypeOK
  <2>2. socks'[s] # <<>>
    BY <2>1
  <2> QED
    BY <1>3, <2>2
<1>4. CASE t = s /\ TakeSocket(s)
  <2>1. socks[s] \in Seq(Sockets) /\ socks[s] # <<>> /\ sock'[s] = Head(socks[s])
    BY <1>4 DEF TakeSocket, TypeOK
  <2>2. sock'[s] \in Sockets
    BY <2>1
  <2> QED
    BY <1>4, <2>2, SocketsNamed
<1>5. CASE t = s /\ Lose(s)
  <2>1. lost'[s] = sock[s].to /\ sock[s] \in Sockets
    BY <1>5 DEF Lose, TypeOK
  <2> QED
    BY <1>5, <2>1, SocketsNamed
<1>6. CASE t = s /\ TakeLost(s)
  <2>1. retry'[s] = lost[s] /\ lost[s] # NoSignal
    BY <1>6 DEF TakeLost, TypeOK
  <2> QED
    BY <1>6, <2>1
<1> QED
  BY <1>1, <1>2, <1>3, <1>4, <1>5, <1>6 DEF SlotTask

(* An emission reaches every slot whose registration was answered.         *)
LEMMA EmissionReaches ==
  ASSUME TypeOK, NeverForgotten, NEW c \in Callers, Announce(c)
  PROVE  NeverForgotten'
<1> DEFINE s == call[c].slot  n == call[c].signal
<1>1. /\ s \in Slots /\ n \in Signals \union {NoSignal} /\ call[c] # NoCall
      /\ call' = [call EXCEPT ![c] = NoCall]
      /\ told' = [told EXCEPT ![s] = n] /\ listening' = listening
      /\ stream' = IF s \in listening THEN [stream EXCEPT ![s] = Append(@, n)] ELSE stream
      /\ enrolled' = IF c \in listening THEN enrolled \union {c} ELSE enrolled
      /\ UNCHANGED <<socks, sock, target, lost, retry>>
  BY DEF Announce, Emit, TypeOK, RulerTypeOK, Change, tables, history
<1> HIDE DEF s, n
<1>2. enrolled' \subseteq listening'
  BY <1>1 DEF NeverForgotten
<1>3. \A t \in Slots : call'[t] # NoCall => call'[t].slot = t
  BY <1>1 DEF NeverForgotten, TypeOK, RulerTypeOK
<1>4. ASSUME NEW t \in Slots, t \in enrolled', told'[t] # NoSignal PROVE Holds(t)'
  <2>1. CASE t = s
    <3>1. told'[t] = n /\ stream'[t] = Append(stream[t], n) /\ t \in listening
          /\ stream[t] \in Seq(Signals \union {NoSignal})
      BY <1>1, <1>2, <1>4, <2>1 DEF TypeOK, RulerTypeOK
    <3>2. /\ Len(stream[t]) + 1 \in DOMAIN stream'[t]
          /\ stream'[t][Len(stream[t]) + 1] = n
      BY <1>1, <3>1
    <3> QED
      BY <3>1, <3>2, <1>4 DEF Holds
  <2>2. CASE t # s
    <3>1. told'[t] = told[t] /\ stream'[t] = stream[t]
      BY <1>1, <2>2 DEF TypeOK, RulerTypeOK
    <3>2. t # c
      BY <1>1, <2>2 DEF NeverForgotten, s
    <3>3. t \in enrolled
      BY <1>1, <1>4, <3>2
    <3> QED
      BY <3>1, <3>3, <1>1, <1>4 DEF NeverForgotten, Holds
  <2> QED
    BY <2>1, <2>2
<1> QED
  BY <1>2, <1>3, <1>4 DEF NeverForgotten

(* A signal that stops closes sockets and takes none away.                 *)
LEMMA StopLeavesSockets ==
  ASSUME TypeOK, NEW n \in Signals, SignalStop(n), NEW s \in Slots, Holds(s)
  PROVE  Holds(s)'
<1>1. /\ socks'[s] = [i \in DOMAIN socks[s] |-> Without(n, socks[s][i])]
      /\ sock'[s] = Without(n, sock[s])
      /\ UNCHANGED <<stream, target, lost, retry>>
  BY DEF SignalStop, rulerVars
<1>2. socks[s] # <<>> => socks'[s] # <<>>
  <2> SUFFICES ASSUME socks[s] # <<>> PROVE socks'[s] # <<>>
    OBVIOUS
  <2>1. socks[s] \in Seq(Sockets)
    BY DEF TypeOK
  <2>2. 1 \in DOMAIN socks[s]
    BY <2>1
  <2>3. 1 \in DOMAIN socks'[s]
    BY <1>1, <2>2
  <2> QED
    BY <2>3
<1>3. sock[s] # NoSocket => sock'[s] # NoSocket
  <2> SUFFICES ASSUME sock[s] # NoSocket PROVE sock'[s] # NoSocket
    OBVIOUS
  <2>1. sock[s] \in Sockets
    BY DEF TypeOK
  <2>2. sock'[s] \in Sockets
    BY <1>1, <2>1 DEF Without, Sockets
  <2> QED
    BY <2>2, SocketsNamed
<1> QED
  BY <1>1, <1>2, <1>3 DEF Holds

(* One step per action.                                                    *)
LEMMA ForgottenStep == TypeOK /\ NeverForgotten /\ [Next]_vars => NeverForgotten'
<1> SUFFICES ASSUME TypeOK, NeverForgotten, [Next]_vars PROVE NeverForgotten'
  OBVIOUS
<1>1. ASSUME UNCHANGED <<call, told, enrolled>>, listening \subseteq listening',
             \A s \in Slots : Holds(s) => Holds(s)'
      PROVE  NeverForgotten'
  BY <1>1 DEF NeverForgotten
<1>2. ASSUME UNCHANGED <<stream, slotVars>> PROVE \A s \in Slots : Holds(s) => Holds(s)'
  BY <1>2 DEF slotVars, Holds
<1>3. ASSUME NEW n \in Signals, SignalStart(n) \/ SignalRegister(n) PROVE NeverForgotten'
  BY <1>1, <1>2, <1>3 DEF SignalStart, SignalRegister, RegisterSignal, rulerVars, slotVars, history
<1>4. ASSUME NEW n \in Signals, SignalStop(n) PROVE NeverForgotten'
  <2>1. UNCHANGED <<call, told, enrolled, listening>>
    BY <1>4 DEF SignalStop, rulerVars, history
  <2> QED
    BY <2>1, <1>1, <1>4, StopLeavesSockets
<1>5. ASSUME NEW s \in Slots, SlotStart(s) PROVE NeverForgotten'
  BY <1>1, <1>2, <1>5 DEF SlotStart, slotVars, history
<1>6. ASSUME NEW s \in Slots, SlotStop(s) PROVE NeverForgotten'
  <2>1. /\ enrolled' = enrolled \ {s} /\ listening' = listening \ {s} /\ UNCHANGED <<call, told>>
        /\ \A t \in Slots : t # s =>
             /\ stream'[t] = stream[t] /\ socks'[t] = socks[t] /\ sock'[t] = sock[t]
             /\ target'[t] = target[t] /\ lost'[t] = lost[t] /\ retry'[t] = retry[t]
    BY <1>6 DEF SlotStop, TypeOK, RulerTypeOK, history
  <2>2. \A t \in Slots : t # s => (Holds(t) => Holds(t)')
    BY <2>1 DEF Holds
  <2> QED
    BY <2>1, <2>2 DEF NeverForgotten
<1>7. ASSUME NEW s \in Slots, SlotTask(s) PROVE NeverForgotten'
  <2>1. UNCHANGED <<call, told, enrolled, listening>>
    BY <1>7 DEF SlotTask, TakeChange, ConnectTarget, TakeSocket, Lose, TakeLost, Reconnect, rulerVars, history
  <2> QED
    BY <2>1, <1>1, <1>7, TasksHandOn
<1>8. ASSUME NEW s \in Slots, SlotRegister(s) PROVE NeverForgotten'
  <2>1. /\ call' = [call EXCEPT ![s] = [slot |-> s, signal |-> Stored(s)]]
        /\ UNCHANGED <<told, listening, stream, slotVars>>
    BY <1>8 DEF SlotRegister, RegisterSlot, Released
  <2>2. \A t \in Slots : call'[t] # NoCall => call'[t].slot = t
    BY <2>1 DEF NeverForgotten, TypeOK, RulerTypeOK, Callers
  <2> QED
    BY <2>1, <2>2, <1>2 DEF NeverForgotten, slotVars
<1>9. ASSUME NEW o \in Operators, NEW s \in Slots, NEW n \in Signals \union {NoSignal},
             OperatorConnect(o, s, n)
      PROVE  NeverForgotten'
  <2>1. /\ call' = [call EXCEPT ![o] = [slot |-> s, signal |-> n]]
        /\ UNCHANGED <<told, listening, stream, slotVars>>
    BY <1>9 DEF OperatorConnect, Connect, Released
  <2>2. \A t \in Slots : call'[t] = call[t]
    BY <2>1, NamesAssumption DEF TypeOK, RulerTypeOK, Callers
  <2> QED
    BY <2>1, <2>2, <1>2 DEF NeverForgotten, slotVars
<1>10. ASSUME NEW c \in Callers, Announce(c) PROVE NeverForgotten'
  BY <1>10, EmissionReaches
<1>11. CASE RulerStops
  <2>1. /\ \A t \in Slots : call'[t] = NoCall
        /\ UNCHANGED <<told, listening, stream, slotVars>>
    BY <1>11 DEF RulerStops, RulerStop, Callers
  <2> QED
    BY <2>1, <1>2 DEF NeverForgotten, slotVars
<1>12. CASE RulerStarts \/ UNCHANGED vars
  BY <1>1, <1>2, <1>12 DEF RulerStarts, RulerStart, vars, rulerVars, slotVars, tables, history
<1> QED
  BY <1>3, <1>4, <1>5, <1>6, <1>7, <1>8, <1>9, <1>10, <1>11, <1>12 DEF Next

(* The safety core of Joins: a slot the ruler has connected receives as    *)
(* soon as none of its tasks has anything to do, whatever stopped,         *)
(* restarted and was connected before, with methods overlapping as they    *)
(* like.  Only a slot whose own last methods raced is left out.  It may be *)
(* from another signal than the stored one if its type has several.        *)
THEOREM ConnectedSlotsReceive == Safety => []ReceivesWhenIdle
<1>1. Init => NeverForgotten
  BY DEF Init, RulerInit, NeverForgotten, Callers
<1>2. Safety => []NeverForgotten
  BY <1>1, ForgottenStep, TypeCorrect, PTL DEF Safety
<1>3. TypeOK /\ NeverForgotten /\ ReceivesOwnType /\ ToldWhatIsStored => ReceivesWhenIdle
  <2> SUFFICES ASSUME TypeOK, NeverForgotten, ReceivesOwnType, ToldWhatIsStored,
                      NEW s \in Slots, s \in enrolled, wired[s] \in Signals, Idle(s)
               PROVE  \E n \in Fit(s) : sock[s] = Socket(n)
    BY DEF ReceivesWhenIdle
  <2>1. told[s] = wired[s] /\ wired[s] \notin {NoSignal, Unregistered}
    BY NamesAssumption DEF ToldWhatIsStored, Idle
  <2>2. sock[s] # NoSocket
    BY <2>1 DEF NeverForgotten, Holds, Idle
  <2>3. sock[s] \in Sockets /\ sock[s].open = TRUE /\ sock[s].to \in Fit(s)
    BY <2>2 DEF ReceivesOwnType, TypeOK, Idle, Sockets
  <2>4. sock[s] = Socket(sock[s].to)
    BY <2>3 DEF Sockets, Socket
  <2> QED
    BY <2>3, <2>4
<1> QED
  BY <1>2, <1>3, TypeCorrect, SlotsReceiveOwnType, SlotsAreTold, PTL
=============================================================================

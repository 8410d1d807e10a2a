-------------------------- MODULE OperationsClient --------------------------
(***************************************************************************)
(* A program that follows the operation mode                               *)
(* (tfc-exes/operations/src/operations/client.rs): the task that proxies   *)
(* set_mode and stop to the server and its update signals back, the tasks  *)
(* behind subscribe_entry_mode and subscribe_exit_mode, and the end of the *)
(* client.  The server is the one of ModeMachine; its D-Bus methods        *)
(* return at once and what they do to the mode is one of its moves.        *)
(***************************************************************************)
EXTENDS Naturals, Sequences

CONSTANTS
  Used,      (* modes the server moves to                                  *)
  Subs,      (* subscriptions: [on : {"entry", "exit"}, mode : Used]       *)
  Requests,  (* modes the program asks for with set_mode                   *)
  Drops,     (* whether the program may drop the client                    *)
  MaxStream  (* bound: update signals on their way to the client           *)

VARIABLES
  mode, update, pending,  (* the server, see ModeMachine                   *)
  serving,   (* its D-Bus interface is registered                          *)
  stream,    (* updates sent to the client and not read                    *)
  proxy,     (* the proxying task: "starting", "idle", "calling", "dead"   *)
  asked,     (* last argument of set_mode and stop, "" before the first    *)
  fresh,     (* which of them the task has not proxied                     *)
  called,    (* last argument proxied of each                              *)
  calling,   (* which is being proxied                                     *)
  view,      (* the client's watch channel of updates                      *)
  subs,      (* subscriptions made                                         *)
  unseen,    (* those that have not looked at the view                     *)
  waiting,   (* subscriptions someone waits on, with the mode of the       *)
             (* server when they began to wait; "" otherwise               *)
  dropped    (* the client has been dropped                                *)

server  == <<mode, update, pending>>
watches == <<view, subs, unseen>>
vars    == <<server, serving, stream, proxy, asked, fresh, called, calling, watches,
             waiting, dropped>>

Server == INSTANCE ModeMachine WITH mode <- mode, update <- update, pending <- pending

ASSUME UsedAssumption == Used \subseteq Server!Modes /\ Requests \subseteq Server!ReportedModes
ASSUME SubsAssumption == Subs \subseteq [on : {"entry", "exit"}, mode : Used]
ASSUME FlagsAssumption == Drops \in BOOLEAN /\ MaxStream \in Nat

Methods == {"set_mode", "stop"}
NoUpdate == [old |-> "Unknown", new |-> "Unknown"]

Init ==
  /\ Server!Init /\ serving = FALSE
  /\ stream = <<>> /\ proxy = "starting"
  /\ asked = [k \in Methods |-> ""] /\ fresh = {} /\ called = asked /\ calling = "none"
  /\ view = NoUpdate /\ subs = {} /\ unseen = {}
  /\ waiting = [s \in Subs |-> ""]
  /\ dropped = FALSE

-----------------------------------------------------------------------------
(* The server.                                                             *)

Move(to) ==
  /\ Server!Move(to)
  /\ UNCHANGED <<serving, stream, proxy, asked, fresh, called, calling, watches, waiting, dropped>>

Serve ==
  /\ ~serving
  /\ serving' = TRUE
  /\ UNCHANGED <<server, stream, proxy, asked, fresh, called, calling, watches, waiting, dropped>>

(* The update signal goes to whoever has subscribed to it by then.         *)
Announce ==
  /\ serving /\ Len(stream) < MaxStream
  /\ Server!Announce
  /\ stream' = IF proxy \in {"idle", "calling"} THEN Append(stream, update) ELSE stream
  /\ UNCHANGED <<serving, proxy, asked, fresh, called, calling, watches, waiting, dropped>>

-----------------------------------------------------------------------------
(* The proxying task.                                                      *)

Listen ==
  /\ proxy = "starting"
  /\ proxy' = "idle"
  /\ UNCHANGED <<server, serving, stream, asked, fresh, called, calling, watches, waiting, dropped>>

(* changed() of a request.  It also returns, with an error nobody looks    *)
(* at, when the sender has been dropped.                                   *)
BeginCall(k) ==
  /\ proxy = "idle"
  /\ k \in fresh \/ dropped
  /\ fresh'   = fresh \ {k}
  /\ called'  = [called EXCEPT ![k] = asked[k]]
  /\ calling' = k
  /\ proxy'   = "calling"
  /\ UNCHANGED <<server, serving, stream, asked, watches, waiting, dropped>>

(* What the server takes; an error, from it or for want of it, meets an    *)
(* expect() that ends the task.                                            *)
Accepts(k, arg) == serving /\ (k = "set_mode" => arg \notin {"", "Unknown"})

(* Mutant: the request is read when it has been answered.                  *)
MutEndCall ==
  /\ proxy = "calling"
  /\ proxy'   = IF Accepts(calling, called[calling]) THEN "idle" ELSE "dead"
  /\ stream'  = IF proxy' = "dead" THEN <<>> ELSE stream
  /\ fresh'   = fresh \ {calling}
  /\ calling' = "none"
  /\ UNCHANGED <<server, serving, asked, called, watches, waiting, dropped>>

EndCall ==
  /\ proxy = "calling"
  /\ proxy'   = IF Accepts(calling, called[calling]) THEN "idle" ELSE "dead"
  /\ stream'  = IF proxy' = "dead" THEN <<>> ELSE stream
  /\ calling' = "none"
  /\ UNCHANGED <<server, serving, asked, fresh, called, watches, waiting, dropped>>

(* Mutant: an update from an unknown mode is ignored.                      *)
MutChange(u) == u.new # u.old /\ u.old # "Unknown"

(* An update worth telling: of a mode, and of another one than before.     *)
Change(u) == u.new # u.old /\ u.new # "Unknown"

(* watch::Sender::send stores nothing while there is no receiver.          *)
Show(u) ==
  IF Change(u) /\ subs # {}
  THEN view' = u /\ unseen' = subs
  ELSE UNCHANGED <<view, unseen>>

TakeUpdate ==
  /\ proxy = "idle" /\ stream # <<>>
  /\ stream' = Tail(stream)
  /\ Show(Head(stream))
  /\ UNCHANGED <<server, serving, proxy, asked, fresh, called, calling, subs, waiting, dropped>>

-----------------------------------------------------------------------------
(* The program.                                                            *)

Ask(k, arg) ==
  /\ ~dropped /\ proxy # "dead"
  /\ asked' = [asked EXCEPT ![k] = arg]
  /\ fresh' = fresh \union {k}
  /\ UNCHANGED <<server, serving, stream, proxy, called, calling, watches, waiting, dropped>>

SetMode(m) == m \in Requests /\ Ask("set_mode", m)
Stop       == Requests # {} /\ Ask("stop", "reason")

Subscribe(s) ==
  /\ ~dropped /\ s \notin subs
  /\ subs' = subs \union {s}
  /\ UNCHANGED <<server, serving, stream, proxy, asked, fresh, called, calling, view, unseen,
                 waiting, dropped>>

(* notified() of a subscription.                                           *)
Wait(s) ==
  /\ s \in subs /\ waiting[s] = ""
  /\ waiting' = [waiting EXCEPT ![s] = mode]
  /\ UNCHANGED <<server, serving, stream, proxy, asked, fresh, called, calling, watches, dropped>>

(* Nothing cancels the tasks of a client that is dropped.                  *)
Drop ==
  /\ Drops /\ ~dropped
  /\ dropped' = TRUE
  /\ UNCHANGED <<server, serving, stream, proxy, asked, fresh, called, calling, watches, waiting>>

(* Mutant: the task of an entry looks at the mode that is left.            *)
MutMatches(s, u) == u.old = s.mode

Matches(s, u) == s.mode = IF s.on = "entry" THEN u.new ELSE u.old

(* The task of a subscription looks at the view and notify_waiters().      *)
Watch(s) ==
  /\ s \in unseen
  /\ unseen'  = unseen \ {s}
  /\ waiting' = IF Matches(s, view) THEN [waiting EXCEPT ![s] = ""] ELSE waiting
  /\ UNCHANGED <<server, serving, stream, proxy, asked, fresh, called, calling, view, subs, dropped>>

-----------------------------------------------------------------------------
Next ==
  \/ \E to \in Used : Move(to)
  \/ Serve \/ Announce
  \/ Listen \/ EndCall \/ TakeUpdate
  \/ \E k \in Methods : BeginCall(k)
  \/ \E m \in Requests : SetMode(m)
  \/ Stop
  \/ \E s \in Subs : Subscribe(s) \/ Wait(s) \/ Watch(s)
  \/ Drop

(* Tasks that can go on do, and select! takes each ready branch in turn.   *)
Fairness ==
  /\ WF_vars(Serve) /\ WF_vars(Announce) /\ WF_vars(Listen) /\ WF_vars(EndCall)
  /\ SF_vars(TakeUpdate) /\ \A k \in Methods : SF_vars(BeginCall(k))
  /\ \A s \in Subs : WF_vars(Watch(s))

Safety == Init /\ [][Next]_vars
Spec   == Safety /\ Fairness

-----------------------------------------------------------------------------
(* Types of the channels and the tasks.                                    *)
TypeOK ==
  /\ mode \in Server!Modes /\ update \in Server!Updates /\ pending \in BOOLEAN
  /\ serving \in BOOLEAN /\ dropped \in BOOLEAN
  /\ stream  \in Seq(Server!Updates)
  /\ proxy   \in {"starting", "idle", "calling", "dead"}
  /\ asked   \in [Methods -> Requests \union {"", "reason"}]
  /\ called  \in [Methods -> Requests \union {"", "reason"}]
  /\ fresh   \subseteq Methods
  /\ calling \in Methods \union {"none"} /\ (proxy = "calling" <=> calling # "none")
  /\ view    \in Server!Updates
  /\ unseen  \subseteq subs /\ subs \subseteq Subs
  /\ waiting \in [Subs -> Server!Modes \union {""}]

(* An update as a client knows it, whatever was conflated on the way, is   *)
(* an arrow of the mode graph: old and new mode belong together.           *)
ViewIsMove ==
  view # NoUpdate =>
    \E from, to \in Server!Modes :
      Server!Edge(from, to) /\ view = [old |-> Server!Reported(from), new |-> Server!Reported(to)]

(* The last update of the server is that from Emergency to Emergency.  A   *)
(* client ignores it; the update it may have replaced in the watch of the  *)
(* server, the entry into Emergency, is lost to the client.                *)
Repeated == update = [old |-> "Emergency", new |-> "Emergency"]

(* A client that listens and has a subscription before the first mode.     *)
ListensFirst == [](mode # "Init" => proxy \in {"idle", "calling"} /\ subs # {})

(* mode() ends up as the mode of the server, as the test of the client     *)
(* asserts after each change; of Emergency, unless the server has been told*)
(* of it again since.                                                      *)
FollowsMode ==
  ListensFirst =>
    \A m \in Used \ {"Init"} : <>[](mode = m /\ ~Repeated) => <>[](view.new = m)

(* Who waits for the entry of a mode before the server enters it for good  *)
(* is notified; of Emergency, unless the server has been told of it again  *)
(* since.                                                                  *)
EntryNotified ==
  ListensFirst => \A s \in Subs : s.on = "entry" =>
    ~<>[](mode = s.mode /\ ~Repeated /\ waiting[s] \notin {"", s.mode})

(* The last request made of either kind reaches the server, however many   *)
(* were made while another was proxied.                                    *)
RequestsProxied ==
  \A k \in Methods : (k \in fresh) ~> (k \notin fresh /\ called[k] = asked[k]) \/ proxy = "dead"
=============================================================================

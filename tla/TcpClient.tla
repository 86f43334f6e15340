------------------------------- MODULE TcpClient -------------------------------
(***************************************************************************)
(* The connections of the clients of tcp.cpp: connect with the detached    *)
(* thread that waits for the answer, shutdown, send, and Update as far as  *)
(* it decides which connection the bytes come from (TcpReceive has what it *)
(* does with them; here a packet is two halves).  The platform is one of   *)
(* the XNUX ones; clients are made by the first connect of the Lua binding.*)
(*                                                                         *)
(* The clients, the scripts and the game loop are one thread.  Its stack   *)
(* holds what a function goes on with when the handlers it called have     *)
(* returned; a script called by a handler may call any client again.       *)
(***************************************************************************)
EXTENDS Integers, Sequences

CONSTANTS
  Clients,
  MaxConnects,  \* bound: calls of connect
  MaxSignals,   \* bound: SIGPIPEs
  MaxHalves,    \* bound: halves that wait on a socket
  MaxNesting    \* bound: depth of the stack when a script runs

ASSUME TcpClientAssumption ==
  MaxConnects \in Nat /\ MaxSignals \in Nat /\ MaxHalves \in Nat /\ MaxNesting \in Nat

VARIABLES
  state,        \* m_tcp_state of each client
  session,      \* its socket, 0 if it has none; the call of connect it was opened by
  loop,         \* external: the clients the Director calls in its loop
  data,         \* m_data: 0, or the socket the first half of an unfinished packet came from
  threads,      \* the connect threads under way: whose, on which socket, started by which call
  errorSignal,  \* how many signals the handler of SIGPIPE has noted
  stack,        \* the frames, innermost first; c, n and s are what the function keeps
  wire          \* external: halves of packets that wait on each socket

\* What has happened, for the properties.
VARIABLES
  connects,     \* calls of connect so far
  answer,       \* what connect has said of each socket: "none", "ok" or "refused"
  late,         \* sockets during whose time the thread of another call answered
  replaced,     \* clients that were connected while they had a socket, or amid their Update
  raised,       \* signals so far
  victims,      \* how often Update has disconnected a client for a signal
  vanished,     \* clients that lost a packet of which no handler was told
  delivered       \* the last packet delivered: the sockets of its halves

program == <<state, session, loop, data, threads, errorSignal, stack>>
ghosts  == <<connects, answer, late, replaced, raised, victims, vanished, delivered>>
vars    == <<program, wire, ghosts>>

Sockets == 1 .. MaxConnects
Frame(at, c, n, s) == [at |-> at, c |-> c, n |-> n, s |-> s]
Handlers == [at |-> "handlers"]

\* The constructor leaves the state NEW_CREATE.
Init ==
  /\ state = [c \in Clients |-> "NEW_CREATE"] /\ session = [c \in Clients |-> 0]
  /\ loop = {} /\ data = [c \in Clients |-> 0]
  /\ threads = {} /\ errorSignal = 0 /\ stack = <<>> /\ wire = [s \in Sockets |-> 0]
  /\ connects = 0 /\ answer = [s \in Sockets |-> "none"] /\ late = {} /\ replaced = {}
  /\ raised = 0 /\ victims = 0 /\ vanished = {} /\ delivered = {}

Top(at) == stack # <<>> /\ Head(stack).at = at

\* The script runs: called by nobody, or by a handler.
ScriptRuns == stack = <<>> \/ (Top("handlers") /\ Len(stack) < MaxNesting)

-----------------------------------------------------------------------------

\* Mutant: the client stays in the loop.
ShutdownStays(c) == session' = [session EXCEPT ![c] = 0] /\ UNCHANGED loop
\* tcp::shutdown.  The state is left as it is, and so is m_data.
Shutdown(c) ==
  /\ session' = [session EXCEPT ![c] = 0]
  /\ loop' = IF session[c] # 0 THEN loop \ {c} ELSE loop

\* tcp::ondisconnect, called by a function that goes on with `behind'.
OnDisconnect(c, behind) ==
  /\ Shutdown(c)
  /\ state' = [state EXCEPT ![c] = "DISCONNECTED"]
  /\ stack' = <<Handlers>> \o behind

\* The end of connect: the client is CONNECTED, and a thread waits for the answer.
Started(c, s, call) ==
  /\ state' = [state EXCEPT ![c] = "CONNECTED"]
  /\ threads' = threads \cup {[c |-> c, s |-> s, call |-> call]}

\* Mutant: a client takes part in the loop again when it is connected again.
MadeAgain(c) == loop \cup {c}
\* The first connect makes the client, whose base class puts it into the loop.
Made(c) == IF state[c] = "NEW_CREATE" THEN loop \cup {c} ELSE loop
AmidUpdate(c) == \E f \in 1 .. Len(stack) : stack[f].at = "update" /\ stack[f].c = c

\* tcp::connect with a socket.  The socket the client may have had is forgotten.
ConnectOpened(c, call) ==
  /\ session' = [session EXCEPT ![c] = call] /\ loop' = Made(c)
  /\ Started(c, call, call)
  /\ replaced' = IF session[c] # 0 \/ AmidUpdate(c) THEN replaced \cup {c} ELSE replaced
  /\ UNCHANGED stack
\* tcp::connect without one, session being -1: ondisconnect, and then it goes on.
ConnectFailed(c, call) ==
  /\ session' = [session EXCEPT ![c] = 0] /\ loop' = loop \ {c}
  /\ state' = [state EXCEPT ![c] = "DISCONNECTED"]
  /\ stack' = <<Handlers, Frame("connect", c, call, 0)>> \o stack
  /\ UNCHANGED <<threads, replaced>>
Connect(c) ==
  /\ ScriptRuns /\ connects < MaxConnects
  /\ connects' = connects + 1
  /\ ConnectOpened(c, connects + 1) \/ ConnectFailed(c, connects + 1)
  /\ UNCHANGED <<data, errorSignal, wire, answer, late, raised, victims, vanished, delivered>>
ConnectGoesOn ==
  /\ Top("connect")
  /\ LET f == Head(stack) IN Started(f.c, session[f.c], f.n)
  /\ stack' = Tail(stack)
  /\ UNCHANGED <<session, loop, data, errorSignal, wire, ghosts>>

\* Mutant: only a success is written.
WrittenOk(t, ok) == IF ok THEN [state EXCEPT ![t.c] = "CONNECTED"] ELSE state
Written(t, ok) == [state EXCEPT ![t.c] = IF ok THEN "CONNECTED" ELSE "CONNECT_ERROR"]
\* connectSert: connect returns, whatever the client has done since, and its result
\* is the state.  There is no success without a socket.
ConnectReturns ==
  \E t \in threads, ok \in BOOLEAN :
    /\ ok => t.s # 0
    /\ threads' = threads \ {t}
    /\ state' = Written(t, ok)
    /\ answer' = [s \in Sockets |-> IF s # t.s \/ answer[s] = "ok" THEN answer[s]
                                    ELSE IF ok THEN "ok" ELSE "refused"]
    /\ late' = IF session[t.c] \in {0, t.call} THEN late ELSE late \cup {session[t.c]}
    /\ UNCHANGED <<session, loop, data, errorSignal, stack, wire,
                   connects, replaced, raised, victims, vanished, delivered>>

ScriptShutdown(c) ==
  /\ ScriptRuns /\ state[c] # "NEW_CREATE"
  /\ Shutdown(c)
  /\ UNCHANGED <<state, data, threads, errorSignal, stack, wire, ghosts>>

\* tcp::send where it does not only pass bytes on: to a client that is not connected; on
\* no socket; or failing, where the peer has closed with a signal, noted before it returns.
SendRefused(c) ==
  /\ state[c] # "CONNECTED"
  /\ OnDisconnect(c, stack)
  /\ UNCHANGED <<errorSignal, raised, vanished>>
SendNowhere(c) ==
  /\ state[c] = "CONNECTED" /\ session[c] = 0
  /\ vanished' = vanished \cup {c}
  /\ UNCHANGED <<state, session, loop, stack, errorSignal, raised>>
SendFails(c) ==
  /\ state[c] = "CONNECTED" /\ session[c] # 0
  /\ OnDisconnect(c, stack)
  /\ \/ UNCHANGED <<errorSignal, raised>>
     \/ raised < MaxSignals /\ raised' = raised + 1 /\ errorSignal' = errorSignal + 1
  /\ UNCHANGED vanished
Send(c) ==
  /\ ScriptRuns /\ state[c] # "NEW_CREATE"
  /\ SendRefused(c) \/ SendNowhere(c) \/ SendFails(c)
  /\ UNCHANGED <<data, threads, wire, connects, answer, late, replaced, victims, delivered>>

-----------------------------------------------------------------------------

\* The loop over n halves received from s, which a client that is done leaves.
Looping(c, n, s, behind) == IF n = 0 THEN behind ELSE <<Frame("cut", c, n, s)>> \o behind

\* recv: some of what waits on the socket, or nothing.
Recv(c, s, behind) ==
  \/ stack' = behind /\ UNCHANGED wire
  \/ \E n \in 1 .. MaxHalves :
       /\ s # 0 /\ n <= wire[s]
       /\ wire' = [wire EXCEPT ![s] = @ - n]
       /\ stack' = Looping(c, n, s, behind)

\* tcp::Update.  The first client that looks is disconnected for the signals of all.
Update(c) ==
  /\ stack = <<>> /\ c \in loop /\ state[c] = "CONNECTED"
  /\ \/ /\ errorSignal > 0
        /\ OnDisconnect(c, <<Frame("update", c, 0, 0)>>)
        /\ victims' = victims + 1
        /\ UNCHANGED wire
     \/ /\ errorSignal = 0
        /\ Recv(c, session[c], <<>>)
        /\ UNCHANGED <<state, session, loop, victims>>
  /\ UNCHANGED <<data, threads, errorSignal, connects, answer, late, replaced, raised, vanished, delivered>>
\* Mutant: the signals stay noted.
ForgottenNone == errorSignal
Forgotten == 0
\* Behind ondisconnect Update goes on, with the socket the client has by then.
UpdateGoesOn ==
  /\ Top("update")
  /\ errorSignal' = Forgotten
  /\ LET c == Head(stack).c IN Recv(c, session[c], Tail(stack))
  /\ UNCHANGED <<state, session, loop, data, threads, ghosts>>

\* A half begins a packet, or completes one and the handlers are called; behind them
\* the packet is deleted.
Begun(f) ==
  /\ data[f.c] = 0
  /\ data' = [data EXCEPT ![f.c] = f.s]
  /\ stack' = Looping(f.c, f.n - 1, f.s, Tail(stack))
  /\ UNCHANGED delivered
Completed(f) ==
  /\ data[f.c] # 0
  /\ delivered' = {[c |-> f.c, first |-> data[f.c], second |-> f.s]}
  /\ stack' = <<Handlers, Frame("delete", f.c, f.n - 1, f.s)>> \o Tail(stack)
  /\ UNCHANGED data
Cut ==
  /\ Top("cut")
  /\ Begun(Head(stack)) \/ Completed(Head(stack))
  /\ UNCHANGED <<state, session, loop, threads, errorSignal, wire,
                 connects, answer, late, replaced, raised, victims, vanished>>
Delete ==
  /\ Top("delete")
  /\ LET f == Head(stack) IN
     /\ data' = [data EXCEPT ![f.c] = 0]
     /\ stack' = Looping(f.c, f.n, f.s, Tail(stack))
  /\ UNCHANGED <<state, session, loop, threads, errorSignal, wire, ghosts>>

\* The handlers of ondisconnect, or of a packet, have all returned.
HandlersReturn ==
  /\ Top("handlers")
  /\ stack' = Tail(stack)
  /\ UNCHANGED <<state, session, loop, data, threads, errorSignal, wire, ghosts>>

\* The peer of an answered socket sends half a packet (external).  What it sends to a
\* socket no client has any more is never received.
PeerSends(s) ==
  /\ \E c \in Clients : session[c] = s
  /\ answer[s] = "ok" /\ wire[s] < MaxHalves
  /\ wire' = [wire EXCEPT ![s] = @ + 1]
  /\ UNCHANGED <<program, ghosts>>

Next ==
  \/ \E c \in Clients : Connect(c) \/ ScriptShutdown(c) \/ Send(c) \/ Update(c)
  \/ ConnectGoesOn \/ ConnectReturns \/ UpdateGoesOn \/ Cut \/ Delete \/ HandlersReturn
  \/ \E s \in Sockets : PeerSends(s)
Spec == Init /\ [][Next]_vars

-----------------------------------------------------------------------------
(* Properties.                                                              *)

FrameType ==
  {Handlers}
    \cup [at : {"connect", "update", "delete"}, c : Clients, n : Nat, s : 0 .. MaxConnects]
    \cup [at : {"cut"}, c : Clients, n : Nat \ {0}, s : 0 .. MaxConnects]
TypeOK ==
  /\ state \in [Clients -> {"NEW_CREATE", "CONNECTED", "CONNECT_ERROR", "DISCONNECTED"}]
  /\ session \in [Clients -> 0 .. MaxConnects] /\ data \in [Clients -> 0 .. MaxConnects]
  /\ loop \subseteq Clients /\ replaced \subseteq Clients /\ vanished \subseteq Clients
  /\ threads \subseteq [c : Clients, s : 0 .. MaxConnects, call : Nat]
  /\ stack \in Seq(FrameType)
  /\ wire \in [Sockets -> Nat] /\ answer \in [Sockets -> {"none", "ok", "refused"}]
  /\ late \subseteq Sockets /\ connects \in 0 .. MaxConnects
  /\ errorSignal \in Nat /\ raised \in Nat /\ victims \in Nat
  /\ delivered \subseteq [c : Clients, first : 0 .. MaxConnects, second : 0 .. MaxConnects]

\* The state tells what the peer said (connectSert writes it from a thread of its own): a
\* client with a socket of which no thread waits for the answer is CONNECTED only if it
\* was accepted, and in error only if it was refused.  The exception is a socket in whose
\* time the thread of another call of connect has answered.
StateTruthful ==
  \A c \in Clients :
    LET s == session[c] IN
    s \notin late \cup {0} /\ (\A t \in threads : t.s # s) =>
      /\ state[c] = "CONNECTED" => answer[s] = "ok"
      /\ state[c] = "CONNECT_ERROR" => answer[s] = "refused"

\* errorSignal is shared by all clients, and who looks first is disconnected; but no
\* more clients are than signals were raised (tcp::Update, handerfun).
SignalsShared == victims <= raised

\* The halves of a packet come from one connection, although shutdown keeps m_data: a
\* client that was shut down is never called by the loop again.  Only one that is connected
\* while it has a socket, or by a handler amid its own Update, may join two streams.
Unmixed == \A p \in delivered : p.c \in replaced \/ p.first = p.second

\* A client that the loop calls has lost no packet without its handlers being told: send
\* passes over a missing socket silently, but then the client is out of the loop.
NothingVanishes == loop \cap vanished = {}
=============================================================================

---------------------------- MODULE TcpClient_proofs ----------------------------
(***************************************************************************)
(* Theorems about TcpClient, for any number of clients and any bounds.     *)
(*                                                                         *)
(* The inductive invariant IInv has four parts beside the types, none of   *)
(* which needs another: who is in the game loop, what became of the        *)
(* signals, where the halves of packets come from, and what the connect    *)
(* threads can still write.                                                *)
(***************************************************************************)
EXTENDS TcpClient, TLAPS

Push(f, st) == <<f>> \o st
Frames(st) == {st[i] : i \in 1 .. Len(st)}

\* What Update goes on with, which is at the bottom of the stack, since only the game
\* loop calls Update.
Updating(f) == f.at \in {"update", "cut", "delete"}
Bottom(st) == \A i \in 1 .. Len(st) : Updating(st[i]) => i = Len(st)

\* A client in the loop has a socket, and a client that lost a packet was made before.
InLoop ==
  /\ \A c \in loop : session[c] # 0
  /\ \A c \in vanished : state[c] # "NEW_CREATE"
  /\ NothingVanishes

\* A signal that is noted has had no victim yet, but while Update is disconnecting it.
Signals ==
  /\ SignalsShared
  /\ errorSignal > 0 /\ (\A f \in Frames(stack) : f.at # "update") => victims < raised

\* The beginning of a packet of a client that was not replaced comes from the socket of
\* the loop over its bytes, and from that of the client as long as it is in the loop.
Streams ==
  /\ Bottom(stack)
  /\ \A c \in Clients : state[c] = "NEW_CREATE" =>
       /\ session[c] = 0 /\ data[c] = 0
       /\ \A f \in Frames(stack) : Updating(f) => f.c # c
  /\ \A c \in loop \ replaced : session[c] # 0 /\ data[c] \in {0, session[c]}
  /\ \A f \in Frames(stack) : Updating(f) /\ f.c \notin replaced =>
       /\ f.at = "update" => session[f.c] = 0
       /\ f.at # "update" => data[f.c] \in {0, f.s} /\ (f.c \in loop => f.s = session[f.c])
  /\ Unmixed

\* A socket is the client's for which it was opened, by a call that returned at once.
Owned ==
  /\ \A c, d \in Clients : session[c] = session[d] /\ session[c] # 0 => c = d
  /\ \A c \in Clients : session[c] <= connects
  /\ \A f \in Frames(stack) : f.at = "connect" =>
       f.n \in 1 .. connects /\ \A c \in Clients : session[c] # f.n
  /\ \A t \in threads :
       /\ t.s <= connects /\ t.call \in 1 .. connects
       /\ \A c \in Clients : session[c] = t.call => t.s = t.call /\ t.c = c
       /\ \A c \in Clients : session[c] = t.s /\ t.s # 0 => t.c = c

\* While the thread of a call waits for the answer to its socket, there is none.
Answers ==
  /\ \A s \in Sockets : s > connects => answer[s] = "none"
  /\ \A t \in threads :
       t.s # 0 /\ t.s = t.call /\ session[t.c] = t.s /\ t.s \notin late => answer[t.s] = "none"
  /\ StateTruthful

IInv == TypeOK /\ InLoop /\ Signals /\ Streams /\ Owned /\ Answers

-----------------------------------------------------------------------------
(* The stack.                                                               *)

\* A frame that is pushed, and what is below it.
LEMMA Pushed ==
  ASSUME NEW S, NEW f \in S, NEW st \in Seq(S)
  PROVE  /\ <<f>> \o st \in Seq(S) /\ Len(<<f>> \o st) = Len(st) + 1
         /\ (<<f>> \o st)[1] = f /\ \A i \in 1 .. Len(st) : (<<f>> \o st)[i + 1] = st[i]
         /\ \A i \in 2 .. Len(st) + 1 : (<<f>> \o st)[i] = st[i - 1]
OBVIOUS

\* Two frames that are pushed.
LEMMA PushedTwo ==
  ASSUME NEW S, NEW f \in S, NEW g \in S, NEW st \in Seq(S)
  PROVE  /\ <<f, g>> \o st \in Seq(S) /\ Len(<<f, g>> \o st) = Len(st) + 2
         /\ (<<f, g>> \o st)[1] = f /\ (<<f, g>> \o st)[2] = g
         /\ \A i \in 3 .. Len(st) + 2 : (<<f, g>> \o st)[i] = st[i - 2]
OBVIOUS

\* A frame that is popped, and what is left.
LEMMA Popped ==
  ASSUME NEW S, NEW st \in Seq(S), st # <<>>
  PROVE  /\ Head(st) = st[1] /\ st[1] \in S /\ Len(st) >= 1
         /\ Tail(st) \in Seq(S) /\ Len(Tail(st)) = Len(st) - 1
         /\ \A i \in 1 .. Len(Tail(st)) : Tail(st)[i] = st[i + 1]
OBVIOUS

\* What that is for the set of frames and for the one of Update.
LEMMA FramesEmpty == Frames(<<>>) = {} /\ Bottom(<<>>)
BY DEF Frames, Bottom

LEMMA FramesPushed ==
  ASSUME NEW S, NEW f \in S, NEW st \in Seq(S)
  PROVE  /\ Push(f, st) \in Seq(S)
         /\ Frames(Push(f, st)) = {f} \cup Frames(st)
         /\ st = <<>> \/ (Bottom(st) /\ ~ Updating(f)) => Bottom(Push(f, st))
<1> DEFINE new == Push(f, st)
<1>1. /\ Len(new) = Len(st) + 1 /\ Len(st) \in Nat /\ new[1] = f
      /\ \A i \in 2 .. Len(st) + 1 : new[i] = st[i - 1]
      /\ \A i \in 1 .. Len(st) : new[i + 1] = st[i]
  BY Pushed DEF Push
<1> HIDE DEF new
<1>2. Frames(new) \subseteq {f} \cup Frames(st)
  <2> SUFFICES ASSUME NEW i \in 1 .. Len(new) PROVE new[i] \in {f} \cup Frames(st)
    BY DEF Frames
  <2>1. CASE i = 1
    BY <1>1, <2>1
  <2>2. CASE i # 1
    BY <1>1, <2>2 DEF Frames
  <2> QED BY <2>1, <2>2
<1>3. {f} \cup Frames(st) \subseteq Frames(new)
  <2>1. f \in Frames(new)
    <3>1. f = new[1] /\ 1 \in 1 .. Len(new)
      BY <1>1
    <3> QED BY <3>1 DEF Frames
  <2>2. ASSUME NEW i \in 1 .. Len(st) PROVE st[i] \in Frames(new)
    BY <1>1 DEF Frames
  <2> QED BY <2>1, <2>2 DEF Frames
<1>4. st = <<>> \/ (Bottom(st) /\ ~ Updating(f)) => Bottom(new)
  <2> SUFFICES ASSUME st = <<>> \/ (Bottom(st) /\ ~ Updating(f)),
                      NEW i \in 1 .. Len(new), Updating(new[i])
               PROVE  i = Len(new)
    BY DEF Bottom
  <2>1. CASE i = 1
    BY <1>1, <2>1
  <2>2. CASE i # 1
    BY <1>1, <2>2 DEF Bottom
  <2> QED BY <2>1, <2>2
<1>5. new \in Seq(S)
  BY Pushed DEF Push, new
<1> QED BY <1>2, <1>3, <1>4, <1>5 DEF new

LEMMA FramesOne ==
  ASSUME NEW S, NEW f \in S
  PROVE  Push(f, <<>>) = <<f>> /\ <<f>> \in Seq(S) /\ Frames(<<f>>) = {f} /\ Bottom(<<f>>)
<1>1. Push(f, <<>>) = <<f>>
  BY DEF Push
<1>2. Len(<<f>>) = 1 /\ <<f>>[1] = f /\ <<f>> \in Seq(S) /\ 1 .. 1 = {1}
  OBVIOUS
<1>3. Frames(<<f>>) = {f}
  BY <1>2 DEF Frames
<1> QED BY <1>1, <1>2, <1>3 DEF Bottom

LEMMA FramesPopped ==
  ASSUME NEW S, NEW st \in Seq(S), st # <<>>
  PROVE  /\ Frames(st) = {Head(st)} \cup Frames(Tail(st))
         /\ Bottom(st) => Bottom(Tail(st)) /\ (Updating(Head(st)) => Tail(st) = <<>>)
<1>1. Head(st) \in S /\ Tail(st) \in Seq(S) /\ st = Push(Head(st), Tail(st))
  BY DEF Push
<1>2. Frames(st) = {Head(st)} \cup Frames(Tail(st))
  BY <1>1, FramesPushed
<1>3. Bottom(st) => Bottom(Tail(st))
  BY Popped DEF Bottom
<1>4. Bottom(st) /\ Updating(Head(st)) => Tail(st) = <<>>
  <2>1. Bottom(st) /\ Updating(Head(st)) => Len(Tail(st)) = 0
    BY Popped DEF Bottom
  <2>2. \A q \in Seq(S) : Len(q) = 0 => q = <<>>
    OBVIOUS
  <2> QED BY <1>1, <2>1, <2>2
<1> QED BY <1>2, <1>3, <1>4

LEMMA FrameTypes ==
  ASSUME NEW c \in Clients, NEW n \in Nat, NEW s \in 0 .. MaxConnects
  PROVE  /\ \A at \in {"connect", "update", "delete"} : Frame(at, c, n, s) \in FrameType
         /\ n # 0 => Frame("cut", c, n, s) \in FrameType
BY DEF Frame, FrameType

LEMMA HandlersType == Handlers \in FrameType
BY DEF FrameType

-----------------------------------------------------------------------------
(* Type correctness.                                                        *)

LEMMA LoopingType ==
  ASSUME NEW c \in Clients, NEW n \in Nat, NEW s \in 0 .. MaxConnects, NEW b \in Seq(FrameType)
  PROVE  Looping(c, n, s, b) \in Seq(FrameType)
BY FrameTypes, Pushed DEF Looping

LEMMA RecvType ==
  ASSUME TypeOK, NEW c \in Clients, NEW b \in Seq(FrameType), Recv(c, session[c], b)
  PROVE  stack' \in Seq(FrameType) /\ wire' \in [Sockets -> Nat]
<1>1. CASE stack' = b /\ UNCHANGED wire
  BY <1>1 DEF TypeOK
<1>2. ASSUME NEW n \in 1 .. MaxHalves, session[c] # 0, n <= wire[session[c]],
             wire' = [wire EXCEPT ![session[c]] = @ - n],
             stack' = Looping(c, n, session[c], b)
      PROVE  stack' \in Seq(FrameType) /\ wire' \in [Sockets -> Nat]
  <2>1. session[c] \in Sockets /\ n \in Nat
    BY <1>2 DEF TypeOK, Sockets
  <2>2. wire' \in [Sockets -> Nat]
    BY <1>2, <2>1 DEF TypeOK
  <2> QED BY <1>2, <2>1, <2>2, LoopingType DEF TypeOK
<1> QED BY <1>1, <1>2 DEF Recv

LEMMA TypeInit == Init => TypeOK
BY TcpClientAssumption DEF Init, TypeOK, Sockets

LEMMA TypeConnect ==
  ASSUME TypeOK, NEW c \in Clients, Connect(c)
  PROVE  TypeOK'
<1> USE DEF TypeOK
<1>1. connects + 1 \in 1 .. MaxConnects
  BY TcpClientAssumption DEF Connect
<1>2. CASE ConnectOpened(c, connects + 1)
  BY <1>1, <1>2 DEF Connect, ConnectOpened, Started, Made
<1>3. CASE ConnectFailed(c, connects + 1)
  <2> 0 \in 0 .. MaxConnects /\ connects + 1 \in Nat
    BY <1>1, TcpClientAssumption
  <2>1. stack' \in Seq(FrameType)
    <3>1. Frame("connect", c, connects + 1, 0) \in FrameType
      BY FrameTypes
    <3> QED BY <1>3, <3>1, HandlersType, PushedTwo DEF ConnectFailed
  <2>2. state' \in [Clients -> {"NEW_CREATE", "CONNECTED", "CONNECT_ERROR", "DISCONNECTED"}]
    BY <1>3 DEF ConnectFailed
  <2>3. session' \in [Clients -> 0 .. MaxConnects]
    BY <1>1, <1>3 DEF ConnectFailed
  <2> QED BY SMTT(60), <1>1, <1>3, <2>1, <2>2, <2>3 DEF Connect, ConnectFailed
<1> QED BY <1>2, <1>3 DEF Connect

LEMMA TypeSend ==
  ASSUME TypeOK, NEW c \in Clients, Send(c)
  PROVE  TypeOK'
<1> USE DEF TypeOK
<1>1. <<Handlers>> \o stack \in Seq(FrameType)
  BY HandlersType, Pushed
<1>2. CASE SendRefused(c)
  BY <1>1, <1>2, TcpClientAssumption DEF Send, SendRefused, OnDisconnect, Shutdown
<1>3. CASE SendNowhere(c)
  BY <1>3 DEF Send, SendNowhere
<1>4. CASE SendFails(c)
  BY <1>1, <1>4, TcpClientAssumption DEF Send, SendFails, OnDisconnect, Shutdown
<1> QED BY <1>2, <1>3, <1>4 DEF Send

LEMMA TypeUpdate ==
  ASSUME TypeOK, NEW c \in Clients, Update(c)
  PROVE  TypeOK'
<1> USE DEF TypeOK
<1>1. CASE errorSignal > 0 /\ OnDisconnect(c, <<Frame("update", c, 0, 0)>>) /\ victims' = victims + 1
           /\ UNCHANGED wire
  <2>1. Frame("update", c, 0, 0) \in FrameType
    BY FrameTypes, TcpClientAssumption
  <2>2. <<Handlers>> \o <<Frame("update", c, 0, 0)>> \in Seq(FrameType)
    BY <2>1, HandlersType, Pushed
  <2> QED BY <1>1, <2>2, TcpClientAssumption DEF Update, OnDisconnect, Shutdown
<1>2. CASE Recv(c, session[c], <<>>) /\ UNCHANGED <<state, session, loop, victims>>
  BY <1>2, RecvType DEF Update
<1> QED BY <1>1, <1>2 DEF Update

\* The functions that go on with their frame.
LEMMA TypeGoesOn ==
  ASSUME TypeOK, ConnectGoesOn \/ UpdateGoesOn \/ Cut \/ Delete \/ HandlersReturn
  PROVE  TypeOK'
<1> USE DEF TypeOK
<1>1. stack # <<>> /\ Head(stack) \in FrameType /\ Tail(stack) \in Seq(FrameType)
  <2>1. stack # <<>>
    BY DEF ConnectGoesOn, UpdateGoesOn, Cut, Delete, HandlersReturn, Top
  <2> QED BY <2>1, Popped
<1>2. Head(stack).at # "handlers" =>
        /\ Head(stack).c \in Clients /\ Head(stack).n \in Nat /\ Head(stack).s \in 0 .. MaxConnects
        /\ session[Head(stack).c] \in 0 .. MaxConnects
  BY <1>1 DEF FrameType, Handlers
<1>3. CASE ConnectGoesOn
  BY <1>1, <1>2, <1>3 DEF ConnectGoesOn, Started, Top, ghosts
<1>4. CASE UpdateGoesOn
  BY <1>1, <1>2, <1>4, RecvType DEF UpdateGoesOn, Forgotten, Top, ghosts
<1>5. CASE Cut
  <2> DEFINE f == Head(stack)
  <2>1. f.c \in Clients /\ f.n \in Nat \ {0} /\ f.s \in 0 .. MaxConnects
    BY <1>1, <1>5 DEF Cut, Top, FrameType, Handlers
  <2>2. f.n - 1 \in Nat
    BY <2>1
  <2>3. CASE Begun(f)
    <3>1. Looping(f.c, f.n - 1, f.s, Tail(stack)) \in Seq(FrameType)
      BY <1>1, <2>1, <2>2, LoopingType
    <3>2. data' \in [Clients -> 0 .. MaxConnects] /\ stack' \in Seq(FrameType)
      BY <2>1, <2>3, <3>1 DEF Begun
    <3> QED BY <1>5, <2>3, <3>2 DEF Cut, Begun
  <2>4. CASE Completed(f)
    <3>1. Frame("delete", f.c, f.n - 1, f.s) \in FrameType
      BY <2>1, <2>2, FrameTypes
    <3>2. stack' \in Seq(FrameType)
      BY <1>1, <2>4, <3>1, HandlersType, PushedTwo DEF Completed
    <3>3. data[f.c] \in 0 .. MaxConnects
      BY <2>1
    <3>4. delivered' \subseteq [c : Clients, first : 0 .. MaxConnects, second : 0 .. MaxConnects]
      BY <2>1, <2>4, <3>3 DEF Completed
    <3> QED BY <1>5, <2>4, <3>2, <3>4 DEF Cut, Completed
  <2> QED BY <1>5, <2>3, <2>4 DEF Cut
<1>6. CASE Delete
  <2>1. Head(stack).at # "handlers"
    BY <1>6 DEF Delete, Top
  <2>2. Looping(Head(stack).c, Head(stack).n, Head(stack).s, Tail(stack)) \in Seq(FrameType)
    BY <1>1, <1>2, <2>1, LoopingType
  <2>3. stack' \in Seq(FrameType) /\ data' \in [Clients -> 0 .. MaxConnects]
    BY <1>2, <1>6, <2>1, <2>2, TcpClientAssumption DEF Delete
  <2> QED BY <1>6, <2>3 DEF Delete, ghosts
<1>7. CASE HandlersReturn
  BY <1>1, <1>7 DEF HandlersReturn, ghosts
<1> QED BY <1>3, <1>4, <1>5, <1>6, <1>7

LEMMA TypeReturns ==
  ASSUME TypeOK, ConnectReturns
  PROVE  TypeOK'
<1> USE DEF TypeOK
<1>1. PICK t \in threads, ok \in BOOLEAN :
        /\ ok => t.s # 0
        /\ threads' = threads \ {t}
        /\ state' = Written(t, ok)
        /\ answer' = [s \in Sockets |-> IF s # t.s \/ answer[s] = "ok" THEN answer[s]
                                         ELSE IF ok THEN "ok" ELSE "refused"]
        /\ late' = IF session[t.c] \in {0, t.call} THEN late ELSE late \cup {session[t.c]}
        /\ UNCHANGED <<session, loop, data, errorSignal, stack, wire,
                       connects, replaced, raised, victims, vanished, delivered>>
  BY Zenon DEF ConnectReturns
<1>2. t.c \in Clients /\ session[t.c] \in 0 .. MaxConnects
  OBVIOUS
<1>3. late' \subseteq Sockets
  <2>1. session[t.c] # 0 => session[t.c] \in Sockets
    BY <1>2, TcpClientAssumption DEF Sockets
  <2> QED BY <1>1, <2>1
<1>4. state' \in [Clients -> {"NEW_CREATE", "CONNECTED", "CONNECT_ERROR", "DISCONNECTED"}]
  BY <1>1, <1>2 DEF Written
<1>5. answer' \in [Sockets -> {"none", "ok", "refused"}]
  BY <1>1
<1> QED BY <1>1, <1>3, <1>4, <1>5

LEMMA TypeStep == TypeOK /\ [Next]_vars => TypeOK'
<1> SUFFICES ASSUME TypeOK, [Next]_vars PROVE TypeOK'
  OBVIOUS
<1>1. ASSUME NEW c \in Clients, ScriptShutdown(c) PROVE TypeOK'
  BY <1>1, TcpClientAssumption DEF ScriptShutdown, Shutdown, TypeOK, ghosts
<1>2. ASSUME NEW s \in Sockets, PeerSends(s) PROVE TypeOK'
  BY <1>2 DEF PeerSends, TypeOK, ghosts, program
<1>3. CASE UNCHANGED vars
  BY <1>3 DEF vars, program, ghosts, TypeOK
<1> QED BY <1>1, <1>2, <1>3, TypeConnect, TypeSend, TypeUpdate, TypeGoesOn, TypeReturns DEF Next

\* The types of the clients, their connect threads and the stack, for any number of
\* clients, calls, signals and frames.
THEOREM TypeCorrect == Spec => []TypeOK
BY TypeInit, TypeStep, PTL DEF Spec

-----------------------------------------------------------------------------
(* What each action does to the frames.                                     *)

LEMMA FramesOfDisconnect ==
  ASSUME TypeOK, NEW c \in Clients, NEW b \in Seq(FrameType), OnDisconnect(c, b)
  PROVE  Frames(stack') = {Handlers} \cup Frames(b) /\ (Bottom(b) => Bottom(stack'))
<1>1. stack' = Push(Handlers, b)
  BY DEF OnDisconnect, Push
<1> QED BY <1>1, HandlersType, FramesPushed DEF Updating, Handlers

LEMMA FramesOfConnect ==
  ASSUME TypeOK, NEW c \in Clients, connects < MaxConnects, ConnectFailed(c, connects + 1)
  PROVE  /\ Frames(stack') = {Handlers, Frame("connect", c, connects + 1, 0)} \cup Frames(stack)
         /\ Bottom(stack) => Bottom(stack')
<1> DEFINE f == Frame("connect", c, connects + 1, 0)
<1>1. connects + 1 \in Nat /\ 0 \in 0 .. MaxConnects /\ stack \in Seq(FrameType)
  BY TcpClientAssumption DEF TypeOK
<1>2. f \in FrameType /\ ~ Updating(f)
  BY <1>1, FrameTypes DEF Updating, Frame
<1>3. Handlers \in FrameType /\ ~ Updating(Handlers)
  BY HandlersType DEF Updating, Handlers
<1> HIDE DEF f
<1>4. Push(f, stack) \in Seq(FrameType)
  BY <1>1, <1>2, FramesPushed
<1>5. stack' = Push(Handlers, Push(f, stack))
  BY <1>1, <1>2, <1>3 DEF ConnectFailed, Push, f
<1>6. Frames(Push(f, stack)) = {f} \cup Frames(stack)
      /\ (Bottom(stack) => Bottom(Push(f, stack)))
  BY <1>1, <1>2, FramesPushed
<1>7. Frames(Push(Handlers, Push(f, stack))) = {Handlers} \cup Frames(Push(f, stack))
      /\ (Bottom(Push(f, stack)) => Bottom(Push(Handlers, Push(f, stack))))
  BY <1>3, <1>4, FramesPushed
<1> QED BY <1>5, <1>6, <1>7 DEF f

\* The loop over the bytes begins, or goes on, at the bottom of the stack.
LEMMA FramesOfLooping ==
  ASSUME NEW c \in Clients, NEW n \in Nat, NEW s \in 0 .. MaxConnects, NEW b \in Seq(FrameType)
  PROVE  /\ Frames(b) \subseteq Frames(Looping(c, n, s, b))
         /\ Frames(Looping(c, n, s, b)) \subseteq {Frame("cut", c, n, s)} \cup Frames(b)
         /\ b = <<>> => Bottom(Looping(c, n, s, b))
<1>1. CASE n = 0
  BY <1>1, FramesEmpty DEF Looping
<1>2. CASE n # 0
  <2>1. Frame("cut", c, n, s) \in FrameType
    BY <1>2, FrameTypes
  <2>2. Looping(c, n, s, b) = Push(Frame("cut", c, n, s), b)
    BY <1>2 DEF Looping, Push
  <2> QED BY <2>1, <2>2, FramesPushed
<1> QED BY <1>1, <1>2

LEMMA FramesOfRecv ==
  ASSUME TypeOK, NEW c \in Clients, NEW b \in Seq(FrameType), Recv(c, session[c], b)
  PROVE  /\ \A f \in Frames(stack') :
              \/ f \in Frames(b)
              \/ session[c] # 0 /\ f.at = "cut" /\ f.c = c /\ f.s = session[c]
         /\ b = <<>> => Bottom(stack')
<1>1. CASE stack' = b
  BY <1>1, FramesEmpty
<1>2. ASSUME NEW n \in 1 .. MaxHalves, session[c] # 0, stack' = Looping(c, n, session[c], b)
      PROVE  /\ \A f \in Frames(stack') :
                  \/ f \in Frames(b)
                  \/ session[c] # 0 /\ f.at = "cut" /\ f.c = c /\ f.s = session[c]
             /\ b = <<>> => Bottom(stack')
  <2>1. session[c] \in 0 .. MaxConnects /\ n \in Nat
    BY DEF TypeOK
  <2>2. /\ Frames(stack') \subseteq {Frame("cut", c, n, session[c])} \cup Frames(b)
        /\ b = <<>> => Bottom(stack')
    BY <1>2, <2>1, FramesOfLooping
  <2> QED BY <1>2, <2>2 DEF Frame
<1> QED BY <1>1, <1>2 DEF Recv

LEMMA FramesOfRecvAtBottom ==
  ASSUME TypeOK, NEW c \in Clients, Recv(c, session[c], <<>>)
  PROVE  /\ \A f \in Frames(stack') : session[c] # 0 /\ f.at = "cut" /\ f.c = c /\ f.s = session[c]
         /\ Bottom(stack')
<1>1. <<>> \in Seq(FrameType)
  OBVIOUS
<1> QED BY <1>1, FramesOfRecv, FramesEmpty

\* A function that goes on with its frame: the others are below it.
LEMMA FramesOfTop ==
  ASSUME TypeOK, NEW at, Top(at)
  PROVE  /\ Head(stack) \in FrameType /\ Head(stack).at = at
         /\ Tail(stack) \in Seq(FrameType)
         /\ Frames(stack) = {Head(stack)} \cup Frames(Tail(stack))
         /\ Bottom(stack) => Bottom(Tail(stack)) /\ (Updating(Head(stack)) => Tail(stack) = <<>>)
         /\ at # "handlers" =>
              /\ Head(stack).c \in Clients /\ Head(stack).n \in Nat
              /\ Head(stack).s \in 0 .. MaxConnects
         /\ at = "cut" => Head(stack).n - 1 \in Nat
<1>1. stack \in Seq(FrameType) /\ stack # <<>> /\ Head(stack).at = at
  BY DEF Top, TypeOK
<1>2. Head(stack) \in FrameType
  BY <1>1
<1>3. /\ at # "handlers" =>
              /\ Head(stack).c \in Clients /\ Head(stack).n \in Nat
              /\ Head(stack).s \in 0 .. MaxConnects
      /\ at = "cut" => Head(stack).n - 1 \in Nat
  BY <1>1, <1>2 DEF FrameType, Handlers
<1> QED BY <1>1, <1>2, <1>3, FramesPopped

\* A packet is complete: its handlers run above the frame that deletes it.
LEMMA FramesOfCompleted ==
  ASSUME TypeOK, NEW f, f.c \in Clients, f.n - 1 \in Nat, f.s \in 0 .. MaxConnects,
         Completed(f), Tail(stack) \in Seq(FrameType)
  PROVE  /\ Frames(stack') = {Handlers, Frame("delete", f.c, f.n - 1, f.s)} \cup Frames(Tail(stack))
         /\ Tail(stack) = <<>> => Bottom(stack')
<1> DEFINE g == Frame("delete", f.c, f.n - 1, f.s)
           b == Tail(stack)
<1>1. g \in FrameType
  BY FrameTypes
<1>2. Handlers \in FrameType /\ ~ Updating(Handlers)
  BY HandlersType DEF Updating, Handlers
<1>3. stack' = <<Handlers, g>> \o b
  BY DEF Completed
<1> HIDE DEF g
<1>4. stack' = Push(Handlers, Push(g, b))
  BY <1>1, <1>2, <1>3 DEF Push
<1> HIDE DEF b
<1>5. /\ Push(g, b) \in Seq(FrameType) /\ Frames(Push(g, b)) = {g} \cup Frames(b)
      /\ b = <<>> => Bottom(Push(g, b))
  BY <1>1, FramesPushed DEF b
<1>6. /\ Frames(Push(Handlers, Push(g, b))) = {Handlers} \cup Frames(Push(g, b))
      /\ Bottom(Push(g, b)) => Bottom(Push(Handlers, Push(g, b)))
  BY <1>2, <1>5, FramesPushed
<1> QED BY <1>4, <1>5, <1>6 DEF g, b

-----------------------------------------------------------------------------
(* Who is in the game loop.                                                 *)

LEMMA InLoopInit == Init => InLoop
BY DEF Init, InLoop, NothingVanishes

LEMMA InLoopConnect ==
  ASSUME TypeOK, InLoop, NEW c \in Clients, Connect(c)
  PROVE  InLoop'
<1> USE DEF InLoop, NothingVanishes
<1>1. connects + 1 # 0 /\ vanished' = vanished
  BY DEF Connect, TypeOK
<1>2. CASE ConnectOpened(c, connects + 1)
  <2>1. session' = [session EXCEPT ![c] = connects + 1] /\ state' = [state EXCEPT ![c] = "CONNECTED"]
    BY <1>2 DEF ConnectOpened, Started
  <2>2. \A d \in loop' : d \in loop \/ (d = c /\ state[c] = "NEW_CREATE")
    BY <1>2 DEF ConnectOpened, Made
  <2> QED BY <1>1, <2>1, <2>2 DEF TypeOK
<1>3. CASE ConnectFailed(c, connects + 1)
  BY <1>1, <1>3 DEF ConnectFailed, TypeOK
<1> QED BY <1>2, <1>3 DEF Connect

LEMMA InLoopShutdown ==
  ASSUME TypeOK, InLoop, NEW c \in Clients, Shutdown(c), vanished' = vanished,
         state' = state \/ state' = [state EXCEPT ![c] = "DISCONNECTED"]
  PROVE  InLoop'
BY DEF InLoop, NothingVanishes, Shutdown, TypeOK

LEMMA InLoopSame ==
  ASSUME TypeOK, InLoop, session' = session, loop' = loop, vanished' = vanished,
         \A c \in Clients : state[c] # "NEW_CREATE" => state'[c] # "NEW_CREATE"
  PROVE  InLoop'
BY DEF InLoop, NothingVanishes, TypeOK

LEMMA InLoopStep == TypeOK /\ InLoop /\ [Next]_vars => InLoop'
<1> SUFFICES ASSUME TypeOK, InLoop, [Next]_vars PROVE InLoop'
  OBVIOUS
<1>1. ASSUME NEW c \in Clients, ScriptShutdown(c) PROVE InLoop'
  BY <1>1, InLoopShutdown DEF ScriptShutdown, ghosts
<1>2. ASSUME NEW c \in Clients, Send(c) PROVE InLoop'
  <2>1. CASE SendRefused(c) \/ SendFails(c)
    BY <2>1, InLoopShutdown DEF SendRefused, SendFails, OnDisconnect
  <2>2. CASE SendNowhere(c)
    <3>1. c \notin loop
      BY <2>2 DEF SendNowhere, InLoop
    <3> QED BY <2>2, <3>1 DEF SendNowhere, InLoop, NothingVanishes
  <2> QED BY <1>2, <2>1, <2>2 DEF Send
<1>3. ASSUME NEW c \in Clients, Update(c) PROVE InLoop'
  <2>1. vanished' = vanished
    BY <1>3 DEF Update
  <2>2. CASE OnDisconnect(c, <<Frame("update", c, 0, 0)>>)
    BY <2>1, <2>2, InLoopShutdown DEF OnDisconnect
  <2>3. CASE UNCHANGED <<state, session, loop>>
    BY <2>1, <2>3, InLoopSame
  <2> QED BY <1>3, <2>2, <2>3 DEF Update
<1>4. CASE ConnectGoesOn
  <2>1. Head(stack).c \in Clients
    BY <1>4, FramesOfTop DEF ConnectGoesOn
  <2>2. \A c \in Clients : state[c] # "NEW_CREATE" => state'[c] # "NEW_CREATE"
    BY <1>4, <2>1 DEF ConnectGoesOn, Started, TypeOK
  <2> QED BY <1>4, <2>2, InLoopSame DEF ConnectGoesOn, ghosts
<1>5. CASE ConnectReturns
  <2>1. \A c \in Clients : state[c] # "NEW_CREATE" => state'[c] # "NEW_CREATE"
    BY <1>5 DEF ConnectReturns, Written, TypeOK
  <2> QED BY <1>5, <2>1, InLoopSame DEF ConnectReturns
<1>6. CASE UpdateGoesOn \/ Cut \/ Delete \/ HandlersReturn \/ (\E s \in Sockets : PeerSends(s)) \/ UNCHANGED vars
  <2>1. UNCHANGED <<state, session, loop, vanished>>
    BY <1>6 DEF UpdateGoesOn, Cut, Delete, HandlersReturn, PeerSends, vars, program, ghosts
  <2> QED BY <2>1, InLoopSame
<1> QED BY <1>1, <1>2, <1>3, <1>4, <1>5, <1>6, InLoopConnect DEF Next

-----------------------------------------------------------------------------
(* What became of the signals.                                              *)

LEMMA SignalsInit == Init => Signals
BY FramesEmpty DEF Init, Signals, SignalsShared

\* The frames of Update that were on the stack are, or no signal is noted.
LEMMA SignalsSame ==
  ASSUME Signals, UNCHANGED <<victims, raised>>,
         errorSignal' = 0
           \/ (errorSignal' = errorSignal
              /\ \A f \in Frames(stack) : f.at = "update" => f \in Frames(stack'))
  PROVE  Signals'
BY DEF Signals, SignalsShared

LEMMA SignalsStep == TypeOK /\ Signals /\ [Next]_vars => Signals'
<1> SUFFICES ASSUME TypeOK, Signals, [Next]_vars PROVE Signals'
  OBVIOUS
<1>0. stack \in Seq(FrameType) /\ victims \in Nat /\ raised \in Nat /\ errorSignal \in Nat
  BY DEF TypeOK
<1>1. ASSUME NEW c \in Clients, Connect(c) PROVE Signals'
  <2>1. UNCHANGED <<victims, raised, errorSignal>>
    BY <1>1 DEF Connect
  <2>2. CASE UNCHANGED stack
    BY <2>1, <2>2, SignalsSame
  <2>3. CASE ConnectFailed(c, connects + 1)
    BY <1>1, <2>1, <2>3, FramesOfConnect, SignalsSame DEF Connect
  <2> QED BY <1>1, <2>2, <2>3 DEF Connect, ConnectOpened
<1>2. ASSUME NEW c \in Clients, Send(c) PROVE Signals'
  <2>1. victims' = victims
    BY <1>2 DEF Send
  <2>2. CASE UNCHANGED <<errorSignal, raised, stack>>
    BY <2>1, <2>2, SignalsSame
  <2>3. CASE UNCHANGED <<errorSignal, raised>> /\ OnDisconnect(c, stack)
    BY <1>0, <2>1, <2>3, FramesOfDisconnect, SignalsSame
  <2>4. CASE raised' = raised + 1
    BY <1>0, <2>1, <2>4 DEF Signals, SignalsShared
  <2> QED BY <1>2, <2>2, <2>3, <2>4 DEF Send, SendRefused, SendNowhere, SendFails
<1>3. ASSUME NEW c \in Clients, Update(c) PROVE Signals'
  <2>1. CASE /\ errorSignal > 0 /\ OnDisconnect(c, <<Frame("update", c, 0, 0)>>)
             /\ victims' = victims + 1
    <3>1. victims < raised
      BY <1>3, <2>1, FramesEmpty DEF Update, Signals
    <3>2. Frame("update", c, 0, 0) \in FrameType
      BY FrameTypes, TcpClientAssumption
    <3> DEFINE b == <<Frame("update", c, 0, 0)>>
    <3>5. b \in Seq(FrameType) /\ Frames(b) = {Frame("update", c, 0, 0)} /\ OnDisconnect(c, b)
      BY <2>1, <3>2, FramesOne
    <3> HIDE DEF b
    <3>3. Frame("update", c, 0, 0) \in Frames(stack')
      BY <3>5, FramesOfDisconnect
    <3>4. Frame("update", c, 0, 0).at = "update"
      BY DEF Frame
    <3> QED BY <1>0, <1>3, <2>1, <3>1, <3>3, <3>4 DEF Update, Signals, SignalsShared
  <2>2. CASE errorSignal = 0 /\ victims' = victims
    BY <1>3, <2>2, SignalsSame DEF Update
  <2> QED BY <1>3, <2>1, <2>2 DEF Update
<1>4. CASE UpdateGoesOn
  BY <1>4, SignalsSame DEF UpdateGoesOn, Forgotten, ghosts
<1>5. CASE ConnectGoesOn \/ HandlersReturn
  <2>1. Head(stack).at # "update" /\ Frames(stack) = {Head(stack)} \cup Frames(Tail(stack))
    BY <1>5, FramesOfTop DEF ConnectGoesOn, HandlersReturn
  <2> QED BY <1>5, <2>1, SignalsSame DEF ConnectGoesOn, HandlersReturn, ghosts
<1>6. ASSUME NEW s \in Sockets, PeerSends(s) PROVE Signals'
  BY <1>6, SignalsSame DEF PeerSends, program, ghosts
<1>7. CASE ConnectReturns \/ (\E c \in Clients : ScriptShutdown(c)) \/ UNCHANGED vars
  BY <1>7, SignalsSame DEF ConnectReturns, ScriptShutdown, vars, program, ghosts
<1>8. CASE Cut \/ Delete
  <2> DEFINE f == Head(stack)
  <2>1. /\ f.at # "update" /\ Frames(stack) = {f} \cup Frames(Tail(stack))
        /\ Tail(stack) \in Seq(FrameType)
        /\ f.c \in Clients /\ f.n \in Nat /\ f.s \in 0 .. MaxConnects
        /\ Cut => f.n - 1 \in Nat
    BY <1>8, FramesOfTop DEF Cut, Delete
  <2> HIDE DEF f
  <2>2. CASE Cut /\ Begun(f)
    BY <2>1, <2>2, FramesOfLooping, SignalsSame DEF Cut, Begun
  <2>3. CASE Cut /\ Completed(f)
    BY <2>1, <2>3, FramesOfCompleted, SignalsSame DEF Cut
  <2>4. CASE Delete
    BY <2>1, <2>4, FramesOfLooping, SignalsSame DEF Delete, ghosts, f
  <2> QED BY <1>8, <2>2, <2>3, <2>4 DEF Cut, f
<1> QED BY <1>1, <1>2, <1>3, <1>4, <1>5, <1>6, <1>7, <1>8 DEF Next

-----------------------------------------------------------------------------
(* Where the halves of packets come from.                                   *)

LEMMA StreamsInit == Init => Streams
BY FramesEmpty DEF Init, Streams, Unmixed

\* The frames of Update stay as they are, and so does what they are about.
LEMMA StreamsSame ==
  ASSUME TypeOK, Streams, Bottom(stack'),
         UNCHANGED <<session, loop, data, replaced, delivered>>,
         \A f \in Frames(stack') : Updating(f) => f \in Frames(stack),
         \A c \in Clients : state'[c] = "NEW_CREATE" => state[c] = "NEW_CREATE"
  PROVE  Streams'
BY DEF Streams, Unmixed, TypeOK

\* A client that is shut down, or had no socket, is not in the loop, or was replaced.
LEMMA StreamsShutdown ==
  ASSUME TypeOK, Streams, NEW c \in Clients, Shutdown(c), Bottom(stack'),
         UNCHANGED <<data, replaced, delivered>>,
         state' = state \/ state' = [state EXCEPT ![c] = "DISCONNECTED"],
         \A f \in Frames(stack') : Updating(f) =>
           f \in Frames(stack) \/ (f.at = "update" /\ f.c = c /\ state[c] # "NEW_CREATE")
  PROVE  Streams'
<1>1. session' = [session EXCEPT ![c] = 0] /\ session \in [Clients -> 0 .. MaxConnects]
      /\ state \in [Clients -> {"NEW_CREATE", "CONNECTED", "CONNECT_ERROR", "DISCONNECTED"}]
  BY DEF Shutdown, TypeOK
<1>2. loop' \subseteq loop /\ loop \subseteq Clients /\ (c \in loop' => c \in replaced)
  BY DEF Shutdown, Streams, TypeOK
<1>3. Unmixed'
  BY DEF Streams, Unmixed
<1>4. \A d \in Clients : state'[d] = "NEW_CREATE" =>
        /\ session'[d] = 0 /\ data'[d] = 0
        /\ \A f \in Frames(stack') : Updating(f) => f.c # d
  BY <1>1 DEF Streams
<1>5. \A d \in loop' \ replaced' : session'[d] # 0 /\ data'[d] \in {0, session'[d]}
  BY <1>1, <1>2 DEF Streams
<1>6. \A f \in Frames(stack') : Updating(f) /\ f.c \notin replaced' =>
        /\ f.at = "update" => session'[f.c] = 0
        /\ f.at # "update" => data'[f.c] \in {0, f.s} /\ (f.c \in loop' => f.s = session'[f.c])
  <2> SUFFICES ASSUME NEW f \in Frames(stack'), Updating(f), f.c \notin replaced'
               PROVE  /\ f.at = "update" => session'[f.c] = 0
                      /\ f.at # "update" => data'[f.c] \in {0, f.s} /\ (f.c \in loop' => f.s = session'[f.c])
    OBVIOUS
  <2>1. CASE f.at = "update" /\ f.c = c
    BY <1>1, <2>1
  <2>2. CASE f \in Frames(stack)
    BY <1>1, <1>2, <2>2 DEF Streams
  <2> QED BY <2>1, <2>2
<1> QED BY <1>3, <1>4, <1>5, <1>6 DEF Streams

LEMMA StreamsConnect ==
  ASSUME TypeOK, Streams, NEW c \in Clients, Connect(c)
  PROVE  Streams'
<1>1. /\ UNCHANGED <<data, delivered>> /\ connects + 1 # 0 /\ connects < MaxConnects
      /\ session \in [Clients -> 0 .. MaxConnects] /\ loop \subseteq Clients
      /\ state \in [Clients -> {"NEW_CREATE", "CONNECTED", "CONNECT_ERROR", "DISCONNECTED"}]
  BY DEF Connect, TypeOK
<1>2. CASE ConnectFailed(c, connects + 1)
  <2>1. /\ session' = [session EXCEPT ![c] = 0] /\ loop' = loop \ {c} /\ replaced' = replaced
        /\ state' = [state EXCEPT ![c] = "DISCONNECTED"]
    BY <1>2 DEF ConnectFailed
  <2>2. Bottom(stack') /\ \A f \in Frames(stack') : Updating(f) => f \in Frames(stack)
    BY <1>1, <1>2, FramesOfConnect DEF Updating, Handlers, Frame, Streams
  <2> QED BY <1>1, <2>1, <2>2 DEF Streams, Unmixed
<1>3. CASE ConnectOpened(c, connects + 1)
  <2>1. /\ session' = [session EXCEPT ![c] = connects + 1] /\ stack' = stack
        /\ state' = [state EXCEPT ![c] = "CONNECTED"]
        /\ loop' = IF state[c] = "NEW_CREATE" THEN loop \cup {c} ELSE loop
    BY <1>3 DEF ConnectOpened, Started, Made
  <2>2. /\ replaced \subseteq replaced' /\ replaced' \subseteq replaced \cup {c}
        /\ c \notin replaced' =>
             session[c] = 0 /\ \A f \in Frames(stack) : f.at = "update" => f.c # c
    BY <1>3 DEF ConnectOpened, AmidUpdate, Frames
  <2>3. \A d \in Clients : state'[d] = "NEW_CREATE" =>
          /\ session'[d] = 0 /\ data'[d] = 0
          /\ \A f \in Frames(stack') : Updating(f) => f.c # d
    BY <1>1, <2>1 DEF Streams
  <2>4. c \in loop' \ replaced' => state[c] = "NEW_CREATE"
    BY <1>1, <2>1, <2>2 DEF Streams
  <2>5. \A d \in loop' \ replaced' : session'[d] # 0 /\ data'[d] \in {0, session'[d]}
    BY <1>1, <2>1, <2>2, <2>4 DEF Streams
  <2>6. \A f \in Frames(stack') : Updating(f) /\ f.c \notin replaced' =>
          /\ f.at = "update" => session'[f.c] = 0
          /\ f.at # "update" => data'[f.c] \in {0, f.s} /\ (f.c \in loop' => f.s = session'[f.c])
    <3> SUFFICES ASSUME NEW f \in Frames(stack), Updating(f), f.c \notin replaced'
                 PROVE  /\ f.at = "update" => session'[f.c] = 0
                        /\ f.at # "update" => data'[f.c] \in {0, f.s} /\ (f.c \in loop' => f.s = session'[f.c])
      BY <2>1
    <3>1. CASE f.c = c
      BY <1>1, <2>1, <2>2, <2>4, <3>1 DEF Streams
    <3>2. CASE f.c # c
      BY <1>1, <2>1, <2>2, <3>2 DEF Streams
    <3> QED BY <3>1, <3>2
  <2>7. Bottom(stack') /\ Unmixed'
    BY <1>1, <2>1, <2>2 DEF Streams, Unmixed
  <2> QED BY <2>3, <2>5, <2>6, <2>7 DEF Streams
<1> QED BY <1>2, <1>3 DEF Connect

\* The loop over bytes of c received from s, which is all that is left of an Update.
LEMMA StreamsLoop ==
  ASSUME TypeOK, Streams, NEW c \in Clients, NEW s, Bottom(stack'), Unmixed',
         UNCHANGED <<state, session, loop, replaced>>,
         \A f \in Frames(stack') : Updating(f) => f.at # "update" /\ f.c = c /\ f.s = s,
         Frames(stack') = {} \/ state[c] # "NEW_CREATE",
         \A d \in Clients : data'[d] # data[d] => d = c /\ data'[d] \in {0, s} /\ state[c] # "NEW_CREATE",
         c \notin replaced => data[c] \in {0, s} /\ (c \in loop => s = session[c])
  PROVE  Streams'
<1>1. data \in [Clients -> 0 .. MaxConnects] /\ loop \subseteq Clients
  BY DEF TypeOK
<1>2. \A d \in Clients : d # c => data'[d] = data[d]
  BY <1>1
<1>3. c \notin replaced => data'[c] \in {0, s} /\ (c \in loop => s = session[c])
  BY <1>1
<1>4. \A d \in Clients : state'[d] = "NEW_CREATE" =>
        /\ session'[d] = 0 /\ data'[d] = 0
        /\ \A f \in Frames(stack') : Updating(f) => f.c # d
  BY <1>1 DEF Streams
<1>5. \A d \in loop' \ replaced' : session'[d] # 0 /\ data'[d] \in {0, session'[d]}
  BY <1>1, <1>2, <1>3 DEF Streams
<1>6. \A f \in Frames(stack') : Updating(f) /\ f.c \notin replaced' =>
        /\ f.at = "update" => session'[f.c] = 0
        /\ f.at # "update" => data'[f.c] \in {0, f.s} /\ (f.c \in loop' => f.s = session'[f.c])
  BY <1>3
<1> QED BY <1>4, <1>5, <1>6 DEF Streams

LEMMA StreamsUpdate ==
  ASSUME TypeOK, Streams, NEW c \in Clients, Update(c)
  PROVE  Streams'
<1>1. /\ UNCHANGED <<data, delivered, replaced>> /\ Frames(stack) = {}
      /\ state[c] # "NEW_CREATE" /\ c \in loop
  BY FramesEmpty DEF Update
<1>2. CASE OnDisconnect(c, <<Frame("update", c, 0, 0)>>)
  <2> DEFINE b == <<Frame("update", c, 0, 0)>>
  <2>1. Frame("update", c, 0, 0) \in FrameType
    BY FrameTypes, TcpClientAssumption
  <2>2. b \in Seq(FrameType) /\ Frames(b) = {Frame("update", c, 0, 0)} /\ Bottom(b) /\ OnDisconnect(c, b)
    BY <1>2, <2>1, FramesOne
  <2> HIDE DEF b
  <2>3. Frames(stack') = {Handlers, Frame("update", c, 0, 0)} /\ Bottom(stack')
    BY <2>2, FramesOfDisconnect
  <2>4. \A f \in Frames(stack') : Updating(f) => f.at = "update" /\ f.c = c
    BY <2>3 DEF Updating, Handlers, Frame
  <2> QED BY <1>1, <1>2, <2>3, <2>4, StreamsShutdown DEF OnDisconnect
<1>3. CASE Recv(c, session[c], <<>>) /\ UNCHANGED <<state, session, loop>>
  <2>1. Bottom(stack') /\ \A f \in Frames(stack') : f.at = "cut" /\ f.c = c /\ f.s = session[c]
    BY <1>3, FramesOfRecvAtBottom
  <2>2. Unmixed'
    BY <1>1 DEF Streams, Unmixed
  <2>3. c \notin replaced => data[c] \in {0, session[c]}
    BY <1>1 DEF Streams
  <2> QED BY <1>1, <1>3, <2>1, <2>2, <2>3, StreamsLoop
<1> QED BY <1>2, <1>3 DEF Update

\* The frames with which Update, or the loop over its bytes, goes on.
LEMMA StreamsGoesOn ==
  ASSUME TypeOK, Streams, UpdateGoesOn \/ Cut \/ Delete
  PROVE  Streams'
<1> DEFINE f == Head(stack)
<1>1. /\ f \in Frames(stack) /\ Updating(f) /\ Tail(stack) = <<>>
      /\ f.c \in Clients /\ f.n \in Nat /\ f.s \in 0 .. MaxConnects
      /\ UpdateGoesOn => f.at = "update"
      /\ Cut \/ Delete => f.at # "update"
      /\ Cut => f.n - 1 \in Nat
  BY FramesOfTop DEF UpdateGoesOn, Cut, Delete, Streams, Updating
<1>2. <<>> \in Seq(FrameType)
  OBVIOUS
<1> DEFINE c == f.c
<1>3. /\ UNCHANGED <<state, session, loop, replaced>> /\ state[c] # "NEW_CREATE"
  BY <1>1 DEF UpdateGoesOn, Cut, Delete, ghosts, Streams
<1>4. c \notin replaced =>
        /\ f.at = "update" => session[c] = 0
        /\ f.at # "update" => data[c] \in {0, f.s} /\ (c \in loop => f.s = session[c])
  BY <1>1 DEF Streams
<1>5. data \in [Clients -> 0 .. MaxConnects] /\ Unmixed
  BY DEF TypeOK, Streams
<1>0. c \in Clients
  BY <1>1
<1> HIDE DEF c
<1>6. CASE UpdateGoesOn
  <2>1. Recv(c, session[c], <<>>) /\ UNCHANGED <<data, delivered>>
    BY <1>1, <1>6 DEF UpdateGoesOn, ghosts, c
  <2>2. Bottom(stack') /\ \A g \in Frames(stack') : g.at = "cut" /\ g.c = c /\ g.s = session[c] /\ session[c] # 0
    BY <1>0, <2>1, FramesOfRecvAtBottom
  <2>3. Unmixed'
    BY <1>3, <1>5, <2>1 DEF Unmixed
  <2>4. CASE c \in replaced
    BY <1>0, <1>3, <2>1, <2>2, <2>3, <2>4, StreamsLoop
  <2>5. CASE c \notin replaced
    <3>1. Frames(stack') = {}
      BY <1>1, <1>4, <1>6, <2>2, <2>5
    <3> QED BY <1>3, <2>1, <2>2, <2>3, <3>1, StreamsSame DEF UpdateGoesOn
  <2> QED BY <2>4, <2>5
<1>7. CASE Cut /\ Begun(f)
  <2>1. data' = [data EXCEPT ![c] = f.s] /\ delivered' = delivered /\ stack' = Looping(c, f.n - 1, f.s, <<>>)
    BY <1>1, <1>7 DEF Begun, c
  <2>2. Bottom(stack') /\ Frames(stack') \subseteq {Frame("cut", c, f.n - 1, f.s)}
    BY <1>1, <1>2, <1>7, <2>1, FramesOfLooping, FramesEmpty DEF c
  <2>4. \A g \in Frames(stack') : g.at # "update" /\ g.c = c /\ g.s = f.s
    BY <2>2 DEF Frame
  <2>5. \A d \in Clients : data'[d] # data[d] => d = c /\ data'[d] \in {0, f.s}
    BY <1>5, <2>1
  <2>3. Unmixed'
    BY <1>3, <1>5, <2>1 DEF Unmixed
  <2> HIDE DEF f
  <2> QED BY <1>1, <1>3, <1>4, <1>7, <2>2, <2>3, <2>4, <2>5, StreamsLoop DEF c
<1>8. CASE Cut /\ Completed(f)
  <2>1. /\ data' = data /\ data[c] # 0
        /\ delivered' = {[c |-> c, first |-> data[c], second |-> f.s]}
    BY <1>8 DEF Completed, c
  <2>2. /\ Frames(stack') = {Handlers, Frame("delete", c, f.n - 1, f.s)}
        /\ Bottom(stack')
    BY <1>1, <1>2, <1>8, FramesOfCompleted, FramesEmpty DEF c
  <2>3. \A g \in Frames(stack') : Updating(g) => g.at # "update" /\ g.c = c /\ g.s = f.s
    BY <2>2 DEF Frame, Handlers, Updating
  <2>4. Unmixed'
    BY <1>1, <1>3, <1>4, <1>8, <2>1 DEF Unmixed
  <2> HIDE DEF f
  <2> QED BY <1>1, <1>3, <1>4, <1>8, <2>1, <2>2, <2>3, <2>4, StreamsLoop DEF c
<1>9. CASE Delete
  <2>1. data' = [data EXCEPT ![c] = 0] /\ delivered' = delivered /\ stack' = Looping(c, f.n, f.s, <<>>)
    BY <1>1, <1>9 DEF Delete, ghosts, c
  <2>2. Bottom(stack') /\ Frames(stack') \subseteq {Frame("cut", c, f.n, f.s)}
    BY <1>1, <1>2, <2>1, FramesOfLooping, FramesEmpty DEF c
  <2>4. \A g \in Frames(stack') : g.at # "update" /\ g.c = c /\ g.s = f.s
    BY <2>2 DEF Frame
  <2>5. \A d \in Clients : data'[d] # data[d] => d = c /\ data'[d] \in {0, f.s}
    BY <1>5, <2>1
  <2>3. Unmixed'
    BY <1>3, <1>5, <2>1 DEF Unmixed
  <2> HIDE DEF f
  <2> QED BY <1>1, <1>3, <1>4, <1>9, <2>2, <2>3, <2>4, <2>5, StreamsLoop DEF c
<1> QED BY <1>6, <1>7, <1>8, <1>9 DEF Cut

LEMMA StreamsStep == TypeOK /\ Streams /\ [Next]_vars => Streams'
<1> SUFFICES ASSUME TypeOK, Streams, [Next]_vars PROVE Streams'
  OBVIOUS
<1>0. stack \in Seq(FrameType) /\ Bottom(stack)
  BY DEF TypeOK, Streams
<1>1. ASSUME NEW c \in Clients, ScriptShutdown(c) PROVE Streams'
  BY <1>0, <1>1, StreamsShutdown DEF ScriptShutdown, ghosts
<1>2. ASSUME NEW c \in Clients, Send(c) PROVE Streams'
  <2>1. UNCHANGED <<data, replaced, delivered>>
    BY <1>2 DEF Send
  <2>2. CASE OnDisconnect(c, stack)
    <3>1. Bottom(stack') /\ \A f \in Frames(stack') : Updating(f) => f \in Frames(stack)
      BY <1>0, <2>2, FramesOfDisconnect DEF Updating, Handlers
    <3> QED BY <2>1, <2>2, <3>1, StreamsShutdown DEF OnDisconnect
  <2>3. CASE UNCHANGED <<state, session, loop, stack>>
    BY <1>0, <2>1, <2>3, StreamsSame
  <2> QED BY <1>2, <2>2, <2>3 DEF Send, SendRefused, SendNowhere, SendFails
<1>3. CASE ConnectGoesOn \/ HandlersReturn
  <2>1. Bottom(stack') /\ \A f \in Frames(stack') : f \in Frames(stack)
    BY <1>0, <1>3, FramesOfTop DEF ConnectGoesOn, HandlersReturn
  <2>2. ConnectGoesOn => Head(stack).c \in Clients
    BY FramesOfTop DEF ConnectGoesOn
  <2>3. \A c \in Clients : state'[c] = "NEW_CREATE" => state[c] = "NEW_CREATE"
    BY <1>3, <2>2 DEF ConnectGoesOn, HandlersReturn, Started, TypeOK
  <2> QED BY <1>3, <2>1, <2>3, StreamsSame DEF ConnectGoesOn, HandlersReturn, ghosts
<1>4. CASE ConnectReturns
  <2>1. \A c \in Clients : state'[c] = "NEW_CREATE" => state[c] = "NEW_CREATE"
    BY <1>4 DEF ConnectReturns, Written, TypeOK
  <2> QED BY <1>0, <1>4, <2>1, StreamsSame DEF ConnectReturns
<1>5. CASE (\E s \in Sockets : PeerSends(s)) \/ UNCHANGED vars
  BY <1>0, <1>5, StreamsSame DEF PeerSends, vars, program, ghosts
<1> QED BY <1>1, <1>2, <1>3, <1>4, <1>5, StreamsConnect, StreamsUpdate, StreamsGoesOn DEF Next

-----------------------------------------------------------------------------
(* Whose a socket is, and what the connect threads can still write.         *)

LEMMA OwnedInit == Init => Owned
BY FramesEmpty DEF Init, Owned

\* Nothing is opened and no thread started.
LEMMA OwnedSame ==
  ASSUME TypeOK, Owned, UNCHANGED connects, threads' \subseteq threads,
         \A c \in Clients : session'[c] \in {0, session[c]},
         \A f \in Frames(stack') : f.at = "connect" => f \in Frames(stack)
  PROVE  Owned'
<1>1. session \in [Clients -> 0 .. MaxConnects] /\ connects \in Nat
  BY TcpClientAssumption DEF TypeOK
<1>2. \A f \in Frames(stack') : f.at = "connect" =>
        f.n \in 1 .. connects' /\ \A c \in Clients : session'[c] # f.n
  BY <1>1 DEF Owned
<1>3. \A t \in threads' :
        /\ t.s <= connects' /\ t.call \in 1 .. connects'
        /\ \A c \in Clients : session'[c] = t.call => t.s = t.call /\ t.c = c
        /\ \A c \in Clients : session'[c] = t.s /\ t.s # 0 => t.c = c
  BY <1>1 DEF Owned
<1> QED BY <1>1, <1>2, <1>3 DEF Owned

LEMMA OwnedConnect ==
  ASSUME TypeOK, Owned, NEW c \in Clients, Connect(c)
  PROVE  Owned'
<1> DEFINE call == connects + 1
<1>1. /\ session \in [Clients -> 0 .. MaxConnects] /\ connects \in Nat /\ connects < MaxConnects
      /\ connects' = call /\ threads \subseteq [c : Clients, s : 0 .. MaxConnects, call : Nat]
  BY DEF TypeOK, Connect
<1>2. CASE ConnectOpened(c, call)
  <2>1. /\ session' = [session EXCEPT ![c] = call] /\ stack' = stack
        /\ threads' = threads \cup {[c |-> c, s |-> call, call |-> call]}
    BY <1>2 DEF ConnectOpened, Started
  <2>2. \A f \in Frames(stack') : f.at = "connect" =>
          f.n \in 1 .. connects' /\ \A d \in Clients : session'[d] # f.n
    BY <1>1, <2>1 DEF Owned
  <2>3. \A t \in threads' :
          /\ t.s <= connects' /\ t.call \in 1 .. connects'
          /\ \A d \in Clients : session'[d] = t.call => t.s = t.call /\ t.c = d
          /\ \A d \in Clients : session'[d] = t.s /\ t.s # 0 => t.c = d
    <3> SUFFICES ASSUME NEW t \in threads'
                 PROVE  /\ t.s <= connects' /\ t.call \in 1 .. connects'
                        /\ \A d \in Clients : session'[d] = t.call => t.s = t.call /\ t.c = d
                        /\ \A d \in Clients : session'[d] = t.s /\ t.s # 0 => t.c = d
      OBVIOUS
    <3>1. CASE t \in threads
      BY <1>1, <2>1, <3>1 DEF Owned
    <3>2. CASE t = [c |-> c, s |-> call, call |-> call]
      BY <1>1, <2>1, <3>2 DEF Owned
    <3> QED BY <2>1, <3>1, <3>2
  <2>4. /\ \A d, e \in Clients : session'[d] = session'[e] /\ session'[d] # 0 => d = e
        /\ \A d \in Clients : session'[d] <= connects'
    BY <1>1, <2>1 DEF Owned
  <2> QED BY <2>2, <2>3, <2>4 DEF Owned
<1>3. CASE ConnectFailed(c, call)
  <2>1. session' = [session EXCEPT ![c] = 0] /\ threads' = threads
    BY <1>3 DEF ConnectFailed
  <2>2. \A f \in Frames(stack') : f.at = "connect" => f \in Frames(stack) \/ f.n = call
    BY <1>1, <1>3, FramesOfConnect DEF Frame, Handlers
  <2>3. \A f \in Frames(stack') : f.at = "connect" =>
          f.n \in 1 .. connects' /\ \A d \in Clients : session'[d] # f.n
    BY <1>1, <2>1, <2>2 DEF Owned
  <2>4. \A t \in threads' :
          /\ t.s <= connects' /\ t.call \in 1 .. connects'
          /\ \A d \in Clients : session'[d] = t.call => t.s = t.call /\ t.c = d
          /\ \A d \in Clients : session'[d] = t.s /\ t.s # 0 => t.c = d
    BY <1>1, <2>1 DEF Owned
  <2>5. /\ \A d, e \in Clients : session'[d] = session'[e] /\ session'[d] # 0 => d = e
        /\ \A d \in Clients : session'[d] <= connects'
    BY <1>1, <2>1 DEF Owned
  <2> QED BY <2>3, <2>4, <2>5 DEF Owned
<1> QED BY <1>2, <1>3 DEF Connect

LEMMA OwnedConnectGoesOn ==
  ASSUME TypeOK, Owned, ConnectGoesOn
  PROVE  Owned'
<1> DEFINE f == Head(stack)
           new == [c |-> f.c, s |-> session[f.c], call |-> f.n]
<1>1. /\ f \in Frames(stack) /\ f.at = "connect" /\ f.c \in Clients
      /\ Frames(stack') \subseteq Frames(stack)
  BY FramesOfTop DEF ConnectGoesOn
<1>2. UNCHANGED <<session, connects>> /\ threads' = threads \cup {new}
  BY DEF ConnectGoesOn, Started, ghosts
<1>3. session \in [Clients -> 0 .. MaxConnects]
  BY DEF TypeOK
<1>4. /\ f.n \in 1 .. connects /\ \A c \in Clients : session[c] # f.n
      /\ session[f.c] <= connects
      /\ \A c \in Clients : session[c] = session[f.c] /\ session[c] # 0 => c = f.c
  BY <1>1 DEF Owned
<1> HIDE DEF f
<1>5. /\ new.s <= connects' /\ new.call \in 1 .. connects'
      /\ \A c \in Clients : session'[c] = new.call => new.s = new.call /\ new.c = c
      /\ \A c \in Clients : session'[c] = new.s /\ new.s # 0 => new.c = c
  BY <1>2, <1>4
<1> HIDE DEF new
<1>6. \A t \in threads' :
        /\ t.s <= connects' /\ t.call \in 1 .. connects'
        /\ \A c \in Clients : session'[c] = t.call => t.s = t.call /\ t.c = c
        /\ \A c \in Clients : session'[c] = t.s /\ t.s # 0 => t.c = c
  BY <1>2, <1>5 DEF Owned
<1> QED BY <1>1, <1>2, <1>6 DEF Owned

\* The other actions push no frame of connect.
LEMMA ConnectFrames ==
  ASSUME TypeOK,
         \/ \E c \in Clients : ScriptShutdown(c) \/ Send(c) \/ Update(c)
         \/ ConnectReturns \/ UpdateGoesOn \/ Cut \/ Delete \/ HandlersReturn
         \/ \E s \in Sockets : PeerSends(s)
         \/ UNCHANGED vars
  PROVE  /\ UNCHANGED connects /\ threads' \subseteq threads
         /\ \A c \in Clients : session'[c] \in {0, session[c]}
         /\ \A f \in Frames(stack') : f.at = "connect" => f \in Frames(stack)
<1>0. stack \in Seq(FrameType) /\ session \in [Clients -> 0 .. MaxConnects] /\ <<>> \in Seq(FrameType)
  BY DEF TypeOK
<1> DEFINE Goal == /\ UNCHANGED connects /\ threads' \subseteq threads
                   /\ \A c \in Clients : session'[c] \in {0, session[c]}
                   /\ \A f \in Frames(stack') : f.at = "connect" => f \in Frames(stack)
<1>1. ASSUME NEW c \in Clients, ScriptShutdown(c) PROVE Goal
  BY <1>0, <1>1 DEF ScriptShutdown, Shutdown, ghosts
<1>2. ASSUME NEW c \in Clients, Send(c) PROVE Goal
  <2>1. UNCHANGED <<connects, threads>>
    BY <1>2 DEF Send
  <2>2. CASE OnDisconnect(c, stack)
    <3>1. Frames(stack') = {Handlers} \cup Frames(stack)
      BY <1>0, <2>2, FramesOfDisconnect
    <3> QED BY <1>0, <2>1, <2>2, <3>1 DEF OnDisconnect, Shutdown, Handlers
  <2>3. CASE UNCHANGED <<session, stack>>
    BY <2>1, <2>3
  <2> QED BY <1>2, <2>2, <2>3 DEF Send, SendRefused, SendNowhere, SendFails
<1>3. ASSUME NEW c \in Clients, Update(c) PROVE Goal
  <2>1. UNCHANGED <<connects, threads>>
    BY <1>3 DEF Update
  <2>2. CASE OnDisconnect(c, <<Frame("update", c, 0, 0)>>)
    <3> DEFINE b == <<Frame("update", c, 0, 0)>>
    <3>1. Frame("update", c, 0, 0) \in FrameType
      BY FrameTypes, TcpClientAssumption
    <3>2. b \in Seq(FrameType) /\ Frames(b) = {Frame("update", c, 0, 0)} /\ OnDisconnect(c, b)
      BY <2>2, <3>1, FramesOne
    <3> HIDE DEF b
    <3>3. Frames(stack') = {Handlers, Frame("update", c, 0, 0)}
      BY <3>2, FramesOfDisconnect
    <3> QED BY SMTT(30), <1>0, <2>1, <2>2, <3>3 DEF OnDisconnect, Shutdown, Handlers, Frame
  <2>3. CASE Recv(c, session[c], <<>>) /\ UNCHANGED session
    BY <2>1, <2>3, FramesOfRecvAtBottom
  <2> QED BY <1>3, <2>2, <2>3 DEF Update
<1>4. CASE ConnectReturns
  BY <1>4 DEF ConnectReturns
<1>5. CASE HandlersReturn \/ (\E s \in Sockets : PeerSends(s)) \/ UNCHANGED vars
  <2>1. UNCHANGED <<connects, threads, session>>
    BY <1>5 DEF HandlersReturn, PeerSends, vars, program, ghosts
  <2>2. CASE HandlersReturn
    BY <2>1, <2>2, FramesOfTop DEF HandlersReturn
  <2>3. CASE UNCHANGED stack
    BY <2>1, <2>3
  <2> QED BY <1>5, <2>2, <2>3 DEF PeerSends, vars, program
<1>6. CASE UpdateGoesOn \/ Cut \/ Delete
  <2>1. UNCHANGED <<connects, threads, session>>
    BY <1>6 DEF UpdateGoesOn, Cut, Delete, ghosts
  <2> DEFINE f == Head(stack)
  <2>2. /\ Frames(Tail(stack)) \subseteq Frames(stack) /\ Tail(stack) \in Seq(FrameType)
        /\ f.c \in Clients /\ f.n \in Nat /\ f.s \in 0 .. MaxConnects
        /\ Cut => f.n - 1 \in Nat
    BY <1>6, FramesOfTop DEF UpdateGoesOn, Cut, Delete
  <2>3. CASE UpdateGoesOn
    <3>1. Recv(f.c, session[f.c], Tail(stack))
      BY <2>3 DEF UpdateGoesOn
    <3>2. \A g \in Frames(stack') : g \in Frames(Tail(stack)) \/ g.at = "cut"
      BY <2>2, <3>1, FramesOfRecv
    <3> QED BY <2>1, <2>2, <3>2
  <2> HIDE DEF f
  <2>4. CASE Cut /\ Completed(f)
    <3>1. Frames(stack') = {Handlers, Frame("delete", f.c, f.n - 1, f.s)} \cup Frames(Tail(stack))
      BY <2>2, <2>4, FramesOfCompleted
    <3> QED BY <2>1, <2>2, <3>1 DEF Handlers, Frame
  <2>5. CASE Cut /\ Begun(f)
    <3>1. Frames(stack') \subseteq {Frame("cut", f.c, f.n - 1, f.s)} \cup Frames(Tail(stack))
      BY <2>2, <2>5, FramesOfLooping DEF Begun
    <3> QED BY <2>1, <2>2, <3>1 DEF Frame
  <2>6. CASE Delete
    <3>1. Frames(stack') \subseteq {Frame("cut", f.c, f.n, f.s)} \cup Frames(Tail(stack))
      BY <2>2, <2>6, FramesOfLooping DEF Delete, f
    <3> QED BY <2>1, <2>2, <3>1 DEF Frame
  <2> QED BY <1>6, <2>3, <2>4, <2>5, <2>6 DEF Cut, f
<1> QED BY <1>1, <1>2, <1>3, <1>4, <1>5, <1>6

LEMMA OwnedStep == TypeOK /\ Owned /\ [Next]_vars => Owned'
<1> SUFFICES ASSUME TypeOK, Owned, [Next]_vars PROVE Owned'
  OBVIOUS
<1>1. CASE \/ \E c \in Clients : ScriptShutdown(c) \/ Send(c) \/ Update(c)
           \/ ConnectReturns \/ UpdateGoesOn \/ Cut \/ Delete \/ HandlersReturn
           \/ \E s \in Sockets : PeerSends(s)
           \/ UNCHANGED vars
  BY <1>1, ConnectFrames, OwnedSame
<1> QED BY <1>1, OwnedConnect, OwnedConnectGoesOn DEF Next

LEMMA AnswersInit == Init => Answers
BY DEF Init, Answers, StateTruthful

\* The states of the clients with a socket are as they were, and nobody answers.
LEMMA AnswersSame ==
  ASSUME TypeOK, Answers, UNCHANGED <<connects, answer, late, threads>>,
         \A c \in Clients : session'[c] = 0 \/ (session'[c] = session[c] /\ state'[c] = state[c])
  PROVE  Answers'
<1>1. \A s \in Sockets : s > connects' => answer'[s] = "none"
  BY DEF Answers
<1>2. \A t \in threads' :
        t.s # 0 /\ t.s = t.call /\ session'[t.c] = t.s /\ t.s \notin late' => answer'[t.s] = "none"
  BY DEF Answers, TypeOK
<1>3. StateTruthful'
  BY DEF Answers, StateTruthful
<1> QED BY <1>1, <1>2, <1>3 DEF Answers

LEMMA AnswersConnect ==
  ASSUME TypeOK, Owned, Answers, NEW c \in Clients, Connect(c)
  PROVE  Answers'
<1> DEFINE call == connects + 1
<1>0. connects \in Nat /\ connects < MaxConnects /\ MaxConnects \in Nat
  BY TcpClientAssumption DEF TypeOK, Connect
<1>1. /\ session \in [Clients -> 0 .. MaxConnects] /\ connects \in Nat /\ connects < MaxConnects
      /\ threads \subseteq [c : Clients, s : 0 .. MaxConnects, call : Nat]
      /\ state \in [Clients -> {"NEW_CREATE", "CONNECTED", "CONNECT_ERROR", "DISCONNECTED"}]
      /\ connects' = call /\ UNCHANGED <<answer, late>> /\ call \in Sockets
  BY <1>0 DEF TypeOK, Connect, Sockets
<1>2. \A s \in Sockets : s > connects' => answer'[s] = "none"
  BY <1>1 DEF Answers, Sockets
<1>3. CASE ConnectOpened(c, call)
  <2>1. /\ session' = [session EXCEPT ![c] = call] /\ state' = [state EXCEPT ![c] = "CONNECTED"]
        /\ threads' = threads \cup {[c |-> c, s |-> call, call |-> call]}
    BY <1>3 DEF ConnectOpened, Started
  <2>2. answer[call] = "none"
    BY <1>1 DEF Answers
  <2>3. \A t \in threads' :
          t.s # 0 /\ t.s = t.call /\ session'[t.c] = t.s /\ t.s \notin late' => answer'[t.s] = "none"
    <3> SUFFICES ASSUME NEW t \in threads', t.s # 0, t.s = t.call, session'[t.c] = t.s, t.s \notin late'
                 PROVE  answer'[t.s] = "none"
      OBVIOUS
    <3>1. CASE t \in threads
      <4>1. t.s <= connects /\ t.c \in Clients
        BY <1>1, <3>1 DEF Owned
      <4>2. session[t.c] = t.s
        BY <1>1, <2>1, <4>1
      <4> QED BY <1>1, <3>1, <4>2 DEF Answers
    <3>2. CASE t = [c |-> c, s |-> call, call |-> call]
      BY <1>1, <2>2, <3>2
    <3> QED BY <2>1, <3>1, <3>2
  <2>4. StateTruthful'
    <3> SUFFICES ASSUME NEW d \in Clients, session'[d] \notin late' \cup {0},
                        \A t \in threads' : t.s # session'[d]
                 PROVE  /\ state'[d] = "CONNECTED" => answer'[session'[d]] = "ok"
                        /\ state'[d] = "CONNECT_ERROR" => answer'[session'[d]] = "refused"
      BY DEF StateTruthful
    <3>0. [c |-> c, s |-> call, call |-> call] \in threads'
      BY <2>1
    <3>1. d # c
      BY <1>1, <2>1, <3>0
    <3> QED BY <1>1, <2>1, <3>1 DEF Answers, StateTruthful
  <2> QED BY <1>2, <2>3, <2>4 DEF Answers
<1>4. CASE ConnectFailed(c, call)
  <2>1. /\ session' = [session EXCEPT ![c] = 0] /\ state' = [state EXCEPT ![c] = "DISCONNECTED"]
        /\ threads' = threads
    BY <1>4 DEF ConnectFailed
  <2>2. StateTruthful'
    BY <1>1, <2>1 DEF Answers, StateTruthful
  <2>3. \A t \in threads' :
          t.s # 0 /\ t.s = t.call /\ session'[t.c] = t.s /\ t.s \notin late' => answer'[t.s] = "none"
    BY <1>1, <2>1 DEF Answers
  <2> QED BY <1>2, <2>2, <2>3 DEF Answers
<1> QED BY <1>3, <1>4 DEF Connect

LEMMA AnswersConnectGoesOn ==
  ASSUME TypeOK, Owned, Answers, ConnectGoesOn
  PROVE  Answers'
<1> DEFINE f == Head(stack)
           new == [c |-> f.c, s |-> session[f.c], call |-> f.n]
<1>1. f \in Frames(stack) /\ f.at = "connect" /\ f.c \in Clients
  BY FramesOfTop DEF ConnectGoesOn
<1>2. /\ UNCHANGED <<session, connects, answer, late>> /\ threads' = threads \cup {new}
      /\ state' = [state EXCEPT ![f.c] = "CONNECTED"]
  BY DEF ConnectGoesOn, Started, ghosts
<1>3. session[f.c] # f.n
  BY <1>1 DEF Owned
<1> HIDE DEF f
<1>4. \A s \in Sockets : s > connects' => answer'[s] = "none"
  BY <1>2 DEF Answers
<1>5. \A t \in threads' :
        t.s # 0 /\ t.s = t.call /\ session'[t.c] = t.s /\ t.s \notin late' => answer'[t.s] = "none"
  BY <1>2, <1>3 DEF Answers
<1>6. StateTruthful'
  <2> SUFFICES ASSUME NEW d \in Clients, session[d] \notin late \cup {0},
                      \A t \in threads' : t.s # session[d]
               PROVE  /\ state'[d] = "CONNECTED" => answer[session[d]] = "ok"
                      /\ state'[d] = "CONNECT_ERROR" => answer[session[d]] = "refused"
    BY <1>2 DEF StateTruthful
  <2>1. new \in threads' /\ new.s = session[f.c]
    BY <1>2
  <2>2. d # f.c
    BY <2>1
  <2>3. state'[d] = state[d] /\ \A t \in threads : t.s # session[d]
    BY <1>2, <2>2 DEF TypeOK
  <2> QED BY <2>3 DEF Answers, StateTruthful
<1> QED BY <1>4, <1>5, <1>6 DEF Answers

\* The answer that is written is the one of the client's socket, or that is late.
LEMMA AnswersReturns ==
  ASSUME TypeOK, Owned, Answers, ConnectReturns
  PROVE  Answers'
<1>1. PICK t \in threads, ok \in BOOLEAN :
        /\ ok => t.s # 0
        /\ threads' = threads \ {t}
        /\ state' = Written(t, ok)
        /\ answer' = [s \in Sockets |-> IF s # t.s \/ answer[s] = "ok" THEN answer[s]
                                         ELSE IF ok THEN "ok" ELSE "refused"]
        /\ late' = IF session[t.c] \in {0, t.call} THEN late ELSE late \cup {session[t.c]}
        /\ UNCHANGED <<session, loop, data, errorSignal, stack, wire,
                       connects, replaced, raised, victims, vanished, delivered>>
  BY Zenon DEF ConnectReturns
<1>2. /\ session \in [Clients -> 0 .. MaxConnects] /\ connects \in Nat
      /\ threads \subseteq [c : Clients, s : 0 .. MaxConnects, call : Nat]
      /\ state \in [Clients -> {"NEW_CREATE", "CONNECTED", "CONNECT_ERROR", "DISCONNECTED"}]
      /\ session' = session /\ connects' = connects /\ MaxConnects \in Nat
  BY <1>1, TcpClientAssumption DEF TypeOK
<1>3. /\ t.c \in Clients /\ t.s <= connects /\ t.call \in 1 .. connects
      /\ \A c \in Clients : session[c] = t.call => t.s = t.call /\ t.c = c
      /\ \A c \in Clients : session[c] = t.s /\ t.s # 0 => t.c = c
  BY <1>2 DEF Owned
<1>4. /\ \A s \in Sockets : s # t.s => answer'[s] = answer[s]
      /\ late \subseteq late' /\ (session[t.c] \notin late' => session[t.c] \in {0, t.call})
  BY <1>1
<1>5. \A s \in Sockets : s > connects' => answer'[s] = "none"
  BY <1>2, <1>3, <1>4 DEF Answers, Sockets
<1>6. \A u \in threads' :
        u.s # 0 /\ u.s = u.call /\ session'[u.c] = u.s /\ u.s \notin late' => answer'[u.s] = "none"
  <2> SUFFICES ASSUME NEW u \in threads, u # t, u.s # 0, u.s = u.call, session[u.c] = u.s, u.s \notin late'
               PROVE  answer'[u.s] = "none"
    BY <1>1, <1>2
  <2>1. u.c \in Clients /\ u.s \in Sockets
    BY <1>2 DEF Sockets
  <2>2. u.s # t.s
    <3> SUFFICES ASSUME u.s = t.s PROVE FALSE
      OBVIOUS
    <3>1. t.c = u.c
      BY <1>3, <2>1
    <3>2. t.call = u.s
      BY <1>4, <3>1
    <3>3. t = [c |-> t.c, s |-> t.s, call |-> t.call] /\ u = [c |-> u.c, s |-> u.s, call |-> u.call]
      BY <1>2
    <3>4. t = u
      BY <3>1, <3>2, <3>3
    <3> QED BY <3>4
  <2> QED BY <1>4, <2>1, <2>2 DEF Answers
<1>7. StateTruthful'
  <2> SUFFICES ASSUME NEW c \in Clients, session[c] \notin late' \cup {0},
                      \A u \in threads' : u.s # session[c]
               PROVE  /\ state'[c] = "CONNECTED" => answer'[session[c]] = "ok"
                      /\ state'[c] = "CONNECT_ERROR" => answer'[session[c]] = "refused"
    BY <1>2 DEF StateTruthful
  <2>1. session[c] \in Sockets
    BY <1>2 DEF Sockets
  <2>2. CASE c = t.c
    <3>1. session[c] = t.call /\ t.s = t.call
      BY <1>3, <1>4, <2>2
    <3>2. answer[t.s] = "none"
      BY <1>4, <2>2, <3>1 DEF Answers
    <3>3. answer'[t.s] = IF ok THEN "ok" ELSE "refused"
      BY <1>1, <2>1, <3>1, <3>2
    <3>4. state'[c] = IF ok THEN "CONNECTED" ELSE "CONNECT_ERROR"
      BY <1>1, <1>2, <2>2 DEF Written
    <3> QED BY <3>1, <3>3, <3>4
  <2>3. CASE c # t.c
    <3>1. session[c] # t.s
      BY <1>3, <2>3
    <3>2. answer'[session[c]] = answer[session[c]] /\ state'[c] = state[c]
      BY <1>1, <1>2, <1>4, <2>1, <2>3, <3>1 DEF Written
    <3>3. \A u \in threads : u.s # session[c]
      BY <1>1, <3>1
    <3>4. session[c] \notin late \cup {0}
      BY <1>4
    <3> QED BY <3>2, <3>3, <3>4 DEF Answers, StateTruthful
  <2> QED BY <2>2, <2>3
<1> QED BY <1>5, <1>6, <1>7 DEF Answers

LEMMA AnswersStep == TypeOK /\ Owned /\ Answers /\ [Next]_vars => Answers'
<1> SUFFICES ASSUME TypeOK, Owned, Answers, [Next]_vars PROVE Answers'
  OBVIOUS
<1>0. session \in [Clients -> 0 .. MaxConnects]
  BY DEF TypeOK
<1>1. ASSUME NEW c \in Clients, Shutdown(c), UNCHANGED <<connects, answer, late, threads>>,
             state' = state \/ state' = [state EXCEPT ![c] = "DISCONNECTED"]
      PROVE  Answers'
  BY <1>0, <1>1, AnswersSame DEF Shutdown, TypeOK
<1>2. ASSUME UNCHANGED <<connects, answer, late, threads, session, state>>
      PROVE  Answers'
  BY <1>2, AnswersSame
<1>3. ASSUME NEW c \in Clients, ScriptShutdown(c) PROVE Answers'
  BY <1>1, <1>3 DEF ScriptShutdown, ghosts
<1>4. ASSUME NEW c \in Clients, Send(c) PROVE Answers'
  BY <1>1, <1>2, <1>4 DEF Send, SendRefused, SendNowhere, SendFails, OnDisconnect
<1>5. ASSUME NEW c \in Clients, Update(c) PROVE Answers'
  BY <1>1, <1>2, <1>5 DEF Update, OnDisconnect
<1>6. CASE \/ UpdateGoesOn \/ Cut \/ Delete \/ HandlersReturn
           \/ (\E s \in Sockets : PeerSends(s)) \/ UNCHANGED vars
  BY <1>2, <1>6 DEF UpdateGoesOn, Cut, Delete, HandlersReturn, PeerSends, vars, program, ghosts
<1> QED BY <1>3, <1>4, <1>5, <1>6, AnswersConnect, AnswersConnectGoesOn, AnswersReturns DEF Next

-----------------------------------------------------------------------------
(* The theorems.                                                            *)

\* The parts hold together, for any clients, calls of connect, signals and depth of the
\* stack.
THEOREM Invariance == Spec => []IInv
<1>1. Init => IInv
  BY TypeInit, InLoopInit, SignalsInit, StreamsInit, OwnedInit, AnswersInit DEF IInv
<1>2. IInv /\ [Next]_vars => IInv'
  BY TypeStep, InLoopStep, SignalsStep, StreamsStep, OwnedStep, AnswersStep DEF IInv
<1> QED BY <1>1, <1>2, PTL DEF Spec

\* A client that the loop calls lost no packet silently (tcp::send, tcp::shutdown).
THEOREM NoSilentLoss == Spec => []NothingVanishes
<1>1. IInv => NothingVanishes
  BY DEF IInv, InLoop
<1> QED BY <1>1, Invariance, PTL

\* No more clients are disconnected by Update than signals were raised (handerfun).
THEOREM VictimsBounded == Spec => []SignalsShared
<1>1. IInv => SignalsShared
  BY DEF IInv, Signals
<1> QED BY <1>1, Invariance, PTL

\* The halves of a packet come from one connection, unless the client was connected
\* while it had a socket or amid its Update (tcp::Update, tcp::shutdown).
THEOREM StreamsUnmixed == Spec => []Unmixed
<1>1. IInv => Unmixed
  BY DEF IInv, Streams
<1> QED BY <1>1, Invariance, PTL

\* What the state says of a socket no thread waits for is what the peer said, unless
\* the thread of another call has answered in its time (connectSert).
THEOREM StateTold == Spec => []StateTruthful
<1>1. IInv => StateTruthful
  BY DEF IInv, Answers
<1> QED BY <1>1, Invariance, PTL
=============================================================================

------------------------- MODULE WsControllerProofs -------------------------
(* Type correctness of WsController, the invariants of its tables, and that *)
(* it implements Multiplexer, for every finite set of services and ids, any *)
(* number of channels and any length of the command queue and of the links. *)
EXTENDS WsController, FiniteSetTheorems, TLAPS

TablesOK ==
    /\ upstream \in SUBSET Services
    /\ info \in SUBSET Services
    /\ count \in [Services -> Nat]
    /\ subscribes \in [Ids -> SubscribeInfo]

\* What must be carried from step to step to know that a decrement of
\* subscribe_count stays in Nat: every count is exact and every service of a
\* subscription is connected.
TablesInv == TablesOK /\ CountsMatch /\ OpenIffUsed

IInv == TypeOK /\ CountsMatch /\ OpenIffUsed

\* The users of a service are finitely many, being ids.
LEMMA UsersFinite == \A s : IsFiniteSet(Users(s)) /\ Cardinality(Users(s)) \in Nat
<1>1. TAKE s
<1>2. Users(s) \subseteq Ids
  BY DEF Users
<1>3. IsFiniteSet(Users(s))
  BY <1>2, IdsAssumption, FS_Subset
<1> QED
  BY <1>3, FS_CardinalityType

\* A service has a positive count exactly when it is connected.
LEMMA ConnectedIffCounted ==
  ASSUME TablesInv, NEW s \in Services
  PROVE  (s \in upstream) <=> count[s] # 0
<1>1. count[s] = Cardinality(Users(s))
  BY DEF TablesInv, CountsMatch
<1>2. Cardinality(Users(s)) = 0 <=> Users(s) = {}
  BY UsersFinite, FS_EmptySet
<1> QED
  BY <1>1, <1>2 DEF TablesInv, OpenIffUsed

\* Dropping all the tables keeps their invariant.
LEMMA ClearedTables ==
  ASSUME upstream' = {}, info' = {}, count' = [s \in Services |-> 0],
         subscribes' = [i \in Ids |-> NoSub]
  PROVE  TablesInv'
<1>1. TablesOK'
  BY DEF TablesOK, SubscribeInfo, NoSub
<1>2. \A s : Users(s)' = {}
  BY DEF Users, NoSub
<1>3. CountsMatch'
  BY <1>2, FS_EmptySet DEF CountsMatch
<1>4. OpenIffUsed'
  BY <1>2 DEF OpenIffUsed
<1> QED
  BY <1>1, <1>3, <1>4 DEF TablesInv

\* finish_subscribe keeps the invariant of the tables.
LEMMA FinishTables ==
  ASSUME TablesInv, NEW i \in Ids, NEW ls, FinishSubscribe(i, ls)
  PROVE  TablesInv'
<1> DEFINE mine == subscribes[i].services
<1> USE DEF TablesInv, TablesOK
<1>1. /\ subscribes' = [subscribes EXCEPT ![i] = NoSub]
      /\ count' = [s \in Services |-> IF s \in mine \cap info THEN count[s] - 1 ELSE count[s]]
      /\ info' = info \ LastUse(i)
      /\ upstream' = upstream \ LastUse(i)
  BY DEF FinishSubscribe, Finish
<1>2. mine \subseteq info /\ mine \subseteq Services
  BY DEF OpenIffUsed, Users, SubscribeInfo
<1>3. \A s \in Services : Users(s)' = Users(s) \ {i}
  BY <1>1 DEF Users, NoSub
<1>4. ASSUME NEW s \in Services
      PROVE  /\ count'[s] \in Nat
             /\ count'[s] = Cardinality(Users(s)')
             /\ s \in upstream' <=> Users(s)' # {}
  <2>0. /\ IsFiniteSet(Users(s)) /\ count[s] = Cardinality(Users(s)) /\ count[s] \in Nat
    BY UsersFinite DEF CountsMatch
  <2>1. CASE s \in mine
    <3>1. i \in Users(s)
      BY <2>1 DEF Users
    <3>2. /\ IsFiniteSet(Users(s) \ {i})
          /\ Cardinality(Users(s) \ {i}) = Cardinality(Users(s)) - 1
      BY <2>0, <3>1, FS_RemoveElement
    <3>3. Cardinality(Users(s) \ {i}) \in Nat
      BY <3>2, FS_CardinalityType
    <3>4. Cardinality(Users(s) \ {i}) = 0 <=> Users(s) \ {i} = {}
      BY <3>2, FS_EmptySet
    <3>5. count'[s] = count[s] - 1
      BY <1>1, <1>2, <2>1
    <3>6. s \in LastUse(i) <=> count[s] = 1
      BY <1>2, <2>1 DEF LastUse
    <3>7. s \in upstream
      BY <1>2, <2>1 DEF OpenIffUsed
    <3>8. Users(s)' = Users(s) \ {i}
      BY <1>3
    <3>9. count'[s] = Cardinality(Users(s)')
      BY <2>0, <3>2, <3>5, <3>8
    <3>10. count'[s] \in Nat
      BY <3>3, <3>8, <3>9
    <3>11. s \in upstream' <=> s \notin LastUse(i)
      BY <1>1, <3>7
    <3>12. count[s] = 1 <=> count[s] - 1 = 0
      BY <2>0
    <3> QED
      BY <2>0, <3>2, <3>4, <3>6, <3>8, <3>9, <3>10, <3>11, <3>12
  <2>2. CASE s \notin mine
    <3>1. Users(s) \ {i} = Users(s)
      BY <2>2 DEF Users
    <3>2. s \notin LastUse(i)
      BY <2>2 DEF LastUse
    <3>3. count'[s] = count[s]
      BY <1>1, <2>2
    <3> QED
      BY <1>1, <1>3, <2>0, <3>1, <3>2, <3>3 DEF OpenIffUsed
  <2> QED
    BY <2>1, <2>2
<1>5. TablesOK'
  <2>1. count' \in [Services -> Nat]
    BY <1>1, <1>4
  <2>2. subscribes' \in [Ids -> SubscribeInfo]
    BY <1>1 DEF SubscribeInfo, NoSub
  <2> QED
    BY <1>1, <2>1, <2>2
<1>6. CountsMatch'
  BY <1>4 DEF CountsMatch
<1>7. OpenIffUsed'
  <2>1. upstream' = info' /\ upstream' \subseteq Services
    BY <1>1 DEF OpenIffUsed
  <2> QED
    BY <1>4, <2>1 DEF OpenIffUsed
<1> QED
  BY <1>5, <1>6, <1>7

\* So does entering a subscription in them, when the assertion holds.
LEMMA EnterTables ==
  ASSUME TablesInv, NEW m \in SubscribeCommand, NEW ks, NEW rest,
         ks = upstream \cup {m.service},
         m.service \notin subscribes[m.id].services,
         Enter(m, ks, count[m.service] + 1, rest)
  PROVE  TablesInv'
<1> USE DEF TablesInv, TablesOK
<1>0. m.service \in Services /\ m.id \in Ids /\ m.tx \in Chans
  BY DEF SubscribeCommand
<1>1. /\ upstream' = upstream \cup {m.service}
      /\ info' = info \cup ks
      /\ count' = [count EXCEPT ![m.service] = count[m.service] + 1]
      /\ subscribes' = [subscribes EXCEPT ![m.id] =
            [services |-> @.services \cup {m.service},
             tx |-> IF @ = NoSub THEN m.tx ELSE @.tx]]
  BY DEF Enter
<1>2. subscribes[m.id] \in SubscribeInfo
  BY <1>0
<1>3. /\ subscribes'[m.id].services = subscribes[m.id].services \cup {m.service}
      /\ subscribes'[m.id] \in SubscribeInfo
  BY <1>0, <1>1, <1>2 DEF SubscribeInfo, NoSub
<1>4. \A j \in Ids \ {m.id} : subscribes'[j] = subscribes[j]
  BY <1>0, <1>1
<1>5. subscribes' \in [Ids -> SubscribeInfo]
  BY <1>0, <1>1, <1>3, <1>4
<1>6. m.id \notin Users(m.service) /\ Users(m.service)' = Users(m.service) \cup {m.id}
  BY <1>0, <1>3, <1>4 DEF Users
<1>7. \A s \in Services \ {m.service} : Users(s)' = Users(s)
  BY <1>0, <1>3, <1>4 DEF Users
<1>8. CountsMatch'
  <2>1. Cardinality(Users(m.service) \cup {m.id}) = Cardinality(Users(m.service)) + 1
    BY <1>6, UsersFinite, FS_AddElement
  <2> QED
    BY <1>0, <1>1, <1>6, <1>7, <2>1 DEF CountsMatch
<1>9. OpenIffUsed'
  <2>1. Users(m.service)' # {}
    BY <1>6
  <2> QED
    BY <1>0, <1>1, <1>7, <2>1 DEF OpenIffUsed
<1> QED
  BY <1>0, <1>1, <1>5, <1>8, <1>9

-----------------------------------------------------------------------------
(* The parts of type correctness that the tables are not.                  *)

RestOK ==
    /\ task \in {"running", "ended", "panicked"}
    /\ handle \in BOOLEAN
    /\ commands \in Seq(Command)
    /\ busy \in Connecting \cup {Idle}
    /\ initPayload \in BOOLEAN
    /\ reply \in [Chans -> [Services -> Reply]]
    /\ rx \in SUBSET Chans
    /\ inbox \in [Chans -> Seq(Chans)]
    /\ link \in [Services -> Seq(Message)]
    /\ remote \in [Services -> SUBSET (Ids \X Chans)]

LEMMA IInvParts == /\ IInv <=> RestOK /\ TablesInv
                   /\ IInv' <=> RestOK' /\ TablesInv'
BY DEF IInv, TypeOK, RestOK, TablesInv, TablesOK

LEMMA SameTables ==
  ASSUME TablesInv, UNCHANGED tableVars
  PROVE  TablesInv'
BY DEF TablesInv, TablesOK, CountsMatch, OpenIffUsed, Users, tableVars

\* Answering a oneshot, whether anyone waits or not, gives a reply of its type.
LEMMA AnsweredType ==
  ASSUME RestOK, NEW c, NEW s \in Services, NEW v \in Reply
  PROVE  Answered(reply, c, s, v) \in [Chans -> [Services -> Reply]]
BY DEF Answered, RestOK

\* Whatever ends the task leaves every variable in its type.
LEMMA TerminateInv ==
  ASSUME RestOK, NEW how \in {"ended", "panicked"}, Terminate(how)
  PROVE  RestOK' /\ TablesInv'
<1>1. TablesInv'
  BY ClearedTables DEF Terminate
<1>2. RestOK'
  <2>1. reply' \in [Chans -> [Services -> Reply]]
    BY DEF RestOK, Terminate, Reply
  <2> QED
    BY <2>1 DEF RestOK, Terminate
<1> QED
  BY <1>1, <1>2

\* The links stay sequences of messages when the oldest one of s is taken off.
LEMMA PoppedType ==
  ASSUME RestOK, NEW s \in Services, link[s] # <<>>
  PROVE  /\ Popped(s) \in [Services -> Seq(Message)]
         /\ Head(link[s]) \in Message
<1>1. link[s] \in Seq(Message)
  BY DEF RestOK
<1>2. Tail(link[s]) \in Seq(Message) /\ Head(link[s]) \in Message
  BY <1>1
<1> QED
  BY <1>2 DEF RestOK, Popped

LEMMA FinishRest ==
  ASSUME RestOK, NEW i \in Ids, NEW ls \in [Services -> Seq(Message)],
         FinishSubscribe(i, ls)
  PROVE  /\ link' \in [Services -> Seq(Message)]
         /\ remote' \in [Services -> SUBSET (Ids \X Chans)]
BY DEF FinishSubscribe, Finish, RestOK

LEMMA RegisterInv ==
  ASSUME RestOK, TablesInv, NEW m \in SubscribeCommand, NEW ks,
         ks = upstream \cup {m.service},
         NEW rest \in Seq(Command), Register(m, ks, rest)
  PROVE  RestOK' /\ TablesInv'
<1>1. CASE m.service \in subscribes[m.id].services
  BY <1>1, TerminateInv DEF Register
<1>2. CASE m.service \notin subscribes[m.id].services
  <2>1. Enter(m, ks, count[m.service] + 1, rest)
    BY <1>2 DEF Register
  <2>2. TablesInv'
    BY <1>2, <2>1, EnterTables
  <2>3. m.service \in Services /\ m.id \in Ids /\ m.tx \in Chans
    BY DEF SubscribeCommand
  <2>4. reply' \in [Chans -> [Services -> Reply]]
    BY <2>1, <2>3, AnsweredType DEF Enter, Reply
  <2>5. remote' \in [Services -> SUBSET (Ids \X Chans)]
    <3>1. <<m.id, m.tx>> \in Ids \X Chans
      BY <2>3
    <3>2. remote' = [remote EXCEPT ![m.service] = @ \cup {<<m.id, m.tx>>}]
      BY <2>1 DEF Enter
    <3> QED
      BY <2>3, <3>1, <3>2 DEF RestOK
  <2>6. RestOK'
    BY <2>1, <2>4, <2>5 DEF RestOK, Enter
  <2> QED
    BY <2>2, <2>6
<1> QED
  BY <1>1, <1>2

LEMMA HeadCommand ==
  ASSUME RestOK, commands # <<>>
  PROVE  /\ Head(commands) \in Command
         /\ Tail(commands) \in Seq(Command)
         /\ Head(commands).op = "Subscribe" => Head(commands) \in SubscribeCommand
         /\ Head(commands).op = "Stop" => Head(commands).id \in Ids
<1>1. commands \in Seq(Command)
  BY DEF RestOK
<1>2. Head(commands) \in Command /\ Tail(commands) \in Seq(Command)
  BY <1>1
<1> QED
  BY <1>2 DEF Command, SubscribeCommand, StopCommand

LEMMA ConnectingCommand ==
  ASSUME RestOK, busy.phase \in {"dial", "ack"}
  PROVE  busy \in Connecting /\ busy.cmd \in SubscribeCommand
BY DEF RestOK, Connecting, Idle

-----------------------------------------------------------------------------
\* A call names at least one service.
LEMMA OrdersType ==
  ASSUME NEW order \in Orders
  PROVE  \E n \in Nat : n >= 1 /\ order \in [1..n -> Services]
<1>1. order \in SetToAllKPermutations(Services) /\ order # <<>>
  BY DEF Orders
<1>2. PICK S \in SUBSET Services : order \in SetToSeqs(S)
  BY <1>1 DEF SetToAllKPermutations
<1>3. order \in [1..Cardinality(S) -> S]
  BY <1>2 DEF SetToSeqs
<1>4. Cardinality(S) \in Nat
  BY ServicesAssumption, FS_Subset, FS_CardinalityType
<1>5. Cardinality(S) # 0
  BY <1>1, <1>3
<1>6. order \in [1..Cardinality(S) -> Services]
  BY <1>3
<1> QED
  BY <1>4, <1>5, <1>6

LEMMA InitInv == Init => IInv
<1> SUFFICES ASSUME Init PROVE RestOK /\ TablesInv
  BY IInvParts
<1> USE DEF Init
<1>1. RestOK
  BY DEF RestOK, Reply
<1>2. TablesOK
  BY DEF TablesOK, SubscribeInfo, NoSub
<1>3. \A s : Users(s) = {}
  BY DEF Users, NoSub
<1>4. CountsMatch
  BY <1>3, FS_EmptySet DEF CountsMatch
<1>5. OpenIffUsed
  BY <1>3 DEF OpenIffUsed
<1> QED
  BY <1>1, <1>2, <1>4, <1>5 DEF TablesInv

\* No step of a caller touches the tables.
LEMMA CallersInv == IInv /\ Callers => IInv'
<1> SUFFICES ASSUME RestOK, TablesInv, Callers
             PROVE  RestOK' /\ TablesInv'
  BY IInvParts
<1>1. ASSUME NEW c \in Chans, NEW i \in Ids, NEW order \in Orders,
             Subscribe(c, i, order)
      PROVE  RestOK' /\ TablesInv'
  <2>1. TablesInv'
    BY <1>1, SameTables DEF Subscribe
  <2>2. PICK n \in Nat : n >= 1 /\ order \in [1..n -> Services]
    BY OrdersType
  <2>3. commands' \in Seq(Command)
    <3> DEFINE burst == [k \in DOMAIN order |-> [op |-> "Subscribe",
                            service |-> order[k], id |-> i, tx |-> c]]
    <3>1. burst \in Seq(Command)
      <4>1. \A k \in 1..n : burst[k] \in Command
        BY <2>2 DEF Command, SubscribeCommand
      <4>2. burst = [k \in 1..n |-> burst[k]]
        BY <2>2
      <4> QED
        BY <2>2, <4>1, <4>2
    <3>2. commands' = commands \/ commands' = commands \o burst
      BY <1>1 DEF Subscribe
    <3>3. commands \in Seq(Command)
      BY DEF RestOK
    <3> HIDE DEF burst
    <3>4. commands \o burst \in Seq(Command)
      BY <3>1, <3>3
    <3> QED
      BY <3>2, <3>3, <3>4
  <2>4. reply' \in [Chans -> [Services -> Reply]]
    <3>1. order[1] \in Services
      BY <2>2
    <3> DEFINE first == [s \in Services |->
                 IF \E k \in DOMAIN order : order[k] = s THEN "pending" ELSE "none"]
    <3>2. first \in [Services -> Reply]
      BY DEF Reply
    <3>3. reply' = [reply EXCEPT ![c] = first] \/ reply' = [reply EXCEPT ![c][order[1]] = "dropped"]
      BY <1>1 DEF Subscribe
    <3>4. [reply EXCEPT ![c][order[1]] = "dropped"] \in [Chans -> [Services -> Reply]]
      BY <3>1 DEF RestOK, Reply
    <3>5. [reply EXCEPT ![c] = first] \in [Chans -> [Services -> Reply]]
      BY <3>2 DEF RestOK
    <3> QED
      BY <3>3, <3>4, <3>5
  <2> QED
    BY <1>1, <2>1, <2>3, <2>4 DEF RestOK, Subscribe, taskVars, wireVars
<1>2. ASSUME NEW i \in Ids, Stop(i) PROVE RestOK' /\ TablesInv'
  <2>1. TablesInv'
    BY <1>2, SameTables DEF Stop
  <2>2. [op |-> "Stop", id |-> i] \in Command
    BY DEF Command, StopCommand
  <2>3. commands' \in Seq(Command)
    BY <1>2, <2>2 DEF Stop, RestOK
  <2> QED
    BY <1>2, <2>1, <2>3 DEF RestOK, Stop, taskVars, callerVars, wireVars
<1>3. ASSUME NEW c \in Chans, Receive(c) PROVE RestOK' /\ TablesInv'
  <2>1. TablesInv'
    BY <1>3, SameTables DEF Receive
  <2>2. inbox' \in [Chans -> Seq(Chans)]
    <3>1. inbox[c] \in Seq(Chans) /\ inbox[c] # <<>>
      BY <1>3 DEF Receive, RestOK
    <3>2. Tail(inbox[c]) \in Seq(Chans)
      BY <3>1
    <3> QED
      BY <1>3, <3>2 DEF Receive, RestOK
  <2> QED
    BY <1>3, <2>1, <2>2 DEF RestOK, Receive, taskVars, wireVars
<1>4. ASSUME NEW c \in Chans, DropReceiver(c) PROVE RestOK' /\ TablesInv'
  <2>1. TablesInv'
    BY <1>4, SameTables DEF DropReceiver
  <2>2. reply' \in [Chans -> [Services -> Reply]]
    BY <1>4 DEF DropReceiver, RestOK, Reply
  <2> QED
    BY <1>4, <2>1, <2>2 DEF RestOK, DropReceiver, taskVars, wireVars
<1>5. ASSUME DropHandle PROVE RestOK' /\ TablesInv'
  <2>1. TablesInv'
    BY <1>5, SameTables DEF DropHandle
  <2>2. reply' \in [Chans -> [Services -> Reply]]
    BY <1>5 DEF DropHandle, Reply
  <2>3. inbox' \in [Chans -> Seq(Chans)]
    BY <1>5 DEF DropHandle
  <2> QED
    BY <1>5, <2>1, <2>2, <2>3 DEF RestOK, DropHandle, wireVars
<1> QED
  BY <1>1, <1>2, <1>3, <1>4, <1>5 DEF Callers

LEMMA TakeCommandInv == IInv /\ TakeCommand => IInv'
<1> SUFFICES ASSUME RestOK, TablesInv, TakeCommand
             PROVE  RestOK' /\ TablesInv'
  BY IInvParts
<1>1. CASE CommandJoin
  <2> DEFINE m == Head(commands)
  <2>1. m \in SubscribeCommand /\ Tail(commands) \in Seq(Command)
    BY <1>1, HeadCommand DEF CommandJoin
  <2>2. upstream = upstream \cup {m.service} /\ Register(m, upstream, Tail(commands))
    BY <1>1 DEF CommandJoin
  <2> QED
    BY <2>1, <2>2, RegisterInv
<1>2. CASE CommandConnect
  <2>1. TablesInv'
    BY <1>2, SameTables DEF CommandConnect
  <2>2. busy' \in Connecting /\ commands' \in Seq(Command)
    BY <1>2, HeadCommand DEF CommandConnect, Connecting
  <2> QED
    BY <1>2, <2>1, <2>2 DEF RestOK, CommandConnect, callerVars, wireVars
<1>3. CASE CommandStop
  <2>1. Head(commands).id \in Ids /\ commands' \in Seq(Command)
    BY <1>3, HeadCommand DEF CommandStop
  <2>2. FinishSubscribe(Head(commands).id, link) /\ link \in [Services -> Seq(Message)]
    BY <1>3 DEF CommandStop, RestOK
  <2>3. TablesInv'
    BY <2>1, <2>2, FinishTables
  <2>4. /\ link' \in [Services -> Seq(Message)]
        /\ remote' \in [Services -> SUBSET (Ids \X Chans)]
    BY <2>1, <2>2, FinishRest
  <2> QED
    BY <1>3, <2>1, <2>3, <2>4 DEF RestOK, CommandStop, taskVars, callerVars
<1>4. CASE CommandsClosed
  BY <1>4, TerminateInv DEF CommandsClosed
<1> QED
  BY <1>1, <1>2, <1>3, <1>4 DEF TakeCommand

LEMMA HandshakeInv == IInv /\ Handshake => IInv'
<1> SUFFICES ASSUME RestOK, TablesInv, Handshake
             PROVE  RestOK' /\ TablesInv'
  BY IInvParts
<1>1. CASE SendInit
  <2>1. TablesInv'
    BY <1>1, SameTables DEF SendInit
  <2>2. busy \in Connecting
    BY <1>1, ConnectingCommand DEF SendInit
  <2>3. busy' \in Connecting
    BY <1>1, <2>2 DEF SendInit, Connecting
  <2> QED
    BY <1>1, <2>1, <2>3 DEF RestOK, SendInit, callerVars, wireVars
<1>2. CASE ConnectionAck
  <2>1. busy.cmd \in SubscribeCommand
    BY <1>2, ConnectingCommand DEF ConnectionAck
  <2>2. Register(busy.cmd, upstream \cup {busy.cmd.service}, commands)
    BY <1>2 DEF ConnectionAck
  <2>3. commands \in Seq(Command)
    BY DEF RestOK
  <2> QED
    BY <2>1, <2>2, <2>3, RegisterInv
<1>3. ASSUME NEW phase \in {"dial", "ack"}, ConnectFailed(phase)
      PROVE  RestOK' /\ TablesInv'
  <2>1. TablesInv'
    BY <1>3, SameTables DEF ConnectFailed
  <2>2. busy.cmd \in SubscribeCommand
    BY <1>3, ConnectingCommand DEF ConnectFailed
  <2>3. reply' \in [Chans -> [Services -> Reply]]
    BY <1>3, <2>2, AnsweredType DEF ConnectFailed, SubscribeCommand, Reply
  <2> QED
    BY <1>3, <2>1, <2>3 DEF RestOK, ConnectFailed, wireVars
<1> QED
  BY <1>1, <1>2, <1>3 DEF Handshake

LEMMA EventInv == IInv /\ Event => IInv'
<1> SUFFICES ASSUME RestOK, TablesInv, NEW s \in Services,
                    EventData(s) \/ EventComplete(s) \/ EventFault(s)
             PROVE  RestOK' /\ TablesInv'
  BY IInvParts DEF Event
<1> DEFINE m == Head(link[s])
<1>1. /\ Popped(s) \in [Services -> Seq(Message)]
      /\ m \in Message
  BY PoppedType DEF EventData, EventComplete, EventFault
<1>2. m.kind \in {"Data", "Complete"} => m.id \in Ids /\ m.src \in Chans
  BY <1>1 DEF Message, Fault
<1>3. ASSUME m.id \in Ids, FinishSubscribe(m.id, Popped(s)),
             UNCHANGED <<taskVars, commands, callerVars>>
      PROVE  RestOK' /\ TablesInv'
  <2>1. TablesInv'
    BY <1>3, FinishTables
  <2>2. /\ link' \in [Services -> Seq(Message)]
        /\ remote' \in [Services -> SUBSET (Ids \X Chans)]
    BY <1>1, <1>3, FinishRest
  <2> QED
    BY <1>3, <2>1, <2>2 DEF RestOK, taskVars, callerVars
<1>4. CASE EventData(s)
  <2> DEFINE tx == subscribes[m.id].tx
  <2>1. m.id \in Ids /\ m.src \in Chans
    BY <1>2, <1>4 DEF EventData
  <2>2. CASE tx = NoChan \/ tx \in rx
    <3>1. TablesInv'
      BY <1>4, <2>2, SameTables DEF EventData
    <3>2. inbox' \in [Chans -> Seq(Chans)]
      <4>1. inbox' = [c \in Chans |-> IF c = tx THEN Append(inbox[c], m.src) ELSE inbox[c]]
        BY <1>4, <2>2 DEF EventData
      <4>2. \A c \in Chans : inbox[c] \in Seq(Chans)
        BY DEF RestOK
      <4> HIDE DEF m, tx
      <4>3. \A c \in Chans : Append(inbox[c], m.src) \in Seq(Chans)
        BY <2>1, <4>2
      <4> QED
        BY <4>1, <4>2, <4>3
    <3>3. link' \in [Services -> Seq(Message)]
      BY <1>1, <1>4, <2>2 DEF EventData
    <3> QED
      BY <1>4, <2>2, <3>1, <3>2, <3>3 DEF RestOK, EventData, taskVars
  <2>3. CASE ~(tx = NoChan \/ tx \in rx)
    BY <1>3, <1>4, <2>1, <2>3 DEF EventData, callerVars
  <2> QED
    BY <2>2, <2>3
<1>5. CASE EventComplete(s)
  BY <1>2, <1>3, <1>5 DEF EventComplete
<1>6. CASE EventFault(s)
  BY <1>6, TerminateInv DEF EventFault
<1> QED
  BY <1>4, <1>5, <1>6

LEMMA UpstreamsInv == IInv /\ Upstreams => IInv'
<1> SUFFICES ASSUME RestOK, TablesInv, Upstreams
             PROVE  RestOK' /\ TablesInv'
  BY IInvParts
<1>1. TablesInv'
  BY SameTables DEF Upstreams, UpstreamData, UpstreamComplete, UpstreamFault
<1>2. ASSUME NEW s \in Services, NEW msg \in Message
      PROVE  [link EXCEPT ![s] = Append(@, msg)] \in [Services -> Seq(Message)]
  BY <1>2 DEF RestOK
<1>3. \A p \in Ids \X Chans, k \in {"Data", "Complete"} :
         [kind |-> k, id |-> p[1], src |-> p[2]] \in Message
  BY DEF Message
<1>4. ASSUME NEW s \in Services, NEW p \in Ids \X Chans, UpstreamData(s, p)
      PROVE  RestOK'
  <2>1. link' \in [Services -> Seq(Message)]
    BY <1>2, <1>3, <1>4 DEF UpstreamData
  <2> QED
    BY <1>4, <2>1 DEF RestOK, UpstreamData, taskVars, callerVars
<1>5. ASSUME NEW s \in Services, NEW p \in Ids \X Chans, UpstreamComplete(s, p)
      PROVE  RestOK'
  <2>1. link' \in [Services -> Seq(Message)]
    BY <1>2, <1>3, <1>5 DEF UpstreamComplete
  <2>2. remote' \in [Services -> SUBSET (Ids \X Chans)]
    BY <1>5 DEF UpstreamComplete, RestOK
  <2> QED
    BY <1>5, <2>1, <2>2 DEF RestOK, UpstreamComplete, taskVars, callerVars
<1>6. ASSUME NEW s \in Services, UpstreamFault(s)
      PROVE  RestOK'
  <2>1. link' \in [Services -> Seq(Message)]
    BY <1>2, <1>6 DEF UpstreamFault, Message
  <2>2. remote' \in [Services -> SUBSET (Ids \X Chans)]
    BY <1>6 DEF UpstreamFault, RestOK
  <2> QED
    BY <1>6, <2>1, <2>2 DEF RestOK, UpstreamFault, taskVars, callerVars
<1> QED
  BY <1>1, <1>4, <1>5, <1>6 DEF Upstreams

\* The inductive invariant: types, exact counts, and connections open exactly
\* while they are used.
THEOREM Invariance == Spec => []IInv
<1>1. IInv /\ [Next]_vars => IInv'
  <2> SUFFICES ASSUME IInv, [Next]_vars PROVE IInv'
    OBVIOUS
  <2>1. CASE Next
    BY <2>1, CallersInv, TakeCommandInv, HandshakeInv, EventInv, UpstreamsInv DEF Next
  <2>2. CASE UNCHANGED vars
    BY <2>2 DEF IInv, TypeOK, CountsMatch, OpenIffUsed, Users, vars, taskVars,
                tableVars, callerVars, wireVars
  <2> QED
    BY <2>1, <2>2
<1> QED
  BY InitInv, <1>1, PTL DEF Spec

\* Every variable keeps its type; subscribe_count, a usize, never underflows.
THEOREM TypeCorrect == Spec => []TypeOK
<1>1. IInv => TypeOK
  BY DEF IInv
<1> QED
  BY Invariance, <1>1, PTL

\* The reference counts of the connections are exact.
THEOREM CountsCorrect == Spec => []CountsMatch
<1>1. IInv => CountsMatch
  BY DEF IInv
<1> QED
  BY Invariance, <1>1, PTL

\* No connection leaks and none is closed under a subscription that uses it.
THEOREM ConnectionsCorrect == Spec => []OpenIffUsed
<1>1. IInv => OpenIffUsed
  BY DEF IInv
<1> QED
  BY Invariance, <1>1, PTL

-----------------------------------------------------------------------------
(* No caller is forgotten: NoLostReply is inductive beside the types.      *)

\* Taking a command off the queue forgets that command only.
LEMMA PoppedQueue ==
  ASSUME RestOK, busy = Idle, commands # <<>>, NEW m \in Queued, m # Head(commands)
  PROVE  \E k \in DOMAIN Tail(commands) : Tail(commands)[k] = m
<1>1. commands \in Seq(Command)
  BY DEF RestOK
<1>2. PICK k \in DOMAIN commands : commands[k] = m
  BY DEF Queued
<1>3. k \in 1..Len(commands) /\ k # 1
  BY <1>1, <1>2
<1>4. k - 1 \in DOMAIN Tail(commands) /\ Tail(commands)[k - 1] = m
  BY <1>1, <1>2, <1>3
<1> QED
  BY <1>4

\* A step keeps NoLostReply when every caller that still waits after it
\* waited before it and has its command among the remaining ones.
LEMMA StillWaiting ==
  ASSUME NoLostReply, task' = task,
         \A c \in Chans, s \in Services :
            reply'[c][s] = "pending" =>
               /\ reply[c][s] = "pending"
               /\ \A m \in Queued : m.op = "Subscribe" /\ m.tx = c /\ m.service = s
                                       => m \in Queued'
  PROVE  NoLostReply'
<1> SUFFICES ASSUME NEW c \in Chans, NEW s \in Services, reply'[c][s] = "pending"
             PROVE  task' = "running" /\ \E m \in QueuedFor(c)' : m.service = s
  BY DEF NoLostReply
<1>1. PICK m \in QueuedFor(c) : m.service = s
  BY DEF NoLostReply
<1>2. m \in Queued /\ m.op = "Subscribe" /\ m.tx = c
  BY DEF QueuedFor
<1>3. m \in Queued'
  BY <1>1, <1>2
<1> QED
  BY <1>1, <1>2, <1>3 DEF QueuedFor, NoLostReply

LEMMA TerminateLosesNoReply ==
  ASSUME NEW how, Terminate(how)
  PROVE  NoLostReply'
BY DEF Terminate, NoLostReply

\* A caller whose reply was sent does not wait any more.
LEMMA AnsweredReply ==
  ASSUME RestOK, NEW m \in SubscribeCommand, NEW v \in {"ok", "err"},
         NEW c \in Chans, NEW s \in Services,
         Answered(reply, m.tx, m.service, v)[c][s] = "pending"
  PROVE  /\ reply[c][s] = "pending"
         /\ ~(m.tx = c /\ m.service = s)
BY DEF Answered, RestOK, SubscribeCommand

LEMMA RegisterLosesNoReply ==
  ASSUME RestOK, NoLostReply, NEW m \in SubscribeCommand, NEW ks, NEW rest,
         Register(m, ks, rest),
         \A q \in Queued : q # m => \E k \in DOMAIN rest : rest[k] = q
  PROVE  NoLostReply'
<1>1. CASE m.service \in subscribes[m.id].services
  BY <1>1, TerminateLosesNoReply DEF Register
<1>2. CASE m.service \notin subscribes[m.id].services
  <2>1. /\ reply' = Answered(reply, m.tx, m.service, "ok")
        /\ task' = task /\ commands' = rest /\ busy' = Idle
    BY <1>2 DEF Register, Enter
  <2>2. \A q \in Queued : q # m => q \in Queued'
    BY <2>1 DEF Queued
  <2> QED
    BY <2>1, <2>2, AnsweredReply, StillWaiting
<1> QED
  BY <1>1, <1>2

\* Among the callers only Subscribe makes anyone wait, and it queues the
\* command in the same step.
LEMMA CallersLoseNoReply ==
  ASSUME RestOK, NoLostReply, Callers
  PROVE  NoLostReply'
<1>1. ASSUME NEW c \in Chans, NEW i \in Ids, NEW order \in Orders,
             Subscribe(c, i, order), task = "running"
      PROVE  NoLostReply'
  <2> DEFINE burst == [k \in DOMAIN order |-> [op |-> "Subscribe",
                          service |-> order[k], id |-> i, tx |-> c]]
             first == [s \in Services |->
                IF \E k \in DOMAIN order : order[k] = s THEN "pending" ELSE "none"]
  <2>1. /\ commands' = commands \o burst
        /\ reply' = [reply EXCEPT ![c] = first]
        /\ task' = task /\ busy' = busy
    BY <1>1 DEF Subscribe, taskVars
  <2>2. PICK n \in Nat : n >= 1 /\ order \in [1..n -> Services]
    BY OrdersType
  <2>3. burst \in Seq(Command) /\ DOMAIN burst = 1..n /\ Len(burst) = n
    <3>1. \A k \in 1..n : burst[k] \in Command
      BY <2>2 DEF Command, SubscribeCommand
    <3>2. burst = [k \in 1..n |-> burst[k]]
      BY <2>2
    <3>3. burst \in [1..n -> Command]
      BY <3>1, <3>2
    <3> QED
      BY <2>2, <3>3
  <2>4. commands \in Seq(Command)
    BY DEF RestOK
  <2>5. \A k \in 1..n : /\ burst[k].op = "Subscribe" /\ burst[k].tx = c
                        /\ burst[k].service = order[k]
    BY <2>2
  <2>6. \A s \in Services : first[s] = "pending" => \E k \in 1..n : order[k] = s
    BY <2>2
  <2>7. \A s \in Services : reply'[c][s] = first[s]
    BY <2>1 DEF RestOK
  <2> HIDE DEF burst, first
  <2>8. \A k \in 1..n : /\ Len(commands) + k \in DOMAIN commands'
                        /\ commands'[Len(commands) + k] = burst[k]
    BY <2>1, <2>2, <2>3, <2>4
  <2>9. \A k \in DOMAIN commands : k \in DOMAIN commands' /\ commands'[k] = commands[k]
    BY <2>1, <2>2, <2>3, <2>4
  <2>10. Queued \subseteq Queued'
    BY <2>1, <2>9 DEF Queued
  <2> SUFFICES ASSUME NEW d \in Chans, NEW s \in Services, reply'[d][s] = "pending"
               PROVE  \E m \in QueuedFor(d)' : m.service = s
    BY <1>1, <2>1 DEF NoLostReply
  <2>11. CASE d = c
    <3>1. PICK k \in 1..n : order[k] = s
      BY <2>6, <2>7, <2>11
    <3>2. burst[k] \in Queued'
      BY <2>8 DEF Queued
    <3>3. burst[k].op = "Subscribe" /\ burst[k].tx = d /\ burst[k].service = s
      BY <2>5, <2>11, <3>1
    <3>4. burst[k] \in QueuedFor(d)'
      BY <3>2, <3>3 DEF QueuedFor
    <3> QED
      BY <3>3, <3>4
  <2>12. CASE d # c
    <3>1. reply[d][s] = "pending"
      BY <2>1, <2>12
    <3> QED
      BY <2>10, <3>1 DEF NoLostReply, QueuedFor
  <2> QED
    BY <2>11, <2>12
<1>2. ASSUME NEW c \in Chans, NEW i \in Ids, NEW order \in Orders,
             Subscribe(c, i, order), task # "running"
      PROVE  NoLostReply'
  BY <1>2 DEF Subscribe, NoLostReply, RestOK, taskVars
<1>3. ASSUME NEW i \in Ids, Stop(i) PROVE NoLostReply'
  <2>1. commands \in Seq(Command)
    BY DEF RestOK
  <2>2. commands' = Append(commands, [op |-> "Stop", id |-> i])
    BY <1>3 DEF Stop
  <2>3. \A k \in DOMAIN commands : k \in DOMAIN commands' /\ commands'[k] = commands[k]
    BY <2>1, <2>2
  <2>4. Queued \subseteq Queued'
    BY <1>3, <2>3 DEF Queued, Stop, taskVars
  <2> QED
    BY <1>3, <2>4, StillWaiting DEF Stop, taskVars, callerVars
<1>4. ASSUME NEW c \in Chans, Receive(c) \/ DropReceiver(c) PROVE NoLostReply'
  <2>1. Queued' = Queued /\ task' = task
    BY <1>4 DEF Receive, DropReceiver, Queued, taskVars
  <2>2. \A d \in Chans, s \in Services :
            reply'[d][s] = "pending" => reply[d][s] = "pending"
    BY <1>4 DEF Receive, DropReceiver, RestOK
  <2> QED
    BY <2>1, <2>2, StillWaiting
<1>5. CASE DropHandle
  BY <1>5 DEF DropHandle, NoLostReply
<1> QED
  BY <1>1, <1>2, <1>3, <1>4, <1>5 DEF Callers

LEMMA TaskLosesNoReply ==
  ASSUME RestOK, NoLostReply, TakeCommand \/ Handshake
  PROVE  NoLostReply'
<1>1. CASE CommandJoin
  <2>1. Head(commands) \in SubscribeCommand
    BY <1>1, HeadCommand DEF CommandJoin
  <2> QED
    BY <1>1, <2>1, PoppedQueue, RegisterLosesNoReply DEF CommandJoin, Ready
<1>2. CASE CommandConnect
  <2>1. /\ commands' = Tail(commands) /\ reply' = reply /\ task' = task
        /\ busy' # Idle /\ busy'.cmd = Head(commands) /\ busy = Idle /\ commands # <<>>
    BY <1>2 DEF CommandConnect, callerVars, Idle, Ready
  <2>2. Queued \subseteq Queued'
    BY <2>1, PoppedQueue DEF Queued
  <2> QED
    BY <2>1, <2>2, StillWaiting
<1>3. CASE CommandStop
  <2>1. /\ commands' = Tail(commands) /\ reply' = reply /\ task' = task
        /\ Head(commands).op = "Stop" /\ busy' = Idle /\ busy = Idle /\ commands # <<>>
    BY <1>3 DEF CommandStop, callerVars, taskVars, Ready
  <2>2. \A m \in Queued : m.op = "Subscribe" => m \in Queued'
    BY <2>1, PoppedQueue DEF Queued
  <2> QED
    BY <2>1, <2>2, StillWaiting
<1>4. CASE CommandsClosed
  BY <1>4, TerminateLosesNoReply DEF CommandsClosed
<1>5. CASE SendInit
  <2>1. busy \in Connecting
    BY <1>5, ConnectingCommand DEF SendInit
  <2>2. busy' # Idle /\ busy'.cmd = busy.cmd /\ busy # Idle
    BY <1>5, <2>1 DEF SendInit, Connecting, Idle
  <2>3. Queued' = Queued
    BY <1>5, <2>2 DEF Queued, SendInit
  <2> QED
    BY <1>5, <2>3, StillWaiting DEF SendInit, callerVars
<1>6. CASE ConnectionAck
  <2>1. busy.cmd \in SubscribeCommand
    BY <1>6, ConnectingCommand DEF ConnectionAck
  <2>2. \A q \in Queued : q # busy.cmd => \E k \in DOMAIN commands : commands[k] = q
    BY DEF Queued
  <2> QED
    BY <1>6, <2>1, <2>2, RegisterLosesNoReply DEF ConnectionAck
<1>7. ASSUME NEW phase \in {"dial", "ack"}, ConnectFailed(phase) PROVE NoLostReply'
  <2>1. busy.cmd \in SubscribeCommand
    BY <1>7, ConnectingCommand DEF ConnectFailed
  <2>2. /\ reply' = Answered(reply, busy.cmd.tx, busy.cmd.service, "err")
        /\ task' = task /\ commands' = commands /\ busy' = Idle
    BY <1>7 DEF ConnectFailed
  <2>3. \A q \in Queued : q # busy.cmd => q \in Queued'
    BY <2>2 DEF Queued
  <2> QED
    BY <2>1, <2>2, <2>3, AnsweredReply, StillWaiting
<1> QED
  BY <1>1, <1>2, <1>3, <1>4, <1>5, <1>6, <1>7 DEF TakeCommand, Handshake

\* Neither an upstream message nor an upstream answers or queues a command.
LEMMA WireLosesNoReply ==
  ASSUME NoLostReply, Event \/ Upstreams
  PROVE  NoLostReply'
<1>1. CASE \E s \in Services : EventFault(s)
  BY <1>1, TerminateLosesNoReply DEF EventFault
<1>2. CASE Upstreams \/ \E s \in Services : EventData(s) \/ EventComplete(s)
  <2>1. reply' = reply /\ task' = task /\ commands' = commands /\ busy' = busy
    BY <1>2 DEF Upstreams, UpstreamData, UpstreamComplete, UpstreamFault, EventData,
                EventComplete, taskVars, callerVars
  <2>2. Queued' = Queued
    BY <2>1 DEF Queued
  <2> QED
    BY <2>1, <2>2, StillWaiting
<1> QED
  BY <1>1, <1>2 DEF Event

\* Every caller that waits for a reply has its command queued or in the
\* handshake: neither an error nor the death of the task forgets one.
THEOREM RepliesKept == Spec => []NoLostReply
<1>1. Init => NoLostReply
  BY DEF Init, NoLostReply
<1>2. IInv /\ NoLostReply /\ [Next]_vars => NoLostReply'
  <2> SUFFICES ASSUME RestOK, NoLostReply, [Next]_vars PROVE NoLostReply'
    BY IInvParts
  <2>1. CASE Next
    BY <2>1, CallersLoseNoReply, TaskLosesNoReply, WireLosesNoReply DEF Next
  <2>2. CASE UNCHANGED vars
    BY <2>2 DEF NoLostReply, QueuedFor, Queued, vars, taskVars, callerVars
  <2> QED
    BY <2>1, <2>2
<1> QED
  BY Invariance, <1>1, <1>2, PTL DEF Spec

-----------------------------------------------------------------------------
(* Finishing one subscription never ends another.                          *)

\* Entering a command takes no id out of the table.
LEMMA RegisterEndsNone ==
  ASSUME RestOK, TablesInv, NEW m \in SubscribeCommand, NEW ks, NEW rest,
         Register(m, ks, rest), NEW i \in Ids,
         subscribes[i] # NoSub, subscribes'[i] = NoSub
  PROVE  task' # "running"
<1>1. CASE m.service \in subscribes[m.id].services
  BY <1>1 DEF Register, Terminate
<1>2. CASE m.service \notin subscribes[m.id].services
  <2>1. subscribes' = [subscribes EXCEPT ![m.id] =
            [services |-> @.services \cup {m.service},
             tx |-> IF @ = NoSub THEN m.tx ELSE @.tx]]
    BY <1>2 DEF Register, Enter
  <2>2. i = m.id => m.service \in subscribes'[i].services
    BY <2>1 DEF TablesInv, TablesOK
  <2>3. i # m.id => subscribes'[i] = subscribes[i]
    BY <2>1 DEF TablesInv, TablesOK
  <2> QED
    BY <2>2, <2>3 DEF NoSub
<1> QED
  BY <1>1, <1>2

\* finish_subscribe takes its own id out of the table and no other.
LEMMA FinishEndsOne ==
  ASSUME TablesInv, NEW j \in Ids, NEW ls, FinishSubscribe(j, ls), NEW i \in Ids,
         subscribes[i] # NoSub, subscribes'[i] = NoSub
  PROVE  i = j
BY DEF TablesInv, TablesOK, FinishSubscribe, Finish

\* A message that is taken off a link leaves it shorter or empty.
LEMMA TakenOff ==
  ASSUME RestOK, NEW s \in Services, link[s] # <<>>, NEW i, FinishSubscribe(i, Popped(s))
  PROVE  link'[s] # link[s]
<1>1. link[s] \in Seq(Message) /\ Tail(link[s]) # link[s]
  <2>1. link[s] \in Seq(Message) /\ Len(link[s]) # 0
    BY DEF RestOK
  <2>2. Len(Tail(link[s])) # Len(link[s])
    BY <2>1
  <2> QED
    BY <2>1, <2>2
<1>2. link'[s] = <<>> \/ link'[s] = Tail(link[s])
  BY DEF FinishSubscribe, Finish, Popped, RestOK
<1> QED
  BY <1>1, <1>2

\* While the task runs, an id leaves the table on its own Stop or on a message
\* for it and in no other step: cleaning up after one subscription (its last
\* connection, its count) never unsubscribes another that shares the service.
THEOREM OthersKept == Spec => NoCollateral
<1>1. ASSUME RestOK, TablesInv, Next, NEW i \in Ids,
             subscribes[i] # NoSub, subscribes'[i] = NoSub, task' = "running"
      PROVE  About(i)
  <2>1. subscribes' # subscribes
    BY <1>1
  <2>2. CASE Callers \/ Upstreams
    BY <2>1, <2>2 DEF Callers, Subscribe, Stop, Receive, DropReceiver, DropHandle,
         Upstreams, UpstreamData, UpstreamComplete, UpstreamFault, tableVars
  <2>3. CASE CommandJoin
    <3>1. Head(commands) \in SubscribeCommand
      BY <1>1, <2>3, HeadCommand DEF CommandJoin
    <3>2. Register(Head(commands), upstream, Tail(commands))
      BY <2>3 DEF CommandJoin
    <3> QED
      BY <1>1, <3>1, <3>2, RegisterEndsNone
  <2>4. CASE CommandStop
    <3>1. Head(commands) \in Command /\ Head(commands).op = "Stop" /\ commands # <<>>
      BY <1>1, <2>4, HeadCommand DEF CommandStop
    <3>2. Head(commands).id \in Ids /\ Head(commands) = [op |-> "Stop", id |-> Head(commands).id]
      BY <3>1 DEF Command, SubscribeCommand, StopCommand
    <3>3. FinishSubscribe(Head(commands).id, link)
      BY <2>4 DEF CommandStop
    <3>4. i = Head(commands).id
      BY <1>1, <3>2, <3>3, FinishEndsOne
    <3> QED
      BY <3>1, <3>2, <3>4 DEF About
  <2>5. CASE CommandConnect \/ SendInit \/ ConnectFailed("dial") \/ ConnectFailed("ack")
    BY <2>1, <2>5 DEF CommandConnect, SendInit, ConnectFailed, tableVars
  <2>6. CASE ConnectionAck
    <3>1. busy.cmd \in SubscribeCommand
      BY <1>1, <2>6, ConnectingCommand DEF ConnectionAck
    <3>2. Register(busy.cmd, upstream \cup {busy.cmd.service}, commands)
      BY <2>6 DEF ConnectionAck
    <3> QED
      BY <1>1, <3>1, <3>2, RegisterEndsNone
  <2>7. ASSUME NEW s \in Services, EventData(s) \/ EventComplete(s)
        PROVE  About(i)
    <3> DEFINE m == Head(link[s])
    <3>1. /\ link[s] # <<>> /\ m.kind \in {"Data", "Complete"}
          /\ FinishSubscribe(m.id, Popped(s))
      BY <2>1, <2>7 DEF EventData, EventComplete, tableVars
    <3>2. m # Fault /\ m.id \in Ids
      BY <1>1, <3>1, PoppedType DEF Message, Fault
    <3>3. link'[s] # link[s]
      BY <1>1, <3>1, TakenOff
    <3>4. i = m.id
      BY <1>1, <3>1, <3>2, FinishEndsOne
    <3> QED
      BY <3>1, <3>2, <3>3, <3>4 DEF About
  <2>8. CASE CommandsClosed \/ \E s \in Services : EventFault(s)
    BY <1>1, <2>8 DEF CommandsClosed, EventFault, Terminate
  <2> QED
    BY <1>1, <2>2, <2>3, <2>4, <2>5, <2>6, <2>7, <2>8
       DEF Next, TakeCommand, Handshake, Event
<1>2. IInv /\ [Next]_vars =>
        [\A i \in Ids : subscribes[i] # NoSub /\ subscribes'[i] = NoSub
                          => task' # "running" \/ About(i)]_vars
  BY <1>1, IInvParts
<1> QED
  BY Invariance, <1>2, PTL DEF Spec, NoCollateral

-----------------------------------------------------------------------------
(* The controller task implements the Multiplexer: every step joins one    *)
(* subscription, lets one id leave, ends the task, or changes nothing that *)
(* the Multiplexer sees.                                                   *)

Alive == task = "running"
Subs == {p \in Ids \X Services : p[2] \in subscribes[p[1]].services}

\* A step that leaves the task, the table and the connections alone.
LEMMA Stutters ==
  ASSUME task' = task, subscribes' = subscribes, upstream' = upstream
  PROVE  UNCHANGED <<Alive, Subs, upstream>>
BY DEF Alive, Subs

LEMMA TerminateDies ==
  ASSUME task = "running", NEW how \in {"ended", "panicked"}, Terminate(how)
  PROVE  Mux!Die
<1>1. Alive /\ Alive' = FALSE /\ upstream' = {}
  BY DEF Alive, Terminate
<1>2. Subs' = {}
  BY DEF Subs, Terminate, NoSub
<1> QED
  BY <1>1, <1>2 DEF Mux!Die, Alive, Subs

\* finish_subscribe takes all the services of one id, and the connections
\* that nobody else uses.
LEMMA FinishLeaves ==
  ASSUME IInv, IInv', Ready, NEW i \in Ids, NEW ls, FinishSubscribe(i, ls), task' = task
  PROVE  Mux!Leave(i)
<1>1. subscribes' = [subscribes EXCEPT ![i] = NoSub]
  BY DEF FinishSubscribe, Finish
<1>2. Subs' = {p \in Subs : p[1] # i}
  <2>1. \A p \in Ids \X Services :
           p[2] \in subscribes'[p[1]].services
              <=> p[2] \in subscribes[p[1]].services /\ p[1] # i
    BY <1>1 DEF IInv, TypeOK, NoSub
  <2> QED
    BY <2>1 DEF Subs
<1>3. upstream' \subseteq upstream
  BY DEF FinishSubscribe, Finish
<1>4. \A s \in upstream : s \in upstream' <=> \E p \in Subs' : p[2] = s
  <2>1. upstream \subseteq Services
    BY DEF IInv, TypeOK
  <2>2. \A s \in Services : s \in upstream' <=> \E j \in Ids : s \in subscribes'[j].services
    BY DEF IInv, OpenIffUsed, Users
  <2>3. \A s \in Services :
           (\E j \in Ids : s \in subscribes'[j].services) <=> \E p \in Subs' : p[2] = s
    <3> TAKE s \in Services
    <3>1. ASSUME NEW j \in Ids, s \in subscribes'[j].services
          PROVE  \E p \in Subs' : p[2] = s
      <4>1. <<j, s>> \in Subs'
        BY <3>1 DEF Subs
      <4> QED
        BY <4>1
    <3>2. ASSUME NEW p \in Subs', p[2] = s
          PROVE  \E j \in Ids : s \in subscribes'[j].services
      BY <3>2 DEF Subs
    <3> QED
      BY <3>1, <3>2
  <2> QED
    BY <2>1, <2>2, <2>3
<1>5. upstream' = {s \in upstream : \E p \in Subs' : p[2] = s}
  BY <1>3, <1>4
<1>6. Alive /\ Alive' = Alive
  BY DEF Alive, Ready
<1> QED
  BY <1>2, <1>5, <1>6 DEF Mux!Leave, Alive, Subs

LEMMA RegisterJoinsOrDies ==
  ASSUME IInv, task = "running", NEW m \in SubscribeCommand, NEW ks, NEW rest,
         ks = upstream \cup {m.service}, Register(m, ks, rest)
  PROVE  Mux!Join(m.id, m.service) \/ Mux!Die
<1>1. CASE m.service \in subscribes[m.id].services
  BY <1>1, TerminateDies DEF Register
<1>2. CASE m.service \notin subscribes[m.id].services
  <2>1. m.service \in Services /\ m.id \in Ids /\ m.tx \in Chans
    BY DEF SubscribeCommand
  <2>2. /\ task' = task /\ upstream' = upstream \cup {m.service}
        /\ subscribes' = [subscribes EXCEPT ![m.id] =
              [services |-> @.services \cup {m.service},
               tx |-> IF @ = NoSub THEN m.tx ELSE @.tx]]
    BY <1>2 DEF Register, Enter
  <2>3. \A p \in Ids \X Services :
           p[2] \in subscribes'[p[1]].services
              <=> p[2] \in subscribes[p[1]].services \/ p = <<m.id, m.service>>
    BY <2>1, <2>2 DEF IInv, TypeOK, SubscribeInfo
  <2>4. Subs' = Subs \cup {<<m.id, m.service>>}
    BY <2>1, <2>3 DEF Subs
  <2>5. <<m.id, m.service>> \notin Subs
    BY <1>2 DEF Subs
  <2> QED
    BY <2>2, <2>4, <2>5 DEF Mux!Join, Alive, Subs
<1> QED
  BY <1>1, <1>2

LEMMA StepRefines ==
  ASSUME IInv, IInv', [Next]_vars
  PROVE  [Mux!Next]_<<Alive, Subs, upstream>>
<1> USE IInvParts
<1>1. CASE Callers \/ Upstreams \/ UNCHANGED vars
  <2>1. task' = task /\ subscribes' = subscribes /\ upstream' = upstream
    BY <1>1 DEF Callers, Subscribe, Stop, Receive, DropReceiver, DropHandle, Upstreams,
                UpstreamData, UpstreamComplete, UpstreamFault, vars, taskVars, tableVars
  <2> QED
    BY <2>1, Stutters
<1>2. CASE CommandJoin
  <2>1. Head(commands) \in SubscribeCommand
    BY <1>2, HeadCommand DEF CommandJoin
  <2>2. upstream = upstream \cup {Head(commands).service}
    BY <1>2 DEF CommandJoin
  <2> QED
    BY <1>2, <2>1, <2>2, RegisterJoinsOrDies
       DEF CommandJoin, Ready, Mux!Next, SubscribeCommand
<1>3. CASE ConnectionAck
  <2>1. busy.cmd \in SubscribeCommand
    BY <1>3, ConnectingCommand DEF ConnectionAck
  <2> QED
    BY <1>3, <2>1, RegisterJoinsOrDies DEF ConnectionAck, Mux!Next, SubscribeCommand
<1>4. CASE CommandConnect \/ SendInit \/ ConnectFailed("dial") \/ ConnectFailed("ack")
  <2>1. task' = task /\ subscribes' = subscribes /\ upstream' = upstream
    BY <1>4 DEF CommandConnect, SendInit, ConnectFailed, tableVars
  <2> QED
    BY <2>1, Stutters
<1>5. CASE CommandStop
  <2>1. Head(commands).id \in Ids
    BY <1>5, HeadCommand DEF CommandStop
  <2> QED
    BY <1>5, <2>1, FinishLeaves DEF CommandStop, Mux!Next, taskVars
<1>6. CASE CommandsClosed
  BY <1>6, TerminateDies DEF CommandsClosed, Ready, Mux!Next
<1>7. ASSUME NEW s \in Services, EventData(s) \/ EventComplete(s)
      PROVE  [Mux!Next]_<<Alive, Subs, upstream>>
  <2> DEFINE m == Head(link[s])
  <2>1. m.id \in Ids /\ Ready
    BY <1>7, PoppedType DEF EventData, EventComplete, Message, Fault
  <2>2. CASE FinishSubscribe(m.id, Popped(s)) /\ task' = task
    BY <2>1, <2>2, FinishLeaves DEF Mux!Next
  <2>3. CASE UNCHANGED tableVars /\ task' = task
    BY <2>3, Stutters DEF tableVars
  <2> QED
    BY <1>7, <2>2, <2>3 DEF EventData, EventComplete, taskVars
<1>8. ASSUME NEW s \in Services, EventFault(s)
      PROVE  [Mux!Next]_<<Alive, Subs, upstream>>
  BY <1>8, TerminateDies DEF EventFault, Ready, Mux!Next
<1> QED
  BY <1>1, <1>2, <1>3, <1>4, <1>5, <1>6, <1>7, <1>8
     DEF Next, TakeCommand, Handshake, Event

\* Every behaviour of the controller task is one of the Multiplexer.
THEOREM Implementation == Spec => ImplementsMultiplexer
<1>1. Init => Mux!Init
  BY DEF Init, Mux!Init, NoSub
<1>2. IInv /\ IInv' /\ [Next]_vars => [Mux!Next]_Mux!vars
  BY StepRefines DEF Mux!vars, Alive, Subs
<1> QED
  BY Invariance, <1>1, <1>2, PTL DEF Spec, ImplementsMultiplexer, Mux!Spec

=============================================================================

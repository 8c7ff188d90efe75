------------------------------- MODULE Gps_proof -------------------------------
(***************************************************************************)
(* Proofs about Gps, for every number of calls, sentences, commands and    *)
(* descriptors.                                                            *)
(***************************************************************************)
EXTENDS Gps, FiniteSetTheorems, TLAPS

-------------------------------------------------------------------------------
(* The inductive invariant.                                                *)

\* A sentence with both values has overwritten both.
FixInv == Ready(reader.fix) => reader.fix.position = reader.fix.height

\* The thread is made once, by a call of init that then succeeds, and nothing
\* is told before.
ThreadInv ==
  /\ caller # "idle" => init /\ thread = "none"
  /\ thread # "none" => init
  /\ thread = "none" => ~started /\ told = "none"

IInv ==
  TypeOK /\ FixInv /\ FixFromOneSentence /\ ThreadInv /\ SessionsAgree /\ LatestReported

ServerType == [pc : {"none", "start", "accept", "read", "send", "keep"},
               conn : Conns, client : 0 .. MaxInits, backlog : Seq(Conns)]

-------------------------------------------------------------------------------
(* The parts of the actions.                                               *)

\* The descriptors in use are a number.
LEMMA UsedNat == TypeOK => Used \in Nat /\ Used >= leaked
<1> SUFFICES ASSUME TypeOK PROVE Used \in Nat /\ Used >= leaked
  OBVIOUS
<1>1. MaxInits \in Nat /\ MaxFds \in Nat /\ leaked \in 0 .. MaxFds
  BY BoundAssumption DEF TypeOK
<1>2. IsFiniteSet(Inits)
  BY <1>1, FS_Interval DEF Inits
<1> DEFINE C == {i \in Inits : server[i].conn # NoConn}
           D == {i \in Inits : server[i].client # 0}
<1>3. IsFiniteSet(C) /\ IsFiniteSet(D)
  BY <1>2, FS_Subset
<1>4. Cardinality(C) \in Nat /\ Cardinality(D) \in Nat
  BY <1>3, FS_CardinalityType
<1>5. Used = leaked + Cardinality(C) + Cardinality(D)
  BY DEF Used
<1> HIDE DEF C, D
<1> QED BY <1>1, <1>4, <1>5

\* The constants of the model have their types.
LEMMA ConstantTypes ==
  /\ DefaultSentence \in Sentences
  /\ NoConn \in Conns /\ RequestConn \in Conns
  /\ \A i \in 0 .. MaxInits : HalConn(i) \in Conns
  /\ \A s \in Sentences : HostConn(s) \in Conns
  /\ NoFix \in Fixes
<1>1. MaxInits \in Nat /\ MaxSentences \in Nat
  BY BoundAssumption
<1>2. DefaultSentence \in Sentences /\ NoFix \in Fixes
  BY <1>1 DEF DefaultSentence, Sentences, NoFix, Fixes
<1> QED BY <1>1, <1>2 DEF Conns, NoConn, RequestConn, HalConn, HostConn

\* A queued connection keeps the servers' types.
LEMMA QueuedType ==
  ASSUME server \in [Inits -> ServerType], NEW i \in Inits, NEW conn \in Conns, Queued(i, conn)
  PROVE  server' \in [Inits -> ServerType]
<1> DEFINE new == [server[i] EXCEPT !.backlog = Append(server[i].backlog, conn)]
<1>1. server[i] \in ServerType
  OBVIOUS
<1>2. Append(server[i].backlog, conn) \in Seq(Conns)
  BY <1>1 DEF ServerType
<1>3. new \in ServerType
  BY <1>1, <1>2 DEF ServerType
<1>4. server' = [server EXCEPT ![i] = new]
  BY <1>1 DEF Queued, ServerType
<1> HIDE DEF new
<1> QED BY <1>3, <1>4

\* So does the end of a connection.
LEMMA ServedType ==
  ASSUME server \in [Inits -> ServerType], NEW i \in Inits
  PROVE  Served(i) \in [Inits -> ServerType]
BY ConstantTypes DEF Served, ServerType

\* And what is written keeps the wire's.
LEMMA WrittenType ==
  ASSUME wire \in Seq(Sentences), NEW i, NEW s \in Sentences, Written(i, s)
  PROVE  wire' \in Seq(Sentences)
BY DEF Written

\* What the reader makes of a sentence.
LEMMA ParseInv ==
  ASSUME IInv, NEW s \in Sentences, Parse(s)
  PROVE  /\ reader' \in [fix : Fixes, seen : 0 .. MaxSentences, callback : BOOLEAN]
         /\ report' \in Fixes
         /\ FixInv' /\ FixFromOneSentence'
         /\ reader'.callback = reader.callback
         /\ reader'.callback /\ Ready(reader'.fix) => report' = reader'.fix
<1> DEFINE fix == UpdateAltitude(UpdateLatlong(reader.fix, s), s)
<1>1. /\ reader \in [fix : Fixes, seen : 0 .. MaxSentences, callback : BOOLEAN]
      /\ report \in Fixes
  BY DEF IInv, TypeOK
<1>2. UpdateLatlong(reader.fix, s) \in Fixes
  BY <1>1 DEF UpdateLatlong, Fixes, Sentences
<1>3. fix \in Fixes
  BY <1>2 DEF UpdateAltitude, Fixes, Sentences
<1>4. Ready(fix) => fix.position = s.n /\ fix.height = s.n
  BY <1>1 DEF UpdateLatlong, UpdateAltitude, Fixes, Sentences, Ready
<1>5. reader' = [reader EXCEPT !.fix = fix, !.seen = s.n]
  BY DEF Parse
<1>6. report' = IF reader'.callback /\ Ready(reader'.fix) THEN reader'.fix ELSE report
  BY DEF Parse, Reported
<1> HIDE DEF fix
<1>7. reader'.fix = fix /\ reader'.callback = reader.callback
  BY <1>1, <1>5
<1>8. reader' \in [fix : Fixes, seen : 0 .. MaxSentences, callback : BOOLEAN]
  BY <1>1, <1>3, <1>5 DEF Sentences
<1>9. report' \in Fixes
  BY <1>1, <1>3, <1>6, <1>7
<1>10. FixInv' /\ FixFromOneSentence'
  BY <1>4, <1>6, <1>7 DEF FixInv, FixFromOneSentence, IInv, Ready
<1> QED BY <1>6, <1>7, <1>8, <1>9, <1>10

\* What the reader does for a new callback, or for none.
LEMMA SetCallbackInv ==
  ASSUME IInv, NEW on \in BOOLEAN, SetCallback(on)
  PROVE  /\ reader' \in [fix : Fixes, seen : 0 .. MaxSentences, callback : BOOLEAN]
         /\ report' \in Fixes
         /\ FixInv' /\ FixFromOneSentence'
         /\ reader'.callback = on
         /\ on /\ Ready(reader'.fix) => report' = reader'.fix
<1>1. /\ reader \in [fix : Fixes, seen : 0 .. MaxSentences, callback : BOOLEAN]
      /\ report \in Fixes
  BY DEF IInv, TypeOK
<1>2. reader' = [reader EXCEPT !.callback = on]
  BY DEF SetCallback
<1>3. report' = IF reader'.callback /\ Ready(reader'.fix) THEN reader'.fix ELSE report
  BY DEF SetCallback, Reported
<1>4. reader'.fix = reader.fix /\ reader'.callback = on
  BY <1>1, <1>2
<1>5. reader' \in [fix : Fixes, seen : 0 .. MaxSentences, callback : BOOLEAN]
  BY <1>1, <1>2
<1>6. report' \in Fixes
  BY <1>1, <1>3, <1>4
<1>7. FixInv' /\ FixFromOneSentence'
  BY <1>3, <1>4 DEF FixInv, FixFromOneSentence, IInv, Ready
<1> QED BY <1>3, <1>4, <1>5, <1>6, <1>7

\* What no step of the caller and the servers but CreateThread touches.
LEMMA ReaderUntouched ==
  ASSUME IInv, UNCHANGED <<reader, report, started, status, told>>
  PROVE  FixInv' /\ FixFromOneSentence' /\ SessionsAgree' /\ LatestReported'
BY DEF IInv, FixInv, FixFromOneSentence, SessionsAgree, LatestReported, Ready

-------------------------------------------------------------------------------
(* The steps.                                                              *)

\* Nothing has been called.
LEMMA InitInv == Init => IInv
<1> SUFFICES ASSUME Init PROVE IInv
  OBVIOUS
<1> USE DEF Init
<1>1. MaxInits \in Nat /\ MaxSentences \in Nat /\ MaxFds \in Nat
  BY BoundAssumption
<1>2. server \in [Inits -> ServerType]
  BY <1>1, ConstantTypes DEF NewServer, ServerType
<1>3. reader \in [fix : Fixes, seen : 0 .. MaxSentences, callback : BOOLEAN]
  BY <1>1, ConstantTypes
<1>4. TypeOK
  <2>1. /\ gnss \in Sentences /\ report \in Fixes
        /\ control \in Seq({"START", "STOP"}) /\ wire \in Seq(Sentences)
    BY ConstantTypes
  <2>2. /\ inits \in 0 .. MaxInits /\ fd \in 0 .. MaxInits /\ path \in 0 .. MaxInits
        /\ sent \in 0 .. MaxSentences /\ leaked \in 0 .. MaxFds
    BY <1>1
  <2> QED BY <1>2, <1>3, <2>1, <2>2 DEF TypeOK, ServerType
<1>5. ~reader.fix.latlong /\ ~report.latlong /\ ~reader.callback
  BY DEF NoFix
<1> QED BY <1>4, <1>5
        DEF IInv, FixInv, FixFromOneSentence, ThreadInv, SessionsAgree, LatestReported, Ready

\* The caller's steps.
LEMMA CallerInv == IInv /\ Caller => IInv'
<1> SUFFICES ASSUME IInv, Caller PROVE IInv'
  OBVIOUS
<1> USE DEF callerVars, threadVars
<1>0. TypeOK /\ server \in [Inits -> ServerType] /\ MaxInits \in Nat
  BY BoundAssumption DEF IInv, TypeOK, ServerType
<1>1. CASE BeginInit
  <2>1. server' \in [Inits -> ServerType]
    BY <1>0, <1>1 DEF BeginInit, CanInit, ServerType
  <2>2. TypeOK'
    <3>1. inits' \in 0 .. MaxInits
      BY <1>0, <1>1 DEF BeginInit, CanInit, TypeOK
    <3> QED BY <1>0, <1>1, <2>1, <3>1 DEF BeginInit, CanInit, TypeOK, ServerType
  <2>3. ThreadInv'
    BY <1>1 DEF BeginInit, CanInit, IInv, ThreadInv
  <2> QED BY <1>1, <2>2, <2>3, ReaderUntouched DEF BeginInit, CanInit, IInv
<1>2. CASE Connect
  <2>1. server' \in [Inits -> ServerType]
    BY SMTT(30), <1>0, <1>2, ConstantTypes, QueuedType DEF Connect, TypeOK, Inits
  <2>2. TypeOK'
    BY <1>0, <1>2, <2>1 DEF Connect, TypeOK, ServerType
  <2>3. ThreadInv'
    BY <1>2 DEF Connect, IInv, ThreadInv
  <2> QED BY <1>2, <2>2, <2>3, ReaderUntouched DEF Connect, IInv
<1>3. CASE GiveUp
  <2>1. server' \in [Inits -> ServerType]
    BY <1>0, <1>3, ConstantTypes, QueuedType DEF GiveUp, TypeOK, Inits
  <2>2. TypeOK'
    <3>1. fd' \in 0 .. MaxInits
      BY <1>0, <1>3 DEF GiveUp, StateDone
    <3> QED BY <1>0, <1>3, <2>1, <3>1 DEF GiveUp, StateDone, TypeOK, ServerType
  <2>3. ThreadInv'
    BY <1>3 DEF GiveUp, StateDone, IInv, ThreadInv
  <2> QED BY <1>3, <2>2, <2>3, ReaderUntouched DEF GiveUp, IInv
<1>4. CASE ThreadFails
  <2>1. TypeOK'
    <3>1. fd' \in 0 .. MaxInits
      BY <1>0, <1>4 DEF ThreadFails, StateDone
    <3> QED BY <1>0, <1>4, <3>1 DEF ThreadFails, StateDone, TypeOK
  <2>2. ThreadInv'
    BY <1>4 DEF ThreadFails, StateDone, IInv, ThreadInv
  <2> QED BY <1>4, <2>1, <2>2, ReaderUntouched DEF ThreadFails, IInv
<1>5. CASE CreateThread
  <2>1. TypeOK'
    BY <1>0, <1>5 DEF CreateThread, TypeOK
  <2>2. ThreadInv' /\ told = "none" /\ told' = "none" /\ ~started
    BY <1>5 DEF CreateThread, IInv, ThreadInv
  <2>3. FixInv' /\ FixFromOneSentence' /\ LatestReported'
    BY <1>5 DEF CreateThread, IInv, FixInv, FixFromOneSentence, LatestReported, Ready
  <2>4. SessionsAgree'
    BY <1>5, <2>2 DEF CreateThread, IInv, SessionsAgree
  <2> QED BY <2>1, <2>2, <2>3, <2>4 DEF IInv
<1>6. ASSUME NEW cmd \in {"START", "STOP"}, Command(cmd) PROVE IInv'
  <2>1. TypeOK'
    BY <1>0, <1>6 DEF Command, TypeOK
  <2>2. ThreadInv'
    BY <1>6 DEF Command, IInv, ThreadInv
  <2> QED BY <1>6, <2>1, <2>2, ReaderUntouched DEF Command, IInv
<1>7. CASE ServerFails
  <2>1. TypeOK'
    <3>1. inits' \in 0 .. MaxInits /\ fd' \in 0 .. MaxInits
      BY <1>0, <1>7 DEF ServerFails, CanInit, StateDone, TypeOK
    <3> QED BY <1>0, <1>7, <3>1 DEF ServerFails, StateDone, TypeOK
  <2>2. ThreadInv'
    BY <1>7 DEF ServerFails, CanInit, StateDone, IInv, ThreadInv
  <2> QED BY <1>7, <2>1, <2>2, ReaderUntouched DEF ServerFails, IInv
<1> QED BY <1>1, <1>2, <1>3, <1>4, <1>5, <1>6, <1>7 DEF Caller, Start, Stop

\* The servers' steps and the hosts' touch nothing of the thread's.
LEMMA ServerInv ==
  ASSUME IInv, Host \/ \E i \in Inits : Server(i)
  PROVE  IInv'
<1> USE DEF callerVars, threadVars
<1>0. TypeOK /\ server \in [Inits -> ServerType] /\ MaxInits \in Nat /\ MaxSentences \in Nat
  BY BoundAssumption DEF IInv, TypeOK, ServerType
<1>1. CASE Host
  <2>1. PICK s \in Sentences : s.n = sent + 1 /\ Queued(path, HostConn(s))
    BY <1>1 DEF Host
  <2>2. server' \in [Inits -> ServerType]
    BY SMTT(30), <1>0, <1>1, <2>1, ConstantTypes, QueuedType DEF Host, TypeOK, Inits
  <2>3. TypeOK'
    BY <1>0, <1>1, <2>2 DEF Host, TypeOK, ServerType
  <2>4. ThreadInv'
    BY <1>1 DEF Host, IInv, ThreadInv
  <2> QED BY <1>1, <2>3, <2>4, ReaderUntouched DEF Host, IInv
<1>2. ASSUME NEW i \in Inits, Server(i) PROVE IInv'
  <2>1. /\ server[i] \in ServerType
        /\ i \in 0 .. MaxInits
        /\ fd \in 0 .. MaxInits
        /\ Served(i) \in [Inits -> ServerType]
    BY <1>0, ServedType DEF TypeOK, Inits
  <2>2. /\ server' \in [Inits -> ServerType]
        /\ wire' \in Seq(Sentences)
        /\ path' \in 0 .. MaxInits
        /\ gnss' \in Sentences
    <3>1. wire \in Seq(Sentences) /\ path \in 0 .. MaxInits /\ gnss \in Sentences
      BY <1>0 DEF TypeOK
    <3>2. server[i].conn.s \in Sentences
      BY <2>1 DEF ServerType, Conns
    <3>3. CASE Listen(i)
      BY <1>0, <2>1, <3>1, <3>3 DEF Listen, ServerType
    <3>4. CASE Accept(i)
      <4>1. Head(server[i].backlog) \in Conns /\ Tail(server[i].backlog) \in Seq(Conns)
        BY <2>1, <3>4 DEF Accept, ServerType
      <4> QED BY ZenonT(40), <1>0, <3>1, <3>4, <4>1 DEF Accept, ServerType
    <3>5. CASE ReadHello(i)
      BY <1>0, <2>1, <3>1, <3>5, ConstantTypes DEF ReadHello, ServerType
    <3>6. CASE ReadEof(i)
      BY <2>1, <3>1, <3>6 DEF ReadEof
    <3>7. CASE ReadRequest(i)
      BY <1>0, <3>1, <3>7 DEF ReadRequest, ServerType
    <3>8. CASE SendLastData(i)
      BY <2>1, <3>1, <3>8, WrittenType DEF SendLastData
    <3>9. CASE ReadSentence(i)
      <4>1. server' \in [Inits -> ServerType]
        BY <1>0, <3>9 DEF ReadSentence, ServerType
      <4> QED BY <3>1, <3>2, <3>9, <4>1, WrittenType DEF ReadSentence
    <3>10. CASE Keep(i)
      BY <2>1, <3>1, <3>2, <3>10 DEF Keep
    <3> QED BY <1>2, <3>3, <3>4, <3>5, <3>6, <3>7, <3>8, <3>9, <3>10 DEF Server
  <2>3. UNCHANGED <<callerVars, control, sent, threadVars, leaked>>
    BY <1>2 DEF Server, Listen, Accept, ReadHello, ReadEof, ReadRequest, SendLastData,
                ReadSentence, Keep
  <2>4. TypeOK'
    BY <1>0, <2>2, <2>3 DEF TypeOK, ServerType
  <2>5. ThreadInv'
    BY <2>3 DEF IInv, ThreadInv
  <2> QED BY <2>3, <2>4, <2>5, ReaderUntouched DEF IInv
<1> QED BY <1>1, <1>2

\* The thread's steps.
LEMMA ThreadStepInv == IInv /\ Thread => IInv'
<1> SUFFICES ASSUME IInv, Thread PROVE IInv'
  OBVIOUS
<1> USE DEF callerVars, threadVars
<1>0. TypeOK /\ server \in [Inits -> ServerType] /\ MaxFds \in Nat
  BY BoundAssumption DEF IInv, TypeOK, ServerType
<1>1. CASE Hello
  <2>1. TypeOK'
    BY <1>0, <1>1 DEF Hello, TypeOK
  <2>2. ThreadInv'
    BY <1>1 DEF Hello, IInv, ThreadInv
  <2> QED BY <1>1, <2>1, <2>2, ReaderUntouched DEF Hello, IInv
<1>2. CASE Timeout
  <2>1. leaked' \in 0 .. MaxFds
    BY <1>0, <1>2, UsedNat DEF Timeout, TypeOK
  <2>2. server' \in [Inits -> ServerType]
    <3>1. CASE path \in Inits
      BY <1>0, <1>2, <3>1, ConstantTypes, QueuedType DEF Timeout
    <3>2. CASE path \notin Inits
      BY <1>0, <1>2, <3>2 DEF Timeout, Queued
    <3> QED BY <3>1, <3>2
  <2>3. TypeOK'
    BY <1>0, <1>2, <2>1, <2>2 DEF Timeout, TypeOK, ServerType
  <2>4. ThreadInv'
    BY <1>2 DEF Timeout, IInv, ThreadInv
  <2> QED BY <1>2, <2>3, <2>4, ReaderUntouched DEF Timeout, IInv
<1>3. CASE CommandIgnored
  <2>1. TypeOK'
    BY <1>0, <1>3 DEF CommandIgnored, TypeOK
  <2>2. ThreadInv'
    BY <1>3 DEF CommandIgnored, IInv, ThreadInv
  <2> QED BY <1>3, <2>1, <2>2, ReaderUntouched DEF CommandIgnored, IInv
<1>4. CASE CommandObeyed
  <2> DEFINE on == Head(control) = "START"
  <2>1. Head(control) \in {"START", "STOP"} /\ Tail(control) \in Seq({"START", "STOP"})
    BY <1>0, <1>4 DEF CommandObeyed, TypeOK
  <2>2. /\ SetCallback(on) /\ started' = on
        /\ status' = IF on THEN "BEGIN" ELSE "END"
        /\ told' = status' /\ control' = Tail(control)
    BY <1>4 DEF CommandObeyed, Session
  <2>3. thread = "wait" /\ thread' = "wait" /\ init /\ init' /\ caller' = caller
    BY <1>4 DEF CommandObeyed, Waiting, IInv, ThreadInv
  <2> HIDE DEF on
  <2>4. on \in BOOLEAN
    BY DEF on
  <2>5. /\ reader' \in [fix : Fixes, seen : 0 .. MaxSentences, callback : BOOLEAN]
        /\ report' \in Fixes
        /\ FixInv' /\ FixFromOneSentence'
        /\ reader'.callback = on
        /\ on /\ Ready(reader'.fix) => report' = reader'.fix
    BY <2>2, <2>4, SetCallbackInv
  <2>6. TypeOK'
    BY <1>0, <1>4, <2>1, <2>2, <2>4, <2>5 DEF CommandObeyed, TypeOK
  <2>7. ThreadInv'
    BY <2>3 DEF IInv, ThreadInv
  <2>8. SessionsAgree'
    BY <2>2, <2>4, <2>5 DEF SessionsAgree
  <2>9. LatestReported'
    BY <2>2, <2>5 DEF LatestReported, Ready
  <2> QED BY <2>5, <2>6, <2>7, <2>8, <2>9 DEF IInv
<1>5. CASE ReadGps
  <2>1. Head(wire) \in Sentences /\ Tail(wire) \in Seq(Sentences)
    BY <1>0, <1>5 DEF ReadGps, TypeOK
  <2>2. /\ reader' \in [fix : Fixes, seen : 0 .. MaxSentences, callback : BOOLEAN]
        /\ report' \in Fixes
        /\ FixInv' /\ FixFromOneSentence'
        /\ reader'.callback = reader.callback
        /\ reader'.callback /\ Ready(reader'.fix) => report' = reader'.fix
    BY <1>5, <2>1, ParseInv DEF ReadGps
  <2>3. TypeOK'
    BY <1>0, <1>5, <2>1, <2>2 DEF ReadGps, TypeOK
  <2>4. ThreadInv'
    BY <1>5 DEF ReadGps, IInv, ThreadInv
  <2>5. SessionsAgree' /\ LatestReported'
    BY <1>5, <2>2 DEF ReadGps, IInv, SessionsAgree, LatestReported, Ready
  <2> QED BY <2>2, <2>3, <2>4, <2>5 DEF IInv
<1> QED BY <1>1, <1>2, <1>3, <1>4, <1>5 DEF Thread

\* The invariant is inductive.
LEMMA StepInv == IInv /\ [Next]_vars => IInv'
<1> SUFFICES ASSUME IInv, [Next]_vars PROVE IInv'
  OBVIOUS
<1>1. CASE UNCHANGED vars
  BY <1>1 DEF vars, callerVars, threadVars, IInv, TypeOK, FixInv, FixFromOneSentence,
              ThreadInv, SessionsAgree, LatestReported, Ready
<1> QED BY <1>1, CallerInv, ServerInv, ThreadStepInv DEF Next

LEMMA InvHolds == Spec => []IInv
BY InitInv, StepInv, PTL DEF Spec

-------------------------------------------------------------------------------
(* The properties.                                                         *)

\* The types hold, among them that the descriptors do not exceed their number
\* (gps_open_fde.cpp:616).
THEOREM TypeCorrect == Spec => []TypeOK
<1>1. IInv => TypeOK
  BY DEF IInv
<1> QED BY <1>1, InvHolds, PTL

\* What the framework is given is from one sentence, whatever hosts leave out
\* (gps_open_fde.cpp:186, 219, 243).
THEOREM OneSentence == Spec => []FixFromOneSentence
<1>1. IInv => FixFromOneSentence
  BY DEF IInv
<1> QED BY <1>1, InvHolds, PTL

\* The callback, the thread and the framework agree on whether there is a
\* session (gps_open_fde.cpp:646, 657).
THEOREM OneSession == Spec => []SessionsAgree
<1>1. IInv => SessionsAgree
  BY DEF IInv
<1> QED BY <1>1, InvHolds, PTL

\* In a session the framework has the newest fix
\* (gps_open_fde.cpp:258, 357).
THEOREM NewestReported == Spec => []LatestReported
<1>1. IInv => LatestReported
  BY DEF IInv
<1> QED BY <1>1, InvHolds, PTL

\* The framework knows of each session, and its newest fix.
THEOREM FrameworkKnows == Spec => []FrameworkAgrees
  BY OneSession, NewestReported, PTL DEF FrameworkAgrees

-------------------------------------------------------------------------------
(***************************************************************************)
(* The place never goes back. While one init has been called there is one  *)
(* server, and the numbers of the sentences rise on the way from the hosts *)
(* to the framework's report: what is further on the way is not newer.     *)
(***************************************************************************)

\* The sentences on the wire rise, from low to high.
WireRises(w, low, high) ==
  \A k \in 1 .. Len(w) :
    /\ low <= w[k].n /\ w[k].n <= high
    /\ \A l \in k .. Len(w) : w[k].n <= w[l].n

\* So do those of the hosts among the connections that wait.
HostsRise(q, low, high) ==
  \A k \in 1 .. Len(q) : q[k].of = "host" =>
    /\ low <= q[k].s.n /\ q[k].s.n <= high
    /\ \A l \in k .. Len(q) : q[l].of = "host" => q[k].s.n <= q[l].s.n

\* The newest sentence the server has taken, and the newest that the HAL may
\* have been sent.
Taken == IF server[1].conn.of = "host" THEN server[1].conn.s.n ELSE gnss.n
Known == IF server[1].pc = "keep" THEN server[1].conn.s.n ELSE gnss.n

OneServer ==
  /\ path \in {0, 1}
  /\ \A i \in Inits : i > inits => server[i].pc = "none"

ServerRises ==
  /\ server[1].pc = "keep" => server[1].conn.of = "host"
  /\ gnss.n <= Taken /\ Taken <= sent
  /\ HostsRise(server[1].backlog, Taken, sent)

ReaderRises ==
  /\ report.position <= reader.fix.position
  /\ reader.fix.position <= reader.seen
  /\ reader.seen <= Known
  /\ WireRises(wire, reader.seen, Known)

Rising == 1 \in Inits /\ inits <= 1 => OneServer /\ ServerRises /\ ReaderRises

\* The numbers are numbers.
LEMMA WireNumbers ==
  ASSUME NEW w \in Seq(Sentences), NEW k \in 1 .. Len(w)
  PROVE  w[k] \in Sentences /\ w[k].n \in Nat
<1>1. w[k] \in Sentences
  OBVIOUS
<1>2. MaxSentences \in Nat
  BY BoundAssumption
<1>3. \A s \in Sentences : s.n \in Nat
  BY <1>2 DEF Sentences
<1> QED BY <1>1, <1>3

\* A sentence that is not older than those on the wire keeps them in order.
LEMMA WireAppended ==
  ASSUME NEW w \in Seq(Sentences), NEW s \in Sentences, NEW low \in Nat, NEW high \in Nat,
         WireRises(w, low, high), low <= high, high <= s.n
  PROVE  WireRises(Append(w, s), low, s.n)
<1>1. MaxSentences \in Nat /\ s.n \in Nat
  BY BoundAssumption DEF Sentences
<1>2. \A k \in 1 .. Len(w) : w[k] \in Sentences /\ w[k].n \in Nat
  BY WireNumbers
<1> DEFINE v == Append(w, s)
<1>3. /\ Len(v) = Len(w) + 1 /\ Len(w) \in Nat
      /\ v[Len(w) + 1] = s
      /\ \A k \in 1 .. Len(w) : v[k] = w[k]
  OBVIOUS
<1> HIDE DEF v
<1>4. \A k \in 1 .. Len(w) : low <= w[k].n /\ w[k].n <= s.n
  BY <1>1, <1>2 DEF WireRises
<1>5. ASSUME NEW k \in 1 .. Len(v)
      PROVE  /\ low <= v[k].n /\ v[k].n <= s.n
             /\ \A l \in k .. Len(v) : v[k].n <= v[l].n
  <2>1. CASE k = Len(w) + 1
    BY <1>1, <1>3, <2>1
  <2>2. CASE k \in 1 .. Len(w)
    <3>1. low <= v[k].n /\ v[k].n <= s.n
      BY <1>3, <1>4, <2>2
    <3>2. ASSUME NEW l \in k .. Len(v) PROVE v[k].n <= v[l].n
      <4>1. CASE l = Len(w) + 1
        BY <1>3, <3>1, <4>1
      <4>2. CASE l \in k .. Len(w)
        BY <1>3, <2>2, <4>2 DEF WireRises
      <4> QED BY <1>3, <2>2, <4>1, <4>2
    <3> QED BY <3>1, <3>2
  <2> QED BY <1>3, <2>1, <2>2
<1> QED BY <1>5 DEF WireRises, v

\* The first sentence is the oldest on the wire.
LEMMA WireRead ==
  ASSUME NEW w \in Seq(Sentences), w # <<>>, NEW low \in Nat, NEW high \in Nat,
         WireRises(w, low, high)
  PROVE  /\ low <= Head(w).n /\ Head(w).n <= high
         /\ WireRises(Tail(w), Head(w).n, high)
<1> DEFINE v == Tail(w)
<1>1. /\ Len(w) \in Nat /\ Len(w) >= 1 /\ Len(v) = Len(w) - 1 /\ Head(w) = w[1]
      /\ \A k \in 1 .. Len(v) : v[k] = w[k + 1]
  OBVIOUS
<1> HIDE DEF v
<1>2. ASSUME NEW k \in 1 .. Len(v)
      PROVE  /\ w[1].n <= v[k].n /\ v[k].n <= high
             /\ \A l \in k .. Len(v) : v[k].n <= v[l].n
  <2>1. k + 1 \in 1 .. Len(w) /\ 1 \in 1 .. Len(w)
    BY <1>1
  <2>2. w[1].n <= w[k + 1].n /\ w[k + 1].n <= high
    BY <2>1 DEF WireRises
  <2>3. ASSUME NEW l \in k .. Len(v) PROVE v[k].n <= v[l].n
    <3>1. l + 1 \in k + 1 .. Len(w) /\ l \in 1 .. Len(v)
      BY <1>1
    <3>2. w[k + 1].n <= w[l + 1].n
      BY <2>1, <3>1 DEF WireRises
    <3> QED BY <1>1, <3>1, <3>2
  <2> QED BY <1>1, <2>2, <2>3
<1>3. low <= w[1].n /\ w[1].n <= high
  BY <1>1 DEF WireRises
<1> QED BY <1>1, <1>2, <1>3 DEF WireRises, v

\* The bounds may be widened.
LEMMA WireWidened ==
  ASSUME NEW w \in Seq(Sentences), NEW low \in Nat, NEW high \in Nat, NEW more \in Nat,
         high <= more, WireRises(w, low, high)
  PROVE  WireRises(w, low, more)
<1>1. \A k \in 1 .. Len(w) : w[k].n \in Nat
  BY WireNumbers
<1> QED BY <1>1 DEF WireRises

\* The same for the connections that wait.
LEMMA HostNumbers ==
  ASSUME NEW q \in Seq(Conns), NEW k \in 1 .. Len(q)
  PROVE  q[k] \in Conns /\ q[k].s.n \in Nat
<1>1. q[k] \in Conns
  OBVIOUS
<1>2. MaxSentences \in Nat
  BY BoundAssumption
<1>3. \A c \in Conns : c.s \in Sentences
  BY DEF Conns
<1>4. \A s \in Sentences : s.n \in Nat
  BY <1>2 DEF Sentences
<1> QED BY <1>1, <1>3, <1>4

\* A host's connection with the newest sentence, or one that is no host's.
LEMMA HostAppended ==
  ASSUME NEW q \in Seq(Conns), NEW c \in Conns, NEW low \in Nat, NEW high \in Nat,
         NEW new \in Nat, HostsRise(q, low, high), low <= high, high <= new,
         c.of = "host" => c.s.n = new
  PROVE  HostsRise(Append(q, c), low, new)
<1>1. \A k \in 1 .. Len(q) : q[k].s.n \in Nat
  BY HostNumbers
<1> DEFINE v == Append(q, c)
<1>2. /\ Len(v) = Len(q) + 1 /\ Len(q) \in Nat
      /\ v[Len(q) + 1] = c
      /\ \A k \in 1 .. Len(q) : v[k] = q[k]
  OBVIOUS
<1> HIDE DEF v
<1>3. \A k \in 1 .. Len(q) : q[k].of = "host" => low <= q[k].s.n /\ q[k].s.n <= new
  BY <1>1 DEF HostsRise
<1>4. ASSUME NEW k \in 1 .. Len(v), v[k].of = "host"
      PROVE  /\ low <= v[k].s.n /\ v[k].s.n <= new
             /\ \A l \in k .. Len(v) : v[l].of = "host" => v[k].s.n <= v[l].s.n
  <2>1. CASE k = Len(q) + 1
    BY <1>2, <1>4, <2>1
  <2>2. CASE k \in 1 .. Len(q)
    <3>1. low <= v[k].s.n /\ v[k].s.n <= new
      BY <1>2, <1>3, <1>4, <2>2
    <3>2. ASSUME NEW l \in k .. Len(v), v[l].of = "host" PROVE v[k].s.n <= v[l].s.n
      <4>1. CASE l = Len(q) + 1
        BY <1>2, <3>1, <3>2, <4>1
      <4>2. CASE l \in k .. Len(q)
        BY <1>2, <1>4, <2>2, <3>2, <4>2 DEF HostsRise
      <4> QED BY <1>2, <2>2, <4>1, <4>2
    <3> QED BY <3>1, <3>2
  <2> QED BY <1>2, <2>1, <2>2
<1> QED BY <1>4 DEF HostsRise, v

\* A connection is accepted: if it is a host's, no later one's is older.
LEMMA HostAccepted ==
  ASSUME NEW q \in Seq(Conns), q # <<>>, NEW low \in Nat, NEW high \in Nat,
         HostsRise(q, low, high)
  PROVE  /\ HostsRise(Tail(q), low, high)
         /\ Head(q).of = "host" =>
              /\ low <= Head(q).s.n /\ Head(q).s.n <= high
              /\ HostsRise(Tail(q), Head(q).s.n, high)
<1> DEFINE v == Tail(q)
<1>1. /\ Len(q) \in Nat /\ Len(q) >= 1 /\ Len(v) = Len(q) - 1 /\ Head(q) = q[1]
      /\ \A k \in 1 .. Len(v) : v[k] = q[k + 1]
  OBVIOUS
<1> HIDE DEF v
<1>2. ASSUME NEW k \in 1 .. Len(v), v[k].of = "host"
      PROVE  /\ low <= v[k].s.n /\ v[k].s.n <= high
             /\ q[1].of = "host" => q[1].s.n <= v[k].s.n
             /\ \A l \in k .. Len(v) : v[l].of = "host" => v[k].s.n <= v[l].s.n
  <2>1. k + 1 \in 1 .. Len(q) /\ 1 \in 1 .. Len(q) /\ q[k + 1].of = "host"
    BY <1>1, <1>2
  <2>2. /\ low <= q[k + 1].s.n /\ q[k + 1].s.n <= high
        /\ q[1].of = "host" => q[1].s.n <= q[k + 1].s.n
    BY <2>1 DEF HostsRise
  <2>3. ASSUME NEW l \in k .. Len(v), v[l].of = "host" PROVE v[k].s.n <= v[l].s.n
    <3>1. l + 1 \in k + 1 .. Len(q) /\ l \in 1 .. Len(v)
      BY <1>1
    <3>2. q[k + 1].s.n <= q[l + 1].s.n
      BY <1>1, <2>1, <2>3, <3>1 DEF HostsRise
    <3> QED BY <1>1, <3>1, <3>2
  <2> QED BY <1>1, <2>2, <2>3
<1>3. q[1].of = "host" => low <= q[1].s.n /\ q[1].s.n <= high
  BY <1>1 DEF HostsRise
<1> QED BY <1>1, <1>2, <1>3 DEF HostsRise, v

\* The lower bound may fall.
LEMMA HostsWidened ==
  ASSUME NEW q \in Seq(Conns), NEW low \in Nat, NEW high \in Nat, NEW less \in Nat,
         less <= low, HostsRise(q, low, high)
  PROVE  HostsRise(q, less, high)
<1>1. \A k \in 1 .. Len(q) : q[k].s.n \in Nat
  BY HostNumbers
<1> QED BY <1>1 DEF HostsRise

\* The types of what rises.
LEMMA RisingTypes ==
  ASSUME IInv, 1 \in Inits
  PROVE  /\ server \in [Inits -> ServerType] /\ server[1] \in ServerType
         /\ server[1].backlog \in Seq(Conns) /\ server[1].conn \in Conns
         /\ wire \in Seq(Sentences)
         /\ {gnss.n, server[1].conn.s.n, sent, reader.seen, report.position,
             reader.fix.position, Taken, Known, inits} \subseteq Nat
<1>1. MaxSentences \in Nat /\ MaxInits \in Nat
  BY BoundAssumption
<1>2. server \in [Inits -> ServerType] /\ wire \in Seq(Sentences) /\ gnss \in Sentences
  BY DEF IInv, TypeOK, ServerType
<1>3. /\ server[1] \in ServerType /\ server[1].backlog \in Seq(Conns)
      /\ server[1].conn \in Conns /\ server[1].conn.s \in Sentences
  BY <1>2 DEF ServerType, Conns
<1>4. \A s \in Sentences : s.n \in Nat
  BY <1>1 DEF Sentences
<1>5. sent \in Nat /\ reader.seen \in Nat /\ reader.fix \in Fixes /\ report \in Fixes /\ inits \in Nat
  BY <1>1 DEF IInv, TypeOK
<1>6. report.position \in Nat /\ reader.fix.position \in Nat
  BY <1>1, <1>5 DEF Fixes
<1> QED BY <1>2, <1>3, <1>4, <1>5, <1>6 DEF Taken, Known

AllRises == OneServer /\ ServerRises /\ ReaderRises

\* What touches neither the server nor what rises.
LEMMA RisingFrame ==
  ASSUME AllRises, UNCHANGED <<inits, path, server, sent, gnss, wire, reader, report>>
  PROVE  AllRises'
BY DEF AllRises, OneServer, ServerRises, ReaderRises, Taken, Known, HostsRise, WireRises

\* A connection is made. A host's brings the newest sentence.
LEMMA RisingQueued ==
  ASSUME IInv, AllRises, 1 \in Inits, NEW conn \in Conns, Queued(path, conn),
         sent' \in Nat, sent <= sent', conn.of = "host" => conn.s.n = sent',
         UNCHANGED <<inits, path, gnss, wire, reader, report>>
  PROVE  AllRises'
<1> USE DEF AllRises
<1>1. /\ server \in [Inits -> ServerType] /\ server[1] \in ServerType
      /\ server[1].backlog \in Seq(Conns)
      /\ gnss.n \in Nat /\ sent \in Nat /\ Taken \in Nat
  BY RisingTypes
<1>2. /\ server'[1].pc = server[1].pc /\ server'[1].conn = server[1].conn
      /\ \/ server'[1].backlog = server[1].backlog
         \/ server'[1].backlog = Append(server[1].backlog, conn)
      /\ \A i \in Inits : server'[i].pc = server[i].pc
  BY <1>1 DEF Queued, ServerType
<1>3. Taken' = Taken /\ Known' = Known
  BY <1>2 DEF Taken, Known
<1>4. HostsRise(server[1].backlog, Taken, sent) /\ Taken <= sent
  BY DEF ServerRises
<1>5. HostsRise(server'[1].backlog, Taken, sent')
  <2>1. HostsRise(Append(server[1].backlog, conn), Taken, sent')
    BY <1>1, <1>4, HostAppended
  <2>2. HostsRise(server[1].backlog, Taken, sent')
    <3>1. \A k \in 1 .. Len(server[1].backlog) : server[1].backlog[k].s.n \in Nat
      BY <1>1, HostNumbers
    <3> QED BY <1>1, <1>4, <3>1 DEF HostsRise
  <2> QED BY <1>2, <2>1, <2>2
<1>6. ServerRises'
  BY <1>1, <1>2, <1>3, <1>4, <1>5 DEF ServerRises
<1>7. OneServer' /\ ReaderRises'
  BY <1>2, <1>3 DEF OneServer, ReaderRises, WireRises
<1> QED BY <1>6, <1>7

\* The caller's steps.
LEMMA CallerRises ==
  ASSUME IInv, Rising, Caller
  PROVE  Rising'
<1> SUFFICES ASSUME 1 \in Inits, inits' <= 1 PROVE AllRises'
  BY DEF Rising, AllRises, Inits
<1> USE DEF callerVars, threadVars
<1>0. /\ server \in [Inits -> ServerType] /\ inits \in Nat /\ sent \in Nat
      /\ MaxInits \in Nat
  BY RisingTypes, BoundAssumption
<1>1. inits <= 1
  BY <1>0 DEF Caller, BeginInit, ServerFails, Connect, GiveUp, StateDone, ThreadFails, CreateThread,
              Start, Stop, Command
<1>2. AllRises
  BY <1>1 DEF Rising, AllRises
<1>3. CASE BeginInit
  <2>1. inits = 0 /\ inits' = 1 /\ server[1].pc = "none"
    BY <1>0, <1>2, <1>3 DEF BeginInit, CanInit, AllRises, OneServer
  <2>2. /\ server'[1].pc = "start" /\ server'[1].conn = server[1].conn
        /\ server'[1].backlog = server[1].backlog
        /\ \A i \in Inits : i > 1 => server'[i].pc = server[i].pc
    BY <1>0, <1>3, <2>1 DEF BeginInit, CanInit, ServerType
  <2>3. /\ UNCHANGED <<path, sent, gnss, wire, reader, report>>
    BY <1>3 DEF BeginInit, CanInit
  <2>4. Taken' = Taken /\ Known' = Known
    BY <2>1, <2>2, <2>3 DEF Taken, Known
  <2>5. OneServer'
    BY <1>2, <2>1, <2>2, <2>3 DEF AllRises, OneServer, Inits
  <2>6. ServerRises' /\ ReaderRises'
    BY <1>2, <2>2, <2>3, <2>4 DEF AllRises, ServerRises, ReaderRises, HostsRise, WireRises
  <2> QED BY <2>5, <2>6 DEF AllRises
<1>4. ASSUME NEW i \in 0 .. MaxInits, Queued(path, HalConn(i)),
             UNCHANGED <<inits, path, sent, gnss, wire, reader, report>>
      PROVE  AllRises'
  <2>1. HalConn(i) \in Conns /\ HalConn(i).of # "host"
    BY ConstantTypes DEF HalConn
  <2> QED BY <1>0, <1>2, <1>4, <2>1, RisingQueued
<1>5. CASE Connect
  BY <1>4, <1>5 DEF Connect, IInv, TypeOK
<1>6. CASE GiveUp
  BY <1>2, <1>4, <1>6, RisingFrame DEF GiveUp, StateDone, IInv, TypeOK
<1>7. CASE ThreadFails \/ CreateThread \/ Start \/ Stop
  BY <1>2, <1>7, RisingFrame DEF ThreadFails, StateDone, CreateThread, Start, Stop, Command
<1>8. CASE ServerFails
  <2>1. /\ inits = 0 /\ inits' = 1
        /\ UNCHANGED <<path, server, sent, gnss, wire, reader, report>>
    BY <1>0, <1>8 DEF ServerFails
  <2> QED BY <1>2, <2>1
          DEF AllRises, OneServer, ServerRises, ReaderRises, Taken, Known, HostsRise, WireRises,
              Inits
<1> QED BY <1>3, <1>5, <1>6, <1>7, <1>8 DEF Caller

\* The server's steps and the hosts'.
LEMMA ServerRisesOn ==
  ASSUME IInv, Rising, Host \/ \E i \in Inits : Server(i)
  PROVE  Rising'
<1> USE DEF callerVars, threadVars
<1>0. UNCHANGED <<inits, reader, report>>
  BY DEF Host, Server, Listen, Accept, ReadHello, ReadEof, ReadRequest, SendLastData,
         ReadSentence, Keep
<1> SUFFICES ASSUME 1 \in Inits, inits <= 1 PROVE AllRises'
  BY <1>0 DEF Rising, AllRises
<1>1. /\ server \in [Inits -> ServerType] /\ server[1] \in ServerType
      /\ server[1].backlog \in Seq(Conns) /\ server[1].conn \in Conns
      /\ wire \in Seq(Sentences)
      /\ {gnss.n, server[1].conn.s.n, sent, reader.seen, Taken, Known, inits} \subseteq Nat
  BY RisingTypes
<1>2. AllRises /\ OneServer /\ ServerRises /\ ReaderRises
  BY DEF Rising, AllRises
<1>3. CASE Host
  <2>1. PICK s \in Sentences : s.n = sent + 1 /\ Queued(path, HostConn(s))
    BY <1>3 DEF Host
  <2>2. HostConn(s) \in Conns /\ HostConn(s).s.n = sent + 1
    BY <2>1, ConstantTypes DEF HostConn
  <2>3. sent' = sent + 1 /\ UNCHANGED <<path, gnss, wire>>
    BY <1>3 DEF Host
  <2> QED BY <1>0, <1>1, <1>2, <2>1, <2>2, <2>3, RisingQueued
<1>4. ASSUME NEW i \in Inits, Server(i) PROVE AllRises'
  <2>1. i = 1
    <3>1. server[i].pc # "none"
      BY <1>4 DEF Server, Listen, Accept, ReadHello, ReadEof, ReadRequest, SendLastData,
                  ReadSentence, Keep
    <3>2. ~(i > inits)
      BY <1>2, <3>1 DEF OneServer
    <3> QED BY <1>1, <3>2 DEF Inits
  <2>2. sent' = sent /\ UNCHANGED inits
    BY <1>4 DEF Server, Listen, Accept, ReadHello, ReadEof, ReadRequest, SendLastData,
                ReadSentence, Keep
  <2>3. OneServer'
    <3>1. path' \in {0, 1}
      BY <1>2, <1>4, <2>1 DEF OneServer, Server, Listen, Accept, ReadHello, ReadEof, ReadRequest,
                              SendLastData, ReadSentence, Keep
    <3>2. \A j \in Inits : j > inits => server'[j].pc = server[j].pc
      <4> SUFFICES ASSUME NEW j \in Inits, j > inits PROVE server'[j] = server[j]
        OBVIOUS
      <4>1. j # 1
        <5>1. server[1].pc # "none"
          BY <1>4, <2>1 DEF Server, Listen, Accept, ReadHello, ReadEof, ReadRequest,
                            SendLastData, ReadSentence, Keep
        <5> QED BY <1>2, <5>1 DEF OneServer
      <4> USE <4>1
      <4>2. CASE Listen(1) \/ Accept(1)
        BY <1>1, <4>2 DEF Listen, Accept
      <4>3. CASE ReadHello(1) \/ ReadEof(1) \/ ReadRequest(1)
        BY <1>1, <4>3 DEF ReadHello, ReadEof, ReadRequest, Served
      <4>4. CASE SendLastData(1) \/ ReadSentence(1) \/ Keep(1)
        BY <1>1, <4>4 DEF SendLastData, ReadSentence, Keep, Served
      <4> QED BY <1>4, <2>1, <4>2, <4>3, <4>4 DEF Server
    <3> QED BY <1>2, <2>2, <3>1, <3>2 DEF OneServer
  <2>4. CASE Listen(1) \/ ReadRequest(1)
    <3>1. /\ server'[1].pc # "keep" /\ server[1].pc # "keep"
          /\ server'[1].conn = server[1].conn /\ server'[1].backlog = server[1].backlog
          /\ UNCHANGED <<gnss, wire>>
      BY <1>1, <2>4 DEF Listen, ReadRequest, ServerType
    <3>2. Taken' = Taken /\ Known' = Known
      BY <3>1 DEF Taken, Known
    <3> QED BY <1>0, <1>2, <2>2, <2>3, <3>1, <3>2
            DEF AllRises, ServerRises, ReaderRises, HostsRise, WireRises
  <2>5. CASE Accept(1)
    <3> DEFINE q == server[1].backlog
    <3>1. /\ q # <<>> /\ server[1].pc = "accept" /\ server'[1].pc = "read"
          /\ server'[1].conn = Head(q) /\ server'[1].backlog = Tail(q)
          /\ UNCHANGED <<gnss, wire>>
      BY <1>1, <2>5 DEF Accept, ServerType
    <3>2. q \in Seq(Conns) /\ HostsRise(q, Taken, sent) /\ gnss.n <= Taken /\ Taken <= sent
      BY <1>1, <1>2 DEF ServerRises
    <3> HIDE DEF q
    <3>3. Head(q) \in Conns /\ Tail(q) \in Seq(Conns) /\ Head(q).s.n \in Nat
      <4>1. 1 \in 1 .. Len(q) /\ Head(q) = q[1]
        BY <3>1, <3>2
      <4> QED BY <3>1, <3>2, <4>1, HostNumbers
    <3>4. /\ HostsRise(Tail(q), Taken, sent)
          /\ Head(q).of = "host" =>
               /\ Taken <= Head(q).s.n /\ Head(q).s.n <= sent
               /\ HostsRise(Tail(q), Head(q).s.n, sent)
      BY <1>1, <3>1, <3>2, HostAccepted
    <3>5. HostsRise(Tail(q), gnss.n, sent)
      BY <1>1, <3>2, <3>3, <3>4, HostsWidened
    <3>6. Taken' = IF Head(q).of = "host" THEN Head(q).s.n ELSE gnss.n
      BY <3>1 DEF Taken
    <3>7. gnss.n <= Taken' /\ Taken' <= sent /\ HostsRise(Tail(q), Taken', sent)
      BY SMTT(30), <1>1, <3>2, <3>3, <3>4, <3>5, <3>6
    <3>8. ServerRises'
      BY <2>2, <3>1, <3>7 DEF ServerRises
    <3>9. Known' = Known
      BY <3>1 DEF Known
    <3> QED BY <1>0, <1>2, <2>3, <3>1, <3>8, <3>9 DEF AllRises, ReaderRises, WireRises
  <2>6. ASSUME server' = [Served(1) EXCEPT ![1].client = server'[1].client,
                                           ![1].pc = server'[1].pc],
               server[1].pc # "keep", server'[1].pc # "keep", UNCHANGED gnss
        PROVE  ServerRises' /\ Known' = Known /\ Known = gnss.n
    <3>1. server'[1].conn = NoConn /\ server'[1].backlog = server[1].backlog
      BY <1>1, <2>6 DEF Served, ServerType
    <3>2. Taken' = gnss.n /\ Known' = Known /\ Known = gnss.n
      BY <2>6, <3>1 DEF Taken, Known, NoConn
    <3>3. HostsRise(server[1].backlog, gnss.n, sent)
      BY <1>1, <1>2, HostsWidened DEF ServerRises
    <3> QED BY <1>1, <1>2, <2>2, <2>6, <3>1, <3>2, <3>3 DEF ServerRises
  <2>7. CASE ReadHello(1)
    <3>1. /\ server' = [Served(1) EXCEPT ![1].client = server'[1].client,
                                         ![1].pc = server'[1].pc]
          /\ server[1].pc # "keep" /\ server'[1].pc # "keep" /\ UNCHANGED <<gnss, wire>>
      BY ZenonT(40), <1>1, <2>7 DEF ReadHello, Served, ServerType
    <3> QED BY <1>0, <1>2, <2>3, <2>6, <3>1 DEF AllRises, ReaderRises, WireRises
  <2>8. CASE ReadEof(1)
    <3>1. /\ server' = [Served(1) EXCEPT ![1].client = server'[1].client,
                                         ![1].pc = server'[1].pc]
          /\ server[1].pc # "keep" /\ server'[1].pc # "keep" /\ UNCHANGED <<gnss, wire>>
      BY ZenonT(40), <1>1, <2>8 DEF ReadEof, Served, ServerType
    <3> QED BY <1>0, <1>2, <2>3, <2>6, <3>1 DEF AllRises, ReaderRises, WireRises
  <2>9. CASE SendLastData(1)
    <3>1. /\ server' = [Served(1) EXCEPT ![1].client = server'[1].client,
                                         ![1].pc = server'[1].pc]
          /\ server[1].pc # "keep" /\ server'[1].pc # "keep" /\ UNCHANGED gnss
      BY ZenonT(40), <1>1, <2>9 DEF SendLastData, Served, ServerType
    <3>2. ServerRises' /\ Known' = gnss.n /\ Known = gnss.n
      BY <2>6, <3>1
    <3>3. WireRises(Append(wire, gnss), reader.seen, gnss.n)
      BY SMTT(30), <1>1, <1>2, <3>2, WireAppended DEF ReaderRises, IInv, TypeOK
    <3>4. WireRises(wire', reader.seen, gnss.n)
      BY <1>2, <2>9, <3>2, <3>3 DEF SendLastData, Written, ReaderRises
    <3> QED BY <1>0, <1>2, <2>3, <3>2, <3>4 DEF AllRises, ReaderRises
  <2>10. CASE ReadSentence(1)
    <3> DEFINE s == server[1].conn.s
    <3>1. /\ server'[1].pc = "keep" /\ server[1].pc = "read" /\ server[1].conn.of = "host"
          /\ server'[1].conn = server[1].conn /\ server'[1].backlog = server[1].backlog
          /\ UNCHANGED gnss
          /\ wire' \in {wire, Append(wire, s)}
      BY <1>1, <2>10 DEF ReadSentence, Written, ServerType
    <3>2. Taken' = s.n /\ Taken = s.n /\ Known' = s.n /\ Known = gnss.n
      BY <3>1 DEF Taken, Known
    <3>3. gnss.n <= s.n /\ s \in Sentences /\ s.n \in Nat
      BY <1>1, <1>2, <3>2 DEF ServerRises, Conns
    <3>4. ServerRises'
      BY <1>2, <2>2, <3>1, <3>2 DEF ServerRises
    <3> HIDE DEF s
    <3>5. WireRises(wire, reader.seen, gnss.n) /\ reader.seen <= gnss.n
      BY <1>2, <3>2 DEF ReaderRises
    <3>6. WireRises(Append(wire, s), reader.seen, s.n)
      BY <1>1, <3>3, <3>5, WireAppended
    <3>7. WireRises(wire, reader.seen, s.n)
      BY <1>1, <3>3, <3>5, WireWidened
    <3>8. WireRises(wire', reader.seen, s.n)
      BY <3>1, <3>6, <3>7, Zenon
    <3>9. reader.seen <= s.n
      BY <1>1, <3>3, <3>5
    <3> QED BY <1>0, <1>2, <2>3, <3>2, <3>4, <3>8, <3>9 DEF AllRises, ReaderRises
  <2>11. CASE Keep(1)
    <3>1. /\ server[1].pc = "keep" /\ server'[1].pc = "accept" /\ server'[1].conn = NoConn
          /\ server'[1].backlog = server[1].backlog
          /\ gnss' = server[1].conn.s /\ UNCHANGED wire
      BY <1>1, <2>11 DEF Keep, Served, ServerType
    <3>2. Taken' = gnss'.n /\ Taken = gnss'.n /\ Known' = gnss'.n /\ Known = gnss'.n
      BY <1>2, <3>1 DEF Taken, Known, NoConn, ServerRises
    <3>3. ServerRises'
      BY <1>1, <1>2, <2>2, <3>1, <3>2 DEF ServerRises
    <3> QED BY <1>0, <1>2, <2>3, <3>1, <3>2, <3>3 DEF AllRises, ReaderRises, WireRises
  <2> QED BY <1>4, <2>1, <2>4, <2>5, <2>7, <2>8, <2>9, <2>10, <2>11 DEF Server
<1> QED BY <1>3, <1>4

\* The thread's steps. What is reported is never older than before.
LEMMA ThreadRises ==
  ASSUME IInv, Rising, Thread
  PROVE  Rising'
<1> USE DEF callerVars, threadVars
<1>0. inits' = inits
  BY DEF Thread, Hello, Timeout, CommandIgnored, CommandObeyed, ReadGps
<1> SUFFICES ASSUME 1 \in Inits, inits <= 1 PROVE AllRises'
  BY <1>0 DEF Rising, AllRises
<1>1. /\ server \in [Inits -> ServerType]
      /\ wire \in Seq(Sentences)
      /\ {sent, reader.seen, report.position, reader.fix.position, Known} \subseteq Nat
  BY RisingTypes
<1>2. AllRises /\ ReaderRises
  BY DEF Rising, AllRises
<1>3. CASE Hello \/ CommandIgnored
  BY <1>2, <1>3, RisingFrame DEF Hello, CommandIgnored
<1>4. CASE Timeout
  <2>1. RequestConn \in Conns /\ RequestConn.of # "host"
    BY ConstantTypes DEF RequestConn
  <2> QED BY <1>1, <1>2, <1>4, <2>1, RisingQueued DEF Timeout
<1>5. ASSUME UNCHANGED <<inits, path, server, sent, gnss>>
      PROVE  OneServer' /\ ServerRises' /\ Known' = Known
  BY <1>2, <1>5 DEF AllRises, OneServer, ServerRises, Taken, Known, HostsRise
<1>6. CASE CommandObeyed
  <2>1. UNCHANGED <<inits, path, server, sent, gnss, wire>>
    BY <1>6 DEF CommandObeyed
  <2>2. /\ reader'.fix = reader.fix /\ reader'.seen = reader.seen
        /\ report' = report \/ report' = reader'.fix
    BY <1>6 DEF CommandObeyed, Session, SetCallback, Reported, IInv, TypeOK
  <2>3. ReaderRises'
    BY <1>1, <1>2, <1>5, <2>1, <2>2 DEF ReaderRises, WireRises
  <2> QED BY <1>5, <2>1, <2>3 DEF AllRises
<1>7. CASE ReadGps
  <2> DEFINE s == Head(wire)
  <2>1. UNCHANGED <<inits, path, server, sent, gnss>> /\ wire # <<>> /\ wire' = Tail(wire)
    BY <1>7 DEF ReadGps
  <2>2. s \in Sentences /\ s.n \in Nat
    BY <1>1, <2>1, WireNumbers
  <2>3. /\ reader'.seen = s.n
        /\ reader'.fix.position \in {reader.fix.position, s.n}
        /\ report' = report \/ report' = reader'.fix
    BY <1>7, <2>2 DEF ReadGps, Parse, UpdateLatlong, UpdateAltitude, Reported, IInv, TypeOK, Fixes
  <2> HIDE DEF s
  <2>4. reader.seen <= s.n /\ s.n <= Known /\ WireRises(Tail(wire), s.n, Known)
    BY <1>1, <1>2, <2>1, WireRead DEF ReaderRises, s
  <2>5. /\ report'.position <= reader'.fix.position /\ reader'.fix.position <= reader'.seen
        /\ reader'.seen <= Known
    BY <1>1, <1>2, <2>2, <2>3, <2>4 DEF ReaderRises
  <2>6. ReaderRises'
    BY <1>5, <2>1, <2>3, <2>4, <2>5 DEF ReaderRises
  <2> QED BY <1>5, <2>1, <2>6 DEF AllRises
<1> QED BY <1>3, <1>4, <1>6, <1>7 DEF Thread

\* Nothing has been sent.
LEMMA RisingInit == Init => Rising
<1> SUFFICES ASSUME Init, 1 \in Inits PROVE OneServer /\ ServerRises /\ ReaderRises
  BY DEF Rising
<1> USE DEF Init
<1>1. server[1] = NewServer /\ Taken = 0 /\ Known = 0
  BY DEF NewServer, NoConn, Taken, Known, DefaultSentence
<1> QED BY <1>1 DEF OneServer, ServerRises, ReaderRises, NewServer, HostsRise, WireRises,
                    DefaultSentence, NoFix

LEMMA RisingStep == IInv /\ Rising /\ [Next]_vars => Rising'
<1> SUFFICES ASSUME IInv, Rising, [Next]_vars PROVE Rising'
  OBVIOUS
<1>1. CASE UNCHANGED vars
  <2>1. UNCHANGED <<inits, path, server, sent, gnss, wire, reader, report>>
    BY <1>1 DEF vars, callerVars, threadVars
  <2> QED BY <2>1, RisingFrame DEF Rising, AllRises
<1> QED BY <1>1, CallerRises, ServerRisesOn, ThreadRises DEF Next

LEMMA RisingHolds == Spec => [](IInv /\ Rising)
<1>1. Init => IInv /\ Rising
  BY InitInv, RisingInit
<1>2. IInv /\ Rising /\ [Next]_vars => (IInv /\ Rising)'
  BY StepInv, RisingStep
<1> QED BY <1>1, <1>2, PTL DEF Spec

\* A step leaves the report, or makes it the reader's fix, which has seen what
\* the report has.
LEMMA ReportStep ==
  ASSUME IInv, Rising, [Next]_vars, inits = 1
  PROVE  report'.position >= report.position
<1>0. 1 \in Inits
  BY BoundAssumption DEF IInv, TypeOK, Inits
<1>1. /\ wire \in Seq(Sentences)
      /\ {reader.seen, report.position, reader.fix.position, Known} \subseteq Nat
  BY <1>0, RisingTypes
<1>2. ReaderRises
  BY <1>0 DEF Rising
<1>3. CASE report' = report
  BY <1>1, <1>3
<1>4. CASE CommandObeyed
  <2>1. report' = report \/ report' = reader.fix
    BY <1>4 DEF CommandObeyed, Session, SetCallback, Reported, IInv, TypeOK
  <2> QED BY <1>1, <1>2, <2>1 DEF ReaderRises
<1>5. CASE ReadGps
  <2> DEFINE s == Head(wire)
  <2>1. wire # <<>>
    BY <1>5 DEF ReadGps
  <2>2. s \in Sentences /\ s.n \in Nat
    BY <1>1, <2>1, WireNumbers
  <2>3. report'.position \in {report.position, reader.fix.position, s.n}
    BY <1>5, <2>2 DEF ReadGps, Parse, UpdateLatlong, UpdateAltitude, Reported, IInv, TypeOK, Fixes
  <2> HIDE DEF s
  <2>4. reader.seen <= s.n
    BY <1>1, <1>2, <2>1, WireRead DEF ReaderRises, s
  <2> QED BY <1>1, <1>2, <2>2, <2>3, <2>4 DEF ReaderRises
<1>6. CommandObeyed \/ ReadGps \/ report' = report
  BY DEF Next, Caller, BeginInit, ServerFails, Connect, GiveUp, StateDone, ThreadFails, CreateThread, Start,
         Stop, Command, Host, Server, Listen, Accept, ReadHello, ReadEof, ReadRequest,
         SendLastData, ReadSentence, Keep, Thread, Hello, Timeout, CommandIgnored,
         vars, callerVars, threadVars
<1> QED BY <1>3, <1>4, <1>5, <1>6

\* Where the first init succeeds the place reported never goes back, however
\* hosts, requests, sessions and the reader overtake each other
\* (gps_open_fde.cpp:742).
THEOREM PlacesGoForward == Spec => NeverBackwards
<1>1. IInv /\ Rising /\ [Next]_vars => [inits = 1 => report'.position >= report.position]_vars
  BY ReportStep
<1> QED BY <1>1, RisingHolds, PTL DEF Spec, NeverBackwards

-------------------------------------------------------------------------------
(***************************************************************************)
(* Nothing is lost. While one init has been called, the newest sentence of *)
(* the hosts has been seen by the reader or is on its way: on the wire, in *)
(* a connection that waits, with the server, or in the property from which *)
(* the HAL, whose connection waits or which has asked, will be sent it.    *)
(***************************************************************************)
HasHost(q, n) == \E k \in 1 .. Len(q) : q[k].of = "host" /\ q[k].s.n = n
HasHal(q) == \E k \in 1 .. Len(q) : q[k] = HalConn(1)

\* The HAL's connection is not yet answered.
HalWaits ==
  \/ HasHal(server[1].backlog)
  \/ server[1].pc = "read" /\ server[1].conn = HalConn(1)

OnWire(n) == wire # <<>> /\ wire[Len(wire)].n = n

OneHal ==
  /\ caller # "idle" => thread = "none" /\ inits = 1
  /\ inits = 0 => thread = "none"
  /\ caller = "thread" \/ thread # "none" => fd = 1
  /\ server[1].client \in {0, 1}
  /\ thread = "none" => server[1].client = 0

ServerNewest ==
  /\ server[1].conn.of = "host" => server[1].pc \in {"read", "keep"}
  /\ Taken = sent \/ HasHost(server[1].backlog, sent)

HalNewest ==
  caller = "thread" \/ thread # "none" =>
    /\ server[1].client = 0 => HalWaits
    /\ server[1].client # 0 => reader.seen = Known \/ OnWire(Known) \/ server[1].pc = "send"

Arrives == OneHal /\ ServerNewest /\ HalNewest

NewestInv == 1 \in Inits /\ inits <= 1 => Arrives

NothingLost ==
  inits = 1 /\ thread # "none" =>
    \/ reader.seen = sent
    \/ OnWire(sent)
    \/ HasHost(server[1].backlog, sent)
    \/ server[1].pc = "read" /\ server[1].conn.of = "host" /\ server[1].conn.s.n = sent
    \/ Known = sent /\ (server[1].pc = "send" \/ (server[1].client = 0 /\ HalWaits))

\* A connection that is made waits, and those that wait go on waiting.
LEMMA QueueAppended ==
  ASSUME NEW q \in Seq(Conns), NEW c \in Conns, NEW n
  PROVE  /\ HasHost(q, n) => HasHost(Append(q, c), n)
         /\ HasHal(q) => HasHal(Append(q, c))
         /\ c.of = "host" /\ c.s.n = n => HasHost(Append(q, c), n)
         /\ c = HalConn(1) => HasHal(Append(q, c))
<1> DEFINE v == Append(q, c)
<1>1. /\ Len(v) = Len(q) + 1 /\ Len(q) \in Nat /\ v[Len(q) + 1] = c
      /\ \A k \in 1 .. Len(q) : v[k] = q[k]
  OBVIOUS
<1> HIDE DEF v
<1>2. Len(q) + 1 \in 1 .. Len(v) /\ \A k \in 1 .. Len(q) : k \in 1 .. Len(v)
  BY <1>1
<1>3. (HasHost(q, n) => HasHost(v, n)) /\ (HasHal(q) => HasHal(v))
  BY <1>1, <1>2 DEF HasHost, HasHal
<1>4. /\ c.of = "host" /\ c.s.n = n => HasHost(v, n)
      /\ c = HalConn(1) => HasHal(v)
  BY <1>1, <1>2 DEF HasHost, HasHal
<1> QED BY <1>3, <1>4 DEF v

\* A connection that waits is the one accepted or goes on waiting.
LEMMA QueueAccepted ==
  ASSUME NEW q \in Seq(Conns), q # <<>>, NEW n
  PROVE  /\ HasHost(q, n) => HasHost(Tail(q), n) \/ (Head(q).of = "host" /\ Head(q).s.n = n)
         /\ HasHal(q) => HasHal(Tail(q)) \/ Head(q) = HalConn(1)
<1> DEFINE v == Tail(q)
<1>1. /\ Len(q) \in Nat /\ Len(v) = Len(q) - 1 /\ Head(q) = q[1]
      /\ \A k \in 1 .. Len(v) : v[k] = q[k + 1]
  OBVIOUS
<1> HIDE DEF v
<1>2. ASSUME NEW k \in 1 .. Len(q), k # 1 PROVE k - 1 \in 1 .. Len(v) /\ v[k - 1] = q[k]
  <2>1. k - 1 \in 1 .. Len(v) /\ (k - 1) + 1 = k
    BY <1>1, <1>2
  <2> QED BY <1>1, <2>1
<1> QED BY <1>1, <1>2 DEF HasHost, HasHal, v

\* What touches nothing on the way.
LEMMA ArrivesFrame ==
  ASSUME Arrives, UNCHANGED <<caller, inits, fd, server, sent, gnss, wire, thread>>,
         reader'.seen = reader.seen
  PROVE  Arrives'
BY DEF Arrives, OneHal, ServerNewest, HalNewest, Taken, Known, HalWaits, HasHost, HasHal, OnWire

\* A connection is made with the server.
LEMMA NewestQueued ==
  ASSUME IInv, 1 \in Inits, OneServer, ServerNewest, path # 0, NEW conn \in Conns,
         Queued(path, conn), UNCHANGED <<gnss, wire>>,
         sent' = sent \/ (conn.of = "host" /\ conn.s.n = sent')
  PROVE  /\ ServerNewest' /\ Known' = Known
         /\ server'[1].pc = server[1].pc /\ server'[1].client = server[1].client
         /\ HalWaits => HalWaits'
         /\ conn = HalConn(1) => HalWaits'
<1> DEFINE q == server[1].backlog
<1>1. /\ server \in [Inits -> ServerType] /\ q \in Seq(Conns) /\ path = 1
  BY RisingTypes DEF OneServer
<1>2. server'[1] = [server[1] EXCEPT !.backlog = Append(q, conn)]
  BY <1>1 DEF Queued, ServerType
<1>3. /\ server'[1].pc = server[1].pc /\ server'[1].client = server[1].client
      /\ server'[1].conn = server[1].conn /\ server'[1].backlog = Append(q, conn)
  BY <1>1, <1>2 DEF ServerType
<1> HIDE DEF q
<1>4. Known' = Known /\ Taken' = Taken
  BY <1>3 DEF Known, Taken
<1>5. Taken' = sent' \/ HasHost(Append(q, conn), sent')
  BY <1>1, <1>4, QueueAppended DEF ServerNewest, q
<1>6. ServerNewest'
  BY <1>3, <1>5 DEF ServerNewest
<1>7. (HalWaits => HalWaits') /\ (conn = HalConn(1) => HalWaits')
  BY <1>1, <1>3, QueueAppended DEF HalWaits, q
<1> QED BY <1>3, <1>4, <1>6, <1>7

LEMMA NewestCaller ==
  ASSUME IInv, Rising, NewestInv, Caller
  PROVE  NewestInv'
<1> SUFFICES ASSUME 1 \in Inits, inits' <= 1 PROVE Arrives'
  BY DEF NewestInv, Inits
<1> USE DEF callerVars, threadVars
<1>0. /\ server \in [Inits -> ServerType] /\ inits \in Nat /\ MaxInits \in Nat
  BY RisingTypes, BoundAssumption
<1>1. inits <= 1
  BY <1>0 DEF Caller, BeginInit, ServerFails, Connect, GiveUp, StateDone, ThreadFails, CreateThread,
              Start, Stop, Command
<1>2. Arrives /\ OneServer
  BY <1>1 DEF NewestInv, Rising
<1>3. CASE BeginInit
  <2>1. inits = 0 /\ inits' = 1 /\ thread = "none" /\ caller' = "connect"
        /\ UNCHANGED <<sent, gnss, wire, thread>>
        /\ server[1].pc = "none"
    BY <1>0, <1>2, <1>3 DEF BeginInit, CanInit, Arrives, OneHal, OneServer
  <2>2. /\ server'[1].conn = server[1].conn /\ server'[1].pc = "start"
        /\ server'[1].backlog = server[1].backlog /\ server'[1].client = server[1].client
    BY <1>0, <1>3, <2>1 DEF BeginInit, CanInit, ServerType
  <2>3. ServerNewest'
    <3>1. Taken' = Taken
      BY <2>1, <2>2 DEF Taken
    <3> QED BY <1>2, <2>1, <2>2, <3>1 DEF Arrives, ServerNewest
  <2> QED BY <1>2, <2>1, <2>2, <2>3 DEF Arrives, OneHal, HalNewest
<1>4. CASE Connect
  <2>1. /\ caller = "connect" /\ caller' = "thread" /\ path # 0 /\ fd' = inits
        /\ Queued(path, HalConn(inits))
        /\ UNCHANGED <<inits, sent, gnss, wire, thread>>
    BY <1>4 DEF Connect
  <2>2. inits = 1 /\ thread = "none" /\ server[1].client = 0
    BY <1>2, <2>1 DEF Arrives, OneHal
  <2>3. HalConn(1) \in Conns
    BY ConstantTypes DEF HalConn, Inits
  <2>4. /\ ServerNewest' /\ server'[1].client = server[1].client /\ HalWaits'
    BY <1>2, <2>1, <2>2, <2>3, NewestQueued DEF Arrives
  <2> QED BY <2>1, <2>2, <2>4 DEF Arrives, OneHal, HalNewest
<1>5. CASE GiveUp
  <2>1. /\ caller = "connect" /\ caller' = "idle" /\ UNCHANGED <<inits, sent, gnss, wire, thread>>
        /\ server' = server \/ (path # 0 /\ Queued(path, HalConn(inits)))
    BY <1>5 DEF GiveUp, StateDone
  <2>2. inits = 1 /\ thread = "none" /\ server[1].client = 0
    BY <1>2, <2>1 DEF Arrives, OneHal
  <2>3. HalConn(1) \in Conns
    BY ConstantTypes DEF HalConn, Inits
  <2>4. ServerNewest' /\ server'[1].client = server[1].client
    <3>1. CASE server' = server
      BY <1>2, <2>1, <3>1 DEF Arrives, ServerNewest, Taken
    <3>2. CASE path # 0 /\ Queued(path, HalConn(inits))
      BY <1>2, <2>1, <2>2, <2>3, <3>2, NewestQueued DEF Arrives
    <3> QED BY <2>1, <3>1, <3>2
  <2> QED BY <2>1, <2>2, <2>4 DEF Arrives, OneHal, HalNewest
<1>6. CASE ThreadFails
  <2>1. /\ caller = "thread" /\ caller' = "idle"
        /\ UNCHANGED <<inits, server, sent, gnss, wire, thread>>
    BY <1>6 DEF ThreadFails, StateDone
  <2>2. thread = "none" /\ inits = 1
    BY <1>2, <2>1 DEF Arrives, OneHal
  <2> QED BY <1>2, <2>1, <2>2 DEF Arrives, OneHal, HalNewest, ServerNewest, Taken
<1>7. CASE CreateThread
  <2>1. /\ caller = "thread" /\ caller' = "idle" /\ thread' = "hello"
        /\ UNCHANGED <<inits, fd, server, sent, gnss, wire, reader>>
    BY <1>7 DEF CreateThread
  <2>2. thread = "none" /\ inits = 1 /\ fd = 1 /\ server[1].client = 0
    BY <1>2, <2>1 DEF Arrives, OneHal
  <2> QED BY <1>2, <2>1, <2>2
          DEF Arrives, OneHal, HalNewest, ServerNewest, Taken, HalWaits, HasHal, HasHost
<1>8. CASE Start \/ Stop
  BY <1>2, <1>8, ArrivesFrame DEF Start, Stop, Command
<1>9. CASE ServerFails
  <2>1. /\ inits = 0 /\ inits' = 1 /\ thread = "none" /\ caller' = "idle"
        /\ UNCHANGED <<server, sent, gnss, wire, thread, reader>>
    BY <1>0, <1>2, <1>9 DEF ServerFails, CanInit, StateDone, Arrives, OneHal
  <2> QED BY <1>2, <2>1 DEF Arrives, OneHal, HalNewest, ServerNewest, Taken
<1> QED BY <1>3, <1>4, <1>5, <1>6, <1>7, <1>8, <1>9 DEF Caller

LEMMA NewestServer ==
  ASSUME IInv, Rising, NewestInv, Host \/ \E i \in Inits : Server(i)
  PROVE  NewestInv'
<1> USE DEF callerVars, threadVars
<1>0. UNCHANGED <<caller, inits, fd, thread, reader>>
  BY DEF Host, Server, Listen, Accept, ReadHello, ReadEof, ReadRequest, SendLastData,
         ReadSentence, Keep
<1> SUFFICES ASSUME 1 \in Inits, inits <= 1 PROVE Arrives'
  BY <1>0 DEF NewestInv
<1>1. /\ server \in [Inits -> ServerType] /\ server[1] \in ServerType
      /\ server[1].backlog \in Seq(Conns) /\ wire \in Seq(Sentences) /\ gnss \in Sentences
      /\ server[1].conn.s \in Sentences /\ inits \in Nat
      /\ sent \in Nat
  BY RisingTypes DEF Conns, IInv, TypeOK
<1>2. Arrives /\ OneHal /\ ServerNewest /\ HalNewest /\ OneServer /\ ServerRises
  BY DEF NewestInv, Arrives, Rising
<1>3. CASE Host
  <2>1. PICK s \in Sentences : s.n = sent + 1 /\ Queued(path, HostConn(s))
    BY <1>3 DEF Host
  <2>2. HostConn(s) \in Conns /\ HostConn(s).of = "host" /\ HostConn(s).s.n = sent + 1
    BY <2>1, ConstantTypes DEF HostConn
  <2>3. path # 0 /\ sent' = sent + 1 /\ UNCHANGED <<gnss, wire>>
    BY <1>3 DEF Host
  <2>4. /\ ServerNewest' /\ Known' = Known
        /\ server'[1].pc = server[1].pc /\ server'[1].client = server[1].client
        /\ HalWaits => HalWaits'
    BY <1>2, <2>1, <2>2, <2>3, NewestQueued
  <2> QED BY <1>0, <1>2, <2>3, <2>4 DEF Arrives, OneHal, HalNewest, OnWire
<1>4. ASSUME NEW i \in Inits, Server(i) PROVE Arrives'
  <2>1. i = 1
    <3>1. server[i].pc # "none"
      BY <1>4 DEF Server, Listen, Accept, ReadHello, ReadEof, ReadRequest, SendLastData,
                  ReadSentence, Keep
    <3>2. ~(i > inits)
      BY <1>2, <3>1 DEF OneServer
    <3> QED BY <1>1, <3>2 DEF Inits
  <2>2. sent' = sent
    BY <1>4 DEF Server, Listen, Accept, ReadHello, ReadEof, ReadRequest, SendLastData,
                ReadSentence, Keep
  <2>3. CASE Listen(1) \/ ReadRequest(1)
    <3>1. /\ server'[1].pc \notin {"read", "keep"} /\ server[1].pc \notin {"keep", "send"}
          /\ server'[1].conn = server[1].conn /\ server'[1].backlog = server[1].backlog
          /\ server'[1].client = server[1].client
          /\ UNCHANGED <<gnss, wire>>
          /\ server[1].pc = "read" => server[1].conn.of = "request"
      BY <1>1, <2>3 DEF Listen, ReadRequest, ServerType
    <3>2. Taken' = Taken /\ Known' = Known
      BY <3>1 DEF Taken, Known
    <3>3. HalWaits => HalWaits'
      BY <3>1 DEF HalWaits, HalConn
    <3>4. ServerNewest'
      BY <1>2, <2>2, <3>1, <3>2, <3>3 DEF ServerNewest
    <3>5. HalNewest'
      BY <1>0, <1>2, <3>1, <3>2, <3>3 DEF HalNewest, OnWire
    <3> QED BY <1>0, <1>2, <3>1, <3>4, <3>5 DEF Arrives, OneHal
  <2>4. CASE Accept(1)
    <3> DEFINE q == server[1].backlog
    <3>1. /\ q # <<>> /\ server[1].pc = "accept" /\ server'[1].pc = "read"
          /\ server'[1].conn = Head(q) /\ server'[1].backlog = Tail(q)
          /\ server'[1].client = server[1].client
          /\ UNCHANGED <<gnss, wire>>
      BY <1>1, <2>4 DEF Accept, ServerType
    <3>2. Taken = gnss.n /\ Known' = Known
      BY <1>2, <3>1 DEF Taken, Known, ServerNewest
    <3>3. Taken' = IF Head(q).of = "host" THEN Head(q).s.n ELSE gnss.n
      BY <3>1 DEF Taken
    <3> HIDE DEF q
    <3>4. Taken = sent \/ HasHost(q, sent)
      BY <1>2 DEF ServerNewest, q
    <3>5. Taken' = sent \/ HasHost(Tail(q), sent)
      <4>1. CASE HasHost(q, sent)
        BY <1>1, <3>1, <3>3, <4>1, QueueAccepted DEF q
      <4>2. CASE Taken = sent
        <5>1. CASE Head(q).of # "host"
          BY <3>2, <3>3, <4>2, <5>1
        <5>2. CASE Head(q).of = "host"
          <6>1. 1 \in 1 .. Len(q) /\ Head(q) = q[1] /\ q \in Seq(Conns)
            BY <1>1, <3>1 DEF q
          <6>2. Taken <= Head(q).s.n /\ Head(q).s.n <= sent /\ Head(q).s.n \in Nat
            BY <1>2, <5>2, <6>1, HostNumbers DEF ServerRises, HostsRise, q
          <6> QED BY <1>1, <3>3, <4>2, <5>2, <6>2
        <5> QED BY <5>1, <5>2
      <4> QED BY <3>4, <4>1, <4>2
    <3>6. ServerNewest'
      BY <2>2, <3>1, <3>5 DEF ServerNewest
    <3>7. HalWaits => HalWaits'
      BY <1>1, <3>1, QueueAccepted DEF HalWaits, q
    <3>8. HalNewest'
      BY <1>0, <1>2, <3>1, <3>2, <3>7 DEF HalNewest, OnWire
    <3> QED BY <1>0, <1>2, <3>1, <3>6, <3>8 DEF Arrives, OneHal
  <2>5. CASE ReadHello(1)
    <3>1. /\ server[1].pc = "read" /\ server[1].conn = HalConn(fd) /\ thread = "wait"
          /\ server'[1].pc = "send" /\ server'[1].conn = NoConn /\ server'[1].client = fd
          /\ server'[1].backlog = server[1].backlog
          /\ UNCHANGED <<gnss, wire>>
      BY <1>1, <2>5 DEF ReadHello, ServerType
    <3>2. fd = 1 /\ Taken' = gnss.n /\ Taken = gnss.n
      BY <1>2, <3>1 DEF OneHal, Taken, HalConn, NoConn
    <3>3. ServerNewest'
      BY <1>2, <2>2, <3>1, <3>2 DEF ServerNewest, NoConn
    <3>4. HalNewest'
      BY <3>1, <3>2 DEF HalNewest
    <3> QED BY <1>0, <1>2, <3>1, <3>2, <3>3, <3>4 DEF Arrives, OneHal
  <2>6. CASE ReadEof(1)
    <3>1. /\ server[1].pc = "read" /\ server[1].conn.of = "hal" /\ server[1].conn.i # fd
          /\ server'[1].pc = "accept" /\ server'[1].conn = NoConn
          /\ server'[1].client = server[1].client /\ server'[1].backlog = server[1].backlog
          /\ UNCHANGED <<gnss, wire>>
      BY <1>1, <2>6 DEF ReadEof, Served, ServerType
    <3>2. Taken' = gnss.n /\ Taken = gnss.n /\ Known' = Known
      BY <3>1 DEF Taken, Known, NoConn
    <3>3. ServerNewest'
      BY <1>2, <2>2, <3>1, <3>2 DEF ServerNewest, NoConn
    <3>4. fd = 1 /\ HalWaits => HalWaits'
      BY <3>1 DEF HalWaits, HalConn
    <3>5. HalNewest'
      BY <1>0, <1>2, <3>1, <3>2, <3>4 DEF HalNewest, OneHal, OnWire
    <3> QED BY <1>0, <1>2, <3>1, <3>3, <3>5 DEF Arrives, OneHal
  <2>7. CASE SendLastData(1)
    <3>1. /\ server[1].pc = "send" /\ Written(1, gnss)
          /\ server'[1].pc = "accept" /\ server'[1].conn = NoConn
          /\ server'[1].client = server[1].client /\ server'[1].backlog = server[1].backlog
          /\ UNCHANGED gnss
      BY <1>1, <2>7 DEF SendLastData, Served, ServerType
    <3>2. Taken' = gnss.n /\ Taken = gnss.n /\ Known' = gnss.n
      BY <1>2, <3>1 DEF Taken, Known, NoConn, ServerNewest
    <3>3. ServerNewest'
      BY <1>2, <2>2, <3>1, <3>2 DEF ServerNewest, NoConn
    <3>4. HalWaits => HalWaits'
      BY <3>1 DEF HalWaits
    <3>5. ASSUME server[1].client # 0, fd = 1 PROVE wire' # <<>> /\ wire'[Len(wire')] = gnss
      <4>1. wire' = Append(wire, gnss)
        BY <1>2, <3>1, <3>5 DEF OneHal, Written
      <4> QED BY <1>1, <4>1
    <3>6. HalNewest'
      BY <1>0, <1>2, <3>1, <3>2, <3>4, <3>5 DEF HalNewest, OneHal, OnWire
    <3> QED BY <1>0, <1>2, <3>1, <3>3, <3>6 DEF Arrives, OneHal
  <2>8. CASE ReadSentence(1)
    <3> DEFINE s == server[1].conn.s
    <3>1. /\ server[1].pc = "read" /\ server[1].conn.of = "host" /\ Written(1, s)
          /\ server'[1].pc = "keep" /\ server'[1].conn = server[1].conn
          /\ server'[1].client = server[1].client /\ server'[1].backlog = server[1].backlog
          /\ UNCHANGED gnss
      BY <1>1, <2>8 DEF ReadSentence, ServerType
    <3>2. Taken' = Taken /\ Known' = s.n
      BY <3>1 DEF Taken, Known
    <3>3. ServerNewest'
      BY <1>2, <2>2, <3>1, <3>2 DEF ServerNewest
    <3>4. HalWaits => HalWaits'
      BY <3>1 DEF HalWaits, HalConn
    <3>7. s \in Sentences
      BY <1>1
    <3> HIDE DEF s
    <3>5. ASSUME server[1].client # 0, fd = 1 PROVE wire' # <<>> /\ wire'[Len(wire')] = s
      <4>1. wire' = Append(wire, s)
        BY <1>2, <3>1, <3>5 DEF OneHal, Written
      <4> QED BY <1>1, <3>7, <4>1
    <3>6. HalNewest'
      BY <1>0, <1>2, <3>1, <3>2, <3>4, <3>5 DEF HalNewest, OneHal, OnWire
    <3> QED BY <1>0, <1>2, <3>1, <3>3, <3>6 DEF Arrives, OneHal
  <2>9. CASE Keep(1)
    <3>1. /\ server[1].pc = "keep" /\ server'[1].pc = "accept" /\ server'[1].conn = NoConn
          /\ server'[1].client = server[1].client /\ server'[1].backlog = server[1].backlog
          /\ gnss' = server[1].conn.s /\ UNCHANGED wire
      BY <1>1, <2>9 DEF Keep, Served, ServerType
    <3>2. Taken' = gnss'.n /\ Taken = gnss'.n /\ Known' = gnss'.n /\ Known = gnss'.n
      BY <1>2, <3>1 DEF Taken, Known, NoConn, ServerRises
    <3>3. ServerNewest'
      BY <1>2, <2>2, <3>1, <3>2 DEF ServerNewest, NoConn
    <3>4. HalWaits => HalWaits'
      BY <3>1 DEF HalWaits
    <3>5. HalNewest'
      BY <1>0, <1>2, <3>1, <3>2, <3>4 DEF HalNewest, OnWire
    <3> QED BY <1>0, <1>2, <3>1, <3>3, <3>5 DEF Arrives, OneHal
  <2> QED BY <1>4, <2>1, <2>3, <2>4, <2>5, <2>6, <2>7, <2>8, <2>9 DEF Server
<1> QED BY <1>3, <1>4

\* The last sentence on the wire stays the last, or is read.
LEMMA NewestRead ==
  ASSUME NEW w \in Seq(Sentences), w # <<>>, NEW n, w[Len(w)].n = n
  PROVE  Head(w).n = n \/ (Tail(w) # <<>> /\ Tail(w)[Len(Tail(w))].n = n)
<1> DEFINE v == Tail(w)
<1>1. /\ Len(w) \in Nat /\ Len(w) >= 1 /\ Len(v) = Len(w) - 1 /\ Head(w) = w[1]
      /\ \A k \in 1 .. Len(v) : v[k] = w[k + 1]
  OBVIOUS
<1> HIDE DEF v
<1>2. CASE Len(w) = 1
  BY <1>1, <1>2
<1>3. CASE Len(w) # 1
  <2>1. Len(v) \in 1 .. Len(v) /\ Len(v) + 1 = Len(w)
    BY <1>1, <1>3
  <2>2. v[Len(v)].n = n
    BY <1>1, <2>1
  <2>3. v # <<>>
    BY <1>1, <2>1
  <2> QED BY <2>2, <2>3 DEF v
<1> QED BY <1>2, <1>3

LEMMA NewestThread ==
  ASSUME IInv, Rising, NewestInv, Thread
  PROVE  NewestInv'
<1> USE DEF callerVars, threadVars
<1>0. inits' = inits
  BY DEF Thread, Hello, Timeout, CommandIgnored, CommandObeyed, ReadGps
<1> SUFFICES ASSUME 1 \in Inits, inits <= 1 PROVE Arrives'
  BY <1>0 DEF NewestInv
<1>1. /\ wire \in Seq(Sentences) /\ reader.seen \in Nat /\ Known \in Nat /\ inits \in Nat
      /\ server \in [Inits -> ServerType]
  BY RisingTypes
<1>2. Arrives /\ OneHal /\ ServerNewest /\ HalNewest /\ OneServer /\ ReaderRises
  BY DEF NewestInv, Arrives, Rising
<1>3. CASE Hello
  <2>1. thread = "hello" /\ thread' = "wait"
        /\ UNCHANGED <<caller, inits, fd, server, sent, gnss, wire, reader>>
    BY <1>3 DEF Hello
  <2> QED BY <1>2, <2>1
          DEF Arrives, OneHal, ServerNewest, HalNewest, Taken, Known, HalWaits, HasHost, HasHal,
              OnWire
<1>4. CASE CommandIgnored
  BY <1>2, <1>4, ArrivesFrame DEF CommandIgnored
<1>5. CASE CommandObeyed
  <2>1. reader'.seen = reader.seen
    BY <1>5 DEF CommandObeyed, Session, SetCallback, IInv, TypeOK
  <2> QED BY <1>2, <1>5, <2>1, ArrivesFrame DEF CommandObeyed
<1>6. CASE Timeout
  <2>1. RequestConn \in Conns
    BY ConstantTypes DEF RequestConn
  <2>2. /\ thread = "wait" /\ Queued(path, RequestConn)
        /\ UNCHANGED <<caller, inits, fd, sent, gnss, wire, thread, reader>>
    BY <1>6 DEF Timeout, Waiting
  <2>4. /\ ServerNewest' /\ Known' = Known
        /\ server'[1].pc = server[1].pc /\ server'[1].client = server[1].client
        /\ HalWaits => HalWaits'
    <3>1. CASE path # 0
      BY <1>2, <2>1, <2>2, <3>1, NewestQueued
    <3>2. CASE path = 0
      <4>1. server' = server
        BY <1>1, <2>2, <3>2 DEF Queued, Inits
      <4> QED BY <1>2, <2>2, <4>1 DEF ServerNewest, Taken, Known, HalWaits, HasHal, HasHost
    <3> QED BY <3>1, <3>2
  <2> QED BY <1>2, <2>2, <2>4 DEF Arrives, OneHal, HalNewest, OnWire
<1>7. CASE ReadGps
  <2>1. /\ thread = "wait" /\ wire # <<>> /\ wire' = Tail(wire)
        /\ UNCHANGED <<caller, inits, fd, server, sent, gnss, thread>>
    BY <1>7 DEF ReadGps, Waiting
  <2>2. reader'.seen = Head(wire).n
    BY <1>7 DEF ReadGps, Parse, IInv, TypeOK
  <2>3. OneHal' /\ ServerNewest' /\ Known' = Known /\ HalWaits' = HalWaits
    BY <1>2, <2>1 DEF OneHal, ServerNewest, Taken, Known, HalWaits, HasHost, HasHal
  <2>4. ASSUME OnWire(Known) PROVE reader'.seen = Known \/ OnWire(Known)'
    BY <1>1, <2>1, <2>2, <2>3, <2>4, NewestRead DEF OnWire
  <2>5. ASSUME reader.seen = Known PROVE reader'.seen = Known
    <3>1. Head(wire).n \in Nat /\ reader.seen <= Head(wire).n /\ Head(wire).n <= Known
      BY <1>1, <1>2, <2>1, WireRead, WireNumbers DEF ReaderRises
    <3> QED BY <1>1, <2>2, <2>5, <3>1
  <2>6. HalNewest'
    BY <1>2, <2>1, <2>3, <2>4, <2>5 DEF HalNewest
  <2> QED BY <2>3, <2>6 DEF Arrives
<1> QED BY <1>3, <1>4, <1>5, <1>6, <1>7 DEF Thread

LEMMA NewestInit == Init => NewestInv
<1> SUFFICES ASSUME Init, 1 \in Inits PROVE Arrives
  BY DEF NewestInv
<1> USE DEF Init
<1>1. server[1] = NewServer /\ Taken = 0 /\ Known = 0
  BY DEF NewServer, NoConn, Taken, Known, DefaultSentence
<1> QED BY <1>1 DEF Arrives, OneHal, ServerNewest, HalNewest, NewServer, NoConn

LEMMA NewestStep == IInv /\ Rising /\ NewestInv /\ [Next]_vars => NewestInv'
<1> SUFFICES ASSUME IInv, Rising, NewestInv, [Next]_vars PROVE NewestInv'
  OBVIOUS
<1>1. CASE UNCHANGED vars
  <2>1. UNCHANGED <<caller, inits, fd, server, sent, gnss, wire, thread, reader>>
    BY <1>1 DEF vars, callerVars, threadVars
  <2> QED BY <2>1, ArrivesFrame DEF NewestInv
<1> QED BY <1>1, NewestCaller, NewestServer, NewestThread DEF Next

\* Where the first init succeeds no sentence is lost that no newer one has
\* overtaken, also of hosts that come before the HAL has said "H", and whatever
\* descriptors are left: the newest has been seen or is on its way to the reader
\* (gps_open_fde.cpp:617).
THEOREM NewestOnItsWay == Spec => []NothingLost
<1>1. Init => IInv /\ Rising /\ NewestInv
  BY InitInv, RisingInit, NewestInit
<1>2. IInv /\ Rising /\ NewestInv /\ [Next]_vars => (IInv /\ Rising /\ NewestInv)'
  BY StepInv, RisingStep, NewestStep
<1>3. IInv /\ Rising /\ NewestInv => NothingLost
  <2> SUFFICES ASSUME IInv, Rising, NewestInv, inits = 1, thread # "none",
                      ~HasHost(server[1].backlog, sent)
               PROVE  \/ reader.seen = sent
                      \/ OnWire(sent)
                      \/ /\ server[1].pc = "read" /\ server[1].conn.of = "host"
                         /\ server[1].conn.s.n = sent
                      \/ /\ Known = sent
                         /\ server[1].pc = "send" \/ (server[1].client = 0 /\ HalWaits)
    BY DEF NothingLost
  <2>1. 1 \in Inits
    BY BoundAssumption DEF IInv, TypeOK, Inits
  <2>2. Taken = sent /\ OneHal /\ ServerNewest /\ HalNewest /\ ServerRises
    BY <2>1 DEF NewestInv, Arrives, ServerNewest, Rising
  <2>3. CASE server[1].conn.of = "host" /\ server[1].pc = "read"
    BY <2>2, <2>3 DEF Taken
  <2>4. CASE ~(server[1].conn.of = "host" /\ server[1].pc = "read")
    <3>1. Known = sent
      BY <2>2, <2>4 DEF Taken, Known, ServerNewest, ServerRises
    <3> QED BY <2>2, <3>1 DEF HalNewest
  <2> QED BY <2>3, <2>4
<1> QED BY <1>1, <1>2, <1>3, PTL DEF Spec
===============================================================================

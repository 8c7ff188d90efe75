--------------------------------- MODULE Gps ----------------------------------
(***************************************************************************)
(* The GPS HAL: gps_open_fde.cpp.                                          *)
(*                                                                         *)
(* Three parties. The caller runs qemu_gps_init, start and stop, one after *)
(* the other. Each qemu_gps_init makes a server thread that listens on     *)
(* /tmp/unix.str for hosts, each with one sentence, and for the HAL itself.*)
(* The HAL's thread, gps_state_thread, reads sentences from its connection *)
(* to the server and commands from a socket pair, and calls back.          *)
(*                                                                         *)
(* A sentence is a number, in the order hosts connect, and whether it has a*)
(* position and an altitude. Hosts send whole sentences, of one or both,   *)
(* and send at once.                                                       *)
(* cleanup does nothing (its body is under #if 0), and init does nothing   *)
(* where it has succeeded before: both leave no trace here.                *)
(*                                                                         *)
(* A definition marked Variant is no part of the model: it is the one      *)
(* below it with a plausible mistake, and shows that a property sees it.   *)
(***************************************************************************)
EXTENDS Integers, Sequences, FiniteSets

CONSTANTS
  MaxInits,      \* calls of qemu_gps_init, a bound of the model
  MaxSentences,  \* sentences of hosts, a bound of the model
  MaxEvents,     \* calls and sentences together, a bound of the model
  MaxCommands,   \* commands under way, a bound of the model
  MaxFds         \* the descriptors for what is not open all the time

ASSUME BoundAssumption == {MaxInits, MaxSentences, MaxEvents, MaxCommands, MaxFds} \subseteq Nat

VARIABLES
  caller,    \* where qemu_gps_init is: "idle", "connect", "thread"
  inits,     \* how often it has been called; the last server's number
  init,      \* state->init
  fd,        \* state->fd: the call that has connected it, 0 for -1
  control,   \* the commands written to control[0] and not yet read
  path,      \* the server /tmp/unix.str leads to, 0 if none
  server,    \* the server threads, with the connections that wait for them
  sent,      \* how many sentences hosts have sent
  gnss,      \* the property persist.fde.gnss
  wire,      \* the sentences written to the HAL's connection
  thread,    \* where gps_state_thread is: "none", "hello", "wait"
  started,   \* its variable started
  status,    \* gps_status.status
  reader,    \* its NmeaReader: the fix and whether there is a callback
  leaked,    \* the descriptors of requests, never closed
  told,      \* the status last given to status_cb
  report     \* the fix last given to location_cb

callerVars == <<caller, inits, init, fd>>
threadVars == <<thread, started, status, reader, told, report>>
vars == <<callerVars, control, path, server, sent, gnss, wire, threadVars, leaked>>

Inits == 1 .. MaxInits
Sentences == [n : 0 .. MaxSentences, latlong : BOOLEAN, altitude : BOOLEAN]

\* The sentence that property_get returns when the property is not set.
DefaultSentence == [n |-> 0, latlong |-> TRUE, altitude |-> TRUE]

\* A connection to the server: the HAL's, made by the i-th init; a request for
\* the last sentence; a host's.
HalConn(i) == [of |-> "hal", i |-> i, s |-> DefaultSentence]
RequestConn == [of |-> "request", i |-> 0, s |-> DefaultSentence]
HostConn(s) == [of |-> "host", i |-> 0, s |-> s]
NoConn == [of |-> "none", i |-> 0, s |-> DefaultSentence]
Conns == [of : {"none", "hal", "request", "host"}, i : 0 .. MaxInits, s : Sentences]

\* The flags of GpsLocation, and the sentences its values are from.
NoFix == [latlong |-> FALSE, altitude |-> FALSE, position |-> 0, height |-> 0]

Fixes == [latlong : BOOLEAN, altitude : BOOLEAN,
          position : 0 .. MaxSentences, height : 0 .. MaxSentences]

NewServer == [pc |-> "none", conn |-> NoConn, client |-> 0, backlog |-> <<>>]

TypeOK ==
  /\ caller \in {"idle", "connect", "thread"}
  /\ inits \in 0 .. MaxInits
  /\ init \in BOOLEAN
  /\ fd \in 0 .. MaxInits
  /\ control \in Seq({"START", "STOP"})
  /\ path \in 0 .. MaxInits
  /\ server \in [Inits -> [pc : {"none", "start", "accept", "read", "send", "keep"},
                           conn : Conns, client : 0 .. MaxInits, backlog : Seq(Conns)]]
  /\ sent \in 0 .. MaxSentences
  /\ gnss \in Sentences
  /\ wire \in Seq(Sentences)
  /\ thread \in {"none", "hello", "wait"}
  /\ started \in BOOLEAN
  /\ status \in {"BEGIN", "END", "other"}
  /\ reader \in [fix : Fixes, seen : 0 .. MaxSentences, callback : BOOLEAN]
  /\ leaked \in 0 .. MaxFds
  /\ told \in {"none", "BEGIN", "END"}
  /\ report \in Fixes

Init ==
  /\ caller = "idle" /\ inits = 0 /\ init = FALSE /\ fd = 0
  /\ control = <<>>
  /\ path = 0
  /\ server = [i \in Inits |-> NewServer]
  /\ sent = 0
  /\ gnss = DefaultSentence
  /\ wire = <<>>
  /\ thread = "none"
  /\ started = FALSE
  /\ status = "other"
  /\ reader = [fix |-> NoFix, seen |-> 0, callback |-> FALSE]
  /\ leaked = 0
  /\ told = "none"
  /\ report = NoFix

-------------------------------------------------------------------------------
(***************************************************************************)
(* The reader of sentences.                                                *)
(***************************************************************************)
Ready(fix) == fix.latlong /\ fix.altitude

\* Variant: the flag of the position stays when the sentence has none.
UpdateLatlongKeepsFlag(fix, s) ==
  IF s.latlong THEN [fix EXCEPT !.latlong = TRUE, !.position = s.n] ELSE fix

UpdateLatlong(fix, s) ==
  IF s.latlong THEN [fix EXCEPT !.latlong = TRUE, !.position = s.n]
               ELSE [fix EXCEPT !.latlong = FALSE]

UpdateAltitude(fix, s) ==
  IF s.altitude THEN [fix EXCEPT !.altitude = TRUE, !.height = s.n]
                ELSE [fix EXCEPT !.altitude = FALSE]

\* location_cb is called with the fix r now has, if r has a callback.
Reported(r) == IF r.callback /\ Ready(r.fix) THEN r.fix ELSE report

\* nmea_reader_parse of a whole GGA sentence.
Parse(s) ==
  LET r == [reader EXCEPT !.fix = UpdateAltitude(UpdateLatlong(@, s), s), !.seen = s.n]
  IN  /\ reader' = r
      /\ report' = Reported(r)

SetCallback(on) ==
  LET r == [reader EXCEPT !.callback = on]
  IN  /\ reader' = r
      /\ report' = Reported(r)

-------------------------------------------------------------------------------
(***************************************************************************)
(* The caller.                                                             *)
(***************************************************************************)
CanInit == caller = "idle" /\ ~init /\ inits < MaxInits /\ inits + sent < MaxEvents

\* gps_state_init up to the server thread.
BeginInit ==
  /\ CanInit
  /\ caller' = "connect"
  /\ inits' = inits + 1
  /\ init' = TRUE
  /\ server' = [server EXCEPT ![inits + 1].pc = "start"]
  /\ UNCHANGED <<fd, control, path, sent, gnss, wire, threadVars, leaked>>

Queued(i, conn) == server' = [server EXCEPT ![i].backlog = Append(@, conn)]

\* client succeeds: with whichever server the path leads to.
Connect ==
  /\ caller = "connect" /\ path # 0
  /\ fd' = inits
  /\ Queued(path, HalConn(inits))
  /\ caller' = "thread"
  /\ UNCHANGED <<inits, init, control, path, sent, gnss, wire, threadVars, leaked>>

\* gps_state_done: there is no thread to quit or to wait for yet.
StateDone ==
  /\ fd' = 0
  /\ init' = FALSE
  /\ caller' = "idle"

\* The server thread cannot be created.
ServerFails ==
  /\ CanInit
  /\ StateDone
  /\ inits' = inits + 1
  /\ UNCHANGED <<control, path, server, sent, gnss, wire, threadVars, leaked>>

\* wait_count is used up. The last attempt counts as failed even if it has not.
GiveUp ==
  /\ caller = "connect"
  /\ StateDone
  /\ \/ UNCHANGED server
     \/ path # 0 /\ Queued(path, HalConn(inits))
  /\ UNCHANGED <<inits, control, path, sent, gnss, wire, threadVars, leaked>>

\* socketpair or create_thread_cb fails.
ThreadFails ==
  /\ caller = "thread"
  /\ StateDone
  /\ UNCHANGED <<inits, control, path, server, sent, gnss, wire, threadVars, leaked>>

\* gps_status.status is not initialized.
CreateThread ==
  /\ caller = "thread"
  /\ caller' = "idle"
  /\ thread' = "hello"
  /\ \E garbage \in {"BEGIN", "other"} : status' = garbage
  /\ UNCHANGED <<inits, init, fd, control, path, server, sent, gnss, wire, started,
                 reader, leaked, told, report>>

\* start and stop return 0 whether or not the byte gets anywhere.
Command(cmd) ==
  /\ caller = "idle" /\ init /\ Len(control) < MaxCommands
  /\ control' = Append(control, cmd)
  /\ UNCHANGED <<callerVars, path, server, sent, gnss, wire, threadVars, leaked>>

Start == Command("START")

Stop == Command("STOP")

-------------------------------------------------------------------------------
(***************************************************************************)
(* The servers. A server's connections, its client and each request have a *)
(* descriptor.                                                             *)
(***************************************************************************)
Used == leaked + Cardinality({i \in Inits : server[i].conn # NoConn})
               + Cardinality({i \in Inits : server[i].client # 0})

\* From socket to listen. The path of an earlier server is unlinked.
Listen(i) ==
  /\ server[i].pc = "start"
  /\ server' = [server EXCEPT ![i].pc = "accept"]
  /\ path' = i
  /\ UNCHANGED <<callerVars, control, sent, gnss, wire, threadVars, leaked>>

Host ==
  /\ path # 0 /\ sent < MaxSentences /\ inits + sent < MaxEvents
  /\ \E s \in Sentences :
       /\ s.n = sent + 1
       /\ s.latlong \/ s.altitude
       /\ Queued(path, HostConn(s))
  /\ sent' = sent + 1
  /\ UNCHANGED <<callerVars, control, path, gnss, wire, threadVars, leaked>>

Accept(i) ==
  /\ server[i].pc = "accept" /\ server[i].backlog # <<>> /\ Used < MaxFds
  /\ server' = [server EXCEPT ![i].pc = "read", ![i].conn = Head(server[i].backlog),
                              ![i].backlog = Tail(@)]
  /\ UNCHANGED <<callerVars, control, path, sent, gnss, wire, threadVars, leaked>>

\* What is written to client_hal_fd reaches the HAL if that is its connection.
\* Before "H" it is not initialized; no value it may have is a connection.
Written(i, s) ==
  wire' = IF server[i].client # 0 /\ server[i].client = fd THEN Append(wire, s) ELSE wire

\* Connections but for client_hal_fd are closed.
Served(i) == [server EXCEPT ![i].pc = "accept", ![i].conn = NoConn]

\* Variant: the HAL is to wait for the next sentence.
ReadHelloOnly(i) ==
  /\ server[i].pc = "read" /\ server[i].conn = HalConn(fd) /\ thread = "wait"
  /\ server' = [server EXCEPT ![i].pc = "accept", ![i].conn = NoConn, ![i].client = fd]
  /\ UNCHANGED <<callerVars, control, path, sent, gnss, wire, threadVars, leaked>>

\* "H" is read, and the server sleeps. The HAL's thread writes it at once.
ReadHello(i) ==
  /\ server[i].pc = "read" /\ server[i].conn = HalConn(fd) /\ thread = "wait"
  /\ server' = [server EXCEPT ![i].pc = "send", ![i].conn = NoConn, ![i].client = fd]
  /\ UNCHANGED <<callerVars, control, path, sent, gnss, wire, threadVars, leaked>>

\* The HAL has closed the connection: read returns 0.
ReadEof(i) ==
  /\ server[i].pc = "read" /\ server[i].conn.of = "hal" /\ server[i].conn.i # fd
  /\ server' = Served(i)
  /\ UNCHANGED <<callerVars, control, path, sent, gnss, wire, threadVars, leaked>>

ReadRequest(i) ==
  /\ server[i].pc = "read" /\ server[i].conn.of = "request"
  /\ server' = [server EXCEPT ![i].pc = "send"]
  /\ UNCHANGED <<callerVars, control, path, sent, gnss, wire, threadVars, leaked>>

SendLastData(i) ==
  /\ server[i].pc = "send"
  /\ Written(i, gnss)
  /\ server' = Served(i)
  /\ UNCHANGED <<callerVars, control, path, sent, gnss, threadVars, leaked>>

ReadSentence(i) ==
  /\ server[i].pc = "read" /\ server[i].conn.of = "host"
  /\ Written(i, server[i].conn.s)
  /\ server' = [server EXCEPT ![i].pc = "keep"]
  /\ UNCHANGED <<callerVars, control, path, sent, gnss, threadVars, leaked>>

\* Variant: only the first sentence is kept.
KeepFirst(i) ==
  /\ server[i].pc = "keep"
  /\ gnss' = IF gnss.n = 0 THEN server[i].conn.s ELSE gnss
  /\ server' = Served(i)
  /\ UNCHANGED <<callerVars, control, path, sent, wire, threadVars, leaked>>

\* property_set.
Keep(i) ==
  /\ server[i].pc = "keep"
  /\ gnss' = server[i].conn.s
  /\ server' = Served(i)
  /\ UNCHANGED <<callerVars, control, path, sent, wire, threadVars, leaked>>

-------------------------------------------------------------------------------
(***************************************************************************)
(* gps_state_thread.                                                       *)
(***************************************************************************)
\* Both descriptors are registered and "H" is written.
Hello ==
  /\ thread = "hello"
  /\ thread' = "wait"
  /\ UNCHANGED <<callerVars, control, path, server, sent, gnss, wire, started, status,
                 reader, leaked, told, report>>

Waiting == thread = "wait"

\* epoll_wait times out, which it does in a session only: the thread asks for
\* the last sentence over a connection it never closes. Without a descriptor
\* it does nothing.
Timeout ==
  /\ Waiting /\ status = "BEGIN" /\ control = <<>> /\ wire = <<>>
  /\ Used < MaxFds
  /\ leaked' = leaked + 1
  /\ Queued(path, RequestConn)
  /\ UNCHANGED <<callerVars, control, path, sent, gnss, wire, threadVars>>

\* Variant: any command may be ignored.
CommandDropped ==
  /\ Waiting /\ control # <<>>
  /\ control' = Tail(control)
  /\ UNCHANGED <<callerVars, path, server, sent, gnss, wire, threadVars, leaked>>

\* A command is read that changes nothing.
CommandIgnored ==
  /\ Waiting /\ control # <<>>
  /\ started = (Head(control) = "START")
  /\ control' = Tail(control)
  /\ UNCHANGED <<callerVars, path, server, sent, gnss, wire, threadVars, leaked>>

\* Variant: the reader keeps its callback when the session ends.
SessionKeepsCallback(cmd) ==
  /\ started' = (cmd = "START")
  /\ SetCallback(TRUE)
  /\ status' = IF cmd = "START" THEN "BEGIN" ELSE "END"
  /\ told' = status'

\* What the thread does for the command, the fix before the status.
Session(cmd) ==
  /\ started' = (cmd = "START")
  /\ SetCallback(cmd = "START")
  /\ status' = IF cmd = "START" THEN "BEGIN" ELSE "END"
  /\ told' = status'

CommandObeyed ==
  /\ Waiting /\ control # <<>>
  /\ started # (Head(control) = "START")
  /\ Session(Head(control))
  /\ control' = Tail(control)
  /\ UNCHANGED <<callerVars, path, server, sent, gnss, wire, thread, leaked>>

\* A sentence is read, in pieces of 32 bytes.
ReadGps ==
  /\ Waiting /\ wire # <<>>
  /\ Parse(Head(wire))
  /\ wire' = Tail(wire)
  /\ UNCHANGED <<callerVars, control, path, server, sent, gnss, thread, started, status,
                 leaked, told>>

-------------------------------------------------------------------------------
Caller ==
  \/ BeginInit \/ ServerFails \/ Connect \/ GiveUp \/ ThreadFails \/ CreateThread
  \/ Start \/ Stop

Server(i) ==
  \/ Listen(i)
  \/ Accept(i)
  \/ ReadHello(i)
  \/ ReadEof(i)
  \/ ReadRequest(i)
  \/ SendLastData(i)
  \/ ReadSentence(i)
  \/ Keep(i)

Thread == Hello \/ Timeout \/ CommandIgnored \/ CommandObeyed \/ ReadGps

Next == Caller \/ Host \/ (\E i \in Inits : Server(i)) \/ Thread

\* Threads that can run do. epoll_wait returns both descriptors when both are
\* ready, so that neither can keep the other from being read.
Fairness ==
  /\ \A i \in Inits : WF_vars(Server(i))
  /\ WF_vars(Hello)
  /\ WF_vars(CommandIgnored \/ CommandObeyed)
  /\ WF_vars(ReadGps)

Spec == Init /\ [][Next]_vars /\ Fairness

-------------------------------------------------------------------------------
(***************************************************************************)
(* Properties.                                                             *)
(***************************************************************************)
\* The position and the altitude the framework is given belong together: they
\* are from one sentence, even where sentences lack the one or the other and
\* the reader keeps the old value beside the new.
FixFromOneSentence == report.latlong => report.position = report.height

\* A session is one for all: the reader has a callback, the thread times out
\* and the framework has been told so exactly while the thread has obeyed a
\* start. (Before its first command the thread may time out, for status is not
\* initialized, but nothing is told.)
SessionsAgree ==
  /\ reader.callback = started
  /\ started <=> told = "BEGIN"
  /\ told # "none" => status = told

\* In a session the framework has the newest fix the reader can give: a fix
\* that came before the start is sent at the start, and one that comes later
\* at once ("sending latest fix to new callback").
LatestReported == started /\ Ready(reader.fix) => report = reader.fix

\* Hence the framework knows all there is to know of a session.
FrameworkAgrees == SessionsAgree /\ LatestReported

\* Where the first init succeeds, the place reported never goes back to an
\* older sentence: what a request gets is never older than what hosts sent,
\* and a fix that is kept for the next session is overtaken before it is sent.
NeverBackwards == [][inits = 1 => report'.position >= report.position]_vars

\* The descriptors are used up by requests, and the server cannot accept.
Exhausted == leaked + Cardinality({i \in Inits : server[i].client # 0}) = MaxFds

\* Where the first init succeeds, the reader comes to see a sentence a host
\* has sent, or a newer one, also one that came before the HAL had said "H".
\* A second init may connect to the server of the first, which hosts then can
\* no longer reach; and each 10 s without a sentence cost a descriptor.
SentencesArrive ==
  \A n \in 1 .. MaxSentences :
    sent >= n /\ inits = 1 /\ thread # "none" ~> reader.seen >= n \/ Exhausted

\* The last command given is obeyed, unless another follows.
CommandsObeyed ==
  \A cmd \in {"START", "STOP"} :
    control # <<>> /\ control[Len(control)] = cmd /\ thread # "none"
      ~> started = (cmd = "START") \/ (control # <<>> /\ control[Len(control)] # cmd)
===============================================================================

------------------------------- MODULE PaVolume -------------------------------
(***************************************************************************)
(* The volume calls of the audio HAL: pa_volume_ctl.c.                     *)
(*                                                                         *)
(* Each call makes a main loop and a context of its own, connects to the   *)
(* host's PulseAudio, and is a chain of callbacks: the answer to a request *)
(* makes the next request, ends the loop with an error (quit(1)), or drains*)
(* the context, which disconnects it once nothing is under way and ends the*)
(* loop. Other clients and unplugged devices change the server meanwhile.  *)
(*                                                                         *)
(* Volume and mute are one value here, which a call reads or sets. The dev *)
(* of an input call stands for the sources that have its name in theirs.   *)
(* struct pa_callback_args lies uninitialized on the caller's stack: ret   *)
(* starts as garbage. Its pointers are taken to be null.                   *)
(*                                                                         *)
(* A definition marked Variant is no part of the model: it is the one      *)
(* below it with a plausible mistake, and shows that a property sees it.   *)
(***************************************************************************)
EXTENDS Integers, FiniteSets, SequencesExt

CONSTANTS
  Sinks, Sources,  \* the server's devices
  Ports,           \* the names of ports
  NumPorts,        \* how many available ports each sink has
  Values,          \* volumes, or whether there is sound
  Garbage,         \* what ret may be before it is set
  MaxCalls,        \* calls, a bound of the model
  MaxChanges,      \* what others do to the server, a bound of the model
  None             \* no device

Devs == Sinks \cup Sources

ASSUME DevAssumption == Sinks \cap Sources = {} /\ None \notin Devs
ASSUME FiniteAssumption == IsFiniteSet(Sources)
ASSUME PortAssumption == NumPorts \in [Sinks -> Nat] /\ Ports # {} /\ Values # {}
ASSUME BoundAssumption == MaxCalls \in Nat /\ MaxChanges \in Nat /\ Garbage \subseteq Int

VARIABLES
  server,   \* the server: its devices and defaults
  changes,  \* how often others have changed it
  calls,    \* how many calls there have been
  pa      \* the call that runs, or the last one

paVars == <<server, changes, calls, pa>>

MasterSets == {"SET_MASTER_VOLUME", "SET_MASTER_MUTE"}
MasterGets == {"GET_MASTER_VOLUME", "GET_MASTER_MUTE"}
InputSets == {"SET_INPUT_DEV_VOLUME", "SET_INPUT_DEV_MUTE"}
OutputSets == {"SET_OUTPUT_DEV_VOLUME", "SET_OUTPUT_DEV_MUTE"}
Actions == MasterSets \cup MasterGets \cup InputSets \cup OutputSets
             \cup {"GET_INPUT_DEVS", "GET_OUTPUT_DEVS",
                   "SET_INPUT_DEFAULT_DEV", "SET_OUTPUT_DEFAULT_DEV"}

Servers == [sink : Sinks \cup {None}, source : Sources \cup {None}, here : SUBSET Devs,
            value : [Devs -> Values], port : [Sinks -> Ports]]

\* A request: its callback, its device, whether it has been answered and how.
RequestOps == {"server_info", "by_name", "list", "set_value", "set_default", "set_port",
               "set_profile"}

Callbacks == {"server_info", "get_info_to_set", "get_value", "simple_callback_lock",
              "simple_callback", "get_input_devs", "devs", "set_input", "set_profile",
              "set_input_default", "set_output_default_dev", "default_set", "default_info"}

Requests == [op : RequestOps, cb : Callbacks, dev : Devs \cup {None}, answered : BOOLEAN,
             ok : BOOLEAN, seen : Servers]

\* struct pa_callback_args with the state of the loop, the requests that are
\* under way and what the call has done.
PaCalls ==
  [state : {"none", "connect", "run", "quit(0)", "quit(1)", "returned", "aborted"},
   action : Actions, value : Values, sources : SUBSET Sources, malformed : BOOLEAN, port : Ports, none : BOOLEAN,
   need_info : BOOLEAN, sink_name : Sinks \cup {None}, source_name : Sources \cup {None},
   garbage : Garbage \cup {0, 1}, ret : Garbage \cup Values \cup {0, 1},
   info : Devs \cup {None}, quit_count : 0 .. 2, requests : Seq(Requests),
   draining : BOOLEAN, meant : SUBSET Devs, did : SUBSET Devs, made : Devs \cup {None}]

NoPaCall ==
  [state |-> "none", action |-> "GET_MASTER_MUTE", value |-> CHOOSE v \in Values : TRUE,
   sources |-> {}, malformed |-> FALSE, port |-> CHOOSE p \in Ports : TRUE, none |-> FALSE,
   need_info |-> FALSE, sink_name |-> None, source_name |-> None,
   garbage |-> 0, ret |-> 0,
   info |-> None, quit_count |-> 0, requests |-> <<>>,
   draining |-> FALSE, meant |-> {}, did |-> {}, made |-> None]

PaTypeOK ==
  /\ server \in Servers
  /\ changes \in 0 .. MaxChanges
  /\ calls \in 0 .. MaxCalls
  /\ pa \in PaCalls

-------------------------------------------------------------------------------
(***************************************************************************)
(* The server and what else uses it. meant, did and made are history       *)
(* variables: the devices whose values a call is to set, those it has set, *)
(* and the one it has last made a default.                                 *)
(***************************************************************************)
PaInit ==
  /\ \E sink \in Sinks, source \in Sources :
       server = [sink |-> sink, source |-> source, here |-> Devs,
                 value |-> [d \in Devs |-> NoPaCall.value],
                 port |-> [k \in Sinks |-> NoPaCall.port]]
  /\ changes = 0
  /\ calls = 0
  /\ pa = NoPaCall

\* A device is unplugged; the server has another default then, if there is one.
Unplug(d) ==
  /\ changes < MaxChanges /\ d \in server.here
  /\ changes' = changes + 1
  /\ \E sink \in ((Sinks \cap server.here) \ {d}) \cup {None},
        source \in ((Sources \cap server.here) \ {d}) \cup {None} :
       /\ server.sink # d => sink = server.sink
       /\ server.source # d => source = server.source
       /\ server' = [server EXCEPT !.here = @ \ {d}, !.sink = sink, !.source = source]
  /\ UNCHANGED <<calls, pa>>

\* Another client sets a value, or the default sink.
OtherClient(d) ==
  /\ changes < MaxChanges /\ d \in server.here
  /\ changes' = changes + 1
  /\ \/ \E v \in Values : server' = [server EXCEPT !.value[d] = v]
     \/ d \in Sinks /\ server' = [server EXCEPT !.sink = d]
  /\ UNCHANGED <<calls, pa>>

Request(op, cb, dev) ==
  [op |-> op, cb |-> cb, dev |-> dev, answered |-> FALSE, ok |-> FALSE, seen |-> server]

Unanswered == {n \in 1 .. Len(pa.requests) : ~pa.requests[n].answered}

\* What a request does to the server, and whether it may succeed.
Possible(r) == r.op \in {"server_info", "list", "set_profile"} \/ r.dev \in server.here

Effect(r) ==
  CASE r.op = "set_value" -> [server EXCEPT !.value[r.dev] = pa.value]
    [] r.op = "set_default" /\ r.dev \in Sinks -> [server EXCEPT !.sink = r.dev]
    [] r.op = "set_default" /\ r.dev \in Sources -> [server EXCEPT !.source = r.dev]
    [] r.op = "set_port" -> [server EXCEPT !.port[r.dev] = pa.port]
    [] OTHER -> server

\* The server answers requests in their order. It may refuse to change anything.
Serve ==
  /\ pa.state = "run" /\ Unanswered # {}
  /\ LET n == CHOOSE n \in Unanswered : \A k \in Unanswered : n <= k
         r == pa.requests[n]
         Answer(ok) == [r EXCEPT !.answered = TRUE, !.ok = ok, !.seen = server']
     IN  \/ /\ Possible(r)
            /\ server' = Effect(r)
            /\ pa' = [pa EXCEPT !.requests[n] = Answer(TRUE),
                          !.did = IF r.op = "set_value" THEN @ \cup {r.dev} ELSE @,
                          !.made = IF r.op = "set_default" THEN r.dev ELSE @]
         \/ /\ ~Possible(r) \/ r.op \notin {"server_info", "list", "by_name"}
            /\ UNCHANGED server
            /\ pa' = [pa EXCEPT !.requests[n] = Answer(FALSE)]
  /\ UNCHANGED <<changes, calls>>

-------------------------------------------------------------------------------
(***************************************************************************)
(* The calls.                                                              *)
(***************************************************************************)
\* The service is started anew where a call has aborted it.
Idle == pa.state \in {"none", "returned", "aborted"} /\ calls < MaxCalls

BeginCall(action, args) ==
  /\ Idle
  /\ calls' = calls + 1
  /\ \E garbage \in Garbage :
       pa' = [args EXCEPT !.state = "connect", !.action = action, !.garbage = garbage,
                            !.ret = garbage]
  /\ UNCHANGED <<server, changes>>

MasterCall ==
  \E action \in MasterSets \cup MasterGets, v \in Values :
    BeginCall(action, [NoPaCall EXCEPT !.value = v])

ListCall == \E action \in {"GET_INPUT_DEVS", "GET_OUTPUT_DEVS"} : BeginCall(action, NoPaCall)

\* pa_set_dev_volume and pa_set_dev_mute, but for names that begin with NONE.
\* The name of an input device may have no '.' in it.
InputCall ==
  \E action \in InputSets, v \in Values, sources \in SUBSET Sources, malformed \in BOOLEAN :
    BeginCall(action, [NoPaCall EXCEPT !.value = v, !.sources = sources, !.malformed = malformed])

OutputCall ==
  \E action \in OutputSets, v \in Values, k \in Sinks :
    BeginCall(action, [NoPaCall EXCEPT !.value = v, !.sink_name = k])

\* pa_set_default_dev. For a name that begins with NONE ret is 1.
InputDefaultCall ==
  \E sources \in SUBSET Sources, malformed, none, need_info \in BOOLEAN :
    LET args == [NoPaCall EXCEPT !.sources = sources, !.malformed = malformed, !.none = none,
                               !.need_info = need_info]
    IN  \/ ~none /\ BeginCall("SET_INPUT_DEFAULT_DEV", args)
        \/ /\ none /\ Idle
           /\ calls' = calls + 1
           /\ pa' = [args EXCEPT !.state = "connect", !.action = "SET_INPUT_DEFAULT_DEV",
                                   !.garbage = 1, !.ret = 1]
           /\ UNCHANGED <<server, changes>>

OutputDefaultCall ==
  \E k \in Sinks, port \in Ports, need_info \in BOOLEAN :
    BeginCall("SET_OUTPUT_DEFAULT_DEV",
          [NoPaCall EXCEPT !.sink_name = k, !.port = port, !.need_info = need_info])

-------------------------------------------------------------------------------
(***************************************************************************)
(* The parts of callbacks, as changes of the call c.                       *)
(***************************************************************************)
Issue(c, op, cb, dev) == [c EXCEPT !.requests = Append(@, Request(op, cb, dev))]

\* With nothing under way pa_context_drain fails and the context is
\* disconnected at once, which ends the loop; otherwise when all is answered.
Drain(c) == IF c.requests = <<>> THEN [c EXCEPT !.state = "quit(0)"]
                                 ELSE [c EXCEPT !.draining = TRUE]

\* Variant: the counter is compared after it has been lowered.
CountedLate(c) == IF c.quit_count = 0 THEN Drain(c) ELSE [c EXCEPT !.quit_count = @ - 1]

\* simple_callback_lock.
Counted(c) == IF c.quit_count = 1 THEN Drain([c EXCEPT !.quit_count = 0])
                                  ELSE [c EXCEPT !.quit_count = @ - 1]

\* Variant: no item ends the call, and the end of the list neither.
EndOfListSilent(c) == [c EXCEPT !.ret = 0]

\* At the end of a list: one of its items has made a request, or none has.
EndOfList(c) == [IF c.ret # 1 THEN Drain(c) ELSE c EXCEPT !.ret = 0]

\* The sources of a list that a call is about.
Matching(seen) == pa.sources \cap seen.here

\* Variant: only for the first source.
IssueFirst(c, op, sources) ==
  IF sources = {} THEN c
  ELSE [Issue(c, op, "simple_callback", Head(SetToSeq(sources))) EXCEPT !.ret = 1]

\* For each of the sources in turn a request, with simple_callback.
IssueAll(c, op, sources) ==
  LET order == SetToSeq(sources)
      all   == [i \in 1 .. Len(order) |-> Request(op, "simple_callback", order[i])]
  IN  IF sources = {} THEN c ELSE [c EXCEPT !.requests = @ \o all, !.ret = 1]

-------------------------------------------------------------------------------
(***************************************************************************)
(* context_state_callback.                                                 *)
(***************************************************************************)
\* The first request of each action.
FirstRequest(c) ==
  CASE c.action \in MasterSets \cup MasterGets \cup {"GET_OUTPUT_DEVS"} ->
         Issue(c, "server_info", "server_info", None)
    [] c.action = "GET_INPUT_DEVS" -> Issue(c, "list", "get_input_devs", None)
    [] c.action \in InputSets -> Issue(c, "list", "set_input", None)
    [] c.action = "SET_OUTPUT_DEV_VOLUME" -> Issue(c, "by_name", "get_info_to_set", c.sink_name)
    [] c.action = "SET_OUTPUT_DEV_MUTE" ->
         Issue([c EXCEPT !.meant = {c.sink_name}], "set_value", "simple_callback", c.sink_name)
    [] c.action = "SET_INPUT_DEFAULT_DEV" ->
         Issue(c, "set_profile", IF c.ret # 0 THEN "simple_callback" ELSE "set_profile", None)
    [] c.action = "SET_OUTPUT_DEFAULT_DEV" ->
         [Issue(c, "by_name", "set_output_default_dev", c.sink_name) EXCEPT !.ret = 0]

QuitCount(action) == IF action \in MasterSets THEN 2 ELSE 0

Ready ==
  /\ pa.state = "connect"
  /\ pa' = FirstRequest([pa EXCEPT !.state = "run", !.quit_count = QuitCount(pa.action)])
  /\ UNCHANGED <<server, changes, calls>>

\* The context fails, at once or later.
ContextFails ==
  /\ pa.state \in {"connect", "run"}
  /\ pa' = [pa EXCEPT !.state = "quit(1)"]
  /\ UNCHANGED <<server, changes, calls>>

\* The loop has ended. Requests the server has not seen are gone.
Return ==
  /\ pa.state \in {"quit(0)", "quit(1)"}
  /\ pa' = [pa EXCEPT !.state = "returned"]
  /\ UNCHANGED <<server, changes, calls>>

-------------------------------------------------------------------------------
(***************************************************************************)
(* The other callbacks. Each begins with quit(1) where the answer is an    *)
(* error.                                                                  *)
(***************************************************************************)
Answered == pa.state = "run" /\ pa.requests # <<>> /\ Head(pa.requests).answered

Answer == Head(pa.requests)

Rest == [pa EXCEPT !.requests = Tail(@)]

\* With its last answer a context that drains is disconnected.
DrainComplete(c) ==
  IF c.draining /\ c.state = "run" /\ c.requests = <<>> THEN [c EXCEPT !.state = "quit(0)"] ELSE c

Callback(cbs, c) ==
  /\ Answer.ok /\ Answer.cb \in cbs
  /\ pa' = DrainComplete(c)
  /\ UNCHANGED <<server, changes, calls>>

AnswerIsError ==
  /\ ~Answer.ok
  /\ pa' = [Rest EXCEPT !.state = "quit(1)"]
  /\ UNCHANGED <<server, changes, calls>>

\* What both master calls note: the default sink and the default source.
Named(seen) ==
  [Rest EXCEPT !.sink_name = seen.sink, !.source_name = seen.source,
               !.meant = {seen.sink, seen.source} \ {None}]

\* set_master_volume_callback: both are asked for at once.
SetMasterVolumeCallback ==
  LET c == Named(Answer.seen)
  IN  /\ pa.action = "SET_MASTER_VOLUME"
      /\ Callback({"server_info"},
           Issue(Issue(c, "by_name", "get_info_to_set", c.sink_name),
                 "by_name", "get_info_to_set", c.source_name))

\* set_master_mute_callback: and both are set at once. libpulse asserts that
\* there is a name, and the service aborts before anything is sent.
SetMasterMuteCallback ==
  LET c == Named(Answer.seen)
  IN  /\ pa.action = "SET_MASTER_MUTE"
      /\ Callback({"server_info"},
           IF None \in {c.sink_name, c.source_name} THEN [c EXCEPT !.state = "aborted"]
           ELSE Issue(Issue(c, "set_value", "simple_callback_lock", c.sink_name),
                      "set_value", "simple_callback_lock", c.source_name))

\* get_master_volume_callback, get_master_mute_callback, get_output_devs_callback.
GetMasterCallback ==
  /\ pa.action \notin MasterSets
  /\ LET c == [Rest EXCEPT !.sink_name = Answer.seen.sink]
     IN  Callback({"server_info"},
           IF pa.action \in MasterGets THEN Issue(c, "by_name", "get_value", c.sink_name)
                                         ELSE Issue(c, "list", "devs", None))

\* get_sink_info_callback, get_source_volume_callback,
\* set_output_dev_volume_callback.
GetInfoToSetCallback ==
  LET c == [Rest EXCEPT !.meant = @ \cup {Answer.dev}]
  IN  Callback({"get_info_to_set"},
        Issue(c, "set_value",
              IF pa.action \in MasterSets THEN "simple_callback_lock" ELSE "simple_callback",
              Answer.dev))

SimpleCallbackLock == Callback({"simple_callback_lock"}, Counted(Rest))

SimpleCallback == Callback({"simple_callback"}, Drain(Rest))

\* get_sink_volume_callback, get_mute_callback.
GetValueCallback ==
  Callback({"get_value"}, Drain([Rest EXCEPT !.ret = Answer.seen.value[Answer.dev]]))

\* get_output_devs_get_sink_info_callback, get_card_info_get_input_devs_callback.
DevsCallback == Callback({"devs"}, Drain(Rest))

\* get_input_devs_get_card_info_callback: asks for the sources if a card's
\* active profile has an input.
GetInputDevsCallback ==
  Callback({"get_input_devs"}, Issue(Rest, "list", "devs", None))
    \/ Callback({"get_input_devs"}, Drain(Rest))

\* A name without '.' ends the loop at the first source, but the end of the
\* same list follows, and may disconnect the context: the last quit counts.
MalformedName ==
  /\ pa.malformed /\ Answer.seen.here \cap Sources # {}
  /\ Callback({"set_input", "set_input_default"}, EndOfList([Rest EXCEPT !.state = "quit(1)"]))

\* set_input_vol_get_source_info_list_callback, set_input_mute_...
SetInputCallback ==
  LET sources == Matching(Answer.seen)
      c == [Rest EXCEPT !.meant = sources]
  IN  /\ ~(pa.malformed /\ Answer.seen.here \cap Sources # {})
      /\ Callback({"set_input"}, EndOfList(IssueAll(c, "set_value", sources)))

\* set_input_default_dev_set_card_profile_by_name_callback.
SetProfileCallback ==
  Callback({"set_profile"}, Issue(Rest, "list", "set_input_default", None))

\* Variant: the value reported is that of the first source.
LastOfFirst(sources) == IF sources = {} THEN None ELSE Head(SetToSeq(sources))

\* The value reported is that of the last source of the list.
LastOf(sources) == IF sources = {} THEN None ELSE Last(SetToSeq(sources))

\* get_input_default_dev_get_source_info_list_callback.
SetInputDefaultCallback ==
  LET sources == Matching(Answer.seen)
      c == [Rest EXCEPT !.info = LastOf(sources)]
  IN  /\ ~(pa.malformed /\ Answer.seen.here \cap Sources # {})
      /\ Callback({"set_input_default"}, EndOfList(IssueAll(c, "set_default", sources)))

\* set_output_default_dev_get_sink_info_callback: a sink with one available
\* port becomes the default; of one with more the port is set.
SetOutputDefaultCallback ==
  LET sink == Answer.dev
      cb == IF pa.need_info THEN "default_set" ELSE "simple_callback"
      c == CASE NumPorts[sink] = 0 -> Rest
             [] NumPorts[sink] = 1 -> [Issue(Rest, "set_default", cb, sink) EXCEPT !.ret = 1]
             [] OTHER -> [Issue(Rest, "set_port", cb, sink) EXCEPT !.ret = 1]
  IN  Callback({"set_output_default_dev"}, EndOfList(c))

\* set_output_default_dev_callback.
DefaultSetCallback == Callback({"default_set"}, Issue(Rest, "list", "default_info", None))

\* get_output_default_dev_info_callback: any sink whose active port has the
\* name, the last of the list.
DefaultInfoCallback ==
  LET sinks == {k \in Sinks \cap Answer.seen.here : Answer.seen.port[k] = pa.port}
  IN  \/ \E k \in sinks : Callback({"default_info"}, Drain([Rest EXCEPT !.info = k]))
      \/ sinks = {} /\ Callback({"default_info"}, Drain(Rest))

-------------------------------------------------------------------------------
Client ==
  \/ MasterCall \/ ListCall \/ InputCall \/ OutputCall \/ InputDefaultCall
  \/ OutputDefaultCall

AnswerCallback ==
  \/ AnswerIsError
  \/ SetMasterVolumeCallback \/ SetMasterMuteCallback \/ GetMasterCallback \/ GetInfoToSetCallback
  \/ SimpleCallbackLock \/ SimpleCallback \/ GetValueCallback \/ DevsCallback
  \/ GetInputDevsCallback \/ MalformedName \/ SetInputCallback \/ SetProfileCallback
  \/ SetInputDefaultCallback \/ SetOutputDefaultCallback \/ DefaultSetCallback
  \/ DefaultInfoCallback

Loop == Ready \/ Return \/ (Answered /\ AnswerCallback)

Others == \E d \in Devs : Unplug(d) \/ OtherClient(d)

PaNext == Client \/ Loop \/ ContextFails \/ Serve \/ Others

\* The loop runs until it quits, and the server answers.
PaSpec == PaInit /\ [][PaNext]_paVars /\ WF_paVars(Loop) /\ WF_paVars(Serve)

-------------------------------------------------------------------------------
(***************************************************************************)
(* Properties.                                                             *)
(***************************************************************************)
\* A call that ends well has done all it was to do, and nothing else, though
\* devices come and go between its answers: a master call has set both the
\* sink and the source it was told are the default, a call for an input device
\* every source that has its name, and a call that reads has read. Its context
\* was not disconnected while a request had no answer, though several drain it.
SuccessIsWhole ==
  pa.state = "quit(0)" =>
    /\ pa.requests = <<>>
    /\ pa.did = pa.meant
    /\ pa.action \in MasterSets =>
         /\ None \notin {pa.sink_name, pa.source_name}
         /\ pa.meant = {pa.sink_name, pa.source_name}
    /\ pa.action \in MasterGets => pa.ret \in Values

\* The value returned for an input device is that of the source which the call
\* has made the default, also where several have its name.
InfoIsOfDefault == pa.state = "quit(0)" /\ pa.info \in Sources => pa.made = pa.info

\* With ret at 1 by chance and no source of its name, a call for an input
\* device takes the end of the list for that of a request, and waits for ever.
Hanging ==
  /\ pa.state = "run" /\ pa.action \in InputSets /\ pa.garbage = 1
  /\ pa.requests = <<>> /\ pa.meant = {}

\* But for that a loop that runs has something to wait for: however requests
\* are counted, and whatever lists have no item, the chain of a call goes on
\* with a request or ends the loop.
RequestUnderWay == pa.state = "run" => pa.requests # <<>> \/ Hanging

\* Without a default device the mute of both takes the service down.
Aborted == pa.state = "aborted" /\ pa.action = "SET_MASTER_MUTE"
             /\ None \in {pa.sink_name, pa.source_name}

\* Hence every call returns, whatever else fails or goes away.
Returns == pa.state = "connect" ~> pa.state = "returned" \/ Hanging \/ Aborted
===============================================================================

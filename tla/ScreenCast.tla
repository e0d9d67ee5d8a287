----------------------------- MODULE ScreenCast -----------------------------
(***************************************************************************)
(* The portal's ScreenCast interface (screencast.rs): SelectSources and    *)
(* Start of sessions, any number of calls at a time, over the streaming    *)
(* threads of CastThread.                                                  *)
(***************************************************************************)
EXTENDS Naturals, FiniteSets

CONSTANTS Outputs,   \* outputs the compositor may have
          Windows,   \* its windows
          Sessions, Calls, Threads, Nothing,
          Settings   \* the environments the portal may be started in

\* output, window: TOMOE_SCREENCAST_OUTPUT and _WINDOW, by what they match.
\* chooser: TOMOE_PORTAL_CHOOSER is set.
Setting == [output : Outputs \cup {Nothing}, window : Windows \cup {Nothing}, chooser : BOOLEAN]
ScreenCastAssumption == /\ Settings \subseteq Setting /\ Outputs \cap Windows = {}
                        /\ Nothing \notin Outputs \cup Windows \cup Sessions \cup Threads

VARIABLES setting,
          call,      \* the calls of the interface
          sessions,  \* ScreenCast.sessions: what was selected
          streams,   \* ScreenCast.streams
          lives, answers   \* of each thread; see CastThread

castVars == <<setting, call, sessions, streams, lives, answers>>

-----------------------------------------------------------------------------
\* asks: the source types of a SelectSources; found: what was enumerated.
\* reply: the response code.
Call == [phase : {"new", "listing", "asking", "waiting", "joining", "done"},
         session : Sessions \cup {Nothing}, asks : SUBSET {"monitor", "window"},
         found : SUBSET (Outputs \cup Windows), thread : Threads \cup {Nothing},
         reply : {"none", "success", "cancelled", "other", "error"}]
Fresh == [phase |-> "new", session |-> Nothing, asks |-> {}, found |-> {},
          thread |-> Nothing, reply |-> "none"]
Reply(x, code) == [x EXCEPT !.phase = "done", !.reply = code]

Of(types) == (IF "monitor" \in types THEN Outputs ELSE {})
                \cup (IF "window" \in types THEN Windows ELSE {})

\* What the round trips of an enumeration may find.
ListedOutputs(types) == IF "monitor" \in types THEN SUBSET Outputs ELSE {{}}
ListedWindows(types) == IF "window" \in types THEN SUBSET Windows ELSE {{}}

\* What an environment without a chooser decides on: a window or an output it
\* names, the only candidate, the first output, nothing.
Heuristic(found, set) ==
    LET outs == found \cap Outputs
        wins == found \cap Windows
    IN  IF set.window \in wins THEN {set.window}
        ELSE IF set.output \in outs THEN {set.output}
        ELSE IF Cardinality(outs) = 1 /\ wins = {} THEN outs
        ELSE IF outs = {} /\ Cardinality(wins) = 1 THEN wins
        ELSE {}

\* Fault: a window or an output that is named is cast, offered or not.
ChooseNamed(found, set) ==
    IF set.window # Nothing THEN {set.window}
    ELSE IF set.output # Nothing THEN {set.output}
    ELSE found \cup {Nothing}

\* choose_source: the sources it may return, or Nothing.
ChooseSource(found, set) ==
    LET first == IF found \cap Outputs = {} THEN {Nothing}
                 ELSE {CHOOSE o \in found \cap Outputs : TRUE}
    IN  IF Heuristic(found, set) # {} THEN Heuristic(found, set)
        ELSE IF set.chooser THEN found \cup {Nothing} \cup first
        ELSE first

\* ipc_select of an answer, or none in time: what is picked, "deny", "fallback".
Picks == Outputs \cup Windows \cup {"deny", "fallback"}
Picked(pick, found, set) ==
    IF pick = "deny" THEN {Nothing}
    ELSE IF pick \in found THEN {pick}
    ELSE ChooseSource(found, set)

-----------------------------------------------------------------------------
ScreenCastInit ==
    /\ setting \in Settings
    /\ call = [c \in Calls |-> Fresh]
    /\ sessions = [s \in Sessions |-> Nothing]
    /\ streams = [s \in Sessions |-> Nothing]
    /\ lives = [t \in Threads |-> "new"] /\ answers = [t \in Threads |-> "none"]

SelectSources(c, s, types) ==
    /\ call[c].phase = "new"
    /\ call' = [call EXCEPT ![c] = [@ EXCEPT !.phase = "listing", !.session = s, !.asks = types]]
    /\ UNCHANGED <<setting, sessions, streams, lives, answers>>

\* Outputs that cannot be listed are an error; windows that cannot are none.
Enumerate(c) ==
    /\ call[c].phase = "listing"
    /\ \/ /\ "monitor" \in call[c].asks
          /\ call' = [call EXCEPT ![c] = Reply(@, "error")]
       \/ \E outs \in ListedOutputs(call[c].asks), wins \in ListedWindows(call[c].asks) :
             call' = [call EXCEPT ![c] = [@ EXCEPT !.phase = "asking", !.found = outs \cup wins]]
    /\ UNCHANGED <<setting, sessions, streams, lives, answers>>

\* The compositor answers, fails to, or the wait times out.
Ask(c) ==
    /\ call[c].phase = "asking"
    /\ \E pick \in Picks : \E source \in Picked(pick, call[c].found, setting) :
          /\ call' = [call EXCEPT ![c] = Reply(@, IF source = Nothing THEN "cancelled" ELSE "success")]
          /\ sessions' = IF source = Nothing THEN sessions
                         ELSE [sessions EXCEPT ![call[c].session] = source]
    /\ UNCHANGED <<setting, streams, lives, answers>>

\* Start: a thread for what was selected, in its own time.
Start(c, s) ==
    /\ call[c].phase = "new"
    /\ IF sessions[s] = Nothing
       THEN /\ call' = [call EXCEPT ![c] = Reply([@ EXCEPT !.session = s], "cancelled")]
            /\ UNCHANGED lives
       ELSE LET t == CHOOSE t \in Threads : lives[t] = "new"
            IN /\ \E u \in Threads : lives[u] = "new"
               /\ lives' = [lives EXCEPT ![t] = "starting"]
               /\ call' = [call EXCEPT ![c] = [@ EXCEPT !.phase = "waiting", !.session = s,
                                                        !.thread = t]]
    /\ UNCHANGED <<setting, sessions, streams, answers>>

\* start returns an error: there is no handle.
StartFailed(c) ==
    /\ call[c].phase = "waiting" /\ answers[call[c].thread] = "error"
    /\ call' = [call EXCEPT ![c] = Reply(@, "other")]
    /\ UNCHANGED <<setting, sessions, streams, lives, answers>>

Stopping(t) == [lives EXCEPT ![t] = IF @ \in {"starting", "running"} THEN "stopping" ELSE @]

\* Fault: the old stream is joined before it is told to stop.
JoinFirst(c) ==
    /\ call[c].phase = "waiting" /\ answers[call[c].thread] = "node"
    /\ \A d \in Calls : call[d].phase # "joining"
    /\ LET old == streams[call[c].session]
       IN  /\ streams' = [streams EXCEPT ![call[c].session] = call[c].thread]
           /\ call' = [call EXCEPT ![c] = IF old = Nothing THEN Reply(@, "success")
                                          ELSE [@ EXCEPT !.phase = "joining", !.thread = old]]
    /\ UNCHANGED <<setting, sessions, lives, answers>>

\* The stream is inserted; one that was there is stopped and joined first, with
\* the lock on streams held.
Insert(c) ==
    /\ call[c].phase = "waiting" /\ answers[call[c].thread] = "node"
    /\ \A d \in Calls : call[d].phase # "joining"
    /\ LET s == call[c].session
           old == streams[s]
       IN  /\ streams' = [streams EXCEPT ![s] = call[c].thread]
           /\ IF old = Nothing
              THEN call' = [call EXCEPT ![c] = Reply(@, "success")] /\ UNCHANGED lives
              ELSE /\ call' = [call EXCEPT ![c] = [@ EXCEPT !.phase = "joining", !.thread = old]]
                   /\ lives' = Stopping(old)
    /\ UNCHANGED <<setting, sessions, answers>>

Joined(c) ==
    /\ call[c].phase = "joining" /\ lives[call[c].thread] = "exited"
    /\ call' = [call EXCEPT ![c] = Reply(@, "success")]
    /\ UNCHANGED <<setting, sessions, streams, lives, answers>>

\* A step of a thread, as CastThread allows; a stream may die by itself.
Thread(t) ==
    \/ /\ lives[t] \in {"starting", "stopping"} /\ answers[t] = "none"
       /\ answers' = [answers EXCEPT ![t] = "node"]
       /\ lives' = [lives EXCEPT ![t] = IF @ = "starting" THEN "running" ELSE @]
    \/ lives[t] = "starting" /\ lives' = [lives EXCEPT ![t] = "exited"]
                            /\ answers' = [answers EXCEPT ![t] = "error"]
    \/ lives[t] \in {"starting", "running"} /\ lives' = Stopping(t) /\ UNCHANGED answers
ThreadExits(t) ==
    /\ lives[t] = "stopping" /\ lives' = [lives EXCEPT ![t] = "exited"]
    /\ answers' = [answers EXCEPT ![t] = IF @ = "none" THEN "error" ELSE @]
Threaded(t) == (Thread(t) \/ ThreadExits(t)) /\ UNCHANGED <<setting, call, sessions, streams>>

Serve(c) == Enumerate(c) \/ Ask(c) \/ StartFailed(c) \/ Insert(c) \/ Joined(c)
ScreenCastNext ==
    \/ \E c \in Calls :
          \/ Serve(c)
          \/ \E s \in Sessions : Start(c, s) \/ \E ts \in SUBSET {"monitor", "window"} : SelectSources(c, s, ts)
    \/ \E t \in Threads : Threaded(t)

\* Blocking tasks are run; the compositor answers or times out and a chooser
\* ends; CastThread's promise, and a stream that connects or fails.
ScreenCastFairness ==
    /\ \A c \in Calls : WF_castVars(Serve(c))
    /\ \A t \in Threads : WF_castVars(ThreadExits(t) /\ Threaded(t)) /\ WF_castVars(answers[t] = "none" /\ Threaded(t) /\ answers'[t] # "none")
ScreenCastSpec == ScreenCastInit /\ [][ScreenCastNext]_castVars /\ ScreenCastFairness

-----------------------------------------------------------------------------
ScreenCastTypeOK ==
    /\ setting \in Settings /\ call \in [Calls -> Call]
    /\ sessions \in [Sessions -> Outputs \cup Windows \cup {Nothing}]
    /\ streams \in [Sessions -> Threads \cup {Nothing}]
    /\ lives \in [Threads -> {"new", "starting", "running", "stopping", "exited"}]
    /\ answers \in [Threads -> {"none", "node", "error"}]

\* No thread runs that nobody can stop: it is awaited by a start, or the stream
\* of a session, or told to stop already.
NoStrayThread ==
    \A t \in Threads : lives[t] \in {"starting", "running"} =>
        \/ \E c \in Calls : call[c].phase = "waiting" /\ call[c].thread = t
        \/ \E s \in Sessions : streams[s] = t

\* What a session may cast was offered to one of its SelectSources: of a type it
\* asked for, and there when it was listed, whoever picked it: the configuration
\* over IPC, the environment, a chooser, or nobody.
OnlyWhatWasOffered ==
    \A s \in Sessions : sessions[s] # Nothing =>
        \E c \in Calls : /\ call[c].session = s /\ call[c].reply = "success"
                         /\ sessions[s] \in call[c].found \cap Of(call[c].asks)

\* All of these.
ScreenCastInv == ScreenCastTypeOK /\ NoStrayThread /\ OnlyWhatWasOffered

\* Every call returns, the lock and the join in Start notwithstanding.
CallsReturn == \A c \in Calls : (call[c].phase # "new") ~> (call[c].phase = "done")
============================================================================

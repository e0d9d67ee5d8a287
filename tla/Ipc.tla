-------------------------------- MODULE Ipc --------------------------------
(***************************************************************************)
(* The IPC server (ipc.rs) and what a Lua entry does to it (after_lua,     *)
(* reload_config, focus_window_impl in state.rs; the request object of     *)
(* on_screencast_request in lua.rs).                                       *)
(*                                                                         *)
(* A connection is used once: new, open, gone.  Frames are counted, not    *)
(* kept: out is what the server buffers, wire what the kernel holds for    *)
(* the client.  What matters about an answer is recorded where it is       *)
(* queued (req), about a focus event likewise (told).  The server is one   *)
(* record, srv, and its handlers are functions of it, so that a handler    *)
(* that re-enters Lua composes with what the Lua run does.                 *)
(***************************************************************************)
EXTENDS Naturals, Sequences, FiniteSets

CONSTANTS Conns,      \* connections that may be made
          Ids,        \* request ids a client uses; used again once answered
          FocusIds, NoWindow,
          Keep,       \* a Lua run that leaves the focus alone; never told
          Again,      \* told of the focus it was last told of
          Effects,    \* what Lua runs do beside answering: see AnyEffect
          Filters,    \* the sets of events clients subscribe to
          Room,       \* frames the kernel's socket buffer takes
          MaxOut,     \* MAX_OUTGOING, in frames
          MaxLines,   \* bound: request lines read at once
          MaxTokens   \* bound: screencast_select requests over a behaviour

\* ipc.broadcast calls, a Focus op, a reload action with the screencast hook of
\* the new configuration; and what became of a request object Lua holds.
AnyEffect == [casts : BOOLEAN, focus : FocusIds \cup {NoWindow, Keep},
              reload : {"no", "hook", "nohook"}, request : {"kept", "answered", "dropped"}]

IpcAssumption ==
    /\ Effects \subseteq AnyEffect
    /\ Room \in Nat /\ MaxOut \in Nat /\ MaxTokens \in Nat /\ MaxLines \in Nat
    /\ NoWindow \notin FocusIds
    /\ Keep \notin FocusIds \cup {NoWindow} /\ Again \notin FocusIds \cup {NoWindow, Keep}
    /\ IsFiniteSet(Ids) /\ "none" \notin Conns
    /\ Filters \subseteq SUBSET {"focus_change", "other"}

VARIABLES srv,      \* IpcState, the focus, and the screencast side of the VM
          reading   \* read_client between two lines: see Reading

ipcVars == <<srv, reading>>

-----------------------------------------------------------------------------
Line == [method : {"builtin", "subscribe", "serve", "screencast_select"}, id : Ids]
            \cup [method : {"serve_no_id"}]

\* idle: never used.  asked: dispatched, the answer is
\* owed.  answered: queued.  twice: an answer nobody is owed.
ReqState == {"idle", "asked", "answered", "twice"}

\* The events a subscriber may filter for: focus_change, and all others.
Event == {"focus_change", "other"}

\* hung: the client closed its end.  told: the last focus it was told of since
\* it subscribed.
Client == [phase : {"new", "open", "gone"}, dead : BOOLEAN, hung : BOOLEAN,
           events : SUBSET Event, out : Nat, wire : 0 .. Room,
           told : FocusIds \cup {NoWindow, Keep, Again}, req : [Ids -> ReqState]]

Pending == [token : 0 .. MaxTokens, conn : Conns, id : Ids]

\* held: tokens whose request object the VM still holds, unanswered.
\* History: dropped, tokens whose object this VM threw away unanswered; moved, a
\* focus hook moved the focus on while the change it was told of was announced.
Server == [client : [Conns -> Client], pending : SUBSET Pending,
           nextToken : 0 .. MaxTokens, hook : BOOLEAN,
           held : SUBSET (0 .. MaxTokens), dropped : SUBSET (0 .. MaxTokens),
           lastFocus : FocusIds \cup {NoWindow}, focus : FocusIds \cup {NoWindow},
           moved : BOOLEAN]

Fresh == [phase |-> "new", dead |-> FALSE, hung |-> FALSE, events |-> {},
          out |-> 0, wire |-> 0, told |-> Keep, req |-> [i \in Ids |-> "idle"]]
Gone == [Fresh EXCEPT !.phase = "gone"]

\* read_client has read `left` more lines of connection conn.
Idle == [conn |-> "none", left |-> 0]
Reading == {Idle} \cup [conn : Conns, left : 0 .. MaxLines]

Least(a, b) == IF a < b THEN a ELSE b

-----------------------------------------------------------------------------
(* Client::send and what removes clients.                                  *)

\* Client::flush: as much as the kernel takes; a closed peer is an error.
Flush(c) ==
    IF c.out = 0 THEN c
    ELSE IF c.hung THEN [c EXCEPT !.dead = TRUE]
    ELSE LET n == Least(c.out, Room - c.wire)
         IN  [c EXCEPT !.out = @ - n, !.wire = @ + n]

\* Client::send, k times in a row: nobody reads in between, so that the backlog
\* is longest after the last; a client that is not in the map gets nothing.
Send(c, k) ==
    IF c.phase # "open" \/ c.dead \/ k = 0 THEN c
    ELSE LET f == Flush([c EXCEPT !.out = @ + k])
         IN  [f EXCEPT !.dead = @ \/ f.out > MaxOut]

\* The frames that answer the requests ids, unless nothing is sent any more.
Answered(c, ids) ==
    IF c.phase # "open" \/ c.dead THEN c
    ELSE [Send(c, Cardinality(ids)) EXCEPT !.req = [i \in Ids |->
             IF i \notin ids THEN @[i] ELSE IF @[i] = "asked" THEN "answered" ELSE "twice"]]

Answer(s, n, i) == [s EXCEPT !.client[n] = Answered(@, {i})]

\* HashMap::remove of clients, with the requests that wait for them.
Remove(s, gone) ==
    [s EXCEPT !.client = [n \in Conns |-> IF n \in gone THEN Gone ELSE s.client[n]],
              !.pending = {p \in @ : p.conn \notin gone}]

Dead(s) == {n \in Conns : s.client[n].phase = "open" /\ s.client[n].dead}

SweepDead(s) == Remove(s, Dead(s))

Wants(c, event) == c.phase = "open" /\ event \in c.events

Broadcast(s, event) ==
    SweepDead([s EXCEPT !.client = [n \in Conns |->
        IF Wants(s.client[n], event) THEN Send(s.client[n], 1) ELSE s.client[n]]])

BroadcastFocus(s, w) ==
    SweepDead([s EXCEPT !.client = [n \in Conns |->
        IF Wants(s.client[n], "focus_change")
        THEN [Send(s.client[n], 1) EXCEPT !.told = IF @ = w THEN Again ELSE w]
        ELSE s.client[n]]])

NotifyFocusChange(s, w) ==
    IF s.lastFocus = w THEN s ELSE BroadcastFocus([s EXCEPT !.lastFocus = w], w)

-----------------------------------------------------------------------------
(* Screencast answers, and a Lua entry.                                    *)

\* Requests ps leave the table and their clients are sent an answer.
AnswerAll(s, ps) ==
    SweepDead([s EXCEPT
        !.pending = @ \ ps,
        !.client = [n \in Conns |->
            Answered(s.client[n], {p.id : p \in {q \in ps : q.conn = n}})]])

WithToken(s, tokens) == {p \in s.pending : p.token \in tokens}

\* flush_screencast_replies: a token that is not pending is skipped.
FlushReplies(s, tokens) == AnswerAll(s, WithToken(s, tokens))

\* Fault: a reload forgets the portals that wait.
AbandonNothing(s) == s

\* abandon_pending_screencasts: all who wait are told to fall back.
AbandonPending(s) == AnswerAll(s, s.pending)

\* What a Lua run may leave behind: effects, and a request answered that it holds
\* or whose object it lets go, which nothing notices.
Run(r, tokens) == [answers |-> {t \in tokens : r.request = "answered"},
                   drops |-> {t \in tokens : r.request = "dropped"},
                   casts |-> r.casts, focus |-> r.focus, reload |-> r.reload]

Runs(held) == {Run(r, {}) : r \in {e \in Effects : e.request = "kept"}}
                  \cup {Run(r, {t}) : r \in {e \in Effects : e.request # "kept"}, t \in held}

Quiet(l) == l.answers = {} /\ l.drops = {} /\ ~l.casts /\ l.focus = Keep /\ l.reload = "no"

Tokens(s) == {p.token : p \in s.pending}

Dropped(s, tokens) == [s EXCEPT !.held = @ \ tokens,
                                !.dropped = @ \cup (tokens \cap Tokens(s))]

\* Fault: Lua knows, nobody else is told.
ApplyFocusSilently(s, w) ==
    IF w = Keep THEN s ELSE [s EXCEPT !.focus = w, !.moved = FALSE]

\* focus_window_impl inside Lua: no second hook, but subscribers hear of it.
ApplyFocus(s, w) ==
    IF w = Keep THEN s ELSE NotifyFocusChange([s EXCEPT !.focus = w, !.moved = FALSE], w)

\* reload_config: the request objects die with the old VM.
Reloaded(s, hook) == AbandonPending([s EXCEPT !.held = {}, !.dropped = {}, !.hook = hook])

\* after_lua: ops, then actions, then what was queued for IPC clients; a reload
\* among the actions takes the queues of the old VM with it.
AfterLua(s, l) ==
    LET f == ApplyFocus(s, l.focus)
        b == IF l.casts THEN Broadcast(f, "other") ELSE f
    IN  IF l.reload # "no" THEN Reloaded(f, l.reload = "hook")
        ELSE FlushReplies(Dropped([b EXCEPT !.held = @ \ l.answers], l.drops), l.answers)

\* focus_window_impl outside Lua: the hook first, its ops included, and then
\* the subscribers, about the window the call was for.
FocusWindow(s, w, l) ==
    LET r == AfterLua([s EXCEPT !.focus = w], l)
    IN  NotifyFocusChange([r EXCEPT !.moved = l.focus \notin {Keep, w}], w)

-----------------------------------------------------------------------------
(* dispatch: one request line of connection n.                             *)

Finish(s, n, i) == SweepDead(Answer(s, n, i))

Ask(s, n, i) == [s EXCEPT !.client[n].req[i] = "asked"]

Subscribe(s, n, i, events) ==
    IF s.client[n].phase # "open" THEN s
    ELSE Finish([Ask(s, n, i) EXCEPT !.client[n].events = events,
                                     !.client[n].told = Keep], n, i)

\* handle_screencast_select: how the hook ends, and what it did meanwhile.  One
\* that defers or fails may keep the request object or not: kept.
Outcome == {"answered", "deferred", "failed"}

HandleScreencastSelect(s, n, i, outcome, kept, l) ==
    LET t == s.nextToken
        p == [token |-> t, conn |-> n, id |-> i]
        q == [Ask(s, n, i) EXCEPT !.pending = @ \cup {p}, !.nextToken = t + 1]
        r == IF outcome = "answered" THEN AfterLua([q EXCEPT !.held = @ \cup {t}],
                                                   [l EXCEPT !.answers = @ \cup {t}])
             ELSE IF kept THEN AfterLua([q EXCEPT !.held = @ \cup {t}], l)
             ELSE AfterLua([q EXCEPT !.dropped = @ \cup {u \in {t} : outcome = "deferred"}], l)
    IN  IF ~s.hook THEN Finish(Ask(s, n, i), n, i)
        ELSE IF outcome = "failed" /\ WithToken(r, {t}) # {} THEN AnswerAll(r, WithToken(r, {t}))
        ELSE r

\* The servers a line may leave behind.
Dispatched(s, n, line) ==
    CASE line.method = "builtin" -> {Finish(Ask(s, n, line.id), n, line.id)}
      [] line.method = "subscribe" -> 
            {Subscribe(s, n, line.id, events) : events \in Filters}
      [] line.method = "serve" ->
            {Finish(AfterLua(Ask(s, n, line.id), l), n, line.id) : l \in Runs(s.held)}
      [] line.method = "serve_no_id" -> {AfterLua(s, l) : l \in Runs(s.held)}
      [] line.method = "screencast_select" ->
            {HandleScreencastSelect(s, n, line.id, outcome, kept, l) :
                outcome \in Outcome, kept \in BOOLEAN, l \in Runs(s.held)}

-----------------------------------------------------------------------------
IpcInit ==
    /\ srv = [client |-> [n \in Conns |-> Fresh], pending |-> {}, nextToken |-> 0, hook |-> TRUE, held |-> {},
              dropped |-> {}, lastFocus |-> NoWindow, focus |-> NoWindow, moved |-> FALSE]
    /\ reading = Idle

\* accept_client; a connection whose source cannot be registered is dropped.
Accept(n) ==
    /\ reading = Idle /\ srv.client[n].phase = "new"
    /\ \E p \in {"open", "gone"} : srv' = [srv EXCEPT !.client[n].phase = p]
    /\ UNCHANGED reading

ClientReads(n) ==
    /\ srv.client[n].wire > 0 /\ ~srv.client[n].hung
    /\ srv' = [srv EXCEPT !.client[n].wire = @ - 1]
    /\ UNCHANGED reading

ClientHangsUp(n) ==
    /\ srv.client[n].phase = "open" /\ ~srv.client[n].hung
    /\ srv' = [srv EXCEPT !.client[n].hung = TRUE]
    /\ UNCHANGED reading

\* read_client up to its dispatch loop: the backlog is flushed and every line
\* there is is read, if there is a whole one.
ReadClient(n) ==
    /\ reading = Idle /\ srv.client[n].phase = "open"
    /\ srv' = [srv EXCEPT !.client[n] = Flush(@)]
    /\ \E lines \in 0 .. MaxLines : reading' = [conn |-> n, left |-> lines]

\* The dispatch loop, one line; it goes on when the client is gone.  Nobody sees
\* a line before this, so that it is chosen here; a client uses an id again once
\* it is answered.
DispatchLine ==
    /\ reading.left > 0
    /\ \E line \in Line :
          /\ line.method = "screencast_select" => srv.nextToken < MaxTokens
          /\ "id" \in DOMAIN line => srv.client[reading.conn].req[line.id] # "asked"
          /\ srv' \in Dispatched(srv, reading.conn, line)
    /\ reading' = [reading EXCEPT !.left = @ - 1]

\* The end of read_client: an oversized line, a read error or the end of the
\* stream disconnects, and so does a client that died meanwhile.
ReadDone ==
    /\ reading # Idle /\ reading.left = 0
    /\ \E disconnect \in BOOLEAN :
          LET c == srv.client[reading.conn]
          IN  srv' = IF disconnect \/ c.phase # "open" \/ c.dead
                     THEN Remove(srv, {reading.conn}) ELSE srv
    /\ reading' = Idle

Compositor(s) == reading = Idle /\ srv' = s /\ UNCHANGED reading

\* A click, a hover or a window that maps or closes moves the focus.
InputFocus == \E w \in FocusIds \cup {NoWindow}, l \in Runs(srv.held) :
                  Compositor(FocusWindow(srv, w, l))

\* A bind, a timer, a widget or a window hook runs Lua.
LuaEntry == \E l \in Runs(srv.held) : ~Quiet(l) /\ Compositor(AfterLua(srv, l))

\* close_widget: what its callbacks held goes with them.
CloseWidget == \E t \in srv.held : Compositor(Dropped(srv, {t}))

\* window_open, window_close, outputs_changed, keyboard_activity: built only
\* for somebody who wants them.
CoreEvent == /\ \E n \in Conns : Wants(srv.client[n], "other")
             /\ Compositor(Broadcast(srv, "other"))

IpcNext ==
    \/ \E n \in Conns : \/ Accept(n) \/ ClientReads(n) \/ ClientHangsUp(n)
                        \/ ReadClient(n)
    \/ DispatchLine \/ ReadDone
    \/ InputFocus \/ LuaEntry \/ CloseWidget \/ CoreEvent

IpcSpec == IpcInit /\ [][IpcNext]_ipcVars

-----------------------------------------------------------------------------
(* Properties.                                                             *)

IpcTypeOK ==
    /\ srv \in Server
    /\ reading \in Reading

\* "Requests with an id receive exactly one matching response" (tomoe-ipc):
\* whatever the order of hooks, answers, reloads and hang-ups, no request is
\* answered twice, and while its client is connected one that was read is owed
\* an answer by exactly one entry of the screencast table, or has it.
OneResponse ==
    \A n \in Conns, i \in Ids :
        /\ srv.client[n].req[i] # "twice"
        /\ srv.client[n].phase = "open" /\ srv.client[n].req[i] = "asked" =>
               Cardinality({p \in srv.pending : p.conn = n /\ p.id = i}) = 1

\* Nobody waits for what ended without them: a pending request has a client that
\* is connected (or is being read) and that was not answered, and its request
\* object belongs to the running VM, never to one that a reload replaced.  The
\* VM holds it still or threw it away itself: then only the portal's timeout
\* ends the wait, and the entry stays until its client goes or a reload.
PendingAnswerable ==
    \A p \in srv.pending :
        /\ srv.client[p.conn].phase = "open" \/ reading.conn = p.conn
        /\ srv.client[p.conn].phase = "open" => srv.client[p.conn].req[p.id] = "asked"
        /\ p.token \in srv.held \cup srv.dropped

\* "Never buffer unboundedly for a stuck peer": between two callbacks the
\* backlog of a connected client is within MAX_OUTGOING, and no client is left
\* marked dead with its source registered.
BacklogBounded ==
    \A n \in Conns :
        srv.client[n].phase = "open" /\ reading = Idle =>
            srv.client[n].out <= MaxOut /\ ~srv.client[n].dead

\* All of these, the promises of the socket.
IpcInv == IpcTypeOK /\ OneResponse /\ PendingAnswerable /\ BacklogBounded

\* Whoever listens for focus_change believes what is: the last event it got, if
\* any since it subscribed, names the focus there is, whether input, Lua or a hook
\* within a focus change moved it last, and it got none twice in a row.  The
\* exception is the order of focus_window_impl: when the hook for a change moves
\* the focus on, that move is announced first and the older change last.
SubscribersKnowFocus ==
    ~srv.moved =>
        /\ srv.lastFocus = srv.focus
        /\ \A n \in Conns : Wants(srv.client[n], "focus_change") =>
              srv.client[n].told \in {Keep, srv.focus}
=============================================================================

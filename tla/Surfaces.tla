------------------------------ MODULE Surfaces ------------------------------
(***************************************************************************)
(* moonshell-surface: the layer surfaces of moonshell's windows.  Handlers *)
(* of Wayland events set flags, and the redraw after a pass of the loop    *)
(* paints what owes content.                                               *)
(***************************************************************************)
EXTENDS Queues, SequencesExt

CONSTANTS MaxWindows,  \* bound: windows ever created
          MaxEvents    \* bound: what the compositor does of its own accord
ASSUME SurfaceBounds == MaxWindows \in Nat /\ MaxEvents \in Nat

VARIABLES windows, \* Shell.windows by id, each painted by a VM
          nextId,
          server,  \* the compositor's side of each layer surface
          plugged, \* outputs the compositor has
          outputs, \* outputs the shell knows of
          events,  \* to the shell, oldest first
          happened,
          stage    \* where a pass of run_with is; "dispatch" is where it blocks

surfaces == <<windows, nextId, server, plugged, outputs, events, happened>>

\* shows: the surface shows what its painter would paint by now.
Window(painter) ==
    [painter |-> painter, layer |-> FALSE, lived |-> FALSE, configured |-> FALSE,
     committed |-> FALSE, dirty |-> FALSE, frame |-> FALSE, shows |-> FALSE]

Unknown == [state |-> "none", frame |-> FALSE]

SurfacesInit ==
    /\ windows = <<>> /\ nextId = 1 /\ server = <<>>
    /\ plugged \in {0, 1} /\ outputs = plugged
    /\ events = <<>> /\ happened = 0

\* A destroyed object gets no more events.
Dropped(ids) == Retain(events, {ev \in ToSet(events) : ev.id \notin ids})

\* map_window: a surface whose first commit asks for a configure.
Mapped(win) == [Window(win.painter) EXCEPT !.layer = TRUE]
MapWindows(ids) ==
    /\ windows' = [id \in DOMAIN windows |-> IF id \in ids THEN Mapped(windows[id]) ELSE windows[id]]
    /\ server' = [id \in DOMAIN server |-> IF id \in ids THEN [Unknown EXCEPT !.state = "new"]
                                           ELSE server[id]]

-----------------------------------------------------------------------------
\* The compositor.
Live == {id \in DOMAIN server : server[id].state \in {"new", "up"}}
Event(what, id) == [what |-> what, id |-> id]
Freely == happened < MaxEvents /\ happened' = happened + 1

\* The answer to a first commit, or a change of size.
Configures ==
    /\ \E id \in Live, resized \in BOOLEAN :
          /\ plugged > 0
          /\ \/ server[id].state = "new" /\ UNCHANGED happened
             \/ server[id].state = "up" /\ Freely
          /\ server' = [server EXCEPT ![id].state = "up"]
          /\ events' = Append(events, [what |-> "configure", id |-> id, resized |-> resized])
    /\ UNCHANGED <<windows, nextId, plugged, outputs, stage>>

Presents ==
    /\ \E id \in Live : /\ server[id].frame
                        /\ server' = [server EXCEPT ![id].frame = FALSE]
                        /\ events' = Append(events, Event("frame", id))
    /\ UNCHANGED <<windows, nextId, plugged, outputs, happened, stage>>

Rescales ==
    /\ Freely
    /\ \E id \in Live : server[id].state = "up" /\ events' = Append(events, Event("scale", id))
    /\ UNCHANGED <<windows, nextId, server, plugged, outputs, stage>>

ClosedBy(ids) == [id \in DOMAIN server |-> IF id \in ids THEN [state |-> "closed", frame |-> FALSE]
                                           ELSE server[id]]
Closes ==
    /\ Freely
    /\ \E id \in Live : server' = ClosedBy({id}) /\ events' = Append(events, Event("closed", id))
    /\ UNCHANGED <<windows, nextId, plugged, outputs, stage>>

Plugs ==
    /\ Freely /\ plugged < 2 /\ plugged' = plugged + 1
    /\ events' = Append(events, Event("output", 0))
    /\ UNCHANGED <<windows, nextId, server, outputs, stage>>

\* An output leaves, with some of the surfaces; the last one with all.
Unplugs ==
    /\ Freely /\ plugged > 0 /\ plugged' = plugged - 1
    /\ \E ids \in SUBSET Live, last \in BOOLEAN :
          LET closings == [i \in 1..Cardinality(ids) |-> Event("closed", SetToSeq(ids)[i])]
              gone     == <<Event("gone", 0)>>
          IN  /\ plugged' = 0 => ids = Live
              /\ server' = ClosedBy(ids)
              /\ events' = events \o IF last THEN closings \o gone ELSE gone \o closings
    /\ UNCHANGED <<windows, nextId, outputs, stage>>

CompositorNext == Configures \/ Presents \/ Rescales \/ Closes \/ Plugs \/ Unplugs

-----------------------------------------------------------------------------
\* A handler runs in a pass of the loop, which its event may have started.
Handles == stage \in {"dispatch", "pass"} /\ stage' = "pass"
Takes(what) ==
    /\ Handles
    /\ events # <<>> /\ Head(events).what = what
    /\ UNCHANGED <<nextId, plugged, happened>>

\* LayerShellHandler::configure
OnConfigure ==
    /\ Takes("configure") /\ events' = Tail(events)
    /\ LET ev == Head(events)
           w  == windows[ev.id]
       IN  windows' = [windows EXCEPT ![ev.id] =
               [w EXCEPT !.committed = @ /\ ~ev.resized, !.dirty = @ \/ ev.resized \/ ~w.configured,
                         !.configured = TRUE, !.lived = TRUE]]
    /\ UNCHANGED <<server, outputs>>

\* CompositorHandler::frame
OnFrame ==
    /\ Takes("frame") /\ events' = Tail(events)
    /\ windows' = [windows EXCEPT ![Head(events).id].frame = FALSE]
    /\ UNCHANGED <<server, outputs>>

\* CompositorHandler::scale_factor_changed
OnScale ==
    /\ Takes("scale") /\ events' = Tail(events)
    /\ windows' = [windows EXCEPT ![Head(events).id] = [@ EXCEPT !.dirty = TRUE, !.committed = FALSE]]
    /\ UNCHANGED <<server, outputs>>

\* Fault: a frame that was asked of the closed surface is still waited for.
KeepsWaiting(win) == [win EXCEPT !.layer = FALSE, !.configured = FALSE]

\* LayerShellHandler::closed: one that lived is mapped again while there is an
\* output.
Unmapped(win) == [win EXCEPT !.layer = FALSE, !.configured = FALSE, !.frame = FALSE]
OnClosed ==
    /\ Takes("closed")
    /\ LET id == Head(events).id
       IN  /\ events' = Dropped({id})
           /\ IF windows[id].lived /\ outputs > 0 THEN MapWindows({id})
              ELSE /\ windows' = [windows EXCEPT ![id] = Unmapped(@)]
                   /\ server' = [server EXCEPT ![id] = Unknown]
    /\ UNCHANGED outputs

\* OutputHandler::new_output maps whatever has no surface.
OnOutput ==
    /\ Takes("output") /\ events' = Tail(events) /\ outputs' = outputs + 1
    /\ MapWindows({id \in DOMAIN windows : ~windows[id].layer})

OnGone ==
    /\ Takes("gone") /\ events' = Tail(events) /\ outputs' = outputs - 1
    /\ UNCHANGED <<windows, server>>

WaylandNext == OnConfigure \/ OnFrame \/ OnScale \/ OnClosed \/ OnOutput \/ OnGone

-----------------------------------------------------------------------------
\* create_window, for each painter, and mark_all_dirty; destroy_window, of all.
Create(painters, repaint) ==
    LET new == nextId .. nextId + Len(painters) - 1
        win(id) == IF id \in new THEN Mapped(Window(painters[id - nextId + 1])) ELSE windows[id]
    IN  /\ windows' = [id \in DOMAIN windows \cup new |-> [win(id) EXCEPT !.dirty = @ \/ repaint]]
        /\ server' = [id \in DOMAIN server \cup new |->
                         IF id \in new THEN [Unknown EXCEPT !.state = "new"] ELSE server[id]]
        /\ nextId' = nextId + Len(painters)

DestroyAll ==
    /\ windows' = <<>> /\ server' = <<>>
    /\ events' = Dropped(DOMAIN windows)

\* redraw_windows.  Damage::None commits nothing, unless the surface has had no
\* frame of this size.
Due == {id \in DOMAIN windows : /\ windows[id].configured /\ windows[id].dirty
                                /\ windows[id].layer /\ ~windows[id].frame}
MayDraw(drawn) == drawn \subseteq Due /\ {id \in Due : ~windows[id].committed} \subseteq drawn
Redrawn(drawn) ==
    [id \in DOMAIN windows |->
        IF id \notin Due THEN windows[id]
        ELSE [windows[id] EXCEPT !.dirty = FALSE, !.shows = TRUE,
                                 !.frame = id \in drawn, !.committed = TRUE]]
FramesAsked(drawn) ==
    server' = [id \in DOMAIN server |->
                  IF id \in drawn /\ server[id].state = "up" THEN [server[id] EXCEPT !.frame = TRUE]
                  ELSE server[id]]

-----------------------------------------------------------------------------
Coming(what, id) == \E i \in DOMAIN events : events[i].what = what /\ events[i].id = id

\* A window that holds its drawing back waits for a frame that will come; a
\* surface without the newest content is to be painted, or waits for its first
\* configure; the loop blocks on nothing it could paint; and a window that has
\* lost a surface that lived is mapped again as long as there is an output.
SurfacesSettle(repaint) ==
    \A id \in DOMAIN windows :
        LET w == windows[id]
            closing == Coming("closed", id)
        IN  /\ w.frame => server[id].frame \/ Coming("frame", id) \/ closing
            /\ w.layer /\ ~w.shows =>
                   \/ w.dirty \/ repaint \/ closing
                   \/ ~w.configured /\ (server[id].state = "new" \/ Coming("configure", id))
            /\ stage = "dispatch" /\ w.dirty /\ w.configured => w.frame
            /\ ~w.layer /\ w.lived => outputs = 0
=============================================================================

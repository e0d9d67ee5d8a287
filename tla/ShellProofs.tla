---------------------------- MODULE ShellProofs -----------------------------
(***************************************************************************)
(* Theorems about moonshell, for any bounds on what Lua, the compositor    *)
(* and the disk do: a reload leaves nothing of the old VM and the loop     *)
(* never blocks on what Lua asked for, a change of the configuration       *)
(* reaches Lua, and no surface waits for what will not come.               *)
(*                                                                         *)
(* And about the process supervisor that keeps a shell running, for any    *)
(* number of entries, any process table and any number of reloads.  Every  *)
(* handler but the tick, the exit and the shutdown ends in Reconcile, so   *)
(* what Reconcile establishes is one lemma, which each of them cites.      *)
(***************************************************************************)
EXTENDS Moonshell, Processes, QueueProofs, SequenceTheorems, TLAPS

-----------------------------------------------------------------------------
(* The inductive invariant.                                                *)

Win == [painter : Nat, layer : BOOLEAN, lived : BOOLEAN, configured : BOOLEAN,
        committed : BOOLEAN, dirty : BOOLEAN, frame : BOOLEAN, shows : BOOLEAN]

Server == [state : {"none", "new", "up", "closed"}, frame : BOOLEAN]

\* What is about a surface has its id; what is about an output has none.
Ev == [what : {"frame", "scale", "closed"}, id : Nat \ {0}]
        \cup [what : {"configure"}, id : Nat \ {0}, resized : BOOLEAN]
        \cup [what : {"output", "gone"}, id : {0}]

Whats == {"configure", "frame", "scale", "closed"}

Has(evs, what, id) == \E i \in 1 .. Len(evs) : evs[i].what = what /\ evs[i].id = id

Ctx == [pending : Seq(Nat), timers : SUBSET Nat, watches : SUBSET Nat,
        calls : SUBSET (Nat \X Nat), running : SUBSET Nat, execs : Nat,
        dirty : BOOLEAN, reload : BOOLEAN, quit : BOOLEAN]

\* The surfaces that events are about.
Placed(evs, ids) == \A i \in 1 .. Len(evs) : evs[i].what \in Whats => evs[i].id \in ids

\* Every id was given out, and is of a window on both sides.
SurfacesTyped ==
    /\ nextId \in Nat \ {0} /\ DOMAIN windows \subseteq 1 .. nextId - 1
    /\ windows \in [DOMAIN windows -> Win] /\ server \in [DOMAIN windows -> Server]
    /\ events \in Seq(Ev)
    /\ Placed(events, DOMAIN windows)

Typed == SurfacesTyped /\ ctx \in Ctx /\ vm \in Nat /\ late \in BOOLEAN

\* What Lua queued is of the VM who.
Owned(c, who) ==
    /\ \A i \in 1 .. Len(c.pending) : c.pending[i] = who
    /\ c.timers \cup c.watches \subseteq {who}
    /\ \A call \in c.calls : call[2] = who /\ call[1] \in c.running

Drained(c) ==
    /\ c.pending = <<>> /\ c.timers = {} /\ c.watches = {}
    /\ ~c.dirty /\ ~c.reload /\ ~c.quit

\* From the reload on, the tick leaves nothing to do but what Lua asks for late.
EngineSound ==
    /\ \A id \in DOMAIN windows : windows[id].painter = vm
    /\ Owned(ctx, vm)
    /\ \A cb \in callbacks : cb.who = vm
    /\ facade = latest
    /\ stage = "drain" /\ ~late => ~ctx.reload
    /\ stage \in {"redraw", "last", "dispatch"} /\ ~late => Drained(ctx)

\* A surface on both sides, with the events about it that are under way; repaint:
\* everything is to be marked dirty.
WinSound(id, w, s, evs, repaint) ==
    /\ w.layer => s.state # "none"
    /\ ~w.layer => /\ s.state = "none" /\ ~w.frame /\ ~w.configured
                   /\ \A what \in Whats : ~Has(evs, what, id)
    /\ s.state = "closed" => Has(evs, "closed", id)
    /\ s.state = "new" => ~w.configured /\ ~Has(evs, "configure", id)
    /\ w.layer /\ ~w.configured => s.state \in {"new", "closed"} \/ Has(evs, "configure", id)
    /\ w.frame => s.frame \/ Has(evs, "frame", id) \/ s.state = "closed"
    /\ w.configured /\ ~w.shows => w.dirty \/ repaint

\* How often the first n events say what.
Count(evs, what, n) == Cardinality({i \in 1 .. n : evs[i].what = what})

\* The outputs the shell knows of, when it has read the first n events.
Known(evs, outs, n) == outs + Count(evs, "output", n) - Count(evs, "gone", n)

Balanced(evs, outs, plugs) ==
    /\ outs \in Nat /\ plugs \in Nat
    /\ \A n \in 0 .. Len(evs) : Known(evs, outs, n) >= 0
    /\ Known(evs, outs, Len(evs)) = plugs

WindowsSound ==
    \A id \in DOMAIN windows :
        /\ WinSound(id, windows[id], server[id], events, ctx.dirty)
        /\ stage = "dispatch" /\ windows[id].dirty /\ windows[id].configured => windows[id].frame
        /\ ~windows[id].layer /\ windows[id].lived => outputs = 0

SurfacesSound == WindowsSound /\ Balanced(events, outputs, plugged)

\* Only a watched directory has events, and whoever watches one watches the root.
Dirs == {"root", "sub"}
Change == [dir : Dirs, what : {"lua", "file", "mkdir", "overflow"}]
WatcherSound ==
    /\ disk \in [root : Nat, sub : Nat, file : Nat] /\ callbacks \subseteq [who : Nat, seen : Nat]
    /\ inotify \in Seq(Change)
    /\ stage = "boot" => watched = {}
    /\ watched # {} \/ callbacks # {} \/ inotify # <<>> => "root" \in watched
    /\ StaleIsDue

ShellSound == Typed /\ EngineSound /\ SurfacesSound

MoonshellInd == ShellSound /\ WatcherSound

-----------------------------------------------------------------------------
(* Queues of events.                                                       *)

LEMMA EvLemma ==
    ASSUME NEW e \in Ev
    PROVE  /\ e.id \in Nat
           /\ e.what \in Whats \cup {"output", "gone"}
           /\ e.id = 0 <=> e.what \in {"output", "gone"}
           /\ e.what = "configure" => e.resized \in BOOLEAN
  BY DEF Ev, Whats

LEMMA PlacedLemma ==
    ASSUME NEW evs, NEW ids
    PROVE  Placed(evs, ids) <=> \A what \in Whats : \A id : Has(evs, what, id) => id \in ids
  BY DEF Placed, Has

\* What an event adds to the end of a queue, and what reading one takes from its head.
LEMMA AppendHas ==
    ASSUME NEW evs \in Seq(Ev), NEW e \in Ev
    PROVE  \A what, id : Has(Append(evs, e), what, id)
                            <=> Has(evs, what, id) \/ (e.what = what /\ e.id = id)
  <1>1. PICK t : t = Append(evs, e)
    OBVIOUS
  <1>2. /\ Len(evs) \in Nat /\ Len(t) = Len(evs) + 1 /\ t[Len(evs) + 1] = e
        /\ \A i \in 1 .. Len(evs) : t[i] = evs[i]
    BY <1>1
  <1>3. ASSUME NEW what, NEW id
        PROVE  Has(t, what, id) <=> Has(evs, what, id) \/ (e.what = what /\ e.id = id)
    <2>1. CASE e.what = what /\ e.id = id
      BY <1>2, <2>1 DEF Has
    <2>2. CASE ~(e.what = what /\ e.id = id)
      <3>1. \A i \in 1 .. Len(t) : i = Len(evs) + 1 \/ i \in 1 .. Len(evs)
        BY <1>2
      <3>2. \A i \in 1 .. Len(evs) : i \in 1 .. Len(t)
        BY <1>2
      <3> QED
        BY <1>2, <2>2, <3>1, <3>2 DEF Has
    <2> QED
      BY <2>1, <2>2
  <1> QED
    BY <1>1, <1>3

LEMMA TailHas ==
    ASSUME NEW evs \in Seq(Ev), evs # <<>>
    PROVE  /\ Head(evs) \in Ev /\ Tail(evs) \in Seq(Ev)
           /\ Len(Tail(evs)) = Len(evs) - 1 /\ Len(evs) \in Nat \ {0}
           /\ \A i \in 1 .. Len(Tail(evs)) : Tail(evs)[i] = evs[i + 1]
           /\ Head(evs) = evs[1]
           /\ \A what, id : Has(evs, what, id)
                               <=> Has(Tail(evs), what, id) \/ (Head(evs).what = what /\ Head(evs).id = id)
  <1>1. PICK t : t = Tail(evs)
    OBVIOUS
  <1>2. PICK h : h = Head(evs)
    OBVIOUS
  <1>3. /\ Len(evs) \in Nat \ {0} /\ t \in Seq(Ev) /\ h \in Ev
        /\ Len(t) = Len(evs) - 1 /\ h = evs[1] /\ \A i \in 1 .. Len(t) : t[i] = evs[i + 1]
    BY <1>1, <1>2, HeadTailProperties, EmptySeq
  <1>4. ASSUME NEW what, NEW id
        PROVE  Has(evs, what, id) <=> Has(t, what, id) \/ (h.what = what /\ h.id = id)
    <2>1. ASSUME NEW i \in 1 .. Len(t)
          PROVE  t[i] = evs[i + 1] /\ i + 1 \in 1 .. Len(evs)
      BY <1>3
    <2>2. \A i \in 1 .. Len(evs) : i = 1 \/ (i - 1 \in 1 .. Len(t) /\ evs[i] = t[i - 1])
      BY <1>3
    <2>3. 1 \in 1 .. Len(evs)
      BY <1>3
    <2> QED
      BY <1>3, <2>1, <2>2, <2>3 DEF Has
  <1> QED
    BY <1>1, <1>2, <1>3, <1>4

\* A queue that goes on with another.
LEMMA ConcatHas ==
    ASSUME NEW evs \in Seq(Ev), NEW more \in Seq(Ev)
    PROVE  \A what, id : Has(evs \o more, what, id) <=> Has(evs, what, id) \/ Has(more, what, id)
  <1>1. PICK t : t = evs \o more
    OBVIOUS
  <1>2. /\ Len(evs) \in Nat /\ Len(more) \in Nat /\ Len(t) = Len(evs) + Len(more)
        /\ \A i \in 1 .. Len(evs) : t[i] = evs[i] /\ i \in 1 .. Len(t)
        /\ \A i \in 1 .. Len(more) : t[i + Len(evs)] = more[i] /\ i + Len(evs) \in 1 .. Len(t)
    BY <1>1
  <1>3. \A i \in 1 .. Len(t) : \/ i \in 1 .. Len(evs)
                               \/ i - Len(evs) \in 1 .. Len(more) /\ t[i] = more[i - Len(evs)]
    BY <1>1, <1>2
  <1>4. ASSUME NEW what, NEW id
        PROVE  Has(t, what, id) <=> Has(evs, what, id) \/ Has(more, what, id)
    <2>1. ASSUME Has(t, what, id), ~Has(evs, what, id)
          PROVE  Has(more, what, id)
      <3>1. PICK i \in 1 .. Len(t) : t[i].what = what /\ t[i].id = id
        BY <2>1 DEF Has
      <3>2. i \notin 1 .. Len(evs)
        BY <1>2, <2>1, <3>1 DEF Has
      <3> QED
        BY <1>3, <3>1, <3>2 DEF Has
    <2>2. Has(evs, what, id) => Has(t, what, id)
      BY <1>2 DEF Has
    <2>3. Has(more, what, id) => Has(t, what, id)
      <3>1. ASSUME NEW i \in 1 .. Len(more), more[i].what = what, more[i].id = id
            PROVE  Has(t, what, id)
        <4>1. t[i + Len(evs)] = more[i] /\ i + Len(evs) \in 1 .. Len(t)
          BY <1>2
        <4> QED
          BY <3>1, <4>1 DEF Has
      <3> QED
        BY <3>1 DEF Has
    <2> QED
      BY <2>1, <2>2, <2>3
  <1> QED
    BY <1>1, <1>4

\* What is left when the surfaces ids are destroyed.
LEMMA DroppedHas ==
    ASSUME events \in Seq(Ev), NEW ids
    PROVE  /\ Dropped(ids) \in Seq(Ev)
           /\ \A i \in 1 .. Len(Dropped(ids)) : \E j \in 1 .. Len(events) : Dropped(ids)[i] = events[j]
           /\ \A what, id : Has(Dropped(ids), what, id) <=> id \notin ids /\ Has(events, what, id)
  <1>1. PICK kept : kept = {ev \in ToSet(events) : ev.id \notin ids}
    OBVIOUS
  <1>2. PICK t : t = Retain(events, kept)
    OBVIOUS
  <1>3. Dropped(ids) = t
    BY <1>1, <1>2 DEF Dropped
  <1>4. \A f : f \in kept <=> f.id \notin ids /\ \E i \in 1 .. Len(events) : events[i] = f
    BY <1>1 DEF ToSet
  <1>5. /\ t \in Seq(Ev)
        /\ \A f : (\E n \in 1 .. Len(t) : t[n] = f) <=> f \in kept /\ \E i \in 1 .. Len(events) : events[i] = f
    BY <1>2, RetainLemma
  <1>6. ASSUME NEW what, NEW id
        PROVE  Has(t, what, id) <=> id \notin ids /\ Has(events, what, id)
    <2>1. ASSUME NEW n \in 1 .. Len(t)
          PROVE  t[n].id \notin ids /\ \E i \in 1 .. Len(events) : events[i] = t[n]
      BY <1>4, <1>5
    <2>2. ASSUME NEW i \in 1 .. Len(events), events[i].id \notin ids
          PROVE  \E n \in 1 .. Len(t) : t[n] = events[i]
      BY <1>4, <1>5, <2>2
    <2> QED
      BY <2>1, <2>2 DEF Has
  <1>7. \A i \in 1 .. Len(t) : \E j \in 1 .. Len(events) : t[i] = events[j]
    BY <1>5
  <1> QED
    BY <1>3, <1>5, <1>6, <1>7

-----------------------------------------------------------------------------
(* How many outputs come and go in a queue.                                *)

LEMMA CountOne ==
    ASSUME NEW evs, NEW what, NEW n \in Nat
    PROVE  /\ Count(evs, what, n) \in Nat /\ Count(evs, what, 0) = 0
           /\ evs[n + 1].what = what => Count(evs, what, n + 1) = Count(evs, what, n) + 1
           /\ evs[n + 1].what # what => Count(evs, what, n + 1) = Count(evs, what, n)
  <1> DEFINE upto(m) == {i \in 1 .. m : evs[i].what = what}
  <1>1. PICK A : A = upto(n)
    OBVIOUS
  <1>2. IsFiniteSet(A) /\ Cardinality(A) \in Nat
    <2>1. IsFiniteSet(1 .. n)
      BY FS_Interval
    <2>2. A \subseteq 1 .. n
      BY <1>1
    <2>3. IsFiniteSet(A)
      BY <2>1, <2>2, FS_Subset
    <2> QED
      BY <2>3, FS_CardinalityType
  <1>3. Count(evs, what, n) = Cardinality(A)
    BY <1>1 DEF Count
  <1>4. Count(evs, what, 0) = 0
    <2>1. upto(0) = {}
      OBVIOUS
    <2> QED
      BY <2>1, FS_EmptySet DEF Count
  <1>5. n + 1 \notin A /\ \A i : i \in 1 .. n + 1 <=> i \in 1 .. n \/ i = n + 1
    BY <1>1
  <1>6. CASE evs[n + 1].what = what
    <2>1. upto(n + 1) = A \cup {n + 1}
      BY <1>1, <1>5, <1>6
    <2>2. Cardinality(A \cup {n + 1}) = Cardinality(A) + 1
      BY <1>2, <1>5, FS_AddElement
    <2>3. Count(evs, what, n + 1) = Cardinality(upto(n + 1))
      BY DEF Count
    <2> QED
      BY <1>2, <1>3, <1>4, <1>6, <2>1, <2>2, <2>3
  <1>7. CASE evs[n + 1].what # what
    <2>1. upto(n + 1) = A
      BY <1>1, <1>5, <1>7
    <2>2. Count(evs, what, n + 1) = Cardinality(upto(n + 1))
      BY DEF Count
    <2> QED
      BY <1>2, <1>3, <1>4, <1>7, <2>1, <2>2
  <1> QED
    BY <1>6, <1>7

LEMMA CountPrefix ==
    ASSUME NEW evs, NEW more, NEW n, \A i \in 1 .. n : evs[i] = more[i]
    PROVE  \A what : Count(evs, what, n) = Count(more, what, n)
  <1>1. ASSUME NEW what
        PROVE  Count(evs, what, n) = Count(more, what, n)
    <2>1. {i \in 1 .. n : evs[i].what = what} = {i \in 1 .. n : more[i].what = what}
      OBVIOUS
    <2> QED
      BY <2>1 DEF Count
  <1> QED
    BY <1>1

LEMMA BalancedAppend ==
    ASSUME NEW evs \in Seq(Ev), NEW e \in Ev, NEW outs, NEW plugs, Balanced(evs, outs, plugs)
    PROVE  /\ e.what = "output" => Balanced(Append(evs, e), outs, plugs + 1)
           /\ e.what = "gone" /\ plugs > 0 => Balanced(Append(evs, e), outs, plugs - 1)
           /\ e.what \notin {"output", "gone"} => Balanced(Append(evs, e), outs, plugs)
  <1>1. PICK t : t = Append(evs, e)
    OBVIOUS
  <1>2. PICK N : N = Len(evs)
    OBVIOUS
  <1>3. N \in Nat /\ Len(t) = N + 1 /\ t[N + 1] = e /\ \A i \in 1 .. N : t[i] = evs[i]
    BY <1>1, <1>2
  <1>4. /\ outs \in Nat /\ plugs \in Nat /\ Known(evs, outs, N) = plugs
        /\ \A n \in 0 .. N : Known(evs, outs, n) >= 0
    BY <1>2 DEF Balanced
  <1>5. ASSUME NEW n \in 0 .. N
        PROVE  Known(t, outs, n) = Known(evs, outs, n)
    <2>1. \A i \in 1 .. n : t[i] = evs[i]
      BY <1>3
    <2> QED
      BY <2>1, CountPrefix DEF Known
  <1>6. /\ Count(t, "output", N) \in Nat /\ Count(t, "gone", N) \in Nat
        /\ Known(t, outs, N) = plugs
    BY <1>3, <1>4, <1>5, CountOne
  <1>7. /\ e.what = "output" => Known(t, outs, N + 1) = plugs + 1
        /\ e.what = "gone" => Known(t, outs, N + 1) = plugs - 1
        /\ e.what \notin {"output", "gone"} => Known(t, outs, N + 1) = plugs
    <2>1. /\ e.what = "output" => Count(t, "output", N + 1) = Count(t, "output", N) + 1
          /\ e.what # "output" => Count(t, "output", N + 1) = Count(t, "output", N)
      BY <1>3, CountOne
    <2>2. /\ e.what = "gone" => Count(t, "gone", N + 1) = Count(t, "gone", N) + 1
          /\ e.what # "gone" => Count(t, "gone", N + 1) = Count(t, "gone", N)
      BY <1>3, CountOne
    <2> QED
      BY <1>4, <1>6, <2>1, <2>2 DEF Known
  <1>8. \A p \in Nat : Known(t, outs, N + 1) = p => Balanced(t, outs, p)
    <2>1. \A n \in 0 .. N + 1 : n \in 0 .. N \/ n = N + 1
      BY <1>3
    <2>2. \A n \in 0 .. N : Known(t, outs, n) >= 0
      BY <1>4, <1>5
    <2>3. \A p \in Nat : p >= 0
      OBVIOUS
    <2> QED
      BY <1>3, <1>4, <2>1, <2>2, <2>3 DEF Balanced
  <1> QED
    BY <1>1, <1>4, <1>7, <1>8

LEMMA CountTail ==
    ASSUME NEW evs, NEW more, NEW what, NEW n \in Nat, \A i \in 1 .. n : more[i] = evs[i + 1]
    PROVE  /\ Count(more, what, n) \in Nat
           /\ evs[1].what = what => Count(evs, what, n + 1) = Count(more, what, n) + 1
           /\ evs[1].what # what => Count(evs, what, n + 1) = Count(more, what, n)
  <1>1. PICK A : A = {i \in 1 .. n + 1 : evs[i].what = what}
    OBVIOUS
  <1>2. PICK B : B = {i \in 1 .. n : more[i].what = what}
    OBVIOUS
  <1>3. IsFiniteSet(A) /\ IsFiniteSet(B) /\ Cardinality(A) \in Nat /\ Cardinality(B) \in Nat
    <2>1. IsFiniteSet(1 .. n + 1) /\ IsFiniteSet(1 .. n)
      <3>1. n \in Int /\ n + 1 \in Int /\ 1 \in Int
        OBVIOUS
      <3> QED
        BY <3>1, FS_Interval
    <2>2. A \subseteq 1 .. n + 1 /\ B \subseteq 1 .. n
      BY <1>1, <1>2
    <2>3. IsFiniteSet(A) /\ IsFiniteSet(B)
      BY <2>1, <2>2, FS_Subset
    <2> QED
      BY <2>3, FS_CardinalityType
  <1>4. Count(evs, what, n + 1) = Cardinality(A) /\ Count(more, what, n) = Cardinality(B)
    BY <1>1, <1>2 DEF Count
  <1>5. Cardinality(A \ {1}) = Cardinality(B)
    <2>1. PICK shift : shift = [i \in B |-> i + 1]
      OBVIOUS
    <2>2. \A i \in B : i \in 1 .. n /\ i + 1 \in A \ {1} /\ shift[i] = i + 1
      BY <1>1, <1>2, <2>1
    <2>3. \A j \in A \ {1} : j - 1 \in B /\ j = (j - 1) + 1
      BY <1>1, <1>2
    <2>4. \A i, j \in B : shift[i] = shift[j] => i = j
      BY <2>2
    <2>5. \A j \in A \ {1} : \E i \in B : shift[i] = j
      BY <2>2, <2>3
    <2>6. shift \in [B -> A \ {1}] /\ DOMAIN shift = B
      BY <2>1, <2>2
    <2>7. shift \in Bijection(B, A \ {1})
      BY <2>4, <2>5, <2>6 DEF Bijection, Injection, Surjection, IsInjective
    <2>8. ExistsBijection(B, A \ {1})
      BY <2>7 DEF ExistsBijection
    <2> QED
      BY <1>3, <2>8, FS_Bijection
  <1>6. 1 \in A <=> evs[1].what = what
    BY <1>1
  <1>7. Cardinality(A \ {1}) = IF 1 \in A THEN Cardinality(A) - 1 ELSE Cardinality(A)
    BY <1>3, FS_RemoveElement
  <1> QED
    BY <1>3, <1>4, <1>5, <1>6, <1>7

LEMMA BalancedTail ==
    ASSUME NEW evs \in Seq(Ev), evs # <<>>, NEW outs, NEW plugs, Balanced(evs, outs, plugs)
    PROVE  /\ Head(evs).what = "output" => Balanced(Tail(evs), outs + 1, plugs)
           /\ Head(evs).what = "gone" => outs > 0 /\ Balanced(Tail(evs), outs - 1, plugs)
           /\ Head(evs).what \notin {"output", "gone"} => Balanced(Tail(evs), outs, plugs)
  <1>1. PICK t : t = Tail(evs)
    OBVIOUS
  <1>2. PICK h : h = Head(evs)
    OBVIOUS
  <1>3. PICK N : N = Len(t)
    OBVIOUS
  <1>4. N \in Nat /\ Len(evs) = N + 1 /\ h = evs[1] /\ \A i \in 1 .. N : t[i] = evs[i + 1]
    <2>1. /\ Len(t) = Len(evs) - 1 /\ Len(evs) \in Nat \ {0} /\ h = evs[1]
          /\ \A i \in 1 .. Len(t) : t[i] = evs[i + 1]
      BY <1>1, <1>2, TailHas
    <2> QED
      BY <1>3, <2>1
  <1>5. /\ outs \in Nat /\ plugs \in Nat /\ Known(evs, outs, N + 1) = plugs
        /\ \A n \in 0 .. N + 1 : Known(evs, outs, n) >= 0
    BY <1>4 DEF Balanced
  <1>6. ASSUME NEW n \in 0 .. N
        PROVE  /\ Known(t, outs, n) \in Int
               /\ h.what = "output" => Known(t, outs + 1, n) = Known(evs, outs, n + 1)
               /\ h.what = "gone" => Known(t, outs - 1, n) = Known(evs, outs, n + 1)
               /\ h.what \notin {"output", "gone"} => Known(t, outs, n) = Known(evs, outs, n + 1)
    <2>1. n \in Nat /\ \A i \in 1 .. n : t[i] = evs[i + 1]
      BY <1>4
    <2>2. /\ Count(t, "output", n) \in Nat
          /\ evs[1].what = "output" => Count(evs, "output", n + 1) = Count(t, "output", n) + 1
          /\ evs[1].what # "output" => Count(evs, "output", n + 1) = Count(t, "output", n)
      BY <2>1, CountTail
    <2>3. /\ Count(t, "gone", n) \in Nat
          /\ evs[1].what = "gone" => Count(evs, "gone", n + 1) = Count(t, "gone", n) + 1
          /\ evs[1].what # "gone" => Count(evs, "gone", n + 1) = Count(t, "gone", n)
      BY <2>1, CountTail
    <2>4. PICK comes : comes = Count(t, "output", n)
      OBVIOUS
    <2>5. PICK goes : goes = Count(t, "gone", n)
      OBVIOUS
    <2>6. PICK what : what = h.what
      OBVIOUS
    <2>7. outs \in Int /\ comes \in Int /\ goes \in Int
      BY <1>5, <2>2, <2>3, <2>4, <2>5
    <2>8. /\ what = "output" => Count(evs, "output", n + 1) = comes + 1
          /\ what # "output" => Count(evs, "output", n + 1) = comes
      BY <1>4, <2>2, <2>4, <2>6
    <2>9. /\ what = "gone" => Count(evs, "gone", n + 1) = goes + 1
          /\ what # "gone" => Count(evs, "gone", n + 1) = goes
      BY <1>4, <2>3, <2>5, <2>6
    <2>10. what = "output" => outs + 1 + comes - goes = outs + (comes + 1) - goes
      BY <2>7
    <2>11. what = "gone" => outs - 1 + comes - goes = outs + comes - (goes + 1)
      BY <2>7
    <2>12. Known(t, outs, n) \in Int
      BY <2>4, <2>5, <2>7 DEF Known
    <2>13. what = "output" => Known(t, outs + 1, n) = Known(evs, outs, n + 1)
      BY <2>4, <2>5, <2>7, <2>8, <2>9, <2>10 DEF Known
    <2>14. what = "gone" => Known(t, outs - 1, n) = Known(evs, outs, n + 1)
      BY <2>4, <2>5, <2>7, <2>8, <2>9, <2>11 DEF Known
    <2>15. what \notin {"output", "gone"} => Known(t, outs, n) = Known(evs, outs, n + 1)
      BY <2>4, <2>5, <2>8, <2>9 DEF Known
    <2> QED
      BY <2>6, <2>12, <2>13, <2>14, <2>15
  <1>7. h.what = "gone" => outs > 0
    <2>1. Count(evs, "output", 0) = 0 /\ Count(evs, "gone", 0) = 0
      BY CountOne
    <2>2. /\ h.what = "gone" => /\ Count(evs, "gone", 0 + 1) = Count(evs, "gone", 0) + 1
                                /\ Count(evs, "output", 0 + 1) = Count(evs, "output", 0)
      BY <1>4, CountOne
    <2>3. Known(evs, outs, 1) >= 0 /\ 0 + 1 = 1
      BY <1>4, <1>5
    <2> QED
      BY <1>5, <2>1, <2>2, <2>3 DEF Known
  <1>8. \A n \in 0 .. N : n + 1 \in 0 .. N + 1
    BY <1>4
  <1>9. CASE h.what = "output"
    <2>1. \A n \in 0 .. N : Known(t, outs + 1, n) >= 0
      BY <1>5, <1>6, <1>8, <1>9
    <2>2. Known(t, outs + 1, N) = plugs
      BY <1>4, <1>5, <1>6, <1>9
    <2>3. Balanced(t, outs + 1, plugs)
      BY <1>3, <1>5, <2>1, <2>2 DEF Balanced
    <2> QED
      BY <1>1, <1>2, <1>9, <2>3
  <1>10. CASE h.what = "gone"
    <2>1. \A n \in 0 .. N : Known(t, outs - 1, n) >= 0
      BY <1>5, <1>6, <1>8, <1>10
    <2>2. Known(t, outs - 1, N) = plugs
      BY <1>4, <1>5, <1>6, <1>10
    <2>3. Balanced(t, outs - 1, plugs)
      BY <1>3, <1>5, <1>7, <1>10, <2>1, <2>2 DEF Balanced
    <2> QED
      BY <1>1, <1>2, <1>7, <1>10, <2>3
  <1>11. CASE h.what \notin {"output", "gone"}
    <2>1. \A n \in 0 .. N : Known(t, outs, n) >= 0
      BY <1>5, <1>6, <1>8, <1>11
    <2>2. Known(t, outs, N) = plugs
      BY <1>4, <1>5, <1>6, <1>11
    <2>3. Balanced(t, outs, plugs)
      BY <1>3, <1>5, <2>1, <2>2 DEF Balanced
    <2> QED
      BY <1>1, <1>2, <1>11, <2>3
  <1> QED
    BY <1>9, <1>10, <1>11

\* Events about surfaces say nothing of the outputs.
LEMMA BalancedConcat ==
    ASSUME NEW evs \in Seq(Ev), NEW more \in Seq(Ev), NEW outs, NEW plugs, Balanced(evs, outs, plugs),
           \A i \in 1 .. Len(more) : more[i].what \notin {"output", "gone"}
    PROVE  Balanced(evs \o more, outs, plugs)
  <1>1. PICK t : t = evs \o more
    OBVIOUS
  <1>2. PICK N : N = Len(evs)
    OBVIOUS
  <1>3. PICK M : M = Len(t)
    OBVIOUS
  <1>4. /\ N \in Nat /\ M \in Nat /\ N <= M /\ \A i \in 1 .. N : t[i] = evs[i]
        /\ \A i \in 1 .. M : i \in 1 .. N \/ t[i].what \notin {"output", "gone"}
    <2>1. N \in Nat /\ Len(more) \in Nat /\ M = N + Len(more) /\ \A i \in 1 .. N : t[i] = evs[i]
      BY <1>1, <1>2, <1>3
    <2>2. ASSUME NEW i \in 1 .. M, i \notin 1 .. N
          PROVE  t[i].what \notin {"output", "gone"}
      <3>1. PICK j : j = i - N
        OBVIOUS
      <3>2. j \in 1 .. Len(more) /\ i = j + N
        BY <2>1, <2>2, <3>1
      <3>3. t[j + N] = more[j]
        BY <1>1, <1>2, <3>2
      <3> QED
        BY <3>2, <3>3
    <2> QED
      BY <2>1, <2>2
  <1>5. ASSUME NEW n \in 0 .. M
        PROVE  \E m \in 0 .. N : /\ Known(t, outs, n) = Known(evs, outs, m)
                                 /\ n = M => m = N
    <2>1. CASE n <= N
      <3>1. \A i \in 1 .. n : t[i] = evs[i]
        BY <1>4, <2>1
      <3>2. Known(t, outs, n) = Known(evs, outs, n)
        BY <3>1, CountPrefix DEF Known
      <3> QED
        BY <1>4, <2>1, <3>2
    <2>2. CASE ~(n <= N)
      <3>1. ASSUME NEW what \in {"output", "gone"}
            PROVE  Count(t, what, n) = Count(evs, what, N)
        <4>1. \A i : i \in 1 .. n /\ t[i].what = what <=> i \in 1 .. N /\ evs[i].what = what
          BY <1>4, <2>2
        <4>2. {i \in 1 .. n : t[i].what = what} = {i \in 1 .. N : evs[i].what = what}
          BY <4>1
        <4> QED
          BY <4>2 DEF Count
      <3>2. Known(t, outs, n) = Known(evs, outs, N)
        BY <3>1 DEF Known
      <3> QED
        BY <1>4, <3>2
    <2> QED
      BY <2>1, <2>2
  <1>6. /\ outs \in Nat /\ plugs \in Nat /\ Known(evs, outs, N) = plugs
        /\ \A n \in 0 .. N : Known(evs, outs, n) >= 0
    BY <1>2 DEF Balanced
  <1>7. \A n \in 0 .. M : Known(t, outs, n) >= 0
    BY <1>5, <1>6
  <1>8. Known(t, outs, M) = plugs
    BY <1>4, <1>5, <1>6
  <1> QED
    BY <1>1, <1>3, <1>6, <1>7, <1>8 DEF Balanced

\* To destroy surfaces drops no event about an output.
LEMMA BalancedDropped ==
    ASSUME events \in Seq(Ev), NEW ids, 0 \notin ids, NEW outs, NEW plugs, Balanced(events, outs, plugs)
    PROVE  Balanced(Dropped(ids), outs, plugs)
  <1>1. PICK kept : kept = {ev \in ToSet(events) : ev.id \notin ids}
    OBVIOUS
  <1>2. PICK t : t = Retain(events, kept)
    OBVIOUS
  <1>3. Dropped(ids) = t
    BY <1>1, <1>2 DEF Dropped
  <1>4. PICK N : N = Len(events)
    OBVIOUS
  <1>5. PICK M : M = Len(t)
    OBVIOUS
  <1>6. t \in Seq(Ev) /\ M \in Nat /\ N \in Nat
    BY <1>2, <1>4, <1>5, RetainOrder
  <1>7. PICK pos : Places(pos, events, kept, t)
    BY <1>2, RetainOrder
  <1>8. /\ \A n \in 1 .. M : pos[n] \in 1 .. N /\ t[n] = events[pos[n]] /\ events[pos[n]] \in kept
        /\ \A m, n \in 1 .. M : m < n => pos[m] < pos[n]
        /\ \A i \in 1 .. N : events[i] \in kept => \E n \in 1 .. M : pos[n] = i
    BY <1>4, <1>5, <1>7 DEF Places
  <1>9. \A i \in 1 .. N : events[i].what \in {"output", "gone"} => events[i] \in kept
    <2>1. \A i \in 1 .. N : events[i] \in Ev /\ events[i] \in ToSet(events)
      BY <1>4 DEF ToSet
    <2>2. \A i \in 1 .. N : events[i].what \in {"output", "gone"} => events[i].id = 0
      BY <2>1, EvLemma
    <2> QED
      BY <1>1, <2>1, <2>2
  <1>10. ASSUME NEW what \in {"output", "gone"}, NEW n \in 0 .. M, NEW m \in 0 .. N,
               \A k \in 1 .. M : k <= n <=> pos[k] <= m
        PROVE  Count(t, what, n) = Count(events, what, m)
    <2>1. PICK A : A = {k \in 1 .. n : t[k].what = what}
      OBVIOUS
    <2>2. PICK B : B = {i \in 1 .. m : events[i].what = what}
      OBVIOUS
    <2>3. PICK f : f = [k \in A |-> pos[k]]
      OBVIOUS
    <2>4. \A k \in A : k \in 1 .. M /\ k \in Nat /\ pos[k] \in Nat /\ pos[k] \in B /\ f[k] = pos[k]
      <3>1. ASSUME NEW k \in A
            PROVE  k \in 1 .. M /\ pos[k] \in 1 .. N /\ pos[k] \in B /\ f[k] = pos[k]
        <4>1. k \in 1 .. M /\ k <= n /\ t[k].what = what
          BY <1>6, <2>1
        <4>2. pos[k] \in 1 .. N /\ pos[k] <= m /\ events[pos[k]].what = what
          BY <1>8, <1>10, <4>1
        <4>3. pos[k] \in 1 .. m
          BY <1>6, <4>2
        <4> QED
          BY <2>2, <2>3, <4>1, <4>2, <4>3
      <3> QED
        BY <1>6, <3>1
    <2>5. \A i \in B : \E k \in A : f[k] = i
      <3>1. ASSUME NEW i \in B
            PROVE  \E k \in A : f[k] = i
        <4>1. i \in 1 .. N /\ i <= m /\ events[i].what = what
          BY <1>6, <2>2
        <4>2. PICK k \in 1 .. M : pos[k] = i
          BY <1>8, <1>9, <4>1
        <4>3. k <= n /\ t[k].what = what
          BY <1>8, <1>10, <4>1, <4>2
        <4>4. k \in A
          BY <1>6, <2>1, <4>3
        <4> QED
          BY <2>4, <4>2, <4>4
      <3> QED
        BY <3>1
    <2>6. \A k, l \in A : f[k] = f[l] => k = l
      <3>1. \A k, l \in A : k < l \/ l < k \/ k = l
        BY <2>4
      <3>2. \A k, l \in A : k < l => f[k] < f[l]
        BY <1>8, <2>4
      <3>3. \A k \in A : f[k] \in Nat
        BY <2>4
      <3> QED
        BY <3>1, <3>2, <3>3
    <2>7. f \in Bijection(A, B)
      <3>1. f \in [A -> B] /\ DOMAIN f = A
        BY <2>3, <2>4
      <3> QED
        BY <2>5, <2>6, <3>1 DEF Bijection, Injection, Surjection, IsInjective
    <2>8. IsFiniteSet(A)
      <3>1. n \in Int /\ 1 \in Int
        BY <1>6
      <3>2. IsFiniteSet(1 .. n)
        BY <3>1, FS_Interval
      <3>3. A \subseteq 1 .. n
        BY <2>1
      <3> QED
        BY <3>2, <3>3, FS_Subset
    <2>9. ExistsBijection(A, B)
      BY <2>7 DEF ExistsBijection
    <2>10. Cardinality(A) = Cardinality(B)
      BY <2>8, <2>9, FS_Bijection
    <2> QED
      BY <2>1, <2>2, <2>10 DEF Count
  <1>11. /\ outs \in Nat /\ plugs \in Nat /\ Known(events, outs, N) = plugs
         /\ \A n \in 0 .. N : Known(events, outs, n) >= 0
    BY <1>4 DEF Balanced
  <1>12. ASSUME NEW n \in 0 .. M
         PROVE  Known(t, outs, n) >= 0
    <2>1. PICK m : m = IF n = 0 THEN 0 ELSE pos[n]
      OBVIOUS
    <2>2. m \in 0 .. N
      BY <1>6, <1>8, <2>1
    <2>3. \A k \in 1 .. M : k <= n <=> pos[k] <= m
      <3>1. CASE n = 0
        BY <1>6, <1>8, <2>1, <3>1
      <3>2. CASE n # 0
        <4>1. n \in 1 .. M /\ m = pos[n]
          BY <1>6, <2>1, <3>2
        <4>2. \A k \in 1 .. M : k \in Nat /\ n \in Nat /\ pos[k] \in Nat /\ m \in Nat
          BY <1>6, <1>8, <4>1
        <4>3. \A k \in 1 .. M : k < n => pos[k] < m
          BY <1>8, <4>1
        <4>4. \A k \in 1 .. M : n < k => m < pos[k]
          BY <1>8, <4>1
        <4> QED
          BY <4>1, <4>2, <4>3, <4>4
      <3> QED
        BY <3>1, <3>2
    <2>4. Known(t, outs, n) = Known(events, outs, m)
      BY <1>10, <2>2, <2>3 DEF Known
    <2> QED
      BY <1>11, <2>2, <2>4
  <1>13. Known(t, outs, M) = plugs
    <2>1. M \in 0 .. M /\ N \in 0 .. N
      BY <1>6
    <2>2. \A k \in 1 .. M : k <= M <=> pos[k] <= N
      BY <1>6, <1>8
    <2>3. Known(t, outs, M) = Known(events, outs, N)
      BY <1>10, <2>1, <2>2 DEF Known
    <2> QED
      BY <1>11, <2>3
  <1> QED
    BY <1>3, <1>5, <1>11, <1>12, <1>13 DEF Balanced

-----------------------------------------------------------------------------
(* Surfaces and the compositor.                                            *)

\* What a window owes depends on the events about it only.
LEMMA SameEvents ==
    ASSUME NEW id, NEW w, NEW s, NEW evs, NEW more, NEW repaint,
           WinSound(id, w, s, evs, repaint),
           \A what \in Whats : Has(more, what, id) <=> Has(evs, what, id)
    PROVE  WinSound(id, w, s, more, repaint)
  BY DEF WinSound, Whats

\* An event about a surface.
LEMMA Sends ==
    ASSUME SurfacesTyped, SurfacesSound, NEW e \in Ev, e.what \in Whats, e.id \in DOMAIN windows,
           events' = Append(events, e)
    PROVE  /\ events' \in Seq(Ev)
           /\ \A what, id : Has(events', what, id)
                               <=> Has(events, what, id) \/ (e.what = what /\ e.id = id)
           /\ \A what \in Whats : \A id : Has(events', what, id) => id \in DOMAIN windows
           /\ Balanced(events', outputs, plugged)
  <1>1. events \in Seq(Ev) /\ \A what \in Whats : \A id : Has(events, what, id) => id \in DOMAIN windows
    BY PlacedLemma DEF SurfacesTyped
  <1>2. events' \in Seq(Ev)
    BY <1>1
  <1>3. \A what, id : Has(events', what, id)
                         <=> Has(events, what, id) \/ (e.what = what /\ e.id = id)
    BY <1>1, AppendHas
  <1>4. \A what \in Whats : \A id : Has(events', what, id) => id \in DOMAIN windows
    BY <1>1, <1>3
  <1>5. Balanced(events, outputs, plugged) /\ e.what \notin {"output", "gone"}
    BY DEF SurfacesSound, Whats
  <1>6. Balanced(events', outputs, plugged)
    BY <1>1, <1>5, BalancedAppend
  <1> QED
    BY <1>2, <1>3, <1>4, <1>6

LEMMA ServerFacts ==
    ASSUME SurfacesTyped, NEW id \in DOMAIN windows
    PROVE  /\ id \in Nat \ {0} /\ id < nextId /\ windows[id] \in Win /\ server[id] \in Server
           /\ DOMAIN server = DOMAIN windows /\ id \in DOMAIN server
           /\ server[id] = [state |-> server[id].state, frame |-> server[id].frame]
           /\ server[id].frame \in BOOLEAN
  <1>1. id \in 1 .. nextId - 1 /\ nextId \in Nat /\ server \in [DOMAIN windows -> Server]
        /\ windows \in [DOMAIN windows -> Win]
    BY DEF SurfacesTyped
  <1>2. id \in Nat \ {0} /\ id < nextId /\ windows[id] \in Win /\ server[id] \in Server
        /\ DOMAIN server = DOMAIN windows /\ id \in DOMAIN server
    BY <1>1
  <1> QED
    BY <1>2 DEF Server

\* The compositor does something to one surface, and may say so.
LEMMA ServerStep ==
    ASSUME Typed, SurfacesSound, UNCHANGED <<windows, nextId, plugged, outputs, stage, ctx>>,
           NEW id \in DOMAIN windows, NEW s \in Server, server' = [server EXCEPT ![id] = s],
           NEW e \in Ev, e.what \in Whats, e.id = id, events' = Append(events, e),
           (\A what \in Whats : Has(events', what, id) <=> Has(events, what, id) \/ e.what = what)
               => WinSound(id, windows[id], s, events', ctx.dirty)
    PROVE  SurfacesTyped' /\ SurfacesSound'
  <1>0. SurfacesTyped
    BY DEF Typed
  <1>1. id \in Nat \ {0} /\ id < nextId /\ DOMAIN server = DOMAIN windows
    BY <1>0, ServerFacts
  <1>2. /\ events' \in Seq(Ev)
        /\ \A what, k : Has(events', what, k) <=> Has(events, what, k) \/ (e.what = what /\ id = k)
        /\ \A what \in Whats : \A k : Has(events', what, k) => k \in DOMAIN windows
        /\ Balanced(events', outputs, plugged)
    BY <1>0, <1>1, Sends
  <1>3. SurfacesTyped'
    <2>1. server' \in [DOMAIN windows -> Server]
      BY <1>0 DEF SurfacesTyped
    <2> QED
      BY <1>0, <1>2, <2>1, PlacedLemma DEF SurfacesTyped
  <1>4. ASSUME NEW k \in DOMAIN windows
        PROVE  WinSound(k, windows[k], server'[k], events', ctx.dirty)
    <2>1. CASE k = id
      BY <1>1, <1>2, <2>1
    <2>2. CASE k # id
      <3>1. server'[k] = server[k]
        BY <1>1, <2>2
      <3>2. WinSound(k, windows[k], server[k], events, ctx.dirty)
        BY DEF SurfacesSound, WindowsSound
      <3>3. \A what \in Whats : Has(events', what, k) <=> Has(events, what, k)
        BY <1>2, <2>2
      <3> QED
        BY <3>1, <3>2, <3>3, SameEvents
    <2> QED
      BY <2>1, <2>2
  <1>5. SurfacesSound'
    BY <1>2, <1>4 DEF SurfacesSound, WindowsSound
  <1> QED
    BY <1>3, <1>5

LEMMA ConfiguresStep ==
    ASSUME Typed, SurfacesSound, Configures, UNCHANGED ctx
    PROVE  SurfacesTyped' /\ SurfacesSound'
  <1>0. SurfacesTyped /\ UNCHANGED <<windows, nextId, plugged, outputs, stage>>
    BY DEF Typed, Configures
  <1>1. PICK id \in Live, resized \in BOOLEAN :
           /\ server' = [server EXCEPT ![id].state = "up"]
           /\ events' = Append(events, [what |-> "configure", id |-> id, resized |-> resized])
    BY DEF Configures
  <1>2. id \in DOMAIN windows /\ server[id].state \in {"new", "up"}
    BY <1>0 DEF SurfacesTyped, Live
  <1>3. PICK e : e = [what |-> "configure", id |-> id, resized |-> resized]
    OBVIOUS
  <1>4. PICK s : s = [server[id] EXCEPT !.state = "up"]
    OBVIOUS
  <1>5. e \in Ev /\ e.what = "configure" /\ e.id = id /\ e.what \in Whats
    BY <1>0, <1>2, <1>3, <1>4, ServerFacts DEF Ev, Whats, Server
  <1>6. s \in Server /\ s.state = "up" /\ s.frame = server[id].frame
    BY <1>0, <1>2, <1>4, ServerFacts DEF Server
  <1>7. server' = [server EXCEPT ![id] = s]
    BY <1>1, <1>4
  <1>8. ASSUME \A what \in Whats : Has(events', what, id) <=> Has(events, what, id) \/ e.what = what
        PROVE  WinSound(id, windows[id], s, events', ctx.dirty)
    <2>1. WinSound(id, windows[id], server[id], events, ctx.dirty)
      BY <1>2 DEF SurfacesSound, WindowsSound
    <2> QED
      BY <1>1, <1>2, <1>5, <1>6, <1>8, <2>1 DEF WinSound, Whats
  <1> QED
    BY <1>0, <1>1, <1>2, <1>3, <1>5, <1>6, <1>7, <1>8, ServerStep

LEMMA PresentsStep ==
    ASSUME Typed, SurfacesSound, Presents, UNCHANGED ctx
    PROVE  SurfacesTyped' /\ SurfacesSound'
  <1>0. SurfacesTyped /\ UNCHANGED <<windows, nextId, plugged, outputs, stage>>
    BY DEF Typed, Presents
  <1>1. PICK id \in Live : /\ server[id].frame
                           /\ server' = [server EXCEPT ![id].frame = FALSE]
                           /\ events' = Append(events, Event("frame", id))
    BY DEF Presents
  <1>2. id \in DOMAIN windows /\ server[id].state \in {"new", "up"}
    BY <1>0 DEF SurfacesTyped, Live
  <1>3. PICK e : e = Event("frame", id)
    OBVIOUS
  <1>4. PICK s : s = [server[id] EXCEPT !.frame = FALSE]
    OBVIOUS
  <1>5. e \in Ev /\ e.what = "frame" /\ e.id = id /\ e.what \in Whats
    BY <1>0, <1>2, <1>3, <1>4, ServerFacts DEF Ev, Whats, Server, Event
  <1>6. s \in Server /\ s.state = server[id].state /\ s.frame = FALSE
    BY <1>0, <1>2, <1>4, ServerFacts DEF Server
  <1>7. server' = [server EXCEPT ![id] = s]
    BY <1>1, <1>4
  <1>8. ASSUME \A what \in Whats : Has(events', what, id) <=> Has(events, what, id) \/ e.what = what
        PROVE  WinSound(id, windows[id], s, events', ctx.dirty)
    <2>1. WinSound(id, windows[id], server[id], events, ctx.dirty)
      BY <1>2 DEF SurfacesSound, WindowsSound
    <2> QED
      BY <1>1, <1>2, <1>5, <1>6, <1>8, <2>1 DEF WinSound, Whats
  <1> QED
    BY <1>0, <1>1, <1>2, <1>3, <1>5, <1>6, <1>7, <1>8, ServerStep

LEMMA RescalesStep ==
    ASSUME Typed, SurfacesSound, Rescales, UNCHANGED ctx
    PROVE  SurfacesTyped' /\ SurfacesSound'
  <1>0. SurfacesTyped /\ UNCHANGED <<windows, nextId, plugged, outputs, stage>> /\ UNCHANGED server
    BY DEF Typed, Rescales
  <1>1. PICK id \in Live : server[id].state = "up" /\ events' = Append(events, Event("scale", id))
    BY DEF Rescales
  <1>2. id \in DOMAIN windows
    BY <1>0 DEF SurfacesTyped, Live
  <1>3. PICK e : e = Event("scale", id)
    OBVIOUS
  <1>4. PICK s : s = server[id]
    OBVIOUS
  <1>5. e \in Ev /\ e.what = "scale" /\ e.id = id /\ e.what \in Whats /\ s \in Server
    BY <1>0, <1>2, <1>3, <1>4, ServerFacts DEF Ev, Whats, Event
  <1>6. server' = [server EXCEPT ![id] = s]
    BY <1>0, <1>2, <1>4 DEF SurfacesTyped
  <1>7. ASSUME \A what \in Whats : Has(events', what, id) <=> Has(events, what, id) \/ e.what = what
        PROVE  WinSound(id, windows[id], s, events', ctx.dirty)
    <2>1. WinSound(id, windows[id], server[id], events, ctx.dirty)
      BY <1>2 DEF SurfacesSound, WindowsSound
    <2> QED
      BY <1>1, <1>4, <1>5, <1>7, <2>1 DEF WinSound, Whats
  <1> QED
    BY <1>0, <1>1, <1>2, <1>3, <1>5, <1>6, <1>7, ServerStep

LEMMA ClosesStep ==
    ASSUME Typed, SurfacesSound, Closes, UNCHANGED ctx
    PROVE  SurfacesTyped' /\ SurfacesSound'
  <1>0. SurfacesTyped /\ UNCHANGED <<windows, nextId, plugged, outputs, stage>>
    BY DEF Typed, Closes
  <1>1. PICK id \in Live : server' = ClosedBy({id}) /\ events' = Append(events, Event("closed", id))
    BY DEF Closes
  <1>2. id \in DOMAIN windows /\ server[id].state \in {"new", "up"}
    BY <1>0 DEF SurfacesTyped, Live
  <1>3. PICK e : e = Event("closed", id)
    OBVIOUS
  <1>4. PICK s : s = [state |-> "closed", frame |-> FALSE]
    OBVIOUS
  <1>5. e \in Ev /\ e.what = "closed" /\ e.id = id /\ e.what \in Whats /\ s \in Server
    BY <1>0, <1>2, <1>3, <1>4, ServerFacts DEF Ev, Whats, Server, Event
  <1>6. server' = [server EXCEPT ![id] = s]
    BY <1>0, <1>1, <1>2, <1>4 DEF SurfacesTyped, ClosedBy
  <1>7. ASSUME \A what \in Whats : Has(events', what, id) <=> Has(events, what, id) \/ e.what = what
        PROVE  WinSound(id, windows[id], s, events', ctx.dirty)
    <2>1. WinSound(id, windows[id], server[id], events, ctx.dirty)
      BY <1>2 DEF SurfacesSound, WindowsSound
    <2> QED
      BY <1>2, <1>4, <1>5, <1>7, <2>1 DEF WinSound, Whats
  <1> QED
    BY <1>0, <1>1, <1>2, <1>3, <1>5, <1>6, <1>7, ServerStep

LEMMA PlugsStep ==
    ASSUME Typed, SurfacesSound, Plugs, UNCHANGED ctx
    PROVE  SurfacesTyped' /\ SurfacesSound'
  <1>0. /\ SurfacesTyped /\ UNCHANGED <<windows, nextId, server, outputs, stage>>
        /\ plugged' = plugged + 1 /\ events' = Append(events, Event("output", 0))
    BY DEF Typed, Plugs
  <1>1. PICK e : e = Event("output", 0)
    OBVIOUS
  <1>2. e \in Ev /\ e.what = "output" /\ e.what \notin Whats
    BY <1>1 DEF Ev, Event, Whats
  <1>3. events \in Seq(Ev) /\ Balanced(events, outputs, plugged)
    BY <1>0 DEF SurfacesTyped, SurfacesSound
  <1>4. events' \in Seq(Ev) /\ Balanced(events', outputs, plugged + 1)
    BY <1>0, <1>1, <1>2, <1>3, BalancedAppend
  <1>5. \A what \in Whats : \A id : Has(events', what, id) <=> Has(events, what, id)
    BY <1>0, <1>1, <1>2, <1>3, AppendHas
  <1>6. SurfacesTyped'
    BY <1>0, <1>4, <1>5, PlacedLemma DEF SurfacesTyped
  <1>7. ASSUME NEW k \in DOMAIN windows
        PROVE  WinSound(k, windows[k], server[k], events', ctx.dirty)
    <2>1. WinSound(k, windows[k], server[k], events, ctx.dirty)
      BY DEF SurfacesSound, WindowsSound
    <2> QED
      BY <1>5, <2>1, SameEvents
  <1>8. SurfacesSound'
    BY <1>0, <1>4, <1>7 DEF SurfacesSound, WindowsSound
  <1> QED
    BY <1>6, <1>8

\* A finite set in some order.
LEMMA SetToSeqLemma ==
    ASSUME NEW S, IsFiniteSet(S)
    PROVE  LET s == SetToSeq(S)
           IN  /\ Cardinality(S) \in Nat /\ s \in [1 .. Cardinality(S) -> S]
               /\ \A x \in S : \E i \in 1 .. Cardinality(S) : s[i] = x
  <1>1. PICK n : n = Cardinality(S)
    OBVIOUS
  <1>2. n \in Nat /\ ExistsBijection(1 .. n, S)
    BY <1>1, FS_CardinalityType
  <1>3. \E f \in [1 .. n -> S] : IsInjective(f)
    BY <1>2 DEF ExistsBijection, Bijection, Injection
  <1>4. PICK s : s = SetToSeq(S)
    OBVIOUS
  <1>5. s \in [1 .. n -> S] /\ IsInjective(s)
    BY <1>1, <1>3, <1>4 DEF SetToSeq
  <1>6. s \in Injection(1 .. n, S)
    BY <1>5 DEF Injection
  <1>7. Cardinality(1 .. n) = n
    BY <1>2, FS_Interval
  <1>8. s \in Surjection(1 .. n, S)
    BY <1>1, <1>6, <1>7, FS_Injection
  <1>9. \A x \in S : \E i \in 1 .. n : s[i] = x
    BY <1>8 DEF Surjection
  <1> QED
    BY <1>1, <1>2, <1>4, <1>5, <1>9

LEMMA UnplugsStep ==
    ASSUME Typed, SurfacesSound, Unplugs, UNCHANGED ctx
    PROVE  SurfacesTyped' /\ SurfacesSound'
  <1>0. SurfacesTyped /\ UNCHANGED <<windows, nextId, outputs, stage>> /\ plugged > 0 /\ plugged' = plugged - 1
    BY DEF Typed, Unplugs
  <1>1. PICK ids \in SUBSET Live, last \in BOOLEAN :
           LET closings == [i \in 1..Cardinality(ids) |-> Event("closed", SetToSeq(ids)[i])]
               gone     == <<Event("gone", 0)>>
           IN  /\ server' = ClosedBy(ids)
               /\ events' = events \o IF last THEN closings \o gone ELSE gone \o closings
    BY DEF Unplugs
  <1>2. PICK order : order = SetToSeq(ids)
    OBVIOUS
  <1>3. PICK n : n = Cardinality(ids)
    OBVIOUS
  <1>4. PICK g : g = Event("gone", 0)
    OBVIOUS
  <1>5. PICK closings : closings = [i \in 1 .. n |-> Event("closed", order[i])]
    OBVIOUS
  <1>6. server' = ClosedBy(ids) /\ events' = events \o IF last THEN closings \o <<g>> ELSE <<g>> \o closings
    BY <1>1, <1>2, <1>3, <1>4, <1>5
  <1>7. /\ events \in Seq(Ev) /\ nextId \in Nat /\ Balanced(events, outputs, plugged)
        /\ server \in [DOMAIN windows -> Server] /\ plugged \in Nat
        /\ \A what \in Whats : \A id : Has(events, what, id) => id \in DOMAIN windows
    BY <1>0, PlacedLemma DEF SurfacesTyped, SurfacesSound, Balanced
  <1>8. /\ ids \subseteq DOMAIN windows /\ \A id \in ids : server[id].state \in {"new", "up"}
        /\ \A id \in ids : id \in Nat \ {0} /\ id < nextId
    <2>1. ids \subseteq DOMAIN windows /\ \A id \in ids : server[id].state \in {"new", "up"}
      BY <1>7 DEF Live
    <2> QED
      BY <1>0, <2>1, ServerFacts
  <1>9. IsFiniteSet(ids)
    <2>1. nextId - 1 \in Int /\ 1 \in Int
      BY <1>7
    <2>2. IsFiniteSet(1 .. nextId - 1)
      BY <2>1, FS_Interval
    <2>3. ids \subseteq 1 .. nextId - 1
      BY <1>0, <1>8 DEF SurfacesTyped
    <2> QED
      BY <2>2, <2>3, FS_Subset
  <1>10. /\ n \in Nat /\ order \in [1 .. n -> ids]
         /\ \A id \in ids : \E i \in 1 .. n : order[i] = id
    BY <1>2, <1>3, <1>9, SetToSeqLemma
  <1>11. /\ closings \in Seq(Ev) /\ Len(closings) = n
         /\ \A i \in 1 .. n : closings[i].what = "closed" /\ closings[i].id = order[i]
    <2>1. \A i \in 1 .. n : order[i] \in Nat \ {0}
      BY <1>8, <1>10
    <2>2. \A i \in 1 .. n : /\ closings[i] = [what |-> "closed", id |-> order[i]]
                            /\ closings[i] \in Ev
      BY <1>5, <2>1 DEF Event, Ev
    <2>3. closings \in [1 .. n -> Ev]
      BY <1>5, <2>2
    <2> QED
      BY <1>10, <2>2, <2>3
  <1>12. \A what, id : Has(closings, what, id) <=> what = "closed" /\ id \in ids
    BY <1>10, <1>11 DEF Has
  <1>13. g \in Ev /\ g.what = "gone" /\ g.what \notin Whats
    BY <1>4 DEF Event, Ev, Whats
  <1>14. /\ events' \in Seq(Ev) /\ Balanced(events', outputs, plugged - 1)
         /\ \A what \in Whats : \A id : Has(events', what, id)
                                           <=> Has(events, what, id) \/ (what = "closed" /\ id \in ids)
    <2>0. \A i \in 1 .. Len(closings) : closings[i].what \notin {"output", "gone"}
      BY <1>11
    <2>1. CASE last
      <3>1. PICK evs : evs = events \o closings
        OBVIOUS
      <3>2. evs \in Seq(Ev) /\ Balanced(evs, outputs, plugged)
        <4>1. evs \in Seq(Ev)
          BY <1>7, <1>11, <3>1
        <4>2. Balanced(evs, outputs, plugged)
          BY <1>7, <1>11, <2>0, <3>1, BalancedConcat
        <4> QED
          BY <4>1, <4>2
      <3>3. events' = Append(evs, g)
        <4>1. <<g>> \in Seq(Ev)
          BY <1>13
        <4>2. events \o (closings \o <<g>>) = (events \o closings) \o <<g>>
          BY <1>7, <1>11, <4>1, ConcatAssociative
        <4>3. Append(evs, g) = evs \o <<g>>
          BY <1>13, <3>2, AppendIsConcat
        <4> QED
          BY <1>6, <2>1, <3>1, <4>2, <4>3
      <3>4. events' \in Seq(Ev) /\ Balanced(events', outputs, plugged - 1)
        BY <1>0, <1>13, <3>2, <3>3, BalancedAppend
      <3>5. \A what, id : Has(evs, what, id) <=> Has(events, what, id) \/ Has(closings, what, id)
        BY <1>7, <1>11, <3>1, ConcatHas
      <3>6. \A what, id : Has(events', what, id) <=> Has(evs, what, id) \/ (g.what = what /\ g.id = id)
        BY <1>13, <3>2, <3>3, AppendHas
      <3> QED
        BY <1>12, <1>13, <3>4, <3>5, <3>6
    <2>2. CASE ~last
      <3>1. PICK evs : evs = Append(events, g)
        OBVIOUS
      <3>2. evs \in Seq(Ev) /\ Balanced(evs, outputs, plugged - 1)
        BY <1>0, <1>7, <1>13, <3>1, BalancedAppend
      <3>3. events' = evs \o closings
        <4>1. <<g>> \in Seq(Ev)
          BY <1>13
        <4>2. events \o (<<g>> \o closings) = (events \o <<g>>) \o closings
          BY <1>7, <1>11, <4>1, ConcatAssociative
        <4>3. evs = events \o <<g>>
          BY <1>7, <1>13, <3>1, AppendIsConcat
        <4> QED
          BY <1>6, <2>2, <4>2, <4>3
      <3>4. events' \in Seq(Ev) /\ Balanced(events', outputs, plugged - 1)
        BY <1>11, <2>0, <3>2, <3>3, BalancedConcat
      <3>5. \A what, id : Has(events', what, id) <=> Has(evs, what, id) \/ Has(closings, what, id)
        BY <1>11, <3>2, <3>3, ConcatHas
      <3>6. \A what, id : Has(evs, what, id) <=> Has(events, what, id) \/ (g.what = what /\ g.id = id)
        BY <1>7, <1>13, <3>1, AppendHas
      <3> QED
        BY <1>12, <1>13, <3>4, <3>5, <3>6
    <2> QED
      BY <2>1, <2>2
  <1>15. /\ DOMAIN server' = DOMAIN windows /\ server' \in [DOMAIN windows -> Server]
         /\ \A k \in DOMAIN windows : /\ k \in ids => server'[k].state = "closed"
                                      /\ k \notin ids => server'[k] = server[k]
    BY <1>6, <1>7 DEF ClosedBy, Server
  <1>16. SurfacesTyped'
    <2>1. \A what \in Whats : \A id : Has(events', what, id) => id \in DOMAIN windows
      BY <1>7, <1>8, <1>14
    <2> QED
      BY <1>0, <1>14, <1>15, <2>1, PlacedLemma DEF SurfacesTyped
  <1>17. ASSUME NEW k \in DOMAIN windows
         PROVE  WinSound(k, windows[k], server'[k], events', ctx.dirty)
    <2>1. WinSound(k, windows[k], server[k], events, ctx.dirty)
      BY DEF SurfacesSound, WindowsSound
    <2>2. CASE k \in ids
      BY <1>8, <1>14, <1>15, <2>1, <2>2 DEF WinSound, Whats
    <2>3. CASE k \notin ids
      BY <1>14, <1>15, <2>1, <2>3, SameEvents
    <2> QED
      BY <2>2, <2>3
  <1>18. SurfacesSound'
    BY <1>0, <1>14, <1>17 DEF SurfacesSound, WindowsSound
  <1> QED
    BY <1>16, <1>18

LEMMA CompositorStep ==
    ASSUME Typed, SurfacesSound, CompositorNext, UNCHANGED ctx
    PROVE  SurfacesTyped' /\ SurfacesSound' /\ UNCHANGED <<windows, stage>>
  <1>1. SurfacesTyped' /\ SurfacesSound'
    BY ConfiguresStep, PresentsStep, RescalesStep, ClosesStep, PlugsStep, UnplugsStep DEF CompositorNext
  <1>2. UNCHANGED <<windows, stage>>
    BY DEF CompositorNext, Configures, Presents, Rescales, Closes, Plugs, Unplugs
  <1> QED
    BY <1>1, <1>2

-----------------------------------------------------------------------------
(* What the handlers of Wayland events do.                                 *)

\* The handler of an event reads it first.
LEMMA Reads ==
    ASSUME SurfacesTyped, SurfacesSound, NEW what, Takes(what), events' = Tail(events)
    PROVE  /\ events' \in Seq(Ev) /\ Placed(events', DOMAIN windows)
           /\ Head(events) \in Ev /\ Head(events).what = what
           /\ what \in Whats => Head(events).id \in DOMAIN windows
           /\ \A also, id : Has(events, also, id) <=> \/ Has(events', also, id)
                                                      \/ what = also /\ Head(events).id = id
           /\ what = "output" => Balanced(events', outputs + 1, plugged)
           /\ what = "gone" => outputs > 0 /\ Balanced(events', outputs - 1, plugged)
           /\ what \in Whats => Balanced(events', outputs, plugged)
           /\ stage' = "pass" /\ UNCHANGED <<nextId, plugged>>
  <1>1. events \in Seq(Ev) /\ events # <<>> /\ Head(events).what = what /\ Balanced(events, outputs, plugged)
        /\ Placed(events, DOMAIN windows) /\ stage' = "pass" /\ UNCHANGED <<nextId, plugged>>
    BY DEF SurfacesTyped, SurfacesSound, Takes, Handles
  <1>2. PICK ev : ev = Head(events)
    OBVIOUS
  <1>3. events' \in Seq(Ev) /\ ev \in Ev
    BY <1>1, <1>2, TailHas
  <1>4. \A also, id : Has(events, also, id) <=> Has(events', also, id) \/ (ev.what = also /\ ev.id = id)
    BY <1>1, <1>2, TailHas
  <1>5. /\ what = "output" => Balanced(events', outputs + 1, plugged)
        /\ what = "gone" => outputs > 0 /\ Balanced(events', outputs - 1, plugged)
        /\ what \in Whats => Balanced(events', outputs, plugged)
    BY <1>1, BalancedTail DEF Whats
  <1>6. Placed(events', DOMAIN windows) /\ (what \in Whats => ev.id \in DOMAIN windows)
    <2>1. \A also \in Whats : \A id : Has(events, also, id) => id \in DOMAIN windows
      BY <1>1, PlacedLemma
    <2> QED
      BY <1>1, <1>2, <1>4, <2>1, PlacedLemma
  <1> QED
    BY <1>1, <1>2, <1>3, <1>4, <1>5, <1>6

\* A handler that changes one window.
LEMMA WindowStep ==
    ASSUME Typed, SurfacesSound, NEW what \in Whats, Takes(what), events' = Tail(events),
           UNCHANGED <<server, outputs, ctx>>, NEW v \in Win,
           windows' = [windows EXCEPT ![Head(events).id] = v],
           v.painter = windows[Head(events).id].painter,
           \A id \in DOMAIN windows :
               /\ WinSound(id, windows[id], server[id], events, ctx.dirty)
               /\ id = Head(events).id
               /\ \A also \in Whats : Has(events, also, id) <=> Has(events', also, id) \/ also = what
               => WinSound(id, v, server[id], events', ctx.dirty) /\ v.layer
    PROVE  /\ SurfacesTyped' /\ SurfacesSound' /\ stage' = "pass"
           /\ \A id \in DOMAIN windows' : windows'[id].painter = windows[id].painter
  <1>0. SurfacesTyped
    BY DEF Typed
  <1>1. /\ events' \in Seq(Ev) /\ Placed(events', DOMAIN windows)
        /\ Head(events) \in Ev /\ Head(events).id \in DOMAIN windows
        /\ Balanced(events', outputs, plugged) /\ stage' = "pass" /\ UNCHANGED <<nextId, plugged>>
    BY <1>0, Reads
  <1>2. \A also, id : Has(events, also, id) <=> \/ Has(events', also, id)
                                                \/ what = also /\ Head(events).id = id
    BY <1>0, Reads
  <1>3. PICK k : k = Head(events).id
    OBVIOUS
  <1>4. /\ windows \in [DOMAIN windows -> Win] /\ k \in DOMAIN windows
        /\ DOMAIN windows' = DOMAIN windows /\ windows' \in [DOMAIN windows -> Win]
        /\ windows'[k] = v /\ \A id \in DOMAIN windows : id # k => windows'[id] = windows[id]
    BY <1>0, <1>1, <1>3 DEF SurfacesTyped
  <1>5. SurfacesTyped'
    BY <1>0, <1>1, <1>4 DEF SurfacesTyped
  <1>6. ASSUME NEW id \in DOMAIN windows
        PROVE  /\ WinSound(id, windows'[id], server[id], events', ctx.dirty)
               /\ ~windows'[id].layer /\ windows'[id].lived => outputs = 0
    <2>1. /\ WinSound(id, windows[id], server[id], events, ctx.dirty)
          /\ ~windows[id].layer /\ windows[id].lived => outputs = 0
      BY DEF SurfacesSound, WindowsSound
    <2>2. CASE id = k
      <3>1. \A also \in Whats : Has(events, also, id) <=> Has(events', also, id) \/ also = what
        BY <1>2, <1>3, <2>2
      <3>2. WinSound(id, v, server[id], events', ctx.dirty) /\ v.layer
        BY <1>3, <2>1, <2>2, <3>1
      <3> QED
        BY <1>4, <2>2, <3>2
    <2>3. CASE id # k
      <3>1. \A also \in Whats : Has(events', also, id) <=> Has(events, also, id)
        BY <1>2, <1>3, <2>3
      <3> QED
        BY <1>4, <2>1, <2>3, <3>1, SameEvents
    <2> QED
      BY <2>2, <2>3
  <1>7. SurfacesSound'
    BY <1>1, <1>4, <1>6 DEF SurfacesSound, WindowsSound
  <1>8. \A id \in DOMAIN windows' : windows'[id].painter = windows[id].painter
    BY <1>3, <1>4
  <1> QED
    BY <1>1, <1>5, <1>7, <1>8

LEMMA OnConfigureStep ==
    ASSUME Typed, SurfacesSound, OnConfigure, UNCHANGED ctx
    PROVE  /\ SurfacesTyped' /\ SurfacesSound' /\ stage' = "pass"
           /\ \A id \in DOMAIN windows' : windows'[id].painter = windows[id].painter
  <1>0. SurfacesTyped /\ Takes("configure") /\ events' = Tail(events) /\ UNCHANGED <<server, outputs, ctx>>
    BY DEF Typed, OnConfigure
  <1>1. PICK ev : ev = Head(events)
    OBVIOUS
  <1>2. PICK w : w = windows[ev.id]
    OBVIOUS
  <1>3. ev \in Ev /\ ev.what = "configure" /\ ev.id \in DOMAIN windows /\ w \in Win /\ "configure" \in Whats
    BY <1>0, <1>1, <1>2, Reads, ServerFacts DEF Whats
  <1>4. ev.resized \in BOOLEAN
    BY <1>3, EvLemma
  <1>5. PICK v : v = [w EXCEPT !.committed = @ /\ ~ev.resized, !.dirty = @ \/ ev.resized \/ ~w.configured,
                               !.configured = TRUE, !.lived = TRUE]
    OBVIOUS
  <1>6. windows' = [windows EXCEPT ![ev.id] = v]
    BY <1>1, <1>2, <1>5 DEF OnConfigure
  <1>7. /\ v \in Win /\ v.painter = w.painter /\ v.layer = w.layer /\ v.configured /\ v.frame = w.frame
        /\ v.shows = w.shows /\ (w.dirty \/ ~w.configured => v.dirty)
    BY <1>3, <1>4, <1>5 DEF Win
  <1>8. ASSUME NEW id \in DOMAIN windows, WinSound(id, windows[id], server[id], events, ctx.dirty), id = ev.id,
               \A also \in Whats : Has(events, also, id) <=> Has(events', also, id) \/ also = "configure"
        PROVE  WinSound(id, v, server[id], events', ctx.dirty) /\ v.layer
    BY <1>2, <1>3, <1>7, <1>8 DEF WinSound, Whats
  <1> QED
    BY <1>0, <1>1, <1>2, <1>3, <1>6, <1>7, <1>8, WindowStep

LEMMA OnFrameStep ==
    ASSUME Typed, SurfacesSound, OnFrame, UNCHANGED ctx
    PROVE  /\ SurfacesTyped' /\ SurfacesSound' /\ stage' = "pass"
           /\ \A id \in DOMAIN windows' : windows'[id].painter = windows[id].painter
  <1>0. SurfacesTyped /\ Takes("frame") /\ events' = Tail(events) /\ UNCHANGED <<server, outputs, ctx>>
    BY DEF Typed, OnFrame
  <1>1. PICK ev : ev = Head(events)
    OBVIOUS
  <1>2. PICK w : w = windows[ev.id]
    OBVIOUS
  <1>3. ev \in Ev /\ ev.id \in DOMAIN windows /\ w \in Win /\ "frame" \in Whats
    BY <1>0, <1>1, <1>2, Reads, ServerFacts DEF Whats
  <1>4. PICK v : v = [w EXCEPT !.frame = FALSE]
    OBVIOUS
  <1>5. windows' = [windows EXCEPT ![ev.id] = v]
    BY <1>1, <1>2, <1>4 DEF OnFrame
  <1>6. /\ v \in Win /\ v.painter = w.painter /\ v.layer = w.layer /\ v.configured = w.configured
        /\ ~v.frame /\ v.shows = w.shows /\ v.dirty = w.dirty
    BY <1>3, <1>4 DEF Win
  <1>7. ASSUME NEW id \in DOMAIN windows, WinSound(id, windows[id], server[id], events, ctx.dirty), id = ev.id,
               \A also \in Whats : Has(events, also, id) <=> Has(events', also, id) \/ also = "frame"
        PROVE  WinSound(id, v, server[id], events', ctx.dirty) /\ v.layer
    BY <1>2, <1>3, <1>6, <1>7 DEF WinSound, Whats
  <1> QED
    BY <1>0, <1>1, <1>2, <1>3, <1>5, <1>6, <1>7, WindowStep

LEMMA OnScaleStep ==
    ASSUME Typed, SurfacesSound, OnScale, UNCHANGED ctx
    PROVE  /\ SurfacesTyped' /\ SurfacesSound' /\ stage' = "pass"
           /\ \A id \in DOMAIN windows' : windows'[id].painter = windows[id].painter
  <1>0. SurfacesTyped /\ Takes("scale") /\ events' = Tail(events) /\ UNCHANGED <<server, outputs, ctx>>
    BY DEF Typed, OnScale
  <1>1. PICK ev : ev = Head(events)
    OBVIOUS
  <1>2. PICK w : w = windows[ev.id]
    OBVIOUS
  <1>3. ev \in Ev /\ ev.id \in DOMAIN windows /\ w \in Win /\ "scale" \in Whats
    BY <1>0, <1>1, <1>2, Reads, ServerFacts DEF Whats
  <1>4. PICK v : v = [w EXCEPT !.dirty = TRUE, !.committed = FALSE]
    OBVIOUS
  <1>5. windows' = [windows EXCEPT ![ev.id] = v]
    BY <1>1, <1>2, <1>4 DEF OnScale
  <1>6. /\ v \in Win /\ v.painter = w.painter /\ v.layer = w.layer /\ v.configured = w.configured
        /\ v.frame = w.frame /\ v.shows = w.shows /\ v.dirty
    BY <1>3, <1>4 DEF Win
  <1>7. ASSUME NEW id \in DOMAIN windows, WinSound(id, windows[id], server[id], events, ctx.dirty), id = ev.id,
               \A also \in Whats : Has(events, also, id) <=> Has(events', also, id) \/ also = "scale"
        PROVE  WinSound(id, v, server[id], events', ctx.dirty) /\ v.layer
    BY <1>2, <1>3, <1>6, <1>7 DEF WinSound, Whats
  <1> QED
    BY <1>0, <1>1, <1>2, <1>3, <1>5, <1>6, <1>7, WindowStep

LEMMA OnGoneStep ==
    ASSUME Typed, SurfacesSound, OnGone, UNCHANGED ctx
    PROVE  /\ SurfacesTyped' /\ SurfacesSound' /\ stage' = "pass"
           /\ \A id \in DOMAIN windows' : windows'[id].painter = windows[id].painter
  <1>0. /\ SurfacesTyped /\ Takes("gone") /\ events' = Tail(events) /\ UNCHANGED <<windows, server, ctx>>
        /\ outputs' = outputs - 1
    BY DEF Typed, OnGone
  <1>1. /\ events' \in Seq(Ev) /\ Placed(events', DOMAIN windows)
        /\ outputs > 0 /\ Balanced(events', outputs - 1, plugged) /\ stage' = "pass"
        /\ UNCHANGED <<nextId, plugged>>
    BY <1>0, Reads
  <1>2. \A also \in Whats : \A id : Has(events', also, id) <=> Has(events, also, id)
    <2>1. \A also, id : Has(events, also, id) <=> \/ Has(events', also, id)
                                                  \/ "gone" = also /\ Head(events).id = id
      BY <1>0, Reads
    <2> QED
      BY <2>1 DEF Whats
  <1>3. SurfacesTyped'
    BY <1>0, <1>1 DEF SurfacesTyped
  <1>4. ASSUME NEW id \in DOMAIN windows
        PROVE  /\ WinSound(id, windows[id], server[id], events', ctx.dirty)
               /\ windows[id].layer \/ ~windows[id].lived
    <2>1. /\ WinSound(id, windows[id], server[id], events, ctx.dirty)
          /\ ~windows[id].layer /\ windows[id].lived => outputs = 0
      BY DEF SurfacesSound, WindowsSound
    <2>2. outputs # 0 /\ windows[id] \in Win
      <3>1. outputs \in Nat
        BY DEF SurfacesSound, Balanced
      <3>2. windows[id] \in Win
        BY <1>0, ServerFacts
      <3> QED
        BY <1>1, <3>1, <3>2
    <2>3. WinSound(id, windows[id], server[id], events', ctx.dirty)
      BY <1>2, <2>1, SameEvents
    <2> QED
      BY <2>1, <2>2, <2>3 DEF Win
  <1>5. SurfacesSound'
    BY <1>0, <1>1, <1>4 DEF SurfacesSound, WindowsSound
  <1> QED
    BY <1>0, <1>1, <1>3, <1>5

\* A window that is mapped has a new surface, about which nothing was said.
LEMMA MappedFacts ==
    ASSUME NEW w \in Win
    PROVE  /\ Mapped(w) \in Win /\ Mapped(w).painter = w.painter /\ Mapped(w).layer
           /\ ~Mapped(w).configured /\ ~Mapped(w).frame /\ ~Mapped(w).dirty
           /\ [Unknown EXCEPT !.state = "new"] \in Server
           /\ [Unknown EXCEPT !.state = "new"].state = "new"
           /\ \A id, evs, repaint :
                 (\A what \in Whats : ~Has(evs, what, id))
                     => WinSound(id, Mapped(w), [Unknown EXCEPT !.state = "new"], evs, repaint)
  <1>1. PICK v : v = Mapped(w)
    OBVIOUS
  <1>2. PICK s : s = [Unknown EXCEPT !.state = "new"]
    OBVIOUS
  <1>3. v = [painter |-> w.painter, layer |-> TRUE, lived |-> FALSE, configured |-> FALSE,
             committed |-> FALSE, dirty |-> FALSE, frame |-> FALSE, shows |-> FALSE]
    BY <1>1 DEF Mapped, Window
  <1>4. s = [state |-> "new", frame |-> FALSE]
    BY <1>2 DEF Unknown
  <1>5. w.painter \in Nat
    BY DEF Win
  <1>6. v \in Win /\ v.painter = w.painter /\ v.layer /\ ~v.configured /\ ~v.frame /\ ~v.dirty
    BY <1>3, <1>5 DEF Win
  <1>7. s \in Server /\ s.state = "new"
    BY <1>4 DEF Server
  <1>8. \A id, evs, repaint : (\A what \in Whats : ~Has(evs, what, id)) => WinSound(id, v, s, evs, repaint)
    BY <1>6, <1>7 DEF WinSound, Whats
  <1> QED
    BY <1>1, <1>2, <1>6, <1>7, <1>8

LEMMA OnOutputStep ==
    ASSUME Typed, SurfacesSound, OnOutput, UNCHANGED ctx
    PROVE  /\ SurfacesTyped' /\ SurfacesSound' /\ stage' = "pass"
           /\ \A id \in DOMAIN windows' : windows'[id].painter = windows[id].painter
  <1>0. /\ SurfacesTyped /\ Takes("output") /\ events' = Tail(events) /\ UNCHANGED ctx
        /\ outputs' = outputs + 1
    BY DEF Typed, OnOutput
  <1>1. /\ events' \in Seq(Ev) /\ Placed(events', DOMAIN windows)
        /\ Balanced(events', outputs + 1, plugged) /\ stage' = "pass" /\ UNCHANGED <<nextId, plugged>>
    BY <1>0, Reads
  <1>2. \A also \in Whats : \A id : Has(events', also, id) <=> Has(events, also, id)
    <2>1. \A also, id : Has(events, also, id) <=> \/ Has(events', also, id)
                                                  \/ "output" = also /\ Head(events).id = id
      BY <1>0, Reads
    <2> QED
      BY <2>1 DEF Whats
  <1>3. PICK s : s = [Unknown EXCEPT !.state = "new"]
    OBVIOUS
  <1>4. DOMAIN windows' = DOMAIN windows /\ DOMAIN server' = DOMAIN windows
    BY <1>0 DEF OnOutput, MapWindows, SurfacesTyped
  <1>5. ASSUME NEW id \in DOMAIN windows
        PROVE  /\ windows'[id] \in Win /\ server'[id] \in Server
               /\ WinSound(id, windows'[id], server'[id], events', ctx.dirty)
               /\ windows'[id].layer
               /\ windows'[id].painter = windows[id].painter
    <2>1. windows[id] \in Win /\ server[id] \in Server /\ id \in DOMAIN server
      BY <1>0, ServerFacts
    <2>2. WinSound(id, windows[id], server[id], events, ctx.dirty)
      BY DEF SurfacesSound, WindowsSound
    <2>3. WinSound(id, windows[id], server[id], events', ctx.dirty)
      BY <1>2, <2>2, SameEvents
    <2>4. CASE windows[id].layer
      <3>1. windows'[id] = windows[id] /\ server'[id] = server[id]
        BY <2>1, <2>4 DEF OnOutput, MapWindows
      <3> QED
        BY <2>1, <2>3, <2>4, <3>1
    <2>5. CASE ~windows[id].layer
      <3>1. windows'[id] = Mapped(windows[id]) /\ server'[id] = s
        BY <1>3, <2>1, <2>5 DEF OnOutput, MapWindows
      <3>2. \A what \in Whats : ~Has(events', what, id)
        BY <1>2, <2>2, <2>5 DEF WinSound
      <3> QED
        BY <1>3, <2>1, <3>1, <3>2, MappedFacts
    <2> QED
      BY <2>4, <2>5
  <1>6. SurfacesTyped'
    <2>1. windows' \in [DOMAIN windows -> Win] /\ server' \in [DOMAIN windows -> Server]
      <3>1. /\ windows' = [id \in DOMAIN windows |-> windows'[id]]
            /\ server' = [id \in DOMAIN windows |-> server'[id]]
        BY <1>0, <1>4 DEF OnOutput, MapWindows, SurfacesTyped
      <3> QED
        BY <1>5, <3>1
    <2> QED
      BY <1>0, <1>1, <1>4, <2>1 DEF SurfacesTyped
  <1>7. SurfacesSound'
    BY <1>0, <1>1, <1>4, <1>5 DEF SurfacesSound, WindowsSound
  <1>8. \A id \in DOMAIN windows' : windows'[id].painter = windows[id].painter
    BY <1>4, <1>5
  <1> QED
    BY <1>1, <1>6, <1>7, <1>8

LEMMA OnClosedStep ==
    ASSUME Typed, SurfacesSound, OnClosed, UNCHANGED ctx
    PROVE  /\ SurfacesTyped' /\ SurfacesSound' /\ stage' = "pass"
           /\ \A id \in DOMAIN windows' : windows'[id].painter = windows[id].painter
  <1>0. SurfacesTyped /\ Takes("closed") /\ UNCHANGED <<outputs, ctx>>
    BY DEF Typed, OnClosed
  <1>1. PICK ev : ev = Head(events)
    OBVIOUS
  <1>2. /\ events \in Seq(Ev) /\ events # <<>> /\ stage' = "pass" /\ UNCHANGED <<nextId, plugged>>
        /\ Balanced(events, outputs, plugged) /\ Placed(events, DOMAIN windows) /\ ev.what = "closed"
    BY <1>0, <1>1 DEF SurfacesTyped, SurfacesSound, Takes, Handles
  <1>3. PICK k : k = ev.id
    OBVIOUS
  <1>4. k \in DOMAIN windows
    <2>1. Has(events, "closed", k)
      BY <1>1, <1>2, <1>3, TailHas
    <2> QED
      BY <1>2, <2>1, PlacedLemma DEF Whats
  <1>5. k \in Nat \ {0} /\ windows[k] \in Win /\ server[k] \in Server /\ DOMAIN server = DOMAIN windows
    BY <1>0, <1>4, ServerFacts
  <1>6. events' = Dropped({k})
    BY <1>1, <1>3 DEF OnClosed
  <1>7. /\ events' \in Seq(Ev)
        /\ \A what, id : Has(events', what, id) <=> id # k /\ Has(events, what, id)
    BY <1>2, <1>6, DroppedHas
  <1>8. Balanced(events', outputs, plugged)
    <2>1. 0 \notin {k}
      BY <1>5
    <2> QED
      BY <1>2, <1>6, <2>1, BalancedDropped
  <1>9. Placed(events', DOMAIN windows)
    BY <1>2, <1>7, PlacedLemma
  <1>10. PICK w : w = windows[k]
    OBVIOUS
  <1>11. \E v \in Win, s \in Server :
            /\ DOMAIN windows' = DOMAIN windows /\ DOMAIN server' = DOMAIN windows
            /\ windows'[k] = v /\ server'[k] = s
            /\ \A id \in DOMAIN windows : id # k => windows'[id] = windows[id] /\ server'[id] = server[id]
            /\ windows' = [id \in DOMAIN windows |-> windows'[id]]
            /\ server' = [id \in DOMAIN windows |-> server'[id]]
            /\ WinSound(k, v, s, events', ctx.dirty) /\ v.painter = w.painter
            /\ ~v.layer /\ v.lived => outputs = 0
    <2>0. \A what \in Whats : ~Has(events', what, k)
      BY <1>7
    <2>1. CASE w.lived /\ outputs > 0
      <3>1. PICK v : v = Mapped(w)
        OBVIOUS
      <3>2. PICK s : s = [Unknown EXCEPT !.state = "new"]
        OBVIOUS
      <3>3. MapWindows({k})
        BY <1>1, <1>3, <1>10, <2>1 DEF OnClosed
      <3>4. /\ DOMAIN windows' = DOMAIN windows /\ DOMAIN server' = DOMAIN windows
            /\ windows' = [id \in DOMAIN windows |-> windows'[id]]
            /\ server' = [id \in DOMAIN windows |-> server'[id]]
        BY <1>5, <3>3 DEF MapWindows
      <3>5. windows'[k] = v /\ server'[k] = s
        BY <1>4, <1>5, <1>10, <3>1, <3>2, <3>3 DEF MapWindows
      <3>6. \A id \in DOMAIN windows : id # k => windows'[id] = windows[id] /\ server'[id] = server[id]
        BY <1>5, <3>3 DEF MapWindows
      <3>7. v \in Win /\ s \in Server /\ WinSound(k, v, s, events', ctx.dirty) /\ v.painter = w.painter /\ v.layer
        BY <1>5, <1>10, <2>0, <3>1, <3>2, MappedFacts
      <3> QED
        BY <3>4, <3>5, <3>6, <3>7
    <2>2. CASE ~(w.lived /\ outputs > 0)
      <3>1. PICK v : v = Unmapped(w)
        OBVIOUS
      <3>2. PICK s : s = Unknown
        OBVIOUS
      <3>3. windows' = [windows EXCEPT ![k] = v] /\ server' = [server EXCEPT ![k] = s]
        BY <1>1, <1>3, <1>10, <2>2, <3>1, <3>2 DEF OnClosed
      <3>4. windows = [id \in DOMAIN windows |-> windows[id]] /\ server = [id \in DOMAIN windows |-> server[id]]
        BY <1>0 DEF SurfacesTyped
      <3>5. /\ DOMAIN windows' = DOMAIN windows /\ DOMAIN server' = DOMAIN windows
            /\ windows' = [id \in DOMAIN windows |-> windows'[id]]
            /\ server' = [id \in DOMAIN windows |-> server'[id]]
            /\ windows'[k] = v /\ server'[k] = s
            /\ \A id \in DOMAIN windows : id # k => windows'[id] = windows[id] /\ server'[id] = server[id]
        BY <1>4, <3>3, <3>4
      <3>6. /\ v \in Win /\ v.painter = w.painter /\ ~v.layer /\ ~v.configured /\ ~v.frame
            /\ v.lived = w.lived
        BY <1>5, <1>10, <3>1 DEF Win, Unmapped
      <3>7. s \in Server /\ s.state = "none"
        BY <3>2 DEF Unknown, Server
      <3>8. WinSound(k, v, s, events', ctx.dirty)
        BY <2>0, <3>6, <3>7 DEF WinSound
      <3>9. v.lived => outputs = 0
        <4>1. outputs \in Nat
          BY <1>8 DEF Balanced
        <4> QED
          BY <2>2, <3>6, <4>1
      <3> QED
        BY <3>5, <3>6, <3>7, <3>8, <3>9
    <2> QED
      BY <2>1, <2>2
  <1>12. PICK v \in Win, s \in Server :
            /\ DOMAIN windows' = DOMAIN windows /\ DOMAIN server' = DOMAIN windows
            /\ windows'[k] = v /\ server'[k] = s
            /\ \A id \in DOMAIN windows : id # k => windows'[id] = windows[id] /\ server'[id] = server[id]
            /\ windows' = [id \in DOMAIN windows |-> windows'[id]]
            /\ server' = [id \in DOMAIN windows |-> server'[id]]
            /\ WinSound(k, v, s, events', ctx.dirty) /\ v.painter = w.painter
            /\ ~v.layer /\ v.lived => outputs = 0
    BY <1>11
  <1>13. SurfacesTyped'
    <2>1. \A id \in DOMAIN windows : windows'[id] \in Win /\ server'[id] \in Server
      BY <1>0, <1>12, ServerFacts
    <2>2. windows' \in [DOMAIN windows -> Win] /\ server' \in [DOMAIN windows -> Server]
      BY <1>12, <2>1
    <2> QED
      BY <1>0, <1>2, <1>7, <1>9, <1>12, <2>2 DEF SurfacesTyped
  <1>14. ASSUME NEW id \in DOMAIN windows
         PROVE  /\ WinSound(id, windows'[id], server'[id], events', ctx.dirty)
                /\ ~windows'[id].layer /\ windows'[id].lived => outputs = 0
    <2>1. CASE id = k
      BY <1>12, <2>1
    <2>2. CASE id # k
      <3>1. /\ WinSound(id, windows[id], server[id], events, ctx.dirty)
            /\ ~windows[id].layer /\ windows[id].lived => outputs = 0
        BY DEF SurfacesSound, WindowsSound
      <3>2. WinSound(id, windows[id], server[id], events', ctx.dirty)
        BY <1>7, <2>2, <3>1, SameEvents
      <3> QED
        BY <1>12, <2>2, <3>1, <3>2
    <2> QED
      BY <2>1, <2>2
  <1>15. SurfacesSound'
    BY <1>0, <1>2, <1>8, <1>12, <1>14 DEF SurfacesSound, WindowsSound
  <1>16. \A id \in DOMAIN windows' : windows'[id].painter = windows[id].painter
    BY <1>10, <1>12
  <1> QED
    BY <1>2, <1>13, <1>15, <1>16

LEMMA WaylandStep ==
    ASSUME Typed, SurfacesSound, WaylandNext, UNCHANGED ctx
    PROVE  /\ SurfacesTyped' /\ SurfacesSound' /\ stage' = "pass"
           /\ \A id \in DOMAIN windows' : windows'[id].painter = windows[id].painter
  BY OnConfigureStep, OnFrameStep, OnScaleStep, OnClosedStep, OnOutputStep, OnGoneStep DEF WaylandNext

-----------------------------------------------------------------------------
(* What Lua may do.                                                        *)

\* Lua queues for its own VM, and takes back nothing it asked for.
LEMMA LuaDoesLemma ==
    ASSUME NEW c \in Ctx, NEW who \in Nat, NEW d \in LuaDoes(c, who)
    PROVE  /\ d \in Ctx /\ (c.dirty => d.dirty) /\ (c.reload => d.reload)
           /\ Owned(c, who) => Owned(d, who)
  <1>1. CASE d = c
    BY <1>1
  <1>2. CASE d = [c EXCEPT !.dirty = TRUE]
    BY <1>2 DEF Ctx, Owned
  <1>3. CASE d = [c EXCEPT !.quit = TRUE]
    BY <1>3 DEF Ctx, Owned
  <1>4. CASE d = [c EXCEPT !.timers = @ \cup {who}]
    BY <1>4 DEF Ctx, Owned
  <1>5. CASE d = [c EXCEPT !.watches = @ \cup {who}]
    BY <1>5 DEF Ctx, Owned
  <1>6. CASE d = [c EXCEPT !.reload = TRUE]
    BY <1>6 DEF Ctx, Owned
  <1>7. CASE d = [c EXCEPT !.pending = Append(@, who), !.dirty = TRUE]
    <2>1. PICK q : q = Append(c.pending, who)
      OBVIOUS
    <2>2. c.pending \in Seq(Nat)
      BY DEF Ctx
    <2>3. /\ q \in Seq(Nat) /\ Len(q) = Len(c.pending) + 1 /\ Len(c.pending) \in Nat
          /\ q[Len(c.pending) + 1] = who /\ \A i \in 1 .. Len(c.pending) : q[i] = c.pending[i]
      BY <2>1, <2>2
    <2>4. \A i \in 1 .. Len(q) : i = Len(c.pending) + 1 \/ i \in 1 .. Len(c.pending)
      BY <2>3
    <2>5. d \in Ctx /\ d.dirty /\ d.pending = q
      BY <1>7, <2>1, <2>3 DEF Ctx
    <2>6. /\ d.timers = c.timers /\ d.watches = c.watches /\ d.calls = c.calls
          /\ d.running = c.running /\ d.reload = c.reload
      BY <1>7 DEF Ctx
    <2>7. Owned(c, who) => Owned(d, who)
      BY <2>3, <2>4, <2>5, <2>6 DEF Owned
    <2> QED
      BY <2>5, <2>6, <2>7
  <1>8. CASE d = [c EXCEPT !.execs = c.execs + 1, !.calls = @ \cup {<<c.execs + 1, who>>},
                           !.running = @ \cup {c.execs + 1}]
    <2>1. PICK n : n = c.execs + 1
      OBVIOUS
    <2>2. n \in Nat /\ <<n, who>> \in Nat \X Nat
      BY <2>1 DEF Ctx
    <2>3. /\ d.execs = n /\ d.calls = c.calls \cup {<<n, who>>} /\ d.running = c.running \cup {n}
          /\ d.timers = c.timers /\ d.watches = c.watches /\ d.pending = c.pending
          /\ d.reload = c.reload /\ d.dirty = c.dirty
      BY <1>8, <2>1 DEF Ctx
    <2>4. d \in Ctx
      BY <1>8, <2>1, <2>2 DEF Ctx
    <2>5. Owned(c, who) => Owned(d, who)
      BY <2>3 DEF Owned
    <2> QED
      BY <2>3, <2>4, <2>5
  <1> QED
    BY <1>1, <1>2, <1>3, <1>4, <1>5, <1>6, <1>7, <1>8 DEF LuaDoes

\* To be out of date concerns what a window shows only.
SameButShows(v, w) ==
    /\ v.painter = w.painter /\ v.layer = w.layer /\ v.lived = w.lived /\ v.configured = w.configured
    /\ v.dirty = w.dirty /\ v.frame = w.frame

LEMMA OutdatedLemma ==
    ASSUME NEW D, NEW wins \in [D -> Win], NEW c
    PROVE  LET now == Outdated(wins, c)
           IN  /\ now \in [D -> Win]
               /\ \A id \in D : /\ SameButShows(now[id], wins[id])
                                /\ ~now[id].shows => ~wins[id].shows \/ c.dirty
  <1>1. CASE c.dirty
    <2>1. PICK now : now = [id \in D |-> [wins[id] EXCEPT !.shows = FALSE]]
      OBVIOUS
    <2>2. Outdated(wins, c) = now
      BY <1>1, <2>1 DEF Outdated
    <2>3. \A id \in D : now[id] \in Win /\ SameButShows(now[id], wins[id])
      BY <2>1 DEF Win, SameButShows
    <2>4. now \in [D -> Win]
      BY <2>1, <2>3
    <2> QED
      BY <1>1, <2>2, <2>3, <2>4
  <1>2. CASE ~c.dirty
    <2>1. Outdated(wins, c) = wins
      BY <1>2 DEF Outdated
    <2> QED
      BY <1>2, <2>1 DEF SameButShows
  <1> QED
    BY <1>1, <1>2

LEMMA ShowsLess ==
    ASSUME NEW id, NEW v, NEW w, NEW s, NEW evs, NEW r \in BOOLEAN, NEW q \in BOOLEAN,
           WinSound(id, w, s, evs, r), r => q, SameButShows(v, w), ~v.shows => ~w.shows \/ q
    PROVE  WinSound(id, v, s, evs, q)
  BY DEF WinSound, SameButShows

\* What is promised of the surfaces stays while nothing happens to them.
LEMMA SurfacesStay ==
    ASSUME Typed, SurfacesSound, UNCHANGED surfaces, ctx' \in Ctx, ctx.dirty => ctx'.dirty,
           stage' = "dispatch" => stage = "dispatch"
    PROVE  SurfacesTyped' /\ SurfacesSound'
  <1>1. SurfacesTyped' /\ ctx \in Ctx
    BY DEF Typed, SurfacesTyped, surfaces
  <1>2. ctx.dirty \in BOOLEAN /\ ctx'.dirty \in BOOLEAN
    BY <1>1 DEF Ctx
  <1>3. ASSUME NEW id \in DOMAIN windows
        PROVE  WinSound(id, windows[id], server[id], events, ctx'.dirty)
    <2>1. WinSound(id, windows[id], server[id], events, ctx.dirty)
      BY DEF SurfacesSound, WindowsSound
    <2> QED
      BY <1>2, <2>1, ShowsLess DEF SameButShows
  <1>4. SurfacesSound'
    BY <1>3 DEF SurfacesSound, WindowsSound, surfaces
  <1> QED
    BY <1>1, <1>4

\* Lua runs in a handler, with c for what it had queued before.
LEMMA LuaRunsLemma ==
    ASSUME Typed, SurfacesSound, NEW c \in Ctx, ctx.dirty => c.dirty, LuaRuns(c), stage' = "pass"
    PROVE  /\ Typed' /\ SurfacesSound' /\ UNCHANGED vm
           /\ Owned(c, vm) => Owned(ctx', vm)
           /\ c.reload => ctx'.reload
           /\ \A id \in DOMAIN windows' : windows'[id].painter = windows[id].painter
           /\ DOMAIN windows' = DOMAIN windows
  <1>0. /\ SurfacesTyped /\ vm \in Nat /\ late \in BOOLEAN /\ ctx \in Ctx
        /\ ctx' \in LuaDoes(c, vm) /\ windows' = Outdated(windows, ctx')
        /\ UNCHANGED <<nextId, server, plugged, outputs, events, vm, late>>
    BY DEF Typed, LuaRuns
  <1>1. /\ ctx' \in Ctx /\ (c.dirty => ctx'.dirty) /\ (c.reload => ctx'.reload)
        /\ Owned(c, vm) => Owned(ctx', vm)
    BY <1>0, LuaDoesLemma
  <1>2. ctx.dirty \in BOOLEAN /\ ctx'.dirty \in BOOLEAN
    BY <1>0, <1>1 DEF Ctx
  <1>3. /\ windows' \in [DOMAIN windows -> Win]
        /\ \A id \in DOMAIN windows : /\ SameButShows(windows'[id], windows[id])
                                      /\ ~windows'[id].shows => ~windows[id].shows \/ ctx'.dirty
    <2>1. windows \in [DOMAIN windows -> Win]
      BY <1>0 DEF SurfacesTyped
    <2> QED
      BY <1>0, <2>1, OutdatedLemma
  <1>4. Typed'
    BY <1>0, <1>1, <1>3 DEF Typed, SurfacesTyped
  <1>5. ASSUME NEW id \in DOMAIN windows
        PROVE  /\ WinSound(id, windows'[id], server[id], events, ctx'.dirty)
               /\ ~windows'[id].layer /\ windows'[id].lived => outputs = 0
    <2>1. /\ WinSound(id, windows[id], server[id], events, ctx.dirty)
          /\ ~windows[id].layer /\ windows[id].lived => outputs = 0
      BY DEF SurfacesSound, WindowsSound
    <2>2. WinSound(id, windows'[id], server[id], events, ctx'.dirty)
      BY <1>1, <1>2, <1>3, <2>1, ShowsLess
    <2> QED
      BY <1>3, <2>1, <2>2 DEF SameButShows
  <1>6. SurfacesSound'
    BY <1>0, <1>3, <1>5 DEF SurfacesSound, WindowsSound
  <1>7. DOMAIN windows' = DOMAIN windows /\ \A id \in DOMAIN windows' : windows'[id].painter = windows[id].painter
    BY <1>3 DEF SameButShows
  <1> QED
    BY <1>0, <1>1, <1>4, <1>6, <1>7

-----------------------------------------------------------------------------
(* Nothing of the old VM is left, and the surfaces settle.                 *)

\* What the disk, the watcher and the loop do that runs no Lua.
LEMMA QuietStep ==
    ASSUME ShellSound, UNCHANGED <<surfaces, vm, latest, facade>>, late' \in BOOLEAN, ctx' \in Ctx,
           ctx.dirty => ctx'.dirty, stage' = "dispatch" => stage = "dispatch",
           Owned(ctx', vm), callbacks' = callbacks,
           \/ stage' = stage /\ UNCHANGED <<ctx, late>>
           \/ stage' = "pass"
           \/ stage' = "drain" /\ ~ctx'.reload
    PROVE  ShellSound'
  <1>1. Typed /\ EngineSound /\ SurfacesSound
    BY DEF ShellSound
  <1>2. SurfacesTyped' /\ SurfacesSound'
    BY <1>1, SurfacesStay
  <1>3. Typed'
    BY <1>1, <1>2 DEF Typed
  <1>4. EngineSound'
    BY <1>1 DEF EngineSound, surfaces
  <1> QED
    BY <1>2, <1>3, <1>4 DEF ShellSound

LEMMA ShellTypes ==
    ASSUME ShellSound
    PROVE  /\ ctx \in Ctx /\ Owned(ctx, vm) /\ vm \in Nat /\ late \in BOOLEAN /\ nextId \in Nat \ {0}
           /\ SurfacesTyped
  BY DEF ShellSound, Typed, EngineSound, SurfacesTyped

LEMMA BootsShell ==
    ASSUME ShellSound, Boots
    PROVE  ShellSound'
  BY ShellTypes, QuietStep DEF Boots, engine

LEMMA DiskShell ==
    ASSUME ShellSound, DiskNext
    PROVE  ShellSound'
  BY ShellTypes, QuietStep DEF DiskNext, WritesLua, WritesFile, MakesDir, engine

LEMMA RequestReloadShell ==
    ASSUME ShellSound, RequestReload
    PROVE  ShellSound'
  <1>1. ctx \in Ctx /\ Owned(ctx, vm) /\ late \in BOOLEAN
    BY ShellTypes
  <1>2. ctx' \in Ctx /\ ctx'.dirty = ctx.dirty /\ Owned(ctx', vm)
    BY <1>1 DEF RequestReload, Ctx, Owned
  <1> QED
    BY <1>1, <1>2, QuietStep DEF RequestReload, Handles

LEMMA NoReloadShell ==
    ASSUME ShellSound, NoReload
    PROVE  ShellSound'
  BY ShellTypes, QuietStep DEF NoReload, watcher

\* Lua runs in a handler that calls nothing of another VM.
LEMMA LuaShell ==
    ASSUME ShellSound, NEW c \in Ctx, ctx.dirty => c.dirty, Owned(c, vm), LuaRuns(c), stage' = "pass",
           facade' = latest', \A cb \in callbacks' : cb.who = vm
    PROVE  ShellSound' /\ (c.reload => ctx'.reload)
  <1>1. Typed /\ EngineSound /\ SurfacesSound
    BY DEF ShellSound
  <1>2. /\ Typed' /\ SurfacesSound' /\ UNCHANGED vm /\ Owned(ctx', vm) /\ (c.reload => ctx'.reload)
        /\ DOMAIN windows' = DOMAIN windows
        /\ \A id \in DOMAIN windows' : windows'[id].painter = windows[id].painter
    BY <1>1, LuaRunsLemma
  <1>3. EngineSound'
    BY <1>1, <1>2 DEF EngineSound
  <1> QED
    BY <1>2, <1>3 DEF ShellSound

LEMMA TimerFiresShell ==
    ASSUME ShellSound, TimerFires
    PROVE  ShellSound' /\ (ctx.reload => ctx'.reload)
  <1>1. ctx \in Ctx /\ Owned(ctx, vm) /\ late \in BOOLEAN
    BY ShellTypes
  <1>2. stage' = "pass" /\ UNCHANGED <<callbacks, latest, facade>>
    BY DEF TimerFires, Handles, watcher
  <1>3. facade = latest /\ \A cb \in callbacks : cb.who = vm
    BY DEF ShellSound, EngineSound
  <1>4. CASE LuaRuns(ctx)
    BY <1>1, <1>2, <1>3, <1>4, LuaShell
  <1>5. CASE UNCHANGED <<surfaces, ctx, vm, late>>
    BY <1>1, <1>2, <1>5, QuietStep
  <1> QED
    BY <1>4, <1>5 DEF TimerFires

LEMMA ExecRepliesShell ==
    ASSUME ShellSound, ExecReplies
    PROVE  ShellSound' /\ (ctx.reload => ctx'.reload)
  <1>1. ctx \in Ctx /\ Owned(ctx, vm) /\ late \in BOOLEAN
    BY ShellTypes
  <1>2. stage' = "pass" /\ UNCHANGED <<callbacks, latest, facade>>
    BY DEF ExecReplies, Handles, watcher
  <1>3. facade = latest /\ \A cb \in callbacks : cb.who = vm
    BY DEF ShellSound, EngineSound
  <1>4. PICK n \in ctx.running :
           LET calls == {call \in ctx.calls : call[1] = n}
               c == [ctx EXCEPT !.running = @ \ {n}, !.calls = @ \ calls]
           IN  \/ LuaRuns(c)
               \/ ctx' = c /\ UNCHANGED <<surfaces, vm, late>>
    BY DEF ExecReplies
  <1>5. PICK c : c = [ctx EXCEPT !.running = @ \ {n}, !.calls = @ \ {call \in ctx.calls : call[1] = n}]
    OBVIOUS
  <1>6. c \in Ctx /\ c.dirty = ctx.dirty /\ c.reload = ctx.reload
    BY <1>1, <1>5 DEF Ctx
  <1>7. Owned(c, vm)
    <2>1. /\ c.pending = ctx.pending /\ c.timers = ctx.timers /\ c.watches = ctx.watches
          /\ c.running = ctx.running \ {n}
          /\ c.calls = ctx.calls \ {call \in ctx.calls : call[1] = n}
      BY <1>1, <1>5 DEF Ctx
    <2> QED
      BY <1>1, <2>1 DEF Owned
  <1>8. CASE LuaRuns(c)
    BY <1>2, <1>3, <1>6, <1>7, <1>8, LuaShell
  <1>9. CASE ctx' = c /\ UNCHANGED <<surfaces, vm, late>>
    BY <1>1, <1>2, <1>6, <1>7, <1>9, QuietStep
  <1> QED
    BY <1>4, <1>5, <1>8, <1>9

LEMMA SnapshotShell ==
    ASSUME ShellSound, Snapshot
    PROVE  ShellSound' /\ (ctx.reload => ctx'.reload)
  <1>1. ctx \in Ctx /\ Owned(ctx, vm)
    BY ShellTypes
  <1>2. PICK c : c = [ctx EXCEPT !.dirty = TRUE]
    OBVIOUS
  <1>3. c \in Ctx /\ c.dirty /\ c.reload = ctx.reload /\ Owned(c, vm)
    BY <1>1, <1>2 DEF Ctx, Owned
  <1>4. LuaRuns(c) /\ stage' = "pass" /\ facade' = latest' /\ UNCHANGED callbacks
    BY <1>2 DEF Snapshot, Handles, watcher
  <1>5. \A cb \in callbacks : cb.who = vm
    BY DEF ShellSound, EngineSound
  <1> QED
    BY <1>3, <1>4, <1>5, LuaShell

LEMMA InotifyReadyShell ==
    ASSUME ShellSound, WatcherSound, InotifyReady
    PROVE  ShellSound' /\ (ctx.reload => ctx'.reload)
  <1>1. ctx \in Ctx /\ Owned(ctx, vm) /\ late \in BOOLEAN
    BY ShellTypes
  <1>2. stage' = "pass" /\ UNCHANGED <<latest, facade>>
    BY DEF InotifyReady, Handles
  <1>3. facade = latest /\ \A cb \in callbacks : cb.who = vm
    BY DEF ShellSound, EngineSound
  <1>4. CASE Reported("file") /\ callbacks # {}
    <2>1. LuaRuns(ctx) /\ callbacks' = {[cb EXCEPT !.seen = disk.file] : cb \in callbacks}
      BY <1>4 DEF InotifyReady
    <2>2. \A cb \in callbacks : [cb EXCEPT !.seen = disk.file].who = vm
      BY <1>3 DEF WatcherSound
    <2>3. \A cb \in callbacks' : cb.who = vm
      BY <2>1, <2>2
    <2> QED
      BY <1>1, <1>2, <1>3, <2>1, <2>3, LuaShell
  <1>5. CASE ~(Reported("file") /\ callbacks # {})
    <2>1. UNCHANGED <<surfaces, ctx, vm, late, callbacks>>
      BY <1>5 DEF InotifyReady
    <2> QED
      BY <1>1, <1>2, <2>1, QuietStep
  <1> QED
    BY <1>4, <1>5

LEMMA ReloadShell ==
    ASSUME ShellSound, Reload
    PROVE  ShellSound'
  <1>1. /\ ctx \in Ctx /\ Owned(ctx, vm) /\ vm \in Nat /\ SurfacesTyped /\ nextId \in Nat \ {0}
        /\ Balanced(events, outputs, plugged) /\ facade = latest
    BY ShellTypes DEF ShellSound, SurfacesSound, EngineSound
  <1>2. /\ windows' = <<>> /\ server' = <<>> /\ events' = Dropped(DOMAIN windows) /\ callbacks' = {}
        /\ UNCHANGED <<nextId, plugged, outputs, latest>> /\ stage' = "drain"
    BY DEF Reload, DestroyAll
  <1>3. PICK c : c = ResetForReload(ctx)
    OBVIOUS
  <1>4. c \in Ctx /\ ~c.reload /\ \A who : Owned(c, who)
    <2>1. ctx.quit \in BOOLEAN /\ ctx.running \in SUBSET Nat /\ ctx.execs \in Nat
      BY <1>1 DEF Ctx
    <2>2. c = [pending |-> <<>>, timers |-> {}, watches |-> {}, calls |-> {}, running |-> ctx.running,
               execs |-> ctx.execs, dirty |-> FALSE, reload |-> FALSE, quit |-> ctx.quit]
      BY <1>3 DEF ResetForReload, EmptyCtx
    <2>3. <<>> \in Seq(Nat) /\ Len(<<>>) = 0
      OBVIOUS
    <2>4. c \in Ctx
      BY <2>1, <2>2, <2>3 DEF Ctx
    <2>5. /\ c.pending = <<>> /\ c.timers = {} /\ c.watches = {} /\ c.calls = {} /\ ~c.reload
      BY <2>2
    <2>6. \A who : Owned(c, who)
      BY <2>3, <2>5 DEF Owned
    <2> QED
      BY <2>4, <2>5, <2>6
  <1>5. SurfacesTyped'
    <2>1. DOMAIN windows' = {} /\ windows' \in [{} -> Win] /\ server' \in [{} -> Server]
      BY <1>2
    <2>2. events \in Seq(Ev) /\ Placed(events, DOMAIN windows)
      BY <1>1 DEF SurfacesTyped
    <2>3. events' \in Seq(Ev) /\ \A what, id : Has(events', what, id) <=> id \notin DOMAIN windows /\ Has(events, what, id)
      BY <1>2, <2>2, DroppedHas
    <2>4. Placed(events', {})
      BY <2>2, <2>3, PlacedLemma
    <2> QED
      BY <1>1, <1>2, <2>1, <2>3, <2>4 DEF SurfacesTyped
  <1>6. SurfacesSound'
    <2>1. 0 \notin DOMAIN windows /\ events \in Seq(Ev)
      BY <1>1 DEF SurfacesTyped
    <2>2. Balanced(events', outputs, plugged)
      BY <1>1, <1>2, <2>1, BalancedDropped
    <2> QED
      BY <1>2, <2>2 DEF SurfacesSound, WindowsSound
  <1>7. /\ ctx' \in Ctx /\ vm' \in Nat /\ late' \in BOOLEAN /\ Owned(ctx', vm') /\ facade' = latest'
        /\ ~late' => ~ctx'.reload
    <2>1. CASE vm' = vm + 1 /\ facade' = Seeded /\ ctx' \in LuaDoes(c, vm + 1) /\ late' = ctx'.reload
      <3>1. vm + 1 \in Nat
        BY <1>1
      <3>2. ctx' \in Ctx /\ Owned(ctx', vm + 1)
        BY <1>4, <2>1, <3>1, LuaDoesLemma
      <3>3. ctx'.reload \in BOOLEAN
        BY <3>2 DEF Ctx
      <3> QED
        BY <1>2, <2>1, <3>1, <3>2, <3>3 DEF Seeded
    <2>2. CASE ctx' = c /\ late' = FALSE /\ UNCHANGED <<vm, facade>>
      BY <1>1, <1>2, <1>4, <2>2
    <2> QED
      BY <1>3, <2>1, <2>2 DEF Reload
  <1>8. EngineSound'
    BY <1>2, <1>7 DEF EngineSound
  <1> QED
    BY <1>5, <1>6, <1>7, <1>8 DEF ShellSound, Typed

\* A window to be created, marked dirty with the rest or not.
LEMMA Marked ==
    ASSUME NEW w \in Win, NEW repaint \in BOOLEAN
    PROVE  LET v == [w EXCEPT !.dirty = @ \/ repaint]
           IN  /\ v \in Win /\ v.painter = w.painter /\ v.layer = w.layer /\ v.lived = w.lived
               /\ v.configured = w.configured /\ v.frame = w.frame /\ v.shows = w.shows
               /\ v.dirty <=> w.dirty \/ repaint
  BY DEF Win

LEMMA CreateLemma ==
    ASSUME SurfacesTyped, ctx \in Ctx, Create(ctx.pending, ctx.dirty)
    PROVE  /\ nextId' \in Nat \ {0} /\ nextId <= nextId'
           /\ DOMAIN windows' \subseteq 1 .. nextId' - 1 /\ DOMAIN windows \subseteq DOMAIN windows'
           /\ windows' = [id \in DOMAIN windows' |-> windows'[id]]
           /\ server' = [id \in DOMAIN windows' |-> server'[id]]
           /\ \A id \in DOMAIN windows :
                 /\ windows'[id] = [windows[id] EXCEPT !.dirty = @ \/ ctx.dirty]
                 /\ server'[id] = server[id]
           /\ \A id \in DOMAIN windows' \ DOMAIN windows :
                 \E i \in 1 .. Len(ctx.pending) :
                    /\ windows'[id] = [Mapped(Window(ctx.pending[i])) EXCEPT !.dirty = @ \/ ctx.dirty]
                    /\ server'[id] = [Unknown EXCEPT !.state = "new"]
  <1>1. /\ nextId \in Nat \ {0} /\ DOMAIN windows \subseteq 1 .. nextId - 1
        /\ server \in [DOMAIN windows -> Server] /\ DOMAIN server = DOMAIN windows
    BY DEF SurfacesTyped
  <1>2. PICK n : n = Len(ctx.pending)
    OBVIOUS
  <1>3. n \in Nat
    BY <1>2 DEF Ctx
  <1>4. PICK ids : ids = nextId .. nextId + n - 1
    OBVIOUS
  <1>5. /\ windows' = [id \in DOMAIN windows \cup ids |->
                          [(IF id \in ids THEN Mapped(Window(ctx.pending[id - nextId + 1]))
                            ELSE windows[id]) EXCEPT !.dirty = @ \/ ctx.dirty]]
        /\ server' = [id \in DOMAIN windows \cup ids |->
                         IF id \in ids THEN [Unknown EXCEPT !.state = "new"] ELSE server[id]]
        /\ nextId' = nextId + n
    BY <1>1, <1>2, <1>4 DEF Create
  <1>6. \A id \in ids : id \notin DOMAIN windows /\ id - nextId + 1 \in 1 .. n /\ id \in 1 .. nextId + n - 1
    BY <1>1, <1>3, <1>4
  <1>7. /\ server' = [id \in DOMAIN windows' |-> server'[id]]
        /\ \A id \in DOMAIN windows : server'[id] = server[id]
        /\ \A id \in ids : server'[id] = [Unknown EXCEPT !.state = "new"]
    BY <1>5, <1>6
  <1>8. /\ DOMAIN windows' = DOMAIN windows \cup ids
        /\ windows' = [id \in DOMAIN windows' |-> windows'[id]]
    BY <1>5
  <1>9. \A id \in DOMAIN windows : windows'[id] = [windows[id] EXCEPT !.dirty = @ \/ ctx.dirty]
    BY <1>5, <1>6
  <1>10. ASSUME NEW id \in ids
         PROVE  \E i \in 1 .. n :
                    /\ windows'[id] = [Mapped(Window(ctx.pending[i])) EXCEPT !.dirty = @ \/ ctx.dirty]
                    /\ server'[id] = [Unknown EXCEPT !.state = "new"]
    <2>1. PICK i : i = id - nextId + 1
      OBVIOUS
    <2>2. i \in 1 .. n
      BY <1>6, <2>1
    <2>3. windows'[id] = [Mapped(Window(ctx.pending[i])) EXCEPT !.dirty = @ \/ ctx.dirty]
      BY <1>5, <2>1
    <2> QED
      BY <1>7, <2>2, <2>3
  <1>11. nextId' \in Nat \ {0} /\ nextId <= nextId' /\ DOMAIN windows' \subseteq 1 .. nextId' - 1
    <2>1. 1 .. nextId - 1 \subseteq 1 .. nextId + n - 1
      BY <1>1, <1>3
    <2> QED
      BY <1>1, <1>3, <1>5, <1>6, <1>8, <2>1
  <1> QED
    BY <1>2, <1>7, <1>8, <1>9, <1>10, <1>11

LEMMA DrainShell ==
    ASSUME ShellSound, Drain
    PROVE  ShellSound'
  <1>1. /\ ctx \in Ctx /\ Owned(ctx, vm) /\ vm \in Nat /\ late \in BOOLEAN /\ SurfacesTyped /\ SurfacesSound
        /\ EngineSound
    BY ShellTypes DEF ShellSound
  <1>2. /\ stage = "drain" /\ stage' \in {"last", "redraw"} /\ Create(ctx.pending, ctx.dirty)
        /\ UNCHANGED <<plugged, outputs, events, vm, late, latest, facade>>
        /\ callbacks' \subseteq callbacks \cup {[who |-> n, seen |-> disk.file] : n \in ctx.watches}
    BY DEF Drain
  <1>3. PICK c : c = [ctx EXCEPT !.pending = <<>>, !.timers = {}, !.watches = {}, !.dirty = FALSE, !.quit = FALSE]
    OBVIOUS
  <1>4. /\ ctx' = c /\ c \in Ctx /\ Owned(c, vm) /\ ~c.dirty /\ c.reload = ctx.reload
        /\ ~c.reload => Drained(c)
    <2>1. ctx' = c
      BY <1>3 DEF Drain
    <2>2. <<>> \in Seq(Nat) /\ Len(<<>>) = 0
      OBVIOUS
    <2>3. c \in Ctx
      BY <1>1, <1>3, <2>2 DEF Ctx
    <2>4. /\ c.pending = <<>> /\ c.timers = {} /\ c.watches = {} /\ ~c.dirty /\ ~c.quit
          /\ c.reload = ctx.reload /\ c.calls = ctx.calls /\ c.running = ctx.running
      BY <1>1, <1>3 DEF Ctx
    <2>5. Owned(c, vm)
      BY <1>1, <2>2, <2>4 DEF Owned
    <2> QED
      BY <2>1, <2>3, <2>4, <2>5 DEF Drained
  <1>5. ctx.dirty \in BOOLEAN /\ \A i \in 1 .. Len(ctx.pending) : ctx.pending[i] = vm
    BY <1>1 DEF Ctx, Owned
  <1>6. ASSUME NEW id \in DOMAIN windows
        PROVE  /\ windows'[id] \in Win /\ server'[id] \in Server /\ windows'[id].painter = vm
               /\ WinSound(id, windows'[id], server'[id], events, FALSE)
               /\ ~windows'[id].layer /\ windows'[id].lived => outputs = 0
    <2>1. windows[id] \in Win /\ server[id] \in Server /\ windows[id].painter = vm
      BY <1>1, ServerFacts DEF EngineSound
    <2>2. /\ WinSound(id, windows[id], server[id], events, ctx.dirty)
          /\ ~windows[id].layer /\ windows[id].lived => outputs = 0
      BY <1>1 DEF SurfacesSound, WindowsSound
    <2>3. PICK v : v = [windows[id] EXCEPT !.dirty = @ \/ ctx.dirty]
      OBVIOUS
    <2>4. windows'[id] = v /\ server'[id] = server[id]
      BY <1>1, <1>2, <2>3, CreateLemma
    <2>5. /\ v \in Win /\ v.painter = windows[id].painter /\ v.layer = windows[id].layer
          /\ v.lived = windows[id].lived /\ v.configured = windows[id].configured
          /\ v.frame = windows[id].frame /\ v.shows = windows[id].shows
          /\ v.dirty <=> windows[id].dirty \/ ctx.dirty
      BY <1>5, <2>1, <2>3, Marked
    <2>6. WinSound(id, v, server[id], events, FALSE)
      BY <2>2, <2>5 DEF WinSound
    <2> QED
      BY <2>1, <2>2, <2>4, <2>5, <2>6
  <1>7. ASSUME NEW id \in DOMAIN windows' \ DOMAIN windows
        PROVE  /\ windows'[id] \in Win /\ server'[id] \in Server /\ windows'[id].painter = vm
               /\ WinSound(id, windows'[id], server'[id], events, FALSE)
               /\ windows'[id].layer
    <2>1. PICK i \in 1 .. Len(ctx.pending) :
             /\ windows'[id] = [Mapped(Window(ctx.pending[i])) EXCEPT !.dirty = @ \/ ctx.dirty]
             /\ server'[id] = [Unknown EXCEPT !.state = "new"]
      BY <1>1, <1>2, CreateLemma
    <2>2. PICK w : w = Window(vm)
      OBVIOUS
    <2>3. w \in Win /\ w.painter = vm /\ ctx.pending[i] = vm
      BY <1>1, <1>5, <2>2 DEF Window, Win
    <2>4. PICK m : m = Mapped(w)
      OBVIOUS
    <2>5. PICK s : s = [Unknown EXCEPT !.state = "new"]
      OBVIOUS
    <2>6. /\ m \in Win /\ m.painter = vm /\ m.layer /\ ~m.configured /\ ~m.frame
          /\ s \in Server /\ s.state = "new"
      BY <2>3, <2>4, <2>5, MappedFacts
    <2>7. PICK v : v = [m EXCEPT !.dirty = @ \/ ctx.dirty]
      OBVIOUS
    <2>8. v \in Win /\ v.painter = vm /\ v.layer /\ ~v.configured /\ ~v.frame
      BY <1>5, <2>6, <2>7, Marked
    <2>9. windows'[id] = v /\ server'[id] = s
      BY <2>1, <2>2, <2>3, <2>4, <2>5, <2>7
    <2>10. \A what \in Whats : ~Has(events, what, id)
      BY <1>1, PlacedLemma DEF SurfacesTyped
    <2>11. WinSound(id, v, s, events, FALSE)
      BY <2>6, <2>8, <2>10 DEF WinSound, Whats
    <2> QED
      BY <2>6, <2>8, <2>9, <2>11
  <1>8. SurfacesTyped'
    <2>1. /\ nextId' \in Nat \ {0} /\ DOMAIN windows' \subseteq 1 .. nextId' - 1
          /\ DOMAIN windows \subseteq DOMAIN windows'
          /\ windows' = [id \in DOMAIN windows' |-> windows'[id]]
          /\ server' = [id \in DOMAIN windows' |-> server'[id]]
      BY <1>1, <1>2, CreateLemma
    <2>2. \A id \in DOMAIN windows' : windows'[id] \in Win /\ server'[id] \in Server
      BY <1>6, <1>7
    <2>3. windows' \in [DOMAIN windows' -> Win] /\ server' \in [DOMAIN windows' -> Server]
      BY <2>1, <2>2
    <2>4. events \in Seq(Ev) /\ Placed(events, DOMAIN windows')
      BY <1>1, <2>1, PlacedLemma DEF SurfacesTyped
    <2> QED
      BY <1>2, <2>1, <2>3, <2>4 DEF SurfacesTyped
  <1>9. SurfacesSound'
    <2>1. \A id \in DOMAIN windows' :
             /\ WinSound(id, windows'[id], server'[id], events, FALSE)
             /\ ~windows'[id].layer /\ windows'[id].lived => outputs = 0
      BY <1>6, <1>7
    <2>2. ctx'.dirty = FALSE
      BY <1>4 DEF Ctx
    <2> QED
      BY <1>1, <1>2, <2>1, <2>2 DEF SurfacesSound, WindowsSound
  <1>10. EngineSound'
    <2>1. \A id \in DOMAIN windows' : windows'[id].painter = vm
      BY <1>6, <1>7
    <2>2. \A cb \in callbacks' : cb.who = vm
      <3>1. \A n \in ctx.watches : n = vm
        BY <1>1 DEF Owned
      <3> QED
        BY <1>1, <1>2, <3>1 DEF EngineSound
    <2>3. ~late => Drained(ctx')
      BY <1>1, <1>2, <1>4 DEF EngineSound
    <2> QED
      BY <1>1, <1>2, <1>4, <2>1, <2>2, <2>3 DEF EngineSound
  <1> QED
    BY <1>1, <1>2, <1>4, <1>8, <1>9, <1>10 DEF ShellSound, Typed

LEMMA RedrawsShell ==
    ASSUME ShellSound, Redraws
    PROVE  ShellSound' /\ (ctx.reload => ctx'.reload)
  <1>1. /\ ctx \in Ctx /\ Owned(ctx, vm) /\ vm \in Nat /\ late \in BOOLEAN /\ SurfacesTyped /\ SurfacesSound
        /\ EngineSound
    BY ShellTypes DEF ShellSound
  <1>2. PICK drawn \in SUBSET Due :
           /\ FramesAsked(drawn)
           /\ ctx' \in IF Due = {} THEN {ctx} ELSE LuaDoes(ctx, vm)
           /\ windows' = Outdated(Redrawn(drawn), ctx')
    BY DEF Redraws
  <1>3. /\ stage \in {"redraw", "last"} /\ stage' \in {"over", "dispatch"} /\ late' = (late \/ ctx' # ctx)
        /\ UNCHANGED <<nextId, plugged, outputs, events, vm, latest, facade, callbacks>>
    BY DEF Redraws, watcher
  <1>4. /\ ctx' \in Ctx /\ (ctx.dirty => ctx'.dirty) /\ (ctx.reload => ctx'.reload) /\ Owned(ctx', vm)
    BY <1>1, <1>2, LuaDoesLemma
  <1>5. ctx.dirty \in BOOLEAN /\ ctx'.dirty \in BOOLEAN /\ late' \in BOOLEAN
    BY <1>1, <1>3, <1>4 DEF Ctx
  <1>6. PICK wins : wins = Redrawn(drawn)
    OBVIOUS
  <1>7. ASSUME NEW id \in DOMAIN windows
        PROVE  /\ wins[id] \in Win /\ wins[id].painter = windows[id].painter
               /\ wins[id].layer = windows[id].layer /\ wins[id].lived = windows[id].lived
               /\ wins[id].configured = windows[id].configured
               /\ id \notin Due => wins[id] = windows[id]
               /\ id \in Due => /\ ~wins[id].dirty /\ wins[id].shows
                                /\ wins[id].frame <=> id \in drawn
    <2>1. windows[id] \in Win
      BY <1>1, ServerFacts
    <2>2. CASE id \notin Due
      BY <1>6, <2>1, <2>2 DEF Redrawn
    <2>3. CASE id \in Due
      <3>1. PICK f \in BOOLEAN : f <=> id \in drawn
        OBVIOUS
      <3>2. f = (id \in drawn)
        BY <3>1
      <3>3. wins[id] = [windows[id] EXCEPT !.dirty = FALSE, !.shows = TRUE, !.frame = f, !.committed = TRUE]
        BY <1>6, <2>3, <3>2 DEF Redrawn
      <3> QED
        BY <2>1, <2>3, <3>1, <3>3 DEF Win
    <2> QED
      BY <2>2, <2>3
  <1>8. wins \in [DOMAIN windows -> Win]
    <2>1. wins = [id \in DOMAIN windows |-> wins[id]]
      BY <1>6 DEF Redrawn
    <2> QED
      BY <1>7, <2>1
  <1>9. /\ windows' \in [DOMAIN windows -> Win]
        /\ \A id \in DOMAIN windows : /\ SameButShows(windows'[id], wins[id])
                                      /\ ~windows'[id].shows => ~wins[id].shows \/ ctx'.dirty
    BY <1>2, <1>6, <1>8, OutdatedLemma
  <1>10. ASSUME NEW id \in DOMAIN windows
         PROVE  /\ server'[id] \in Server /\ server'[id].state = server[id].state
                /\ id \notin drawn => server'[id] = server[id]
                /\ id \in drawn /\ server[id].state = "up" => server'[id].frame
    <2>1. server[id] \in Server /\ id \in DOMAIN server
      BY <1>1, ServerFacts
    <2>2. server'[id] = IF id \in drawn /\ server[id].state = "up" THEN [server[id] EXCEPT !.frame = TRUE]
                        ELSE server[id]
      BY <1>2, <2>1 DEF FramesAsked
    <2> QED
      BY <2>1, <2>2 DEF Server
  <1>11. SurfacesTyped'
    <2>1. server' = [id \in DOMAIN windows |-> server'[id]]
      BY <1>1, <1>2 DEF FramesAsked, SurfacesTyped
    <2>2. server' \in [DOMAIN windows -> Server]
      BY <1>10, <2>1
    <2> QED
      BY <1>1, <1>3, <1>9, <2>2 DEF SurfacesTyped
  <1>12. ASSUME NEW id \in DOMAIN windows
         PROVE  /\ WinSound(id, windows'[id], server'[id], events, ctx'.dirty)
                /\ windows'[id].dirty /\ windows'[id].configured => windows'[id].frame
                /\ ~windows'[id].layer /\ windows'[id].lived => outputs = 0
    <2>1. /\ WinSound(id, windows[id], server[id], events, ctx.dirty)
          /\ ~windows[id].layer /\ windows[id].lived => outputs = 0
      BY <1>1 DEF SurfacesSound, WindowsSound
    <2>2. CASE id \notin Due
      <3>1. wins[id] = windows[id] /\ id \notin drawn /\ server'[id] = server[id]
        BY <1>7, <1>10, <2>2
      <3>2. windows[id].configured => windows[id].layer
        BY <2>1 DEF WinSound
      <3>3. windows[id].dirty /\ windows[id].configured => windows[id].frame
        BY <2>2, <3>2 DEF Due
      <3>4. WinSound(id, windows'[id], server'[id], events, ctx'.dirty)
        BY <1>4, <1>5, <1>9, <2>1, <3>1, ShowsLess
      <3> QED
        BY <1>9, <2>1, <3>1, <3>3, <3>4 DEF SameButShows
    <2>3. CASE id \in Due
      <3>1. windows[id].configured /\ windows[id].layer
        BY <2>3 DEF Due
      <3>2. /\ wins[id].configured /\ wins[id].layer /\ ~wins[id].dirty /\ wins[id].shows
            /\ wins[id].frame <=> id \in drawn
        BY <1>7, <2>3, <3>1
      <3>3. server[id].state \in {"up", "closed"}
        <4>1. server[id].state \in {"none", "new", "up", "closed"}
          BY <1>1, ServerFacts DEF Server
        <4> QED
          BY <2>1, <3>1, <4>1 DEF WinSound
      <3>4. WinSound(id, wins[id], server'[id], events, ctx'.dirty)
        BY <1>10, <2>1, <3>2, <3>3 DEF WinSound
      <3>5. WinSound(id, windows'[id], server'[id], events, ctx'.dirty)
        BY <1>5, <1>9, <3>4, ShowsLess
      <3> QED
        BY <1>9, <3>2, <3>5 DEF SameButShows
    <2> QED
      BY <2>2, <2>3
  <1>13. SurfacesSound'
    BY <1>1, <1>3, <1>9, <1>12 DEF SurfacesSound, WindowsSound
  <1>14. EngineSound'
    <2>1. \A id \in DOMAIN windows' : windows'[id].painter = vm
      BY <1>1, <1>7, <1>9 DEF EngineSound, SameButShows
    <2>2. ~late' => Drained(ctx')
      BY <1>1, <1>3 DEF EngineSound
    <2> QED
      BY <1>1, <1>3, <1>4, <2>1, <2>2 DEF EngineSound
  <1> QED
    BY <1>1, <1>3, <1>4, <1>5, <1>11, <1>13, <1>14 DEF ShellSound, Typed

LEMMA SurfacesShell ==
    ASSUME ShellSound, CompositorNext \/ WaylandNext, UNCHANGED <<engine, watcher>>
    PROVE  ShellSound'
  <1>1. Typed /\ EngineSound /\ SurfacesSound /\ UNCHANGED <<ctx, vm, late, facade, latest, callbacks>>
    BY DEF ShellSound, engine, watcher
  <1>2. /\ SurfacesTyped' /\ SurfacesSound' /\ (stage' = stage \/ stage' = "pass")
        /\ \A id \in DOMAIN windows' : windows'[id].painter = windows[id].painter
        /\ DOMAIN windows' \subseteq DOMAIN windows
    <2>1. CASE CompositorNext
      BY <1>1, <2>1, CompositorStep
    <2>2. CASE WaylandNext
      <3>1. DOMAIN windows' \subseteq DOMAIN windows
        BY <2>2 DEF WaylandNext, OnConfigure, OnFrame, OnScale, OnClosed, OnOutput, OnGone, MapWindows
      <3> QED
        BY <1>1, <2>2, <3>1, WaylandStep
    <2> QED
      BY <2>1, <2>2
  <1>3. Typed'
    BY <1>1, <1>2 DEF Typed
  <1>4. EngineSound'
    <2>1. \A id \in DOMAIN windows' : windows'[id].painter = vm
      BY <1>1, <1>2 DEF EngineSound
    <2> QED
      BY <1>1, <1>2, <2>1 DEF EngineSound
  <1> QED
    BY <1>2, <1>3, <1>4 DEF ShellSound

LEMMA ShellNext ==
    ASSUME ShellSound, WatcherSound, MoonshellNext
    PROVE  ShellSound'
  BY BootsShell, DiskShell, TimerFiresShell, ExecRepliesShell, SnapshotShell, InotifyReadyShell,
     RequestReloadShell, NoReloadShell, ReloadShell, DrainShell, RedrawsShell, SurfacesShell
     DEF MoonshellNext, SourceNext, TickNext

-----------------------------------------------------------------------------
(* A change of the configuration reaches Lua.                              *)

\* A full queue remembers that something was lost.
LEMMA QueuedLemma ==
    ASSUME inotify \in Seq(Change), NEW dir \in Dirs, NEW what \in {"lua", "file", "mkdir"},
           inotify' = Queued(Inotify(dir, what))
    PROVE  /\ inotify' \in Seq(Change)
           /\ \A any : Reported(any) => Reported(any)'
           /\ dir \in watched => Reported(what)' \/ Reported("overflow")'
           /\ dir \notin watched /\ inotify = <<>> => inotify' = <<>>
  <1>1. PICK e : e = [dir |-> dir, what |-> what]
    OBVIOUS
  <1>2. PICK evs : evs = Inotify(dir, what)
    OBVIOUS
  <1>3. e \in Change /\ e.what = what
    BY <1>1 DEF Change
  <1>4. evs \in Seq(Change) /\ (dir \in watched => evs = <<e>>) /\ (dir \notin watched => evs = <<>>)
    BY <1>1, <1>2, <1>3 DEF Inotify
  <1>5. MaxQueue \in Nat /\ Overflow \in Change /\ Overflow.what = "overflow"
    BY EngineBounds DEF Overflow, Change, Dirs
  <1>6. \A any : Reported(any) <=> \E i \in 1 .. Len(inotify) : inotify[i].what = any
    BY DEF Reported
  <1>7. CASE Len(inotify) + Len(evs) <= MaxQueue
    <2>1. inotify' = inotify \o evs /\ inotify' \in Seq(Change)
      BY <1>2, <1>4, <1>7 DEF Queued
    <2>2. /\ Len(inotify') = Len(inotify) + Len(evs) /\ Len(inotify) \in Nat /\ Len(evs) \in Nat
          /\ \A i \in 1 .. Len(inotify) : inotify'[i] = inotify[i]
          /\ \A i \in 1 .. Len(evs) : inotify'[i + Len(inotify)] = evs[i]
      BY <1>4, <2>1
    <2>3. \A i \in 1 .. Len(inotify) : i \in 1 .. Len(inotify')
      BY <2>2
    <2>4. \A any : Reported(any)' <=> \E i \in 1 .. Len(inotify') : inotify'[i].what = any
      <3>1. DOMAIN inotify' = 1 .. Len(inotify')
        BY <2>1
      <3> QED
        BY <3>1 DEF Reported
    <2>5. \A any : Reported(any) => Reported(any)'
      BY <1>6, <2>2, <2>3, <2>4
    <2>6. ASSUME dir \in watched
          PROVE  Reported(what)'
      <3>1. Len(evs) = 1 /\ evs[1] = e
        BY <1>4, <2>6
      <3>2. inotify'[1 + Len(inotify)] = e /\ 1 + Len(inotify) \in 1 .. Len(inotify')
        BY <2>2, <3>1
      <3> QED
        BY <1>3, <2>4, <3>2
    <2>7. dir \notin watched /\ inotify = <<>> => inotify' = <<>>
      BY <1>4, <2>1
    <2> QED
      BY <2>1, <2>5, <2>6, <2>7
  <1>8. CASE ~(Len(inotify) + Len(evs) <= MaxQueue) /\ Contains(inotify, Overflow)
    <2>1. inotify' = inotify
      BY <1>2, <1>8 DEF Queued
    <2>2. Reported("overflow")
      BY <1>5, <1>6, <1>8 DEF Contains
    <2>3. \A any : Reported(any)' <=> Reported(any)
      BY <2>1 DEF Reported
    <2> QED
      BY <2>1, <2>2, <2>3
  <1>9. CASE ~(Len(inotify) + Len(evs) <= MaxQueue) /\ ~Contains(inotify, Overflow)
    <2>1. inotify' = Append(inotify, Overflow)
      BY <1>2, <1>9 DEF Queued
    <2>2. /\ inotify' \in Seq(Change) /\ Len(inotify) \in Nat /\ Len(inotify') = Len(inotify) + 1
          /\ inotify'[Len(inotify) + 1] = Overflow
          /\ \A i \in 1 .. Len(inotify) : inotify'[i] = inotify[i]
      BY <1>5, <2>1
    <2>3. /\ \A i \in 1 .. Len(inotify) : i \in 1 .. Len(inotify')
          /\ Len(inotify) + 1 \in 1 .. Len(inotify')
      BY <2>2
    <2>4. \A any : Reported(any)' <=> \E i \in 1 .. Len(inotify') : inotify'[i].what = any
      BY <2>2 DEF Reported
    <2>5. \A any : Reported(any) => Reported(any)'
      BY <1>6, <2>2, <2>3, <2>4
    <2>6. Reported("overflow")'
      BY <1>5, <2>2, <2>3, <2>4
    <2>7. ~(dir \notin watched /\ inotify = <<>>)
      <3>1. Len(<<>>) = 0 /\ 0 + 0 <= MaxQueue
        BY <1>5
      <3> QED
        BY <1>4, <1>9, <3>1
    <2> QED
      BY <2>2, <2>5, <2>6, <2>7
  <1> QED
    BY <1>7, <1>8, <1>9

\* Nothing that Lua or the surfaces do makes a change due.
LEMMA WatcherStay ==
    ASSUME WatcherSound, UNCHANGED <<disk, loaded, missed, watched, inotify, callbacks, scheduled>>,
           ctx.reload => ctx'.reload, stage' = "boot" => stage = "boot"
    PROVE  WatcherSound'
  <1>1. \A any : Reported(any)' <=> Reported(any)
    BY DEF Reported
  <1> QED
    BY <1>1 DEF WatcherSound, StaleIsDue

LEMMA BootsWatcher ==
    ASSUME WatcherSound, Boots
    PROVE  WatcherSound'
  <1>1. \A any : Reported(any)' <=> Reported(any)
    BY DEF Reported, Boots
  <1>2. stage' # "boot" /\ (watched' # {} => "root" \in watched') /\ watched = {}
    BY DEF WatcherSound, Boots
  <1>3. UNCHANGED <<disk, loaded, missed, inotify, callbacks, scheduled, ctx>>
    BY DEF Boots, engine
  <1>4. StaleIsDue'
    BY <1>1, <1>3 DEF WatcherSound, StaleIsDue
  <1> QED
    BY <1>2, <1>3, <1>4 DEF WatcherSound

LEMMA WritesLuaWatcher ==
    ASSUME WatcherSound, WritesLua
    PROVE  WatcherSound'
  <1>1. PICK d \in Dirs : /\ disk' = [disk EXCEPT ![d] = @ + 1]
                          /\ inotify' = Queued(Inotify(d, "lua"))
                          /\ missed' = IF d \in watched THEN missed \ {d} ELSE missed \cup {d}
    BY DEF WritesLua, Dirs
  <1>2. UNCHANGED <<ctx, stage, loaded, watched, callbacks, scheduled>>
    BY DEF WritesLua, engine
  <1>3. /\ inotify' \in Seq(Change)
        /\ \A any : Reported(any) => Reported(any)'
        /\ d \in watched => Reported("lua")' \/ Reported("overflow")'
        /\ d \notin watched /\ inotify = <<>> => inotify' = <<>>
    BY <1>1, QueuedLemma DEF WatcherSound
  <1>4. /\ disk' \in [root : Nat, sub : Nat, file : Nat] /\ disk'.file = disk.file
        /\ \A e \in Dirs \ {d} : disk'[e] = disk[e]
    <2>1. disk \in [root : Nat, sub : Nat, file : Nat]
      BY DEF WatcherSound
    <2>2. CASE d = "root"
      BY <1>1, <2>1, <2>2 DEF Dirs
    <2>3. CASE d = "sub"
      BY <1>1, <2>1, <2>3 DEF Dirs
    <2> QED
      BY <2>2, <2>3 DEF Dirs
  <1>5. \A e \in Dirs \ missed' : (e = d /\ d \in watched) \/ e \in Dirs \ ({d} \cup missed)
    BY <1>1
  <1>6. StaleIsDue'
    BY <1>2, <1>3, <1>4, <1>5 DEF WatcherSound, StaleIsDue, Dirs
  <1>7. watched # {} \/ callbacks # {} \/ inotify' # <<>> => "root" \in watched
    BY <1>3 DEF WatcherSound
  <1> QED
    BY <1>2, <1>3, <1>4, <1>6, <1>7 DEF WatcherSound

LEMMA WritesFileWatcher ==
    ASSUME WatcherSound, WritesFile
    PROVE  WatcherSound'
  <1>1. disk' = [disk EXCEPT !.file = @ + 1] /\ inotify' = Queued(Inotify("root", "file"))
    BY DEF WritesFile
  <1>2. UNCHANGED <<ctx, stage, loaded, missed, watched, callbacks, scheduled>>
    BY DEF WritesFile, engine
  <1>3. /\ inotify' \in Seq(Change)
        /\ \A any : Reported(any) => Reported(any)'
        /\ "root" \in watched => Reported("file")' \/ Reported("overflow")'
        /\ "root" \notin watched /\ inotify = <<>> => inotify' = <<>>
    BY <1>1, QueuedLemma DEF WatcherSound, Dirs
  <1>4. /\ disk' \in [root : Nat, sub : Nat, file : Nat]
        /\ \A e \in {"root", "sub"} : disk'[e] = disk[e]
    BY <1>1 DEF WatcherSound
  <1>5. StaleIsDue'
    BY <1>2, <1>3, <1>4 DEF WatcherSound, StaleIsDue
  <1> QED
    BY <1>2, <1>3, <1>4, <1>5 DEF WatcherSound

LEMMA MakesDirWatcher ==
    ASSUME WatcherSound, MakesDir
    PROVE  WatcherSound'
  <1>1. /\ disk' = [disk EXCEPT !.sub = 1] /\ inotify' = Queued(Inotify("root", "mkdir"))
        /\ missed' = missed \cup {"sub"}
    BY DEF MakesDir
  <1>2. UNCHANGED <<ctx, stage, loaded, watched, callbacks, scheduled>>
    BY DEF MakesDir, engine
  <1>3. /\ inotify' \in Seq(Change)
        /\ \A any : Reported(any) => Reported(any)'
        /\ "root" \notin watched /\ inotify = <<>> => inotify' = <<>>
    BY <1>1, QueuedLemma DEF WatcherSound, Dirs
  <1>4. /\ disk' \in [root : Nat, sub : Nat, file : Nat]
        /\ disk'["root"] = disk["root"] /\ disk'.file = disk.file
    BY <1>1 DEF WatcherSound
  <1>5. StaleIsDue'
    BY <1>1, <1>2, <1>3, <1>4 DEF WatcherSound, StaleIsDue
  <1> QED
    BY <1>2, <1>3, <1>4, <1>5 DEF WatcherSound

LEMMA InotifyReadyWatcher ==
    ASSUME WatcherSound, InotifyReady, ctx.reload => ctx'.reload
    PROVE  WatcherSound'
  <1>1. /\ inotify # <<>> /\ inotify' = <<>> /\ stage' # "boot"
        /\ scheduled' = (scheduled \/ Reported("lua") \/ Reported("overflow"))
        /\ UNCHANGED <<disk, loaded, missed>>
    BY DEF InotifyReady, Handles, NeedsReload
  <1>2. watched \subseteq watched' /\ "root" \in watched
    BY DEF InotifyReady, WatcherSound
  <1>3. /\ callbacks' \subseteq [who : Nat, seen : Nat]
        /\ (callbacks' = callbacks /\ (Reported("file") => callbacks = {}))
              \/ \A cb \in callbacks' : cb.seen = disk.file
    <2>1. callbacks \subseteq [who : Nat, seen : Nat] /\ disk.file \in Nat
      BY DEF WatcherSound
    <2>2. CASE Reported("file") /\ callbacks # {}
      <3>1. callbacks' = {[cb EXCEPT !.seen = disk.file] : cb \in callbacks}
        BY <2>2 DEF InotifyReady
      <3>2. \A cb \in callbacks : /\ [cb EXCEPT !.seen = disk.file] \in [who : Nat, seen : Nat]
                                  /\ [cb EXCEPT !.seen = disk.file].seen = disk.file
        BY <2>1
      <3> QED
        BY <3>1, <3>2
    <2>3. CASE ~(Reported("file") /\ callbacks # {})
      <3>1. callbacks' = callbacks
        BY <2>3 DEF InotifyReady
      <3> QED
        BY <2>1, <2>3, <3>1
    <2> QED
      BY <2>2, <2>3
  <1>4. StaleIsDue'
    BY <1>1, <1>3 DEF WatcherSound, StaleIsDue
  <1>5. inotify' \in Seq(Change)
    BY <1>1
  <1> QED
    BY <1>1, <1>2, <1>3, <1>4, <1>5 DEF WatcherSound

LEMMA RequestReloadWatcher ==
    ASSUME WatcherSound, RequestReload, ctx \in Ctx
    PROVE  WatcherSound'
  <1>1. ctx'.reload
    BY DEF RequestReload, Ctx
  <1> QED
    BY <1>1 DEF RequestReload, Handles, WatcherSound, StaleIsDue

LEMMA ReloadWatcher ==
    ASSUME WatcherSound, Reload
    PROVE  WatcherSound'
  <1>1. /\ UNCHANGED <<disk, inotify, watched>> /\ callbacks' = {} /\ stage' # "boot"
        /\ (loaded' = disk \/ missed' = {"root", "sub"})
    BY DEF Reload
  <1>2. StaleIsDue'
    BY <1>1 DEF StaleIsDue
  <1> QED
    BY <1>1, <1>2 DEF WatcherSound

LEMMA DrainWatcher ==
    ASSUME WatcherSound, Drain, ctx \in Ctx
    PROVE  WatcherSound'
  <1>1. /\ UNCHANGED <<disk, loaded, missed, watched, inotify, scheduled>> /\ stage' # "boot"
        /\ callbacks' = IF watched = {} THEN callbacks
                        ELSE callbacks \cup {[who |-> n, seen |-> disk.file] : n \in ctx.watches}
    BY DEF Drain
  <1>2. ctx'.reload = ctx.reload
    BY DEF Drain, Ctx
  <1>3. callbacks' \subseteq [who : Nat, seen : Nat] /\ \A cb \in callbacks' : cb \in callbacks \/ cb.seen = disk.file
    <2>1. disk.file \in Nat /\ ctx.watches \subseteq Nat /\ callbacks \subseteq [who : Nat, seen : Nat]
      BY DEF WatcherSound, Ctx
    <2> QED
      BY <1>1, <2>1
  <1>4. callbacks' # {} => callbacks # {} \/ watched # {}
    BY <1>1
  <1>5. \A any : Reported(any)' <=> Reported(any)
    BY <1>1 DEF Reported
  <1>6. StaleIsDue'
    BY <1>1, <1>2, <1>3, <1>5 DEF WatcherSound, StaleIsDue
  <1> QED
    BY <1>1, <1>3, <1>4, <1>6 DEF WatcherSound

LEMMA WatcherNext ==
    ASSUME ShellSound, WatcherSound, MoonshellNext
    PROVE  WatcherSound'
  <1>1. ctx \in Ctx
    BY ShellTypes
  <1>2. CASE Boots
    BY <1>2, BootsWatcher
  <1>3. CASE DiskNext
    BY <1>3, WritesLuaWatcher, WritesFileWatcher, MakesDirWatcher DEF DiskNext
  <1>4. CASE TimerFires
    <2>1. ctx.reload => ctx'.reload
      BY <1>4, TimerFiresShell
    <2> QED
      BY <1>4, <2>1, WatcherStay DEF TimerFires, Handles, watcher
  <1>5. CASE ExecReplies
    <2>1. ctx.reload => ctx'.reload
      BY <1>5, ExecRepliesShell
    <2> QED
      BY <1>5, <2>1, WatcherStay DEF ExecReplies, Handles, watcher
  <1>6. CASE Snapshot
    <2>1. ctx.reload => ctx'.reload
      BY <1>6, SnapshotShell
    <2> QED
      BY <1>6, <2>1, WatcherStay DEF Snapshot, Handles, watcher
  <1>7. CASE InotifyReady
    <2>1. ctx.reload => ctx'.reload
      BY <1>7, InotifyReadyShell
    <2> QED
      BY <1>7, <2>1, InotifyReadyWatcher
  <1>8. CASE RequestReload
    BY <1>1, <1>8, RequestReloadWatcher
  <1>9. CASE NoReload
    BY <1>9, WatcherStay DEF NoReload, watcher
  <1>10. CASE Reload
    BY <1>10, ReloadWatcher
  <1>11. CASE Drain
    BY <1>1, <1>11, DrainWatcher
  <1>12. CASE Redraws
    <2>1. ctx.reload => ctx'.reload
      BY <1>12, RedrawsShell
    <2> QED
      BY <1>12, <2>1, WatcherStay DEF Redraws, watcher
  <1>13. CASE (CompositorNext \/ WaylandNext) /\ UNCHANGED <<engine, watcher>>
    <2>1. stage' = stage \/ stage' = "pass"
      BY <1>13 DEF CompositorNext, Configures, Presents, Rescales, Closes, Plugs, Unplugs, WaylandNext,
         OnConfigure, OnFrame, OnScale, OnClosed, OnOutput, OnGone, Takes, Handles
    <2> QED
      BY <1>13, <2>1, WatcherStay DEF engine, watcher
  <1> QED
    BY <1>2, <1>3, <1>4, <1>5, <1>6, <1>7, <1>8, <1>9, <1>10, <1>11, <1>12, <1>13
       DEF MoonshellNext, SourceNext, TickNext

-----------------------------------------------------------------------------
(* The theorems.                                                           *)

LEMMA ShellInit ==
    ASSUME MoonshellInit
    PROVE  MoonshellInd
  <1>1. /\ windows = <<>> /\ nextId = 1 /\ server = <<>> /\ plugged \in {0, 1} /\ outputs = plugged
        /\ events = <<>> /\ vm = 1 /\ ctx \in LuaDoes(EmptyCtx, 1) /\ late = FALSE
        /\ latest = 0 /\ facade = 0
        /\ disk \in [root : {1}, sub : {0, 1}, file : {1}] /\ loaded = disk
        /\ watched = {} /\ inotify = <<>> /\ callbacks = {} /\ stage = "boot"
    BY DEF MoonshellInit, SurfacesInit
  <1>2. EmptyCtx \in Ctx /\ Owned(EmptyCtx, 1)
    <2>1. <<>> \in Seq(Nat) /\ Len(<<>>) = 0
      OBVIOUS
    <2> QED
      BY <2>1 DEF EmptyCtx, Ctx, Owned
  <1>3. ctx \in Ctx /\ Owned(ctx, 1)
    BY <1>1, <1>2, LuaDoesLemma
  <1>4. Typed
    <2>1. <<>> \in Seq(Ev) /\ Len(<<>>) = 0 /\ DOMAIN <<>> = {}
      OBVIOUS
    <2>2. DOMAIN windows = {} /\ windows \in [{} -> Win] /\ server \in [{} -> Server]
      BY <1>1
    <2>3. Placed(events, {})
      BY <1>1, <2>1 DEF Placed
    <2>4. events \in Seq(Ev) /\ nextId \in Nat \ {0} /\ {} \subseteq 1 .. nextId - 1
      BY <1>1, <2>1
    <2>5. SurfacesTyped
      BY <2>2, <2>3, <2>4 DEF SurfacesTyped
    <2> QED
      BY <1>1, <1>3, <2>5 DEF Typed
  <1>5. EngineSound
    BY <1>1, <1>3 DEF EngineSound
  <1>6. SurfacesSound
    <2>1. Len(events) = 0 /\ outputs \in Nat
      BY <1>1
    <2>2. Count(events, "output", 0) = 0 /\ Count(events, "gone", 0) = 0
      BY CountOne
    <2>3. Balanced(events, outputs, plugged)
      BY <1>1, <2>1, <2>2 DEF Balanced, Known
    <2> QED
      BY <1>1, <2>3 DEF SurfacesSound, WindowsSound
  <1>7. WatcherSound
    BY <1>1 DEF WatcherSound, StaleIsDue
  <1> QED
    BY <1>4, <1>5, <1>6, <1>7 DEF MoonshellInd, ShellSound

\* The inductive invariant, for every bound.
THEOREM MoonshellInductive == MoonshellSpec => []MoonshellInd
  <1>1. MoonshellInit => MoonshellInd
    BY ShellInit
  <1>2. MoonshellInd /\ [MoonshellNext]_shell => MoonshellInd'
    <2>1. CASE MoonshellNext
      BY <2>1, ShellNext, WatcherNext DEF MoonshellInd
    <2>2. CASE UNCHANGED shell
      <3>1. UNCHANGED <<windows, nextId, server, plugged, outputs, events, stage, vm, ctx, late, latest, facade,
                        disk, loaded, missed, watched, inotify, callbacks, scheduled>>
        BY <2>2 DEF shell, surfaces, engine, watcher
      <3>2. ASSUME MoonshellInd
            PROVE  MoonshellInd'
        <4>1. Typed'
          BY <3>1, <3>2 DEF MoonshellInd, ShellSound, Typed, SurfacesTyped
        <4>2. EngineSound'
          BY <3>1, <3>2 DEF MoonshellInd, ShellSound, EngineSound
        <4>3. SurfacesSound'
          BY <3>1, <3>2 DEF MoonshellInd, ShellSound, SurfacesSound, WindowsSound
        <4>4. WatcherSound'
          BY <3>1, <3>2, WatcherStay DEF MoonshellInd
        <4> QED
          BY <4>1, <4>2, <4>3, <4>4 DEF MoonshellInd, ShellSound
      <3> QED
        BY <3>2
    <2> QED
      BY <2>1, <2>2
  <1> QED
    BY <1>1, <1>2, PTL DEF MoonshellSpec

\* A reload leaves nothing of the old VM that could run or paint, and the loop
\* does not block on what Lua asked for, unless it asked too late
\* (main.rs, Engine::tick; api.rs:6-9).
THEOREM EngineTheorem == MoonshellSpec => []EngineInv
  <1>1. MoonshellInd => EngineInv
    <2>1. ASSUME MoonshellInd
          PROVE  EngineInv
      <3>1. EngineSound /\ ctx.pending \in Seq(Nat)
        BY <2>1 DEF MoonshellInd, ShellSound, Typed, Ctx
      <3>2. DOMAIN ctx.pending = 1 .. Len(ctx.pending)
        BY <3>1
      <3> QED
        BY <3>1, <3>2 DEF EngineSound, EngineInv, Owned, Drained
    <2> QED
      BY <2>1
  <1> QED
    BY <1>1, MoonshellInductive, PTL

\* A change of the configuration or of a watched file is never forgotten,
\* however small the queue of inotify (watcher.rs, Watcher::process).
THEOREM StaleTheorem == MoonshellSpec => []StaleIsDue
  <1>1. MoonshellInd => StaleIsDue
    BY DEF MoonshellInd, WatcherSound
  <1> QED
    BY <1>1, MoonshellInductive, PTL

\* No window waits for a frame that will not come, none is left without the
\* newest content, and what lost its surface is mapped again while there is an
\* output (moonshell-surface, whatever the compositor does and in what order).
THEOREM SurfacesTheorem == MoonshellSpec => []SurfacesInv
  <1>1. MoonshellInd => SurfacesInv
    <2>1. ASSUME MoonshellInd
          PROVE  SurfacesInv
      <3>1. SurfacesSound /\ events \in Seq(Ev)
        BY <2>1 DEF MoonshellInd, ShellSound, Typed, SurfacesTyped
      <3>2. \A what, id : Coming(what, id) <=> Has(events, what, id)
        BY <3>1 DEF Coming, Has
      <3>3. ASSUME NEW id \in DOMAIN windows
            PROVE  LET w == windows[id]
                       closing == Coming("closed", id)
                   IN  /\ w.frame => server[id].frame \/ Coming("frame", id) \/ closing
                       /\ w.layer /\ ~w.shows =>
                              \/ w.dirty \/ ctx.dirty \/ closing
                              \/ ~w.configured /\ (server[id].state = "new" \/ Coming("configure", id))
                       /\ stage = "dispatch" /\ w.dirty /\ w.configured => w.frame
                       /\ ~w.layer /\ w.lived => outputs = 0
        <4>1. /\ WinSound(id, windows[id], server[id], events, ctx.dirty)
              /\ stage = "dispatch" /\ windows[id].dirty /\ windows[id].configured => windows[id].frame
              /\ ~windows[id].layer /\ windows[id].lived => outputs = 0
          BY <3>1 DEF SurfacesSound, WindowsSound
        <4> QED
          BY <3>2, <4>1 DEF WinSound
      <3> QED
        BY <3>3 DEF SurfacesInv, SurfacesSettle
    <2> QED
      BY <2>1
  <1> QED
    BY <1>1, MoonshellInductive, PTL

-----------------------------------------------------------------------------
(* The process supervisor.                                                 *)

\* The children and the tables about them have their types.
ChildrenTyped ==
    /\ Running \subseteq Ids
    /\ services \in [Running -> Service]
    /\ onceRuns \in [Ids -> 0 .. MaxGeneration]
    /\ suppressed \in [Ids -> 0 .. MaxGeneration]
    /\ detached \subseteq Pids
    /\ timer \in {"armed", "none", "refused"}
    /\ procs \in [Pids -> {"free", "running"} \cup Exited]
    /\ ran \in [Ids -> Nat]

\* A service with a child is not given up, and no entry remembers a generation
\* that is still to come or more runs than generations.
Bookkeeping ==
    /\ \A id \in Running : suppressed[id] = 0
    /\ \A id \in Ids : /\ suppressed[id] <= generation
                       /\ onceRuns[id] <= generation
                       /\ ran[id] <= onceRuns[id]

\* Nothing is declared and nothing runs before the configuration is loaded.
Booted ==
    /\ phase = "boot" => /\ generation = 0 /\ Running = {}
                         /\ manifest = [id \in Ids |-> NoDecl] /\ builtins = {}
    /\ phase # "boot" => generation > 0

\* The inductive invariant: what a reconciliation reads and establishes, then
\* the rest of the state.
ChildrenInv == ChildrenTyped /\ NoLostChild /\ Supervised /\ Bookkeeping
Inv == TypeOK /\ ChildrenInv /\ FollowsManifest /\ Booted

Decl == ProcessDecl \cup {NoDecl}

\* The services svcs and those given up are as the manifest d asks in generation gen.
Follows(svcs, givenUp, d, gen) ==
    /\ \A id \in DOMAIN svcs :
          /\ svcs[id].decl = d[id]
          /\ d[id].reload = "AlwaysRestart" => svcs[id].started = gen
    /\ \A id \in Ids \ DOMAIN svcs : d[id].kind = "service" => givenUp[id] = gen

-----------------------------------------------------------------------------
(* What one reconciliation establishes.                                    *)

\* A fork per starter: c maps them to different processes of free.
LEMMA ChildrenLemma ==
    ASSUME NEW up, NEW free, NEW c \in Children(up, free)
    PROVE  /\ c \in [up -> free]
           /\ \A i, j \in up : c[i] = c[j] => i = j
  BY DEF Children

\* Reconciliation keeps the children's invariant and makes them follow the
\* manifest, however many entries it stops and starts and whichever forks fail.
LEMMA ReconcileLemma ==
    ASSUME ProcessAssumption, ChildrenInv,
           NEW d \in [Ids -> Decl],
           NEW gen \in 1 .. MaxGeneration,
           generation \in Nat, generation <= gen, generation' = gen,
           NEW extra \in SUBSET Idle,
           Reconcile(d, gen, extra)
    PROVE  ChildrenInv' /\ Follows(services', suppressed', d, gen)
  <1> DEFINE kept == Kept(d, gen)
             stopped == Stopped(d, gen)
             killed == Killed(stopped)
             sdue == ServiceDue(d, gen)
             odue == OnceDue(d, gen)
             Outcome(up, child) ==
                /\ services' = [id \in kept \cup (up \cap sdue) |->
                       IF id \in kept THEN services[id]
                       ELSE [decl |-> d[id], child |-> child[id], started |-> gen]]
                /\ suppressed' = [id \in Ids |->
                       IF id \in sdue \ up THEN gen
                       ELSE IF id \in (up \cap sdue) \cup stopped THEN 0
                       ELSE suppressed[id]]
                /\ onceRuns' = Record(up \cap odue, gen)
                /\ ran' = [id \in Ids |-> IF id \in up \cap odue THEN ran[id] + 1 ELSE ran[id]]
                /\ detached' = detached \cup extra \cup {child[id] : id \in up \cap odue}
                /\ procs' = Forked(Reaped(procs, killed), extra \cup {child[id] : id \in up})
                /\ EnsureTimer
  <1>0. PICK up \in SUBSET (sdue \cup odue) :
          \E child \in Children(up, (Idle \cup killed) \ extra) : Outcome(up, child)
    BY DEF Reconcile
  <1>1. PICK child \in Children(up, (Idle \cup killed) \ extra) : Outcome(up, child)
    BY <1>0
  <1> DEFINE started == up \cap sdue
             onces == up \cap odue
  <1>2. /\ kept \subseteq Running /\ stopped = Running \ kept
        /\ sdue \subseteq Ids \ kept /\ odue \subseteq Ids
        /\ \A id \in sdue : d[id].kind = "service" /\ (id \in Running \/ suppressed[id] # gen)
        /\ \A id \in odue : d[id].kind = "once" /\ (onceRuns[id] = 0 \/ onceRuns[id] # gen)
        /\ \A id \in Ids \ kept : d[id].kind = "service" =>
              id \in sdue \/ (id \notin Running /\ suppressed[id] = gen)
    BY DEF Kept, Stopped, ServiceDue, OnceDue, ChildrenInv, ChildrenTyped
  <1>3. killed = {services[id].child : id \in stopped}
    BY DEF Killed
  <1>4. /\ child \in [up -> (Idle \cup killed) \ extra]
        /\ \A i, j \in up : child[i] = child[j] => i = j
    BY ChildrenLemma
  <1>5. \A id \in kept : /\ services[id].decl = d[id]
                         /\ d[id].reload = "AlwaysRestart" => services[id].started = gen
    BY DEF Kept, Keeps
  <1>6. \A id \in sdue : d[id] \in ServiceDecl
    BY <1>2 DEF Decl, ProcessDecl, Once, NoDecl
  <1>7. \A id \in Running : services[id].child \in Pids
    BY DEF ChildrenInv, ChildrenTyped, Service
  <1>8. killed \subseteq Pids /\ extra \subseteq Pids
    <2>1. \A id \in stopped : services[id].child \in Pids
      BY <1>2, <1>7
    <2> HIDE DEF stopped, killed
    <2> QED BY <1>3, <2>1 DEF Idle
  <1>9. /\ \A id \in up : child[id] \in Pids /\ child[id] \notin extra
        /\ \A id \in up : child[id] \notin killed => procs[child[id]] = "free"
        /\ \A p \in extra : procs[p] = "free"
    BY <1>4, <1>8 DEF Idle
  <1> HIDE DEF kept, stopped, killed, sdue, odue
  <1>10. /\ DOMAIN services' = kept \cup started
         /\ \A id \in kept : services'[id] = services[id]
         /\ \A id \in started :
               /\ services'[id].decl = d[id]
               /\ services'[id].child = child[id]
               /\ services'[id].started = gen
    BY <1>1, <1>2
  <1>11. ChildrenTyped'
    <2>1. DOMAIN services' \subseteq Ids
      BY <1>2, <1>10 DEF ChildrenInv, ChildrenTyped
    <2>2. services' \in [DOMAIN services' -> Service]
      <3>1. \A id \in kept : services[id] \in Service
        BY <1>2 DEF ChildrenInv, ChildrenTyped
      <3>2. \A id \in started : [decl |-> d[id], child |-> child[id], started |-> gen] \in Service
        BY <1>6, <1>9 DEF Service
      <3> QED BY <1>1, <1>10, <3>1, <3>2
    <2>3. onceRuns' \in [Ids -> 0 .. MaxGeneration]
      BY <1>1, <1>2, ProcessAssumption DEF Record, ChildrenInv, ChildrenTyped, ProcessAssumption
    <2>4. suppressed' \in [Ids -> 0 .. MaxGeneration]
      BY <1>1, ProcessAssumption DEF ChildrenInv, ChildrenTyped, ProcessAssumption
    <2>5. detached' \subseteq Pids
      BY <1>1, <1>8, <1>9 DEF ChildrenInv, ChildrenTyped
    <2>6. timer' \in {"armed", "none", "refused"}
      BY <1>1 DEF EnsureTimer, ChildrenInv, ChildrenTyped
    <2>7. procs' \in [Pids -> {"free", "running"} \cup Exited]
      BY <1>1 DEF Forked, Reaped, ChildrenInv, ChildrenTyped
    <2>8. ran' \in [Ids -> Nat]
      BY <1>1 DEF ChildrenInv, ChildrenTyped
    <2> QED BY <2>1, <2>2, <2>3, <2>4, <2>5, <2>6, <2>7, <2>8 DEF ChildrenTyped, Running
  <1>12. NoLostChild'
    <2>1. \A id \in kept : services'[id].child = services[id].child
      BY <1>10
    <2>2. \A id \in started : services'[id].child = child[id]
      BY <1>10
    <2>3. up = started \cup onces
      BY <1>1
    <2>4. \A p \in Pids : procs'[p] # "free" <=>
             \/ p \in extra \/ (\E id \in up : p = child[id])
             \/ p \notin killed /\ procs[p] # "free"
      BY <1>1 DEF Forked, Reaped
    <2>5. /\ \A p \in Pids : procs[p] # "free" <=>
                p \in detached \/ \E id \in Running : p = services[id].child
          /\ \A id \in Running : services[id].child \notin detached
          /\ \A i, j \in Running : services[i].child = services[j].child => i = j
      BY DEF ChildrenInv, NoLostChild
    <2>6. \A id \in kept : services[id].child \notin killed /\ services[id].child \notin extra
      BY <1>2, <1>3, <1>7, <1>9, <2>5
    <2>7. \A p \in detached : p \in Pids /\ p \notin killed /\ p \notin extra
      BY <1>2, <1>3, <1>9, <2>5 DEF ChildrenInv, ChildrenTyped
    <2>8. \A id \in up : /\ child[id] \notin detached
                         /\ \A i \in kept : child[id] # services[i].child
      BY <1>2, <1>7, <1>9, <2>5, <2>6, <2>7
    <2>9. \A p \in Pids : (p \notin killed /\ procs[p] # "free") <=>
             p \in detached \/ \E id \in kept : p = services[id].child
      BY <1>2, <1>3, <2>5, <2>6, <2>7
    <2>10. \A p \in Pids : procs'[p] # "free" <=>
             p \in detached' \/ \E id \in DOMAIN services' : p = services'[id].child
      <3> SUFFICES ASSUME NEW p \in Pids
                   PROVE  procs'[p] # "free" <=>
                      p \in detached' \/ \E id \in DOMAIN services' : p = services'[id].child
        OBVIOUS
      <3>1. p \in detached' <=> \/ p \in detached \/ p \in extra
                              \/ \E id \in onces : p = child[id]
        BY <1>1
      <3>2. (\E id \in DOMAIN services' : p = services'[id].child) <=>
               \/ \E id \in kept : p = services[id].child
               \/ \E id \in started : p = child[id]
        BY <1>10, <2>1, <2>2
      <3>3. (\E id \in up : p = child[id]) <=>
               (\E id \in onces : p = child[id]) \/ (\E id \in started : p = child[id])
        BY <2>3
      <3> QED BY <2>4, <2>9, <3>1, <3>2, <3>3
    <2>11. \A id \in DOMAIN services' : services'[id].child \notin detached'
      <3>1. \A id \in kept : services[id].child \notin detached'
        BY <1>1, <1>2, <2>5, <2>6, <2>8
      <3>2. \A id \in started : child[id] \notin detached'
        <4> SUFFICES ASSUME NEW id \in started PROVE child[id] \notin detached'
          OBVIOUS
        <4>1. id \notin onces
          BY <1>2
        <4>2. \A j \in onces : child[id] # child[j]
          BY <1>4, <4>1
        <4> QED BY <1>1, <1>9, <2>8, <4>2
      <3> QED BY <1>10, <2>1, <2>2, <3>1, <3>2
    <2>12. \A i, j \in DOMAIN services' :
              services'[i].child = services'[j].child => i = j
      BY <1>2, <1>4, <1>10, <2>1, <2>2, <2>5, <2>8
    <2> QED BY <2>10, <2>11, <2>12 DEF NoLostChild, Running
  <1>13. Supervised'
    BY <1>1 DEF EnsureTimer, Supervised, ChildrenInv, Running
  <1>14. Bookkeeping'
    <2>1. \A id \in DOMAIN services' : suppressed'[id] = 0
      BY <1>1, <1>2, <1>10 DEF ChildrenInv, ChildrenTyped, Bookkeeping
    <2>2. \A id \in Ids : suppressed'[id] <= gen
      BY <1>1 DEF ChildrenInv, ChildrenTyped, Bookkeeping
    <2>3. \A id \in Ids : onceRuns'[id] <= gen /\ ran'[id] <= onceRuns'[id]
      <3> SUFFICES ASSUME NEW id \in Ids
                   PROVE  onceRuns'[id] <= gen /\ ran'[id] <= onceRuns'[id]
        OBVIOUS
      <3>1. /\ onceRuns[id] \in Nat /\ ran[id] \in Nat
            /\ onceRuns[id] <= generation /\ ran[id] <= onceRuns[id]
        BY DEF ChildrenInv, ChildrenTyped, Bookkeeping
      <3>2. CASE id \in onces
        <4>1. ran[id] + 1 <= gen
          BY <1>2, <3>1, <3>2
        <4> QED BY <1>1, <3>2, <4>1 DEF Record
      <3>3. CASE id \notin onces
        <4>1. onceRuns'[id] = onceRuns[id] /\ ran'[id] = ran[id]
          BY <1>1, <3>3 DEF Record
        <4> QED BY <3>1, <4>1
      <3> QED BY <3>2, <3>3
    <2> QED BY <2>1, <2>2, <2>3 DEF Bookkeeping, Running
  <1>15. Follows(services', suppressed', d, gen)
    <2>1. \A id \in DOMAIN services' :
             /\ services'[id].decl = d[id]
             /\ d[id].reload = "AlwaysRestart" => services'[id].started = gen
      BY <1>5, <1>10
    <2>2. \A id \in Ids \ DOMAIN services' : d[id].kind = "service" => suppressed'[id] = gen
      <3> SUFFICES ASSUME NEW id \in Ids \ DOMAIN services', d[id].kind = "service"
                   PROVE  suppressed'[id] = gen
        OBVIOUS
      <3>1. id \notin kept /\ id \notin started
        BY <1>10
      <3>2. CASE id \in sdue
        BY <1>1, <3>1, <3>2
      <3>3. CASE id \notin sdue
        <4>1. id \notin Running /\ suppressed[id] = gen
          BY <1>2, <3>1, <3>3
        <4> QED BY <1>1, <1>2, <3>1, <3>3, <4>1
      <3> QED BY <3>2, <3>3
    <2> QED BY <2>1, <2>2 DEF Follows
  <1> QED BY <1>11, <1>12, <1>13, <1>14, <1>15 DEF ChildrenInv
-----------------------------------------------------------------------------
(* Every handler keeps the invariant.                                      *)

\* Built-in entries and the user's make a manifest.
LEMMA DesiredType ==
    ASSUME NEW m \in [Ids -> Decl], NEW b \in SUBSET Ids
    PROVE  Desired(m, b) \in [Ids -> Decl]
  BY DEF Desired, Decl, ProcessDecl, Once, SessionUnits, RunPolicy

LEMMA ManifestType ==
    ASSUME ProcessAssumption
    PROVE  Manifests \subseteq [Ids -> Decl] /\ BuiltinIds \subseteq Ids
  BY DEF Manifests, Decl, ProcessAssumption

LEMMA InitInv == ASSUME ProcessAssumption, Init PROVE Inv
  <1>1. /\ DOMAIN services = {} /\ Running = {}
        /\ generation = 0
    BY DEF Init, Running
  <1>2. services \in [Running -> Service]
    BY <1>1 DEF Init, Running
  <1>3. TypeOK
    BY <1>1, <1>2 DEF Init, TypeOK, Manifests, ProcessAssumption, Exited
  <1>4. ChildrenInv
    BY <1>1, <1>2, <1>3 DEF Init, TypeOK, ChildrenInv, ChildrenTyped, NoLostChild, Supervised,
       Bookkeeping
  <1> QED BY <1>1, <1>3, <1>4 DEF Init, Inv, FollowsManifest, Booted

\* A handler that installs a manifest and then reconciles keeps the invariant.
LEMMA ReconciledInv ==
    ASSUME ProcessAssumption, Inv,
           phase' \in {"loaded", "running"},
           manifest' \in Manifests, builtins' \subseteq BuiltinIds,
           generation' \in 1 .. MaxGeneration, generation <= generation',
           NEW extra \in SUBSET Idle,
           Reconcile(Desired(manifest', builtins'), generation', extra)
    PROVE  Inv'
  <1> DEFINE d == Desired(manifest', builtins')
             gen == generation'
  <1>1. d \in [Ids -> Decl]
    BY DesiredType, ManifestType
  <1>2. gen \in 1 .. MaxGeneration /\ generation \in Nat /\ generation <= gen /\ generation' = gen
    BY DEF Inv, TypeOK
  <1>3. ChildrenInv /\ Reconcile(d, gen, extra)
    BY DEF Inv
  <1> HIDE DEF gen
  <1>4. ChildrenInv' /\ Follows(services', suppressed', d, gen)
    BY <1>1, <1>2, <1>3, ReconcileLemma
  <1>5. TypeOK'
    BY <1>2, <1>4, ProcessAssumption DEF TypeOK, ChildrenInv, ChildrenTyped, Running, ProcessAssumption
  <1>6. FollowsManifest'
    BY <1>2, <1>4 DEF FollowsManifest, Follows, Running
  <1>7. Booted'
    BY <1>2 DEF Booted
  <1> QED BY <1>4, <1>5, <1>6, <1>7 DEF Inv

\* Spawns only add children, which the timer is then there for.
LEMMA SpawnInv ==
    ASSUME Inv, NEW extra \in SUBSET Idle, SpawnOnly(extra),
           phase = "running", UNCHANGED <<phase, manifest, builtins, generation>>
    PROVE  Inv'
  <1>1. /\ detached' = detached \cup extra /\ procs' = Forked(procs, extra) /\ EnsureTimer
        /\ services' = services /\ suppressed' = suppressed /\ onceRuns' = onceRuns
        /\ ran' = ran /\ Running' = Running
    BY DEF SpawnOnly, Running
  <1>2. extra \subseteq Pids /\ \A p \in extra : procs[p] = "free"
    BY DEF Idle
  <1>3. ChildrenTyped'
    BY <1>1, <1>2 DEF Inv, ChildrenInv, ChildrenTyped, Forked, EnsureTimer
  <1>4. NoLostChild'
    <2>1. \A p \in Pids : procs'[p] # "free" <=> p \in extra \/ procs[p] # "free"
      BY <1>1 DEF Forked
    <2>2. \A id \in Running : services[id].child \in Pids
      BY DEF Inv, ChildrenInv, ChildrenTyped, Service
    <2>3. \A id \in Running : services[id].child \notin extra
      BY <1>2, <2>2 DEF Inv, ChildrenInv, NoLostChild
    <2> QED BY <1>1, <2>1, <2>3 DEF Inv, ChildrenInv, NoLostChild
  <1>5. Supervised'
    BY <1>1 DEF Inv, ChildrenInv, Supervised, EnsureTimer, Running
  <1>6. Bookkeeping'
    BY <1>1 DEF Inv, ChildrenInv, Bookkeeping
  <1>7. TypeOK' /\ FollowsManifest' /\ Booted'
    BY <1>1, <1>3 DEF Inv, TypeOK, ChildrenTyped, FollowsManifest, Booted
  <1> QED BY <1>3, <1>4, <1>5, <1>6, <1>7 DEF Inv, ChildrenInv

\* The tick reaps what exited and restarts or gives up the services among it.
LEMMA TickInv == ASSUME ProcessAssumption, Inv, Tick PROVE Inv'
  <1> DEFINE done == ServicesDone
             gone == DetachedDone
             dead == gone \cup {services[id].child : id \in done}
             Outcome(up, child) ==
                /\ services' = [id \in (Running \ done) \cup up |->
                       IF id \in up THEN Restarted(services[id], child[id])
                       ELSE services[id]]
                /\ suppressed' = [id \in Ids |->
                       IF id \in done \ up THEN generation ELSE suppressed[id]]
                /\ procs' = Forked(Reaped(procs, dead), {child[id] : id \in up})
  <1>0. PICK up \in SUBSET ToRestart :
          \E child \in Children(up, Idle \cup dead) : Outcome(up, child)
    BY DEF Tick
  <1>1. PICK child \in Children(up, Idle \cup dead) : Outcome(up, child)
    BY <1>0
  <1>2. /\ detached' = detached \ gone
        /\ timer' = IF StillNeeded THEN "armed" ELSE "none"
        /\ UNCHANGED <<phase, manifest, builtins, generation, onceRuns, ran>>
        /\ phase = "running"
    BY DEF Tick
  <1>3. /\ up \subseteq done /\ done \subseteq Running /\ gone \subseteq detached
        /\ \A id \in done : procs[services[id].child] \in Exited
        /\ \A p \in gone : procs[p] \in Exited
    BY DEF ToRestart, ServicesDone, DetachedDone
  <1>4. /\ Running \subseteq Ids /\ detached \subseteq Pids
        /\ services \in [Running -> Service]
        /\ \A id \in Running : services[id] \in Service /\ services[id].child \in Pids
    BY DEF Inv, ChildrenInv, ChildrenTyped, Service
  <1>5. /\ \A p \in Pids : procs[p] # "free" <=>
              p \in detached \/ \E id \in Running : p = services[id].child
        /\ \A id \in Running : services[id].child \notin detached
        /\ \A i, j \in Running : services[i].child = services[j].child => i = j
    BY DEF Inv, ChildrenInv, NoLostChild
  <1>6. generation \in 1 .. MaxGeneration
    BY <1>2, ProcessAssumption DEF Inv, TypeOK, Booted, ProcessAssumption
  <1>7. /\ child \in [up -> Idle \cup dead]
        /\ \A i, j \in up : child[i] = child[j] => i = j
    BY ChildrenLemma
  <1> HIDE DEF done, gone
  <1>8. dead \subseteq Pids
    BY <1>3, <1>4
  <1>9. \A p \in dead : p \in gone \/ \E id \in done : p = services[id].child
    OBVIOUS
  <1>10. \A p \in Pids : p \in dead <=> p \in gone \/ \E id \in done : p = services[id].child
    OBVIOUS
  <1> HIDE DEF dead
  <1>11. \A id \in up : /\ child[id] \in Pids
                        /\ child[id] \notin dead => procs[child[id]] = "free"
    BY <1>7, <1>8 DEF Idle
  <1>12. /\ DOMAIN services' = (Running \ done) \cup up
         /\ \A id \in Running \ done : services'[id] = services[id]
         /\ \A id \in up : services'[id] = Restarted(services[id], child[id])
    BY <1>1, <1>3
  <1>13. \A id \in up : /\ services'[id] \in Service
                        /\ services'[id].decl = services[id].decl
                        /\ services'[id].child = child[id]
                        /\ services'[id].started = generation
    <2> SUFFICES ASSUME NEW id \in up
                 PROVE  /\ services'[id] \in Service
                        /\ services'[id].decl = services[id].decl
                        /\ services'[id].child = child[id]
                        /\ services'[id].started = generation
      OBVIOUS
    <2>1. services'[id] = [services[id] EXCEPT !.child = child[id], !.started = generation]
      BY <1>12 DEF Restarted
    <2>2. services[id] \in Service /\ child[id] \in Pids
      BY <1>3, <1>4, <1>11
    <2> QED BY <1>6, <2>1, <2>2 DEF Service
  <1>14. ChildrenTyped'
    <2>1. Running' \subseteq Ids
      BY <1>3, <1>4, <1>12 DEF Running
    <2>2. services' \in [Running' -> Service]
      BY <1>1, <1>4, <1>12, <1>13 DEF Running
    <2>3. suppressed' \in [Ids -> 0 .. MaxGeneration]
      BY <1>1, <1>6 DEF Inv, ChildrenInv, ChildrenTyped
    <2>4. procs' \in [Pids -> {"free", "running"} \cup Exited]
      BY <1>1 DEF Forked, Reaped, Inv, ChildrenInv, ChildrenTyped
    <2>5. detached' \subseteq Pids /\ timer' \in {"armed", "none", "refused"}
      BY <1>2, <1>4
    <2> QED BY <1>2, <2>1, <2>2, <2>3, <2>4, <2>5 DEF Inv, ChildrenInv, ChildrenTyped
  <1>15. NoLostChild'
    <2>1. \A p \in Pids : procs'[p] # "free" <=>
             \/ \E id \in up : p = child[id]
             \/ p \notin dead /\ procs[p] # "free"
      BY <1>1 DEF Forked, Reaped
    <2>2. \A id \in Running \ done : services[id].child \notin dead
      BY <1>3, <1>4, <1>5, <1>10
    <2>3. \A p \in detached : p \in dead <=> p \in gone
      BY <1>3, <1>4, <1>5, <1>10
    <2>4. \A id \in up : /\ child[id] \notin detached'
                         /\ \A i \in Running \ done : child[id] # services[i].child
      BY <1>2, <1>4, <1>5, <1>11, <2>2, <2>3
    <2>5. \A p \in Pids : (p \notin dead /\ procs[p] # "free") <=>
             p \in detached' \/ \E id \in Running \ done : p = services[id].child
      BY <1>2, <1>5, <1>10, <2>2, <2>3
    <2>6. \A p \in Pids : (\E id \in DOMAIN services' : p = services'[id].child) <=>
             \/ \E id \in Running \ done : p = services[id].child
             \/ \E id \in up : p = child[id]
      BY <1>12, <1>13
    <2>7. \A p \in Pids : procs'[p] # "free" <=>
             p \in detached' \/ \E id \in DOMAIN services' : p = services'[id].child
      BY <2>1, <2>5, <2>6
    <2>8. \A id \in DOMAIN services' : services'[id].child \notin detached'
      BY <1>2, <1>5, <1>12, <1>13, <2>4
    <2>9. \A i, j \in DOMAIN services' : services'[i].child = services'[j].child => i = j
      BY <1>5, <1>7, <1>12, <1>13, <2>4
    <2> QED BY <2>7, <2>8, <2>9 DEF NoLostChild, Running
  <1>16. Supervised'
    BY <1>2 DEF StillNeeded, Supervised, Running
  <1>17. Bookkeeping'
    <2>1. \A id \in DOMAIN services' : suppressed'[id] = 0
      BY <1>1, <1>3, <1>4, <1>12 DEF Inv, ChildrenInv, Bookkeeping
    <2>2. \A id \in Ids : suppressed'[id] <= generation
      BY <1>1, <1>6 DEF Inv, ChildrenInv, Bookkeeping
    <2> QED BY <1>2, <2>1, <2>2 DEF Inv, ChildrenInv, Bookkeeping, Running
  <1>18. FollowsManifest'
    <2> DEFINE d == Desired(manifest, builtins)
    <2>1. Desired(manifest', builtins') = d
      BY <1>2
    <2>2. /\ \A id \in Running :
                /\ services[id].decl = d[id]
                /\ d[id].reload = "AlwaysRestart" => services[id].started = generation
          /\ \A id \in Ids \ Running : d[id].kind = "service" => suppressed[id] = generation
      BY <1>2 DEF Inv, FollowsManifest
    <2> HIDE DEF d
    <2>3. \A id \in DOMAIN services' :
                /\ services'[id].decl = d[id]
                /\ d[id].reload = "AlwaysRestart" => services'[id].started = generation
      BY <1>3, <1>12, <1>13, <2>2
    <2>4. \A id \in Ids \ DOMAIN services' :
                d[id].kind = "service" => suppressed'[id] = generation
      BY <1>1, <1>3, <1>12, <2>2
    <2> QED BY <1>2, <2>1, <2>3, <2>4 DEF FollowsManifest, Running
  <1>19. TypeOK' /\ Booted'
    BY <1>2, <1>14 DEF Inv, TypeOK, ChildrenTyped, Booted
  <1> QED BY <1>14, <1>15, <1>16, <1>17, <1>18, <1>19 DEF Inv, ChildrenInv

\* The shutdown stops the services and leaves the detached children alone.
LEMMA ShutdownInv == ASSUME Inv, Shutdown PROVE Inv'
  <1>1. /\ procs' = Reaped(procs, Killed(Running))
        /\ services' = << >> /\ Running' = {} /\ phase' = "down" /\ phase = "running"
        /\ UNCHANGED <<manifest, builtins, generation, onceRuns, suppressed, detached,
                       timer, ran>>
    BY DEF Shutdown, Running
  <1>2. services' \in [Running' -> Service]
    BY <1>1 DEF Running
  <1>3. ChildrenTyped'
    BY <1>1, <1>2 DEF Inv, ChildrenInv, ChildrenTyped, Reaped
  <1>4. NoLostChild'
    <2>1. \A p \in Pids : procs'[p] # "free" <=>
             p \notin {services[id].child : id \in Running} /\ procs[p] # "free"
      BY <1>1 DEF Reaped, Killed
    <2> QED BY <1>1, <2>1 DEF Inv, ChildrenInv, NoLostChild
  <1>5. Supervised' /\ Bookkeeping' /\ Booted' /\ FollowsManifest'
    BY <1>1 DEF Inv, ChildrenInv, Supervised, Bookkeeping, Booted, FollowsManifest
  <1>6. TypeOK'
    BY <1>1, <1>3 DEF Inv, TypeOK, ChildrenTyped
  <1> QED BY <1>3, <1>4, <1>5, <1>6 DEF Inv, ChildrenInv

LEMMA ExitInv == ASSUME Inv, ChildExits PROVE Inv'
  <1>1. PICK p \in Pids, status \in Exited :
           procs[p] = "running" /\ procs' = [procs EXCEPT ![p] = status]
    BY DEF ChildExits
  <1>2. UNCHANGED <<phase, manifest, builtins, generation, services, onceRuns,
                   suppressed, detached, timer, ran>> /\ Running' = Running
    BY DEF ChildExits, Running
  <1>3. procs' \in [Pids -> {"free", "running"} \cup Exited]
        /\ \A q \in Pids : procs'[q] # "free" <=> procs[q] # "free"
    BY <1>1 DEF Inv, ChildrenInv, ChildrenTyped, Exited
  <1>4. ChildrenTyped' /\ NoLostChild'
    BY <1>2, <1>3 DEF Inv, ChildrenInv, ChildrenTyped, NoLostChild
  <1>5. Supervised' /\ Bookkeeping' /\ Booted' /\ FollowsManifest'
    BY <1>2 DEF Inv, ChildrenInv, Supervised, Bookkeeping, Booted, FollowsManifest
  <1>6. TypeOK'
    BY <1>2, <1>4 DEF Inv, TypeOK, ChildrenTyped
  <1> QED BY <1>4, <1>5, <1>6 DEF Inv, ChildrenInv

LEMMA NextInv == ASSUME ProcessAssumption, Inv, [Next]_vars PROVE Inv'
  <1>0. /\ manifest \in Manifests /\ builtins \subseteq BuiltinIds
        /\ generation \in 0 .. MaxGeneration /\ MaxGeneration \in Nat \ {0}
        /\ Spawns \subseteq SUBSET Idle
    BY ProcessAssumption DEF Inv, TypeOK, ProcessAssumption, Spawns
  <1>1. CASE LoadConfig
    <2>1. generation' = 1 /\ generation <= generation'
      BY <1>1 DEF LoadConfig, Inv, Booted
    <2> QED BY <1>0, <1>1, <2>1, ReconciledInv DEF LoadConfig
  <1>2. CASE DeclareBuiltins
    <2>1. generation \in 1 .. MaxGeneration
      BY <1>0, <1>2 DEF DeclareBuiltins, Inv, Booted
    <2>2. {} \in SUBSET Idle
      OBVIOUS
    <2> QED BY <1>0, <1>2, <2>1, <2>2, ReconciledInv DEF DeclareBuiltins
  <1>3. CASE LuaDeclares
    <2>1. generation \in 1 .. MaxGeneration
      BY <1>0, <1>3 DEF LuaDeclares, Inv, Booted
    <2>2. manifest' \in Manifests
      BY <1>0, <1>3 DEF LuaDeclares, Manifests
    <2>3. phase' = "running" /\ builtins' = builtins /\ generation' = generation
      BY <1>3 DEF LuaDeclares
    <2>4. PICK extra \in Spawns : Reconcile(Desired(manifest', builtins), generation, extra)
      BY <1>3 DEF LuaDeclares
    <2>5. Reconcile(Desired(manifest', builtins'), generation', extra)
      BY <2>3, <2>4
    <2> QED BY <1>0, <2>1, <2>2, <2>3, <2>5, ReconciledInv
  <1>4. CASE LuaSpawns
    BY <1>0, <1>4, SpawnInv DEF LuaSpawns
  <1>5. CASE ReloadConfig
    <2>1. generation' \in 1 .. MaxGeneration /\ generation <= generation'
      BY <1>0, <1>5 DEF ReloadConfig
    <2> QED BY <1>0, <1>5, <2>1, ReconciledInv DEF ReloadConfig
  <1>6. CASE Tick
    BY <1>6, TickInv
  <1>7. CASE Shutdown
    BY <1>7, ShutdownInv
  <1>8. CASE ChildExits
    BY <1>8, ExitInv
  <1>9. CASE UNCHANGED vars
    BY <1>9 DEF vars, Inv, TypeOK, ChildrenInv, ChildrenTyped, NoLostChild, Supervised,
       Bookkeeping, FollowsManifest, Booted, Running
  <1> QED BY <1>1, <1>2, <1>3, <1>4, <1>5, <1>6, <1>7, <1>8, <1>9 DEF Next

-----------------------------------------------------------------------------
(* The theorems.                                                           *)

\* The supervisor always satisfies its inductive invariant.
THEOREM ProcessInvariance == Spec => []Inv
  <1>1. Init => Inv
    BY InitInv, ProcessAssumption
  <1>2. Inv /\ [Next]_vars => Inv'
    BY NextInv, ProcessAssumption
  <1> QED BY <1>1, <1>2, PTL DEF Spec
\* Types, for every value of the constants.
THEOREM ProcessTypes == Spec => []TypeOK
  <1>1. Inv => TypeOK
    BY DEF Inv
  <1> QED BY <1>1, ProcessInvariance, PTL

\* No child is leaked, reaped twice or run twice.
THEOREM ChildrenOwned == Spec => []NoLostChild
  <1>1. Inv => NoLostChild
    BY DEF Inv, ChildrenInv
  <1> QED BY <1>1, ProcessInvariance, PTL

\* The supervisor's books and the process table are one account.
THEOREM BooksBalance == Spec => []ProcessInv
BY ProcessTypes, ChildrenOwned, PTL DEF ProcessInv

\* Between events the children match the manifest.
THEOREM ManifestFollowed == Spec => []FollowsManifest
  <1>1. Inv => FollowsManifest
    BY DEF Inv
  <1> QED BY <1>1, ProcessInvariance, PTL

\* The supervision timer runs while there are children.
THEOREM AlwaysSupervised == Spec => []Supervised
  <1>1. Inv => Supervised
    BY DEF Inv, ChildrenInv
  <1> QED BY <1>1, ProcessInvariance, PTL

\* A once entry runs at most once in a configuration generation.
THEOREM AtMostOncePerGeneration == Spec => []OncePerGeneration
  <1>1. Inv => OncePerGeneration
    <2> SUFFICES ASSUME Inv, NEW id \in Ids PROVE ran[id] <= generation
      BY DEF OncePerGeneration
    <2>1. ran[id] <= onceRuns[id] /\ onceRuns[id] <= generation
          /\ ran[id] \in Nat /\ onceRuns[id] \in Nat /\ generation \in Nat
      BY DEF Inv, ChildrenInv, Bookkeeping, ChildrenTyped, TypeOK
    <2> QED BY <2>1
  <1> QED BY <1>1, ProcessInvariance, PTL

\* Only a reconciliation runs a once entry, and only one that is due.
LEMMA RanLemma ==
    ASSUME NEW d, NEW gen, NEW extra, Reconcile(d, gen, extra), NEW id \in Ids,
           ran'[id] # ran[id]
    PROVE  id \in OnceDue(d, gen)
  BY DEF Reconcile

\* An entry declared once per session runs at most once in it.
THEOREM AtMostOncePerSession == Spec => OncePerSession
  <1> DEFINE P == \A id \in Ids :
                LET d == Desired(manifest', builtins')[id]
                IN  d = SessionUnits /\ ran[id] > 0 => ran'[id] = ran[id]
  <1>1. Inv /\ [Next]_vars => [P]_vars
    <2> SUFFICES ASSUME Inv, Next, NEW id \in Ids,
                        Desired(manifest', builtins')[id] = SessionUnits, ran[id] > 0
                 PROVE  ran'[id] = ran[id]
      BY DEF vars
    <2>1. ran[id] \in Nat /\ onceRuns[id] \in Nat /\ ran[id] <= onceRuns[id]
      BY DEF Inv, ChildrenInv, ChildrenTyped, Bookkeeping
    <2>2. \A gen : id \notin OnceDue(Desired(manifest', builtins'), gen)
      BY <2>1 DEF OnceDue, SessionUnits
    <2>3. \/ \E gen, extra : Reconcile(Desired(manifest', builtins'), gen, extra)
          \/ ran' = ran
      BY DEF Next, LoadConfig, DeclareBuiltins, LuaDeclares, LuaSpawns, SpawnOnly,
         ReloadConfig, Tick, Shutdown, ChildExits
    <2> QED BY <2>2, <2>3, RanLemma
  <1> QED BY <1>1, ProcessInvariance, PTL DEF Spec, OncePerSession

\* Once entries run as often as their policy says.
THEOREM OnceMeansOnce == Spec => OncePerRun
BY AtMostOncePerGeneration, AtMostOncePerSession, PTL DEF OncePerRun

-----------------------------------------------------------------------------
(* The supervisor implements ServiceLife for every id.                     *)

Retired(id) == suppressed[id] # 0 /\ suppressed[id] = generation

\* What a reconciliation does to one id: it survives, is started, is given up,
\* or has nothing to run.
LEMMA ReconcileOne ==
    ASSUME ProcessAssumption, Inv,
           NEW d \in [Ids -> Decl], NEW gen \in 1 .. MaxGeneration,
           NEW extra \in SUBSET Idle,
           Reconcile(d, gen, extra), NEW id \in Ids
    PROVE  \/ /\ id \in Kept(d, gen)
              /\ ChildOf(id)' = ChildOf(id) /\ LiveChild(id)' = LiveChild(id)
              /\ suppressed'[id] = suppressed[id]
           \/ /\ id \in ServiceDue(d, gen)
              /\ ChildOf(id)' \in Pids /\ LiveChild(id)' /\ suppressed'[id] = 0
           \/ /\ id \in ServiceDue(d, gen)
              /\ ChildOf(id)' = NoPid /\ ~LiveChild(id)' /\ suppressed'[id] = gen
           \/ /\ id \notin Kept(d, gen) /\ id \notin ServiceDue(d, gen)
              /\ ChildOf(id)' = NoPid /\ ~LiveChild(id)'
              /\ suppressed'[id] = IF id \in Running THEN 0 ELSE suppressed[id]
  <1> DEFINE kept == Kept(d, gen)
             stopped == Stopped(d, gen)
             killed == Killed(stopped)
             sdue == ServiceDue(d, gen)
             odue == OnceDue(d, gen)
             Outcome(up, child) ==
                /\ services' = [i \in kept \cup (up \cap sdue) |->
                       IF i \in kept THEN services[i]
                       ELSE [decl |-> d[i], child |-> child[i], started |-> gen]]
                /\ suppressed' = [i \in Ids |->
                       IF i \in sdue \ up THEN gen
                       ELSE IF i \in (up \cap sdue) \cup stopped THEN 0
                       ELSE suppressed[i]]
                /\ procs' = Forked(Reaped(procs, killed), extra \cup {child[i] : i \in up})
  <1>0. PICK up \in SUBSET (sdue \cup odue) :
          \E child \in Children(up, (Idle \cup killed) \ extra) : Outcome(up, child)
    BY DEF Reconcile
  <1>1. PICK child \in Children(up, (Idle \cup killed) \ extra) : Outcome(up, child)
    BY <1>0
  <1>2. kept \subseteq Running /\ stopped = Running \ kept /\ sdue \subseteq Ids \ kept
    BY DEF Kept, Stopped, ServiceDue
  <1>3. /\ \A i \in Running : services[i].child \in Pids
        /\ \A i, j \in Running : services[i].child = services[j].child => i = j
        /\ \A i \in Running : procs[services[i].child] # "free"
    BY DEF Inv, ChildrenInv, ChildrenTyped, NoLostChild, Service
  <1>4. child \in [up -> (Idle \cup killed) \ extra]
    BY ChildrenLemma
  <1>5. \A p \in killed : \E i \in stopped : p = services[i].child
    BY DEF Killed
  <1> HIDE DEF kept, stopped, killed, sdue, odue
  <1>6. killed \subseteq Pids
    BY <1>2, <1>3, <1>5
  <1>7. \A i \in up : child[i] \in Pids /\ (child[i] \in killed \/ procs[child[i]] = "free")
    BY <1>4, <1>6 DEF Idle
  <1>8. /\ Running' = kept \cup (up \cap sdue)
        /\ \A i \in kept : services'[i] = services[i]
        /\ \A i \in up \cap sdue : services'[i].child = child[i]
    BY <1>1, <1>2 DEF Running
  <1>9. CASE id \in kept
    <2>1. id \in Running /\ id \in Running' /\ services'[id] = services[id]
      BY <1>2, <1>8, <1>9
    <2>2. services[id].child \notin killed /\ services[id].child \notin extra
      BY <1>2, <1>3, <1>5, <1>9, <2>1 DEF Idle
    <2>3. \A i \in up : services[id].child # child[i]
      BY <1>3, <1>7, <2>1, <2>2
    <2>4. procs'[services[id].child] = procs[services[id].child]
      BY <1>1, <1>3, <2>1, <2>2, <2>3 DEF Forked, Reaped
    <2>5. suppressed'[id] = suppressed[id]
      BY <1>1, <1>2, <1>9
    <2> QED BY <1>9, <2>1, <2>4, <2>5 DEF ChildOf, LiveChild, kept
  <1>10. CASE id \in up \cap sdue
    <2>1. id \in Running' /\ services'[id].child = child[id] /\ child[id] \in Pids
      BY <1>7, <1>8, <1>10
    <2>2. procs'[child[id]] = "running"
      BY <1>1, <1>10, <2>1 DEF Forked
    <2>3. suppressed'[id] = 0
      BY <1>1, <1>2, <1>10
    <2> QED BY <1>10, <2>1, <2>2, <2>3 DEF ChildOf, LiveChild, sdue
  <1>11. CASE id \in sdue \ up
    <2>1. id \notin Running' /\ suppressed'[id] = gen
      BY <1>1, <1>2, <1>8, <1>11
    <2> QED BY <1>11, <2>1 DEF ChildOf, LiveChild, sdue
  <1>12. CASE id \notin kept /\ id \notin sdue
    <2>1. /\ id \notin Running'
          /\ suppressed'[id] = IF id \in Running THEN 0 ELSE suppressed[id]
      BY <1>1, <1>2, <1>8, <1>12
    <2> QED BY <1>12, <2>1 DEF ChildOf, LiveChild, sdue, kept
  <1> QED BY <1>9, <1>10, <1>11, <1>12

\* A handler that reconciles is a Configure step of every id.
LEMMA ReconcileConfigures ==
    ASSUME ProcessAssumption, Inv,
           manifest' \in Manifests, builtins' \subseteq BuiltinIds,
           generation' \in 1 .. MaxGeneration, generation' \in {generation, generation + 1},
           phase = "boot" => generation' = 1,
           phase # "down",
           NEW extra \in SUBSET Idle,
           Reconcile(Desired(manifest', builtins'), generation', extra),
           NEW id \in Ids
    PROVE  Life(id)!Configure
  <1> DEFINE d == Desired(manifest', builtins')
             gen == generation'
             old == Desired(manifest, builtins)
  <1>1. d \in [Ids -> Decl] /\ gen \in 1 .. MaxGeneration
    BY DesiredType, ManifestType
  <1>2. d[id] \in Declarable \cup {NoDecl, SessionUnits}
    BY DEF Desired, Manifests
  <1>3. /\ generation \in Nat /\ suppressed[id] \in Nat /\ suppressed[id] <= generation
        /\ id \in Running => suppressed[id] = 0
    BY DEF Inv, TypeOK, ChildrenInv, ChildrenTyped, Bookkeeping
  <1>4. id \in Running => /\ services[id].decl = old[id]
                          /\ old[id].reload = "AlwaysRestart" => services[id].started = generation
                          /\ services[id].child \in Pids /\ services[id].child # NoPid
    BY DEF Inv, FollowsManifest, Booted, TypeOK, Service, ChildrenInv, ChildrenTyped,
       ProcessAssumption
  <1>5. id \in Kept(d, gen) =>
          /\ id \in Running /\ services[id].decl = d[id]
          /\ d[id].reload = "AlwaysRestart" => services[id].started = gen
    BY DEF Kept, Keeps
  <1>6. id \in Running /\ id \notin Kept(d, gen) =>
          \/ services[id].decl # d[id]
          \/ d[id].reload = "AlwaysRestart" /\ services[id].started # gen
    BY DEF Kept, Keeps
  <1>7. id \in ServiceDue(d, gen) <=>
          /\ id \notin Kept(d, gen) /\ d[id].kind = "service"
          /\ id \in Running \/ suppressed[id] # gen
    BY DEF ServiceDue
  <1> DEFINE K == id \in Kept(d, gen)
             S == id \in ServiceDue(d, gen)
  <1>8. \/ /\ K
           /\ ChildOf(id)' = ChildOf(id) /\ LiveChild(id)' = LiveChild(id)
           /\ suppressed'[id] = suppressed[id]
        \/ S /\ ChildOf(id)' \in Pids /\ LiveChild(id)' /\ suppressed'[id] = 0
        \/ S /\ ChildOf(id)' = NoPid /\ ~LiveChild(id)' /\ suppressed'[id] = gen
        \/ /\ ~K /\ ~S /\ ChildOf(id)' = NoPid /\ ~LiveChild(id)'
           /\ suppressed'[id] = IF id \in Running THEN 0 ELSE suppressed[id]
    BY <1>1, ReconcileOne
  <1>9. K <=> /\ ChildOf(id) # NoPid /\ d[id] = old[id]
              /\ generation' # generation => old[id].reload # "AlwaysRestart"
    BY <1>3, <1>4, <1>5, <1>6 DEF ChildOf
  <1>10. ~K => (S <=> d[id].kind = "service" /\ ~(Retired(id) /\ generation' = generation))
    BY <1>1, <1>3, <1>7 DEF Retired
  <1>11. S => ~K
    BY <1>7
  <1> HIDE DEF K, S
  <1>12. K => suppressed'[id] = suppressed[id] /\ suppressed[id] = 0
    BY <1>3, <1>8, <1>9, <1>11 DEF ChildOf
  <1>13. ~K /\ ~S => suppressed'[id] = IF id \in Running THEN 0 ELSE suppressed[id]
    BY <1>8
  <1>14. K => Retired(id)' = Retired(id)
    BY <1>12 DEF Retired
  <1>15. ~K /\ ~S => Retired(id)' = (Retired(id) /\ generation' = generation)
    BY <1>3, <1>13 DEF Retired
  <1>16. /\ d[id] = Desired(manifest, builtins)[id]'
         /\ generation' \in {generation, generation + 1}
    OBVIOUS
  <1> HIDE DEF d, old
  <1>17. CASE K
    <2>1. /\ ChildOf(id) # NoPid /\ d[id] = Desired(manifest, builtins)[id]
          /\ generation' # generation => Desired(manifest, builtins)[id].reload # "AlwaysRestart"
      BY <1>9, <1>17 DEF old
    <2>2. ChildOf(id)' = ChildOf(id) /\ LiveChild(id)' = LiveChild(id)
      BY <1>8, <1>11, <1>17
    <2>3. Life(id)!Survives
      BY <1>16, <2>1 DEF Life!Survives
    <2>4. Retired(id)' = Retired(id)
      BY <1>14, <1>17
    <2> QED BY <1>2, <1>16, <2>2, <2>3, <2>4 DEF Life!Configure, Retired
  <1>18. ~K => ~Life(id)!Survives
    BY <1>9, <1>16 DEF Life!Survives, old
  <1>19. ~K => (S <=> Life(id)!Startable)
    BY <1>10, <1>16 DEF Life!Startable, Retired
  <1>20. CASE S
    <2>1. \/ ChildOf(id)' \in Pids /\ LiveChild(id)' /\ ~Retired(id)'
          \/ ChildOf(id)' = NoPid /\ ~LiveChild(id)' /\ Retired(id)'
      BY <1>1, <1>8, <1>11, <1>20 DEF Retired
    <2>2. Life(id)!Start \/ Life(id)!Retire
      BY <2>1 DEF Life!Start, Life!Retire, Retired
    <2> QED BY <1>2, <1>11, <1>16, <1>18, <1>19, <1>20, <2>2 DEF Life!Configure
  <1>21. CASE ~K /\ ~S
    <2>1. ChildOf(id)' = NoPid /\ ~LiveChild(id)'
      BY <1>8, <1>21
    <2>2. Life(id)!Absent
      BY <1>15, <1>21, <2>1 DEF Life!Absent, Retired
    <2> QED BY <1>2, <1>16, <1>18, <1>19, <1>21, <2>2 DEF Life!Configure
  <1> QED BY <1>17, <1>20, <1>21
\* Spawns pass every service by.
LEMMA SpawnStutters ==
    ASSUME Inv, NEW extra \in SUBSET Idle, SpawnOnly(extra),
           UNCHANGED <<phase, manifest, builtins, generation>>, NEW id \in Ids
    PROVE  UNCHANGED Life(id)!lifeVars
  <1>1. /\ Running' = Running /\ services' = services /\ suppressed' = suppressed
        /\ procs' = Forked(procs, extra)
    BY DEF SpawnOnly, Running
  <1>2. id \in Running => procs'[services[id].child] = procs[services[id].child]
    <2> SUFFICES ASSUME id \in Running
                 PROVE  procs'[services[id].child] = procs[services[id].child]
      OBVIOUS
    <2>1. services[id].child \in Pids /\ procs[services[id].child] # "free"
      BY DEF Inv, ChildrenInv, ChildrenTyped, NoLostChild, Service
    <2> QED BY <1>1, <2>1 DEF Forked, Idle
  <1>3. ChildOf(id)' = ChildOf(id) /\ LiveChild(id)' = LiveChild(id)
    BY <1>1, <1>2 DEF ChildOf, LiveChild
  <1>4. Desired(manifest, builtins)[id]' = Desired(manifest, builtins)[id]
    BY DEF Desired
  <1> QED BY <1>1, <1>3, <1>4 DEF Life!lifeVars

\* The tick supervises the services that exited and passes the others by.
LEMMA TickSupervises ==
    ASSUME ProcessAssumption, Inv, Tick, NEW id \in Ids
    PROVE  Life(id)!Supervise \/ UNCHANGED Life(id)!lifeVars
  <1> DEFINE dead == DetachedDone \cup {services[i].child : i \in ServicesDone}
             Outcome(up, child) ==
                /\ services' = [i \in (Running \ ServicesDone) \cup up |->
                       IF i \in up THEN Restarted(services[i], child[i])
                       ELSE services[i]]
                /\ suppressed' = [i \in Ids |->
                       IF i \in ServicesDone \ up THEN generation ELSE suppressed[i]]
                /\ procs' = Forked(Reaped(procs, dead), {child[i] : i \in up})
  <1>0. PICK up \in SUBSET ToRestart :
          \E child \in Children(up, Idle \cup dead) : Outcome(up, child)
    BY DEF Tick
  <1>1. PICK child \in Children(up, Idle \cup dead) : Outcome(up, child)
    BY <1>0
  <1>2. /\ UNCHANGED <<phase, manifest, builtins, generation>>
        /\ phase = "running"
        /\ Desired(manifest, builtins)[id]' = Desired(manifest, builtins)[id]
    BY DEF Tick, Desired
  <1>3. up \subseteq ServicesDone /\ ServicesDone \subseteq Running
    BY DEF ToRestart, ServicesDone
  <1>4. /\ \A i \in Running : services[i] \in Service /\ services[i].child \in Pids
        /\ \A i, j \in Running : services[i].child = services[j].child => i = j
        /\ \A i \in Running : /\ services[i].child \notin detached
                              /\ procs[services[i].child] # "free"
    BY DEF Inv, ChildrenInv, ChildrenTyped, NoLostChild, Service
  <1>5. child \in [up -> Idle \cup dead]
    BY ChildrenLemma
  <1>6. dead \subseteq Pids
    BY <1>3, <1>4 DEF DetachedDone, Inv, ChildrenInv, ChildrenTyped
  <1>7. \A i \in up : child[i] \in Pids /\ (child[i] \in dead \/ procs[child[i]] = "free")
    BY <1>5, <1>6 DEF Idle
  <1>8. Running' = (Running \ ServicesDone) \cup up
    BY <1>1 DEF Running
  <1>9. generation \in Nat \ {0} /\ suppressed[id] \in Nat
    BY <1>2 DEF Inv, Booted, TypeOK
  <1>10. CASE id \in up
    <2>1. services'[id] = [services[id] EXCEPT !.child = child[id], !.started = generation]
      BY <1>1, <1>10 DEF Restarted
    <2>2. id \in Running' /\ services'[id].child = child[id] /\ child[id] \in Pids
      BY <1>3, <1>4, <1>7, <1>8, <1>10, <2>1 DEF Service
    <2>3. procs'[child[id]] = "running"
      BY <1>1, <1>10, <2>2 DEF Forked
    <2>4. suppressed'[id] = 0 /\ suppressed[id] = 0
      BY <1>1, <1>3, <1>10 DEF Inv, ChildrenInv, Bookkeeping
    <2>5. services[id].decl.restart # "Never" /\ procs[services[id].child] \in Exited
      BY <1>0, <1>10 DEF ToRestart, ShouldRestart, ServicesDone
    <2>6. Desired(manifest, builtins)[id] = services[id].decl
      BY <1>2, <1>3, <1>10 DEF Inv, FollowsManifest
    <2>7. ChildOf(id) \in Pids /\ ~LiveChild(id)
      BY <1>3, <1>4, <1>10, <2>5 DEF ChildOf, LiveChild, Exited
    <2>8. ChildOf(id)' \in Pids /\ LiveChild(id)'
      BY <2>2, <2>3 DEF ChildOf, LiveChild
    <2>9. Life(id)!Start
      BY <2>4, <2>8 DEF Life!Start
    <2>10. ChildOf(id) # NoPid
      BY <2>7 DEF ProcessAssumption
    <2> QED BY <1>2, <2>5, <2>6, <2>7, <2>9, <2>10 DEF Life!Supervise
  <1>11. CASE id \in ServicesDone \ up
    <2>1. id \notin Running' /\ suppressed'[id] = generation
      BY <1>1, <1>8, <1>11
    <2>2. ChildOf(id) \in Pids /\ ~LiveChild(id)
      BY <1>3, <1>4, <1>11 DEF ChildOf, LiveChild, ServicesDone, Exited
    <2>3. ChildOf(id)' = NoPid /\ ~LiveChild(id)'
      BY <2>1 DEF ChildOf, LiveChild
    <2>4. Life(id)!Retire
      BY <1>2, <1>9, <2>1, <2>3 DEF Life!Retire
    <2>5. ChildOf(id) # NoPid
      BY <2>2 DEF ProcessAssumption
    <2> QED BY <1>2, <2>2, <2>4, <2>5 DEF Life!Supervise
  <1>12. CASE id \notin ServicesDone
    <2>1. suppressed'[id] = suppressed[id] /\ (id \in Running' <=> id \in Running)
      BY <1>1, <1>3, <1>8, <1>12
    <2>2. CASE id \in Running
      <3>1. services'[id] = services[id]
        BY <1>1, <1>3, <1>12, <2>2
      <3>2. services[id].child \notin dead
        BY <1>3, <1>4, <1>12, <2>2 DEF DetachedDone
      <3>3. \A i \in up : services[id].child # child[i]
        BY <1>4, <1>7, <2>2, <3>2
      <3>4. procs'[services[id].child] = procs[services[id].child]
        BY <1>1, <1>4, <2>2, <3>2, <3>3 DEF Forked, Reaped
      <3>5. ChildOf(id)' = ChildOf(id) /\ LiveChild(id)' = LiveChild(id)
        BY <2>1, <2>2, <3>1, <3>4 DEF ChildOf, LiveChild
      <3> QED BY <1>2, <2>1, <3>5 DEF Life!lifeVars
    <2>3. CASE id \notin Running
      <3>1. ChildOf(id)' = ChildOf(id) /\ LiveChild(id)' = LiveChild(id)
        BY <2>1, <2>3 DEF ChildOf, LiveChild
      <3> QED BY <1>2, <2>1, <3>1 DEF Life!lifeVars
    <2> QED BY <2>2, <2>3
  <1> QED BY <1>10, <1>11, <1>12

LEMMA ShutdownQuits == ASSUME Shutdown, NEW id \in Ids PROVE Life(id)!Quit
  <1>1. /\ Running' = {} /\ UNCHANGED <<manifest, builtins, generation, suppressed>>
    BY DEF Shutdown, Running
  <1>2. ChildOf(id)' = NoPid /\ ~LiveChild(id)'
    BY <1>1 DEF ChildOf, LiveChild
  <1>3. Desired(manifest, builtins)[id]' = Desired(manifest, builtins)[id]
    BY <1>1 DEF Desired
  <1> QED BY <1>1, <1>2, <1>3 DEF Life!Quit

LEMMA ExitExits ==
    ASSUME ProcessAssumption, Inv, ChildExits, NEW id \in Ids
    PROVE  Life(id)!Exit \/ UNCHANGED Life(id)!lifeVars
  <1>1. PICK p \in Pids, status \in Exited :
           procs[p] = "running" /\ procs' = [procs EXCEPT ![p] = status]
    BY DEF ChildExits
  <1>2. /\ UNCHANGED <<manifest, builtins, generation, services, suppressed>>
        /\ Running' = Running
        /\ Desired(manifest, builtins)[id]' = Desired(manifest, builtins)[id]
        /\ ChildOf(id)' = ChildOf(id)
    BY DEF ChildExits, Running, Desired, ChildOf
  <1>3. /\ procs \in [Pids -> {"free", "running"} \cup Exited]
        /\ id \in Running => services[id].child \in Pids
    BY DEF Inv, ChildrenInv, ChildrenTyped, Service
  <1>4. CASE id \in Running /\ services[id].child = p
    <2>1. procs'[p] \in Exited
      BY <1>1, <1>3
    <2>2. LiveChild(id) /\ ~LiveChild(id)' /\ ChildOf(id) = p
      BY <1>1, <1>2, <1>4, <2>1 DEF LiveChild, ChildOf, Exited
    <2>3. ChildOf(id) # NoPid
      BY <2>2 DEF ProcessAssumption
    <2> QED BY <1>2, <2>2, <2>3 DEF Life!Exit
  <1>5. CASE ~(id \in Running /\ services[id].child = p)
    <2>1. LiveChild(id)' = LiveChild(id)
      BY <1>1, <1>2, <1>3, <1>5 DEF LiveChild
    <2> QED BY <1>2, <2>1 DEF Life!lifeVars
  <1> QED BY <1>4, <1>5

\* Every id lives the life of ServiceLife, whatever happens to the others.
THEOREM ProcessesImplementLife == Spec => ServicesLive
  <1> DEFINE Lives == \A id \in Ids : [Life(id)!LifeNext]_(Life(id)!lifeVars)
  <1>1. Init => \A id \in Ids : Life(id)!LifeInit
    <2> SUFFICES ASSUME Init, NEW id \in Ids PROVE Life(id)!LifeInit
      OBVIOUS
    <2>1. Running = {} /\ Desired(manifest, builtins)[id] = NoDecl
      BY DEF Init, Running, Desired
    <2> QED BY <2>1 DEF Init, NoDecl, ChildOf, LiveChild, Life!LifeInit
  <1>2. Inv /\ [Next]_vars => [Lives]_vars
    <2> SUFFICES ASSUME Inv, Next, NEW id \in Ids
                 PROVE  Life(id)!LifeNext \/ UNCHANGED Life(id)!lifeVars
      BY DEF vars
    <2>0. /\ manifest \in Manifests /\ builtins \subseteq BuiltinIds
          /\ generation \in 0 .. MaxGeneration /\ MaxGeneration \in Nat \ {0}
          /\ Spawns \subseteq SUBSET Idle
      BY ProcessAssumption DEF Inv, TypeOK, ProcessAssumption, Spawns
    <2>1. CASE LoadConfig
      <3>1. generation' = 1 /\ generation = 0
        BY <2>1 DEF LoadConfig, Inv, Booted
      <3>2. Life(id)!Configure
        BY <2>0, <2>1, <3>1, ReconcileConfigures, ProcessAssumption DEF LoadConfig
      <3> QED BY <3>2 DEF Life!LifeNext
    <2>2. CASE DeclareBuiltins
      <3>1. generation \in 1 .. MaxGeneration
        BY <2>0, <2>2 DEF DeclareBuiltins, Inv, Booted
      <3>2. Life(id)!Configure
        BY <2>0, <2>2, <3>1, ReconcileConfigures, ProcessAssumption DEF DeclareBuiltins
      <3> QED BY <3>2 DEF Life!LifeNext
    <2>3. CASE LuaDeclares
      <3>1. generation \in 1 .. MaxGeneration
        BY <2>0, <2>3 DEF LuaDeclares, Inv, Booted
      <3>2. manifest' \in Manifests
        BY <2>0, <2>3 DEF LuaDeclares, Manifests
      <3>3. phase = "running" /\ builtins' = builtins /\ generation' = generation
        BY <2>3 DEF LuaDeclares
      <3>4. PICK extra \in Spawns : Reconcile(Desired(manifest', builtins), generation, extra)
        BY <2>3 DEF LuaDeclares
      <3>5. Reconcile(Desired(manifest', builtins'), generation', extra)
        BY <3>3, <3>4
      <3>6. Life(id)!Configure
        BY <2>0, <3>1, <3>2, <3>3, <3>5, ReconcileConfigures, ProcessAssumption
      <3> QED BY <3>6 DEF Life!LifeNext
    <2>4. CASE LuaSpawns
      BY <2>0, <2>4, SpawnStutters DEF LuaSpawns
    <2>5. CASE ReloadConfig
      <3>1. generation' \in 1 .. MaxGeneration /\ generation' = generation + 1
        BY <2>0, <2>5 DEF ReloadConfig
      <3>2. Life(id)!Configure
        BY <2>0, <2>5, <3>1, ReconcileConfigures, ProcessAssumption DEF ReloadConfig
      <3> QED BY <3>2 DEF Life!LifeNext
    <2>6. CASE Tick
      BY <2>6, TickSupervises, ProcessAssumption DEF Life!LifeNext
    <2>7. CASE Shutdown
      BY <2>7, ShutdownQuits DEF Life!LifeNext
    <2>8. CASE ChildExits
      BY <2>8, ExitExits, ProcessAssumption DEF Life!LifeNext
    <2> QED BY <2>1, <2>2, <2>3, <2>4, <2>5, <2>6, <2>7, <2>8 DEF Next
  <1> QED BY <1>1, <1>2, ProcessInvariance, PTL DEF Spec, ServicesLive
=============================================================================

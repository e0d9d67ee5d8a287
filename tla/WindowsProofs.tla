--------------------------- MODULE WindowsProofs ---------------------------
(***************************************************************************)
(* Theorems about the windows, for any toplevels, tokens and scenes of     *)
(* what Lua may queue: no table names a window that is gone, the VM tracks *)
(* each once, a token serves once, and the taskbar is told the truth.  A   *)
(* handler is a function of core; what holds whenever Lua is entered is    *)
(* Tables, and one lemma per function says it is kept.                     *)
(*                                                                         *)
(* And about the keys and buttons that act on them, for any widgets and    *)
(* buttons: a widget and its callbacks live and die together, a drag ends  *)
(* with its button, and a click is seen whole or not at all.               *)
(***************************************************************************)
EXTENDS Windows, Input, QueueProofs, SequenceTheorems, FiniteSetTheorems, TLAPS

-----------------------------------------------------------------------------
(* The inductive invariant.                                                *)

\* No window is stacked twice.
Distinct(s) == \A i, j \in DOMAIN s : s[i] = s[j] => i = j

Scripts ==
  {Idle, [op |-> "clear_focus", at |-> 1]}
    \cup [op : WinOps, win : Toplevels, at : {1, 2}]
    \cup [op : {"reload"}, to : VMs, at : {1, 2}]

Token == [state : {"none", "live", "spent"}, urgent : BOOLEAN, fresh : BOOLEAN,
          uses : Nat, late : BOOLEAN]

\* struct Tomoe, in the middle of a handler too.
Core ==
  [unmapped : SUBSET Toplevels, configured : SUBSET Toplevels,
   dead : SUBSET Toplevels, windows : SUBSET Toplevels, stack : Seq(Toplevels),
   desired : SUBSET Toplevels, props : SUBSET Toplevels, prev : SUBSET Toplevels,
   listed : SUBSET Toplevels, ipc : SUBSET Toplevels,
   focus : Toplevels \cup {Panel, Nobody}, pending : [Toplevels -> Tokens \cup {Nobody}],
   known : [Toplevels -> Nat], vm : VMs, reloads : 0 .. MaxReloads, scene : Scenes,
   layer : {"none", "mapped", "zoned"}, snap : BOOLEAN, script : Scripts,
   token : [Tokens -> Token]]

\* What holds whenever Lua is entered: the tables name windows only, each is
\* stacked once, and the VM, if it manages windows, knows each once.
Tables(c) ==
  /\ c \in Core
  /\ Distinct(c.stack)
  /\ ToSet(c.stack) \cup c.desired \cup c.props \cup c.prev \subseteq c.windows
  /\ c.listed = c.windows
  /\ c.vm # "plain" => \A t \in Toplevels : c.known[t] = IF t \in c.windows THEN 1 ELSE 0

\* A token that was not spent was not used, nor was one that waits for a map,
\* and it waits for one toplevel.
TokenSound(c) ==
  /\ \A k \in Tokens : /\ c.token[k].uses <= 1 /\ ~c.token[k].late
                       /\ c.token[k].state # "spent" => c.token[k].uses = 0
  /\ \A t \in Toplevels : c.pending[t] # Nobody =>
        /\ c.token[c.pending[t]].state = "spent" /\ c.token[c.pending[t]].uses = 0
        /\ \A u \in Toplevels : c.pending[u] = c.pending[t] => u = t

\* When a handler begins or has ended.
Settled(c) ==
  /\ Tables(c) /\ TokenSound(c)
  /\ c.windows \cap c.unmapped = {} /\ c.ipc = c.windows
  /\ \A t \in Toplevels : c.pending[t] # Nobody => t \in c.unmapped

Rested(c) == Settled(c) /\ c.script = Idle

Bar ==
  [manager : {"none", "bound", "stopped"}, output : BOOLEAN,
   tracked : SUBSET Toplevels, todo : SUBSET Toplevels,
   handle : [Toplevels -> {"none", "open", "closed", "destroyed"}],
   active : SUBSET Toplevels, entered : [Toplevels -> Nat],
   info : [Toplevels -> [active : BOOLEAN, over : BOOLEAN]]]

\* What the taskbar was told is what the refresh last saw, of one focused window
\* at most; while a refresh goes on, those it has passed were told of this focus.
BarSound ==
  /\ bar \in Bar
  /\ \A t \in bar.active : bar.handle[t] = "open" /\ bar.info[t].active
  /\ \A t, u \in bar.tracked : bar.info[t].active /\ bar.info[u].active => t = u
  /\ \A t \in Toplevels :
        IF bar.handle[t] = "open" THEN t \in bar.tracked /\ bar.entered[t] = Enters(bar.info[t].over)
        ELSE bar.entered[t] = 0
  /\ bar.todo # {} => \A t \in bar.tracked \ bar.todo : bar.info[t].active => core.focus = t

WindowsInd == Rested(core) /\ BarSound
-----------------------------------------------------------------------------
(* The stacking order.                                                     *)

\* What is taken out is gone, for it was there once.
LEMMA WithoutLemma ==
    ASSUME NEW S, NEW s \in Seq(S), NEW t, Distinct(s)
    PROVE  /\ Without(s, t) \in Seq(S) /\ Distinct(Without(s, t))
           /\ ToSet(Without(s, t)) = ToSet(s) \ {t}
  <1>0. /\ Len(s) \in Nat /\ DOMAIN s = 1 .. Len(s)
        /\ \A i \in 1 .. Len(s) : s[i] \in S
        /\ \A i, j \in 1 .. Len(s) : s[i] = s[j] => i = j
    BY DEF Distinct
  <1>1. CASE ~\E i \in 1 .. Len(s) : s[i] = t
    <2>1. Without(s, t) = s
      BY <1>1 DEF Without, RemoveFirst
    <2>2. t \notin ToSet(s)
      BY <1>0, <1>1 DEF ToSet
    <2> QED
      BY <2>1, <2>2
  <1>2. ASSUME NEW n \in 1 .. Len(s), s[n] = t
        PROVE  /\ Without(s, t) \in Seq(S) /\ Distinct(Without(s, t))
               /\ ToSet(Without(s, t)) = ToSet(s) \ {t}
    <2> DEFINE at == {i \in 1 .. Len(s) : s[i] = t}
    <2>1. at = {n}
      BY <1>0, <1>2
    <2>2. Min(at) = n
      BY <2>1, <1>0 DEF Min
    <2>3. SelectInSeq(s, LAMBDA v : v = t) = n
      BY <2>1, <2>2 DEF SelectInSeq
    <2>4. PICK r : r = Without(s, t)
      OBVIOUS
    <2>5. r = SubSeq(s, 1, n - 1) \o SubSeq(s, n + 1, Len(s))
      BY <1>2, <2>3, <2>4 DEF Without, RemoveFirst, RemoveAt
    <2> DEFINE a == SubSeq(s, 1, n - 1)
               b == SubSeq(s, n + 1, Len(s))
    <2>a. a \in Seq(S) /\ Len(a) = n - 1 /\ \A i \in 1 .. n - 1 : a[i] = s[i]
      BY <1>0, SubSeqProperties
    <2>b. b \in Seq(S) /\ Len(b) = Len(s) - n /\ \A i \in 1 .. Len(s) - n : b[i] = s[n + i]
      <3>1. n + 1 \in Int /\ Len(s) \in Int /\ \A i \in n + 1 .. Len(s) : s[i] \in S
        BY <1>0
      <3>2. /\ b \in Seq(S) /\ Len(b) = IF n + 1 <= Len(s) THEN Len(s) - (n + 1) + 1 ELSE 0
            /\ \A i \in 1 .. Len(s) - (n + 1) + 1 : b[i] = s[n + 1 + i - 1]
        BY <3>1, SubSeqProperties
      <3> HIDE DEF b
      <3>3. Len(b) = Len(s) - n /\ Len(s) - (n + 1) + 1 = Len(s) - n
        <4>1. n \in Nat /\ n <= Len(s) /\ Len(s) \in Nat
          BY <1>0
        <4> QED
          BY <3>2, <4>1
      <3>4. ASSUME NEW i \in 1 .. Len(s) - n PROVE b[i] = s[n + i]
        <4>1. n + 1 + i - 1 = n + i
          BY <1>0
        <4> QED
          BY <3>2, <3>3, <4>1
      <3> QED
        BY <3>2, <3>3, <3>4
    <2>6. /\ r \in Seq(S) /\ Len(r) = Len(s) - 1 /\ DOMAIN r = 1 .. Len(r)
          /\ \A i \in 1 .. Len(r) : r[i] = IF i < n THEN s[i] ELSE s[i + 1]
      <3> HIDE DEF a, b
      <3>1. r = a \o b
        BY <2>5 DEF a, b
      <3>2. r \in Seq(S) /\ Len(r) = Len(s) - 1 /\ DOMAIN r = 1 .. Len(r)
        <4>1. r \in Seq(S) /\ Len(r) = Len(a) + Len(b)
          BY <2>a, <2>b, <3>1, ConcatProperties
        <4> QED
          BY <1>0, <2>a, <2>b, <4>1
      <3>3. ASSUME NEW i \in 1 .. Len(r) PROVE r[i] = IF i < n THEN s[i] ELSE s[i + 1]
        <4>1. r[i] = IF i <= Len(a) THEN a[i] ELSE b[i - Len(a)]
          BY <2>a, <2>b, <3>1, <3>2
        <4>2. CASE i < n
          BY <1>0, <2>a, <4>1, <4>2
        <4>3. CASE ~(i < n)
          <5>1. i - Len(a) \in 1 .. Len(s) - n /\ n + (i - Len(a)) = i + 1
            BY <1>0, <2>a, <3>2, <4>3
          <5> QED
            BY <1>0, <2>a, <2>b, <4>1, <4>3, <5>1
        <4> QED
          BY <4>2, <4>3
      <3> QED
        BY <3>2, <3>3
    <2>7. Distinct(r)
      BY <1>0, <2>6 DEF Distinct
    <2>8. \A x : x \in ToSet(r) <=> x \in ToSet(s) /\ x # t
      <3>1. ASSUME NEW i \in 1 .. Len(r) PROVE r[i] \in ToSet(s) /\ r[i] # t
        <4>1. PICK j : j = IF i < n THEN i ELSE i + 1
          OBVIOUS
        <4>2. j \in 1 .. Len(s) /\ j # n /\ r[i] = s[j]
          BY <1>0, <2>6, <4>1
        <4> QED
          BY <1>0, <1>2, <4>2 DEF ToSet
      <3>2. ASSUME NEW i \in 1 .. Len(s), s[i] # t PROVE s[i] \in ToSet(r)
        <4>1. CASE i < n
          BY <1>0, <2>6, <4>1 DEF ToSet
        <4>2. CASE i > n
          <5>1. i - 1 \in 1 .. Len(r) /\ r[i - 1] = s[i]
            BY <1>0, <2>6, <4>2
          <5> QED
            BY <5>1, <2>6 DEF ToSet
        <4> QED
          BY <1>0, <1>2, <3>2, <4>1, <4>2
      <3> QED
        BY <1>0, <2>6, <3>1, <3>2 DEF ToSet
    <2> QED
      BY <2>4, <2>6, <2>7, <2>8
  <1> QED
    BY <1>1, <1>2

\* What is put on top was not there.
LEMMA AppendLemma ==
    ASSUME NEW S, NEW s \in Seq(S), NEW t \in S, Distinct(s), t \notin ToSet(s)
    PROVE  /\ Append(s, t) \in Seq(S) /\ Distinct(Append(s, t))
           /\ ToSet(Append(s, t)) = ToSet(s) \cup {t}
  <1>1. PICK r : r = Append(s, t)
    OBVIOUS
  <1>2. /\ r \in Seq(S) /\ Len(r) = Len(s) + 1 /\ DOMAIN r = 1 .. Len(r) /\ Len(s) \in Nat
        /\ \A i \in 1 .. Len(s) : r[i] = s[i]
        /\ r[Len(s) + 1] = t /\ DOMAIN s = 1 .. Len(s)
    BY <1>1
  <1>3. Distinct(r)
    BY <1>2 DEF Distinct, ToSet
  <1>4. \A x : x \in ToSet(r) <=> x \in ToSet(s) \cup {t}
    BY <1>2 DEF ToSet
  <1> QED
    BY <1>1, <1>2, <1>3, <1>4

\* A window that is placed or raised is there once.
LEMMA PlaceLemma ==
    ASSUME NEW s \in Seq(Toplevels), NEW t \in Toplevels, Distinct(s)
    PROVE  /\ Place(s, t) \in Seq(Toplevels) /\ Distinct(Place(s, t))
           /\ ToSet(Place(s, t)) = ToSet(s) \cup {t}
  <1>1. CASE t \in ToSet(s)
    BY <1>1 DEF Place
  <1>2. CASE t \notin ToSet(s)
    BY <1>2, AppendLemma DEF Place
  <1> QED
    BY <1>1, <1>2

LEMMA RaiseLemma ==
    ASSUME NEW s \in Seq(Toplevels), NEW t, Distinct(s)
    PROVE  /\ Raise(s, t) \in Seq(Toplevels) /\ Distinct(Raise(s, t))
           /\ ToSet(Raise(s, t)) = ToSet(s)
  <1>1. CASE t \in ToSet(s)
    <2>1. t \in Toplevels
      BY <1>1 DEF ToSet
    <2>2. PICK w : w = Without(s, t)
      OBVIOUS
    <2>3. w \in Seq(Toplevels) /\ Distinct(w) /\ ToSet(w) = ToSet(s) \ {t}
      BY <2>2, WithoutLemma
    <2>4. /\ Append(w, t) \in Seq(Toplevels) /\ Distinct(Append(w, t))
          /\ ToSet(Append(w, t)) = ToSet(w) \cup {t}
      BY <2>1, <2>3, AppendLemma
    <2>5. Raise(s, t) = Append(w, t)
      BY <1>1, <2>2 DEF Raise
    <2> QED
      BY <1>1, <2>3, <2>4, <2>5
  <1>2. CASE t \notin ToSet(s)
    BY <1>2 DEF Raise
  <1> QED
    BY <1>1, <1>2

-----------------------------------------------------------------------------
(* Entering Lua.                                                           *)

\* What Lua, a reload and the focus leave alone.
SameWorld(c, d) ==
  /\ d.unmapped = c.unmapped /\ d.windows = c.windows /\ d.ipc = c.ipc
  /\ d.pending = c.pending /\ d.token = c.token

\* d is what became of c when Lua had its turn.
Turn(c, d) == Tables(d) /\ SameWorld(c, d)

LEMMA TurnTwice ==
    ASSUME NEW c, NEW d, NEW x, Turn(c, d), Turn(d, x)
    PROVE  Turn(c, x)
  BY DEF Turn, SameWorld

\* Tables that lose entries, or get them for windows, are kept.
LEMMA TablesKept ==
    ASSUME NEW c, Tables(c), NEW d \in Core, SameWorld(c, d), d.listed = c.listed,
           d.vm = c.vm, d.known = c.known, Distinct(d.stack),
           ToSet(d.stack) \cup d.desired \cup d.props \cup d.prev \subseteq c.windows
    PROVE  Turn(c, d)
  BY DEF Turn, Tables, SameWorld

\* The snapshot is nobody's invariant.
LEMMA SyncLemma ==
    ASSUME NEW c, Tables(c)
    PROVE  Turn(c, Sync(c))
  <1>1. PICK d : d = Sync(c)
    OBVIOUS
  <1>2. d = [c EXCEPT !.snap = c.layer = "zoned"]
    BY <1>1 DEF Sync, Zone
  <1>3. c \in Core
    BY DEF Tables
  <1>4. /\ d \in Core /\ SameWorld(c, d) /\ d.listed = c.listed /\ d.vm = c.vm /\ d.known = c.known
        /\ d.stack = c.stack /\ d.desired = c.desired /\ d.props = c.props /\ d.prev = c.prev
    BY <1>2, <1>3 DEF Core, SameWorld
  <1> QED
    BY <1>1, <1>4, TablesKept DEF Tables

\* An operation moves what is a window and ignores the rest.
LEMMA ApplyOpLemma ==
    ASSUME NEW c, Tables(c), NEW e \in [op : WinOps, win : Toplevels, at : {1, 2}]
    PROVE  Turn(c, ApplyOp(c, e))
  <1>1. c \in Core /\ e.op \in WinOps /\ e.win \in Toplevels
    BY DEF Tables
  <1>2. /\ c.stack \in Seq(Toplevels) /\ Distinct(c.stack)
        /\ ToSet(c.stack) \cup c.desired \cup c.props \cup c.prev \subseteq c.windows
    BY <1>1 DEF Tables, Core
  <1>3. PICK d : d = ApplyOp(c, e)
    OBVIOUS
  <1>4. CASE e.win \notin c.windows
    BY <1>1, <1>3, <1>4 DEF ApplyOp, WinOps, Turn, SameWorld
  <1>5. ASSUME e.win \in c.windows PROVE Turn(c, d)
    <2>1. PICK p : p = Place(c.stack, e.win)
      OBVIOUS
    <2>2. PICK q : q = Raise(c.stack, e.win)
      OBVIOUS
    <2>3. PICK r : r = Without(c.stack, e.win)
      OBVIOUS
    <2>4. p \in Seq(Toplevels) /\ Distinct(p) /\ ToSet(p) \subseteq c.windows
      BY <1>1, <1>2, <1>5, <2>1, PlaceLemma
    <2>5. q \in Seq(Toplevels) /\ Distinct(q) /\ ToSet(q) \subseteq c.windows
      BY <1>2, <2>2, RaiseLemma
    <2>6. r \in Seq(Toplevels) /\ Distinct(r) /\ ToSet(r) \subseteq c.windows
      BY <1>2, <2>3, WithoutLemma
    <2>7. \/ d = [c EXCEPT !.desired = @ \cup {e.win}, !.stack = p]
          \/ d = [c EXCEPT !.props = @ \cup {e.win}]
          \/ d = [c EXCEPT !.stack = p]
          \/ d = [c EXCEPT !.stack = r]
          \/ d = [c EXCEPT !.focus = e.win, !.stack = q]
          \/ d = [c EXCEPT !.stack = q]
      BY <1>1, <1>3, <1>5, <2>1, <2>2, <2>3 DEF ApplyOp, WinOps
    <2>8. /\ d \in Core /\ SameWorld(c, d) /\ d.listed = c.listed /\ d.vm = c.vm /\ d.known = c.known
          /\ d.stack \in {c.stack, p, q, r} /\ d.desired \subseteq c.desired \cup {e.win}
          /\ d.props \subseteq c.props \cup {e.win} /\ d.prev = c.prev
      <3>1. CASE d = [c EXCEPT !.desired = @ \cup {e.win}, !.stack = p]
        BY <1>1, <2>4, <3>1 DEF Core, SameWorld
      <3>2. CASE d = [c EXCEPT !.props = @ \cup {e.win}]
        BY <1>1, <3>2 DEF Core, SameWorld
      <3>3. CASE d = [c EXCEPT !.stack = p]
        BY <1>1, <2>4, <3>3 DEF Core, SameWorld
      <3>4. CASE d = [c EXCEPT !.stack = r]
        BY <1>1, <2>6, <3>4 DEF Core, SameWorld
      <3>5. CASE d = [c EXCEPT !.focus = e.win, !.stack = q]
        BY <1>1, <2>5, <3>5 DEF Core, SameWorld
      <3>6. CASE d = [c EXCEPT !.stack = q]
        BY <1>1, <2>5, <3>6 DEF Core, SameWorld
      <3> QED
        BY <2>7, <3>1, <3>2, <3>3, <3>4, <3>5, <3>6
    <2> QED
      BY <1>2, <1>5, <2>4, <2>5, <2>6, <2>8, TablesKept
  <1> QED
    BY <1>3, <1>4, <1>5

\* The fresh VM knows each window once.
LEMMA ReloadLemma ==
    ASSUME NEW c, Tables(c), NEW to \in VMs
    PROVE  Turn(c, Reload(c, to))
  <1>1. c \in Core /\ c.reloads \in 0 .. MaxReloads /\ MaxReloads \in Nat /\ c.known \in [Toplevels -> Nat]
    BY WindowAssumption DEF Tables, Core
  <1>2. CASE c.reloads = MaxReloads
    BY <1>2 DEF Reload, Turn, SameWorld
  <1>3. CASE c.reloads # MaxReloads
    <2>1. PICK k : k = Learned(c, to)
      OBVIOUS
    <2>2. /\ k \in [Toplevels -> Nat]
          /\ to # "plain" => \A t \in Toplevels : k[t] = IF t \in c.windows THEN 1 ELSE 0
      BY <1>1, <2>1 DEF Learned, Tables, VMs
    <2>3. PICK d : d = Reload(c, to)
      OBVIOUS
    <2>4. d = [c EXCEPT !.vm = to, !.known = k, !.props = {}, !.snap = c.layer = "zoned",
                        !.reloads = @ + 1]
      BY <1>3, <2>1, <2>3 DEF Reload, Zone
    <2>5. c.reloads + 1 \in 0 .. MaxReloads
      BY <1>1, <1>3
    <2>6. d \in Core
      BY <1>1, <2>2, <2>4, <2>5 DEF Core
    <2>7. /\ SameWorld(c, d) /\ d.listed = c.listed /\ d.vm = to /\ d.known = k
          /\ d.stack = c.stack /\ d.desired = c.desired /\ d.props = {} /\ d.prev = c.prev
      BY <1>1, <2>4 DEF Core, SameWorld
    <2> QED
      BY <2>2, <2>3, <2>6, <2>7 DEF Turn, Tables, SameWorld
  <1> QED
    BY <1>2, <1>3

\* The script is at another hook, or spent.
LEMMA ScriptLemma ==
    ASSUME NEW c, Tables(c), NEW e \in Scripts
    PROVE  LET d == [c EXCEPT !.script = e]
           IN  Turn(c, d) /\ d.script = e
  <1>1. PICK d : d = [c EXCEPT !.script = e]
    OBVIOUS
  <1>2. c \in Core
    BY DEF Tables
  <1>3. /\ d \in Core /\ SameWorld(c, d) /\ d.listed = c.listed /\ d.vm = c.vm /\ d.known = c.known
        /\ d.stack = c.stack /\ d.desired = c.desired /\ d.props = c.props /\ d.prev = c.prev
        /\ d.script = e
    BY <1>1, <1>2 DEF Core, SameWorld
  <1>4. Turn(c, d)
    BY <1>3, TablesKept DEF Tables
  <1> QED
    BY <1>1, <1>3, <1>4

\* Lua runs what the script has for this hook, and its operations are applied.
LEMMA EnterLemma ==
    ASSUME NEW c, Tables(c)
    PROVE  Turn(c, Enter(c))
  <1>1. c \in Core /\ c.script \in Scripts
    BY DEF Tables, Core
  <1>2. PICK e : e = c.script
    OBVIOUS
  <1>3. PICK d : d = [c EXCEPT !.script = Idle]
    OBVIOUS
  <1>4. Idle \in Scripts /\ Turn(c, d)
    <2>1. Idle \in Scripts
      BY DEF Scripts
    <2> QED
      BY <1>3, <2>1, ScriptLemma
  <1>5. CASE e = Idle
    <2>1. Enter(c) = Sync(c)
      BY <1>2, <1>5 DEF Enter, Idle
    <2> QED
      BY <2>1, SyncLemma
  <1>6. CASE e = [op |-> "clear_focus", at |-> 1]
    <2>1. PICK x : x = [d EXCEPT !.focus = Nobody]
      OBVIOUS
    <2>a. e.op = "clear_focus" /\ e.at = 1
      BY <1>6
    <2>b. ApplyOp(d, e) = x
      BY <2>1, <2>a DEF ApplyOp, WinOps
    <2>2. Enter(c) = Sync(x)
      BY <1>2, <1>3, <2>a, <2>b DEF Enter
    <2>3. d \in Core
      BY <1>4 DEF Turn, Tables
    <2>4. /\ x \in Core /\ SameWorld(d, x) /\ x.listed = d.listed /\ x.vm = d.vm /\ x.known = d.known
          /\ x.stack = d.stack /\ x.desired = d.desired /\ x.props = d.props /\ x.prev = d.prev
      BY <2>1, <2>3 DEF Core, SameWorld
    <2>5. Turn(d, x)
      BY <1>4, <2>4, TablesKept DEF Turn, Tables
    <2>6. Turn(x, Sync(x))
      BY <2>5, SyncLemma DEF Turn
    <2> QED
      BY <1>4, <2>2, <2>5, <2>6, TurnTwice
  <1>7. ASSUME e \in [op : WinOps, win : Toplevels, at : {1, 2}] \/ e \in [op : {"reload"}, to : VMs, at : {1, 2}],
               e.at = 2
        PROVE  Turn(c, Enter(c))
    <2>1. PICK f : f = [e EXCEPT !.at = @ - 1]
      OBVIOUS
    <2>2. f \in Scripts
      <3>1. e.at - 1 = 1
        BY <1>7
      <3>2. CASE e \in [op : WinOps, win : Toplevels, at : {1, 2}]
        BY <2>1, <3>1, <3>2 DEF Scripts
      <3>3. CASE e \in [op : {"reload"}, to : VMs, at : {1, 2}]
        BY <2>1, <3>1, <3>3 DEF Scripts
      <3> QED
        BY <1>7, <3>2, <3>3
    <2>3. PICK x : x = [c EXCEPT !.script = f]
      OBVIOUS
    <2>4. e.op # "idle" /\ e.at > 1
      BY <1>7 DEF WinOps
    <2>5. Enter(c) = Sync(x)
      BY <1>2, <2>1, <2>3, <2>4 DEF Enter
    <2>6. Turn(c, x)
      BY <2>2, <2>3, ScriptLemma
    <2>7. Turn(x, Sync(x))
      BY <2>6, SyncLemma DEF Turn
    <2> QED
      BY <2>5, <2>6, <2>7, TurnTwice
  <1>8. ASSUME e \in [op : WinOps, win : Toplevels, at : {1, 2}], e.at = 1
        PROVE  Turn(c, Enter(c))
    <2>1. PICK x : x = ApplyOp(d, e)
      OBVIOUS
    <2>2. Enter(c) = Sync(x)
      BY <1>2, <1>3, <1>8, <2>1 DEF Enter, WinOps
    <2>3. Turn(d, x)
      BY <1>4, <1>8, <2>1, ApplyOpLemma DEF Turn
    <2>4. Turn(x, Sync(x))
      BY <2>3, SyncLemma DEF Turn
    <2> QED
      BY <1>4, <2>2, <2>3, <2>4, TurnTwice
  <1>9. ASSUME e \in [op : {"reload"}, to : VMs, at : {1, 2}], e.at = 1
        PROVE  Turn(c, Enter(c))
    <2>1. PICK x : x = Reload(d, e.to)
      OBVIOUS
    <2>2. Enter(c) = Sync(x)
      BY <1>2, <1>3, <1>9, <2>1 DEF Enter
    <2>3. Turn(d, x)
      BY <1>4, <1>9, <2>1, ReloadLemma DEF Turn
    <2>4. Turn(x, Sync(x))
      BY <2>3, SyncLemma DEF Turn
    <2> QED
      BY <1>4, <2>2, <2>3, <2>4, TurnTwice
  <1>10. \/ e \in [op : WinOps, win : Toplevels, at : {1, 2}] \/ e \in [op : {"reload"}, to : VMs, at : {1, 2}]
         \/ e = Idle \/ e = [op |-> "clear_focus", at |-> 1]
    BY <1>1, <1>2 DEF Scripts
  <1> QED
    BY <1>5, <1>6, <1>7, <1>8, <1>9, <1>10

LEMMA HookLemma ==
    ASSUME NEW c, Tables(c)
    PROVE  Turn(c, Hook(c))
  BY EnterLemma, SyncLemma DEF Hook

LEMMA AskLemma ==
    ASSUME NEW c, Tables(c)
    PROVE  Turn(c, Ask(c))
  BY EnterLemma DEF Ask, Turn, SameWorld

\* The focus may go to a window, the panel or nobody.
LEMMA FocusWindowLemma ==
    ASSUME NEW c, Tables(c), NEW t \in Toplevels \cup {Panel, Nobody}
    PROVE  Turn(c, FocusWindow(c, t))
  <1>1. c \in Core /\ c.stack \in Seq(Toplevels) /\ Distinct(c.stack)
    BY DEF Tables, Core
  <1>2. PICK q : q = Raise(c.stack, t)
    OBVIOUS
  <1>3. q \in Seq(Toplevels) /\ Distinct(q) /\ ToSet(q) = ToSet(c.stack)
    BY <1>1, <1>2, RaiseLemma
  <1>4. PICK d : d = [c EXCEPT !.focus = t, !.stack = q, !.snap = c.layer = "zoned"]
    OBVIOUS
  <1>5. FocusWindow(c, t) = Hook(d)
    BY <1>2, <1>4 DEF FocusWindow, Zone
  <1>6. /\ d \in Core /\ SameWorld(c, d) /\ d.listed = c.listed /\ d.vm = c.vm /\ d.known = c.known
        /\ d.stack = q /\ d.desired = c.desired /\ d.props = c.props /\ d.prev = c.prev
    BY <1>1, <1>3, <1>4 DEF Core, SameWorld
  <1>7. Turn(c, d)
    BY <1>3, <1>6, TablesKept DEF Tables
  <1>8. Turn(d, Hook(d))
    BY <1>7, HookLemma DEF Turn
  <1> QED
    BY <1>5, <1>7, <1>8, TurnTwice

LEMMA TopmostLemma ==
    ASSUME NEW c, Tables(c)
    PROVE  Topmost(c) \in Toplevels \cup {Panel, Nobody}
  <1>1. c.stack \in Seq(Toplevels)
    BY DEF Tables, Core
  <1>2. CASE c.stack = << >>
    BY <1>2 DEF Topmost
  <1>3. CASE c.stack # << >>
    <2>1. Len(c.stack) \in 1 .. Len(c.stack)
      BY <1>1, <1>3, EmptySeq, LenProperties
    <2> QED
      BY <1>1, <1>3, <2>1, ElementOfSeq DEF Topmost, Last
  <1> QED
    BY <1>2, <1>3

\* What Lua leaves alone is what the handlers keep between themselves.
LEMMA SettledTurn ==
    ASSUME NEW c, Settled(c), NEW d, Turn(c, d)
    PROVE  Settled(d)
  BY DEF Settled, Turn, SameWorld, TokenSound

-----------------------------------------------------------------------------
(* Tokens.                                                                 *)

\* A token that was not used, and is fresh, is used once and in time.
LEMMA UseLemma ==
    ASSUME NEW c, Tables(c), TokenSound(c), NEW k \in Tokens,
           c.token[k].state = "spent", c.token[k].uses = 0, c.token[k].fresh,
           \A t \in Toplevels : c.pending[t] # k
    PROVE  /\ Tables(Use(c, k)) /\ TokenSound(Use(c, k))
           /\ Use(c, k).windows = c.windows /\ Use(c, k).unmapped = c.unmapped
           /\ Use(c, k).ipc = c.ipc /\ Use(c, k).pending = c.pending
  <1>1. c \in Core /\ c.token \in [Tokens -> Token] /\ c.token[k] \in Token
    BY DEF Tables, Core
  <1>2. PICK x : x = [c.token[k] EXCEPT !.uses = 1, !.late = FALSE]
    OBVIOUS
  <1>a. (c.token[k].late \/ ~c.token[k].fresh) = FALSE
    BY DEF TokenSound
  <1>b. (IF c.token[k].uses < 2 THEN c.token[k].uses + 1 ELSE c.token[k].uses) = 1
    OBVIOUS
  <1>3. x \in Token /\ x.state = "spent" /\ x.uses = 1 /\ ~x.late
    BY <1>1, <1>2 DEF Token
  <1>4. PICK tok : tok = [c.token EXCEPT ![k] = x]
    OBVIOUS
  <1>5. PICK d : d = Use(c, k)
    OBVIOUS
  <1>6. d = [c EXCEPT !.token = tok]
    BY <1>2, <1>4, <1>5, <1>a, <1>b DEF Use
  <1>7. tok \in [Tokens -> Token] /\ tok[k] = x /\ \A j \in Tokens : j # k => tok[j] = c.token[j]
    BY <1>1, <1>3, <1>4
  <1>8. /\ d \in Core /\ d.windows = c.windows /\ d.unmapped = c.unmapped /\ d.ipc = c.ipc
        /\ d.pending = c.pending /\ d.token = tok
        /\ d.listed = c.listed /\ d.vm = c.vm /\ d.known = c.known
        /\ d.stack = c.stack /\ d.desired = c.desired /\ d.props = c.props /\ d.prev = c.prev
    BY <1>1, <1>6, <1>7 DEF Core
  <1>9. Tables(d)
    BY <1>8 DEF Tables
  <1>10. c.pending \in [Toplevels -> Tokens \cup {Nobody}]
    BY <1>1 DEF Core
  <1>11. TokenSound(d)
    BY <1>3, <1>7, <1>8, <1>10 DEF TokenSound
  <1> QED
    BY <1>5, <1>8, <1>9, <1>11
\* The window t is mapped: a token that waited for it is used, or dropped.
Mapping(c, t) ==
  /\ Tables(c) /\ TokenSound(c) /\ t \in c.windows
  /\ c.windows \cap c.unmapped = {} /\ c.ipc = c.windows
  /\ \A u \in Toplevels : c.pending[u] # Nobody => u \in c.unmapped \/ u = t

LEMMA RedeemLemma ==
    ASSUME NEW c, NEW t, Mapping(c, t), NEW yes \in BOOLEAN
    PROVE  Settled(Redeem(c, t, yes))
  <1>1. c \in Core /\ c.pending \in [Toplevels -> Tokens \cup {Nobody}] /\ t \in Toplevels
    BY DEF Mapping, Tables, Core
  <1>2. PICK k : k = c.pending[t]
    OBVIOUS
  <1>3. PICK p : p = [c.pending EXCEPT ![t] = Nobody]
    OBVIOUS
  <1>4. PICK d : d = [c EXCEPT !.pending[t] = Nobody]
    OBVIOUS
  <1>5. /\ p \in [Toplevels -> Tokens \cup {Nobody}] /\ p[t] = Nobody
        /\ \A u \in Toplevels : u # t => p[u] = c.pending[u]
    BY <1>1, <1>3
  <1>6. /\ d \in Core /\ d.windows = c.windows /\ d.unmapped = c.unmapped /\ d.ipc = c.ipc
        /\ d.pending = p /\ d.token = c.token
        /\ d.listed = c.listed /\ d.vm = c.vm /\ d.known = c.known
        /\ d.stack = c.stack /\ d.desired = c.desired /\ d.props = c.props /\ d.prev = c.prev
    BY <1>1, <1>3, <1>4, <1>5 DEF Core
  <1>7. Tables(d)
    BY <1>6 DEF Mapping, Tables
  <1>8. TokenSound(d)
    BY <1>5, <1>6 DEF Mapping, TokenSound
  <1>9. \A u \in Toplevels : d.pending[u] # Nobody => u \in d.unmapped
    BY <1>5, <1>6 DEF Mapping
  <1>10. d.windows \cap d.unmapped = {} /\ d.ipc = d.windows
    BY <1>6 DEF Mapping
  <1>11. Settled(d)
    BY <1>7, <1>8, <1>9, <1>10 DEF Settled
  <1>12. CASE k = Nobody \/ ~c.token[k].fresh
    <2>1. Redeem(c, t, yes) = d
      BY <1>2, <1>4, <1>12 DEF Redeem
    <2> QED
      BY <1>11, <2>1
  <1>13. ASSUME k # Nobody, c.token[k].fresh
         PROVE  Settled(Redeem(c, t, yes))
    <2>1. k \in Tokens
      BY <1>1, <1>2, <1>13
    <2>2. d.token[k].state = "spent" /\ d.token[k].uses = 0 /\ d.token[k].fresh
      BY <1>1, <1>2, <1>6, <1>13 DEF Mapping, TokenSound
    <2>3. \A u \in Toplevels : d.pending[u] # k
      BY <1>1, <1>2, <1>5, <1>6, <1>13 DEF Mapping, TokenSound
    <2>4. PICK w : w = Use(d, k)
      OBVIOUS
    <2>5. /\ Tables(w) /\ TokenSound(w) /\ w.windows = d.windows /\ w.unmapped = d.unmapped
          /\ w.ipc = d.ipc /\ w.pending = d.pending
      BY <1>7, <1>8, <2>1, <2>2, <2>3, <2>4, UseLemma
    <2>6. Settled(w)
      BY <1>9, <1>10, <2>5 DEF Settled
    <2>7. PICK a : a = Ask(w)
      OBVIOUS
    <2>8. Turn(w, a)
      BY <2>5, <2>7, AskLemma
    <2>9. Turn(a, FocusWindow(a, t))
      BY <1>1, <2>8, FocusWindowLemma DEF Turn
    <2>10. Settled(a) /\ Settled(FocusWindow(a, t))
      BY <2>6, <2>8, <2>9, SettledTurn
    <2>11. Redeem(c, t, yes) \in {a, FocusWindow(a, t)}
      BY <1>2, <1>4, <1>13, <2>4, <2>7 DEF Redeem
    <2> QED
      BY <2>10, <2>11
  <1> QED
    BY <1>12, <1>13

-----------------------------------------------------------------------------
(* Windows come and go.                                                    *)

\* The policy places the window, or the core does.
LEMMA PolicyLemma ==
    ASSUME NEW c, NEW t \in Toplevels, c \in Core, Distinct(c.stack),
           ToSet(c.stack) \cup c.desired \cup c.props \cup c.prev \subseteq c.windows,
           c.listed = c.windows, t \in c.windows,
           c.vm # "plain" =>
             \A u \in Toplevels : c.known[u] = IF u \in c.windows \ {t} THEN 1 ELSE 0
    PROVE  Turn(c, Policy(c, t))
  <1>1. CASE c.vm = "plain"
    <2>1. PICK p : p = Place(c.stack, t)
      OBVIOUS
    <2>2. c.stack \in Seq(Toplevels)
      BY DEF Core
    <2>3. p \in Seq(Toplevels) /\ Distinct(p) /\ ToSet(p) = ToSet(c.stack) \cup {t}
      BY <2>1, <2>2, PlaceLemma
    <2>4. Tables(c)
      BY <1>1 DEF Tables
    <2>5. PICK x : x = [c EXCEPT !.stack = p]
      OBVIOUS
    <2>6. /\ x \in Core /\ SameWorld(c, x) /\ x.listed = c.listed /\ x.vm = c.vm /\ x.known = c.known
          /\ x.stack = p /\ x.desired = c.desired /\ x.props = c.props /\ x.prev = c.prev
      BY <2>3, <2>5 DEF Core, SameWorld
    <2>7. Turn(c, x)
      BY <2>3, <2>4, <2>6, TablesKept
    <2>8. PICK y : y = FocusWindow(x, t)
      OBVIOUS
    <2>9. Turn(x, y)
      BY <2>7, <2>8, FocusWindowLemma DEF Turn
    <2>10. Turn(y, Enter(y))
      BY <2>9, EnterLemma DEF Turn
    <2>11. Policy(c, t) = Enter(y)
      BY <1>1, <2>1, <2>5, <2>8 DEF Policy, HasHooks
    <2> QED
      BY <2>7, <2>9, <2>10, <2>11, TurnTwice
  <1>2. CASE c.vm # "plain"
    <2>1. c.known \in [Toplevels -> Nat] /\ c.known[t] = 0
      BY <1>2 DEF Core
    <2>2. PICK k : k = [c.known EXCEPT ![t] = 1]
      OBVIOUS
    <2>3. k \in [Toplevels -> Nat] /\ \A u \in Toplevels : k[u] = IF u \in c.windows THEN 1 ELSE 0
      BY <1>2, <2>1, <2>2
    <2>4. PICK x : x = [c EXCEPT !.known = k]
      OBVIOUS
    <2>5. /\ x \in Core /\ SameWorld(c, x) /\ x.listed = c.listed /\ x.vm = c.vm /\ x.known = k
          /\ x.stack = c.stack /\ x.desired = c.desired /\ x.props = c.props /\ x.prev = c.prev
      BY <2>3, <2>4 DEF Core, SameWorld
    <2>6. Turn(c, x)
      BY <2>3, <2>5 DEF Turn, Tables, SameWorld
    <2>7. [c EXCEPT !.known[t] = IF @ < 2 THEN @ + 1 ELSE @] = x
      <3>1. (IF c.known[t] < 2 THEN c.known[t] + 1 ELSE c.known[t]) = 1
        BY <2>1
      <3> QED
        BY <2>2, <2>4, <3>1
    <2>8. PICK y : y = Sync(x)
      OBVIOUS
    <2>9. Turn(x, y)
      BY <2>6, <2>8, SyncLemma DEF Turn
    <2>10. Turn(y, Enter(y))
      BY <2>9, EnterLemma DEF Turn
    <2>11. Policy(c, t) = Enter(y)
      BY <1>2, <2>7, <2>8 DEF Policy, HasHooks
    <2> QED
      BY <2>6, <2>9, <2>10, <2>11, TurnTwice
  <1> QED
    BY <1>1, <1>2

LEMMA AddWindowLemma ==
    ASSUME NEW c, Settled(c), NEW t \in c.unmapped, NEW yes \in BOOLEAN
    PROVE  Settled(AddWindow(c, t, yes))
  <1>1. c \in Core /\ t \in Toplevels /\ t \notin c.windows
    BY DEF Settled, Tables, Core
  <1>2. PICK in : in = [c EXCEPT !.unmapped = @ \ {t}, !.windows = @ \cup {t},
                                 !.listed = @ \cup {t}]
    OBVIOUS
  <1>3. /\ in \in Core /\ in.unmapped = c.unmapped \ {t} /\ in.windows = c.windows \cup {t}
        /\ in.listed = c.listed \cup {t} /\ in.ipc = c.ipc /\ in.pending = c.pending
        /\ in.token = c.token /\ in.vm = c.vm /\ in.known = c.known
        /\ in.stack = c.stack /\ in.desired = c.desired /\ in.props = c.props /\ in.prev = c.prev
    BY <1>1, <1>2 DEF Core
  <1>4. PICK p : p = Policy(in, t)
    OBVIOUS
  <1>5. Turn(in, p)
    <2>1. in.windows \ {t} = c.windows
      BY <1>1, <1>3
    <2> QED
      BY <1>1, <1>3, <1>4, <2>1, PolicyLemma DEF Settled, Tables
  <1>6. PICK q : q = [p EXCEPT !.ipc = @ \cup {t}]
    OBVIOUS
  <1>7. p \in Core
    BY <1>5 DEF Turn, Tables
  <1>8. /\ q \in Core /\ q.ipc = p.ipc \cup {t} /\ q.unmapped = p.unmapped /\ q.windows = p.windows
        /\ q.pending = p.pending /\ q.token = p.token /\ q.listed = p.listed /\ q.vm = p.vm
        /\ q.known = p.known /\ q.stack = p.stack /\ q.desired = p.desired /\ q.props = p.props
        /\ q.prev = p.prev
    BY <1>1, <1>6, <1>7 DEF Core
  <1>9. Tables(q)
    BY <1>5, <1>8 DEF Turn, Tables
  <1>10. /\ q.windows = c.windows \cup {t} /\ q.unmapped = c.unmapped \ {t} /\ q.ipc = c.ipc \cup {t}
         /\ q.pending = c.pending /\ q.token = c.token
    BY <1>3, <1>5, <1>8 DEF Turn, SameWorld
  <1>11. Mapping(q, t)
    BY <1>1, <1>9, <1>10 DEF Mapping, Settled, TokenSound
  <1>12. AddWindow(c, t, yes) = Redeem(q, t, yes)
    BY <1>2, <1>4, <1>6 DEF AddWindow
  <1> QED
    BY <1>11, <1>12, RedeemLemma
\* Nothing that is kept about windows names the one that is gone.
LEMMA ForgetLemma ==
    ASSUME NEW c, Tables(c), NEW t \in c.windows
    PROVE  LET d == Forget(c, t)
           IN  /\ d \in Core /\ Distinct(d.stack) /\ d.windows = c.windows \ {t}
               /\ ToSet(d.stack) \cup d.desired \cup d.props \cup d.prev \subseteq d.windows
               /\ d.listed = d.windows /\ d.vm = c.vm /\ d.known = c.known
               /\ d.unmapped = c.unmapped /\ d.ipc = c.ipc
               /\ d.pending = c.pending /\ d.token = c.token
  <1>1. c \in Core /\ c.stack \in Seq(Toplevels) /\ Distinct(c.stack)
    BY DEF Tables, Core
  <1>2. PICK w : w = Without(c.stack, t)
    OBVIOUS
  <1>3. w \in Seq(Toplevels) /\ Distinct(w) /\ ToSet(w) = ToSet(c.stack) \ {t}
    BY <1>1, <1>2, WithoutLemma
  <1>4. PICK d : d = Forget(c, t)
    OBVIOUS
  <1>5. d = [c EXCEPT !.windows = @ \ {t}, !.listed = @ \ {t}, !.stack = w,
                      !.desired = @ \ {t}, !.props = @ \ {t}, !.prev = @ \ {t}]
    BY <1>2, <1>4 DEF Forget
  <1>6. /\ d \in Core /\ d.windows = c.windows \ {t} /\ d.listed = c.listed \ {t} /\ d.stack = w
        /\ d.desired = c.desired \ {t} /\ d.props = c.props \ {t} /\ d.prev = c.prev \ {t}
        /\ d.vm = c.vm /\ d.known = c.known /\ d.unmapped = c.unmapped /\ d.ipc = c.ipc
        /\ d.pending = c.pending /\ d.token = c.token
    BY <1>1, <1>3, <1>5 DEF Core
  <1> QED
    BY <1>3, <1>4, <1>6 DEF Tables

\* The close hook runs, or the core focuses what is on top.
LEMMA WindowClosedLemma ==
    ASSUME NEW c, Settled(c), NEW t \in c.windows
    PROVE  Settled(WindowClosed(c, t))
  <1>1. c \in Core /\ Tables(c) /\ t \in Toplevels /\ c.known \in [Toplevels -> Nat]
    BY DEF Settled, Tables, Core
  <1>2. PICK out : out = Forget(c, t)
    OBVIOUS
  <1>3. /\ out \in Core /\ Distinct(out.stack) /\ out.windows = c.windows \ {t}
        /\ ToSet(out.stack) \cup out.desired \cup out.props \cup out.prev \subseteq out.windows
        /\ out.listed = out.windows /\ out.vm = c.vm /\ out.known = c.known
        /\ out.unmapped = c.unmapped /\ out.ipc = c.ipc
        /\ out.pending = c.pending /\ out.token = c.token
    BY <1>1, <1>2, ForgetLemma
  <1>4. PICK told : told = IF HasHooks(c)
              THEN Enter(Sync([out EXCEPT !.known[t] = IF @ > 0 THEN @ - 1 ELSE @]))
              ELSE out
    OBVIOUS
  <1>5. Turn(out, told)
    <2>1. CASE c.vm = "plain"
      BY <1>3, <1>4, <2>1 DEF HasHooks, Turn, Tables, SameWorld
    <2>2. CASE c.vm # "plain"
      <3>1. c.known[t] = 1
        BY <1>1, <2>2 DEF Tables
      <3>2. PICK k : k = [c.known EXCEPT ![t] = 0]
        OBVIOUS
      <3>3. k \in [Toplevels -> Nat] /\ \A u \in Toplevels : k[u] = IF u \in out.windows THEN 1 ELSE 0
        BY <1>1, <1>3, <2>2, <3>2 DEF Tables
      <3>4. PICK x : x = [out EXCEPT !.known = k]
        OBVIOUS
      <3>5. /\ x \in Core /\ SameWorld(out, x) /\ x.listed = out.listed /\ x.vm = out.vm /\ x.known = k
            /\ x.stack = out.stack /\ x.desired = out.desired /\ x.props = out.props /\ x.prev = out.prev
        BY <1>3, <3>3, <3>4 DEF Core, SameWorld
      <3>6. Turn(out, x)
        BY <1>3, <3>3, <3>5 DEF Turn, Tables, SameWorld
      <3>7. [out EXCEPT !.known[t] = IF @ > 0 THEN @ - 1 ELSE @] = x
        <4>1. (IF out.known[t] > 0 THEN out.known[t] - 1 ELSE out.known[t]) = 0
          BY <1>3, <3>1
        <4> QED
          BY <1>3, <3>2, <3>4, <4>1
      <3>8. PICK y : y = Sync(x)
        OBVIOUS
      <3>9. Turn(x, y)
        BY <3>6, <3>8, SyncLemma DEF Turn
      <3>10. Turn(y, Enter(y))
        BY <3>9, EnterLemma DEF Turn
      <3>11. told = Enter(y)
        BY <1>4, <2>2, <3>7, <3>8 DEF HasHooks
      <3> QED
        BY <3>6, <3>9, <3>10, <3>11, TurnTwice
    <2> QED
      BY <2>1, <2>2
  <1>6. PICK next : next = IF HasHooks(told) THEN told ELSE FocusWindow(told, Topmost(told))
    OBVIOUS
  <1>7. Turn(out, next)
    <2>1. Turn(told, FocusWindow(told, Topmost(told)))
      BY <1>5, TopmostLemma, FocusWindowLemma DEF Turn
    <2> QED
      BY <1>5, <1>6, <2>1, TurnTwice
  <1>8. PICK d : d = [next EXCEPT !.ipc = @ \ {t}]
    OBVIOUS
  <1>9. next \in Core
    BY <1>7 DEF Turn, Tables
  <1>10. /\ d \in Core /\ d.ipc = next.ipc \ {t} /\ d.unmapped = next.unmapped /\ d.windows = next.windows
         /\ d.pending = next.pending /\ d.token = next.token /\ d.listed = next.listed
         /\ d.vm = next.vm /\ d.known = next.known /\ d.stack = next.stack
         /\ d.desired = next.desired /\ d.props = next.props /\ d.prev = next.prev
    BY <1>8, <1>9 DEF Core
  <1>11. Tables(d)
    BY <1>7, <1>10 DEF Turn, Tables
  <1>12. /\ d.windows = c.windows \ {t} /\ d.unmapped = c.unmapped /\ d.ipc = c.ipc \ {t}
         /\ d.pending = c.pending /\ d.token = c.token
    BY <1>3, <1>7, <1>10 DEF Turn, SameWorld
  <1>13. Settled(d)
    BY <1>11, <1>12 DEF Settled, TokenSound
  <1>14. WindowClosed(c, t) = d
    BY <1>2, <1>4, <1>6, <1>8 DEF WindowClosed
  <1> QED
    BY <1>13, <1>14

LEMMA DestroyedLemma ==
    ASSUME NEW c, Settled(c), NEW t \in Toplevels
    PROVE  Settled(ToplevelDestroyed(c, t))
  <1>1. c \in Core /\ c.pending \in [Toplevels -> Tokens \cup {Nobody}]
    BY DEF Settled, Tables, Core
  <1>2. PICK p : p = [c.pending EXCEPT ![t] = Nobody]
    OBVIOUS
  <1>3. /\ p \in [Toplevels -> Tokens \cup {Nobody}] /\ p[t] = Nobody
        /\ \A u \in Toplevels : u # t => p[u] = c.pending[u]
    BY <1>1, <1>2
  <1>4. PICK d : d = [c EXCEPT !.pending[t] = Nobody, !.unmapped = @ \ {t},
                               !.dead = @ \cup {t}, !.configured = @ \ {t}]
    OBVIOUS
  <1>5. /\ d \in Core /\ d.windows = c.windows /\ d.unmapped = c.unmapped \ {t} /\ d.ipc = c.ipc
        /\ d.pending = p /\ d.token = c.token /\ d.listed = c.listed /\ d.vm = c.vm
        /\ d.known = c.known /\ d.stack = c.stack /\ d.desired = c.desired
        /\ d.props = c.props /\ d.prev = c.prev
    BY <1>1, <1>2, <1>3, <1>4 DEF Core
  <1>6. Tables(d)
    BY <1>5 DEF Settled, Tables
  <1>7. TokenSound(d)
    BY <1>3, <1>5 DEF Settled, TokenSound
  <1>8. Settled(d)
    BY <1>3, <1>5, <1>6, <1>7 DEF Settled
  <1>9. ToplevelDestroyed(c, t) = IF t \in c.windows THEN WindowClosed(d, t) ELSE d
    BY <1>4 DEF ToplevelDestroyed
  <1> QED
    BY <1>5, <1>8, <1>9, WindowClosedLemma

-----------------------------------------------------------------------------
(* Requests and layers.                                                    *)

\* Where a window was is remembered of windows only.
LEMMA FullscreenLemma ==
    ASSUME NEW c, Tables(c), NEW t \in c.windows
    PROVE  Turn(c, FullscreenDefault(c, t)) /\ Turn(c, UnfullscreenDefault(c, t))
  <1>1. c \in Core /\ t \in Toplevels /\ c.stack \in Seq(Toplevels) /\ Distinct(c.stack)
    BY DEF Tables, Core
  <1>2. PICK p : p = Place(c.stack, t)
    OBVIOUS
  <1>3. p \in Seq(Toplevels) /\ Distinct(p) /\ ToSet(p) = ToSet(c.stack) \cup {t}
    BY <1>1, <1>2, PlaceLemma
  <1>4. PICK q : q = Raise(p, t)
    OBVIOUS
  <1>5. q \in Seq(Toplevels) /\ Distinct(q) /\ ToSet(q) = ToSet(p)
    BY <1>3, <1>4, RaiseLemma
  <1>6. PICK prev : prev = IF Mapped(c, t) THEN c.prev \cup {t} ELSE c.prev
    OBVIOUS
  <1>7. prev \in SUBSET Toplevels /\ prev \subseteq c.prev \cup {t}
    BY <1>1, <1>6 DEF Core
  <1>8. PICK d : d = [c EXCEPT !.prev = prev, !.stack = q]
    OBVIOUS
  <1>9. FullscreenDefault(c, t) = d
    BY <1>2, <1>4, <1>6, <1>8 DEF FullscreenDefault
  <1>10. /\ d \in Core /\ SameWorld(c, d) /\ d.listed = c.listed /\ d.vm = c.vm /\ d.known = c.known
         /\ d.stack = q /\ d.desired = c.desired /\ d.props = c.props /\ d.prev = prev
    BY <1>1, <1>5, <1>7, <1>8 DEF Core, SameWorld
  <1>11. Turn(c, d)
    BY <1>3, <1>5, <1>7, <1>10, TablesKept DEF Tables
  <1>12. PICK s : s = IF t \in c.prev THEN p ELSE c.stack
    OBVIOUS
  <1>13. s \in Seq(Toplevels) /\ Distinct(s) /\ ToSet(s) \subseteq c.windows
    BY <1>1, <1>3, <1>12 DEF Tables
  <1>14. PICK x : x = [c EXCEPT !.prev = @ \ {t}, !.stack = s]
    OBVIOUS
  <1>15. UnfullscreenDefault(c, t) = x
    BY <1>2, <1>12, <1>14 DEF UnfullscreenDefault
  <1>16. /\ x \in Core /\ SameWorld(c, x) /\ x.listed = c.listed /\ x.vm = c.vm /\ x.known = c.known
         /\ x.stack = s /\ x.desired = c.desired /\ x.props = c.props /\ x.prev = c.prev \ {t}
    BY <1>1, <1>13, <1>14 DEF Core, SameWorld
  <1>17. Turn(c, x)
    BY <1>13, <1>16, TablesKept DEF Tables
  <1> QED
    BY <1>9, <1>11, <1>15, <1>17

LEMMA OutputsChangedLemma ==
    ASSUME NEW c, Tables(c)
    PROVE  Turn(c, OutputsChanged(c))
  <1>1. PICK d : d = [c EXCEPT !.snap = Zone(c)]
    OBVIOUS
  <1>2. Turn(c, d) /\ Turn(c, c)
    BY <1>1, SyncLemma DEF Sync, Turn, SameWorld
  <1>3. Turn(d, Hook(d))
    BY <1>2, HookLemma DEF Turn
  <1>4. OutputsChanged(c) \in {c, Hook(d)}
    BY <1>1 DEF OutputsChanged
  <1> QED
    BY <1>2, <1>3, <1>4, TurnTwice

\* A layer surface that comes, goes or takes the focus is in no table.
LEMMA LayerLemma ==
    ASSUME NEW c, Tables(c), NEW z \in {"none", "mapped", "zoned"},
           NEW f \in Toplevels \cup {Panel, Nobody}
    PROVE  Turn(c, [c EXCEPT !.layer = z, !.focus = f])
  <1>1. PICK d : d = [c EXCEPT !.layer = z, !.focus = f]
    OBVIOUS
  <1>2. c \in Core
    BY DEF Tables
  <1>3. /\ d \in Core /\ SameWorld(c, d) /\ d.listed = c.listed /\ d.vm = c.vm /\ d.known = c.known
        /\ d.stack = c.stack /\ d.desired = c.desired /\ d.props = c.props /\ d.prev = c.prev
    BY <1>1, <1>2 DEF Core, SameWorld
  <1> QED
    BY <1>1, <1>3, TablesKept DEF Tables

-----------------------------------------------------------------------------
(* A handler begins with any script and ends with none.                    *)

LEMMA BeginLemma ==
    ASSUME NEW c, Rested(c), NEW e \in Script(c.scene)
    PROVE  LET d == [c EXCEPT !.script = e]
           IN  /\ Settled(d) /\ d.windows = c.windows /\ d.unmapped = c.unmapped
               /\ d.stack = c.stack /\ d.scene = c.scene /\ d.token = c.token /\ d.dead = c.dead
               /\ d.vm = c.vm /\ d.pending = c.pending /\ d.configured = c.configured
               /\ d.layer = c.layer /\ d.focus = c.focus
  <1>1. c \in Core /\ Tables(c) /\ Settled(c)
    BY DEF Rested, Settled, Tables
  <1>2. c.scene \in [peers : SUBSET {"tokens", "panel", "taskbar"},
                     ops : SUBSET WinOps, vms : SUBSET VMs]
    BY <1>1, WindowAssumption DEF Core
  <1>3. e \in Scripts
    BY <1>2 DEF Script, Scripts
  <1>4. PICK d : d = [c EXCEPT !.script = e]
    OBVIOUS
  <1>5. Settled(d)
    BY <1>1, <1>3, <1>4, ScriptLemma, SettledTurn
  <1>6. /\ d.windows = c.windows /\ d.unmapped = c.unmapped
        /\ d.stack = c.stack /\ d.scene = c.scene /\ d.token = c.token /\ d.dead = c.dead
        /\ d.vm = c.vm /\ d.pending = c.pending /\ d.configured = c.configured
        /\ d.layer = c.layer /\ d.focus = c.focus
    BY <1>1, <1>4 DEF Core
  <1> QED
    BY <1>4, <1>5, <1>6

LEMMA EndLemma ==
    ASSUME NEW c, Settled(c)
    PROVE  Rested([c EXCEPT !.script = Idle])
  <1>1. Idle \in Scripts /\ Tables(c)
    BY DEF Scripts, Settled
  <1> QED
    BY <1>1, ScriptLemma, SettledTurn DEF Rested

LEMMA SettledTables ==
    ASSUME NEW c, Settled(c)
    PROVE  Tables(c)
  BY DEF Settled

\* What a handler does between two refreshes.
Handled == Rested(core') /\ bar.todo = {} /\ bar' = bar

LEMMA NewToplevelStep ==
    ASSUME Rested(core), NEW t \in Toplevels, NewToplevel(t)
    PROVE  Handled
  <1>1. PICK e \in Script(core.scene) :
          core' = [[[core EXCEPT !.script = e] EXCEPT !.unmapped = @ \cup {t}] EXCEPT !.script = Idle]
    BY DEF NewToplevel, Handle
  <1>2. PICK c : c = [core EXCEPT !.script = e]
    OBVIOUS
  <1>3. Settled(c) /\ c.windows = core.windows
    BY <1>2, BeginLemma
  <1>4. PICK d : d = [c EXCEPT !.unmapped = @ \cup {t}]
    OBVIOUS
  <1>5. c \in Core
    BY <1>3 DEF Settled, Tables
  <1>6. /\ d \in Core /\ d.windows = c.windows /\ d.unmapped = c.unmapped \cup {t} /\ d.ipc = c.ipc
        /\ d.pending = c.pending /\ d.token = c.token /\ d.listed = c.listed /\ d.vm = c.vm
        /\ d.known = c.known /\ d.stack = c.stack /\ d.desired = c.desired
        /\ d.props = c.props /\ d.prev = c.prev
    BY <1>4, <1>5 DEF Core
  <1>7. t \notin core.windows
    BY DEF NewToplevel
  <1>8. Tables(d) /\ TokenSound(d)
    BY <1>3, <1>6 DEF Settled, Tables, TokenSound
  <1>9. Settled(d)
    BY <1>3, <1>6, <1>7, <1>8 DEF Settled
  <1>10. core' = [d EXCEPT !.script = Idle]
    BY <1>1, <1>2, <1>4
  <1> QED
    BY <1>9, <1>10, EndLemma DEF Handled, NewToplevel, Handle

LEMMA CommitStep ==
    ASSUME Rested(core), NEW t \in Toplevels, Commit(t)
    PROVE  Handled
  <1>1. PICK yes \in BOOLEAN, e \in Script(core.scene) :
          LET c == [core EXCEPT !.script = e]
          IN  core' = [IF t \notin c.configured
                       THEN [c EXCEPT !.configured = @ \cup {t}]
                       ELSE AddWindow(c, t, yes) EXCEPT !.script = Idle]
    BY DEF Commit, Handle
  <1>2. PICK c : c = [core EXCEPT !.script = e]
    OBVIOUS
  <1>3. Settled(c) /\ c.unmapped = core.unmapped
    BY <1>2, BeginLemma
  <1>4. t \in c.unmapped
    BY <1>3 DEF Commit
  <1>5. PICK d : d = [c EXCEPT !.configured = @ \cup {t}]
    OBVIOUS
  <1>6. c \in Core
    BY <1>3 DEF Settled, Tables
  <1>7. d \in Core /\ SameWorld(c, d) /\ d.listed = c.listed /\ d.vm = c.vm /\ d.known = c.known
        /\ d.stack = c.stack /\ d.desired = c.desired /\ d.props = c.props /\ d.prev = c.prev
    BY <1>5, <1>6 DEF Core, SameWorld
  <1>8. Settled(d)
    BY <1>3, <1>7, TablesKept, SettledTurn DEF Settled, Tables
  <1>9. Settled(AddWindow(c, t, yes))
    BY <1>3, <1>4, AddWindowLemma
  <1>10. \/ core' = [d EXCEPT !.script = Idle]
         \/ core' = [AddWindow(c, t, yes) EXCEPT !.script = Idle]
    BY <1>1, <1>2, <1>5
  <1> QED
    BY <1>8, <1>9, <1>10, EndLemma DEF Handled, Commit, Handle

LEMMA DestroyStep ==
    ASSUME Rested(core), NEW t \in Toplevels, Destroy(t)
    PROVE  Handled
  <1>1. PICK e \in Script(core.scene) :
          core' = [ToplevelDestroyed([core EXCEPT !.script = e], t) EXCEPT !.script = Idle]
    BY DEF Destroy, Handle
  <1>2. Settled(ToplevelDestroyed([core EXCEPT !.script = e], t))
    BY BeginLemma, DestroyedLemma
  <1> QED
    BY <1>1, <1>2, EndLemma DEF Handled, Destroy, Handle

\* A request is about a window that is there, or is not heard at all.
LEMMA WindowRequestStep ==
    ASSUME Rested(core), NEW t \in Toplevels, WindowRequest(t)
    PROVE  Handled
  <1>1. PICK yes \in BOOLEAN, kind \in Kinds, e \in Script(core.scene) :
          LET c == [core EXCEPT !.script = e]
          IN  core' =
                [IF t \notin c.windows THEN c
                 ELSE IF Consumes(c, yes) \/ kind = "other" THEN Ask(c)
                 ELSE CASE kind = "activate" -> FocusWindow(Ask(c), t)
                        [] kind = "fullscreen" -> FullscreenDefault(Ask(c), t)
                        [] kind = "unfullscreen" -> UnfullscreenDefault(Ask(c), t)
                 EXCEPT !.script = Idle]
    BY DEF WindowRequest, Handle
  <1>2. PICK c : c = [core EXCEPT !.script = e]
    OBVIOUS
  <1>3. Settled(c) /\ c.windows = core.windows
    BY <1>2, BeginLemma
  <1>4. PICK a : a = Ask(c)
    OBVIOUS
  <1>5. Turn(c, a) /\ a.windows = c.windows
    BY <1>3, <1>4, AskLemma DEF Settled, Turn, SameWorld
  <1>6. Settled(a) /\ Tables(a)
    BY <1>3, <1>5, SettledTurn DEF Settled
  <1>7. Settled(FocusWindow(a, t))
    BY <1>6, FocusWindowLemma, SettledTurn
  <1>8. t \in c.windows => Settled(FullscreenDefault(a, t)) /\ Settled(UnfullscreenDefault(a, t))
    BY <1>5, <1>6, FullscreenLemma, SettledTurn
  <1>9. kind \in {"activate", "fullscreen", "unfullscreen", "other"}
    BY DEF Kinds
  <1>10. \/ core' = [c EXCEPT !.script = Idle]
         \/ core' = [a EXCEPT !.script = Idle]
         \/ core' = [FocusWindow(a, t) EXCEPT !.script = Idle]
         \/ t \in c.windows /\ core' = [FullscreenDefault(a, t) EXCEPT !.script = Idle]
         \/ t \in c.windows /\ core' = [UnfullscreenDefault(a, t) EXCEPT !.script = Idle]
    BY <1>1, <1>2, <1>4, <1>9
  <1>11. Rested(core')
    BY <1>3, <1>6, <1>7, <1>8, <1>10, EndLemma
  <1> QED
    BY <1>11 DEF Handled, WindowRequest, Handle

LEMMA ClickFocusStep ==
    ASSUME Rested(core), ClickFocus
    PROVE  Handled
  <1>1. PICK t \in ToSet(core.stack) \cup {Nobody}, e \in Script(core.scene) :
          core' = [FocusWindow([core EXCEPT !.script = e], t) EXCEPT !.script = Idle]
    BY DEF ClickFocus, Handle
  <1>2. PICK c : c = [core EXCEPT !.script = e]
    OBVIOUS
  <1>3. Settled(c) /\ Tables(c) /\ c.stack = core.stack
    BY <1>2, BeginLemma DEF Settled
  <1>4. t \in Toplevels \cup {Nobody}
    BY DEF Rested, Settled, Tables, Core
  <1>5. Settled(FocusWindow(c, t))
    BY <1>3, <1>4, FocusWindowLemma, SettledTurn
  <1> QED
    BY <1>1, <1>2, <1>5, EndLemma DEF Handled, ClickFocus, Handle

LEMMA LuaEntryStep ==
    ASSUME Rested(core), LuaEntry
    PROVE  Handled
  <1>1. PICK e \in Script(core.scene) :
          core' = [Enter([core EXCEPT !.script = e]) EXCEPT !.script = Idle]
    BY DEF LuaEntry, Handle
  <1>2. Settled(Enter([core EXCEPT !.script = e]))
    BY BeginLemma, SettledTables, EnterLemma, SettledTurn
  <1> QED
    BY <1>1, <1>2, EndLemma DEF Handled, LuaEntry, Handle

LEMMA ConfigChangedStep ==
    ASSUME Rested(core), ConfigChanged
    PROVE  Handled
  <1>1. PICK to \in core.scene.vms, e \in Script(core.scene) :
          core' = [Enter(Reload([core EXCEPT !.script = e], to)) EXCEPT !.script = Idle]
    BY DEF ConfigChanged, Handle
  <1>2. to \in VMs
    BY WindowAssumption DEF Rested, Settled, Tables, Core
  <1>3. PICK c : c = Reload([core EXCEPT !.script = e], to)
    OBVIOUS
  <1>4. Settled(c)
    BY <1>2, <1>3, BeginLemma, SettledTables, ReloadLemma, SettledTurn
  <1>5. Settled(Enter(c))
    BY <1>4, EnterLemma, SettledTurn DEF Settled
  <1> QED
    BY <1>1, <1>3, <1>5, EndLemma DEF Handled, ConfigChanged, Handle

LEMMA LayerCommitStep ==
    ASSUME Rested(core), LayerCommit
    PROVE  Handled
  <1>1. PICK z \in {"mapped", "zoned"}, takes \in BOOLEAN, e \in Script(core.scene) :
          LET c == [core EXCEPT !.script = e]
          IN  core' = [OutputsChanged([c EXCEPT !.layer = z, !.focus = IF takes THEN Panel ELSE @])
                       EXCEPT !.script = Idle]
    BY DEF LayerCommit, Handle
  <1>2. PICK c : c = [core EXCEPT !.script = e]
    OBVIOUS
  <1>3. Settled(c) /\ Tables(c)
    BY <1>2, BeginLemma DEF Settled
  <1>4. PICK f : f = IF takes THEN Panel ELSE c.focus
    OBVIOUS
  <1>5. f \in Toplevels \cup {Panel, Nobody}
    BY <1>3, <1>4 DEF Tables, Core
  <1>6. PICK d : d = [c EXCEPT !.layer = z, !.focus = f]
    OBVIOUS
  <1>7. Settled(d)
    BY <1>3, <1>5, <1>6, LayerLemma, SettledTurn
  <1>8. Settled(OutputsChanged(d))
    BY <1>7, OutputsChangedLemma, SettledTurn DEF Settled
  <1>9. core' = [OutputsChanged(d) EXCEPT !.script = Idle]
    BY <1>1, <1>2, <1>4, <1>6
  <1> QED
    BY <1>8, <1>9, EndLemma DEF Handled, LayerCommit, Handle

LEMMA LayerDestroyedStep ==
    ASSUME Rested(core), LayerDestroyed
    PROVE  Handled
  <1>1. PICK e \in Script(core.scene) :
          LET c == [core EXCEPT !.script = e]
              d == [c EXCEPT !.layer = "none"]
          IN  core' = [OutputsChanged(FocusWindow(d, Topmost(d))) EXCEPT !.script = Idle]
    BY DEF LayerDestroyed, Handle
  <1>2. PICK c : c = [core EXCEPT !.script = e]
    OBVIOUS
  <1>3. Settled(c) /\ Tables(c) /\ c \in Core
    BY <1>2, BeginLemma DEF Settled, Tables
  <1>4. PICK d : d = [c EXCEPT !.layer = "none"]
    OBVIOUS
  <1>5. d = [c EXCEPT !.layer = "none", !.focus = c.focus] /\ c.focus \in Toplevels \cup {Panel, Nobody}
    BY <1>3, <1>4 DEF Core
  <1>6. Settled(d)
    BY <1>3, <1>5, LayerLemma, SettledTurn
  <1>7. PICK x : x = FocusWindow(d, Topmost(d))
    OBVIOUS
  <1>8. Settled(x)
    BY <1>6, <1>7, TopmostLemma, FocusWindowLemma, SettledTurn DEF Settled
  <1>9. Settled(OutputsChanged(x))
    BY <1>8, OutputsChangedLemma, SettledTurn DEF Settled
  <1>10. core' = [OutputsChanged(x) EXCEPT !.script = Idle]
    BY <1>1, <1>2, <1>4, <1>7
  <1> QED
    BY <1>9, <1>10, EndLemma DEF Handled, LayerDestroyed, Handle

\* The token is spent: the bearer's window is asked about, or it waits for the map.
LEMMA SpendLemma ==
    ASSUME NEW c, Settled(c), NEW k \in Tokens, c.token[k].state = "live"
    PROVE  LET d == [c EXCEPT !.token[k].state = "spent"]
           IN  /\ Settled(d) /\ d.windows = c.windows /\ d.unmapped = c.unmapped
               /\ d.token[k] = [c.token[k] EXCEPT !.state = "spent"]
               /\ d.token[k].uses = 0 /\ d.token[k].state = "spent"
               /\ \A t \in Toplevels : d.pending[t] # k
  <1>1. /\ c \in Core /\ c.token \in [Tokens -> Token] /\ c.token[k] \in Token
        /\ c.pending \in [Toplevels -> Tokens \cup {Nobody}]
    BY DEF Settled, Tables, Core
  <1>2. PICK x : x = [c.token[k] EXCEPT !.state = "spent"]
    OBVIOUS
  <1>3. /\ x \in Token /\ x.state = "spent" /\ x.uses = c.token[k].uses /\ x.late = c.token[k].late
    BY <1>1, <1>2 DEF Token
  <1>4. PICK tok : tok = [c.token EXCEPT ![k] = x]
    OBVIOUS
  <1>5. tok \in [Tokens -> Token] /\ tok[k] = x /\ \A j \in Tokens : j # k => tok[j] = c.token[j]
    BY <1>1, <1>3, <1>4
  <1>6. PICK d : d = [c EXCEPT !.token[k].state = "spent"]
    OBVIOUS
  <1>7. d = [c EXCEPT !.token = tok]
    BY <1>2, <1>4, <1>6
  <1>8. /\ d \in Core /\ d.windows = c.windows /\ d.unmapped = c.unmapped /\ d.ipc = c.ipc
        /\ d.pending = c.pending /\ d.token = tok
        /\ d.listed = c.listed /\ d.vm = c.vm /\ d.known = c.known
        /\ d.stack = c.stack /\ d.desired = c.desired /\ d.props = c.props /\ d.prev = c.prev
    BY <1>1, <1>5, <1>7 DEF Core
  <1>9. Tables(d)
    BY <1>8 DEF Settled, Tables
  <1>10. c.token[k].uses = 0 /\ ~c.token[k].late /\ \A t \in Toplevels : c.pending[t] # k
    BY <1>1, WindowAssumption DEF Settled, TokenSound
  <1>11. TokenSound(d)
    BY <1>1, <1>3, <1>5, <1>8, <1>10 DEF Settled, TokenSound
  <1>12. Settled(d)
    BY <1>8, <1>9, <1>11 DEF Settled
  <1> QED
    BY <1>2, <1>3, <1>5, <1>6, <1>8, <1>10, <1>12

LEMMA RequestActivationStep ==
    ASSUME Rested(core), NEW k \in Tokens, NEW t \in Toplevels, RequestActivation(k, t)
    PROVE  Handled
  <1>1. PICK yes \in BOOLEAN, e \in Script(core.scene) :
          LET c == [core EXCEPT !.script = e]
              urgent == c.token[k].urgent
              steals == ~urgent /\ ~Consumes(c, yes)
              d == [c EXCEPT !.token[k].state = "spent"]
              a == Ask(Use(d, k))
          IN  core' = [IF ~c.token[k].fresh THEN d
                       ELSE IF t \in c.windows
                            THEN IF steals THEN FocusWindow(a, t) ELSE a
                       ELSE IF t \in c.unmapped
                            THEN [d EXCEPT !.pending[t] = k]
                       ELSE d EXCEPT !.script = Idle]
    BY DEF RequestActivation, Handle
  <1>2. PICK c : c = [core EXCEPT !.script = e]
    OBVIOUS
  <1>3. Settled(c) /\ c.token = core.token
    BY <1>2, BeginLemma
  <1>4. c.token[k].state = "live"
    BY <1>3 DEF RequestActivation
  <1>5. PICK d : d = [c EXCEPT !.token[k].state = "spent"]
    OBVIOUS
  <1>6. /\ Settled(d) /\ d.windows = c.windows /\ d.unmapped = c.unmapped
        /\ d.token[k] = [c.token[k] EXCEPT !.state = "spent"]
        /\ d.token[k].uses = 0 /\ d.token[k].state = "spent"
        /\ \A u \in Toplevels : d.pending[u] # k
    BY <1>3, <1>4, <1>5, SpendLemma
  <1>7. /\ d \in Core /\ d.pending \in [Toplevels -> Tokens \cup {Nobody}]
        /\ c.token[k] \in Token /\ d.token[k].fresh = c.token[k].fresh
    BY <1>3, <1>6 DEF Settled, Tables, Core, Token
  <1>8. PICK a : a = Ask(Use(d, k))
    OBVIOUS
  <1>9. PICK x : x = [d EXCEPT !.pending[t] = k]
    OBVIOUS
  <1>10. \/ core' = [d EXCEPT !.script = Idle]
         \/ c.token[k].fresh /\ core' = [FocusWindow(a, t) EXCEPT !.script = Idle]
         \/ c.token[k].fresh /\ core' = [a EXCEPT !.script = Idle]
         \/ t \in c.unmapped /\ core' = [x EXCEPT !.script = Idle]
    BY <1>1, <1>2, <1>5, <1>8, <1>9
  <1>11. c.token[k].fresh => Settled(a) /\ Settled(FocusWindow(a, t))
    <2> SUFFICES ASSUME c.token[k].fresh PROVE Settled(a) /\ Settled(FocusWindow(a, t))
      OBVIOUS
    <2>1. PICK w : w = Use(d, k)
      OBVIOUS
    <2>2. /\ Tables(w) /\ TokenSound(w) /\ w.windows = d.windows /\ w.unmapped = d.unmapped
          /\ w.ipc = d.ipc /\ w.pending = d.pending
      BY <1>6, <1>7, <2>1, UseLemma DEF Settled
    <2>3. Settled(w)
      BY <1>6, <2>2 DEF Settled
    <2>4. Turn(w, a)
      BY <1>8, <2>1, <2>2, AskLemma
    <2>5. Turn(a, FocusWindow(a, t))
      BY <2>4, FocusWindowLemma DEF Turn
    <2> QED
      BY <2>3, <2>4, <2>5, SettledTurn
  <1>12. t \in c.unmapped => Settled(x)
    <2> SUFFICES ASSUME t \in c.unmapped PROVE Settled(x)
      OBVIOUS
    <2>1. PICK p : p = [d.pending EXCEPT ![t] = k]
      OBVIOUS
    <2>2. /\ p \in [Toplevels -> Tokens \cup {Nobody}] /\ p[t] = k
          /\ \A u \in Toplevels : u # t => p[u] = d.pending[u]
      BY <1>7, <2>1
    <2>3. x = [d EXCEPT !.pending = p]
      BY <1>9, <2>1
    <2>4. /\ x \in Core /\ x.windows = d.windows /\ x.unmapped = d.unmapped /\ x.ipc = d.ipc
          /\ x.pending = p /\ x.token = d.token
          /\ x.listed = d.listed /\ x.vm = d.vm /\ x.known = d.known
          /\ x.stack = d.stack /\ x.desired = d.desired /\ x.props = d.props /\ x.prev = d.prev
      BY <1>7, <2>2, <2>3 DEF Core
    <2>5. Tables(x)
      BY <1>6, <2>4 DEF Settled, Tables
    <2>6. TokenSound(x)
      <3>1. ASSUME NEW u \in Toplevels, p[u] # Nobody
            PROVE  /\ d.token[p[u]].state = "spent" /\ d.token[p[u]].uses = 0
                   /\ \A v \in Toplevels : p[v] = p[u] => v = u
        <4>1. CASE u = t
          BY <1>6, <2>2, <4>1
        <4>2. CASE u # t
          <5>1. p[u] = d.pending[u] /\ p[u] # k
            BY <1>6, <2>2, <4>2
          <5>2. \A v \in Toplevels : p[v] = p[u] => d.pending[v] = d.pending[u]
            BY <2>2, <5>1
          <5> QED
            BY <1>6, <3>1, <5>1, <5>2 DEF Settled, TokenSound
        <4> QED
          BY <4>1, <4>2
      <3> QED
        BY <1>6, <2>4, <3>1 DEF Settled, TokenSound
    <2> QED
      BY <1>6, <2>2, <2>4, <2>5, <2>6 DEF Settled
  <1>13. Rested(core')
    BY <1>6, <1>10, <1>11, <1>12, EndLemma
  <1> QED
    BY <1>13 DEF Handled, RequestActivation, Handle

\* A token that changes as these do leaves the tables alone.
LEMMA TokenLemma ==
    ASSUME NEW c, Rested(c), NEW tok \in [Tokens -> Token], NEW p \in [Toplevels -> Tokens \cup {Nobody}],
           \A k \in Tokens : /\ tok[k].uses = c.token[k].uses /\ tok[k].late = c.token[k].late
                             /\ c.token[k].state = "spent" => tok[k].state = "spent",
           \A t \in Toplevels : p[t] \in {c.pending[t], Nobody}
    PROVE  Rested([c EXCEPT !.token = tok, !.pending = p])
  <1>1. c \in Core /\ Tables(c) /\ Settled(c) /\ c.pending \in [Toplevels -> Tokens \cup {Nobody}]
        /\ c.token \in [Tokens -> Token]
    BY DEF Rested, Settled, Tables, Core
  <1>2. PICK d : d = [c EXCEPT !.token = tok, !.pending = p]
    OBVIOUS
  <1>3. /\ d \in Core /\ d.windows = c.windows /\ d.unmapped = c.unmapped /\ d.ipc = c.ipc
        /\ d.pending = p /\ d.token = tok
        /\ d.listed = c.listed /\ d.vm = c.vm /\ d.known = c.known
        /\ d.stack = c.stack /\ d.desired = c.desired /\ d.props = c.props /\ d.prev = c.prev
        /\ d.script = c.script
    BY <1>1, <1>2 DEF Core
  <1>4. Tables(d)
    BY <1>1, <1>3 DEF Tables
  <1>5. TokenSound(d)
    <2>1. \A k \in Tokens : /\ d.token[k].uses <= 1 /\ ~d.token[k].late
                            /\ d.token[k].state # "spent" => d.token[k].uses = 0
      BY <1>1, <1>3 DEF Settled, TokenSound
    <2>2. ASSUME NEW t \in Toplevels, d.pending[t] # Nobody
          PROVE  /\ d.token[d.pending[t]].state = "spent" /\ d.token[d.pending[t]].uses = 0
                 /\ \A u \in Toplevels : d.pending[u] = d.pending[t] => u = t
      <3>1. c.pending[t] = d.pending[t] /\ d.pending[t] \in Tokens
        BY <1>1, <1>3, <2>2
      <3>2. \A u \in Toplevels : d.pending[u] = d.pending[t] => c.pending[u] = c.pending[t]
        BY <1>1, <1>3, <2>2, <3>1
      <3> QED
        BY <1>1, <1>3, <2>2, <3>1, <3>2 DEF Settled, TokenSound
    <2> QED
      BY <2>1, <2>2 DEF TokenSound
  <1>6. \A t \in Toplevels : d.pending[t] # Nobody => t \in d.unmapped
    BY <1>1, <1>3 DEF Settled
  <1> QED
    BY <1>1, <1>2, <1>3, <1>4, <1>5, <1>6 DEF Rested, Settled

LEMMA TokenSteps ==
    ASSUME Rested(core), NEW k \in Tokens, TokenCreated(k) \/ Age(k)
    PROVE  Handled
  <1>1. /\ core \in Core /\ core.token \in [Tokens -> Token] /\ core.token[k] \in Token
        /\ core.pending \in [Toplevels -> Tokens \cup {Nobody}]
    BY DEF Rested, Settled, Tables, Core
  <1>2. ASSUME TokenCreated(k)
        PROVE  \E tok \in [Tokens -> Token] :
                 /\ core' = [core EXCEPT !.token = tok]
                 /\ \A j \in Tokens : /\ tok[j].uses = core.token[j].uses /\ tok[j].late = core.token[j].late
                                      /\ core.token[j].state = "spent" => tok[j].state = "spent"
    <2>1. PICK urgent \in BOOLEAN :
            core' = [core EXCEPT !.token[k] =
                       [core.token[k] EXCEPT !.state = "live", !.urgent = urgent, !.fresh = TRUE]]
      BY <1>2 DEF TokenCreated
    <2>2. PICK x : x = [core.token[k] EXCEPT !.state = "live", !.urgent = urgent, !.fresh = TRUE]
      OBVIOUS
    <2>3. x \in Token /\ x.uses = core.token[k].uses /\ x.late = core.token[k].late
      BY <1>1, <2>2 DEF Token
    <2>4. PICK tok : tok = [core.token EXCEPT ![k] = x]
      OBVIOUS
    <2>5. tok \in [Tokens -> Token] /\ tok[k] = x /\ \A j \in Tokens : j # k => tok[j] = core.token[j]
      BY <1>1, <2>3, <2>4
    <2>6. core' = [core EXCEPT !.token = tok] /\ core.token[k].state # "spent"
      BY <1>2, <2>1, <2>2, <2>4 DEF TokenCreated
    <2> QED
      BY <2>3, <2>5, <2>6
  <1>3. ASSUME Age(k)
        PROVE  \E tok \in [Tokens -> Token] :
                 /\ core' = [core EXCEPT !.token = tok]
                 /\ \A j \in Tokens : /\ tok[j].uses = core.token[j].uses /\ tok[j].late = core.token[j].late
                                      /\ core.token[j].state = "spent" => tok[j].state = "spent"
    <2>1. PICK x : x = [core.token[k] EXCEPT !.fresh = FALSE]
      OBVIOUS
    <2>2. /\ x \in Token /\ x.uses = core.token[k].uses /\ x.late = core.token[k].late
          /\ x.state = core.token[k].state
      BY <1>1, <2>1 DEF Token
    <2>3. PICK tok : tok = [core.token EXCEPT ![k] = x]
      OBVIOUS
    <2>4. tok \in [Tokens -> Token] /\ tok[k] = x /\ \A j \in Tokens : j # k => tok[j] = core.token[j]
      BY <1>1, <2>2, <2>3
    <2>5. core' = [core EXCEPT !.token = tok]
      BY <1>3, <2>1, <2>3 DEF Age
    <2>6. \A j \in Tokens : /\ tok[j].uses = core.token[j].uses /\ tok[j].late = core.token[j].late
                            /\ core.token[j].state = "spent" => tok[j].state = "spent"
      BY <2>2, <2>4
    <2> QED
      BY <2>4, <2>5, <2>6
  <1>4. ASSUME NEW tok \in [Tokens -> Token], core' = [core EXCEPT !.token = tok],
               \A j \in Tokens : /\ tok[j].uses = core.token[j].uses /\ tok[j].late = core.token[j].late
                                 /\ core.token[j].state = "spent" => tok[j].state = "spent"
        PROVE  Rested(core')
    <2>1. PICK p : p = core.pending
      OBVIOUS
    <2>2. core' = [core EXCEPT !.token = tok, !.pending = p]
      BY <1>1, <1>4, <2>1 DEF Core
    <2>3. Rested([core EXCEPT !.token = tok, !.pending = p])
      BY <1>1, <1>4, <2>1, TokenLemma
    <2> QED
      BY <2>2, <2>3
  <1>5. Rested(core')
    BY <1>2, <1>3, <1>4
  <1> QED
    BY <1>5 DEF Handled, TokenCreated, Age

LEMMA PruneStep ==
    ASSUME Rested(core), Prune
    PROVE  Handled
  <1>1. /\ core \in Core /\ core.token \in [Tokens -> Token]
        /\ core.pending \in [Toplevels -> Tokens \cup {Nobody}]
    BY DEF Rested, Settled, Tables, Core
  <1>2. Rested(core')
    <2>1. PICK tok : tok = [j \in Tokens |->
                              IF core.token[j].state = "live" /\ ~core.token[j].fresh
                              THEN [core.token[j] EXCEPT !.state = "spent"] ELSE core.token[j]]
      OBVIOUS
    <2>2. PICK p : p = [t \in Toplevels |->
                          IF core.pending[t] # Nobody /\ ~core.token[core.pending[t]].fresh
                          THEN Nobody ELSE core.pending[t]]
      OBVIOUS
    <2>3. core' = [core EXCEPT !.token = tok, !.pending = p]
      BY <2>1, <2>2 DEF Prune
    <2>4. p \in [Toplevels -> Tokens \cup {Nobody}] /\ \A t \in Toplevels : p[t] \in {core.pending[t], Nobody}
      BY <1>1, <2>2
    <2>5. ASSUME NEW j \in Tokens
          PROVE  /\ tok[j] \in Token /\ tok[j].uses = core.token[j].uses /\ tok[j].late = core.token[j].late
                 /\ core.token[j].state = "spent" => tok[j].state = "spent"
      BY <1>1, <2>1 DEF Token
    <2>6. tok \in [Tokens -> Token]
      BY <2>1, <2>5
    <2> QED
      BY <2>3, <2>4, <2>5, <2>6, TokenLemma
  <1> QED
    BY <1>2 DEF Handled, Prune

-----------------------------------------------------------------------------
(* The taskbar.                                                            *)

LEMMA BarKept ==
    ASSUME BarSound, Handled
    PROVE  BarSound'
  BY DEF BarSound, Handled, Enters

LEMMA BindManagerStep ==
    ASSUME BarSound, BindManager
    PROVE  BarSound'
  <1>1. bar \in Bar /\ bar.info \in [Toplevels -> [active : BOOLEAN, over : BOOLEAN]]
    BY DEF BarSound, Bar
  <1>2. PICK h : h = [t \in Toplevels |-> IF t \in bar.tracked THEN "open" ELSE bar.handle[t]]
    OBVIOUS
  <1>3. PICK n : n = [t \in Toplevels |-> IF t \in bar.tracked THEN Enters(bar.info[t].over) ELSE 0]
    OBVIOUS
  <1>4. PICK a : a = {t \in bar.tracked : bar.info[t].active}
    OBVIOUS
  <1>5. bar' = [bar EXCEPT !.manager = "bound", !.handle = h, !.active = a, !.entered = n]
    BY <1>2, <1>3, <1>4 DEF BindManager
  <1>6. /\ h \in [Toplevels -> {"none", "open", "closed", "destroyed"}] /\ a \in SUBSET Toplevels
        /\ n \in [Toplevels -> Nat]
    BY <1>1, <1>2, <1>3, <1>4 DEF Bar, Enters
  <1>7. /\ bar' \in Bar /\ bar'.output = bar.output /\ bar'.tracked = bar.tracked /\ bar'.todo = bar.todo
        /\ bar'.handle = h /\ bar'.active = a /\ bar'.entered = n /\ bar'.info = bar.info
    BY <1>1, <1>5, <1>6 DEF Bar
  <1>8. \A t \in Toplevels :
          IF h[t] = "open" THEN t \in bar.tracked /\ n[t] = Enters(bar.info[t].over) ELSE n[t] = 0
    BY <1>2, <1>3 DEF BarSound
  <1>9. \A t \in a : h[t] = "open" /\ bar.info[t].active
    BY <1>1, <1>2, <1>4 DEF Bar
  <1>10. bar.todo = {}
    BY DEF BindManager
  <1> QED
    BY <1>7, <1>8, <1>9, <1>10 DEF BarSound, Enters

LEMMA StopManagerStep ==
    ASSUME BarSound, StopManager
    PROVE  BarSound'
  <1>1. bar \in Bar /\ bar' = [bar EXCEPT !.manager = "stopped"] /\ bar.todo = {}
    BY DEF BarSound, StopManager
  <1>2. /\ bar' \in Bar /\ bar'.output = bar.output /\ bar'.tracked = bar.tracked /\ bar'.todo = bar.todo
        /\ bar'.handle = bar.handle /\ bar'.active = bar.active /\ bar'.entered = bar.entered
        /\ bar'.info = bar.info
    BY <1>1 DEF Bar
  <1> QED
    BY <1>1, <1>2 DEF BarSound, Enters

LEMMA DestroyHandleStep ==
    ASSUME BarSound, NEW t \in Toplevels, DestroyHandle(t)
    PROVE  BarSound'
  <1>1. bar \in Bar /\ bar.todo = {}
    BY DEF BarSound, DestroyHandle
  <1>2. PICK h : h = [bar.handle EXCEPT ![t] = "destroyed"]
    OBVIOUS
  <1>3. PICK n : n = [bar.entered EXCEPT ![t] = 0]
    OBVIOUS
  <1>4. bar' = [bar EXCEPT !.handle = h, !.active = @ \ {t}, !.entered = n]
    BY <1>2, <1>3 DEF DestroyHandle
  <1>5. /\ h \in [Toplevels -> {"none", "open", "closed", "destroyed"}] /\ n \in [Toplevels -> Nat]
        /\ h[t] = "destroyed" /\ n[t] = 0
        /\ \A u \in Toplevels : u # t => h[u] = bar.handle[u] /\ n[u] = bar.entered[u]
    BY <1>1, <1>2, <1>3 DEF Bar
  <1>6. /\ bar' \in Bar /\ bar'.output = bar.output /\ bar'.tracked = bar.tracked /\ bar'.todo = bar.todo
        /\ bar'.handle = h /\ bar'.active = bar.active \ {t} /\ bar'.entered = n /\ bar'.info = bar.info
    BY <1>1, <1>4, <1>5 DEF Bar
  <1>7. \A u \in Toplevels :
          IF h[u] = "open" THEN u \in bar.tracked /\ n[u] = Enters(bar.info[u].over) ELSE n[u] = 0
    BY <1>5 DEF BarSound
  <1>8. \A u \in bar.active \ {t} : h[u] = "open" /\ bar.info[u].active
    BY <1>1, <1>5 DEF BarSound, Bar
  <1> QED
    BY <1>1, <1>6, <1>7, <1>8 DEF BarSound, Enters

LEMMA BindOutputStep ==
    ASSUME BarSound, BindOutput
    PROVE  BarSound'
  <1>1. bar \in Bar /\ bar.todo = {} /\ ~bar.output
    BY DEF BarSound, BindOutput
  <1>2. PICK n : n = [t \in Toplevels |->
                        IF bar.handle[t] = "open" /\ t \in bar.tracked /\ bar.info[t].over
                        THEN bar.entered[t] + 1 ELSE bar.entered[t]]
    OBVIOUS
  <1>3. bar' = [bar EXCEPT !.output = TRUE, !.entered = n]
    BY <1>2 DEF BindOutput
  <1>4. n \in [Toplevels -> Nat]
    BY <1>1, <1>2 DEF Bar
  <1>5. /\ bar' \in Bar /\ bar'.output = TRUE /\ bar'.tracked = bar.tracked /\ bar'.todo = bar.todo
        /\ bar'.handle = bar.handle /\ bar'.active = bar.active /\ bar'.entered = n /\ bar'.info = bar.info
    BY <1>1, <1>3, <1>4 DEF Bar
  <1>6. \A t \in Toplevels :
          IF bar.handle[t] = "open"
          THEN t \in bar.tracked /\ n[t] = IF bar.info[t].over THEN 1 ELSE 0
          ELSE n[t] = 0
    BY <1>1, <1>2 DEF BarSound, Enters
  <1> QED
    BY <1>1, <1>5, <1>6 DEF BarSound, Enters

LEMMA StartRefreshStep ==
    ASSUME Rested(core), BarSound, StartRefresh
    PROVE  BarSound'
  <1>1. bar \in Bar /\ core.windows \in SUBSET Toplevels
    BY DEF BarSound, Rested, Settled, Tables, Core
  <1>2. PICK gone : gone = bar.tracked \ core.windows
    OBVIOUS
  <1>3. PICK h : h = [t \in Toplevels |-> IF t \in gone /\ bar.handle[t] = "open" THEN "closed"
                                           ELSE bar.handle[t]]
    OBVIOUS
  <1>4. PICK n : n = [t \in Toplevels |-> IF t \in gone THEN 0 ELSE bar.entered[t]]
    OBVIOUS
  <1>5. bar' = [bar EXCEPT !.tracked = @ \ gone, !.todo = core.windows, !.handle = h,
                           !.active = @ \ gone, !.entered = n]
    BY <1>2, <1>3, <1>4 DEF StartRefresh
  <1>6. h \in [Toplevels -> {"none", "open", "closed", "destroyed"}] /\ n \in [Toplevels -> Nat]
    BY <1>1, <1>3, <1>4 DEF Bar
  <1>7. /\ bar' \in Bar /\ bar'.output = bar.output /\ bar'.tracked = bar.tracked \ gone
        /\ bar'.todo = core.windows /\ bar'.handle = h /\ bar'.active = bar.active \ gone
        /\ bar'.entered = n /\ bar'.info = bar.info
    BY <1>1, <1>5, <1>6 DEF Bar
  <1>8. \A t \in Toplevels :
          IF h[t] = "open" THEN t \in bar.tracked \ gone /\ n[t] = Enters(bar.info[t].over) ELSE n[t] = 0
    BY <1>3, <1>4 DEF BarSound
  <1>9. \A t \in bar.active \ gone : h[t] = "open" /\ bar.info[t].active
    BY <1>1, <1>3 DEF BarSound, Bar
  <1>10. bar'.tracked \ bar'.todo = {}
    BY <1>2, <1>7
  <1> QED
    BY <1>7, <1>8, <1>9, <1>10 DEF BarSound, Enters

\* A window that has the focus is refreshed last: the others are no longer active.
LEMMA RefreshStep ==
    ASSUME BarSound, NEW t \in Toplevels, Refresh(t)
    PROVE  BarSound'
  <1>1. /\ bar \in Bar /\ t \in bar.todo /\ (core.focus = t => bar.todo = {t})
        /\ bar.info \in [Toplevels -> [active : BOOLEAN, over : BOOLEAN]]
        /\ bar.handle \in [Toplevels -> {"none", "open", "closed", "destroyed"}]
        /\ bar.entered \in [Toplevels -> Nat]
    BY DEF BarSound, Refresh, Due, Bar
  <1>2. PICK info : info = Info(core, t)
    OBVIOUS
  <1>3. (info.active <=> core.focus = t) /\ info \in [active : BOOLEAN, over : BOOLEAN]
    <2>1. PICK f : f = (core.focus = t)
      OBVIOUS
    <2>2. PICK o : o = Mapped(core, t)
      OBVIOUS
    <2>3. f \in BOOLEAN /\ o \in BOOLEAN
      BY <2>1, <2>2 DEF Mapped
    <2>4. info = [active |-> f, over |-> o]
      BY <1>2, <2>1, <2>2 DEF Info
    <2>5. info.active = f /\ info \in [active : BOOLEAN, over : BOOLEAN]
      BY <2>3, <2>4
    <2> QED
      BY <2>1, <2>5
  <1>4. PICK i : i = [bar.info EXCEPT ![t] = info]
    OBVIOUS
  <1>5. /\ i \in [Toplevels -> [active : BOOLEAN, over : BOOLEAN]] /\ i[t] = info
        /\ \A u \in Toplevels : u # t => i[u] = bar.info[u]
    BY <1>1, <1>3, <1>4
  <1>6. PICK b : b = [bar EXCEPT !.todo = @ \ {t}, !.tracked = @ \cup {t}, !.info = i]
    OBVIOUS
  <1>7. /\ b \in Bar /\ b.manager = bar.manager /\ b.output = bar.output /\ b.tracked = bar.tracked \cup {t}
        /\ b.todo = bar.todo \ {t} /\ b.info = i
        /\ b.handle = bar.handle /\ b.active = bar.active /\ b.entered = bar.entered
    BY <1>1, <1>5, <1>6 DEF Bar
  <1>8. PICK act : act = IF info.active THEN bar.active \cup {t} ELSE bar.active \ {t}
    OBVIOUS
  <1>9. act \in SUBSET Toplevels /\ \A u \in act : IF u = t THEN info.active ELSE u \in bar.active
    BY <1>1, <1>8 DEF Bar
  <1>10. PICK h : h = [bar.handle EXCEPT ![t] = "open"]
    OBVIOUS
  <1>11. PICK n : n = [bar.entered EXCEPT ![t] = Enters(info.over)]
    OBVIOUS
  <1>12. PICK m : m = [bar.entered EXCEPT
                         ![t] = IF info.over = bar.info[t].over THEN @ ELSE Enters(info.over)]
    OBVIOUS
  <1>13. /\ h \in [Toplevels -> {"none", "open", "closed", "destroyed"}] /\ n \in [Toplevels -> Nat]
         /\ m \in [Toplevels -> Nat]
         /\ h[t] = "open" /\ n[t] = Enters(info.over)
         /\ m[t] = IF info.over = bar.info[t].over THEN bar.entered[t] ELSE Enters(info.over)
         /\ \A u \in Toplevels : u # t => h[u] = bar.handle[u] /\ n[u] = bar.entered[u] /\ m[u] = bar.entered[u]
    BY <1>1, <1>10, <1>11, <1>12 DEF Enters
  <1>14. \/ (t \in bar.tracked \/ bar.manager # "bound") /\ bar.handle[t] # "open" /\ bar' = b
         \/ t \notin bar.tracked /\ bar' = [b EXCEPT !.handle = h, !.active = act, !.entered = n]
         \/ t \in bar.tracked /\ bar.handle[t] = "open" /\ bar' = [b EXCEPT !.active = act, !.entered = m]
    <2>1. t \notin bar.tracked => bar.handle[t] # "open"
      BY DEF BarSound
    <2>2. bar' = IF t \notin bar.tracked
                 THEN IF bar.manager = "bound" THEN Announce(b, t, info) ELSE b
                 ELSE IF bar.handle[t] # "open" THEN b
                 ELSE [b EXCEPT
                        !.active = IF info.active THEN @ \cup {t} ELSE @ \ {t},
                        !.entered[t] = IF info.over = bar.info[t].over THEN @
                                       ELSE Enters(info.over)]
      BY <1>2, <1>4, <1>6 DEF Refresh
    <2>3. Announce(b, t, info) = [b EXCEPT !.handle = h, !.active = act, !.entered = n]
      BY <1>7, <1>8, <1>10, <1>11 DEF Announce
    <2>4. [b EXCEPT !.active = IF info.active THEN @ \cup {t} ELSE @ \ {t},
                    !.entered[t] = IF info.over = bar.info[t].over THEN @ ELSE Enters(info.over)]
            = [b EXCEPT !.active = act, !.entered = m]
      BY <1>7, <1>8, <1>12
    <2> QED
      BY <2>1, <2>2, <2>3, <2>4
  <1>15. /\ bar' \in Bar /\ bar'.output = bar.output /\ bar'.tracked = bar.tracked \cup {t}
         /\ bar'.todo = bar.todo \ {t} /\ bar'.info = i
    <2>1. CASE bar' = b
      BY <1>7, <2>1
    <2>2. CASE bar' = [b EXCEPT !.handle = h, !.active = act, !.entered = n]
      BY <1>7, <1>9, <1>13, <2>2 DEF Bar
    <2>3. CASE bar' = [b EXCEPT !.active = act, !.entered = m]
      BY <1>7, <1>9, <1>13, <2>3 DEF Bar
    <2> QED
      BY <1>14, <2>1, <2>2, <2>3
  <1>16. \/ /\ (t \in bar.tracked \/ bar.manager # "bound") /\ bar.handle[t] # "open"
            /\ bar'.handle = bar.handle /\ bar'.active = bar.active /\ bar'.entered = bar.entered
         \/ /\ t \notin bar.tracked
            /\ bar'.handle = h /\ bar'.active = act /\ bar'.entered = n
         \/ /\ t \in bar.tracked /\ bar.handle[t] = "open"
            /\ bar'.handle = bar.handle /\ bar'.active = act /\ bar'.entered = m
    BY <1>7, <1>14 DEF Bar
  <1>17. \A u \in Toplevels :
           IF bar'.handle[u] = "open"
           THEN u \in bar.tracked \cup {t} /\ bar'.entered[u] = Enters(i[u].over)
           ELSE bar'.entered[u] = 0
    BY <1>1, <1>5, <1>13, <1>16 DEF BarSound
  <1>18. \A u \in bar'.active : bar'.handle[u] = "open" /\ i[u].active
    BY <1>1, <1>5, <1>9, <1>13, <1>16 DEF BarSound, Bar
  <1>19. \A u \in bar.tracked : u # t /\ core.focus = t => ~i[u].active
    BY <1>1, <1>5 DEF BarSound, Bar
  <1>20. \A u, v \in bar.tracked \cup {t} : i[u].active /\ i[v].active => u = v
    BY <1>1, <1>3, <1>5, <1>19 DEF BarSound, Bar
  <1>21. core' = core
    BY DEF Refresh
  <1>22. bar.todo \ {t} # {} =>
           \A u \in (bar.tracked \cup {t}) \ (bar.todo \ {t}) : i[u].active => core.focus = u
    BY <1>1, <1>3, <1>5 DEF BarSound, Bar
  <1> QED
    BY <1>15, <1>17, <1>18, <1>20, <1>21, <1>22 DEF BarSound, Enters

-----------------------------------------------------------------------------
(* The theorems.                                                           *)

LEMMA WindowsStarts ==
    ASSUME Init
    PROVE  WindowsInd
  <1>1. PICK scene \in Scenes, vm \in VMs :
          core =
            [unmapped |-> {}, configured |-> {}, dead |-> {}, windows |-> {},
             stack |-> << >>, desired |-> {}, props |-> {}, prev |-> {},
             listed |-> {}, ipc |-> {}, focus |-> Nobody,
             pending |-> [t \in Toplevels |-> Nobody],
             known |-> [t \in Toplevels |-> 0], vm |-> vm, reloads |-> 0,
             scene |-> scene, layer |-> "none", snap |-> FALSE, script |-> Idle,
             token |-> [k \in Tokens |-> [state |-> "none", urgent |-> FALSE,
               fresh |-> FALSE, uses |-> 0, late |-> FALSE]]]
    BY DEF Init
  <1>2. /\ core.token = [k \in Tokens |-> [state |-> "none", urgent |-> FALSE,
                                            fresh |-> FALSE, uses |-> 0, late |-> FALSE]]
        /\ core.pending = [t \in Toplevels |-> Nobody] /\ core.known = [t \in Toplevels |-> 0]
        /\ core.stack = << >> /\ core.desired = {} /\ core.props = {} /\ core.prev = {}
        /\ core.windows = {} /\ core.listed = {} /\ core.ipc = {} /\ core.script = Idle
    BY <1>1
  <1>3. core \in Core
    <2>1. 0 \in 0 .. MaxReloads /\ Idle \in Scripts /\ << >> \in Seq(Toplevels)
      BY WindowAssumption DEF Scripts
    <2>2. core.token \in [Tokens -> Token]
      BY <1>2 DEF Token
    <2>3. core.pending \in [Toplevels -> Tokens \cup {Nobody}] /\ core.known \in [Toplevels -> Nat]
      BY <1>2
    <2> QED
      BY <1>1, <2>1, <2>2, <2>3 DEF Core
  <1>4. Distinct(core.stack) /\ ToSet(core.stack) = {}
    BY <1>2 DEF Distinct, ToSet
  <1>5. Tables(core)
    BY <1>2, <1>3, <1>4 DEF Tables
  <1>6. TokenSound(core)
    BY <1>2 DEF TokenSound
  <1>7. Rested(core)
    BY <1>2, <1>5, <1>6 DEF Rested, Settled
  <1>8. BarSound
    BY DEF Init, BarSound, Bar
  <1> QED
    BY <1>7, <1>8 DEF WindowsInd

LEMMA WindowsStep ==
    ASSUME WindowsInd, [Next]_vars
    PROVE  WindowsInd'
  <1>1. Rested(core) /\ BarSound
    BY DEF WindowsInd
  <1>2. CASE Handled
    BY <1>1, <1>2, BarKept DEF WindowsInd, Handled
  <1>3. ASSUME NEW t \in Toplevels,
               NewToplevel(t) \/ Commit(t) \/ Destroy(t) \/ WindowRequest(t)
        PROVE  WindowsInd'
    BY <1>1, <1>2, <1>3, NewToplevelStep, CommitStep, DestroyStep, WindowRequestStep
  <1>4. CASE ClickFocus \/ LuaEntry \/ ConfigChanged \/ LayerCommit \/ LayerDestroyed \/ Prune
    BY <1>1, <1>2, <1>4, ClickFocusStep, LuaEntryStep, ConfigChangedStep, LayerCommitStep,
       LayerDestroyedStep, PruneStep
  <1>5. ASSUME NEW k \in Tokens, TokenCreated(k) \/ Age(k)
        PROVE  WindowsInd'
    BY <1>1, <1>2, <1>5, TokenSteps
  <1>6. ASSUME NEW k \in Tokens, NEW t \in Toplevels, RequestActivation(k, t)
        PROVE  WindowsInd'
    BY <1>1, <1>2, <1>6, RequestActivationStep
  <1>7. ASSUME core' = core, BarSound'
        PROVE  WindowsInd'
    BY <1>1, <1>7 DEF WindowsInd
  <1>8. CASE BindManager \/ StopManager \/ BindOutput \/ StartRefresh
    <2>1. BarSound'
      BY <1>1, <1>8, BindManagerStep, StopManagerStep, BindOutputStep, StartRefreshStep
    <2>2. core' = core
      BY <1>8 DEF BindManager, StopManager, BindOutput, StartRefresh
    <2> QED
      BY <1>7, <2>1, <2>2
  <1>9. ASSUME NEW t \in Toplevels, DestroyHandle(t) \/ Refresh(t)
        PROVE  WindowsInd'
    <2>1. BarSound'
      BY <1>1, <1>9, DestroyHandleStep, RefreshStep
    <2>2. core' = core
      BY <1>9 DEF DestroyHandle, Refresh
    <2> QED
      BY <1>7, <2>1, <2>2
  <1>10. CASE UNCHANGED vars
    BY <1>1, <1>10 DEF WindowsInd, vars, BarSound, Enters
  <1> QED
    BY <1>3, <1>4, <1>5, <1>6, <1>8, <1>9, <1>10 DEF Next

\* Whatever Lua queues and whenever the VM is replaced, the tables stay sound.
THEOREM WindowsInvariant == Spec => []WindowsInd
  <1>1. Init => WindowsInd
    BY WindowsStarts
  <1>2. WindowsInd /\ [Next]_vars => WindowsInd'
    BY WindowsStep
  <1> QED
    BY <1>1, <1>2, PTL DEF Spec

\* No table names a window that is gone, and the VM that runs tracks each
\* window there is exactly once.
THEOREM TablesTheorem == Spec => []WindowsInv
  <1>1. WindowsInd => WindowsInv
    <2> SUFFICES ASSUME WindowsInd PROVE WindowsInv
      OBVIOUS
    <2>1. Rested(core) /\ Tables(core) /\ core \in Core /\ bar \in Bar
      BY DEF WindowsInd, Rested, Settled, Tables, BarSound
    <2>2. \A k \in Tokens : core.token[k] \in Token
      BY <2>1 DEF Core
    <2>3. TypeOK
      <3>1. /\ core.windows \cup core.unmapped \cup core.dead \subseteq Toplevels
            /\ core.configured \subseteq Toplevels /\ core.vm \in VMs /\ core.reloads \in 0 .. MaxReloads
            /\ core.focus \in Toplevels \cup {Panel, Nobody}
            /\ core.layer \in {"none", "mapped", "zoned"} /\ core.snap \in BOOLEAN
        BY <2>1 DEF Core
      <3>2. core.windows \cap core.unmapped = {} /\ core.script = Idle
        BY <2>1 DEF Rested, Settled
      <3>3. /\ bar.manager \in {"none", "bound", "stopped"} /\ bar.output \in BOOLEAN
            /\ bar.tracked \cup bar.todo \cup bar.active \subseteq Toplevels
            /\ \A t \in Toplevels : bar.handle[t] \in {"none", "open", "closed", "destroyed"}
        BY <2>1 DEF Bar
      <3> QED
        BY <2>2, <3>1, <3>2, <3>3 DEF TypeOK, Token
    <2>4. NoDeadEntries /\ TrackedOnce
      BY <2>1 DEF NoDeadEntries, TrackedOnce, Rested, Settled, Tables
    <2> QED
      BY <2>3, <2>4 DEF WindowsInv
  <1> QED
    BY <1>1, WindowsInvariant, PTL

\* An activation token serves once, and while it is fresh.
THEOREM TokensTheorem == Spec => []TokensServeOnce
  <1>1. WindowsInd => TokensServeOnce
    BY DEF WindowsInd, Rested, Settled, TokenSound, TokensServeOnce
  <1> QED
    BY <1>1, WindowsInvariant, PTL

\* The taskbar never sees two windows activated, and each handle has entered
\* the output as often as its window overlaps it.
THEOREM TaskbarTheorem == Spec => []TaskbarTruthful
  <1>1. WindowsInd => TaskbarTruthful
    <2> SUFFICES ASSUME WindowsInd PROVE TaskbarTruthful
      OBVIOUS
    <2>1. \A t \in bar.active : t \in bar.tracked /\ bar.info[t].active
      BY DEF WindowsInd, BarSound, Bar
    <2>2. \A t, u \in bar.active : t = u
      BY <2>1 DEF WindowsInd, BarSound
    <2>3. OneActivated
      <3>1. CASE bar.active = {}
        BY <3>1, FS_EmptySet DEF OneActivated
      <3>2. ASSUME NEW t \in bar.active PROVE OneActivated
        <4>1. bar.active = {t}
          BY <2>2
        <4>2. Cardinality({t}) = 1
          BY FS_Singleton
        <4> QED
          BY <4>1, <4>2 DEF OneActivated
      <3> QED
        BY <3>1, <3>2
    <2>4. EntersBalanced
      BY DEF EntersBalanced, WindowsInd, BarSound, Enters
    <2> QED
      BY <2>3, <2>4 DEF TaskbarTruthful
  <1> QED
    BY <1>1, WindowsInvariant, PTL

-----------------------------------------------------------------------------
(* The widgets, whatever Lua does to them.                                 *)

\* Of two widgets, no more than "no tag" is the same; Lua's have no tag.
Apart(s) ==
    /\ \A i, j \in 1 .. Len(s) : i # j =>
          s[i].id # s[j].id /\ (s[i].tag = s[j].tag => s[i].tag = "none")
    /\ \A i \in 1 .. Len(s) : s[i].handler = "Lua" => s[i].tag = "none"

Listed(u) == u \in Ui /\ Apart(u.widgets)

\* The callbacks that the VM owes the widgets of u.
Owed(u) == {w.id : w \in {v \in Widgets(u) : v.handler = "Lua" /\ Modal(v)}}

UiSound(u) == Listed(u) /\ u.callbacks = Owed(u)

\* Nothing but a press starts a drag.
Calm(u, v) == v.overlay = "dragging" => u.overlay = "dragging"

\* Where the widgets are, in sets.
LEMMA ListedLemma ==
    ASSUME NEW u, Listed(u)
    PROVE  /\ Widgets(u) = {u.widgets[i] : i \in 1 .. Len(u.widgets)}
           /\ Widgets(u) \subseteq Widget
           /\ \A v, w \in Widgets(u) : v.id = w.id => v = w
           /\ \A w \in Widgets(u) : w.handler = "Lua" => w.tag = "none"
           /\ OpenIds(u) \subseteq WidgetIds /\ Owed(u) \subseteq OpenIds(u)
  <1>1. u.widgets \in Seq(Widget)
    BY DEF Listed, Ui
  <1>2. Widgets(u) = {u.widgets[i] : i \in 1 .. Len(u.widgets)}
    BY <1>1 DEF Widgets, ToSet
  <1>3. \A i \in 1 .. Len(u.widgets) : u.widgets[i] \in Widget
    BY <1>1
  <1>4. \A w \in Widget : w.id \in WidgetIds
    BY DEF Widget
  <1>5. OpenIds(u) \subseteq WidgetIds /\ Owed(u) \subseteq OpenIds(u)
    BY <1>2, <1>3, <1>4 DEF OpenIds, Owed
  <1> QED
    BY <1>2, <1>3, <1>5 DEF Listed, Apart

LEMMA RetainApart ==
    ASSUME NEW s \in Seq(Widget), Apart(s), NEW kept
    PROVE  LET t == Retain(s, kept)
           IN  t \in Seq(Widget) /\ Apart(t) /\ ToSet(t) = ToSet(s) \cap kept
  <1>1. PICK t : t = Retain(s, kept)
    OBVIOUS
  <1>2. t \in Seq(Widget)
    BY <1>1, RetainOrder
  <1>3. PICK pos : Places(pos, s, kept, t)
    BY <1>1, RetainOrder
  <1>4. Len(t) \in Nat /\ Len(s) \in Nat
    BY <1>2
  <1>5. \A m \in 1 .. Len(t) : pos[m] \in 1 .. Len(s) /\ t[m] = s[pos[m]] /\ t[m] \in kept
    BY <1>3 DEF Places
  <1>6. \A m, n \in 1 .. Len(t) : m # n => pos[m] # pos[n]
    <2> SUFFICES ASSUME NEW m \in 1 .. Len(t), NEW n \in 1 .. Len(t), m # n
                 PROVE  pos[m] # pos[n]
      OBVIOUS
    <2>1. m < n \/ n < m
      BY <1>4
    <2>2. pos[m] < pos[n] \/ pos[n] < pos[m]
      BY <1>3, <2>1 DEF Places
    <2>3. pos[m] \in Nat /\ pos[n] \in Nat
      BY <1>4, <1>5
    <2> QED
      BY <2>2, <2>3
  <1>7. Apart(t)
    <2>1. /\ \A i, j \in 1 .. Len(s) : i # j =>
                s[i].id # s[j].id /\ (s[i].tag = s[j].tag => s[i].tag = "none")
          /\ \A i \in 1 .. Len(s) : s[i].handler = "Lua" => s[i].tag = "none"
      BY DEF Apart
    <2>2. ASSUME NEW m \in 1 .. Len(t), NEW n \in 1 .. Len(t), m # n
          PROVE  t[m].id # t[n].id /\ (t[m].tag = t[n].tag => t[m].tag = "none")
      <3>1. pos[m] # pos[n]
        BY <1>6, <2>2
      <3>2. s[pos[m]].id # s[pos[n]].id /\ (s[pos[m]].tag = s[pos[n]].tag => s[pos[m]].tag = "none")
        BY <1>5, <2>1, <3>1
      <3> QED
        BY <1>5, <3>2
    <2>3. ASSUME NEW m \in 1 .. Len(t), t[m].handler = "Lua"
          PROVE  t[m].tag = "none"
      BY <1>5, <2>1, <2>3
    <2> QED
      BY <2>2, <2>3 DEF Apart
  <1>8. ToSet(t) = ToSet(s) \cap kept
    <2>1. ToSet(t) = {t[i] : i \in 1 .. Len(t)} /\ ToSet(s) = {s[i] : i \in 1 .. Len(s)}
      BY <1>2 DEF ToSet
    <2>2. \A i \in 1 .. Len(s) : s[i] \in kept => \E n \in 1 .. Len(t) : pos[n] = i
      BY <1>3 DEF Places
    <2>3. ASSUME NEW w \in ToSet(t)
          PROVE  w \in ToSet(s) \cap kept
      <3>1. PICK n \in 1 .. Len(t) : w = t[n]
        BY <2>1
      <3> QED
        BY <1>5, <2>1, <3>1
    <2>4. ASSUME NEW w \in ToSet(s) \cap kept
          PROVE  w \in ToSet(t)
      <3>1. PICK i \in 1 .. Len(s) : w = s[i]
        BY <2>1
      <3>2. PICK n \in 1 .. Len(t) : pos[n] = i
        BY <2>2, <3>1
      <3> QED
        BY <1>5, <2>1, <3>1, <3>2
    <2> QED
      BY <2>3, <2>4
  <1> QED
    BY <1>1, <1>2, <1>7, <1>8

LEMMA LackingLemma ==
    ASSUME NEW u, Listed(u), NEW gone
    PROVE  /\ Listed(Lacking(u, gone))
           /\ Widgets(Lacking(u, gone)) = Widgets(u) \ gone
           /\ Calm(u, Lacking(u, gone))
           /\ Lacking(u, gone).overlay = u.overlay
           /\ Lacking(u, gone).callbacks = u.callbacks /\ Lacking(u, gone).grab = u.grab
  <1>1. PICK t : t = Retain(u.widgets, Widgets(u) \ gone)
    OBVIOUS
  <1>2. PICK v : v = Lacking(u, gone)
    OBVIOUS
  <1>3. u \in Ui /\ u.widgets \in Seq(Widget) /\ Apart(u.widgets)
    BY DEF Listed, Ui
  <1>4. t \in Seq(Widget) /\ Apart(t) /\ ToSet(t) = ToSet(u.widgets) \cap (Widgets(u) \ gone)
    BY <1>1, <1>3, RetainApart
  <1>5. v = [u EXCEPT !.widgets = t]
    BY <1>1, <1>2 DEF Lacking
  <1>6. v \in Ui /\ v.widgets = t /\ v.callbacks = u.callbacks /\ v.grab = u.grab
        /\ v.overlay = u.overlay /\ v.locked = u.locked
    BY <1>3, <1>4, <1>5 DEF Ui
  <1>7. Widgets(v) = Widgets(u) \ gone
    BY <1>4, <1>6 DEF Widgets
  <1> QED
    BY <1>2, <1>4, <1>6, <1>7 DEF Listed, Calm

\* Some widgets are closed, those of ids, with their callbacks.
LEMMA ClosedLemma ==
    ASSUME NEW u, NEW v, NEW ids, UiSound(u), Listed(v),
           Widgets(v) = Widgets(u) \ {w \in Widgets(u) : w.id \in ids},
           v.callbacks = u.callbacks \ ids
    PROVE  UiSound(v)
  BY DEF UiSound, Owed

LEMMA CallbacksSet ==
    ASSUME NEW u, Listed(u), NEW ids \in SUBSET WidgetIds
    PROVE  LET v == [u EXCEPT !.callbacks = ids]
           IN  /\ Listed(v) /\ Widgets(v) = Widgets(u) /\ v.callbacks = ids /\ Calm(u, v)
               /\ v.overlay = u.overlay /\ v.grab = u.grab
  BY DEF Listed, Ui, Widgets, Calm

LEMMA CloseWidgetLemma ==
    ASSUME NEW u, UiSound(u), NEW id
    PROVE  UiSound(CloseWidget(u, id)) /\ Calm(u, CloseWidget(u, id))
  <1>1. CASE id \notin OpenIds(u)
    BY <1>1 DEF CloseWidget, Calm
  <1>2. CASE id \in OpenIds(u)
    <2>1. PICK l : l = Lacking(u, WithId(u, id))
      OBVIOUS
    <2>2. PICK v : v = CloseWidget(u, id)
      OBVIOUS
    <2>3. Listed(u) /\ u.callbacks \in SUBSET WidgetIds
      BY DEF UiSound, Listed, Ui
    <2>4. /\ Listed(l) /\ Widgets(l) = Widgets(u) \ WithId(u, id) /\ Calm(u, l)
          /\ l.callbacks = u.callbacks
      BY <2>1, <2>3, LackingLemma
    <2>5. v = [l EXCEPT !.callbacks = l.callbacks \ {id}]
      BY <1>2, <2>1, <2>2 DEF CloseWidget
    <2>6. l.callbacks \ {id} \in SUBSET WidgetIds
      BY <2>3, <2>4
    <2>7. /\ Listed(v) /\ Widgets(v) = Widgets(l) /\ v.callbacks = u.callbacks \ {id}
          /\ Calm(l, v)
      BY <2>4, <2>5, <2>6, CallbacksSet
    <2>8. WithId(u, id) = {w \in Widgets(u) : w.id \in {id}}
      BY DEF WithId
    <2>9. UiSound(v)
      BY <2>4, <2>7, <2>8, ClosedLemma
    <2> QED
      BY <2>2, <2>4, <2>7, <2>9 DEF Calm
  <1> QED
    BY <1>1, <1>2

LEMMA DismissLemma ==
    ASSUME NEW u, UiSound(u), NEW ids
    PROVE  UiSound(DismissSheets(u, ids)) /\ Calm(u, DismissSheets(u, ids))
  <1>1. PICK gone : gone = {w \in Widgets(u) : w.id \in ids}
    OBVIOUS
  <1>2. PICK l : l = Lacking(u, gone)
    OBVIOUS
  <1>3. PICK v : v = DismissSheets(u, ids)
    OBVIOUS
  <1>4. Listed(u) /\ u.callbacks \in SUBSET WidgetIds /\ u.callbacks \subseteq OpenIds(u)
    BY ListedLemma DEF UiSound, Listed, Ui
  <1>5. /\ Listed(l) /\ Widgets(l) = Widgets(u) \ gone /\ Calm(u, l) /\ l.callbacks = u.callbacks
    BY <1>2, <1>4, LackingLemma
  <1>6. v = [l EXCEPT !.callbacks = l.callbacks \ (ids \cap OpenIds(u))]
    BY <1>1, <1>2, <1>3 DEF DismissSheets
  <1>7. l.callbacks \ (ids \cap OpenIds(u)) \in SUBSET WidgetIds
    BY <1>4, <1>5
  <1>8. /\ Listed(v) /\ Widgets(v) = Widgets(l) /\ Calm(l, v)
        /\ v.callbacks = l.callbacks \ (ids \cap OpenIds(u))
    BY <1>5, <1>6, <1>7, CallbacksSet
  <1>9. v.callbacks = u.callbacks \ ids
    BY <1>4, <1>5, <1>8
  <1>10. UiSound(v)
    BY <1>1, <1>5, <1>8, <1>9, ClosedLemma
  <1> QED
    BY <1>3, <1>5, <1>8, <1>10 DEF Calm

LEMMA CloseTagLemma ==
    ASSUME NEW u, UiSound(u), NEW tag \in Tag \ {"none"}
    PROVE  /\ UiSound(CloseTag(u, tag)) /\ Calm(u, CloseTag(u, tag)) /\ ~TagOpen(CloseTag(u, tag), tag)
           /\ Widgets(CloseTag(u, tag)) \subseteq Widgets(u)
           /\ OpenIds(CloseTag(u, tag)) \subseteq OpenIds(u)
  <1>1. PICK gone : gone = {w \in Widgets(u) : w.tag = tag}
    OBVIOUS
  <1>2. PICK v : v = CloseTag(u, tag)
    OBVIOUS
  <1>3. v = Lacking(u, gone)
    BY <1>1, <1>2 DEF CloseTag
  <1>4. Listed(u) /\ u.callbacks = Owed(u)
    BY DEF UiSound
  <1>5. Listed(v) /\ Widgets(v) = Widgets(u) \ gone /\ Calm(u, v) /\ v.callbacks = u.callbacks
    BY <1>3, <1>4, LackingLemma
  <1>6. \A w \in Widgets(u) : w.handler = "Lua" => w.tag # tag
    BY <1>4, ListedLemma
  <1>7. Owed(v) = Owed(u)
    BY <1>1, <1>5, <1>6 DEF Owed
  <1>8. ~TagOpen(v, tag) /\ OpenIds(v) \subseteq OpenIds(u)
    BY <1>1, <1>5 DEF TagOpen, OpenIds
  <1> QED
    BY <1>2, <1>4, <1>5, <1>7, <1>8 DEF UiSound

LEMMA OpenLemma ==
    ASSUME NEW u, UiSound(u), NEW id \in WidgetIds \ OpenIds(u), NEW kind \in Kind,
           NEW handler \in {"Lua", "builtin"}, NEW tag \in Tag,
           handler = "Lua" => tag = "none", tag = "none" \/ ~TagOpen(u, tag)
    PROVE  UiSound(Open(u, id, kind, handler, tag)) /\ Calm(u, Open(u, id, kind, handler, tag))
  <1>1. PICK w : w = [id |-> id, kind |-> kind, handler |-> handler, tag |-> tag]
    OBVIOUS
  <1>2. PICK more : more = IF handler = "Lua" /\ kind \in {"confirm", "menu"} THEN {id} ELSE {}
    OBVIOUS
  <1>3. PICK t : t = Append(u.widgets, w)
    OBVIOUS
  <1>4. PICK v : v = Open(u, id, kind, handler, tag)
    OBVIOUS
  <1>5. Listed(u) /\ u \in Ui /\ u.callbacks = Owed(u) /\ u.widgets \in Seq(Widget) /\ Apart(u.widgets)
    BY DEF UiSound, Listed, Ui
  <1>6. w \in Widget /\ w.id = id /\ w.handler = handler /\ w.tag = tag /\ w.kind = kind
    BY <1>1 DEF Widget
  <1>7. /\ t \in Seq(Widget) /\ Len(t) = Len(u.widgets) + 1 /\ Len(u.widgets) \in Nat
        /\ t[Len(t)] = w /\ \A i \in 1 .. Len(u.widgets) : t[i] = u.widgets[i]
    BY <1>3, <1>5, <1>6
  <1>8. \A i \in 1 .. Len(t) : i = Len(t) \/ i \in 1 .. Len(u.widgets)
    BY <1>7
  <1>9. v = [u EXCEPT !.widgets = t, !.callbacks = u.callbacks \cup more]
    BY <1>1, <1>2, <1>3, <1>4 DEF Open
  <1>10. u.callbacks \cup more \in SUBSET WidgetIds
    BY <1>2, <1>5 DEF Ui
  <1>11. v \in Ui /\ v.widgets = t /\ v.callbacks = u.callbacks \cup more /\ Calm(u, v)
    BY <1>5, <1>7, <1>9, <1>10 DEF Ui, Calm
  <1>12. Widgets(v) = Widgets(u) \cup {w}
    <2>1. Widgets(v) = {t[i] : i \in 1 .. Len(t)}
      BY <1>7, <1>11 DEF Widgets, ToSet
    <2>2. Widgets(u) = {u.widgets[i] : i \in 1 .. Len(u.widgets)}
      BY <1>5, ListedLemma
    <2>3. 1 .. Len(u.widgets) \subseteq 1 .. Len(t) /\ Len(t) \in 1 .. Len(t)
      BY <1>7
    <2> QED
      BY <1>7, <1>8, <2>1, <2>2, <2>3
  <1>13. \A i \in 1 .. Len(u.widgets) : u.widgets[i].id # id /\ (u.widgets[i].tag = tag => tag = "none")
    <2>1. \A i \in 1 .. Len(u.widgets) : u.widgets[i] \in Widgets(u)
      BY <1>5, ListedLemma
    <2> QED
      BY <2>1 DEF OpenIds, TagOpen
  <1>14. Apart(t)
    <2>1. ASSUME NEW i \in 1 .. Len(t), NEW j \in 1 .. Len(t), i # j
          PROVE  t[i].id # t[j].id /\ (t[i].tag = t[j].tag => t[i].tag = "none")
      <3>1. CASE i = Len(t)
        <4>1. j \in 1 .. Len(u.widgets)
          BY <1>8, <2>1, <3>1
        <4> QED
          BY <1>6, <1>7, <1>13, <3>1, <4>1
      <3>2. CASE j = Len(t)
        <4>1. i \in 1 .. Len(u.widgets)
          BY <1>8, <2>1, <3>2
        <4> QED
          BY <1>6, <1>7, <1>13, <3>2, <4>1
      <3>3. CASE i # Len(t) /\ j # Len(t)
        <4>1. i \in 1 .. Len(u.widgets) /\ j \in 1 .. Len(u.widgets)
          BY <1>8, <3>3
        <4> QED
          BY <1>5, <1>7, <2>1, <4>1 DEF Apart
      <3> QED
        BY <3>1, <3>2, <3>3
    <2>2. ASSUME NEW i \in 1 .. Len(t), t[i].handler = "Lua"
          PROVE  t[i].tag = "none"
      <3>1. CASE i = Len(t)
        BY <1>6, <1>7, <2>2, <3>1
      <3>2. CASE i \in 1 .. Len(u.widgets)
        BY <1>5, <1>7, <2>2, <3>2 DEF Apart
      <3> QED
        BY <1>8, <3>1, <3>2
    <2> QED
      BY <2>1, <2>2 DEF Apart
  <1>15. Owed(v) = Owed(u) \cup more
    <2>1. more = {x.id : x \in {y \in {w} : y.handler = "Lua" /\ Modal(y)}}
      BY <1>2, <1>6 DEF Modal
    <2>2. Owed(v) = Owed(u) \cup {x.id : x \in {y \in {w} : y.handler = "Lua" /\ Modal(y)}}
      BY <1>12 DEF Owed
    <2> QED
      BY <2>1, <2>2
  <1> QED
    BY <1>4, <1>5, <1>11, <1>14, <1>15 DEF UiSound, Listed

LEMMA ReloadConfigLemma ==
    ASSUME NEW u, UiSound(u)
    PROVE  UiSound(ReloadConfig(u)) /\ Calm(u, ReloadConfig(u))
  <1>1. PICK c : c = CloseTag(CloseTag(u, "ConfigError"), "HotkeyOverlay")
    OBVIOUS
  <1>2. PICK d : d = CloseTag(u, "ConfigError")
    OBVIOUS
  <1>3. PICK gone : gone = {w \in Widgets(u) : w.handler = "Lua"}
    OBVIOUS
  <1>4. PICK l : l = Lacking(c, gone)
    OBVIOUS
  <1>5. PICK v : v = ReloadConfig(u)
    OBVIOUS
  <1>6. "ConfigError" \in Tag \ {"none"} /\ "HotkeyOverlay" \in Tag \ {"none"}
    BY DEF Tag
  <1>7. UiSound(d) /\ Calm(u, d) /\ Widgets(d) \subseteq Widgets(u)
    BY <1>2, <1>6, CloseTagLemma
  <1>8. UiSound(c) /\ Calm(d, c) /\ Widgets(c) \subseteq Widgets(d)
    BY <1>1, <1>2, <1>6, <1>7, CloseTagLemma
  <1>9. Listed(l) /\ Widgets(l) = Widgets(c) \ gone /\ Calm(c, l)
    BY <1>4, <1>8, LackingLemma DEF UiSound
  <1>10. v = [l EXCEPT !.callbacks = {}, !.grab = FALSE]
    BY <1>1, <1>3, <1>4, <1>5 DEF ReloadConfig
  <1>11. Listed(v) /\ Widgets(v) = Widgets(l) /\ v.callbacks = {} /\ Calm(l, v)
    BY <1>9, <1>10 DEF Listed, Ui, Widgets, Calm
  <1>12. Owed(v) = {}
    BY <1>3, <1>7, <1>8, <1>9, <1>11 DEF Owed
  <1> QED
    BY <1>5, <1>7, <1>8, <1>9, <1>11, <1>12 DEF UiSound, Calm

\* The other fields have nothing to do with the widgets.
LEMMA FieldsLemma ==
    ASSUME NEW u, UiSound(u), NEW v \in Ui, v.widgets = u.widgets, v.callbacks = u.callbacks
    PROVE  UiSound(v) /\ Widgets(v) = Widgets(u)
  BY DEF UiSound, Listed, Widgets, Owed

LEMMA LuaRunsLemma ==
    ASSUME NEW u, UiSound(u), NEW v \in LuaRuns(u)
    PROVE  UiSound(v) /\ Calm(u, v)
  <1>1. u \in Ui
    BY DEF UiSound, Listed
  <1>3. CASE v = u
    BY <1>3 DEF Calm
  <1>4. CASE v = [u EXCEPT !.grab = TRUE] \/ v = [u EXCEPT !.grab = FALSE]
    <2>1. v \in Ui /\ v.widgets = u.widgets /\ v.callbacks = u.callbacks /\ Calm(u, v)
      BY <1>1, <1>4 DEF Ui, Calm
    <2> QED
      BY <2>1, FieldsLemma
  <1>5. CASE v = ReloadConfig(u)
    BY <1>5, ReloadConfigLemma
  <1>6. CASE v = [u EXCEPT !.overlay = "open"]
    <2>1. v \in Ui /\ v.widgets = u.widgets /\ v.callbacks = u.callbacks /\ Calm(u, v)
      BY <1>1, <1>6 DEF Ui, Calm
    <2> QED
      BY <2>1, FieldsLemma
  <1>7. CASE \E w \in Widgets(u) : v = CloseWidget(u, w.id)
    BY <1>7, CloseWidgetLemma
  <1>8. CASE \E id \in WidgetIds \ OpenIds(u), kind \in Kind : v = Open(u, id, kind, "Lua", "none")
    BY <1>8, OpenLemma DEF Tag
  <1>9. CASE /\ ~TagOpen(u, "ExitDialog")
             /\ \E id \in WidgetIds \ OpenIds(u) : v = Open(u, id, "confirm", "builtin", "ExitDialog")
    BY <1>9, OpenLemma DEF Tag, Kind
  <1>10. CASE v = CloseTag(u, "HotkeyOverlay")
    BY <1>10, CloseTagLemma DEF Tag
  <1>11. CASE /\ ~TagOpen(u, "HotkeyOverlay")
              /\ \E id \in WidgetIds \ OpenIds(u) : v = Open(u, id, "sheet", "builtin", "HotkeyOverlay")
    BY <1>11, OpenLemma DEF Tag, Kind
  <1>12. CASE \E id \in WidgetIds \ OpenIds(u) :
                v = Open(CloseTag(u, "ConfigError"), id, "toast", "builtin", "ConfigError")
    <2>1. PICK c : c = CloseTag(u, "ConfigError")
      OBVIOUS
    <2>2. UiSound(c) /\ Calm(u, c) /\ ~TagOpen(c, "ConfigError") /\ OpenIds(c) \subseteq OpenIds(u)
      BY <2>1, CloseTagLemma DEF Tag
    <2>3. PICK id \in WidgetIds \ OpenIds(c) : v = Open(c, id, "toast", "builtin", "ConfigError")
      BY <1>12, <2>1, <2>2
    <2>4. UiSound(v) /\ Calm(c, v)
      BY <2>2, <2>3, OpenLemma DEF Tag, Kind
    <2> QED
      BY <2>2, <2>4 DEF Calm
  <1> QED
    BY <1>3, <1>4, <1>5, <1>6, <1>7, <1>8, <1>9, <1>10, <1>11, <1>12 DEF LuaRuns

LEMMA UiWidgetEventsLemma ==
    ASSUME NEW u, UiSound(u), NEW id, NEW v \in UiWidgetEvents(u, id)
    PROVE  UiSound(v) /\ Calm(u, v)
  <1>1. CASE id \notin OpenIds(u)
    BY <1>1 DEF UiWidgetEvents, Calm
  <1>2. CASE id \in OpenIds(u)
    <2>1. PICK w : w = CHOOSE x \in Widgets(u) : x.id = id
      OBVIOUS
    <2>2. PICK c : c = Lacking(u, WithId(u, id))
      OBVIOUS
    <2>3. v \in IF w.handler = "Lua" THEN LuaRuns([c EXCEPT !.callbacks = c.callbacks \ {id}]) ELSE {c}
      BY <1>2, <2>1, <2>2 DEF UiWidgetEvents
    <2>4. w \in Widgets(u) /\ w.id = id
      BY <1>2, <2>1 DEF OpenIds
    <2>5. Listed(u) /\ u.callbacks = Owed(u) /\ u.callbacks \in SUBSET WidgetIds
      BY DEF UiSound, Listed, Ui
    <2>6. /\ Listed(c) /\ Widgets(c) = Widgets(u) \ WithId(u, id) /\ Calm(u, c)
          /\ c.callbacks = u.callbacks
      BY <2>2, <2>5, LackingLemma
    <2>7. CASE w.handler = "Lua"
      <3>1. PICK d : d = [c EXCEPT !.callbacks = c.callbacks \ {id}]
        OBVIOUS
      <3>2. c.callbacks \ {id} \in SUBSET WidgetIds
        BY <2>5, <2>6
      <3>3. Listed(d) /\ Widgets(d) = Widgets(c) /\ d.callbacks = u.callbacks \ {id} /\ Calm(c, d)
        BY <2>6, <3>1, <3>2, CallbacksSet
      <3>4. WithId(u, id) = {x \in Widgets(u) : x.id \in {id}}
        BY DEF WithId
      <3>5. UiSound(d)
        BY <2>6, <3>3, <3>4, ClosedLemma
      <3>6. UiSound(v) /\ Calm(d, v)
        BY <2>3, <2>7, <3>1, <3>5, LuaRunsLemma
      <3> QED
        BY <2>6, <3>3, <3>6 DEF Calm
    <2>8. CASE w.handler # "Lua"
      <3>1. v = c
        BY <2>3, <2>8
      <3>2. \A x \in Widgets(u) : x.id = id => x = w
        BY <2>4, <2>5, ListedLemma
      <3>3. \A x \in WithId(u, id) : x.handler # "Lua"
        BY <2>8, <3>2 DEF WithId
      <3>4. Owed(c) = Owed(u)
        BY <2>6, <3>3 DEF Owed
      <3> QED
        BY <2>5, <2>6, <3>1, <3>4 DEF UiSound
    <2> QED
      BY <2>7, <2>8
  <1> QED
    BY <1>1, <1>2

-----------------------------------------------------------------------------
(* The buttons.                                                            *)

\* A click that met nothing is with the seat or consumed while the button is down.
Clean(b, down, eaten, pressed, stray) ==
    /\ b \notin stray
    /\ b \in down <=> b \in eaten \cup pressed
    /\ ~(b \in eaten /\ b \in pressed)

ButtonsTyped ==
    /\ held \subseteq Buttons /\ consumed \subseteq Buttons /\ seat \subseteq Buttons
    /\ orphans \subseteq Buttons /\ spoiled \subseteq Buttons

InputInd ==
    /\ UiSound(ui) /\ ButtonsTyped /\ DragIsHeld
    /\ \A b \in Buttons \ spoiled : Clean(b, held, consumed, seat, orphans)

\* What no step spoils was clean before it.
LEMMA SpoilLemma ==
    ASSUME InputInd, NEW more \in SUBSET Buttons, Spoil(more),
           held' \subseteq Buttons, consumed' \subseteq Buttons, seat' \subseteq Buttons,
           orphans' \subseteq Buttons
    PROVE  /\ ButtonsTyped'
           /\ \A b \in Buttons \ spoiled' :
                 \/ b \notin held' \cup consumed' \cup seat' \cup orphans'
                 \/ b \notin more /\ Clean(b, held, consumed, seat, orphans)
  BY DEF InputInd, ButtonsTyped, Spoil

LEMMA UiStepLemma ==
    ASSUME InputInd, NEW u, UiSound(u), Calm(ui, u), UiStep(u)
    PROVE  InputInd'
  <1>1. ui' = u /\ UNCHANGED <<held, consumed, seat, orphans>> /\ Spoil({})
    BY DEF UiStep
  <1>2. ButtonsTyped /\ DragIsHeld
    BY DEF InputInd
  <1>3. UiSound(ui')
    BY <1>1
  <1>4. DragIsHeld'
    BY <1>1, <1>2 DEF DragIsHeld, Calm
  <1>5. /\ ButtonsTyped'
        /\ \A b \in Buttons \ spoiled' :
              \/ b \notin held' \cup consumed' \cup seat' \cup orphans'
              \/ Clean(b, held, consumed, seat, orphans)
    BY <1>1, <1>2, SpoilLemma DEF ButtonsTyped
  <1>6. \A b \in Buttons \ spoiled' : Clean(b, held', consumed', seat', orphans')
    BY <1>1, <1>5 DEF Clean
  <1> QED
    BY <1>3, <1>4, <1>5, <1>6 DEF InputInd, UiSound, Listed, Owed, Apart, Ui, Clean

LEMMA LuaStep ==
    ASSUME InputInd, NEW u, UiSound(u), Calm(ui, u), NEW v \in LuaRuns(u), UiStep(v)
    PROVE  InputInd'
  <1>1. UiSound(v) /\ Calm(u, v)
    BY LuaRunsLemma
  <1> QED
    BY <1>1, UiStepLemma DEF Calm

LEMMA KeyPressStep ==
    ASSUME InputInd, NEW key \in Key, KeyPress(key)
    PROVE  InputInd'
  <1>1. PICK sheets : sheets = SheetIds(ui)
    OBVIOUS
  <1>2. PICK lua : lua = LuaRuns(ui)
    OBVIOUS
  <1>3. UiSound(ui)
    BY DEF InputInd
  <1>4. \A a \in lua : UiSound(a) /\ Calm(ui, a)
    BY <1>2, <1>3, LuaRunsLemma
  <1>5. PICK close : close = [ui EXCEPT !.overlay = "closed"]
    OBVIOUS
  <1>6. ASSUME NEW a, UiSound(a)
        PROVE  UiSound([a EXCEPT !.overlay = "closed"]) /\ Calm(ui, [a EXCEPT !.overlay = "closed"])
    <2>1. PICK c : c = [a EXCEPT !.overlay = "closed"]
      OBVIOUS
    <2>2. a \in Ui
      BY <1>6 DEF UiSound, Listed
    <2>3. c \in Ui /\ c.widgets = a.widgets /\ c.callbacks = a.callbacks /\ c.overlay = "closed"
      BY <2>1, <2>2 DEF Ui
    <2>4. UiSound(c)
      BY <1>6, <2>3, FieldsLemma
    <2> QED
      BY <2>1, <2>3, <2>4 DEF Calm
  <1>7. PICK u \in
              IF ui.locked THEN {ui}
              ELSE IF ui.overlay # "closed"
              THEN IF key = "escape" THEN LuaRuns(close)
                   ELSE IF key = "enter" THEN {[a EXCEPT !.overlay = "closed"] : a \in lua}
                   ELSE lua
              ELSE IF HasModal(ui)
              THEN IF ModalEvent(TopModal(ui), key)
                   THEN UNION {UiWidgetEvents(a, TopModal(ui).id) : a \in lua}
                   ELSE lua
              ELSE IF key = "bind" THEN UNION {LuaRuns(a) : a \in lua}
              ELSE lua : UiStep(DismissSheets(u, sheets))
    BY <1>1, <1>2, <1>5 DEF KeyPress
  <1>8. UiSound(u) /\ Calm(ui, u)
    <2>1. CASE u = ui
      BY <1>3, <2>1 DEF Calm
    <2>2. CASE u \in lua
      BY <1>4, <2>2
    <2>3. CASE u \in LuaRuns(close)
      <3>1. UiSound(close) /\ Calm(ui, close)
        BY <1>3, <1>5, <1>6
      <3>2. UiSound(u) /\ Calm(close, u)
        BY <2>3, <3>1, LuaRunsLemma
      <3> QED
        BY <3>1, <3>2 DEF Calm
    <2>4. CASE \E a \in lua : u = [a EXCEPT !.overlay = "closed"]
      BY <1>4, <1>6, <2>4
    <2>5. CASE \E a \in lua : u \in UiWidgetEvents(a, TopModal(ui).id)
      <3>1. PICK a \in lua : u \in UiWidgetEvents(a, TopModal(ui).id)
        BY <2>5
      <3>2. UiSound(a) /\ Calm(ui, a)
        BY <1>4
      <3>3. UiSound(u) /\ Calm(a, u)
        BY <3>1, <3>2, UiWidgetEventsLemma
      <3> QED
        BY <3>2, <3>3 DEF Calm
    <2>6. CASE \E a \in lua : u \in LuaRuns(a)
      <3>1. PICK a \in lua : u \in LuaRuns(a)
        BY <2>6
      <3>2. UiSound(a) /\ Calm(ui, a)
        BY <1>4
      <3>3. UiSound(u) /\ Calm(a, u)
        BY <3>1, <3>2, LuaRunsLemma
      <3> QED
        BY <3>2, <3>3 DEF Calm
    <2> QED
      BY <1>7, <2>1, <2>2, <2>3, <2>4, <2>5, <2>6
  <1>9. UiSound(DismissSheets(u, sheets)) /\ Calm(u, DismissSheets(u, sheets))
    BY <1>8, DismissLemma
  <1>10. PICK v : v = DismissSheets(u, sheets)
    OBVIOUS
  <1> QED
    BY <1>7, <1>8, <1>9, <1>10, UiStepLemma DEF Calm

\* A button the step is not about.
Others(b) == \A c \in Buttons \ {b} :
    /\ c \in held' <=> c \in held
    /\ c \in consumed' <=> c \in consumed
    /\ c \in seat' <=> c \in seat
    /\ c \in orphans' <=> c \in orphans

\* A press or a release: what it makes of the widgets, and of its own button.
LEMMA ButtonLemma ==
    ASSUME InputInd, NEW b \in Buttons, NEW more \in SUBSET Buttons, Spoil(more), Others(b),
           held' \subseteq Buttons, consumed' \subseteq Buttons, seat' \subseteq Buttons,
           orphans' \subseteq Buttons, UiSound(ui'), ui'.overlay = "dragging" => Left \in held',
           b \in more \/ (Clean(b, held, consumed, seat, orphans)
                             => Clean(b, held', consumed', seat', orphans'))
    PROVE  InputInd'
  <1>1. /\ ButtonsTyped'
        /\ \A c \in Buttons \ spoiled' :
              \/ c \notin held' \cup consumed' \cup seat' \cup orphans'
              \/ c \notin more /\ Clean(c, held, consumed, seat, orphans)
    BY SpoilLemma
  <1>2. ASSUME NEW c \in Buttons \ spoiled'
        PROVE  Clean(c, held', consumed', seat', orphans')
    <2>1. CASE c \notin held' \cup consumed' \cup seat' \cup orphans'
      BY <2>1 DEF Clean
    <2>2. CASE c = b /\ c \notin more /\ Clean(c, held, consumed, seat, orphans)
      BY <2>2
    <2>3. CASE c # b /\ Clean(c, held, consumed, seat, orphans)
      BY <2>3 DEF Others, Clean
    <2> QED
      BY <1>1, <2>1, <2>2, <2>3
  <1> QED
    BY <1>1, <1>2 DEF InputInd, DragIsHeld

LEMMA ForwardLemma ==
    ASSUME InputInd, NEW b \in Buttons, Forward(b)
    PROVE  /\ seat' \subseteq Buttons /\ orphans' \subseteq Buttons
           /\ b \in held' \/ b \in seat => b \notin orphans'
           /\ b \in held' <=> b \in seat'
           /\ \A c \in Buttons \ {b} : (c \in seat' <=> c \in seat) /\ (c \in orphans' <=> c \in orphans)
  BY DEF Forward, InputInd, ButtonsTyped

LEMMA PressStep ==
    ASSUME InputInd, NEW b \in Buttons, NEW spot \in Spot, Press(b, spot)
    PROVE  InputInd'
  <1>1. PICK u : u = DismissSheets(ui, SheetIds(ui))
    OBVIOUS
  <1>2. UiSound(ui) /\ DragIsHeld /\ ButtonsTyped
    BY DEF InputInd
  <1>3. UiSound(u) /\ Calm(ui, u)
    BY <1>1, <1>2, DismissLemma
  <1>4. /\ b \notin held /\ held' = held \cup {b}
        /\ Spoil(IF Obstructed(u) \/ u.grab THEN {b} ELSE {})
        /\ \/ u.overlay # "closed" /\ PressOnOverlay(u, b)
           \/ HasModal(u) /\ PressOnModal(u, b, spot)
           \/ ~Obstructed(u) /\ PressOnShell(u, b)
           \/ u.grab /\ PressInGrab(u)
           \/ ~Obstructed(u) /\ PressThrough(u, b)
    BY <1>1 DEF Press, Obstructed
  <1>5. held' \subseteq Buttons /\ \A c \in Buttons \ {b} : c \in held' <=> c \in held
    BY <1>2, <1>4 DEF ButtonsTyped
  <1>6. ASSUME NEW v, UiSound(v), Calm(u, v)
        PROVE  v.overlay = "dragging" => Left \in held'
    BY <1>2, <1>3, <1>4, <1>6 DEF DragIsHeld, Calm
  <1>7. /\ UiSound(ui') /\ (ui'.overlay = "dragging" => Left \in held')
        /\ Others(b) /\ consumed' \subseteq Buttons /\ seat' \subseteq Buttons /\ orphans' \subseteq Buttons
        /\ \/ Obstructed(u) \/ u.grab
           \/ Clean(b, held, consumed, seat, orphans) => Clean(b, held', consumed', seat', orphans')
    <2>1. CASE u.overlay # "closed" /\ PressOnOverlay(u, b)
      <3>1. /\ ui' = u \/ (b = Left /\ ui' = [u EXCEPT !.overlay = "dragging"])
            /\ UNCHANGED <<consumed, seat, orphans>>
        BY <2>1 DEF PressOnOverlay, Hide
      <3>2. Others(b)
        BY <1>5, <3>1 DEF Others
      <3>3. UiSound(ui') /\ (ui'.overlay = "dragging" => Left \in held')
        <4>1. CASE ui' = u
          BY <1>3, <1>6, <4>1 DEF Calm
        <4>2. CASE b = Left /\ ui' = [u EXCEPT !.overlay = "dragging"]
          <5>1. u \in Ui
            BY <1>3 DEF UiSound, Listed
          <5>2. ui' \in Ui /\ ui'.widgets = u.widgets /\ ui'.callbacks = u.callbacks
            BY <4>2, <5>1 DEF Ui
          <5>3. UiSound(ui')
            BY <1>3, <5>2, FieldsLemma
          <5> QED
            BY <1>4, <4>2, <5>3
        <4> QED
          BY <3>1, <4>1, <4>2
      <3> QED
        BY <1>2, <2>1, <3>1, <3>2, <3>3 DEF ButtonsTyped, Obstructed
    <2>2. CASE HasModal(u) /\ PressOnModal(u, b, spot)
      <3>1. ui' = u \/ ui' \in UiWidgetEvents(u, TopModal(u).id)
        BY <2>2 DEF PressOnModal
      <3>2. UiSound(ui') /\ Calm(u, ui')
        BY <1>3, <3>1, UiWidgetEventsLemma DEF Calm
      <3>3. consumed' = consumed \cup {b} /\ UNCHANGED <<seat, orphans>>
        BY <2>2 DEF PressOnModal, Hide
      <3>4. Others(b)
        BY <1>5, <3>3 DEF Others
      <3> QED
        BY <1>2, <1>6, <2>2, <3>2, <3>3, <3>4 DEF ButtonsTyped, Obstructed
    <2>3. CASE ~Obstructed(u) /\ PressOnShell(u, b)
      <3>1. ui' = u \/ ui' \in LuaRuns(u)
        BY <2>3 DEF PressOnShell
      <3>2. UiSound(ui') /\ Calm(u, ui')
        BY <1>3, <3>1, LuaRunsLemma DEF Calm
      <3>3. consumed' = consumed \cup {b} /\ UNCHANGED <<seat, orphans>>
        BY <2>3 DEF PressOnShell, Hide
      <3>4. Others(b)
        BY <1>5, <3>3 DEF Others
      <3>5. Clean(b, held, consumed, seat, orphans) => Clean(b, held', consumed', seat', orphans')
        BY <1>4, <3>3 DEF Clean
      <3> QED
        BY <1>2, <1>6, <3>2, <3>3, <3>4, <3>5 DEF ButtonsTyped
    <2>4. CASE u.grab /\ PressInGrab(u)
      <3>1. ui' = u /\ UNCHANGED <<consumed, seat, orphans>>
        BY <2>4 DEF PressInGrab, Hide
      <3>2. Others(b)
        BY <1>5, <3>1 DEF Others
      <3> QED
        BY <1>2, <1>3, <1>6, <2>4, <3>1, <3>2 DEF ButtonsTyped, Calm
    <2>5. CASE ~Obstructed(u) /\ PressThrough(u, b)
      <3>1. UiSound(ui') /\ Calm(u, ui')
        <4>1. \/ ui' = u \/ ui' \in LuaRuns(u) \/ \E v \in LuaRuns(u) : ui' \in LuaRuns(v)
          BY <2>5 DEF PressThrough
        <4>2. CASE ui' = u
          BY <1>3, <4>2 DEF Calm
        <4>3. CASE ui' \in LuaRuns(u)
          BY <1>3, <4>3, LuaRunsLemma
        <4>4. CASE \E v \in LuaRuns(u) : ui' \in LuaRuns(v)
          <5>1. PICK v \in LuaRuns(u) : ui' \in LuaRuns(v)
            BY <4>4
          <5>2. UiSound(v) /\ Calm(u, v)
            BY <1>3, LuaRunsLemma
          <5>3. UiSound(ui') /\ Calm(v, ui')
            BY <5>1, <5>2, LuaRunsLemma
          <5> QED
            BY <5>2, <5>3 DEF Calm
        <4> QED
          BY <4>1, <4>2, <4>3, <4>4
      <3>2. CASE consumed' = consumed \cup {b} /\ Hide
        <4>1. UNCHANGED <<seat, orphans>>
          BY <3>2 DEF Hide
        <4>2. Others(b)
          BY <1>5, <3>2, <4>1 DEF Others
        <4>3. Clean(b, held, consumed, seat, orphans) => Clean(b, held', consumed', seat', orphans')
          BY <1>4, <3>2, <4>1 DEF Clean
        <4> QED
          BY <1>2, <1>6, <3>1, <3>2, <4>1, <4>2, <4>3 DEF ButtonsTyped
      <3>3. CASE UNCHANGED consumed /\ Forward(b)
        <4>1. /\ seat' \subseteq Buttons /\ orphans' \subseteq Buttons
              /\ b \in held' \/ b \in seat => b \notin orphans'
              /\ b \in held' <=> b \in seat'
              /\ \A c \in Buttons \ {b} : (c \in seat' <=> c \in seat) /\ (c \in orphans' <=> c \in orphans)
          BY <3>3, ForwardLemma
        <4>2. Others(b)
          BY <1>5, <3>3, <4>1 DEF Others
        <4>3. Clean(b, held, consumed, seat, orphans) => Clean(b, held', consumed', seat', orphans')
          BY <1>4, <3>3, <4>1 DEF Clean
        <4> QED
          BY <1>2, <1>6, <3>1, <3>3, <4>1, <4>2, <4>3 DEF ButtonsTyped
      <3> QED
        BY <2>5, <3>2, <3>3 DEF PressThrough
    <2> QED
      BY <1>4, <2>1, <2>2, <2>3, <2>4, <2>5
  <1>8. PICK more \in SUBSET Buttons : Spoil(more) /\ (Obstructed(u) \/ u.grab => b \in more)
    BY <1>4
  <1> QED
    BY <1>5, <1>7, <1>8, ButtonLemma

LEMMA ReleaseStep ==
    ASSUME InputInd, NEW b \in Buttons, Release(b)
    PROVE  InputInd'
  <1>1. UiSound(ui) /\ DragIsHeld /\ ButtonsTyped
    BY DEF InputInd
  <1>2. PICK more : more = IF Obstructed(ui) \/ (seat' = seat /\ b \in seat) THEN {b} ELSE {}
    OBVIOUS
  <1>3. /\ b \in held /\ held' = held \ {b} /\ Spoil(more) /\ more \in SUBSET Buttons
        /\ \/ Obstructed(ui) /\ ReleaseOnOverlay(b)
           \/ ui.overlay = "closed" /\ Obstructed(ui) /\ ReleaseOnModal
           \/ ui.overlay = "closed" /\ ReleaseInGrab(b)
           \/ ui.overlay = "closed" /\ b \in consumed /\ ReleaseConsumed(b)
           \/ ui.overlay = "closed" /\ b \notin consumed /\ ReleaseThrough(b)
    BY <1>2 DEF Release, Obstructed
  <1>4. held' \subseteq Buttons /\ \A c \in Buttons \ {b} : c \in held' <=> c \in held
    BY <1>1, <1>3 DEF ButtonsTyped
  <1>5. ui \in Ui
    BY <1>1 DEF UiSound, Listed
  <1>6. CASE Obstructed(ui) /\ ReleaseOnOverlay(b)
    <2>1. /\ ui' = IF b = Left THEN [ui EXCEPT !.overlay = "open"] ELSE ui
          /\ UNCHANGED <<consumed, seat, orphans>>
      BY <1>6 DEF ReleaseOnOverlay, Hide
    <2>2. UiSound(ui') /\ (ui'.overlay = "dragging" => Left \in held')
      <3>1. CASE b = Left
        <4>1. ui' \in Ui /\ ui'.widgets = ui.widgets /\ ui'.callbacks = ui.callbacks /\ ui'.overlay = "open"
          BY <1>5, <2>1, <3>1 DEF Ui
        <4>2. UiSound(ui')
          BY <1>1, <4>1, FieldsLemma
        <4> QED
          BY <4>1, <4>2
      <3>2. CASE b # Left
        BY <1>1, <1>3, <2>1, <3>2 DEF DragIsHeld
      <3> QED
        BY <3>1, <3>2
    <2>3. Others(b)
      BY <1>4, <2>1 DEF Others
    <2>4. b \in more /\ consumed' \subseteq Buttons /\ seat' \subseteq Buttons /\ orphans' \subseteq Buttons
      BY <1>1, <1>2, <1>6, <2>1 DEF ButtonsTyped
    <2> QED
      BY <1>3, <1>4, <2>2, <2>3, <2>4, ButtonLemma
  <1>7. CASE ui.overlay = "closed" /\ Obstructed(ui) /\ ReleaseOnModal
    <2>1. UNCHANGED <<ui, consumed, seat, orphans>>
      BY <1>7 DEF ReleaseOnModal, Hide
    <2>2. UiSound(ui') /\ (ui'.overlay = "dragging" => Left \in held')
      BY <1>1, <1>7, <2>1
    <2>3. Others(b)
      BY <1>4, <2>1 DEF Others
    <2>4. b \in more /\ consumed' \subseteq Buttons /\ seat' \subseteq Buttons /\ orphans' \subseteq Buttons
      BY <1>1, <1>2, <1>7, <2>1 DEF ButtonsTyped
    <2> QED
      BY <1>3, <1>4, <2>2, <2>3, <2>4, ButtonLemma
  <1>8. ASSUME ui.overlay = "closed", NEW v, UiSound(v), Calm(ui, v), ui' = v \/ ui' \in LuaRuns(v)
        PROVE  UiSound(ui') /\ (ui'.overlay = "dragging" => Left \in held')
    BY <1>8, LuaRunsLemma DEF Calm
  <1>9. ASSUME UiSound(ui'), ui'.overlay = "dragging" => Left \in held',
               consumed' \subseteq Buttons, \A c \in Buttons \ {b} : c \in consumed' <=> c \in consumed,
               b \notin consumed', Forward(b), b \notin consumed
        PROVE  InputInd'
    <2>1. /\ seat' \subseteq Buttons /\ orphans' \subseteq Buttons
          /\ b \in held' \/ b \in seat => b \notin orphans'
          /\ b \in held' <=> b \in seat'
          /\ \A c \in Buttons \ {b} : (c \in seat' <=> c \in seat) /\ (c \in orphans' <=> c \in orphans)
      BY <1>9, ForwardLemma
    <2>2. Others(b)
      BY <1>4, <1>9, <2>1 DEF Others
    <2>3. Clean(b, held, consumed, seat, orphans) => Clean(b, held', consumed', seat', orphans')
      BY <1>3, <1>9, <2>1 DEF Clean
    <2> QED
      BY <1>3, <1>4, <1>9, <2>1, <2>2, <2>3, ButtonLemma
  <1>10. ASSUME UiSound(ui'), ui'.overlay = "dragging" => Left \in held',
                consumed' \subseteq Buttons, \A c \in Buttons \ {b} : c \in consumed' <=> c \in consumed,
                b \notin consumed', Hide
         PROVE  InputInd'
    <2>1. UNCHANGED <<seat, orphans>>
      BY <1>10 DEF Hide
    <2>2. Others(b)
      BY <1>4, <1>10, <2>1 DEF Others
    <2>3. b \in more \/ b \notin seat
      BY <1>2, <2>1
    <2>4. b \in more \/ (Clean(b, held, consumed, seat, orphans) => Clean(b, held', consumed', seat', orphans'))
      BY <1>3, <1>10, <2>1, <2>3 DEF Clean
    <2>5. seat' \subseteq Buttons /\ orphans' \subseteq Buttons
      BY <1>1, <2>1 DEF ButtonsTyped
    <2> QED
      BY <1>3, <1>4, <1>10, <2>2, <2>4, <2>5, ButtonLemma
  <1>11. CASE ui.overlay = "closed" /\ ReleaseInGrab(b)
    <2>1. PICK v : v = [ui EXCEPT !.grab = FALSE]
      OBVIOUS
    <2>2. v \in Ui /\ v.widgets = ui.widgets /\ v.callbacks = ui.callbacks /\ v.overlay = ui.overlay
      BY <1>5, <2>1 DEF Ui
    <2>3. UiSound(v) /\ Calm(ui, v)
      BY <1>1, <2>2, FieldsLemma DEF Calm
    <2>4. /\ ui' \in LuaRuns(v) /\ consumed' = consumed \ {b}
          /\ IF b \in consumed THEN Hide ELSE Forward(b)
      BY <1>11, <2>1 DEF ReleaseInGrab
    <2>5. UiSound(ui') /\ (ui'.overlay = "dragging" => Left \in held')
      BY <1>8, <1>11, <2>3, <2>4
    <2>6. /\ consumed' \subseteq Buttons /\ \A c \in Buttons \ {b} : c \in consumed' <=> c \in consumed
          /\ b \notin consumed'
      BY <1>1, <2>4 DEF ButtonsTyped
    <2> QED
      BY <1>9, <1>10, <2>4, <2>5, <2>6
  <1>12. CASE ui.overlay = "closed" /\ b \in consumed /\ ReleaseConsumed(b)
    <2>1. consumed' = consumed \ {b} /\ UNCHANGED ui /\ Hide
      BY <1>12 DEF ReleaseConsumed
    <2>2. UiSound(ui') /\ (ui'.overlay = "dragging" => Left \in held')
      BY <1>1, <1>12, <2>1
    <2>3. /\ consumed' \subseteq Buttons /\ \A c \in Buttons \ {b} : c \in consumed' <=> c \in consumed
          /\ b \notin consumed'
      BY <1>1, <2>1 DEF ButtonsTyped
    <2> QED
      BY <1>10, <2>1, <2>2, <2>3
  <1>13. CASE ui.overlay = "closed" /\ b \notin consumed /\ ReleaseThrough(b)
    <2>1. UNCHANGED consumed /\ (ui' = ui \/ ui' \in LuaRuns(ui)) /\ (Forward(b) \/ Hide)
      BY <1>13 DEF ReleaseThrough
    <2>2. UiSound(ui') /\ (ui'.overlay = "dragging" => Left \in held')
      BY <1>1, <1>8, <1>13, <2>1 DEF Calm
    <2>3. /\ consumed' \subseteq Buttons /\ \A c \in Buttons \ {b} : c \in consumed' <=> c \in consumed
          /\ b \notin consumed'
      BY <1>1, <1>13, <2>1 DEF ButtonsTyped
    <2> QED
      BY <1>9, <1>10, <1>13, <2>1, <2>2, <2>3
  <1> QED
    BY <1>3, <1>6, <1>7, <1>11, <1>12, <1>13

LEMMA LockStep ==
    ASSUME InputInd, Lock
    PROVE  InputInd'
  <1>1. PICK u : u = [ui EXCEPT !.overlay = "closed", !.widgets = <<>>,
                                !.callbacks = ui.callbacks \ OpenIds(ui)]
    OBVIOUS
  <1>2. PICK v \in IF ui.grab THEN LuaRuns([u EXCEPT !.grab = FALSE]) ELSE {u} :
               UiStep([v EXCEPT !.locked = TRUE])
    BY <1>1 DEF Lock
  <1>3. UiSound(ui) /\ Listed(ui) /\ ui \in Ui /\ ui.callbacks = Owed(ui)
    BY DEF InputInd, UiSound, Listed
  <1>4. ui.callbacks \ OpenIds(ui) = {}
    BY <1>3, ListedLemma
  <1>5. /\ u \in Ui /\ u.widgets = <<>> /\ u.callbacks = {} /\ u.overlay = "closed"
    <2>1. u = [ui EXCEPT !.overlay = "closed", !.widgets = <<>>, !.callbacks = {}]
      BY <1>1, <1>4
    <2>2. <<>> \in Seq(Widget) /\ {} \in SUBSET WidgetIds
      OBVIOUS
    <2> QED
      BY <1>3, <2>1, <2>2 DEF Ui
  <1>6. UiSound(u)
    <2>1. Apart(u.widgets)
      BY <1>5 DEF Apart
    <2>2. Widgets(u) = {}
      BY <1>5 DEF Widgets, ToSet
    <2>3. Owed(u) = {}
      BY <2>2 DEF Owed
    <2> QED
      BY <1>5, <2>1, <2>3 DEF UiSound, Listed
  <1>7. UiSound(v) /\ Calm(u, v)
    <2>1. CASE v = u
      BY <1>6, <2>1 DEF Calm
    <2>2. CASE v \in LuaRuns([u EXCEPT !.grab = FALSE])
      <3>1. PICK w : w = [u EXCEPT !.grab = FALSE]
        OBVIOUS
      <3>2. w \in Ui /\ w.widgets = u.widgets /\ w.callbacks = u.callbacks /\ Calm(u, w)
        BY <1>5, <3>1 DEF Ui, Calm
      <3>3. UiSound(w)
        BY <1>6, <3>2, FieldsLemma
      <3>4. UiSound(v) /\ Calm(w, v)
        BY <2>2, <3>1, <3>3, LuaRunsLemma
      <3> QED
        BY <3>2, <3>4 DEF Calm
    <2> QED
      BY <1>2, <2>1, <2>2
  <1>8. PICK w : w = [v EXCEPT !.locked = TRUE]
    OBVIOUS
  <1>9. v \in Ui
    BY <1>7 DEF UiSound, Listed
  <1>10. w \in Ui /\ w.widgets = v.widgets /\ w.callbacks = v.callbacks /\ w.overlay = v.overlay
    BY <1>8, <1>9 DEF Ui
  <1>11. UiSound(w) /\ Calm(ui, w)
    BY <1>5, <1>7, <1>10, FieldsLemma DEF Calm
  <1> QED
    BY <1>2, <1>8, <1>11, UiStepLemma

LEMMA UnlockStep ==
    ASSUME InputInd, Unlock
    PROVE  InputInd'
  <1>1. PICK u : u = [ui EXCEPT !.locked = FALSE]
    OBVIOUS
  <1>2. UiSound(ui) /\ ui \in Ui
    BY DEF InputInd, UiSound, Listed
  <1>3. u \in Ui /\ u.widgets = ui.widgets /\ u.callbacks = ui.callbacks /\ Calm(ui, u)
    BY <1>1, <1>2 DEF Ui, Calm
  <1>4. UiSound(u)
    BY <1>2, <1>3, FieldsLemma
  <1>5. PICK v \in LuaRuns(u) : UiStep(v)
    BY <1>1 DEF Unlock
  <1> QED
    BY <1>3, <1>4, <1>5, LuaStep

LEMMA InputNextStep ==
    ASSUME InputInd, [InputNext]_inputVars
    PROVE  InputInd'
  <1>1. UiSound(ui) /\ Calm(ui, ui)
    BY DEF InputInd, Calm
  <1>2. CASE LuaEnters
    BY <1>1, <1>2, LuaStep DEF LuaEnters
  <1>3. CASE ToastExpires
    <2>1. PICK id : UiStep(CloseWidget(ui, id))
      BY <1>3 DEF ToastExpires
    <2>2. PICK v : v = CloseWidget(ui, id)
      OBVIOUS
    <2>3. UiSound(v) /\ Calm(ui, v)
      BY <1>1, <2>2, CloseWidgetLemma
    <2> QED
      BY <2>1, <2>2, <2>3, UiStepLemma
  <1>4. CASE Motion
    BY <1>1, <1>4, LuaStep DEF Motion
  <1>5. CASE Lock
    BY <1>5, LockStep
  <1>6. CASE Unlock
    BY <1>6, UnlockStep
  <1>7. CASE \E key \in Key : KeyPress(key)
    BY <1>7, KeyPressStep
  <1>8. CASE \E b \in Buttons : Release(b)
    BY <1>8, ReleaseStep
  <1>9. CASE \E b \in Buttons, spot \in Spot : Press(b, spot)
    BY <1>9, PressStep
  <1>10. CASE UNCHANGED inputVars
    BY <1>10 DEF inputVars, buttonVars, InputInd, ButtonsTyped, DragIsHeld
  <1> QED
    BY <1>2, <1>3, <1>4, <1>5, <1>6, <1>7, <1>8, <1>9, <1>10 DEF InputNext

\* What handles the keys and the buttons keeps InputInd, whatever Lua does in it.
THEOREM InputInvariant == InputSpec => []InputInd
  <1>1. InputInit => InputInd
    <2> SUFFICES ASSUME InputInit
                 PROVE  InputInd
      OBVIOUS
    <2>1. /\ ui = [widgets |-> <<>>, callbacks |-> {}, overlay |-> "closed",
                   grab |-> FALSE, locked |-> FALSE]
          /\ held = {} /\ consumed = {} /\ seat = {} /\ orphans = {} /\ spoiled = {}
      BY DEF InputInit
    <2>2. ui \in Ui /\ ui.widgets = <<>> /\ ui.callbacks = {} /\ ui.overlay = "closed"
      BY <2>1 DEF Ui
    <2>3. Apart(ui.widgets)
      BY <2>2 DEF Apart
    <2>4. Widgets(ui) = {}
      BY <2>2 DEF Widgets, ToSet
    <2>5. UiSound(ui)
      BY <2>2, <2>3, <2>4 DEF UiSound, Listed, Owed
    <2> QED
      BY <2>1, <2>2, <2>5 DEF InputInd, ButtonsTyped, DragIsHeld, Clean
  <1>2. InputInd /\ [InputNext]_inputVars => InputInd'
    BY InputNextStep
  <1> QED
    BY <1>1, <1>2, PTL DEF InputSpec

\* Keys, clicks, reloads and the lock, in any order: no callback of Lua is left
\* without its widget or the other way round, no tag is open twice, and no drag of
\* the overlay goes on with its button up.
THEOREM WidgetsTheorem == InputSpec => []InputInv
  <1>1. InputInd => InputInv
    <2> SUFFICES ASSUME InputInd
                 PROVE  InputInv
      OBVIOUS
    <2>1. /\ ui \in Ui /\ Apart(ui.widgets) /\ ui.callbacks = Owed(ui) /\ ButtonsTyped /\ DragIsHeld
          /\ ui.widgets \in Seq(Widget)
      BY DEF InputInd, UiSound, Listed, Ui
    <2>2. DOMAIN ui.widgets = 1 .. Len(ui.widgets)
      BY <2>1
    <2>3. InputTypeOK
      BY <2>1, <2>2 DEF InputTypeOK, Apart, ButtonsTyped
    <2>4. CallbacksHaveWidgets
      BY <2>1 DEF CallbacksHaveWidgets, Owed
    <2> QED
      BY <2>1, <2>3, <2>4 DEF InputInv
  <1> QED
    BY <1>1, InputInvariant, PTL

\* A click that met no overlay, modal or grab, and whose release no hook ate,
\* reaches clients whole or not at all, for any number of buttons.
THEOREM ClicksTheorem == InputSpec => []WholeClicks
  <1>1. InputInd => WholeClicks
    BY DEF InputInd, WholeClicks, Clean
  <1> QED
    BY <1>1, InputInvariant, PTL
=============================================================================

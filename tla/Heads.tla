------------------------------- MODULE Heads -------------------------------
(***************************************************************************)
(* What the clients that look at or adjust the picture share: the outputs  *)
(* and windows there are, with the size of a buffer that fits, the session *)
(* lock, and whether the seat's session is on screen.                      *)
(*                                                                         *)
(* A head is one connection of an output: replugging makes another Output  *)
(* object, hence another head, maybe on the same CRTC.                     *)
(***************************************************************************)
EXTENDS Naturals, Sequences, FiniteSets

CONSTANTS Crtcs,
          Heads,     \* outputs over a behaviour, each connected once
          Windows,   \* windows that can be captured
          Sizes,     \* sizes of a buffer
          Legacy,    \* the CRTCs without a GAMMA_LUT property
          Scenes     \* who and what there is: see AnyScene

\* The clients, the targets and their CRTCs, the events beside requests.
AnyScene == [peers : SUBSET {"screencopy", "imagecopy", "gamma"},
             targets : SUBSET (Heads \cup Windows), crtc : [Heads -> Crtcs],
             events : SUBSET {"hotplug", "resize", "lock", "switch"}]

ASSUME HeadsAssumption ==
    /\ Scenes \subseteq AnyScene
    /\ Legacy \subseteq Crtcs
    /\ Heads \cap Windows = {}
    /\ {"new", "gone"} \cap Sizes = {}

VARIABLES size,      \* of each target; "new" before it appears, "gone" after
          locked,    \* Tomoe::is_locked
          awake,     \* the seat's session is active
          scene

heads == <<size, locked, awake, scene>>

Targets == Heads \cup Windows
Present(t) == size[t] \in Sizes
Crtc(h) == scene.crtc[h]

HeadsTypeOK ==
    /\ size \in [Targets -> Sizes \cup {"new", "gone"}]
    /\ locked \in BOOLEAN /\ awake \in BOOLEAN /\ scene \in Scenes
    /\ \A h, k \in Heads : Present(h) /\ Present(k) /\ Crtc(h) = Crtc(k) => h = k

HeadsInit ==
    /\ scene \in Scenes
    /\ \E s \in Sizes : size \in {z \in [Targets -> {s, "new", "gone"}] :
                                   \A t \in Targets : (z[t] = "gone") <=> t \notin scene.targets}
    /\ \A h, k \in Heads : Present(h) /\ Present(k) /\ Crtc(h) = Crtc(k) => h = k
    /\ locked = FALSE /\ awake = TRUE
============================================================================

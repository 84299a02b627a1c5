----------------------------- MODULE MCSession ------------------------------
(***************************************************************************)
(* Small instances of Session for TLC.  A run is made of scenes: a scene   *)
(* names the callers that take part, the reads, the sizes and the matchers *)
(* it needs, so that one run covers several small meetings of callers      *)
(* instead of the product of all of them.                                  *)
(***************************************************************************)
EXTENDS SessionProperties

CONSTANTS
  w1, t1, o1, s1, p1, p2, r1, c1, c2,   \* callers
  Scenes                                \* what the run is made of

VARIABLE scene

mcVars == <<vars, scene>>

(* One read that draws and one that does not, without terminal events. *)
Draws == [bytes |-> 2, visible |-> TRUE, events |-> <<>>]
Silent == [bytes |-> 1, visible |-> FALSE, events |-> <<>>]

(* The screen after one change, after two, and any screen (WaitForIdle). *)
SomeMatchers == {{1}, {2}, 0..9}

(* The two that WaitForStable tells apart. *)
FewMatchers == {{1}, 0..9}

(* Reads that carry terminal events, and more or less bytes than the       *)
(* recorder keeps; one of them only enquires.                              *)
Bell == [type |-> "bell", data |-> ""]
Enquiry == [type |-> "enquiry", data |-> "answerback"]
SilentEnquiry == [type |-> "enquiry", data |-> ""]
Ignored(name) == [type |-> "unsupported", data |-> name]

EventChunks ==
  {[bytes |-> 1, visible |-> FALSE, events |-> <<Enquiry, Bell>>],
   [bytes   |-> 2, visible |-> TRUE,
    events  |-> <<Ignored("a"), Ignored("b"), Ignored("c")>>],
   [bytes |-> 4, visible |-> FALSE, events |-> <<Ignored("b"), SilentEnquiry>>]}

Enquires == [bytes |-> 1, visible |-> FALSE, events |-> <<Enquiry>>]

AllChunks == {Draws, Silent, Enquires} \cup EventChunks

(* WaitFor against two reads, and against a read and a resize;             *)
(* WaitForStable against the host and a close.                             *)
WaitScenes ==
  {[cast |-> {w1}, chunks |-> {Draws}, sizes |-> {}, matchers |-> SomeMatchers, output |-> 2],
   [cast |-> {w1, r1}, chunks |-> {Draws}, sizes |-> {"small", "large"},
    matchers |-> SomeMatchers, output |-> 1],
   [cast |-> {t1, c1}, chunks |-> {Draws, Silent}, sizes |-> {},
    matchers |-> FewMatchers, output |-> 2]}

(* An observer against the host and a resize; two sends, the answerback    *)
(* and two closes; a subscriber and a close while events overflow the      *)
(* history, a channel and the list of unsupported sequences; a resize      *)
(* while reads and resizes overflow the recorder.                          *)
TrafficScenes ==
  {[cast |-> {o1, r1}, chunks |-> {Draws}, sizes |-> {"small", "large"},
    matchers |-> {}, output |-> 1],
   [cast |-> {p1, p2, c1, c2}, chunks |-> {Enquires}, sizes |-> {}, matchers |-> {},
    output |-> 1],
   [cast |-> {s1, c1}, chunks |-> EventChunks, sizes |-> {}, matchers |-> {}, output |-> 2],
   [cast |-> {r1, c1}, chunks |-> EventChunks, sizes |-> {"small", "large", "zero"},
    matchers |-> {}, output |-> 2]}

(* An observer and a host that falls silent. *)
SilenceScenes ==
  {[cast |-> {o1, c1}, chunks |-> {Draws, Silent}, sizes |-> {}, matchers |-> {}, output |-> 1]}

(* Who is not of the cast does nothing, and what happens is of the scene. *)
InScene ==
  /\ \A w \in Waiting :
       /\ w \notin scene.cast => wait'[w].pc = "idle"
       /\ wait'[w].matcher \in scene.matchers \cup {{}}
  /\ \A o \in Observers \ scene.cast : observe'[o].pc = "idle"
  /\ \A s \in Subscribers \ scene.cast : subscription'[s].pc = "idle"
  /\ \A p \in Senders \ scene.cast : send'[p].pc = "idle"
  /\ \A r \in Resizers :
       /\ r \notin scene.cast => resize'[r].pc = "idle"
       /\ resize'[r].pc \in {"idle", "failed"} \/ resize'[r].size \in scene.sizes
  /\ \A c \in Closers \ scene.cast : close'[c] = "idle"
  /\ \A t \in Cancellable \ scene.cast : ~ctxDone'[t]
  /\ reader'.chunk \in scene.chunks \cup {NoChunk}
  /\ session'.output <= scene.output

MCInit == Init /\ scene \in Scenes
MCNext == Next /\ InScene /\ UNCHANGED scene

MCSpec ==
  MCInit /\ [][MCNext]_mcVars /\ GoroutinesRun /\ CloseUnblocksRead /\ CloseUnblocksWrite
=============================================================================

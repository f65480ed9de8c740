-------------------------- MODULE MCClientSession --------------------------
(* Small instances of ClientSession, in one run: a client that its user      *)
(* closes, a client whose server shuts down, which may start a second loop,  *)
(* and a client whose daemon requests a tunnel. What is left out of a scene  *)
(* to keep it small is in another.                                           *)
EXTENDS ClientSession, TLC

CONSTANTS l1, l2

VARIABLE scene

\* A second loop is l2, beside l1 (without the shutdown timer there is none).
NoSecondLoop == conn'[l2] # idle => conn[l1] # idle
NoApi == \A x \in Apis : conn'[x] = idle
NoHang == \A s \in Sessions : link'[s] # "silent"
NoClose == closing' = "no" /\ busy' = None
\* The first connection succeeds.
Started ==
  conn[Main].at # "done" =>
    timer' = "none" /\ \A s \in Sessions : link[s] = "open" => link'[s] = "open"

InScene ==
  \/ scene = "close" /\ NoSecondLoop /\ NoApi /\ NoHang /\ timer' = "none"
  \/ scene = "shutdown" /\ NoApi /\ NoHang /\ NoClose /\ Started /\ dataUp' = {}
  \/ scene = "daemon" /\ NoSecondLoop /\ NoClose /\ timer' = "none"

SceneInit == Init /\ scene \in {"close", "shutdown", "daemon"}
SceneSpec ==
  /\ SceneInit
  /\ [][Next /\ InScene /\ UNCHANGED scene]_<<vars, scene>>
  /\ Fairness

LoopRecovers == scene # "shutdown" => Recovers
=============================================================================

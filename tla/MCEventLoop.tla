---------------------------- MODULE MCEventLoop ----------------------------
(* Instances of EventLoop for TLC.  The ids of bash requests are           *)
(* interchangeable, and so are those of the tool requests: the runs of     *)
(* safety properties use the symmetry, those of liveness properties let    *)
(* the client send its bash requests in one order only.  A client sends    *)
(* initialize before its other requests.                                   *)
EXTENDS EventLoop, TLC

CONSTANTS c1, c2, c3

IdSymmetry == Permutations(Cmds) \cup Permutations(Tools)

Ordered   == {<<c1, c2>>, <<c2, c3>>}
Unordered == {}
SyncsFirst == Syncs \X (Cmds \cup Tools)
=============================================================================

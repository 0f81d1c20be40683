------------------------------ MODULE MCSandbox ------------------------------
(* Hosts and configurations for two sandboxes.                             *)
EXTENDS Sandbox

CONSTANTS b1, b2

MCBoxes == {b1, b2}

Dsts(x, y) == [b \in MCBoxes |-> IF b = b1 THEN x ELSE y]
Host(f, d) == [file |-> f, dir |-> d]

Case(rpc, dst, protect, host0, dirs0, work0, overlay, fuse) ==
    [rpc |-> rpc, dst |-> dst, protect |-> protect, host |-> host0,
     dirs |-> dirs0, work |-> work0, overlay |-> overlay, fuse |-> fuse]

(* Home bound by both; shared and separate destinations, with and without  *)
(* a stale entry in .boxsh; kernels that refuse or that mount read-only.   *)
MCStarts ==
    {Case(rpc, Dsts("none", "none"), TRUE, Host(f, "none"), {}, {}, "works", FALSE) :
         rpc \in BOOLEAN, f \in {"none", "user"}}
    \cup {Case(TRUE, Dsts("d", "e"), FALSE, Host("none", "none"), {}, w, "works", FALSE) :
         w \in {{}, {"d"}, {"x"}}}
    \cup {Case(TRUE, Dsts("d", "d"), FALSE, Host("none", "none"), {"d"}, {"d"}, "works", TRUE)}
    \cup {Case(TRUE, Dsts("d", "none"), TRUE, Host("none", "user"), {"d"}, {"d"}, o, fuse) :
         o \in {"readonly", "refused"}, fuse \in BOOLEAN}
=============================================================================

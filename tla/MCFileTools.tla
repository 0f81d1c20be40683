----------------------------- MODULE MCFileTools -----------------------------
(* Small files and requests for TLC. *)
EXTENDS FileTools

CONSTANTS c1, c2

Chars == {"a", Blank, LF, CR}
Files(n) == UNION {[1..k -> Chars] : k \in 0..n}

One(old, new) == <<[old |-> old, new |-> new]>>
OldTexts == {<<"a">>, <<LF>>, <<Blank>>, <<"a", LF>>, <<"a", "a">>, <<LF, "a">>,
             <<"a", Blank>>, <<CR, LF>>, <<"a", LF, "a">>}
NewTexts == {<<>>, <<"b", LF>>, <<"b", "b">>}
Requests ==
    {[tool |-> "edit", ops |-> One(o, n)] : o \in OldTexts, n \in NewTexts}
    \cup {[tool |-> "edit", ops |-> ops] : ops \in {
            <<>>, One(<<>>, <<"b">>),
            One(<<"a">>, <<"b", "b">>) \o One(<<LF>>, <<>>),
            One(<<LF>>, <<"b">>) \o One(<<"a">>, <<>>),
            One(<<"a", LF>>, <<"b">>) \o One(<<LF>>, <<>>),
            One(<<"a", "a">>, <<"b">>) \o One(<<LF>>, <<"b", LF>>)}}
AllFaults == {"read", "open", "reopen", "write", "restore", "flush"}
Case(f, k, n, d, x, y, faults) ==
    [file |-> f, kind |-> k, name |-> n, dir |-> d,
     calls |-> (c1 :> x) @@ (c2 :> y), faults |-> faults]
Alone(f, r) == Case(f, "regular", "path", TRUE, r, NoCall, {})

Edit(o, n) == [tool |-> "edit", ops |-> One(<<o>>, <<n>>)]
Write(t) == [tool |-> "write", text |-> t]
Read(k) == [tool |-> "read", limit |-> k]
Calls == {Edit("a", "b"), Edit(LF, "b"), Write(<<"b", "b", "b">>), Write(<<"a">>), Read(1)}

MCCases ==
    \* matching and replacing
    {Alone(f, r) : r \in Requests, f \in Files(4) \cup {<<Bom>> \o g : g \in Files(2)}}
    \* pages
    \cup {Alone(f, Read(k)) : f \in Files(4), k \in {1, MaxLines}}
    \* every kind of file, every fault
    \cup {x \in {Case(f, k, n, d, r, NoCall, AllFaults) : f \in {<<"a", LF>>, <<>>, Absent},
                 k \in Kinds, n \in Names, d \in BOOLEAN, r \in Calls} :
             (x.file # Absent => x.dir) /\ (x.file = Absent => x.kind = "regular")}
    \* two calls at once
    \cup {x \in {Case(f, k, n, d, r, q, {"write", "reopen"}) : f \in {<<"a", LF>>, Absent},
                 k \in {"regular", "binary"}, n \in Names, d \in BOOLEAN, r \in Calls, q \in Calls} :
             (x.file # Absent => x.dir) /\ (x.file = Absent => x.kind = "regular")}
    \* a file that changes between two pages
    \cup {Case(<<LF, LF, LF>>, "regular", "path", TRUE, Read(1), r, {}) : r \in Calls}
=============================================================================

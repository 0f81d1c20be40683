----------------------------- MODULE MCTransport -----------------------------
(* Instances of Transport: every way to cut some inputs into chunks, every *)
(* call whose arguments differ from a valid one in at most two fields, and *)
(* the results of a command against a range of budgets.                    *)
EXTENDS Transport

CONSTANTS Budgets, MaxStream, StreamKinds

NoArgs == [f \in {} |-> "absent"]
Plain(method) ==
    [root |-> "object", hasId |-> TRUE, method |-> method, name |-> "", args |-> NoArgs, target |-> 0]
Call(tool, args) == [Plain("tools/call") EXCEPT !.name = tool, !.args = args]
Bash    == Call("bash", [command |-> "text", timeout |-> "absent"])
List    == Call("list_terminals", [include_exited |-> "absent"])
Cancel1 == [Plain("notifications/cancelled") EXCEPT !.hasId = FALSE, !.target = 1]
Notice  == [Plain("notifications/other") EXCEPT !.hasId = FALSE]
NoId    == [Plain("unknown") EXCEPT !.hasId = FALSE]
Array   == [Plain("tools/list") EXCEPT !.root = "array"]

(* A short result, and one that is cut inside a character.                 *)
Short == [out |-> <<"p">>, err |-> <<>>, exit |-> 0]
Wide  == [out |-> <<"l", "c", "l", "c", "l", "c">>, err |-> <<>>, exit |-> 0]

(* Wires: messages in the two framings, with what may surround them.       *)
Body(n) == <<<<"head", n>>, <<"tail", n>>>>
Lf(n)   == Body(n) \o <<Nl>>
CrLf(n) == Body(n) \o <<Cr, Nl>>
Framed(n) == <<<<"cl", 0>>, <<"len", 2>>, Cr, Nl, Cr, Nl>> \o Body(n)
Typed(n)  == <<<<"cl", 0>>, <<"len", 2>>, Cr, Nl, <<"type", 0>>, Cr, Nl, Cr, Nl>> \o Body(n)
LengthLast(n) == <<<<"type", 0>>, Cr, Nl, <<"cl", 0>>, <<"len", 2>>, Cr, Nl, Cr, Nl>> \o Body(n)
NoLength  == <<<<"type", 0>>, Cr, Nl, Cr, Nl>>
Wires ==
    {[framed |-> FALSE, wire |-> Lf(1) \o CrLf(2) \o Lf(3), sent |-> <<1, 2, 3>>],
     [framed |-> FALSE, wire |-> <<Nl, Cr, Nl>> \o CrLf(1) \o <<Nl>> \o Lf(2), sent |-> <<1, 2>>],
     [framed |-> FALSE, wire |-> CrLf(1) \o Lf(2) \o Body(3), sent |-> <<1, 2>>],
     [framed |-> FALSE, wire |-> Body(1) \o Lf(2) \o Lf(3), sent |-> <<0, 3>>],
     [framed |-> TRUE, wire |-> Framed(1) \o Framed(2) \o Framed(3), sent |-> <<1, 2, 3>>],
     [framed |-> TRUE, wire |-> <<Cr, Nl>> \o Typed(1) \o LengthLast(2), sent |-> <<1, 2>>],
     [framed |-> TRUE, wire |-> <<Nl>> \o Typed(1) \o Framed(2), sent |-> <<1, 2>>],
     [framed |-> TRUE, wire |-> Framed(1) \o NoLength \o Framed(2), sent |-> <<1>>],
     [framed |-> TRUE, wire |-> Framed(1) \o <<<<"cl", 0>>, <<"len", 4>>, Cr, Nl>>, sent |-> <<1>>]}
Batches ==
    {<<Bash, Bash, List>>, <<Bash, Cancel1, List>>, <<Plain("initialize"), Notice, Bash>>,
     <<NoId, List, Cancel1>>, <<Array, Bash, Plain("tools/list")>>}
FramingScenarios ==
    {[framed |-> w.framed, wire |-> w.wire, sent |-> w.sent, reqs |-> b,
      budget |-> 0, result |-> Short] : w \in Wires, b \in Batches}
    \cup
    {[framed |-> w.framed, wire |-> w.wire, sent |-> w.sent, reqs |-> <<Bash, Bash, List>>,
      budget |-> 14, result |-> Wide] : w \in Wires}

(* Calls: a valid one per tool and its neighbours.                         *)
Valid(ok) == CHOOSE v \in ok : v \in {"text", "absent", "listed", "pairs"}
ValidArgs(tool) == [f \in DOMAIN Checks[tool] |-> Valid(Checks[tool][f])]
One(tool) ==
    {[ValidArgs(tool) EXCEPT ![f] = v] : f \in DOMAIN Checks[tool], v \in Classes}
Near(tool) ==
    One(tool) \cup
    {[a EXCEPT ![f] = v] : a \in One(tool), f \in DOMAIN Checks[tool], v \in {"absent", "other"}}
CallScenarios ==
    {[framed |-> FALSE, wire |-> Lf(1), sent |-> <<1>>, reqs |-> <<Call(a[1], a[2])>>,
      budget |-> 0, result |-> Short] :
        a \in UNION {{<<tool, args>> : args \in Near(tool)} : tool \in Tools}}

(* Results: every short stream of whole characters on stdout, a few on     *)
(* stderr.                                                                 *)
Whole(s) ==
    \A i \in 1..Len(s) : /\ s[i] = "c" => i > 1 /\ s[i - 1] = "l"
                         /\ s[i] = "l" => i < Len(s) /\ s[i + 1] = "c"
Streams == {s \in UNION {[1..k -> StreamKinds] : k \in 0..MaxStream} : Whole(s)}
Results ==
    {[out |-> s, err |-> e, exit |-> Len(e)] :
        s \in Streams, e \in {<<>>, <<"p", "n", "q">>, <<"z", "z">>}}
ResultScenarios ==
    {[framed |-> FALSE, wire |-> Lf(1), sent |-> <<1>>, reqs |-> <<Bash>>,
      budget |-> b, result |-> r] : b \in Budgets, r \in Results}

MCScenarios == FramingScenarios \cup CallScenarios \cup ResultScenarios
=============================================================================

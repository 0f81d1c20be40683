------------------------------- MODULE Transport -------------------------------
(***************************************************************************)
(* The path of a request through the coordinator's standard input and of   *)
(* its reply through standard output (rpc.cpp): LineReader with its two    *)
(* framings, rpc_parse_request, the line loop of rpc_run_loop, and the     *)
(* serialization of results under --max-result-bytes.                      *)
(*                                                                         *)
(* Where and when a request runs is the subject of EventLoop; here a       *)
(* request that is not answered in the line loop is pending until its      *)
(* reply is written, in any order.  A command held for want of a worker is *)
(* left to EventLoop too.                                                  *)
(*                                                                         *)
(* Input comes in units <<kind, n>>, the pieces a read(2) may separate:    *)
(*   <<"head", n>>, <<"tail", n>>  the two halves of request n             *)
(*   <<"cl", 0>>                   "Content-"                              *)
(*   <<"len", n>>                  "Length: n", n counted in units         *)
(*   <<"type", 0>>                 another header field                    *)
(*   <<"cr", 0>>, <<"nl", 0>>      the two line ends                       *)
(***************************************************************************)
EXTENDS ResultBudget, RequestParse

CONSTANTS Scenarios,    \* what a client sends, and the result a call gets
          MaxBuf        \* kMaxBufferedInputBytes, in units

ASSUME TransportAssumption == MaxBuf \in Nat \ {0}

Units == {"head", "tail", "cl", "len", "type", "cr", "nl"} \X Nat
Kind(u) == u[1]

(* A client numbers its requests in the order it writes them, and gives    *)
(* every argument some value.  What is serialized has been through         *)
(* ensure_valid_utf8.                                                      *)
ASSUME ScenarioAssumption ==
    \A x \in Scenarios :
        /\ x.wire \in Seq(Units) /\ Len(x.reqs) \in Nat
        /\ \A i, k \in 1..Len(x.wire) :
               Kind(x.wire[i]) = "head" /\ Kind(x.wire[k]) = "head" /\ i < k
                   => x.wire[i][2] < x.wire[k][2]
        /\ \A i \in 1..Len(x.wire) :
               Kind(x.wire[i]) = "head" => x.wire[i][2] \in 1..Len(x.reqs)
        /\ \A n \in 1..Len(x.reqs) :
               x.reqs[n].name \in Tools
                   => x.reqs[n].args \in [DOMAIN Checks[x.reqs[n].name] -> Classes]
        /\ x.budget \in Nat
        /\ x.result.out \in Seq(ByteKinds) /\ Unsplit(x.result.out)
        /\ x.result.err \in Seq(ByteKinds) /\ Unsplit(x.result.err)

VARIABLES
    sc,          \* the scenario: [framed, wire, sent, reqs, budget, result]
    vals, shares, trims, fate,  \* serializing the scenario's result, by stages
    wire,        \* units the client has written and nobody has read
    buf,         \* LineReader::buf_
    scanned,     \* LineReader::scanned_
    eof, overflowed, detected, framed,
    early,       \* the framing was fixed by a first chunk too short to tell
    pc,          \* "lines", "poll", "exit", or "failed": poll(2) gave up
    got,         \* numbers of the requests taken from the input, 0 if not one
    pending,     \* requests dispatched and not replied to
    dropped,     \* requests whose replies are not to be written
    lost,        \* requests whose reply is given up: serializing one threw, or
                 \* what a tool's thread handed over cannot be read
    out          \* replies written, in order

reader == <<buf, scanned, eof, overflowed, detected, framed, early>>
serial == <<vals, shares, trims, fate>>
vars   == <<sc, serial, wire, reader, pc, got, pending, dropped, lost, out>>

Cr == <<"cr", 0>>
Nl == <<"nl", 0>>

Init ==
    /\ sc \in Scenarios
    /\ vals = Values(sc.result)
    /\ shares = SharesOf(vals, sc.budget)
    /\ trims = Trims(vals, shares, sc.budget)
    /\ fate = Enforce(vals, trims, sc.budget)
    /\ wire = sc.wire
    /\ buf = <<>> /\ scanned = 0
    /\ eof = FALSE /\ overflowed = FALSE /\ detected = FALSE /\ framed = FALSE
    /\ early = FALSE
    /\ pc = "lines"
    /\ got = <<>> /\ pending = {} /\ dropped = {} /\ lost = {} /\ out = <<>>

(***************************************************************************)
(* detect_mode: on the first unit that is not a line end, and for ever.    *)
(***************************************************************************)
TextAt == {i \in 1..Len(buf) : Kind(buf[i]) \notin {"cr", "nl"}}
StartsFramed ==
    LET i == Min(TextAt)
    IN  i < Len(buf) /\ Kind(buf[i]) = "cl" /\ Kind(buf[i + 1]) = "len"

DetectsNow == ~detected /\ TextAt # {}
ModeNow == IF DetectsNow THEN StartsFramed ELSE framed

DetectMode ==
    /\ detected' = (detected \/ TextAt # {})
    /\ framed' = ModeNow
    /\ early' = \/ early
                \/ DetectsNow /\ Min(TextAt) = Len(buf) /\ Kind(buf[Len(buf)]) = "cl"

(***************************************************************************)
(* Newline-delimited input: the search starts where the last one ended.    *)
(***************************************************************************)
Newlines == {p \in scanned + 1..Len(buf) : buf[p] = Nl}

LineEnd(p) == IF p > 1 /\ buf[p - 1] = Cr THEN p - 2 ELSE p - 1

RescanKept(p) == Len(buf) - p
Rescan(p) == IF scanned > p THEN scanned - p ELSE 0

(***************************************************************************)
(* Framed input: a header block up to the first empty line, then a body of *)
(* the length it states.  A block without a length is never complete:      *)
(* has_framed says no, so the skip in get_framed is not reached.           *)
(***************************************************************************)
HeaderEnds ==
    {p \in 1..Len(buf) - 3 : SubSeq(buf, p, p + 3) = <<Cr, Nl, Cr, Nl>>}
HeaderEnd == Min(HeaderEnds) - 1

(* parse_content_length: the first line of the block that is the field.    *)
(* Lines end in CR LF only, so a bare LF in front of the name hides it.    *)
LineStart(i) == i = 1 \/ (i > 2 /\ buf[i - 2] = Cr /\ buf[i - 1] = Nl)
LengthFields ==
    {i \in 1..HeaderEnd - 1 :
        Kind(buf[i]) = "cl" /\ Kind(buf[i + 1]) = "len" /\ LineStart(i)}
content_length == IF LengthFields = {} THEN -1 ELSE buf[Min(LengthFields) + 1][2]
BodyStart == HeaderEnd + 4
BodyEnd == BodyStart + content_length

HasFramed == HeaderEnds # {} /\ content_length >= 0 /\ Len(buf) >= BodyEnd

has_line(f) == IF f THEN HasFramed ELSE Newlines # {}

(* get_line: the line and what is left of the buffer.                      *)
get_line(f) ==
    IF f THEN [line |-> SubSeq(buf, BodyStart + 1, BodyEnd),
               rest |-> SubSeq(buf, BodyEnd + 1, Len(buf)), scanned |-> scanned]
    ELSE LET p == Min(Newlines)
         IN  [line |-> SubSeq(buf, 1, LineEnd(p)),
              rest |-> SubSeq(buf, p + 1, Len(buf)), scanned |-> Rescan(p)]

(***************************************************************************)
(* The line loop.                                                          *)
(***************************************************************************)

(* The request a line holds: 0 when it is not one whole request.           *)
RequestIn(line) ==
    IF Len(line) = 2 /\ Kind(line[1]) = "head" /\ Kind(line[2]) = "tail"
                     /\ line[1][2] = line[2][2]
    THEN line[1][2] ELSE 0

NoRequest == [root |-> "invalid", hasId |-> FALSE, method |-> "", name |-> "", args |-> <<>>]
Request(n) == IF n = 0 THEN NoRequest ELSE sc.reqs[n]

(* write_msg: the format follows the mode of the reader.                   *)
Reply(n, id, what) == [req |-> n, id |-> id, what |-> what, framed |-> framed']

(* What the line loop does with a request: answer it, drop it, cancel      *)
(* another one, or dispatch it.                                            *)
Handle(n) ==
    LET j == Request(n)
        v == rpc_parse_request(j)
    IN  /\ got' = Append(got, n)
        /\ out' = IF v \in {"refused", "protocol"}
                  THEN Append(out, Reply(n, IdOf(j), IF v = "refused" THEN "error" ELSE "answer"))
                  ELSE out
        /\ dropped' = IF v = "cancel" THEN dropped \cup ({j.target} \cap pending) ELSE dropped
        /\ pending' = IF v \in {"cmd", "tool", "arg_error"} THEN pending \cup {n} ELSE pending

NextLine ==
    /\ pc = "lines"
    /\ DetectMode
    /\ has_line(ModeNow)
    /\ \E g \in {get_line(ModeNow)} :
          /\ buf' = g.rest /\ scanned' = g.scanned
          /\ \/ g.line = <<>> /\ UNCHANGED <<got, pending, dropped, out>>
             \/ g.line # <<>> /\ \E n \in {RequestIn(g.line)} : Handle(n)
    /\ UNCHANGED <<sc, serial, wire, eof, overflowed, pc, lost>>

(* No complete line left: the loop ends, or waits in poll(2).              *)
LinesDone ==
    /\ pc = "lines"
    /\ DetectMode
    /\ ~has_line(ModeNow)
    /\ scanned' = IF ModeNow THEN scanned ELSE Len(buf)
    /\ pc' = IF eof /\ pending = {} THEN "exit" ELSE "poll"
    /\ UNCHANGED <<sc, serial, wire, buf, eof, overflowed, got, pending, dropped, lost, out>>

(***************************************************************************)
(* poll(2) returned for standard input: fill() reads k units, a chunk at a *)
(* time.  The chunk that does not fit is dropped whole, and the reader is  *)
(* at its end; r units were in the chunks before it.                       *)
(***************************************************************************)
Overflow == [req |-> 0, id |-> "null", what |-> "error", framed |-> framed]

Fill ==
    /\ pc = "poll" /\ ~eof
    /\ \E k \in 1..Len(wire) :
          LET fits == k <= MaxBuf - Len(buf)
          IN  /\ \E r \in IF fits THEN {k} ELSE 0..MaxBuf - Len(buf) :
                     buf' = buf \o SubSeq(wire, 1, r)
              /\ wire' = SubSeq(wire, k + 1, Len(wire))
              /\ overflowed' = ~fits /\ eof' = ~fits
              /\ out' = IF fits THEN out ELSE Append(out, Overflow)
    /\ pc' = "lines"
    /\ UNCHANGED <<sc, serial, scanned, detected, framed, early, got, pending, dropped, lost>>

(* A mutant of the next one: an error of read(2) that is not taken for the *)
(* end of the input.                                                       *)
FillEofMissed ==
    /\ pc = "poll" /\ ~eof /\ wire = <<>>
    /\ pc' = "lines"
    /\ UNCHANGED <<sc, serial, wire, reader, got, pending, dropped, lost, out>>

(* The client has written all it will and closes its end.                  *)
FillEof ==
    /\ pc = "poll" /\ ~eof /\ wire = <<>>
    /\ eof' = TRUE
    /\ pc' = "lines"
    /\ UNCHANGED <<sc, serial, wire, buf, scanned, overflowed, detected, framed, early,
                   got, pending, dropped, lost, out>>

(***************************************************************************)
(* poll(2) returned for a worker or a tool thread: serialize and write.    *)
(* A command's result is serialized in the loop, a tool's on its thread.   *)
(***************************************************************************)
IsCmd(n) == rpc_parse_request(Request(n)) = "cmd"

Complete(n) ==
    /\ pc = "poll" /\ n \in pending
    /\ fate.how # "throws" \/ n \in dropped \/ ~IsCmd(n)
    /\ pending' = pending \ {n}
    /\ out' = IF n \in dropped THEN out
              ELSE Append(out,
                [req |-> n, id |-> IdOf(Request(n)), framed |-> framed,
                 what |-> IF rpc_parse_request(Request(n)) = "arg_error" THEN "toolerror"
                          ELSE IF fate.how = "throws" THEN "error" ELSE "result"])
    /\ pc' = "lines"
    /\ UNCHANGED <<sc, serial, wire, reader, got, dropped, lost>>

(* The length a tool's thread announces is 0 or over the limit, or its     *)
(* pipe cannot be read: the request is over and has no reply.              *)
CompleteUnread(n) ==
    /\ pc = "poll" /\ n \in pending /\ ~IsCmd(n)
    /\ pending' = pending \ {n}
    /\ lost' = lost \cup {n}
    /\ pc' = "lines"
    /\ UNCHANGED <<sc, serial, wire, reader, got, dropped, out>>

(* The exception leaves the loop's body for the catch block, which gives   *)
(* up everything in flight.                                                *)
CompleteThrows(n) ==
    /\ pc = "poll" /\ n \in pending \ dropped
    /\ fate.how = "throws" /\ IsCmd(n)
    /\ lost' = lost \cup pending
    /\ pending' = {}
    /\ pc' = "lines"
    /\ UNCHANGED <<sc, serial, wire, reader, got, dropped, out>>

(* poll(2) fails with something other than EINTR: the loop is left with    *)
(* whatever is in flight.                                                  *)
PollFails ==
    /\ pc = "poll"
    /\ pc' = "failed"
    /\ UNCHANGED <<sc, serial, wire, reader, got, pending, dropped, lost, out>>

Done == pc \in {"exit", "failed"} /\ UNCHANGED vars

Next ==
    \/ NextLine \/ LinesDone \/ Fill \/ FillEof \/ PollFails \/ Done
    \/ \E n \in pending : Complete(n) \/ CompleteUnread(n) \/ CompleteThrows(n)

Spec == Init /\ [][Next]_vars

(* The loop runs, the client's units arrive and every dispatched request   *)
(* ends (EventLoop and ShellCommand say when).  Nothing is asked of the    *)
(* failures: a step of the loop is possible without them.                  *)
FairSpec == Spec /\ WF_vars(Next)

(***************************************************************************)
(* Properties                                                              *)
(***************************************************************************)
TypeOK ==
    /\ Len(buf) <= MaxBuf
    /\ scanned \in Nat /\ (framed \/ scanned <= Len(buf))
    /\ {eof, overflowed, detected, framed, early} \subseteq BOOLEAN
    /\ fate.how \in {"whole", "minimal", "cut", "emptied", "throws"}
    /\ pc \in {"lines", "poll", "exit", "failed"}
    /\ got \in Seq(0..Len(sc.reqs))
    /\ pending \subseteq 1..Len(sc.reqs)
    /\ dropped \subseteq 1..Len(sc.reqs) /\ lost \subseteq 1..Len(sc.reqs)

(* The incremental search never skips a newline: none lies in front of the *)
(* mark LineReader::has_line remembers.                                    *)
ScannedClean == \A i \in 1..scanned : framed \/ buf[i] # Nl

(* The framing found is the client's, and every reply is written in it,    *)
(* unless a first chunk shorter than "Content-Length:" decided, or the     *)
(* buffer overflowed first (detect_mode, write_msg).                       *)
ModeRight ==
    ~early /\ ~overflowed =>
        /\ detected => framed = sc.framed
        /\ \A i \in 1..Len(out) : out[i].framed = sc.framed

(* A header block without a length stops framed input for good.            *)
Stuck == framed /\ HeaderEnds # {} /\ content_length < 0

(* Whatever the chunks, the loop takes the client's requests in order,     *)
(* none twice and none made up; and by the end it has taken every          *)
(* complete one, unless the framing was misjudged, the buffer overflowed   *)
(* or no length was found in a header block (get_newline, get_framed).     *)
LinesExact ==
    /\ ~early /\ ~overflowed => IsPrefix(got, sc.sent)
    /\ pc = "exit" /\ ~early /\ ~overflowed /\ ~Stuck => got = sc.sent
    /\ \A i, k \in 1..Len(got) : i < k /\ got[k] # 0 => got[i] < got[k]

(* LineReader as a whole: the three statements above, and the types.       *)
FramingExact == TypeOK /\ ScannedClean /\ ModeRight /\ LinesExact

Silent(n) == rpc_parse_request(Request(n)) \in {"notification", "cancel"}
RepliesTo(n) == {i \in 1..Len(out) : out[i].req = n}

(* When the loop ends, every request taken from the input has exactly one  *)
(* reply, and never more; a notification and a cancelled request have      *)
(* none, and a line that is no request has its error.  Only an exception   *)
(* while serializing loses replies, those of all requests in flight, and a *)
(* tool whose thread hands over nothing that can be read (rpc_run_loop).   *)
AnswersMatch ==
    /\ \A n \in ToSet(got) \ {0} :
        /\ Cardinality(RepliesTo(n)) <= 1
        /\ \A i \in RepliesTo(n) : out[i].id = IdOf(Request(n))
        /\ Silent(n) => RepliesTo(n) = {}
        /\ pc = "exit" /\ ~Silent(n) /\ n \notin dropped \cup lost => RepliesTo(n) # {}
    /\ Cardinality(RepliesTo(0)) =
           Cardinality({i \in 1..Len(got) : got[i] = 0}) + (IF overflowed THEN 1 ELSE 0)

(* The budget and the cuts of the reply being written (WithinBudget,       *)
(* CutExactly and SplitOnlyAtHead of ResultBudget): within the budget but  *)
(* for the slip of 6 bytes, exactly cut, and unserializable only after a   *)
(* cut inside a character.                                                 *)
BudgetKept ==
    pc = "poll" /\ pending # {} =>
        /\ WithinBudget(vals, shares, fate, sc.budget)
        /\ CutExactly(vals, shares, trims, fate)
        /\ SplitOnlyAtHead(vals, trims, fate)

(* A call is dispatched exactly when its arguments satisfy the schema that *)
(* tools/list publishes for its tool, but for the differences named in     *)
(* RequestParse (AgreesWithSchema).                                        *)
SchemaKept ==
    \A n \in ToSet(got) \ {0} :
        LET j == Request(n) IN
        j.root = "object" /\ j.method = "tools/call" /\ j.name \in Tools
            => AgreesWithSchema(j.name, j.args)

(* Each request is judged as published and answered as judged.             *)
ProtocolKept == AnswersMatch /\ SchemaKept

(* Once the client has closed its end, the loop ends: no request, however  *)
(* malformed, keeps it waiting (rpc_run_loop).                             *)
LoopEnds == <>(pc \in {"exit", "failed"})
=============================================================================

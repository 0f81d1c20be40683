----------------------------- MODULE ResultBudget -----------------------------
(***************************************************************************)
(* From a command's streams to a reply that fits --max-result-bytes        *)
(* (rpc.cpp): bash_result_text, head_tail_reduce, trim_to_encoded_budget   *)
(* and enforce_result_budget.                                              *)
(*                                                                         *)
(* A stream is a sequence of bytes, each of one of the kinds the code      *)
(* tells apart: "p" copied verbatim, "q" escaped to two bytes, "n" a       *)
(* newline, "z" escaped to six, "l" and "c" the first and the following    *)
(* bytes of a multi-byte character.  Streams have been through             *)
(* ensure_valid_utf8 before any of this.                                   *)
(***************************************************************************)
EXTENDS BudgetShares, SequencesExt

CONSTANTS HeadBytes, TailBytes,   \* kTextHeadBytes, kTextTailBytes
          Window,                 \* how far a cut looks for a line boundary
          Base,                   \* size of the reply with every value empty
          MarkerLen,              \* the marker a cut leaves in a value
          FlagsLen, FooterLen     \* the _truncated fields, the text's footer

ASSUME BudgetAssumption ==
    {HeadBytes, TailBytes, Window, Base, MarkerLen, FlagsLen, FooterLen} \subseteq Nat

(* Bytes, and streams in which no character lacks its first byte: what     *)
(* ensure_valid_utf8 leaves.                                               *)
ByteKinds == {"p", "q", "n", "z", "l", "c"}
Unsplit(s) == \A j \in 1..Len(s) : s[j] = "c" => j > 1 /\ s[j - 1] \in {"l", "c"}

(* One byte each, one more for the two-byte escapes, five for \u00xx.      *)
escaped_len(s) ==
    Len(s) + Cardinality({i \in 1..Len(s) : s[i] \in {"q", "n"}})
           + 5 * Cardinality({i \in 1..Len(s) : s[i] = "z"})

(* Cutting before position i + 1 leaves every character in one piece.      *)
Boundary(s, i) == i = Len(s) \/ s[i + 1] # "c"

(* utf8_floor: back to the start of the character at offset i.             *)
utf8_floor(s, i) ==
    IF i >= Len(s) THEN Len(s) ELSE Max({k \in 0..i : k = 0 \/ Boundary(s, k)})

(***************************************************************************)
(* The text block.                                                         *)
(***************************************************************************)
Marker == <<"n", "p", "n">>
Label  == <<"p", "n">>

HeadEnd(s) ==
    LET floor == utf8_floor(s, HeadBytes)
        lines == {j \in 1..Len(s) : j <= floor + 1 /\ s[j] = "n"}
    IN  IF lines = {} \/ Max(lines) > floor THEN floor ELSE Max(lines)

TailStart(s) ==
    LET floor == utf8_floor(s, Len(s) - TailBytes)
        lines == {j \in floor + 1..Len(s) : s[j] = "n"}
        next  == IF lines = {} THEN Len(s) ELSE Min(lines)
    IN  IF next < Len(s) /\ next <= Len(s) - TailBytes \div 2 THEN next ELSE floor

(* head_tail_reduce: the two ends of a text, cut at line boundaries.       *)
head_tail_reduce(s) ==
    IF Len(s) <= HeadBytes + TailBytes THEN s
    ELSE LET head == HeadEnd(s)
             tail == Max({head, TailStart(s)})
         IN  SubSeq(s, 1, head) \o Marker \o SubSeq(s, tail + 1, Len(s))

EndLine(s) == IF s = <<>> \/ Last(s) = "n" THEN s ELSE Append(s, "n")

(* bash_result_text; the markers for a cut stream and a timeout are one    *)
(* line each, like the one for an exit code.                               *)
bash_result_text(r) ==
    LET out  == IF r.out = <<>> THEN <<>>
                ELSE EndLine((IF r.err = <<>> THEN <<>> ELSE Label) \o r.out)
        err  == IF r.err = <<>> THEN <<>> ELSE EndLine(Label \o r.err)
        body == out \o err \o (IF r.exit = 0 THEN <<>> ELSE Label)
    IN  head_tail_reduce(IF body = <<>> THEN Label ELSE body)

(***************************************************************************)
(* Cutting one value.                                                      *)
(***************************************************************************)

(* fit_raw_bytes forwards goes byte by byte; backwards it steps over whole *)
(* characters and never below limit.                                       *)
FitForward(s, b) == Max({k \in 0..Len(s) : escaped_len(SubSeq(s, 1, k)) <= b})
(* A mutant of the next one: byte by byte backwards too.                     *)
FitBackwardBytes(s, b, limit) ==
    Len(s) - Min({p \in limit..Len(s) : escaped_len(SubSeq(s, p + 1, Len(s))) <= b})
FitBackward(s, b, limit) ==
    Len(s) - Min({p \in limit..Len(s) :
                      /\ p = limit \/ Boundary(s, p)
                      /\ escaped_len(SubSeq(s, p + 1, Len(s))) <= b})

(* looks_like_text: nine tenths printable (the probe of 4096 bytes is      *)
(* longer than every stream here).                                         *)
LooksLikeText(s) == 10 * Cardinality({i \in 1..Len(s) : s[i] # "z"}) >= 9 * Len(s)

(* Inward to the nearest line boundary within the window.                  *)
SnapHead(s, head) ==
    LET lines == {k \in 1..head : head - k < Window /\ s[k] = "n"}
    IN  IF lines = {} THEN head ELSE Max(lines)
SnapTail(s, start, limit) ==
    LET lines == {k \in start + 1..Len(s) :
                      k <= start + Window /\ s[k] = "n" /\ k > limit}
    IN  IF lines = {} THEN start ELSE Min(lines)

(* trim_to_encoded_budget: what is kept of s, as lengths of its two ends.  *)
(* A budget of 0 leaves the value whole.                                   *)
Uncut(s) == [cut |-> FALSE, head |-> Len(s), tail |-> 0]
trim_to_encoded_budget(s, b) ==
    IF b = 0 \/ escaped_len(s) <= b THEN Uncut(s)
    ELSE LET h == FitForward(s, b \div 2)
             t == FitBackward(s, b - b \div 2, h)
             head  == IF LooksLikeText(s) THEN SnapHead(s, h) ELSE h
             start == IF LooksLikeText(s) THEN SnapTail(s, Len(s) - t, head)
                                          ELSE Len(s) - t
         IN  [cut |-> TRUE, head |-> head, tail |-> Len(s) - start]

(* The two ends, and what their cut costs in encoded bytes.                *)
HeadPart(s, t) == SubSeq(s, 1, t.head)
TailPart(s, t) == SubSeq(s, Len(s) - t.tail + 1, Len(s))
TrimmedLen(s, t) ==
    escaped_len(HeadPart(s, t)) + escaped_len(TailPart(s, t))
        + (IF t.cut THEN MarkerLen ELSE 0)
Dropped(s, t) == IF t.cut THEN Len(s) - t.head - t.tail ELSE 0

(* nlohmann's dump() throws on a value that is not valid UTF-8.            *)
Broken(s, t) == t.cut /\ ~(Boundary(s, t.head) /\ Boundary(s, Len(s) - t.tail))

(***************************************************************************)
(* enforce_result_budget on a result with a text block and two payloads.   *)
(* The test for "fits" takes 2 bytes per value off a base that has already *)
(* counted the quotes.                                                     *)
(***************************************************************************)
Values(r) == <<bash_result_text(r), r.out, r.err>>
Payload(v) == escaped_len(v[1]) + escaped_len(v[2]) + escaped_len(v[3])

Fits(v, budget) == budget = 0 \/ Base + Payload(v) - 2 * 3 <= budget

SharesOf(v, budget) ==
    Shares(Available(budget, Base), escaped_len(v[1]), escaped_len(v[2]), escaped_len(v[3]))

(* Nothing is cut from a reply that fits, nor from one whose envelope      *)
(* alone is too large: that one is replaced by an envelope without values. *)
Trims(v, sh, budget) ==
    IF Fits(v, budget) \/ Base >= budget THEN <<Uncut(v[1]), Uncut(v[2]), Uncut(v[3])>>
    ELSE <<trim_to_encoded_budget(v[1], sh.text),
           trim_to_encoded_budget(v[2], sh.first),
           trim_to_encoded_budget(v[3], sh.second)>>

Lost(v, t) == Dropped(v[1], t[1]) + Dropped(v[2], t[2]) + Dropped(v[3], t[3])

(* The reply with its payloads, and without them.                          *)
EmptiedSize(v, t) == Base + FlagsLen + FooterLen + TrimmedLen(v[1], t[1])
CutSize(v, t) == EmptiedSize(v, t) + TrimmedLen(v[2], t[2]) + TrimmedLen(v[3], t[3])

(* The reply for values v cut to t: how it was made and its encoded size.  *)
Enforce(v, t, budget) ==
    CASE Fits(v, budget) \/ (Base < budget /\ \A i \in 1..3 : ~t[i].cut) ->
           [how |-> "whole", size |-> Base + Payload(v)]
      [] ~Fits(v, budget) /\ Base >= budget ->
           [how |-> "minimal", size |-> Base]
      [] OTHER ->
           IF \E i \in 1..3 : Broken(v[i], t[i])
           THEN [how |-> "throws", size |-> 0]
           ELSE IF CutSize(v, t) > budget
                THEN [how |-> "emptied", size |-> EmptiedSize(v, t)]
                ELSE [how |-> "cut", size |-> CutSize(v, t)]

(***************************************************************************)
(* What the replies promise, of values v with shares sh cut to t in the    *)
(* reply e.                                                                *)
(***************************************************************************)

(* There is room for the bookkeeping: the markers, the flags and the       *)
(* footer fit in the slack, and every share is worth something.            *)
Roomy(v, sh, budget) ==
    /\ budget - Base > SlackOf(budget)
    /\ SlackOf(budget) >= 3 * MarkerLen + FlagsLen + FooterLen
    /\ sh.text > 0
    /\ sh.first > 0 \/ v[2] = <<>>
    /\ sh.second > 0 \/ v[3] = <<>>

(* A reply that keeps its payloads is within the budget whenever there is  *)
(* room for the bookkeeping, but for the 6 bytes the test for "fits" takes *)
(* off the envelope; and with that room the last resort of emptying the    *)
(* payloads is never needed.                                               *)
WithinBudget(v, sh, e, budget) ==
    budget > 0 /\ (Fits(v, budget) \/ Roomy(v, sh, budget))
        => /\ e.size <= budget + (IF e.how = "whole" THEN 6 ELSE 0)
           /\ e.how # "emptied"

(* A value is whole or keeps a head and a tail that do not overlap, within *)
(* its share; what the reply says was dropped is what is missing.          *)
CutExactly(v, sh, t, e) ==
    e.how \in {"cut", "emptied"} =>
        /\ \A i \in 1..3 :
               t[i].cut => /\ t[i].head + t[i].tail <= Len(v[i])
                           /\ escaped_len(HeadPart(v[i], t[i])) + escaped_len(TailPart(v[i], t[i]))
                                 <= <<sh.text, sh.first, sh.second>>[i]
        /\ Lost(v, t) = Len(v[1] \o v[2] \o v[3])
                        - (t[1].head + t[1].tail + t[2].head + t[2].tail + t[3].head + t[3].tail)

(* Serializing fails only where the head of a value ends inside a          *)
(* character and no line boundary was near enough to move the cut: the     *)
(* tail and the text's own reduction never split one.                      *)
SplitOnlyAtHead(v, t, e) ==
    /\ \A i \in 1..3 : Boundary(v[i], Len(v[i]) - t[i].tail)
    /\ e.how = "throws" =>
         \E i \in 1..3 :
            LET h == t[i].head IN
            /\ ~Boundary(v[i], h)
            /\ LooksLikeText(v[i]) => \A k \in 1..h : h - k < Window => v[i][k] # "n"
    /\ Unsplit(v[1])
=============================================================================

------------------------------ MODULE EditText ------------------------------
(***************************************************************************)
(* The text level of the file tools (rpc.cpp): how `edit` finds the old    *)
(* texts in a file and replaces them, and which lines a page of `read`     *)
(* shows.  A text is a sequence of characters; LF, CR, Blank and Bom are   *)
(* the characters the code treats specially, all others are alike.         *)
(***************************************************************************)
EXTENDS Integers, Sequences, FiniteSets, SequencesExt, FiniteSetsExt

CONSTANTS
    MaxBytes,   \* DEFAULT_MAX_BYTES: bytes of text in one page of `read`
    MaxLines    \* DEFAULT_MAX_LINES: lines of a page when no limit is given

LF == "lf"
CR == "cr"
Blank == "sp"
Bom == "bom"

-----------------------------------------------------------------------------
(* Normal forms *)

\* The CR of every CR LF pair is dropped for matching ...
StripCr(s) ==
    FlattenSeq([i \in 1..Len(s) |->
        IF s[i] = CR /\ i < Len(s) /\ s[i + 1] = LF THEN <<>> ELSE <<s[i]>>])

\* ... and put back in front of every LF when the file had one.
RestoreCr(s) ==
    FlattenSeq([i \in 1..Len(s) |-> IF s[i] = LF THEN <<CR, LF>> ELSE <<s[i]>>])

HasCrlf(s) == \E i \in 1..Len(s) - 1 : s[i] = CR /\ s[i + 1] = LF

\* A blank from which on its line holds nothing but blanks.
TrailingBlank(s, i) ==
    \E j \in i..Len(s) : /\ \A k \in i..j : s[k] = Blank
                         /\ j = Len(s) \/ s[j + 1] = LF

\* The positions that strip_trailing_ws keeps, in order.
Kept(s) == SelectSeq([i \in 1..Len(s) |-> i], LAMBDA i : ~TrailingBlank(s, i))

strip_trailing_ws(s) == [i \in DOMAIN Kept(s) |-> s[Kept(s)[i]]]

\* Mutant: the end position forgets the last character.
PosMapShort(s) == Append(Kept(s), IF Kept(s) = <<>> THEN 1 ELSE Last(Kept(s)))

\* From positions of the stripped text to positions of the text; the last
\* entry is the end.
build_pos_map(s) ==
    Append(Kept(s), IF Kept(s) = <<>> THEN 1 ELSE Last(Kept(s)) + 1)

-----------------------------------------------------------------------------
(* Matching and replacing *)

Places(s, t) == {p \in 1..Len(s) - Len(t) + 1 : SubSeq(s, p, p + Len(t) - 1) = t}

\* Where `old` is in `content`: exactly, or else up to trailing blanks.
Locate(content, old) ==
    LET map   == build_pos_map(content)
        exact == Places(content, old)
        bare  == strip_trailing_ws(old)
    IN  IF exact # {}
        THEN {[pos |-> p, len |-> Len(old)] : p \in exact}
        ELSE {[pos |-> map[p], len |-> map[p + Len(bare)] - map[p]] :
                 p \in Places(strip_trailing_ws(content), bare)}

\* An edit is [old |-> text, new |-> text].
Normal(text, crlf) == IF crlf THEN StripCr(text) ELSE text

\* Every old text is there exactly once.
Located(content, ops, crlf) ==
    \A i \in DOMAIN ops :
        /\ ops[i].old # <<>>
        /\ Cardinality(Locate(content, Normal(ops[i].old, crlf))) = 1

\* The matches in the order of their positions (ties keep the order of ops).
Matches(content, ops, crlf) ==
    LET m(i) == CHOOSE x \in Locate(content, Normal(ops[i].old, crlf)) : TRUE
    IN  SetToSortSeq({[pos |-> m(i).pos, len |-> m(i).len, op |-> i] : i \in DOMAIN ops},
                     LAMBDA a, b : \/ a.pos < b.pos
                                   \/ a.pos = b.pos /\ a.op < b.op)

Overlap(ms) == \E i \in 2..Len(ms) : ms[i].pos < ms[i - 1].pos + ms[i - 1].len

Splice(s, m, new) == SubSeq(s, 1, m.pos - 1) \o new \o SubSeq(s, m.pos + m.len, Len(s))

\* From the last match to the first, so that positions stay valid.
ReplaceAllMatches(s, ms, ops, crlf) ==
    FoldRight(LAMBDA m, acc : Splice(acc, m, Normal(ops[m.op].new, crlf)), ms, s)

HasBom(bytes) == bytes # <<>> /\ bytes[1] = Bom
Body(bytes) == IF HasBom(bytes) THEN Tail(bytes) ELSE bytes

\* What `edit` searches: the bytes without their mark and, in a file that has
\* CR LF, without those CRs.
Crlf(bytes) == HasCrlf(Body(bytes))
NormalText(bytes) == Normal(Body(bytes), Crlf(bytes))

\* What `edit` makes of the bytes it has read, of which `text` is the normal
\* form, found to be "bad" or to have the matches ms: an error (no effect), the
\* same bytes, or the bytes to write.
Found(text, ops, crlf) ==
    IF Located(text, ops, crlf)
    THEN LET ms == Matches(text, ops, crlf)
         IN  [bad |-> Overlap(ms), ms |-> ms]
    ELSE [bad |-> TRUE, ms |-> <<>>]

EditBytes(bytes, text, at, ops) ==
    LET new == ReplaceAllMatches(text, at.ms, ops, Crlf(bytes))
        raw == (IF HasBom(bytes) THEN <<Bom>> ELSE <<>>)
                   \o (IF Crlf(bytes) THEN RestoreCr(new) ELSE new)
    IN  IF at.bad THEN [status |-> "invalid", bytes |-> bytes]
        ELSE [status |-> IF raw = bytes THEN "same" ELSE "change", bytes |-> raw]

-----------------------------------------------------------------------------
(* Reference: the edited file is the file with the matched stretches of its *)
(* own bytes replaced and every other byte where it was.                    *)

\* The raw position of each character of the normal form; a dropped CR counts
\* with the LF after it.
RawStart(body, crlf, i) ==
    LET idx == SelectSeq([k \in 1..Len(body) |-> k],
                   LAMBDA k : ~(crlf /\ body[k] = CR /\ k < Len(body) /\ body[k + 1] = LF))
    IN  IF i = 1 THEN 1 ELSE idx[i - 1] + 1

ReplacedInPlace(bytes, ops) ==
    LET body   == Body(bytes)
        crlf   == HasCrlf(body)
        ms     == Matches(Normal(body, crlf), ops, crlf)
        from(k) == IF k = 0 THEN 1 ELSE RawStart(body, crlf, ms[k].pos + ms[k].len)
        to(k)   == IF k > Len(ms) THEN Len(body)
                   ELSE RawStart(body, crlf, ms[k].pos) - 1
        new(k)  == LET t == Normal(ops[ms[k].op].new, crlf)
                   IN  IF crlf THEN RestoreCr(t) ELSE t
    IN  (IF HasBom(bytes) THEN <<Bom>> ELSE <<>>) \o FlattenSeq(
            [k \in 1..Len(ms) |-> SubSeq(body, from(k - 1), to(k)) \o new(k)])
            \o SubSeq(body, from(Len(ms)), to(Len(ms) + 1))

\* Some lines end in CR LF and some in LF alone.
MixedEndings(bytes) ==
    /\ HasCrlf(bytes)
    /\ \E i \in 1..Len(bytes) : bytes[i] = LF /\ (i = 1 \/ bytes[i - 1] # CR)

-----------------------------------------------------------------------------
(* Pages of `read` *)

LineCount(s) ==
    Cardinality({i \in 1..Len(s) : s[i] = LF})
        + (IF s # <<>> /\ Last(s) # LF THEN 1 ELSE 0)

\* Bytes the i-th line adds to a page, its newline included.
LineBytes(s, i) ==
    LET ends  == SetToSortSeq({k \in 1..Len(s) : s[k] = LF} \cup {Len(s) + 1}, <)
        start == IF i = 1 THEN 0 ELSE ends[i - 1]
    IN  ends[i] - start

\* The most lines from `start` on that fit the page.
Fitting(s, start, limit) ==
    Max({k \in 0..LineCount(s) - start + 1 :
            /\ k <= limit
            /\ FoldSet(LAMBDA i, n : n + LineBytes(s, i), 0, start..start + k - 1)
                   <= MaxBytes})

\* One call of `read`: the lines shown and next_offset (0 when it is absent).
\* A first line longer than the whole page is shown in part and counts.
Page(s, start, limit) ==
    LET n    == IF start > LineCount(s) THEN 0 ELSE Fitting(s, start, limit)
        k    == IF n = 0 /\ start <= LineCount(s) THEN 1 ELSE n
        more == start + k <= LineCount(s)
    IN  [from |-> start, lines |-> k, next |-> IF more THEN start + k ELSE 0]
=============================================================================

---------------------------- MODULE TerminalOutput ----------------------------
(***************************************************************************)
(* What a terminal session does to the bytes its shell prints: the reader  *)
(* thread cuts its reads at character boundaries (Utf8ChunkAccumulator),   *)
(* the service keeps them by lines, trimmed at the front (OutputBuffer),   *)
(* and replays the most recent ones when a client reconnects.  A byte is   *)
(* known by its kind: "a" ASCII, "n" newline, "c" continuation, "l2", "l3" *)
(* and "l4" the first byte of a longer character, "x" none of these.       *)
(***************************************************************************)
EXTENDS Integers, Sequences, FiniteSets, SequencesExt

CONSTANTS Chars,      \* what the shell prints, as sequences of bytes
          BufSize,    \* a read returns at most this (4096)
          MaxBytes,   \* bytes printed in all
          MAX_OUTPUT_BUFFER_SIZE, MAX_BUFFER_LINES, DEFAULT_RECONNECT_BUFFER_BYTES

VARIABLES pty,        \* printed and not yet read
          remainder,  \* Utf8ChunkAccumulator
          lines, total_size, last_line_incomplete, \* OutputBuffer
          chunk,      \* the last chunk passed on
          all         \* history: all that was read

vars == <<pty, remainder, lines, total_size, last_line_incomplete, chunk, all>>
buffer == <<lines, total_size, last_line_incomplete>>

Init ==
    /\ pty = <<>> /\ remainder = <<>> /\ chunk = <<>> /\ all = <<>>
    /\ lines = <<>> /\ total_size = 0 /\ last_line_incomplete = FALSE
-----------------------------------------------------------------------------
(* Utf8ChunkAccumulator *)

SeqLen(b) == CASE b = "l2" -> 2 [] b = "l3" -> 3 [] b = "l4" -> 4 [] OTHER -> 1

\* Mutant: one byte less is looked at.
find_utf8_split_point_short(buf) ==
    LET P == {i \in (IF Len(buf) > 2 THEN Len(buf) - 1 ELSE 1)..Len(buf) : buf[i] # "c"}
        i == CHOOSE i \in P : \A j \in P : j <= i
    IN IF P # {} /\ Len(buf) - i + 1 < SeqLen(buf[i]) THEN i - 1 ELSE Len(buf)

\* The last three bytes are searched from the end for one that is not a continuation.
find_utf8_split_point(buf) ==
    LET P == {i \in (IF Len(buf) > 3 THEN Len(buf) - 2 ELSE 1)..Len(buf) : buf[i] # "c"}
        i == CHOOSE i \in P : \A j \in P : j <= i
    IN IF P # {} /\ Len(buf) - i + 1 < SeqLen(buf[i]) THEN i - 1 ELSE Len(buf)

from_utf8(s) ==
    \A i \in DOMAIN s :
        /\ s[i] # "x"
        /\ i + SeqLen(s[i]) - 1 <= Len(s) /\ \A j \in i + 1..i + SeqLen(s[i]) - 1 : s[j] = "c"
        /\ s[i] = "c" => \E k \in 1..i - 1 : i - k < SeqLen(s[k]) /\ \A j \in k + 1..i : s[j] = "c"

\* Mutant: what is held back is not put in front.
push_chunk_apart(data) ==
    LET split == find_utf8_split_point(data)
    IN IF \/ split = Len(data)
          \/ remainder = <<>> /\ split > 0 /\ ~from_utf8(SubSeq(data, 1, split))
       THEN [out |-> data, rem |-> <<>>]
       ELSE [out |-> SubSeq(data, 1, split), rem |-> SubSeq(data, split + 1, Len(data))]

push_chunk(data) ==
    LET d == remainder \o data
        split == find_utf8_split_point(d)
    IN IF \/ split = Len(d)
          \/ remainder = <<>> /\ split > 0 /\ ~from_utf8(SubSeq(d, 1, split))
       THEN [out |-> d, rem |-> <<>>]
       ELSE [out |-> SubSeq(d, 1, split), rem |-> SubSeq(d, split + 1, Len(d))]
-----------------------------------------------------------------------------
(* OutputBuffer *)

Size(ls) == FoldLeft(LAMBDA n, l : n + Len(l), 0, ls)

\* The data cut after every newline.
Pieces(data) ==
    LET ends == SetToSortSeq({i \in DOMAIN data : data[i] = "n"} \cup {Len(data)}, <)
    IN [k \in DOMAIN ends |-> SubSeq(data, 1 + (IF k = 1 THEN 0 ELSE ends[k - 1]), ends[k])]

\* The oldest lines go until both limits are kept.
Trim(ls, size) ==
    LET Left(k) == SubSeq(ls, k + 1, Len(ls))
        Fits(k) == size - Size(SubSeq(ls, 1, k)) <= MAX_OUTPUT_BUFFER_SIZE /\ Len(Left(k)) <= MAX_BUFFER_LINES
        k == CHOOSE k \in 0..Len(ls) : Fits(k) /\ \A j \in 0..k - 1 : ~Fits(j)
    IN [lines |-> Left(k), size |-> size - Size(SubSeq(ls, 1, k))]

\* Mutant: the bytes that complete a line are not counted.
append_uncounted(data) ==
    LET p == Pieces(data)
        merge == last_line_incomplete /\ lines # <<>>
        joined == IF merge THEN [lines EXCEPT ![Len(lines)] = @ \o p[1]] \o Tail(p) ELSE lines \o p
        open == data[Len(data)] # "n"
        t == Trim(joined, total_size + Len(data) - (IF merge /\ ~open THEN Len(p[1]) ELSE 0))
    IN IF merge /\ Len(p) = 1 /\ open
       THEN lines' = joined /\ total_size' = total_size + Len(data) /\ UNCHANGED last_line_incomplete
       ELSE lines' = t.lines /\ total_size' = t.size /\ last_line_incomplete' = (open /\ t.lines # <<>>)

\* Mutant: the flag outlives the line.
append_flag(data) ==
    LET p == Pieces(data)
        merge == last_line_incomplete /\ lines # <<>>
        joined == IF merge THEN [lines EXCEPT ![Len(lines)] = @ \o p[1]] \o Tail(p) ELSE lines \o p
        t == Trim(joined, total_size + Len(data))
    IN /\ lines' = t.lines /\ total_size' = t.size /\ last_line_incomplete' = (data[Len(data)] # "n")

\* A line that is still not complete is extended and not trimmed.
append(data) ==
    LET p == Pieces(data)
        merge == last_line_incomplete /\ lines # <<>>
        joined == IF merge THEN [lines EXCEPT ![Len(lines)] = @ \o p[1]] \o Tail(p) ELSE lines \o p
        open == data[Len(data)] # "n"
        t == Trim(joined, total_size + Len(data))
    IN IF merge /\ Len(p) = 1 /\ open
       THEN lines' = joined /\ total_size' = total_size + Len(data) /\ UNCHANGED last_line_incomplete
       ELSE lines' = t.lines /\ total_size' = t.size /\ last_line_incomplete' = (open /\ t.lines # <<>>)

\* The tail of a line that is too long, from a character on.
TailOf(line, max_bytes) ==
    LET o == Len(line) - max_bytes
        skip == CHOOSE s \in 0..3 : /\ \A j \in 1..s : o + j <= Len(line) /\ line[o + j] = "c"
                                    /\ s = 3 \/ o + s >= Len(line) \/ line[o + s + 1] # "c"
    IN SubSeq(line, o + skip + 1, Len(line))

\* Mutant: newest first.
get_recent_unreversed(max_bytes) ==
    LET n == Len(lines)
        Fit == {k \in 0..n : Size(SubSeq(lines, k + 1, n)) <= max_bytes}
        k == CHOOSE k \in Fit : \A j \in Fit : k <= j
    IN IF max_bytes = 0 \/ n = 0 THEN <<>>
       ELSE IF Len(lines[n]) > max_bytes THEN TailOf(lines[n], max_bytes)
       ELSE FlattenSeq(Reverse(SubSeq(lines, k + 1, n)))

get_recent(max_bytes) ==
    LET n == Len(lines)
        Fit == {k \in 0..n : Size(SubSeq(lines, k + 1, n)) <= max_bytes}
        k == CHOOSE k \in Fit : \A j \in Fit : k <= j
    IN IF max_bytes = 0 \/ n = 0 THEN <<>>
       ELSE IF Len(lines[n]) > max_bytes THEN TailOf(lines[n], max_bytes)
       ELSE FlattenSeq(SubSeq(lines, k + 1, n))
-----------------------------------------------------------------------------
\* The shell prints.
ShellPrint(ch) ==
    /\ Len(all) + Len(pty) + Len(ch) <= MaxBytes
    /\ pty' = pty \o ch
    /\ UNCHANGED <<remainder, buffer, chunk, all>>

Pass(data) ==
    /\ chunk' = data
    /\ IF data = <<>> THEN UNCHANGED buffer ELSE append(data)

\* One read of the reader thread; the service drains the channel before the next.
ReaderRead(n) ==
    /\ n <= Len(pty) /\ pty' = SubSeq(pty, n + 1, Len(pty)) /\ all' = all \o SubSeq(pty, 1, n)
    /\ LET p == push_chunk(SubSeq(pty, 1, n)) IN remainder' = p.rem /\ Pass(p.out)

\* The end of the output; more may follow only of another shell, which has buffers of its own.
finish ==
    /\ remainder # <<>> /\ pty = <<>>
    /\ remainder' = <<>> /\ Pass(remainder)
    /\ UNCHANGED <<pty, all>>

Next ==
    \/ \E ch \in Chars : ShellPrint(ch)
    \/ \E n \in 1..BufSize : ReaderRead(n)
    \/ finish

Spec == Init /\ [][Next]_vars
-----------------------------------------------------------------------------
Content == FlattenSeq(lines)

\* Types; only the last line may lack its newline, and the flag says whether it does.
TypeOK ==
    /\ \A i \in DOMAIN lines : /\ lines[i] # <<>> /\ \A j \in 1..Len(lines[i]) - 1 : lines[i][j] # "n"
                               /\ i < Len(lines) => lines[i][Len(lines[i])] = "n"
    /\ last_line_incomplete = (lines # <<>> /\ lines[Len(lines)][Len(lines[Len(lines)])] # "n")

\* The size kept is the size there is, so that trimming never runs below zero and stops in time; the
\* limits hold whenever the last line is complete.
LimitsKept ==
    /\ total_size = Size(lines)
    /\ ~last_line_incomplete => total_size <= MAX_OUTPUT_BUFFER_SIZE /\ Len(lines) <= MAX_BUFFER_LINES

\* The buffer is the end of what was printed, without a gap; only bytes of an unfinished character
\* are held back, in their order.
NothingLost ==
    /\ LET kept == Content \o remainder
       IN Len(kept) <= Len(all) /\ kept = SubSeq(all, Len(all) - Len(kept) + 1, Len(all))
    /\ remainder # <<>> => Len(remainder) < SeqLen(remainder[1]) /\ \A i \in 2..Len(remainder) : remainder[i] = "c"

\* A shell that prints whole characters is passed on in whole characters, and a replay after a
\* reconnection is made of whole characters too, though lines are cut to fit.
WholeCharacters == from_utf8(chunk) /\ from_utf8(get_recent(DEFAULT_RECONNECT_BUFFER_BYTES))

\* A replay is the end of the buffer, within its limit, and it is not empty if one whole character
\* fits.
ReplayRecent ==
    LET r == get_recent(DEFAULT_RECONNECT_BUFFER_BYTES) IN
    /\ Len(r) <= DEFAULT_RECONNECT_BUFFER_BYTES /\ r = SubSeq(Content, Len(Content) - Len(r) + 1, Len(Content))
    /\ Content # <<>> /\ DEFAULT_RECONNECT_BUFFER_BYTES >= 4 => r # <<>>

\* "1MB per terminal".
BufferBounded == total_size <= MAX_OUTPUT_BUFFER_SIZE
=============================================================================

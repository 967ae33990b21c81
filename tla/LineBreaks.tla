----------------------------- MODULE LineBreaks -----------------------------
(***************************************************************************)
(* edit_write_stream (editor/edit.c): how mcedit writes its buffer with    *)
(* other line breaks.  The loop reads the buffer byte by byte, looks one   *)
(* byte ahead at a line break, and sometimes consumes that byte as well.   *)
(* Bytes are line feeds, carriage returns and ordinary characters.         *)
(***************************************************************************)
EXTENDS Naturals, Sequences, SequencesExt

CONSTANTS Ordinary,     \* ordinary characters
          MaxLength     \* bound: bytes in the buffer

ASSUME LineBreaksAssumption ==
    MaxLength \in Nat /\ {"CR", "LF"} \cap Ordinary = {}

Breaks == {"CR", "LF"}
Bytes == Breaks \union Ordinary
Styles == {"unix", "win", "mac"}        \* LB_UNIX, LB_WIN, LB_MAC

VARIABLES
    buffer,     \* the bytes in the editor
    lb,         \* edit->lb
    i,          \* the loop counter, from 0
    out,        \* what was put into the stream
    result      \* what edit_write_stream returns; MaxLength + 1 while it runs

vars == <<buffer, lb, i, out, result>>

Running == MaxLength + 1

Init ==
    /\ buffer \in UNION {[1..n -> Bytes] : n \in 0..MaxLength}
    /\ lb \in Styles
    /\ i = 0
    /\ out = <<>>
    /\ result = Running

\* edit_buffer_get_byte: a line feed past the end.
Byte(k) == IF k < Len(buffer) THEN buffer[k + 1] ELSE "LF"

Busy == result = Running /\ i < Len(buffer)

\* One turn of the loop puts bytes and goes on `used' bytes later; when a put fails
\* the function returns, with `at' in the counter and only a part of the bytes out.
Turn(bytes, used, at) ==
    \/ /\ out' = out \o bytes
       /\ i' = i + used
       /\ UNCHANGED <<buffer, lb, result>>
    \/ \E k \in 0..(Len(bytes) - 1) :
         /\ out' = out \o SubSeq(bytes, 1, k)
         /\ i' = at[k + 1]
         /\ result' = at[k + 1]
         /\ UNCHANGED <<buffer, lb>>

\* Not a line break.
Copy ==
    /\ Busy /\ Byte(i) \notin Breaks
    /\ Turn(<<Byte(i)>>, 1, <<i>>)

\* LB_UNIX and LB_MAC: one line break unconditionally; the next byte is consumed too:
\* nothing for the rest of a Windows break, a second break for a pair of the breaks
\* being replaced, else the byte as it is.
TwoBytes(style, replaced, break) ==
    LET second == CASE Byte(i) = "CR" /\ Byte(i + 1) = "LF"         -> <<>>
                    [] Byte(i) = replaced /\ Byte(i + 1) = replaced -> <<break>>
                    [] OTHER                                        -> <<Byte(i + 1)>>
    IN /\ Busy /\ Byte(i) \in Breaks /\ lb = style
       /\ Turn(<<break>> \o second, 2, <<i, i + 1>>)

UnixBreak == TwoBytes("unix", "CR", "LF")
MacBreak == TwoBytes("mac", "LF", "CR")

\* Mutant: the line feed of a Windows break is not skipped.
WinBreakTwice == Busy /\ Byte(i) \in Breaks /\ lb = "win" /\ Turn(<<"CR", "LF">>, 1, <<i, i>>)

\* LB_WIN: only the line feed of a Windows break is skipped.
WinBreak ==
    /\ Busy /\ Byte(i) \in Breaks /\ lb = "win"
    /\ Turn(<<"CR", "LF">>, IF Byte(i) = "CR" /\ Byte(i + 1) = "LF" THEN 2 ELSE 1, <<i, i>>)

\* The end of the loop: the size of the buffer is returned.
Return ==
    /\ result = Running /\ i >= Len(buffer)
    /\ result' = Len(buffer)
    /\ UNCHANGED <<buffer, lb, i, out>>

Next == Copy \/ UnixBreak \/ MacBreak \/ WinBreak \/ Return

Spec == Init /\ [][Next]_vars

-----------------------------------------------------------------------------
(* Reference: every line break - CR LF, CR or LF - becomes one of lb.      *)

BreakOf == [unix |-> <<"LF">>, win |-> <<"CR", "LF">>, mac |-> <<"CR">>]

\* What becomes of byte k: the line feed of a Windows break adds nothing.
Piece(bytes, style, k) ==
    LET rest == bytes[k] = "LF" /\ k > 1 /\ bytes[k - 1] = "CR"
    IN IF bytes[k] \notin Breaks THEN <<bytes[k]>> ELSE IF rest THEN <<>> ELSE BreakOf[style]

Convert(bytes, style) == FlattenSeq([k \in DOMAIN bytes |-> Piece(bytes, style, k)])

Text(bytes) == FlattenSeq([k \in DOMAIN bytes |-> IF bytes[k] \in Breaks THEN <<>> ELSE <<bytes[k]>>])

\* No break is followed by another one or by the end.
Separated(bytes) ==
    LET after(k) == IF bytes[k] = "CR" /\ k < Len(bytes) /\ bytes[k + 1] = "LF" THEN k + 2 ELSE k + 1
    IN \A k \in 1..Len(bytes) : bytes[k] \in Breaks =>
         after(k) <= Len(bytes) /\ bytes[after(k)] \notin Breaks

\* A result equal to the size of the buffer, which edit_save_file takes for success,
\* means that the text is out: every ordinary character, in order, whatever put
\* failed, and with Windows breaks, or in texts without empty lines and without a
\* break at the end, the breaks as well.
SuccessIsConverted ==
    result = Len(buffer) =>
        /\ Text(out) = Text(buffer)
        /\ lb = "win" \/ Separated(buffer) => out = Convert(buffer, lb)

\* The comments of the three cases, for every text: 'replace "\r\n" or '\r' to '\n'',
\* and so on. Violated: a line feed at the end is doubled by Unix breaks.
AllConverted == result = Len(buffer) => out = Convert(buffer, lb)
=============================================================================

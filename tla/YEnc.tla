--------------------------------- MODULE YEnc ---------------------------------
(***************************************************************************)
(* decoder.DecodeYEnc (internal/decoder/yenc.go) on the lines of an        *)
(* article.  What is inside a line is left out: a header or footer is what *)
(* it starts with, a data line one of a few kinds, and the CRC of the data *)
(* is the data itself.                                                     *)
(***************************************************************************)
EXTENDS Integers, Sequences

\* Data lines: "x", one that begins with a dot, one that is a dot, one that was
\* damaged after it was posted, and the empty one.
DataText == {"x", ".x", ".", "!", ""}

\* The footer has a CRC of the data as posted, or none (or one that is not
\* hexadecimal, which counts as none).
Text == DataText \cup {"=ybegin", "=ypart", "=yend", "=yend crc"}
Footer == {"=yend", "=yend crc"}

\* Where the body begins: after the first =ybegin and the =ypart that may follow
\* it; at the first line if there is no =ybegin.
BodyStart(lines) ==
    LET begins == {i \in DOMAIN lines : lines[i] = "=ybegin"}
        start == IF begins = {} THEN 1
                 ELSE 1 + CHOOSE i \in begins : \A k \in begins : i <= k
    IN  IF start <= Len(lines) /\ lines[start] = "=ypart" THEN start + 1 ELSE start

\* Where it ends: before the last =yend, or with the article.
BodyEnd(lines) ==
    LET ends == {i \in BodyStart(lines)..Len(lines) : lines[i] \in Footer}
    IN  IF ends = {} THEN Len(lines) + 1
        ELSE CHOOSE i \in ends : \A k \in ends : k <= i

\* The data lines of the body, the empty ones left out.
Data(lines) ==
    LET body == SubSeq(lines, BodyStart(lines), BodyEnd(lines) - 1)
        kept[n \in 0..Len(body)] ==
            IF n = 0 THEN <<>>
            ELSE IF body[n] = "" THEN kept[n - 1] ELSE Append(kept[n - 1], body[n])
    IN  kept[Len(body)]

HasCRC(lines) ==
    BodyEnd(lines) <= Len(lines) /\ lines[BodyEnd(lines)] = "=yend crc"

\* The outcome: "none", no result; "mismatch", data and an error; "ok".
\* The text after the last line feed counts as a line too.
DecodeYEnc(lines, crc) ==
    IF Len(lines) + 1 < 3 THEN "none"
    ELSE IF HasCRC(lines) /\ Data(lines) # crc THEN "mismatch"
    ELSE "ok"

=============================================================================

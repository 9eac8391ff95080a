------------------------------ MODULE MailText ------------------------------
(***************************************************************************)
(* The loops of the text helpers as the code writes them, over texts that  *)
(* grow piece by piece, and the text RETR sends of a mail.  ProtoUtil says *)
(* what a mail is parsed to without a loop; here it is compared with the   *)
(* loop over lines, down to the characters an address is cut out with.     *)
(*                                                                         *)
(* "SP" is a space; "To", "From", ":", "<" and ">" are what a header line  *)
(* is looked at for.  A size_t has SizeRange values: any range that holds  *)
(* the lengths of the texts below npos shows the same.                     *)
(***************************************************************************)
EXTENDS ProtoUtil

CONSTANTS
    Pieces,     \* what a text grows by
    MaxSize,    \* bound: the length of a text, which std::string keeps below npos
    SizeRange   \* bound: the number of values of a size_t

ASSUME MailTextAssumption ==
    /\ Pieces \subseteq Seq(Words)
    /\ MaxSize \in Nat /\ SizeRange \in Nat
    /\ MaxSize < SizeRange - 1

VARIABLE text

SizeT(n) == n % SizeRange

\* What is thrown in place of a text.
OutOfRange == << "out_of_range" >>

\* std::string::substr: positions count from 0, and the count may pass the end.
Substr(s, pos, count) ==
    IF pos > Len(s) THEN OutOfRange
    ELSE SubSeq(s, pos + 1, Min({Len(s), pos + SizeT(count)}))

\* std::string::find of one character: its position from 0, or npos.
Npos == SizeT(-1)

At(s, char) == {i \in DOMAIN s : s[i] = char}

IndexOf(s, char) == Min({i - 1 : i \in At(s, char)} \cup {Npos})

----------------------------------------------------------------------------
\* Cut after the next line break, go on behind it, and drop the rest.
SplitStringByLine(s) ==
    LET linesFrom[start \in 1 .. Len(s) + 1] ==
            LET ends == {e \in LineEnds(s) : e >= start}
            IN  IF ends = {} THEN << >>
                ELSE << SubSeq(s, start, Min(ends) + 1) >> \o linesFrom[Min(ends) + 2]
    IN  linesFrom[1]

Blank == {"SP", "CR", "LF"}

\* The two loops stop at the first and the last character that is not blank, or
\* at the length and at 0; in a blank text the count is taken below zero.
Trim(s) ==
    LET solid  == {i \in DOMAIN s : s[i] \notin Blank}
        nStart == Min({i - 1 : i \in solid} \cup {Len(s)})
        nStop  == Max({i - 1 : i \in solid} \cup {0})
    IN  IF s = << >> THEN s ELSE Substr(s, nStart, nStop - nStart + 1)

\* Deviation: the length of the address is counted from the colon.
ParseAddrFromColon(line) ==
    LET index == IndexOf(line, ":")
        value == Substr(line, SizeT(index + 1), Len(line) - index - 1)
        start == IndexOf(value, "<")
        end   == IndexOf(value, ">")
    IN  CASE index = 0 -> << >>
          [] index # 0 /\ start # Npos /\ end # Npos -> Substr(value, start + 1, end)
          [] OTHER -> value

\* ParseFromToString, which looks at the position of the colon as if npos were
\* 0: a line that begins with it gives nothing, one without it is all value.
ParseAddr(line) ==
    LET index == IndexOf(line, ":")
        value == Substr(line, SizeT(index + 1), Len(line) - index - 1)
        start == IndexOf(value, "<")
        end   == IndexOf(value, ">")
    IN  CASE index = 0 -> << >>
          [] index # 0 /\ start # Npos /\ end # Npos ->
                Substr(value, start + 1, end - start - 1)
          [] OTHER -> value

----------------------------------------------------------------------------
IsHeader(line, name) == HasText(line, << name, ":", "SP" >>)

\* One turn of the loop of ParseEmailForSmtp; from the first blank line on, all
\* lines are the context.  Subject and time are left out.
ReadLine(email, line) ==
    IF email.inBody THEN [email EXCEPT !.context = @ \o line]
    ELSE [ sender   |-> IF IsHeader(line, "From") THEN ParseAddr(line) ELSE email.sender,
           receiver |-> IF IsHeader(line, "To") THEN Trim(ParseAddr(line)) ELSE email.receiver,
           inBody   |-> line = CRLF,
           context  |-> IF line = CRLF THEN line ELSE << >> ]

NoEmail == [sender |-> << >>, receiver |-> << >>, inBody |-> FALSE, context |-> << >>]

ParseByLine(s) ==
    LET lines == SplitStringByLine(s)
        after[n \in 0 .. Len(lines)] ==
            IF n = 0 THEN NoEmail ELSE ReadLine(after[n - 1], lines[n])
    IN  after[Len(lines)]

\* The header of the answer to RETR; the subject is trimmed text of one line.
RspHeader(email) ==
    << "Date", ":", "SP" >> \o CRLF
    \o << "From", ":", "SP" >> \o email.sender \o << "SP" >> \o CRLF
    \o << "To", ":", "SP" >> \o email.receiver \o << "SP" >> \o CRLF
    \o << "Subject", ":", "SP", "SP", "SP" >> \o CRLF

\* Deviation: no line break between header and context.
RspWithoutBreak(email) == RspHeader(email) \o email.context \o << "SP" >> \o EndOfData

\* The answer to RETR.  The context ends with its own dot line already.
Pop3RspFromEmail(email) ==
    RspHeader(email) \o CRLF \o email.context \o << "SP" >> \o EndOfData

\* A client reads an answer up to the first line that is a dot.
ClientReads(rsp) == SubSeq(rsp, 1, Min(Find(rsp, EndOfData)) + Len(EndOfData) - 1)

----------------------------------------------------------------------------
\* A text is received piece by piece until it holds the end of a mail.
Receive(piece) ==
    /\ ~HasText(text, EndOfData)
    /\ Len(text) + Len(piece) <= MaxSize
    /\ text' = text \o piece

TextInit == text = << >>

TextNext == \E piece \in Pieces : Receive(piece)

TextSpec == TextInit /\ [][TextNext]_text

----------------------------------------------------------------------------
\* What is left between the first character that is not blank and the last.
Solid(s) ==
    LET solid == {i \in DOMAIN s : s[i] \notin Blank}
    IN  IF solid = {} THEN << >> ELSE SubSeq(s, Min(solid), Max(solid))

\* The receiver of a line is the address in the brackets behind its first colon
\* without the blanks around it, whatever else the line holds, the brackets of a
\* blank or no address included: lengths of size_t that are taken below zero come
\* out right (ParseFromToString, Trim).
ReceiverIsInBrackets ==
    \A c \in At(text, ":"), i \in At(text, "<"), j \in At(text, ">") :
        /\ 1 < c /\ c < i /\ i < j
        /\ \A k \in 1 .. (j - 1) : /\ k < c => text[k] # ":"
                                   /\ c < k /\ k # i => text[k] \notin {"<", ">"}
        => Trim(ParseAddr(text)) = Solid(SubSeq(text, i + 1, j - 1))

\* From end to end: a client that reads the answer to RETR up to its first dot
\* line gets the body as it was sent, up to the dot line that ended it, and no
\* line of the header ends the answer before (OnData's end, ParseEmailForSmtp,
\* Pop3RspFromEmail); a mail without a blank line has no body.
RetrievedIsSent ==
    HasText(text, EndOfData) =>
        LET email == ParseByLine(text)
            end   == Min(Find(text, EndOfData))
            read  == ClientReads(Pop3RspFromEmail(email))
        IN  /\ BlankLines(text) = {} =>
                  read = RspHeader(email) \o CRLF \o << "SP" >> \o EndOfData
            /\ \A b \in BlankLines(text) :
                  b = Min(BlankLines(text)) /\ b <= end =>
                      read = RspHeader(email) \o CRLF \o SubSeq(text, b, end + Len(EndOfData) - 1)

=============================================================================

----------------------------- MODULE ProtoUtil -----------------------------
(***************************************************************************)
(* The text helpers the protocol handlers are built from: common/ProtoUtil *)
(* and the mail parser of common/config/user_info.cpp.                     *)
(*                                                                         *)
(* A piece of text is a sequence of lexemes.  "CR", "LF" and "DOT" are the *)
(* characters the end of a mail is made of; every other lexeme stands for  *)
(* an indivisible run of other characters: a verb such as "EHLO", a base64 *)
(* run, a header line's text, a word of a body.                            *)
(*                                                                         *)
(* A name, an address or a password is a record [user, host, blanks]: the  *)
(* text before its '@' and the labels of the host after it, host = << >>   *)
(* saying that it has no '@', and whether it has blanks that Trim would    *)
(* take off, or that were outside it before a host was put behind them.    *)
(***************************************************************************)
EXTENDS Integers, Sequences, FiniteSetsExt

CONSTANTS
    Words,        \* the lexemes, and the labels of names and addresses
    Domain,       \* m_strDomainName, as the sequence of its labels
    Base64Text,   \* the name or password a base64 lexeme decodes to
    ToHeader      \* the address a "To: <address>" lexeme carries, trimmed

Text == [user : Words, host : Seq(Words), blanks : BOOLEAN]

EmptyText == [user |-> "", host |-> << >>, blanks |-> FALSE]

ASSUME ProtoUtilAssumption ==
    /\ {"", "CR", "LF", "DOT"} \subseteq Words
    /\ Domain \in Seq(Words)
    /\ \A x \in DOMAIN Base64Text : Base64Text[x] \in Text
    /\ \A x \in DOMAIN ToHeader : ToHeader[x] \in Text

----------------------------------------------------------------------------
\* std::string::find: the positions of text at which pat starts.
Find(text, pat) ==
    {i \in 1 .. (Len(text) - Len(pat) + 1) : SubSeq(text, i, i + Len(pat) - 1) = pat}

HasText(text, pat) == Find(text, pat) # {}

CRLF == << "CR", "LF" >>

\* A line that holds a single dot, with the line break before it.
EndOfData == << "CR", "LF", "DOT", "CR", "LF" >>

\* The line breaks of a text: SplitStringByLine cuts after each of them and
\* drops what follows the last one.
LineEnds(text) == Find(text, CRLF)

\* The line breaks that are a line of their own.
BlankLines(text) == {i \in LineEnds(text) : i = 1 \/ i - 2 \in LineEnds(text)}

----------------------------------------------------------------------------
\* Decoding stops at the first character that is not base64, so only a leading
\* base64 lexeme counts.
Base64Decode(text) ==
    IF text # << >> /\ Head(text) \in DOMAIN Base64Text
    THEN Base64Text[Head(text)]
    ELSE EmptyText

\* Trim, of a name: the blanks outside it go, and those alone.
TrimName(name) == [name EXCEPT !.blanks = FALSE]

\* A login name with a host is an address already and is trimmed; otherwise the
\* address is in the domain without its first label, behind the blanks the name
\* may end with, and a domain of one label gives "".
CreateUserAddrFromNameAndDomain(name, domain) ==
    CASE name.host # << >>                     -> TrimName(name)
      [] name.host = << >> /\ Len(domain) > 1  -> [name EXCEPT !.host = Tail(domain)]
      [] OTHER                                 -> EmptyText

\* Only the first brackets of a line are looked at (ParseFromToString).
FirstOfLine(text, i) ==
    \A j \in 1 .. (i - 1) :
        text[j] \in DOMAIN ToHeader => \E e \in LineEnds(text) : j < e /\ e < i

\* The receiver is the one of the last "To: " line above the first blank line;
\* the context is everything from that blank line to the last line break, the
\* terminating dot included.  Sender, subject and time are left out.
ParseEmailForSmtp(text) ==
    LET header == 1 .. (Min(BlankLines(text) \cup {Len(text) + 1}) - 1)
        to     == {i \in header : /\ text[i] \in DOMAIN ToHeader /\ FirstOfLine(text, i)
                                  /\ \E e \in LineEnds(text) : i < e}
    IN  [ receiver |-> IF to = {} THEN EmptyText ELSE ToHeader[text[Max(to)]],
          context  |-> IF BlankLines(text) = {} THEN << >>
                       ELSE SubSeq(text, Min(BlankLines(text)), Max(LineEnds(text)) + 1) ]

=============================================================================

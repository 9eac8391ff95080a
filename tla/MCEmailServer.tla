--------------------------- MODULE MCEmailServer ---------------------------
(* Two SMTP sessions that log in the short way, and one POP3 session.      *)
EXTENDS EmailServer

MCWords ==
    { "", "CR", "LF", "DOT", "EHLO", "AUTH PLAIN", "AUTH CRAM-MD5", "To1", "To2",
      "email", "test", "com", "test1", "test2", "pass1", "1" }

MCDomain == << "email", "test", "com" >>

Addr(user) == [user |-> user, host |-> << "test", "com" >>, blanks |-> FALSE]

MCBase64Text == << >>

MCToHeader == [To1 |-> Addr("test1"), To2 |-> Addr("test2")]

MCUsers ==
    {[userName_ |-> Addr("test1"),
      userPassword_ |-> [user |-> "pass1", host |-> << >>, blanks |-> FALSE]]}

MCChunks ==
    { << "EHLO", "CR", "LF" >>,
      << "AUTH PLAIN", "CR", "LF" >>,
      << "AUTH CRAM-MD5", "CR", "LF" >>,
      << "To1", "CR", "LF", "CR" >>,
      << "To2", "CR", "LF", "CR" >>,
      << "LF", "DOT", "CR", "LF" >> }

Command(word, spaced, arg, number) ==
    [word |-> word, spaced |-> spaced, arg |-> arg, number |-> number]

MCRequests ==
    { Command("USER", TRUE, [user |-> "test1", host |-> << >>, blanks |-> FALSE], 0),
      Command("PASS", TRUE, [user |-> "pass1", host |-> << >>, blanks |-> FALSE], 0),
      Command("LIST", TRUE, EmptyText, 0),
      Command("RETR", TRUE, [user |-> "1", host |-> << >>, blanks |-> FALSE], 1),
      Command("QUIT", FALSE, EmptyText, 0) }

=============================================================================

------------------------ MODULE MCPop3ServerHandler ------------------------
(* Two POP3 sessions, two users, and mails that arrive while they read.    *)
EXTENDS Pop3ServerHandler

MCWords ==
    { "", "CR", "LF", "DOT", "email", "test", "com", "test1", "test2", "pass1", "pass2", "1", "3" }

MCDomain == << "email", "test", "com" >>

Name(user) == [user |-> user, host |-> << >>, blanks |-> FALSE]

Addr(user) == [user |-> user, host |-> << "test", "com" >>, blanks |-> FALSE]

MCUsers ==
    { [userName_ |-> Addr("test1"), userPassword_ |-> Name("pass1")],
      [userName_ |-> Addr("test2"), userPassword_ |-> Name("pass2")] }

Command(word, spaced, arg, number) ==
    [word |-> word, spaced |-> spaced, arg |-> arg, number |-> number]

MCRequests ==
    { Command("CAPA", FALSE, EmptyText, 0),
      Command("USER", TRUE, Name("test1"), 0),
      Command("USER", TRUE, Addr("test2"), 0),
      Command("PASS", TRUE, Name("pass1"), 0),
      Command("LIST", TRUE, EmptyText, 0),
      Command("LIST", FALSE, EmptyText, 0),
      Command("RETR", TRUE, Name("1"), 1),
      Command("RETR", TRUE, Name("3"), 3),
      Command("STAT", FALSE, EmptyText, 0),
      Command("QUIT", FALSE, EmptyText, 0) }

MCNone == << >>

MCNewMails == {[receiver |-> Addr("test1")], [receiver |-> Addr("test2")]}

Symmetry == Permutations(Readers)

=============================================================================

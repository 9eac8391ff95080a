---------------------------- MODULE MCMailSender ----------------------------
(* One client that logs in with the right password, with a wrong one, in the *)
(* short way or with a method that is refused; nobody reads.               *)
EXTENDS MailSender

mc_Words ==
    { "", "CR", "LF", "DOT", "EHLO", "AUTH LOGIN", "AUTH PLAIN", "AUTH CRAM-MD5", "To1",
      "dGVzdDE", "cGFzcw", "email", "test", "com", "test1", "pass", "MAIL", "RCPT", "DATA" }

mc_Domain == << "email", "test", "com" >>

mc_User1 == [user |-> "test1", host |-> << "test", "com" >>, blanks |-> FALSE]

mc_Base64Text ==
    [ dGVzdDE |-> [user |-> "test1", host |-> << >>, blanks |-> FALSE],
      cGFzcw  |-> [user |-> "pass", host |-> << >>, blanks |-> FALSE] ]

mc_ToHeader == [To1 |-> mc_User1]

mc_Users ==
    {[userName_ |-> mc_User1,
      userPassword_ |-> [user |-> "pass", host |-> << >>, blanks |-> FALSE]]}

Line(word) == << word, "CR", "LF" >>

Login(password) ==
    << Line("EHLO"), Line("AUTH LOGIN"), Line("dGVzdDE"), Line(password) >>

Mail ==
    << Line("MAIL"), Line("RCPT"), Line("DATA"),
       << "To1", "CR", "LF", "CR", "LF", "test" >>, << "CR", "LF", "DOT", "CR", "LF" >> >>

mc_Scripts ==
    { Login("cGFzcw") \o Mail, Login("dGVzdDE") \o Mail,
      << Line("EHLO"), Line("AUTH PLAIN") >> \o Mail,
      << Line("EHLO"), Line("AUTH CRAM-MD5") >> \o Mail }

=============================================================================

------------------------ MODULE MCSmtpServerHandler ------------------------
(* One SMTP session whose reads cut a mail in many ways, and which may log *)
(* in by name, or by an address that ends with a line break.               *)
EXTENDS SmtpServerHandler

MCWords ==
    { "", "CR", "LF", "DOT", "EHLO", "AUTH LOGIN", "AUTH PLAIN", "AUTH CRAM-MD5", "To1",
      "dGVzdDE", "dGVzdDFAdGVzdC5jb20NCg", "cGFzcw", "email", "test", "com", "test1", "pass" }

MCDomain == << "email", "test", "com" >>

MCUser1 == [user |-> "test1", host |-> << "test", "com" >>, blanks |-> FALSE]

MCBase64Text ==
    [ dGVzdDE |-> [user |-> "test1", host |-> << >>, blanks |-> FALSE],
      dGVzdDFAdGVzdC5jb20NCg |-> [MCUser1 EXCEPT !.blanks = TRUE],
      cGFzcw  |-> [user |-> "pass", host |-> << >>, blanks |-> FALSE] ]

MCToHeader == [ To1 |-> MCUser1 ]

MCUsers ==
    {[userName_ |-> MCUser1,
      userPassword_ |-> [user |-> "pass", host |-> << >>, blanks |-> FALSE]]}

MCChunks ==
    { << "EHLO", "CR", "LF" >>,
      << "AUTH LOGIN", "CR", "LF" >>,
      << "AUTH PLAIN", "CR", "LF" >>,
      << "AUTH CRAM-MD5", "CR", "LF" >>,
      << "dGVzdDE", "CR", "LF" >>,
      << "dGVzdDFAdGVzdC5jb20NCg", "CR", "LF" >>,
      << "cGFzcw", "CR", "LF" >>,
      << "To1", "CR", "LF", "CR" >>,
      << "LF", "DOT", "CR" >>,
      << "LF" >>,
      << "CR", "LF", "DOT", "CR", "LF" >> }

=============================================================================

------------------------ MODULE MCImapServerHandler ------------------------
(* Lines with and without an argument, cut after their tag or before their  *)
(* last character, and two lines that arrive in one read.                   *)
EXTENDS ImapServerHandler

Line(cmd) == << "tag", "SP", cmd, "CR", "LF" >>
LineWith(cmd) == << "tag", "SP", cmd, "SP", "word", "CR", "LF" >>

MCChunks ==
    { Line("CAPABILITY"), LineWith("LOGIN"), LineWith("SELECT"), LineWith("EXAMINE"),
      LineWith("SEARCH"), LineWith("FETCH"), LineWith("LIST"), Line("LOGOUT"),
      << "tag", "SP", "NOOP", "CR" >>, << "LF" >>, << "tag", "SP" >>,
      LineWith("SELECT") \o << "tag", "SP", "LOGOUT", "CR" >>,
      Line("NOOP") \o Line("LOGOUT") }

=============================================================================

----------------------------- MODULE MCMailText -----------------------------
(* The helpers keep no state, so three inputs grow apart: a line of single *)
(* characters; a mail of larger pieces, with and without a header, a blank *)
(* line and something behind its end; and bytes, those without any bit and *)
(* with all of them, the last small letter and "=".                        *)
EXTENDS MailText, Base64

VARIABLE growing   \* what grows: "line", "mail" or "bytes"

mc_Characters == {<< x >> : x \in {"CR", "LF", "SP", ":", "<", ">", "a"}}

mc_MailPieces ==
    { << "To", ":", "SP", "a" >>, << "From", ":", "SP", "a" >>, << "DOT" >>, << "CR" >>,
      CRLF, << "CR", "LF", "a" >>, << "CR", "LF", "DOT", "CR", "LF", "a", "CR", "LF" >> }

mc_Pieces == mc_Characters \cup mc_MailPieces

mc_LineSize == 6

MCInit == TextInit /\ InputInit /\ growing \in {"line", "mail", "bytes"}

MCNext ==
    /\ UNCHANGED growing
    /\ \/ /\ growing = "line" /\ Len(text) < mc_LineSize /\ UNCHANGED input
          /\ \E piece \in mc_Characters : Receive(piece)
       \/ /\ growing = "mail" /\ UNCHANGED input
          /\ \E piece \in mc_MailPieces : Receive(piece)
       \/ /\ growing = "bytes" /\ UNCHANGED text
          /\ InputNext

MCSpec == MCInit /\ [][MCNext]_<< text, input, growing >>

mc_Samples == {0, 61, 122, 255}

mc_Stale == {0, 255}

mc_Base64Text == [x \in {} |-> EmptyText]
mc_ToHeader   == [x \in {} |-> EmptyText]
mc_Domain     == << "a", "a" >>

mc_Words == {"", "CR", "LF", "DOT", "SP", "To", "From", ":", "<", ">", "a"}

=============================================================================

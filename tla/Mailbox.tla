------------------------------ MODULE Mailbox ------------------------------
(***************************************************************************)
(* What the mail table holds for a user and what a reader gets from it.    *)
(* A mail is named by its row number, the ID sqlite gives it; a row has at *)
(* least the field receiver.                                               *)
(***************************************************************************)
EXTENDS Integers, Sequences

\* WHERE RECEIVER_EMAIL == user
Received(table, user) == {i \in DOMAIN table : table[i].receiver = user}

\* The query steps through the rows in the order of their ID: what it returns,
\* when it stops early as well, is a gapless beginning of the user's mails.
IsListing(list, table, user) ==
    /\ \A i \in DOMAIN list : list[i] \in Received(table, user)
    /\ \A i, j \in DOMAIN list : i < j => list[i] < list[j]
    /\ \A i \in DOMAIN list, k \in Received(table, user) :
          k < list[i] => \E j \in DOMAIN list : list[j] = k

Listings(table, user) ==
    {list \in UNION {[1 .. n -> DOMAIN table] : n \in 0 .. Len(table)} :
        IsListing(list, table, user)}

=============================================================================

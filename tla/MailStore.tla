----------------------------- MODULE MailStore -----------------------------
(***************************************************************************)
(* What the mail server promises about mails, whatever the protocols:      *)
(* mails are appended to one store and never change, and a reader sees a   *)
(* numbered list of the mails of one user, a gapless beginning of them,    *)
(* that changes only when the reader looks again.                          *)
(***************************************************************************)
EXTENDS Mailbox

CONSTANTS
    Readers,
    Addresses,   \* the addresses a mail can have
    Contents     \* what a mail can say

Mail == [receiver : Addresses, context : Contents]

VARIABLES
    store,     \* the mails, in the order they arrived
    owner,     \* the user a reader reads for
    view       \* the numbered list a reader has

vars == << store, owner, view >>

Init ==
    /\ store = << >>
    /\ owner \in [Readers -> Addresses]
    /\ view = [r \in Readers |-> << >>]

\* One mail is appended.
Deliver ==
    /\ store' \in Seq(Mail)
    /\ Len(store') = Len(store) + 1
    /\ \A i \in DOMAIN store : store'[i] = store[i]
    /\ UNCHANGED << owner, view >>

\* A reader names its user before it has looked at anything.
NameUser(r) ==
    /\ view[r] = << >>
    /\ owner' \in [Readers -> Addresses]
    /\ \A q \in Readers \ {r} : owner'[q] = owner[q]
    /\ UNCHANGED << store, view >>

Look(r) ==
    /\ \E list \in Listings(store, owner[r]) : view' = [view EXCEPT ![r] = list]
    /\ UNCHANGED << store, owner >>

Next ==
    \/ Deliver
    \/ \E r \in Readers : NameUser(r) \/ Look(r)

Spec == Init /\ [][Next]_vars

----------------------------------------------------------------------------
TypeOK ==
    /\ store \in Seq(Mail)
    /\ owner \in [Readers -> Addresses]
    /\ view \in [Readers -> Seq(Nat)]

\* What a reader has is always a gapless beginning of the mails of its user.
ViewsAreListings ==
    \A r \in Readers : IsListing(view[r], store, owner[r])

\* Mails are neither lost nor changed.
StoreGrows ==
    [][Len(store) <= Len(store') /\ \A i \in DOMAIN store : store'[i] = store[i]]_store

=============================================================================

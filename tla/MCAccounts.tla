----------------------------- MODULE MCAccounts -----------------------------
(***************************************************************************)
(* UserAccounts for TLC, with history variables that remember which races  *)
(* have happened: the properties below say what holds without them.        *)
(***************************************************************************)
EXTENDS UserAccounts, TLC

VARIABLES
    ban,       \* per id: the ban or unban last committed, and the requests that had read
               \* the user before and were still to save him
    presented, \* confirmation codes accepted in a request
    torn       \* users deleted while a request still had them in hand

history == <<ban, presented, torn>>

\* Requests with an entity of user u in hand.
InHand(u) == {r \in Requests : req[r].id = u /\ req[r].pc \in {"load", "save", "commit"}}
\* Only users the administrator created have no confirmation code.
ByAdmin == {u \in Id : users[u].confirmationCode = 0}

NotBanned == [isBanned |-> FALSE, raced |-> {}]

HInit ==
    /\ Init
    /\ ban = [u \in Id |-> NotBanned]
    /\ presented = {}
    /\ torn = {}

\* A command that found nothing to change, and does not leave the row as it says because it
\* was overtaken by another, leaves it as uncertain as it was.
HCommitBan(r) ==
    LET u == req[r].id
        before == IF users'[u].isBanned = req[r].ent.isBanned THEN {} ELSE ban[u].raced
    IN
    /\ CommitBan(r)
    /\ ban' = [ban EXCEPT ![u] = [isBanned |-> req[r].ent.isBanned,
                                  raced |-> before \cup (InHand(u) \ {r})]]
    /\ UNCHANGED <<presented, torn>>

HConfirm(r, code) ==
    /\ ConfirmRegistration(r, code)
    /\ presented' = presented \cup {code}
    /\ UNCHANGED <<ban, torn>>

HDelete(u) ==
    /\ DeleteUser(u)
    /\ torn' = IF InHand(u) = {} THEN torn ELSE torn \cup {u}
    /\ ban' = [ban EXCEPT ![u] = NotBanned]
    /\ UNCHANGED presented

HNext ==
    \/ \E r \in Requests : HCommitBan(r)
    \/ \E r \in Requests, m \in mailed : HConfirm(r, m[3])
    \/ \E u \in Id : HDelete(u)
    \/ /\ \/ \E n \in Names : CreateUserByAdmin(n)
          \/ \E r \in Requests :
                \/ \E n \in Names : \/ Register(r, n) \/ ResendConfirmationCode(r, n)
                                    \/ PasswordRecovery(r, n)
                \/ \E m \in mailed : NewPassword(r, m[3])
                \/ \E u \in Id, isBanned \in BOOLEAN : BanUnbanUser(r, u, isBanned)
                \/ FindByEmail(r) \/ CreateUser(r) \/ LoadUser(r) \/ SaveUser(r)
                \/ SendMail(r) \/ WriteBan(r) \/ Fail(r)
       /\ UNCHANGED history

HSpec == HInit /\ [][HNext]_<<vars, history>>

\* A ban or unban lasts: the user stays as the last committed command left him, whatever
\* he does afterwards, unless a request that had read him before was still to save him.
\* (A user who was deleted under a request may come back in any shape.)
BanLasts ==
    \A u \in Id \ torn : Present(u) /\ ban[u].raced = {} => users[u].isBanned = ban[u].isBanned

\* Nobody who registered is confirmed without a code mailed to him having been presented,
\* whichever stale copies of his row were saved.
ConfirmedByOwner ==
    \A u \in Id \ ByAdmin : users[u].isConfirmed =>
        \E c \in presented : <<"confirmation", users[u].login, c>> \in mailed

Symmetry == Permutations(Requests)

=============================================================================

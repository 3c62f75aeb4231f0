------------------------------- MODULE MCBans -------------------------------
(***************************************************************************)
(* Bans, unbans and the deletion of users, against logins and refreshes.   *)
(* The history variable raced remembers whose last ban overlapped with a   *)
(* request of the banned user.                                             *)
(***************************************************************************)
EXTENDS DeviceSessions, TLC

VARIABLE raced

InFlight(u) == {r \in Requests : req[r].userId = u}

\* Some request of the user is unanswered when the ban commits, or was answered between
\* the ban's DELETE and its commit and left a session behind.
Raced(a) == InFlight(ban[a].userId) # {} \/ DevicesOf(ban[a].userId) # ban[a].rows

BanInit == Init /\ raced = [u \in Users |-> FALSE]

BanNext ==
    \/ \E a \in Admins :
          /\ CommitBan(a)
          /\ raced' = IF ban[a].isBanned THEN [raced EXCEPT ![ban[a].userId] = Raced(a)]
                      ELSE raced
    \/ /\ \/ \E r \in Requests : RequestStep(r)
          \/ \E a \in Admins :
                \/ \E u \in Users, isBanned \in BOOLEAN : BanUnbanUser(a, u, isBanned)
                \/ LoadUser(a) \/ UpdateUser(a) \/ DeleteAllDevices(a) \/ FailBan(a)
          \/ \E u \in Users : DeleteUser(u)
          \/ Tick
       /\ UNCHANGED raced

BanSpec == BanInit /\ [][BanNext]_<<vars, raced>>

\* A ban ends every session of the user, and none comes up while he stays banned, unless a
\* login or refresh of his was under way during the ban's transaction (such a session
\* survives the ban, and refreshing it does not look at isBanned).
BanEndsSessions ==
    \A u \in Users : users[u] = "banned" /\ ~raced[u] => DevicesOf(u) = {}

Symmetry == Permutations(Requests) \cup Permutations(Admins)

=============================================================================

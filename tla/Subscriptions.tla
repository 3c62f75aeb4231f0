---------------------------- MODULE Subscriptions ----------------------------
(***************************************************************************)
(* Subscriptions to blogs (src/src/feature/blogs) and the listener that    *)
(* tells subscribers of a new post.  The event is emitted in the process,  *)
(* the listener is not awaited and neither are the messages it sends: a    *)
(* failure of either is an unhandled rejection, which ends the process     *)
(* unless Node was told otherwise.  Blogs and users with subscriptions     *)
(* cannot be deleted (foreign keys).                                       *)
(***************************************************************************)
EXTENDS Integers

CONSTANTS
    Users, Blogs,
    MaxSub,    \* bound on the ids of BlogSubscribers
    Requests,  \* requests and listeners in flight at once
    Faulty,    \* requests whose statements may fail
    None       \* a row that is not yet there

SubscriptionsConstants ==
    /\ MaxSub \in Nat \ {0}
    /\ Faulty \subseteq Requests
    /\ None \notin Users \cup Blogs \cup Int

VARIABLES
    account,  \* of each user (module TelegramAccounts): none, unlinked, or linked to a chat
    subs,     \* rows of "BlogSubscribers", by id
    lastSub,  \* last id of the table
    req,      \* state of each request or listener
    outbox    \* messages handed to the HTTP client and not answered: blog and user

tables == <<account, subs, lastSub>>
vars == <<tables, req, outbox>>

Account == {"none", "unlinked", "linked"}
Status == {"Subscribed", "Unsubscribed"}
SubId == 1..MaxSub
SubRow == [blog: Blogs, user: Users, status: Status]
NoSub == [blog |-> None, user |-> None, status |-> "Unsubscribed"]

Request ==
    [pc: {"idle"}]
    \cup [pc: {"saveSub"}, id: SubId \cup {None}, ent: SubRow]
    \cup [pc: {"inform"}, blog: Blogs]
    \cup [pc: {"informing"}, blog: Blogs, left: SUBSET (Users \X Account)]
Idle == [pc |-> "idle"]

TypeOK ==
    /\ account \in [Users -> Account]
    /\ subs \in [SubId -> SubRow \cup {NoSub}]
    /\ lastSub \in 0..MaxSub
    /\ req \in [Requests -> Request]
    /\ outbox \subseteq Blogs \X Users

Init ==
    /\ account \in [Users -> Account]
    /\ subs = [s \in SubId |-> NoSub]
    /\ lastSub = 0
    /\ req = [r \in Requests |-> Idle]
    /\ outbox = {}

Await(r, state) == req' = [req EXCEPT ![r] = state]
Answer(r) == Await(r, Idle)
At(r, pc) == req[r].pc = pc

FindSubscriberOfBlog(b, u) == {s \in SubId : subs[s].blog = b}  \* mutant: of any user
FindSubscriberByBlogIdAndUserId(b, u) == {s \in SubId : subs[s].blog = b /\ subs[s].user = u}

SubscribeUserToBlog(r, b, u) ==
    LET found == FindSubscriberByBlogIdAndUserId(b, u) IN
    /\ At(r, "idle")
    /\ \E s \in IF found = {} THEN {None} ELSE found :
            Await(r, [pc |-> "saveSub", id |-> s,
                      ent |-> [blog |-> b, user |-> u, status |-> "Subscribed"]])
    /\ UNCHANGED <<tables, outbox>>

UnsubscribeUserToBlog(r, b, u) ==
    /\ At(r, "idle")
    /\ \E s \in FindSubscriberByBlogIdAndUserId(b, u) :
            Await(r, [pc |-> "saveSub", id |-> s,
                      ent |-> [subs[s] EXCEPT !.status = "Unsubscribed"]])
    /\ UNCHANGED <<tables, outbox>>

SaveSubscriber(r) ==
    LET s == IF req[r].id = None THEN lastSub + 1 ELSE req[r].id IN
    /\ At(r, "saveSub") /\ s <= MaxSub
    /\ subs' = [subs EXCEPT ![s] = req[r].ent]
    /\ lastSub' = IF s > lastSub THEN s ELSE lastSub
    /\ Answer(r)
    /\ UNCHANGED <<account, outbox>>

\* CreatePostByBlogId (module Blogs) emits the event once the post is inserted: the listener
\* starts at once.
PostCreated(r, b) ==
    /\ At(r, "idle")
    /\ Await(r, [pc |-> "inform", blog |-> b])
    /\ UNCHANGED <<tables, outbox>>

\* Active subscribers with their accounts, as one query reads them.
FindActiveSubscribesByBlogId(b) ==
    {<<subs[s].user, account[subs[s].user]>> :
        s \in {s \in SubId : subs[s].blog = b /\ subs[s].status = "Subscribed"}}

InformSubscribers(r) ==
    LET b == req[r].blog IN
    /\ At(r, "inform")
    /\ Await(r, [pc |-> "informing", blog |-> b, left |-> FindActiveSubscribesByBlogId(b)])
    /\ UNCHANGED <<tables, outbox>>

\* The process starts anew: all requests, listeners and messages in flight are lost.
Restart ==
    /\ req' = [r \in Requests |-> Idle]
    /\ outbox' = {}

\* The loop runs to its end without an await, over the rows in any order, or up to a
\* subscriber without an account: reading telegramId of null throws.
Inform(r) ==
    LET b == req[r].blog
        broken == {ua \in req[r].left : ua[2] = "none"}
        sendTo(uas) == outbox \cup {<<b, ua[1]>> : ua \in {ua \in uas : ua[2] = "linked"}}
    IN
    /\ At(r, "informing")
    /\ \/ /\ broken = {}
          /\ outbox' = sendTo(req[r].left)
          /\ Answer(r)
       \/ /\ broken # {}
          /\ \E before \in SUBSET (req[r].left \ broken) : outbox' = sendTo(before)
          /\ Answer(r)
       \/ broken # {} /\ Restart
    /\ UNCHANGED tables

\* Telegram takes the message, or refuses it: the rejection is handled by nobody.
Delivered(m) ==
    /\ m \in outbox
    /\ outbox' = outbox \ {m}
    /\ UNCHANGED <<tables, req>>
Refused(m) ==
    /\ m \in outbox
    /\ Restart
    /\ UNCHANGED tables

\* Module TelegramAccounts: a link is made, a chat confirms it, an overlapping ban undoes it.
AccountChanges(u) ==
    /\ \E state \in Account : account' = [account EXCEPT ![u] = state]
    /\ UNCHANGED <<subs, lastSub, req, outbox>>

Fail(r) ==
    /\ ~At(r, "idle") /\ r \in Faulty
    /\ Answer(r)
    /\ UNCHANGED <<tables, outbox>>

Begin(r) ==
    \/ \E b \in Blogs, u \in Users : SubscribeUserToBlog(r, b, u) \/ UnsubscribeUserToBlog(r, b, u)
    \/ \E b \in Blogs : PostCreated(r, b)

Listen(r) == InformSubscribers(r) \/ Inform(r)

Next ==
    \/ \E r \in Requests : Begin(r) \/ SaveSubscriber(r) \/ Listen(r) \/ Fail(r)
    \/ \E m \in Blogs \X Users : Delivered(m) \/ Refused(m)
    \/ \E u \in Users : AccountChanges(u)

Spec == Init /\ [][Next]_vars

RowsOf(b, u) == {s \in SubId : subs[s].blog = b /\ subs[s].user = u}
\* Requests that are to subscribe the user, or to change the row of his subscription.
Changing(b, u) == {r \in Requests : req[r].pc = "saveSub" /\ req[r].ent.blog = b /\ req[r].ent.user = u}
\* Listeners that have read the subscribers of the blog.
Informing(b) == {r \in Requests : req[r].pc = "informing" /\ req[r].blog = b}

=============================================================================

------------------------ MODULE DeviceSessionsProofs ------------------------
(***************************************************************************)
(* Theorems about DeviceSessions, for any number of users, devices,        *)
(* requests and ban commands.  The inductive invariant says what a request *)
(* holds at each of its program points (Shape), to whom every session ever *)
(* started belongs (Claim), and where the date of a row comes from (Dated, *)
(* Sourced).                                                               *)
(*                                                                         *)
(* With the history of MCBans: while a user is banned no request of his    *)
(* can bring a session up, or one was under way during the ban (BInv).     *)
(***************************************************************************)
EXTENDS MCBans, TLAPS

\* What a request has in hand at each of its steps.
Shape(s) ==
    /\ s.pc # "idle" => s.userId \in Users
    /\ s.pc \in {"verify", "findUser", "findTarget", "delete"} =>
          s.token \in issued /\ s.token.userId = s.userId
    /\ s.pc = "verify" => s.op \in TokenOperations
    /\ s.pc = "findUser" => s.target = s.token.deviceId
    /\ s.pc \in {"sign", "findTarget"} => s.target \in Devices
    /\ s.pc \in {"find", "load", "write", "respond"} =>
          s.token \in Token /\ s.token.userId = s.userId /\ s.token.deviceId = s.target

Renews == {"sign", "find", "load", "write", "respond"}

\* User u is known to own session d: from a token sent, from a request that is renewing
\* the session, or from the row itself.
Claim(u, d) ==
    \/ \E t \in issued : t.userId = u /\ t.deviceId = d
    \/ \E r \in Requests : /\ req[r].pc \in Renews
                           /\ req[r].userId = u /\ req[r].target = d
    \/ device[d].userId = u

\* Only sessions that were started are claimed, and by one user.
Claimed == \A d \in Devices, u \in Users : Claim(u, d) => d \in taken
OneOwner == \A d \in Devices, u, v \in Users : Claim(u, d) /\ Claim(v, d) => u = v

HasDate(d) == Present(d) => device[d].lastActiveDate # 0

\* A request that found its row unchanged, or has saved it, left a date in it.
Dated(s) == s.pc = "respond" \/ (s.pc = "write" /\ s.found /\ ~s.changed) => HasDate(s.target)

\* A date in a row is the issue time of a token that was sent, or is about to be.
RowToken(d) == [userId |-> device[d].userId, deviceId |-> d,
                iat |-> device[d].lastActiveDate]
Sourced(d) ==
    Present(d) => \/ device[d].lastActiveDate = 0
                  \/ RowToken(d) \in issued
                  \/ \E r \in Requests : req[r].pc = "respond" /\ req[r].token = RowToken(d)

\* A ban command under way has a user in hand.
Banning == \A a \in Admins : ban[a].pc # "idle" => ban[a].userId \in Users

IInv ==
    /\ TypeOK
    /\ \A r \in Requests : Shape(req[r])
    /\ Claimed /\ OneOwner
    /\ IssuedTokenHasDate
    /\ \A r \in Requests : Dated(req[r])
    /\ \A d \in Devices : Sourced(d)

-----------------------------------------------------------------------------
\* A request that is done, or has not begun, holds nothing.
LEMMA IdleShape ==
    /\ IdleRequest \in Request
    /\ Shape(IdleRequest) /\ Dated(IdleRequest)
    /\ IdleRequest.pc = "idle" /\ IdleRequest.pc \notin Renews
BY DEF IdleRequest, Request, RequestPC, Shape, Dated, Renews, NoToken

\* Steps that start no session and save none: rows stay or go, nothing is issued, and a
\* request that moves claims no session it had no claim to and was not about to answer.
LEMMA Frame ==
    ASSUME IInv, TypeOK',
           UNCHANGED <<taken, issued>>,
           \A d \in Devices : device'[d] = device[d] \/ device'[d] = NoDevice,
           \A r \in Requests : \/ req'[r] = req[r]
                               \/ /\ req[r].pc # "respond"
                                  /\ Shape(req'[r]) /\ Dated(req'[r])
                                  /\ req'[r].pc \in Renews =>
                                        Claim(req'[r].userId, req'[r].target)
    PROVE  IInv'
<1>1. \A d \in Devices : Present(d)' => Present(d) /\ device'[d] = device[d]
  BY DEF Present
<1>2. \A r \in Requests : Shape(req[r])'
  <2> TAKE r \in Requests
  <2>1. CASE req'[r] = req[r]
    BY <2>1 DEF IInv, Shape
  <2>2. CASE Shape(req'[r])
    BY <2>2 DEF Shape
  <2> QED BY <2>1, <2>2
<1>3. \A u \in Users, d \in Devices : Claim(u, d)' => Claim(u, d)
  <2> SUFFICES ASSUME NEW u \in Users, NEW d \in Devices, Claim(u, d)'
               PROVE  Claim(u, d)
    OBVIOUS
  <2>1. CASE \E t \in issued : t.userId = u /\ t.deviceId = d
    BY <2>1 DEF Claim
  <2>2. CASE \E r \in Requests : req'[r].pc \in Renews /\ req'[r].userId = u /\ req'[r].target = d
    BY <2>2 DEF Claim
  <2>3. CASE device'[d].userId = u
    <3>1. u # None
      BY SessionConstants
    <3>2. device'[d] = device[d]
      BY <2>3, <3>1 DEF NoDevice
    <3> QED BY <3>2, <2>3 DEF Claim
  <2> QED BY <2>1, <2>2, <2>3 DEF Claim
<1>4. Claimed' /\ OneOwner'
  BY <1>3 DEF IInv, Claimed, OneOwner
<1>5. IssuedTokenHasDate'
  <2> SUFFICES ASSUME NEW t \in issued, Present(t.deviceId)'
               PROVE  device'[t.deviceId].lastActiveDate # 0
    BY DEF IssuedTokenHasDate
  <2>1. t.deviceId \in Devices
    BY DEF IInv, TypeOK, Token
  <2> QED BY <1>1, <2>1 DEF IInv, IssuedTokenHasDate
<1>6. \A r \in Requests : Dated(req[r])'
  <2> SUFFICES ASSUME NEW r \in Requests PROVE Dated(req[r])'
    OBVIOUS
  <2>1. Dated(req'[r])
    BY DEF IInv
  <2> DEFINE saved == req'[r].pc = "respond" \/ (req'[r].pc = "write" /\ req'[r].found
                                                 /\ ~req'[r].changed)
  <2>2. saved => req'[r].target \in Devices
    BY <1>2 DEF Shape, Token
  <2>3. saved => HasDate(req'[r].target)
    BY <2>1 DEF Dated
  <2> QED BY <1>1, <2>2, <2>3 DEF Dated, HasDate
<1>7. \A d \in Devices : Sourced(d)'
  <2> SUFFICES ASSUME NEW d \in Devices, Present(d)', device'[d].lastActiveDate # 0,
                      RowToken(d)' \notin issued
               PROVE  \E r \in Requests : req'[r].pc = "respond" /\ req'[r].token = RowToken(d)'
    BY DEF Sourced
  <2>1. RowToken(d)' = RowToken(d) /\ Present(d) /\ device'[d] = device[d]
    BY <1>1 DEF RowToken
  <2>2. PICK r \in Requests : req[r].pc = "respond" /\ req[r].token = RowToken(d)
    BY <2>1 DEF IInv, Sourced
  <2>3. req'[r] = req[r]
    BY <2>2
  <2> QED BY <2>1, <2>2, <2>3
<1> QED BY <1>2, <1>4, <1>5, <1>6, <1>7 DEF IInv


-----------------------------------------------------------------------------
\* A request reads, checks or signs: only its own state changes.
LEMMA Moves ==
    ASSUME IInv, NEW r \in Requests, NEW s \in Request, Step(r, s),
           req[r].pc # "respond", Shape(s), Dated(s),
           s.pc \in Renews => Claim(s.userId, s.target),
           UNCHANGED <<users, device, taken, clock, issued, ban>>
    PROVE  IInv'
<1>1. req'[r] = s /\ \A q \in Requests \ {r} : req'[q] = req[q]
  BY DEF IInv, TypeOK, Step
<1>2. TypeOK'
  BY DEF IInv, TypeOK, Step
<1> QED BY <1>1, <1>2, Frame

LEMMA Stops ==
    ASSUME IInv, NEW r \in Requests, req[r].pc # "respond", Stop(r),
           UNCHANGED <<users, device, taken, clock, issued, ban>>
    PROVE  IInv'
BY IdleShape, Moves DEF Stop

\* A request's own state in the cases the actions distinguish.
LEMMA InHand ==
    ASSUME IInv, NEW r \in Requests
    PROVE  /\ req[r] \in Request /\ Shape(req[r]) /\ Dated(req[r])
           /\ req[r].pc \in Renews => /\ req[r].target \in Devices /\ req[r].userId \in Users
                                      /\ Claim(req[r].userId, req[r].target)
<1>1. req[r] \in Request /\ Shape(req[r]) /\ Dated(req[r])
  BY DEF IInv, TypeOK
<1>2. req[r].pc \in Renews => req[r].target \in Devices /\ req[r].userId \in Users
  BY <1>1 DEF Shape, Renews, Token
<1>3. req[r].pc \in Renews => Claim(req[r].userId, req[r].target)
  BY DEF Claim
<1> QED BY <1>1, <1>2, <1>3

LEMMA LoginPreserves ==
    ASSUME IInv, NEW r \in Requests, NEW u \in Users, Login(r, u)
    PROVE  IInv'
<1> DEFINE s == [IdleRequest EXCEPT !.pc = "insert", !.op = "login", !.userId = u]
<1>1. s \in Request /\ Shape(s) /\ Dated(s) /\ s.pc \notin Renews
  BY DEF IdleRequest, Request, RequestPC, Operations, Shape, Dated, Renews, NoToken
<1> QED BY <1>1, Moves DEF Login

LEMMA PresentTokenPreserves ==
    ASSUME IInv, NEW r \in Requests, NEW t \in issued, NEW op \in TokenOperations,
           PresentToken(r, t, op)
    PROVE  IInv'
<1> DEFINE s == [IdleRequest EXCEPT !.pc = "verify", !.op = op, !.userId = t.userId,
                                    !.token = t]
<1>1. t \in Token /\ t.userId \in Users
  BY DEF IInv, TypeOK, Token
<1>2. s \in Request /\ Shape(s) /\ Dated(s) /\ s.pc \notin Renews
  BY <1>1 DEF IdleRequest, Request, RequestPC, Operations, TokenOperations, Shape, Dated,
              Renews, NoToken
<1> QED BY <1>2, Moves DEF PresentToken

LEMMA VerifyTokenPreserves ==
    ASSUME IInv, NEW r \in Requests, VerifyToken(r)
    PROVE  IInv'
<1>1. /\ req[r].pc = "verify" /\ req[r].op \in TokenOperations /\ req[r].userId \in Users
      /\ req[r] \in Request /\ req[r].token \in issued /\ req[r].token.userId = req[r].userId
  BY InHand DEF VerifyToken, Shape
<1>2. req[r].token \in Token
  BY <1>1 DEF IInv, TypeOK
<1>3. CASE Verifies(req[r].token)
  <2>1. PICK d \in Targets(r) :
            Step(r, [req[r] EXCEPT !.pc = AfterVerify[req[r].op], !.target = d])
    BY <1>3 DEF VerifyToken
  <2> DEFINE s == [req[r] EXCEPT !.pc = AfterVerify[req[r].op], !.target = d]
  <2>2. d \in Devices /\ (req[r].op # "deleteOne" => d = req[r].token.deviceId)
    BY <1>2 DEF Targets, Token
  <2>3. /\ AfterVerify[req[r].op] \in {"findUser", "delete", "findTarget"}
        /\ AfterVerify[req[r].op] = "findUser" => req[r].op # "deleteOne"
    BY <1>1 DEF AfterVerify, TokenOperations, Operations
  <2>4. s \in Request
    BY <1>1, <2>2, <2>3 DEF Request, RequestPC
  <2>5. Shape(s) /\ Dated(s) /\ s.pc \notin Renews
    BY <1>1, <2>2, <2>3 DEF Shape, Dated, Renews, Request
  <2> QED BY <1>1, <2>1, <2>4, <2>5, Moves DEF VerifyToken
<1>4. CASE ~Verifies(req[r].token)
  BY <1>1, <1>4, Stops DEF VerifyToken
<1> QED BY <1>3, <1>4

LEMMA FindUserPreserves ==
    ASSUME IInv, NEW r \in Requests, FindUser(r)
    PROVE  IInv'
<1>1. /\ req[r].pc = "findUser" /\ req[r] \in Request /\ req[r].userId \in Users
      /\ req[r].token \in issued /\ req[r].token.userId = req[r].userId
      /\ req[r].target = req[r].token.deviceId
  BY InHand DEF FindUser, Shape
<1>2. req[r].target \in Devices /\ Claim(req[r].userId, req[r].target)
  BY <1>1 DEF IInv, TypeOK, Token, Claim
<1> DEFINE s == [req[r] EXCEPT !.pc = "sign"]
<1>3. s \in Request /\ Shape(s) /\ Dated(s) /\ s.userId = req[r].userId /\ s.target = req[r].target
  BY <1>1, <1>2 DEF Request, RequestPC, Shape, Dated
<1>4. Stop(r) \/ Step(r, s)
  BY DEF FindUser
<1> QED BY <1>1, <1>2, <1>3, <1>4, Stops, Moves DEF FindUser

LEMMA CreateTokensPreserves ==
    ASSUME IInv, NEW r \in Requests, CreateTokens(r)
    PROVE  IInv'
<1>1. /\ req[r].pc = "sign" /\ req[r] \in Request /\ req[r].userId \in Users
      /\ req[r].target \in Devices /\ Claim(req[r].userId, req[r].target)
  BY InHand DEF CreateTokens, Shape, Renews
<1> DEFINE t == [userId |-> req[r].userId, deviceId |-> req[r].target, iat |-> clock]
           s == [req[r] EXCEPT !.pc = "find", !.token = t]
<1>2. t \in Token
  BY <1>1 DEF IInv, TypeOK, Token
<1>3. s \in Request /\ Shape(s) /\ Dated(s) /\ s.userId = req[r].userId /\ s.target = req[r].target
  BY <1>1, <1>2 DEF Request, RequestPC, Shape, Dated
<1> QED BY <1>1, <1>3, Moves DEF CreateTokens

LEMMA FindSessionPreserves ==
    ASSUME IInv, NEW r \in Requests, FindSession(r)
    PROVE  IInv'
<1>1. /\ req[r].pc = "find" /\ req[r] \in Request /\ req[r].userId \in Users
      /\ req[r].target \in Devices /\ Claim(req[r].userId, req[r].target)
      /\ req[r].token \in Token /\ req[r].token.userId = req[r].userId
      /\ req[r].token.deviceId = req[r].target
  BY InHand DEF FindSession, Shape, Renews
<1>2. CASE Present(req[r].target)
  <2> DEFINE s == [req[r] EXCEPT !.pc = "load"]
  <2>1. s \in Request /\ Shape(s) /\ Dated(s) /\ s.userId = req[r].userId /\ s.target = req[r].target
    BY <1>1 DEF Request, RequestPC, Shape, Dated
  <2> QED BY <1>1, <1>2, <2>1, Moves DEF FindSession
<1>3. CASE ~Present(req[r].target) /\ req[r].op = "login"
  <2> DEFINE s == [req[r] EXCEPT !.pc = "respond"]
  <2>1. s \in Request /\ Shape(s) /\ s.userId = req[r].userId /\ s.target = req[r].target
    BY <1>1 DEF Request, RequestPC, Shape
  <2>2. Dated(s)
    BY <1>3, <2>1 DEF Dated, HasDate
  <2> QED BY <1>1, <1>3, <2>1, <2>2, Moves DEF FindSession
<1>4. CASE ~Present(req[r].target) /\ req[r].op # "login"
  BY <1>1, <1>4, Stops DEF FindSession, Stop
<1> QED BY <1>2, <1>3, <1>4

LEMMA LoadDevicePreserves ==
    ASSUME IInv, NEW r \in Requests, LoadDevice(r)
    PROVE  IInv'
<1>1. /\ req[r].pc = "load" /\ req[r] \in Request /\ req[r].userId \in Users
      /\ req[r].target \in Devices /\ Claim(req[r].userId, req[r].target)
      /\ req[r].token \in Token /\ req[r].token.userId = req[r].userId
      /\ req[r].token.deviceId = req[r].target
  BY InHand DEF LoadDevice, Shape, Renews
<1> DEFINE d == req[r].target
           s == [req[r] EXCEPT !.pc = "write", !.found = Present(d),
                               !.changed = device[d].lastActiveDate # req[r].token.iat]
<1>2. Present(d) \in BOOLEAN /\ (device[d].lastActiveDate # req[r].token.iat) \in BOOLEAN
  BY DEF Present
<1>3. s \in Request /\ Shape(s) /\ s.userId = req[r].userId /\ s.target = d
  BY <1>1, <1>2 DEF Request, RequestPC, Shape
<1>4. s.changed = (device[d].lastActiveDate # req[r].token.iat) /\ s.pc = "write"
  BY <1>1 DEF Request
<1>5. Dated(s)
  <2>1. req[r].token.iat # 0
    BY <1>1 DEF Token, IInv, TypeOK
  <2> QED BY <1>3, <1>4, <2>1 DEF Dated, HasDate
<1> QED BY <1>1, <1>3, <1>5, Moves DEF LoadDevice

LEMMA FindTargetPreserves ==
    ASSUME IInv, NEW r \in Requests, FindTarget(r)
    PROVE  IInv'
<1>1. /\ req[r].pc = "findTarget" /\ req[r] \in Request /\ req[r].userId \in Users
      /\ req[r].token \in issued /\ req[r].token.userId = req[r].userId
  BY InHand DEF FindTarget, Shape
<1> DEFINE s == [req[r] EXCEPT !.pc = "delete"]
<1>2. s \in Request /\ Shape(s) /\ Dated(s) /\ s.pc \notin Renews
  BY <1>1 DEF Request, RequestPC, Shape, Dated, Renews
<1>3. Stop(r) \/ Step(r, s)
  BY DEF FindTarget
<1> QED BY <1>1, <1>2, <1>3, Stops, Moves DEF FindTarget

-----------------------------------------------------------------------------
\* The steps that write device rows.
LEMMA DeleteTyped ==
    ASSUME TypeOK, NEW rows, Delete(rows)
    PROVE  /\ device' \in [Devices -> DeviceRow]
           /\ \A d \in Devices : device'[d] = device[d] \/ device'[d] = NoDevice
BY SessionConstants DEF TypeOK, Delete, NoDevice, DeviceRow

LEMMA DeleteSessionsPreserves ==
    ASSUME IInv, NEW r \in Requests, DeleteSessions(r)
    PROVE  IInv'
<1>1. req[r].pc = "delete" /\ Stop(r) /\ Delete(Doomed(r))
      /\ UNCHANGED <<users, taken, clock, issued, ban>>
  BY DEF DeleteSessions
<1>2. /\ \A q \in Requests \ {r} : req'[q] = req[q]
      /\ req'[r] = IdleRequest /\ req' \in [Requests -> Request]
  BY <1>1, IdleShape DEF IInv, TypeOK, Step, Stop
<1>3. TypeOK'
  BY <1>1, <1>2, DeleteTyped DEF IInv, TypeOK
<1>4. \A d \in Devices : device'[d] = device[d] \/ device'[d] = NoDevice
  BY <1>1, DeleteTyped DEF IInv
<1> QED BY <1>1, <1>2, <1>3, <1>4, IdleShape, Frame

LEMMA DeleteUserPreserves ==
    ASSUME IInv, NEW u \in Users, DeleteUser(u)
    PROVE  IInv'
<1>1. Delete(DevicesOf(u)) /\ users' = [users EXCEPT ![u] = "absent"]
      /\ UNCHANGED <<taken, clock, issued, req, ban>>
  BY DEF DeleteUser
<1>2. TypeOK'
  BY <1>1, DeleteTyped DEF IInv, TypeOK
<1>3. \A d \in Devices : device'[d] = device[d] \/ device'[d] = NoDevice
  BY <1>1, DeleteTyped DEF IInv
<1> QED BY <1>1, <1>2, <1>3, Frame

\* A new session's id has never been used: nobody claims it yet.
LEMMA CreateSecurityDevicePreserves ==
    ASSUME IInv, NEW r \in Requests, CreateSecurityDevice(r)
    PROVE  IInv'
<1>1. req[r].pc = "insert" /\ req[r] \in Request /\ req[r].userId \in Users
      /\ UNCHANGED <<users, clock, issued, ban>>
  BY InHand DEF CreateSecurityDevice, Shape
<1> DEFINE u == req[r].userId
<1>2. CASE users[u] = "absent"
  BY <1>1, <1>2, Stops DEF CreateSecurityDevice
<1>3. CASE users[u] # "absent"
  <2>1. PICK d \in Devices \ taken :
            /\ taken' = taken \cup {d}
            /\ device' = [device EXCEPT ![d] = [userId |-> u, lastActiveDate |-> 0]]
            /\ Step(r, [req[r] EXCEPT !.pc = "sign", !.target = d])
    BY <1>3 DEF CreateSecurityDevice
  <2> DEFINE s == [req[r] EXCEPT !.pc = "sign", !.target = d]
  <2>2. s \in Request /\ s.pc = "sign" /\ s.userId = u /\ s.target = d
    BY <1>1 DEF Request, RequestPC
  <2>3. Shape(s)
    BY <1>1, <2>2 DEF Shape
  <2>4. /\ req' \in [Requests -> Request] /\ req'[r] = s
        /\ \A q \in Requests \ {r} : req'[q] = req[q]
    BY <2>1, <2>2 DEF IInv, TypeOK, Step
  <2>5. /\ device' \in [Devices -> DeviceRow]
        /\ device'[d] = [userId |-> u, lastActiveDate |-> 0]
        /\ \A e \in Devices \ {d} : device'[e] = device[e]
    BY <1>1, <2>1, SessionConstants DEF IInv, TypeOK, DeviceRow
  <2>6. TypeOK'
    BY <1>1, <2>1, <2>4, <2>5 DEF IInv, TypeOK
  <2>7. \A q \in Requests : Shape(req[q])'
    BY <1>1, <2>3, <2>4 DEF IInv, Shape
  <2>8. \A v \in Users : ~Claim(v, d)
    BY <2>1 DEF IInv, Claimed
  <2>9. \A v \in Users, e \in Devices : Claim(v, e)' => Claim(v, e) \/ (v = u /\ e = d)
    <3> SUFFICES ASSUME NEW v \in Users, NEW e \in Devices, Claim(v, e)'
                 PROVE  Claim(v, e) \/ (v = u /\ e = d)
      OBVIOUS
    <3>1. CASE \E t \in issued : t.userId = v /\ t.deviceId = e
      BY <3>1 DEF Claim
    <3>2. CASE \E q \in Requests : req'[q].pc \in Renews /\ req'[q].userId = v /\ req'[q].target = e
      BY <3>2, <2>2, <2>4 DEF Claim
    <3>3. CASE device'[e].userId = v
      BY <3>3, <2>5 DEF Claim
    <3> QED BY <3>1, <3>2, <3>3, <1>1 DEF Claim
  <2>10. Claimed' /\ OneOwner'
    BY <2>1, <2>8, <2>9 DEF IInv, Claimed, OneOwner
  <2>11. IssuedTokenHasDate'
    <3> SUFFICES ASSUME NEW t \in issued, Present(t.deviceId)'
                 PROVE  device'[t.deviceId].lastActiveDate # 0
      BY <1>1 DEF IssuedTokenHasDate
    <3>1. t.deviceId \in Devices /\ t.userId \in Users /\ Claim(t.userId, t.deviceId)
      BY DEF IInv, TypeOK, Token, Claim
    <3>2. t.deviceId # d
      BY <3>1, <2>8
    <3> QED BY <3>1, <3>2, <2>5 DEF IInv, IssuedTokenHasDate, Present
  <2>12. \A q \in Requests : Dated(req[q])'
    <3> SUFFICES ASSUME NEW q \in Requests PROVE Dated(req[q])'
      OBVIOUS
    <3>1. CASE q = r
      BY <3>1, <2>2, <2>4 DEF Dated
    <3>2. CASE q # r
      <4>1. req'[q] = req[q] /\ Dated(req[q])
        BY <3>2, <2>4 DEF IInv
      <4>2. req[q].pc \in Renews => req[q].target \in Devices \ {d}
        BY InHand, <2>8
      <4>3. req[q].pc \in Renews => HasDate(req[q].target)' = HasDate(req[q].target)
        BY <4>1, <4>2, <2>5 DEF HasDate, Present
      <4> QED BY <4>1, <4>3 DEF Dated, Renews
    <3> QED BY <3>1, <3>2
  <2>13. \A e \in Devices : Sourced(e)'
    <3> SUFFICES ASSUME NEW e \in Devices, Present(e)', device'[e].lastActiveDate # 0,
                        RowToken(e)' \notin issued
                 PROVE  \E q \in Requests : req'[q].pc = "respond" /\ req'[q].token = RowToken(e)'
      BY <1>1 DEF Sourced
    <3>1. e # d
      BY <2>5
    <3>2. RowToken(e)' = RowToken(e) /\ Present(e) /\ device'[e] = device[e]
      BY <3>1, <2>5 DEF RowToken, Present
    <3>3. PICK q \in Requests : req[q].pc = "respond" /\ req[q].token = RowToken(e)
      BY <3>2 DEF IInv, Sourced
    <3> QED BY <3>2, <3>3, <1>1, <2>4
  <2> QED BY <2>6, <2>7, <2>10, <2>11, <2>12, <2>13 DEF IInv
<1> QED BY <1>2, <1>3

\* Saving a session: the row, new or old, gets the date of the token that its writer is
\* about to send.
LEMMA Saves ==
    ASSUME IInv, NEW r \in Requests, req[r].pc = "write",
           device' = [device EXCEPT ![req[r].token.deviceId] = Saved(req[r].token)],
           Step(r, [req[r] EXCEPT !.pc = "respond"]),
           UNCHANGED <<users, taken, clock, issued, ban>>
    PROVE  IInv'
<1> DEFINE d == req[r].target
           t == req[r].token
           s == [req[r] EXCEPT !.pc = "respond"]
<1>1. /\ req[r] \in Request /\ req[r].userId \in Users /\ d \in Devices
      /\ Claim(req[r].userId, d) /\ t \in Token
      /\ t.userId = req[r].userId /\ t.deviceId = d
  BY InHand DEF Shape, Renews
<1>2. s \in Request /\ s.pc = "respond" /\ s.userId = req[r].userId /\ s.target = d /\ s.token = t
  BY <1>1 DEF Request, RequestPC
<1>3. /\ req' \in [Requests -> Request] /\ req'[r] = s
      /\ \A q \in Requests \ {r} : req'[q] = req[q]
  BY <1>2 DEF IInv, TypeOK, Step
<1>4. t.iat \in 1..MaxClock /\ t.iat # 0 /\ t.userId \in Users /\ t.userId # None
  BY <1>1, SessionConstants DEF Token
<1>5. /\ device' \in [Devices -> DeviceRow]
      /\ device'[d] = [userId |-> t.userId, lastActiveDate |-> t.iat]
      /\ \A e \in Devices \ {d} : device'[e] = device[e]
  BY <1>1, <1>4, SessionConstants DEF IInv, TypeOK, DeviceRow, Saved
<1>6. TypeOK'
  BY <1>3, <1>5 DEF IInv, TypeOK
<1>7. \A q \in Requests : Shape(req[q])'
  <2>1. Shape(s)
    BY <1>1, <1>2 DEF Shape
  <2> TAKE q \in Requests
  <2>2. CASE q = r
    BY <2>1, <2>2, <1>3 DEF Shape
  <2>3. CASE q # r
    BY <2>3, <1>3 DEF IInv, Shape
  <2> QED BY <2>2, <2>3
<1>8. \A v \in Users, e \in Devices : Claim(v, e)' => Claim(v, e)
  <2> SUFFICES ASSUME NEW v \in Users, NEW e \in Devices, Claim(v, e)'
               PROVE  Claim(v, e)
    OBVIOUS
  <2>1. CASE \E x \in issued : x.userId = v /\ x.deviceId = e
    BY <2>1 DEF Claim
  <2>2. CASE \E q \in Requests : req'[q].pc \in Renews /\ req'[q].userId = v /\ req'[q].target = e
    <3>1. PICK q \in Requests : req'[q].pc \in Renews /\ req'[q].userId = v /\ req'[q].target = e
      BY <2>2
    <3>2. CASE q = r
      BY <3>1, <3>2, <1>1, <1>2, <1>3
    <3>3. CASE q # r
      BY <3>1, <3>3, <1>3 DEF Claim
    <3> QED BY <3>2, <3>3
  <2>3. CASE device'[e].userId = v
    BY <2>3, <1>1, <1>5 DEF Claim
  <2> QED BY <2>1, <2>2, <2>3 DEF Claim
<1>9. Claimed' /\ OneOwner'
  BY <1>8 DEF IInv, Claimed, OneOwner
<1>10. IssuedTokenHasDate'
  <2> SUFFICES ASSUME NEW x \in issued, Present(x.deviceId)'
               PROVE  device'[x.deviceId].lastActiveDate # 0
    BY DEF IssuedTokenHasDate
  <2>1. x.deviceId \in Devices
    BY DEF IInv, TypeOK, Token
  <2> QED BY <2>1, <1>4, <1>5 DEF IInv, IssuedTokenHasDate, Present
<1>11. \A q \in Requests : Dated(req[q])'
  <2> SUFFICES ASSUME NEW q \in Requests PROVE Dated(req[q])'
    OBVIOUS
  <2>1. CASE q = r
    <3>1. HasDate(req[r].target)'
      BY <1>2, <1>3, <1>4, <1>5 DEF HasDate
    <3> QED BY <2>1, <3>1 DEF Dated
  <2>2. CASE q # r
    <3>1. req'[q] = req[q] /\ Dated(req[q])
      BY <2>2, <1>3 DEF IInv
    <3>2. req[q].pc \in Renews => req[q].target \in Devices
      BY InHand
    <3>3. req[q].pc \in Renews /\ HasDate(req[q].target) => HasDate(req[q].target)'
      BY <3>1, <3>2, <1>4, <1>5 DEF HasDate, Present
    <3> QED BY <3>1, <3>3 DEF Dated, Renews
  <2> QED BY <2>1, <2>2
<1>12. \A e \in Devices : Sourced(e)'
  <2> SUFFICES ASSUME NEW e \in Devices, Present(e)', device'[e].lastActiveDate # 0,
                      RowToken(e)' \notin issued
               PROVE  \E q \in Requests : req'[q].pc = "respond" /\ req'[q].token = RowToken(e)'
    BY DEF Sourced
  <2>1. CASE e = d
    <3>1. RowToken(e)' = t
      BY <2>1, <1>1, <1>5 DEF RowToken, Token
    <3> QED BY <3>1, <1>2, <1>3
  <2>2. CASE e # d
    <3>1. RowToken(e)' = RowToken(e) /\ Present(e) /\ device'[e] = device[e]
      BY <2>2, <1>5 DEF RowToken, Present
    <3>2. PICK q \in Requests : req[q].pc = "respond" /\ req[q].token = RowToken(e)
      BY <3>1 DEF IInv, Sourced
    <3> QED BY <3>1, <3>2, <1>3
  <2> QED BY <2>1, <2>2
<1> QED BY <1>6, <1>7, <1>9, <1>10, <1>11, <1>12 DEF IInv

LEMMA UpdateDevicePreserves ==
    ASSUME IInv, NEW r \in Requests, UpdateDevice(r)
    PROVE  IInv'
<1>1. /\ req[r].pc = "write" /\ req[r].found /\ req[r] \in Request /\ req[r].userId \in Users
      /\ req[r].target \in Devices /\ Claim(req[r].userId, req[r].target)
      /\ req[r].token \in Token /\ req[r].token.userId = req[r].userId
      /\ req[r].token.deviceId = req[r].target /\ Dated(req[r])
  BY InHand DEF UpdateDevice, Shape, Renews
<1>2. CASE req[r].changed /\ Present(req[r].target)
  <2>1. device' = [device EXCEPT ![req[r].token.deviceId] = Saved(req[r].token)]
    BY <1>1, <1>2 DEF UpdateDevice
  <2> QED BY <1>1, <2>1, Saves DEF UpdateDevice
<1>3. CASE ~(req[r].changed /\ Present(req[r].target))
  <2> DEFINE s == [req[r] EXCEPT !.pc = "respond"]
  <2>1. s \in Request /\ Shape(s) /\ s.userId = req[r].userId /\ s.target = req[r].target
    BY <1>1 DEF Request, RequestPC, Shape
  <2>2. HasDate(req[r].target)
    <3>1. CASE req[r].changed
      BY <1>3, <3>1 DEF HasDate
    <3>2. CASE ~req[r].changed
      BY <1>1, <3>2 DEF Dated
    <3> QED BY <3>1, <3>2
  <2>3. Dated(s)
    BY <2>1, <2>2 DEF Dated
  <2>4. UNCHANGED device
    BY <1>1, <1>3 DEF UpdateDevice
  <2> QED BY <1>1, <2>1, <2>3, <2>4, Moves DEF UpdateDevice
<1> QED BY <1>2, <1>3

LEMMA InsertDevicePreserves ==
    ASSUME IInv, NEW r \in Requests, InsertDevice(r)
    PROVE  IInv'
<1>1. req[r].pc = "write"
  BY DEF InsertDevice
<1>2. CASE Stop(r) /\ UNCHANGED device
  BY <1>1, <1>2, Stops DEF InsertDevice
<1>3. CASE /\ device' = [device EXCEPT ![req[r].token.deviceId] = Saved(req[r].token)]
           /\ Step(r, [req[r] EXCEPT !.pc = "respond"])
  BY <1>1, <1>3, Saves DEF InsertDevice
<1> QED BY <1>2, <1>3 DEF InsertDevice

\* The token sent is the one the request claimed its session with.
LEMMA RespondPreserves ==
    ASSUME IInv, NEW r \in Requests, Respond(r)
    PROVE  IInv'
<1> DEFINE t == req[r].token
<1>1. /\ req[r].pc = "respond" /\ req[r].userId \in Users /\ req[r].target \in Devices
      /\ Claim(req[r].userId, req[r].target) /\ t \in Token
      /\ t.userId = req[r].userId /\ t.deviceId = req[r].target /\ HasDate(req[r].target)
  BY InHand DEF Respond, Shape, Renews, Dated
<1>2. issued' = issued \cup {t} /\ UNCHANGED <<users, device, taken, clock, ban>>
  BY DEF Respond
<1>3. /\ req' \in [Requests -> Request] /\ req'[r] = IdleRequest
      /\ \A q \in Requests \ {r} : req'[q] = req[q]
  BY IdleShape DEF IInv, TypeOK, Step, Stop, Respond
<1>4. TypeOK'
  BY <1>1, <1>2, <1>3 DEF IInv, TypeOK
<1>5. \A q \in Requests : Shape(req[q])'
  BY <1>2, <1>3, IdleShape DEF IInv, Shape
<1>6. \A v \in Users, e \in Devices : Claim(v, e)' => Claim(v, e)
  <2> SUFFICES ASSUME NEW v \in Users, NEW e \in Devices, Claim(v, e)'
               PROVE  Claim(v, e)
    OBVIOUS
  <2>1. CASE \E x \in issued' : x.userId = v /\ x.deviceId = e
    BY <2>1, <1>1, <1>2 DEF Claim
  <2>2. CASE \E q \in Requests : req'[q].pc \in Renews /\ req'[q].userId = v /\ req'[q].target = e
    BY <2>2, <1>3, IdleShape DEF Claim
  <2>3. CASE device'[e].userId = v
    BY <2>3, <1>2 DEF Claim
  <2> QED BY <2>1, <2>2, <2>3 DEF Claim
<1>7. Claimed' /\ OneOwner'
  BY <1>2, <1>6 DEF IInv, Claimed, OneOwner
<1>8. IssuedTokenHasDate'
  BY <1>1, <1>2 DEF IInv, IssuedTokenHasDate, HasDate, Present
<1>9. \A q \in Requests : Dated(req[q])'
  <2> SUFFICES ASSUME NEW q \in Requests PROVE Dated(req[q])'
    OBVIOUS
  <2>1. Dated(req'[q])
    BY <1>3, IdleShape DEF IInv
  <2> QED BY <2>1, <1>2 DEF Dated, HasDate, Present
<1>10. \A e \in Devices : Sourced(e)'
  <2> SUFFICES ASSUME NEW e \in Devices, Present(e)', device'[e].lastActiveDate # 0,
                      RowToken(e)' \notin issued'
               PROVE  \E q \in Requests : req'[q].pc = "respond" /\ req'[q].token = RowToken(e)'
    BY DEF Sourced
  <2>1. RowToken(e)' = RowToken(e) /\ Present(e) /\ RowToken(e) # t
    BY <1>2 DEF RowToken, Present
  <2>2. PICK q \in Requests : req[q].pc = "respond" /\ req[q].token = RowToken(e)
    BY <1>2, <2>1 DEF IInv, Sourced
  <2> QED BY <2>1, <2>2, <1>3
<1> QED BY <1>4, <1>5, <1>7, <1>8, <1>9, <1>10 DEF IInv

-----------------------------------------------------------------------------
\* Bans, time and failures.
LEMMA BanMoves ==
    ASSUME IInv, NEW a \in Admins, NEW b \in Ban, BanStep(a, b),
           UNCHANGED <<users, device, taken, clock, issued, req>>
    PROVE  IInv'
<1>1. TypeOK'
  BY DEF IInv, TypeOK, BanStep
<1> QED BY <1>1, Frame

LEMMA AdminPreserves ==
    ASSUME IInv, Banning, NEW a \in Admins, AdminStep(a)
    PROVE  IInv'
<1>1. /\ ban[a] \in Ban /\ ban[a].rows \subseteq Devices /\ IdleBan \in Ban
      /\ ban[a].pc # "idle" => ban[a] \in Ban
  BY DEF IInv, TypeOK, Ban, BanPC, IdleBan
<1>2. ASSUME NEW u \in Users, NEW isBanned \in BOOLEAN, BanUnbanUser(a, u, isBanned)
      PROVE  IInv'
  <2> DEFINE b == [IdleBan EXCEPT !.pc = "save", !.userId = u, !.isBanned = isBanned]
  <2>1. b \in Ban
    BY DEF IdleBan, Ban, BanPC
  <2> QED BY <1>2, <2>1, BanMoves DEF BanUnbanUser
<1>3. CASE LoadUser(a)
  <2> DEFINE row == users[ban[a].userId]
             b == [ban[a] EXCEPT !.pc = "update", !.found = row # "absent",
                                 !.changed = row # Target(ban[a].isBanned)]
  <2>1. (row # "absent") \in BOOLEAN /\ (row # Target(ban[a].isBanned)) \in BOOLEAN
    OBVIOUS
  <2>2. b \in Ban
    BY <1>1, <2>1 DEF Ban, BanPC
  <2> QED BY <1>3, <2>2, BanMoves DEF LoadUser
<1>4. CASE UpdateUser(a)
  <2> DEFINE b == [ban[a] EXCEPT !.draft = Draft(a),
                                 !.pc = IF ban[a].isBanned THEN "devices" ELSE "commit"]
  <2>1. CASE BanStep(a, IdleBan)
    BY <1>1, <1>4, <2>1, BanMoves DEF UpdateUser
  <2>2. CASE /\ ~(~ban[a].found /\ users[ban[a].userId] # "absent")
             /\ BanStep(a, b)
    <3>1. users[ban[a].userId] \in {"absent", "active", "banned"}
      BY <1>4 DEF IInv, TypeOK, Banning, UpdateUser
    <3>2. Draft(a) \in {"none", "active", "banned"}
      BY <3>1 DEF Draft, Target
    <3>3. b \in Ban
      BY <1>1, <3>2 DEF Ban, BanPC
    <3> QED BY <1>4, <2>2, <3>3, BanMoves DEF UpdateUser
  <2> QED BY <1>4, <2>1, <2>2 DEF UpdateUser
<1>5. CASE DeleteAllDevices(a)
  <2> DEFINE b == [ban[a] EXCEPT !.pc = "commit", !.rows = DevicesOf(ban[a].userId)]
  <2>1. b \in Ban
    BY <1>1 DEF Ban, BanPC, DevicesOf
  <2> QED BY <1>5, <2>1, BanMoves DEF DeleteAllDevices
<1>6. CASE FailBan(a)
  BY <1>1, <1>6, BanMoves DEF FailBan
<1>7. CASE CommitBan(a)
  <2>1. Delete(ban[a].rows) /\ UNCHANGED <<taken, clock, issued, req>>
        /\ BanStep(a, IdleBan)
    BY <1>7 DEF CommitBan
  <2>2. users' \in [Users -> {"absent", "active", "banned"}]
    <3>1. ban[a].draft # "none" => ban[a].draft \in {"active", "banned"}
      BY <1>1 DEF Ban
    <3> QED BY <3>1, <1>7 DEF CommitBan, IInv, TypeOK
  <2>3. TypeOK'
    BY <1>1, <2>1, <2>2, DeleteTyped DEF IInv, TypeOK, BanStep
  <2>4. \A d \in Devices : device'[d] = device[d] \/ device'[d] = NoDevice
    BY <2>1, DeleteTyped DEF IInv
  <2> QED BY <2>1, <2>3, <2>4, Frame
<1> QED BY <1>2, <1>3, <1>4, <1>5, <1>6, <1>7 DEF AdminStep

LEMMA BanningPreserves ==
    ASSUME TypeOK, Banning, NEW a \in Admins, AdminStep(a)
    PROVE  Banning'
<1>1. PICK b : /\ BanStep(a, b)
               /\ b = IdleBan \/ b.userId \in Users
  <2>1. ban[a] \in Ban
    BY DEF TypeOK
  <2>2. ASSUME NEW u \in Users, NEW isBanned \in BOOLEAN, BanUnbanUser(a, u, isBanned)
        PROVE  \E b : BanStep(a, b) /\ (b = IdleBan \/ b.userId \in Users)
    <3> DEFINE b == [IdleBan EXCEPT !.pc = "save", !.userId = u, !.isBanned = isBanned]
    <3>1. b.userId \in Users
      BY DEF IdleBan
    <3> QED BY <2>2, <3>1 DEF BanUnbanUser
  <2>3. CASE LoadUser(a)
    <3> DEFINE b == [ban[a] EXCEPT !.pc = "update",
                       !.found = users[ban[a].userId] # "absent",
                       !.changed = users[ban[a].userId] # Target(ban[a].isBanned)]
    <3>1. b.userId \in Users
      BY <2>1, <2>3 DEF LoadUser, Banning, Ban
    <3> QED BY <2>3, <3>1 DEF LoadUser
  <2>4. CASE UpdateUser(a)
    <3> DEFINE b == [ban[a] EXCEPT !.draft = Draft(a),
                       !.pc = IF ban[a].isBanned THEN "devices" ELSE "commit"]
    <3>1. b.userId \in Users
      BY <2>1, <2>4 DEF UpdateUser, Banning, Ban
    <3>2. BanStep(a, IdleBan) \/ BanStep(a, b)
      BY <2>4 DEF UpdateUser
    <3> QED BY <3>1, <3>2
  <2>5. CASE DeleteAllDevices(a)
    <3> DEFINE b == [ban[a] EXCEPT !.pc = "commit", !.rows = DevicesOf(ban[a].userId)]
    <3>1. b.userId \in Users
      BY <2>1, <2>5 DEF DeleteAllDevices, Banning, Ban
    <3> QED BY <2>5, <3>1 DEF DeleteAllDevices
  <2>6. CASE FailBan(a) \/ CommitBan(a)
    BY <2>6 DEF FailBan, CommitBan
  <2> QED BY <2>2, <2>3, <2>4, <2>5, <2>6 DEF AdminStep
<1> QED BY <1>1 DEF TypeOK, Banning, BanStep, IdleBan

LEMMA RequestPreserves ==
    ASSUME IInv, NEW r \in Requests, RequestStep(r)
    PROVE  IInv'
<1>1. CASE FailRequest(r)
  BY <1>1, Stops DEF FailRequest
<1> QED BY <1>1, LoginPreserves, CreateSecurityDevicePreserves, PresentTokenPreserves,
           VerifyTokenPreserves, FindUserPreserves, CreateTokensPreserves,
           FindSessionPreserves, LoadDevicePreserves, UpdateDevicePreserves,
           InsertDevicePreserves, RespondPreserves, FindTargetPreserves,
           DeleteSessionsPreserves DEF RequestStep

LEMMA TickPreserves ==
    ASSUME IInv, Tick
    PROVE  IInv'
<1>1. TypeOK'
  BY SessionConstants DEF IInv, TypeOK, Tick
<1> QED BY <1>1, Frame DEF Tick

LEMMA StutterPreserves ==
    ASSUME IInv, UNCHANGED vars
    PROVE  IInv'
<1>1. TypeOK'
  BY DEF IInv, TypeOK, vars
<1> QED BY <1>1, Frame DEF vars

LEMMA InitEstablishes == Init => IInv /\ Banning
<1> SUFFICES ASSUME Init PROVE IInv /\ Banning
  OBVIOUS
<1>1. TypeOK
  BY IdleShape, SessionConstants
  DEF Init, TypeOK, NoDevice, DeviceRow, IdleBan, Ban, BanPC
<1>2. \A r \in Requests : Shape(req[r]) /\ Dated(req[r])
  BY IdleShape DEF Init
<1>3. \A u \in Users, d \in Devices : ~Claim(u, d)
  BY IdleShape, SessionConstants DEF Init, Claim, NoDevice
<1>4. \A d \in Devices : ~Present(d)
  BY DEF Init, Present
<1>5. Banning
  BY DEF Init, Banning, IdleBan
<1> QED BY <1>1, <1>2, <1>3, <1>4, <1>5
        DEF IInv, Claimed, OneOwner, IssuedTokenHasDate, Sourced, Init

LEMMA Inductive == IInv /\ Banning /\ [Next]_vars => IInv' /\ Banning'
<1> SUFFICES ASSUME IInv, Banning, [Next]_vars PROVE IInv' /\ Banning'
  OBVIOUS
<1>1. ASSUME NEW r \in Requests, RequestStep(r) PROVE IInv' /\ Banning'
  <2>1. UNCHANGED ban
    BY <1>1 DEF RequestStep, Login, CreateSecurityDevice, PresentToken, VerifyToken, FindUser,
                CreateTokens, FindSession, LoadDevice, UpdateDevice, InsertDevice, Respond,
                FindTarget, DeleteSessions, FailRequest
  <2> QED BY <1>1, <2>1, RequestPreserves DEF Banning
<1>2. ASSUME NEW a \in Admins, AdminStep(a) PROVE IInv' /\ Banning'
  BY <1>2, AdminPreserves, BanningPreserves DEF IInv
<1>3. ASSUME NEW u \in Users, DeleteUser(u) PROVE IInv' /\ Banning'
  BY <1>3, DeleteUserPreserves DEF DeleteUser, Banning
<1>4. CASE Tick
  BY <1>4, TickPreserves DEF Tick, Banning
<1>5. CASE UNCHANGED vars
  BY <1>5, StutterPreserves DEF vars, Banning
<1> QED BY <1>1, <1>2, <1>3, <1>4, <1>5 DEF Next

LEMMA Invariant == Spec => [](IInv /\ Banning)
BY InitEstablishes, Inductive, PTL DEF Spec

-----------------------------------------------------------------------------
\* Every reachable state is well typed, for any numbers of users, sessions, requests and
\* ban commands.
THEOREM TypeCorrect == Spec => []TypeOK
<1>1. IInv => TypeOK
  BY DEF IInv
<1> QED BY <1>1, Invariant, PTL

\* However refreshes, logouts, bans and deletions overlap on a session, its date is the
\* issue time of a token its user was sent (updateSecurityDeviceSession writes the date of
\* the very token its caller returns).
THEOREM Usable == Spec => []SessionsStayUsable
<1>1. IInv => SessionsStayUsable
  <2> SUFFICES ASSUME IInv, NEW d \in Devices, Present(d), Renewing(d) = {},
                      device[d].lastActiveDate # 0
               PROVE  RowToken(d) \in issued
    BY DEF SessionsStayUsable, RowToken
  <2>1. CASE \E r \in Requests : req[r].pc = "respond" /\ req[r].token = RowToken(d)
    <3>1. PICK r \in Requests : req[r].pc = "respond" /\ req[r].token = RowToken(d)
      BY <2>1
    <3>2. req[r].target = d
      BY <3>1, InHand DEF Shape, RowToken
    <3> QED BY <3>1, <3>2 DEF Renewing
  <2> QED BY <2>1 DEF IInv, Sourced
<1> QED BY <1>1, Invariant, PTL

\* verifySecurityDeviceByToken never reads a NULL date: a token is sent only once the row
\* it names has a date or has gone, and a row inserted again has one.
THEOREM DateKnown == Spec => []IssuedTokenHasDate
<1>1. IInv => IssuedTokenHasDate
  BY DEF IInv
<1> QED BY <1>1, Invariant, PTL

\* A session belongs to one user for ever: every token sent for it, every request renewing
\* it and its row agree on the user.
THEOREM Owner == Spec => []SessionKeepsOwner
<1>1. IInv => SessionKeepsOwner
  <2> SUFFICES ASSUME IInv, NEW t \in issued, device[t.deviceId].userId # None
               PROVE  device[t.deviceId].userId = t.userId
    BY DEF SessionKeepsOwner
  <2>1. t.deviceId \in Devices /\ t.userId \in Users
    BY DEF IInv, TypeOK, Token
  <2>2. device[t.deviceId].userId \in Users
    BY <2>1 DEF IInv, TypeOK, DeviceRow
  <2>3. Claim(t.userId, t.deviceId) /\ Claim(device[t.deviceId].userId, t.deviceId)
    BY DEF Claim
  <2> QED BY <2>1, <2>2, <2>3 DEF IInv, OneOwner
<1> QED BY <1>1, Invariant, PTL

\* What a request's own step does to other requests and to other users' sessions.
LEMMA TouchesOwn ==
    ASSUME IInv, NEW r \in Requests, RequestStep(r)
    PROVE  /\ \A q \in Requests \ {r} : req'[q] = req[q]
           /\ \A d \in Devices : device[d].userId \notin {None, req[r].userId}
                                 => device'[d] = device[d]
<1>1. \A q \in Requests \ {r} : req'[q] = req[q]
  <2>1. \E s : req' = [req EXCEPT ![r] = s]
    BY DEF RequestStep, Login, CreateSecurityDevice, PresentToken, VerifyToken, FindUser,
           CreateTokens, FindSession, LoadDevice, UpdateDevice, InsertDevice, Respond,
           FindTarget, DeleteSessions, FailRequest, Step, Stop
  <2> QED BY <2>1 DEF IInv, TypeOK
<1>2. ASSUME NEW d \in Devices, device[d].userId \notin {None, req[r].userId}
      PROVE  device'[d] = device[d]
  <2>1. device \in [Devices -> DeviceRow] /\ device[d].userId \in Users
    BY <1>2 DEF IInv, TypeOK, DeviceRow
  <2>2. d \in taken
    BY <2>1 DEF IInv, Claimed, Claim
  <2>3. CASE CreateSecurityDevice(r)
    BY <2>1, <2>2, <2>3 DEF CreateSecurityDevice
  <2>4. CASE UpdateDevice(r) \/ InsertDevice(r)
    <3>1. req[r].pc = "write" /\ req[r].target \in Devices
      BY <2>4, InHand DEF UpdateDevice, InsertDevice, Renews
    <3>2. req[r].token.deviceId = req[r].target /\ req[r].userId \in Users
          /\ Claim(req[r].userId, req[r].target)
      BY <3>1, InHand DEF Shape, Renews
    <3>3. req[r].target # d
      BY <1>2, <2>1, <3>2 DEF IInv, OneOwner, Claim
    <3> QED BY <2>1, <2>4, <3>2, <3>3 DEF UpdateDevice, InsertDevice
  <2>5. CASE DeleteSessions(r)
    <3>1. d \notin Doomed(r)
      BY <1>2 DEF Doomed, DevicesOf
    <3> QED BY <2>5, <3>1 DEF DeleteSessions, Delete
  <2>6. CASE UNCHANGED device
    BY <2>6
  <2> QED BY <2>3, <2>4, <2>5, <2>6
          DEF RequestStep, Login, PresentToken, VerifyToken, FindUser, CreateTokens,
              FindSession, LoadDevice, Respond, FindTarget, FailRequest
<1> QED BY <1>1, <1>2

\* No request deletes, renews or creates a session of a user other than the one whose
\* token or password it came with (the WHERE clauses of SecurityDevicesRepository and the
\* row saved by updateSecurityDeviceSession).
THEOREM Untouched == Spec => OthersUntouched
<1> DEFINE A == \A r \in Requests : req'[r] # req[r] =>
                   \A d \in Devices :
                      device[d].userId \notin {None, req[r].userId, req'[r].userId}
                      => device'[d] = device[d]
<1>1. IInv /\ [Next]_vars => [A]_vars
  <2> SUFFICES ASSUME IInv, Next PROVE A
    OBVIOUS
  <2>1. CASE \E r \in Requests : RequestStep(r)
    BY <2>1, TouchesOwn
  <2>2. CASE UNCHANGED req
    BY <2>2
  <2>3. (\E a \in Admins : AdminStep(a)) => UNCHANGED req
    BY DEF AdminStep, BanUnbanUser, LoadUser, UpdateUser, DeleteAllDevices, CommitBan, FailBan
  <2> QED BY <2>1, <2>2, <2>3 DEF Next, DeleteUser, Tick
<1> QED BY <1>1, Invariant, PTL DEF Spec, OthersUntouched

-----------------------------------------------------------------------------
(***************************************************************************)
(* Bans.  When nobody raced with the ban, the banned user has no session   *)
(* and all that a request of his can do is present a token that is not     *)
(* accepted any more.                                                      *)
(***************************************************************************)
Quiet(u) ==
    users[u] = "banned" /\ ~raced[u] =>
        DevicesOf(u) = {} /\ \A r \in InFlight(u) : req[r].pc = "verify"

BInv ==
    /\ raced \in [Users -> BOOLEAN]
    /\ \A a \in Admins : ban[a].draft = "banned" => ban[a].isBanned
    /\ \A u \in Users : Quiet(u)

\* No request of a banned user whose ban nobody raced with gets anywhere.
LEMMA RequestQuiet ==
    ASSUME IInv, NEW u \in Users, users[u] = "banned", DevicesOf(u) = {},
           \A q \in InFlight(u) : req[q].pc = "verify",
           NEW r \in Requests, RequestStep(r)
    PROVE  DevicesOf(u)' = {} /\ \A q \in InFlight(u)' : req'[q].pc = "verify"
<1>1. /\ req \in [Requests -> Request] /\ device \in [Devices -> DeviceRow]
      /\ Shape(req[r]) /\ issued \subseteq Token
  BY DEF IInv, TypeOK
<1>2. req[r].userId = u => req[r].pc = "verify"
  BY DEF InFlight
<1>3. IdleRequest.userId # u
  BY SessionConstants DEF IdleRequest
<1>4. ASSUME NEW s, Step(r, s), s.userId # u \/ s.pc = "verify",
             \A d \in Devices : device'[d] = device[d] \/ device'[d].userId # u
      PROVE  DevicesOf(u)' = {} /\ \A q \in InFlight(u)' : req'[q].pc = "verify"
  <2>1. req'[r] = s /\ \A q \in Requests \ {r} : req'[q] = req[q]
    BY <1>1, <1>4 DEF Step
  <2>2. DevicesOf(u)' = {}
    BY <1>4 DEF DevicesOf
  <2> QED BY <1>4, <2>1, <2>2 DEF InFlight
<1>5. ASSUME Stop(r), \A d \in Devices : device'[d] = device[d] \/ device'[d].userId # u
      PROVE  DevicesOf(u)' = {} /\ \A q \in InFlight(u)' : req'[q].pc = "verify"
  BY <1>3, <1>4, <1>5 DEF Stop
<1>6. ASSUME NEW v \in Users, Login(r, v)
      PROVE  DevicesOf(u)' = {} /\ \A q \in InFlight(u)' : req'[q].pc = "verify"
  <2> PICK s : s = [IdleRequest EXCEPT !.pc = "insert", !.op = "login", !.userId = v]
    OBVIOUS
  <2>1. Step(r, s) /\ s.userId = v /\ v # u /\ UNCHANGED device
    BY <1>6 DEF Login, IdleRequest
  <2> QED BY <1>4, <2>1
<1>7. ASSUME NEW t \in issued, NEW op \in TokenOperations, PresentToken(r, t, op)
      PROVE  DevicesOf(u)' = {} /\ \A q \in InFlight(u)' : req'[q].pc = "verify"
  <2> PICK s : s = [IdleRequest EXCEPT !.pc = "verify", !.op = op, !.userId = t.userId,
                                       !.token = t]
    OBVIOUS
  <2>1. Step(r, s) /\ s.pc = "verify" /\ UNCHANGED device
    BY <1>7 DEF PresentToken, IdleRequest
  <2> QED BY <1>4, <2>1
<1>8. CASE CreateSecurityDevice(r)
  <2>1. req[r].userId # u
    BY <1>2, <1>8 DEF CreateSecurityDevice
  <2>2. CASE Stop(r) /\ UNCHANGED device
    BY <1>5, <2>2
  <2>3. CASE ~(Stop(r) /\ UNCHANGED device)
    <3>1. PICK d \in Devices :
              /\ device' = [device EXCEPT ![d] = [userId |-> req[r].userId,
                                                  lastActiveDate |-> 0]]
              /\ Step(r, [req[r] EXCEPT !.pc = "sign", !.target = d])
      BY <1>8, <2>3 DEF CreateSecurityDevice
    <3> PICK s : s = [req[r] EXCEPT !.pc = "sign", !.target = d]
      OBVIOUS
    <3>2. s.userId = req[r].userId
      BY <1>1 DEF Request
    <3>3. \A e \in Devices : device'[e] = device[e] \/ device'[e].userId # u
      BY <1>1, <2>1, <3>1
    <3> QED BY <1>4, <2>1, <3>1, <3>2, <3>3
  <2> QED BY <2>2, <2>3
<1>9. CASE VerifyToken(r)
  <2>1. UNCHANGED device
    BY <1>9 DEF VerifyToken
  <2>2. CASE Stop(r)
    BY <1>5, <2>1, <2>2
  <2>3. CASE ~Stop(r)
    <3>1. PICK d : Verifies(req[r].token)
                   /\ Step(r, [req[r] EXCEPT !.pc = AfterVerify[req[r].op], !.target = d])
      BY <1>9, <2>3 DEF VerifyToken
    <3> PICK s : s = [req[r] EXCEPT !.pc = AfterVerify[req[r].op], !.target = d]
      OBVIOUS
    <3>2. s.userId = req[r].userId
      BY <1>1 DEF Request
    <3>3. req[r].token.deviceId \in Devices /\ req[r].token.userId = req[r].userId
      BY <1>1, <1>9 DEF VerifyToken, Shape, Token
    <3>4. req[r].userId # u
      BY <3>1, <3>3 DEF Verifies, DevicesOf
    <3> QED BY <1>4, <2>1, <3>1, <3>2, <3>4
  <2> QED BY <2>2, <2>3
<1>10. ASSUME req[r].pc # "verify", NEW s, Step(r, s), s.userId = req[r].userId \/ s = IdleRequest,
              \A d \in Devices : device'[d] = device[d] \/ device'[d] = Saved(req[r].token),
              device' = device \/ req[r].pc = "write"
       PROVE  DevicesOf(u)' = {} /\ \A q \in InFlight(u)' : req'[q].pc = "verify"
  <2>1. req[r].userId # u
    BY <1>2, <1>10
  <2>2. req[r].pc = "write" => Saved(req[r].token).userId = req[r].userId
    BY <1>1 DEF Shape, Saved
  <2> QED BY <1>3, <1>4, <1>10, <2>1, <2>2
<1>11. ASSUME NEW pc, Step(r, [req[r] EXCEPT !.pc = pc]), req[r].pc # "verify",
              \A d \in Devices : device'[d] = device[d] \/ device'[d] = Saved(req[r].token),
              device' = device \/ req[r].pc = "write"
       PROVE  DevicesOf(u)' = {} /\ \A q \in InFlight(u)' : req'[q].pc = "verify"
  <2> PICK s : s = [req[r] EXCEPT !.pc = pc]
    OBVIOUS
  <2>1. s.userId = req[r].userId
    BY <1>1 DEF Request
  <2> QED BY <1>10, <1>11, <2>1
<1>12. CASE FindUser(r) \/ FindTarget(r)
  BY <1>5, <1>11, <1>12 DEF FindUser, FindTarget
<1>13. CASE FindSession(r)
  BY <1>5, <1>11, <1>13 DEF FindSession, Stop
<1>14. CASE CreateTokens(r)
  <2> PICK s : s = [req[r] EXCEPT !.pc = "find",
                       !.token = [userId |-> req[r].userId, deviceId |-> req[r].target,
                                  iat |-> clock]]
    OBVIOUS
  <2>1. s.userId = req[r].userId
    BY <1>1 DEF Request
  <2> QED BY <1>10, <1>14, <2>1 DEF CreateTokens
<1>15. CASE LoadDevice(r)
  <2> PICK t : t = req[r].token
    OBVIOUS
  <2> PICK s : s = [req[r] EXCEPT !.pc = "write", !.found = Present(t.deviceId),
                                  !.changed = device[t.deviceId].lastActiveDate # t.iat]
    OBVIOUS
  <2>1. s.userId = req[r].userId
    BY <1>1 DEF Request
  <2> QED BY <1>10, <1>15, <2>1 DEF LoadDevice
<1>16. CASE UpdateDevice(r)
  BY <1>1, <1>11, <1>16 DEF UpdateDevice
<1>17. CASE InsertDevice(r)
  BY <1>1, <1>5, <1>11, <1>17 DEF InsertDevice
<1>18. CASE DeleteSessions(r)
  <2>1. \A d \in Devices : device'[d] = device[d] \/ device'[d].userId # u
    BY <1>18, SessionConstants DEF DeleteSessions, Delete, NoDevice
  <2> QED BY <1>5, <1>18, <2>1 DEF DeleteSessions
<1>19. CASE Respond(r) \/ FailRequest(r)
  BY <1>5, <1>19 DEF Respond, FailRequest
<1> QED BY <1>6, <1>7, <1>8, <1>9, <1>12, <1>13, <1>14, <1>15, <1>16, <1>17, <1>18, <1>19
        DEF RequestStep

\* A ban that nobody raced with takes all sessions of the user with it.
LEMMA CommitBanQuiet ==
    ASSUME IInv, Banning, BInv, NEW a \in Admins, CommitBan(a),
           raced' = IF ban[a].isBanned THEN [raced EXCEPT ![ban[a].userId] = Raced(a)]
                    ELSE raced
    PROVE  BInv'
<1> PICK v : v = ban[a].userId
  OBVIOUS
<1>1. /\ v \in Users /\ ban[a] \in Ban /\ ban' = [ban EXCEPT ![a] = IdleBan]
      /\ UNCHANGED req /\ users \in [Users -> {"absent", "active", "banned"}]
  BY DEF CommitBan, BanStep, Banning, IInv, TypeOK
<1>2. \A d \in Devices : device'[d] = IF d \in ban[a].rows THEN NoDevice ELSE device[d]
  BY DEF CommitBan, Delete
<1>3. \A u \in Users : DevicesOf(u)' \subseteq DevicesOf(u) \ ban[a].rows
  BY <1>2, SessionConstants DEF DevicesOf, NoDevice
<1>4. \A u \in Users : InFlight(u)' = InFlight(u)
  BY <1>1 DEF InFlight
<1>5. /\ raced' \in [Users -> BOOLEAN]
      /\ ban[a].isBanned => raced'[v] = Raced(a) /\ \A u \in Users \ {v} : raced'[u] = raced[u]
      /\ ~ban[a].isBanned => raced' = raced
  BY <1>1 DEF BInv, Raced
<1>6. \A b \in Admins : ban'[b].draft = "banned" => ban'[b].isBanned
  BY <1>1 DEF BInv, IdleBan, IInv, TypeOK
<1>7. ASSUME NEW u \in Users, u # v \/ ~ban[a].isBanned PROVE Quiet(u)'
  <2>1. users'[u] = "banned" => users[u] = "banned"
    BY <1>1, <1>7 DEF CommitBan, BInv
  <2> QED BY <1>1, <1>3, <1>4, <1>5, <1>7, <2>1 DEF BInv, Quiet
<1>8. ASSUME ban[a].isBanned PROVE Quiet(v)'
  <2>1. raced'[v] = Raced(a)
    BY <1>5, <1>8
  <2>2. ~Raced(a) => InFlight(v)' = {} /\ DevicesOf(v)' = {}
    BY <1>1, <1>3, <1>4 DEF Raced
  <2> QED BY <2>1, <2>2 DEF Quiet
<1> QED BY <1>5, <1>6, <1>7, <1>8 DEF BInv

\* Until it commits a ban command changes nothing but itself.
LEMMA BanQuiet ==
    ASSUME IInv, Banning, BInv, NEW a \in Admins, UNCHANGED raced,
           \/ \E u \in Users, isBanned \in BOOLEAN : BanUnbanUser(a, u, isBanned)
           \/ LoadUser(a) \/ UpdateUser(a) \/ DeleteAllDevices(a) \/ FailBan(a)
    PROVE  BInv'
<1>1. ban[a] \in Ban /\ (ban[a].draft = "banned" => ban[a].isBanned)
  BY DEF IInv, TypeOK, BInv
<1>2. PICK b : BanStep(a, b) /\ (b.draft = "banned" => b.isBanned)
  <2>1. IdleBan.draft # "banned"
    BY DEF IdleBan
  <2>2. ASSUME NEW u \in Users, NEW isBanned \in BOOLEAN, BanUnbanUser(a, u, isBanned)
        PROVE  \E b : BanStep(a, b) /\ b.draft # "banned"
    <3> PICK b : b = [IdleBan EXCEPT !.pc = "save", !.userId = u, !.isBanned = isBanned]
      OBVIOUS
    <3>1. b.draft # "banned"
      BY DEF IdleBan
    <3> QED BY <2>2, <3>1 DEF BanUnbanUser
  <2>3. CASE LoadUser(a)
    <3> PICK b, row : /\ row = users[ban[a].userId]
                      /\ b = [ban[a] EXCEPT !.pc = "update", !.found = row # "absent",
                                            !.changed = row # Target(ban[a].isBanned)]
      OBVIOUS
    <3>1. b.draft = ban[a].draft /\ b.isBanned = ban[a].isBanned
      BY <1>1 DEF Ban
    <3> QED BY <1>1, <2>3, <3>1 DEF LoadUser
  <2>4. CASE UpdateUser(a)
    <3> PICK b : b = [ban[a] EXCEPT !.draft = Draft(a),
                                    !.pc = IF ban[a].isBanned THEN "devices" ELSE "commit"]
      OBVIOUS
    <3>1. b.draft = Draft(a) /\ b.isBanned = ban[a].isBanned
      BY <1>1 DEF Ban
    <3>2. Draft(a) = "banned" => ban[a].isBanned
      BY DEF Draft, Target
    <3> QED BY <2>1, <2>4, <3>1, <3>2 DEF UpdateUser
  <2>5. CASE DeleteAllDevices(a)
    <3> PICK b : b = [ban[a] EXCEPT !.pc = "commit", !.rows = DevicesOf(ban[a].userId)]
      OBVIOUS
    <3>1. b.draft = ban[a].draft /\ b.isBanned = ban[a].isBanned
      BY <1>1 DEF Ban
    <3> QED BY <1>1, <2>5, <3>1 DEF DeleteAllDevices
  <2>6. CASE FailBan(a)
    BY <2>1, <2>6 DEF FailBan
  <2> QED BY <2>2, <2>3, <2>4, <2>5, <2>6
<1>3. UNCHANGED <<users, device, req>>
  BY DEF BanUnbanUser, LoadUser, UpdateUser, DeleteAllDevices, FailBan
<1>4. \A c \in Admins : ban'[c].draft = "banned" => ban'[c].isBanned
  BY <1>2 DEF BInv, BanStep, IInv, TypeOK
<1> QED BY <1>3, <1>4 DEF BInv, Quiet, DevicesOf, InFlight

LEMMA BanNextPreserves ==
    ASSUME IInv, Banning, BInv, [BanNext]_<<vars, raced>>
    PROVE  BInv'
<1>1. ASSUME NEW a \in Admins, CommitBan(a),
             raced' = IF ban[a].isBanned THEN [raced EXCEPT ![ban[a].userId] = Raced(a)]
                      ELSE raced
      PROVE  BInv'
  BY <1>1, CommitBanQuiet
<1>2. ASSUME NEW r \in Requests, RequestStep(r), UNCHANGED raced PROVE BInv'
  <2>1. UNCHANGED <<users, ban>>
    BY <1>2 DEF RequestStep, Login, CreateSecurityDevice, PresentToken, VerifyToken, FindUser,
                CreateTokens, FindSession, LoadDevice, UpdateDevice, InsertDevice, Respond,
                FindTarget, DeleteSessions, FailRequest
  <2>2. \A u \in Users : Quiet(u)'
    BY <1>2, <2>1, RequestQuiet DEF BInv, Quiet
  <2> QED BY <1>2, <2>1, <2>2 DEF BInv
<1>3. ASSUME NEW v \in Users, DeleteUser(v), UNCHANGED raced PROVE BInv'
  <2>1. /\ \A u \in Users : users'[u] = "banned" => users[u] = "banned"
        /\ UNCHANGED <<req, ban>>
    BY <1>3 DEF DeleteUser, IInv, TypeOK
  <2>2. \A u \in Users : DevicesOf(u)' \subseteq DevicesOf(u)
    BY <1>3, SessionConstants DEF DeleteUser, Delete, DevicesOf, NoDevice
  <2> QED BY <1>3, <2>1, <2>2 DEF BInv, Quiet, InFlight
<1>4. CASE Tick /\ UNCHANGED raced
  BY <1>4 DEF Tick, BInv, Quiet, DevicesOf, InFlight
<1>5. CASE UNCHANGED <<vars, raced>>
  BY <1>5 DEF vars, BInv, Quiet, DevicesOf, InFlight
<1> QED BY <1>1, <1>2, <1>3, <1>4, <1>5, BanQuiet DEF BanNext

\* The history variable watches the system and does not guide it.
LEMMA HistoryWatches == [BanNext]_<<vars, raced>> => [Next]_vars
BY DEF BanNext, Next, AdminStep

\* A ban ends every session of the user, and none comes up while he stays banned, unless a
\* login or refresh of his was under way during the ban's transaction: whatever tokens he
\* presents, and however many ban commands overlap.
THEOREM BansEndSessions == BanSpec => []BanEndsSessions
<1>1. BInv => BanEndsSessions
  BY DEF BInv, Quiet, BanEndsSessions
<1>2. BanInit => IInv /\ Banning /\ BInv
  <2>1. BanInit => BInv
    BY DEF BanInit, Init, BInv, Quiet, IdleBan
  <2> QED BY <2>1, InitEstablishes DEF BanInit
<1>3. IInv /\ Banning /\ BInv /\ [BanNext]_<<vars, raced>> => IInv' /\ Banning' /\ BInv'
  BY HistoryWatches, Inductive, BanNextPreserves
<1> QED BY <1>1, <1>2, <1>3, PTL DEF BanSpec

=============================================================================

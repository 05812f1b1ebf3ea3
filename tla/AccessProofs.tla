---------------------------- MODULE AccessProofs ----------------------------
(***************************************************************************)
(* What overlapping requests can and cannot do to tokens and links, for    *)
(* any number of users, requests and rows.  The invariant says what an     *)
(* open request may still rely on of what it has read: the children of the *)
(* token it exchanges, and the links it has not invalidated, are younger   *)
(* than itself.                                                            *)
(***************************************************************************)
EXTENDS Access, RateLimitProofs

\* A token that was exchanged is there and no longer valid.
ParentsSpent ==
    \A t \in DOMAIN tokens : tokens[t].parent # 0 =>
        /\ tokens[t].parent \in DOMAIN tokens
        /\ ~tokens[tokens[t].parent].valid

RowsOfUsers ==
    /\ \A t \in DOMAIN tokens : Registered(tokens[t].user)
    /\ \A l \in DOMAIN links : Registered(links[l].user)

KnownBounded(q) ==
    /\ q.op \in {"login", "refresh", "reset"} => q.known <= Len(tokens)
    /\ q.op \in {"register", "resend", "forgot"} => q.known <= Len(links)

ChildrenYounger(q) ==
    q.op = "refresh" =>
        /\ q.item \in DOMAIN tokens
        /\ \A s \in DOMAIN tokens : tokens[s].parent = q.item => q.known < s

SeenActive(q) ==
    /\ q.op # "register" => Registered(q.user)
    /\ q.op # "register" /\ Active(q.user) => q.active
    /\ q.op = "login" \/ (q.op = "refresh" /\ q.step = "ready") => q.active

RivalsYounger(q) ==
    /\ q.op \in {"resend", "forgot"} /\ q.step = "written" =>
         \A k \in ActiveLinks(q.user, PurposeOf(q.op)) :
             k \in q.touched \/ q.known < k
    /\ q.op = "register" =>
         /\ \A k \in ActiveLinks(q.user, "email_verification") : q.known < k
         /\ q.step = "written" => ~Registered(q.user)

RequestOK(q) ==
    KnownBounded(q) /\ ChildrenYounger(q) /\ SeenActive(q) /\ RivalsYounger(q)

\* The unique index lets one insert of an address wait for another.
OneInsert ==
    \A q, r \in Requests :
        Doing(q, "register", "written") /\ Doing(r, "register", "written")
            => q = r \/ UserOf(q) # UserOf(r)

RowsTypeOK ==
    /\ account \in [Users -> Account \cup {None}]
    /\ resets \in [Users -> Seq(Nat)]
    /\ tokens \in Seq(RefreshToken)
    /\ links \in Seq(VerificationToken)
    /\ request \in [Requests -> Request \cup {Idle}]
    /\ begun \in 0..MaxRequests

AccessInv ==
    /\ RowsTypeOK
    /\ ExchangedOnce /\ LiveLinksOverlap /\ InactiveGetsNothing
    /\ ParentsSpent /\ RowsOfUsers /\ OneInsert
    /\ \A r \in Requests : request[r] # Idle => RequestOK(request[r])


-----------------------------------------------------------------------------
(* The requests of Access pass the limiter of RateLimit. *)

LEMMA BucketExists == \A strict \in BOOLEAN : BucketOf(Client, strict) \in Buckets
BY ClientAssumption DEF BucketOf, Buckets, Kinds

LEMMA ArrivalsPassLimiter ==
  ASSUME NEW r \in Requests, Arrive(r)
  PROVE  LimiterNext
<1>1. TRUE \in BOOLEAN /\ FALSE \in BOOLEAN
  OBVIOUS
<1> QED
  BY <1>1, BucketExists DEF Arrive, Register, Login, Resend, Forgot, Refresh,
     VerifyEmail, ResetPassword, Begin, LimiterNext

LEMMA HandlersLeaveLimiter ==
  ASSUME NEW r \in Requests, Handle(r)
  PROVE  UNCHANGED limiter
BY DEF Handle, CommitLogin, CheckAccount, Exchange, InsertUser, InvalidateActive,
   CommitLink, CommitVerified, RevokeAll, CommitReset, Fail

LEMMA BesideUsesLimiter == Beside => [LimiterNext]_limiter
BY BucketExists DEF Beside, TimePasses, PassThrough, TurnAway, SetActive,
   ExpireToken, ExpireLink, LimiterNext

LEMMA AccessStepsLimiter == [AccessNext]_avars => [LimiterNext]_limiter
<1>1. UNCHANGED avars => UNCHANGED limiter
  BY DEF avars, limiter
<1> QED
  BY <1>1, ArrivalsPassLimiter, HandlersLeaveLimiter, BesideUsesLimiter
  DEF AccessNext

\* Refinement: every request passes RateLimitMiddleware as RateLimit has it.
THEOREM AccessUsesLimiter == AccessSpec => LimiterSpec
<1>1. AccessInit => LimiterInit
  BY DEF AccessInit
<1> QED
  BY <1>1, AccessStepsLimiter, PTL DEF AccessSpec, LimiterSpec

\* LimitKept, for requests that do something: whatever handlers do, no window
\* holds more of a client's admissions than its limit.
THEOREM AccessKeepsLimit == AccessSpec => []LimitKept
BY AccessUsesLimiter, LimitAlwaysKept, PTL

-----------------------------------------------------------------------------
(* Rows and open requests as a step changes them. *)

LEMMA NoneIsNoAccount == None \notin Account
BY NoneAssumption DEF Account

LEMMA NewAccountType == NewAccount \in Account
BY DEF NewAccount, Account

\* Invalidated changes nothing but valid, and that only to FALSE.
LEMMA TokensInvalidated ==
  ASSUME NEW s \in Seq(RefreshToken), NEW rows
  PROVE  /\ Invalidated(s, rows) \in Seq(RefreshToken)
         /\ Len(Invalidated(s, rows)) = Len(s)
         /\ \A i \in DOMAIN s :
              /\ Invalidated(s, rows)[i].valid <=> s[i].valid /\ i \notin rows
              /\ Invalidated(s, rows)[i].user = s[i].user
              /\ Invalidated(s, rows)[i].parent = s[i].parent
              /\ Invalidated(s, rows)[i].credential = s[i].credential
              /\ Invalidated(s, rows)[i].resets = s[i].resets
              /\ Invalidated(s, rows)[i].known = s[i].known
              /\ Invalidated(s, rows)[i].active = s[i].active
<1>1. DOMAIN s = 1..Len(s) /\ Len(s) \in Nat
  OBVIOUS
<1>2. ASSUME NEW i \in DOMAIN s
      PROVE  /\ Invalidated(s, rows)[i].valid <=> s[i].valid /\ i \notin rows
             /\ Invalidated(s, rows)[i].user = s[i].user
             /\ Invalidated(s, rows)[i].parent = s[i].parent
             /\ Invalidated(s, rows)[i].credential = s[i].credential
             /\ Invalidated(s, rows)[i].resets = s[i].resets
             /\ Invalidated(s, rows)[i].known = s[i].known
             /\ Invalidated(s, rows)[i].active = s[i].active
             /\ Invalidated(s, rows)[i] \in RefreshToken
  <2>1. s[i] \in RefreshToken
    OBVIOUS
  <2>2. CASE i \in rows
    BY <2>1, <2>2 DEF Invalidated, RefreshToken
  <2>3. CASE i \notin rows
    BY <2>1, <2>3 DEF Invalidated, RefreshToken
  <2> QED
    BY <2>2, <2>3
<1>3. Invalidated(s, rows) \in [1..Len(s) -> RefreshToken]
  BY <1>1, <1>2 DEF Invalidated
<1> QED
  BY <1>1, <1>2, <1>3

LEMMA LinksInvalidated ==
  ASSUME NEW s \in Seq(VerificationToken), NEW rows
  PROVE  /\ Invalidated(s, rows) \in Seq(VerificationToken)
         /\ Len(Invalidated(s, rows)) = Len(s)
         /\ \A i \in DOMAIN s :
              /\ Invalidated(s, rows)[i].valid <=> s[i].valid /\ i \notin rows
              /\ Invalidated(s, rows)[i].user = s[i].user
              /\ Invalidated(s, rows)[i].purpose = s[i].purpose
              /\ Invalidated(s, rows)[i].known = s[i].known
<1>1. DOMAIN s = 1..Len(s) /\ Len(s) \in Nat
  OBVIOUS
<1>2. ASSUME NEW i \in DOMAIN s
      PROVE  /\ Invalidated(s, rows)[i].valid <=> s[i].valid /\ i \notin rows
             /\ Invalidated(s, rows)[i].user = s[i].user
             /\ Invalidated(s, rows)[i].purpose = s[i].purpose
             /\ Invalidated(s, rows)[i].known = s[i].known
             /\ Invalidated(s, rows)[i] \in VerificationToken
  <2>1. s[i] \in VerificationToken
    OBVIOUS
  <2>2. CASE i \in rows
    BY <2>1, <2>2 DEF Invalidated, VerificationToken
  <2>3. CASE i \notin rows
    BY <2>1, <2>3 DEF Invalidated, VerificationToken
  <2> QED
    BY <2>2, <2>3
<1>3. Invalidated(s, rows) \in [1..Len(s) -> VerificationToken]
  BY <1>1, <1>2 DEF Invalidated
<1> QED
  BY <1>1, <1>2, <1>3

\* A step adds rows at the end and takes validity away, nothing else.
TokensGrow ==
    /\ Len(tokens) <= Len(tokens')
    /\ \A t \in DOMAIN tokens :
         /\ tokens'[t].user = tokens[t].user
         /\ tokens'[t].parent = tokens[t].parent
         /\ tokens'[t].known = tokens[t].known
         /\ tokens'[t].active = tokens[t].active
         /\ tokens'[t].valid => tokens[t].valid

LinksGrow ==
    /\ Len(links) <= Len(links')
    /\ \A l \in DOMAIN links :
         /\ links'[l].user = links[l].user
         /\ links'[l].purpose = links[l].purpose
         /\ links'[l].known = links[l].known
         /\ links'[l].valid => links[l].valid

\* What a step may do to the account of an open request.
AccountKept(q) ==
    /\ q.op = "register" /\ q.step = "written" /\ account[q.user] = None
         => account'[q.user] = None
    /\ q.op # "register" /\ account[q.user] # None
         => /\ account'[q.user] # None
            /\ account'[q.user].active = account[q.user].active

LEMMA SameTokensGrow ==
  ASSUME RowsTypeOK, tokens' = tokens PROVE TokensGrow
BY DEF TokensGrow, RowsTypeOK

LEMMA SameLinksGrow ==
  ASSUME RowsTypeOK, links' = links PROVE LinksGrow
BY DEF LinksGrow, RowsTypeOK

LEMMA SameAccountKept ==
  ASSUME NEW q, account' = account PROVE AccountKept(q)
BY DEF AccountKept, Registered

LEMMA InvalidatedTokensGrow ==
  ASSUME RowsTypeOK, NEW rows, tokens' = Invalidated(tokens, rows)
  PROVE  TokensGrow
BY TokensInvalidated DEF TokensGrow, RowsTypeOK

LEMMA InvalidatedLinksGrow ==
  ASSUME RowsTypeOK, NEW rows, links' = Invalidated(links, rows)
  PROVE  LinksGrow
BY LinksInvalidated DEF LinksGrow, RowsTypeOK

\* What an open request relies on survives the steps of others.
LEMMA RequestStaysOK ==
  ASSUME RowsTypeOK, RowsTypeOK', TokensGrow, LinksGrow,
         NEW q \in Request, RequestOK(q), AccountKept(q)
  PROVE  RequestOK(q)'
<1>1. /\ Len(tokens) \in Nat /\ Len(tokens') \in Nat
      /\ DOMAIN tokens = 1..Len(tokens) /\ DOMAIN tokens' = 1..Len(tokens')
      /\ Len(links) \in Nat /\ Len(links') \in Nat
      /\ DOMAIN links = 1..Len(links) /\ DOMAIN links' = 1..Len(links')
  BY DEF RowsTypeOK
<1>2. q.known \in Nat /\ q.item \in Nat
  BY DEF Request
<1>3. KnownBounded(q)'
  BY <1>1, <1>2 DEF RequestOK, KnownBounded, TokensGrow, LinksGrow
<1>4. ChildrenYounger(q)'
  <2> SUFFICES ASSUME q.op = "refresh" 
               PROVE  /\ q.item \in DOMAIN tokens'
                      /\ \A s \in DOMAIN tokens' :
                           tokens'[s].parent = q.item => q.known < s
    BY DEF ChildrenYounger
  <2>1. q.item \in DOMAIN tokens /\ q.known <= Len(tokens)
    BY DEF RequestOK, KnownBounded, ChildrenYounger
  <2>2. ASSUME NEW s \in DOMAIN tokens', tokens'[s].parent = q.item
        PROVE  q.known < s
    <3>1. CASE s \in DOMAIN tokens
      BY <2>2, <3>1 DEF RequestOK, ChildrenYounger, TokensGrow
    <3>2. CASE s \notin DOMAIN tokens
      BY <1>1, <1>2, <2>1, <2>2, <3>2
    <3> QED
      BY <3>1, <3>2
  <2> QED
    BY <1>1, <2>1, <2>2 DEF TokensGrow
<1>5. SeenActive(q)'
  BY DEF RequestOK, SeenActive, AccountKept, Active, Registered
<1>6. ASSUME NEW purpose, NEW k \in ActiveLinks(q.user, purpose)',
             q.known <= Len(links)
      PROVE  k \in ActiveLinks(q.user, purpose) \/ q.known < k
  <2>1. CASE k \in DOMAIN links
    BY <1>6, <2>1 DEF ActiveLinks, LinksGrow
  <2>2. CASE k \notin DOMAIN links
    BY <1>1, <1>2, <1>6, <2>2 DEF ActiveLinks
  <2> QED
    BY <2>1, <2>2
<1>7. RivalsYounger(q)'
  <2>1. CASE q.op \in {"resend", "forgot"}
    <3>1. q.known <= Len(links) /\ q.op # "register"
      BY <2>1 DEF RequestOK, KnownBounded
    <3>2. ASSUME q.step = "written",
                 NEW k \in ActiveLinks(q.user, PurposeOf(q.op))'
          PROVE  k \in q.touched \/ q.known < k
      <4>1. CASE k \in ActiveLinks(q.user, PurposeOf(q.op))
        BY <2>1, <3>2, <4>1 DEF RequestOK, RivalsYounger
      <4> QED
        BY <1>6, <3>1, <3>2, <4>1 DEF PurposeOf, ActiveLinks
    <3> QED
      BY <3>1, <3>2 DEF RivalsYounger, PurposeOf, ActiveLinks
  <2>2. CASE q.op = "register"
    <3>1. q.known <= Len(links)
      BY <2>2 DEF RequestOK, KnownBounded
    <3>2. ASSUME NEW k \in ActiveLinks(q.user, "email_verification")'
          PROVE  q.known < k
      BY <1>6, <2>2, <3>1, <3>2 DEF RequestOK, RivalsYounger
    <3>3. q.step = "written" => ~Registered(q.user)'
      BY <2>2 DEF RequestOK, RivalsYounger, AccountKept, Registered
    <3> QED
      BY <2>2, <3>2, <3>3 DEF RivalsYounger, ActiveLinks, Registered
  <2> QED
    BY <2>1, <2>2 DEF RivalsYounger
<1> QED
  BY <1>3, <1>4, <1>5, <1>7 DEF RequestOK

\* The parts of the invariant that speak of tokens alone.
TokensOK == ExchangedOnce /\ ParentsSpent /\ InactiveGetsNothing

OpenOK == \A r \in Requests : request[r] # Idle => RequestOK(request[r])

LEMMA AccessInvParts ==
  AccessInv <=> /\ RowsTypeOK /\ TokensOK /\ LiveLinksOverlap
                /\ RowsOfUsers /\ OneInsert /\ OpenOK
BY DEF AccessInv, TokensOK, OpenOK

LEMMA AccessInvPartsNext ==
  AccessInv' <=> (/\ RowsTypeOK /\ TokensOK /\ LiveLinksOverlap
                  /\ RowsOfUsers /\ OneInsert /\ OpenOK)'
BY DEF AccessInv, TokensOK, OpenOK

\* Taking validity away from tokens disturbs none of it.
LEMMA FewerValidTokens ==
  ASSUME RowsTypeOK, RowsTypeOK', TokensOK, TokensGrow, Len(tokens') = Len(tokens)
  PROVE  TokensOK'
<1>1. DOMAIN tokens = DOMAIN tokens'
  BY DEF RowsTypeOK
<1>2. \A t \in DOMAIN tokens :
        /\ tokens'[t].parent = tokens[t].parent
        /\ tokens'[t].known = tokens[t].known
        /\ tokens'[t].active = tokens[t].active
        /\ tokens'[t].valid => tokens[t].valid
  BY DEF TokensGrow
<1>3. ExchangedOnce'
  BY <1>1, <1>2 DEF TokensOK, ExchangedOnce
<1>4. ParentsSpent'
  BY <1>1, <1>2 DEF TokensOK, ParentsSpent
<1>5. InactiveGetsNothing'
  BY <1>1, <1>2 DEF TokensOK, InactiveGetsNothing
<1> QED
  BY <1>3, <1>4, <1>5 DEF TokensOK

LEMMA FewerValidLinks ==
  ASSUME RowsTypeOK, RowsTypeOK', LiveLinksOverlap, LinksGrow,
         Len(links') = Len(links)
  PROVE  LiveLinksOverlap'
<1>1. DOMAIN links = DOMAIN links'
  BY DEF RowsTypeOK
<1>2. \A u \in Users, purpose \in Purposes :
        ActiveLinks(u, purpose)' \subseteq ActiveLinks(u, purpose)
  BY <1>1 DEF LinksGrow, ActiveLinks
<1>3. \A u \in Users, purpose \in Purposes : \A k \in ActiveLinks(u, purpose) :
        k \in DOMAIN links
  BY DEF ActiveLinks
<1> QED
  BY <1>2, <1>3 DEF LiveLinksOverlap, LinksGrow

LEMMA SameRowsOfUsers ==
  ASSUME RowsTypeOK, RowsTypeOK', RowsOfUsers, TokensGrow, LinksGrow,
         Len(tokens') = Len(tokens), Len(links') = Len(links),
         \A u \in Users : account[u] # None => account'[u] # None
  PROVE  RowsOfUsers'
<1>1. DOMAIN links = DOMAIN links' /\ DOMAIN tokens = DOMAIN tokens'
  BY DEF RowsTypeOK
<1>2. ASSUME NEW l \in DOMAIN links PROVE links[l].user \in Users
  <2>1. links[l] \in VerificationToken
    BY DEF RowsTypeOK
  <2> QED
    BY <2>1 DEF VerificationToken
<1>3. ASSUME NEW t \in DOMAIN tokens PROVE tokens[t].user \in Users
  <2>1. tokens[t] \in RefreshToken
    BY DEF RowsTypeOK
  <2> QED
    BY <2>1 DEF RefreshToken
<1> QED
  BY <1>1, <1>2, <1>3 DEF RowsOfUsers, TokensGrow, LinksGrow, Registered

\* The open requests, when a step ends some and leaves the others alone.
LEMMA RequestsStayOrEnd ==
  ASSUME RowsTypeOK, RowsTypeOK', OneInsert, OpenOK, TokensGrow, LinksGrow,
         \A p \in Requests : request'[p] = request[p] \/ request'[p] = Idle,
         \A p \in Requests : request'[p] # Idle => AccountKept(request[p])
  PROVE  OneInsert' /\ OpenOK'
<1>1. OneInsert'
  BY DEF OneInsert, Doing, UserOf, Idle
<1>2. ASSUME NEW p \in Requests, request'[p] # Idle
      PROVE  RequestOK(request[p])'
  <2>1. PICK q : q = request[p]
    OBVIOUS
  <2>2. request'[p] = q
    BY <1>2, <2>1
  <2>3. q \in Request /\ AccountKept(q) /\ RequestOK(q)
    BY <1>2, <2>1, <2>2 DEF RowsTypeOK, OpenOK
  <2>4. RequestOK(q)'
    BY <2>3, RequestStaysOK
  <2> QED
    BY <2>2, <2>4 DEF RequestOK, KnownBounded, ChildrenYounger, SeenActive,
       RivalsYounger, ActiveLinks, Registered, Active
<1> QED
  BY <1>1, <1>2 DEF OpenOK

\* The open requests, when one of them reads or flushes something.
LEMMA RequestMoves ==
  ASSUME AccessInv, RowsTypeOK', UNCHANGED <<account, tokens, links>>,
         NEW r \in Requests,
         \A p \in Requests \ {r} : request'[p] = request[p],
         RequestOK(request[r])', OneInsert'
  PROVE  AccessInv'
<1> USE AccessInvParts
<1>1. TokensOK' /\ LiveLinksOverlap' /\ RowsOfUsers'
  BY DEF TokensOK, ExchangedOnce, ParentsSpent, InactiveGetsNothing,
     LiveLinksOverlap, ActiveLinks, RowsOfUsers, Registered
<1>2. ASSUME NEW p \in Requests, request'[p] # Idle, p # r
      PROVE  RequestOK(request[p])'
  BY <1>2 DEF OpenOK, RequestOK, KnownBounded, ChildrenYounger, SeenActive,
     RivalsYounger, ActiveLinks, Registered, Active
<1>3. OpenOK'
  BY <1>2 DEF OpenOK
<1> QED
  BY <1>1, <1>3, AccessInvPartsNext

-----------------------------------------------------------------------------
(* Every action keeps the invariant: requests that begin. *)

\* What a request has read of the rows when it begins.
Founded(op, u, item, known) ==
    /\ op \in {"login", "refresh", "reset"} => known <= Len(tokens)
    /\ op \in {"register", "resend", "forgot"} => known <= Len(links)
    /\ op = "refresh" =>
         /\ item \in DOMAIN tokens
         /\ \A s \in DOMAIN tokens : tokens[s].parent = item => known < s
    /\ op # "register" => Registered(u)
    /\ op = "login" => Active(u)
    /\ op = "register" =>
         \A k \in ActiveLinks(u, "email_verification") : known < k

LEMMA BeginKeeps ==
  ASSUME AccessInv, NEW r \in Requests, NEW op \in Ops, NEW strict \in BOOLEAN,
         NEW u \in Users, NEW item \in Nat, NEW credential \in Nat,
         NEW known \in Nat,
         Begin(r, op, strict, u, item, credential, known),
         Founded(op, u, item, known)
  PROVE  AccessInv'
<1>1. RowsTypeOK /\ OneInsert
  BY AccessInvParts
<1>2. PICK active \in BOOLEAN : active = Active(u)
  <2>1. Registered(u) => account[u] \in Account
    BY <1>1 DEF RowsTypeOK, Registered
  <2> QED
    BY <2>1 DEF Active, Account
<1>3. PICK q : q = [op |-> op, step |-> "read", user |-> u, item |-> item,
          credential |-> credential, resets |-> Len(resets[u]),
          known |-> known, active |-> active, touched |-> {}]
  OBVIOUS
<1>4. /\ request' = [request EXCEPT ![r] = q]
      /\ begun' = begun + 1 /\ begun < MaxRequests
      /\ account' = account /\ resets' = resets /\ tokens' = tokens
      /\ links' = links
  BY <1>2, <1>3 DEF Begin
<1>5. q \in Request
  <2>1. Len(resets[u]) \in Nat
    BY <1>1 DEF RowsTypeOK
  <2> QED
    BY <1>3, <2>1 DEF Request
<1>6. RowsTypeOK'
  BY <1>1, <1>4, <1>5, MaxRequestsAssumption DEF RowsTypeOK
<1>7. request'[r] = q /\ \A p \in Requests \ {r} : request'[p] = request[p]
  BY <1>1, <1>4 DEF RowsTypeOK
<1>8. RequestOK(q)
  <2>1. q.op = op /\ q.step = "read" /\ q.user = u /\ q.item = item
        /\ q.known = known /\ q.active = active
    BY <1>3
  <2>2. KnownBounded(q) /\ ChildrenYounger(q)
    BY <2>1 DEF Founded, KnownBounded, ChildrenYounger
  <2>3. SeenActive(q)
    BY <1>2, <2>1 DEF Founded, SeenActive
  <2>4. RivalsYounger(q)
    BY <2>1 DEF Founded, RivalsYounger
  <2> QED
    BY <2>2, <2>3, <2>4 DEF RequestOK
<1>9. RequestOK(request[r])'
  BY <1>4, <1>7, <1>8 DEF RequestOK, KnownBounded, ChildrenYounger, SeenActive,
     RivalsYounger, ActiveLinks, Registered, Active
<1>10. OneInsert'
  BY <1>1, <1>3, <1>7 DEF OneInsert, Doing, UserOf
<1> QED
  BY <1>4, <1>6, <1>7, <1>9, <1>10, RequestMoves

LEMMA IdsAreNumbers == Ids \subseteq Nat
BY MaxRequestsAssumption DEF Ids

LEMMA ArriveKeeps ==
  ASSUME AccessInv, NEW r \in Requests, Arrive(r)
  PROVE  AccessInv'
<1>1. RowsTypeOK /\ TokensOK /\ RowsOfUsers
  BY AccessInvParts
<1>2. /\ Len(tokens) \in Nat /\ Len(links) \in Nat
      /\ \A t \in DOMAIN tokens : tokens[t] \in RefreshToken
      /\ \A l \in DOMAIN links : links[l] \in VerificationToken
      /\ \A u \in Users : Password(u) \in Nat
  BY <1>1 DEF RowsTypeOK, Password
<1>3. /\ 0 \in Nat /\ TRUE \in BOOLEAN /\ FALSE \in BOOLEAN
      /\ "register" \in Ops /\ "login" \in Ops /\ "refresh" \in Ops
      /\ "resend" \in Ops /\ "verify" \in Ops /\ "forgot" \in Ops
      /\ "reset" \in Ops
  BY DEF Ops
<1>4. ASSUME NEW u \in Users, Register(r, u) PROVE AccessInv'
  <2>1. \A k \in ActiveLinks(u, "email_verification") : FALSE
    BY <1>1, <1>4 DEF Register, RowsOfUsers, ActiveLinks
  <2>2. Founded("register", u, 0, Len(links))
    BY <1>2, <2>1 DEF Founded
  <2>3. Begin(r, "register", TRUE, u, 0, 0, Len(links))
    BY <1>4 DEF Register
  <2> QED
    BY <1>2, <1>3, <2>2, <2>3, BeginKeeps
<1>5. ASSUME NEW u \in Users, Login(r, u) PROVE AccessInv'
  <2>1. Founded("login", u, 0, Len(tokens))
    BY <1>2, <1>5 DEF Founded, Login, Active
  <2>2. Begin(r, "login", TRUE, u, 0, Password(u), Len(tokens))
    BY <1>5 DEF Login
  <2> QED
    BY <1>2, <1>3, <2>1, <2>2, BeginKeeps
<1>6. ASSUME NEW u \in Users, Resend(r, u) PROVE AccessInv'
  <2>1. Founded("resend", u, 0, Len(links))
    BY <1>2, <1>6 DEF Founded, Resend
  <2>2. Begin(r, "resend", TRUE, u, 0, 0, Len(links))
    BY <1>6 DEF Resend
  <2> QED
    BY <1>2, <1>3, <2>1, <2>2, BeginKeeps
<1>7. ASSUME NEW u \in Users, Forgot(r, u) PROVE AccessInv'
  <2>1. Founded("forgot", u, 0, Len(links))
    BY <1>2, <1>7 DEF Founded, Forgot
  <2>2. Begin(r, "forgot", TRUE, u, 0, 0, Len(links))
    BY <1>7 DEF Forgot
  <2> QED
    BY <1>2, <1>3, <2>1, <2>2, BeginKeeps
<1>8. ASSUME NEW t \in Ids, Refresh(r, t) PROVE AccessInv'
  <2>1. t \in DOMAIN tokens /\ tokens[t].valid /\ t \in Nat
    BY <1>8, IdsAreNumbers DEF Refresh, Usable
  <2>2. t # 0
    BY <1>1, <2>1 DEF RowsTypeOK
  <2>3. \A s \in DOMAIN tokens : tokens[s].parent # t
    BY <1>1, <2>1, <2>2 DEF TokensOK, ParentsSpent
  <2>4. tokens[t].user \in Users /\ tokens[t].credential \in Nat
    BY <1>2, <2>1 DEF RefreshToken
  <2>5. Registered(tokens[t].user)
    BY <2>1, <2>4, AccessInvParts DEF RowsOfUsers
  <2>6. Founded("refresh", tokens[t].user, t, Len(tokens))
    BY <1>2, <2>1, <2>3, <2>5 DEF Founded
  <2>7. Begin(r, "refresh", FALSE, tokens[t].user, t, tokens[t].credential,
              Len(tokens))
    BY <1>8 DEF Refresh
  <2> QED
    BY <1>2, <1>3, <2>1, <2>4, <2>6, <2>7, BeginKeeps
<1>9. ASSUME NEW l \in Ids, VerifyEmail(r, l) PROVE AccessInv'
  <2>1. l \in DOMAIN links /\ l \in Nat
    BY <1>9, IdsAreNumbers DEF VerifyEmail, Redeemable
  <2>2. links[l].user \in Users /\ Registered(links[l].user)
    BY <1>1, <1>2, <2>1 DEF VerificationToken, RowsOfUsers
  <2>3. Founded("verify", links[l].user, l, Len(links))
    BY <2>2 DEF Founded
  <2>4. Begin(r, "verify", FALSE, links[l].user, l, 0, Len(links))
    BY <1>9 DEF VerifyEmail
  <2> QED
    BY <1>2, <1>3, <2>1, <2>2, <2>3, <2>4, BeginKeeps
<1>10. ASSUME NEW l \in Ids, ResetPassword(r, l) PROVE AccessInv'
  <2>1. l \in DOMAIN links /\ l \in Nat
    BY <1>10, IdsAreNumbers DEF ResetPassword, Redeemable
  <2>2. links[l].user \in Users /\ Registered(links[l].user)
    BY <1>1, <1>2, <2>1 DEF VerificationToken, RowsOfUsers
  <2>3. Founded("reset", links[l].user, l, Len(tokens))
    BY <1>2, <2>2 DEF Founded
  <2>4. Begin(r, "reset", FALSE, links[l].user, l, 0, Len(tokens))
    BY <1>10 DEF ResetPassword
  <2> QED
    BY <1>2, <1>3, <2>1, <2>2, <2>3, <2>4, BeginKeeps
<1> QED
  BY <1>4, <1>5, <1>6, <1>7, <1>8, <1>9, <1>10 DEF Arrive

-----------------------------------------------------------------------------
(* Every action keeps the invariant: handlers that read or flush. *)

\* q is request r as it is open now.
OpenAs(r, q) == request[r] = q /\ q \in Request

LEMMA DoingIsOpen ==
  ASSUME AccessInv, NEW r \in Requests, request[r].op \in Ops
  PROVE  \E q \in Request : OpenAs(r, q) /\ RequestOK(q)
<1>1. request[r] \in Request \cup {Idle} /\ OpenOK
  BY AccessInvParts DEF RowsTypeOK
<1>2. request[r] # Idle
  BY DEF Idle, Ops
<1> QED
  BY <1>1, <1>2 DEF OpenAs, OpenOK

LEMMA RequestReplaced ==
  ASSUME AccessInv, NEW r \in Requests, NEW q \in Request, RequestOK(q),
         request' = [request EXCEPT ![r] = q], OneInsert',
         UNCHANGED <<account, resets, tokens, links, begun>>
  PROVE  AccessInv'
<1>1. RowsTypeOK /\ RowsTypeOK'
  BY AccessInvParts DEF RowsTypeOK
<1>2. request'[r] = q /\ \A p \in Requests \ {r} : request'[p] = request[p]
  BY <1>1 DEF RowsTypeOK
<1>3. RequestOK(request[r])'
  BY <1>2 DEF RequestOK, KnownBounded, ChildrenYounger, SeenActive,
     RivalsYounger, ActiveLinks, Registered, Active
<1> QED
  BY <1>1, <1>2, <1>3, RequestMoves

\* Only an insert can disturb OneInsert.
LEMMA StillOneInsert ==
  ASSUME RowsTypeOK, OneInsert, NEW r \in Requests, NEW q,
         request' = [request EXCEPT ![r] = q], q.op # "register"
  PROVE  OneInsert'
BY DEF RowsTypeOK, OneInsert, Doing, UserOf

LEMMA Touched ==
  ASSUME RowsTypeOK, NEW r \in Requests, NEW q \in Request, OpenAs(r, q),
         NEW rows \in SUBSET Nat, Touch(r, rows)
  PROVE  \E n \in Request :
            /\ request' = [request EXCEPT ![r] = n]
            /\ n.op = q.op /\ n.step = "written" /\ n.user = q.user
            /\ n.item = q.item /\ n.known = q.known /\ n.active = q.active
            /\ n.credential = q.credential /\ n.resets = q.resets
            /\ n.touched = rows
<1> DEFINE m == [q EXCEPT !.step = "written"]
           n == [m EXCEPT !.touched = rows]
<1>1. m \in Request /\ m.op = q.op /\ m.step = "written" /\ m.user = q.user
      /\ m.item = q.item /\ m.known = q.known /\ m.active = q.active
      /\ m.credential = q.credential /\ m.resets = q.resets
  BY DEF Request
<1>2. n \in Request /\ n.op = m.op /\ n.step = m.step /\ n.user = m.user
      /\ n.item = m.item /\ n.known = m.known /\ n.active = m.active
      /\ n.credential = m.credential /\ n.resets = m.resets
      /\ n.touched = rows
  BY <1>1 DEF Request
<1>3. request' = [request EXCEPT ![r] = n]
  BY DEF Touch, OpenAs, RowsTypeOK
<1> QED
  BY <1>1, <1>2, <1>3

LEMMA MovedOn ==
  ASSUME RowsTypeOK, NEW r \in Requests, NEW q \in Request, OpenAs(r, q),
         MoveOn(r, "ready")
  PROVE  \E n \in Request :
            /\ request' = [request EXCEPT ![r] = n]
            /\ n.op = q.op /\ n.step = "ready" /\ n.user = q.user
            /\ n.item = q.item /\ n.known = q.known /\ n.active = q.active
            /\ n.credential = q.credential /\ n.resets = q.resets
<1> DEFINE n == [q EXCEPT !.step = "ready"]
<1>1. n \in Request /\ n.op = q.op /\ n.step = "ready" /\ n.user = q.user
      /\ n.item = q.item /\ n.known = q.known /\ n.active = q.active
      /\ n.credential = q.credential /\ n.resets = q.resets
  BY DEF Request
<1>2. request' = [request EXCEPT ![r] = n]
  BY DEF MoveOn, OpenAs, RowsTypeOK
<1> QED
  BY <1>1, <1>2

\* The account is active when its row is read: the request has seen it so.
LEMMA CheckAccountKeeps ==
  ASSUME AccessInv, NEW r \in Requests, CheckAccount(r) PROVE AccessInv'
<1>1. RowsTypeOK /\ OneInsert
  BY AccessInvParts
<1>2. PICK q \in Request : OpenAs(r, q) /\ RequestOK(q)
  BY DoingIsOpen DEF CheckAccount, Doing, Ops
<1>3. PICK n \in Request :
        /\ request' = [request EXCEPT ![r] = n]
        /\ n.op = q.op /\ n.step = "ready" /\ n.user = q.user
        /\ n.item = q.item /\ n.known = q.known /\ n.active = q.active
  BY <1>1, <1>2, MovedOn DEF CheckAccount
<1>4. q.op = "refresh" /\ Active(q.user)
  BY <1>2 DEF CheckAccount, Doing, OpenAs, UserOf
<1>5. RequestOK(n)
  BY <1>2, <1>3, <1>4 DEF RequestOK, KnownBounded, ChildrenYounger, SeenActive,
     RivalsYounger
<1>6. OneInsert'
  BY <1>1, <1>3, <1>4, StillOneInsert
<1> QED
  BY <1>3, <1>5, <1>6, RequestReplaced DEF CheckAccount

\* The address is free, and no other insert of it is under way.
LEMMA InsertUserKeeps ==
  ASSUME AccessInv, NEW r \in Requests, InsertUser(r) PROVE AccessInv'
<1>1. RowsTypeOK /\ OneInsert
  BY AccessInvParts
<1>2. PICK q \in Request : OpenAs(r, q) /\ RequestOK(q)
  BY DoingIsOpen DEF InsertUser, Doing, Ops
<1>3. PICK n \in Request :
        /\ request' = [request EXCEPT ![r] = n]
        /\ n.op = q.op /\ n.step = "written" /\ n.user = q.user
        /\ n.item = q.item /\ n.known = q.known /\ n.active = q.active
        /\ n.touched = {}
  BY <1>1, <1>2, Touched DEF InsertUser
<1>4. q.op = "register" /\ ~Registered(q.user)
      /\ \A p \in Requests : Doing(p, "register", "written") => UserOf(p) # q.user
  BY <1>2 DEF InsertUser, Doing, OpenAs, UserOf
<1>5. RequestOK(n)
  BY <1>2, <1>3, <1>4 DEF RequestOK, KnownBounded, ChildrenYounger, SeenActive,
     RivalsYounger
<1>6. OneInsert'
  BY <1>1, <1>3, <1>4 DEF RowsTypeOK, OneInsert, Doing, UserOf
<1> QED
  BY <1>3, <1>5, <1>6, RequestReplaced DEF InsertUser

\* Every link that works now is among those the update touches.
LEMMA InvalidateActiveKeeps ==
  ASSUME AccessInv, NEW r \in Requests, InvalidateActive(r) PROVE AccessInv'
<1>1. RowsTypeOK /\ OneInsert
  BY AccessInvParts
<1>2. PICK q \in Request : OpenAs(r, q) /\ RequestOK(q)
  BY DoingIsOpen DEF InvalidateActive, Doing, Ops
<1> DEFINE rows == ActiveLinks(q.user, PurposeOf(q.op))
<1>3. rows \in SUBSET Nat
  BY <1>1 DEF RowsTypeOK, ActiveLinks
<1>4. Touch(r, rows) /\ q.op \in {"resend", "forgot"}
  BY <1>2 DEF InvalidateActive, Doing, OpenAs, UserOf
<1>5. PICK n \in Request :
        /\ request' = [request EXCEPT ![r] = n]
        /\ n.op = q.op /\ n.step = "written" /\ n.user = q.user
        /\ n.item = q.item /\ n.known = q.known /\ n.active = q.active
        /\ n.touched = rows
  BY <1>1, <1>2, <1>3, <1>4, Touched
<1>6. RequestOK(n)
  BY <1>2, <1>4, <1>5 DEF RequestOK, KnownBounded, ChildrenYounger, SeenActive,
     RivalsYounger
<1>7. OneInsert'
  BY <1>1, <1>4, <1>5, StillOneInsert
<1> QED
  BY <1>5, <1>6, <1>7, RequestReplaced DEF InvalidateActive

LEMMA RevokeAllKeeps ==
  ASSUME AccessInv, NEW r \in Requests, RevokeAll(r) PROVE AccessInv'
<1>1. RowsTypeOK /\ OneInsert
  BY AccessInvParts
<1>2. PICK q \in Request : OpenAs(r, q) /\ RequestOK(q)
  BY DoingIsOpen DEF RevokeAll, Doing, Ops
<1> DEFINE rows == {t \in DOMAIN tokens : tokens[t].valid
                                         /\ tokens[t].user = UserOf(r)}
<1>3. rows \in SUBSET Nat
  BY <1>1 DEF RowsTypeOK
<1>4. Touch(r, rows) /\ q.op = "reset"
  BY <1>2 DEF RevokeAll, Doing, OpenAs
<1>5. PICK n \in Request :
        /\ request' = [request EXCEPT ![r] = n]
        /\ n.op = q.op /\ n.step = "written" /\ n.user = q.user
        /\ n.item = q.item /\ n.known = q.known /\ n.active = q.active
        /\ n.touched = rows
  BY <1>1, <1>2, <1>3, <1>4, Touched
<1>6. RequestOK(n)
  BY <1>2, <1>4, <1>5 DEF RequestOK, KnownBounded, ChildrenYounger, SeenActive,
     RivalsYounger
<1>7. OneInsert'
  BY <1>1, <1>4, <1>5, StillOneInsert
<1> QED
  BY <1>5, <1>6, <1>7, RequestReplaced DEF RevokeAll

-----------------------------------------------------------------------------
(* Every action keeps the invariant: commits. *)

LEMMA Ended ==
  ASSUME RowsTypeOK, NEW r \in Requests, End(r)
  PROVE  /\ request'[r] = Idle
         /\ \A p \in Requests : p # r => request'[p] = request[p]
         /\ \A p \in Requests : request'[p] # Idle => p # r /\ request[p] # Idle
         /\ request' \in [Requests -> Request \cup {Idle}]
BY DEF RowsTypeOK, End

\* A token is issued: to an account seen active, and in exchange only for one
\* that is spent now and whose other children are younger than the request.
LEMMA TokenIssued ==
  ASSUME AccessInv, RowsTypeOK', NEW old \in Seq(RefreshToken),
         NEW tok \in RefreshToken,
         tokens' = Append(old, tok), Len(old) = Len(tokens),
         \A t \in DOMAIN tokens :
            /\ old[t].user = tokens[t].user /\ old[t].parent = tokens[t].parent
            /\ old[t].known = tokens[t].known /\ old[t].active = tokens[t].active
            /\ old[t].valid => tokens[t].valid,
         tok.active,
         tok.parent # 0 =>
            /\ tok.parent \in DOMAIN tokens /\ ~old[tok.parent].valid
            /\ \A s \in DOMAIN tokens : tokens[s].parent = tok.parent => tok.known < s
  PROVE  TokensOK' /\ TokensGrow
<1> DEFINE n == Len(tokens)
<1>1. /\ n \in Nat /\ DOMAIN tokens = 1..n /\ Len(tokens') = n + 1
      /\ DOMAIN tokens' = 1..(n + 1)
      /\ tokens'[n + 1] = tok /\ \A t \in 1..n : tokens'[t] = old[t]
  BY AccessInvParts DEF RowsTypeOK
<1>2. TokensGrow
  BY <1>1 DEF TokensGrow
<1>3. ExchangedOnce /\ ParentsSpent /\ InactiveGetsNothing
  BY AccessInvParts DEF TokensOK
<1>4. ExchangedOnce'
  <2> SUFFICES ASSUME NEW s \in 1..(n + 1), NEW t \in 1..(n + 1), s < t,
                      tokens'[s].parent # 0,
                      tokens'[s].parent = tokens'[t].parent
               PROVE  tokens'[t].known < s
    BY <1>1 DEF ExchangedOnce
  <2>1. CASE t \in 1..n
    <3>1. s \in 1..n
      BY <1>1, <2>1
    <3> QED
      BY <1>1, <1>3, <2>1, <3>1 DEF ExchangedOnce
  <2>2. CASE t = n + 1
    <3>1. s \in 1..n
      BY <1>1, <2>2
    <3> QED
      BY <1>1, <2>2, <3>1
  <2> QED
    BY <1>1, <2>1, <2>2
<1>5. ParentsSpent'
  <2> SUFFICES ASSUME NEW t \in 1..(n + 1), tokens'[t].parent # 0
               PROVE  /\ tokens'[t].parent \in 1..(n + 1)
                      /\ ~tokens'[tokens'[t].parent].valid
    BY <1>1 DEF ParentsSpent
  <2>1. CASE t \in 1..n
    BY <1>1, <1>3, <2>1 DEF ParentsSpent
  <2>2. CASE t = n + 1
    BY <1>1, <2>2
  <2> QED
    BY <1>1, <2>1, <2>2
<1>6. InactiveGetsNothing'
  BY <1>1, <1>3 DEF InactiveGetsNothing
<1> QED
  BY <1>2, <1>4, <1>5, <1>6 DEF TokensOK

\* A token is issued, nothing else happens to rows, and the request ends.
LEMMA IssueEnds ==
  ASSUME AccessInv, RowsTypeOK', TokensOK', TokensGrow, NEW r \in Requests,
         End(r), UNCHANGED <<account, links>>,
         Len(tokens') = Len(tokens) + 1,
         Registered(tokens'[Len(tokens) + 1].user)
  PROVE  AccessInv'
<1>1. /\ RowsTypeOK /\ OneInsert /\ OpenOK /\ LiveLinksOverlap /\ RowsOfUsers
  BY AccessInvParts
<1>2. OneInsert' /\ OpenOK'
  BY <1>1, Ended, RequestsStayOrEnd, SameLinksGrow, SameAccountKept
<1>3. LiveLinksOverlap'
  BY <1>1 DEF LiveLinksOverlap, ActiveLinks
<1>4. RowsOfUsers'
  <2>1. /\ Len(tokens) \in Nat /\ DOMAIN tokens = 1..Len(tokens)
        /\ DOMAIN tokens' = 1..(Len(tokens) + 1)
    BY <1>1 DEF RowsTypeOK
  <2> QED
    BY <1>1, <2>1 DEF RowsOfUsers, TokensGrow, Registered
<1> QED
  BY <1>2, <1>3, <1>4, AccessInvPartsNext

LEMMA NewTokenType ==
  ASSUME RowsTypeOK, NEW r \in Requests, NEW q \in Request, OpenAs(r, q),
         NEW parent \in Nat, NEW credential \in Nat
  PROVE  /\ NewToken(r, parent, credential) \in RefreshToken
         /\ NewToken(r, parent, credential).parent = parent
         /\ NewToken(r, parent, credential).credential = credential
         /\ NewToken(r, parent, credential).resets = q.resets
         /\ NewToken(r, parent, credential).user = q.user
         /\ NewToken(r, parent, credential).known = q.known
         /\ NewToken(r, parent, credential).active = q.active
BY DEF NewToken, OpenAs, UserOf, Request, RefreshToken

LEMMA CommitLoginKeeps ==
  ASSUME AccessInv, NEW r \in Requests, CommitLogin(r) PROVE AccessInv'
<1>1. RowsTypeOK
  BY AccessInvParts
<1>2. PICK q \in Request : OpenAs(r, q) /\ RequestOK(q)
  BY DoingIsOpen DEF CommitLogin, Doing, Ops
<1>3. q.op = "login" /\ q.credential \in Nat
  BY <1>2 DEF CommitLogin, Doing, OpenAs, Request
<1>4. PICK tok : tok = NewToken(r, 0, q.credential)
  OBVIOUS
<1>5. /\ tok \in RefreshToken /\ tok.parent = 0 /\ tok.user = q.user
      /\ tok.active = q.active
  BY <1>1, <1>2, <1>3, <1>4, NewTokenType
<1>6. tokens' = Append(tokens, tok) /\ End(r) /\ tokens \in Seq(RefreshToken)
  BY <1>1, <1>2, <1>4 DEF CommitLogin, OpenAs, RowsTypeOK
<1>7. tok.active /\ Registered(tok.user)
  BY <1>2, <1>3, <1>5 DEF RequestOK, SeenActive
<1>8. RowsTypeOK'
  BY <1>1, <1>5, <1>6, Ended DEF RowsTypeOK, CommitLogin
<1>9. TokensOK' /\ TokensGrow
  BY <1>5, <1>6, <1>7, <1>8, TokenIssued
<1>10. Len(tokens') = Len(tokens) + 1 /\ tokens'[Len(tokens) + 1] = tok
  BY <1>5, <1>6
<1> QED
  BY <1>6, <1>7, <1>8, <1>9, <1>10, IssueEnds DEF CommitLogin

\* The token exchanged is spent in the same commit.
LEMMA ExchangeKeeps ==
  ASSUME AccessInv, NEW r \in Requests, Exchange(r) PROVE AccessInv'
<1>1. RowsTypeOK
  BY AccessInvParts
<1>2. PICK q \in Request : OpenAs(r, q) /\ RequestOK(q)
  BY DoingIsOpen DEF Exchange, Doing, Ops
<1>3. q.op = "refresh" /\ q.step = "ready" /\ q.credential \in Nat /\ q.item \in Nat
  BY <1>2 DEF Exchange, Doing, OpenAs, Request
<1>4. PICK tok : tok = NewToken(r, q.item, q.credential)
  OBVIOUS
<1>5. PICK old : old = Invalidated(tokens, {q.item})
  OBVIOUS
<1>6. /\ tok \in RefreshToken /\ tok.parent = q.item /\ tok.user = q.user
      /\ tok.active = q.active /\ tok.known = q.known
  BY <1>1, <1>2, <1>3, <1>4, NewTokenType
<1>7. /\ tokens' = Append(old, tok) /\ End(r)
      /\ UNCHANGED <<account, resets, links, begun>>
  BY <1>2, <1>4, <1>5 DEF Exchange, OpenAs, Item
<1>8. tok.active /\ Registered(tok.user)
  BY <1>2, <1>3, <1>6 DEF RequestOK, SeenActive
<1>9. /\ old \in Seq(RefreshToken) /\ Len(old) = Len(tokens)
      /\ \A t \in DOMAIN tokens :
           /\ old[t].user = tokens[t].user /\ old[t].parent = tokens[t].parent
           /\ old[t].known = tokens[t].known /\ old[t].active = tokens[t].active
           /\ old[t].valid => tokens[t].valid
           /\ t = q.item => ~old[t].valid
  BY <1>1, <1>5, TokensInvalidated DEF RowsTypeOK
<1>10. RowsTypeOK'
  <2>1. tokens' \in Seq(RefreshToken)
    BY <1>6, <1>7, <1>9
  <2>2. request' \in [Requests -> Request \cup {Idle}]
    BY <1>1, <1>7, Ended
  <2> QED
    BY <1>1, <1>7, <2>1, <2>2 DEF RowsTypeOK
<1>11. /\ q.item \in DOMAIN tokens
       /\ \A s \in DOMAIN tokens : tokens[s].parent = q.item => q.known < s
  BY <1>2, <1>3 DEF RequestOK, ChildrenYounger
<1>12. TokensOK' /\ TokensGrow
  BY <1>6, <1>7, <1>8, <1>9, <1>10, <1>11, TokenIssued
<1>13. Len(tokens') = Len(tokens) + 1 /\ tokens'[Len(tokens) + 1] = tok
  BY <1>6, <1>7, <1>9
<1> QED
  BY <1>7, <1>8, <1>10, <1>12, <1>13, IssueEnds

\* The new link comes after the request's invalidations: what still works
\* beside it was committed while the request was open.
LEMMA CommitLinkKeeps ==
  ASSUME AccessInv, NEW r \in Requests, CommitLink(r) PROVE AccessInv'
<1>1. /\ RowsTypeOK /\ TokensOK /\ OneInsert /\ OpenOK /\ LiveLinksOverlap
      /\ RowsOfUsers
  BY AccessInvParts
<1>2. PICK q \in Request : OpenAs(r, q) /\ RequestOK(q)
  BY DoingIsOpen DEF CommitLink, Ops
<1>3. /\ q.op \in {"register", "resend", "forgot"} /\ q.step = "written"
      /\ q.user \in Users /\ q.known \in Nat
  BY <1>2 DEF CommitLink, OpenAs, Request
<1>4. PICK new : new = NewLink(r, PurposeOf(q.op))
  OBVIOUS
<1>5. PICK old : old = Invalidated(links, q.touched)
  OBVIOUS
<1>6. /\ new \in VerificationToken /\ new.user = q.user /\ new.known = q.known
      /\ new.purpose = PurposeOf(q.op)
  BY <1>2, <1>3, <1>4 DEF NewLink, OpenAs, UserOf, PurposeOf, Purposes,
     VerificationToken
<1>7. /\ links' = Append(old, new) /\ End(r)
      /\ UNCHANGED <<resets, tokens, begun>>
      /\ account' = IF q.op = "register"
                    THEN [account EXCEPT ![q.user] = NewAccount] ELSE account
  BY <1>2, <1>4, <1>5 DEF CommitLink, OpenAs, UserOf
<1> DEFINE n == Len(links)
<1>8. /\ old \in Seq(VerificationToken) /\ Len(old) = n
      /\ \A l \in DOMAIN links :
           /\ old[l].user = links[l].user /\ old[l].purpose = links[l].purpose
           /\ old[l].known = links[l].known
           /\ old[l].valid => links[l].valid /\ l \notin q.touched
  BY <1>1, <1>5, LinksInvalidated DEF RowsTypeOK
<1>9. /\ n \in Nat /\ DOMAIN links = 1..n /\ DOMAIN links' = 1..(n + 1)
      /\ Len(links') = n + 1
      /\ links'[n + 1] = new /\ \A l \in 1..n : links'[l] = old[l]
  BY <1>1, <1>6, <1>7, <1>8 DEF RowsTypeOK
<1>10. NewAccount \in Account /\ NewAccount # None
  BY NewAccountType, NoneIsNoAccount
<1>11. RowsTypeOK'
  <2>1. links' \in Seq(VerificationToken)
    BY <1>6, <1>7, <1>8
  <2>2. request' \in [Requests -> Request \cup {Idle}]
    BY <1>1, <1>7, Ended
  <2>3. account' \in [Users -> Account \cup {None}]
    BY <1>1, <1>3, <1>7, <1>10 DEF RowsTypeOK
  <2> QED
    BY <1>1, <1>7, <2>1, <2>2, <2>3 DEF RowsTypeOK
<1>12. LinksGrow /\ TokensGrow
  BY <1>1, <1>7, <1>8, <1>9, SameTokensGrow DEF LinksGrow
<1>13. /\ account'[q.user] # None
       /\ \A u \in Users : u # q.user => account'[u] = account[u]
       /\ q.op # "register" => account' = account
       /\ q.op = "register" => account[q.user] = None
  BY <1>1, <1>2, <1>3, <1>7, <1>10
  DEF RequestOK, SeenActive, RivalsYounger, Registered, RowsTypeOK
<1>14. TokensOK'
  BY <1>1, <1>7 DEF TokensOK, ExchangedOnce, ParentsSpent, InactiveGetsNothing
<1>15. RowsOfUsers'
  <2>1. \A u \in Users : account[u] # None => account'[u] # None
    BY <1>13
  <2>2. \A t \in DOMAIN tokens : tokens[t].user \in Users
    <3> TAKE t \in DOMAIN tokens
    <3>1. tokens[t] \in RefreshToken
      BY <1>1 DEF RowsTypeOK
    <3> QED
      BY <3>1 DEF RefreshToken
  <2>3. \A l \in DOMAIN links : links[l].user \in Users
    <3> TAKE l \in DOMAIN links
    <3>1. links[l] \in VerificationToken
      BY <1>1 DEF RowsTypeOK
    <3> QED
      BY <3>1 DEF VerificationToken
  <2>4. \A l \in 1..(n + 1) : account'[links'[l].user] # None
    <3> SUFFICES ASSUME NEW l \in 1..(n + 1) PROVE account'[links'[l].user] # None
      OBVIOUS
    <3>1. CASE l \in 1..n
      BY <1>1, <1>8, <1>9, <2>1, <2>3, <3>1 DEF RowsOfUsers, Registered
    <3>2. CASE l = n + 1
      BY <1>6, <1>9, <1>13, <3>2
    <3> QED
      BY <1>9, <3>1, <3>2
  <2> QED
    BY <1>1, <1>7, <1>9, <2>1, <2>2, <2>4 DEF RowsOfUsers, Registered
<1>16. LiveLinksOverlap'
  <2> SUFFICES ASSUME NEW u \in Users, NEW purpose \in Purposes,
                      NEW k \in ActiveLinks(u, purpose)',
                      NEW l \in ActiveLinks(u, purpose)', k < l
               PROVE  links'[l].known < k
    BY DEF LiveLinksOverlap
  <2>1. /\ k \in 1..(n + 1) /\ l \in 1..(n + 1)
        /\ links'[k].valid /\ links'[k].user = u /\ links'[k].purpose = purpose
        /\ links'[l].valid /\ links'[l].user = u /\ links'[l].purpose = purpose
    BY <1>9 DEF ActiveLinks
  <2>2. k \in 1..n
    BY <1>9, <2>1
  <2>3. k \in ActiveLinks(u, purpose) /\ k \notin q.touched
    BY <1>8, <1>9, <2>1, <2>2 DEF ActiveLinks
  <2>4. CASE l \in 1..n
    <3>1. l \in ActiveLinks(u, purpose)
      BY <1>8, <1>9, <2>1, <2>4 DEF ActiveLinks
    <3>2. links[l].known < k
      BY <1>1, <2>3, <3>1 DEF LiveLinksOverlap
    <3> QED
      BY <1>8, <1>9, <2>4, <3>2
  <2>5. CASE l = n + 1
    <3>1. u = q.user /\ purpose = PurposeOf(q.op) /\ links'[l].known = q.known
      BY <1>6, <1>9, <2>1, <2>5
    <3>2. q.known < k
      BY <1>2, <1>3, <2>3, <3>1 DEF RequestOK, RivalsYounger, PurposeOf
    <3> QED
      BY <3>1, <3>2
  <2> QED
    BY <1>9, <2>1, <2>4, <2>5
<1>17. ASSUME NEW p \in Requests, request'[p] # Idle
       PROVE  AccountKept(request[p])
  <2>1. p # r /\ request[p] # Idle
    BY <1>1, <1>7, <1>17, Ended
  <2>2. PICK o \in Request : request[p] = o /\ RequestOK(o)
    BY <1>1, <2>1 DEF RowsTypeOK, OpenOK
  <2>3. o.user \in Users
    BY DEF Request
  <2>4. CASE o.user = q.user /\ q.op = "register"
    <3>1. ~(o.op = "register" /\ o.step = "written")
      BY <1>1, <1>2, <1>3, <2>1, <2>2, <2>4 DEF OneInsert, Doing, UserOf, OpenAs
    <3>2. o.op = "register"
      BY <1>13, <2>2, <2>4 DEF RequestOK, SeenActive, Registered
    <3> QED
      BY <2>2, <3>1, <3>2 DEF AccountKept
  <2>5. CASE ~(o.user = q.user /\ q.op = "register")
    BY <1>13, <2>2, <2>3, <2>5 DEF AccountKept
  <2> QED
    BY <2>4, <2>5
<1>18. OneInsert' /\ OpenOK'
  BY <1>1, <1>7, <1>11, <1>12, <1>17, Ended, RequestsStayOrEnd
<1> QED
  BY <1>11, <1>14, <1>15, <1>16, <1>18, AccessInvPartsNext

\* Rows only lose validity, accounts stay as they are known to requests, and
\* requests end or go on.
LEMMA QuietCommit ==
  ASSUME AccessInv, RowsTypeOK', TokensGrow, LinksGrow,
         Len(tokens') = Len(tokens), Len(links') = Len(links),
         \A p \in Requests : request'[p] = request[p] \/ request'[p] = Idle,
         \A u \in Users : 
            /\ account[u] = None => account'[u] = None
            /\ account[u] # None =>
                 account'[u] # None /\ account'[u].active = account[u].active
  PROVE  AccessInv'
<1>1. /\ RowsTypeOK /\ TokensOK /\ OneInsert /\ OpenOK /\ LiveLinksOverlap
      /\ RowsOfUsers
  BY AccessInvParts
<1>2. TokensOK' /\ LiveLinksOverlap' /\ RowsOfUsers'
  BY <1>1, FewerValidTokens, FewerValidLinks, SameRowsOfUsers
<1>3. ASSUME NEW p \in Requests, request'[p] # Idle
      PROVE  AccountKept(request[p])
  <2>1. PICK q \in Request : request[p] = q
    BY <1>1, <1>3 DEF RowsTypeOK
  <2>2. q.user \in Users
    BY DEF Request
  <2> QED
    BY <2>1, <2>2 DEF AccountKept
<1>4. OneInsert' /\ OpenOK'
  BY <1>1, <1>3, RequestsStayOrEnd
<1> QED
  BY <1>2, <1>4, AccessInvPartsNext

LEMMA CommitVerifiedKeeps ==
  ASSUME AccessInv, NEW r \in Requests, CommitVerified(r) PROVE AccessInv'
<1>1. RowsTypeOK
  BY AccessInvParts
<1>2. PICK q \in Request : OpenAs(r, q) /\ RequestOK(q)
  BY DoingIsOpen DEF CommitVerified, Doing, Ops
<1>3. q.op = "verify" /\ q.user \in Users
  BY <1>2 DEF CommitVerified, Doing, OpenAs, Request
<1>4. /\ account' = [account EXCEPT ![q.user].verified = TRUE]
      /\ links' = Invalidated(links, {q.item}) /\ End(r)
      /\ UNCHANGED <<resets, tokens, begun>>
  BY <1>2 DEF CommitVerified, OpenAs, UserOf, Item
<1>5. account[q.user] \in Account
  BY <1>1, <1>2, <1>3 DEF RequestOK, SeenActive, Registered, RowsTypeOK
<1>6. PICK a : a = [account[q.user] EXCEPT !.verified = TRUE]
  OBVIOUS
<1>7. a \in Account /\ a.active = account[q.user].active
  BY <1>5, <1>6 DEF Account
<1>8. account' = [account EXCEPT ![q.user] = a]
  BY <1>4, <1>6
<1>9. links' \in Seq(VerificationToken) /\ Len(links') = Len(links) /\ LinksGrow
  BY <1>1, <1>4, LinksInvalidated, InvalidatedLinksGrow DEF RowsTypeOK
<1>10. RowsTypeOK'
  <2>1. request' \in [Requests -> Request \cup {Idle}]
    BY <1>1, <1>4, Ended
  <2>2. account' \in [Users -> Account \cup {None}]
    BY <1>1, <1>7, <1>8 DEF RowsTypeOK
  <2> QED
    BY <1>1, <1>4, <1>9, <2>1, <2>2 DEF RowsTypeOK
<1>11. \A u \in Users :
         /\ account[u] = None => account'[u] = None
         /\ account[u] # None =>
              account'[u] # None /\ account'[u].active = account[u].active
  BY <1>1, <1>3, <1>5, <1>7, <1>8, NoneIsNoAccount DEF RowsTypeOK
<1>12. TokensGrow /\ Len(tokens') = Len(tokens)
  BY <1>1, <1>4, SameTokensGrow
<1>13. \A p \in Requests : request'[p] = request[p] \/ request'[p] = Idle
  BY <1>1, <1>4, Ended
<1> QED
  BY <1>9, <1>10, <1>11, <1>12, <1>13, QuietCommit

LEMMA CommitResetKeeps ==
  ASSUME AccessInv, NEW r \in Requests, CommitReset(r) PROVE AccessInv'
<1>1. RowsTypeOK
  BY AccessInvParts
<1>2. PICK q \in Request : OpenAs(r, q) /\ RequestOK(q)
  BY DoingIsOpen DEF CommitReset, Doing, Ops
<1>3. q.user \in Users /\ q.known \in Nat
  BY DEF Request
<1>4. /\ resets' = [resets EXCEPT ![q.user] = Append(@, q.known)]
      /\ tokens' = Invalidated(tokens, q.touched)
      /\ links' = Invalidated(links, {q.item}) /\ End(r)
      /\ UNCHANGED <<account, begun>>
  BY <1>2 DEF CommitReset, OpenAs, UserOf, Item
<1>5. links' \in Seq(VerificationToken) /\ Len(links') = Len(links) /\ LinksGrow
  BY <1>1, <1>4, LinksInvalidated, InvalidatedLinksGrow DEF RowsTypeOK
<1>6. tokens' \in Seq(RefreshToken) /\ Len(tokens') = Len(tokens) /\ TokensGrow
  BY <1>1, <1>4, TokensInvalidated, InvalidatedTokensGrow DEF RowsTypeOK
<1>7. resets' \in [Users -> Seq(Nat)]
  <2>1. Append(resets[q.user], q.known) \in Seq(Nat)
    BY <1>1, <1>3 DEF RowsTypeOK
  <2> QED
    BY <1>1, <1>4, <2>1 DEF RowsTypeOK
<1>8. RowsTypeOK'
  <2>1. request' \in [Requests -> Request \cup {Idle}]
    BY <1>1, <1>4, Ended
  <2> QED
    BY <1>1, <1>4, <1>5, <1>6, <1>7, <2>1 DEF RowsTypeOK
<1>9. \A p \in Requests : request'[p] = request[p] \/ request'[p] = Idle
  BY <1>1, <1>4, Ended
<1> QED
  BY <1>4, <1>5, <1>6, <1>8, <1>9, QuietCommit

LEMMA FailKeeps ==
  ASSUME AccessInv, NEW r \in Requests, Fail(r) PROVE AccessInv'
<1>1. RowsTypeOK
  BY AccessInvParts
<1>2. End(r) /\ UNCHANGED <<account, resets, tokens, links, begun>>
  BY DEF Fail
<1>3. RowsTypeOK'
  BY <1>1, <1>2, Ended DEF RowsTypeOK
<1>4. \A p \in Requests : request'[p] = request[p] \/ request'[p] = Idle
  BY <1>1, <1>2, Ended
<1> QED
  BY <1>1, <1>2, <1>3, <1>4, QuietCommit, SameTokensGrow, SameLinksGrow

LEMMA HandleKeeps ==
  ASSUME AccessInv, NEW r \in Requests, Handle(r) PROVE AccessInv'
BY CommitLoginKeeps, CheckAccountKeeps, ExchangeKeeps, InsertUserKeeps,
   InvalidateActiveKeeps, CommitLinkKeeps, CommitVerifiedKeeps, RevokeAllKeeps,
   CommitResetKeeps, FailKeeps DEF Handle

-----------------------------------------------------------------------------
(* Every action keeps the invariant: what happens beside the requests. *)

LEMMA ExpireTokenKeeps ==
  ASSUME AccessInv, NEW t, ExpireToken(t) PROVE AccessInv'
<1>1. RowsTypeOK
  BY AccessInvParts
<1>2. /\ tokens' = Invalidated(tokens, {t})
      /\ UNCHANGED <<account, resets, links, request, begun>>
  BY DEF ExpireToken
<1>3. tokens' \in Seq(RefreshToken) /\ Len(tokens') = Len(tokens) /\ TokensGrow
  BY <1>1, <1>2, TokensInvalidated, InvalidatedTokensGrow DEF RowsTypeOK
<1>4. RowsTypeOK'
  BY <1>1, <1>2, <1>3 DEF RowsTypeOK
<1> QED
  BY <1>1, <1>2, <1>3, <1>4, QuietCommit, SameLinksGrow

LEMMA ExpireLinkKeeps ==
  ASSUME AccessInv, NEW l, ExpireLink(l) PROVE AccessInv'
<1>1. RowsTypeOK
  BY AccessInvParts
<1>2. /\ links' = Invalidated(links, {l})
      /\ UNCHANGED <<account, resets, tokens, request, begun>>
  BY DEF ExpireLink
<1>3. links' \in Seq(VerificationToken) /\ Len(links') = Len(links) /\ LinksGrow
  BY <1>1, <1>2, LinksInvalidated, InvalidatedLinksGrow DEF RowsTypeOK
<1>4. RowsTypeOK'
  BY <1>1, <1>2, <1>3 DEF RowsTypeOK
<1> QED
  BY <1>1, <1>2, <1>3, <1>4, QuietCommit, SameTokensGrow

LEMMA NothingHappensKeeps ==
  ASSUME AccessInv, UNCHANGED accounts PROVE AccessInv'
<1>1. RowsTypeOK
  BY AccessInvParts
<1>2. UNCHANGED <<account, resets, tokens, links, request, begun>>
  BY DEF accounts
<1>3. RowsTypeOK'
  BY <1>1, <1>2 DEF RowsTypeOK
<1> QED
  BY <1>1, <1>2, <1>3, QuietCommit, SameTokensGrow, SameLinksGrow

\* An open request of the user has seen the account active before or after.
LEMMA SetActiveKeeps ==
  ASSUME AccessInv, NEW u \in Users, NEW b \in BOOLEAN, SetActive(u, b)
  PROVE  AccessInv'
<1>1. /\ RowsTypeOK /\ TokensOK /\ OneInsert /\ OpenOK /\ LiveLinksOverlap
      /\ RowsOfUsers
  BY AccessInvParts
<1>2. /\ account' = [account EXCEPT ![u].active = b]
      /\ UNCHANGED <<resets, tokens, links, begun>>
      /\ account[u] # None
  BY DEF SetActive, Registered
<1>3. account[u] \in Account
  BY <1>1, <1>2 DEF RowsTypeOK
<1>4. PICK a : a = [account[u] EXCEPT !.active = b]
  OBVIOUS
<1>5. a \in Account /\ a.active = b
  BY <1>3, <1>4 DEF Account
<1>6. /\ account' \in [Users -> Account \cup {None}]
      /\ account'[u] = a /\ a # None
      /\ \A v \in Users : v # u => account'[v] = account[v]
  BY <1>1, <1>2, <1>4, <1>5, NoneIsNoAccount DEF RowsTypeOK
<1>7. ASSUME NEW p \in Requests, request[p] # Idle
      PROVE  /\ request'[p] \in Request /\ request'[p] # Idle
             /\ request'[p].op = request[p].op
             /\ request'[p].step = request[p].step
             /\ request'[p].user = request[p].user
             /\ request'[p].item = request[p].item
             /\ request'[p].known = request[p].known
             /\ request'[p].touched = request[p].touched
             /\ request[p].active => request'[p].active
             /\ request[p].user = u /\ b => request'[p].active
  <2>1. PICK q \in Request : request[p] = q
    BY <1>1, <1>7 DEF RowsTypeOK
  <2>2. CASE q.user = u
    <3>1. PICK c \in BOOLEAN : c = (q.active \/ b)
      OBVIOUS
    <3>2. request'[p] = [q EXCEPT !.active = c]
      BY <1>7, <2>1, <2>2, <3>1 DEF SetActive, UserOf
    <3>3. q.active \in BOOLEAN
      BY DEF Request
    <3> QED
      BY <1>7, <2>1, <3>1, <3>2, <3>3 DEF Request, Idle, Ops
  <2>3. CASE q.user # u
    <3>1. request'[p] = q
      BY <2>1, <2>3 DEF SetActive, UserOf
    <3> QED
      BY <1>7, <2>1, <2>3, <3>1
  <2> QED
    BY <2>2, <2>3
<1>8. \A p \in Requests : request[p] = Idle => request'[p] = Idle
  BY DEF SetActive
<1>9. RowsTypeOK'
  <2>1. \A p \in Requests : request'[p] \in Request \cup {Idle}
    BY <1>7, <1>8
  <2>2. request' \in [Requests -> Request \cup {Idle}]
    BY <2>1 DEF SetActive
  <2> QED
    BY <1>1, <1>2, <1>6, <2>2 DEF RowsTypeOK
<1>10. TokensOK' /\ LiveLinksOverlap' /\ RowsOfUsers'
  <2>1. \A v \in Users : account[v] # None => account'[v] # None
    BY <1>6
  <2> QED
    BY <1>1, <1>2, <1>9, <2>1, FewerValidTokens, FewerValidLinks, SameRowsOfUsers,
       SameTokensGrow, SameLinksGrow
<1>11. OneInsert'
  BY <1>1, <1>7, <1>8 DEF OneInsert, Doing, UserOf, Idle
<1>12. ASSUME NEW p \in Requests, request'[p] # Idle
       PROVE  RequestOK(request[p])'
  <2>1. PICK q \in Request : request[p] = q /\ RequestOK(q)
    BY <1>1, <1>8, <1>12 DEF RowsTypeOK, OpenOK
  <2>2. q.user \in Users
    BY DEF Request
  <2>3. /\ account[q.user] = None => account'[q.user] = None
        /\ account[q.user] # None => account'[q.user] # None
        /\ q.user # u => account'[q.user] = account[q.user]
        /\ account'[u].active = b
    BY <1>2, <1>5, <1>6, <2>2
  <2>4. KnownBounded(request[p])' /\ ChildrenYounger(request[p])'
    BY <1>2, <1>7, <1>8, <1>12, <2>1 DEF RequestOK, KnownBounded, ChildrenYounger
  <2>5. SeenActive(request[p])'
    BY <1>7, <1>8, <1>12, <2>1, <2>3 DEF RequestOK, SeenActive, Active, Registered
  <2>6. RivalsYounger(request[p])'
    BY <1>2, <1>7, <1>8, <1>12, <2>1, <2>3
    DEF RequestOK, RivalsYounger, ActiveLinks, Registered
  <2> QED
    BY <2>4, <2>5, <2>6 DEF RequestOK
<1>13. OpenOK'
  BY <1>12 DEF OpenOK
<1> QED
  BY <1>9, <1>10, <1>11, <1>13, AccessInvPartsNext

LEMMA BesideKeeps ==
  ASSUME AccessInv, Beside PROVE AccessInv'
<1>1. CASE UNCHANGED accounts
  BY <1>1, NothingHappensKeeps
<1>2. ASSUME NEW u \in Users, NEW b \in BOOLEAN, SetActive(u, b) PROVE AccessInv'
  BY <1>2, SetActiveKeeps
<1>3. ASSUME NEW i \in Ids, ExpireToken(i) \/ ExpireLink(i) PROVE AccessInv'
  BY <1>3, ExpireTokenKeeps, ExpireLinkKeeps
<1> QED
  BY <1>1, <1>2, <1>3 DEF Beside, TimePasses, PassThrough, TurnAway

LEMMA AccessInitHolds == AccessInit => AccessInv
<1> SUFFICES ASSUME AccessInit PROVE AccessInv
  OBVIOUS
<1>1. RowsTypeOK
  BY NewAccountType, MaxRequestsAssumption DEF AccessInit, RowsTypeOK
<1>2. TokensOK /\ LiveLinksOverlap /\ RowsOfUsers
  BY DEF AccessInit, TokensOK, ExchangedOnce, ParentsSpent, InactiveGetsNothing,
     LiveLinksOverlap, ActiveLinks, RowsOfUsers
<1>3. OneInsert /\ OpenOK
  BY DEF AccessInit, OneInsert, OpenOK, Doing, Idle
<1> QED
  BY <1>1, <1>2, <1>3, AccessInvParts

LEMMA AccessStep == AccessInv /\ [AccessNext]_avars => AccessInv'
<1>1. UNCHANGED avars => UNCHANGED accounts
  BY DEF avars, accounts
<1> QED
  BY <1>1, ArriveKeeps, HandleKeeps, BesideKeeps, NothingHappensKeeps
  DEF AccessNext

-----------------------------------------------------------------------------
(* Sessions and password resets: what a token goes back to stays what it    *)
(* is, and a request of an older password was open beside the reset.        *)

SessionRows ==
    /\ \A t \in DOMAIN tokens :
         /\ tokens[t].resets <= Len(resets[tokens[t].user])
         /\ tokens[t].parent # 0 =>
              tokens[tokens[t].parent].user = tokens[t].user
    /\ \A u \in Users : \A n \in DOMAIN resets[u] : resets[u][n] <= Len(tokens)

SessionRequest(q) ==
    /\ q.resets <= Len(resets[q.user])
    /\ q.op = "login" => q.credential = q.resets
    /\ q.op = "refresh" =>
         /\ tokens[q.item].user = q.user
         /\ \A n \in (q.credential + 1)..q.resets : Raced(q.item, n)
    /\ q.op = "reset" /\ q.step = "written" =>
         \A t \in DOMAIN tokens :
             tokens[t].valid /\ tokens[t].user = q.user
                 => t \in q.touched \/ q.known < t

SessionInv ==
    /\ SessionRows /\ SurvivorsRaced
    /\ \A r \in Requests : request[r] # Idle => SessionRequest(request[r])

LEMMA RowTypes ==
  ASSUME RowsTypeOK
  PROVE  /\ Len(tokens) \in Nat /\ DOMAIN tokens = 1..Len(tokens)
         /\ \A t \in DOMAIN tokens :
              /\ tokens[t] \in RefreshToken /\ tokens[t].user \in Users
              /\ tokens[t].resets \in Nat /\ tokens[t].credential \in Nat
              /\ tokens[t].parent \in Nat
         /\ \A u \in Users :
              /\ Len(resets[u]) \in Nat /\ DOMAIN resets[u] = 1..Len(resets[u])
              /\ \A n \in DOMAIN resets[u] : resets[u][n] \in Nat
<1>1. tokens \in Seq(RefreshToken) /\ \A u \in Users : resets[u] \in Seq(Nat)
  BY DEF RowsTypeOK
<1>2. \A t \in DOMAIN tokens : tokens[t] \in RefreshToken
  BY <1>1
<1>3. ASSUME NEW u \in Users
      PROVE  /\ Len(resets[u]) \in Nat /\ DOMAIN resets[u] = 1..Len(resets[u])
             /\ \A n \in DOMAIN resets[u] : resets[u][n] \in Nat
  BY <1>1
<1> QED
  BY <1>1, <1>2, <1>3 DEF RefreshToken

\* All tokens of a chain are one user's.
LEMMA GoesBackToUser ==
  ASSUME ParentsSpent, SessionRows, NEW t \in DOMAIN tokens,
         NEW s \in DOMAIN tokens, GoesBackTo(t, s)
  PROVE  tokens[s].user = tokens[t].user
<1> DEFINE S == {x \in DOMAIN tokens : tokens[x].user = tokens[t].user}
<1>1. S \in SUBSET (DOMAIN tokens) /\ t \in S
  OBVIOUS
<1>2. \A x \in S : tokens[x].parent # 0 => tokens[x].parent \in S
  BY DEF ParentsSpent, SessionRows
<1>3. s \in S
  BY <1>1, <1>2 DEF GoesBackTo
<1> QED
  BY <1>3

\* No step takes a token, an exchange or a reset back.
SessionsGrow ==
    /\ Len(tokens) <= Len(tokens')
    /\ \A t \in DOMAIN tokens :
         /\ tokens'[t].user = tokens[t].user
         /\ tokens'[t].parent = tokens[t].parent
         /\ tokens'[t].credential = tokens[t].credential
         /\ tokens'[t].resets = tokens[t].resets
         /\ tokens'[t].valid => tokens[t].valid
    /\ \A u \in Users :
         /\ Len(resets[u]) <= Len(resets'[u])
         /\ \A n \in DOMAIN resets[u] : resets'[u][n] = resets[u][n]

\* What is known of the tokens a step adds, and of the resets.
FreshTokens ==
    \A t \in DOMAIN tokens' : t \notin DOMAIN tokens =>
        /\ tokens'[t].resets <= Len(resets'[tokens'[t].user])
        /\ tokens'[t].parent # 0 =>
             tokens'[tokens'[t].parent].user = tokens'[t].user
        /\ \A n \in (tokens'[t].credential + 1)..Len(resets'[tokens'[t].user]) :
             Raced(t, n)'

FreshResets ==
    \A u \in Users : \A n \in DOMAIN resets'[u] : n \notin DOMAIN resets[u] =>
        /\ resets'[u][n] <= Len(tokens)
        /\ \A t \in DOMAIN tokens :
             tokens'[t].valid /\ tokens[t].user = u => Overlaps(t, n)'

LEMMA GoesBackStays ==
  ASSUME RowsTypeOK, RowsTypeOK', ParentsSpent, SessionsGrow,
         NEW t \in DOMAIN tokens, NEW s \in DOMAIN tokens, GoesBackTo(t, s)
  PROVE  GoesBackTo(t, s)'
<1> SUFFICES ASSUME NEW S \in SUBSET (DOMAIN tokens'), t \in S,
                    \A x \in S : tokens'[x].parent # 0 => tokens'[x].parent \in S
             PROVE  s \in S
  BY DEF GoesBackTo
<1> DEFINE R == S \cap DOMAIN tokens
<1>1. \A x \in R : tokens[x].parent # 0 => tokens[x].parent \in R
  BY DEF SessionsGrow, ParentsSpent
<1>2. R \in SUBSET (DOMAIN tokens) /\ t \in R
  OBVIOUS
<1>3. s \in R
  BY <1>1, <1>2 DEF GoesBackTo
<1> QED
  BY <1>3

LEMMA RacedStays ==
  ASSUME RowsTypeOK, RowsTypeOK', ParentsSpent, SessionRows, SessionsGrow,
         NEW t \in DOMAIN tokens, NEW n \in DOMAIN resets[tokens[t].user],
         Raced(t, n)
  PROVE  Raced(t, n)'
<1>1. PICK s \in DOMAIN tokens : GoesBackTo(t, s) /\ Overlaps(s, n)
  BY DEF Raced
<1>2. GoesBackTo(t, s)'
  BY <1>1, GoesBackStays
<1>3. tokens[s].user = tokens[t].user /\ tokens[t].user \in Users
  BY <1>1, GoesBackToUser, RowTypes
<1>4. Overlaps(s, n)'
  <2>1. tokens'[s].user = tokens[s].user /\ tokens'[s].resets = tokens[s].resets
    BY <1>1 DEF SessionsGrow
  <2>2. resets'[tokens[s].user][n] = resets[tokens[s].user][n]
    BY <1>3 DEF SessionsGrow
  <2> QED
    BY <1>1, <2>1, <2>2 DEF Overlaps
<1>5. s \in DOMAIN tokens'
  <2>1. /\ Len(tokens) \in Nat /\ DOMAIN tokens = 1..Len(tokens)
        /\ Len(tokens') \in Nat /\ DOMAIN tokens' = 1..Len(tokens')
    BY DEF RowsTypeOK
  <2> QED
    BY <2>1 DEF SessionsGrow
<1> QED
  BY <1>2, <1>4, <1>5 DEF Raced

LEMMA RacedItself ==
  ASSUME NEW t \in DOMAIN tokens', NEW n, Overlaps(t, n)'
  PROVE  Raced(t, n)'
<1>1. GoesBackTo(t, t)'
  BY DEF GoesBackTo
<1> QED
  BY <1>1 DEF Raced

\* The rows, whatever the step adds to them.
LEMMA SessionRowsStay ==
  ASSUME RowsTypeOK, RowsTypeOK', ParentsSpent, SessionRows,
         SurvivorsRaced, SessionsGrow, FreshTokens, FreshResets
  PROVE  SessionRows' /\ SurvivorsRaced'
<1>1. /\ Len(tokens) \in Nat /\ DOMAIN tokens = 1..Len(tokens)
      /\ Len(tokens') \in Nat /\ DOMAIN tokens' = 1..Len(tokens')
      /\ Len(tokens) <= Len(tokens')
  BY DEF RowsTypeOK, SessionsGrow
<1>2. ASSUME NEW u \in Users
      PROVE  /\ Len(resets[u]) \in Nat /\ DOMAIN resets[u] = 1..Len(resets[u])
             /\ Len(resets'[u]) \in Nat
             /\ DOMAIN resets'[u] = 1..Len(resets'[u])
             /\ Len(resets[u]) <= Len(resets'[u])
             /\ \A n \in DOMAIN resets'[u] : resets'[u][n] \in Nat
  <2>1. resets[u] \in Seq(Nat) /\ resets'[u] \in Seq(Nat)
    BY DEF RowsTypeOK
  <2> QED
    BY <2>1 DEF SessionsGrow
<1>3. ASSUME NEW t \in DOMAIN tokens
      PROVE  /\ tokens[t].user \in Users /\ tokens'[t].user = tokens[t].user
             /\ tokens[t].resets \in Nat /\ tokens[t].credential \in Nat
  BY RowTypes DEF SessionsGrow
<1>4. ASSUME NEW t \in DOMAIN tokens'
      PROVE  /\ tokens'[t].resets <= Len(resets'[tokens'[t].user])
             /\ tokens'[t].parent # 0 =>
                  tokens'[tokens'[t].parent].user = tokens'[t].user
  <2>1. CASE t \in DOMAIN tokens
    <3>1. /\ tokens[t].resets <= Len(resets[tokens[t].user])
          /\ tokens'[t].resets = tokens[t].resets
          /\ tokens'[t].parent = tokens[t].parent
      BY <2>1 DEF SessionRows, SessionsGrow
    <3>2. tokens'[t].resets <= Len(resets'[tokens'[t].user])
      BY <1>2, <1>3, <2>1, <3>1
    <3>3. tokens[t].parent # 0 =>
            /\ tokens[t].parent \in DOMAIN tokens
            /\ tokens[tokens[t].parent].user = tokens[t].user
      BY <2>1 DEF SessionRows, ParentsSpent
    <3> QED
      BY <1>3, <2>1, <3>1, <3>2, <3>3
  <2>2. CASE t \notin DOMAIN tokens
    BY <2>2 DEF FreshTokens
  <2> QED
    BY <2>1, <2>2
<1>5. ASSUME NEW u \in Users, NEW n \in DOMAIN resets'[u]
      PROVE  resets'[u][n] <= Len(tokens')
  <2>1. resets'[u][n] <= Len(tokens)
    BY DEF SessionRows, SessionsGrow, FreshResets
  <2> QED
    BY <1>1, <1>2, <2>1
<1>6. ASSUME NEW t \in DOMAIN tokens', tokens'[t].valid,
             NEW n \in (tokens'[t].credential + 1)..Len(resets'[tokens'[t].user])
      PROVE  Raced(t, n)'
  <2>1. CASE t \in DOMAIN tokens
    <3>1. PICK u \in Users : u = tokens[t].user /\ u = tokens'[t].user
      BY <1>3, <2>1
    <3>2. /\ tokens[t].valid /\ tokens'[t].credential = tokens[t].credential
          /\ tokens[t].credential \in Nat
      BY <1>3, <1>6, <2>1 DEF SessionsGrow
    <3>3. n \in DOMAIN resets'[u] /\ n > tokens[t].credential
      BY <1>2, <1>6, <3>1, <3>2
    <3>4. CASE n \in DOMAIN resets[u]
      <4>1. n \in (tokens[t].credential + 1)..Len(resets[u])
        BY <1>2, <3>2, <3>3, <3>4
      <4>2. Raced(t, n)
        BY <2>1, <3>1, <3>2, <4>1 DEF SurvivorsRaced
      <4> QED
        BY <2>1, <3>1, <3>4, <4>2, RacedStays
    <3>5. CASE n \notin DOMAIN resets[u]
      BY <1>6, <2>1, <3>1, <3>3, <3>5, RacedItself DEF FreshResets
    <3> QED
      BY <3>4, <3>5
  <2>2. CASE t \notin DOMAIN tokens
    BY <1>6, <2>2 DEF FreshTokens
  <2> QED
    BY <2>1, <2>2
<1> QED
  BY <1>4, <1>5, <1>6 DEF SessionRows, SurvivorsRaced

\* What an open request relies on survives the steps of others.
LEMMA SessionRequestStays ==
  ASSUME RowsTypeOK, RowsTypeOK', ParentsSpent, SessionRows, SessionsGrow,
         NEW q \in Request, RequestOK(q), SessionRequest(q)
  PROVE  SessionRequest(q)'
<1>1. /\ Len(tokens) \in Nat /\ DOMAIN tokens = 1..Len(tokens)
      /\ Len(tokens') \in Nat /\ DOMAIN tokens' = 1..Len(tokens')
      /\ Len(tokens) <= Len(tokens')
  BY DEF RowsTypeOK, SessionsGrow
<1>2. /\ q.user \in Users /\ q.resets \in Nat /\ q.credential \in Nat
      /\ q.known \in Nat
  BY DEF Request
<1>3. /\ Len(resets[q.user]) \in Nat /\ Len(resets'[q.user]) \in Nat
      /\ DOMAIN resets[q.user] = 1..Len(resets[q.user])
      /\ Len(resets[q.user]) <= Len(resets'[q.user])
  <2>1. resets[q.user] \in Seq(Nat) /\ resets'[q.user] \in Seq(Nat)
    BY <1>2 DEF RowsTypeOK
  <2> QED
    BY <1>2, <2>1 DEF SessionsGrow
<1>4. q.resets <= Len(resets[q.user]) /\ q.resets <= Len(resets'[q.user])
  BY <1>2, <1>3 DEF SessionRequest
<1>5. ASSUME q.op = "refresh"
      PROVE  /\ tokens'[q.item].user = q.user
             /\ \A n \in (q.credential + 1)..q.resets : Raced(q.item, n)'
  <2>1. q.item \in DOMAIN tokens /\ tokens[q.item].user = q.user
    BY <1>5 DEF RequestOK, ChildrenYounger, SessionRequest
  <2>2. ASSUME NEW n \in (q.credential + 1)..q.resets PROVE Raced(q.item, n)'
    <3>1. Raced(q.item, n)
      BY <1>5 DEF SessionRequest
    <3>2. n \in DOMAIN resets[q.user]
      BY <1>2, <1>3, <1>4
    <3> QED
      BY <2>1, <3>1, <3>2, RacedStays
  <2> QED
    BY <2>1, <2>2 DEF SessionsGrow
<1>6. ASSUME q.op = "reset", q.step = "written", NEW t \in DOMAIN tokens',
             tokens'[t].valid, tokens'[t].user = q.user
      PROVE  t \in q.touched \/ q.known < t
  <2>1. CASE t \in DOMAIN tokens
    BY <1>6, <2>1 DEF SessionsGrow, SessionRequest
  <2>2. CASE t \notin DOMAIN tokens
    <3>1. q.known <= Len(tokens)
      BY <1>6 DEF RequestOK, KnownBounded
    <3> QED
      BY <1>1, <1>2, <2>2, <3>1
  <2> QED
    BY <2>1, <2>2
<1> QED
  BY <1>4, <1>5, <1>6 DEF SessionRequest

\* p is q, but for what SessionRequest does not look at.
Alike(p, q) ==
    /\ p \in Request /\ q \in Request
    /\ q.op = p.op /\ q.user = p.user /\ q.item = p.item /\ q.known = p.known
    /\ q.credential = p.credential /\ q.resets = p.resets
    /\ p.op = "reset" => q.step = p.step /\ q.touched = p.touched

\* A step ends requests, changes what does not matter of them, or makes one
\* that is as it should be.
RequestsGoOn ==
    \A r \in Requests : request'[r] # Idle =>
        \/ request[r] # Idle /\ Alike(request[r], request'[r])
        \/ SessionRequest(request[r])'

LEMMA SessionStep ==
  ASSUME AccessInv, AccessInv', SessionInv, SessionsGrow, FreshTokens,
         FreshResets, RequestsGoOn
  PROVE  SessionInv'
<1>1. RowsTypeOK /\ RowsTypeOK' /\ ParentsSpent /\ SessionRows
  BY DEF AccessInv, SessionInv
<1>2. SessionRows' /\ SurvivorsRaced'
  BY <1>1, SessionRowsStay DEF SessionInv
<1>3. ASSUME NEW r \in Requests, request'[r] # Idle
      PROVE  SessionRequest(request[r])'
  <2>1. CASE request[r] # Idle /\ Alike(request[r], request'[r])
    <3>1. PICK p \in Request : p = request[r]
      BY <2>1 DEF Alike
    <3>2. PICK q \in Request : q = request'[r]
      BY <2>1 DEF Alike
    <3>3. RequestOK(p) /\ SessionRequest(p)
      BY <2>1, <3>1 DEF AccessInv, SessionInv
    <3>4. SessionRequest(p)'
      BY <1>1, <3>3, SessionRequestStays
    <3>5. SessionRequest(q)'
      BY <2>1, <3>1, <3>2, <3>4 DEF Alike, SessionRequest
    <3> QED
      BY <3>2, <3>5 DEF SessionRequest
  <2> QED
    BY <1>3, <2>1 DEF RequestsGoOn
<1> QED
  BY <1>2, <1>3 DEF SessionInv

\* The rows stay as they are.
LEMMA SameRowsGrow ==
  ASSUME RowsTypeOK, UNCHANGED <<tokens, resets>>
  PROVE  SessionsGrow /\ FreshTokens /\ FreshResets
BY RowTypes DEF SessionsGrow, FreshTokens, FreshResets

\* Tokens lose their validity.
LEMMA InvalidatedSessionsGrow ==
  ASSUME RowsTypeOK, NEW rows, tokens' = Invalidated(tokens, rows),
         resets' = resets
  PROVE  SessionsGrow /\ FreshTokens /\ FreshResets
<1>1. tokens \in Seq(RefreshToken) /\ tokens' \in Seq(RefreshToken)
      /\ Len(tokens') = Len(tokens)
  BY TokensInvalidated DEF RowsTypeOK
<1>2. DOMAIN tokens' = DOMAIN tokens
  BY <1>1
<1>3. SessionsGrow
  BY <1>1, RowTypes, TokensInvalidated DEF SessionsGrow
<1> QED
  BY <1>2, <1>3 DEF FreshTokens, FreshResets

\* Requests that begin or end, or move on without touching rows.
LEMMA OthersGoOn ==
  ASSUME RowsTypeOK, NEW r \in Requests,
         \A p \in Requests : p # r => request'[p] = request[p],
         \/ request'[r] = Idle
         \/ request[r] # Idle /\ Alike(request[r], request'[r])
         \/ SessionRequest(request[r])'
  PROVE  RequestsGoOn
BY DEF RequestsGoOn, Alike, RowsTypeOK

\* A request begins: its token's session has raced every reset since.
LEMMA BeginSessions ==
  ASSUME AccessInv, AccessInv', SessionInv, NEW r \in Requests, NEW op \in Ops,
         NEW strict, NEW u \in Users, NEW item, NEW credential, NEW known,
         Begin(r, op, strict, u, item, credential, known),
         op = "login" => credential = Password(u),
         op = "refresh" =>
            /\ item \in DOMAIN tokens /\ tokens[item].valid
            /\ tokens[item].user = u /\ tokens[item].credential = credential
  PROVE  SessionInv'
<1>1. RowsTypeOK /\ RowsTypeOK'
  BY DEF AccessInv
<1>2. PICK active : active = Active(u)
  OBVIOUS
<1>3. PICK q : q = [op |-> op, step |-> "read", user |-> u, item |-> item,
          credential |-> credential, resets |-> Len(resets[u]),
          known |-> known, active |-> active, touched |-> {}]
  OBVIOUS
<1>4. /\ request' = [request EXCEPT ![r] = q]
      /\ tokens' = tokens /\ resets' = resets
  BY <1>2, <1>3 DEF Begin
<1>5. request'[r] = q /\ \A p \in Requests : p # r => request'[p] = request[p]
  BY <1>1, <1>4 DEF RowsTypeOK
<1>6. /\ q.op = op /\ q.step = "read" /\ q.user = u /\ q.item = item
      /\ q.credential = credential /\ q.resets = Len(resets[u])
  BY <1>3
<1>7. SessionRequest(q)
  <2>1. q.resets <= Len(resets[q.user])
    BY <1>1, <1>6, RowTypes
  <2>2. ASSUME op = "refresh"
        PROVE  \A n \in (credential + 1)..Len(resets[u]) : Raced(item, n)
    BY <2>2 DEF SessionInv, SurvivorsRaced
  <2> QED
    BY <1>6, <2>1, <2>2 DEF SessionRequest, Password
<1>8. SessionRequest(request[r])'
  BY <1>4, <1>5, <1>7
  DEF SessionRequest, Raced, Overlaps, GoesBackTo
<1> QED
  BY <1>1, <1>4, <1>5, <1>8, OthersGoOn, SameRowsGrow, SessionStep

LEMMA ArriveSessions ==
  ASSUME AccessInv, AccessInv', SessionInv, NEW r \in Requests, Arrive(r)
  PROVE  SessionInv'
<1>1. RowsTypeOK
  BY DEF AccessInv
<1>2. /\ \A t \in DOMAIN tokens : tokens[t].user \in Users
      /\ \A l \in DOMAIN links : links[l].user \in Users
  <2>1. \A l \in DOMAIN links : links[l] \in VerificationToken
    BY <1>1 DEF RowsTypeOK
  <2> QED
    BY <1>1, <2>1, RowTypes DEF VerificationToken
<1>3. /\ "register" \in Ops /\ "login" \in Ops /\ "refresh" \in Ops
      /\ "resend" \in Ops /\ "verify" \in Ops /\ "forgot" \in Ops
      /\ "reset" \in Ops
  BY DEF Ops
<1>4. ASSUME NEW u \in Users,
             Register(r, u) \/ Login(r, u) \/ Resend(r, u) \/ Forgot(r, u)
      PROVE  SessionInv'
  BY <1>3, <1>4, BeginSessions DEF Register, Login, Resend, Forgot
<1>5. ASSUME NEW i, Refresh(r, i) PROVE SessionInv'
  <2>1. i \in DOMAIN tokens /\ tokens[i].valid /\ tokens[i].user \in Users
    BY <1>2, <1>5 DEF Refresh, Usable
  <2>2. Begin(r, "refresh", FALSE, tokens[i].user, i, tokens[i].credential,
              Len(tokens))
    BY <1>5 DEF Refresh
  <2> QED
    BY <1>3, <2>1, <2>2, BeginSessions
<1>6. ASSUME NEW i, VerifyEmail(r, i) \/ ResetPassword(r, i)
      PROVE  SessionInv'
  <2>1. i \in DOMAIN links /\ links[i].user \in Users
    BY <1>2, <1>6 DEF VerifyEmail, ResetPassword, Redeemable
  <2> QED
    BY <1>3, <1>6, <2>1, BeginSessions DEF VerifyEmail, ResetPassword
<1> QED
  BY <1>4, <1>5, <1>6 DEF Arrive

\* A step of a request that leaves tokens and resets alone.
LEMMA MoveSessions ==
  ASSUME AccessInv, AccessInv', SessionInv, NEW r \in Requests,
         CheckAccount(r) \/ InsertUser(r) \/ InvalidateActive(r)
  PROVE  SessionInv'
<1>1. RowsTypeOK /\ UNCHANGED <<tokens, resets>>
  BY DEF AccessInv, CheckAccount, InsertUser, InvalidateActive
<1>2. PICK q \in Request : OpenAs(r, q)
  BY DoingIsOpen DEF CheckAccount, InsertUser, InvalidateActive, Doing, Ops
<1>3. q.op # "reset" /\ request[r] = q /\ request[r] # Idle
  <2>1. q.op \in {"refresh", "register", "resend", "forgot"}
    BY <1>2 DEF CheckAccount, InsertUser, InvalidateActive, Doing, OpenAs
  <2> QED
    BY <1>2, <2>1 DEF OpenAs, Idle
<1>4. \E n \in Request :
         /\ request' = [request EXCEPT ![r] = n]
         /\ n.op = q.op /\ n.user = q.user /\ n.item = q.item
         /\ n.known = q.known
         /\ n.credential = q.credential /\ n.resets = q.resets
  <2>1. CASE CheckAccount(r)
    BY <1>1, <1>2, <2>1, MovedOn DEF CheckAccount
  <2>2. CASE InsertUser(r)
    <3>1. {} \in SUBSET Nat
      OBVIOUS
    <3> QED
      BY <1>1, <1>2, <2>2, <3>1, Touched DEF InsertUser
  <2>3. CASE InvalidateActive(r)
    <3>1. ActiveLinks(UserOf(r), PurposeOf(request[r].op)) \in SUBSET Nat
      BY <1>1 DEF ActiveLinks, RowsTypeOK
    <3> QED
      BY <1>1, <1>2, <2>3, <3>1, Touched DEF InvalidateActive
  <2> QED
    BY <2>1, <2>2, <2>3
<1>5. PICK n \in Request :
         /\ request' = [request EXCEPT ![r] = n]
         /\ n.op = q.op /\ n.user = q.user /\ n.item = q.item
         /\ n.known = q.known
         /\ n.credential = q.credential /\ n.resets = q.resets
  BY <1>4
<1>6. request'[r] = n /\ \A p \in Requests : p # r => request'[p] = request[p]
  BY <1>1, <1>5 DEF RowsTypeOK
<1>7. Alike(request[r], request'[r])
  BY <1>3, <1>5, <1>6 DEF Alike
<1> QED
  BY <1>1, <1>3, <1>6, <1>7, OthersGoOn, SameRowsGrow, SessionStep

\* Every session the reset can see is among those it revokes.
LEMMA RevokeAllSessions ==
  ASSUME AccessInv, AccessInv', SessionInv, NEW r \in Requests, RevokeAll(r)
  PROVE  SessionInv'
<1>1. RowsTypeOK /\ UNCHANGED <<tokens, resets>>
  BY DEF AccessInv, RevokeAll
<1>2. PICK q \in Request : OpenAs(r, q)
  BY DoingIsOpen DEF RevokeAll, Doing, Ops
<1>3. q.op = "reset" /\ request[r] = q /\ request[r] # Idle /\ UserOf(r) = q.user
  BY <1>2 DEF RevokeAll, Doing, OpenAs, UserOf, Idle
<1>4. PICK rows \in SUBSET Nat :
         rows = {t \in DOMAIN tokens : tokens[t].valid
                                       /\ tokens[t].user = UserOf(r)}
  <2>1. {t \in DOMAIN tokens : tokens[t].valid /\ tokens[t].user = UserOf(r)}
          \in SUBSET Nat
    BY <1>1 DEF RowsTypeOK
  <2> QED
    BY <2>1
<1>5. PICK n \in Request :
         /\ request' = [request EXCEPT ![r] = n]
         /\ n.op = q.op /\ n.user = q.user /\ n.resets = q.resets
         /\ n.touched = rows
  <2>1. Touch(r, rows)
    BY <1>4 DEF RevokeAll
  <2> QED
    BY <1>1, <1>2, <2>1, Touched
<1>6. request'[r] = n /\ \A p \in Requests : p # r => request'[p] = request[p]
  BY <1>1, <1>5 DEF RowsTypeOK
<1>7. n.resets <= Len(resets[n.user])
  BY <1>3, <1>5 DEF SessionInv, SessionRequest
<1>8. SessionRequest(request[r])'
  BY <1>1, <1>3, <1>4, <1>5, <1>6, <1>7 DEF SessionRequest
<1> QED
  BY <1>1, <1>6, <1>8, OthersGoOn, SameRowsGrow, SessionStep

\* A token is issued: beside every reset its session has not seen, either its
\* own request or one of a token it goes back to was open.
LEMMA IssueSessions ==
  ASSUME AccessInv, AccessInv', SessionInv, NEW r \in Requests, End(r),
         NEW q \in Request, OpenAs(r, q), q.op \in {"login", "refresh"},
         NEW old \in Seq(RefreshToken), Len(old) = Len(tokens),
         \A t \in DOMAIN tokens :
            /\ old[t].user = tokens[t].user /\ old[t].parent = tokens[t].parent
            /\ old[t].credential = tokens[t].credential
            /\ old[t].resets = tokens[t].resets
            /\ old[t].valid => tokens[t].valid,
         NEW tok \in RefreshToken, tokens' = Append(old, tok),
         resets' = resets,
         tok.user = q.user, tok.resets = q.resets, tok.credential = q.credential,
         tok.parent = IF q.op = "login" THEN 0 ELSE q.item
  PROVE  SessionInv'
<1>1. RowsTypeOK /\ RowsTypeOK' /\ ParentsSpent /\ SessionRows
  BY DEF AccessInv, SessionInv
<1>2. RequestOK(q) /\ SessionRequest(q)
  <2>1. request[r] = q /\ request[r] # Idle
    BY DEF OpenAs, Idle
  <2> QED
    BY <2>1 DEF AccessInv, SessionInv
<1>3. PICK m \in Nat : m = Len(tokens)
  BY <1>1, RowTypes
<1>4. /\ DOMAIN tokens = 1..m /\ Len(tokens') = m + 1
      /\ DOMAIN tokens' = 1..(m + 1)
      /\ tokens'[m + 1] = tok /\ \A t \in 1..m : tokens'[t] = old[t]
  BY <1>1, <1>3, RowTypes
<1>5. SessionsGrow
  <2>1. Len(tokens) <= Len(tokens')
    BY <1>3, <1>4
  <2>2. \A u \in Users :
           /\ Len(resets[u]) <= Len(resets'[u])
           /\ \A n \in DOMAIN resets[u] : resets'[u][n] = resets[u][n]
    BY <1>1, RowTypes
  <2> QED
    BY <1>4, <2>1, <2>2 DEF SessionsGrow
<1>6. /\ q.user \in Users /\ q.resets \in Nat /\ q.credential \in Nat
      /\ Len(resets[q.user]) \in Nat
      /\ DOMAIN resets[q.user] = 1..Len(resets[q.user])
      /\ q.resets <= Len(resets[q.user])
  BY <1>1, <1>2, RowTypes DEF Request, SessionRequest
<1>7. ASSUME NEW n \in (q.credential + 1)..Len(resets[q.user])
      PROVE  Raced(m + 1, n)'
  <2>1. n \in DOMAIN resets[q.user]
    BY <1>6
  <2>2. CASE n > q.resets
    <3>1. resets[q.user][n] <= m /\ resets[q.user][n] \in Nat
      BY <1>1, <1>3, <1>6, <2>1, RowTypes DEF SessionRows
    <3>2. resets[q.user][n] < m + 1
      BY <3>1
    <3>3. Overlaps(m + 1, n)'
      BY <1>4, <2>2, <3>2 DEF Overlaps
    <3> QED
      BY <1>4, <3>3, RacedItself
  <2>3. CASE ~(n > q.resets)
    <3>1. n \in (q.credential + 1)..q.resets
      BY <1>6, <2>3
    <3>2. q.op = "refresh"
      BY <1>2, <1>6, <3>1 DEF SessionRequest
    <3>3. Raced(q.item, n) /\ tokens[q.item].user = q.user
      BY <1>2, <3>1, <3>2 DEF SessionRequest
    <3>4. q.item \in DOMAIN tokens
      BY <1>2, <3>2 DEF RequestOK, ChildrenYounger
    <3>5. Raced(q.item, n)'
      BY <1>1, <1>5, <2>1, <3>3, <3>4, RacedStays
    <3>6. tokens'[m + 1].parent = q.item /\ q.item # 0 /\ m + 1 \in DOMAIN tokens'
      BY <1>4, <3>2, <3>4
    <3>7. \A s : GoesBackTo(q.item, s)' => GoesBackTo(m + 1, s)'
      BY <3>6 DEF GoesBackTo
    <3> QED
      BY <3>5, <3>7 DEF Raced
  <2> QED
    BY <2>2, <2>3
<1>8. FreshTokens
  <2> SUFFICES ASSUME NEW t \in DOMAIN tokens', t \notin DOMAIN tokens
               PROVE  /\ tokens'[t].resets <= Len(resets[tokens'[t].user])
                      /\ tokens'[t].parent # 0 =>
                           tokens'[tokens'[t].parent].user = tokens'[t].user
                      /\ \A n \in (tokens'[t].credential + 1)
                                     ..Len(resets[tokens'[t].user]) :
                           Raced(t, n)'
    BY DEF FreshTokens
  <2>1. t = m + 1 /\ tokens'[t] = tok
    BY <1>4
  <2>2. ASSUME tok.parent # 0
        PROVE  tokens'[tok.parent].user = tok.user
    <3>1. q.op = "refresh" /\ tok.parent = q.item
      BY <2>2
    <3>2. q.item \in DOMAIN tokens /\ tokens[q.item].user = q.user
      BY <1>2, <3>1 DEF RequestOK, ChildrenYounger, SessionRequest
    <3> QED
      BY <1>4, <3>1, <3>2
  <2>3. \A n \in (tok.credential + 1)..Len(resets[tok.user]) : Raced(t, n)'
    BY <1>7, <2>1
  <2> QED
    BY <1>6, <2>1, <2>2, <2>3
<1>9. FreshResets
  BY DEF FreshResets
<1>10. RequestsGoOn
  BY <1>1, Ended, OthersGoOn
<1> QED
  BY <1>5, <1>8, <1>9, <1>10, SessionStep

LEMMA CommitLoginSessions ==
  ASSUME AccessInv, AccessInv', SessionInv, NEW r \in Requests, CommitLogin(r)
  PROVE  SessionInv'
<1>1. RowsTypeOK /\ tokens \in Seq(RefreshToken)
  BY DEF AccessInv, RowsTypeOK
<1>2. PICK q \in Request : OpenAs(r, q)
  BY DoingIsOpen DEF CommitLogin, Doing, Ops
<1>3. q.op = "login" /\ q.credential \in Nat
  BY <1>2 DEF CommitLogin, Doing, OpenAs, Request
<1>4. PICK tok : tok = NewToken(r, 0, q.credential)
  OBVIOUS
<1>5. /\ tok \in RefreshToken /\ tok.parent = 0 /\ tok.user = q.user
      /\ tok.credential = q.credential /\ tok.resets = q.resets
  BY <1>1, <1>2, <1>3, <1>4, NewTokenType
<1>6. tokens' = Append(tokens, tok) /\ End(r) /\ resets' = resets
  BY <1>2, <1>4 DEF CommitLogin, OpenAs
<1> QED
  BY <1>1, <1>2, <1>3, <1>5, <1>6, IssueSessions

LEMMA ExchangeSessions ==
  ASSUME AccessInv, AccessInv', SessionInv, NEW r \in Requests, Exchange(r)
  PROVE  SessionInv'
<1>1. RowsTypeOK /\ tokens \in Seq(RefreshToken)
  BY DEF AccessInv, RowsTypeOK
<1>2. PICK q \in Request : OpenAs(r, q)
  BY DoingIsOpen DEF Exchange, Doing, Ops
<1>3. q.op = "refresh" /\ q.credential \in Nat /\ q.item \in Nat
  BY <1>2 DEF Exchange, Doing, OpenAs, Request
<1>4. PICK tok : tok = NewToken(r, q.item, q.credential)
  OBVIOUS
<1>5. /\ tok \in RefreshToken /\ tok.parent = q.item /\ tok.user = q.user
      /\ tok.credential = q.credential /\ tok.resets = q.resets
  BY <1>1, <1>2, <1>3, <1>4, NewTokenType
<1>6. PICK old : old = Invalidated(tokens, {q.item})
  OBVIOUS
<1>7. tokens' = Append(old, tok) /\ End(r) /\ resets' = resets
  BY <1>2, <1>4, <1>6 DEF Exchange, OpenAs, Item
<1>8. /\ old \in Seq(RefreshToken) /\ Len(old) = Len(tokens)
      /\ \A t \in DOMAIN tokens :
            /\ old[t].user = tokens[t].user /\ old[t].parent = tokens[t].parent
            /\ old[t].credential = tokens[t].credential
            /\ old[t].resets = tokens[t].resets
            /\ old[t].valid => tokens[t].valid
  BY <1>1, <1>6, TokensInvalidated
<1>9. tok.parent = IF q.op = "login" THEN 0 ELSE q.item
  BY <1>3, <1>5
<1> QED
  BY <1>2, <1>3, <1>5, <1>7, <1>8, <1>9, IssueSessions

\* The reset is committed: the sessions it leaves are younger than what it
\* saw, and their requests older than it.
LEMMA CommitResetSessions ==
  ASSUME AccessInv, AccessInv', SessionInv, NEW r \in Requests, CommitReset(r)
  PROVE  SessionInv'
<1>1. RowsTypeOK /\ RowsTypeOK' /\ tokens \in Seq(RefreshToken)
  BY DEF AccessInv, RowsTypeOK
<1>2. PICK q \in Request : OpenAs(r, q)
  BY DoingIsOpen DEF CommitReset, Doing, Ops
<1>3. /\ q.user \in Users /\ q.known \in Nat /\ q.op = "reset"
      /\ q.step = "written" /\ request[r] = q /\ request[r] # Idle
  BY <1>2 DEF CommitReset, Doing, OpenAs, Request, Idle
<1>4. RequestOK(q) /\ SessionRequest(q) /\ SessionRows
  BY <1>3 DEF AccessInv, SessionInv
<1>5. /\ resets' = [resets EXCEPT ![q.user] = Append(@, q.known)]
      /\ tokens' = Invalidated(tokens, q.touched) /\ End(r)
  BY <1>3 DEF CommitReset, UserOf
<1>6. /\ Len(tokens') = Len(tokens) /\ DOMAIN tokens' = DOMAIN tokens
      /\ \A t \in DOMAIN tokens :
            /\ tokens'[t].valid <=> tokens[t].valid /\ t \notin q.touched
            /\ tokens'[t].user = tokens[t].user
            /\ tokens'[t].parent = tokens[t].parent
            /\ tokens'[t].credential = tokens[t].credential
            /\ tokens'[t].resets = tokens[t].resets
  <2>1. tokens' \in Seq(RefreshToken) /\ Len(tokens') = Len(tokens)
    BY <1>1, <1>5, TokensInvalidated
  <2>2. DOMAIN tokens' = DOMAIN tokens
    BY <1>1, <2>1
  <2> QED
    BY <1>1, <1>5, <2>1, <2>2, TokensInvalidated
<1>7. PICK k \in Nat : k = Len(resets[q.user])
  BY <1>1, <1>3, RowTypes
<1>8. /\ resets[q.user] \in Seq(Nat)
      /\ resets'[q.user] = Append(resets[q.user], q.known)
      /\ \A u \in Users : u # q.user => resets'[u] = resets[u]
  BY <1>1, <1>3, <1>5 DEF RowsTypeOK
<1>9. /\ DOMAIN resets[q.user] = 1..k /\ Len(resets'[q.user]) = k + 1
      /\ DOMAIN resets'[q.user] = 1..(k + 1)
      /\ resets'[q.user][k + 1] = q.known
      /\ \A n \in 1..k : resets'[q.user][n] = resets[q.user][n]
  BY <1>3, <1>7, <1>8
<1>10. SessionsGrow
  <2>1. ASSUME NEW u \in Users
        PROVE  /\ Len(resets[u]) <= Len(resets'[u])
               /\ \A n \in DOMAIN resets[u] : resets'[u][n] = resets[u][n]
    <3>1. CASE u = q.user
      BY <1>7, <1>9, <3>1
    <3>2. CASE u # q.user
      BY <1>1, <1>8, <3>2, RowTypes
    <3> QED
      BY <3>1, <3>2
  <2>2. Len(tokens) <= Len(tokens')
    BY <1>1, <1>6, RowTypes
  <2> QED
    BY <1>6, <2>1, <2>2 DEF SessionsGrow
<1>11. FreshTokens
  BY <1>6 DEF FreshTokens
<1>12. FreshResets
  <2> SUFFICES ASSUME NEW u \in Users, NEW n \in DOMAIN resets'[u],
                      n \notin DOMAIN resets[u]
               PROVE  /\ resets'[u][n] <= Len(tokens)
                      /\ \A t \in DOMAIN tokens :
                           tokens'[t].valid /\ tokens[t].user = u
                               => Overlaps(t, n)'
    BY DEF FreshResets
  <2>1. u = q.user /\ n = k + 1
    <3>1. u = q.user
      BY <1>8
    <3> QED
      BY <1>9, <3>1
  <2>2. resets'[u][n] = q.known
    BY <1>9, <2>1
  <2>3. q.known <= Len(tokens)
    BY <1>3, <1>4 DEF RequestOK, KnownBounded
  <2>4. ASSUME NEW t \in DOMAIN tokens, tokens'[t].valid, tokens[t].user = u
        PROVE  Overlaps(t, n)'
    <3>1. tokens[t].valid /\ t \notin q.touched
      BY <1>6, <2>4
    <3>2. q.known < t
      BY <1>3, <1>4, <2>1, <2>4, <3>1 DEF SessionRequest
    <3>3. tokens[t].resets <= k /\ tokens[t].resets \in Nat
      BY <1>1, <1>4, <1>7, <2>1, <2>4, RowTypes DEF SessionRows
    <3>4. tokens[t].resets < n
      BY <2>1, <3>3
    <3> QED
      BY <1>6, <2>2, <2>4, <3>2, <3>4 DEF Overlaps
  <2> QED
    BY <2>2, <2>3, <2>4
<1>13. RequestsGoOn
  BY <1>1, <1>5, Ended, OthersGoOn
<1> QED
  BY <1>10, <1>11, <1>12, <1>13, SessionStep

LEMMA EndSessions ==
  ASSUME AccessInv, AccessInv', SessionInv, NEW r \in Requests,
         CommitLink(r) \/ CommitVerified(r) \/ Fail(r)
  PROVE  SessionInv'
<1>1. RowsTypeOK /\ End(r) /\ UNCHANGED <<tokens, resets>>
  BY DEF AccessInv, CommitLink, CommitVerified, Fail
<1>2. RequestsGoOn
  BY <1>1, Ended, OthersGoOn
<1> QED
  BY <1>1, <1>2, SameRowsGrow, SessionStep

LEMMA BesideSessions ==
  ASSUME AccessInv, AccessInv', SessionInv, Beside \/ UNCHANGED accounts
  PROVE  SessionInv'
<1>1. RowsTypeOK
  BY DEF AccessInv
<1>2. \A r \in Requests : request[r] # Idle => Alike(request[r], request[r])
  BY <1>1 DEF RowsTypeOK, Alike
<1>3. CASE UNCHANGED <<tokens, resets, request>>
  <2>1. RequestsGoOn
    BY <1>2, <1>3 DEF RequestsGoOn
  <2> QED
    BY <1>1, <1>3, <2>1, SameRowsGrow, SessionStep
<1>4. ASSUME NEW u \in Users, NEW b \in BOOLEAN, SetActive(u, b)
      PROVE  SessionInv'
  <2>1. UNCHANGED <<tokens, resets>>
    BY <1>4 DEF SetActive
  <2>2. ASSUME NEW p \in Requests, request'[p] # Idle
        PROVE  request[p] # Idle /\ Alike(request[p], request'[p])
    <3>1. request[p] # Idle
      BY <1>4, <2>2 DEF SetActive
    <3>2. PICK q \in Request : request[p] = q
      BY <1>1, <3>1 DEF RowsTypeOK
    <3>3. PICK c \in BOOLEAN : c = (q.active \/ b)
      OBVIOUS
    <3>4. request'[p] = IF q.user = u THEN [q EXCEPT !.active = c] ELSE q
      BY <1>4, <3>1, <3>2, <3>3 DEF SetActive, UserOf
    <3> QED
      BY <3>1, <3>2, <3>4 DEF Alike, Request
  <2>3. RequestsGoOn
    BY <2>2 DEF RequestsGoOn
  <2> QED
    BY <1>1, <2>1, <2>3, SameRowsGrow, SessionStep
<1>5. ASSUME NEW t, ExpireToken(t) PROVE SessionInv'
  <2>1. tokens' = Invalidated(tokens, {t}) /\ UNCHANGED <<resets, request>>
    BY <1>5 DEF ExpireToken
  <2>2. RequestsGoOn
    BY <1>2, <2>1 DEF RequestsGoOn
  <2> QED
    BY <1>1, <2>1, <2>2, InvalidatedSessionsGrow, SessionStep
<1> QED
  BY <1>3, <1>4, <1>5 DEF Beside, TimePasses, PassThrough, TurnAway, ExpireLink,
     accounts

LEMMA SessionsHold ==
  AccessInv /\ SessionInv /\ [AccessNext]_avars => SessionInv'
<1> SUFFICES ASSUME AccessInv, SessionInv, [AccessNext]_avars PROVE SessionInv'
  OBVIOUS
<1>1. AccessInv'
  BY AccessStep
<1>2. ASSUME NEW r \in Requests, Handle(r) PROVE SessionInv'
  BY <1>1, <1>2, CommitLoginSessions, MoveSessions, ExchangeSessions, EndSessions,
     RevokeAllSessions, CommitResetSessions DEF Handle
<1>3. UNCHANGED avars => UNCHANGED accounts
  BY DEF avars, accounts
<1> QED
  BY <1>1, <1>2, <1>3, ArriveSessions, BesideSessions DEF AccessNext

LEMMA SessionsBegin == AccessInit => SessionInv
BY DEF AccessInit, SessionInv, SessionRows, SurvivorsRaced

-----------------------------------------------------------------------------
\* The inductive invariant, for requests interleaved in any way.
THEOREM AccessCorrect == AccessSpec => []AccessInv
BY AccessInitHolds, AccessStep, PTL DEF AccessSpec

\* AccessTypeOK: rows, requests and the limiter's deques have their types.
THEOREM AccessTypeCorrect == AccessSpec => []AccessTypeOK
<1>1. LimiterInv /\ AccessInv => AccessTypeOK
  BY DEF LimiterInv, AccessInv, RowsTypeOK, AccessTypeOK
<1> QED
  BY <1>1, AccessCorrect, AccessUsesLimiter, LimiterCorrect, PTL

\* ExchangedOnce: rotation gives a refresh token at most one successor, but
\* for requests that overlap.
THEOREM AlwaysExchangedOnce == AccessSpec => []ExchangedOnce
<1>1. AccessInv => ExchangedOnce
  BY DEF AccessInv
<1> QED
  BY <1>1, AccessCorrect, PTL

\* LiveLinksOverlap: two links for one purpose both work only if the requests
\* for them overlapped (invalidate_active_tokens_for_user).
THEOREM LiveLinksAlwaysOverlap == AccessSpec => []LiveLinksOverlap
<1>1. AccessInv => LiveLinksOverlap
  BY DEF AccessInv
<1> QED
  BY <1>1, AccessCorrect, PTL

\* SurvivorsRaced: a session of an older password works after a reset only if
\* it, or a token it goes back to, was issued by a request that overlapped the
\* reset (revoke_all_for_user); it may then be exchanged on and on.
THEOREM ResetMissesOnlyRaced == AccessSpec => []SurvivorsRaced
<1>1. SessionInv => SurvivorsRaced
  BY DEF SessionInv
<1> QED
  BY <1>1, AccessCorrect, SessionsBegin, SessionsHold, PTL DEF AccessSpec

\* InactiveGetsNothing: every session was issued by a request that saw the
\* account active.
THEOREM InactiveNeverGetsAnything == AccessSpec => []InactiveGetsNothing
<1>1. AccessInv => InactiveGetsNothing
  BY DEF AccessInv
<1> QED
  BY <1>1, AccessCorrect, PTL
=============================================================================

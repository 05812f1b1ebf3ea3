------------------------------- MODULE Access -------------------------------
(***************************************************************************)
(* Accounts, sessions and e-mailed links: AuthService behind the rate      *)
(* limiter, requests of one client interleaved at their database calls.    *)
(*                                                                         *)
(* Rows are listed in the order they were committed.  A password is the    *)
(* number of resets before it; "valid" is a refresh token neither revoked  *)
(* nor expired, and a link neither used nor expired.                       *)
(*                                                                         *)
(* A request's transaction ends when it does.  Of the row locks only that  *)
(* of a reset on the tokens it has revoked is modelled: an update that     *)
(* waits for another sets what it would have set at once, so that the rest *)
(* only rule out orders of commits the model has.                          *)
(***************************************************************************)
EXTENDS RateLimit

CONSTANTS
    Users,       \* one per e-mail address
    Requests,    \* requests served at a time
    Client,      \* the address all of them come from
    None,
    MaxRequests  \* bound: requests that change something ever begun

ASSUME ClientAssumption == Client \in Clients
ASSUME NoneAssumption == None \notin [active : BOOLEAN, verified : BOOLEAN]
ASSUME MaxRequestsAssumption == MaxRequests \in Nat

VARIABLES
    account,  \* account[u]: the user's row, or None
    resets,   \* resets[u]: for each password reset, how many tokens there
              \* were when its request began
    tokens,   \* the refresh tokens
    links,    \* the verification tokens
    request,  \* request[r]: the request in slot r
    begun

accounts == <<account, resets, tokens, links, request, begun>>
avars == <<limiter, accounts>>

Purposes == {"email_verification", "password_reset"}
Ids == 1..MaxRequests

Account == [active : BOOLEAN, verified : BOOLEAN]
NewAccount == [active |-> TRUE, verified |-> FALSE]

\* parent: the token it was exchanged for, or 0.  credential: the password
\* its first login gave.  known, resets: what was committed when its request
\* began.  active: the account was active at some time of that request.
RefreshToken == [user : Users, valid : BOOLEAN, parent : Nat,
                 credential : Nat, resets : Nat, known : Nat, active : BOOLEAN]
VerificationToken == [user : Users, valid : BOOLEAN, purpose : Purposes,
                      known : Nat]

Ops == {"register", "login", "refresh", "resend", "verify", "forgot", "reset"}
Request == [op : Ops, step : {"read", "ready", "written"}, user : Users,
            item : Nat, credential : Nat, resets : Nat, known : Nat,
            active : BOOLEAN, touched : SUBSET Nat]
Idle == [op |-> "idle"]

AccessTypeOK ==
    /\ LimiterTypeOK
    /\ account \in [Users -> Account \cup {None}]
    /\ resets \in [Users -> Seq(Nat)]
    /\ tokens \in Seq(RefreshToken)
    /\ links \in Seq(VerificationToken)
    /\ request \in [Requests -> Request \cup {Idle}]
    /\ begun \in 0..MaxRequests

\* An account there is at first has been registered long ago: what it was
\* issued then has expired.
AccessInit ==
    /\ LimiterInit
    /\ account \in [Users -> {None, NewAccount}]
    /\ resets = [u \in Users |-> <<>>]
    /\ tokens = <<>> /\ links = <<>>
    /\ request = [r \in Requests |-> Idle]
    /\ begun = 0

-----------------------------------------------------------------------------
(* Beginning and ending a request *)

Registered(u) == account[u] # None
Active(u) == Registered(u) /\ account[u].active
Password(u) == Len(resets[u])

\* The middleware lets the request pass and its handler makes the first read.
Begin(r, op, strict, u, item, credential, known) ==
    /\ request[r] = Idle
    /\ begun < MaxRequests /\ begun' = begun + 1
    /\ Admit(BucketOf(Client, strict))
    /\ request' = [request EXCEPT ![r] =
         [op |-> op, step |-> "read", user |-> u, item |-> item,
          credential |-> credential, resets |-> Len(resets[u]),
          known |-> known, active |-> Active(u), touched |-> {}]]
    /\ UNCHANGED <<account, resets, tokens, links>>

Doing(r, op, step) == request[r].op = op /\ request[r].step = step
MoveOn(r, step) == request' = [request EXCEPT ![r].step = step]
Touch(r, rows) ==
    request' = [request EXCEPT ![r].step = "written", ![r].touched = rows]
End(r) == request' = [request EXCEPT ![r] = Idle]

Item(r) == request[r].item
UserOf(r) == request[r].user

Invalidated(s, rows) ==
    [i \in DOMAIN s |-> IF i \in rows THEN [s[i] EXCEPT !.valid = FALSE] ELSE s[i]]

\* The handler or the commit raises: get_db_session rolls back.
Fail(r) ==
    /\ request[r] # Idle
    /\ End(r)
    /\ UNCHANGED <<limiter, account, resets, tokens, links, begun>>

\* A request that reads only, or that its handler turns down at once.
PassThrough(strict) ==
    /\ Admit(BucketOf(Client, strict))
    /\ UNCHANGED accounts

TurnAway(strict) ==
    /\ Refuse(BucketOf(Client, strict))
    /\ UNCHANGED accounts

-----------------------------------------------------------------------------
(* Sessions *)

NewToken(r, parent, credential) ==
    [user |-> UserOf(r), valid |-> TRUE, parent |-> parent,
     credential |-> credential, resets |-> request[r].resets,
     known |-> request[r].known, active |-> request[r].active]

\* login: the password, then is_active, of one row read.
Login(r, u) ==
    /\ Active(u)
    /\ Begin(r, "login", TRUE, u, 0, Password(u), Len(tokens))

CommitLogin(r) ==
    /\ Doing(r, "login", "read")
    /\ tokens' = Append(tokens, NewToken(r, 0, request[r].credential))
    /\ End(r)
    /\ UNCHANGED <<limiter, account, resets, links, begun>>

\* RefreshTokenRepository.get_valid_token
Usable(t) == t \in DOMAIN tokens /\ tokens[t].valid

Refresh(r, t) ==
    /\ Usable(t)
    /\ Begin(r, "refresh", FALSE, tokens[t].user, t, tokens[t].credential,
             Len(tokens))

\* Mutant: is_active is not looked at.
CheckNothing(r) ==
    /\ Doing(r, "refresh", "read")
    /\ MoveOn(r, "ready")
    /\ UNCHANGED <<limiter, account, resets, tokens, links, begun>>
CheckAccount(r) ==
    /\ Doing(r, "refresh", "read")
    /\ Active(UserOf(r))
    /\ MoveOn(r, "ready")
    /\ UNCHANGED <<limiter, account, resets, tokens, links, begun>>

\* Mutant: the new token is issued and the old one kept.
ExchangeKeeping(r) ==
    /\ Doing(r, "refresh", "ready")
    /\ tokens' = Append(tokens, NewToken(r, Item(r), request[r].credential))
    /\ End(r)
    /\ UNCHANGED <<limiter, account, resets, links, begun>>

\* revoke updates the row it read, by its key, whatever has become of it; it
\* waits for a reset that has updated the row.
Exchange(r) ==
    /\ Doing(r, "refresh", "ready")
    /\ \A q \in Requests :
          Doing(q, "reset", "written") => Item(r) \notin request[q].touched
    /\ tokens' = Append(Invalidated(tokens, {Item(r)}),
                        NewToken(r, Item(r), request[r].credential))
    /\ End(r)
    /\ UNCHANGED <<limiter, account, resets, links, begun>>

-----------------------------------------------------------------------------
(* Links *)

NewLink(r, purpose) ==
    [user |-> UserOf(r), valid |-> TRUE, purpose |-> purpose,
     known |-> request[r].known]

ActiveLinks(u, purpose) ==
    {l \in DOMAIN links : links[l].valid /\ links[l].user = u
                          /\ links[l].purpose = purpose}

\* Mutant: the purpose is not one of the enumeration's.
PurposeUnmapped(op) == op
PurposeOf(op) ==
    IF op \in {"forgot", "reset"} THEN "password_reset" ELSE "email_verification"

Register(r, u) ==
    /\ ~Registered(u)
    /\ Begin(r, "register", TRUE, u, 0, 0, Len(links))

\* The insert waits for another one of the same address, and fails when
\* that is committed: the address is unique.
InsertUser(r) ==
    /\ Doing(r, "register", "read")
    /\ ~Registered(UserOf(r))
    /\ \A q \in Requests : Doing(q, "register", "written") => UserOf(q) # UserOf(r)
    /\ Touch(r, {})
    /\ UNCHANGED <<limiter, account, resets, tokens, links, begun>>

Resend(r, u) ==
    /\ Registered(u) /\ ~account[u].verified
    /\ Begin(r, "resend", TRUE, u, 0, 0, Len(links))

Forgot(r, u) ==
    /\ Registered(u)
    /\ Begin(r, "forgot", TRUE, u, 0, 0, Len(links))

\* invalidate_active_tokens_for_user: the update sees what is committed.
InvalidateActive(r) ==
    /\ Doing(r, "resend", "read") \/ Doing(r, "forgot", "read")
    /\ Touch(r, ActiveLinks(UserOf(r), PurposeOf(request[r].op)))
    /\ UNCHANGED <<limiter, account, resets, tokens, links, begun>>

\* The link has been mailed by now; only the commit makes it work.
CommitLink(r) ==
    /\ request[r].op \in {"register", "resend", "forgot"}
    /\ request[r].step = "written"
    /\ links' = Append(Invalidated(links, request[r].touched),
                       NewLink(r, PurposeOf(request[r].op)))
    /\ IF request[r].op = "register"
       THEN account' = [account EXCEPT ![UserOf(r)] = NewAccount]
       ELSE UNCHANGED account
    /\ End(r)
    /\ UNCHANGED <<limiter, resets, tokens, begun>>

\* VerificationTokenRepository.get_valid_token
Redeemable(l, purpose) ==
    l \in DOMAIN links /\ links[l].valid /\ links[l].purpose = purpose

VerifyEmail(r, l) ==
    /\ Redeemable(l, "email_verification")
    /\ Begin(r, "verify", FALSE, links[l].user, l, 0, Len(links))

CommitVerified(r) ==
    /\ Doing(r, "verify", "read")
    /\ account' = [account EXCEPT ![UserOf(r)].verified = TRUE]
    /\ links' = Invalidated(links, {Item(r)})
    /\ End(r)
    /\ UNCHANGED <<limiter, resets, tokens, begun>>

ResetPassword(r, l) ==
    /\ Redeemable(l, "password_reset")
    /\ Begin(r, "reset", FALSE, links[l].user, l, 0, Len(tokens))

\* revoke_all_for_user: the update sees what is committed.
RevokeAll(r) ==
    /\ Doing(r, "reset", "read")
    /\ Touch(r, {t \in DOMAIN tokens : tokens[t].valid
                                       /\ tokens[t].user = UserOf(r)})
    /\ UNCHANGED <<limiter, account, resets, tokens, links, begun>>

CommitReset(r) ==
    /\ Doing(r, "reset", "written")
    /\ resets' = [resets EXCEPT ![UserOf(r)] = Append(@, request[r].known)]
    /\ tokens' = Invalidated(tokens, request[r].touched)
    /\ links' = Invalidated(links, {Item(r)})
    /\ End(r)
    /\ UNCHANGED <<limiter, account, begun>>

-----------------------------------------------------------------------------
(* What happens beside the client's requests *)

\* AdminService.set_user_active_status, by an administrator with a bucket of
\* its own; requests of the user notice that the account was active.
SetActive(u, b) ==
    /\ Registered(u) /\ account[u].active # b
    /\ account' = [account EXCEPT ![u].active = b]
    /\ request' = [r \in Requests |->
                     IF request[r] # Idle /\ UserOf(r) = u
                     THEN [request[r] EXCEPT !.active = @ \/ b]
                     ELSE request[r]]
    /\ UNCHANGED <<limiter, resets, tokens, links, begun>>

ExpireToken(t) ==
    /\ Usable(t)
    /\ tokens' = Invalidated(tokens, {t})
    /\ UNCHANGED <<limiter, account, resets, links, request, begun>>

ExpireLink(l) ==
    /\ l \in DOMAIN links /\ links[l].valid
    /\ links' = Invalidated(links, {l})
    /\ UNCHANGED <<limiter, account, resets, tokens, request, begun>>

TimePasses == Tick /\ UNCHANGED accounts

-----------------------------------------------------------------------------
Arrive(r) ==
    \/ \E u \in Users : Register(r, u) \/ Login(r, u) \/ Resend(r, u) \/ Forgot(r, u)
    \/ \E i \in Ids : Refresh(r, i) \/ VerifyEmail(r, i) \/ ResetPassword(r, i)

Handle(r) ==
    \/ CommitLogin(r) \/ CheckAccount(r) \/ Exchange(r)
    \/ InsertUser(r) \/ InvalidateActive(r) \/ CommitLink(r)
    \/ CommitVerified(r) \/ RevokeAll(r) \/ CommitReset(r) \/ Fail(r)

Beside ==
    \/ TimePasses
    \/ \E strict \in BOOLEAN : PassThrough(strict) \/ TurnAway(strict)
    \/ \E u \in Users, b \in BOOLEAN : SetActive(u, b)
    \/ \E i \in Ids : ExpireToken(i) \/ ExpireLink(i)

AccessNext == (\E r \in Requests : Arrive(r) \/ Handle(r)) \/ Beside

AccessSpec == AccessInit /\ [][AccessNext]_avars

-----------------------------------------------------------------------------
(* Properties *)

\* A refresh token is exchanged once: a second token for the same parent
\* comes from a request that had begun before the first was committed.
ExchangedOnce ==
    \A s, t \in DOMAIN tokens :
        s < t /\ tokens[s].parent # 0 /\ tokens[s].parent = tokens[t].parent
            => tokens[t].known < s

\* Two links for one purpose that both work were asked for by requests that
\* overlapped.  (Only the latest ought to work: "old leaked links stop working
\* immediately".)
LiveLinksOverlap ==
    \A u \in Users, purpose \in Purposes :
        \A k, l \in ActiveLinks(u, purpose) : k < l => links[l].known < k

\* Token t is s or goes back to it by exchanges: every set that has t
\* and the parents of its tokens has s.
GoesBackTo(t, s) ==
    \A S \in SUBSET (DOMAIN tokens) :
        /\ t \in S
        /\ \A x \in S : tokens[x].parent # 0 => tokens[x].parent \in S
        => s \in S

\* The request of token t and the n-th reset of its user were open at once.
Overlaps(t, n) ==
    resets[tokens[t].user][n] < t /\ tokens[t].resets < n

\* Token t or one it goes back to was issued by a request beside that reset.
Raced(t, n) == \E s \in DOMAIN tokens : GoesBackTo(t, s) /\ Overlaps(s, n)

\* A password reset logs out everywhere: "if a session was already stolen
\* before the user reset their password, this logs that session out too".
\* No session that works goes back to a token there was when a reset of its
\* user's password began.
ResetLogsOut ==
    \A t \in DOMAIN tokens : tokens[t].valid =>
        \A n \in DOMAIN resets[tokens[t].user] :
            ~\E s \in 1..resets[tokens[t].user][n] :
                s \in DOMAIN tokens /\ tokens[s].resets < n /\ GoesBackTo(t, s)

\* What the code does of that: a session older than a reset that still works
\* goes back to a token issued by a request that overlapped the reset.  From
\* that token on it is exchanged like any other.
SurvivorsRaced ==
    \A t \in DOMAIN tokens : tokens[t].valid =>
        \A n \in (tokens[t].credential + 1)..Len(resets[tokens[t].user]) :
            Raced(t, n)

\* A deactivated account gets no session from a request that never saw it
\* active, neither by its password nor by a token it still has.
InactiveGetsNothing == \A t \in DOMAIN tokens : tokens[t].active
=============================================================================

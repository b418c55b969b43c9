------------------------------- MODULE LoginSession -------------------------------
(***************************************************************************)
(* Magic links and the sessions they open, of mentors and of moderators:   *)
(* a link is stored and mailed, a click spends it in one statement and a   *)
(* cookie is minted from the row that statement returned, and every later  *)
(* request is let in by the cookie and, where the route asks for it, by a  *)
(* second look at the row.  Logout and deletion raise the row's session    *)
(* version.  Cookies of the eras before audiences, token types and session *)
(* versions may still be about.                                            *)
(***************************************************************************)
EXTENDS Naturals, FiniteSets

CONSTANTS
    MentorAccount, ModeratorAccount,
    LoginRequest,   \* requests for a link; each makes the link of its name
    Click,          \* clicks on a mailed link; each opens at most one session
    PortalRequest,  \* requests that present a cookie
    MaxVersion,     \* bound on session versions, for TLC
    NoAccount, NoLink, NoSession

Account == MentorAccount \cup ModeratorAccount
Link == LoginRequest
Roles == {"moderator", "admin"}

ASSUME LoginAssumption ==
    /\ MaxVersion \in Nat \ {0}
    /\ MentorAccount \cap ModeratorAccount = {}
    /\ NoAccount \notin Account /\ NoLink \notin Link /\ NoSession \notin Click

VARIABLES
    standing,   \* mentors: "eligible", "declined", "deleted", "gone"; moderators: role or "gone"
    version,    \* session_version
    stored,     \* login_token (hashed), NoLink when NULL
    lapsed,     \* login_token_expires_at has passed
    asking,     \* the login request of a person, with the account it looked up
    mail,       \* links: "unsent", "coming" to the worker, "inbox", "lost"
    click,      \* clicks, with the row ConsumeLoginToken returned
    legacy,     \* cookies minted before this release are still within their TTL
    request,    \* portal requests
    dead,       \* history: links that were used, replaced, lapsed or deleted
    cut         \* history: clicks before a logout or deletion of their account

loginVars == <<standing, version, stored, lapsed, asking, mail, click, legacy, request,
               dead, cut>>

Realm(x) == IF x \in MentorAccount THEN "mentor" ELSE "admin"

NoClick == [step |-> "idle", link |-> NoLink, who |-> NoAccount, standing |-> "gone",
            version |-> 0]

\* A cookie's claims.
Cookie(x, type, aud, role, v) ==
    [sub |-> x, type |-> type, aud |-> aud, role |-> role, version |-> v]

NoCookie == Cookie(NoAccount, "", "", "", 0)
NoRequest == [step |-> "idle", realm |-> "mentor", kind |-> "own", cookie |-> NoCookie,
              from |-> NoSession]

LoginInit ==
    /\ standing = [x \in Account |-> IF x \in MentorAccount THEN "eligible" ELSE "moderator"]
    /\ version = [x \in Account |-> 1]
    /\ stored = [x \in Account |-> NoLink]
    /\ lapsed = [x \in Account |-> FALSE]
    /\ asking = [q \in LoginRequest |-> [step |-> "idle", who |-> NoAccount]]
    /\ mail = [l \in Link |-> "unsent"]
    /\ click = [k \in Click |-> NoClick]
    /\ legacy \in BOOLEAN
    /\ request = [r \in PortalRequest |-> NoRequest]
    /\ dead = {} /\ cut = {}

\* isLoginEligibleStatus, and for moderators ModeratorRole.IsValid.
MayHoldMentorSession(st) == st = "eligible"
IsValidRole(st) == st \in Roles
MayLogIn(st) == MayHoldMentorSession(st) \/ IsValidRole(st)

-----------------------------------------------------------------------------
(* A link is asked for, stored and mailed.                                 *)

\* RequestLogin finds the account; an unknown or ineligible one ends it.
LookUpAccount(q, x) ==
    /\ asking[q].step = "idle"
    /\ MayLogIn(standing[x])
    /\ asking' = [asking EXCEPT ![q] = [step |-> "found", who |-> x]]
    /\ UNCHANGED <<standing, version, stored, lapsed, mail, click, legacy, request, dead, cut>>

\* An UPDATE, whatever became of the account since; of a row that is gone it
\* matches nothing, which is no error.
SetLoginToken(x, l) ==
    IF standing[x] = "gone"
    THEN UNCHANGED <<stored, lapsed, dead>>
    ELSE /\ stored' = [stored EXCEPT ![x] = l]
         /\ lapsed' = [lapsed EXCEPT ![x] = FALSE]
         /\ dead' = dead \cup ({stored[x]} \ {NoLink})

\* The link is stored, then the trigger is sent.
StoreLoginToken(q) ==
    /\ asking[q].step = "found"
    /\ asking' = [asking EXCEPT ![q].step = "done"]
    /\ mail' = [mail EXCEPT ![q] = "coming"]
    /\ SetLoginToken(asking[q].who, q)
    /\ UNCHANGED <<standing, version, click, legacy, request, cut>>

\* The worker mails the link unless the account is deleted or gone.  A
\* trigger or a send that fails is the same as one that never runs.
SendLink(l) ==
    /\ mail[l] = "coming"
    /\ mail' = [mail EXCEPT ![l] =
           IF standing[asking[l].who] \in {"deleted", "gone"} THEN "lost" ELSE "inbox"]
    /\ UNCHANGED <<standing, version, stored, lapsed, asking, click, legacy, request, dead, cut>>

MentorLoginEmail(l) == asking[l].who \in MentorAccount /\ SendLink(l)
ModeratorLoginEmail(l) == asking[l].who \in ModeratorAccount /\ SendLink(l)

LinkLapses(x) ==
    /\ stored[x] # NoLink /\ ~lapsed[x]
    /\ lapsed' = [lapsed EXCEPT ![x] = TRUE]
    /\ dead' = dead \cup {stored[x]}
    /\ UNCHANGED <<standing, version, stored, asking, mail, click, legacy, request, cut>>

-----------------------------------------------------------------------------
(* A click.                                                                *)

\* A slip: the expiry is left out of the WHERE clause.
ConsumableLapsed(x, l) == stored[x] = l /\ standing[x] \notin {"deleted", "gone"}

\* The WHERE clause of ConsumeLoginToken.
Consumable(x, l) == stored[x] = l /\ ~lapsed[x] /\ standing[x] \notin {"deleted", "gone"}

\* VerifyLogin: one UPDATE matches, checks and clears, and returns the row.
ConsumeLoginToken(k, l) ==
    /\ click[k].step = "idle"
    /\ mail[l] = "inbox"
    /\ \E x \in Account :
          /\ Consumable(x, l)
          /\ stored' = [stored EXCEPT ![x] = NoLink]
          /\ click' = [click EXCEPT ![k] = [step |-> "row", link |-> l,
                           who |-> x, standing |-> standing[x], version |-> version[x]]]
    /\ dead' = dead \cup {l}
    /\ UNCHANGED <<standing, version, lapsed, asking, mail, legacy, request, cut>>

\* The session is minted from that row; an ineligible one has spent its link.
MintSession(k) ==
    /\ click[k].step = "row"
    /\ click' = [click EXCEPT ![k].step = IF MayLogIn(click[k].standing) THEN "open" ELSE "over"]
    /\ UNCHANGED <<standing, version, stored, lapsed, asking, mail, legacy, request, dead, cut>>

\* The claims of the session of a click.
GenerateToken(k) == Cookie(click[k].who, "mentor", "mentor", "", click[k].version)
GenerateTokenWithRole(k) ==
    Cookie(click[k].who, "admin", "admin", click[k].standing, click[k].version)

MintedCookie(k) ==
    IF click[k].who \in MentorAccount THEN GenerateToken(k) ELSE GenerateTokenWithRole(k)

\* What the releases before minted: no session version, no audience, and
\* before that no token type; only moderators' cookies carried a role.
LegacyCookie ==
    [sub : Account, type : {"", "mentor", "admin"}, aud : {""}, role : Roles \cup {""}, version : {0}]
LegacyCookies == {c \in LegacyCookie : /\ c.type \in {"", Realm(c.sub)}
                                       /\ c.role = "" <=> c.sub \in MentorAccount}

CookieExpires(k) ==
    /\ click[k].step = "open"
    /\ click' = [click EXCEPT ![k].step = "over"]
    /\ UNCHANGED <<standing, version, stored, lapsed, asking, mail, legacy, request, dead, cut>>

LegacyCookiesExpire ==
    /\ legacy
    /\ legacy' = FALSE
    /\ UNCHANGED <<standing, version, stored, lapsed, asking, mail, click, request, dead, cut>>

-----------------------------------------------------------------------------
(* A request with a cookie.                                                *)

ValidAudience(c, realm) == c.aud \in {"", realm}

\* A slip: a cookie without a type passes as any.
ValidTokenTypeRoleBlind(c, realm) == c.type \in {"", realm}

ValidTokenType(c, realm) ==
    \/ c.type = realm
    \/ c.type = "" /\ (realm = "mentor" <=> c.role = "")

\* TokenManager.validate, as far as the realm goes.
ValidToken(c, realm) == ValidAudience(c, realm) /\ ValidTokenType(c, realm)

\* Routes: a mentor's own data, other people's data, and writes.
MustRecheck(realm, kind) == realm = "admin" \/ kind # "own"

\* The cookie of the session of click k, or those of before (NoSession).
CookiesOf(k) ==
    IF k = NoSession THEN (IF legacy THEN LegacyCookies ELSE {})
    ELSE IF click[k].step = "open" THEN {MintedCookie(k)} ELSE {}

PresentCookie(r, realm, kind, c, k) ==
    /\ request[r].step = "idle"
    /\ c \in CookiesOf(k)
    /\ ValidToken(c, realm)
    /\ request' = [request EXCEPT ![r] =
           [step |-> IF MustRecheck(realm, kind) THEN "check" ELSE "run",
            realm |-> realm, kind |-> kind, cookie |-> c, from |-> k]]
    /\ UNCHANGED <<standing, version, stored, lapsed, asking, mail, click, legacy, dead, cut>>

\* A slip: the comparison the wrong way round.
VersionNotNewer(c, x) == c.version <= version[x]

\* sessionVersionCurrent: a cookie without a version is let through.
VersionCurrent(c, x) == c.version \in {0, version[x]}

\* The mentor's row, by the cookie's id: its status and its version.
MentorSessionStillValid(c) ==
    /\ c.sub \in MentorAccount
    /\ MayHoldMentorSession(standing[c.sub])
    /\ VersionCurrent(c, c.sub)

\* The moderator's row: its version, and the role the cookie was minted with.
AdminSessionRole(c) ==
    /\ c.sub \in ModeratorAccount
    /\ VersionCurrent(c, c.sub)
    /\ standing[c.sub] = c.role

StillValid(realm, c) ==
    IF realm = "mentor" THEN MentorSessionStillValid(c) ELSE AdminSessionRole(c)

LiveCheck(r) ==
    /\ request[r].step = "check"
    /\ request' = [request EXCEPT ![r] =
           IF StillValid(request[r].realm, request[r].cookie)
           THEN [@ EXCEPT !.step = "run"] ELSE NoRequest]
    /\ UNCHANGED <<standing, version, stored, lapsed, asking, mail, click, legacy, dead, cut>>

\* Answered, or given up: a database error in the check refuses the request
\* and keeps the cookie.
EndRequest(r) ==
    /\ request[r].step # "idle"
    /\ request' = [request EXCEPT ![r] = NoRequest]
    /\ UNCHANGED <<standing, version, stored, lapsed, asking, mail, click, legacy, dead, cut>>

-----------------------------------------------------------------------------
(* What ends sessions.                                                     *)

\* Every click whose session, open or about to be, belongs to x.
ClicksOf(x) == {k \in Click : click[k].step \in {"row", "open"} /\ click[k].who = x}

\* session_version + 1: no cookie minted from now on belongs to those clicks.
BumpSessionVersion(x) ==
    /\ version[x] < MaxVersion
    /\ version' = [version EXCEPT ![x] = @ + 1]
    /\ cut' = cut \cup ClicksOf(x)

\* RevokeSession, for any cookie that validates, revoked ones too.  A logout
\* whose update fails changes nothing but the browser.
Logout(c, k) ==
    LET x == c.sub IN
    /\ c \in CookiesOf(k)
    /\ ValidToken(c, Realm(x))
    /\ standing[x] # "gone"
    /\ BumpSessionVersion(x)
    /\ UNCHANGED <<standing, stored, lapsed, asking, mail, click, legacy, request, dead>>

\* SoftDeleteMentor: the link goes, the sessions are revoked.
DeleteProfile(x) ==
    /\ standing[x] \in {"eligible", "declined"}
    /\ standing' = [standing EXCEPT ![x] = "deleted"]
    /\ stored' = [stored EXCEPT ![x] = NoLink]
    /\ dead' = dead \cup ({stored[x]} \ {NoLink})
    /\ BumpSessionVersion(x)
    /\ UNCHANGED <<lapsed, asking, mail, click, legacy, request>>

\* RestoreMentor; a decline and its reversal by an admin; the purge.
MentorMoves ==
    {<<"deleted", "eligible">>, <<"eligible", "declined">>, <<"declined", "eligible">>,
     <<"deleted", "gone">>}

SetMentorStanding(x, to) ==
    /\ <<standing[x], to>> \in MentorMoves
    /\ standing' = [standing EXCEPT ![x] = to]
    /\ stored' = [stored EXCEPT ![x] = IF to = "gone" THEN NoLink ELSE @]
    /\ UNCHANGED <<version, lapsed, asking, mail, click, legacy, request, dead, cut>>

\* An operator changes a moderator's role or removes the row.
SetRole(y, to) ==
    /\ standing[y] \in Roles
    /\ to \in (Roles \cup {"gone"}) \ {standing[y]}
    /\ standing' = [standing EXCEPT ![y] = to]
    /\ stored' = [stored EXCEPT ![y] = IF to = "gone" THEN NoLink ELSE @]
    /\ UNCHANGED <<version, lapsed, asking, mail, click, legacy, request, dead, cut>>

\* FinalizeNewMentor drops a link asked for while the profile is a draft.
FinalizeDropsLink(x) ==
    /\ standing[x] = "eligible" /\ stored[x] # NoLink
    /\ stored' = [stored EXCEPT ![x] = NoLink]
    /\ dead' = dead \cup {stored[x]}
    /\ UNCHANGED <<standing, version, lapsed, asking, mail, click, legacy, request, cut>>

-----------------------------------------------------------------------------
RequestLogin(q) == StoreLoginToken(q) \/ \E x \in Account : LookUpAccount(q, x)

VerifyLogin(k) == MintSession(k) \/ \E l \in Link : ConsumeLoginToken(k, l)

LinkStep ==
    \/ \E q \in LoginRequest : RequestLogin(q) \/ MentorLoginEmail(q) \/ ModeratorLoginEmail(q)
    \/ \E x \in Account : LinkLapses(x)
    \/ \E k \in Click : VerifyLogin(k) \/ CookieExpires(k)
    \/ LegacyCookiesExpire

PortalStep ==
    \/ \E r \in PortalRequest : LiveCheck(r) \/ EndRequest(r)
    \/ \E k \in Click \cup {NoSession} : \E c \in CookiesOf(k) :
          \/ Logout(c, k)
          \/ \E r \in PortalRequest, realm \in {"mentor", "admin"},
                kind \in {"own", "others", "write"} : PresentCookie(r, realm, kind, c, k)

RowStep ==
    \/ \E x \in MentorAccount :
          \/ DeleteProfile(x) \/ FinalizeDropsLink(x)
          \/ \E to \in {"eligible", "declined", "gone"} : SetMentorStanding(x, to)
    \/ \E y \in ModeratorAccount, to \in Roles \cup {"gone"} : SetRole(y, to)

LoginNext == LinkStep \/ PortalStep \/ RowStep

LoginSpec == LoginInit /\ [][LoginNext]_loginVars

-----------------------------------------------------------------------------
(* Properties.                                                             *)

AnyCookie == [sub : Account \cup {NoAccount}, type : {"", "mentor", "admin"},
              aud : {"", "mentor", "admin"}, role : Roles \cup {""}, version : 0 .. MaxVersion]

Standing == {"eligible", "declined", "deleted", "gone"} \cup Roles

\* Every variable keeps its type.
LoginTypeOK ==
    /\ standing \in [Account -> Standing]
    /\ version \in [Account -> 0 .. MaxVersion]
    /\ stored \in [Account -> Link \cup {NoLink}]
    /\ lapsed \in [Account -> BOOLEAN]
    /\ asking \in [LoginRequest -> [step : {"idle", "found", "done"},
                                    who : Account \cup {NoAccount}]]
    /\ mail \in [Link -> {"unsent", "coming", "inbox", "lost"}]
    /\ click \in [Click -> [step : {"idle", "row", "open", "over"},
                            link : Link \cup {NoLink}, who : Account \cup {NoAccount},
                            standing : Standing, version : 0 .. MaxVersion]]
    /\ legacy \in BOOLEAN
    /\ request \in [PortalRequest -> [step : {"idle", "check", "run"},
                            realm : {"mentor", "admin"}, kind : {"own", "others", "write"},
                            cookie : AnyCookie, from : Click \cup {NoSession}]]
    /\ dead \subseteq Link /\ cut \subseteq Click

\* A link opens one session at most, and none once a newer one replaced it,
\* its time was up, or the profile was deleted, even if it was restored since
\* (ConsumeLoginToken and SoftDeleteMentor): two clicks, or a click against
\* any of these.
LinkOpensOnce ==
    [][\A k \in Click : click[k].step = "idle" /\ click'[k].step = "row" =>
          click'[k].link \notin dead]_loginVars

\* After a logout or a deletion, no session whose link was clicked before it
\* reads anybody else's data, writes, or acts as a moderator again, however
\* the three race and even if the profile is restored (session_version, D58).
RevokedStaysOut ==
    [][\A r \in PortalRequest :
          /\ request[r].step # "run" /\ request'[r].step = "run"
          /\ request'[r].realm = "admin" \/ request'[r].kind # "own"
          => request'[r].from \notin cut]_loginVars

\* A mentor's cookie never passes in the moderators' realm, nor the other way
\* round, whichever release minted it (validateAudience, validateTokenType).
RealmsApart ==
    \A r \in PortalRequest :
        request[r].step # "idle" => Realm(request[r].cookie.sub) = request[r].realm
================================================================================

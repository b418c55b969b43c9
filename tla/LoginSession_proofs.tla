--------------------------- MODULE LoginSession_proofs ---------------------------
(***************************************************************************)
(* Links and sessions, for any number of accounts, links, clicks and       *)
(* requests: a dead link opens nothing, a revoked session is let in by no  *)
(* route that looks at the row again, and no cookie crosses the realms.    *)
(***************************************************************************)
EXTENDS LoginSession, TLAPS

-----------------------------------------------------------------------------
(* The inductive invariant.                                                *)

\* Roles are the moderators', and versions count from one.
AccountsOK ==
    /\ \A x \in MentorAccount : standing[x] \in {"eligible", "declined", "deleted", "gone"}
    /\ \A y \in ModeratorAccount : standing[y] \in Roles \cup {"gone"}
    /\ \A x \in Account : version[x] # 0

\* A stored link belongs to one account, and is dead only if it has lapsed; a
\* link that is still to be stored is not dead.
LinksOK ==
    /\ \A x \in Account : stored[x] # NoLink =>
          /\ asking[stored[x]].step = "done" /\ asking[stored[x]].who = x
          /\ lapsed[x] \/ stored[x] \notin dead
    /\ \A q \in LoginRequest : asking[q].step = "found" => asking[q].who \in Account
    /\ \A l \in dead : asking[l].step = "done"

\* A click got its row from an account, which has moved on if the click is cut.
ClicksOK ==
    /\ \A k \in Click : click[k].step # "idle" =>
          /\ click[k].who \in Account /\ click[k].version # 0
          /\ click[k].version <= version[click[k].who]
          /\ click[k].who \in ModeratorAccount => click[k].standing \in Roles \cup {"gone"}
          /\ click[k].step = "open" => MayLogIn(click[k].standing)
    /\ \A k \in cut : click[k].step # "idle" /\ click[k].version < version[click[k].who]

\* A request carries the cookie of its click.
RequestsOK ==
    \A r \in PortalRequest : request[r].step # "idle" /\ request[r].from \in Click =>
        /\ click[request[r].from].step # "idle"
        /\ request[r].cookie.sub = click[request[r].from].who
        /\ request[r].cookie.version = click[request[r].from].version

LoginInv == LoginTypeOK /\ AccountsOK /\ LinksOK /\ ClicksOK /\ RequestsOK /\ RealmsApart

Asking == [step : {"idle", "found", "done"}, who : Account \cup {NoAccount}]
ClickRow == [step : {"idle", "row", "open", "over"}, link : Link \cup {NoLink},
             who : Account \cup {NoAccount}, standing : Standing, version : 0 .. MaxVersion]
Request == [step : {"idle", "check", "run"}, realm : {"mentor", "admin"},
            kind : {"own", "others", "write"}, cookie : AnyCookie, from : Click \cup {NoSession}]

\* A cookie without a version, and the first of a row.
LEMMA FirstVersions == 0 \in 0 .. MaxVersion /\ 1 \in 0 .. MaxVersion
BY LoginAssumption

\* What the invariant says of the types.
LEMMA LoginTyped ==
    ASSUME LoginInv
    PROVE  /\ standing \in [Account -> Standing] /\ version \in [Account -> 0 .. MaxVersion]
           /\ stored \in [Account -> Link \cup {NoLink}] /\ lapsed \in [Account -> BOOLEAN]
           /\ asking \in [LoginRequest -> Asking]
           /\ mail \in [Link -> {"unsent", "coming", "inbox", "lost"}]
           /\ click \in [Click -> ClickRow] /\ legacy \in BOOLEAN
           /\ request \in [PortalRequest -> Request] /\ dead \subseteq Link /\ cut \subseteq Click
BY DEF LoginInv, LoginTypeOK, Asking, ClickRow, Request

-----------------------------------------------------------------------------
(* Steps that concern links.                                               *)

\* A step that leaves accounts' standing, clicks and requests alone.
LEMMA LinkStepKeeps ==
    ASSUME LoginInv, UNCHANGED <<standing, version, click, request, cut>>, legacy' \in BOOLEAN,
           stored' \in [Account -> Link \cup {NoLink}], lapsed' \in [Account -> BOOLEAN],
           asking' \in [LoginRequest -> Asking],
           mail' \in [Link -> {"unsent", "coming", "inbox", "lost"}], dead' \subseteq Link, LinksOK'
    PROVE  LoginInv'
<1>1. LoginTypeOK' BY DEF LoginInv, LoginTypeOK, Asking
<1>2. AccountsOK' BY DEF LoginInv, AccountsOK
<1>3. ClicksOK' BY DEF LoginInv, ClicksOK
<1>4. RequestsOK' BY DEF LoginInv, RequestsOK
<1>5. RealmsApart' BY DEF LoginInv, RealmsApart
<1> QED BY <1>1, <1>2, <1>3, <1>4, <1>5 DEF LoginInv

\* A request for a link finds its account.
LEMMA LookUpAccountInv ==
    ASSUME LoginInv, NEW q \in LoginRequest, NEW x \in Account, LookUpAccount(q, x)
    PROVE  LoginInv'
<1>1. /\ asking[q].step = "idle" /\ asking' = [asking EXCEPT ![q] = [step |-> "found", who |-> x]]
      /\ UNCHANGED <<standing, version, stored, lapsed, mail, click, legacy, request, dead, cut>>
  BY DEF LookUpAccount
<1>2. [step |-> "found", who |-> x] \in Asking BY DEF Asking
<1>3. /\ asking' \in [LoginRequest -> Asking] /\ asking'[q] = [step |-> "found", who |-> x]
      /\ \A o \in LoginRequest \ {q} : asking'[o] = asking[o]
  BY <1>1, <1>2, LoginTyped
<1>4. LinksOK' BY <1>1, <1>3, LoginTyped DEF LoginInv, LinksOK, Link
<1> QED BY <1>1, <1>3, <1>4, LinkStepKeeps, LoginTyped

\* The new link is nobody else's and not dead; the one it replaces is.
LEMMA StoreLoginTokenInv ==
    ASSUME LoginInv, NEW q \in LoginRequest, StoreLoginToken(q)
    PROVE  LoginInv'
<1>1. PICK x \in Account : x = asking[q].who BY DEF StoreLoginToken, LoginInv, LinksOK
<1>2. /\ asking[q].step = "found" /\ asking' = [asking EXCEPT ![q].step = "done"]
      /\ mail' = [mail EXCEPT ![q] = "coming"] /\ SetLoginToken(x, q)
      /\ UNCHANGED <<standing, version, click, legacy, request, cut>>
  BY <1>1 DEF StoreLoginToken
<1>3. /\ asking' \in [LoginRequest -> Asking] /\ asking'[q].step = "done" /\ asking'[q].who = x
      /\ \A o \in LoginRequest \ {q} : asking'[o] = asking[o]
  <2>1. [asking[q] EXCEPT !.step = "done"] \in Asking BY LoginTyped DEF Asking
  <2>2. asking[q] \in Asking BY LoginTyped
  <2> QED BY <1>1, <1>2, <2>1, <2>2, LoginTyped DEF Asking
<1>4. mail' \in [Link -> {"unsent", "coming", "inbox", "lost"}] BY <1>2, LoginTyped DEF Link
<1>5. \A y \in Account : stored[y] # q
  <2>1. q # NoLink BY LoginAssumption DEF Link
  <2> QED BY <1>2, <2>1 DEF LoginInv, LinksOK
<1>6. q \notin dead BY <1>2 DEF LoginInv, LinksOK
<1>7. CASE standing[x] = "gone"
  <2>1. UNCHANGED <<stored, lapsed, dead>> BY <1>2, <1>7 DEF SetLoginToken
  <2>2. LinksOK' BY <1>2, <1>3, <1>5, <1>6, <2>1, LoginTyped DEF LoginInv, LinksOK, Link
  <2> QED BY <1>2, <1>3, <1>4, <2>1, <2>2, LinkStepKeeps, LoginTyped
<1>8. CASE standing[x] # "gone"
  <2>1. /\ stored' = [stored EXCEPT ![x] = q] /\ lapsed' = [lapsed EXCEPT ![x] = FALSE]
        /\ dead' = dead \cup ({stored[x]} \ {NoLink})
    BY <1>2, <1>8 DEF SetLoginToken
  <2>2. /\ stored' \in [Account -> Link \cup {NoLink}] /\ lapsed' \in [Account -> BOOLEAN]
        /\ dead' \subseteq Link /\ stored'[x] = q
        /\ \A y \in Account \ {x} : stored'[y] = stored[y] /\ lapsed'[y] = lapsed[y]
    BY <2>1, LoginTyped DEF Link
  <2>3. q \notin dead' BY <1>5, <1>6, <2>1
  <2>4. \A y \in Account \ {x} : stored[y] # NoLink => stored[y] # stored[x] /\ stored[y] # q
    BY <1>5 DEF LoginInv, LinksOK
  <2>5. \A y \in Account : stored'[y] # NoLink =>
          /\ asking'[stored'[y]].step = "done" /\ asking'[stored'[y]].who = y
          /\ lapsed'[y] \/ stored'[y] \notin dead'
    <3> SUFFICES ASSUME NEW y \in Account, stored'[y] # NoLink
                 PROVE  /\ asking'[stored'[y]].step = "done" /\ asking'[stored'[y]].who = y
                        /\ lapsed'[y] \/ stored'[y] \notin dead'
      OBVIOUS
    <3>1. CASE y = x BY <1>3, <2>2, <2>3, <3>1
    <3>2. CASE y # x
      <4>1. stored'[y] = stored[y] /\ lapsed'[y] = lapsed[y] /\ stored[y] \in LoginRequest \ {q}
        BY <2>2, <2>4, <3>2, LoginTyped DEF Link
      <4>2. asking'[stored[y]] = asking[stored[y]] BY <1>3, <4>1
      <4>3. stored[y] \in dead' => stored[y] \in dead BY <2>1, <2>4, <3>2, <4>1
      <4> QED BY <4>1, <4>2, <4>3 DEF LoginInv, LinksOK
    <3> QED BY <3>1, <3>2
  <2>6. \A o \in LoginRequest : asking'[o].step = "found" => asking'[o].who \in Account
    BY <1>1, <1>3 DEF LoginInv, LinksOK
  <2>7. \A l \in dead' : asking'[l].step = "done"
    <3> SUFFICES ASSUME NEW l \in dead' PROVE asking'[l].step = "done" OBVIOUS
    <3>1. asking[l].step = "done" BY <2>1 DEF LoginInv, LinksOK
    <3>2. l \in LoginRequest \ {q} BY <2>2, <2>3 DEF Link
    <3> QED BY <1>3, <3>1, <3>2
  <2>8. LinksOK' BY <2>5, <2>6, <2>7 DEF LinksOK
  <2> QED BY <1>2, <1>3, <1>4, <2>2, <2>8, LinkStepKeeps, LoginTyped
<1> QED BY <1>7, <1>8

\* The e-mail changes no row.
LEMMA SendLinkInv ==
    ASSUME LoginInv, NEW l \in Link, SendLink(l)
    PROVE  LoginInv'
<1>1. /\ mail' \in [Link -> {"unsent", "coming", "inbox", "lost"}]
      /\ UNCHANGED <<standing, version, stored, lapsed, asking, click, legacy, request, dead, cut>>
  BY LoginTyped DEF SendLink
<1>2. LinksOK' BY <1>1 DEF LoginInv, LinksOK
<1> QED BY <1>1, <1>2, LinkStepKeeps, LoginTyped

\* A link that lapses is dead and known to have lapsed.
LEMMA LinkLapsesInv ==
    ASSUME LoginInv, NEW x \in Account, LinkLapses(x)
    PROVE  LoginInv'
<1>1. /\ stored[x] # NoLink /\ lapsed' = [lapsed EXCEPT ![x] = TRUE] /\ dead' = dead \cup {stored[x]}
      /\ UNCHANGED <<standing, version, stored, asking, mail, click, legacy, request, cut>>
  BY DEF LinkLapses
<1>2. /\ lapsed' \in [Account -> BOOLEAN] /\ dead' \subseteq Link /\ lapsed'[x] = TRUE
      /\ \A y \in Account \ {x} : lapsed'[y] = lapsed[y]
  BY <1>1, LoginTyped
<1>3. \A y \in Account \ {x} : stored[y] # NoLink => stored[y] # stored[x]
  BY DEF LoginInv, LinksOK
<1>4. LinksOK' BY <1>1, <1>2, <1>3 DEF LoginInv, LinksOK
<1> QED BY <1>1, <1>2, <1>4, LinkStepKeeps, LoginTyped

\* A link that is taken from its account, dead or not.
LEMMA LinkGoes ==
    ASSUME LoginInv, NEW x \in Account, stored' = [stored EXCEPT ![x] = NoLink],
           UNCHANGED <<lapsed, asking>>, dead' \in {dead, dead \cup ({stored[x]} \ {NoLink})}
    PROVE  LinksOK' /\ stored' \in [Account -> Link \cup {NoLink}] /\ dead' \subseteq Link
<1>1. /\ stored'[x] = NoLink /\ \A y \in Account \ {x} : stored'[y] = stored[y]
      /\ stored' \in [Account -> Link \cup {NoLink}] /\ dead' \subseteq Link
  BY LoginTyped
<1>2. \A y \in Account \ {x} : stored[y] # NoLink => stored[y] # stored[x]
  BY DEF LoginInv, LinksOK
<1>3. LinksOK' BY <1>1, <1>2 DEF LoginInv, LinksOK
<1> QED BY <1>1, <1>3

\* A finalized registration has no link.
LEMMA FinalizeDropsLinkInv ==
    ASSUME LoginInv, NEW x \in MentorAccount, FinalizeDropsLink(x)
    PROVE  LoginInv'
<1>1. /\ stored[x] # NoLink /\ stored' = [stored EXCEPT ![x] = NoLink] /\ dead' = dead \cup {stored[x]}
      /\ UNCHANGED <<standing, version, lapsed, asking, mail, click, legacy, request, cut>>
  BY DEF FinalizeDropsLink
<1>2. x \in Account BY DEF Account
<1>3. dead' = dead \cup ({stored[x]} \ {NoLink}) BY <1>1
<1> QED BY <1>1, <1>2, <1>3, LinkGoes, LinkStepKeeps, LoginTyped

-----------------------------------------------------------------------------
(* Clicks.                                                                 *)

\* A click that moves on, from the row it has or to one it just read.
LEMMA ClickMoves ==
    ASSUME LoginInv, NEW k \in Click, NEW c \in ClickRow, click' = [click EXCEPT ![k] = c],
           UNCHANGED <<standing, version, lapsed, asking, mail, legacy, request, cut>>,
           LinksOK', stored' \in [Account -> Link \cup {NoLink}], dead' \subseteq Link,
           c.step # "idle", c.who \in Account, c.version # 0, c.version <= version[c.who],
           c.who \in ModeratorAccount => c.standing \in Roles \cup {"gone"},
           c.step = "open" => MayLogIn(c.standing),
           click[k].step # "idle" => c.who = click[k].who /\ c.version = click[k].version
    PROVE  LoginInv'
<1>1. /\ click' \in [Click -> ClickRow] /\ click'[k] = c /\ \A o \in Click \ {k} : click'[o] = click[o]
  BY LoginTyped
<1>2. LoginTypeOK' BY <1>1 DEF LoginInv, LoginTypeOK, ClickRow
<1>3. AccountsOK' BY DEF LoginInv, AccountsOK
<1>4. ClicksOK'
  <2>1. ASSUME NEW o \in Click, click'[o].step # "idle"
        PROVE  /\ click'[o].who \in Account /\ click'[o].version # 0
               /\ click'[o].version <= version[click'[o].who]
               /\ click'[o].who \in ModeratorAccount => click'[o].standing \in Roles \cup {"gone"}
               /\ click'[o].step = "open" => MayLogIn(click'[o].standing)
    <3>1. CASE o = k BY <1>1, <3>1
    <3>2. CASE o # k BY <1>1, <2>1, <3>2 DEF LoginInv, ClicksOK
    <3> QED BY <3>1, <3>2
  <2>2. ASSUME NEW o \in cut PROVE click'[o].step # "idle" /\ click'[o].version < version[click'[o].who]
    <3>1. o \in Click /\ click[o].step # "idle" /\ click[o].version < version[click[o].who]
      BY LoginTyped DEF LoginInv, ClicksOK
    <3>2. CASE o = k BY <1>1, <3>1, <3>2
    <3>3. CASE o # k BY <1>1, <3>1, <3>3
    <3> QED BY <3>2, <3>3
  <2> QED BY <2>1, <2>2 DEF ClicksOK
<1>5. RequestsOK'
  <2> SUFFICES ASSUME NEW r \in PortalRequest, request[r].step # "idle", request[r].from \in Click
               PROVE  /\ click'[request[r].from].step # "idle"
                      /\ request[r].cookie.sub = click'[request[r].from].who
                      /\ request[r].cookie.version = click'[request[r].from].version
    BY DEF RequestsOK
  <2>1. /\ click[request[r].from].step # "idle"
        /\ request[r].cookie.sub = click[request[r].from].who
        /\ request[r].cookie.version = click[request[r].from].version
    BY DEF LoginInv, RequestsOK
  <2>2. CASE request[r].from = k BY <1>1, <2>1, <2>2
  <2>3. CASE request[r].from # k BY <1>1, <2>1, <2>3
  <2> QED BY <2>2, <2>3
<1>6. RealmsApart' BY DEF LoginInv, RealmsApart
<1> QED BY <1>2, <1>3, <1>4, <1>5, <1>6 DEF LoginInv

\* The click takes the link and the row's version as of now.
LEMMA ConsumeLoginTokenInv ==
    ASSUME LoginInv, NEW k \in Click, NEW l \in Link, ConsumeLoginToken(k, l)
    PROVE  LoginInv'
<1>1. PICK x \in Account :
          /\ stored[x] = l /\ stored' = [stored EXCEPT ![x] = NoLink]
          /\ click' = [click EXCEPT ![k] = [step |-> "row", link |-> l,
                           who |-> x, standing |-> standing[x], version |-> version[x]]]
  BY DEF ConsumeLoginToken, Consumable
<1>2. /\ click[k].step = "idle" /\ dead' = dead \cup {l}
      /\ UNCHANGED <<standing, version, lapsed, asking, mail, legacy, request, cut>>
  BY DEF ConsumeLoginToken
<1>3. PICK c : c = [step |-> "row", link |-> l, who |-> x, standing |-> standing[x],
                    version |-> version[x]]
  OBVIOUS
<1>4. c \in ClickRow BY <1>3, LoginTyped DEF ClickRow
<1>5. /\ c.step = "row" /\ c.who = x /\ c.standing = standing[x] /\ c.version = version[x] BY <1>3
<1>6. version[x] # 0 /\ (x \in ModeratorAccount => standing[x] \in Roles \cup {"gone"})
  BY DEF LoginInv, AccountsOK
<1>7. version[x] \in Nat BY LoginTyped, LoginAssumption
<1>8. l # NoLink BY LoginAssumption
<1>9. LinksOK' /\ stored' \in [Account -> Link \cup {NoLink}] /\ dead' \subseteq Link
  <2>1. dead' = dead \cup ({stored[x]} \ {NoLink}) BY <1>1, <1>2, <1>8
  <2> QED BY <1>1, <1>2, <2>1, LinkGoes
<1>10. c.version <= version[c.who] BY <1>5, <1>7
<1> QED BY <1>1, <1>2, <1>3, <1>4, <1>5, <1>6, <1>9, <1>10, ClickMoves

\* The click goes on to a session, or that session is over.
LEMMA ClickEnds ==
    ASSUME LoginInv, NEW k \in Click, NEW s \in {"open", "over"}, click[k].step # "idle",
           s = "open" => MayLogIn(click[k].standing), click' = [click EXCEPT ![k].step = s],
           UNCHANGED <<standing, version, stored, lapsed, asking, mail, legacy, request, dead, cut>>
    PROVE  LoginInv'
<1>1. PICK c : c = [click[k] EXCEPT !.step = s] OBVIOUS
<1>2. click[k] \in ClickRow BY LoginTyped
<1>3. /\ c \in ClickRow /\ c.step = s /\ c.who = click[k].who /\ c.version = click[k].version
      /\ c.standing = click[k].standing
  BY <1>1, <1>2 DEF ClickRow
<1>4. click' = [click EXCEPT ![k] = c] BY <1>1
<1>5. LinksOK' BY DEF LoginInv, LinksOK
<1>6. /\ c.who \in Account /\ c.version # 0 /\ c.version <= version[c.who]
      /\ c.who \in ModeratorAccount => c.standing \in Roles \cup {"gone"}
  BY <1>3 DEF LoginInv, ClicksOK
<1>7. c.step # "idle" BY <1>3
<1>8. c.step = "open" => MayLogIn(c.standing) BY <1>3
<1> QED BY <1>3, <1>4, <1>5, <1>6, <1>7, <1>8, ClickMoves, LoginTyped

\* A session opens for a row that may hold one.
LEMMA MintSessionInv ==
    ASSUME LoginInv, NEW k \in Click, MintSession(k)
    PROVE  LoginInv'
<1>1. PICK s : s = IF MayLogIn(click[k].standing) THEN "open" ELSE "over" OBVIOUS
<1>2. s \in {"open", "over"} /\ (s = "open" => MayLogIn(click[k].standing)) BY <1>1
<1> QED BY <1>1, <1>2, ClickEnds DEF MintSession

\* A cookie expires.
LEMMA CookieExpiresInv ==
    ASSUME LoginInv, NEW k \in Click, CookieExpires(k)
    PROVE  LoginInv'
BY ClickEnds DEF CookieExpires

\* The cookies of the releases before expire.
LEMMA LegacyCookiesExpireInv ==
    ASSUME LoginInv, LegacyCookiesExpire
    PROVE  LoginInv'
<1>1. /\ legacy' = FALSE
      /\ UNCHANGED <<standing, version, stored, lapsed, asking, mail, click, request, dead, cut>>
  BY DEF LegacyCookiesExpire
<1>2. LinksOK' BY <1>1 DEF LoginInv, LinksOK
<1> QED BY <1>1, <1>2, LinkStepKeeps, LoginTyped

-----------------------------------------------------------------------------
(* Requests.                                                               *)

\* What a cookie that is presented says of its click and its realm.
LEMMA CookiesSayTrue ==
    ASSUME LoginInv, NEW k \in Click \cup {NoSession}, NEW c \in CookiesOf(k)
    PROVE  /\ c \in AnyCookie /\ c.sub \in Account
           /\ k \in Click => /\ click[k].step # "idle" /\ c.sub = click[k].who
                             /\ c.version = click[k].version
           /\ \A realm \in {"mentor", "admin"} : ValidToken(c, realm) => Realm(c.sub) = realm
<1>1. CASE k = NoSession
  <2>1. k \notin Click BY <1>1, LoginAssumption
  <2>2. c \in LegacyCookies BY <1>1 DEF CookiesOf
  <2>3. c \in LegacyCookie BY <2>2 DEF LegacyCookies
  <2>4. PICK x \in Account : x = c.sub BY <2>3 DEF LegacyCookie
  <2>5. c.type \in {"", Realm(x)} /\ (c.role = "" <=> x \in MentorAccount)
    BY <2>2, <2>4 DEF LegacyCookies
  <2>6. c \in AnyCookie BY <2>3, FirstVersions DEF LegacyCookie, AnyCookie
  <2>7. ASSUME NEW realm \in {"mentor", "admin"}, ValidToken(c, realm) PROVE Realm(x) = realm
    BY <2>5, <2>7 DEF ValidToken, ValidTokenType, Realm
  <2> QED BY <2>1, <2>4, <2>6, <2>7
<1>2. CASE k # NoSession
  <2>1. click[k].step = "open" /\ c = MintedCookie(k) /\ k \in Click BY <1>2 DEF CookiesOf
  <2>2. PICK x \in Account : x = click[k].who BY <2>1 DEF LoginInv, ClicksOK
  <2>3. click[k] \in ClickRow /\ click[k].version \in 0 .. MaxVersion
    BY <2>1, LoginTyped DEF ClickRow
  <2>4. CASE x \in MentorAccount
    <3>1. c = Cookie(x, "mentor", "mentor", "", click[k].version)
      BY <2>1, <2>2, <2>4 DEF MintedCookie, GenerateToken
    <3>2. c.sub = x /\ c.type = "mentor" /\ c.version = click[k].version BY <3>1 DEF Cookie
    <3>3. c \in AnyCookie BY <2>3, <3>1 DEF Cookie, AnyCookie
    <3>4. ASSUME NEW realm \in {"mentor", "admin"}, ValidToken(c, realm) PROVE Realm(x) = realm
      BY <2>4, <3>2, <3>4 DEF ValidToken, ValidTokenType, Realm
    <3> QED BY <2>1, <2>2, <3>2, <3>3, <3>4
  <2>5. CASE x \notin MentorAccount
    <3>1. c = Cookie(x, "admin", "admin", click[k].standing, click[k].version)
      BY <2>1, <2>2, <2>5 DEF MintedCookie, GenerateTokenWithRole
    <3>2. c.sub = x /\ c.type = "admin" /\ c.version = click[k].version BY <3>1 DEF Cookie
    <3>3. x \in ModeratorAccount BY <2>5 DEF Account
    <3>4. click[k].standing \in Roles \cup {"gone"} /\ MayLogIn(click[k].standing)
      BY <2>1, <2>2, <3>3 DEF LoginInv, ClicksOK
    <3>5. click[k].standing \in Roles
      BY <3>4 DEF MayLogIn, MayHoldMentorSession, IsValidRole
    <3>6. c \in AnyCookie BY <2>3, <3>1, <3>5 DEF Cookie, AnyCookie
    <3>7. ASSUME NEW realm \in {"mentor", "admin"}, ValidToken(c, realm) PROVE Realm(x) = realm
      BY <2>5, <3>2, <3>7 DEF ValidToken, ValidTokenType, Realm
    <3> QED BY <2>1, <2>2, <3>2, <3>6, <3>7
  <2> QED BY <2>4, <2>5
<1> QED BY <1>1, <1>2

\* A request that begins with a cookie that says true, goes on, or ends.
LEMMA RequestMoves ==
    ASSUME LoginInv, NEW r \in PortalRequest, NEW q \in Request, request' = [request EXCEPT ![r] = q],
           UNCHANGED <<standing, version, stored, lapsed, asking, mail, click, legacy, dead, cut>>,
           q.step # "idle" => /\ Realm(q.cookie.sub) = q.realm
                              /\ q.from \in Click => /\ click[q.from].step # "idle"
                                                     /\ q.cookie.sub = click[q.from].who
                                                     /\ q.cookie.version = click[q.from].version
    PROVE  LoginInv'
<1>1. /\ request' \in [PortalRequest -> Request] /\ request'[r] = q
      /\ \A o \in PortalRequest \ {r} : request'[o] = request[o]
  BY LoginTyped
<1>2. LoginTypeOK' BY <1>1 DEF LoginInv, LoginTypeOK, Request
<1>3. AccountsOK' BY DEF LoginInv, AccountsOK
<1>4. LinksOK' BY DEF LoginInv, LinksOK
<1>5. ClicksOK' BY DEF LoginInv, ClicksOK
<1>6. RequestsOK' BY <1>1 DEF LoginInv, RequestsOK
<1>7. RealmsApart' BY <1>1 DEF LoginInv, RealmsApart
<1> QED BY <1>2, <1>3, <1>4, <1>5, <1>6, <1>7 DEF LoginInv

\* A request starts with a cookie that belongs to its realm.
LEMMA PresentCookieInv ==
    ASSUME LoginInv, NEW r \in PortalRequest, NEW realm \in {"mentor", "admin"},
           NEW kind \in {"own", "others", "write"}, NEW k \in Click \cup {NoSession},
           NEW c \in CookiesOf(k), PresentCookie(r, realm, kind, c, k)
    PROVE  LoginInv'
<1>1. PICK s : s = IF MustRecheck(realm, kind) THEN "check" ELSE "run" OBVIOUS
<1>2. PICK q : q = [step |-> s, realm |-> realm, kind |-> kind, cookie |-> c, from |-> k] OBVIOUS
<1>3. /\ request' = [request EXCEPT ![r] = q] /\ ValidToken(c, realm)
      /\ UNCHANGED <<standing, version, stored, lapsed, asking, mail, click, legacy, dead, cut>>
  BY <1>1, <1>2 DEF PresentCookie
<1>4. s \in {"check", "run"} BY <1>1
<1>5. c \in AnyCookie BY CookiesSayTrue
<1>6. q \in Request BY <1>2, <1>4, <1>5 DEF Request
<1>7. q.realm = realm /\ q.cookie = c /\ q.from = k BY <1>2
<1>8. Realm(q.cookie.sub) = q.realm BY <1>3, <1>7, CookiesSayTrue
<1>9. q.from \in Click => /\ click[q.from].step # "idle" /\ q.cookie.sub = click[q.from].who
                          /\ q.cookie.version = click[q.from].version
  BY <1>7, CookiesSayTrue
<1> QED BY <1>3, <1>6, <1>8, <1>9, RequestMoves

\* The request that is none.
LEMMA NoRequestTyped == NoRequest \in Request /\ NoRequest.step = "idle"
<1>1. NoCookie \in AnyCookie BY FirstVersions DEF NoCookie, Cookie, AnyCookie
<1> QED BY <1>1 DEF NoRequest, Request

\* The second look lets the request run or ends it.
LEMMA LiveCheckInv ==
    ASSUME LoginInv, NEW r \in PortalRequest, LiveCheck(r)
    PROVE  LoginInv'
<1>1. /\ request[r].step = "check"
      /\ UNCHANGED <<standing, version, stored, lapsed, asking, mail, click, legacy, dead, cut>>
  BY DEF LiveCheck
<1>2. CASE StillValid(request[r].realm, request[r].cookie)
  <2>1. PICK q : q = [request[r] EXCEPT !.step = "run"] OBVIOUS
  <2>2. request[r] \in Request BY LoginTyped
  <2>3. /\ q \in Request /\ q.realm = request[r].realm /\ q.cookie = request[r].cookie
        /\ q.from = request[r].from
    BY <2>1, <2>2 DEF Request
  <2>4. request' = [request EXCEPT ![r] = q] BY <1>2, <2>1 DEF LiveCheck
  <2>5. Realm(q.cookie.sub) = q.realm BY <1>1, <2>3 DEF LoginInv, RealmsApart
  <2>6. q.from \in Click => /\ click[q.from].step # "idle" /\ q.cookie.sub = click[q.from].who
                            /\ q.cookie.version = click[q.from].version
    BY <1>1, <2>3 DEF LoginInv, RequestsOK
  <2> QED BY <1>1, <2>3, <2>4, <2>5, <2>6, RequestMoves
<1>3. CASE ~StillValid(request[r].realm, request[r].cookie)
  <2>1. request' = [request EXCEPT ![r] = NoRequest] BY <1>3 DEF LiveCheck
  <2> QED BY <1>1, <2>1, NoRequestTyped, RequestMoves
<1> QED BY <1>2, <1>3

\* A request ends.
LEMMA EndRequestInv ==
    ASSUME LoginInv, NEW r \in PortalRequest, EndRequest(r)
    PROVE  LoginInv'
BY NoRequestTyped, RequestMoves DEF EndRequest

-----------------------------------------------------------------------------
(* Rows.                                                                   *)

\* A row that changes its standing, with or without its link.
LEMMA StandingMoves ==
    ASSUME LoginInv, NEW x \in Account, NEW to \in Standing, standing' = [standing EXCEPT ![x] = to],
           x \in MentorAccount => to \in {"eligible", "declined", "deleted", "gone"},
           x \in ModeratorAccount => to \in Roles \cup {"gone"},
           stored' \in {stored, [stored EXCEPT ![x] = NoLink]},
           UNCHANGED <<version, lapsed, asking, mail, click, legacy, request, dead, cut>>
    PROVE  LoginInv'
<1>1. /\ standing' \in [Account -> Standing] /\ standing'[x] = to
      /\ \A y \in Account \ {x} : standing'[y] = standing[y]
  BY LoginTyped
<1>2. LinksOK' /\ stored' \in [Account -> Link \cup {NoLink}]
  <2>1. CASE stored' = stored BY <2>1, LoginTyped DEF LoginInv, LinksOK
  <2>2. CASE stored' = [stored EXCEPT ![x] = NoLink] BY <2>2, LinkGoes
  <2> QED BY <2>1, <2>2
<1>3. LoginTypeOK' BY <1>1, <1>2 DEF LoginInv, LoginTypeOK
<1>4. AccountsOK' BY <1>1 DEF LoginInv, AccountsOK, Account
<1>5. ClicksOK' BY DEF LoginInv, ClicksOK
<1>6. RequestsOK' BY DEF LoginInv, RequestsOK
<1>7. RealmsApart' BY DEF LoginInv, RealmsApart
<1> QED BY <1>2, <1>3, <1>4, <1>5, <1>6, <1>7 DEF LoginInv

\* A session version that is raised leaves the clicks before it behind.
LEMMA VersionRises ==
    ASSUME LoginInv, NEW x \in Account, BumpSessionVersion(x),
           UNCHANGED <<asking, mail, click, legacy, request>>,
           standing' \in [Account -> Standing], stored' \in [Account -> Link \cup {NoLink}],
           lapsed' \in [Account -> BOOLEAN], dead' \subseteq Link, LinksOK',
           \A y \in MentorAccount : standing'[y] \in {"eligible", "declined", "deleted", "gone"},
           \A y \in ModeratorAccount : standing'[y] \in Roles \cup {"gone"}
    PROVE  LoginInv'
<1>1. /\ version[x] < MaxVersion /\ version' = [version EXCEPT ![x] = version[x] + 1]
      /\ cut' = cut \cup ClicksOf(x)
  BY DEF BumpSessionVersion
<1>2. \A y \in Account : version[y] \in Nat /\ version[y] <= MaxVersion BY LoginTyped, LoginAssumption
<1>3. /\ version'[x] = version[x] + 1 /\ \A y \in Account \ {x} : version'[y] = version[y]
      /\ version' \in [Account -> 0 .. MaxVersion]
  <2>1. version[x] + 1 \in 0 .. MaxVersion BY <1>1, <1>2, LoginAssumption
  <2> QED BY <1>1, <2>1, LoginTyped
<1>4. \A y \in Account : version'[y] \in Nat /\ version[y] <= version'[y] /\ version'[y] # 0
  <2> SUFFICES ASSUME NEW y \in Account
               PROVE  version'[y] \in Nat /\ version[y] <= version'[y] /\ version'[y] # 0
    OBVIOUS
  <2>1. version[y] # 0 BY DEF LoginInv, AccountsOK
  <2>2. CASE y = x BY <1>2, <1>3, <2>2
  <2>3. CASE y # x BY <1>2, <1>3, <2>1, <2>3
  <2> QED BY <2>2, <2>3
<1>5. \A k \in Click : click[k].version \in Nat
  BY LoginTyped, LoginAssumption DEF ClickRow
<1>6. ClicksOf(x) \subseteq Click BY DEF ClicksOf
<1>7. LoginTypeOK' BY <1>1, <1>3, <1>6 DEF LoginInv, LoginTypeOK
<1>8. AccountsOK' BY <1>4 DEF AccountsOK
<1>9. ClicksOK'
  <2>1. ASSUME NEW k \in Click, click[k].step # "idle"
        PROVE  /\ click[k].who \in Account /\ click[k].version # 0
               /\ click[k].version <= version'[click[k].who]
               /\ click[k].who \in ModeratorAccount => click[k].standing \in Roles \cup {"gone"}
               /\ click[k].step = "open" => MayLogIn(click[k].standing)
    <3>1. PICK y : y = click[k].who OBVIOUS
    <3>2. y \in Account /\ click[k].version <= version[y] BY <2>1, <3>1 DEF LoginInv, ClicksOK
    <3>3. click[k].version <= version'[y] BY <1>2, <1>4, <1>5, <3>2
    <3> QED BY <2>1, <3>1, <3>3 DEF LoginInv, ClicksOK
  <2>2. ASSUME NEW k \in cut' PROVE click[k].step # "idle" /\ click[k].version < version'[click[k].who]
    <3>1. PICK y : y = click[k].who OBVIOUS
    <3>2. CASE k \in cut
      <4>1. k \in Click /\ click[k].step # "idle" /\ click[k].version < version[y]
        BY <3>1, <3>2, LoginTyped DEF LoginInv, ClicksOK
      <4>2. y \in Account BY <3>1, <4>1 DEF LoginInv, ClicksOK
      <4>3. click[k].version < version'[y] BY <1>2, <1>4, <1>5, <4>1, <4>2
      <4> QED BY <3>1, <4>1, <4>3
    <3>3. CASE k \in ClicksOf(x)
      <4>1. k \in Click /\ click[k].step # "idle" /\ y = x BY <3>1, <3>3 DEF ClicksOf
      <4>2. click[k].version <= version[x] BY <3>1, <4>1 DEF LoginInv, ClicksOK
      <4>3. click[k].version < version[x] + 1 BY <1>2, <1>5, <4>1, <4>2
      <4> QED BY <1>3, <3>1, <4>1, <4>3
    <3> QED BY <1>1, <3>2, <3>3
  <2> QED BY <2>1, <2>2 DEF ClicksOK
<1>10. RequestsOK' BY DEF LoginInv, RequestsOK
<1>11. RealmsApart' BY DEF LoginInv, RealmsApart
<1> QED BY <1>7, <1>8, <1>9, <1>10, <1>11 DEF LoginInv

\* A logout raises the version of the cookie's account.
LEMMA LogoutInv ==
    ASSUME LoginInv, NEW k \in Click \cup {NoSession}, NEW c \in CookiesOf(k), Logout(c, k)
    PROVE  LoginInv'
<1>1. PICK x \in Account : x = c.sub BY CookiesSayTrue
<1>2. /\ BumpSessionVersion(x)
      /\ UNCHANGED <<standing, stored, lapsed, asking, mail, click, legacy, request, dead>>
  BY <1>1 DEF Logout
<1>3. LinksOK' BY <1>2 DEF LoginInv, LinksOK
<1>4. /\ \A y \in MentorAccount : standing[y] \in {"eligible", "declined", "deleted", "gone"}
      /\ \A y \in ModeratorAccount : standing[y] \in Roles \cup {"gone"}
  BY DEF LoginInv, AccountsOK
<1> QED BY <1>2, <1>3, <1>4, VersionRises, LoginTyped

\* A deletion takes the link and raises the version.
LEMMA DeleteProfileInv ==
    ASSUME LoginInv, NEW x \in MentorAccount, DeleteProfile(x)
    PROVE  LoginInv'
<1>1. /\ standing' = [standing EXCEPT ![x] = "deleted"] /\ stored' = [stored EXCEPT ![x] = NoLink]
      /\ dead' = dead \cup ({stored[x]} \ {NoLink}) /\ BumpSessionVersion(x)
      /\ UNCHANGED <<lapsed, asking, mail, click, legacy, request>>
  BY DEF DeleteProfile
<1>2. x \in Account /\ x \notin ModeratorAccount BY LoginAssumption DEF Account
<1>3. LinksOK' /\ stored' \in [Account -> Link \cup {NoLink}] /\ dead' \subseteq Link
  BY <1>1, <1>2, LinkGoes
<1>4. /\ standing' \in [Account -> Standing] /\ standing'[x] = "deleted"
      /\ \A y \in Account \ {x} : standing'[y] = standing[y]
  BY <1>1, <1>2, LoginTyped DEF Standing
<1>5. /\ \A y \in MentorAccount : standing'[y] \in {"eligible", "declined", "deleted", "gone"}
      /\ \A y \in ModeratorAccount : standing'[y] \in Roles \cup {"gone"}
  BY <1>2, <1>4 DEF LoginInv, AccountsOK, Account
<1> QED BY <1>1, <1>2, <1>3, <1>4, <1>5, VersionRises, LoginTyped

\* A mentor is restored, declined, reinstated or purged.
LEMMA SetMentorStandingInv ==
    ASSUME LoginInv, NEW x \in MentorAccount, NEW to \in {"eligible", "declined", "gone"},
           SetMentorStanding(x, to)
    PROVE  LoginInv'
<1>1. /\ standing' = [standing EXCEPT ![x] = to]
      /\ stored' = [stored EXCEPT ![x] = IF to = "gone" THEN NoLink ELSE stored[x]]
      /\ UNCHANGED <<version, lapsed, asking, mail, click, legacy, request, dead, cut>>
  BY DEF SetMentorStanding
<1>2. x \in Account /\ x \notin ModeratorAccount BY LoginAssumption DEF Account
<1>3. stored' \in {stored, [stored EXCEPT ![x] = NoLink]}
  <2>1. [stored EXCEPT ![x] = stored[x]] = stored BY <1>2, LoginTyped
  <2>2. CASE to = "gone" BY <1>1, <2>2
  <2>3. CASE to # "gone" BY <1>1, <2>1, <2>3
  <2> QED BY <2>2, <2>3
<1>4. to \in Standing BY DEF Standing
<1> QED BY <1>1, <1>2, <1>3, <1>4, StandingMoves

\* A moderator's role changes or goes.
LEMMA SetRoleInv ==
    ASSUME LoginInv, NEW y \in ModeratorAccount, NEW to \in Roles \cup {"gone"}, SetRole(y, to)
    PROVE  LoginInv'
<1>1. /\ standing' = [standing EXCEPT ![y] = to]
      /\ stored' = [stored EXCEPT ![y] = IF to = "gone" THEN NoLink ELSE stored[y]]
      /\ UNCHANGED <<version, lapsed, asking, mail, click, legacy, request, dead, cut>>
  BY DEF SetRole
<1>2. y \in Account /\ y \notin MentorAccount BY LoginAssumption DEF Account
<1>3. stored' \in {stored, [stored EXCEPT ![y] = NoLink]}
  <2>1. [stored EXCEPT ![y] = stored[y]] = stored BY <1>2, LoginTyped
  <2>2. CASE to = "gone" BY <1>1, <2>2
  <2>3. CASE to # "gone" BY <1>1, <2>1, <2>3
  <2> QED BY <2>2, <2>3
<1>4. to \in Standing BY DEF Standing
<1> QED BY <1>1, <1>2, <1>3, <1>4, StandingMoves

-----------------------------------------------------------------------------
(* The invariant holds.                                                    *)

\* The first states are in the invariant.
LEMMA LoginInitInv ==
    ASSUME LoginInit
    PROVE  LoginInv
<1>1. 0 \in 0 .. MaxVersion /\ 1 \in 0 .. MaxVersion BY FirstVersions
<1>2. NoClick \in ClickRow /\ NoClick.step = "idle" BY <1>1 DEF NoClick, ClickRow, Standing
<1>3. LoginTypeOK
  <2>1. standing \in [Account -> Standing] BY DEF LoginInit, Standing, Roles
  <2>2. version \in [Account -> 0 .. MaxVersion] BY <1>1 DEF LoginInit
  <2>3. asking \in [LoginRequest -> Asking] BY DEF LoginInit, Asking
  <2>4. click \in [Click -> ClickRow] BY <1>2 DEF LoginInit
  <2>5. request \in [PortalRequest -> Request] BY NoRequestTyped DEF LoginInit
  <2> QED BY <2>1, <2>2, <2>3, <2>4, <2>5 DEF LoginInit, LoginTypeOK, Asking, ClickRow, Request
<1>4. AccountsOK BY LoginAssumption DEF LoginInit, AccountsOK, Account, Roles
<1>5. LinksOK BY DEF LoginInit, LinksOK
<1>6. ClicksOK BY <1>2 DEF LoginInit, ClicksOK
<1>7. RequestsOK /\ RealmsApart BY NoRequestTyped DEF LoginInit, RequestsOK, RealmsApart
<1> QED BY <1>3, <1>4, <1>5, <1>6, <1>7 DEF LoginInv

\* Every step stays in the invariant.
LEMMA LoginNextInv == LoginInv /\ [LoginNext]_loginVars => LoginInv'
<1> SUFFICES ASSUME LoginInv, [LoginNext]_loginVars PROVE LoginInv' OBVIOUS
<1>1. CASE UNCHANGED loginVars
  <2>1. UNCHANGED <<standing, version, stored, lapsed, asking, mail, click, legacy, request, dead, cut>>
    BY <1>1 DEF loginVars
  <2>2. LinksOK' BY <2>1 DEF LoginInv, LinksOK
  <2> QED BY <2>1, <2>2, LinkStepKeeps, LoginTyped
<1>2. CASE LinkStep
  BY <1>2, LookUpAccountInv, StoreLoginTokenInv, SendLinkInv, LinkLapsesInv, ConsumeLoginTokenInv,
     MintSessionInv, CookieExpiresInv, LegacyCookiesExpireInv
     DEF LinkStep, RequestLogin, MentorLoginEmail, ModeratorLoginEmail, VerifyLogin, Link
<1>3. CASE PortalStep
  BY <1>3, LiveCheckInv, EndRequestInv, LogoutInv, PresentCookieInv DEF PortalStep
<1>4. CASE RowStep
  BY <1>4, DeleteProfileInv, FinalizeDropsLinkInv, SetMentorStandingInv, SetRoleInv DEF RowStep
<1> QED BY <1>1, <1>2, <1>3, <1>4 DEF LoginNext

\* The invariant holds throughout.
LEMMA LoginInvariant == LoginSpec => []LoginInv
BY LoginInitInv, LoginNextInv, PTL DEF LoginSpec

-----------------------------------------------------------------------------
(* The properties.                                                         *)

\* Every variable keeps its type.
THEOREM LoginsTyped == LoginSpec => []LoginTypeOK
<1>1. LoginInv => LoginTypeOK BY DEF LoginInv
<1> QED BY <1>1, LoginInvariant, PTL

\* No cookie, of this release or of those before, passes in the other realm.
THEOREM RealmsStayApart == LoginSpec => []RealmsApart
<1>1. LoginInv => RealmsApart BY DEF LoginInv
<1> QED BY <1>1, LoginInvariant, PTL

\* A click reads a row only by a link that was never used, replaced, lapsed or
\* deleted.
THEOREM LinksOpenOnce == LoginSpec => LinkOpensOnce
<1> DEFINE Once == \A k \in Click : click[k].step = "idle" /\ click'[k].step = "row" =>
                       click'[k].link \notin dead
<1>1. LoginInv /\ [LoginNext]_loginVars => [Once]_loginVars
  <2> SUFFICES ASSUME LoginInv, LoginNext, NEW k \in Click, click[k].step = "idle",
                      click'[k].step = "row"
               PROVE  click'[k].link \notin dead
    OBVIOUS
  <2>1. ASSUME NEW o \in Click, NEW l \in Link, ConsumeLoginToken(o, l)
        PROVE  click'[k].link \notin dead
    <3>1. PICK x \in Account :
             /\ stored[x] = l /\ ~lapsed[x]
             /\ click' = [click EXCEPT ![o] = [step |-> "row", link |-> l,
                              who |-> x, standing |-> standing[x], version |-> version[x]]]
      BY <2>1 DEF ConsumeLoginToken, Consumable
    <3>2. o = k BY <3>1, LoginTyped
    <3>3. click'[k].link = l BY <3>1, <3>2, LoginTyped
    <3>4. l \notin dead BY <3>1, LoginAssumption DEF LoginInv, LinksOK
    <3> QED BY <3>3, <3>4
  <2>2. ASSUME NEW o \in Click, MintSession(o) \/ CookieExpires(o) PROVE FALSE
    <3>1. CASE o = k BY <2>2, <3>1 DEF MintSession, CookieExpires
    <3>2. CASE o # k BY <2>2, <3>2, LoginTyped DEF MintSession, CookieExpires
    <3> QED BY <3>1, <3>2
  <2>3. ASSUME UNCHANGED click PROVE FALSE BY <2>3
  <2>4. CASE LinkStep
    BY <2>1, <2>2, <2>3, <2>4
       DEF LinkStep, RequestLogin, LookUpAccount, StoreLoginToken, MentorLoginEmail,
           ModeratorLoginEmail, SendLink, LinkLapses, VerifyLogin, LegacyCookiesExpire
  <2>5. CASE PortalStep
    BY <2>3, <2>5 DEF PortalStep, LiveCheck, EndRequest, Logout, PresentCookie
  <2>6. CASE RowStep
    BY <2>3, <2>6 DEF RowStep, DeleteProfile, FinalizeDropsLink, SetMentorStanding, SetRole
  <2> QED BY <2>4, <2>5, <2>6 DEF LoginNext
<1>2. LoginSpec => [][Once]_loginVars BY <1>1, LoginInvariant, PTL DEF LoginSpec
<1> QED BY <1>2 DEF LinkOpensOnce

\* A session that a logout or a deletion came after is let in by no route that
\* looks at the row, and by no moderators' route at all.
THEOREM RevokedNeverReturns == LoginSpec => RevokedStaysOut
<1> DEFINE Out == \A r \in PortalRequest :
          /\ request[r].step # "run" /\ request'[r].step = "run"
          /\ request'[r].realm = "admin" \/ request'[r].kind # "own"
          => request'[r].from \notin cut
<1>1. LoginInv /\ [LoginNext]_loginVars => [Out]_loginVars
  <2> SUFFICES ASSUME LoginInv, LoginNext, NEW r \in PortalRequest, request[r].step # "run",
                      request'[r].step = "run", request'[r].realm = "admin" \/ request'[r].kind # "own"
               PROVE  request'[r].from \notin cut
    OBVIOUS
  <2>1. ASSUME NEW o \in PortalRequest, LiveCheck(o) PROVE request'[r].from \notin cut
    <3>1. o = r BY <2>1, LoginTyped DEF LiveCheck
    <3>2. request[r] \in Request BY LoginTyped
    <3>3. /\ request[r].step = "check" /\ StillValid(request[r].realm, request[r].cookie)
          /\ request'[r] = [request[r] EXCEPT !.step = "run"]
      BY <2>1, <3>1, LoginTyped, NoRequestTyped DEF LiveCheck
    <3>4. request'[r].from = request[r].from BY <3>2, <3>3 DEF Request
    <3>5. PICK k : k = request[r].from OBVIOUS
    <3>6. ASSUME k \in cut PROVE FALSE
      <4>1. k \in Click /\ click[k].step # "idle" /\ click[k].version < version[click[k].who]
        BY <3>6, LoginTyped DEF LoginInv, ClicksOK
      <4>2. request[r].cookie.sub = click[k].who /\ request[r].cookie.version = click[k].version
        BY <3>3, <3>5, <4>1 DEF LoginInv, RequestsOK
      <4>3. click[k].version # 0 BY <4>1 DEF LoginInv, ClicksOK
      <4>4. click[k].version \in {0, version[click[k].who]}
        BY <3>3, <4>2 DEF StillValid, MentorSessionStillValid, AdminSessionRole, VersionCurrent
      <4>5. click[k].version = version[click[k].who] BY <4>3, <4>4
      <4>6. click[k].version \in Nat BY <4>1, LoginTyped, LoginAssumption DEF ClickRow
      <4> QED BY <4>1, <4>5, <4>6
    <3> QED BY <3>4, <3>5, <3>6
  <2>2. ASSUME NEW o \in PortalRequest, NEW realm \in {"mentor", "admin"},
               NEW kind \in {"own", "others", "write"}, NEW k, NEW c, PresentCookie(o, realm, kind, c, k)
        PROVE  FALSE
    <3>1. PICK s : s = IF MustRecheck(realm, kind) THEN "check" ELSE "run" OBVIOUS
    <3>2. request' = [request EXCEPT ![o] =
              [step |-> s, realm |-> realm, kind |-> kind, cookie |-> c, from |-> k]]
      BY <2>2, <3>1 DEF PresentCookie
    <3>3. o = r BY <3>2, LoginTyped
    <3>4. request'[r].step = s /\ request'[r].realm = realm /\ request'[r].kind = kind
      BY <3>2, <3>3, LoginTyped
    <3> QED BY <3>1, <3>4 DEF MustRecheck
  <2>3. ASSUME NEW o \in PortalRequest, EndRequest(o) PROVE FALSE
    <3>1. request' = [request EXCEPT ![o] = NoRequest] BY <2>3 DEF EndRequest
    <3> QED BY <3>1, LoginTyped, NoRequestTyped
  <2>4. ASSUME UNCHANGED request PROVE FALSE BY <2>4
  <2>5. CASE LinkStep
    BY <2>4, <2>5
       DEF LinkStep, RequestLogin, LookUpAccount, StoreLoginToken, MentorLoginEmail,
           ModeratorLoginEmail, SendLink, LinkLapses, VerifyLogin, MintSession, CookieExpires,
           ConsumeLoginToken, LegacyCookiesExpire
  <2>6. CASE PortalStep
    BY <2>1, <2>2, <2>3, <2>4, <2>6 DEF PortalStep, Logout
  <2>7. CASE RowStep
    BY <2>4, <2>7 DEF RowStep, DeleteProfile, FinalizeDropsLink, SetMentorStanding, SetRole
  <2> QED BY <2>5, <2>6, <2>7 DEF LoginNext
<1>2. LoginSpec => [][Out]_loginVars BY <1>1, LoginInvariant, PTL DEF LoginSpec
<1> QED BY <1>2 DEF RevokedStaysOut
=================================================================================

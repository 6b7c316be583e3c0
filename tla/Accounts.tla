------------------------------ MODULE Accounts ------------------------------
(***************************************************************************)
(* One user's way into GridFlow: sign-in with a password and, when it is   *)
(* on, a second factor (auth.service.ts); the sessions and the trusted     *)
(* devices they run on (session.service.ts); the password reset.           *)
(*                                                                         *)
(* A sign-in is several transactions: it reads the user and checks the     *)
(* password, settles the failure count or issues a challenge, and opens    *)
(* the session under a lock on the user.  A reset, a revocation or another *)
(* sign-in may come between any two.  A request of a signed-in browser is  *)
(* one step.                                                               *)
(*                                                                         *)
(* Left out: the time limits of sessions, links and challenges, what the   *)
(* codes are, and the counts of refused passwords and codes, which only    *)
(* keep a sign-in from going on.                                           *)
(***************************************************************************)
EXTENDS Naturals, FiniteSets

CONSTANTS
    Browsers, Devices, RecoveryCodes, Nothing,
    MaxTrustedDevices,   \* two in the code
    ResetBound,          \* bound: passwords set by a reset
    ChangeBound          \* bound: how often the second factor is switched on, off or renewed

ASSUME AccountConstants ==
    /\ MaxTrustedDevices \in Nat \ {0}
    /\ ResetBound \in Nat /\ ChangeBound \in Nat
    /\ Nothing \notin Devices \cup Browsers

VARIABLES
    user,        \* password (how often it was set), mfa, and the recovery codes left
    device,      \* the AuthDevice rows: "unused", "active" or "revoked"
    live,        \* the AuthSession rows that are not revoked
    challenge,   \* the browsers that hold an open AuthLoginChallenge, and its proof
    limit,       \* the AuthDeviceChallenge row: who holds its token, and its proof
    link,        \* an unused PasswordResetToken exists
    signIn,      \* the sign-in request of a browser
    cookie,      \* its device cookie
    token,       \* the browsers with a session cookie
    changes

accountVars == <<user, device, live, challenge, limit, link, signIn, cookie, token, changes>>
jar == <<cookie, token>>

\* What a sign-in rests on: the password it checked, and what stood open when a reset replaced
\* that password: nothing, a request under way, or the offer to replace a device (history).
Proof == [password : Nat, overtaken : {"no", "request", "offer"}]
NoProof == [password |-> 0, overtaken |-> "no"]
Resting == [stage |-> "none", mfa |-> FALSE, proof |-> NoProof]
NoLimit == [holder |-> Nothing, proof |-> NoProof]

Active == {d \in Devices : device[d] = "active"}
On(ds) == {s \in live : s.device \in ds}

AccountsInit ==
    /\ user = [password |-> 1, mfa |-> FALSE, codes |-> {}]
    /\ device = [d \in Devices |-> "unused"]
    /\ live = {}
    /\ challenge = [b \in Browsers |-> Nothing]
    /\ limit = NoLimit
    /\ link = FALSE
    /\ signIn = [b \in Browsers |-> Resting]
    /\ cookie = [b \in Browsers |-> Nothing]
    /\ token = {}
    /\ changes = 0

-----------------------------------------------------------------------------
(* Signing in.                                                             *)

\* The row is read and the password compared; nothing is written yet.
CheckPassword(b) ==
    /\ signIn[b] = Resting
    /\ signIn' = [signIn EXCEPT ![b] =
           [stage |-> "checked", mfa |-> user.mfa,
            proof |-> [password |-> user.password, overtaken |-> "no"]]]
    /\ UNCHANGED <<user, device, live, challenge, limit, link, jar, changes>>

\* With a second factor the password earns a challenge, in place of the user's earlier ones.
IssueChallenge(b) ==
    /\ signIn[b].stage = "checked" /\ signIn[b].mfa
    /\ challenge' = [c \in Browsers |-> IF c = b THEN signIn[b].proof ELSE Nothing]
    /\ signIn' = [signIn EXCEPT ![b] = Resting]
    /\ UNCHANGED <<user, device, live, limit, link, jar, changes>>

MarkLoginSuccess(b) ==
    /\ signIn[b].stage = "checked" /\ ~signIn[b].mfa
    /\ signIn' = [signIn EXCEPT ![b].stage = "opening"]
    /\ UNCHANGED <<user, device, live, challenge, limit, link, jar, changes>>

\* The right code completes the challenge; a recovery code is used up by it.
VerifyMfaLogin(b, used) ==
    /\ signIn[b] = Resting /\ challenge[b] # Nothing /\ user.mfa
    /\ used = {} \/ \E c \in user.codes : used = {c}
    /\ user' = [user EXCEPT !.codes = @ \ used]
    /\ challenge' = [challenge EXCEPT ![b] = Nothing]
    /\ signIn' = [signIn EXCEPT ![b] = [Resting EXCEPT !.stage = "opening", !.proof = challenge[b]]]
    /\ UNCHANGED <<device, live, limit, link, jar, changes>>

\* Mutant of Recognised: the cookie is looked up among all devices the user ever had.
KnownOnce(b) == {d \in Devices : cookie[b] = d /\ device[d] # "unused"}

\* The device of the browser's cookie, if it is one of the user's that is still trusted.
Recognised(b) == {d \in Active : cookie[b] = d}

Session(b, d, proof) == [holder |-> b, device |-> d, proof |-> proof]

Full == Cardinality(Active) >= MaxTrustedDevices

\* The row a new device gets: one that was never used, and which of them does not matter.
NewRow(d) == device[d] = "unused" /\ d = CHOOSE e \in Devices : device[e] = "unused"

\* A recognised device gets another session.
SignInOnDevice(b) ==
    /\ signIn[b].stage = "opening" /\ Recognised(b) # {}
    /\ live' = live \cup {Session(b, d, signIn[b].proof) : d \in Recognised(b)}
    /\ token' = token \cup {b}
    /\ signIn' = [signIn EXCEPT ![b] = Resting]
    /\ UNCHANGED <<user, device, challenge, limit, link, cookie, changes>>

SignInOnNewDevice(b, d) ==
    /\ signIn[b].stage = "opening" /\ Recognised(b) = {} /\ ~Full /\ NewRow(d)
    /\ device' = [device EXCEPT ![d] = "active"]
    /\ live' = live \cup {Session(b, d, signIn[b].proof)}
    /\ token' = token \cup {b}
    /\ cookie' = [cookie EXCEPT ![b] = d]
    /\ signIn' = [signIn EXCEPT ![b] = Resting]
    /\ UNCHANGED <<user, challenge, limit, link, changes>>

\* At the limit the browser is offered to replace a trusted device.  The row keeps no list.
SignInAtLimit(b) ==
    /\ signIn[b].stage = "opening" /\ Recognised(b) = {} /\ Full
    /\ limit' = [holder |-> b, proof |-> signIn[b].proof]
    /\ signIn' = [signIn EXCEPT ![b] = Resting]
    /\ UNCHANGED <<user, device, live, challenge, link, jar, changes>>

\* Mutant of Replaceable: the chosen device need not be trusted any more.
KnownDevice(d) == device[d] # "unused"

\* Any device that is trusted now, whether or not it was when the offer was made.
Replaceable(d) == device[d] = "active"

ReplaceDevice(b, old, new) ==
    /\ limit.holder = b /\ Replaceable(old) /\ NewRow(new)
    /\ device' = [device EXCEPT ![old] = "revoked", ![new] = "active"]
    /\ live' = (live \ On({old})) \cup {Session(b, new, limit.proof)}
    /\ token' = token \cup {b}
    /\ cookie' = [cookie EXCEPT ![b] = new]
    /\ limit' = NoLimit
    /\ UNCHANGED <<user, challenge, link, signIn, changes>>

-----------------------------------------------------------------------------
(* Requests of a signed-in browser.                                        *)

\* The sessions that the browser has opened on the device of its cookie.
Own(b) == {s \in live : s.holder = b /\ s.device = cookie[b]}

\* SessionService.resolve: the two cookies agree with a session and a device that are live.
SignedIn(b) ==
    /\ signIn[b] = Resting
    /\ b \in token /\ Own(b) # {} /\ cookie[b] \in Active

RevokeDevice(b, d) ==
    /\ SignedIn(b) /\ d \in Active
    /\ device' = [device EXCEPT ![d] = "revoked"]
    /\ live' = live \ On({d})
    /\ IF d = cookie[b]
       THEN cookie' = [cookie EXCEPT ![b] = Nothing] /\ token' = token \ {b}
       ELSE UNCHANGED jar
    /\ UNCHANGED <<user, challenge, limit, link, signIn, changes>>

AllRevoked == [d \in Devices |-> IF device[d] = "active" THEN "revoked" ELSE device[d]]

RevokeAllDevices(b) ==
    /\ SignedIn(b)
    /\ device' = AllRevoked /\ live' = {}
    /\ cookie' = [cookie EXCEPT ![b] = Nothing] /\ token' = token \ {b}
    /\ UNCHANGED <<user, challenge, limit, link, signIn, changes>>

\* The session of the cookie ends; one that the browser had opened before it stays.
Logout(b) ==
    /\ b \in token
    /\ live' \in {live} \cup {live \ {s} : s \in Own(b)}
    /\ token' = token \ {b}
    /\ UNCHANGED <<user, device, challenge, limit, link, signIn, cookie, changes>>

Change(b) == SignedIn(b) /\ changes < ChangeBound /\ changes' = changes + 1

\* setupMfa and enableMfa: the pending secret of the one is read by the other alone.
EnableMfa(b) ==
    /\ Change(b)
    /\ user' = [user EXCEPT !.mfa = TRUE, !.codes = RecoveryCodes]
    /\ UNCHANGED <<device, live, challenge, limit, link, signIn, jar>>

RegenerateRecoveryCodes(b) ==
    /\ Change(b) /\ user.mfa
    /\ user' = [user EXCEPT !.codes = RecoveryCodes]
    /\ UNCHANGED <<device, live, challenge, limit, link, signIn, jar>>

DisableMfa(b) ==
    /\ Change(b) /\ user.mfa
    /\ user' = [user EXCEPT !.mfa = FALSE, !.codes = {}]
    /\ \E s \in Own(b) : live' = {s}
    /\ UNCHANGED <<device, challenge, limit, link, signIn, jar>>

\* A platform decision stops the organisation the sessions are in (stopOrganisation).
AccessStopped ==
    /\ live # {} /\ live' = {}
    /\ UNCHANGED <<user, device, challenge, limit, link, signIn, jar, changes>>

-----------------------------------------------------------------------------
(* The password reset.                                                     *)

ForgotPassword ==
    /\ ~link /\ user.password <= ResetBound
    /\ link' = TRUE
    /\ UNCHANGED <<user, device, live, challenge, limit, signIn, jar, changes>>

Overtaken(request) ==
    IF request.stage \in {"checked", "opening"} THEN [request EXCEPT !.proof.overtaken = "request"] ELSE request

\* Sessions, devices and challenges end with the password; the row of a device replacement stays.
ResetPassword ==
    /\ link /\ link' = FALSE
    /\ user' = [user EXCEPT !.password = @ + 1]
    /\ device' = AllRevoked /\ live' = {}
    /\ challenge' = [b \in Browsers |-> Nothing]
    /\ signIn' = [b \in Browsers |-> Overtaken(signIn[b])]
    /\ limit' = IF limit = NoLimit THEN limit ELSE [limit EXCEPT !.proof.overtaken = "offer"]
    /\ UNCHANGED <<jar, changes>>

-----------------------------------------------------------------------------
BrowserStep(b) ==
    \/ CheckPassword(b) \/ IssueChallenge(b) \/ MarkLoginSuccess(b)
    \/ \E used \in {{}} \cup {{c} : c \in RecoveryCodes} : VerifyMfaLogin(b, used)
    \/ SignInOnDevice(b) \/ SignInAtLimit(b)
    \/ \E d \in Devices : SignInOnNewDevice(b, d) \/ RevokeDevice(b, d)
    \/ \E old, new \in Devices : ReplaceDevice(b, old, new)
    \/ RevokeAllDevices(b) \/ Logout(b)
    \/ EnableMfa(b) \/ RegenerateRecoveryCodes(b) \/ DisableMfa(b)

AccountsNext ==
    \/ \E b \in Browsers : BrowserStep(b)
    \/ AccessStopped \/ ForgotPassword \/ ResetPassword

AccountsSpec == AccountsInit /\ [][AccountsNext]_accountVars

-----------------------------------------------------------------------------
(* Properties.                                                             *)

\* Whatever comes between a sign-in's transactions - a replacement, a revocation, a reset - there
\* are never more trusted devices than the limit, and every session that is not revoked runs on
\* one of them (session.service.ts create, replaceDevice, revokeDevice, revokeAllDevices).
TrustedDevices ==
    /\ Cardinality(Active) <= MaxTrustedDevices
    /\ \A s \in live : s.device \in Active

\* A session stands on the present password, unless its sign-in had checked the former one and
\* the reset (auth.service.ts resetPassword) came while its request was under way, or while it held
\* the offer to replace a device, which the reset leaves and replaceDevice takes for any device
\* trusted by then.  No more than one session comes from such an offer.
ResetEndsSessions ==
    /\ \A s \in live : s.proof.password = user.password \/ s.proof.overtaken # "no"
    /\ \A s, t \in live : s.proof.overtaken = "offer" /\ t.proof.overtaken = "offer" => s = t

\* Sessions run on trusted devices only, and on the present password.
SessionsAreSound == TrustedDevices /\ ResetEndsSessions

=============================================================================

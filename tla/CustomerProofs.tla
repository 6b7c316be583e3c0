--------------------------- MODULE CustomerProofs ---------------------------
(***************************************************************************)
(* Proofs about what lets a customer in, what a customer has paid for and  *)
(* how their workspace is set up and shared, for any browsers, devices,    *)
(* customers, administrators, purchases, members and invited people, and   *)
(* any bounds: sessions are sound, what was paid for was given once and in *)
(* full, setting up a workspace loses nothing, and seats are kept.         *)
(***************************************************************************)
EXTENDS Accounts, Commerce, FirstRun, Team, FiniteSetTheorems, SequenceTheorems, TLAPS

-----------------------------------------------------------------------------
(***************************************************************************)
(* Accounts.  A session is as good as what its sign-in rests on, from the  *)
(* password it checked, through a challenge or the offer to replace a      *)
(* device, to the session.  One offer at most outlives a reset, and it is  *)
(* used up by the session it opens; the next reset ends that session.      *)
(***************************************************************************)

\* What a sign-in rests on is the present password, or was overtaken by a reset.
Good(proof) == proof.password = user.password \/ proof.overtaken # "no"

\* Only an offer carries the mark of an offer: no request and no challenge does.
Earned(proof) == Good(proof) /\ proof.overtaken # "offer"

IsProof(proof) == DOMAIN proof = {"password", "overtaken"}

AccountShape ==
    /\ DOMAIN user = {"password", "mfa", "codes"}
    /\ device \in [Devices -> {"unused", "active", "revoked"}]
    /\ DOMAIN challenge = Browsers
    /\ DOMAIN signIn = Browsers

SignInOK(request) ==
    /\ DOMAIN request = {"stage", "mfa", "proof"}
    /\ IsProof(request.proof)
    /\ request.stage \in {"checked", "opening"} => Earned(request.proof)

SignInsAreGood == \A b \in Browsers : SignInOK(signIn[b])

ChallengesAreGood ==
    \A b \in Browsers : challenge[b] # Nothing => IsProof(challenge[b]) /\ Earned(challenge[b])

\* The sessions that an offer from before the last reset has opened.
FromOffer == {s \in live : s.proof.overtaken = "offer"}

\* The offer that stands is good, and while it is one from before the last reset no session is.
OfferIsGood ==
    /\ limit # NoLimit => DOMAIN limit = {"holder", "proof"} /\ IsProof(limit.proof) /\ Good(limit.proof)
    /\ limit.proof.overtaken = "offer" => FromOffer = {}

OneFromOffer == \A s, t \in FromOffer : s = t

AccountInv ==
    /\ AccountShape
    /\ IsFiniteSet(Active)
    /\ SignInsAreGood /\ ChallengesAreGood /\ OfferIsGood
    /\ SessionsAreSound

\* Sign-ins, challenges and offers that are left alone stay good with the password; a sign-in
\* that is written stays good if what is written is.
LEMMA GoodElsewhere ==
    ASSUME AccountInv, user'.password = user.password
    PROVE  /\ \A request : SignInOK(request) => SignInOK(request)'
           /\ UNCHANGED signIn => SignInsAreGood'
           /\ UNCHANGED challenge => ChallengesAreGood'
           /\ UNCHANGED limit /\ (\A s \in live' : s \in live \/ s.proof.overtaken # "offer")
              => OfferIsGood' /\ OneFromOffer'
<1>1. /\ \A request : SignInOK(request) => SignInOK(request)'
      /\ UNCHANGED signIn => SignInsAreGood'
      /\ UNCHANGED challenge => ChallengesAreGood'
  BY DEF AccountInv, SignInsAreGood, SignInOK, ChallengesAreGood, Good, Earned
<1>2. ASSUME UNCHANGED limit, \A s \in live' : s \in live \/ s.proof.overtaken # "offer"
      PROVE  OfferIsGood' /\ OneFromOffer'
  <2>1. FromOffer' \subseteq FromOffer
    BY <1>2 DEF FromOffer
  <2>2. OneFromOffer'
    BY <2>1 DEF AccountInv, SessionsAreSound, ResetEndsSessions, FromOffer, OneFromOffer
  <2> QED  BY <1>2, <2>1, <2>2 DEF AccountInv, OfferIsGood, Good
<1> QED  BY <1>1, <1>2

LEMMA SignInWritten ==
    ASSUME AccountInv, user'.password = user.password, NEW b \in Browsers, NEW request,
           SignInOK(request), signIn' = [signIn EXCEPT ![b] = request]
    PROVE  SignInsAreGood' /\ DOMAIN signIn' = Browsers
<1>1. DOMAIN signIn' = Browsers
  BY DEF AccountInv, AccountShape
<1>2. ASSUME NEW c \in Browsers PROVE SignInOK(signIn[c])'
  <2>1. signIn'[c] = IF c = b THEN request ELSE signIn[c]
    BY DEF AccountInv, AccountShape
  <2>2. SignInOK(signIn'[c])
    BY <2>1 DEF AccountInv, SignInsAreGood
  <2> QED  BY <2>2 DEF SignInOK, Good, Earned
<1> QED  BY <1>1, <1>2 DEF SignInsAreGood

\* At rest a sign-in rests on nothing.
LEMMA RestingIsGood == SignInOK(Resting)
BY DEF SignInOK, Resting, NoProof, IsProof

\* Steps that trust no other devices and open no session.
LEMMA NoNewSession ==
    ASSUME AccountInv, AccountShape', user'.password = user.password, device' = device, live' \subseteq live,
           SignInsAreGood', ChallengesAreGood', OfferIsGood'
    PROVE  AccountInv'
<1>1. Active' = Active
  BY DEF Active
<1>2. SessionsAreSound'
  BY <1>1 DEF AccountInv, SessionsAreSound, TrustedDevices, ResetEndsSessions
<1> QED  BY <1>1, <1>2 DEF AccountInv

\* Sessions that are opened on a trusted device, with a good proof.
LEMMA SessionOpened ==
    ASSUME AccountInv, AccountShape', user'.password = user.password,
           IsFiniteSet(Active'), Cardinality(Active') <= MaxTrustedDevices,
           \A s \in live' : s.device \in Active',
           \A s \in live' : s \in live \/ Good(s.proof),
           SignInsAreGood', ChallengesAreGood', OfferIsGood', OneFromOffer'
    PROVE  AccountInv'
<1>1. \A s \in live' : Good(s.proof)'
  BY DEF AccountInv, SessionsAreSound, ResetEndsSessions, Good
<1>2. ResetEndsSessions'
  BY <1>1 DEF ResetEndsSessions, Good, OneFromOffer, FromOffer
<1> QED  BY <1>2 DEF AccountInv, SessionsAreSound, TrustedDevices

\* One trusted device more, one fewer, none.
LEMMA OneDeviceMore ==
    ASSUME AccountInv, NEW A, A \subseteq Active, NEW d,
           Cardinality(A) < MaxTrustedDevices
    PROVE  IsFiniteSet(A \cup {d}) /\ Cardinality(A \cup {d}) <= MaxTrustedDevices
<1>1. IsFiniteSet(A) /\ Cardinality(A) \in Nat
  BY FS_Subset, FS_CardinalityType DEF AccountInv
<1>2. /\ IsFiniteSet(A \cup {d})
      /\ Cardinality(A \cup {d}) = IF d \in A THEN Cardinality(A) ELSE Cardinality(A) + 1
  BY <1>1, FS_AddElement
<1> QED  BY <1>1, <1>2, AccountConstants

LEMMA OneDeviceLess ==
    ASSUME AccountInv, NEW d
    PROVE  /\ IsFiniteSet(Active \ {d}) /\ Cardinality(Active \ {d}) <= MaxTrustedDevices
           /\ d \in Active => Cardinality(Active \ {d}) < MaxTrustedDevices
<1>1. IsFiniteSet(Active) /\ Cardinality(Active) \in Nat /\ Cardinality(Active) <= MaxTrustedDevices
  BY FS_CardinalityType DEF AccountInv, SessionsAreSound, TrustedDevices
<1>2. IsFiniteSet(Active \ {d})
  BY <1>1, FS_Subset
<1>3. Cardinality(Active \ {d}) = IF d \in Active THEN Cardinality(Active) - 1 ELSE Cardinality(Active)
  BY <1>1, FS_RemoveElement
<1> QED  BY <1>1, <1>2, <1>3, AccountConstants

\* Every device is revoked, every session ended.
LEMMA AllDevicesRevoked ==
    ASSUME AccountInv, device' = AllRevoked, live' = {}
    PROVE  /\ device' \in [Devices -> {"unused", "active", "revoked"}]
           /\ IsFiniteSet(Active') /\ SessionsAreSound'
<1>1. device' \in [Devices -> {"unused", "active", "revoked"}] /\ \A d \in Devices : device'[d] # "active"
  BY DEF AllRevoked, AccountInv, AccountShape
<1>2. Active' = {}
  BY <1>1 DEF Active
<1>3. IsFiniteSet(Active') /\ Cardinality(Active') = 0
  BY <1>2, FS_EmptySet
<1>4. SessionsAreSound'
  BY <1>3, AccountConstants DEF SessionsAreSound, TrustedDevices, ResetEndsSessions
<1> QED  BY <1>1, <1>3, <1>4

\* The first steps of a sign-in keep the invariant.
LEMMA FirstSteps ==
    ASSUME AccountInv, NEW b \in Browsers,
           CheckPassword(b) \/ IssueChallenge(b) \/ MarkLoginSuccess(b)
           \/ (\E used : VerifyMfaLogin(b, used))
    PROVE  AccountInv'
<1>1. AccountShape /\ SignInOK(signIn[b]) /\ b \in DOMAIN signIn
  BY DEF AccountInv, AccountShape, SignInsAreGood
<1>2. ASSUME user'.password = user.password, UNCHANGED <<limit, device, live>>,
             DOMAIN user' = DOMAIN user, DOMAIN challenge' = Browsers, ChallengesAreGood',
             NEW request, SignInOK(request), signIn' = [signIn EXCEPT ![b] = request]
      PROVE  AccountInv'
  <2>1. SignInsAreGood' /\ DOMAIN signIn' = Browsers
    BY <1>2, SignInWritten
  <2>2. OfferIsGood'
    BY <1>2, GoodElsewhere
  <2>3. AccountShape'
    BY <1>1, <1>2, <2>1 DEF AccountShape
  <2> QED  BY <1>2, <2>1, <2>2, <2>3, NoNewSession
<1>3. CASE CheckPassword(b)
  <2> DEFINE request == [stage |-> "checked", mfa |-> user.mfa,
                         proof |-> [password |-> user.password, overtaken |-> "no"]]
  <2>1. SignInOK(request)
    BY DEF SignInOK, IsProof, Good, Earned
  <2>2. /\ signIn' = [signIn EXCEPT ![b] = request]
        /\ UNCHANGED <<user, limit, device, live, challenge>>
    BY <1>3 DEF CheckPassword
  <2>3. ChallengesAreGood' /\ DOMAIN challenge' = Browsers
    BY <1>1, <2>2, GoodElsewhere DEF AccountShape
  <2> HIDE DEF request
  <2> QED  BY <1>2, <2>1, <2>2, <2>3
<1>4. CASE IssueChallenge(b)
  <2>1. /\ challenge' = [c \in Browsers |-> IF c = b THEN signIn[b].proof ELSE Nothing]
        /\ signIn' = [signIn EXCEPT ![b] = Resting]
        /\ UNCHANGED <<user, limit, device, live>>
        /\ IsProof(signIn[b].proof) /\ Earned(signIn[b].proof)
    BY <1>1, <1>4 DEF IssueChallenge, SignInOK
  <2>2. ChallengesAreGood' /\ DOMAIN challenge' = Browsers
    BY <2>1 DEF ChallengesAreGood, Good, Earned
  <2> QED  BY <1>2, <2>1, <2>2, RestingIsGood
<1>5. CASE MarkLoginSuccess(b)
  <2> DEFINE request == [signIn[b] EXCEPT !.stage = "opening"]
  <2>1. signIn[b].stage = "checked"
    BY <1>5 DEF MarkLoginSuccess
  <2>2. SignInOK(request)
    BY <1>1, <2>1 DEF SignInOK
  <2>3. /\ signIn' = [signIn EXCEPT ![b] = request]
        /\ UNCHANGED <<user, limit, device, live, challenge>>
    BY <1>1, <1>5 DEF MarkLoginSuccess
  <2>4. ChallengesAreGood' /\ DOMAIN challenge' = Browsers
    BY <1>1, <2>3, GoodElsewhere DEF AccountShape
  <2> HIDE DEF request
  <2> QED  BY <1>2, <2>2, <2>3, <2>4
<1>6. ASSUME NEW used, VerifyMfaLogin(b, used) PROVE AccountInv'
  <2> DEFINE request == [Resting EXCEPT !.stage = "opening", !.proof = challenge[b]]
  <2>1. IsProof(challenge[b]) /\ Earned(challenge[b])
    BY <1>6 DEF VerifyMfaLogin, AccountInv, ChallengesAreGood
  <2>2. SignInOK(request)
    BY <2>1 DEF SignInOK, Resting
  <2>3. /\ signIn' = [signIn EXCEPT ![b] = request]
        /\ challenge' = [challenge EXCEPT ![b] = Nothing]
        /\ user' = [user EXCEPT !.codes = @ \ used]
        /\ UNCHANGED <<limit, device, live>>
    BY <1>6 DEF VerifyMfaLogin
  <2>4. user'.password = user.password /\ DOMAIN user' = DOMAIN user
    BY <1>1, <2>3 DEF AccountShape
  <2>5. ChallengesAreGood' /\ DOMAIN challenge' = Browsers
    BY <1>1, <2>3, <2>4 DEF AccountInv, AccountShape, ChallengesAreGood, Good, Earned
  <2> HIDE DEF request
  <2> QED  BY <1>2, <2>2, <2>3, <2>4, <2>5
<1> QED  BY <1>3, <1>4, <1>5, <1>6

\* The last step of a sign-in keeps the invariant, on whichever device.
LEMMA LastSteps ==
    ASSUME AccountInv, NEW b \in Browsers,
           SignInOnDevice(b) \/ SignInAtLimit(b) \/ (\E d \in Devices : SignInOnNewDevice(b, d))
    PROVE  AccountInv'
<1> DEFINE proof == signIn[b].proof
<1>1. AccountShape /\ SignInOK(signIn[b]) /\ b \in DOMAIN signIn
  BY DEF AccountInv, AccountShape, SignInsAreGood
<1>2. /\ signIn[b].stage = "opening"
      /\ signIn' = [signIn EXCEPT ![b] = Resting]
      /\ UNCHANGED <<user, challenge>>
  BY DEF SignInOnDevice, SignInAtLimit, SignInOnNewDevice
<1>3. Earned(proof) /\ IsProof(proof) /\ SignInsAreGood' /\ DOMAIN signIn' = Browsers /\ ChallengesAreGood'
  BY <1>1, <1>2, RestingIsGood, SignInWritten, GoodElsewhere DEF SignInOK
<1>4. /\ IsFiniteSet(Active) /\ Cardinality(Active) <= MaxTrustedDevices
      /\ \A s \in live : s.device \in Active
  BY DEF AccountInv, SessionsAreSound, TrustedDevices
<1>5. CASE SignInOnDevice(b)
  <2>1. /\ live' = live \cup {Session(b, d, proof) : d \in Recognised(b)}
        /\ UNCHANGED <<device, limit>> /\ Recognised(b) \subseteq Active
    BY <1>5 DEF SignInOnDevice, Recognised
  <2>2. \A s \in live' : s.device \in Active /\ (s \in live \/ Earned(s.proof))
    BY <1>3, <1>4, <2>1 DEF Session
  <2>3. Active' = Active /\ AccountShape'
    BY <1>1, <1>2, <1>3, <2>1 DEF Active, AccountShape
  <2>4. OfferIsGood' /\ OneFromOffer'
    BY <1>2, <2>1, <2>2, GoodElsewhere DEF Earned
  <2> QED  BY <1>2, <1>3, <1>4, <2>2, <2>3, <2>4, SessionOpened DEF Earned
<1>6. CASE SignInAtLimit(b)
  <2>1. /\ limit' = [holder |-> b, proof |-> proof]
        /\ UNCHANGED <<device, live>>
    BY <1>6 DEF SignInAtLimit
  <2>2. OfferIsGood'
    BY <1>2, <1>3, <2>1 DEF OfferIsGood, IsProof, Good, Earned
  <2>3. AccountShape'
    BY <1>1, <1>2, <1>3, <2>1 DEF AccountShape
  <2> QED  BY <1>2, <1>3, <2>1, <2>2, <2>3, NoNewSession
<1>7. ASSUME NEW d \in Devices, SignInOnNewDevice(b, d) PROVE AccountInv'
  <2>1. /\ device' = [device EXCEPT ![d] = "active"] /\ device[d] = "unused" /\ ~Full
        /\ live' = live \cup {Session(b, d, proof)}
        /\ UNCHANGED limit
    BY <1>7 DEF SignInOnNewDevice, NewRow
  <2>2. Active' = Active \cup {d}
    BY <1>1, <2>1 DEF Active, AccountShape
  <2>3. IsFiniteSet(Active') /\ Cardinality(Active') <= MaxTrustedDevices
    <3>1. Cardinality(Active) < MaxTrustedDevices
      BY <1>4, <2>1, FS_CardinalityType, AccountConstants DEF Full
    <3> QED  BY <2>2, <3>1, OneDeviceMore
  <2>4. \A s \in live' : s.device \in Active' /\ (s \in live \/ Earned(s.proof))
    BY <1>3, <1>4, <2>1, <2>2 DEF Session
  <2>5. AccountShape'
    BY <1>1, <1>2, <1>3, <2>1 DEF AccountShape
  <2>6. OfferIsGood' /\ OneFromOffer'
    BY <1>2, <2>1, <2>4, GoodElsewhere DEF Earned
  <2> QED  BY <1>2, <1>3, <2>3, <2>4, <2>5, <2>6, SessionOpened DEF Earned
<1> QED  BY <1>5, <1>6, <1>7

\* A device that is replaced makes room for the new one, and ends its own sessions.
LEMMA Replacement ==
    ASSUME AccountInv, NEW b \in Browsers, NEW old \in Devices, NEW new \in Devices,
           ReplaceDevice(b, old, new)
    PROVE  AccountInv'
<1>1. /\ limit.holder = b /\ device[old] = "active" /\ device[new] = "unused"
      /\ device' = [device EXCEPT ![old] = "revoked", ![new] = "active"]
      /\ live' = (live \ On({old})) \cup {Session(b, new, limit.proof)}
      /\ limit' = NoLimit /\ UNCHANGED <<user, challenge, signIn>>
  BY DEF ReplaceDevice, Replaceable, NewRow
<1>2. AccountShape /\ old # new
  BY <1>1 DEF AccountInv
<1>3. AccountShape'
  BY <1>1, <1>2 DEF AccountShape
<1>4. Active' = (Active \ {old}) \cup {new} /\ old \in Active
  BY <1>1, <1>2 DEF Active, AccountShape
<1>5. IsFiniteSet(Active') /\ Cardinality(Active') <= MaxTrustedDevices
  <2>1. Cardinality(Active \ {old}) < MaxTrustedDevices
    BY <1>4, OneDeviceLess
  <2> QED  BY <1>4, <2>1, OneDeviceMore
<1>6. Good(limit.proof) /\ (limit.proof.overtaken = "offer" => FromOffer = {})
  BY <1>1, AccountConstants DEF AccountInv, OfferIsGood, NoLimit
<1>7. \A s \in live' : s.device \in Active' /\ (s \in live \/ Good(s.proof))
  BY <1>1, <1>4, <1>6 DEF AccountInv, SessionsAreSound, TrustedDevices, On, Session
<1>8. SignInsAreGood' /\ ChallengesAreGood' /\ OfferIsGood'
  BY <1>1, GoodElsewhere DEF OfferIsGood, NoLimit, NoProof
<1>9. OneFromOffer'
  <2>1. FromOffer' \subseteq FromOffer \cup {Session(b, new, limit.proof)}
    BY <1>1 DEF FromOffer
  <2>2. limit.proof.overtaken # "offer" => FromOffer' \subseteq FromOffer
    BY <1>1 DEF FromOffer, Session
  <2> QED  BY <1>6, <2>1, <2>2 DEF AccountInv, SessionsAreSound, ResetEndsSessions, FromOffer, OneFromOffer
<1> QED  BY <1>1, <1>3, <1>5, <1>7, <1>8, <1>9, SessionOpened

\* What a signed-in browser asks for, the platform's decision and the link keep the invariant.
LEMMA OtherRequests ==
    ASSUME AccountInv,
           \/ \E b \in Browsers : \/ \E d \in Devices : RevokeDevice(b, d)
                                  \/ RevokeAllDevices(b) \/ Logout(b)
                                  \/ EnableMfa(b) \/ RegenerateRecoveryCodes(b) \/ DisableMfa(b)
           \/ AccessStopped \/ ForgotPassword
    PROVE  AccountInv'
<1>1. AccountShape /\ UNCHANGED <<challenge, signIn, limit>>
  BY DEF AccountInv, RevokeDevice, RevokeAllDevices, Logout, EnableMfa, RegenerateRecoveryCodes,
         DisableMfa, AccessStopped, ForgotPassword
<1>2. user'.password = user.password /\ DOMAIN user' = DOMAIN user
  BY <1>1 DEF AccountShape, RevokeDevice, RevokeAllDevices, Logout, EnableMfa,
         RegenerateRecoveryCodes, DisableMfa, AccessStopped, ForgotPassword
<1>3. SignInsAreGood' /\ ChallengesAreGood'
  BY <1>1, <1>2, GoodElsewhere
<1>4. ASSUME NEW b \in Browsers, NEW d \in Devices, RevokeDevice(b, d) PROVE AccountInv'
  <2>1. device' = [device EXCEPT ![d] = "revoked"] /\ live' = live \ On({d})
    BY <1>4 DEF RevokeDevice
  <2>2. AccountShape' /\ Active' = Active \ {d}
    BY <1>1, <1>2, <2>1 DEF AccountShape, Active
  <2>3. IsFiniteSet(Active') /\ Cardinality(Active') <= MaxTrustedDevices
    BY <2>2, OneDeviceLess
  <2>4. \A s \in live' : s.device \in Active' /\ s \in live
    BY <2>1, <2>2 DEF AccountInv, SessionsAreSound, TrustedDevices, On
  <2>5. OfferIsGood' /\ OneFromOffer'
    BY <1>1, <1>2, <2>4, GoodElsewhere
  <2> QED  BY <1>2, <1>3, <2>2, <2>3, <2>4, <2>5, SessionOpened
<1>5. ASSUME NEW b \in Browsers, RevokeAllDevices(b) PROVE AccountInv'
  <2>1. device' = AllRevoked /\ live' = {}
    BY <1>5 DEF RevokeAllDevices
  <2>2. AccountShape'
    BY <1>1, <1>2, <2>1, AllDevicesRevoked DEF AccountShape
  <2>3. OfferIsGood'
    BY <1>1, <1>2, <2>1, GoodElsewhere
  <2> QED  BY <1>3, <2>1, <2>2, <2>3, AllDevicesRevoked DEF AccountInv
<1>6. CASE UNCHANGED device /\ live' \subseteq live
  <2>1. AccountShape' /\ OfferIsGood'
    BY <1>1, <1>2, <1>6, GoodElsewhere DEF AccountShape
  <2> QED  BY <1>2, <1>3, <1>6, <2>1, NoNewSession
<1>7. ASSUME NEW b \in Browsers, Logout(b) \/ EnableMfa(b) \/ RegenerateRecoveryCodes(b) \/ DisableMfa(b)
      PROVE  UNCHANGED device /\ live' \subseteq live
  BY <1>7 DEF Logout, EnableMfa, RegenerateRecoveryCodes, DisableMfa, Own
<1>8. ASSUME AccessStopped \/ ForgotPassword PROVE UNCHANGED device /\ live' \subseteq live
  BY <1>8 DEF AccessStopped, ForgotPassword
<1> QED  BY <1>4, <1>5, <1>6, <1>7, <1>8

\* A reset ends everything that stands on the former password, and marks what is under way.
LEMMA Reset ==
    ASSUME AccountInv, ResetPassword
    PROVE  AccountInv'
<1>1. /\ user' = [user EXCEPT !.password = @ + 1]
      /\ device' = AllRevoked /\ live' = {}
      /\ challenge' = [b \in Browsers |-> Nothing]
      /\ signIn' = [b \in Browsers |-> Overtaken(signIn[b])]
      /\ limit' = IF limit = NoLimit THEN limit ELSE [limit EXCEPT !.proof.overtaken = "offer"]
  BY DEF ResetPassword
<1>2. AccountShape
  BY DEF AccountInv
<1>3. AccountShape'
  BY <1>1, <1>2, AllDevicesRevoked DEF AccountShape
<1>4. ASSUME NEW b \in Browsers PROVE SignInOK(signIn[b])'
  <2>1. signIn'[b] = Overtaken(signIn[b]) /\ SignInOK(signIn[b])
    BY <1>1 DEF AccountInv, SignInsAreGood
  <2>2. CASE signIn[b].stage \in {"checked", "opening"}
    <3>1. signIn'[b] = [signIn[b] EXCEPT !.proof.overtaken = "request"]
      BY <2>1, <2>2 DEF Overtaken
    <3>2. /\ DOMAIN signIn'[b] = {"stage", "mfa", "proof"} /\ IsProof(signIn'[b].proof)
          /\ signIn'[b].proof.overtaken = "request"
      BY <2>1, <3>1 DEF SignInOK, IsProof
    <3> QED  BY <3>2 DEF SignInOK, IsProof, Good, Earned
  <2>3. CASE signIn[b].stage \notin {"checked", "opening"}
    BY <2>1, <2>3 DEF Overtaken, SignInOK, IsProof
  <2> QED  BY <2>2, <2>3
<1>5. ChallengesAreGood'
  BY <1>1 DEF ChallengesAreGood
<1>6. OfferIsGood'
  <2>1. FromOffer' = {}
    BY <1>1 DEF FromOffer
  <2>2. CASE limit = NoLimit
    BY <1>1, <2>1, <2>2 DEF OfferIsGood
  <2>3. CASE limit # NoLimit
    <3>1. limit' = [limit EXCEPT !.proof.overtaken = "offer"]
      BY <1>1, <2>3
    <3>2. /\ DOMAIN limit' = {"holder", "proof"} /\ IsProof(limit'.proof)
          /\ limit'.proof.overtaken = "offer"
      BY <2>3, <3>1 DEF AccountInv, OfferIsGood, IsProof
    <3> QED  BY <2>1, <3>2 DEF OfferIsGood, IsProof, Good
  <2> QED  BY <2>2, <2>3
<1> QED  BY <1>1, <1>3, <1>4, <1>5, <1>6, AllDevicesRevoked DEF AccountInv, SignInsAreGood

\* Whatever comes between the transactions of a sign-in, on however many browsers and devices:
\* there are never more trusted devices than the limit, sessions run on trusted devices alone,
\* and each stands on the present password, unless the reset came while its sign-in was under way
\* or held the offer to replace a device; one session at most comes from such an offer
\* (session.service.ts create, replaceDevice, revokeDevice; auth.service.ts resetPassword).
THEOREM SessionsAreAlwaysSound == AccountsSpec => []SessionsAreSound
<1>1. AccountsInit => AccountInv
  <2> SUFFICES ASSUME AccountsInit PROVE AccountInv
    OBVIOUS
  <2>1. AccountShape
    BY DEF AccountsInit, AccountShape
  <2>2. Active = {}
    BY DEF AccountsInit, Active
  <2>3. IsFiniteSet(Active) /\ Cardinality(Active) <= MaxTrustedDevices
    BY <2>2, FS_EmptySet, AccountConstants
  <2>4. SessionsAreSound
    BY <2>3 DEF AccountsInit, SessionsAreSound, TrustedDevices, ResetEndsSessions
  <2>5. SignInsAreGood /\ ChallengesAreGood /\ OfferIsGood
    BY RestingIsGood DEF AccountsInit, SignInsAreGood, ChallengesAreGood, OfferIsGood, NoLimit, NoProof
  <2> QED  BY <2>1, <2>3, <2>4, <2>5 DEF AccountInv
<1>2. AccountInv /\ [AccountsNext]_accountVars => AccountInv'
  <2> SUFFICES ASSUME AccountInv, [AccountsNext]_accountVars PROVE AccountInv'
    OBVIOUS
  <2>1. CASE UNCHANGED accountVars
    BY <2>1, GoodElsewhere, NoNewSession DEF accountVars, AccountInv, AccountShape
  <2>2. CASE AccountsNext
    BY <2>2, FirstSteps, LastSteps, Replacement, OtherRequests, Reset DEF AccountsNext, BrowserStep
  <2> QED  BY <2>1, <2>2
<1>3. AccountInv => SessionsAreSound
  BY DEF AccountInv
<1> QED  BY <1>1, <1>2, <1>3, PTL DEF AccountsSpec

-----------------------------------------------------------------------------
(***************************************************************************)
(* Commerce.  The end of Ultra is the end of the last period that was      *)
(* bought, so that the next one begins behind all of them; what the sweep  *)
(* writes rests on rows that are locked, and moves no end.                 *)
(***************************************************************************)

\* An organisation row, as far as the end of Ultra is concerned.
OrgOK(row) == DOMAIN row = DOMAIN Unregistered /\ row.expires \in Nat

CommerceShape ==
    /\ now \in Nat \ {0}
    /\ DOMAIN org = Customers /\ \A c \in Customers : OrgOK(org[c])
    /\ DOMAIN purchase = Purchases
    /\ \A p \in Purchases : DOMAIN purchase[p] = DOMAIN NoPurchase
    /\ DOMAIN fulfilling = Admins
    /\ \A a \in Admins : fulfilling[a] \in Purchases \cup {None}
    /\ \A b \in buckets : /\ DOMAIN b = {"purchase", "customer", "from", "until"}
                          /\ b.from \in Nat /\ b.until \in Nat
    /\ \A p \in Purchases : purchase[p].status # "NONE" => purchase[p].customer \in Customers

\* The rows that the sweep holds locked, and what it will write there.
SweepOK ==
    /\ DOMAIN sweep.rows \subseteq Customers
    /\ \A c \in DOMAIN sweep.rows : OrgOK(sweep.rows[c]) /\ sweep.rows[c].expires = org[c].expires

BucketsOf(p) == {b \in buckets : b.purchase = p}

\* An add-on that is fulfilled has one bucket, anything else none.
GivenOnce == \A p \in Purchases : Cardinality(BucketsOf(p)) = IF p \in AddOns THEN 1 ELSE 0

\* The same, as the sets are.
GivenBuckets ==
    \A p \in Purchases : IF p \in AddOns THEN \E b : BucketsOf(p) = {b} ELSE BucketsOf(p) = {}

PeriodsInOrder ==
    \A c \in Customers :
       /\ \A b, d \in PeriodsOf(c) : b = d \/ b.until <= d.from \/ d.until <= b.from
       /\ \A b \in PeriodsOf(c) : b.until = b.from + Period /\ b.until <= org[c].expires
       /\ org[c].expires # 0 => \E b \in PeriodsOf(c) : b.until = org[c].expires

CommerceInv == CommerceShape /\ SweepOK /\ GivenBuckets /\ PeriodsInOrder

LEMMA CountedOnce ==
    ASSUME GivenBuckets
    PROVE  GivenOnce
<1>1. ASSUME NEW p \in Purchases
      PROVE  Cardinality(BucketsOf(p)) = IF p \in AddOns THEN 1 ELSE 0
  <2>1. CASE p \in AddOns
    <3>1. PICK b : BucketsOf(p) = {b}
      BY <2>1 DEF GivenBuckets
    <3>2. Cardinality(BucketsOf(p)) = 1
      BY <3>1, FS_Singleton, Zenon
    <3> QED  BY <2>1, <3>2
  <2>2. CASE p \notin AddOns
    <3>1. Cardinality(BucketsOf(p)) = 0
      BY <2>2, FS_EmptySet DEF GivenBuckets
    <3> QED  BY <2>2, <3>1
  <2> QED  BY <2>1, <2>2
<1> QED  BY <1>1 DEF GivenOnce

\* Steps that give nothing and move no end.
LEMMA NothingGiven ==
    ASSUME CommerceInv, UNCHANGED <<buckets, AddOns>>, CommerceShape', SweepOK',
           \A c \in Customers : org'[c].expires = org[c].expires
    PROVE  CommerceInv'
<1>1. GivenBuckets'
  BY DEF CommerceInv, GivenBuckets, BucketsOf
<1>2. PeriodsInOrder'
  BY DEF CommerceInv, PeriodsInOrder, PeriodsOf
<1> QED  BY <1>1, <1>2 DEF CommerceInv

\* A purchase that is written, but not fulfilled, by a request.
LEMMA PurchaseWritten ==
    ASSUME CommerceInv, NEW p \in Purchases, NEW row,
           purchase' = [purchase EXCEPT ![p] = row], DOMAIN row = DOMAIN NoPurchase,
           row.status # "NONE" => row.customer \in Customers,
           row.status # "FULFILLED", purchase[p].status # "FULFILLED",
           UNCHANGED <<now, org, buckets, sweep>>, DOMAIN fulfilling' = Admins,
           \A a \in Admins : fulfilling'[a] \in Purchases \cup {None}
    PROVE  CommerceInv'
<1>1. DOMAIN purchase' = Purchases /\ \A q \in Purchases : purchase'[q] = IF q = p THEN row ELSE purchase[q]
  BY DEF CommerceInv, CommerceShape
<1>2. AddOns' = AddOns
  BY <1>1 DEF AddOns
<1>3. CommerceShape'
  BY <1>1 DEF CommerceInv, CommerceShape, OrgOK
<1>4. SweepOK'
  BY DEF CommerceInv, SweepOK, OrgOK
<1> QED  BY <1>2, <1>3, <1>4, NothingGiven

\* The purchase that a request fulfils becomes final.
LEMMA Fulfilled ==
    ASSUME CommerceInv, NEW p \in Purchases, Fulfillable(p),
           purchase' = [purchase EXCEPT ![p].status = "FULFILLED"]
    PROVE  /\ p \notin AddOns
           /\ DOMAIN purchase' = Purchases
           /\ \A q \in Purchases : /\ DOMAIN purchase'[q] = DOMAIN NoPurchase
                                   /\ purchase'[q].customer = purchase[q].customer
                                   /\ purchase'[q].status # "NONE" => purchase[q].status # "NONE"
           /\ AddOns' = IF purchase[p].product = "CORE_ONBOARDING" THEN AddOns ELSE AddOns \cup {p}
<1>1. /\ DOMAIN purchase = Purchases /\ \A q \in Purchases : DOMAIN purchase[q] = DOMAIN NoPurchase
      /\ purchase[p].status = "PAYMENT_CONFIRMED"
  BY DEF CommerceInv, CommerceShape, Fulfillable
<1>2. /\ DOMAIN purchase' = Purchases
      /\ \A q \in Purchases : /\ DOMAIN purchase'[q] = DOMAIN NoPurchase
                              /\ purchase'[q].customer = purchase[q].customer
                              /\ purchase'[q].product = purchase[q].product
                              /\ purchase'[q].status = IF q = p THEN "FULFILLED" ELSE purchase[q].status
  BY <1>1 DEF NoPurchase
<1> QED  BY <1>1, <1>2 DEF AddOns

\* One bucket more, for a purchase that had none.
LEMMA BucketGiven ==
    ASSUME CommerceInv, NEW p \in Purchases, p \notin AddOns, AddOns' = AddOns \cup {p},
           NEW b, b.purchase = p, buckets' = buckets \cup {b}
    PROVE  GivenBuckets'
<1>1. ASSUME NEW q \in Purchases
      PROVE  IF q \in AddOns' THEN \E d : BucketsOf(q)' = {d} ELSE BucketsOf(q)' = {}
  <2>1. CASE q = p
    <3>1. BucketsOf(p) = {}
      BY DEF CommerceInv, GivenBuckets
    <3>2. BucketsOf(p)' = {b}
      BY <3>1 DEF BucketsOf
    <3> QED  BY <2>1, <3>2
  <2>2. CASE q # p
    <3>1. BucketsOf(q)' = BucketsOf(q)
      BY <2>2 DEF BucketsOf
    <3> QED  BY <2>2, <3>1 DEF CommerceInv, GivenBuckets
  <2> QED  BY <2>1, <2>2
<1> QED  BY <1>1 DEF GivenBuckets

\* A period that is bought begins where the last one ends, or later.
LEMMA PeriodAdded ==
    ASSUME CommerceInv, NEW c \in Customers, NEW p, AddPeriod(p, c)
    PROVE  /\ PeriodsInOrder'
           /\ DOMAIN org' = Customers /\ \A x \in Customers : OrgOK(org'[x])
           /\ \A x \in Customers \ {c} : org'[x] = org[x]
           /\ \A b \in buckets' : /\ DOMAIN b = {"purchase", "customer", "from", "until"}
                                  /\ b.from \in Nat /\ b.until \in Nat
<1> DEFINE from == PeriodStart(c)
           until == from + Period
           new == Bucket(p, c, from, until)
<1>1. /\ now \in Nat \ {0} /\ Period \in Nat \ {0}
      /\ DOMAIN org = Customers /\ \A x \in Customers : OrgOK(org[x])
  BY CommerceConstants DEF CommerceInv, CommerceShape
<1>2. /\ from \in Nat /\ from >= org[c].expires /\ until \in Nat /\ until > org[c].expires /\ until # 0
      /\ until >= from
  BY <1>1 DEF PeriodStart, OrgOK
<1>3. /\ buckets' = buckets \cup {new}
      /\ org' = [org EXCEPT ![c].plan = "ULTRA", ![c].ultra = "ACTIVE", ![c].expires = until]
  BY DEF AddPeriod
<1>4. /\ DOMAIN org' = Customers /\ org'[c].expires = until
      /\ \A x \in Customers \ {c} : org'[x] = org[x]
      /\ \A x \in Customers : OrgOK(org'[x])
  BY <1>1, <1>2, <1>3 DEF OrgOK, Unregistered
<1>5. /\ DOMAIN new = {"purchase", "customer", "from", "until"}
      /\ new.customer = c /\ new.from = from /\ new.until = until
  BY DEF Bucket
<1> HIDE DEF new, from, until
<1>6. \A b \in buckets' : /\ DOMAIN b = {"purchase", "customer", "from", "until"}
                          /\ b.from \in Nat /\ b.until \in Nat
  BY <1>2, <1>3, <1>5 DEF CommerceInv, CommerceShape
<1>7. /\ PeriodsOf(c)' = PeriodsOf(c) \cup {new}
      /\ \A x \in Customers \ {c} : PeriodsOf(x)' = PeriodsOf(x)
  BY <1>2, <1>3, <1>5 DEF PeriodsOf
<1>8. \A b \in PeriodsOf(c) : b.until <= from /\ b.until <= until /\ b.until = b.from + Period
  <2> SUFFICES ASSUME NEW b \in PeriodsOf(c)
               PROVE  b.until <= from /\ b.until <= until /\ b.until = b.from + Period
    OBVIOUS
  <2>1. b.until <= org[c].expires /\ b.until = b.from + Period
    BY DEF CommerceInv, PeriodsInOrder
  <2>2. b.until \in Nat /\ org[c].expires \in Nat
    BY <1>1 DEF PeriodsOf, CommerceInv, CommerceShape, OrgOK
  <2> QED  BY <1>2, <2>1, <2>2
<1>9. ASSUME NEW x \in Customers
      PROVE  (/\ \A b, d \in PeriodsOf(x) : b = d \/ b.until <= d.from \/ d.until <= b.from
              /\ \A b \in PeriodsOf(x) : b.until = b.from + Period /\ b.until <= org[x].expires
              /\ org[x].expires # 0 => \E b \in PeriodsOf(x) : b.until = org[x].expires)'
  <2>1. CASE x = c
    <3>1. \A b, d \in PeriodsOf(c)' : b = d \/ b.until <= d.from \/ d.until <= b.from
      BY <1>5, <1>7, <1>8 DEF CommerceInv, PeriodsInOrder
    <3>2. \A b \in PeriodsOf(c)' : b.until = b.from + Period /\ b.until <= org'[c].expires
      BY <1>1, <1>2, <1>4, <1>5, <1>7, <1>8 DEF until
    <3>3. \E b \in PeriodsOf(c)' : b.until = org'[c].expires
      BY <1>4, <1>5, <1>7
    <3> QED  BY <2>1, <3>1, <3>2, <3>3
  <2>2. CASE x # c
    BY <1>4, <1>7, <2>2 DEF CommerceInv, PeriodsInOrder
  <2> QED  BY <2>1, <2>2
<1> QED  BY <1>4, <1>6, <1>9 DEF PeriodsInOrder

\* What was bought is given with the last step of its purchase.
LEMMA FulfilmentGives ==
    ASSUME CommerceInv, NEW a \in Admins, FulfilPurchase(a)
    PROVE  CommerceInv'
<1> DEFINE p == fulfilling[a]
           c == purchase[p].customer
<1>1. /\ p \in Purchases /\ Fulfillable(p)
      /\ purchase' = [purchase EXCEPT ![p].status = "FULFILLED"]
      /\ fulfilling' = [fulfilling EXCEPT ![a] = None]
      /\ UNCHANGED <<now, sweep>>
  BY DEF FulfilPurchase, CommerceInv, CommerceShape
<1>2. c \in Customers
  BY <1>1 DEF Fulfillable, CommerceInv, CommerceShape
<1> DEFINE others == /\ DOMAIN purchase' = Purchases
                     /\ \A q \in Purchases : DOMAIN purchase'[q] = DOMAIN NoPurchase
                     /\ \A q \in Purchases : purchase'[q].status # "NONE" => purchase'[q].customer \in Customers
                     /\ DOMAIN fulfilling' = Admins
                     /\ \A x \in Admins : fulfilling'[x] \in Purchases \cup {None}
<1> HIDE DEF p, c
<1>3. others
  <2>1. /\ DOMAIN purchase' = Purchases
        /\ \A q \in Purchases : DOMAIN purchase'[q] = DOMAIN NoPurchase
        /\ \A q \in Purchases : purchase'[q].status # "NONE" => purchase'[q].customer \in Customers
    BY <1>1, Fulfilled DEF CommerceInv, CommerceShape
  <2>2. DOMAIN fulfilling' = Admins /\ \A x \in Admins : fulfilling'[x] \in Purchases \cup {None}
    BY <1>1 DEF CommerceInv, CommerceShape
  <2> QED  BY <2>1, <2>2
<1>4. CASE purchase[p].product = "CORE_ONBOARDING"
  <2>1. UNCHANGED <<org, buckets>>
    BY <1>4 DEF FulfilPurchase, p
  <2>2. AddOns' = AddOns
    BY <1>1, <1>4, Fulfilled
  <2>3. CommerceShape' /\ SweepOK'
    BY <1>1, <1>3, <2>1 DEF CommerceInv, CommerceShape, SweepOK, OrgOK
  <2> QED  BY <2>1, <2>2, <2>3, NothingGiven
<1>5. CASE purchase[p].product = "ULTRA_PERIOD"
  <2>1. AddPeriod(p, c)
    BY <1>5 DEF FulfilPurchase, p, c
  <2>2. p \notin AddOns /\ AddOns' = AddOns \cup {p}
    BY <1>1, <1>5, Fulfilled
  <2> DEFINE new == Bucket(p, c, PeriodStart(c), PeriodStart(c) + Period)
  <2>3. buckets' = buckets \cup {new} /\ new.purchase = p
    BY <2>1 DEF AddPeriod, Bucket
  <2> HIDE DEF new
  <2>4. GivenBuckets'
    BY <1>1, <2>2, <2>3, BucketGiven
  <2>5. /\ PeriodsInOrder'
        /\ DOMAIN org' = Customers /\ \A x \in Customers : OrgOK(org'[x])
        /\ \A x \in Customers \ {c} : org'[x] = org[x]
        /\ \A b \in buckets' : /\ DOMAIN b = {"purchase", "customer", "from", "until"}
                               /\ b.from \in Nat /\ b.until \in Nat
    BY <1>2, <2>1, PeriodAdded
  <2>6. CommerceShape'
    BY <1>1, <1>3, <2>5 DEF CommerceInv, CommerceShape, OrgOK
  <2>7. SweepOK'
    BY <1>1, <2>1, <2>5 DEF CommerceInv, SweepOK, AddPeriod, Unlocked, OrgOK
  <2> QED  BY <2>4, <2>5, <2>6, <2>7 DEF CommerceInv
<1>6. CASE purchase[p].product = "RESEARCH_PACK"
  <2>1. AddPack(p, c)
    BY <1>6 DEF FulfilPurchase, p, c
  <2>2. p \notin AddOns /\ AddOns' = AddOns \cup {p}
    BY <1>1, <1>6, Fulfilled
  <2> DEFINE new == Bucket(p, c, now, 0)
  <2>3. /\ buckets' = buckets \cup {new} /\ UNCHANGED org
        /\ DOMAIN new = {"purchase", "customer", "from", "until"}
        /\ new.purchase = p /\ new.from = now /\ new.until = 0
    BY <2>1 DEF AddPack, Bucket
  <2> HIDE DEF new
  <2>4. GivenBuckets'
    BY <1>1, <2>2, <2>3, BucketGiven
  <2>5. CommerceShape' /\ SweepOK'
    BY <1>1, <1>3, <2>3 DEF CommerceInv, CommerceShape, SweepOK, OrgOK
  <2>6. \A x \in Customers : PeriodsOf(x)' = PeriodsOf(x)
    BY <2>3 DEF PeriodsOf
  <2>7. PeriodsInOrder'
    BY <2>3, <2>6 DEF CommerceInv, PeriodsInOrder
  <2> QED  BY <2>4, <2>5, <2>7 DEF CommerceInv
<1> QED  BY <1>4, <1>5, <1>6 DEF FulfilPurchase, p

\* What an administrator's request records, resolves or gives up keeps the invariant.
LEMMA AdminSteps ==
    ASSUME CommerceInv, NEW a \in Admins, AdminStep(a)
    PROVE  CommerceInv'
<1>1. CommerceShape
  BY DEF CommerceInv
<1>2. ASSUME NEW p \in Purchases, NEW product \in Products, NEW c \in Customers,
             RecordPurchase(a, p, product, c)
      PROVE  CommerceInv'
  <2> DEFINE row == [status |-> "PAYMENT_CONFIRMED", product |-> product, customer |-> c]
  <2>1. /\ purchase' = [purchase EXCEPT ![p] = row] /\ purchase[p] = NoPurchase
        /\ fulfilling' = [fulfilling EXCEPT ![a] = p]
        /\ UNCHANGED <<now, org, buckets, sweep>>
    BY <1>2 DEF RecordPurchase
  <2>2. /\ DOMAIN row = DOMAIN NoPurchase /\ row.customer \in Customers
        /\ row.status # "FULFILLED" /\ purchase[p].status # "FULFILLED"
    BY <2>1 DEF NoPurchase
  <2>3. DOMAIN fulfilling' = Admins /\ \A x \in Admins : fulfilling'[x] \in Purchases \cup {None}
    BY <1>1, <2>1 DEF CommerceShape
  <2> HIDE DEF row
  <2> QED  BY <2>1, <2>2, <2>3, PurchaseWritten
<1>3. ASSUME NEW p \in Purchases, NEW confirm \in BOOLEAN, ResolvePurchase(a, p, confirm)
      PROVE  CommerceInv'
  <2> DEFINE status == IF confirm THEN "PAYMENT_CONFIRMED" ELSE "FAILED"
             row == [purchase[p] EXCEPT !.status = status]
  <2>1. /\ purchase' = [purchase EXCEPT ![p] = row]
        /\ purchase[p].status \in {"PAYMENT_CONFIRMED", "FAILED"}
        /\ fulfilling' \in {fulfilling, [fulfilling EXCEPT ![a] = p]}
        /\ UNCHANGED <<now, org, buckets, sweep>>
    BY <1>1, <1>3 DEF ResolvePurchase, CommerceShape
  <2>2. /\ DOMAIN row = DOMAIN NoPurchase /\ row.customer = purchase[p].customer
        /\ row.status \in {"PAYMENT_CONFIRMED", "FAILED"}
    BY <1>1 DEF CommerceShape, NoPurchase
  <2>3. DOMAIN fulfilling' = Admins /\ \A x \in Admins : fulfilling'[x] \in Purchases \cup {None}
    BY <1>1, <2>1 DEF CommerceShape
  <2>4. purchase[p].customer \in Customers
    BY <1>1, <2>1 DEF CommerceShape
  <2> HIDE DEF row
  <2> QED  BY <2>1, <2>2, <2>3, <2>4, PurchaseWritten
<1>4. CASE FulfilmentEnds(a)
  <2>1. /\ fulfilling' = [fulfilling EXCEPT ![a] = None]
        /\ UNCHANGED <<now, org, purchase, buckets, sweep>>
    BY <1>4 DEF FulfilmentEnds
  <2>2. CommerceShape' /\ SweepOK' /\ AddOns' = AddOns
    BY <1>1, <2>1 DEF CommerceInv, CommerceShape, SweepOK, OrgOK, AddOns
  <2> QED  BY <2>1, <2>2, NothingGiven
<1> QED  BY <1>2, <1>3, <1>4, FulfilmentGives DEF AdminStep

\* Rows of organisations that are written without moving the end of Ultra.
LEMMA EndsStay ==
    ASSUME CommerceInv, now' \in Nat \ {0}, UNCHANGED <<purchase, buckets, fulfilling>>,
           DOMAIN org' = Customers,
           \A c \in Customers : OrgOK(org'[c]) /\ org'[c].expires = org[c].expires, SweepOK'
    PROVE  CommerceInv'
<1>1. CommerceShape' /\ AddOns' = AddOns
  BY DEF CommerceInv, CommerceShape, AddOns, OrgOK
<1> QED  BY <1>1, NothingGiven

LEMMA RowWritten ==
    ASSUME CommerceInv, NEW c, NEW row, org' = [org EXCEPT ![c] = row],
           DOMAIN row = DOMAIN org[c], row.expires = org[c].expires,
           UNCHANGED <<now, purchase, buckets, fulfilling, sweep>>
    PROVE  CommerceInv'
<1>1. DOMAIN org = Customers /\ \A x \in Customers : OrgOK(org[x])
  BY DEF CommerceInv, CommerceShape
<1>2. DOMAIN org' = Customers /\ \A x \in Customers : OrgOK(org'[x]) /\ org'[x].expires = org[x].expires
  BY <1>1 DEF OrgOK
<1>3. SweepOK'
  BY <1>2 DEF CommerceInv, SweepOK, OrgOK
<1> QED  BY <1>2, <1>3, EndsStay DEF CommerceInv, CommerceShape

\* Time, grants, access and the sweep move no end of Ultra.
LEMMA OtherCommerce ==
    ASSUME CommerceInv,
           \/ Tick \/ SweepReads \/ SweepCommits
           \/ \E g \in Grants : RevokeGrant(g) \/ Register(g) \/ \E c \in Customers : CreateGrant(g, c)
           \/ \E c \in Customers : MarkUltraPaymentPending(c) \/ \E action : Decide(c, action)
    PROVE  CommerceInv'
<1>1. CommerceShape /\ SweepOK
  BY DEF CommerceInv
<1>2. ASSUME UNCHANGED <<org, purchase, buckets, fulfilling, sweep>>, now' = now \/ now' = now + 1
      PROVE  CommerceInv'
  <2>1. SweepOK' /\ now' \in Nat \ {0}
    BY <1>1, <1>2 DEF CommerceShape, SweepOK, OrgOK
  <2> QED  BY <1>1, <1>2, <2>1, EndsStay DEF CommerceShape
<1>3. CASE Tick \/ (\E g \in Grants : RevokeGrant(g) \/ \E c \in Customers : CreateGrant(g, c))
  BY <1>2, <1>3 DEF Tick, RevokeGrant, CreateGrant
<1>4. ASSUME NEW g \in Grants, Register(g) PROVE CommerceInv'
  <2> DEFINE c == grant[g].customer
             row == [org[c] EXCEPT !.access = "PENDING_APPROVAL", !.entitlement = "PENDING"]
  <2>1. /\ org[c] = Unregistered
        /\ org' = [org EXCEPT ![c].access = "PENDING_APPROVAL", ![c].entitlement = "PENDING"]
        /\ UNCHANGED <<now, purchase, buckets, fulfilling, sweep>>
    BY <1>4 DEF Register
  <2>2. org' = [org EXCEPT ![c] = row]
    BY <1>1, <2>1 DEF CommerceShape
  <2>3. DOMAIN row = DOMAIN org[c] /\ row.expires = org[c].expires
    BY <2>1 DEF Unregistered
  <2> HIDE DEF row, c
  <2> QED  BY <2>1, <2>2, <2>3, RowWritten
<1>5. ASSUME NEW c \in Customers, NEW action, Decide(c, action) PROVE CommerceInv'
  <2> DEFINE plan == IF org[c].expires > now THEN "ULTRA" ELSE "CORE"
             row == [org[c] EXCEPT !.access = AccessOf(action).access,
                                   !.entitlement = AccessOf(action).entitlement, !.plan = plan]
  <2>1. /\ org' = [org EXCEPT ![c].access = AccessOf(action).access,
                              ![c].entitlement = AccessOf(action).entitlement, ![c].plan = plan]
        /\ UNCHANGED <<now, purchase, buckets, fulfilling, sweep>>
    BY <1>5 DEF Decide
  <2> HIDE DEF plan
  <2>2. org' = [org EXCEPT ![c] = row]
    BY <1>1, <2>1 DEF CommerceShape
  <2>3. DOMAIN row = DOMAIN org[c] /\ row.expires = org[c].expires
    BY <1>1 DEF CommerceShape, OrgOK, Unregistered
  <2> HIDE DEF row
  <2> QED  BY <2>1, <2>2, <2>3, RowWritten
<1>6. ASSUME NEW c \in Customers, MarkUltraPaymentPending(c) PROVE CommerceInv'
  <2> DEFINE row == [org[c] EXCEPT !.ultra = "PAYMENT_PENDING"]
  <2>1. /\ org' = [org EXCEPT ![c] = row]
        /\ UNCHANGED <<now, purchase, buckets, fulfilling, sweep>>
    BY <1>1, <1>6 DEF MarkUltraPaymentPending, CommerceShape
  <2>2. DOMAIN row = DOMAIN org[c] /\ row.expires = org[c].expires
    BY <1>1 DEF CommerceShape, OrgOK, Unregistered
  <2> HIDE DEF row
  <2> QED  BY <2>1, <2>2, RowWritten
<1>7. CASE SweepReads
  <2>1. /\ sweep'.rows = [c \in {x \in Customers : Swept(x) # org[x]} |-> Swept(c)]
        /\ UNCHANGED <<now, org, purchase, buckets, fulfilling>>
    BY <1>7 DEF SweepReads
  <2>2. \A c \in Customers : OrgOK(Swept(c)) /\ Swept(c).expires = org[c].expires
    BY <1>1 DEF Swept, CommerceShape, OrgOK, Unregistered
  <2>3. SweepOK'
    BY <2>1, <2>2 DEF SweepOK, OrgOK
  <2> QED  BY <1>1, <2>1, <2>3, EndsStay DEF CommerceShape
<1>8. CASE SweepCommits
  <2>1. /\ org' = [c \in Customers |-> IF Unlocked(c) THEN org[c] ELSE sweep.rows[c]]
        /\ sweep' = NoSweep /\ UNCHANGED <<now, purchase, buckets, fulfilling>>
    BY <1>8 DEF SweepCommits
  <2>2. \A c \in Customers : OrgOK(org'[c]) /\ org'[c].expires = org[c].expires
    BY <1>1, <2>1 DEF CommerceShape, SweepOK, Unlocked
  <2>3. SweepOK'
    BY <2>1 DEF SweepOK, NoSweep
  <2> QED  BY <1>1, <2>1, <2>2, <2>3, EndsStay DEF CommerceShape
<1> QED  BY <1>3, <1>4, <1>5, <1>6, <1>7, <1>8

\* However payments are recorded, resolved and fulfilled, and whatever the sweep and decisions on
\* access do in between: a fulfilled add-on was given exactly once, Ultra periods never overlap,
\* and Ultra lasts to the end of the last one (commerce.service.ts confirmManualPurchase, fulfil,
\* resolvePurchase; commercial-lifecycle.ts).
THEOREM AlwaysPaidOnceAndInFull == CommerceSpec => []PaidOnceAndInFull
<1>1. CommerceInit => CommerceInv
  <2> SUFFICES ASSUME CommerceInit PROVE CommerceInv
    OBVIOUS
  <2>1. CommerceShape
    BY DEF CommerceInit, CommerceShape, OrgOK, Unregistered, NoPurchase
  <2>2. SweepOK
    BY DEF CommerceInit, SweepOK, NoSweep
  <2>3. GivenBuckets
    BY DEF CommerceInit, GivenBuckets, BucketsOf, AddOns, NoPurchase
  <2>4. PeriodsInOrder
    BY DEF CommerceInit, PeriodsInOrder, PeriodsOf, Unregistered
  <2> QED  BY <2>1, <2>2, <2>3, <2>4 DEF CommerceInv
<1>2. CommerceInv /\ [CommerceNext]_commerceVars => CommerceInv'
  <2> SUFFICES ASSUME CommerceInv, [CommerceNext]_commerceVars PROVE CommerceInv'
    OBVIOUS
  <2>1. CASE UNCHANGED commerceVars
    <3>1. UNCHANGED <<now, org, purchase, buckets, fulfilling, sweep>>
      BY <2>1 DEF commerceVars
    <3>2. SweepOK'
      BY <3>1 DEF CommerceInv, SweepOK, OrgOK
    <3> QED  BY <3>1, <3>2, EndsStay DEF CommerceInv, CommerceShape
  <2>2. CASE CommerceNext
    BY <2>2, AdminSteps, OtherCommerce DEF CommerceNext
  <2> QED  BY <2>1, <2>2
<1>3. CommerceInv => PaidOnceAndInFull
  BY CountedOnce DEF CommerceInv, GivenOnce, BucketsOf, PeriodsInOrder, PaidOnceAndInFull
<1> QED  BY <1>1, <1>2, <1>3, PTL DEF CommerceSpec

-----------------------------------------------------------------------------
(***************************************************************************)
(* Setting up a workspace.  A form that lost nothing on its way holds what *)
(* the server has taken from its member, and what the member's requests    *)
(* under way hold that were sent before it; one that began with the        *)
(* profile as it is now holds that profile.                                *)
(***************************************************************************)

Forms == [facts : SUBSET Nat, version : Nat, sound : BOOLEAN]
PageStages == {"closed", "editing", "unsure", "posting", "clearing"}

SetupShape ==
    /\ profile \in Forms
    /\ draft \in [Members -> Forms \cup {NoWork}]
    /\ page \in [Members -> [stage : PageStages, form : Forms, unsaved : BOOLEAN]]
    /\ saves \in [Members -> Seq(Forms)]
    /\ post \in [Members -> Forms \cup {NoWork}]
    /\ kept \in [Members -> SUBSET Nat]
    /\ DOMAIN count = {"facts", "visits", "saves", "troubles"} /\ count.facts \in Nat

\* A form, if nothing was lost on its way, holds these facts.
Holds(form, facts) == form.sound => facts \subseteq form.facts

\* A form knows no later profile; if it began with this one, it holds it.
Based(form) ==
    /\ form.version <= profile.version
    /\ form.sound /\ form.version = profile.version => profile.sound /\ profile.facts \subseteq form.facts

AllBased(u) ==
    /\ draft[u] # NoWork => Based(draft[u])
    /\ post[u] # NoWork => Based(post[u])
    /\ page[u].stage # "closed" => Based(page[u].form)
    /\ \A i \in DOMAIN saves[u] : Based(saves[u][i])

\* The draft or, without one, the profile.
StoredHolds(u) ==
    /\ draft[u] # NoWork => Holds(draft[u], kept[u])
    /\ draft[u] = NoWork \/ page[u].stage = "clearing" => Holds(profile, kept[u])

\* Saves in the order they were sent.
SavesHold(u) ==
    \A i \in DOMAIN saves[u] :
        /\ Holds(saves[u][i], kept[u])
        /\ \A j \in DOMAIN saves[u] : j < i /\ saves[u][j].sound => Holds(saves[u][i], saves[u][j].facts)

SaveHeldBy(u, form) == \A i \in DOMAIN saves[u] : saves[u][i].sound => Holds(form, saves[u][i].facts)

PostHolds(u) ==
    post[u] # NoWork => Holds(post[u], kept[u]) /\ SaveHeldBy(u, post[u])

PageHolds(u) ==
    page[u].stage # "closed" =>
        /\ Holds(page[u].form, kept[u]) /\ SaveHeldBy(u, page[u].form)
        /\ post[u] # NoWork /\ post[u].sound => Holds(page[u].form, post[u].facts)

\* What is under way while a page is open.
PageKnows(u) ==
    /\ page[u].stage = "clearing" => post[u] = NoWork /\ \A i \in DOMAIN saves[u] : ~saves[u][i].sound
    /\ page[u].stage \in {"editing", "unsure"} /\ post[u] # NoWork => ~page[u].form.sound
    /\ page[u].stage = "closed" => ~page[u].unsaved

MemberInv(u) ==
    AllBased(u) /\ StoredHolds(u) /\ SavesHold(u) /\ PostHolds(u) /\ PageHolds(u) /\ PageKnows(u)

SetupInv ==
    /\ SetupShape
    /\ profile.version = 0 => profile = Blank
    /\ \A u \in Members : MemberInv(u)

\* What was run is kept.
BriefsInv ==
    /\ DOMAIN brief = Versions /\ DOMAIN pipeline = Versions
    /\ \A v \in Versions : DOMAIN brief[v] = {"life", "active"}
    /\ \A v \in Versions :
         /\ brief[v].life # "none" => v <= profile.version
         /\ brief[v].life = "new" => v = profile.version
         /\ pipeline[v] = "queued" => brief[v].life \in {"running", "ran"}

LEMMA SetupStarted == FirstRunInit => SetupInv
<1> SUFFICES ASSUME FirstRunInit PROVE SetupInv
  OBVIOUS
<1>1. Blank \in Forms /\ Blank.version = 0 /\ Blank.facts = {} /\ Blank.sound
  BY DEF Blank, Form, Forms
<1>2. SetupShape
  BY <1>1 DEF FirstRunInit, SetupShape, Closed, PageStages
<1>3. ASSUME NEW u \in Members PROVE MemberInv(u)
  <2>1. /\ draft[u] = NoWork /\ post[u] = NoWork /\ saves[u] = <<>> /\ kept[u] = {}
        /\ page[u].stage = "closed" /\ ~page[u].unsaved
    BY DEF FirstRunInit, Closed
  <2> QED
    BY <2>1 DEF MemberInv, AllBased, StoredHolds, SavesHold, PostHolds, PageHolds, PageKnows, Holds
<1> QED  BY <1>2, <1>3 DEF SetupInv, FirstRunInit

LEMMA SetupImplies == SetupInv => WorkIsKept
<1> SUFFICES ASSUME SetupInv, NEW u \in Members, StartingForm(u).sound
             PROVE  kept[u] \subseteq StartingForm(u).facts
  BY DEF WorkIsKept
<1>1. StoredHolds(u)
  BY DEF SetupInv, MemberInv
<1> QED  BY <1>1 DEF StoredHolds, Holds, StartingForm

\* What a step leaves as it was for a member.
LEMMA MemberFrame ==
    ASSUME NEW v, MemberInv(v), UNCHANGED profile,
           draft'[v] = draft[v], page'[v] = page[v], saves'[v] = saves[v], post'[v] = post[v], kept'[v] = kept[v]
    PROVE  MemberInv(v)'
BY DEF MemberInv, AllBased, Based, StoredHolds, SavesHold, SaveHeldBy, PostHolds, PageHolds, PageKnows, Holds

\* A save that is taken out of the queue.
LEMMA SaveRemoved ==
    ASSUME NEW S, NEW s \in Seq(S), NEW i \in DOMAIN s
    PROVE  /\ RemoveAt(s, i) \in Seq(S)
           /\ DOMAIN RemoveAt(s, i) = 1 .. Len(s) - 1
           /\ \A j \in 1 .. Len(s) - 1 : RemoveAt(s, i)[j] = IF j < i THEN s[j] ELSE s[j + 1]
<1> DEFINE before == SubSeq(s, 1, i - 1)
           behind == SubSeq(s, i + 1, Len(s))
<1>1. i \in 1 .. Len(s) /\ Len(s) \in Nat
  OBVIOUS
<1>2. /\ before \in Seq(S) /\ Len(before) = i - 1
      /\ \A j \in 1 .. i - 1 : before[j] = s[j]
  BY <1>1, SubSeqProperties
<1>3. /\ behind \in Seq(S) /\ Len(behind) = Len(s) - i
      /\ \A j \in 1 .. Len(s) - i : behind[j] = s[i + j]
  BY <1>1, SubSeqProperties
<1>4. RemoveAt(s, i) = before \o behind
  BY DEF RemoveAt
<1> HIDE DEF before, behind
<1>5. /\ before \o behind \in Seq(S) /\ Len(before \o behind) = Len(s) - 1
      /\ \A j \in 1 .. Len(s) - 1 : (before \o behind)[j] = IF j < i THEN before[j] ELSE behind[j - (i - 1)]
  <2>1. /\ before \o behind \in Seq(S) /\ Len(before \o behind) = Len(before) + Len(behind)
        /\ \A j \in 1 .. Len(before) + Len(behind) :
              (before \o behind)[j] = IF j <= Len(before) THEN before[j] ELSE behind[j - Len(before)]
    BY ONLY <1>2, <1>3, ConcatProperties, Zenon
  <2>2. Len(before) + Len(behind) = Len(s) - 1 /\ \A j \in 1 .. Len(s) - 1 : (j <= i - 1) = (j < i)
    BY <1>1, <1>2, <1>3
  <2> QED  BY <1>2, <2>1, <2>2
<1>6. \A j \in i .. Len(s) - 1 : behind[j - (i - 1)] = s[j + 1]
  <2> SUFFICES ASSUME NEW j \in i .. Len(s) - 1 PROVE behind[j - (i - 1)] = s[j + 1]
    OBVIOUS
  <2>1. j - (i - 1) \in 1 .. Len(s) - i /\ i + (j - (i - 1)) = j + 1
    BY <1>1
  <2> QED  BY <1>3, <2>1
<1>7. ASSUME NEW j \in 1 .. Len(s) - 1 PROVE (before \o behind)[j] = IF j < i THEN s[j] ELSE s[j + 1]
  <2>1. CASE j < i
    <3>1. j \in 1 .. i - 1
      BY <1>1, <2>1
    <3> QED  BY <1>2, <1>5, <2>1, <3>1
  <2>2. CASE ~(j < i)
    <3>1. j \in i .. Len(s) - 1
      BY <1>1, <2>2
    <3> QED  BY <1>5, <1>6, <2>2, <3>1
  <2> QED  BY <2>1, <2>2
<1>8. DOMAIN (before \o behind) = 1 .. Len(s) - 1
  BY <1>5
<1> QED  BY <1>4, <1>5, <1>7, <1>8

LEMMA LateForms == \A f \in Forms : Late(f) \in Forms /\ ~Late(f).sound /\ Late(f).version = f.version
BY DEF Forms, Late

\* The queue after its i-th save was handled.
LEMMA SaveHandled ==
    ASSUME NEW s \in Seq(Forms), NEW i \in DOMAIN s
    PROVE  /\ After(s, i) \in Seq(Forms)
           /\ DOMAIN After(s, i) = 1 .. Len(s) - 1
           /\ \A j \in 1 .. Len(s) - 1 : After(s, i)[j] = IF j < i THEN Late(s[j]) ELSE s[j + 1]
<1>1. i \in 1 .. Len(s) /\ Len(s) \in Nat /\ \A j \in 1 .. Len(s) : s[j] \in Forms
  OBVIOUS
<1>2. \A j \in 1 .. Len(s) - 1 : (IF j < i THEN Late(s[j]) ELSE s[j + 1]) \in Forms
  BY <1>1, LateForms
<1>3. After(s, i) = [j \in 1 .. Len(s) - 1 |-> IF j < i THEN Late(s[j]) ELSE s[j + 1]]
  BY DEF After
<1> HIDE DEF Forms
<1>4. Len(s) - 1 \in Nat
  BY <1>1
<1> QED  BY <1>2, <1>3, <1>4, IsASeq

\* A step of one member that leaves the profile.
LEMMA OthersAreLeft ==
    ASSUME SetupInv, NEW u \in Members, UNCHANGED profile, SetupShape', MemberInv(u)',
           \A v \in Members \ {u} : /\ draft'[v] = draft[v] /\ page'[v] = page[v] /\ saves'[v] = saves[v]
                                    /\ post'[v] = post[v] /\ kept'[v] = kept[v]
    PROVE  SetupInv'
<1>1. ASSUME NEW v \in Members PROVE MemberInv(v)'
  <2>1. CASE v = u
    BY <2>1
  <2>2. CASE v # u
    BY <2>2, MemberFrame DEF SetupInv
  <2> QED  BY <2>1, <2>2
<1> QED  BY <1>1 DEF SetupInv, Blank, Form

\* The next form that is shown: its facts and version are those of a stored form that holds what
\* it claims to.
Showable(u, form) ==
    /\ form \in Forms
    /\ Based(form) /\ Holds(form, kept[u])

LEMMA StartingIsShowable == ASSUME SetupInv, NEW u \in Members PROVE Showable(u, StartingForm(u))
BY DEF SetupInv, SetupShape, MemberInv, AllBased, StoredHolds, Showable, StartingForm, Based, Holds, Forms

LEMMA InsteadIsShowable ==
    ASSUME SetupInv, NEW u \in Members, NEW form \in {profile, Blank}
    PROVE  Showable(u, InsteadOf(u, form))
<1>1. Showable(u, StartingForm(u))
  BY StartingIsShowable
<1>2. form \in Forms /\ form.version <= profile.version /\ (form.version = profile.version => form = profile)
  <2>1. CASE form = profile
    BY <2>1 DEF SetupInv, SetupShape, Forms
  <2>2. CASE form = Blank
    <3>1. Blank \in Forms /\ Blank.version = 0
      BY DEF Blank, Form, Forms
    <3>2. profile.version \in Nat /\ (profile.version = 0 => profile = Blank)
      BY DEF SetupInv, SetupShape, Forms
    <3> QED  BY <2>2, <3>1, <3>2
  <2> QED  BY <2>1, <2>2
<1>3. /\ InsteadOf(u, form) \in Forms
      /\ InsteadOf(u, form).facts = form.facts /\ InsteadOf(u, form).version = form.version
      /\ InsteadOf(u, form).sound = (form.sound /\ StartingForm(u).sound /\ StartingForm(u).facts \subseteq form.facts)
  <2> DEFINE sound == form.sound /\ StartingForm(u).sound /\ StartingForm(u).facts \subseteq form.facts
  <2>1. sound \in BOOLEAN /\ InsteadOf(u, form) = [form EXCEPT !.sound = sound]
    BY DEF InsteadOf
  <2> HIDE DEF sound
  <2>2. [form EXCEPT !.sound = sound] \in Forms
    BY <1>2, <2>1 DEF Forms
  <2>3. /\ [form EXCEPT !.sound = sound].facts = form.facts
        /\ [form EXCEPT !.sound = sound].version = form.version
        /\ [form EXCEPT !.sound = sound].sound = sound
    BY <1>2 DEF Forms
  <2> QED  BY <2>1, <2>2, <2>3 DEF sound
<1> QED  BY <1>1, <1>2, <1>3 DEF Showable, Based, Holds

LEMMA ShowKeepsSetup ==
    ASSUME SetupInv, NEW u \in Members, NEW form, Showable(u, form), NEW stage \in {"editing", "unsure"},
           Show(u, form, stage), UNCHANGED storedVars, UNCHANGED <<saves, post>>,
           DOMAIN count' = DOMAIN count, count'.facts = count.facts
    PROVE  SetupInv'
<1> DEFINE quiet == saves[u] = <<>> /\ post[u] = NoWork
           shown == [form EXCEPT !.sound = @ /\ quiet]
<1>1. shown \in Forms /\ shown.facts = form.facts /\ shown.version = form.version /\ shown.sound = (form.sound /\ quiet)
  BY DEF Showable, Forms
<1>2. page' = [page EXCEPT ![u] = [stage |-> stage, unsaved |-> TRUE, form |-> shown]] /\ page[u].stage = "closed"
  BY DEF Show
<1> HIDE DEF shown
<1>3. SetupShape'
  BY <1>1, <1>2 DEF SetupInv, SetupShape, storedVars, PageStages
<1>4. /\ page'[u].form = shown /\ page'[u].stage = stage
      /\ \A v \in Members \ {u} : page'[v] = page[v]
  BY <1>2 DEF SetupInv, SetupShape
<1>5. UNCHANGED <<profile, draft, kept, saves, post>>
  BY DEF storedVars
<1>6. MemberInv(u)'
  <2>1. MemberInv(u)
    BY DEF SetupInv
  <2>2. AllBased(u)'
    BY <1>1, <1>4, <1>5, <2>1 DEF MemberInv, AllBased, Based, Showable
  <2>3. StoredHolds(u)'
    BY <1>4, <1>5, <2>1 DEF MemberInv, StoredHolds, Holds
  <2>4. SavesHold(u)' /\ PostHolds(u)'
    BY <1>5, <2>1 DEF MemberInv, SavesHold, PostHolds, SaveHeldBy, Holds
  <2>5. Holds(shown, kept[u])
    BY <1>1 DEF Holds, Showable
  <2>6. ASSUME shown.sound PROVE PageHolds(u)' /\ PageKnows(u)'
    <3>1. saves[u] = <<>> /\ post[u] = NoWork
      BY <1>1, <2>6
    <3> QED  BY <1>4, <1>5, <2>5, <3>1 DEF PageHolds, PageKnows, SaveHeldBy, Holds
  <2>7. ASSUME ~shown.sound PROVE PageHolds(u)' /\ PageKnows(u)'
    BY <1>4, <1>5, <2>7 DEF PageHolds, PageKnows, SaveHeldBy, Holds
  <2> QED  BY <2>2, <2>3, <2>4, <2>6, <2>7 DEF MemberInv
<1> QED  BY <1>3, <1>4, <1>5, <1>6, OthersAreLeft

\* A page that is open changes, or is closed, and nothing else: its form may hold more.
LEMMA PageKeepsSetup ==
    ASSUME SetupInv, NEW u \in Members, NEW row \in [stage : PageStages, form : Forms, unsaved : BOOLEAN],
           page' = [page EXCEPT ![u] = row], UNCHANGED <<storedVars, saves, post>>,
           DOMAIN count' = DOMAIN count, count'.facts \in Nat, page[u].stage # "closed",
           row.stage = "closed" => ~row.unsaved,
           row.stage # "closed" =>
               /\ row.form.version = page[u].form.version /\ row.form.sound = page[u].form.sound
               /\ page[u].form.facts \subseteq row.form.facts,
           row.stage \in {"closed", page[u].stage} \/ (row.stage = "editing" /\ page[u].stage = "clearing")
    PROVE  SetupInv'
<1>1. SetupShape'
  BY DEF SetupInv, SetupShape, storedVars
<1>2. page'[u] = row /\ \A v \in Members \ {u} : page'[v] = page[v]
  BY DEF SetupInv, SetupShape
<1>3. UNCHANGED <<profile, draft, kept, saves, post>>
  BY DEF storedVars
<1>4. MemberInv(u)
  BY DEF SetupInv
<1>5. AllBased(u)'
  BY <1>2, <1>3, <1>4 DEF MemberInv, AllBased, Based
<1>6. StoredHolds(u)' /\ SavesHold(u)' /\ PostHolds(u)'
  BY <1>2, <1>3, <1>4 DEF MemberInv, StoredHolds, SavesHold, PostHolds, SaveHeldBy, Holds
<1>7. PageHolds(u)' /\ PageKnows(u)'
  BY <1>2, <1>3, <1>4 DEF MemberInv, PageHolds, PageKnows, SaveHeldBy, Holds
<1> QED  BY <1>1, <1>2, <1>3, <1>5, <1>6, <1>7, OthersAreLeft DEF MemberInv

LEMMA AutosaveKeepsSetup == ASSUME SetupInv, NEW u \in Members, Autosave(u) PROVE SetupInv'
<1> DEFINE sent == [page[u].form EXCEPT !.sound = @ /\ page[u].stage \in {"editing", "unsure"}]
<1>1. page[u] \in [stage : PageStages, form : Forms, unsaved : BOOLEAN] /\ saves[u] \in Seq(Forms) /\ MemberInv(u)
  BY DEF SetupInv, SetupShape
<1>2. /\ sent \in Forms /\ sent.facts = page[u].form.facts /\ sent.version = page[u].form.version
      /\ sent.sound = (page[u].form.sound /\ page[u].stage \in {"editing", "unsure"})
  BY <1>1 DEF Forms
<1>3. /\ page' = [page EXCEPT ![u].unsaved = FALSE] /\ saves' = [saves EXCEPT ![u] = Append(@, sent)]
      /\ UNCHANGED <<profile, draft, kept, post>> /\ DOMAIN count' = DOMAIN count /\ count'.facts = count.facts
  BY DEF Autosave, Count, storedVars, SetupInv, SetupShape
<1> HIDE DEF sent
<1>4. Append(saves[u], sent) \in Seq(Forms) /\ DOMAIN Append(saves[u], sent) = 1 .. Len(saves[u]) + 1
      /\ Append(saves[u], sent)[Len(saves[u]) + 1] = sent
      /\ \A i \in DOMAIN saves[u] : Append(saves[u], sent)[i] = saves[u][i]
  BY <1>1, <1>2
<1>5. SetupShape'
  BY <1>3, <1>4 DEF SetupInv, SetupShape
<1>6. /\ page'[u].stage = page[u].stage /\ page'[u].form = page[u].form
      /\ DOMAIN saves[u] = 1 .. Len(saves[u]) /\ Len(saves[u]) \in Nat
      /\ DOMAIN saves'[u] = 1 .. Len(saves[u]) + 1 /\ saves'[u][Len(saves[u]) + 1] = sent
      /\ \A i \in DOMAIN saves[u] : saves'[u][i] = saves[u][i]
  BY <1>1, <1>3, <1>4 DEF SetupInv, SetupShape
<1>7. \A v \in Members \ {u} : page'[v] = page[v] /\ saves'[v] = saves[v]
  BY <1>3 DEF SetupInv, SetupShape
<1>8. page[u].stage # "closed"
  BY <1>1 DEF Autosave, MemberInv, PageKnows
<1>9. \A i \in DOMAIN saves'[u] :
          (i \in DOMAIN saves[u] /\ saves'[u][i] = saves[u][i]) \/ (i = Len(saves[u]) + 1 /\ saves'[u][i] = sent)
  BY <1>6
<1>10. AllBased(u)'
  <2>1. \A i \in DOMAIN saves'[u] : Based(saves'[u][i])
    BY <1>1, <1>2, <1>8, <1>9 DEF MemberInv, AllBased, Based
  <2> QED  BY <1>1, <1>3, <1>6, <2>1 DEF MemberInv, AllBased, Based
<1>11. StoredHolds(u)'
  BY <1>1, <1>3, <1>6 DEF MemberInv, StoredHolds, Holds
<1>12. SavesHold(u)'
  <2> SUFFICES ASSUME NEW i \in DOMAIN saves'[u]
               PROVE  /\ Holds(saves'[u][i], kept[u])
                      /\ \A j \in DOMAIN saves'[u] : j < i /\ saves'[u][j].sound => Holds(saves'[u][i], saves'[u][j].facts)
    BY <1>3 DEF SavesHold, Holds
  <2>1. CASE i \in DOMAIN saves[u]
    <3>1. \A j \in DOMAIN saves'[u] : j < i => j \in DOMAIN saves[u]
      BY <1>6, <2>1
    <3> QED  BY <1>1, <1>6, <2>1, <3>1 DEF MemberInv, SavesHold
  <2>2. CASE i = Len(saves[u]) + 1
    <3>1. \A j \in DOMAIN saves'[u] : j < i => j \in DOMAIN saves[u]
      BY <1>6, <2>2
    <3>2. Holds(page[u].form, kept[u]) /\ SaveHeldBy(u, page[u].form)
      BY <1>1, <1>8 DEF MemberInv, PageHolds
    <3> QED  BY <1>2, <1>6, <2>2, <3>1, <3>2 DEF SaveHeldBy, Holds
  <2> QED  BY <1>9, <2>1, <2>2
<1>13. ASSUME NEW form, SaveHeldBy(u, form), sent.sound => Holds(form, sent.facts)
       PROVE  SaveHeldBy(u, form)'
  BY <1>9, <1>13 DEF SaveHeldBy, Holds
<1>14. PostHolds(u)' /\ PageHolds(u)' /\ PageKnows(u)'
  <2>1. post[u] # NoWork => ~sent.sound
    BY <1>1, <1>2 DEF MemberInv, PageKnows
  <2>2. PostHolds(u)'
    BY <1>1, <1>3, <1>13, <2>1 DEF MemberInv, PostHolds, Holds
  <2>3. PageHolds(u)'
    BY <1>1, <1>2, <1>3, <1>6, <1>13 DEF MemberInv, PageHolds, Holds
  <2>4. PageKnows(u)'
    BY <1>1, <1>2, <1>3, <1>6, <1>8, <1>9 DEF MemberInv, PageKnows
  <2> QED  BY <2>2, <2>3, <2>4
<1> QED
  BY <1>3, <1>5, <1>7, <1>10, <1>11, <1>12, <1>14, OthersAreLeft DEF MemberInv

\* Of the saves, the i-th is gone, and the others are as they were or are late.
SavesWithout(u, i) ==
    /\ DOMAIN saves'[u] = 1 .. Len(saves[u]) - 1
    /\ \A j \in 1 .. Len(saves[u]) - 1 :
         LET before == IF j < i THEN saves[u][j] ELSE saves[u][j + 1]
         IN  saves'[u][j] = before \/ (saves'[u][j].version = before.version /\ ~saves'[u][j].sound)

LEMMA FewerSaves ==
    ASSUME SetupInv, NEW u \in Members, NEW i \in DOMAIN saves[u], SavesWithout(u, i),
           NEW j \in DOMAIN saves'[u], saves'[u][j].sound
    PROVE  LET before == IF j < i THEN j ELSE j + 1
           IN  before \in DOMAIN saves[u] /\ before # i /\ saves'[u][j] = saves[u][before]
<1>1. DOMAIN saves[u] = 1 .. Len(saves[u]) /\ Len(saves[u]) \in Nat
  BY DEF SetupInv, SetupShape
<1> QED  BY <1>1 DEF SavesWithout

LEMMA StoreKeepsSetup ==
    ASSUME SetupInv, NEW u \in Members, NEW i \in DOMAIN saves[u], StoreDraft(u, i)
    PROVE  SetupInv'
<1>1. /\ saves[u] \in Seq(Forms) /\ saves[u][i] \in Forms /\ MemberInv(u)
      /\ DOMAIN saves[u] = 1 .. Len(saves[u]) /\ Len(saves[u]) \in Nat
      /\ \A j \in DOMAIN saves[u] : saves[u][j] \in Forms
  BY DEF SetupInv, SetupShape
<1>2. /\ draft' = [draft EXCEPT ![u] = saves[u][i]]
      /\ kept' = [kept EXCEPT ![u] = @ \cup (IF saves[u][i].sound THEN saves[u][i].facts ELSE {})]
      /\ saves' = [saves EXCEPT ![u] = After(saves[u], i)]
      /\ UNCHANGED <<profile, page, post, count>>
  BY DEF StoreDraft
<1>3. SetupShape'
  BY <1>1, <1>2, SaveHandled DEF SetupInv, SetupShape, Forms
<1>4. SavesWithout(u, i) /\ \A j \in DOMAIN saves'[u] : saves'[u][j].sound => j >= i
  <2>1. saves'[u] = After(saves[u], i)
    BY <1>2 DEF SetupInv, SetupShape
  <2>2. \A j \in 1 .. Len(saves[u]) - 1 : j \in DOMAIN saves[u] /\ j + 1 \in DOMAIN saves[u]
    BY <1>1
  <2>3. /\ DOMAIN saves'[u] = 1 .. Len(saves[u]) - 1
        /\ \A j \in 1 .. Len(saves[u]) - 1 : saves'[u][j] = IF j < i THEN Late(saves[u][j]) ELSE saves[u][j + 1]
    BY <1>1, <2>1, SaveHandled
  <2>4. \A j \in DOMAIN saves[u] : ~Late(saves[u][j]).sound /\ Late(saves[u][j]).version = saves[u][j].version
    BY <1>1, LateForms
  <2>5. SavesWithout(u, i)
    BY <2>2, <2>3, <2>4 DEF SavesWithout
  <2>6. \A j \in DOMAIN saves'[u] : saves'[u][j].sound => j >= i
    BY <1>1, <2>2, <2>3, <2>4
  <2> QED  BY <2>5, <2>6
<1>5. /\ draft'[u] = saves[u][i] /\ draft'[u] # NoWork
      /\ kept'[u] = kept[u] \cup (IF saves[u][i].sound THEN saves[u][i].facts ELSE {})
  BY <1>1, <1>2, FirstRunConstants DEF SetupInv, SetupShape, Forms
<1>6. \A v \in Members \ {u} : draft'[v] = draft[v] /\ kept'[v] = kept[v] /\ saves'[v] = saves[v]
  BY <1>2 DEF SetupInv, SetupShape
<1>7. ASSUME NEW j \in DOMAIN saves'[u], saves'[u][j].sound
      PROVE  j + 1 \in DOMAIN saves[u] /\ i < j + 1 /\ saves'[u][j] = saves[u][j + 1]
  BY <1>1, <1>4, <1>7, FewerSaves DEF SavesWithout
<1>8. AllBased(u)'
  <2>1. ASSUME NEW j \in DOMAIN saves'[u] PROVE Based(saves'[u][j])
    <3>1. j \in DOMAIN saves[u] /\ j + 1 \in DOMAIN saves[u] /\ j \in 1 .. Len(saves[u]) - 1
      BY <1>1, <1>4 DEF SavesWithout
    <3>2. PICK m \in DOMAIN saves[u] :
            saves'[u][j] = saves[u][m] \/ (saves'[u][j].version = saves[u][m].version /\ ~saves'[u][j].sound)
      BY <1>4, <3>1 DEF SavesWithout
    <3>3. Based(saves[u][m])
      BY <1>1 DEF MemberInv, AllBased
    <3> QED  BY <3>2, <3>3 DEF Based
  <2> QED  BY <1>1, <1>2, <1>5, <2>1 DEF MemberInv, AllBased, Based
<1>9. StoredHolds(u)'
  BY <1>1, <1>2, <1>5 DEF MemberInv, StoredHolds, SavesHold, PageKnows, Holds
<1>10. SavesHold(u)'
  <2> SUFFICES ASSUME NEW j \in DOMAIN saves'[u]
               PROVE  /\ Holds(saves'[u][j], kept'[u])
                      /\ \A k \in DOMAIN saves'[u] : k < j /\ saves'[u][k].sound => Holds(saves'[u][j], saves'[u][k].facts)
    BY DEF SavesHold, Holds
  <2>1. CASE saves'[u][j].sound
    <3>1. j + 1 \in DOMAIN saves[u] /\ i < j + 1 /\ saves'[u][j] = saves[u][j + 1]
      BY <1>7, <2>1
    <3>2. Holds(saves[u][j + 1], kept[u]) /\ (saves[u][i].sound => Holds(saves[u][j + 1], saves[u][i].facts))
      BY <1>1, <3>1 DEF MemberInv, SavesHold
    <3>3. ASSUME NEW k \in DOMAIN saves'[u], k < j, saves'[u][k].sound PROVE Holds(saves'[u][j], saves'[u][k].facts)
      <4>1. k + 1 \in DOMAIN saves[u] /\ saves'[u][k] = saves[u][k + 1]
        BY <1>7, <3>3
      <4>2. k + 1 < j + 1
        BY <1>1, <1>4, <3>3 DEF SavesWithout
      <4> QED  BY <1>1, <3>1, <3>3, <4>1, <4>2 DEF MemberInv, SavesHold
    <3> QED  BY <1>5, <3>1, <3>2, <3>3 DEF Holds
  <2>2. CASE ~saves'[u][j].sound
    BY <2>2 DEF Holds
  <2> QED  BY <2>1, <2>2
<1>11. PostHolds(u)' /\ PageHolds(u)' /\ PageKnows(u)'
  <2>1. ASSUME NEW form, SaveHeldBy(u, form), Holds(form, kept[u]) PROVE SaveHeldBy(u, form)' /\ Holds(form, kept'[u])
    BY <1>5, <1>7, <2>1 DEF SaveHeldBy, Holds
  <2>2. PostHolds(u)' /\ PageHolds(u)'
    BY <1>1, <1>2, <2>1 DEF MemberInv, PostHolds, PageHolds, Holds, SaveHeldBy
  <2>3. PageKnows(u)'
    BY <1>1, <1>2, <1>7 DEF MemberInv, PageKnows
  <2> QED  BY <2>2, <2>3
<1> QED
  BY <1>2, <1>3, <1>6, <1>8, <1>9, <1>10, <1>11, OthersAreLeft DEF MemberInv

LEMMA LossKeepsSetup ==
    ASSUME SetupInv, NEW u \in Members, NEW i \in DOMAIN saves[u], LoseSave(u, i)
    PROVE  SetupInv'
<1>1. /\ saves[u] \in Seq(Forms) /\ MemberInv(u)
      /\ DOMAIN saves[u] = 1 .. Len(saves[u]) /\ Len(saves[u]) \in Nat
  BY DEF SetupInv, SetupShape
<1>2. saves' = [saves EXCEPT ![u] = RemoveAt(saves[u], i)] /\ UNCHANGED <<profile, draft, kept, page, post, count>>
  BY DEF LoseSave, storedVars
<1>3. /\ RemoveAt(saves[u], i) \in Seq(Forms)
      /\ DOMAIN RemoveAt(saves[u], i) = 1 .. Len(saves[u]) - 1
      /\ \A j \in 1 .. Len(saves[u]) - 1 :
            RemoveAt(saves[u], i)[j] = IF j < i THEN saves[u][j] ELSE saves[u][j + 1]
  BY <1>1, SaveRemoved
<1>4. SetupShape'
  BY <1>2, <1>3 DEF SetupInv, SetupShape
<1>5. saves'[u] = RemoveAt(saves[u], i) /\ \A v \in Members \ {u} : saves'[v] = saves[v]
  BY <1>2 DEF SetupInv, SetupShape
<1> DEFINE Before(j) == IF j < i THEN j ELSE j + 1
<1>6. ASSUME NEW j \in DOMAIN saves'[u]
      PROVE  j \in Int /\ Before(j) \in DOMAIN saves[u] /\ saves'[u][j] = saves[u][Before(j)]
  BY <1>1, <1>3, <1>5
<1>7. ASSUME NEW j \in Int, NEW k \in Int, k < j PROVE Before(k) < Before(j)
  BY <1>1, <1>7
<1> HIDE DEF Before
<1>8. AllBased(u)' /\ StoredHolds(u)'
  BY <1>1, <1>2, <1>6 DEF MemberInv, AllBased, Based, StoredHolds, Holds
<1>9. SavesHold(u)'
  BY <1>1, <1>2, <1>6, <1>7 DEF MemberInv, SavesHold, Holds
<1>10. PostHolds(u)' /\ PageHolds(u)' /\ PageKnows(u)'
  BY <1>1, <1>2, <1>6 DEF MemberInv, PostHolds, PageHolds, PageKnows, SaveHeldBy, Holds
<1> QED  BY <1>2, <1>4, <1>5, <1>8, <1>9, <1>10, OthersAreLeft DEF MemberInv

LEMMA PostingKeepsSetup ==
    ASSUME SetupInv, NEW u \in Members, Finish(u) \/ LosePost(u)
    PROVE  SetupInv'
<1>1. MemberInv(u) /\ page[u] \in [stage : PageStages, form : Forms, unsaved : BOOLEAN]
  BY DEF SetupInv, SetupShape
<1>2. UNCHANGED <<profile, draft, kept, saves, count>>
  BY DEF Finish, LosePost, storedVars
<1>3. CASE Finish(u)
  <2>1. /\ post' = [post EXCEPT ![u] = page[u].form] /\ page' = [page EXCEPT ![u].stage = "posting"]
        /\ page[u].stage = "editing"
    BY <1>3 DEF Finish
  <2>2. SetupShape'
    BY <1>1, <1>2, <2>1 DEF SetupInv, SetupShape, PageStages
  <2>3. /\ page'[u].stage = "posting" /\ page'[u].form = page[u].form /\ post'[u] = page[u].form
        /\ \A v \in Members \ {u} : page'[v] = page[v] /\ post'[v] = post[v]
    BY <2>1 DEF SetupInv, SetupShape
  <2>4. MemberInv(u)'
    BY <1>1, <1>2, <2>1, <2>3
    DEF MemberInv, AllBased, Based, StoredHolds, SavesHold, SaveHeldBy, PostHolds, PageHolds, PageKnows, Holds
  <2> QED  BY <1>2, <2>2, <2>3, <2>4, OthersAreLeft
<1>4. CASE LosePost(u)
  <2>1. post' = [post EXCEPT ![u] = NoWork] /\ page' = Answered(u, "editing") /\ post[u] # NoWork
    BY <1>4 DEF LosePost
  <2>2. SetupShape'
    BY <1>1, <1>2, <2>1 DEF SetupInv, SetupShape, Answered, PageStages
  <2>3. /\ page'[u].stage = IF page[u].stage = "posting" THEN "editing" ELSE page[u].stage
        /\ page'[u].form = page[u].form /\ page'[u].unsaved = page[u].unsaved /\ post'[u] = NoWork
        /\ \A v \in Members \ {u} : page'[v] = page[v] /\ post'[v] = post[v]
    BY <2>1 DEF SetupInv, SetupShape, Answered
  <2>4. MemberInv(u)'
    BY <1>1, <1>2, <2>1, <2>3
    DEF MemberInv, AllBased, Based, StoredHolds, SavesHold, SaveHeldBy, PostHolds, PageHolds, PageKnows, Holds
  <2> QED  BY <1>2, <2>2, <2>3, <2>4, OthersAreLeft
<1> QED  BY <1>3, <1>4

LEMMA PageStepsKeepSetup ==
    ASSUME SetupInv, NEW u \in Members, LoadForm(u) \/ LoadFormInPart(u) \/ Close(u) \/ Edit(u) \/ ClearDraft(u)
    PROVE  SetupInv'
<1>1. MemberInv(u) /\ page[u] \in [stage : PageStages, form : Forms, unsaved : BOOLEAN]
  BY DEF SetupInv, SetupShape
<1>2. DOMAIN count = {"facts", "visits", "saves", "troubles"} /\ count.facts \in Nat
  BY DEF SetupInv, SetupShape
<1>3. CASE LoadForm(u)
  <2>1. DOMAIN count' = DOMAIN count /\ count'.facts = count.facts
    BY <1>2, <1>3 DEF LoadForm, Count
  <2> QED  BY <1>3, <2>1, StartingIsShowable, ShowKeepsSetup DEF LoadForm
<1>4. CASE LoadFormInPart(u)
  <2>1. DOMAIN count' = DOMAIN count /\ count'.facts = count.facts
    BY <1>2, <1>4 DEF LoadFormInPart, Count
  <2>2. \/ Show(u, InsteadOf(u, profile), "editing")
        \/ Show(u, InsteadOf(u, Blank), "editing")
        \/ Show(u, InsteadOf(u, Blank), "unsure")
    BY <1>4 DEF LoadFormInPart
  <2>3. UNCHANGED storedVars /\ UNCHANGED <<saves, post>>
    BY <1>4 DEF LoadFormInPart
  <2>4. Showable(u, InsteadOf(u, profile)) /\ Showable(u, InsteadOf(u, Blank))
    BY InsteadIsShowable
  <2> QED  BY <2>1, <2>2, <2>3, <2>4, ShowKeepsSetup
<1>5. CASE Close(u)
  <2>1. Closed \in [stage : PageStages, form : Forms, unsaved : BOOLEAN] /\ Closed.stage = "closed" /\ ~Closed.unsaved
    BY DEF Closed, Blank, Form, Forms, PageStages
  <2>2. page' = [page EXCEPT ![u] = Closed] /\ page[u].stage # "closed" /\ UNCHANGED <<storedVars, saves, post, count>>
    BY <1>5 DEF Close
  <2> QED  BY <1>2, <2>1, <2>2, PageKeepsSetup
<1>6. CASE Edit(u)
  <2> DEFINE row == [page[u] EXCEPT !.form.facts = @ \cup {count'.facts}, !.unsaved = TRUE]
  <2>1. DOMAIN count' = DOMAIN count /\ count'.facts \in Nat
    BY <1>2, <1>6 DEF Edit, Count
  <2>2. page' = [page EXCEPT ![u] = row] /\ page[u].stage # "closed" /\ UNCHANGED <<storedVars, saves, post>>
    BY <1>6 DEF Edit
  <2>3. row \in [stage : PageStages, form : Forms, unsaved : BOOLEAN]
    BY <1>1, <2>1 DEF Forms
  <2>4. /\ row.stage = page[u].stage /\ row.form.version = page[u].form.version
        /\ row.form.sound = page[u].form.sound /\ page[u].form.facts \subseteq row.form.facts
    BY <1>1 DEF Forms
  <2> HIDE DEF row
  <2> QED  BY <2>1, <2>2, <2>3, <2>4, PageKeepsSetup
<1>7. CASE ClearDraft(u)
  <2>1. page[u].stage = "clearing" /\ UNCHANGED <<profile, kept, saves, post, count>>
    BY <1>7 DEF ClearDraft
  <2>2. CASE draft' = [draft EXCEPT ![u] = NoWork] /\ page' = [page EXCEPT ![u] = Closed]
    <3>1. SetupShape'
      BY <2>1, <2>2 DEF SetupInv, SetupShape, Closed, Blank, Form, Forms, PageStages
    <3>2. /\ page'[u].stage = "closed" /\ ~page'[u].unsaved /\ draft'[u] = NoWork
          /\ \A v \in Members \ {u} : page'[v] = page[v] /\ draft'[v] = draft[v]
      BY <2>2 DEF SetupInv, SetupShape, Closed
    <3>3. MemberInv(u)'
      BY <1>1, <2>1, <3>2
      DEF MemberInv, AllBased, Based, StoredHolds, SavesHold, SaveHeldBy, PostHolds, PageHolds, PageKnows, Holds
    <3> QED  BY <2>1, <3>1, <3>2, <3>3, OthersAreLeft
  <2>3. CASE UNCHANGED draft /\ page' = [page EXCEPT ![u].stage = "editing"]
    <3> DEFINE row == [page[u] EXCEPT !.stage = "editing"]
    <3>1. page' = [page EXCEPT ![u] = row] /\ UNCHANGED <<storedVars, saves, post, count>>
      BY <2>1, <2>3 DEF storedVars
    <3>2. row \in [stage : PageStages, form : Forms, unsaved : BOOLEAN] /\ row.stage = "editing" /\ row.form = page[u].form
      BY <1>1 DEF PageStages
    <3> HIDE DEF row
    <3> QED  BY <1>2, <2>1, <3>1, <3>2, PageKeepsSetup
  <2> QED  BY <1>7, <2>2, <2>3 DEF ClearDraft
<1> QED  BY <1>3, <1>4, <1>5, <1>6, <1>7

\* A completion: the new profile holds what the old one held unless it is not sound.
LEMMA CompletionKeepsSetup == ASSUME SetupInv, NEW u \in Members, Complete(u) PROVE SetupInv'
<1>1. /\ MemberInv(u) /\ profile \in Forms /\ saves[u] \in Seq(Forms)
      /\ page[u] \in [stage : PageStages, form : Forms, unsaved : BOOLEAN]
      /\ post[u] \in Forms
  BY DEF SetupInv, SetupShape, Complete
<1>2. /\ profile' = Form(post[u].facts, profile.version + 1, post[u].sound /\ post[u].version = profile.version)
      /\ draft' = [draft EXCEPT ![u] = NoWork] /\ post' = [post EXCEPT ![u] = NoWork]
      /\ kept' = [kept EXCEPT ![u] = @ \cup (IF post[u].sound THEN post[u].facts ELSE {})]
      /\ saves' = [saves EXCEPT ![u] = [i \in DOMAIN @ |-> Late(@[i])]]
      /\ page' = Answered(u, "clearing") \/ page' = Answered(u, "editing")
      /\ post[u] # NoWork /\ UNCHANGED count
  BY DEF Complete
<1>3. /\ profile' \in Forms /\ profile'.facts = post[u].facts /\ profile'.version = profile.version + 1
      /\ profile'.sound = (post[u].sound /\ post[u].version = profile.version)
  BY <1>1, <1>2 DEF Form, Forms
<1>4. [i \in DOMAIN saves[u] |-> Late(saves[u][i])] \in Seq(Forms)
  <2>1. DOMAIN saves[u] = 1 .. Len(saves[u]) /\ Len(saves[u]) \in Nat /\ \A i \in DOMAIN saves[u] : saves[u][i] \in Forms
    BY <1>1
  <2>2. \A i \in 1 .. Len(saves[u]) : Late(saves[u][i]) \in Forms
    BY <2>1, LateForms
  <2> HIDE DEF Forms
  <2> QED  BY <2>1, <2>2, IsASeq
<1>5. SetupShape'
  <2>1. page' \in [Members -> [stage : PageStages, form : Forms, unsaved : BOOLEAN]]
    <3>1. page \in [Members -> [stage : PageStages, form : Forms, unsaved : BOOLEAN]]
      BY DEF SetupInv, SetupShape
    <3>2. ASSUME NEW stage \in {"clearing", "editing"}
          PROVE  Answered(u, stage) \in [Members -> [stage : PageStages, form : Forms, unsaved : BOOLEAN]]
      BY <1>1, <3>1 DEF Answered, PageStages
    <3> QED  BY <1>2, <3>2
  <2>2. saves' \in [Members -> Seq(Forms)]
    BY <1>2, <1>4 DEF SetupInv, SetupShape
  <2>3. post[u].facts \in SUBSET Nat
    BY <1>1 DEF Forms
  <2> QED  BY <1>2, <1>3, <2>1, <2>2, <2>3 DEF SetupInv, SetupShape
<1>6. /\ draft'[u] = NoWork /\ post'[u] = NoWork
      /\ kept'[u] = kept[u] \cup (IF post[u].sound THEN post[u].facts ELSE {})
      /\ DOMAIN saves'[u] = DOMAIN saves[u]
      /\ \A i \in DOMAIN saves[u] : saves'[u][i] = Late(saves[u][i])
      /\ page'[u].form = page[u].form /\ page'[u].unsaved = page[u].unsaved
      /\ page'[u].stage = page[u].stage \/ (page[u].stage = "posting" /\ page'[u].stage \in {"clearing", "editing"})
  BY <1>1, <1>2 DEF SetupInv, SetupShape, Answered
<1>7. \A v \in Members \ {u} :
          /\ draft'[v] = draft[v] /\ page'[v] = page[v] /\ saves'[v] = saves[v]
          /\ post'[v] = post[v] /\ kept'[v] = kept[v]
  BY <1>1, <1>2 DEF SetupInv, SetupShape, Answered
<1>8. \A form : (Based(form) /\ form.version \in Nat) => Based(form)'
  BY <1>1, <1>3 DEF Based, Forms
<1>9. profile'.sound => profile.sound /\ profile.facts \subseteq profile'.facts
  BY <1>1, <1>2, <1>3 DEF MemberInv, AllBased, Based
<1>10. ASSUME NEW v \in Members PROVE AllBased(v)'
  <2>1. /\ MemberInv(v) /\ draft[v] \in Forms \cup {NoWork} /\ post[v] \in Forms \cup {NoWork} /\ page[v].form \in Forms
        /\ \A i \in DOMAIN saves[v] : saves[v][i] \in Forms
    BY DEF SetupInv, SetupShape
  <2>2. \A form \in Forms : Based(form) => Based(form)'
    BY <1>8 DEF Forms
  <2>3. CASE v # u
    BY <1>7, <2>1, <2>2, <2>3 DEF MemberInv, AllBased
  <2>4. CASE v = u
    <3>1. ASSUME NEW i \in DOMAIN saves[u]
          PROVE  saves'[u][i].version <= profile'.version /\ ~saves'[u][i].sound
      <4>1. /\ Based(saves[u][i]) /\ saves'[u][i] = Late(saves[u][i]) /\ saves[u][i].version \in Nat
            /\ Late(saves[u][i]).version = saves[u][i].version /\ ~Late(saves[u][i]).sound
        BY <1>6, <2>1, <2>4, LateForms DEF MemberInv, AllBased, Forms
      <4> QED  BY <1>1, <1>3, <4>1 DEF Based, Forms
    <3>2. \A i \in DOMAIN saves'[u] : Based(saves[u][i])'
      BY <1>6, <3>1 DEF Based
    <3>3. page'[u].stage # "closed" => page[u].stage # "closed"
      BY <1>6
    <3> QED  BY <1>6, <2>1, <2>2, <2>4, <3>2, <3>3 DEF MemberInv, AllBased
  <2> QED  BY <2>3, <2>4
<1>11. ASSUME NEW v \in Members \ {u} PROVE MemberInv(v)'
  <2>1. MemberInv(v)
    BY DEF SetupInv
  <2>2. StoredHolds(v)'
    BY <1>7, <1>9, <2>1 DEF MemberInv, StoredHolds, Holds
  <2>3. SavesHold(v)' /\ PostHolds(v)' /\ PageHolds(v)' /\ PageKnows(v)'
    BY <1>7, <2>1 DEF MemberInv, SavesHold, SaveHeldBy, PostHolds, PageHolds, PageKnows, Holds
  <2> QED  BY <1>10, <2>2, <2>3 DEF MemberInv
<1>12. MemberInv(u)'
  <2>1. \A i \in DOMAIN saves'[u] : ~saves'[u][i].sound
    <3>1. \A i \in DOMAIN saves[u] : ~Late(saves[u][i]).sound
      BY <1>1, LateForms
    <3> QED  BY <1>6, <3>1
  <2>2. StoredHolds(u)'
    BY <1>1, <1>2, <1>3, <1>6 DEF MemberInv, StoredHolds, PostHolds, Holds
  <2>3. SavesHold(u)' /\ PostHolds(u)'
    BY <1>6, <2>1 DEF SavesHold, PostHolds, Holds
  <2>4. PageHolds(u)' /\ PageKnows(u)'
    BY <1>1, <1>2, <1>6, <2>1 DEF MemberInv, PageHolds, PageKnows, SaveHeldBy, Holds
  <2> QED  BY <1>10, <2>2, <2>3, <2>4 DEF MemberInv
<1>13. profile'.version # 0
  BY <1>1, <1>3 DEF Forms
<1> QED  BY <1>5, <1>11, <1>12, <1>13 DEF SetupInv

LEMMA SetupStays == SetupInv /\ [FirstRunNext]_firstRunVars => SetupInv'
<1> SUFFICES ASSUME SetupInv, [FirstRunNext]_firstRunVars PROVE SetupInv'
  OBVIOUS
<1>1. ASSUME NEW u \in Members, MemberStep(u) PROVE SetupInv'
  BY <1>1, PageStepsKeepSetup, AutosaveKeepsSetup, StoreKeepsSetup, LossKeepsSetup, PostingKeepsSetup,
     CompletionKeepsSetup
  DEF MemberStep
<1>2. ASSUME UNCHANGED <<storedVars, page, saves, post, count>> PROVE SetupInv'
  <2>1. UNCHANGED <<profile, draft, kept, page, saves, post, count>>
    BY <1>2 DEF storedVars
  <2>2. \A v \in Members : MemberInv(v)'
    BY <2>1, MemberFrame DEF SetupInv
  <2> QED  BY <2>1, <2>2 DEF SetupInv, SetupShape, Blank, Form
<1>3. ASSUME NEW v \in Versions, SetActive(v) \/ StartPipeline(v) \/ QueueAtlas(v) \/ FailPipeline(v) \/ AtlasEnds(v)
      PROVE  SetupInv'
  BY <1>2, <1>3 DEF SetActive, StartPipeline, QueueAtlas, FailPipeline, AtlasEnds
<1>4. CASE UNCHANGED firstRunVars
  BY <1>2, <1>4 DEF firstRunVars, storedVars
<1> QED  BY <1>1, <1>3, <1>4 DEF FirstRunNext

LEMMA BriefsStay == SetupInv /\ BriefsInv /\ [FirstRunNext]_firstRunVars => BriefsInv'
<1> SUFFICES ASSUME SetupInv, BriefsInv, [FirstRunNext]_firstRunVars PROVE BriefsInv'
  OBVIOUS
<1>1. CASE UNCHANGED workVars /\ UNCHANGED profile
  BY <1>1 DEF BriefsInv, workVars
<1>2. ASSUME NEW u \in Members, Complete(u) PROVE BriefsInv'
  <2>1. profile'.version = profile.version + 1 /\ profile.version \in Nat
    BY <1>2 DEF Complete, Form, SetupInv, SetupShape, Forms
  <2>2. UNCHANGED pipeline /\ Recommend(profile.version + 1)
    BY <1>2 DEF Complete
  <2>3. ASSUME NEW v \in Versions
        PROVE  /\ DOMAIN brief'[v] = {"life", "active"}
               /\ brief'[v].life # "none" => v <= profile'.version
               /\ brief'[v].life = "new" => v = profile'.version
               /\ pipeline[v] = "queued" => brief'[v].life \in {"running", "ran"}
    <3>1. CASE v = profile.version + 1
      <4>1. brief'[v] = [life |-> "new", active |-> FALSE]
        BY <2>2, <3>1 DEF Recommend
      <4>2. brief[v].life = "none"
        BY <2>1, <3>1 DEF BriefsInv
      <4> QED  BY <2>1, <3>1, <4>1, <4>2 DEF BriefsInv
    <3>2. CASE v # profile.version + 1 /\ Superseded(v)
      <4>1. brief'[v] = [life |-> "gone", active |-> FALSE]
        BY <2>2, <3>2 DEF Recommend
      <4>2. brief[v].life = "new"
        BY <3>2 DEF Superseded
      <4> QED  BY <2>1, <4>1, <4>2 DEF BriefsInv, Versions
    <3>3. CASE v # profile.version + 1 /\ ~Superseded(v)
      <4>1. brief'[v] = brief[v]
        BY <2>2, <3>3 DEF Recommend
      <4> QED  BY <2>1, <3>3, <4>1 DEF BriefsInv, Superseded, Versions
    <3> QED  BY <3>1, <3>2, <3>3
  <2>4. DOMAIN brief' = Versions
    BY <2>2 DEF Recommend
  <2> QED  BY <2>2, <2>3, <2>4 DEF BriefsInv
<1>3. ASSUME NEW u \in Members, MemberStep(u), ~Complete(u) PROVE UNCHANGED workVars /\ UNCHANGED profile
  BY <1>3
  DEF MemberStep, LoadForm, LoadFormInPart, Close, Edit, Autosave, StoreDraft, LoseSave, Finish, LosePost,
      ClearDraft, storedVars
<1>4. ASSUME NEW v \in Versions, SetActive(v) PROVE BriefsInv'
  <2>1. brief' = [brief EXCEPT ![v].active = ~@] /\ UNCHANGED <<pipeline, profile>>
    BY <1>4 DEF SetActive, storedVars
  <2>2. DOMAIN brief' = Versions /\ \A w \in Versions : DOMAIN brief'[w] = DOMAIN brief[w] /\ brief'[w].life = brief[w].life
    BY <2>1 DEF BriefsInv
  <2> QED  BY <2>1, <2>2 DEF BriefsInv
<1>5. ASSUME NEW v \in Versions, StartPipeline(v) \/ FailPipeline(v) PROVE BriefsInv'
  <2>1. UNCHANGED <<brief, profile>> /\ (\E end \in {"created", "failed"} : pipeline' = [pipeline EXCEPT ![v] = end])
    BY <1>5 DEF StartPipeline, FailPipeline, storedVars
  <2> QED  BY <2>1 DEF BriefsInv
<1>6. ASSUME NEW v \in Versions, QueueAtlas(v) \/ AtlasEnds(v) PROVE BriefsInv'
  <2>1. PICK life \in {"running", "ran"} : brief' = [brief EXCEPT ![v].life = life]
    BY <1>6 DEF QueueAtlas, AtlasEnds
  <2>2. UNCHANGED profile /\ pipeline' \in {pipeline, [pipeline EXCEPT ![v] = "queued"]} /\ brief[v].life # "none"
    BY <1>6 DEF QueueAtlas, AtlasEnds, Listed, storedVars
  <2>3. DOMAIN brief' = Versions /\ DOMAIN pipeline' = Versions
    BY <2>1, <2>2 DEF BriefsInv
  <2>4. brief'[v].life = life /\ DOMAIN brief'[v] = {"life", "active"}
    BY <2>1 DEF BriefsInv
  <2>5. \A w \in Versions \ {v} : brief'[w] = brief[w] /\ pipeline'[w] = pipeline[w]
    BY <2>1, <2>2 DEF BriefsInv
  <2> QED  BY <2>2, <2>3, <2>4, <2>5 DEF BriefsInv
<1>7. CASE UNCHANGED firstRunVars
  BY <1>1, <1>7 DEF firstRunVars, workVars
<1> QED  BY <1>1, <1>2, <1>3, <1>4, <1>5, <1>6, <1>7 DEF FirstRunNext

\* Setting up loses nothing: what a member's next visit begins with holds all that the server has
\* taken from them unless the form was told otherwise, and queued research has its brief
\* (onboarding/page.tsx, experience.service.ts update, onboarding.service.ts complete, engine.ts
\* startPipeline) - for any members, and any number of edits, saves, visits and completions.
THEOREM SetupIsAlwaysKept == FirstRunSpec => []SetupIsKept
<1>1. FirstRunInit => SetupInv /\ BriefsInv
  <2>1. FirstRunInit => BriefsInv
    BY DEF FirstRunInit, BriefsInv
  <2> QED  BY <2>1, SetupStarted
<1>2. SetupInv /\ BriefsInv /\ [FirstRunNext]_firstRunVars => (SetupInv /\ BriefsInv)'
  BY SetupStays, BriefsStay
<1>3. SetupInv /\ BriefsInv => SetupIsKept
  <2>1. BriefsInv => BriefsFollowProfile
    BY DEF BriefsInv, BriefsFollowProfile, Listed
  <2> QED  BY <2>1, SetupImplies DEF SetupIsKept
<1> QED  BY <1>1, <1>2, <1>3, PTL DEF FirstRunSpec

-----------------------------------------------------------------------------
(***************************************************************************)
(* The seats of a workspace.  What a request has counted is true until     *)
(* somebody writes, and whoever writes is told on: a request that counted  *)
(* before is no longer current.                                            *)
(***************************************************************************)

InvitationRows ==
    [status : {"none", "asked", "PENDING", "ACCEPTED", "REVOKED"}, email : Invitees \cup {NoRole},
     role : Roles \cup {NoRole}, expired : BOOLEAN, current : BOOLEAN]

TeamShape ==
    /\ role \in [Invitees -> Roles \cup {NoRole}]
    /\ invitation \in [Invitations -> InvitationRows]
    /\ \A i \in Invitations :
         invitation[i].status # "none" => invitation[i].email \in Invitees /\ invitation[i].role \in Roles
    /\ joining \subseteq With("PENDING")
    /\ overtaken \in [asked : Nat, joined : Nat]

\* The pending invitations of people who are no members.
Promised == {i \in With("PENDING") : role[invitation[i].email] = NoRole}

\* What its request has counted is true as long as it is current.
CountHolds(i) ==
    invitation[i].current =>
        /\ invitation[i].status = "asked" => SeatsUsed(invitation[i].email) < Seats
        /\ i \in joining => MemberCount < Seats

CountsHold == \A i \in Invitations : CountHolds(i)

TeamInv == TeamShape /\ CountsHold /\ SeatsAreKept

\* The sets that are counted are finite.
LEMMA SeatsAreCounted ==
    ASSUME TeamShape
    PROVE  /\ IsFiniteSet(Joined) /\ IsFiniteSet(With("PENDING")) /\ IsFiniteSet(Promised)
           /\ MemberCount \in Nat /\ Cardinality(Promised) \in Nat
           /\ \A p : IsFiniteSet(With("PENDING") \ To(p)) /\ Cardinality(With("PENDING") \ To(p)) \in Nat
<1>1. IsFiniteSet(Invitations)
  BY FS_Interval, TeamConstants DEF Invitations
<1>2. IsFiniteSet(Joined)
  BY FS_Subset, TeamConstants DEF Joined
<1>3. ASSUME NEW S \in SUBSET Invitations PROVE IsFiniteSet(S) /\ Cardinality(S) \in Nat
  BY <1>1, FS_Subset, FS_CardinalityType
<1>4. /\ With("PENDING") \in SUBSET Invitations /\ Promised \in SUBSET Invitations
      /\ \A p : With("PENDING") \ To(p) \in SUBSET Invitations
  BY DEF With, Promised
<1> QED  BY <1>2, <1>3, <1>4, FS_CardinalityType DEF MemberCount

LEMMA KeptMeans ==
    SeatsAreKept <=> /\ MemberCount + Cardinality(Promised) <= Seats + overtaken.asked
                     /\ MemberCount <= Seats + overtaken.joined
BY DEF SeatsAreKept, Promised

\* Writing an invitation tells on the counts of the other requests.
LEMMA OutdatedRows ==
    ASSUME TeamShape, NEW i \in Invitations, invitation[i].status # "none",
           NEW change \in {"PENDING", "ACCEPTED"}, NEW j \in Invitations
    PROVE  /\ Outdated(i, change)[j] \in InvitationRows
           /\ Outdated(i, change)[j].email = invitation[j].email /\ Outdated(i, change)[j].role = invitation[j].role
           /\ Outdated(i, change)[j].status = IF j = i THEN change ELSE invitation[j].status
           /\ j # i /\ (invitation[j].status = "asked" \/ j \in joining) => ~Outdated(i, change)[j].current
BY DEF TeamShape, Outdated, InvitationRows

\* Fewer pending invitations of the same people, and nobody new.
LEMMA FewerSeats ==
    ASSUME TeamShape, TeamShape', UNCHANGED role, With("PENDING")' \subseteq With("PENDING"),
           \A i \in With("PENDING")' : invitation'[i].email = invitation[i].email
    PROVE  /\ MemberCount' = MemberCount
           /\ Cardinality(Promised') \in Nat /\ Cardinality(Promised') <= Cardinality(Promised)
           /\ \A p \in Invitees : SeatsUsed(p) \in Nat /\ SeatsUsed(p)' \in Nat /\ SeatsUsed(p)' <= SeatsUsed(p)
<1>1. MemberCount' = MemberCount
  BY DEF MemberCount, Joined
<1>2. Cardinality(Promised') \in Nat /\ Cardinality(Promised') <= Cardinality(Promised)
  <2>1. Promised' \subseteq Promised
    BY DEF Promised
  <2> QED  BY <2>1, SeatsAreCounted, FS_Subset, FS_CardinalityType
<1>3. ASSUME NEW p \in Invitees PROVE SeatsUsed(p) \in Nat /\ SeatsUsed(p)' \in Nat /\ SeatsUsed(p)' <= SeatsUsed(p)
  <2>1. (With("PENDING") \ To(p))' \subseteq With("PENDING") \ To(p)
    BY DEF To, With
  <2>2. /\ Cardinality((With("PENDING") \ To(p))') <= Cardinality(With("PENDING") \ To(p))
        /\ Cardinality((With("PENDING") \ To(p))') \in Nat /\ Cardinality(With("PENDING") \ To(p)) \in Nat
    BY <2>1, SeatsAreCounted, FS_Subset, FS_CardinalityType
  <2> QED  BY <1>1, <2>2, SeatsAreCounted DEF SeatsUsed
<1> QED  BY <1>1, <1>2, <1>3

\* One row changes, nobody joins, and no invitation becomes pending.
LEMMA RowChanges ==
    ASSUME TeamInv, NEW i \in Invitations, NEW row \in InvitationRows,
           invitation' = [invitation EXCEPT ![i] = row], UNCHANGED <<role, overtaken>>,
           joining' \subseteq With("PENDING")', joining' \ {i} \subseteq joining,
           row.status # "none" => row.email \in Invitees /\ row.role \in Roles,
           row.status = "PENDING" => invitation[i].status = "PENDING" /\ row.email = invitation[i].email,
           row.status = "asked" /\ row.current => SeatsUsed(row.email) < Seats,
           i \in joining' /\ row.current => MemberCount < Seats
    PROVE  TeamInv'
<1>1. TeamShape /\ CountsHold /\ SeatsAreKept
  BY DEF TeamInv
<1>2. invitation'[i] = row /\ \A j \in Invitations \ {i} : invitation'[j] = invitation[j]
  BY <1>1 DEF TeamShape
<1>3. TeamShape'
  <2>1. invitation' \in [Invitations -> InvitationRows]
    BY <1>1 DEF TeamShape
  <2> HIDE DEF InvitationRows
  <2> QED  BY <1>1, <1>2, <2>1 DEF TeamShape
<1>4. With("PENDING")' \subseteq With("PENDING") /\ \A j \in With("PENDING")' : invitation'[j].email = invitation[j].email
  BY <1>2 DEF With
<1>5. /\ MemberCount' = MemberCount
      /\ Cardinality(Promised') \in Nat /\ Cardinality(Promised') <= Cardinality(Promised)
      /\ \A p \in Invitees : SeatsUsed(p) \in Nat /\ SeatsUsed(p)' \in Nat /\ SeatsUsed(p)' <= SeatsUsed(p)
  BY <1>1, <1>3, <1>4, FewerSeats
<1>6. SeatsAreKept'
  <2>1. MemberCount + Cardinality(Promised) <= Seats + overtaken.asked /\ MemberCount <= Seats + overtaken.joined
    BY <1>1, KeptMeans
  <2>2. /\ MemberCount \in Nat /\ Cardinality(Promised) \in Nat /\ Seats \in Nat
        /\ overtaken.asked \in Nat /\ overtaken.joined \in Nat
    BY <1>1, SeatsAreCounted, TeamConstants DEF TeamShape
  <2>3. MemberCount' + Cardinality(Promised') <= Seats + overtaken'.asked /\ MemberCount' <= Seats + overtaken'.joined
    BY <1>5, <2>1, <2>2
  <2> QED  BY <2>3 DEF SeatsAreKept, Promised
<1>7. Seats \in Nat
  BY TeamConstants
<1>8. ASSUME NEW j \in Invitations PROVE CountHolds(j)'
  <2>1. invitation'[j].status = "asked" => invitation'[j].email \in Invitees
    BY <1>3 DEF TeamShape
  <2>2. \A p \in Invitees : SeatsUsed(p) < Seats => SeatsUsed(p)' < Seats
    BY <1>5, <1>7
  <2>3. CASE j = i
    BY <1>2, <1>5, <2>1, <2>2, <2>3 DEF CountHolds
  <2>4. CASE j # i
    BY <1>1, <1>2, <1>5, <2>1, <2>2, <2>4 DEF CountsHold, CountHolds
  <2> QED  BY <2>3, <2>4
<1> QED  BY <1>3, <1>6, <1>8 DEF TeamInv, CountsHold

LEMMA SmallTeamSteps ==
    ASSUME TeamInv, NEW i \in Invitations,
           \/ \E p \in Invitees, r \in Roles : AskInvitation(i, p, r)
           \/ RevokeInvitation(i) \/ Expire(i) \/ CountMembers(i) \/ GiveUp(i)
    PROVE  TeamInv'
<1>1. TeamShape /\ CountsHold /\ invitation[i] \in InvitationRows
  BY DEF TeamInv, TeamShape
<1>2. joining \subseteq With("PENDING") /\ \A j \in Invitations : j \in With("PENDING") <=> invitation[j].status = "PENDING"
  BY <1>1 DEF TeamShape, With
<1>3. invitation[i].status # "none" => invitation[i].email \in Invitees /\ invitation[i].role \in Roles
  BY <1>1 DEF TeamShape
<1>4. ASSUME NEW row, invitation' = [invitation EXCEPT ![i] = row]
      PROVE  With("PENDING")' = (With("PENDING") \ {i}) \cup (IF row.status = "PENDING" THEN {i} ELSE {})
  BY <1>1, <1>4 DEF TeamShape, With
<1>5. i \in joining => CountHolds(i)
  BY <1>1 DEF CountsHold
<1>6. ASSUME NEW p \in Invitees, NEW r \in Roles, AskInvitation(i, p, r) PROVE TeamInv'
  <2>2. /\ invitation' = [invitation EXCEPT ![i] = [NoInvitation EXCEPT !.status = "asked", !.email = p, !.role = r]]
        /\ UNCHANGED <<role, joining, overtaken>> /\ SeatsUsed(p) < Seats /\ invitation[i].status = "none"
    BY <1>6, Zenon DEF AskInvitation
  <2> DEFINE row == [NoInvitation EXCEPT !.status = "asked", !.email = p, !.role = r]
  <2>1. row \in InvitationRows /\ row.status = "asked" /\ row.email = p /\ row.role = r /\ row.current
    BY DEF NoInvitation, InvitationRows
  <2>3. invitation' = [invitation EXCEPT ![i] = row]
    BY <2>2
  <2> HIDE DEF row, InvitationRows
  <2>4. joining' \subseteq With("PENDING")' /\ i \notin joining'
    BY <1>2, <1>4, <2>1, <2>2, <2>3
  <2> QED  BY <2>1, <2>2, <2>3, <2>4, RowChanges
<1>7. CASE RevokeInvitation(i)
  <2> DEFINE row == [invitation[i] EXCEPT !.status = "REVOKED"]
  <2>1. row \in InvitationRows /\ row.status = "REVOKED" /\ row.email = invitation[i].email /\ row.role = invitation[i].role
    BY <1>1 DEF InvitationRows
  <2>2. /\ invitation' = [invitation EXCEPT ![i] = row] /\ UNCHANGED <<role, joining, overtaken>>
        /\ i \notin joining /\ invitation[i].status = "PENDING"
    BY <1>7 DEF RevokeInvitation, Revocable
  <2> HIDE DEF row, InvitationRows
  <2> QED  BY <1>2, <1>3, <1>4, <2>1, <2>2, RowChanges
<1>8. CASE Expire(i)
  <2> DEFINE row == [invitation[i] EXCEPT !.expired = TRUE]
  <2>1. /\ row \in InvitationRows /\ row.status = invitation[i].status /\ row.email = invitation[i].email
        /\ row.role = invitation[i].role /\ row.current = invitation[i].current
    BY <1>1 DEF InvitationRows
  <2>2. /\ invitation' = [invitation EXCEPT ![i] = row] /\ UNCHANGED <<role, joining, overtaken>>
        /\ invitation[i].status = "PENDING"
    BY <1>8 DEF Expire
  <2> HIDE DEF row, InvitationRows
  <2> QED  BY <1>2, <1>3, <1>4, <1>5, <2>1, <2>2, RowChanges DEF CountHolds
<1>9. CASE CountMembers(i)
  <2> DEFINE row == [invitation[i] EXCEPT !.current = TRUE]
  <2>1. /\ row \in InvitationRows /\ row.status = invitation[i].status /\ row.email = invitation[i].email
        /\ row.role = invitation[i].role
    BY <1>1 DEF InvitationRows
  <2>2. /\ invitation' = [invitation EXCEPT ![i] = row] /\ UNCHANGED <<role, overtaken>>
        /\ joining' = joining \cup {i} /\ invitation[i].status = "PENDING" /\ MemberCount < Seats
    BY <1>9 DEF CountMembers
  <2> HIDE DEF row, InvitationRows
  <2> QED  BY <1>2, <1>3, <1>4, <2>1, <2>2, RowChanges
<1>10. CASE GiveUp(i)
  <2>1. /\ invitation' = [invitation EXCEPT ![i] = invitation[i]] /\ UNCHANGED <<role, overtaken>>
        /\ joining' = joining \ {i} /\ invitation[i].status = "PENDING"
    BY <1>1, <1>2, <1>10 DEF GiveUp, TeamShape
  <2> HIDE DEF InvitationRows
  <2> QED  BY <1>1, <1>2, <1>3, <1>4, <2>1, RowChanges
<1> QED  BY <1>6, <1>7, <1>8, <1>9, <1>10

LEMMA OneMoreAtMost ==
    ASSUME NEW S, NEW T, NEW x, IsFiniteSet(S), T \subseteq S \cup {x}
    PROVE  IsFiniteSet(T) /\ Cardinality(T) \in Nat /\ Cardinality(T) <= Cardinality(S) + 1
<1>1. /\ IsFiniteSet(S \cup {x}) /\ Cardinality(S) \in Nat
      /\ Cardinality(S \cup {x}) = IF x \in S THEN Cardinality(S) ELSE Cardinality(S) + 1
  BY FS_AddElement, FS_CardinalityType
<1>2. IsFiniteSet(T) /\ Cardinality(T) <= Cardinality(S \cup {x})
  BY <1>1, FS_Subset
<1> QED  BY <1>1, <1>2, FS_CardinalityType

\* A request inserts its invitation: those to the same address are replaced.
LEMMA InsertionKeepsSeats == ASSUME TeamInv, NEW i \in Invitations, InsertInvitation(i) PROVE TeamInv'
<1> DEFINE to == invitation[i].email
           replaced == With("PENDING") \cap To(to)
<1>1. TeamShape /\ CountsHold /\ SeatsAreKept
  BY DEF TeamInv
<1>2. /\ invitation[i].status = "asked" /\ to \in Invitees /\ invitation[i].role \in Roles
      /\ i \notin With("PENDING") /\ i \notin joining
  BY <1>1 DEF InsertInvitation, TeamShape, With
<1>3. /\ replaced \cap joining = {}
      /\ overtaken' = [overtaken EXCEPT !.asked = @ + IF invitation[i].current THEN 0 ELSE 1]
      /\ invitation' = [j \in Invitations |->
             IF j \in replaced THEN [invitation[j] EXCEPT !.status = "REVOKED"] ELSE Outdated(i, "PENDING")[j]]
      /\ UNCHANGED <<role, joining>>
  BY DEF InsertInvitation
<1>4. ASSUME NEW j \in Invitations
      PROVE  /\ invitation'[j] \in InvitationRows
             /\ invitation'[j].email = invitation[j].email /\ invitation'[j].role = invitation[j].role
             /\ invitation'[j].status = IF j = i THEN "PENDING" ELSE IF j \in replaced THEN "REVOKED" ELSE invitation[j].status
             /\ j # i /\ (invitation[j].status = "asked" \/ j \in joining) => ~invitation'[j].current
  <2>1. CASE j \in replaced
    <3>1. invitation'[j] = [invitation[j] EXCEPT !.status = "REVOKED"] /\ invitation[j].status = "PENDING" /\ j \notin joining
      BY <1>3, <2>1 DEF With
    <3>2. invitation[j] \in InvitationRows
      BY <1>1 DEF TeamShape
    <3> QED  BY <1>2, <2>1, <3>1, <3>2 DEF InvitationRows
  <2>2. CASE j \notin replaced
    <3>1. invitation'[j] = Outdated(i, "PENDING")[j]
      BY <1>3, <2>2
    <3> QED  BY <1>1, <1>2, <2>2, <3>1, OutdatedRows
  <2> QED  BY <2>1, <2>2
<1> HIDE DEF replaced, InvitationRows
<1>5. With("PENDING")' = (With("PENDING") \ replaced) \cup {i}
  BY <1>2, <1>4 DEF With, replaced
<1>6. TeamShape'
  <2>1. invitation' \in [Invitations -> InvitationRows]
    BY <1>3, <1>4
  <2>2. \A j \in Invitations :
          invitation'[j].status # "none" => invitation'[j].email \in Invitees /\ invitation'[j].role \in Roles
    BY <1>1, <1>2, <1>4 DEF TeamShape, replaced, With
  <2>3. joining' \subseteq With("PENDING")'
    BY <1>1, <1>3, <1>5 DEF TeamShape
  <2>4. overtaken' \in [asked : Nat, joined : Nat]
    BY <1>1, <1>3 DEF TeamShape
  <2> QED  BY <1>1, <1>3, <2>1, <2>2, <2>3, <2>4 DEF TeamShape
<1>7. CountsHold'
  <2>1. ASSUME NEW j \in Invitations PROVE CountHolds(j)'
    <3>1. CASE j = i
      <4>1. invitation'[j].status = "PENDING" /\ j \notin joining'
        BY <1>2, <1>3, <1>4, <3>1
      <4> QED  BY <4>1 DEF CountHolds
    <3>2. CASE j # i
      <4>1. /\ invitation[j].status = "asked" \/ j \in joining => ~invitation'[j].current
            /\ invitation'[j].status = "asked" => invitation[j].status = "asked"
        BY <1>4, <3>2
      <4> QED  BY <1>3, <4>1 DEF CountHolds
    <3> QED  BY <3>1, <3>2
  <2> QED  BY <2>1 DEF CountsHold
<1>8. /\ MemberCount \in Nat /\ Cardinality(Promised) \in Nat /\ Seats \in Nat
      /\ Cardinality(With("PENDING") \ To(to)) \in Nat
      /\ IsFiniteSet(Promised) /\ IsFiniteSet(With("PENDING") \ To(to))
      /\ overtaken.asked \in Nat /\ overtaken.joined \in Nat
  BY <1>1, SeatsAreCounted, TeamConstants DEF TeamShape
<1>9. MemberCount' = MemberCount
  BY <1>3 DEF MemberCount, Joined
<1>10. MemberCount + Cardinality(Promised) <= Seats + overtaken.asked /\ MemberCount <= Seats + overtaken.joined
  BY <1>1, KeptMeans
<1>11. MemberCount + Cardinality(Promised') <= Seats + overtaken'.asked
  <2>1. CASE invitation[i].current
    <3>1. Promised' \subseteq (With("PENDING") \ To(to)) \cup {i}
      BY <1>5 DEF Promised, replaced
    <3>2. Cardinality(Promised') \in Nat /\ Cardinality(Promised') <= Cardinality(With("PENDING") \ To(to)) + 1
      BY <1>8, <3>1, OneMoreAtMost
    <3>3. MemberCount + Cardinality(With("PENDING") \ To(to)) < Seats
      BY <1>1, <1>2, <2>1 DEF CountsHold, CountHolds, SeatsUsed
    <3>4. overtaken'.asked = overtaken.asked
      BY <1>1, <1>3, <2>1 DEF TeamShape
    <3> QED  BY <1>8, <3>2, <3>3, <3>4
  <2>2. CASE ~invitation[i].current
    <3>1. Promised' \subseteq Promised \cup {i}
      <4>1. ASSUME NEW j \in Promised', j # i PROVE j \in Promised
        <5>1. j \in Invitations /\ j \in With("PENDING") /\ role[invitation'[j].email] = NoRole
          BY <1>3, <1>5, <4>1 DEF Promised, With
        <5> QED  BY <1>4, <5>1 DEF Promised
      <4> QED  BY <4>1
    <3>2. Cardinality(Promised') \in Nat /\ Cardinality(Promised') <= Cardinality(Promised) + 1
      BY <1>8, <3>1, OneMoreAtMost
    <3>3. overtaken'.asked = overtaken.asked + 1
      BY <1>1, <1>3, <2>2 DEF TeamShape
    <3> QED  BY <1>8, <1>10, <3>2, <3>3
  <2> QED  BY <2>1, <2>2
<1>12. overtaken'.joined = overtaken.joined
  BY <1>1, <1>3 DEF TeamShape
<1>13. SeatsAreKept'
  BY <1>3, <1>9, <1>10, <1>11, <1>12 DEF SeatsAreKept, Promised
<1> QED  BY <1>6, <1>7, <1>13 DEF TeamInv

\* Somebody joins: a person who was promised a seat takes it, or a member gets another role.
LEMMA JoiningKeepsSeats == ASSUME TeamInv, NEW i \in Invitations, Join(i) PROVE TeamInv'
<1> DEFINE p == invitation[i].email
<1>1. TeamShape /\ CountsHold /\ SeatsAreKept
  BY DEF TeamInv
<1>2. i \in With("PENDING") /\ invitation[i].status = "PENDING" /\ p \in Invitees /\ invitation[i].role \in Roles
  BY <1>1 DEF Join, TeamShape, With
<1>3. /\ role' = [role EXCEPT ![p] = invitation[i].role] /\ invitation' = Outdated(i, "ACCEPTED")
      /\ joining' = joining \ {i} /\ i \in joining
      /\ overtaken' = [overtaken EXCEPT !.joined = @ + IF invitation[i].current THEN 0 ELSE 1]
  BY DEF Join
<1>4. ASSUME NEW j \in Invitations
      PROVE  /\ invitation'[j] \in InvitationRows
             /\ invitation'[j].email = invitation[j].email /\ invitation'[j].role = invitation[j].role
             /\ invitation'[j].status = IF j = i THEN "ACCEPTED" ELSE invitation[j].status
             /\ j # i /\ (invitation[j].status = "asked" \/ j \in joining) => ~invitation'[j].current
  BY <1>1, <1>2, <1>3, OutdatedRows
<1> HIDE DEF InvitationRows
<1>5. With("PENDING")' = With("PENDING") \ {i}
  BY <1>4 DEF With
<1>6. TeamShape'
  <2>1. invitation' \in [Invitations -> InvitationRows]
    <3> DEFINE written(j) ==
            IF j = i THEN [invitation[j] EXCEPT !.status = "ACCEPTED", !.current = TRUE]
            ELSE IF invitation[j].status = "asked" \/ j \in joining
            THEN [invitation[j] EXCEPT !.current = FALSE]
            ELSE invitation[j]
    <3>1. invitation' = [j \in Invitations |-> written(j)]
      BY <1>3, Zenon DEF Outdated
    <3> HIDE DEF written
    <3> QED  BY <1>4, <3>1
  <2>2. \A j \in Invitations :
          invitation'[j].status # "none" => invitation'[j].email \in Invitees /\ invitation'[j].role \in Roles
    BY <1>1, <1>2, <1>4 DEF TeamShape
  <2>3. joining' \subseteq With("PENDING")'
    BY <1>1, <1>3, <1>5 DEF TeamShape
  <2>4. overtaken' \in [asked : Nat, joined : Nat]
    BY <1>1, <1>3 DEF TeamShape
  <2>5. role' \in [Invitees -> Roles \cup {NoRole}]
    BY <1>1, <1>2, <1>3 DEF TeamShape
  <2> QED  BY <2>1, <2>2, <2>3, <2>4, <2>5 DEF TeamShape
<1>7. CountsHold'
  <2>1. ASSUME NEW j \in Invitations PROVE CountHolds(j)'
    <3>1. CASE j = i
      BY <1>3, <1>4, <3>1 DEF CountHolds
    <3>2. CASE j # i
      <4>1. /\ invitation[j].status = "asked" \/ j \in joining => ~invitation'[j].current
            /\ invitation'[j].status = invitation[j].status
        BY <1>4, <3>2
      <4> QED  BY <1>3, <4>1 DEF CountHolds
    <3> QED  BY <3>1, <3>2
  <2> QED  BY <2>1 DEF CountsHold
<1>8. /\ MemberCount \in Nat /\ Cardinality(Promised) \in Nat /\ Seats \in Nat
      /\ IsFiniteSet(Promised) /\ IsFiniteSet(Joined) /\ Cardinality(Joined) \in Nat
      /\ overtaken.asked \in Nat /\ overtaken.joined \in Nat
      /\ overtaken'.asked = overtaken.asked
      /\ overtaken'.joined = overtaken.joined + IF invitation[i].current THEN 0 ELSE 1
  BY <1>1, <1>3, SeatsAreCounted, FS_CardinalityType, TeamConstants DEF TeamShape
<1>9. MemberCount + Cardinality(Promised) <= Seats + overtaken.asked /\ MemberCount <= Seats + overtaken.joined
  BY <1>1, KeptMeans
<1>10. Joined' = Joined \cup {p}
  BY <1>1, <1>2, <1>3, TeamConstants DEF TeamShape, Joined
<1>11. MemberCount' = MemberCount + IF p \in Joined THEN 0 ELSE 1
  <2>1. Cardinality(Joined') = IF p \in Joined THEN Cardinality(Joined) ELSE Cardinality(Joined) + 1
    BY <1>8, <1>10, FS_AddElement
  <2> QED  BY <1>8, <2>1 DEF MemberCount
<1>12. Promised' \subseteq Promised \ {i}
  <2>1. ASSUME NEW j \in Promised' PROVE j \in Promised \ {i}
    <3>1. j \in Invitations /\ j \in With("PENDING") /\ j # i /\ role'[invitation[j].email] = NoRole
      BY <1>4, <1>5, <2>1 DEF Promised, With
    <3>2. invitation[j].email \in Invitees
      BY <1>1, <3>1 DEF TeamShape, With
    <3>3. role[invitation[j].email] = NoRole
      BY <1>1, <1>2, <1>3, <3>1, <3>2, TeamConstants DEF TeamShape
    <3> QED  BY <3>1, <3>3 DEF Promised
  <2> QED  BY <2>1
<1>13. /\ Cardinality(Promised') \in Nat
       /\ Cardinality(Promised') + (IF p \in Joined THEN 0 ELSE 1) <= Cardinality(Promised)
  <2>1. /\ IsFiniteSet(Promised \ {i})
        /\ Cardinality(Promised \ {i}) = IF i \in Promised THEN Cardinality(Promised) - 1 ELSE Cardinality(Promised)
    BY <1>8, FS_RemoveElement
  <2>2. Cardinality(Promised') \in Nat /\ Cardinality(Promised') <= Cardinality(Promised \ {i})
    BY <1>12, <2>1, FS_Subset, FS_CardinalityType
  <2>3. p \notin Joined => i \in Promised
    BY <1>2 DEF Promised, Joined
  <2> QED  BY <1>8, <2>1, <2>2, <2>3
<1>14. invitation[i].current => MemberCount < Seats
  BY <1>1, <1>2, <1>3 DEF CountsHold, CountHolds, With
<1>15. MemberCount' + Cardinality(Promised') <= Seats + overtaken'.asked /\ MemberCount' <= Seats + overtaken'.joined
  BY <1>8, <1>9, <1>11, <1>13, <1>14
<1>16. SeatsAreKept'
  BY <1>15 DEF SeatsAreKept, Promised
<1> QED  BY <1>6, <1>7, <1>16 DEF TeamInv

LEMMA TeamStays == TeamInv /\ [TeamNext]_teamVars => TeamInv'
<1> SUFFICES ASSUME TeamInv, [TeamNext]_teamVars PROVE TeamInv'
  OBVIOUS
<1>1. ASSUME NEW i \in Invitations, InvitationStep(i) PROVE TeamInv'
  BY <1>1, SmallTeamSteps, InsertionKeepsSeats, JoiningKeepsSeats DEF InvitationStep
<1>2. CASE UNCHANGED teamVars
  BY <1>2
  DEF teamVars, TeamInv, TeamShape, CountsHold, CountHolds, SeatsAreKept, SeatsUsed, MemberCount, Joined, With, To
<1> QED  BY <1>1, <1>2 DEF TeamNext

\* No step touches an invitation that was revoked or accepted.
LEMMA EndsAreFinal ==
    ASSUME TeamInv, [TeamNext]_teamVars, NEW j \in Invitations, invitation[j].status \in {"REVOKED", "ACCEPTED"}
    PROVE  invitation'[j] = invitation[j]
<1>1. TeamShape /\ j \notin With("PENDING") /\ j \notin joining /\ invitation[j].status \notin {"none", "asked", "PENDING"}
  BY DEF TeamInv, TeamShape, With
<1>2. CASE UNCHANGED teamVars
  BY <1>2 DEF teamVars
<1>3. ASSUME NEW i \in Invitations, InvitationStep(i) PROVE invitation'[j] = invitation[j]
  <2>1. \A change : j # i => Outdated(i, change)[j] = invitation[j]
    BY <1>1 DEF Outdated
  <2>2. CASE InsertInvitation(i)
    <3>1. invitation[i].status = "asked" /\ j \notin With("PENDING") \cap To(invitation[i].email)
      BY <1>1, <2>2 DEF InsertInvitation
    <3>2. invitation'[j] = Outdated(i, "PENDING")[j]
      BY <2>2, <3>1 DEF InsertInvitation
    <3> QED  BY <1>1, <2>1, <3>1, <3>2
  <2>3. CASE Join(i)
    <3>1. i \in joining /\ invitation' = Outdated(i, "ACCEPTED")
      BY <2>3 DEF Join
    <3> QED  BY <1>1, <2>1, <3>1
  <2>4. ASSUME NEW p \in Invitees, NEW r \in Roles, AskInvitation(i, p, r) PROVE invitation'[j] = invitation[j]
    <3>1. /\ invitation[i].status = "none"
          /\ \E row : invitation' = [invitation EXCEPT ![i] = row]
      BY <2>4, Zenon DEF AskInvitation
    <3> QED  BY <1>1, <3>1 DEF TeamShape
  <2>5. CASE RevokeInvitation(i)
    BY <1>1, <2>5 DEF RevokeInvitation, Revocable, TeamShape
  <2>6. CASE Expire(i)
    BY <1>1, <2>6 DEF Expire, TeamShape
  <2>7. CASE CountMembers(i)
    BY <1>1, <2>7 DEF CountMembers, TeamShape
  <2>8. CASE GiveUp(i)
    BY <2>8 DEF GiveUp
  <2> QED  BY <1>3, <2>2, <2>3, <2>4, <2>5, <2>6, <2>7, <2>8 DEF InvitationStep
<1> QED  BY <1>2, <1>3 DEF TeamNext

\* The seats are kept, up to the requests whose count another one overtook, and an invitation that
\* was used or revoked is never used again (team.service.ts createInvitation and revokeInvitation,
\* auth.service.ts acceptInvitation) - for any addresses, roles, seats and number of invitations.
THEOREM TeamIsAlwaysInvited == TeamSpec => TeamIsInvited
<1>1. TeamInit => TeamInv
  <2> SUFFICES ASSUME TeamInit PROVE TeamInv
    OBVIOUS
  <2>1. TeamShape
    BY DEF TeamInit, TeamShape, NoInvitation, InvitationRows, With
  <2>2. CountsHold
    BY DEF TeamInit, CountsHold, CountHolds, NoInvitation
  <2>3. Joined = {} /\ Promised = {} /\ overtaken.asked = 0 /\ overtaken.joined = 0
    BY DEF TeamInit, Joined, Promised, With, NoInvitation
  <2>4. MemberCount = 1 /\ Cardinality(Promised) = 0
    BY <2>3, FS_EmptySet DEF MemberCount
  <2>5. SeatsAreKept
    BY <2>3, <2>4, KeptMeans, TeamConstants
  <2> QED  BY <2>1, <2>2, <2>5 DEF TeamInv
<1>2. TeamInv /\ [TeamNext]_teamVars => TeamInv'
  BY TeamStays
<1>3. TeamInv /\ [TeamNext]_teamVars =>
        [\A i \in Invitations :
            invitation[i].status \in {"REVOKED", "ACCEPTED"} => invitation'[i] = invitation[i]]_teamVars
  BY EndsAreFinal
<1>4. TeamInv => SeatsAreKept
  BY DEF TeamInv
<1> QED  BY <1>1, <1>2, <1>3, <1>4, PTL DEF TeamSpec, TeamIsInvited, InvitationsEndOnce

=============================================================================

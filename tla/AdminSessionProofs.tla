------------------------- MODULE AdminSessionProofs -------------------------
(***************************************************************************)
(* How old an admin session can get, for every choice of the lifetimes,    *)
(* every number of wallets, rotations, wallet switches and lost answers.   *)
(*                                                                         *)
(* Inductive invariant: the times a login in progress carries are in the   *)
(* order of its steps, each within the lifetime that bounds it; a cookie   *)
(* keeps their sum.                                                        *)
(***************************************************************************)
EXTENDS AdminSession, TLAPS

ChainInv ==
    /\ now \in Nat
    /\ admin \in Wallets /\ wallet \in Wallets
    /\ lastAdmin \in [Wallets -> Int]
    /\ lastAdmin[admin] = now
    /\ \A w \in Wallets : lastAdmin[w] <= now

LoginInv ==
    /\ login.at = "sign" =>
        /\ login.who \in Wallets /\ login.issued \in Nat
        /\ login.issued <= now
    /\ login.at = "verify" =>
        /\ login.who \in Wallets /\ login.issued \in Nat /\ login.signed.on \in Nat
        /\ login.issued <= login.signed.on /\ login.signed.on <= now
    /\ login.at = "checking" =>
        /\ login.who \in Wallets /\ login.since \in Nat /\ login.signed.on \in Nat
        /\ login.signed.by = login.who
        /\ login.signed.on <= login.since /\ login.since - login.signed.on < ChallengeExp
        /\ login.since <= now /\ now <= login.since + RpcTimeout
        /\ login.read # Never =>
            /\ login.read \in Nat /\ login.since <= login.read
            /\ login.read <= lastAdmin[login.who]

CookieInv ==
    cookie # None =>
        /\ cookie.sub \in Wallets /\ cookie.issued \in Nat /\ cookie.signed.on \in Nat
        /\ cookie.signed.by = cookie.sub
        /\ cookie.issued - cookie.signed.on < ChallengeExp + RpcTimeout
        /\ cookie.checked # Never =>
            /\ cookie.checked \in Nat
            /\ cookie.issued - cookie.checked <= RpcTimeout
            /\ cookie.checked <= lastAdmin[cookie.sub]

SessionInv == ChainInv /\ LoginInv /\ CookieInv

(* A wallet's last time as admin never moves back, and it is all of the    *)
(* chain that login and cookie depend on.                                  *)
LEMMA ChainMoves ==
  ASSUME SessionInv, ChainInv', login' = login, cookie' = cookie, now' \in Nat,
         now <= now', login.at = "checking" => now' <= login.since + RpcTimeout,
         \A w \in Wallets : lastAdmin'[w] \in Int /\ lastAdmin[w] \in Int
                            /\ lastAdmin[w] <= lastAdmin'[w]
  PROVE  SessionInv'
  <1>1. LoginInv'
    <2>1. now \in Nat  BY DEF SessionInv, ChainInv
    <2> QED  BY <2>1, SessionConstants DEF SessionInv, LoginInv
  <1>2. CookieInv'  BY DEF SessionInv, CookieInv
  <1> QED  BY <1>1, <1>2 DEF SessionInv

(* Time passes: the lifetimes only shrink.                                 *)
LEMMA TickStep == SessionInv /\ Tick => SessionInv'
  <1> SUFFICES ASSUME SessionInv, Tick PROVE SessionInv'  OBVIOUS
  <1>1. /\ now \in Nat /\ admin \in Wallets /\ wallet \in Wallets
        /\ lastAdmin \in [Wallets -> Int] /\ lastAdmin[admin] = now
        /\ \A v \in Wallets : lastAdmin[v] <= now
    BY DEF SessionInv, ChainInv
  <1>2. /\ now' = now + 1 /\ lastAdmin' = [lastAdmin EXCEPT ![admin] = now + 1]
        /\ admin' = admin /\ wallet' = wallet /\ login' = login /\ cookie' = cookie
    BY DEF Tick
  <1>3. ChainInv'  BY <1>1, <1>2 DEF ChainInv
  <1>4. \A w \in Wallets : lastAdmin'[w] \in Int /\ lastAdmin[w] \in Int
                            /\ lastAdmin[w] <= lastAdmin'[w]
    BY <1>1, <1>2
  <1>5. login.at = "checking" => now' <= login.since + RpcTimeout
    <2> SUFFICES ASSUME login.at = "checking" PROVE now' <= login.since + RpcTimeout
      OBVIOUS
    <2>1. now < login.since + RpcTimeout  BY DEF Tick
    <2>2. login.since \in Nat  BY DEF SessionInv, LoginInv
    <2> QED  BY <2>1, <2>2, <1>1, <1>2, SessionConstants
  <1> QED  BY <1>1, <1>2, <1>3, <1>4, <1>5, ChainMoves

(* A rotation ends the old admin's term at the current time.               *)
LEMMA RotateStep ==
  ASSUME SessionInv, NEW w \in Wallets, RotateAdmin(w) PROVE SessionInv'
  <1>1. /\ now \in Nat /\ admin \in Wallets /\ wallet \in Wallets
        /\ lastAdmin \in [Wallets -> Int] /\ lastAdmin[admin] = now
        /\ \A v \in Wallets : lastAdmin[v] <= now
    BY DEF SessionInv, ChainInv
  <1>2. /\ now' = now /\ lastAdmin' = [lastAdmin EXCEPT ![w] = now]
        /\ admin' = w /\ wallet' = wallet /\ login' = login /\ cookie' = cookie
    BY DEF RotateAdmin
  <1>3. ChainInv'  BY <1>1, <1>2 DEF ChainInv
  <1>4. \A v \in Wallets : lastAdmin'[v] \in Int /\ lastAdmin[v] \in Int
                            /\ lastAdmin[v] <= lastAdmin'[v]
    BY <1>1, <1>2
  <1>5. login.at = "checking" => now' <= login.since + RpcTimeout
    BY <1>2 DEF SessionInv, LoginInv
  <1> QED  BY <1>1, <1>2, <1>3, <1>4, <1>5, ChainMoves

(* The steps that touch the login alone.                                   *)
LEMMA LoginSteps ==
  ASSUME SessionInv, UNCHANGED <<now, chainVars, wallet, cookie>>, LoginInv'
  PROVE  SessionInv'
  BY DEF SessionInv, ChainInv, CookieInv, chainVars

(* The steps that touch neither login nor chain, and at most lose the      *)
(* cookie.                                                                 *)
LEMMA BrowserSteps ==
  ASSUME SessionInv, UNCHANGED <<now, chainVars, wallet>>,
         login' = login \/ login'.at \in {"idle", "answered"},
         cookie' = cookie \/ cookie' = None
  PROVE  SessionInv'
  <1>1. ChainInv'  BY DEF SessionInv, ChainInv, chainVars
  <1>2. LoginInv'  BY DEF SessionInv, LoginInv, chainVars
  <1>3. CookieInv'  BY DEF SessionInv, CookieInv, chainVars
  <1> QED  BY <1>1, <1>2, <1>3 DEF SessionInv

(* A challenge is asked for, and signed by the wallet it was for.          *)
LEMMA ChallengeSteps ==
  ASSUME SessionInv, Sign \/ \E checks \in BOOLEAN : GetChallenge(checks)
  PROVE  SessionInv'
  <1>1. now \in Nat /\ wallet \in Wallets  BY DEF SessionInv, ChainInv
  <1>2. ASSUME NEW checks \in BOOLEAN, GetChallenge(checks) PROVE SessionInv'
    <2>1. /\ login' = [at |-> "sign", who |-> wallet, issued |-> now, checks |-> checks]
          /\ UNCHANGED <<now, chainVars, wallet, cookie>>
      BY <1>2 DEF GetChallenge
    <2>2. LoginInv'  BY <1>1, <2>1 DEF LoginInv
    <2> QED  BY <2>1, <2>2, LoginSteps
  <1>3. CASE Sign
    <2>1. /\ login.at = "sign"
          /\ login' = [at |-> "verify", who |-> login.who, issued |-> login.issued,
                       checks |-> login.checks, signed |-> [by |-> wallet, on |-> now]]
          /\ UNCHANGED <<now, chainVars, wallet, cookie>>
      BY <1>3 DEF Sign
    <2>2. login.who \in Wallets /\ login.issued \in Nat /\ login.issued <= now
      BY <2>1 DEF SessionInv, LoginInv
    <2>3. LoginInv'  BY <1>1, <2>1, <2>2 DEF LoginInv
    <2> QED  BY <2>1, <2>3, LoginSteps
  <1> QED  BY <1>2, <1>3

(* A challenge the server takes is within its lifetime.                    *)
LEMMA VerifyStep == SessionInv /\ Verify => SessionInv'
  <1> SUFFICES ASSUME SessionInv, Verify PROVE SessionInv'  OBVIOUS
  <1>1. /\ login.at = "verify" /\ now' = now /\ admin' = admin
        /\ lastAdmin' = lastAdmin /\ wallet' = wallet
    BY DEF Verify, chainVars
  <1>2. /\ now \in Nat /\ login.who \in Wallets /\ login.issued \in Nat
        /\ login.signed.on \in Nat
        /\ login.issued <= login.signed.on /\ login.signed.on <= now
    BY <1>1 DEF SessionInv, ChainInv, LoginInv
  <1>3. ChainInv'  BY <1>1 DEF SessionInv, ChainInv
  <1>4. CASE ~ ChallengeOk(login)
    <2>1. login' = Idle /\ cookie' = cookie  BY <1>4 DEF Verify
    <2> QED  BY <1>1, <2>1, BrowserSteps DEF Idle, chainVars
  <1>5. CASE ChallengeOk(login)
    <2>1. now < login.issued + ChallengeExp /\ login.signed.by = login.who
      BY <1>5 DEF ChallengeOk, Unexpired
    <2>2. now - login.signed.on < ChallengeExp  BY <2>1, <1>2, SessionConstants
    <2>3. CASE login.checks
      <3>1. /\ login' = [at |-> "checking", who |-> login.who, signed |-> login.signed,
                         since |-> now, read |-> Never]
            /\ cookie' = cookie
        BY <1>5, <2>3 DEF Verify
      <3>2. LoginInv'
        BY <1>1, <1>2, <2>1, <2>2, <3>1, SessionConstants DEF LoginInv, Never
      <3> QED  BY <1>1, <3>1, <3>2, LoginSteps DEF chainVars
    <2>4. CASE ~ login.checks
      <3>1. /\ cookie' = [sub |-> login.who, issued |-> now, signed |-> login.signed,
                          checked |-> Never]
            /\ login' = [at |-> "answered"]
        BY <1>5, <2>4 DEF Verify, Issue
      <3>2. LoginInv'  BY <3>1 DEF LoginInv
      <3>3. CookieInv'
        BY <1>1, <1>2, <2>1, <2>2, <3>1, SessionConstants DEF CookieInv
      <3> QED  BY <1>3, <3>2, <3>3 DEF SessionInv
    <2> QED  BY <2>3, <2>4
  <1> QED  BY <1>4, <1>5

(* The admin check reads the chain no later than its time-out.             *)
LEMMA CheckSteps ==
  ASSUME SessionInv, CheckRead \/ CheckAnswered \/ CheckAborted PROVE SessionInv'
  <1>1. /\ login.at = "checking" /\ now' = now /\ admin' = admin
        /\ lastAdmin' = lastAdmin /\ wallet' = wallet
    BY DEF CheckRead, CheckAnswered, CheckAborted, chainVars
  <1>2. ChainInv'  BY <1>1 DEF SessionInv, ChainInv
  <1>3. now \in Nat /\ lastAdmin[admin] = now  BY DEF SessionInv, ChainInv
  <1>4. /\ login.who \in Wallets /\ login.since \in Nat /\ login.signed.on \in Nat
        /\ login.signed.by = login.who
        /\ login.signed.on <= login.since /\ login.since - login.signed.on < ChallengeExp
        /\ login.since <= now /\ now <= login.since + RpcTimeout
        /\ login.read # Never =>
            /\ login.read \in Nat /\ login.since <= login.read
            /\ login.read <= lastAdmin[login.who]
    BY <1>1 DEF SessionInv, LoginInv
  <1>5. CASE CheckRead
    <2>1. cookie' = cookie  BY <1>5 DEF CheckRead
    <2>2. CASE admin = login.who
      <3>1. login' = [at |-> "checking", who |-> login.who, signed |-> login.signed,
                      since |-> login.since, read |-> now]
        BY <1>5, <2>2 DEF CheckRead
      <3>2. LoginInv'  BY <1>1, <1>3, <1>4, <2>2, <3>1 DEF LoginInv
      <3> QED  BY <1>1, <2>1, <3>2, LoginSteps DEF chainVars
    <2>3. CASE admin # login.who
      <3>1. login' = Idle  BY <1>5, <2>3 DEF CheckRead
      <3> QED  BY <1>1, <2>1, <3>1, BrowserSteps DEF Idle, chainVars
    <2> QED  BY <2>2, <2>3
  <1>6. CASE CheckAnswered
    <2>1. /\ login.read # Never
          /\ cookie' = [sub |-> login.who, issued |-> now, signed |-> login.signed,
                        checked |-> login.read]
          /\ login' = [at |-> "answered"]
      BY <1>6 DEF CheckAnswered, Issue
    <2>2. LoginInv'  BY <2>1 DEF LoginInv
    <2>3. now - login.signed.on < ChallengeExp + RpcTimeout
          /\ now - login.read <= RpcTimeout
      BY <1>3, <1>4, <2>1, SessionConstants
    <2>4. CookieInv'  BY <1>1, <1>3, <1>4, <2>1, <2>3 DEF CookieInv
    <2> QED  BY <1>2, <2>2, <2>4 DEF SessionInv
  <1>7. CASE CheckAborted
    BY <1>1, <1>7, BrowserSteps DEF CheckAborted, Idle, chainVars
  <1> QED  BY <1>5, <1>6, <1>7

(* Every step keeps the invariant.                                         *)
LEMMA SessionStep == SessionInv /\ [Next]_vars => SessionInv'
  <1> SUFFICES ASSUME SessionInv, [Next]_vars PROVE SessionInv'  OBVIOUS
  <1>1. CASE Tick  BY <1>1, TickStep
  <1>2. ASSUME NEW w \in Wallets, RotateAdmin(w) PROVE SessionInv'  BY <1>2, RotateStep
  <1>3. ASSUME NEW w \in Wallets, SwitchWallet(w) PROVE SessionInv'
    BY <1>3 DEF SwitchWallet, chainVars, SessionInv, ChainInv, LoginInv, CookieInv
  <1>4. CASE Sign \/ \E checks \in BOOLEAN : GetChallenge(checks)
    BY <1>4, ChallengeSteps
  <1>5. CASE Verify  BY <1>5, VerifyStep
  <1>6. CASE CheckRead \/ CheckAnswered \/ CheckAborted  BY <1>6, CheckSteps
  <1>7. CASE LoginFails  BY <1>7, BrowserSteps DEF LoginFails, Idle
  <1>8. CASE Arrive  BY <1>8, BrowserSteps DEF Arrive, Idle
  <1>9. CASE Me \/ MeFails \/ GuardRedirect \/ LoginRedirect \/ Visit
    BY <1>9, BrowserSteps DEF Me, MeFails, GuardRedirect, LoginRedirect, Visit
  <1>10. ASSUME NEW reached \in BOOLEAN, SignOut(reached) PROVE SessionInv'
    BY <1>10, BrowserSteps DEF SignOut
  <1>11. CASE UNCHANGED vars
    BY <1>11, BrowserSteps DEF vars
  <1> QED
    BY <1>1, <1>2, <1>3, <1>4, <1>5, <1>6, <1>7, <1>8, <1>9, <1>10, <1>11 DEF Next, Browser

(* At first nobody is logged in.                                           *)
LEMMA SessionInit == Init => SessionInv
  BY DEF Init, SessionInv, ChainInv, LoginInv, CookieInv, Idle, Never

(* Whoever is let in has signed for it, no longer ago than challenge,      *)
(* admin check and session live together.                                  *)
THEOREM SessionsAreRecent == Spec => []SessionIsRecent
  <1>1. SessionInv => SessionIsRecent
    BY SessionConstants
    DEF SessionInv, ChainInv, CookieInv, SessionIsRecent, Valid, Unexpired
  <1> QED  BY <1>1, SessionInit, SessionStep, PTL DEF Spec

(* A rotated-out admin's checked session dies within the age of a cookie   *)
(* and the time of a check.                                                *)
THEOREM RotationLocksOut == Spec => []RotatedOutIsLockedOut
  <1>1. SessionInv => RotatedOutIsLockedOut
    <2> SUFFICES ASSUME SessionInv, Valid, cookie.checked # Never
                 PROVE  now - lastAdmin[cookie.sub] < RpcTimeout + SessionExp
      BY DEF RotatedOutIsLockedOut
    <2>1. now < cookie.issued + SessionExp /\ now \in Nat /\ cookie.issued \in Nat
      BY DEF SessionInv, ChainInv, CookieInv, Valid, Unexpired
    <2>2. /\ cookie.checked \in Nat /\ cookie.issued - cookie.checked <= RpcTimeout
          /\ cookie.checked <= lastAdmin[cookie.sub] /\ lastAdmin[cookie.sub] \in Int
      BY DEF SessionInv, ChainInv, CookieInv, Valid
    <2> QED  BY <2>1, <2>2, SessionConstants
  <1> QED  BY <1>1, SessionInit, SessionStep, PTL DEF Spec
=============================================================================

---------------------------- MODULE AdminSession ----------------------------
(***************************************************************************)
(* The admin login of the web app (app/src): a wallet signs a challenge of *)
(* the server, /api/auth/verify turns the signature into a session cookie, *)
(* after asking the chain who the admin is when the form names the pool,   *)
(* and middleware, AdminGuard and the login page send the browser to and   *)
(* fro by what the cookie and /api/auth/me tell them.                      *)
(*                                                                         *)
(* One browser.  Time passes between any two steps; the admin may be       *)
(* rotated and the wallet switched at any of them, and an answer may be    *)
(* lost.  A challenge and a session are jwts: they carry their expiry and  *)
(* nothing revokes them.                                                   *)
(***************************************************************************)
EXTENDS Integers

CONSTANTS
    Wallets, None,
    ChallengeExp,   \* 5 minutes
    SessionExp,     \* 1 hour, of the jwt and of the cookie
    RpcTimeout,     \* RPC_TIMEOUT_MS, 10 s
    MaxTime, MaxFaults, MaxActs   \* bounds

ASSUME SessionConstants ==
    /\ None \notin Wallets
    /\ ChallengeExp \in Nat /\ SessionExp \in Nat /\ RpcTimeout \in Nat

VARIABLES
    now,
    admin,       \* on chain: PoolState.admin
    wallet,      \* the wallet connected
    login,       \* authenticate(), and /verify behind it
    cookie,      \* the browser's session cookie; `signed` and `checked` are
                 \* history: when who signed, when the chain said admin
    page,        \* "login" or "admin"
    hook,        \* useAdminSession of what the page has mounted
    lastAdmin,   \* history: when a wallet was last the admin
    faults,      \* answers that were lost
    acts         \* what admin and user did of their own accord

chainVars == <<admin, lastAdmin>>
vars == <<now, chainVars, wallet, login, cookie, page, hook, faults, acts>>

Never == -1

Idle == [at |-> "idle"]

Init ==
    /\ now = 0
    /\ admin \in Wallets /\ wallet \in Wallets
    /\ login = Idle /\ cookie = None
    /\ page = "login" /\ hook = "unknown"
    /\ lastAdmin = [w \in Wallets |-> IF w = admin THEN 0 ELSE Never]
    /\ faults = 0 /\ acts = 0

----------------------------------------------------------------------------
(* jwt.ts, cookies.ts *)

Unexpired(issued, life) == now < issued + life

Valid == cookie # None /\ Unexpired(cookie.issued, SessionExp)

----------------------------------------------------------------------------
(* Around the login. *)

Tick_NoAbort ==
    /\ now < MaxTime
    /\ now' = now + 1
    /\ lastAdmin' = [lastAdmin EXCEPT ![admin] = now']
    /\ UNCHANGED <<admin, wallet, login, cookie, page, hook, faults, acts>>

(* The abort bounds how long the admin check may take. *)
Tick ==
    /\ now < MaxTime
    /\ login.at = "checking" => now < login.since + RpcTimeout
    /\ now' = now + 1
    /\ lastAdmin' = [lastAdmin EXCEPT ![admin] = now']
    /\ UNCHANGED <<admin, wallet, login, cookie, page, hook, faults, acts>>

RotateAdmin(w) ==
    /\ acts < MaxActs /\ acts' = acts + 1
    /\ admin' = w
    /\ lastAdmin' = [lastAdmin EXCEPT ![w] = now]
    /\ UNCHANGED <<now, wallet, login, cookie, page, hook, faults>>

SwitchWallet(w) ==
    /\ acts < MaxActs /\ acts' = acts + 1
    /\ wallet' = w
    /\ UNCHANGED <<now, chainVars, login, cookie, page, hook, faults>>

----------------------------------------------------------------------------
(* authenticate() on the login page, with /challenge and /verify. *)

(* The closure holds the wallet connected at the click. *)
GetChallenge(checks) ==
    /\ page = "login" /\ login = Idle
    /\ login' = [at |-> "sign", who |-> wallet, issued |-> now, checks |-> checks]
    /\ UNCHANGED <<now, chainVars, wallet, cookie, page, hook, faults, acts>>

(* signMessage, or a memo transaction on a Ledger: by whoever is connected *)
(* by then.                                                                *)
Sign ==
    /\ login.at = "sign"
    /\ login' = [at |-> "verify", who |-> login.who, issued |-> login.issued,
                 checks |-> login.checks, signed |-> [by |-> wallet, on |-> now]]
    /\ UNCHANGED <<now, chainVars, wallet, cookie, page, hook, faults, acts>>

ChallengeOk_NoExpiry(l) == l.signed.by = l.who

(* The challenge's jwt, then the signature under the claimed key. *)
ChallengeOk(l) == Unexpired(l.issued, ChallengeExp) /\ l.signed.by = l.who

(* issueSession and the Set-Cookie of the answer. *)
Issue(checked) ==
    /\ cookie' = [sub |-> login.who, issued |-> now, signed |-> login.signed,
                  checked |-> checked]
    /\ login' = [at |-> "answered"]

Verify ==
    /\ login.at = "verify"
    /\ IF ~ ChallengeOk(login)
       THEN login' = Idle /\ UNCHANGED cookie
       ELSE IF login.checks
       THEN /\ login' = [at |-> "checking", who |-> login.who, signed |-> login.signed,
                         since |-> now, read |-> Never]
            /\ UNCHANGED cookie
       ELSE Issue(Never)
    /\ UNCHANGED <<now, chainVars, wallet, page, hook, faults, acts>>

(* A node reads PoolState, its answer takes time. *)
CheckRead ==
    /\ login.at = "checking" /\ login.read = Never
    /\ login' = IF admin = login.who
                THEN [at |-> "checking", who |-> login.who, signed |-> login.signed,
                      since |-> login.since, read |-> now]
                ELSE Idle
    /\ UNCHANGED <<now, chainVars, wallet, cookie, page, hook, faults, acts>>

CheckAnswered ==
    /\ login.at = "checking" /\ login.read # Never
    /\ Issue(login.read)
    /\ UNCHANGED <<now, chainVars, wallet, page, hook, faults, acts>>

CheckAborted ==
    /\ login.at = "checking" /\ now = login.since + RpcTimeout
    /\ login' = Idle
    /\ UNCHANGED <<now, chainVars, wallet, cookie, page, hook, faults, acts>>

(* Refused in the wallet, a fetch failed, a restart, the answer lost. *)
LoginFails ==
    /\ login.at \in {"sign", "verify", "checking"}
    /\ faults < MaxFaults /\ faults' = faults + 1
    /\ login' = Idle
    /\ UNCHANGED <<now, chainVars, wallet, cookie, page, hook, acts>>

----------------------------------------------------------------------------
(* Getting around. *)

(* middleware.ts lets the admin pages through on a valid session only.  A  *)
(* page that stays keeps its hook as it is.                                *)
Navigate ==
    /\ page' = IF Valid THEN "admin" ELSE "login"
    /\ hook' = IF page' # page THEN "unknown" ELSE hook

(* await refresh(), then router.replace("/admin"); the page may have gone  *)
(* there before.                                                           *)
Arrive ==
    /\ login.at = "answered"
    /\ login' = Idle
    /\ Navigate
    /\ UNCHANGED <<now, chainVars, wallet, cookie, faults, acts>>

(* /api/auth/me for the hook; a failed fetch looks like no session. *)
Me ==
    /\ hook = "unknown"
    /\ hook' = IF Valid THEN "in" ELSE "out"
    /\ UNCHANGED <<now, chainVars, wallet, login, cookie, page, faults, acts>>

MeFails ==
    /\ hook = "unknown"
    /\ faults < MaxFaults /\ faults' = faults + 1
    /\ hook' = "out"
    /\ UNCHANGED <<now, chainVars, wallet, login, cookie, page, acts>>

(* AdminGuard, once hydrated. *)
GuardRedirect_Unhydrated ==
    /\ page = "admin" /\ hook # "in"
    /\ page' = "login" /\ hook' = "unknown"
    /\ UNCHANGED <<now, chainVars, wallet, login, cookie, faults, acts>>

GuardRedirect ==
    /\ page = "admin" /\ hook = "out"
    /\ page' = "login" /\ hook' = "unknown"
    /\ UNCHANGED <<now, chainVars, wallet, login, cookie, faults, acts>>

(* The login page, once hydrated, sends a session on. *)
LoginRedirect ==
    /\ page = "login" /\ hook = "in"
    /\ Navigate
    /\ UNCHANGED <<now, chainVars, wallet, login, cookie, faults, acts>>

(* The address bar, a link, a reload. *)
Visit ==
    /\ acts < MaxActs /\ acts' = acts + 1
    /\ Navigate
    /\ UNCHANGED <<now, chainVars, wallet, login, cookie, faults>>

(* Best effort: when the fetch fails the cookie stays.  The guard has a    *)
(* hook of its own, which is not told.                                     *)
SignOut(reached) ==
    /\ page = "admin" /\ hook = "in"
    /\ acts < MaxActs /\ acts' = acts + 1
    /\ cookie' = IF reached THEN None ELSE cookie
    /\ UNCHANGED <<now, chainVars, wallet, login, page, hook, faults>>

Browser ==
    Arrive \/ Me \/ GuardRedirect \/ LoginRedirect

Next ==
    \/ Tick
    \/ \E w \in Wallets : RotateAdmin(w) \/ SwitchWallet(w)
    \/ \E checks \in BOOLEAN : GetChallenge(checks)
    \/ Sign \/ Verify \/ CheckRead \/ CheckAnswered \/ CheckAborted \/ LoginFails
    \/ Browser \/ MeFails \/ Visit
    \/ \E reached \in BOOLEAN : SignOut(reached)

(* What the browser does by itself it does in the end; no one promises to  *)
(* sign, and no server to answer a login.                                  *)
Spec == Init /\ [][Next]_vars /\ WF_vars(Browser)

----------------------------------------------------------------------------
(* Properties. *)

Signatures == [by : Wallets, on : Nat]

(* Types of the state. *)
TypeOK ==
    /\ now \in Nat /\ faults \in Nat /\ acts \in Nat
    /\ admin \in Wallets /\ wallet \in Wallets
    /\ lastAdmin \in [Wallets -> Nat \cup {Never}]
    /\ \/ login \in [at : {"idle", "answered"}]
       \/ login \in [at : {"sign"}, who : Wallets, issued : Nat, checks : BOOLEAN]
       \/ login \in [at : {"verify"}, who : Wallets, issued : Nat, checks : BOOLEAN,
                     signed : Signatures]
       \/ login \in [at : {"checking"}, who : Wallets, signed : Signatures, since : Nat,
                     read : Nat \cup {Never}]
    /\ \/ cookie = None
       \/ cookie \in [sub : Wallets, issued : Nat, signed : Signatures,
                      checked : Nat \cup {Never}]
    /\ page \in {"login", "admin"} /\ hook \in {"unknown", "in", "out"}

(* A session the middleware accepts was signed for by the wallet it names, *)
(* no longer ago than challenge, admin check and session live together:    *)
(* however slowly the user signs, the server answers and the clock moves.  *)
SessionIsRecent ==
    Valid => /\ cookie.signed.by = cookie.sub
             /\ now - cookie.signed.on < ChallengeExp + RpcTimeout + SessionExp

(* A session opened against the pool outlives the rotation of its admin by *)
(* the age of its cookie and the time of the check, never by more.         *)
RotatedOutIsLockedOut ==
    Valid /\ cookie.checked # Never
        => now - lastAdmin[cookie.sub] < RpcTimeout + SessionExp

(* Who is signed in ends up on the admin page as long as the session       *)
(* lasts, one lost answer or none: guard and login page do not send the    *)
(* browser back and forth for ever.  (The hook asks once per page.  With a *)
(* second answer lost, the login page's own, the user stays there, signed  *)
(* in.)                                                                    *)
SignedInArrives ==
    login.at = "answered" ~> ~Valid \/ (page = "admin" /\ hook = "in") \/ faults > 1
=============================================================================

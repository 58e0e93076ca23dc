------------------------------ MODULE AdminPages ------------------------------
(***************************************************************************)
(* The admin pages of the web app (app/src/app/admin/actions/page.tsx,     *)
(* inventory/page.tsx, with usePoolState) in front of the program of Pool: *)
(* what they hold of the chain, the dialog that asks for confirmation, and *)
(* the transaction that follows.  Other admins act on the same pool by     *)
(* other means, wallets are switched, and answers and transactions come    *)
(* late or not at all.  The user is on one page until it is idle again.    *)
(*                                                                         *)
(* An operation is <<kind, key that signs, argument>>.                     *)
(***************************************************************************)
EXTENDS Pool, FiniteSets, SequencesExt

CONSTANTS
    None,
    FirstAdmin,
    MaxPolls, MaxActs, MaxFaults   \* bounds

ASSUME AdminPagesConstants ==
    /\ FirstAdmin \in Signers
    /\ None \notin PoolStates /\ None \notin BOOLEAN
    /\ \A p \in SUBSET Proposals : p # None

VARIABLES
    view, polls,     \* usePoolState: what it holds, answers on their way
    shown,           \* the proposal shown; None: not loaded
    wallet,          \* the wallet connected
    dialog,          \* confirmDialog: the closure of the render that opened it
    tx,              \* runIx in progress: `said` is what was confirmed
    late,            \* given up by the page, may yet land
    acts,            \* what admins and users did of their own accord
    faults

chain == <<pool, proposal, base, quote>>
reads == <<view, polls, shown>>
browser == <<wallet, dialog>>
sent == <<tx, late>>
pageVars == <<vars, reads, browser, sent, acts, faults>>

PagesInit ==
    /\ \E p \in ParamInputs, ttl \in TtlInputs :
         /\ OracleArgsOK(p, ttl)
         /\ pool = [admin |-> FirstAdmin, authorized_oracle_signer |-> FirstAdmin,
                    authorized_quote_signer |-> FirstAdmin, params |-> p,
                    last_oracle_update_slot |-> 0, oracle_nonce |-> 0,
                    current_mode_ttl |-> ttl, paused |-> FALSE]
    /\ markers = {} /\ proposal = {}
    /\ base = [h \in Holders |-> IF h = Vault THEN 0 ELSE Endowment[h]]
    /\ quote = base
    /\ slot = 0 /\ highSlot = 0 /\ fillCount = [q \in Quotes |-> 0]
    /\ formerAdmins = {} /\ adminMoved = FALSE
    /\ view = None /\ polls = {} /\ shown = None
    /\ wallet = pool.admin /\ dialog = None
    /\ tx = None /\ late = <<>>
    /\ acts = 0 /\ faults = 0

----------------------------------------------------------------------------
(* The instructions, as transactions carry them. *)

Moves == {m \in [base : Amounts, quote : Amounts] : m.base # 0 \/ m.quote # 0}

Ops ==
    ({"set_paused"} \X Signers \X BOOLEAN)
    \cup ({"rotate_oracle_signer", "rotate_quote_signer", "rotate_admin", "propose_admin"}
            \X Signers \X NewKeys)
    \cup ({"accept_admin", "cancel_admin_proposal"} \X Signers \X {None})
    \cup ({"withdraw", "deposit"} \X Signers \X Moves)

Run(op) ==
    LET kind == op[1]  by == op[2]  arg == op[3] IN
    \/ kind = "set_paused" /\ SetPaused(by, arg)
    \/ kind = "rotate_oracle_signer" /\ RotateOracleSigner(by, arg)
    \/ kind = "rotate_quote_signer" /\ RotateQuoteSigner(by, arg)
    \/ kind = "rotate_admin" /\ RotateAdmin(by, arg)
    \/ kind = "propose_admin" /\ ProposeAdmin(by, arg)
    \/ kind = "accept_admin" /\ AcceptAdmin(by)
    \/ kind = "cancel_admin_proposal" /\ CancelAdminProposal(by)
    \/ kind = "withdraw" /\ AdminWithdrawInventory(by, arg.base, arg.quote)
    \/ kind = "deposit" /\ Deposit(by, arg.base, arg.quote)

(* The checks an instruction meets on the chain state c: what the node's   *)
(* trial run of a transaction tells.  It is Run's being enabled, spelled   *)
(* out, so that it can be asked of an earlier state.                       *)
Accepts(c, op) ==
    LET p == c[1]  proposals == c[2]
        kind == op[1]  by == op[2]  arg == op[3]
        admin == p # NoPool /\ p.admin = by
    IN CASE kind \in {"set_paused", "rotate_admin"} -> admin
         [] kind \in {"rotate_oracle_signer", "rotate_quote_signer"} ->
                admin /\ arg # ZeroKey
         [] kind = "propose_admin" ->
                admin /\ arg \notin {ZeroKey, by} /\ proposals = {}
         [] kind = "accept_admin" ->
                p # NoPool /\ \E r \in proposals : r.new_admin = by /\ r.proposed_by = p.admin
         [] kind = "cancel_admin_proposal" -> admin /\ proposals # {}
         [] kind = "withdraw" -> admin /\ arg.base <= c[3][Vault] /\ arg.quote <= c[4][Vault]
         [] kind = "deposit" -> p # NoPool /\ arg.base <= c[3][by] /\ arg.quote <= c[4][by]

Takes(op) == Accepts(chain, op)

(* Whoever else holds an admin key, and whoever else deposits. *)
Others ==
    /\ acts < MaxActs /\ acts' = acts + 1
    /\ \E op \in Ops : Run(op)
    /\ UNCHANGED <<reads, browser, sent, faults>>

SwitchWallet(w) ==
    /\ w # wallet /\ wallet' = w
    /\ acts < MaxActs /\ acts' = acts + 1
    /\ UNCHANGED <<vars, view, polls, shown, dialog, sent, faults>>

----------------------------------------------------------------------------
(* What the pages hold of the chain. *)

(* The timer, a render, or refresh() after a success. *)
PollPool ==
    /\ Cardinality(polls) < MaxPolls
    /\ polls' = polls \cup {pool}
    /\ UNCHANGED <<vars, view, shown, browser, sent, acts, faults>>

PollAnswered_First(a) ==
    /\ polls' = polls \ {a}
    /\ view' = IF view = None THEN a ELSE view
    /\ UNCHANGED <<vars, shown, browser, sent, acts, faults>>

(* The last answer to arrive is shown, whenever it was asked for. *)
PollAnswered(a) ==
    /\ polls' = polls \ {a}
    /\ view' = a
    /\ UNCHANGED <<vars, shown, browser, sent, acts, faults>>

PollFails(a) ==
    /\ faults < MaxFaults /\ faults' = faults + 1
    /\ polls' = polls \ {a}
    /\ view' = None
    /\ UNCHANGED <<vars, shown, browser, sent, acts>>

(* bm and qm are new objects at every render, and with them poolAddress:   *)
(* every render drops the read under way and starts another.  Between two  *)
(* renders the page rests, so a late answer shows what an early one did;   *)
(* read and answer are one step.                                           *)
ReadProposal ==
    /\ shown' = proposal
    /\ UNCHANGED <<vars, view, polls, browser, sent, acts, faults>>

----------------------------------------------------------------------------
(* Buttons and dialog. *)

(* Which buttons are enabled; busy and what was typed apart. *)
Offered_ToProposer(kind) ==
    CASE kind = "propose_admin" -> view # None /\ shown = {}
      [] kind = "accept_admin" -> shown # None /\ \E r \in shown : r.new_admin = wallet
      [] kind = "cancel_admin_proposal" ->
            shown # None /\ view # None /\ \E r \in shown : r.proposed_by = wallet
      [] OTHER -> view # None

Offered(kind) ==
    CASE kind = "propose_admin" -> view # None /\ shown = {}
      [] kind = "accept_admin" -> shown # None /\ \E r \in shown : r.new_admin = wallet
      [] kind = "cancel_admin_proposal" ->
            shown # None /\ shown # {} /\ view # None /\ view.admin = wallet
      [] OTHER -> view # None

(* The action behind a button: the operation it builds, from what its      *)
(* render held.  d.arg is what was typed.                                  *)
Built_Rerendered(d) ==
    <<d.kind, d.wallet, IF d.kind = "set_paused" /\ view # None THEN ~view.paused ELSE d.arg>>

Built(d) ==
    <<d.kind, d.wallet, IF d.kind = "set_paused" THEN ~d.paused ELSE d.arg>>

Typed(kind) ==
    CASE kind \in {"withdraw", "deposit"} -> Moves
      [] kind \in {"set_paused", "accept_admin", "cancel_admin_proposal"} -> {None}
      [] OTHER -> NewKeys

Kinds == {op[1] : op \in Ops}
Asks(kind) == kind \notin {"withdraw", "deposit"}   \* these two ask no one

(* What the closure holds of the views: all that title or action use. *)
Closure(kind, arg) ==
    [kind |-> kind, arg |-> arg, wallet |-> wallet,
     paused |-> IF view = None THEN None ELSE view.paused,
     proposers |-> IF shown = None THEN {} ELSE {r.proposed_by : r \in shown}]

Idle == tx = None /\ dialog = None

Open(kind, arg) ==
    /\ Idle /\ Offered(kind)
    /\ acts < MaxActs /\ acts' = acts + 1
    /\ LET d == Closure(kind, arg) IN
       IF Asks(kind) THEN dialog' = d /\ UNCHANGED tx
       ELSE tx' = [at |-> "built", op |-> Built(d), said |-> d] /\ UNCHANGED dialog
    /\ UNCHANGED <<vars, view, polls, shown, wallet, late, faults>>

Close ==
    /\ dialog # None /\ dialog' = None
    /\ UNCHANGED <<vars, view, polls, shown, wallet, sent, acts, faults>>

(* Without a pool the action returns; the dialog stays. *)
Confirm ==
    /\ dialog # None /\ tx = None
    /\ dialog.paused # None
    /\ tx' = [at |-> "built", op |-> Built(dialog), said |-> dialog]
    /\ UNCHANGED <<vars, view, polls, shown, browser, late, acts, faults>>

----------------------------------------------------------------------------
(* runIx, doDeposit, doWithdraw. *)

(* setBusy(null), setConfirmDialog(null), in the finally. *)
Settled == tx' = None /\ dialog' = None

Refused ==
    /\ Settled
    /\ UNCHANGED <<vars, view, polls, shown, wallet, late, acts, faults>>

Send_NoPreflight ==
    /\ tx # None /\ tx.at = "built"
    /\ IF wallet = tx.op[2]
       THEN /\ tx' = [at |-> "sent", op |-> tx.op, said |-> tx.said, saw |-> chain]
            /\ UNCHANGED <<vars, reads, browser, late, acts, faults>>
       ELSE Refused

(* sendTransaction: the wallet signs if it is still the one, and the node  *)
(* runs the transaction before it takes it.                                *)
Send ==
    /\ tx # None /\ tx.at = "built"
    /\ IF wallet = tx.op[2] /\ Takes(tx.op)
       THEN /\ tx' = [at |-> "sent", op |-> tx.op, said |-> tx.said, saw |-> chain]
            /\ UNCHANGED <<vars, reads, browser, late, acts, faults>>
       ELSE Refused

(* The transaction is in a block: executed, or failed for good. *)
Lands ==
    /\ tx # None /\ tx.at = "sent"
    /\ \/ Run(tx.op) /\ tx' = [tx EXCEPT !.at = "executed"]
       \/ /\ ~ Takes(tx.op) /\ UNCHANGED vars
          /\ tx' = [tx EXCEPT !.at = IF tx.saw = chain THEN "failed" ELSE "overtaken"]
    /\ UNCHANGED <<reads, browser, late, acts, faults>>

(* The toast says "succeeded": confirmTransaction's answer is not looked at. *)
Confirmed ==
    /\ tx # None /\ tx.at \in {"executed", "failed", "overtaken"}
    /\ Settled
    /\ UNCHANGED <<vars, view, polls, shown, wallet, late, acts, faults>>

(* "failed": the wallet refuses, the block height runs out, or the answer  *)
(* is lost.                                                                *)
Fails ==
    /\ tx # None
    /\ faults < MaxFaults /\ faults' = faults + 1
    /\ Settled
    /\ late' = IF tx.at = "sent" THEN Append(late, tx) ELSE late
    /\ UNCHANGED <<vars, view, polls, shown, wallet, acts>>

LandsLate(i) ==
    /\ late' = RemoveAt(late, i)
    /\ Run(late[i].op) \/ UNCHANGED vars
    /\ UNCHANGED <<reads, browser, tx, acts, faults>>

PagesNext ==
    \/ Others
    \/ \E w \in Signers : SwitchWallet(w)
    \/ PollPool
    \/ \E a \in polls : PollAnswered(a) \/ PollFails(a)
    \/ ReadProposal
    \/ \E kind \in Kinds : \E arg \in Typed(kind) : Open(kind, arg)
    \/ Close \/ Confirm \/ Send \/ Lands \/ Confirmed \/ Fails
    \/ \E i \in DOMAIN late : LandsLate(i)

(* The timer runs, and every poll is answered in the end: also one whose   *)
(* answer is out of date.                                                  *)
Fairness ==
    /\ WF_pageVars(PollPool)
    /\ WF_pageVars(\E a \in polls : a # pool /\ PollAnswered(a))
    /\ WF_pageVars(\E a \in polls : PollAnswered(a))

PagesSpec == PagesInit /\ [][PagesNext]_pageVars /\ Fairness

----------------------------------------------------------------------------
(* Properties. *)

(* What title and text of the dialog, or the form, announce: "Pause pool?" *)
(* or "Resume pool?" by the badge shown, the key that "becomes" signer or  *)
(* admin, who "will lose privileges", the amounts.                         *)
Announced(d) ==
    CASE d.kind = "set_paused" -> pool'.paused # d.paused
      [] d.kind = "rotate_oracle_signer" -> pool'.authorized_oracle_signer = d.arg
      [] d.kind = "rotate_quote_signer" -> pool'.authorized_quote_signer = d.arg
      [] d.kind = "rotate_admin" -> pool'.admin = d.arg
      [] d.kind = "propose_admin" ->
            /\ proposal' = {[proposed_by |-> d.wallet, new_admin |-> d.arg]}
            /\ pool' = pool
      [] d.kind = "accept_admin" ->
            /\ pool'.admin = d.wallet
            /\ pool'.admin \notin d.proposers
      [] d.kind = "cancel_admin_proposal" -> proposal' = {} /\ pool' = pool
      [] d.kind = "withdraw" ->
            /\ base'[Vault] = base[Vault] - d.arg.base
            /\ quote'[Vault] = quote[Vault] - d.arg.quote
      [] d.kind = "deposit" ->
            /\ base'[Vault] = base[Vault] + d.arg.base
            /\ quote'[Vault] = quote[Vault] + d.arg.quote

(* What was confirmed is what happens, or nothing does: however the views  *)
(* move while the dialog is open, whoever acts meanwhile, however late the *)
(* transaction lands, and although a retry may be under way.               *)
DoesWhatItSaid ==
    [][/\ Lands => UNCHANGED chain \/ Announced(tx.said)
       /\ \A i \in DOMAIN late :
            LandsLate(i) => UNCHANGED chain \/ Announced(late[i].said)]_pageVars

(* "succeeded" may stand over a transaction that failed, as nobody looks   *)
(* at the confirmation's error: but only if another transaction overtook   *)
(* it between the node's trial run and its block.                          *)
SuccessUnlessOvertaken ==
    [][Confirmed => tx.at \in {"executed", "overtaken"}]_pageVars

(* Pages whose views are up to date offer the connected wallet everything  *)
(* the program would take from it: the admin can get rid of a proposal of  *)
(* a former admin, for which the form to propose makes room only then.     *)
NothingLocked ==
    (Idle /\ view = pool /\ shown = proposal) =>
        \A op \in Ops : op[2] = wallet /\ Takes(op) => Offered(op[1])

(* The inductive invariant behind these three. *)

ChainStates == PoolStates \X (SUBSET Proposals) \X [Holders -> Nat] \X [Holders -> Nat]

Closures ==
    [kind : Kinds, arg : Moves \cup NewKeys \cup {None}, wallet : Signers,
     paused : BOOLEAN \cup {None}, proposers : SUBSET Keys]

(* A proposal is made by one key for another, and there is one at a time.  *)
WellProposed(p) ==
    /\ p \in SUBSET Proposals
    /\ \A r, s \in p : r = s
    /\ \A r \in p : r.proposed_by # r.new_admin

(* A closure asks for what its form can hold, and a candidate who accepts  *)
(* is not the one who proposed it.                                         *)
WellAsked(d) ==
    /\ d \in Closures
    /\ d.arg \in Typed(d.kind)
    /\ d.kind = "accept_admin" => d.wallet \notin d.proposers

(* A transaction is what its closure builds, from a view that was there.   *)
WellBuilt(t) ==
    /\ WellAsked(t.said)
    /\ t.said.kind = "set_paused" => t.said.paused # None
    /\ t.op = Built(t.said)

Transactions ==
    [at : {"built"}, op : Ops, said : Closures]
    \cup [at : {"sent", "executed", "overtaken"}, op : Ops, said : Closures, saw : ChainStates]

(* What the node accepted is what the program would have accepted then.    *)
PagesInv ==
    /\ TypeOK /\ Allocated /\ WellProposed(proposal)
    /\ polls \subseteq PoolStates /\ view \in PoolStates \cup {None}
    /\ shown # None => WellProposed(shown)
    /\ wallet \in Signers
    /\ dialog # None => WellAsked(dialog)
    /\ tx # None => /\ tx \in Transactions /\ WellBuilt(tx)
                    /\ tx.at = "sent" => Accepts(tx.saw, tx.op)
    /\ late \in Seq(Transactions) /\ \A i \in DOMAIN late : WellBuilt(late[i])

(* Once the chain rests the view shows it, and goes on doing so: late      *)
(* answers out of order are outlived.  (No such property for the proposal: *)
(* pool answers can cancel its read for ever.)                             *)
ViewConverges == <>[](view = pool)
=============================================================================

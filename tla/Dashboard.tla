------------------------------ MODULE Dashboard ------------------------------
(***************************************************************************)
(* A member's dashboard in the browser: frontend/app/dashboard/page.tsx,   *)
(* components/ActionPanel.tsx and the calls of lib/sacco.ts they make.     *)
(*                                                                         *)
(* Everything here is asynchronous: the wallet is read every four seconds  *)
(* by calls that overlap, statistics are loaded by an effect that is       *)
(* cancelled when its inputs change, and a submitted action is prepared,   *)
(* signed, sent and polled while the member goes on using the page.        *)
(*                                                                         *)
(* The page runs against the ledger (`live') or against the simulator, for *)
(* good.  Of the ledger it sees the member's account and sequence number;  *)
(* what a request does there is the pool's business (Pool), and here it    *)
(* may succeed or fail.                                                    *)
(***************************************************************************)
EXTENDS Simulator, Sequences, FiniteSets, Functions

CONSTANTS
    Members,     \* accounts of the wallet
    Nobody,      \* no account: the wallet is locked, missing or not allowed
    PollFor,     \* 30 s: how long a sent transaction is polled
    ValidFor,    \* 60 s: how long a built transaction may be included
    \* Bounds on what is explored.
    Opening,     \* what every member has at the start
    Asks,        \* [action, amount] the member enters, live or in the simulator
    MaxSubmits,  \* actions submitted
    MaxMoves,    \* changes of the wallet, and clicks on refresh
    MaxReads,    \* overlapping reads of the wallet
    MaxPending   \* overlapping reads and submits together

ASSUME DashboardAssumption ==
    /\ IsFiniteSet(Members) /\ Nobody \notin Members
    /\ PollFor \in Nat /\ ValidFor \in Nat /\ PollFor < ValidFor
    /\ Opening \in Account /\ Opening.borrow <= 2 * Opening.deposit
    /\ Asks \in [BOOLEAN -> SUBSET [action : Actions, amount : Nat]]
    /\ MaxSubmits \in Nat /\ MaxMoves \in Nat
    /\ MaxReads \in Nat /\ MaxPending \in Nat

VARIABLES
    live,      \* isSimulatorMode() is false
    accounts,  \* per member, deposit, borrow and transactions included so far
    totals,    \* the simulator's totals of the pool
    wallet,    \* the account Freighter reports
    moves,     \* counts towards MaxMoves
    reads,     \* answers of the wallet on their way to the page
    page,      \* the state of DashboardPage
    loads,     \* getMemberStats calls on their way
    busy,      \* the submit the mounted ActionPanel waits for, 0 for none
    submits    \* the submits of this session, in the order of their clicks

chainVars == <<accounts, totals>>
walletVars == <<wallet, moves, reads>>
pageVars == <<page, loads>>
panelVars == <<busy, submits>>
dashboardVars == <<live, chainVars, walletVars, pageVars, panelVars>>

NoStats == [of |-> Nobody, deposit |-> 0, borrow |-> 0, seq |-> 0]
Unread == [NoStats EXCEPT !.seq = -1]
Failed == [NoStats EXCEPT !.seq = -2]

Stats == [of : Members \cup {Nobody}, deposit : Nat, borrow : Nat, seq : Nat]
Page ==
    [address : Members \cup {Nobody},  \* shown, passed to the ActionPanel
     effect : Members \cup {Nobody},   \* address the loading effect ran for
     refresh : BOOLEAN,                \* refreshTick changed since it ran
     stats : Stats, loading : BOOLEAN, error : BOOLEAN]
Load == [of : Members, answer : Stats \cup {Unread, Failed}]
Submit ==
    [from : Members, action : Actions, amount : Nat,
     stage : {"prepare", "sign", "sent", "poll", "pause", "wait", "ok", "error"},
     tx : {"none", "pending", "success", "failed", "dropped"},
     seq : Nat,            \* sequence number it was built with
     valid : 0..ValidFor,  \* time left to include it, 0 once that is settled
     poll : 0..PollFor]    \* time left to the deadline

\* Types of the page's state; there is never more than one load whose answer
\* the page still waits for, and the panel waits for a submit of its own.
DashboardTypeOK ==
    /\ live \in BOOLEAN
    /\ accounts \in [Members -> [deposit : Nat, borrow : Nat, seq : Nat]]
    /\ totals \in Account
    /\ wallet \in Members \cup {Nobody} /\ moves \in 0..MaxMoves
    /\ reads \subseteq Members \cup {Nobody}
    /\ page \in Page
    /\ loads \subseteq Load /\ Cardinality(loads) <= 1
    /\ submits \in Seq(Submit)
    /\ busy = 0 \/ (busy \in DOMAIN submits /\ submits[busy].stage \notin {"ok", "error"})

DashboardInit ==
    /\ live \in BOOLEAN
    /\ accounts = [m \in Members |->
                     [deposit |-> Opening.deposit, borrow |-> Opening.borrow, seq |-> 0]]
    /\ totals = [deposit |-> Cardinality(Members) * Opening.deposit,
                 borrow |-> Cardinality(Members) * Opening.borrow]
    /\ wallet \in Members /\ moves = 0 /\ reads = {}
    /\ page = [address |-> Nobody, effect |-> Nobody, refresh |-> FALSE,
               stats |-> NoStats, loading |-> FALSE, error |-> FALSE]
    /\ loads = {}
    /\ busy = 0 /\ submits = <<>>

-----------------------------------------------------------------------------
(* The wallet, and watchWallet.                                            *)

\* The member locks the wallet or changes its account; a call of Freighter that
\* fails looks the same to the page.
ChangeWallet(w) ==
    /\ w # wallet /\ moves < MaxMoves
    /\ wallet' = w /\ moves' = moves + 1
    /\ UNCHANGED <<live, chainVars, reads, pageVars, panelVars>>

\* A tick of the interval: the answers of two ticks may arrive in any order.
ReadWallet ==
    /\ wallet \notin reads /\ Cardinality(reads) < MaxReads
    /\ Cardinality(reads) + Len(submits) < MaxPending
    /\ reads' = reads \cup {wallet}
    /\ UNCHANGED <<live, chainVars, wallet, moves, pageVars, panelVars>>

\* Mutant of ShowAddress: a new account does not replace the one shown.
KeepAddress(w) ==
    /\ page' = [page EXCEPT !.address = IF page.address = Nobody THEN w ELSE page.address]
    /\ UNCHANGED busy

\* The panel of a page that shows nobody is unmounted: the next one is not busy.
ShowAddress(w) ==
    /\ page' = [page EXCEPT !.address = w]
    /\ busy' = IF w = Nobody THEN 0 ELSE busy

AnswerWallet(w) ==
    /\ w \in reads
    /\ reads' = reads \ {w}
    /\ ShowAddress(w)
    /\ UNCHANGED <<live, chainVars, wallet, moves, loads, submits>>

-----------------------------------------------------------------------------
(* Loading the statistics: the effect on [address, refreshTick].           *)

StatsOf(m) ==
    [of |-> m, deposit |-> accounts[m].deposit, borrow |-> accounts[m].borrow,
     seq |-> accounts[m].seq]

\* Mutant of StillAwaited: the clean-up of the effect forgets to cancel.
AllAwaited == loads

\* The loads under way that the page heeds after the effect was cleaned up: the
\* answer of a cancelled one is ignored, whenever it comes.
StillAwaited == {}

\* The simulator is read on the spot, the ledger by a call.
NewLoad(m) ==
    [of |-> m, answer |-> IF live THEN Unread ELSE StatsOf(m)]

\* Mutant of RunEffect: refreshTick is missing from its dependencies.
RunEffectOfAddress ==
    /\ page.effect # page.address
    /\ page' = IF page.address = Nobody
               THEN [page EXCEPT !.effect = Nobody, !.stats = NoStats]
               ELSE [page EXCEPT !.effect = page.address, !.loading = TRUE, !.error = FALSE]
    /\ loads' = StillAwaited \cup (IF page.address = Nobody THEN {} ELSE {NewLoad(page.address)})
    /\ UNCHANGED <<live, chainVars, walletVars, panelVars>>

\* React runs the effect some time after the state changed; until then the
\* answer of the load before still counts.
RunEffect ==
    /\ page.refresh \/ page.effect # page.address
    /\ page' = IF page.address = Nobody
               THEN [page EXCEPT !.effect = Nobody, !.refresh = FALSE, !.stats = NoStats]
               ELSE [page EXCEPT !.effect = page.address, !.refresh = FALSE,
                                 !.loading = TRUE, !.error = FALSE]
    /\ loads' = StillAwaited \cup (IF page.address = Nobody THEN {} ELSE {NewLoad(page.address)})
    /\ UNCHANGED <<live, chainVars, walletVars, panelVars>>

\* get_member_stats is simulated at some moment of the call, or the call fails.
AnswerLoad(l) ==
    /\ l \in loads /\ l.answer = Unread
    /\ \E answer \in {StatsOf(l.of), Failed} :
         loads' = (loads \ {l}) \cup {[l EXCEPT !.answer = answer]}
    /\ UNCHANGED <<live, chainVars, walletVars, page, panelVars>>

\* A failed load leaves the statistics that were there.
FinishLoad(l) ==
    /\ l \in loads /\ l.answer # Unread
    /\ loads' = loads \ {l}
    /\ page' = IF l.answer = Failed
               THEN [page EXCEPT !.loading = FALSE, !.error = TRUE]
               ELSE [page EXCEPT !.loading = FALSE, !.stats = l.answer]
    /\ UNCHANGED <<live, chainVars, walletVars, panelVars>>

\* The inline error disappears after five seconds.
ClearError ==
    /\ page.error
    /\ page' = [page EXCEPT !.error = FALSE]
    /\ UNCHANGED <<live, chainVars, walletVars, loads, panelVars>>

Refresh ==
    /\ page.address # Nobody /\ ~page.refresh /\ moves < MaxMoves
    /\ moves' = moves + 1
    /\ page' = [page EXCEPT !.refresh = TRUE]
    /\ UNCHANGED <<live, chainVars, wallet, reads, loads, panelVars>>

-----------------------------------------------------------------------------
(* Submitting an action: ActionPanel.submit and submitRequest.             *)

\* The checks of the panel, on the statistics it shows.
PanelAccepts(ask) ==
    /\ ask.amount > 0
    /\ ask.action = "borrow" => ask.amount <= AvailableToBorrow(page.stats)
    /\ ask.action = "repay" => ask.amount <= page.stats.borrow

NewSubmit(ask, stage) ==
    [from |-> page.address, action |-> ask.action, amount |-> ask.amount, stage |-> stage,
     tx |-> "none", seq |-> 0, valid |-> ValidFor, poll |-> PollFor]

Click(ask) ==
    /\ page.address # Nobody /\ busy = 0
    /\ Len(submits) < MaxSubmits
    /\ Cardinality(reads) + Len(submits) < MaxPending
    /\ PanelAccepts(ask)
    /\ busy' = Len(submits) + 1

ClickLive(ask) ==
    /\ live /\ Click(ask)
    /\ submits' = Append(submits, NewSubmit(ask, "prepare"))
    /\ UNCHANGED <<live, chainVars, walletVars, pageVars>>

Credit(m, action, n) ==
    LET credited == Applied(accounts[m], action, n)
    IN accounts' = [accounts EXCEPT ![m] = [credited EXCEPT !.seq = @ + 1]]

\* The simulator applies the action before it pretends to wait.
ClickSimulated(ask) ==
    /\ ~live /\ Click(ask)
    /\ CanApply(accounts[page.address], ask.action, ask.amount)
    /\ Credit(page.address, ask.action, ask.amount)
    /\ totals' = Bumped(totals, ask.action, ask.amount)
    /\ submits' = Append(submits, [NewSubmit(ask, "wait") EXCEPT
                        !.tx = "success", !.seq = accounts[page.address].seq])
    /\ UNCHANGED <<live, walletVars, pageVars>>

Proceeds(i, s) ==
    /\ submits' = [submits EXCEPT ![i] = s]
    /\ UNCHANGED <<live, chainVars, walletVars, pageVars, busy>>

\* An exception: a toast, and the panel is free again.
EndsInError(i, s) ==
    /\ submits' = [submits EXCEPT ![i] = [s EXCEPT !.stage = "error"]]
    /\ busy' = IF busy = i THEN 0 ELSE busy
    /\ UNCHANGED <<live, chainVars, walletVars, pageVars>>

Fails(i) == EndsInError(i, submits[i])

\* onSuccess of a panel reaches the page even after the panel was unmounted.
Succeeds(i) ==
    /\ submits' = [submits EXCEPT ![i].stage = "ok"]
    /\ busy' = IF busy = i THEN 0 ELSE busy
    /\ page' = [page EXCEPT !.refresh = TRUE]
    /\ UNCHANGED <<live, chainVars, walletVars, loads>>

\* getAccount and prepareTransaction
Prepare(i) ==
    /\ submits[i].stage = "prepare"
    /\ \/ Fails(i)
       \/ Proceeds(i, [submits[i] EXCEPT !.stage = "sign", !.seq = accounts[submits[i].from].seq])

\* The member signs or refuses, and the transaction is sent.  An answer that is
\* not ERROR does not mean that the network took it (TRY_AGAIN_LATER), and the
\* call may be rejected although it did.
SignAndSend(i) ==
    /\ submits[i].stage = "sign"
    /\ \/ Fails(i)
       \/ Proceeds(i, [submits[i] EXCEPT !.stage = "sent", !.tx = "dropped", !.valid = 0])
       \/ /\ submits[i].valid > 0
          /\ LET taken == [submits[i] EXCEPT !.tx = "pending"]
             IN Proceeds(i, [taken EXCEPT !.stage = "sent"]) \/ EndsInError(i, taken)

\* getTransaction is under way: the first time, or until the deadline that is set
\* when the first one is answered.
Polling(s) == s.stage \in {"sent", "poll"}
NotFound(s) == s.tx \notin {"success", "failed"}

\* Mutant of Poll: what is not found when the deadline passes is taken for a success.
PollOptimistic(i) ==
    /\ Polling(submits[i])
    /\ \/ /\ submits[i].tx = "success" \/ (NotFound(submits[i]) /\ submits[i].poll = 0)
          /\ Succeeds(i)
       \/ /\ NotFound(submits[i]) /\ submits[i].poll > 0
          /\ Proceeds(i, [submits[i] EXCEPT !.stage = "pause"])
       \/ Fails(i)

\* Mutant of Poll: the transaction is polled until it is found.
PollForever(i) ==
    /\ Polling(submits[i])
    /\ \/ submits[i].tx = "success" /\ Succeeds(i)
       \/ NotFound(submits[i]) /\ Proceeds(i, [submits[i] EXCEPT !.stage = "pause"])
       \/ Fails(i)

\* A call of getTransaction ends: what is not found before the deadline is asked
\* for again.  A transaction that failed, one not found after the deadline, and a
\* call that is rejected at any time, are errors.
Poll(i) ==
    /\ Polling(submits[i])
    /\ \/ submits[i].tx = "success" /\ Succeeds(i)
       \/ /\ NotFound(submits[i]) /\ submits[i].poll > 0
          /\ Proceeds(i, [submits[i] EXCEPT !.stage = "pause"])
       \/ Fails(i)

\* The wait of 1.5 s between two calls is short against the deadline: any number
\* of calls fit in a tick of the clock.
PollAgain(i) ==
    /\ submits[i].stage = "pause"
    /\ Proceeds(i, [submits[i] EXCEPT !.stage = "poll"])

FinishSimulated(i) == submits[i].stage = "wait" /\ Succeeds(i)

-----------------------------------------------------------------------------
(* The ledger and the clock.                                               *)

\* The pool withdraws and repays no more than there is.
Served(s) ==
    LET m == accounts[s.from]
        held == IF s.action = "repay" THEN m.borrow ELSE m.deposit
    IN IF s.action \in {"withdraw", "repay"} /\ s.amount > held THEN held ELSE s.amount

\* A transaction is included in time and with the next sequence number of its
\* account, successfully or not.
Include(i) ==
    LET s == submits[i]
    IN /\ s.tx = "pending" /\ s.valid > 0 /\ s.seq = accounts[s.from].seq
       /\ \/ /\ submits' = [submits EXCEPT ![i].tx = "success", ![i].valid = 0]
             /\ Credit(s.from, s.action, Served(s))
          \/ /\ submits' = [submits EXCEPT ![i].tx = "failed", ![i].valid = 0]
             /\ accounts' = [accounts EXCEPT ![s.from].seq = @ + 1]
       /\ UNCHANGED <<live, totals, walletVars, pageVars, busy>>

Drop(i) ==
    /\ submits[i].tx = "pending"
    /\ submits[i].valid = 0 \/ submits[i].seq # accounts[submits[i].from].seq
    /\ Proceeds(i, [submits[i] EXCEPT !.tx = "dropped", !.valid = 0])

Sooner(n) == IF n = 0 THEN 0 ELSE n - 1

Aged(s) ==
    [s EXCEPT !.valid = IF s.stage = "sign" \/ s.tx = "pending" THEN Sooner(@) ELSE @,
              !.poll = IF s.stage \in {"poll", "pause"} THEN Sooner(@) ELSE @]

PassTime ==
    /\ submits' = [i \in DOMAIN submits |-> Aged(submits[i])]
    /\ submits' # submits
    /\ UNCHANGED <<live, chainVars, walletVars, pageVars, busy>>

-----------------------------------------------------------------------------
MemberStep ==
    \/ \E w \in Members \cup {Nobody} : ChangeWallet(w)
    \/ Refresh
    \/ \E ask \in Asks[live] : ClickLive(ask) \/ ClickSimulated(ask)

PageStep ==
    \/ ReadWallet
    \/ \E w \in Members \cup {Nobody} : AnswerWallet(w)
    \/ RunEffect
    \/ \E l \in loads : AnswerLoad(l) \/ FinishLoad(l)
    \/ ClearError

SubmitStep ==
    \E i \in DOMAIN submits :
        Prepare(i) \/ SignAndSend(i) \/ Poll(i) \/ PollAgain(i) \/ FinishSimulated(i)

LedgerStep ==
    \/ \E i \in DOMAIN submits : Include(i) \/ Drop(i)
    \/ PassTime

DashboardNext == MemberStep \/ PageStep \/ SubmitStep \/ LedgerStep

\* The event loop runs every timer, effect and callback in turn, calls of the
\* RPC are answered or rejected, and time passes: without that the deadline of
\* a poll never comes.  Nothing is assumed of the member, the wallet's pop-up or
\* the inclusion of transactions.
DashboardFairness ==
    /\ WF_dashboardVars(ReadWallet)
    /\ \A w \in Members \cup {Nobody} : WF_dashboardVars(AnswerWallet(w))
    /\ WF_dashboardVars(RunEffect)
    /\ WF_dashboardVars(\E l \in loads : AnswerLoad(l))
    /\ WF_dashboardVars(\E l \in loads : FinishLoad(l))
    /\ \A i \in 1..MaxSubmits :
         WF_dashboardVars(i \in DOMAIN submits
                            /\ (Poll(i) \/ PollAgain(i) \/ FinishSimulated(i)))
    /\ WF_dashboardVars(PassTime)

DashboardSpec == DashboardInit /\ [][DashboardNext]_dashboardVars /\ DashboardFairness

-----------------------------------------------------------------------------
(* What the dashboard must never get wrong.                                *)

\* In the simulator every member stays within twice the deposit, and the totals,
\* adjusted on their own and clamped at zero, are the sums of the members'.
SimulatorSound ==
    ~live =>
        /\ \A m \in Members : accounts[m].borrow <= 2 * accounts[m].deposit
        /\ totals.deposit = SumFunction([m \in Members |-> accounts[m].deposit])
        /\ totals.borrow = SumFunction([m \in Members |-> accounts[m].borrow])

\* A member is told that an action succeeded only when it took effect, and two
\* submits built on the same state of the account never both did: however late,
\* lost or repeated, a transaction counts once.
SuccessIsTrue ==
    \A i \in DOMAIN submits :
        /\ submits[i].stage = "ok" => submits[i].tx = "success"
        /\ live => \A j \in DOMAIN submits :
             (i # j /\ submits[i].tx = "success" /\ submits[j].tx = "success"
                /\ submits[i].from = submits[j].from) => submits[i].seq # submits[j].seq

\* Statistics that arrive are those of the account the page is loading, and never
\* older than what it showed of the same account: an answer that was overtaken by
\* a change of account or a refresh is not shown.  Until the answer comes, and
\* after a failed load, the page goes on showing what it had, the statistics of
\* the account before included.
NoOvertakenAnswer ==
    [][page.stats' \notin {NoStats, page.stats} =>
         /\ page.stats'.of = page.effect
         /\ page.stats.of = page.effect => page.stats'.seq >= page.stats.seq]_dashboardVars

At(i, stages) == i \in DOMAIN submits /\ submits[i].stage \in stages

\* Once sent, an action is reported as a success or a failure, whatever becomes
\* of its transaction: the deadline ends the polling of one that is never found.
PollingEnds ==
    \A i \in 1..MaxSubmits : At(i, {"sent", "poll", "pause"}) ~> At(i, {"ok", "error"})

ShowsEffectOf(i) ==
    /\ i \in DOMAIN submits
    /\ \/ page.address # submits[i].from
       \/ page.stats.of = submits[i].from /\ page.stats.seq > submits[i].seq
       \/ page.error

\* When the page is told to load again after a success, it comes to show
\* statistics that include it, unless the account shown changes or the load fails
\* (and says so): the load that was under way is not mistaken for the new one.
SeesOwnSuccess ==
    \A i \in 1..MaxSubmits : (At(i, {"ok"}) /\ page.refresh) ~> ShowsEffectOf(i)

\* The page comes to show the account the wallet stays with, although answers
\* about earlier accounts may arrive after newer ones.
FollowsWallet ==
    \A w \in Members \cup {Nobody} : <>[](wallet = w) => <>[](page.address = w)

\* frontend/README.md: "Every successful action surfaces the tx hash with a link
\* to Stellar Expert."  No action that was given up as not found when its deadline
\* passed succeeds after all.
SuccessIsSurfaced ==
    [][\A i \in DOMAIN submits :
         submits[i].stage = "error" /\ submits[i].poll = 0 /\ submits[i].tx = "pending"
           => submits'[i].tx # "success"]_dashboardVars
=============================================================================

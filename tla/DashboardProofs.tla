-------------------------- MODULE DashboardProofs --------------------------
(***************************************************************************)
(* What is always true of the dashboard, however its asynchronous parts    *)
(* interleave: the simulator keeps its books, a reported success is one,   *)
(* and no answer is shown that was overtaken by a change of account or by  *)
(* a newer one.  (What was shown before an answer stays until it comes.)   *)
(*                                                                         *)
(* DashboardInv is inductive.  Besides the properties it says how far a    *)
(* submit has got at each of its stages, and that the load under way is    *)
(* the one the page is waiting for and will tell it nothing older.         *)
(***************************************************************************)
EXTENDS Dashboard, ArithmeticProofs, SequenceTheorems

\* What a submit that has got this far left behind, in the accounts a.
OrderlySubmit(s, a) ==
    /\ s.stage \in {"prepare", "sign"} => s.tx = "none"
    /\ s.stage \in {"wait", "ok"} => s.tx = "success"
    /\ live => (s.tx = "success" => s.seq < a[s.from].seq)
    /\ ~live => s.stage \in {"wait", "ok"}

Orderly(ss, a) == \A i \in DOMAIN ss : OrderlySubmit(ss[i], a)

\* No two submits had an effect on the same state of an account.
Distinct(ss) ==
    live => \A i, j \in DOMAIN ss :
        (i # j /\ ss[i].tx = "success" /\ ss[j].tx = "success" /\ ss[i].from = ss[j].from)
            => ss[i].seq # ss[j].seq

\* What a load will tell the page p: of the account it shows, and nothing older.
OrderlyLoad(l, p, a) ==
    /\ l.of = p.effect
    /\ l.answer \notin {Unread, Failed} =>
         /\ l.answer.of = l.of /\ l.answer.seq <= a[l.of].seq
         /\ p.stats.of = l.of => p.stats.seq <= l.answer.seq

Loading(ls, p, a) ==
    /\ \A l \in ls : OrderlyLoad(l, p, a)
    /\ p.stats.of # Nobody => p.stats.seq <= a[p.stats.of].seq

DashboardInv ==
    /\ DashboardTypeOK /\ IsFiniteSet(loads)
    /\ SimulatorSound
    /\ Orderly(submits, accounts) /\ Distinct(submits)
    /\ Loading(loads, page, accounts)

OnChain == [deposit : Nat, borrow : Nat, seq : Nat]

-----------------------------------------------------------------------------
(* The simulator's books.                                                  *)

\* A constant summed over a set.
LEMMA SumOfSame ==
    ASSUME NEW c \in Int, NEW S, IsFiniteSet(S)
    PROVE  SumFunction([x \in S |-> c]) = Cardinality(S) * c
<1> DEFINE f == [x \in S |-> c]
           Bad == {U \in SUBSET S : Sum(f, U) # Cardinality(U) * c}
<1>1. ASSUME Bad # {} PROVE FALSE
  <2>1. Bad \subseteq SUBSET S
    OBVIOUS
  <2>2. PICK U \in Bad : \A V \in Bad : ~(V \subseteq U /\ V # U)
    <3> HIDE DEF Bad
    <3> QED
      BY <1>1, <2>1, SmallestSubset
  <2>3. IsFiniteSet(U) /\ U \subseteq S
    BY <2>2, FS_Subset
  <2>4. U # {}
    <3>1. Sum(f, {}) = 0 /\ Cardinality({}) = 0
      BY SumEmpty, FS_EmptySet
    <3>2. 0 * c = 0
      BY SMT
    <3> QED
      BY <2>2, <3>1, <3>2
  <2> DEFINE x == Pick(U)
             V == U \ {x}
  <2>5. x \in U /\ Sum(f, U) = f[x] + Sum(f, V)
    BY <2>3, <2>4, SumUnfolds
  <2> HIDE DEF x
  <2>6. /\ V \in SUBSET S /\ V # U /\ V \subseteq U
        /\ IsFiniteSet(V) /\ Cardinality(V) = Cardinality(U) - 1
    BY <2>3, <2>5, FS_RemoveElement
  <2>7. Sum(f, V) = Cardinality(V) * c
    BY <2>2, <2>6
  <2>8. Cardinality(V) \in Nat /\ Cardinality(U) \in Nat
    BY <2>3, <2>6, FS_CardinalityType
  <2>9. f[x] = c
    BY <2>3, <2>5
  <2> DEFINE m == Cardinality(V)
             n == Cardinality(U)
  <2>10. n * c = c + m * c
    <3>1. n = m + 1 /\ m \in Int
      BY <2>6, <2>8
    <3> HIDE DEF m, n
    <3> QED
      BY <3>1, SMT
  <2> QED
    BY <2>2, <2>5, <2>7, <2>9, <2>10
<1>2. Sum(f, S) = Cardinality(S) * c
  BY <1>1
<1> QED
  BY <1>2, SumFunctionIsSum

\* An action moves one of the two amounts of an account, and nothing else.
LEMMA AppliedIs ==
    ASSUME NEW m \in OnChain, NEW action \in Actions, NEW n \in Nat,
           action = "withdraw" => n <= m.deposit,
           action = "repay" => n <= m.borrow
    PROVE  LET r == Applied(m, action, n)
           IN /\ r \in OnChain /\ r.seq = m.seq
              /\ r.deposit = m.deposit + (IF action = "deposit" THEN n
                                          ELSE IF action = "withdraw" THEN -n ELSE 0)
              /\ r.borrow = m.borrow + (IF action = "borrow" THEN n
                                        ELSE IF action = "repay" THEN -n ELSE 0)
<1>1. CASE action = "deposit"
  BY <1>1 DEF Applied, OnChain
<1>2. CASE action = "withdraw"
  BY <1>2 DEF Applied, OnChain
<1>3. CASE action = "borrow"
  BY <1>3 DEF Applied, OnChain
<1>4. CASE action = "repay"
  BY <1>4 DEF Applied, OnChain
<1> QED
  BY <1>1, <1>2, <1>3, <1>4 DEF Actions

\* So do the totals, when what they lose is there.
LEMMA BumpedIs ==
    ASSUME NEW t \in Account, NEW action \in Actions, NEW n \in Nat,
           action = "withdraw" => n <= t.deposit,
           action = "repay" => n <= t.borrow
    PROVE  LET r == Bumped(t, action, n)
           IN /\ r \in Account
              /\ r.deposit = t.deposit + (IF action = "deposit" THEN n
                                          ELSE IF action = "withdraw" THEN -n ELSE 0)
              /\ r.borrow = t.borrow + (IF action = "borrow" THEN n
                                        ELSE IF action = "repay" THEN -n ELSE 0)
<1>1. CASE action = "deposit"
  BY <1>1 DEF Bumped, Account, AtLeastZero
<1>2. CASE action = "withdraw"
  BY <1>2 DEF Bumped, Account, AtLeastZero
<1>3. CASE action = "borrow"
  BY <1>3 DEF Bumped, Account, AtLeastZero
<1>4. CASE action = "repay"
  BY <1>4 DEF Bumped, Account, AtLeastZero
<1> QED
  BY <1>1, <1>2, <1>3, <1>4 DEF Actions

\* Crediting an account builds a transaction into it.
LEMMA CreditIs ==
    ASSUME accounts \in [Members -> OnChain], NEW m \in Members,
           NEW action \in Actions, NEW n \in Nat,
           action = "withdraw" => n <= accounts[m].deposit,
           action = "repay" => n <= accounts[m].borrow,
           Credit(m, action, n)
    PROVE  /\ accounts' \in [Members -> OnChain]
           /\ accounts'[m].seq = accounts[m].seq + 1
           /\ accounts'[m].deposit = Applied(accounts[m], action, n).deposit
           /\ accounts'[m].borrow = Applied(accounts[m], action, n).borrow
           /\ \A u \in Members \ {m} : accounts'[u] = accounts[u]
<1> DEFINE r == Applied(accounts[m], action, n)
<1>1. r \in OnChain /\ r.seq = accounts[m].seq /\ accounts[m] \in OnChain
  <2>1. accounts[m] \in OnChain
    OBVIOUS
  <2> QED
    BY <2>1, AppliedIs
<1>2. accounts' = [accounts EXCEPT ![m] = [r EXCEPT !.seq = @ + 1]]
  BY DEF Credit
<1> HIDE DEF r
<1>3. /\ [r EXCEPT !.seq = @ + 1] \in OnChain
      /\ [r EXCEPT !.seq = @ + 1].seq = accounts[m].seq + 1
      /\ [r EXCEPT !.seq = @ + 1].deposit = r.deposit
      /\ [r EXCEPT !.seq = @ + 1].borrow = r.borrow
  BY <1>1 DEF OnChain
<1> DEFINE c == [r EXCEPT !.seq = @ + 1]
<1> HIDE DEF c
<1>4. /\ accounts' = [accounts EXCEPT ![m] = c]
      /\ c \in OnChain /\ c.seq = accounts[m].seq + 1
      /\ c.deposit = r.deposit /\ c.borrow = r.borrow
  BY <1>2, <1>3 DEF c
<1> QED
  BY <1>4 DEF r

\* The totals follow a credited account.
LEMMA BooksFollow ==
    ASSUME DashboardAssumption, accounts \in [Members -> OnChain], totals \in Account,
           SimulatorSound, ~live, live' = live,
           NEW m \in Members, NEW action \in Actions, NEW n \in Nat,
           CanApply(accounts[m], action, n), Credit(m, action, n),
           totals' = Bumped(totals, action, n)
    PROVE  /\ SimulatorSound' /\ totals' \in Account
           /\ accounts' \in [Members -> OnChain]
<1> DEFINE d == [u \in Members |-> accounts[u].deposit]
           b == [u \in Members |-> accounts[u].borrow]
           e == [u \in Members |-> accounts'[u].deposit]
           c == [u \in Members |-> accounts'[u].borrow]
           r == Applied(accounts[m], action, n)
<1>1. accounts[m] \in OnChain
  OBVIOUS
<1>2. /\ action = "withdraw" => n <= accounts[m].deposit
      /\ action = "repay" => n <= accounts[m].borrow
  BY DEF CanApply
<1>3. /\ accounts' \in [Members -> OnChain]
      /\ accounts'[m].deposit = r.deposit /\ accounts'[m].borrow = r.borrow
      /\ \A u \in Members \ {m} : accounts'[u] = accounts[u]
  BY <1>2, CreditIs
<1>4. /\ d \in [Members -> Nat] /\ b \in [Members -> Nat]
      /\ e \in [Members -> Nat] /\ c \in [Members -> Nat]
  BY <1>3 DEF OnChain
<1>5. IsFiniteSet(Members)
  BY DEF DashboardAssumption
<1>6. /\ totals.deposit = SumFunction(d) /\ totals.borrow = SumFunction(b)
      /\ accounts[m].deposit <= totals.deposit /\ accounts[m].borrow <= totals.borrow
  <2>1. totals.deposit = SumFunction(d) /\ totals.borrow = SumFunction(b)
    BY DEF SimulatorSound
  <2>2. d[m] <= SumFunction(d) /\ b[m] <= SumFunction(b)
    <3> HIDE DEF d, b
    <3> QED
      BY <1>4, <1>5, SumFunctionBound
  <2>3. d[m] = accounts[m].deposit /\ b[m] = accounts[m].borrow
    OBVIOUS
  <2> QED
    BY <2>1, <2>2, <2>3
<1>7. /\ SumFunction(e) = SumFunction(d) + e[m] - d[m]
      /\ SumFunction(c) = SumFunction(b) + c[m] - b[m]
  <2>1. /\ \A u \in Members \ {m} : e[u] = d[u]
        /\ \A u \in Members \ {m} : c[u] = b[u]
    BY <1>3
  <2>2. /\ d \in [Members -> Int] /\ b \in [Members -> Int]
        /\ e \in [Members -> Int] /\ c \in [Members -> Int]
    BY <1>4
  <2> HIDE DEF d, b, e, c
  <2> QED
    BY <1>5, <2>1, <2>2, SumFunctionUpdate
<1>8. /\ d[m] = accounts[m].deposit /\ b[m] = accounts[m].borrow
      /\ e[m] = r.deposit /\ c[m] = r.borrow
  BY <1>3
<1>9. /\ r.deposit = accounts[m].deposit + (IF action = "deposit" THEN n
                                            ELSE IF action = "withdraw" THEN -n ELSE 0)
      /\ r.borrow = accounts[m].borrow + (IF action = "borrow" THEN n
                                          ELSE IF action = "repay" THEN -n ELSE 0)
  BY <1>1, <1>2, AppliedIs
<1>10. /\ action = "withdraw" => n <= totals.deposit
       /\ action = "repay" => n <= totals.borrow
  <2>1. totals.deposit \in Nat /\ totals.borrow \in Nat
    BY DEF Account
  <2>2. accounts[m].deposit \in Nat /\ accounts[m].borrow \in Nat
    BY <1>1 DEF OnChain
  <2> QED
    BY <1>2, <1>6, <2>1, <2>2
<1>11. /\ totals' \in Account
       /\ totals'.deposit = totals.deposit + (IF action = "deposit" THEN n
                                              ELSE IF action = "withdraw" THEN -n ELSE 0)
       /\ totals'.borrow = totals.borrow + (IF action = "borrow" THEN n
                                            ELSE IF action = "repay" THEN -n ELSE 0)
  BY <1>10, BumpedIs
<1>12. totals'.deposit = SumFunction(e) /\ totals'.borrow = SumFunction(c)
  <2>1. /\ totals.deposit \in Nat /\ totals.borrow \in Nat
        /\ accounts[m].deposit \in Nat /\ accounts[m].borrow \in Nat
    BY <1>1 DEF Account, OnChain
  <2> HIDE DEF d, b, e, c, r
  <2>2. /\ SumFunction(e) = totals.deposit + r.deposit - accounts[m].deposit
        /\ SumFunction(c) = totals.borrow + r.borrow - accounts[m].borrow
    BY <1>6, <1>7, <1>8
  <2> QED
    BY <1>9, <1>11, <2>1, <2>2
<1>13. \A u \in Members : accounts'[u].borrow <= 2 * accounts'[u].deposit
  <2>1. accounts[m].borrow <= 2 * accounts[m].deposit
    BY DEF SimulatorSound
  <2>2. r.borrow <= 2 * r.deposit
    <3>1. accounts[m].deposit \in Nat /\ accounts[m].borrow \in Nat
      BY <1>1 DEF OnChain
    <3> HIDE DEF r
    <3> QED
      BY <1>9, <2>1, <3>1 DEF CanApply
  <2>3. \A u \in Members : accounts[u].borrow <= 2 * accounts[u].deposit
    BY DEF SimulatorSound
  <2> QED
    BY <1>3, <2>2, <2>3
<1> QED
  BY <1>3, <1>11, <1>12, <1>13 DEF SimulatorSound


-----------------------------------------------------------------------------
(* What a step does to the submits.                                        *)

\* One submit moves on, and no account loses a transaction.  A success is new
\* only when it takes the number its account expects.
LEMMA OneMovesOn ==
    ASSUME live' = live, accounts \in [Members -> OnChain], accounts' \in [Members -> OnChain],
           \A m \in Members : accounts[m].seq <= accounts'[m].seq,
           submits \in Seq(Submit), Orderly(submits, accounts), Distinct(submits),
           NEW i \in DOMAIN submits, NEW s \in Submit,
           submits' = [submits EXCEPT ![i] = s],
           OrderlySubmit(s, accounts'),
           \/ s.tx # "success"
           \/ submits[i].tx = "success" /\ s.from = submits[i].from /\ s.seq = submits[i].seq
           \/ s.seq = accounts[s.from].seq
    PROVE  /\ submits' \in Seq(Submit)
           /\ DOMAIN submits' = DOMAIN submits
           /\ \A j \in DOMAIN submits : submits'[j] = IF j = i THEN s ELSE submits[j]
           /\ Orderly(submits, accounts)' /\ Distinct(submits)'
<1>1. /\ submits' \in Seq(Submit)
      /\ DOMAIN submits' = DOMAIN submits
      /\ \A j \in DOMAIN submits : submits'[j] = IF j = i THEN s ELSE submits[j]
  <2>1. DOMAIN submits = 1..Len(submits)
    BY LenProperties
  <2>2. /\ submits' \in Seq(Submit) /\ Len(submits') = Len(submits)
        /\ \A j \in 1..Len(submits) : submits'[j] = IF j = i THEN s ELSE submits[j]
    BY <2>1, ExceptSeq
  <2>3. DOMAIN submits' = 1..Len(submits')
    BY <2>2, LenProperties
  <2> QED
    BY <2>1, <2>2, <2>3
<1>2. \A j \in DOMAIN submits : submits[j] \in Submit /\ submits[j].from \in Members
  <2> SUFFICES ASSUME NEW j \in DOMAIN submits
               PROVE  submits[j] \in Submit
    BY DEF Submit
  <2>1. j \in 1..Len(submits)
    BY LenProperties
  <2> QED
    BY <2>1, ElementOfSeq
<1>3. Orderly(submits, accounts)'
  <2> SUFFICES ASSUME NEW j \in DOMAIN submits
               PROVE  OrderlySubmit(submits[j], accounts)'
    BY <1>1 DEF Orderly
  <2>1. CASE j = i
    BY <1>1, <2>1 DEF OrderlySubmit
  <2>2. CASE j # i
    <3> DEFINE t == submits[j]
    <3>1. submits'[j] = t /\ OrderlySubmit(t, accounts) /\ t \in Submit /\ t.from \in Members
      BY <1>1, <1>2, <2>2 DEF Orderly
    <3>2. /\ accounts[t.from].seq <= accounts'[t.from].seq
          /\ accounts[t.from].seq \in Nat /\ accounts'[t.from].seq \in Nat /\ t.seq \in Nat
      BY <3>1 DEF OnChain, Submit
    <3> HIDE DEF t
    <3>3. t.seq < accounts[t.from].seq => t.seq < accounts'[t.from].seq
      BY <3>2
    <3> QED
      BY <3>1, <3>3 DEF OrderlySubmit
  <2> QED
    BY <2>1, <2>2
<1>4. Distinct(submits)'
  <2> SUFFICES ASSUME live, NEW j \in DOMAIN submits, NEW k \in DOMAIN submits, j # k,
                      submits'[j].tx = "success", submits'[k].tx = "success",
                      submits'[j].from = submits'[k].from
               PROVE  submits'[j].seq # submits'[k].seq
    BY <1>1 DEF Distinct
  <2>1. \A x \in DOMAIN submits : submits[x].tx = "success" =>
          submits[x].seq < accounts[submits[x].from].seq
    BY DEF Orderly, OrderlySubmit
  <2>2. \A x, y \in DOMAIN submits :
          (x # y /\ submits[x].tx = "success" /\ submits[y].tx = "success"
             /\ submits[x].from = submits[y].from) => submits[x].seq # submits[y].seq
    BY DEF Distinct
  <2>3. \A x \in DOMAIN submits :
          submits[x].seq \in Nat /\ accounts[submits[x].from].seq \in Nat
    BY <1>2 DEF Submit, OnChain
  <2>4. CASE j = i
    <3>1. submits'[j] = s /\ submits'[k] = submits[k] /\ k # i
      BY <1>1, <2>4
    <3>2. CASE submits[i].tx = "success" /\ s.from = submits[i].from /\ s.seq = submits[i].seq
      BY <2>2, <2>4, <3>1, <3>2
    <3>3. CASE s.seq = accounts[s.from].seq
      <4>1. submits[k].seq < accounts[submits[k].from].seq /\ submits[k].from = s.from
        BY <2>1, <3>1
      <4> QED
        BY <2>3, <3>1, <3>3, <4>1
    <3> QED
      BY <3>1, <3>2, <3>3
  <2>5. CASE k = i
    <3>1. submits'[k] = s /\ submits'[j] = submits[j] /\ j # i
      BY <1>1, <2>5
    <3>2. CASE submits[i].tx = "success" /\ s.from = submits[i].from /\ s.seq = submits[i].seq
      BY <2>2, <2>5, <3>1, <3>2
    <3>3. CASE s.seq = accounts[s.from].seq
      <4>1. submits[j].seq < accounts[submits[j].from].seq /\ submits[j].from = s.from
        BY <2>1, <3>1
      <4> QED
        BY <2>3, <3>1, <3>3, <4>1
    <3> QED
      BY <3>1, <3>2, <3>3
  <2>6. CASE j # i /\ k # i
    <3>1. submits'[j] = submits[j] /\ submits'[k] = submits[k]
      BY <1>1, <2>6
    <3> QED
      BY <2>2, <3>1
  <2> QED
    BY <2>4, <2>5, <2>6
<1> QED
  BY <1>1, <1>3, <1>4

\* A load under way stays right while the accounts go on.
LEMMA LoadingStays ==
    ASSUME DashboardTypeOK, Loading(loads, page, accounts),
           accounts' \in [Members -> OnChain],
           \A m \in Members : accounts[m].seq <= accounts'[m].seq,
           loads' = loads, page'.effect = page.effect, page'.stats = page.stats
    PROVE  Loading(loads, page, accounts)'
<1>1. accounts \in [Members -> OnChain] /\ loads \subseteq Load /\ page.stats \in Stats
  BY DEF DashboardTypeOK, OnChain, Page
<1>2. \A m \in Members : accounts[m].seq \in Nat /\ accounts'[m].seq \in Nat
  BY <1>1 DEF OnChain
<1>3. ASSUME NEW l \in loads
      PROVE  OrderlyLoad(l, page, accounts)'
  <2>1. OrderlyLoad(l, page, accounts) /\ l \in Load
    BY <1>1 DEF Loading
  <2>2. l.of \in Members /\ (l.answer \notin {Unread, Failed} => l.answer.seq \in Nat)
    BY <2>1 DEF Load, Stats
  <2>3. l.answer \notin {Unread, Failed} => l.answer.seq <= accounts'[l.of].seq
    BY <1>2, <2>1, <2>2 DEF OrderlyLoad
  <2> QED
    BY <2>1, <2>3 DEF OrderlyLoad
<1>4. page.stats.of # Nobody => page.stats.seq <= accounts'[page.stats.of].seq
  <2> HAVE page.stats.of # Nobody
  <2>1. page.stats.of \in Members /\ page.stats.seq \in Nat
    BY <1>1 DEF Stats
  <2>2. page.stats.seq <= accounts[page.stats.of].seq
    BY DEF Loading
  <2> QED
    BY <1>2, <2>1, <2>2
<1> QED
  BY <1>3, <1>4 DEF Loading

-----------------------------------------------------------------------------
(* Steps that leave the accounts and the submits alone.                    *)

\* The books and the submits are as good as they were.
LEMMA NothingSubmitted ==
    ASSUME DashboardInv, UNCHANGED <<live, accounts, totals, submits>>
    PROVE  /\ SimulatorSound' /\ Orderly(submits, accounts)' /\ Distinct(submits)'
  BY DEF DashboardInv, SimulatorSound, Orderly, OrderlySubmit, Distinct

LEMMA WalletSteps ==
    ASSUME DashboardAssumption, DashboardInv,
           \/ \E w \in Members \cup {Nobody} : ChangeWallet(w)
           \/ Refresh
           \/ ReadWallet
           \/ \E w \in Members \cup {Nobody} : AnswerWallet(w)
           \/ ClearError
    PROVE  DashboardInv'
<1> USE DEF DashboardInv
<1>1. /\ UNCHANGED <<live, accounts, totals, submits, loads>>
      /\ page' \in Page /\ page'.effect = page.effect /\ page'.stats = page.stats
      /\ wallet' \in Members \cup {Nobody} /\ reads' \subseteq Members \cup {Nobody}
      /\ moves' \in 0..MaxMoves /\ busy' \in {0, busy}
  <2>1. CASE \E w \in Members \cup {Nobody} : ChangeWallet(w)
    <3>1. PICK w \in Members \cup {Nobody} : ChangeWallet(w)
      BY <2>1
    <3>2. MaxMoves \in Nat /\ moves \in 0..MaxMoves
      BY DEF DashboardTypeOK, DashboardAssumption
    <3>3. moves' \in 0..MaxMoves
      BY <3>1, <3>2 DEF ChangeWallet
    <3> QED
      BY <3>1, <3>3 DEF ChangeWallet, DashboardTypeOK, chainVars, pageVars, panelVars
  <2>2. CASE Refresh
    <3>1. MaxMoves \in Nat /\ moves \in 0..MaxMoves /\ moves' \in 0..MaxMoves
      BY <2>2 DEF DashboardTypeOK, DashboardAssumption, Refresh
    <3> QED
      BY <2>2, <3>1 DEF Refresh, DashboardTypeOK, Page, chainVars, panelVars
  <2>3. CASE ReadWallet
    BY <2>3 DEF ReadWallet, DashboardTypeOK, chainVars, pageVars, panelVars
  <2>4. CASE \E w \in Members \cup {Nobody} : AnswerWallet(w)
    BY <2>4 DEF AnswerWallet, ShowAddress, DashboardTypeOK, Page, chainVars
  <2>5. CASE ClearError
    BY <2>5 DEF ClearError, DashboardTypeOK, Page, chainVars, walletVars, panelVars
  <2> QED
    BY <2>1, <2>2, <2>3, <2>4, <2>5
<1>2. DashboardTypeOK'
  BY <1>1 DEF DashboardTypeOK
<1>3. Loading(loads, page, accounts)'
  <2>1. accounts' \in [Members -> OnChain]
    BY <1>1 DEF DashboardTypeOK, OnChain
  <2>2. \A m \in Members : accounts[m].seq <= accounts'[m].seq
    BY <1>1 DEF DashboardTypeOK
  <2> QED
    BY <1>1, <2>1, <2>2, LoadingStays
<1>4. SimulatorSound' /\ Orderly(submits, accounts)' /\ Distinct(submits)'
  BY <1>1, NothingSubmitted
<1> QED
  BY <1>1, <1>2, <1>3, <1>4


\* The effect starts the only load the page waits for.
LEMMA EffectStep ==
    ASSUME DashboardInv, RunEffect
    PROVE  DashboardInv'
<1> USE DEF DashboardInv
<1>1. UNCHANGED <<live, accounts, totals, wallet, moves, reads, busy, submits>>
  BY DEF RunEffect, chainVars, walletVars, panelVars
<1>2. /\ page \in Page /\ accounts \in [Members -> OnChain]
      /\ page.address \in Members \cup {Nobody} /\ page.stats \in Stats
  BY DEF DashboardTypeOK, OnChain, Page
<1>3. CASE page.address = Nobody
  <2>1. loads' = {}
    BY <1>3 DEF RunEffect, StillAwaited
  <2>2. /\ page' = [page EXCEPT !.effect = Nobody, !.refresh = FALSE, !.stats = NoStats]
    BY <1>3 DEF RunEffect
  <2>3. page' \in Page /\ page'.stats.of = Nobody
    BY <1>2, <2>2 DEF Page, NoStats, Stats
  <2>4. IsFiniteSet(loads)' /\ Cardinality(loads)' = 0
    BY <2>1, FS_EmptySet
  <2>5. DashboardTypeOK'
    BY <1>1, <2>1, <2>3, <2>4 DEF DashboardTypeOK
  <2>6. Loading(loads, page, accounts)'
    BY <2>1, <2>3 DEF Loading
  <2> QED
    BY <1>1, <2>4, <2>5, <2>6, NothingSubmitted
<1>4. CASE page.address # Nobody
  <2> DEFINE l == NewLoad(page.address)
  <2>1. loads' = {l}
    BY <1>4 DEF RunEffect, StillAwaited
  <2>2. page' = [page EXCEPT !.effect = page.address, !.refresh = FALSE,
                             !.loading = TRUE, !.error = FALSE]
    BY <1>4 DEF RunEffect
  <2>3. page' \in Page /\ page'.effect = page.address /\ page'.stats = page.stats
    BY <1>2, <2>2 DEF Page
  <2>4. IsFiniteSet(loads)' /\ Cardinality(loads)' = 1
    BY <2>1, FS_Singleton
  <2>5. page.address \in Members /\ accounts[page.address] \in OnChain
    BY <1>2, <1>4
  <2>6. l \in Load /\ l.of = page.address
    BY <2>5 DEF NewLoad, Load, StatsOf, Stats, OnChain
  <2>7. DashboardTypeOK'
    BY <1>1, <2>1, <2>3, <2>4, <2>6 DEF DashboardTypeOK
  <2>8. page.stats.of # Nobody =>
          page.stats.seq <= accounts[page.stats.of].seq
    BY DEF Loading
  <2>9. l.answer \notin {Unread, Failed} =>
          l.answer.of = l.of /\ l.answer.seq = accounts[l.of].seq
    BY DEF NewLoad, StatsOf
  <2>10. OrderlyLoad(l, page', accounts)
    <3>1. accounts[l.of].seq <= accounts[l.of].seq
      BY <2>5, <2>6 DEF OnChain
    <3>2. page.stats.of = l.of => page.stats.seq <= accounts[l.of].seq
      BY <1>4, <2>6, <2>8
    <3> HIDE DEF l
    <3> QED
      BY <2>3, <2>6, <2>9, <3>1, <3>2 DEF OrderlyLoad
  <2>11. Loading(loads, page, accounts)'
    <3> HIDE DEF l
    <3> QED
      BY <1>1, <2>1, <2>3, <2>8, <2>10 DEF Loading, OrderlyLoad
  <2> QED
    BY <1>1, <2>4, <2>7, <2>11, NothingSubmitted
<1> QED
  BY <1>3, <1>4

\* There is no other load besides one there is.
LEMMA OnlyLoad ==
    ASSUME IsFiniteSet(loads), Cardinality(loads) <= 1, NEW l \in loads
    PROVE  loads = {l}
<1>1. Cardinality(loads \ {l}) = Cardinality(loads) - 1 /\ IsFiniteSet(loads \ {l})
  BY FS_RemoveElement
<1>2. Cardinality(loads) \in Nat /\ Cardinality(loads \ {l}) \in Nat
  BY <1>1, FS_CardinalityType
<1>3. Cardinality(loads \ {l}) = 0
  BY <1>1, <1>2
<1>4. loads \ {l} = {}
  BY <1>1, <1>3, FS_EmptySet
<1> QED
  BY <1>4

\* The ledger answers with what the account is worth at that moment.
LEMMA AnswerStep ==
    ASSUME DashboardInv, NEW l \in loads, AnswerLoad(l)
    PROVE  DashboardInv'
<1> USE DEF DashboardInv
<1>1. UNCHANGED <<live, accounts, totals, wallet, moves, reads, page, busy, submits>>
  BY DEF AnswerLoad, chainVars, walletVars, panelVars
<1>2. PICK answer \in {StatsOf(l.of), Failed} :
        loads' = (loads \ {l}) \cup {[l EXCEPT !.answer = answer]}
  BY DEF AnswerLoad
<1> DEFINE k == [l EXCEPT !.answer = answer]
<1>3. loads = {l} /\ l \in Load /\ l.of \in Members
  BY OnlyLoad DEF DashboardTypeOK, Load
<1>4. loads' = {k}
  BY <1>2, <1>3
<1>5. accounts[l.of] \in OnChain
  BY <1>3 DEF DashboardTypeOK, OnChain
<1>6. answer \in Stats \cup {Unread, Failed}
  BY <1>3, <1>5 DEF StatsOf, Stats, OnChain
<1>7. k \in Load /\ k.of = l.of /\ k.answer = answer
  BY <1>3, <1>6 DEF Load
<1> HIDE DEF k
<1>8. IsFiniteSet(loads)' /\ Cardinality(loads)' = 1
  BY <1>4, FS_Singleton
<1>9. DashboardTypeOK'
  BY <1>1, <1>4, <1>7, <1>8 DEF DashboardTypeOK
<1>10. OrderlyLoad(l, page, accounts) /\
       (page.stats.of # Nobody => page.stats.seq <= accounts[page.stats.of].seq)
  BY DEF Loading
<1>11. OrderlyLoad(k, page, accounts)
  <2>1. answer # Failed => answer.of = l.of /\ answer.seq = accounts[l.of].seq
    BY <1>2 DEF StatsOf
  <2>2. accounts[l.of].seq <= accounts[l.of].seq
    BY <1>5 DEF OnChain
  <2>3. l.of # Nobody
    BY <1>3, DashboardAssumption DEF DashboardAssumption
  <2> QED
    BY <1>7, <1>10, <2>1, <2>2, <2>3 DEF OrderlyLoad
<1>12. Loading(loads, page, accounts)'
  BY <1>1, <1>4, <1>10, <1>11 DEF Loading, OrderlyLoad
<1> QED
  BY <1>1, <1>8, <1>9, <1>12, NothingSubmitted

\* A load that answers leaves no load, and the page with its statistics, which
\* are those of the account shown and no older than the ones they replace.
LEMMA FinishStep ==
    ASSUME DashboardInv, NEW l \in loads, FinishLoad(l)
    PROVE  /\ DashboardInv'
           /\ page'.stats # page.stats =>
                /\ page'.stats.of = page.effect
                /\ page.stats.of = page.effect => page'.stats.seq >= page.stats.seq
<1> USE DEF DashboardInv
<1>1. UNCHANGED <<live, accounts, totals, wallet, moves, reads, busy, submits>>
  BY DEF FinishLoad, chainVars, walletVars, panelVars
<1>2. loads = {l} /\ l \in Load /\ l.of \in Members /\ page \in Page
  BY OnlyLoad DEF DashboardTypeOK, Load
<1>3. loads' = {}
  BY <1>2 DEF FinishLoad
<1>4. IsFiniteSet(loads)' /\ Cardinality(loads)' = 0
  BY <1>3, FS_EmptySet
<1>5. /\ OrderlyLoad(l, page, accounts)
      /\ page.stats.of # Nobody => page.stats.seq <= accounts[page.stats.of].seq
  BY DEF Loading
<1>6. CASE l.answer = Failed
  <2>1. page' \in Page /\ page'.stats = page.stats
    BY <1>2, <1>6 DEF FinishLoad, Page
  <2>2. DashboardTypeOK'
    BY <1>1, <1>3, <1>4, <2>1 DEF DashboardTypeOK
  <2>3. Loading(loads, page, accounts)'
    BY <1>1, <1>3, <1>5, <2>1 DEF Loading
  <2> QED
    BY <1>1, <1>4, <2>1, <2>2, <2>3, NothingSubmitted
<1>7. CASE l.answer # Failed
  <2>1. l.answer \in Stats /\ l.answer \notin {Unread, Failed}
    BY <1>2, <1>7 DEF FinishLoad, Load
  <2>2. page' \in Page /\ page'.stats = l.answer
    BY <1>2, <1>7, <2>1 DEF FinishLoad, Page
  <2>3. DashboardTypeOK'
    BY <1>1, <1>3, <1>4, <2>2 DEF DashboardTypeOK
  <2>4. /\ l.of = page.effect /\ l.answer.of = l.of /\ l.answer.seq <= accounts[l.of].seq
        /\ page.stats.of = l.of => page.stats.seq <= l.answer.seq
    BY <1>5, <2>1 DEF OrderlyLoad
  <2>5. Loading(loads, page, accounts)'
    BY <1>1, <1>3, <2>2, <2>4 DEF Loading
  <2>6. l.answer.seq \in Int /\ page.stats.seq \in Int
    BY <1>2, <2>1 DEF Stats, Page
  <2>7. page.stats.of = page.effect => page'.stats.seq >= page.stats.seq
    BY <2>2, <2>4, <2>6
  <2> QED
    BY <1>1, <1>4, <2>2, <2>3, <2>4, <2>5, <2>7, NothingSubmitted
<1> QED
  BY <1>6, <1>7

-----------------------------------------------------------------------------
(* Steps of a submit, and of the ledger it is sent to.                     *)

\* A submit that moves on, whatever becomes of the panel and the page.
LEMMA SubmitMovesOn ==
    ASSUME DashboardInv, NEW i \in DOMAIN submits, NEW s \in Submit,
           UNCHANGED <<live, wallet, moves, reads, loads>>,
           accounts' \in [Members -> OnChain], totals' \in Account, SimulatorSound',
           \A m \in Members : accounts[m].seq <= accounts'[m].seq,
           submits' = [submits EXCEPT ![i] = s],
           OrderlySubmit(s, accounts'),
           \/ s.tx # "success"
           \/ submits[i].tx = "success" /\ s.from = submits[i].from /\ s.seq = submits[i].seq
           \/ s.seq = accounts[s.from].seq,
           s.stage \in {"ok", "error"} => busy' = IF busy = i THEN 0 ELSE busy,
           s.stage \notin {"ok", "error"} => busy' = busy,
           page' \in {page, [page EXCEPT !.refresh = TRUE]}
    PROVE  DashboardInv'
<1> USE DEF DashboardInv
<1>1. /\ submits \in Seq(Submit) /\ accounts \in [Members -> OnChain] /\ page \in Page
      /\ busy = 0 \/ (busy \in DOMAIN submits /\ submits[busy].stage \notin {"ok", "error"})
  BY DEF DashboardTypeOK, OnChain
<1>2. /\ submits' \in Seq(Submit)
      /\ DOMAIN submits' = DOMAIN submits
      /\ \A j \in DOMAIN submits : submits'[j] = IF j = i THEN s ELSE submits[j]
      /\ Orderly(submits, accounts)' /\ Distinct(submits)'
  BY <1>1, OneMovesOn
<1>3. busy' = 0 \/ (busy' \in DOMAIN submits' /\ submits'[busy'].stage \notin {"ok", "error"})
  <2>1. i # 0
    BY <1>1, LenProperties
  <2>2. CASE busy' = 0
    BY <2>2
  <2>3. CASE busy' # 0
    <3>1. busy' = busy /\ busy \in DOMAIN submits
      BY <1>1, <2>3
    <3>2. CASE busy = i
      BY <1>2, <2>1, <3>1, <3>2
    <3>3. CASE busy # i
      BY <1>1, <1>2, <2>3, <3>1, <3>3
    <3> QED
      BY <3>2, <3>3
  <2> QED
    BY <2>2, <2>3
<1>4. page' \in Page /\ page'.effect = page.effect /\ page'.stats = page.stats
  BY <1>1 DEF Page
<1>5. DashboardTypeOK'
  BY <1>2, <1>3, <1>4 DEF DashboardTypeOK, OnChain
<1>6. Loading(loads, page, accounts)'
  BY <1>4, LoadingStays
<1> QED
  BY <1>2, <1>5, <1>6


\* The same, of a step that leaves the accounts alone.
LEMMA SubmitMovesAlone ==
    ASSUME DashboardInv, NEW i \in DOMAIN submits, NEW s \in Submit,
           UNCHANGED <<live, chainVars, walletVars, loads>>,
           submits' = [submits EXCEPT ![i] = s],
           OrderlySubmit(s, accounts),
           s.tx = submits[i].tx \/ s.tx # "success",
           (s.from = submits[i].from /\ s.seq = submits[i].seq) \/ s.tx # "success",
           s.stage \in {"ok", "error"} => busy' = IF busy = i THEN 0 ELSE busy,
           s.stage \notin {"ok", "error"} => busy' = busy,
           page' \in {page, [page EXCEPT !.refresh = TRUE]}
    PROVE  DashboardInv'
<1>1. UNCHANGED <<live, accounts, totals, wallet, moves, reads, loads>>
  BY DEF chainVars, walletVars
<1>2. accounts' \in [Members -> OnChain] /\ totals' \in Account
  BY <1>1 DEF DashboardInv, DashboardTypeOK, OnChain
<1>3. SimulatorSound'
  BY <1>1 DEF DashboardInv, SimulatorSound
<1>4. \A m \in Members : accounts[m].seq <= accounts'[m].seq
  BY <1>1, <1>2 DEF OnChain
<1>5. OrderlySubmit(s, accounts')
  BY <1>1 DEF OrderlySubmit
<1>6. \/ s.tx # "success"
      \/ submits[i].tx = "success" /\ s.from = submits[i].from /\ s.seq = submits[i].seq
      \/ s.seq = accounts[s.from].seq
  OBVIOUS
<1> QED
  BY <1>1, <1>2, <1>3, <1>4, <1>5, <1>6, SubmitMovesOn

\* A submit of the session, as it is before a step.
LEMMA SubmitIs ==
    ASSUME DashboardInv, NEW i \in DOMAIN submits
    PROVE  /\ submits[i] \in Submit /\ submits[i].from \in Members
           /\ OrderlySubmit(submits[i], accounts)
           /\ accounts \in [Members -> OnChain] /\ page \in Page
<1>1. submits \in Seq(Submit) /\ accounts \in [Members -> OnChain] /\ page \in Page
  BY DEF DashboardInv, DashboardTypeOK, OnChain
<1>2. i \in 1..Len(submits)
  BY <1>1, LenProperties
<1>3. submits[i] \in Submit
  BY <1>1, <1>2, ElementOfSeq
<1> QED
  BY <1>1, <1>3 DEF DashboardInv, Orderly, Submit

\* What is settled has no time left.
LEMMA NoTimeLeft == 0 \in 0..ValidFor
  BY DashboardAssumption DEF DashboardAssumption

\* An error ends a submit, sent or not.
LEMMA EndsInErrorStep ==
    ASSUME DashboardInv, NEW i \in DOMAIN submits, NEW x \in Submit, live,
           x.from = submits[i].from, x.seq = submits[i].seq,
           x.tx = submits[i].tx \/ x.tx = "pending", EndsInError(i, x)
    PROVE  DashboardInv'
<1> DEFINE s == [x EXCEPT !.stage = "error"]
<1>1. OrderlySubmit(submits[i], accounts)
  BY SubmitIs
<1>2. s \in Submit /\ s.stage = "error" /\ s.tx = x.tx /\ s.from = x.from /\ s.seq = x.seq
  BY DEF Submit
<1>3. submits' = [submits EXCEPT ![i] = s]
  BY DEF EndsInError
<1>4. /\ UNCHANGED <<live, chainVars, walletVars, loads, page>>
      /\ busy' = IF busy = i THEN 0 ELSE busy
  BY DEF EndsInError, pageVars
<1> HIDE DEF s
<1>5. OrderlySubmit(s, accounts)
  BY <1>1, <1>2 DEF OrderlySubmit
<1> QED
  BY <1>2, <1>3, <1>4, <1>5, SubmitMovesAlone

LEMMA FailsStep ==
    ASSUME DashboardInv, NEW i \in DOMAIN submits, live, Fails(i)
    PROVE  DashboardInv'
  BY SubmitIs, EndsInErrorStep DEF Fails

LEMMA SucceedsStep ==
    ASSUME DashboardInv, NEW i \in DOMAIN submits, submits[i].tx = "success", Succeeds(i)
    PROVE  DashboardInv'
<1> DEFINE s == [submits[i] EXCEPT !.stage = "ok"]
<1>1. /\ submits[i] \in Submit /\ OrderlySubmit(submits[i], accounts)
  BY SubmitIs
<1>2. s \in Submit /\ s.stage = "ok" /\ s.tx = submits[i].tx /\ s.from = submits[i].from
      /\ s.seq = submits[i].seq
  BY <1>1 DEF Submit
<1>3. submits' = [submits EXCEPT ![i] = s]
  BY DEF Succeeds
<1>4. /\ UNCHANGED <<live, chainVars, walletVars, loads>>
      /\ busy' = IF busy = i THEN 0 ELSE busy
      /\ page' = [page EXCEPT !.refresh = TRUE]
  BY DEF Succeeds
<1> HIDE DEF s
<1>5. OrderlySubmit(s, accounts)
  BY <1>1, <1>2 DEF OrderlySubmit
<1> QED
  BY <1>2, <1>3, <1>4, <1>5, SubmitMovesAlone

\* A submit that goes on without an end, and without a success.
LEMMA ProceedsStep ==
    ASSUME DashboardInv, NEW i \in DOMAIN submits, NEW s \in Submit, live,
           s.tx # "success", s.stage \in {"prepare", "sign", "sent", "poll", "pause"},
           s.stage \in {"prepare", "sign"} => s.tx = "none",
           Proceeds(i, s)
    PROVE  DashboardInv'
<1>1. /\ submits' = [submits EXCEPT ![i] = s]
      /\ UNCHANGED <<live, chainVars, walletVars, loads, page, busy>>
  BY DEF Proceeds, pageVars
<1>2. OrderlySubmit(s, accounts)
  BY DEF OrderlySubmit
<1> QED
  BY <1>1, <1>2, SubmitMovesAlone

LEMMA PrepareStep ==
    ASSUME DashboardInv, NEW i \in DOMAIN submits, Prepare(i)
    PROVE  DashboardInv'
<1>1. /\ submits[i] \in Submit /\ submits[i].from \in Members
      /\ OrderlySubmit(submits[i], accounts) /\ accounts \in [Members -> OnChain]
  BY SubmitIs
<1>2. submits[i].stage = "prepare" /\ submits[i].tx = "none" /\ live
  BY <1>1 DEF Prepare, OrderlySubmit
<1>3. CASE Fails(i)
  BY <1>2, <1>3, FailsStep
<1> DEFINE s == [submits[i] EXCEPT !.stage = "sign", !.seq = accounts[submits[i].from].seq]
<1>4. CASE Proceeds(i, s)
  <2>1. accounts[submits[i].from].seq \in Nat
    BY <1>1 DEF OnChain
  <2>2. s \in Submit /\ s.stage = "sign" /\ s.tx = "none"
    BY <1>1, <1>2, <2>1 DEF Submit
  <2> HIDE DEF s
  <2> QED
    BY <1>2, <1>4, <2>2, ProceedsStep
<1> QED
  BY <1>3, <1>4 DEF Prepare

LEMMA SignStep ==
    ASSUME DashboardInv, NEW i \in DOMAIN submits, SignAndSend(i)
    PROVE  DashboardInv'
<1>1. /\ submits[i] \in Submit /\ OrderlySubmit(submits[i], accounts)
  BY SubmitIs
<1>2. submits[i].stage = "sign" /\ submits[i].tx = "none" /\ live
  BY <1>1 DEF SignAndSend, OrderlySubmit
<1>3. CASE Fails(i)
  BY <1>2, <1>3, FailsStep
<1> DEFINE lost == [submits[i] EXCEPT !.stage = "sent", !.tx = "dropped", !.valid = 0]
           taken == [submits[i] EXCEPT !.tx = "pending"]
           sent == [taken EXCEPT !.stage = "sent"]
<1>4. /\ lost \in Submit /\ lost.stage = "sent" /\ lost.tx = "dropped"
      /\ taken \in Submit /\ taken.tx = "pending"
      /\ taken.from = submits[i].from /\ taken.seq = submits[i].seq
      /\ sent \in Submit /\ sent.stage = "sent" /\ sent.tx = "pending"
  BY <1>1, <1>2, NoTimeLeft DEF Submit
<1>5. Fails(i) \/ Proceeds(i, lost) \/ Proceeds(i, sent) \/ EndsInError(i, taken)
  BY DEF SignAndSend
<1> HIDE DEF lost, taken, sent
<1>6. CASE Proceeds(i, lost)
  BY <1>2, <1>4, <1>6, ProceedsStep
<1>7. CASE Proceeds(i, sent)
  BY <1>2, <1>4, <1>7, ProceedsStep
<1>8. CASE EndsInError(i, taken)
  BY <1>2, <1>4, <1>8, EndsInErrorStep
<1> QED
  BY <1>3, <1>5, <1>6, <1>7, <1>8

LEMMA PollStep ==
    ASSUME DashboardInv, NEW i \in DOMAIN submits,
           Poll(i) \/ PollAgain(i) \/ FinishSimulated(i)
    PROVE  DashboardInv'
<1>1. submits[i] \in Submit /\ OrderlySubmit(submits[i], accounts)
  BY SubmitIs
<1>2. CASE FinishSimulated(i)
  BY <1>1, <1>2, SucceedsStep DEF FinishSimulated, OrderlySubmit
<1>3. CASE Poll(i)
  <2> DEFINE s == [submits[i] EXCEPT !.stage = "pause"]
  <2>1. live
    BY <1>1, <1>3 DEF Poll, Polling, OrderlySubmit
  <2>2. s \in Submit /\ s.stage = "pause" /\ s.tx = submits[i].tx
    BY <1>1 DEF Submit
  <2>3. \/ submits[i].tx = "success" /\ Succeeds(i)
        \/ submits[i].tx # "success" /\ Proceeds(i, s)
        \/ Fails(i)
    BY <1>3 DEF Poll, NotFound
  <2> HIDE DEF s
  <2> QED
    BY <2>1, <2>2, <2>3, SucceedsStep, FailsStep, ProceedsStep
<1>4. CASE PollAgain(i)
  <2> DEFINE s == [submits[i] EXCEPT !.stage = "poll"]
  <2>1. live
    BY <1>1, <1>4 DEF PollAgain, OrderlySubmit
  <2>2. /\ s \in Submit /\ s.stage = "poll" /\ s.from = submits[i].from
        /\ s.seq = submits[i].seq /\ s.tx = submits[i].tx
    BY <1>1 DEF Submit
  <2>3. /\ submits' = [submits EXCEPT ![i] = s]
        /\ UNCHANGED <<live, chainVars, walletVars, loads, page, busy>>
    BY <1>4 DEF PollAgain, Proceeds, pageVars
  <2> HIDE DEF s
  <2>4. OrderlySubmit(s, accounts)
    BY <1>1, <2>1, <2>2 DEF OrderlySubmit
  <2> QED
    BY <2>2, <2>3, <2>4, SubmitMovesAlone
<1> QED
  BY <1>2, <1>3, <1>4

LEMMA DropStep ==
    ASSUME DashboardInv, NEW i \in DOMAIN submits, Drop(i)
    PROVE  DashboardInv'
<1> DEFINE s == [submits[i] EXCEPT !.tx = "dropped", !.valid = 0]
<1>1. /\ submits[i] \in Submit /\ OrderlySubmit(submits[i], accounts)
  BY SubmitIs
<1>2. submits[i].tx = "pending"
  BY DEF Drop
<1>3. /\ s \in Submit /\ s.tx = "dropped" /\ s.stage = submits[i].stage
      /\ s.stage \notin {"prepare", "sign", "wait", "ok"} /\ live
  BY <1>1, <1>2, NoTimeLeft DEF OrderlySubmit, Submit
<1>4. /\ submits' = [submits EXCEPT ![i] = s]
      /\ UNCHANGED <<live, chainVars, walletVars, loads, page, busy>>
  BY DEF Drop, Proceeds, pageVars
<1>5. s.stage = "error" => busy # i
  BY <1>3 DEF DashboardInv, DashboardTypeOK
<1> HIDE DEF s
<1>6. OrderlySubmit(s, accounts)
  BY <1>3 DEF OrderlySubmit
<1>7. s.stage \in {"ok", "error"} => busy' = IF busy = i THEN 0 ELSE busy
  BY <1>3, <1>4, <1>5
<1> QED
  BY <1>3, <1>4, <1>6, <1>7, SubmitMovesAlone


\* Of what is asked the pool serves no more than there is.
LEMMA ServedIs ==
    ASSUME NEW s \in Submit, accounts \in [Members -> OnChain]
    PROVE  /\ Served(s) \in Nat
           /\ s.action = "withdraw" => Served(s) <= accounts[s.from].deposit
           /\ s.action = "repay" => Served(s) <= accounts[s.from].borrow
<1>1. s.amount \in Nat /\ s.action \in Actions /\ s.from \in Members
  BY DEF Submit
<1>2. accounts[s.from].deposit \in Nat /\ accounts[s.from].borrow \in Nat
  BY <1>1 DEF OnChain
<1> QED
  BY <1>1, <1>2 DEF Served, Actions

LEMMA IncludeStep ==
    ASSUME DashboardInv, NEW i \in DOMAIN submits, Include(i)
    PROVE  DashboardInv'
<1> DEFINE s == submits[i]
<1>1. /\ s \in Submit /\ s.from \in Members /\ s.action \in Actions
      /\ OrderlySubmit(s, accounts) /\ accounts \in [Members -> OnChain]
  BY SubmitIs DEF Submit
<1>2. /\ s.tx = "pending" /\ s.seq = accounts[s.from].seq
      /\ UNCHANGED <<live, totals, walletVars, loads, page, busy>>
  BY DEF Include, pageVars
<1>3. live /\ s.stage \notin {"prepare", "sign", "wait", "ok"}
  BY <1>1, <1>2 DEF OrderlySubmit, Submit
<1>4. s.stage = "error" => busy # i
  BY DEF DashboardInv, DashboardTypeOK
<1>5. SimulatorSound'
  BY <1>2, <1>3 DEF SimulatorSound
<1>6. totals' \in Account
  BY <1>2 DEF DashboardInv, DashboardTypeOK
<1>7. CASE /\ submits' = [submits EXCEPT ![i].tx = "success", ![i].valid = 0]
           /\ Credit(s.from, s.action, Served(s))
  <2> DEFINE t == [s EXCEPT !.tx = "success", !.valid = 0]
  <2>1. /\ t \in Submit /\ t.tx = "success" /\ t.stage = s.stage
        /\ t.from = s.from /\ t.seq = s.seq
    BY <1>1, NoTimeLeft DEF Submit
  <2>2. submits' = [submits EXCEPT ![i] = t]
    BY <1>7
  <2>3. /\ accounts' \in [Members -> OnChain]
        /\ accounts'[s.from].seq = accounts[s.from].seq + 1
        /\ \A u \in Members \ {s.from} : accounts'[u] = accounts[u]
    <3>1. /\ Served(s) \in Nat
          /\ s.action = "withdraw" => Served(s) <= accounts[s.from].deposit
          /\ s.action = "repay" => Served(s) <= accounts[s.from].borrow
      BY <1>1, ServedIs
    <3> HIDE DEF s
    <3> QED
      BY <1>1, <1>7, <3>1, CreditIs
  <2> HIDE DEF s, t
  <2>4. \A m \in Members : accounts[m].seq <= accounts'[m].seq
    BY <1>1, <2>3 DEF OnChain
  <2>5. t.seq < accounts'[t.from].seq
    <3>1. accounts[s.from].seq \in Nat
      BY <1>1 DEF OnChain
    <3> QED
      BY <1>2, <2>1, <2>3, <3>1
  <2>6. OrderlySubmit(t, accounts')
    BY <1>2, <1>3, <2>1, <2>5 DEF OrderlySubmit
  <2>7. UNCHANGED <<live, wallet, moves, reads, loads>> /\ page' = page
    BY <1>2 DEF walletVars
  <2>8. /\ t.stage \in {"ok", "error"} => busy' = IF busy = i THEN 0 ELSE busy
        /\ t.stage \notin {"ok", "error"} => busy' = busy
    BY <1>2, <1>3, <1>4, <2>1
  <2>9. t.seq = accounts[t.from].seq
    BY <1>2, <2>1
  <2> QED
    BY <1>5, <1>6, <2>1, <2>2, <2>3, <2>4, <2>6, <2>7, <2>8, <2>9, SubmitMovesOn
<1>8. CASE /\ submits' = [submits EXCEPT ![i].tx = "failed", ![i].valid = 0]
           /\ accounts' = [accounts EXCEPT ![s.from].seq = @ + 1]
  <2> DEFINE t == [s EXCEPT !.tx = "failed", !.valid = 0]
  <2>1. t \in Submit /\ t.tx = "failed" /\ t.stage = s.stage
    BY <1>1, NoTimeLeft DEF Submit
  <2>2. submits' = [submits EXCEPT ![i] = t]
    BY <1>8
  <2>3. /\ accounts' \in [Members -> OnChain]
        /\ \A m \in Members : accounts[m].seq <= accounts'[m].seq
    <3> HIDE DEF s
    <3> QED
      BY <1>1, <1>8 DEF OnChain
  <2> HIDE DEF s, t
  <2>4. OrderlySubmit(t, accounts')
    BY <1>2, <1>3, <2>1 DEF OrderlySubmit
  <2>5. UNCHANGED <<live, wallet, moves, reads, loads>> /\ page' = page
    BY <1>2 DEF walletVars
  <2>6. /\ t.stage \in {"ok", "error"} => busy' = IF busy = i THEN 0 ELSE busy
        /\ t.stage \notin {"ok", "error"} => busy' = busy
    BY <1>2, <1>3, <1>4, <2>1
  <2> QED
    BY <1>5, <1>6, <2>1, <2>2, <2>3, <2>4, <2>5, <2>6, SubmitMovesOn
<1> QED
  BY <1>7, <1>8 DEF Include

LEMMA AgedIs ==
    ASSUME DashboardAssumption, NEW s \in Submit
    PROVE  LET t == Aged(s)
           IN /\ t \in Submit /\ t.stage = s.stage /\ t.tx = s.tx
              /\ t.from = s.from /\ t.seq = s.seq
<1>1. /\ \A n \in 0..ValidFor : Sooner(n) \in 0..ValidFor
      /\ \A n \in 0..PollFor : Sooner(n) \in 0..PollFor
  BY DEF Sooner, DashboardAssumption
<1>2. s.valid \in 0..ValidFor /\ s.poll \in 0..PollFor
  BY DEF Submit
<1> DEFINE v == IF s.stage = "sign" \/ s.tx = "pending" THEN Sooner(s.valid) ELSE s.valid
           p == IF s.stage \in {"poll", "pause"} THEN Sooner(s.poll) ELSE s.poll
<1>3. v \in 0..ValidFor /\ p \in 0..PollFor
  BY <1>1, <1>2
<1>4. Aged(s) = [s EXCEPT !.valid = v, !.poll = p]
  BY DEF Aged
<1> HIDE DEF v, p
<1> QED
  BY <1>3, <1>4 DEF Submit

LEMMA PassTimeStep ==
    ASSUME DashboardAssumption, DashboardInv, PassTime
    PROVE  DashboardInv'
<1>1. submits \in Seq(Submit) /\ UNCHANGED <<live, accounts, totals, wallet, moves, reads, page, loads, busy>>
  BY DEF DashboardInv, DashboardTypeOK, PassTime, chainVars, walletVars, pageVars
<1>2. /\ submits' = [i \in 1..Len(submits) |-> Aged(submits[i])]
      /\ DOMAIN submits' = DOMAIN submits /\ DOMAIN submits = 1..Len(submits)
      /\ Len(submits) \in Nat
  BY <1>1, LenProperties DEF PassTime
<1>3. \A i \in DOMAIN submits :
        /\ submits'[i] \in Submit /\ submits'[i].stage = submits[i].stage
        /\ submits'[i].tx = submits[i].tx /\ submits'[i].from = submits[i].from
        /\ submits'[i].seq = submits[i].seq
  <2> SUFFICES ASSUME NEW i \in DOMAIN submits
               PROVE  /\ submits'[i] \in Submit /\ submits'[i].stage = submits[i].stage
                      /\ submits'[i].tx = submits[i].tx /\ submits'[i].from = submits[i].from
                      /\ submits'[i].seq = submits[i].seq
    OBVIOUS
  <2>1. submits[i] \in Submit
    BY SubmitIs
  <2>2. submits'[i] = Aged(submits[i])
    BY <1>2
  <2> QED
    BY <2>1, <2>2, AgedIs
<1>4. submits' \in Seq(Submit)
  <2>1. \A i \in 1..Len(submits) : Aged(submits[i]) \in Submit
    BY <1>2, <1>3
  <2> QED
    BY <1>2, <2>1, IsASeq
<1>5. DashboardTypeOK'
  <2>1. busy = 0 \/ (busy \in DOMAIN submits /\ submits[busy].stage \notin {"ok", "error"})
    BY DEF DashboardInv, DashboardTypeOK
  <2>2. busy' = 0 \/ (busy' \in DOMAIN submits' /\ submits'[busy'].stage \notin {"ok", "error"})
    BY <1>1, <1>2, <1>3, <2>1
  <2> QED
    BY <1>1, <1>4, <2>2 DEF DashboardInv, DashboardTypeOK
<1>6. Orderly(submits, accounts)'
  <2> SUFFICES ASSUME NEW i \in DOMAIN submits
               PROVE  OrderlySubmit(submits[i], accounts)'
    BY <1>2 DEF Orderly
  <2>1. OrderlySubmit(submits[i], accounts)
    BY SubmitIs
  <2> QED
    BY <1>1, <1>3, <2>1 DEF OrderlySubmit
<1>7. Distinct(submits)'
  BY <1>1, <1>2, <1>3 DEF DashboardInv, Distinct
<1>8. SimulatorSound' /\ Loading(loads, page, accounts)' /\ IsFiniteSet(loads)'
  BY <1>1 DEF DashboardInv, SimulatorSound, Loading, OrderlyLoad
<1> QED
  BY <1>5, <1>6, <1>7, <1>8 DEF DashboardInv

-----------------------------------------------------------------------------
(* A new submit.                                                           *)

\* One more submit, which has not had an effect on the ledger.
LEMMA OneMoreSubmit ==
    ASSUME DashboardInv, NEW s \in Submit,
           UNCHANGED <<live, walletVars, pageVars>>,
           accounts' \in [Members -> OnChain], totals' \in Account, SimulatorSound',
           \A m \in Members : accounts[m].seq <= accounts'[m].seq,
           submits' = Append(submits, s), busy' = Len(submits) + 1,
           OrderlySubmit(s, accounts'), live => s.tx # "success",
           s.stage \notin {"ok", "error"}
    PROVE  DashboardInv'
<1>1. /\ submits \in Seq(Submit) /\ Len(submits) \in Nat /\ DOMAIN submits = 1..Len(submits)
      /\ accounts \in [Members -> OnChain]
      /\ UNCHANGED <<live, wallet, moves, reads, page, loads>>
  BY LenProperties DEF DashboardInv, DashboardTypeOK, walletVars, pageVars, OnChain
<1>2. /\ submits' \in Seq(Submit) /\ Len(submits') = Len(submits) + 1
      /\ DOMAIN submits' = 1..(Len(submits) + 1)
      /\ submits'[Len(submits) + 1] = s
      /\ \A j \in 1..Len(submits) : submits'[j] = submits[j]
  <2>1. /\ submits' \in Seq(Submit) /\ Len(submits') = Len(submits) + 1
        /\ submits'[Len(submits) + 1] = s
        /\ \A j \in 1..Len(submits) : submits'[j] = submits[j]
    BY <1>1, AppendProperties
  <2> QED
    BY <2>1, LenProperties
<1>3. DashboardTypeOK'
  <2>1. busy' \in DOMAIN submits' /\ submits'[busy'].stage \notin {"ok", "error"}
    BY <1>1, <1>2
  <2> QED
    BY <1>1, <1>2, <2>1 DEF DashboardInv, DashboardTypeOK, OnChain
<1>4. Orderly(submits, accounts)'
  <2> SUFFICES ASSUME NEW j \in 1..(Len(submits) + 1)
               PROVE  OrderlySubmit(submits[j], accounts)'
    BY <1>2 DEF Orderly
  <2>1. CASE j = Len(submits) + 1
    BY <1>2, <2>1 DEF OrderlySubmit
  <2>2. CASE j # Len(submits) + 1
    <3> DEFINE t == submits[j]
    <3>1. j \in DOMAIN submits /\ submits'[j] = t
      BY <1>1, <1>2, <2>2
    <3>2. OrderlySubmit(t, accounts) /\ t \in Submit /\ t.from \in Members
      BY <3>1, SubmitIs
    <3> HIDE DEF t
    <3>3. /\ accounts[t.from].seq <= accounts'[t.from].seq
          /\ accounts[t.from].seq \in Nat /\ accounts'[t.from].seq \in Nat /\ t.seq \in Nat
      BY <1>1, <3>2 DEF OnChain, Submit
    <3>4. t.seq < accounts[t.from].seq => t.seq < accounts'[t.from].seq
      BY <3>3
    <3> QED
      BY <3>1, <3>2, <3>4 DEF OrderlySubmit
  <2> QED
    BY <2>1, <2>2
<1>5. Distinct(submits)'
  <2> SUFFICES ASSUME live, NEW j \in 1..(Len(submits) + 1), NEW k \in 1..(Len(submits) + 1),
                      j # k, submits'[j].tx = "success", submits'[k].tx = "success",
                      submits'[j].from = submits'[k].from
               PROVE  submits'[j].seq # submits'[k].seq
    BY <1>1, <1>2 DEF Distinct
  <2>1. j # Len(submits) + 1 /\ k # Len(submits) + 1
    BY <1>2
  <2>2. j \in 1..Len(submits) /\ k \in 1..Len(submits)
    BY <1>1, <2>1
  <2> QED
    BY <1>1, <1>2, <2>2 DEF DashboardInv, Distinct
<1>6. Loading(loads, page, accounts)'
  BY <1>1, LoadingStays DEF DashboardInv
<1> QED
  BY <1>1, <1>3, <1>4, <1>5, <1>6 DEF DashboardInv

\* What the member enters is an action with an amount, in either mode.
LEMMA AskIs ==
    ASSUME DashboardAssumption, DashboardInv, NEW ask \in Asks[live]
    PROVE  ask.action \in Actions /\ ask.amount \in Nat
<1>1. live \in BOOLEAN
  BY DEF DashboardInv, DashboardTypeOK
<1>2. Asks[live] \subseteq [action : Actions, amount : Nat]
  BY <1>1 DEF DashboardAssumption
<1> QED
  BY <1>2

LEMMA ClickLiveStep ==
    ASSUME DashboardAssumption, DashboardInv, NEW ask \in Asks[live], ClickLive(ask)
    PROVE  DashboardInv'
<1> DEFINE s == NewSubmit(ask, "prepare")
<1>1. /\ live /\ page.address # Nobody /\ busy' = Len(submits) + 1
      /\ submits' = Append(submits, s)
      /\ UNCHANGED <<live, accounts, totals, walletVars, pageVars>>
  BY DEF ClickLive, Click, chainVars
<1>2. /\ page.address \in Members /\ accounts \in [Members -> OnChain] /\ totals \in Account
  BY <1>1 DEF DashboardInv, DashboardTypeOK, Page, OnChain
<1>3. s \in Submit /\ s.stage = "prepare" /\ s.tx = "none"
  BY <1>2, AskIs DEF NewSubmit, Submit, DashboardAssumption
<1> HIDE DEF s
<1>4. OrderlySubmit(s, accounts')
  BY <1>1, <1>3 DEF OrderlySubmit
<1>5. SimulatorSound'
  BY <1>1 DEF SimulatorSound
<1>6. \A m \in Members : accounts[m].seq <= accounts'[m].seq
  BY <1>1, <1>2 DEF OnChain
<1> QED
  BY <1>1, <1>2, <1>3, <1>4, <1>5, <1>6, OneMoreSubmit

LEMMA ClickSimulatedStep ==
    ASSUME DashboardAssumption, DashboardInv, NEW ask \in Asks[live], ClickSimulated(ask)
    PROVE  DashboardInv'
<1> DEFINE m == page.address
           s == [NewSubmit(ask, "wait") EXCEPT !.tx = "success", !.seq = accounts[m].seq]
<1>1. /\ ~live /\ m # Nobody /\ busy' = Len(submits) + 1
      /\ CanApply(accounts[m], ask.action, ask.amount)
      /\ Credit(m, ask.action, ask.amount)
      /\ totals' = Bumped(totals, ask.action, ask.amount)
      /\ submits' = Append(submits, s)
      /\ UNCHANGED <<live, walletVars, pageVars>>
  BY DEF ClickSimulated, Click
<1>2. /\ m \in Members /\ accounts \in [Members -> OnChain] /\ totals \in Account
  BY <1>1 DEF DashboardInv, DashboardTypeOK, Page, OnChain
<1>3. ask.action \in Actions /\ ask.amount \in Nat
  BY AskIs
<1>4. accounts[m].seq \in Nat
  BY <1>2 DEF OnChain
<1>5. s \in Submit /\ s.stage = "wait" /\ s.tx = "success"
  <2> DEFINE n == NewSubmit(ask, "wait")
  <2>1. n \in Submit /\ n.stage = "wait"
    BY <1>2, <1>3 DEF NewSubmit, Submit, DashboardAssumption
  <2> HIDE DEF n, m
  <2>2. s = [n EXCEPT !.tx = "success", !.seq = accounts[m].seq]
    BY DEF n
  <2> QED
    BY <1>4, <2>1, <2>2 DEF Submit
<1> HIDE DEF s, m
<1>6. /\ SimulatorSound' /\ totals' \in Account
      /\ accounts' \in [Members -> OnChain]
  <2>1. live' = live /\ SimulatorSound
    BY <1>1 DEF DashboardInv
  <2> QED
    BY <1>1, <1>2, <1>3, <2>1, BooksFollow
<1>7. \A u \in Members : accounts[u].seq <= accounts'[u].seq
  <2>1. /\ ask.action = "withdraw" => ask.amount <= accounts[m].deposit
        /\ ask.action = "repay" => ask.amount <= accounts[m].borrow
    BY <1>1 DEF CanApply
  <2>2. /\ accounts'[m].seq = accounts[m].seq + 1
        /\ \A u \in Members \ {m} : accounts'[u] = accounts[u]
    BY <1>1, <1>2, <1>3, <2>1, CreditIs
  <2> QED
    BY <1>2, <1>4, <2>2 DEF OnChain
<1>8. OrderlySubmit(s, accounts')
  BY <1>1, <1>5 DEF OrderlySubmit
<1> QED
  BY <1>1, <1>5, <1>6, <1>7, <1>8, OneMoreSubmit

-----------------------------------------------------------------------------
(* The theorems.                                                           *)

LEMMA InitIsInv ==
    ASSUME DashboardAssumption, DashboardInit
    PROVE  DashboardInv
<1>1. IsFiniteSet(Members) /\ Nobody \notin Members
  BY DEF DashboardAssumption
<1>2. Opening.deposit \in Nat /\ Opening.borrow \in Nat /\ Opening.borrow <= 2 * Opening.deposit
  BY DEF DashboardAssumption, Account
<1>3. Cardinality(Members) \in Nat
  BY <1>1, FS_CardinalityType
<1>4. /\ accounts \in [Members -> OnChain]
      /\ \A m \in Members : /\ accounts[m].deposit = Opening.deposit
                            /\ accounts[m].borrow = Opening.borrow
  BY <1>2 DEF DashboardInit, OnChain
<1>5. /\ totals.deposit = Cardinality(Members) * Opening.deposit
      /\ totals.borrow = Cardinality(Members) * Opening.borrow
      /\ totals \in Account
  <2>1. /\ Cardinality(Members) * Opening.deposit \in Nat
        /\ Cardinality(Members) * Opening.borrow \in Nat
    BY <1>2, <1>3, ProductNat
  <2> QED
    BY <2>1 DEF DashboardInit, Account
<1>6. SimulatorSound
  <2>1. /\ [m \in Members |-> accounts[m].deposit] = [m \in Members |-> Opening.deposit]
        /\ [m \in Members |-> accounts[m].borrow] = [m \in Members |-> Opening.borrow]
    BY <1>4
  <2>2. /\ SumFunction([m \in Members |-> Opening.deposit]) = Cardinality(Members) * Opening.deposit
        /\ SumFunction([m \in Members |-> Opening.borrow]) = Cardinality(Members) * Opening.borrow
    BY <1>1, <1>2, SumOfSame
  <2>3. \A m \in Members : accounts[m].borrow <= 2 * accounts[m].deposit
    BY <1>2, <1>4
  <2> QED
    BY <1>5, <2>1, <2>2, <2>3 DEF SimulatorSound
<1>7. loads = {} /\ IsFiniteSet(loads) /\ Cardinality(loads) = 0 /\ page \in Page
      /\ page.stats.of = Nobody
  BY FS_EmptySet DEF DashboardInit, Page, Stats, NoStats
<1>8. submits = <<>> /\ submits \in Seq(Submit) /\ DOMAIN submits = {}
  BY EmptySeq DEF DashboardInit
<1>9. DashboardTypeOK
  BY <1>4, <1>5, <1>7, <1>8 DEF DashboardInit, DashboardTypeOK, OnChain, DashboardAssumption
<1>10. Orderly(submits, accounts) /\ Distinct(submits) /\ Loading(loads, page, accounts)
  BY <1>7, <1>8 DEF Orderly, Distinct, Loading
<1> QED
  BY <1>6, <1>7, <1>9, <1>10 DEF DashboardInv

LEMMA NextKeepsDashboardInv ==
    ASSUME DashboardAssumption, DashboardInv, DashboardNext
    PROVE  DashboardInv'
<1>1. CASE MemberStep
  <2>1. CASE \/ \E w \in Members \cup {Nobody} : ChangeWallet(w)
             \/ Refresh
    BY <2>1, WalletSteps
  <2>2. CASE \E ask \in Asks[live] : ClickLive(ask) \/ ClickSimulated(ask)
    BY <2>2, ClickLiveStep, ClickSimulatedStep
  <2> QED
    BY <1>1, <2>1, <2>2 DEF MemberStep
<1>2. CASE PageStep
  <2>1. CASE \/ ReadWallet
             \/ \E w \in Members \cup {Nobody} : AnswerWallet(w)
             \/ ClearError
    BY <2>1, WalletSteps
  <2>2. CASE RunEffect
    BY <2>2, EffectStep
  <2>3. CASE \E l \in loads : AnswerLoad(l) \/ FinishLoad(l)
    BY <2>3, AnswerStep, FinishStep
  <2> QED
    BY <1>2, <2>1, <2>2, <2>3 DEF PageStep
<1>3. CASE SubmitStep
  BY <1>3, PrepareStep, SignStep, PollStep DEF SubmitStep
<1>4. CASE LedgerStep
  BY <1>4, IncludeStep, DropStep, PassTimeStep DEF LedgerStep
<1> QED
  BY <1>1, <1>2, <1>3, <1>4 DEF DashboardNext

LEMMA StutterKeepsDashboardInv ==
    ASSUME DashboardInv, UNCHANGED dashboardVars
    PROVE  DashboardInv'
<1>1. UNCHANGED <<live, accounts, totals, wallet, moves, reads, page, loads, busy, submits>>
  BY DEF dashboardVars, chainVars, walletVars, pageVars, panelVars
<1> QED
  BY <1>1 DEF DashboardInv, DashboardTypeOK, SimulatorSound, Orderly, OrderlySubmit,
              Distinct, Loading, OrderlyLoad

\* Every state of the dashboard satisfies the inductive invariant.
THEOREM DashboardIsSound ==
    DashboardSpec => []DashboardInv
<1>1. DashboardInit => DashboardInv
  BY InitIsInv, DashboardAssumption
<1>2. DashboardInv /\ [DashboardNext]_dashboardVars => DashboardInv'
  BY NextKeepsDashboardInv, StutterKeepsDashboardInv, DashboardAssumption
<1> QED
  BY <1>1, <1>2, PTL DEF DashboardSpec

\* Types of the page's state: above all there is never more than one load the
\* page waits for, and the panel is busy only with a submit that has not ended.
THEOREM DashboardTypesHold ==
    DashboardSpec => []DashboardTypeOK
<1>1. DashboardInv => DashboardTypeOK
  BY DEF DashboardInv
<1> QED
  BY <1>1, DashboardIsSound, PTL

\* simulator.ts keeps its books: nobody owes more than twice the deposit, and the
\* totals adjusted on their own are the sums of the members' amounts.
THEOREM SimulatorKeepsItsBooks ==
    DashboardSpec => []SimulatorSound
<1>1. DashboardInv => SimulatorSound
  BY DEF DashboardInv
<1> QED
  BY <1>1, DashboardIsSound, PTL

\* What ActionPanel reports as a success took effect, and once: no two submits
\* built on one state of an account both did.
THEOREM ReportedSuccessIsTrue ==
    DashboardSpec => []SuccessIsTrue
<1>1. DashboardInv => SuccessIsTrue
  BY DEF DashboardInv, Orderly, OrderlySubmit, Distinct, SuccessIsTrue
<1> QED
  BY <1>1, DashboardIsSound, PTL

\* Statistics that reach the page are those of the account it is loading, and none
\* older than what it showed of it: of all steps, only the end of the load it waits
\* for brings any.  Which statistics stay shown until then is not said.
THEOREM NoOvertakenAnswerShown ==
    DashboardSpec => NoOvertakenAnswer
<1> DEFINE Shown ==
        page.stats' \notin {NoStats, page.stats} =>
          /\ page.stats'.of = page.effect
          /\ page.stats.of = page.effect => page.stats'.seq >= page.stats.seq
<1>1. DashboardInv /\ [DashboardNext]_dashboardVars => [Shown]_dashboardVars
  <2> SUFFICES ASSUME DashboardInv, DashboardNext
               PROVE  Shown
    OBVIOUS
  <2>1. page \in Page
    BY DEF DashboardInv, DashboardTypeOK
  <2>2. CASE \E l \in loads : FinishLoad(l)
    BY <2>2, FinishStep
  <2>3. CASE RunEffect
    BY <2>1, <2>3 DEF RunEffect, Page
  <2>4. CASE MemberStep
    BY <2>1, <2>4 DEF MemberStep, ChangeWallet, Refresh, ClickLive, ClickSimulated, pageVars, Page
  <2>5. CASE ReadWallet \/ ClearError
    BY <2>1, <2>5 DEF ReadWallet, ClearError, pageVars, Page
  <2>6. CASE \E w \in Members \cup {Nobody} : AnswerWallet(w)
    BY <2>1, <2>6 DEF AnswerWallet, ShowAddress, Page
  <2>7. CASE \E l \in loads : AnswerLoad(l)
    BY <2>7 DEF AnswerLoad
  <2>8. CASE SubmitStep
    <3>1. page' \in {page, [page EXCEPT !.refresh = TRUE]}
      BY <2>8 DEF SubmitStep, Prepare, SignAndSend, Poll, PollAgain, FinishSimulated, Fails,
                  EndsInError, Succeeds, Proceeds, pageVars
    <3> QED
      BY <2>1, <3>1 DEF Page
  <2>9. CASE LedgerStep
    BY <2>9 DEF LedgerStep, Include, Drop, Proceeds, PassTime, pageVars
  <2> QED
    BY <2>2, <2>3, <2>4, <2>5, <2>6, <2>7, <2>8, <2>9 DEF DashboardNext, PageStep
<1> QED
  BY <1>1, DashboardIsSound, PTL DEF DashboardSpec, NoOvertakenAnswer
=============================================================================
